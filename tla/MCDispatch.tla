----------------------------- MODULE MCDispatch -----------------------------
(* Small instances of Dispatch and its DayAheadPlan for TLC. *)
EXTENDS Dispatch

CONSTANTS d1, d2

Cfg(horizon, slotMinutes, capacity, min, max, set, tariffs) ==
    [horizon |-> horizon, slot |-> slotMinutes, capacity |-> capacity, limit |-> 50,
     min |-> min, max |-> max, minSet |-> set, maxSet |-> set, tariffs |-> tariffs]

Gap == <<Band(0, 8, 80), Band(18, 24, 120)>>
Single == <<Band(0, 24, 40)>>
Reversed == <<Band(9, 7, 40)>>

\* A slot shorter than the 15 minutes of the plan's start, one as long, a longer one.
Dispatched ==
    {Cfg(1, 5, 30, 20, 90, TRUE, <<>>), Cfg(1, 15, 30, 25, 90, TRUE, <<>>),
     Cfg(1, 60, 30, 40, 60, TRUE, <<Band(0, 8, 80), Band(8, 24, 120)>>)}

\* Fields left to the defaults, explicit zeros, equal limits, tariffs with a gap, a single
\* tariff, and configurations to refuse.
Planned ==
    {Cfg(3, 0, 0, 0, 0, FALSE, <<>>),
     Cfg(0, 60, 30, 0, 90, FALSE, <<>>),
     Cfg(1, 15, 150, 0, 100, TRUE, <<>>),
     Cfg(3, 60, 20, 40, 60, TRUE, Gap),
     Cfg(1, 30, 10, 50, 50, TRUE, <<>>),
     Cfg(1, 20, 150, 20, 80, TRUE, Single),
     Cfg(1, 15, 150, 0, 20, FALSE, <<>>),
     Cfg(1, 15, 150, 0, 0, TRUE, <<>>),
     Cfg(1, 7, 150, 0, 90, FALSE, <<>>),
     Cfg(1, 15, 150, 80, 60, TRUE, <<>>),
     Cfg(1, 15, 150, 25, 90, TRUE, Reversed)}

SomeConfigs == Dispatched \cup Planned

\* Plans, previews, and apply requests with and without confirmation, with limits that
\* are refused, left at 0, tight and wide.
SomeRequests ==
    {[kind |-> "plan", confirm |-> FALSE, max |-> 0, config |-> c] : c \in Planned}
        \cup {[kind |-> "preview", confirm |-> FALSE, max |-> 0, config |-> c] : c \in Dispatched}
        \cup {[kind |-> "apply", confirm |-> f, max |-> m, config |-> c] :
                 f \in BOOLEAN, m \in {-1, 0, 30}, c \in Dispatched}

\* No device, a battery beside another device, two batteries.
SomeRegistries ==
    {[d \in {d1, d2} |-> "none"], [d \in {d1, d2} |-> IF d = d1 THEN "battery" ELSE "other"],
     [d \in {d1, d2} |-> "battery"]}

\* PV, load, battery power and charge
Sum(pv, load, battery, soc) ==
    [pv |-> pv, load |-> load, net |-> load - pv - battery, soc |-> soc]

SomeSummaries ==
    {Sum(0, 0, 0, 0), Sum(20, 120, 40, 95), Sum(150, 60, -50, 10), Sum(10, 90, 0, 45)}

\* Before dawn, on a slot's start, in the peak, and before midnight.
SomeNows == {5 * 60 + 44, 12 * 60, 18 * 60 + 7, 23 * 60 + 59}

SomeShapes == {0, 55, 100}
=============================================================================
