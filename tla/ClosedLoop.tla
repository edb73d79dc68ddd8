----------------------------- MODULE ClosedLoop -----------------------------
(***************************************************************************)
(* The site in a closed loop: the platform's scheduler acts on what the    *)
(* Simulator has reported, and the simulator on what the scheduler and     *)
(* operators command.  The power of the battery is part of the net power   *)
(* the rules look at, so the loop has feedback.                            *)
(*                                                                         *)
(* A tick is one step here: Scheduler shows what happens within one.  A    *)
(* reading is in the store when its publication ends; a later arrival is   *)
(* a loop that waits longer before it publishes.                           *)
(***************************************************************************)
EXTENDS Simulator, Rules, Functions

CONSTANTS
    Sheddable,   \* loads registered as not critical
    Policy,      \* the policy in force, [min, max, shed]
    Cooldown,    \* 30 s, in steps of the clock
    MaxInbox,    \* bound: commands on their way to the simulator
    MaxOrders    \* bound: commands of operators

ASSUME LoopAssumption ==
    /\ Sheddable \subseteq Loads
    /\ Policy \in [min : Nat, max : Nat, shed : Nat]
    /\ Cooldown \in Nat \ {0}
    /\ {MaxInbox, MaxOrders} \subseteq Nat

VARIABLES
    tele,     \* Store.telemetry: the powers and the charge last reported
    age,      \* time since lastSent of each command, up to Cooldown
    orders,   \* commands of operators so far
    warned    \* history: the battery by its last event, "low" or "fine", or "unknown"

platformVars == <<tele, age>>
vars == <<simVars, platformVars, orders, warned>>

ScheduleKeys == {<<Battery, "charging">>, <<Battery, "discharging">>}
                    \cup (Sheddable \X {"off"})

NoTelemetry == [pv |-> 0, load |-> [l \in Loads |-> 0], battery |-> 0, soc |-> 0]

Init ==
    /\ SimInit
    /\ tele = NoTelemetry
    /\ age = [c \in ScheduleKeys |-> Cooldown]
    /\ orders = 0
    /\ warned = "fine"

-----------------------------------------------------------------------------
(* The simulator, and what the platform hears of it *)

\* PutTelemetry with the reading of this step of the loop.
Reported ==
    CASE loop = AtPV -> [tele EXCEPT !.pv = sun]
      [] loop = AtBattery -> [tele EXCEPT !.battery = sample.battery, !.soc = charge]
      [] OTHER -> [tele EXCEPT !.load[LoadSeq[loop - AtEvent]] =
                                   sample.load[LoadSeq[loop - AtEvent]]]

Report ==
    /\ publishState
    /\ tele' = Reported
    /\ UNCHANGED <<age, orders, warned>>

ReportEvent ==
    /\ publishEvent
    /\ warned' = CASE EventCode = "low_soc" -> "low"
                   [] EventCode = "soc_recovered" -> "fine"
                   [] EventCode = "none" -> warned
    /\ UNCHANGED <<platformVars, orders>>

\* An event the platform never hears of, and a simulator that starts anew.
LoseTrack ==
    /\ publishEventFails \/ Crash \/ handleCommandPanics
    /\ warned' = "unknown"
    /\ UNCHANGED <<platformVars, orders>>

Unheard ==
    /\ \/ \E p \in PVPowers : Sample(p)
       \/ publishStateFails \/ handleCommand
       \/ Reconnect \/ OnConnectFails \/ ConnectionLost
    /\ UNCHANGED <<platformVars, orders, warned>>

-----------------------------------------------------------------------------
(* The platform *)

\* Store.Summary: load - PV - battery as last reported, and as it is without the battery.
Net == SumFunction(tele.load) - tele.pv - tele.battery
Demand == SumFunction([l \in Loads |-> relayPower(l)]) - sun

\* publish: the cooldown of the command has passed.
Due(c) == age[c] = Cooldown

CanCharge == Surplus(Net) /\ HasRoom(tele.soc, Policy) /\ Due(<<Battery, "charging">>)
CanDischarge == Deficit(Net) /\ HasCharge(tele.soc, Policy) /\ Due(<<Battery, "discharging">>)
CanShed(l) == Overload(Net, Policy) /\ l \in Sheddable /\ Due(<<l, "off">>)

\* The broker hands a command to the simulator if that has subscribed.
Deliver(c) ==
    /\ Len(inbox) < MaxInbox
    /\ inbox' = IF link = "subscribed" THEN Append(inbox, c) ELSE inbox
    /\ UNCHANGED <<proc, link, device, loop, sample, sun>>

\* A tick that publishes c.
Issue(c) ==
    /\ Deliver(c)
    /\ age' = [age EXCEPT ![c] = 0]
    /\ UNCHANGED <<tele, orders, warned, faults>>

\* Tick: charge, or discharge, or else shed.
Tick ==
    \/ CanCharge /\ Issue(<<Battery, "charging">>)
    \/ CanDischarge /\ Issue(<<Battery, "discharging">>)
    \/ \E l \in Loads : ~Surplus(Net) /\ ~CanDischarge /\ CanShed(l) /\ Issue(<<l, "off">>)

\* The discharge could not be published, so the same tick sheds a load.  (A tick whose
\* only command fails leaves no trace.)
TickFails ==
    /\ CanDischarge
    /\ Fault
    /\ \E l \in Loads : CanShed(l) /\ Deliver(<<l, "off">>)
                        /\ age' = [age EXCEPT ![<<l, "off">>] = 0]
    /\ UNCHANGED <<tele, orders, warned>>

Clock ==
    /\ age' = [c \in ScheduleKeys |-> IF age[c] < Cooldown THEN age[c] + 1 ELSE Cooldown]
    /\ UNCHANGED <<simVars, tele, orders, warned>>

\* The platform starts again: telemetry comes back from Redis or not at all.
PlatformRestart ==
    /\ Fault
    /\ tele' \in {tele, NoTelemetry}
    /\ age' = [c \in ScheduleKeys |-> Cooldown]
    /\ UNCHANGED <<proc, link, inbox, device, loop, sample, sun, orders, warned>>

\* POST command: any action for a registered device is published.
Command(c) ==
    /\ orders < MaxOrders /\ orders' = orders + 1
    /\ Deliver(c)
    /\ UNCHANGED <<platformVars, warned, faults>>

Commands == ({Battery} \X (Modes \cup {"off"})) \cup (Loads \X {"on", "off"})

-----------------------------------------------------------------------------
Next ==
    \/ Report \/ ReportEvent \/ LoseTrack \/ Unheard
    \/ Tick \/ TickFails \/ Clock \/ PlatformRestart
    \/ \E c \in Commands : Command(c)

Quiet == UNCHANGED <<platformVars, orders, warned>>

\* The tickers of both programs fire, callbacks run, paho reconnects, a supervisor
\* starts the simulator again, and time passes.  A step that fails needs a fault.
Fairness ==
    /\ WF_vars(Tick) /\ WF_vars(Clock)
    /\ WF_vars(Report \/ ReportEvent \/ ((\E p \in PVPowers : Sample(p)) /\ Quiet))
    /\ WF_vars(handleCommand /\ Quiet)
    /\ WF_vars(Reconnect /\ Quiet)

Spec == Init /\ [][Next]_vars /\ Fairness
-----------------------------------------------------------------------------
(* Properties *)

Empty == ~HasCharge(charge, Policy)
Full == ~HasRoom(charge, Policy)

\* Each publication the rules rely on may be lost, arrive late or end in a crash, and the
\* command too; a cooldown follows a command that nobody received.  Still, a deficit or a
\* surplus that lasts is met by the battery, as far as its charge allows, unless the broker
\* has refused the simulator's subscription (cmd/simulator OnConnect, handleCommand, loop;
\* scheduler Tick).
SiteIsServed ==
    /\ []<>(~Deficit(Demand) \/ Empty \/ batteryMode = "discharging" \/ link = "refused")
    /\ []<>(~Surplus(Demand) \/ Full \/ batteryMode = "charging" \/ link = "refused")

\* The battery's own power is part of the net power, so a charge ordered in a surplus can
\* itself look like a deficit.  Where the demand without the battery stays on one side by
\* at least the battery's power less the dead band, the loop does not swing: the battery is
\* in the end never again in the opposite mode (scheduler Tick, Store.Summary).
Settles ==
    /\ <>[](Demand >= BatteryPower - Deadband /\ link # "refused")
         => <>[](batteryMode # "charging")
    /\ <>[](-Demand >= BatteryPower - Deadband /\ link # "refused")
         => <>[](batteryMode # "discharging")

\* No rule ever tells a battery to be idle: a discharge goes on below the policy's limit
\* and through crashes and lost connections of either program.  It ends all the same
\* (batteryTelemetry).
DischargeEnds == batteryMode = "discharging" ~> batteryMode # "discharging"

\* Between the rounds of the loop, whoever heard every event since the simulator started
\* knows by the last one whether the charge is low: it is never at the warning threshold
\* after a recovery, nor at the recovery threshold after a warning, although the flag is
\* changed before the event is out (publishBatterySOCEvent).
LastEventIsTrue ==
    loop = AtSample =>
        /\ warned = "fine" => charge > Low
        /\ warned = "low" => charge < Recover
=============================================================================
