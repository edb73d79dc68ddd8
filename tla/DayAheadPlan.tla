---------------------------- MODULE DayAheadPlan ----------------------------
(***************************************************************************)
(* The day-ahead plan (internal/optimizer): a configuration is validated   *)
(* and completed with defaults, and the plan is built slot by slot, each   *)
(* slot deciding from the forecast, the tariff and the charge the slots    *)
(* before it leave in the battery.                                         *)
(*                                                                         *)
(* Numbers are exact: states of charge in percent, prices in hundredths,   *)
(* powers in hundredths of a watt and energy in hundredths of a watt       *)
(* minute, in which soc * capacity * 60 is the energy of a charge.  The    *)
(* powers of a slot are exact in hundredths, so the rounding that ends it  *)
(* changes none of them.  The sine of forecastPV is any percentage of      *)
(* Shapes by day and 0 by night.                                           *)
(***************************************************************************)
EXTENDS Integers, Sequences, FiniteSetsExt

CONSTANTS
    Configs,     \* configurations a request may carry
    Summaries,   \* site summaries [pv, load, net : W, soc : percent]
    Nows,        \* times of the request, in minutes of the day
    Shapes       \* values of the PV curve by day, in percent

ASSUME PlanAssumption ==
    /\ Configs \subseteq [horizon : Int, slot : Int, capacity : Int, limit : Int,
                          min : Int, max : Int, minSet : BOOLEAN, maxSet : BOOLEAN,
                          tariffs : Seq([from : Int, to : Int, price : Int])]
    /\ Summaries \subseteq [pv : Int, load : Int, net : Int, soc : 0 .. 100]
    /\ Nows \subseteq 0 .. 1439
    /\ Shapes \subseteq 0 .. 100

VARIABLES
    pc,       \* no request, building the plan, plan complete
    cfg,      \* the configuration after normalizeConfig
    summary,  \* the site summary the plan starts from
    now,      \* the time of the request
    i,        \* the loop counter
    energy,   \* the loop's soc, as energy
    slot,     \* the slot just appended
    active    \* CurrentSlot(plan, now), as far as the plan is built

vars == <<pc, cfg, summary, now, i, energy, slot, active>>

-----------------------------------------------------------------------------
(* Configuration *)

Band(from, to, price) == [from |-> from, to |-> to, price |-> price]

DefaultConfig ==
    [horizon |-> 24, slot |-> 15, capacity |-> 150, limit |-> 50, min |-> 25, max |-> 90,
     minSet |-> FALSE, maxSet |-> FALSE,
     tariffs |-> <<Band(0, 7, 32), Band(7, 18, 58), Band(18, 23, 95), Band(23, 24, 58)>>]

Default(v, d) == IF v = 0 THEN d ELSE v

normalizeConfig(c) ==
    [c EXCEPT !.horizon  = Default(@, DefaultConfig.horizon),
              !.slot     = Default(@, DefaultConfig.slot),
              !.capacity = Default(@, DefaultConfig.capacity),
              !.limit    = Default(@, DefaultConfig.limit),
              !.min      = IF c.minSet THEN @ ELSE Default(@, DefaultConfig.min),
              !.max      = IF c.maxSet THEN @ ELSE Default(@, DefaultConfig.max),
              !.tariffs  = IF @ = <<>> THEN DefaultConfig.tariffs ELSE @]

ValidBand(b) ==
    /\ b.from \in 0 .. 24 /\ b.to \in 0 .. 24
    /\ b.from < b.to
    /\ b.price >= 0

\* The checks of ValidateConfig on the configuration as it came.
ValidAsSent(c) ==
    /\ c.horizon >= 0 /\ c.slot >= 0 /\ c.capacity >= 0 /\ c.limit >= 0
    /\ c.slot > 0 => 60 % c.slot = 0
    /\ c.min \in 0 .. 100 /\ c.max \in 0 .. 100
    /\ c.min <= c.max
    /\ \A k \in DOMAIN c.tariffs : ValidBand(c.tariffs[k])

\* Mutant: the limits are not compared again once the defaults are in.
ValidateConfigAsSent(c) == ValidAsSent(c)

ValidateConfig(c) ==
    /\ ValidAsSent(c)
    /\ LET n == normalizeConfig(c)
       IN  n.horizon > 0 /\ n.slot > 0 /\ n.capacity > 0 /\ n.limit > 0 /\ n.min <= n.max

-----------------------------------------------------------------------------
(* Forecast and tariff *)

LimitPower == cfg.limit * 100
MinEnergy == cfg.min * cfg.capacity * 60
MaxEnergy == cfg.max * cfg.capacity * 60

Clamp(v, low, high) == IF v < low THEN low ELSE IF v > high THEN high ELSE v

\* now.Truncate(15 minutes)
Start == now - (now % 15)

SlotStart(k) == Start + k * cfg.slot

Hour(t) == (t \div 60) % 24

\* The sine is positive between 6 and 18 o'clock.
ShapeAt(t) == IF Hour(t) \in 6 .. 17 THEN Shapes ELSE {0}

forecastPV(shape) == Max({summary.pv, 20}) * shape

forecastLoad(t) ==
    Max({summary.load, 30}) *
        (CASE Hour(t) \in 7 .. 9   -> 115
           [] Hour(t) \in 18 .. 22 -> 135
           [] Hour(t) \in 0 .. 5   -> 75
           [] OTHER                -> 100)

\* The first band that covers the hour, 0.58 if none does.
priceAt(t) ==
    LET covering == {k \in DOMAIN cfg.tariffs :
                        Hour(t) >= cfg.tariffs[k].from /\ Hour(t) < cfg.tariffs[k].to}
    IN  IF covering = {} THEN 58 ELSE cfg.tariffs[Min(covering)].price

Prices == {cfg.tariffs[k].price : k \in DOMAIN cfg.tariffs}
lowPrice == Min(Prices)
highPrice == Max(Prices)
hasArbitrage == highPrice > lowPrice

LowTariff(price) == hasArbitrage /\ price <= lowPrice
PeakTariff(price) == hasArbitrage /\ price >= highPrice

-----------------------------------------------------------------------------
(* The decision for one slot *)

Choice(mode, target) == [mode |-> mode, target |-> target]

DischargeTo(netLoad) == Choice("discharge", Min({LimitPower, netLoad}))

ChargeFromSurplus(surplus) == Choice("charge", Min({LimitPower, surplus}))

CanCharge == energy < MaxEnergy

CanDischarge == energy > MinEnergy

\* The switch of BuildDayAheadPlan; its last two cases differ in the reason only.
Decide(pv, load, price) ==
    LET netLoad == load - pv
    IN  IF CanCharge /\ pv > load + 1000
          THEN ChargeFromSurplus(pv - load)
        ELSE IF CanCharge /\ LowTariff(price)
          THEN Choice("charge", LimitPower)
        ELSE IF CanDischarge /\ (netLoad > LimitPower \/ (PeakTariff(price) /\ netLoad > 0))
          THEN DischargeTo(netLoad)
        ELSE Choice("idle", 0)

nextSOC(choice) ==
    LET delta == choice.target * cfg.slot
    IN  Clamp(CASE choice.mode = "charge"    -> energy + delta
                [] choice.mode = "discharge" -> energy - delta
                [] choice.mode = "idle"      -> energy,
              MinEnergy, MaxEnergy)

\* Mutant: the end of a slot belongs to it and its start does not.
CoversEnd(k) == SlotStart(k) < now /\ now <= SlotStart(k + 1)

\* CurrentSlot: the slot holds the time of the request.
Covers(k) == SlotStart(k) <= now /\ now < SlotStart(k + 1)

slotCount ==
    LET n == (cfg.horizon * 60) \div cfg.slot
    IN  IF n <= 0 THEN 96 ELSE n

\* Mutant: a charge outside the limits is taken as it is.
StartEnergyUnclamped(c, s) == Default(s.soc, 50) * c.capacity * 60

\* The plan starts from the average charge, from one half if there is none.
StartEnergy(c, s) == Clamp(Default(s.soc, 50), c.min, c.max) * c.capacity * 60

-----------------------------------------------------------------------------
NoSlot == [mode |-> "none", target |-> 0, price |-> 0, pv |-> 0, load |-> 0]

NoSummary == [pv |-> 0, load |-> 0, net |-> 0, soc |-> 0]

Init ==
    /\ pc = "idle" /\ cfg = DefaultConfig /\ summary = NoSummary /\ now = 0
    /\ i = 0 /\ energy = 0 /\ slot = NoSlot /\ active = NoSlot

\* The request is answered: what its handler held is gone.
Release ==
    /\ pc' = "idle" /\ cfg' = DefaultConfig /\ summary' = NoSummary /\ now' = 0
    /\ i' = 0 /\ energy' = 0 /\ slot' = NoSlot /\ active' = NoSlot

\* A request whose configuration passes; any other one is answered with 400.
Begin(c, s, t) ==
    /\ pc = "idle"
    /\ ValidateConfig(c)
    /\ pc' = "building"
    /\ cfg' = normalizeConfig(c)
    /\ summary' = s
    /\ now' = t
    /\ i' = 0
    /\ energy' = StartEnergy(normalizeConfig(c), s)
    /\ slot' = NoSlot
    /\ active' = NoSlot

\* One round of the loop, with the PV curve at shape.
AppendSlot(shape) ==
    /\ pc = "building" /\ i < slotCount
    /\ shape \in ShapeAt(SlotStart(i))
    /\ LET pv     == forecastPV(shape)
           load   == forecastLoad(SlotStart(i))
           price  == priceAt(SlotStart(i))
           choice == Decide(pv, load, price)
       IN  /\ energy' = nextSOC(choice)
           /\ slot' = [mode |-> choice.mode, target |-> choice.target, price |-> price,
                       pv |-> pv, load |-> load]
    /\ active' = IF active = NoSlot /\ Covers(i) THEN slot' ELSE active
    /\ i' = i + 1
    /\ UNCHANGED <<pc, cfg, summary, now>>

\* The plan is complete.
Complete ==
    /\ pc = "building" /\ i = slotCount
    /\ pc' = "planned"
    /\ UNCHANGED <<cfg, summary, now, i, energy, slot, active>>

BuildDayAheadPlan == (\E shape \in Shapes \cup {0} : AppendSlot(shape)) \/ Complete

-----------------------------------------------------------------------------
(* Correctness *)

\* Whatever configuration ValidateConfig lets through, with whichever fields left to
\* the defaults, the planned charge stays between the two limits in every slot.
SocWithinLimits == pc # "idle" => MinEnergy <= energy /\ energy <= MaxEnergy

\* The planned charge moves as the mode of the slot says, and not at all in an idle
\* one, from the first slot on: the clamps of nextSOC never do it alone.
ChargeFollowsMode ==
    [][i' = i + 1 => /\ slot'.mode = "charge" => energy' > energy
                     /\ slot'.mode = "discharge" => energy' < energy
                     /\ slot'.mode = "idle" => energy' = energy]_vars

\* Whatever slot length the request asks for and whenever it comes, the plan has a
\* slot for its own time: BuildPreview never meets "no active plan slot".
HasActiveSlot == pc = "planned" => active # NoSlot
=============================================================================
