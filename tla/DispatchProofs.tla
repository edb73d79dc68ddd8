--------------------------- MODULE DispatchProofs ---------------------------
(***************************************************************************)
(* Proofs about Dispatch and the DayAheadPlan it builds, for any set of    *)
(* configurations, site summaries, request times, PV curves, devices and   *)
(* requests.                                                               *)
(***************************************************************************)
EXTENDS Dispatch, TLAPS

-----------------------------------------------------------------------------
(* Arithmetic *)

LEMMA ProductType == \A a, b \in Int : a * b \in Int
OBVIOUS

\* A product of positive factors is positive.
LEMMA ProductPositive == \A a, b \in Int : a > 0 /\ b > 0 => a * b > 0
OBVIOUS

\* Multiplication by a number that is not negative keeps the order.
LEMMA ProductMonotone == \A a, b, c \in Int : a <= b /\ c >= 0 => a * c <= b * c
OBVIOUS

LEMMA MinOfTwo ==
  ASSUME NEW a \in Int, NEW b \in Int
  PROVE  Min({a, b}) \in {a, b} /\ Min({a, b}) <= a /\ Min({a, b}) <= b
<1>1. \E x \in {a, b} : \A y \in {a, b} : x <= y
  <2>1. CASE a <= b
    BY <2>1
  <2>2. CASE ~(a <= b)
    BY <2>2
  <2> QED  BY <2>1, <2>2
<1>2. Min({a, b}) \in {a, b} /\ \A y \in {a, b} : Min({a, b}) <= y
  BY <1>1 DEF Min
<1> QED  BY <1>2

LEMMA MaxOfTwo ==
  ASSUME NEW a \in Int, NEW b \in Int
  PROVE  Max({a, b}) \in Int
<1>1. \E x \in {a, b} : \A y \in {a, b} : x >= y
  <2>1. CASE a >= b
    BY <2>1
  <2>2. CASE ~(a >= b)
    BY <2>2
  <2> QED  BY <2>1, <2>2
<1>2. Max({a, b}) \in {a, b}
  BY <1>1 DEF Max
<1> QED  BY <1>2

\* The clamp ends between its limits, and changes no value between them.
LEMMA ClampBounds ==
  ASSUME NEW v \in Int, NEW low \in Int, NEW high \in Int, low <= high
  PROVE  /\ Clamp(v, low, high) \in Int
         /\ low <= Clamp(v, low, high) /\ Clamp(v, low, high) <= high
         /\ v <= low => Clamp(v, low, high) = low
         /\ v >= high => Clamp(v, low, high) = high
         /\ low <= v /\ v <= high => Clamp(v, low, high) = v
BY DEF Clamp

-----------------------------------------------------------------------------
(* Configurations *)

\* What ValidateConfig and normalizeConfig establish.
Normal(c) ==
    /\ c.horizon \in Nat \ {0} /\ c.capacity \in Nat \ {0} /\ c.limit \in Nat \ {0}
    /\ c.slot \in 1 .. 60
    /\ c.min \in 0 .. 100 /\ c.max \in 0 .. 100 /\ c.min <= c.max

LEMMA SlotDividesHour == \A n \in Nat \ {0} : 60 % n = 0 => n \in 1 .. 60
OBVIOUS

LEMMA ConfigIsNormal ==
  ASSUME NEW c \in Configs, ValidateConfig(c)
  PROVE  /\ Normal(normalizeConfig(c))
         /\ normalizeConfig(c).limit = Default(c.limit, DefaultConfig.limit)
<1>1. /\ c.horizon \in Int /\ c.slot \in Int /\ c.capacity \in Int /\ c.limit \in Int
      /\ c.min \in Int /\ c.max \in Int
  BY PlanAssumption
<1>2. PICK n : n = normalizeConfig(c)
  OBVIOUS
<1>3. /\ n.horizon = Default(c.horizon, 24) /\ n.slot = Default(c.slot, 15)
      /\ n.capacity = Default(c.capacity, 150)
      /\ n.limit = Default(c.limit, 50)
      /\ n.min \in {c.min, 25} /\ n.max \in {c.max, 90}
  BY <1>2, PlanAssumption DEF normalizeConfig, DefaultConfig, Default
<1>4. /\ n.horizon > 0 /\ n.slot > 0 /\ n.capacity > 0 /\ n.limit > 0 /\ n.min <= n.max
      /\ c.slot > 0 => 60 % c.slot = 0
      /\ c.min \in 0 .. 100 /\ c.max \in 0 .. 100
  BY <1>2 DEF ValidateConfig, ValidAsSent
<1>5. n.horizon \in Int /\ n.slot \in Int /\ n.capacity \in Int /\ n.limit \in Int
  BY <1>1, <1>3 DEF Default
<1>6. n.slot \in 1 .. 60
  <2>1. n.slot = 15 \/ (n.slot = c.slot /\ c.slot > 0)
    BY <1>3, <1>4 DEF Default
  <2> QED  BY <1>1, <1>4, <2>1, SlotDividesHour
<1> QED  BY <1>2, <1>3, <1>4, <1>5, <1>6 DEF Normal, DefaultConfig

-----------------------------------------------------------------------------
(* The plan *)

Modes == {"charge", "discharge", "idle"}

\* The plan's slot for the time of the request, of a plan with configuration c from a
\* reported charge of soc percent.
SlotSound(a, c, soc) ==
    /\ a.mode \in Modes
    /\ a.target \in 0 .. c.limit * 100
    /\ c.slot >= 15 /\ soc > 0 => /\ a.mode = "discharge" => soc > c.min
                                  /\ a.mode = "charge" => soc < c.max

\* While a plan is built: it starts from the clamped charge, keeps to the limits, and
\* as long as no slot holds the time of the request, the next one does not lie after it.
PlanInv ==
    /\ Normal(cfg)
    /\ now \in 0 .. 1439
    /\ summary \in Summaries
    /\ energy \in Int /\ MinEnergy <= energy /\ energy <= MaxEnergy
    /\ i = 0 => energy = StartEnergy(cfg, summary)
    /\ active = NoSlot => SlotStart(i) <= now
    /\ active # NoSlot => SlotSound(active, cfg, summary.soc)

\* The command that is about to be sent is the one the plan asks for.
CommandInv ==
    /\ pc = "planned"
    /\ active # NoSlot
    /\ req.kind = "apply" /\ req.confirm
    /\ active.mode \in {"charge", "discharge"} /\ active.target # 0
    /\ command.mode = batteryCommandMode(active.mode)
    /\ command.target = active.target
    /\ Abs(TrackingError) <= Default(req.max, 100) * 100

HandlerInv ==
    /\ stage \in {"idle", "summary", "devices", "plan", "lookup", "publish"}
    /\ pc \in {"idle", "building", "planned"}
    /\ pc = "idle" <=> stage \in {"idle", "summary"}
    /\ site \in Summaries
    /\ i \in Nat
    /\ stage # "idle" => req \in Requests /\ ValidateConfig(req.config) /\ now \in Nows
    /\ pc # "idle" => cfg = normalizeConfig(req.config)

\* The inductive invariant.
IInv ==
    /\ HandlerInv
    /\ pc # "idle" => PlanInv
    /\ pc = "planned" => active # NoSlot
    /\ stage \in {"lookup", "publish"} => CommandInv
    /\ AppliedAsPlanned

-----------------------------------------------------------------------------
(* One slot *)

\* The charge limits as energies.
LEMMA EnergyLimits ==
  ASSUME Normal(cfg)
  PROVE  /\ LimitPower \in Int /\ LimitPower > 0
         /\ MinEnergy \in Int /\ MaxEnergy \in Int /\ MinEnergy <= MaxEnergy
<1>1. /\ cfg.min \in Int /\ cfg.max \in Int /\ cfg.min <= cfg.max
      /\ cfg.capacity \in Int /\ cfg.capacity >= 0
      /\ cfg.limit \in Int /\ cfg.limit > 0
  BY DEF Normal
<1>2. /\ cfg.min * cfg.capacity \in Int /\ cfg.max * cfg.capacity \in Int
      /\ cfg.min * cfg.capacity <= cfg.max * cfg.capacity
  BY <1>1, ProductType, ProductMonotone
<1> QED  BY <1>1, <1>2 DEF LimitPower, MinEnergy, MaxEnergy

\* Every branch of the switch names a mode and a power within the limit; it charges
\* only below the upper limit of charge and discharges only above the lower one, with
\* a power that is not zero.
LEMMA DecideChoice ==
  ASSUME Normal(cfg), NEW pv \in Int, NEW load \in Int, NEW price
  PROVE  LET ch == Decide(pv, load, price)
         IN  /\ ch.mode \in Modes
             /\ ch.target \in 0 .. LimitPower
             /\ ch.mode = "charge" => CanCharge /\ ch.target > 0
             /\ ch.mode = "discharge" => CanDischarge /\ ch.target > 0
<1>0. LimitPower \in Int /\ LimitPower > 0
  BY EnergyLimits
<1> DEFINE Good(ch) == /\ ch.mode \in Modes
                       /\ ch.target \in 0 .. LimitPower
                       /\ ch.mode = "charge" => CanCharge /\ ch.target > 0
                       /\ ch.mode = "discharge" => CanDischarge /\ ch.target > 0
           A == CanCharge /\ pv > load + 1000
           B == CanCharge /\ LowTariff(price)
           D == CanDischarge /\ (load - pv > LimitPower \/ (PeakTariff(price) /\ load - pv > 0))
<1>1. ASSUME A  PROVE Good(ChargeFromSurplus(pv - load))
  <2>1. PICK p : p = Min({LimitPower, pv - load})
    OBVIOUS
  <2>2. p \in 0 .. LimitPower /\ p > 0
    <3>1. pv - load \in Int /\ pv - load > 0
      BY <1>1
    <3>2. p \in {LimitPower, pv - load} /\ p <= LimitPower
      BY <1>0, <2>1, <3>1, MinOfTwo
    <3> QED  BY <1>0, <3>1, <3>2
  <2>3. ChargeFromSurplus(pv - load) = [mode |-> "charge", target |-> p]
    BY <2>1 DEF ChargeFromSurplus, Choice
  <2> QED  BY <1>1, <2>2, <2>3 DEF Modes
<1>2. ASSUME B  PROVE Good(Choice("charge", LimitPower))
  BY <1>0, <1>2 DEF Choice, Modes
<1>3. ASSUME D  PROVE Good(DischargeTo(load - pv))
  <2>1. PICK p : p = Min({LimitPower, load - pv})
    OBVIOUS
  <2>2. load - pv \in Int /\ load - pv > 0
    BY <1>0, <1>3
  <2>3. p \in 0 .. LimitPower /\ p > 0
    <3>1. p \in {LimitPower, load - pv} /\ p <= LimitPower
      BY <1>0, <2>1, <2>2, MinOfTwo
    <3> QED  BY <1>0, <2>2, <3>1
  <2>4. DischargeTo(load - pv) = [mode |-> "discharge", target |-> p]
    BY <2>1 DEF DischargeTo, Choice
  <2> QED  BY <1>3, <2>3, <2>4 DEF Modes
<1>4. Good(Choice("idle", 0))
  BY <1>0 DEF Choice, Modes
<1>5. Decide(pv, load, price) = IF A THEN ChargeFromSurplus(pv - load)
                                ELSE IF B THEN Choice("charge", LimitPower)
                                ELSE IF D THEN DischargeTo(load - pv)
                                ELSE Choice("idle", 0)
  BY DEF Decide
<1> HIDE DEF Good, A, B, D
<1>6. Good(Decide(pv, load, price))
  BY <1>1, <1>2, <1>3, <1>4, <1>5
<1> QED  BY <1>6 DEF Good

\* The charge after a slot stays within the limits and moves the way the slot says.
LEMMA NextCharge ==
  ASSUME Normal(cfg), energy \in Int, MinEnergy <= energy, energy <= MaxEnergy,
         NEW ch, ch.mode \in Modes, ch.target \in 0 .. LimitPower,
         ch.mode = "charge" => CanCharge /\ ch.target > 0,
         ch.mode = "discharge" => CanDischarge /\ ch.target > 0
  PROVE  /\ nextSOC(ch) \in Int
         /\ MinEnergy <= nextSOC(ch) /\ nextSOC(ch) <= MaxEnergy
         /\ ch.mode = "charge" => nextSOC(ch) > energy
         /\ ch.mode = "discharge" => nextSOC(ch) < energy
         /\ ch.mode = "idle" => nextSOC(ch) = energy
<1>0. /\ MinEnergy \in Int /\ MaxEnergy \in Int /\ MinEnergy <= MaxEnergy
      /\ LimitPower \in Int
  BY EnergyLimits
<1>1. PICK lo \in Int, hi \in Int : lo = MinEnergy /\ hi = MaxEnergy
  BY <1>0
<1>2. PICK delta : delta = ch.target * cfg.slot
  OBVIOUS
<1>3. delta \in Int /\ (ch.target > 0 => delta > 0)
  BY <1>0, <1>2, ProductType, ProductPositive DEF Normal
<1>4. nextSOC(ch) = Clamp(CASE ch.mode = "charge"    -> energy + delta
                            [] ch.mode = "discharge" -> energy - delta
                            [] ch.mode = "idle"      -> energy, lo, hi)
  BY <1>1, <1>2 DEF nextSOC
<1>5. lo <= energy /\ energy <= hi /\ lo <= hi
  BY <1>0, <1>1
<1>6. CASE ch.mode = "charge"
  <2>1. nextSOC(ch) = Clamp(energy + delta, lo, hi)
    BY <1>4, <1>6
  <2>2. energy < hi /\ delta > 0
    BY <1>1, <1>3, <1>6 DEF CanCharge
  <2>3. PICK v \in Int : v = energy + delta /\ v > energy
    BY <1>3, <2>2
  <2>4. /\ Clamp(v, lo, hi) \in Int /\ lo <= Clamp(v, lo, hi) /\ Clamp(v, lo, hi) <= hi
        /\ v <= lo => Clamp(v, lo, hi) = lo
        /\ v >= hi => Clamp(v, lo, hi) = hi
        /\ lo <= v /\ v <= hi => Clamp(v, lo, hi) = v
    BY <1>5, ClampBounds
  <2>5. Clamp(v, lo, hi) > energy
    BY <1>5, <2>2, <2>3, <2>4
  <2> QED  BY <1>1, <1>6, <2>1, <2>3, <2>4, <2>5
<1>7. CASE ch.mode = "discharge"
  <2>1. nextSOC(ch) = Clamp(energy - delta, lo, hi)
    BY <1>4, <1>7
  <2>2. energy > lo /\ delta > 0
    BY <1>1, <1>3, <1>7 DEF CanDischarge
  <2>3. PICK v \in Int : v = energy - delta /\ v < energy
    BY <1>3, <2>2
  <2>4. /\ Clamp(v, lo, hi) \in Int /\ lo <= Clamp(v, lo, hi) /\ Clamp(v, lo, hi) <= hi
        /\ v <= lo => Clamp(v, lo, hi) = lo
        /\ v >= hi => Clamp(v, lo, hi) = hi
        /\ lo <= v /\ v <= hi => Clamp(v, lo, hi) = v
    BY <1>5, ClampBounds
  <2>5. Clamp(v, lo, hi) < energy
    BY <1>5, <2>2, <2>3, <2>4
  <2> QED  BY <1>1, <1>7, <2>1, <2>3, <2>4, <2>5
<1>8. CASE ch.mode = "idle"
  <2>1. nextSOC(ch) = Clamp(energy, lo, hi)
    BY <1>4, <1>8
  <2> QED  BY <1>1, <1>5, <1>8, <2>1, ClampBounds
<1> QED  BY <1>6, <1>7, <1>8 DEF Modes

\* The plan's start lies less than 15 minutes before the request.
LEMMA StartBound ==
  ASSUME now \in 0 .. 1439
  PROVE  Start \in Int /\ Start <= now /\ now < Start + 15
BY DEF Start

LEMMA SlotStarts ==
  ASSUME Normal(cfg), now \in 0 .. 1439, NEW k \in Nat
  PROVE  SlotStart(k) \in Int /\ k * cfg.slot \in Int /\ SlotStart(k) = Start + k * cfg.slot
BY StartBound, ProductType DEF SlotStart, Normal

\* A slot of at least 15 minutes that holds the time of the request is the first one.
LEMMA LongSlotIsFirst ==
  ASSUME Normal(cfg), now \in 0 .. 1439, NEW k \in Nat, cfg.slot >= 15, Covers(k)
  PROVE  k = 0
<1>1. k * cfg.slot \in Int /\ SlotStart(k) = Start + k * cfg.slot /\ SlotStart(k) <= now
  BY SlotStarts DEF Covers
<1>2. k * cfg.slot < 15
  BY <1>1, StartBound
<1>3. ASSUME k >= 1  PROVE k * cfg.slot >= 15
  <2>1. cfg.slot \in Int /\ 1 * cfg.slot <= k * cfg.slot
    BY <1>3, ProductMonotone DEF Normal
  <2> QED  BY <1>1, <2>1
<1> QED  BY <1>1, <1>2, <1>3

\* The plan covers at least the 15 minutes its start may lie before the request.
LEMMA PlanIsLongEnough ==
  ASSUME Normal(cfg)
  PROVE  slotCount \in Nat /\ slotCount * cfg.slot >= 15
<1>1. PICK m \in Int, s \in 1 .. 60 : m = cfg.horizon * 60 /\ s = cfg.slot /\ m >= 60
  BY DEF Normal
<1>2. PICK n \in Int, r \in Int : n = m \div s /\ m = n * s + r /\ 0 <= r /\ r < s
  <2>1. m \div s \in Int /\ m % s \in Int /\ m = s * (m \div s) + (m % s)
        /\ 0 <= m % s /\ m % s < s
    BY <1>1
  <2>2. s * (m \div s) = (m \div s) * s
    BY <2>1
  <2> QED  BY <2>1, <2>2
<1>3. n * s > m - s
  BY <1>1, <1>2, ProductType
<1>4. n >= 1
  <2>1. ASSUME n <= 0  PROVE FALSE
    <3>1. n * s <= 0 * s
      BY <2>1, ProductMonotone
    <3> QED  BY <1>1, <1>3, <3>1, ProductType
  <2> QED  BY <2>1
<1>5. n * s >= s
  <2>1. 1 * s <= n * s
    BY <1>4, ProductMonotone
  <2> QED  BY <2>1
<1>6. slotCount = n
  BY <1>1, <1>2, <1>4 DEF slotCount
<1>7. n * s >= 15
  BY <1>1, <1>3, <1>5, ProductType
<1> QED  BY <1>1, <1>4, <1>6, <1>7

-----------------------------------------------------------------------------
(* The steps of the plan *)

LEMMA ForecastTypes ==
  ASSUME PlanInv, NEW t, NEW shape \in ShapeAt(t)
  PROVE  forecastPV(shape) \in Int /\ forecastLoad(t) \in Int
<1>1. shape \in Int
  BY PlanAssumption DEF ShapeAt
<1>2. summary.pv \in Int /\ summary.load \in Int
  BY PlanAssumption DEF PlanInv
<1>3. Max({summary.pv, 20}) \in Int /\ Max({summary.load, 30}) \in Int
  BY <1>2, MaxOfTwo
<1>4. forecastPV(shape) \in Int
  BY <1>1, <1>3, ProductType DEF forecastPV
<1>5. PICK f \in Int : f = CASE Hour(t) \in 7 .. 9   -> 115
                             [] Hour(t) \in 18 .. 22 -> 135
                             [] Hour(t) \in 0 .. 5   -> 75
                             [] OTHER                -> 100
  OBVIOUS
<1>6. forecastLoad(t) = Max({summary.load, 30}) * f
  BY <1>5 DEF forecastLoad
<1> QED  BY <1>3, <1>4, <1>5, <1>6, ProductType

\* A round of the loop carries out a choice of the switch.
LEMMA AppendSlotChoice ==
  ASSUME PlanInv, NEW shape, AppendSlot(shape)
  PROVE  \E ch : /\ ch.mode \in Modes /\ ch.target \in 0 .. LimitPower
                 /\ ch.mode = "charge" => CanCharge /\ ch.target > 0
                 /\ ch.mode = "discharge" => CanDischarge /\ ch.target > 0
                 /\ energy' = nextSOC(ch)
                 /\ slot'.mode = ch.mode /\ slot'.target = ch.target
<1>0. PICK price : price = priceAt(SlotStart(i))
  OBVIOUS
<1>1. PICK pv \in Int, load \in Int :
        /\ energy' = nextSOC(Decide(pv, load, price))
        /\ slot' = [mode |-> Decide(pv, load, price).mode,
                    target |-> Decide(pv, load, price).target, price |-> price,
                    pv |-> pv, load |-> load]
  <2>1. forecastPV(shape) \in Int /\ forecastLoad(SlotStart(i)) \in Int
    BY ForecastTypes DEF AppendSlot
  <2> QED  BY <1>0, <2>1 DEF AppendSlot
<1>2. PICK ch : ch = Decide(pv, load, price)
  OBVIOUS
<1>3. /\ ch.mode \in Modes /\ ch.target \in 0 .. LimitPower
      /\ ch.mode = "charge" => CanCharge /\ ch.target > 0
      /\ ch.mode = "discharge" => CanDischarge /\ ch.target > 0
  BY <1>2, DecideChoice DEF PlanInv
<1> QED  BY <1>1, <1>2, <1>3

\* The charge moves with the mode and stays within the limits.
LEMMA AppendSlotCharge ==
  ASSUME PlanInv, NEW shape, AppendSlot(shape)
  PROVE  /\ energy' \in Int /\ MinEnergy <= energy' /\ energy' <= MaxEnergy
         /\ slot'.mode \in Modes /\ slot'.target \in 0 .. LimitPower
         /\ slot'.mode = "charge" => energy' > energy /\ CanCharge
         /\ slot'.mode = "discharge" => energy' < energy /\ CanDischarge
         /\ slot'.mode = "idle" => energy' = energy
<1>1. PICK ch : /\ ch.mode \in Modes /\ ch.target \in 0 .. LimitPower
                /\ ch.mode = "charge" => CanCharge /\ ch.target > 0
                /\ ch.mode = "discharge" => CanDischarge /\ ch.target > 0
                /\ energy' = nextSOC(ch)
                /\ slot'.mode = ch.mode /\ slot'.target = ch.target
  BY AppendSlotChoice
<1>2. /\ nextSOC(ch) \in Int
      /\ MinEnergy <= nextSOC(ch) /\ nextSOC(ch) <= MaxEnergy
      /\ ch.mode = "charge" => nextSOC(ch) > energy
      /\ ch.mode = "discharge" => nextSOC(ch) < energy
      /\ ch.mode = "idle" => nextSOC(ch) = energy
  BY <1>1, NextCharge DEF PlanInv
<1> QED  BY <1>1, <1>2

\* The plan starts from the reported charge, or from the limit it lies beyond.
LEMMA StartOfCharge ==
  ASSUME NEW c, Normal(c), NEW s \in Summaries
  PROVE  /\ StartEnergy(c, s) \in Int
         /\ c.min * c.capacity * 60 <= StartEnergy(c, s)
         /\ StartEnergy(c, s) <= c.max * c.capacity * 60
         /\ s.soc > 0 /\ s.soc <= c.min => StartEnergy(c, s) = c.min * c.capacity * 60
         /\ s.soc > 0 /\ s.soc >= c.max => StartEnergy(c, s) = c.max * c.capacity * 60
<1>1. PICK p \in Int : p = Default(s.soc, 50) /\ (s.soc > 0 => p = s.soc)
  BY PlanAssumption DEF Default
<1>2. PICK lo \in Int, hi \in Int, cap \in Int :
        lo = c.min /\ hi = c.max /\ cap = c.capacity /\ lo <= hi /\ cap >= 0
  <2>1. /\ c.min \in Int /\ c.max \in Int /\ c.min <= c.max
        /\ c.capacity \in Int /\ c.capacity >= 0
    BY DEF Normal
  <2> QED  BY <2>1
<1>3. PICK v : v = Clamp(p, lo, hi)
  OBVIOUS
<1>4. /\ v \in Int /\ lo <= v /\ v <= hi
      /\ p <= lo => v = lo
      /\ p >= hi => v = hi
  <2>1. /\ Clamp(p, lo, hi) \in Int
        /\ lo <= Clamp(p, lo, hi) /\ Clamp(p, lo, hi) <= hi
        /\ p <= lo => Clamp(p, lo, hi) = lo
        /\ p >= hi => Clamp(p, lo, hi) = hi
    <3>1. lo <= hi
      BY <1>2
    <3> QED  BY <3>1, ClampBounds
  <2> QED  BY <1>3, <2>1
<1>5. /\ lo * cap \in Int /\ hi * cap \in Int /\ v * cap \in Int
      /\ lo * cap <= v * cap /\ v * cap <= hi * cap
  BY <1>2, <1>4, ProductType, ProductMonotone
<1>6. StartEnergy(c, s) = v * cap * 60
  BY <1>1, <1>2, <1>3 DEF StartEnergy
<1> QED  BY <1>1, <1>2, <1>4, <1>5, <1>6

LEMMA BeginPlan ==
  ASSUME NEW c \in Configs, NEW s \in Summaries, NEW t \in Nows, Begin(c, s, t)
  PROVE  PlanInv'
<1>1. /\ cfg' = normalizeConfig(c) /\ summary' = s /\ now' = t /\ i' = 0
      /\ energy' = StartEnergy(cfg', s) /\ active' = NoSlot
  BY DEF Begin
<1>2. Normal(cfg')
  BY <1>1, ConfigIsNormal DEF Begin
<1>3. now' \in 0 .. 1439 /\ summary' \in Summaries
  BY <1>1, PlanAssumption
<1>4. energy' \in Int /\ MinEnergy' <= energy' /\ energy' <= MaxEnergy'
  <2>1. PICK n : n = cfg' /\ Normal(n)
    BY <1>2
  <2>2. /\ StartEnergy(n, s) \in Int
        /\ n.min * n.capacity * 60 <= StartEnergy(n, s)
        /\ StartEnergy(n, s) <= n.max * n.capacity * 60
    BY <2>1, StartOfCharge
  <2> QED  BY <1>1, <2>1, <2>2 DEF MinEnergy, MaxEnergy
<1>5. SlotStart(i)' <= now'
  <2>1. 0 * cfg'.slot = 0
    BY <1>2 DEF Normal
  <2>2. PICK x \in 0 .. 1439 : x = now'
    BY <1>3
  <2>3. PICK y \in Int : y = x - (x % 15) /\ y <= x
    OBVIOUS
  <2>4. SlotStart(i)' = y + 0 * cfg'.slot
    BY <1>1, <2>2, <2>3 DEF SlotStart, Start
  <2>5. y + 0 * cfg'.slot = y
    BY <2>1
  <2> QED  BY <2>2, <2>3, <2>4, <2>5
<1>6. StartEnergy(cfg, summary)' = StartEnergy(cfg', summary')
  BY DEF StartEnergy
<1>7. Normal(cfg)'
  BY <1>2 DEF Normal
<1> QED  BY <1>1, <1>3, <1>4, <1>5, <1>6, <1>7 DEF PlanInv

LEMMA AppendSlotPlan ==
  ASSUME PlanInv, i \in Nat, NEW shape, AppendSlot(shape)
  PROVE  PlanInv'
<1>0. UNCHANGED <<cfg, summary, now>> /\ i' = i + 1
  BY DEF AppendSlot
<1>1. /\ energy' \in Int /\ MinEnergy <= energy' /\ energy' <= MaxEnergy
      /\ slot'.mode \in Modes /\ slot'.target \in 0 .. LimitPower
      /\ slot'.mode = "charge" => CanCharge
      /\ slot'.mode = "discharge" => CanDischarge
  BY AppendSlotCharge
<1>2. slot' # NoSlot
  BY <1>1 DEF NoSlot, Modes
<1>3. active' = IF active = NoSlot /\ Covers(i) THEN slot' ELSE active
  BY DEF AppendSlot
<1>4. ASSUME active' = NoSlot  PROVE SlotStart(i)' <= now'
  <2>1. active = NoSlot /\ ~Covers(i)
    BY <1>2, <1>3, <1>4
  <2>2. SlotStart(i) <= now /\ SlotStart(i + 1) \in Int /\ now \in Int
    BY <2>1, SlotStarts DEF PlanInv
  <2>3. SlotStart(i + 1) <= now
    BY <2>1, <2>2 DEF Covers
  <2>4. SlotStart(i)' = SlotStart(i + 1)
    BY <1>0 DEF SlotStart, Start
  <2> QED  BY <1>0, <2>3, <2>4
<1>5. ASSUME active' # NoSlot  PROVE SlotSound(active', cfg, summary.soc)
  <2>1. CASE ~(active = NoSlot /\ Covers(i))
    BY <1>3, <1>5, <2>1 DEF PlanInv
  <2>2. CASE active = NoSlot /\ Covers(i)
    <3>1. active' = slot'
      BY <1>3, <2>2
    <3>2. ASSUME cfg.slot >= 15, summary.soc > 0
          PROVE  /\ slot'.mode = "discharge" => summary.soc > cfg.min
                 /\ slot'.mode = "charge" => summary.soc < cfg.max
      <4>1. i = 0
        BY <2>2, <3>2, LongSlotIsFirst DEF PlanInv
      <4>2. energy = StartEnergy(cfg, summary)
        BY <4>1 DEF PlanInv
      <4>3. /\ summary.soc <= cfg.min => energy = MinEnergy
            /\ summary.soc >= cfg.max => energy = MaxEnergy
        BY <3>2, <4>2, StartOfCharge, Zenon DEF PlanInv, MinEnergy, MaxEnergy
      <4>4. /\ summary.soc \in Int /\ cfg.min \in Int /\ cfg.max \in Int
            /\ energy \in Int
        <5>1. summary.soc \in 0 .. 100
          BY PlanAssumption DEF PlanInv
        <5> QED  BY <5>1 DEF PlanInv, Normal
      <4>5. slot'.mode = "discharge" => summary.soc > cfg.min
        BY <1>1, <4>3, <4>4 DEF CanDischarge
      <4>6. slot'.mode = "charge" => summary.soc < cfg.max
        BY <1>1, <4>3, <4>4 DEF CanCharge
      <4> QED  BY <4>5, <4>6
    <3> QED  BY <1>1, <3>1, <3>2 DEF SlotSound, LimitPower
  <2> QED  BY <2>1, <2>2
<1>6. /\ Normal(cfg)' /\ now' \in 0 .. 1439 /\ summary' \in Summaries
  BY <1>0 DEF PlanInv, Normal
<1>7. energy' \in Int /\ MinEnergy' <= energy' /\ energy' <= MaxEnergy'
  BY <1>0, <1>1 DEF MinEnergy, MaxEnergy
<1>8. active' # NoSlot => SlotSound(active, cfg, summary.soc)'
  BY <1>0, <1>5 DEF SlotSound
<1>9. i' # 0
  BY <1>0
<1> QED  BY <1>4, <1>6, <1>7, <1>8, <1>9 DEF PlanInv

\* A complete plan has reached the time of the request.
LEMMA CompleteHasSlot ==
  ASSUME PlanInv, Complete
  PROVE  active # NoSlot
<1> SUFFICES ASSUME active = NoSlot  PROVE FALSE
  OBVIOUS
<1>1. PICK n \in Nat : n = slotCount /\ n * cfg.slot >= 15
  BY PlanIsLongEnough DEF PlanInv
<1>2. i = n
  BY <1>1 DEF Complete
<1>3. SlotStart(n) <= now /\ SlotStart(n) = Start + n * cfg.slot /\ n * cfg.slot \in Int
  BY <1>1, <1>2, SlotStarts DEF PlanInv
<1>4. Start \in Int /\ now < Start + 15 /\ now \in Int
  BY StartBound DEF PlanInv
<1> QED  BY <1>1, <1>3, <1>4

-----------------------------------------------------------------------------
(* The inductive invariant *)

\* The plan's variables move only while the handler reads the clock or the summary,
\* plans, or answers.
LEMMA PlanWriters ==
  ASSUME [DNext]_allVars
  PROVE  \/ UNCHANGED vars
         \/ \E r \in Requests, t \in Nows : Receive(r, t)
         \/ ReadSummary
         \/ Plan
         \/ DRelease
BY DEF DNext, Telemetry, Register, ReadDevices, Apply, AnswerOnly, Lookup, Publish,
       PublishFails, allVars

LEMMA PlanUnchanged ==
  ASSUME PlanInv, UNCHANGED <<cfg, summary, now, i, energy, active>>
  PROVE  PlanInv'
<1>1. /\ Normal(cfg)' = Normal(cfg)
      /\ MinEnergy' = MinEnergy /\ MaxEnergy' = MaxEnergy
      /\ StartEnergy(cfg, summary)' = StartEnergy(cfg, summary)
      /\ SlotStart(i)' = SlotStart(i)
      /\ SlotSound(active, cfg, summary.soc)' = SlotSound(active, cfg, summary.soc)
  BY DEF Normal, MinEnergy, MaxEnergy, StartEnergy, SlotStart, Start, SlotSound
<1> QED  BY <1>1 DEF PlanInv

LEMMA HandlerStep == HandlerInv /\ [DNext]_allVars => HandlerInv'
<1> SUFFICES ASSUME HandlerInv, [DNext]_allVars PROVE HandlerInv'
  OBVIOUS
<1> USE DEF HandlerInv
<1>1. ASSUME NEW s \in Summaries, Telemetry(s)  PROVE HandlerInv'
  BY <1>1 DEF Telemetry, handlerVars, vars
<1>2. ASSUME NEW d \in Devices, NEW type \in Types, Register(d, type)  PROVE HandlerInv'
  BY <1>2 DEF Register, handlerVars, vars
<1>3. ASSUME NEW r \in Requests, NEW t \in Nows, Receive(r, t)  PROVE HandlerInv'
  BY <1>3 DEF Receive, siteVars
<1>4. CASE ReadSummary
  <2>1. /\ stage = "summary" /\ pc = "idle"
        /\ stage' = "plan" \/ stage' = "devices"
        /\ pc' = "building" /\ i' = 0
        /\ cfg' = normalizeConfig(req.config) /\ now' = now
        /\ UNCHANGED <<req, site>>
    BY <1>4 DEF ReadSummary, Begin, siteVars
  <2> QED  BY <2>1
<1>5. CASE ReadDevices
  BY <1>5 DEF ReadDevices, vars, siteVars
<1>6. CASE Plan
  <2>1. /\ pc = "building" /\ stage = "plan"
        /\ pc' = "building" \/ pc' = "planned"
        /\ i' = i \/ i' = i + 1
        /\ UNCHANGED <<cfg, now, stage, req, site>>
    BY <1>6 DEF Plan, BuildDayAheadPlan, AppendSlot, Complete, handlerVars, siteVars
  <2> QED  BY <2>1
<1>7. ASSUME NEW cmd \in BuildPreview, Apply(cmd)  PROVE HandlerInv'
  BY <1>7 DEF Apply, vars, siteVars
<1>8. CASE DRelease /\ UNCHANGED siteVars
  BY <1>8 DEF DRelease, Release, siteVars
<1>9. CASE Lookup
  BY <1>9 DEF Lookup, vars, siteVars
<1>10. CASE UNCHANGED allVars
  BY <1>10 DEF allVars, vars, handlerVars, siteVars
<1>11. ASSUME NEW cmd \in BuildPreview, AnswerOnly(cmd)  PROVE DRelease /\ UNCHANGED siteVars
  BY <1>11 DEF AnswerOnly, siteVars
<1>12. Publish \/ PublishFails => DRelease /\ UNCHANGED siteVars
  BY DEF Publish, PublishFails, siteVars
<1> QED
  BY <1>1, <1>2, <1>3, <1>4, <1>5, <1>6, <1>7, <1>8, <1>9, <1>10, <1>11, <1>12 DEF DNext

LEMMA PlanStep ==
  IInv /\ [DNext]_allVars => /\ pc' # "idle" => PlanInv'
                             /\ pc' = "planned" => active' # NoSlot
<1> SUFFICES ASSUME IInv, [DNext]_allVars
             PROVE  /\ pc' # "idle" => PlanInv'
                    /\ pc' = "planned" => active' # NoSlot
  OBVIOUS
<1>1. CASE UNCHANGED vars
  BY <1>1, PlanUnchanged DEF IInv, vars
<1>2. ASSUME NEW r \in Requests, NEW t \in Nows, Receive(r, t)  PROVE pc' = "idle"
  BY <1>2 DEF Receive, IInv, HandlerInv
<1>3. CASE ReadSummary
  <2>1. /\ req.config \in Configs /\ site \in Summaries /\ now \in Nows
        /\ Begin(req.config, site, now) /\ pc' = "building"
    BY <1>3, DispatchAssumption DEF ReadSummary, Begin, IInv, HandlerInv
  <2> QED  BY <2>1, BeginPlan
<1>4. CASE Plan
  <2>1. ASSUME NEW shape, AppendSlot(shape)  PROVE PlanInv' /\ pc' = "building"
    BY <2>1, AppendSlotPlan DEF AppendSlot, IInv, HandlerInv
  <2>2. ASSUME Complete  PROVE PlanInv' /\ active' # NoSlot
    <3>1. PlanInv /\ UNCHANGED <<cfg, summary, now, i, energy, active>>
      BY <2>2 DEF Complete, IInv
    <3> QED  BY <2>2, <3>1, PlanUnchanged, CompleteHasSlot
  <2> QED  BY <1>4, <2>1, <2>2 DEF Plan, BuildDayAheadPlan
<1>5. CASE DRelease
  BY <1>5 DEF DRelease, Release
<1> QED  BY <1>1, <1>2, <1>3, <1>4, <1>5, PlanWriters

\* The candidate of an apply request that may be sent is the plan's slot.
LEMMA ApplyCommand ==
  ASSUME IInv, NEW cmd \in BuildPreview, Apply(cmd)
  PROVE  CommandInv'
<1>1. /\ pc = "planned" /\ req.kind = "apply" /\ DecideApply(cmd, req)
      /\ command' = cmd /\ UNCHANGED <<vars, req>>
  BY DEF Apply
<1>2. /\ req.confirm /\ cmd # NoCommand
      /\ Abs(TrackingError) <= Default(req.max, 100) * 100
  BY <1>1 DEF DecideApply
<1>3. active # NoSlot /\ active.mode \in Modes
  BY <1>1 DEF IInv, PlanInv, SlotSound
<1>4. /\ active.mode \notin {"none", "idle"} /\ active.target # 0
      /\ \E d \in firstDevice : cmd = [device |-> d, mode |-> batteryCommandMode(active.mode),
                                       target |-> active.target]
  BY <1>2 DEF BuildPreview
<1>5. /\ cmd.mode = batteryCommandMode(active.mode) /\ cmd.target = active.target
      /\ active.mode \in {"charge", "discharge"}
  BY <1>3, <1>4 DEF Modes
<1>6. UNCHANGED <<pc, active, summary>>
  BY <1>1 DEF vars
<1>7. TrackingError' = TrackingError
  BY <1>6 DEF TrackingError
<1>8. Abs(TrackingError)' <= Default(req.max, 100)' * 100
  BY <1>1, <1>2, <1>7 DEF Abs, Default
<1>9. command'.mode = batteryCommandMode(active.mode)'
  BY <1>1, <1>5, <1>6 DEF batteryCommandMode
<1> QED  BY <1>1, <1>2, <1>3, <1>4, <1>5, <1>6, <1>8, <1>9 DEF CommandInv

LEMMA CommandStep ==
  IInv /\ [DNext]_allVars => (stage' \in {"lookup", "publish"} => CommandInv')
<1> SUFFICES ASSUME IInv, [DNext]_allVars, stage' \in {"lookup", "publish"}
             PROVE  CommandInv'
  OBVIOUS
<1>1. ASSUME NEW cmd \in BuildPreview, Apply(cmd)  PROVE CommandInv'
  BY <1>1, ApplyCommand
<1>2. CASE \E cmd \in BuildPreview : Apply(cmd)
  BY <1>1, <1>2
<1>3. CASE ~\E cmd \in BuildPreview : Apply(cmd)
  <2>1. stage \in {"lookup", "publish"} /\ UNCHANGED <<vars, req, command>>
    BY <1>3 DEF DNext, Telemetry, Register, Receive, ReadSummary, ReadDevices, Plan,
        AnswerOnly, Lookup, Publish, PublishFails, DRelease, handlerVars, allVars
  <2>2. CommandInv
    BY <2>1 DEF IInv
  <2>3. UNCHANGED <<pc, active, summary, req, command>>
    BY <2>1 DEF vars
  <2>4. TrackingError' = TrackingError
    BY <2>3 DEF TrackingError
  <2>5. Abs(TrackingError)' <= Default(req.max, 100)' * 100
    BY <2>2, <2>3, <2>4 DEF CommandInv, Abs, Default
  <2>6. command'.mode = batteryCommandMode(active.mode)'
    BY <2>2, <2>3 DEF CommandInv, batteryCommandMode
  <2> QED  BY <2>2, <2>3, <2>5, <2>6 DEF CommandInv
<1> QED  BY <1>2, <1>3

\* What is published satisfies the claim about published commands.
LEMMA PublishAsPlanned ==
  ASSUME IInv, Publish
  PROVE  AppliedAsPlanned'
<1>1. /\ pc = "planned" /\ CommandInv /\ PlanInv /\ active # NoSlot
      /\ req \in Requests /\ ValidateConfig(req.config) /\ cfg = normalizeConfig(req.config)
  BY DEF Publish, IInv, HandlerInv, CommandInv
<1>2. SlotSound(active, cfg, summary.soc)
  BY <1>1 DEF PlanInv
<1>3. PICK e : e = TrackingError
  OBVIOUS
<1>4. sent' = [command |-> command, error |-> e, req |-> req, slot |-> active, cfg |-> cfg,
               soc |-> summary.soc]
  BY <1>3 DEF Publish
<1>5. /\ sent'.command = command /\ sent'.error = e /\ sent'.req = req
      /\ sent'.slot = active /\ sent'.cfg = cfg /\ sent'.soc = summary.soc
  BY <1>4
<1>6. req.config \in Configs
  BY <1>1, DispatchAssumption
<1>7. command.target \in 1 .. Default(req.config.limit, DefaultConfig.limit) * 100
  <2>1. cfg.limit = Default(req.config.limit, DefaultConfig.limit)
    BY <1>1, <1>6, ConfigIsNormal
  <2>2. command.target \in 0 .. cfg.limit * 100 /\ command.target # 0
    BY <1>1, <1>2 DEF SlotSound, CommandInv
  <2>3. cfg.limit * 100 \in Int
    BY <1>1 DEF PlanInv, Normal
  <2> QED  BY <2>1, <2>2, <2>3
<1>8. /\ command.mode = "discharging" => active.mode = "discharge"
      /\ command.mode = "charging" => active.mode = "charge"
  BY <1>1 DEF CommandInv, batteryCommandMode
<1>9. /\ req.kind = "apply" /\ req.confirm
      /\ command.mode = batteryCommandMode(active.mode)
      /\ Abs(e) <= Default(req.max, 100) * 100
  BY <1>1, <1>3 DEF CommandInv
<1>10. cfg.slot >= 15 /\ summary.soc > 0 =>
         /\ command.mode = "discharging" => summary.soc > cfg.min
         /\ command.mode = "charging" => summary.soc < cfg.max
  BY <1>2, <1>8 DEF SlotSound
<1>11. /\ Abs(sent.error)' = Abs(e) /\ Default(sent.req.max, 100)' = Default(req.max, 100)
       /\ batteryCommandMode(sent.slot.mode)' = batteryCommandMode(active.mode)
       /\ Default(sent.req.config.limit, DefaultConfig.limit)' =
             Default(req.config.limit, DefaultConfig.limit)
  BY <1>5 DEF Abs, Default, batteryCommandMode, DefaultConfig
<1> HIDE DEF Publish
<1> QED  BY <1>5, <1>7, <1>9, <1>10, <1>11 DEF AppliedAsPlanned

LEMMA SentStep == IInv /\ [DNext]_allVars => AppliedAsPlanned'
<1> SUFFICES ASSUME IInv, [DNext]_allVars PROVE AppliedAsPlanned'
  OBVIOUS
<1>1. CASE Publish
  BY <1>1, PublishAsPlanned
<1>2. CASE sent' = NotSent
  <2>1. NotSent' = NotSent
    BY DEF NotSent, NoCommand, NoRequest, NoSlot, DefaultConfig
  <2> QED  BY <1>2, <2>1 DEF AppliedAsPlanned
<1>3. CASE sent' = sent
  BY <1>3 DEF IInv, AppliedAsPlanned, Abs, Default, batteryCommandMode
<1>4. Publish \/ sent' = NotSent \/ sent' = sent
  BY DEF DNext, Telemetry, Register, Receive, ReadSummary, ReadDevices, Plan, Apply,
         AnswerOnly, Lookup, PublishFails, DRelease, handlerVars, allVars
<1> QED  BY <1>1, <1>2, <1>3, <1>4

LEMMA Invariance == DSpec => []IInv
<1>1. DInit => IInv
  BY DEF DInit, Init, IInv, HandlerInv, AppliedAsPlanned
<1>2. IInv /\ [DNext]_allVars => IInv'
  BY HandlerStep, PlanStep, CommandStep, SentStep DEF IInv
<1> QED  BY <1>1, <1>2, PTL DEF DSpec

-----------------------------------------------------------------------------
(* The results *)

\* For every configuration ValidateConfig accepts, every summary and every forecast, the
\* planned charge is between the limits from the first slot to the last.
THEOREM ChargeStaysWithinLimits == DSpec => []SocWithinLimits
<1>1. IInv => SocWithinLimits
  BY DEF IInv, PlanInv, SocWithinLimits
<1> QED  BY <1>1, Invariance, PTL

\* Every complete plan has a slot for the time of its request, whatever slot length
\* divides the hour and however far the start was cut back: BuildPreview always finds it.
THEOREM PlanHasActiveSlot == DSpec => []HasActiveSlot
<1>1. IInv => HasActiveSlot
  BY DEF IInv, HasActiveSlot
<1> QED  BY <1>1, Invariance, PTL

\* No clamp of nextSOC moves the charge on its own: each slot's charge moves as its mode
\* says.
THEOREM ChargeMovesWithMode == DSpec => ChargeFollowsMode
<1> DEFINE Moves == i' = i + 1 => /\ slot'.mode = "charge" => energy' > energy
                                  /\ slot'.mode = "discharge" => energy' < energy
                                  /\ slot'.mode = "idle" => energy' = energy
<1>1. IInv /\ [DNext]_allVars => [Moves]_vars
  <2> SUFFICES ASSUME IInv, [DNext]_allVars, ~UNCHANGED vars, i' = i + 1
               PROVE  /\ slot'.mode = "charge" => energy' > energy
                      /\ slot'.mode = "discharge" => energy' < energy
                      /\ slot'.mode = "idle" => energy' = energy
    OBVIOUS
  <2>0. i \in Nat /\ i' # 0 /\ i' # i
    BY DEF IInv, HandlerInv
  <2>1. Plan
    BY <2>0, PlanWriters DEF Receive, ReadSummary, Begin, DRelease, Release
  <2>2. PICK shape : AppendSlot(shape)
    BY <2>0, <2>1 DEF Plan, BuildDayAheadPlan, Complete
  <2>3. PlanInv
    BY <2>2 DEF AppendSlot, IInv
  <2> QED  BY <2>2, <2>3, AppendSlotCharge
<1> QED  BY <1>1, Invariance, PTL DEF DSpec, ChargeFollowsMode

\* A command leaves the platform only for a confirmed apply request, asks for what the
\* plan's current slot asks for, within the power limit that was sent and the deviation
\* in force, and with slots of 15 minutes or more does not discharge a battery that is
\* reported at its lower limit or charge one at its upper limit, whatever telemetry and
\* registrations arrive while the request is served.
THEOREM CommandsAreApplied == DSpec => []AppliedAsPlanned
BY Invariance, PTL DEF IInv

=============================================================================
