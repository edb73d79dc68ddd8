-------------------------- MODULE ClosedLoopProofs --------------------------
(***************************************************************************)
(* The last event about the battery is true, for every number of loads and *)
(* every value of the thresholds.                                          *)
(***************************************************************************)
EXTENDS ClosedLoop, TLAPS

\* The loop and what the events are decided on.
TypeInv ==
    /\ loop \in 0 .. AtLoad(Len(LoadSeq))
    /\ charge \in Int
    /\ lowSOCOpen \in BOOLEAN
    /\ batteryMode \in Modes

\* Who knows the last event knows the flag.
FlagIsKnown ==
    /\ warned = "fine" => ~lowSOCOpen
    /\ warned = "low" => lowSOCOpen

\* From the event of a round to the sample of the next one, the event is true.
Judged ==
    loop \notin {AtPV, AtBattery, AtEvent} =>
        /\ warned = "fine" => charge > Low
        /\ warned = "low" => charge < Recover

IInv == TypeInv /\ FlagIsKnown /\ Judged

-----------------------------------------------------------------------------
(* The constants and the steps of the loop *)

\* What the proof needs of the constants (newSimulator, batteryTelemetry).
LEMMA Thresholds ==
    /\ HardMin \in Nat /\ Low \in Nat /\ Recover \in Nat /\ HardMax \in Nat /\ Start \in Nat
    /\ Low < Recover /\ Low < Start
    /\ Len(LoadSeq) \in Nat
<1>1. LoadSeq \in Seq(Loads)
  BY SimulatorAssumption
<1>2. Len(LoadSeq) \in Nat
  BY <1>1
<1> QED
  BY <1>2, SimulatorAssumption

\* A new simulator (newSimulator).
LEMMA NewDeviceFields == NewDevice.mode = "idle" /\ NewDevice.charge = Start
  BY DEF NewDevice

\* The loop stays in its range (main, the publications of a round).
LEMMA AdvanceInRange ==
    ASSUME TypeInv, Advance
    PROVE  loop' \in 0 .. AtLoad(Len(LoadSeq))
<1>1. loop' = IF loop = 3 + Len(LoadSeq) THEN 0 ELSE loop + 1
  BY DEF Advance, AtLoad, AtSample
<1>2. loop \in 0 .. (3 + Len(LoadSeq)) /\ Len(LoadSeq) \in Nat
  BY Thresholds DEF TypeInv, AtLoad
<1> QED
  BY <1>1, <1>2 DEF AtLoad

\* The publications of PV and battery do not end the round (the event is still to come).
LEMMA AdvanceInRound ==
    ASSUME TypeInv, Advance, loop \in {AtPV, AtBattery}
    PROVE  loop' \in {AtBattery, AtEvent}
<1>1. loop' = IF loop = 3 + Len(LoadSeq) THEN 0 ELSE loop + 1
  BY DEF Advance, AtLoad, AtSample
<1>2. Len(LoadSeq) \in Nat
  BY Thresholds
<1> QED
  BY <1>1, <1>2 DEF AtPV, AtBattery, AtEvent

\* The invariant holds of a new simulator and of a platform that has heard nothing.
LEMMA InitIInv == Init => IInv
<1> SUFFICES ASSUME Init PROVE IInv
  OBVIOUS
<1>1. /\ loop = 0 /\ charge = Start /\ batteryMode = "idle"
      /\ lowSOCOpen = FALSE /\ warned = "fine"
  BY NewDeviceFields DEF Init, SimInit, AtSample
<1>2. TypeInv
  <2>1. loop \in 0 .. AtLoad(Len(LoadSeq)) /\ charge \in Int
    BY <1>1, Thresholds DEF AtLoad
  <2>2. batteryMode \in Modes
    BY <1>1 DEF Modes
  <2> QED
    BY <1>1, <2>1, <2>2 DEF TypeInv
<1>3. FlagIsKnown
  BY <1>1 DEF FlagIsKnown
<1>4. Judged
  BY <1>1, Thresholds DEF Judged
<1> QED
  BY <1>2, <1>3, <1>4 DEF IInv

-----------------------------------------------------------------------------
(* The steps *)

\* Whatever leaves the battery, the flag, the loop and the last event alone.
LEMMA Untouched ==
    ASSUME IInv, UNCHANGED <<charge, lowSOCOpen, batteryMode, loop, warned>>
    PROVE  IInv'
  BY DEF IInv, TypeInv, FlagIsKnown, Judged

\* A publication of telemetry, heard or not (publishState).
LEMMA PublishStep ==
    ASSUME IInv, Round, loop \notin {AtSample, AtEvent}, Advance,
           UNCHANGED <<charge, lowSOCOpen, batteryMode, warned>>
    PROVE  IInv'
<1>1. TypeInv /\ FlagIsKnown /\ Judged
  BY DEF IInv
<1>2. TypeInv'
  BY <1>1, AdvanceInRange DEF TypeInv
<1>3. FlagIsKnown'
  BY <1>1 DEF FlagIsKnown
<1>4. Judged'
  <2>1. CASE loop \in {AtPV, AtBattery}
    BY <2>1, <1>1, AdvanceInRound DEF Judged
  <2>2. CASE loop \notin {AtPV, AtBattery}
    BY <2>2, <1>1 DEF Judged
  <2> QED
    BY <2>1, <2>2
<1> QED
  BY <1>2, <1>3, <1>4 DEF IInv

\* The sample moves the charge, and the events about it are still to come
\* (batteryTelemetry).
LEMMA SampleStep ==
    ASSUME IInv, NEW p \in PVPowers, Sample(p), UNCHANGED warned
    PROVE  IInv'
<1>1. TypeInv /\ FlagIsKnown
  BY DEF IInv
<1>2. loop' = AtPV /\ UNCHANGED lowSOCOpen
  BY DEF Sample
<1>3. charge' \in Int
  <2>1. Moved \in Int
    BY <1>1 DEF Moved, TypeInv, Modes
  <2>2. Within(Moved) \in Int
    BY <2>1, Thresholds DEF Within
  <2> QED
    BY <2>2 DEF Sample
<1>4. batteryMode' \in Modes
  BY <1>1 DEF Sample, ModeAfter, TypeInv, Modes
<1>5. TypeInv'
  BY <1>1, <1>2, <1>3, <1>4, Thresholds DEF TypeInv, AtPV, AtLoad
<1> QED
  BY <1>1, <1>2, <1>5 DEF IInv, FlagIsKnown, Judged

\* A command changes the mode at most, and to a mode (handleCommand).
LEMMA CommandStep ==
    ASSUME IInv, handleCommand, UNCHANGED warned
    PROVE  IInv'
<1>1. UNCHANGED <<charge, lowSOCOpen, loop>>
  BY DEF handleCommand
<1>2. batteryMode' \in Modes
  BY DEF handleCommand, Supported, Execute, IInv, TypeInv
<1> QED
  BY <1>1, <1>2 DEF IInv, TypeInv, FlagIsKnown, Judged

\* A simulator that starts anew; nobody knows its flag (newSimulator).
LEMMA DownStep ==
    ASSUME Down, warned' = "unknown"
    PROVE  IInv'
<1>1. /\ loop' = 0 /\ charge' = Start /\ batteryMode' = "idle"
      /\ lowSOCOpen' = FALSE
  BY NewDeviceFields DEF Down, AtSample
<1>2. (loop \in 0 .. AtLoad(Len(LoadSeq)) /\ charge \in Int)'
  BY <1>1, Thresholds DEF AtLoad
<1>3. batteryMode' \in Modes
  BY <1>1 DEF Modes
<1>4. TypeInv'
  BY <1>1, <1>2, <1>3 DEF TypeInv
<1> QED
  BY <1>4 DEF IInv, FlagIsKnown, Judged

\* The event of the round, whose publication sets what is known of the flag or, when it is
\* lost, forgets it (publishBatterySOCEvent).
LEMMA EventStep ==
    ASSUME IInv, SOCEvent,
           \/ warned' = "unknown"
           \/ warned' = CASE EventCode = "low_soc" -> "low"
                          [] EventCode = "soc_recovered" -> "fine"
                          [] EventCode = "none" -> warned
    PROVE  IInv'
<1>1. TypeInv /\ FlagIsKnown
  BY DEF IInv
<1>2. /\ UNCHANGED <<batteryMode, charge>>
      /\ Advance
      /\ lowSOCOpen' = ((lowSOCOpen \/ shouldWarn) /\ ~shouldRecover)
  BY DEF SOCEvent
<1>3. charge \in Int /\ lowSOCOpen \in BOOLEAN /\ charge' = charge
  BY <1>1, <1>2 DEF TypeInv
<1>4. TypeInv'
  BY <1>1, <1>2, AdvanceInRange DEF TypeInv, shouldWarn, shouldRecover
<1>5. CASE warned' = "unknown"
  BY <1>4, <1>5 DEF IInv, FlagIsKnown, Judged
<1>6. CASE warned' = CASE EventCode = "low_soc" -> "low"
                       [] EventCode = "soc_recovered" -> "fine"
                       [] EventCode = "none" -> warned
  <2>1. CASE shouldWarn
    <3>1. warned' = "low"
      BY <1>6, <2>1 DEF EventCode
    <3>2. charge < Recover
      BY <1>3, <2>1, Thresholds DEF shouldWarn
    <3>3. ~shouldRecover
      BY <2>1 DEF shouldWarn, shouldRecover
    <3>4. lowSOCOpen'
      BY <1>2, <2>1, <3>3
    <3> QED
      BY <1>3, <1>4, <3>1, <3>2, <3>4 DEF IInv, FlagIsKnown, Judged
  <2>2. CASE shouldRecover
    <3>1. ~shouldWarn
      BY <2>2 DEF shouldWarn, shouldRecover
    <3>2. warned' = "fine"
      BY <1>6, <2>2, <3>1 DEF EventCode
    <3>3. charge > Low
      BY <1>3, <2>2, Thresholds DEF shouldRecover
    <3>4. ~lowSOCOpen'
      BY <1>2, <2>2
    <3> QED
      BY <1>3, <1>4, <3>2, <3>3, <3>4 DEF IInv, FlagIsKnown, Judged
  <2>3. CASE ~shouldWarn /\ ~shouldRecover
    <3>1. warned' = warned
      BY <1>6, <2>3 DEF EventCode
    <3>2. lowSOCOpen' <=> lowSOCOpen
      BY <1>2, <2>3
    <3>3. warned = "fine" => charge > Low
      BY <1>1, <1>3, <2>3, Thresholds DEF FlagIsKnown, shouldWarn
    <3>4. warned = "low" => charge < Recover
      BY <1>1, <1>3, <2>3, Thresholds DEF FlagIsKnown, shouldRecover
    <3> QED
      BY <1>1, <1>3, <1>4, <3>1, <3>2, <3>3, <3>4 DEF IInv, FlagIsKnown, Judged
  <2> QED
    BY <2>1, <2>2, <2>3
<1> QED
  BY <1>5, <1>6

\* One step per action.
LEMMA NextIInv == IInv /\ [Next]_vars => IInv'
<1> SUFFICES ASSUME IInv, [Next]_vars PROVE IInv'
  OBVIOUS
<1>1. CASE Report
  <2>1. UNCHANGED <<charge, lowSOCOpen, batteryMode, warned>>
    BY <1>1 DEF Report, publishState, device
  <2> QED
    BY <1>1, <2>1, PublishStep DEF Report, publishState
<1>2. CASE ReportEvent
  BY <1>2, EventStep DEF ReportEvent, publishEvent
<1>3. CASE LoseTrack
  <2>1. CASE publishEventFails
    BY <1>3, <2>1, EventStep DEF LoseTrack, publishEventFails
  <2>2. CASE Crash \/ handleCommandPanics
    BY <1>3, <2>2, DownStep DEF LoseTrack, Crash, handleCommandPanics
  <2> QED
    BY <1>3, <2>1, <2>2 DEF LoseTrack
<1>4. CASE Unheard
  <2>0. UNCHANGED warned
    BY <1>4 DEF Unheard
  <2>1. CASE \E p \in PVPowers : Sample(p)
    BY <2>0, <2>1, SampleStep
  <2>2. CASE publishStateFails
    <3>1. UNCHANGED <<charge, lowSOCOpen, batteryMode>>
      BY <2>2 DEF publishStateFails, device
    <3> QED
      BY <2>0, <2>2, <3>1, PublishStep DEF publishStateFails
  <2>3. CASE handleCommand
    BY <2>0, <2>3, CommandStep
  <2>4. CASE Reconnect \/ OnConnectFails \/ ConnectionLost
    <3>1. UNCHANGED <<charge, lowSOCOpen, batteryMode, loop>>
      BY <2>4 DEF Reconnect, StartProcess, Connect, OnConnect, SetClient, OnConnectFails,
                  ConnectionLost, device
    <3> QED
      BY <2>0, <3>1, Untouched
  <2> QED
    BY <1>4, <2>1, <2>2, <2>3, <2>4 DEF Unheard
<1>5. CASE Tick
  <2>1. PICK c : Issue(c)
    BY <1>5 DEF Tick
  <2>2. UNCHANGED <<charge, lowSOCOpen, batteryMode, loop, warned>>
    BY <2>1 DEF Issue, Deliver, device
  <2> QED
    BY <2>2, Untouched
<1>6. CASE TickFails
  <2>1. UNCHANGED <<charge, lowSOCOpen, batteryMode, loop, warned>>
    BY <1>6 DEF TickFails, Deliver, device
  <2> QED
    BY <2>1, Untouched
<1>7. CASE Clock \/ PlatformRestart
  <2>1. UNCHANGED <<charge, lowSOCOpen, batteryMode, loop, warned>>
    BY <1>7 DEF Clock, PlatformRestart, simVars, device
  <2> QED
    BY <2>1, Untouched
<1>8. CASE \E c \in Commands : Command(c)
  <2>1. UNCHANGED <<charge, lowSOCOpen, batteryMode, loop, warned>>
    BY <1>8 DEF Command, Deliver, device
  <2> QED
    BY <2>1, Untouched
<1>9. CASE UNCHANGED vars
  <2>1. UNCHANGED <<charge, lowSOCOpen, batteryMode, loop, warned>>
    BY <1>9 DEF vars, simVars, device
  <2> QED
    BY <2>1, Untouched
<1> QED
  BY <1>1, <1>2, <1>3, <1>4, <1>5, <1>6, <1>7, <1>8, <1>9 DEF Next

-----------------------------------------------------------------------------
\* Between the rounds the last event tells whether the charge is low, for every number of
\* loads, order of steps and value of the thresholds (publishBatterySOCEvent).
THEOREM LastEventTheorem == Spec => []LastEventIsTrue
<1>1. IInv => LastEventIsTrue
  BY DEF IInv, Judged, LastEventIsTrue, AtSample, AtPV, AtBattery, AtEvent
<1> QED
  BY <1>1, InitIInv, NextIInv, PTL DEF Spec


-----------------------------------------------------------------------------
(* What makes a discharge end *)

\* The charge keeps to the limits of the battery (batteryTelemetry).
ChargeInRange == charge \in HardMin .. HardMax

\* As long as a discharge lasts, no step raises the charge and every round of the loop
\* lowers it.  With ChargeInRange there is room for only so many rounds: this is the
\* variant behind DischargeEnds, which TLC checks under fairness (batteryTelemetry).
DischargeDrains ==
    [][batteryMode = "discharging" /\ batteryMode' = "discharging" =>
          /\ charge' <= charge
          /\ loop = AtSample /\ loop' # AtSample => charge' < charge]_vars

\* Only the sample and a restart of the simulator change the charge, and only the sample
\* starts a round.
LEMMA ChargeWriters ==
    ASSUME [Next]_vars
    PROVE  \/ \E p \in PVPowers : Sample(p)
           \/ Down
           \/ charge' = charge /\ (loop = AtSample => loop' = AtSample)
<1>1. CASE Report
  BY <1>1 DEF Report, publishState, device
<1>2. CASE ReportEvent
  BY <1>2 DEF ReportEvent, publishEvent, SOCEvent, AtEvent, AtSample
<1>3. CASE LoseTrack
  BY <1>3 DEF LoseTrack, publishEventFails, SOCEvent, AtEvent, AtSample, Crash,
              handleCommandPanics
<1>4. CASE Unheard
  BY <1>4 DEF Unheard, publishStateFails, handleCommand, Reconnect, StartProcess, Connect,
              OnConnect, SetClient, OnConnectFails, ConnectionLost, device
<1>5. CASE Tick
  <2>1. PICK c : Issue(c)
    BY <1>5 DEF Tick
  <2> QED
    BY <2>1 DEF Issue, Deliver, device
<1>6. CASE TickFails \/ Clock \/ PlatformRestart \/ UNCHANGED vars
  BY <1>6 DEF TickFails, Clock, PlatformRestart, Deliver, vars, simVars, device
<1>7. CASE \E c \in Commands : Command(c)
  BY <1>7 DEF Command, Deliver, device
<1> QED
  BY <1>1, <1>2, <1>3, <1>4, <1>5, <1>6, <1>7 DEF Next

LEMMA RangeOfConstants ==
    /\ HardMin \in Nat /\ HardMax \in Nat /\ HardMin < HardMax
    /\ Start \in HardMin .. HardMax
  BY SimulatorAssumption

\* The clamp of batteryTelemetry.
LEMMA SampleInRange ==
    ASSUME TypeInv, NEW p, Sample(p)
    PROVE  ChargeInRange'
<1>1. PICK m \in Int : m = Moved
  BY DEF Moved, TypeInv, Modes
<1>2. charge' = Within(m)
  BY <1>1 DEF Sample
<1>3. Within(m) \in HardMin .. HardMax
  BY <1>1, RangeOfConstants DEF Within
<1> QED
  BY <1>2, <1>3 DEF ChargeInRange

LEMMA NextInRange == IInv /\ ChargeInRange /\ [Next]_vars => ChargeInRange'
<1> SUFFICES ASSUME IInv, ChargeInRange, [Next]_vars PROVE ChargeInRange'
  OBVIOUS
<1>1. ASSUME NEW p \in PVPowers, Sample(p)  PROVE ChargeInRange'
  BY <1>1, SampleInRange DEF IInv
<1>2. CASE Down
  BY <1>2, NewDeviceFields, RangeOfConstants DEF Down, ChargeInRange
<1>3. CASE charge' = charge
  BY <1>3 DEF ChargeInRange
<1> QED
  BY <1>1, <1>2, <1>3, ChargeWriters

LEMMA RangeInvariance == Spec => [](IInv /\ ChargeInRange)
<1>1. Init => ChargeInRange
  BY NewDeviceFields, RangeOfConstants DEF Init, SimInit, ChargeInRange
<1> QED
  BY <1>1, InitIInv, NextIInv, NextInRange, PTL DEF Spec

\* The simulated charge never leaves the battery's limits, whatever commands come.
THEOREM ChargeStaysInRange == Spec => []ChargeInRange
  BY RangeInvariance, PTL

\* A discharge that no command ends runs the battery down round by round, until the limit
\* ends it.
THEOREM DischargeDrainsBattery == Spec => DischargeDrains
<1> DEFINE Drains == batteryMode = "discharging" /\ batteryMode' = "discharging" =>
                       /\ charge' <= charge
                       /\ loop = AtSample /\ loop' # AtSample => charge' < charge
<1>1. IInv /\ ChargeInRange /\ [Next]_vars => [Drains]_vars
  <2> SUFFICES ASSUME IInv, ChargeInRange, [Next]_vars,
                      batteryMode = "discharging", batteryMode' = "discharging"
               PROVE  /\ charge' <= charge
                      /\ loop = AtSample /\ loop' # AtSample => charge' < charge
    OBVIOUS
  <2>0. charge \in Int /\ HardMin <= charge /\ charge <= HardMax
    BY RangeOfConstants DEF ChargeInRange
  <2>1. ASSUME NEW p \in PVPowers, Sample(p)  PROVE charge' < charge
    <3>1. Moved = charge - 1
      BY DEF Moved
    <3>2. charge' = Within(charge - 1) /\ ~(charge - 1 <= HardMin)
      BY <2>1, <3>1 DEF Sample, ModeAfter
    <3> QED
      BY <2>0, <3>2, RangeOfConstants DEF Within
  <2>2. CASE Down
    BY <2>2, NewDeviceFields DEF Down
  <2>3. CASE charge' = charge /\ (loop = AtSample => loop' = AtSample)
    BY <2>0, <2>3
  <2>4. ASSUME charge' < charge  PROVE charge' <= charge
    <3>1. charge' \in Int
      BY NextInRange, RangeOfConstants DEF ChargeInRange
    <3> QED
      BY <2>0, <2>4, <3>1
  <2> QED
    BY <2>1, <2>2, <2>3, <2>4, ChargeWriters
<1> QED
  BY <1>1, RangeInvariance, PTL DEF Spec, DischargeDrains

=============================================================================
