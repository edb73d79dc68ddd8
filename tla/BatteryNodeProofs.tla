------------------------- MODULE BatteryNodeProofs -------------------------
(***************************************************************************)
(* Proofs about the battery node: its MOSFETs follow its mode, its mode    *)
(* follows its acknowledgements, and its timer is never early, for every   *)
(* width of millis(), every interval and every number of commands.         *)
(***************************************************************************)
EXTENDS BatteryNode, TLAPS

\* Inside setMode the pins already written follow the new mode, and until the
\* acknowledgement the mode is the one the command asks for.
InHand ==
    /\ pc \in {"discharge", "led", "ack"} => mode = cmd
    /\ pc \notin {"discharge", "led", "ack"} => mode = told
    /\ pc = "discharge" => chargePin = (mode = "charging")
    /\ pc = "led" => /\ chargePin = (mode = "charging")
                     /\ dischargePin = (mode = "discharging")

\* Until the timer is due the unsigned difference is the true time.
TimerTellsTime == elapsed < Interval => Minus(millis, lastPubMs) = elapsed

IInv == TypeOK /\ PinsFollowMode /\ InHand /\ TimerTellsTime

-----------------------------------------------------------------------------
(* Unsigned time *)

LEMMA LaterType ==
  ASSUME NEW t \in 0 .. Wrap - 1  PROVE Later(t) \in 0 .. Wrap - 1
BY NodeAssumption DEF Later

\* One step later every difference short of the interval has grown by one.
LEMMA MinusLater ==
  ASSUME NEW a \in 0 .. Wrap - 1, NEW b \in 0 .. Wrap - 1,
         Minus(a, b) + 1 < Interval
  PROVE  Minus(Later(a), b) = Minus(a, b) + 1
<1>0. /\ Wrap \in Int /\ Interval \in Int /\ MaxRound \in Int /\ Interval < Wrap
      /\ a \in Int /\ b \in Int /\ 0 <= a /\ a < Wrap /\ 0 <= b /\ b < Wrap
  BY NodeAssumption
<1>1. CASE a >= b /\ a + 1 = Wrap
  <2>1. Minus(a, b) = a - b
    BY <1>1 DEF Minus
  <2>2. Later(a) = 0
    BY <1>1 DEF Later
  <2>3. b > 0
    BY <1>0, <1>1, <2>1
  <2> QED  BY <1>0, <1>1, <2>1, <2>2, <2>3 DEF Minus
<1>2. CASE a >= b /\ a + 1 # Wrap
  BY <1>0, <1>2 DEF Minus, Later
<1>3. CASE ~(a >= b)
  <2>1. a + 1 # Wrap /\ Later(a) = a + 1
    BY <1>0, <1>3 DEF Later
  <2>2. Minus(a, b) = a - b + Wrap
    BY <1>3 DEF Minus
  <2>3. a + 1 < b
    BY <1>0, <1>3, <2>2
  <2> QED  BY <1>0, <2>1, <2>2, <2>3 DEF Minus
<1> QED  BY <1>1, <1>2, <1>3

-----------------------------------------------------------------------------
(* Types *)

LEMMA TypeInit == Init => TypeOK
<1> SUFFICES ASSUME Init PROVE TypeOK
  OBVIOUS
<1>1. linked \in BOOLEAN /\ chargePin \in BOOLEAN /\ dischargePin \in BOOLEAN
      /\ ledPin \in BOOLEAN
  BY Zenon DEF Init
<1>2. inbox \in Seq(Commands)
  BY DEF Init
<1>3. /\ millis \in 0 .. Wrap - 1 /\ lastPubMs \in 0 .. Wrap - 1
      /\ round \in 0 .. MaxRound /\ elapsed \in 0 .. Interval /\ faults \in 0 .. MaxFaults
  BY NodeAssumption DEF Init
<1>4. /\ pc = "connect" /\ cmd = "none" /\ cmd \notin Modes
      /\ mode \in Modes /\ told \in Modes
  BY DEF Init, Modes
<1> QED  BY <1>1, <1>2, <1>3, <1>4 DEF TypeOK

LEMMA TypeStep == TypeOK /\ [Next]_vars => TypeOK'
<1> SUFFICES ASSUME TypeOK, [Next]_vars PROVE TypeOK'
  OBVIOUS
<1> USE DEF TypeOK, pinVars, timeVars
<1>1. CASE Connected \/ Reconnect \/ PollEmpty
  BY <1>1 DEF Connected, Reconnect, PollEmpty
<1>2. CASE Poll
  <2>1. Head(inbox) \in Commands /\ Tail(inbox) \in Seq(Commands)
    BY <1>2 DEF Poll
  <2>2. CASE Head(inbox) \in Modes
    BY <1>2, <2>1, <2>2 DEF Poll, Handler
  <2>3. CASE Head(inbox) \notin Modes
    BY <1>2, <2>1, <2>3 DEF Poll, Handler
  <2> QED  BY <2>2, <2>3
<1>3. CASE TimerIdle \/ TimerFires
  BY <1>3, NodeAssumption DEF TimerIdle, TimerFires
<1>4. CASE WriteCharge \/ WriteDischarge \/ WriteLed
  BY <1>4 DEF WriteCharge, WriteDischarge, WriteLed
<1>5. CASE AckOk \/ Refuse
  BY <1>5 DEF AckOk, Refuse, Modes
<1>6. ASSUME NEW c \in Commands, CommandArrives(c)  PROVE TypeOK'
  BY <1>6 DEF CommandArrives
<1>7. CASE Clock
  <2>1. millis' \in 0 .. Wrap - 1
    BY <1>7, LaterType DEF Clock
  <2>2. round' \in 0 .. MaxRound /\ elapsed' \in 0 .. Interval
    BY <1>7, NodeAssumption DEF Clock
  <2> QED  BY <1>7, <2>1, <2>2 DEF Clock
<1>8. CASE LinkLost
  <2>0. linked' \in BOOLEAN
    BY <1>8, Zenon DEF LinkLost
  <2>1. inbox' \in Seq(Commands)
    BY <1>8 DEF LinkLost
  <2>2. faults' \in 0 .. MaxFaults
    BY <1>8, NodeAssumption DEF LinkLost, Fault
  <2>3. /\ pc' = pc /\ cmd' = cmd /\ mode' = mode /\ told' = told
        /\ UNCHANGED pinVars /\ UNCHANGED timeVars
    BY <1>8 DEF LinkLost
  <2> QED  BY <2>0, <2>1, <2>2, <2>3, Zenon
<1>9. CASE Reset
  <2>1. /\ linked' \in BOOLEAN /\ chargePin' \in BOOLEAN /\ dischargePin' \in BOOLEAN
        /\ ledPin' \in BOOLEAN
    BY <1>9, Zenon DEF Reset
  <2>2. inbox' \in Seq(Commands)
    BY <1>9 DEF Reset
  <2>3. /\ millis' \in 0 .. Wrap - 1 /\ lastPubMs' \in 0 .. Wrap - 1
        /\ round' \in 0 .. MaxRound /\ elapsed' \in 0 .. Interval
        /\ faults' \in 0 .. MaxFaults
    BY <1>9, NodeAssumption DEF Reset, Fault
  <2>4. /\ pc' = "connect" /\ cmd' = "none" /\ cmd' \notin Modes
        /\ mode' \in Modes /\ told' \in Modes
    BY <1>9 DEF Reset, Modes
  <2> QED  BY <2>1, <2>2, <2>3, <2>4
<1>10. CASE UNCHANGED vars
  <2>1. /\ pc' = pc /\ linked' = linked /\ inbox' = inbox /\ cmd' = cmd /\ mode' = mode
        /\ UNCHANGED pinVars /\ UNCHANGED timeVars /\ told' = told /\ faults' = faults
    BY <1>10 DEF vars
  <2> QED  BY <2>1, Zenon
<1> QED  BY <1>1, <1>2, <1>3, <1>4, <1>5, <1>6, <1>7, <1>8, <1>9, <1>10
         DEF Next, loop, onMessage, setMode, World

\* Every variable keeps its type; a command is in hand exactly inside setMode.
THEOREM TypeCorrect == Spec => []TypeOK
BY TypeInit, TypeStep, PTL DEF Spec

-----------------------------------------------------------------------------
(* The inductive invariant *)

LEMMA InvInit == Init => IInv
<1> SUFFICES ASSUME Init PROVE IInv
  OBVIOUS
<1>1. TypeOK
  BY TypeInit
<1>2. PinsFollowMode /\ InHand
  BY DEF Init, PinsFollowMode, InHand
<1>3. TimerTellsTime
  BY NodeAssumption DEF Init, TimerTellsTime, Minus
<1> QED  BY <1>1, <1>2, <1>3 DEF IInv

\* The pins and the mode.
LEMMA PinStep == IInv /\ [Next]_vars => PinsFollowMode' /\ InHand'
<1> SUFFICES ASSUME IInv, [Next]_vars PROVE PinsFollowMode' /\ InHand'
  OBVIOUS
<1> USE DEF IInv, PinsFollowMode, InHand, pinVars
<1>1. CASE Connected \/ Reconnect \/ PollEmpty \/ TimerIdle \/ TimerFires
  BY <1>1 DEF Connected, Reconnect, PollEmpty, TimerIdle, TimerFires
<1>2. CASE Poll
  BY <1>2 DEF Poll, Handler
<1>3. CASE WriteCharge
  BY <1>3 DEF WriteCharge
<1>4. CASE WriteDischarge
  BY <1>4 DEF WriteDischarge
<1>5. CASE WriteLed
  BY <1>5 DEF WriteLed
<1>6. CASE AckOk \/ Refuse
  BY <1>6 DEF AckOk, Refuse
<1>7. CASE (\E c \in Commands : CommandArrives(c)) \/ Clock \/ LinkLost \/ UNCHANGED vars
  BY <1>7 DEF CommandArrives, Clock, LinkLost, vars
<1>8. CASE Reset
  BY <1>8 DEF Reset
<1> QED  BY <1>1, <1>2, <1>3, <1>4, <1>5, <1>6, <1>7, <1>8
         DEF Next, loop, onMessage, setMode, World

\* The timer.
LEMMA TimerStep == IInv /\ [Next]_vars => TimerTellsTime'
<1> SUFFICES ASSUME IInv, [Next]_vars PROVE TimerTellsTime'
  OBVIOUS
<1>0. /\ TypeOK /\ TimerTellsTime
      /\ millis \in 0 .. Wrap - 1 /\ lastPubMs \in 0 .. Wrap - 1
      /\ elapsed \in 0 .. Interval /\ Interval \in Nat \ {0} /\ Wrap \in Nat
  BY NodeAssumption DEF IInv, TypeOK
<1>1. CASE UNCHANGED <<millis, lastPubMs, elapsed>>
  BY <1>0, <1>1 DEF TimerTellsTime, Minus
<1>2. CASE TimerFires
  <2>1. millis' = millis /\ lastPubMs' = millis /\ elapsed' = 0
    BY <1>2 DEF TimerFires
  <2> QED  BY <1>0, <2>1 DEF TimerTellsTime, Minus
<1>3. CASE Reset
  BY <1>3 DEF Reset, TimerTellsTime, Minus
<1>4. CASE Clock
  <2> SUFFICES ASSUME elapsed' < Interval
               PROVE  Minus(millis, lastPubMs)' = elapsed'
    BY DEF TimerTellsTime
  <2>1. /\ millis' = Later(millis) /\ lastPubMs' = lastPubMs
        /\ elapsed' = IF elapsed < Interval THEN elapsed + 1 ELSE Interval
    BY <1>4 DEF Clock
  <2>2. elapsed < Interval /\ elapsed' = elapsed + 1 /\ elapsed + 1 < Interval
    BY <1>0, <2>1
  <2>3. Minus(millis, lastPubMs) = elapsed
    BY <1>0, <2>2 DEF TimerTellsTime
  <2>4. Minus(Later(millis), lastPubMs) = elapsed + 1
    BY <1>0, <2>2, <2>3, MinusLater
  <2> QED  BY <2>1, <2>2, <2>4 DEF Minus
<1> QED  BY <1>1, <1>2, <1>3, <1>4
         DEF Next, loop, onMessage, setMode, World, Connected, Reconnect, PollEmpty, Poll,
             TimerIdle, WriteCharge, WriteDischarge, WriteLed, AckOk, Refuse,
             CommandArrives, LinkLost, timeVars, vars

LEMMA Invariance == Spec => []IInv
<1>1. IInv /\ [Next]_vars => IInv'
  BY TypeStep, PinStep, TimerStep DEF IInv
<1> QED  BY InvInit, <1>1, PTL DEF Spec

-----------------------------------------------------------------------------
(* The results *)

\* Outside setMode both MOSFETs are as the reported mode says.
THEOREM PinsAlwaysFollowMode == Spec => []PinsFollowMode
BY Invariance, PTL DEF IInv

\* Between commands the node does, with mode and MOSFETs, what it last
\* acknowledged, or nothing.
THEOREM AcknowledgedIsDone == Spec => []DoesWhatItAcknowledged
<1>1. IInv => DoesWhatItAcknowledged
  <2> SUFFICES ASSUME IInv, cmd = "none"
               PROVE  /\ mode = told
                      /\ chargePin = (told = "charging")
                      /\ dischargePin = (told = "discharging")
    BY DEF DoesWhatItAcknowledged
  <2>1. pc \notin {"charge", "discharge", "led", "ack"}
    BY DEF IInv, TypeOK, Modes
  <2>2. mode = told
    BY <2>1 DEF IInv, InHand
  <2>3. chargePin = (mode = "charging") /\ dischargePin = (mode = "discharging")
    BY <2>1, Zenon DEF IInv, PinsFollowMode
  <2> QED  BY <2>2, <2>3, Zenon
<1> QED  BY <1>1, Invariance, PTL

\* The telemetry timer is never early, wherever millis() wraps around.
THEOREM TimerIsNeverEarly == Spec => TimerNeverEarly
<1>1. IInv => (TimerFires => elapsed = Interval)
  <2> SUFFICES ASSUME IInv, TimerFires PROVE elapsed = Interval
    OBVIOUS
  <2>1. Minus(millis, lastPubMs) >= Interval
    BY DEF TimerFires, Due
  <2>2. elapsed \in 0 .. Interval /\ Interval \in Nat
    BY NodeAssumption DEF IInv, TypeOK
  <2>3. ~(elapsed < Interval)
    BY <2>1, <2>2 DEF IInv, TimerTellsTime
  <2> QED  BY <2>2, <2>3
<1> QED  BY <1>1, Invariance, PTL DEF TimerNeverEarly
=============================================================================
