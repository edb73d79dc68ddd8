------------------------- MODULE EdgeGatewayProofs -------------------------
(***************************************************************************)
(* Proofs about EdgeGateway, for any number of messages and faults and any *)
(* batch size and retention.                                               *)
(***************************************************************************)
EXTENDS EdgeGateway, FiniteSetTheorems, TLAPS

-----------------------------------------------------------------------------
(* Type correctness *)

LEMMA TypeInit == Init => TypeOK
<1> SUFFICES ASSUME Init PROVE TypeOK
  OBVIOUS
<1>1. DOMAIN rows = {} /\ rows \in [DOMAIN rows -> -1 .. Expired]
  BY DEF Init
<1>2. up \in BOOLEAN /\ localUp \in BOOLEAN /\ subscribed \in BOOLEAN /\ upstreamUp \in BOOLEAN
  BY Zenon DEF Init
<1> QED  BY <1>1, <1>2, EdgeAssumption DEF Init, TypeOK

LEMMA TypeStep == TypeOK /\ [Next]_vars => TypeOK'
<1> SUFFICES ASSUME TypeOK, [Next]_vars PROVE TypeOK'
  OBVIOUS
<1> USE EdgeAssumption
<1>1. CASE DevicePublish
  BY <1>1 DEF DevicePublish, TypeOK, linkVars, dbVars, flushVars
<1>2. CASE Ignore \/ CaptureFails
  BY <1>2 DEF Ignore, CaptureFails, Fault, TypeOK, linkVars, dbVars, flushVars
<1>3. CASE Capture
  <2>1. lastId' = lastId + 1 /\ DOMAIN rows' = DOMAIN rows \cup {lastId + 1}
    BY <1>3 DEF Capture, Put
  <2>2. rows' \in [DOMAIN rows' -> -1 .. Expired]
    BY <1>3, <2>1 DEF Capture, Put, TypeOK, Unsent, Expired
  <2>3. DOMAIN rows' \subseteq 1 .. lastId' /\ lastId' \in Nat
    BY <2>1 DEF TypeOK
  <2> QED  BY <1>3, <2>1, <2>2, <2>3 DEF Capture, TypeOK, linkVars, flushVars
<1>4. CASE FlushStart
  <2>1. batch' \subseteq Ids
    BY <1>4 DEF FlushStart, FirstPending, Pending, TypeOK, Ids
  <2> QED  BY <1>4, <2>1 DEF FlushStart, TypeOK, linkVars, dbVars
<1>5. ASSUME NEW i \in batch, Forward(i)  PROVE TypeOK'
  BY <1>5 DEF Forward, TypeOK, linkVars, dbVars
<1>6. ASSUME NEW i \in batch, ForwardFails(i)  PROVE TypeOK'
  <2>1. forwarded' \in [Ids -> Nat]
    BY <1>6 DEF ForwardFails, TypeOK
  <2> QED  BY <1>6, <2>1 DEF ForwardFails, Return, Fault, TypeOK, linkVars, dbVars
<1>7. ASSUME NEW i \in batch, MarkSent(i)  PROVE TypeOK'
  <2>1. DOMAIN rows' = DOMAIN rows /\ rows' \in [DOMAIN rows -> -1 .. Expired]
    BY <1>7 DEF MarkSent, TypeOK, Expired
  <2> QED  BY <1>7, <2>1 DEF MarkSent, TypeOK, linkVars
<1>8. CASE MarkSentFails
  BY <1>8 DEF MarkSentFails, Return, Fault, TypeOK, linkVars, dbVars
<1>9. CASE DeleteSentBefore
  <2>1. DOMAIN rows' \subseteq DOMAIN rows /\ rows' \in [DOMAIN rows' -> -1 .. Expired]
    BY <1>9 DEF DeleteSentBefore, Retained, TypeOK
  <2> QED  BY <1>9, <2>1 DEF DeleteSentBefore, TypeOK, linkVars, flushVars
<1>10. CASE Clock
  <2>1. DOMAIN rows' = DOMAIN rows /\ rows' \in [DOMAIN rows -> -1 .. Expired]
    BY <1>10 DEF Clock, TypeOK, Expired
  <2> QED  BY <1>10, <2>1 DEF Clock, TypeOK, linkVars, flushVars
<1>11. CASE links
  <2>1. /\ localUp' \in BOOLEAN /\ subscribed' \in BOOLEAN /\ upstreamUp' \in BOOLEAN
        /\ up' \in BOOLEAN
    BY <1>11, Zenon DEF links, LocalLost, LocalReconnect, UpstreamLost, UpstreamReconnect, TypeOK
  <2>2. /\ UNCHANGED <<published, rows, lastId, pc, batch, forwarded, logged>>
        /\ wire' \in {wire, 0} /\ (faults' = faults \/ Fault)
    BY <1>11 DEF links, LocalLost, LocalReconnect, UpstreamLost, UpstreamReconnect, dbVars, flushVars
  <2> QED  BY <2>1, <2>2 DEF TypeOK, Fault
<1>12. CASE Crash
  <2>1. /\ localUp' \in BOOLEAN /\ subscribed' \in BOOLEAN /\ upstreamUp' \in BOOLEAN
        /\ up' \in BOOLEAN
    BY <1>12, Zenon DEF Crash
  <2>2. /\ UNCHANGED <<published, rows, lastId, forwarded, logged>>
        /\ wire' = 0 /\ Fault /\ pc' = "idle" /\ batch' = {}
    BY <1>12 DEF Crash, Return, dbVars
  <2> QED  BY <2>1, <2>2 DEF TypeOK, Fault
<1>13. CASE Restart
  <2>1. /\ localUp' \in BOOLEAN /\ subscribed' \in BOOLEAN /\ upstreamUp' \in BOOLEAN
        /\ up' \in BOOLEAN
    BY <1>13, Zenon DEF Restart
  <2>2. UNCHANGED <<published, wire, rows, lastId, pc, batch, forwarded, logged, faults>>
    BY <1>13 DEF Restart, dbVars, flushVars
  <2> QED  BY <2>1, <2>2 DEF TypeOK
<1>14. CASE UNCHANGED vars
  BY <1>14 DEF vars, TypeOK
<1> QED  BY <1>1, <1>2, <1>3, <1>4, <1>5, <1>6, <1>7, <1>8, <1>9, <1>10, <1>11, <1>12,
            <1>13, <1>14 DEF Next, captureHandler, flushPending

\* Every variable keeps its type; ids never run ahead of what was published.
THEOREM TypeCorrect == Spec => []TypeOK
BY TypeInit, TypeStep, PTL DEF Spec

-----------------------------------------------------------------------------
(* The inductive invariant *)

\* flushPending works on unsent rows and skips none that is older; what it is
\* about to mark has been accepted; nothing is forwarded before it is cached.
BatchIsOldest ==
    /\ pc = "idle" => batch = {}
    /\ batch \subseteq Pending
    /\ \A i \in Pending, j \in batch : i < j => i \in batch
    /\ \A i \in batch : (pc = "mark" /\ IsFirst(i)) => forwarded[i] > 0
    /\ \A i \in Ids : i > lastId => forwarded[i] = 0

\* An unsent row has been forwarded at most once per fault, unless it is the one
\* flushPending is about to mark.
RepeatsOfUnsent ==
    \A i \in Pending : ~(pc = "mark" /\ IsFirst(i)) => forwarded[i] <= faults

IInv == /\ TypeOK
        /\ BatchIsOldest
        /\ NoCachedMessageLost
        /\ FirstArrivalsInOrder
        /\ RepeatsComeFromFaults
        /\ RepeatsOfUnsent

\* LIMIT after ORDER BY: the loaded batch skips no older row.
LEMMA FirstPendingIsOldest ==
  ASSUME TypeOK, NEW i \in Pending, NEW j \in FirstPending, i < j
  PROVE  i \in FirstPending
<1> DEFINE A == {k \in Pending : k < i}
           B == {k \in Pending : k < j}
<1>1. Pending \subseteq 1 .. lastId /\ lastId \in Int
  BY DEF Pending, TypeOK
<1>2. A \subseteq B
  <2>1. j \in Pending
    BY DEF FirstPending
  <2>2. \A k \in Pending : k \in Int
    BY <1>1
  <2> QED  BY <2>1, <2>2
<1>3. IsFiniteSet(1 .. lastId)
  BY <1>1, FS_Interval
<1>4. IsFiniteSet(B)
  BY <1>1, <1>3, FS_Subset
<1>5. /\ IsFiniteSet(A)
      /\ Cardinality(A) <= Cardinality(B)
  BY <1>2, <1>4, FS_Subset
<1>6. Cardinality(A) \in Nat /\ Cardinality(B) \in Nat
  BY <1>4, <1>5, FS_CardinalityType
<1>7. Cardinality(B) < Batch
  BY DEF FirstPending
<1>8. Cardinality(A) < Batch
  BY <1>5, <1>6, <1>7, EdgeAssumption
<1> QED  BY <1>8 DEF FirstPending

LEMMA InvInit == Init => IInv
<1> SUFFICES ASSUME Init PROVE IInv
  OBVIOUS
<1>1. TypeOK
  BY TypeInit
<1>2. Pending = {} /\ batch = {} /\ lastId = 0 /\ \A i \in Ids : forwarded[i] = 0
  BY DEF Init, Pending
<1>3. BatchIsOldest
  BY <1>2 DEF Init, BatchIsOldest
<1>4. NoCachedMessageLost /\ FirstArrivalsInOrder
  BY <1>2 DEF NoCachedMessageLost, FirstArrivalsInOrder
<1>5. RepeatsComeFromFaults /\ RepeatsOfUnsent
  BY <1>2, EdgeAssumption DEF Init, RepeatsComeFromFaults, RepeatsOfUnsent
<1> QED  BY <1>1, <1>3, <1>4, <1>5 DEF IInv

\* The parts of the invariant a step must preserve, beside its type.
Parts == /\ BatchIsOldest
         /\ NoCachedMessageLost
         /\ FirstArrivalsInOrder
         /\ RepeatsComeFromFaults
         /\ RepeatsOfUnsent

\* A step that leaves the unsent rows and what upstream has seen alone, and goes
\* on with the batch or gives it up at the price of a fault.
LEMMA QuietStep ==
  ASSUME IInv, TypeOK', Pending' = Pending, lastId' = lastId, forwarded' = forwarded,
         \/ UNCHANGED <<pc, batch>> /\ faults' \in {faults, faults + 1}
         \/ pc' = "idle" /\ batch' = {} /\ faults' = faults + 1,
         \A i \in 1 .. lastId : (i \in DOMAIN rows /\ rows[i] = Unsent) =>
                                   (i \in DOMAIN rows' /\ rows'[i] = Unsent)
  PROVE  Parts'
<1>0. /\ faults \in Nat /\ faults' \in Nat /\ faults <= faults'
      /\ forwarded \in [Ids -> Nat] /\ Pending \subseteq Ids
  BY EdgeAssumption DEF IInv, TypeOK, Pending, Ids
<1>1. NoCachedMessageLost' /\ FirstArrivalsInOrder'
  BY DEF IInv, NoCachedMessageLost, FirstArrivalsInOrder
<1>2. RepeatsComeFromFaults'
  BY <1>0 DEF IInv, RepeatsComeFromFaults
<1>3. BatchIsOldest'
  BY DEF IInv, BatchIsOldest, IsFirst
<1>4. RepeatsOfUnsent'
  <2>1. CASE UNCHANGED <<pc, batch>>
    BY <1>0, <2>1 DEF IInv, RepeatsOfUnsent, IsFirst
  <2>2. CASE pc' = "idle" /\ faults' = faults + 1
    BY <1>0, <2>2 DEF IInv, RepeatsOfUnsent, RepeatsComeFromFaults
  <2> QED  BY <2>1, <2>2
<1> QED  BY <1>1, <1>2, <1>3, <1>4 DEF Parts

LEMMA InvStep == IInv /\ [Next]_vars => IInv'
<1> SUFFICES ASSUME IInv, [Next]_vars PROVE Parts'
  BY TypeStep DEF IInv, Parts
<1>0. TypeOK /\ TypeOK' /\ Parts
  BY TypeStep DEF IInv, Parts
<1>1. CASE \/ DevicePublish \/ Ignore \/ CaptureFails \/ MarkSentFails \/ links \/ Crash
           \/ Restart \/ UNCHANGED vars
  <2>1. /\ UNCHANGED <<rows, lastId, forwarded>>
        /\ \/ UNCHANGED <<pc, batch>> /\ faults' \in {faults, faults + 1}
           \/ pc' = "idle" /\ batch' = {} /\ faults' = faults + 1
    BY <1>1 DEF DevicePublish, Ignore, CaptureFails, MarkSentFails, links, LocalLost,
                LocalReconnect, UpstreamLost, UpstreamReconnect, Crash, Restart, Return,
                Fault, dbVars, flushVars, vars
  <2>2. Pending' = Pending
    BY <2>1 DEF Pending
  <2> QED  BY <1>0, <2>1, <2>2, QuietStep
<1>2. CASE DeleteSentBefore \/ Clock
  <2>1. UNCHANGED <<lastId, forwarded, pc, batch, faults>>
    BY <1>2 DEF DeleteSentBefore, Clock, flushVars
  <2>2. \A i \in DOMAIN rows : rows[i] = Unsent => i \in DOMAIN rows' /\ rows'[i] = Unsent
    BY <1>2, EdgeAssumption DEF DeleteSentBefore, Clock, Retained, Unsent, Expired
  <2>3. \A i \in DOMAIN rows' : rows'[i] = Unsent => i \in DOMAIN rows /\ rows[i] = Unsent
    BY <1>0, <1>2, EdgeAssumption DEF DeleteSentBefore, Clock, Retained, Unsent, Expired, TypeOK
  <2>4. Pending' = Pending
    BY <2>2, <2>3 DEF Pending, Unsent
  <2> QED  BY <1>0, <2>1, <2>2, <2>4, QuietStep
<1>3. CASE Capture
  <2> DEFINE n == lastId + 1
  <2>1. /\ lastId' = n /\ n \in Ids
        /\ UNCHANGED <<pc, batch, forwarded, faults>>
    BY <1>0, <1>3, EdgeAssumption DEF Capture, Put, TypeOK, Ids, flushVars
  <2>2. /\ DOMAIN rows' = DOMAIN rows \cup {n} /\ rows'[n] = Unsent
        /\ \A i \in DOMAIN rows : i # n /\ rows'[i] = rows[i]
    BY <1>0, <1>3 DEF Capture, Put, TypeOK
  <2>3. Pending' = Pending \cup {n}
    BY <2>2 DEF Pending, Unsent
  <2>4. forwarded[n] = 0 /\ \A j \in batch : j < n
    BY <1>0, <2>1 DEF Parts, BatchIsOldest, Pending, TypeOK
  <2>5. BatchIsOldest'
    BY <1>0, <2>1, <2>3, <2>4 DEF Parts, BatchIsOldest, IsFirst, TypeOK, Ids
  <2>6. NoCachedMessageLost'
    BY <1>0, <2>1, <2>2 DEF Parts, NoCachedMessageLost, TypeOK, Unsent
  <2>7. FirstArrivalsInOrder'
    BY <1>0, <2>1, <2>4 DEF Parts, FirstArrivalsInOrder, TypeOK
  <2>8. RepeatsComeFromFaults' /\ RepeatsOfUnsent'
    BY <1>0, <2>1, <2>3, <2>4 DEF Parts, RepeatsComeFromFaults, RepeatsOfUnsent, IsFirst, TypeOK
  <2> QED  BY <2>5, <2>6, <2>7, <2>8 DEF Parts
<1>4. CASE FlushStart
  <2>1. /\ UNCHANGED <<rows, lastId, forwarded, faults>>
        /\ pc = "idle" /\ pc' = "publish" /\ batch' = FirstPending
    BY <1>4 DEF FlushStart, dbVars
  <2>2. Pending' = Pending
    BY <2>1 DEF Pending
  <2>3. \A i \in Pending, j \in batch' : i < j => i \in batch'
    BY <1>0, <2>1, FirstPendingIsOldest
  <2>4. BatchIsOldest'
    BY <1>0, <2>1, <2>2, <2>3 DEF Parts, BatchIsOldest, FirstPending
  <2>5. NoCachedMessageLost' /\ FirstArrivalsInOrder' /\ RepeatsComeFromFaults'
    BY <1>0, <2>1 DEF Parts, NoCachedMessageLost, FirstArrivalsInOrder, RepeatsComeFromFaults
  <2>6. RepeatsOfUnsent'
    BY <1>0, <2>1, <2>2 DEF Parts, RepeatsOfUnsent
  <2> QED  BY <2>4, <2>5, <2>6 DEF Parts
<1>5. ASSUME NEW i \in batch, IsFirst(i), pc = "publish",
             UNCHANGED <<rows, lastId>>,
             forwarded' = [forwarded EXCEPT ![i] = @ + 1],
             \/ pc' = "mark" /\ batch' = batch /\ faults' = faults
             \/ pc' = "idle" /\ batch' = {} /\ faults' = faults + 1
      PROVE  Parts'
  <2>a. /\ batch \subseteq Pending /\ Pending \subseteq 1 .. lastId /\ 1 .. lastId \subseteq Ids
        /\ lastId \in Nat /\ MaxMessages \in Nat
    <3>1. batch \subseteq Pending
      BY <1>0 DEF Parts, BatchIsOldest
    <3>2. lastId \in Nat /\ wire \in Nat /\ published \in 0 .. MaxMessages
          /\ lastId + wire <= published /\ DOMAIN rows \subseteq 1 .. lastId
      BY <1>0 DEF TypeOK
    <3>3. Pending \subseteq 1 .. lastId
      BY <3>2 DEF Pending
    <3>4. MaxMessages \in Nat /\ lastId <= MaxMessages
      BY <3>2, EdgeAssumption
    <3>5. 1 .. lastId \subseteq Ids
      BY <3>2, <3>4 DEF Ids
    <3> QED  BY <3>1, <3>2, <3>3, <3>4, <3>5
  <2>b. Pending' = Pending
    BY <1>5 DEF Pending
  <2>c. \A j \in Pending : j \in Int
    BY <2>a
  <2>d. ASSUME NEW j \in Pending, j < i  PROVE FALSE
    <3>1. j \in batch
      BY <1>0, <2>d DEF Parts, BatchIsOldest
    <3>2. i <= j
      BY <1>5, <3>1 DEF IsFirst
    <3> QED  BY <2>a, <2>c, <2>d, <3>2
  <2>1. /\ i \in Pending /\ i \in Ids /\ Pending' = Pending /\ i \in 1 .. lastId
        /\ \A j \in Pending : j < i => FALSE
    BY <2>a, <2>b, <2>d
  <2>2. /\ forwarded'[i] = forwarded[i] + 1 /\ forwarded[i] <= faults
        /\ \A j \in Ids : j # i => forwarded'[j] = forwarded[j]
        /\ \A j \in Ids : forwarded[j] \in Nat
        /\ faults \in Nat
    BY <1>0, <1>5, <2>1, EdgeAssumption DEF Parts, RepeatsOfUnsent, TypeOK
  <2>e. \A j \in batch' : IsFirst(j)' => j = i
    <3> SUFFICES ASSUME NEW j \in batch', IsFirst(j)'  PROVE j = i
      OBVIOUS
    <3>1. batch' = batch
      BY <1>5
    <3>2. j \in batch /\ j <= i
      BY <3>1 DEF IsFirst
    <3>3. i <= j
      BY <1>5, <3>2 DEF IsFirst
    <3>4. i \in Int /\ j \in Int
      BY <2>a, <2>c, <3>2
    <3> QED  BY <3>2, <3>3, <3>4
  <2>3. BatchIsOldest'
    <3>1. batch' \subseteq Pending' /\ (pc' = "idle" => batch' = {})
      BY <1>5, <2>a, <2>b
    <3>2. \A k \in Pending', j \in batch' : k < j => k \in batch'
      BY <1>0, <1>5, <2>b DEF Parts, BatchIsOldest
    <3>3. \A k \in batch' : (pc' = "mark" /\ IsFirst(k)') => forwarded'[k] > 0
      BY <2>1, <2>2, <2>e
    <3>4. \A k \in Ids : k > lastId' => forwarded'[k] = 0
      <4>1. \A k \in Ids : k > lastId => k # i
        BY <2>1, <2>a DEF Ids
      <4> QED  BY <1>0, <1>5, <2>2, <4>1 DEF Parts, BatchIsOldest
    <3> QED  BY <3>1, <3>2, <3>3, <3>4 DEF BatchIsOldest
  <2>4. NoCachedMessageLost'
    BY <1>0, <1>5, <2>1, <2>2 DEF Parts, NoCachedMessageLost, TypeOK, Ids
  <2>5. \A j \in 1 .. lastId : j < i => forwarded[j] > 0
    BY <1>0, <2>1 DEF Parts, NoCachedMessageLost, Pending
  <2>6. FirstArrivalsInOrder'
    BY <1>0, <1>5, <2>1, <2>2, <2>5 DEF Parts, FirstArrivalsInOrder, TypeOK, Ids
  <2>7. RepeatsComeFromFaults'
    BY <1>0, <1>5, <2>2 DEF Parts, RepeatsComeFromFaults
  <2>8. RepeatsOfUnsent'
    <3> SUFFICES ASSUME NEW k \in Pending, ~(pc' = "mark" /\ IsFirst(k)')
                 PROVE  forwarded'[k] <= faults'
      BY <2>b DEF RepeatsOfUnsent
    <3>1. k \in Ids
      BY <2>a
    <3>2. CASE k # i
      <4>1. ~(pc = "mark" /\ IsFirst(k))
        BY <1>5
      <4>2. forwarded[k] <= faults
        BY <1>0, <4>1 DEF Parts, RepeatsOfUnsent
      <4> QED  BY <1>5, <2>2, <3>1, <3>2, <4>2
    <3>3. CASE k = i
      <4>1. CASE pc' = "mark"
        <5>1. batch' = batch
          BY <1>5, <4>1
        <5>2. IsFirst(i)'
          BY <1>5, <5>1 DEF IsFirst
        <5> QED  BY <3>3, <4>1, <5>2
      <4>2. CASE faults' = faults + 1
        BY <2>1, <2>2, <3>3, <4>2
      <4> QED  BY <1>5, <4>1, <4>2
    <3> QED  BY <3>2, <3>3
  <2> QED  BY <2>3, <2>4, <2>6, <2>7, <2>8 DEF Parts
<1>6. ASSUME NEW i \in batch, Forward(i)  PROVE Parts'
  BY <1>5, <1>6 DEF Forward, dbVars
<1>7. ASSUME NEW i \in batch, ForwardFails(i)  PROVE Parts'
  <2>1. CASE forwarded' = forwarded
    <3>1. /\ UNCHANGED <<rows, lastId>>
          /\ pc' = "idle" /\ batch' = {} /\ faults' = faults + 1
      BY <1>7 DEF ForwardFails, Return, Fault, dbVars
    <3>2. Pending' = Pending
      BY <3>1 DEF Pending
    <3> QED  BY <1>0, <2>1, <3>1, <3>2, QuietStep
  <2>2. CASE forwarded' = [forwarded EXCEPT ![i] = @ + 1]
    BY <1>5, <1>7, <2>2 DEF ForwardFails, Return, Fault, dbVars
  <2> QED  BY <1>7, <2>1, <2>2 DEF ForwardFails
<1>8. ASSUME NEW i \in batch, MarkSent(i)  PROVE Parts'
  <2>1. /\ pc = "mark" /\ IsFirst(i) /\ UNCHANGED <<lastId, forwarded, faults>>
        /\ batch' = batch \ {i} /\ pc' = IF batch = {i} THEN "idle" ELSE "publish"
    BY <1>8 DEF MarkSent
  <2>2. /\ DOMAIN rows' = DOMAIN rows
        /\ \A j \in DOMAIN rows : j # i => rows'[j] = rows[j]
        /\ i \in DOMAIN rows => rows'[i] = 0
    BY <1>8 DEF MarkSent
  <2>3. Pending' = Pending \ {i}
    BY <2>2 DEF Pending, Unsent
  <2>4. forwarded[i] > 0
    BY <1>0, <2>1 DEF Parts, BatchIsOldest
  <2>5. BatchIsOldest'
    BY <1>0, <2>1, <2>3 DEF Parts, BatchIsOldest
  <2>6. NoCachedMessageLost'
    BY <1>0, <2>1, <2>2, <2>4 DEF Parts, NoCachedMessageLost, Unsent
  <2>7. FirstArrivalsInOrder' /\ RepeatsComeFromFaults'
    BY <1>0, <2>1 DEF Parts, FirstArrivalsInOrder, RepeatsComeFromFaults
  <2>8. \A j \in Pending : (j # i /\ IsFirst(j)) => FALSE
    BY <1>0, <2>1 DEF IsFirst, TypeOK, Ids
  <2>9. RepeatsOfUnsent'
    BY <1>0, <2>1, <2>3, <2>8 DEF Parts, RepeatsOfUnsent
  <2> QED  BY <2>5, <2>6, <2>7, <2>9 DEF Parts
<1> QED  BY <1>1, <1>2, <1>3, <1>4, <1>6, <1>7, <1>8 DEF Next, captureHandler, flushPending

LEMMA Invariance == Spec => []IInv
BY InvInit, InvStep, PTL DEF Spec

-----------------------------------------------------------------------------
(* The results *)

\* No crash, failed write, lost link or cleanup loses a message that was cached.
THEOREM CachedMessagesAreKept == Spec => []NoCachedMessageLost
BY Invariance, PTL DEF IInv

\* Upstream sees messages for the first time in the order of capture.
THEOREM ArrivalsAreOrdered == Spec => []FirstArrivalsInOrder
BY Invariance, PTL DEF IInv

\* A message arrives at most once more than there were faults.
THEOREM RepeatsAreBounded == Spec => []RepeatsComeFromFaults
BY Invariance, PTL DEF IInv

-----------------------------------------------------------------------------
(* The gateway implements in-order store and forward *)

\* A message upstream accepts is one it already has, or the oldest it lacks.
LEMMA AcceptStep ==
  ASSUME IInv, IInv', NEW i \in batch, IsFirst(i), lastId' = lastId,
         forwarded' = [forwarded EXCEPT ![i] = @ + 1]
  PROVE  Arrived' = Arrived \/ Forwarder!Forward
<1>1. i \in Pending /\ i \in 1 .. lastId /\ i \in Ids /\ lastId \in Nat
  <2>1. i \in Pending /\ i \in Ids
    BY DEF IInv, BatchIsOldest, TypeOK
  <2>2. Pending \subseteq 1 .. lastId /\ lastId \in Nat
    BY DEF IInv, TypeOK, Pending
  <2> QED  BY <2>1, <2>2
<1>2. \A j \in Ids : forwarded[j] \in Nat /\ forwarded'[j] = IF j = i THEN forwarded[i] + 1
                                                                       ELSE forwarded[j]
  BY <1>1 DEF IInv, TypeOK
<1>3. 1 .. lastId \subseteq Ids
  <2>1. /\ lastId \in Nat /\ wire \in Nat /\ published \in 0 .. MaxMessages
        /\ lastId + wire <= published
    BY DEF IInv, TypeOK
  <2>2. lastId <= MaxMessages
    BY <2>1, EdgeAssumption
  <2> QED  BY <2>1, <2>2, EdgeAssumption DEF Ids
<1>4. Arrived' = Arrived \cup {i}
  BY <1>1, <1>2, <1>3 DEF Arrived
<1>5. \A j \in 1 .. lastId : j < i => j \in Arrived
  <2> SUFFICES ASSUME NEW j \in 1 .. lastId, j < i, j \notin Arrived  PROVE FALSE
    OBVIOUS
  <2>1. j \in Pending
    BY DEF Arrived, IInv, NoCachedMessageLost, Pending
  <2>2. j \in batch
    BY <1>1, <2>1 DEF IInv, BatchIsOldest
  <2>3. i <= j
    BY <2>2 DEF IsFirst
  <2> QED  BY <1>1, <2>3
<1>6. 1 .. (i - 1) \subseteq Arrived
  BY <1>1, <1>5
<1>7. CASE i \in Arrived
  BY <1>4, <1>7
<1>8. CASE i \notin Arrived
  BY <1>1, <1>4, <1>6, <1>8 DEF Forwarder!Forward
<1> QED  BY <1>7, <1>8

LEMMA ForwardStep ==
  IInv /\ IInv' /\ [Next]_vars => [Forwarder!Next]_(Forwarder!vars)
<1> SUFFICES ASSUME IInv, IInv', [Next]_vars
             PROVE  Forwarder!Next \/ (lastId' = lastId /\ Arrived' = Arrived)
  BY DEF Forwarder!vars
<1>1. ASSUME UNCHANGED <<lastId, forwarded>>  PROVE lastId' = lastId /\ Arrived' = Arrived
  BY <1>1 DEF Arrived
<1>2. CASE Capture
  <2>1. lastId' = lastId + 1 /\ forwarded' = forwarded /\ lastId \in Nat
    BY <1>2 DEF Capture, Put, IInv, TypeOK
  <2>2. lastId + 1 \in Ids
    BY <2>1, EdgeAssumption DEF IInv, TypeOK, Ids
  <2>3. forwarded[lastId + 1] = 0
    BY <2>1, <2>2 DEF IInv, BatchIsOldest
  <2>4. Arrived' = Arrived
    BY <2>1, <2>3 DEF Arrived
  <2> QED  BY <2>1, <2>4 DEF Forwarder!Next, Forwarder!Cache
<1>3. ASSUME NEW i \in batch, Forward(i)
      PROVE  Forwarder!Next \/ (lastId' = lastId /\ Arrived' = Arrived)
  <2>1. IsFirst(i) /\ lastId' = lastId /\ forwarded' = [forwarded EXCEPT ![i] = @ + 1]
    BY <1>3 DEF Forward, dbVars
  <2> QED  BY <2>1, AcceptStep DEF Forwarder!Next
<1>4. ASSUME NEW i \in batch, ForwardFails(i)
      PROVE  Forwarder!Next \/ (lastId' = lastId /\ Arrived' = Arrived)
  <2>1. /\ IsFirst(i) /\ lastId' = lastId
        /\ forwarded' = forwarded \/ forwarded' = [forwarded EXCEPT ![i] = @ + 1]
    BY <1>4 DEF ForwardFails, dbVars
  <2> QED  BY <1>1, <2>1, AcceptStep DEF Forwarder!Next
<1>5. CASE \/ DevicePublish \/ Ignore \/ CaptureFails \/ FlushStart \/ MarkSentFails
           \/ DeleteSentBefore \/ Clock \/ links \/ Crash \/ Restart \/ UNCHANGED vars
           \/ \E i \in batch : MarkSent(i)
  <2>1. UNCHANGED <<lastId, forwarded>>
    BY <1>5 DEF DevicePublish, Ignore, CaptureFails, FlushStart, MarkSentFails, MarkSent,
                DeleteSentBefore, Clock, links, LocalLost, LocalReconnect, UpstreamLost,
                UpstreamReconnect, Crash, Restart, dbVars, vars
  <2> QED  BY <1>1, <2>1
<1> QED  BY <1>2, <1>3, <1>4, <1>5 DEF Next, captureHandler, flushPending

\* Every behaviour of the gateway is one of the in-order store and forward: crashes,
\* retries and cleanup are invisible to who looks only at first arrivals.
THEOREM GatewayForwardsInOrder == Spec => ForwardsInOrder
<1>1. Init => Forwarder!Init
  BY DEF Init, Forwarder!Init, Arrived
<1> QED  BY <1>1, Invariance, ForwardStep, PTL DEF Spec, ForwardsInOrder, Forwarder!SafeSpec

=============================================================================
