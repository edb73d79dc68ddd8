---------------------------- MODULE IngestProofs ----------------------------
(***************************************************************************)
(* Proofs about Ingest, for any set of devices and messages, any keys and  *)
(* any bounds: Redis, InfluxDB and PostgreSQL against what memory shows.   *)
(***************************************************************************)
EXTENDS Ingest, SequenceTheorems, FiniteSetTheorems, TLAPS

\* What PutTelemetry stores, and what PutEvent stores.
Readings == [msg : Messages, ts : Int, at : Nat]
EventIds == ({"event"} \X Nat) \cup (Devices \X Int)
EventRecords == [msg : Messages, id : EventIds, created : Nat]

\* The readings that memory, or that Redis shows.
Shown(store) == {store[d] : d \in Devices} \ {NoReading}

-----------------------------------------------------------------------------
(* The inductive invariant *)

TypeInv ==
    /\ clock \in Nat \ {0}
    /\ sentAt \in [Messages -> Nat]
    /\ tele \in [Devices -> Readings \cup {NoReading}]
    /\ redis \in [Devices -> Readings \cup {NoReading}]
    /\ influx \subseteq Readings
    /\ events \in Seq(EventRecords) /\ Len(events) <= MaxEvents
    /\ pg \subseteq EventRecords /\ IsFiniteSet(pg)
    /\ stored \in Nat

\* Where handleMessage stands: in a step of a reading, of an event, or in none.  A
\* process that is down handles nothing.
HandInv ==
    /\ hand.step \in {"idle", "redis", "influx", "pg"}
    /\ hand.step = "idle" => hand = Nothing
    /\ hand.step \in {"redis", "influx"} => hand.item \in Readings
    /\ hand.step = "pg" => hand.item \in EventRecords
    /\ hand = [step |-> hand.step, item |-> hand.item]
    /\ proc = "down" => hand.step = "idle"

\* A process that is down has no connection.
LinkInv == proc = "down" => conn = "off"

\* What arrives was sent.
SentInv == \A m \in net \cup seen : m \in Messages /\ sentAt[m] # 0

\* A reading is kept under the device that sent it.  What a check of the skew let through
\* is not stamped later than its arrival and the skew, nor later than the device's clock
\* said when it was sent, or the skew after that if the platform stamped it.
Sound(d, r, sent) ==
    /\ r.msg.dev = d
    /\ sent[r.msg] # 0
    /\ Keys # {} /\ MaxSkew > 0 =>
          /\ r.ts - r.at <= MaxSkew
          /\ r.ts - sent[r.msg] <= r.msg.ahead + (IF r.msg.stamped THEN 0 ELSE MaxSkew)

ReadingsInv ==
    \A d \in Devices : /\ tele[d] # NoReading => Sound(d, tele[d], sentAt)
                       /\ redis[d] # NoReading => Sound(d, redis[d], sentAt)

\* The reading in hand is the one memory shows for its device.
HandIsShown ==
    hand.step \in {"redis", "influx"} =>
        /\ hand.item.msg.dev \in Devices
        /\ tele[hand.item.msg.dev] = hand.item

\* RedisFollowsMemory, as the steps keep it.
RedisInv == RedisFollowsMemory

\* InfluxDB has the point of this reading, or what has overwritten it.
HasPoint(points, r) == \E q \in points : SamePoint(q, r) /\ q.at >= r.at

\* ReadingsReachInflux, where an event in hand does not count as a reading.
InfluxInv ==
    \A r \in Shown(tele) \cup Shown(redis) :
        \/ HasPoint(influx, r)
        \/ r \in cut
        \/ hand.step \in {"redis", "influx"} /\ hand.item = r
        \/ <<"influx", r>> \in logged

\* Nothing that is shown arrived after now, or after the reading in hand.
ArrivalInv ==
    \A r \in Shown(tele) \cup Shown(redis) :
        /\ r.at <= clock
        /\ hand.step \in {"redis", "influx"} => r.at <= hand.item.at

\* Rows and entries that the platform dates are numbered in the order of arrival, and such
\* an event in hand is newer than every such row; an event in hand is the first of the list.
NumberedInv ==
    /\ \A row \in pg : Undated(row) => row.created <= stored
    /\ \A r1, r2 \in pg :
          Undated(r1) /\ Undated(r2) /\ r1.created = r2.created => r1 = r2
    /\ \A k \in 1 .. Len(events) : Undated(events[k]) => events[k].created <= stored
    /\ hand.step = "pg" =>
          /\ Len(events) > 0 /\ events[1] = hand.item
          /\ Undated(hand.item) =>
                /\ hand.item.created = stored
                /\ \A row \in pg : Undated(row) => row.created < stored

\* The entries that the platform dated come newest first.
Sorted(list) ==
    \A j, k \in 1 .. Len(list) :
        j < k /\ Undated(list[j]) /\ Undated(list[k]) => list[j].created > list[k].created

\* Every entry has a row, is in hand as an event, or its failure is in the log.
EntriesInv ==
    \A k \in 1 .. Len(events) :
        \/ \E row \in pg : row.id = events[k].id
        \/ hand.step = "pg" /\ hand.item = events[k]
        \/ <<"pg", events[k]>> \in logged

\* Row is in the list, or the list is full and has none that the platform dated earlier.
Listed(list, row) ==
    \/ \E k \in 1 .. Len(list) : list[k] = row
    \/ /\ Len(list) = MaxEvents
       /\ Undated(row) => \A k \in 1 .. Len(list) :
                              Undated(list[k]) => list[k].created > row.created

ListInv ==
    proc = "up" => /\ Sorted(events)
                   /\ EntriesInv
                   /\ \A row \in pg : Listed(events, row)

IInv ==
    /\ TypeInv /\ HandInv /\ LinkInv /\ SentInv
    /\ ReadingsInv /\ HandIsShown /\ RedisInv /\ InfluxInv /\ ArrivalInv
    /\ NumberedInv /\ ListInv

-----------------------------------------------------------------------------
(* Lists *)

\* Cutting a list keeps its first entries (Store.PutEvent, SetEvents).
LEMMA NewestOf ==
  ASSUME NEW list \in Seq(EventRecords)
  PROVE  /\ Newest(list) \in Seq(EventRecords)
         /\ Len(Newest(list)) = IF Len(list) > MaxEvents THEN MaxEvents ELSE Len(list)
         /\ \A k \in 1 .. Len(Newest(list)) : Newest(list)[k] = list[k]
<1> DEFINE n == IF Len(list) > MaxEvents THEN MaxEvents ELSE Len(list)
<1>1. Len(list) \in Nat /\ MaxEvents \in Nat \ {0}
  BY LenProperties, IngestAssumption
<1>2. n \in Nat /\ n <= Len(list)
  BY <1>1
<1>3. \A i \in 1 .. n : list[i] \in EventRecords
  BY <1>1, <1>2, ElementOfSeq
<1> HIDE DEF n
<1>4. /\ SubSeq(list, 1, n) \in Seq(EventRecords)
      /\ Len(SubSeq(list, 1, n)) = n
      /\ \A i \in 1 .. n : SubSeq(list, 1, n)[i] = list[i]
  BY <1>2, <1>3, SubSeqProperties
<1> QED  BY <1>4 DEF Newest, n

\* A new entry in front of a list.
LEMMA Prepended ==
  ASSUME NEW list \in Seq(EventRecords), NEW e \in EventRecords
  PROVE  /\ <<e>> \o list \in Seq(EventRecords)
         /\ Len(<<e>> \o list) = Len(list) + 1
         /\ (<<e>> \o list)[1] = e
         /\ \A k \in 2 .. Len(list) + 1 : (<<e>> \o list)[k] = list[k - 1]
<1>1. <<e>> \in Seq(EventRecords) /\ Len(<<e>>) = 1 /\ <<e>>[1] = e
  OBVIOUS
<1>2. Len(list) \in Nat
  BY LenProperties
<1>3. /\ <<e>> \o list \in Seq(EventRecords)
      /\ Len(<<e>> \o list) = 1 + Len(list)
      /\ \A i \in 1 .. 1 + Len(list) :
            (<<e>> \o list)[i] = IF i <= 1 THEN <<e>>[i] ELSE list[i - 1]
  BY <1>1, ConcatProperties
<1> QED  BY <1>1, <1>2, <1>3

\* The list after PutEvent, entry by entry.
LEMMA PutEventList ==
  ASSUME NEW list \in Seq(EventRecords), NEW e \in EventRecords, Len(list) <= MaxEvents
  PROVE  LET new == Newest(<<e>> \o list)
         IN  /\ new \in Seq(EventRecords)
             /\ Len(new) = IF Len(list) = MaxEvents THEN MaxEvents ELSE Len(list) + 1
             /\ new[1] = e
             /\ \A k \in 2 .. Len(new) : new[k] = list[k - 1]
<1>1. Len(list) \in Nat /\ MaxEvents \in Nat \ {0}
  BY LenProperties, IngestAssumption
<1> DEFINE both == <<e>> \o list
<1>2. /\ both \in Seq(EventRecords)
      /\ Len(both) = Len(list) + 1
      /\ both[1] = e
      /\ \A k \in 2 .. Len(list) + 1 : both[k] = list[k - 1]
  BY Prepended
<1> HIDE DEF both
<1>3. /\ Newest(both) \in Seq(EventRecords)
      /\ Len(Newest(both)) = IF Len(both) > MaxEvents THEN MaxEvents ELSE Len(both)
      /\ \A k \in 1 .. Len(Newest(both)) : Newest(both)[k] = both[k]
  BY <1>2, NewestOf
<1>4. Len(Newest(both)) = IF Len(list) = MaxEvents THEN MaxEvents ELSE Len(list) + 1
  BY <1>1, <1>2, <1>3
<1>5. Newest(both)[1] = e
  BY <1>1, <1>2, <1>3, <1>4
<1>6. \A k \in 2 .. Len(Newest(both)) : Newest(both)[k] = list[k - 1]
  BY <1>1, <1>2, <1>3, <1>4
<1> QED  BY <1>3, <1>4, <1>5, <1>6 DEF both

\* What ListEvents reads: every row once, and no row before one that is dated later; those
\* that the platform dated strictly so.
LEMMA ListEventsOrder ==
  ASSUME pg \subseteq EventRecords, IsFiniteSet(pg), NEW rows \in ListEvents,
         \A r1, r2 \in pg :
            Undated(r1) /\ Undated(r2) /\ r1.created = r2.created => r1 = r2
  PROVE  /\ rows \in Seq(EventRecords)
         /\ \A k \in 1 .. Len(rows) : rows[k] \in pg
         /\ Sorted(rows)
         /\ \A row \in pg : \E k \in 1 .. Len(rows) : rows[k] = row
<1> DEFINE n == Cardinality(pg)
<1>1. n \in Nat
  BY FS_CardinalityType
<1>2. /\ rows \in [1 .. n -> pg] /\ DOMAIN rows = 1 .. n
      /\ \A j, k \in 1 .. n :
            j < k => rows[j] # rows[k] /\ rows[j].created >= rows[k].created
  BY DEF ListEvents
<1> HIDE DEF n
<1>3. rows \in Seq(EventRecords) /\ Len(rows) = n
  BY <1>1, <1>2
<1>4. Sorted(rows)
  <2> SUFFICES ASSUME NEW j \in 1 .. n, NEW k \in 1 .. n, j < k,
                      Undated(rows[j]), Undated(rows[k])
               PROVE  rows[j].created > rows[k].created
    BY <1>3 DEF Sorted
  <2>1. rows[j] \in pg /\ rows[k] \in pg
    BY <1>2
  <2>2. rows[j].created # rows[k].created /\ rows[j].created >= rows[k].created
    BY <1>2, <2>1
  <2>3. rows[j].created \in Nat /\ rows[k].created \in Nat
    BY <2>1 DEF EventRecords
  <2> QED  BY <2>2, <2>3
<1>5. \A j, k \in 1 .. n : rows[j] = rows[k] => j = k
  <2> SUFFICES ASSUME NEW j \in 1 .. n, NEW k \in 1 .. n, rows[j] = rows[k], j < k
               PROVE  FALSE
    BY <1>1
  <2> QED  BY <1>2
<1>6. rows \in Injection(1 .. n, pg)
  BY <1>2, <1>5 DEF Injection, IsInjective
<1>7. rows \in Surjection(1 .. n, pg)
  <2>1. Cardinality(1 .. n) = Cardinality(pg)
    BY <1>1, FS_Interval DEF n
  <2> QED  BY <1>6, <2>1, FS_Injection
<1>8. \A row \in pg : \E k \in 1 .. n : rows[k] = row
  BY <1>7 DEF Surjection
<1> QED  BY <1>2, <1>3, <1>4, <1>8

-----------------------------------------------------------------------------
(* The steps *)

\* The state that the stores and the list are about.
storeVars == <<proc, hand, memory, stores, stored, history>>

\* What a message was, and when it was sent, does not change any more.
LEMMA SentStays ==
  ASSUME TypeInv, [Next]_vars
  PROVE  /\ clock' \in Nat \ {0}
         /\ sentAt' \in [Messages -> Nat]
         /\ \A m \in Messages : sentAt[m] # 0 => sentAt'[m] = sentAt[m]
<1>1. CASE UNCHANGED <<clock, sentAt>>
  BY <1>1 DEF TypeInv
<1>2. CASE Tick
  BY <1>2 DEF Tick, TypeInv
<1>3. ASSUME NEW m \in Messages, Send(m)
      PROVE  /\ clock' \in Nat \ {0}
             /\ sentAt' \in [Messages -> Nat]
             /\ \A k \in Messages : sentAt[k] # 0 => sentAt'[k] = sentAt[k]
  <2>1. m.seq \in Nat
    BY IngestAssumption DEF Message
  <2>2. sentAt[m] = 0
    BY <1>3, <2>1 DEF Send
  <2> QED  BY <1>3, <2>2 DEF Send, TypeInv
<1> QED
  BY <1>1, <1>2, <1>3
  DEF Next, Connect, OnConnect, OnConnectFails, ConnectionLost, Reject, LogOnly,
      PutTelemetry, PutEvent, Delivered, PersistTelemetry, PersistTelemetryFails,
      WriteTelemetry, WriteTelemetryFails, PersistEvent, PersistEventFails, Crash, Start,
      vars, world

\* Only a message that was sent is under way (Send, and the two ways it is delivered).
LEMMA SentStep == IInv /\ [Next]_vars => SentInv'
<1> SUFFICES ASSUME IInv, [Next]_vars PROVE SentInv'
  OBVIOUS
<1>0. TypeInv /\ SentInv
  BY DEF IInv
<1>1. \A m \in Messages : sentAt[m] # 0 => sentAt'[m] = sentAt[m]
  BY <1>0, SentStays
<1>2. ASSUME NEW m \in Messages, Send(m)  PROVE SentInv'
  BY <1>0, <1>1, <1>2 DEF Send, SentInv, TypeInv
<1>3. CASE net' \cup seen' \subseteq net \cup seen
  BY <1>0, <1>1, <1>3 DEF SentInv
<1> QED
  BY <1>2, <1>3
  DEF Next, Tick, Connect, OnConnect, OnConnectFails, ConnectionLost, Reject, LogOnly,
      PutTelemetry, PutEvent, Delivered, PersistTelemetry, PersistTelemetryFails,
      WriteTelemetry, WriteTelemetryFails, PersistEvent, PersistEventFails, Crash, Start,
      vars, world

\* A process that is down does not connect.
LEMMA LinkStep == IInv /\ [Next]_vars => LinkInv'
<1> SUFFICES ASSUME IInv, [Next]_vars PROVE LinkInv'
  OBVIOUS
<1>1. LinkInv
  BY DEF IInv
<1> QED
  BY <1>1
  DEF LinkInv, Next, Tick, Send, Connect, OnConnect, OnConnectFails, ConnectionLost, Reject,
      LogOnly, PutTelemetry, PutEvent, Delivered, PersistTelemetry, PersistTelemetryFails,
      WriteTelemetry, WriteTelemetryFails, PersistEvent, PersistEventFails, Crash, Start,
      vars, link

\* A reading that is sound stays so.
LEMMA SoundStays ==
  ASSUME TypeInv, [Next]_vars, NEW d, NEW r \in Readings, Sound(d, r, sentAt)
  PROVE  Sound(d, r, sentAt')
<1>1. r.msg \in Messages /\ sentAt'[r.msg] = sentAt[r.msg]
  BY SentStays DEF Readings, Sound
<1> QED  BY <1>1 DEF Sound

\* A delivered message was sent, and what VerifyPayload let through is not old.
LEMMA DeliveredWasSent ==
  ASSUME IInv, NEW m \in Messages, Delivered(m)
  PROVE  /\ sentAt[m] # 0 /\ hand = Nothing /\ hand.step = "idle" /\ proc # "down"
         /\ UNCHANGED <<clock, sentAt, proc, redis, influx, pg, logged, cut>>
BY DEF IInv, SentInv, LinkInv, Delivered, Nothing, link, stores, history

\* A reading as PutTelemetry stores it.
LEMMA ReadingIsSound ==
  ASSUME IInv, NEW m \in Messages, PutTelemetry(m)
  PROVE  Reading(m) \in Readings /\ Sound(m.dev, Reading(m), sentAt) /\ m.dev \in Devices
<1>1. /\ clock \in Nat /\ sentAt[m] \in Nat /\ MaxSkew \in Nat
      /\ m.dev \in Devices /\ m.stamped \in BOOLEAN /\ m.ahead \in Int
  BY IngestAssumption DEF IInv, TypeInv, Message
<1>2. sentAt[m] # 0
  BY DeliveredWasSent DEF PutTelemetry
<1>3. PICK t : t = DeviceTime(m)
  OBVIOUS
<1>4. t \in Int /\ t = sentAt[m] + m.ahead
  BY <1>1, <1>3 DEF DeviceTime
<1>5. Timestamp(m) = IF m.stamped /\ t # 0 THEN t ELSE clock
  BY <1>3 DEF Timestamp
<1>6. Reading(m) \in Readings
  BY <1>1, <1>4, <1>5 DEF Reading, Readings
<1>7. Keys # {} /\ MaxSkew > 0 => t # 0 /\ clock - t <= MaxSkew /\ t - clock <= MaxSkew
  BY <1>3 DEF PutTelemetry, Passes, requiresDeviceAuth, Verified
<1>8. Keys # {} /\ MaxSkew > 0 =>
        /\ Timestamp(m) - clock <= MaxSkew
        /\ Timestamp(m) - sentAt[m] <= m.ahead + (IF m.stamped THEN 0 ELSE MaxSkew)
  <2>1. CASE m.stamped /\ t # 0
    BY <1>1, <1>4, <1>5, <1>7, <2>1
  <2>2. CASE ~m.stamped
    BY <1>1, <1>4, <1>5, <1>7, <2>2
  <2> QED  BY <1>7, <2>1, <2>2
<1>9. Sound(m.dev, Reading(m), sentAt)
  BY <1>2, <1>8 DEF Sound, Reading
<1> QED  BY <1>1, <1>6, <1>9

\* What is shown arrived before now and before the reading in hand.
LEMMA ArrivalStep == IInv /\ [Next]_vars => ArrivalInv'
<1> SUFFICES ASSUME IInv, [Next]_vars PROVE ArrivalInv'
  OBVIOUS
<1> DEFINE S == Shown(tele) \cup Shown(redis)
           T == Shown(tele') \cup Shown(redis')
<1>1. clock \in Nat /\ clock' \in Nat /\ clock <= clock'
  <2>1. clock \in Nat /\ clock' \in {clock, clock + 1}
    BY DEF IInv, TypeInv, Next, Tick, Send, Connect, OnConnect, OnConnectFails,
           ConnectionLost, Reject, LogOnly, PutTelemetry, PutEvent, Delivered,
           PersistTelemetry, PersistTelemetryFails, WriteTelemetry, WriteTelemetryFails,
           PersistEvent, PersistEventFails, Crash, Start, vars, world
  <2> QED  BY <2>1
<1>2. \A r \in S : r.at \in Nat /\ r.at <= clock
  BY DEF IInv, TypeInv, ArrivalInv, Shown, Readings
<1>3. (Shown(tele) \cup Shown(redis))' = T
  BY DEF Shown
<1>4. CASE T \subseteq S /\ (hand' = hand \/ hand'.step \in {"idle", "pg"})
  <2>1. \A r \in T : r.at <= clock'
    BY <1>1, <1>2, <1>4
  <2>2. hand'.step \in {"redis", "influx"} => \A r \in T : r.at <= hand'.item.at
    BY <1>4 DEF IInv, ArrivalInv
  <2> QED  BY <1>3, <2>1, <2>2 DEF ArrivalInv
<1>5. ASSUME NEW m \in Messages, PutTelemetry(m)  PROVE ArrivalInv'
  <2>1. PICK r : r = Reading(m)
    OBVIOUS
  <2>2. /\ r.at = clock /\ hand' = [step |-> "redis", item |-> r]
        /\ tele' = [tele EXCEPT ![m.dev] = r] /\ redis' = redis /\ clock' = clock
    BY <1>5, <2>1, DeliveredWasSent DEF PutTelemetry, Reading
  <2>3. T \subseteq S \cup {r}
    BY <2>2 DEF Shown, IInv, TypeInv
  <2>4. \A q \in T : q.at <= clock
    BY <1>1, <1>2, <2>2, <2>3
  <2> QED  BY <1>3, <2>2, <2>4 DEF ArrivalInv
<1>6. CASE PersistTelemetry \/ PersistTelemetryFails
  <2>1. PICK r : r = hand.item
    OBVIOUS
  <2>2. /\ hand = [step |-> "redis", item |-> r] /\ hand.step = "redis"
        /\ r \in Readings /\ r.msg.dev \in Devices /\ tele[r.msg.dev] = r
    BY <1>6, <2>1 DEF PersistTelemetry, PersistTelemetryFails, IInv, HandInv, HandIsShown
  <2>3. /\ hand' = [step |-> "influx", item |-> r] /\ tele' = tele /\ clock' = clock
        /\ redis' \in {redis, [redis EXCEPT ![r.msg.dev] = r]}
    BY <1>6, <2>1, <2>2
    DEF PersistTelemetry, PersistTelemetryFails, redisSet, memory, world
  <2>4. r \in S
    <3>1. r # NoReading
      BY <2>2 DEF NoReading, Readings
    <3> QED  BY <2>2, <3>1 DEF Shown
  <2>5. T \subseteq S
    BY <2>3, <2>4 DEF Shown, IInv, TypeInv
  <2>6. \A q \in S : q.at <= clock /\ q.at <= r.at
    BY <2>1, <2>2 DEF IInv, ArrivalInv
  <2> QED  BY <1>3, <2>3, <2>5, <2>6 DEF ArrivalInv
<1>7. CASE Crash \/ Start
  <2>1. hand' = hand \/ hand'.step = "idle"
    BY <1>7 DEF Crash, Start, Nothing
  <2>2. T \subseteq S
    BY <1>7 DEF Crash, Start, loadTelemetry, stores, Shown
  <2> QED  BY <1>4, <2>1, <2>2
<1>8. CASE /\ tele' = tele /\ redis' = redis
           /\ hand' = hand \/ hand'.step \in {"idle", "pg"}
  BY <1>4, <1>8
<1>9. hand' = Nothing => hand'.step = "idle"
  BY DEF Nothing
<1>10. \A m \in Messages : PutEvent(m) => hand'.step = "pg"
  BY DEF PutEvent
<1> QED
  BY <1>5, <1>6, <1>7, <1>8, <1>9, <1>10
  DEF Next, Tick, Send, Connect, OnConnect, OnConnectFails, ConnectionLost, Reject, LogOnly,
      PutEvent, Delivered, WriteTelemetry, WriteTelemetryFails, PersistEvent,
      PersistEventFails, vars, memory, stores

\* Steps of devices, time and the connection, and messages that are only logged.
LEMMA QuietStep ==
  ASSUME IInv, [Next]_vars, UNCHANGED storeVars
  PROVE  IInv'
<1>1. TypeInv'
  BY SentStays DEF IInv, TypeInv, storeVars, memory, stores
<1>2. HandInv' /\ HandIsShown' /\ RedisInv' /\ InfluxInv'
  BY DEF IInv, HandInv, HandIsShown, RedisInv, RedisFollowsMemory, InfluxInv, HasPoint, Shown,
         storeVars, memory, stores, history
<1>3. ReadingsInv'
  <2> SUFFICES ASSUME NEW d \in Devices
               PROVE  /\ tele[d] # NoReading => Sound(d, tele[d], sentAt')
                      /\ redis[d] # NoReading => Sound(d, redis[d], sentAt')
    BY DEF ReadingsInv, storeVars, memory, stores, Sound
  <2> QED  BY SoundStays DEF IInv, TypeInv, ReadingsInv
<1>4. NumberedInv' /\ ListInv'
  BY DEF IInv, NumberedInv, ListInv, EntriesInv, Sorted, Listed,
         storeVars, memory, stores, history
<1> QED  BY <1>1, <1>2, <1>3, <1>4, SentStep, LinkStep, ArrivalStep DEF IInv

\* Memory has the new reading, and Redis is next (PutTelemetry).
LEMMA PutTelemetryStep ==
  ASSUME IInv, [Next]_vars, NEW m \in Messages, PutTelemetry(m)
  PROVE  IInv'
<1>1. PICK r : r = Reading(m)
  OBVIOUS
<1>2. r \in Readings /\ Sound(m.dev, r, sentAt) /\ m.dev \in Devices
  BY <1>1, ReadingIsSound
<1>3. /\ hand.step = "idle" /\ hand = Nothing /\ proc # "down"
      /\ UNCHANGED <<clock, sentAt, proc, redis, influx, pg, logged, cut>>
  BY DeliveredWasSent DEF PutTelemetry
<1>4. /\ tele' = [tele EXCEPT ![m.dev] = r]
      /\ hand' = [step |-> "redis", item |-> r]
      /\ UNCHANGED <<events, stored>>
  BY <1>1 DEF PutTelemetry
<1>5. /\ tele' \in [Devices -> Readings \cup {NoReading}]
      /\ tele'[m.dev] = r
      /\ \A d \in Devices \ {m.dev} : tele'[d] = tele[d]
  BY <1>2, <1>4 DEF IInv, TypeInv
<1>6. hand'.step = "redis" /\ hand'.item = r
  BY <1>4
<1>7. TypeInv'
  BY <1>3, <1>4, <1>5 DEF IInv, TypeInv
<1>8. HandInv'
  BY <1>2, <1>3, <1>4, <1>6 DEF HandInv
<1>9. ReadingsInv'
  BY <1>2, <1>3, <1>5 DEF IInv, ReadingsInv
<1>10. HandIsShown'
  <2>1. r.msg.dev = m.dev
    BY <1>2 DEF Sound
  <2> QED  BY <1>2, <1>5, <1>6, <2>1 DEF HandIsShown
<1>11. RedisInv'
  BY <1>3, <1>5, <1>6 DEF IInv, RedisInv, RedisFollowsMemory
<1>12. InfluxInv'
  BY <1>3, <1>5, <1>6 DEF IInv, InfluxInv, HasPoint, Shown
<1>13. NumberedInv' /\ ListInv'
  BY <1>3, <1>4, <1>6 DEF IInv, NumberedInv, ListInv, EntriesInv, Sorted, Listed
<1> QED  BY <1>7, <1>8, <1>9, <1>10, <1>11, <1>12, <1>13, SentStep, LinkStep, ArrivalStep DEF IInv

\* Redis has the reading, or has failed, which the log says (persistTelemetry).
LEMMA PersistTelemetryStep ==
  ASSUME IInv, [Next]_vars, PersistTelemetry \/ PersistTelemetryFails
  PROVE  IInv'
<1>1. PICK r : r = hand.item
  OBVIOUS
<1>2. /\ hand.step = "redis" /\ hand = [step |-> "redis", item |-> r]
      /\ r \in Readings /\ r.msg.dev \in Devices /\ tele[r.msg.dev] = r
      /\ proc # "down"
  BY <1>1 DEF PersistTelemetry, PersistTelemetryFails, IInv, HandInv, HandIsShown
<1>3. /\ hand' = [step |-> "influx", item |-> r]
      /\ UNCHANGED <<proc, clock, sentAt, tele, events, influx, pg, stored, cut>>
  BY <1>2 DEF PersistTelemetry, PersistTelemetryFails, world, link, memory, history
<1>4. hand'.step = "influx" /\ hand'.item = r
  BY <1>3
<1>5. \/ redis' = [redis EXCEPT ![r.msg.dev] = r] /\ logged' = logged
      \/ /\ redis' \in {redis, [redis EXCEPT ![r.msg.dev] = r]}
         /\ logged' = logged \cup {<<"redis", r>>}
  BY <1>1 DEF PersistTelemetry, PersistTelemetryFails, redisSet, history
<1>6. /\ redis' \in [Devices -> Readings \cup {NoReading}]
      /\ \A d \in Devices \ {r.msg.dev} : redis'[d] = redis[d]
      /\ redis'[r.msg.dev] \in {redis[r.msg.dev], r}
      /\ redis'[r.msg.dev] = r \/ <<"redis", r>> \in logged'
      /\ logged \subseteq logged'
      /\ \A e : <<"pg", e>> \in logged' <=> <<"pg", e>> \in logged
  BY <1>2, <1>5 DEF IInv, TypeInv
<1>7. \A d \in Devices : tele[d] = r => d = r.msg.dev
  <2>1. r # NoReading
    BY <1>2 DEF NoReading, Readings
  <2> QED  BY <2>1 DEF IInv, ReadingsInv, Sound
<1>8. TypeInv'
  BY <1>3, <1>6 DEF IInv, TypeInv
<1>9. HandInv'
  BY <1>2, <1>3, <1>4 DEF HandInv
<1>10. ReadingsInv'
  BY <1>2, <1>3, <1>6 DEF IInv, ReadingsInv
<1>11. HandIsShown'
  BY <1>2, <1>3, <1>4 DEF HandIsShown
<1>12. RedisInv'
  BY <1>1, <1>2, <1>3, <1>6, <1>7 DEF IInv, RedisInv, RedisFollowsMemory
<1>13. InfluxInv'
  <2>1. Shown(tele') \cup Shown(redis') \subseteq Shown(tele) \cup Shown(redis) \cup {r}
    BY <1>3, <1>6 DEF Shown
  <2>2. \A q \in Shown(tele) \cup Shown(redis) :
          q = r \/ HasPoint(influx', q) \/ q \in cut' \/ <<"influx", q>> \in logged'
    BY <1>1, <1>3, <1>6 DEF IInv, InfluxInv
  <2>3. (Shown(tele) \cup Shown(redis))' = Shown(tele') \cup Shown(redis')
    BY DEF Shown
  <2> QED  BY <1>4, <2>1, <2>2, <2>3 DEF InfluxInv
<1>14. NumberedInv' /\ ListInv'
  BY <1>2, <1>3, <1>4, <1>6 DEF IInv, NumberedInv, ListInv, EntriesInv, Sorted, Listed
<1> QED
  BY <1>8, <1>9, <1>10, <1>11, <1>12, <1>13, <1>14, SentStep, LinkStep, ArrivalStep DEF IInv

\* InfluxDB has the point, or has failed (WriteTelemetry).
LEMMA WriteTelemetryStep ==
  ASSUME IInv, [Next]_vars, WriteTelemetry \/ WriteTelemetryFails
  PROVE  IInv'
<1>1. /\ hand.step = "influx" /\ hand' = Nothing
      /\ UNCHANGED <<proc, clock, sentAt, tele, redis, events, pg, stored, cut>>
      /\ influx' \in {influx, WritePoint(hand.item)} /\ logged \subseteq logged'
      /\ influx' = WritePoint(hand.item) \/ <<"influx", hand.item>> \in logged'
      /\ \A e : <<"pg", e>> \in logged' <=> <<"pg", e>> \in logged
  BY DEF WriteTelemetry, WriteTelemetryFails, world, link, memory, history
<1>2. hand'.step = "idle" /\ hand' = [step |-> hand'.step, item |-> hand'.item]
  BY <1>1 DEF Nothing
<1>3. PICK item : item = hand.item
  OBVIOUS
<1>4. item \in Readings
  BY <1>1, <1>3 DEF IInv, HandInv
<1>5. TypeInv' /\ ReadingsInv'
  BY <1>1, <1>3, <1>4 DEF IInv, TypeInv, ReadingsInv, WritePoint
<1>6. HandInv' /\ HandIsShown'
  BY <1>1, <1>2 DEF HandInv, HandIsShown
<1>7. RedisInv'
  BY <1>1 DEF IInv, RedisInv, RedisFollowsMemory
<1>8. InfluxInv'
  <2>1. ASSUME NEW r \in Shown(tele) \cup Shown(redis), HasPoint(influx, r)
        PROVE  HasPoint(influx', r)
    <3>1. PICK q \in influx : SamePoint(q, r) /\ q.at >= r.at
      BY <2>1 DEF HasPoint
    <3>2. CASE influx' = influx \/ ~SamePoint(q, item)
      <4>1. q \in influx'
        BY <1>1, <1>3, <3>2 DEF WritePoint
      <4> QED  BY <3>1, <4>1 DEF HasPoint
    <3>3. CASE influx' = WritePoint(item) /\ SamePoint(q, item)
      <4>1. item \in influx' /\ SamePoint(item, r)
        BY <3>1, <3>3 DEF WritePoint, SamePoint
      <4>2. r.at <= item.at
        BY <1>1, <1>3 DEF IInv, ArrivalInv
      <4>3. r.at \in Nat /\ item.at \in Nat
        BY <1>4 DEF IInv, TypeInv, Shown, Readings
      <4> QED  BY <4>1, <4>2, <4>3 DEF HasPoint
    <3> QED  BY <1>1, <1>3, <3>2, <3>3
  <2>2. influx' = WritePoint(item) => HasPoint(influx', item)
    <3>1. item.at \in Nat
      BY <1>4 DEF Readings
    <3> QED  BY <3>1 DEF HasPoint, WritePoint, SamePoint
  <2>3. (Shown(tele) \cup Shown(redis))' = Shown(tele) \cup Shown(redis)
    BY <1>1 DEF Shown
  <2>4. ASSUME NEW r \in Shown(tele) \cup Shown(redis)
        PROVE  HasPoint(influx', r) \/ r \in cut' \/ <<"influx", r>> \in logged'
    BY <1>1, <1>3, <2>1, <2>2 DEF IInv, InfluxInv
  <2> QED  BY <2>3, <2>4 DEF InfluxInv, HasPoint
<1>9. NumberedInv' /\ ListInv'
  BY <1>1, <1>2 DEF IInv, NumberedInv, ListInv, EntriesInv, Sorted, Listed
<1> QED  BY <1>5, <1>6, <1>7, <1>8, <1>9, SentStep, LinkStep, ArrivalStep DEF IInv

\* The list has the new event in front and is cut, and PostgreSQL is next (PutEvent).
LEMMA PutEventStep ==
  ASSUME IInv, [Next]_vars, NEW m \in Messages, PutEvent(m)
  PROVE  IInv'
<1>0. /\ events \in Seq(EventRecords) /\ Len(events) \in Nat /\ Len(events) <= MaxEvents
      /\ MaxEvents \in Nat \ {0} /\ stored \in Nat
  BY LenProperties, IngestAssumption DEF IInv, TypeInv
<1>1. PICK e : e = Event(m)
  OBVIOUS
<1>2. e \in EventRecords /\ (Undated(e) => e.created = stored + 1)
  <2>1. /\ clock \in Nat /\ sentAt[m] \in Nat /\ m.ahead \in Int
        /\ m.dev \in Devices /\ m.seq \in Nat /\ m.created \in Nat
    BY IngestAssumption DEF IInv, TypeInv, Message
  <2>2. EventId(m) \in EventIds
    <3>1. Timestamp(m) \in Int
      BY <2>1 DEF Timestamp, DeviceTime
    <3> QED  BY <2>1, <3>1 DEF EventId, EventIds
  <2> QED  BY <1>0, <1>1, <2>1, <2>2 DEF Event, EventRecords, Undated
<1>3. /\ hand.step = "idle" /\ hand = Nothing /\ proc # "down"
      /\ UNCHANGED <<clock, sentAt, proc, redis, influx, pg, logged, cut>>
  BY DeliveredWasSent DEF PutEvent
<1>4. /\ events' = Newest(<<e>> \o events)
      /\ hand' = [step |-> "pg", item |-> e]
      /\ stored' = stored + 1
      /\ UNCHANGED tele
  BY <1>1 DEF PutEvent
<1>5. /\ events' \in Seq(EventRecords)
      /\ Len(events') = IF Len(events) = MaxEvents THEN MaxEvents ELSE Len(events) + 1
      /\ events'[1] = e
      /\ \A k \in 2 .. Len(events') : events'[k] = events[k - 1]
  BY <1>0, <1>2, <1>4, PutEventList
<1>6. hand'.step = "pg" /\ hand'.item = e
  BY <1>4
<1>7. TypeInv'
  BY <1>0, <1>3, <1>4, <1>5 DEF IInv, TypeInv
<1>8. HandInv' /\ HandIsShown'
  BY <1>2, <1>3, <1>4, <1>6 DEF HandInv, HandIsShown
<1>9. ReadingsInv' /\ RedisInv' /\ InfluxInv'
  BY <1>3, <1>4, <1>6
  DEF IInv, ReadingsInv, RedisInv, RedisFollowsMemory, InfluxInv, HasPoint, Shown
<1>10. \A k \in 1 .. Len(events) :
          Undated(events[k]) => events[k].created \in Nat /\ events[k].created <= stored
  <2>1. \A k \in 1 .. Len(events) : events[k] \in EventRecords
    BY <1>0, ElementOfSeq
  <2> QED  BY <2>1 DEF EventRecords, IInv, NumberedInv
<1>11. \A row \in pg : Undated(row) => row.created \in Nat /\ row.created <= stored
  BY DEF IInv, TypeInv, NumberedInv, EventRecords
<1>12. \A k \in 2 .. Len(events') : k - 1 \in 1 .. Len(events)
  BY <1>0, <1>5
<1>13. NumberedInv'
  <2>1. ASSUME NEW k \in 1 .. Len(events'), Undated(events'[k])
        PROVE  events'[k].created <= stored'
    <3>1. CASE k = 1
      BY <1>0, <1>2, <1>4, <1>5, <2>1, <3>1
    <3>2. CASE k # 1
      <4>1. events'[k] = events[k - 1] /\ k - 1 \in 1 .. Len(events)
        BY <1>0, <1>5, <1>12, <3>2
      <4>2. events[k - 1].created \in Nat /\ events[k - 1].created <= stored
        BY <1>10, <2>1, <4>1
      <4> QED  BY <1>0, <1>4, <4>1, <4>2
    <3> QED  BY <3>1, <3>2
  <2>2. \A row \in pg' : Undated(row) => row.created < stored' /\ row.created <= stored'
    BY <1>0, <1>3, <1>4, <1>11
  <2>3. Len(events') > 0
    BY <1>0, <1>5
  <2>4. \A r1, r2 \in pg' :
          Undated(r1) /\ Undated(r2) /\ r1.created = r2.created => r1 = r2
    BY <1>3 DEF IInv, NumberedInv
  <2>5. Undated(e) => e.created = stored'
    BY <1>2, <1>4
  <2> QED  BY <1>5, <1>6, <2>1, <2>2, <2>3, <2>4, <2>5 DEF NumberedInv, Undated
<1>14. ASSUME proc' = "up"  PROVE Sorted(events') /\ EntriesInv' /\ \A row \in pg' : Listed(events', row)
  <2>0. Sorted(events) /\ EntriesInv /\ \A row \in pg : Listed(events, row)
    BY <1>3, <1>14 DEF IInv, ListInv
  <2>1. Sorted(events')
    <3> SUFFICES ASSUME NEW j \in 1 .. Len(events'), NEW k \in 1 .. Len(events'), j < k,
                        Undated(events'[j]), Undated(events'[k])
                 PROVE  events'[j].created > events'[k].created
      BY DEF Sorted
    <3>1. k \in 2 .. Len(events') /\ events'[k] = events[k - 1] /\ k - 1 \in 1 .. Len(events)
      BY <1>0, <1>5, <1>12
    <3>2. CASE j = 1
      <4>1. events[k - 1].created \in Nat /\ events[k - 1].created <= stored
        BY <1>10, <3>1
      <4> QED  BY <1>0, <1>2, <1>5, <3>1, <3>2, <4>1
    <3>3. CASE j # 1
      <4>1. j \in 2 .. Len(events') /\ events'[j] = events[j - 1] /\ j - 1 \in 1 .. Len(events)
        BY <1>0, <1>5, <1>12, <3>3
      <4>2. j - 1 < k - 1
        BY <1>0, <1>5
      <4> QED  BY <2>0, <3>1, <4>1, <4>2 DEF Sorted
    <3> QED  BY <3>2, <3>3
  <2>2. EntriesInv'
    <3> SUFFICES ASSUME NEW k \in 1 .. Len(events')
                 PROVE  \/ \E row \in pg' : row.id = events'[k].id
                        \/ hand'.step = "pg" /\ hand'.item = events'[k]
                        \/ <<"pg", events'[k]>> \in logged'
      BY DEF EntriesInv
    <3>1. CASE k = 1
      BY <1>5, <1>6, <3>1
    <3>2. CASE k # 1
      <4>1. events'[k] = events[k - 1] /\ k - 1 \in 1 .. Len(events)
        BY <1>0, <1>5, <1>12, <3>2
      <4> QED  BY <1>3, <2>0, <4>1 DEF EntriesInv
    <3> QED  BY <3>1, <3>2
  <2>3. ASSUME NEW row \in pg  PROVE Listed(events', row)
    <3>1. CASE \E k \in 1 .. Len(events) : events[k] = row
      <4>1. PICK k \in 1 .. Len(events) : events[k] = row
        BY <3>1
      <4>2. CASE k + 1 <= Len(events')
        <5>1. k + 1 \in 2 .. Len(events') /\ events'[k + 1] = row
          BY <1>0, <1>5, <4>1, <4>2
        <5>2. k + 1 \in 1 .. Len(events')
          BY <1>0, <5>1
        <5> QED  BY <5>1, <5>2 DEF Listed
      <4>3. CASE ~(k + 1 <= Len(events'))
        <5>1. k = MaxEvents /\ Len(events') = MaxEvents /\ Len(events) = MaxEvents
          BY <1>0, <1>5, <4>3
        <5>2. ASSUME Undated(row), NEW j \in 1 .. Len(events'), Undated(events'[j])
              PROVE  events'[j].created > row.created
          <6>1. CASE j = 1
            BY <1>0, <1>2, <1>5, <1>11, <5>2, <6>1
          <6>2. CASE j # 1
            <7>1. j \in 2 .. Len(events') /\ j - 1 \in 1 .. Len(events) /\ j - 1 < k
              BY <1>0, <1>12, <5>1, <6>2
            <7>2. events'[j] = events[j - 1]
              BY <1>5, <7>1
            <7> QED  BY <2>0, <4>1, <5>2, <7>1, <7>2 DEF Sorted
          <6> QED  BY <6>1, <6>2
        <5> QED  BY <5>1, <5>2 DEF Listed
      <4> QED  BY <4>2, <4>3
    <3>2. CASE /\ Len(events) = MaxEvents
               /\ Undated(row) => \A k \in 1 .. Len(events) :
                                      Undated(events[k]) => events[k].created > row.created
      <4>1. Len(events') = MaxEvents
        BY <1>5, <3>2
      <4>2. ASSUME Undated(row), NEW j \in 1 .. Len(events'), Undated(events'[j])
            PROVE  events'[j].created > row.created
        <5>1. CASE j = 1
          BY <1>0, <1>2, <1>5, <1>11, <4>2, <5>1
        <5>2. CASE j # 1
          <6>1. j \in 2 .. Len(events') /\ j - 1 \in 1 .. Len(events)
            BY <1>0, <1>12, <5>2
          <6>2. events'[j] = events[j - 1]
            BY <1>5, <6>1
          <6> QED  BY <3>2, <4>2, <6>1, <6>2
        <5> QED  BY <5>1, <5>2
      <4> QED  BY <4>1, <4>2 DEF Listed
    <3> QED  BY <2>0, <3>1, <3>2 DEF Listed
  <2> QED  BY <1>3, <2>1, <2>2, <2>3
<1>15. ListInv'
  BY <1>14 DEF ListInv, Sorted, Listed
<1> QED
  BY <1>7, <1>8, <1>9, <1>13, <1>15, SentStep, LinkStep, ArrivalStep DEF IInv

\* The row of the event replaces one with the same identifier, or PostgreSQL has failed,
\* before or after the commit (DeviceRepository.PutEvent).
LEMMA PersistEventStep ==
  ASSUME IInv, [Next]_vars, PersistEvent \/ PersistEventFails
  PROVE  IInv'
<1>1. PICK e : e = hand.item
  OBVIOUS
<1>2. /\ hand.step = "pg" /\ e \in EventRecords /\ proc # "down"
      /\ Undated(e) => /\ e.created = stored
                        /\ \A row \in pg : Undated(row) => row.created < stored
      /\ Len(events) > 0 /\ events[1] = e
  BY <1>1 DEF PersistEvent, PersistEventFails, IInv, HandInv, NumberedInv
<1>3. /\ hand' = Nothing
      /\ UNCHANGED <<proc, clock, sentAt, tele, redis, events, influx, stored, cut>>
      /\ pg' \in {pg, Upsert(e)}
      /\ pg' = Upsert(e) \/ <<"pg", e>> \in logged'
      /\ logged \subseteq logged'
  BY <1>1 DEF PersistEvent, PersistEventFails, world, link, memory, history
<1>4. hand'.step = "idle" /\ hand' = [step |-> hand'.step, item |-> hand'.item]
  BY <1>3 DEF Nothing
<1>5. /\ pg' \subseteq pg \cup {e}
      /\ \A row \in pg : \E new \in pg' : new.id = row.id
      /\ e \in pg' \/ <<"pg", e>> \in logged'
  BY <1>3 DEF Upsert
<1>6. TypeInv'
  <2>1. IsFiniteSet(pg \cup {e})
    BY FS_AddElement DEF IInv, TypeInv
  <2>2. IsFiniteSet(pg')
    BY <1>5, <2>1, FS_Subset
  <2> QED  BY <1>2, <1>3, <1>5, <2>2 DEF IInv, TypeInv
<1>7. HandInv' /\ HandIsShown'
  BY <1>2, <1>3, <1>4 DEF HandInv, HandIsShown
<1>8. ReadingsInv'
  BY <1>3 DEF IInv, ReadingsInv
<1>9. RedisInv' /\ InfluxInv'
  BY <1>2, <1>3 DEF IInv, RedisInv, RedisFollowsMemory, InfluxInv, HasPoint, Shown
<1>10. NumberedInv'
  <2>1. stored \in Nat /\ \A row \in pg : row.created \in Nat
    BY DEF IInv, TypeInv, EventRecords
  <2>2. \A row \in pg' : Undated(row) => row.created <= stored
    <3> SUFFICES ASSUME NEW row \in pg', Undated(row)  PROVE row.created <= stored
      OBVIOUS
    <3>1. CASE row = e
      BY <1>2, <2>1, <3>1
    <3>2. CASE row \in pg
      BY <3>2 DEF IInv, NumberedInv
    <3> QED  BY <1>5, <3>1, <3>2
  <2>3. \A r1, r2 \in pg' :
          Undated(r1) /\ Undated(r2) /\ r1.created = r2.created => r1 = r2
    <3> SUFFICES ASSUME NEW r1 \in pg', NEW r2 \in pg', Undated(r1), Undated(r2),
                        r1.created = r2.created
                 PROVE  r1 = r2
      OBVIOUS
    <3>1. CASE r1 = e \/ r2 = e
      BY <1>2, <1>5, <2>1, <3>1
    <3>2. CASE r1 # e /\ r2 # e
      BY <1>5, <3>2 DEF IInv, NumberedInv
    <3> QED  BY <3>1, <3>2
  <2> QED  BY <1>3, <1>4, <2>2, <2>3 DEF IInv, NumberedInv
<1>11. ASSUME proc' = "up"
       PROVE  Sorted(events') /\ EntriesInv' /\ \A row \in pg' : Listed(events', row)
  <2>0. Sorted(events) /\ EntriesInv /\ \A row \in pg : Listed(events, row)
    BY <1>3, <1>11 DEF IInv, ListInv
  <2>1. EntriesInv'
    <3> SUFFICES ASSUME NEW k \in 1 .. Len(events)
                 PROVE  \/ \E row \in pg' : row.id = events[k].id
                        \/ <<"pg", events[k]>> \in logged'
      BY <1>3 DEF EntriesInv
    <3>1. CASE \E row \in pg : row.id = events[k].id
      BY <1>5, <3>1
    <3>2. CASE events[k] = e
      BY <1>5, <3>2
    <3>3. CASE <<"pg", events[k]>> \in logged
      BY <1>3, <3>3
    <3> QED  BY <1>1, <2>0, <3>1, <3>2, <3>3 DEF EntriesInv
  <2>2. Listed(events, e)
    <3>1. Len(events) \in Nat
      BY LenProperties DEF IInv, TypeInv
    <3>2. 1 \in 1 .. Len(events)
      BY <1>2, <3>1
    <3> QED  BY <1>2, <3>2 DEF Listed
  <2> QED  BY <1>3, <1>5, <2>0, <2>1, <2>2
<1>12. ListInv'
  BY <1>11 DEF ListInv, Sorted, Listed
<1> QED
  BY <1>6, <1>7, <1>8, <1>9, <1>10, <1>12, SentStep, LinkStep, ArrivalStep DEF IInv

\* The process stops: what was in hand is cut off, and memory is gone.
LEMMA CrashStep ==
  ASSUME IInv, [Next]_vars, Crash
  PROVE  IInv'
<1>1. /\ proc' = "down" /\ hand' = Nothing
      /\ tele' = [d \in Devices |-> NoReading] /\ events' = <<>>
      /\ UNCHANGED <<clock, sentAt, redis, influx, pg, stored, logged>>
      /\ cut' = IF hand = Nothing THEN cut ELSE cut \cup {hand.item}
  BY DEF Crash, world, stores
<1>2. hand'.step = "idle" /\ hand' = [step |-> hand'.step, item |-> hand'.item]
  BY <1>1 DEF Nothing
<1>3. TypeInv'
  <2>1. events' \in Seq(EventRecords) /\ Len(events') = 0
    BY <1>1, EmptySeq
  <2> QED  BY <1>1, <2>1, IngestAssumption DEF IInv, TypeInv
<1>4. HandInv' /\ HandIsShown'
  BY <1>1, <1>2 DEF HandInv, HandIsShown
<1>5. ReadingsInv' /\ RedisInv' /\ ListInv'
  BY <1>1 DEF IInv, ReadingsInv, RedisInv, RedisFollowsMemory, ListInv
<1>6. InfluxInv'
  <2>1. hand = Nothing => hand.step = "idle"
    BY DEF Nothing
  <2>2. Shown(tele') = {}
    BY <1>1 DEF Shown
  <2>3. Shown(tele)' = Shown(tele') /\ Shown(redis)' = Shown(redis)
    BY <1>1 DEF Shown
  <2> QED  BY <1>1, <2>1, <2>2, <2>3 DEF IInv, InfluxInv
<1>7. NumberedInv'
  <2>1. Len(events') = 0
    BY <1>1, EmptySeq
  <2> QED  BY <1>1, <1>2, <2>1 DEF IInv, NumberedInv
<1> QED  BY <1>3, <1>4, <1>5, <1>6, <1>7, SentStep, LinkStep, ArrivalStep DEF IInv

\* The process starts: memory is what Redis and PostgreSQL hold (NewRedisStore,
\* loadRecentEvents).
LEMMA StartStep ==
  ASSUME IInv, [Next]_vars, Start
  PROVE  IInv'
<1>1. /\ proc = "down" /\ tele' = redis
      /\ UNCHANGED <<clock, sentAt, redis, influx, pg, stored, logged, cut, hand>>
  BY DEF Start, loadTelemetry, world, stores, history
<1>2. hand.step = "idle"
  BY <1>1 DEF IInv, HandInv
<1>3. PICK list \in ListEvents : events' = Newest(list)
  BY DEF Start
<1>4. /\ list \in Seq(EventRecords)
      /\ \A k \in 1 .. Len(list) : list[k] \in pg
      /\ Sorted(list)
      /\ \A row \in pg : \E k \in 1 .. Len(list) : list[k] = row
  BY ListEventsOrder DEF IInv, TypeInv, NumberedInv
<1>5. /\ events' \in Seq(EventRecords)
      /\ Len(events') = IF Len(list) > MaxEvents THEN MaxEvents ELSE Len(list)
      /\ \A k \in 1 .. Len(events') : events'[k] = list[k]
  BY <1>1, <1>3, <1>4, NewestOf
<1>6. Len(list) \in Nat /\ MaxEvents \in Nat \ {0}
  BY <1>3, <1>4, LenProperties, IngestAssumption
<1>7. \A k \in 1 .. Len(events') : k \in 1 .. Len(list) /\ events'[k] \in pg
  BY <1>3, <1>4, <1>5, <1>6
<1>8. TypeInv'
  BY <1>1, <1>5, <1>6 DEF IInv, TypeInv
<1>9. HandInv' /\ HandIsShown' /\ RedisInv'
  BY <1>1, <1>2 DEF IInv, HandInv, HandIsShown, RedisInv, RedisFollowsMemory
<1>10. ReadingsInv' /\ InfluxInv'
  BY <1>1 DEF IInv, ReadingsInv, InfluxInv, HasPoint, Shown
<1>11. NumberedInv'
  BY <1>1, <1>2, <1>7 DEF IInv, NumberedInv
<1>12. Sorted(events')
  BY <1>3, <1>4, <1>5, <1>7 DEF Sorted
<1>13. EntriesInv'
  BY <1>1, <1>7 DEF EntriesInv
<1>14. ASSUME NEW row \in pg  PROVE Listed(events', row)
  <2>1. PICK k \in 1 .. Len(list) : list[k] = row
    BY <1>3, <1>4
  <2>2. CASE k <= MaxEvents
    <3>1. k \in 1 .. Len(events')
      BY <1>5, <1>6, <2>2
    <3> QED  BY <1>5, <2>1, <3>1 DEF Listed
  <2>3. CASE k > MaxEvents
    <3>1. /\ Len(events') = MaxEvents
          /\ MaxEvents \in 1 .. Len(events') /\ MaxEvents \in 1 .. Len(list)
      BY <1>5, <1>6, <2>3
    <3>2. ASSUME Undated(row), NEW j \in 1 .. Len(events'), Undated(events'[j])
          PROVE  events'[j].created > row.created
      <4>1. j \in 1 .. Len(list) /\ j < k /\ events'[j] = list[j]
        BY <1>5, <1>6, <1>7, <2>3, <3>1
      <4> QED  BY <1>4, <2>1, <3>2, <4>1 DEF Sorted
    <3> QED  BY <3>1, <3>2 DEF Listed
  <2> QED  BY <1>6, <2>2, <2>3
<1>15. ListInv'
  BY <1>1, <1>12, <1>13, <1>14 DEF ListInv, Sorted, Listed
<1> QED  BY <1>8, <1>9, <1>10, <1>11, <1>15, SentStep, LinkStep, ArrivalStep DEF IInv

-----------------------------------------------------------------------------
(* The invariant *)

LEMMA InitIInv == Init => IInv
<1> SUFFICES ASSUME Init PROVE IInv
  OBVIOUS
<1>1. events \in Seq(EventRecords) /\ Len(events) = 0
  BY EmptySeq DEF Init
<1>2. IsFiniteSet(pg)
  BY FS_EmptySet DEF Init
<1>3. TypeInv
  BY <1>1, <1>2, IngestAssumption DEF Init, TypeInv
<1>4. hand.step = "idle" /\ hand = [step |-> hand.step, item |-> hand.item]
  BY DEF Init, Nothing
<1>5. HandInv /\ LinkInv /\ SentInv /\ HandIsShown
  BY <1>4 DEF Init, HandInv, LinkInv, SentInv, HandIsShown
<1>6. ReadingsInv /\ RedisInv /\ InfluxInv
  BY DEF Init, ReadingsInv, RedisInv, RedisFollowsMemory, InfluxInv, HasPoint, Shown
<1>7. NumberedInv /\ ListInv /\ ArrivalInv
  BY <1>1, <1>4 DEF Init, NumberedInv, ListInv, Sorted, EntriesInv, ArrivalInv, Shown
<1> QED  BY <1>3, <1>5, <1>6, <1>7 DEF IInv

LEMMA NextIInv == IInv /\ [Next]_vars => IInv'
<1> SUFFICES ASSUME IInv, [Next]_vars PROVE IInv'
  OBVIOUS
<1>1. CASE UNCHANGED storeVars
  BY <1>1, QuietStep
<1>2. CASE Tick \/ Connect \/ OnConnect \/ OnConnectFails \/ ConnectionLost
  BY <1>1, <1>2 DEF Tick, Connect, OnConnect, OnConnectFails, ConnectionLost, storeVars, link
<1>3. ASSUME NEW m \in Messages, Send(m) \/ Reject(m) \/ LogOnly(m)  PROVE IInv'
  BY <1>1, <1>3 DEF Send, Reject, LogOnly, Delivered, storeVars, link
<1>4. ASSUME NEW m \in Messages, PutTelemetry(m) \/ PutEvent(m)  PROVE IInv'
  BY <1>4, PutTelemetryStep, PutEventStep
<1>5. CASE PersistTelemetry \/ PersistTelemetryFails
  BY <1>5, PersistTelemetryStep
<1>6. CASE WriteTelemetry \/ WriteTelemetryFails
  BY <1>6, WriteTelemetryStep
<1>7. CASE PersistEvent \/ PersistEventFails
  BY <1>7, PersistEventStep
<1>8. CASE Crash \/ Start
  BY <1>8, CrashStep, StartStep
<1>9. CASE UNCHANGED vars
  BY <1>1, <1>9 DEF vars, storeVars, link
<1> QED
  BY <1>2, <1>3, <1>4, <1>5, <1>6, <1>7, <1>8, <1>9 DEF Next

LEMMA Invariance == Spec => []IInv
BY InitIInv, NextIInv, PTL DEF Spec

-----------------------------------------------------------------------------
(* The results *)

\* What memory shows and Redis does not is in hand or in the log, whatever fails or comes
\* again and however often the process restarts (PutTelemetry, persistTelemetry).
THEOREM RedisIsInStep == Spec => []RedisFollowsMemory
BY Invariance, PTL DEF IInv, RedisInv

\* Every reading that is shown, also one that a restart brought back from Redis, is a point
\* in InfluxDB, or is in hand, was cut off, or has a line in the log (WriteTelemetry).
THEOREM NoReadingBypassesInflux == Spec => []ReadingsReachInflux
<1>1. IInv => ReadingsReachInflux
  BY DEF IInv, InfluxInv, HasPoint, Shown, ReadingsReachInflux
<1> QED  BY <1>1, Invariance, PTL

\* With keys and a limit on the skew, a device is shown online only if its reading arrived
\* within the time to live and the skew, and was sent within the time to live and as long as
\* its clock was ahead, or the skew longer if the platform stamped it: for every drift of
\* every device's clock (VerifyPayload, handleMessage, DeviceStates).
THEOREM OnlineMeansRecent == Spec => []OnlineIsRecent
<1>1. IInv => OnlineIsRecent
  <2> SUFFICES ASSUME IInv, Keys # {}, MaxSkew > 0, NEW d \in Devices, Online(d)
               PROVE  /\ clock - tele[d].at <= OnlineTTL + MaxSkew
                      /\ clock - sentAt[tele[d].msg] <=
                           OnlineTTL + tele[d].msg.ahead
                             + (IF tele[d].msg.stamped THEN 0 ELSE MaxSkew)
    BY DEF OnlineIsRecent
  <2>1. PICK r : r = tele[d]
    OBVIOUS
  <2>2. r \in Readings /\ Sound(d, r, sentAt) /\ StaleFor(r.ts) <= OnlineTTL
    BY <2>1 DEF Online, IInv, TypeInv, ReadingsInv
  <2>3. /\ clock \in Nat /\ sentAt[r.msg] \in Nat /\ r.ts \in Int /\ r.at \in Nat
        /\ OnlineTTL \in Nat /\ MaxSkew \in Nat
        /\ r.msg.ahead \in Int
    BY <2>2, IngestAssumption DEF IInv, TypeInv, Readings, Message
  <2>4. clock - r.ts <= OnlineTTL
    BY <2>2, <2>3 DEF StaleFor
  <2>5. PICK late \in Nat : late = IF r.msg.stamped THEN 0 ELSE MaxSkew
    BY <2>3
  <2>6. r.ts - r.at <= MaxSkew /\ r.ts - sentAt[r.msg] <= r.msg.ahead + late
    BY <2>2, <2>5 DEF Sound
  <2>7. clock - r.at <= OnlineTTL + MaxSkew
    BY <2>3, <2>4, <2>6
  <2>8. clock - sentAt[r.msg] <= OnlineTTL + r.msg.ahead + late
    BY <2>3, <2>4, <2>6
  <2> QED  BY <2>1, <2>5, <2>7, <2>8
<1> QED  BY <1>1, Invariance, PTL

\* The event list and the table agree in both directions, and the events that the platform
\* dates are listed in the order of arrival and dropped oldest first, for every length of
\* the list and whatever created_at other events carry, across failed writes, repeats and
\* restarts (handleMessage, Store.PutEvent, DeviceRepository.PutEvent, loadRecentEvents).
THEOREM EventListIsTheTable == Spec => []EventListMatchesTable
<1>1. IInv => EventListMatchesTable
  <2> SUFFICES ASSUME IInv, proc = "up"  PROVE EventListMatchesTable
    BY DEF EventListMatchesTable
  <2>1. DOMAIN events = 1 .. Len(events)
    BY LenProperties DEF IInv, TypeInv
  <2> QED
    BY <2>1 DEF IInv, ListInv, Sorted, EntriesInv, Listed, EventListMatchesTable
<1> QED  BY <1>1, Invariance, PTL
=============================================================================
