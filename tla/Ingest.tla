------------------------------- MODULE Ingest -------------------------------
(***************************************************************************)
(* The uplink of the platform (internal/mqtt, internal/state, the event    *)
(* table of internal/repository, internal/timeseries): a message from a    *)
(* device is verified, stored in memory and then in Redis and InfluxDB     *)
(* (telemetry) or PostgreSQL (events).  paho calls handleMessage for one   *)
(* message at a time; QoS 1, and the edge gateway after a fault, may       *)
(* deliver a message again, after newer ones.  A device's clock may differ *)
(* from the platform's either way.  A store may fail, and the process may  *)
(* stop between any two steps.                                             *)
(***************************************************************************)
EXTENDS Integers, Sequences, FiniteSets

CONSTANTS
    Devices,     \* device identifiers
    Messages,    \* the messages devices may send, see Message
    Keys,        \* devices with a key in DEVICE_KEYS, {} if verification is off
    MaxSkew,     \* DEVICE_AUTH_MAX_SKEW, 0 if timestamps are not checked
    OnlineTTL,   \* metrics.DeviceOnlineTTL, 30 s
    MaxEvents,   \* length of the event list in memory, 200 in the code
    MaxClock,    \* bound on the clock
    MaxRepeats,  \* bound on repeated deliveries
    MaxFaults    \* bound on failed stores, lost connections and crashes

\* What handleMessage sees of a message: whether its JSON parses, carries a timestamp,
\* an event_id and a signature of the device that its topic names, how far the device's
\* clock was ahead of the platform's when it was sent (behind, if negative), and the
\* created_at of an event, 0 if it carries none.
Message ==
    [seq : Nat, dev : Devices, kind : {"telemetry", "event", "status"},
     parses : BOOLEAN, stamped : BOOLEAN, named : BOOLEAN, signed : BOOLEAN,
     ahead : Int, created : Nat]

ASSUME IngestAssumption ==
    /\ Messages \subseteq Message
    /\ Keys \subseteq Devices
    /\ {MaxSkew, OnlineTTL, MaxClock, MaxRepeats, MaxFaults} \subseteq Nat
    /\ MaxEvents \in Nat \ {0}

VARIABLES
    clock,     \* the platform's time in seconds, from 1
    sentAt,    \* when a message was sent and signed, 0 if it was not
    net,       \* messages that may still arrive for the first time
    seen,      \* messages that arrived
    conn,      \* the MQTT connection: "off", "up", "subscribed" or "refused"
    proc,      \* the platform process: "up" or "down"
    hand,      \* the message in handleMessage and its next step
    tele,      \* Store.telemetry
    events,    \* Store.events, newest first
    rejects,   \* Client.rejects["auth"]
    redis,     \* the Redis hash latest_telemetry
    influx,    \* the points in InfluxDB
    pg,        \* the rows of device_events
    stored,    \* events handled so far: the time.Now() of CreatedAt
    logged,    \* failures in the log, as <<store, message>>
    cut,       \* messages that were in hand when the process stopped
    repeats,   \* repeated deliveries so far
    faults     \* faults so far

memory == <<tele, events>>
stores == <<redis, influx, pg>>
history == <<logged, cut>>
link == <<conn, proc>>
world == <<clock, sentAt, net, seen, repeats>>
vars == <<world, link, hand, memory, rejects, stores, stored, history, faults>>

NoReading == [none |-> TRUE]
Nothing == [step |-> "idle", item |-> NoReading]

Init ==
    /\ clock = 1
    /\ sentAt = [m \in Messages |-> 0]
    /\ net = {} /\ seen = {} /\ repeats = 0
    /\ conn = "off" /\ proc = "up"
    /\ hand = Nothing
    /\ tele = [d \in Devices |-> NoReading] /\ events = <<>>
    /\ rejects = 0
    /\ redis = [d \in Devices |-> NoReading] /\ influx = {} /\ pg = {}
    /\ stored = 0
    /\ logged = {} /\ cut = {}
    /\ faults = 0

-----------------------------------------------------------------------------
(* Devices, time and the connection *)

Tick ==
    /\ clock < MaxClock
    /\ clock' = clock + 1
    /\ UNCHANGED <<sentAt, net, seen, repeats, link, hand, memory, rejects, stores, stored,
                   history, faults>>

\* A device numbers its messages upwards; messages with one seq are alternatives.
Send(m) ==
    /\ \A k \in Messages : k.dev = m.dev /\ sentAt[k] # 0 => k.seq < m.seq
    /\ sentAt' = [sentAt EXCEPT ![m] = clock]
    /\ net' = net \cup {m}
    /\ UNCHANGED <<clock, seen, repeats, link, hand, memory, rejects, stores, stored,
                   history, faults>>

\* The first connection, and paho's automatic reconnection.
Connect ==
    /\ proc = "up" /\ conn = "off"
    /\ conn' = "up"
    /\ UNCHANGED <<world, proc, hand, memory, rejects, stores, stored, history, faults>>

\* Mutant: the connection handler is not called again on a reconnection.
OnConnectOnce ==
    /\ proc = "up" /\ conn = "up" /\ faults = 0
    /\ conn' = "subscribed"
    /\ UNCHANGED <<world, proc, hand, memory, rejects, stores, stored, history, faults>>

\* The connection handler, called on every connection.
OnConnect ==
    /\ proc = "up" /\ conn = "up"
    /\ conn' = "subscribed"
    /\ UNCHANGED <<world, proc, hand, memory, rejects, stores, stored, history, faults>>

\* The broker refuses the subscription: a line in the log, and the connection stays.
OnConnectFails ==
    /\ proc = "up" /\ conn = "up"
    /\ faults < MaxFaults
    /\ conn' = "refused"
    /\ faults' = faults + 1
    /\ UNCHANGED <<world, proc, hand, memory, rejects, stores, stored, history>>

\* The session is clean: the subscription is gone with the connection.
ConnectionLost ==
    /\ faults < MaxFaults
    /\ conn # "off"
    /\ conn' = "off"
    /\ faults' = faults + 1
    /\ UNCHANGED <<world, proc, hand, memory, rejects, stores, stored, history>>

-----------------------------------------------------------------------------
(* handleMessage *)

\* The timestamp of the payload and that of the signature are both the device's clock's.
DeviceTime(m) == sentAt[m] + m.ahead

requiresDeviceAuth(kind) == kind \in {"telemetry", "status", "event"}

\* Mutant: only old timestamps are refused, not those ahead of the platform's clock.
VerifiedAhead(m) ==
    Keys # {} => /\ m.dev \in Keys
                 /\ m.parses /\ m.signed /\ DeviceTime(m) # 0
                 /\ MaxSkew > 0 => clock - DeviceTime(m) <= MaxSkew

\* VerifyPayload
Verified(m) ==
    Keys # {} => /\ m.dev \in Keys
                 /\ m.parses /\ m.signed /\ DeviceTime(m) # 0
                 /\ MaxSkew > 0 => /\ clock - DeviceTime(m) <= MaxSkew
                                  /\ DeviceTime(m) - clock <= MaxSkew

Passes(m) == requiresDeviceAuth(m.kind) => Verified(m)

\* Messages of a device arrive in order the first time, those passed over are lost, and
\* one that arrived may come again at any time.
Delivered(m) ==
    /\ conn = "subscribed" /\ hand = Nothing
    /\ \/ /\ m \in net
          /\ net' = {k \in net : k.dev = m.dev => k.seq > m.seq}
          /\ seen' = seen \cup {m}
          /\ UNCHANGED repeats
       \/ /\ m \in seen
          /\ repeats < MaxRepeats
          /\ repeats' = repeats + 1
          /\ UNCHANGED <<net, seen>>
    /\ UNCHANGED <<clock, sentAt, link, stores, history, faults>>

Reject(m) ==
    /\ Delivered(m)
    /\ ~Passes(m)
    /\ rejects' = rejects + 1
    /\ UNCHANGED <<hand, memory, stored>>

\* JSON that does not parse, and a status, only go to the log.
LogOnly(m) ==
    /\ Delivered(m)
    /\ Passes(m)
    /\ ~m.parses \/ m.kind = "status"
    /\ UNCHANGED <<hand, memory, rejects, stored>>

\* A timestamp of 0 counts as none.
Timestamp(m) == IF m.stamped /\ DeviceTime(m) # 0 THEN DeviceTime(m) ELSE clock

Reading(m) == [msg |-> m, ts |-> Timestamp(m), at |-> clock]

\* PutTelemetry, up to the unlock
PutTelemetry(m) ==
    /\ Delivered(m)
    /\ Passes(m) /\ m.parses /\ m.kind = "telemetry"
    /\ tele' = [tele EXCEPT ![m.dev] = Reading(m)]
    /\ hand' = [step |-> "redis", item |-> Reading(m)]
    /\ UNCHANGED <<events, rejects, stored>>

\* An event without an identifier gets that of its device and second.
EventId(m) == IF m.named THEN <<"event", m.seq>> ELSE <<m.dev, Timestamp(m)>>

\* A created_at that the payload carries is kept.
Event(m) ==
    [msg |-> m, id |-> EventId(m), created |-> IF m.created = 0 THEN stored + 1 ELSE m.created]

\* The list is cut to its first MaxEvents entries.
Newest(list) == SubSeq(list, 1, IF Len(list) > MaxEvents THEN MaxEvents ELSE Len(list))

\* Store.PutEvent
PutEvent(m) ==
    /\ Delivered(m)
    /\ Passes(m) /\ m.parses /\ m.kind = "event"
    /\ events' = Newest(<<Event(m)>> \o events)
    /\ stored' = stored + 1
    /\ hand' = [step |-> "pg", item |-> Event(m)]
    /\ UNCHANGED <<tele, rejects>>

-----------------------------------------------------------------------------
(* The stores *)

redisSet == [redis EXCEPT ![hand.item.msg.dev] = hand.item]

\* persistTelemetry
PersistTelemetry ==
    /\ hand.step = "redis"
    /\ redis' = redisSet
    /\ hand' = [hand EXCEPT !.step = "influx"]
    /\ UNCHANGED <<world, link, memory, rejects, influx, pg, stored, history, faults>>

\* Mutant: a failure ends the handler.
PersistTelemetryFailsEnds ==
    /\ hand.step = "redis"
    /\ faults < MaxFaults
    /\ redis' \in {redis, redisSet}
    /\ logged' = logged \cup {<<"redis", hand.item>>}
    /\ hand' = Nothing
    /\ faults' = faults + 1
    /\ UNCHANGED <<world, link, memory, rejects, influx, pg, stored, cut>>

\* HSET fails or times out, done or not; the failure goes to the log only.
PersistTelemetryFails ==
    /\ hand.step = "redis"
    /\ faults < MaxFaults
    /\ redis' \in {redis, redisSet}
    /\ logged' = logged \cup {<<"redis", hand.item>>}
    /\ hand' = [hand EXCEPT !.step = "influx"]
    /\ faults' = faults + 1
    /\ UNCHANGED <<world, link, memory, rejects, influx, pg, stored, cut>>

\* Points of one device and second are one point to InfluxDB.
SamePoint(r, q) == r.msg.dev = q.msg.dev /\ r.ts = q.ts

WritePoint(r) == {q \in influx : ~SamePoint(q, r)} \cup {r}

WriteTelemetry ==
    /\ hand.step = "influx"
    /\ influx' = WritePoint(hand.item)
    /\ hand' = Nothing
    /\ UNCHANGED <<world, link, memory, rejects, redis, pg, stored, history, faults>>

WriteTelemetryFails ==
    /\ hand.step = "influx"
    /\ faults < MaxFaults
    /\ influx' \in {influx, WritePoint(hand.item)}
    /\ logged' = logged \cup {<<"influx", hand.item>>}
    /\ hand' = Nothing
    /\ faults' = faults + 1
    /\ UNCHANGED <<world, link, memory, rejects, redis, pg, stored, cut>>

\* INSERT ... ON CONFLICT (event_id) DO UPDATE
Upsert(e) == {row \in pg : row.id # e.id} \cup {e}

\* DeviceRepository.PutEvent
PersistEvent ==
    /\ hand.step = "pg"
    /\ pg' = Upsert(hand.item)
    /\ hand' = Nothing
    /\ UNCHANGED <<world, link, memory, rejects, redis, influx, stored, history, faults>>

PersistEventFails ==
    /\ hand.step = "pg"
    /\ faults < MaxFaults
    /\ pg' \in {pg, Upsert(hand.item)}
    /\ logged' = logged \cup {<<"pg", hand.item>>}
    /\ hand' = Nothing
    /\ faults' = faults + 1
    /\ UNCHANGED <<world, link, memory, rejects, redis, influx, stored, cut>>

-----------------------------------------------------------------------------
(* The process *)

\* The process stops; memory and the subscription are gone.
Crash ==
    /\ proc = "up" /\ faults < MaxFaults
    /\ proc' = "down" /\ conn' = "off"
    /\ tele' = [d \in Devices |-> NoReading] /\ events' = <<>> /\ rejects' = 0
    /\ cut' = IF hand = Nothing THEN cut ELSE cut \cup {hand.item}
    /\ hand' = Nothing
    /\ faults' = faults + 1
    /\ UNCHANGED <<world, stores, stored, logged>>

\* Mutant: ORDER BY created_at, without DESC.
ListEventsAscending ==
    {rows \in [1 .. Cardinality(pg) -> pg] :
        \A j, k \in DOMAIN rows :
            j < k => rows[j] # rows[k] /\ rows[j].created <= rows[k].created}

\* ORDER BY created_at DESC: rows with equal created_at come in any order.
ListEvents ==
    {rows \in [1 .. Cardinality(pg) -> pg] :
        \A j, k \in DOMAIN rows :
            j < k => rows[j] # rows[k] /\ rows[j].created >= rows[k].created}

\* Mutant: Redis is opened and not read.
loadTelemetryNot == [d \in Devices |-> NoReading]

loadTelemetry == redis

\* NewRedisStore and loadRecentEvents; nobody writes before the connection, and a load
\* that fails ends the process, which is then still down.
Start ==
    /\ proc = "down"
    /\ proc' = "up"
    /\ tele' = loadTelemetry
    /\ \E rows \in ListEvents : events' = Newest(rows)
    /\ UNCHANGED <<world, conn, hand, rejects, stores, stored, history, faults>>

-----------------------------------------------------------------------------
(* What the API and the metrics show *)

\* A timestamp ahead of the clock counts as one of this moment.
StaleFor(ts) == IF clock < ts THEN 0 ELSE clock - ts

\* DeviceStates, and vpp_device_online likewise.
Online(d) == tele[d] # NoReading /\ StaleFor(tele[d].ts) <= OnlineTTL

-----------------------------------------------------------------------------
Next ==
    \/ Tick
    \/ \E m \in Messages : Send(m)
    \/ Connect \/ OnConnect \/ OnConnectFails \/ ConnectionLost
    \/ \E m \in Messages : Reject(m) \/ LogOnly(m) \/ PutTelemetry(m) \/ PutEvent(m)
    \/ PersistTelemetry \/ PersistTelemetryFails
    \/ WriteTelemetry \/ WriteTelemetryFails
    \/ PersistEvent \/ PersistEventFails
    \/ Crash \/ Start

Spec == Init /\ [][Next]_vars

\* The supervisor restarts the process and paho reconnects and calls the handler.
FairSpec == Spec /\ WF_vars(Start) /\ WF_vars(Connect) /\ WF_vars(OnConnect)

-----------------------------------------------------------------------------
(* Correctness *)

\* Redis shows what memory shows: a reading in memory is in Redis once its handler is
\* past that step, unless the log says that Redis failed; a restart keeps this.
RedisFollowsMemory ==
    proc = "up" =>
        \A d \in Devices :
            \/ redis[d] = tele[d]
            \/ hand.step = "redis" /\ hand.item = tele[d]
            \/ <<"redis", tele[d]>> \in logged

\* No reading bypasses InfluxDB: a reading that memory or Redis shows has its point, or
\* one of its device and second that arrived no earlier has overwritten it, unless it is
\* still in hand, was in hand when the process stopped, or its failure is in the log.
ReadingsReachInflux ==
    \A r \in ({tele[d] : d \in Devices} \cup {redis[d] : d \in Devices}) \ {NoReading} :
        \/ \E q \in influx : SamePoint(q, r) /\ q.at >= r.at
        \/ r \in cut \cup {hand.item}
        \/ <<"influx", r>> \in logged

\* With keys and a limit on the skew, a silent device does not stay online: however far
\* its clock is off, its reading arrived within the time to live and the skew, and it was
\* sent within the time to live and as long as the clock was ahead, or the skew longer if
\* the platform stamped it.  Readings from the future, repeated deliveries and a reload
\* from Redis do not extend this (VerifyPayload, handleMessage, DeviceStates).
OnlineIsRecent ==
    Keys # {} /\ MaxSkew > 0 =>
        \A d \in Devices :
            Online(d) =>
                LET m == tele[d].msg
                IN  /\ clock - tele[d].at <= OnlineTTL + MaxSkew
                    /\ clock - sentAt[m] <=
                         OnlineTTL + m.ahead + (IF m.stamped THEN 0 ELSE MaxSkew)

\* The platform dated this event itself.
Undated(e) == e.msg.created = 0

\* What the event list shows is what happened.  Every entry has a row in PostgreSQL under
\* its identifier unless it is in hand or the log says that the write failed.  Every row is
\* listed unless the list is full.  Of the events that the platform dates, the list is in
\* the order of arrival, newest first, and those left out are older than those listed:
\* across restarts, repeated deliveries, and events that carry a created_at of their own.
EventListMatchesTable ==
    proc = "up" =>
        /\ \A j, k \in DOMAIN events :
               j < k /\ Undated(events[j]) /\ Undated(events[k]) =>
                   events[j].created > events[k].created
        /\ \A k \in DOMAIN events :
               \/ \E row \in pg : row.id = events[k].id
               \/ hand.item = events[k]
               \/ <<"pg", events[k]>> \in logged
        /\ \A row \in pg :
               \/ \E k \in DOMAIN events : events[k] = row
               \/ /\ Len(events) = MaxEvents
                  /\ Undated(row) => \A k \in DOMAIN events :
                                         Undated(events[k]) => events[k].created > row.created

\* A platform that is down or has lost its connection subscribes again, unless the
\* broker refuses the subscription.
Resubscribes == (conn \in {"off", "up"}) ~> (conn \in {"subscribed", "refused"})

\* docs/ARCHITECTURE.md: an event goes to memory and to PostgreSQL, so with no fault
\* every event listed, once handled, has a row.
EventsReachBoth ==
    faults = 0 /\ hand = Nothing =>
        \A k \in DOMAIN events : \E row \in pg : row.msg = events[k].msg
=============================================================================
