---------------------------- MODULE EdgeGateway ----------------------------
(***************************************************************************)
(* The edge gateway (cmd/edge-gateway, internal/edge): messages of the     *)
(* local broker are cached in SQLite, a flush loop forwards the unsent     *)
(* ones upstream in batches and marks each as sent, a cleanup loop deletes *)
(* sent ones after the retention.  The capture handler, the flush loop and *)
(* the cleanup loop are separate goroutines that share only the database.  *)
(*                                                                         *)
(* A row is identified by its AUTOINCREMENT id, which is the order of      *)
(* capture.  Brokers and links are external: both sessions are clean, so   *)
(* a session's subscriptions and undelivered messages end with its link.   *)
(***************************************************************************)
EXTENDS Integers, FiniteSets

CONSTANTS
    MaxMessages,  \* bound: messages the devices publish
    Batch,        \* 100 in flushPending
    Retention,    \* EDGE_CACHE_RETENTION, in steps of the clock
    MaxFaults     \* bound: faults of the environment in one behaviour

ASSUME EdgeAssumption ==
    /\ MaxMessages \in Nat
    /\ Batch \in Nat \ {0}
    /\ Retention \in Nat \ {0}
    /\ MaxFaults \in Nat

VARIABLES
    up,          \* the gateway process runs
    localUp,     \* the local MQTT client is connected
    subscribed,  \* the local broker knows the client's subscriptions
    upstreamUp,  \* the upstream MQTT client is connected
    published,   \* messages the devices have published
    wire,        \* messages the local broker still has to hand over
    rows,        \* mqtt_messages: for each id, the time since sent_at
    lastId,      \* the AUTOINCREMENT sequence
    pc,          \* where flushPending stands
    batch,       \* ids flushPending has loaded and not yet finished
    forwarded,   \* how often the upstream broker has accepted each row
    logged,      \* messages given up with "cache message failed"
    faults

linkVars == <<localUp, subscribed, upstreamUp>>
flushVars == <<pc, batch>>
dbVars == <<rows, lastId>>
vars == <<up, localUp, subscribed, upstreamUp, published, wire, rows, lastId, pc, batch,
          forwarded, logged, faults>>

Ids == 1 .. MaxMessages

\* sent_at IS NULL.  Otherwise a row holds the time since sent_at, which stops
\* counting once the row is past its retention.
Unsent == -1
Expired == Retention + 1

Pending == {i \in DOMAIN rows : rows[i] = Unsent}

\* Cache.Pending: unsent rows, ORDER BY id, LIMIT Batch.
FirstPending == {i \in Pending : Cardinality({j \in Pending : j < i}) < Batch}

\* Mutant: Pending without ORDER BY.
IsFirstOfAny(i) == i \in batch

\* The message flushPending is at.
IsFirst(i) == i \in batch /\ \A j \in batch : i <= j

Fault == faults < MaxFaults /\ faults' = faults + 1

-----------------------------------------------------------------------------
\* main: the cache is open, both clients are connected, the topics subscribed.
Init ==
    /\ up = TRUE
    /\ localUp = TRUE
    /\ subscribed = TRUE
    /\ upstreamUp = TRUE
    /\ published = 0
    /\ wire = 0
    /\ rows = [i \in {} |-> Unsent]
    /\ lastId = 0
    /\ pc = "idle"
    /\ batch = {}
    /\ forwarded = [i \in Ids |-> 0]
    /\ logged = 0
    /\ faults = 0

-----------------------------------------------------------------------------
(* Capture *)

\* A device publishes; the local broker queues it for a subscribed client.
DevicePublish ==
    /\ published < MaxMessages
    /\ published' = published + 1
    /\ wire' = IF subscribed THEN wire + 1 ELSE wire
    /\ UNCHANGED <<up, linkVars, dbVars, flushVars, forwarded, logged, faults>>

\* A topic that does not parse, or a kind EDGE_CAPTURE_KINDS leaves out.
Ignore ==
    /\ up /\ wire > 0
    /\ wire' = wire - 1
    /\ UNCHANGED <<up, linkVars, published, dbVars, flushVars, forwarded, logged, faults>>

\* Cache.Put
Put ==
    /\ lastId' = lastId + 1
    /\ rows' = [i \in DOMAIN rows \cup {lastId + 1} |->
                  IF i = lastId + 1 THEN Unsent ELSE rows[i]]

\* Mutant: the message is cached and stays with the broker.
CaptureUnacknowledged ==
    /\ up /\ wire > 0
    /\ Put
    /\ UNCHANGED <<up, linkVars, published, wire, flushVars, forwarded, logged, faults>>

\* The handler of the local client caches a message.
Capture ==
    /\ up /\ wire > 0
    /\ wire' = wire - 1
    /\ Put
    /\ UNCHANGED <<up, linkVars, published, flushVars, forwarded, logged, faults>>

\* Cache.Put fails (another connection holds the lock): logged, message gone.
CaptureFails ==
    /\ up /\ wire > 0
    /\ Fault
    /\ wire' = wire - 1
    /\ logged' = logged + 1
    /\ UNCHANGED <<up, linkVars, published, dbVars, flushVars, forwarded>>

-----------------------------------------------------------------------------
(* flushPending *)

\* Mutant: only a full batch is forwarded.
FlushStartFull ==
    /\ up /\ pc = "idle" /\ upstreamUp
    /\ Cardinality(Pending) >= Batch
    /\ batch' = FirstPending
    /\ pc' = "publish"
    /\ UNCHANGED <<up, linkVars, published, wire, dbVars, forwarded, logged, faults>>

\* The ticker fires and there is something to forward.
FlushStart ==
    /\ up /\ pc = "idle" /\ upstreamUp
    /\ Pending # {}
    /\ batch' = FirstPending
    /\ pc' = "publish"
    /\ UNCHANGED <<up, linkVars, published, wire, dbVars, forwarded, logged, faults>>

\* The upstream broker accepts the oldest message of the batch.  What paho itself sends
\* again after a reconnection, with no error at the token, is left out: it repeats the
\* message that waits for its token, which is the one this step is about.
Forward(i) ==
    /\ up /\ pc = "publish" /\ upstreamUp
    /\ IsFirst(i)
    /\ forwarded' = [forwarded EXCEPT ![i] = @ + 1]
    /\ pc' = "mark"
    /\ UNCHANGED <<up, linkVars, published, wire, dbVars, batch, logged, faults>>

\* flushPending returns.
Return == pc' = "idle" /\ batch' = {}

\* The token ends in an error, whether or not the broker had accepted.
ForwardFails(i) ==
    /\ up /\ pc = "publish"
    /\ IsFirst(i)
    /\ Fault
    /\ forwarded' \in {forwarded, [forwarded EXCEPT ![i] = @ + 1]}
    /\ Return
    /\ UNCHANGED <<up, linkVars, published, wire, dbVars, logged>>

\* Mutant: sent_at stays NULL.
MarkSentForgets(i) ==
    /\ up /\ pc = "mark"
    /\ IsFirst(i)
    /\ batch' = batch \ {i}
    /\ pc' = IF batch = {i} THEN "idle" ELSE "publish"
    /\ UNCHANGED <<up, linkVars, published, wire, dbVars, forwarded, logged, faults>>

\* Cache.MarkSent, then the next message or the end of the batch.
MarkSent(i) ==
    /\ up /\ pc = "mark"
    /\ IsFirst(i)
    /\ rows' = [j \in DOMAIN rows |-> IF j = i THEN 0 ELSE rows[j]]
    /\ batch' = batch \ {i}
    /\ pc' = IF batch = {i} THEN "idle" ELSE "publish"
    /\ UNCHANGED <<up, linkVars, published, wire, lastId, forwarded, logged, faults>>

MarkSentFails ==
    /\ up /\ pc = "mark"
    /\ Fault
    /\ Return
    /\ UNCHANGED <<up, linkVars, published, wire, dbVars, forwarded, logged>>

-----------------------------------------------------------------------------
(* cleanupSent *)

\* Mutant: DELETE without sent_at IS NOT NULL.
RetainedSent == {i \in DOMAIN rows : rows[i] \in 0 .. Retention}

\* The rows DELETE leaves: sent_at IS NOT NULL AND sent_at < cutoff go.
Retained == {i \in DOMAIN rows : rows[i] # Expired}

DeleteSentBefore ==
    /\ up
    /\ Retained # DOMAIN rows
    /\ rows' = [i \in Retained |-> rows[i]]
    /\ UNCHANGED <<up, linkVars, published, wire, lastId, flushVars, forwarded, logged,
                   faults>>

\* Time passes.
Clock ==
    /\ \E i \in DOMAIN rows : rows[i] \in 0 .. Retention
    /\ rows' = [i \in DOMAIN rows |->
                  IF rows[i] \in 0 .. Retention THEN rows[i] + 1 ELSE rows[i]]
    /\ UNCHANGED <<up, linkVars, published, wire, lastId, flushVars, forwarded, logged,
                   faults>>

-----------------------------------------------------------------------------
(* Links and the process *)

LocalLost ==
    /\ up /\ localUp
    /\ Fault
    /\ localUp' = FALSE
    /\ subscribed' = FALSE
    /\ wire' = 0
    /\ UNCHANGED <<up, upstreamUp, published, dbVars, flushVars, forwarded, logged>>

\* paho reconnects by itself; main subscribes only once, at the start.
LocalReconnect ==
    /\ up /\ ~localUp
    /\ localUp' = TRUE
    /\ UNCHANGED <<up, subscribed, upstreamUp, published, wire, dbVars, flushVars,
                   forwarded, logged, faults>>

UpstreamLost ==
    /\ up /\ upstreamUp
    /\ Fault
    /\ upstreamUp' = FALSE
    /\ UNCHANGED <<up, localUp, subscribed, published, wire, dbVars, flushVars,
                   forwarded, logged>>

UpstreamReconnect ==
    /\ up /\ ~upstreamUp
    /\ upstreamUp' = TRUE
    /\ UNCHANGED <<up, localUp, subscribed, published, wire, dbVars, flushVars,
                   forwarded, logged, faults>>

\* Only the database survives.
Crash ==
    /\ up
    /\ Fault
    /\ up' = FALSE
    /\ localUp' = FALSE
    /\ subscribed' = FALSE
    /\ upstreamUp' = FALSE
    /\ wire' = 0
    /\ Return
    /\ UNCHANGED <<published, dbVars, forwarded, logged>>

\* main: connect, subscribe, connect upstream.
Restart ==
    /\ ~up
    /\ up' = TRUE
    /\ localUp' = TRUE
    /\ subscribed' = TRUE
    /\ upstreamUp' = TRUE
    /\ UNCHANGED <<published, wire, dbVars, flushVars, forwarded, logged, faults>>

-----------------------------------------------------------------------------
captureHandler == Ignore \/ Capture \/ CaptureFails

flushPending ==
    \/ FlushStart
    \/ \E i \in batch : Forward(i) \/ ForwardFails(i) \/ MarkSent(i)
    \/ MarkSentFails

links == LocalLost \/ LocalReconnect \/ UpstreamLost \/ UpstreamReconnect

Next ==
    \/ DevicePublish
    \/ captureHandler
    \/ flushPending
    \/ DeleteSentBefore
    \/ Clock
    \/ links
    \/ Crash
    \/ Restart

\* The flush loop keeps running, clients reconnect (SetAutoReconnect), and the
\* gateway is started again (docker-compose restarts it).
Fairness ==
    /\ WF_vars(flushPending)
    /\ WF_vars(UpstreamReconnect)
    /\ WF_vars(Restart)

Spec == Init /\ [][Next]_vars

FairSpec == Spec /\ Fairness

-----------------------------------------------------------------------------
(* Correctness *)

TypeOK ==
    /\ up \in BOOLEAN /\ localUp \in BOOLEAN /\ subscribed \in BOOLEAN
    /\ upstreamUp \in BOOLEAN
    /\ published \in 0 .. MaxMessages
    /\ wire \in Nat
    /\ lastId \in Nat /\ lastId + wire <= published
    /\ DOMAIN rows \subseteq 1 .. lastId
    /\ rows \in [DOMAIN rows -> -1 .. Expired]
    /\ pc \in {"idle", "publish", "mark"}
    /\ batch \subseteq Ids
    /\ forwarded \in [Ids -> Nat]
    /\ logged \in Nat
    /\ faults \in 0 .. MaxFaults

\* A message that is in the cache is never lost: it is still unsent, or the
\* upstream broker has accepted it, whatever crashes, fails or is cleaned up.
NoCachedMessageLost ==
    \A i \in 1 .. lastId :
        forwarded[i] > 0 \/ (i \in DOMAIN rows /\ rows[i] = Unsent)

\* Upstream sees messages for the first time in the order of capture: flushPending
\* gives up at the first failure instead of going on to the next message.
FirstArrivalsInOrder ==
    \A i, j \in 1 .. lastId : (i < j /\ forwarded[j] > 0) => forwarded[i] > 0

\* Every repeat upstream is paid for by a fault: a crash, a token error or a
\* failed MarkSent between acceptance and sent_at.
RepeatsComeFromFaults ==
    \A i \in Ids : forwarded[i] <= 1 + faults

\* What upstream has received, repeats or not.
Arrived == {i \in 1 .. lastId : forwarded[i] > 0}

Forwarder == INSTANCE StoreAndForward WITH cached <- lastId, forwarded <- Arrived

\* The gateway stores and forwards in order.
ForwardsInOrder == Forwarder!SafeSpec

\* ... and everything it has cached arrives in the end.
ForwardsEverything == Forwarder!Spec

\* README.md: the gateway "subscribes to the local MQTT uplink messages and
\* writes them to data/edge-gateway/cache.db".  While it runs and stays connected
\* to the local broker it therefore comes to have its subscriptions.
ConnectedGetsSubscribed == (up /\ localUp) ~> (subscribed \/ ~up \/ ~localUp)
=============================================================================
