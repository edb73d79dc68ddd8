--------------------------- MODULE CommandLedger ---------------------------
(***************************************************************************)
(* The life of a command: PublishCommand (internal/mqtt/client.go) run by  *)
(* HTTP handlers and the scheduler, the device's acknowledgement, the      *)
(* paho message handler that records it, the in-memory list of recent      *)
(* commands (internal/state), the table command_records                    *)
(* (internal/repository/commands.go), and a crash and restart of the       *)
(* platform (cmd/vpp-lab/main.go).                                         *)
(*                                                                         *)
(* Every call of PublishCommand runs in a goroutine of its own and takes   *)
(* three separately visible steps: the broker accepts the command, the     *)
(* memory list records it, PostgreSQL records it.  The message handler     *)
(* takes two: memory, then PostgreSQL.  Nothing orders the two goroutines. *)
(***************************************************************************)
EXTENDS Integers, Sequences

CONSTANTS
    Commands,       \* ids of the commands the platform issues
    LocalCommands,  \* ids of the commands the edge gateway issues on its own
    NoId,           \* the id "" a device acknowledges when it cannot parse
    Devices,
    NoDevice,       \* ack columns that are NULL
    Target,         \* the device each command is addressed to
    MaxRecords,     \* 200 in state.go and ListCommands
    AuthEnabled,    \* DEVICE_KEYS is set
    MaxFaults       \* bound: faults of the environment in one behaviour

Sendable == Commands \cup LocalCommands

Ids == Sendable \cup {NoId}

ASSUME CommandsAssumption ==
    /\ Commands \cap LocalCommands = {}
    /\ NoId \notin Sendable

ASSUME DevicesAssumption ==
    /\ NoDevice \notin Devices
    /\ Target \in [Sendable -> Devices]

ASSUME BoundsAssumption ==
    /\ MaxRecords \in Nat \ {0}
    /\ AuthEnabled \in BOOLEAN
    /\ MaxFaults \in Nat

VARIABLES
    up,        \* the platform process runs
    pc,        \* where each call of PublishCommand stands
    answer,    \* how the addressed device answers the command's payload
    inbox,     \* commands the broker still has to hand to their device
    acks,      \* acknowledgements on their way to the platform
    executed,  \* every acknowledgement a device has ever sent
    handler,   \* the ack handleMessage has in hand, as a set
    memory,    \* Store.commands, newest first
    pg,        \* command_records, keyed by command_id
    recent,    \* its keys by updated_at, newest first
    rejects,   \* Client.rejects["auth"]
    logged,    \* acks whose "persist command ack failed" is in the log
    faults     \* faults so far

dbVars == <<pg, recent>>
vars == <<up, pc, answer, inbox, acks, executed, handler, memory, pg, recent,
          rejects, logged, faults>>

-----------------------------------------------------------------------------
(* Data *)

Statuses == {"issued", "acked", "failed"}

\* A parsed acknowledgement: the device is the one named by its topic.
Ack == [dev : Devices, id : Ids, ok : BOOLEAN]

\* The status an acknowledgement gives the record.
StatusOf(a) == IF a.ok THEN "acked" ELSE "failed"

\* model.CommandRecord, as Store.commands keeps it.
Record == [id : Ids, dev : Devices, status : Statuses]

\* A row of command_records: issued tells whether the action columns come from
\* PutCommandIssued, ack is the device whose ack the ack columns hold.
Row == [dev : Devices, issued : BOOLEAN, status : Statuses,
        ack : Devices \cup {NoDevice}]

\* How a device may answer: it executes the command, it refuses it, or it
\* cannot parse it (it then acknowledges the empty id).
Answers == {"acked", "failed", "garbled"}

AckOf(c) == [dev |-> Target[c],
             id  |-> IF answer[c] = "garbled" THEN NoId ELSE c,
             ok  |-> answer[c] = "acked"]

Published(c) == answer[c] # "none"

Fault == faults < MaxFaults /\ faults' = faults + 1

-----------------------------------------------------------------------------
(* Store.commands: newest first, at most MaxRecords *)

\* Mutant: the list is never cut.
NewestUncut(s) == s

\* The newest MaxRecords elements of a newest-first list.
Newest(s) == IF Len(s) > MaxRecords THEN SubSeq(s, 1, MaxRecords) ELSE s

\* Store.PutCommandIssued
MemIssued(m, c) ==
    Newest(<<[id |-> c, dev |-> Target[c], status |-> "issued"]>> \o m)

\* Store.PutCommandAck: the first record of that device with that id, if any.
MemAcked(m, a) ==
    LET matches == {i \in DOMAIN m : m[i].id = a.id /\ m[i].dev = a.dev}
    IN  [i \in DOMAIN m |->
           IF i \in matches /\ \A j \in matches : i <= j
             THEN [m[i] EXCEPT !.status = StatusOf(a)]
             ELSE m[i]]

-----------------------------------------------------------------------------
(* command_records *)

\* INSERT ... ON CONFLICT DO UPDATE: the table with row r under key id.
Upsert(t, id, r) ==
    [k \in DOMAIN t \cup {id} |-> IF k = id THEN r ELSE t[k]]

\* Mutant: a plain INSERT, as if command_id were no primary key.
TouchInserts(s, id) == <<id>> \o s

\* updated_at = now(): key id becomes the most recent one.
Touch(s, id) ==
    LET k == IF \E i \in DOMAIN s : s[i] = id
               THEN CHOOSE i \in DOMAIN s : s[i] = id
               ELSE Len(s) + 1
    IN  [i \in 1 .. (IF k > Len(s) THEN k ELSE Len(s)) |->
           IF i = 1 THEN id ELSE IF i <= k THEN s[i - 1] ELSE s[i]]

\* Mutant: status = EXCLUDED.status without the CASE.
IssuedRowOverwrites(c) ==
    [dev |-> Target[c], issued |-> TRUE, status |-> "issued", ack |-> NoDevice]

\* The row PutCommandIssued leaves: an outcome already there is kept.
IssuedRow(c) ==
    LET settled == c \in DOMAIN pg /\ pg[c].ack # NoDevice
    IN  [dev    |-> Target[c],
         issued |-> TRUE,
         status |-> IF settled THEN pg[c].status ELSE "issued",
         ack    |-> IF settled THEN pg[c].ack ELSE NoDevice]

\* Mutant: ON CONFLICT DO NOTHING.
PgPutIssuedDoNothing(c) ==
    IF c \in DOMAIN pg
      THEN UNCHANGED dbVars
      ELSE /\ pg' = Upsert(pg, c, IssuedRow(c))
           /\ recent' = Touch(recent, c)

\* DeviceRepository.PutCommandIssued
PgPutIssued(c) ==
    /\ pg' = Upsert(pg, c, IssuedRow(c))
    /\ recent' = Touch(recent, c)

\* Mutant: the upsert has no WHERE.
OtherDevicesRowIgnored(a) == FALSE

\* The ack's row conflicts with a row of another device: WHERE leaves it alone.
OtherDevicesRow(a) == a.id \in DOMAIN pg /\ pg[a.id].dev # a.dev

\* The row PutCommandAck leaves: inserted with empty action columns if absent.
AckedRow(a) ==
    [dev    |-> IF a.id \in DOMAIN pg THEN pg[a.id].dev ELSE a.dev,
     issued |-> a.id \in DOMAIN pg /\ pg[a.id].issued,
     status |-> StatusOf(a),
     ack    |-> a.dev]

\* Mutant: UPDATE instead of an upsert.
PgPutAckUpdateOnly(a) ==
    IF a.id \notin DOMAIN pg \/ OtherDevicesRow(a)
      THEN UNCHANGED dbVars
      ELSE /\ pg' = Upsert(pg, a.id, AckedRow(a))
           /\ recent' = Touch(recent, a.id)

\* DeviceRepository.PutCommandAck
PgPutAck(a) ==
    IF OtherDevicesRow(a)
      THEN UNCHANGED dbVars
      ELSE /\ pg' = Upsert(pg, a.id, AckedRow(a))
           /\ recent' = Touch(recent, a.id)

\* DeviceRepository.ListCommands, then Store.SetCommands.
ListCommands ==
    LET keys == Newest(recent)
    IN  [i \in 1 .. Len(keys) |->
           [id |-> keys[i], dev |-> pg[keys[i]].dev, status |-> pg[keys[i]].status]]

-----------------------------------------------------------------------------
Init ==
    /\ up = TRUE
    /\ pc = [c \in Commands |-> "idle"]
    /\ answer = [c \in Sendable |-> "none"]
    /\ inbox = {}
    /\ acks = {}
    /\ executed = {}
    /\ handler = {}
    /\ memory = <<>>
    /\ pg = [id \in {} |-> 0]
    /\ recent = <<>>
    /\ rejects = 0
    /\ logged = {}
    /\ faults = 0

-----------------------------------------------------------------------------
(* PublishCommand *)

\* The broker accepts the command; the caller waits for the token.
Publish(c) ==
    /\ up /\ pc[c] = "idle"
    /\ \E r \in Answers : answer' = [answer EXCEPT ![c] = r]
    /\ pc' = [pc EXCEPT ![c] = "waiting"]
    /\ inbox' = inbox \cup {c}
    /\ UNCHANGED <<up, acks, executed, handler, memory, pg, recent, rejects, logged,
                   faults>>

\* The token ends in an error, before or after the broker took the command:
\* PublishCommand returns and nothing is recorded.
PublishError(c) ==
    /\ up /\ pc[c] \in {"idle", "waiting"}
    /\ Fault
    /\ pc' = [pc EXCEPT ![c] = "error"]
    /\ UNCHANGED <<up, answer, inbox, acks, executed, handler, memory, pg, recent,
                   rejects, logged>>

\* The token succeeds and the memory list records the command.
RecordIssued(c) ==
    /\ up /\ pc[c] = "waiting"
    /\ memory' = MemIssued(memory, c)
    /\ pc' = [pc EXCEPT ![c] = "recorded"]
    /\ UNCHANGED <<up, answer, inbox, acks, executed, handler, pg, recent, rejects,
                   logged, faults>>

\* PostgreSQL records the command; PublishCommand returns nil.
PersistIssued(c) ==
    /\ up /\ pc[c] = "recorded"
    /\ PgPutIssued(c)
    /\ pc' = [pc EXCEPT ![c] = "done"]
    /\ UNCHANGED <<up, answer, inbox, acks, executed, handler, memory, rejects,
                   logged, faults>>

\* The write fails; it is logged, and PublishCommand still returns nil.
PersistIssuedFails(c) ==
    /\ up /\ pc[c] = "recorded"
    /\ Fault
    /\ pc' = [pc EXCEPT ![c] = "unsaved"]
    /\ UNCHANGED <<up, answer, inbox, acks, executed, handler, memory, pg, recent,
                   rejects, logged>>

-----------------------------------------------------------------------------
(* The edge gateway, the broker and the devices *)

\* POST /api/v1/local-command: the command never passes the platform.
EdgePublish(c) ==
    /\ ~Published(c)
    /\ \E r \in Answers : answer' = [answer EXCEPT ![c] = r]
    /\ inbox' = inbox \cup {c}
    /\ UNCHANGED <<up, pc, acks, executed, handler, memory, pg, recent, rejects,
                   logged, faults>>

\* The device handles a command and publishes its acknowledgement.
Execute(c) ==
    /\ c \in inbox
    /\ acks' = acks \cup {AckOf(c)}
    /\ executed' = executed \cup {AckOf(c)}
    /\ inbox' = inbox \ {c}
    /\ UNCHANGED <<up, pc, answer, handler, memory, pg, recent, rejects, logged,
                   faults>>

\* QoS 1 may deliver a command again.
RedeliverCommand(c) ==
    /\ Published(c) /\ c \notin inbox
    /\ Fault
    /\ inbox' = inbox \cup {c}
    /\ UNCHANGED <<up, pc, answer, acks, executed, handler, memory, pg, recent,
                   rejects, logged>>

\* A clean session: the broker drops what is sent while the device is away.
LoseCommand(c) ==
    /\ c \in inbox
    /\ Fault
    /\ inbox' = inbox \ {c}
    /\ UNCHANGED <<up, pc, answer, acks, executed, handler, memory, pg, recent,
                   rejects, logged>>

\* The same on the way back.
LoseAck(a) ==
    /\ a \in acks
    /\ Fault
    /\ acks' = acks \ {a}
    /\ UNCHANGED <<up, pc, answer, inbox, executed, handler, memory, pg, recent,
                   rejects, logged>>

-----------------------------------------------------------------------------
(* handleMessage, case "command/ack": one message at a time *)

\* VerifyPayload refuses the acknowledgement.
RejectAck(a) ==
    /\ up /\ handler = {} /\ a \in acks
    /\ AuthEnabled
    /\ rejects' = rejects + 1
    /\ acks' = acks \ {a}
    /\ UNCHANGED <<up, pc, answer, inbox, executed, handler, memory, pg, recent,
                   logged, faults>>

\* The memory list takes the acknowledgement.
HandleAck(a) ==
    /\ up /\ handler = {} /\ a \in acks
    /\ memory' = MemAcked(memory, a)
    /\ handler' = {a}
    /\ acks' = acks \ {a}
    /\ UNCHANGED <<up, pc, answer, inbox, executed, pg, recent, rejects, logged,
                   faults>>

\* PostgreSQL takes it.
PersistAck(a) ==
    /\ up /\ a \in handler
    /\ PgPutAck(a)
    /\ handler' = {}
    /\ UNCHANGED <<up, pc, answer, inbox, acks, executed, memory, rejects, logged,
                   faults>>

\* The write fails and is logged.
PersistAckFails(a) ==
    /\ up /\ a \in handler
    /\ Fault
    /\ handler' = {}
    /\ logged' = logged \cup {a}
    /\ UNCHANGED <<up, pc, answer, inbox, acks, executed, memory, pg, recent, rejects>>

-----------------------------------------------------------------------------
(* The platform process *)

Crash ==
    /\ up
    /\ Fault
    /\ up' = FALSE
    /\ pc' = [c \in Commands |->
                IF pc[c] \in {"waiting", "recorded"} THEN "crashed" ELSE pc[c]]
    /\ handler' = {}
    /\ memory' = <<>>
    /\ rejects' = 0
    /\ UNCHANGED <<answer, inbox, acks, executed, pg, recent, logged>>

\* main: loadRecentCommands, before the MQTT client connects.
Restart ==
    /\ ~up
    /\ up' = TRUE
    /\ memory' = ListCommands
    /\ UNCHANGED <<pc, answer, inbox, acks, executed, handler, pg, recent, rejects,
                   logged, faults>>

-----------------------------------------------------------------------------
PublishCommand(c) ==
    \/ Publish(c)
    \/ PublishError(c)
    \/ RecordIssued(c)
    \/ PersistIssued(c)
    \/ PersistIssuedFails(c)

handleMessage(a) ==
    \/ RejectAck(a)
    \/ HandleAck(a)
    \/ PersistAck(a)
    \/ PersistAckFails(a)

Field(c) ==
    \/ Execute(c)
    \/ RedeliverCommand(c)
    \/ LoseCommand(c)

Next ==
    \/ \E c \in Commands : PublishCommand(c)
    \/ \E c \in LocalCommands : EdgePublish(c)
    \/ \E c \in Sendable : Field(c)
    \/ \E a \in acks : LoseAck(a)
    \/ \E a \in acks \cup handler : handleMessage(a)
    \/ Crash
    \/ Restart

\* Goroutines run on, the broker delivers, devices answer, paho's one handler goroutine
\* goes on with what it has or takes some acknowledgement that waits, and the platform
\* is started again after a crash (docker-compose).  Nobody has to issue a command.
Fairness ==
    /\ \A c \in Commands : /\ WF_vars(RecordIssued(c) \/ PublishError(c))
                           /\ WF_vars(PersistIssued(c))
    /\ \A c \in Sendable : WF_vars(Execute(c))
    /\ WF_vars(\E a \in acks : HandleAck(a))
    /\ WF_vars(\E a \in handler : PersistAck(a))
    /\ WF_vars(Restart)

Spec == Init /\ [][Next]_vars

FairSpec == Spec /\ Fairness

-----------------------------------------------------------------------------
(* Correctness *)

TypeOK ==
    /\ up \in BOOLEAN
    /\ pc \in [Commands -> {"idle", "waiting", "recorded", "done", "unsaved",
                            "error", "crashed"}]
    /\ answer \in [Sendable -> Answers \cup {"none"}]
    /\ inbox \subseteq Sendable
    /\ acks \subseteq Ack
    /\ executed \subseteq Ack
    /\ handler \subseteq Ack
    /\ memory \in Seq(Record) /\ Len(memory) <= MaxRecords
    /\ DOMAIN pg \subseteq Ids /\ pg \in [DOMAIN pg -> Row]
    /\ recent \in Seq(DOMAIN pg)
    /\ rejects \in Nat
    /\ logged \subseteq Ack
    /\ faults \in 0 .. MaxFaults

\* A row of command_records either says "issued" and holds no ack, or holds an
\* outcome that the row's own device has reported for that very command
\* (commands.go: the CASE and the WHERE of the two upserts).
PgTruthful ==
    \A id \in DOMAIN pg :
        IF pg[id].ack = NoDevice
          THEN pg[id].issued /\ pg[id].status = "issued"
          ELSE /\ pg[id].ack = pg[id].dev
               /\ \E a \in executed : /\ a.dev = pg[id].dev
                                      /\ a.id = id
                                      /\ StatusOf(a) = pg[id].status

\* GET /api/v1/commands lists no command twice, after a restart either.
MemoryListsOnce ==
    \A i, j \in DOMAIN memory : memory[i].id = memory[j].id => i = j

\* When PublishCommand returns nil and its write succeeded, the row holds the
\* command itself, also when the ack came first (PutCommandIssued's DO UPDATE).
DoneIsAudited ==
    \A c \in Commands :
        pc[c] = "done" => c \in DOMAIN pg /\ pg[c].issued /\ pg[c].dev = Target[c]

\* An outcome in memory is missing from PostgreSQL only while the handler is
\* about to write it, or when that write failed and was logged.
OutcomeOnlyInMemoryIsLogged ==
    \A i \in DOMAIN memory :
        memory[i].status # "issued" =>
            \/ \E a \in handler \cup logged : a.id = memory[i].id
            \/ /\ memory[i].id \in DOMAIN pg
               /\ pg[memory[i].id].status = memory[i].status

\* No step removes a row, turns an outcome into another one or back into
\* "issued", or empties the columns PutCommandIssued wrote.
OutcomeIsFinal ==
    [][\A id \in DOMAIN pg :
          /\ id \in DOMAIN pg'
          /\ pg[id].issued => pg'[id].issued
          /\ pg[id].ack # NoDevice => /\ pg'[id].ack = pg[id].ack
                                      /\ pg'[id].status = pg[id].status]_vars

Audit == INSTANCE CommandAudit WITH
    reported <- [id \in Ids |-> {StatusOf(a) : a \in {b \in executed : b.id = id}}],
    row <- [id \in Ids |-> IF id \in DOMAIN pg THEN pg[id].status ELSE "absent"]

\* command_records implements the abstract audit trail.
ImplementsAudit == Audit!Spec

\* Unless a fault intervenes or the platform refuses an acknowledgement, the outcome
\* of every published command that its device could parse reaches its row in PostgreSQL
\* and stays there, in whatever order ack and command are recorded: again and again no
\* outcome is missing, whatever commands were added in between.
OutcomeReachesPostgres ==
    []<>(\/ \A c \in Commands : answer[c] \in {"acked", "failed"} =>
                c \in DOMAIN pg /\ pg[c].issued /\ pg[c].status = answer[c]
         \/ faults > 0
         \/ rejects > 0)

\* docs/ARCHITECTURE.md: "MQTT command/ack -> memory + PostgreSQL ack update".
\* Once nothing is in progress, a listed command whose row has the outcome
\* shows that outcome in memory too.
AckUpdatesMemoryToo ==
    (handler = {} /\ faults = 0) =>
        \A i \in DOMAIN memory :
            LET id == memory[i].id
            IN  (id \in Commands /\ pc[id] = "done") => memory[i].status = pg[id].status
=============================================================================
