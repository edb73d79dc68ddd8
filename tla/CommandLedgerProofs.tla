------------------------ MODULE CommandLedgerProofs ------------------------
(***************************************************************************)
(* Proofs about CommandLedger, for any number of commands, devices,        *)
(* records and faults.                                                     *)
(***************************************************************************)
EXTENDS CommandLedger, SequenceTheorems, TLAPS

-----------------------------------------------------------------------------
(* The helpers *)

\* A function on 1 .. n is a sequence.
LEMMA FunctionIsSeq ==
  ASSUME NEW S, NEW n \in Nat, NEW f \in [1 .. n -> S]
  PROVE  f \in Seq(S) /\ Len(f) = n
OBVIOUS

\* Cutting a list keeps its element type and bounds its length.
LEMMA NewestType ==
  ASSUME NEW S, NEW s \in Seq(S)
  PROVE  Newest(s) \in Seq(S) /\ Len(Newest(s)) <= MaxRecords
<1>1. CASE Len(s) > MaxRecords
  <2>1. \A i \in 1 .. MaxRecords : s[i] \in S
    BY <1>1, ElementOfSeq, LenProperties, BoundsAssumption
  <2>2. /\ SubSeq(s, 1, MaxRecords) \in Seq(S)
        /\ Len(SubSeq(s, 1, MaxRecords)) = MaxRecords
    BY <2>1, SubSeqProperties, BoundsAssumption
  <2> QED  BY <1>1, <2>2, BoundsAssumption DEF Newest
<1>2. CASE ~(Len(s) > MaxRecords)
  BY <1>2, LenProperties, BoundsAssumption DEF Newest
<1> QED  BY <1>1, <1>2

\* Recording a command keeps memory a bounded list of records.
LEMMA MemIssuedType ==
  ASSUME NEW m \in Seq(Record), NEW c \in Sendable
  PROVE  MemIssued(m, c) \in Seq(Record) /\ Len(MemIssued(m, c)) <= MaxRecords
<1> DEFINE r == [id |-> c, dev |-> Target[c], status |-> "issued"]
<1>1. r \in Record
  BY DevicesAssumption DEF Record, Ids, Statuses
<1>2. <<r>> \in Seq(Record)
  BY <1>1
<1>3. <<r>> \o m \in Seq(Record)
  BY <1>2, ConcatProperties
<1> QED  BY <1>3, NewestType DEF MemIssued

\* So does an acknowledgement.
LEMMA MemAckedType ==
  ASSUME NEW m \in Seq(Record), NEW a \in Ack
  PROVE  MemAcked(m, a) \in Seq(Record) /\ Len(MemAcked(m, a)) = Len(m)
<1>1. StatusOf(a) \in Statuses
  BY DEF StatusOf, Statuses
<1>2. DOMAIN m = 1 .. Len(m) /\ Len(m) \in Nat /\ \A i \in DOMAIN m : m[i] \in Record
  BY LenProperties, ElementOfSeq
<1>3. \A i \in DOMAIN m : [m[i] EXCEPT !.status = StatusOf(a)] \in Record
  BY <1>1, <1>2 DEF Record
<1>4. MemAcked(m, a) \in [1 .. Len(m) -> Record]
  BY <1>2, <1>3 DEF MemAcked
<1> QED  BY <1>2, <1>4

\* Touching a key keeps the list of keys inside the table's keys.
LEMMA TouchType ==
  ASSUME NEW T, NEW s \in Seq(T), NEW id
  PROVE  Touch(s, id) \in Seq(T \cup {id})
<1> DEFINE k == IF \E i \in DOMAIN s : s[i] = id
                  THEN CHOOSE i \in DOMAIN s : s[i] = id
                  ELSE Len(s) + 1
           n == IF k > Len(s) THEN k ELSE Len(s)
           f == [i \in 1 .. n |-> IF i = 1 THEN id ELSE IF i <= k THEN s[i - 1] ELSE s[i]]
<1>1. DOMAIN s = 1 .. Len(s) /\ Len(s) \in Nat /\ \A i \in 1 .. Len(s) : s[i] \in T
  BY LenProperties, ElementOfSeq
<1>2. k \in 1 .. Len(s) + 1
  BY <1>1
<1> HIDE DEF k
<1>3. n \in Nat /\ n <= Len(s) + 1
  BY <1>1, <1>2
<1>4. ASSUME NEW i \in 1 .. n, i # 1, i <= k  PROVE s[i - 1] \in T
  BY <1>1, <1>2, <1>3, <1>4
<1>5. ASSUME NEW i \in 1 .. n, ~(i <= k)  PROVE s[i] \in T
  BY <1>1, <1>2, <1>3, <1>5
<1>6. f \in [1 .. n -> T \cup {id}]
  BY <1>4, <1>5
<1> HIDE DEF f, n
<1>7. f \in Seq(T \cup {id})
  BY <1>3, <1>6, FunctionIsSeq
<1> QED  BY <1>7 DEF Touch, k, n, f

-----------------------------------------------------------------------------
(* Type correctness *)

\* What a device answers is an acknowledgement.
LEMMA AckOfType ==
  ASSUME NEW c \in Sendable  PROVE AckOf(c) \in Ack
BY DevicesAssumption DEF AckOf, Ack, Ids

\* Both upserts write rows.
LEMMA RowTypes ==
  ASSUME TypeOK
  PROVE  /\ \A c \in Commands : IssuedRow(c) \in Row
         /\ \A a \in Ack : AckedRow(a) \in Row
<1>1. \A id \in DOMAIN pg : /\ pg[id].dev \in Devices /\ pg[id].issued \in BOOLEAN
                            /\ pg[id].status \in Statuses
                            /\ pg[id].ack \in Devices \cup {NoDevice}
  BY DEF TypeOK, Row
<1>2. ASSUME NEW c \in Commands  PROVE IssuedRow(c) \in Row
  <2>1. Target[c] \in Devices
    BY DevicesAssumption DEF Sendable
  <2> QED  BY <1>1, <2>1 DEF IssuedRow, Row, Statuses
<1>3. ASSUME NEW a \in Ack  PROVE AckedRow(a) \in Row
  BY <1>1 DEF AckedRow, Row, Ack, StatusOf, Statuses
<1> QED  BY <1>2, <1>3

\* The tables stay tables: for PutCommandIssued ...
LEMMA PgPutIssuedType ==
  ASSUME TypeOK, NEW c \in Commands, PgPutIssued(c)
  PROVE  /\ DOMAIN pg' = DOMAIN pg \cup {c}
         /\ DOMAIN pg' \subseteq Ids
         /\ pg' \in [DOMAIN pg' -> Row]
         /\ recent' \in Seq(DOMAIN pg')
<1>1. IssuedRow(c) \in Row
  BY RowTypes
<1>2. /\ DOMAIN pg' = DOMAIN pg \cup {c}
      /\ pg' \in [DOMAIN pg \cup {c} -> Row]
  BY <1>1 DEF PgPutIssued, Upsert, TypeOK
<1>3. recent' \in Seq(DOMAIN pg \cup {c})
  BY TouchType DEF PgPutIssued, TypeOK
<1> QED  BY <1>2, <1>3 DEF TypeOK, Ids, Sendable

\* ... and for PutCommandAck.
LEMMA PgPutAckType ==
  ASSUME TypeOK, NEW a \in Ack, PgPutAck(a)
  PROVE  /\ DOMAIN pg' \subseteq Ids
         /\ pg' \in [DOMAIN pg' -> Row]
         /\ recent' \in Seq(DOMAIN pg')
<1>1. CASE OtherDevicesRow(a)
  BY <1>1 DEF PgPutAck, dbVars, TypeOK
<1>2. CASE ~OtherDevicesRow(a)
  <2>1. AckedRow(a) \in Row
    BY RowTypes
  <2>2. /\ DOMAIN pg' = DOMAIN pg \cup {a.id}
        /\ pg' \in [DOMAIN pg \cup {a.id} -> Row]
    BY <1>2, <2>1 DEF PgPutAck, Upsert, TypeOK
  <2>3. recent' \in Seq(DOMAIN pg \cup {a.id})
    BY <1>2, TouchType DEF PgPutAck, TypeOK
  <2> QED  BY <2>2, <2>3 DEF TypeOK, Ack
<1> QED  BY <1>1, <1>2

\* What a restart loads is a bounded list of records.
LEMMA ListCommandsType ==
  ASSUME TypeOK
  PROVE  ListCommands \in Seq(Record) /\ Len(ListCommands) <= MaxRecords
<1> DEFINE keys == Newest(recent)
<1>1. keys \in Seq(DOMAIN pg) /\ Len(keys) <= MaxRecords
  BY NewestType DEF TypeOK
<1> HIDE DEF keys
<1>2. Len(keys) \in Nat /\ \A i \in 1 .. Len(keys) : keys[i] \in DOMAIN pg
  BY <1>1, LenProperties, ElementOfSeq
<1>3. \A id \in DOMAIN pg : [id |-> id, dev |-> pg[id].dev, status |-> pg[id].status] \in Record
  BY DEF TypeOK, Row, Record
<1>4. ListCommands \in [1 .. Len(keys) -> Record]
  BY <1>2, <1>3 DEF ListCommands, keys
<1> QED  BY <1>1, <1>2, <1>4, FunctionIsSeq

LEMMA TypeInit == Init => TypeOK
<1> SUFFICES ASSUME Init PROVE TypeOK
  OBVIOUS
<1>1. DOMAIN pg = {} /\ pg \in [DOMAIN pg -> Row]
  BY DEF Init
<1>2. memory \in Seq(Record) /\ Len(memory) = 0 /\ recent \in Seq(DOMAIN pg)
  BY EmptySeq DEF Init
<1> QED  BY <1>1, <1>2, BoundsAssumption DEF Init, TypeOK

LEMMA TypeStep == TypeOK /\ [Next]_vars => TypeOK'
<1> SUFFICES ASSUME TypeOK, [Next]_vars PROVE TypeOK'
  OBVIOUS
<1> USE BoundsAssumption
<1>1. ASSUME NEW c \in Commands, PublishCommand(c)  PROVE TypeOK'
  <2> c \in Sendable
    BY DEF Sendable
  <2>1. CASE Publish(c)
    BY <2>1 DEF Publish, TypeOK
  <2>2. CASE PublishError(c)
    BY <2>2 DEF PublishError, Fault, TypeOK
  <2>3. CASE RecordIssued(c)
    BY <2>3, MemIssuedType DEF RecordIssued, TypeOK
  <2>4. CASE PersistIssued(c)
    BY <2>4, PgPutIssuedType DEF PersistIssued, TypeOK
  <2>5. CASE PersistIssuedFails(c)
    BY <2>5 DEF PersistIssuedFails, Fault, TypeOK
  <2> QED  BY <1>1, <2>1, <2>2, <2>3, <2>4, <2>5 DEF PublishCommand
<1>2. ASSUME NEW c \in LocalCommands, EdgePublish(c)  PROVE TypeOK'
  BY <1>2 DEF EdgePublish, TypeOK, Sendable
<1>3. ASSUME NEW c \in Sendable, Field(c)  PROVE TypeOK'
  <2>1. CASE Execute(c)
    BY <2>1, AckOfType DEF Execute, TypeOK
  <2>2. CASE RedeliverCommand(c)
    BY <2>2 DEF RedeliverCommand, Fault, TypeOK
  <2>3. CASE LoseCommand(c)
    BY <2>3 DEF LoseCommand, Fault, TypeOK
  <2> QED  BY <1>3, <2>1, <2>2, <2>3 DEF Field
<1>4. ASSUME NEW a \in acks, LoseAck(a)  PROVE TypeOK'
  BY <1>4 DEF LoseAck, Fault, TypeOK
<1>5. ASSUME NEW a \in acks \cup handler, handleMessage(a)  PROVE TypeOK'
  <2> a \in Ack
    BY DEF TypeOK
  <2>1. CASE RejectAck(a)
    BY <2>1 DEF RejectAck, TypeOK
  <2>2. CASE HandleAck(a)
    BY <2>2, MemAckedType DEF HandleAck, TypeOK
  <2>3. CASE PersistAck(a)
    BY <2>3, PgPutAckType DEF PersistAck, TypeOK
  <2>4. CASE PersistAckFails(a)
    BY <2>4 DEF PersistAckFails, Fault, TypeOK
  <2> QED  BY <1>5, <2>1, <2>2, <2>3, <2>4 DEF handleMessage
<1>6. CASE Crash
  <2>1. memory' \in Seq(Record) /\ Len(memory') <= MaxRecords
    BY <1>6, EmptySeq DEF Crash
  <2>2. pc' \in [Commands -> {"idle", "waiting", "recorded", "done", "unsaved",
                              "error", "crashed"}]
    BY <1>6 DEF Crash, TypeOK
  <2>3. /\ handler' \subseteq Ack /\ rejects' \in Nat
        /\ faults' \in 0 .. MaxFaults
    BY <1>6 DEF Crash, Fault, TypeOK
  <2>4. UNCHANGED <<answer, inbox, acks, executed, pg, recent, logged>>
    BY <1>6 DEF Crash
  <2>5. up' \in BOOLEAN
    BY <1>6, Zenon DEF Crash
  <2> QED  BY <2>1, <2>2, <2>3, <2>4, <2>5 DEF TypeOK
<1>7. CASE Restart
  BY <1>7, ListCommandsType DEF Restart, TypeOK
<1>8. CASE UNCHANGED vars
  BY <1>8 DEF vars, TypeOK
<1> QED  BY <1>1, <1>2, <1>3, <1>4, <1>5, <1>6, <1>7, <1>8 DEF Next

\* Every variable keeps its type in every behaviour: in particular Store.commands
\* never grows beyond its limit and ListCommands only reads existing rows.
THEOREM TypeCorrect == Spec => []TypeOK
BY TypeInit, TypeStep, PTL DEF Spec

-----------------------------------------------------------------------------
(* Where acknowledgements come from *)

\* An ack under way was sent by a device; a device answers a command the way its
\* payload determines, so two acks for one command agree; a command that was not
\* published has no answer yet.
Provenance ==
    /\ acks \subseteq executed
    /\ handler \subseteq executed
    /\ \A c \in Commands : pc[c] = "idle" => answer[c] = "none"
    /\ \A c \in inbox : answer[c] # "none"
    /\ \A a \in executed :
          /\ a.id = NoId => ~a.ok
          /\ a.id # NoId => answer[a.id] # "none" /\ a = AckOf(a.id)

\* The inductive invariant.
IInv == TypeOK /\ Provenance /\ PgTruthful /\ DoneIsAudited

\* Only PersistIssued and PersistAck write to command_records.
LEMMA PgWriters ==
  ASSUME [Next]_vars
  PROVE  \/ UNCHANGED dbVars
         \/ \E c \in Commands : PersistIssued(c)
         \/ \E a \in handler : PersistAck(a)
BY DEF Next, PublishCommand, handleMessage, Field, Publish, PublishError, RecordIssued,
       PersistIssuedFails, EdgePublish, Execute, RedeliverCommand, LoseCommand, LoseAck,
       RejectAck, HandleAck, PersistAck, PersistAckFails, Crash, Restart, vars, dbVars

\* What devices have said is never unsaid.
LEMMA ExecutedGrows ==
  ASSUME [Next]_vars  PROVE executed \subseteq executed'
BY DEF Next, PublishCommand, handleMessage, Field, Publish, PublishError, RecordIssued,
       PersistIssued, PersistIssuedFails, EdgePublish, Execute, RedeliverCommand,
       LoseCommand, LoseAck, RejectAck, HandleAck, PersistAck, PersistAckFails, Crash,
       Restart, vars

LEMMA ProvenanceStep == TypeOK /\ Provenance /\ [Next]_vars => Provenance'
<1> SUFFICES ASSUME TypeOK, Provenance, [Next]_vars PROVE Provenance'
  OBVIOUS
<1>0. \A a \in executed : a.id \in Ids
  BY DEF TypeOK, Ack
<1>1. ASSUME NEW c \in Sendable, answer[c] = "none", NEW r \in Answers,
             answer' = [answer EXCEPT ![c] = r]
      PROVE  /\ answer'[c] # "none"
             /\ \A d \in Sendable \ {c} : answer'[d] = answer[d]
             /\ \A a \in executed : a.id # c
             /\ \A a \in executed : a.id # NoId => AckOf(a.id)' = AckOf(a.id)
  <2>1. answer'[c] # "none" /\ \A d \in Sendable \ {c} : answer'[d] = answer[d]
    BY <1>1 DEF TypeOK, Answers
  <2>2. \A a \in executed : a.id # c
    BY <1>1, CommandsAssumption DEF Provenance
  <2>3. ASSUME NEW a \in executed, a.id # NoId  PROVE AckOf(a.id)' = AckOf(a.id)
    <3>1. a.id \in Sendable \ {c}
      BY <1>0, <2>2, <2>3 DEF Ids
    <3> QED  BY <2>1, <3>1 DEF AckOf
  <2> QED  BY <2>1, <2>2, <2>3
<1>2. ASSUME NEW c \in Commands, PublishCommand(c)  PROVE Provenance'
  <2> c \in Sendable
    BY DEF Sendable
  <2>1. CASE Publish(c)
    <3>1. answer[c] = "none"
      BY <2>1 DEF Publish, Provenance
    <3>2. PICK r \in Answers : answer' = [answer EXCEPT ![c] = r]
      BY <2>1 DEF Publish
    <3>3. /\ answer'[c] # "none"
          /\ \A d \in Sendable \ {c} : answer'[d] = answer[d]
          /\ \A a \in executed : a.id # c
          /\ \A a \in executed : a.id # NoId => AckOf(a.id)' = AckOf(a.id)
      BY <1>1, <3>1, <3>2
    <3>4. \A d \in Commands : pc'[d] = "idle" => answer'[d] = "none"
      BY <2>1, <3>3 DEF Publish, Provenance, TypeOK, Sendable
    <3>5. \A d \in inbox' : answer'[d] # "none"
      BY <2>1, <3>3 DEF Publish, Provenance, TypeOK
    <3>6. \A a \in executed' : a.id # NoId => answer'[a.id] # "none" /\ a = AckOf(a.id)'
      BY <1>0, <2>1, <3>3 DEF Publish, Provenance, Ids
    <3> QED  BY <2>1, <3>4, <3>5, <3>6 DEF Publish, Provenance
  <2>2. CASE PublishError(c) \/ RecordIssued(c) \/ PersistIssued(c) \/ PersistIssuedFails(c)
    BY <2>2 DEF PublishError, RecordIssued, PersistIssued, PersistIssuedFails, Provenance,
                TypeOK, AckOf
  <2> QED  BY <1>2, <2>1, <2>2 DEF PublishCommand
<1>3. ASSUME NEW c \in LocalCommands, EdgePublish(c)  PROVE Provenance'
  <2> c \in Sendable
    BY DEF Sendable
  <2>1. answer[c] = "none"
    BY <1>3 DEF EdgePublish, Published
  <2>2. PICK r \in Answers : answer' = [answer EXCEPT ![c] = r]
    BY <1>3 DEF EdgePublish
  <2>3. /\ answer'[c] # "none"
        /\ \A d \in Sendable \ {c} : answer'[d] = answer[d]
        /\ \A a \in executed : a.id # c
        /\ \A a \in executed : a.id # NoId => AckOf(a.id)' = AckOf(a.id)
    BY <1>1, <2>1, <2>2
  <2>4. \A d \in Commands : pc'[d] = "idle" => answer'[d] = "none"
    BY <1>3, <2>3, CommandsAssumption DEF EdgePublish, Provenance, Sendable
  <2>5. \A d \in inbox' : answer'[d] # "none"
    BY <1>3, <2>3 DEF EdgePublish, Provenance, TypeOK
  <2>6. \A a \in executed' : a.id # NoId => answer'[a.id] # "none" /\ a = AckOf(a.id)'
    BY <1>0, <1>3, <2>3 DEF EdgePublish, Provenance, Ids
  <2> QED  BY <1>3, <2>4, <2>5, <2>6 DEF EdgePublish, Provenance
<1>4. ASSUME NEW c \in Sendable, Field(c)  PROVE Provenance'
  <2>1. CASE Execute(c)
    <3> DEFINE a == AckOf(c)
    <3>1. answer[c] # "none"
      BY <2>1 DEF Execute, Provenance
    <3>2. /\ a.id = NoId => ~a.ok
          /\ a.id # NoId => a.id = c
      BY CommandsAssumption DEF AckOf
    <3>3. \A x : AckOf(x)' = AckOf(x)
      BY <2>1 DEF Execute, AckOf
    <3> HIDE DEF a
    <3>4. executed' = executed \cup {a} /\ acks' = acks \cup {a} /\ answer' = answer
      BY <2>1 DEF Execute, a
    <3>5. \A b \in executed' : /\ b.id = NoId => ~b.ok
                               /\ b.id # NoId => answer'[b.id] # "none" /\ b = AckOf(b.id)'
      BY <3>1, <3>2, <3>3, <3>4 DEF Provenance, a
    <3> QED  BY <2>1, <3>4, <3>5 DEF Execute, Provenance
  <2>2. CASE RedeliverCommand(c) \/ LoseCommand(c)
    BY <2>2 DEF RedeliverCommand, LoseCommand, Published, Provenance, AckOf
  <2> QED  BY <1>4, <2>1, <2>2 DEF Field
<1>5. ASSUME NEW a \in acks \cup handler, LoseAck(a) \/ handleMessage(a)
      PROVE  Provenance'
  BY <1>5 DEF LoseAck, handleMessage, RejectAck, HandleAck, PersistAck, PersistAckFails,
              Provenance, AckOf
<1>6. CASE Crash
  BY <1>6 DEF Crash, Provenance, AckOf, TypeOK
<1>7. CASE Restart \/ UNCHANGED vars
  BY <1>7 DEF Restart, vars, Provenance, AckOf
<1> QED  BY <1>2, <1>3, <1>4, <1>5, <1>6, <1>7 DEF Next

-----------------------------------------------------------------------------
(* What a write does to its row *)

\* PutCommandIssued: the row is the command's, and an outcome stays as it is.
LEMMA PersistIssuedRow ==
  ASSUME IInv, NEW c \in Commands, PersistIssued(c)
  PROVE  /\ DOMAIN pg' = DOMAIN pg \cup {c}
         /\ \A id \in DOMAIN pg \ {c} : pg'[id] = pg[id]
         /\ pg'[c].issued /\ pg'[c].dev = Target[c]
         /\ c \in DOMAIN pg => /\ pg'[c].ack = pg[c].ack
                               /\ pg'[c].status = pg[c].status
                               /\ pg[c].ack # NoDevice => pg[c].dev = Target[c]
         /\ c \notin DOMAIN pg => pg'[c].ack = NoDevice /\ pg'[c].status = "issued"
<1>1. /\ DOMAIN pg' = DOMAIN pg \cup {c}
      /\ pg'[c] = IssuedRow(c)
      /\ \A id \in DOMAIN pg \ {c} : pg'[id] = pg[id]
  BY DEF PersistIssued, PgPutIssued, Upsert
<1>2. ASSUME c \in DOMAIN pg, pg[c].ack # NoDevice  PROVE pg[c].dev = Target[c]
  <2>1. PICK a \in executed : a.dev = pg[c].dev /\ a.id = c
    BY <1>2 DEF IInv, PgTruthful
  <2>2. a = AckOf(c)
    BY <2>1, CommandsAssumption DEF IInv, Provenance, Sendable
  <2> QED  BY <2>1, <2>2 DEF AckOf
<1>3. ASSUME c \in DOMAIN pg, pg[c].ack = NoDevice  PROVE pg[c].status = "issued"
  BY <1>3 DEF IInv, PgTruthful
<1> QED  BY <1>1, <1>2, <1>3 DEF IssuedRow

\* PutCommandAck: the row takes the outcome of an ack of its own device, or the
\* write does nothing.
LEMMA PersistAckRow ==
  ASSUME IInv, NEW a \in handler, PersistAck(a)
  PROVE  \/ UNCHANGED dbVars
         \/ /\ a \in executed
            /\ DOMAIN pg' = DOMAIN pg \cup {a.id}
            /\ \A id \in DOMAIN pg \ {a.id} : pg'[id] = pg[id]
            /\ pg'[a.id].dev = a.dev /\ pg'[a.id].ack = a.dev
            /\ pg'[a.id].status = StatusOf(a)
            /\ a.id \in DOMAIN pg => /\ pg[a.id].dev = a.dev
                                     /\ pg[a.id].issued => pg'[a.id].issued
                                     /\ pg[a.id].ack # NoDevice =>
                                          /\ pg[a.id].ack = a.dev
                                          /\ pg[a.id].status = StatusOf(a)
<1>1. CASE OtherDevicesRow(a)
  BY <1>1 DEF PersistAck, PgPutAck
<1>2. CASE ~OtherDevicesRow(a)
  <2>1. /\ DOMAIN pg' = DOMAIN pg \cup {a.id}
        /\ pg'[a.id] = AckedRow(a)
        /\ \A id \in DOMAIN pg \ {a.id} : pg'[id] = pg[id]
    BY <1>2 DEF PersistAck, PgPutAck, Upsert
  <2>2. a \in executed /\ a.dev \in Devices
    BY DEF IInv, Provenance, TypeOK, Ack
  <2>3. a.id \in DOMAIN pg => pg[a.id].dev = a.dev
    BY <1>2 DEF OtherDevicesRow
  <2>4. ASSUME a.id \in DOMAIN pg, pg[a.id].ack # NoDevice
        PROVE  pg[a.id].ack = a.dev /\ pg[a.id].status = StatusOf(a)
    <3>1. PICK b \in executed : b.id = a.id /\ StatusOf(b) = pg[a.id].status
      BY <2>4 DEF IInv, PgTruthful
    <3>3. StatusOf(b) = StatusOf(a)
      <4>1. CASE a.id # NoId
        <5>1. a = AckOf(a.id) /\ b = AckOf(b.id)
          BY <2>2, <3>1, <4>1 DEF IInv, Provenance
        <5> QED  BY <3>1, <5>1
      <4>2. CASE a.id = NoId
        <5>1. ~a.ok /\ ~b.ok
          BY <2>2, <3>1, <4>2 DEF IInv, Provenance
        <5> QED  BY <5>1 DEF StatusOf
      <4> QED  BY <4>1, <4>2
    <3> QED  BY <2>3, <2>4, <3>1, <3>3 DEF IInv, PgTruthful
  <2>5. /\ pg'[a.id].dev = a.dev /\ pg'[a.id].ack = a.dev
        /\ pg'[a.id].status = StatusOf(a)
        /\ pg'[a.id].issued = (a.id \in DOMAIN pg /\ pg[a.id].issued)
    BY <2>1, <2>3 DEF AckedRow
  <2> QED  BY <2>1, <2>2, <2>3, <2>4, <2>5
<1> QED  BY <1>1, <1>2

-----------------------------------------------------------------------------
(* The inductive invariant *)

LEMMA PgTruthfulStep == IInv /\ [Next]_vars => PgTruthful'
<1> SUFFICES ASSUME IInv, [Next]_vars PROVE PgTruthful'
  OBVIOUS
<1>0. executed \subseteq executed' /\ NoDevice \notin Devices
  BY ExecutedGrows, DevicesAssumption
<1>1. CASE UNCHANGED dbVars
  BY <1>0, <1>1 DEF IInv, PgTruthful, dbVars
<1>2. ASSUME NEW c \in Commands, PersistIssued(c)  PROVE PgTruthful'
  <2>1. /\ DOMAIN pg' = DOMAIN pg \cup {c}
        /\ \A id \in DOMAIN pg \ {c} : pg'[id] = pg[id]
        /\ pg'[c].issued /\ pg'[c].dev = Target[c]
        /\ c \in DOMAIN pg => /\ pg'[c].ack = pg[c].ack
                              /\ pg'[c].status = pg[c].status
                              /\ pg[c].ack # NoDevice => pg[c].dev = Target[c]
        /\ c \notin DOMAIN pg => pg'[c].ack = NoDevice /\ pg'[c].status = "issued"
    BY <1>2, PersistIssuedRow
  <2> QED  BY <1>0, <2>1 DEF IInv, PgTruthful
<1>3. ASSUME NEW a \in handler, PersistAck(a), ~UNCHANGED dbVars  PROVE PgTruthful'
  <2>1. /\ a \in executed
        /\ DOMAIN pg' = DOMAIN pg \cup {a.id}
        /\ \A id \in DOMAIN pg \ {a.id} : pg'[id] = pg[id]
        /\ pg'[a.id].dev = a.dev /\ pg'[a.id].ack = a.dev
        /\ pg'[a.id].status = StatusOf(a)
    BY <1>3, PersistAckRow
  <2>2. a.dev # NoDevice
    BY <1>0, <2>1 DEF IInv, TypeOK, Ack
  <2>3. ASSUME NEW id \in DOMAIN pg', id # a.id
        PROVE  IF pg'[id].ack = NoDevice
                 THEN pg'[id].issued /\ pg'[id].status = "issued"
                 ELSE /\ pg'[id].ack = pg'[id].dev
                      /\ \E b \in executed' : /\ b.dev = pg'[id].dev
                                              /\ b.id = id
                                              /\ StatusOf(b) = pg'[id].status
    BY <1>0, <2>1, <2>3 DEF IInv, PgTruthful
  <2>4. \E b \in executed' : /\ b.dev = pg'[a.id].dev
                             /\ b.id = a.id
                             /\ StatusOf(b) = pg'[a.id].status
    BY <1>0, <2>1
  <2>5. \A b : StatusOf(b)' = StatusOf(b)
    BY DEF StatusOf
  <2> QED  BY <2>1, <2>2, <2>3, <2>4, <2>5 DEF PgTruthful
<1> QED  BY <1>1, <1>2, <1>3, PgWriters

LEMMA DoneIsAuditedStep == IInv /\ [Next]_vars => DoneIsAudited'
<1> SUFFICES ASSUME IInv, [Next]_vars, NEW c \in Commands, pc'[c] = "done"
             PROVE  c \in DOMAIN pg' /\ pg'[c].issued /\ pg'[c].dev = Target[c]
  BY DEF DoneIsAudited
<1>1. pc[c] = "done" \/ PersistIssued(c)
  BY DEF Next, PublishCommand, handleMessage, Field, Publish, PublishError, RecordIssued,
         PersistIssued, PersistIssuedFails, EdgePublish, Execute, RedeliverCommand,
         LoseCommand, LoseAck, RejectAck, HandleAck, PersistAck, PersistAckFails, Crash,
         Restart, vars, IInv, TypeOK
<1>2. CASE PersistIssued(c)
  BY <1>2, PersistIssuedRow
<1>3. CASE pc[c] = "done" /\ ~PersistIssued(c)
  <2>1. c \in DOMAIN pg /\ pg[c].issued /\ pg[c].dev = Target[c]
    BY <1>3 DEF IInv, DoneIsAudited
  <2>2. CASE UNCHANGED dbVars
    BY <2>1, <2>2 DEF dbVars
  <2>3. ASSUME NEW d \in Commands, PersistIssued(d)
        PROVE  c \in DOMAIN pg' /\ pg'[c].issued /\ pg'[c].dev = Target[c]
    BY <1>3, <2>1, <2>3, PersistIssuedRow
  <2>4. ASSUME NEW a \in handler, PersistAck(a)
        PROVE  c \in DOMAIN pg' /\ pg'[c].issued /\ pg'[c].dev = Target[c]
    BY <2>1, <2>2, <2>4, PersistAckRow
  <2> QED  BY <2>2, <2>3, <2>4, PgWriters
<1> QED  BY <1>1, <1>2, <1>3

LEMMA Invariance == Spec => []IInv
<1>1. Init => IInv
  <2> SUFFICES ASSUME Init PROVE IInv
    OBVIOUS
  <2>1. TypeOK
    BY TypeInit
  <2>2. Provenance
    BY DEF Init, Provenance, Sendable
  <2>3. PgTruthful /\ DoneIsAudited
    BY DEF Init, PgTruthful, DoneIsAudited
  <2> QED  BY <2>1, <2>2, <2>3 DEF IInv
<1>2. IInv /\ [Next]_vars => IInv'
  BY TypeStep, ProvenanceStep, PgTruthfulStep, DoneIsAuditedStep DEF IInv
<1> QED  BY <1>1, <1>2, PTL DEF Spec

-----------------------------------------------------------------------------
(* The results *)

\* A row's outcome is always one its own device has reported for that command,
\* whatever the order of issue, ack, duplicate, failed write and restart.
THEOREM PgIsTruthful == Spec => []PgTruthful
BY Invariance, PTL DEF IInv

\* Once PublishCommand has returned with its write done, the row holds the
\* command, even if the ack's upsert created the row first.
THEOREM DoneStaysAudited == Spec => []DoneIsAudited
BY Invariance, PTL DEF IInv

\* command_records never loses a row, an outcome or the issued command.
THEOREM OutcomesAreFinal == Spec => OutcomeIsFinal
<1> DEFINE Keeps == \A id \in DOMAIN pg :
                      /\ id \in DOMAIN pg'
                      /\ pg[id].issued => pg'[id].issued
                      /\ pg[id].ack # NoDevice => /\ pg'[id].ack = pg[id].ack
                                                  /\ pg'[id].status = pg[id].status
<1>1. IInv /\ [Next]_vars => [Keeps]_vars
  <2> SUFFICES ASSUME IInv, [Next]_vars PROVE Keeps
    OBVIOUS
  <2>1. CASE UNCHANGED dbVars
    BY <2>1 DEF dbVars
  <2>2. ASSUME NEW c \in Commands, PersistIssued(c)  PROVE Keeps
    BY <2>2, PersistIssuedRow
  <2>3. ASSUME NEW a \in handler, PersistAck(a)  PROVE Keeps
    BY <2>1, <2>3, PersistAckRow
  <2> QED  BY <2>1, <2>2, <2>3, PgWriters
<1> QED  BY <1>1, Invariance, PTL DEF Spec, OutcomeIsFinal

\* The refinement mapping of CommandLedger's Audit instance, by name.
Reported == [id \in Ids |-> {StatusOf(a) : a \in {b \in executed : b.id = id}}]
RowStatus == [id \in Ids |-> IF id \in DOMAIN pg THEN pg[id].status ELSE "absent"]

\* Every step of the ledger is a step of the abstract audit trail or changes
\* nothing it shows.
LEMMA AuditStep == IInv /\ [Next]_vars => [Audit!Next]_(Audit!vars)
<1> SUFFICES ASSUME IInv, [Next]_vars
             PROVE  \/ Audit!Next
                    \/ Reported' = Reported /\ RowStatus' = RowStatus
  BY DEF Audit!vars, Reported, RowStatus
<1>1. ASSUME executed' = executed  PROVE Reported' = Reported
  BY <1>1 DEF Reported, StatusOf
<1>2. ASSUME UNCHANGED dbVars  PROVE RowStatus' = RowStatus
  BY <1>2 DEF RowStatus, dbVars
<1>3. ASSUME NEW c \in Sendable, Execute(c)  PROVE Audit!Next
  <2>0. PICK a : a = AckOf(c)
    OBVIOUS
  <2> DEFINE o == StatusOf(a)
  <2>1. a \in Ack /\ o \in Audit!Outcomes
    BY <2>0, AckOfType DEF StatusOf, Audit!Outcomes
  <2>2. executed' = executed \cup {a} /\ RowStatus' = RowStatus
    BY <1>2, <1>3, <2>0 DEF Execute, dbVars
  <2>3. \A id \in Ids :
          Reported'[id] = IF id = a.id THEN Reported[id] \cup {o} ELSE Reported[id]
    <3> SUFFICES ASSUME NEW id \in Ids
                 PROVE  Reported'[id] = IF id = a.id THEN Reported[id] \cup {o}
                                                     ELSE Reported[id]
      OBVIOUS
    <3>1. Reported'[id] = {StatusOf(x) : x \in {b \in executed' : b.id = id}}
      BY DEF Reported, StatusOf
    <3>2. Reported[id] = {StatusOf(x) : x \in {b \in executed : b.id = id}}
      BY DEF Reported
    <3>3. CASE id = a.id
      <4>1. {b \in executed' : b.id = id} = {b \in executed : b.id = id} \cup {a}
        BY <2>2, <3>3
      <4> QED  BY <3>1, <3>2, <3>3, <4>1
    <3>4. CASE id # a.id
      <4>1. {b \in executed' : b.id = id} = {b \in executed : b.id = id}
        BY <2>2, <3>4
      <4> QED  BY <3>1, <3>2, <3>4, <4>1
    <3> QED  BY <3>3, <3>4
  <2>4. Reported' = [Reported EXCEPT ![a.id] = @ \cup {o}]
    BY <2>3 DEF Reported
  <2>5. a.id \in Ids
    BY <2>1 DEF Ack
  <2>6. Audit!Report(a.id, o)
    BY <2>2, <2>4 DEF Audit!Report, Reported, RowStatus
  <2> QED  BY <2>1, <2>5, <2>6 DEF Audit!Next
<1>4. ASSUME NEW c \in Commands, PersistIssued(c)
      PROVE  Audit!Next \/ (Reported' = Reported /\ RowStatus' = RowStatus)
  <2>1. Reported' = Reported
    BY <1>1, <1>4 DEF PersistIssued
  <2>2. /\ DOMAIN pg' = DOMAIN pg \cup {c}
        /\ \A id \in DOMAIN pg \ {c} : pg'[id] = pg[id]
        /\ c \in DOMAIN pg => pg'[c].status = pg[c].status
        /\ c \notin DOMAIN pg => pg'[c].status = "issued"
    BY <1>4, PersistIssuedRow
  <2>3. c \in Ids
    BY DEF Ids, Sendable
  <2>4. CASE c \in DOMAIN pg
    BY <2>1, <2>2, <2>4 DEF RowStatus
  <2>5. CASE c \notin DOMAIN pg
    <3>1. RowStatus[c] = "absent" /\ RowStatus' = [RowStatus EXCEPT ![c] = "issued"]
      BY <2>2, <2>3, <2>5 DEF RowStatus
    <3>2. Audit!Issue(c)
      BY <2>1, <3>1 DEF Audit!Issue, Reported, RowStatus
    <3> QED  BY <2>3, <3>2 DEF Audit!Next
  <2> QED  BY <2>4, <2>5
<1>5. ASSUME NEW a \in handler, PersistAck(a)
      PROVE  Audit!Next \/ (Reported' = Reported /\ RowStatus' = RowStatus)
  <2>1. Reported' = Reported
    BY <1>1, <1>5 DEF PersistAck
  <2>2. CASE UNCHANGED dbVars
    BY <1>2, <2>1, <2>2
  <2>3. CASE ~UNCHANGED dbVars
    <3>1. /\ a \in executed
          /\ DOMAIN pg' = DOMAIN pg \cup {a.id}
          /\ \A id \in DOMAIN pg \ {a.id} : pg'[id] = pg[id]
          /\ pg'[a.id].status = StatusOf(a)
      BY <1>5, <2>3, PersistAckRow
    <3>2. a.id \in Ids /\ StatusOf(a) \in Audit!Outcomes
      BY <3>1 DEF IInv, TypeOK, Ack, StatusOf, Audit!Outcomes
    <3>3. StatusOf(a) \in Reported[a.id]
      BY <3>1, <3>2 DEF Reported
    <3>4. RowStatus' = [RowStatus EXCEPT ![a.id] = StatusOf(a)]
      BY <3>1, <3>2 DEF RowStatus
    <3>5. Audit!Settle(a.id, StatusOf(a))
      BY <2>1, <3>3, <3>4 DEF Audit!Settle, Reported, RowStatus
    <3> QED  BY <3>2, <3>5 DEF Audit!Next
  <2> QED  BY <2>2, <2>3
<1>6. \/ executed' = executed
      \/ \E c \in Sendable : Execute(c)
  BY DEF Next, PublishCommand, handleMessage, Field, Publish, PublishError, RecordIssued,
         PersistIssued, PersistIssuedFails, EdgePublish, RedeliverCommand, LoseCommand,
         LoseAck, RejectAck, HandleAck, PersistAck, PersistAckFails, Crash, Restart, vars
<1> QED  BY <1>1, <1>2, <1>3, <1>4, <1>5, <1>6, PgWriters

\* command_records implements the abstract audit trail: one row per command, a
\* row settles only on what a device reported, and stays settled.
THEOREM LedgerImplementsAudit == Spec => ImplementsAudit
<1>1. Init => Audit!Init
  BY DEF Init, Audit!Init, Ids
<1> QED  BY <1>1, AuditStep, Invariance, PTL DEF Spec, ImplementsAudit, Audit!Spec

-----------------------------------------------------------------------------
(* The list of recent commands *)

\* Cutting a list keeps its front.
LEMMA NewestPrefix ==
  ASSUME NEW S, NEW s \in Seq(S)
  PROVE  /\ Len(Newest(s)) \in Nat /\ Len(Newest(s)) <= Len(s)
         /\ DOMAIN Newest(s) = 1 .. Len(Newest(s))
         /\ \A i \in 1 .. Len(Newest(s)) : i \in 1 .. Len(s) /\ Newest(s)[i] = s[i]
<1>1. CASE Len(s) > MaxRecords
  <2>1. \A i \in 1 .. MaxRecords : s[i] \in S
    BY <1>1, ElementOfSeq, LenProperties, BoundsAssumption
  <2>2. /\ SubSeq(s, 1, MaxRecords) \in Seq(S)
        /\ Len(SubSeq(s, 1, MaxRecords)) = MaxRecords
        /\ \A i \in 1 .. MaxRecords : SubSeq(s, 1, MaxRecords)[i] = s[i]
    BY <2>1, SubSeqProperties, BoundsAssumption
  <2> QED  BY <1>1, <2>2, LenProperties, BoundsAssumption DEF Newest
<1>2. CASE ~(Len(s) > MaxRecords)
  BY <1>2, LenProperties DEF Newest
<1> QED  BY <1>1, <1>2

\* No element of a list occurs twice.
Once(s) == \A i, j \in DOMAIN s : s[i] = s[j] => i = j

\* Touching a key moves it to the front and duplicates none.
LEMMA TouchOnce ==
  ASSUME NEW T, NEW s \in Seq(T), Once(s), NEW id
  PROVE  Once(Touch(s, id))
<1> DEFINE k == IF \E i \in DOMAIN s : s[i] = id
                  THEN CHOOSE i \in DOMAIN s : s[i] = id
                  ELSE Len(s) + 1
           n == IF k > Len(s) THEN k ELSE Len(s)
           f == [i \in 1 .. n |-> IF i = 1 THEN id ELSE IF i <= k THEN s[i - 1] ELSE s[i]]
<1>1. DOMAIN s = 1 .. Len(s) /\ Len(s) \in Nat
  BY LenProperties
<1>2. k \in 1 .. Len(s) + 1 /\ \A j \in 1 .. Len(s) : j # k => s[j] # id
  <2>1. CASE \E i \in DOMAIN s : s[i] = id
    <3>1. k \in DOMAIN s /\ s[k] = id
      BY <2>1
    <3> HIDE DEF k
    <3> QED  BY <1>1, <3>1 DEF Once
  <2>2. CASE ~\E i \in DOMAIN s : s[i] = id
    <3>1. k = Len(s) + 1
      BY <2>2
    <3> HIDE DEF k
    <3> QED  BY <1>1, <2>2, <3>1
  <2> QED  BY <2>1, <2>2
<1> HIDE DEF k
<1>3. n \in Nat /\ n <= Len(s) + 1 /\ (n = Len(s) + 1 => k = n)
  <2>1. CASE k > Len(s)
    BY <1>1, <1>2, <2>1
  <2>2. CASE ~(k > Len(s))
    <3>1. n = Len(s)
      BY <2>2
    <3> HIDE DEF n
    <3>2. PICK l \in Nat : l = Len(s)
      BY <1>1
    <3>3. n = l /\ l <= l + 1 /\ l # l + 1
      BY <3>1, <3>2
    <3> QED  BY <3>2, <3>3
  <2> QED  BY <2>1, <2>2
<1> HIDE DEF n
<1>4. \A i, j \in 1 .. Len(s) : s[i] = s[j] => i = j
  BY <1>1 DEF Once
<1>5. ASSUME NEW i \in 1 .. n, i # 1
      PROVE  \E j \in 1 .. Len(s) : /\ f[i] = s[j] /\ j # k
                                    /\ j = IF i <= k THEN i - 1 ELSE i
  <2>1. CASE i <= k
    <3>1. i - 1 \in 1 .. Len(s) /\ i - 1 # k /\ f[i] = s[i - 1]
      BY <1>1, <1>2, <1>3, <1>5, <2>1
    <3> QED  BY <2>1, <3>1
  <2>2. CASE ~(i <= k)
    <3>1. i \in 1 .. Len(s) /\ i # k /\ f[i] = s[i]
      BY <1>1, <1>2, <1>3, <1>5, <2>2
    <3> QED  BY <2>2, <3>1
  <2> QED  BY <2>1, <2>2
<1>6. \A i \in 1 .. n : i = 1 => f[i] = id
  OBVIOUS
<1>7. DOMAIN f = 1 .. n
  OBVIOUS
<1> HIDE DEF f
<1>8. ASSUME NEW i \in 1 .. n, NEW j \in 1 .. n, f[i] = f[j]  PROVE i = j
  <2>1. CASE i = 1 \/ j = 1
    BY <1>2, <1>5, <1>6, <1>8, <2>1
  <2>2. CASE i # 1 /\ j # 1
    <3>1. PICK p \in 1 .. Len(s) : f[i] = s[p] /\ p # k /\ p = IF i <= k THEN i - 1 ELSE i
      BY <1>5, <2>2
    <3>2. PICK q \in 1 .. Len(s) : f[j] = s[q] /\ q # k /\ q = IF j <= k THEN j - 1 ELSE j
      BY <1>5, <2>2
    <3>3. p = q
      BY <1>4, <1>8, <3>1, <3>2
    <3> QED  BY <1>2, <1>3, <3>1, <3>2, <3>3
  <2> QED  BY <2>1, <2>2
<1>9. Touch(s, id) = f
  BY DEF Touch, f, n, k
<1> QED  BY <1>7, <1>8, <1>9 DEF Once

\* PutCommandIssued puts its record in front and may drop the oldest one.
LEMMA MemIssuedRecords ==
  ASSUME NEW m \in Seq(Record), NEW c \in Sendable
  PROVE  /\ DOMAIN MemIssued(m, c) = 1 .. Len(MemIssued(m, c))
         /\ Len(MemIssued(m, c)) \in Nat
         /\ \A i \in DOMAIN MemIssued(m, c) :
               \/ i = 1 /\ MemIssued(m, c)[i].id = c /\ MemIssued(m, c)[i].status = "issued"
               \/ i # 1 /\ i - 1 \in DOMAIN m /\ MemIssued(m, c)[i] = m[i - 1]
<1> DEFINE r == [id |-> c, dev |-> Target[c], status |-> "issued"]
           s == <<r>> \o m
<1>1. r \in Record
  BY DevicesAssumption DEF Record, Ids, Statuses
<1>2. r.id = c /\ r.status = "issued"
  OBVIOUS
<1>3. MemIssued(m, c) = Newest(s)
  BY DEF MemIssued
<1> HIDE DEF r
<1>4. <<r>> \in Seq(Record) /\ Len(<<r>>) = 1 /\ <<r>>[1] = r
  BY <1>1
<1>5. /\ s \in Seq(Record) /\ Len(s) = 1 + Len(m)
      /\ s[1] = r
      /\ \A i \in 1 .. Len(s) : i # 1 => s[i] = m[i - 1]
  BY <1>4, ConcatProperties, LenProperties
<1> HIDE DEF s
<1>6. /\ Len(Newest(s)) \in Nat
      /\ DOMAIN Newest(s) = 1 .. Len(Newest(s))
      /\ \A i \in 1 .. Len(Newest(s)) : i \in 1 .. Len(s) /\ Newest(s)[i] = s[i]
  BY <1>5, NewestPrefix
<1>7. DOMAIN m = 1 .. Len(m) /\ Len(m) \in Nat
  BY LenProperties
<1>8. ASSUME NEW i \in 1 .. Len(Newest(s))
      PROVE  \/ i = 1 /\ Newest(s)[i] = r
             \/ i # 1 /\ i - 1 \in DOMAIN m /\ Newest(s)[i] = m[i - 1]
  BY <1>5, <1>6, <1>7
<1> QED  BY <1>2, <1>3, <1>6, <1>8

\* PutCommandAck changes no id, and a status only to what the ack says of its command.
LEMMA MemAckedRecords ==
  ASSUME NEW m \in Seq(Record), NEW a
  PROVE  /\ DOMAIN MemAcked(m, a) = DOMAIN m
         /\ \A i \in DOMAIN m :
               /\ MemAcked(m, a)[i].id = m[i].id
               /\ \/ MemAcked(m, a)[i] = m[i]
                  \/ m[i].id = a.id /\ MemAcked(m, a)[i].status = StatusOf(a)
<1>1. \A i \in DOMAIN m : m[i] \in Record
  BY ElementOfSeq, LenProperties
<1>2. \A i \in DOMAIN m : /\ [m[i] EXCEPT !.status = StatusOf(a)].id = m[i].id
                          /\ [m[i] EXCEPT !.status = StatusOf(a)].status = StatusOf(a)
  BY <1>1 DEF Record
<1> QED  BY <1>2 DEF MemAcked

\* A restart lists keys of the table, each with its row's status.
LEMMA ListCommandsRecords ==
  ASSUME TypeOK
  PROVE  \A i \in DOMAIN ListCommands :
            /\ i \in DOMAIN recent
            /\ ListCommands[i].id = recent[i]
            /\ recent[i] \in DOMAIN pg
            /\ ListCommands[i].status = pg[recent[i]].status
<1> DEFINE keys == Newest(recent)
<1>1. recent \in Seq(DOMAIN pg)
  BY DEF TypeOK
<1>2. /\ Len(keys) \in Nat
      /\ \A i \in 1 .. Len(keys) : i \in 1 .. Len(recent) /\ keys[i] = recent[i]
  BY <1>1, NewestPrefix
<1>3. DOMAIN recent = 1 .. Len(recent) /\ \A i \in 1 .. Len(recent) : recent[i] \in DOMAIN pg
  BY <1>1, LenProperties, ElementOfSeq
<1>4. ListCommands = [i \in 1 .. Len(keys) |->
                        [id |-> keys[i], dev |-> pg[keys[i]].dev, status |-> pg[keys[i]].status]]
  BY DEF ListCommands
<1> HIDE DEF keys
<1> QED  BY <1>2, <1>3, <1>4

\* A row without an ack is that of a command the platform issued, for its device.
RowOwner ==
    \A id \in DOMAIN pg :
        pg[id].ack = NoDevice => id \in Commands /\ pg[id].dev = Target[id]

\* A key is listed once; a command has a row only after it was published; while the
\* platform is down nothing is in memory or in hand; a command that PublishCommand has
\* still to record is not in memory yet, loaded at a restart neither.
ListInv ==
    /\ Once(recent)
    /\ \A c \in Commands : c \in DOMAIN pg => pc[c] # "idle"
    /\ ~up => /\ memory = <<>> /\ handler = {}
              /\ \A c \in Commands : pc[c] # "waiting"
    /\ \A i \in DOMAIN memory :
          memory[i].id \in Commands => pc[memory[i].id] \notin {"idle", "waiting"}

\* An outcome in memory was reported for that command, and is in PostgreSQL, in the
\* handler's hand or in the log.
Backed(r, inHand, lost, table) ==
    \/ \E a \in inHand \cup lost : a.id = r.id
    \/ r.id \in DOMAIN table /\ table[r.id].ack # NoDevice

ReportedAs(r, reports) == \E b \in reports : b.id = r.id /\ StatusOf(b) = r.status

OutcomeInv ==
    \A i \in DOMAIN memory :
        memory[i].status # "issued" =>
            /\ ReportedAs(memory[i], executed)
            /\ Backed(memory[i], handler, logged, pg)

\* handleMessage has one ack in hand at a time.
OneInHand == \A a, b \in handler : a = b

\* The inductive invariant of the list.
MInv == RowOwner /\ OneInHand /\ ListInv /\ MemoryListsOnce /\ OutcomeInv

\* Two reports of one command agree, and so do two that name none.
LEMMA OneOutcome ==
  ASSUME Provenance, NEW a \in executed, NEW b \in executed, a.id = b.id
  PROVE  StatusOf(a) = StatusOf(b)
<1>1. CASE a.id # NoId
  <2>1. a = AckOf(a.id) /\ b = AckOf(b.id)
    BY <1>1 DEF Provenance
  <2> QED  BY <2>1
<1>2. CASE a.id = NoId
  <2>1. ~a.ok /\ ~b.ok
    BY <1>2 DEF Provenance
  <2> QED  BY <2>1 DEF StatusOf
<1> QED  BY <1>1, <1>2

LEMMA RowOwnerStep == IInv /\ RowOwner /\ [Next]_vars => RowOwner'
<1> SUFFICES ASSUME IInv, RowOwner, [Next]_vars PROVE RowOwner'
  OBVIOUS
<1>1. CASE UNCHANGED dbVars
  BY <1>1 DEF RowOwner, dbVars
<1>2. ASSUME NEW c \in Commands, PersistIssued(c)  PROVE RowOwner'
  <2>1. /\ DOMAIN pg' = DOMAIN pg \cup {c}
        /\ \A id \in DOMAIN pg \ {c} : pg'[id] = pg[id]
        /\ pg'[c].dev = Target[c]
    BY <1>2, PersistIssuedRow
  <2> QED  BY <2>1 DEF RowOwner
<1>3. ASSUME NEW a \in handler, PersistAck(a), ~UNCHANGED dbVars  PROVE RowOwner'
  <2>1. /\ a \in executed
        /\ DOMAIN pg' = DOMAIN pg \cup {a.id}
        /\ \A id \in DOMAIN pg \ {a.id} : pg'[id] = pg[id]
        /\ pg'[a.id].ack = a.dev
    BY <1>3, PersistAckRow
  <2>2. a.dev # NoDevice
    BY <2>1, DevicesAssumption DEF IInv, TypeOK, Ack
  <2> QED  BY <2>1, <2>2 DEF RowOwner
<1> QED  BY <1>1, <1>2, <1>3, PgWriters

LEMMA OneInHandStep == OneInHand /\ [Next]_vars => OneInHand'
<1> SUFFICES ASSUME OneInHand, [Next]_vars PROVE OneInHand'
  OBVIOUS
<1>1. handler' = handler \/ handler' = {} \/ \E a \in acks : handler' = {a}
  BY DEF Next, PublishCommand, handleMessage, Field, Publish, PublishError, RecordIssued,
         PersistIssued, PersistIssuedFails, EdgePublish, Execute, RedeliverCommand,
         LoseCommand, LoseAck, RejectAck, HandleAck, PersistAck, PersistAckFails, Crash,
         Restart, vars
<1> QED  BY <1>1 DEF OneInHand

\* PutCommandAck leaves the ack's key with an outcome, whichever branch it takes.
LEMMA PersistAckSettles ==
  ASSUME IInv, RowOwner, NEW a \in handler, PersistAck(a)
  PROVE  a.id \in DOMAIN pg' /\ pg'[a.id].ack # NoDevice
<1>0. a \in executed /\ a.dev \in Devices
  BY DEF IInv, Provenance, TypeOK, Ack
<1>1. CASE OtherDevicesRow(a)
  <2>1. pg' = pg /\ a.id \in DOMAIN pg /\ pg[a.id].dev # a.dev
    BY <1>1 DEF PersistAck, PgPutAck, dbVars, OtherDevicesRow
  <2>2. ASSUME pg[a.id].ack = NoDevice  PROVE FALSE
    <3>1. a.id \in Commands /\ pg[a.id].dev = Target[a.id]
      BY <2>1, <2>2 DEF RowOwner
    <3>2. a = AckOf(a.id)
      BY <1>0, <3>1, CommandsAssumption DEF IInv, Provenance, Sendable
    <3> QED  BY <2>1, <3>1, <3>2 DEF AckOf
  <2> QED  BY <2>1, <2>2
<1>2. CASE ~OtherDevicesRow(a)
  <2>1. a.id \in DOMAIN pg' /\ pg'[a.id].ack = a.dev
    BY <1>2 DEF PersistAck, PgPutAck, Upsert, AckedRow
  <2> QED  BY <1>0, <2>1, DevicesAssumption
<1> QED  BY <1>1, <1>2

LEMMA RecentOnceStep == IInv /\ Once(recent) /\ [Next]_vars => Once(recent)'
<1> SUFFICES ASSUME IInv, Once(recent), [Next]_vars PROVE Once(recent')
  BY DEF Once
<1>0. recent \in Seq(DOMAIN pg)
  BY DEF IInv, TypeOK
<1>1. CASE UNCHANGED dbVars
  BY <1>1 DEF dbVars
<1>2. ASSUME NEW c \in Commands, PersistIssued(c)  PROVE Once(recent')
  BY <1>0, <1>2, TouchOnce DEF PersistIssued, PgPutIssued
<1>3. ASSUME NEW a \in handler, PersistAck(a)  PROVE Once(recent')
  BY <1>0, <1>1, <1>3, TouchOnce DEF PersistAck, PgPutAck
<1> QED  BY <1>1, <1>2, <1>3, PgWriters

\* A call of PublishCommand never starts again, and starts when the command is published.
LEMMA RowsArePublished ==
  ASSUME IInv, ListInv, [Next]_vars, NEW c \in Commands, c \in DOMAIN pg'
  PROVE  pc'[c] # "idle"
<1>1. pc'[c] = "idle" => pc[c] = "idle" /\ ~PersistIssued(c)
  BY DEF Next, PublishCommand, handleMessage, Field, Publish, PublishError, RecordIssued,
         PersistIssued, PersistIssuedFails, EdgePublish, Execute, RedeliverCommand,
         LoseCommand, LoseAck, RejectAck, HandleAck, PersistAck, PersistAckFails, Crash,
         Restart, vars, IInv, TypeOK
<1> SUFFICES ASSUME pc[c] = "idle", ~PersistIssued(c)  PROVE FALSE
  BY <1>1
<1>2. c \notin DOMAIN pg
  BY DEF ListInv
<1>3. ASSUME NEW d \in Commands, PersistIssued(d)  PROVE FALSE
  BY <1>2, <1>3, PersistIssuedRow
<1>4. ASSUME NEW a \in handler, PersistAck(a), ~UNCHANGED dbVars  PROVE FALSE
  <2>1. a \in executed /\ a.id = c
    BY <1>2, <1>4, PersistAckRow
  <2>2. answer[c] # "none"
    BY <2>1, CommandsAssumption DEF IInv, Provenance, Sendable
  <2> QED  BY <2>2 DEF IInv, Provenance
<1> QED  BY <1>2, <1>3, <1>4, PgWriters DEF dbVars

\* Only these steps change the list in memory.
LEMMA MemoryWriters ==
  ASSUME [Next]_vars
  PROVE  \/ memory' = memory
         \/ \E c \in Commands : RecordIssued(c)
         \/ \E a \in acks : HandleAck(a)
         \/ Crash
         \/ Restart
BY DEF Next, PublishCommand, handleMessage, Field, Publish, PublishError, PersistIssued,
       PersistIssuedFails, EdgePublish, Execute, RedeliverCommand, LoseCommand, LoseAck,
       RejectAck, HandleAck, PersistAck, PersistAckFails, vars

\* A call that has recorded its command, or returned, does not wait again.
LEMMA PcMovesOn ==
  ASSUME TypeOK, [Next]_vars, NEW c \in Commands, pc[c] \notin {"idle", "waiting"}
  PROVE  pc'[c] \notin {"idle", "waiting"}
BY DEF Next, PublishCommand, handleMessage, Field, Publish, PublishError, RecordIssued,
       PersistIssued, PersistIssuedFails, EdgePublish, Execute, RedeliverCommand,
       LoseCommand, LoseAck, RejectAck, HandleAck, PersistAck, PersistAckFails, Crash,
       Restart, vars, TypeOK

\* While the platform is down only the field and Restart move.
LEMMA DownIsQuiet ==
  ASSUME TypeOK, ListInv, [Next]_vars, ~up'
  PROVE  /\ memory' = <<>> /\ handler' = {}
         /\ \A c \in Commands : pc'[c] # "waiting"
<1>1. CASE Crash
  BY <1>1 DEF Crash, TypeOK
<1>2. CASE ~Crash
  <2>1. ~up /\ UNCHANGED <<memory, handler, pc>>
    BY <1>2 DEF Next, PublishCommand, handleMessage, Field, Publish, PublishError,
        RecordIssued, PersistIssued, PersistIssuedFails, EdgePublish, Execute,
        RedeliverCommand, LoseCommand, LoseAck, RejectAck, HandleAck, PersistAck,
        PersistAckFails, Restart, vars, TypeOK
  <2> QED  BY <2>1 DEF ListInv
<1> QED  BY <1>1, <1>2

LEMMA ListInvStep == IInv /\ ListInv /\ [Next]_vars => ListInv'
<1> SUFFICES ASSUME IInv, ListInv, [Next]_vars PROVE ListInv'
  OBVIOUS
<1> DEFINE Known(m, p) == \A i \in DOMAIN m :
                            m[i].id \in Commands => p[m[i].id] \notin {"idle", "waiting"}
<1>0. TypeOK /\ memory \in Seq(Record)
  BY DEF IInv, TypeOK
<1>1. Once(recent)'
  BY RecentOnceStep DEF ListInv
<1>2. \A c \in Commands : c \in DOMAIN pg' => pc'[c] # "idle"
  BY RowsArePublished
<1>3. ~up' => /\ memory' = <<>> /\ handler' = {}
              /\ \A c \in Commands : pc'[c] # "waiting"
  BY <1>0, DownIsQuiet
<1>4. Known(memory, pc) /\ Known(memory, pc')
  BY <1>0, PcMovesOn DEF ListInv
<1>5. Known(memory', pc')
  <2>1. CASE memory' = memory
    BY <1>4, <2>1
  <2>2. ASSUME NEW c \in Commands, RecordIssued(c)  PROVE Known(memory', pc')
    <3>1. c \in Sendable /\ memory' = MemIssued(memory, c)
      BY <2>2 DEF RecordIssued, Sendable
    <3>2. pc'[c] = "recorded"
      BY <1>0, <2>2 DEF RecordIssued, TypeOK
    <3>3. \A i \in DOMAIN memory' :
            \/ memory'[i].id = c
            \/ i - 1 \in DOMAIN memory /\ memory'[i] = memory[i - 1]
      BY <1>0, <3>1, MemIssuedRecords
    <3> QED  BY <1>4, <3>2, <3>3
  <2>3. ASSUME NEW a \in acks, HandleAck(a)  PROVE Known(memory', pc')
    <3>1. memory' = MemAcked(memory, a)
      BY <2>3 DEF HandleAck
    <3>2. DOMAIN memory' = DOMAIN memory /\ \A i \in DOMAIN memory : memory'[i].id = memory[i].id
      BY <1>0, <3>1, MemAckedRecords
    <3> QED  BY <1>4, <3>2
  <2>4. CASE Crash
    <3>1. DOMAIN memory' = {}
      BY <2>4 DEF Crash
    <3> QED  BY <3>1
  <2>5. CASE Restart
    <3>1. memory' = ListCommands /\ pc' = pc /\ ~up
      BY <2>5 DEF Restart
    <3>2. \A i \in DOMAIN memory' : memory'[i].id \in DOMAIN pg
      BY <1>0, <3>1, ListCommandsRecords
    <3>3. \A c \in Commands : c \in DOMAIN pg => pc[c] \notin {"idle", "waiting"}
      BY <3>1 DEF ListInv
    <3> QED  BY <3>1, <3>2, <3>3
  <2> QED  BY <2>1, <2>2, <2>3, <2>4, <2>5, MemoryWriters
<1> HIDE DEF Known
<1> QED  BY <1>1, <1>2, <1>3, <1>5 DEF ListInv, Known

LEMMA MemoryListsOnceStep ==
  IInv /\ ListInv /\ MemoryListsOnce /\ [Next]_vars => MemoryListsOnce'
<1> SUFFICES ASSUME IInv, ListInv, MemoryListsOnce, [Next]_vars PROVE MemoryListsOnce'
  OBVIOUS
<1>0. TypeOK /\ memory \in Seq(Record)
  BY DEF IInv, TypeOK
<1>1. CASE memory' = memory
  BY <1>1 DEF MemoryListsOnce
<1>2. ASSUME NEW c \in Commands, RecordIssued(c)  PROVE MemoryListsOnce'
  <2>1. c \in Sendable /\ memory' = MemIssued(memory, c) /\ pc[c] = "waiting"
    BY <1>2 DEF RecordIssued, Sendable
  <2>2. \A i \in DOMAIN memory : memory[i].id # c
    BY <2>1 DEF ListInv
  <2>3. /\ DOMAIN memory' = 1 .. Len(memory') /\ Len(memory') \in Nat
        /\ \A i \in DOMAIN memory' :
              \/ i = 1 /\ memory'[i].id = c
              \/ i # 1 /\ i - 1 \in DOMAIN memory /\ memory'[i] = memory[i - 1]
    BY <1>0, <2>1, MemIssuedRecords
  <2>4. SUFFICES ASSUME NEW i \in DOMAIN memory', NEW j \in DOMAIN memory',
                        memory'[i].id = memory'[j].id
                 PROVE  i = j
    BY DEF MemoryListsOnce
  <2>5. CASE i = 1 \/ j = 1
    BY <2>2, <2>3, <2>4, <2>5
  <2>6. CASE i # 1 /\ j # 1
    <3>1. /\ i - 1 \in DOMAIN memory /\ memory'[i] = memory[i - 1]
          /\ j - 1 \in DOMAIN memory /\ memory'[j] = memory[j - 1]
      BY <2>3, <2>6
    <3>2. i - 1 = j - 1
      BY <2>4, <3>1 DEF MemoryListsOnce
    <3>3. i \in Int /\ j \in Int
      BY <2>3
    <3> QED  BY <3>2, <3>3
  <2> QED  BY <2>5, <2>6
<1>3. ASSUME NEW a \in acks, HandleAck(a)  PROVE MemoryListsOnce'
  <2>1. memory' = MemAcked(memory, a)
    BY <1>3 DEF HandleAck
  <2>2. DOMAIN memory' = DOMAIN memory /\ \A i \in DOMAIN memory : memory'[i].id = memory[i].id
    BY <1>0, <2>1, MemAckedRecords
  <2> QED  BY <2>2 DEF MemoryListsOnce
<1>4. CASE Crash
  <2>1. DOMAIN memory' = {}
    BY <1>4 DEF Crash
  <2> QED  BY <2>1 DEF MemoryListsOnce
<1>5. CASE Restart
  <2>1. memory' = ListCommands
    BY <1>5 DEF Restart
  <2>2. \A i \in DOMAIN memory' : i \in DOMAIN recent /\ memory'[i].id = recent[i]
    BY <1>0, <2>1, ListCommandsRecords
  <2> QED  BY <2>2 DEF ListInv, Once, MemoryListsOnce
<1> QED  BY <1>1, <1>2, <1>3, <1>4, <1>5, MemoryWriters

\* A key that has an outcome keeps one.
LEMMA SettledStays ==
  ASSUME IInv, RowOwner, [Next]_vars, NEW id, id \in DOMAIN pg, pg[id].ack # NoDevice
  PROVE  id \in DOMAIN pg' /\ pg'[id].ack # NoDevice
<1>1. CASE UNCHANGED dbVars
  BY <1>1 DEF dbVars
<1>2. ASSUME NEW c \in Commands, PersistIssued(c)
      PROVE  id \in DOMAIN pg' /\ pg'[id].ack # NoDevice
  BY <1>2, PersistIssuedRow
<1>3. ASSUME NEW a \in handler, PersistAck(a), ~UNCHANGED dbVars
      PROVE  id \in DOMAIN pg' /\ pg'[id].ack # NoDevice
  <2>1. /\ DOMAIN pg' = DOMAIN pg \cup {a.id}
        /\ \A k \in DOMAIN pg \ {a.id} : pg'[k] = pg[k]
    BY <1>3, PersistAckRow
  <2>2. pg'[a.id].ack # NoDevice
    BY <1>3, PersistAckSettles
  <2> QED  BY <2>1, <2>2
<1> QED  BY <1>1, <1>2, <1>3, PgWriters

\* What backs an outcome stays: an ack leaves the handler for PostgreSQL or the log,
\* while the platform runs, and a row keeps its ack.
LEMMA BackingStays ==
  ASSUME IInv, RowOwner, OneInHand, [Next]_vars, ~Crash, NEW r,
         Backed(r, handler, logged, pg)
  PROVE  Backed(r, handler', logged', pg')
<1>1. ASSUME r.id \in DOMAIN pg, pg[r.id].ack # NoDevice
      PROVE  r.id \in DOMAIN pg' /\ pg'[r.id].ack # NoDevice
  BY <1>1, SettledStays
<1>2. ASSUME NEW a \in logged, a.id = r.id  PROVE Backed(r, handler', logged', pg')
  <2>1. logged \subseteq logged'
    BY DEF Next, PublishCommand, handleMessage, Field, Publish, PublishError, RecordIssued,
           PersistIssued, PersistIssuedFails, EdgePublish, Execute, RedeliverCommand,
           LoseCommand, LoseAck, RejectAck, HandleAck, PersistAck, PersistAckFails, Crash,
           Restart, vars
  <2> QED  BY <1>2, <2>1 DEF Backed
<1>3. ASSUME NEW a \in handler, a.id = r.id  PROVE Backed(r, handler', logged', pg')
  <2>1. \/ handler' = handler
        \/ \E b \in handler : PersistAckFails(b) \/ PersistAck(b)
    BY <1>3 DEF Next, PublishCommand, handleMessage, Field, Publish, PublishError,
        RecordIssued, PersistIssued, PersistIssuedFails, EdgePublish, Execute,
        RedeliverCommand, LoseCommand, LoseAck, RejectAck, HandleAck, PersistAck,
        PersistAckFails, Restart, vars
  <2>2. CASE handler' = handler
    BY <1>3, <2>2 DEF Backed
  <2>3. CASE PersistAckFails(a)
    BY <1>3, <2>3 DEF PersistAckFails, Backed
  <2>4. CASE PersistAck(a)
    BY <1>3, <2>4, PersistAckSettles DEF Backed
  <2> QED  BY <2>1, <2>2, <2>3, <2>4 DEF OneInHand
<1> QED  BY <1>1, <1>2, <1>3 DEF Backed

LEMMA OutcomeInvStep ==
  IInv /\ RowOwner /\ OneInHand /\ OutcomeInv /\ [Next]_vars => OutcomeInv'
<1> SUFFICES ASSUME IInv, RowOwner, OneInHand, OutcomeInv, [Next]_vars,
                    NEW i \in DOMAIN memory', memory'[i].status # "issued"
             PROVE  /\ ReportedAs(memory'[i], executed')
                    /\ Backed(memory'[i], handler', logged', pg')
  BY DEF OutcomeInv, ReportedAs, Backed, StatusOf
<1>0. TypeOK /\ memory \in Seq(Record) /\ executed \subseteq executed'
  BY ExecutedGrows DEF IInv, TypeOK
<1>1. ASSUME ~Crash, NEW j \in DOMAIN memory, memory'[i] = memory[j]
      PROVE  /\ ReportedAs(memory'[i], executed')
             /\ Backed(memory'[i], handler', logged', pg')
  <2>1. ReportedAs(memory[j], executed) /\ Backed(memory[j], handler, logged, pg)
    BY <1>1 DEF OutcomeInv
  <2>2. Backed(memory[j], handler', logged', pg')
    BY <1>1, <2>1, BackingStays
  <2> QED  BY <1>0, <1>1, <2>1, <2>2 DEF ReportedAs
<1>2. CASE Crash
  BY <1>2 DEF Crash
<1>3. CASE memory' = memory
  BY <1>1, <1>2, <1>3
<1>4. ASSUME NEW c \in Commands, RecordIssued(c)
      PROVE  /\ ReportedAs(memory'[i], executed')
             /\ Backed(memory'[i], handler', logged', pg')
  <2>1. c \in Sendable /\ memory' = MemIssued(memory, c)
    BY <1>4 DEF RecordIssued, Sendable
  <2>2. i - 1 \in DOMAIN memory /\ memory'[i] = memory[i - 1]
    BY <1>0, <2>1, MemIssuedRecords
  <2> QED  BY <1>1, <1>2, <2>2
<1>5. ASSUME NEW a \in acks, HandleAck(a)
      PROVE  /\ ReportedAs(memory'[i], executed')
             /\ Backed(memory'[i], handler', logged', pg')
  <2>1. memory' = MemAcked(memory, a) /\ handler' = {a}
    BY <1>5 DEF HandleAck
  <2>2. /\ i \in DOMAIN memory
        /\ memory'[i].id = memory[i].id
        /\ \/ memory'[i] = memory[i]
           \/ memory[i].id = a.id /\ memory'[i].status = StatusOf(a)
    BY <1>0, <2>1, MemAckedRecords
  <2>3. CASE memory'[i] = memory[i]
    BY <1>1, <1>2, <2>2, <2>3
  <2>4. CASE memory[i].id = a.id /\ memory'[i].status = StatusOf(a)
    <3>1. a \in executed'
      BY <1>0 DEF IInv, Provenance
    <3> QED  BY <2>1, <2>2, <2>4, <3>1 DEF ReportedAs, Backed
  <2> QED  BY <2>2, <2>3, <2>4
<1>6. CASE Restart
  <2>1. memory' = ListCommands /\ pg' = pg
    BY <1>6 DEF Restart
  <2>2. PICK id \in DOMAIN pg : memory'[i].id = id /\ memory'[i].status = pg[id].status
    BY <1>0, <2>1, ListCommandsRecords
  <2>3. pg[id].ack # NoDevice
    BY <2>2 DEF IInv, PgTruthful
  <2>4. \E b \in executed : b.id = id /\ StatusOf(b) = pg[id].status
    BY <2>3 DEF IInv, PgTruthful
  <2> QED  BY <1>0, <2>1, <2>2, <2>3, <2>4 DEF ReportedAs, Backed
<1> QED  BY <1>2, <1>3, <1>4, <1>5, <1>6, MemoryWriters

LEMMA MemoryInvariance == Spec => []MInv
<1>1. Init => MInv
  <2> SUFFICES ASSUME Init PROVE MInv
    OBVIOUS
  <2>1. DOMAIN memory = {} /\ DOMAIN recent = {} /\ DOMAIN pg = {} /\ handler = {} /\ up
    BY DEF Init
  <2> QED  BY <2>1 DEF MInv, OneInHand, RowOwner, ListInv, Once, MemoryListsOnce, OutcomeInv
<1>2. IInv /\ MInv /\ [Next]_vars => MInv'
  BY RowOwnerStep, OneInHandStep, ListInvStep, MemoryListsOnceStep, OutcomeInvStep DEF MInv
<1> QED  BY <1>1, <1>2, Invariance, PTL DEF Spec

\* GET /api/v1/commands lists no command twice, whatever the order of issue, ack,
\* duplicate and restart: SetCommands loads distinct keys, and a call of
\* PublishCommand that was interrupted by the crash never records its command after it.
THEOREM CommandsAreListedOnce == Spec => []MemoryListsOnce
BY MemoryInvariance, PTL DEF MInv

\* An outcome the API shows is in command_records too, unless the handler is about to
\* write it or the failure of that write is in the log; the outcome is the same.
THEOREM ShownOutcomesArePersistent == Spec => []OutcomeOnlyInMemoryIsLogged
<1>1. IInv /\ MInv => OutcomeOnlyInMemoryIsLogged
  <2> SUFFICES ASSUME IInv, MInv, NEW i \in DOMAIN memory, memory[i].status # "issued",
                      ~\E a \in handler \cup logged : a.id = memory[i].id
               PROVE  /\ memory[i].id \in DOMAIN pg
                      /\ pg[memory[i].id].status = memory[i].status
    BY DEF OutcomeOnlyInMemoryIsLogged
  <2>1. memory[i].id \in DOMAIN pg /\ pg[memory[i].id].ack # NoDevice
    BY DEF MInv, OutcomeInv, Backed
  <2>2. PICK b \in executed : b.id = memory[i].id /\ StatusOf(b) = memory[i].status
    BY DEF MInv, OutcomeInv, ReportedAs
  <2>3. PICK a \in executed : a.id = memory[i].id /\ StatusOf(a) = pg[memory[i].id].status
    BY <2>1 DEF IInv, PgTruthful
  <2>4. StatusOf(a) = StatusOf(b)
    BY <2>2, <2>3, OneOutcome DEF IInv
  <2> QED  BY <2>1, <2>2, <2>3, <2>4
<1> QED  BY <1>1, Invariance, MemoryInvariance, PTL

-----------------------------------------------------------------------------
(* What makes an outcome arrive *)

\* As long as no fault has occurred and no acknowledgement was refused, a published
\* command is with the broker, or its acknowledgement is on its way or in hand, or
\* command_records has an outcome under the acknowledged id: nothing is dropped between
\* two steps of the publisher, the device and the handler.  This is what the steps of
\* OutcomeReachesPostgres rest on, which TLC checks under fairness.
NothingDropped ==
    faults = 0 /\ rejects = 0 =>
        \A c \in Sendable :
            answer[c] # "none" =>
                \/ c \in inbox
                \/ AckOf(c) \in acks \cup handler
                \/ AckOf(c).id \in DOMAIN pg /\ pg[AckOf(c).id].ack # NoDevice

\* A step without fault or refusal carries a command on or leaves it where it is.
LEMMA FaultlessSteps ==
  ASSUME TypeOK, [Next]_vars, faults' = 0, rejects' = 0, NEW c \in Sendable
  PROVE  /\ faults = 0 /\ rejects = 0
         /\ c \in inbox => c \in inbox' \/ Execute(c)
         /\ \A a \in acks : a \in acks' \/ HandleAck(a)
         /\ \A a \in handler : handler' = handler \/ \E b \in handler : PersistAck(b)
         /\ answer'[c] = answer[c] \/ c \in inbox'
<1>1. ASSUME Fault  PROVE FALSE
  BY <1>1 DEF Fault, TypeOK
<1>2. ASSUME NEW d \in Commands, PublishCommand(d)
      PROVE  /\ inbox \subseteq inbox' /\ acks' = acks /\ handler' = handler
             /\ faults' = faults /\ rejects' = rejects
             /\ answer'[c] = answer[c] \/ c \in inbox'
  BY <1>1, <1>2 DEF PublishCommand, Publish, PublishError, RecordIssued, PersistIssued,
                    PersistIssuedFails, TypeOK, Sendable
<1>3. ASSUME NEW d \in LocalCommands, EdgePublish(d)
      PROVE  /\ inbox \subseteq inbox' /\ acks' = acks /\ handler' = handler
             /\ faults' = faults /\ rejects' = rejects
             /\ answer'[c] = answer[c] \/ c \in inbox'
  BY <1>3 DEF EdgePublish, TypeOK, Sendable
<1>4. ASSUME NEW d \in Sendable, Field(d)
      PROVE  /\ c \in inbox => c \in inbox' \/ Execute(c)
             /\ acks \subseteq acks' /\ handler' = handler
             /\ faults' = faults /\ rejects' = rejects /\ answer' = answer
  <2>1. Execute(d)
    BY <1>1, <1>4 DEF Field, RedeliverCommand, LoseCommand
  <2>2. c = d \/ (c \in inbox => c \in inbox')
    BY <2>1 DEF Execute
  <2>3. /\ acks \subseteq acks' /\ handler' = handler
        /\ faults' = faults /\ rejects' = rejects /\ answer' = answer
    BY <2>1 DEF Execute
  <2> QED  BY <2>1, <2>2, <2>3
<1>5. ASSUME NEW a \in acks, LoseAck(a)  PROVE FALSE
  BY <1>1, <1>5 DEF LoseAck
<1>6. ASSUME NEW a \in acks \cup handler, handleMessage(a)
      PROVE  /\ inbox' = inbox /\ answer' = answer
             /\ faults' = faults /\ rejects' = rejects
             /\ \A b \in acks : b \in acks' \/ HandleAck(b)
             /\ \A b \in handler : handler' = handler \/ \E d \in handler : PersistAck(d)
  <2>1. ~RejectAck(a)
    BY DEF RejectAck, TypeOK
  <2>2. CASE HandleAck(a)
    <3>1. \A b \in acks : b \in acks' \/ b = a
      BY <2>2 DEF HandleAck
    <3>2. /\ handler = {} /\ inbox' = inbox /\ answer' = answer
          /\ faults' = faults /\ rejects' = rejects
      BY <2>2 DEF HandleAck
    <3> QED  BY <2>2, <3>1, <3>2
  <2>3. CASE PersistAck(a)
    <3>1. /\ a \in handler /\ acks' = acks /\ inbox' = inbox /\ answer' = answer
          /\ faults' = faults /\ rejects' = rejects
      BY <2>3 DEF PersistAck
    <3> QED  BY <2>3, <3>1
  <2>4. ~PersistAckFails(a)
    BY <1>1 DEF PersistAckFails
  <2> QED  BY <1>6, <2>1, <2>2, <2>3, <2>4 DEF handleMessage
<1>7. ~Crash
  BY <1>1 DEF Crash
<1>8. CASE Restart \/ UNCHANGED vars
  BY <1>8 DEF Restart, vars
<1> QED  BY <1>2, <1>3, <1>4, <1>5, <1>6, <1>7, <1>8 DEF Next

LEMMA NothingDroppedStep ==
  IInv /\ RowOwner /\ OneInHand /\ NothingDropped /\ [Next]_vars => NothingDropped'
<1> SUFFICES ASSUME IInv, RowOwner, OneInHand, NothingDropped, [Next]_vars,
                    faults' = 0, rejects' = 0, NEW c \in Sendable, answer'[c] # "none"
             PROVE  \/ c \in inbox'
                    \/ AckOf(c)' \in acks' \cup handler'
                    \/ AckOf(c)'.id \in DOMAIN pg' /\ pg'[AckOf(c)'.id].ack # NoDevice
  BY DEF NothingDropped
<1>1. /\ faults = 0 /\ rejects = 0
      /\ c \in inbox => c \in inbox' \/ Execute(c)
      /\ \A a \in acks : a \in acks' \/ HandleAck(a)
      /\ \A a \in handler : handler' = handler \/ \E b \in handler : PersistAck(b)
      /\ answer'[c] = answer[c] \/ c \in inbox'
  BY FaultlessSteps DEF IInv
<1>2. CASE c \in inbox'
  BY <1>2
<1>3. CASE c \notin inbox'
  <2>1. answer'[c] = answer[c] /\ answer[c] # "none"
    BY <1>1, <1>3
  <2>2. PICK a : a = AckOf(c) /\ a = AckOf(c)'
    BY <2>1 DEF AckOf
  <2>3. \/ Execute(c)
        \/ a \in acks
        \/ a \in handler
        \/ a.id \in DOMAIN pg /\ pg[a.id].ack # NoDevice
    BY <1>1, <1>3, <2>1, <2>2 DEF NothingDropped
  <2>4. CASE Execute(c)
    BY <2>2, <2>4 DEF Execute
  <2>5. CASE a \in acks
    <3>1. HandleAck(a) => a \in handler'
      BY DEF HandleAck
    <3> QED  BY <1>1, <2>2, <2>5, <3>1
  <2>6. CASE a \in handler
    <3>1. ASSUME NEW b \in handler, PersistAck(b)
          PROVE  a.id \in DOMAIN pg' /\ pg'[a.id].ack # NoDevice
      <4>1. a = b
        BY <2>6 DEF OneInHand
      <4> QED  BY <3>1, <4>1, PersistAckSettles
    <3> QED  BY <1>1, <2>2, <2>6, <3>1
  <2>7. CASE a.id \in DOMAIN pg /\ pg[a.id].ack # NoDevice
    BY <2>2, <2>7, SettledStays
  <2> QED  BY <2>3, <2>4, <2>5, <2>6, <2>7
<1> QED  BY <1>2, <1>3

\* Without a fault or a refusal no published command gets stuck outside the reach of the
\* fair steps: it is waiting, its acknowledgement is, or PostgreSQL has the outcome.
THEOREM AnswersAreOnTheirWay == Spec => []NothingDropped
<1>1. Init => NothingDropped
  BY DEF Init, NothingDropped
<1> QED  BY <1>1, NothingDroppedStep, Invariance, MemoryInvariance, PTL DEF Spec, MInv

=============================================================================
