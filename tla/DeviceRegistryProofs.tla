------------------------ MODULE DeviceRegistryProofs ------------------------
(***************************************************************************)
(* Proofs about the device registry, for any number of devices, requests   *)
(* and faults: memory only shows what was committed, a registration that   *)
(* was acknowledged is never forgotten, and the audit log tells the truth. *)
(***************************************************************************)
EXTENDS DeviceRegistry, TLAPS

\* What the table holds was committed, and where a request has committed the table
\* holds that request's device or another's that was not answered when it was accepted.
TableIsSaved ==
    /\ \A d \in Devices : pg[d] # "none" => <<d, pg[d]>> \in saved
    /\ \A d \in Devices, r \in Requests : <<d, r>> \in saved => pg[d] \in Requests \ before[r]

\* While the seed is written no request has committed, and the devices written so
\* far are committed.
SeedBeforeRequests ==
    proc = "seed" =>
        /\ \A d \in Devices, r \in Requests : <<d, r>> \notin saved
        /\ \A i \in 1 .. seedNext - 1 : <<SeedList[i], "seed">> \in saved

\* Who had been answered stays answered: a request that may still write is in no history.
BeforeWasAnswered ==
    \A r \in Requests : \A q \in before[r] : q \in Requests /\ status[q] # "none"

\* Memory is empty until the platform serves; then it shows, wherever a request was
\* answered ok, its device or another's that was not answered when it was accepted.
ServedIsKept ==
    /\ proc # "serve" => \A d \in Devices : mem[d] = "none"
    /\ proc = "serve" => \A r \in Requests : status[r] = "ok" => mem[dev[r]] \in Requests \ before[r]

\* What a request has committed, by where it stands and by its answer.
RequestCommits ==
    \A r \in Requests :
        /\ pc[r] \in {"new", "save"} => \A d \in Devices : <<d, r>> \notin saved
        /\ pc[r] = "store" => <<dev[r], r>> \in saved
        /\ pc[r] \in {"new", "save", "store"} => status[r] = "none"
        /\ pc[r] = "audit" => status[r] # "none"
        /\ status[r] = "ok" => dev[r] \in Devices /\ <<dev[r], r>> \in saved
        /\ status[r] = "refused" => \A d \in Devices : <<d, r>> \notin saved

\* What the audit log holds is the answer, and a request that ended is in it or in
\* the process log.
AuditIsAnswer ==
    /\ \A r \in Requests, s \in {"refused", "failed", "ok"} :
           <<r, s>> \in auditPg => s = status[r]
    /\ \A r \in Requests : pc[r] = "done" => <<r, status[r]>> \in auditPg \/ r \in auditLost

IInv ==
    /\ TypeOK /\ TableIsSaved /\ SeedBeforeRequests /\ ServedIsKept /\ BeforeWasAnswered
    /\ RequestCommits /\ AuditIsAnswer /\ MemoryWasSaved

LEMMA RequestsAreValues ==
  /\ \A r \in Requests : r # "seed" /\ r # "none"
  /\ Requests \subseteq Values /\ "seed" \in Values /\ "none" \in Values
  /\ \A i \in 1 .. Len(SeedList) : SeedList[i] \in Devices
  /\ Len(SeedList) \in Nat
BY RegistryAssumption DEF Values

-----------------------------------------------------------------------------
(* Types *)

LEMMA TypeInit == Init => TypeOK
BY RegistryAssumption, RequestsAreValues DEF Init, TypeOK, Empty, Values

LEMMA UpsertType ==
  ASSUME TypeOK, NEW d \in Devices, NEW v \in Values \ {"none"}, Upsert(d, v)
  PROVE  pg' \in [Devices -> Values] /\ saved' \subseteq Devices \X (Values \ {"none"})
BY DEF TypeOK, Upsert

LEMMA StartType ==
  ASSUME TypeOK, loadOrSeedDevices  PROVE TypeOK'
<1> USE RequestsAreValues DEF TypeOK, pgVars, reqVars, auditVars
<1>1. CASE Load
  BY <1>1 DEF Load
<1>2. CASE SeedStart
  BY <1>2 DEF SeedStart
<1>3. CASE SeedOne
  <2>1. SeedList[seedNext] \in Devices
    BY <1>3 DEF SeedOne
  <2>2. pg' \in [Devices -> Values] /\ saved' \subseteq Devices \X (Values \ {"none"})
    BY <1>3, <2>1, UpsertType DEF SeedOne
  <2> QED  BY <1>3, <2>2 DEF SeedOne
<1>4. CASE SeedEnd
  BY <1>4 DEF SeedEnd
<1>5. CASE StartFails
  <2>1. pg' \in [Devices -> Values] /\ saved' \subseteq Devices \X (Values \ {"none"})
    <3>1. CASE UNCHANGED pgVars
      BY <3>1
    <3>2. CASE seedNext <= Len(SeedList) /\ Upsert(SeedList[seedNext], "seed")
      <4>1. SeedList[seedNext] \in Devices
        BY <3>2
      <4> QED  BY <3>2, <4>1, UpsertType
    <3> QED  BY <1>5, <3>1, <3>2 DEF StartFails
  <2>2. faults' \in 0 .. MaxFaults
    BY <1>5, RegistryAssumption DEF StartFails, Fault
  <2>3. \A r \in Requests : pc[r] \notin {"save", "store"}
    BY <1>5 DEF StartFails
  <2> QED  BY <1>5, <2>1, <2>2, <2>3 DEF StartFails
<1> QED  BY <1>1, <1>2, <1>3, <1>4, <1>5 DEF loadOrSeedDevices

LEMMA RequestType ==
  ASSUME TypeOK, RequestCommits, NEW r \in Requests, withAudit(r)  PROVE TypeOK'
<1> USE RequestsAreValues DEF TypeOK, pgVars, reqVars, auditVars
<1>1. CASE Refuse(r)
  BY <1>1 DEF Refuse
<1>2. ASSUME NEW d \in Devices, Accept(r, d)  PROVE TypeOK'
  BY <1>2 DEF Accept, Answered
<1>3. CASE Save(r)
  <2>1. pg' \in [Devices -> Values] /\ saved' \subseteq Devices \X (Values \ {"none"})
    BY <1>3, UpsertType DEF Save
  <2> QED  BY <1>3, <2>1 DEF Save
<1>4. CASE SaveFails(r)
  <2>1. pg' \in [Devices -> Values] /\ saved' \subseteq Devices \X (Values \ {"none"})
    BY <1>4, UpsertType DEF SaveFails
  <2>2. faults' \in 0 .. MaxFaults
    BY <1>4, RegistryAssumption DEF SaveFails, Fault
  <2> QED  BY <1>4, <2>1, <2>2 DEF SaveFails
<1>5. CASE StoreDevice(r)
  BY <1>5 DEF StoreDevice
<1>6. CASE Audit(r)
  <2>1. <<r, status[r]>> \in Requests \X {"refused", "failed", "ok"}
    BY <1>6 DEF Audit, RequestCommits
  <2>2. auditPg' \subseteq Requests \X {"refused", "failed", "ok"}
    BY <1>6, <2>1, Zenon DEF Audit
  <2> QED  BY <1>6, <2>2 DEF Audit
<1>7. CASE AuditFails(r)
  <2>1. faults' \in 0 .. MaxFaults
    BY <1>7, RegistryAssumption DEF AuditFails, Fault
  <2>2. <<r, status[r]>> \in Requests \X {"refused", "failed", "ok"}
    BY <1>7 DEF AuditFails, RequestCommits
  <2>3. auditPg' \subseteq Requests \X {"refused", "failed", "ok"}
    BY <1>7, <2>2, Zenon DEF AuditFails
  <2> QED  BY <1>7, <2>1, <2>3 DEF AuditFails
<1> QED  BY <1>1, <1>2, <1>3, <1>4, <1>5, <1>6, <1>7 DEF withAudit, upsertDevice

LEMMA TypeStep == TypeOK /\ RequestCommits /\ [Next]_vars => TypeOK'
<1> SUFFICES ASSUME TypeOK, RequestCommits, [Next]_vars PROVE TypeOK'
  OBVIOUS
<1> USE DEF TypeOK, pgVars, reqVars, auditVars
<1>1. CASE Crash
  <2>1. faults' \in 0 .. MaxFaults
    BY <1>1, RegistryAssumption DEF Crash, Fault
  <2> QED  BY <1>1, <2>1, RequestsAreValues DEF Crash, Empty
<1>2. CASE Restart
  BY <1>2, RequestsAreValues DEF Restart, Empty
<1>3. CASE UNCHANGED vars
  BY <1>3 DEF vars
<1> QED  BY <1>1, <1>2, <1>3, StartType, RequestType DEF Next

-----------------------------------------------------------------------------
(* The inductive invariant *)

\* An answer is never taken back, and a history only names requests with an answer.
LEMMA BeforeStep == IInv /\ [Next]_vars => BeforeWasAnswered'
<1> SUFFICES ASSUME IInv, [Next]_vars PROVE BeforeWasAnswered'
  OBVIOUS
<1> USE DEF pgVars, reqVars, auditVars
<1>t. status \in [Requests -> {"none", "refused", "failed", "ok"}]
      /\ before \in [Requests -> SUBSET Requests] /\ BeforeWasAnswered
  BY DEF IInv, TypeOK
<1>1. CASE UNCHANGED <<before, status>>
  BY <1>1, <1>t DEF BeforeWasAnswered
<1>2. ASSUME NEW r \in Requests, NEW d \in Devices, Accept(r, d)  PROVE BeforeWasAnswered'
  BY <1>2, <1>t DEF Accept, Answered, BeforeWasAnswered
<1>3. ASSUME NEW r \in Requests, Refuse(r) \/ SaveFails(r) \/ StoreDevice(r)
      PROVE  BeforeWasAnswered'
  BY <1>3, <1>t DEF Refuse, SaveFails, StoreDevice, BeforeWasAnswered
<1>4. CASE loadOrSeedDevices \/ Crash \/ Restart \/ UNCHANGED vars
  BY <1>1, <1>4 DEF loadOrSeedDevices, Load, SeedStart, SeedOne, SeedEnd, StartFails, Crash,
                    Restart, vars
<1>5. ASSUME NEW r \in Requests, Save(r) \/ Audit(r) \/ AuditFails(r)
      PROVE  BeforeWasAnswered'
  BY <1>1, <1>5 DEF Save, Audit, AuditFails
<1> QED  BY <1>2, <1>3, <1>4, <1>5 DEF Next, withAudit, upsertDevice

\* A request that still writes is in no history.
LEMMA WriterIsNew ==
  ASSUME IInv, NEW r \in Requests, pc[r] \in {"new", "save", "store"}
  PROVE  \A q \in Requests : r \notin before[q]
BY DEF IInv, BeforeWasAnswered, RequestCommits

LEMMA InvInit == Init => IInv
<1> SUFFICES ASSUME Init PROVE IInv
  OBVIOUS
<1>1. TypeOK
  BY TypeInit
<1>2. TableIsSaved /\ SeedBeforeRequests /\ ServedIsKept /\ MemoryWasSaved
  BY DEF Init, Empty, TableIsSaved, SeedBeforeRequests, ServedIsKept, MemoryWasSaved
<1>3. RequestCommits /\ AuditIsAnswer /\ BeforeWasAnswered
  BY DEF Init, RequestCommits, AuditIsAnswer, BeforeWasAnswered
<1> QED  BY <1>1, <1>2, <1>3 DEF IInv

LEMMA StartInv ==
  ASSUME IInv, loadOrSeedDevices  PROVE IInv'
<1> USE RequestsAreValues DEF IInv, pgVars, reqVars, auditVars
<1>0. TypeOK'
  BY StartType
<1>t. TypeOK
  OBVIOUS
<1>b. BeforeWasAnswered'
  BY BeforeStep DEF Next
<1>w. \A r \in Requests : pc[r] \notin {"save", "store"}
  BY <1>t DEF TypeOK, loadOrSeedDevices, Load, SeedStart, SeedOne, SeedEnd, StartFails
<1>a. AuditIsAnswer'
  BY DEF AuditIsAnswer, loadOrSeedDevices, Load, SeedStart, SeedOne, SeedEnd, StartFails
<1>1. CASE Load
  <2>1. TableIsSaved' /\ SeedBeforeRequests' /\ RequestCommits'
    BY <1>1 DEF Load, TableIsSaved, SeedBeforeRequests, RequestCommits
  <2>2. ServedIsKept' /\ MemoryWasSaved'
    BY <1>1, <1>t DEF Load, TableIsSaved, ServedIsKept, MemoryWasSaved, RequestCommits
  <2> QED  BY <1>0, <1>a, <1>b, <2>1, <2>2
<1>2. CASE SeedStart
  <2>1. TableIsSaved' /\ ServedIsKept' /\ MemoryWasSaved' /\ RequestCommits'
    BY <1>2 DEF SeedStart, TableIsSaved, ServedIsKept, MemoryWasSaved, RequestCommits
  <2>2. SeedBeforeRequests'
    BY <1>2 DEF SeedStart, TableIsSaved, SeedBeforeRequests
  <2> QED  BY <1>0, <1>a, <1>b, <2>1, <2>2
<1>3. ASSUME proc = "seed", seedNext <= Len(SeedList), Upsert(SeedList[seedNext], "seed"),
             UNCHANGED <<mem, reqVars>>, proc' \in {"seed", "down"},
             proc' = "seed" => seedNext' = seedNext + 1
      PROVE  IInv'
  <2>1. SeedList[seedNext] \in Devices
    BY <1>3, <1>t DEF TypeOK
  <2>2. TableIsSaved'
    BY <1>3, <1>t, <2>1 DEF Upsert, TableIsSaved, SeedBeforeRequests, TypeOK
  <2>3. SeedBeforeRequests'
    BY <1>3, <1>t, <2>1 DEF Upsert, SeedBeforeRequests, TypeOK
  <2>4. ServedIsKept' /\ MemoryWasSaved'
    BY <1>3 DEF Upsert, ServedIsKept, MemoryWasSaved
  <2>5. RequestCommits'
    BY <1>3, <2>1 DEF Upsert, RequestCommits
  <2> QED  BY <1>0, <1>a, <1>b, <2>2, <2>3, <2>4, <2>5
<1>4. CASE SeedOne
  BY <1>3, <1>4 DEF SeedOne
<1>5. CASE SeedEnd
  <2>1. TableIsSaved' /\ SeedBeforeRequests' /\ RequestCommits'
    BY <1>5 DEF SeedEnd, TableIsSaved, SeedBeforeRequests, RequestCommits
  <2>2. MemoryWasSaved'
    BY <1>5, <1>t DEF SeedEnd, MemoryWasSaved, SeedBeforeRequests, TypeOK
  <2>3. ServedIsKept'
    BY <1>5 DEF SeedEnd, ServedIsKept, SeedBeforeRequests, RequestCommits
  <2> QED  BY <1>0, <1>a, <1>b, <2>1, <2>2, <2>3
<1>6. CASE StartFails
  <2>1. CASE UNCHANGED pgVars
    BY <1>0, <1>a, <1>b, <1>6, <2>1
    DEF StartFails, TableIsSaved, SeedBeforeRequests, ServedIsKept, MemoryWasSaved,
        RequestCommits
  <2>2. CASE proc = "seed" /\ seedNext <= Len(SeedList) /\ Upsert(SeedList[seedNext], "seed")
    BY <1>3, <1>6, <2>2 DEF StartFails
  <2> QED  BY <1>6, <2>1, <2>2 DEF StartFails
<1> QED  BY <1>1, <1>2, <1>4, <1>5, <1>6 DEF loadOrSeedDevices

\* A request commits: its own device in the table.
LEMMA UpsertInv ==
  ASSUME IInv, NEW r \in Requests, pc[r] = "save", Upsert(dev[r], r),
         proc' = proc, UNCHANGED <<seedNext, mem, dev, before>>
  PROVE  TableIsSaved' /\ SeedBeforeRequests' /\ MemoryWasSaved'
<1> USE RequestsAreValues DEF IInv
<1>1. dev[r] \in Devices /\ proc = "serve" /\ pg \in [Devices -> Values]
  BY DEF TypeOK
<1>2. \A q \in Requests : r \notin before[q]
  BY WriterIsNew
<1>3. TableIsSaved'
  BY <1>1, <1>2 DEF Upsert, TableIsSaved
<1> QED  BY <1>1, <1>3 DEF Upsert, SeedBeforeRequests, MemoryWasSaved

LEMMA RequestInv ==
  ASSUME IInv, NEW r \in Requests, withAudit(r)  PROVE IInv'
<1> USE RequestsAreValues DEF IInv, pgVars, reqVars, auditVars
<1>0. TypeOK'
  BY RequestType
<1>b. BeforeWasAnswered'
  BY BeforeStep DEF Next
<1>t. /\ pc \in [Requests -> {"new", "save", "store", "audit", "done", "cut"}]
      /\ dev \in [Requests -> Devices \cup {"none"}]
      /\ status \in [Requests -> {"none", "refused", "failed", "ok"}]
      /\ mem \in [Devices -> Values]
      /\ before \in [Requests -> SUBSET Requests]
      /\ auditPg \subseteq Requests \X {"refused", "failed", "ok"}
      /\ \A q \in Requests : pc[q] \in {"save", "store"} => dev[q] \in Devices /\ proc = "serve"
  BY DEF TypeOK
<1>1. CASE Refuse(r)
  <2>1. TableIsSaved' /\ SeedBeforeRequests' /\ MemoryWasSaved'
    BY <1>1 DEF Refuse, TableIsSaved, SeedBeforeRequests, MemoryWasSaved
  <2>2. ServedIsKept' /\ RequestCommits'
    BY <1>1, <1>t DEF Refuse, ServedIsKept, RequestCommits
  <2>3. AuditIsAnswer'
    BY <1>1, <1>t DEF Refuse, AuditIsAnswer, RequestCommits
  <2> QED  BY <1>0, <1>b, <2>1, <2>2, <2>3
<1>2. ASSUME NEW d \in Devices, Accept(r, d)  PROVE IInv'
  <2>n. \A e \in Devices : <<e, r>> \notin saved
    BY <1>2 DEF Accept, RequestCommits
  <2>u. \A q \in Requests : q # r => before'[q] = before[q]
    BY <1>2, <1>t DEF Accept
  <2>0. TableIsSaved'
    BY <1>2, <2>n, <2>u DEF Accept, TableIsSaved
  <2>1. TableIsSaved' /\ SeedBeforeRequests' /\ MemoryWasSaved'
    BY <1>2, <2>0 DEF Accept, SeedBeforeRequests, MemoryWasSaved
  <2>2. ServedIsKept' /\ RequestCommits'
    BY <1>2, <1>t DEF Accept, ServedIsKept, RequestCommits
  <2>3. AuditIsAnswer'
    BY <1>2, <1>t DEF Accept, AuditIsAnswer
  <2> QED  BY <1>0, <1>b, <2>1, <2>2, <2>3
<1>3. CASE Save(r)
  <2>1. TableIsSaved' /\ SeedBeforeRequests' /\ MemoryWasSaved'
    BY <1>3, UpsertInv DEF Save
  <2>2. ServedIsKept' /\ RequestCommits'
    BY <1>3, <1>t DEF Save, Upsert, ServedIsKept, RequestCommits
  <2>3. AuditIsAnswer'
    BY <1>3, <1>t DEF Save, AuditIsAnswer
  <2> QED  BY <1>0, <1>b, <2>1, <2>2, <2>3
<1>4. CASE SaveFails(r)
  <2>1. TableIsSaved' /\ SeedBeforeRequests' /\ MemoryWasSaved'
    <3>1. CASE UNCHANGED pgVars
      BY <1>4, <3>1 DEF SaveFails, TableIsSaved, SeedBeforeRequests, MemoryWasSaved
    <3>2. CASE Upsert(dev[r], r)
      BY <1>4, <3>2, UpsertInv DEF SaveFails
    <3> QED  BY <1>4, <3>1, <3>2 DEF SaveFails
  <2>2. ServedIsKept'
    BY <1>4, <1>t DEF SaveFails, ServedIsKept
  <2>3. RequestCommits'
    BY <1>4, <1>t DEF SaveFails, Upsert, RequestCommits
  <2>4. AuditIsAnswer'
    BY <1>4, <1>t DEF SaveFails, AuditIsAnswer, RequestCommits
  <2> QED  BY <1>0, <1>b, <2>1, <2>2, <2>3, <2>4
<1>5. CASE StoreDevice(r)
  <2>1. TableIsSaved' /\ SeedBeforeRequests'
    BY <1>5 DEF StoreDevice, TableIsSaved, SeedBeforeRequests
  <2>2. MemoryWasSaved'
    BY <1>5, <1>t DEF StoreDevice, MemoryWasSaved, RequestCommits
  <2>n. \A q \in Requests : r \notin before[q]
    BY <1>5, WriterIsNew DEF StoreDevice
  <2>3. ServedIsKept' /\ RequestCommits'
    BY <1>5, <1>t, <2>n DEF StoreDevice, ServedIsKept, RequestCommits
  <2>4. AuditIsAnswer'
    BY <1>5, <1>t DEF StoreDevice, AuditIsAnswer, RequestCommits
  <2> QED  BY <1>0, <1>b, <2>1, <2>2, <2>3, <2>4
<1>6. CASE Audit(r) \/ AuditFails(r)
  <2>1. TableIsSaved' /\ SeedBeforeRequests' /\ MemoryWasSaved'
    BY <1>6 DEF Audit, AuditFails, TableIsSaved, SeedBeforeRequests, MemoryWasSaved
  <2>2. ServedIsKept' /\ RequestCommits'
    BY <1>6, <1>t DEF Audit, AuditFails, ServedIsKept, RequestCommits
  <2>3. AuditIsAnswer'
    BY <1>6, <1>t DEF Audit, AuditFails, AuditIsAnswer
  <2> QED  BY <1>0, <1>b, <2>1, <2>2, <2>3
<1> QED  BY <1>1, <1>2, <1>3, <1>4, <1>5, <1>6 DEF withAudit, upsertDevice

LEMMA InvStep == IInv /\ [Next]_vars => IInv'
<1> SUFFICES ASSUME IInv, [Next]_vars PROVE IInv'
  OBVIOUS
<1> USE DEF IInv, pgVars, reqVars, auditVars
<1>0. TypeOK' /\ BeforeWasAnswered'
  BY TypeStep, BeforeStep
<1>1. CASE Crash
  <2>1. TableIsSaved' /\ SeedBeforeRequests' /\ ServedIsKept' /\ MemoryWasSaved'
    BY <1>1 DEF Crash, Empty, TableIsSaved, SeedBeforeRequests, ServedIsKept, MemoryWasSaved
  <2>2. RequestCommits' /\ AuditIsAnswer'
    BY <1>1 DEF Crash, RequestCommits, AuditIsAnswer, TypeOK
  <2> QED  BY <1>0, <2>1, <2>2
<1>2. CASE Restart
  BY <1>0, <1>2 DEF Restart, Empty, TableIsSaved, SeedBeforeRequests, ServedIsKept,
                    MemoryWasSaved, RequestCommits, AuditIsAnswer
<1>3. CASE UNCHANGED vars
  BY <1>0, <1>3 DEF vars, TableIsSaved, SeedBeforeRequests, ServedIsKept,
                    MemoryWasSaved, RequestCommits, AuditIsAnswer
<1> QED  BY <1>1, <1>2, <1>3, StartInv, RequestInv DEF Next

LEMMA Inductive == Spec => []IInv
BY InvInit, InvStep, PTL DEF Spec

-----------------------------------------------------------------------------
\* Every variable keeps its type, and only a serving platform handles requests.
THEOREM TypeCorrect == Spec => []TypeOK
<1>1. IInv => TypeOK
  BY DEF IInv
<1> QED  BY <1>1, Inductive, PTL

\* Memory never shows a device that did not reach the table (upsertDevice).
THEOREM MemoryOnlyShowsSaved == Spec => []MemoryWasSaved
<1>1. IInv => MemoryWasSaved
  BY DEF IInv
<1> QED  BY <1>1, Inductive, PTL

\* A registration answered with 200 survives restarts, start-up failures and the
\* seed (upsertDevice, loadOrSeedDevices).
THEOREM AcknowledgedRegistrationsStay == Spec => []AcknowledgedIsKept
<1>1. IInv => AcknowledgedIsKept
  BY DEF IInv, AcknowledgedIsKept, ServedIsKept, RequestCommits, TableIsSaved
<1> QED  BY <1>1, Inductive, PTL

\* The audit log agrees with the table (withAudit).
THEOREM AuditIsTruthful == Spec => []AuditTellsTruth
<1>1. IInv => AuditTellsTruth
  BY DEF IInv, AuditTellsTruth, AuditIsAnswer, RequestCommits
<1> QED  BY <1>1, Inductive, PTL
=============================================================================
