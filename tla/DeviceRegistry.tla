--------------------------- MODULE DeviceRegistry ---------------------------
(***************************************************************************)
(* The device registry: the devices table in PostgreSQL, the copy of it    *)
(* in the memory of the platform that everything reads, the handler of     *)
(* POST /api/v1/devices that writes first one and then the other, the      *)
(* audit log written after every request, and the start-up that loads the  *)
(* table or seeds it.                                                      *)
(*                                                                         *)
(* Requests run concurrently.  What a request registers is abstracted to   *)
(* the request itself.  PostgreSQL may commit a statement and still return *)
(* an error (the client goes away, the connection breaks).  Two requests   *)
(* never end in the same nanosecond, so audit ids are distinct.            *)
(***************************************************************************)
EXTENDS Integers, Sequences

CONSTANTS
    Devices,      \* keys (site, id) of devices
    SeedList,     \* the devices of loadOrSeedDevices, in order
    Requests,     \* requests to POST /api/v1/devices
    MaxFaults     \* bound: failed statements and crashes in one behaviour

ASSUME RegistryAssumption ==
    /\ SeedList \in Seq(Devices)
    /\ {"seed", "none"} \cap Requests = {}
    /\ MaxFaults \in Nat

VARIABLES
    proc,       \* the platform: down, loading, seeding or serving
    seedNext,   \* the next device of SeedList to write
    pg,         \* table devices
    mem,        \* Store.devices
    pc,         \* where each request stands
    dev,        \* the device a request registers
    status,     \* the status code of its answer
    auditPg,    \* table audit_logs: requests with the status recorded
    auditLost,  \* requests whose audit row failed, as the process log says
    saved,      \* history: everything ever committed to table devices
    before,     \* history: who had been answered for its device when a request was accepted
    faults

pgVars == <<pg, saved>>
reqVars == <<pc, dev, status, before>>
auditVars == <<auditPg, auditLost>>
vars == <<proc, seedNext, pg, mem, pc, dev, status, auditPg, auditLost, saved, before, faults>>

Values == Requests \cup {"seed", "none"}
Empty == [d \in Devices |-> "none"]
Fault == faults < MaxFaults /\ faults' = faults + 1

\* Mutant: ON CONFLICT updates a row of the seed and keeps an operator's.
UpsertKeeps(d, v) ==
    /\ pg' = IF pg[d] \in Requests THEN pg ELSE [pg EXCEPT ![d] = v]
    /\ saved' = saved \cup {<<d, v>>}

\* DeviceRepository.Upsert commits.
Upsert(d, v) ==
    /\ pg' = [pg EXCEPT ![d] = v]
    /\ saved' = saved \cup {<<d, v>>}

Init ==
    /\ proc = "load"
    /\ seedNext = 1
    /\ pg = Empty
    /\ mem = Empty
    /\ pc = [r \in Requests |-> "new"]
    /\ dev = [r \in Requests |-> "none"]
    /\ status = [r \in Requests |-> "none"]
    /\ auditPg = {}
    /\ auditLost = {}
    /\ saved = {}
    /\ before = [r \in Requests |-> {}]
    /\ faults = 0

-----------------------------------------------------------------------------
(* main(): loadOrSeedDevices before anything is served *)

\* List returns rows: they go to memory.
Load ==
    /\ proc = "load"
    /\ \E d \in Devices : pg[d] # "none"
    /\ mem' = pg
    /\ proc' = "serve"
    /\ UNCHANGED <<seedNext, pgVars, reqVars, auditVars, faults>>

\* List returns no row: the seed is written, one device at a time.
SeedStart ==
    /\ proc = "load"
    /\ \A d \in Devices : pg[d] = "none"
    /\ seedNext' = 1
    /\ proc' = "seed"
    /\ UNCHANGED <<pgVars, mem, reqVars, auditVars, faults>>

SeedOne ==
    /\ proc = "seed" /\ seedNext <= Len(SeedList)
    /\ Upsert(SeedList[seedNext], "seed")
    /\ seedNext' = seedNext + 1
    /\ UNCHANGED <<proc, mem, reqVars, auditVars, faults>>

\* All written: the seed goes to memory, not what the table holds.
SeedEnd ==
    /\ proc = "seed" /\ seedNext > Len(SeedList)
    /\ mem' = [d \in Devices |->
                  IF \E i \in 1 .. Len(SeedList) : SeedList[i] = d THEN "seed" ELSE mem[d]]
    /\ proc' = "serve"
    /\ UNCHANGED <<seedNext, pgVars, reqVars, auditVars, faults>>

\* List or an Upsert of the seed fails, committed or not: log.Fatalf.
StartFails ==
    /\ proc \in {"load", "seed"}
    /\ Fault
    /\ \/ UNCHANGED pgVars
       \/ /\ proc = "seed" /\ seedNext <= Len(SeedList)
          /\ Upsert(SeedList[seedNext], "seed")
    /\ proc' = "down"
    /\ UNCHANGED <<seedNext, mem, reqVars, auditVars>>

\* The process dies; the requests it was at are never answered or never audited.
Crash ==
    /\ proc # "down"
    /\ Fault
    /\ proc' = "down"
    /\ mem' = Empty
    /\ pc' = [r \in Requests |-> IF pc[r] \in {"save", "store", "audit"} THEN "cut" ELSE pc[r]]
    /\ UNCHANGED <<seedNext, pgVars, dev, status, before, auditVars>>

\* docker-compose: restart: on-failure.
Restart ==
    /\ proc = "down"
    /\ proc' = "load"
    /\ mem' = Empty
    /\ UNCHANGED <<seedNext, pgVars, reqVars, auditVars, faults>>

-----------------------------------------------------------------------------
(* upsertDevice, inside withAudit *)

\* Mutant: the answer is written and the handler goes on.
RefuseGoesOn(r) ==
    /\ proc = "serve" /\ pc[r] = "new"
    /\ \E d \in Devices :
        /\ dev' = [dev EXCEPT ![r] = d]
        /\ Upsert(d, r)
        /\ mem' = [mem EXCEPT ![d] = r]
    /\ status' = [status EXCEPT ![r] = "refused"]
    /\ pc' = [pc EXCEPT ![r] = "audit"]
    /\ UNCHANGED <<proc, seedNext, before, auditVars, faults>>

\* No control token (401), no JSON, or no id or type (400).
Refuse(r) ==
    /\ proc = "serve" /\ pc[r] = "new"
    /\ status' = [status EXCEPT ![r] = "refused"]
    /\ pc' = [pc EXCEPT ![r] = "audit"]
    /\ UNCHANGED <<proc, seedNext, pgVars, mem, dev, before, auditVars, faults>>

\* The requests that have been answered for device d.
Answered(d) == {q \in Requests : dev[q] = d /\ status[q] # "none"}

\* Mutant: the id is not required.
AcceptUnnamed(r, d) ==
    /\ proc = "serve" /\ pc[r] = "new"
    /\ dev' \in {[dev EXCEPT ![r] = d], [dev EXCEPT ![r] = "none"]}
    /\ before' = [before EXCEPT ![r] = Answered(d)]
    /\ pc' = [pc EXCEPT ![r] = "save"]
    /\ UNCHANGED <<proc, seedNext, pgVars, mem, status, auditVars, faults>>

\* The body names a device.
Accept(r, d) ==
    /\ proc = "serve" /\ pc[r] = "new"
    /\ dev' = [dev EXCEPT ![r] = d]
    /\ before' = [before EXCEPT ![r] = Answered(d)]
    /\ pc' = [pc EXCEPT ![r] = "save"]
    /\ UNCHANGED <<proc, seedNext, pgVars, mem, status, auditVars, faults>>

Save(r) ==
    /\ pc[r] = "save"
    /\ Upsert(dev[r], r)
    /\ pc' = [pc EXCEPT ![r] = "store"]
    /\ UNCHANGED <<proc, seedNext, mem, dev, status, before, auditVars, faults>>

\* Mutant: no return after the error.
SaveFailsGoesOn(r) ==
    /\ pc[r] = "save"
    /\ Fault
    /\ pc' = [pc EXCEPT ![r] = "store"]
    /\ UNCHANGED <<proc, seedNext, pgVars, mem, dev, status, before, auditVars>>

\* Upsert returns an error, committed or not: 502, and memory stays as it is.
SaveFails(r) ==
    /\ pc[r] = "save"
    /\ Fault
    /\ UNCHANGED pgVars \/ Upsert(dev[r], r)
    /\ status' = [status EXCEPT ![r] = "failed"]
    /\ pc' = [pc EXCEPT ![r] = "audit"]
    /\ UNCHANGED <<proc, seedNext, mem, dev, before, auditVars>>

\* Store.UpsertDevice, then 200.
StoreDevice(r) ==
    /\ pc[r] = "store"
    /\ mem' = [mem EXCEPT ![dev[r]] = r]
    /\ status' = [status EXCEPT ![r] = "ok"]
    /\ pc' = [pc EXCEPT ![r] = "audit"]
    /\ UNCHANGED <<proc, seedNext, pgVars, dev, before, auditVars, faults>>

\* PutAuditLog once the handler has returned.
Audit(r) ==
    /\ pc[r] = "audit"
    /\ auditPg' = auditPg \cup {<<r, status[r]>>}
    /\ pc' = [pc EXCEPT ![r] = "done"]
    /\ UNCHANGED <<proc, seedNext, pgVars, mem, dev, status, before, auditLost, faults>>

\* PutAuditLog fails, committed or not: a line in the process log.
AuditFails(r) ==
    /\ pc[r] = "audit"
    /\ Fault
    /\ auditPg' \in {auditPg, auditPg \cup {<<r, status[r]>>}}
    /\ auditLost' = auditLost \cup {r}
    /\ pc' = [pc EXCEPT ![r] = "done"]
    /\ UNCHANGED <<proc, seedNext, pgVars, mem, dev, status, before>>

upsertDevice(r) ==
    \/ Refuse(r)
    \/ \E d \in Devices : Accept(r, d)
    \/ Save(r) \/ SaveFails(r) \/ StoreDevice(r)

withAudit(r) == upsertDevice(r) \/ Audit(r) \/ AuditFails(r)

loadOrSeedDevices == Load \/ SeedStart \/ SeedOne \/ SeedEnd \/ StartFails

Next ==
    \/ loadOrSeedDevices
    \/ Crash
    \/ Restart
    \/ \E r \in Requests : withAudit(r)

Spec == Init /\ [][Next]_vars

-----------------------------------------------------------------------------
(* Correctness *)

TypeOK ==
    /\ proc \in {"down", "load", "seed", "serve"}
    /\ seedNext \in 1 .. Len(SeedList) + 1
    /\ pg \in [Devices -> Values] /\ mem \in [Devices -> Values]
    /\ pc \in [Requests -> {"new", "save", "store", "audit", "done", "cut"}]
    /\ dev \in [Requests -> Devices \cup {"none"}]
    /\ \A r \in Requests : pc[r] \in {"save", "store"} => dev[r] \in Devices /\ proc = "serve"
    /\ status \in [Requests -> {"none", "refused", "failed", "ok"}]
    /\ auditPg \subseteq Requests \X {"refused", "failed", "ok"}
    /\ auditLost \subseteq Requests
    /\ saved \subseteq Devices \X (Values \ {"none"})
    /\ before \in [Requests -> SUBSET Requests]
    /\ faults \in 0 .. MaxFaults

\* Memory never shows a device that did not reach the table, whatever fails and
\* whenever the platform restarts: upsertDevice returns before the memory write
\* when Upsert fails.
MemoryWasSaved ==
    \A d \in Devices : mem[d] # "none" => <<d, mem[d]>> \in saved

\* A registration answered with 200 is never forgotten: the table holds it or one that
\* had not been answered yet when it was accepted, and so does the memory of a platform
\* that serves, after any number of restarts.  Neither the seed, nor a conflict in the
\* table, nor a slow request, a failed one or a reload brings back what it replaced.
AcknowledgedIsKept ==
    \A r \in Requests : status[r] = "ok" =>
        /\ pg[dev[r]] \in Requests \ before[r]
        /\ proc = "serve" => mem[dev[r]] \in Requests \ before[r]

\* The audit log tells the truth about the table: a 200 was committed and a 401 or
\* 400 changed nothing; and a request that ended is in it or in the process log
\* (withAudit).
AuditTellsTruth ==
    /\ \A r \in Requests :
        /\ <<r, "ok">> \in auditPg => <<dev[r], r>> \in saved
        /\ <<r, "refused">> \in auditPg => \A d \in Devices : <<d, r>> \notin saved
    /\ \A r \in Requests : pc[r] = "done" => <<r, status[r]>> \in auditPg \/ r \in auditLost
=============================================================================
