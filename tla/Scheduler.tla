----------------------------- MODULE Scheduler -----------------------------
(***************************************************************************)
(* The real-time scheduler (internal/scheduler): one goroutine runs Tick;  *)
(* HTTP handlers set the policy and register devices, and the MQTT handler *)
(* stores telemetry, between any two of its steps.  A tick reads the       *)
(* policy, the site summary, the devices and the telemetry under four      *)
(* separate locks and then publishes commands one after the other, each of *)
(* which may block on the broker.                                          *)
(*                                                                         *)
(* Time is relative: age[k] is the time since lastSent[k], and Cooldown    *)
(* stands for "expired or absent", which publish does not tell apart.      *)
(***************************************************************************)
EXTENDS Rules

CONSTANTS
    Batteries,
    Loads,
    Full,        \* the state of charge 1.0, in steps
    Nets,        \* values of NetPowerW
    Policies,    \* records [min, max, shed]
    Configured,  \* the policy main builds from the environment
    Cooldown,    \* 30 s, in steps of the clock
    MaxFaults    \* bound: failed publications and restarts in one behaviour

ASSUME CooldownAssumption == Cooldown \in Nat \ {0}

ASSUME DataAssumption ==
    /\ Nets \subseteq Int /\ 0 \in Nets
    /\ Full \in Nat
    /\ Policies \subseteq [min : Int, max : Int, shed : Int]
    /\ Configured \in Policies
    /\ MaxFaults \in Nat

ASSUME DevicesAssumption == Batteries \cap Loads = {}

Socs == 0 .. Full

\* commandKey: a device, and the action with its parameters.
Keys == (Batteries \X {"charging", "discharging"}) \cup (Loads \X {"off"})

NoKey == <<>>

VARIABLES
    policy,      \* Scheduler.policy
    net,         \* NetPowerW as Summary computes it now
    soc,         \* the last reported soc, 0 if there is none
    critical,    \* CriticalLoad of each registered load
    pc,          \* where Tick stands
    tick,        \* what Tick has read
    todo,        \* batteries the loop has still to visit
    dispatched,  \* Tick's local variable
    job,         \* the key being published
    age,         \* time since lastSent, up to Cooldown
    faults,
    told,        \* history: batteries this tick has told to discharge
    seen,        \* history: loads that were non-critical during this tick
    issuedAge    \* history: time since IssuedAt of the last command published

storeVars == <<policy, net, soc, critical>>
tickVars == <<pc, tick, todo, dispatched, job, told>>
vars == <<policy, net, soc, critical, pc, tick, todo, dispatched, job, age, faults,
          told, seen, issuedAge>>

NonCritical == {l \in Loads : ~critical[l]}

\* scheduler.ValidatePolicy, with SOC limits in steps.
ValidatePolicy(p) ==
    /\ p.min \in Socs /\ p.max \in Socs
    /\ p.min <= p.max
    /\ p.shed >= 0

Fault == faults < MaxFaults /\ faults' = faults + 1

-----------------------------------------------------------------------------
Init ==
    /\ policy = Configured
    /\ net = 0
    /\ soc = [b \in Batteries |-> 0]
    /\ critical \in [Loads -> BOOLEAN]
    /\ pc = "idle"
    /\ tick = [policy |-> Configured, net |-> 0, loads |-> {}, soc |-> soc]
    /\ todo = {}
    /\ dispatched = FALSE
    /\ job = NoKey
    /\ age = [k \in Keys |-> Cooldown]
    /\ faults = 0
    /\ told = {}
    /\ seen = {}
    /\ issuedAge = [k \in Keys |-> Cooldown]

-----------------------------------------------------------------------------
(* What goes on around a tick *)

\* PUT policy: validated, then swapped under the lock.
SetPolicy(p) ==
    /\ ValidatePolicy(p)
    /\ policy' = p
    /\ UNCHANGED <<net, soc, critical, tickVars, age, faults, seen, issuedAge>>

\* A telemetry message moves the summary, and a battery's soc if it is a battery's.
PutTelemetry(n) ==
    /\ net' = n
    /\ \/ UNCHANGED soc
       \/ \E b \in Batteries, s \in Socs : soc' = [soc EXCEPT ![b] = s]
    /\ UNCHANGED <<policy, critical, tickVars, age, faults, seen, issuedAge>>

\* POST device: a load is registered anew as critical or not.
UpsertDevice(l, c) ==
    /\ critical' = [critical EXCEPT ![l] = c]
    /\ seen' = IF c THEN seen ELSE seen \cup {l}
    /\ UNCHANGED <<policy, net, soc, tickVars, age, faults, issuedAge>>

Older(f) == [k \in Keys |-> IF f[k] < Cooldown THEN f[k] + 1 ELSE Cooldown]

\* Time passes.
Clock ==
    /\ age' = Older(age)
    /\ issuedAge' = Older(issuedAge)
    /\ UNCHANGED <<storeVars, tickVars, faults, seen>>

\* The process starts again: the policy is the configured one, lastSent is empty,
\* telemetry comes back from Redis or not at all, devices from PostgreSQL.
Restart ==
    /\ Fault
    /\ policy' = Configured
    /\ \/ UNCHANGED <<net, soc>>
       \/ net' = 0 /\ soc' = [b \in Batteries |-> 0]
    /\ pc' = "idle"
    /\ todo' = {}
    /\ dispatched' = FALSE
    /\ job' = NoKey
    /\ age' = [k \in Keys |-> Cooldown]
    /\ told' = {}
    /\ issuedAge' = [k \in Keys |-> Cooldown]
    /\ UNCHANGED <<critical, tick, seen>>

-----------------------------------------------------------------------------
(* Tick: the four reads *)

ReadPolicy ==
    /\ pc = "idle"
    /\ pc' = "summary"
    /\ tick' = [tick EXCEPT !.policy = policy]
    /\ seen' = NonCritical
    /\ told' = {}
    /\ UNCHANGED <<storeVars, todo, dispatched, job, age, faults, issuedAge>>

ReadSummary ==
    /\ pc = "summary"
    /\ pc' = "devices"
    /\ tick' = [tick EXCEPT !.net = net]
    /\ UNCHANGED <<storeVars, todo, dispatched, job, age, faults, told, seen, issuedAge>>

\* Mutant: CriticalLoad is not looked at.
ReadDevicesUnfiltered ==
    /\ pc = "devices"
    /\ pc' = "telemetry"
    /\ tick' = [tick EXCEPT !.loads = Loads]
    /\ UNCHANGED <<storeVars, todo, dispatched, job, age, faults, told, seen, issuedAge>>

\* The batteries and the non-critical loads of the site.
ReadDevices ==
    /\ pc = "devices"
    /\ pc' = "telemetry"
    /\ tick' = [tick EXCEPT !.loads = NonCritical]
    /\ UNCHANGED <<storeVars, todo, dispatched, job, age, faults, told, seen, issuedAge>>

\* Where Tick goes on, by the net power it has read.
Branch(n) == IF Surplus(n) THEN "charge" ELSE IF Deficit(n) THEN "discharge" ELSE "shed"

ReadTelemetry ==
    /\ pc = "telemetry"
    /\ tick' = [tick EXCEPT !.soc = soc]
    /\ pc' = Branch(tick.net)
    /\ todo' = Batteries
    /\ dispatched' = FALSE
    /\ UNCHANGED <<storeVars, job, age, faults, told, seen, issuedAge>>

-----------------------------------------------------------------------------
(* publish *)

CoolingDown(k) == age[k] < Cooldown

\* Mutant: no cooldown check.
ClaimUnlimited(k) ==
    /\ age' = [age EXCEPT ![k] = 0]
    /\ job' = k
    /\ pc' = "publishing"
    /\ UNCHANGED <<storeVars, tick, dispatched, faults, told, seen, issuedAge>>

\* publish up to the call of PublishCommand: lastSent[key] = now.
Claim(k) ==
    /\ ~CoolingDown(k)
    /\ age' = [age EXCEPT ![k] = 0]
    /\ job' = k
    /\ pc' = "publishing"
    /\ UNCHANGED <<storeVars, tick, dispatched, faults, told, seen, issuedAge>>

\* The statement after publish returned.
Resume(k) == CASE k[2] = "charging" -> "charge"
               [] k[2] = "discharging" -> "discharge"
               [] k[2] = "off" -> "idle"

\* Mutant: the result of publish is dropped.
DispatchedForgotten(k) == dispatched

\* What the loop over the batteries makes of a successful publish.
Dispatched(k) == dispatched \/ k[2] = "discharging"

\* PublishCommand returned nil.
PublishOk ==
    /\ pc = "publishing"
    /\ pc' = Resume(job)
    /\ dispatched' = Dispatched(job)
    /\ told' = IF job[2] = "discharging" THEN told \cup {job[1]} ELSE told
    /\ issuedAge' = [issuedAge EXCEPT ![job] = age[job]]
    /\ job' = NoKey
    /\ UNCHANGED <<storeVars, tick, todo, age, faults, seen>>

\* Mutant: lastSent keeps the entry of a command that was never published.
PublishFailsKeepsEntry ==
    /\ pc = "publishing"
    /\ Fault
    /\ pc' = Resume(job)
    /\ job' = NoKey
    /\ UNCHANGED <<storeVars, tick, todo, dispatched, age, told, seen, issuedAge>>

\* Mutant: the tick goes on without having given the failed command up.
PublishFailsKeepsJob ==
    /\ pc = "publishing"
    /\ Fault
    /\ pc' = Resume(job)
    /\ age' = [age EXCEPT ![job] = Cooldown]
    /\ UNCHANGED <<storeVars, tick, todo, dispatched, job, told, seen, issuedAge>>

\* PublishCommand failed: delete(lastSent, key).  Only this goroutine writes
\* lastSent, so the entry is still the one it made.
PublishFails ==
    /\ pc = "publishing"
    /\ Fault
    /\ pc' = Resume(job)
    /\ age' = [age EXCEPT ![job] = Cooldown]
    /\ job' = NoKey
    /\ UNCHANGED <<storeVars, tick, todo, dispatched, told, seen, issuedAge>>

-----------------------------------------------------------------------------
(* Tick: the decisions *)

CanCharge(b) == HasRoom(tick.soc[b], tick.policy)
CanDischarge(b) == HasCharge(tick.soc[b], tick.policy)

\* One round of the loop that charges.
Charge(b) ==
    /\ pc = "charge" /\ b \in todo
    /\ todo' = todo \ {b}
    /\ CanCharge(b)
    /\ Claim(<<b, "charging">>)

\* One round of the loop that discharges.
Discharge(b) ==
    /\ pc = "discharge" /\ b \in todo
    /\ todo' = todo \ {b}
    /\ CanDischarge(b)
    /\ Claim(<<b, "discharging">>)

\* Mutant: a charging attempt that the cooldown suppresses starts it anew.
SkipRefreshes(b) ==
    /\ b \in todo
    /\ \/ pc = "charge" /\ (CanCharge(b) => CoolingDown(<<b, "charging">>))
       \/ pc = "discharge" /\ (CanDischarge(b) => CoolingDown(<<b, "discharging">>))
    /\ todo' = todo \ {b}
    /\ age' = IF pc = "charge" /\ CanCharge(b) THEN [age EXCEPT ![<<b, "charging">>] = 0]
                                               ELSE age
    /\ UNCHANGED <<storeVars, pc, tick, dispatched, job, faults, told, seen, issuedAge>>

\* A round that publishes nothing: SOC out of range, or still cooling down.
Skip(b) ==
    /\ b \in todo
    /\ \/ pc = "charge" /\ (CanCharge(b) => CoolingDown(<<b, "charging">>))
       \/ pc = "discharge" /\ (CanDischarge(b) => CoolingDown(<<b, "discharging">>))
    /\ todo' = todo \ {b}
    /\ UNCHANGED <<storeVars, pc, tick, dispatched, job, age, faults, told, seen,
                   issuedAge>>

\* The loop is over: return, or fall through to load shedding.
LoopEnd ==
    /\ pc \in {"charge", "discharge"} /\ todo = {}
    /\ pc' = IF pc = "discharge" /\ ~dispatched THEN "shed" ELSE "idle"
    /\ UNCHANGED <<storeVars, tick, todo, dispatched, job, age, faults, told, seen,
                   issuedAge>>

MustShed == Overload(tick.net, tick.policy) /\ tick.loads # {}

\* The first non-critical load the map iteration yields is switched off.
Shed(l) ==
    /\ pc = "shed" /\ MustShed
    /\ l \in tick.loads
    /\ todo' = todo
    /\ Claim(<<l, "off">>)

\* Nothing to shed, or that load is cooling down.
NoShed ==
    /\ pc = "shed"
    /\ MustShed => \E l \in tick.loads : CoolingDown(<<l, "off">>)
    /\ pc' = "idle"
    /\ UNCHANGED <<storeVars, tick, todo, dispatched, job, age, faults, told, seen,
                   issuedAge>>

-----------------------------------------------------------------------------
Tick ==
    \/ ReadPolicy \/ ReadSummary \/ ReadDevices \/ ReadTelemetry
    \/ \E b \in Batteries : Charge(b) \/ Discharge(b) \/ Skip(b)
    \/ LoopEnd
    \/ \E l \in Loads : Shed(l)
    \/ NoShed
    \/ PublishOk \/ PublishFails

Environment ==
    \/ \E p \in Policies : SetPolicy(p)
    \/ \E n \in Nets : PutTelemetry(n)
    \/ \E l \in Loads, c \in BOOLEAN : UpsertDevice(l, c)
    \/ Clock
    \/ Restart

Next == Tick \/ Environment

\* The ticker keeps firing, the goroutine keeps running, every publication ends,
\* and time passes.
Fairness == WF_vars(Tick) /\ WF_vars(Clock)

Spec == Init /\ [][Next]_vars

FairSpec == Spec /\ Fairness

-----------------------------------------------------------------------------
(* Correctness *)

Snapshot == [policy : Policies, net : Nets, loads : SUBSET Loads,
             soc : [Batteries -> Socs]]

TypeOK ==
    /\ policy \in Policies
    /\ net \in Nets
    /\ soc \in [Batteries -> Socs]
    /\ critical \in [Loads -> BOOLEAN]
    /\ pc \in {"idle", "summary", "devices", "telemetry", "charge", "discharge",
               "shed", "publishing"}
    /\ tick \in Snapshot
    /\ todo \subseteq Batteries
    /\ dispatched \in BOOLEAN
    /\ job \in Keys \cup {NoKey}
    /\ (pc = "publishing") = (job \in Keys)
    /\ age \in [Keys -> 0 .. Cooldown]
    /\ faults \in 0 .. MaxFaults
    /\ told \subseteq Batteries
    /\ seen \subseteq Loads
    /\ issuedAge \in [Keys -> 0 .. Cooldown]

\* Two commands with the same device, action and parameters carry IssuedAt times
\* at least a cooldown apart, however publications fail in between.
RateLimit ==
    [][(pc # "publishing" /\ pc' = "publishing") => issuedAge[job'] = Cooldown]_vars

\* A load that is switched off was registered as non-critical at some moment of
\* the tick that decided it, however registrations race with the tick.
ShedWasNonCritical ==
    (pc = "publishing" /\ job[2] = "off") => job[1] \in seen

\* No tick switches a load off after it has told a battery to discharge.
NoShedAfterDispatch ==
    (pc = "publishing" /\ job[2] = "off") => told = {}

\* lastSent is exactly the record of what was published: except for the command
\* in hand, a key cools down as long as its last published command is young, and
\* a failed publication leaves no cooldown behind.
CooldownIsEarned ==
    \A k \in Keys : job # k => age[k] = issuedAge[k]

\* While there is a surplus and a battery has room whatever policy is set, the
\* battery is told to charge again and again: no suppressed attempt, failed
\* publication or restart postpones the next command for ever.
SurplusIsCharged ==
    \A b \in Batteries :
        <>[](net < -Deadband /\ \A p \in Policies : soc[b] < p.max) =>
            []<>(pc = "publishing" /\ job = <<b, "charging">>)
=============================================================================
