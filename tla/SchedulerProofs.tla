-------------------------- MODULE SchedulerProofs --------------------------
(***************************************************************************)
(* Proofs about Scheduler, for any devices, policies, powers, cooldown and *)
(* number of faults.                                                       *)
(***************************************************************************)
EXTENDS Scheduler, TLAPS

\* The key of a battery or a load is a key, and NoKey is none.
LEMMA KeyFacts ==
  /\ \A b \in Batteries : <<b, "charging">> \in Keys /\ <<b, "discharging">> \in Keys
  /\ \A l \in Loads : <<l, "off">> \in Keys
  /\ NoKey \notin Keys
  /\ \A k \in Keys : k[2] \in {"charging", "discharging", "off"}
  /\ \A k \in Keys : k[2] = "discharging" => k[1] \in Batteries
BY DEF Keys, NoKey

\* Time keeps ages in their range.
LEMMA OlderType ==
  ASSUME NEW f \in [Keys -> 0 .. Cooldown]
  PROVE  Older(f) \in [Keys -> 0 .. Cooldown]
BY CooldownAssumption DEF Older

\* After a publication the tick stands at one of three places.
LEMMA ResumeType ==
  ASSUME NEW k \in Keys
  PROVE  Resume(k) \in {"charge", "discharge", "idle"}
BY KeyFacts DEF Resume

-----------------------------------------------------------------------------
(* Type correctness *)

LEMMA TypeInit == Init => TypeOK
<1> SUFFICES ASSUME Init PROVE TypeOK
  OBVIOUS
<1>1. age \in [Keys -> 0 .. Cooldown] /\ issuedAge \in [Keys -> 0 .. Cooldown]
  BY CooldownAssumption DEF Init
<1>2. soc \in [Batteries -> Socs] /\ tick \in Snapshot
  BY DataAssumption DEF Init, Snapshot, Socs
<1>3. (pc = "publishing") = (job \in Keys) /\ job \in Keys \cup {NoKey}
  BY KeyFacts DEF Init
<1>4. dispatched \in BOOLEAN /\ critical \in [Loads -> BOOLEAN]
  BY Zenon DEF Init
<1> QED  BY <1>1, <1>2, <1>3, <1>4, DataAssumption DEF Init, TypeOK

\* Setting lastSent and starting to publish.
LEMMA ClaimType ==
  ASSUME TypeOK, NEW k \in Keys, Claim(k), todo' \subseteq Batteries
  PROVE  TypeOK'
<1>1. age' \in [Keys -> 0 .. Cooldown]
  BY CooldownAssumption DEF Claim, TypeOK
<1>2. job' \in Keys /\ pc' = "publishing"
  BY DEF Claim
<1>3. UNCHANGED <<policy, net, soc, critical, tick, dispatched, faults, told, seen, issuedAge>>
  BY DEF Claim, storeVars
<1> QED  BY <1>1, <1>2, <1>3 DEF TypeOK

LEMMA TypeStep == TypeOK /\ [Next]_vars => TypeOK'
<1> SUFFICES ASSUME TypeOK, [Next]_vars PROVE TypeOK'
  OBVIOUS
<1> USE CooldownAssumption, DataAssumption
<1>1. ASSUME NEW p \in Policies, SetPolicy(p)  PROVE TypeOK'
  BY <1>1 DEF SetPolicy, TypeOK, tickVars
<1>2. ASSUME NEW n \in Nets, PutTelemetry(n)  PROVE TypeOK'
  <2>1. soc' \in [Batteries -> Socs]
    BY <1>2 DEF PutTelemetry, TypeOK
  <2> QED  BY <1>2, <2>1 DEF PutTelemetry, TypeOK, tickVars
<1>3. ASSUME NEW l \in Loads, NEW c \in BOOLEAN, UpsertDevice(l, c)  PROVE TypeOK'
  <2>1. critical' \in [Loads -> BOOLEAN] /\ seen' \subseteq Loads
    BY <1>3 DEF UpsertDevice, TypeOK
  <2> QED  BY <1>3, <2>1 DEF UpsertDevice, TypeOK, tickVars
<1>4. CASE Clock
  BY <1>4, OlderType DEF Clock, TypeOK, storeVars, tickVars
<1>5. CASE Restart
  <2>1. soc' \in [Batteries -> Socs] /\ net' \in Nets
    BY <1>5 DEF Restart, TypeOK, Socs
  <2>2. age' \in [Keys -> 0 .. Cooldown] /\ issuedAge' \in [Keys -> 0 .. Cooldown]
    BY <1>5 DEF Restart
  <2>3. dispatched' \in BOOLEAN
    BY <1>5, Zenon DEF Restart
  <2>4. job' \in Keys \cup {NoKey} /\ (pc' = "publishing") = (job' \in Keys) /\ pc' = "idle"
    BY <1>5, KeyFacts DEF Restart
  <2>5. /\ policy' \in Policies /\ todo' \subseteq Batteries /\ told' \subseteq Batteries
        /\ faults' \in 0 .. MaxFaults /\ UNCHANGED <<critical, tick, seen>>
    BY <1>5 DEF Restart, Fault, TypeOK
  <2> QED  BY <2>1, <2>2, <2>3, <2>4, <2>5 DEF TypeOK
<1>6. CASE ReadPolicy
  <2>1. tick' \in Snapshot
    BY <1>6 DEF ReadPolicy, TypeOK, Snapshot
  <2> QED  BY <1>6, <2>1 DEF ReadPolicy, NonCritical, TypeOK, storeVars
<1>7. CASE ReadSummary
  <2>1. tick' \in Snapshot
    BY <1>7 DEF ReadSummary, TypeOK, Snapshot
  <2> QED  BY <1>7, <2>1 DEF ReadSummary, TypeOK, storeVars
<1>8. CASE ReadDevices
  <2>1. tick' \in Snapshot
    BY <1>8 DEF ReadDevices, NonCritical, TypeOK, Snapshot
  <2> QED  BY <1>8, <2>1 DEF ReadDevices, TypeOK, storeVars
<1>9. CASE ReadTelemetry
  <2>1. tick' \in Snapshot
    BY <1>9 DEF ReadTelemetry, TypeOK, Snapshot
  <2>2. dispatched' \in BOOLEAN
    BY <1>9, Zenon DEF ReadTelemetry
  <2> QED  BY <1>9, <2>1, <2>2 DEF ReadTelemetry, Branch, TypeOK, storeVars
<1>10. ASSUME NEW b \in Batteries, Charge(b) \/ Discharge(b)  PROVE TypeOK'
  <2>1. todo' \subseteq Batteries
    BY <1>10 DEF Charge, Discharge, TypeOK
  <2> QED  BY <1>10, <2>1, KeyFacts, ClaimType DEF Charge, Discharge
<1>11. ASSUME NEW b \in Batteries, Skip(b)  PROVE TypeOK'
  BY <1>11 DEF Skip, TypeOK, storeVars
<1>12. CASE LoopEnd
  BY <1>12 DEF LoopEnd, TypeOK, storeVars
<1>13. ASSUME NEW l \in Loads, Shed(l)  PROVE TypeOK'
  BY <1>13, KeyFacts, ClaimType DEF Shed, TypeOK
<1>14. CASE NoShed
  BY <1>14 DEF NoShed, TypeOK, storeVars
<1>15. CASE PublishOk
  <2>1. job \in Keys
    BY <1>15 DEF PublishOk, TypeOK
  <2>2. pc' \in {"charge", "discharge", "idle"} /\ job' = NoKey /\ NoKey \notin Keys
    BY <1>15, <2>1, ResumeType, KeyFacts DEF PublishOk
  <2>3. told' \subseteq Batteries
    BY <1>15, <2>1, KeyFacts DEF PublishOk, TypeOK
  <2>4. issuedAge' \in [Keys -> 0 .. Cooldown]
    BY <1>15, <2>1 DEF PublishOk, TypeOK
  <2>5. dispatched' \in BOOLEAN
    BY <1>15, Zenon DEF PublishOk, Dispatched
  <2>6. UNCHANGED <<policy, net, soc, critical, tick, todo, age, faults, seen>>
    BY <1>15 DEF PublishOk, storeVars
  <2> QED  BY <2>2, <2>3, <2>4, <2>5, <2>6 DEF TypeOK
<1>16. CASE PublishFails
  <2>1. job \in Keys
    BY <1>16 DEF PublishFails, TypeOK
  <2>2. pc' \in {"charge", "discharge", "idle"} /\ job' = NoKey /\ NoKey \notin Keys
    BY <1>16, <2>1, ResumeType, KeyFacts DEF PublishFails
  <2>3. age' \in [Keys -> 0 .. Cooldown] /\ faults' \in 0 .. MaxFaults
    BY <1>16, <2>1 DEF PublishFails, Fault, TypeOK
  <2>4. UNCHANGED <<policy, net, soc, critical, tick, todo, dispatched, told, seen, issuedAge>>
    BY <1>16 DEF PublishFails, storeVars
  <2> QED  BY <2>2, <2>3, <2>4 DEF TypeOK
<1>17. CASE UNCHANGED vars
  BY <1>17 DEF vars, TypeOK
<1> QED  BY <1>1, <1>2, <1>3, <1>4, <1>5, <1>6, <1>7, <1>8, <1>9, <1>10, <1>11, <1>12,
            <1>13, <1>14, <1>15, <1>16, <1>17 DEF Next, Tick, Environment

\* Every variable keeps its type; in particular a tick is publishing exactly when
\* it has a command in hand.
THEOREM TypeCorrect == Spec => []TypeOK
BY TypeInit, TypeStep, PTL DEF Spec

-----------------------------------------------------------------------------
(* The cooldown *)

\* The command in hand was not sent within the last cooldown.
InHandIsDue == job \in Keys => issuedAge[job] = Cooldown

CooldownInv == TypeOK /\ CooldownIsEarned /\ InHandIsDue

\* A claim is made only for a key whose last command is a cooldown old.
LEMMA ClaimIsDue ==
  ASSUME CooldownInv, NEW k \in Keys, pc # "publishing", Claim(k)
  PROVE  issuedAge[k] = Cooldown
<1>1. job # k
  BY DEF CooldownInv, TypeOK
<1>2. age[k] = Cooldown
  BY CooldownAssumption DEF CooldownInv, TypeOK, Claim, CoolingDown
<1> QED  BY <1>1, <1>2 DEF CooldownInv, CooldownIsEarned

LEMMA CooldownStep == CooldownInv /\ [Next]_vars => CooldownInv'
<1> SUFFICES ASSUME CooldownInv, [Next]_vars PROVE CooldownIsEarned' /\ InHandIsDue'
  BY TypeStep DEF CooldownInv
<1>0. TypeOK /\ CooldownIsEarned /\ InHandIsDue
  BY DEF CooldownInv
<1>1. ASSUME NEW k \in Keys, pc # "publishing", Claim(k)
      PROVE  CooldownIsEarned' /\ InHandIsDue'
  <2>1. issuedAge[k] = Cooldown
    BY <1>1, ClaimIsDue
  <2>2. job \notin Keys /\ job' = k /\ issuedAge' = issuedAge
    BY <1>0, <1>1 DEF TypeOK, Claim
  <2>3. \A x \in Keys : x # k => age'[x] = age[x]
    BY <1>0, <1>1 DEF TypeOK, Claim
  <2> QED  BY <1>0, <2>1, <2>2, <2>3 DEF CooldownIsEarned, InHandIsDue
<1>2. CASE Clock
  <2>1. job' = job /\ \A k \in Keys : /\ age'[k] = IF age[k] < Cooldown THEN age[k] + 1 ELSE Cooldown
                                      /\ issuedAge'[k] = IF issuedAge[k] < Cooldown
                                                           THEN issuedAge[k] + 1 ELSE Cooldown
    BY <1>2 DEF Clock, Older, tickVars
  <2> QED  BY <1>0, <2>1, CooldownAssumption DEF CooldownIsEarned, InHandIsDue
<1>3. CASE Restart
  BY <1>3, KeyFacts DEF Restart, CooldownIsEarned, InHandIsDue
<1>4. CASE PublishOk
  <2>1. job \in Keys /\ job' = NoKey /\ NoKey \notin Keys
    BY <1>0, <1>4, KeyFacts DEF PublishOk, TypeOK
  <2>2. age' = age /\ issuedAge' = [issuedAge EXCEPT ![job] = age[job]]
    BY <1>4 DEF PublishOk
  <2> QED  BY <1>0, <2>1, <2>2 DEF CooldownIsEarned, InHandIsDue, TypeOK
<1>5. CASE PublishFails
  <2>1. job \in Keys /\ job' = NoKey /\ NoKey \notin Keys
    BY <1>0, <1>5, KeyFacts DEF PublishFails, TypeOK
  <2>2. issuedAge' = issuedAge /\ age' = [age EXCEPT ![job] = Cooldown]
    BY <1>5 DEF PublishFails
  <2> QED  BY <1>0, <2>1, <2>2 DEF CooldownIsEarned, InHandIsDue, TypeOK
<1>6. CASE UNCHANGED <<job, age, issuedAge>>
  BY <1>0, <1>6 DEF CooldownIsEarned, InHandIsDue
<1>7. \/ \E k \in Keys : pc # "publishing" /\ Claim(k)
      \/ Clock \/ Restart \/ PublishOk \/ PublishFails
      \/ UNCHANGED <<job, age, issuedAge>>
  <2>1. ASSUME NEW b \in Batteries, Charge(b) \/ Discharge(b)
        PROVE  \E k \in Keys : pc # "publishing" /\ Claim(k)
    BY <2>1, KeyFacts DEF Charge, Discharge
  <2>2. ASSUME NEW l \in Loads, Shed(l)
        PROVE  \E k \in Keys : pc # "publishing" /\ Claim(k)
    BY <2>2, KeyFacts DEF Shed
  <2> QED  BY <2>1, <2>2 DEF Next, Tick, Environment, SetPolicy, PutTelemetry, UpsertDevice,
              ReadPolicy, ReadSummary, ReadDevices, ReadTelemetry, Skip, LoopEnd, NoShed,
              tickVars, vars
<1> QED  BY <1>1, <1>2, <1>3, <1>4, <1>5, <1>6, <1>7

LEMMA CooldownInvariant == Spec => []CooldownInv
<1>1. Init => CooldownInv
  BY TypeInit, KeyFacts DEF Init, CooldownInv, CooldownIsEarned, InHandIsDue
<1> QED  BY <1>1, CooldownStep, PTL DEF Spec

\* lastSent suppresses exactly what was really published a short while ago.
THEOREM CooldownsAreEarned == Spec => []CooldownIsEarned
BY CooldownInvariant, PTL DEF CooldownInv

\* The same command is never issued twice within a cooldown.
THEOREM CommandsAreRateLimited == Spec => RateLimit
<1> DEFINE Due == (pc # "publishing" /\ pc' = "publishing") => issuedAge[job'] = Cooldown
<1>1. CooldownInv /\ [Next]_vars => [Due]_vars
  <2> SUFFICES ASSUME CooldownInv, [Next]_vars, pc # "publishing", pc' = "publishing"
               PROVE  issuedAge[job'] = Cooldown
    OBVIOUS
  <2>1. \E k \in Keys : Claim(k)
    <3>1. pc' # pc
      OBVIOUS
    <3>2. ASSUME NEW b \in Batteries, Charge(b) \/ Discharge(b)
          PROVE  \E k \in Keys : Claim(k)
      BY <3>2, KeyFacts DEF Charge, Discharge
    <3>3. ASSUME NEW l \in Loads, Shed(l)
          PROVE  \E k \in Keys : Claim(k)
      BY <3>3, KeyFacts DEF Shed
    <3> QED  BY <3>1, <3>2, <3>3 DEF Next, Tick, Environment, SetPolicy, PutTelemetry,
                UpsertDevice, Clock, Restart, ReadPolicy, ReadSummary, ReadDevices,
                ReadTelemetry, Branch, Skip, LoopEnd, NoShed, PublishOk, PublishFails,
                tickVars, vars
  <2>2. PICK k \in Keys : Claim(k)
    BY <2>1
  <2>3. issuedAge[k] = Cooldown /\ job' = k
    BY <2>2, ClaimIsDue DEF Claim
  <2> QED  BY <2>3
<1> QED  BY <1>1, CooldownInvariant, PTL DEF Spec, RateLimit

-----------------------------------------------------------------------------
(* Load shedding *)

\* The loads that are non-critical now, and those Tick works with, were all
\* non-critical at some moment of the tick.
LoadsAreFresh ==
    /\ pc # "idle" => NonCritical \subseteq seen
    /\ pc \in {"telemetry", "charge", "discharge", "shed", "publishing"} =>
          tick.loads \subseteq seen

\* Tick's variable dispatched knows of every battery told to discharge, and on
\* every other path none has been.
DispatchedIsKnown ==
    /\ pc \in {"summary", "devices", "telemetry", "charge", "shed"} => told = {}
    /\ (pc = "publishing" /\ job[2] # "discharging") => told = {}
    /\ (pc \in {"discharge", "publishing"} /\ told # {}) => dispatched

ShedInv == TypeOK /\ LoadsAreFresh /\ ShedWasNonCritical /\ DispatchedIsKnown

LEMMA ShedStep == ShedInv /\ [Next]_vars => ShedInv'
<1> DEFINE Goal == LoadsAreFresh' /\ ShedWasNonCritical' /\ DispatchedIsKnown'
<1> SUFFICES ASSUME ShedInv, [Next]_vars PROVE Goal
  BY TypeStep DEF ShedInv
<1>0. TypeOK /\ LoadsAreFresh /\ ShedWasNonCritical /\ DispatchedIsKnown
  BY DEF ShedInv
<1> USE DEF LoadsAreFresh, ShedWasNonCritical, DispatchedIsKnown
<1>1. CASE seen \subseteq seen' /\ NonCritical' \subseteq seen' \cup NonCritical /\ UNCHANGED tickVars
  BY <1>0, <1>1 DEF tickVars
<1>2. CASE Restart
  BY <1>2 DEF Restart
<1>3. CASE ReadPolicy \/ ReadSummary
  BY <1>0, <1>3 DEF ReadPolicy, ReadSummary, NonCritical, storeVars
<1>4. CASE ReadDevices
  <2>1. tick'.loads = NonCritical
    BY <1>0, <1>4 DEF ReadDevices, TypeOK, Snapshot
  <2> QED  BY <1>0, <1>4, <2>1 DEF ReadDevices, NonCritical, storeVars
<1>5. CASE ReadTelemetry
  <2>1. tick'.loads = tick.loads
    BY <1>0, <1>5 DEF ReadTelemetry, TypeOK, Snapshot
  <2> QED  BY <1>0, <1>5, <2>1 DEF ReadTelemetry, Branch, NonCritical, storeVars
<1>6. ASSUME NEW b \in Batteries, Charge(b) \/ Discharge(b)  PROVE Goal
  <2>1. /\ pc' = "publishing" /\ pc \in {"charge", "discharge"}
        /\ (job' = <<b, "charging">> /\ pc = "charge") \/ job' = <<b, "discharging">>
        /\ UNCHANGED <<critical, tick, dispatched, told, seen>>
    BY <1>6 DEF Charge, Discharge, Claim, storeVars
  <2> QED  BY <1>0, <2>1 DEF NonCritical
<1>7. ASSUME NEW l \in Loads, Shed(l)  PROVE Goal
  <2>1. /\ pc' = "publishing" /\ pc = "shed" /\ job' = <<l, "off">> /\ l \in tick.loads
        /\ UNCHANGED <<critical, tick, dispatched, told, seen>>
    BY <1>7 DEF Shed, Claim, storeVars
  <2> QED  BY <1>0, <2>1 DEF NonCritical
<1>8. ASSUME NEW b \in Batteries, Skip(b)  PROVE Goal
  BY <1>0, <1>8 DEF Skip, NonCritical, storeVars
<1>9. CASE LoopEnd
  BY <1>0, <1>9 DEF LoopEnd, NonCritical, storeVars
<1>10. CASE NoShed
  BY <1>0, <1>10 DEF NoShed
<1>11. CASE PublishOk
  <2>1. job \in Keys /\ UNCHANGED <<critical, tick, seen>>
    BY <1>0, <1>11 DEF PublishOk, TypeOK, storeVars
  <2>2. CASE job[2] = "discharging"
    <3>1. pc' = "discharge"
      BY <1>11, <2>2 DEF PublishOk, Resume
    <3>2. dispatched'
      BY <1>11, <2>2 DEF PublishOk, Dispatched
    <3> QED  BY <1>0, <1>11, <2>1, <3>1, <3>2 DEF PublishOk, NonCritical
  <2>3. CASE job[2] # "discharging"
    <3>1. pc' \in {"charge", "idle"}
      BY <1>11, <2>1, <2>3, KeyFacts DEF PublishOk, Resume
    <3>2. told = {} /\ told' = {}
      BY <1>0, <1>11, <2>3 DEF PublishOk
    <3> QED  BY <1>0, <1>11, <2>1, <3>1, <3>2 DEF PublishOk, NonCritical
  <2> QED  BY <2>2, <2>3
<1>12. CASE PublishFails
  <2>1. job \in Keys /\ UNCHANGED <<critical, tick, seen, told, dispatched>>
    BY <1>0, <1>12 DEF PublishFails, TypeOK, storeVars
  <2>2. CASE job[2] = "discharging"
    <3>1. pc' = "discharge"
      BY <1>12, <2>2 DEF PublishFails, Resume
    <3> QED  BY <1>0, <1>12, <2>1, <3>1 DEF PublishFails, NonCritical
  <2>3. CASE job[2] # "discharging"
    <3>1. pc' \in {"charge", "idle"}
      BY <1>12, <2>1, <2>3, KeyFacts DEF PublishFails, Resume
    <3> QED  BY <1>0, <1>12, <2>1, <2>3, <3>1 DEF PublishFails, NonCritical
  <2> QED  BY <2>2, <2>3
<1>13. ASSUME NEW l \in Loads, NEW c \in BOOLEAN, UpsertDevice(l, c)  PROVE Goal
  <2>1. \A x \in Loads \ {l} : critical'[x] = critical[x]
    BY <1>0, <1>13 DEF UpsertDevice, TypeOK
  <2>2. critical'[l] = c
    BY <1>0, <1>13 DEF UpsertDevice, TypeOK
  <2>3. NonCritical' \subseteq NonCritical \cup seen'
    BY <1>13, <2>1, <2>2 DEF UpsertDevice, NonCritical
  <2>4. seen \subseteq seen' /\ UNCHANGED tickVars
    BY <1>13 DEF UpsertDevice
  <2> QED  BY <1>1, <2>3, <2>4
<1>14. ASSUME \/ \E p \in Policies : SetPolicy(p)
              \/ \E n \in Nets : PutTelemetry(n)
              \/ Clock \/ UNCHANGED vars
       PROVE  Goal
  <2>1. UNCHANGED <<critical, seen>> /\ UNCHANGED tickVars
    BY <1>14 DEF SetPolicy, PutTelemetry, Clock, vars, storeVars, tickVars
  <2> QED  BY <1>1, <2>1 DEF NonCritical
<1> QED  BY <1>2, <1>3, <1>4, <1>5, <1>6, <1>7, <1>8, <1>9, <1>10, <1>11, <1>12, <1>13, <1>14
         DEF Next, Tick, Environment

LEMMA ShedInvariant == Spec => []ShedInv
<1>1. Init => ShedInv
  BY TypeInit DEF Init, ShedInv, LoadsAreFresh, ShedWasNonCritical, DispatchedIsKnown
<1> QED  BY <1>1, ShedStep, PTL DEF Spec

\* However registrations race with a tick, a load it switches off was
\* non-critical during that tick.
THEOREM ShedLoadsWereNonCritical == Spec => []ShedWasNonCritical
BY ShedInvariant, PTL DEF ShedInv

\* A tick that has told a battery to discharge switches no load off.
THEOREM DispatchPreventsShedding == Spec => []NoShedAfterDispatch
<1>1. ShedInv => NoShedAfterDispatch
  BY DEF ShedInv, DispatchedIsKnown, NoShedAfterDispatch
<1> QED  BY <1>1, ShedInvariant, PTL
=============================================================================
