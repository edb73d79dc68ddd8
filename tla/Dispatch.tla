------------------------------ MODULE Dispatch ------------------------------
(***************************************************************************)
(* plan, dispatch-preview and dispatch/apply (internal/dispatch and the    *)
(* handlers of internal/api): the handler reads the clock, the site        *)
(* summary and the device registry one after the other, builds the plan of *)
(* DayAheadPlan from what it read, derives a candidate command from the    *)
(* plan's current slot, decides whether it may be sent, looks the device   *)
(* up again and publishes.  Telemetry and registrations arrive in between. *)
(* A plan request ends with the plan.                                      *)
(***************************************************************************)
EXTENDS DayAheadPlan

CONSTANTS
    Devices,     \* device identifiers of the site
    Requests,    \* endpoints and bodies [kind, confirm, max (W), config]
    Registries,  \* devices registered at first
    MaxChanges   \* bound on telemetry and registrations that arrive

ASSUME DispatchAssumption ==
    /\ Requests \subseteq [kind : {"plan", "preview", "apply"}, confirm : BOOLEAN, max : Int,
                            config : Configs]
    /\ Registries \subseteq [Devices -> {"battery", "other", "none"}]
    /\ MaxChanges \in Nat

VARIABLES
    stage,     \* where the handler is
    req,       \* the request it serves
    site,      \* Store.Summary of the site, as telemetry makes it
    registry,  \* Store.devices: the type of each device, "none" if not registered
    devs,      \* what Store.Devices returned to the handler
    command,   \* the candidate command
    sent,      \* the command the last request published, with what it was decided on
    changes    \* telemetry and registrations so far

handlerVars == <<stage, req, devs, command, sent>>
siteVars == <<site, registry, changes>>
allVars == <<vars, handlerVars, siteVars>>

Types == {"battery", "other"}

NoCommand == [device |-> "none", mode |-> "none", target |-> 0]
NoRequest == [kind |-> "none", confirm |-> FALSE, max |-> 0, config |-> DefaultConfig]
NotSent == [command |-> NoCommand, error |-> 0, req |-> NoRequest, slot |-> NoSlot,
            cfg |-> DefaultConfig, soc |-> 0]

NoDevices == [d \in Devices |-> "none"]

DInit ==
    /\ Init
    /\ stage = "idle" /\ req = NoRequest /\ devs = NoDevices /\ command = NoCommand
    /\ sent = NotSent
    /\ site \in Summaries
    /\ registry \in Registries
    /\ changes = 0

DRelease ==
    /\ Release
    /\ stage' = "idle" /\ req' = NoRequest /\ devs' = NoDevices /\ command' = NoCommand

-----------------------------------------------------------------------------
(* The site *)

Telemetry(s) ==
    /\ changes < MaxChanges
    /\ site' = s
    /\ changes' = changes + 1
    /\ UNCHANGED <<registry, handlerVars, vars>>

\* Store.UpsertDevice; nothing removes a device.
Register(d, type) ==
    /\ changes < MaxChanges
    /\ registry' = [registry EXCEPT ![d] = type]
    /\ changes' = changes + 1
    /\ UNCHANGED <<site, handlerVars, vars>>

-----------------------------------------------------------------------------
(* The handler *)

\* A request that passes the checks, received at t; any other is answered with 400.
Receive(r, t) ==
    /\ stage = "idle"
    /\ ValidateConfig(r.config)
    /\ r.kind = "apply" => r.max >= 0
    /\ stage' = "summary"
    /\ req' = r
    /\ now' = t
    /\ sent' = NotSent
    /\ UNCHANGED <<pc, cfg, summary, i, energy, slot, active, devs, command, siteVars>>

ReadSummary ==
    /\ stage = "summary"
    /\ Begin(req.config, site, now)
    /\ stage' = IF req.kind = "plan" THEN "plan" ELSE "devices"
    /\ UNCHANGED <<req, devs, command, sent, siteVars>>

ReadDevices ==
    /\ stage = "devices"
    /\ devs' = registry
    /\ stage' = "plan"
    /\ UNCHANGED <<vars, req, command, sent, siteVars>>

Plan ==
    /\ stage = "plan"
    /\ BuildDayAheadPlan
    /\ UNCHANGED <<handlerVars, siteVars>>

\* firstDevice over Devices(), whose order is that of a map.
firstDevice == {d \in Devices : devs[d] = "battery"}

batteryCommandMode(mode) ==
    CASE mode = "charge" -> "charging" [] mode = "discharge" -> "discharging"

TrackingError == summary.net * 100 - (active.load - active.pv)

\* The candidates BuildPreview may come to.
BuildPreview ==
    IF active.mode \in {"none", "idle"} \/ active.target = 0
      THEN {NoCommand}
      ELSE LET found == {[device |-> d, mode |-> batteryCommandMode(active.mode),
                          target |-> active.target] : d \in firstDevice}
           IN  IF found = {} THEN {NoCommand} ELSE found

Abs(n) == IF n < 0 THEN -n ELSE n

\* Mutant: the confirmation is not asked for.
DecideApplyUnconfirmed(cmd, r) ==
    cmd # NoCommand /\ Abs(TrackingError) <= Default(r.max, 100) * 100

\* DecideApply: a limit of 0 stands for 100 W.
DecideApply(cmd, r) ==
    /\ r.confirm
    /\ cmd # NoCommand
    /\ Abs(TrackingError) <= Default(r.max, 100) * 100

\* An apply request with a candidate that may be sent.
Apply(cmd) ==
    /\ stage = "plan" /\ pc = "planned"
    /\ req.kind = "apply" /\ DecideApply(cmd, req)
    /\ stage' = "lookup"
    /\ command' = cmd
    /\ UNCHANGED <<vars, req, devs, sent, siteVars>>

\* A plan or a preview is answered with 200, an apply request that may not be sent with 412.
AnswerOnly(cmd) ==
    /\ stage = "plan" /\ pc = "planned"
    /\ ~(req.kind = "apply" /\ DecideApply(cmd, req))
    /\ DRelease
    /\ UNCHANGED <<sent, siteVars>>

\* DeviceInSite finds the device: nothing ever removes one.
Lookup ==
    /\ stage = "lookup"
    /\ registry[command.device] # "none"
    /\ stage' = "publish"
    /\ UNCHANGED <<vars, req, devs, command, sent, siteVars>>

Publish ==
    /\ stage = "publish"
    /\ sent' = [command |-> command, error |-> TrackingError, req |-> req,
                slot |-> active, cfg |-> cfg, soc |-> summary.soc]
    /\ DRelease
    /\ UNCHANGED siteVars

\* PublishCommand failed: 502.
PublishFails ==
    /\ stage = "publish"
    /\ DRelease
    /\ UNCHANGED <<sent, siteVars>>

DNext ==
    \/ \E s \in Summaries : Telemetry(s)
    \/ \E d \in Devices, type \in Types : Register(d, type)
    \/ \E r \in Requests, t \in Nows : Receive(r, t)
    \/ ReadSummary
    \/ ReadDevices
    \/ Plan
    \/ \E cmd \in BuildPreview : Apply(cmd) \/ AnswerOnly(cmd)
    \/ Lookup
    \/ Publish
    \/ PublishFails

DSpec == DInit /\ [][DNext]_allVars

-----------------------------------------------------------------------------
(* Correctness *)

\* Whatever arrives while the request is served, a command is published for a confirmed
\* apply request only, asks for what the plan's slot for the time of the request asks
\* for, within the power limit of the configuration that was sent, and the plan deviates
\* from the summary it was made from by no more than DecideApply's limit: the request's,
\* or 100 W when that is 0 (DeviationIsWithinRequest is about the 0).  When a slot is at
\* least as long as the 15 minutes the plan's start is cut to, a discharge starts above
\* the lower limit of charge and a charge below the upper one, by the charge the
\* batteries reported (0 is taken as unknown).
AppliedAsPlanned ==
    sent # NotSent =>
        /\ sent.req.kind = "apply" /\ sent.req.confirm
        /\ sent.command.mode = batteryCommandMode(sent.slot.mode)
        /\ sent.command.target \in 1 .. Default(sent.req.config.limit, DefaultConfig.limit) * 100
        /\ Abs(sent.error) <= Default(sent.req.max, 100) * 100
        /\ sent.cfg.slot >= 15 /\ sent.soc > 0 =>
               /\ sent.command.mode = "discharging" => sent.soc > sent.cfg.min
               /\ sent.command.mode = "charging" => sent.soc < sent.cfg.max

\* README.md: a deviation above max_abs_tracking_error_w is always refused.  A request
\* with the limit 0 is not: DecideApply takes 0 for a limit that was left out.
DeviationIsWithinRequest ==
    sent # NotSent => Abs(sent.error) <= sent.req.max * 100
=============================================================================
