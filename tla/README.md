# A verification of vpp-lab in TLA+

vpp-lab is a small virtual power plant: ESP32 nodes and a simulator report over MQTT, a Go
platform keeps their state, schedules batteries and loads, plans a day ahead and keeps an
audit trail, and an edge gateway bridges a site with a bad uplink. The modules here model
the parts of it in which order, failure or a boundary value decides what is correct. Every
definition was translated from the source; `PROJECT.json` gives the lines for each
(`map`), lists what is hard to test in this code (`hazards`), and names the run and the
theorem for each property.

## 1. Inventory

| Component (source) | State | Operations | What is hard | What makes it correct |
|---|---|---|---|---|
| Command path (`internal/mqtt/client.go`, `internal/state`, `internal/repository/commands.go`) | list of 200 commands in memory, table `command_records` | `PublishCommand`, acknowledgement branch of `handleMessage`, reload at start | two goroutines write two stores in any order; repeated and lost messages; failed writes; restart | a row only says what happened, outcomes are final, a command is listed once, a failure that makes the stores differ is logged |
| Scheduler (`internal/scheduler`) | policy, `lastSent` | `Tick`, `publish`, `SetPolicy` | four reads that are not atomic, cooldown against failed publishes | only non-critical loads are shed, no shedding after a dispatch, rate limit, surplus gets charged |
| Edge gateway (`cmd/edge-gateway`, `internal/edge`) | SQLite cache | capture, flush, cleanup, local command | crash between publish and mark, three goroutines on one table, lost links | a cached message is never lost, first arrivals in order, repeats only after faults, everything arrives |
| Battery firmware (`firmware/esp32-battery`) | mode, three pins, timer | `loop`, `onMessage`, `setMode` | pins change one at a time, `millis()` wraps, resets | pins follow the mode, the node does what it acknowledged, telemetry keeps coming and is not early |
| Device registry and audit (`internal/api/server.go`, `internal/repository/postgres.go`, `audit.go`, `cmd/vpp-lab/main.go`) | table `devices`, map in memory, table `audit_logs` | `upsertDevice`, `withAudit`, `loadOrSeedDevices` | concurrent requests, commit with an error, restart while seeding | nothing brings back what an acknowledged registration replaced, memory shows only saved ones, the audit log is true |
| Optimizer (`internal/optimizer`) | none; a plan per request | `ValidateConfig`, `normalizeConfig`, `BuildDayAheadPlan`, `CurrentSlot` | defaults against explicit zeros, limits, slot lengths | charge within limits, charge that follows the mode, a slot for now |
| Dispatch (`internal/dispatch`, handlers in `internal/api`) | none; a command per request | preview, `DecideApply`, `applyDispatch` | reads spread over a request | only confirmed commands that the plan asks for, within the limits |
| Uplink (`internal/mqtt`, `internal/state`, `events.go`, `internal/timeseries`, `internal/deviceauth`) | latest telemetry in memory and Redis, points in InfluxDB, list of 200 events and table `device_events` | connect and subscribe, telemetry and event branches of `handleMessage`, reload | stores written one after the other, each may fail; repeats; device clocks that are ahead or behind; dates that the payload carries | stores agree or the log says why, a silent device does not stay online, the event list survives in its order |
| Simulator (`cmd/simulator`) | charge, mode, relays, `lowSOCOpen`, `client` | connect and subscribe, the loop with `batteryTelemetry`, `publishState`, `publishBatterySOCEvent`; `handleCommand` | shared state of loop and MQTT callback; the callback may come before `client` is set; the scheduler's rules see the battery's own power | lasting deficits and surpluses are met, no swinging, a discharge ends, the last event is true |
| Load, PV and demo firmware, `vpp_common.h` | relay | as the battery's | as the battery's | as the battery's |
| Metrics, configuration, TLS, web page, dashboards | none | read and format | nothing concurrent | only the online flag is modelled |

How they interact: devices publish telemetry, events and acknowledgements to a broker,
directly or through the gateway's cache; the platform's one MQTT handler writes the memory
`Store` and the databases; the scheduler and the HTTP handlers read the `Store` under its
lock, one call at a time, and publish through `PublishCommand`; devices subscribe to their
command topic. Memory is rebuilt from PostgreSQL and Redis when the process starts.

## 2. Modules

| Module | Models | Composes / implements |
|---|---|---|
| `CommandLedger` | the life of a command | implements `CommandAudit` |
| `Rules` | the conditions of the scheduler's rules | |
| `Scheduler` | ticks and their environment | extends `Rules` |
| `Simulator` | process, connection, callback and loop of the simulator | |
| `ClosedLoop` | scheduler, simulator and operator together | extends `Simulator` and `Rules` |
| `EdgeGateway` | capture, cache, flush, cleanup | implements `StoreAndForward` |
| `BatteryNode` | the firmware loop | |
| `DeviceRegistry` | registration, seeding, audit | |
| `DayAheadPlan` | validation and plan | |
| `Dispatch` | plan, preview and apply requests | extends `DayAheadPlan`: its plan is the one built there, step by step |
| `Ingest` | uplink of telemetry and events | |
| `CommandAudit`, `StoreAndForward` | abstract specifications | |
| `MC...` | small instances for TLC | |
| `...Proofs` | theorems and their proofs | |

Operators whose comment begins with "Mutant:" are wrong variants of the
definition below them. They take no part in the specification; they exist to show that
each property would notice such a mistake.

**State and actions.** A variable stands for a field, a table or a place where a goroutine
stands (`pc`, `stage`, `hand`), and is commented with it. An action is one stretch of code
that nothing else can interrupt as far as others can see: up to the next lock release,
database call or network call. Where the code does several such things in a row the model
has several actions (`Publish`, `RecordIssued`, `PersistIssued` for `PublishCommand`;
`WriteCharge`, `WriteDischarge`, `WriteLed` for `setMode`; `ReadPolicy`, `ReadSummary`,
`ReadDevices`, `ReadTelemetry` for the head of `Tick`). A crash may come between any two.

**Data.** Names and payloads are model values or records of what the code tells apart.
Prices, powers and charges of the plan are exact integers (hundredths, percent); the sine
of the PV forecast is any value of a set by day and 0 by night, so the plan is checked for
more curves than the real one. `millis()` keeps its wrap. The
simulator's charge keeps the order of its thresholds (0.15, 0.20, 0.30, 0.95 and the policy's
limits), its loads a constant power. Lists of 200 entries and batches
of 100 rows are constants. Time is a counter; ages stop counting once they no longer
matter.

**Environment.** Brokers deliver QoS 1 messages at least once, repeats at any later time,
and forget a clean session with its connection. A statement to PostgreSQL, Redis or
InfluxDB may fail; in `DeviceRegistry` and `Ingest` it may also have been done when the
error is reported. In `CommandLedger` a failed write of a record is one that did not
commit. Audit identifiers are taken as distinct. InfluxDB keeps one point per device and
second, the last one written. A device's clock may be off by any amount (`ahead`); its
payload and its signature carry the same clock. Left out, because nothing checked here
depends on them: what paho sends again by itself when the upstream link of the gateway comes
back while a publish waits for its token (one more repeat per lost link), and a second
command between the lock sections of one round of the simulator. The battery node is assumed
to join its WiFi again by itself: `connectWiFi` gives up after 40 tries, and the loop then
stays in `reconnectMQTT`.

**History.** `executed` (`CommandLedger`), `saved` and `before` (`DeviceRegistry`), `cut`
(`Ingest`), `told` and the like record what happened for the properties and guide no step.
`before[r]` is who had been answered for the same device when request `r` was accepted: an
operator who sends `r` after such an answer expects `r` to win, while two requests that
overlap may end in either order.

**The closed loop.** `ClosedLoop` takes `Tick` as one step, since `Scheduler` shows what can
happen within one, and keeps everything between a tick and the next: the simulator's round
of publications, of which a tick may see any prefix; the command on its way, lost if the
simulator is not subscribed; the cooldown that runs meanwhile; and the power of the battery
in the next net power. `Demand` is the site's power without the battery, which no part of
the system computes. The policy is fixed here; `Scheduler` changes it.

## 3. Runs

Passing runs (each about three minutes or less):

| Run | Question |
|---|---|
| `MCCommandLedger` | Are both records of a command truthful whatever order acknowledgements, records, failures and restarts come in, does the table implement the audit trail, and does every outcome reach it unless a fault intervenes? |
| `MCScheduler` | Rate limit, cooldown and shedding against concurrent telemetry, registrations, policy changes and failed publishes; does a lasting surplus get the battery its command? |
| `MCEdgeGateway` | Loss, order and repeats, the refinement of `StoreAndForward`; does everything cached arrive? |
| `MCBatteryNode` | Mode and pins against the acknowledgement; a timer that is never early and never stops |
| `MCDeviceRegistry` | Does a registration that was acknowledged, or one that overlapped it, stay in table and memory, and is the audit log true, with concurrent requests, seeding and crashes? |
| `MCDispatch` | What the plan of every accepted configuration satisfies, and what an applied command does while the site changes |
| `MCClosedLoop` | Is a lasting deficit or surplus met, does the battery swing, does a discharge end, and is the last event true, with lost commands and readings, operators and crashes? |
| `MCIngest` | Agreement of memory and stores for telemetry and events; how long is a silent device shown online, whatever its clock says; does the platform subscribe again? |

Runs that end in a violation, each a disagreement between the code and a sentence about
it (quoted under `findings`):

| Run | What it shows |
|---|---|
| `MCCommandLedgerMemory` | an early acknowledgement updates PostgreSQL and not memory |
| `MCEdgeGatewaySubscription` | after a lost local connection the gateway never subscribes again |
| `MCDispatchDeviation` | a limit of 0 W on the deviation stands for 100 W |
| `MCIngestBoth` | two events without identifier in one second share one row |

The models also show, without a run of their own: a shed threshold below 10 W, which
`ValidatePolicy` accepts, sheds a load before a charged battery is asked (`Scheduler`); both
MOSFETs are driven between two writes of `setMode` when discharging turns into charging
(`BatteryNode`); two concurrent registrations of a device can leave memory and table
different until a restart (`DeviceRegistry`); a repeated reading replaces a newer one, since `seq` is not compared
(`Ingest`); a device whose clock is ahead stays online that much longer after its last
reading, by at most `DEVICE_AUTH_MAX_SKEW` (`Ingest`); after a restart the event list is in
the order of the `created_at` that events carry, not of their arrival (`Ingest`); a load may be
shed on the tick after a discharge was ordered, while its cooldown runs (`Scheduler`);
the battery swings between charging and discharging, one change per cooldown,
while the demand without it lies within 5 W of zero, so that at night with every load off a
battery left discharging is told to charge (`ClosedLoop`, which is why `Settles` asks for a
demand of at least the battery's 15 W less the dead band of 10 W); a command that arrives
before `sim.client` is set ends the simulator (`Simulator`); a low-charge warning whose
publication fails is not repeated (`Simulator`); what the gateway cached longer than
`DEVICE_AUTH_MAX_SKEW` is rejected when it arrives (`Ingest`).

**Bounds and why they are enough.** Two commands of one device and a local command of
another give every order of two publishers and the handler, and an empty identifier shared
by two devices; a list of two entries is full and cut after a reload. One battery, one load
and two policies (the configured one, and one that keeps the whole charge and sheds early)
give a tick whose policy, telemetry and devices change between its reads; a cooldown of two
units lets a tick find it half over, so that a skip that renewed it would starve the battery.
That several batteries change nothing for the safety properties is proved. Four messages with batches of two give full, partial and
following batches, three faults give a crash during the repeat of a repeat. A clock that
wraps at 5 with an interval of 3 and rounds of up to 2 wraps at every phase of the timer,
with the longest round that the wrap allows. Three requests on three devices with two seeds
meet twice before and after a restart. The plan's configurations cover defaults, fields left
out, explicit zeros, equal limits, slots of 5 to 60 minutes, the default slot and
the default horizon, tariffs with a gap and a single one, and configurations to refuse.
Dispatch allows
one change of telemetry or registry anywhere in each request sequence, which is enough
for a change between any two of its reads. Ingest has two messages in a row, each a reading or
an event: the first reading has the timestamp of a clock that is ahead by more than the
allowed skew, the second is stamped on arrival and comes from a clock that is behind, one
event gets identifier and date on arrival, so that a repeat is a second row, the other
carries both; a list of two entries that a repeat overfills, two faults (a failed store,
then a crash), and a clock that runs past the skew and the time to live of a reading.
The closed loop has one load, a demand of 25 W, of 5 W (where the rules just do not swing)
and surpluses, a charge of four steps with all thresholds apart, one command on its way, one
order of an operator and one fault, which may be a lost connection, reading, event or
command, a refused subscription, or a crash of either program.
`MaxFaults`, `MaxChanges`, `MaxRepeats`, `MaxClock`, `MaxInbox`, `MaxOrders`, `MaxRound` and
`MaxMessages` are the only bounds that the code does not have.

**Deadlock** is checked for the scheduler, the firmware, dispatch and the closed loop, which run
for ever. The other runs end when the bounded messages, requests and faults are used up.

**Fairness.** Only steps that the program itself takes are fair: a goroutine that is not
blocked goes on (publishers, the MQTT handler, the flush loop and its ticker, the scheduler
and its ticker, the simulator's loop and callback, the Arduino `loop`), paho reconnects (`SetAutoReconnect`,
`SetConnectRetry`) and calls the connection handler, time passes, and a stopped process
comes back (`restart: on-failure` in `docker-compose.yml`). Devices execute the commands
they receive in `MCCommandLedger`, where the one handler goroutine takes some
acknowledgement that waits, not a given one. Nothing assumes that a message is not lost or that
faults do not happen; they are only finitely many.

## 4. Proofs

Checked by TLAPS for every value of the constants that satisfies the named assumptions:

| Module | Theorems | Inductive invariant and why |
|---|---|---|
| `CommandLedgerProofs` | `TypeCorrect`, `PgIsTruthful`, `DoneStaysAudited`, `OutcomesAreFinal`, `LedgerImplementsAudit` | `Provenance`: acknowledgements on the way and in the handler were really given by the device that their topic names, and two for one command agree. Without it the upsert of an acknowledgement could write anything. |
| | `CommandsAreListedOnce`, `ShownOutcomesArePersistent`, `AnswersAreOnTheirWay` | `ListInv`: the table's keys are listed once, and a command that its publisher has still to record is not in memory, although an acknowledgement may have made its row already. `OutcomeInv`: an outcome in memory was reported, and is in hand, in the log, or its row is settled; `RowOwner` (a row without an outcome belongs to the command's device) excludes that the upsert's `WHERE` drops the acknowledgement of a command, and `OneInHand` that one write ends another's. |
| `SchedulerProofs` | `TypeCorrect`, `CooldownsAreEarned`, `CommandsAreRateLimited`, `ShedLoadsWereNonCritical`, `DispatchPreventsShedding` | What the tick has read and told so far, per program point; `InHandIsDue` says that the command in hand had no young predecessor, which makes the entry that a failed publish deletes the right one. |
| `EdgeGatewayProofs` | `TypeCorrect`, `CachedMessagesAreKept`, `ArrivalsAreOrdered`, `RepeatsAreBounded`, `GatewayForwardsInOrder` | `BatchIsOldest`: the batch in hand is a set of the oldest unsent rows, although cleanup and capture run meanwhile; `RepeatsOfUnsent` charges each repeat to a fault while the row is unsent. |
| `BatteryNodeProofs` | `TypeCorrect`, `PinsAlwaysFollowMode`, `AcknowledgedIsDone`, `TimerIsNeverEarly` | `InHand`: which pins setMode has written at each step; `TimerTellsTime`: the unsigned difference is the true time since the last telemetry as long as that is below the interval. |
| `DeviceRegistryProofs` | `TypeCorrect`, `MemoryOnlyShowsSaved`, `AcknowledgedRegistrationsStay`, `AuditIsTruthful` | `SeedBeforeRequests`, `ServedIsKept`, `RequestCommits`: seeding only ever runs on a table that no request has reached, so it cannot overwrite one; a request past `save` has committed. `BeforeWasAnswered`: whoever may still write has not been answered, so it is in nobody's `before`, and what it writes cannot be what an acknowledged registration replaced. |
| `DispatchProofs` | `ChargeStaysWithinLimits`, `PlanHasActiveSlot`, `ChargeMovesWithMode`, `CommandsAreApplied` | `Normal`: what validation leaves of a configuration once the defaults are in, in particular a slot of at most an hour and ordered limits. `PlanInv`: the first slot starts from the clamped charge, and as long as no slot holds the time of the request the next one does not start after it; since the plan spans at least the 15 minutes its start was cut back by, some slot does hold it. A slot of 15 minutes or more that holds it is the first, which ties the command to the reported charge. `CommandInv`: what waits for its publication is the plan's slot. |
| `IngestProofs` | `RedisIsInStep`, `NoReadingBypassesInflux`, `OnlineMeansRecent`, `EventListIsTheTable` | `HandIsShown`: the reading in hand is the one that memory shows. `ReadingsInv`: a reading is kept under the device that sent it, and what the check of the skew let through is not stamped later than its arrival and the skew, nor later than the device's clock said when it was sent. `ArrivalInv`: nothing shown arrived after the reading in hand, so that the point it writes only overwrites older ones. `NumberedInv`: rows and entries that the platform dates carry distinct numbers in the order of arrival, and such an event in hand is the newest, whatever dates other events carry. |
| `ClosedLoopProofs` | `LastEventTheorem`, `ChargeStaysInRange`, `DischargeDrainsBattery` | `FlagIsKnown`: the last event tells the flag `lowSOCOpen`, unless an event was lost or the simulator restarted; `Judged`: it is true from the event of a round to the sample of the next. The proof needs the recovery threshold above the warning's, and a simulator that starts above the warning's. |

Two of them are refinements: the initial states of the detailed specification map to
initial states of the abstract one, and each action maps to a step or a stutter.

`PinsAlwaysFollowMode` and `ArrivalsAreOrdered` are about parts of the invariants that the
runs check through `DoesWhatItAcknowledged` and the refinement.

Every safety property of the runs, invariant or action property, is a theorem. Only
model-checked are the liveness properties, since the prover has no fairness:
`OutcomeReachesPostgres`, `SurplusIsCharged`, `ForwardsEverything`, `TelemetryKeepsComing`,
`Resubscribes`, `SiteIsServed`, `Settles` and `DischargeEnds`. For two of them the part that
is no matter of fairness is proved: `AnswersAreOnTheirWay` (as long as nothing fails, a
published command is always where a fair step takes it on) and `ChargeStaysInRange` with
`DischargeDrainsBattery` (a quantity with a lower limit that every round of a discharge
decreases).

The proofs are about the sets and numbers the constants range over, not the ones of the runs:
any slot length that divides the hour, any horizon, any policy, list length, number of
devices, commands and faults. The clock of a plan request is a minute of the day, as in the
model.

## 5. Not modelled

Firmware of load, PV and demo nodes: their loop, reconnection and timer are the battery
node's, and they have one pin or none. The canonical JSON and HMAC of device signatures (only
what verification accepts); metrics other than the online flag, configuration, TLS, web page
and dashboards; read-only HTTP pages; the sine around the simulator's loads. Time zones: the plan's
hours are those of the server's clock. Rounding in the plan does not show, since its
values are exact in hundredths.

## 6. Plan

Done, in this order: command path, scheduler, gateway, battery node, registry, plan,
dispatch, uplink, simulator and closed loop; theorems for every safety property of the
runs. Left:

1. The parts of `SurplusIsCharged`, `ForwardsEverything` and `TelemetryKeepsComing` that do
   not depend on fairness, as theorems. Those of `SiteIsServed` and `Settles` speak of the
   sum over all loads, whose properties need an induction that the prover cannot do.
2. Three hazards have no property, because the code does not handle them: both pins of the
   battery node HIGH within `setMode`, concurrent registrations that reach table and memory
   in different orders, and a site that changes between the reads of `dispatch/apply` and its
   publication. Each gets one when the code gains an interlock, an order or a second check.
3. `DeviceAuth`: signing on the node against verification on the platform. The nodes send
   acknowledgements without a signature (`publishAck`), which the platform's
   `requiresDeviceAuth` does not let through once `DEVICE_KEYS` is set.

## 7. Running

    tlc -workers 2 -config MCCommandLedger.cfg MCCommandLedger
    tlapm CommandLedgerProofs.tla
