----------------------------- MODULE Simulator -----------------------------
(***************************************************************************)
(* The simulator (cmd/simulator): a loop that samples the PV curve, the    *)
(* relays and the battery and publishes them one after the other, and an   *)
(* MQTT callback that executes commands, on shared state under a mutex.    *)
(* Only the loop moves the charge, and only the callback the relays.       *)
(*                                                                         *)
(* The charge moves in steps of 0.5 %, of which the model keeps the order  *)
(* of the thresholds.  The powers of the loads are constants: the sine     *)
(* around them is left out.  paho hands commands over one by one, in       *)
(* order; a publication without a connection waits for the next one, and   *)
(* the session is clean.                                                   *)
(***************************************************************************)
EXTENDS Integers, Sequences

CONSTANTS
    LoadSeq,       \* the loads, in the order in which they are published
    LoadPower,     \* the power of each load with its relay on, in W
    PVPowers,      \* powers of the PV curve, in W
    BatteryPower,  \* 15 W
    HardMin,       \* 0.15, where a discharge ends
    Low,           \* 0.20, where the warning is published
    Recover,       \* 0.30, where it is taken back
    HardMax,       \* 0.95, where a charge ends
    Start,         \* 0.65, the charge of a new simulator
    MaxFaults      \* bound: lost connections and publications, crashes

Loads == {LoadSeq[k] : k \in DOMAIN LoadSeq}

ASSUME SimulatorAssumption ==
    /\ LoadSeq \in Seq(Loads)
    /\ LoadPower \in [Loads -> Nat]
    /\ PVPowers \subseteq Nat
    /\ BatteryPower \in Nat \ {0}
    /\ {HardMin, Low, Recover, HardMax, Start} \subseteq Nat
    /\ HardMin < Low /\ Low < Recover /\ Recover < HardMax
    /\ Low < Start /\ Start <= HardMax
    /\ MaxFaults \in Nat

VARIABLES
    proc,         \* "down", "connecting", or "running" once sim.client is set
    link,         \* the MQTT connection: "off", "up", "subscribed" or "refused"
    inbox,        \* commands the broker has for the simulator
    relays,       \* simulator.relays
    batteryMode,  \* simulator.batteryMode
    charge,       \* simulator.soc, in steps
    lowSOCOpen,   \* simulator.lowSOCOpen
    loop,         \* the next step of the loop
    sun,          \* pvPower, the power of the PV curve at the hour of this round
    sample,       \* the load powers and batteryPower of this round
    faults

device == <<relays, batteryMode, charge, lowSOCOpen>>
simVars == <<proc, link, inbox, device, loop, sample, sun, faults>>

Modes == {"idle", "charging", "discharging"}
Battery == "battery_01"

Fault == faults < MaxFaults /\ faults' = faults + 1

\* The steps of the loop: sample, publish PV and battery, report the charge, publish
\* each load.
AtSample == 0
AtPV == 1
AtBattery == 2
AtEvent == 3
AtLoad(k) == 3 + k

NoSample == [load |-> [l \in Loads |-> 0], battery |-> 0]

\* The next step; of the sample only what is still to be published matters.
Advance ==
    /\ loop' = IF loop = AtLoad(Len(LoadSeq)) THEN AtSample ELSE loop + 1
    /\ sample' = CASE loop = AtBattery -> [sample EXCEPT !.battery = 0]
                   [] loop \in {AtPV, AtEvent} -> sample
                   [] OTHER -> [sample EXCEPT !.load[LoadSeq[loop - AtEvent]] = 0]

\* newSimulator
NewDevice ==
    [relays |-> [l \in Loads |-> TRUE], mode |-> "idle", charge |-> Start]

SimInit ==
    /\ proc = "down" /\ link = "off" /\ inbox = <<>>
    /\ relays = NewDevice.relays /\ batteryMode = NewDevice.mode
    /\ charge = NewDevice.charge /\ lowSOCOpen = FALSE
    /\ loop = AtSample /\ sample = NoSample
    /\ sun \in PVPowers
    /\ faults = 0

-----------------------------------------------------------------------------
(* The process and its connection *)

\* main up to client.Connect
StartProcess ==
    /\ proc = "down"
    /\ proc' = "connecting"
    /\ UNCHANGED <<link, inbox, device, loop, sample, sun, faults>>

\* The first connection, and paho's automatic reconnection.
Connect ==
    /\ proc # "down" /\ link = "off"
    /\ link' = "up"
    /\ UNCHANGED <<proc, inbox, device, loop, sample, sun, faults>>

\* Mutant: the topic is subscribed once, on the first connection.
OnConnectOnce ==
    /\ link = "up" /\ faults = 0
    /\ link' = "subscribed"
    /\ UNCHANGED <<proc, inbox, device, loop, sample, sun, faults>>

\* The connection handler, called on every connection.
OnConnect ==
    /\ link = "up"
    /\ link' = "subscribed"
    /\ UNCHANGED <<proc, inbox, device, loop, sample, sun, faults>>

\* The broker refuses the subscription: a line in the log.
OnConnectFails ==
    /\ link = "up"
    /\ Fault
    /\ link' = "refused"
    /\ UNCHANGED <<proc, inbox, device, loop, sample, sun>>

\* Connect has returned: sim.client = client.  The callback may already have run.
SetClient ==
    /\ proc = "connecting" /\ link # "off"
    /\ proc' = "running"
    /\ UNCHANGED <<link, inbox, device, loop, sample, sun, faults>>

ConnectionLost ==
    /\ link # "off"
    /\ Fault
    /\ link' = "off" /\ inbox' = <<>>
    /\ UNCHANGED <<proc, device, loop, sample, sun>>

\* Everything but the broker's and the platform's state is gone.
Down ==
    /\ Fault
    /\ proc' = "down" /\ link' = "off" /\ inbox' = <<>>
    /\ relays' = NewDevice.relays /\ batteryMode' = NewDevice.mode
    /\ charge' = NewDevice.charge /\ lowSOCOpen' = FALSE
    /\ loop' = AtSample /\ sample' = NoSample
    /\ UNCHANGED sun

Crash == proc # "down" /\ Down

-----------------------------------------------------------------------------
(* handleCommand; a command is a device and the value of its parameter *)

\* set_relay for a load, set_mode for a battery; all else is answered with an error.
Supported(c) == IF c[1] = Battery THEN c[2] \in Modes
                ELSE c[1] \in Loads /\ c[2] \in {"on", "off"}

Execute(c) ==
    IF c[1] = Battery
      THEN batteryMode' = c[2] /\ UNCHANGED relays
      ELSE relays' = [relays EXCEPT ![c[1]] = (c[2] = "on")] /\ UNCHANGED batteryMode

\* The command is executed or not, and answered.
handleCommand ==
    /\ proc = "running" /\ inbox # <<>>
    /\ inbox' = Tail(inbox)
    /\ \/ Supported(Head(inbox)) /\ Execute(Head(inbox))
       \/ ~Supported(Head(inbox)) /\ UNCHANGED <<relays, batteryMode>>
    /\ UNCHANGED <<proc, link, charge, lowSOCOpen, loop, sample, sun, faults>>

\* A command that comes before sim.client is set: the answer has no client to go to,
\* and the process ends.
handleCommandPanics ==
    /\ proc = "connecting" /\ inbox # <<>>
    /\ Down

-----------------------------------------------------------------------------
(* The loop *)

Round == proc = "running"

relayPower(l) == IF relays[l] THEN LoadPower[l] ELSE 0

Moved == CASE batteryMode = "charging" -> charge + 1
           [] batteryMode = "discharging" -> charge - 1
           [] batteryMode = "idle" -> charge

\* Mutant: the mode is kept at the limits.
ModeAfterKept(c) == batteryMode

\* At a limit the battery goes idle.
ModeAfter(c) == IF c >= HardMax \/ c <= HardMin THEN "idle" ELSE batteryMode

PowerOf(mode) == CASE mode = "charging" -> -BatteryPower
                   [] mode = "discharging" -> BatteryPower
                   [] mode = "idle" -> 0

Within(c) == IF c > HardMax THEN HardMax ELSE IF c < HardMin THEN HardMin ELSE c

\* The PV curve, relayOn for each load, and batteryTelemetry: lock sections that touch
\* different state, so a command between them might as well have come before or after.
\* Two commands between them could show in the other order, which takes two commands on
\* their way and several loads.
Sample(p) ==
    /\ Round /\ loop = AtSample
    /\ sun' = p
    /\ sample' = [load |-> [l \in Loads |-> relayPower(l)],
                  battery |-> PowerOf(batteryMode)]
    /\ charge' = Within(Moved)
    /\ batteryMode' = ModeAfter(Moved)
    /\ loop' = AtPV
    /\ UNCHANGED <<proc, link, inbox, relays, lowSOCOpen, faults>>

\* publishState: the broker has the telemetry of this step.
publishState ==
    /\ Round /\ loop \notin {AtSample, AtEvent}
    /\ link # "off"
    /\ Advance
    /\ UNCHANGED <<proc, link, inbox, device, sun, faults>>

\* The token ends in an error, which is logged.
publishStateFails ==
    /\ Round /\ loop \notin {AtSample, AtEvent}
    /\ Fault
    /\ Advance
    /\ UNCHANGED <<proc, link, inbox, device, sun>>

shouldWarn == charge <= Low /\ ~lowSOCOpen

shouldRecover == charge >= Recover /\ lowSOCOpen

\* The event of this round.
EventCode == IF shouldWarn THEN "low_soc"
             ELSE IF shouldRecover THEN "soc_recovered" ELSE "none"

\* Mutant: the flag is never cleared.
SOCEventStuck ==
    /\ Round /\ loop = AtEvent
    /\ lowSOCOpen' = (lowSOCOpen \/ shouldWarn)
    /\ Advance
    /\ UNCHANGED <<proc, link, inbox, relays, batteryMode, charge, sun>>

\* publishBatterySOCEvent: the flag is set before the event is published.
SOCEvent ==
    /\ Round /\ loop = AtEvent
    /\ lowSOCOpen' = ((lowSOCOpen \/ shouldWarn) /\ ~shouldRecover)
    /\ Advance
    /\ UNCHANGED <<proc, link, inbox, relays, batteryMode, charge, sun>>

\* The event, if there is one, reaches the broker.
publishEvent ==
    /\ SOCEvent
    /\ EventCode # "none" => link # "off"
    /\ UNCHANGED faults

\* It is lost: logged, and not tried again.
publishEventFails ==
    /\ SOCEvent
    /\ EventCode # "none"
    /\ Fault

-----------------------------------------------------------------------------
Reconnect == StartProcess \/ Connect \/ OnConnect \/ SetClient
=============================================================================
