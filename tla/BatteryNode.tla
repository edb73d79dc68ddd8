---------------------------- MODULE BatteryNode ----------------------------
(***************************************************************************)
(* The firmware of the ESP32 battery node (firmware/esp32-battery): one    *)
(* thread runs loop() for ever.  Each round reconnects if it must, lets    *)
(* PubSubClient hand at most one command to onMessage, and publishes       *)
(* telemetry when the two-second timer is due.                             *)
(*                                                                         *)
(* The two MOSFETs see every digitalWrite, so setMode is a step per pin.   *)
(* millis() is an unsigned counter that wraps around; Wrap stands for      *)
(* 2^32.  WiFi, the broker and the clock are external.                     *)
(***************************************************************************)
EXTENDS Integers, Sequences

CONSTANTS
    Wrap,         \* 2^32, the modulus of millis()
    Interval,     \* 2000 ms
    MaxRound,     \* bound: how long one round of loop() takes when connected
    MaxInbox,     \* bound: commands waiting at the broker
    MaxFaults     \* bound: resets and lost links in one behaviour

ASSUME NodeAssumption ==
    /\ Interval \in Nat \ {0}
    /\ MaxRound \in Nat \ {0}
    /\ Wrap \in Nat /\ Interval + MaxRound <= Wrap
    /\ MaxInbox \in Nat
    /\ MaxFaults \in Nat

Modes == {"idle", "charging", "discharging"}

\* What onMessage tells apart in a command: a set_mode with a mode it knows, one
\* with another mode, another action, and a payload that is no JSON.
Commands == Modes \cup {"badMode", "otherAction", "badJson"}

VARIABLES
    pc,            \* where loop() stands
    linked,        \* mqtt.connected()
    inbox,         \* commands the broker still has to deliver
    cmd,           \* the command onMessage is at
    mode,
    chargePin,     \* the MOSFETs: TRUE is HIGH
    dischargePin,
    ledPin,
    millis,        \* millis()
    lastPubMs,
    round,         \* time this round of loop() has taken
    elapsed,       \* history: true time since lastPubMs was set, up to Interval
    told,          \* history: the mode of the last command acknowledged ok
    faults

pinVars == <<chargePin, dischargePin, ledPin>>
timeVars == <<millis, lastPubMs, round, elapsed>>
vars == <<pc, linked, inbox, cmd, mode, chargePin, dischargePin, ledPin, millis,
          lastPubMs, round, elapsed, told, faults>>

Fault == faults < MaxFaults /\ faults' = faults + 1

-----------------------------------------------------------------------------
(* Unsigned arithmetic *)

\* millis() one step later.
Later(t) == IF t + 1 = Wrap THEN 0 ELSE t + 1

\* a - b on unsigned integers.
Minus(a, b) == IF a >= b THEN a - b ELSE a - b + Wrap

\* a + b on unsigned integers.
Plus(a, b) == IF a + b >= Wrap THEN a + b - Wrap ELSE a + b

\* Mutant: the sum is compared instead of the difference.
DueBySum == millis >= Plus(lastPubMs, Interval)

Due == Minus(millis, lastPubMs) >= Interval

-----------------------------------------------------------------------------
\* setup(): setMode(0), and nothing connected yet.
Init ==
    /\ pc = "connect"
    /\ linked = FALSE
    /\ inbox = <<>>
    /\ cmd = "none"
    /\ mode = "idle"
    /\ chargePin = FALSE
    /\ dischargePin = FALSE
    /\ ledPin = FALSE
    /\ millis = 0
    /\ lastPubMs = 0
    /\ round = 0
    /\ elapsed = 0
    /\ told = "idle"
    /\ faults = 0

-----------------------------------------------------------------------------
(* loop() *)

\* mqtt.connected() holds.
Connected ==
    /\ pc = "connect" /\ linked
    /\ pc' = "poll"
    /\ UNCHANGED <<linked, inbox, cmd, mode, pinVars, timeVars, told, faults>>

\* connectWiFi and reconnectMQTT block the loop until the broker accepts: a new
\* clean session, with the command topic subscribed.  connectWiFi gives up after 40
\* tries and reconnectMQTT does not call it again; that the ESP32 then joins its network
\* by itself, as its WiFi library does, is assumed.
Reconnect ==
    /\ pc = "connect" /\ ~linked
    /\ linked' = TRUE
    /\ pc' = "poll"
    /\ UNCHANGED <<inbox, cmd, mode, pinVars, timeVars, told, faults>>

\* mqtt.loop() finds nothing to deliver.
PollEmpty ==
    /\ pc = "poll" /\ inbox = <<>>
    /\ pc' = "timer"
    /\ UNCHANGED <<linked, inbox, cmd, mode, pinVars, timeVars, told, faults>>

\* What onMessage does first with a command.
Handler(c) == IF c \in Modes THEN "charge" ELSE "refuse"

\* mqtt.loop() hands one command to onMessage.
Poll ==
    /\ pc = "poll" /\ inbox # <<>>
    /\ cmd' = Head(inbox)
    /\ inbox' = Tail(inbox)
    /\ pc' = Handler(Head(inbox))
    /\ UNCHANGED <<linked, mode, pinVars, timeVars, told, faults>>

\* Mutant: lastPubMs = millis() stands outside the if.
TimerResets ==
    /\ pc = "timer" /\ ~Due
    /\ lastPubMs' = millis
    /\ round' = 0
    /\ elapsed' = 0
    /\ pc' = "connect"
    /\ UNCHANGED <<linked, inbox, cmd, mode, pinVars, millis, told, faults>>

\* The timer is not due; loop() is called again.
TimerIdle ==
    /\ pc = "timer" /\ ~Due
    /\ round' = 0
    /\ pc' = "connect"
    /\ UNCHANGED <<linked, inbox, cmd, mode, pinVars, millis, lastPubMs, elapsed, told,
                   faults>>

\* The timer is due: publishTelemetry, whether or not it gets through.
TimerFires ==
    /\ pc = "timer" /\ Due
    /\ lastPubMs' = millis
    /\ round' = 0
    /\ elapsed' = 0
    /\ pc' = "connect"
    /\ UNCHANGED <<linked, inbox, cmd, mode, pinVars, millis, told, faults>>

-----------------------------------------------------------------------------
(* onMessage and setMode *)

\* setMode: the mode, then the first pin.
WriteCharge ==
    /\ pc = "charge"
    /\ mode' = cmd
    /\ chargePin' = (cmd = "charging")
    /\ pc' = "discharge"
    /\ UNCHANGED <<linked, inbox, cmd, dischargePin, ledPin, timeVars, told, faults>>

\* The second pin.
WriteDischarge ==
    /\ pc = "discharge"
    /\ dischargePin' = (mode = "discharging")
    /\ pc' = "led"
    /\ UNCHANGED <<linked, inbox, cmd, mode, chargePin, ledPin, timeVars, told, faults>>

WriteLed ==
    /\ pc = "led"
    /\ ledPin' = (mode # "idle")
    /\ pc' = "ack"
    /\ UNCHANGED <<linked, inbox, cmd, mode, chargePin, dischargePin, timeVars, told, faults>>

\* Mutant: onMessage does not return after the acknowledgement.
AckOkKeepsCommand ==
    /\ pc = "ack"
    /\ told' = cmd
    /\ pc' = "timer"
    /\ UNCHANGED <<linked, inbox, cmd, mode, pinVars, timeVars, faults>>

\* publishAck(commandId, true), then publishTelemetry.
AckOk ==
    /\ pc = "ack"
    /\ told' = cmd
    /\ cmd' = "none"
    /\ pc' = "timer"
    /\ UNCHANGED <<linked, inbox, mode, pinVars, timeVars, faults>>

\* Mutant: a refused mode switches the battery to idle.
RefuseIdles ==
    /\ pc = "refuse"
    /\ mode' = "idle"
    /\ chargePin' = FALSE
    /\ dischargePin' = FALSE
    /\ cmd' = "none"
    /\ pc' = "timer"
    /\ UNCHANGED <<linked, inbox, ledPin, timeVars, told, faults>>

\* publishAck(.., false, ..) for bad JSON, an unknown mode or another action.
Refuse ==
    /\ pc = "refuse"
    /\ cmd' = "none"
    /\ pc' = "timer"
    /\ UNCHANGED <<linked, inbox, mode, pinVars, timeVars, told, faults>>

-----------------------------------------------------------------------------
(* The world around the node *)

\* The platform or the gateway publishes a command for this node.
CommandArrives(c) ==
    /\ linked /\ Len(inbox) < MaxInbox
    /\ inbox' = Append(inbox, c)
    /\ UNCHANGED <<pc, linked, cmd, mode, pinVars, timeVars, told, faults>>

\* Time passes.  A round of loop() ends long before millis() wraps around, unless
\* it is blocked in reconnectMQTT.
Clock ==
    /\ millis' = Later(millis)
    /\ \/ pc = "connect" /\ ~linked /\ UNCHANGED round
       \/ round < MaxRound /\ round' = round + 1
    /\ elapsed' = IF elapsed < Interval THEN elapsed + 1 ELSE Interval
    /\ UNCHANGED <<pc, linked, inbox, cmd, mode, pinVars, lastPubMs, told, faults>>

\* The link breaks: the session and what it had queued are gone.
LinkLost ==
    /\ linked
    /\ Fault
    /\ linked' = FALSE
    /\ inbox' = <<>>
    /\ UNCHANGED <<pc, cmd, mode, pinVars, timeVars, told>>

\* A reset: the pins go low, then setup() runs.
Reset ==
    /\ Fault
    /\ pc' = "connect"
    /\ linked' = FALSE
    /\ inbox' = <<>>
    /\ cmd' = "none"
    /\ mode' = "idle"
    /\ chargePin' = FALSE
    /\ dischargePin' = FALSE
    /\ ledPin' = FALSE
    /\ millis' = 0
    /\ lastPubMs' = 0
    /\ round' = 0
    /\ elapsed' = 0
    /\ told' = "idle"

-----------------------------------------------------------------------------
setMode == WriteCharge \/ WriteDischarge \/ WriteLed

onMessage == setMode \/ AckOk \/ Refuse

loop ==
    \/ Connected \/ Reconnect
    \/ PollEmpty \/ Poll \/ onMessage
    \/ TimerIdle \/ TimerFires

World ==
    \/ \E c \in Commands : CommandArrives(c)
    \/ Clock
    \/ LinkLost
    \/ Reset

Next == loop \/ World

\* The only thread runs on, a lost link comes back, and time passes.
Fairness == WF_vars(loop) /\ WF_vars(Clock)

Spec == Init /\ [][Next]_vars

FairSpec == Spec /\ Fairness

-----------------------------------------------------------------------------
(* Correctness *)

TypeOK ==
    /\ pc \in {"connect", "poll", "charge", "discharge", "led", "ack", "refuse", "timer"}
    /\ linked \in BOOLEAN
    /\ inbox \in Seq(Commands)
    /\ cmd \in Commands \cup {"none"}
    /\ pc \in {"charge", "discharge", "led", "ack"} <=> cmd \in Modes
    /\ mode \in Modes
    /\ chargePin \in BOOLEAN /\ dischargePin \in BOOLEAN /\ ledPin \in BOOLEAN
    /\ millis \in 0 .. Wrap - 1 /\ lastPubMs \in 0 .. Wrap - 1
    /\ round \in 0 .. MaxRound /\ elapsed \in 0 .. Interval
    /\ told \in Modes
    /\ faults \in 0 .. MaxFaults

\* Outside setMode the two MOSFETs are what the reported mode says, after any
\* sequence of commands, refusals, lost links and resets (setMode, setup).
PinsFollowMode ==
    pc \notin {"discharge", "led"} =>
        /\ chargePin = (mode = "charging")
        /\ dischargePin = (mode = "discharging")

\* Between two commands the node does, with its mode and with both MOSFETs, what
\* its last ok acknowledgement said, or nothing since the reset: a refused command
\* changes nothing (onMessage, setMode, setup).
DoesWhatItAcknowledged ==
    cmd = "none" => /\ mode = told
                    /\ chargePin = (told = "charging")
                    /\ dischargePin = (told = "discharging")

\* The timer never fires before two seconds have really passed, wherever
\* millis() wraps around (the unsigned difference in loop()).
TimerNeverEarly == [][TimerFires => elapsed = Interval]_vars

\* Telemetry keeps coming: the timer fires again and again whatever commands
\* arrive and however often millis() wraps around.
TelemetryKeepsComing == []<><<TimerFires>>_vars
=============================================================================
