-------------------------------- MODULE Supervisor --------------------------------
(***************************************************************************)
(* The supervisor of the resident bimanual firmware (binary_control.c with  *)
(* the main loop of single_arm_app.c): what each host frame does, what      *)
(* BinaryControl_Service does once per pass of the loop, and the interrupts *)
(* that come in between.                                                    *)
(*                                                                         *)
(* One pass is HOST (frames are parsed and handled), then the guards of     *)
(* BinaryControl_Service, then TRACK (Host_ServiceV2TrackingFeedback), then *)
(* EXEC (Host_ServiceV2Executor).  An interrupt may come between any two of *)
(* these; within one of them its effect is the same as before or after it.  *)
(*                                                                         *)
(* Time is counted in coarse units of the two timeouts.  A verified torque  *)
(* removal waits tens of milliseconds for twelve servos, several control    *)
(* periods: whoever performs one finds a missed control tick afterwards     *)
(* (Blocked).  Trajectories are left to StreamExecutor: here the outcome of *)
(* a step is a choice.                                                      *)
(***************************************************************************)
EXTENDS Integers

CONSTANTS
    Timeout,        \* HOST_BINARY_HEARTBEAT_TIMEOUT_MS, in units of time
    SettleMax,      \* HOST_BIMANUAL_TERMINAL_SETTLE_MAX_MS, in units of time
    SettlePairs,    \* HOST_BIMANUAL_TERMINAL_SETTLE_CONSECUTIVE_PAIRS
    MaxFrames,      \* host frames the loop may handle in one pass
    Orderly         \* the host prepares no served stream and does not mix the bring-up
                    \* of the right arm with a configured pair

ASSUME SupervisorAssumption ==
    /\ Timeout \in Nat \ {0}
    /\ SettleMax \in Nat
    /\ SettlePairs \in Nat \ {0}
    /\ MaxFrames \in Nat \ {0}
    /\ Orderly \in BOOLEAN

VARIABLES
    phase,        \* where the main loop is in its pass
    frames,       \* frames handled in this pass
    safety,       \* host_binary_safety
    age,          \* time since the last heartbeat, or Never
    grace,        \* time since host_bimanual_arm_watchdog_grace_started_ms
    stopLatched,  \* host_stop_latched
    configured,   \* host_binary_servos_configured
    output,       \* host_right_arm_output_active
    clockActive,  \* host_v2_executor_clock_active
    startPending, \* host_v2_executor_start_pending
    stopPending,  \* host_v2_coordinated_stop_pending
    settle,       \* host_v2_terminal_settle_active
    settleAge,    \* time since host_v2_terminal_settle_started_ms
    pairs,        \* pairs completed since the settle baseline
    anchorReady,  \* host_v2_shadow_anchor_ready
    exec,         \* state of the stream executor
    tracking,     \* in-motion telemetry: off, idle, or a pair pending
    fresh,        \* a dispatch completed since the last pair was requested
    dispatch,     \* dispatch_state of the dual-bus dispatch
    event,        \* control_tick_pending and control_tick_missed_count
    torque        \* torque of each arm: off, on, or unknown after a bus failure

requests == <<clockActive, startPending, stopPending>>
settling == <<settle, settleAge, pairs>>
telemetry == <<tracking, fresh>>
arms == <<configured, output, torque>>
vars == <<phase, frames, safety, age, grace, stopLatched, configured, output, clockActive,
          startPending, stopPending, settle, settleAge, pairs, anchorReady, exec, tracking,
          fresh, dispatch, event, torque>>

S == INSTANCE Safety WITH Wrap <- Timeout + 3, MaxSilence <- Timeout, silence <- age

Never == Timeout + 2    \* no heartbeat since boot
Stale == Timeout + 1    \* longer ago than the timeout
Torque == {"OFF", "ON", "UNKNOWN"}
Streaming == {"RUNNING", "SUCCEEDED"}

AllOff == [left |-> "OFF", right |-> "OFF"]
AllOn == [left |-> "ON", right |-> "ON"]
Busy == tracking # "OFF"    \* the right bus refuses writes while telemetry is on

-----------------------------------------------------------------------------
(* Torque removal *)

\* what a verified removal leaves behind on an arm, known off or not
Removed == {"OFF", "UNKNOWN"}

\* every frame and every guard that removes torque blocks for many control periods
Blocked == event' = "MISSED"

\* variant: only one bus is told to remove torque
StopOutcome_RightOnly(outcome) == [outcome EXCEPT !.left = torque.left]

StopOutcome(outcome) == outcome

\* Host_PerformV2CoordinatedStop, with the outcome of both removals
Perform(outcome) ==
    /\ tracking' = "OFF"
    /\ settle' = FALSE
    /\ pairs' = 0
    /\ torque' = StopOutcome(outcome)
    /\ configured' = FALSE
    /\ output' = FALSE
    /\ grace' = Stale
    /\ stopPending' = FALSE
    /\ startPending' = FALSE
    /\ stopLatched' = TRUE
    /\ Blocked

Outcomes == [left : Removed, right : Removed]

\* the safety state after a stop that leaves outcome behind
AfterStop(s, outcome) == IF outcome = AllOff THEN s ELSE S!ReportFault(s)

\* Host_RequestV2CoordinatedStop
RequestStop ==
    /\ dispatch' = "FAULTED"
    /\ stopPending' = TRUE
    /\ startPending' = FALSE
    /\ clockActive' = FALSE
    /\ stopLatched' = TRUE

-----------------------------------------------------------------------------
(* Host frames *)

Frame ==
    /\ phase = "HOST"
    /\ frames < MaxFrames
    /\ frames' = frames + 1
    /\ UNCHANGED phase

Heartbeat ==
    /\ Frame
    /\ age' = 0
    /\ safety' = S!OnHeartbeat(safety)
    /\ UNCHANGED <<grace, stopLatched, arms, requests, settling, anchorReady, exec, telemetry,
                   dispatch, event>>

\* STREAM_OPEN
Open ==
    /\ Frame
    /\ exec # "RUNNING"
    /\ exec' = "PRIMING"
    /\ clockActive' = FALSE
    /\ startPending' = FALSE
    /\ settle' = FALSE
    /\ pairs' = 0
    /\ UNCHANGED <<safety, age, grace, stopLatched, arms, stopPending, settleAge, anchorReady,
                   telemetry, dispatch, event>>

\* A batch in priming: the executor admits it whatever the supervisor then answers.
\* PRIMED stands for PRIMING with the minimum of samples.
Batch(primed, telemetryStarts) ==
    /\ Frame
    /\ exec \in {"PRIMING", "PRIMED"}
    /\ exec' = IF primed THEN "PRIMED" ELSE "PRIMING"
    /\ IF /\ primed
          /\ configured /\ output /\ S!AcceptsSetpoint(safety)
          /\ anchorReady
          /\ tracking = "OFF" /\ telemetryStarts
       THEN /\ tracking' = "IDLE"
            /\ fresh' = FALSE
            /\ settle' = FALSE
            /\ pairs' = 0
            /\ event' = "NONE"
            /\ startPending' = TRUE
            /\ clockActive' = TRUE
       ELSE UNCHANGED <<telemetry, settle, pairs, event, startPending, clockActive>>
    /\ UNCHANGED <<safety, age, grace, stopLatched, arms, stopPending, settleAge, anchorReady,
                   dispatch>>

\* PREPARE_SHADOW with a bind request: take torque off both arms and read them.  A
\* running stream refuses the left arm only.
PrepareShadow(outcome, readable) ==
    LET refused == exec = "RUNNING" \/ clockActive
        ok == ~refused /\ ~Busy /\ outcome = AllOff /\ readable
        left == IF refused THEN torque.left ELSE outcome.left
        right == IF Busy THEN torque.right ELSE outcome.right
    IN  /\ Frame
        /\ Orderly => ~clockActive /\ ~Busy
        /\ torque' = [left |-> left, right |-> right]
        /\ configured' = FALSE
        /\ output' = FALSE
        /\ anchorReady' = ok
        /\ stopLatched' = (stopLatched \/ ~ok)
        /\ safety' = IF ok THEN safety ELSE S!ReportFault(safety)
        /\ IF refused /\ Busy THEN UNCHANGED event ELSE Blocked
        /\ UNCHANGED <<age, grace, requests, settling, exec, telemetry, dispatch>>

\* ARM_REQUEST with the right calibration hash: configure and energise both arms
\* unless that was done, then ask the safety machine
ArmConfigures ==
    /\ Frame
    /\ ~configured /\ ~Busy
    /\ torque' = AllOn
    /\ output' = TRUE
    /\ configured' = TRUE
    /\ grace' = 0
    /\ safety' = S!RequestArm(safety, TRUE)
    /\ Blocked
    /\ UNCHANGED <<age, stopLatched, requests, settling, anchorReady, exec, telemetry, dispatch>>

ArmFails(outcome) ==
    /\ Frame
    /\ ~configured
    /\ torque' = [outcome EXCEPT !.right = IF Busy THEN torque.right ELSE @]
    /\ Blocked
    /\ UNCHANGED <<safety, age, grace, stopLatched, configured, output, requests, settling,
                   anchorReady, exec, telemetry, dispatch>>

ArmAgain ==
    /\ Frame
    /\ configured
    /\ safety' = S!RequestArm(safety, TRUE)
    /\ UNCHANGED <<age, grace, stopLatched, arms, requests, settling, anchorReady, exec,
                   telemetry, dispatch, event>>

Enable ==
    /\ Frame
    /\ safety' = S!RequestEnable(safety, age)
    /\ UNCHANGED <<age, grace, stopLatched, arms, requests, settling, anchorReady, exec,
                   telemetry, dispatch, event>>

Held(s) == IF S!AcceptsSetpoint(s) THEN S!RequestHold(s) ELSE s

SafeStop(outcome) ==
    /\ Frame
    /\ Perform(outcome)
    /\ safety' = AfterStop(Held(safety), outcome)
    /\ dispatch' = IF dispatch = "ACTIVE" THEN "FAULTED" ELSE dispatch
    /\ UNCHANGED <<age, clockActive, settleAge, anchorReady, exec, fresh>>

Cleared(s) ==
    IF s.state \in S!Latched THEN S!ClearLatchedStop(s, TRUE)
    ELSE IF s.state # "SAFE_DISABLED" THEN S!RequestDisable(s)
    ELSE s

\* CLEAR_FAULT, after the left arm has been read inside its limits
ClearFault ==
    /\ Frame
    /\ stopLatched
    /\ safety' = Cleared(safety)
    /\ stopLatched' = FALSE
    /\ UNCHANGED <<age, grace, arms, requests, settling, anchorReady, exec, telemetry, dispatch,
                   event>>

Hold ==
    /\ Frame
    /\ S!AcceptsSetpoint(safety)
    /\ safety' = S!RequestHold(safety)
    /\ stopLatched' = TRUE
    /\ UNCHANGED <<age, grace, arms, requests, settling, anchorReady, exec, telemetry, dispatch,
                   event>>

\* variant: a refused write to the right bus is not a failure
RightFails_WriteIgnored(outcome) == output /\ ~Busy /\ outcome.right # "OFF"

\* the right arm is marked as energised and its torque was not removed
RightFails(outcome) == output /\ (Busy \/ outcome.right # "OFF")

\* DISABLE answers OK
DisableSucceeds(outcome) == outcome.left = "OFF" /\ ~RightFails(outcome)

\* DISABLE: the left arm always, the right arm if it is marked as energised
Disable(outcome) ==
    /\ Frame
    /\ torque' = [left |-> outcome.left,
                  right |-> IF ~output \/ Busy THEN torque.right ELSE outcome.right]
    /\ configured' = FALSE
    /\ output' = RightFails(outcome)
    /\ stopLatched' = (stopLatched \/ ~DisableSucceeds(outcome))
    /\ safety' = IF DisableSucceeds(outcome) THEN S!RequestDisable(safety)
                 ELSE S!ReportFault(S!RequestDisable(safety))
    /\ Blocked
    /\ UNCHANGED <<age, grace, requests, settling, anchorReady, exec, telemetry, dispatch>>

RightArmDisable(outcome) ==
    LET ok == ~Busy /\ outcome.right = "OFF"
    IN  /\ Frame
        /\ Orderly => ~configured
        /\ torque' = [torque EXCEPT !.right = IF Busy THEN @ ELSE outcome.right]
        /\ output' = (output /\ ~ok)
        /\ stopLatched' = (stopLatched \/ ~ok)
        /\ safety' = IF ok THEN safety ELSE S!ReportFault(safety)
        /\ IF Busy THEN UNCHANGED event ELSE Blocked
        /\ UNCHANGED <<age, grace, configured, requests, settling, anchorReady, exec, telemetry,
                       dispatch>>

\* The bring-up frames of the right arm: enable torque, configure, jog
OneShotPermitted ==
    /\ safety.state = "SAFE_DISABLED"
    /\ ~stopLatched
    /\ age <= Timeout

RightArmOneShot(result, marked) ==
    /\ Frame
    /\ OneShotPermitted
    /\ torque' = [torque EXCEPT !.right = result]
    /\ output' = (output \/ marked)
    /\ UNCHANGED <<safety, age, grace, stopLatched, configured, requests, settling, anchorReady,
                   exec, telemetry, dispatch, event>>

\* a torque enable that reads back, or does not
RightArmEnableOnce ==
    /\ ~Busy
    /\ RightArmOneShot("ON", TRUE) \/ RightArmOneShot("UNKNOWN", FALSE)

\* a configuration marks the arm before it takes its torque off
RightArmConfigureOnce ==
    IF Busy THEN RightArmOneShot(torque.right, TRUE)
    ELSE \E result \in Removed : RightArmOneShot(result, TRUE)

RightArmJogOnce == ~Busy /\ torque.right # "OFF" /\ RightArmOneShot(torque.right, TRUE)

HostFrame ==
    \/ Heartbeat \/ Open \/ ArmConfigures \/ ArmAgain \/ Enable \/ ClearFault \/ Hold
    \/ RightArmEnableOnce \/ RightArmConfigureOnce \/ RightArmJogOnce
    \/ \E b, c \in BOOLEAN : Batch(b, c)
    \/ \E outcome \in Outcomes :
          \/ ArmFails(outcome) \/ SafeStop(outcome) \/ Disable(outcome)
          \/ RightArmDisable(outcome)
          \/ \E readable \in BOOLEAN : PrepareShadow(outcome, readable)

\* BinaryControl_HandleHostUartError: the rest of the burst is not parsed
ReceiveFault ==
    /\ phase = "HOST"
    /\ frames' = MaxFrames
    /\ safety' = Held(safety)
    /\ stopLatched' = TRUE
    /\ UNCHANGED <<phase, age, grace, arms, requests, settling, anchorReady, exec, telemetry,
                   dispatch, event>>

-----------------------------------------------------------------------------
(* BinaryControl_Service *)

\* variant: the watchdog guards motion only
WatchdogExpired_ActiveOnly ==
    output /\ safety.state = "ACTIVE" /\ grace > Timeout /\ age > Timeout

\* the guards: a stop that is due, a transmit fault, silence, a latched stop
WatchdogExpired == output /\ (age = Never \/ (grace > Timeout /\ age > Timeout))

Guards(transmitFault, outcome) ==
    LET held == IF transmitFault THEN Held(safety) ELSE safety
        ticked == S!TickSafety(held, age)
        latched == \/ stopLatched \/ transmitFault
                   \/ held.state = "ACTIVE" /\ age > Timeout
                   \/ ticked.state = "HOLD"
        stop == \/ stopPending \/ dispatch = "FAULTED"
                \/ WatchdogExpired
                \/ latched /\ output
    IN  /\ phase = "HOST"
        /\ phase' = "TRACK"
        /\ IF stop
           THEN /\ Perform(outcome)
                /\ dispatch' = "FAULTED"
                /\ safety' = AfterStop(ticked, outcome)
                /\ UNCHANGED <<clockActive, settleAge, fresh>>
           ELSE /\ stopLatched' = latched
                /\ safety' = ticked
                /\ UNCHANGED <<grace, arms, requests, settling, telemetry, dispatch, event>>
        /\ UNCHANGED <<frames, age, anchorReady, exec>>

\* Host_ServiceV2TrackingFeedback
Tracked ==
    /\ phase = "TRACK"
    /\ phase' = "EXEC"
    /\ UNCHANGED <<frames, safety, age, grace, arms, fresh, event>>

TrackOff ==
    /\ Tracked
    /\ tracking = "OFF"
    /\ UNCHANGED <<stopLatched, requests, settling, anchorReady, exec, tracking, dispatch>>

\* the third lost pair, a measurement out of range, or a tracking error
TrackFault ==
    /\ Tracked
    /\ tracking = "PENDING"
    /\ tracking' = "IDLE"
    /\ exec' \in {exec} \cup (IF exec \in Streaming THEN {"ENDED"} ELSE {})
    /\ RequestStop
    /\ UNCHANGED <<settling, anchorReady>>

\* Polling: what is left of the pending pair and how many settled pairs there are
\* now.  A pair may still be pending, be lost, or be measured; measured outside the
\* terminal tolerance it starts the count again.
Polled ==
    IF tracking = "IDLE" THEN {<<"IDLE", pairs>>}
    ELSE {<<"PENDING", pairs>>, <<"IDLE", pairs>>} \cup
         (IF exec \notin Streaming THEN {}
          ELSE IF settle THEN {<<"IDLE", pairs + 1>>, <<"IDLE", 0>>}
          ELSE {<<"IDLE", 0>>})

\* the next pair is requested when the buses are free and there is a reason to
MayRequest(polled) ==
    /\ polled[1] = "IDLE"
    /\ dispatch = "IDLE"
    /\ exec \in Streaming
    /\ IF settle THEN polled[2] < SettlePairs ELSE fresh

TrackRequestFails(polled) ==
    /\ phase = "TRACK"
    /\ phase' = "EXEC"
    /\ tracking # "OFF"
    /\ MayRequest(polled)
    /\ tracking' \in {"IDLE", "OFF"}
    /\ pairs' = polled[2]
    /\ RequestStop
    /\ UNCHANGED <<frames, safety, age, grace, arms, fresh, event, settle, settleAge,
                   anchorReady, exec>>

\* variant: the timer is looked at between pairs only
SettleExpired_WhenIdle == settle /\ tracking = "IDLE" /\ settleAge > SettleMax

SettleExpired == settle /\ settleAge > SettleMax

Settled(polled) == polled[1] = "IDLE" /\ polled[2] >= SettlePairs /\ dispatch = "IDLE"

TrackPair(polled) ==
    LET requested == MayRequest(polled)
    IN  /\ phase = "TRACK"
        /\ phase' = "EXEC"
        /\ tracking # "OFF"
        /\ fresh' = (fresh /\ (settle \/ ~requested))
        /\ IF SettleExpired
           THEN /\ RequestStop
                /\ tracking' = IF requested THEN "PENDING" ELSE polled[1]
                /\ pairs' = polled[2]
                /\ UNCHANGED <<settle, settleAge, anchorReady>>
           ELSE IF settle /\ ~requested /\ Settled(polled)
           THEN /\ anchorReady' = TRUE
                /\ settle' = FALSE
                /\ pairs' = 0
                /\ tracking' = "OFF"
                /\ UNCHANGED <<stopLatched, requests, settleAge, dispatch>>
           ELSE /\ tracking' = IF requested THEN "PENDING" ELSE polled[1]
                /\ pairs' = polled[2]
                /\ UNCHANGED <<stopLatched, requests, settle, settleAge, anchorReady, dispatch>>
        /\ UNCHANGED <<frames, safety, age, grace, arms, event, exec>>

\* Host_ServiceV2Executor
Executed ==
    /\ phase = "EXEC"
    /\ phase' = "HOST"
    /\ frames' = 0
    /\ UNCHANGED <<safety, age, grace, arms, telemetry>>

ExecIdle ==
    /\ Executed
    /\ ~clockActive \/ event = "NONE"
    /\ UNCHANGED <<stopLatched, requests, settling, anchorReady, exec, dispatch, event>>

TakeEvent == clockActive /\ event # "NONE" /\ event' = "NONE"

\* variant: missed ticks are not looked at
Unready_MissedTicks == dispatch # "IDLE" \/ tracking = "PENDING"

Unready == event = "MISSED" \/ dispatch # "IDLE" \/ tracking = "PENDING"

ExecUnready ==
    /\ Executed
    /\ TakeEvent
    /\ Unready
    /\ RequestStop
    /\ UNCHANGED <<settling, anchorReady, exec>>

\* the executor may step: it runs, or it starts on this very event
Steppable == IF startPending THEN exec = "PRIMED" ELSE exec = "RUNNING"

\* start, step, conversion to servo units or launch fails
ExecFails ==
    /\ Executed
    /\ TakeEvent
    /\ ~Unready
    /\ exec' \in {exec} \cup (IF Steppable THEN {"RUNNING", "SUCCEEDED", "ENDED"} ELSE {})
    /\ anchorReady' = (anchorReady /\ ~(startPending /\ exec' # exec))
    /\ RequestStop
    /\ UNCHANGED settling

ExecLaunch ==
    /\ Executed
    /\ TakeEvent
    /\ ~Unready
    /\ Steppable
    /\ exec' \in Streaming
    /\ startPending' = FALSE
    /\ anchorReady' = (anchorReady /\ ~startPending)
    /\ dispatch' = "ACTIVE"
    /\ IF exec' = "SUCCEEDED"
       THEN /\ clockActive' = FALSE
            /\ settle' = TRUE
            /\ settleAge' = 0
            /\ pairs' = 0
       ELSE UNCHANGED <<clockActive, settling>>
    /\ UNCHANGED <<stopPending, stopLatched>>

Service ==
    \/ \E t \in BOOLEAN, outcome \in Outcomes : Guards(t, outcome)
    \/ TrackOff \/ TrackFault
    \/ \E polled \in Polled : TrackRequestFails(polled) \/ TrackPair(polled)
    \/ ExecIdle \/ ExecUnready \/ ExecFails \/ ExecLaunch

-----------------------------------------------------------------------------
(* Interrupts and time *)

ControlInterrupt ==
    /\ event' = IF event = "NONE" THEN "DUE" ELSE "MISSED"
    /\ UNCHANGED <<phase, frames, safety, age, grace, stopLatched, arms, requests, settling,
                   anchorReady, exec, telemetry, dispatch>>

DispatchEnds ==
    /\ dispatch = "ACTIVE"
    /\ \/ dispatch' = "IDLE" /\ fresh' = TRUE
       \/ dispatch' = "FAULTED" /\ UNCHANGED fresh
    /\ UNCHANGED <<phase, frames, safety, age, grace, stopLatched, arms, requests, settling,
                   anchorReady, exec, tracking, event>>

UpTo(limit, n) == IF n < limit THEN n + 1 ELSE n

Elapse ==
    /\ age' = IF age = Never THEN age ELSE UpTo(Stale, age)
    /\ grace' = UpTo(Stale, grace)
    /\ settleAge' = IF settle THEN UpTo(SettleMax + 1, settleAge) ELSE settleAge
    /\ UNCHANGED <<phase, frames, safety, stopLatched, arms, requests, settle, pairs,
                   anchorReady, exec, telemetry, dispatch, event>>

Init ==
    /\ phase = "HOST"
    /\ frames = 0
    /\ safety = S!CompleteBoot(S!Initial, TRUE)
    /\ age = Never
    /\ grace = 0
    /\ stopLatched = FALSE
    /\ configured = FALSE
    /\ output = FALSE
    /\ clockActive = FALSE
    /\ startPending = FALSE
    /\ stopPending = FALSE
    /\ settle = FALSE
    /\ settleAge = 0
    /\ pairs = 0
    /\ anchorReady = FALSE
    /\ exec = "CLOSED"
    /\ tracking = "OFF"
    /\ fresh = FALSE
    /\ dispatch = "IDLE"
    /\ event = "NONE"
    /\ torque = AllOff

Next ==
    \/ HostFrame \/ ReceiveFault
    \/ Service
    \/ ControlInterrupt \/ DispatchEnds \/ Elapse

Spec == Init /\ [][Next]_vars

\* The loop keeps turning, time passes, a transfer ends or fails.
FairSpec == Spec /\ WF_vars(Service) /\ WF_vars(Elapse) /\ WF_vars(DispatchEnds)

-----------------------------------------------------------------------------
(* Properties *)

TypeOK ==
    /\ phase \in {"HOST", "TRACK", "EXEC"}
    /\ frames \in 0..MaxFrames
    /\ safety \in S!Record
    /\ age \in 0..Never
    /\ grace \in 0..Stale
    /\ settleAge \in 0..(SettleMax + 1)
    /\ pairs \in 0..SettlePairs
    /\ stopLatched \in BOOLEAN /\ stopPending \in BOOLEAN /\ startPending \in BOOLEAN
    /\ configured \in BOOLEAN /\ output \in BOOLEAN /\ clockActive \in BOOLEAN
    /\ settle \in BOOLEAN /\ anchorReady \in BOOLEAN /\ fresh \in BOOLEAN
    /\ exec \in {"CLOSED", "PRIMING", "PRIMED", "RUNNING", "SUCCEEDED", "ENDED"}
    /\ tracking \in {"OFF", "IDLE", "PENDING"}
    /\ dispatch \in {"IDLE", "ACTIVE", "FAULTED"}
    /\ event \in {"NONE", "DUE", "MISSED"}
    /\ torque \in [left : Torque, right : Torque]

Energised == "ON" \in {torque.left, torque.right}

Launches == dispatch # "ACTIVE" /\ dispatch' = "ACTIVE"

\* Goal positions reach the servos only while motion is enabled, no stop is latched,
\* and both arms are known to be energised and under the watchdog.
LaunchOnlyWhenEnabled ==
    [][Launches => /\ safety.state = "ACTIVE"
                   /\ ~stopLatched
                   /\ output
                   /\ torque = AllOn]_vars

\* An arm that is known to be energised is marked so, which is what the watchdog, the
\* stop latch and DISABLE look at, or its torque is about to be removed.
TorqueIsWatched == Energised => output \/ stopPending

\* A fault is never without its latched stop.
FaultIsLatched == safety.state = "FAULT" => stopLatched

\* Once the guards have passed, a stream whose stop is latched has missed a control
\* tick: this, and nothing else, is what ends it in the same pass.
StoppedStreamMissedATick == clockActive /\ stopLatched /\ phase # "HOST" => event = "MISSED"

\* Contract "verified_torque_disable": a DISABLE that answers OK leaves no arm energised.
DisableTellsTheTruth ==
    [][\A outcome \in Outcomes :
          Disable(outcome) /\ DisableSucceeds(outcome) => ~Energised']_vars

\* A requested coordinated stop removes torque from both arms.
StopRemovesTorque == stopPending ~> ~Energised

\* Contract "heartbeat_timeout": torque does not stay on behind a silent host.
SilentHostLosesTorque == []<>(age <= Timeout \/ ~Energised)

\* A stream that has succeeded settles, or is stopped.
SettleEnds == settle ~> ~settle

-----------------------------------------------------------------------------
(* The inductive invariant of an orderly host, one frame per pass *)

\* who knows about the torque of each arm
TorqueMarked ==
    /\ torque.right = "ON" => output
    /\ torque.left = "ON" => configured \/ stopPending
    /\ configured => torque = AllOn /\ output

SafetySound ==
    /\ S!RequestsMatchState
    /\ safety.state # "BOOT"
    /\ ~safety.estop

\* a frame of this pass has been handled and the guards have not run yet
Unguarded == phase = "HOST" /\ frames > 0

\* a latched stop over an energised pair outlives the guards only together with a
\* dispatch fault, which the next guards act on
LatchIsActedOn == stopLatched /\ output /\ ~Unguarded => dispatch = "FAULTED"

\* a configured pair is disabled logically only by a CLEAR_FAULT after a dispatch fault
ConfiguredIsArmed ==
    configured /\ safety.state = "SAFE_DISABLED" => Unguarded /\ dispatch = "FAULTED"

\* a stream that will be stepped is one that may move, or that the guards will stop
StreamMayMove ==
    clockActive /\ event # "MISSED" =>
        \/ safety.state = "ACTIVE" /\ ~stopLatched /\ configured
        \/ Unguarded /\ stopLatched /\ output
        \/ dispatch = "FAULTED"

\* a stream that is no longer served was stopped, and its arms are off or will be
AbandonedStream ==
    exec = "RUNNING" /\ ~clockActive =>
        dispatch = "FAULTED" /\ (stopPending \/ ~Energised \/ Unguarded)

\* pairs are counted while a stream settles, and no pair is requested beyond the last
PairsCounted ==
    /\ ~settle => pairs = 0
    /\ tracking = "PENDING" => pairs < SettlePairs

\* All of it together is inductive when the host is orderly and one frame is handled
\* in a pass.
IInv ==
    /\ TypeOK /\ SafetySound /\ FaultIsLatched /\ TorqueMarked
    /\ LatchIsActedOn /\ ConfiguredIsArmed /\ StreamMayMove /\ AbandonedStream
    /\ StoppedStreamMissedATick /\ PairsCounted
==================================================================================
