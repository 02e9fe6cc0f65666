----------------------------- MODULE SupervisorProofs -----------------------------
(***************************************************************************)
(* Theorems about the supervisor, for every timeout, settle time and number *)
(* of settled pairs, against a host that is orderly and has one frame       *)
(* handled in a pass of the main loop.                                      *)
(***************************************************************************)
EXTENDS Supervisor, TLAPS

-----------------------------------------------------------------------------
(* The safety machine as the supervisor uses it: what each operation does to  *)
(* the state of a sound record                                               *)

Sound(s) ==
    /\ s \in S!Record
    /\ ~s.torqueOff <=> s.state \in {"ACTIVE", "HOLD"}
    /\ s.hold <=> s.state = "HOLD"
    /\ ~s.estop
    /\ s.state # "BOOT"

\* A setpoint is accepted in ACTIVE only, and holding leads from there to HOLD.
LEMMA HeldState ==
    ASSUME NEW s, Sound(s)
    PROVE  /\ S!AcceptsSetpoint(s) <=> s.state = "ACTIVE"
           /\ Sound(Held(s)) /\ Sound(S!RequestHold(s))
           /\ Held(s).state = IF s.state = "ACTIVE" THEN "HOLD" ELSE s.state
           /\ S!RequestHold(s).state = IF s.state = "ACTIVE" THEN "HOLD" ELSE s.state
<1> USE DEF Sound, S!Record, S!States
<1>1. S!AcceptsSetpoint(s) <=> s.state = "ACTIVE"
  BY DEF S!AcceptsSetpoint
<1>2. Sound(S!RequestHold(s))
  BY DEF S!RequestHold
<1>3. S!RequestHold(s).state = IF s.state = "ACTIVE" THEN "HOLD" ELSE s.state
  BY DEF S!RequestHold
<1>4. Held(s) = IF s.state = "ACTIVE" THEN S!RequestHold(s) ELSE s
  BY <1>1 DEF Held
<1>5. Held(s) = S!RequestHold(s)
  BY <1>4 DEF S!RequestHold
<1> HIDE DEF Sound, S!Record, S!States
<1>6. QED
  BY <1>1, <1>2, <1>3, <1>5

\* The requests that arm and enable.
LEMMA ArmState ==
    ASSUME NEW s, Sound(s), NEW a
    PROVE  /\ Sound(S!OnHeartbeat(s)) /\ S!OnHeartbeat(s).state = s.state
           /\ Sound(S!RequestArm(s, TRUE))
           /\ S!RequestArm(s, TRUE).state =
                  IF s.state = "SAFE_DISABLED" THEN "ARMED" ELSE s.state
           /\ Sound(S!RequestEnable(s, a))
           /\ \/ S!RequestEnable(s, a).state = s.state
              \/ s.state = "ARMED" /\ S!RequestEnable(s, a).state = "ACTIVE"
<1> USE DEF Sound, S!Record, S!States
<1>1. Sound(S!OnHeartbeat(s)) /\ S!OnHeartbeat(s).state = s.state
  BY DEF S!OnHeartbeat
<1>2. Sound(S!RequestArm(s, TRUE))
  BY DEF S!RequestArm, S!MayArm
<1>3. S!RequestArm(s, TRUE).state = IF s.state = "SAFE_DISABLED" THEN "ARMED" ELSE s.state
  BY DEF S!RequestArm, S!MayArm
<1>4. Sound(S!RequestEnable(s, a))
  BY DEF S!RequestEnable, S!MayEnable, S!Fresh
<1>5. \/ S!RequestEnable(s, a).state = s.state
      \/ s.state = "ARMED" /\ S!RequestEnable(s, a).state = "ACTIVE"
  BY DEF S!RequestEnable, S!MayEnable, S!Fresh
<1> HIDE DEF Sound, S!Record, S!States
<1>6. QED
  BY <1>1, <1>2, <1>3, <1>4, <1>5

\* Faults, disables and clears.
LEMMA StopState ==
    ASSUME NEW s, Sound(s), NEW a
    PROVE  /\ Sound(S!ReportFault(s)) /\ S!ReportFault(s).state = "FAULT"
           /\ Sound(S!RequestDisable(s))
           /\ S!RequestDisable(s).state = "FAULT" => s.state = "FAULT"
           /\ Sound(Cleared(s)) /\ Cleared(s).state = "SAFE_DISABLED"
           /\ Sound(S!TickSafety(s, a))
           /\ \/ S!TickSafety(s, a).state = s.state
              \/ s.state = "ACTIVE" /\ S!TickSafety(s, a).state = "HOLD"
<1> USE DEF Sound, S!Record, S!States
<1>1. Sound(S!ReportFault(s)) /\ S!ReportFault(s).state = "FAULT"
  BY DEF S!ReportFault
<1>2. Sound(S!RequestDisable(s))
  BY DEF S!RequestDisable, S!Latched
<1>3. S!RequestDisable(s).state = "FAULT" => s.state = "FAULT"
  BY DEF S!RequestDisable, S!Latched
<1>4. Sound(S!ClearLatchedStop(s, TRUE))
  BY DEF S!ClearLatchedStop, S!MayClear, S!Latched
<1>5. s.state \in S!Latched => S!ClearLatchedStop(s, TRUE).state = "SAFE_DISABLED"
  BY DEF S!ClearLatchedStop, S!MayClear, S!Latched
<1>6. s.state \notin S!Latched => S!RequestDisable(s).state = "SAFE_DISABLED"
  BY DEF S!RequestDisable, S!Latched
<1>7. Sound(S!TickSafety(s, a))
  BY DEF S!TickSafety, S!Fresh
<1>8. \/ S!TickSafety(s, a).state = s.state
      \/ s.state = "ACTIVE" /\ S!TickSafety(s, a).state = "HOLD"
  BY DEF S!TickSafety, S!Fresh
<1> HIDE DEF Sound, S!Record, S!States
<1>9. Sound(Cleared(s)) /\ Cleared(s).state = "SAFE_DISABLED"
  BY <1>2, <1>4, <1>5, <1>6 DEF Cleared
<1>10. QED
  BY <1>1, <1>2, <1>3, <1>7, <1>8, <1>9

-----------------------------------------------------------------------------
(* Every step preserves the invariant.  Types are a lemma of their own; of the *)
(* rest there is one lemma per group of actions.                              *)

Relations ==
    /\ FaultIsLatched /\ TorqueMarked /\ LatchIsActedOn /\ ConfiguredIsArmed
    /\ StreamMayMove /\ AbandonedStream /\ StoppedStreamMissedATick /\ PairsCounted

\* one frame is handled in a pass of the main loop
OneFrame == MaxFrames = 1

\* the host these theorems are about
Bounded == Orderly /\ OneFrame

\* The frames of an orderly host: it prepares no stream that is served, with no telemetry
\* on, and takes the right arm down by itself only when no pair is configured.  Those that
\* clear a stop, touch the right arm alone or prepare energised arms come first in their
\* pass, behind the guards.  The lemmas need no more than this of a host, whatever keeps
\* it orderly and however many frames a pass has.
OrderlyFrame ==
    \/ Heartbeat \/ Open \/ ArmConfigures \/ ArmAgain \/ Enable \/ Hold
    \/ \E b, c \in BOOLEAN : Batch(b, c)
    \/ frames = 0 /\ (ClearFault \/ RightArmEnableOnce \/ RightArmConfigureOnce \/ RightArmJogOnce)
    \/ \E outcome \in Outcomes :
          \/ ArmFails(outcome) \/ SafeStop(outcome) \/ Disable(outcome)
          \/ frames = 0 /\ ~configured /\ RightArmDisable(outcome)
          \/ \E readable \in BOOLEAN :
                /\ frames = 0 \/ ~Energised
                /\ ~clockActive /\ ~Busy /\ PrepareShadow(outcome, readable)

OrderlyNext ==
    \/ OrderlyFrame \/ ReceiveFault
    \/ Service
    \/ ControlInterrupt \/ DispatchEnds \/ Elapse

\* The guards follow a frame, and run before the first one of a pass.
LEMMA FrameFacts ==
    ASSUME TypeOK, Frame
    PROVE  phase = "HOST" /\ phase' = "HOST" /\ Unguarded' /\ (frames = 0 => ~Unguarded)
BY SMT DEF TypeOK, Frame, Unguarded

\* After a frame only these parts of the invariant are left to show.
LEMMA AfterFrame ==
    ASSUME TypeOK, Frame,
           FaultIsLatched', TorqueMarked', PairsCounted',
           configured' /\ safety'.state = "SAFE_DISABLED" => dispatch' = "FAULTED",
           exec' = "RUNNING" /\ ~clockActive' => dispatch' = "FAULTED",
           clockActive' /\ event' # "MISSED" =>
               \/ safety'.state = "ACTIVE" /\ ~stopLatched' /\ configured'
               \/ stopLatched' /\ output'
               \/ dispatch' = "FAULTED"
    PROVE  Relations'
BY FrameFacts DEF Relations, LatchIsActedOn, ConfiguredIsArmed, StreamMayMove,
   AbandonedStream, StoppedStreamMissedATick

\* Frames that ask the safety machine for something.
LEMMA RequestFrameStep ==
    ASSUME TypeOK, Sound(safety), Relations,
           Heartbeat \/ ArmAgain \/ Enable \/ Hold \/ (frames = 0 /\ ClearFault)
    PROVE  Relations' /\ Sound(safety')
<1> USE DEF Relations, requests, arms, settling, telemetry, FaultIsLatched, TorqueMarked,
            PairsCounted, ConfiguredIsArmed, AbandonedStream, StreamMayMove
<1>1. CASE Heartbeat
  <2> USE <1>1 DEF Heartbeat
  <2>1. Sound(safety') /\ safety'.state = safety.state
    BY ArmState
  <2>2. QED
    BY <2>1, AfterFrame, FrameFacts, SMT
<1>2. CASE ArmAgain
  <2>1. Sound(safety')
    BY <1>2, ArmState DEF ArmAgain
  <2>2. /\ safety'.state # "SAFE_DISABLED"
        /\ safety'.state = "FAULT" => safety.state = "FAULT"
        /\ safety.state = "ACTIVE" => safety'.state = "ACTIVE"
    BY <1>2, ArmState DEF ArmAgain
  <2>3. Frame /\ UNCHANGED <<stopLatched, arms, requests, settling, exec, telemetry, dispatch,
                            event>>
    BY <1>2 DEF ArmAgain
  <2>4. QED
    BY <2>1, <2>2, <2>3, AfterFrame, FrameFacts, SMT
<1>3. CASE Enable
  <2> USE <1>3 DEF Enable
  <2>1. Sound(safety')
    BY ArmState
  <2>2. \/ safety'.state = safety.state
        \/ safety.state = "ARMED" /\ safety'.state = "ACTIVE"
    BY ArmState
  <2>3. QED
    BY <2>1, <2>2, AfterFrame, FrameFacts, SMT
<1>4. CASE frames = 0 /\ ClearFault
  <2> USE <1>4 DEF ClearFault
  <2>1. Sound(safety') /\ safety'.state = "SAFE_DISABLED"
    BY StopState
  <2>2. stopLatched /\ output => dispatch = "FAULTED"
    BY FrameFacts DEF LatchIsActedOn
  <2>3. QED
    BY <2>1, <2>2, AfterFrame, FrameFacts, SMT
<1>5. CASE Hold
  <2> USE <1>5 DEF Hold
  <2>1. Sound(safety') /\ safety.state = "ACTIVE" /\ safety'.state = "HOLD"
    BY HeldState
  <2>2. QED
    BY <2>1, AfterFrame, FrameFacts, SMT
<1>6. QED
  BY <1>1, <1>2, <1>3, <1>4, <1>5

\* Frames that open a stream or add to it.
LEMMA StreamFrameStep ==
    ASSUME TypeOK, Sound(safety), Relations,
           NEW b \in BOOLEAN, NEW c \in BOOLEAN, Open \/ Batch(b, c)
    PROVE  Relations' /\ Sound(safety')
<1> USE DEF Relations, requests, arms, settling, telemetry, FaultIsLatched, TorqueMarked,
            PairsCounted, ConfiguredIsArmed, AbandonedStream, StreamMayMove
<1>1. CASE Open
  BY <1>1, SupervisorAssumption, AfterFrame, FrameFacts, SMT DEF Open, TypeOK
<1>2. CASE Batch(b, c)
  <2>1. S!AcceptsSetpoint(safety) => safety.state = "ACTIVE"
    BY HeldState
  <2>2. QED
    BY <1>2, <2>1, AfterFrame, FrameFacts, SMT DEF Batch, TypeOK
<1>3. QED
  BY <1>1, <1>2

\* Arms whose torque was removed, or for which the removal failed, are not on.
LEMMA OutcomeFacts ==
    ASSUME NEW outcome \in Outcomes
    PROVE  /\ outcome.left \in Removed /\ outcome.right \in Removed
           /\ outcome.left # "ON" /\ outcome.right # "ON"
           /\ outcome \in [left : Torque, right : Torque]
BY DEF Outcomes, Removed, Torque

\* A coordinated stop leaves nothing to be watched.
LEMMA PerformFacts ==
    ASSUME NEW outcome \in Outcomes, Perform(outcome), Sound(safety), NEW s, Sound(s),
           safety' = AfterStop(s, outcome)
    PROVE  /\ TorqueMarked' /\ PairsCounted' /\ FaultIsLatched' /\ Sound(safety')
           /\ ~configured' /\ ~output' /\ ~Energised' /\ stopLatched' /\ event' = "MISSED"
<1>1. Sound(safety')
  BY StopState DEF AfterStop
<1>2. torque'.left # "ON" /\ torque'.right # "ON"
  BY OutcomeFacts DEF Perform, StopOutcome
<1>3. QED
  BY <1>1, <1>2, SMT DEF Perform, Blocked, TorqueMarked, PairsCounted, FaultIsLatched, Energised

\* Frames that arm the pair.
LEMMA ArmFrameStep ==
    ASSUME TypeOK, Sound(safety), Relations, NEW outcome \in Outcomes,
           ArmConfigures \/ ArmFails(outcome)
    PROVE  Relations' /\ Sound(safety')
<1> USE DEF Relations, requests, settling, telemetry, FaultIsLatched, TorqueMarked,
            PairsCounted, ConfiguredIsArmed, AbandonedStream
<1>1. CASE ArmConfigures
  <2>1. Sound(safety')
    BY <1>1, ArmState DEF ArmConfigures
  <2>2. /\ safety'.state # "SAFE_DISABLED"
        /\ safety'.state = "FAULT" => safety.state = "FAULT"
    BY <1>1, ArmState DEF ArmConfigures
  <2>3. /\ Frame /\ event' = "MISSED" /\ torque' = AllOn /\ output' /\ configured'
        /\ UNCHANGED <<stopLatched, requests, settling, exec, telemetry, dispatch>>
    BY <1>1 DEF ArmConfigures, Blocked
  <2>4. QED
    BY <2>1, <2>2, <2>3, AfterFrame, FrameFacts, SMT
<1>2. CASE ArmFails(outcome)
  <2>1. torque'.left # "ON" /\ torque'.right \in {torque.right, outcome.right}
    BY <1>2, OutcomeFacts DEF ArmFails, Outcomes
  <2>2. outcome.right # "ON"
    BY OutcomeFacts
  <2>3. /\ Frame /\ event' = "MISSED" /\ ~configured
        /\ UNCHANGED <<safety, stopLatched, configured, output, requests, settling, exec,
                       telemetry, dispatch>>
    BY <1>2 DEF ArmFails, Blocked
  <2>4. QED
    BY <2>1, <2>2, <2>3, AfterFrame, FrameFacts, SMT
<1>3. QED
  BY <1>1, <1>2

\* SAFE_STOP.
LEMMA SafeStopStep ==
    ASSUME TypeOK, Sound(safety), Relations, NEW outcome \in Outcomes,
           SafeStop(outcome)
    PROVE  Relations' /\ Sound(safety')
<1>1. Sound(Held(safety))
  BY HeldState
<1>2. Perform(outcome) /\ Frame /\ safety' = AfterStop(Held(safety), outcome)
  BY DEF SafeStop
<1>3. /\ TorqueMarked' /\ PairsCounted' /\ FaultIsLatched' /\ Sound(safety')
      /\ ~configured' /\ event' = "MISSED"
  BY <1>1, <1>2, PerformFacts
<1>4. exec' = "RUNNING" /\ ~clockActive' => dispatch' = "FAULTED"
  BY SMT DEF SafeStop, Relations, AbandonedStream
<1>5. QED
  BY <1>2, <1>3, <1>4, AfterFrame

\* PREPARE_SHADOW of a host that prepares no served stream: the left arm is refused
\* only while a stream that was stopped waits for the removal of torque.
LEMMA PrepareStep ==
    ASSUME TypeOK, Sound(safety), Relations, NEW outcome \in Outcomes,
           NEW readable \in BOOLEAN, ~clockActive, ~Busy, PrepareShadow(outcome, readable),
           frames = 0 \/ ~Energised
    PROVE  Relations' /\ Sound(safety')
<1>1. /\ Frame /\ ~clockActive /\ ~configured' /\ ~output'
      /\ UNCHANGED <<requests, settling, exec, telemetry, dispatch>>
  BY DEF PrepareShadow
<1>2. torque'.right # "ON"
  BY OutcomeFacts DEF PrepareShadow
<1>3. torque'.left = "ON" => torque.left = "ON" /\ exec = "RUNNING"
  BY <1>1, OutcomeFacts DEF PrepareShadow
<1>4. TorqueMarked'
  BY <1>1, <1>2, <1>3, FrameFacts, SMT
  DEF TorqueMarked, Relations, AbandonedStream, Energised, requests
<1>5. Sound(safety') /\ FaultIsLatched'
  <2>1. CASE safety' = safety /\ (stopLatched => stopLatched')
    BY <2>1 DEF FaultIsLatched, Relations
  <2>2. CASE safety' = S!ReportFault(safety) /\ stopLatched'
    BY <2>2, StopState DEF FaultIsLatched
  <2>3. QED
    BY <2>1, <2>2 DEF PrepareShadow
<1>6. QED
  BY <1>1, <1>4, <1>5, AfterFrame, SMT
  DEF Relations, PairsCounted, AbandonedStream, requests, settling, telemetry

\* DISABLE.
LEMMA DisableStep ==
    ASSUME TypeOK, Sound(safety), Relations, NEW outcome \in Outcomes,
           Disable(outcome)
    PROVE  Relations' /\ Sound(safety')
<1>1. /\ Frame /\ event' = "MISSED" /\ ~configured' /\ output' = RightFails(outcome)
      /\ UNCHANGED <<requests, settling, exec, telemetry, dispatch>>
  BY DEF Disable, Blocked
<1>2. torque'.left # "ON"
  BY OutcomeFacts DEF Disable
<1>3. torque'.right = "ON" => torque.right = "ON" /\ (~output \/ Busy)
  BY OutcomeFacts DEF Disable
<1>4. TorqueMarked'
  BY <1>1, <1>2, <1>3 DEF TorqueMarked, Relations, RightFails
<1>5. Sound(safety') /\ FaultIsLatched'
  <2>1. CASE safety' = S!RequestDisable(safety) /\ (stopLatched => stopLatched')
    BY <2>1, StopState DEF FaultIsLatched, Relations
  <2>2. CASE safety' = S!ReportFault(S!RequestDisable(safety)) /\ stopLatched'
    BY <2>2, StopState DEF FaultIsLatched
  <2>3. QED
    BY <2>1, <2>2 DEF Disable
<1>6. QED
  BY <1>1, <1>4, <1>5, AfterFrame, SMT
  DEF Relations, PairsCounted, AbandonedStream, requests, settling, telemetry

\* RIGHT_ARM_DISABLE of a host that keeps it apart from a configured pair.
LEMMA RightDisableStep ==
    ASSUME TypeOK, Sound(safety), Relations, NEW outcome \in Outcomes,
           frames = 0, ~configured, RightArmDisable(outcome)
    PROVE  Relations' /\ Sound(safety')
<1> DEFINE ok == ~Busy /\ outcome.right = "OFF"
<1>1. /\ Frame /\ ~configured /\ output' = (output /\ ~ok)
      /\ UNCHANGED <<configured, requests, settling, exec, telemetry, dispatch>>
  BY DEF RightArmDisable
<1>2. torque'.left = torque.left /\ torque' \in [left : Torque, right : Torque]
  BY OutcomeFacts DEF RightArmDisable, TypeOK
<1>3. torque'.right = "ON" => torque.right = "ON" /\ Busy
  BY OutcomeFacts DEF RightArmDisable, TypeOK
<1>4. TorqueMarked'
  BY <1>1, <1>2, <1>3 DEF TorqueMarked, Relations, requests
<1>5. Sound(safety') /\ FaultIsLatched'
  <2>1. CASE safety' = safety /\ (stopLatched => stopLatched')
    BY <2>1 DEF FaultIsLatched, Relations
  <2>2. CASE safety' = S!ReportFault(safety) /\ stopLatched'
    BY <2>2, StopState DEF FaultIsLatched
  <2>3. QED
    BY <2>1, <2>2 DEF RightArmDisable
<1>6. clockActive /\ event # "MISSED" => dispatch = "FAULTED"
  BY <1>1, FrameFacts DEF Relations, StreamMayMove
<1>7. event' = event \/ event' = "MISSED"
  BY DEF RightArmDisable, Blocked
<1>8. QED
  BY <1>1, <1>4, <1>5, <1>6, <1>7, AfterFrame, SMT
  DEF Relations, PairsCounted, AbandonedStream, requests, settling, telemetry

\* The bring-up frames of the right arm are permitted in SAFE_DISABLED only, when no
\* pair is configured.
LEMMA OneShotStep ==
    ASSUME TypeOK, Sound(safety), Relations,
           NEW result \in Torque, NEW marked \in BOOLEAN, RightArmOneShot(result, marked),
           frames = 0,
           result = "ON" => marked \/ output
    PROVE  Relations' /\ Sound(safety')
<1>1. /\ Frame /\ safety.state = "SAFE_DISABLED"
      /\ UNCHANGED <<safety, stopLatched, configured, requests, settling, exec, telemetry,
                     dispatch, event>>
  BY DEF RightArmOneShot, OneShotPermitted
<1>2. torque'.left = torque.left /\ torque'.right = result /\ output' = (output \/ marked)
  BY DEF RightArmOneShot, TypeOK
<1>3. ~configured
  BY <1>1, FrameFacts DEF Relations, ConfiguredIsArmed
<1>4. TorqueMarked'
  BY <1>1, <1>2, <1>3 DEF TorqueMarked, Relations, requests
<1>5. clockActive /\ event # "MISSED" => dispatch = "FAULTED"
  BY <1>1, <1>3, FrameFacts DEF Relations, StreamMayMove
<1>6. FaultIsLatched' /\ PairsCounted'
  BY <1>1 DEF FaultIsLatched, PairsCounted, Relations, settling, telemetry
<1>7. exec' = "RUNNING" /\ ~clockActive' => dispatch' = "FAULTED"
  BY <1>1 DEF AbandonedStream, Relations, requests
<1>8. ~configured' /\ (clockActive' /\ event' # "MISSED" => dispatch' = "FAULTED")
  BY <1>1, <1>3, <1>5 DEF requests
<1>9. QED
  BY <1>1, <1>4, <1>6, <1>7, <1>8, AfterFrame

LEMMA BringUpStep ==
    ASSUME TypeOK, Sound(safety), Relations,
           frames = 0, RightArmEnableOnce \/ RightArmConfigureOnce \/ RightArmJogOnce
    PROVE  Relations' /\ Sound(safety')
<1>1. torque.right \in Torque /\ (torque.right = "ON" => output)
  BY DEF TypeOK, Relations, TorqueMarked
<1>2. CASE RightArmEnableOnce
  BY <1>2, OneShotStep DEF RightArmEnableOnce, Torque
<1>3. CASE RightArmConfigureOnce
  BY <1>1, <1>3, OneShotStep DEF RightArmConfigureOnce, Removed, Torque
<1>4. CASE RightArmJogOnce
  BY <1>1, <1>4, OneShotStep DEF RightArmJogOnce
<1>5. QED
  BY <1>2, <1>3, <1>4

\* Every host frame.
LEMMA HostFrameStep ==
    ASSUME TypeOK, Sound(safety), Relations, OrderlyFrame
    PROVE  Relations' /\ Sound(safety')
<1>1. CASE Heartbeat \/ ArmAgain \/ Enable \/ Hold \/ (frames = 0 /\ ClearFault)
  BY <1>1, RequestFrameStep
<1>2. CASE Open \/ \E b, c \in BOOLEAN : Batch(b, c)
  BY <1>2, StreamFrameStep
<1>3. CASE ArmConfigures
  <2>1. AllOff \in Outcomes
    BY DEF Outcomes, Removed, AllOff
  <2>2. QED
    BY <1>3, <2>1, ArmFrameStep
<1>4. CASE frames = 0 /\ (RightArmEnableOnce \/ RightArmConfigureOnce \/ RightArmJogOnce)
  BY <1>4, BringUpStep
<1>5. ASSUME NEW outcome \in Outcomes,
             \/ ArmFails(outcome) \/ SafeStop(outcome) \/ Disable(outcome)
             \/ frames = 0 /\ ~configured /\ RightArmDisable(outcome)
             \/ \E readable \in BOOLEAN :
                   /\ frames = 0 \/ ~Energised
                   /\ ~clockActive /\ ~Busy /\ PrepareShadow(outcome, readable)
      PROVE  Relations' /\ Sound(safety')
  BY <1>5, ArmFrameStep, SafeStopStep, PrepareStep, DisableStep, RightDisableStep
<1>6. QED
  BY <1>1, <1>2, <1>3, <1>4, <1>5 DEF OrderlyFrame

\* A receive fault holds motion and ends the burst.
LEMMA ReceiveFaultStep ==
    ASSUME TypeOK, Sound(safety), Relations, ReceiveFault
    PROVE  Relations' /\ Sound(safety')
<1>1. Sound(safety')
  BY HeldState DEF ReceiveFault
<1>2. /\ safety'.state = "SAFE_DISABLED" => safety.state = "SAFE_DISABLED"
  BY HeldState DEF ReceiveFault
<1>3. /\ phase' = "HOST" /\ Unguarded' /\ stopLatched'
      /\ UNCHANGED <<arms, requests, settling, exec, telemetry, dispatch, event>>
  BY SupervisorAssumption, SMT DEF ReceiveFault, Unguarded
<1>4. FaultIsLatched' /\ LatchIsActedOn' /\ StoppedStreamMissedATick'
  BY <1>3 DEF FaultIsLatched, LatchIsActedOn, StoppedStreamMissedATick
<1>5. TorqueMarked' /\ PairsCounted'
  BY <1>3, SMT DEF Relations, TorqueMarked, PairsCounted, arms, requests, settling, telemetry
<1>6. ConfiguredIsArmed' /\ AbandonedStream'
  BY <1>2, <1>3, SMT DEF Relations, ConfiguredIsArmed, AbandonedStream, arms, requests
<1>7. StreamMayMove'
  BY <1>3, SMT DEF Relations, StreamMayMove, TorqueMarked, arms, requests
<1>8. QED
  BY <1>1, <1>4, <1>5, <1>6, <1>7 DEF Relations

-----------------------------------------------------------------------------
\* The guards: either they perform the coordinated stop, or nothing they look at
\* asks for one.
LEMMA GuardsStep ==
    ASSUME TypeOK, Sound(safety), Relations,
           NEW fault \in BOOLEAN, NEW outcome \in Outcomes, Guards(fault, outcome)
    PROVE  Relations' /\ Sound(safety')
<1> DEFINE held == IF fault THEN Held(safety) ELSE safety
           ticked == S!TickSafety(held, age)
           latched == \/ stopLatched \/ fault
                      \/ held.state = "ACTIVE" /\ age > Timeout
                      \/ ticked.state = "HOLD"
<1>1. Sound(held) /\ Sound(ticked)
  BY HeldState, StopState
<1>2. /\ phase = "HOST" /\ phase' = "TRACK" /\ ~Unguarded'
      /\ UNCHANGED <<frames, age, anchorReady, exec>>
  BY DEF Guards, Unguarded
<1>3. CASE /\ Perform(outcome)
           /\ dispatch' = "FAULTED"
           /\ safety' = AfterStop(ticked, outcome)
           /\ UNCHANGED <<clockActive, settleAge, fresh>>
  <2>1. /\ TorqueMarked' /\ PairsCounted' /\ FaultIsLatched' /\ Sound(safety')
        /\ ~configured' /\ ~output' /\ ~Energised' /\ event' = "MISSED"
    BY <1>1, <1>3, PerformFacts
  <2>2. QED
    BY <1>3, <2>1 DEF Relations, LatchIsActedOn, ConfiguredIsArmed, StreamMayMove,
       AbandonedStream, StoppedStreamMissedATick
<1>4. CASE /\ dispatch # "FAULTED"
           /\ ~(latched /\ output)
           /\ stopLatched' = latched
           /\ safety' = ticked
           /\ UNCHANGED <<grace, arms, requests, settling, telemetry, dispatch, event>>
  <2>1. latched \/ (held = safety /\ ~stopLatched)
    OBVIOUS
  <2>2. held.state = IF fault /\ safety.state = "ACTIVE" THEN "HOLD" ELSE safety.state
    BY HeldState
  <2>3. ticked.state = held.state \/ (held.state = "ACTIVE" /\ ticked.state = "HOLD")
    BY <1>1, StopState
  <2>4. FaultIsLatched'
    <3>1. ticked.state = "FAULT" => safety.state = "FAULT"
      BY <2>2, <2>3
    <3>2. stopLatched => latched
      OBVIOUS
    <3>3. QED
      BY <1>4, <3>1, <3>2 DEF FaultIsLatched, Relations
  <2>5. TorqueMarked' /\ PairsCounted'
    BY <1>4 DEF TorqueMarked, PairsCounted, Relations, arms, requests, settling, telemetry
  <2>6. LatchIsActedOn'
    BY <1>4 DEF LatchIsActedOn, arms
  <2>7. ConfiguredIsArmed'
    <3>1. ticked.state = "SAFE_DISABLED" => safety.state = "SAFE_DISABLED"
      BY <2>2, <2>3
    <3>2. QED
      BY <1>4, <3>1 DEF ConfiguredIsArmed, Relations, arms
  <2>8. AbandonedStream'
    BY <1>2, <1>4 DEF AbandonedStream, Relations, requests
  <2>9. ASSUME clockActive, event # "MISSED"
        PROVE  safety'.state = "ACTIVE" /\ ~stopLatched' /\ configured'
    <3>1. /\ safety.state = "ACTIVE" \/ stopLatched
          /\ configured \/ (stopLatched /\ output)
      BY <1>4, <2>9 DEF Relations, StreamMayMove
    <3>2. ~latched /\ configured
      BY <1>4, <3>1 DEF Relations, TorqueMarked
    <3>3. safety.state = "ACTIVE" /\ ~fault
      BY <3>1, <3>2
    <3>4. ticked.state = "ACTIVE"
      BY <2>2, <2>3, <3>2, <3>3
    <3>5. QED
      BY <1>4, <3>2, <3>4 DEF arms
  <2>10. StreamMayMove' /\ StoppedStreamMissedATick'
    BY <1>4, <2>9 DEF StreamMayMove, StoppedStreamMissedATick, requests
  <2>11. QED
    BY <1>1, <1>4, <2>4, <2>5, <2>6, <2>7, <2>8, <2>10 DEF Relations
<1>5. QED
  BY <1>3, <1>4 DEF Guards

-----------------------------------------------------------------------------
\* A step of the service that asks for a stop.
LEMMA RequestStopFacts ==
    ASSUME TypeOK, Relations, phase # "HOST", RequestStop,
           UNCHANGED <<safety, configured, output, torque>>, PairsCounted',
           phase' = "EXEC" \/ frames' = 0
    PROVE  Relations'
<1>1. ~Unguarded /\ ~Unguarded'
  BY DEF Unguarded
<1>2. dispatch' = "FAULTED" /\ stopPending' /\ ~clockActive' /\ stopLatched'
  BY DEF RequestStop
<1>3. TorqueMarked'
  BY <1>2 DEF Relations, TorqueMarked
<1>4. ConfiguredIsArmed'
  BY <1>1 DEF Relations, ConfiguredIsArmed
<1>5. QED
  BY <1>1, <1>2, <1>3, <1>4
  DEF Relations, FaultIsLatched, LatchIsActedOn, StreamMayMove, AbandonedStream,
      StoppedStreamMissedATick

\* What a poll may leave of a pair and of the count.
LEMMA PolledFacts ==
    ASSUME TypeOK, PairsCounted, tracking # "OFF", NEW polled \in Polled
    PROVE  /\ polled[1] \in {"IDLE", "PENDING"}
           /\ polled[2] \in 0..SettlePairs
           /\ ~settle => polled[2] = 0
           /\ polled[1] = "PENDING" => polled[2] < SettlePairs
<1>1. pairs \in 0..SettlePairs /\ SettlePairs \in Nat /\ tracking \in {"OFF", "IDLE", "PENDING"}
  BY SupervisorAssumption DEF TypeOK
<1>2. CASE tracking = "IDLE"
  BY <1>1, <1>2, SMT DEF Polled, PairsCounted
<1>3. CASE tracking = "PENDING"
  <2>1. \/ polled = <<"PENDING", pairs>>
        \/ polled = <<"IDLE", pairs>>
        \/ polled = <<"IDLE", pairs + 1>> /\ settle
        \/ polled = <<"IDLE", 0>>
    <3>1. \/ polled \in {<<"PENDING", pairs>>, <<"IDLE", pairs>>}
          \/ polled \in (IF exec \notin Streaming THEN {}
                         ELSE IF settle THEN {<<"IDLE", pairs + 1>>, <<"IDLE", 0>>}
                         ELSE {<<"IDLE", 0>>})
      BY <1>3, Zenon DEF Polled
    <3>2. QED
      BY <3>1, Zenon
  <2>2. QED
    BY <1>1, <1>3, <2>1, SMT DEF PairsCounted
<1>4. QED
  BY <1>1, <1>2, <1>3

\* A step of the service that touches neither torque nor the safety machine, and asks
\* for no stop.
LEMMA QuietServiceStep ==
    ASSUME TypeOK, Relations, phase # "HOST", phase' = "EXEC" \/ frames' = 0,
           UNCHANGED <<safety, stopLatched, configured, output, torque, requests, exec,
                       dispatch, event>>,
           PairsCounted'
    PROVE  Relations'
<1>1. ~Unguarded /\ ~Unguarded'
  BY DEF Unguarded
<1>2. FaultIsLatched' /\ TorqueMarked'
  BY DEF Relations, FaultIsLatched, TorqueMarked, requests
<1>3. LatchIsActedOn' /\ ConfiguredIsArmed'
  BY <1>1 DEF Relations, LatchIsActedOn, ConfiguredIsArmed
<1>4. StreamMayMove' /\ AbandonedStream'
  BY <1>1 DEF Relations, StreamMayMove, AbandonedStream, Energised, requests
<1>5. StoppedStreamMissedATick'
  BY DEF Relations, StoppedStreamMissedATick, requests
<1>6. QED
  BY <1>2, <1>3, <1>4, <1>5 DEF Relations

\* Host_ServiceV2TrackingFeedback.
LEMMA TrackStep ==
    ASSUME TypeOK, Sound(safety), Relations,
           \/ TrackOff \/ TrackFault
           \/ \E polled \in Polled : TrackRequestFails(polled) \/ TrackPair(polled)
    PROVE  Relations' /\ Sound(safety')
<1>1. PairsCounted /\ phase = "TRACK" /\ phase' = "EXEC"
      /\ UNCHANGED <<safety, configured, output, torque, event>>
  BY DEF Relations, TrackOff, TrackFault, TrackRequestFails, TrackPair, Tracked, arms
<1>2. CASE TrackOff
  <2>1. PairsCounted'
    BY <1>1, <1>2 DEF PairsCounted, TrackOff, settling
  <2>2. UNCHANGED <<stopLatched, requests, exec, dispatch>>
    BY <1>2 DEF TrackOff
  <2>3. QED
    BY <1>1, <2>1, <2>2, QuietServiceStep
<1>3. CASE TrackFault
  <2>1. PairsCounted' /\ RequestStop
    BY <1>1, <1>3 DEF PairsCounted, TrackFault, settling
  <2>2. QED
    BY <1>1, <2>1, RequestStopFacts
<1>4. ASSUME NEW polled \in Polled, TrackRequestFails(polled)
      PROVE  Relations' /\ Sound(safety')
  <2>1. tracking # "OFF" /\ tracking' # "PENDING" /\ pairs' = polled[2] /\ settle' = settle
        /\ RequestStop
    BY <1>4 DEF TrackRequestFails
  <2>2. PairsCounted'
    BY <1>1, <2>1, PolledFacts DEF PairsCounted
  <2>3. QED
    BY <1>1, <2>1, <2>2, RequestStopFacts
<1>5. ASSUME NEW polled \in Polled, TrackPair(polled)
      PROVE  Relations' /\ Sound(safety')
  <2>1. tracking # "OFF"
    BY <1>5 DEF TrackPair
  <2>2. /\ ~settle => polled[2] = 0
        /\ polled[1] = "PENDING" => polled[2] < SettlePairs
        /\ MayRequest(polled) => polled[2] < SettlePairs
    <3>1. ~settle => 0 < SettlePairs
      BY SupervisorAssumption
    <3>2. MayRequest(polled) => (settle => polled[2] < SettlePairs)
      BY DEF MayRequest
    <3>3. QED
      BY <1>1, <2>1, <3>1, <3>2, PolledFacts
  <2>3. CASE /\ RequestStop
             /\ tracking' = IF MayRequest(polled) THEN "PENDING" ELSE polled[1]
             /\ pairs' = polled[2]
             /\ settle' = settle
    <3>1. PairsCounted'
      BY <2>2, <2>3 DEF PairsCounted
    <3>2. QED
      BY <1>1, <2>3, <3>1, RequestStopFacts
  <2>4. CASE /\ settle' = FALSE /\ pairs' = 0 /\ tracking' = "OFF"
             /\ UNCHANGED <<stopLatched, requests, exec, dispatch>>
    <3>1. PairsCounted'
      BY <2>4 DEF PairsCounted
    <3>2. QED
      BY <1>1, <2>4, <3>1, QuietServiceStep
  <2>5. CASE /\ tracking' = IF MayRequest(polled) THEN "PENDING" ELSE polled[1]
             /\ pairs' = polled[2]
             /\ settle' = settle
             /\ UNCHANGED <<stopLatched, requests, exec, dispatch>>
    <3>1. PairsCounted'
      BY <2>2, <2>5 DEF PairsCounted
    <3>2. QED
      BY <1>1, <2>5, <3>1, QuietServiceStep
  <2>6. QED
    BY <1>5, <2>3, <2>4, <2>5 DEF TrackPair
<1>6. QED
  BY <1>2, <1>3, <1>4, <1>5

\* Host_ServiceV2Executor: positions are launched only when the event, the buses and
\* the telemetry are clean, and then nothing was latched.
LEMMA ExecStep ==
    ASSUME TypeOK, Sound(safety), Relations,
           ExecIdle \/ ExecUnready \/ ExecFails \/ ExecLaunch
    PROVE  Relations' /\ Sound(safety')
<1>1. /\ phase = "EXEC" /\ phase' = "HOST" /\ frames' = 0 /\ ~Unguarded /\ ~Unguarded'
      /\ UNCHANGED <<safety, configured, output, torque, tracking>>
  BY DEF ExecIdle, ExecUnready, ExecFails, ExecLaunch, Executed, arms, telemetry, Unguarded
<1>2. CASE ExecIdle
  <2>1. PairsCounted' /\ UNCHANGED <<stopLatched, requests, exec, dispatch, event>>
    BY <1>1, <1>2 DEF PairsCounted, ExecIdle, settling, Relations
  <2>2. QED
    BY <1>1, <2>1, QuietServiceStep
<1>3. CASE ExecUnready \/ ExecFails
  <2>1. PairsCounted' /\ RequestStop
    BY <1>1, <1>3 DEF PairsCounted, ExecUnready, ExecFails, settling, Relations
  <2>2. QED
    BY <1>1, <2>1, RequestStopFacts
<1>4. CASE ExecLaunch
  <2>1. /\ clockActive /\ event # "MISSED" /\ dispatch = "IDLE" /\ dispatch' = "ACTIVE"
        /\ tracking # "PENDING" /\ UNCHANGED <<stopPending, stopLatched>>
        /\ exec' \in Streaming
    BY <1>4 DEF ExecLaunch, TakeEvent, Unready
  <2>2. safety.state = "ACTIVE" /\ ~stopLatched /\ configured
    BY <1>1, <2>1 DEF Relations, StreamMayMove
  <2>3. TorqueMarked'
    BY <1>1, <2>1 DEF Relations, TorqueMarked
  <2>4. PairsCounted'
    BY <1>1, <1>4, <2>1 DEF ExecLaunch, PairsCounted, settling, Relations
  <2>5. AbandonedStream'
    BY <1>4 DEF ExecLaunch, AbandonedStream, Streaming, TakeEvent
  <2>6. QED
    BY <1>1, <2>1, <2>2, <2>3, <2>4, <2>5
    DEF Relations, FaultIsLatched, LatchIsActedOn, ConfiguredIsArmed, StreamMayMove,
        StoppedStreamMissedATick
<1>5. QED
  BY <1>2, <1>3, <1>4

-----------------------------------------------------------------------------
\* Interrupts, transfers and time.
LEMMA InterruptStep ==
    ASSUME TypeOK, Sound(safety), Relations, ControlInterrupt \/ DispatchEnds \/ Elapse
    PROVE  Relations' /\ Sound(safety')
<1>1. UNCHANGED <<phase, frames, safety, stopLatched, arms, requests, settle, pairs, exec,
                  tracking>>
  BY DEF ControlInterrupt, DispatchEnds, Elapse, settling, telemetry
<1>2. Unguarded' <=> Unguarded
  BY <1>1 DEF Unguarded
<1>3. FaultIsLatched' /\ TorqueMarked' /\ PairsCounted'
  BY <1>1 DEF Relations, FaultIsLatched, TorqueMarked, PairsCounted, arms, requests
<1>4. dispatch' = dispatch \/ dispatch = "ACTIVE"
  BY DEF ControlInterrupt, DispatchEnds, Elapse
<1>5. event' = event \/ event' = "MISSED" \/ (event = "NONE" /\ event' = "DUE")
  BY DEF ControlInterrupt, DispatchEnds, Elapse
<1>6. LatchIsActedOn' /\ ConfiguredIsArmed' /\ AbandonedStream'
  BY <1>1, <1>2, <1>4
  DEF Relations, LatchIsActedOn, ConfiguredIsArmed, AbandonedStream, Energised, arms, requests
<1>7. StreamMayMove'
  <2>1. clockActive' /\ event' # "MISSED" => clockActive /\ event # "MISSED"
    BY <1>1, <1>5 DEF requests
  <2>2. QED
    BY <1>1, <1>2, <1>4, <2>1 DEF Relations, StreamMayMove, arms
<1>8. StoppedStreamMissedATick'
  BY <1>1, <1>5 DEF Relations, StoppedStreamMissedATick, requests
<1>9. QED
  BY <1>1, <1>3, <1>6, <1>7, <1>8 DEF Relations

\* Every step.
LEMMA RelationsStep ==
    ASSUME TypeOK, Sound(safety), Relations, [OrderlyNext]_vars
    PROVE  Relations' /\ Sound(safety')
<1>1. CASE OrderlyFrame \/ ReceiveFault
  BY <1>1, HostFrameStep, ReceiveFaultStep
<1>2. CASE Service
  <2>1. CASE \E f \in BOOLEAN, outcome \in Outcomes : Guards(f, outcome)
    BY <2>1, GuardsStep
  <2>2. QED
    BY <1>2, <2>1, TrackStep, ExecStep DEF Service
<1>3. CASE ControlInterrupt \/ DispatchEnds \/ Elapse
  BY <1>3, InterruptStep
<1>4. CASE UNCHANGED vars
  BY <1>4 DEF vars, Relations, FaultIsLatched, TorqueMarked, LatchIsActedOn, ConfiguredIsArmed,
              StreamMayMove, AbandonedStream, StoppedStreamMissedATick, PairsCounted,
              Unguarded, Energised
<1>5. QED
  BY <1>1, <1>2, <1>3, <1>4 DEF OrderlyNext

-----------------------------------------------------------------------------
(* Types *)

TypeNum ==
    /\ phase \in {"HOST", "TRACK", "EXEC"}
    /\ frames \in 0..MaxFrames
    /\ age \in 0..Never
    /\ grace \in 0..Stale
    /\ settleAge \in 0..(SettleMax + 1)
    /\ pairs \in 0..SettlePairs

TypeFlags ==
    /\ stopLatched \in BOOLEAN /\ stopPending \in BOOLEAN /\ startPending \in BOOLEAN
    /\ configured \in BOOLEAN /\ output \in BOOLEAN /\ clockActive \in BOOLEAN
    /\ settle \in BOOLEAN /\ anchorReady \in BOOLEAN /\ fresh \in BOOLEAN

TypeModes ==
    /\ exec \in {"CLOSED", "PRIMING", "PRIMED", "RUNNING", "SUCCEEDED", "ENDED"}
    /\ tracking \in {"OFF", "IDLE", "PENDING"}
    /\ dispatch \in {"IDLE", "ACTIVE", "FAULTED"}
    /\ event \in {"NONE", "DUE", "MISSED"}

TypeTorque == torque \in [left : Torque, right : Torque]

LEMMA TypeParts ==
    TypeOK <=> TypeNum /\ TypeFlags /\ TypeModes /\ TypeTorque /\ safety \in S!Record
BY DEF TypeOK, TypeNum, TypeFlags, TypeModes, TypeTorque

\* Counters and ages stay within their bounds.
LEMMA NumStep ==
    ASSUME TypeNum, TypeModes, TypeOK, PairsCounted, [Next]_vars
    PROVE  TypeNum'
<1> USE SupervisorAssumption DEF TypeNum, Never, Stale
<1>1. CASE HostFrame \/ ReceiveFault
  <2>1. Frame => phase' = phase /\ frames' \in 0..MaxFrames
    BY SMT DEF Frame
  <2>2. /\ Frame \/ (phase' = phase /\ frames' = MaxFrames)
        /\ age' = age \/ age' = 0
        /\ grace' = grace \/ grace' = 0 \/ grace' = Stale
        /\ settleAge' = settleAge
        /\ pairs' = pairs \/ pairs' = 0
    BY <1>1 DEF HostFrame, ReceiveFault, Heartbeat, Open, Batch, ArmConfigures, ArmAgain, Enable,
       ClearFault, Hold, RightArmEnableOnce, RightArmConfigureOnce, RightArmJogOnce,
       RightArmOneShot, ArmFails, SafeStop, Perform, Disable, RightArmDisable, PrepareShadow,
       settling
  <2>3. QED
    BY <2>1, <2>2, SMT
<1>2. CASE \E fault \in BOOLEAN, outcome \in Outcomes : Guards(fault, outcome)
  <2>1. /\ phase' = "TRACK" /\ UNCHANGED <<frames, age, settleAge>>
        /\ grace' = grace \/ grace' = Stale
        /\ pairs' = pairs \/ pairs' = 0
    BY <1>2 DEF Guards, Perform, settling
  <2>2. QED
    BY <2>1, SMT
<1>3. CASE TrackOff \/ TrackFault
  <2>1. phase' = "EXEC" /\ UNCHANGED <<frames, age, grace, settling>>
    BY <1>3 DEF TrackOff, TrackFault, Tracked
  <2>2. QED
    BY <2>1, SMT DEF settling
<1>4. ASSUME NEW polled \in Polled, TrackRequestFails(polled) \/ TrackPair(polled)
      PROVE  TypeNum'
  <2>1. /\ phase' = "EXEC" /\ UNCHANGED <<frames, age, grace, settleAge>>
        /\ pairs' = polled[2] \/ pairs' = 0
    BY <1>4 DEF TrackRequestFails, TrackPair
  <2>2. polled[2] \in 0..SettlePairs
    BY <1>4, PolledFacts DEF TrackRequestFails, TrackPair
  <2>3. QED
    BY <2>1, <2>2, SMT
<1>5. CASE ExecIdle \/ ExecUnready \/ ExecFails \/ ExecLaunch
  <2>1. /\ phase' = "HOST" /\ frames' = 0 /\ UNCHANGED <<age, grace>>
        /\ settleAge' = settleAge \/ settleAge' = 0
        /\ pairs' = pairs \/ pairs' = 0
    BY <1>5 DEF ExecIdle, ExecUnready, ExecFails, ExecLaunch, Executed, settling
  <2>2. QED
    BY <2>1, SMT
<1>6. CASE ControlInterrupt \/ DispatchEnds \/ UNCHANGED vars
  <2>1. UNCHANGED <<phase, frames, age, grace, settleAge, pairs>>
    BY <1>6 DEF ControlInterrupt, DispatchEnds, vars, settling
  <2>2. QED
    BY <2>1
<1>7. CASE Elapse
  BY <1>7, SMT DEF Elapse, UpTo
<1>8. QED
  BY <1>1, <1>2, <1>3, <1>4, <1>5, <1>6, <1>7 DEF Next, Service

\* Flags stay Boolean.
LEMMA FlagStep ==
    ASSUME TypeFlags, [Next]_vars
    PROVE  TypeFlags'
<1> USE DEF TypeFlags, settling, requests, arms, telemetry
<1>1. CASE HostFrame \/ ReceiveFault
  <2> USE <1>1 DEF HostFrame, ReceiveFault, Heartbeat, Open, Batch, ArmConfigures, ArmAgain,
        Enable, ClearFault, Hold, RightArmEnableOnce, RightArmConfigureOnce, RightArmJogOnce,
        RightArmOneShot, ArmFails, SafeStop, Perform, Disable, RightArmDisable, PrepareShadow
  <2>1. stopLatched' \in BOOLEAN
    OBVIOUS
  <2>2. stopPending' \in BOOLEAN /\ startPending' \in BOOLEAN /\ clockActive' \in BOOLEAN
    OBVIOUS
  <2>3. configured' \in BOOLEAN
    OBVIOUS
  <2>4. output' \in BOOLEAN
    BY DEF RightFails
  <2>5. settle' \in BOOLEAN /\ fresh' \in BOOLEAN
    OBVIOUS
  <2>6. anchorReady' \in BOOLEAN
    OBVIOUS
  <2>7. QED
    BY <2>1, <2>2, <2>3, <2>4, <2>5, <2>6
<1>2. CASE \E fault \in BOOLEAN, outcome \in Outcomes : Guards(fault, outcome)
  <2> USE <1>2 DEF Guards, Perform
  <2>1. stopLatched' \in BOOLEAN
    OBVIOUS
  <2>2. stopPending' \in BOOLEAN /\ startPending' \in BOOLEAN /\ clockActive' \in BOOLEAN
    OBVIOUS
  <2>3. configured' \in BOOLEAN /\ output' \in BOOLEAN /\ settle' \in BOOLEAN
    OBVIOUS
  <2>4. fresh' \in BOOLEAN /\ anchorReady' \in BOOLEAN
    OBVIOUS
  <2>5. QED
    BY <2>1, <2>2, <2>3, <2>4
<1>3. CASE TrackOff \/ TrackFault
  BY <1>3 DEF TrackOff, TrackFault, Tracked, RequestStop
<1>4. ASSUME NEW polled \in Polled, TrackRequestFails(polled) \/ TrackPair(polled)
      PROVE  TypeFlags'
  BY <1>4 DEF TrackRequestFails, TrackPair, RequestStop
<1>5. CASE ExecIdle \/ ExecUnready \/ ExecFails \/ ExecLaunch
  BY <1>5 DEF ExecIdle, ExecUnready, ExecFails, ExecLaunch, Executed, RequestStop
<1>6. CASE ControlInterrupt \/ DispatchEnds \/ Elapse \/ UNCHANGED vars
  BY <1>6 DEF ControlInterrupt, DispatchEnds, Elapse, vars
<1>7. QED
  BY <1>1, <1>2, <1>3, <1>4, <1>5, <1>6 DEF Next, Service

\* Modes stay among their values.
LEMMA ModeStep ==
    ASSUME TypeOK, TypeModes, [Next]_vars
    PROVE  TypeModes'
<1> USE DEF TypeModes, settling, requests, arms, telemetry
<1>1. CASE HostFrame \/ ReceiveFault
  <2> USE <1>1 DEF HostFrame, ReceiveFault, Heartbeat, Open, Batch, ArmConfigures, ArmAgain,
        Enable, ClearFault, Hold, RightArmEnableOnce, RightArmConfigureOnce, RightArmJogOnce,
        RightArmOneShot, ArmFails, SafeStop, Perform, Disable, RightArmDisable, PrepareShadow,
        Blocked
  <2>1. exec' \in {exec, "PRIMING", "PRIMED"}
    OBVIOUS
  <2>2. tracking' \in {tracking, "IDLE", "OFF"}
    OBVIOUS
  <2>3. dispatch' \in {dispatch, "FAULTED"}
    OBVIOUS
  <2>4. event' \in {event, "NONE", "MISSED"}
    OBVIOUS
  <2>5. QED
    BY <2>1, <2>2, <2>3, <2>4
<1>2. CASE \E fault \in BOOLEAN, outcome \in Outcomes : Guards(fault, outcome)
  BY <1>2 DEF Guards, Perform, Blocked
<1>3. CASE TrackOff \/ TrackFault
  BY <1>3 DEF TrackOff, TrackFault, Tracked, RequestStop, Streaming
<1>4. ASSUME NEW polled \in Polled, TrackRequestFails(polled) \/ TrackPair(polled)
      PROVE  TypeModes'
  <2>1. polled[1] \in {"IDLE", "PENDING"}
    BY <1>4 DEF Polled
  <2>2. QED
    BY <1>4, <2>1 DEF TrackRequestFails, TrackPair, RequestStop
<1>5. CASE ExecIdle \/ ExecUnready \/ ExecFails \/ ExecLaunch
  BY <1>5 DEF ExecIdle, ExecUnready, ExecFails, ExecLaunch, Executed, RequestStop, TakeEvent,
              Streaming
<1>6. CASE ControlInterrupt \/ DispatchEnds \/ Elapse \/ UNCHANGED vars
  BY <1>6 DEF ControlInterrupt, DispatchEnds, Elapse, vars
<1>7. QED
  BY <1>1, <1>2, <1>3, <1>4, <1>5, <1>6 DEF Next, Service

\* The torque of an arm stays one of its three values.
LEMMA TorqueStep ==
    ASSUME TypeTorque, [Next]_vars
    PROVE  TypeTorque'
<1> USE DEF TypeTorque, arms, Torque
<1>1. CASE \/ Heartbeat \/ Open \/ ArmAgain \/ Enable \/ ClearFault \/ Hold \/ ReceiveFault
           \/ \E b, c \in BOOLEAN : Batch(b, c)
  BY <1>1 DEF Heartbeat, Open, ArmAgain, Enable, ClearFault, Hold, ReceiveFault, Batch
<1>2. CASE ArmConfigures
  BY <1>2 DEF ArmConfigures, AllOn
<1>3. ASSUME NEW outcome \in Outcomes, ArmFails(outcome)
      PROVE  TypeTorque'
  BY <1>3, OutcomeFacts DEF ArmFails
<1>4. ASSUME NEW outcome \in Outcomes, SafeStop(outcome) \/ Disable(outcome)
      PROVE  TypeTorque'
  BY <1>4, OutcomeFacts DEF SafeStop, Perform, StopOutcome, Disable
<1>5. ASSUME NEW outcome \in Outcomes, NEW readable \in BOOLEAN,
             RightArmDisable(outcome) \/ PrepareShadow(outcome, readable)
      PROVE  TypeTorque'
  BY <1>5, OutcomeFacts DEF RightArmDisable, PrepareShadow
<1>6. CASE RightArmEnableOnce \/ RightArmConfigureOnce \/ RightArmJogOnce
  BY <1>6 DEF RightArmEnableOnce, RightArmConfigureOnce, RightArmJogOnce, RightArmOneShot, Removed
<1>7. ASSUME NEW fault \in BOOLEAN, NEW outcome \in Outcomes, Guards(fault, outcome)
      PROVE  TypeTorque'
  BY <1>7, OutcomeFacts DEF Guards, Perform, StopOutcome
<1>8. CASE \/ TrackOff \/ TrackFault
           \/ \E polled \in Polled : TrackRequestFails(polled) \/ TrackPair(polled)
           \/ ExecIdle \/ ExecUnready \/ ExecFails \/ ExecLaunch
  BY <1>8 DEF TrackOff, TrackFault, Tracked, TrackRequestFails, TrackPair, ExecIdle, ExecUnready,
              ExecFails, ExecLaunch, Executed
<1>9. CASE ControlInterrupt \/ DispatchEnds \/ Elapse \/ UNCHANGED vars
  BY <1>9 DEF ControlInterrupt, DispatchEnds, Elapse, vars
<1>10. QED
  BY <1>1, <1>2, <1>3, <1>4, <1>5, <1>6, <1>7, <1>8, <1>9 DEF Next, Service, HostFrame

-----------------------------------------------------------------------------
(* Theorems *)

LEMMA InvariantInit == Init => IInv
<1> SUFFICES ASSUME Init PROVE IInv
  OBVIOUS
<1> USE SupervisorAssumption DEF Init
<1>1. Sound(safety)
  BY DEF Sound, S!CompleteBoot, S!Initial, S!Record, S!States
<1>2. TypeNum
  BY SMT DEF TypeNum, Never, Stale
<1>3. TypeFlags /\ TypeModes
  BY DEF TypeFlags, TypeModes
<1>4. TypeTorque
  BY DEF TypeTorque, AllOff, Torque
<1>5. TorqueMarked
  BY DEF TorqueMarked, AllOff
<1>6. safety.state = "SAFE_DISABLED"
  BY DEF S!CompleteBoot, S!Initial
<1>7. Relations
  BY <1>5, <1>6 DEF Relations, FaultIsLatched, LatchIsActedOn, ConfiguredIsArmed, StreamMayMove,
     AbandonedStream, StoppedStreamMissedATick, PairsCounted
<1>8. QED
  BY <1>1, <1>2, <1>3, <1>4, <1>7, TypeParts
  DEF IInv, Relations, Sound, SafetySound, S!RequestsMatchState

\* What an orderly host adds is one of the frames any host may send.
LEMMA OrderlyIsNext == OrderlyNext => Next
<1>1. OrderlyFrame => HostFrame
  BY DEF OrderlyFrame, HostFrame
<1>2. QED
  BY <1>1 DEF OrderlyNext, Next

\* A host that was told to be orderly is.
LEMMA BoundedIsOrderly == ASSUME Bounded, TypeOK, Next PROVE OrderlyNext
<1>1. Frame => frames = 0
  BY SMT DEF Bounded, OneFrame, TypeOK, Frame
<1>2. /\ \A outcome \in Outcomes : RightArmDisable(outcome) => Frame /\ ~configured
      /\ \A outcome \in Outcomes, readable \in BOOLEAN :
            PrepareShadow(outcome, readable) => Frame /\ ~clockActive /\ ~Busy
      /\ ClearFault \/ RightArmEnableOnce \/ RightArmConfigureOnce \/ RightArmJogOnce => Frame
  BY DEF Bounded, RightArmDisable, PrepareShadow, ClearFault, RightArmEnableOnce,
     RightArmConfigureOnce, RightArmJogOnce, RightArmOneShot
<1>3. HostFrame => OrderlyFrame
  BY <1>1, <1>2 DEF HostFrame, OrderlyFrame
<1>4. QED
  BY <1>3 DEF Next, OrderlyNext

LEMMA InvariantStep == ASSUME IInv, [OrderlyNext]_vars PROVE IInv'
<1>1. TypeOK /\ Relations
  BY DEF IInv, Relations
<1>2. Sound(safety)
  BY TypeParts DEF IInv, Sound, SafetySound, S!RequestsMatchState
<1>3. TypeNum /\ TypeFlags /\ TypeModes /\ TypeTorque /\ PairsCounted
  BY <1>1, TypeParts DEF Relations
<1>4. Relations' /\ Sound(safety')
  BY <1>1, <1>2, RelationsStep
<1>5. TypeNum' /\ TypeFlags' /\ TypeModes' /\ TypeTorque'
  BY <1>1, <1>3, OrderlyIsNext, NumStep, FlagStep, ModeStep, TorqueStep
<1>6. safety' \in S!Record
  BY <1>4 DEF Sound
<1>7. TypeOK'
  BY <1>5, <1>6 DEF TypeOK, TypeNum, TypeFlags, TypeModes, TypeTorque
<1>8. SafetySound'
  BY <1>4 DEF Sound, SafetySound, S!RequestsMatchState
<1>9. QED
  BY <1>4, <1>7, <1>8 DEF IInv, Relations

\* Against an orderly host with one frame in a pass: types, who knows about the torque
\* of each arm, what a latched stop leads to, and when a stream may move.
THEOREM SupervisorInvariant == ASSUME Bounded PROVE Spec => []IInv
<1>1. Init => IInv
  BY InvariantInit
<1>2. IInv /\ [Next]_vars => IInv'
  BY InvariantStep, BoundedIsOrderly DEF IInv
<1>3. QED
  BY <1>1, <1>2, PTL DEF Spec

\* An arm known to be energised is marked so, or about to lose its torque.
THEOREM TorqueWatched == ASSUME Bounded PROVE Spec => []TorqueIsWatched
<1>1. IInv => TorqueIsWatched
  BY DEF IInv, TorqueMarked, TorqueIsWatched, Energised
<1>2. QED
  BY <1>1, SupervisorInvariant, PTL

\* A fault has its stop latched, whatever the host and the buses do.
THEOREM FaultLatched == ASSUME Bounded PROVE Spec => []FaultIsLatched
<1>1. IInv => FaultIsLatched
  BY DEF IInv
<1>2. QED
  BY <1>1, SupervisorInvariant, PTL

\* After the guards, a stream with a latched stop has missed a tick.
THEOREM StopSeen == ASSUME Bounded PROVE Spec => []StoppedStreamMissedATick
<1>1. IInv => StoppedStreamMissedATick
  BY DEF IInv
<1>2. QED
  BY <1>1, SupervisorInvariant, PTL

\* Only a clean pass of the executor launches, and then the pair is enabled.
LEMMA LaunchStep ==
    ASSUME IInv, [Next]_vars, Launches
    PROVE  /\ ExecLaunch
           /\ safety.state = "ACTIVE" /\ ~stopLatched /\ output /\ torque = AllOn
<1>1. ExecLaunch
  <2> USE DEF Launches
  <2>1. ~(HostFrame \/ ReceiveFault)
    BY DEF HostFrame, ReceiveFault, Heartbeat, Open, Batch, ArmConfigures, ArmAgain, Enable,
       ClearFault, Hold, RightArmEnableOnce, RightArmConfigureOnce, RightArmJogOnce,
       RightArmOneShot, ArmFails, SafeStop, Disable, RightArmDisable, PrepareShadow
  <2>2. ASSUME NEW fault \in BOOLEAN, NEW outcome \in Outcomes, Guards(fault, outcome)
        PROVE  FALSE
    BY <2>2 DEF Guards
  <2>3. ~(TrackOff \/ TrackFault)
    BY DEF TrackOff, TrackFault, RequestStop
  <2>4. ASSUME NEW polled \in Polled, TrackRequestFails(polled) \/ TrackPair(polled)
        PROVE  FALSE
    BY <2>4 DEF TrackRequestFails, TrackPair, RequestStop
  <2>5. ~(ExecIdle \/ ExecUnready \/ ExecFails)
    BY DEF ExecIdle, ExecUnready, ExecFails, RequestStop
  <2>6. ~(ControlInterrupt \/ DispatchEnds \/ Elapse \/ UNCHANGED vars)
    BY DEF ControlInterrupt, DispatchEnds, Elapse, vars
  <2>7. QED
    BY <2>1, <2>2, <2>3, <2>4, <2>5, <2>6 DEF Next, Service
<1>2. phase = "EXEC" /\ clockActive /\ event # "MISSED" /\ dispatch = "IDLE"
  BY <1>1 DEF ExecLaunch, Executed, TakeEvent, Unready
<1>3. safety.state = "ACTIVE" /\ ~stopLatched /\ configured
  BY <1>2 DEF IInv, StreamMayMove, Unguarded
<1>4. QED
  BY <1>1, <1>3 DEF IInv, TorqueMarked

\* Positions are launched only in ACTIVE, with no stop latched, and with both arms
\* energised and marked.
THEOREM LaunchSound == ASSUME Bounded PROVE Spec => LaunchOnlyWhenEnabled
<1> DEFINE A == Launches => /\ safety.state = "ACTIVE"
                            /\ ~stopLatched
                            /\ output
                            /\ torque = AllOn
<1>1. ASSUME IInv, [Next]_vars PROVE [A]_vars
  BY <1>1, LaunchStep
<1>2. QED
  BY <1>1, SupervisorInvariant, PTL DEF Spec, LaunchOnlyWhenEnabled

\* A DISABLE that answers OK leaves no arm energised.
THEOREM DisableSound == ASSUME Bounded PROVE Spec => DisableTellsTheTruth
<1> DEFINE A == \A outcome \in Outcomes :
                    Disable(outcome) /\ DisableSucceeds(outcome) => ~Energised'
<1>1. ASSUME IInv, [Next]_vars PROVE [A]_vars
  <2> SUFFICES ASSUME NEW outcome \in Outcomes, Disable(outcome), DisableSucceeds(outcome)
               PROVE  ~Energised'
    OBVIOUS
  <2>1. torque'.left # "ON"
    BY DEF Disable, DisableSucceeds
  <2>2. torque'.right # "ON"
    BY <1>1, OutcomeFacts DEF IInv, TorqueMarked, Disable, DisableSucceeds, RightFails
  <2>3. QED
    BY <2>1, <2>2 DEF Energised
<1>2. QED
  BY <1>1, SupervisorInvariant, PTL DEF Spec, DisableTellsTheTruth
===================================================================================
