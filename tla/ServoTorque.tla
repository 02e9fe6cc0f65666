---------------------------- MODULE ServoTorque ----------------------------
(***************************************************************************)
(* Who is energised: the torque of both arms, behind the blocking register *)
(* transactions that arm and disarm them (Host_ConfigureBimanualForTra-    *)
(* jectory, Host_PerformV2CoordinatedStop, DISABLE, PREPARE_SHADOW and the *)
(* bring-up frames of the right arm, over servo_bus.c and                  *)
(* right_servo_bus.c).  The detail under the torque of Supervisor.         *)
(***************************************************************************)
EXTENDS Integers, FiniteSets

CONSTANTS
    Joints,         \* servos of an arm
    MaxFaults       \* transactions that fail during one frame (bounds the model)

ASSUME TorqueAssumption == Joints \in Nat \ {0} /\ MaxFaults \in Nat

VARIABLES
    energised,      \* servos whose register 40 is 1
    stale,          \* servos whose goal is not where they stand
    configured,     \* host_binary_servos_configured
    output,         \* host_right_arm_output_active
    frame,          \* the frame being handled
    at, joint,      \* the transaction that is next, and its servo
    failed,         \* arms whose removal has failed in this frame
    wrote,          \* runtime registers: all sent, one lost, one refused
    faults,         \* transactions that failed in this frame
    tried,          \* writes of a removal, per servo, in this frame
    clean,          \* arms that a removal reported off, none armed since
    excused,        \* servos whose goal was lost, or set by a side effect
    limp,           \* servos whose torque was not switched on, unreported
    warned          \* right servos on, with a failure answered since

Arms   == {"left", "right"}
Side   == 1 .. Joints
Servos == Arms \X Side
Left   == <<"left", joint>>
Right  == <<"right", joint>>
Frames == {"NONE", "ARM", "SAFE_STOP", "DISABLE", "PREPARE_SHADOW",
           "RIGHT_ENABLE", "RIGHT_CONFIGURE", "RIGHT_DISABLE"}
Places == {"idle", "left_read", "left_off", "left_tune", "left_goal",
           "left_on", "left_check", "rollback",
           "right_torque", "right_read", "right_tune", "right_limit",
           "right_off", "right_check",
           "enable_torque", "enable_read", "enable_goal", "enable_on",
           "enable_check", "left_remove", "left_verify", "left_rewrite",
           "left_again", "right_remove", "right_verify", "answer",
           "armed"}

flags   == <<configured, output>>
ghosts  == <<excused, limp, warned>>
vars == <<energised, stale, configured, output, frame, at, joint,
          failed, wrote, faults, tried, clean, excused, limp, warned>>

TypeOK ==
    /\ energised \subseteq Servos /\ stale \subseteq Servos
    /\ configured \in BOOLEAN /\ output \in BOOLEAN
    /\ frame \in Frames /\ at \in Places /\ joint \in Side
    /\ failed \subseteq Arms /\ wrote \in {"all", "lost", "refused"}
    /\ faults \in 0 .. MaxFaults
    /\ tried \in [Servos -> 0 .. 2]
    /\ clean \subseteq Arms
    /\ excused \subseteq Servos /\ limp \subseteq Servos
    /\ warned \subseteq Servos

\* Power-up: torque is off, nothing is known of the registers.
Init ==
    /\ energised = {} /\ stale = Servos
    /\ configured = FALSE /\ output = FALSE
    /\ frame = "NONE" /\ at = "idle" /\ joint = 1
    /\ failed = {} /\ wrote = "all" /\ faults = 0
    /\ tried = [s \in Servos |-> 0]
    /\ clean = {} /\ excused = {} /\ limp = {} /\ warned = {}

-----------------------------------------------------------------------------
(* Transactions.                                                           *)

\* A write that reaches the servo may be reported as failed, and one that is
\* reported as sent may not reach it: the bus checks the transmission only.
Writes == [applied : BOOLEAN, ok : BOOLEAN]

Faults(n) == faults + n <= MaxFaults /\ faults' = faults + n
Costs(w)  == Faults(IF w.applied /\ w.ok THEN 0 ELSE 1)

\* Servo_ReadData, RightServo_ReadData: the register, or a failure.
Reads(ok) == Faults(IF ok THEN 0 ELSE 1)

Goto(place, j) == at' = place /\ joint' = j
Nothing == UNCHANGED <<energised, stale>>

\* Register 40, off: without torque an arm sinks from where it stood.
Release(off) ==
    /\ energised' = energised \ off /\ stale' = stale \cup off
    /\ excused' = excused \ off /\ warned' = warned \ off
    /\ UNCHANGED limp
SwitchOff(s, w) == Release(IF w.applied THEN {s} ELSE {})

SwitchOn(s, w) ==
    /\ energised' = IF w.applied THEN energised \cup {s} ELSE energised
    /\ limp' = IF w.applied THEN limp \ {s} ELSE limp \cup {s}
    /\ UNCHANGED <<stale, excused, warned>>

\* The position just read becomes the goal.
WriteGoal(s, w) ==
    /\ stale' = IF w.applied THEN stale \ {s} ELSE stale
    /\ excused' = IF w.applied THEN excused \ {s} ELSE excused \cup {s}

\* Runtime registers; a block of them may switch torque on by itself
\* (right_servo_bus.c:640).  A write that is lost is noticed if the register
\* did not hold the value from before.
Tune(w) ==
    wrote' = IF ~w.ok THEN "refused" ELSE IF ~w.applied THEN "lost" ELSE wrote
Noticed(yes) == wrote = "refused" \/ (wrote = "lost" /\ yes)
BlockMayEnergise(s, w) ==
    energised' \in {energised} \cup (IF w.applied THEN {energised \cup {s}} ELSE {})

-----------------------------------------------------------------------------
(* Frames.                                                                 *)

Begin(f, place) ==
    /\ at = "idle" /\ frame' = f /\ Goto(place, 1)
    /\ Nothing /\ UNCHANGED <<failed, wrote, faults, tried, ghosts>>

\* ACTUATOR_MSG_ARM_REQUEST of a pair that is not configured.
Arm == ~configured /\ Begin("ARM", "left_read") /\ clean' = {} /\ UNCHANGED flags

\* Host_PerformV2CoordinatedStop
SafeStop == Begin("SAFE_STOP", "left_remove") /\ UNCHANGED <<flags, clean>>

Disable ==
    /\ Begin("DISABLE", "left_remove")
    /\ configured' = FALSE
    /\ UNCHANGED <<output, clean>>

PrepareShadow == Begin("PREPARE_SHADOW", "left_remove") /\ UNCHANGED <<flags, clean>>

\* PREPARE_SHADOW with an anchor it refuses passes the left arm over.
PrepareShadowUnbound ==
    Begin("PREPARE_SHADOW", "right_remove") /\ UNCHANGED <<flags, clean>>

RightDisable == Begin("RIGHT_DISABLE", "right_remove") /\ UNCHANGED <<flags, clean>>

\* The bring-up frames, on a servo of the right arm that is not configured.
RightOneShot(f, place) ==
    /\ at = "idle" /\ ~configured /\ frame' = f
    /\ \E j \in Side : Goto(place, j)
    /\ clean' = clean \ {"right"}
    /\ Nothing /\ UNCHANGED <<failed, wrote, faults, tried, ghosts>>
RightEnable == RightOneShot("RIGHT_ENABLE", "enable_torque") /\ UNCHANGED flags
RightConfigure ==
    /\ RightOneShot("RIGHT_CONFIGURE", "right_torque")
    /\ output' = TRUE /\ UNCHANGED configured

-----------------------------------------------------------------------------
(* Arming the left arm: Servo_ConfigureAllForTrajectory.                   *)

LeftReads ==
    /\ at = "left_read"
    /\ \E ok \in BOOLEAN :
         /\ Reads(ok)
         /\ Goto(IF ok THEN "left_off" ELSE "rollback", joint)
    /\ wrote' = "all"
    /\ Nothing /\ UNCHANGED <<flags, frame, clean, failed, tried, ghosts>>

\* variant: torque first, then the goal
LeftNext_OnFirst ==
    [left_off |-> "left_tune", left_tune |-> "left_on",
     left_on |-> "left_goal", left_goal |-> "left_check"]

\* The writes in their order; the first that fails ends the attempt.
LeftNext ==
    [left_off |-> "left_tune", left_tune |-> "left_goal",
     left_goal |-> "left_on", left_on |-> "left_check"]

LeftContinues(w) ==
    /\ Goto(IF w.ok THEN LeftNext[at] ELSE "rollback", joint)
    /\ UNCHANGED <<flags, frame, clean, failed, tried>>

LeftSwitchesOff ==
    /\ at = "left_off"
    /\ \E w \in Writes : Costs(w) /\ SwitchOff(Left, w) /\ LeftContinues(w)
    /\ UNCHANGED wrote

LeftTunes ==
    /\ at = "left_tune"
    /\ \E w \in Writes : Costs(w) /\ Tune(w) /\ LeftContinues(w)
    /\ Nothing /\ UNCHANGED ghosts

LeftSetsGoal ==
    /\ at = "left_goal"
    /\ \E w \in Writes :
         /\ Costs(w) /\ Tune(w) /\ LeftContinues(w)
         /\ WriteGoal(Left, w) /\ BlockMayEnergise(Left, w)
    /\ UNCHANGED <<limp, warned>>

LeftSwitchesOn ==
    /\ at = "left_on"
    /\ \E w \in Writes : Costs(w) /\ SwitchOn(Left, w) /\ LeftContinues(w)
    /\ UNCHANGED wrote

\* PID and torque limit are read back; torque and goal are not.
LeftChecks ==
    /\ at = "left_check"
    /\ \E ok, noticed \in BOOLEAN :
         /\ Reads(ok)
         /\ IF ~ok \/ Noticed(noticed) THEN Goto("rollback", joint)
            ELSE IF joint < Joints THEN Goto("left_read", joint + 1)
                                   ELSE Goto("right_torque", 1)
    /\ Nothing /\ UNCHANGED <<flags, frame, clean, failed, wrote, tried, ghosts>>

\* The servos configured so far are switched off, unverified.
RollsBack ==
    /\ at = "rollback"
    /\ \E lost \in SUBSET (1 .. joint) :
         /\ Faults(Cardinality(lost))
         /\ Release({"left"} \X ((1 .. joint) \ lost))
    /\ Goto("left_remove", 1)
    /\ UNCHANGED <<flags, frame, clean, failed, wrote, tried>>

-----------------------------------------------------------------------------
(* RightServoBus_ConfigureAtPresentPositionOnce                            *)

\* What follows a right configuration, or an enable, of one servo.
Passes(place, j) == Goto(place, j) /\ UNCHANGED failed
Fails == IF frame = "ARM" THEN Passes("left_remove", 1)
         ELSE Goto("answer", joint) /\ failed' = {"right"}
Follows(again, place) ==
    CASE frame # "ARM"                    -> Passes("answer", joint)
      [] frame = "ARM" /\ joint < Joints -> Passes(again, joint + 1)
      [] OTHER                            -> Passes(place, 1)

RightReadsTorque ==
    /\ at = "right_torque"
    /\ \E ok \in BOOLEAN :
         /\ Reads(ok)
         /\ IF ok /\ Right \notin energised
            THEN Passes("right_read", joint)
            ELSE Fails
    /\ Nothing /\ UNCHANGED <<flags, frame, clean, wrote, tried, ghosts>>

RightReads ==
    /\ at = "right_read"
    /\ \E ok \in BOOLEAN :
         /\ Reads(ok)
         /\ IF ok THEN Passes("right_tune", joint)
                  ELSE Fails
    /\ wrote' = "all"
    /\ Nothing /\ UNCHANGED <<flags, frame, clean, tried, ghosts>>

\* The first write that fails ends them, but not the configuration.
RightTunes ==
    /\ at = "right_tune"
    /\ \E w \in Writes :
         /\ Costs(w) /\ Tune(w)
         /\ Goto(IF w.ok THEN "right_limit" ELSE "right_off", joint)
    /\ Nothing /\ UNCHANGED <<flags, frame, clean, failed, tried, ghosts>>

RightLimits ==
    /\ at = "right_limit"
    /\ \E w \in Writes :
         /\ Costs(w) /\ Tune(w) /\ BlockMayEnergise(Right, w)
    /\ excused' = excused \cup (energised' \ energised)
    /\ Goto("right_off", joint)
    /\ UNCHANGED <<stale, flags, frame, clean, failed, tried, limp, warned>>

\* Torque off, whatever became of the writes before.
RightSwitchesOff ==
    /\ at = "right_off"
    /\ \E w \in Writes :
         /\ Costs(w) /\ SwitchOff(Right, w)
         /\ IF w.ok THEN Passes("right_check", joint)
                    ELSE Fails
    /\ UNCHANGED <<flags, frame, clean, wrote, tried>>

RightChecks ==
    /\ at = "right_check"
    /\ \E ok, noticed \in BOOLEAN :
         /\ Reads(ok)
         /\ IF ok /\ ~Noticed(noticed) /\ Right \notin energised
            THEN Follows("right_torque", "enable_torque")
            ELSE Fails
    /\ Nothing /\ UNCHANGED <<flags, frame, clean, wrote, tried, ghosts>>

-----------------------------------------------------------------------------
(* RightServoBus_EnableTorqueAtPresentPositionOnce                         *)

\* A servo that is on already is a failure of ARM, not of the bring-up frame.
EnableReadsTorque ==
    /\ at = "enable_torque"
    /\ \E ok \in BOOLEAN :
         /\ Reads(ok)
         /\ CASE ok /\ Right \notin energised ->
                    Passes("enable_read", joint)
              [] ok /\ Right \in energised /\ frame = "RIGHT_ENABLE" ->
                    Passes("answer", joint)
              [] OTHER -> Fails
    /\ Nothing /\ UNCHANGED <<flags, frame, clean, wrote, tried, ghosts>>

\* The position, which must be within the operational limits.
EnableReads ==
    /\ at = "enable_read"
    /\ \/ Reads(TRUE) /\ Passes("enable_goal", joint)
       \/ Reads(FALSE) /\ Fails
       \/ Reads(TRUE) /\ Fails
    /\ Nothing /\ UNCHANGED <<flags, frame, clean, wrote, tried, ghosts>>

EnableSetsGoal ==
    /\ at = "enable_goal"
    /\ \E w \in Writes :
         /\ Costs(w) /\ WriteGoal(Right, w)
         /\ IF w.ok THEN Passes("enable_on", joint) ELSE Fails
    /\ UNCHANGED <<energised, limp, warned, flags, frame, clean, wrote, tried>>

EnableSwitchesOn ==
    /\ at = "enable_on"
    /\ \E w \in Writes :
         /\ Costs(w) /\ SwitchOn(Right, w)
         /\ IF w.ok THEN Passes("enable_check", joint) ELSE Fails
    /\ UNCHANGED <<flags, frame, clean, wrote, tried>>

\* variant: the register is read back and not looked at
EnableChecks_AnyValue ==
    /\ at = "enable_check"
    /\ \E ok \in BOOLEAN :
         /\ Reads(ok)
         /\ IF ok
            THEN Follows("enable_torque", "armed")
            ELSE Fails
    /\ Nothing /\ UNCHANGED <<flags, frame, clean, wrote, tried, ghosts>>

\* Torque must read 1, and the position must be readable.
EnableChecks ==
    /\ at = "enable_check"
    /\ \E ok \in BOOLEAN :
         /\ Reads(ok)
         /\ IF ok /\ Right \in energised
            THEN Follows("enable_torque", "armed")
            ELSE Fails
    /\ Nothing /\ UNCHANGED <<flags, frame, clean, wrote, tried, ghosts>>

-----------------------------------------------------------------------------
(* Removing torque.                                                        *)

Tried(removed) == tried' = [s \in Servos |-> tried[s] + (IF s \in removed THEN 1 ELSE 0)]

\* Servo_DisableTorqueAll: all are written first, the results do not count.
LeftRemoves ==
    /\ at = "left_remove"
    /\ \E lost \in SUBSET Side :
         /\ Faults(Cardinality(lost))
         /\ Release({"left"} \X (Side \ lost))
    /\ Tried({"left"} \X Side)
    /\ Goto("left_verify", 1)
    /\ UNCHANGED <<flags, frame, clean, failed, wrote>>

\* DISABLE passes over a right arm that nothing has energised.
LeftDone ==
    IF joint < Joints THEN Goto("left_verify", joint + 1)
    ELSE Goto(IF frame = "DISABLE" /\ ~output THEN "answer" ELSE "right_remove", 1)

\* variant: a servo that does not answer counts as off
LeftVerifies_TrustsWrite ==
    /\ at \in {"left_verify", "left_again"}
    /\ \E ok \in BOOLEAN :
         /\ Reads(ok)
         /\ CASE ~ok \/ Left \notin energised -> LeftDone /\ UNCHANGED failed
              [] ok /\ Left \in energised /\ at = "left_verify" ->
                    Goto("left_rewrite", joint) /\ UNCHANGED failed
              [] OTHER -> LeftDone /\ failed' = failed \cup {"left"}
    /\ Nothing /\ UNCHANGED <<flags, frame, clean, wrote, tried, ghosts>>

\* Register 40 is read back; one more write and one more reading for a servo
\* that does not answer, or is still on.
LeftVerifies ==
    /\ at \in {"left_verify", "left_again"}
    /\ \E ok \in BOOLEAN :
         /\ Reads(ok)
         /\ CASE ok /\ Left \notin energised -> LeftDone /\ UNCHANGED failed
              [] at = "left_verify" /\ ~(ok /\ Left \notin energised) ->
                    Goto("left_rewrite", joint) /\ UNCHANGED failed
              [] OTHER -> LeftDone /\ failed' = failed \cup {"left"}
    /\ Nothing /\ UNCHANGED <<flags, frame, clean, wrote, tried, ghosts>>

LeftRewrites ==
    /\ at = "left_rewrite"
    /\ \E w \in Writes : Costs(w) /\ SwitchOff(Left, w)
    /\ Tried({Left})
    /\ Goto("left_again", joint)
    /\ UNCHANGED <<flags, frame, clean, failed, wrote>>

\* RightServoBus_DisableTorqueAllVerified: one write and one reading each.
RightDone ==
    IF joint < Joints THEN Goto("right_remove", joint + 1) ELSE Goto("answer", 1)

\* variant: the first write that fails ends the removal
RightRemoves_GivesUp ==
    /\ at = "right_remove"
    /\ \E w \in Writes :
         /\ Costs(w) /\ SwitchOff(Right, w)
         /\ IF w.ok THEN Passes("right_verify", joint)
                    ELSE Goto("answer", 1) /\ failed' = failed \cup {"right"}
    /\ Tried({Right})
    /\ UNCHANGED <<flags, frame, clean, wrote>>

RightRemoves ==
    /\ at = "right_remove"
    /\ \E w \in Writes :
         /\ Costs(w) /\ SwitchOff(Right, w)
         /\ IF w.ok THEN Passes("right_verify", joint)
                    ELSE RightDone /\ failed' = failed \cup {"right"}
    /\ Tried({Right})
    /\ UNCHANGED <<flags, frame, clean, wrote>>

\* variant: a servo that does not answer counts as off
RightVerifies_TrustsWrite ==
    /\ at = "right_verify"
    /\ \E ok \in BOOLEAN :
         /\ Reads(ok)
         /\ failed' = IF ok /\ Right \in energised THEN failed \cup {"right"}
                      ELSE failed
    /\ RightDone
    /\ Nothing /\ UNCHANGED <<flags, frame, clean, wrote, tried, ghosts>>

RightVerifies ==
    /\ at = "right_verify"
    /\ \E ok \in BOOLEAN :
         /\ Reads(ok)
         /\ failed' = IF ok /\ Right \notin energised THEN failed
                      ELSE failed \cup {"right"}
    /\ RightDone
    /\ Nothing /\ UNCHANGED <<flags, frame, clean, wrote, tried, ghosts>>

-----------------------------------------------------------------------------
(* Answers.                                                                *)

ArmSucceeds ==
    /\ at = "armed" /\ Goto("idle", 1)
    /\ configured' = TRUE /\ output' = TRUE
    /\ frame' = "NONE" /\ faults' = 0 /\ wrote' = "all" /\ limp' = {}
    /\ Nothing /\ UNCHANGED <<clean, failed, tried, excused, warned>>

\* A PREPARE_SHADOW that passed the left arm over answers its refusal.
AnswersFailure ==
    \/ frame = "ARM" \/ failed # {}
    \/ frame = "PREPARE_SHADOW" /\ tried[<<"left", 1>>] = 0

Answers ==
    /\ at = "answer" /\ Goto("idle", 1)
    /\ configured' = (configured /\ frame \notin {"SAFE_STOP", "PREPARE_SHADOW"})
    /\ output' = CASE frame \in {"SAFE_STOP", "PREPARE_SHADOW"} -> FALSE
                   [] frame \in {"DISABLE", "RIGHT_DISABLE"} ->
                        output /\ "right" \in failed
                   [] frame = "RIGHT_ENABLE" -> output \/ failed = {}
                   [] OTHER -> output
    /\ clean' = clean \cup ({a \in Arms : tried[<<a, 1>>] > 0} \ failed)
    /\ warned' = IF AnswersFailure THEN energised ELSE warned
    /\ frame' = "NONE" /\ failed' = {} /\ faults' = 0 /\ wrote' = "all"
    /\ tried' = [s \in Servos |-> 0] /\ limp' = {}
    /\ Nothing /\ UNCHANGED excused

-----------------------------------------------------------------------------
HostFrame == Arm \/ SafeStop \/ Disable \/ PrepareShadow \/ PrepareShadowUnbound
             \/ RightDisable \/ RightEnable \/ RightConfigure
LeftArming == LeftReads \/ LeftSwitchesOff \/ LeftTunes \/ LeftSetsGoal
              \/ LeftSwitchesOn \/ LeftChecks \/ RollsBack
RightConfiguring == RightReadsTorque \/ RightReads \/ RightTunes \/ RightLimits
                    \/ RightSwitchesOff \/ RightChecks
RightEnabling == EnableReadsTorque \/ EnableReads \/ EnableSetsGoal
                 \/ EnableSwitchesOn \/ EnableChecks
Removing == LeftRemoves \/ LeftVerifies \/ LeftRewrites
            \/ RightRemoves \/ RightVerifies
Next == HostFrame \/ LeftArming \/ RightConfiguring \/ RightEnabling
        \/ Removing \/ ArmSucceeds \/ Answers

Spec == Init /\ [][Next]_vars

-----------------------------------------------------------------------------
(* Properties.                                                             *)

\* A removal that reports an arm off means it: no servo of it is energised,
\* whatever was lost, and none is until the next arming (servo_bus.c:1058,
\* right_servo_bus.c:690).
VerifiedMeansOff ==
    \A a \in clean, j \in Side : <<a, j>> \notin energised

\* Arms that the frame switches off.  A PREPARE_SHADOW may pass over the left
\* arm, a DISABLE a right arm that no flag marks.
Covered ==
    CASE frame \in {"SAFE_STOP", "ARM"} -> Arms
      [] frame = "DISABLE" -> {"left"} \cup (IF output THEN {"right"} ELSE {})
      [] frame \in {"RIGHT_DISABLE", "PREPARE_SHADOW"} -> {"right"}
      [] OTHER -> {}

\* No servo is passed over because another one failed: when a removal, or the
\* clean-up of a failed ARM, is over, a servo of its arms that is still
\* energised was written to as often as the code promises, in vain
\* (right_servo_bus.c:712, servo_bus.c:1090, binary_control.c:2738).
NoServoSkipped ==
    at = "answer" => \A s \in energised :
        s[1] \in Covered => tried[s] = (IF s[1] = "left" THEN 2 ELSE 1)

\* An ARM that succeeds leaves no limp servo in a stiff arm: the right ones
\* are on, each was read back; a left one is off only if the write of its
\* torque was lost on the wire, which nothing reads back (servo_bus.c:2011).
ArmedIsStiff ==
    at = "armed" => /\ {"right"} \X Side \subseteq energised
                    /\ {"left"} \X Side \subseteq energised \cup limp

\* A servo that is switched on stays where it is: its goal was set to the
\* position read before, unless that write was lost on the wire or the servo
\* switched itself on (binary_control.c:2732, right_servo_bus.c:640).
NoJump == energised \cap stale \subseteq excused

\* A right servo that is on although no flag marks it, so that neither the
\* watchdog nor a DISABLE sees it, was reported: some answer since it was
\* energised said failure (right_servo_bus.c:466, binary_control.c:904).
StrayIsReported ==
    at = "idle" /\ ~output => energised \cap ({"right"} \X Side) \subseteq warned

-----------------------------------------------------------------------------
(* What makes them inductive.                                              *)

LeftPlaces   == {"left_read", "left_off", "left_tune", "left_goal", "left_on",
                 "left_check", "rollback"}
RightPlaces  == {"right_torque", "right_read", "right_tune", "right_limit",
                 "right_off", "right_check", "enable_torque", "enable_read",
                 "enable_goal", "enable_on", "enable_check"}
VerifyPlaces == {"left_verify", "left_rewrite", "left_again"}
Removals     == {"ARM", "SAFE_STOP", "DISABLE", "PREPARE_SHADOW", "RIGHT_DISABLE"}

\* Which frame may be at which place, and what arming does to the books.
FrameFits ==
    /\ at = "idle" <=> frame = "NONE"
    /\ at \in LeftPlaces \cup {"armed"} => frame = "ARM"
    /\ at \in RightPlaces => frame \in {"ARM", "RIGHT_ENABLE", "RIGHT_CONFIGURE"}
    /\ at \in VerifyPlaces \cup {"left_remove"} => frame \in Removals \ {"RIGHT_DISABLE"}
    /\ at \in {"right_remove", "right_verify"} => frame \in Removals
    /\ at \in {"right_remove", "right_verify"} /\ frame = "DISABLE" => output
    /\ frame = "ARM" => clean = {}
    /\ frame \in {"RIGHT_ENABLE", "RIGHT_CONFIGURE"} => "right" \notin clean
    /\ frame = "RIGHT_CONFIGURE" => output

\* How far a removal has come: left servos before k, right servos before k.
LeftTreated(k) ==
    \A j \in Side : j < k /\ <<"left", j>> \in energised
                        => "left" \in failed /\ tried[<<"left", j>>] = 2
RightTreated(k) ==
    \A j \in Side : j < k => /\ tried[<<"right", j>>] = 1
                             /\ <<"right", j>> \in energised => "right" \in failed
Untouched(a, k) == \A j \in Side : j >= k => tried[<<a, j>>] = 0

RemovalKept ==
    /\ at \notin VerifyPlaces \cup {"right_remove", "right_verify", "answer"}
            => Untouched("left", 1) /\ Untouched("right", 1)
    /\ at \in VerifyPlaces =>
            /\ Untouched("right", 1) /\ LeftTreated(joint)
            /\ \A j \in Side : /\ tried[<<"left", j>>] > 0
                               /\ j > joint => tried[<<"left", j>>] = 1
    /\ at \in {"left_verify", "left_rewrite"} => tried[Left] = 1
    /\ at = "left_again" => tried[Left] = 2
    /\ at \in {"right_remove", "right_verify", "answer"} =>
            /\ Untouched("left", 1) \/ LeftTreated(Joints + 1)
            /\ frame \in {"ARM", "SAFE_STOP", "DISABLE"} => tried[<<"left", 1>>] > 0
    /\ at = "right_remove" => RightTreated(joint) /\ Untouched("right", joint)
    /\ at = "right_verify" => /\ RightTreated(joint) /\ Untouched("right", joint + 1)
                              /\ tried[Right] = 1
    /\ at = "answer" =>
            IF "right" \in Covered THEN RightTreated(Joints + 1)
                                   ELSE Untouched("right", 1)
    /\ at = "answer" /\ Covered = {} => Untouched("left", 1)

\* How far an arming has come.
ArmingKept ==
    /\ at \in LeftPlaces \ {"rollback"} =>
            \A j \in Side : j < joint => <<"left", j>> \in energised \cup limp
    /\ at = "left_check" => Left \in energised \cup limp
    /\ at \in RightPlaces \cup {"armed"} /\ frame = "ARM" =>
            {"left"} \X Side \subseteq energised \cup limp
    /\ at \in {"enable_torque", "enable_read", "enable_goal", "enable_on",
              "enable_check"} /\ frame = "ARM" =>
            \A j \in Side : j < joint => <<"right", j>> \in energised

\* The goal is set when torque is.
GoalInHand ==
    /\ at = "left_on" /\ Left \in stale => Left \in excused
    /\ at = "enable_on" /\ Right \in stale => Right \in excused

StrayKept ==
    frame \notin {"ARM", "RIGHT_ENABLE"} /\ ~output
        => energised \cap ({"right"} \X Side) \subseteq warned

IInv ==
    /\ TypeOK
    /\ FrameFits /\ RemovalKept /\ VerifiedMeansOff
    /\ ArmingKept /\ ArmedIsStiff
    /\ GoalInHand /\ NoJump
    /\ StrayKept
=============================================================================
