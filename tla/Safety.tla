---------------------------------- MODULE Safety ----------------------------------
(***************************************************************************)
(* The safety state machine of the actuator core (safety.c).  Its functions *)
(* are operators on one record, so that the supervisor can apply several of *)
(* them in one step; the module also specifies the machine on its own, with *)
(* any caller.                                                              *)
(*                                                                         *)
(* The code keeps the time of the last heartbeat and only ever uses the     *)
(* unsigned difference to the current time: age is that difference, Wrap    *)
(* the number of values of the clock (2^32 milliseconds in the code).       *)
(***************************************************************************)
EXTENDS Integers

CONSTANTS
    Timeout,    \* heartbeat_timeout_ms
    Wrap,       \* values of the millisecond clock
    MaxSilence  \* bound: longest silence of the host

ASSUME ClockAssumption ==
    /\ Timeout \in Nat \ {0}
    /\ Wrap \in Nat
    /\ MaxSilence \in Nat
    /\ Timeout < Wrap

VARIABLES
    safety,     \* the actuator_safety_t record
    age,        \* now_ms - last_heartbeat_ms, as the code computes it
    silence     \* the same difference without wrapping (observer)

vars == <<safety, age, silence>>

States == {"BOOT", "SAFE_DISABLED", "ARMED", "ACTIVE", "HOLD", "FAULT", "ESTOPPED"}
Latched == {"FAULT", "ESTOPPED"}

Record == [state : States, seen : BOOLEAN, hold : BOOLEAN, torqueOff : BOOLEAN,
           estop : BOOLEAN]

Initial == [state |-> "BOOT", seen |-> FALSE, hold |-> FALSE, torqueOff |-> TRUE,
            estop |-> FALSE]

-----------------------------------------------------------------------------
(* The functions of safety.c; a refused request returns its record unchanged *)

Fresh(s, a) == s.seen /\ a <= Timeout

CompleteBoot(s, healthy) ==
    [s EXCEPT !.state = IF @ # "BOOT" THEN @
                        ELSE IF healthy THEN "SAFE_DISABLED" ELSE "FAULT"]

OnHeartbeat(s) == [s EXCEPT !.seen = TRUE]

MayArm(s, healthy) == s.state = "SAFE_DISABLED" /\ ~s.estop /\ healthy

RequestArm(s, healthy) ==
    IF MayArm(s, healthy)
    THEN [s EXCEPT !.state = "ARMED", !.hold = FALSE, !.torqueOff = TRUE]
    ELSE s

\* variant: any heartbeat will do, however old
MayEnable_AnyAge(s, a) == s.state = "ARMED" /\ ~s.estop /\ s.seen

MayEnable(s, a) == s.state = "ARMED" /\ ~s.estop /\ Fresh(s, a)

RequestEnable(s, a) ==
    IF MayEnable(s, a)
    THEN [s EXCEPT !.state = "ACTIVE", !.hold = FALSE, !.torqueOff = FALSE]
    ELSE s

RequestHold(s) ==
    IF s.state = "ACTIVE" THEN [s EXCEPT !.state = "HOLD", !.hold = TRUE] ELSE s

RequestDisable(s) ==
    IF s.state \in {"BOOT"} \cup Latched THEN s
    ELSE [s EXCEPT !.state = "SAFE_DISABLED", !.hold = FALSE, !.torqueOff = TRUE,
                   !.seen = FALSE]

ReportFault(s) ==
    [s EXCEPT !.state = IF s.estop THEN @ ELSE "FAULT", !.hold = FALSE, !.torqueOff = TRUE]

SetEstop(s, asserted) ==
    IF asserted
    THEN [s EXCEPT !.estop = TRUE, !.state = "ESTOPPED", !.hold = FALSE, !.torqueOff = TRUE]
    ELSE [s EXCEPT !.estop = FALSE]

MayClear(s, healthy) == s.state \in Latched /\ ~s.estop /\ healthy

\* variant: an acknowledged fault keeps the old heartbeat
ClearLatchedStop_KeepsHeartbeat(s, healthy) ==
    IF MayClear(s, healthy)
    THEN [s EXCEPT !.state = "SAFE_DISABLED", !.hold = FALSE, !.torqueOff = TRUE]
    ELSE s

ClearLatchedStop(s, healthy) ==
    IF MayClear(s, healthy)
    THEN [s EXCEPT !.state = "SAFE_DISABLED", !.seen = FALSE, !.hold = FALSE,
                   !.torqueOff = TRUE]
    ELSE s

TickSafety(s, a) ==
    IF s.state = "ACTIVE" /\ ~Fresh(s, a)
    THEN [s EXCEPT !.state = "HOLD", !.hold = TRUE]
    ELSE s

AcceptsSetpoint(s) == s.state = "ACTIVE" /\ ~s.estop /\ ~s.torqueOff

-----------------------------------------------------------------------------
(* Any caller, at any time *)

Call(s) == safety' = s /\ UNCHANGED <<age, silence>>

Boot(healthy) == safety.state = "BOOT" /\ Call(CompleteBoot(safety, healthy))

Heartbeat ==
    /\ safety' = OnHeartbeat(safety)
    /\ age' = 0
    /\ silence' = 0

Arm(healthy) == MayArm(safety, healthy) /\ Call(RequestArm(safety, healthy))

Enable == MayEnable(safety, age) /\ Call(RequestEnable(safety, age))

Hold == safety.state = "ACTIVE" /\ Call(RequestHold(safety))

Disable == Call(RequestDisable(safety))

Fault == Call(ReportFault(safety))

Estop(asserted) == Call(SetEstop(safety, asserted))

Clear(healthy) == MayClear(safety, healthy) /\ Call(ClearLatchedStop(safety, healthy))

\* actuator_safety_tick, once per pass of the main loop
Tick == Call(TickSafety(safety, age))

Elapse ==
    /\ silence < MaxSilence
    /\ silence' = silence + 1
    /\ age' = (age + 1) % Wrap
    /\ UNCHANGED safety

Init ==
    /\ safety = Initial
    /\ age = 0
    /\ silence = 0

Next ==
    \/ Heartbeat \/ Enable \/ Hold \/ Disable \/ Fault \/ Tick \/ Elapse
    \/ \E b \in BOOLEAN : Boot(b) \/ Arm(b) \/ Estop(b) \/ Clear(b)

Spec == Init /\ [][Next]_vars

-----------------------------------------------------------------------------
(* Properties *)

\* Every reachable record is one of the seven states with its two requests, and
\* the age the code computes is a value of its clock.
TypeOK ==
    /\ safety \in Record
    /\ age \in 0..(Wrap - 1)
    /\ silence \in Nat

\* The request flags that the rest of the firmware reads never contradict the
\* state, whatever order requests, faults and emergency stops come in: torque is
\* allowed in ACTIVE and HOLD only, hold is asked in HOLD only, and an asserted
\* emergency stop is never masked by a fault, a disable or a clear.
RequestsMatchState ==
    /\ ~safety.torqueOff <=> safety.state \in {"ACTIVE", "HOLD"}
    /\ safety.hold <=> safety.state = "HOLD"
    /\ safety.estop => safety.state = "ESTOPPED"

\* A machine that may move has been heard since it was last disabled or cleared
\* (both forget the heartbeat, none of the other operations may skip it).
ActiveHasBeenHeard == safety.state \in {"ACTIVE", "HOLD"} => safety.seen

\* A latched stop ends in one way only: cleared, with the emergency stop released,
\* into SAFE_DISABLED, and with a new heartbeat still to come.
LatchHolds ==
    [][safety.state \in Latched /\ safety'.state \notin Latched =>
          /\ ~safety.estop
          /\ safety'.state = "SAFE_DISABLED"
          /\ ~safety'.seen]_vars

\* Claimed by the name and body of test_safety_requires_explicit_arm_and_fresh_heartbeat:
\* the machine becomes ACTIVE only within Timeout of the last heartbeat.
EnableNeedsFreshHeartbeat ==
    [][safety.state # "ACTIVE" /\ safety'.state = "ACTIVE" => silence <= Timeout]_vars

\* Short of a whole turn of the clock the age the code computes is the true one.
AgeIsTrue == silence < Wrap => age = silence

\* The inductive invariant: all of the above.
IInv == TypeOK /\ RequestsMatchState /\ ActiveHasBeenHeard /\ AgeIsTrue

==================================================================================
