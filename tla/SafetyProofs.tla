------------------------------- MODULE SafetyProofs -------------------------------
(***************************************************************************)
(* Theorems about the safety state machine, for every timeout, every width  *)
(* of the clock and every bound on the silence.                             *)
(***************************************************************************)
EXTENDS Safety, TLAPS

\* An age below the width of the clock is not changed by the wrap of the clock.
LEMMA NoWrap == ASSUME NEW w \in Nat, NEW a \in Nat, a < w PROVE a % w = a
  BY SMT

\* Every operation of safety.c returns a record of the same type with requests that
\* match its state and a heartbeat behind its motion.
OperationsSafe(s) ==
    /\ s \in Record
    /\ ~s.torqueOff <=> s.state \in {"ACTIVE", "HOLD"}
    /\ s.hold <=> s.state = "HOLD"
    /\ s.estop => s.state = "ESTOPPED"
    /\ s.state \in {"ACTIVE", "HOLD"} => s.seen

LEMMA OperationsKeepSafe ==
    ASSUME NEW s, OperationsSafe(s), NEW a, NEW b \in BOOLEAN
    PROVE  /\ OperationsSafe(CompleteBoot(s, b))
           /\ OperationsSafe(OnHeartbeat(s))
           /\ OperationsSafe(RequestArm(s, b))
           /\ OperationsSafe(RequestEnable(s, a))
           /\ OperationsSafe(RequestHold(s))
           /\ OperationsSafe(RequestDisable(s))
           /\ OperationsSafe(ReportFault(s))
           /\ OperationsSafe(SetEstop(s, b))
           /\ OperationsSafe(ClearLatchedStop(s, b))
           /\ OperationsSafe(TickSafety(s, a))
<1> USE DEF OperationsSafe, Record, States, Latched
<1>1. OperationsSafe(CompleteBoot(s, b))
  BY DEF CompleteBoot
<1>2. OperationsSafe(OnHeartbeat(s))
  BY DEF OnHeartbeat
<1>3. OperationsSafe(RequestArm(s, b))
  BY DEF RequestArm, MayArm
<1>4. OperationsSafe(RequestEnable(s, a))
  BY DEF RequestEnable, MayEnable, Fresh
<1>5. OperationsSafe(RequestHold(s))
  BY DEF RequestHold
<1>6. OperationsSafe(RequestDisable(s))
  BY DEF RequestDisable
<1>7. OperationsSafe(ReportFault(s))
  BY DEF ReportFault
<1>8. OperationsSafe(SetEstop(s, b))
  BY DEF SetEstop
<1>9. OperationsSafe(ClearLatchedStop(s, b))
  BY DEF ClearLatchedStop, MayClear
<1>10. OperationsSafe(TickSafety(s, a))
  BY DEF TickSafety, Fresh
<1>11. QED
  BY <1>1, <1>2, <1>3, <1>4, <1>5, <1>6, <1>7, <1>8, <1>9, <1>10

-----------------------------------------------------------------------------
\* The invariant of the machine holds in every reachable state.
LEMMA InvariantInit == Init => IInv
<1> SUFFICES ASSUME Init PROVE IInv
  OBVIOUS
<1>1. OperationsSafe(safety)
  BY DEF Init, Initial, OperationsSafe, Record, States
<1>2. age \in 0..(Wrap - 1) /\ silence \in Nat /\ AgeIsTrue
  BY ClockAssumption DEF Init, AgeIsTrue
<1>3. QED
  BY <1>1, <1>2 DEF IInv, TypeOK, RequestsMatchState, ActiveHasBeenHeard, OperationsSafe

LEMMA InvariantStep == IInv /\ [Next]_vars => IInv'
<1> SUFFICES ASSUME IInv, [Next]_vars PROVE IInv'
  OBVIOUS
<1> USE ClockAssumption
<1>1. OperationsSafe(safety)
  BY DEF IInv, TypeOK, RequestsMatchState, ActiveHasBeenHeard, OperationsSafe
<1>2. age \in 0..(Wrap - 1) /\ age \in Nat /\ silence \in Nat /\ AgeIsTrue
  BY DEF IInv, TypeOK
<1>3. OperationsSafe(safety')
  <2>1. CASE Heartbeat
    BY <1>1, <2>1, OperationsKeepSafe DEF Heartbeat
  <2>2. CASE Enable
    BY <1>1, <2>2, OperationsKeepSafe DEF Enable, Call
  <2>3. CASE Hold
    BY <1>1, <2>3, OperationsKeepSafe DEF Hold, Call
  <2>4. CASE Disable
    BY <1>1, <2>4, OperationsKeepSafe DEF Disable, Call
  <2>5. CASE Fault
    BY <1>1, <2>5, OperationsKeepSafe DEF Fault, Call
  <2>6. CASE Tick
    BY <1>1, <2>6, OperationsKeepSafe DEF Tick, Call
  <2>7. CASE Elapse
    BY <1>1, <2>7 DEF Elapse
  <2>8. ASSUME NEW b \in BOOLEAN, Boot(b) \/ Arm(b) \/ Estop(b) \/ Clear(b)
        PROVE  OperationsSafe(safety')
    BY <1>1, <2>8, OperationsKeepSafe DEF Boot, Arm, Estop, Clear, Call
  <2>9. CASE UNCHANGED vars
    BY <1>1, <2>9 DEF vars
  <2>10. QED
    BY <2>1, <2>2, <2>3, <2>4, <2>5, <2>6, <2>7, <2>8, <2>9 DEF Next
<1>4. age' \in 0..(Wrap - 1) /\ silence' \in Nat /\ AgeIsTrue'
  <2>1. CASE Heartbeat
    BY <2>1 DEF Heartbeat, AgeIsTrue
  <2>2. CASE Elapse
    <3>1. age' \in 0..(Wrap - 1) /\ silence' \in Nat
      BY <1>2, <2>2 DEF Elapse
    <3>2. ASSUME silence' < Wrap PROVE age' = silence'
      <4>1. age = silence /\ age + 1 < Wrap
        BY <1>2, <2>2, <3>2 DEF Elapse, AgeIsTrue
      <4>2. (age + 1) % Wrap = age + 1
        BY <1>2, <4>1, NoWrap
      <4>3. QED
        BY <2>2, <4>1, <4>2 DEF Elapse
    <3>3. QED
      BY <3>1, <3>2 DEF AgeIsTrue
  <2>3. CASE UNCHANGED <<age, silence>>
    BY <1>2, <2>3 DEF AgeIsTrue
  <2>4. QED
    BY <2>1, <2>2, <2>3
    DEF Next, vars, Enable, Hold, Disable, Fault, Tick, Boot, Arm, Estop, Clear, Call
<1>5. QED
  BY <1>3, <1>4
  DEF IInv, TypeOK, RequestsMatchState, ActiveHasBeenHeard, OperationsSafe, AgeIsTrue

\* safety.c: types, request flags that match the state, a heartbeat behind every
\* state that may move, and a true age short of a whole turn of the clock.
THEOREM SafetyInvariant == Spec => []IInv
<1>1. Init => IInv
  BY InvariantInit
<1>2. IInv /\ [Next]_vars => IInv'
  BY InvariantStep
<1>3. QED
  BY <1>1, <1>2, PTL DEF Spec

\* A fault or an emergency stop ends only by a clear with the emergency stop
\* released, in SAFE_DISABLED and with the heartbeat forgotten, whatever is called.
THEOREM LatchSound == Spec => LatchHolds
<1> DEFINE A == safety.state \in Latched /\ safety'.state \notin Latched =>
                   /\ ~safety.estop
                   /\ safety'.state = "SAFE_DISABLED"
                   /\ ~safety'.seen
<1>1. ASSUME IInv, [Next]_vars PROVE [A]_vars
  <2> SUFFICES ASSUME safety.state \in Latched, safety'.state \notin Latched
               PROVE  ~safety.estop /\ safety'.state = "SAFE_DISABLED" /\ ~safety'.seen
    OBVIOUS
  <2> USE DEF Latched
  <2>0. safety \in Record
    BY <1>1 DEF IInv, TypeOK
  <2>1. CASE Heartbeat
    BY <2>0, <2>1 DEF Heartbeat, OnHeartbeat, Record
  <2>2. CASE Enable \/ Hold \/ Disable \/ Fault \/ Tick
    BY <2>0, <2>2 DEF Enable, Hold, Disable, Fault, Tick, Call, MayEnable, RequestEnable,
                      RequestDisable, ReportFault, TickSafety, Record
  <2>3. ASSUME NEW b \in BOOLEAN, Boot(b) \/ Arm(b) \/ Estop(b)
        PROVE  FALSE
    BY <2>0, <2>3 DEF Boot, Arm, Estop, Call, MayArm, SetEstop, Record
  <2>4. ASSUME NEW b \in BOOLEAN, Clear(b)
        PROVE  ~safety.estop /\ safety'.state = "SAFE_DISABLED" /\ ~safety'.seen
    BY <2>0, <2>4 DEF Clear, Call, MayClear, ClearLatchedStop, Record
  <2>5. CASE Elapse
    BY <2>5 DEF Elapse
  <2>6. CASE UNCHANGED vars
    BY <2>6 DEF vars
  <2>7. QED
    BY <1>1, <2>1, <2>2, <2>3, <2>4, <2>5, <2>6 DEF Next
<1>2. QED
  BY <1>1, SafetyInvariant, PTL DEF Spec, LatchHolds

\* As long as the host is never silent for a whole turn of the clock, the machine
\* becomes ACTIVE only within Timeout of a heartbeat.
THEOREM EnableSound == ASSUME MaxSilence < Wrap PROVE Spec => EnableNeedsFreshHeartbeat
<1> DEFINE Bounded == silence <= MaxSilence
           A == safety.state # "ACTIVE" /\ safety'.state = "ACTIVE" => silence <= Timeout
<1> USE ClockAssumption
<1>1. Init => Bounded
  BY DEF Init
<1>2. ASSUME IInv, Bounded, [Next]_vars PROVE Bounded'
  BY <1>2 DEF IInv, TypeOK, Next, vars, Heartbeat, Elapse, Enable, Hold, Disable, Fault,
              Tick, Boot, Arm, Estop, Clear, Call
<1>3. ASSUME IInv, Bounded, [Next]_vars PROVE [A]_vars
  <2> SUFFICES ASSUME safety.state # "ACTIVE", safety'.state = "ACTIVE"
               PROVE  silence <= Timeout
    OBVIOUS
  <2>0. safety \in Record
    BY <1>3 DEF IInv, TypeOK
  <2>1. Enable
    <3>1. ~(Hold \/ Disable \/ Fault \/ Tick \/ Heartbeat)
      BY <2>0 DEF Hold, Disable, Fault, Tick, Heartbeat, Call, RequestDisable, Latched,
                  ReportFault, TickSafety, OnHeartbeat, Record
    <3>2. ~(Elapse \/ UNCHANGED vars)
      BY DEF Elapse, vars
    <3>3. ASSUME NEW b \in BOOLEAN, Boot(b) \/ Arm(b) \/ Estop(b) \/ Clear(b)
          PROVE  FALSE
      BY <2>0, <3>3 DEF Boot, Arm, Estop, Clear, Call, CompleteBoot, MayArm, RequestArm,
                        SetEstop, MayClear, ClearLatchedStop, Record
    <3>4. QED
      BY <1>3, <3>1, <3>2, <3>3 DEF Next
  <2>2. age <= Timeout /\ age = silence
    <3>1. age <= Timeout
      BY <2>1 DEF Enable, MayEnable, Fresh
    <3>2. silence < Wrap
      BY <1>3 DEF IInv, TypeOK
    <3>3. QED
      BY <1>3, <3>1, <3>2 DEF IInv, AgeIsTrue
  <2>3. QED
    BY <2>2
<1>4. QED
  BY <1>1, <1>2, <1>3, SafetyInvariant, PTL DEF Spec, EnableNeedsFreshHeartbeat
===================================================================================
