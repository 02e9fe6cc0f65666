----------------------------- MODULE StreamPlanProofs -----------------------------
(***************************************************************************)
(* What StreamExecutor may do from one state to the next, for every value   *)
(* of its constants: its action properties, and that it implements          *)
(* SetpointPlan.                                                            *)
(***************************************************************************)
EXTENDS StreamExecutorProofs

-----------------------------------------------------------------------------
(* What the admission of a policy and of a batch leaves behind *)

\* A stream that was opened has a valid policy and no stop to ask for, and before it
\* starts its anchor is reset; whoever has queued anything has a known epoch.
StreamOpened ==
    /\ state \in {"PRIMING", "RUNNING"} => policy.minStart >= 1 /\ ~safeStop
    /\ state = "PRIMING" => anchor.tick = 0
    /\ state = "RUNNING" \/ queue # <<>> => epoch # NoEpoch

\* StreamOpened is kept by every step.
LEMMA OpenedStep == IInv /\ StreamOpened /\ [Next]_vars => StreamOpened'
  <1> SUFFICES ASSUME IInv, StreamOpened, [Next]_vars PROVE StreamOpened'
    OBVIOUS
  <1>1. CASE Tick \/ Isr \/ Idle \/ UNCHANGED vars
    BY <1>1 DEF Tick, Isr, Idle, vars, StreamOpened, session, motion, diagnostics
  <1>2. ASSUME NEW error, CheckJointFeedback(error) PROVE StreamOpened'
    BY <1>2 DEF CheckJointFeedback, Terminate, StreamOpened, session, motion
  <1>3. ASSUME NEW p \in Policies, NEW h \in Horizons, Open(p, h) PROVE StreamOpened'
    <2>1. p.minStart \in 1..Capacity /\ Capacity \in Nat
      BY <1>3, TimingAssumption DEF Open, PolicyValid
    <2> QED
      BY <1>3, <2>1 DEF Open, StreamOpened
  <1>4. ASSUME NEW b, NEW h, NEW e \in Epochs, NEW kept, Admit(kept, b, h, e)
        PROVE  StreamOpened'
    BY <1>4, DataAssumption DEF Admit, StreamOpened, diagnostics, motion
  <1>5. ASSUME NEW p \in Positions, Start(p) PROVE StreamOpened'
    <2>1. queue # <<>>
      BY <1>5 DEF Start, StreamOpened, IInv, TypeOK, Policy
    <2> QED
      BY <1>5, <2>1 DEF Start, StreamOpened, session
  <1>6. CASE Step
    <2>1. Serve /\ (queue' = queue \/ queue # <<>>)
      BY <1>6 DEF Step, StepBadTimeline, StepTimeout, StepUnderflow, StepHoldAnchor,
         StepMissed, StepApply, StepInterpolate, StepOnTime
    <2>2. state' = "RUNNING" => UNCHANGED safeStop
      BY <1>6 DEF Step, StepBadTimeline, StepTimeout, StepUnderflow, StepHoldAnchor,
         StepMissed, StepApply, StepInterpolate, Terminate, Continue, diagnostics
    <2>3. state' # "PRIMING"
      BY <1>6 DEF Step, StepBadTimeline, StepTimeout, StepUnderflow, StepHoldAnchor,
         StepMissed, StepApply, StepInterpolate, StepOnTime, Serve, Terminate, Continue,
         diagnostics
    <2> QED
      BY <2>1, <2>2, <2>3 DEF Serve, StreamOpened
  <1> QED
    BY <1>1, <1>2, <1>3, <1>4, <1>5, <1>6 DEF Next, Host, Control, AppendBatch, SpliceBatch

\* Both invariants of a stream hold always.
LEMMA OpenedInvariance == Spec => [](IInv /\ StreamOpened)
  <1>1. Init => StreamOpened
    BY DEF Init, StreamOpened
  <1> QED
    BY <1>1, OpenedStep, Invariance, PTL DEF Spec

\* A batch, however it is admitted: it starts after now, it goes behind samples that
\* lie before it, and all samples it replaces lie at or behind its first.
Admitted(b, h, e, kept) ==
    /\ b \in Seq(Sample)
    /\ Len(b) \in Nat \ {0}
    /\ First(b).tick > now
    /\ kept \in 0..Len(queue)
    /\ \A i \in 1..kept : queue[i].tick < First(b).tick
    /\ Admit(kept, b, h, e)

\* An append keeps the whole queue.
LEMMA AppendFacts ==
    ASSUME IInv, NEW s \in Shapes, NEW h \in Horizons, NEW e \in Epochs,
           AppendBatch(Batch(s), h, e)
    PROVE  Admitted(Batch(s), h, e, Len(queue)) /\ epoch \in {NoEpoch, e}
  <1> DEFINE b == Batch(s)
  <1>1. b \in Seq(Sample) /\ Len(b) \in Nat \ {0}
    BY BatchFacts DEF IInv
  <1>2. First(b) \in Sample
    BY <1>1 DEF First
  <1> HIDE DEF b
  <1>3. AppendValid(b, h, e) /\ Admit(Len(queue), b, h, e)
    BY DEF AppendBatch, b
  <1>4. ASSUME NEW i \in 1..Len(queue) PROVE queue[i].tick < First(b).tick
    <2>1. /\ Len(queue) \in 1..Len(queue)
          /\ queue[i] \in Sample
          /\ queue[Len(queue)] \in Sample
          /\ queue # <<>>
      BY DEF IInv, TypeOK
    <2>2. queue[i].tick \in Nat /\ Final(queue).tick \in Nat
      BY <2>1 DEF Final, Sample
    <2>3. queue[i].tick <= Final(queue).tick
      BY <2>1, <2>2 DEF IInv, QueueIsTrajectory, Final
    <2>4. First(b).tick - Final(queue).tick > 0
      BY <1>3, <2>1 DEF AppendValid, StepLimited
    <2> QED
      BY <1>2, <2>2, <2>3, <2>4 DEF Sample
  <1>5. Len(queue) \in 0..Len(queue)
    BY DEF IInv, TypeOK
  <1> QED
    BY <1>1, <1>3, <1>4, <1>5 DEF Admitted, AppendValid, b

\* A splice keeps exactly the samples before its first, and there is one it replaces.
LEMMA SpliceFacts ==
    ASSUME IInv, NEW s \in Shapes, NEW h \in Horizons, NEW e \in Epochs,
           SpliceBatch(Batch(s), h, e)
    PROVE  /\ SpliceValid(Batch(s), h)
           /\ \E kept \in 0..Len(queue) :
                /\ Admitted(Batch(s), h, e, kept)
                /\ \A i \in (kept + 1)..Len(queue) : First(Batch(s)).tick <= queue[i].tick
                /\ kept < Len(queue)
  <1> DEFINE b == Batch(s)
  <1>1. b \in Seq(Sample) /\ Len(b) \in Nat \ {0}
    BY BatchFacts DEF IInv
  <1>2. First(b) \in Sample
    BY <1>1 DEF First
  <1> HIDE DEF b
  <1>3. PICK kept \in 0..Len(queue) :
            Retained(kept, First(b).tick) /\ Admit(kept, b, h, e)
    BY DEF SpliceBatch, b
  <1>4. SpliceValid(b, h)
    BY DEF SpliceBatch, b
  <1>5. Admitted(b, h, e, kept)
    BY <1>1, <1>3, <1>4 DEF Admitted, Retained, SpliceValid
  <1>6. ASSUME NEW i \in (kept + 1)..Len(queue) PROVE First(b).tick <= queue[i].tick
    <2>1. /\ i \in DOMAIN queue /\ kept + 1 \in DOMAIN queue
          /\ queue[i] \in Sample /\ queue[kept + 1] \in Sample
      BY DEF IInv, TypeOK
    <2>2. queue[kept + 1].tick >= First(b).tick
      BY <1>3, <2>1 DEF Retained, IInv, TypeOK
    <2>3. i = kept + 1 \/ queue[kept + 1].tick < queue[i].tick
      BY <2>1 DEF IInv, QueueIsTrajectory
    <2> QED
      BY <1>2, <2>1, <2>2, <2>3 DEF Sample
  <1>7. kept < Len(queue)
    <2>1. Len(queue) \in DOMAIN queue /\ First(b).tick <= queue[Len(queue)].tick
          /\ queue[Len(queue)] \in Sample
      BY <1>4 DEF SpliceValid, Covers, Final, IInv, TypeOK
    <2>2. ~(queue[Len(queue)].tick < First(b).tick)
      BY <1>2, <2>1 DEF Sample
    <2>3. Len(queue) \notin 1..kept
      BY <1>5, <2>2 DEF Admitted
    <2> QED
      BY <2>1, <2>3
  <1> QED
    BY <1>4, <1>5, <1>6, <1>7 DEF b

\* What the queue is after a batch.
LEMMA AdmittedQueue ==
    ASSUME TypeOK, NEW b, NEW h, NEW e, NEW kept, Admitted(b, h, e, kept)
    PROVE  /\ queue' \in Seq(Sample)
           /\ Len(queue') = kept + Len(b)
           /\ \A i \in 1..kept : queue'[i] = queue[i]
           /\ \A i \in 1..Len(b) : queue'[kept + i] = b[i]
  BY ReplacedTail DEF TypeOK, Admitted, Admit

-----------------------------------------------------------------------------
(* Action properties *)

\* While a stream moves, no batch changes the setpoints nearer than the splice lead.
THEOREM PathKept == Spec => CommittedPathKept
  <1> DEFINE Kept ==
        state = "RUNNING" /\ event' = event =>
            \A i \in DOMAIN queue :
                queue[i].tick < now + SpliceLead =>
                    i \in DOMAIN queue' /\ queue'[i] = queue[i]
  <1>1. ASSUME IInv, [Next]_vars PROVE Kept
    <2> SUFFICES ASSUME state = "RUNNING", event' = event,
                        NEW i \in DOMAIN queue, queue[i].tick < now + SpliceLead
                 PROVE  i \in DOMAIN queue' /\ queue'[i] = queue[i]
      OBVIOUS
    <2>1. CASE queue' = queue
      BY <2>1
    <2>2. ASSUME NEW s \in Shapes, NEW h \in Horizons, NEW e \in Epochs,
                 AppendBatch(Batch(s), h, e)
          PROVE  i \in DOMAIN queue' /\ queue'[i] = queue[i]
      <3>1. Admitted(Batch(s), h, e, Len(queue))
        BY <1>1, <2>2, AppendFacts
      <3> QED
        BY <1>1, <3>1, AdmittedQueue DEF IInv, TypeOK, Admitted
    <2>3. ASSUME NEW s \in Shapes, NEW h \in Horizons, NEW e \in Epochs,
                 SpliceBatch(Batch(s), h, e)
          PROVE  i \in DOMAIN queue' /\ queue'[i] = queue[i]
      <3>1. PICK kept \in 0..Len(queue) :
                /\ Admitted(Batch(s), h, e, kept)
                /\ \A j \in (kept + 1)..Len(queue) : First(Batch(s)).tick <= queue[j].tick
        BY <1>1, <2>3, SpliceFacts
      <3>2. First(Batch(s)).tick - now >= SpliceLead
        BY <1>1, <2>3, SpliceFacts DEF SpliceValid
      <3>3. /\ First(Batch(s)) \in Sample /\ queue[i] \in Sample /\ now \in Nat
            /\ SpliceLead \in Nat
        BY <1>1, <3>1, TimingAssumption DEF Admitted, First, IInv, TypeOK
      <3>4. i \notin (kept + 1)..Len(queue)
        BY <3>1, <3>2, <3>3 DEF Sample
      <3>5. i \in 1..kept
        BY <1>1, <3>1, <3>4 DEF IInv, TypeOK
      <3> QED
        BY <1>1, <3>1, <3>5, AdmittedQueue DEF IInv, TypeOK, Admitted
    <2>4. ~Step
      BY DEF Step, StepBadTimeline, StepTimeout, StepUnderflow, StepHoldAnchor, StepMissed,
         StepApply, StepInterpolate, StepOnTime, Serve
    <2>5. ASSUME \/ Tick \/ Isr \/ Idle \/ UNCHANGED vars
                 \/ \E error : CheckJointFeedback(error)
                 \/ \E p : Start(p)
          PROVE  queue' = queue
      BY <2>5 DEF Tick, Isr, Idle, vars, CheckJointFeedback, Start, session
    <2>6. ~(\E p, h : Open(p, h))
      BY DEF Open
    <2> QED
      BY <1>1, <2>1, <2>2, <2>3, <2>4, <2>5, <2>6 DEF Next, Host, Control
  <1> QED
    BY <1>1, Invariance, PTL DEF Spec, CommittedPathKept

\* A stream that moves changes hands only on the trajectory it is on.
THEOREM TakeoverSound == Spec => TakeoverOnTrajectory
  <1> DEFINE Taken ==
        state = "RUNNING" /\ epoch' # epoch =>
            \E i \in DOMAIN queue' :
                /\ i <= Len(queue)
                /\ \A j \in 1..(i - 1) : queue'[j] = queue[j]
                /\ Covers(queue, queue'[i].tick)
                /\ Abs(queue'[i].pos - PositionAt(queue, queue'[i].tick))
                        <= policy.maxStep
  <1>1. ASSUME IInv, StreamOpened, [Next]_vars PROVE Taken
    <2> SUFFICES ASSUME state = "RUNNING", epoch' # epoch PROVE Taken
      OBVIOUS
    <2>1. ~(Step \/ Tick \/ Isr \/ Idle \/ UNCHANGED vars)
      BY DEF Step, StepBadTimeline, StepTimeout, StepUnderflow, StepHoldAnchor, StepMissed,
         StepApply, StepInterpolate, StepOnTime, Serve, Tick, Isr, Idle, vars, session
    <2>2. ~(\/ \E error : CheckJointFeedback(error)
            \/ \E p : Start(p)
            \/ \E p, h : Open(p, h))
      BY DEF CheckJointFeedback, Start, Open, session
    <2>3. ASSUME NEW s \in Shapes, NEW h \in Horizons, NEW e \in Epochs,
                 AppendBatch(Batch(s), h, e)
          PROVE  FALSE
      <3>1. Admitted(Batch(s), h, e, Len(queue)) /\ epoch \in {NoEpoch, e}
        BY <1>1, <2>3, AppendFacts
      <3> QED
        BY <1>1, <3>1 DEF Admitted, Admit, StreamOpened
    <2>4. ASSUME NEW s \in Shapes, NEW h \in Horizons, NEW e \in Epochs,
                 SpliceBatch(Batch(s), h, e)
          PROVE  Taken
      <3> DEFINE b == Batch(s)
      <3>1. PICK kept \in 0..Len(queue) :
                Admitted(b, h, e, kept) /\ kept < Len(queue)
        BY <1>1, <2>4, SpliceFacts
      <3>2. SpliceValid(b, h)
        BY <1>1, <2>4, SpliceFacts
      <3> HIDE DEF b
      <3>3. /\ kept + 1 \in DOMAIN queue'
            /\ \A j \in 1..kept : queue'[j] = queue[j]
            /\ queue'[kept + 1] = First(b)
        BY <1>1, <3>1, AdmittedQueue DEF IInv, TypeOK, Admitted, First
      <3>4. /\ Covers(queue, First(b).tick)
            /\ Abs(First(b).pos - PositionAt(queue, First(b).tick)) <= policy.maxStep
        BY <3>2 DEF SpliceValid
      <3>5. kept + 1 <= Len(queue) /\ (kept + 1) - 1 = kept
        BY <1>1, <3>1 DEF IInv, TypeOK
      <3> QED
        BY <3>3, <3>4, <3>5
    <2> QED
      BY <1>1, <2>1, <2>2, <2>3, <2>4 DEF Next, Host, Control
  <1> QED
    BY <1>1, OpenedInvariance, PTL DEF Spec, TakeoverOnTrajectory

\* A tick of the control grid is not strictly between a tick and the control tick it is
\* due at.
LEMMA GridIsTight ==
    ASSUME NEW t \in Nat, NEW at \in Nat, controlEpoch \in Nat, controlEpoch <= t,
           t <= at, at < DueTick(t)
    PROVE  (at - controlEpoch) % ControlTick # 0
  <1> DEFINE n == PeriodsUp(t - controlEpoch)
             a == at - controlEpoch
             m == a \div ControlTick
  <1>1. t - controlEpoch \in Nat /\ ControlTick \in Nat \ {0} /\ a \in Nat
    BY TimingAssumption
  <1>2. n \in Nat /\ n * ControlTick < t - controlEpoch + ControlTick
    BY <1>1, PeriodsCover
  <1>3. DueTick(t) = controlEpoch + n * ControlTick
    BY DEF DueTick
  <1>4. m \in Nat
    BY <1>1, DivisionFacts
  <1> SUFFICES ASSUME a % ControlTick = 0 PROVE FALSE
    OBVIOUS
  <1>5. a = m * ControlTick
    <2> HIDE DEF a
    <2> QED BY <1>1, SMTT(30)
  <1> HIDE DEF n, m
  <1>6. n * ControlTick \in Nat /\ m * ControlTick \in Nat
    BY <1>1, <1>2, <1>4
  <1>7. m * ControlTick < n * ControlTick /\ n * ControlTick < m * ControlTick + ControlTick
    BY <1>1, <1>2, <1>3, <1>5, <1>6
  <1>8. m * ControlTick + ControlTick = (m + 1) * ControlTick
    BY <1>1, <1>4
  <1>9. m < n
    BY <1>1, <1>2, <1>4, <1>7
  <1>10. n < m + 1
    BY <1>1, <1>2, <1>4, <1>7, <1>8
  <1> QED
    BY <1>2, <1>4, <1>9, <1>10

\* A stream is aborted for an invalid timeline only when the interrupt read the clock off
\* the control grid.
THEOREM TimelineSound == Spec => TimelineBrokenOnlyOffGrid
  <1> DEFINE Broken ==
        reason' = "INVALID_TIMELINE" /\ reason # reason' =>
            (event - controlEpoch) % ControlTick # 0
  <1>1. ASSUME IInv, [Next]_vars PROVE Broken
    <2> SUFFICES ASSUME reason' = "INVALID_TIMELINE", reason # reason'
                 PROVE  (event - controlEpoch) % ControlTick # 0
      OBVIOUS
    <2>1. StepBadTimeline
      BY <1>1 DEF Next, Host, Control, Step, StepTimeout, StepUnderflow,
         StepHoldAnchor, StepMissed, StepApply, StepInterpolate, Terminate, Continue,
         Tick, Isr, Idle, Open, AppendBatch, SpliceBatch, Admit, Start,
         CheckJointFeedback, diagnostics, vars
    <2>2. /\ event \in Nat /\ ~Backwards /\ controlEpoch <= anchor.tick
          /\ anchor.tick \in Nat /\ controlEpoch \in Nat
      BY <1>1, <2>1, ServingFacts DEF StepBadTimeline, IInv, TypeOK, Sample
    <2>3. queue # <<>> /\ ~Due /\ Unreachable
      BY <2>1, <2>2 DEF StepBadTimeline
    <2>4. First(queue).tick \in Nat /\ anchor.tick < First(queue).tick
      BY <1>1, <2>1, <2>3, ServingFacts DEF StepBadTimeline, Sample
    <2>5. First(queue).tick <= event
      BY <2>2, <2>3, <2>4 DEF Unreachable
    <2>6. event < DueTick(First(queue).tick)
      BY <2>2, <2>3, <2>4, DueTickFacts DEF Due
    <2> QED
      BY <2>2, <2>4, <2>5, <2>6, GridIsTight
  <1> QED
    BY <1>1, Invariance, PTL DEF Spec, TimelineBrokenOnlyOffGrid

-----------------------------------------------------------------------------
(* The executor implements SetpointPlan *)

Setpoints == {queue[i] : i \in DOMAIN queue}

\* A step that leaves state, queue, anchor and stop alone is a stutter of the plan.
LEMMA PlanStutters ==
    ASSUME UNCHANGED <<state, queue, anchor, safeStop>>
    PROVE  UNCHANGED Plan!vars
  BY DEF Plan!vars

\* A batch replans from its first setpoint on.
LEMMA BatchReplans ==
    ASSUME IInv, QueueIsTrajectory', StreamOpened, NEW b, NEW h, NEW e, NEW kept,
           Admitted(b, h, e, kept),
           \A i \in (kept + 1)..Len(queue) : First(b).tick <= queue[i].tick
    PROVE  Plan!Next
  <1> DEFINE at == First(b).tick
  <1>1. /\ state \in {"PRIMING", "RUNNING"}
        /\ UNCHANGED <<state, anchor, safeStop>>
    BY DEF Admitted, Admit, diagnostics, motion
  <1>0. /\ queue \in Seq(Sample) /\ b \in Seq(Sample)
        /\ Len(b) \in Nat \ {0} /\ kept \in 0..Len(queue)
    BY DEF Admitted, IInv, TypeOK
  <1>2. /\ queue' \in Seq(Sample)
        /\ Len(queue') = kept + Len(b)
        /\ \A i \in 1..kept : queue'[i] = queue[i]
        /\ \A i \in 1..Len(b) : queue'[kept + i] = b[i]
    BY AdmittedQueue DEF IInv
  <1>3. kept + 1 \in DOMAIN queue' /\ queue'[kept + 1] = First(b) /\ at \in Nat
    <2>1. 1 \in 1..Len(b) /\ b[1] \in Sample
      BY <1>0
    <2>2. kept + 1 \in DOMAIN queue'
      BY <1>0, <1>2
    <2>3. queue'[kept + 1] = b[1]
      BY <1>2, <2>1
    <2>4. b[1].tick \in Nat
      BY <2>1 DEF Sample
    <2> QED
      BY <2>2, <2>3, <2>4 DEF First
  <1>4. at > anchor.tick
    <2>1. state = "RUNNING" => anchor.tick <= now
      BY DEF IInv, TypeOK, TicksOrdered, NeverEarly, Sample
    <2>2. state = "PRIMING" => anchor.tick <= now
      BY DEF IInv, TypeOK, StreamOpened
    <2>3. anchor.tick \in Nat /\ now \in Nat /\ at > now
      BY DEF IInv, TypeOK, Sample, Admitted
    <2> QED
      BY <1>1, <1>3, <2>1, <2>2, <2>3
  <1>5. \A s, u \in Setpoints' : s.tick = u.tick => s = u
    <2> SUFFICES ASSUME NEW i \in DOMAIN queue', NEW j \in DOMAIN queue',
                        queue'[i].tick = queue'[j].tick
                 PROVE  queue'[i] = queue'[j]
      BY DEF Setpoints
    <2>1. i \in Int /\ j \in Int /\ queue'[i] \in Sample /\ queue'[j] \in Sample
      BY <1>2
    <2>2. ~(i < j) /\ ~(j < i)
      BY <2>1 DEF QueueIsTrajectory, Sample
    <2> QED
      BY <2>1, <2>2
  <1>6. \A i \in DOMAIN queue' : queue'[i].tick < at => i \in 1..kept
    <2> SUFFICES ASSUME NEW i \in DOMAIN queue', i \notin 1..kept
                 PROVE  ~(queue'[i].tick < at)
      OBVIOUS
    <2>1. i = kept + 1 \/ queue'[kept + 1].tick < queue'[i].tick
      <3>1. kept + 1 \in DOMAIN queue'
        BY <1>3
      <3>2. i = kept + 1 \/ kept + 1 < i
        BY <1>0, <1>2
      <3> QED
        BY <3>1, <3>2 DEF QueueIsTrajectory
    <2>2. queue'[i] \in Sample
      BY <1>2
    <2> QED
      BY <1>3, <2>1, <2>2 DEF Sample
  <1>7. \A i \in DOMAIN queue : queue[i].tick < at => i \in 1..kept
    <2> SUFFICES ASSUME NEW i \in DOMAIN queue, i \notin 1..kept
                 PROVE  ~(queue[i].tick < at)
      OBVIOUS
    <2>1. i \in (kept + 1)..Len(queue) /\ queue[i] \in Sample
      BY <1>0
    <2> QED
      BY <1>3, <2>1 DEF Sample
  <1>8. 1..kept \subseteq DOMAIN queue /\ 1..kept \subseteq DOMAIN queue'
    BY <1>0, <1>2
  <1> HIDE DEF at
  <1>9. {s \in Setpoints' : s.tick < at} = {s \in Setpoints : s.tick < at}
    <2>1. ASSUME NEW s \in Setpoints', s.tick < at PROVE s \in Setpoints
      <3>1. PICK i \in DOMAIN queue' : s = queue'[i]
        BY <2>1 DEF Setpoints
      <3>2. i \in 1..kept
        BY <1>6, <2>1, <3>1
      <3> QED
        BY <1>2, <1>8, <3>1, <3>2 DEF Setpoints
    <2>2. ASSUME NEW s \in Setpoints, s.tick < at PROVE s \in Setpoints'
      <3>1. PICK i \in DOMAIN queue : s = queue[i]
        BY <2>2 DEF Setpoints
      <3>2. i \in 1..kept
        BY <1>7, <2>2, <3>1
      <3>3. s = queue'[i] /\ i \in DOMAIN queue'
        BY <1>2, <1>8, <3>1, <3>2
      <3> QED
        BY <3>3 DEF Setpoints
    <2> QED
      BY <2>1, <2>2
  <1>10. First(b) \in Setpoints' /\ at = First(b).tick
    BY <1>3 DEF Setpoints, at
  <1>11. Plan!Replan
    BY <1>1, <1>4, <1>5, <1>9, <1>10 DEF Plan!Replan, Plan!Before, Setpoints
  <1> QED
    BY <1>11 DEF Plan!Next

\* Motion starts before the first setpoint.
LEMMA StartBegins ==
    ASSUME IInv, QueueIsTrajectory', StreamOpened, NEW p \in Positions, Start(p)
    PROVE  Plan!Next
  <1>1. /\ queue' = queue /\ safeStop' = safeStop
        /\ state = "PRIMING" /\ state' = "RUNNING"
    BY DEF Start, session
  <1>2. queue # <<>>
    BY <1>1 DEF Start, StreamOpened, IInv, TypeOK, Policy
  <1>3. 1 \in DOMAIN queue
    BY <1>2 DEF IInv, TypeOK
  <1>4. \A i \in DOMAIN queue : queue[i].tick > anchor'.tick
    BY <1>1 DEF QueueIsTrajectory
  <1> QED
    BY <1>1, <1>3, <1>4 DEF Plan!Next, Plan!Begin

\* An applied setpoint is the earliest of the plan and leaves it.
LEMMA ApplyReaches ==
    ASSUME IInv, StreamOpened, StepApply
    PROVE  Plan!Next
  <1> DEFINE s == First(queue)
  <1>1. /\ queue \in Seq(Sample) /\ queue # <<>> /\ queue' = Tail(queue)
        /\ anchor' = s /\ state = "RUNNING"
    BY DEF StepApply, StepOnTime, Serve, IInv, TypeOK
  <1>2. /\ 1 \in DOMAIN queue /\ s = queue[1] /\ s \in Sample
        /\ \A i \in DOMAIN queue : queue[i] \in Sample
        /\ \A i \in DOMAIN queue' : i + 1 \in DOMAIN queue /\ queue'[i] = queue[i + 1]
        /\ \A i \in DOMAIN queue : i # 1 => i - 1 \in DOMAIN queue'
                                            /\ queue'[i - 1] = queue[i]
    BY <1>1 DEF First
  <1>3. \A i \in DOMAIN queue : i # 1 => s.tick < queue[i].tick
    BY <1>1, <1>2 DEF IInv, QueueIsTrajectory
  <1> HIDE DEF s
  <1>4. {u \in Setpoints : u.tick < s.tick} = {}
    <2> SUFFICES ASSUME NEW i \in DOMAIN queue PROVE ~(queue[i].tick < s.tick)
      BY DEF Setpoints
    <2> QED
      BY <1>2, <1>3 DEF Sample
  <1>5. Setpoints' = Setpoints \ {s}
    <2>1. ASSUME NEW i \in DOMAIN queue' PROVE queue'[i] \in Setpoints \ {s}
      <3>1. i + 1 \in DOMAIN queue /\ queue'[i] = queue[i + 1] /\ i + 1 # 1
        BY <1>1, <1>2, <2>1
      <3>2. queue[i + 1] # s
        BY <1>2, <1>3, <3>1 DEF Sample
      <3> QED
        BY <3>1, <3>2 DEF Setpoints
    <2>2. ASSUME NEW i \in DOMAIN queue, queue[i] # s PROVE queue[i] \in Setpoints'
      <3>1. i - 1 \in DOMAIN queue' /\ queue'[i - 1] = queue[i]
        BY <1>2, <2>2
      <3> QED
        BY <3>1 DEF Setpoints
    <2> QED
      BY <2>1, <2>2 DEF Setpoints
  <1>6. s \in Setpoints
    BY <1>2 DEF Setpoints
  <1>7. safeStop' = safeStop
    BY <1>1 DEF StepApply, Terminate, Continue, diagnostics, StreamOpened, IInv, TypeOK
  <1>8. state' = "RUNNING" \/ (Setpoints' = {} /\ state' = "SUCCEEDED")
    <2>1. CASE Completes
      <3>1. state' = "SUCCEEDED" /\ Len(queue) = 1
        BY <2>1 DEF StepApply, Terminate, Completes
      <3>2. DOMAIN queue' = {}
        BY <1>1, <3>1
      <3> QED
        BY <3>1, <3>2 DEF Setpoints
    <2>2. CASE ~Completes
      BY <1>1, <2>2 DEF StepApply, Continue, diagnostics
    <2> QED
      BY <2>1, <2>2
  <1>9. Plan!Reach
    BY <1>1, <1>4, <1>5, <1>6, <1>7, <1>8 DEF Plan!Reach, Plan!Before, Setpoints
  <1> QED
    BY <1>9 DEF Plan!Next

\* Every step of the executor is a step of the plan or leaves it alone.
LEMMA PlanStep ==
    IInv /\ QueueIsTrajectory' /\ StreamOpened /\ [Next]_vars => [Plan!Next]_(Plan!vars)
  <1> SUFFICES ASSUME IInv, QueueIsTrajectory', StreamOpened, [Next]_vars
               PROVE  Plan!Next \/ UNCHANGED Plan!vars
    OBVIOUS
  <1>1. CASE Tick \/ Isr \/ Idle \/ UNCHANGED vars
    BY <1>1, PlanStutters DEF Tick, Isr, Idle, vars, session, motion, diagnostics
  <1>2. CASE StepHoldAnchor \/ StepInterpolate
    BY <1>2, PlanStutters DEF StepHoldAnchor, StepInterpolate, Continue, diagnostics
  <1>3. ASSUME \/ StepBadTimeline \/ StepTimeout \/ StepUnderflow \/ StepMissed
               \/ \E error : CheckJointFeedback(error)
        PROVE  Plan!Next
    <2>1. /\ state \in {"RUNNING", "SUCCEEDED"} /\ state' \in {"HOLD", "ABORTED"}
          /\ safeStop' = TRUE
          /\ queue' = queue /\ anchor' = anchor
      BY <1>3 DEF StepBadTimeline, StepTimeout, StepUnderflow, StepMissed, StepOnTime,
         Serve, Terminate, CheckJointFeedback, session, motion
    <2> QED
      BY <2>1 DEF Plan!Next, Plan!Fail
  <1>4. ASSUME NEW p, NEW h, Open(p, h) PROVE Plan!Next
    <2>1. /\ state # "RUNNING" /\ state' = "PRIMING" /\ queue' = <<>>
          /\ anchor' = [tick |-> 0, pos |-> 0] /\ safeStop' = FALSE
      BY <1>4 DEF Open
    <2>2. DOMAIN queue' = {} /\ anchor'.tick = 0
      BY <2>1
    <2> QED
      BY <2>1, <2>2 DEF Plan!Next, Plan!Open
  <1>5. ASSUME NEW s \in Shapes, NEW h \in Horizons, NEW e \in Epochs,
               AppendBatch(Batch(s), h, e)
        PROVE  Plan!Next
    <2>1. Admitted(Batch(s), h, e, Len(queue))
      BY <1>5, AppendFacts
    <2>2. (Len(queue) + 1)..Len(queue) = {}
      BY DEF IInv, TypeOK
    <2> QED
      BY <2>1, <2>2, BatchReplans
  <1>6. ASSUME NEW s \in Shapes, NEW h \in Horizons, NEW e \in Epochs,
               SpliceBatch(Batch(s), h, e)
        PROVE  Plan!Next
    BY <1>6, SpliceFacts, BatchReplans
  <1> QED
    BY <1>1, <1>2, <1>3, <1>4, <1>5, <1>6, StartBegins, ApplyReaches
       DEF Next, Host, Control, Step

\* The executor keeps the promise of SetpointPlan.
THEOREM PlanImplemented == Spec => ImplementsPlan
  <1>1. Init => Plan!Init
    BY DEF Init, Plan!Init
  <1> QED
    BY <1>1, PlanStep, OpenedInvariance, QueueSafe, PTL DEF Spec, ImplementsPlan, Plan!Spec
=============================================================================
