--------------------------- MODULE StreamExecutorProofs ---------------------------
(***************************************************************************)
(* Theorems about StreamExecutor for every value of its constants.          *)
(***************************************************************************)
EXTENDS StreamExecutor, TLAPS

-----------------------------------------------------------------------------
(* Arithmetic *)

\* Integer division by a positive number, as an inequality.
LEMMA DivisionFacts ==
    ASSUME NEW a \in Nat, NEW d \in Nat \ {0}
    PROVE  /\ a \div d \in Nat
           /\ (a \div d) * d <= a
           /\ a < (a \div d) * d + d
  BY SMTT(30)

\* A quotient does not exceed k when the dividend does not exceed k times the divisor.
LEMMA QuotientBound ==
    ASSUME NEW a \in Nat, NEW d \in Nat \ {0}, NEW k \in Nat, a <= k * d
    PROVE  a \div d \in 0..k
  BY DivisionFacts, SMTT(30)

\* The queue after a batch: the samples kept, then those of the batch.
LEMMA ReplacedTail ==
    ASSUME NEW q \in Seq(Sample), NEW b \in Seq(Sample), NEW kept \in 0..Len(q)
    PROVE  LET r == SubSeq(q, 1, kept) \o b
           IN  /\ r \in Seq(Sample)
               /\ Len(r) = kept + Len(b)
               /\ \A i \in 1..kept : r[i] = q[i]
               /\ \A i \in 1..Len(b) : r[kept + i] = b[i]
  OBVIOUS

\* A started control period counts whole.
LEMMA PeriodsCover ==
    ASSUME NEW span \in Nat
    PROVE  /\ PeriodsUp(span) \in Nat
           /\ span <= PeriodsUp(span) * ControlTick
           /\ PeriodsUp(span) * ControlTick < span + ControlTick
  <1>1. span + ControlTick - 1 \in Nat /\ ControlTick \in Nat \ {0}
    BY TimingAssumption
  <1> QED
    BY <1>1, DivisionFacts DEF PeriodsUp

\* Truncation towards zero keeps a scaled difference between zero and the
\* whole difference.
LEMMA ScaledDifference ==
    ASSUME NEW d \in Int, NEW e \in Nat, NEW s \in Nat \ {0}, e <= s
    PROVE  /\ TruncDiv(d * e, s) \in Int
           /\ d >= 0 => TruncDiv(d * e, s) \in 0..d
           /\ d < 0 => -TruncDiv(d * e, s) \in 0..(-d)
  <1>1. CASE d >= 0
    <2>1. d \in Nat /\ d * e \in Nat /\ d * e <= d * s
      BY <1>1
    <2>2. (d * e) \div s \in 0..d
      BY <2>1, QuotientBound
    <2> QED
      BY <1>1, <2>1, <2>2 DEF TruncDiv
  <1>2. CASE d < 0
    <2>1. -d \in Nat /\ (-d) * e \in Nat /\ (-d) * e <= (-d) * s
      BY <1>2
    <2>2. ((-d) * e) \div s \in 0..(-d)
      BY <2>1, QuotientBound
    <2>3. d * e \in Int /\ -(d * e) = (-d) * e
      BY <1>2
    <2>4. CASE d * e >= 0
      <3>1. d * e = 0
        BY <1>2, <2>1, <2>3, <2>4
      <3>2. 0 \div s = 0
        BY SMTT(30)
      <3> QED
        BY <1>2, <2>4, <3>1, <3>2 DEF TruncDiv
    <2>5. CASE ~(d * e >= 0)
      <3>1. TruncDiv(d * e, s) = -(((-d) * e) \div s)
        BY <2>3, <2>5 DEF TruncDiv
      <3> QED
        BY <1>2, <2>2, <3>1
    <2> QED
      BY <2>4, <2>5
  <1> QED
    BY <1>1, <1>2

\* Between two setpoints within the joint limits every interpolated position is
\* within them too.
LEMMA InterpolationWithinLimits ==
    ASSUME NEW from \in Sample, NEW to \in Sample, NEW elapsed \in Nat,
           from.tick < to.tick, elapsed <= to.tick - from.tick,
           InLimits(from.pos), InLimits(to.pos)
    PROVE  /\ Interpolate(from, to, elapsed) \in Int
           /\ InLimits(Interpolate(from, to, elapsed))
  <1> DEFINE d == to.pos - from.pos
             s == to.tick - from.tick
             x == TruncDiv(d * elapsed, s)
  <1>1. d \in Int /\ s \in Nat \ {0} /\ elapsed <= s /\ from.pos \in Int
    BY DEF Sample
  <1>2. /\ x \in Int
        /\ d >= 0 => x \in 0..d
        /\ d < 0 => -x \in 0..(-d)
    <2> HIDE DEF d, s
    <2> QED BY <1>1, ScaledDifference
  <1>3. Interpolate(from, to, elapsed) = from.pos + x
    BY DEF Interpolate
  <1>4. MinPos \in Int /\ MaxPos \in Int /\ to.pos = from.pos + d
    BY <1>1, DataAssumption DEF Sample
  <1> HIDE DEF d, x
  <1> QED
    BY <1>1, <1>2, <1>3, <1>4 DEF InLimits

-----------------------------------------------------------------------------
(* The invariant *)

\* Everything a stream relies on holds before the first frame.
LEMMA InitInvariant == Init => IInv
  <1> SUFFICES ASSUME Init PROVE IInv
    OBVIOUS
  <1> USE DEF Init
  <1>1. TypeOK
    <2>1. NoPolicy \in Policy
      BY DEF NoPolicy, Policy
    <2>2. queue \in Seq(Sample) /\ Len(queue) <= Capacity
      BY TimingAssumption
    <2>3. anchor \in Sample
      BY DEF Sample
    <2>4. safeStop \in BOOLEAN /\ outputValid \in BOOLEAN
      OBVIOUS
    <2>5. now \in 0..MaxTick /\ nextIsr \in Nat /\ event \in Nat \cup {NoEvent}
      BY TimingAssumption
    <2> QED
      BY <2>1, <2>2, <2>3, <2>4, <2>5 DEF TypeOK, States, Reasons, OpenHorizon, NoEpoch
  <1>2. QueueIsTrajectory /\ TicksOrdered
    BY DEF QueueIsTrajectory, TicksOrdered, NoEvent
  <1>3. NeverEarly /\ AnchorWithinLimits /\ PrimingIsSilent
    BY DEF NeverEarly, AnchorWithinLimits, PrimingIsSilent
  <1>4. OutputWithinLimits /\ SuccessIsComplete /\ NoStaleMotion
    BY DEF OutputWithinLimits, SuccessIsComplete, NoStaleMotion
  <1> QED
    BY <1>1, <1>2, <1>3, <1>4 DEF IInv

\* Time, interrupts that find nothing to do and measurements leave the
\* trajectory alone.
LEMMA QuietStep ==
    ASSUME IInv,
           \/ Tick \/ Isr \/ Idle
           \/ \E error \in {policy.tracking, policy.tracking + 1} :
                    CheckJointFeedback(error)
    PROVE  IInv'
  <1> USE TimingAssumption
  <1>1. UNCHANGED <<session, motion, lastCommand>>
    BY DEF Tick, Isr, Idle, CheckJointFeedback
  <1>2. ASSUME Tick \/ Isr \/ Idle PROVE IInv'
    <2>1. UNCHANGED diagnostics
      BY <1>2 DEF Tick, Isr, Idle
    <2>2. TypeOK' /\ TicksOrdered'
      BY <1>1, <1>2, <2>1 DEF IInv, TypeOK, TicksOrdered, Tick, Isr, Idle, session,
         motion, clock, diagnostics, NoEvent
    <2> QED
      BY <1>1, <2>1, <2>2 DEF IInv, QueueIsTrajectory, NeverEarly, AnchorWithinLimits,
         PrimingIsSilent, OutputWithinLimits, SuccessIsComplete, NoStaleMotion,
         session, motion, diagnostics
  <1>3. ASSUME NEW error, CheckJointFeedback(error) PROVE IInv'
    BY <1>1, <1>3 DEF IInv, TypeOK, QueueIsTrajectory, TicksOrdered, NeverEarly,
       AnchorWithinLimits, PrimingIsSilent, OutputWithinLimits, SuccessIsComplete,
       NoStaleMotion, CheckJointFeedback, Terminate, session, motion, clock,
       States, Reasons
  <1> QED
    BY <1>2, <1>3

\* A new stream starts empty.
LEMMA OpenStep ==
    ASSUME IInv, NEW p \in Policies, NEW h \in Horizons, Open(p, h)
    PROVE  IInv'
  <1>1. p \in Policy /\ h \in Nat
    BY PolicyAssumption, DataAssumption
  <1>2. TypeOK'
    <2>1. queue' \in Seq(Sample) /\ Len(queue') <= Capacity
      BY TimingAssumption DEF Open
    <2>2. anchor' \in Sample
      BY DEF Open, Sample
    <2>3. (now \in 0..MaxTick /\ nextIsr \in Nat /\ event \in Nat \cup {NoEvent})'
      BY DEF IInv, TypeOK, Open, clock
    <2> QED
      BY <1>1, <2>1, <2>2, <2>3 DEF IInv, TypeOK, Open, States, Reasons, NoEpoch
  <1>3. QueueIsTrajectory' /\ TicksOrdered'
    BY TimingAssumption DEF IInv, TypeOK, QueueIsTrajectory, TicksOrdered, Open, clock
  <1> QED
    BY <1>2, <1>3 DEF IInv, NeverEarly, AnchorWithinLimits, PrimingIsSilent,
       OutputWithinLimits, SuccessIsComplete, NoStaleMotion, Open

\* A batch, as the code decodes it.
LEMMA BatchFacts ==
    ASSUME TypeOK, NEW s \in Shapes
    PROVE  /\ Batch(s) \in Seq(Sample)
           /\ Len(Batch(s)) \in Nat \ {0}
           /\ \A i, j \in 1..Len(Batch(s)) :
                    i < j => Batch(s)[i].tick < Batch(s)[j].tick
  <1>1. PICK n \in 1..WireMax : s \in [1..n -> [lead : Leads, pos : Positions]]
    BY DEF Shapes
  <1>2. n \in Nat \ {0} /\ Len(s) = n
    BY <1>1, TimingAssumption
  <1>3. \A i \in 1..n : s[i].lead \in Nat /\ s[i].pos \in Int
    BY <1>1, DataAssumption
  <1>4. \A i, j \in 1..n : i < j => s[i].lead < s[j].lead
    BY <1>2 DEF Shapes
  <1>5. Batch(s) = [i \in 1..n |-> [tick |-> now + s[i].lead, pos |-> s[i].pos]]
    BY <1>2 DEF Batch
  <1>6. now \in Nat
    BY DEF TypeOK
  <1>7. Batch(s) \in [1..n -> Sample]
    BY <1>3, <1>5, <1>6 DEF Sample
  <1>8. Batch(s) \in Seq(Sample) /\ Len(Batch(s)) = n
    BY <1>2, <1>7
  <1> QED
    BY <1>2, <1>3, <1>4, <1>5, <1>6, <1>8

\* What admitting a batch behind kept samples does to the trajectory.
LEMMA AdmitStep ==
    ASSUME IInv, HostTurn,
           NEW b \in Seq(Sample), NEW h \in Nat, NEW e \in Nat,
           NEW kept \in 0..Len(queue),
           Len(b) \in Nat \ {0},
           \A i, j \in 1..Len(b) : i < j => b[i].tick < b[j].tick,
           now < First(b).tick,
           SamplesInLimits(b),
           TransitionValid(b, h),
           \A i \in 1..kept : queue[i].tick < First(b).tick,
           Admit(kept, b, h, e)
    PROVE  IInv'
  <1> DEFINE n == Len(b)
  <1>1. /\ queue' \in Seq(Sample)
        /\ Len(queue') = kept + n
        /\ \A i \in 1..kept : queue'[i] = queue[i]
        /\ \A i \in (kept + 1)..(kept + n) : queue'[i] = b[i - kept]
    <2>1. queue \in Seq(Sample) /\ queue' = SubSeq(queue, 1, kept) \o b
      BY DEF IInv, TypeOK, Admit
    <2>2. \A i \in (kept + 1)..(kept + n) : i - kept \in 1..n /\ kept + (i - kept) = i
      OBVIOUS
    <2> QED
      BY <2>1, <2>2, ReplacedTail
  <1>2. TypeOK'
    BY <1>1, TimingAssumption DEF IInv, TypeOK, Admit, Fits, clock, diagnostics,
       motion, NoEvent
  <1>4. \A i \in 1..kept : i \in DOMAIN queue /\ queue[i] \in Sample
    BY DEF IInv, TypeOK
  <1>5. \A i \in 1..n : b[i] \in Sample /\ First(b).tick <= b[i].tick
                            /\ b[i].tick <= Final(b).tick
    <2>1. n \in Nat \ {0} /\ 1 \in 1..n /\ n \in 1..n /\ \A i \in 1..n : b[i] \in Sample
      OBVIOUS
    <2>2. \A i \in 1..n : b[i].tick \in Nat /\ (i # 1 => b[1].tick < b[i].tick)
                            /\ (i # n => b[i].tick < b[n].tick)
      BY <2>1 DEF Sample
    <2> QED
      BY <2>1, <2>2 DEF First, Final
  <1>6. state = "RUNNING" => anchor.tick <= now
    BY DEF IInv, TypeOK, TicksOrdered, NeverEarly, Sample
  <1>7. \A i \in (kept + 1)..(kept + n) :
            /\ queue'[i].tick \in Nat
            /\ First(b).tick <= queue'[i].tick
            /\ queue'[i].tick <= Final(b).tick
            /\ InLimits(queue'[i].pos)
    <2> SUFFICES ASSUME NEW i \in (kept + 1)..(kept + n)
                 PROVE  /\ queue'[i].tick \in Nat
                        /\ First(b).tick <= queue'[i].tick
                        /\ queue'[i].tick <= Final(b).tick
                        /\ InLimits(queue'[i].pos)
      OBVIOUS
    <2>1. i - kept \in 1..n /\ queue'[i] = b[i - kept]
      BY <1>1
    <2> QED
      BY <1>5, <2>1 DEF SamplesInLimits, Sample
  <1>8. QueueIsTrajectory'
    <2>1. ASSUME NEW i \in DOMAIN queue', NEW j \in DOMAIN queue', i < j
          PROVE  queue'[i].tick < queue'[j].tick
      <3>1. CASE j \in 1..kept
        BY <1>1, <1>4, <2>1, <3>1 DEF IInv, QueueIsTrajectory
      <3>2. CASE i \in 1..kept /\ j \in (kept + 1)..(kept + n)
        <4>1. queue'[i].tick < First(b).tick /\ queue'[i].tick \in Nat
          BY <1>1, <1>4, <3>2 DEF Sample
        <4>2. First(b).tick \in Nat
          BY <1>5 DEF First, Sample
        <4> QED
          BY <1>7, <3>2, <4>1, <4>2
      <3>3. CASE i \in (kept + 1)..(kept + n) /\ j \in (kept + 1)..(kept + n)
        <4>1. i - kept \in 1..n /\ j - kept \in 1..n /\ i - kept < j - kept
          BY <2>1, <3>3
        <4>2. b[i - kept].tick < b[j - kept].tick
          BY <4>1
        <4> QED
          BY <1>1, <3>3, <4>2
      <3> QED
        BY <1>1, <2>1, <3>1, <3>2, <3>3
    <2>2. ASSUME NEW i \in DOMAIN queue'
          PROVE  /\ InLimits(queue'[i].pos)
                 /\ h # OpenHorizon => queue'[i].tick <= h
                 /\ state = "RUNNING" => queue'[i].tick > anchor.tick
      <3>1. CASE i \in 1..kept
        <4>1. i \in DOMAIN queue /\ queue'[i] = queue[i] /\ queue[i].tick \in Nat
          BY <1>1, <1>4, <3>1 DEF Sample
        <4>2. h # OpenHorizon => horizon # OpenHorizon /\ horizon <= h
          BY DEF TransitionValid, HorizonAllowed
        <4>3. horizon \in Nat
          BY DEF IInv, TypeOK
        <4> QED
          BY <4>1, <4>2, <4>3 DEF IInv, QueueIsTrajectory
      <3>2. CASE i \in (kept + 1)..(kept + n)
        <4>1. First(b).tick \in Nat /\ Final(b).tick \in Nat
          BY <1>5 DEF First, Final, Sample
        <4>2. now \in Nat /\ anchor.tick \in Nat
          BY DEF IInv, TypeOK, Sample
        <4>3. h # OpenHorizon => Final(b).tick <= h
          BY DEF TransitionValid
        <4> QED
          BY <1>6, <1>7, <3>2, <4>1, <4>2, <4>3
      <3> QED
        BY <1>1, <3>1, <3>2
    <2>3. state' = state /\ anchor' = anchor /\ horizon' = h
      BY DEF Admit, diagnostics, motion
    <2> QED
      BY <2>1, <2>2, <2>3 DEF QueueIsTrajectory, InLimits
  <1>9. TicksOrdered' /\ NoStaleMotion'
    BY DEF IInv, TypeOK, TicksOrdered, NoStaleMotion, Admit, clock, diagnostics,
       motion, TransitionValid, HorizonAllowed, NoEvent, Policy
  <1> QED
    BY <1>2, <1>8, <1>9 DEF IInv, NeverEarly, AnchorWithinLimits, PrimingIsSilent,
       OutputWithinLimits, SuccessIsComplete, Admit, diagnostics, motion, clock

\* An append goes behind the whole queue.
LEMMA AppendStep ==
    ASSUME IInv, NEW s \in Shapes, NEW h \in Horizons, NEW e \in Epochs,
           AppendBatch(Batch(s), h, e)
    PROVE  IInv'
  <1> DEFINE b == Batch(s)
  <1>1. /\ b \in Seq(Sample)
        /\ Len(b) \in Nat \ {0}
        /\ \A i, j \in 1..Len(b) : i < j => b[i].tick < b[j].tick
    BY BatchFacts DEF IInv
  <1>2. h \in Nat /\ e \in Nat
    BY DataAssumption
  <1>3. First(b) \in Sample
    BY <1>1 DEF First
  <1> HIDE DEF b
  <1>4. /\ HostTurn /\ AppendValid(b, h, e)
        /\ Admit(Len(queue), b, h, e)
    BY DEF AppendBatch, b
  <1>5. now < First(b).tick
    BY <1>3, <1>4 DEF AppendValid, IInv, TypeOK, Sample
  <1>6. \A i \in 1..Len(queue) : queue[i].tick < First(b).tick
    <2> SUFFICES ASSUME NEW i \in 1..Len(queue) PROVE queue[i].tick < First(b).tick
      OBVIOUS
    <2>1. /\ Len(queue) \in 1..Len(queue)
          /\ queue[i] \in Sample
          /\ queue[Len(queue)] \in Sample
          /\ queue # <<>>
      BY DEF IInv, TypeOK
    <2>2. queue[i].tick \in Nat /\ Final(queue).tick \in Nat /\ queue # <<>>
      BY <2>1 DEF Final, Sample
    <2>3. queue[i].tick <= Final(queue).tick
      BY <2>1, <2>2 DEF IInv, QueueIsTrajectory, Final
    <2>4. First(b).tick - Final(queue).tick > 0
      BY <1>4, <2>2 DEF AppendValid, StepLimited
    <2> QED
      BY <1>3, <2>2, <2>3, <2>4 DEF Sample
  <1>7. Len(queue) \in 0..Len(queue)
    BY DEF IInv, TypeOK
  <1> QED
    BY <1>1, <1>2, <1>4, <1>5, <1>6, <1>7, AdmitStep DEF AppendValid

\* A splice keeps the samples before its first one.
LEMMA SpliceStep ==
    ASSUME IInv, NEW s \in Shapes, NEW h \in Horizons, NEW e \in Epochs,
           SpliceBatch(Batch(s), h, e)
    PROVE  IInv'
  <1> DEFINE b == Batch(s)
  <1>1. /\ b \in Seq(Sample)
        /\ Len(b) \in Nat \ {0}
        /\ \A i, j \in 1..Len(b) : i < j => b[i].tick < b[j].tick
    BY BatchFacts DEF IInv
  <1>2. h \in Nat /\ e \in Nat
    BY DataAssumption
  <1>3. First(b) \in Sample
    BY <1>1 DEF First
  <1> HIDE DEF b
  <1>4. PICK kept \in 0..Len(queue) :
            Retained(kept, First(b).tick) /\ Admit(kept, b, h, e)
    BY DEF SpliceBatch, b
  <1>5. HostTurn /\ SpliceValid(b, h)
    BY DEF SpliceBatch, b
  <1>6. now < First(b).tick
    BY <1>3, <1>5 DEF SpliceValid, IInv, TypeOK, Sample
  <1>7. \A i \in 1..kept : queue[i].tick < First(b).tick
    BY <1>4 DEF Retained
  <1> QED
    BY <1>1, <1>2, <1>4, <1>5, <1>6, <1>7, AdmitStep DEF SpliceValid

\* Motion starts at the tick of the event, before the first setpoint.
LEMMA StartStep ==
    ASSUME IInv, NEW p \in Positions, Start(p)
    PROVE  IInv'
  <1>1. p \in Int /\ event \in Nat /\ anchor' = [tick |-> event, pos |-> p]
    BY DataAssumption DEF Start, IInv, TypeOK, NoEvent
  <1>2. anchor' \in Sample /\ anchor'.tick = event /\ anchor'.pos = p
    BY <1>1 DEF Sample
  <1>3. TypeOK'
    BY <1>1, <1>2 DEF IInv, TypeOK, Start, clock, session, States
  <1>4. \A i \in DOMAIN queue : queue[i].tick > event
    <2> SUFFICES ASSUME NEW i \in DOMAIN queue PROVE queue[i].tick > event
      OBVIOUS
    <2>1. 1 \in DOMAIN queue /\ queue[1] \in Sample /\ queue[i] \in Sample
      BY DEF IInv, TypeOK
    <2>2. queue[1].tick \in Nat /\ queue[i].tick \in Nat /\ queue[1].tick > event
      BY <2>1 DEF Start, AnchorValid, First, Sample
    <2>3. i = 1 \/ queue[1].tick < queue[i].tick
      BY <2>1 DEF IInv, TypeOK, QueueIsTrajectory
    <2> QED
      BY <1>1, <2>2, <2>3
  <1>5. QueueIsTrajectory'
    BY <1>2, <1>4 DEF IInv, QueueIsTrajectory, Start, session
  <1>6. TicksOrdered' /\ NeverEarly' /\ AnchorWithinLimits'
    BY <1>1, <1>2 DEF IInv, TypeOK, TicksOrdered, NeverEarly, AnchorWithinLimits, Start,
       AnchorValid, clock
  <1>7. ~outputValid'
    BY DEF IInv, PrimingIsSilent, Start
  <1> QED
    BY <1>3, <1>5, <1>6, <1>7 DEF IInv, PrimingIsSilent, OutputWithinLimits,
       SuccessIsComplete, NoStaleMotion, Start

\* The control grid covers every tick at or after its epoch, and no control tick
\* lies between a tick and the control tick it is due at.
LEMMA DueTickFacts ==
    ASSUME NEW t \in Nat, controlEpoch \in Nat, controlEpoch <= t
    PROVE  /\ DueTick(t) \in Nat
           /\ t <= DueTick(t)
           /\ DueTick(t) < t + ControlTick
  <1>1. t - controlEpoch \in Nat /\ ControlTick \in Nat \ {0}
    BY TimingAssumption
  <1> DEFINE n == PeriodsUp(t - controlEpoch)
  <1>2. /\ n \in Nat
        /\ t - controlEpoch <= n * ControlTick
        /\ n * ControlTick < t - controlEpoch + ControlTick
    BY <1>1, PeriodsCover
  <1>3. DueTick(t) = controlEpoch + n * ControlTick
    BY DEF DueTick
  <1> HIDE DEF n
  <1>4. n * ControlTick \in Nat
    BY <1>1, <1>2
  <1> QED
    BY <1>1, <1>2, <1>3, <1>4

\* What holds of a stream while it serves a control event.
LEMMA ServingFacts ==
    ASSUME IInv, Serve
    PROVE  /\ event \in Nat
           /\ event <= now
           /\ lastStep <= event
           /\ anchor \in Sample
           /\ anchor.tick <= lastStep
           /\ controlEpoch <= anchor.tick
           /\ InLimits(anchor.pos)
           /\ ~Backwards
           /\ queue # <<>> => /\ First(queue) \in Sample
                              /\ anchor.tick < First(queue).tick
                              /\ InLimits(First(queue).pos)
  <1>1. /\ event \in Nat
        /\ anchor \in Sample
        /\ anchor.tick \in Nat
        /\ lastStep \in Nat
    BY DEF IInv, TypeOK, Serve, Sample
  <1>2. /\ event <= now
        /\ lastStep <= event
        /\ anchor.tick <= lastStep
        /\ controlEpoch <= anchor.tick
        /\ InLimits(anchor.pos)
    BY DEF IInv, TicksOrdered, NeverEarly, AnchorWithinLimits, Serve
  <1>3. ~Backwards
    BY <1>1, <1>2 DEF Backwards
  <1>4. ASSUME queue # <<>>
        PROVE  /\ First(queue) \in Sample
               /\ anchor.tick < First(queue).tick
               /\ InLimits(First(queue).pos)
    <2>1. 1 \in DOMAIN queue /\ queue[1] \in Sample
      BY <1>4 DEF IInv, TypeOK
    <2> QED
      BY <2>1 DEF IInv, QueueIsTrajectory, Serve, First, Sample
  <1> QED
    BY <1>1, <1>2, <1>3, <1>4

\* Steps that end or hold motion.
LEMMA StopStep ==
    ASSUME IInv,
           StepBadTimeline \/ StepTimeout \/ StepUnderflow \/ StepHoldAnchor \/ StepMissed
    PROVE  IInv'
  <1>1. Serve /\ lastStep' = event /\ UNCHANGED <<queue, anchor>>
    BY ServingFacts DEF StepBadTimeline, StepTimeout, StepUnderflow, StepHoldAnchor,
       StepMissed, StepOnTime
  <1>2. /\ event \in Nat
        /\ event <= now
        /\ lastStep <= event
        /\ anchor.tick \in Nat
        /\ anchor.tick <= lastStep
        /\ anchor.pos \in Int
        /\ InLimits(anchor.pos)
    BY <1>1, ServingFacts DEF Sample
  <1>3. /\ state' \in {"RUNNING", "HOLD", "ABORTED"}
        /\ reason' \in Reasons
        /\ safeStop' \in BOOLEAN
    BY DEF StepBadTimeline, StepTimeout, StepUnderflow, StepHoldAnchor, StepMissed,
       StepOnTime, Serve, Terminate, Continue, diagnostics, Reasons, IInv, TypeOK
  <1>4. /\ output' \in Int
        /\ outputValid' \in BOOLEAN
        /\ outputValid' => InLimits(output')
    <2>1. \/ output' = anchor.pos /\ outputValid' = TRUE
          \/ output' = output /\ outputValid' = outputValid
      BY DEF StepBadTimeline, StepTimeout, StepUnderflow, StepHoldAnchor, StepMissed,
         Output, NoOutput
    <2>2. CASE output' = anchor.pos /\ outputValid' = TRUE
      BY <1>2, <2>2
    <2>3. CASE output' = output /\ outputValid' = outputValid
      BY <2>3 DEF IInv, TypeOK, OutputWithinLimits
    <2> QED
      BY <2>1, <2>2, <2>3
  <1>5. state' = "RUNNING" => ~CommandExpired
    BY DEF StepBadTimeline, StepTimeout, StepUnderflow, StepHoldAnchor, StepMissed,
       Terminate
  <1>6. TypeOK'
    BY <1>1, <1>2, <1>3, <1>4 DEF IInv, TypeOK, Serve, clock, States, NoEvent
  <1>7. /\ TicksOrdered'
        /\ NeverEarly'
        /\ AnchorWithinLimits'
        /\ QueueIsTrajectory'
    BY <1>1, <1>2, <1>3 DEF IInv, TypeOK, TicksOrdered, NeverEarly, AnchorWithinLimits,
       QueueIsTrajectory, Serve, clock, InLimits, NoEvent
  <1>8. NoStaleMotion'
    BY <1>1, <1>2, <1>3, <1>5 DEF IInv, TypeOK, NoStaleMotion, Serve, CommandExpired,
       Policy
  <1> QED
    BY <1>3, <1>4, <1>6, <1>7, <1>8 DEF IInv, PrimingIsSilent, OutputWithinLimits,
       SuccessIsComplete, InLimits

\* The first setpoint is reached, no earlier than its tick.
LEMMA ApplyStep ==
    ASSUME IInv, StepApply
    PROVE  IInv'
  <1>1. Serve /\ lastStep' = event /\ queue # <<>> /\ queue' = Tail(queue)
        /\ anchor' = First(queue) /\ output' = First(queue).pos /\ outputValid' = TRUE
    BY DEF StepApply, StepOnTime, Output
  <1>2. /\ event \in Nat
        /\ event <= now
        /\ lastStep <= event
        /\ controlEpoch \in Nat
        /\ controlEpoch <= First(queue).tick
        /\ First(queue) \in Sample
        /\ First(queue).tick \in Nat
        /\ First(queue).pos \in Int
        /\ InLimits(First(queue).pos)
    BY <1>1, ServingFacts DEF Sample, IInv, TypeOK
  <1>3. First(queue).tick <= event
    <2>1. DueTick(First(queue).tick) \in Nat /\ First(queue).tick <= DueTick(First(queue).tick)
      BY <1>2, DueTickFacts
    <2>2. event >= DueTick(First(queue).tick)
      BY DEF StepApply, Due
    <2> QED
      BY <1>2, <2>1, <2>2
  <1>4. /\ queue' \in Seq(Sample)
        /\ Len(queue') = Len(queue) - 1
        /\ \A i \in DOMAIN queue' : i + 1 \in DOMAIN queue /\ queue'[i] = queue[i + 1]
    BY <1>1 DEF IInv, TypeOK
  <1>5. \/ state' = "RUNNING" /\ UNCHANGED diagnostics
        \/ /\ state' = "SUCCEEDED" /\ reason' = "PLANNED_HORIZON" /\ safeStop' = FALSE
           /\ First(queue).tick = horizon /\ Len(queue) = 1
    BY DEF StepApply, Completes, Terminate, Continue, diagnostics, StepOnTime, Serve
  <1>6. TypeOK'
    <2>1. state' \in States /\ reason' \in Reasons /\ safeStop' \in BOOLEAN
      BY <1>5 DEF IInv, TypeOK, diagnostics, States, Reasons
    <2>2. Len(queue') <= Capacity
      BY <1>4, TimingAssumption DEF IInv, TypeOK
    <2> QED
      BY <1>1, <1>2, <1>4, <2>1, <2>2 DEF IInv, TypeOK, Serve, clock
  <1>7. QueueIsTrajectory'
    <2>1. \A i, j \in DOMAIN queue : i < j => queue[i].tick < queue[j].tick
      BY DEF IInv, QueueIsTrajectory
    <2>2. \A i, j \in DOMAIN queue' : i < j => queue'[i].tick < queue'[j].tick
      BY <1>4, <2>1
    <2>3. \A i \in DOMAIN queue' :
              /\ InLimits(queue'[i].pos)
              /\ horizon' # OpenHorizon => queue'[i].tick <= horizon'
      BY <1>1, <1>4 DEF IInv, QueueIsTrajectory, Serve
    <2>4. \A i \in DOMAIN queue' : queue'[i].tick > anchor'.tick
      <3> SUFFICES ASSUME NEW i \in DOMAIN queue' PROVE queue'[i].tick > anchor'.tick
        OBVIOUS
      <3>1. 1 \in DOMAIN queue /\ i + 1 \in DOMAIN queue /\ 1 < i + 1
            /\ queue'[i] = queue[i + 1]
        BY <1>4
      <3>2. queue[1].tick < queue[i + 1].tick
        BY <2>1, <3>1
      <3>3. queue[i + 1] \in Sample
        BY <3>1 DEF IInv, TypeOK
      <3> QED
        BY <1>1, <1>2, <3>1, <3>2, <3>3 DEF First, Sample
    <2> QED
      BY <2>2, <2>3, <2>4 DEF QueueIsTrajectory, InLimits
  <1>8. TicksOrdered' /\ NeverEarly' /\ AnchorWithinLimits'
    BY <1>1, <1>2, <1>3 DEF IInv, TypeOK, TicksOrdered, NeverEarly, AnchorWithinLimits,
       Serve, clock, InLimits, NoEvent
  <1>9. NoStaleMotion'
    <2>1. ~CommandExpired
      BY DEF StepApply
    <2> QED
      BY <1>1, <1>2, <2>1 DEF IInv, TypeOK, NoStaleMotion, Serve, CommandExpired, Policy
  <1>10. SuccessIsComplete'
    <2>1. CASE state' = "RUNNING"
      BY <2>1 DEF SuccessIsComplete
    <2>2. CASE state' = "SUCCEEDED" /\ safeStop' = FALSE
               /\ First(queue).tick = horizon /\ Len(queue) = 1
      <3>1. queue' = <<>>
        BY <1>4, <2>2
      <3> QED
        BY <1>1, <1>2, <1>3, <2>2, <3>1 DEF SuccessIsComplete, Serve
    <2> QED
      BY <1>5, <2>1, <2>2
  <1> QED
    BY <1>1, <1>2, <1>5, <1>6, <1>7, <1>8, <1>9, <1>10 DEF IInv, PrimingIsSilent,
       OutputWithinLimits, InLimits

\* An interpolated position lies between two positions within the limits.
LEMMA InterpolateStep ==
    ASSUME IInv, StepInterpolate
    PROVE  IInv'
  <1>1. /\ Serve
        /\ lastStep' = event
        /\ queue # <<>>
        /\ output' = Interpolate(anchor, First(queue), event - anchor.tick)
        /\ outputValid' = TRUE
        /\ UNCHANGED <<queue, anchor, diagnostics>>
    BY DEF StepInterpolate, StepOnTime, Output, Continue
  <1>2. /\ event \in Nat
        /\ event <= now
        /\ lastStep <= event
        /\ anchor \in Sample
        /\ anchor.tick \in Nat
        /\ anchor.tick <= lastStep
        /\ lastStep \in Nat
        /\ First(queue) \in Sample
        /\ First(queue).tick \in Nat
        /\ anchor.tick < First(queue).tick
        /\ InLimits(anchor.pos)
        /\ InLimits(First(queue).pos)
    BY <1>1, ServingFacts DEF Sample, IInv, TypeOK
  <1>3. event - anchor.tick \in Nat /\ event - anchor.tick <= First(queue).tick - anchor.tick
    BY <1>2 DEF StepInterpolate, Unreachable
  <1>4. output' \in Int /\ InLimits(output')
    BY <1>1, <1>2, <1>3, InterpolationWithinLimits
  <1>5. TypeOK'
    BY <1>1, <1>2, <1>4 DEF IInv, TypeOK, Serve, clock, diagnostics
  <1>6. QueueIsTrajectory' /\ TicksOrdered' /\ NeverEarly' /\ AnchorWithinLimits'
    BY <1>1, <1>2 DEF IInv, TypeOK, QueueIsTrajectory, TicksOrdered, NeverEarly,
       AnchorWithinLimits, Serve, clock, diagnostics, NoEvent
  <1>7. NoStaleMotion'
    <2>1. ~CommandExpired
      BY DEF StepInterpolate
    <2> QED
      BY <1>1, <1>2, <2>1 DEF IInv, TypeOK, NoStaleMotion, Serve, CommandExpired, Policy
  <1> QED
    BY <1>1, <1>4, <1>5, <1>6, <1>7 DEF IInv, PrimingIsSilent, OutputWithinLimits,
       SuccessIsComplete, Serve, diagnostics, InLimits

-----------------------------------------------------------------------------
\* The invariant is inductive: no request, interrupt, control step or measurement,
\* in any order, breaks it.
THEOREM Invariance == Spec => []IInv
  <1>1. IInv /\ [Next]_vars => IInv'
    <2> SUFFICES ASSUME IInv, [Next]_vars PROVE IInv'
      OBVIOUS
    <2>1. CASE Tick \/ Isr \/ Idle
      BY <2>1, QuietStep
    <2>2. CASE \E error \in {policy.tracking, policy.tracking + 1} :
                   CheckJointFeedback(error)
      BY <2>2, QuietStep
    <2>3. CASE \E p \in Policies, h \in Horizons : Open(p, h)
      BY <2>3, OpenStep
    <2>4. CASE \E s \in Shapes, h \in Horizons, e \in Epochs :
                   AppendBatch(Batch(s), h, e) \/ SpliceBatch(Batch(s), h, e)
      BY <2>4, AppendStep, SpliceStep
    <2>5. CASE \E p \in Positions : Start(p)
      BY <2>5, StartStep
    <2>6. CASE Step
      BY <2>6, StopStep, ApplyStep, InterpolateStep DEF Step
    <2>7. CASE UNCHANGED vars
      BY <2>7 DEF vars, IInv, TypeOK, QueueIsTrajectory, TicksOrdered, NeverEarly,
         AnchorWithinLimits, PrimingIsSilent, OutputWithinLimits, SuccessIsComplete,
         NoStaleMotion, InLimits
    <2> QED
      BY <2>1, <2>2, <2>3, <2>4, <2>5, <2>6, <2>7 DEF Next, Host, Control
  <1> QED
    BY <1>1, InitInvariant, PTL DEF Spec

\* The variables keep their types; the queue never exceeds its capacity.
THEOREM TypeCorrect == Spec => []TypeOK
  <1>1. IInv => TypeOK
    BY DEF IInv
  <1> QED
    BY <1>1, Invariance, PTL

\* The queue always holds a trajectory that lies ahead of the anchor.
THEOREM QueueSafe == Spec => []QueueIsTrajectory
  <1>1. IInv => QueueIsTrajectory
    BY DEF IInv
  <1> QED
    BY <1>1, Invariance, PTL

\* Every position sent to the servos is within the joint limits.
THEOREM OutputSafe == Spec => []OutputWithinLimits
  <1>1. IInv => OutputWithinLimits
    BY DEF IInv
  <1> QED
    BY <1>1, Invariance, PTL

\* No setpoint is applied before its tick.
THEOREM NotEarly == Spec => []NeverEarly
  <1>1. IInv => NeverEarly
    BY DEF IInv
  <1> QED
    BY <1>1, Invariance, PTL

\* A stream that reports success has executed its plan up to the horizon.
THEOREM SuccessSound == Spec => []SuccessIsComplete
  <1>1. IInv => SuccessIsComplete
    BY DEF IInv
  <1> QED
    BY <1>1, Invariance, PTL

\* An open stream never moves on an expired command.
THEOREM NotStale == Spec => []NoStaleMotion
  <1>1. IInv => NoStaleMotion
    BY DEF IInv
  <1> QED
    BY <1>1, Invariance, PTL
=============================================================================
