------------------------------ MODULE StreamExecutor ------------------------------
(***************************************************************************)
(* The V2 stream executor of the actuator core (stream_executor_v2.c, with  *)
(* the session and contract checks it calls) driven by the two callers the  *)
(* board has: host frames, admitted at HAL_GetTick(), and control steps,    *)
(* executed at the tick the TIM6 interrupt captured.                        *)
(*                                                                         *)
(* The twelve joints are checked and interpolated one by one with the same  *)
(* rules, so a position is one integer.  Ticks are milliseconds counted     *)
(* from boot; the model stays far below 2^31, where the wrapping comparison *)
(* of the code is the ordinary order.  A request the code rejects leaves    *)
(* the executor unchanged (its result codes are not modelled), so every     *)
(* rejection is a disabled action.                                          *)
(***************************************************************************)
EXTENDS Integers, Sequences

CONSTANTS
    ControlTick,    \* period of the control interrupt, ACTUATOR_V2_CONTROL_TICK_MS
    SpliceLead,     \* ACTUATOR_V2_MINIMUM_SPLICE_LEAD_MS
    Capacity,       \* ACTUATOR_V2_QUEUE_CAPACITY
    WireMax,        \* ACTUATOR_V2_WIRE_MAX_SAMPLES
    Caps,           \* hard caps: a policy record, plus the cap of an open timeout
    MinPos, MaxPos, \* limits of a joint
    IsrDelay,       \* how late the control interrupt may read the clock
    Policies,       \* policies a host may ask for
    Horizons,       \* horizons a host may ask for (OpenHorizon: none)
    Epochs,         \* arbiter epochs a host may use
    Positions,      \* positions a host may ask for and a servo may report
    Leads,          \* distances from the current tick a host may ask for
    HostUntil,      \* the host sends nothing after this tick
    MaxTick         \* bound of the clock

OpenHorizon == 0
NoEpoch == 0
NoEvent == -1

Policy == [minStart : Nat, minLead : Nat, maxLead : Nat, timeout : Nat,
           lateness : Nat, tracking : Int, maxStep : Int]

ASSUME TimingAssumption ==
    /\ ControlTick \in Nat \ {0}
    /\ SpliceLead \in Nat \ {0}
    /\ Capacity \in Nat \ {0}
    /\ WireMax \in Nat \ {0}
    /\ IsrDelay \in Nat
    /\ HostUntil \in Nat
    /\ MaxTick \in Nat

ASSUME PolicyAssumption ==
    /\ Policies \subseteq Policy
    /\ Caps \in [minLead : Nat \ {0}, maxLead : Nat, timeout : Nat, openTimeout : Nat,
                 lateness : Nat, tracking : Int, maxStep : Int]

ASSUME DataAssumption ==
    /\ MinPos \in Int
    /\ MaxPos \in Int
    /\ MinPos < MaxPos
    /\ Horizons \subseteq Nat
    /\ Epochs \subseteq Nat \ {NoEpoch}
    /\ Positions \subseteq Int
    /\ Leads \subseteq Nat

VARIABLES
    now,          \* HAL_GetTick()
    nextIsr,      \* when TIM6 fires next
    event,        \* tick the interrupt captured and no service has taken yet
    state,        \* diagnostics.state
    reason,       \* diagnostics.terminal_reason
    safeStop,     \* diagnostics.safe_stop_required
    policy,       \* session.policy
    horizon,      \* session.horizon_end_tick
    epoch,        \* session.arbiter_epoch, NoEpoch before the first batch
    queue,        \* session.validated_samples
    lastCommand,  \* diagnostics.last_command_tick
    anchor,       \* the setpoint motion starts from
    controlEpoch, \* control_epoch_tick, the origin of the control grid
    lastStep,     \* last_step_tick
    output,       \* last_output_urad
    outputValid

clock == <<now, nextIsr>>
session == <<policy, horizon, epoch, queue>>
diagnostics == <<state, reason, safeStop>>
motion == <<anchor, controlEpoch, lastStep, output, outputValid>>
vars == <<now, nextIsr, event, state, reason, safeStop, policy, horizon, epoch, queue,
          lastCommand, anchor, controlEpoch, lastStep, output, outputValid>>

States == {"CLOSED", "PRIMING", "RUNNING", "SUCCEEDED", "HOLD", "ABORTED"}
Reasons == {"NONE", "PLANNED_HORIZON", "COMMAND_TIMEOUT", "QUEUE_UNDERFLOW",
            "MISSED_APPLY_TICK", "INVALID_TIMELINE", "TRACKING_ERROR"}
Failed == {"HOLD", "ABORTED"}
Sample == [tick : Nat, pos : Int]

-----------------------------------------------------------------------------
(* Arithmetic of the code *)

Abs(x) == IF x >= 0 THEN x ELSE -x

\* C division, which truncates towards zero (d > 0)
TruncDiv(x, d) == IF x >= 0 THEN x \div d ELSE -((-x) \div d)

\* control periods needed to cover span milliseconds, a started one counted whole
PeriodsUp(span) == (span + ControlTick - 1) \div ControlTick

\* the position between two setpoints, elapsed milliseconds after the first
Interpolate(from, to, elapsed) ==
    from.pos + TruncDiv((to.pos - from.pos) * elapsed, to.tick - from.tick)

InLimits(p) == MinPos <= p /\ p <= MaxPos

-----------------------------------------------------------------------------
(* Contract: what OPEN, APPEND and SPLICE must satisfy to be admitted *)

PolicyValid(p, h) ==
    /\ p.minStart \in 1..Capacity
    /\ p.minLead >= Caps.minLead
    /\ p.maxLead <= Caps.maxLead
    /\ p.minLead <= p.maxLead
    /\ p.timeout \in 1..Caps.timeout
    /\ h = OpenHorizon => p.timeout <= Caps.openTimeout
    /\ p.lateness <= Caps.lateness
    /\ h # OpenHorizon => h > now
    /\ p.tracking \in 1..Caps.tracking
    /\ p.maxStep \in 1..Caps.maxStep

First(s) == s[1]
Final(s) == s[Len(s)]

\* What a host may send: samples given by their distance from the current tick.
\* batch_decode admits only strictly increasing ticks.
Shapes ==
    {s \in UNION {[1..n -> [lead : Leads, pos : Positions]] : n \in 1..WireMax} :
        \A i, j \in 1..Len(s) : i < j => s[i].lead < s[j].lead}

Batch(s) == [i \in 1..Len(s) |-> [tick |-> now + s[i].lead, pos |-> s[i].pos]]

\* to may follow from on the trajectory: whole control periods apart, and no
\* faster than the step limit of the policy
StepLimited(from, to) ==
    LET span == to.tick - from.tick
    IN  /\ span > 0
        /\ span % ControlTick = 0
        /\ Abs(to.pos - from.pos) <= policy.maxStep * (span \div ControlTick)

SamplesInLimits(b) == \A i \in DOMAIN b : InLimits(b[i].pos)

\* an open stream stays open, a finite one stays finite and never gets shorter
HorizonAllowed(h) ==
    /\ (horizon = OpenHorizon) <=> (h = OpenHorizon)
    /\ h >= horizon

\* the checks appends and splices share (a batch starts after now in both)
TransitionValid(b, h) ==
    /\ Final(b).tick - now <= policy.maxLead
    /\ h # OpenHorizon => Final(b).tick <= h
    /\ HorizonAllowed(h)
    /\ \A i \in 1..(Len(b) - 1) : StepLimited(b[i], b[i + 1])

\* variant: the epoch of the batch is not compared
AppendValid_AnyEpoch(b, h, e) ==
    /\ First(b).tick > now
    /\ First(b).tick - now >= policy.minLead
    /\ SamplesInLimits(b)
    /\ TransitionValid(b, h)
    /\ queue # <<>> => StepLimited(Final(queue), First(b))

AppendValid(b, h, e) ==
    /\ First(b).tick > now
    /\ First(b).tick - now >= policy.minLead
    /\ epoch \in {NoEpoch, e}
    /\ SamplesInLimits(b)
    /\ TransitionValid(b, h)
    /\ queue # <<>> => StepLimited(Final(queue), First(b))

\* the queued trajectory at a tick it covers (interpolate_position); the
\* samples already applied, the anchor among them, are no longer part of it
Covers(q, t) == q # <<>> /\ First(q).tick <= t /\ t <= Final(q).tick

PositionAt(q, t) ==
    LET i == CHOOSE k \in DOMAIN q :
                /\ q[k].tick <= t
                /\ \A j \in DOMAIN q : q[j].tick <= t => j <= k
    IN  IF q[i].tick = t THEN q[i].pos
        ELSE Interpolate(q[i], q[i + 1], t - q[i].tick)

\* variant: a splice may start anywhere after now
SpliceValid_AnyLead(b, h) ==
    /\ First(b).tick > now
    /\ Covers(queue, First(b).tick)
    /\ SamplesInLimits(b)
    /\ TransitionValid(b, h)
    /\ Abs(First(b).pos - PositionAt(queue, First(b).tick)) <= policy.maxStep

\* A splice replaces the queue from the tick of its first sample on.  Unlike an
\* append it may name a new epoch.
SpliceValid(b, h) ==
    LET at == First(b).tick
    IN  /\ at > now
        /\ at - now >= SpliceLead
        /\ at - now >= policy.minLead
        /\ Covers(queue, at)
        /\ SamplesInLimits(b)
        /\ TransitionValid(b, h)
        /\ Abs(First(b).pos - PositionAt(queue, at)) <= policy.maxStep

-----------------------------------------------------------------------------
(* Host requests.  The control service calls start and the first step back  *)
(* to back, so no request is handled between them.                          *)

MidService == state = "RUNNING" /\ ~outputValid

HostTurn == now <= HostUntil /\ ~MidService

Open(p, h) ==
    /\ HostTurn
    /\ state # "RUNNING"
    /\ PolicyValid(p, h)
    /\ policy' = p
    /\ horizon' = h
    /\ epoch' = NoEpoch
    /\ queue' = <<>>
    /\ state' = "PRIMING"
    /\ reason' = "NONE"
    /\ safeStop' = FALSE
    /\ lastCommand' = 0
    /\ anchor' = [tick |-> 0, pos |-> 0]
    /\ outputValid' = FALSE
    /\ UNCHANGED <<clock, event, controlEpoch, lastStep, output>>

Fits(n) == n <= Capacity

\* What every admitted batch does: keep samples of the queue, add its own.  A
\* batch that primes the stream also drops a captured event
\* (ControlTick_ClearPending), so that motion starts on a later one.
Admit(kept, b, h, e) ==
    /\ state \in {"PRIMING", "RUNNING"}
    /\ Fits(kept + Len(b))
    /\ queue' = SubSeq(queue, 1, kept) \o b
    /\ horizon' = h
    /\ epoch' = e
    /\ lastCommand' = now
    /\ event' = IF state = "PRIMING" /\ kept + Len(b) >= policy.minStart
                THEN NoEvent ELSE event
    /\ UNCHANGED <<clock, diagnostics, policy, motion>>

AppendBatch(b, h, e) ==
    /\ HostTurn
    /\ AppendValid(b, h, e)
    /\ Admit(Len(queue), b, h, e)

\* variant: the sample at the splice tick is kept too
Retained_Inclusive(kept, at) ==
    /\ \A i \in 1..kept : queue[i].tick <= at
    /\ kept < Len(queue) => queue[kept + 1].tick > at

\* the samples before the splice tick: the loop that counts retained_count
Retained(kept, at) ==
    /\ \A i \in 1..kept : queue[i].tick < at
    /\ kept < Len(queue) => queue[kept + 1].tick >= at

SpliceBatch(b, h, e) ==
    /\ HostTurn
    /\ SpliceValid(b, h)
    /\ \E kept \in 0..Len(queue) :
            Retained(kept, First(b).tick) /\ Admit(kept, b, h, e)

-----------------------------------------------------------------------------
(* The clock and the control interrupt *)

\* The service takes an event before the next one can be captured: a service
\* that is later than that is a missed tick, which stops the stream outside
\* the executor.  (Bounds of the model: MaxTick; and the clock stops when it can
\* make no difference any more.)
Live ==
    \/ state = "RUNNING"
    \/ state = "PRIMING" /\ queue # <<>> /\ First(queue).tick > now

Tick ==
    /\ now < MaxTick
    /\ now < HostUntil \/ Live
    /\ now < nextIsr + IsrDelay
    /\ event # NoEvent => now + 1 < nextIsr
    /\ now' = now + 1
    /\ UNCHANGED <<nextIsr, event, diagnostics, session, lastCommand, motion>>

Isr ==
    /\ now >= nextIsr
    /\ event = NoEvent
    /\ event' = now
    /\ nextIsr' = nextIsr + ControlTick
    /\ UNCHANGED <<now, diagnostics, session, lastCommand, motion>>

\* an event that finds nothing to run is dropped
Idle ==
    /\ event # NoEvent
    /\ state # "RUNNING"
    /\ event' = NoEvent
    /\ UNCHANGED <<clock, diagnostics, session, lastCommand, motion>>

-----------------------------------------------------------------------------
(* Start: the executor leaves PRIMING at the tick of a control event, from   *)
(* the measured position pos.                                                *)

AnchorValid(pos) ==
    /\ InLimits(pos)
    /\ First(queue).tick > event
    /\ Abs(First(queue).pos - pos)
            <= policy.maxStep * PeriodsUp(First(queue).tick - event)

Start(pos) ==
    /\ event # NoEvent
    /\ state = "PRIMING"
    /\ Len(queue) >= policy.minStart
    /\ AnchorValid(pos)
    /\ anchor' = [tick |-> event, pos |-> pos]
    /\ controlEpoch' = event
    /\ lastStep' = event
    /\ state' = "RUNNING"
    /\ UNCHANGED <<clock, event, reason, safeStop, session, lastCommand,
                   output, outputValid>>

-----------------------------------------------------------------------------
(* Step: one control step at the captured tick.  Every outcome is an action; *)
(* their guards follow the order of the checks in the code.                  *)

Backwards == event < lastStep \/ event < anchor.tick

\* variant: the timeout is only looked at while samples are queued
CommandExpired_WhileQueued ==
    /\ horizon = OpenHorizon
    /\ queue # <<>>
    /\ event < lastCommand \/ event - lastCommand > policy.timeout

\* an unsigned difference: a command younger than the captured tick is too old
CommandExpired ==
    /\ horizon = OpenHorizon
    /\ event < lastCommand \/ event - lastCommand > policy.timeout

\* variants: the control tick before it, and the one after it
DueTick_Early(t) == controlEpoch + ((t - controlEpoch) \div ControlTick) * ControlTick
DueTick_Late(t) == controlEpoch + (PeriodsUp(t - controlEpoch) + 1) * ControlTick

\* first control tick at or after a tick
DueTick(t) == controlEpoch + PeriodsUp(t - controlEpoch) * ControlTick

Due == event >= DueTick(First(queue).tick)
TooLate == event - DueTick(First(queue).tick) > policy.lateness

\* variant: motion past the setpoint is extrapolated
Unreachable_SpanOnly == First(queue).tick = anchor.tick

\* between two control ticks the sample is neither due nor ahead of the clock
Unreachable ==
    LET span == First(queue).tick - anchor.tick
    IN  span = 0 \/ event - anchor.tick > span

Serve ==
    /\ state = "RUNNING"
    /\ event # NoEvent
    /\ event' = NoEvent
    /\ UNCHANGED <<clock, policy, horizon, epoch, lastCommand, controlEpoch>>

Continue == UNCHANGED diagnostics

Terminate(s, r, stop) == state' = s /\ reason' = r /\ safeStop' = stop

Output(p) == output' = p /\ outputValid' = TRUE
NoOutput == UNCHANGED <<output, outputValid>>

StepBadTimeline ==
    /\ Serve
    /\ ~Backwards => ~CommandExpired /\ queue # <<>> /\ ~Due /\ Unreachable
    /\ lastStep' = IF Backwards THEN lastStep ELSE event
    /\ Terminate("ABORTED", "INVALID_TIMELINE", TRUE)
    /\ NoOutput
    /\ UNCHANGED <<queue, anchor>>

\* the steps below follow the checks of the timeline
StepOnTime == Serve /\ ~Backwards /\ lastStep' = event

StepTimeout ==
    /\ StepOnTime
    /\ CommandExpired
    /\ Output(anchor.pos)
    /\ Terminate("HOLD", "COMMAND_TIMEOUT", TRUE)
    /\ UNCHANGED <<queue, anchor>>

StepUnderflow ==
    /\ StepOnTime
    /\ queue = <<>>
    /\ horizon # OpenHorizon
    /\ Terminate("ABORTED", "QUEUE_UNDERFLOW", TRUE)
    /\ NoOutput
    /\ UNCHANGED <<queue, anchor>>

StepHoldAnchor ==
    /\ StepOnTime
    /\ ~CommandExpired
    /\ queue = <<>>
    /\ horizon = OpenHorizon
    /\ Output(anchor.pos)
    /\ Continue
    /\ UNCHANGED <<queue, anchor>>

StepMissed ==
    /\ StepOnTime
    /\ ~CommandExpired
    /\ queue # <<>>
    /\ Due
    /\ TooLate
    /\ Terminate("ABORTED", "MISSED_APPLY_TICK", TRUE)
    /\ NoOutput
    /\ UNCHANGED <<queue, anchor>>

\* variant: the stream succeeds whenever its queue runs empty
Completes_WhenDrained == horizon # OpenHorizon /\ Len(queue) = 1

Completes == horizon # OpenHorizon /\ First(queue).tick = horizon /\ Len(queue) = 1

\* the last sample of a finite stream ends it; otherwise it goes on
StepApply ==
    /\ StepOnTime
    /\ ~CommandExpired
    /\ queue # <<>>
    /\ Due
    /\ ~TooLate
    /\ anchor' = First(queue)
    /\ queue' = Tail(queue)
    /\ Output(First(queue).pos)
    /\ IF Completes
       THEN Terminate("SUCCEEDED", "PLANNED_HORIZON", FALSE)
       ELSE Continue

StepInterpolate ==
    /\ StepOnTime
    /\ ~CommandExpired
    /\ queue # <<>>
    /\ ~Due
    /\ ~Unreachable
    /\ Output(Interpolate(anchor, First(queue), event - anchor.tick))
    /\ Continue
    /\ UNCHANGED <<queue, anchor>>

Step ==
    \/ StepBadTimeline
    \/ StepTimeout
    \/ StepUnderflow
    \/ StepHoldAnchor
    \/ StepMissed
    \/ StepApply
    \/ StepInterpolate

\* variant: the abort does not ask for a safe stop
CheckJointFeedback_Silent(error) ==
    /\ state \in {"RUNNING", "SUCCEEDED"}
    /\ outputValid
    /\ error > policy.tracking
    /\ Terminate("ABORTED", "TRACKING_ERROR", FALSE)
    /\ UNCHANGED <<clock, event, session, lastCommand, motion>>

\* A measurement too far from the command it answers aborts the stream, also
\* one that has already succeeded (the last sample is checked while settling).
CheckJointFeedback(error) ==
    /\ state \in {"RUNNING", "SUCCEEDED"}
    /\ outputValid
    /\ error > policy.tracking
    /\ Terminate("ABORTED", "TRACKING_ERROR", TRUE)
    /\ UNCHANGED <<clock, event, session, lastCommand, motion>>

-----------------------------------------------------------------------------
NoPolicy == [minStart |-> 0, minLead |-> 0, maxLead |-> 0, timeout |-> 0,
             lateness |-> 0, tracking |-> 0, maxStep |-> 0]

Init ==
    /\ now = 0
    /\ nextIsr = ControlTick
    /\ event = NoEvent
    /\ state = "CLOSED"
    /\ reason = "NONE"
    /\ safeStop = FALSE
    /\ policy = NoPolicy
    /\ horizon = OpenHorizon
    /\ epoch = NoEpoch
    /\ queue = <<>>
    /\ lastCommand = 0
    /\ anchor = [tick |-> 0, pos |-> 0]
    /\ controlEpoch = 0
    /\ lastStep = 0
    /\ output = 0
    /\ outputValid = FALSE

Host ==
    \/ \E p \in Policies, h \in Horizons : Open(p, h)
    \/ \E s \in Shapes, h \in Horizons, e \in Epochs :
            AppendBatch(Batch(s), h, e) \/ SpliceBatch(Batch(s), h, e)

Control ==
    \/ \E p \in Positions : Start(p)
    \/ Step
    \/ Idle

Next ==
    \/ Tick
    \/ Isr
    \/ Host
    \/ Control
    \/ \E error \in {policy.tracking, policy.tracking + 1} : CheckJointFeedback(error)

Fairness == WF_vars(Tick) /\ WF_vars(Isr) /\ WF_vars(Control)

Spec == Init /\ [][Next]_vars

FairSpec == Spec /\ Fairness

-----------------------------------------------------------------------------
(* Properties *)

TypeOK ==
    /\ now \in 0..MaxTick
    /\ nextIsr \in Nat
    /\ event \in Nat \cup {NoEvent}
    /\ state \in States
    /\ reason \in Reasons
    /\ safeStop \in BOOLEAN
    /\ policy \in Policy
    /\ horizon \in Nat
    /\ epoch \in Nat
    /\ queue \in Seq(Sample)
    /\ Len(queue) <= Capacity
    /\ lastCommand \in Nat
    /\ anchor \in Sample
    /\ controlEpoch \in Nat
    /\ lastStep \in Nat
    /\ output \in Int
    /\ outputValid \in BOOLEAN

\* The queue holds a trajectory: ticks strictly increase, joint limits hold, a
\* finite stream never plans past its horizon, and nothing in the queue is at or
\* before the setpoint motion has reached.  Violating it takes batches admitted
\* at different times; session_batch relies on it when it finds the tail and
\* interpolates, executor_step when it computes a span.
QueueIsTrajectory ==
    /\ \A i, j \in DOMAIN queue : i < j => queue[i].tick < queue[j].tick
    /\ \A i \in DOMAIN queue :
            /\ InLimits(queue[i].pos)
            /\ horizon # OpenHorizon => queue[i].tick <= horizon
            /\ state = "RUNNING" => queue[i].tick > anchor.tick

\* Every position sent to the servos, interpolated ones included, is within the
\* joint limits although only setpoints and the anchor are checked against them.
OutputWithinLimits == outputValid => InLimits(output)

\* A stream that moves has applied no setpoint before its tick.
NeverEarly == state \in {"RUNNING", "SUCCEEDED"} => anchor.tick <= lastStep

\* Success means that the planned horizon was reached: nothing is left in the
\* queue, the last setpoint is the horizon, it was sent no earlier than then.
SuccessIsComplete ==
    state = "SUCCEEDED" =>
        /\ queue = <<>>
        /\ anchor.tick = horizon
        /\ horizon <= lastStep
        /\ output = anchor.pos
        /\ ~safeStop

\* An open stream never moves on a command older than its timeout.
NoStaleMotion ==
    state = "RUNNING" /\ horizon = OpenHorizon /\ outputValid =>
        lastStep <= lastCommand + policy.timeout

\* The order of the ticks the executor keeps: the grid starts no later than the
\* anchor, the anchor is no later than the last step, which is no later than a
\* captured event; a step never sees a tick before its own past.
TicksOrdered ==
    /\ event <= now
    /\ lastCommand <= now
    /\ lastStep <= now
    /\ state = "RUNNING" =>
            /\ controlEpoch <= anchor.tick
            /\ event # NoEvent => lastStep <= event

AnchorWithinLimits == state = "RUNNING" => InLimits(anchor.pos)

PrimingIsSilent == state = "PRIMING" => ~outputValid

\* What the proofs show to be inductive.
IInv ==
    /\ TypeOK
    /\ QueueIsTrajectory
    /\ TicksOrdered
    /\ NeverEarly
    /\ AnchorWithinLimits
    /\ PrimingIsSilent
    /\ OutputWithinLimits
    /\ SuccessIsComplete
    /\ NoStaleMotion

\* While a stream moves, no batch changes the setpoints nearer than the splice
\* lead, whatever it replaces behind them.
CommittedPathKept ==
    [][state = "RUNNING" /\ event' = event =>
        \A i \in DOMAIN queue :
            queue[i].tick < now + SpliceLead =>
                i \in DOMAIN queue' /\ queue'[i] = queue[i]]_vars

\* A stream that moves changes hands (to another arbiter epoch) only by a splice:
\* the first setpoint of the new owner lies on the trajectory it takes over,
\* within one step of it.
TakeoverOnTrajectory ==
    [][state = "RUNNING" /\ epoch' # epoch =>
        \E i \in DOMAIN queue' :
            /\ i <= Len(queue)
            /\ \A j \in 1..(i - 1) : queue'[j] = queue[j]
            /\ Covers(queue, queue'[i].tick)
            /\ Abs(queue'[i].pos - PositionAt(queue, queue'[i].tick))
                    <= policy.maxStep]_vars

\* A stream is aborted for an invalid timeline only when the control interrupt
\* read the clock off the grid its epoch fixed; setpoints off that grid, in any
\* order of appends and splices, never cause it.
TimelineBrokenOnlyOffGrid ==
    [][reason' = "INVALID_TIMELINE" /\ reason # reason' =>
        (event - controlEpoch) % ControlTick # 0]_vars

\* Once the host is silent a stream that moves ends: by its horizon, by running
\* dry, or by the command timeout of an open stream.
SilentStreamEnds == state = "RUNNING" ~> state \notin {"PRIMING", "RUNNING"}

\* The contract of SetpointPlan, with the queue as a set of setpoints.
Plan == INSTANCE SetpointPlan WITH
    mode <- state,
    plan <- {queue[i] : i \in DOMAIN queue},
    reached <- anchor.tick,
    stop <- safeStop

ImplementsPlan == Plan!Spec

\* What the operational limits promise ("maximum_step_per_control_tick"): from one
\* control step to the next the output moves by no more than the step limit.
OutputStepBounded ==
    [][state = "RUNNING" /\ outputValid /\ lastStep' # lastStep /\ outputValid' =>
        Abs(output' - output) <= policy.maxStep * PeriodsUp(lastStep' - lastStep)]_vars

\* What test_open_stream_holds_then_times_out expects: an open stream is stopped
\* for a command timeout only when no command came for longer than the timeout.
TimeoutOnlyAfterSilence ==
    [][reason' = "COMMAND_TIMEOUT" /\ reason # reason' =>
        now - lastCommand > policy.timeout]_vars

=============================================================================
