------------------------------ MODULE StreamSession ------------------------------
(***************************************************************************)
(* The resident stream adapter of the host (bimanual_stream_adapter.py over *)
(* stream_transport_v2.py, driven by the timers and services of             *)
(* bimanual_stream_node.py) with the Supervisor at the other end of the     *)
(* serial line.  The lease lets one process drive the arms at a time.       *)
(*                                                                         *)
(* The adapter is synchronous: a call sends one request after another and   *)
(* waits for the answer of each, or until its time is up.  A request that   *)
(* was given up may still be in the line and is then served behind the      *)
(* adapter's back; its answer has an old sequence number and is dropped.    *)
(* An answer is judged as its request is served: the time it takes to reach *)
(* the host is part of the time the next request spends in the line.        *)
(*                                                                         *)
(* A plan is the first batch and, if it is finite, at most one more to be   *)
(* pumped; ticks and positions are left to StreamExecutor.                  *)
(***************************************************************************)
EXTENDS Supervisor, Sequences

CONSTANTS
    FeedbackLimit,  \* DEFAULT_FEEDBACK_TRANSPORT_FAILURE_LIMIT
    Backlog,        \* requests the line holds at most
    PromptRestart   \* a new process may speak before the watchdog has looked at the
                    \* silence of the one before

ASSUME SessionAssumption ==
    /\ FeedbackLimit \in Nat \ {0}
    /\ Backlog \in Nat \ {0, 1}
    /\ PromptRestart \in BOOLEAN

VARIABLES
    ad,        \* _state of the adapter, or DOWN when there is no process
    armed,     \* _armed
    owned,     \* _owner is not None
    streak,    \* _feedback_transport_failure_streak
    op,        \* the call in progress
    step,      \* its request that waits for an answer
    line,      \* requests on their way to the firmware
    lost,      \* the request or its answer is lost
    unfit,     \* an answer of this call is to fail it at its end
    done,      \* the executor was read as SUCCEEDED, and nothing as still at work
    finite,    \* the plan has a horizon
    rest,      \* batches in _pending_finite_samples
    surplus,   \* batches the executor holds less those the adapter counts
    refused,   \* the executor holds a batch that was answered with a rejection
    ours,      \* the last anchor of the firmware is the one the adapter prepared
    asked      \* this process has sent SAFE_STOP

session == <<ad, armed, owned, streak>>
call == <<op, step, line, lost, unfit, done>>
plan == <<finite, rest, surplus, refused>>
host == <<session, call, plan, ours, asked>>
svars == <<vars, host>>

\* the requests of a call, in order
Script == [
    prepare   |-> <<"HELLO", "HEARTBEAT", "DISPATCH", "TRACKING", "SHADOW">>,
    refresh   |-> <<"HEARTBEAT", "SHADOW">>,
    start     |-> <<"HEARTBEAT", "SHADOW", "ARM", "HEARTBEAT", "ENABLE", "HEARTBEAT",
                    "OPEN", "BATCH">>,
    resume    |-> <<"HEARTBEAT", "OPEN", "BATCH">>,
    append    |-> <<"HEARTBEAT", "BATCH">>,
    pump      |-> <<"HEARTBEAT", "BATCH">>,
    poll      |-> <<"HEARTBEAT", "EXECUTOR", "FEEDBACK", "HEARTBEAT", "DISPATCH",
                    "TRACKING", "HEARTBEAT">>,
    keepalive |-> <<"HEARTBEAT">>,
    feedback  |-> <<"FEEDBACK">>,
    stop      |-> <<"STOP">>,
    fault     |-> <<"STOP">>]

-----------------------------------------------------------------------------
(* Calls *)

Send(o, n, queue) ==
    /\ op' = o
    /\ step' = n
    /\ line' = Append(queue, Script[o][n])
    /\ lost' = FALSE

Rest(queue) ==
    /\ op' = "IDLE"
    /\ step' = 0
    /\ line' = queue
    /\ lost' = FALSE

Begin(o) ==
    /\ op = "IDLE"
    /\ Len(line) < Backlog
    /\ Send(o, 1, line)
    /\ UNCHANGED <<vars, unfit, done, ours>>

Prepare ==
    /\ ad = "NEW"
    /\ Begin("prepare")
    /\ UNCHANGED <<session, plan, asked>>

\* variant: the timer re-anchors whatever the session is doing
MayRefresh_AnyTime == ad \in {"READY", "ACTIVE"}

MayRefresh == ad = "READY" /\ ~armed /\ ~owned

Refresh ==
    /\ MayRefresh
    /\ Begin("refresh")
    /\ UNCHANGED <<session, plan, asked>>

Start ==
    /\ ad = "READY"
    /\ IF armed THEN Begin("resume") ELSE MayRefresh /\ Begin("start")
    /\ UNCHANGED <<session, plan, asked>>

\* append and splice
Extend ==
    /\ ad = "ACTIVE"
    /\ Begin("append")
    /\ UNCHANGED <<session, plan, asked>>

Poll ==
    /\ ad = "ACTIVE"
    /\ Begin(IF rest > 0 THEN "pump" ELSE "poll")
    /\ UNCHANGED <<session, plan, asked>>

\* variant: the arms are kept alive after a failure, until a stop is answered
HeartbeatRequired_Faulted == owned /\ ad \in {"READY", "ACTIVE", "FAULTED"}

HeartbeatRequired == armed /\ ad \in {"READY", "ACTIVE"}

Keepalive ==
    /\ HeartbeatRequired
    /\ Begin("keepalive")
    /\ UNCHANGED <<session, plan, asked>>

\* the node publishes feedback while no heartbeat is required
Feedback ==
    /\ ad \in {"READY", "ACTIVE"}
    /\ ~HeartbeatRequired
    /\ Begin("feedback")
    /\ UNCHANGED <<session, plan, asked>>

Stop ==
    /\ ad \in {"READY", "ACTIVE", "FAULTED"}
    /\ Begin("stop")
    /\ owned' = TRUE
    /\ asked' = TRUE
    /\ UNCHANGED <<ad, armed, streak, plan>>

\* append, splice or poll before the start: it claims the stream, then finds it inactive
Claim ==
    /\ op = "IDLE"
    /\ ad = "READY"
    /\ ~owned
    /\ owned' = TRUE
    /\ UNCHANGED <<vars, ad, armed, streak, call, plan, ours, asked>>

Calls ==
    \/ Prepare \/ Refresh \/ Start \/ Extend \/ Poll \/ Keepalive \/ Feedback \/ Stop
    \/ Claim

-----------------------------------------------------------------------------
(* What becomes of a call *)

\* _fault: an armed session stops the arms once and is no longer armed then (the
\* diagnostics it reads afterwards change nothing)
Fault(queue) ==
    /\ ad' = "FAULTED"
    /\ UNCHANGED <<owned, streak, finite, rest>>
    /\ unfit' = FALSE
    /\ done' = FALSE
    /\ IF armed /\ op # "fault"
       THEN Send("fault", 1, queue) /\ asked' = TRUE /\ UNCHANGED armed
       ELSE Rest(queue) /\ armed' = FALSE /\ UNCHANGED asked

\* variant: an append that times out may be tried again later
Tolerated_Append == op \in {"feedback", "append"} /\ streak + 1 < FeedbackLimit

\* a few feedback reads in a row may time out
Tolerated == op = "feedback" /\ streak + 1 < FeedbackLimit

Expire(queue) ==
    IF Tolerated
    THEN /\ streak' = streak + 1
         /\ Rest(queue)
         /\ unfit' = FALSE
         /\ done' = FALSE
         /\ UNCHANGED <<ad, armed, owned, finite, rest, asked>>
    ELSE Fault(queue)

\* the answer does not come in time
TimesOut ==
    /\ op # "IDLE"
    /\ Len(line) < Backlog
    /\ Expire(line)
    /\ UNCHANGED <<vars, surplus, refused, ours>>

\* the request is lost on the line
Lose ==
    /\ op # "IDLE"
    /\ ~lost
    /\ line' = SubSeq(line, 1, Len(line) - 1)
    /\ lost' = TRUE
    /\ UNCHANGED <<vars, session, op, step, unfit, done, plan, ours, asked>>

\* variant: a batch counts as admitted whatever its status
Accepted_AnyStatus(r, ok) == ok \/ r = "BATCH" \/ (op = "prepare" /\ r = "HEARTBEAT")

\* an answer that lets the call go on; the health prepare reads is judged at its end
Accepted(r, ok) == ok \/ (op = "prepare" /\ r = "HEARTBEAT")

AtWork(r) ==
    \/ r = "DISPATCH" /\ dispatch = "ACTIVE"
    \/ r = "TRACKING" /\ tracking # "OFF"

Unfit(r, ok) ==
    \/ unfit
    \/ ~ok
    \/ r = "EXECUTOR" /\ exec = "ENDED"
    \/ r = "DISPATCH" /\ dispatch = "FAULTED"
    \/ op = "prepare" /\ AtWork(r)

\* variant: a stream that has succeeded is over, its settling is not waited for
Done_AtOnce(r) == done \/ (r = "EXECUTOR" /\ exec = "SUCCEEDED")

Done(r) == (done /\ ~AtWork(r)) \/ (r = "EXECUTOR" /\ exec = "SUCCEEDED")

\* variant: the session is armed once the firmware has said so
Arms_OnAnswer(r) == op = "start" /\ r = "ARM"

\* the session counts as armed from the moment it may be
Arms(r) == op = "start" /\ r = "SHADOW"

\* poll reads the feedback of a finished stream only
Following(r) == IF op = "poll" /\ r = "EXECUTOR" /\ exec # "SUCCEEDED" THEN step + 2 ELSE step + 1

\* The next request.  What the plan is like is chosen as its stream is opened; failed
\* reads of feedback are not counted any more once the session starts.
Advance(r, ok) ==
    /\ step < Len(Script[op])
    /\ Send(op, Following(r), <<>>)
    /\ unfit' = Unfit(r, ok)
    /\ done' = Done(r)
    /\ armed' = (armed \/ Arms(r))
    /\ owned' = (owned \/ (op = "start" /\ r = "SHADOW"))
    /\ streak' = IF op = "start" THEN 0 ELSE streak
    /\ IF r = "OPEN"
       THEN finite' \in BOOLEAN /\ rest' \in (IF finite' THEN {0, 1} ELSE {0})
       ELSE UNCHANGED <<finite, rest>>
    /\ UNCHANGED <<ad, asked>>

\* the points fail the contract against the anchor just read, which is no fault, or
\* against the tick just read, which is one
Rejected(r) ==
    \/ /\ op = "start" /\ r = "SHADOW"
       /\ Rest(<<>>)
       /\ UNCHANGED <<session, unfit, done, finite, rest, asked>>
    \/ /\ op \in {"append", "pump"} /\ r = "HEARTBEAT"
       /\ Fault(<<>>)

Returns ==
    /\ Rest(<<>>)
    /\ unfit' = FALSE
    /\ done' = FALSE
    /\ UNCHANGED <<owned, asked>>

\* no sample of the plan is near enough or there is no room, or the batch is admitted
Pumped(r) ==
    /\ op = "pump"
    /\ rest' = IF r = "BATCH" THEN rest - 1 ELSE rest
    /\ Send("poll", 1, <<>>)
    /\ UNCHANGED <<session, unfit, done, finite, asked>>

\* the plan is over
Forget == finite' = FALSE /\ rest' = 0

\* the terminal feedback is fresh and close to the end of the plan, or the poll fails
Polls(r, ok) ==
    /\ op = "poll"
    /\ IF Unfit(r, ok) THEN Fault(<<>>)
       ELSE IF done
       THEN \/ Fault(<<>>)
            \/ Returns /\ Forget /\ ad' = "READY" /\ UNCHANGED <<armed, streak>>
       ELSE Returns /\ UNCHANGED <<ad, armed, streak, finite, rest>>

Prepares(r, ok) ==
    /\ op = "prepare"
    /\ IF Unfit(r, ok) THEN Fault(<<>>)
       ELSE Returns /\ ad' = "READY" /\ UNCHANGED <<armed, streak, finite, rest>>

Stops ==
    /\ op \in {"stop", "fault"}
    /\ Returns
    /\ armed' = FALSE
    /\ IF op = "stop" THEN ad' = "STOPPED" /\ Forget ELSE UNCHANGED <<ad, finite, rest>>
    /\ UNCHANGED streak

Completes ==
    /\ op \notin {"prepare", "poll", "pump", "stop", "fault"}
    /\ Returns
    /\ ad' = IF op \in {"start", "resume"} THEN "ACTIVE" ELSE ad
    /\ streak' = IF op = "feedback" THEN 0 ELSE streak
    /\ UNCHANGED <<armed, finite, rest>>

\* the answer of the request that was just served comes in time
Answered(r, ok) ==
    IF ~Accepted(r, ok) THEN Fault(<<>>)
    ELSE \/ Advance(r, ok)
         \/ Rejected(r)
         \/ Pumped(r)
         \/ /\ step = Len(Script[op])
            /\ (Prepares(r, ok) \/ Polls(r, ok) \/ Stops \/ Completes)

-----------------------------------------------------------------------------
(* The firmware serves the request at the head of the line *)

\* a request that changes nothing: a read, or one that is rejected
Quiet == Frame /\ UNCHANGED <<safety, age, grace, stopLatched, arms, requests, settling,
                              anchorReady, exec, telemetry, dispatch, event>>

Reads == {"EXECUTOR", "DISPATCH", "TRACKING", "FEEDBACK"}

\* the executor holds the batch, and the supervisor then answers ok or not
Admits(ok) ==
    \/ /\ exec = "RUNNING"
       /\ Quiet
       /\ ok = (configured /\ output /\ S!AcceptsSetpoint(safety))
    \/ \E telemetryStarts \in BOOLEAN :
          /\ Batch(TRUE, telemetryStarts)
          /\ ok = (tracking = "OFF" /\ tracking' # "OFF")

\* what serving a request does, and whether its answer is good
Does(r, ok) ==
    CASE r = "HELLO" -> Quiet /\ ok = ~stopLatched
      [] r = "HEARTBEAT" -> Heartbeat /\ ok = ~stopLatched
      [] r \in Reads -> Quiet /\ (r = "FEEDBACK" \/ ok)
      [] r = "SHADOW" -> /\ \E outcome \in Outcomes, readable \in BOOLEAN :
                               PrepareShadow(outcome, readable)
                         /\ ok = anchorReady'
      [] r = "ARM" -> \/ (ArmConfigures \/ ArmAgain) /\ ok = S!MayArm(safety, TRUE)
                      \/ ~ok /\ \E outcome \in Outcomes : ArmFails(outcome)
      [] r = "ENABLE" -> Enable /\ ok = (S!MayEnable(safety, age) /\ ~stopLatched)
      [] r = "OPEN" -> (ok /\ Open) \/ (~ok /\ Quiet)
      [] r = "STOP" -> ok /\ \E outcome \in Outcomes : SafeStop(outcome)

\* the adapter is still there to take the answer of the head of the line
Awaited == op # "IDLE" /\ ~lost /\ Len(line) = 1

\* the answer comes, or is lost, or nobody waits for it
Replies(r, ok) ==
    \/ Awaited /\ Answered(r, ok)
    \/ /\ line' = Tail(line)
       /\ lost' = (lost \/ Awaited)
       /\ UNCHANGED <<session, op, step, unfit, done, finite, rest, asked>>

\* what the executor holds against what the adapter counts
Keeps(r, ok, admitted) ==
    LET counted == r = "BATCH" /\ ad' = "ACTIVE" /\ Awaited /\ ~lost'
    IN  /\ surplus' = IF r = "OPEN" /\ ok THEN 0
                      ELSE surplus + (IF admitted THEN 1 ELSE 0) - (IF counted THEN 1 ELSE 0)
        /\ refused' = ((refused /\ ~(r = "OPEN" /\ ok)) \/ (admitted /\ ~ok))

\* the firmware serves the head of the line
Serves(r, ok) ==
    /\ line # <<>>
    /\ r = Head(line)
    /\ Replies(r, ok)
    /\ IF r # "BATCH" THEN Does(r, ok) /\ Keeps(r, ok, FALSE)
       ELSE \/ Admits(ok) /\ Keeps(r, ok, TRUE)
            \/ ~ok /\ Quiet /\ Keeps(r, ok, FALSE)
    /\ ours' = IF r = "SHADOW" THEN ok /\ Awaited /\ ~lost' ELSE ours

\* a line error at the firmware takes with it what is in the line
LineFault ==
    /\ ReceiveFault
    /\ line' = <<>>
    /\ lost' = (op # "IDLE")
    /\ UNCHANGED <<session, op, step, unfit, done, plan, ours, asked>>

\* a stream succeeds when it has a horizon and the executor was given all of the plan
Horizon == exec' = "SUCCEEDED" /\ exec # "SUCCEEDED" => finite /\ surplus = rest

\* a control tick without a served stream is forgotten when the next one starts
Firmware ==
    /\ Service \/ (clockActive /\ ControlInterrupt) \/ DispatchEnds \/ Elapse
    /\ Horizon
    /\ UNCHANGED host

-----------------------------------------------------------------------------
(* Processes *)

\* the process ends, by itself or not; what it has sent stays in the line
Crash ==
    /\ ad # "DOWN"
    /\ ad' = "DOWN"
    /\ armed' = FALSE
    /\ owned' = FALSE
    /\ streak' = 0
    /\ Rest(line)
    /\ unfit' = FALSE
    /\ done' = FALSE
    /\ UNCHANGED <<vars, plan, ours, asked>>

\* the watchdog has had the time to look at the silence
LongSilence == age > Timeout /\ grace > Timeout /\ ~WatchdogExpired

\* the lease of a process that has ended is free
Restart ==
    /\ ad = "DOWN"
    /\ line = <<>>
    /\ PromptRestart \/ LongSilence
    /\ ad' = "NEW"
    /\ asked' = FALSE
    /\ UNCHANGED <<vars, armed, owned, streak, call, plan, ours>>

SInit ==
    /\ Init
    /\ ad = "NEW" /\ armed = FALSE /\ owned = FALSE /\ streak = 0
    /\ op = "IDLE" /\ step = 0 /\ line = <<>> /\ lost = FALSE
    /\ unfit = FALSE /\ done = FALSE
    /\ finite = FALSE /\ rest = 0 /\ surplus = 0 /\ refused = FALSE
    /\ ours = FALSE /\ asked = FALSE

SNext ==
    \/ Calls
    \/ TimesOut \/ Lose
    \/ \E ok \in BOOLEAN : line # <<>> /\ Serves(Head(line), ok)
    \/ LineFault
    \/ Firmware
    \/ Crash \/ Restart

SSpec == SInit /\ [][SNext]_svars

\* the firmware's loop turns and time passes; nothing is asked of the host
FairSession ==
    /\ SSpec
    /\ WF_svars(Service /\ Horizon /\ UNCHANGED host)
    /\ WF_svars(Elapse /\ UNCHANGED host)

-----------------------------------------------------------------------------
(* Properties *)

Calm == op = "IDLE" /\ line = <<>>

SessionTypeOK ==
    /\ ad \in {"DOWN", "NEW", "READY", "ACTIVE", "STOPPED", "FAULTED"}
    /\ streak \in 0..(FeedbackLimit - 1)
    /\ op # "IDLE" => op \in DOMAIN Script /\ step \in DOMAIN Script[op]
    /\ Len(line) \in 0..Backlog
    /\ surplus \in 0..1

\* Between calls an active adapter counts exactly the batches the executor holds.
RouteKnown == ad = "ACTIVE" /\ Calm => surplus = 0 /\ ~refused

\* A batch that was rejected but kept moves the arms only until the adapter learns of
\* it: the stop is sent, or the answer is overdue, or the process is gone.
RefusedIsStopped == [][Launches /\ refused => asked \/ lost \/ ad = "DOWN"]_svars

\* A session that is ready finds the firmware ready: before arming with the anchor the
\* adapter plans from and nothing holding the arms, between two legs with the settled
\* anchor and telemetry off, or with a latched stop.
ReadyToStart ==
    ad = "READY" /\ Calm =>
        IF armed THEN stopLatched \/ (anchorReady /\ ~Busy)
        ELSE ours /\ anchorReady /\ ~Busy /\ ~Energised

\* While an arm may be energised the adapter counts as armed, so that its failure
\* stops the arms, or it has asked for the stop.
TorqueIsClaimed == Energised => armed \/ asked \/ ad = "DOWN"

\* No process prepares while a stream is served or telemetry is on: what Supervisor
\* assumes of an orderly host.
AdapterIsOrderly ==
    [][\A ok \in BOOLEAN : Serves("SHADOW", ok) => ~clockActive /\ ~Busy]_svars

\* Torque outlives no session: it ends, or a live session answers for it.
AbandonedTorqueEnds == []<>(~Energised \/ (armed /\ ad \in {"READY", "ACTIVE"}))
==================================================================================
