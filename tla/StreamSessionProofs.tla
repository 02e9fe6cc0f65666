---------------------------- MODULE StreamSessionProofs ----------------------------
(***************************************************************************)
(* The session, for every bound of the line and of the firmware's timers.   *)
(* Its types and what the adapter believes of the stream are arguments      *)
(* about the host alone, whatever the firmware answers, however late.  Who  *)
(* answers for the torque needs of the firmware that only ARM energises,    *)
(* and of the watchdog that it has looked at the arms of a process that     *)
(* ended.  From this follows that the host is orderly, so the supervisor's  *)
(* invariant holds under it; and from both what the session believes of the *)
(* firmware between its calls.                                              *)
(***************************************************************************)
EXTENDS StreamSession, SupervisorProofs

Ops == {"prepare", "refresh", "start", "resume", "append", "pump", "poll", "keepalive",
        "feedback", "stop", "fault"}

Requests == {"HELLO", "HEARTBEAT", "DISPATCH", "TRACKING", "SHADOW", "ARM", "ENABLE", "OPEN",
             "BATCH", "EXECUTOR", "FEEDBACK", "STOP"}

\* The call in progress waits for the answer to a batch.
AtBatch == op # "IDLE" /\ Script[op][step] = "BATCH"

\* The adapter has a stream, or is about to.
Streams == ad = "ACTIVE" \/ (op \in {"start", "resume"} /\ AtBatch)

CallTypeOK ==
    /\ op \in Ops \cup {"IDLE"}
    /\ op # "IDLE" => step \in 1..Len(Script[op])
    /\ line \in Seq(Requests)
    /\ lost \in BOOLEAN
    /\ surplus \in Int
    /\ refused \in BOOLEAN

\* The request that is waited for is the last in the line.
LastIsAwaited ==
    op # "IDLE" /\ ~lost => line # <<>> /\ line[Len(line)] = Script[op][step]

\* No batch is in the line of a session that can still stream, but the one it waits for.
NoStrayBatch ==
    ad \in {"NEW", "READY", "ACTIVE"} =>
        \A i \in DOMAIN line : line[i] = "BATCH" => i = Len(line) /\ ~lost /\ AtBatch

\* Until a batch is served, or lost, the adapter counts what the executor holds.
CountsAgree == Streams /\ (AtBatch => ~lost) => surplus = 0 /\ refused = FALSE

\* Only a ready session starts a stream; a call that fails or ends is over.
StartsReady == op \in {"start", "resume"} => ad = "READY"

SessionInv == CallTypeOK /\ LastIsAwaited /\ NoStrayBatch /\ CountsAgree /\ StartsReady

-----------------------------------------------------------------------------
\* Where the batches are among the requests of a call.
LEMMA ScriptFacts ==
    ASSUME NEW o \in Ops
    PROVE  /\ Script[o] \in Seq(Requests)
           /\ Len(Script[o]) \in Nat \ {0}
           /\ Script[o][1] # "BATCH"
           /\ o \in {"start", "resume"} => Script[o][Len(Script[o])] = "BATCH"
           /\ o \notin {"start", "resume", "append", "pump"} =>
                 \A n \in 1..Len(Script[o]) : Script[o][n] # "BATCH"
           /\ \A n \in 1..(Len(Script[o]) - 1) :
                 /\ Script[o][n] # "BATCH"
                 /\ o \in {"start", "resume"} /\ Script[o][n + 1] = "BATCH"
                        => Script[o][n] = "OPEN"
  <1>1. CASE o = "prepare"
    BY <1>1 DEF Script, Requests
  <1>2. CASE o = "refresh"
    BY <1>2 DEF Script, Requests
  <1>3. CASE o = "start"
    BY <1>3 DEF Script, Requests
  <1>4. CASE o = "resume"
    BY <1>4 DEF Script, Requests
  <1>5. CASE o = "append"
    BY <1>5 DEF Script, Requests
  <1>6. CASE o = "pump"
    BY <1>6 DEF Script, Requests
  <1>7. CASE o = "poll"
    BY <1>7 DEF Script, Requests
  <1>8. CASE o = "keepalive"
    BY <1>8 DEF Script, Requests
  <1>9. CASE o = "feedback"
    BY <1>9 DEF Script, Requests
  <1>10. CASE o = "stop"
    BY <1>10 DEF Script, Requests
  <1>11. CASE o = "fault"
    BY <1>11 DEF Script, Requests
  <1> QED
    BY <1>1, <1>2, <1>3, <1>4, <1>5, <1>6, <1>7, <1>8, <1>9, <1>10, <1>11 DEF Ops

\* poll skips the feedback only from where there is feedback to skip.
LEMMA FollowingFacts ==
    ASSUME CallTypeOK, NEW r, op # "IDLE", step < Len(Script[op]), r = Script[op][step]
    PROVE  /\ Following(r) \in 1..Len(Script[op])
           /\ Script[op][Following(r)] = "BATCH" => Following(r) = step + 1
  <1>1. op \in Ops /\ step \in 1..(Len(Script[op]) - 1) /\ Len(Script[op]) \in Nat
    BY ScriptFacts DEF CallTypeOK
  <1>2. CASE op = "poll" /\ r = "EXECUTOR"
    <2>1. step = 2 /\ Len(Script[op]) = 7
      BY <1>1, <1>2 DEF Script
    <2> QED
      BY <1>2, <2>1 DEF Script, Following
  <1>3. CASE ~(op = "poll" /\ r = "EXECUTOR")
    BY <1>1, <1>3 DEF Following
  <1> QED
    BY <1>2, <1>3

LEMMA InitSession == SInit => SessionInv
  <1> SUFFICES ASSUME SInit PROVE SessionInv
    OBVIOUS
  <1>1. /\ ad = "NEW" /\ op = "IDLE" /\ line = <<>> /\ lost = FALSE /\ surplus = 0
        /\ refused = FALSE
    BY DEF SInit
  <1>2. line \in Seq(Requests) /\ DOMAIN line = {}
    BY <1>1
  <1>3. lost \in BOOLEAN /\ refused \in BOOLEAN
    BY <1>1
  <1>4. CallTypeOK
    BY <1>1, <1>2, <1>3 DEF CallTypeOK
  <1> QED
    BY <1>1, <1>2, <1>4 DEF SessionInv, LastIsAwaited, NoStrayBatch, CountsAgree, Streams,
       AtBatch, StartsReady

-----------------------------------------------------------------------------
(* Sending a request and coming to rest *)

\* A request that is sent behind others, none of them a batch, is the one awaited.
LEMMA SendKeeps ==
    ASSUME NEW o \in Ops, NEW n \in 1..Len(Script[o]), NEW queue \in Seq(Requests),
           Send(o, n, queue),
           surplus' \in Int, refused' \in BOOLEAN,
           ad' \in {"NEW", "READY", "ACTIVE"} =>
                \A i \in DOMAIN queue : queue[i] # "BATCH"
    PROVE  CallTypeOK' /\ LastIsAwaited' /\ NoStrayBatch' /\ (AtBatch' <=> Script[o][n] = "BATCH")
  <1>1. op' = o /\ step' = n /\ line' = Append(queue, Script[o][n]) /\ lost' = FALSE
    BY DEF Send
  <1>2. o # "IDLE"
    BY DEF Ops
  <1>3. Script[o][n] \in Requests
    BY ScriptFacts
  <1>4. /\ line' \in Seq(Requests) /\ line' # <<>> /\ Len(line') = Len(queue) + 1
        /\ line'[Len(line')] = Script[o][n]
        /\ \A i \in DOMAIN line' : i # Len(line') => i \in DOMAIN queue /\ line'[i] = queue[i]
    BY <1>1, <1>3
  <1>5. AtBatch' <=> Script[o][n] = "BATCH"
    BY <1>1, <1>2 DEF AtBatch
  <1>6. CallTypeOK' /\ LastIsAwaited'
    BY <1>1, <1>4 DEF CallTypeOK, LastIsAwaited
  <1>7. NoStrayBatch'
    BY <1>1, <1>4, <1>5 DEF NoStrayBatch
  <1> QED
    BY <1>5, <1>6, <1>7

\* A session at rest waits for nothing.
LEMMA RestKeeps ==
    ASSUME NEW queue \in Seq(Requests), Rest(queue),
           surplus' \in Int, refused' \in BOOLEAN,
           ad' \in {"NEW", "READY", "ACTIVE"} =>
                \A i \in DOMAIN queue : queue[i] # "BATCH"
    PROVE  CallTypeOK' /\ LastIsAwaited' /\ NoStrayBatch' /\ ~AtBatch'
  BY DEF Rest, CallTypeOK, LastIsAwaited, NoStrayBatch, AtBatch

\* A call that fails leaves a session that streams no more.
LEMMA FaultKeeps ==
    ASSUME NEW queue \in Seq(Requests), Fault(queue), surplus' \in Int, refused' \in BOOLEAN
    PROVE  SessionInv'
  <1>1. ad' = "FAULTED" /\ (Send("fault", 1, queue) \/ Rest(queue))
    BY DEF Fault
  <1>2. CASE Send("fault", 1, queue)
    <2>1. "fault" \in Ops /\ 1 \in 1..Len(Script["fault"]) /\ Script["fault"][1] # "BATCH"
      BY DEF Ops, Script
    <2>2. CallTypeOK' /\ LastIsAwaited' /\ NoStrayBatch' /\ ~AtBatch'
      BY <1>1, <1>2, <2>1, SendKeeps
    <2> QED
      BY <1>1, <1>2, <2>2 DEF SessionInv, CountsAgree, Streams, StartsReady, Send
  <1>3. CASE Rest(queue)
    <2>1. CallTypeOK' /\ LastIsAwaited' /\ NoStrayBatch' /\ ~AtBatch'
      BY <1>1, <1>3, RestKeeps
    <2> QED
      BY <1>1, <1>3, <2>1 DEF SessionInv, CountsAgree, Streams, StartsReady, Rest
  <1> QED
    BY <1>1, <1>2, <1>3

-----------------------------------------------------------------------------
(* One lemma for each kind of step *)

\* A call begins behind what is left in the line.
LEMMA BeginStep ==
    ASSUME SessionInv, NEW o \in Ops \ {"fault"}, Begin(o), ad' = ad,
           o \in {"start", "resume"} => ad = "READY",
           UNCHANGED <<surplus, refused>>
    PROVE  SessionInv'
  <1>1. op = "IDLE" /\ Send(o, 1, line)
    BY DEF Begin
  <1>2. /\ 1 \in 1..Len(Script[o]) /\ Script[o][1] # "BATCH"
        /\ line \in Seq(Requests) /\ surplus' \in Int /\ refused' \in BOOLEAN
    BY ScriptFacts DEF SessionInv, CallTypeOK
  <1>3. ad' \in {"NEW", "READY", "ACTIVE"} => \A i \in DOMAIN line : line[i] # "BATCH"
    BY <1>1 DEF SessionInv, NoStrayBatch, AtBatch
  <1>4. CallTypeOK' /\ LastIsAwaited' /\ NoStrayBatch' /\ ~AtBatch'
    BY <1>1, <1>2, <1>3, SendKeeps
  <1>5. CountsAgree'
    BY <1>1, <1>4 DEF SessionInv, CountsAgree, Streams, AtBatch
  <1>6. StartsReady'
    BY <1>1 DEF StartsReady, Send
  <1> QED
    BY <1>4, <1>5, <1>6 DEF SessionInv

LEMMA CallStep ==
    ASSUME SessionInv, Calls
    PROVE  SessionInv'
  <1>1. UNCHANGED <<surplus, refused>> /\ ad' = ad
    BY DEF Calls, Prepare, Refresh, Start, Extend, Poll, Keepalive, Feedback, Stop, Claim,
       session, plan
  <1>2. CASE \E o \in Ops \ {"fault"} :
                Begin(o) /\ (o \in {"start", "resume"} => ad = "READY")
    BY <1>1, <1>2, BeginStep
  <1>3. CASE Claim
    BY <1>3 DEF Claim, call, plan, SessionInv, CallTypeOK, LastIsAwaited, NoStrayBatch,
       CountsAgree, Streams, AtBatch, StartsReady
  <1>4. Claim \/ \E o \in Ops \ {"fault"} :
                    Begin(o) /\ (o \in {"start", "resume"} => ad = "READY")
    BY DEF Calls, Prepare, Refresh, Start, Extend, Poll, Keepalive, Feedback, Stop, Ops
  <1> QED
    BY <1>2, <1>3, <1>4

\* Only a read of feedback may be given up and the session go on.
LEMMA TimeoutStep ==
    ASSUME SessionInv, TimesOut
    PROVE  SessionInv'
  <1>1. Expire(line) /\ op # "IDLE" /\ UNCHANGED <<surplus, refused>>
    BY DEF TimesOut
  <1>2. line \in Seq(Requests) /\ surplus' \in Int /\ refused' \in BOOLEAN
    BY <1>1 DEF SessionInv, CallTypeOK
  <1>3. CASE Tolerated
    <2>1. op = "feedback" /\ Rest(line) /\ ad' = ad
      BY <1>1, <1>3 DEF Expire, Tolerated
    <2>2. ~AtBatch
      BY <2>1, ScriptFacts DEF AtBatch, SessionInv, CallTypeOK, Ops
    <2>3. ad' \in {"NEW", "READY", "ACTIVE"} => \A i \in DOMAIN line : line[i] # "BATCH"
      BY <2>1, <2>2 DEF SessionInv, NoStrayBatch
    <2>4. CallTypeOK' /\ LastIsAwaited' /\ NoStrayBatch' /\ ~AtBatch'
      BY <1>2, <2>1, <2>3, RestKeeps
    <2>5. CountsAgree'
      BY <1>1, <2>1, <2>2, <2>4 DEF SessionInv, CountsAgree, Streams
    <2> QED
      BY <2>1, <2>4, <2>5 DEF SessionInv, StartsReady, Rest
  <1>4. CASE ~Tolerated
    BY <1>1, <1>2, <1>4, FaultKeeps DEF Expire
  <1> QED
    BY <1>3, <1>4

\* What is lost on the line is waited for in vain.
LEMMA LossStep ==
    ASSUME SessionInv, Lose \/ LineFault
    PROVE  SessionInv'
  <1>1. UNCHANGED <<ad, op, step, surplus, refused>>
    BY DEF Lose, LineFault, session, plan
  <1>2. line \in Seq(Requests)
    BY DEF SessionInv, CallTypeOK
  <1>3. AtBatch' <=> AtBatch
    BY <1>1 DEF AtBatch
  <1>4. (op # "IDLE" => lost' = TRUE) /\ lost' \in BOOLEAN
    BY DEF Lose, LineFault
  <1>5. line' \in Seq(Requests)
    <2>1. line' = <<>> \/ line' = SubSeq(line, 1, Len(line) - 1)
      BY DEF Lose, LineFault
    <2>2. Len(line) # 0 => SubSeq(line, 1, Len(line) - 1) \in Seq(Requests)
      BY <1>2
    <2>3. Len(line) = 0 => SubSeq(line, 1, Len(line) - 1) = <<>>
      BY <1>2
    <2>4. <<>> \in Seq(Requests)
      OBVIOUS
    <2> QED
      BY <2>1, <2>2, <2>3, <2>4
  <1>6. NoStrayBatch'
    <2>1. CASE LineFault
      BY <2>1 DEF LineFault, NoStrayBatch
    <2>2. CASE Lose
      <3>1. \A i \in DOMAIN line' : i \in DOMAIN line /\ i # Len(line) /\ line'[i] = line[i]
        BY <1>2, <2>2 DEF Lose
      <3> QED
        BY <1>1, <3>1 DEF SessionInv, NoStrayBatch
    <2> QED
      BY <2>1, <2>2
  <1>7. CallTypeOK' /\ LastIsAwaited'
    BY <1>1, <1>4, <1>5 DEF SessionInv, CallTypeOK, LastIsAwaited
  <1>8. CountsAgree'
    BY <1>1, <1>3, <1>4 DEF SessionInv, CountsAgree, Streams, AtBatch
  <1> QED
    BY <1>1, <1>6, <1>7, <1>8 DEF SessionInv, StartsReady

\* A request that is served and not answered in time.
LEMMA UnansweredStep ==
    ASSUME SessionInv, NEW r, NEW ok \in BOOLEAN, NEW admitted \in BOOLEAN,
           line # <<>>, r = Head(line), admitted => r = "BATCH",
           line' = Tail(line), lost' = (lost \/ Awaited),
           UNCHANGED <<ad, op, step>>,
           Keeps(r, ok, admitted)
    PROVE  SessionInv'
  <1>1. /\ line \in Seq(Requests) /\ line' \in Seq(Requests) /\ Len(line') = Len(line) - 1
        /\ 1 \in DOMAIN line /\ r = line[1] /\ Len(line) \in Nat \ {0}
        /\ \A i \in DOMAIN line' : i + 1 \in DOMAIN line /\ line'[i] = line[i + 1]
    BY DEF SessionInv, CallTypeOK
  <1>2. lost \in BOOLEAN /\ lost' \in BOOLEAN
    BY DEF SessionInv, CallTypeOK, Awaited
  <1>3. AtBatch' <=> AtBatch
    BY DEF AtBatch
  <1>4. surplus' \in Int /\ refused' \in BOOLEAN
    BY DEF Keeps, SessionInv, CallTypeOK
  <1>5. CallTypeOK'
    BY <1>1, <1>2, <1>4 DEF SessionInv, CallTypeOK
  <1>6. lost' <=> lost \/ Awaited
    OBVIOUS
  <1>7. ~Awaited => op = "IDLE" \/ lost \/ Len(line) # 1
    BY DEF Awaited
  <1>8. op # "IDLE" /\ ~lost' => ~lost /\ Len(line) # 1
    BY <1>6, <1>7
  <1>9. LastIsAwaited'
    <2> SUFFICES ASSUME op # "IDLE", ~lost'
                 PROVE  line' # <<>> /\ line'[Len(line')] = Script[op][step]
      BY DEF LastIsAwaited
    <2>1. ~lost /\ Len(line) # 1
      BY <1>8
    <2>2. Len(line') \in DOMAIN line' /\ line'[Len(line')] = line[Len(line)]
      BY <1>1, <2>1
    <2>3. line[Len(line)] = Script[op][step]
      BY <2>1 DEF SessionInv, LastIsAwaited
    <2>4. line' # <<>>
      <3>1. line' = <<>> => Len(line') = 0
        OBVIOUS
      <3> QED
        BY <1>1, <2>1, <3>1
    <2> QED
      BY <2>2, <2>3, <2>4
  <1>10. NoStrayBatch'
    <2> SUFFICES ASSUME ad \in {"NEW", "READY", "ACTIVE"}, NEW i \in DOMAIN line',
                        line'[i] = "BATCH"
                 PROVE  i = Len(line') /\ ~lost' /\ AtBatch
      BY <1>3 DEF NoStrayBatch
    <2>1. i + 1 = Len(line) /\ ~lost /\ AtBatch
      BY <1>1 DEF SessionInv, NoStrayBatch
    <2>2. ~Awaited
      BY <1>1, <2>1 DEF Awaited
    <2>3. ~lost'
      BY <1>6, <2>1, <2>2
    <2>4. i = Len(line')
      <3>1. i \in Nat
        BY <1>1
      <3> QED
        BY <1>1, <2>1, <3>1
    <2> QED
      BY <2>1, <2>3, <2>4
  <1>11. CountsAgree'
    <2> SUFFICES ASSUME Streams', AtBatch' => ~lost'
                 PROVE  surplus' = 0 /\ refused' = FALSE
      BY DEF CountsAgree
    <2>1. Streams /\ (AtBatch => ~lost)
      BY <1>2, <1>3 DEF Streams
    <2>2. surplus = 0 /\ refused = FALSE
      BY <2>1 DEF SessionInv, CountsAgree
    <2>3. r # "BATCH"
      <3> SUFFICES ASSUME r = "BATCH" PROVE FALSE
        OBVIOUS
      <3>1. CASE ad = "ACTIVE"
        <4>1. Len(line) = 1 /\ ~lost /\ AtBatch
          BY <1>1, <3>1 DEF SessionInv, NoStrayBatch
        <4> QED
          BY <1>3, <4>1 DEF Awaited, AtBatch
      <3>2. CASE ad # "ACTIVE"
        <4>1. ad = "READY"
          BY <3>2 DEF Streams, SessionInv, StartsReady
        <4>2. Len(line) = 1 /\ ~lost /\ AtBatch
          BY <1>1, <4>1 DEF SessionInv, NoStrayBatch
        <4> QED
          BY <1>3, <4>2 DEF Awaited, AtBatch
      <3> QED
        BY <3>1, <3>2
    <2> QED
      BY <2>2, <2>3 DEF Keeps
  <1> QED
    BY <1>5, <1>9, <1>10, <1>11 DEF SessionInv, StartsReady

\* A request that is served and answered in time: a batch is counted as it is admitted.
LEMMA AnsweredStep ==
    ASSUME SessionInv, NEW r, NEW ok \in BOOLEAN, NEW admitted \in BOOLEAN,
           r = Head(line), admitted => r = "BATCH", r = "BATCH" /\ ok => admitted,
           Awaited, Answered(r, ok), Keeps(r, ok, admitted)
    PROVE  SessionInv'
  <1>1. /\ op # "IDLE" /\ op \in Ops /\ step \in 1..Len(Script[op]) /\ ~lost
        /\ r = Script[op][step]
    BY DEF SessionInv, CallTypeOK, LastIsAwaited, Awaited
  <1>2. surplus' \in Int /\ refused' \in BOOLEAN
    BY DEF Keeps, SessionInv, CallTypeOK
  <1>3. <<>> \in Seq(Requests) /\ \A i \in DOMAIN <<>> : <<>>[i] # "BATCH"
    OBVIOUS
  <1>4. CASE ~Accepted(r, ok)
    BY <1>2, <1>3, <1>4, FaultKeeps DEF Answered
  <1>5. CASE Accepted(r, ok)
    <2>1. r = "BATCH" => ok /\ admitted
      BY <1>5 DEF Accepted
    <2>2. Streams /\ ad' = "ACTIVE" /\ ~lost' => surplus' = 0 /\ refused' = FALSE
      <3> SUFFICES ASSUME Streams, ad' = "ACTIVE", ~lost'
                   PROVE  surplus' = 0 /\ refused' = FALSE
        OBVIOUS
      <3>1. surplus = 0 /\ refused = FALSE
        BY <1>1 DEF SessionInv, CountsAgree
      <3>2. CASE r = "BATCH"
        <4>1. ok /\ admitted
          BY <2>1, <3>2
        <4>2. surplus' = surplus + 1 - 1
          BY <3>2, <4>1 DEF Keeps
        <4>3. refused' = FALSE
          BY <3>1, <3>2, <4>1 DEF Keeps
        <4> QED
          BY <3>1, <4>2, <4>3
      <3>3. CASE r # "BATCH"
        BY <3>1, <3>3 DEF Keeps
      <3> QED
        BY <3>2, <3>3
    <2>3. Rest(<<>>) /\ (ad' = "ACTIVE" => Streams) => SessionInv'
      <3> SUFFICES ASSUME Rest(<<>>), ad' = "ACTIVE" => Streams
                   PROVE  SessionInv'
        OBVIOUS
      <3>1. op' = "IDLE" /\ ~lost'
        BY DEF Rest
      <3>2. CallTypeOK' /\ LastIsAwaited' /\ NoStrayBatch' /\ ~AtBatch'
        BY <1>2, <1>3, RestKeeps
      <3>3. CountsAgree'
        BY <2>2, <3>1, <3>2 DEF CountsAgree, Streams
      <3> QED
        BY <3>1, <3>2, <3>3 DEF SessionInv, StartsReady
    <2>4. CASE Advance(r, ok)
      <3>1. step < Len(Script[op]) /\ Send(op, Following(r), <<>>) /\ ad' = ad
        BY <2>4 DEF Advance
      <3>2. /\ Following(r) \in 1..Len(Script[op])
            /\ Script[op][Following(r)] = "BATCH" => Following(r) = step + 1
        BY <1>1, <3>1, FollowingFacts DEF SessionInv
      <3>3. /\ CallTypeOK' /\ LastIsAwaited' /\ NoStrayBatch'
            /\ AtBatch' <=> Script[op][Following(r)] = "BATCH"
        BY <1>1, <1>2, <1>3, <3>1, <3>2, SendKeeps
      <3>4. op' = op /\ ~lost'
        BY <3>1 DEF Send
      <3>5. op \in {"start", "resume"} /\ AtBatch' => r = "OPEN" /\ ok
        <4> SUFFICES ASSUME op \in {"start", "resume"}, AtBatch'
                     PROVE  r = "OPEN" /\ ok
          OBVIOUS
        <4>1. step \in 1..(Len(Script[op]) - 1) /\ Script[op][step + 1] = "BATCH"
          BY <1>1, <3>1, <3>2, <3>3, ScriptFacts
        <4>2. r = "OPEN"
          BY <1>1, <4>1, ScriptFacts
        <4> QED
          BY <1>5, <4>2 DEF Accepted
      <3>6. r = "OPEN" /\ ok => surplus' = 0 /\ refused' = FALSE
        BY DEF Keeps
      <3>7. CountsAgree'
        BY <2>2, <3>1, <3>4, <3>5, <3>6 DEF CountsAgree, Streams
      <3> QED
        BY <3>1, <3>3, <3>4, <3>7 DEF SessionInv, StartsReady
    <2>5. CASE Rejected(r)
      <3>1. CASE Rest(<<>>) /\ ad' = ad
        BY <2>3, <3>1 DEF Streams
      <3>2. CASE Fault(<<>>)
        BY <1>2, <1>3, <3>2, FaultKeeps
      <3> QED
        BY <2>5, <3>1, <3>2 DEF Rejected, session
    <2>6. CASE Pumped(r)
      <3>1. Send("poll", 1, <<>>) /\ ad' = ad
        BY <2>6 DEF Pumped, session
      <3>2. "poll" \in Ops /\ 1 \in 1..Len(Script["poll"]) /\ Script["poll"][1] # "BATCH"
        BY DEF Ops, Script
      <3>3. CallTypeOK' /\ LastIsAwaited' /\ NoStrayBatch' /\ ~AtBatch'
        BY <1>2, <1>3, <3>1, <3>2, SendKeeps
      <3>4. op' = "poll" /\ ~lost'
        BY <3>1 DEF Send
      <3>5. CountsAgree'
        BY <2>2, <3>1, <3>3, <3>4 DEF CountsAgree, Streams
      <3> QED
        BY <3>3, <3>4, <3>5 DEF SessionInv, StartsReady
    <2>7. CASE step = Len(Script[op]) /\ (Prepares(r, ok) \/ Polls(r, ok) \/ Stops \/ Completes)
      <3>1. CASE Fault(<<>>)
        BY <1>2, <1>3, <3>1, FaultKeeps
      <3>2. CASE Completes
        <4>1. Rest(<<>>)
          BY <3>2 DEF Completes, Returns
        <4>2. op \in {"start", "resume"} => AtBatch /\ ad = "READY"
          BY <1>1, <2>7, ScriptFacts DEF AtBatch, SessionInv, StartsReady
        <4>3. ad' = "ACTIVE" => Streams
          BY <3>2, <4>2 DEF Completes, Streams
        <4> QED
          BY <2>3, <4>1, <4>3
      <3>3. CASE Rest(<<>>) /\ ad' \in {ad, "READY", "STOPPED"}
        BY <2>3, <3>3 DEF Streams
      <3>4. \/ Fault(<<>>) \/ Completes
            \/ Rest(<<>>) /\ ad' \in {ad, "READY", "STOPPED"}
        BY <2>7 DEF Prepares, Polls, Stops, Returns
      <3> QED
        BY <3>1, <3>2, <3>3, <3>4
    <2> QED
      BY <1>5, <2>4, <2>5, <2>6, <2>7 DEF Answered
  <1> QED
    BY <1>4, <1>5

\* The firmware serves the head of the line.
LEMMA ServeStep ==
    ASSUME SessionInv, NEW ok \in BOOLEAN, line # <<>>, Serves(Head(line), ok)
    PROVE  SessionInv'
  <1>1. PICK r : r = Head(line)
    OBVIOUS
  <1>2. PICK admitted \in BOOLEAN :
            /\ Keeps(r, ok, admitted)
            /\ admitted => r = "BATCH"
            /\ r = "BATCH" /\ ok => admitted
    BY <1>1 DEF Serves
  <1>3. CASE Awaited /\ Answered(r, ok)
    BY <1>1, <1>2, <1>3, AnsweredStep
  <1>4. CASE /\ line' = Tail(line)
             /\ lost' = (lost \/ Awaited)
             /\ UNCHANGED <<session, op, step, unfit, done, finite, rest, asked>>
    BY <1>1, <1>2, <1>4, UnansweredStep DEF session
  <1> QED
    BY <1>1, <1>3, <1>4 DEF Serves, Replies

\* A process that ends leaves its requests behind; the next one waits for them.
LEMMA ProcessStep ==
    ASSUME SessionInv, Crash \/ Restart
    PROVE  SessionInv'
  <1>1. surplus' \in Int /\ refused' \in BOOLEAN /\ line \in Seq(Requests)
    BY DEF Crash, Restart, plan, SessionInv, CallTypeOK
  <1>2. CASE Crash
    <2>1. Rest(line) /\ ad' = "DOWN" /\ op' = "IDLE"
      BY <1>2 DEF Crash, Rest
    <2>2. CallTypeOK' /\ LastIsAwaited' /\ NoStrayBatch' /\ ~AtBatch'
      BY <1>1, <2>1, RestKeeps
    <2> QED
      BY <2>1, <2>2 DEF SessionInv, CountsAgree, Streams, StartsReady
  <1>3. CASE Restart
    <2>1. /\ UNCHANGED <<op, step, line, lost, surplus, refused>> /\ line = <<>>
          /\ ad = "DOWN" /\ ad' = "NEW"
      BY <1>3 DEF Restart, call, plan
    <2> QED
      BY <2>1 DEF SessionInv, CallTypeOK, LastIsAwaited, NoStrayBatch, CountsAgree, Streams,
         AtBatch, StartsReady
  <1> QED
    BY <1>2, <1>3

LEMMA SessionStep ==
    ASSUME SessionInv, [SNext]_svars
    PROVE  SessionInv'
  <1>1. CASE UNCHANGED host
    BY <1>1 DEF host, session, call, plan, SessionInv, CallTypeOK, LastIsAwaited,
       NoStrayBatch, CountsAgree, Streams, AtBatch, StartsReady
  <1>2. CASE UNCHANGED svars
    BY <1>1, <1>2 DEF svars
  <1>3. CASE SNext
    BY <1>1, <1>3, CallStep, TimeoutStep, LossStep, ServeStep, ProcessStep DEF SNext, Firmware
  <1> QED
    BY <1>2, <1>3

\* Between calls an active adapter counts exactly the batches the executor holds: no
\* answer that is late, lost or bad leaves a stream that goes on with a wrong count.
THEOREM RouteSound == SSpec => []RouteKnown
  <1>1. SInit => SessionInv
    BY InitSession
  <1>2. SessionInv /\ [SNext]_svars => SessionInv'
    BY SessionStep
  <1>3. SessionInv => RouteKnown
    BY DEF SessionInv, CountsAgree, Streams, AtBatch, RouteKnown, Calm
  <1> QED
    BY <1>1, <1>2, <1>3, PTL DEF SSpec

-----------------------------------------------------------------------------
(* The types of the session *)

\* Two batches are never in the line, and one only while the executor holds no surplus.
OneBatch ==
    \A i \in DOMAIN line : line[i] = "BATCH" =>
        surplus = 0 /\ \A j \in DOMAIN line : line[j] = "BATCH" => j = i

TypedInv ==
    /\ SessionTypeOK
    /\ OneBatch
    /\ op \in {"append", "pump"} => ad = "ACTIVE"

\* The calls and their requests.
LEMMA ScriptDomains ==
    /\ DOMAIN Script = Ops
    /\ \A o \in Ops : DOMAIN Script[o] = 1..Len(Script[o])
  <1>1. DOMAIN Script = Ops
    BY DEF Script, Ops
  <1>2. \A o \in Ops : DOMAIN Script[o] = 1..Len(Script[o])
    BY ScriptFacts
  <1> QED
    BY <1>1, <1>2

\* What the line holds after a request is sent.
LEMMA SendTyped ==
    ASSUME NEW o \in Ops, NEW n \in 1..Len(Script[o]), NEW queue \in Seq(Requests),
           Send(o, n, queue), Len(queue) < Backlog,
           Script[o][n] = "BATCH" => surplus' = 0 /\ queue = <<>>,
           \A i \in DOMAIN queue : queue[i] = "BATCH" =>
               surplus' = 0 /\ \A j \in DOMAIN queue : queue[j] = "BATCH" => j = i
    PROVE  Len(line') \in 0..Backlog /\ OneBatch'
  <1>1. line' = Append(queue, Script[o][n]) /\ Script[o][n] \in Requests
    BY ScriptFacts DEF Send
  <1>2. /\ Len(line') = Len(queue) + 1 /\ line'[Len(line')] = Script[o][n]
        /\ \A i \in DOMAIN line' : i # Len(line') => i \in DOMAIN queue /\ line'[i] = queue[i]
    BY <1>1
  <1>3. Len(line') \in 0..Backlog
    BY <1>2, SessionAssumption
  <1>4. queue = <<>> => \A i \in DOMAIN line' : i = Len(line')
    BY <1>1
  <1>5. OneBatch'
    BY <1>2, <1>4 DEF OneBatch
  <1> QED
    BY <1>3, <1>5

LEMMA TypedCall ==
    ASSUME SessionInv, TypedInv, Calls
    PROVE  SessionTypeOK' /\ OneBatch' /\ (op' \in {"append", "pump"} => ad' = "ACTIVE")
  <1>1. /\ UNCHANGED <<ad, streak, surplus>> /\ line \in Seq(Requests)
    BY DEF Calls, Prepare, Refresh, Start, Extend, Poll, Keepalive, Feedback, Stop, Claim,
       session, plan, SessionInv, CallTypeOK
  <1>2. CASE Claim
    BY <1>1, <1>2 DEF Claim, call, TypedInv, SessionTypeOK, OneBatch
  <1>3. CASE \E o \in Ops : /\ Begin(o)
                            /\ o \in {"append", "pump"} => ad = "ACTIVE"
    <2>1. PICK o \in Ops : Begin(o) /\ (o \in {"append", "pump"} => ad = "ACTIVE")
      BY <1>3
    <2>2. /\ Send(o, 1, line) /\ Len(line) < Backlog /\ op' = o /\ step' = 1
      BY <2>1 DEF Begin, Send
    <2>3. 1 \in 1..Len(Script[o]) /\ Script[o][1] # "BATCH"
      BY ScriptFacts
    <2>4. Len(line') \in 0..Backlog /\ OneBatch'
      BY <1>1, <2>2, <2>3, SendTyped DEF TypedInv, OneBatch
    <2> QED
      BY <1>1, <2>1, <2>2, <2>3, <2>4, ScriptDomains DEF TypedInv, SessionTypeOK
  <1>4. Claim \/ \E o \in Ops : /\ Begin(o)
                                /\ o \in {"append", "pump"} => ad = "ACTIVE"
    BY DEF Calls, Prepare, Refresh, Start, Extend, Poll, Keepalive, Feedback, Stop, Ops
  <1> QED
    BY <1>2, <1>3, <1>4

LEMMA TypedFault ==
    ASSUME TypedInv, NEW queue \in Seq(Requests), Len(queue) < Backlog, Fault(queue),
           \A i \in DOMAIN queue : queue[i] = "BATCH" =>
               surplus' = 0 /\ \A j \in DOMAIN queue : queue[j] = "BATCH" => j = i,
           surplus' \in 0..1
    PROVE  SessionTypeOK' /\ OneBatch' /\ (op' \in {"append", "pump"} => ad' = "ACTIVE")
  <1>1. ad' = "FAULTED" /\ streak' = streak
    BY DEF Fault
  <1>2. CASE Send("fault", 1, queue)
    <2>1. "fault" \in Ops /\ 1 \in 1..Len(Script["fault"]) /\ Script["fault"][1] # "BATCH"
      BY DEF Ops, Script
    <2>2. Len(line') \in 0..Backlog /\ OneBatch'
      BY <1>2, <2>1, SendTyped
    <2>3. op' = "fault" /\ step' = 1
      BY <1>2 DEF Send
    <2> QED
      BY <1>1, <2>1, <2>2, <2>3, ScriptDomains DEF TypedInv, SessionTypeOK
  <1>3. CASE Rest(queue)
    <2>1. op' = "IDLE" /\ line' = queue
      BY <1>3 DEF Rest
    <2>2. Len(line') \in 0..Backlog
      BY <2>1, SessionAssumption
    <2> QED
      BY <1>1, <2>1, <2>2 DEF TypedInv, SessionTypeOK, OneBatch
  <1> QED
    BY <1>2, <1>3 DEF Fault

LEMMA TypedTimeout ==
    ASSUME SessionInv, TypedInv, TimesOut
    PROVE  SessionTypeOK' /\ OneBatch' /\ (op' \in {"append", "pump"} => ad' = "ACTIVE")
  <1>1. Expire(line) /\ Len(line) < Backlog /\ surplus' = surplus /\ line \in Seq(Requests)
    BY DEF TimesOut, SessionInv, CallTypeOK
  <1>2. CASE Tolerated
    <2>1. /\ streak' = streak + 1 /\ streak + 1 < FeedbackLimit /\ ad' = ad /\ op' = "IDLE"
          /\ line' = line
      BY <1>1, <1>2 DEF Expire, Tolerated, Rest
    <2>2. streak' \in 0..(FeedbackLimit - 1)
      BY <2>1, SessionAssumption DEF TypedInv, SessionTypeOK
    <2> QED
      BY <1>1, <2>1, <2>2 DEF TypedInv, SessionTypeOK, OneBatch
  <1>3. CASE ~Tolerated
    BY <1>1, <1>3, TypedFault DEF Expire, TypedInv, SessionTypeOK, OneBatch
  <1> QED
    BY <1>2, <1>3

LEMMA TypedLoss ==
    ASSUME SessionInv, TypedInv, Lose \/ LineFault
    PROVE  SessionTypeOK' /\ OneBatch' /\ (op' \in {"append", "pump"} => ad' = "ACTIVE")
  <1>1. UNCHANGED <<ad, op, step, streak, surplus>> /\ line \in Seq(Requests)
    BY DEF Lose, LineFault, session, plan, SessionInv, CallTypeOK
  <1>2. /\ \A i \in DOMAIN line' : i \in DOMAIN line /\ line'[i] = line[i]
        /\ Len(line') \in Nat /\ Len(line') <= Len(line)
    <2>1. CASE line' = <<>>
      BY <1>1, <2>1
    <2>2. CASE Len(line) # 0 /\ line' = SubSeq(line, 1, Len(line) - 1)
      BY <1>1, <2>2
    <2>3. Len(line) = 0 => SubSeq(line, 1, Len(line) - 1) = <<>>
      BY <1>1
    <2> QED
      BY <2>1, <2>2, <2>3 DEF Lose, LineFault
  <1>3. Len(line') \in 0..Backlog
    BY <1>1, <1>2, SessionAssumption DEF TypedInv, SessionTypeOK
  <1> QED
    BY <1>1, <1>2, <1>3 DEF TypedInv, SessionTypeOK, OneBatch

\* The surplus grows by the one batch of the line, and shrinks as a good answer comes.
LEMMA TypedSurplus ==
    ASSUME SessionInv, TypedInv, NEW r, NEW ok \in BOOLEAN, NEW admitted \in BOOLEAN,
           line # <<>>, r = Head(line), admitted => r = "BATCH",
           r = "BATCH" /\ ad' = "ACTIVE" /\ Awaited /\ ~lost' => admitted,
           Keeps(r, ok, admitted)
    PROVE  /\ surplus' \in 0..1
           /\ \A i \in DOMAIN Tail(line) : Tail(line)[i] = "BATCH" =>
                 /\ surplus' = 0
                 /\ \A j \in DOMAIN Tail(line) : Tail(line)[j] = "BATCH" => j = i
  <1>1. /\ line \in Seq(Requests) /\ 1 \in DOMAIN line /\ r = line[1]
        /\ \A i \in DOMAIN Tail(line) :
              i \in Nat \ {0} /\ i + 1 \in DOMAIN line /\ Tail(line)[i] = line[i + 1]
    BY DEF SessionInv, CallTypeOK
  <1>2. surplus \in 0..1 /\ OneBatch
    BY DEF TypedInv, SessionTypeOK
  <1>3. CASE r = "BATCH"
    <2>1. surplus = 0 /\ \A i \in DOMAIN Tail(line) : Tail(line)[i] # "BATCH"
      BY <1>1, <1>2, <1>3 DEF OneBatch
    <2>2. surplus' \in 0..1
      BY <1>3, <2>1 DEF Keeps
    <2> QED
      BY <2>1, <2>2
  <1>4. CASE r # "BATCH"
    <2>1. surplus' \in {surplus, 0}
      BY <1>2, <1>4 DEF Keeps
    <2>2. ASSUME NEW i \in DOMAIN Tail(line), Tail(line)[i] = "BATCH"
          PROVE  /\ surplus = 0
                 /\ \A j \in DOMAIN Tail(line) : Tail(line)[j] = "BATCH" => j = i
      BY <1>1, <1>2, <2>2 DEF OneBatch
    <2> QED
      BY <1>2, <2>1, <2>2
  <1> QED
    BY <1>3, <1>4

LEMMA TypedAnswered ==
    ASSUME SessionInv, SessionInv', TypedInv, NEW r, NEW ok \in BOOLEAN,
           r = Head(line), Awaited, Answered(r, ok),
           surplus' \in 0..1
    PROVE  SessionTypeOK' /\ OneBatch' /\ (op' \in {"append", "pump"} => ad' = "ACTIVE")
  <1>1. op # "IDLE" /\ op \in Ops /\ step \in 1..Len(Script[op]) /\ r = Script[op][step]
    BY DEF SessionInv, CallTypeOK, LastIsAwaited, Awaited
  <1>2. /\ <<>> \in Seq(Requests) /\ Len(<<>>) < Backlog
        /\ \A i \in DOMAIN <<>> : <<>>[i] = "BATCH" =>
              surplus' = 0 /\ \A j \in DOMAIN <<>> : <<>>[j] = "BATCH" => j = i
    BY SessionAssumption
  <1>3. 0 \in 0..(FeedbackLimit - 1) /\ streak \in 0..(FeedbackLimit - 1)
    BY SessionAssumption DEF TypedInv, SessionTypeOK
  <1>4. CASE Fault(<<>>)
    BY <1>2, <1>4, TypedFault
  <1>5. CASE Advance(r, ok)
    <2>1. /\ step < Len(Script[op]) /\ Send(op, Following(r), <<>>) /\ ad' = ad
          /\ streak' \in {streak, 0} /\ op' = op /\ step' = Following(r) /\ ~lost'
      BY <1>5 DEF Advance, Send
    <2>2. PICK n \in 1..Len(Script[op]) : n = Following(r)
      BY <1>1, <2>1, FollowingFacts DEF SessionInv
    <2>3. Script[op][n] = "BATCH" => surplus' = 0
      <3> SUFFICES ASSUME Script[op][n] = "BATCH" PROVE surplus' = 0
        OBVIOUS
      <3>1. AtBatch'
        BY <1>1, <2>1, <2>2 DEF AtBatch
      <3>2. op \in {"start", "resume", "append", "pump"}
        BY <1>1, ScriptFacts
      <3>3. Streams'
        BY <2>1, <3>1, <3>2 DEF Streams, SessionInv, StartsReady, TypedInv
      <3> QED
        BY <2>1, <3>3 DEF SessionInv, CountsAgree
    <2>4. Len(line') \in 0..Backlog /\ OneBatch'
      <3>1. Send(op, n, <<>>)
        BY <2>1, <2>2
      <3> QED
        BY <1>1, <1>2, <2>3, <3>1, SendTyped
    <2> QED
      BY <1>1, <1>3, <2>1, <2>2, <2>4, ScriptDomains DEF TypedInv, SessionTypeOK
  <1>6. CASE Pumped(r)
    <2>1. Send("poll", 1, <<>>) /\ ad' = ad /\ streak' = streak /\ op' = "poll" /\ step' = 1
      BY <1>6 DEF Pumped, Send, session
    <2>2. "poll" \in Ops /\ 1 \in 1..Len(Script["poll"]) /\ Script["poll"][1] # "BATCH"
      BY DEF Ops, Script
    <2>3. Len(line') \in 0..Backlog /\ OneBatch'
      BY <1>2, <2>1, <2>2, SendTyped
    <2> QED
      BY <2>1, <2>2, <2>3, ScriptDomains DEF TypedInv, SessionTypeOK
  <1>7. CASE /\ Rest(<<>>) /\ ad' \in {ad, "READY", "ACTIVE", "STOPPED"}
             /\ streak' \in {streak, 0}
    <2>1. op' = "IDLE" /\ line' = <<>>
      BY <1>7 DEF Rest
    <2>2. Len(line') \in 0..Backlog /\ OneBatch'
      BY <2>1, SessionAssumption DEF OneBatch
    <2> QED
      BY <1>3, <1>7, <2>1, <2>2 DEF TypedInv, SessionTypeOK
  <1>8. CASE Rejected(r) /\ ~Fault(<<>>)
    BY <1>7, <1>8 DEF Rejected, session
  <1>9. CASE (Prepares(r, ok) \/ Polls(r, ok) \/ Stops \/ Completes) /\ ~Fault(<<>>)
    BY <1>7, <1>9 DEF Prepares, Polls, Stops, Completes, Returns
  <1> QED
    BY <1>4, <1>5, <1>6, <1>8, <1>9 DEF Answered

LEMMA TypedServe ==
    ASSUME SessionInv, SessionInv', TypedInv, NEW ok \in BOOLEAN, line # <<>>,
           Serves(Head(line), ok)
    PROVE  SessionTypeOK' /\ OneBatch' /\ (op' \in {"append", "pump"} => ad' = "ACTIVE")
  <1>1. PICK r : r = Head(line)
    OBVIOUS
  <1>2. PICK admitted \in BOOLEAN :
            /\ Keeps(r, ok, admitted)
            /\ admitted => r = "BATCH"
            /\ r = "BATCH" /\ ok => admitted
    BY <1>1 DEF Serves
  <1>3. line \in Seq(Requests)
    BY DEF SessionInv, CallTypeOK
  <1>4. CASE Awaited /\ Answered(r, ok)
    <2>1. r = "BATCH" /\ ad' = "ACTIVE" => ok
      <3>1. ~Accepted(r, ok) => ad' = "FAULTED"
        BY <1>4 DEF Answered, Fault
      <3> QED
        BY <3>1 DEF Accepted
    <2>2. surplus' \in 0..1
      BY <1>1, <1>2, <2>1, TypedSurplus
    <2> QED
      BY <1>1, <1>4, <2>2, TypedAnswered
  <1>5. CASE /\ line' = Tail(line)
             /\ lost' = (lost \/ Awaited)
             /\ UNCHANGED <<session, op, step, unfit, done, finite, rest, asked>>
    <2>1. UNCHANGED <<ad, streak, op, step>>
      BY <1>5 DEF session
    <2>2. Awaited => lost'
      BY <1>5
    <2>3. /\ surplus' \in 0..1
          /\ \A i \in DOMAIN line' : line'[i] = "BATCH" =>
                surplus' = 0 /\ \A j \in DOMAIN line' : line'[j] = "BATCH" => j = i
      BY <1>1, <1>2, <1>5, <2>2, TypedSurplus
    <2>4. Len(line') \in 0..Backlog
      <3>1. Len(line') = Len(line) - 1 /\ Len(line) # 0
        BY <1>3, <1>5
      <3> QED
        BY <1>3, <3>1, SessionAssumption DEF TypedInv, SessionTypeOK
    <2> QED
      BY <2>1, <2>3, <2>4 DEF TypedInv, SessionTypeOK, OneBatch
  <1> QED
    BY <1>1, <1>4, <1>5 DEF Serves, Replies

LEMMA TypedProcess ==
    ASSUME TypedInv, Crash \/ Restart
    PROVE  SessionTypeOK' /\ OneBatch' /\ (op' \in {"append", "pump"} => ad' = "ACTIVE")
  <1>1. CASE Crash
    <2>1. /\ ad' = "DOWN" /\ streak' = 0 /\ op' = "IDLE" /\ line' = line
          /\ surplus' = surplus
      BY <1>1 DEF Crash, Rest, plan
    <2> QED
      BY <2>1, SessionAssumption DEF TypedInv, SessionTypeOK, OneBatch
  <1>2. CASE Restart
    <2>1. /\ ad = "DOWN" /\ ad' = "NEW" /\ UNCHANGED <<streak, op, step, line, surplus>>
      BY <1>2 DEF Restart, call, plan
    <2> QED
      BY <2>1 DEF TypedInv, SessionTypeOK, OneBatch
  <1> QED
    BY <1>1, <1>2

LEMMA TypedInit == SInit => TypedInv
  <1> SUFFICES ASSUME SInit PROVE TypedInv
    OBVIOUS
  <1>1. ad = "NEW" /\ streak = 0 /\ op = "IDLE" /\ line = <<>> /\ surplus = 0
    BY DEF SInit
  <1> QED
    BY <1>1, SessionAssumption DEF TypedInv, SessionTypeOK, OneBatch

LEMMA TypedStep ==
    ASSUME SessionInv, TypedInv, [SNext]_svars
    PROVE  TypedInv'
  <1>1. SessionInv'
    BY SessionStep
  <1>2. CASE UNCHANGED host
    BY <1>2 DEF host, session, call, plan, TypedInv, SessionTypeOK, OneBatch
  <1>3. CASE SNext
    BY <1>1, <1>2, <1>3, TypedCall, TypedTimeout, TypedLoss, TypedServe, TypedProcess
    DEF SNext, Firmware, TypedInv
  <1> QED
    BY <1>2, <1>3 DEF svars

\* The types of the session: its calls and their requests, the failed reads it forgives,
\* the room in the line, and one batch at most that the adapter does not count.
THEOREM SessionTyped == SSpec => []SessionTypeOK
  <1>1. SInit => SessionInv /\ TypedInv
    BY InitSession, TypedInit
  <1>2. SessionInv /\ TypedInv /\ [SNext]_svars => (SessionInv /\ TypedInv)'
    BY SessionStep, TypedStep
  <1>3. TypedInv => SessionTypeOK
    BY DEF TypedInv
  <1> QED
    BY <1>1, <1>2, <1>3, PTL DEF SSpec

-----------------------------------------------------------------------------
(* Who answers for the torque *)

InLine(r) == \E i \in DOMAIN line : line[i] = r

Claimed == armed \/ asked \/ ad = "DOWN"

\* The call may still prepare the arms: it has not asked for torque.
Preparing == op \in {"prepare", "refresh"} \/ (op = "start" /\ step <= 2)

\* What a call in progress says about its session.
CallsInOrder ==
    /\ op \in {"stop", "fault"} => asked
    /\ op \in Ops \ {"stop", "fault"} => ad \in {"NEW", "READY", "ACTIVE"}
    /\ asked => ad \in {"FAULTED", "STOPPED", "DOWN"} \/ op = "stop"
    /\ ad \in {"NEW", "DOWN"} => ~armed
    /\ ad = "DOWN" => op = "IDLE"
    /\ Preparing => ad \in {"NEW", "READY"} /\ ~armed

\* Arms that may be energised are claimed, by the time the request for it is sent, and
\* no preparation is on its way to them.
LineInOrder ==
    /\ InLine("ARM") => Claimed
    /\ InLine("SHADOW") => ~Energised /\ ~InLine("ARM")

TorqueInv ==
    /\ CallsInOrder
    /\ LineInOrder
    /\ Energised => Claimed /\ output

\* Arms are asked for and prepared in one place each, and never by a first request.
LEMMA RequestFacts ==
    ASSUME NEW o \in Ops
    PROVE  /\ Script[o][1] \notin {"ARM", "SHADOW"}
           /\ \A n \in 1..Len(Script[o]) :
                 /\ Script[o][n] = "ARM" => o = "start" /\ n = 3
                 /\ Script[o][n] = "SHADOW" =>
                       o \in {"prepare", "refresh"} \/ (o = "start" /\ n = 2)
  <1>1. CASE o = "prepare"
    BY <1>1 DEF Script
  <1>2. CASE o = "refresh"
    BY <1>2 DEF Script
  <1>3. CASE o = "start"
    BY <1>3 DEF Script
  <1>4. CASE o = "resume"
    BY <1>4 DEF Script
  <1>5. CASE o = "append"
    BY <1>5 DEF Script
  <1>6. CASE o = "pump"
    BY <1>6 DEF Script
  <1>7. CASE o = "poll"
    BY <1>7 DEF Script
  <1>8. CASE o = "keepalive"
    BY <1>8 DEF Script
  <1>9. CASE o = "feedback"
    BY <1>9 DEF Script
  <1>10. CASE o = "stop"
    BY <1>10 DEF Script
  <1>11. CASE o = "fault"
    BY <1>11 DEF Script
  <1> QED
    BY <1>1, <1>2, <1>3, <1>4, <1>5, <1>6, <1>7, <1>8, <1>9, <1>10, <1>11 DEF Ops

\* What is in the line after a request is sent, or none is.
LEMMA SendLine ==
    ASSUME NEW o \in Ops, NEW n \in 1..Len(Script[o]), NEW queue \in Seq(Requests),
           Send(o, n, queue), NEW r, InLine(r)'
    PROVE  r = Script[o][n] \/ \E i \in DOMAIN queue : queue[i] = r
  <1>1. line' = Append(queue, Script[o][n])
    BY DEF Send
  <1>2. PICK i \in DOMAIN line' : line'[i] = r
    BY DEF InLine
  <1>3. /\ Len(line') = Len(queue) + 1 /\ line'[Len(line')] = Script[o][n]
        /\ i # Len(line') => i \in DOMAIN queue /\ line'[i] = queue[i]
    BY <1>1
  <1> QED
    BY <1>2, <1>3

LEMMA TailLine ==
    ASSUME line \in Seq(Requests), line # <<>>, line' = Tail(line), NEW r, InLine(r)'
    PROVE  InLine(r)
  <1>1. PICK i \in DOMAIN line' : line'[i] = r
    BY DEF InLine
  <1>2. i + 1 \in DOMAIN line /\ line'[i] = line[i + 1]
    BY <1>1
  <1> QED
    BY <1>1, <1>2 DEF InLine

\* Nothing that concerns the arms is put into the line.
LEMMA LineKept ==
    ASSUME LineInOrder,
           \A r \in {"ARM", "SHADOW"} : InLine(r)' => InLine(r),
           Claimed => Claimed', Energised' => Energised
    PROVE  LineInOrder'
  <1>1. /\ InLine("ARM")' => InLine("ARM")
        /\ InLine("SHADOW")' => InLine("SHADOW")
    OBVIOUS
  <1> QED
    BY <1>1 DEF LineInOrder

\* A call that fails gives up its claim only after the stop was asked for.
LEMMA FaultClaims ==
    ASSUME SessionInv, TorqueInv, NEW queue \in Seq(Requests), Fault(queue), op # "IDLE"
    PROVE  /\ CallsInOrder'
           /\ Claimed => Claimed'
           /\ \A r \in {"ARM", "SHADOW"} :
                 InLine(r)' => \E i \in DOMAIN queue : queue[i] = r
  <1>1. CASE armed /\ op # "fault"
    <2>1. Send("fault", 1, queue) /\ ad' = "FAULTED" /\ op' = "fault" /\ asked'
      BY <1>1 DEF Fault, Send
    <2>2. "fault" \in Ops /\ 1 \in 1..Len(Script["fault"])
      BY DEF Ops, Script
    <2>3. \A r \in {"ARM", "SHADOW"} :
             InLine(r)' => \E i \in DOMAIN queue : queue[i] = r
      BY <2>1, <2>2, SendLine, RequestFacts
    <2> QED
      BY <2>1, <2>3 DEF CallsInOrder, Preparing, Claimed
  <1>2. CASE ~(armed /\ op # "fault")
    <2>1. Rest(queue) /\ ad' = "FAULTED" /\ op' = "IDLE" /\ ~armed' /\ asked' = asked
      BY <1>2 DEF Fault, Rest
    <2>2. armed => asked
      BY <1>2 DEF TorqueInv, CallsInOrder
    <2>3. "IDLE" \notin Ops
      BY DEF Ops
    <2>4. CallsInOrder' /\ (Claimed => Claimed')
      <3>1. ad = "DOWN" => asked
        BY <2>3 DEF TorqueInv, CallsInOrder, SessionInv, CallTypeOK
      <3> QED
        BY <2>1, <2>2, <2>3, <3>1 DEF CallsInOrder, Preparing, Claimed
    <2> QED
      BY <2>1, <2>4 DEF Rest, InLine
  <1> QED
    BY <1>1, <1>2

LEMMA TorqueCall ==
    ASSUME SessionInv, TorqueInv, Calls
    PROVE  TorqueInv'
  <1>1. /\ UNCHANGED <<ad, armed, torque, output>>
        /\ asked' <=> asked \/ op' = "stop"
        /\ line \in Seq(Requests)
    <2>1. CASE Claim
      <3>1. op' = "IDLE" /\ asked' = asked
        BY <2>1 DEF Claim, call
      <3> QED
        BY <2>1, <3>1 DEF Claim, vars, SessionInv, CallTypeOK
    <2>2. CASE Stop
      BY <2>2 DEF Stop, Begin, Send, vars, SessionInv, CallTypeOK
    <2>3. CASE ~Claim /\ ~Stop
      <3>1. op' # "stop" /\ asked' = asked
        BY <2>3 DEF Calls, Prepare, Refresh, Start, Extend, Poll, Keepalive, Feedback, Begin,
           Send
      <3>2. UNCHANGED <<ad, armed, vars>>
        BY <2>3 DEF Calls, Prepare, Refresh, Start, Extend, Poll, Keepalive, Feedback, Begin,
           session
      <3> QED
        BY <3>1, <3>2 DEF vars, SessionInv, CallTypeOK
    <2> QED
      BY <2>1, <2>2, <2>3
  <1>2. /\ op = "IDLE"
        /\ \/ Claim
           \/ \E o \in Ops \ {"fault"} : Send(o, 1, line)
    BY DEF Calls, Prepare, Refresh, Start, Extend, Poll, Keepalive, Feedback, Stop, Claim,
       Begin, Ops
  <1>3. (Energised' <=> Energised) /\ output' = output /\ (Claimed => Claimed')
    BY <1>1 DEF Energised, Claimed
  <1>4. CallsInOrder'
    <2>1. CASE Claim
      BY <1>1, <2>1 DEF Claim, call, TorqueInv, CallsInOrder, Preparing
    <2>2. CASE Stop
      BY <1>1, <2>2 DEF Stop, Begin, Send, TorqueInv, CallsInOrder, Preparing
    <2>3. CASE ~Claim /\ ~Stop
      <3>1. ad \in {"NEW", "READY", "ACTIVE"} /\ op' \in Ops \ {"stop", "fault"} /\ op' # "stop"
        BY <2>3 DEF Calls, Prepare, Refresh, MayRefresh, Start, Extend, Poll, Keepalive,
           HeartbeatRequired, Feedback, Begin, Send, Ops
      <3>2. op' \in {"prepare", "refresh", "start"} => ad \in {"NEW", "READY"} /\ ~armed
        BY <2>3 DEF Calls, Prepare, Refresh, MayRefresh, Start, Extend, Poll, Keepalive,
           Feedback, Begin, Send, TorqueInv, CallsInOrder
      <3> QED
        BY <1>1, <1>2, <3>1, <3>2 DEF TorqueInv, CallsInOrder, Preparing
    <2> QED
      BY <2>1, <2>2, <2>3
  <1>5. \A r \in {"ARM", "SHADOW"} : InLine(r)' => InLine(r)
    <2>1. CASE Claim
      BY <2>1 DEF Claim, call, InLine
    <2>2. CASE \E o \in Ops \ {"fault"} : Send(o, 1, line)
      <3>1. PICK o \in Ops : Send(o, 1, line)
        BY <2>2
      <3>2. 1 \in 1..Len(Script[o])
        BY ScriptFacts
      <3>3. \A r \in {"ARM", "SHADOW"} :
               InLine(r)' => r = Script[o][1] \/ \E i \in DOMAIN line : line[i] = r
        BY <1>1, <3>1, <3>2, SendLine
      <3>4. Script[o][1] \notin {"ARM", "SHADOW"}
        BY RequestFacts
      <3> QED
        BY <3>3, <3>4 DEF InLine
    <2> QED
      BY <1>2, <2>1, <2>2
  <1>6. LineInOrder'
    BY <1>3, <1>5, LineKept DEF TorqueInv
  <1> QED
    BY <1>3, <1>4, <1>6 DEF TorqueInv

LEMMA TorqueTimeout ==
    ASSUME SessionInv, TorqueInv, TimesOut
    PROVE  TorqueInv'
  <1>1. op # "IDLE" /\ Expire(line) /\ UNCHANGED <<torque, output>> /\ line \in Seq(Requests)
    BY DEF TimesOut, vars, SessionInv, CallTypeOK
  <1>2. Energised' <=> Energised
    BY <1>1 DEF Energised
  <1>3. CASE Tolerated
    <2>1. UNCHANGED <<ad, armed, asked, line>> /\ op' = "IDLE" /\ op = "feedback"
      BY <1>1, <1>3 DEF Expire, Rest, Tolerated
    <2>2. CallsInOrder' /\ (Claimed => Claimed')
      BY <2>1 DEF TorqueInv, CallsInOrder, Preparing, Claimed, Ops
    <2>3. LineInOrder'
      BY <1>2, <2>1, <2>2, LineKept DEF TorqueInv, InLine
    <2> QED
      BY <1>1, <1>2, <2>2, <2>3 DEF TorqueInv
  <1>4. CASE ~Tolerated
    <2>1. /\ CallsInOrder' /\ (Claimed => Claimed')
          /\ \A r \in {"ARM", "SHADOW"} : InLine(r)' => InLine(r)
      BY <1>1, <1>4, FaultClaims DEF Expire, InLine
    <2>2. LineInOrder'
      BY <1>2, <2>1, LineKept DEF TorqueInv
    <2> QED
      BY <1>1, <1>2, <2>1, <2>2 DEF TorqueInv
  <1> QED
    BY <1>3, <1>4

LEMMA TorqueLoss ==
    ASSUME SessionInv, TorqueInv, Lose \/ LineFault
    PROVE  TorqueInv'
  <1>1. UNCHANGED <<ad, armed, asked, op, step, torque, output>> /\ line \in Seq(Requests)
    BY DEF Lose, LineFault, ReceiveFault, vars, session, arms, SessionInv, CallTypeOK
  <1>2. Energised' <=> Energised
    BY <1>1 DEF Energised
  <1>3. CallsInOrder' /\ (Claimed => Claimed')
    BY <1>1 DEF TorqueInv, CallsInOrder, Preparing, Claimed
  <1>4. ASSUME NEW i \in DOMAIN line' PROVE i \in DOMAIN line /\ line'[i] = line[i]
    <2>1. CASE line' = <<>>
      BY <2>1
    <2>2. CASE Len(line) # 0 /\ line' = SubSeq(line, 1, Len(line) - 1)
      BY <1>1, <2>2
    <2>3. Len(line) = 0 => SubSeq(line, 1, Len(line) - 1) = <<>>
      BY <1>1
    <2> QED
      BY <2>1, <2>2, <2>3 DEF Lose, LineFault
  <1>5. LineInOrder'
    BY <1>2, <1>3, <1>4, LineKept DEF TorqueInv, InLine
  <1> QED
    BY <1>1, <1>2, <1>3, <1>5 DEF TorqueInv

\* Nothing but ARM energises, and it marks the arms it energises.
LEMMA ServedTorque ==
    ASSUME NEW r \in Requests, NEW ok \in BOOLEAN, Serves(r, ok),
           Energised => output, r = "SHADOW" => ~Energised
    PROVE  Energised' => output' /\ (Energised \/ r = "ARM")
  <1>1. CASE UNCHANGED <<torque, output>>
    BY <1>1 DEF Energised
  <1>2. r # "BATCH" => Does(r, ok)
    BY DEF Serves
  <1>3. CASE r = "SHADOW"
    <2>1. PICK outcome \in Outcomes, readable \in BOOLEAN : PrepareShadow(outcome, readable)
      <3>1. Does("SHADOW", ok)
        BY <1>3, <1>2
      <3> QED
        BY <3>1 DEF Does, Reads
    <2>2. /\ torque'.left \in {torque.left, outcome.left}
          /\ torque'.right \in {torque.right, outcome.right}
      BY <2>1 DEF PrepareShadow
    <2> QED
      BY <1>3, <2>1, <2>2 DEF Energised, Outcomes, Removed
  <1>4. CASE r = "ARM"
    <2>1. Does("ARM", ok)
      BY <1>4, <1>2
    <2>2. CASE ArmConfigures
      BY <1>4, <2>2 DEF ArmConfigures
    <2>3. CASE ArmAgain
      BY <1>1, <2>3 DEF ArmAgain, arms
    <2>4. CASE \E outcome \in Outcomes : ArmFails(outcome)
      <3>1. PICK outcome \in Outcomes : ArmFails(outcome)
        BY <2>4
      <3>2. torque'.left = outcome.left /\ torque'.right \in {torque.right, outcome.right}
        BY <3>1 DEF ArmFails, Outcomes
      <3>3. output' = output
        BY <3>1 DEF ArmFails
      <3> QED
        BY <1>4, <3>2, <3>3 DEF Energised, Outcomes, Removed
    <2> QED
      BY <2>1, <2>2, <2>3, <2>4 DEF Does, Reads
  <1>5. CASE r = "STOP"
    <2>1. PICK outcome \in Outcomes : SafeStop(outcome)
      <3>1. Does("STOP", ok)
        BY <1>5, <1>2
      <3> QED
        BY <3>1 DEF Does, Reads
    <2>2. torque' = outcome
      BY <2>1 DEF SafeStop, Perform, StopOutcome
    <2> QED
      BY <2>2 DEF Energised, Outcomes, Removed
  <1>6. CASE r = "BATCH"
    BY <1>1, <1>6 DEF Serves, Admits, Quiet, Batch, arms
  <1>7. CASE r \notin {"SHADOW", "ARM", "STOP", "BATCH"}
    <2>1. Does(r, ok)
      BY <1>7, <1>2
    <2>2. Quiet \/ Heartbeat \/ Enable \/ Open
      BY <1>7, <2>1 DEF Does, Requests, Reads
    <2>3. Quiet \/ Heartbeat \/ Enable \/ Open => UNCHANGED <<torque, output>>
      BY DEF Quiet, Heartbeat, Enable, Open, arms
    <2> QED
      BY <1>1, <2>2, <2>3
  <1> QED
    BY <1>3, <1>4, <1>5, <1>6, <1>7

\* An answer in time: the claim is made before ARM is sent, and given up after the stop.
LEMMA TorqueAnswered ==
    ASSUME SessionInv, TorqueInv, NEW r \in Requests, NEW ok \in BOOLEAN, r = Head(line),
           InLine(r), Awaited, Answered(r, ok),
           Energised' => output' /\ (Energised \/ r = "ARM")
    PROVE  TorqueInv'
  <1>1. /\ op \in Ops /\ step \in 1..Len(Script[op]) /\ r = Script[op][step]
        /\ op # "IDLE"
    BY DEF SessionInv, CallTypeOK, LastIsAwaited, Awaited
  <1>2. Energised \/ r = "ARM" => Claimed
    BY DEF TorqueInv, LineInOrder
  <1>3. op \notin {"stop", "fault"} => ad \in {"NEW", "READY", "ACTIVE"} /\ ~asked
    BY <1>1 DEF TorqueInv, CallsInOrder
  <1>4. <<>> \in Seq(Requests) /\ \A x : ~ \E i \in DOMAIN <<>> : <<>>[i] = x
    OBVIOUS
  \* it is enough that the session stays in order and the line does
  <1>5. /\ CallsInOrder'
        /\ Claimed => Claimed'
        /\ \A x \in {"ARM", "SHADOW"} : ~InLine(x)'
        => TorqueInv'
    BY <1>2 DEF TorqueInv, LineInOrder
  <1>6. CASE Fault(<<>>)
    BY <1>1, <1>4, <1>5, <1>6, FaultClaims
  <1>7. CASE Advance(r, ok)
    <2>1. /\ step < Len(Script[op]) /\ Send(op, Following(r), <<>>)
          /\ ad' = ad /\ asked' = asked /\ (armed' <=> armed \/ Arms(r)) /\ op' = op
          /\ step' = Following(r)
      BY <1>7 DEF Advance, Send
    <2>2. Following(r) \in 1..Len(Script[op]) /\ Following(r) \in {step + 1, step + 2}
      BY <1>1, <2>1, FollowingFacts DEF SessionInv, Following
    <2>3. Preparing' => Preparing /\ ~Arms(r)
      <3> SUFFICES ASSUME Preparing' PROVE Preparing /\ ~Arms(r)
        OBVIOUS
      <3>1. CASE op \in {"prepare", "refresh"}
        BY <3>1 DEF Preparing, Arms
      <3>2. CASE op = "start" /\ step + 1 <= 2
        <4>1. step = 1
          BY <1>1, <3>2
        <4>2. r # "SHADOW"
          BY <1>1, <3>2, <4>1, RequestFacts
        <4> QED
          BY <3>2, <4>1, <4>2 DEF Preparing, Arms
      <3>3. op \in {"prepare", "refresh"} \/ (op = "start" /\ step + 1 <= 2)
        BY <1>1, <2>1, <2>2 DEF Preparing
      <3> QED
        BY <3>1, <3>2, <3>3
    <2>4. CallsInOrder' /\ (Claimed => Claimed')
      <3>1. Arms(r) => op = "start" /\ ad = "READY"
        BY DEF Arms, SessionInv, StartsReady
      <3> QED
        BY <2>1, <2>3, <3>1 DEF TorqueInv, CallsInOrder, Claimed
    <2>5. \A x : InLine(x)' => x = Script[op][Following(r)]
      <3> SUFFICES ASSUME NEW x, InLine(x)' PROVE x = Script[op][Following(r)]
        OBVIOUS
      <3>1. PICK n \in 1..Len(Script[op]) : n = Following(r)
        BY <2>2
      <3>2. Send(op, n, <<>>)
        BY <2>1, <3>1
      <3>3. x = Script[op][n] \/ \E i \in DOMAIN <<>> : <<>>[i] = x
        BY <1>1, <1>4, <3>2, SendLine
      <3> QED
        BY <1>4, <3>1, <3>3
    <2>6. Script[op][Following(r)] = "ARM" => Claimed'
      <3> SUFFICES ASSUME Script[op][Following(r)] = "ARM" PROVE Claimed'
        OBVIOUS
      <3>1. op = "start" /\ Following(r) = 3
        BY <1>1, <2>2, RequestFacts
      <3>2. step = 2
        BY <1>1, <3>1 DEF Following
      <3>3. Arms(r)
        BY <1>1, <3>1, <3>2 DEF Script, Arms
      <3> QED
        BY <2>1, <3>3 DEF Claimed
    <2>7. Script[op][Following(r)] = "SHADOW" => ~Energised'
      <3> SUFFICES ASSUME Script[op][Following(r)] = "SHADOW" PROVE ~Energised'
        OBVIOUS
      <3>1. Preparing'
        BY <1>1, <2>1, <2>2, RequestFacts DEF Preparing
      <3>2. ~armed /\ ad \in {"NEW", "READY"} /\ op \notin {"stop", "fault"}
        BY <2>3, <3>1 DEF TorqueInv, CallsInOrder, Preparing
      <3>3. ~Claimed
        BY <1>3, <3>2 DEF Claimed
      <3> QED
        BY <1>2, <3>3
    <2>8. LineInOrder'
      <3>1. InLine("ARM")' => Claimed'
        BY <2>5, <2>6
      <3>2. InLine("SHADOW")' => ~Energised'
        BY <2>5, <2>7
      <3>3. InLine("SHADOW")' => ~InLine("ARM")'
        BY <2>5
      <3> QED
        BY <3>1, <3>2, <3>3 DEF LineInOrder
    <2> QED
      BY <1>2, <2>4, <2>8 DEF TorqueInv
  <1>8. CASE Pumped(r)
    <2>1. /\ op = "pump" /\ Send("poll", 1, <<>>) /\ UNCHANGED <<ad, armed, asked>>
          /\ op' = "poll"
      BY <1>8 DEF Pumped, Send, session
    <2>2. "poll" \in Ops /\ 1 \in 1..Len(Script["poll"])
      BY DEF Ops, Script
    <2>3. \A x \in {"ARM", "SHADOW"} : ~InLine(x)'
      BY <1>4, <2>1, <2>2, SendLine, RequestFacts
    <2>4. CallsInOrder' /\ (Claimed => Claimed')
      BY <2>1 DEF TorqueInv, CallsInOrder, Preparing, Claimed, Ops
    <2> QED
      BY <1>5, <2>3, <2>4
  <1>9. CASE /\ Rest(<<>>) /\ asked' = asked
             /\ \/ op = "stop" /\ ad' = "STOPPED" /\ ~armed'
                \/ op = "fault" /\ ad' = ad /\ ~armed'
                \/ /\ op \notin {"stop", "fault"}
                   /\ ad' \in {ad, "READY", "ACTIVE"} /\ armed' = armed
    <2>1. op' = "IDLE" /\ line' = <<>>
      BY <1>9 DEF Rest
    <2>2. \A x \in {"ARM", "SHADOW"} : ~InLine(x)'
      BY <2>1 DEF InLine
    <2>3. CallsInOrder' /\ (Claimed => Claimed')
      <3>1. CASE op \in {"stop", "fault"}
        BY <1>9, <2>1, <3>1 DEF TorqueInv, CallsInOrder, Preparing, Claimed, Ops
      <3>2. CASE op \notin {"stop", "fault"}
        BY <1>3, <1>9, <2>1, <3>2 DEF TorqueInv, CallsInOrder, Preparing, Claimed, Ops
      <3> QED
        BY <3>1, <3>2
    <2> QED
      BY <1>5, <2>2, <2>3
  <1>10. CASE Rejected(r) /\ ~Fault(<<>>)
    BY <1>9, <1>10 DEF Rejected, session
  <1>11. CASE (Prepares(r, ok) \/ Polls(r, ok) \/ Stops \/ Completes) /\ ~Fault(<<>>)
    <2>1. Rest(<<>>) /\ asked' = asked
      BY <1>11 DEF Prepares, Polls, Stops, Completes, Returns
    <2>2. CASE Stops
      BY <1>9, <2>1, <2>2 DEF Stops
    <2>3. CASE ~Stops
      BY <1>9, <1>11, <2>1, <2>3 DEF Prepares, Polls, Completes
    <2> QED
      BY <2>2, <2>3
  <1> QED
    BY <1>6, <1>7, <1>8, <1>10, <1>11 DEF Answered

LEMMA TorqueServe ==
    ASSUME SessionInv, TorqueInv, NEW ok \in BOOLEAN, line # <<>>, Serves(Head(line), ok)
    PROVE  TorqueInv'
  <1>1. PICK r \in Requests : r = Head(line)
    BY DEF SessionInv, CallTypeOK
  <1>2. InLine(r) /\ line \in Seq(Requests)
    BY <1>1 DEF InLine, SessionInv, CallTypeOK
  <1>3. r = "SHADOW" => ~Energised /\ ~InLine("ARM")
    BY <1>2 DEF TorqueInv, LineInOrder
  <1>4. Energised' => output' /\ (Energised \/ r = "ARM")
    BY <1>1, <1>3, ServedTorque DEF TorqueInv
  <1>5. CASE Awaited /\ Answered(r, ok)
    BY <1>1, <1>2, <1>4, <1>5, TorqueAnswered
  <1>6. CASE /\ line' = Tail(line)
             /\ UNCHANGED <<session, op, step, unfit, done, finite, rest, asked>>
    <2>1. UNCHANGED <<ad, armed, asked, op, step>>
      BY <1>6 DEF session
    <2>2. CallsInOrder' /\ (Claimed <=> Claimed')
      BY <2>1 DEF TorqueInv, CallsInOrder, Preparing, Claimed
    <2>3. \A x : InLine(x)' => InLine(x)
      BY <1>2, <1>6, TailLine
    <2>4. InLine("ARM")' => Claimed'
      BY <2>2, <2>3 DEF TorqueInv, LineInOrder
    <2>5. InLine("SHADOW")' => ~InLine("ARM")' /\ ~Energised'
      BY <1>2, <1>4, <2>3 DEF TorqueInv, LineInOrder
    <2>6. Energised' => Claimed'
      BY <1>2, <1>4, <2>2 DEF TorqueInv, LineInOrder
    <2> QED
      BY <1>4, <2>2, <2>4, <2>5, <2>6 DEF TorqueInv, LineInOrder
  <1> QED
    BY <1>1, <1>5, <1>6 DEF Serves, Replies

\* The firmware alone only removes torque.
LEMMA TorqueFirmware ==
    ASSUME TorqueInv, Firmware
    PROVE  TorqueInv'
  <1>1. UNCHANGED <<ad, armed, asked, op, step, line>>
    BY DEF Firmware, host, session, call
  <1>2. CallsInOrder' /\ (Claimed => Claimed')
    BY <1>1 DEF TorqueInv, CallsInOrder, Preparing, Claimed
  <1>3. Energised' => Energised /\ output' = output
    <2>1. CASE UNCHANGED <<torque, output>>
      BY <2>1 DEF Energised
    <2>2. CASE \E t \in BOOLEAN, outcome \in Outcomes : Guards(t, outcome)
      <3>1. PICK t \in BOOLEAN, outcome \in Outcomes : Guards(t, outcome)
        BY <2>2
      <3>2. Perform(outcome) \/ UNCHANGED arms
        BY <3>1 DEF Guards
      <3>3. Perform(outcome) => ~Energised'
        BY DEF Perform, StopOutcome, Outcomes, Removed, Energised
      <3> QED
        BY <2>1, <3>2, <3>3 DEF arms
    <2>3. CASE ControlInterrupt \/ DispatchEnds \/ Elapse
      BY <2>1, <2>3 DEF ControlInterrupt, DispatchEnds, Elapse, arms
    <2>4. CASE TrackOff \/ TrackFault
      BY <2>1, <2>4 DEF TrackOff, TrackFault, Tracked, arms
    <2>5. CASE \E polled \in Polled : TrackRequestFails(polled) \/ TrackPair(polled)
      BY <2>1, <2>5 DEF TrackRequestFails, TrackPair, arms
    <2>6. CASE ExecIdle \/ ExecUnready \/ ExecFails \/ ExecLaunch
      BY <2>1, <2>6 DEF ExecIdle, ExecUnready, ExecFails, ExecLaunch, Executed, arms
    <2> QED
      BY <2>2, <2>3, <2>4, <2>5, <2>6 DEF Firmware, Service
  <1>4. LineInOrder'
    BY <1>1, <1>2, <1>3, LineKept DEF TorqueInv, InLine
  <1> QED
    BY <1>2, <1>3, <1>4 DEF TorqueInv

\* The watchdog has seen to the arms of a process that ended before the next one speaks.
LEMMA TorqueProcess ==
    ASSUME PromptRestart = FALSE, TorqueInv, Crash \/ Restart
    PROVE  TorqueInv'
  <1>1. (Energised' <=> Energised) /\ output' = output
    BY DEF Crash, Restart, vars, Energised
  <1>2. CASE Crash
    <2>1. /\ ad' = "DOWN" /\ op' = "IDLE" /\ line' = line /\ ~armed' /\ asked' = asked
      BY <1>2 DEF Crash, Rest
    <2>2. CallsInOrder' /\ Claimed'
      BY <2>1 DEF CallsInOrder, Preparing, Claimed, Ops
    <2>3. LineInOrder'
      BY <1>1, <2>1, <2>2, LineKept DEF TorqueInv, InLine
    <2> QED
      BY <1>1, <2>2, <2>3 DEF TorqueInv
  <1>3. CASE Restart
    <2>1. /\ ad = "DOWN" /\ ad' = "NEW" /\ armed' = armed /\ ~asked' /\ op' = op
          /\ step' = step /\ line = <<>> /\ line' = line
      BY <1>3 DEF Restart, call
    <2>2. ~output
      BY <1>3 DEF Restart, LongSilence, WatchdogExpired
    <2>3. op = "IDLE"
      BY <2>1 DEF TorqueInv, CallsInOrder
    <2>4. CallsInOrder'
      BY <2>1, <2>3 DEF TorqueInv, CallsInOrder, Preparing, Ops
    <2>5. LineInOrder'
      BY <2>1 DEF LineInOrder, InLine
    <2> QED
      BY <1>1, <2>2, <2>4, <2>5 DEF TorqueInv
  <1> QED
    BY <1>2, <1>3

LEMMA TorqueInit == SInit => TorqueInv
  <1> SUFFICES ASSUME SInit PROVE TorqueInv
    OBVIOUS
  <1>1. /\ ad = "NEW" /\ ~armed /\ ~asked /\ op = "IDLE" /\ line = <<>>
        /\ torque = AllOff
    BY DEF SInit, Init
  <1>2. ~Energised
    BY <1>1 DEF Energised, AllOff
  <1>3. \A x : ~InLine(x)
    BY <1>1 DEF InLine
  <1> QED
    BY <1>1, <1>2, <1>3 DEF TorqueInv, CallsInOrder, LineInOrder, Preparing, Ops

LEMMA ClaimStep ==
    ASSUME PromptRestart = FALSE, SessionInv, TorqueInv, [SNext]_svars
    PROVE  TorqueInv'
  <1>1. CASE UNCHANGED svars
    BY <1>1 DEF svars, vars, host, session, call, TorqueInv, CallsInOrder, LineInOrder,
       Preparing, Claimed, InLine, Energised
  <1>2. CASE SNext
    BY <1>2, TorqueCall, TorqueTimeout, TorqueLoss, TorqueServe, TorqueFirmware, TorqueProcess
    DEF SNext
  <1> QED
    BY <1>1, <1>2

\* Unless a new process speaks before the watchdog has seen the end of the last: while
\* an arm may be energised a session answers for it, by a failure that stops the arms
\* or by a stop it has sent, whatever is lost, late or left in the line.
THEOREM TorqueClaimSound ==
    ASSUME PromptRestart = FALSE
    PROVE  SSpec => []TorqueIsClaimed
  <1>1. SInit => SessionInv /\ TorqueInv
    BY InitSession, TorqueInit
  <1>2. SessionInv /\ TorqueInv /\ [SNext]_svars => (SessionInv /\ TorqueInv)'
    BY SessionStep, ClaimStep
  <1>3. TorqueInv => TorqueIsClaimed
    BY DEF TorqueInv, Claimed, TorqueIsClaimed
  <1> QED
    BY <1>1, <1>2, <1>3, PTL DEF SSpec

-----------------------------------------------------------------------------
(* The order of calls and requests: what may be in the line, and who is armed *)

Live == ad \in {"NEW", "READY", "ACTIVE"}

\* In the line of a session that can still stream are reads of feedback it has given up,
\* and the request it waits for.
OnlyReadsStray ==
    Live => \A i \in DOMAIN line :
        \/ line[i] = "FEEDBACK"
        \/ i = Len(line) /\ op # "IDLE" /\ ~lost /\ line[i] = Script[op][step]

\* A stream is that of an armed session, and outlives it only behind a stop.
ArmedInOrder ==
    /\ ad = "ACTIVE" => armed
    /\ op = "start" /\ step > 2 => armed
    /\ op = "resume" => armed
    /\ op \in {"append", "pump", "poll"} => ad = "ACTIVE"
    /\ ad = "STOPPED" => asked
    /\ InLine("BATCH") /\ ad \in {"FAULTED", "STOPPED"} => asked
    /\ done => op = "poll" /\ step > 2

OrderInv == OnlyReadsStray /\ ArmedInOrder

\* Where the requests that make or end a stream are among the requests of a call.
LEMMA StreamRequests ==
    ASSUME NEW o \in Ops, NEW n \in 1..Len(Script[o])
    PROVE  /\ Script[o][n] = "BATCH" =>
                 o \in {"start", "resume", "append", "pump"} /\ (o = "start" => n > 2)
           /\ Script[o][n] = "OPEN" => o \in {"start", "resume"} /\ n # Len(Script[o])
           /\ Script[o][n] = "EXECUTOR" => o = "poll" /\ n = 2
           /\ o = "poll" => Len(Script[o]) = 7 /\ (n = 6 => Script[o][n] = "TRACKING")
                            /\ (n = 7 => Script[o][n] = "HEARTBEAT")
           /\ o = "feedback" => Script[o][n] = "FEEDBACK"
           /\ o = "start" => Len(Script[o]) = 8 /\ (n = 2 <=> Script[o][n] = "SHADOW")
           /\ o \in {"prepare", "refresh"} => (n = Len(Script[o]) <=> Script[o][n] = "SHADOW")
  <1>1. CASE o = "prepare"
    BY <1>1 DEF Script
  <1>2. CASE o = "refresh"
    BY <1>2 DEF Script
  <1>3. CASE o = "start"
    BY <1>3 DEF Script
  <1>4. CASE o = "resume"
    BY <1>4 DEF Script
  <1>5. CASE o = "append"
    BY <1>5 DEF Script
  <1>6. CASE o = "pump"
    BY <1>6 DEF Script
  <1>7. CASE o = "poll"
    BY <1>7 DEF Script
  <1>8. CASE o = "keepalive"
    BY <1>8 DEF Script
  <1>9. CASE o = "feedback"
    BY <1>9 DEF Script
  <1>10. CASE o = "stop"
    BY <1>10 DEF Script
  <1>11. CASE o = "fault"
    BY <1>11 DEF Script
  <1> QED
    BY <1>1, <1>2, <1>3, <1>4, <1>5, <1>6, <1>7, <1>8, <1>9, <1>10, <1>11 DEF Ops

\* What is served of a live session is a read, or what it waits for.
LEMMA LiveRequest ==
    ASSUME SessionInv, OnlyReadsStray, Live, NEW r, InLine(r), r # "FEEDBACK"
    PROVE  /\ op \in Ops /\ op # "IDLE" /\ ~lost /\ step \in 1..Len(Script[op])
           /\ r = Script[op][step]
           /\ r = Head(line) => Awaited
  <1>1. PICK i \in DOMAIN line : line[i] = r
    BY DEF InLine
  <1>2. i = Len(line) /\ op # "IDLE" /\ ~lost /\ r = Script[op][step]
    BY <1>1 DEF OnlyReadsStray
  <1>3. op \in Ops /\ step \in 1..Len(Script[op]) /\ line \in Seq(Requests)
    BY <1>2 DEF SessionInv, CallTypeOK
  <1>4. r = Head(line) => Len(line) = 1
    <2> SUFFICES ASSUME r = Head(line), Len(line) # 1 PROVE FALSE
      OBVIOUS
    <2>1. 1 \in DOMAIN line /\ line[1] = r /\ 1 # Len(line)
      BY <1>1, <1>3
    <2> QED
      BY <2>1 DEF OnlyReadsStray
  <1> QED
    BY <1>2, <1>3, <1>4 DEF Awaited

\* A call that waits for a batch is one of an armed session.
LEMMA BatchIsArmed ==
    ASSUME SessionInv, ArmedInOrder, AtBatch
    PROVE  armed
  <1>1. op \in Ops /\ step \in 1..Len(Script[op]) /\ Script[op][step] = "BATCH"
    BY DEF AtBatch, SessionInv, CallTypeOK
  <1> QED
    BY <1>1, StreamRequests DEF ArmedInOrder

\* A request that is sent in an empty line is all there is in it.
LEMMA SendOrder ==
    ASSUME NEW o \in Ops, NEW n \in 1..Len(Script[o]), NEW queue \in Seq(Requests),
           Send(o, n, queue), Live' => \A i \in DOMAIN queue : queue[i] = "FEEDBACK"
    PROVE  OnlyReadsStray'
  <1>1. op' = o /\ step' = n /\ line' = Append(queue, Script[o][n]) /\ ~lost'
    BY DEF Send
  <1>2. "IDLE" \notin Ops
    BY DEF Ops
  <1>3. \A i \in DOMAIN line' :
           \/ i = Len(line') /\ line'[i] = Script[o][n]
           \/ i \in DOMAIN queue /\ line'[i] = queue[i]
    BY <1>1
  <1> QED
    BY <1>1, <1>2, <1>3 DEF OnlyReadsStray

LEMMA OrderCall ==
    ASSUME SessionInv, TorqueInv, OrderInv, Calls
    PROVE  OrderInv'
  <1>1. op = "IDLE" /\ ~done /\ done' = done /\ UNCHANGED <<ad, armed>> /\ (asked => asked')
    BY DEF Calls, Prepare, Refresh, Start, Extend, Poll, Keepalive, Feedback, Stop, Claim,
       Begin, session, call, OrderInv, ArmedInOrder
  <1>2. line \in Seq(Requests) /\ (Live => \A i \in DOMAIN line : line[i] = "FEEDBACK")
    BY <1>1 DEF OrderInv, OnlyReadsStray, SessionInv, CallTypeOK
  <1>3. CASE Claim
    BY <1>1, <1>3 DEF Claim, call, OrderInv, OnlyReadsStray, ArmedInOrder, Live, InLine
  <1>4. ASSUME NEW o \in Ops, Send(o, 1, line), o = "resume" => armed,
               o \in {"append", "pump", "poll"} => ad = "ACTIVE"
        PROVE  OrderInv'
    <2>1. 1 \in 1..Len(Script[o]) /\ Script[o][1] # "BATCH"
      BY ScriptFacts
    <2>2. OnlyReadsStray'
      BY <1>1, <1>2, <1>4, <2>1, SendOrder DEF Live
    <2>3. op' = o /\ step' = 1
      BY <1>4 DEF Send
    <2>4. InLine("BATCH")' => InLine("BATCH")
      <3>1. InLine("BATCH")' =>
                "BATCH" = Script[o][1] \/ \E i \in DOMAIN line : line[i] = "BATCH"
        BY <1>2, <1>4, <2>1, SendLine
      <3>2. (\E i \in DOMAIN line : line[i] = "BATCH") => InLine("BATCH")
        BY DEF InLine
      <3> QED
        BY <2>1, <3>1, <3>2
    <2>5. ArmedInOrder'
      BY <1>1, <1>4, <2>3, <2>4 DEF OrderInv, ArmedInOrder
    <2> QED
      BY <2>2, <2>5 DEF OrderInv
  <1>5. \/ Claim
        \/ \E o \in Ops : /\ Send(o, 1, line)
                          /\ o = "resume" => armed
                          /\ o \in {"append", "pump", "poll"} => ad = "ACTIVE"
    BY DEF Calls, Prepare, Refresh, Start, Extend, Poll, Keepalive, Feedback, Stop, Begin, Ops
  <1> QED
    BY <1>3, <1>4, <1>5

\* A call that fails with a batch on its way has asked for the stop.
LEMMA OrderFault ==
    ASSUME SessionInv, TorqueInv, OrderInv, op # "IDLE",
           NEW queue \in Seq(Requests), Fault(queue),
           (\E i \in DOMAIN queue : queue[i] = "BATCH") => InLine("BATCH")
    PROVE  OrderInv'
  <1>1. ad' = "FAULTED" /\ ~done' /\ (asked => asked')
    BY DEF Fault
  <1>2. CASE armed /\ op # "fault"
    <2>1. Send("fault", 1, queue) /\ op' = "fault" /\ asked'
      BY <1>2 DEF Fault, Send
    <2> QED
      BY <1>1, <2>1 DEF OrderInv, OnlyReadsStray, ArmedInOrder, Live
  <1>3. CASE ~(armed /\ op # "fault")
    <2>1. op' = "IDLE" /\ line' = queue
      BY <1>3 DEF Fault, Rest
    <2>2. InLine("BATCH")' => asked
      <3> SUFFICES ASSUME InLine("BATCH")' PROVE asked
        OBVIOUS
      <3>1. InLine("BATCH")
        BY <2>1 DEF InLine
      <3>2. CASE Live
        <4>1. AtBatch
          BY <3>1, <3>2, LiveRequest DEF OrderInv, AtBatch
        <4>2. armed
          BY <4>1, BatchIsArmed DEF OrderInv
        <4> QED
          BY <1>3, <4>2 DEF TorqueInv, CallsInOrder
      <3>3. CASE ~Live
        <4>1. op \in Ops
          BY DEF SessionInv, CallTypeOK
        <4> QED
          BY <3>3, <4>1 DEF TorqueInv, CallsInOrder, Live
      <3> QED
        BY <3>2, <3>3
    <2> QED
      BY <1>1, <2>1, <2>2 DEF OrderInv, OnlyReadsStray, ArmedInOrder, Live
  <1> QED
    BY <1>2, <1>3

LEMMA OrderTimeout ==
    ASSUME SessionInv, TorqueInv, OrderInv, TimesOut
    PROVE  OrderInv'
  <1>1. op # "IDLE" /\ Expire(line) /\ line \in Seq(Requests)
    BY DEF TimesOut, SessionInv, CallTypeOK
  <1>2. CASE Tolerated
    <2>1. /\ op = "feedback" /\ op' = "IDLE" /\ line' = line /\ ~done'
          /\ UNCHANGED <<ad, armed, asked>>
      BY <1>1, <1>2 DEF Expire, Rest, Tolerated
    <2>2. Script[op][step] = "FEEDBACK"
      BY <1>1, <2>1, StreamRequests DEF SessionInv, CallTypeOK, Ops
    <2> QED
      BY <2>1, <2>2 DEF OrderInv, OnlyReadsStray, ArmedInOrder, Live, InLine
  <1>3. CASE ~Tolerated
    BY <1>1, <1>3, OrderFault DEF Expire, InLine
  <1> QED
    BY <1>2, <1>3

LEMMA OrderLoss ==
    ASSUME SessionInv, OrderInv, Lose \/ LineFault
    PROVE  OrderInv'
  <1>1. UNCHANGED <<ad, armed, asked, op, step, done>> /\ line \in Seq(Requests)
    BY DEF Lose, LineFault, session, SessionInv, CallTypeOK
  <1>2. CASE LineFault
    <2>1. line' = <<>>
      BY <1>2 DEF LineFault
    <2> QED
      BY <1>1, <2>1 DEF OrderInv, OnlyReadsStray, ArmedInOrder, Live, InLine
  <1>3. CASE Lose
    <2>1. \A i \in DOMAIN line' : i \in DOMAIN line /\ i # Len(line) /\ line'[i] = line[i]
      BY <1>1, <1>3 DEF Lose
    <2>2. OnlyReadsStray'
      BY <1>1, <2>1 DEF OrderInv, OnlyReadsStray, Live
    <2>3. InLine("BATCH")' => InLine("BATCH")
      BY <2>1 DEF InLine
    <2> QED
      BY <1>1, <2>2, <2>3 DEF OrderInv, ArmedInOrder
  <1> QED
    BY <1>2, <1>3

\* A request that is served and not answered in time.
LEMMA OrderUnanswered ==
    ASSUME SessionInv, OrderInv, line # <<>>, line' = Tail(line), lost' = (lost \/ Awaited),
           UNCHANGED <<ad, armed, asked, op, step, done>>
    PROVE  OrderInv'
  <1>1. /\ line \in Seq(Requests) /\ Len(line') = Len(line) - 1 /\ Len(line) \in Nat \ {0}
        /\ \A i \in DOMAIN line' : i + 1 \in DOMAIN line /\ line'[i] = line[i + 1] /\ i \in Nat
    BY DEF SessionInv, CallTypeOK
  <1>2. lost' <=> lost \/ Awaited
    OBVIOUS
  <1>3. ASSUME Live', NEW i \in DOMAIN line', line'[i] # "FEEDBACK"
        PROVE  i = Len(line') /\ op' # "IDLE" /\ ~lost' /\ line'[i] = Script[op'][step']
    <2>1. i + 1 = Len(line) /\ op # "IDLE" /\ ~lost /\ line[i + 1] = Script[op][step]
      BY <1>1, <1>3 DEF OrderInv, OnlyReadsStray, Live
    <2>2. i \in 1..Len(line')
      BY <1>1, <1>3
    <2>3. i = Len(line') /\ Len(line) # 1
      BY <1>1, <2>1, <2>2
    <2>4. ~Awaited
      BY <2>3 DEF Awaited
    <2> QED
      BY <1>1, <1>2, <2>1, <2>3, <2>4
  <1>4. OnlyReadsStray'
    BY <1>3 DEF OnlyReadsStray
  <1>5. InLine("BATCH")' => InLine("BATCH")
    BY <1>1, TailLine
  <1> QED
    BY <1>4, <1>5 DEF OrderInv, ArmedInOrder

\* An answer in time.
LEMMA OrderAnswered ==
    ASSUME SessionInv, TorqueInv, OrderInv, NEW r, NEW ok \in BOOLEAN, r = Head(line),
           Awaited, Answered(r, ok)
    PROVE  OrderInv'
  <1>1. /\ op \in Ops /\ step \in 1..Len(Script[op]) /\ r = Script[op][step]
        /\ op # "IDLE"
    BY DEF SessionInv, CallTypeOK, LastIsAwaited, Awaited
  <1>2. <<>> \in Seq(Requests) /\ \A x : ~ \E i \in DOMAIN <<>> : <<>>[i] = x
    OBVIOUS
  <1>3. op \notin {"stop", "fault"} => Live
    BY <1>1 DEF TorqueInv, CallsInOrder, Live
  <1>4. CASE Fault(<<>>)
    BY <1>1, <1>2, <1>4, OrderFault
  <1>5. CASE Advance(r, ok)
    <2>1. /\ step < Len(Script[op]) /\ Send(op, Following(r), <<>>)
          /\ UNCHANGED <<ad, asked>> /\ (armed' <=> armed \/ Arms(r)) /\ op' = op
          /\ step' = Following(r) /\ (done' <=> Done(r))
      BY <1>5 DEF Advance, Send
    <2>2. PICK n \in 1..Len(Script[op]) : n = Following(r) /\ n \in {step + 1, step + 2}
      BY <1>1, <2>1, FollowingFacts DEF SessionInv, Following
    <2>3. Send(op, n, <<>>) /\ step' = n
      BY <2>1, <2>2
    <2>4. OnlyReadsStray'
      BY <1>1, <1>2, <2>3, SendOrder
    <2>5. op = "start" /\ n > 2 => armed'
      <3> SUFFICES ASSUME op = "start", n > 2 PROVE armed'
        OBVIOUS
      <3>1. CASE step > 2
        BY <2>1, <3>1 DEF OrderInv, ArmedInOrder
      <3>2. CASE step <= 2
        <4>1. n = step + 1
          BY <2>2 DEF Following
        <4>2. step = 2
          BY <1>1, <3>2, <4>1
        <4>3. r = "SHADOW"
          BY <1>1, <4>2, StreamRequests
        <4> QED
          BY <2>1, <4>3 DEF Arms
      <3> QED
        BY <1>1, <3>1, <3>2
    <2>6. done' => op = "poll" /\ n > 2
      <3>1. CASE done
        <4>1. op = "poll" /\ step > 2
          BY <3>1 DEF OrderInv, ArmedInOrder
        <4> QED
          BY <1>1, <2>2, <4>1
      <3>2. CASE r = "EXECUTOR"
        <4>1. op = "poll" /\ step = 2
          <5>1. Script[op][step] = "EXECUTOR"
            BY <1>1, <3>2
          <5> QED
            BY <1>1, <5>1, StreamRequests
        <4> QED
          BY <2>2, <4>1
      <3> QED
        BY <2>1, <3>1, <3>2 DEF Done
    <2>7. InLine("BATCH")' => op \notin {"stop", "fault"}
      <3> SUFFICES ASSUME NEW x, x = "BATCH", InLine(x)' PROVE op \notin {"stop", "fault"}
        OBVIOUS
      <3>1. x = Script[op][n] \/ \E i \in DOMAIN <<>> : <<>>[i] = x
        BY <1>1, <1>2, <2>2, <2>3, SendLine
      <3>2. Script[op][n] = "BATCH"
        <4>1. ~ \E i \in DOMAIN <<>> : <<>>[i] = x
          BY <1>2
        <4> QED
          BY <3>1, <4>1
      <3> QED
        BY <1>1, <3>2, StreamRequests
    <2>8. ArmedInOrder'
      BY <1>3, <2>1, <2>3, <2>5, <2>6, <2>7 DEF OrderInv, ArmedInOrder, Live
    <2> QED
      BY <2>4, <2>8 DEF OrderInv
  <1>6. CASE Pumped(r)
    <2>1. /\ op = "pump" /\ Send("poll", 1, <<>>) /\ UNCHANGED <<ad, armed, asked, done>>
          /\ op' = "poll" /\ step' = 1
      BY <1>6 DEF Pumped, Send, session
    <2>2. "poll" \in Ops /\ 1 \in 1..Len(Script["poll"])
      BY DEF Ops, Script
    <2>3. OnlyReadsStray'
      BY <1>2, <2>1, <2>2, SendOrder
    <2>4. ~done /\ ad = "ACTIVE" /\ armed
      BY <2>1 DEF OrderInv, ArmedInOrder
    <2>5. ArmedInOrder'
      BY <2>1, <2>4 DEF ArmedInOrder
    <2> QED
      BY <2>3, <2>5 DEF OrderInv
  <1>7. CASE /\ Rest(<<>>) /\ asked' = asked /\ ~done'
             /\ ad' = "ACTIVE" => armed'
             /\ ad' = "STOPPED" => ad = "STOPPED" \/ op = "stop"
    <2>1. op' = "IDLE" /\ line' = <<>> /\ ~InLine("BATCH")'
      BY <1>7 DEF Rest, InLine
    <2>2. ad' = "STOPPED" => asked'
      BY <1>7 DEF OrderInv, ArmedInOrder, TorqueInv, CallsInOrder
    <2>3. OnlyReadsStray'
      BY <2>1 DEF OnlyReadsStray
    <2>4. ArmedInOrder'
      BY <1>7, <2>1, <2>2 DEF ArmedInOrder
    <2> QED
      BY <2>3, <2>4 DEF OrderInv
  <1>8. CASE Rejected(r) /\ ~Fault(<<>>)
    <2>1. op = "start" /\ Rest(<<>>) /\ UNCHANGED <<session, done, asked>>
      BY <1>8 DEF Rejected
    <2>2. ~done /\ (ad = "ACTIVE" => armed)
      BY <2>1 DEF OrderInv, ArmedInOrder
    <2> QED
      BY <1>7, <2>1, <2>2 DEF session
  <1>9. CASE (Prepares(r, ok) \/ Polls(r, ok)) /\ ~Fault(<<>>)
    <2>1. Rest(<<>>) /\ asked' = asked /\ ~done' /\ armed' = armed /\ ad' \in {ad, "READY"}
      BY <1>9 DEF Prepares, Polls, Returns
    <2>2. ad = "ACTIVE" => armed
      BY DEF OrderInv, ArmedInOrder
    <2> QED
      BY <1>7, <2>1, <2>2
  <1>10. CASE Stops
    <2>1. Rest(<<>>) /\ asked' = asked /\ ~done' /\ op \in {"stop", "fault"}
      BY <1>10 DEF Stops, Returns
    <2>2. ad' = IF op = "stop" THEN "STOPPED" ELSE ad
      BY <1>10 DEF Stops
    <2>3. op = "fault" => ad # "ACTIVE"
      BY DEF TorqueInv, CallsInOrder
    <2> QED
      BY <1>7, <2>1, <2>2, <2>3
  <1>11. CASE step = Len(Script[op]) /\ Completes
    <2>1. /\ Rest(<<>>) /\ asked' = asked /\ ~done' /\ armed' = armed
          /\ ad' = IF op \in {"start", "resume"} THEN "ACTIVE" ELSE ad
      BY <1>11 DEF Completes, Returns
    <2>2. op = "start" => step = 8
      BY <1>1, <1>11, StreamRequests
    <2>3. op \in {"start", "resume"} => armed
      <3>1. op = "start" => step > 2
        BY <2>2
      <3> QED
        BY <3>1 DEF OrderInv, ArmedInOrder
    <2>4. ad = "ACTIVE" => armed
      BY DEF OrderInv, ArmedInOrder
    <2> QED
      BY <1>7, <2>1, <2>3, <2>4
  <1> QED
    BY <1>4, <1>5, <1>6, <1>8, <1>9, <1>10, <1>11 DEF Answered

LEMMA OrderServe ==
    ASSUME SessionInv, TorqueInv, OrderInv, NEW ok \in BOOLEAN, line # <<>>,
           Serves(Head(line), ok)
    PROVE  OrderInv'
  <1>1. PICK r : r = Head(line)
    OBVIOUS
  <1>2. CASE Awaited /\ Answered(r, ok)
    BY <1>1, <1>2, OrderAnswered
  <1>3. CASE /\ line' = Tail(line)
             /\ lost' = (lost \/ Awaited)
             /\ UNCHANGED <<session, op, step, unfit, done, finite, rest, asked>>
    BY <1>3, OrderUnanswered DEF session
  <1> QED
    BY <1>1, <1>2, <1>3 DEF Serves, Replies

LEMMA OrderProcess ==
    ASSUME TorqueInv, OrderInv, Crash \/ Restart
    PROVE  OrderInv'
  <1>1. CASE Crash
    <2>1. ad' = "DOWN" /\ op' = "IDLE" /\ ~done'
      BY <1>1 DEF Crash, Rest
    <2> QED
      BY <2>1 DEF OrderInv, OnlyReadsStray, ArmedInOrder, Live
  <1>2. CASE Restart
    <2>1. /\ ad = "DOWN" /\ ad' = "NEW" /\ UNCHANGED <<op, step, done>>
          /\ line' = <<>>
      BY <1>2 DEF Restart, call
    <2>2. op = "IDLE"
      BY <2>1 DEF TorqueInv, CallsInOrder
    <2> QED
      BY <2>1, <2>2 DEF OrderInv, OnlyReadsStray, ArmedInOrder
  <1> QED
    BY <1>1, <1>2

LEMMA OrderStep ==
    ASSUME SessionInv, TorqueInv, OrderInv, [SNext]_svars
    PROVE  OrderInv'
  <1>1. CASE UNCHANGED host
    BY <1>1 DEF host, session, call, OrderInv, OnlyReadsStray, ArmedInOrder, Live, InLine
  <1>2. CASE SNext
    BY <1>1, <1>2, OrderCall, OrderTimeout, OrderLoss, OrderServe, OrderProcess
    DEF SNext, Firmware
  <1> QED
    BY <1>1, <1>2 DEF svars

LEMMA OrderInit == SInit => OrderInv
  <1> SUFFICES ASSUME SInit PROVE OrderInv
    OBVIOUS
  <1>1. ad = "NEW" /\ op = "IDLE" /\ line = <<>> /\ ~done
    BY DEF SInit
  <1> QED
    BY <1>1 DEF OrderInv, OnlyReadsStray, ArmedInOrder

-----------------------------------------------------------------------------
(* The firmware under the session: Supervisor's invariant, without the assumption  *)
(* that the host is orderly                                                        *)

\* What the executor, the telemetry and the control ticks leave to the next request.
StreamKnown ==
    /\ Busy => configured
    /\ clockActive /\ ~configured => event = "MISSED"
    /\ clockActive => stopLatched \/ (Busy /\ ~settle)
    /\ exec = "SUCCEEDED" => stopLatched \/ anchorReady \/ (settle /\ Busy)

\* What the firmware does of a request: no stop that was latched is cleared, no bring-up
\* of an arm by itself, and no preparation of arms that are energised.
ServedFrame ==
    \/ Quiet \/ Heartbeat \/ ArmConfigures \/ ArmAgain \/ Enable \/ Open
    \/ \E b \in BOOLEAN : Batch(TRUE, b)
    \/ \E outcome \in Outcomes :
          \/ ArmFails(outcome) \/ SafeStop(outcome)
          \/ \E readable \in BOOLEAN :
                ~Energised /\ ~clockActive /\ PrepareShadow(outcome, readable)

FirmwareStep ==
    \/ ServedFrame \/ ReceiveFault \/ Service
    \/ ControlInterrupt \/ DispatchEnds \/ Elapse
    \/ UNCHANGED vars

LEMMA ServedIsFrame ==
    ASSUME NEW r \in Requests, NEW ok \in BOOLEAN, Serves(r, ok),
           r = "SHADOW" => ~Energised /\ ~clockActive
    PROVE  ServedFrame
  <1>1. r # "BATCH" => Does(r, ok)
    BY DEF Serves
  <1>2. CASE r = "SHADOW"
    <2>1. Does("SHADOW", ok)
      BY <1>1, <1>2
    <2> QED
      BY <1>2, <2>1 DEF Does, Reads, ServedFrame
  <1>3. CASE r = "ARM"
    <2>1. Does("ARM", ok)
      BY <1>1, <1>3
    <2> QED
      BY <2>1 DEF Does, Reads, ServedFrame
  <1>4. CASE r = "STOP"
    <2>1. Does("STOP", ok)
      BY <1>1, <1>4
    <2> QED
      BY <2>1 DEF Does, Reads, ServedFrame
  <1>5. CASE r = "BATCH"
    BY <1>5 DEF Serves, Admits, ServedFrame
  <1>6. CASE r \notin {"SHADOW", "ARM", "STOP", "BATCH"}
    <2>1. Does(r, ok)
      BY <1>1, <1>6
    <2> QED
      BY <1>6, <2>1 DEF Does, Requests, Reads, ServedFrame
  <1> QED
    BY <1>2, <1>3, <1>4, <1>5, <1>6

\* Sessions that may prepare: they are ready and not armed, or about to be, or have left a
\* preparation in the line.
Unserved ==
    \/ op = "refresh" \/ (op = "prepare" /\ step >= 2)
    \/ ad = "READY" /\ ~armed /\ ~asked
    \/ InLine("SHADOW")

\* They find no stream that is served.
NoneServed == Unserved => ~clockActive

LEMMA SessionFirmware ==
    ASSUME SessionInv, TorqueInv, NoneServed, [SNext]_svars
    PROVE  FirmwareStep
  <1>1. CASE \E ok \in BOOLEAN : line # <<>> /\ Serves(Head(line), ok)
    <2>1. PICK ok \in BOOLEAN : line # <<>> /\ Serves(Head(line), ok)
      BY <1>1
    <2>2. PICK r \in Requests : r = Head(line)
      BY <2>1 DEF SessionInv, CallTypeOK
    <2>3. InLine(r)
      BY <2>1, <2>2 DEF InLine, SessionInv, CallTypeOK
    <2>4. r = "SHADOW" => ~Energised /\ ~clockActive
      BY <2>3 DEF TorqueInv, LineInOrder, NoneServed, Unserved
    <2> QED
      BY <2>1, <2>2, <2>4, ServedIsFrame DEF FirmwareStep
  <1>2. CASE LineFault \/ Firmware
    BY <1>2 DEF LineFault, Firmware, FirmwareStep
  <1>3. CASE Calls \/ TimesOut \/ Lose \/ Crash \/ Restart \/ UNCHANGED svars
    BY <1>3 DEF Calls, Prepare, Refresh, Start, Extend, Poll, Keepalive, Feedback, Stop, Claim,
       Begin, TimesOut, Lose, Crash, Restart, svars, FirmwareStep
  <1> QED
    BY <1>1, <1>2, <1>3 DEF SNext

\* The pair is configured with both arms on, and marked.
LEMMA ConfiguredIsEnergised ==
    ASSUME IInv, configured
    PROVE  Energised /\ output
  BY DEF IInv, TorqueMarked, Energised, AllOn

\* So what is served is what an orderly host may send, or changes nothing.
LEMMA FirmwareIsOrderly ==
    ASSUME IInv, StreamKnown, FirmwareStep
    PROVE  Quiet \/ [OrderlyNext]_vars
  <1>1. ~Energised => ~Busy
    BY ConfiguredIsEnergised DEF StreamKnown
  <1>2. ServedFrame => Quiet \/ OrderlyFrame
    BY <1>1 DEF ServedFrame, OrderlyFrame
  <1> QED
    BY <1>2 DEF FirmwareStep, OrderlyNext

\* A request that changes nothing is still a frame of its pass.
LEMMA QuietStep ==
    ASSUME IInv, Quiet
    PROVE  IInv'
  <1>1. Frame /\ UNCHANGED <<safety, age, grace, stopLatched, arms, requests, settling,
                             anchorReady, exec, telemetry, dispatch, event>>
    BY DEF Quiet
  <1>2. UNCHANGED <<safety, age, grace, stopLatched, configured, output, torque, clockActive,
                    startPending, stopPending, settle, settleAge, pairs, anchorReady, exec,
                    tracking, fresh, dispatch, event>>
    BY <1>1 DEF arms, requests, settling, telemetry
  <1>3. TypeOK /\ frames < MaxFrames /\ frames' = frames + 1 /\ phase' = "HOST"
    BY <1>1, FrameFacts DEF IInv, Frame
  <1>4. frames \in 0..MaxFrames
    BY <1>3 DEF TypeOK
  <1>5. frames' \in 0..MaxFrames
    BY <1>3, <1>4, SupervisorAssumption, SMT
  <1>6. TypeOK /\ phase' = "HOST" /\ frames' \in 0..MaxFrames
    BY <1>3, <1>5
  <1>7. TypeOK'
    BY <1>2, <1>6 DEF TypeOK
  <1>8. FaultIsLatched' /\ TorqueMarked' /\ PairsCounted' /\ SafetySound'
    BY <1>2 DEF IInv, FaultIsLatched, TorqueMarked, PairsCounted, SafetySound, S!RequestsMatchState
  <1>9. Relations'
    <2>1. configured' /\ safety'.state = "SAFE_DISABLED" => dispatch' = "FAULTED"
      BY <1>2 DEF IInv, ConfiguredIsArmed
    <2>2. exec' = "RUNNING" /\ ~clockActive' => dispatch' = "FAULTED"
      BY <1>2 DEF IInv, AbandonedStream
    <2>3. clockActive' /\ event' # "MISSED" =>
              \/ safety'.state = "ACTIVE" /\ ~stopLatched' /\ configured'
              \/ stopLatched' /\ output'
              \/ dispatch' = "FAULTED"
      BY <1>2 DEF IInv, StreamMayMove
    <2> QED
      BY <1>1, <1>6, <1>8, <2>1, <2>2, <2>3, AfterFrame
  <1> QED
    BY <1>7, <1>8, <1>9 DEF IInv, Relations

\* A frame: nothing is left to a pair that is not configured, and an open, a stop or a
\* preparation leaves no stream that could still move.
LEMMA KnownFrame ==
    ASSUME IInv, StreamKnown, ServedFrame
    PROVE  StreamKnown'
  <1> USE DEF Busy
  <1>1. TypeOK
    BY DEF IInv
  <1>2. CASE UNCHANGED <<configured, tracking, clockActive, event, stopLatched, settle, exec,
                         anchorReady>>
    BY <1>1, <1>2 DEF StreamKnown
  <1>3. CASE Quiet \/ Heartbeat \/ ArmAgain \/ Enable \/ \E outcome \in Outcomes : ArmFails(outcome)
    <2>1. CASE \E outcome \in Outcomes : ArmFails(outcome)
      BY <1>1, <2>1 DEF ArmFails, StreamKnown, requests, settling, telemetry, Blocked
    <2> QED
      BY <1>2, <1>3, <2>1 DEF Quiet, Heartbeat, ArmAgain, Enable, arms, requests, settling,
         telemetry
  <1>4. CASE ArmConfigures
    BY <1>4 DEF ArmConfigures, StreamKnown, requests, settling, telemetry
  <1>5. CASE Open
    BY <1>5 DEF Open, StreamKnown, arms, telemetry
  <1>6. ASSUME NEW b \in BOOLEAN, Batch(TRUE, b)
        PROVE  StreamKnown'
    BY <1>1, <1>6 DEF Batch, StreamKnown, arms, telemetry
  <1>7. ASSUME NEW outcome \in Outcomes, SafeStop(outcome)
        PROVE  StreamKnown'
    BY <1>1, <1>7 DEF SafeStop, Perform, Blocked, StreamKnown
  <1>8. ASSUME NEW outcome \in Outcomes, NEW readable \in BOOLEAN, ~Energised, ~clockActive,
               PrepareShadow(outcome, readable)
        PROVE  StreamKnown'
    <2>1. ~clockActive /\ ~Busy
      BY <1>8, ConfiguredIsEnergised DEF StreamKnown
    <2> QED
      BY <1>8, <2>1 DEF PrepareShadow, StreamKnown, requests, settling, telemetry
  <1> QED
    BY <1>3, <1>4, <1>5, <1>6, <1>7, <1>8 DEF ServedFrame

\* The service of a pass.
LEMMA KnownService ==
    ASSUME IInv, StreamKnown, Service
    PROVE  StreamKnown'
  <1> USE DEF Busy
  <1>1. ASSUME NEW fault \in BOOLEAN, NEW outcome \in Outcomes, Guards(fault, outcome)
        PROVE  StreamKnown'
    <2>1. CASE Perform(outcome)
      BY <1>1, <2>1 DEF Guards, Perform, Blocked, StreamKnown
    <2>2. CASE ~Perform(outcome)
      <3>1. /\ phase' = "TRACK" /\ (stopLatched => stopLatched')
            /\ UNCHANGED <<arms, requests, settling, telemetry, event, anchorReady, exec>>
        BY <1>1, <2>2 DEF Guards
      <3> QED
        BY <3>1 DEF StreamKnown, arms, requests, settling, telemetry
    <2> QED
      BY <2>1, <2>2
  <1>2. CASE TrackOff
    BY <1>2 DEF TrackOff, Tracked, StreamKnown, arms, requests, settling
  <1>3. CASE TrackFault
    <2>1. exec' = "SUCCEEDED" => exec = "SUCCEEDED"
      BY <1>3 DEF TrackFault
    <2> QED
      BY <1>3, <2>1 DEF TrackFault, Tracked, RequestStop, StreamKnown, arms
  <1>4. ASSUME NEW polled \in Polled, TrackRequestFails(polled)
        PROVE  StreamKnown'
    BY <1>4 DEF TrackRequestFails, RequestStop, StreamKnown, arms
  <1>5. ASSUME NEW polled \in Polled, TrackPair(polled)
        PROVE  StreamKnown'
    <2>1. /\ Busy /\ phase' = "EXEC" /\ configured' = configured /\ event' = event
          /\ exec' = exec
      BY <1>5 DEF TrackPair, arms
    <2>2. polled[1] # "OFF"
      BY <2>1, PolledFacts, <1>5 DEF IInv
    <2>3. CASE RequestStop
      BY <2>1, <2>3 DEF RequestStop, StreamKnown
    <2>4. CASE /\ settle /\ anchorReady' /\ tracking' = "OFF" /\ settle' = FALSE
               /\ UNCHANGED <<stopLatched, requests>>
      BY <2>1, <2>4 DEF StreamKnown, requests
    <2>5. CASE /\ tracking' = IF MayRequest(polled) THEN "PENDING" ELSE polled[1]
               /\ UNCHANGED <<stopLatched, requests, settle, anchorReady>>
      BY <2>1, <2>2, <2>5 DEF StreamKnown, requests
    <2> QED
      BY <1>5, <2>3, <2>4, <2>5 DEF TrackPair
  <1>6. CASE ExecIdle
    <2>1. clockActive => event # "MISSED"
      BY <1>6 DEF ExecIdle
    <2> QED
      BY <1>6, <2>1 DEF ExecIdle, Executed, StreamKnown, arms, requests, settling, telemetry
  <1>7. CASE ExecUnready \/ ExecFails
    BY <1>7 DEF ExecUnready, ExecFails, Executed, RequestStop, StreamKnown, arms, telemetry
  <1>8. CASE ExecLaunch
    <2>1. clockActive /\ event # "MISSED"
      BY <1>8 DEF ExecLaunch, TakeEvent, Unready
    <2>2. configured /\ (stopLatched \/ (Busy /\ ~settle))
      BY <2>1 DEF StreamKnown
    <2>3. UNCHANGED <<configured, tracking, stopLatched>>
      BY <1>8 DEF ExecLaunch, Executed, arms, telemetry
    <2>4. CASE exec' = "SUCCEEDED"
      BY <1>8, <2>2, <2>3, <2>4 DEF ExecLaunch, StreamKnown
    <2>5. CASE exec' # "SUCCEEDED"
      BY <1>8, <2>2, <2>3, <2>5 DEF ExecLaunch, StreamKnown, settling
    <2> QED
      BY <2>4, <2>5
  <1> QED
    BY <1>1, <1>2, <1>3, <1>4, <1>5, <1>6, <1>7, <1>8 DEF Service

LEMMA KnownStep ==
    ASSUME IInv, StreamKnown, FirmwareStep
    PROVE  StreamKnown'
  <1> USE DEF Busy
  <1>1. CASE ReceiveFault
    BY <1>1 DEF ReceiveFault, StreamKnown, arms, requests, settling, telemetry
  <1>2. CASE ControlInterrupt \/ DispatchEnds \/ Elapse
    BY <1>2 DEF ControlInterrupt, DispatchEnds, Elapse, StreamKnown, arms, requests, settling,
       telemetry
  <1>3. CASE UNCHANGED vars
    BY <1>3 DEF vars, StreamKnown
  <1> QED
    BY <1>1, <1>2, <1>3, KnownFrame, KnownService DEF FirmwareStep

\* The firmware's invariant and the session's hold together: the session keeps the
\* firmware's host orderly, and the firmware keeps what the session believes of it.
FirmwareInv == IInv /\ StreamKnown

LEMMA FirmwareInvStep ==
    ASSUME SessionInv, TorqueInv, NoneServed, FirmwareInv, [SNext]_svars
    PROVE  FirmwareInv'
  <1>1. FirmwareStep
    BY SessionFirmware
  <1>2. IInv'
    BY <1>1, FirmwareIsOrderly, QuietStep, InvariantStep DEF FirmwareInv
  <1>3. StreamKnown'
    BY <1>1, KnownStep DEF FirmwareInv
  <1> QED
    BY <1>2, <1>3 DEF FirmwareInv

LEMMA FirmwareInvInit == SInit => FirmwareInv
  <1> SUFFICES ASSUME SInit PROVE FirmwareInv
    OBVIOUS
  <1> USE DEF Busy
  <1>1. IInv
    BY InvariantInit DEF SInit
  <1>2. tracking = "OFF" /\ ~clockActive /\ exec = "CLOSED"
    BY DEF SInit, Init
  <1> QED
    BY <1>1, <1>2 DEF FirmwareInv, StreamKnown

\* A stream is served from a batch over a configured pair on.
LEMMA StreamServed ==
    ASSUME FirmwareStep, clockActive'
    PROVE  clockActive \/ configured
  <1>1. CASE ServedFrame
    BY <1>1 DEF ServedFrame, Quiet, Heartbeat, ArmConfigures, ArmAgain, Enable, Open, Batch,
       ArmFails, SafeStop, PrepareShadow, requests
  <1>2. CASE Service
    BY <1>2 DEF Service, Guards, Perform, TrackOff, TrackFault, TrackRequestFails, TrackPair,
       ExecIdle, ExecUnready, ExecFails, ExecLaunch, Tracked, Executed, TakeEvent, RequestStop,
       requests
  <1>3. CASE ReceiveFault \/ ControlInterrupt \/ DispatchEnds \/ Elapse \/ UNCHANGED vars
    BY <1>3 DEF ReceiveFault, ControlInterrupt, DispatchEnds, Elapse, vars, requests
  <1> QED
    BY <1>1, <1>2, <1>3 DEF FirmwareStep

\* Sessions that may prepare have energised no arm.
LEMMA UnservedIsOff ==
    ASSUME TorqueInv, Unserved
    PROVE  ~Energised
  <1>1. CASE op = "refresh" \/ op = "prepare"
    <2>1. Preparing
      BY <1>1 DEF Preparing
    <2>2. ~Claimed
      BY <1>1, <2>1 DEF TorqueInv, CallsInOrder, Claimed
    <2> QED
      BY <2>2 DEF TorqueInv
  <1>2. CASE ad = "READY" /\ ~armed /\ ~asked
    BY <1>2 DEF TorqueInv, Claimed
  <1>3. CASE InLine("SHADOW")
    BY <1>3 DEF TorqueInv, LineInOrder
  <1> QED
    BY <1>1, <1>2, <1>3 DEF Unserved

\* A first request is no preparation.
LEMMA UnservedCall ==
    ASSUME SessionInv, TorqueInv, Calls, Unserved'
    PROVE  Unserved
  <1>1. op = "IDLE" /\ UNCHANGED <<ad, armed>> /\ (asked => asked') /\ line \in Seq(Requests)
    BY DEF Calls, Prepare, Refresh, Start, Extend, Poll, Keepalive, Feedback, Stop, Claim,
       Begin, session, call, SessionInv, CallTypeOK
  <1>2. CASE Claim
    BY <1>1, <1>2 DEF Claim, call, Unserved, InLine
  <1>3. CASE Refresh
    <2>1. ad = "READY" /\ ~armed
      BY <1>3 DEF Refresh, MayRefresh
    <2>2. ~asked
      BY <1>1, <2>1 DEF TorqueInv, CallsInOrder
    <2> QED
      BY <2>1, <2>2 DEF Unserved
  <1>4. ASSUME NEW o \in Ops, o # "refresh", Send(o, 1, line)
        PROVE  Unserved
    <2>1. 1 \in 1..Len(Script[o]) /\ Script[o][1] # "SHADOW"
      BY ScriptFacts, RequestFacts
    <2>2. op' = o /\ step' = 1
      BY <1>4 DEF Send
    <2>3. InLine("SHADOW")' => InLine("SHADOW")
      <3>1. InLine("SHADOW")' =>
                "SHADOW" = Script[o][1] \/ \E i \in DOMAIN line : line[i] = "SHADOW"
        BY <1>1, <1>4, <2>1, SendLine
      <3>2. (\E i \in DOMAIN line : line[i] = "SHADOW") => InLine("SHADOW")
        BY DEF InLine
      <3> QED
        BY <2>1, <3>1, <3>2
    <2> QED
      BY <1>1, <1>4, <2>2, <2>3 DEF Unserved
  <1>5. Claim \/ Refresh \/ \E o \in Ops : o # "refresh" /\ Send(o, 1, line)
    BY DEF Calls, Prepare, Start, Extend, Poll, Keepalive, Feedback, Stop, Begin, Ops
  <1> QED
    BY <1>2, <1>3, <1>4, <1>5

\* A call that fails prepares nothing more.
LEMMA UnservedFault ==
    ASSUME NEW queue \in Seq(Requests), Fault(queue), Unserved',
           (\E i \in DOMAIN queue : queue[i] = "SHADOW") => InLine("SHADOW")
    PROVE  Unserved
  <1>1. ad' = "FAULTED" /\ op' \in {"fault", "IDLE"}
    BY DEF Fault, Send, Rest
  <1>2. InLine("SHADOW")'
    BY <1>1 DEF Unserved
  <1>3. CASE Send("fault", 1, queue)
    <2>1. "fault" \in Ops /\ 1 \in 1..Len(Script["fault"]) /\ Script["fault"][1] # "SHADOW"
      BY DEF Ops, Script
    <2>2. InLine("SHADOW")' =>
              "SHADOW" = Script["fault"][1] \/ \E i \in DOMAIN queue : queue[i] = "SHADOW"
      BY <1>3, <2>1, SendLine
    <2> QED
      BY <1>2, <2>1, <2>2 DEF Unserved
  <1>4. CASE Rest(queue)
    BY <1>2, <1>4 DEF Rest, InLine, Unserved
  <1> QED
    BY <1>3, <1>4 DEF Fault

\* What is lost, given up or left behind prepares nothing new.
LEMMA UnservedLeft ==
    ASSUME SessionInv, TimesOut \/ Lose \/ LineFault \/ Firmware \/ Crash \/ Restart, Unserved'
    PROVE  Unserved
  <1>1. line \in Seq(Requests)
    BY DEF SessionInv, CallTypeOK
  <1>2. CASE TimesOut
    <2>1. CASE Tolerated
      <3>1. op' = "IDLE" /\ line' = line /\ UNCHANGED <<ad, armed, asked>>
        BY <1>2, <2>1 DEF TimesOut, Expire, Rest
      <3> QED
        BY <3>1 DEF Unserved, InLine
    <2>2. CASE ~Tolerated
      BY <1>1, <1>2, <2>2, UnservedFault DEF TimesOut, Expire, InLine
    <2> QED
      BY <2>1, <2>2
  <1>3. CASE Lose \/ LineFault
    <2>1. UNCHANGED <<ad, armed, asked, op, step>>
      BY <1>3 DEF Lose, LineFault, session
    <2>2. InLine("SHADOW")' => InLine("SHADOW")
      <3>1. CASE Lose
        <4>1. \A i \in DOMAIN line' : i \in DOMAIN line /\ line'[i] = line[i]
          BY <1>1, <3>1 DEF Lose
        <4> QED
          BY <4>1 DEF InLine
      <3>2. CASE LineFault
        BY <3>2 DEF LineFault, InLine
      <3> QED
        BY <1>3, <3>1, <3>2
    <2> QED
      BY <2>1, <2>2 DEF Unserved
  <1>4. CASE Firmware
    BY <1>4 DEF Firmware, host, session, call, Unserved, InLine
  <1>5. CASE Crash
    BY <1>5 DEF Crash, Rest, Unserved, InLine
  <1>6. CASE Restart
    BY <1>6 DEF Restart, call, Unserved, InLine
  <1> QED
    BY <1>2, <1>3, <1>4, <1>5, <1>6

\* A preparation goes on only if its HELLO has found no stop latched, and so no stream.
LEMMA UnservedAnswered ==
    ASSUME SessionInv, TorqueInv, OrderInv, FirmwareInv, NEW r \in Requests,
           NEW ok \in BOOLEAN, r = Head(line), Serves(r, ok), Awaited, Answered(r, ok), Unserved'
    PROVE  Unserved \/ ~clockActive'
  <1>1. /\ op \in Ops /\ op # "IDLE" /\ step \in 1..Len(Script[op]) /\ r = Script[op][step]
        /\ <<>> \in Seq(Requests)
    BY DEF SessionInv, CallTypeOK, LastIsAwaited, Awaited
  <1>2. Preparing => ad \in {"NEW", "READY"} /\ ~armed /\ ~asked
    BY <1>1 DEF TorqueInv, CallsInOrder, Preparing
  <1>3. CASE Fault(<<>>)
    <2>1. ~ \E i \in DOMAIN <<>> : <<>>[i] = "SHADOW"
      OBVIOUS
    <2> QED
      BY <1>1, <1>3, <2>1, UnservedFault
  <1>4. CASE Advance(r, ok) /\ ~Fault(<<>>)
    <2>1. /\ op' = op /\ step' = Following(r) /\ UNCHANGED <<ad, asked>> /\ (armed => armed')
          /\ Send(op, Following(r), <<>>) /\ step < Len(Script[op])
      BY <1>4 DEF Advance, Send
    <2>2. PICK n \in 1..Len(Script[op]) : n = Following(r)
      BY <1>1, <2>1, FollowingFacts DEF SessionInv, Following
    <2>3. InLine("SHADOW")' => Script[op][n] = "SHADOW"
      <3>1. InLine("SHADOW")' => "SHADOW" = Script[op][n] \/ \E i \in DOMAIN <<>> : <<>>[i] = "SHADOW"
        BY <1>1, <2>1, <2>2, SendLine
      <3>2. ~ \E i \in DOMAIN <<>> : <<>>[i] = "SHADOW"
        OBVIOUS
      <3> QED
        BY <3>1, <3>2
    <2>4. Script[op][n] = "SHADOW" => op \in {"prepare", "refresh"} \/ (op = "start" /\ n = 2)
      BY <1>1, RequestFacts
    <2>5. CASE op = "prepare" /\ step = 1
      <3>1. Script[op][step] = "HELLO"
        BY <2>5 DEF Script
      <3>2. r = "HELLO"
        BY <1>1, <3>1
      <3>3. ok
        BY <1>4, <3>2 DEF Answered, Accepted
      <3>4. Does("HELLO", ok)
        BY <3>2 DEF Serves
      <3>5. ~stopLatched /\ Quiet
        BY <3>3, <3>4 DEF Does, Reads
      <3>6. ~Claimed
        BY <1>2, <2>5 DEF Preparing, Claimed
      <3>7. ~configured
        BY <3>6, ConfiguredIsEnergised DEF TorqueInv, FirmwareInv
      <3>8. ~clockActive
        BY <3>5, <3>7 DEF FirmwareInv, StreamKnown
      <3> QED
        BY <3>5, <3>8 DEF Quiet, requests
    <2>6. CASE op = "prepare" /\ step # 1
      BY <1>1, <2>6 DEF Unserved
    <2>7. CASE op = "refresh"
      BY <2>7 DEF Unserved
    <2>8. CASE op = "start" /\ n = 2
      <3>1. step = 1
        BY <1>1, <2>2, <2>8, FollowingFacts DEF Following
      <3>2. Preparing /\ ad = "READY"
        BY <2>8, <3>1 DEF Preparing, SessionInv, StartsReady
      <3> QED
        BY <1>2, <3>2 DEF Unserved
    <2>9. CASE op \notin {"prepare", "refresh"} /\ ~(op = "start" /\ n = 2)
      BY <2>1, <2>3, <2>4, <2>9 DEF Unserved
    <2> QED
      BY <2>5, <2>6, <2>7, <2>8, <2>9
  <1>5. CASE (Rejected(r) \/ Pumped(r)) /\ ~Fault(<<>>)
    <2>1. UNCHANGED <<ad, armed, asked>> /\ op' \in {"IDLE", "poll"} /\ ~InLine("SHADOW")'
      BY <1>5 DEF Rejected, Pumped, session, Rest, Send, InLine, Script
    <2> QED
      BY <2>1 DEF Unserved
  <1>6. CASE step = Len(Script[op]) /\ (Prepares(r, ok) \/ Polls(r, ok) \/ Stops \/ Completes)
             /\ ~Fault(<<>>)
    <2>1. op' = "IDLE" /\ line' = <<>> /\ asked' = asked
      BY <1>6 DEF Prepares, Polls, Stops, Completes, Returns, Rest
    <2>2. ~InLine("SHADOW")'
      BY <2>1 DEF InLine
    <2>3. ad' = "READY" /\ ~armed' /\ ~asked
      BY <2>1, <2>2 DEF Unserved
    <2>4. CASE Prepares(r, ok)
      <3>1. op = "prepare"
        BY <2>4 DEF Prepares
      <3>2. step = 5
        BY <1>6, <3>1 DEF Script
      <3> QED
        BY <3>1, <3>2 DEF Unserved
    <2>5. CASE Polls(r, ok)
      <3>1. op = "poll" /\ armed' = armed
        BY <1>6, <2>5 DEF Polls
      <3>2. armed
        BY <3>1 DEF OrderInv, ArmedInOrder
      <3> QED
        BY <2>3, <3>1, <3>2
    <2>6. CASE Stops
      <3>1. asked
        BY <2>6 DEF Stops, TorqueInv, CallsInOrder
      <3> QED
        BY <2>3, <3>1
    <2>7. CASE Completes
      <3>1. armed' = armed /\ ad' = IF op \in {"start", "resume"} THEN "ACTIVE" ELSE ad
        BY <2>7 DEF Completes
      <3> QED
        BY <2>3, <3>1 DEF Unserved
    <2> QED
      BY <1>6, <2>4, <2>5, <2>6, <2>7
  <1> QED
    BY <1>3, <1>4, <1>5, <1>6 DEF Answered

LEMMA UnservedServe ==
    ASSUME SessionInv, TorqueInv, OrderInv, FirmwareInv, NEW ok \in BOOLEAN, line # <<>>,
           Serves(Head(line), ok), Unserved'
    PROVE  Unserved \/ ~clockActive'
  <1>1. PICK r \in Requests : r = Head(line)
    BY DEF SessionInv, CallTypeOK
  <1>2. CASE Awaited /\ Answered(r, ok)
    BY <1>1, <1>2, UnservedAnswered
  <1>3. CASE /\ line' = Tail(line)
             /\ lost' = (lost \/ Awaited)
             /\ UNCHANGED <<session, op, step, unfit, done, finite, rest, asked>>
    <2>1. InLine("SHADOW")' => InLine("SHADOW")
      BY <1>3, TailLine DEF SessionInv, CallTypeOK
    <2> QED
      BY <1>3, <2>1 DEF session, Unserved
  <1> QED
    BY <1>1, <1>2, <1>3 DEF Serves, Replies

LEMMA NoneServedStep ==
    ASSUME SessionInv, TorqueInv, OrderInv, FirmwareInv, NoneServed, [SNext]_svars
    PROVE  NoneServed'
  <1> SUFFICES ASSUME Unserved' PROVE ~clockActive'
    BY DEF NoneServed
  <1>1. Unserved => ~clockActive'
    <2> SUFFICES ASSUME Unserved, clockActive' PROVE FALSE
      OBVIOUS
    <2>1. ~clockActive /\ ~configured
      BY UnservedIsOff, ConfiguredIsEnergised DEF NoneServed, FirmwareInv
    <2> QED
      BY <2>1, SessionFirmware, StreamServed
  <1>2. CASE SNext
    BY <1>1, <1>2, UnservedCall, UnservedLeft, UnservedServe DEF SNext
  <1>3. CASE UNCHANGED svars
    BY <1>1, <1>3 DEF svars, host, session, call, Unserved, InLine
  <1> QED
    BY <1>2, <1>3

LEMMA NoneServedInit == SInit => NoneServed
  BY DEF SInit, Init, NoneServed

\* The session and the firmware together.
WholeInv == SessionInv /\ TorqueInv /\ OrderInv /\ NoneServed /\ FirmwareInv

LEMMA WholeInit == SInit => WholeInv
  BY InitSession, TorqueInit, OrderInit, NoneServedInit, FirmwareInvInit DEF WholeInv

LEMMA WholeStep ==
    ASSUME PromptRestart = FALSE, WholeInv, [SNext]_svars
    PROVE  WholeInv'
  BY SessionStep, ClaimStep, OrderStep, NoneServedStep, FirmwareInvStep DEF WholeInv

\* A launch in a session is a clean pass of the executor, over a configured pair.
LEMMA SessionLaunch ==
    ASSUME WholeInv, [SNext]_svars, Launches
    PROVE  /\ ExecLaunch /\ clockActive /\ configured
           /\ safety.state = "ACTIVE" /\ ~stopLatched /\ output /\ torque = AllOn
  <1>1. Quiet \/ [OrderlyNext]_vars
    BY SessionFirmware, FirmwareIsOrderly DEF WholeInv, FirmwareInv
  <1>2. ~Quiet
    BY DEF Quiet, Launches
  <1>3. /\ ExecLaunch
        /\ safety.state = "ACTIVE" /\ ~stopLatched /\ output /\ torque = AllOn
    BY <1>1, <1>2, OrderlyIsNext, LaunchStep DEF WholeInv, FirmwareInv
  <1>4. clockActive /\ event # "MISSED"
    BY <1>3 DEF ExecLaunch, TakeEvent, Unready
  <1>5. configured
    BY <1>4 DEF WholeInv, FirmwareInv, StreamKnown
  <1> QED
    BY <1>3, <1>4, <1>5

\* What Supervisor's theorems assume of their host, the resident adapter does: whatever is
\* lost, late or left in the line, no preparation reaches a stream that is served, or arms
\* whose telemetry is on, if the lease goes on only after the watchdog.
THEOREM AdapterOrderly ==
    ASSUME PromptRestart = FALSE
    PROVE  SSpec => AdapterIsOrderly
  <1> DEFINE A == \A ok \in BOOLEAN : Serves("SHADOW", ok) => ~clockActive /\ ~Busy
  <1>1. ASSUME WholeInv, [SNext]_svars PROVE [A]_svars
    <2> SUFFICES ASSUME NEW ok \in BOOLEAN, Serves("SHADOW", ok)
                 PROVE  ~clockActive /\ ~Busy
      OBVIOUS
    <2>1. InLine("SHADOW")
      BY <1>1 DEF Serves, InLine, WholeInv, SessionInv, CallTypeOK
    <2>2. ~configured /\ ~clockActive
      BY <1>1, <2>1, ConfiguredIsEnergised
      DEF WholeInv, FirmwareInv, TorqueInv, LineInOrder, NoneServed, Unserved
    <2> QED
      BY <1>1, <2>2 DEF WholeInv, FirmwareInv, StreamKnown
  <1>2. SInit => WholeInv
    BY WholeInit
  <1>3. WholeInv /\ [SNext]_svars => WholeInv'
    BY WholeStep
  <1> QED
    BY <1>1, <1>2, <1>3, PTL DEF SSpec, AdapterIsOrderly

\* So what holds of the supervisor of an orderly host holds of the session.
THEOREM SessionFirmwareSound ==
    ASSUME PromptRestart = FALSE
    PROVE  SSpec => [](IInv /\ TorqueIsWatched)
  <1>1. WholeInv => IInv /\ TorqueIsWatched
    BY DEF WholeInv, FirmwareInv, IInv, TorqueMarked, TorqueIsWatched, Energised
  <1>2. SInit => WholeInv
    BY WholeInit
  <1>3. WholeInv /\ [SNext]_svars => WholeInv'
    BY WholeStep
  <1> QED
    BY <1>1, <1>2, <1>3, PTL DEF SSpec

\* In a session of the resident adapter goal positions are launched only while motion is
\* enabled, no stop is latched, and both arms are energised and marked.
THEOREM SessionLaunchSound ==
    ASSUME PromptRestart = FALSE
    PROVE  SSpec => LaunchOnlyWhenEnabled
  <1> DEFINE A == Launches => /\ safety.state = "ACTIVE"
                              /\ ~stopLatched
                              /\ output
                              /\ torque = AllOn
  <1>1. ASSUME WholeInv, [SNext]_svars PROVE [A]_vars
    BY <1>1, SessionLaunch
  <1>2. SInit => WholeInv
    BY WholeInit
  <1>3. WholeInv /\ [SNext]_svars => WholeInv'
    BY WholeStep
  <1> QED
    BY <1>1, <1>2, <1>3, PTL DEF SSpec, LaunchOnlyWhenEnabled

-----------------------------------------------------------------------------
(* What the session believes of the firmware between its calls *)

Over == exec = "SUCCEEDED" /\ ~Busy

\* A stream that is served has its stop latched, and moves no more.
Dormant == clockActive => stopLatched

AwaitsShadow == op # "IDLE" /\ Script[op][step] = "SHADOW"

\* A session that is ready and not armed holds the anchor of the firmware, unless it is
\* reading a new one.
Anchored == ad = "READY" /\ ~armed /\ ~asked /\ ~AwaitsShadow => ours /\ anchorReady

\* A session that is ready and armed has seen its last stream to the end, or a stop is
\* latched: poll reads that the stream has succeeded, and last that its telemetry is off.
StreamOver ==
    /\ ad = "READY" /\ armed /\ op \notin {"start", "resume"} => stopLatched \/ Over
    /\ done => stopLatched \/ exec = "SUCCEEDED"
    /\ done /\ step = 7 => stopLatched \/ Over

\* A batch that was kept and refused is known to the session, or is about to be, or
\* moves nothing.
RefusedKnown == refused => asked \/ ad = "DOWN" \/ (lost /\ AtBatch) \/ Dormant

BeliefInv == Anchored /\ StreamOver /\ RefusedKnown

\* What a request may change of this.
LEMMA ServedLeaves ==
    ASSUME FirmwareInv, NEW r \in Requests, NEW ok \in BOOLEAN, Serves(r, ok)
    PROVE  /\ stopLatched => stopLatched'
           /\ r # "OPEN" => /\ exec = "SUCCEEDED" => exec' = "SUCCEEDED"
                            /\ Over => Over'
           /\ r # "SHADOW" => anchorReady' = anchorReady
           /\ r = "SHADOW" => anchorReady' = ok
           /\ r # "BATCH" => (Dormant => Dormant')
  <1> USE DEF Over, Dormant, Busy
  <1>1. r # "BATCH" => Does(r, ok)
    BY DEF Serves
  <1>2. CASE UNCHANGED <<stopLatched, exec, tracking, anchorReady, clockActive>>
             /\ r # "SHADOW"
    BY <1>2
  <1>3. CASE r = "SHADOW"
    <2>1. Does("SHADOW", ok)
      BY <1>1, <1>3
    <2>2. PICK outcome \in Outcomes, readable \in BOOLEAN : PrepareShadow(outcome, readable)
      BY <2>1 DEF Does, Reads
    <2>3. anchorReady' = ok
      BY <2>1 DEF Does, Reads
    <2> QED
      BY <1>3, <2>2, <2>3 DEF PrepareShadow, requests, telemetry
  <1>4. CASE r = "ARM"
    <2>1. Does("ARM", ok)
      BY <1>1, <1>4
    <2>2. CASE ArmConfigures \/ ArmAgain \/ \E outcome \in Outcomes : ArmFails(outcome)
      BY <1>2, <1>4, <2>2 DEF ArmConfigures, ArmAgain, ArmFails, arms, requests, telemetry
    <2> QED
      BY <2>1, <2>2 DEF Does, Reads
  <1>5. CASE r = "STOP"
    <2>1. Does("STOP", ok)
      BY <1>1, <1>5
    <2>2. PICK outcome \in Outcomes : SafeStop(outcome)
      BY <2>1 DEF Does, Reads
    <2> QED
      BY <1>5, <2>2 DEF SafeStop, Perform
  <1>6. CASE r = "OPEN"
    <2>1. Does("OPEN", ok)
      BY <1>1, <1>6
    <2>2. Open \/ Quiet
      BY <2>1 DEF Does, Reads
    <2> QED
      BY <1>2, <1>6, <2>2 DEF Open, Quiet, arms, requests, telemetry
  <1>7. CASE r = "BATCH"
    <2>1. CASE Quiet
      BY <1>2, <1>7, <2>1 DEF Quiet, arms, requests, telemetry
    <2>2. ASSUME NEW b \in BOOLEAN, Batch(TRUE, b)
          PROVE  /\ UNCHANGED <<stopLatched, anchorReady>> /\ exec # "SUCCEEDED"
      BY <2>2 DEF Batch
    <2> QED
      BY <1>7, <2>1, <2>2 DEF Serves, Admits
  <1>8. CASE r \notin {"SHADOW", "ARM", "STOP", "OPEN", "BATCH"}
    <2>1. Does(r, ok)
      BY <1>1, <1>8
    <2>2. Quiet \/ Heartbeat \/ Enable
      BY <1>8, <2>1 DEF Does, Requests, Reads
    <2> QED
      BY <1>2, <1>8, <2>2 DEF Quiet, Heartbeat, Enable, arms, requests, telemetry
  <1> QED
    BY <1>3, <1>4, <1>5, <1>6, <1>7, <1>8

\* What the firmware may change of it between requests: an anchor is used up by a stream
\* that starts, over a configured pair.
LEMMA FirmwareLeaves ==
    ASSUME FirmwareInv, Firmware
    PROVE  /\ stopLatched => stopLatched'
           /\ exec = "SUCCEEDED" => exec' = "SUCCEEDED" \/ stopLatched'
           /\ Over => Over' \/ stopLatched'
           /\ anchorReady => anchorReady' \/ configured
           /\ Dormant => Dormant'
  <1> USE DEF Over, Dormant, Busy
  <1>1. ASSUME NEW fault \in BOOLEAN, NEW outcome \in Outcomes, Guards(fault, outcome)
        PROVE  /\ UNCHANGED <<exec, anchorReady, clockActive>> /\ (stopLatched => stopLatched')
               /\ tracking' \in {tracking, "OFF"} /\ (configured' => configured)
    BY <1>1 DEF Guards, Perform, arms, requests, telemetry
  <1>2. CASE TrackOff
    BY <1>2 DEF TrackOff, Tracked, arms, requests
  <1>3. CASE TrackFault
    BY <1>3 DEF TrackFault, Tracked, RequestStop, arms
  <1>4. ASSUME NEW polled \in Polled, TrackRequestFails(polled) \/ TrackPair(polled)
        PROVE  /\ exec' = exec /\ Busy /\ (stopLatched => stopLatched')
               /\ configured' = configured /\ (clockActive' => clockActive)
               /\ anchorReady => anchorReady'
    BY <1>4 DEF TrackRequestFails, TrackPair, RequestStop, arms, requests
  <1>5. CASE ExecIdle
    BY <1>5 DEF ExecIdle, Executed, arms, requests, telemetry
  <1>6. CASE ExecUnready
    BY <1>6 DEF ExecUnready, Executed, RequestStop, arms, telemetry
  <1>7. CASE ExecFails \/ ExecLaunch
    <2>1. clockActive /\ event # "MISSED"
      BY <1>7 DEF ExecFails, ExecLaunch, TakeEvent, Unready
    <2>2. configured
      BY <2>1 DEF FirmwareInv, StreamKnown
    <2>3. UNCHANGED tracking
      BY <1>7 DEF ExecFails, ExecLaunch, Executed, telemetry
    <2>4. \/ stopLatched'
          \/ exec \in {"PRIMED", "RUNNING"} /\ stopLatched' = stopLatched
      BY <1>7 DEF ExecFails, ExecLaunch, Steppable, RequestStop
    <2> QED
      BY <2>1, <2>2, <2>3, <2>4
  <1>8. CASE ControlInterrupt \/ DispatchEnds \/ Elapse
    BY <1>8 DEF ControlInterrupt, DispatchEnds, Elapse, arms, requests, telemetry
  <1> QED
    BY <1>1, <1>2, <1>3, <1>4, <1>5, <1>6, <1>7, <1>8 DEF Firmware, Service

LEMMA BeliefCall ==
    ASSUME SessionInv, OrderInv, BeliefInv, Calls
    PROVE  BeliefInv'
  <1>1. /\ op = "IDLE" /\ UNCHANGED <<ad, armed, ours, done, refused>> /\ (asked => asked')
        /\ UNCHANGED vars
    BY DEF Calls, Prepare, Refresh, Start, Extend, Poll, Keepalive, Feedback, Stop, Claim,
       Begin, session, call, plan
  <1>2. ~done /\ ~AwaitsShadow /\ ~AtBatch
    BY <1>1 DEF OrderInv, ArmedInOrder, AwaitsShadow, AtBatch
  <1>3. UNCHANGED <<stopLatched, exec, tracking, anchorReady, clockActive, configured>>
    BY <1>1 DEF vars
  <1>4. Anchored' /\ StreamOver'
    BY <1>1, <1>2, <1>3 DEF BeliefInv, Anchored, StreamOver, Over, Busy
  <1>5. RefusedKnown'
    BY <1>1, <1>2, <1>3 DEF BeliefInv, RefusedKnown, Dormant
  <1> QED
    BY <1>4, <1>5 DEF BeliefInv

\* A call that fails while it waits for a batch asks for the stop.
LEMMA BeliefFault ==
    ASSUME SessionInv, OrderInv, op # "IDLE", NEW queue, Fault(queue),
           refused' => asked \/ AtBatch \/ Dormant'
    PROVE  BeliefInv'
  <1>1. ad' = "FAULTED" /\ ~done' /\ (asked => asked')
    BY DEF Fault
  <1>2. AtBatch => asked'
    <2>1. AtBatch => armed
      BY BatchIsArmed DEF OrderInv
    <2>2. AtBatch => op # "fault"
      BY ScriptFacts DEF AtBatch, SessionInv, CallTypeOK, Ops
    <2> QED
      BY <2>1, <2>2 DEF Fault
  <1> QED
    BY <1>1, <1>2 DEF BeliefInv, Anchored, StreamOver, RefusedKnown

LEMMA BeliefTimeout ==
    ASSUME SessionInv, TorqueInv, OrderInv, BeliefInv, TimesOut
    PROVE  BeliefInv'
  <1>1. op # "IDLE" /\ Expire(line) /\ UNCHANGED <<refused, ours>> /\ UNCHANGED vars
    BY DEF TimesOut
  <1>2. UNCHANGED <<stopLatched, exec, tracking, anchorReady, clockActive, configured>>
    BY <1>1 DEF vars
  <1>3. ad # "DOWN"
    BY <1>1 DEF TorqueInv, CallsInOrder
  <1>4. Dormant' <=> Dormant
    BY <1>2 DEF Dormant
  <1>5. CASE Tolerated
    <2>1. /\ op = "feedback" /\ op' = "IDLE" /\ ~done' /\ UNCHANGED <<ad, armed, asked>>
      BY <1>1, <1>5 DEF Expire, Rest, Tolerated
    <2>2. Script[op][step] = "FEEDBACK"
      BY <1>1, <2>1, StreamRequests DEF SessionInv, CallTypeOK, Ops
    <2>3. ~AtBatch /\ ~AwaitsShadow
      BY <2>2 DEF AtBatch, AwaitsShadow
    <2>4. Anchored' /\ StreamOver'
      BY <1>1, <1>2, <2>1, <2>3 DEF BeliefInv, Anchored, StreamOver, Over, Busy
    <2>5. RefusedKnown'
      BY <1>1, <1>4, <2>1, <2>3 DEF BeliefInv, RefusedKnown
    <2> QED
      BY <2>4, <2>5 DEF BeliefInv
  <1>6. CASE ~Tolerated
    <2>1. refused' => asked \/ AtBatch \/ Dormant'
      BY <1>1, <1>3, <1>4 DEF BeliefInv, RefusedKnown
    <2> QED
      BY <1>1, <1>6, <2>1, BeliefFault DEF Expire
  <1> QED
    BY <1>5, <1>6

LEMMA BeliefLoss ==
    ASSUME BeliefInv, Lose \/ LineFault
    PROVE  BeliefInv'
  <1>1. /\ UNCHANGED <<ad, armed, asked, op, step, done, ours, refused>>
        /\ op # "IDLE" => lost'
    BY DEF Lose, LineFault, session, plan
  <1>2. /\ UNCHANGED <<exec, tracking, anchorReady, clockActive, configured>>
        /\ stopLatched => stopLatched'
    BY DEF Lose, LineFault, ReceiveFault, vars, arms, requests, telemetry
  <1>3. (AwaitsShadow' <=> AwaitsShadow) /\ (AtBatch' <=> AtBatch) /\ (AtBatch => op # "IDLE")
    BY <1>1 DEF AwaitsShadow, AtBatch
  <1>4. Anchored' /\ StreamOver'
    BY <1>1, <1>2, <1>3 DEF BeliefInv, Anchored, StreamOver, Over, Busy
  <1>5. RefusedKnown'
    BY <1>1, <1>2, <1>3 DEF BeliefInv, RefusedKnown, Dormant
  <1> QED
    BY <1>4, <1>5 DEF BeliefInv

\* A stream of a session that is ready is over: none starts, and none uses up its anchor.
LEMMA BeliefFirmware ==
    ASSUME TorqueInv, FirmwareInv, BeliefInv, Firmware
    PROVE  BeliefInv'
  <1>1. UNCHANGED <<ad, armed, asked, op, step, done, ours, refused, lost>>
    BY DEF Firmware, host, session, call, plan
  <1>2. (AwaitsShadow' <=> AwaitsShadow) /\ (AtBatch' <=> AtBatch)
    BY <1>1 DEF AwaitsShadow, AtBatch
  <1>3. configured => armed \/ asked \/ ad = "DOWN"
    BY ConfiguredIsEnergised DEF FirmwareInv, TorqueInv, Claimed
  <1>4. Anchored'
    BY <1>1, <1>2, <1>3, FirmwareLeaves DEF BeliefInv, Anchored
  <1>5. StreamOver'
    BY <1>1, FirmwareLeaves DEF BeliefInv, StreamOver
  <1>6. RefusedKnown'
    BY <1>1, <1>2, FirmwareLeaves DEF BeliefInv, RefusedKnown
  <1> QED
    BY <1>4, <1>5, <1>6 DEF BeliefInv

\* A process starts where the watchdog has been.
LEMMA BeliefProcess ==
    ASSUME PromptRestart = FALSE, OrderInv, FirmwareInv, BeliefInv, Crash \/ Restart
    PROVE  BeliefInv'
  <1>1. CASE Crash
    <2>1. ad' = "DOWN" /\ ~done'
      BY <1>1 DEF Crash
    <2> QED
      BY <2>1 DEF BeliefInv, Anchored, StreamOver, RefusedKnown
  <1>2. CASE Restart
    <2>1. /\ ad = "DOWN" /\ ad' = "NEW" /\ done' = done /\ UNCHANGED <<clockActive, configured>>
      BY <1>2 DEF Restart, call, vars
    <2>2. ~output
      BY <1>2 DEF Restart, LongSilence, WatchdogExpired
    <2>3. Dormant'
      <3>1. ~configured /\ stopLatched' = stopLatched
        BY <1>2, <2>2, ConfiguredIsEnergised DEF FirmwareInv, Restart, vars
      <3> QED
        BY <2>1, <3>1 DEF FirmwareInv, StreamKnown, Dormant
    <2>4. ~done
      BY <2>1 DEF OrderInv, ArmedInOrder
    <2> QED
      BY <2>1, <2>3, <2>4 DEF BeliefInv, Anchored, StreamOver, RefusedKnown
  <1> QED
    BY <1>1, <1>2

\* A request that is served and not answered in time.
LEMMA BeliefUnanswered ==
    ASSUME SessionInv, TypedInv, TorqueInv, OrderInv, FirmwareInv, BeliefInv,
           NEW r \in Requests, NEW ok \in BOOLEAN, line # <<>>, r = Head(line), Serves(r, ok),
           lost' = (lost \/ Awaited), UNCHANGED <<ad, armed, asked, op, step, done>>
    PROVE  BeliefInv'
  <1>1. InLine(r)
    BY DEF InLine, SessionInv, CallTypeOK
  <1>2. (AwaitsShadow' <=> AwaitsShadow) /\ (AtBatch' <=> AtBatch) /\ (AtBatch => op # "IDLE")
    BY DEF AwaitsShadow, AtBatch
  <1>3. Live /\ r # "FEEDBACK" => /\ op \in Ops /\ op # "IDLE" /\ step \in 1..Len(Script[op])
                                  /\ Script[op][step] = r /\ Awaited
    BY <1>1, LiveRequest DEF OrderInv
  <1>4. Live /\ r = "OPEN" => op \in {"start", "resume"}
    BY <1>3, StreamRequests
  <1>5. Anchored'
    <2> SUFFICES ASSUME ad = "READY", ~armed, ~asked, ~AwaitsShadow
                 PROVE  ours' /\ anchorReady'
      BY <1>2 DEF Anchored
    <2>1. r # "SHADOW"
      BY <1>3 DEF Live, AwaitsShadow
    <2>2. ours' = ours /\ anchorReady' = anchorReady
      BY <2>1, ServedLeaves DEF Serves
    <2> QED
      BY <2>2 DEF BeliefInv, Anchored
  <1>6. StreamOver'
    <2>1. ad = "READY" /\ op \notin {"start", "resume"} => r # "OPEN"
      BY <1>4 DEF Live
    <2>2. done => r # "OPEN"
      BY <1>4 DEF Live, OrderInv, ArmedInOrder
    <2> QED
      BY <2>1, <2>2, ServedLeaves DEF BeliefInv, StreamOver
  <1>7. RefusedKnown'
    <2>1. CASE r = "BATCH"
      <3>1. Live => lost' /\ AtBatch'
        BY <1>2, <1>3, <2>1 DEF AtBatch
      <3>2. ~Live => asked' \/ ad' = "DOWN"
        <4>1. InLine("BATCH")
          BY <1>1, <2>1
        <4>2. ad \in {"DOWN", "NEW", "READY", "ACTIVE", "STOPPED", "FAULTED"}
          BY DEF TypedInv, SessionTypeOK
        <4> QED
          BY <4>1, <4>2 DEF Live, OrderInv, ArmedInOrder
      <3> QED
        BY <3>1, <3>2 DEF RefusedKnown
    <2>2. CASE r # "BATCH"
      <3>1. Dormant => Dormant'
        BY <2>2, ServedLeaves
      <3>2. refused' => refused
        BY <2>2 DEF Serves, Keeps
      <3> QED
        BY <1>2, <3>1, <3>2 DEF BeliefInv, RefusedKnown
    <2> QED
      BY <2>1, <2>2
  <1> QED
    BY <1>5, <1>6, <1>7 DEF BeliefInv

\* What is known of an answer that does not fail its call.
LEMMA AnsweredKnown ==
    ASSUME SessionInv, TorqueInv, NEW r \in Requests, NEW ok \in BOOLEAN, r = Head(line),
           Awaited, Answered(r, ok), ~Fault(<<>>)
    PROVE  /\ op \in Ops /\ op # "IDLE" /\ step \in 1..Len(Script[op]) /\ r = Script[op][step]
           /\ ~lost /\ ~lost' /\ asked' = asked /\ ad # "DOWN"
           /\ ok \/ (op = "prepare" /\ r = "HEARTBEAT")
  <1>1. op \in Ops /\ op # "IDLE" /\ step \in 1..Len(Script[op]) /\ r = Script[op][step] /\ ~lost
    BY DEF SessionInv, CallTypeOK, LastIsAwaited, Awaited
  <1>2. ad # "DOWN"
    BY <1>1 DEF TorqueInv, CallsInOrder
  <1>3. ~lost' /\ asked' = asked
    BY DEF Answered, Advance, Rejected, Pumped, Prepares, Polls, Stops, Completes, Returns,
       Send, Rest
  <1>4. ok \/ (op = "prepare" /\ r = "HEARTBEAT")
    BY DEF Answered, Accepted
  <1> QED
    BY <1>1, <1>2, <1>3, <1>4

\* What refuses a batch that is kept is no answer to go on with.
LEMMA RefusedAnswered ==
    ASSUME SessionInv, TorqueInv, OrderInv, FirmwareInv, BeliefInv,
           NEW r \in Requests, NEW ok \in BOOLEAN, r = Head(line),
           Serves(r, ok), Awaited, Answered(r, ok), ~Fault(<<>>)
    PROVE  RefusedKnown'
  <1>1. /\ op \in Ops /\ op # "IDLE" /\ step \in 1..Len(Script[op]) /\ r = Script[op][step]
        /\ ~lost /\ asked' = asked /\ ad # "DOWN" /\ (r = "BATCH" => ok)
    BY AnsweredKnown
  <1>2. CASE r = "BATCH"
    <2>1. ok /\ AtBatch
      BY <1>1, <1>2 DEF AtBatch
    <2>2. op \in {"start", "resume", "append", "pump"}
      <3>1. Script[op][step] = "BATCH"
        BY <1>1, <1>2
      <3> QED
        BY <1>1, <3>1, StreamRequests
    <2>3. Streams
      BY <2>1, <2>2 DEF Streams, OrderInv, ArmedInOrder
    <2>4. ~refused
      BY <1>1, <2>3 DEF SessionInv, CountsAgree
    <2>5. ~refused'
      BY <1>2, <2>1, <2>4 DEF Serves, Keeps
    <2> QED
      BY <2>5 DEF RefusedKnown
  <1>3. CASE r # "BATCH"
    <2>1. Dormant => Dormant'
      BY <1>3, ServedLeaves
    <2>2. refused' => refused
      BY <1>3 DEF Serves, Keeps
    <2> QED
      BY <1>1, <2>1, <2>2 DEF BeliefInv, RefusedKnown
  <1> QED
    BY <1>2, <1>3

\* The anchor a session is ready with is the one it has read last.
LEMMA AnchoredAnswered ==
    ASSUME SessionInv, TorqueInv, OrderInv, FirmwareInv, BeliefInv,
           NEW r \in Requests, NEW ok \in BOOLEAN, r = Head(line),
           Serves(r, ok), Awaited, Answered(r, ok), ~Fault(<<>>)
    PROVE  Anchored'
  <1>1. /\ op \in Ops /\ op # "IDLE" /\ step \in 1..Len(Script[op]) /\ r = Script[op][step]
        /\ ~lost' /\ asked' = asked /\ (r = "SHADOW" => ok)
    BY AnsweredKnown
  <1> SUFFICES ASSUME ad' = "READY", ~armed', ~asked', ~AwaitsShadow'
               PROVE  ours' /\ anchorReady'
    BY DEF Anchored
  <1>2. CASE r = "SHADOW"
    <2>1. ours' = ok /\ anchorReady' = ok
      BY <1>1, <1>2, ServedLeaves DEF Serves
    <2> QED
      BY <1>1, <1>2, <2>1
  <1>3. CASE r # "SHADOW"
    <2>1. ours' = ours /\ anchorReady' = anchorReady
      BY <1>3, ServedLeaves DEF Serves
    <2>2. ~AwaitsShadow
      BY <1>1, <1>3 DEF AwaitsShadow
    <2>3. ad = "READY" /\ ~armed => ours' /\ anchorReady'
      BY <1>1, <2>1, <2>2 DEF BeliefInv, Anchored
    <2>4. CASE Advance(r, ok)
      BY <2>3, <2>4 DEF Advance
    <2>5. CASE Rejected(r) \/ Pumped(r)
      BY <2>3, <2>5 DEF Rejected, Pumped, session
    <2>6. CASE Stops
      <3>1. asked /\ op \in {"stop", "fault"}
        BY <2>6 DEF Stops, TorqueInv, CallsInOrder
      <3> QED
        BY <1>1, <3>1
    <2>7. CASE step = Len(Script[op]) /\ Prepares(r, ok)
      <3>1. op = "prepare"
        BY <2>7 DEF Prepares
      <3>2. Script[op][step] = "SHADOW"
        BY <1>1, <2>7, <3>1, StreamRequests
      <3> QED
        BY <1>1, <1>3, <3>2
    <2>8. CASE Polls(r, ok)
      <3>1. op = "poll" /\ armed' = armed
        BY <2>8 DEF Polls
      <3>2. armed
        BY <3>1 DEF OrderInv, ArmedInOrder
      <3> QED
        BY <3>1, <3>2
    <2>9. CASE Completes
      BY <2>3, <2>9 DEF Completes
    <2> QED
      BY <2>4, <2>5, <2>6, <2>7, <2>8, <2>9 DEF Answered
  <1> QED
    BY <1>2, <1>3

\* A poll that ends a stream has read that it succeeded, and then that telemetry is off.
LEMMA OverAnswered ==
    ASSUME SessionInv, TorqueInv, OrderInv, FirmwareInv, BeliefInv,
           NEW r \in Requests, NEW ok \in BOOLEAN, r = Head(line),
           Serves(r, ok), Awaited, Answered(r, ok), ~Fault(<<>>)
    PROVE  StreamOver'
  <1>1. op \in Ops /\ op # "IDLE" /\ step \in 1..Len(Script[op]) /\ r = Script[op][step]
    BY AnsweredKnown
  <1>2. r = "OPEN" => op \in {"start", "resume"}
    <2> SUFFICES ASSUME r = "OPEN" PROVE op \in {"start", "resume"}
      OBVIOUS
    <2>1. Script[op][step] = "OPEN"
      BY <1>1
    <2> QED
      BY <1>1, <2>1, StreamRequests
  <1>3. op \notin {"start", "resume"} =>
            /\ stopLatched => stopLatched'
            /\ exec = "SUCCEEDED" => exec' = "SUCCEEDED"
            /\ Over => Over'
    BY <1>2, ServedLeaves
  <1>4. /\ done => op = "poll" /\ step > 2
        /\ op \in {"append", "pump", "poll"} => ad = "ACTIVE"
    BY DEF OrderInv, ArmedInOrder
  <1>5. Preparing => ~armed
    BY DEF TorqueInv, CallsInOrder
  <1>6. CASE Advance(r, ok)
    <2>1. /\ op' = op /\ step' = Following(r) /\ ad' = ad /\ (done' <=> Done(r))
          /\ (armed' <=> armed \/ Arms(r)) /\ step < Len(Script[op])
      BY <1>6 DEF Advance, Send
    <2>2. ad' = "READY" /\ armed' /\ op' \notin {"start", "resume"} => stopLatched' \/ Over'
      <3>1. op \notin {"start", "resume"} => (armed' <=> armed)
        BY <2>1 DEF Arms
      <3> QED
        BY <1>3, <2>1, <3>1 DEF BeliefInv, StreamOver
    <2>3. r = "EXECUTOR" => op = "poll" /\ step = 2
      <3> SUFFICES ASSUME r = "EXECUTOR" PROVE op = "poll" /\ step = 2
        OBVIOUS
      <3>1. Script[op][step] = "EXECUTOR"
        BY <1>1
      <3> QED
        BY <1>1, <3>1, StreamRequests
    <2>4. done' => stopLatched' \/ exec' = "SUCCEEDED"
      <3>1. done' => op = "poll" /\ (stopLatched \/ exec = "SUCCEEDED")
        BY <1>4, <2>1, <2>3 DEF Done, BeliefInv, StreamOver
      <3> QED
        BY <1>3, <3>1
    <2>5. done' /\ step' = 7 => stopLatched' \/ Over'
      <3> SUFFICES ASSUME done', step' = 7 PROVE stopLatched' \/ Over'
        OBVIOUS
      <3>1. r # "EXECUTOR"
        <4>1. r = "EXECUTOR" => step' \in {3, 4}
          BY <2>1, <2>3 DEF Following
        <4> QED
          BY <4>1
      <3>2. done /\ ~AtWork(r) /\ op = "poll"
        BY <1>4, <2>1, <3>1 DEF Done
      <3>3. step = 6
        <4>1. step' = step + 1
          BY <2>1, <3>1 DEF Following
        <4> QED
          BY <1>1, <4>1
      <3>4. Script[op][step] = "TRACKING"
        BY <1>1, <3>2, <3>3, StreamRequests
      <3>5. tracking = "OFF"
        BY <1>1, <3>2, <3>4 DEF AtWork
      <3>6. stopLatched \/ Over
        BY <3>2, <3>5 DEF BeliefInv, StreamOver, Over, Busy
      <3> QED
        BY <1>3, <3>2, <3>6
    <2> QED
      BY <2>2, <2>4, <2>5 DEF StreamOver
  <1>7. CASE Rejected(r)
    <2>1. op = "start" /\ r = "SHADOW" /\ UNCHANGED <<armed, done>>
      BY <1>7 DEF Rejected, session
    <2>2. step = 2
      <3>1. Script[op][step] = "SHADOW"
        BY <1>1, <2>1
      <3> QED
        BY <1>1, <2>1, <3>1, StreamRequests
    <2>3. ~armed' /\ ~done'
      BY <1>4, <1>5, <2>1, <2>2 DEF Preparing
    <2> QED
      BY <2>3 DEF StreamOver
  <1>8. CASE Pumped(r)
    <2>1. op = "pump" /\ UNCHANGED <<ad, done>>
      BY <1>8 DEF Pumped, session
    <2>2. ad' = "ACTIVE" /\ ~done'
      BY <1>4, <2>1
    <2> QED
      BY <2>2 DEF StreamOver
  <1>9. CASE Prepares(r, ok) \/ Stops
    <2>1. ~done' /\ ~armed'
      BY <1>5, <1>9 DEF Prepares, Stops, Returns, Preparing
    <2> QED
      BY <2>1 DEF StreamOver
  <1>10. CASE step = Len(Script[op]) /\ Polls(r, ok)
    <2>1. op = "poll" /\ ~done' /\ (~done => ad' = ad)
      BY <1>10 DEF Polls, Returns
    <2>2. step = 7
      BY <1>1, <1>10, <2>1, StreamRequests
    <2>3. done => stopLatched \/ Over
      BY <2>2 DEF BeliefInv, StreamOver
    <2> QED
      BY <1>3, <1>4, <2>1, <2>3 DEF StreamOver
  <1>11. CASE Completes
    <2>1. ~done' /\ armed' = armed /\ ad' = IF op \in {"start", "resume"} THEN "ACTIVE" ELSE ad
      BY <1>11 DEF Completes, Returns
    <2>2. ad' = "READY" /\ armed' => stopLatched' \/ Over'
      BY <1>3, <2>1 DEF BeliefInv, StreamOver
    <2> QED
      BY <2>1, <2>2 DEF StreamOver
  <1> QED
    BY <1>6, <1>7, <1>8, <1>9, <1>10, <1>11 DEF Answered

LEMMA BeliefAnswered ==
    ASSUME SessionInv, TorqueInv, OrderInv, FirmwareInv, BeliefInv,
           NEW r \in Requests, NEW ok \in BOOLEAN, r = Head(line),
           Serves(r, ok), Awaited, Answered(r, ok)
    PROVE  BeliefInv'
  <1>1. CASE Fault(<<>>)
    <2>1. op # "IDLE" /\ r = Script[op][step] /\ ~lost /\ ad # "DOWN"
      BY DEF SessionInv, CallTypeOK, LastIsAwaited, Awaited, TorqueInv, CallsInOrder
    <2>2. refused' => asked \/ AtBatch \/ Dormant'
      <3>1. r = "BATCH" => AtBatch
        BY <2>1 DEF AtBatch
      <3>2. r # "BATCH" => (refused' => refused) /\ (Dormant => Dormant')
        BY ServedLeaves DEF Serves, Keeps
      <3> QED
        BY <2>1, <3>1, <3>2 DEF BeliefInv, RefusedKnown
    <2> QED
      BY <1>1, <2>1, <2>2, BeliefFault
  <1>2. CASE ~Fault(<<>>)
    BY <1>2, RefusedAnswered, AnchoredAnswered, OverAnswered DEF BeliefInv
  <1> QED
    BY <1>1, <1>2

LEMMA BeliefServe ==
    ASSUME SessionInv, TypedInv, TorqueInv, OrderInv, FirmwareInv, BeliefInv,
           NEW ok \in BOOLEAN, line # <<>>, Serves(Head(line), ok)
    PROVE  BeliefInv'
  <1>1. PICK r \in Requests : r = Head(line)
    BY DEF SessionInv, CallTypeOK
  <1>2. CASE Awaited /\ Answered(r, ok)
    BY <1>1, <1>2, BeliefAnswered
  <1>3. CASE /\ line' = Tail(line)
             /\ lost' = (lost \/ Awaited)
             /\ UNCHANGED <<session, op, step, unfit, done, finite, rest, asked>>
    BY <1>1, <1>3, BeliefUnanswered DEF session
  <1> QED
    BY <1>1, <1>2, <1>3 DEF Serves, Replies

LEMMA BeliefStep ==
    ASSUME PromptRestart = FALSE, WholeInv, TypedInv, BeliefInv,
           [SNext]_svars
    PROVE  BeliefInv'
  <1> USE DEF WholeInv
  <1>1. CASE UNCHANGED svars
    BY <1>1 DEF svars, vars, host, session, call, plan, arms, requests, telemetry, BeliefInv,
       Anchored, StreamOver, RefusedKnown, AwaitsShadow, AtBatch, Over, Dormant, Busy
  <1>2. CASE SNext
    BY <1>2, BeliefCall, BeliefTimeout, BeliefLoss, BeliefServe, BeliefFirmware, BeliefProcess
    DEF SNext
  <1> QED
    BY <1>1, <1>2

LEMMA BeliefInit == SInit => BeliefInv
  <1> SUFFICES ASSUME SInit PROVE BeliefInv
    OBVIOUS
  <1>1. ad = "NEW" /\ ~done /\ ~refused
    BY DEF SInit
  <1> QED
    BY <1>1 DEF BeliefInv, Anchored, StreamOver, RefusedKnown

\* All that is claimed of the session, its line and its firmware, and kept together.
BelievedInv == WholeInv /\ TypedInv /\ BeliefInv

LEMMA BelievedInit == SInit => BelievedInv
  BY WholeInit, TypedInit, BeliefInit DEF BelievedInv

LEMMA BelievedStep ==
    ASSUME PromptRestart = FALSE, BelievedInv, [SNext]_svars
    PROVE  BelievedInv'
  BY WholeStep, TypedStep, BeliefStep DEF BelievedInv, WholeInv

\* Between calls a session that is ready and not armed holds the anchor the firmware will
\* start from, over arms that are off and buses that are free; one that is armed, between
\* two legs, finds the anchor of the settled stream, or a stop.
THEOREM ReadySound ==
    ASSUME PromptRestart = FALSE
    PROVE  SSpec => []ReadyToStart
  <1>1. ASSUME BelievedInv PROVE ReadyToStart
    <2> SUFFICES ASSUME ad = "READY", Calm
                 PROVE  IF armed THEN stopLatched \/ (anchorReady /\ ~Busy)
                        ELSE ours /\ anchorReady /\ ~Busy /\ ~Energised
      BY DEF ReadyToStart
    <2>1. op = "IDLE"
      BY DEF Calm
    <2>2. CASE armed
      <3>1. stopLatched \/ Over
        BY <1>1, <2>1, <2>2 DEF BelievedInv, BeliefInv, StreamOver
      <3>2. exec = "SUCCEEDED" => stopLatched \/ anchorReady \/ (settle /\ Busy)
        BY <1>1 DEF BelievedInv, WholeInv, FirmwareInv, StreamKnown
      <3> QED
        BY <2>2, <3>1, <3>2 DEF Over
    <2>3. CASE ~armed
      <3>1. ~asked
        BY <1>1, <2>1 DEF BelievedInv, WholeInv, TorqueInv, CallsInOrder
      <3>2. ~Energised
        BY <1>1, <2>3, <3>1 DEF BelievedInv, WholeInv, TorqueInv, Claimed
      <3>3. ~Busy
        BY <1>1, <3>2, ConfiguredIsEnergised
        DEF BelievedInv, WholeInv, FirmwareInv, StreamKnown
      <3>4. ours /\ anchorReady
        BY <1>1, <2>1, <2>3, <3>1 DEF BelievedInv, BeliefInv, Anchored, AwaitsShadow
      <3> QED
        BY <2>3, <3>2, <3>3, <3>4
    <2> QED
      BY <2>2, <2>3
  <1>2. SInit => BelievedInv
    BY BelievedInit
  <1>3. BelievedInv /\ [SNext]_svars => BelievedInv'
    BY BelievedStep
  <1> QED
    BY <1>1, <1>2, <1>3, PTL DEF SSpec

\* A batch that the executor kept and the supervisor refused moves the arms only until
\* the session learns of it.
THEOREM RefusedSound ==
    ASSUME PromptRestart = FALSE
    PROVE  SSpec => RefusedIsStopped
  <1> DEFINE A == Launches /\ refused => asked \/ lost \/ ad = "DOWN"
  <1>1. ASSUME BelievedInv, [SNext]_svars PROVE [A]_svars
    <2> SUFFICES ASSUME Launches, refused PROVE asked \/ lost \/ ad = "DOWN"
      OBVIOUS
    <2>1. ~Dormant
      BY <1>1, SessionLaunch DEF BelievedInv, Dormant
    <2> QED
      BY <1>1, <2>1 DEF BelievedInv, BeliefInv, RefusedKnown
  <1>2. SInit => BelievedInv
    BY BelievedInit
  <1>3. BelievedInv /\ [SNext]_svars => BelievedInv'
    BY BelievedStep
  <1> QED
    BY <1>1, <1>2, <1>3, PTL DEF SSpec, RefusedIsStopped
=============================================================================
