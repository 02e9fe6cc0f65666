------------------------------ MODULE ArmBuses ------------------------------
(***************************************************************************)
(* The two servo buses.  Each is one half-duplex line with one transmitter, *)
(* and two users share it: the dispatch of setpoints to both arms           *)
(* (bimanual_dispatch.c, bimanual_servo_dispatch.c) and the read of one     *)
(* joint of each arm between two setpoints (bimanual_tracking_feedback.c    *)
(* over the telemetry of servo_bus.c and right_servo_bus.c), both run by    *)
(* the main loop (binary_control.c) against their interrupts.               *)
(*                                                                         *)
(* A launch is cut at its calls of the HAL, where an interrupt may come in; *)
(* the other handlers of the main loop touch nothing an interrupt writes    *)
(* more than once and are one step each.  The main loop may call them in    *)
(* any order.  What the executor and the tracking limits decide is a        *)
(* choice here.                                                             *)
(***************************************************************************)
EXTENDS Integers

CONSTANTS
    Joints,         \* SINGLE_ARM_JOINT_COUNT
    FailureLimit,   \* HOST_BIMANUAL_TRACKING_READ_FAILURE_LIMIT
    ReadTimeout,    \* SERVO_IN_MOTION_TELEMETRY_TIMEOUT_MS, in units of time
    SettlePairs,    \* HOST_BIMANUAL_TERMINAL_SETTLE_CONSECUTIVE_PAIRS
    SettleMax,      \* HOST_BIMANUAL_TERMINAL_SETTLE_MAX_MS, in units of time
    HardwareFaults, \* whether UARTs report errors and HAL calls fail
    MaxLaunches     \* bound: commands launched

ASSUME BusesAssumption ==
    /\ Joints \in Nat \ {0}
    /\ FailureLimit \in Nat \ {0, 1}
    /\ ReadTimeout \in Nat \ {0}
    /\ SettlePairs \in Nat \ {0}
    /\ SettleMax \in Nat
    /\ HardwareFaults \in BOOLEAN
    /\ MaxLaunches \in Nat

VARIABLES
    pc,         \* where the main loop is inside BimanualServoDispatch_Launch
    active,     \* dispatch_state.snapshot
    faulted,
    done,       \* left_complete, right_complete
    launched,   \* launch_count
    completed,  \* completed_count
    tracking,   \* tracking.snapshot.active: both readers are enabled
    pending,    \* tracking.snapshot.pending
    streak,     \* tracking.snapshot.consecutive_failed_pairs
    asked,      \* tracking.joint_index
    age,        \* time since tracking.started_at_ms
    reader,     \* state of each arm's telemetry: IDLE, TX or WAIT
    sent,       \* its tx_completed
    last,       \* its last_joint_index
    lineError,  \* its asynchronous UART or DMA error
    clock,      \* host_v2_executor_clock_active
    missed,     \* the control tick has missed_count # 0
    stopPending,\* host_v2_coordinated_stop_pending
    settling,   \* host_v2_terminal_settle_active
    settled,    \* completed pairs since the settle's baseline
    settleAge,  \* time since host_v2_terminal_settle_started_ms
    nextJoint,  \* host_v2_tracking_next_joint
    served,     \* host_v2_tracking_last_dispatch_completed
    tx,         \* what each UART is transmitting: IDLE, SETPOINT or REQUEST
    inbox,      \* answers received since each window opened: <<joint, good>>
    owed,       \* joints of each arm that have yet to answer a request
    reached,    \* observer: arms whose transfer of the last command has ended
    answered    \* observer: arms that answered the pair now asked for

dispatch == <<pc, active, faulted, done, launched, completed>>
pair == <<tracking, pending, streak, asked, age>>
readers == <<reader, sent, last, inbox, lineError>>
progress == <<settling, settled, settleAge, nextJoint, served>>
supervisor == <<clock, missed, stopPending, progress>>

vars == <<dispatch, pair, readers, supervisor, tx, owed, reached, answered>>

Arms == {"left", "right"}
Joint == 0..(Joints - 1)
Counts == 0..MaxLaunches

All(value) == [a \in Arms |-> value]

HalMayFail == HardwareFaults

-----------------------------------------------------------------------------
(* Stopping *)

\* BimanualServoDispatch_LatchFault: both transmissions are aborted
LatchFault ==
    /\ tx' = All("IDLE")
    /\ faulted' = TRUE
    /\ active' = FALSE

\* variant: the fault is latched, what is under way goes on
RequestStop_NoAbort ==
    /\ faulted' = TRUE
    /\ active' = FALSE
    /\ stopPending' = TRUE
    /\ clock' = FALSE
    /\ UNCHANGED tx

\* Host_RequestV2CoordinatedStop
RequestStop ==
    /\ LatchFault
    /\ stopPending' = TRUE
    /\ clock' = FALSE

\* variant: the pair asked for is still noted as pending
EndReaders_Pending ==
    /\ tracking' = FALSE
    /\ pending' = pending
    /\ reader' = All("IDLE")
    /\ sent' = All(FALSE)
    /\ inbox' = All({})

\* BimanualTrackingFeedback_End; both readers are cleared
EndReaders ==
    /\ tracking' = FALSE
    /\ pending' = FALSE
    /\ reader' = All("IDLE")
    /\ sent' = All(FALSE)
    /\ inbox' = All({})

\* Host_PerformV2CoordinatedStop; taking the torque off outlasts a control period
PerformStop(fault) ==
    /\ pc = "LOOP"
    /\ IF fault THEN LatchFault
       ELSE /\ tx' = All("IDLE")
            /\ faulted' = (faulted \/ active)
            /\ active' = FALSE
    /\ EndReaders
    /\ settling' = FALSE
    /\ settled' = 0
    /\ stopPending' = FALSE
    /\ missed' = TRUE
    /\ UNCHANGED <<pc, done, launched, completed, streak, asked, age, last, lineError, clock,
                   settleAge, nextJoint, served, owed, reached, answered>>

\* BinaryControl_Service: a stop that is due
Service == (stopPending \/ faulted) /\ PerformStop(TRUE)

\* SAFE_STOP, a disable, or the watchdog
HostStop == \E fault \in BOOLEAN : PerformStop(fault)

-----------------------------------------------------------------------------
(* A stream begins: the batch that fills the start threshold *)

BeginStream ==
    /\ pc = "LOOP"
    /\ ~tracking
    /\ tracking' = TRUE
    /\ pending' = FALSE
    /\ streak' = 0
    /\ reader' = All("IDLE")
    /\ sent' = All(FALSE)
    /\ asked' = 0
    /\ last' = All(0)
    /\ inbox' = All({})
    /\ lineError' = [lineError EXCEPT !["right"] = FALSE]
    /\ tx' = [tx EXCEPT !["right"] = "IDLE"]
    /\ clock' = TRUE
    /\ missed' = FALSE
    /\ settling' = FALSE
    /\ settled' = 0
    /\ nextJoint' = 0
    /\ served' = completed
    /\ UNCHANGED <<dispatch, age, stopPending, settleAge, owed, reached, answered>>

-----------------------------------------------------------------------------
(* A control tick: Host_ServiceV2Executor and BimanualServoDispatch_Launch *)

Ready == ~active /\ ~faulted

MayLaunch == ~missed /\ Ready /\ ~pending

\* the tick was late, the buses are busy, or the executor gave no output
TickStops ==
    /\ pc = "LOOP"
    /\ clock
    /\ RequestStop
    /\ missed' = FALSE
    /\ UNCHANGED <<pc, done, launched, completed, pair, readers, progress, owed, reached,
                   answered>>

\* a call of the HAL in a launch: it sends, or the stream stops
Transmit(a, to) ==
    /\ \/ /\ tx[a] = "IDLE"
          /\ tx' = [tx EXCEPT ![a] = "SETPOINT"]
          /\ pc' = to
          /\ UNCHANGED <<active, faulted, stopPending, clock>>
       \/ /\ tx[a] # "IDLE" \/ HalMayFail
          /\ RequestStop
          /\ pc' = "LOOP"
    /\ UNCHANGED <<done, launched, completed, pair, readers, missed, progress, owed, answered>>

LaunchLeft ==
    /\ pc = "LOOP"
    /\ clock
    /\ MayLaunch
    /\ launched < MaxLaunches
    /\ Transmit("left", "LEFT_SENT")
    /\ reached' = IF pc' = "LEFT_SENT" THEN {} ELSE reached

LaunchRight ==
    /\ pc = "LEFT_SENT"
    /\ Transmit("right", "BOTH_SENT")
    /\ UNCHANGED reached

\* the checks of actuator_bimanual_dispatch_begin
LaunchCheck ==
    /\ pc = "BOTH_SENT"
    /\ IF Ready
       THEN /\ pc' = "CHECKED"
            /\ UNCHANGED <<active, faulted, tx, stopPending, clock>>
       ELSE /\ RequestStop
            /\ pc' = "LOOP"
    /\ UNCHANGED <<done, launched, completed, pair, readers, missed, progress, owed, reached,
                   answered>>

\* its stores, and the way back; the executor's last output starts the settle
LaunchBegin(terminal) ==
    /\ pc = "CHECKED"
    /\ pc' = "LOOP"
    /\ active' = TRUE
    /\ done' = {}
    /\ launched' = launched + 1
    /\ IF terminal
       THEN /\ clock' = FALSE
            /\ settling' = TRUE
            /\ settled' = 0
            /\ settleAge' = 0
            /\ nextJoint' = 0
       ELSE UNCHANGED <<clock, settling, settled, settleAge, nextJoint>>
    /\ UNCHANGED <<faulted, completed, pair, readers, missed, stopPending, served, tx, owed,
                   reached, answered>>

-----------------------------------------------------------------------------
(* Interrupts and servos *)

Fail ==
    /\ faulted' = TRUE
    /\ active' = FALSE

\* variant: either arm's end completes the command
Complete_OneArm(a) ==
    IF faulted \/ a \in done THEN Fail /\ UNCHANGED <<done, completed>>
    ELSE /\ done' = done \cup {a}
         /\ active' = FALSE
         /\ completed' = completed + 1
         /\ UNCHANGED faulted

\* actuator_bimanual_dispatch_complete_left and _right, and the caller's failure
Complete(a) ==
    IF faulted \/ a \in done THEN Fail /\ UNCHANGED <<done, completed>>
    ELSE /\ done' = done \cup {a}
         /\ active' = (done' # Arms)
         /\ completed' = IF active' THEN completed ELSE completed + 1
         /\ UNCHANGED faulted

\* HAL_UART_TxCpltCallback: the dispatch and the readers both hear of it
TxComplete(a) ==
    /\ tx[a] # "IDLE"
    /\ tx' = [tx EXCEPT ![a] = "IDLE"]
    /\ IF active THEN Complete(a) ELSE UNCHANGED <<done, active, completed, faulted>>
    /\ sent' = [sent EXCEPT ![a] = @ \/ reader[a] = "TX"]
    /\ reached' = IF tx[a] = "SETPOINT" THEN reached \cup {a} ELSE reached
    /\ owed' = [owed EXCEPT ![a] = IF tx[a] = "REQUEST" THEN @ \cup {asked} ELSE @]
    /\ UNCHANGED <<pc, launched, pair, reader, last, inbox, lineError, supervisor, answered>>

\* HAL_UART_ErrorCallback on a servo bus
LineError(a) ==
    /\ HardwareFaults
    /\ IF active \/ pc # "LOOP" THEN Fail ELSE UNCHANGED <<active, faulted>>
    /\ lineError' = [lineError EXCEPT ![a] = TRUE]
    /\ UNCHANGED <<pc, done, launched, completed, pair, reader, sent, last, inbox, supervisor, tx,
                   owed, reached, answered>>

\* a servo answers, well or with an error in its status, or its request is lost
Answer(a, joint, good) ==
    /\ joint \in owed[a]
    /\ owed' = [owed EXCEPT ![a] = @ \ {joint}]
    /\ inbox' = [inbox EXCEPT ![a] = IF tracking THEN @ \cup {<<joint, good>>} ELSE @]
    /\ UNCHANGED <<dispatch, pair, reader, sent, last, lineError, supervisor, tx, reached, answered>>

Lost(a, joint) ==
    /\ joint \in owed[a]
    /\ owed' = [owed EXCEPT ![a] = @ \ {joint}]
    /\ UNCHANGED <<dispatch, pair, readers, supervisor, tx, reached, answered>>

UpTo(n, limit) == IF n < limit THEN n + 1 ELSE limit

\* sound hardware ends a transfer well inside a unit of time
Elapse ==
    /\ pending \/ settling
    /\ HardwareFaults \/ tx = All("IDLE")
    /\ age' = IF pending THEN UpTo(age, ReadTimeout) ELSE age
    /\ settleAge' = IF settling THEN UpTo(settleAge, SettleMax + 1) ELSE settleAge
    /\ UNCHANGED <<dispatch, tracking, pending, streak, asked, readers, clock, missed, stopPending,
                   settling, settled, nextJoint, served, tx, owed, reached, answered>>

-----------------------------------------------------------------------------
(* BimanualTrackingFeedback_Poll: what both readers have by now *)

Waiting(a) == reader[a] = "WAIT" \/ (reader[a] = "TX" /\ sent[a])

Has(a, good) == Waiting(a) /\ <<asked, good>> \in inbox[a]

\* Servo_InMotionTelemetryPoll and RightServoBus_InMotionTelemetryPoll
ReadOf(a) ==
    IF reader[a] = "IDLE" THEN "OK"
    ELSE IF lineError[a] THEN "FAILED"
    ELSE IF Has(a, TRUE) THEN "OK"
    ELSE IF Has(a, FALSE) \/ age >= ReadTimeout THEN "FAILED"
    ELSE "BUSY"

Accepts(a) == reader[a] # "IDLE" /\ ReadOf(a) = "OK"

LastOf(a) == IF Accepts(a) THEN asked ELSE last[a]

AnyRead(result) == \E a \in Arms : ReadOf(a) = result

\* RecordPairFailure
Failure == IF streak + 1 >= FailureLimit THEN "FAULT" ELSE "TRANSIENT"

\* variant: one arm's answer is enough
Poll_OneArm ==
    IF ~pending THEN "NONE"
    ELSE IF AnyRead("FAILED") THEN Failure
    ELSE IF \A a \in Arms : ReadOf(a) = "BUSY" THEN "PENDING"
    ELSE IF \A a \in Arms : LastOf(a) = asked THEN "SAMPLE"
    ELSE Failure

Poll ==
    IF ~pending THEN "NONE"
    ELSE IF AnyRead("FAILED") THEN Failure
    ELSE IF AnyRead("BUSY") THEN "PENDING"
    ELSE IF \A a \in Arms : LastOf(a) = asked THEN "SAMPLE"
    ELSE Failure

\* the readers after the poll; a failed read opens no new window
Polled(a) ==
    IF ~pending THEN reader[a]
    ELSE IF ReadOf(a) # "BUSY" THEN "IDLE"
    ELSE IF Waiting(a) THEN "WAIT" ELSE reader[a]

StreakOf(result) ==
    CASE result \in {"FAULT", "TRANSIENT"} -> streak + 1
      [] result = "SAMPLE" -> 0
      [] OTHER -> streak

Follow ==
    /\ streak' = StreakOf(Poll)
    /\ last' = IF pending THEN [a \in Arms |-> LastOf(a)] ELSE last

\* the left reader's poll clears its errors
ErrorsRead == [lineError EXCEPT !["left"] = @ /\ ~(pending /\ reader["left"] # "IDLE")]

\* the poll, and nothing asked for after it
PollOnly ==
    /\ Follow
    /\ pending' = (Poll = "PENDING")
    /\ reader' = [a \in Arms |-> Polled(a)]
    /\ lineError' = ErrorsRead
    /\ answered' = answered \cup {a \in Arms : pending /\ Accepts(a)}
    /\ UNCHANGED <<tracking, asked, age, sent, inbox, nextJoint, served>>

-----------------------------------------------------------------------------
(* Host_ServiceV2TrackingFeedback *)

\* the settle's count after the poll; a pair out of tolerance resets it
SettledOf(good) ==
    IF Poll = "SAMPLE" /\ settling THEN IF good THEN settled + 1 ELSE 0 ELSE settled

MayRequest(good) ==
    /\ Poll \in {"NONE", "SAMPLE", "TRANSIENT"}
    /\ Ready
    /\ IF settling THEN SettledOf(good) < SettlePairs ELSE completed > served

\* BimanualTrackingFeedback_Start on one arm
Takes(a) == Polled(a) = "IDLE" /\ tx[a] = "IDLE"

Asks ==
    /\ Follow
    /\ asked' = nextJoint
    /\ age' = 0

AskPair ==
    /\ Asks
    /\ \A a \in Arms : Takes(a)
    /\ pending' = TRUE
    /\ reader' = All("TX")
    /\ sent' = All(FALSE)
    /\ inbox' = All({})
    /\ lineError' = [lineError EXCEPT !["left"] = FALSE]
    /\ answered' = {}
    /\ served' = IF settling THEN served ELSE completed
    /\ nextJoint' = (nextJoint + 1) % Joints
    /\ UNCHANGED tracking

\* variant: the settle's limit runs once the last command is delivered
Expired_Delivered == settling /\ ~active /\ settleAge > SettleMax

Expired == settling /\ settleAge > SettleMax

Tracks ==
    /\ pc = "LOOP"
    /\ tracking
    /\ UNCHANGED <<pc, done, launched, completed, missed, settleAge, owed, reached>>

\* three pairs failed, a joint is off its command, or its position is off its range
TrackStops ==
    /\ Tracks
    /\ Poll \in {"FAULT", "SAMPLE"}
    /\ PollOnly
    /\ RequestStop
    /\ UNCHANGED <<settling, settled>>

\* a pair cannot be asked for; when the right arm refuses both readers end
TrackRefused(good) ==
    /\ Tracks
    /\ MayRequest(good)
    /\ Asks
    /\ RequestStop
    /\ \/ /\ ~Takes("left") \/ HalMayFail
          /\ pending' = FALSE
          /\ reader' = [a \in Arms |-> Polled(a)]
          /\ lineError' = ErrorsRead
          /\ UNCHANGED <<tracking, sent, inbox>>
       \/ /\ Takes("left")
          /\ ~Takes("right") \/ HalMayFail
          /\ EndReaders
          /\ lineError' = [lineError EXCEPT !["left"] = FALSE]
    /\ settled' = SettledOf(good)
    /\ UNCHANGED <<answered, settling, nextJoint, served>>

TrackAsks(good) ==
    /\ Tracks
    /\ MayRequest(good)
    /\ AskPair
    /\ IF Expired THEN RequestStop
       ELSE /\ tx' = All("REQUEST")
            /\ UNCHANGED <<active, faulted, stopPending, clock>>
    /\ settled' = SettledOf(good)
    /\ UNCHANGED settling

\* variant: a settle that has nothing pending is over
Settled_NothingPending(good) == settling /\ Poll # "PENDING"

\* the settle has its pairs, and the last command reached both arms
Settled(good) ==
    /\ settling
    /\ SettledOf(good) >= SettlePairs
    /\ Poll # "PENDING"
    /\ Ready
    /\ launched = completed

TrackOnly(good) ==
    /\ Tracks
    /\ Poll # "FAULT"
    /\ ~MayRequest(good)
    /\ Expired \/ ~Settled(good)
    /\ PollOnly
    /\ IF Expired THEN RequestStop
       ELSE UNCHANGED <<active, faulted, tx, stopPending, clock>>
    /\ settled' = SettledOf(good)
    /\ UNCHANGED settling

\* the final positions become the anchor of the next stream, unless one is missing
TrackSettles(good) ==
    /\ Tracks
    /\ Poll # "FAULT"
    /\ ~MayRequest(good)
    /\ ~Expired
    /\ Settled(good)
    /\ \/ /\ PollOnly
          /\ RequestStop
          /\ UNCHANGED settling
       \/ /\ Follow
          /\ EndReaders
          /\ tx' = All("IDLE")
          /\ settling' = FALSE
          /\ answered' = answered \cup {a \in Arms : pending /\ Accepts(a)}
          /\ UNCHANGED <<active, faulted, stopPending, clock, asked, age, lineError, nextJoint,
                         served>>
    /\ settled' = SettledOf(good)

TrackSome ==
    \/ TrackStops
    \/ \E good \in BOOLEAN :
          \/ TrackRefused(good) \/ TrackAsks(good) \/ TrackOnly(good) \/ TrackSettles(good)

-----------------------------------------------------------------------------
Init ==
    /\ pc = "LOOP"
    /\ active = FALSE
    /\ faulted = FALSE
    /\ done = {}
    /\ launched = 0
    /\ completed = 0
    /\ tracking = FALSE
    /\ pending = FALSE
    /\ streak = 0
    /\ asked = 0
    /\ age = 0
    /\ reader = All("IDLE")
    /\ sent = All(FALSE)
    /\ last = All(0)
    /\ lineError = All(FALSE)
    /\ clock = FALSE
    /\ missed = FALSE
    /\ stopPending = FALSE
    /\ settling = FALSE
    /\ settled = 0
    /\ settleAge = 0
    /\ nextJoint = 0
    /\ served = 0
    /\ tx = All("IDLE")
    /\ inbox = All({})
    /\ owed = All({})
    /\ reached = {}
    /\ answered = {}

LaunchStep == LaunchRight \/ LaunchCheck \/ \E terminal \in BOOLEAN : LaunchBegin(terminal)

Tick == TickStops \/ LaunchLeft

Servos ==
    \E a \in Arms, joint \in Joint :
       \/ Lost(a, joint)
       \/ \E good \in BOOLEAN : Answer(a, joint, good)

Interrupts == \E a \in Arms : TxComplete(a) \/ LineError(a)

Next ==
    \/ Service \/ HostStop \/ BeginStream
    \/ Tick \/ LaunchStep \/ TrackSome
    \/ Interrupts \/ Servos \/ Elapse

Spec == Init /\ [][Next]_vars

\* The main loop never stops calling its handlers, and the timer its interrupt
FairSpec ==
    /\ Spec
    /\ WF_vars(Service)
    /\ WF_vars(Tick)
    /\ WF_vars(LaunchStep)
    /\ WF_vars(TrackSome)
    /\ WF_vars(Elapse)
-----------------------------------------------------------------------------
(* Properties *)

\* The values the variables take
TypeOK ==
    /\ pc \in {"LOOP", "LEFT_SENT", "BOTH_SENT", "CHECKED"}
    /\ active \in BOOLEAN
    /\ faulted \in BOOLEAN
    /\ tracking \in BOOLEAN
    /\ pending \in BOOLEAN
    /\ clock \in BOOLEAN
    /\ missed \in BOOLEAN
    /\ stopPending \in BOOLEAN
    /\ settling \in BOOLEAN
    /\ done \in SUBSET Arms
    /\ reached \in SUBSET Arms
    /\ answered \in SUBSET Arms
    /\ launched \in Counts
    /\ completed \in Counts
    /\ served \in Counts
    /\ streak \in 0..FailureLimit
    /\ asked \in Joint
    /\ nextJoint \in Joint
    /\ age \in 0..ReadTimeout
    /\ settleAge \in 0..(SettleMax + 1)
    /\ settled \in 0..SettlePairs
    /\ reader \in [Arms -> {"IDLE", "TX", "WAIT"}]
    /\ tx \in [Arms -> {"IDLE", "SETPOINT", "REQUEST"}]
    /\ sent \in [Arms -> BOOLEAN]
    /\ lineError \in [Arms -> BOOLEAN]
    /\ last \in [Arms -> Joint]
    /\ inbox \in [Arms -> SUBSET (Joint \X BOOLEAN)]
    /\ owed \in [Arms -> SUBSET Joint]

\* Every counter is still inside its bound before the step that would pass it.
CountersKept ==
    /\ completed <= launched
    /\ active => completed < launched
    /\ pc # "LOOP" => launched < MaxLaunches /\ ~pending
    /\ streak < FailureLimit \/ (faulted /\ ~pending)
    /\ pending /\ settling => settled < SettlePairs

\* While a command is under way the lines carry nothing else, and the flags of the
\* dispatch run behind the wire; between commands no setpoint is on a line.
LinesOwned ==
    /\ pc # "LOOP" => ~active /\ ~stopPending
    /\ stopPending => faulted
    /\ active => \A a \in Arms : tx[a] # "REQUEST" /\ (a \in done => a \in reached /\ tx[a] = "IDLE")
    /\ pc \in {"BOTH_SENT", "CHECKED"} => \A a \in Arms : tx[a] # "REQUEST"
    /\ pc = "LEFT_SENT" => tx["left"] # "REQUEST"
    /\ pc = "LOOP" /\ ~active /\ ~faulted =>
          /\ \A a \in Arms : tx[a] # "SETPOINT"
          /\ launched > 0 => reached = Arms
    /\ settling => launched > 0

\* A reader that is done with a pair still under way has its servo's answer.
ReadsKept == pending => \A a \in Arms : reader[a] = "IDLE" => a \in answered

\* Once a coordinated stop is requested the lines are silent until it is
\* performed: nothing goes on that was under way, nothing starts.
StoppedIsSilent == stopPending => tx = All("IDLE")

\* The inductive invariant: the counts of the dispatch and of the pairs, who owns
\* the lines, and what a stop leaves on them (bimanual_servo_dispatch.c,
\* bimanual_tracking_feedback.c).
IInv == TypeOK /\ CountersKept /\ LinesOwned /\ ReadsKept /\ StoppedIsSilent

\* The command a reader of the dispatch sees
Phase ==
    IF faulted THEN "FAULTED"
    ELSE IF active \/ pc # "LOOP" THEN "SENDING" ELSE "READY"

Command == INSTANCE PairCommand WITH phase <- Phase

\* The dispatch counts a command as completed only after both arms' transfers of
\* it have ended on the wire: a read request that ends on the same UART, or the
\* end of an earlier command, is never taken for one (complete, OnTxComplete).
OneCommandAtATime == Command!Spec

\* A pair of positions is used only if both servos of the joint asked for have
\* answered since they were asked: no old position, no other joint's.
PairIsFresh ==
    Poll = "SAMPLE" =>
        /\ \A a \in Arms : a \in answered \/ Has(a, TRUE)
        /\ \A a \in Arms : LastOf(a) = asked

\* A motion is declared settled, and its end made the anchor of the next, only
\* when its last command reached both arms and both buses are quiet.
SettledAfterDelivery ==
    [][\A good \in BOOLEAN :
          TrackSettles(good) =>
             /\ reached = Arms
             /\ \A a \in Arms : tx[a] # "SETPOINT"]_vars

\* A command under way ends: it completes, or the dispatch faults, also when an
\* interrupt that told of its end came too early to be counted.
CommandEnds == active ~> ~active

\* A pair asked for is answered, or given up.
PairEnds == pending ~> ~pending

\* A read that failed is no reason to stop before FailureLimit pairs in a row did:
\* with sound hardware a new pair can always be asked for (single_arm_config.h).
ReadFailuresAreTolerated ==
    [][\A good \in BOOLEAN : TrackRefused(good) => streak >= FailureLimit]_vars
=============================================================================
