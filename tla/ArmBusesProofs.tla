--------------------------- MODULE ArmBusesProofs ---------------------------
(***************************************************************************)
(* Proofs about ArmBuses, for every number of joints, every limit and every *)
(* bound: the inductive invariant, the abstract specification of the        *)
(* dispatch, and what the invariant says of samples and of the settle.      *)
(***************************************************************************)
EXTENDS ArmBuses, TLAPS

\* The values a poll may have, and what it does to the streak.
LEMMA PollFacts ==
    /\ Poll \in {"NONE", "FAULT", "TRANSIENT", "PENDING", "SAMPLE"}
    /\ ~pending <=> Poll = "NONE"
    /\ Poll \in {"PENDING", "SAMPLE"} => pending /\ ~AnyRead("FAILED")
    /\ Poll = "SAMPLE" => ~AnyRead("BUSY")
    /\ \A a \in Arms : ReadOf(a) \in {"OK", "FAILED", "BUSY"}
  BY DEF Poll, Failure, AnyRead, ReadOf

LEMMA StreakFacts ==
    ASSUME TypeOK, BusesAssumption
    PROVE  /\ (streak < FailureLimit => StreakOf(Poll) \in 0..FailureLimit)
           /\ (Poll = "NONE" => StreakOf(Poll) = streak)
           /\ (streak < FailureLimit /\ Poll # "FAULT" => StreakOf(Poll) < FailureLimit)
  BY PollFacts DEF StreakOf, Poll, Failure, TypeOK, BusesAssumption

LEMMA AllFacts ==
    ASSUME BusesAssumption
    PROVE  /\ 0 \in Joint
           /\ All("IDLE") \in [Arms -> {"IDLE", "TX", "WAIT"}]
           /\ All("TX") \in [Arms -> {"IDLE", "TX", "WAIT"}]
           /\ All("IDLE") \in [Arms -> {"IDLE", "SETPOINT", "REQUEST"}]
           /\ All("REQUEST") \in [Arms -> {"IDLE", "SETPOINT", "REQUEST"}]
           /\ All(FALSE) \in [Arms -> BOOLEAN]
           /\ All(0) \in [Arms -> Joint]
           /\ All({}) \in [Arms -> SUBSET (Joint \X BOOLEAN)]
           /\ All({}) \in [Arms -> SUBSET Joint]
  <1>1. 0 \in Joint
    BY DEF BusesAssumption, Joint
  <1>2. QED
    BY <1>1 DEF All

\* A stop leaves its five variables typed.
LEMMA StopType ==
    ASSUME BusesAssumption, RequestStop
    PROVE  /\ tx' = All("IDLE") /\ tx' \in [Arms -> {"IDLE", "SETPOINT", "REQUEST"}]
           /\ faulted' = TRUE /\ active' = FALSE /\ stopPending' = TRUE /\ clock' = FALSE
  BY AllFacts DEF RequestStop, LatchFault

LEMMA EndType ==
    ASSUME BusesAssumption, EndReaders
    PROVE  /\ tracking' = FALSE /\ pending' = FALSE
           /\ reader' \in [Arms -> {"IDLE", "TX", "WAIT"}]
           /\ sent' \in [Arms -> BOOLEAN]
           /\ inbox' \in [Arms -> SUBSET (Joint \X BOOLEAN)]
  BY AllFacts DEF EndReaders

\* A poll leaves the readers typed.
LEMMA PolledType ==
    ASSUME TypeOK
    PROVE  /\ [a \in Arms |-> Polled(a)] \in [Arms -> {"IDLE", "TX", "WAIT"}]
           /\ [a \in Arms |-> LastOf(a)] \in [Arms -> Joint]
           /\ ErrorsRead \in [Arms -> BOOLEAN]
  BY DEF TypeOK, Polled, LastOf, ErrorsRead, Arms

LEMMA Remainder == \A n \in Nat, k \in Nat \ {0} : n % k \in 0..(k - 1)
  OBVIOUS

\* The streak after a poll: only the poll that finds the last failure reaches the limit.
LEMMA StreakStep ==
    ASSUME BusesAssumption, TypeOK, CountersKept
    PROVE  /\ StreakOf(Poll) \in 0..FailureLimit
           /\ Poll # "FAULT" => StreakOf(Poll) < FailureLimit \/ (faulted /\ ~pending)
  <1>1. CASE pending
    BY <1>1, StreakFacts DEF CountersKept
  <1>2. CASE ~pending
    BY <1>2, StreakFacts, PollFacts DEF CountersKept, TypeOK
  <1>3. QED
    BY <1>1, <1>2

\* The settle's count stays inside its bound.
LEMMA SettledType ==
    ASSUME BusesAssumption, TypeOK, CountersKept, NEW good \in BOOLEAN
    PROVE  SettledOf(good) \in 0..SettlePairs
  <1>1. Poll = "SAMPLE" /\ settling => settled + 1 \in 0..SettlePairs
    BY PollFacts DEF CountersKept, TypeOK, BusesAssumption
  <1>2. settled \in 0..SettlePairs /\ 0 \in 0..SettlePairs
    BY DEF TypeOK, BusesAssumption
  <1>3. QED
    BY <1>1, <1>2 DEF SettledOf

THEOREM InitInvariant == BusesAssumption /\ Init => IInv
  <1> SUFFICES ASSUME BusesAssumption, Init PROVE IInv
    OBVIOUS
  <1>1. 0 \in Joint /\ 0 \in Counts
    BY DEF BusesAssumption, Joint, Counts
  <1>2. TypeOK
    <2>1. /\ 0 \in 0..FailureLimit /\ 0 \in 0..ReadTimeout
          /\ 0 \in 0..(SettleMax + 1) /\ 0 \in 0..SettlePairs
      BY DEF BusesAssumption
    <2>2. /\ All("IDLE") \in [Arms -> {"IDLE", "TX", "WAIT"}]
          /\ All("IDLE") \in [Arms -> {"IDLE", "SETPOINT", "REQUEST"}]
          /\ All(FALSE) \in [Arms -> BOOLEAN]
          /\ All(0) \in [Arms -> Joint]
          /\ All({}) \in [Arms -> SUBSET (Joint \X BOOLEAN)]
          /\ All({}) \in [Arms -> SUBSET Joint]
      BY <1>1 DEF All
    <2>3. QED
      BY <1>1, <2>1, <2>2 DEF Init, TypeOK
  <1>3. CountersKept
    BY DEF Init, CountersKept, BusesAssumption
  <1>4. LinesOwned
    BY DEF Init, LinesOwned, All, Arms
  <1>5. QED
    BY <1>2, <1>3, <1>4 DEF IInv, Init, ReadsKept, StoppedIsSilent
-----------------------------------------------------------------------------
(* Types.  The parts of TypeOK: flags, counts, and what is kept per arm. *)

Flags ==
    /\ pc \in {"LOOP", "LEFT_SENT", "BOTH_SENT", "CHECKED"}
    /\ active \in BOOLEAN
    /\ faulted \in BOOLEAN
    /\ tracking \in BOOLEAN
    /\ pending \in BOOLEAN
    /\ clock \in BOOLEAN
    /\ missed \in BOOLEAN
    /\ stopPending \in BOOLEAN
    /\ settling \in BOOLEAN

Numbers ==
    /\ launched \in Counts
    /\ completed \in Counts
    /\ served \in Counts
    /\ streak \in 0..FailureLimit
    /\ asked \in Joint
    /\ nextJoint \in Joint
    /\ age \in 0..ReadTimeout
    /\ settleAge \in 0..(SettleMax + 1)
    /\ settled \in 0..SettlePairs

PerArm ==
    /\ done \in SUBSET Arms
    /\ reached \in SUBSET Arms
    /\ answered \in SUBSET Arms
    /\ reader \in [Arms -> {"IDLE", "TX", "WAIT"}]
    /\ tx \in [Arms -> {"IDLE", "SETPOINT", "REQUEST"}]
    /\ sent \in [Arms -> BOOLEAN]
    /\ lineError \in [Arms -> BOOLEAN]
    /\ last \in [Arms -> Joint]
    /\ inbox \in [Arms -> SUBSET (Joint \X BOOLEAN)]
    /\ owed \in [Arms -> SUBSET Joint]

LEMMA TypeParts ==
    /\ TypeOK <=> Flags /\ Numbers /\ PerArm
    /\ TypeOK' <=> Flags' /\ Numbers' /\ PerArm'
  BY DEF TypeOK, Flags, Numbers, PerArm

LEMMA FlagStep == BusesAssumption /\ IInv /\ Next => Flags'
  <1> SUFFICES ASSUME BusesAssumption, IInv, Next PROVE Flags'
    OBVIOUS
  <1>0. TypeOK /\ Flags /\ CountersKept
    BY TypeParts DEF IInv
  <1>1. ASSUME NEW fault \in BOOLEAN, PerformStop(fault) PROVE Flags'
    BY <1>0, <1>1, EndType, AllFacts DEF Flags, PerformStop, LatchFault
  <1>2. ASSUME BeginStream PROVE Flags'
    BY <1>0, <1>2, AllFacts DEF Flags, BeginStream, dispatch
  <1>3. ASSUME TickStops PROVE Flags'
    BY <1>0, <1>3, StopType DEF Flags, TickStops, pair, readers, progress
  <1>4. ASSUME LaunchLeft PROVE Flags'
    BY <1>0, <1>4, StopType DEF Flags, LaunchLeft, Transmit, pair, readers, progress
  <1>5. ASSUME LaunchRight PROVE Flags'
    BY <1>0, <1>5, StopType DEF Flags, LaunchRight, Transmit, pair, readers, progress
  <1>6. ASSUME LaunchCheck PROVE Flags'
    BY <1>0, <1>6, StopType DEF Flags, LaunchCheck, pair, readers, progress
  <1>7. ASSUME NEW terminal \in BOOLEAN, LaunchBegin(terminal) PROVE Flags'
    BY <1>0, <1>7 DEF Flags, LaunchBegin, pair, readers
  <1>8. ASSUME NEW a \in Arms, TxComplete(a) PROVE Flags'
    BY <1>0, <1>8 DEF Flags, TxComplete, Complete, Fail, pair, supervisor, progress
  <1>9. ASSUME NEW a \in Arms, LineError(a) PROVE Flags'
    BY <1>0, <1>9 DEF Flags, LineError, Fail, pair, supervisor, progress
  <1>10. ASSUME NEW a \in Arms, NEW joint \in Joint, NEW good \in BOOLEAN, Answer(a, joint, good) PROVE Flags'
    BY <1>0, <1>10 DEF Flags, Answer, dispatch, pair, supervisor, progress
  <1>11. ASSUME NEW a \in Arms, NEW joint \in Joint, Lost(a, joint) PROVE Flags'
    BY <1>0, <1>11 DEF Flags, Lost, dispatch, pair, readers, supervisor, progress
  <1>12. ASSUME Elapse PROVE Flags'
    BY <1>0, <1>12 DEF Flags, Elapse, dispatch, readers
  <1>13. ASSUME TrackStops PROVE Flags'
    BY <1>0, <1>13, StopType DEF Flags, TrackStops, Tracks, PollOnly, Follow
  <1>14. ASSUME NEW good \in BOOLEAN, TrackRefused(good) PROVE Flags'
    BY <1>0, <1>14, StopType, EndType DEF Flags, TrackRefused, Tracks, Asks, Follow
  <1>15. ASSUME NEW good \in BOOLEAN, TrackAsks(good) PROVE Flags'
    BY <1>0, <1>15, StopType, AllFacts DEF Flags, TrackAsks, Tracks, Asks, AskPair, Follow
  <1>16. ASSUME NEW good \in BOOLEAN, TrackOnly(good) PROVE Flags'
    BY <1>0, <1>16, StopType DEF Flags, TrackOnly, Tracks, PollOnly, Follow
  <1>17. ASSUME NEW good \in BOOLEAN, TrackSettles(good) PROVE Flags'
    BY <1>0, <1>17, StopType, EndType, AllFacts DEF Flags, TrackSettles, Tracks, PollOnly, Follow
  <1>20. QED
    BY <1>1, <1>2, <1>3, <1>4, <1>5, <1>6, <1>7, <1>8, <1>9, <1>10, <1>11, <1>12, <1>13, <1>14, <1>15, <1>16, <1>17
    DEF Next, Service, HostStop, LaunchStep, Tick, TrackSome, Interrupts, Servos

LEMMA NumberStep == BusesAssumption /\ IInv /\ Next => Numbers'
  <1> SUFFICES ASSUME BusesAssumption, IInv, Next PROVE Numbers'
    OBVIOUS
  <1>0. TypeOK /\ Numbers /\ CountersKept
    BY TypeParts DEF IInv
  <1>1. ASSUME NEW fault \in BOOLEAN, PerformStop(fault) PROVE Numbers'
    BY <1>0, <1>1 DEF Numbers, PerformStop, LatchFault
  <1>2. ASSUME BeginStream PROVE Numbers'
    BY <1>0, <1>2, AllFacts DEF Numbers, BeginStream, dispatch
  <1>3. ASSUME TickStops PROVE Numbers'
    BY <1>0, <1>3 DEF Numbers, TickStops, pair, readers, progress
  <1>4. ASSUME LaunchLeft PROVE Numbers'
    BY <1>0, <1>4 DEF Numbers, LaunchLeft, Transmit, pair, readers, progress
  <1>5. ASSUME LaunchRight PROVE Numbers'
    BY <1>0, <1>5 DEF Numbers, LaunchRight, Transmit, pair, readers, progress
  <1>6. ASSUME LaunchCheck PROVE Numbers'
    BY <1>0, <1>6 DEF Numbers, LaunchCheck, pair, readers, progress
  <1>7. ASSUME NEW terminal \in BOOLEAN, LaunchBegin(terminal) PROVE Numbers'
    <2>1. launched + 1 \in Counts
      BY <1>0, <1>7 DEF LaunchBegin, CountersKept, Numbers, Counts, BusesAssumption
    <2>2. 0 \in Joint /\ 0 \in 0..SettlePairs /\ 0 \in 0..(SettleMax + 1)
      BY DEF BusesAssumption, Joint
    <2>3. QED
      BY <1>0, <1>7, <2>1, <2>2 DEF Numbers, LaunchBegin, pair
  <1>8. ASSUME NEW a \in Arms, TxComplete(a) PROVE Numbers'
    <2>1. active => completed + 1 \in Counts
      BY <1>0 DEF CountersKept, Numbers, Counts, BusesAssumption
    <2>2. completed' \in {completed, completed + 1} /\ (completed' # completed => active)
      BY <1>8 DEF TxComplete, Complete
    <2>3. QED
      BY <1>0, <1>8, <2>1, <2>2 DEF Numbers, TxComplete, pair, supervisor, progress
  <1>9. ASSUME NEW a \in Arms, LineError(a) PROVE Numbers'
    BY <1>0, <1>9 DEF Numbers, LineError, Fail, pair, supervisor, progress
  <1>10. ASSUME NEW a \in Arms, NEW joint \in Joint, NEW good \in BOOLEAN, Answer(a, joint, good) PROVE Numbers'
    BY <1>0, <1>10 DEF Numbers, Answer, dispatch, pair, supervisor, progress
  <1>11. ASSUME NEW a \in Arms, NEW joint \in Joint, Lost(a, joint) PROVE Numbers'
    BY <1>0, <1>11 DEF Numbers, Lost, dispatch, pair, readers, supervisor, progress
  <1>12. ASSUME Elapse PROVE Numbers'
    <2>1. UpTo(age, ReadTimeout) \in 0..ReadTimeout
      BY <1>0 DEF UpTo, Numbers, BusesAssumption
    <2>2. UpTo(settleAge, SettleMax + 1) \in 0..(SettleMax + 1)
      BY <1>0 DEF UpTo, Numbers, BusesAssumption
    <2>3. QED
      BY <1>0, <1>12, <2>1, <2>2 DEF Numbers, Elapse, dispatch
  <1>21. /\ StreakOf(Poll) \in 0..FailureLimit
         /\ 0 \in 0..ReadTimeout
         /\ (nextJoint + 1) % Joints \in Joint
    BY <1>0, StreakStep, Remainder DEF Numbers, Joint, BusesAssumption
  <1>13. ASSUME TrackStops PROVE Numbers'
    BY <1>0, <1>13, <1>21 DEF Numbers, TrackStops, Tracks, PollOnly, Follow
  <1>14. ASSUME NEW good \in BOOLEAN, TrackRefused(good) PROVE Numbers'
    BY <1>0, <1>14, <1>21, SettledType DEF Numbers, TrackRefused, Tracks, Asks, Follow
  <1>15. ASSUME NEW good \in BOOLEAN, TrackAsks(good) PROVE Numbers'
    BY <1>0, <1>15, <1>21, SettledType DEF Numbers, TrackAsks, Tracks, Asks, AskPair, Follow
  <1>16. ASSUME NEW good \in BOOLEAN, TrackOnly(good) PROVE Numbers'
    BY <1>0, <1>16, <1>21, SettledType DEF Numbers, TrackOnly, Tracks, PollOnly, Follow
  <1>17. ASSUME NEW good \in BOOLEAN, TrackSettles(good) PROVE Numbers'
    BY <1>0, <1>17, <1>21, SettledType DEF Numbers, TrackSettles, Tracks, PollOnly, Follow
  <1>20. QED
    BY <1>1, <1>2, <1>3, <1>4, <1>5, <1>6, <1>7, <1>8, <1>9, <1>10, <1>11, <1>12, <1>13, <1>14, <1>15, <1>16, <1>17
    DEF Next, Service, HostStop, LaunchStep, Tick, TrackSome, Interrupts, Servos

LEMMA ArmStep == BusesAssumption /\ IInv /\ Next => PerArm'
  <1> SUFFICES ASSUME BusesAssumption, IInv, Next PROVE PerArm'
    OBVIOUS
  <1>0. TypeOK /\ PerArm /\ CountersKept
    BY TypeParts DEF IInv
  <1>1. ASSUME NEW fault \in BOOLEAN, PerformStop(fault) PROVE PerArm'
    BY <1>0, <1>1, EndType, AllFacts DEF PerArm, PerformStop, LatchFault
  <1>2. ASSUME BeginStream PROVE PerArm'
    BY <1>0, <1>2, AllFacts DEF PerArm, BeginStream, dispatch
  <1>3. ASSUME TickStops PROVE PerArm'
    BY <1>0, <1>3, StopType DEF PerArm, TickStops, pair, readers, progress
  <1>4. ASSUME LaunchLeft PROVE PerArm'
    BY <1>0, <1>4, StopType DEF PerArm, LaunchLeft, Transmit, pair, readers, progress
  <1>5. ASSUME LaunchRight PROVE PerArm'
    BY <1>0, <1>5, StopType DEF PerArm, LaunchRight, Transmit, pair, readers, progress
  <1>6. ASSUME LaunchCheck PROVE PerArm'
    BY <1>0, <1>6, StopType DEF PerArm, LaunchCheck, pair, readers, progress
  <1>7. ASSUME NEW terminal \in BOOLEAN, LaunchBegin(terminal) PROVE PerArm'
    BY <1>0, <1>7 DEF PerArm, LaunchBegin, pair, readers
  <1>8. ASSUME NEW a \in Arms, TxComplete(a) PROVE PerArm'
    <2>1. sent' \in [Arms -> BOOLEAN]
      BY <1>0, <1>8 DEF PerArm, TxComplete
    <2>2. owed' \in [Arms -> SUBSET Joint]
      BY <1>0, <1>8, TypeParts DEF PerArm, Numbers, TxComplete
    <2>3. done' \in SUBSET Arms /\ reached' \in SUBSET Arms
      BY <1>0, <1>8 DEF PerArm, TxComplete, Complete
    <2>4. tx' \in [Arms -> {"IDLE", "SETPOINT", "REQUEST"}]
      BY <1>0, <1>8 DEF PerArm, TxComplete
    <2>5. QED
      BY <1>0, <1>8, <2>1, <2>2, <2>3, <2>4 DEF PerArm, TxComplete
  <1>9. ASSUME NEW a \in Arms, LineError(a) PROVE PerArm'
    BY <1>0, <1>9 DEF PerArm, LineError, Fail, pair, supervisor, progress
  <1>10. ASSUME NEW a \in Arms, NEW joint \in Joint, NEW good \in BOOLEAN, Answer(a, joint, good) PROVE PerArm'
    BY <1>0, <1>10 DEF PerArm, Answer, dispatch, pair, supervisor, progress
  <1>11. ASSUME NEW a \in Arms, NEW joint \in Joint, Lost(a, joint) PROVE PerArm'
    BY <1>0, <1>11 DEF PerArm, Lost, dispatch, pair, readers, supervisor, progress
  <1>12. ASSUME Elapse PROVE PerArm'
    BY <1>0, <1>12 DEF PerArm, Elapse, dispatch, readers
  <1>13. ASSUME TrackStops PROVE PerArm'
    BY <1>0, <1>13, StopType, PolledType DEF PerArm, TrackStops, Tracks, PollOnly, Follow
  <1>14. ASSUME NEW good \in BOOLEAN, TrackRefused(good) PROVE PerArm'
    BY <1>0, <1>14, StopType, EndType, PolledType DEF PerArm, TrackRefused, Tracks, Asks, Follow
  <1>15. ASSUME NEW good \in BOOLEAN, TrackAsks(good) PROVE PerArm'
    BY <1>0, <1>15, StopType, PolledType, AllFacts DEF PerArm, TrackAsks, Tracks, Asks, AskPair, Follow
  <1>16. ASSUME NEW good \in BOOLEAN, TrackOnly(good) PROVE PerArm'
    BY <1>0, <1>16, StopType, PolledType DEF PerArm, TrackOnly, Tracks, PollOnly, Follow
  <1>17. ASSUME NEW good \in BOOLEAN, TrackSettles(good) PROVE PerArm'
    <2>1. answered' \in SUBSET Arms /\ last' \in [Arms -> Joint]
      BY <1>0, <1>17, PolledType DEF PerArm, TrackSettles, PollOnly, Follow
    <2>2. CASE PollOnly /\ RequestStop
      BY <1>0, <1>17, <2>1, <2>2, StopType, PolledType DEF PerArm, TrackSettles, Tracks, PollOnly
    <2>3. CASE EndReaders /\ tx' = All("IDLE") /\ UNCHANGED lineError
      BY <1>0, <1>17, <2>1, <2>3, EndType, AllFacts DEF PerArm, TrackSettles, Tracks
    <2>4. QED
      BY <1>17, <2>2, <2>3 DEF TrackSettles
  <1>20. QED
    BY <1>1, <1>2, <1>3, <1>4, <1>5, <1>6, <1>7, <1>8, <1>9, <1>10, <1>11, <1>12, <1>13, <1>14, <1>15, <1>16, <1>17
    DEF Next, Service, HostStop, LaunchStep, Tick, TrackSome, Interrupts, Servos

-----------------------------------------------------------------------------
(* The other parts of the invariant *)

\* What a reader that a poll leaves idle has: the answer it had, or one just accepted.
LEMMA PollReads ==
    ASSUME TypeOK, ReadsKept, PollOnly
    PROVE  ReadsKept'
  <1> SUFFICES ASSUME pending', NEW a \in Arms, reader'[a] = "IDLE"
               PROVE  a \in answered'
    BY DEF ReadsKept
  <1>1. pending /\ ~AnyRead("FAILED") /\ Polled(a) = "IDLE"
    BY PollFacts DEF PollOnly
  <1>2. ReadOf(a) = "OK"
    BY <1>1, PollFacts DEF Polled, AnyRead, Waiting, ReadOf
  <1>3. CASE reader[a] = "IDLE"
    BY <1>1, <1>3 DEF ReadsKept, PollOnly
  <1>4. CASE reader[a] # "IDLE"
    BY <1>1, <1>2, <1>4 DEF Accepts, PollOnly
  <1>5. QED
    BY <1>3, <1>4

LEMMA CountersStep == BusesAssumption /\ IInv /\ Next => CountersKept'
  <1> SUFFICES ASSUME BusesAssumption, IInv, Next PROVE CountersKept'
    OBVIOUS
  <1>0. TypeOK /\ Flags /\ Numbers /\ CountersKept
    BY TypeParts DEF IInv
  <1>1. ASSUME NEW fault \in BOOLEAN, PerformStop(fault) PROVE CountersKept'
    BY <1>0, <1>1 DEF CountersKept, PerformStop, LatchFault, EndReaders
  <1>2. ASSUME BeginStream PROVE CountersKept'
    BY <1>0, <1>2 DEF CountersKept, BeginStream, dispatch
  <1>3. ASSUME TickStops PROVE CountersKept'
    BY <1>0, <1>3, StopType DEF CountersKept, TickStops, pair, readers, progress
  <1>4. ASSUME LaunchLeft PROVE CountersKept'
    <2>1. launched < MaxLaunches /\ ~pending
      BY <1>4 DEF LaunchLeft, MayLaunch
    <2>2. UNCHANGED <<completed, launched, pending, streak, settling, settled>>
      BY <1>4 DEF LaunchLeft, Transmit, pair, progress
    <2>3. (active' => active) /\ (faulted => faulted')
      <3>1. CASE RequestStop
        BY <3>1, StopType
      <3>2. CASE UNCHANGED <<active, faulted>>
        BY <3>2
      <3>3. QED
        BY <1>4, <3>1, <3>2 DEF LaunchLeft, Transmit
    <2>4. QED
      BY <1>0, <2>1, <2>2, <2>3 DEF CountersKept
  <1>5. ASSUME LaunchRight PROVE CountersKept'
    <2>1. UNCHANGED <<completed, launched, pending, streak, settling, settled>>
      BY <1>5 DEF LaunchRight, Transmit, pair, progress
    <2>2. (active' => active) /\ (faulted => faulted')
      <3>1. CASE RequestStop
        BY <3>1, StopType
      <3>2. CASE UNCHANGED <<active, faulted>>
        BY <3>2
      <3>3. QED
        BY <1>5, <3>1, <3>2 DEF LaunchRight, Transmit
    <2>3. pc # "LOOP"
      BY <1>5 DEF LaunchRight
    <2>4. QED
      BY <1>0, <2>1, <2>2, <2>3 DEF CountersKept
  <1>6. ASSUME LaunchCheck PROVE CountersKept'
    BY <1>0, <1>6, StopType DEF CountersKept, LaunchCheck, pair, readers, progress
  <1>7. ASSUME NEW terminal \in BOOLEAN, LaunchBegin(terminal) PROVE CountersKept'
    <2>1. completed <= launched + 1 /\ completed < launched + 1
      BY <1>0 DEF CountersKept, Numbers, Counts
    <2>2. pc' = "LOOP" /\ ~pending'
      BY <1>0, <1>7 DEF LaunchBegin, CountersKept, pair
    <2>3. completed' = completed /\ launched' = launched + 1
      BY <1>7 DEF LaunchBegin
    <2>4. UNCHANGED <<streak, faulted, pending>>
      BY <1>7 DEF LaunchBegin, pair
    <2>5. QED
      BY <1>0, <2>1, <2>2, <2>3, <2>4 DEF CountersKept
  <1>8. ASSUME NEW a \in Arms, TxComplete(a) PROVE CountersKept'
    <2>1. completed' <= launched /\ (active' => completed' < launched)
      <3>1. CASE active
        <4>1. completed < launched /\ completed \in Nat /\ launched \in Nat
          BY <1>0, <3>1 DEF CountersKept, Numbers, Counts
        <4>2. \/ completed' = completed
              \/ completed' = completed + 1 /\ ~active'
          BY <1>8, <3>1 DEF TxComplete, Complete
        <4>3. QED
          BY <4>1, <4>2
      <3>2. CASE ~active
        BY <1>0, <1>8, <3>2 DEF TxComplete, CountersKept
      <3>3. QED
        BY <3>1, <3>2
    <2>2. UNCHANGED <<launched, pending, streak, settling, settled, pc>> /\ (faulted => faulted')
      BY <1>8 DEF TxComplete, Complete, Fail, pair, supervisor, progress
    <2>3. QED
      BY <1>0, <2>1, <2>2 DEF CountersKept
  <1>9. ASSUME NEW a \in Arms, LineError(a) PROVE CountersKept'
    BY <1>0, <1>9 DEF CountersKept, LineError, Fail, pair, supervisor, progress
  <1>10. ASSUME NEW a \in Arms, NEW joint \in Joint, NEW good \in BOOLEAN, Answer(a, joint, good) PROVE CountersKept'
    BY <1>0, <1>10 DEF CountersKept, Answer, dispatch, pair, supervisor, progress
  <1>11. ASSUME NEW a \in Arms, NEW joint \in Joint, Lost(a, joint) PROVE CountersKept'
    BY <1>0, <1>11 DEF CountersKept, Lost, dispatch, pair, readers, supervisor, progress
  <1>12. ASSUME Elapse PROVE CountersKept'
    BY <1>0, <1>12 DEF CountersKept, Elapse, dispatch, readers
  <1>13. ASSUME TrackStops PROVE CountersKept'
    BY <1>0, <1>13, StopType, StreakStep, PollFacts DEF CountersKept, TrackStops, Tracks, PollOnly, Follow
  <1>14. ASSUME NEW good \in BOOLEAN, TrackRefused(good) PROVE CountersKept'
    BY <1>0, <1>14, StopType, EndType, StreakStep, PollFacts DEF CountersKept, TrackRefused, Tracks, Asks, Follow
  <1>15. ASSUME NEW good \in BOOLEAN, TrackAsks(good) PROVE CountersKept'
    <2>1. streak' < FailureLimit
      BY <1>0, <1>15, StreakStep, PollFacts
         DEF TrackAsks, MayRequest, Ready, AskPair, Asks, Follow
    <2>2. settling => settled' < SettlePairs
      BY <1>15 DEF TrackAsks, MayRequest
    <2>3. ~active' /\ pc' = "LOOP"
      BY <1>15, StopType DEF TrackAsks, Tracks, MayRequest, Ready
    <2>4. UNCHANGED <<completed, launched, settling>>
      BY <1>15 DEF TrackAsks, Tracks
    <2>5. QED
      BY <1>0, <2>1, <2>2, <2>3, <2>4 DEF CountersKept
  <1>16. ASSUME NEW good \in BOOLEAN, TrackOnly(good) PROVE CountersKept'
    <2>1. streak' < FailureLimit \/ (faulted /\ ~pending)
      BY <1>0, <1>16, StreakStep DEF TrackOnly, PollOnly, Follow
    <2>2. pending' => pending /\ settled' = settled
      BY <1>16, PollFacts DEF TrackOnly, PollOnly, SettledOf
    <2>3. (active' => active) /\ (faulted => faulted')
      <3>1. CASE RequestStop
        BY <3>1, StopType
      <3>2. CASE UNCHANGED <<active, faulted>>
        BY <3>2
      <3>3. QED
        BY <1>16, <3>1, <3>2 DEF TrackOnly
    <2>6. pc' = "LOOP"
      BY <1>16 DEF TrackOnly, Tracks
    <2>4. UNCHANGED <<completed, launched, settling>>
      BY <1>16 DEF TrackOnly, Tracks
    <2>5. QED
      BY <1>0, <2>1, <2>2, <2>3, <2>4, <2>6 DEF CountersKept
  <1>17. ASSUME NEW good \in BOOLEAN, TrackSettles(good) PROVE CountersKept'
    <2>1. streak' < FailureLimit \/ (faulted /\ ~pending)
      BY <1>0, <1>17, StreakStep DEF TrackSettles, PollOnly, Follow
    <2>2. ~pending'
      BY <1>17, EndType DEF TrackSettles, Settled, PollOnly
    <2>3. (active' => active) /\ (faulted => faulted')
      <3>1. CASE RequestStop
        BY <3>1, StopType
      <3>2. CASE UNCHANGED <<active, faulted>>
        BY <3>2
      <3>3. QED
        BY <1>17, <3>1, <3>2 DEF TrackSettles
    <2>6. pc' = "LOOP"
      BY <1>17 DEF TrackSettles, Tracks
    <2>4. UNCHANGED <<completed, launched>>
      BY <1>17 DEF TrackSettles, Tracks
    <2>5. QED
      BY <1>0, <2>1, <2>2, <2>3, <2>4, <2>6 DEF CountersKept
  <1>30. QED
    BY <1>1, <1>2, <1>3, <1>4, <1>5, <1>6, <1>7, <1>8, <1>9, <1>10, <1>11, <1>12, <1>13, <1>14, <1>15, <1>16, <1>17
    DEF Next, Service, HostStop, LaunchStep, Tick, TrackSome, Interrupts, Servos

LEMMA LinesStep == BusesAssumption /\ IInv /\ Next => LinesOwned'
  <1> SUFFICES ASSUME BusesAssumption, IInv, Next PROVE LinesOwned'
    OBVIOUS
  <1>0. TypeOK /\ Flags /\ Numbers /\ PerArm /\ CountersKept /\ LinesOwned
    BY TypeParts DEF IInv
  <1>1. ASSUME NEW fault \in BOOLEAN, PerformStop(fault) PROVE LinesOwned'
    <2>1. \A a \in Arms : tx'[a] = "IDLE"
      BY <1>1 DEF PerformStop, LatchFault, All
    <2>2. ~active' /\ ~stopPending' /\ ~settling' /\ pc' = "LOOP"
      BY <1>1 DEF PerformStop, LatchFault
    <2>3. ~faulted' => ~faulted /\ ~active /\ pc = "LOOP"
      BY <1>1 DEF PerformStop, LatchFault
    <2>4. UNCHANGED <<launched, reached>>
      BY <1>1 DEF PerformStop
    <2>5. QED
      BY <1>0, <2>1, <2>2, <2>3, <2>4 DEF LinesOwned
  <1>2. ASSUME BeginStream PROVE LinesOwned'
    BY <1>0, <1>2 DEF LinesOwned, BeginStream, dispatch
  <1>3. ASSUME TickStops PROVE LinesOwned'
    BY <1>0, <1>3, StopType DEF LinesOwned, TickStops, pair, readers, progress
  <1>4. ASSUME LaunchLeft PROVE LinesOwned'
    <2>1. CASE RequestStop /\ pc' = "LOOP"
      BY <1>0, <1>4, <2>1, StopType DEF LinesOwned, LaunchLeft, Transmit, progress
    <2>2. CASE tx' = [tx EXCEPT !["left"] = "SETPOINT"] /\ pc' = "LEFT_SENT"
      <3>1. ~active' /\ ~stopPending'
        BY <1>0, <1>4, <2>2 DEF LaunchLeft, Transmit, MayLaunch, Ready, LinesOwned
      <3>2. tx'["left"] = "SETPOINT"
        BY <1>0, <2>2 DEF PerArm, Arms
      <3>3. UNCHANGED <<settling, launched>>
        BY <1>4 DEF LaunchLeft, Transmit, progress
      <3>4. QED
        BY <1>0, <2>2, <3>1, <3>2, <3>3 DEF LinesOwned
    <2>3. QED
      BY <1>4, <2>1, <2>2 DEF LaunchLeft, Transmit
  <1>5. ASSUME LaunchRight PROVE LinesOwned'
    <2>1. CASE RequestStop /\ pc' = "LOOP"
      BY <1>0, <1>5, <2>1, StopType DEF LinesOwned, LaunchRight, Transmit, progress
    <2>2. CASE tx' = [tx EXCEPT !["right"] = "SETPOINT"] /\ pc' = "BOTH_SENT"
      <3>1. ~active' /\ ~stopPending'
        BY <1>0, <1>5, <2>2 DEF LaunchRight, Transmit, LinesOwned
      <3>2. \A a \in Arms : tx'[a] # "REQUEST"
        BY <1>0, <1>5, <2>2 DEF LaunchRight, LinesOwned, PerArm, Arms
      <3>3. UNCHANGED <<settling, launched>>
        BY <1>5 DEF LaunchRight, Transmit, progress
      <3>4. QED
        BY <1>0, <2>2, <3>1, <3>2, <3>3 DEF LinesOwned
    <2>3. QED
      BY <1>5, <2>1, <2>2 DEF LaunchRight, Transmit
  <1>6. ASSUME LaunchCheck PROVE LinesOwned'
    BY <1>0, <1>6, StopType DEF LinesOwned, LaunchCheck, pair, readers, progress
  <1>7. ASSUME NEW terminal \in BOOLEAN, LaunchBegin(terminal) PROVE LinesOwned'
    <2>1. launched' > 0
      BY <1>0, <1>7 DEF LaunchBegin, Numbers, Counts
    <2>2. pc' = "LOOP" /\ active' = TRUE /\ done' = {}
      BY <1>7 DEF LaunchBegin
    <2>3. (stopPending' => faulted') /\ \A a \in Arms : tx'[a] # "REQUEST"
      BY <1>0, <1>7 DEF LaunchBegin, LinesOwned
    <2>4. QED
      BY <2>1, <2>2, <2>3 DEF LinesOwned
  <1>8. ASSUME NEW a \in Arms, TxComplete(a) PROVE LinesOwned'
    <2>1. UNCHANGED <<pc, stopPending, settling, launched>> /\ (faulted => faulted')
      BY <1>8 DEF TxComplete, Complete, Fail, supervisor, progress
    <2>2. \A b \in Arms : tx'[b] = IF b = a THEN "IDLE" ELSE tx[b]
      BY <1>0, <1>8 DEF TxComplete, PerArm
    <2>3. reached \subseteq reached' /\ (tx[a] = "SETPOINT" => a \in reached')
      BY <1>8 DEF TxComplete
    <2>4. active => tx[a] = "SETPOINT"
      BY <1>0, <1>8 DEF TxComplete, LinesOwned, PerArm
    <2>5. CASE ~active
      <3>1. UNCHANGED <<active, done, faulted>>
        BY <1>8, <2>5 DEF TxComplete
      <3>2. pc = "LOOP" /\ ~faulted => tx[a] # "SETPOINT" /\ reached' = reached
        BY <1>0, <1>8, <2>5 DEF LinesOwned, TxComplete
      <3>3. (pc # "LOOP" => ~active' /\ ~stopPending') /\ (stopPending' => faulted')
        BY <1>0, <2>1, <2>5, <3>1 DEF LinesOwned
      <3>4. \A b \in Arms : tx[b] # "REQUEST" => tx'[b] # "REQUEST"
        BY <2>2
      <3>5. pc \in {"BOTH_SENT", "CHECKED"} => \A b \in Arms : tx'[b] # "REQUEST"
        BY <1>0, <3>4 DEF LinesOwned
      <3>6. pc = "LEFT_SENT" => tx'["left"] # "REQUEST"
        BY <1>0, <3>4 DEF LinesOwned, Arms
      <3>7. pc = "LOOP" /\ ~faulted =>
               /\ \A b \in Arms : tx'[b] # "SETPOINT"
               /\ launched > 0 => reached' = Arms
        BY <1>0, <2>2, <2>5, <3>2 DEF LinesOwned
      <3>8. settling => launched > 0
        BY <1>0 DEF LinesOwned
      <3>9. QED
        BY <2>1, <2>5, <3>1, <3>3, <3>5, <3>6, <3>7, <3>8 DEF LinesOwned
    <2>6. CASE active
      <3>1. pc = "LOOP"
        BY <1>0, <2>6 DEF LinesOwned
      <3>2. CASE faulted \/ a \in done
        <4>1. faulted' = TRUE /\ active' = FALSE
          BY <1>8, <2>6, <3>2 DEF TxComplete, Complete, Fail
        <4>2. QED
          BY <1>0, <2>1, <3>1, <4>1 DEF LinesOwned
      <3>3. CASE ~(faulted \/ a \in done)
        <4>1. done' = done \cup {a} /\ active' = (done' # Arms)
          BY <1>8, <2>6, <3>3 DEF TxComplete, Complete
        <4>2. \A b \in done' : b \in reached' /\ tx'[b] = "IDLE"
          BY <1>0, <2>2, <2>3, <2>4, <2>6, <4>1 DEF LinesOwned, PerArm
        <4>3. \A b \in Arms : tx'[b] # "REQUEST"
          BY <1>0, <2>2, <2>6 DEF LinesOwned
        <4>4. ~active' => reached' = Arms /\ \A b \in Arms : tx'[b] # "SETPOINT"
          <5>1. reached' \subseteq Arms
            BY <1>0, <1>8 DEF TxComplete, PerArm
          <5>2. QED
            BY <4>1, <4>2, <5>1
        <4>5. QED
          BY <1>0, <2>1, <3>1, <4>2, <4>3, <4>4 DEF LinesOwned
      <3>4. QED
        BY <3>2, <3>3
    <2>7. QED
      BY <2>5, <2>6
  <1>9. ASSUME NEW a \in Arms, LineError(a) PROVE LinesOwned'
    BY <1>0, <1>9 DEF LinesOwned, LineError, Fail, pair, supervisor, progress
  <1>10. ASSUME NEW a \in Arms, NEW joint \in Joint, NEW good \in BOOLEAN, Answer(a, joint, good) PROVE LinesOwned'
    BY <1>0, <1>10 DEF LinesOwned, Answer, dispatch, pair, supervisor, progress
  <1>11. ASSUME NEW a \in Arms, NEW joint \in Joint, Lost(a, joint) PROVE LinesOwned'
    BY <1>0, <1>11 DEF LinesOwned, Lost, dispatch, pair, readers, supervisor, progress
  <1>12. ASSUME Elapse PROVE LinesOwned'
    BY <1>0, <1>12 DEF LinesOwned, Elapse, dispatch, readers
  <1>13. ASSUME TrackStops PROVE LinesOwned'
    BY <1>0, <1>13, StopType DEF LinesOwned, TrackStops, Tracks, PollOnly, Follow
  <1>14. ASSUME NEW good \in BOOLEAN, TrackRefused(good) PROVE LinesOwned'
    BY <1>0, <1>14, StopType, EndType DEF LinesOwned, TrackRefused, Tracks, Asks, Follow
  <1>15. ASSUME NEW good \in BOOLEAN, TrackAsks(good) PROVE LinesOwned'
    <2>1. ~active /\ ~faulted /\ pc = "LOOP" /\ pc' = "LOOP"
      BY <1>15 DEF TrackAsks, Tracks, MayRequest, Ready
    <2>2. UNCHANGED <<launched, reached, settling>>
      BY <1>15 DEF TrackAsks, Tracks
    <2>3. CASE RequestStop
      BY <1>0, <2>1, <2>2, <2>3, StopType DEF LinesOwned
    <2>4. CASE tx' = All("REQUEST") /\ UNCHANGED <<active, faulted, stopPending>>
      <3>1. \A a \in Arms : tx'[a] # "SETPOINT"
        BY <2>4 DEF All
      <3>2. QED
        BY <1>0, <2>1, <2>2, <2>4, <3>1 DEF LinesOwned
    <2>5. QED
      BY <1>15, <2>3, <2>4 DEF TrackAsks
  <1>16. ASSUME NEW good \in BOOLEAN, TrackOnly(good) PROVE LinesOwned'
    BY <1>0, <1>16, StopType DEF LinesOwned, TrackOnly, Tracks, PollOnly, Follow
  <1>17. ASSUME NEW good \in BOOLEAN, TrackSettles(good) PROVE LinesOwned'
    <2>1. UNCHANGED <<launched, reached>> /\ pc = "LOOP" /\ pc' = "LOOP" /\ settling
      BY <1>17 DEF TrackSettles, Tracks, Settled
    <2>2. CASE RequestStop
      BY <1>0, <2>1, <2>2, StopType DEF LinesOwned
    <2>3. CASE tx' = All("IDLE") /\ UNCHANGED <<active, faulted, stopPending>>
      <3>1. \A a \in Arms : tx'[a] = "IDLE"
        BY <2>3 DEF All
      <3>2. ~active
        BY <1>17 DEF TrackSettles, Settled, Ready
      <3>3. QED
        BY <1>0, <2>1, <2>3, <3>1, <3>2 DEF LinesOwned
    <2>4. QED
      BY <1>17, <2>2, <2>3 DEF TrackSettles
  <1>30. QED
    BY <1>1, <1>2, <1>3, <1>4, <1>5, <1>6, <1>7, <1>8, <1>9, <1>10, <1>11, <1>12, <1>13, <1>14, <1>15, <1>16, <1>17
    DEF Next, Service, HostStop, LaunchStep, Tick, TrackSome, Interrupts, Servos

LEMMA ReadsStep == BusesAssumption /\ IInv /\ Next => ReadsKept'
  <1> SUFFICES ASSUME BusesAssumption, IInv, Next PROVE ReadsKept'
    OBVIOUS
  <1>0. TypeOK /\ CountersKept /\ ReadsKept
    BY TypeParts DEF IInv
  <1>1. ASSUME NEW fault \in BOOLEAN, PerformStop(fault) PROVE ReadsKept'
    BY <1>0, <1>1 DEF ReadsKept, PerformStop, LatchFault, EndReaders
  <1>2. ASSUME BeginStream PROVE ReadsKept'
    BY <1>0, <1>2 DEF ReadsKept, BeginStream, dispatch
  <1>3. ASSUME TickStops PROVE ReadsKept'
    BY <1>0, <1>3, StopType DEF ReadsKept, TickStops, pair, readers, progress
  <1>4. ASSUME LaunchLeft PROVE ReadsKept'
    BY <1>0, <1>4, StopType DEF ReadsKept, LaunchLeft, Transmit, MayLaunch, Ready, pair, readers, progress
  <1>5. ASSUME LaunchRight PROVE ReadsKept'
    BY <1>0, <1>5, StopType DEF ReadsKept, LaunchRight, Transmit, pair, readers, progress
  <1>6. ASSUME LaunchCheck PROVE ReadsKept'
    BY <1>0, <1>6, StopType DEF ReadsKept, LaunchCheck, pair, readers, progress
  <1>7. ASSUME NEW terminal \in BOOLEAN, LaunchBegin(terminal) PROVE ReadsKept'
    BY <1>0, <1>7 DEF ReadsKept, LaunchBegin, pair, readers
  <1>8. ASSUME NEW a \in Arms, TxComplete(a) PROVE ReadsKept'
    BY <1>0, <1>8 DEF ReadsKept, TxComplete, Complete, Fail, pair, supervisor, progress
  <1>9. ASSUME NEW a \in Arms, LineError(a) PROVE ReadsKept'
    BY <1>0, <1>9 DEF ReadsKept, LineError, Fail, pair, supervisor, progress
  <1>10. ASSUME NEW a \in Arms, NEW joint \in Joint, NEW good \in BOOLEAN, Answer(a, joint, good) PROVE ReadsKept'
    BY <1>0, <1>10 DEF ReadsKept, Answer, dispatch, pair, supervisor, progress
  <1>11. ASSUME NEW a \in Arms, NEW joint \in Joint, Lost(a, joint) PROVE ReadsKept'
    BY <1>0, <1>11 DEF ReadsKept, Lost, dispatch, pair, readers, supervisor, progress
  <1>12. ASSUME Elapse PROVE ReadsKept'
    BY <1>0, <1>12 DEF ReadsKept, Elapse, dispatch, readers
  <1>13. ASSUME TrackStops PROVE ReadsKept'
    BY <1>0, <1>13, StopType DEF ReadsKept, TrackStops, Tracks, PollOnly, Follow
  <1>14. ASSUME NEW good \in BOOLEAN, TrackRefused(good) PROVE ReadsKept'
    BY <1>0, <1>14, StopType, EndType DEF ReadsKept, TrackRefused, Tracks, Asks, Follow
  <1>15. ASSUME NEW good \in BOOLEAN, TrackAsks(good) PROVE ReadsKept'
    <2>1. \A a \in Arms : reader'[a] = "TX"
      BY <1>15 DEF TrackAsks, AskPair, All
    <2>2. QED
      BY <2>1 DEF ReadsKept
  <1>16. ASSUME NEW good \in BOOLEAN, TrackOnly(good) PROVE ReadsKept'
    BY <1>0, <1>16, PollReads DEF TrackOnly
  <1>17. ASSUME NEW good \in BOOLEAN, TrackSettles(good) PROVE ReadsKept'
    BY <1>17, EndType DEF TrackSettles, Settled, PollOnly, ReadsKept
  <1>30. QED
    BY <1>1, <1>2, <1>3, <1>4, <1>5, <1>6, <1>7, <1>8, <1>9, <1>10, <1>11, <1>12, <1>13, <1>14, <1>15, <1>16, <1>17
    DEF Next, Service, HostStop, LaunchStep, Tick, TrackSome, Interrupts, Servos

LEMMA SilentStep == BusesAssumption /\ IInv /\ Next => StoppedIsSilent'
  <1> SUFFICES ASSUME BusesAssumption, IInv, Next PROVE StoppedIsSilent'
    OBVIOUS
  <1>0. TypeOK /\ LinesOwned /\ StoppedIsSilent
    BY TypeParts DEF IInv
  <1>1. ASSUME NEW fault \in BOOLEAN, PerformStop(fault) PROVE StoppedIsSilent'
    BY <1>0, <1>1 DEF StoppedIsSilent, LinesOwned, PerformStop, LatchFault, EndReaders
  <1>2. ASSUME BeginStream PROVE StoppedIsSilent'
    <2>1. stopPending => tx' = tx
      BY <1>0, <1>2 DEF BeginStream, StoppedIsSilent, All
    <2>2. stopPending' = stopPending
      BY <1>2 DEF BeginStream
    <2>3. QED
      BY <1>0, <2>1, <2>2 DEF StoppedIsSilent, All
  <1>3. ASSUME TickStops PROVE StoppedIsSilent'
    BY <1>0, <1>3, StopType DEF StoppedIsSilent, LinesOwned, TickStops, pair, readers, progress
  <1>4. ASSUME LaunchLeft PROVE StoppedIsSilent'
    BY <1>0, <1>4, StopType DEF StoppedIsSilent, LinesOwned, LaunchLeft, Transmit, MayLaunch, Ready, pair, readers, progress
  <1>5. ASSUME LaunchRight PROVE StoppedIsSilent'
    BY <1>0, <1>5, StopType DEF StoppedIsSilent, LinesOwned, LaunchRight, Transmit, pair, readers, progress
  <1>6. ASSUME LaunchCheck PROVE StoppedIsSilent'
    BY <1>0, <1>6, StopType DEF StoppedIsSilent, LinesOwned, LaunchCheck, pair, readers, progress
  <1>7. ASSUME NEW terminal \in BOOLEAN, LaunchBegin(terminal) PROVE StoppedIsSilent'
    BY <1>0, <1>7 DEF StoppedIsSilent, LinesOwned, LaunchBegin, pair, readers
  <1>8. ASSUME NEW a \in Arms, TxComplete(a) PROVE StoppedIsSilent'
    <2>1. ~stopPending
      BY <1>0, <1>8 DEF StoppedIsSilent, TxComplete, All
    <2>2. QED
      BY <1>8, <2>1 DEF StoppedIsSilent, TxComplete, supervisor
  <1>9. ASSUME NEW a \in Arms, LineError(a) PROVE StoppedIsSilent'
    BY <1>0, <1>9 DEF StoppedIsSilent, LinesOwned, LineError, Fail, pair, supervisor, progress
  <1>10. ASSUME NEW a \in Arms, NEW joint \in Joint, NEW good \in BOOLEAN, Answer(a, joint, good) PROVE StoppedIsSilent'
    BY <1>0, <1>10 DEF StoppedIsSilent, LinesOwned, Answer, dispatch, pair, supervisor, progress
  <1>11. ASSUME NEW a \in Arms, NEW joint \in Joint, Lost(a, joint) PROVE StoppedIsSilent'
    BY <1>0, <1>11 DEF StoppedIsSilent, LinesOwned, Lost, dispatch, pair, readers, supervisor, progress
  <1>12. ASSUME Elapse PROVE StoppedIsSilent'
    BY <1>0, <1>12 DEF StoppedIsSilent, LinesOwned, Elapse, dispatch, readers
  <1>13. ASSUME TrackStops PROVE StoppedIsSilent'
    BY <1>0, <1>13, StopType DEF StoppedIsSilent, LinesOwned, TrackStops, Tracks, PollOnly, Follow
  <1>14. ASSUME NEW good \in BOOLEAN, TrackRefused(good) PROVE StoppedIsSilent'
    BY <1>0, <1>14, StopType, EndType DEF StoppedIsSilent, LinesOwned, TrackRefused, Tracks, Asks, Follow
  <1>15. ASSUME NEW good \in BOOLEAN, TrackAsks(good) PROVE StoppedIsSilent'
    <2>1. ~stopPending
      BY <1>0, <1>15 DEF LinesOwned, TrackAsks, MayRequest, Ready
    <2>2. QED
      BY <1>15, <2>1, StopType DEF StoppedIsSilent, TrackAsks, All
  <1>16. ASSUME NEW good \in BOOLEAN, TrackOnly(good) PROVE StoppedIsSilent'
    BY <1>0, <1>16, StopType DEF StoppedIsSilent, LinesOwned, TrackOnly, Tracks, PollOnly, Follow
  <1>17. ASSUME NEW good \in BOOLEAN, TrackSettles(good) PROVE StoppedIsSilent'
    BY <1>0, <1>17, StopType, EndType DEF StoppedIsSilent, LinesOwned, TrackSettles, Tracks, PollOnly, Follow
  <1>30. QED
    BY <1>1, <1>2, <1>3, <1>4, <1>5, <1>6, <1>7, <1>8, <1>9, <1>10, <1>11, <1>12, <1>13, <1>14, <1>15, <1>16, <1>17
    DEF Next, Service, HostStop, LaunchStep, Tick, TrackSome, Interrupts, Servos

THEOREM InvariantStep == BusesAssumption /\ IInv /\ [Next]_vars => IInv'
  <1> SUFFICES ASSUME BusesAssumption, IInv, [Next]_vars PROVE IInv'
    OBVIOUS
  <1>1. CASE Next
    BY <1>1, FlagStep, NumberStep, ArmStep, TypeParts, CountersStep, LinesStep, ReadsStep, SilentStep
       DEF IInv
  <1>2. CASE UNCHANGED vars
    BY <1>2 DEF vars, dispatch, pair, readers, supervisor, progress, IInv, TypeOK, CountersKept,
                LinesOwned, ReadsKept, StoppedIsSilent
  <1>3. QED
    BY <1>1, <1>2

\* The counts of the dispatch and of the pairs, the owner of each line and the
\* silence after a stop hold in every state, whatever the interrupts do.
THEOREM BusesInvariant == Spec => []IInv
  <1>1. QED
    BY BusesAssumption, InitInvariant, InvariantStep, PTL DEF Spec

\* No line carries anything between the request of a coordinated stop and the stop
\* (Host_RequestV2CoordinatedStop, Host_PerformV2CoordinatedStop).
THEOREM StopSilences == Spec => []StoppedIsSilent
  <1>1. IInv => StoppedIsSilent
    BY DEF IInv
  <1>2. QED
    BY <1>1, BusesInvariant, PTL

\* A pair is used only when both servos asked have answered since they were asked
\* (BimanualTrackingFeedback_Poll).
THEOREM SamplesFresh == Spec => []PairIsFresh
  <1>1. IInv => PairIsFresh
    <2> SUFFICES ASSUME IInv, Poll = "SAMPLE" PROVE PairIsFresh
      BY DEF PairIsFresh
    <2>1. pending /\ \A a \in Arms : ReadOf(a) = "OK"
      BY PollFacts DEF AnyRead
    <2>2. \A a \in Arms : a \in answered \/ Has(a, TRUE)
      BY <2>1 DEF IInv, ReadsKept, ReadOf
    <2>3. \A a \in Arms : LastOf(a) = asked
      BY DEF Poll, Failure
    <2>4. QED
      BY <2>2, <2>3 DEF PairIsFresh
  <1>2. QED
    BY <1>1, BusesInvariant, PTL

\* A settle ends only after the last command reached both arms
\* (Host_ServiceV2TrackingFeedback).
THEOREM SettleSound == Spec => SettledAfterDelivery
  <1> DEFINE Delivered == \A good \in BOOLEAN :
                             TrackSettles(good) =>
                                /\ reached = Arms
                                /\ \A a \in Arms : tx[a] # "SETPOINT"
  <1>1. ASSUME IInv, [Next]_vars PROVE [Delivered]_vars
    BY <1>1 DEF IInv, LinesOwned, TrackSettles, Tracks, Settled, Ready
  <1>2. QED
    BY <1>1, BusesInvariant, PTL DEF Spec, SettledAfterDelivery
-----------------------------------------------------------------------------
(* The dispatch implements PairCommand *)

\* A step that leaves the flags and the observer alone is a stutter.
LEMMA Stutters ==
    ASSUME UNCHANGED <<pc, active, faulted, reached>>
    PROVE  UNCHANGED Command!vars
  BY DEF Phase, Command!vars

\* A step that ends with the fault latched and the observer as it was is a fault.
LEMMA Faults ==
    ASSUME faulted' = TRUE, reached' = reached
    PROVE  Command!Next
  BY DEF Phase, Command!Next, Command!Fault

LEMMA CommandStep ==
    BusesAssumption /\ IInv /\ [Next]_vars => [Command!Next]_(Command!vars)
  <1> SUFFICES ASSUME BusesAssumption, IInv, [Next]_vars
               PROVE  Command!Next \/ UNCHANGED Command!vars
    OBVIOUS
  <1>0. TypeOK /\ Flags /\ PerArm /\ LinesOwned
    BY TypeParts DEF IInv
  <1> DEFINE Goal == Command!Next \/ UNCHANGED Command!vars
  <1>1. ASSUME NEW fault \in BOOLEAN, PerformStop(fault) PROVE Goal
    <2>1. reached' = reached /\ pc = "LOOP" /\ pc' = pc
      BY <1>1 DEF PerformStop
    <2>2. CASE faulted' = TRUE
      BY <2>1, <2>2, Faults
    <2>3. CASE faulted' # TRUE
      <3>1. faulted = FALSE /\ active = FALSE
        BY <1>0, <1>1, <2>3 DEF PerformStop, LatchFault, Flags
      <3>2. faulted' = FALSE /\ active' = FALSE
        BY <1>1, <2>3, <3>1 DEF PerformStop, LatchFault
      <3>3. QED
        BY <2>1, <3>1, <3>2, Stutters
    <2>4. QED
      BY <2>2, <2>3
  <1>2. ASSUME BeginStream PROVE Goal
    BY <1>2, Stutters DEF BeginStream, dispatch
  <1>3. ASSUME TickStops PROVE Goal
    BY <1>3, StopType, Faults DEF TickStops
  <1>4. ASSUME LaunchLeft PROVE Goal
    <2>1. CASE RequestStop /\ pc' = "LOOP"
      BY <1>4, <2>1, StopType, Faults DEF LaunchLeft
    <2>2. CASE pc' = "LEFT_SENT" /\ UNCHANGED <<active, faulted>>
      <3>1. Phase = "READY" /\ Phase' = "SENDING"
        BY <1>4, <2>2 DEF LaunchLeft, MayLaunch, Ready, Phase
      <3>2. reached' = {}
        BY <1>4, <2>2 DEF LaunchLeft
      <3>3. QED
        BY <3>1, <3>2 DEF Command!Next, Command!Launch
    <2>3. QED
      BY <1>4, <2>1, <2>2 DEF LaunchLeft, Transmit
  <1>5. ASSUME LaunchRight PROVE Goal
    <2>1. CASE RequestStop
      BY <1>5, <2>1, StopType, Faults DEF LaunchRight
    <2>2. CASE pc' = "BOTH_SENT" /\ UNCHANGED <<active, faulted>>
      BY <1>5, <2>2 DEF LaunchRight, Phase, Command!vars
    <2>3. QED
      BY <1>5, <2>1, <2>2 DEF LaunchRight, Transmit
  <1>6. ASSUME LaunchCheck PROVE Goal
    <2>1. CASE RequestStop
      BY <1>6, <2>1, StopType, Faults DEF LaunchCheck
    <2>2. CASE pc' = "CHECKED" /\ UNCHANGED <<active, faulted>>
      BY <1>6, <2>2 DEF LaunchCheck, Phase, Command!vars
    <2>3. QED
      BY <1>6, <2>1, <2>2 DEF LaunchCheck
  <1>7. ASSUME NEW terminal \in BOOLEAN, LaunchBegin(terminal) PROVE Goal
    BY <1>7 DEF LaunchBegin, Phase, Command!vars
  <1>8. ASSUME NEW a \in Arms, TxComplete(a) PROVE Goal
    <2>1. pc' = pc
      BY <1>8 DEF TxComplete
    <2>2. CASE tx[a] # "SETPOINT"
      <3>1. ~active /\ reached' = reached
        BY <1>0, <1>8, <2>2 DEF TxComplete, LinesOwned, PerArm
      <3>2. QED
        BY <1>8, <2>1, <3>1, Stutters DEF TxComplete
    <2>3. CASE tx[a] = "SETPOINT"
      <3>1. reached' = reached \cup {a}
        BY <1>8, <2>3 DEF TxComplete
      <3>2. Phase # "READY"
        BY <1>0, <2>3 DEF LinesOwned, Phase
      <3>3. CASE ~active
        <4>1. Phase' = Phase
          BY <1>8, <2>1, <3>3 DEF TxComplete, Phase
        <4>2. QED
          BY <3>1, <3>2, <4>1 DEF Command!Next, Command!Reach
      <3>4. CASE active /\ faulted
        <4>1. Phase' = Phase
          BY <1>8, <2>1, <3>4 DEF TxComplete, Complete, Fail, Phase
        <4>2. QED
          BY <3>1, <3>2, <4>1 DEF Command!Next, Command!Reach
      <3>5. CASE active /\ ~faulted
        <4>1. pc = "LOOP" /\ a \notin done
          BY <1>0, <2>3, <3>5 DEF LinesOwned
        <4>2. faulted' = faulted /\ active' = (done' # Arms) /\ done' = done \cup {a}
          BY <1>8, <3>5, <4>1 DEF TxComplete, Complete
        <4>3. Phase = "SENDING"
          BY <3>5 DEF Phase
        <4>4. done \subseteq reached /\ reached \subseteq Arms
          BY <1>0, <3>5 DEF LinesOwned, PerArm
        <4>5. done' = Arms => reached' = Arms
          BY <3>1, <4>2, <4>4
        <4>6. CASE done' = Arms
          <5>1. Phase' = "READY"
            BY <2>1, <3>5, <4>1, <4>2, <4>6 DEF Phase
          <5>2. QED
            BY <3>1, <4>3, <4>5, <4>6, <5>1 DEF Command!Next, Command!Reach
        <4>7. CASE done' # Arms
          <5>1. Phase' = "SENDING"
            BY <3>5, <4>2, <4>7 DEF Phase
          <5>2. QED
            BY <3>1, <4>3, <5>1 DEF Command!Next, Command!Reach
        <4>8. QED
          BY <4>6, <4>7
      <3>6. QED
        BY <3>3, <3>4, <3>5
    <2>4. QED
      BY <2>2, <2>3
  <1>9. ASSUME NEW a \in Arms, LineError(a) PROVE Goal
    BY <1>9, Faults, Stutters DEF LineError, Fail
  <1>10. ASSUME NEW a \in Arms, NEW joint \in Joint, NEW good \in BOOLEAN, Answer(a, joint, good) PROVE Goal
    BY <1>10, Stutters DEF Answer, dispatch
  <1>11. ASSUME NEW a \in Arms, NEW joint \in Joint, Lost(a, joint) PROVE Goal
    BY <1>11, Stutters DEF Lost, dispatch
  <1>12. ASSUME Elapse PROVE Goal
    BY <1>12, Stutters DEF Elapse, dispatch
  <1>13. ASSUME TrackStops PROVE Goal
    BY <1>13, StopType, Faults DEF TrackStops, Tracks
  <1>14. ASSUME NEW good \in BOOLEAN, TrackRefused(good) PROVE Goal
    BY <1>14, StopType, Faults DEF TrackRefused, Tracks
  <1>15. ASSUME NEW good \in BOOLEAN, TrackAsks(good) PROVE Goal
    BY <1>15, StopType, Faults, Stutters DEF TrackAsks, Tracks
  <1>16. ASSUME NEW good \in BOOLEAN, TrackOnly(good) PROVE Goal
    BY <1>16, StopType, Faults, Stutters DEF TrackOnly, Tracks
  <1>17. ASSUME NEW good \in BOOLEAN, TrackSettles(good) PROVE Goal
    BY <1>17, StopType, Faults, Stutters DEF TrackSettles, Tracks
  <1>18. CASE UNCHANGED vars
    BY <1>18, Stutters DEF vars, dispatch
  <1>30. QED
    BY <1>1, <1>2, <1>3, <1>4, <1>5, <1>6, <1>7, <1>8, <1>9, <1>10, <1>11, <1>12, <1>13, <1>14, <1>15, <1>16, <1>17, <1>18
    DEF Next, Service, HostStop, LaunchStep, Tick, TrackSome, Interrupts, Servos

\* The dispatch launches one command at a time and counts it as complete only when
\* both arms' transfers of it have ended (actuator_bimanual_dispatch_begin, complete).
THEOREM CommandRefined == Spec => OneCommandAtATime
  <1>1. Init => Command!Init
    BY DEF Init, Phase, Command!Init
  <1>2. IInv /\ [Next]_vars => [Command!Next]_(Command!vars)
    BY BusesAssumption, CommandStep
  <1>3. QED
    BY <1>1, <1>2, BusesInvariant, PTL DEF Spec, OneCommandAtATime, Command!Spec
=============================================================================
