------------------------- MODULE ServoTorqueProofs -------------------------
(***************************************************************************)
(* The invariant of ServoTorque for every number of servos and of faults,  *)
(* and the properties that follow from it.  One lemma per action; under    *)
(* it one step per conjunct of IInv.                                       *)
(***************************************************************************)
EXTENDS ServoTorque, FiniteSetTheorems, TLAPS

\* What is lost in a loop of writes is counted by a natural number.
LEMMA LostIsCounted ==
    ASSUME NEW k \in Nat, NEW lost \in SUBSET (1 .. k)
    PROVE  Cardinality(lost) \in Nat
<1>1. IsFiniteSet(1 .. k)
  BY FS_Interval
<1>2. IsFiniteSet(lost)
  BY <1>1, FS_Subset
<1> QED BY <1>2, FS_CardinalityType

-----------------------------------------------------------------------------
(* Frames that begin.                                                      *)

\* Frames that begin move nothing.
LEMMA ArmStep == IInv /\ Arm => IInv'
<1> SUFFICES ASSUME IInv, Arm PROVE IInv'
  OBVIOUS
<1> USE TorqueAssumption DEF IInv, Arm, Begin, Faults, Goto, Nothing, flags,
      ghosts, Left, Right, Arms, Side, Servos, LeftPlaces, RightPlaces,
      VerifyPlaces, Removals
<1>1. TypeOK'
  BY DEF Frames, Places, TypeOK, RemovalKept, Untouched
<1>2. FrameFits'
  BY DEF FrameFits
<1>3. RemovalKept'
  BY DEF TypeOK, FrameFits, RemovalKept, LeftTreated, RightTreated, Untouched,
         Covered
<1>4. VerifiedMeansOff'
  BY DEF TypeOK, FrameFits, VerifiedMeansOff, RemovalKept, LeftTreated,
         RightTreated, Untouched, Covered
<1>5. ArmingKept'
  BY DEF TypeOK, FrameFits, ArmingKept
<1>6. ArmedIsStiff'
  BY DEF TypeOK, FrameFits, ArmingKept, ArmedIsStiff
<1>7. GoalInHand'
  BY DEF GoalInHand
<1>8. NoJump'
  BY DEF NoJump, GoalInHand
<1>9. StrayKept'
  BY DEF TypeOK, FrameFits, RemovalKept, LeftTreated, RightTreated, Untouched,
         Covered, StrayKept
<1> QED BY <1>1, <1>2, <1>3, <1>4, <1>5, <1>6, <1>7, <1>8, <1>9

\* The invariant over SafeStop.
LEMMA SafeStopStep == IInv /\ SafeStop => IInv'
<1> SUFFICES ASSUME IInv, SafeStop PROVE IInv'
  OBVIOUS
<1> USE TorqueAssumption DEF IInv, SafeStop, Begin, Faults, Goto, Nothing,
      flags, ghosts, Left, Right, Arms, Side, Servos, LeftPlaces, RightPlaces,
      VerifyPlaces, Removals
<1>1. TypeOK'
  BY DEF Frames, Places, TypeOK, RemovalKept, Untouched
<1>2. FrameFits'
  BY DEF FrameFits
<1>3. RemovalKept'
  BY DEF TypeOK, FrameFits, RemovalKept, LeftTreated, RightTreated, Untouched,
         Covered
<1>4. VerifiedMeansOff'
  BY DEF TypeOK, FrameFits, VerifiedMeansOff, RemovalKept, LeftTreated,
         RightTreated, Untouched, Covered
<1>5. ArmingKept'
  BY DEF TypeOK, FrameFits, ArmingKept
<1>6. ArmedIsStiff'
  BY DEF TypeOK, FrameFits, ArmingKept, ArmedIsStiff
<1>7. GoalInHand'
  BY DEF GoalInHand
<1>8. NoJump'
  BY DEF NoJump, GoalInHand
<1>9. StrayKept'
  BY DEF TypeOK, FrameFits, RemovalKept, LeftTreated, RightTreated, Untouched,
         Covered, StrayKept
<1> QED BY <1>1, <1>2, <1>3, <1>4, <1>5, <1>6, <1>7, <1>8, <1>9

\* The invariant over Disable.
LEMMA DisableStep == IInv /\ Disable => IInv'
<1> SUFFICES ASSUME IInv, Disable PROVE IInv'
  OBVIOUS
<1> USE TorqueAssumption DEF IInv, Disable, Begin, Faults, Goto, Nothing, flags,
      ghosts, Left, Right, Arms, Side, Servos, LeftPlaces, RightPlaces,
      VerifyPlaces, Removals
<1>1. TypeOK'
  <2>1. energised' \subseteq Servos /\ stale' \subseteq Servos
    BY DEF FrameFits, TypeOK
  <2>2. excused' \subseteq Servos /\ limp' \subseteq Servos /\ warned' \subseteq Servos
    BY DEF FrameFits, TypeOK
  <2>3. configured' \in BOOLEAN /\ output' \in BOOLEAN
    BY DEF FrameFits, TypeOK
  <2>4. frame' \in Frames /\ at' \in Places
    BY DEF Frames, Places, FrameFits, TypeOK
  <2>5. joint' \in Side
    BY DEF FrameFits, TypeOK
  <2>6. failed' \subseteq Arms /\ clean' \subseteq Arms
    BY DEF FrameFits, TypeOK
  <2>7. wrote' \in {"all", "lost", "refused"}
    BY DEF FrameFits, TypeOK
  <2>8. faults' \in 0 .. MaxFaults
    BY DEF FrameFits, TypeOK
  <2>9. tried' \in [Servos -> 0 .. 2]
    BY DEF FrameFits, TypeOK, RemovalKept, Untouched
  <2> QED BY <2>1, <2>2, <2>3, <2>4, <2>5, <2>6, <2>7, <2>8, <2>9 DEF TypeOK
<1>2. FrameFits'
  BY DEF FrameFits
<1>3. RemovalKept'
  BY DEF TypeOK, FrameFits, RemovalKept, LeftTreated, RightTreated, Untouched,
         Covered
<1>4. VerifiedMeansOff'
  BY DEF TypeOK, FrameFits, VerifiedMeansOff, RemovalKept, LeftTreated,
         RightTreated, Untouched, Covered
<1>5. ArmingKept'
  BY DEF TypeOK, FrameFits, ArmingKept
<1>6. ArmedIsStiff'
  BY DEF TypeOK, FrameFits, ArmingKept, ArmedIsStiff
<1>7. GoalInHand'
  BY DEF GoalInHand
<1>8. NoJump'
  BY DEF NoJump, GoalInHand
<1>9. StrayKept'
  BY DEF TypeOK, FrameFits, RemovalKept, LeftTreated, RightTreated, Untouched,
         Covered, StrayKept
<1> QED BY <1>1, <1>2, <1>3, <1>4, <1>5, <1>6, <1>7, <1>8, <1>9

\* The invariant over PrepareShadow.
LEMMA PrepareShadowStep == IInv /\ PrepareShadow => IInv'
<1> SUFFICES ASSUME IInv, PrepareShadow PROVE IInv'
  OBVIOUS
<1> USE TorqueAssumption DEF IInv, PrepareShadow, Begin, Faults, Goto, Nothing,
      flags, ghosts, Left, Right, Arms, Side, Servos, LeftPlaces, RightPlaces,
      VerifyPlaces, Removals
<1>1. TypeOK'
  BY DEF Frames, Places, TypeOK, RemovalKept, Untouched
<1>2. FrameFits'
  BY DEF FrameFits
<1>3. RemovalKept'
  BY DEF TypeOK, FrameFits, RemovalKept, LeftTreated, RightTreated, Untouched,
         Covered
<1>4. VerifiedMeansOff'
  BY DEF TypeOK, FrameFits, VerifiedMeansOff, RemovalKept, LeftTreated,
         RightTreated, Untouched, Covered
<1>5. ArmingKept'
  BY DEF TypeOK, FrameFits, ArmingKept
<1>6. ArmedIsStiff'
  BY DEF TypeOK, FrameFits, ArmingKept, ArmedIsStiff
<1>7. GoalInHand'
  BY DEF GoalInHand
<1>8. NoJump'
  BY DEF NoJump, GoalInHand
<1>9. StrayKept'
  BY DEF TypeOK, FrameFits, RemovalKept, LeftTreated, RightTreated, Untouched,
         Covered, StrayKept
<1> QED BY <1>1, <1>2, <1>3, <1>4, <1>5, <1>6, <1>7, <1>8, <1>9

\* The invariant over PrepareShadowUnbound.
LEMMA PrepareShadowUnboundStep == IInv /\ PrepareShadowUnbound => IInv'
<1> SUFFICES ASSUME IInv, PrepareShadowUnbound PROVE IInv'
  OBVIOUS
<1> USE TorqueAssumption DEF IInv, PrepareShadowUnbound, Begin, Faults, Goto,
      Nothing, flags, ghosts, Left, Right, Arms, Side, Servos, LeftPlaces,
      RightPlaces, VerifyPlaces, Removals
<1>1. TypeOK'
  BY DEF Frames, Places, TypeOK, RemovalKept, Untouched
<1>2. FrameFits'
  BY DEF FrameFits
<1>3. RemovalKept'
  BY DEF TypeOK, FrameFits, RemovalKept, LeftTreated, RightTreated, Untouched,
         Covered
<1>4. VerifiedMeansOff'
  BY DEF TypeOK, FrameFits, VerifiedMeansOff, RemovalKept, LeftTreated,
         RightTreated, Untouched, Covered
<1>5. ArmingKept'
  BY DEF TypeOK, FrameFits, ArmingKept
<1>6. ArmedIsStiff'
  BY DEF TypeOK, FrameFits, ArmingKept, ArmedIsStiff
<1>7. GoalInHand'
  BY DEF GoalInHand
<1>8. NoJump'
  BY DEF NoJump, GoalInHand
<1>9. StrayKept'
  BY DEF TypeOK, FrameFits, RemovalKept, LeftTreated, RightTreated, Untouched,
         Covered, StrayKept
<1> QED BY <1>1, <1>2, <1>3, <1>4, <1>5, <1>6, <1>7, <1>8, <1>9

\* The invariant over RightDisable.
LEMMA RightDisableStep == IInv /\ RightDisable => IInv'
<1> SUFFICES ASSUME IInv, RightDisable PROVE IInv'
  OBVIOUS
<1> USE TorqueAssumption DEF IInv, RightDisable, Begin, Faults, Goto, Nothing,
      flags, ghosts, Left, Right, Arms, Side, Servos, LeftPlaces, RightPlaces,
      VerifyPlaces, Removals
<1>1. TypeOK'
  BY DEF Frames, Places, TypeOK, RemovalKept, Untouched
<1>2. FrameFits'
  BY DEF FrameFits
<1>3. RemovalKept'
  BY DEF TypeOK, FrameFits, RemovalKept, LeftTreated, RightTreated, Untouched,
         Covered
<1>4. VerifiedMeansOff'
  BY DEF TypeOK, FrameFits, VerifiedMeansOff, RemovalKept, LeftTreated,
         RightTreated, Untouched, Covered
<1>5. ArmingKept'
  BY DEF TypeOK, FrameFits, ArmingKept
<1>6. ArmedIsStiff'
  BY DEF TypeOK, FrameFits, ArmingKept, ArmedIsStiff
<1>7. GoalInHand'
  BY DEF GoalInHand
<1>8. NoJump'
  BY DEF NoJump, GoalInHand
<1>9. StrayKept'
  BY DEF TypeOK, FrameFits, RemovalKept, LeftTreated, RightTreated, Untouched,
         Covered, StrayKept
<1> QED BY <1>1, <1>2, <1>3, <1>4, <1>5, <1>6, <1>7, <1>8, <1>9

\* The invariant over RightEnable.
LEMMA RightEnableStep == IInv /\ RightEnable => IInv'
<1> SUFFICES ASSUME IInv, RightEnable PROVE IInv'
  OBVIOUS
<1> USE TorqueAssumption DEF IInv, RightEnable, RightOneShot, Faults, Goto,
      Nothing, flags, ghosts, Left, Right, Arms, Side, Servos, LeftPlaces,
      RightPlaces, VerifyPlaces, Removals
<1>1. TypeOK'
  BY DEF Frames, Places, TypeOK, RemovalKept, Untouched
<1>2. FrameFits'
  BY DEF FrameFits
<1>3. RemovalKept'
  BY DEF TypeOK, FrameFits, RemovalKept, LeftTreated, RightTreated, Untouched,
         Covered
<1>4. VerifiedMeansOff'
  BY DEF TypeOK, FrameFits, VerifiedMeansOff, RemovalKept, LeftTreated,
         RightTreated, Untouched, Covered
<1>5. ArmingKept'
  BY DEF TypeOK, FrameFits, ArmingKept
<1>6. ArmedIsStiff'
  BY DEF TypeOK, FrameFits, ArmingKept, ArmedIsStiff
<1>7. GoalInHand'
  BY DEF GoalInHand
<1>8. NoJump'
  BY DEF NoJump, GoalInHand
<1>9. StrayKept'
  BY DEF TypeOK, FrameFits, RemovalKept, LeftTreated, RightTreated, Untouched,
         Covered, StrayKept
<1> QED BY <1>1, <1>2, <1>3, <1>4, <1>5, <1>6, <1>7, <1>8, <1>9

\* The invariant over RightConfigure.
LEMMA RightConfigureStep == IInv /\ RightConfigure => IInv'
<1> SUFFICES ASSUME IInv, RightConfigure PROVE IInv'
  OBVIOUS
<1> USE TorqueAssumption DEF IInv, RightConfigure, RightOneShot, Faults, Goto,
      Nothing, flags, ghosts, Left, Right, Arms, Side, Servos, LeftPlaces,
      RightPlaces, VerifyPlaces, Removals
<1>1. TypeOK'
  BY DEF Frames, Places, TypeOK, RemovalKept, Untouched
<1>2. FrameFits'
  BY DEF FrameFits
<1>3. RemovalKept'
  BY DEF TypeOK, FrameFits, RemovalKept, LeftTreated, RightTreated, Untouched,
         Covered
<1>4. VerifiedMeansOff'
  BY DEF TypeOK, FrameFits, VerifiedMeansOff, RemovalKept, LeftTreated,
         RightTreated, Untouched, Covered
<1>5. ArmingKept'
  BY DEF TypeOK, FrameFits, ArmingKept
<1>6. ArmedIsStiff'
  BY DEF TypeOK, FrameFits, ArmingKept, ArmedIsStiff
<1>7. GoalInHand'
  BY DEF GoalInHand
<1>8. NoJump'
  BY DEF NoJump, GoalInHand
<1>9. StrayKept'
  BY DEF TypeOK, FrameFits, RemovalKept, LeftTreated, RightTreated, Untouched,
         Covered, StrayKept
<1> QED BY <1>1, <1>2, <1>3, <1>4, <1>5, <1>6, <1>7, <1>8, <1>9

-----------------------------------------------------------------------------
(* Arming the left arm.                                                    *)

\* The left arm: what is configured so far is on, or its write was lost.
LEMMA LeftReadsStep == IInv /\ LeftReads => IInv'
<1> SUFFICES ASSUME IInv, LeftReads PROVE IInv'
  OBVIOUS
<1> USE TorqueAssumption DEF IInv, LeftReads, Reads, Faults, Goto, Nothing,
      flags, ghosts, Left, Right, Arms, Side, Servos, LeftPlaces, RightPlaces,
      VerifyPlaces, Removals
<1>1. TypeOK'
  BY DEF Frames, Places, TypeOK, RemovalKept, Untouched
<1>2. FrameFits'
  BY DEF FrameFits
<1>3. RemovalKept'
  BY DEF TypeOK, FrameFits, RemovalKept, LeftTreated, RightTreated, Untouched,
         Covered
<1>4. VerifiedMeansOff'
  BY DEF TypeOK, FrameFits, VerifiedMeansOff, RemovalKept, LeftTreated,
         RightTreated, Untouched, Covered
<1>5. ArmingKept'
  BY DEF TypeOK, FrameFits, ArmingKept
<1>6. ArmedIsStiff'
  BY DEF TypeOK, FrameFits, ArmingKept, ArmedIsStiff
<1>7. GoalInHand'
  BY DEF GoalInHand
<1>8. NoJump'
  BY DEF NoJump, GoalInHand
<1>9. StrayKept'
  BY DEF TypeOK, FrameFits, RemovalKept, LeftTreated, RightTreated, Untouched,
         Covered, StrayKept
<1> QED BY <1>1, <1>2, <1>3, <1>4, <1>5, <1>6, <1>7, <1>8, <1>9

\* The invariant over LeftSwitchesOff.
LEMMA LeftSwitchesOffStep == IInv /\ LeftSwitchesOff => IInv'
<1> SUFFICES ASSUME IInv, LeftSwitchesOff PROVE IInv'
  OBVIOUS
<1> USE TorqueAssumption DEF IInv, LeftSwitchesOff, LeftContinues, LeftNext,
      Writes, Costs, SwitchOff, Release, Faults, Goto, Nothing, flags, ghosts,
      Left, Right, Arms, Side, Servos, LeftPlaces, RightPlaces, VerifyPlaces,
      Removals
<1>1. TypeOK'
  BY DEF Frames, Places, TypeOK, RemovalKept, Untouched
<1>2. FrameFits'
  BY DEF FrameFits
<1>3. RemovalKept'
  BY DEF TypeOK, FrameFits, RemovalKept, LeftTreated, RightTreated, Untouched,
         Covered
<1>4. VerifiedMeansOff'
  BY DEF TypeOK, FrameFits, VerifiedMeansOff, RemovalKept, LeftTreated,
         RightTreated, Untouched, Covered
<1>5. ArmingKept'
  BY DEF TypeOK, FrameFits, ArmingKept
<1>6. ArmedIsStiff'
  BY DEF TypeOK, FrameFits, ArmingKept, ArmedIsStiff
<1>7. GoalInHand'
  BY DEF GoalInHand
<1>8. NoJump'
  BY DEF NoJump, GoalInHand
<1>9. StrayKept'
  BY DEF TypeOK, FrameFits, RemovalKept, LeftTreated, RightTreated, Untouched,
         Covered, StrayKept
<1> QED BY <1>1, <1>2, <1>3, <1>4, <1>5, <1>6, <1>7, <1>8, <1>9

\* The invariant over LeftTunes.
LEMMA LeftTunesStep == IInv /\ LeftTunes => IInv'
<1> SUFFICES ASSUME IInv, LeftTunes PROVE IInv'
  OBVIOUS
<1> USE TorqueAssumption DEF IInv, LeftTunes, LeftContinues, LeftNext, Writes,
      Costs, Tune, Faults, Goto, Nothing, flags, ghosts, Left, Right, Arms,
      Side, Servos, LeftPlaces, RightPlaces, VerifyPlaces, Removals
<1>1. TypeOK'
  BY DEF Frames, Places, TypeOK, RemovalKept, Untouched
<1>2. FrameFits'
  BY DEF FrameFits
<1>3. RemovalKept'
  BY DEF TypeOK, FrameFits, RemovalKept, LeftTreated, RightTreated, Untouched,
         Covered
<1>4. VerifiedMeansOff'
  BY DEF TypeOK, FrameFits, VerifiedMeansOff, RemovalKept, LeftTreated,
         RightTreated, Untouched, Covered
<1>5. ArmingKept'
  BY DEF TypeOK, FrameFits, ArmingKept
<1>6. ArmedIsStiff'
  BY DEF TypeOK, FrameFits, ArmingKept, ArmedIsStiff
<1>7. GoalInHand'
  BY DEF GoalInHand
<1>8. NoJump'
  BY DEF NoJump, GoalInHand
<1>9. StrayKept'
  BY DEF TypeOK, FrameFits, RemovalKept, LeftTreated, RightTreated, Untouched,
         Covered, StrayKept
<1> QED BY <1>1, <1>2, <1>3, <1>4, <1>5, <1>6, <1>7, <1>8, <1>9

\* The invariant over LeftSetsGoal.
LEMMA LeftSetsGoalStep == IInv /\ LeftSetsGoal => IInv'
<1> SUFFICES ASSUME IInv, LeftSetsGoal PROVE IInv'
  OBVIOUS
<1> USE TorqueAssumption DEF IInv, LeftSetsGoal, LeftContinues, LeftNext,
      Writes, Costs, Tune, WriteGoal, BlockMayEnergise, Faults, Goto, Nothing,
      flags, ghosts, Left, Right, Arms, Side, Servos, LeftPlaces, RightPlaces,
      VerifyPlaces, Removals
<1>1. TypeOK'
  <2>1. energised' \subseteq Servos /\ stale' \subseteq Servos
    BY DEF FrameFits, TypeOK
  <2>2. excused' \subseteq Servos /\ limp' \subseteq Servos /\ warned' \subseteq Servos
    BY DEF FrameFits, TypeOK
  <2>3. configured' \in BOOLEAN /\ output' \in BOOLEAN
    BY DEF FrameFits, TypeOK
  <2>4. frame' \in Frames /\ at' \in Places
    BY DEF Frames, Places, FrameFits, TypeOK
  <2>5. joint' \in Side
    BY DEF FrameFits, TypeOK
  <2>6. failed' \subseteq Arms /\ clean' \subseteq Arms
    BY DEF FrameFits, TypeOK
  <2>7. wrote' \in {"all", "lost", "refused"}
    BY DEF FrameFits, TypeOK
  <2>8. faults' \in 0 .. MaxFaults
    BY DEF FrameFits, TypeOK
  <2>9. tried' \in [Servos -> 0 .. 2]
    BY DEF FrameFits, TypeOK, RemovalKept, Untouched
  <2> QED BY <2>1, <2>2, <2>3, <2>4, <2>5, <2>6, <2>7, <2>8, <2>9 DEF TypeOK
<1>2. FrameFits'
  BY DEF FrameFits
<1>3. RemovalKept'
  BY DEF TypeOK, FrameFits, RemovalKept, LeftTreated, RightTreated, Untouched,
         Covered
<1>4. VerifiedMeansOff'
  BY DEF TypeOK, FrameFits, VerifiedMeansOff, RemovalKept, LeftTreated,
         RightTreated, Untouched, Covered
<1>5. ArmingKept'
  BY DEF TypeOK, FrameFits, ArmingKept
<1>6. ArmedIsStiff'
  BY DEF TypeOK, FrameFits, ArmingKept, ArmedIsStiff
<1>7. GoalInHand'
  BY DEF GoalInHand
<1>8. NoJump'
  BY DEF NoJump, GoalInHand
<1>9. StrayKept'
  BY DEF TypeOK, FrameFits, RemovalKept, LeftTreated, RightTreated, Untouched,
         Covered, StrayKept
<1> QED BY <1>1, <1>2, <1>3, <1>4, <1>5, <1>6, <1>7, <1>8, <1>9

\* The invariant over LeftSwitchesOn.
LEMMA LeftSwitchesOnStep == IInv /\ LeftSwitchesOn => IInv'
<1> SUFFICES ASSUME IInv, LeftSwitchesOn PROVE IInv'
  OBVIOUS
<1> USE TorqueAssumption DEF IInv, LeftSwitchesOn, LeftContinues, LeftNext,
      Writes, Costs, SwitchOn, Faults, Goto, Nothing, flags, ghosts, Left,
      Right, Arms, Side, Servos, LeftPlaces, RightPlaces, VerifyPlaces, Removals
<1>1. TypeOK'
  BY DEF Frames, Places, TypeOK, RemovalKept, Untouched
<1>2. FrameFits'
  BY DEF FrameFits
<1>3. RemovalKept'
  BY DEF TypeOK, FrameFits, RemovalKept, LeftTreated, RightTreated, Untouched,
         Covered
<1>4. VerifiedMeansOff'
  BY DEF TypeOK, FrameFits, VerifiedMeansOff, RemovalKept, LeftTreated,
         RightTreated, Untouched, Covered
<1>5. ArmingKept'
  BY DEF TypeOK, FrameFits, ArmingKept
<1>6. ArmedIsStiff'
  BY DEF TypeOK, FrameFits, ArmingKept, ArmedIsStiff
<1>7. GoalInHand'
  BY DEF GoalInHand
<1>8. NoJump'
  BY DEF NoJump, GoalInHand
<1>9. StrayKept'
  BY DEF TypeOK, FrameFits, RemovalKept, LeftTreated, RightTreated, Untouched,
         Covered, StrayKept
<1> QED BY <1>1, <1>2, <1>3, <1>4, <1>5, <1>6, <1>7, <1>8, <1>9

\* The invariant over LeftChecks.
LEMMA LeftChecksStep == IInv /\ LeftChecks => IInv'
<1> SUFFICES ASSUME IInv, LeftChecks PROVE IInv'
  OBVIOUS
<1> USE TorqueAssumption DEF IInv, LeftChecks, Reads, Noticed, Faults, Goto,
      Nothing, flags, ghosts, Left, Right, Arms, Side, Servos, LeftPlaces,
      RightPlaces, VerifyPlaces, Removals
<1>1. TypeOK'
  BY DEF Frames, Places, TypeOK, RemovalKept, Untouched
<1>2. FrameFits'
  BY DEF FrameFits
<1>3. RemovalKept'
  BY DEF TypeOK, FrameFits, RemovalKept, LeftTreated, RightTreated, Untouched,
         Covered
<1>4. VerifiedMeansOff'
  BY DEF TypeOK, FrameFits, VerifiedMeansOff, RemovalKept, LeftTreated,
         RightTreated, Untouched, Covered
<1>5. ArmingKept'
  BY DEF TypeOK, FrameFits, ArmingKept
<1>6. ArmedIsStiff'
  BY DEF TypeOK, FrameFits, ArmingKept, ArmedIsStiff
<1>7. GoalInHand'
  BY DEF GoalInHand
<1>8. NoJump'
  BY DEF NoJump, GoalInHand
<1>9. StrayKept'
  BY DEF TypeOK, FrameFits, RemovalKept, LeftTreated, RightTreated, Untouched,
         Covered, StrayKept
<1> QED BY <1>1, <1>2, <1>3, <1>4, <1>5, <1>6, <1>7, <1>8, <1>9

\* A roll-back switches off, and counts for nothing.
LEMMA RollsBackStep == IInv /\ RollsBack => IInv'
<1> SUFFICES ASSUME IInv, RollsBack PROVE IInv'
  OBVIOUS
<1> USE TorqueAssumption DEF IInv, RollsBack, Release, Faults, Goto, Nothing,
      flags, ghosts, Left, Right, Arms, Side, Servos, LeftPlaces, RightPlaces,
      VerifyPlaces, Removals
<1>1. TypeOK'
  <2>1. energised' \subseteq Servos /\ stale' \subseteq Servos
    BY DEF FrameFits, TypeOK
  <2>2. excused' \subseteq Servos /\ limp' \subseteq Servos /\ warned' \subseteq Servos
    BY DEF FrameFits, TypeOK
  <2>3. configured' \in BOOLEAN /\ output' \in BOOLEAN
    BY DEF FrameFits, TypeOK
  <2>4. frame' \in Frames /\ at' \in Places
    BY DEF Frames, Places, FrameFits, TypeOK
  <2>5. joint' \in Side
    BY DEF FrameFits, TypeOK
  <2>6. failed' \subseteq Arms /\ clean' \subseteq Arms
    BY DEF FrameFits, TypeOK
  <2>7. wrote' \in {"all", "lost", "refused"}
    BY DEF FrameFits, TypeOK
  <2>8. faults' \in 0 .. MaxFaults
    <3>1. PICK lost \in SUBSET (1 .. joint) : Faults(Cardinality(lost))
      BY DEF RollsBack
    <3>2. joint \in Nat
      BY DEF TypeOK
    <3>3. Cardinality(lost) \in Nat
      BY <3>1, <3>2, LostIsCounted
    <3> QED BY <3>1, <3>3 DEF TypeOK
  <2>9. tried' \in [Servos -> 0 .. 2]
    BY DEF FrameFits, TypeOK, RemovalKept, Untouched
  <2> QED BY <2>1, <2>2, <2>3, <2>4, <2>5, <2>6, <2>7, <2>8, <2>9 DEF TypeOK
<1>2. FrameFits'
  BY DEF FrameFits
<1>3. RemovalKept'
  BY DEF TypeOK, FrameFits, RemovalKept, LeftTreated, RightTreated, Untouched,
         Covered
<1>4. VerifiedMeansOff'
  BY DEF TypeOK, FrameFits, VerifiedMeansOff, RemovalKept, LeftTreated,
         RightTreated, Untouched, Covered
<1>5. ArmingKept'
  BY DEF TypeOK, FrameFits, ArmingKept
<1>6. ArmedIsStiff'
  BY DEF TypeOK, FrameFits, ArmingKept, ArmedIsStiff
<1>7. GoalInHand'
  BY DEF GoalInHand
<1>8. NoJump'
  BY DEF NoJump, GoalInHand
<1>9. StrayKept'
  BY DEF TypeOK, FrameFits, RemovalKept, LeftTreated, RightTreated, Untouched,
         Covered, StrayKept
<1> QED BY <1>1, <1>2, <1>3, <1>4, <1>5, <1>6, <1>7, <1>8, <1>9

-----------------------------------------------------------------------------
(* Configuring the right arm.                                              *)

\* The right arm is configured with its torque off.
LEMMA RightReadsTorqueStep == IInv /\ RightReadsTorque => IInv'
<1> SUFFICES ASSUME IInv, RightReadsTorque PROVE IInv'
  OBVIOUS
<1> USE TorqueAssumption DEF IInv, RightReadsTorque, Reads, Passes, Fails,
      Faults, Goto, Nothing, flags, ghosts, Left, Right, Arms, Side, Servos,
      LeftPlaces, RightPlaces, VerifyPlaces, Removals
<1>1. TypeOK'
  <2>1. energised' \subseteq Servos /\ stale' \subseteq Servos
    BY DEF FrameFits, TypeOK
  <2>2. excused' \subseteq Servos /\ limp' \subseteq Servos /\ warned' \subseteq Servos
    BY DEF FrameFits, TypeOK
  <2>3. configured' \in BOOLEAN /\ output' \in BOOLEAN
    BY DEF FrameFits, TypeOK
  <2>4. frame' \in Frames /\ at' \in Places
    BY DEF Frames, Places, FrameFits, TypeOK
  <2>5. joint' \in Side
    BY DEF FrameFits, TypeOK
  <2>6. failed' \subseteq Arms /\ clean' \subseteq Arms
    BY DEF FrameFits, TypeOK
  <2>7. wrote' \in {"all", "lost", "refused"}
    BY DEF FrameFits, TypeOK
  <2>8. faults' \in 0 .. MaxFaults
    BY DEF FrameFits, TypeOK
  <2>9. tried' \in [Servos -> 0 .. 2]
    BY DEF FrameFits, TypeOK, RemovalKept, Untouched
  <2> QED BY <2>1, <2>2, <2>3, <2>4, <2>5, <2>6, <2>7, <2>8, <2>9 DEF TypeOK
<1>2. FrameFits'
  BY DEF FrameFits
<1>3. RemovalKept'
  BY DEF TypeOK, FrameFits, RemovalKept, LeftTreated, RightTreated, Untouched,
         Covered
<1>4. VerifiedMeansOff'
  BY DEF TypeOK, FrameFits, VerifiedMeansOff, RemovalKept, LeftTreated,
         RightTreated, Untouched, Covered
<1>5. ArmingKept'
  BY DEF TypeOK, FrameFits, ArmingKept
<1>6. ArmedIsStiff'
  BY DEF TypeOK, FrameFits, ArmingKept, ArmedIsStiff
<1>7. GoalInHand'
  BY DEF GoalInHand
<1>8. NoJump'
  BY DEF NoJump, GoalInHand
<1>9. StrayKept'
  BY DEF TypeOK, FrameFits, RemovalKept, LeftTreated, RightTreated, Untouched,
         Covered, StrayKept
<1> QED BY <1>1, <1>2, <1>3, <1>4, <1>5, <1>6, <1>7, <1>8, <1>9

\* The invariant over RightReads.
LEMMA RightReadsStep == IInv /\ RightReads => IInv'
<1> SUFFICES ASSUME IInv, RightReads PROVE IInv'
  OBVIOUS
<1> USE TorqueAssumption DEF IInv, RightReads, Reads, Passes, Fails, Faults,
      Goto, Nothing, flags, ghosts, Left, Right, Arms, Side, Servos, LeftPlaces,
      RightPlaces, VerifyPlaces, Removals
<1>1. TypeOK'
  <2>1. energised' \subseteq Servos /\ stale' \subseteq Servos
    BY DEF FrameFits, TypeOK
  <2>2. excused' \subseteq Servos /\ limp' \subseteq Servos /\ warned' \subseteq Servos
    BY DEF FrameFits, TypeOK
  <2>3. configured' \in BOOLEAN /\ output' \in BOOLEAN
    BY DEF FrameFits, TypeOK
  <2>4. frame' \in Frames /\ at' \in Places
    BY DEF Frames, Places, FrameFits, TypeOK
  <2>5. joint' \in Side
    BY DEF FrameFits, TypeOK
  <2>6. failed' \subseteq Arms /\ clean' \subseteq Arms
    BY DEF FrameFits, TypeOK
  <2>7. wrote' \in {"all", "lost", "refused"}
    BY DEF FrameFits, TypeOK
  <2>8. faults' \in 0 .. MaxFaults
    BY DEF FrameFits, TypeOK
  <2>9. tried' \in [Servos -> 0 .. 2]
    BY DEF FrameFits, TypeOK, RemovalKept, Untouched
  <2> QED BY <2>1, <2>2, <2>3, <2>4, <2>5, <2>6, <2>7, <2>8, <2>9 DEF TypeOK
<1>2. FrameFits'
  BY DEF FrameFits
<1>3. RemovalKept'
  BY DEF TypeOK, FrameFits, RemovalKept, LeftTreated, RightTreated, Untouched,
         Covered
<1>4. VerifiedMeansOff'
  BY DEF TypeOK, FrameFits, VerifiedMeansOff, RemovalKept, LeftTreated,
         RightTreated, Untouched, Covered
<1>5. ArmingKept'
  BY DEF TypeOK, FrameFits, ArmingKept
<1>6. ArmedIsStiff'
  BY DEF TypeOK, FrameFits, ArmingKept, ArmedIsStiff
<1>7. GoalInHand'
  BY DEF GoalInHand
<1>8. NoJump'
  BY DEF NoJump, GoalInHand
<1>9. StrayKept'
  BY DEF TypeOK, FrameFits, RemovalKept, LeftTreated, RightTreated, Untouched,
         Covered, StrayKept
<1> QED BY <1>1, <1>2, <1>3, <1>4, <1>5, <1>6, <1>7, <1>8, <1>9

\* The invariant over RightTunes.
LEMMA RightTunesStep == IInv /\ RightTunes => IInv'
<1> SUFFICES ASSUME IInv, RightTunes PROVE IInv'
  OBVIOUS
<1> USE TorqueAssumption DEF IInv, RightTunes, Writes, Costs, Tune, Faults,
      Goto, Nothing, flags, ghosts, Left, Right, Arms, Side, Servos, LeftPlaces,
      RightPlaces, VerifyPlaces, Removals
<1>1. TypeOK'
  BY DEF Frames, Places, TypeOK, RemovalKept, Untouched
<1>2. FrameFits'
  BY DEF FrameFits
<1>3. RemovalKept'
  BY DEF TypeOK, FrameFits, RemovalKept, LeftTreated, RightTreated, Untouched,
         Covered
<1>4. VerifiedMeansOff'
  BY DEF TypeOK, FrameFits, VerifiedMeansOff, RemovalKept, LeftTreated,
         RightTreated, Untouched, Covered
<1>5. ArmingKept'
  BY DEF TypeOK, FrameFits, ArmingKept
<1>6. ArmedIsStiff'
  BY DEF TypeOK, FrameFits, ArmingKept, ArmedIsStiff
<1>7. GoalInHand'
  BY DEF GoalInHand
<1>8. NoJump'
  BY DEF NoJump, GoalInHand
<1>9. StrayKept'
  BY DEF TypeOK, FrameFits, RemovalKept, LeftTreated, RightTreated, Untouched,
         Covered, StrayKept
<1> QED BY <1>1, <1>2, <1>3, <1>4, <1>5, <1>6, <1>7, <1>8, <1>9

\* The invariant over RightLimits.
LEMMA RightLimitsStep == IInv /\ RightLimits => IInv'
<1> SUFFICES ASSUME IInv, RightLimits PROVE IInv'
  OBVIOUS
<1> USE TorqueAssumption DEF IInv, RightLimits, Writes, Costs, Tune,
      BlockMayEnergise, Faults, Goto, Nothing, flags, ghosts, Left, Right, Arms,
      Side, Servos, LeftPlaces, RightPlaces, VerifyPlaces, Removals
<1>1. TypeOK'
  BY DEF Frames, Places, TypeOK, RemovalKept, Untouched
<1>2. FrameFits'
  BY DEF FrameFits
<1>3. RemovalKept'
  BY DEF TypeOK, FrameFits, RemovalKept, LeftTreated, RightTreated, Untouched,
         Covered
<1>4. VerifiedMeansOff'
  <2>1. "right" \notin clean
    BY DEF FrameFits
  <2>2. \A j \in Side : <<"left", j>> \in energised' => <<"left", j>> \in energised
    OBVIOUS
  <2> QED BY <2>1, <2>2 DEF VerifiedMeansOff, TypeOK
<1>5. ArmingKept'
  BY DEF TypeOK, FrameFits, ArmingKept
<1>6. ArmedIsStiff'
  BY DEF TypeOK, FrameFits, ArmingKept, ArmedIsStiff
<1>7. GoalInHand'
  BY DEF GoalInHand
<1>8. NoJump'
  BY DEF NoJump, GoalInHand
<1>9. StrayKept'
  BY DEF TypeOK, FrameFits, RemovalKept, LeftTreated, RightTreated, Untouched,
         Covered, StrayKept
<1> QED BY <1>1, <1>2, <1>3, <1>4, <1>5, <1>6, <1>7, <1>8, <1>9

\* The invariant over RightSwitchesOff.
LEMMA RightSwitchesOffStep == IInv /\ RightSwitchesOff => IInv'
<1> SUFFICES ASSUME IInv, RightSwitchesOff PROVE IInv'
  OBVIOUS
<1> USE TorqueAssumption DEF IInv, RightSwitchesOff, Writes, Costs, SwitchOff,
      Release, Passes, Fails, Faults, Goto, Nothing, flags, ghosts, Left, Right,
      Arms, Side, Servos, LeftPlaces, RightPlaces, VerifyPlaces, Removals
<1>1. TypeOK'
  <2>1. energised' \subseteq Servos /\ stale' \subseteq Servos
    BY DEF FrameFits, TypeOK
  <2>2. excused' \subseteq Servos /\ limp' \subseteq Servos /\ warned' \subseteq Servos
    BY DEF FrameFits, TypeOK
  <2>3. configured' \in BOOLEAN /\ output' \in BOOLEAN
    BY DEF FrameFits, TypeOK
  <2>4. frame' \in Frames /\ at' \in Places
    BY DEF Frames, Places, FrameFits, TypeOK
  <2>5. joint' \in Side
    BY DEF FrameFits, TypeOK
  <2>6. failed' \subseteq Arms /\ clean' \subseteq Arms
    BY DEF FrameFits, TypeOK
  <2>7. wrote' \in {"all", "lost", "refused"}
    BY DEF FrameFits, TypeOK
  <2>8. faults' \in 0 .. MaxFaults
    BY DEF FrameFits, TypeOK
  <2>9. tried' \in [Servos -> 0 .. 2]
    BY DEF FrameFits, TypeOK, RemovalKept, Untouched
  <2> QED BY <2>1, <2>2, <2>3, <2>4, <2>5, <2>6, <2>7, <2>8, <2>9 DEF TypeOK
<1>2. FrameFits'
  BY DEF FrameFits
<1>3. RemovalKept'
  BY DEF TypeOK, FrameFits, RemovalKept, LeftTreated, RightTreated, Untouched,
         Covered
<1>4. VerifiedMeansOff'
  BY DEF TypeOK, FrameFits, VerifiedMeansOff, RemovalKept, LeftTreated,
         RightTreated, Untouched, Covered
<1>5. ArmingKept'
  BY DEF TypeOK, FrameFits, ArmingKept
<1>6. ArmedIsStiff'
  BY DEF TypeOK, FrameFits, ArmingKept, ArmedIsStiff
<1>7. GoalInHand'
  BY DEF GoalInHand
<1>8. NoJump'
  BY DEF NoJump, GoalInHand
<1>9. StrayKept'
  BY DEF TypeOK, FrameFits, RemovalKept, LeftTreated, RightTreated, Untouched,
         Covered, StrayKept
<1> QED BY <1>1, <1>2, <1>3, <1>4, <1>5, <1>6, <1>7, <1>8, <1>9

\* The invariant over RightChecks.
LEMMA RightChecksStep == IInv /\ RightChecks => IInv'
<1> SUFFICES ASSUME IInv, RightChecks PROVE IInv'
  OBVIOUS
<1> USE TorqueAssumption DEF IInv, RightChecks, Reads, Passes, Fails, Follows,
      Noticed, Faults, Goto, Nothing, flags, ghosts, Left, Right, Arms, Side,
      Servos, LeftPlaces, RightPlaces, VerifyPlaces, Removals
<1>1. TypeOK'
  BY DEF Frames, Places, TypeOK, RemovalKept, Untouched
<1>2. FrameFits'
  BY DEF FrameFits
<1>3. RemovalKept'
  BY DEF TypeOK, FrameFits, RemovalKept, LeftTreated, RightTreated, Untouched,
         Covered
<1>4. VerifiedMeansOff'
  BY DEF TypeOK, FrameFits, VerifiedMeansOff, RemovalKept, LeftTreated,
         RightTreated, Untouched, Covered
<1>5. ArmingKept'
  BY DEF TypeOK, FrameFits, ArmingKept
<1>6. ArmedIsStiff'
  BY DEF TypeOK, FrameFits, ArmingKept, ArmedIsStiff
<1>7. GoalInHand'
  BY DEF GoalInHand
<1>8. NoJump'
  BY DEF NoJump, GoalInHand
<1>9. StrayKept'
  BY DEF TypeOK, FrameFits, RemovalKept, LeftTreated, RightTreated, Untouched,
         Covered, StrayKept
<1> QED BY <1>1, <1>2, <1>3, <1>4, <1>5, <1>6, <1>7, <1>8, <1>9

-----------------------------------------------------------------------------
(* Enabling the right arm.                                                 *)

\* Enabling: the goal is in hand before torque is on.
LEMMA EnableReadsTorqueStep == IInv /\ EnableReadsTorque => IInv'
<1> SUFFICES ASSUME IInv, EnableReadsTorque PROVE IInv'
  OBVIOUS
<1> USE TorqueAssumption DEF IInv, EnableReadsTorque, Reads, Passes, Fails,
      Faults, Goto, Nothing, flags, ghosts, Left, Right, Arms, Side, Servos,
      LeftPlaces, RightPlaces, VerifyPlaces, Removals
<1>1. TypeOK'
  BY DEF Frames, Places, TypeOK, RemovalKept, Untouched
<1>2. FrameFits'
  BY DEF FrameFits
<1>3. RemovalKept'
  BY DEF TypeOK, FrameFits, RemovalKept, LeftTreated, RightTreated, Untouched,
         Covered
<1>4. VerifiedMeansOff'
  BY DEF TypeOK, FrameFits, VerifiedMeansOff, RemovalKept, LeftTreated,
         RightTreated, Untouched, Covered
<1>5. ArmingKept'
  BY DEF TypeOK, FrameFits, ArmingKept
<1>6. ArmedIsStiff'
  BY DEF TypeOK, FrameFits, ArmingKept, ArmedIsStiff
<1>7. GoalInHand'
  BY DEF GoalInHand
<1>8. NoJump'
  BY DEF NoJump, GoalInHand
<1>9. StrayKept'
  BY DEF TypeOK, FrameFits, RemovalKept, LeftTreated, RightTreated, Untouched,
         Covered, StrayKept
<1> QED BY <1>1, <1>2, <1>3, <1>4, <1>5, <1>6, <1>7, <1>8, <1>9

\* The invariant over EnableReads.
LEMMA EnableReadsStep == IInv /\ EnableReads => IInv'
<1> SUFFICES ASSUME IInv, EnableReads PROVE IInv'
  OBVIOUS
<1> USE TorqueAssumption DEF IInv, EnableReads, Reads, Passes, Fails, Faults,
      Goto, Nothing, flags, ghosts, Left, Right, Arms, Side, Servos, LeftPlaces,
      RightPlaces, VerifyPlaces, Removals
<1>1. TypeOK'
  <2>1. energised' \subseteq Servos /\ stale' \subseteq Servos
    BY DEF FrameFits, TypeOK
  <2>2. excused' \subseteq Servos /\ limp' \subseteq Servos /\ warned' \subseteq Servos
    BY DEF FrameFits, TypeOK
  <2>3. configured' \in BOOLEAN /\ output' \in BOOLEAN
    BY DEF FrameFits, TypeOK
  <2>4. frame' \in Frames /\ at' \in Places
    BY DEF Frames, Places, FrameFits, TypeOK
  <2>5. joint' \in Side
    BY DEF FrameFits, TypeOK
  <2>6. failed' \subseteq Arms /\ clean' \subseteq Arms
    BY DEF FrameFits, TypeOK
  <2>7. wrote' \in {"all", "lost", "refused"}
    BY DEF FrameFits, TypeOK
  <2>8. faults' \in 0 .. MaxFaults
    BY DEF FrameFits, TypeOK
  <2>9. tried' \in [Servos -> 0 .. 2]
    BY DEF FrameFits, TypeOK, RemovalKept, Untouched
  <2> QED BY <2>1, <2>2, <2>3, <2>4, <2>5, <2>6, <2>7, <2>8, <2>9 DEF TypeOK
<1>2. FrameFits'
  BY DEF FrameFits
<1>3. RemovalKept'
  BY DEF TypeOK, FrameFits, RemovalKept, LeftTreated, RightTreated, Untouched,
         Covered
<1>4. VerifiedMeansOff'
  BY DEF TypeOK, FrameFits, VerifiedMeansOff, RemovalKept, LeftTreated,
         RightTreated, Untouched, Covered
<1>5. ArmingKept'
  BY DEF TypeOK, FrameFits, ArmingKept
<1>6. ArmedIsStiff'
  BY DEF TypeOK, FrameFits, ArmingKept, ArmedIsStiff
<1>7. GoalInHand'
  BY DEF GoalInHand
<1>8. NoJump'
  BY DEF NoJump, GoalInHand
<1>9. StrayKept'
  BY DEF TypeOK, FrameFits, RemovalKept, LeftTreated, RightTreated, Untouched,
         Covered, StrayKept
<1> QED BY <1>1, <1>2, <1>3, <1>4, <1>5, <1>6, <1>7, <1>8, <1>9

\* The invariant over EnableSetsGoal.
LEMMA EnableSetsGoalStep == IInv /\ EnableSetsGoal => IInv'
<1> SUFFICES ASSUME IInv, EnableSetsGoal PROVE IInv'
  OBVIOUS
<1> USE TorqueAssumption DEF IInv, EnableSetsGoal, Writes, Costs, WriteGoal,
      Passes, Fails, Faults, Goto, Nothing, flags, ghosts, Left, Right, Arms,
      Side, Servos, LeftPlaces, RightPlaces, VerifyPlaces, Removals
<1>1. TypeOK'
  <2>1. energised' \subseteq Servos /\ stale' \subseteq Servos
    BY DEF FrameFits, TypeOK
  <2>2. excused' \subseteq Servos /\ limp' \subseteq Servos /\ warned' \subseteq Servos
    BY DEF FrameFits, TypeOK
  <2>3. configured' \in BOOLEAN /\ output' \in BOOLEAN
    BY DEF FrameFits, TypeOK
  <2>4. frame' \in Frames /\ at' \in Places
    BY DEF Frames, Places, FrameFits, TypeOK
  <2>5. joint' \in Side
    BY DEF FrameFits, TypeOK
  <2>6. failed' \subseteq Arms /\ clean' \subseteq Arms
    BY DEF FrameFits, TypeOK
  <2>7. wrote' \in {"all", "lost", "refused"}
    BY DEF FrameFits, TypeOK
  <2>8. faults' \in 0 .. MaxFaults
    BY DEF FrameFits, TypeOK
  <2>9. tried' \in [Servos -> 0 .. 2]
    BY DEF FrameFits, TypeOK, RemovalKept, Untouched
  <2> QED BY <2>1, <2>2, <2>3, <2>4, <2>5, <2>6, <2>7, <2>8, <2>9 DEF TypeOK
<1>2. FrameFits'
  BY DEF FrameFits
<1>3. RemovalKept'
  BY DEF TypeOK, FrameFits, RemovalKept, LeftTreated, RightTreated, Untouched,
         Covered
<1>4. VerifiedMeansOff'
  BY DEF TypeOK, FrameFits, VerifiedMeansOff, RemovalKept, LeftTreated,
         RightTreated, Untouched, Covered
<1>5. ArmingKept'
  BY DEF TypeOK, FrameFits, ArmingKept
<1>6. ArmedIsStiff'
  BY DEF TypeOK, FrameFits, ArmingKept, ArmedIsStiff
<1>7. GoalInHand'
  BY DEF GoalInHand
<1>8. NoJump'
  BY DEF NoJump, GoalInHand
<1>9. StrayKept'
  BY DEF TypeOK, FrameFits, RemovalKept, LeftTreated, RightTreated, Untouched,
         Covered, StrayKept
<1> QED BY <1>1, <1>2, <1>3, <1>4, <1>5, <1>6, <1>7, <1>8, <1>9

\* The invariant over EnableSwitchesOn.
LEMMA EnableSwitchesOnStep == IInv /\ EnableSwitchesOn => IInv'
<1> SUFFICES ASSUME IInv, EnableSwitchesOn PROVE IInv'
  OBVIOUS
<1> USE TorqueAssumption DEF IInv, EnableSwitchesOn, Writes, Costs, SwitchOn,
      Passes, Fails, Faults, Goto, Nothing, flags, ghosts, Left, Right, Arms,
      Side, Servos, LeftPlaces, RightPlaces, VerifyPlaces, Removals
<1>1. TypeOK'
  <2>1. energised' \subseteq Servos /\ stale' \subseteq Servos
    BY DEF FrameFits, TypeOK
  <2>2. excused' \subseteq Servos /\ limp' \subseteq Servos /\ warned' \subseteq Servos
    BY DEF FrameFits, TypeOK
  <2>3. configured' \in BOOLEAN /\ output' \in BOOLEAN
    BY DEF FrameFits, TypeOK
  <2>4. frame' \in Frames /\ at' \in Places
    BY DEF Frames, Places, FrameFits, TypeOK
  <2>5. joint' \in Side
    BY DEF FrameFits, TypeOK
  <2>6. failed' \subseteq Arms /\ clean' \subseteq Arms
    BY DEF FrameFits, TypeOK
  <2>7. wrote' \in {"all", "lost", "refused"}
    BY DEF FrameFits, TypeOK
  <2>8. faults' \in 0 .. MaxFaults
    BY DEF FrameFits, TypeOK
  <2>9. tried' \in [Servos -> 0 .. 2]
    BY DEF FrameFits, TypeOK, RemovalKept, Untouched
  <2> QED BY <2>1, <2>2, <2>3, <2>4, <2>5, <2>6, <2>7, <2>8, <2>9 DEF TypeOK
<1>2. FrameFits'
  BY DEF FrameFits
<1>3. RemovalKept'
  BY DEF TypeOK, FrameFits, RemovalKept, LeftTreated, RightTreated, Untouched,
         Covered
<1>4. VerifiedMeansOff'
  BY DEF TypeOK, FrameFits, VerifiedMeansOff, RemovalKept, LeftTreated,
         RightTreated, Untouched, Covered
<1>5. ArmingKept'
  BY DEF TypeOK, FrameFits, ArmingKept
<1>6. ArmedIsStiff'
  BY DEF TypeOK, FrameFits, ArmingKept, ArmedIsStiff
<1>7. GoalInHand'
  BY DEF GoalInHand
<1>8. NoJump'
  BY DEF NoJump, GoalInHand
<1>9. StrayKept'
  BY DEF TypeOK, FrameFits, RemovalKept, LeftTreated, RightTreated, Untouched,
         Covered, StrayKept
<1> QED BY <1>1, <1>2, <1>3, <1>4, <1>5, <1>6, <1>7, <1>8, <1>9

\* The invariant over EnableChecks.
LEMMA EnableChecksStep == IInv /\ EnableChecks => IInv'
<1> SUFFICES ASSUME IInv, EnableChecks PROVE IInv'
  OBVIOUS
<1> USE TorqueAssumption DEF IInv, EnableChecks, Reads, Passes, Fails, Follows,
      Faults, Goto, Nothing, flags, ghosts, Left, Right, Arms, Side, Servos,
      LeftPlaces, RightPlaces, VerifyPlaces, Removals
<1>1. TypeOK'
  BY DEF Frames, Places, TypeOK, RemovalKept, Untouched
<1>2. FrameFits'
  BY DEF FrameFits
<1>3. RemovalKept'
  BY DEF TypeOK, FrameFits, RemovalKept, LeftTreated, RightTreated, Untouched,
         Covered
<1>4. VerifiedMeansOff'
  BY DEF TypeOK, FrameFits, VerifiedMeansOff, RemovalKept, LeftTreated,
         RightTreated, Untouched, Covered
<1>5. ArmingKept'
  BY DEF TypeOK, FrameFits, ArmingKept
<1>6. ArmedIsStiff'
  BY DEF TypeOK, FrameFits, ArmingKept, ArmedIsStiff
<1>7. GoalInHand'
  BY DEF GoalInHand
<1>8. NoJump'
  BY DEF NoJump, GoalInHand
<1>9. StrayKept'
  BY DEF TypeOK, FrameFits, RemovalKept, LeftTreated, RightTreated, Untouched,
         Covered, StrayKept
<1> QED BY <1>1, <1>2, <1>3, <1>4, <1>5, <1>6, <1>7, <1>8, <1>9

-----------------------------------------------------------------------------
(* Removing torque.                                                        *)

\* The first write goes to every left servo.
LEMMA LeftRemovesStep == IInv /\ LeftRemoves => IInv'
<1> SUFFICES ASSUME IInv, LeftRemoves PROVE IInv'
  OBVIOUS
<1> USE TorqueAssumption DEF IInv, LeftRemoves, Release, Tried, Faults, Goto,
      Nothing, flags, ghosts, Left, Right, Arms, Side, Servos, LeftPlaces,
      RightPlaces, VerifyPlaces, Removals
<1>1. TypeOK'
  <2>1. energised' \subseteq Servos /\ stale' \subseteq Servos
    BY DEF FrameFits, TypeOK
  <2>2. excused' \subseteq Servos /\ limp' \subseteq Servos /\ warned' \subseteq Servos
    BY DEF FrameFits, TypeOK
  <2>3. configured' \in BOOLEAN /\ output' \in BOOLEAN
    BY DEF FrameFits, TypeOK
  <2>4. frame' \in Frames /\ at' \in Places
    BY DEF Frames, Places, FrameFits, TypeOK
  <2>5. joint' \in Side
    BY DEF FrameFits, TypeOK
  <2>6. failed' \subseteq Arms /\ clean' \subseteq Arms
    BY DEF FrameFits, TypeOK
  <2>7. wrote' \in {"all", "lost", "refused"}
    BY DEF FrameFits, TypeOK
  <2>8. faults' \in 0 .. MaxFaults
    BY LostIsCounted DEF FrameFits, TypeOK
  <2>9. tried' \in [Servos -> 0 .. 2]
    BY DEF FrameFits, TypeOK, RemovalKept, Untouched
  <2> QED BY <2>1, <2>2, <2>3, <2>4, <2>5, <2>6, <2>7, <2>8, <2>9 DEF TypeOK
<1>2. FrameFits'
  BY DEF FrameFits
<1>3. RemovalKept'
  BY DEF TypeOK, FrameFits, RemovalKept, LeftTreated, RightTreated, Untouched,
         Covered
<1>4. VerifiedMeansOff'
  BY DEF TypeOK, FrameFits, VerifiedMeansOff, RemovalKept, LeftTreated,
         RightTreated, Untouched, Covered
<1>5. ArmingKept'
  BY DEF TypeOK, FrameFits, ArmingKept
<1>6. ArmedIsStiff'
  BY DEF TypeOK, FrameFits, ArmingKept, ArmedIsStiff
<1>7. GoalInHand'
  BY DEF GoalInHand
<1>8. NoJump'
  BY DEF NoJump, GoalInHand
<1>9. StrayKept'
  BY DEF TypeOK, FrameFits, RemovalKept, LeftTreated, RightTreated, Untouched,
         Covered, StrayKept
<1> QED BY <1>1, <1>2, <1>3, <1>4, <1>5, <1>6, <1>7, <1>8, <1>9

\* A left servo is passed when it reads off, or after its second write.
LEMMA LeftVerifiesStep == IInv /\ LeftVerifies => IInv'
<1> SUFFICES ASSUME IInv, LeftVerifies PROVE IInv'
  OBVIOUS
<1> USE TorqueAssumption DEF IInv, LeftVerifies, Reads, LeftDone, Faults, Goto,
      Nothing, flags, ghosts, Left, Right, Arms, Side, Servos, LeftPlaces,
      RightPlaces, VerifyPlaces, Removals
<1>1. TypeOK'
  BY DEF Frames, Places, TypeOK, RemovalKept, Untouched
<1>2. FrameFits'
  BY DEF FrameFits
<1>3. RemovalKept'
  BY DEF TypeOK, FrameFits, RemovalKept, LeftTreated, RightTreated, Untouched,
         Covered
<1>4. VerifiedMeansOff'
  BY DEF TypeOK, FrameFits, VerifiedMeansOff, RemovalKept, LeftTreated,
         RightTreated, Untouched, Covered
<1>5. ArmingKept'
  BY DEF TypeOK, FrameFits, ArmingKept
<1>6. ArmedIsStiff'
  BY DEF TypeOK, FrameFits, ArmingKept, ArmedIsStiff
<1>7. GoalInHand'
  BY DEF GoalInHand
<1>8. NoJump'
  BY DEF NoJump, GoalInHand
<1>9. StrayKept'
  BY DEF TypeOK, FrameFits, RemovalKept, LeftTreated, RightTreated, Untouched,
         Covered, StrayKept
<1> QED BY <1>1, <1>2, <1>3, <1>4, <1>5, <1>6, <1>7, <1>8, <1>9

\* The invariant over LeftRewrites.
LEMMA LeftRewritesStep == IInv /\ LeftRewrites => IInv'
<1> SUFFICES ASSUME IInv, LeftRewrites PROVE IInv'
  OBVIOUS
<1> USE TorqueAssumption DEF IInv, LeftRewrites, Writes, Costs, SwitchOff,
      Release, Tried, Faults, Goto, Nothing, flags, ghosts, Left, Right, Arms,
      Side, Servos, LeftPlaces, RightPlaces, VerifyPlaces, Removals
<1>1. TypeOK'
  BY DEF Frames, Places, TypeOK, RemovalKept, Untouched
<1>2. FrameFits'
  BY DEF FrameFits
<1>3. RemovalKept'
  BY DEF TypeOK, FrameFits, RemovalKept, LeftTreated, RightTreated, Untouched,
         Covered
<1>4. VerifiedMeansOff'
  BY DEF TypeOK, FrameFits, VerifiedMeansOff, RemovalKept, LeftTreated,
         RightTreated, Untouched, Covered
<1>5. ArmingKept'
  BY DEF TypeOK, FrameFits, ArmingKept
<1>6. ArmedIsStiff'
  BY DEF TypeOK, FrameFits, ArmingKept, ArmedIsStiff
<1>7. GoalInHand'
  BY DEF GoalInHand
<1>8. NoJump'
  BY DEF NoJump, GoalInHand
<1>9. StrayKept'
  BY DEF TypeOK, FrameFits, RemovalKept, LeftTreated, RightTreated, Untouched,
         Covered, StrayKept
<1> QED BY <1>1, <1>2, <1>3, <1>4, <1>5, <1>6, <1>7, <1>8, <1>9

\* Right servos are treated one by one.
LEMMA RightRemovesStep == IInv /\ RightRemoves => IInv'
<1> SUFFICES ASSUME IInv, RightRemoves PROVE IInv'
  OBVIOUS
<1> USE TorqueAssumption DEF IInv, RightRemoves, Writes, Costs, SwitchOff,
      Release, Passes, RightDone, Tried, Faults, Goto, Nothing, flags, ghosts,
      Left, Right, Arms, Side, Servos, LeftPlaces, RightPlaces, VerifyPlaces,
      Removals
<1>1. TypeOK'
  <2>1. energised' \subseteq Servos /\ stale' \subseteq Servos
    BY DEF FrameFits, TypeOK
  <2>2. excused' \subseteq Servos /\ limp' \subseteq Servos /\ warned' \subseteq Servos
    BY DEF FrameFits, TypeOK
  <2>3. configured' \in BOOLEAN /\ output' \in BOOLEAN
    BY DEF FrameFits, TypeOK
  <2>4. frame' \in Frames /\ at' \in Places
    BY DEF Frames, Places, FrameFits, TypeOK
  <2>5. joint' \in Side
    BY DEF FrameFits, TypeOK
  <2>6. failed' \subseteq Arms /\ clean' \subseteq Arms
    BY DEF FrameFits, TypeOK
  <2>7. wrote' \in {"all", "lost", "refused"}
    BY DEF FrameFits, TypeOK
  <2>8. faults' \in 0 .. MaxFaults
    BY DEF FrameFits, TypeOK
  <2>9. tried' \in [Servos -> 0 .. 2]
    BY DEF FrameFits, TypeOK, RemovalKept, Untouched
  <2> QED BY <2>1, <2>2, <2>3, <2>4, <2>5, <2>6, <2>7, <2>8, <2>9 DEF TypeOK
<1>2. FrameFits'
  BY DEF FrameFits
<1>3. RemovalKept'
  <2> PICK w \in Writes : /\ SwitchOff(Right, w)
                          /\ IF w.ok THEN Passes("right_verify", joint)
                             ELSE RightDone /\ failed' = failed \cup {"right"}
    BY DEF RightRemoves
  <2>1. tried[Right] = 0 /\ Right \in Servos /\ tried \in [Servos -> 0 .. 2]
    BY DEF TypeOK, RemovalKept, Untouched
  <2>2. tried' = [s \in Servos |-> tried[s] + (IF s \in {Right} THEN 1 ELSE 0)]
    OBVIOUS
  <2>3. \A j \in Side : tried'[<<"left", j>>] = tried[<<"left", j>>]
    BY <2>1, <2>2
  <2>4. \A j \in Side : j # joint => tried'[<<"right", j>>] = tried[<<"right", j>>]
    BY <2>1, <2>2
  <2>5. tried'[Right] = 1
    BY <2>1, <2>2
  <2>6. energised' \subseteq energised /\ failed \subseteq failed'
    BY DEF TypeOK
  <2>7. Untouched("left", 1)' \/ LeftTreated(Joints + 1)'
    BY <2>3, <2>6 DEF RemovalKept, Untouched, LeftTreated
  <2>8. frame \in {"ARM", "SAFE_STOP", "DISABLE"} => tried'[<<"left", 1>>] > 0
    BY <2>3 DEF RemovalKept, TypeOK
  <2>9. \A j \in Side : j < joint =>
                     /\ tried'[<<"right", j>>] = 1
                     /\ <<"right", j>> \in energised' => "right" \in failed'
    <3>1. RightTreated(joint)
      BY DEF RemovalKept
    <3> QED BY <3>1, <2>4, <2>6 DEF RightTreated, TypeOK
  <2>10. ASSUME ~w.ok
         PROVE  \A j \in Side : j < joint + 1 =>
                     /\ tried'[<<"right", j>>] = 1
                     /\ <<"right", j>> \in energised' => "right" \in failed'
    <3>1. "right" \in failed'
      BY <2>10 DEF TypeOK
    <3> SUFFICES ASSUME NEW j \in Side, j < joint + 1
                 PROVE  /\ tried'[<<"right", j>>] = 1
                        /\ <<"right", j>> \in energised' => "right" \in failed'
      OBVIOUS
    <3>2. CASE j < joint
      BY <3>2, <2>9
    <3>3. CASE j = joint
      BY <3>1, <3>3, <2>5
    <3> QED BY <3>2, <3>3 DEF TypeOK
  <2>11. \A j \in Side : j >= joint + 1 => tried'[<<"right", j>>] = 0
    BY <2>4 DEF RemovalKept, Untouched, TypeOK
  <2>12. CASE w.ok
    <3>1. at' = "right_verify" /\ joint' = joint /\ frame' = frame
      BY <2>12
    <3>2. RightTreated(joint)'
      BY <3>1, <2>9 DEF RightTreated
    <3>3. Untouched("right", joint + 1)'
      BY <3>1, <2>11 DEF Untouched
    <3>4. tried'[<<"right", joint'>>] = 1
      BY <3>1, <2>5
    <3> QED BY <3>1, <3>2, <3>3, <3>4, <2>7, <2>8 DEF RemovalKept
  <2>13. CASE ~w.ok /\ joint < Joints
    BY <2>13, <2>7, <2>8, <2>10, <2>11 DEF RemovalKept, Untouched, RightTreated,
           TypeOK
  <2>14. CASE ~w.ok /\ joint = Joints
    <3>1. at' = "answer" /\ frame' = frame /\ frame \in Removals
      BY <2>14 DEF FrameFits
    <3>3. "right" \in Covered'
      BY <3>1 DEF FrameFits, Covered
    <3>2. RightTreated(Joints + 1)'
      BY <2>14, <2>10 DEF RightTreated
    <3> QED BY <3>1, <3>2, <3>3, <2>7, <2>8 DEF RemovalKept
  <2> QED BY <2>12, <2>13, <2>14 DEF TypeOK
<1>4. VerifiedMeansOff'
  BY DEF TypeOK, FrameFits, VerifiedMeansOff, RemovalKept, LeftTreated,
         RightTreated, Untouched, Covered
<1>5. ArmingKept'
  BY DEF TypeOK, FrameFits, ArmingKept
<1>6. ArmedIsStiff'
  BY DEF TypeOK, FrameFits, ArmingKept, ArmedIsStiff
<1>7. GoalInHand'
  BY DEF GoalInHand
<1>8. NoJump'
  BY DEF NoJump, GoalInHand
<1>9. StrayKept'
  BY DEF TypeOK, FrameFits, RemovalKept, LeftTreated, RightTreated, Untouched,
         Covered, StrayKept
<1> QED BY <1>1, <1>2, <1>3, <1>4, <1>5, <1>6, <1>7, <1>8, <1>9

\* A right servo that does not read off has failed.
LEMMA RightVerifiesStep == IInv /\ RightVerifies => IInv'
<1> SUFFICES ASSUME IInv, RightVerifies PROVE IInv'
  OBVIOUS
<1> USE TorqueAssumption DEF IInv, RightVerifies, Reads, RightDone, Faults,
      Goto, Nothing, flags, ghosts, Left, Right, Arms, Side, Servos, LeftPlaces,
      RightPlaces, VerifyPlaces, Removals
<1>1. TypeOK'
  BY DEF Frames, Places, TypeOK, RemovalKept, Untouched
<1>2. FrameFits'
  BY DEF FrameFits
<1>3. RemovalKept'
  <2>1. Untouched("left", 1)' \/ LeftTreated(Joints + 1)'
    BY DEF RemovalKept, Untouched, LeftTreated
  <2>2. frame \in {"ARM", "SAFE_STOP", "DISABLE"} => tried'[<<"left", 1>>] > 0
    BY DEF RemovalKept
  <2>3. \A j \in Side : j < joint + 1 =>
                     /\ tried'[<<"right", j>>] = 1
                     /\ <<"right", j>> \in energised' => "right" \in failed'
    BY DEF RemovalKept, RightTreated, TypeOK
  <2>4. \A j \in Side : j >= joint + 1 => tried'[<<"right", j>>] = 0
    BY DEF RemovalKept, Untouched
  <2>5. CASE joint < Joints
    BY <2>1, <2>2, <2>3, <2>4, <2>5 DEF RemovalKept, Untouched, RightTreated, TypeOK
  <2>6. CASE joint = Joints
    <3>1. at' = "answer" /\ frame' = frame /\ frame \in Removals
      BY <2>6 DEF FrameFits
    <3>3. "right" \in Covered'
      BY <3>1 DEF FrameFits, Covered
    <3>2. RightTreated(Joints + 1)'
      BY <2>6, <2>3 DEF RightTreated
    <3> QED BY <3>1, <3>2, <3>3, <2>1, <2>2 DEF RemovalKept
  <2> QED BY <2>5, <2>6 DEF TypeOK
<1>4. VerifiedMeansOff'
  BY DEF TypeOK, FrameFits, VerifiedMeansOff, RemovalKept, LeftTreated,
         RightTreated, Untouched, Covered
<1>5. ArmingKept'
  BY DEF TypeOK, FrameFits, ArmingKept
<1>6. ArmedIsStiff'
  BY DEF TypeOK, FrameFits, ArmingKept, ArmedIsStiff
<1>7. GoalInHand'
  BY DEF GoalInHand
<1>8. NoJump'
  BY DEF NoJump, GoalInHand
<1>9. StrayKept'
  BY DEF TypeOK, FrameFits, RemovalKept, LeftTreated, RightTreated, Untouched,
         Covered, StrayKept
<1> QED BY <1>1, <1>2, <1>3, <1>4, <1>5, <1>6, <1>7, <1>8, <1>9

-----------------------------------------------------------------------------
(* Answers.                                                                *)

\* The invariant over ArmSucceeds.
LEMMA ArmSucceedsStep == IInv /\ ArmSucceeds => IInv'
<1> SUFFICES ASSUME IInv, ArmSucceeds PROVE IInv'
  OBVIOUS
<1> USE TorqueAssumption DEF IInv, ArmSucceeds, Faults, Goto, Nothing, flags,
      ghosts, Left, Right, Arms, Side, Servos, LeftPlaces, RightPlaces,
      VerifyPlaces, Removals
<1>1. TypeOK'
  BY DEF Frames, Places, TypeOK, RemovalKept, Untouched
<1>2. FrameFits'
  BY DEF FrameFits
<1>3. RemovalKept'
  BY DEF TypeOK, FrameFits, RemovalKept, LeftTreated, RightTreated, Untouched,
         Covered
<1>4. VerifiedMeansOff'
  BY DEF TypeOK, FrameFits, VerifiedMeansOff, RemovalKept, LeftTreated,
         RightTreated, Untouched, Covered
<1>5. ArmingKept'
  BY DEF TypeOK, FrameFits, ArmingKept
<1>6. ArmedIsStiff'
  BY DEF TypeOK, FrameFits, ArmingKept, ArmedIsStiff
<1>7. GoalInHand'
  BY DEF GoalInHand
<1>8. NoJump'
  BY DEF NoJump, GoalInHand
<1>9. StrayKept'
  BY DEF TypeOK, FrameFits, RemovalKept, LeftTreated, RightTreated, Untouched,
         Covered, StrayKept
<1> QED BY <1>1, <1>2, <1>3, <1>4, <1>5, <1>6, <1>7, <1>8, <1>9

\* What the answer says of the arms it is about.
LEMMA AnswersStep == IInv /\ Answers => IInv'
<1> SUFFICES ASSUME IInv, Answers PROVE IInv'
  OBVIOUS
<1> USE TorqueAssumption DEF IInv, Answers, AnswersFailure, Faults, Goto,
      Nothing, flags, ghosts, Left, Right, Arms, Side, Servos, LeftPlaces,
      RightPlaces, VerifyPlaces, Removals
<1>1. TypeOK'
  <2>1. energised' \subseteq Servos /\ stale' \subseteq Servos
    BY DEF FrameFits, TypeOK
  <2>2. excused' \subseteq Servos /\ limp' \subseteq Servos /\ warned' \subseteq Servos
    BY DEF FrameFits, TypeOK
  <2>3. configured' \in BOOLEAN /\ output' \in BOOLEAN
    BY DEF FrameFits, TypeOK
  <2>4. frame' \in Frames /\ at' \in Places
    BY DEF Frames, Places, FrameFits, TypeOK
  <2>5. joint' \in Side
    BY DEF FrameFits, TypeOK
  <2>6. failed' \subseteq Arms /\ clean' \subseteq Arms
    BY DEF FrameFits, TypeOK
  <2>7. wrote' \in {"all", "lost", "refused"}
    BY DEF FrameFits, TypeOK
  <2>8. faults' \in 0 .. MaxFaults
    BY DEF FrameFits, TypeOK
  <2>9. tried' \in [Servos -> 0 .. 2]
    BY DEF FrameFits, TypeOK, RemovalKept, Untouched
  <2> QED BY <2>1, <2>2, <2>3, <2>4, <2>5, <2>6, <2>7, <2>8, <2>9 DEF TypeOK
<1>2. FrameFits'
  BY DEF FrameFits
<1>3. RemovalKept'
  BY DEF TypeOK, FrameFits, RemovalKept, LeftTreated, RightTreated, Untouched,
         Covered
<1>4. VerifiedMeansOff'
  <2> SUFFICES ASSUME NEW a \in clean', NEW j \in Side PROVE <<a, j>> \notin energised
    BY DEF VerifiedMeansOff
  <2>1. CASE a \in clean
    BY <2>1 DEF VerifiedMeansOff
  <2>2. CASE a = "left" /\ tried[<<"left", 1>>] > 0 /\ "left" \notin failed
    BY <2>2 DEF RemovalKept, LeftTreated, Untouched, TypeOK
  <2>3. CASE a = "right" /\ tried[<<"right", 1>>] > 0 /\ "right" \notin failed
    BY <2>3 DEF RemovalKept, RightTreated, Untouched, TypeOK
  <2> QED BY <2>1, <2>2, <2>3 DEF TypeOK
<1>5. ArmingKept'
  BY DEF TypeOK, FrameFits, ArmingKept
<1>6. ArmedIsStiff'
  BY DEF TypeOK, FrameFits, ArmingKept, ArmedIsStiff
<1>7. GoalInHand'
  BY DEF GoalInHand
<1>8. NoJump'
  BY DEF NoJump, GoalInHand
<1>9. StrayKept'
  <2> SUFFICES ASSUME ~output', NEW j \in Side, <<"right", j>> \in energised
               PROVE  <<"right", j>> \in warned'
    BY DEF StrayKept
  <2>1. CASE AnswersFailure
    BY <2>1
  <2>2. CASE ~AnswersFailure
    <3>1. failed = {} /\ frame # "ARM"
      BY <2>2 DEF AnswersFailure
    <3>2. "right" \notin Covered
      BY <3>1 DEF RemovalKept, RightTreated, TypeOK
    <3>3. ~output /\ frame \notin {"ARM", "RIGHT_ENABLE"}
      BY <3>1, <3>2 DEF Covered, TypeOK, Frames, FrameFits
    <3> QED BY <2>2, <3>3 DEF StrayKept
  <2> QED BY <2>1, <2>2
<1> QED BY <1>1, <1>2, <1>3, <1>4, <1>5, <1>6, <1>7, <1>8, <1>9

-----------------------------------------------------------------------------
(* The theorems.                                                           *)

\* The initial state satisfies the invariant.
LEMMA InitKeeps == Init => IInv
<1> SUFFICES ASSUME Init PROVE IInv
  OBVIOUS
<1> USE TorqueAssumption DEF Init, Arms, Side, Servos, Left, Right
<1>1. TypeOK
  <2>1. energised = {} /\ stale = Servos /\ excused = {} /\ limp = {} /\ warned = {}
    OBVIOUS
  <2>2. configured \in BOOLEAN /\ output \in BOOLEAN /\ failed = {} /\ clean = {}
    OBVIOUS
  <2>3. frame \in Frames /\ at \in Places /\ joint \in Side /\ faults \in 0 .. MaxFaults
    BY DEF Frames, Places
  <2>4. tried \in [Servos -> 0 .. 2]
    OBVIOUS
  <2>5. wrote \in {"all", "lost", "refused"}
    OBVIOUS
  <2> QED BY <2>1, <2>2, <2>3, <2>4, <2>5 DEF TypeOK
<1>2. FrameFits
  BY DEF FrameFits, LeftPlaces, RightPlaces, VerifyPlaces, Removals
<1>3. RemovalKept
  BY DEF RemovalKept, Untouched, VerifyPlaces
<1>4. VerifiedMeansOff /\ NoJump /\ GoalInHand /\ StrayKept
  BY DEF VerifiedMeansOff, NoJump, GoalInHand, StrayKept
<1>5. ArmingKept /\ ArmedIsStiff
  BY DEF ArmingKept, ArmedIsStiff, LeftPlaces, RightPlaces
<1> QED BY <1>1, <1>2, <1>3, <1>4, <1>5 DEF IInv

\* So does every state after a step.
LEMMA StepKeeps == IInv /\ [Next]_vars => IInv'
<1> SUFFICES ASSUME IInv, [Next]_vars PROVE IInv'
  OBVIOUS
<1>1. CASE HostFrame
  BY <1>1,
     ArmStep, SafeStopStep, DisableStep, PrepareShadowStep,
     PrepareShadowUnboundStep, RightDisableStep, RightEnableStep,
     RightConfigureStep
     DEF HostFrame
<1>2. CASE LeftArming
  BY <1>2,
     LeftReadsStep, LeftSwitchesOffStep, LeftTunesStep, LeftSetsGoalStep,
     LeftSwitchesOnStep, LeftChecksStep, RollsBackStep
     DEF LeftArming
<1>3. CASE RightConfiguring
  BY <1>3,
     RightReadsTorqueStep, RightReadsStep, RightTunesStep,
     RightLimitsStep, RightSwitchesOffStep, RightChecksStep
     DEF RightConfiguring
<1>4. CASE RightEnabling
  BY <1>4,
     EnableReadsTorqueStep, EnableReadsStep, EnableSetsGoalStep,
     EnableSwitchesOnStep, EnableChecksStep
     DEF RightEnabling
<1>5. CASE Removing
  BY <1>5,
     LeftRemovesStep, LeftVerifiesStep, LeftRewritesStep,
     RightRemovesStep, RightVerifiesStep
     DEF Removing
<1>6. CASE ArmSucceeds \/ Answers
  BY <1>6, ArmSucceedsStep, AnswersStep
<1>7. CASE UNCHANGED vars
  <2>1. TypeOK' /\ FrameFits' /\ VerifiedMeansOff' /\ ArmedIsStiff'
    BY <1>7 DEF IInv, vars, TypeOK, FrameFits, VerifiedMeansOff, ArmedIsStiff
  <2>2. RemovalKept'
    BY <1>7 DEF IInv, vars, RemovalKept, LeftTreated, RightTreated, Untouched,
                Left, Right, Covered
  <2>3. ArmingKept' /\ GoalInHand' /\ NoJump' /\ StrayKept'
    BY <1>7 DEF IInv, vars, ArmingKept, GoalInHand, NoJump, StrayKept, Left, Right
  <2> QED BY <2>1, <2>2, <2>3 DEF IInv
<1> QED BY <1>1, <1>2, <1>3, <1>4, <1>5, <1>6, <1>7 DEF Next

\* Every conjunct of the invariant, for any number of servos and faults
\* (binary_control.c:2688, 2732; servo_bus.c:1058; right_servo_bus.c:690).
THEOREM TorqueInvariant == Spec => []IInv
<1> QED BY InitKeeps, StepKeeps, PTL DEF Spec

\* An arm that a removal reported off is off (servo_bus.c:1058,
\* right_servo_bus.c:690).
THEOREM RemovalSound == Spec => []VerifiedMeansOff
<1>1. IInv => VerifiedMeansOff
  BY DEF IInv
<1> QED BY <1>1, TorqueInvariant, PTL

\* A removal passes over no servo of its arms (right_servo_bus.c:712).
THEOREM RemovalComplete == Spec => []NoServoSkipped
<1>1. ASSUME IInv PROVE NoServoSkipped
  <2> SUFFICES ASSUME at = "answer", NEW s \in energised, s[1] \in Covered
               PROVE  tried[s] = (IF s[1] = "left" THEN 2 ELSE 1)
    BY DEF NoServoSkipped
  <2>1. PICK a \in Arms, j \in Side : s = <<a, j>>
    BY <1>1 DEF IInv, TypeOK, Servos
  <2>2. CASE a = "left"
    <3>1. frame \in {"ARM", "SAFE_STOP", "DISABLE"}
      BY <2>1, <2>2 DEF Covered
    <3>2. tried[<<"left", 1>>] > 0
      BY <1>1, <3>1 DEF IInv, RemovalKept
    <3>3. LeftTreated(Joints + 1)
      BY <1>1, <3>2, TorqueAssumption DEF IInv, RemovalKept, Untouched, Side
    <3> QED BY <3>3, <2>1, <2>2, TorqueAssumption DEF LeftTreated, Side
  <2>3. CASE a = "right"
    <3>1. RightTreated(Joints + 1)
      BY <1>1, <2>1, <2>3 DEF IInv, RemovalKept
    <3> QED BY <3>1, <2>1, <2>3, TorqueAssumption DEF RightTreated, Side
  <2> QED BY <2>1, <2>2, <2>3 DEF Arms
<1> QED BY <1>1, TorqueInvariant, PTL

\* An ARM that succeeds leaves no limp servo unless its write was lost
\* (binary_control.c:2759, servo_bus.c:2011).
THEOREM ArmSound == Spec => []ArmedIsStiff
<1>1. IInv => ArmedIsStiff
  BY DEF IInv
<1> QED BY <1>1, TorqueInvariant, PTL

\* Switching on moves nothing (right_servo_bus.c:443, servo_bus.c:1996).
THEOREM GoalSound == Spec => []NoJump
<1>1. IInv => NoJump
  BY DEF IInv
<1> QED BY <1>1, TorqueInvariant, PTL

\* A right servo that no flag marks was reported (binary_control.c:904).
THEOREM StrayKnown == Spec => []StrayIsReported
<1>1. IInv => StrayIsReported
  BY DEF IInv, StrayKept, FrameFits, StrayIsReported
<1> QED BY <1>1, TorqueInvariant, PTL
=============================================================================
