SPECIFICATION Spec
CONSTANTS
    Joints = 2
    MaxFaults = 3
INVARIANTS VerifiedMeansOff NoServoSkipped ArmedIsStiff NoJump StrayIsReported
