\* Executions of up to three segments over up to three deferral circuits, two larger
\* ones, and an adversary with one departure from the honest traces.
CONSTANTS
    LogMaxDepth = 3
    NodeBits = 4
    MaxMerkleDepth = 3
    MaxSegments = 3
    MaxArity = 3
    MaxRetries = 2
    MaxDeviations = 1
    MaxSteps = 7
SPECIFICATION Spec
CHECK_DEADLOCK FALSE
INVARIANTS
    HonestNeverRefused
    AcceptedIsGenuine
    VerdictsAgree
