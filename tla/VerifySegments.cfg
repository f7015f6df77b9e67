SPECIFICATION Spec
CONSTANTS
    None = None
    Programs = {"good", "bad"}
    Pcs = {0, 1}
    Roots = {"a", "b"}
    ExitCodes = {0, 1, 42}
    Runs <- MCRuns
    TerminateAt <- MCTerminateAt
    MaxProofs = 3
INVARIANTS
    AcceptedIsExecution
    RejectsOnlyIncomplete
