SPECIFICATION Spec
CONSTANTS
    None = None
    Cells = {"x", "y", "pv"}
    PvCell = "pv"
    Exes <- MCExes
    Inputs <- MCInputs
    MaxInsns = 9
    MaxCalls = 2
INVARIANT ProgramBusBalances
PROPERTIES
    RefinesProver
    CallReturns
