SPECIFICATION Spec
CONSTANTS
    Conditions = {0, 1}
    Scripts <- MCScripts
    Functions <- MCFunctions
    Actions <- MCActions
    TaskCap = 88
    FunctionCap = 32
    SourceCap = 8
    StepCap = 12
    MaxSignals = 2
    Faults = TRUE
INVARIANTS
    Balanced
    TrapsOK
    MeetsReference
