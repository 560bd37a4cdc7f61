SPECIFICATION Spec
CONSTANTS
    Command = {c1, c2, c3}
    State <- MCState
    Action <- MCAction
    KernelInitial <- MCInitial
    Apply <- MCApply
    Refused = Refused
    MaxLog = 6
INVARIANTS LogCoversHistory
SYMMETRY Sym
CHECK_DEADLOCK FALSE
