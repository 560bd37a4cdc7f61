SPECIFICATION Spec
CONSTANTS
    enforce = enforce
    monitor = monitor
    c1 = c1
    c2 = c2
    BackgroundN = {enforce, monitor}
    CommandN = {c1, c2}
    ActionN = {"permitted", "bypassed"}
    KernelStates <- MCStates
    KernelInitial <- MCInitial
    Apply <- MCApply
    Refused = Refused
    CheckState <- MCCheckState
    Fits <- MCFits
    Content <- MCContent
    MaxAcceptedSequence = 2
    MaxReplayContent = 3
    Versions = {4, 5}
    Version = 5
    Error = Error
    Caller = {p, q}
    Handle = {h1, h2, h3}
    None = None
INVARIANTS EnvelopesAreTheChain HeadDeterminesState OneHeir
SYMMETRY Sym
CHECK_DEADLOCK FALSE
