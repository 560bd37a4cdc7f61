SPECIFICATION Spec
CONSTANTS
    enforce = enforce
    monitor = monitor
    c1 = c1
    c2 = c2
    c3 = c3
    BackgroundN = {enforce, monitor}
    Background = monitor
    CommandN = {c1, c2, c3}
    ActionN = {"permitted", "bypassed"}
    KernelStates <- MCStates
    KernelInitial <- MCInitial
    Apply <- MCApply
    Refused = Refused
    CheckState <- MCCheckState
    Fits <- MCFits
    Content <- MCContent
    MaxAcceptedSequence = 3
    MaxReplayContent = 5
    Versions = {4, 5}
    Version = 5
    Error = Error
    MaxFaults = 3
INVARIANTS ReadyIsAnchored EffectsOnceAndRecorded HistoryRecoverable
PROPERTIES RecoveryCompletes
CHECK_DEADLOCK FALSE
