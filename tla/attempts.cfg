SPECIFICATION Spec
CONSTANTS
    c1 = c1
    c2 = c2
    refused = refused
    BackgroundN = {enforce}
    Background = enforce
    CommandN = {c1, c2, refused}
    InvalidN = {invalid}
    ActionN = {"permitted"}
    KernelStates <- MCStates
    KernelInitial <- MCInitial
    Apply <- MCApply
    Refused = Refused
    CheckState <- MCCheckState
    Fits <- MCFits
    Content <- MCContent
    MaxAcceptedSequence = 2
    MaxReplayContent = 3
    Versions = {5}
    Version = 5
    Error = Error
    Caller = {p, q}
    None = None
    MaxEvents = 4
    MaxKills = 1
INVARIANTS EventsAccountForTheChain
PROPERTIES PoisonIsTerminal AttemptsEnd
CHECK_DEADLOCK FALSE
