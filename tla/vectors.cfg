SPECIFICATION FocusSpec
CONSTANTS
    a1 = a1
    a2 = a2
    k1 = k1
    k2 = k2
    net = net
    ipc = ipc
    t1 = t1
    t2 = t2
    i1 = i1
    i2 = i2
    e1 = e1
    e2 = e2
    x1 = x1
    d1 = d1
    h1 = h1
    digest1 = digest1
    AgentId = {root, a1, a2}
    Root = root
    ToolId = {t1, t2}
    CapKind = {k1, k2}
    EgressKind = {net, ipc}
    InvocationId = {i1, i2}
    ChallengeId = {ch1}
    AttestationId = {e1, e2}
    CrossingId = {x1}
    AssignmentDigest = {d1}
    PolicyDigest = {digest1}
    ContentHash = {h1}
    None = None
    Absent = Absent
    MaxUses = 1
    Mode = "enforce"
    AllowCeiling <- MCAllow
    InspectCeiling <- MCInspect
    PolicyN <- MCPolicyN
    EgressLists <- MCEgressLists
    Inspections <- MCInspections
    Resolutions <- MCResolutions
    CrossInputs <- Requests
    Provenances <- OneProvenance
    GrantSizes = {1}
    CapOrder <- MCCapOrder
    tag <- MCtag
    utf8 <- MCutf8
    Backgrounds <- MCBackgrounds
    Links <- MCLinks
INVARIANTS VectorsAreSets ProjectionIsTheState TranscriptIsUnambiguous
PROPERTIES ImplementsKernel
