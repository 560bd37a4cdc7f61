SPECIFICATION OperatorSpec
CONSTANTS
    a1 = a1
    t1 = t1
    t2 = t2
    i1 = i1
    e1 = e1
    net = net
    h1 = h1
    d1 = d1
    digest1 = digest1
    AgentId = {root, a1, a2}
    Root = root
    ToolId = {t1, t2}
    CapKind = {k1}
    EgressKind = {net}
    InvocationId = {i1, i2}
    ChallengeId = {ch1}
    AttestationId = {e1, e2}
    CrossingId = {x1, x2}
    AssignmentDigest = {d1}
    PolicyDigest = {digest1}
    ContentHash = {h1}
    None = None
    MaxUses = 1
    Mode = "enforce"
    AllowCeiling <- Allow
    InspectCeiling <- Inspect
    Snapshots <- MCSnapshots
    Inspections <- MCInspections
    Resolutions <- MCResolutions
    CrossInputs <- Requests
    Provenances <- MCProvenances
    GrantSizes = {1}
    Bytes <- MCBytes
    MaxOpaque = 3
    MaxAgents = 3
    MaxKeys = 2
    MaxTools = 1
    MaxPending = 1
    MaxChallenges = 1
    MaxGrants = 1
    MaxIds = 2
    MaxAttestations = 1
    MaxCrossings = 1
    MaxText = 19
    MaxLevels = 4
INVARIANTS WithinLimits
PROPERTIES NothingIsStuck
