SPECIFICATION AuditSpec
CONSTANTS
    a1 = a1
    t1 = t1
    net = net
    d1 = d1
    d2 = d2
    h1 = h1
    digest1 = digest1
    AgentId = {root, a1}
    Root = root
    ToolId = {t1}
    CapKind = {}
    EgressKind = {net}
    InvocationId = {i1, i2}
    ChallengeId = {c1}
    AttestationId = {e1}
    CrossingId = {x1}
    AssignmentDigest = {digest1}
    PolicyDigest = {d1, d2}
    ContentHash = {h1}
    None = None
    MaxUses = 1
    Mode = "monitor"
    AllowCeiling <- Allow
    InspectCeiling <- Inspect
    Snapshots <- GateSnapshots
    Inspections <- AllInspections
    Resolutions <- AllResolutions
    CrossInputs <- Requests
    Provenances <- ExtremeProvenances
    GrantSizes = {1}
INVARIANTS flow_confinement integrity_confinement EnvelopesTellTheState
SYMMETRY SymGates
