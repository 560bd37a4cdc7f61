SPECIFICATION AuditSpec
CONSTANTS
    a1 = a1
    t1 = t1
    net = net
    d1 = d1
    d2 = d2
    h1 = h1
    digest1 = digest1
    AgentId = {root, a1}
    Root = root
    ToolId = {t1}
    CapKind = {}
    EgressKind = {net}
    InvocationId = {i1, i2, i3}
    ChallengeId = {c1}
    AttestationId = {e1, e2}
    CrossingId = {}
    AssignmentDigest = {}
    PolicyDigest = {d1, d2}
    ContentHash = {h1}
    None = None
    MaxUses = 1
    Mode = "enforce"
    AllowCeiling <- Allow
    InspectCeiling <- Inspect
    Snapshots <- GateSnapshots
    Inspections <- AllInspections
    Resolutions <- AllResolutions
    CrossInputs = {}
    Provenances <- GateProvenances
    GrantSizes = {}
INVARIANTS flow_confinement integrity_confinement clearance_confinement open_scoped evidence_one_use EnvelopesTellTheState
PROPERTIES LabelsNeverDescend PermitStable ImplementsLifecycle
SYMMETRY SymGates
