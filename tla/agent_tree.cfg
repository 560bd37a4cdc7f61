SPECIFICATION AuditSpec
CONSTANTS
    a1 = a1
    t1 = t1
    net = net
    d1 = d1
    d2 = d2
    h1 = h1
    digest1 = digest1
    AgentId = {root, a1, a2, a3}
    Root = root
    ToolId = {t1}
    CapKind = {k1, k2}
    EgressKind = {net}
    InvocationId = {i1}
    ChallengeId = {c1}
    AttestationId = {e1}
    CrossingId = {}
    AssignmentDigest = {}
    PolicyDigest = {d1, d2}
    ContentHash = {h1}
    None = None
    MaxUses = 1
    Mode = "enforce"
    AllowCeiling <- Allow
    InspectCeiling <- Inspect
    Snapshots <- TreeSnapshots
    Inspections <- AllInspections
    Resolutions <- AllResolutions
    CrossInputs = {}
    Provenances <- TreeProvenances
    GrantSizes = {}
INVARIANTS AgentTree capability_subsumption revocation_clean default_deny
PROPERTIES OrphanStaysOrphan
SYMMETRY SymTree
