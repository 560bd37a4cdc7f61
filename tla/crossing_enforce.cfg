SPECIFICATION ExposureSpec
CONSTANTS
    a1 = a1
    t1 = t1
    net = net
    h1 = h1
    d1 = d1
    digest1 = digest1
    AgentId = {root, a1}
    Root = root
    ToolId = {t1}
    CapKind = {}
    EgressKind = {net}
    InvocationId = {i1}
    ChallengeId = {c1}
    AttestationId = {e1, e2}
    CrossingId = {x1, x2}
    AssignmentDigest = {d1}
    PolicyDigest = {digest1}
    ContentHash = {h1}
    None = None
    MaxUses = 1
    Mode = "enforce"
    AllowCeiling <- Allow
    InspectCeiling <- Inspect
    Snapshots <- CrossSnapshots
    Inspections <- CrossInspections
    Resolutions <- CrossResolutions
    CrossInputs <- FewRequests
    Provenances <- Declared
    GrantSizes = {1}
    MaxMail = 1
INVARIANTS TypeOK GrantConserved EvidenceSpentOnce CrossedOnce NoLaundering LabelsCoverExposure
SYMMETRY SymEvidence
