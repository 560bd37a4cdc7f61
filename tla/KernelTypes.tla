---------------------------- MODULE KernelTypes ----------------------------
(***************************************************************************)
(* The immutable vocabulary of the Argus kernel (argus-kernel: types.rs,   *)
(* background.rs, collections.rs): identities, the two label lattices, the *)
(* records the kernel stores or is given, the egress ceilings of the       *)
(* background theory, and the map operations of collections.rs.            *)
(*                                                                         *)
(* String identities are members of constant sets.  Both label lattices    *)
(* are the four ranks of types.rs, so the Rust "le" is <= on 0..3.  A      *)
(* VecMap is a function on its set of keys; a VecMap into VecSets, whose   *)
(* readers treat an absent key as the empty set (get_set_or_empty,         *)
(* set_contains), is a total function into sets.  An Option is a value or  *)
(* None.                                                                   *)
(***************************************************************************)
EXTENDS Naturals, Functions

CONSTANTS AgentId, Root, ToolId, CapKind, EgressKind, InvocationId,
          ChallengeId, AttestationId, CrossingId, AssignmentDigest,
          PolicyDigest, ContentHash,
          None,             \* the absent case of every Option
          MaxUses,          \* the largest crossing-grant counter, u32::MAX in the code
          Mode,             \* BackgroundTheory.mode
          AllowCeiling,     \* BackgroundTheory.allow_ceiling
          InspectCeiling    \* BackgroundTheory.inspect_ceiling

(* Public, Internal, Sensitive, Restricted: a larger level is more secret. *)
ConfLevel == 0..3

(* Untrusted, Standard, Trusted, Attested: a larger level is more trusted. *)
IntegLevel == 0..3

Modes == {"enforce", "monitor"}

Outcome == {"success", "failure", "ambiguous"}

Disposition == {"permitted", "blocked", "monitor_bypassed"}

(* The Option<...> of a type.                                              *)
Maybe(T) == T \cup {None}

Admission ==
    [kind : {"plain", "bypassed"}] \cup [kind : {"inspected"}, att : AttestationId]

ActionPolicySnapshot ==
    [tool            : ToolId,
     required_caps   : SUBSET CapKind,
     conf_clearance  : ConfLevel,
     integ_floor     : IntegLevel,
     integ_inspect   : IntegLevel,
     output_conf     : ConfLevel,
     output_integ    : IntegLevel,
     declared_egress : SUBSET EgressKind,
     policy_digest   : PolicyDigest]

PendingInvocation ==
    [agent       : AgentId,
     policy      : ActionPolicySnapshot,
     egress      : SUBSET EgressKind,
     admission   : Admission,
     disposition : Disposition,
     authorized  : BOOLEAN,
     quarantined : BOOLEAN]

ChallengeScope ==
    [challenge  : ChallengeId,
     agent      : AgentId,
     policy     : ActionPolicySnapshot,
     egress     : SUBSET EgressKind,
     args_hash  : ContentHash,
     authorized : BOOLEAN]

ResolutionAttestation ==
    [id : AttestationId, inv : InvocationId, outcome : Outcome]

InspectionAttestation ==
    [id            : AttestationId,
     inv           : InvocationId,
     challenge     : ChallengeId,
     args_hash     : ContentHash,
     policy_digest : PolicyDigest,
     positive      : BOOLEAN]

ConformanceAttestation ==
    [id         : AttestationId,
     output     : ContentHash,
     src        : AgentId,
     rcv        : AgentId,
     descriptor : ContentHash,
     assignment : AssignmentDigest,
     positive   : BOOLEAN]

CrossInput ==
    [src            : AgentId,
     rcv            : AgentId,
     crossing       : CrossingId,
     output_hash    : ContentHash,
     descriptor     : ContentHash,
     fallback       : {"fail", "release_unendorsed"},
     t_integ        : IntegLevel,
     t_conf         : Maybe(ConfLevel),
     assignment     : AssignmentDigest,
     evidence       : Maybe(ConformanceAttestation),
     released_conf  : ConfLevel,
     released_integ : IntegLevel]

CrossingKey == [agent : AgentId, assignment : AssignmentDigest]

CrossingGrant == [remaining : 0..MaxUses, provisioned : 0..MaxUses]

(* A record is contained when it claims that its gates passed, and vouched *)
(* when an inspection attestation admitted it.                             *)
contained(j) == j.disposition = "permitted"

vouched(j) == j.admission.kind = "inspected"

---------------------------------------------------------------------------
(* collections.rs: VecMap                                                  *)

IsVecMap(m, K, V) == DOMAIN m \subseteq K /\ \A k \in DOMAIN m : m[k] \in V

EmptyMap == [k \in {} |-> None]

insert(m, k, v) == [x \in DOMAIN m \cup {k} |-> IF x = k THEN v ELSE m[x]]

remove(m, k) == Restrict(m, DOMAIN m \ {k})

insert_into(m, k, elem) == [m EXCEPT ![k] = @ \cup {elem}]

extend_into(m, k, elems) == [m EXCEPT ![k] = @ \cup elems]

remove_key(m, k) == [m EXCEPT ![k] = {}]

---------------------------------------------------------------------------
(* background.rs: a level is free on an egress kind up to the allow        *)
(* ceiling, inspectable up to the inspect ceiling; no ceiling is a denial. *)

flow_allows(level, egress) ==
    egress \in DOMAIN AllowCeiling /\ level <= AllowCeiling[egress]

flow_inspects(level, egress) ==
    egress \in DOMAIN InspectCeiling /\ level <= InspectCeiling[egress]

(* The integrity bands of a frozen snapshot (the inline comparisons of     *)
(* transitions.rs with integ_floor and integ_inspect).                     *)
integ_allows(level, snap) == snap.integ_floor <= level

integ_inspects(level, snap) == snap.integ_inspect <= level

---------------------------------------------------------------------------
ASSUME RootAssumption == Root \in AgentId

ASSUME ModeAssumption == Mode \in Modes

ASSUME CeilingAssumption ==
    /\ IsVecMap(AllowCeiling, EgressKind, ConfLevel)
    /\ IsVecMap(InspectCeiling, EgressKind, ConfLevel)

ASSUME MaxUsesAssumption == MaxUses \in Nat

ASSUME NoneAssumption == None \notin AgentId /\ None \notin AttestationId
===========================================================================
