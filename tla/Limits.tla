------------------------------- MODULE Limits -------------------------------
(***************************************************************************)
(* The native adapter's capacity limits around the kernel (limits.rs): a   *)
(* command reaches the kernel only if the state is within its limits, the  *)
(* command's own values are short enough, and a bound on the state the     *)
(* command could lead to, computed before it runs and without running it,  *)
(* is within the limits too.                                               *)
(*                                                                         *)
(* The limits count the keys of the maps into sets, which are total        *)
(* functions here: a key exists when its set is not empty, because every   *)
(* write inserts an element and no write removes one, except root's        *)
(* capabilities, which are written as a whole.  The length of an identity  *)
(* in bytes is the constant Bytes.  Limits no state can reach are left     *)
(* out: capabilities and egress kinds per set are bounded by their types.  *)
(***************************************************************************)
EXTENDS Kernel, FiniteSetsExt

CONSTANTS Bytes(_),
          MaxOpaque,        \* MAX_OPAQUE_UTF8_BYTES
          MaxAgents,        \* MAX_AGENTS
          MaxKeys,          \* MAX_PARENT_OR_LABEL_KEYS
          MaxTools,         \* MAX_TOOLS
          MaxPending,       \* MAX_PENDING
          MaxChallenges,    \* MAX_CHALLENGES
          MaxGrants,        \* MAX_CROSSING_GRANTS
          MaxIds,           \* MAX_CONSUMED_IDS
          MaxAttestations,  \* MAX_CONSUMED_ATTESTATIONS
          MaxCrossings,     \* MAX_CONSUMED_CROSSINGS
          MaxText,          \* MAX_RETAINED_UTF8_BYTES
          MaxLevels         \* MAX_CONF_LEVELS, MAX_INTEG_LEVELS

(* The values whose text is kept.                                          *)
Opaque ==
    UNION {AgentId, ToolId, InvocationId, ChallengeId, AttestationId, CrossingId,
           AssignmentDigest, PolicyDigest, ContentHash}

(* Lengths are numbers, a fresh instance has room for its root, and a set  *)
(* of labels may hold every level.                                         *)
ASSUME LimitsAssumption ==
    /\ \A v \in Opaque : Bytes(v) \in Nat
    /\ {MaxAgents, MaxKeys, MaxTools, MaxPending, MaxChallenges, MaxGrants, MaxIds,
        MaxAttestations, MaxCrossings, MaxText, MaxLevels} \subseteq Nat
    /\ MaxAgents >= 1 /\ MaxKeys >= 1 /\ MaxText >= 2 * Bytes(Root)
    /\ MaxLevels >= 4

(* The keys of agent_cap: root's, and those a grant created.               *)
cap_keys == {Root} \cup {a \in AgentId : agent_cap[a] # {}}

taint_keys == {a \in AgentId : taint_levels[a] # {}}

integ_keys == {a \in AgentId : integ_levels[a] # {}}

---------------------------------------------------------------------------
(* The state within its limits                                             *)

checked_capacity(current, addition, maximum) == current + addition <= maximum

(* The bytes of the values in a set.                                       *)
Length(S) == SumFunction([v \in S |-> Bytes(v)])

policy_text(p) == Bytes(p.tool) + Bytes(p.policy_digest)

admission_text(ad) == IF ad.kind = "inspected" THEN Bytes(ad.att) ELSE 0

parents_text(m) == SumFunction([c \in DOMAIN m |-> Bytes(c) + Bytes(m[c])])

pending_text(m) ==
    SumFunction([i \in DOMAIN m |-> Bytes(i) + Bytes(m[i].agent) + policy_text(m[i].policy)
                                    + admission_text(m[i].admission)])

challenges_text(m) ==
    SumFunction([i \in DOMAIN m |-> Bytes(i) + Bytes(m[i].challenge) + Bytes(m[i].agent)
                                    + policy_text(m[i].policy) + Bytes(m[i].args_hash)])

grants_text(m) == SumFunction([g \in DOMAIN m |-> Bytes(g.agent) + Bytes(g.assignment)])

retained_text ==
    Length(agent_active) + parents_text(agent_parent)
    + Length(cap_keys) + Length(taint_keys) + Length(integ_keys)
    + pending_text(pending) + challenges_text(challenges)
    + Length(consumed_ids) + Length(consumed_attestations) + Length(consumed_crossings)
    + grants_text(crossing_grants) + Length(tool_registered)

check_state_shape ==
    /\ Cardinality(agent_active) <= MaxAgents
    /\ Cardinality(DOMAIN agent_parent) <= MaxKeys
    /\ Cardinality(cap_keys) <= MaxKeys
    /\ Cardinality(taint_keys) <= MaxKeys
    /\ Cardinality(integ_keys) <= MaxKeys
    /\ Cardinality(DOMAIN pending) <= MaxPending
    /\ Cardinality(DOMAIN challenges) <= MaxChallenges
    /\ Cardinality(DOMAIN crossing_grants) <= MaxGrants
    /\ Cardinality(consumed_ids) <= MaxIds
    /\ Cardinality(consumed_attestations) <= MaxAttestations
    /\ Cardinality(consumed_crossings) <= MaxCrossings
    /\ Cardinality(tool_registered) <= MaxTools
    /\ \A a \in AgentId : /\ Cardinality(taint_levels[a]) <= MaxLevels
                          /\ Cardinality(integ_levels[a]) <= MaxLevels

check_state == check_state_shape /\ retained_text <= MaxText

(* check_command: no value a command carries is too long.                  *)
check_command(values) == \A v \in values : Bytes(v) <= MaxOpaque

(* The retained text after adding some bytes.                              *)
text_fits(addition) == checked_capacity(retained_text, addition, MaxText)

---------------------------------------------------------------------------
(* check_post_transition, one operator per command that can grow the state *)

register_tool_fits(tool) ==
    /\ checked_capacity(Cardinality(tool_registered), 1, MaxTools)
    /\ text_fits(Bytes(tool))

delegate_fits(grantor, grantee) ==
    /\ checked_capacity(Cardinality(agent_active), 1, MaxAgents)
    /\ checked_capacity(Cardinality(DOMAIN agent_parent), 1, MaxKeys)
    /\ text_fits(2 * Bytes(grantee) + Bytes(grantor))

NewKey(keys, a) == IF a \in keys THEN 0 ELSE 1

NewLevel(levels, l) == IF l \in levels THEN 0 ELSE 1

grant_capability_fits(child) ==
    /\ checked_capacity(Cardinality(cap_keys), NewKey(cap_keys, child), MaxKeys)
    /\ text_fits(NewKey(cap_keys, child) * Bytes(child))

grant_crossing_fits(agent, assignment) ==
    /\ checked_capacity(Cardinality(DOMAIN crossing_grants), 1, MaxGrants)
    /\ text_fits(Bytes(agent) + Bytes(assignment))

label_keys_fit(agent) ==
    /\ checked_capacity(Cardinality(taint_keys), NewKey(taint_keys, agent), MaxKeys)
    /\ checked_capacity(Cardinality(integ_keys), NewKey(integ_keys, agent), MaxKeys)

ingest_fits(agent, pconf, pinteg) ==
    /\ label_keys_fit(agent)
    /\ checked_capacity(Cardinality(taint_levels[agent]),
                        NewLevel(taint_levels[agent], pconf), MaxLevels)
    /\ checked_capacity(Cardinality(integ_levels[agent]),
                        NewLevel(integ_levels[agent], pinteg), MaxLevels)
    /\ text_fits((NewKey(taint_keys, agent) + NewKey(integ_keys, agent)) * Bytes(agent))

(* Faulty variant: the id is counted once, though a pending record and the *)
(* consumed ids both keep it.                                              *)
begin_invocation_fits_once(agent, inv, chal, snap, ah) ==
    /\ checked_capacity(Cardinality(DOMAIN pending), 1, MaxPending)
    /\ checked_capacity(Cardinality(DOMAIN challenges), 1, MaxChallenges)
    /\ checked_capacity(Cardinality(consumed_ids), 1, MaxIds)
    /\ text_fits(Bytes(inv) + Bytes(agent) + Bytes(snap.tool) + Bytes(snap.policy_digest))

begin_invocation_fits(agent, inv, chal, snap, ah) ==
    /\ checked_capacity(Cardinality(DOMAIN pending), 1, MaxPending)
    /\ checked_capacity(Cardinality(DOMAIN challenges), 1, MaxChallenges)
    /\ checked_capacity(Cardinality(consumed_ids), 1, MaxIds)
    /\ text_fits(2 * Bytes(inv) + Bytes(agent) + Bytes(chal) + Bytes(snap.tool)
                 + Bytes(snap.policy_digest) + Bytes(ah))

authorize_inspected_fits(inv, att) ==
    LET sc == challenges[inv]
        moved == IF inv \in DOMAIN challenges
                 THEN Bytes(inv) + Bytes(sc.agent) + Bytes(sc.policy.tool)
                      + Bytes(sc.policy.policy_digest)
                 ELSE 0
    IN  /\ checked_capacity(Cardinality(DOMAIN pending), 1, MaxPending)
        /\ checked_capacity(Cardinality(consumed_attestations), 1, MaxAttestations)
        /\ text_fits(2 * Bytes(att.id) + moved)

settle_invocation_fits(inv, att) ==
    LET known == inv \in DOMAIN pending
        agent == pending[inv].agent
        evidence == IF att = None THEN 0 ELSE Bytes(att.id)
    IN  /\ att # None =>
               checked_capacity(Cardinality(consumed_attestations), 1, MaxAttestations)
        /\ known => label_keys_fit(agent)
        /\ text_fits((IF known THEN 2 * Bytes(agent) ELSE 0) + evidence)

(* The levels a crossing is taken to add: those of the source that the     *)
(* receiver lacks, and never less than one.                                *)
levels_added(keys, levels, src, rcv) ==
    IF src \in keys THEN Max({1, Cardinality(levels[src] \ levels[rcv])}) ELSE 1

levels_fit(q) ==
    /\ checked_capacity(Cardinality(taint_levels[q.rcv]),
                        levels_added(taint_keys, taint_levels, q.src, q.rcv), MaxLevels)
    /\ checked_capacity(Cardinality(integ_levels[q.rcv]),
                        levels_added(integ_keys, integ_levels, q.src, q.rcv), MaxLevels)

(* check_cross_post                                                        *)
cross_output_fits(q) ==
    LET evidence == IF q.evidence = None THEN 0 ELSE Bytes(q.evidence.id)
    IN  /\ checked_capacity(Cardinality(consumed_crossings), 1, MaxCrossings)
        /\ q.evidence # None =>
               checked_capacity(Cardinality(consumed_attestations), 1, MaxAttestations)
        /\ label_keys_fit(q.rcv)
        /\ levels_fit(q)
        /\ text_fits(Bytes(q.crossing) + 2 * Bytes(q.rcv) + evidence)

---------------------------------------------------------------------------
LimitedTools ==
    \E tool \in ToolId :
        /\ check_command({tool})
        /\ \/ register_tool_fits(tool) /\ register_tool(tool)
           \/ unregister_tool(tool)

LimitedTree ==
    \E a, b \in AgentId :
        /\ check_command({a, b})
        /\ \/ delegate_fits(a, b) /\ delegate(a, b)
           \/ \E cap \in CapKind : grant_capability_fits(b) /\ grant_capability(a, b, cap)
           \/ \E d \in AssignmentDigest, n \in GrantSizes :
                 check_command({d}) /\ grant_crossing_fits(b, d) /\ grant_crossing(a, b, d, n)
           \/ revoke(a, b)
           \/ cascade_revoke(a, b)

LimitedIngest ==
    \E a \in AgentId, src \in Maybe(AgentId), p \in Provenances :
        /\ check_command({a, src} \ {None})
        /\ ingest_fits(a, p[1], p[2])
        /\ ingest(a, src, p[1], p[2])

LimitedBegin ==
    \E a \in AgentId, inv \in InvocationId, chal \in ChallengeId, snap \in Snapshots,
       egr \in SUBSET EgressKind, ah \in ContentHash, authorized \in BOOLEAN :
        /\ check_command({a, inv, chal, snap.tool, snap.policy_digest, ah})
        /\ begin_invocation_fits(a, inv, chal, snap, ah)
        /\ begin_invocation(a, inv, chal, snap, egr, ah, authorized)

LimitedInspect ==
    \E inv \in InvocationId, att \in Inspections :
        /\ check_command({inv, att.id, att.inv, att.challenge, att.args_hash, att.policy_digest})
        /\ authorize_inspected_fits(inv, att)
        /\ authorize_inspected(inv, att)

LimitedSettle ==
    \E inv \in InvocationId, outcome \in Outcome, att \in Maybe(Resolutions) :
        /\ check_command({inv} \cup (IF att = None THEN {} ELSE {att.id, att.inv}))
        /\ settle_invocation_fits(inv, att)
        /\ settle_invocation(inv, outcome, att)

LimitedCross ==
    \E q \in CrossInputs :
        /\ check_command({q.src, q.rcv, q.crossing, q.output_hash, q.descriptor, q.assignment})
        /\ q.evidence # None =>
               check_command({q.evidence.id, q.evidence.output, q.evidence.src, q.evidence.rcv,
                              q.evidence.descriptor, q.evidence.assignment})
        /\ cross_output_fits(q)
        /\ cross_output(q)

(* preflight, then the kernel's transition.                                *)
LimitedNext ==
    /\ check_state
    /\ LimitedTools \/ LimitedTree \/ LimitedIngest \/ LimitedBegin
       \/ LimitedInspect \/ LimitedSettle \/ LimitedCross

LimitedSpec == Init /\ [][LimitedNext]_vars

(* An agent is taken back by whichever of the two commands applies.        *)
LimitedClear(a) ==
    \E p \in AgentId :
        /\ check_state
        /\ check_command({p, a})
        /\ revoke(p, a) \/ cascade_revoke(a, p)

(* An operator who, sooner or later, takes back every agent that the       *)
(* instance lets it take back, and is free to do anything in between.      *)
OperatorSpec == LimitedSpec /\ \A a \in AgentId \ {Root} : WF_vars(LimitedClear(a))

---------------------------------------------------------------------------
(* The preflight's estimate is never too low: no accepted command leads to *)
(* a state outside the limits, which instance_state would refuse to show   *)
(* and which no later command, not even a revocation, could leave.         *)
WithinLimits == check_state

(* What an agent takes up: its place, its records, challenges and grants.  *)
Occupies(a) ==
    \/ a \in agent_active
    \/ \E i \in DOMAIN pending : pending[i].agent = a
    \/ \E i \in DOMAIN challenges : challenges[i].agent = a
    \/ \E g \in DOMAIN crossing_grants : g.agent = a

(* An instance at its limits is never stuck: a record that cannot be       *)
(* settled because its settlement reserves text, a challenge that cannot   *)
(* be answered and a grant that cannot be refilled all go with their       *)
(* agent, and taking an agent back is never refused for lack of room.      *)
NothingIsStuck ==
    \A a \in AgentId \ {Root} : Occupies(a) ~> ~Occupies(a)
===========================================================================
