------------------------------- MODULE Kernel -------------------------------
(***************************************************************************)
(* The twelve transitions of the Argus kernel (argus-kernel:               *)
(* transitions.rs), one action each.  A call the Rust function refuses     *)
(* with an error returns no new state, so it is no step: the guard of an   *)
(* action is the conjunction of the early returns being passed.            *)
(*                                                                         *)
(* What an adapter may pass in is a parameter: the policy snapshots, the   *)
(* attestations, the crossing requests, the provenance pairs and the grant *)
(* sizes.  The kernel trusts none of them, so the specification lets any   *)
(* caller present any of them at any time, in any order, more than once.   *)
(***************************************************************************)
EXTENDS KernelState

CONSTANTS Snapshots,     \* action policies a caller may freeze at admission
          Inspections,   \* inspection attestations that may be presented
          Resolutions,   \* quarantine resolutions that may be presented
          CrossInputs,   \* crossing requests that may be presented
          Provenances,   \* pairs (confidentiality, integrity) of ingested data
          GrantSizes     \* uses an operator may provision

ASSUME InputsAssumption ==
    /\ Snapshots \subseteq ActionPolicySnapshot
    /\ Inspections \subseteq InspectionAttestation
    /\ Resolutions \subseteq ResolutionAttestation
    /\ CrossInputs \subseteq CrossInput
    /\ Provenances \subseteq ConfLevel \X IntegLevel
    /\ GrantSizes \subseteq 0..MaxUses

---------------------------------------------------------------------------
(* Tools                                                                   *)

register_tool(tool) ==
    /\ tool \notin tool_registered
    /\ tool_registered' = tool_registered \cup {tool}
    /\ UNCHANGED <<agentVars, labelVars, pending, challenges, consumedVars, crossing_grants>>

(* Faulty variant: only pending records keep a tool in use.                *)
tool_in_use_ignores_challenges(tool) ==
    \E i \in DOMAIN pending : pending[i].policy.tool = tool

tool_in_use(tool) ==
    \/ \E i \in DOMAIN pending : pending[i].policy.tool = tool
    \/ \E i \in DOMAIN challenges : challenges[i].policy.tool = tool

unregister_tool(tool) ==
    /\ tool \in tool_registered
    /\ ~tool_in_use(tool)
    /\ tool_registered' = tool_registered \ {tool}
    /\ UNCHANGED <<agentVars, labelVars, pending, challenges, consumedVars, crossing_grants>>

---------------------------------------------------------------------------
(* The agent tree                                                          *)

(* Faulty variant: the id of a revoked parent may be used again.           *)
delegable_despite_children(grantor, grantee) ==
    /\ grantor \in agent_active
    /\ grantee \notin agent_active
    /\ grantee # Root

delegable(grantor, grantee) ==
    /\ grantor \in agent_active
    /\ grantee \notin agent_active
    /\ grantee # Root
    /\ \A child \in DOMAIN agent_parent : agent_parent[child] # grantee

delegate(grantor, grantee) ==
    LET kept == Restrict(agent_parent,
                    {c \in DOMAIN agent_parent : c # grantee /\ agent_parent[c] # grantee})
    IN
    /\ delegable(grantor, grantee)
    /\ agent_active' = agent_active \cup {grantee}
    /\ agent_parent' = insert(kept, grantee, grantor)
    /\ agent_cap' = remove_key(agent_cap, grantee)
    /\ taint_levels' = remove_key(taint_levels, grantee)
    /\ integ_levels' = remove_key(integ_levels, grantee)
    /\ pending' = drop_pending_of(grantee)
    /\ challenges' = drop_challenges_of(grantee)
    /\ crossing_grants' = drop_grants_of(grantee)
    /\ UNCHANGED <<consumedVars, tool_registered>>

IsParent(parent, child) ==
    child \in DOMAIN agent_parent /\ agent_parent[child] = parent

(* Faulty variant: the parent need not hold what it grants.                *)
grantable_unheld(parent, child, cap) ==
    /\ parent \in agent_active
    /\ child \in agent_active
    /\ IsParent(parent, child)

grantable(parent, child, cap) ==
    /\ parent \in agent_active
    /\ child \in agent_active
    /\ IsParent(parent, child)
    /\ cap \in agent_cap[parent]

grant_capability(parent, child, cap) ==
    /\ grantable(parent, child, cap)
    /\ agent_cap' = insert_into(agent_cap, child, cap)
    /\ UNCHANGED <<agent_active, agent_parent, labelVars, pending, challenges,
                   consumedVars, crossing_grants, tool_registered>>

grant_crossing(grantor, agent, assignment, n) ==
    /\ grantor = Root
    /\ {grantor, agent} \subseteq agent_active
    /\ crossing_grants' = insert(crossing_grants,
            [agent |-> agent, assignment |-> assignment],
            [remaining |-> n, provisioned |-> n])
    /\ UNCHANGED <<agentVars, labelVars, pending, challenges, consumedVars, tool_registered>>

(* The destruction set revoke and cascade_revoke share.                    *)
clear_agent(agent) ==
    /\ agent_active' = agent_active \ {agent}
    /\ agent_parent' = remove(agent_parent, agent)
    /\ agent_cap' = remove_key(agent_cap, agent)
    /\ taint_levels' = remove_key(taint_levels, agent)
    /\ integ_levels' = remove_key(integ_levels, agent)
    /\ pending' = drop_pending_of(agent)
    /\ challenges' = drop_challenges_of(agent)
    /\ crossing_grants' = drop_grants_of(agent)
    /\ UNCHANGED <<consumedVars, tool_registered>>

revoke(parent, target) ==
    /\ IsParent(parent, target)
    /\ parent \in agent_active
    /\ target \in agent_active
    /\ target # Root
    /\ clear_agent(target)

cascade_revoke(child, parent) ==
    /\ IsParent(parent, child)
    /\ parent \notin agent_active
    /\ child \in agent_active
    /\ child # Root
    /\ clear_agent(child)

---------------------------------------------------------------------------
(* Bands.  A level passes a gate freely (ALLOW), or, unless the gate is    *)
(* evaluated strictly, in the inspect band of a party that is vouched for. *)

flow_passes(level, egress, strict, is_vouched) ==
    \/ flow_allows(level, egress)
    \/ ~strict /\ flow_inspects(level, egress) /\ is_vouched

integ_passes(level, snap, strict, is_vouched) ==
    \/ integ_allows(level, snap)
    \/ ~strict /\ integ_inspects(level, snap) /\ is_vouched

(* What becomes of a release into a running agent's labels: permitted when *)
(* the holds of its pending records pass, otherwise refused in enforce     *)
(* mode and executed, with the agent demoted, in monitor mode.             *)

(* Faulty variant: enforce mode demotes instead of refusing.               *)
hold_disposition_never_refuses(holds) ==
    IF holds THEN "permitted" ELSE "monitor_bypassed"

hold_disposition(holds) ==
    CASE holds -> "permitted"
      [] ~holds /\ Mode = "monitor" -> "monitor_bypassed"
      [] OTHER -> "refused"

---------------------------------------------------------------------------
(* Ingest                                                                  *)

ingest_conf_hold(a, pconf) ==
    \A inv \in PendingOf(a) : \A e \in pending[inv].egress :
        flow_passes(pconf, e, FALSE, vouched(pending[inv]))

ingest_clear_hold(a, pconf) ==
    \A inv \in PendingOf(a) : pconf <= pending[inv].policy.conf_clearance

ingest_integ_hold(a, pinteg) ==
    \A inv \in PendingOf(a) :
        integ_passes(pinteg, pending[inv].policy, FALSE, vouched(pending[inv]))

ingest_holds(a, pconf, pinteg) ==
    /\ ingest_conf_hold(a, pconf)
    /\ ingest_clear_hold(a, pconf)
    /\ ingest_integ_hold(a, pinteg)

(* Faulty variant: only integrity is compared.                             *)
dominates_integ_only(pconf, pinteg, src) == \A l \in integ_levels[src] : pinteg <= l

(* Agent-to-agent provenance dominates the labels the source holds.        *)
dominates(pconf, pinteg, src) ==
    /\ \A l \in taint_levels[src] : l <= pconf
    /\ \A l \in integ_levels[src] : pinteg <= l

ingest(a, src, pconf, pinteg) ==
    /\ a \in agent_active
    /\ src # None => dominates(pconf, pinteg, src)
    /\ \/ /\ hold_disposition(ingest_holds(a, pconf, pinteg)) = "permitted"
          /\ UNCHANGED pending
       \/ /\ hold_disposition(ingest_holds(a, pconf, pinteg)) = "monitor_bypassed"
          /\ pending' = demote_all_of(pending, a)
    /\ taint_levels' = insert_into(taint_levels, a, pconf)
    /\ integ_levels' = insert_into(integ_levels, a, pinteg)
    /\ UNCHANGED <<agentVars, challenges, consumedVars, crossing_grants, tool_registered>>

---------------------------------------------------------------------------
(* Settlement                                                              *)

(* Faulty variant: a quarantined record settles like any other.            *)
settleable_without_evidence(inv, outcome, att) ==
    /\ inv \in DOMAIN pending
    /\ pending[inv].agent \in agent_active
    /\ att = None

(* Faulty variant: a resolution may be presented again.                    *)
settleable_replayed(inv, outcome, att) ==
    /\ inv \in DOMAIN pending
    /\ pending[inv].agent \in agent_active
    /\ IF pending[inv].quarantined
       THEN outcome # "ambiguous" /\ att # None /\ att.inv = inv /\ att.outcome = outcome
       ELSE att = None

settleable(inv, outcome, att) ==
    /\ inv \in DOMAIN pending
    /\ pending[inv].agent \in agent_active
    /\ pending[inv].disposition # "blocked"
    /\ IF pending[inv].quarantined
       THEN /\ outcome # "ambiguous"
            /\ att # None
            /\ att.inv = inv
            /\ att.outcome = outcome
            /\ att.id \notin consumed_attestations
       ELSE att = None

(* Faulty variant: a failed invocation is taken to have returned nothing.  *)
absorbs_success_only(outcome) == outcome = "success"

(* Success and failure absorb the frozen output labels, ambiguity waits.   *)
absorbs(outcome) == outcome # "ambiguous"

(* The pending map after an invocation is quarantined or closed.           *)
settled(inv, outcome) ==
    IF outcome = "ambiguous"
    THEN insert(pending, inv, [pending[inv] EXCEPT !.quarantined = TRUE])
    ELSE remove(pending, inv)

settle_invocation(inv, outcome, att) ==
    LET j == pending[inv] IN
    /\ settleable(inv, outcome, att)
    /\ pending' = IF contained(j)
                  THEN settled(inv, outcome)
                  ELSE demote_all_of(settled(inv, outcome), j.agent)
    /\ IF absorbs(outcome)
       THEN /\ taint_levels' = insert_into(taint_levels, j.agent, j.policy.output_conf)
            /\ integ_levels' = insert_into(integ_levels, j.agent, j.policy.output_integ)
       ELSE UNCHANGED labelVars
    /\ consumed_attestations' =
            consumed_attestations \cup (IF att = None THEN {} ELSE {att.id})
    /\ UNCHANGED <<agentVars, challenges, consumed_ids, consumed_crossings,
                   crossing_grants, tool_registered>>

---------------------------------------------------------------------------
(* The admission gate                                                      *)

(* Faulty variant: one of the required capabilities is enough.             *)
check_capability_any(a, snap) ==
    snap.required_caps # {} => snap.required_caps \cap agent_cap[a] # {}

check_capability(a, snap) == snap.required_caps \subseteq agent_cap[a]

check_clearance(a, snap) ==
    /\ \A l \in speculative_taint(a) \cup {snap.output_conf} : l <= snap.conf_clearance
    /\ \A inv \in PendingOf(a) : snap.output_conf <= pending[inv].policy.conf_clearance

(* Faulty variant: the newcomer's output is not held against the egress of *)
(* the invocations already running.                                        *)
check_flow_one_way(a, snap, egr, strict) ==
    \A l \in speculative_taint(a) \cup {snap.output_conf}, e \in egr :
        flow_passes(l, e, strict, TRUE)

check_flow(a, snap, egr, strict) ==
    /\ \A l \in speculative_taint(a) \cup {snap.output_conf}, e \in egr :
            flow_passes(l, e, strict, TRUE)
    /\ \A inv \in PendingOf(a) : \A e \in pending[inv].egress :
            flow_passes(snap.output_conf, e, strict, vouched(pending[inv]))

(* Faulty variant: the newcomer's output is not held against the floors of *)
(* the invocations already running.                                        *)
check_integ_one_way(a, snap, strict) ==
    \A l \in speculative_integ(a) \cup {snap.output_integ} :
        integ_passes(l, snap, strict, TRUE)

check_integ(a, snap, strict) ==
    /\ \A l \in speculative_integ(a) \cup {snap.output_integ} :
            integ_passes(l, snap, strict, TRUE)
    /\ \A inv \in PendingOf(a) :
            integ_passes(snap.output_integ, pending[inv].policy, strict, vouched(pending[inv]))

egress_narrows(egr, declared) == egr \subseteq declared

egress_covers(declared, egr) == declared # {} => egr # {}

(* Every check on its ALLOW arm.                                           *)
begin_strict(a, snap, egr, authorized) ==
    /\ check_capability(a, snap)
    /\ authorized
    /\ check_clearance(a, snap)
    /\ check_flow(a, snap, egr, TRUE)
    /\ check_integ(a, snap, TRUE)

(* Every check on its ALLOW-or-INSPECT arm.                                *)
begin_admissible(a, snap, egr, authorized) ==
    /\ check_capability(a, snap)
    /\ authorized
    /\ check_clearance(a, snap)
    /\ check_flow(a, snap, egr, FALSE)
    /\ check_integ(a, snap, FALSE)

verdict(a, snap, egr, authorized) ==
    CASE begin_strict(a, snap, egr, authorized) -> "allow"
      [] ~begin_strict(a, snap, egr, authorized) /\
            begin_admissible(a, snap, egr, authorized) -> "inspection_required"
      [] OTHER -> "deny"

fresh(inv) ==
    /\ inv \notin DOMAIN pending
    /\ inv \notin consumed_ids
    /\ inv \notin DOMAIN challenges

begin_structural(a, inv, snap, egr) ==
    /\ a \in agent_active
    /\ a # Root
    /\ snap.tool \in tool_registered
    /\ snap.integ_inspect <= snap.integ_floor
    /\ fresh(inv)
    /\ egress_narrows(egr, snap.declared_egress)
    /\ egress_covers(snap.declared_egress, egr)

(* The record admission creates.                                           *)
NewPending(a, snap, egr, admission, disposition, authorized) ==
    [agent |-> a, policy |-> snap, egress |-> egr, admission |-> admission,
     disposition |-> disposition, authorized |-> authorized, quarantined |-> FALSE]

begin_invocation(a, inv, chal, snap, egr, ah, authorized) ==
    LET v == verdict(a, snap, egr, authorized) IN
    /\ begin_structural(a, inv, snap, egr)
    /\ \/ /\ v = "allow"
          /\ pending' = insert(pending, inv,
                NewPending(a, snap, egr, [kind |-> "plain"], "permitted", authorized))
          /\ UNCHANGED challenges
       \/ /\ v = "inspection_required"
          /\ Mode = "enforce"
          /\ challenges' = insert(challenges, inv,
                [challenge |-> chal, agent |-> a, policy |-> snap, egress |-> egr,
                 args_hash |-> ah, authorized |-> authorized])
          /\ UNCHANGED pending
       \/ /\ v # "allow"
          /\ Mode = "monitor"
          /\ pending' = insert(pending, inv,
                NewPending(a, snap, egr, [kind |-> "bypassed"], "monitor_bypassed", authorized))
          /\ UNCHANGED challenges
    /\ consumed_ids' = consumed_ids \cup {inv}
    /\ UNCHANGED <<agentVars, labelVars, consumed_attestations, consumed_crossings,
                   crossing_grants, tool_registered>>

---------------------------------------------------------------------------
(* Inspection                                                              *)

(* Faulty variant: the gate that opened the challenge is not asked again.  *)
authorize_admits_stale(inv, sc) ==
    sc.agent \in agent_active /\ inv \notin DOMAIN pending

authorize_admits(inv, sc) ==
    /\ sc.agent \in agent_active
    /\ sc.agent # Root
    /\ sc.policy.tool \in tool_registered
    /\ sc.policy.integ_inspect <= sc.policy.integ_floor
    /\ inv \notin DOMAIN pending
    /\ egress_narrows(sc.egress, sc.policy.declared_egress)
    /\ egress_covers(sc.policy.declared_egress, sc.egress)
    /\ begin_admissible(sc.agent, sc.policy, sc.egress, sc.authorized)

(* Faulty variant: the attestation may name another invocation.            *)
in_scope_any_invocation(inv, att) ==
    /\ att.challenge = challenges[inv].challenge
    /\ att.args_hash = challenges[inv].args_hash
    /\ att.policy_digest = challenges[inv].policy.policy_digest

in_scope(inv, att) ==
    /\ att.inv = inv
    /\ att.challenge = challenges[inv].challenge
    /\ att.args_hash = challenges[inv].args_hash
    /\ att.policy_digest = challenges[inv].policy.policy_digest
    /\ att.id \notin consumed_attestations

authorize_inspected(inv, att) ==
    LET sc == challenges[inv] IN
    /\ inv \in DOMAIN challenges
    /\ in_scope(inv, att)
    /\ IF att.positive /\ authorize_admits(inv, sc)
       THEN pending' = insert(pending, inv,
                NewPending(sc.agent, sc.policy, sc.egress,
                    [kind |-> "inspected", att |-> att.id], "permitted", sc.authorized))
       ELSE UNCHANGED pending
    /\ challenges' = remove(challenges, inv)
    /\ consumed_attestations' = consumed_attestations \cup {att.id}
    /\ UNCHANGED <<agentVars, labelVars, consumed_ids, consumed_crossings,
                   crossing_grants, tool_registered>>

---------------------------------------------------------------------------
(* Crossing                                                                *)

(* Faulty variant: an exhausted grant still endorses.                      *)
endorsed_ok_exhausted(q) ==
    LET key == [agent |-> q.rcv, assignment |-> q.assignment] IN
    /\ q.evidence # None
    /\ q.evidence.positive
    /\ q.evidence.id \notin consumed_attestations
    /\ key \in DOMAIN crossing_grants

endorsed_ok(q) ==
    LET key == [agent |-> q.rcv, assignment |-> q.assignment] IN
    /\ q.evidence # None
    /\ q.evidence.positive
    /\ q.evidence.id \notin consumed_attestations
    /\ q.evidence.output = q.output_hash
    /\ q.evidence.src = q.src
    /\ q.evidence.rcv = q.rcv
    /\ q.evidence.descriptor = q.descriptor
    /\ q.evidence.assignment = q.assignment
    /\ key \in DOMAIN crossing_grants
    /\ crossing_grants[key].remaining > 0

branch(q) ==
    CASE endorsed_ok(q) -> "endorsed"
      [] ~endorsed_ok(q) /\ q.fallback = "release_unendorsed" -> "unendorsed"
      [] OTHER -> "fail"

(* Faulty variant: what the source holds does not matter.                  *)
endorsed_bounds_unchecked(q) == q.released_integ <= q.t_integ

(* Endorsement obeys the assignment: a declassifying contract is bounded   *)
(* by its target, any other covers what the source holds.                  *)
endorsed_bounds(q) ==
    /\ q.released_integ <= q.t_integ
    /\ IF q.t_conf # None
       THEN q.released_conf <= q.t_conf
       ELSE \A l \in taint_levels[q.src] : l <= q.released_conf

(* The labels a branch releases into the receiver.                         *)
released_conf(q) ==
    CASE branch(q) = "endorsed" -> {q.released_conf}
      [] branch(q) = "unendorsed" -> taint_levels[q.src]
      [] OTHER -> {}

released_integ(q) ==
    CASE branch(q) = "endorsed" -> {q.released_integ}
      [] branch(q) = "unendorsed" -> integ_levels[q.src]
      [] OTHER -> {}

(* Faulty variant: the receiver's running invocations are not protected.   *)
cross_holds_always(q) == TRUE

cross_holds(q) ==
    /\ \A l \in released_conf(q) : ingest_conf_hold(q.rcv, l) /\ ingest_clear_hold(q.rcv, l)
    /\ \A l \in released_integ(q) : ingest_integ_hold(q.rcv, l)

(* Faulty variant: a source with work in flight may cross, and a crossing  *)
(* id may be used again.                                                   *)
crossable_in_flight(q) == {q.src, q.rcv} \subseteq agent_active

crossable(q) ==
    /\ {q.src, q.rcv} \subseteq agent_active
    /\ PendingOf(q.src) = {}
    /\ q.crossing \notin consumed_crossings

cross_output(q) ==
    /\ crossable(q)
    /\ branch(q) = "endorsed" => endorsed_bounds(q)
    /\ \/ /\ hold_disposition(cross_holds(q)) = "permitted"
          /\ UNCHANGED pending
       \/ /\ hold_disposition(cross_holds(q)) = "monitor_bypassed"
          /\ pending' = demote_all_of(pending, q.rcv)
    /\ taint_levels' = extend_into(taint_levels, q.rcv, released_conf(q))
    /\ integ_levels' = extend_into(integ_levels, q.rcv, released_integ(q))
    /\ consumed_crossings' = consumed_crossings \cup {q.crossing}
    /\ IF branch(q) = "endorsed"
       THEN /\ consumed_attestations' = consumed_attestations \cup {q.evidence.id}
            /\ crossing_grants' = decrement_grant_at(q.rcv, q.assignment)
       ELSE UNCHANGED <<consumed_attestations, crossing_grants>>
    /\ UNCHANGED <<agentVars, challenges, consumed_ids, tool_registered>>

---------------------------------------------------------------------------
Init == initial

ToolNext ==
    \E tool \in ToolId : register_tool(tool) \/ unregister_tool(tool)

TreeNext ==
    \E a, b \in AgentId :
        \/ delegate(a, b)
        \/ \E cap \in CapKind : grant_capability(a, b, cap)
        \/ \E d \in AssignmentDigest, n \in GrantSizes : grant_crossing(a, b, d, n)
        \/ revoke(a, b)
        \/ cascade_revoke(a, b)

IngestNext ==
    \E a \in AgentId, src \in Maybe(AgentId), p \in Provenances : ingest(a, src, p[1], p[2])

BeginNext ==
    \E a \in AgentId, inv \in InvocationId, chal \in ChallengeId, snap \in Snapshots,
       egr \in SUBSET EgressKind, ah \in ContentHash, authorized \in BOOLEAN :
        begin_invocation(a, inv, chal, snap, egr, ah, authorized)

InspectNext ==
    \E inv \in InvocationId, att \in Inspections : authorize_inspected(inv, att)

SettleNext ==
    \E inv \in InvocationId, outcome \in Outcome, att \in Maybe(Resolutions) :
        settle_invocation(inv, outcome, att)

CrossNext == \E q \in CrossInputs : cross_output(q)

Next == ToolNext \/ TreeNext \/ IngestNext \/ BeginNext \/ InspectNext \/ SettleNext \/ CrossNext

Spec == Init /\ [][Next]_vars
===========================================================================
