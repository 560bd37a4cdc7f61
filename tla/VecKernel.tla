----------------------------- MODULE VecKernel -----------------------------
(***************************************************************************)
(* The kernel state as the code keeps it, in vectors (argus-kernel:        *)
(* state.rs, transitions.rs over collections.rs), and what the native      *)
(* adapter shows of it (native state.rs).                                  *)
(*                                                                         *)
(* The writes of the twelve transitions are those of the code, method by   *)
(* method.  Their guards only ask for members, unions and existence; they  *)
(* are the guards of Kernel, on the sets and maps the vectors stand for.   *)
(* ImplementsKernel says that the writes are those of Kernel too, so that  *)
(* nothing Kernel is shown to do depends on the order of a vector.         *)
(***************************************************************************)
EXTENDS KernelTypes, Wire

CONSTANTS PolicyN,       \* policies in a begin_invocation term
          EgressLists,    \* egress lists in a begin_invocation term
          Inspections, Resolutions, CrossInputs, Provenances, GrantSizes,
          CapOrder,       \* CapKind::ALL
          tag(_),         \* CanonicalTag of an enum value
          utf8(_)         \* place of an id in the byte order of strings

(* A policy as a term carries it.                                          *)
ActionPolicySnapshotN ==
    [tool            : ToolId,
     required_caps   : Seq(CapKind),
     conf_clearance  : ConfLevel,
     integ_floor     : IntegLevel,
     integ_inspect   : IntegLevel,
     output_conf     : ConfLevel,
     output_integ    : IntegLevel,
     declared_egress : Seq(EgressKind),
     policy_digest   : PolicyDigest]

ASSUME VecInputsAssumption ==
    /\ PolicyN \subseteq ActionPolicySnapshotN
    /\ EgressLists \subseteq Seq(EgressKind)
    /\ CapOrder \in Seq(CapKind) /\ ToSet(CapOrder) = CapKind
    /\ Inspections \subseteq InspectionAttestation
    /\ Resolutions \subseteq ResolutionAttestation
    /\ CrossInputs \subseteq CrossInput
    /\ Provenances \subseteq ConfLevel \X IntegLevel
    /\ GrantSizes \subseteq 0 .. MaxUses

(* Ids are texts of bounded length and differ from one another in a byte;  *)
(* the values of an enum differ in their tags.                             *)
ASSUME OrderAssumption ==
    /\ \A S \in {AgentId, ToolId, InvocationId, AttestationId, CrossingId, AssignmentDigest} :
          \A x, y \in S : utf8(x) \in Nat /\ (utf8(x) = utf8(y) => x = y)
    /\ \A S \in {CapKind, EgressKind} :
          \A x, y \in S : tag(x) \in Nat /\ (tag(x) = tag(y) => x = y)

VARIABLES agent_active, agent_parent, agent_cap, taint_levels, integ_levels,
          pending, challenges, consumed_ids, consumed_attestations,
          consumed_crossings, crossing_grants, tool_registered

agentVars == <<agent_active, agent_parent, agent_cap>>

labelVars == <<taint_levels, integ_levels>>

consumedVars == <<consumed_ids, consumed_attestations, consumed_crossings>>

vars == <<agentVars, labelVars, pending, challenges, consumedVars,
          crossing_grants, tool_registered>>

(* The sets at the keys of a VecMap into VecSets.                          *)
SetsOf(entries) == [a \in AgentId |-> ToSet(VecMap_get_set_or_empty(entries, a))]

RecordsOf(entries) == [k \in Keys(entries) |-> RecordOf(VecMap_get_cloned(entries, k))]

K == INSTANCE Kernel WITH
        agent_active <- ToSet(agent_active), agent_parent <- MapOf(agent_parent),
        agent_cap <- SetsOf(agent_cap), taint_levels <- SetsOf(taint_levels),
        integ_levels <- SetsOf(integ_levels), pending <- RecordsOf(pending),
        challenges <- RecordsOf(challenges), consumed_ids <- ToSet(consumed_ids),
        consumed_attestations <- ToSet(consumed_attestations),
        consumed_crossings <- ToSet(consumed_crossings),
        crossing_grants <- MapOf(crossing_grants),
        tool_registered <- ToSet(tool_registered),
        Snapshots <- {PolicyOf(p) : p \in PolicyN}

(* KernelState::initial                                                    *)
Init ==
    /\ agent_active = VecSet_insert(VecSet_new, Root)
    /\ agent_cap = VecMap_insert(VecMap_new, Root, VecSet_from_iter(CapOrder))
    /\ agent_parent = VecMap_new
    /\ taint_levels = VecMap_new
    /\ integ_levels = VecMap_new
    /\ pending = VecMap_new
    /\ challenges = VecMap_new
    /\ crossing_grants = VecMap_new
    /\ consumed_ids = VecSet_new
    /\ consumed_attestations = VecSet_new
    /\ consumed_crossings = VecSet_new
    /\ tool_registered = VecSet_new

----------------------------------------------------------------------------
drop_of(entries, agent) == rebuild(entries, LAMBDA k, v : v.agent # agent, LAMBDA v : v)

drop_grants_of(agent) ==
    rebuild(crossing_grants, LAMBDA k, v : k.agent # agent, LAMBDA v : v)

(* The loop in delegate: every edge not touching the grantee.              *)
drop_edges_of(grantee) ==
    rebuild(agent_parent, LAMBDA child, p : child # grantee /\ p # grantee, LAMBDA p : p)

demote_all_of(entries, agent) ==
    rebuild(entries, LAMBDA k, v : TRUE,
            LAMBDA v : IF v.agent = agent THEN [v EXCEPT !.disposition = "monitor_bypassed"]
                       ELSE v)

decrement_grant_at(key) ==
    IF VecMap_contains_key(crossing_grants, key)
    THEN VecMap_insert(crossing_grants, key,
            [VecMap_get_cloned(crossing_grants, key) EXCEPT !.remaining = @ - 1])
    ELSE crossing_grants

register_tool(tool) ==
    /\ ~VecSet_contains(tool_registered, tool)
    /\ tool_registered' = VecSet_insert(tool_registered, tool)
    /\ UNCHANGED <<agentVars, labelVars, pending, challenges, consumedVars, crossing_grants>>

unregister_tool(tool) ==
    /\ VecSet_contains(tool_registered, tool)
    /\ ~K!tool_in_use(tool)
    /\ tool_registered' = VecSet_remove(tool_registered, tool)
    /\ UNCHANGED <<agentVars, labelVars, pending, challenges, consumedVars, crossing_grants>>

(* Faulty variant: an agent's sets are emptied and their keys stay.        *)
destroy_empties(agent) ==
    /\ agent_cap' = VecMap_insert(agent_cap, agent, VecSet_new)
    /\ taint_levels' = VecMap_insert(taint_levels, agent, VecSet_new)
    /\ integ_levels' = VecMap_insert(integ_levels, agent, VecSet_new)
    /\ pending' = drop_of(pending, agent)
    /\ challenges' = drop_of(challenges, agent)
    /\ crossing_grants' = drop_grants_of(agent)
    /\ UNCHANGED <<consumedVars, tool_registered>>

(* What delegate and clear_agent take from an agent.                       *)
destroy(agent) ==
    /\ agent_cap' = VecMap_remove(agent_cap, agent)
    /\ taint_levels' = VecMap_remove(taint_levels, agent)
    /\ integ_levels' = VecMap_remove(integ_levels, agent)
    /\ pending' = drop_of(pending, agent)
    /\ challenges' = drop_of(challenges, agent)
    /\ crossing_grants' = drop_grants_of(agent)
    /\ UNCHANGED <<consumedVars, tool_registered>>

delegate(grantor, grantee) ==
    /\ K!delegable(grantor, grantee)
    /\ agent_active' = VecSet_insert(agent_active, grantee)
    /\ agent_parent' = VecMap_insert(drop_edges_of(grantee), grantee, grantor)
    /\ destroy(grantee)

clear_agent(agent) ==
    /\ agent_active' = VecSet_remove(agent_active, agent)
    /\ agent_parent' = VecMap_remove(agent_parent, agent)
    /\ destroy(agent)

revoke(parent, target) ==
    /\ K!IsParent(parent, target)
    /\ VecSet_contains(agent_active, parent)
    /\ VecSet_contains(agent_active, target)
    /\ target # Root
    /\ clear_agent(target)

cascade_revoke(child, parent) ==
    /\ K!IsParent(parent, child)
    /\ ~VecSet_contains(agent_active, parent)
    /\ VecSet_contains(agent_active, child)
    /\ child # Root
    /\ clear_agent(child)

grant_capability(parent, child, cap) ==
    /\ K!grantable(parent, child, cap)
    /\ agent_cap' = VecMap_insert_into(agent_cap, child, cap)
    /\ UNCHANGED <<agent_active, agent_parent, labelVars, pending, challenges,
                   consumedVars, crossing_grants, tool_registered>>

grant_crossing(grantor, agent, assignment, n) ==
    /\ grantor = Root
    /\ VecSet_contains(agent_active, grantor)
    /\ VecSet_contains(agent_active, agent)
    /\ crossing_grants' = VecMap_insert(crossing_grants,
            [agent |-> agent, assignment |-> assignment],
            [remaining |-> n, provisioned |-> n])
    /\ UNCHANGED <<agentVars, labelVars, pending, challenges, consumedVars, tool_registered>>

----------------------------------------------------------------------------
(* The labels of an agent after it is given levels, one by one.            *)
release(entries, agent, levels) ==
    FoldLeft(LAMBDA m, l : VecMap_insert_into(m, agent, l), entries, levels)

ingest(a, src, pconf, pinteg) ==
    LET disposition == K!hold_disposition(K!ingest_holds(a, pconf, pinteg)) IN
    /\ VecSet_contains(agent_active, a)
    /\ src # None => K!dominates(pconf, pinteg, src)
    /\ disposition # "refused"
    /\ taint_levels' = VecMap_insert_into(taint_levels, a, pconf)
    /\ integ_levels' = VecMap_insert_into(integ_levels, a, pinteg)
    /\ pending' = IF disposition = "permitted" THEN pending ELSE demote_all_of(pending, a)
    /\ UNCHANGED <<agentVars, challenges, consumedVars, crossing_grants, tool_registered>>

settle_invocation(inv, outcome, att) ==
    LET j == VecMap_get_cloned(pending, inv)
        closed == IF outcome = "ambiguous"
                  THEN VecMap_insert(pending, inv, [j EXCEPT !.quarantined = TRUE])
                  ELSE VecMap_remove(pending, inv)
    IN
    /\ K!settleable(inv, outcome, att)
    /\ pending' = IF contained(j) THEN closed ELSE demote_all_of(closed, j.agent)
    /\ IF K!absorbs(outcome)
       THEN /\ taint_levels' = VecMap_insert_into(taint_levels, j.agent, j.policy.output_conf)
            /\ integ_levels' = VecMap_insert_into(integ_levels, j.agent, j.policy.output_integ)
       ELSE UNCHANGED labelVars
    /\ consumed_attestations' = IF att = None THEN consumed_attestations
                                ELSE VecSet_insert(consumed_attestations, att.id)
    /\ UNCHANGED <<agentVars, challenges, consumed_ids, consumed_crossings,
                   crossing_grants, tool_registered>>

(* The command's lists are converted before the transition sees them.      *)
begin_invocation(a, inv, chal, policy, egress, ah, authorized) ==
    LET snap == policy_into_kernel(policy)
        egr == VecSet_from_iter(egress)
        v == K!verdict(a, PolicyOf(snap), ToSet(egr), authorized)
        record(admission, disposition) ==
            K!NewPending(a, snap, egr, admission, disposition, authorized)
    IN
    /\ K!begin_structural(a, inv, PolicyOf(snap), ToSet(egr))
    /\ \/ /\ v = "allow"
          /\ pending' = VecMap_insert(pending, inv, record([kind |-> "plain"], "permitted"))
          /\ UNCHANGED challenges
       \/ /\ v = "inspection_required"
          /\ Mode = "enforce"
          /\ challenges' = VecMap_insert(challenges, inv,
                [challenge |-> chal, agent |-> a, policy |-> snap, egress |-> egr,
                 args_hash |-> ah, authorized |-> authorized])
          /\ UNCHANGED pending
       \/ /\ v # "allow"
          /\ Mode = "monitor"
          /\ pending' = VecMap_insert(pending, inv,
                record([kind |-> "bypassed"], "monitor_bypassed"))
          /\ UNCHANGED challenges
    /\ consumed_ids' = VecSet_insert(consumed_ids, inv)
    /\ UNCHANGED <<agentVars, labelVars, consumed_attestations, consumed_crossings,
                   crossing_grants, tool_registered>>

authorize_inspected(inv, att) ==
    LET sc == VecMap_get_cloned(challenges, inv) IN
    /\ VecMap_contains_key(challenges, inv)
    /\ K!in_scope(inv, att)
    /\ pending' = IF att.positive /\ K!authorize_admits(inv, RecordOf(sc))
                  THEN VecMap_insert(pending, inv,
                        K!NewPending(sc.agent, sc.policy, sc.egress,
                            [kind |-> "inspected", att |-> att.id], "permitted", sc.authorized))
                  ELSE pending
    /\ challenges' = VecMap_remove(challenges, inv)
    /\ consumed_attestations' = VecSet_insert(consumed_attestations, att.id)
    /\ UNCHANGED <<agentVars, labelVars, consumed_ids, consumed_crossings,
                   crossing_grants, tool_registered>>

cross_output(q) ==
    LET disposition == K!hold_disposition(K!cross_holds(q))
        endorsed == K!branch(q) = "endorsed"
        levels(given, entries) ==
            CASE endorsed -> <<given>>
              [] K!branch(q) = "unendorsed" -> VecMap_get_set_or_empty(entries, q.src)
              [] OTHER -> << >>
    IN
    /\ K!crossable(q)
    /\ endorsed => K!endorsed_bounds(q)
    /\ disposition # "refused"
    /\ taint_levels' = release(taint_levels, q.rcv, levels(q.released_conf, taint_levels))
    /\ integ_levels' = release(integ_levels, q.rcv, levels(q.released_integ, integ_levels))
    /\ consumed_crossings' = VecSet_insert(consumed_crossings, q.crossing)
    /\ IF endorsed
       THEN /\ consumed_attestations' = VecSet_insert(consumed_attestations, q.evidence.id)
            /\ crossing_grants' =
                    decrement_grant_at([agent |-> q.rcv, assignment |-> q.assignment])
       ELSE UNCHANGED <<consumed_attestations, crossing_grants>>
    /\ pending' = IF disposition = "permitted" THEN pending ELSE demote_all_of(pending, q.rcv)
    /\ UNCHANGED <<agentVars, challenges, consumed_ids, tool_registered>>

Next ==
    \/ \E tool \in ToolId : register_tool(tool) \/ unregister_tool(tool)
    \/ \E a, b \in AgentId :
          \/ delegate(a, b)
          \/ revoke(a, b)
          \/ cascade_revoke(a, b)
          \/ \E cap \in CapKind : grant_capability(a, b, cap)
          \/ \E d \in AssignmentDigest, n \in GrantSizes : grant_crossing(a, b, d, n)
    \/ \E a \in AgentId, src \in Maybe(AgentId), p \in Provenances : ingest(a, src, p[1], p[2])
    \/ \E inv \in InvocationId :
          \/ \E outcome \in Outcome, att \in Maybe(Resolutions) :
                settle_invocation(inv, outcome, att)
          \/ \E att \in Inspections : authorize_inspected(inv, att)
          \/ \E a \in AgentId, chal \in ChallengeId, policy \in PolicyN, egress \in EgressLists,
                ah \in ContentHash, authorized \in BOOLEAN :
                begin_invocation(a, inv, chal, policy, egress, ah, authorized)
    \/ \E q \in CrossInputs : cross_output(q)

Spec == Init /\ [][Next]_vars
============================================================================
