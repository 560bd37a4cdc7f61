---------------------------- MODULE KernelSafety ----------------------------
(***************************************************************************)
(* What the Argus kernel promises.  The invariants are the ones whose      *)
(* violation takes several commands: two invocations in flight whose       *)
(* labels meet, a challenge answered after the world has changed, an       *)
(* agent cleared while its work, its children or its evidence are still    *)
(* around.  They are stated of the code's state, for both modes.           *)
(***************************************************************************)
EXTENDS Kernel

(* Every field of KernelState has its Rust type; in particular no grant    *)
(* counter leaves the range of u32.                                        *)
TypeOK ==
    /\ agent_active \subseteq AgentId
    /\ IsVecMap(agent_parent, AgentId, AgentId)
    /\ agent_cap \in [AgentId -> SUBSET CapKind]
    /\ taint_levels \in [AgentId -> SUBSET ConfLevel]
    /\ integ_levels \in [AgentId -> SUBSET IntegLevel]
    /\ IsVecMap(pending, InvocationId, PendingInvocation)
    /\ IsVecMap(challenges, InvocationId, ChallengeScope)
    /\ consumed_ids \subseteq InvocationId
    /\ consumed_attestations \subseteq AttestationId
    /\ consumed_crossings \subseteq CrossingId
    /\ IsVecMap(crossing_grants, CrossingKey, CrossingGrant)
    /\ tool_registered \subseteq ToolId

---------------------------------------------------------------------------
(* The agent tree                                                          *)

(* The tree is sound: root is active and parentless, every other active    *)
(* agent hangs under exactly one parent edge, no inactive agent has one,   *)
(* and no set of agents is its own set of parents (no cycle).  So every    *)
(* agent can be taken back, by revoke while its parent is active and by    *)
(* cascade_revoke once it is not.                                          *)
AgentTree ==
    /\ Root \in agent_active
    /\ DOMAIN agent_parent = agent_active \ {Root}
    /\ \A S \in SUBSET DOMAIN agent_parent :
            S # {} => \E a \in S : agent_parent[a] \notin S

(* An active child holds no capability its active parent lacks             *)
(* (grant_capability only copies, and clearing removes all of them).       *)
capability_subsumption ==
    \A c \in DOMAIN agent_parent :
        agent_parent[c] \in agent_active => agent_cap[c] \subseteq agent_cap[agent_parent[c]]

(* Nothing is owned by an agent that is not active: clearing an agent      *)
(* destroys its capabilities, labels, records (quarantined ones too),      *)
(* challenges and grants, and no later command gives it any back.          *)
revocation_clean ==
    /\ \A a \in AgentId \ agent_active :
            agent_cap[a] = {} /\ taint_levels[a] = {} /\ integ_levels[a] = {}
    /\ \A i \in DOMAIN pending : pending[i].agent \in agent_active \ {Root}
    /\ \A i \in DOMAIN challenges : challenges[i].agent \in agent_active \ {Root}
    /\ \A g \in DOMAIN crossing_grants : g.agent \in agent_active

---------------------------------------------------------------------------
(* Confinement.  Everything the owner of a permitted invocation holds, or  *)
(* may come to hold from its other permitted invocations, in whatever      *)
(* order they settle, is fit to leave through that invocation.             *)

(* The dual of speculative_taint_contained for integrity.                  *)
speculative_integ_contained(agent) ==
    integ_levels[agent] \cup
        {pending[inv].policy.output_integ :
            inv \in {i \in PendingOf(agent) : contained(pending[i])}}

(* No permitted invocation can send out, on an egress kind it attested, a  *)
(* level that kind does not allow, unless an inspection vouched for the    *)
(* invocation and the level is in the inspect band.                        *)
flow_confinement ==
    \A i \in DOMAIN pending : contained(pending[i]) =>
        \A l \in speculative_taint_contained(pending[i].agent), e \in pending[i].egress :
            flow_allows(l, e) \/ (flow_inspects(l, e) /\ vouched(pending[i]))

(* No permitted invocation runs for an owner whose integrity is, or can    *)
(* become through its own work, below the floor frozen in its policy,      *)
(* unless it is vouched for within the inspect band.                       *)
integrity_confinement ==
    \A i \in DOMAIN pending : contained(pending[i]) =>
        \A l \in speculative_integ_contained(pending[i].agent) :
            \/ integ_allows(l, pending[i].policy)
            \/ integ_inspects(l, pending[i].policy) /\ vouched(pending[i])

(* No permitted invocation runs for an owner that holds, or can come to    *)
(* hold through its own work, data above the clearance of its policy.      *)
clearance_confinement ==
    \A i \in DOMAIN pending : contained(pending[i]) =>
        \A l \in speculative_taint_contained(pending[i].agent) :
            l <= pending[i].policy.conf_clearance

(* A permitted invocation was authorized and its owner still holds every   *)
(* capability its policy requires.                                         *)
default_deny ==
    \A i \in DOMAIN pending : contained(pending[i]) =>
        /\ pending[i].authorized
        /\ pending[i].policy.required_caps \subseteq agent_cap[pending[i].agent]

---------------------------------------------------------------------------
(* Identifiers and evidence                                                *)

(* Whatever is open was admitted under an id that is spent, in one place   *)
(* only, for a tool that is still registered and within the egress its     *)
(* policy declares.                                                        *)
open_scoped ==
    /\ DOMAIN pending \cup DOMAIN challenges \subseteq consumed_ids
    /\ DOMAIN pending \cap DOMAIN challenges = {}
    /\ \A i \in DOMAIN pending :
            /\ pending[i].policy.tool \in tool_registered
            /\ pending[i].egress \subseteq pending[i].policy.declared_egress
    /\ \A i \in DOMAIN challenges :
            /\ challenges[i].policy.tool \in tool_registered
            /\ challenges[i].egress \subseteq challenges[i].policy.declared_egress

(* Evidence vouches once: the attestation a record carries is spent, no    *)
(* other record carries it, and it is a positive attestation for exactly   *)
(* this invocation under exactly this policy.                              *)
evidence_one_use ==
    \A i \in DOMAIN pending : vouched(pending[i]) =>
        /\ pending[i].admission.att \in consumed_attestations
        /\ \E x \in Inspections :
                /\ x.id = pending[i].admission.att
                /\ x.inv = i
                /\ x.policy_digest = pending[i].policy.policy_digest
                /\ x.positive
        /\ \A k \in DOMAIN pending :
                vouched(pending[k]) /\ pending[k].admission = pending[i].admission => k = i

---------------------------------------------------------------------------
(* What no command may ever do                                             *)

(* Labels only accumulate, and settling an invocation in any way does not  *)
(* lose what its output may have carried: as long as an agent lives, its   *)
(* worst-case labels never shrink.  Only clearing the agent resets them.   *)
LabelsNeverDescend ==
    [][\A a \in agent_active \cap agent_active' :
            /\ speculative_taint(a) \subseteq speculative_taint(a)'
            /\ speculative_integ(a) \subseteq speculative_integ(a)'
            /\ taint_levels[a] \subseteq taint_levels'[a]
            /\ integ_levels[a] \subseteq integ_levels'[a]]_vars

(* An agent whose parent was revoked stays an orphan until it is itself    *)
(* cleared: no reuse of the parent's id adopts it or cuts it loose.        *)
OrphanStaysOrphan ==
    [][\A a \in DOMAIN agent_parent :
            agent_parent[a] \notin agent_active /\ a \in agent_active' =>
                /\ a \in DOMAIN agent_parent'
                /\ agent_parent'[a] = agent_parent[a]
                /\ agent_parent[a] \notin agent_active']_vars

(* A demotion is final: a record that stopped claiming its gates passed    *)
(* never claims it again, and in enforce mode no record is demoted.        *)
PermitStable ==
    [][\A i \in DOMAIN pending \cap DOMAIN pending' :
            /\ contained(pending'[i]) => contained(pending[i])
            /\ Mode = "enforce" => (contained(pending[i]) => contained(pending'[i]))
            /\ pending[i].quarantined => pending'[i].quarantined]_vars

---------------------------------------------------------------------------
(* The kernel implements the invocation lifecycle                          *)

lifecycle_status ==
    [i \in InvocationId |->
        CASE i \in DOMAIN challenges -> "challenged"
          [] i \in DOMAIN pending /\ pending[i].quarantined -> "quarantined"
          [] i \in DOMAIN pending /\ ~pending[i].quarantined -> "running"
          [] i \in consumed_ids \ (DOMAIN pending \cup DOMAIN challenges) -> "closed"
          [] OTHER -> "fresh"]

lifecycle_owner ==
    [i \in InvocationId |->
        CASE i \in DOMAIN pending -> pending[i].agent
          [] i \in DOMAIN challenges /\ i \notin DOMAIN pending -> challenges[i].agent
          [] OTHER -> None]

Lifecycle == INSTANCE InvocationLifecycle
    WITH Invocation <- InvocationId, Evidence <- AttestationId,
         Owner <- AgentId, NoOwner <- None,
         status <- lifecycle_status, owner <- lifecycle_owner,
         spent <- consumed_attestations, alive <- agent_active

(* Every behaviour of the kernel is a behaviour of InvocationLifecycle: an *)
(* id runs at most once, neither a challenge nor a quarantine is left      *)
(* without fresh evidence while its owner lives, and an owner delegated    *)
(* again under an old id inherits nothing.                                 *)
ImplementsLifecycle == Lifecycle!LifecycleSpec
===========================================================================
