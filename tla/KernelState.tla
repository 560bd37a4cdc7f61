---------------------------- MODULE KernelState ----------------------------
(***************************************************************************)
(* The mutable state of the Argus kernel and the helpers that read or      *)
(* rebuild parts of it (argus-kernel: state.rs).  The VARIABLES are the    *)
(* fields of the Rust struct KernelState.                                  *)
(***************************************************************************)
EXTENDS KernelTypes

VARIABLES agent_active, agent_parent, agent_cap, taint_levels, integ_levels,
          pending, challenges, consumed_ids, consumed_attestations,
          consumed_crossings, crossing_grants, tool_registered

agentVars == <<agent_active, agent_parent, agent_cap>>

labelVars == <<taint_levels, integ_levels>>

consumedVars == <<consumed_ids, consumed_attestations, consumed_crossings>>

vars == <<agentVars, labelVars, pending, challenges, consumedVars,
          crossing_grants, tool_registered>>

initial ==
    /\ agent_active = {Root}
    /\ agent_parent = EmptyMap
    /\ agent_cap = [a \in AgentId |-> IF a = Root THEN CapKind ELSE {}]
    /\ taint_levels = [a \in AgentId |-> {}]
    /\ integ_levels = [a \in AgentId |-> {}]
    /\ pending = EmptyMap
    /\ challenges = EmptyMap
    /\ consumed_ids = {}
    /\ consumed_attestations = {}
    /\ consumed_crossings = {}
    /\ crossing_grants = EmptyMap
    /\ tool_registered = {}

(* The invocations whose pending record is owned by an agent (the scan     *)
(* over the pending map every helper below and every gate repeats).        *)
PendingOf(agent) == {inv \in DOMAIN pending : pending[inv].agent = agent}

---------------------------------------------------------------------------
(* Worst-case labels: what the agent holds and what its pending            *)
(* invocations may still give it.                                          *)

speculative_taint(agent) ==
    taint_levels[agent] \cup
        {pending[inv].policy.output_conf : inv \in PendingOf(agent)}

(* Faulty variant: only what is already held counts.                       *)
speculative_integ_held_only(agent) == integ_levels[agent]

speculative_integ(agent) ==
    integ_levels[agent] \cup
        {pending[inv].policy.output_integ : inv \in PendingOf(agent)}

speculative_taint_contained(agent) ==
    taint_levels[agent] \cup
        {pending[inv].policy.output_conf :
            inv \in {i \in PendingOf(agent) : contained(pending[i])}}

---------------------------------------------------------------------------
(* Rebuilt maps: the value of pending, challenges or crossing_grants after *)
(* the corresponding method.                                               *)

(* Faulty variant: quarantined records survive their owner.                *)
drop_pending_of_keeps_quarantined(agent) ==
    Restrict(pending,
        {i \in DOMAIN pending : pending[i].agent # agent \/ pending[i].quarantined})

drop_pending_of(agent) ==
    Restrict(pending, DOMAIN pending \ PendingOf(agent))

drop_challenges_of(agent) ==
    Restrict(challenges, {i \in DOMAIN challenges : challenges[i].agent # agent})

(* Faulty variant: nobody is demoted.                                      *)
demote_all_of_nobody(m, agent) == m

(* Settlement demotes after it has closed its own record, so the map is a  *)
(* parameter.                                                              *)
demote_all_of(m, agent) ==
    [i \in DOMAIN m |->
        IF m[i].agent = agent
        THEN [m[i] EXCEPT !.disposition = "monitor_bypassed"]
        ELSE m[i]]

(* Faulty variant: an endorsement is free.                                 *)
decrement_grant_at_never(agent, assignment) == crossing_grants

decrement_grant_at(agent, assignment) ==
    LET key == [agent |-> agent, assignment |-> assignment] IN
    [g \in DOMAIN crossing_grants |->
        IF g = key
        THEN [crossing_grants[g] EXCEPT !.remaining = @ - 1]
        ELSE crossing_grants[g]]

drop_grants_of(agent) ==
    Restrict(crossing_grants, {g \in DOMAIN crossing_grants : g.agent # agent})
===========================================================================
