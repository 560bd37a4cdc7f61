---------------------------- MODULE KernelProofs ----------------------------
(***************************************************************************)
(* Proofs that the kernel keeps its promises for every set of agents,      *)
(* tools, policies, attestations and requests, and for either mode; first  *)
(* of the kernel itself, then of the kernel with its histories.            *)
(***************************************************************************)
EXTENDS KernelSafety, Exposure, Audit, TLAPS

---------------------------------------------------------------------------
(* The map operations of collections.rs keep a map well typed.             *)

(* Inserting a typed entry keeps a map typed (VecMap::insert).             *)
LEMMA InsertTyped ==
    ASSUME NEW K, NEW V, NEW m, IsVecMap(m, K, V), NEW k \in K, NEW v \in V
    PROVE  IsVecMap(insert(m, k, v), K, V)
  BY DEF IsVecMap, insert

(* Rebuilding a map from some of its entries keeps it typed (the drop      *)
(* helpers of state.rs and VecMap::remove).                                *)
LEMMA RestrictTyped ==
    ASSUME NEW K, NEW V, NEW m, IsVecMap(m, K, V), NEW S \in SUBSET DOMAIN m
    PROVE  IsVecMap(Restrict(m, S), K, V)
  BY DEF IsVecMap, Restrict

(* Removing an entry keeps a map typed (VecMap::remove).                   *)
LEMMA RemoveTyped ==
    ASSUME NEW K, NEW V, NEW m, IsVecMap(m, K, V), NEW k
    PROVE  IsVecMap(remove(m, k), K, V)
  BY RestrictTyped DEF remove

(* Two records are the same to the gates.                                  *)
SameGates(j, k) ==
    /\ j.agent = k.agent
    /\ j.policy = k.policy
    /\ j.egress = k.egress
    /\ j.admission = k.admission
    /\ j.authorized = k.authorized

(* Demoting an agent takes the permit from its records, changes nothing    *)
(* else about them, and leaves other records alone (demote_all_of).        *)
LEMMA DemoteRecords ==
    ASSUME NEW m, IsVecMap(m, InvocationId, PendingInvocation), NEW a
    PROVE  /\ IsVecMap(demote_all_of(m, a), InvocationId, PendingInvocation)
           /\ DOMAIN demote_all_of(m, a) = DOMAIN m
           /\ \A i \in DOMAIN m :
                /\ SameGates(m[i], demote_all_of(m, a)[i])
                /\ demote_all_of(m, a)[i].quarantined = m[i].quarantined
                /\ m[i].agent = a => ~contained(demote_all_of(m, a)[i])
                /\ m[i].agent # a => demote_all_of(m, a)[i] = m[i]
  <1> DEFINE demoted(j) == [j EXCEPT !.disposition = "monitor_bypassed"]
  <1>1. ASSUME NEW j \in PendingInvocation
        PROVE  /\ demoted(j) \in PendingInvocation
               /\ SameGates(j, demoted(j))
               /\ demoted(j).quarantined = j.quarantined
               /\ ~contained(demoted(j))
    BY DEF PendingInvocation, Disposition, SameGates, contained
  <1>2. /\ DOMAIN demote_all_of(m, a) = DOMAIN m
        /\ \A i \in DOMAIN m : demote_all_of(m, a)[i] =
                IF m[i].agent = a THEN demoted(m[i]) ELSE m[i]
    BY DEF demote_all_of
  <1>3. \A i \in DOMAIN m : i \in InvocationId /\ m[i] \in PendingInvocation
    BY DEF IsVecMap
  <1> HIDE DEF demoted
  <1>4. \A i \in DOMAIN m :
            /\ demote_all_of(m, a)[i] \in PendingInvocation
            /\ SameGates(m[i], demote_all_of(m, a)[i])
            /\ demote_all_of(m, a)[i].quarantined = m[i].quarantined
            /\ m[i].agent = a => ~contained(demote_all_of(m, a)[i])
            /\ m[i].agent # a => demote_all_of(m, a)[i] = m[i]
    BY <1>1, <1>2, <1>3 DEF SameGates
  <1>5. QED
    BY <1>2, <1>3, <1>4 DEF IsVecMap

(* Closing or quarantining an invocation keeps the pending map typed and   *)
(* changes no record but its own, in nothing but the quarantine.           *)
LEMMA SettledRecords ==
    ASSUME TypeOK, NEW inv \in DOMAIN pending, NEW outcome
    PROVE  /\ pending[inv] \in PendingInvocation
           /\ IsVecMap(settled(inv, outcome), InvocationId, PendingInvocation)
           /\ DOMAIN settled(inv, outcome) =
                IF outcome = "ambiguous" THEN DOMAIN pending ELSE DOMAIN pending \ {inv}
           /\ \A i \in DOMAIN settled(inv, outcome) :
                /\ SameGates(pending[i], settled(inv, outcome)[i])
                /\ settled(inv, outcome)[i].disposition = pending[i].disposition
                /\ i # inv => settled(inv, outcome)[i] = pending[i]
                /\ i = inv => settled(inv, outcome)[i].quarantined
  <1> DEFINE q == [pending[inv] EXCEPT !.quarantined = TRUE]
  <1>1. inv \in InvocationId /\ pending[inv] \in PendingInvocation
    BY DEF TypeOK, IsVecMap
  <1>2. /\ q \in PendingInvocation
        /\ SameGates(pending[inv], q)
        /\ q.disposition = pending[inv].disposition
        /\ q.quarantined
    BY <1>1 DEF PendingInvocation, SameGates
  <1> HIDE DEF q
  <1>3. CASE outcome = "ambiguous"
    <2>1. settled(inv, outcome) = insert(pending, inv, q)
      BY <1>3 DEF settled, q
    <2>2. IsVecMap(insert(pending, inv, q), InvocationId, PendingInvocation)
      BY <1>1, <1>2, InsertTyped DEF TypeOK
    <2>3. QED
      BY <1>1, <1>2, <1>3, <2>1, <2>2 DEF insert, SameGates
  <1>4. CASE outcome # "ambiguous"
    <2>1. settled(inv, outcome) = remove(pending, inv)
      BY <1>4 DEF settled
    <2>2. IsVecMap(remove(pending, inv), InvocationId, PendingInvocation)
      BY RemoveTyped DEF TypeOK
    <2>3. QED
      BY <1>1, <1>4, <2>1, <2>2 DEF remove, Restrict, SameGates
  <1>5. QED
    BY <1>3, <1>4

(* What settling does to the records: the settled map, with the records of *)
(* the owner demoted unless the invocation was permitted.                  *)
LEMMA SettleRecords ==
    ASSUME TypeOK, NEW inv, NEW outcome, NEW att, settle_invocation(inv, outcome, att)
    PROVE  /\ inv \in DOMAIN pending
           /\ IsVecMap(pending, InvocationId, PendingInvocation)'
           /\ DOMAIN pending' =
                IF outcome = "ambiguous" THEN DOMAIN pending ELSE DOMAIN pending \ {inv}
           /\ \A i \in DOMAIN pending' :
                /\ SameGates(pending[i], pending'[i])
                /\ contained(pending'[i]) => contained(pending[i])
                /\ i # inv => pending'[i].quarantined = pending[i].quarantined
                /\ i = inv => pending'[i].quarantined
  <1> DEFINE m == settled(inv, outcome)
             a == pending[inv].agent
  <1>1. inv \in DOMAIN pending
    BY DEF settle_invocation, settleable
  <1>2. /\ IsVecMap(m, InvocationId, PendingInvocation)
        /\ DOMAIN m =
             IF outcome = "ambiguous" THEN DOMAIN pending ELSE DOMAIN pending \ {inv}
        /\ \A i \in DOMAIN m :
             /\ SameGates(pending[i], m[i])
             /\ m[i].disposition = pending[i].disposition
             /\ i # inv => m[i] = pending[i]
             /\ i = inv => m[i].quarantined
    BY <1>1, SettledRecords
  <1>3. pending' = m \/ pending' = demote_all_of(m, a)
    BY DEF settle_invocation
  <1> HIDE DEF m, a
  <1>4. CASE pending' = m
    BY <1>1, <1>2, <1>4 DEF contained
  <1>5. CASE pending' = demote_all_of(m, a)
    <2>1. /\ IsVecMap(pending', InvocationId, PendingInvocation)
          /\ DOMAIN pending' = DOMAIN m
          /\ \A i \in DOMAIN m :
                /\ SameGates(m[i], pending'[i])
                /\ pending'[i].quarantined = m[i].quarantined
                /\ contained(pending'[i]) => pending'[i] = m[i]
      BY <1>2, <1>5, DemoteRecords
    <2>2. QED
      BY <1>1, <1>2, <2>1 DEF SameGates, contained
  <1>6. QED
    BY <1>3, <1>4, <1>5

(* Adding levels or capabilities at a key keeps a map of sets typed.       *)
LEMMA ExtendTyped ==
    ASSUME NEW T, NEW m \in [AgentId -> SUBSET T], NEW a, NEW E \in SUBSET T
    PROVE  /\ extend_into(m, a, E) \in [AgentId -> SUBSET T]
           /\ remove_key(m, a) \in [AgentId -> SUBSET T]
           /\ \A e \in T : insert_into(m, a, e) \in [AgentId -> SUBSET T]
  BY DEF extend_into, remove_key, insert_into

---------------------------------------------------------------------------
(* The initial state is well typed.                                        *)
LEMMA InitTypeOK == Init => TypeOK
  <1> SUFFICES ASSUME Init PROVE TypeOK
    OBVIOUS
  <1>1. \A K, V : IsVecMap(EmptyMap, K, V)
    BY DEF IsVecMap, EmptyMap
  <1>2. QED
    BY <1>1, RootAssumption DEF Init, initial, TypeOK

(* Clearing an agent, shared by revoke and cascade_revoke, keeps every     *)
(* field typed.                                                            *)
LEMMA ClearTypeOK ==
    ASSUME TypeOK, NEW a \in AgentId, clear_agent(a)
    PROVE  TypeOK'
  <1>1. IsVecMap(agent_parent, AgentId, AgentId)'
    BY RemoveTyped DEF TypeOK, clear_agent
  <1>2. IsVecMap(pending, InvocationId, PendingInvocation)'
    BY RestrictTyped DEF TypeOK, clear_agent, drop_pending_of
  <1>3. IsVecMap(challenges, InvocationId, ChallengeScope)'
    BY RestrictTyped DEF TypeOK, clear_agent, drop_challenges_of
  <1>4. IsVecMap(crossing_grants, CrossingKey, CrossingGrant)'
    BY RestrictTyped DEF TypeOK, clear_agent, drop_grants_of
  <1>5. /\ agent_cap' \in [AgentId -> SUBSET CapKind]
        /\ taint_levels' \in [AgentId -> SUBSET ConfLevel]
        /\ integ_levels' \in [AgentId -> SUBSET IntegLevel]
    BY ExtendTyped DEF TypeOK, clear_agent
  <1>6. QED
    BY <1>1, <1>2, <1>3, <1>4, <1>5 DEF TypeOK, clear_agent, consumedVars

(* Every step keeps every field typed.  For crossing grants this is where  *)
(* the branch selection matters: only a grant with a use left is           *)
(* decremented, so its counter cannot pass below zero.                     *)
LEMMA NextTypeOK == TypeOK /\ [Next]_vars => TypeOK'
  <1> SUFFICES ASSUME TypeOK, [Next]_vars PROVE TypeOK'
    OBVIOUS
  <1> USE InputsAssumption
  <1>1. ASSUME NEW t \in ToolId, register_tool(t) \/ unregister_tool(t)
        PROVE  TypeOK'
    BY <1>1 DEF TypeOK, register_tool, unregister_tool, agentVars, labelVars, consumedVars
  <1>2. ASSUME NEW a \in AgentId, NEW b \in AgentId, delegate(a, b)
        PROVE  TypeOK'
    <2> DEFINE kept == Restrict(agent_parent,
                {c \in DOMAIN agent_parent : c # b /\ agent_parent[c] # b})
    <2>1. IsVecMap(kept, AgentId, AgentId)
      BY RestrictTyped DEF TypeOK
    <2>2. IsVecMap(agent_parent, AgentId, AgentId)'
      BY <1>2, <2>1, InsertTyped DEF delegate
    <2>3. IsVecMap(pending, InvocationId, PendingInvocation)'
      BY <1>2, RestrictTyped DEF TypeOK, delegate, drop_pending_of
    <2>4. IsVecMap(challenges, InvocationId, ChallengeScope)'
      BY <1>2, RestrictTyped DEF TypeOK, delegate, drop_challenges_of
    <2>5. IsVecMap(crossing_grants, CrossingKey, CrossingGrant)'
      BY <1>2, RestrictTyped DEF TypeOK, delegate, drop_grants_of
    <2>6. /\ agent_cap' \in [AgentId -> SUBSET CapKind]
          /\ taint_levels' \in [AgentId -> SUBSET ConfLevel]
          /\ integ_levels' \in [AgentId -> SUBSET IntegLevel]
      BY <1>2, ExtendTyped DEF TypeOK, delegate
    <2>7. QED
      BY <1>2, <2>2, <2>3, <2>4, <2>5, <2>6 DEF TypeOK, delegate, consumedVars
  <1>3. ASSUME NEW a \in AgentId, NEW b \in AgentId, NEW cap \in CapKind,
               grant_capability(a, b, cap)
        PROVE  TypeOK'
    <2>1. agent_cap' \in [AgentId -> SUBSET CapKind]
      BY <1>3, ExtendTyped DEF TypeOK, grant_capability
    <2>2. QED
      BY <1>3, <2>1 DEF TypeOK, grant_capability, labelVars, consumedVars
  <1>4. ASSUME NEW a \in AgentId, NEW b \in AgentId, NEW d \in AssignmentDigest,
               NEW n \in GrantSizes, grant_crossing(a, b, d, n)
        PROVE  TypeOK'
    <2>1. /\ [agent |-> b, assignment |-> d] \in CrossingKey
          /\ [remaining |-> n, provisioned |-> n] \in CrossingGrant
      BY DEF CrossingKey, CrossingGrant
    <2>2. IsVecMap(crossing_grants, CrossingKey, CrossingGrant)'
      BY <1>4, <2>1, InsertTyped DEF TypeOK, grant_crossing
    <2>3. QED
      BY <1>4, <2>2 DEF TypeOK, grant_crossing, agentVars, labelVars, consumedVars
  <1>5. ASSUME NEW a \in AgentId, NEW b \in AgentId, revoke(a, b) \/ cascade_revoke(a, b)
        PROVE  TypeOK'
    BY <1>5, ClearTypeOK DEF revoke, cascade_revoke
  <1>6. ASSUME NEW a \in AgentId, NEW src \in Maybe(AgentId), NEW p \in Provenances,
               ingest(a, src, p[1], p[2])
        PROVE  TypeOK'
    <2>1. p[1] \in ConfLevel /\ p[2] \in IntegLevel
      OBVIOUS
    <2>2. /\ taint_levels' \in [AgentId -> SUBSET ConfLevel]
          /\ integ_levels' \in [AgentId -> SUBSET IntegLevel]
      BY <1>6, <2>1, ExtendTyped DEF TypeOK, ingest
    <2>3. IsVecMap(pending, InvocationId, PendingInvocation)'
      BY <1>6, DemoteRecords DEF TypeOK, ingest
    <2>4. QED
      BY <1>6, <2>2, <2>3 DEF TypeOK, ingest, agentVars, consumedVars
  <1>7. ASSUME NEW a \in AgentId, NEW inv \in InvocationId, NEW chal \in ChallengeId,
               NEW snap \in Snapshots, NEW egr \in SUBSET EgressKind,
               NEW ah \in ContentHash, NEW authorized \in BOOLEAN,
               begin_invocation(a, inv, chal, snap, egr, ah, authorized)
        PROVE  TypeOK'
    <2>1. snap \in ActionPolicySnapshot
      OBVIOUS
    <2>2. /\ NewPending(a, snap, egr, [kind |-> "plain"], "permitted", authorized)
                \in PendingInvocation
          /\ NewPending(a, snap, egr, [kind |-> "bypassed"], "monitor_bypassed", authorized)
                \in PendingInvocation
      BY <2>1 DEF NewPending, PendingInvocation, Admission, Disposition
    <2>3. [challenge |-> chal, agent |-> a, policy |-> snap, egress |-> egr,
           args_hash |-> ah, authorized |-> authorized] \in ChallengeScope
      BY <2>1 DEF ChallengeScope
    <2>4. IsVecMap(pending, InvocationId, PendingInvocation)'
      BY <1>7, <2>2, InsertTyped DEF TypeOK, begin_invocation
    <2>5. IsVecMap(challenges, InvocationId, ChallengeScope)'
      BY <1>7, <2>3, InsertTyped DEF TypeOK, begin_invocation
    <2>6. QED
      BY <1>7, <2>4, <2>5 DEF TypeOK, begin_invocation, agentVars, labelVars
  <1>8. ASSUME NEW inv \in InvocationId, NEW att \in Inspections, authorize_inspected(inv, att)
        PROVE  TypeOK'
    <2>1. att.id \in AttestationId /\ challenges[inv] \in ChallengeScope
      BY <1>8 DEF TypeOK, authorize_inspected, InspectionAttestation, IsVecMap
    <2>2. NewPending(challenges[inv].agent, challenges[inv].policy, challenges[inv].egress,
            [kind |-> "inspected", att |-> att.id], "permitted", challenges[inv].authorized)
                \in PendingInvocation
      BY <2>1 DEF NewPending, ChallengeScope, PendingInvocation, Admission, Disposition
    <2>3. IsVecMap(pending, InvocationId, PendingInvocation)'
      BY <1>8, <2>2, InsertTyped DEF TypeOK, authorize_inspected
    <2>4. IsVecMap(challenges, InvocationId, ChallengeScope)'
      BY <1>8, RemoveTyped DEF TypeOK, authorize_inspected
    <2>5. QED
      BY <1>8, <2>1, <2>3, <2>4 DEF TypeOK, authorize_inspected, agentVars, labelVars
  <1>9. ASSUME NEW inv \in InvocationId, NEW outcome \in Outcome,
               NEW att \in Maybe(Resolutions), settle_invocation(inv, outcome, att)
        PROVE  TypeOK'
    <2> DEFINE j == pending[inv]
    <2>1. /\ inv \in DOMAIN pending
          /\ IsVecMap(pending, InvocationId, PendingInvocation)'
      BY <1>9, SettleRecords
    <2>2. att # None => att.id \in AttestationId
      BY DEF Maybe, ResolutionAttestation
    <2>3. j \in PendingInvocation
      BY <2>1 DEF TypeOK, IsVecMap
    <2>4. j.policy.output_conf \in ConfLevel /\ j.policy.output_integ \in IntegLevel
      BY <2>3 DEF PendingInvocation, ActionPolicySnapshot
    <2>5. /\ taint_levels' \in [AgentId -> SUBSET ConfLevel]
          /\ integ_levels' \in [AgentId -> SUBSET IntegLevel]
      <3>1. CASE absorbs(outcome)
        <4>1. /\ taint_levels' = insert_into(taint_levels, j.agent, j.policy.output_conf)
              /\ integ_levels' = insert_into(integ_levels, j.agent, j.policy.output_integ)
          BY <1>9, <3>1 DEF settle_invocation
        <4>2. QED
          BY <2>4, <4>1, ExtendTyped DEF TypeOK
      <3>2. CASE ~absorbs(outcome)
        BY <1>9, <3>2 DEF TypeOK, settle_invocation, labelVars
      <3>3. QED
        BY <3>1, <3>2
    <2>6. QED
      BY <1>9, <2>1, <2>2, <2>5 DEF TypeOK, settle_invocation, agentVars
  <1>10. ASSUME NEW q \in CrossInputs, cross_output(q)
         PROVE  TypeOK'
    <2> DEFINE key == [agent |-> q.rcv, assignment |-> q.assignment]
    <2>1. q \in CrossInput
      OBVIOUS
    <2>2. /\ released_conf(q) \in SUBSET ConfLevel
          /\ released_integ(q) \in SUBSET IntegLevel
      BY <2>1 DEF TypeOK, released_conf, released_integ, CrossInput
    <2>3. /\ taint_levels' \in [AgentId -> SUBSET ConfLevel]
          /\ integ_levels' \in [AgentId -> SUBSET IntegLevel]
      BY <1>10, <2>2, ExtendTyped DEF TypeOK, cross_output
    <2>4. IsVecMap(pending, InvocationId, PendingInvocation)'
      BY <1>10, DemoteRecords DEF TypeOK, cross_output
    <2>5. ASSUME branch(q) = "endorsed"
          PROVE  /\ q.evidence.id \in AttestationId
                 /\ key \in DOMAIN crossing_grants
                 /\ crossing_grants[key].remaining > 0
      <3>1. endorsed_ok(q)
        BY <2>5 DEF branch
      <3>2. QED
        BY <2>1, <3>1 DEF endorsed_ok, CrossInput, Maybe, ConformanceAttestation
    <2>6. IsVecMap(crossing_grants, CrossingKey, CrossingGrant)'
      <3>1. CASE branch(q) # "endorsed"
        BY <1>10, <3>1 DEF TypeOK, cross_output
      <3>2. CASE branch(q) = "endorsed"
        <4>1. crossing_grants' = decrement_grant_at(q.rcv, q.assignment)
          BY <1>10, <3>2 DEF cross_output
        <4>2. ASSUME NEW g \in CrossingGrant, g.remaining > 0
              PROVE  [g EXCEPT !.remaining = @ - 1] \in CrossingGrant
          BY <4>2, MaxUsesAssumption DEF CrossingGrant
        <4>3. QED
          BY <2>5, <3>2, <4>1, <4>2 DEF TypeOK, decrement_grant_at, IsVecMap
      <3>3. QED
        BY <3>1, <3>2
    <2>7. /\ consumed_crossings' \subseteq CrossingId
          /\ consumed_attestations' \subseteq AttestationId
      BY <1>10, <2>1, <2>5 DEF TypeOK, cross_output, CrossInput
    <2>8. QED
      BY <1>10, <2>3, <2>4, <2>6, <2>7 DEF TypeOK, cross_output, agentVars
  <1>11. CASE UNCHANGED vars
    BY <1>11 DEF TypeOK, vars, agentVars, labelVars, consumedVars
  <1>12. QED
    BY <1>1, <1>2, <1>3, <1>4, <1>5, <1>6, <1>7, <1>8, <1>9, <1>10, <1>11
       DEF Next, ToolNext, TreeNext, IngestNext, BeginNext, InspectNext, SettleNext, CrossNext

(* Type correctness of the kernel state, whatever is submitted in whatever *)
(* order: in particular the u32 counters of crossing grants never          *)
(* underflow (decrement_grant_at).                                         *)
THEOREM TypeCorrect == Spec => []TypeOK
  BY InitTypeOK, NextTypeOK, PTL DEF Spec

---------------------------------------------------------------------------
(***************************************************************************)
(* Proofs about the agent tree: it stays a tree, capabilities are only     *)
(* attenuated along it, and an agent that left it owns nothing.            *)
(***************************************************************************)

(* Only the five tree commands change who is active, under whom, and with  *)
(* which capabilities.                                                     *)
LEMMA TreeFrame ==
    ASSUME [Next]_vars, ~TreeNext
    PROVE  UNCHANGED agentVars
  <1>1. CASE ToolNext
    BY <1>1 DEF ToolNext, register_tool, unregister_tool
  <1>2. CASE IngestNext
    BY <1>2 DEF IngestNext, ingest
  <1>3. CASE BeginNext
    BY <1>3 DEF BeginNext, begin_invocation
  <1>4. CASE InspectNext
    BY <1>4 DEF InspectNext, authorize_inspected
  <1>5. CASE SettleNext
    BY <1>5 DEF SettleNext, settle_invocation
  <1>6. CASE CrossNext
    BY <1>6 DEF CrossNext, cross_output
  <1>7. QED
    BY <1>1, <1>2, <1>3, <1>4, <1>5, <1>6 DEF Next, vars

(* Delegation adds one edge and touches no other: the edges delegate       *)
(* strips, those of and to the new agent, do not exist.                    *)
LEMMA DelegateEdges ==
    ASSUME AgentTree, NEW a, NEW b, delegate(a, b)
    PROVE  /\ b \notin DOMAIN agent_parent
           /\ a \in agent_active /\ b \notin agent_active /\ b # Root
           /\ DOMAIN agent_parent' = DOMAIN agent_parent \cup {b}
           /\ agent_parent'[b] = a
           /\ \A c \in DOMAIN agent_parent :
                    agent_parent'[c] = agent_parent[c] /\ agent_parent[c] # b
  BY DEF AgentTree, delegate, delegable, insert, Restrict

(* Clearing removes the edge of one agent.                                 *)
LEMMA ClearEdges ==
    ASSUME NEW a, clear_agent(a)
    PROVE  /\ DOMAIN agent_parent' = DOMAIN agent_parent \ {a}
           /\ \A c \in DOMAIN agent_parent' : agent_parent'[c] = agent_parent[c]
  BY DEF clear_agent, remove, Restrict

(* Every step keeps the tree a tree.                                       *)
LEMMA NextAgentTree == AgentTree /\ [Next]_vars => AgentTree'
  <1> SUFFICES ASSUME AgentTree, [Next]_vars PROVE AgentTree'
    OBVIOUS
  <1>1. ASSUME NEW a \in AgentId, NEW b \in AgentId, delegate(a, b)
        PROVE  AgentTree'
    <2>1. /\ b \notin DOMAIN agent_parent
          /\ a \in agent_active /\ b \notin agent_active /\ b # Root
          /\ DOMAIN agent_parent' = DOMAIN agent_parent \cup {b}
          /\ agent_parent'[b] = a
          /\ \A c \in DOMAIN agent_parent :
                agent_parent'[c] = agent_parent[c] /\ agent_parent[c] # b
      BY <1>1, DelegateEdges
    <2>2. agent_active' = agent_active \cup {b}
      BY <1>1 DEF delegate
    <2>3. ASSUME NEW S \in SUBSET DOMAIN agent_parent', S # {}
          PROVE  \E c \in S : agent_parent'[c] \notin S
      <3>1. CASE S = {b}
        BY <2>1, <3>1
      <3>2. CASE S # {b}
        <4>1. S \ {b} # {} /\ S \ {b} \in SUBSET DOMAIN agent_parent
          BY <2>1, <2>3, <3>2
        <4>2. PICK c \in S \ {b} : agent_parent[c] \notin S \ {b}
          BY <4>1 DEF AgentTree
        <4>3. QED
          BY <2>1, <4>1, <4>2
      <3>3. QED
        BY <3>1, <3>2
    <2>4. QED
      BY <2>1, <2>2, <2>3 DEF AgentTree
  <1>2. ASSUME NEW c, c # Root, clear_agent(c)
        PROVE  AgentTree'
    <2>1. agent_active' = agent_active \ {c}
      BY <1>2 DEF clear_agent
    <2>2. QED
      BY <1>2, <2>1, ClearEdges DEF AgentTree
  <1>3. ASSUME NEW a \in AgentId, NEW b \in AgentId, revoke(a, b) \/ cascade_revoke(a, b)
        PROVE  AgentTree'
    BY <1>2, <1>3 DEF revoke, cascade_revoke
  <1>4. CASE UNCHANGED <<agent_active, agent_parent>>
    BY <1>4 DEF AgentTree
  <1>5. QED
    BY <1>1, <1>3, <1>4, TreeFrame DEF TreeNext, agentVars, grant_capability, grant_crossing

(* The active agents form a tree under root whatever is delegated, revoked *)
(* and delegated again under an old id (delegate, revoke, cascade_revoke). *)
THEOREM TreeSound == Spec => []AgentTree
  <1>1. Init => AgentTree
    BY DEF Init, initial, AgentTree, EmptyMap
  <1>2. QED
    BY <1>1, NextAgentTree, PTL DEF Spec

---------------------------------------------------------------------------
(* Every step keeps capabilities attenuated along the tree.                *)
LEMMA NextSubsumption ==
    TypeOK /\ AgentTree /\ capability_subsumption /\ [Next]_vars => capability_subsumption'
  <1> SUFFICES ASSUME TypeOK, AgentTree, capability_subsumption, [Next]_vars
               PROVE  capability_subsumption'
    OBVIOUS
  <1>1. ASSUME NEW a \in AgentId, NEW b \in AgentId, delegate(a, b)
        PROVE  capability_subsumption'
    <2>1. /\ b \notin agent_active
          /\ DOMAIN agent_parent' = DOMAIN agent_parent \cup {b}
          /\ agent_parent'[b] = a
          /\ \A c \in DOMAIN agent_parent :
                agent_parent'[c] = agent_parent[c] /\ agent_parent[c] # b
      BY <1>1, DelegateEdges
    <2>2. /\ agent_active' = agent_active \cup {b}
          /\ agent_cap' = [agent_cap EXCEPT ![b] = {}]
      BY <1>1 DEF delegate, remove_key
    <2>3. QED
      BY <2>1, <2>2 DEF capability_subsumption, TypeOK, IsVecMap
  <1>2. ASSUME NEW a \in AgentId, NEW b \in AgentId, NEW cap \in CapKind,
               grant_capability(a, b, cap)
        PROVE  capability_subsumption'
    <2>1. /\ agent_cap' = [agent_cap EXCEPT ![b] = @ \cup {cap}]
          /\ b \in DOMAIN agent_parent /\ agent_parent[b] = a /\ cap \in agent_cap[a]
          /\ UNCHANGED <<agent_active, agent_parent>>
      BY <1>2 DEF grant_capability, grantable, IsParent, insert_into
    <2>2. QED
      BY <2>1 DEF capability_subsumption, TypeOK, IsVecMap
  <1>3. ASSUME NEW c, clear_agent(c)
        PROVE  capability_subsumption'
    <2>1. /\ agent_active' = agent_active \ {c}
          /\ agent_cap' = [agent_cap EXCEPT ![c] = {}]
      BY <1>3 DEF clear_agent, remove_key
    <2>2. QED
      BY <1>3, <2>1, ClearEdges DEF capability_subsumption, TypeOK, IsVecMap
  <1>4. ASSUME NEW a \in AgentId, NEW b \in AgentId, revoke(a, b) \/ cascade_revoke(a, b)
        PROVE  capability_subsumption'
    BY <1>3, <1>4 DEF revoke, cascade_revoke
  <1>5. CASE UNCHANGED agentVars
    BY <1>5 DEF capability_subsumption, agentVars
  <1>6. QED
    BY <1>1, <1>2, <1>4, <1>5, TreeFrame DEF TreeNext, grant_crossing

(* No active agent ever holds a capability its active parent lacks, so     *)
(* delegation only attenuates (grant_capability).                          *)
THEOREM CapabilitiesAttenuate == Spec => []capability_subsumption
  <1>1. Init => capability_subsumption
    BY DEF Init, initial, capability_subsumption, EmptyMap
  <1>2. QED
    BY <1>1, TypeCorrect, TreeSound, NextSubsumption, PTL DEF Spec

---------------------------------------------------------------------------
(* Every step keeps the agents outside the tree clean.  A command that     *)
(* creates a record, a label, a challenge or a grant names an active       *)
(* owner, and the commands that deactivate an owner drop all of them.      *)
LEMMA NextClean ==
    TypeOK /\ revocation_clean /\ [Next]_vars => revocation_clean'
  <1> SUFFICES ASSUME TypeOK, revocation_clean, [Next]_vars
               PROVE  revocation_clean'
    OBVIOUS
  <1>1. ASSUME NEW b \in AgentId, b # Root,
               agent_active' = agent_active \ {b} \/ agent_active' = agent_active \cup {b},
               agent_cap' = remove_key(agent_cap, b),
               taint_levels' = remove_key(taint_levels, b),
               integ_levels' = remove_key(integ_levels, b),
               pending' = drop_pending_of(b),
               challenges' = drop_challenges_of(b),
               crossing_grants' = drop_grants_of(b)
        PROVE  revocation_clean'
    <2>1. \A a \in AgentId \ agent_active' :
            agent_cap'[a] = {} /\ taint_levels'[a] = {} /\ integ_levels'[a] = {}
      BY <1>1 DEF revocation_clean, TypeOK, remove_key
    <2>2. \A i \in DOMAIN pending' : pending'[i].agent \in agent_active' \ {Root}
      BY <1>1 DEF revocation_clean, drop_pending_of, PendingOf, Restrict
    <2>3. \A i \in DOMAIN challenges' : challenges'[i].agent \in agent_active' \ {Root}
      BY <1>1 DEF revocation_clean, drop_challenges_of, Restrict
    <2>4. \A g \in DOMAIN crossing_grants' : g.agent \in agent_active'
      BY <1>1 DEF revocation_clean, drop_grants_of, Restrict
    <2>5. QED
      BY <2>1, <2>2, <2>3, <2>4 DEF revocation_clean
  <1>2. ASSUME NEW a \in AgentId, NEW b \in AgentId,
               delegate(a, b) \/ revoke(a, b) \/ cascade_revoke(b, a)
        PROVE  revocation_clean'
    BY <1>1, <1>2 DEF delegate, delegable, revoke, cascade_revoke, clear_agent
  <1>3. ASSUME NEW t \in ToolId, register_tool(t) \/ unregister_tool(t)
        PROVE  revocation_clean'
    BY <1>3 DEF revocation_clean, register_tool, unregister_tool, agentVars, labelVars
  <1>4. ASSUME NEW a \in AgentId, NEW b \in AgentId, NEW cap \in CapKind,
               grant_capability(a, b, cap)
        PROVE  revocation_clean'
    BY <1>4 DEF revocation_clean, TypeOK, grant_capability, grantable, insert_into, labelVars
  <1>5. ASSUME NEW a \in AgentId, NEW b \in AgentId, NEW d \in AssignmentDigest,
               NEW n \in GrantSizes, grant_crossing(a, b, d, n)
        PROVE  revocation_clean'
    BY <1>5 DEF revocation_clean, grant_crossing, insert, agentVars, labelVars
  <1>6. ASSUME NEW a \in agent_active, NEW C, NEW I,
               taint_levels' = extend_into(taint_levels, a, C),
               integ_levels' = extend_into(integ_levels, a, I),
               pending' = pending \/ pending' = demote_all_of(pending, a),
               DOMAIN crossing_grants' = DOMAIN crossing_grants,
               UNCHANGED <<agentVars, challenges>>
        PROVE  revocation_clean'
    <2>1. \A x \in AgentId \ agent_active' :
            agent_cap'[x] = {} /\ taint_levels'[x] = {} /\ integ_levels'[x] = {}
      BY <1>6 DEF revocation_clean, TypeOK, extend_into, agentVars
    <2>2. \A i \in DOMAIN pending' : pending'[i].agent \in agent_active' \ {Root}
      BY <1>6, DemoteRecords DEF revocation_clean, TypeOK, SameGates, agentVars
    <2>3. QED
      BY <1>6, <2>1, <2>2 DEF revocation_clean, agentVars
  <1>7. ASSUME NEW a \in AgentId, NEW src \in Maybe(AgentId), NEW p \in Provenances,
               ingest(a, src, p[1], p[2])
        PROVE  revocation_clean'
    <2>1. /\ taint_levels' = extend_into(taint_levels, a, {p[1]})
          /\ integ_levels' = extend_into(integ_levels, a, {p[2]})
      BY <1>7 DEF ingest, insert_into, extend_into
    <2>2. /\ a \in agent_active
          /\ pending' = pending \/ pending' = demote_all_of(pending, a)
          /\ UNCHANGED <<agentVars, challenges, crossing_grants>>
      BY <1>7 DEF ingest
    <2>3. QED
      BY <1>6, <2>1, <2>2
  <1>8. ASSUME NEW q \in CrossInputs, cross_output(q)
        PROVE  revocation_clean'
    <2>1. /\ q.rcv \in agent_active
          /\ pending' = pending \/ pending' = demote_all_of(pending, q.rcv)
          /\ UNCHANGED <<agentVars, challenges>>
      BY <1>8 DEF cross_output, crossable
    <2>2. DOMAIN crossing_grants' = DOMAIN crossing_grants
      BY <1>8 DEF cross_output, decrement_grant_at
    <2>3. /\ taint_levels' = extend_into(taint_levels, q.rcv, released_conf(q))
          /\ integ_levels' = extend_into(integ_levels, q.rcv, released_integ(q))
      BY <1>8 DEF cross_output
    <2>4. QED
      BY <1>6, <2>1, <2>2, <2>3
  <1>9. ASSUME NEW a \in AgentId, NEW inv \in InvocationId, NEW chal \in ChallengeId,
               NEW snap \in Snapshots, NEW egr \in SUBSET EgressKind,
               NEW ah \in ContentHash, NEW authorized \in BOOLEAN,
               begin_invocation(a, inv, chal, snap, egr, ah, authorized)
        PROVE  revocation_clean'
    <2>1. a \in agent_active \ {Root} /\ UNCHANGED <<agentVars, labelVars, crossing_grants>>
      BY <1>9 DEF begin_invocation, begin_structural
    <2>2. \A i \in DOMAIN pending' : pending'[i].agent \in agent_active \ {Root}
      BY <1>9, <2>1 DEF revocation_clean, begin_invocation, insert, NewPending
    <2>3. \A i \in DOMAIN challenges' : challenges'[i].agent \in agent_active \ {Root}
      BY <1>9, <2>1 DEF revocation_clean, begin_invocation, insert
    <2>4. QED
      BY <2>1, <2>2, <2>3 DEF revocation_clean, agentVars, labelVars
  <1>10. ASSUME NEW inv \in InvocationId, NEW att \in Inspections, authorize_inspected(inv, att)
         PROVE  revocation_clean'
    <2>1. /\ challenges[inv].agent \in agent_active \ {Root}
          /\ UNCHANGED <<agentVars, labelVars, crossing_grants>>
      BY <1>10 DEF authorize_inspected, revocation_clean
    <2>2. \A i \in DOMAIN pending' : pending'[i].agent \in agent_active \ {Root}
      BY <1>10, <2>1 DEF revocation_clean, authorize_inspected, insert, NewPending
    <2>3. \A i \in DOMAIN challenges' : challenges'[i].agent \in agent_active \ {Root}
      BY <1>10 DEF revocation_clean, authorize_inspected, remove, Restrict
    <2>4. QED
      BY <2>1, <2>2, <2>3 DEF revocation_clean, agentVars, labelVars
  <1>11. ASSUME NEW inv \in InvocationId, NEW outcome \in Outcome,
                NEW att \in Maybe(Resolutions), settle_invocation(inv, outcome, att)
         PROVE  revocation_clean'
    <2> DEFINE j == pending[inv]
    <2>1. /\ inv \in DOMAIN pending
          /\ j.agent \in agent_active
          /\ UNCHANGED <<agentVars, challenges, crossing_grants>>
      BY <1>11 DEF settle_invocation, settleable
    <2>2. \A i \in DOMAIN pending' :
                i \in DOMAIN pending /\ pending'[i].agent = pending[i].agent
      BY <1>11, SettleRecords DEF SameGates
    <2>3. \A x \in AgentId \ agent_active :
                taint_levels'[x] = taint_levels[x] /\ integ_levels'[x] = integ_levels[x]
      BY <1>11, <2>1 DEF settle_invocation, insert_into, labelVars, TypeOK
    <2>4. QED
      BY <2>1, <2>2, <2>3 DEF revocation_clean, agentVars
  <1>12. CASE UNCHANGED vars
    BY <1>12 DEF revocation_clean, vars, agentVars, labelVars
  <1>13. QED
    BY <1>2, <1>3, <1>4, <1>5, <1>7, <1>8, <1>9, <1>10, <1>11, <1>12
       DEF Next, ToolNext, TreeNext, IngestNext, BeginNext, InspectNext, SettleNext, CrossNext

(* An agent that is not active owns no capability, label, record,          *)
(* challenge or grant, so a new agent under an old id starts from nothing  *)
(* (clear_agent, delegate).                                                *)
THEOREM RevocationClean == Spec => []revocation_clean
  <1>1. Init => revocation_clean
    BY DEF Init, initial, revocation_clean, EmptyMap
  <1>2. QED
    BY <1>1, TypeCorrect, NextClean, PTL DEF Spec

---------------------------------------------------------------------------
(***************************************************************************)
(* Proof that permitted invocations are confined: whatever their owner     *)
(* holds, or may come to hold from its other permitted invocations, is fit *)
(* to leave through each of them.                                          *)
(*                                                                         *)
(* The three confinement invariants are inductive together once they speak *)
(* of the worst-case labels of contained records: a settlement then only   *)
(* moves a level from the records of an agent to its labels, and every     *)
(* other command either checks what it adds against every record of the    *)
(* agent, or demotes them all.                                             *)
(***************************************************************************)

(* A confidentiality or integrity level is fit for a record.               *)
FitConf(j, l) ==
    /\ \A e \in j.egress : flow_passes(l, e, FALSE, vouched(j))
    /\ l <= j.policy.conf_clearance

FitInteg(j, l) == integ_passes(l, j.policy, FALSE, vouched(j))

Confinement ==
    \A i \in DOMAIN pending : contained(pending[i]) =>
        /\ \A l \in speculative_taint_contained(pending[i].agent) : FitConf(pending[i], l)
        /\ \A l \in speculative_integ_contained(pending[i].agent) : FitInteg(pending[i], l)

(* Confinement is the conjunction of the three confinement invariants.     *)
LEMMA ConfinementParts ==
    Confinement <=> flow_confinement /\ integrity_confinement /\ clearance_confinement
  BY DEF Confinement, flow_confinement, integrity_confinement, clearance_confinement,
         FitConf, FitInteg, flow_passes, integ_passes

(* A step that admits nothing, and takes nothing in but outputs of         *)
(* contained records, keeps confinement.                                   *)
LEMMA KeepConfinement ==
    ASSUME Confinement,
           \A i \in DOMAIN pending' : contained(pending'[i]) =>
                /\ i \in DOMAIN pending /\ contained(pending[i])
                /\ SameGates(pending[i], pending'[i])
                /\ taint_levels'[pending[i].agent]
                        \subseteq speculative_taint_contained(pending[i].agent)
                /\ integ_levels'[pending[i].agent]
                        \subseteq speculative_integ_contained(pending[i].agent)
    PROVE  Confinement'
  <1> SUFFICES ASSUME NEW i \in DOMAIN pending', contained(pending'[i])
               PROVE  /\ \A l \in speculative_taint_contained(pending[i].agent)' :
                            FitConf(pending'[i], l)
                      /\ \A l \in speculative_integ_contained(pending[i].agent)' :
                            FitInteg(pending'[i], l)
    BY DEF Confinement, SameGates
  <1> DEFINE a == pending[i].agent
  <1>1. /\ speculative_taint_contained(a)' \subseteq speculative_taint_contained(a)
        /\ speculative_integ_contained(a)' \subseteq speculative_integ_contained(a)
    BY DEF speculative_taint_contained, speculative_integ_contained, PendingOf, SameGates
  <1>2. /\ \A l : FitConf(pending[i], l) => FitConf(pending'[i], l)
        /\ \A l : FitInteg(pending[i], l) => FitInteg(pending'[i], l)
    BY DEF SameGates, FitConf, FitInteg, vouched
  <1>3. QED
    BY <1>1, <1>2 DEF Confinement

(* Labels that are fit for every record of an agent may be added to it.    *)
LEMMA ReleaseConfinement ==
    ASSUME TypeOK, Confinement, NEW a \in AgentId, NEW C, NEW I,
           taint_levels' = extend_into(taint_levels, a, C),
           integ_levels' = extend_into(integ_levels, a, I),
           pending' = pending,
           \A i \in PendingOf(a) :
                /\ \A l \in C : FitConf(pending[i], l)
                /\ \A l \in I : FitInteg(pending[i], l)
    PROVE  Confinement'
  <1> SUFFICES ASSUME NEW i \in DOMAIN pending, contained(pending[i])
               PROVE  /\ \A l \in speculative_taint_contained(pending[i].agent)' :
                            FitConf(pending[i], l)
                      /\ \A l \in speculative_integ_contained(pending[i].agent)' :
                            FitInteg(pending[i], l)
    BY DEF Confinement
  <1> DEFINE b == pending[i].agent
  <1>1. b \in AgentId
    BY DEF TypeOK, IsVecMap, PendingInvocation
  <1>2. CASE b = a
    <2>1. /\ speculative_taint_contained(b)' = speculative_taint_contained(b) \cup C
          /\ speculative_integ_contained(b)' = speculative_integ_contained(b) \cup I
      BY <1>2 DEF speculative_taint_contained, speculative_integ_contained, extend_into,
                  TypeOK, PendingOf
    <2>2. i \in PendingOf(a)
      BY <1>2 DEF PendingOf
    <2>3. QED
      BY <2>1, <2>2 DEF Confinement
  <1>3. CASE b # a
    <2>1. /\ speculative_taint_contained(b)' = speculative_taint_contained(b)
          /\ speculative_integ_contained(b)' = speculative_integ_contained(b)
      BY <1>1, <1>3 DEF speculative_taint_contained, speculative_integ_contained, extend_into,
                        TypeOK, PendingOf
    <2>2. QED
      BY <2>1 DEF Confinement
  <1>4. QED
    BY <1>2, <1>3

(* Demoting an agent keeps confinement, whatever is added to its labels.   *)
LEMMA DemoteConfinement ==
    ASSUME TypeOK, Confinement, NEW a \in AgentId, NEW C, NEW I,
           taint_levels' = extend_into(taint_levels, a, C),
           integ_levels' = extend_into(integ_levels, a, I),
           NEW m, IsVecMap(m, InvocationId, PendingInvocation),
           \A i \in DOMAIN m : /\ i \in DOMAIN pending
                               /\ m[i].agent # a => m[i] = pending[i],
           pending' = demote_all_of(m, a)
    PROVE  Confinement'
  <1>1. \A i \in DOMAIN m : m[i].agent = a => ~contained(pending'[i])
    BY DemoteRecords
  <1>2. \A i \in DOMAIN m : m[i].agent # a => pending'[i] = pending[i] /\ pending[i].agent # a
    BY DemoteRecords
  <1>3. \A b \in AgentId : b # a =>
            taint_levels'[b] = taint_levels[b] /\ integ_levels'[b] = integ_levels[b]
    BY DEF extend_into, TypeOK
  <1>4. \A i \in DOMAIN pending : pending[i].agent \in AgentId
    BY DEF TypeOK, IsVecMap, PendingInvocation
  <1>5. DOMAIN pending' = DOMAIN m
    BY DemoteRecords
  <1>6. ASSUME NEW i \in DOMAIN pending', contained(pending'[i])
        PROVE  /\ i \in DOMAIN pending /\ contained(pending[i])
               /\ SameGates(pending[i], pending'[i])
               /\ taint_levels'[pending[i].agent]
                        \subseteq speculative_taint_contained(pending[i].agent)
               /\ integ_levels'[pending[i].agent]
                        \subseteq speculative_integ_contained(pending[i].agent)
    BY <1>1, <1>2, <1>3, <1>4, <1>5, <1>6
       DEF SameGates, speculative_taint_contained, speculative_integ_contained
  <1>7. QED
    BY <1>6, KeepConfinement

(* A record whose owner's worst case is fit for it, and whose output is    *)
(* fit for every record of its owner, may be admitted.                     *)
LEMMA AdmitConfinement ==
    ASSUME TypeOK, Confinement, NEW inv, inv \notin DOMAIN pending, NEW j,
           pending' = insert(pending, inv, j), UNCHANGED labelVars,
           contained(j) =>
                /\ \A l \in speculative_taint(j.agent) \cup {j.policy.output_conf} :
                        FitConf(j, l)
                /\ \A l \in speculative_integ(j.agent) \cup {j.policy.output_integ} :
                        FitInteg(j, l)
                /\ \A i \in PendingOf(j.agent) :
                        /\ FitConf(pending[i], j.policy.output_conf)
                        /\ FitInteg(pending[i], j.policy.output_integ)
    PROVE  Confinement'
  <1>1. /\ DOMAIN pending' = DOMAIN pending \cup {inv}
        /\ pending'[inv] = j
        /\ \A i \in DOMAIN pending : pending'[i] = pending[i]
    BY DEF insert
  <1>2. ASSUME NEW b
        PROVE  /\ speculative_taint_contained(b)' \subseteq
                    speculative_taint_contained(b) \cup
                        {l \in {j.policy.output_conf} : contained(j) /\ j.agent = b}
               /\ speculative_integ_contained(b)' \subseteq
                    speculative_integ_contained(b) \cup
                        {l \in {j.policy.output_integ} : contained(j) /\ j.agent = b}
    BY <1>1 DEF speculative_taint_contained, speculative_integ_contained, PendingOf, labelVars
  <1>3. ASSUME NEW b
        PROVE  /\ speculative_taint_contained(b) \subseteq speculative_taint(b)
               /\ speculative_integ_contained(b) \subseteq speculative_integ(b)
    BY DEF speculative_taint_contained, speculative_integ_contained,
           speculative_taint, speculative_integ
  <1>4. ASSUME NEW i \in DOMAIN pending, contained(pending[i])
        PROVE  /\ \A l \in speculative_taint_contained(pending[i].agent)' :
                        FitConf(pending[i], l)
               /\ \A l \in speculative_integ_contained(pending[i].agent)' :
                        FitInteg(pending[i], l)
    BY <1>1, <1>2, <1>4 DEF Confinement, PendingOf
  <1>5. ASSUME contained(j)
        PROVE  /\ \A l \in speculative_taint_contained(j.agent)' : FitConf(j, l)
               /\ \A l \in speculative_integ_contained(j.agent)' : FitInteg(j, l)
    BY <1>2, <1>3, <1>5
  <1>6. QED
    BY <1>1, <1>4, <1>5 DEF Confinement

(* Clearing an agent, or starting a new one, keeps confinement: the        *)
(* records of the others keep owners whose labels do not change.           *)
LEMMA DropConfinement ==
    ASSUME TypeOK, Confinement, NEW b \in AgentId,
           taint_levels' = remove_key(taint_levels, b),
           integ_levels' = remove_key(integ_levels, b),
           pending' = drop_pending_of(b)
    PROVE  Confinement'
  <1>1. \A i \in DOMAIN pending' :
            i \in DOMAIN pending /\ pending'[i] = pending[i] /\ pending[i].agent # b
    BY DEF drop_pending_of, PendingOf, Restrict
  <1>2. \A i \in DOMAIN pending : pending[i].agent \in AgentId
    BY DEF TypeOK, IsVecMap, PendingInvocation
  <1>3. \A a \in AgentId : a # b =>
            taint_levels'[a] = taint_levels[a] /\ integ_levels'[a] = integ_levels[a]
    BY DEF remove_key, TypeOK
  <1>4. ASSUME NEW i \in DOMAIN pending', contained(pending'[i])
        PROVE  /\ i \in DOMAIN pending /\ contained(pending[i])
               /\ SameGates(pending[i], pending'[i])
               /\ taint_levels'[pending[i].agent]
                        \subseteq speculative_taint_contained(pending[i].agent)
               /\ integ_levels'[pending[i].agent]
                        \subseteq speculative_integ_contained(pending[i].agent)
    BY <1>1, <1>2, <1>3, <1>4
       DEF SameGates, speculative_taint_contained, speculative_integ_contained
  <1>5. QED
    BY <1>4, KeepConfinement

(* Settling keeps confinement: the output of a contained record was part   *)
(* of its owner's worst case already, and the output of any other record   *)
(* demotes its owner (settle_invocation).                                  *)
LEMMA SettleConfinement ==
    ASSUME TypeOK, Confinement, NEW inv \in InvocationId, NEW outcome \in Outcome, NEW att,
           settle_invocation(inv, outcome, att)
    PROVE  Confinement'
  <1> DEFINE j == pending[inv]
             m == settled(inv, outcome)
             C == IF absorbs(outcome) THEN {j.policy.output_conf} ELSE {}
             I == IF absorbs(outcome) THEN {j.policy.output_integ} ELSE {}
  <1>1. inv \in DOMAIN pending
    BY DEF settle_invocation, settleable
  <1>2. /\ taint_levels' = extend_into(taint_levels, j.agent, C)
        /\ integ_levels' = extend_into(integ_levels, j.agent, I)
    <2>1. CASE absorbs(outcome)
      BY <2>1 DEF settle_invocation, insert_into, extend_into
    <2>2. CASE ~absorbs(outcome)
      BY <2>2 DEF settle_invocation, labelVars, extend_into, TypeOK
    <2>3. QED
      BY <2>1, <2>2
  <1>3. /\ IsVecMap(m, InvocationId, PendingInvocation)
        /\ DOMAIN m =
             IF outcome = "ambiguous" THEN DOMAIN pending ELSE DOMAIN pending \ {inv}
        /\ \A i \in DOMAIN m :
             /\ SameGates(pending[i], m[i])
             /\ m[i].disposition = pending[i].disposition
             /\ i # inv => m[i] = pending[i]
             /\ i = inv => m[i].quarantined
    BY <1>1, SettledRecords
  <1> HIDE DEF m
  <1>4. \A i \in DOMAIN m :
            /\ i \in DOMAIN pending
            /\ SameGates(pending[i], m[i])
            /\ m[i].disposition = pending[i].disposition
            /\ i # inv => m[i] = pending[i]
    BY <1>3
  <1>5. j.agent \in AgentId
    BY <1>1 DEF TypeOK, IsVecMap, PendingInvocation
  <1>6. CASE contained(j)
    <2>1. pending' = m
      BY <1>6 DEF settle_invocation, m
    <2>2. /\ C \subseteq speculative_taint_contained(j.agent)
          /\ I \subseteq speculative_integ_contained(j.agent)
      BY <1>1, <1>6 DEF speculative_taint_contained, speculative_integ_contained, PendingOf
    <2>3. \A a \in AgentId :
            /\ taint_levels'[a] \subseteq speculative_taint_contained(a)
            /\ integ_levels'[a] \subseteq speculative_integ_contained(a)
      BY <1>2, <2>2 DEF TypeOK, extend_into, speculative_taint_contained,
                        speculative_integ_contained
    <2>4. \A i \in DOMAIN pending : pending[i].agent \in AgentId
      BY DEF TypeOK, IsVecMap, PendingInvocation
    <2>5. QED
      BY <1>4, <2>1, <2>3, <2>4, KeepConfinement DEF contained
  <1>7. CASE ~contained(j)
    <2>1. pending' = demote_all_of(m, j.agent)
      BY <1>7 DEF settle_invocation, m
    <2>2. \A i \in DOMAIN m :
            i \in DOMAIN pending /\ (m[i].agent # j.agent => m[i] = pending[i])
      BY <1>4 DEF SameGates
    <2>3. QED
      BY <1>2, <1>3, <1>5, <2>1, <2>2, DemoteConfinement
  <1>8. QED
    BY <1>6, <1>7

(* Every step keeps confinement.                                           *)
LEMMA NextConfinement == TypeOK /\ Confinement /\ [Next]_vars => Confinement'
  <1> SUFFICES ASSUME TypeOK, Confinement, [Next]_vars PROVE Confinement'
    OBVIOUS
  <1>1. CASE UNCHANGED <<labelVars, pending>>
    BY <1>1 DEF Confinement, speculative_taint_contained, speculative_integ_contained,
                PendingOf, labelVars
  <1>2. ASSUME NEW a \in AgentId, NEW b \in AgentId,
               delegate(a, b) \/ revoke(a, b) \/ cascade_revoke(b, a)
        PROVE  Confinement'
    BY <1>2, DropConfinement DEF delegate, revoke, cascade_revoke, clear_agent
  <1>3. ASSUME NEW a \in AgentId, NEW src \in Maybe(AgentId), NEW p \in Provenances,
               ingest(a, src, p[1], p[2])
        PROVE  Confinement'
    <2>1. /\ taint_levels' = extend_into(taint_levels, a, {p[1]})
          /\ integ_levels' = extend_into(integ_levels, a, {p[2]})
      BY <1>3 DEF ingest, insert_into, extend_into
    <2>2. CASE ingest_holds(a, p[1], p[2])
      <3>1. pending' = pending
        BY <1>3, <2>2 DEF ingest, hold_disposition
      <3>2. \A i \in PendingOf(a) : FitConf(pending[i], p[1]) /\ FitInteg(pending[i], p[2])
        BY <2>2 DEF ingest_holds, ingest_conf_hold, ingest_clear_hold, ingest_integ_hold,
                    FitConf, FitInteg
      <3>3. QED
        BY <2>1, <3>1, <3>2, ReleaseConfinement
    <2>3. CASE ~ingest_holds(a, p[1], p[2])
      <3>1. pending' = demote_all_of(pending, a)
        BY <1>3, <2>3 DEF ingest, hold_disposition
      <3>2. QED
        BY <2>1, <3>1, DemoteConfinement DEF TypeOK
    <2>4. QED
      BY <2>2, <2>3
  <1>4. ASSUME NEW a \in AgentId, NEW inv \in InvocationId, NEW chal \in ChallengeId,
               NEW snap \in Snapshots, NEW egr \in SUBSET EgressKind,
               NEW ah \in ContentHash, NEW authorized \in BOOLEAN,
               begin_invocation(a, inv, chal, snap, egr, ah, authorized)
        PROVE  Confinement'
    <2> DEFINE plain == NewPending(a, snap, egr, [kind |-> "plain"], "permitted", authorized)
               bypassed == NewPending(a, snap, egr, [kind |-> "bypassed"],
                                "monitor_bypassed", authorized)
    <2>1. inv \notin DOMAIN pending /\ UNCHANGED labelVars
      BY <1>4 DEF begin_invocation, begin_structural, fresh
    <2>2. CASE begin_strict(a, snap, egr, authorized)
      <3>1. pending' = insert(pending, inv, plain)
        BY <1>4, <2>2 DEF begin_invocation, verdict
      <3>2. /\ plain.agent = a /\ plain.policy = snap /\ plain.egress = egr
            /\ ~vouched(plain)
        BY DEF NewPending, vouched
      <3>3. /\ \A l \in speculative_taint(a) \cup {snap.output_conf} : FitConf(plain, l)
            /\ \A l \in speculative_integ(a) \cup {snap.output_integ} : FitInteg(plain, l)
        BY <2>2, <3>2 DEF begin_strict, check_clearance, check_flow, check_integ,
                          FitConf, FitInteg, flow_passes, integ_passes
      <3>4. \A i \in PendingOf(a) :
                FitConf(pending[i], snap.output_conf) /\ FitInteg(pending[i], snap.output_integ)
        BY <2>2 DEF begin_strict, check_clearance, check_flow, check_integ,
                    FitConf, FitInteg, flow_passes, integ_passes
      <3>5. QED
        BY <2>1, <3>1, <3>2, <3>3, <3>4, AdmitConfinement
    <2>3. CASE ~begin_strict(a, snap, egr, authorized)
      <3>1. pending' = pending \/ pending' = insert(pending, inv, bypassed)
        BY <1>4, <2>3 DEF begin_invocation, verdict
      <3>2. ~contained(bypassed)
        BY DEF NewPending, contained
      <3>3. QED
        BY <1>1, <2>1, <3>1, <3>2, AdmitConfinement
    <2>4. QED
      BY <2>2, <2>3
  <1>5. ASSUME NEW inv \in InvocationId, NEW att \in Inspections, authorize_inspected(inv, att)
        PROVE  Confinement'
    <2> DEFINE sc == challenges[inv]
               j == NewPending(sc.agent, sc.policy, sc.egress,
                        [kind |-> "inspected", att |-> att.id], "permitted", sc.authorized)
    <2>1. UNCHANGED labelVars
      BY <1>5 DEF authorize_inspected
    <2>2. CASE att.positive /\ authorize_admits(inv, sc)
      <3>1. pending' = insert(pending, inv, j)
        BY <1>5, <2>2 DEF authorize_inspected
      <3>2. /\ j.agent = sc.agent /\ j.policy = sc.policy /\ j.egress = sc.egress
            /\ vouched(j)
        BY DEF NewPending, vouched
      <3>3. /\ inv \notin DOMAIN pending
            /\ begin_admissible(sc.agent, sc.policy, sc.egress, sc.authorized)
        BY <2>2 DEF authorize_admits
      <3>4. /\ \A l \in speculative_taint(sc.agent) \cup {sc.policy.output_conf} :
                    FitConf(j, l)
            /\ \A l \in speculative_integ(sc.agent) \cup {sc.policy.output_integ} :
                    FitInteg(j, l)
        BY <3>2, <3>3 DEF begin_admissible, check_clearance, check_flow, check_integ,
                          FitConf, FitInteg, flow_passes, integ_passes
      <3>5. \A i \in PendingOf(sc.agent) :
                /\ FitConf(pending[i], sc.policy.output_conf)
                /\ FitInteg(pending[i], sc.policy.output_integ)
        BY <3>3 DEF begin_admissible, check_clearance, check_flow, check_integ,
                    FitConf, FitInteg, flow_passes, integ_passes
      <3>6. QED
        BY <2>1, <3>1, <3>2, <3>3, <3>4, <3>5, AdmitConfinement
    <2>3. CASE ~(att.positive /\ authorize_admits(inv, sc))
      BY <1>1, <1>5, <2>1, <2>3 DEF authorize_inspected
    <2>4. QED
      BY <2>2, <2>3
  <1>6. ASSUME NEW inv \in InvocationId, NEW outcome \in Outcome,
               NEW att \in Maybe(Resolutions), settle_invocation(inv, outcome, att)
        PROVE  Confinement'
    BY <1>6, SettleConfinement
  <1>7. ASSUME NEW q \in CrossInputs, cross_output(q)
        PROVE  Confinement'
    <2>1. /\ taint_levels' = extend_into(taint_levels, q.rcv, released_conf(q))
          /\ integ_levels' = extend_into(integ_levels, q.rcv, released_integ(q))
      BY <1>7 DEF cross_output
    <2>2. q.rcv \in AgentId
      BY <1>7, InputsAssumption DEF CrossInput
    <2>3. CASE cross_holds(q)
      <3>1. pending' = pending
        BY <1>7, <2>3 DEF cross_output, hold_disposition
      <3>2. \A i \in PendingOf(q.rcv) :
                /\ \A l \in released_conf(q) : FitConf(pending[i], l)
                /\ \A l \in released_integ(q) : FitInteg(pending[i], l)
        BY <2>3 DEF cross_holds, ingest_conf_hold, ingest_clear_hold, ingest_integ_hold,
                    FitConf, FitInteg
      <3>3. QED
        BY <2>1, <2>2, <3>1, <3>2, ReleaseConfinement
    <2>4. CASE ~cross_holds(q)
      <3>1. pending' = demote_all_of(pending, q.rcv)
        BY <1>7, <2>4 DEF cross_output, hold_disposition
      <3>2. QED
        BY <2>1, <2>2, <3>1, DemoteConfinement DEF TypeOK
    <2>5. QED
      BY <2>3, <2>4
  <1>8. ASSUME ToolNext PROVE Confinement'
    BY <1>1, <1>8 DEF ToolNext, register_tool, unregister_tool
  <1>9. ASSUME NEW a \in AgentId, NEW b \in AgentId,
               \/ \E cap \in CapKind : grant_capability(a, b, cap)
               \/ \E d \in AssignmentDigest, n \in GrantSizes : grant_crossing(a, b, d, n)
        PROVE  Confinement'
    BY <1>1, <1>9 DEF grant_capability, grant_crossing
  <1>10. CASE UNCHANGED vars
    BY <1>1, <1>10 DEF vars
  <1>11. QED
    BY <1>2, <1>3, <1>4, <1>5, <1>6, <1>7, <1>8, <1>9, <1>10
       DEF Next, TreeNext, IngestNext, BeginNext, InspectNext, SettleNext, CrossNext

(* All three confinement properties hold for ever.                         *)
LEMMA AlwaysConfined == Spec => []Confinement
  <1>1. Init => Confinement
    BY DEF Init, initial, Confinement, EmptyMap
  <1>2. QED
    BY <1>1, TypeCorrect, NextConfinement, PTL DEF Spec

(* No permitted invocation can send out a level its egress does not allow, *)
(* in either mode and however many invocations are in flight (check_flow,  *)
(* ingest_conf_hold, cross_holds, demote_all_of).                          *)
THEOREM FlowConfined == Spec => []flow_confinement
  BY AlwaysConfined, ConfinementParts, PTL

(* No permitted invocation runs below its integrity floor (check_integ,    *)
(* ingest_integ_hold).                                                     *)
THEOREM IntegrityConfined == Spec => []integrity_confinement
  BY AlwaysConfined, ConfinementParts, PTL

(* No permitted invocation runs for an owner above its clearance           *)
(* (check_clearance, ingest_clear_hold).                                   *)
THEOREM ClearanceConfined == Spec => []clearance_confinement
  BY AlwaysConfined, ConfinementParts, PTL

---------------------------------------------------------------------------
(***************************************************************************)
(* Proofs about the records of invocations: what a record claims was       *)
(* checked when it was admitted and stays true, evidence vouches for one   *)
(* record only, labels never shrink, demotions are final, and the life of  *)
(* an invocation is the one InvocationLifecycle describes.                 *)
(*                                                                         *)
(* Three commands admit or answer (begin_invocation, authorize_inspected)  *)
(* or close (settle_invocation) a record; every other command keeps the    *)
(* records it does not drop, and their gates.  So most steps are one case  *)
(* of RecordsKept.                                                         *)
(***************************************************************************)

(* What is claimed of every record.                                        *)
RecordClaims == open_scoped /\ default_deny /\ evidence_one_use

(* No record appears, none is changed in what the gates looked at, and     *)
(* none claims more than before.                                           *)
RecordsKept ==
    \A i \in DOMAIN pending' :
        /\ i \in DOMAIN pending
        /\ SameGates(pending[i], pending'[i])
        /\ contained(pending'[i]) => contained(pending[i])

(* No challenge appears or is changed.                                     *)
ChallengesKept ==
    \A i \in DOMAIN challenges' : i \in DOMAIN challenges /\ challenges'[i] = challenges[i]

(* Dropping an agent's records and challenges, as delegate and clear_agent *)
(* do, keeps the others as they are.                                       *)
LEMMA DropKeeps ==
    ASSUME NEW b, pending' = drop_pending_of(b), challenges' = drop_challenges_of(b)
    PROVE  /\ DOMAIN pending' = {i \in DOMAIN pending : pending[i].agent # b}
           /\ DOMAIN challenges' = {i \in DOMAIN challenges : challenges[i].agent # b}
           /\ \A i \in DOMAIN pending' : pending'[i] = pending[i]
           /\ \A i \in DOMAIN challenges' : challenges'[i] = challenges[i]
           /\ RecordsKept
           /\ ChallengesKept
  <1>1. /\ DOMAIN pending' = {i \in DOMAIN pending : pending[i].agent # b}
        /\ \A i \in DOMAIN pending' : pending'[i] = pending[i]
    BY DEF drop_pending_of, PendingOf, Restrict
  <1>2. /\ DOMAIN challenges' = {i \in DOMAIN challenges : challenges[i].agent # b}
        /\ \A i \in DOMAIN challenges' : challenges'[i] = challenges[i]
    BY DEF drop_challenges_of, Restrict
  <1>3. QED
    BY <1>1, <1>2 DEF RecordsKept, ChallengesKept, SameGates

(* Demoting an agent, or nobody, keeps every record (ingest,               *)
(* cross_output).                                                          *)
LEMMA DemoteKeeps ==
    ASSUME TypeOK, NEW a, pending' = pending \/ pending' = demote_all_of(pending, a)
    PROVE  /\ DOMAIN pending' = DOMAIN pending
           /\ \A i \in DOMAIN pending : pending'[i].quarantined = pending[i].quarantined
           /\ RecordsKept
  <1>1. CASE pending' = pending
    BY <1>1 DEF RecordsKept, SameGates
  <1>2. CASE pending' = demote_all_of(pending, a)
    <2>1. IsVecMap(pending, InvocationId, PendingInvocation)
      BY DEF TypeOK
    <2>2. /\ DOMAIN pending' = DOMAIN pending
          /\ \A i \in DOMAIN pending :
                /\ SameGates(pending[i], pending'[i])
                /\ pending'[i].quarantined = pending[i].quarantined
                /\ contained(pending'[i]) => pending'[i] = pending[i]
      BY <1>2, <2>1, DemoteRecords
    <2>3. QED
      BY <2>2 DEF RecordsKept
  <1>3. QED
    BY <1>1, <1>2

(* A step that keeps the records, and takes neither a spent id, nor spent  *)
(* evidence, nor a tool in use, nor a capability of an owner away, keeps   *)
(* their claims.                                                           *)
LEMMA KeepClaims ==
    ASSUME RecordClaims, RecordsKept, ChallengesKept,
           consumed_ids \subseteq consumed_ids',
           consumed_attestations \subseteq consumed_attestations',
           \A i \in DOMAIN pending' : pending[i].policy.tool \in tool_registered',
           \A i \in DOMAIN challenges' : challenges[i].policy.tool \in tool_registered',
           \A i \in DOMAIN pending' :
                agent_cap[pending[i].agent] \subseteq agent_cap'[pending[i].agent]
    PROVE  RecordClaims'
  <1>1. open_scoped'
    BY DEF RecordClaims, RecordsKept, ChallengesKept, open_scoped, SameGates
  <1>2. default_deny'
    BY DEF RecordClaims, RecordsKept, default_deny, SameGates
  <1>3. evidence_one_use'
    BY DEF RecordClaims, RecordsKept, evidence_one_use, SameGates, vouched
  <1>4. QED
    BY <1>1, <1>2, <1>3 DEF RecordClaims

(* A record with a fresh id, or one just challenged, whose claims hold,    *)
(* may be admitted; if it is vouched for, with evidence not used before.   *)
LEMMA AdmitClaims ==
    ASSUME RecordClaims, NEW inv, NEW j, inv \notin DOMAIN pending,
           pending' = insert(pending, inv, j),
           inv \in consumed_ids', inv \notin DOMAIN challenges', ChallengesKept,
           consumed_ids \subseteq consumed_ids',
           consumed_attestations \subseteq consumed_attestations',
           UNCHANGED <<agent_cap, tool_registered>>,
           j.policy.tool \in tool_registered,
           j.egress \subseteq j.policy.declared_egress,
           contained(j) =>
                j.authorized /\ j.policy.required_caps \subseteq agent_cap[j.agent],
           vouched(j) =>
                /\ j.admission.att \in consumed_attestations' \ consumed_attestations
                /\ \E x \in Inspections :
                        /\ x.id = j.admission.att
                        /\ x.inv = inv
                        /\ x.policy_digest = j.policy.policy_digest
                        /\ x.positive
    PROVE  RecordClaims'
  <1>1. /\ DOMAIN pending' = DOMAIN pending \cup {inv}
        /\ pending'[inv] = j
        /\ \A i \in DOMAIN pending : pending'[i] = pending[i]
    BY DEF insert
  <1>2. open_scoped'
    BY <1>1 DEF RecordClaims, ChallengesKept, open_scoped
  <1>3. default_deny'
    BY <1>1 DEF RecordClaims, default_deny
  <1>4. evidence_one_use'
    <2>1. \A i \in DOMAIN pending : vouched(pending[i]) =>
                /\ pending[i].admission.att \in consumed_attestations
                /\ vouched(j) => pending[i].admission # j.admission
      BY DEF RecordClaims, evidence_one_use
    <2>2. QED
      BY <1>1, <2>1 DEF RecordClaims, evidence_one_use
  <1>5. QED
    BY <1>2, <1>3, <1>4 DEF RecordClaims

(* Every step keeps the claims of the records.                             *)
LEMMA NextClaims == TypeOK /\ RecordClaims /\ [Next]_vars => RecordClaims'
  <1> SUFFICES ASSUME TypeOK, RecordClaims, [Next]_vars PROVE RecordClaims'
    OBVIOUS
  <1> USE DEF agentVars, labelVars, consumedVars
  <1>1. \A i \in DOMAIN pending : pending[i].policy.tool \in tool_registered
    BY DEF RecordClaims, open_scoped
  <1>2. \A i \in DOMAIN challenges : challenges[i].policy.tool \in tool_registered
    BY DEF RecordClaims, open_scoped
  <1>3. \A i \in DOMAIN pending : pending[i].agent \in AgentId
    BY DEF TypeOK, IsVecMap, PendingInvocation
  <1>4. ASSUME UNCHANGED <<pending, challenges>>
        PROVE  RecordsKept /\ ChallengesKept
    BY <1>4 DEF RecordsKept, ChallengesKept, SameGates
  <1>5. ASSUME NEW t \in ToolId, register_tool(t)
        PROVE  RecordClaims'
    BY <1>1, <1>2, <1>4, <1>5, KeepClaims DEF register_tool
  <1>6. ASSUME NEW t \in ToolId, unregister_tool(t)
        PROVE  RecordClaims'
    <2>1. /\ \A i \in DOMAIN pending : pending[i].policy.tool \in tool_registered'
          /\ \A i \in DOMAIN challenges : challenges[i].policy.tool \in tool_registered'
      BY <1>1, <1>2, <1>6 DEF unregister_tool, tool_in_use
    <2>2. QED
      BY <1>4, <1>6, <2>1, KeepClaims DEF unregister_tool
  <1>7. ASSUME NEW b \in AgentId, pending' = drop_pending_of(b),
               challenges' = drop_challenges_of(b),
               agent_cap' = remove_key(agent_cap, b),
               UNCHANGED <<consumedVars, tool_registered>>
        PROVE  RecordClaims'
    <2>1. /\ RecordsKept
          /\ ChallengesKept
          /\ \A i \in DOMAIN pending' : i \in DOMAIN pending /\ pending[i].agent # b
      BY <1>7, DropKeeps
    <2>2. \A i \in DOMAIN pending' :
                agent_cap'[pending[i].agent] = agent_cap[pending[i].agent]
      BY <1>3, <1>7, <2>1 DEF remove_key, TypeOK
    <2>3. QED
      BY <1>1, <1>2, <1>7, <2>1, <2>2, KeepClaims DEF RecordsKept, ChallengesKept
  <1>8. ASSUME NEW a \in AgentId, NEW b \in AgentId,
               delegate(a, b) \/ revoke(a, b) \/ cascade_revoke(b, a)
        PROVE  RecordClaims'
    BY <1>7, <1>8 DEF delegate, revoke, cascade_revoke, clear_agent
  <1>9. ASSUME NEW a \in AgentId, NEW b \in AgentId, NEW cap \in CapKind,
               grant_capability(a, b, cap)
        PROVE  RecordClaims'
    <2>1. \A c \in AgentId : agent_cap[c] \subseteq agent_cap'[c]
      BY <1>9 DEF grant_capability, insert_into, TypeOK
    <2>2. QED
      BY <1>1, <1>2, <1>3, <1>4, <1>9, <2>1, KeepClaims DEF grant_capability
  <1>10. ASSUME NEW a \in AgentId, NEW b \in AgentId, NEW d \in AssignmentDigest,
                NEW n \in GrantSizes, grant_crossing(a, b, d, n)
         PROVE  RecordClaims'
    BY <1>1, <1>2, <1>4, <1>10, KeepClaims DEF grant_crossing
  <1>11. ASSUME RecordsKept, UNCHANGED <<agent_cap, tool_registered, challenges, consumed_ids>>,
                consumed_attestations \subseteq consumed_attestations'
         PROVE  RecordClaims'
    BY <1>1, <1>2, <1>11, KeepClaims DEF RecordsKept, ChallengesKept
  <1>12. ASSUME NEW a \in AgentId, NEW src \in Maybe(AgentId), NEW p \in Provenances,
                ingest(a, src, p[1], p[2])
         PROVE  RecordClaims'
    <2>1. RecordsKept
      BY <1>12, DemoteKeeps DEF ingest
    <2>2. QED
      BY <1>11, <1>12, <2>1 DEF ingest
  <1>13. ASSUME NEW q \in CrossInputs, cross_output(q)
         PROVE  RecordClaims'
    <2>1. RecordsKept
      BY <1>13, DemoteKeeps DEF cross_output
    <2>2. QED
      BY <1>11, <1>13, <2>1 DEF cross_output
  <1>14. ASSUME NEW inv \in InvocationId, NEW outcome \in Outcome,
                NEW att \in Maybe(Resolutions), settle_invocation(inv, outcome, att)
         PROVE  RecordClaims'
    <2>1. RecordsKept
      BY <1>14, SettleRecords DEF RecordsKept
    <2>2. QED
      BY <1>11, <1>14, <2>1 DEF settle_invocation
  <1>15. ASSUME NEW a \in AgentId, NEW inv \in InvocationId, NEW chal \in ChallengeId,
                NEW snap \in Snapshots, NEW egr \in SUBSET EgressKind,
                NEW ah \in ContentHash, NEW authorized \in BOOLEAN,
                begin_invocation(a, inv, chal, snap, egr, ah, authorized)
         PROVE  RecordClaims'
    <2> DEFINE j(adm, disp) == NewPending(a, snap, egr, adm, disp, authorized)
    <2>1. /\ inv \notin DOMAIN pending /\ inv \notin DOMAIN challenges
          /\ inv \in consumed_ids' /\ consumed_ids \subseteq consumed_ids'
          /\ snap.tool \in tool_registered
          /\ egr \subseteq snap.declared_egress
          /\ UNCHANGED <<agent_cap, tool_registered, consumed_attestations>>
      BY <1>15 DEF begin_invocation, begin_structural, fresh, egress_narrows
    <2>2. CASE /\ verdict(a, snap, egr, authorized) = "allow"
               /\ pending' = insert(pending, inv, j([kind |-> "plain"], "permitted"))
               /\ UNCHANGED challenges
      <3>1. authorized /\ snap.required_caps \subseteq agent_cap[a]
        BY <2>2 DEF verdict, begin_strict, check_capability
      <3>2. QED
        BY <2>1, <2>2, <3>1, AdmitClaims DEF NewPending, vouched, contained, ChallengesKept
    <2>3. CASE /\ challenges' = insert(challenges, inv,
                    [challenge |-> chal, agent |-> a, policy |-> snap, egress |-> egr,
                     args_hash |-> ah, authorized |-> authorized])
               /\ UNCHANGED pending
      <3>1. open_scoped'
        BY <2>1, <2>3 DEF RecordClaims, open_scoped, insert
      <3>2. default_deny' /\ evidence_one_use'
        BY <2>1, <2>3 DEF RecordClaims, default_deny, evidence_one_use
      <3>3. QED
        BY <3>1, <3>2 DEF RecordClaims
    <2>4. CASE /\ pending' = insert(pending, inv, j([kind |-> "bypassed"], "monitor_bypassed"))
               /\ UNCHANGED challenges
      BY <2>1, <2>4, AdmitClaims DEF NewPending, vouched, contained, ChallengesKept
    <2>5. QED
      BY <1>15, <2>2, <2>3, <2>4 DEF begin_invocation
  <1>16. ASSUME NEW inv \in InvocationId, NEW att \in Inspections, authorize_inspected(inv, att)
         PROVE  RecordClaims'
    <2> DEFINE sc == challenges[inv]
               j == NewPending(sc.agent, sc.policy, sc.egress,
                        [kind |-> "inspected", att |-> att.id], "permitted", sc.authorized)
    <2>1. /\ inv \in DOMAIN challenges
          /\ inv \in consumed_ids
          /\ inv \notin DOMAIN pending
          /\ att.inv = inv /\ att.policy_digest = sc.policy.policy_digest
          /\ att.id \notin consumed_attestations
          /\ consumed_attestations' = consumed_attestations \cup {att.id}
          /\ UNCHANGED <<agent_cap, tool_registered, consumed_ids>>
      BY <1>16 DEF authorize_inspected, in_scope, RecordClaims, open_scoped
    <2>2. ChallengesKept /\ inv \notin DOMAIN challenges'
      BY <1>16 DEF authorize_inspected, remove, Restrict, ChallengesKept
    <2>3. CASE att.positive /\ authorize_admits(inv, sc)
      <3>1. /\ sc.policy.tool \in tool_registered
            /\ sc.egress \subseteq sc.policy.declared_egress
            /\ sc.authorized /\ sc.policy.required_caps \subseteq agent_cap[sc.agent]
        BY <2>3 DEF authorize_admits, egress_narrows, begin_admissible, check_capability
      <3>2. pending' = insert(pending, inv, j)
        BY <1>16, <2>3 DEF authorize_inspected
      <3>3. QED
        BY <2>1, <2>2, <2>3, <3>1, <3>2, AdmitClaims DEF NewPending, vouched, contained
    <2>4. CASE ~(att.positive /\ authorize_admits(inv, sc))
      <3>1. UNCHANGED pending
        BY <1>16, <2>4 DEF authorize_inspected
      <3>2. RecordsKept
        BY <3>1 DEF RecordsKept, SameGates
      <3>3. QED
        BY <1>1, <1>2, <2>1, <2>2, <3>1, <3>2, KeepClaims DEF ChallengesKept
    <2>5. QED
      BY <2>3, <2>4
  <1>17. CASE UNCHANGED vars
    BY <1>1, <1>2, <1>4, <1>17, KeepClaims DEF vars
  <1>18. QED
    BY <1>5, <1>6, <1>8, <1>9, <1>10, <1>12, <1>13, <1>14, <1>15, <1>16, <1>17
       DEF Next, ToolNext, TreeNext, IngestNext, BeginNext, InspectNext, SettleNext, CrossNext

(* The claims of the records hold for ever.                                *)
LEMMA ClaimsHold == Spec => []RecordClaims
  <1>1. Init => RecordClaims
    BY DEF Init, initial, RecordClaims, open_scoped, default_deny, evidence_one_use, EmptyMap
  <1>2. QED
    BY <1>1, TypeCorrect, NextClaims, PTL DEF Spec

(* Whatever is open was admitted under a spent id, in one place only, for  *)
(* a tool that cannot be unregistered under it, within declared egress.    *)
THEOREM OpenScoped == Spec => []open_scoped
  BY ClaimsHold, PTL DEF RecordClaims

(* A permitted invocation was authorized, also when an inspection admitted *)
(* it later, and its owner keeps every capability its policy requires      *)
(* until the record goes with the owner.                                   *)
THEOREM DefaultDeny == Spec => []default_deny
  BY ClaimsHold, PTL DEF RecordClaims

(* The attestation that vouches for a record vouches for no other, is      *)
(* spent, and was given for this invocation under this policy              *)
(* (authorize_inspected).                                                  *)
THEOREM EvidenceVouchesOnce == Spec => []evidence_one_use
  BY ClaimsHold, PTL DEF RecordClaims

---------------------------------------------------------------------------
(* What no step does to labels and claims.                                 *)

(* In enforce mode every record is contained: nothing is bypassed, so no   *)
(* settlement has anybody to demote.                                       *)
EnforceContains ==
    Mode = "enforce" => \A i \in DOMAIN pending : contained(pending[i])

(* The permits of the records a step leaves open.                          *)
PermitsKept ==
    \A i \in DOMAIN pending \cap DOMAIN pending' :
        /\ contained(pending'[i]) => contained(pending[i])
        /\ Mode = "enforce" => (contained(pending[i]) => contained(pending'[i]))
        /\ pending[i].quarantined => pending'[i].quarantined

(* A release demotes nobody in enforce mode (hold_disposition).            *)
LEMMA EnforceRefuses ==
    ASSUME NEW holds, hold_disposition(holds) = "monitor_bypassed"
    PROVE  Mode # "enforce"
  BY DEF hold_disposition

(* Every step keeps the permits, and in enforce mode opens no record       *)
(* without one.                                                            *)
LEMMA NextPermits ==
    TypeOK /\ EnforceContains /\ [Next]_vars => PermitsKept /\ EnforceContains'
  <1> SUFFICES ASSUME TypeOK, EnforceContains, [Next]_vars
               PROVE  PermitsKept /\ EnforceContains'
    OBVIOUS
  <1>1. ASSUME \A i \in DOMAIN pending' : i \in DOMAIN pending /\ pending'[i] = pending[i]
        PROVE  PermitsKept /\ EnforceContains'
    BY <1>1 DEF PermitsKept, EnforceContains
  <1>2. CASE UNCHANGED pending
    BY <1>1, <1>2
  <1>3. ASSUME NEW b, pending' = drop_pending_of(b), challenges' = drop_challenges_of(b)
        PROVE  PermitsKept /\ EnforceContains'
    BY <1>1, <1>3, DropKeeps
  <1>4. ASSUME NEW a, pending' = demote_all_of(pending, a), Mode # "enforce"
        PROVE  PermitsKept /\ EnforceContains'
    BY <1>4, DemoteKeeps DEF RecordsKept, PermitsKept, EnforceContains
  <1>5. ASSUME NEW inv, NEW j, pending' = insert(pending, inv, j), inv \notin DOMAIN pending,
               Mode = "enforce" => contained(j)
        PROVE  PermitsKept /\ EnforceContains'
    BY <1>5 DEF PermitsKept, EnforceContains, insert
  <1>6. CASE TreeNext
    BY <1>2, <1>3, <1>6 DEF TreeNext, delegate, revoke, cascade_revoke, clear_agent,
                            grant_capability, grant_crossing
  <1>7. CASE IngestNext
    BY <1>2, <1>4, <1>7, EnforceRefuses DEF IngestNext, ingest
  <1>8. CASE CrossNext
    BY <1>2, <1>4, <1>8, EnforceRefuses DEF CrossNext, cross_output
  <1>9. ASSUME NEW a \in AgentId, NEW inv \in InvocationId, NEW chal \in ChallengeId,
               NEW snap \in Snapshots, NEW egr \in SUBSET EgressKind,
               NEW ah \in ContentHash, NEW authorized \in BOOLEAN,
               begin_invocation(a, inv, chal, snap, egr, ah, authorized)
        PROVE  PermitsKept /\ EnforceContains'
    <2>1. inv \notin DOMAIN pending
      BY <1>9 DEF begin_invocation, begin_structural, fresh
    <2>2. \/ pending' = insert(pending, inv,
                NewPending(a, snap, egr, [kind |-> "plain"], "permitted", authorized))
          \/ UNCHANGED pending
          \/ /\ Mode = "monitor"
             /\ pending' = insert(pending, inv, NewPending(a, snap, egr,
                    [kind |-> "bypassed"], "monitor_bypassed", authorized))
      BY <1>9 DEF begin_invocation
    <2>3. contained(NewPending(a, snap, egr, [kind |-> "plain"], "permitted", authorized))
      BY DEF NewPending, contained
    <2>4. QED
      BY <1>2, <1>5, <2>1, <2>2, <2>3
  <1>10. ASSUME NEW inv \in InvocationId, NEW att \in Inspections, authorize_inspected(inv, att)
         PROVE  PermitsKept /\ EnforceContains'
    <2> DEFINE sc == challenges[inv]
               j == NewPending(sc.agent, sc.policy, sc.egress,
                        [kind |-> "inspected", att |-> att.id], "permitted", sc.authorized)
    <2>1. UNCHANGED pending \/ (pending' = insert(pending, inv, j) /\ inv \notin DOMAIN pending)
      BY <1>10 DEF authorize_inspected, authorize_admits
    <2>2. contained(j)
      BY DEF NewPending, contained
    <2>3. QED
      BY <1>2, <1>5, <2>1, <2>2
  <1>11. ASSUME NEW inv \in InvocationId, NEW outcome \in Outcome,
                NEW att \in Maybe(Resolutions), settle_invocation(inv, outcome, att)
         PROVE  PermitsKept /\ EnforceContains'
    <2>1. /\ inv \in DOMAIN pending
          /\ DOMAIN pending' =
                IF outcome = "ambiguous" THEN DOMAIN pending ELSE DOMAIN pending \ {inv}
          /\ \A i \in DOMAIN pending' :
                /\ SameGates(pending[i], pending'[i])
                /\ contained(pending'[i]) => contained(pending[i])
                /\ i # inv => pending'[i].quarantined = pending[i].quarantined
                /\ i = inv => pending'[i].quarantined
      BY <1>11, SettleRecords
    <2>2. ASSUME Mode = "enforce", NEW i \in DOMAIN pending'
          PROVE  contained(pending'[i])
      <3>1. contained(pending[inv])
        BY <2>1, <2>2 DEF EnforceContains
      <3>2. pending' = settled(inv, outcome)
        BY <1>11, <3>1 DEF settle_invocation
      <3>3. inv \in DOMAIN pending
        BY <2>1
      <3>4. \A k \in DOMAIN settled(inv, outcome) :
                /\ SameGates(pending[k], settled(inv, outcome)[k])
                /\ settled(inv, outcome)[k].disposition = pending[k].disposition
                /\ k # inv => settled(inv, outcome)[k] = pending[k]
                /\ k = inv => settled(inv, outcome)[k].quarantined
        BY <3>3, SettledRecords
      <3>5. QED
        BY <2>1, <2>2, <3>2, <3>4 DEF EnforceContains, contained
    <2>3. QED
      BY <2>1, <2>2 DEF PermitsKept, EnforceContains
  <1>12. QED
    BY <1>2, <1>6, <1>7, <1>8, <1>9, <1>10, <1>11
       DEF Next, ToolNext, BeginNext, InspectNext, SettleNext,
           register_tool, unregister_tool, vars

(* A demotion is final, a quarantine too, and in enforce mode nothing is   *)
(* ever demoted (demote_all_of, settle_invocation).                        *)
THEOREM PermitsStable == Spec => PermitStable
  <1>1. Init => EnforceContains
    BY DEF Init, initial, EnforceContains, EmptyMap
  <1>2. QED
    BY <1>1, NextPermits, TypeCorrect, PTL DEF Spec, PermitStable, PermitsKept

(* The orphans of a step, and what becomes of them.                        *)
LEMMA NextOrphans ==
    ASSUME AgentTree, [Next]_vars
    PROVE  \A a \in DOMAIN agent_parent :
                agent_parent[a] \notin agent_active /\ a \in agent_active' =>
                    /\ a \in DOMAIN agent_parent'
                    /\ agent_parent'[a] = agent_parent[a]
                    /\ agent_parent[a] \notin agent_active'
  <1> SUFFICES ASSUME NEW c \in DOMAIN agent_parent, agent_parent[c] \notin agent_active,
                      c \in agent_active'
               PROVE  /\ c \in DOMAIN agent_parent'
                      /\ agent_parent'[c] = agent_parent[c]
                      /\ agent_parent[c] \notin agent_active'
    OBVIOUS
  <1> DEFINE Goal == /\ c \in DOMAIN agent_parent'
                     /\ agent_parent'[c] = agent_parent[c]
                     /\ agent_parent[c] \notin agent_active'
  <1>1. ASSUME NEW a, NEW b, delegate(a, b)
        PROVE  Goal
    <2>1. agent_active' = agent_active \cup {b}
      BY <1>1 DEF delegate
    <2>2. QED
      BY <1>1, <2>1, DelegateEdges
  <1>2. ASSUME NEW b, clear_agent(b)
        PROVE  Goal
    <2>1. agent_active' = agent_active \ {b}
      BY <1>2 DEF clear_agent
    <2>2. QED
      BY <1>2, <2>1, ClearEdges
  <1>3. CASE UNCHANGED <<agent_active, agent_parent>>
    BY <1>3
  <1>4. QED
    BY <1>1, <1>2, <1>3, TreeFrame
       DEF TreeNext, agentVars, grant_capability, grant_crossing, revoke, cascade_revoke

(* No reuse of a revoked parent's id adopts its children or cuts them      *)
(* loose (delegate refuses an id that still has children).                 *)
THEOREM OrphansStayOrphans == Spec => OrphanStaysOrphan
  BY NextOrphans, TreeSound, PTL DEF Spec, OrphanStaysOrphan

(* An agent whose labels grow, and whose records stay open or leave their  *)
(* outputs in its labels, keeps its worst case.                            *)
LEMMA KeepWorstCase ==
    ASSUME NEW a,
           taint_levels[a] \subseteq taint_levels'[a],
           integ_levels[a] \subseteq integ_levels'[a],
           \A i \in PendingOf(a) :
                \/ /\ i \in DOMAIN pending'
                   /\ pending'[i].agent = a
                   /\ pending'[i].policy = pending[i].policy
                \/ /\ pending[i].policy.output_conf \in taint_levels'[a]
                   /\ pending[i].policy.output_integ \in integ_levels'[a]
    PROVE  /\ speculative_taint(a) \subseteq speculative_taint(a)'
           /\ speculative_integ(a) \subseteq speculative_integ(a)'
           /\ taint_levels[a] \subseteq taint_levels'[a]
           /\ integ_levels[a] \subseteq integ_levels'[a]
  BY DEF speculative_taint, speculative_integ, PendingOf

(* No step takes a level from the worst case of an agent it leaves active. *)
LEMMA NextLabels ==
    ASSUME TypeOK, [Next]_vars
    PROVE  \A a \in agent_active \cap agent_active' :
                /\ speculative_taint(a) \subseteq speculative_taint(a)'
                /\ speculative_integ(a) \subseteq speculative_integ(a)'
                /\ taint_levels[a] \subseteq taint_levels'[a]
                /\ integ_levels[a] \subseteq integ_levels'[a]
  <1> SUFFICES ASSUME NEW x \in agent_active \cap agent_active'
               PROVE  /\ speculative_taint(x) \subseteq speculative_taint(x)'
                      /\ speculative_integ(x) \subseteq speculative_integ(x)'
                      /\ taint_levels[x] \subseteq taint_levels'[x]
                      /\ integ_levels[x] \subseteq integ_levels'[x]
    OBVIOUS
  <1> DEFINE Goal == /\ speculative_taint(x) \subseteq speculative_taint(x)'
                     /\ speculative_integ(x) \subseteq speculative_integ(x)'
                     /\ taint_levels[x] \subseteq taint_levels'[x]
                     /\ integ_levels[x] \subseteq integ_levels'[x]
  <1> x \in AgentId
    BY DEF TypeOK
  <1>1. ASSUME \A i \in DOMAIN pending : i \in DOMAIN pending' /\ pending'[i] = pending[i],
               UNCHANGED labelVars
        PROVE  Goal
    BY <1>1, KeepWorstCase DEF labelVars, PendingOf
  <1>2. CASE UNCHANGED <<pending, labelVars>>
    BY <1>1, <1>2
  <1>3. ASSUME NEW b \in AgentId, b \notin agent_active \/ b \notin agent_active',
               taint_levels' = remove_key(taint_levels, b),
               integ_levels' = remove_key(integ_levels, b),
               pending' = drop_pending_of(b)
        PROVE  Goal
    <2>1. x # b
      BY <1>3
    <2>2. taint_levels'[x] = taint_levels[x] /\ integ_levels'[x] = integ_levels[x]
      BY <1>3, <2>1 DEF remove_key, TypeOK
    <2>3. \A i \in PendingOf(x) : i \in DOMAIN pending' /\ pending'[i] = pending[i]
      BY <1>3, <2>1 DEF drop_pending_of, PendingOf, Restrict
    <2>4. QED
      BY <2>2, <2>3, KeepWorstCase DEF PendingOf
  <1>4. ASSUME NEW a \in AgentId, NEW C, NEW I,
               taint_levels' = extend_into(taint_levels, a, C),
               integ_levels' = extend_into(integ_levels, a, I),
               pending' = pending \/ pending' = demote_all_of(pending, a)
        PROVE  Goal
    <2>1. taint_levels[x] \subseteq taint_levels'[x] /\ integ_levels[x] \subseteq integ_levels'[x]
      BY <1>4 DEF extend_into, TypeOK
    <2>2. DOMAIN pending' = DOMAIN pending /\ RecordsKept
      BY <1>4, DemoteKeeps
    <2>3. QED
      BY <2>1, <2>2, KeepWorstCase DEF RecordsKept, SameGates, PendingOf
  <1>5. CASE TreeNext
    <2>1. ASSUME NEW a \in AgentId, NEW b \in AgentId,
                 delegate(a, b) \/ revoke(a, b) \/ cascade_revoke(b, a)
          PROVE  Goal
      BY <1>3, <2>1 DEF delegate, delegable, revoke, cascade_revoke, clear_agent
    <2>2. QED
      BY <1>2, <1>5, <2>1 DEF TreeNext, grant_capability, grant_crossing
  <1>6. CASE IngestNext
    <2>1. PICK a \in AgentId, src \in Maybe(AgentId), p \in Provenances :
                ingest(a, src, p[1], p[2])
      BY <1>6 DEF IngestNext
    <2>2. /\ taint_levels' = extend_into(taint_levels, a, {p[1]})
          /\ integ_levels' = extend_into(integ_levels, a, {p[2]})
          /\ pending' = pending \/ pending' = demote_all_of(pending, a)
      BY <2>1 DEF ingest, insert_into, extend_into
    <2>3. QED
      BY <1>4, <2>2
  <1>7. CASE CrossNext
    <2>1. PICK q \in CrossInputs : cross_output(q)
      BY <1>7 DEF CrossNext
    <2>2. q.rcv \in AgentId
      BY InputsAssumption DEF CrossInput
    <2>3. QED
      BY <1>4, <2>1, <2>2 DEF cross_output
  <1>8. CASE BeginNext
    <2>1. UNCHANGED labelVars
      BY <1>8 DEF BeginNext, begin_invocation
    <2>2. \A i \in DOMAIN pending : i \in DOMAIN pending' /\ pending'[i] = pending[i]
      BY <1>8 DEF BeginNext, begin_invocation, begin_structural, fresh, insert
    <2>3. QED
      BY <1>1, <2>1, <2>2
  <1>9. CASE InspectNext
    <2>1. UNCHANGED labelVars
      BY <1>9 DEF InspectNext, authorize_inspected
    <2>2. \A i \in DOMAIN pending : i \in DOMAIN pending' /\ pending'[i] = pending[i]
      BY <1>9 DEF InspectNext, authorize_inspected, authorize_admits, insert
    <2>3. QED
      BY <1>1, <2>1, <2>2
  <1>10. ASSUME NEW inv \in InvocationId, NEW outcome \in Outcome,
                NEW att \in Maybe(Resolutions), settle_invocation(inv, outcome, att)
         PROVE  Goal
    <2> DEFINE j == pending[inv]
    <2>1. /\ DOMAIN pending' =
                IF outcome = "ambiguous" THEN DOMAIN pending ELSE DOMAIN pending \ {inv}
          /\ \A i \in DOMAIN pending' : SameGates(pending[i], pending'[i])
      BY <1>10, SettleRecords
    <2>2. CASE outcome = "ambiguous"
      <3>1. UNCHANGED labelVars
        BY <1>10, <2>2 DEF settle_invocation, absorbs
      <3>2. QED
        BY <2>1, <2>2, <3>1, KeepWorstCase DEF labelVars, SameGates, PendingOf
    <2>3. CASE outcome # "ambiguous"
      <3>1. /\ taint_levels' = insert_into(taint_levels, j.agent, j.policy.output_conf)
            /\ integ_levels' = insert_into(integ_levels, j.agent, j.policy.output_integ)
        BY <1>10, <2>3 DEF settle_invocation, absorbs
      <3>2. /\ taint_levels[x] \subseteq taint_levels'[x]
            /\ integ_levels[x] \subseteq integ_levels'[x]
            /\ j.agent = x => /\ j.policy.output_conf \in taint_levels'[x]
                              /\ j.policy.output_integ \in integ_levels'[x]
        BY <3>1 DEF insert_into, TypeOK
      <3>3. QED
        BY <2>1, <2>3, <3>2, KeepWorstCase DEF SameGates, PendingOf
    <2>4. QED
      BY <2>2, <2>3
  <1>11. QED
    BY <1>2, <1>5, <1>6, <1>7, <1>8, <1>9, <1>10
       DEF Next, ToolNext, SettleNext, register_tool, unregister_tool, vars

(* As long as an agent lives its worst-case labels never shrink, however   *)
(* its invocations are settled (settle_invocation keeps or absorbs what an *)
(* output may have carried).                                               *)
THEOREM LabelsMonotone == Spec => LabelsNeverDescend
  BY NextLabels, TypeCorrect, PTL DEF Spec, LabelsNeverDescend

---------------------------------------------------------------------------
(* The refinement of InvocationLifecycle.                                  *)

LifeStates == {"fresh", "challenged", "running", "quarantined", "closed"}

(* Where an invocation is in its life, read off the kernel's maps.         *)
LifeOf(i) ==
    /\ i \in DOMAIN challenges =>
            /\ lifecycle_status[i] = "challenged"
            /\ lifecycle_owner[i] = challenges[i].agent
    /\ i \in DOMAIN pending =>
            /\ lifecycle_status[i] = IF pending[i].quarantined THEN "quarantined" ELSE "running"
            /\ lifecycle_owner[i] = pending[i].agent
    /\ i \notin DOMAIN pending \cup DOMAIN challenges =>
            /\ lifecycle_status[i] = IF i \in consumed_ids THEN "closed" ELSE "fresh"
            /\ lifecycle_owner[i] = None

LifeFacts ==
    /\ lifecycle_status \in [InvocationId -> LifeStates]
    /\ lifecycle_owner \in [InvocationId -> AgentId \cup {None}]
    /\ \A i \in InvocationId : LifeOf(i)

(* The cases of the refinement mapping exclude each other.                 *)
LEMMA LifeReads == TypeOK /\ open_scoped => LifeFacts
  <1> SUFFICES ASSUME TypeOK, open_scoped PROVE LifeFacts
    OBVIOUS
  <1>1. /\ \A i \in DOMAIN pending : pending[i].agent \in AgentId /\ i \notin DOMAIN challenges
        /\ \A i \in DOMAIN challenges : challenges[i].agent \in AgentId
    BY DEF TypeOK, IsVecMap, PendingInvocation, ChallengeScope, open_scoped
  <1>2. ASSUME NEW i \in InvocationId
        PROVE  /\ lifecycle_status[i] \in LifeStates
               /\ lifecycle_owner[i] \in AgentId \cup {None}
               /\ LifeOf(i)
    <2>1. CASE i \in DOMAIN challenges
      BY <1>1, <2>1 DEF lifecycle_status, lifecycle_owner, LifeOf, LifeStates
    <2>2. CASE i \in DOMAIN pending
      BY <1>1, <2>2 DEF lifecycle_status, lifecycle_owner, LifeOf, LifeStates
    <2>3. CASE i \notin DOMAIN pending \cup DOMAIN challenges
      BY <1>1, <2>3 DEF lifecycle_status, lifecycle_owner, LifeOf, LifeStates
    <2>4. QED
      BY <2>1, <2>2, <2>3
  <1>3. /\ lifecycle_status = [i \in InvocationId |-> lifecycle_status[i]]
        /\ lifecycle_owner = [i \in InvocationId |-> lifecycle_owner[i]]
    BY DEF lifecycle_status, lifecycle_owner
  <1>4. QED
    BY <1>2, <1>3 DEF LifeFacts

(* The same reading of the lifecycle after a step.                         *)
LEMMA LifeReadsNext == TypeOK' /\ open_scoped' => LifeFacts'
  BY LifeReads, PTL

(* What a step leaves as it was in the life of an invocation.              *)
SameLife(i) ==
    /\ i \in DOMAIN pending' <=> i \in DOMAIN pending
    /\ i \in DOMAIN challenges' <=> i \in DOMAIN challenges
    /\ i \in consumed_ids' <=> i \in consumed_ids
    /\ i \in DOMAIN pending =>
            /\ pending'[i].agent = pending[i].agent
            /\ pending'[i].quarantined = pending[i].quarantined
    /\ i \in DOMAIN challenges => challenges'[i].agent = challenges[i].agent

(* An invocation of which a step changes nothing that is read keeps its    *)
(* stage and its owner.                                                    *)
LEMMA LifeKept ==
    ASSUME LifeFacts, LifeFacts', NEW i \in InvocationId, SameLife(i)
    PROVE  /\ lifecycle_status'[i] = lifecycle_status[i]
           /\ lifecycle_owner'[i] = lifecycle_owner[i]
  <1>1. LifeOf(i) /\ LifeOf(i)'
    BY DEF LifeFacts
  <1>2. CASE i \in DOMAIN pending
    BY <1>1, <1>2 DEF LifeOf, SameLife
  <1>3. CASE i \notin DOMAIN pending
    BY <1>1, <1>3 DEF LifeOf, SameLife
  <1>4. QED
    BY <1>2, <1>3

(* A step that changes the life of at most one invocation is an update of  *)
(* the mapped variables there, or leaves them.                             *)
LEMMA LifeMoves ==
    ASSUME LifeFacts, LifeFacts', NEW inv \in InvocationId,
           \A i \in InvocationId \ {inv} : SameLife(i)
    PROVE  /\ lifecycle_status' = [lifecycle_status EXCEPT ![inv] = lifecycle_status'[inv]]
           /\ lifecycle_owner' = [lifecycle_owner EXCEPT ![inv] = lifecycle_owner'[inv]]
  <1>1. \A i \in InvocationId \ {inv} :
            /\ lifecycle_status'[i] = lifecycle_status[i]
            /\ lifecycle_owner'[i] = lifecycle_owner[i]
    BY LifeKept
  <1>2. /\ lifecycle_status \in [InvocationId -> LifeStates]
        /\ lifecycle_status' \in [InvocationId -> LifeStates]
        /\ lifecycle_owner \in [InvocationId -> AgentId \cup {None}]
        /\ lifecycle_owner' \in [InvocationId -> AgentId \cup {None}]
    BY DEF LifeFacts
  <1>3. QED
    BY <1>1, <1>2

(* A step that changes nothing of any invocation is a stuttering step of   *)
(* the lifecycle.                                                          *)
LEMMA LifeRests ==
    ASSUME LifeFacts, LifeFacts', \A i \in InvocationId : SameLife(i)
    PROVE  UNCHANGED <<lifecycle_status, lifecycle_owner>>
  <1>1. \A i \in InvocationId :
            /\ lifecycle_status'[i] = lifecycle_status[i]
            /\ lifecycle_owner'[i] = lifecycle_owner[i]
    BY LifeKept
  <1>2. QED
    BY <1>1 DEF LifeFacts

(* Every step of the kernel is a step of the lifecycle, or none.           *)
LEMMA NextLifecycle ==
    ASSUME TypeOK, TypeOK', open_scoped, open_scoped', revocation_clean, [Next]_vars
    PROVE  [Lifecycle!LifecycleNext]_(Lifecycle!lifecycleVars)
  <1> USE DEF agentVars, labelVars, consumedVars
  <1> DEFINE Step == [Lifecycle!LifecycleNext]_(Lifecycle!lifecycleVars)
  <1>1. LifeFacts /\ LifeFacts'
    BY LifeReads, LifeReadsNext
  <1>2. ASSUME \A i \in InvocationId : SameLife(i), UNCHANGED agent_active,
               \/ UNCHANGED consumed_attestations
               \/ \E e \in AttestationId \ consumed_attestations :
                        consumed_attestations' = consumed_attestations \cup {e}
        PROVE  Step
    <2>1. UNCHANGED <<lifecycle_status, lifecycle_owner>>
      BY <1>1, <1>2, LifeRests
    <2>2. QED
      BY <1>2, <2>1 DEF Lifecycle!lifecycleVars, Lifecycle!LifecycleNext,
                        Lifecycle!SpendElsewhere, Lifecycle!Spend
  <1>3. ASSUME UNCHANGED <<pending, challenges, consumed_ids>>
        PROVE  \A i \in InvocationId : SameLife(i)
    BY <1>3 DEF SameLife
  <1>4. CASE ToolNext \/ UNCHANGED vars
    BY <1>2, <1>3, <1>4 DEF ToolNext, register_tool, unregister_tool, vars
  <1>5. ASSUME NEW a \in AgentId, NEW b \in AgentId,
               \/ \E cap \in CapKind : grant_capability(a, b, cap)
               \/ \E d \in AssignmentDigest, n \in GrantSizes : grant_crossing(a, b, d, n)
        PROVE  Step
    BY <1>2, <1>3, <1>5 DEF grant_capability, grant_crossing
  <1>6. ASSUME DOMAIN pending' = DOMAIN pending,
               \A i \in DOMAIN pending : pending'[i].quarantined = pending[i].quarantined,
               RecordsKept, UNCHANGED <<challenges, consumed_ids>>
        PROVE  \A i \in InvocationId : SameLife(i)
    BY <1>6 DEF SameLife, RecordsKept, SameGates
  <1>7. CASE IngestNext
    <2>1. PICK a \in AgentId, src \in Maybe(AgentId), p \in Provenances :
                ingest(a, src, p[1], p[2])
      BY <1>7 DEF IngestNext
    <2>2. \A i \in InvocationId : SameLife(i)
      BY <1>6, <2>1, DemoteKeeps DEF ingest
    <2>3. QED
      BY <1>2, <2>1, <2>2 DEF ingest
  <1>8. CASE CrossNext
    <2>1. PICK q \in CrossInputs : cross_output(q)
      BY <1>8 DEF CrossNext
    <2>2. \A i \in InvocationId : SameLife(i)
      BY <1>6, <2>1, DemoteKeeps DEF cross_output
    <2>3. branch(q) = "endorsed" => q.evidence.id \notin consumed_attestations
      BY DEF branch, endorsed_ok
    <2>4. \/ UNCHANGED consumed_attestations
          \/ \E e \in AttestationId \ consumed_attestations :
                    consumed_attestations' = consumed_attestations \cup {e}
      BY <2>1, <2>3 DEF cross_output, TypeOK
    <2>5. QED
      BY <1>2, <2>1, <2>2, <2>4 DEF cross_output
  <1>9. ASSUME NEW a \in AgentId, NEW b \in AgentId, delegate(a, b)
        PROVE  Step
    <2>1. b \notin agent_active /\ agent_active' = agent_active \cup {b}
      BY <1>9 DEF delegate, delegable
    <2>2. /\ \A i \in DOMAIN pending : pending[i].agent # b
          /\ \A i \in DOMAIN challenges : challenges[i].agent # b
      BY <2>1 DEF revocation_clean
    <2>3. /\ DOMAIN pending' = {i \in DOMAIN pending : pending[i].agent # b}
          /\ DOMAIN challenges' = {i \in DOMAIN challenges : challenges[i].agent # b}
          /\ \A i \in DOMAIN pending' : pending'[i] = pending[i]
          /\ \A i \in DOMAIN challenges' : challenges'[i] = challenges[i]
      BY <1>9, DropKeeps DEF delegate
    <2>4. \A i \in InvocationId : SameLife(i)
      BY <1>9, <2>2, <2>3 DEF SameLife, delegate
    <2>5. UNCHANGED <<lifecycle_status, lifecycle_owner, consumed_attestations>>
      BY <1>1, <1>9, <2>4, LifeRests DEF delegate
    <2>6. QED
      BY <2>1, <2>5 DEF Lifecycle!LifecycleNext, Lifecycle!Join
  <1>10. ASSUME NEW b \in AgentId, b \in agent_active, clear_agent(b)
         PROVE  Step
    <2> DEFINE gone(i) == \/ i \in DOMAIN pending /\ pending[i].agent = b
                          \/ i \in DOMAIN challenges /\ challenges[i].agent = b
    <2>1. /\ DOMAIN pending' = {i \in DOMAIN pending : pending[i].agent # b}
          /\ DOMAIN challenges' = {i \in DOMAIN challenges : challenges[i].agent # b}
          /\ \A i \in DOMAIN pending' : pending'[i] = pending[i]
          /\ \A i \in DOMAIN challenges' : challenges'[i] = challenges[i]
      BY <1>10, DropKeeps DEF clear_agent
    <2>2. ASSUME NEW i \in InvocationId
          PROVE  gone(i) <=> lifecycle_owner[i] = b
      <3>1. LifeOf(i)
        BY <1>1 DEF LifeFacts
      <3>2. QED
        BY <3>1, NoneAssumption DEF LifeOf, open_scoped
    <2>3. ASSUME NEW i \in InvocationId, ~gone(i)
          PROVE  lifecycle_status'[i] = lifecycle_status[i] /\ lifecycle_owner'[i] = lifecycle_owner[i]
      <3>1. SameLife(i)
        BY <1>10, <2>1, <2>3 DEF SameLife, clear_agent
      <3>2. QED
        BY <1>1, <3>1, LifeKept
    <2>4. ASSUME NEW i \in InvocationId, gone(i)
          PROVE  lifecycle_status'[i] = "closed" /\ lifecycle_owner'[i] = None
      <3>1. i \in consumed_ids' /\ i \notin DOMAIN pending' \cup DOMAIN challenges'
        BY <1>10, <2>1, <2>4 DEF clear_agent, open_scoped
      <3>2. LifeOf(i)'
        BY <1>1 DEF LifeFacts
      <3>3. QED
        BY <3>1, <3>2 DEF LifeOf
    <2> HIDE DEF gone
    <2>5. /\ lifecycle_status' =
                [i \in InvocationId |-> IF lifecycle_owner[i] = b THEN "closed" ELSE lifecycle_status[i]]
          /\ lifecycle_owner' =
                [i \in InvocationId |-> IF lifecycle_owner[i] = b THEN None ELSE lifecycle_owner[i]]
      BY <1>1, <2>2, <2>3, <2>4 DEF LifeFacts
    <2>6. agent_active' = agent_active \ {b} /\ UNCHANGED consumed_attestations
      BY <1>10 DEF clear_agent
    <2>7. QED
      BY <1>10, <2>5, <2>6 DEF Lifecycle!LifecycleNext, Lifecycle!End
  <1>11. ASSUME NEW a \in AgentId, NEW inv \in InvocationId, NEW chal \in ChallengeId,
                NEW snap \in Snapshots, NEW egr \in SUBSET EgressKind,
                NEW ah \in ContentHash, NEW authorized \in BOOLEAN,
                begin_invocation(a, inv, chal, snap, egr, ah, authorized)
         PROVE  Step
    <2>1. /\ inv \notin DOMAIN pending /\ inv \notin DOMAIN challenges
          /\ inv \notin consumed_ids /\ a \in agent_active
          /\ consumed_ids' = consumed_ids \cup {inv}
          /\ UNCHANGED <<agent_active, consumed_attestations>>
      BY <1>11 DEF begin_invocation, begin_structural, fresh
    <2>2. \/ /\ \E j : /\ pending' = insert(pending, inv, j)
                       /\ j.agent = a /\ j.quarantined = FALSE
             /\ UNCHANGED challenges
          \/ /\ \E j : challenges' = insert(challenges, inv, j) /\ j.agent = a
             /\ UNCHANGED pending
      BY <1>11 DEF begin_invocation, NewPending
    <2>3. \A i \in InvocationId \ {inv} : SameLife(i)
      BY <2>1, <2>2 DEF SameLife, insert
    <2>4. LifeOf(inv) /\ LifeOf(inv)'
      BY <1>1 DEF LifeFacts
    <2>5. /\ lifecycle_status[inv] = "fresh"
          /\ lifecycle_status'[inv] = "running" \/ lifecycle_status'[inv] = "challenged"
          /\ lifecycle_owner'[inv] = a
      BY <2>1, <2>2, <2>4 DEF LifeOf, insert
    <2>6. /\ lifecycle_status' = [lifecycle_status EXCEPT ![inv] = lifecycle_status'[inv]]
          /\ lifecycle_owner' = [lifecycle_owner EXCEPT ![inv] = lifecycle_owner'[inv]]
      BY <1>1, <2>3, LifeMoves
    <2>7. Lifecycle!Admit(inv, a)
      BY <2>1, <2>5, <2>6 DEF Lifecycle!Admit, Lifecycle!Move
    <2>8. QED
      BY <2>7 DEF Lifecycle!LifecycleNext
  <1>12. ASSUME NEW inv \in InvocationId, NEW att \in Inspections, authorize_inspected(inv, att)
         PROVE  Step
    <2>1. /\ inv \in DOMAIN challenges /\ inv \notin DOMAIN pending /\ inv \in consumed_ids
          /\ att.id \in AttestationId \ consumed_attestations
          /\ consumed_attestations' = consumed_attestations \cup {att.id}
          /\ UNCHANGED <<agent_active, consumed_ids>>
      BY <1>12, InputsAssumption
         DEF authorize_inspected, in_scope, open_scoped, InspectionAttestation
    <2>2. /\ DOMAIN challenges' = DOMAIN challenges \ {inv}
          /\ \A i \in DOMAIN challenges' : challenges'[i] = challenges[i]
      BY <1>12 DEF authorize_inspected, remove, Restrict
    <2>3. \/ \E j : /\ pending' = insert(pending, inv, j)
                    /\ j.agent = challenges[inv].agent /\ j.quarantined = FALSE
          \/ UNCHANGED pending
      BY <1>12 DEF authorize_inspected, NewPending
    <2>4. \A i \in InvocationId \ {inv} : SameLife(i)
      BY <2>1, <2>2, <2>3 DEF SameLife, insert
    <2>5. LifeOf(inv) /\ LifeOf(inv)'
      BY <1>1 DEF LifeFacts
    <2>6. /\ lifecycle_status[inv] = "challenged"
          /\ \/ /\ lifecycle_status'[inv] = "running"
                /\ lifecycle_owner'[inv] = lifecycle_owner[inv]
             \/ lifecycle_status'[inv] = "closed" /\ lifecycle_owner'[inv] = None
      BY <2>1, <2>2, <2>3, <2>5 DEF LifeOf, insert
    <2>7. /\ lifecycle_status' = [lifecycle_status EXCEPT ![inv] = lifecycle_status'[inv]]
          /\ lifecycle_owner' = [lifecycle_owner EXCEPT ![inv] = lifecycle_owner'[inv]]
          /\ lifecycle_owner \in [InvocationId -> AgentId \cup {None}]
      BY <1>1, <2>4, LifeMoves DEF LifeFacts
    <2>8. lifecycle_owner'[inv] = lifecycle_owner[inv] => UNCHANGED lifecycle_owner
      BY <2>7
    <2>9. Lifecycle!Decide(inv)
      BY <2>1, <2>6, <2>7, <2>8 DEF Lifecycle!Decide, Lifecycle!Move, Lifecycle!Spend
    <2>10. QED
      BY <2>9 DEF Lifecycle!LifecycleNext
  <1>13. ASSUME NEW inv \in InvocationId, NEW outcome \in Outcome,
                NEW att \in Maybe(Resolutions), settle_invocation(inv, outcome, att)
         PROVE  Step
    <2>1. /\ inv \in DOMAIN pending
          /\ DOMAIN pending' =
                IF outcome = "ambiguous" THEN DOMAIN pending ELSE DOMAIN pending \ {inv}
          /\ \A i \in DOMAIN pending' :
                /\ SameGates(pending[i], pending'[i])
                /\ contained(pending'[i]) => contained(pending[i])
                /\ i # inv => pending'[i].quarantined = pending[i].quarantined
                /\ i = inv => pending'[i].quarantined
      BY <1>13, SettleRecords
    <2>2. UNCHANGED <<agent_active, challenges, consumed_ids>>
      BY <1>13 DEF settle_invocation
    <2>3. inv \in consumed_ids /\ inv \notin DOMAIN challenges
      BY <2>1 DEF open_scoped
    <2>4. \A i \in InvocationId \ {inv} : SameLife(i)
      BY <2>1, <2>2 DEF SameLife, SameGates
    <2>5. LifeOf(inv) /\ LifeOf(inv)'
      BY <1>1 DEF LifeFacts
    <2>6. /\ lifecycle_status' = [lifecycle_status EXCEPT ![inv] = lifecycle_status'[inv]]
          /\ lifecycle_owner' = [lifecycle_owner EXCEPT ![inv] = lifecycle_owner'[inv]]
          /\ lifecycle_owner \in [InvocationId -> AgentId \cup {None}]
      BY <1>1, <2>4, LifeMoves DEF LifeFacts
    <2>7. /\ outcome = "ambiguous" => /\ lifecycle_status'[inv] = "quarantined"
                                      /\ UNCHANGED lifecycle_owner
          /\ outcome # "ambiguous" => /\ lifecycle_status'[inv] = "closed"
                                      /\ lifecycle_owner'[inv] = None
      <3>1. CASE outcome = "ambiguous"
        <4>1. inv \in DOMAIN pending' /\ pending'[inv].quarantined
          BY <2>1, <3>1
        <4>2. pending'[inv].agent = pending[inv].agent
          BY <2>1, <3>1 DEF SameGates
        <4>3. lifecycle_status'[inv] = "quarantined"
          BY <2>5, <4>1 DEF LifeOf
        <4>4. lifecycle_owner'[inv] = lifecycle_owner[inv]
          BY <2>1, <2>5, <4>1, <4>2 DEF LifeOf
        <4>5. QED
          BY <2>6, <3>1, <4>3, <4>4
      <3>2. CASE outcome # "ambiguous"
        BY <2>1, <2>2, <2>3, <2>5, <3>2 DEF LifeOf
      <3>3. QED
        BY <3>1, <3>2
    <2>8. CASE pending[inv].quarantined
      <3>1. /\ outcome # "ambiguous"
            /\ att # None
            /\ att.id \notin consumed_attestations
        BY <1>13, <2>8 DEF settle_invocation, settleable
      <3>2. /\ att.id \in AttestationId
            /\ consumed_attestations' = consumed_attestations \cup {att.id}
        BY <1>13, <3>1, InputsAssumption DEF settle_invocation, Maybe, ResolutionAttestation
      <3>3. lifecycle_status[inv] = "quarantined"
        BY <2>1, <2>5, <2>8 DEF LifeOf
      <3>4. Lifecycle!Resolve(inv)
        BY <2>2, <2>6, <2>7, <3>1, <3>2, <3>3
           DEF Lifecycle!Resolve, Lifecycle!Move, Lifecycle!Spend
      <3>5. QED
        BY <3>4 DEF Lifecycle!LifecycleNext
    <2>9. CASE ~pending[inv].quarantined
      <3>1. UNCHANGED consumed_attestations
        BY <1>13, <2>9 DEF settle_invocation, settleable
      <3>2. lifecycle_status[inv] = "running"
        BY <2>1, <2>5, <2>9 DEF LifeOf
      <3>3. Lifecycle!Settle(inv)
        BY <2>2, <2>6, <2>7, <3>1, <3>2 DEF Lifecycle!Settle, Lifecycle!Move
      <3>4. QED
        BY <3>3 DEF Lifecycle!LifecycleNext
    <2>10. QED
      BY <2>8, <2>9
  <1>14. ASSUME NEW a \in AgentId, NEW b \in AgentId, revoke(a, b) \/ cascade_revoke(b, a)
         PROVE  Step
    BY <1>10, <1>14 DEF revoke, cascade_revoke
  <1>15. QED
    BY <1>4, <1>5, <1>7, <1>8, <1>9, <1>11, <1>12, <1>13, <1>14
       DEF Next, TreeNext, BeginNext, InspectNext, SettleNext

(* Every behaviour of the kernel, whatever is submitted in whatever order, *)
(* is a behaviour of InvocationLifecycle: an id runs at most once, and     *)
(* neither a challenge nor a quarantine ends without fresh evidence while  *)
(* its owner lives.                                                        *)
THEOREM LifecycleImplemented == Spec => ImplementsLifecycle
  <1>1. Init => Lifecycle!LifecycleInit
    <2>1. ASSUME Init
          PROVE  /\ lifecycle_status = [i \in InvocationId |-> "fresh"]
                 /\ lifecycle_owner = [i \in InvocationId |-> None]
      BY <2>1 DEF Init, initial, EmptyMap, lifecycle_status, lifecycle_owner
    <2>2. QED
      BY <2>1, RootAssumption DEF Init, initial, Lifecycle!LifecycleInit
  <1>2. QED
    BY <1>1, NextLifecycle, TypeCorrect, OpenScoped, RevocationClean, PTL
       DEF Spec, ImplementsLifecycle, Lifecycle!LifecycleSpec

---------------------------------------------------------------------------
(***************************************************************************)
(* Proofs over the kernel with its histories: the ledger of crossings and  *)
(* evidence, and what the agents were exposed to.                          *)
(*                                                                         *)
(* The histories add nothing to the kernel, so what is proved of Spec      *)
(* holds here; the proofs below use types, the cleanliness of inactive     *)
(* agents and the growth of labels.  What the histories take away from the *)
(* kernel (the ledger nothing, the exposure some ingests) comes at the end *)
(* of the section.                                                         *)
(***************************************************************************)

(* A step of the ledger is a step of the kernel.                           *)
LEMMA LedgerStep == [LedgerNext]_ledgerVars => [Next]_vars
  <1> SUFFICES ASSUME [LedgerNext]_ledgerVars PROVE [Next]_vars
    OBVIOUS
  <1>1. ASSUME NEW q \in CrossInputs, Crossed(q)
        PROVE  Next
    BY <1>1 DEF Crossed, Next, CrossNext
  <1>2. ASSUME NEW a \in AgentId, NEW d \in AssignmentDigest, NEW n \in GrantSizes,
               Provisioned(a, d, n)
        PROVE  Next
    BY <1>2, RootAssumption DEF Provisioned, Next, TreeNext
  <1>3. ASSUME NEW a \in AgentId, NEW b \in AgentId, Cleared(a, b)
        PROVE  Next
    BY <1>3 DEF Cleared, Next, TreeNext
  <1>4. ASSUME NEW inv \in InvocationId, NEW att \in Inspections, Inspected(inv, att)
        PROVE  Next
    BY <1>4 DEF Inspected, Next, InspectNext
  <1>5. ASSUME NEW inv \in InvocationId, NEW outcome \in Outcome,
               NEW att \in Maybe(Resolutions), Settled(inv, outcome, att)
        PROVE  Next
    BY <1>5 DEF Settled, Next, SettleNext
  <1>6. CASE Unrecorded
    BY <1>6 DEF Unrecorded, Next, TreeNext
  <1>7. CASE UNCHANGED ledgerVars
    BY <1>7 DEF ledgerVars
  <1>8. QED
    BY <1>1, <1>2, <1>3, <1>4, <1>5, <1>6, <1>7 DEF LedgerNext, Next

(* The ledger's behaviours are behaviours of the kernel.                   *)
LEMMA LedgerImplementsKernel == LedgerSpec => Spec
  BY LedgerStep, PTL DEF LedgerSpec, LedgerInit, Spec

---------------------------------------------------------------------------
LedgerEntry ==
    [crossing : CrossingId,
     rcv      : AgentId,
     branch   : {"endorsed", "unendorsed", "fail"},
     target   : Maybe(ConfLevel),
     released : ConfLevel,
     conf     : SUBSET ConfLevel,
     integ    : SUBSET IntegLevel,
     repeated : BOOLEAN,
     live     : BOOLEAN]

LedgerTypeOK ==
    /\ ledger \subseteq LedgerEntry
    /\ uses \in [CrossingKey -> Nat]
    /\ spent \in [AttestationId -> Nat]

(* The kernel's own sets account for the histories: evidence is spent once *)
(* or not at all, every release has used up its crossing id, and a release *)
(* to a living incarnation has a living receiver.                          *)
LedgerAccounted ==
    /\ \A t \in AttestationId : spent[t] = IF t \in consumed_attestations THEN 1 ELSE 0
    /\ \A x \in ledger : x.crossing \in consumed_crossings
    /\ \A x \in ledger : x.live => x.rcv \in agent_active

LedgerInv ==
    /\ LedgerTypeOK
    /\ LedgerAccounted
    /\ GrantConserved
    /\ CrossedOnce
    /\ NoLaundering

(* A crossing takes one of three branches.                                 *)
LEMMA BranchValues ==
    ASSUME NEW q
    PROVE  /\ branch(q) \in {"endorsed", "unendorsed", "fail"}
           /\ branch(q) = "endorsed" => endorsed_ok(q)
  BY DEF branch

(* What a crossing enters in the ledger: its source has no work in flight, *)
(* so the worst case of its labels is what it holds.                       *)
LEMMA ReleaseEntry ==
    ASSUME TypeOK, NEW q \in CrossInputs, cross_output(q)
    PROVE  /\ Release(q) \in LedgerEntry
           /\ Release(q).conf = taint_levels[q.src]
           /\ Release(q).integ = integ_levels[q.src]
           /\ Release(q).crossing = q.crossing /\ Release(q).rcv = q.rcv
           /\ Release(q).branch = branch(q) /\ Release(q).target = q.t_conf
           /\ q.rcv \in agent_active /\ q.src \in AgentId
  <1>1. q \in CrossInput
    BY InputsAssumption
  <1>2. PendingOf(q.src) = {} /\ q.rcv \in agent_active
    BY DEF cross_output, crossable
  <1>3. /\ speculative_taint(q.src) = taint_levels[q.src]
        /\ speculative_integ(q.src) = integ_levels[q.src]
    BY <1>2 DEF speculative_taint, speculative_integ
  <1>4. /\ q.src \in AgentId /\ q.rcv \in AgentId /\ q.crossing \in CrossingId
        /\ q.t_conf \in Maybe(ConfLevel) /\ q.released_conf \in ConfLevel
    BY <1>1 DEF CrossInput
  <1>5. taint_levels[q.src] \in SUBSET ConfLevel /\ integ_levels[q.src] \in SUBSET IntegLevel
    BY <1>4 DEF TypeOK
  <1>6. branch(q) \in {"endorsed", "unendorsed", "fail"}
    BY BranchValues
  <1>7. QED
    BY <1>2, <1>3, <1>4, <1>5, <1>6 DEF Release, LedgerEntry

(* The receiver of an unendorsed release, or of one endorsed without a     *)
(* declassification target, is at least as secret as its source was; the   *)
(* receiver of an unendorsed one trusts it no more.                        *)
LEMMA ReleaseCovers ==
    ASSUME TypeOK, NEW q \in CrossInputs, cross_output(q)
    PROVE  /\ branch(q) = "unendorsed" \/ (branch(q) = "endorsed" /\ q.t_conf = None) =>
                \A l \in taint_levels[q.src] : \E m \in taint_levels'[q.rcv] : l <= m
           /\ branch(q) = "unendorsed" =>
                \A l \in integ_levels[q.src] : \E m \in integ_levels'[q.rcv] : m <= l
  <1>1. q \in CrossInput
    BY InputsAssumption
  <1>2. q.src \in AgentId /\ q.rcv \in AgentId /\ q.released_conf \in ConfLevel
    BY <1>1 DEF CrossInput
  <1>3. /\ taint_levels'[q.rcv] = taint_levels[q.rcv] \cup released_conf(q)
        /\ integ_levels'[q.rcv] = integ_levels[q.rcv] \cup released_integ(q)
    BY <1>2 DEF cross_output, extend_into, TypeOK
  <1>4. /\ \A l \in taint_levels[q.src] : l \in Nat
        /\ \A l \in integ_levels[q.src] : l \in Nat
    BY <1>2 DEF TypeOK, ConfLevel, IntegLevel
  <1>5. CASE branch(q) = "unendorsed"
    <2>1. /\ released_conf(q) = taint_levels[q.src]
          /\ released_integ(q) = integ_levels[q.src]
      BY <1>5 DEF released_conf, released_integ
    <2>2. \A n \in Nat : n <= n
      OBVIOUS
    <2>3. QED
      BY <1>3, <1>4, <1>5, <2>1, <2>2
  <1>6. CASE branch(q) = "endorsed" /\ q.t_conf = None
    <2>1. released_conf(q) = {q.released_conf}
      BY <1>6 DEF released_conf
    <2>2. \A l \in taint_levels[q.src] : l <= q.released_conf
      BY <1>6 DEF cross_output, endorsed_bounds
    <2>3. QED
      BY <1>3, <1>6, <2>1, <2>2
  <1>7. QED
    BY <1>5, <1>6

(* While its receiver lives a release stays covered, because the labels of *)
(* a living agent only grow.                                               *)
LEMMA CoverKept ==
    ASSUME TypeOK, [Next]_vars, LedgerTypeOK, NoLaundering,
           NEW x \in ledger, x.live, x.rcv \in agent_active, x.rcv \in agent_active'
    PROVE  /\ x.branch = "unendorsed" \/ (x.branch = "endorsed" /\ x.target = None) =>
                \A l \in x.conf : \E m \in taint_levels'[x.rcv] : l <= m
           /\ x.branch = "unendorsed" =>
                \A l \in x.integ : \E m \in integ_levels'[x.rcv] : m <= l
  <1>1. /\ taint_levels[x.rcv] \subseteq taint_levels'[x.rcv]
        /\ integ_levels[x.rcv] \subseteq integ_levels'[x.rcv]
    BY NextLabels
  <1>2. QED
    BY <1>1 DEF NoLaundering

(* A step that makes no release and clears nobody keeps the releases       *)
(* covered.                                                                *)
LEMMA LedgerRests ==
    ASSUME TypeOK, [Next]_vars, LedgerInv, UNCHANGED ledger,
           agent_active \subseteq agent_active',
           consumed_crossings \subseteq consumed_crossings'
    PROVE  /\ CrossedOnce' /\ NoLaundering'
           /\ \A x \in ledger' : x.crossing \in consumed_crossings'
           /\ \A x \in ledger' : x.live => x.rcv \in agent_active'
  <1>1. \A x \in ledger : x.live => x.rcv \in agent_active /\ x.rcv \in agent_active'
    BY DEF LedgerInv, LedgerAccounted
  <1>2. NoLaundering'
    BY <1>1, CoverKept DEF LedgerInv, NoLaundering
  <1>3. QED
    BY <1>1, <1>2 DEF LedgerInv, LedgerAccounted, CrossedOnce

(* A grant that is kept, or dropped, with its count of uses stays          *)
(* conserved.                                                              *)
LEMMA GrantsRest ==
    ASSUME GrantConserved,
           \A g \in DOMAIN crossing_grants' :
                /\ g \in DOMAIN crossing_grants
                /\ crossing_grants'[g] = crossing_grants[g]
                /\ uses'[g] = uses[g]
    PROVE  GrantConserved'
  BY DEF GrantConserved

(* Evidence accepted for the first time is counted for the first time.     *)
LEMMA SpendOnce ==
    ASSUME LedgerTypeOK, LedgerAccounted, NEW e \in AttestationId \ consumed_attestations,
           spent' = [spent EXCEPT ![e] = @ + 1],
           consumed_attestations' = consumed_attestations \cup {e}
    PROVE  /\ spent' \in [AttestationId -> Nat]
           /\ \A t \in AttestationId :
                spent'[t] = IF t \in consumed_attestations' THEN 1 ELSE 0
  <1>1. spent[e] = 0 /\ spent \in [AttestationId -> Nat]
    BY DEF LedgerTypeOK, LedgerAccounted
  <1>2. spent'[e] = 1 /\ \A t \in AttestationId \ {e} : spent'[t] = spent[t]
    BY <1>1
  <1>3. QED
    BY <1>1, <1>2 DEF LedgerAccounted

(* A crossing keeps the accounts: its id and its evidence are new, and an  *)
(* endorsement takes one use from the grant it counts.                     *)
LEMMA CrossedLedger ==
    ASSUME TypeOK, [Next]_vars, LedgerInv, NEW q \in CrossInputs, Crossed(q)
    PROVE  LedgerInv'
  <1> DEFINE key == GrantKey(q)
  <1>1. /\ cross_output(q)
        /\ ledger' = ledger \cup {Release(q)}
    BY DEF Crossed
  <1>2. /\ LedgerTypeOK /\ LedgerAccounted /\ GrantConserved /\ CrossedOnce /\ NoLaundering
    BY DEF LedgerInv
  <1>3. /\ Release(q) \in LedgerEntry
        /\ Release(q).conf = taint_levels[q.src]
        /\ Release(q).integ = integ_levels[q.src]
        /\ Release(q).crossing = q.crossing /\ Release(q).rcv = q.rcv
        /\ Release(q).branch = branch(q) /\ Release(q).target = q.t_conf
        /\ q.rcv \in agent_active /\ q.src \in AgentId
    BY <1>1, ReleaseEntry
  <1>4. /\ UNCHANGED agent_active
        /\ q.crossing \notin consumed_crossings
        /\ consumed_crossings' = consumed_crossings \cup {q.crossing}
    BY <1>1 DEF cross_output, crossable, agentVars
  <1>5. CrossedOnce'
    BY <1>1, <1>2, <1>3, <1>4 DEF CrossedOnce, LedgerAccounted
  <1>6. NoLaundering'
    <2> SUFFICES ASSUME NEW x \in ledger', x.live
                 PROVE  /\ x.branch = "unendorsed" \/ (x.branch = "endorsed" /\ x.target = None) =>
                              \A l \in x.conf : \E m \in taint_levels'[x.rcv] : l <= m
                        /\ x.branch = "unendorsed" =>
                              \A l \in x.integ : \E m \in integ_levels'[x.rcv] : m <= l
      BY DEF NoLaundering
    <2>1. CASE x \in ledger
      <3>1. x.rcv \in agent_active /\ x.rcv \in agent_active'
        BY <1>2, <1>4, <2>1 DEF LedgerAccounted
      <3>2. QED
        BY <1>2, <2>1, <3>1, CoverKept
    <2>2. CASE x = Release(q)
      BY <1>1, <1>3, <2>2, ReleaseCovers
    <2>3. QED
      BY <1>1, <2>1, <2>2
  <1>7. /\ ledger' \subseteq LedgerEntry
        /\ \A x \in ledger' : x.crossing \in consumed_crossings'
        /\ \A x \in ledger' : x.live => x.rcv \in agent_active'
    BY <1>1, <1>2, <1>3, <1>4 DEF LedgerTypeOK, LedgerAccounted
  <1>8. CASE branch(q) # "endorsed"
    <2>1. UNCHANGED <<uses, spent, consumed_attestations, crossing_grants>>
      BY <1>1, <1>8 DEF Crossed, cross_output
    <2>2. QED
      BY <1>2, <1>5, <1>6, <1>7, <2>1 DEF LedgerInv, LedgerTypeOK, LedgerAccounted, GrantConserved
  <1>9. CASE branch(q) = "endorsed"
    <2>1. endorsed_ok(q)
      BY <1>9, BranchValues
    <2>2. q \in CrossInput
      BY InputsAssumption
    <2>3. /\ q.evidence.id \in AttestationId \ consumed_attestations
          /\ key \in DOMAIN crossing_grants
          /\ key \in CrossingKey
      BY <2>1, <2>2 DEF endorsed_ok, CrossInput, Maybe, ConformanceAttestation,
                        GrantKey, CrossingKey
    <2>4. /\ uses' = [uses EXCEPT ![key] = @ + 1]
          /\ spent' = [spent EXCEPT ![q.evidence.id] = @ + 1]
          /\ consumed_attestations' = consumed_attestations \cup {q.evidence.id}
          /\ crossing_grants' = decrement_grant_at(q.rcv, q.assignment)
      BY <1>1, <1>9 DEF Crossed, cross_output
    <2>5. /\ spent' \in [AttestationId -> Nat]
          /\ \A t \in AttestationId :
                spent'[t] = IF t \in consumed_attestations' THEN 1 ELSE 0
      BY <1>2, <2>3, <2>4, SpendOnce
    <2>6. /\ uses \in [CrossingKey -> Nat]
          /\ uses' \in [CrossingKey -> Nat]
          /\ uses'[key] = uses[key] + 1
          /\ \A g \in CrossingKey \ {key} : uses'[g] = uses[g]
      BY <1>2, <2>3, <2>4 DEF LedgerTypeOK
    <2>7. /\ DOMAIN crossing_grants' = DOMAIN crossing_grants
          /\ \A g \in DOMAIN crossing_grants \ {key} : crossing_grants'[g] = crossing_grants[g]
          /\ crossing_grants'[key] = [crossing_grants[key] EXCEPT !.remaining = @ - 1]
      BY <2>3, <2>4 DEF decrement_grant_at, GrantKey
    <2>8. /\ \A g \in DOMAIN crossing_grants :
                g \in CrossingKey /\ crossing_grants[g] \in CrossingGrant
          /\ \A g \in DOMAIN crossing_grants :
                crossing_grants[g].remaining + uses[g] = crossing_grants[g].provisioned
      BY <1>2 DEF TypeOK, IsVecMap, GrantConserved
    <2>9. ASSUME NEW h \in CrossingGrant, NEW n \in Nat, h.remaining + n = h.provisioned
          PROVE  LET k == [h EXCEPT !.remaining = @ - 1]
                 IN  k.remaining + (n + 1) = k.provisioned
      BY <2>9, MaxUsesAssumption DEF CrossingGrant
    <2>10. GrantConserved'
      <3>1. crossing_grants'[key].remaining + uses'[key] = crossing_grants'[key].provisioned
        BY <2>3, <2>6, <2>7, <2>8, <2>9
      <3>2. QED
        BY <2>6, <2>7, <2>8, <3>1 DEF GrantConserved
    <2>11. QED
      BY <1>5, <1>6, <1>7, <2>5, <2>6, <2>10 DEF LedgerInv, LedgerTypeOK, LedgerAccounted
  <1>10. QED
    BY <1>8, <1>9

(* Clearing an agent keeps the accounts: its releases are of the past, its *)
(* grants are gone.                                                        *)
LEMMA ClearedLedger ==
    ASSUME TypeOK, [Next]_vars, LedgerInv, NEW b \in AgentId, clear_agent(b),
           ledger' = {IF x.rcv = b THEN [x EXCEPT !.live = FALSE] ELSE x : x \in ledger},
           uses' = [g \in CrossingKey |-> IF g.agent = b THEN 0 ELSE uses[g]],
           UNCHANGED spent
    PROVE  LedgerInv'
  <1> DEFINE past(x) == IF x.rcv = b THEN [x EXCEPT !.live = FALSE] ELSE x
  <1>1. LedgerTypeOK /\ LedgerAccounted /\ GrantConserved /\ CrossedOnce /\ NoLaundering
    BY DEF LedgerInv
  <1>2. ASSUME NEW x \in LedgerEntry
        PROVE  /\ past(x) \in LedgerEntry
               /\ past(x).crossing = x.crossing /\ past(x).rcv = x.rcv
               /\ past(x).live => past(x) = x /\ x.rcv # b
    BY DEF LedgerEntry
  <1>3. ledger' = {past(x) : x \in ledger} /\ ledger \subseteq LedgerEntry
    BY <1>1 DEF LedgerTypeOK
  <1>4. agent_active' = agent_active \ {b}
    BY DEF clear_agent
  <1> HIDE DEF past
  <1>5. /\ ledger' \subseteq LedgerEntry
        /\ \A x \in ledger' : \E y \in ledger : x.crossing = y.crossing /\ x = past(y)
        /\ \A x \in ledger' : x.live => x \in ledger /\ x.rcv # b
    BY <1>2, <1>3
  <1>6. CrossedOnce'
    BY <1>1, <1>5 DEF CrossedOnce
  <1>7. \A x \in ledger' : x.live => x.rcv \in agent_active /\ x.rcv \in agent_active'
    BY <1>1, <1>4, <1>5 DEF LedgerAccounted
  <1>8. NoLaundering'
    <2> SUFFICES ASSUME NEW x \in ledger', x.live
                 PROVE  /\ x.branch = "unendorsed" \/ (x.branch = "endorsed" /\ x.target = None) =>
                              \A l \in x.conf : \E m \in taint_levels'[x.rcv] : l <= m
                        /\ x.branch = "unendorsed" =>
                              \A l \in x.integ : \E m \in integ_levels'[x.rcv] : m <= l
      BY DEF NoLaundering
    <2>1. x \in ledger /\ x.rcv \in agent_active /\ x.rcv \in agent_active'
      BY <1>5, <1>7
    <2>2. QED
      BY <1>1, <2>1, CoverKept
  <1>9. \A g \in DOMAIN crossing_grants' :
            /\ g \in DOMAIN crossing_grants /\ g.agent # b
            /\ crossing_grants'[g] = crossing_grants[g]
    BY DEF clear_agent, drop_grants_of, Restrict
  <1>10. \A g \in DOMAIN crossing_grants : g \in CrossingKey
    BY DEF TypeOK, IsVecMap
  <1>11. GrantConserved'
    <2>1. \A g \in DOMAIN crossing_grants' : uses'[g] = uses[g]
      BY <1>9, <1>10
    <2>2. QED
      BY <1>1, <1>9, <2>1, GrantsRest
  <1>12. uses' \in [CrossingKey -> Nat]
    BY <1>1 DEF LedgerTypeOK
  <1>13. UNCHANGED consumedVars
    BY DEF clear_agent
  <1>14. QED
    BY <1>1, <1>5, <1>6, <1>7, <1>8, <1>11, <1>12, <1>13
       DEF LedgerInv, LedgerTypeOK, LedgerAccounted, consumedVars

(* Every step keeps the accounts.                                          *)
LEMMA NextLedgerInv ==
    ASSUME TypeOK, LedgerInv, [LedgerNext]_ledgerVars
    PROVE  LedgerInv'
  <1> USE DEF agentVars, labelVars, consumedVars
  <1>1. [Next]_vars
    BY LedgerStep
  <1>2. LedgerTypeOK /\ LedgerAccounted /\ GrantConserved /\ CrossedOnce /\ NoLaundering
    BY DEF LedgerInv
  <1>3. ASSUME NEW q \in CrossInputs, Crossed(q)
        PROVE  LedgerInv'
    BY <1>1, <1>3, CrossedLedger
  <1>4. ASSUME NEW a \in AgentId, NEW b \in AgentId, Cleared(a, b)
        PROVE  LedgerInv'
    BY <1>1, <1>4, ClearedLedger DEF Cleared, revoke, cascade_revoke
  <1>5. ASSUME UNCHANGED ledger, agent_active \subseteq agent_active',
               UNCHANGED <<consumed_crossings>>,
               uses' \in [CrossingKey -> Nat],
               spent' \in [AttestationId -> Nat],
               \A t \in AttestationId :
                    spent'[t] = IF t \in consumed_attestations' THEN 1 ELSE 0,
               GrantConserved'
        PROVE  LedgerInv'
    BY <1>1, <1>2, <1>5, LedgerRests DEF LedgerInv, LedgerTypeOK, LedgerAccounted
  <1>6. ASSUME NEW b \in AgentId, NEW d \in AssignmentDigest, NEW n \in GrantSizes,
               Provisioned(b, d, n)
        PROVE  LedgerInv'
    <2> DEFINE key == [agent |-> b, assignment |-> d]
               grant == [remaining |-> n, provisioned |-> n]
    <2>1. key \in CrossingKey
      BY DEF CrossingKey
    <2>2. /\ uses' = [uses EXCEPT ![key] = 0]
          /\ crossing_grants' = insert(crossing_grants, key, grant)
          /\ UNCHANGED <<ledger, spent, agent_active, consumed_crossings, consumed_attestations>>
      BY <1>6 DEF Provisioned, grant_crossing
    <2>3. /\ uses' \in [CrossingKey -> Nat]
          /\ uses'[key] = 0
          /\ \A g \in CrossingKey \ {key} : uses'[g] = uses[g]
      BY <1>2, <2>1, <2>2 DEF LedgerTypeOK
    <2>4. n \in Nat
      BY InputsAssumption, MaxUsesAssumption
    <2>5. grant.remaining + 0 = grant.provisioned
      BY <2>4
    <2>6. \A g \in DOMAIN crossing_grants : g \in CrossingKey
      BY DEF TypeOK, IsVecMap
    <2> HIDE DEF key, grant
    <2>7. /\ DOMAIN crossing_grants' = DOMAIN crossing_grants \cup {key}
          /\ crossing_grants'[key] = grant
          /\ \A g \in DOMAIN crossing_grants \ {key} : crossing_grants'[g] = crossing_grants[g]
      BY <2>2 DEF insert
    <2>8. GrantConserved'
      BY <1>2, <2>3, <2>5, <2>6, <2>7 DEF GrantConserved
    <2>9. QED
      BY <1>2, <1>5, <2>2, <2>3, <2>8 DEF LedgerTypeOK, LedgerAccounted
  <1>7. ASSUME NEW inv \in InvocationId, NEW att \in Inspections, Inspected(inv, att)
        PROVE  LedgerInv'
    <2>1. /\ att.id \in AttestationId \ consumed_attestations
          /\ consumed_attestations' = consumed_attestations \cup {att.id}
          /\ spent' = [spent EXCEPT ![att.id] = @ + 1]
          /\ UNCHANGED <<ledger, uses, agent_active, consumed_crossings, crossing_grants>>
      BY <1>7, InputsAssumption
         DEF Inspected, authorize_inspected, in_scope, InspectionAttestation
    <2>2. /\ spent' \in [AttestationId -> Nat]
          /\ \A t \in AttestationId :
                spent'[t] = IF t \in consumed_attestations' THEN 1 ELSE 0
      BY <1>2, <2>1, SpendOnce
    <2>3. GrantConserved'
      BY <1>2, <2>1 DEF GrantConserved
    <2>4. QED
      BY <1>2, <1>5, <2>1, <2>2, <2>3 DEF LedgerTypeOK
  <1>8. ASSUME NEW inv \in InvocationId, NEW outcome \in Outcome,
               NEW att \in Maybe(Resolutions), Settled(inv, outcome, att)
        PROVE  LedgerInv'
    <2>1. UNCHANGED <<ledger, uses, agent_active, consumed_crossings, crossing_grants>>
      BY <1>8 DEF Settled, settle_invocation
    <2>2. spent \in [AttestationId -> Nat]
      BY <1>2 DEF LedgerTypeOK
    <2>3. /\ spent' \in [AttestationId -> Nat]
          /\ \A t \in AttestationId :
                spent'[t] = IF t \in consumed_attestations' THEN 1 ELSE 0
      <3>1. CASE att = None
        <4>1. UNCHANGED <<spent, consumed_attestations>>
          BY <1>8, <2>2, <3>1 DEF Settled, settle_invocation
        <4>2. QED
          BY <1>2, <4>1 DEF LedgerTypeOK, LedgerAccounted
      <3>2. CASE att # None
        <4>1. /\ att.id \in AttestationId
              /\ consumed_attestations' = consumed_attestations \cup {att.id}
          BY <1>8, <3>2, InputsAssumption
             DEF Settled, settle_invocation, Maybe, ResolutionAttestation
        <4>2. att.id \notin consumed_attestations
          BY <1>8, <3>2 DEF Settled, settle_invocation, settleable
        <4>3. spent' = [spent EXCEPT ![att.id] = @ + 1]
          BY <1>8, <2>2, <3>2, <4>1 DEF Settled
        <4>4. QED
          BY <1>2, <4>1, <4>2, <4>3, SpendOnce
      <3>3. QED
        BY <3>1, <3>2
    <2>4. GrantConserved'
      BY <1>2, <2>1 DEF GrantConserved
    <2>5. QED
      BY <1>2, <1>5, <2>1, <2>3, <2>4 DEF LedgerTypeOK
  <1>9. ASSUME UNCHANGED <<history, consumed_crossings, consumed_attestations>>,
               agent_active \subseteq agent_active', GrantConserved'
        PROVE  LedgerInv'
    BY <1>2, <1>5, <1>9 DEF LedgerTypeOK, LedgerAccounted, history
  <1>10. ASSUME UNCHANGED crossing_grants, UNCHANGED history
         PROVE  GrantConserved'
    BY <1>2, <1>10 DEF GrantConserved, history
  <1>11. CASE IngestNext /\ UNCHANGED history
    BY <1>9, <1>10, <1>11 DEF IngestNext, ingest
  <1>12. CASE Unrecorded
    <2>1. ASSUME NEW a \in AgentId, NEW b \in AgentId, delegate(a, b), UNCHANGED history
          PROVE  LedgerInv'
      <3>1. \A g \in DOMAIN crossing_grants' :
                g \in DOMAIN crossing_grants /\ crossing_grants'[g] = crossing_grants[g]
        BY <2>1 DEF delegate, drop_grants_of, Restrict
      <3>2. GrantConserved'
        BY <1>2, <2>1, <3>1, GrantsRest DEF history
      <3>3. QED
        BY <1>9, <2>1, <3>2 DEF delegate
    <2>2. CASE ToolNext /\ UNCHANGED history
      BY <1>9, <1>10, <2>2 DEF ToolNext, register_tool, unregister_tool
    <2>3. ASSUME NEW a \in AgentId, NEW b \in AgentId, NEW cap \in CapKind,
                 grant_capability(a, b, cap), UNCHANGED history
          PROVE  LedgerInv'
      BY <1>9, <1>10, <2>3 DEF grant_capability
    <2>4. CASE BeginNext /\ UNCHANGED history
      BY <1>9, <1>10, <2>4 DEF BeginNext, begin_invocation
    <2>5. QED
      BY <1>12, <2>1, <2>2, <2>3, <2>4 DEF Unrecorded
  <1>13. CASE UNCHANGED ledgerVars
    BY <1>9, <1>10, <1>13 DEF ledgerVars, vars
  <1>14. QED
    BY <1>3, <1>4, <1>6, <1>7, <1>8, <1>11, <1>12, <1>13 DEF LedgerNext

(* The accounts of the ledger hold for ever.                               *)
LEMMA LedgerHolds == LedgerSpec => []LedgerInv
  <1>1. LedgerInit => LedgerInv
    BY DEF LedgerInit, Init, initial, EmptyMap, LedgerInv, LedgerTypeOK, LedgerAccounted,
           GrantConserved, CrossedOnce, NoLaundering
  <1>2. LedgerSpec => []TypeOK
    BY LedgerImplementsKernel, TypeCorrect, PTL
  <1>3. QED
    BY <1>1, <1>2, NextLedgerInv, PTL DEF LedgerSpec

---------------------------------------------------------------------------
(* Exposure.                                                               *)

Levels == [conf : SUBSET ConfLevel, integ : SUBSET IntegLevel]

(* Labels, of confidentiality and of integrity, stand for some levels.     *)
Covers(taint, integ, what) ==
    /\ \A l \in what.conf : \E m \in taint : l <= m
    /\ \A l \in what.integ : \E m \in integ : m <= l

(* The labels of an agent stand for some levels, before and after a step.  *)
CoveredBy(a, what) == Covers(taint_levels[a], integ_levels[a], what)

CoveredNext(a, what) == Covers(taint_levels'[a], integ_levels'[a], what)

ExposureTypeOK ==
    /\ seen \in [AgentId -> Levels]
    /\ mail \subseteq [src : AgentId, carries : Levels]

(* A message under way comes from a living agent, whose labels still cover *)
(* what it carries.                                                        *)
MailCovered == \A m \in mail : m.src \in agent_active /\ CoveredBy(m.src, m.carries)

ExposureInv ==
    /\ ExposureTypeOK
    /\ MailCovered
    /\ LabelsCoverExposure

(* A step of the exposure history is a step of the ledger.                 *)
LEMMA ExposureStep ==
    ASSUME ExposureTypeOK, [ExposureNext]_exposureVars
    PROVE  [LedgerNext]_ledgerVars
  <1>1. ASSUME NEW a \in AgentId, Send(a)
        PROVE  UNCHANGED ledgerVars
    BY <1>1 DEF Send
  <1>2. ASSUME NEW a \in AgentId, NEW p \in Provenances, Observe(a, p[1], p[2])
        PROVE  LedgerNext
    BY <1>2 DEF Observe, LedgerNext, IngestNext, Maybe
  <1>3. ASSUME NEW a \in AgentId, NEW p \in Provenances, NEW m \in mail,
               Deliver(a, m, p[1], p[2])
        PROVE  LedgerNext
    <2>1. m.src \in Maybe(AgentId)
      BY DEF ExposureTypeOK, Maybe
    <2>2. QED
      BY <1>3, <2>1 DEF Deliver, LedgerNext, IngestNext
  <1>4. ASSUME NEW inv \in InvocationId, NEW outcome \in Outcome,
               NEW att \in Maybe(Resolutions), Output(inv, outcome, att)
        PROVE  LedgerNext
    BY <1>4 DEF Output, LedgerNext
  <1>5. ASSUME NEW q \in CrossInputs, Across(q)
        PROVE  LedgerNext
    BY <1>5 DEF Across, LedgerNext
  <1>6. ASSUME NEW a \in AgentId, NEW b \in AgentId, Forget(a, b)
        PROVE  LedgerNext
    BY <1>6 DEF Forget, LedgerNext
  <1>7. CASE Unexposed
    BY <1>7 DEF Unexposed, LedgerNext
  <1>8. CASE UNCHANGED exposureVars
    BY <1>8 DEF exposureVars
  <1>9. QED
    BY <1>1, <1>2, <1>3, <1>4, <1>5, <1>6, <1>7, <1>8 DEF ExposureNext

(* What an agent covers it goes on covering, unless it is cleared: a       *)
(* living agent because its labels only grow, any other because it holds   *)
(* no labels and so covers nothing.                                        *)
LEMMA CoversOn ==
    ASSUME TypeOK, revocation_clean, [Next]_vars, NEW a \in AgentId,
           a \in agent_active' \/ a \notin agent_active, NEW what, CoveredBy(a, what)
    PROVE  CoveredNext(a, what)
  <1>1. CASE a \in agent_active
    <2>1. /\ taint_levels[a] \subseteq taint_levels'[a]
          /\ integ_levels[a] \subseteq integ_levels'[a]
      BY <1>1, NextLabels
    <2>2. QED
      BY <2>1 DEF CoveredBy, CoveredNext, Covers
  <1>2. CASE a \notin agent_active
    <2>1. what.conf = {} /\ what.integ = {}
      BY <1>2 DEF revocation_clean, CoveredBy, CoveredNext, Covers
    <2>2. QED
      BY <2>1 DEF CoveredBy, CoveredNext, Covers
  <1>3. QED
    BY <1>1, <1>2

(* A step that clears nobody, exposes one agent to levels its labels now   *)
(* cover, and sends nothing, keeps data covered.                           *)
LEMMA ExposeOne ==
    ASSUME TypeOK, revocation_clean, [Next]_vars, ExposureInv,
           agent_active \subseteq agent_active',
           NEW a \in AgentId, NEW what \in Levels, CoveredNext(a, what),
           Exposed(a, what), UNCHANGED mail
    PROVE  ExposureInv'
  <1>1. /\ seen \in [AgentId -> Levels]
        /\ \A b \in AgentId : CoveredBy(b, seen[b])
        /\ \A m \in mail : m.src \in agent_active /\ m.src \in AgentId /\ CoveredBy(m.src, m.carries)
    BY DEF ExposureInv, ExposureTypeOK, LabelsCoverExposure, MailCovered, CoveredBy, Covers
  <1>2. \A b \in AgentId : \A w : CoveredBy(b, w) => CoveredNext(b, w)
    BY CoversOn
  <1>3. Join(seen[a], what) \in Levels /\ CoveredNext(a, Join(seen[a], what))
    <2>1. CoveredNext(a, seen[a]) /\ seen[a] \in Levels
      BY <1>1, <1>2
    <2>2. QED
      BY <2>1 DEF Join, Levels, CoveredBy, CoveredNext, Covers
  <1>4. /\ seen' \in [AgentId -> Levels]
        /\ seen'[a] = Join(seen[a], what)
        /\ \A b \in AgentId \ {a} : seen'[b] = seen[b]
    BY <1>1, <1>3 DEF Exposed
  <1>5. \A b \in AgentId : CoveredNext(b, seen'[b])
    BY <1>1, <1>2, <1>3, <1>4
  <1>6. MailCovered'
    BY <1>1, <1>2 DEF MailCovered, CoveredBy, CoveredNext
  <1>7. LabelsCoverExposure'
    BY <1>5 DEF LabelsCoverExposure, CoveredNext, Covers
  <1>8. QED
    BY <1>4, <1>6, <1>7 DEF ExposureInv, ExposureTypeOK

(* A step that exposes nobody, sends nothing and clears nobody.            *)
LEMMA ExposeNone ==
    ASSUME TypeOK, revocation_clean, [Next]_vars, ExposureInv,
           agent_active \subseteq agent_active', UNCHANGED <<seen, mail>>
    PROVE  ExposureInv'
  <1>1. /\ \A b \in AgentId : CoveredBy(b, seen[b])
        /\ \A m \in mail : m.src \in agent_active /\ m.src \in AgentId /\ CoveredBy(m.src, m.carries)
    BY DEF ExposureInv, ExposureTypeOK, LabelsCoverExposure, MailCovered, CoveredBy, Covers
  <1>2. \A b \in AgentId : \A w : CoveredBy(b, w) => CoveredNext(b, w)
    BY CoversOn
  <1>3. MailCovered'
    BY <1>1, <1>2 DEF MailCovered, CoveredBy, CoveredNext
  <1>4. \A b \in AgentId : CoveredNext(b, seen[b])
    BY <1>1, <1>2
  <1>5. LabelsCoverExposure'
    BY <1>4 DEF LabelsCoverExposure, CoveredNext, Covers
  <1>6. QED
    BY <1>3, <1>5 DEF ExposureInv, ExposureTypeOK

(* A level covers itself, and covering is transitive.                      *)
LEMMA CoverOrder ==
    ASSUME NEW t, NEW i, t \subseteq Nat, i \subseteq Nat, NEW w \in Levels
    PROVE  /\ w.conf \subseteq t /\ w.integ \subseteq i => Covers(t, i, w)
           /\ \A p, q \in Nat :
                Covers(t, i, w) /\ (\A l \in t : l <= p) /\ (\A l \in i : q <= l) =>
                    Covers({p}, {q}, w)
  <1>1. \A l \in w.conf : l \in Nat
    BY DEF Levels, ConfLevel
  <1>2. \A l \in w.integ : l \in Nat
    BY DEF Levels, IntegLevel
  <1>3. \A k, l, m \in Nat : k <= k /\ (k <= l /\ l <= m => k <= m)
    OBVIOUS
  <1>4. QED
    BY <1>1, <1>2, <1>3 DEF Covers

(* Ingest: the levels of the source's data are below the provenance the    *)
(* receiver takes in, if the source's labels cover them.                   *)
LEMMA DeliverCovered ==
    ASSUME TypeOK, NEW a \in AgentId, NEW src \in AgentId, NEW p \in Provenances,
           ingest(a, src, p[1], p[2]), NEW w \in Levels, CoveredBy(src, w)
    PROVE  CoveredNext(a, w)
  <1>1. p[1] \in ConfLevel /\ p[2] \in IntegLevel
    BY InputsAssumption
  <1>2. /\ p[1] \in Nat /\ p[2] \in Nat
        /\ taint_levels[src] \subseteq Nat /\ integ_levels[src] \subseteq Nat
    BY <1>1 DEF TypeOK, ConfLevel, IntegLevel
  <1>3. dominates(p[1], p[2], src)
    BY NoneAssumption DEF ingest
  <1>4. Covers({p[1]}, {p[2]}, w)
    BY <1>2, <1>3, CoverOrder DEF dominates, CoveredBy
  <1>5. p[1] \in taint_levels'[a] /\ p[2] \in integ_levels'[a]
    BY DEF ingest, insert_into, TypeOK
  <1>6. QED
    BY <1>4, <1>5 DEF Covers, CoveredNext

(* A crossing: what the receiver is exposed to is covered by what it takes *)
(* over from the source, or is what the endorsement says it is.            *)
LEMMA AcrossCovered ==
    ASSUME TypeOK, NEW q \in CrossInputs, cross_output(q), branch(q) # "fail",
           NEW w \in Levels, CoveredBy(q.src, w)
    PROVE  LET endorsed == branch(q) = "endorsed"
               what == [conf |-> IF endorsed /\ q.t_conf # None THEN {q.released_conf}
                                 ELSE w.conf,
                        integ |-> IF endorsed THEN {q.released_integ} ELSE w.integ]
           IN  what \in Levels /\ CoveredNext(q.rcv, what)
  <1>1. q \in CrossInput
    BY InputsAssumption
  <1>2. /\ q.src \in AgentId /\ q.rcv \in AgentId
        /\ q.released_conf \in ConfLevel /\ q.released_integ \in IntegLevel
    BY <1>1 DEF CrossInput
  <1>3. /\ taint_levels'[q.rcv] = taint_levels[q.rcv] \cup released_conf(q)
        /\ integ_levels'[q.rcv] = integ_levels[q.rcv] \cup released_integ(q)
    BY <1>2 DEF cross_output, extend_into, TypeOK
  <1>4. /\ q.released_conf \in Nat /\ q.released_integ \in Nat
        /\ \A l \in taint_levels[q.src] : l \in Nat
        /\ \A l \in w.conf : l \in Nat
    BY <1>2 DEF TypeOK, ConfLevel, IntegLevel, Levels
  <1>5. \A k, l, m \in Nat : k <= k /\ (k <= l /\ l <= m => k <= m)
    OBVIOUS
  <1>6. w.conf \in SUBSET ConfLevel /\ w.integ \in SUBSET IntegLevel
    BY DEF Levels
  <1>7. CASE branch(q) = "endorsed"
    <2>1. released_conf(q) = {q.released_conf} /\ released_integ(q) = {q.released_integ}
      BY <1>7 DEF released_conf, released_integ
    <2>2. CASE q.t_conf # None
      BY <1>2, <1>3, <1>4, <1>5, <1>7, <2>1, <2>2 DEF Levels, CoveredNext, Covers
    <2>3. CASE q.t_conf = None
      <3>1. \A l \in taint_levels[q.src] : l <= q.released_conf
        BY <1>7, <2>3 DEF cross_output, endorsed_bounds
      <3>2. \A l \in w.conf : l <= q.released_conf
        BY <1>4, <1>5, <3>1 DEF CoveredBy, Covers
      <3>3. QED
        BY <1>2, <1>3, <1>4, <1>5, <1>6, <1>7, <2>1, <2>3, <3>2 DEF Levels, CoveredNext, Covers
    <2>4. QED
      BY <2>2, <2>3
  <1>8. CASE branch(q) = "unendorsed"
    <2>1. released_conf(q) = taint_levels[q.src] /\ released_integ(q) = integ_levels[q.src]
      BY <1>8 DEF released_conf, released_integ
    <2>2. QED
      BY <1>3, <1>6, <1>8, <2>1 DEF Levels, CoveredBy, CoveredNext, Covers
  <1>9. QED
    BY <1>7, <1>8, BranchValues

(* Clearing an agent forgets what it saw and withdraws its messages.       *)
LEMMA ForgetCovered ==
    ASSUME TypeOK, revocation_clean, [Next]_vars, ExposureInv,
           NEW b \in AgentId, clear_agent(b),
           seen' = [seen EXCEPT ![b] = Nothing], mail' = {m \in mail : m.src # b}
    PROVE  ExposureInv'
  <1>1. /\ seen \in [AgentId -> Levels]
        /\ \A a \in AgentId : CoveredBy(a, seen[a])
        /\ \A m \in mail : m.src \in agent_active /\ m.src \in AgentId /\ CoveredBy(m.src, m.carries)
    BY DEF ExposureInv, ExposureTypeOK, LabelsCoverExposure, MailCovered, CoveredBy, Covers
  <1>2. agent_active' = agent_active \ {b}
    BY DEF clear_agent
  <1>3. \A a \in AgentId \ {b} : \A w : CoveredBy(a, w) => CoveredNext(a, w)
    BY <1>2, CoversOn
  <1>4. Nothing \in Levels /\ CoveredNext(b, Nothing)
    BY DEF Nothing, Levels, CoveredNext, Covers
  <1>5. /\ seen' \in [AgentId -> Levels]
        /\ seen'[b] = Nothing
        /\ \A a \in AgentId \ {b} : seen'[a] = seen[a]
    BY <1>1, <1>4
  <1>6. \A a \in AgentId : CoveredNext(a, seen'[a])
    BY <1>1, <1>3, <1>4, <1>5
  <1>7. LabelsCoverExposure'
    BY <1>6 DEF LabelsCoverExposure, CoveredNext, Covers
  <1>8. MailCovered'
    BY <1>1, <1>2, <1>3 DEF MailCovered, CoveredBy, CoveredNext
  <1>9. QED
    BY <1>5, <1>7, <1>8 DEF ExposureInv, ExposureTypeOK

(* Settling absorbs the invocation's output unless the outcome is open.    *)
LEMMA OutputCovered ==
    ASSUME TypeOK, NEW inv \in InvocationId, NEW outcome \in Outcome,
           NEW att \in Maybe(Resolutions), settle_invocation(inv, outcome, att),
           outcome # "ambiguous"
    PROVE  LET policy == pending[inv].policy
               what == [conf |-> {policy.output_conf}, integ |-> {policy.output_integ}]
           IN  /\ pending[inv].agent \in AgentId
               /\ what \in Levels
               /\ CoveredNext(pending[inv].agent, what)
  <1>1. inv \in DOMAIN pending
    BY DEF settle_invocation, settleable
  <1>2. /\ pending[inv].agent \in AgentId
        /\ pending[inv].policy.output_conf \in ConfLevel
        /\ pending[inv].policy.output_integ \in IntegLevel
    <2>1. pending[inv] \in PendingInvocation
      BY <1>1 DEF TypeOK, IsVecMap
    <2>2. pending[inv].agent \in AgentId /\ pending[inv].policy \in ActionPolicySnapshot
      BY <2>1 DEF PendingInvocation
    <2>3. QED
      BY <2>2 DEF ActionPolicySnapshot
  <1>3. /\ pending[inv].policy.output_conf \in taint_levels'[pending[inv].agent]
        /\ pending[inv].policy.output_integ \in integ_levels'[pending[inv].agent]
    BY <1>2 DEF settle_invocation, absorbs, insert_into, TypeOK
  <1>4. \A n \in Nat : n <= n
    OBVIOUS
  <1>5. QED
    BY <1>2, <1>3, <1>4 DEF Levels, CoveredNext, Covers, ConfLevel, IntegLevel

(* Every step, a delivery at any later time included, keeps the cover of   *)
(* what agents and messages have seen: one case per action.                *)
LEMMA NextExposureInv ==
    ASSUME TypeOK, revocation_clean, ExposureInv, [ExposureNext]_exposureVars
    PROVE  ExposureInv'
  <1>0. [Next]_vars /\ ExposureTypeOK
    BY ExposureStep, LedgerStep DEF ExposureInv
  <1>1. ASSUME NEW a \in AgentId, Send(a)
        PROVE  ExposureInv'
    <2>1. UNCHANGED vars /\ UNCHANGED seen
      BY <1>1 DEF Send, ledgerVars
    <2>2. UNCHANGED <<agent_active, taint_levels, integ_levels>>
      BY <2>1 DEF vars, agentVars, labelVars
    <2>3. mail' = mail \cup {[src |-> a, carries |-> seen[a]]} /\ a \in agent_active
      BY <1>1 DEF Send
    <2>4. seen[a] \in Levels /\ CoveredBy(a, seen[a])
      BY DEF ExposureInv, ExposureTypeOK, LabelsCoverExposure, CoveredBy, Covers
    <2>5. MailCovered'
      BY <2>2, <2>3, <2>4 DEF ExposureInv, MailCovered, CoveredBy
    <2>6. LabelsCoverExposure'
      BY <2>1, <2>2 DEF ExposureInv, LabelsCoverExposure
    <2>7. ExposureTypeOK'
      BY <1>0, <2>1, <2>3, <2>4 DEF ExposureTypeOK
    <2>8. QED
      BY <2>5, <2>6, <2>7 DEF ExposureInv
  <1>2. ASSUME NEW a \in AgentId, NEW p \in Provenances, Observe(a, p[1], p[2])
        PROVE  ExposureInv'
    <2> DEFINE what == [conf |-> {p[1]}, integ |-> {p[2]}]
    <2>1. p[1] \in ConfLevel /\ p[2] \in IntegLevel
      BY InputsAssumption
    <2>2. agent_active \subseteq agent_active'
      BY <1>2 DEF Observe, ingest, agentVars
    <2>3. p[1] \in taint_levels'[a] /\ p[2] \in integ_levels'[a]
      BY <1>2 DEF Observe, ingest, insert_into, TypeOK
    <2>4. \A n \in Nat : n <= n
      OBVIOUS
    <2>5. what \in Levels /\ CoveredNext(a, what)
      BY <2>1, <2>3, <2>4 DEF Levels, CoveredNext, Covers, ConfLevel, IntegLevel
    <2>6. Exposed(a, what) /\ UNCHANGED mail
      BY <1>2 DEF Observe
    <2> HIDE DEF what
    <2>7. QED
      BY <1>0, <2>2, <2>5, <2>6, ExposeOne
  <1>3. ASSUME NEW a \in AgentId, NEW p \in Provenances, NEW m \in mail,
               Deliver(a, m, p[1], p[2])
        PROVE  ExposureInv'
    <2>1. m.src \in AgentId /\ m.carries \in Levels /\ CoveredBy(m.src, m.carries)
      BY DEF ExposureInv, ExposureTypeOK, MailCovered
    <2>2. agent_active \subseteq agent_active'
      BY <1>3 DEF Deliver, ingest, agentVars
    <2>3. CoveredNext(a, m.carries)
      BY <1>3, <2>1, DeliverCovered DEF Deliver
    <2>4. QED
      BY <1>0, <1>3, <2>1, <2>2, <2>3, ExposeOne DEF Deliver
  <1>4. ASSUME NEW inv \in InvocationId, NEW outcome \in Outcome,
               NEW att \in Maybe(Resolutions), Output(inv, outcome, att)
        PROVE  ExposureInv'
    <2>1. settle_invocation(inv, outcome, att) /\ UNCHANGED mail
      BY <1>4 DEF Output, Settled
    <2>2. agent_active \subseteq agent_active'
      BY <2>1 DEF settle_invocation, agentVars
    <2>3. CASE outcome = "ambiguous"
      BY <1>0, <1>4, <2>1, <2>2, <2>3, ExposeNone DEF Output
    <2>4. CASE outcome # "ambiguous"
      <3> DEFINE what == [conf |-> {pending[inv].policy.output_conf},
                          integ |-> {pending[inv].policy.output_integ}]
      <3>1. /\ pending[inv].agent \in AgentId /\ what \in Levels
            /\ CoveredNext(pending[inv].agent, what)
        BY <2>1, <2>4, OutputCovered
      <3>2. Exposed(pending[inv].agent, what)
        BY <1>4, <2>4 DEF Output
      <3> HIDE DEF what
      <3>3. QED
        BY <1>0, <2>1, <2>2, <3>1, <3>2, ExposeOne
    <2>5. QED
      BY <2>3, <2>4
  <1>5. ASSUME NEW q \in CrossInputs, Across(q)
        PROVE  ExposureInv'
    <2> DEFINE what == [conf |-> IF branch(q) = "endorsed" /\ q.t_conf # None
                                 THEN {q.released_conf} ELSE seen[q.src].conf,
                        integ |-> IF branch(q) = "endorsed"
                                  THEN {q.released_integ} ELSE seen[q.src].integ]
    <2>1. cross_output(q) /\ UNCHANGED mail
      BY <1>5 DEF Across, Crossed
    <2>2. q \in CrossInput
      BY InputsAssumption
    <2>3. q.src \in AgentId /\ q.rcv \in AgentId
      BY <2>2 DEF CrossInput
    <2>4. agent_active \subseteq agent_active'
      BY <2>1 DEF cross_output, agentVars
    <2>5. seen[q.src] \in Levels /\ CoveredBy(q.src, seen[q.src])
      BY <2>3 DEF ExposureInv, ExposureTypeOK, LabelsCoverExposure, CoveredBy, Covers
    <2>6. CASE branch(q) = "fail"
      <3>1. Nothing \in Levels /\ CoveredNext(q.rcv, Nothing)
        BY DEF Nothing, Levels, CoveredNext, Covers
      <3>2. Exposed(q.rcv, Nothing)
        BY <1>5, <2>6 DEF Across
      <3>3. QED
        BY <1>0, <2>1, <2>3, <2>4, <3>1, <3>2, ExposeOne
    <2>7. CASE branch(q) # "fail"
      <3>1. what \in Levels /\ CoveredNext(q.rcv, what)
        BY <2>1, <2>5, <2>7, AcrossCovered
      <3>2. Exposed(q.rcv, what)
        BY <1>5, <2>7 DEF Across
      <3> HIDE DEF what
      <3>3. QED
        BY <1>0, <2>1, <2>3, <2>4, <3>1, <3>2, ExposeOne
    <2>8. QED
      BY <2>6, <2>7
  <1>6. ASSUME NEW a \in AgentId, NEW b \in AgentId, Forget(a, b)
        PROVE  ExposureInv'
    <2>1. clear_agent(b)
      BY <1>6 DEF Forget, Cleared, revoke, cascade_revoke
    <2>2. QED
      BY <1>0, <1>6, <2>1, ForgetCovered DEF Forget
  <1>7. CASE Unexposed
    <2>1. agent_active \subseteq agent_active'
      <3>1. ASSUME NEW a \in AgentId, NEW d \in AssignmentDigest, NEW n \in GrantSizes,
                   Provisioned(a, d, n)
            PROVE  agent_active' = agent_active
        BY <3>1 DEF Provisioned, grant_crossing, agentVars
      <3>2. ASSUME NEW inv \in InvocationId, NEW att \in Inspections, Inspected(inv, att)
            PROVE  agent_active' = agent_active
        BY <3>2 DEF Inspected, authorize_inspected, agentVars
      <3>3. CASE Unrecorded
        <4>1. ToolNext => agent_active' = agent_active
          BY DEF ToolNext, register_tool, unregister_tool, agentVars
        <4>2. BeginNext => agent_active' = agent_active
          BY DEF BeginNext, begin_invocation, agentVars
        <4>3. ASSUME NEW x \in AgentId, NEW b \in AgentId,
                     delegate(x, b) \/ \E cap \in CapKind : grant_capability(x, b, cap)
              PROVE  agent_active \subseteq agent_active'
          BY <4>3 DEF delegate, grant_capability
        <4>4. QED
          BY <3>3, <4>1, <4>2, <4>3 DEF Unrecorded
      <3>4. QED
        BY <1>7, <3>1, <3>2, <3>3 DEF Unexposed
    <2>2. QED
      BY <1>0, <1>7, <2>1, ExposeNone DEF Unexposed
  <1>8. CASE UNCHANGED exposureVars
    <2>1. UNCHANGED <<seen, mail>> /\ agent_active' = agent_active
      BY <1>8 DEF exposureVars, ledgerVars, vars, agentVars
    <2>2. QED
      BY <1>0, <2>1, ExposeNone
  <1>9. QED
    BY <1>1, <1>2, <1>3, <1>4, <1>5, <1>6, <1>7, <1>8 DEF ExposureNext

(* The kernel's invariants that the exposure needs hold along with it.     *)
LEMMA ExposureHolds == ExposureSpec => []ExposureInv
  <1> DEFINE Joint == TypeOK /\ revocation_clean /\ ExposureInv
  <1>1. ExposureInit => Joint
    <2>1. Init => revocation_clean
      BY DEF Init, initial, EmptyMap, revocation_clean
    <2>2. ExposureInit => ExposureInv
      BY DEF ExposureInit, ExposureInv, ExposureTypeOK, MailCovered, LabelsCoverExposure,
             Nothing, Levels
    <2>3. QED
      BY InitTypeOK, <2>1, <2>2 DEF ExposureInit, LedgerInit
  <1>2. Joint /\ [ExposureNext]_exposureVars => Joint'
    <2> SUFFICES ASSUME Joint, [ExposureNext]_exposureVars PROVE Joint'
      OBVIOUS
    <2>1. [Next]_vars
      BY ExposureStep, LedgerStep DEF ExposureInv
    <2>2. TypeOK'
      BY <2>1, NextTypeOK
    <2>3. revocation_clean'
      BY <2>1, NextClean
    <2>4. QED
      BY <2>2, <2>3, NextExposureInv
  <1>3. Joint => ExposureInv
    OBVIOUS
  <1>4. QED
    BY <1>1, <1>2, <1>3, PTL DEF ExposureSpec

(* The exposure's behaviours are behaviours of the ledger.                 *)
LEMMA ExposureImplementsLedger == ExposureSpec => LedgerSpec
  <1>1. ExposureInv => ExposureTypeOK
    BY DEF ExposureInv
  <1>2. QED
    BY <1>1, ExposureHolds, ExposureStep, PTL DEF ExposureSpec, ExposureInit, LedgerSpec

---------------------------------------------------------------------------
(* A grant endorses exactly as often as the operator provisioned:          *)
(* grant_crossing restarts the count, an endorsed cross_output takes one   *)
(* use, and clear_agent takes the grant away with the agent.               *)
THEOREM GrantsConserved == LedgerSpec => []GrantConserved
  BY LedgerHolds, PTL DEF LedgerInv

(* The three consumers of evidence (authorize_inspected, the resolution of *)
(* a quarantine and an endorsed cross_output) share one consumed set, so   *)
(* no attestation is accepted twice, also over all incarnations.           *)
THEOREM EvidenceOnce == LedgerSpec => []EvidenceSpentOnce
  <1>1. LedgerInv => EvidenceSpentOnce
    BY DEF LedgerInv, LedgerAccounted, EvidenceSpentOnce
  <1>2. QED
    BY <1>1, LedgerHolds, PTL

(* A crossing id is in the ledger at most once: cross_output consumes it   *)
(* on all three of its branches, and nothing ever gives it back.           *)
THEOREM CrossingOnce == LedgerSpec => []CrossedOnce
  BY LedgerHolds, PTL DEF LedgerInv

(* What a source held when it released stays covered by the labels of the  *)
(* receiver for as long as that receiver lives, unless an endorsement      *)
(* vouched for less.                                                       *)
THEOREM NothingLaundered == LedgerSpec => []NoLaundering
  BY LedgerHolds, PTL DEF LedgerInv

(* Along every chain of ingests, messages, outputs and crossings, of any   *)
(* length and in any order, the labels of each agent cover the data that   *)
(* reached it.                                                             *)
THEOREM ExposureCovered == ExposureSpec => []LabelsCoverExposure
  BY ExposureHolds, PTL DEF ExposureInv

---------------------------------------------------------------------------
(***************************************************************************)
(* That the histories only watch.  A history variable must not add a step  *)
(* and must not take one away.  The first is an implication between        *)
(* specifications; for the second the next-state relations are written     *)
(* once more with the new values of the histories as parameters, so that   *)
(* one can ask, of a step of the kernel and of whatever the histories hold *)
(* at that time, whether there are values with which the step is recorded. *)
(***************************************************************************)

(* LedgerNext, with new values l, u and s of its variables.                *)
LedgerRecords(l, u, s) ==
    \/ \E q \in CrossInputs :
          /\ cross_output(q)
          /\ l = ledger \cup {Release(q)}
          /\ IF branch(q) = "endorsed"
             THEN /\ u = [uses EXCEPT ![GrantKey(q)] = @ + 1]
                  /\ s = [spent EXCEPT ![q.evidence.id] = @ + 1]
             ELSE u = uses /\ s = spent
    \/ \E a \in AgentId, d \in AssignmentDigest, n \in GrantSizes :
          /\ grant_crossing(Root, a, d, n)
          /\ u = [uses EXCEPT ![[agent |-> a, assignment |-> d]] = 0]
          /\ l = ledger /\ s = spent
    \/ \E a, b \in AgentId :
          /\ revoke(a, b) \/ cascade_revoke(b, a)
          /\ l = {IF x.rcv = b THEN [x EXCEPT !.live = FALSE] ELSE x : x \in ledger}
          /\ u = [g \in CrossingKey |-> IF g.agent = b THEN 0 ELSE uses[g]]
          /\ s = spent
    \/ \E inv \in InvocationId, att \in Inspections :
          /\ authorize_inspected(inv, att)
          /\ s = [spent EXCEPT ![att.id] = @ + 1]
          /\ l = ledger /\ u = uses
    \/ \E inv \in InvocationId, outcome \in Outcome, att \in Maybe(Resolutions) :
          /\ settle_invocation(inv, outcome, att)
          /\ s = [t \in AttestationId |->
                    IF att # None /\ att.id = t THEN spent[t] + 1 ELSE spent[t]]
          /\ l = ledger /\ u = uses
    \/ /\ \/ IngestNext
          \/ ToolNext
          \/ \E a, b \in AgentId :
               delegate(a, b) \/ \E cap \in CapKind : grant_capability(a, b, cap)
          \/ BeginNext
       /\ l = ledger /\ u = uses /\ s = spent

LedgerRecorded == \E l, u, s : LedgerRecords(l, u, s)

(* The parameters are the new values and nothing else.                     *)
LEMMA LedgerNextRecords == LedgerNext <=> LedgerRecords(ledger', uses', spent')
  BY DEF LedgerNext, LedgerRecords, Crossed, Provisioned, Cleared, Inspected, Settled,
         Unrecorded, history

(* Whatever the ledger holds, the kernel takes the same steps with it as   *)
(* without it: each accepted command has one way of being recorded.        *)
LEMMA NextRecorded == Next <=> LedgerRecorded
  <1>1. ASSUME NEW q \in CrossInputs, cross_output(q)
        PROVE  LedgerRecorded
    <2>1. CASE branch(q) = "endorsed"
      BY <1>1, <2>1 DEF LedgerRecorded, LedgerRecords
    <2>2. CASE branch(q) # "endorsed"
      BY <1>1, <2>2 DEF LedgerRecorded, LedgerRecords
    <2>3. QED
      BY <2>1, <2>2
  <1>2. ASSUME NEW a \in AgentId, NEW b \in AgentId, NEW d \in AssignmentDigest,
               NEW n \in GrantSizes, grant_crossing(a, b, d, n)
        PROVE  LedgerRecorded
    <2>1. grant_crossing(Root, b, d, n)
      BY <1>2 DEF grant_crossing
    <2>2. QED
      BY <2>1 DEF LedgerRecorded, LedgerRecords
  <1>3. ASSUME NEW a \in AgentId, NEW b \in AgentId, revoke(a, b) \/ cascade_revoke(b, a)
        PROVE  LedgerRecorded
    <2> DEFINE l == {IF x.rcv = b THEN [x EXCEPT !.live = FALSE] ELSE x : x \in ledger}
               u == [g \in CrossingKey |-> IF g.agent = b THEN 0 ELSE uses[g]]
    <2>1. LedgerRecords(l, u, spent)
      BY <1>3, Zenon DEF LedgerRecords
    <2>2. QED
      BY <2>1 DEF LedgerRecorded
  <1>4. ASSUME NEW inv \in InvocationId, NEW att \in Inspections, authorize_inspected(inv, att)
        PROVE  LedgerRecorded
    BY <1>4 DEF LedgerRecorded, LedgerRecords
  <1>5. ASSUME NEW inv \in InvocationId, NEW outcome \in Outcome,
               NEW att \in Maybe(Resolutions), settle_invocation(inv, outcome, att)
        PROVE  LedgerRecorded
    <2> DEFINE after == [t \in AttestationId |->
                           IF att # None /\ att.id = t THEN spent[t] + 1 ELSE spent[t]]
    <2>1. LedgerRecords(ledger, uses, after)
      BY <1>5, Zenon DEF LedgerRecords
    <2>2. QED
      BY <2>1 DEF LedgerRecorded
  <1>6. ASSUME \/ IngestNext \/ ToolNext \/ BeginNext
               \/ \E a, b \in AgentId :
                    delegate(a, b) \/ \E cap \in CapKind : grant_capability(a, b, cap)
        PROVE  LedgerRecorded
    BY <1>6 DEF LedgerRecorded, LedgerRecords
  <1>7. TreeNext => LedgerRecorded
    BY <1>2, <1>3, <1>6 DEF TreeNext
  <1>8. Next => LedgerRecorded
    BY <1>1, <1>4, <1>5, <1>6, <1>7 DEF Next, CrossNext, InspectNext, SettleNext
  <1>9. ASSUME NEW l, NEW u, NEW s, LedgerRecords(l, u, s)
        PROVE  Next
    <2>1. \/ CrossNext \/ InspectNext \/ SettleNext \/ IngestNext \/ ToolNext \/ BeginNext
          \/ \E a \in AgentId, d \in AssignmentDigest, n \in GrantSizes :
               grant_crossing(Root, a, d, n)
          \/ \E a, b \in AgentId : revoke(a, b) \/ cascade_revoke(b, a)
          \/ \E a, b \in AgentId :
               delegate(a, b) \/ \E cap \in CapKind : grant_capability(a, b, cap)
      BY <1>9, Zenon DEF LedgerRecords, CrossNext, InspectNext, SettleNext
    <2>2. QED
      BY <2>1, RootAssumption DEF Next, TreeNext
  <1>10. QED
    BY <1>8, <1>9 DEF LedgerRecorded

(* ExposureNext, with new values v and w of seen and mail.                 *)
ExposureRecords(v, w) ==
    LET grown(a, what) == [seen EXCEPT ![a] = Join(@, what)]
    IN
    \/ \E a \in AgentId :
         LET message == [src |-> a, carries |-> seen[a]]
         IN  /\ a \in agent_active
             /\ Cardinality(mail \union {message}) <= MaxMail
             /\ w = mail \union {message}
             /\ UNCHANGED ledgerVars
             /\ v = seen
    \/ \E a \in AgentId, p \in Provenances :
         /\ \/ /\ ingest(a, None, p[1], p[2])
               /\ v = grown(a, [conf |-> {p[1]}, integ |-> {p[2]}])
            \/ \E m \in mail :
               /\ ingest(a, m.src, p[1], p[2])
               /\ v = grown(a, m.carries)
         /\ UNCHANGED history
         /\ w = mail
    \/ \E inv \in InvocationId, outcome \in Outcome, att \in Maybe(Resolutions) :
         LET policy == pending[inv].policy
             what == [conf |-> {policy.output_conf}, integ |-> {policy.output_integ}]
         IN  /\ Settled(inv, outcome, att)
             /\ v = IF outcome = "ambiguous" THEN seen ELSE grown(pending[inv].agent, what)
             /\ w = mail
    \/ \E q \in CrossInputs :
         LET endorsed == branch(q) = "endorsed"
             what == [conf |-> IF endorsed /\ q.t_conf # None THEN {q.released_conf}
                               ELSE seen[q.src].conf,
                      integ |-> IF endorsed THEN {q.released_integ} ELSE seen[q.src].integ]
         IN  /\ Crossed(q)
             /\ v = grown(q.rcv, IF branch(q) = "fail" THEN Nothing ELSE what)
             /\ w = mail
    \/ \E a, b \in AgentId :
         /\ Cleared(a, b)
         /\ v = [seen EXCEPT ![b] = Nothing]
         /\ w = {m \in mail : m.src # b}
    \/ /\ \/ \E a \in AgentId, d \in AssignmentDigest, n \in GrantSizes : Provisioned(a, d, n)
          \/ \E inv \in InvocationId, att \in Inspections : Inspected(inv, att)
          \/ Unrecorded
       /\ v = seen /\ w = mail

ExposureRecorded == \E v, w : ExposureRecords(v, w)

(* A command that claims a delivery the host cannot have made: it ingests  *)
(* from an agent of which no message is under way.                         *)
IngestOfNothingSent ==
    \E a \in AgentId, src \in AgentId, p \in Provenances :
        /\ ingest(a, src, p[1], p[2])
        /\ \A m \in mail : m.src # src

(* The parameters are the new values and nothing else.                     *)
LEMMA ExposureNextRecords == ExposureNext <=> ExposureRecords(seen', mail')
  BY DEF ExposureNext, ExposureRecords, Send, Observe, Deliver, Output, Across, Forget,
         Unexposed, Exposed

(* Whatever the exposure holds, the one thing it takes away is an ingest   *)
(* of a message that was never sent or was withdrawn.                      *)
LEMMA LedgerNextRecorded == LedgerNext => ExposureRecorded \/ IngestOfNothingSent
  <1>1. ASSUME NEW q \in CrossInputs, Crossed(q)
        PROVE  ExposureRecorded
    BY <1>1 DEF ExposureRecorded, ExposureRecords
  <1>2. ASSUME NEW a \in AgentId, NEW b \in AgentId, Cleared(a, b)
        PROVE  ExposureRecorded
    <2>1. ExposureRecords([seen EXCEPT ![b] = Nothing], {m \in mail : m.src # b})
      BY <1>2, Zenon DEF ExposureRecords
    <2>2. QED
      BY <2>1 DEF ExposureRecorded
  <1>3. ASSUME NEW inv \in InvocationId, NEW outcome \in Outcome,
               NEW att \in Maybe(Resolutions), Settled(inv, outcome, att)
        PROVE  ExposureRecorded
    <2> DEFINE policy == pending[inv].policy
               what == [conf |-> {policy.output_conf}, integ |-> {policy.output_integ}]
               after == IF outcome = "ambiguous" THEN seen
                        ELSE [seen EXCEPT ![pending[inv].agent] = Join(@, what)]
    <2>1. ExposureRecords(after, mail)
      BY <1>3, Zenon DEF ExposureRecords
    <2>2. QED
      BY <2>1 DEF ExposureRecorded
  <1>4. ASSUME \/ \E a \in AgentId, d \in AssignmentDigest, n \in GrantSizes :
                       Provisioned(a, d, n)
               \/ \E inv \in InvocationId, att \in Inspections : Inspected(inv, att)
               \/ Unrecorded
        PROVE  ExposureRecorded
    BY <1>4 DEF ExposureRecorded, ExposureRecords
  <1>5. ASSUME NEW a \in AgentId, NEW src \in Maybe(AgentId), NEW p \in Provenances,
               ingest(a, src, p[1], p[2]), UNCHANGED history
        PROVE  ExposureRecorded \/ IngestOfNothingSent
    <2>1. CASE src = None
      <3> DEFINE after == [seen EXCEPT ![a] = Join(@, [conf |-> {p[1]}, integ |-> {p[2]}])]
      <3>1. ExposureRecords(after, mail)
        BY <1>5, <2>1, Zenon DEF ExposureRecords
      <3>2. QED
        BY <3>1 DEF ExposureRecorded
    <2>2. CASE \E m \in mail : m.src = src
      <3>1. PICK m \in mail : m.src = src
        BY <2>2
      <3>2. ExposureRecords([seen EXCEPT ![a] = Join(@, m.carries)], mail)
        BY <1>5, <3>1, Zenon DEF ExposureRecords
      <3>3. QED
        BY <3>2 DEF ExposureRecorded
    <2>3. CASE src \in AgentId /\ \A m \in mail : m.src # src
      BY <1>5, <2>3 DEF IngestOfNothingSent
    <2>4. QED
      BY <2>1, <2>2, <2>3 DEF Maybe
  <1>6. QED
    BY <1>1, <1>2, <1>3, <1>4, <1>5 DEF LedgerNext, IngestNext

(* The ledger only watches.  Its specification is that of the parametrised *)
(* relation; and that relation, with the new values hidden, specifies the  *)
(* kernel: in every state of the ledger exactly the kernel's steps are     *)
(* possible, so it adds no behaviour and takes none away.                  *)
THEOREM LedgerOnlyWatches ==
    /\ LedgerSpec <=> LedgerInit /\ [][LedgerRecords(ledger', uses', spent')]_ledgerVars
    /\ Spec <=> Init /\ [][LedgerRecorded]_vars
  BY LedgerNextRecords, NextRecorded, PTL DEF LedgerSpec, Spec

(* The exposure history adds no behaviour, so what holds of the kernel and *)
(* of the ledger holds with it; and every step of the ledger is recorded   *)
(* by it, but for ingests that name a source of which no message is under  *)
(* way, the host's duty of the module.                                     *)
THEOREM ExposureLeavesOutTheUnsent ==
    /\ ExposureSpec => LedgerSpec /\ Spec
    /\ ExposureSpec <=> ExposureInit /\ [][ExposureRecords(seen', mail')]_exposureVars
    /\ LedgerSpec => [][ExposureRecorded \/ IngestOfNothingSent]_ledgerVars
  BY ExposureImplementsLedger, LedgerImplementsKernel, ExposureNextRecords,
     LedgerNextRecorded, PTL DEF ExposureSpec, LedgerSpec

---------------------------------------------------------------------------
(***************************************************************************)
(* The proof that the envelopes tell the state.                            *)
(*                                                                         *)
(* What the auditor should know is a view of the kernel state, field by    *)
(* field.  The lemmas say that each thing the auditor does to a field is   *)
(* what the kernel's helper does to the map behind it; the proof of a step *)
(* puts them together.                                                     *)
(***************************************************************************)

Known(held, running, open, gone, left) ==
    [held |-> held, running |-> running, open |-> open, spent |-> gone, left |-> left]

HeldView(taint, integ) == [a \in AgentId |-> [conf |-> taint[a], integ |-> integ[a]]]

RecordView(j) ==
    [agent |-> j.agent, disposition |-> j.disposition, quarantined |-> j.quarantined]

RunningView(m) == [i \in DOMAIN m |-> RecordView(m[i])]

OpenView(m) == [i \in DOMAIN m |-> m[i].agent]

LeftView(m) == [g \in DOMAIN m |-> m[g].remaining]

(* The property, by field.                                                 *)
LEMMA Views ==
    EnvelopesTellTheState <=>
        audit = Known(HeldView(taint_levels, integ_levels), RunningView(pending),
                      OpenView(challenges), consumed_attestations, LeftView(crossing_grants))
  BY DEF EnvelopesTellTheState, Known, HeldView, RunningView, RecordView, OpenView, LeftView

---------------------------------------------------------------------------
(* What the auditor's operations do to each field.                         *)

(* Learning that an agent holds more changes that agent's labels only.     *)
LEMMA HoldsKnown ==
    ASSUME NEW h, NEW r, NEW o, NEW s, NEW l, NEW a, NEW c, NEW i
    PROVE  Holds(Known(h, r, o, s, l), a, c, i) =
             Known([h EXCEPT ![a] = [conf |-> @.conf \cup c, integ |-> @.integ \cup i]],
                   r, o, s, l)
  BY DEF Holds, Known

(* Reading and replacing the running records the auditor knows.            *)
LEMMA RunningKnown ==
    ASSUME NEW h, NEW r, NEW o, NEW s, NEW l, NEW x
    PROVE  /\ Known(h, r, o, s, l).running = r
           /\ [Known(h, r, o, s, l) EXCEPT !.running = x] = Known(h, x, o, s, l)
  BY DEF Known

(* Reading and replacing the open challenges the auditor knows.            *)
LEMMA OpenKnown ==
    ASSUME NEW h, NEW r, NEW o, NEW s, NEW l, NEW x
    PROVE  /\ Known(h, r, o, s, l).open = o
           /\ [Known(h, r, o, s, l) EXCEPT !.open = x] = Known(h, r, x, s, l)
  BY DEF Known

(* An action that spends evidence adds to what the auditor knows as        *)
(* spent.                                                                  *)
LEMMA SpendsKnown ==
    ASSUME NEW h, NEW r, NEW o, NEW s, NEW l, NEW ids
    PROVE  Spends(Known(h, r, o, s, l), ids) = Known(h, r, o, s \cup ids, l)
  BY DEF Spends, Known

(* Reading and replacing what the auditor knows to be left on the grants.  *)
LEMMA LeftKnown ==
    ASSUME NEW h, NEW r, NEW o, NEW s, NEW l, NEW x
    PROVE  /\ Known(h, r, o, s, l).left = l
           /\ [Known(h, r, o, s, l) EXCEPT !.left = x] = Known(h, r, o, s, x)
  BY DEF Known

(* The records of an agent, demoted, as the auditor sees them.             *)
DemotedView(r, a) ==
    [i \in DOMAIN r |->
        IF r[i].agent = a THEN [r[i] EXCEPT !.disposition = "monitor_bypassed"] ELSE r[i]]

(* An action whose disposition is not permitted demotes every record of    *)
(* the agent it names.                                                     *)
LEMMA DemotesKnown ==
    ASSUME NEW h, NEW r, NEW o, NEW s, NEW l, NEW a, NEW d, d # "permitted"
    PROVE  Demotes(Known(h, r, o, s, l), a, d) = Known(h, DemotedView(r, a), o, s, l)
  BY DEF Demotes, Known, DemotedView

---------------------------------------------------------------------------
(* The views of what the kernel's helpers return.                          *)

(* The auditor's view of labels that were extended.                        *)
LEMMA HeldViews ==
    ASSUME TypeOK, NEW a \in AgentId, NEW C, NEW I
    PROVE  /\ [HeldView(taint_levels, integ_levels) EXCEPT
                 ![a] = [conf |-> @.conf \cup C, integ |-> @.integ \cup I]] =
                HeldView(extend_into(taint_levels, a, C), extend_into(integ_levels, a, I))
           /\ [HeldView(taint_levels, integ_levels) EXCEPT ![a] = NothingHeld] =
                HeldView(remove_key(taint_levels, a), remove_key(integ_levels, a))
  BY DEF HeldView, extend_into, remove_key, NothingHeld, TypeOK

(* Demoting or quarantining a record does to its view what it does to the  *)
(* record.                                                                 *)
LEMMA RecordViews ==
    ASSUME NEW j \in PendingInvocation
    PROVE  /\ RecordView(j).agent = j.agent
           /\ RecordView([j EXCEPT !.disposition = "monitor_bypassed"]) =
                [RecordView(j) EXCEPT !.disposition = "monitor_bypassed"]
           /\ \A v : RecordView([j EXCEPT !.quarantined = v]) =
                [RecordView(j) EXCEPT !.quarantined = v]
  <1>1. /\ j = [j EXCEPT !.agent = @]
        /\ DOMAIN j = {"agent", "policy", "egress", "admission", "disposition",
                       "authorized", "quarantined"}
    BY DEF PendingInvocation
  <1>2. RecordView(j).agent = j.agent
    BY DEF RecordView
  <1>3. RecordView([j EXCEPT !.disposition = "monitor_bypassed"]) =
                [RecordView(j) EXCEPT !.disposition = "monitor_bypassed"]
    BY <1>1 DEF RecordView
  <1>4. ASSUME NEW v
        PROVE  RecordView([j EXCEPT !.quarantined = v]) =
                [RecordView(j) EXCEPT !.quarantined = v]
    BY <1>1 DEF RecordView
  <1>5. QED
    BY <1>2, <1>3, <1>4

(* The map operations and demote_all_of on the pending records, as the     *)
(* auditor sees them.                                                      *)
LEMMA RunningViews ==
    ASSUME NEW m, IsVecMap(m, InvocationId, PendingInvocation)
    PROVE  /\ \A a : RunningView(demote_all_of(m, a)) = DemotedView(RunningView(m), a)
           /\ \A i : RunningView(remove(m, i)) = remove(RunningView(m), i)
           /\ \A i, j : RunningView(insert(m, i, j)) = insert(RunningView(m), i, RecordView(j))
           /\ \A i \in DOMAIN m : \A v :
                RunningView(insert(m, i, [m[i] EXCEPT !.quarantined = v])) =
                    [RunningView(m) EXCEPT ![i].quarantined = v]
           /\ \A S : S \subseteq DOMAIN m =>
                RunningView(Restrict(m, S)) = Restrict(RunningView(m), S)
  <1>1. \A i \in DOMAIN m : m[i] \in PendingInvocation
    BY DEF IsVecMap
  <1>2. DOMAIN RunningView(m) = DOMAIN m /\ \A i \in DOMAIN m : RunningView(m)[i] = RecordView(m[i])
    BY DEF RunningView
  <1>3. ASSUME NEW a
        PROVE  RunningView(demote_all_of(m, a)) = DemotedView(RunningView(m), a)
    BY <1>1, <1>2, RecordViews DEF RunningView, DemotedView, demote_all_of
  <1>4. ASSUME NEW i
        PROVE  RunningView(remove(m, i)) = remove(RunningView(m), i)
    BY <1>2 DEF remove, Restrict, RunningView
  <1>5. ASSUME NEW i, NEW j
        PROVE  RunningView(insert(m, i, j)) = insert(RunningView(m), i, RecordView(j))
    BY <1>2 DEF insert, RunningView
  <1>6. ASSUME NEW i \in DOMAIN m, NEW v
        PROVE  RunningView(insert(m, i, [m[i] EXCEPT !.quarantined = v])) =
                    [RunningView(m) EXCEPT ![i].quarantined = v]
    <2> DEFINE j == [m[i] EXCEPT !.quarantined = v]
               R == RunningView(m)
    <2>1. RecordView(j) = [R[i] EXCEPT !.quarantined = v]
      <3>1. RecordView(j) = [RecordView(m[i]) EXCEPT !.quarantined = v]
        BY <1>1, RecordViews
      <3>2. R[i] = RecordView(m[i])
        BY <1>2
      <3>3. QED
        BY <3>1, <3>2
    <2>2. RunningView(insert(m, i, j)) = insert(R, i, RecordView(j))
      BY <1>5
    <2>3. \A w : insert(R, i, w) = [R EXCEPT ![i] = w]
      BY <1>2 DEF insert, RunningView
    <2> HIDE DEF R
    <2>4. [R EXCEPT ![i] = RecordView(j)] = [R EXCEPT ![i].quarantined = v]
      BY <2>1
    <2>5. QED
      BY <2>2, <2>3, <2>4 DEF R
  <1>7. ASSUME NEW S, S \subseteq DOMAIN m
        PROVE  RunningView(Restrict(m, S)) = Restrict(RunningView(m), S)
    BY <1>2, <1>7 DEF Restrict, RunningView
  <1>8. QED
    BY <1>3, <1>4, <1>5, <1>6, <1>7

(* Issuing and closing a challenge, as the auditor sees it.                *)
LEMMA OpenViews ==
    /\ \A m, i, c : OpenView(insert(m, i, c)) = insert(OpenView(m), i, c.agent)
    /\ \A m, i : OpenView(remove(m, i)) = remove(OpenView(m), i)
  BY DEF OpenView, insert, remove, Restrict

(* Provisioning a grant, and taking one use from it, as the auditor sees   *)
(* it.                                                                     *)
LEMMA LeftViews ==
    /\ \A m, g, n : LeftView(insert(m, g, [remaining |-> n, provisioned |-> n])) =
                        insert(LeftView(m), g, n)
    /\ \A a, d : TypeOK /\ [agent |-> a, assignment |-> d] \in DOMAIN crossing_grants =>
            LeftView(decrement_grant_at(a, d)) =
                [LeftView(crossing_grants) EXCEPT ![[agent |-> a, assignment |-> d]] = @ - 1]
  <1>1. \A m, g, n : LeftView(insert(m, g, [remaining |-> n, provisioned |-> n])) =
                        insert(LeftView(m), g, n)
    BY DEF LeftView, insert
  <1>2. ASSUME NEW a, NEW d, TypeOK, [agent |-> a, assignment |-> d] \in DOMAIN crossing_grants
        PROVE  LeftView(decrement_grant_at(a, d)) =
                [LeftView(crossing_grants) EXCEPT ![[agent |-> a, assignment |-> d]] = @ - 1]
    <2> DEFINE key == [agent |-> a, assignment |-> d]
    <2>1. \A g \in DOMAIN crossing_grants : crossing_grants[g] \in CrossingGrant
      BY <1>2 DEF TypeOK, IsVecMap
    <2>2. \A x \in CrossingGrant : [x EXCEPT !.remaining = @ - 1].remaining = x.remaining - 1
      BY DEF CrossingGrant
    <2>3. key \in DOMAIN crossing_grants
      BY <1>2
    <2> HIDE DEF key
    <2>4. LeftView([g \in DOMAIN crossing_grants |->
                      IF g = key THEN [crossing_grants[g] EXCEPT !.remaining = @ - 1]
                      ELSE crossing_grants[g]]) =
            [LeftView(crossing_grants) EXCEPT ![key] = @ - 1]
      BY <2>1, <2>2, <2>3 DEF LeftView
    <2>5. QED
      BY <2>4 DEF key, decrement_grant_at
  <1>3. QED
    BY <1>1, <1>2

(* Revoking or re-creating an agent: the auditor forgets what the kernel   *)
(* drops.                                                                  *)
LEMMA ForgetsViews ==
    ASSUME TypeOK, NEW a \in AgentId
    PROVE  Forgets(Known(HeldView(taint_levels, integ_levels), RunningView(pending),
                         OpenView(challenges), consumed_attestations,
                         LeftView(crossing_grants)), a) =
           Known(HeldView(remove_key(taint_levels, a), remove_key(integ_levels, a)),
                 RunningView(drop_pending_of(a)), OpenView(drop_challenges_of(a)),
                 consumed_attestations, LeftView(drop_grants_of(a)))
  <1> DEFINE H == HeldView(taint_levels, integ_levels)
             R == RunningView(pending)
             O == OpenView(challenges)
             L == LeftView(crossing_grants)
  <1>1. [H EXCEPT ![a] = NothingHeld] =
            HeldView(remove_key(taint_levels, a), remove_key(integ_levels, a))
    BY HeldViews
  <1>2. Restrict(R, {i \in DOMAIN R : R[i].agent # a}) = RunningView(drop_pending_of(a))
    <2>1. DOMAIN R = DOMAIN pending /\ \A i \in DOMAIN pending : R[i].agent = pending[i].agent
      BY DEF RunningView, RecordView
    <2>2. {i \in DOMAIN R : R[i].agent # a} = DOMAIN pending \ PendingOf(a)
      BY <2>1 DEF PendingOf
    <2>3. RunningView(Restrict(pending, DOMAIN pending \ PendingOf(a))) =
            Restrict(R, DOMAIN pending \ PendingOf(a))
      BY RunningViews DEF TypeOK
    <2>4. QED
      BY <2>2, <2>3 DEF drop_pending_of
  <1>3. Restrict(O, {i \in DOMAIN O : O[i] # a}) = OpenView(drop_challenges_of(a))
    BY DEF OpenView, drop_challenges_of, Restrict
  <1>4. Restrict(L, {g \in DOMAIN L : g.agent # a}) = LeftView(drop_grants_of(a))
    BY DEF LeftView, drop_grants_of, Restrict
  <1> HIDE DEF H, R, O, L
  <1>5. Forgets(Known(H, R, O, consumed_attestations, L), a) =
          Known([H EXCEPT ![a] = NothingHeld], Restrict(R, {i \in DOMAIN R : R[i].agent # a}),
                Restrict(O, {i \in DOMAIN O : O[i] # a}), consumed_attestations,
                Restrict(L, {g \in DOMAIN L : g.agent # a}))
    BY DEF Forgets, Known
  <1>6. QED
    BY <1>1, <1>2, <1>3, <1>4, <1>5 DEF H, R, O, L

(* Demotion after a disposition the transition reports: ingest and         *)
(* cross_output.                                                           *)
LEMMA DemotesViews ==
    ASSUME TypeOK, NEW h, NEW o, NEW s, NEW l, NEW a, NEW d,
           \/ d = "permitted" /\ pending' = pending
           \/ d = "monitor_bypassed" /\ pending' = demote_all_of(pending, a)
    PROVE  Demotes(Known(h, RunningView(pending), o, s, l), a, d) =
                Known(h, RunningView(pending'), o, s, l)
  <1>1. IsVecMap(pending, InvocationId, PendingInvocation)
    BY DEF TypeOK
  <1>2. RunningView(demote_all_of(pending, a)) = DemotedView(RunningView(pending), a)
    BY <1>1, RunningViews
  <1>3. CASE d = "permitted"
    BY <1>3 DEF Demotes
  <1>4. CASE d = "monitor_bypassed"
    BY <1>2, <1>4, DemotesKnown
  <1>5. QED
    BY <1>3, <1>4

---------------------------------------------------------------------------
(* What the auditor knows when it is up to date.                           *)
Truth == Known(HeldView(taint_levels, integ_levels), RunningView(pending),
               OpenView(challenges), consumed_attestations, LeftView(crossing_grants))

(* The levels an agent is said to take in are the ones it takes in.        *)
LEMMA HoldsViews ==
    ASSUME TypeOK, NEW a \in AgentId, NEW C, NEW I, NEW r, NEW o, NEW s, NEW l
    PROVE  Holds(Known(HeldView(taint_levels, integ_levels), r, o, s, l), a, C, I) =
             Known(HeldView(extend_into(taint_levels, a, C), extend_into(integ_levels, a, I)),
                   r, o, s, l)
  <1> DEFINE h == HeldView(taint_levels, integ_levels)
             k == HeldView(extend_into(taint_levels, a, C), extend_into(integ_levels, a, I))
  <1>1. [h EXCEPT ![a] = [conf |-> @.conf \cup C, integ |-> @.integ \cup I]] = k
    BY HeldViews
  <1> HIDE DEF h, k
  <1>2. Holds(Known(h, r, o, s, l), a, C, I) =
          Known([h EXCEPT ![a] = [conf |-> @.conf \cup C, integ |-> @.integ \cup I]],
                r, o, s, l)
    BY HoldsKnown
  <1>3. Holds(Known(h, r, o, s, l), a, C, I) = Known(k, r, o, s, l)
    BY <1>1, <1>2, Zenon
  <1>4. QED
    BY <1>3 DEF h, k

(* An ingest action tells the labels taken in and whether the agent's      *)
(* records were demoted.                                                   *)
LEMMA AuditIngest ==
    ASSUME TypeOK, audit = Truth, NEW a \in AgentId, NEW src, NEW pc, NEW pi,
           ingest(a, src, pc, pi), audit' = ReadIngest(audit, ingest_action(a, src, pc, pi))
    PROVE  audit' = Truth'
  <1> DEFINE d == hold_disposition(ingest_holds(a, pc, pi))
  <1>1. audit' = Holds(Demotes(Truth, a, d), a, {pc}, {pi})
    BY DEF ReadIngest, ingest_action
  <1>2. \/ d = "permitted" /\ pending' = pending
        \/ d = "monitor_bypassed" /\ pending' = demote_all_of(pending, a)
    BY DEF ingest
  <1>3. /\ taint_levels' = extend_into(taint_levels, a, {pc})
        /\ integ_levels' = extend_into(integ_levels, a, {pi})
        /\ UNCHANGED <<challenges, consumed_attestations, crossing_grants>>
    BY DEF ingest, insert_into, extend_into, consumedVars
  <1> HIDE DEF d
  <1>4. Demotes(Truth, a, d) =
          Known(HeldView(taint_levels, integ_levels), RunningView(pending'),
                OpenView(challenges), consumed_attestations, LeftView(crossing_grants))
    BY <1>2, DemotesViews DEF Truth
  <1>5. QED
    BY <1>1, <1>3, <1>4, HoldsViews DEF Truth

(* The action of begin_invocation tells whether a record or a challenge    *)
(* was opened, and with which disposition.                                 *)
LEMMA AuditBegin ==
    ASSUME TypeOK, audit = Truth, NEW a, NEW inv, NEW chal, NEW snap, NEW egr, NEW ah,
           NEW authorized, begin_invocation(a, inv, chal, snap, egr, ah, authorized),
           audit' = ReadBegin(audit, begin_action(a, inv, snap, egr, authorized))
    PROVE  audit' = Truth'
  <1> DEFINE v == verdict(a, snap, egr, authorized)
  <1>1. UNCHANGED <<taint_levels, integ_levels, consumed_attestations, crossing_grants>>
    BY DEF begin_invocation, labelVars
  <1>2. IsVecMap(pending, InvocationId, PendingInvocation)
    BY DEF TypeOK
  <1>3. ASSUME NEW d, NEW admission,
               pending' = insert(pending, inv,
                            NewPending(a, snap, egr, admission, d, authorized)),
               UNCHANGED challenges, audit' = Starts(audit, inv, a, d)
        PROVE  audit' = Truth'
    <2> DEFINE j == NewPending(a, snap, egr, admission, d, authorized)
    <2>1. RecordView(j) = [agent |-> a, disposition |-> d, quarantined |-> FALSE]
      BY DEF RecordView, NewPending
    <2>2. RunningView(pending') = insert(RunningView(pending), inv, RecordView(j))
      BY <1>2, <1>3, RunningViews
    <2>3. audit' = Starts(Truth, inv, a, d)
      BY <1>3
    <2> HIDE DEF j
    <2>4. Starts(Truth, inv, a, d) =
            Known(HeldView(taint_levels, integ_levels),
                  insert(RunningView(pending), inv, RecordView(j)),
                  OpenView(challenges), consumed_attestations, LeftView(crossing_grants))
      <3>1. Starts(Truth, inv, a, d) = [Truth EXCEPT !.running = insert(@, inv, RecordView(j))]
        BY <2>1, Zenon DEF Starts
      <3>2. QED
        BY <3>1, RunningKnown DEF Truth
    <2>5. QED
      BY <1>1, <1>3, <2>2, <2>3, <2>4 DEF Truth
  <1>4. /\ v = "allow" => audit' = Starts(audit, inv, a, "permitted")
        /\ v # "allow" /\ Mode = "monitor" => audit' = Starts(audit, inv, a, "monitor_bypassed")
        /\ v # "allow" /\ Mode # "monitor" =>
              audit' = [audit EXCEPT !.open = insert(@, inv, a)]
    BY DEF ReadBegin, begin_action
  <1>5. CASE v = "allow" /\ pending' = insert(pending, inv,
                NewPending(a, snap, egr, [kind |-> "plain"], "permitted", authorized))
             /\ UNCHANGED challenges
    BY <1>3, <1>4, <1>5
  <1>6. CASE v = "inspection_required" /\ Mode = "enforce" /\ UNCHANGED pending
             /\ challenges' = insert(challenges, inv,
                  [challenge |-> chal, agent |-> a, policy |-> snap, egress |-> egr,
                   args_hash |-> ah, authorized |-> authorized])
    <2>1. OpenView(challenges') = insert(OpenView(challenges), inv, a)
      BY <1>6, OpenViews
    <2>2. audit' = [Truth EXCEPT !.open = insert(@, inv, a)]
      BY <1>4, <1>6
    <2>3. QED
      BY <1>1, <1>6, <2>1, <2>2 DEF Truth, Known
  <1>7. CASE v # "allow" /\ Mode = "monitor" /\ pending' = insert(pending, inv,
                NewPending(a, snap, egr, [kind |-> "bypassed"], "monitor_bypassed", authorized))
             /\ UNCHANGED challenges
    BY <1>3, <1>4, <1>7
  <1>8. QED
    BY <1>5, <1>6, <1>7 DEF begin_invocation

(* The action of authorize_inspected tells what became of the challenge,   *)
(* and that its evidence is spent.                                         *)
LEMMA AuditAuthorize ==
    ASSUME TypeOK, audit = Truth, NEW inv, NEW att, authorize_inspected(inv, att),
           audit' = ReadAuthorize(audit, authorize_action(inv, att))
    PROVE  audit' = Truth'
  <1> DEFINE sc == challenges[inv]
             answered == Known(HeldView(taint_levels, integ_levels), RunningView(pending),
                               OpenView(challenges'), consumed_attestations',
                               LeftView(crossing_grants))
  <1>1. /\ UNCHANGED <<taint_levels, integ_levels, crossing_grants>>
        /\ challenges' = remove(challenges, inv)
        /\ consumed_attestations' = consumed_attestations \cup {att.id}
        /\ inv \in DOMAIN challenges
    BY DEF authorize_inspected, labelVars
  <1>2. OpenView(challenges') = remove(OpenView(challenges), inv)
    BY <1>1, OpenViews
  <1>3. Spends([audit EXCEPT !.open = remove(@, inv)], {att.id}) = answered
    <2>1. [Truth EXCEPT !.open = remove(@, inv)] =
            Known(HeldView(taint_levels, integ_levels), RunningView(pending),
                  OpenView(challenges'), consumed_attestations, LeftView(crossing_grants))
      BY <1>2, OpenKnown DEF Truth
    <2>2. QED
      BY <1>1, <2>1, SpendsKnown
  <1>4. audit.open[inv] = sc.agent
    BY <1>1 DEF Truth, Known, OpenView
  <1>5. IsVecMap(pending, InvocationId, PendingInvocation)
    BY DEF TypeOK
  <1>6. CASE att.positive /\ authorize_admits(inv, challenges[inv])
    <2> DEFINE j == NewPending(sc.agent, sc.policy, sc.egress,
                        [kind |-> "inspected", att |-> att.id], "permitted", sc.authorized)
    <2>1. pending' = insert(pending, inv, j)
      BY <1>6 DEF authorize_inspected
    <2>2. RecordView(j) = [agent |-> sc.agent, disposition |-> "permitted", quarantined |-> FALSE]
      BY DEF RecordView, NewPending
    <2>3. RunningView(pending') = insert(RunningView(pending), inv, RecordView(j))
      BY <1>5, <2>1, RunningViews
    <2>4. audit' = Starts(answered, inv, sc.agent, "permitted")
      BY <1>3, <1>4, <1>6 DEF ReadAuthorize, authorize_action
    <2> HIDE DEF j
    <2>5. Starts(answered, inv, sc.agent, "permitted") =
            Known(HeldView(taint_levels, integ_levels),
                  insert(RunningView(pending), inv, RecordView(j)),
                  OpenView(challenges'), consumed_attestations', LeftView(crossing_grants))
      <3>1. Starts(answered, inv, sc.agent, "permitted") =
                [answered EXCEPT !.running = insert(@, inv, RecordView(j))]
        BY <2>2, Zenon DEF Starts
      <3>2. QED
        BY <3>1, RunningKnown
    <2>6. QED
      BY <1>1, <2>3, <2>4, <2>5 DEF Truth
  <1>7. CASE ~(att.positive /\ authorize_admits(inv, challenges[inv]))
    <2>1. pending' = pending
      BY <1>7 DEF authorize_inspected
    <2>2. audit' = answered
      BY <1>3, <1>7 DEF ReadAuthorize, authorize_action
    <2>3. QED
      BY <1>1, <2>1, <2>2 DEF Truth
  <1>8. QED
    BY <1>6, <1>7

(* The action of settle_invocation tells the labels produced, whether the  *)
(* record was closed or quarantined, and the demotions.                    *)
LEMMA AuditSettle ==
    ASSUME TypeOK, audit = Truth, NEW inv \in InvocationId, NEW outcome \in Outcome,
           NEW att \in Maybe(Resolutions), settle_invocation(inv, outcome, att),
           audit' = ReadSettle(audit, settle_action(inv, outcome, att))
    PROVE  audit' = Truth'
  <1> DEFINE j == pending[inv]
             m == settled(inv, outcome)
             res == IF att = None THEN None ELSE att.id
             closed == Demotes(Closes(Truth, inv, outcome), j.agent, j.disposition)
             told == Spends(closed, {res} \ {None})
  <1>1. inv \in DOMAIN pending
    BY DEF settle_invocation, settleable
  <1>2. /\ j \in PendingInvocation
        /\ IsVecMap(pending, InvocationId, PendingInvocation)
        /\ IsVecMap(m, InvocationId, PendingInvocation)
    BY <1>1, SettledRecords DEF TypeOK
  <1>3. j.agent \in AgentId
    BY <1>2 DEF PendingInvocation
  <1>4. audit' = IF outcome = "ambiguous" THEN told
                 ELSE Holds(told, j.agent, {j.policy.output_conf}, {j.policy.output_integ})
    BY DEF ReadSettle, settle_action
  <1>5. /\ UNCHANGED <<challenges, crossing_grants>>
        /\ consumed_attestations' = consumed_attestations \cup (IF att = None THEN {} ELSE {att.id})
        /\ outcome = "ambiguous" => UNCHANGED <<taint_levels, integ_levels>>
        /\ outcome # "ambiguous" =>
              /\ taint_levels' = extend_into(taint_levels, j.agent, {j.policy.output_conf})
              /\ integ_levels' = extend_into(integ_levels, j.agent, {j.policy.output_integ})
    BY DEF settle_invocation, absorbs, labelVars, insert_into, extend_into
  <1>6. /\ j.disposition = "permitted" => pending' = m
        /\ j.disposition # "permitted" => pending' = demote_all_of(m, j.agent)
    BY DEF settle_invocation, contained
  <1>7. Closes(Truth, inv, outcome) =
          Known(HeldView(taint_levels, integ_levels), RunningView(m), OpenView(challenges),
                consumed_attestations, LeftView(crossing_grants))
    <2>0. /\ Truth.running = RunningView(pending)
          /\ \A x : [Truth EXCEPT !.running = x] =
                Known(HeldView(taint_levels, integ_levels), x, OpenView(challenges),
                      consumed_attestations, LeftView(crossing_grants))
      BY RunningKnown DEF Truth
    <2>1. CASE outcome = "ambiguous"
      <3>1. m = insert(pending, inv, [pending[inv] EXCEPT !.quarantined = TRUE])
        BY <2>1 DEF settled
      <3>2. \A i \in DOMAIN pending : \A v :
                RunningView(insert(pending, i, [pending[i] EXCEPT !.quarantined = v])) =
                    [RunningView(pending) EXCEPT ![i].quarantined = v]
        BY <1>2, RunningViews
      <3>3. RunningView(insert(pending, inv, [pending[inv] EXCEPT !.quarantined = TRUE])) =
                    [RunningView(pending) EXCEPT ![inv].quarantined = TRUE]
        BY <1>1, <3>2, Zenon
      <3>4. Closes(Truth, inv, outcome) =
              [Truth EXCEPT !.running = [@ EXCEPT ![inv].quarantined = TRUE]]
        BY <2>1, Zenon DEF Closes
      <3>5. QED
        BY <2>0, <3>1, <3>3, <3>4, Zenon
    <2>2. CASE outcome # "ambiguous"
      <3>1. m = remove(pending, inv)
        BY <2>2 DEF settled
      <3>2. RunningView(m) = remove(RunningView(pending), inv)
        BY <1>2, <3>1, RunningViews
      <3>3. Closes(Truth, inv, outcome) = [Truth EXCEPT !.running = remove(@, inv)]
        BY <2>2, Zenon DEF Closes
      <3>4. QED
        BY <2>0, <3>2, <3>3, Zenon
    <2>3. QED
      BY <2>1, <2>2
  <1> HIDE DEF j, m, res, told
  <1>8. closed = Known(HeldView(taint_levels, integ_levels), RunningView(pending'),
                       OpenView(challenges), consumed_attestations, LeftView(crossing_grants))
    <2>1. CASE j.disposition = "permitted"
      BY <1>6, <1>7, <2>1 DEF Demotes
    <2>2. CASE j.disposition # "permitted"
      <3>1. RunningView(pending') = DemotedView(RunningView(m), j.agent)
        BY <1>2, <1>6, <2>2, RunningViews
      <3>2. QED
        BY <1>7, <2>2, <3>1, DemotesKnown
    <2>3. QED
      BY <2>1, <2>2
  <1> HIDE DEF closed
  <1>9. {res} \ {None} = IF att = None THEN {} ELSE {att.id}
    <2>1. att # None => att.id # None
      BY InputsAssumption, NoneAssumption DEF Maybe, ResolutionAttestation
    <2>2. QED
      BY <2>1 DEF res
  <1>10. told = Known(HeldView(taint_levels, integ_levels), RunningView(pending'),
                      OpenView(challenges), consumed_attestations', LeftView(crossing_grants))
    BY <1>5, <1>8, <1>9, SpendsKnown DEF told
  <1>11. CASE outcome = "ambiguous"
    BY <1>4, <1>5, <1>10, <1>11 DEF Truth
  <1>12. CASE outcome # "ambiguous"
    BY <1>3, <1>4, <1>5, <1>10, <1>12, HoldsViews DEF Truth
  <1>13. QED
    BY <1>11, <1>12

(* The action of cross_output, read with its command, tells the labels     *)
(* released, the use of the grant and the demotions.                       *)
LEMMA AuditCross ==
    ASSUME TypeOK, audit = Truth, NEW q \in CrossInputs, cross_output(q),
           audit' = ReadCross(audit, q, cross_action(q))
    PROVE  audit' = Truth'
  <1> DEFINE d == hold_disposition(cross_holds(q))
             key == [agent |-> q.rcv, assignment |-> q.assignment]
             demoted == Known(HeldView(taint_levels, integ_levels), RunningView(pending'),
                              OpenView(challenges), consumed_attestations,
                              LeftView(crossing_grants))
             after == Known(HeldView(taint_levels, integ_levels), RunningView(pending'),
                            OpenView(challenges), consumed_attestations',
                            LeftView(crossing_grants'))
  <1>1. q \in CrossInput
    BY InputsAssumption
  <1>2. q.src \in AgentId /\ q.rcv \in AgentId
    BY <1>1 DEF CrossInput
  <1>3. \/ d = "permitted" /\ pending' = pending
        \/ d = "monitor_bypassed" /\ pending' = demote_all_of(pending, q.rcv)
    BY DEF cross_output
  <1>4. Demotes(Truth, q.rcv, d) = demoted
    <2> HIDE DEF d
    <2>1. QED
      BY <1>3, DemotesViews DEF Truth
  <1>5. /\ taint_levels' = extend_into(taint_levels, q.rcv, released_conf(q))
        /\ integ_levels' = extend_into(integ_levels, q.rcv, released_integ(q))
        /\ challenges' = challenges
    BY DEF cross_output
  <1>6. Holds(after, q.rcv, released_conf(q), released_integ(q)) = Truth'
    BY <1>2, <1>5, HoldsViews DEF Truth
  <1>7. Truth.held[q.src] = [conf |-> taint_levels[q.src], integ |-> integ_levels[q.src]]
    BY <1>2 DEF Truth, Known, HeldView
  <1>8. CASE branch(q) = "endorsed"
    <2>1. /\ consumed_attestations' = consumed_attestations \cup {q.evidence.id}
          /\ crossing_grants' = decrement_grant_at(q.rcv, q.assignment)
      BY <1>8 DEF cross_output
    <2>2. key \in DOMAIN crossing_grants
      BY <1>8 DEF branch, endorsed_ok
    <2>3. LeftView(crossing_grants') = [LeftView(crossing_grants) EXCEPT ![key] = @ - 1]
      BY <2>1, <2>2, LeftViews
    <2>4. Spends([demoted EXCEPT !.left[key] = @ - 1], {q.evidence.id}) = after
      <3> HIDE DEF key
      <3>1. [demoted EXCEPT !.left[key] = @ - 1] =
              Known(HeldView(taint_levels, integ_levels), RunningView(pending'),
                    OpenView(challenges), consumed_attestations, LeftView(crossing_grants'))
        <4>1. [demoted EXCEPT !.left[key] = @ - 1] =
                [demoted EXCEPT !.left = [demoted.left EXCEPT ![key] = @ - 1]]
          OBVIOUS
        <4>2. demoted.left = LeftView(crossing_grants)
          BY LeftKnown
        <4>3. [demoted EXCEPT !.left = LeftView(crossing_grants')] =
                Known(HeldView(taint_levels, integ_levels), RunningView(pending'),
                      OpenView(challenges), consumed_attestations, LeftView(crossing_grants'))
          BY LeftKnown
        <4> HIDE DEF demoted
        <4>4. [demoted.left EXCEPT ![key] = @ - 1] = LeftView(crossing_grants')
          BY <2>3, <4>2
        <4>5. QED
          BY <4>1, <4>3, <4>4, Zenon
      <3>2. QED
        BY <2>1, <3>1, SpendsKnown
    <2>5. released_conf(q) = {q.released_conf} /\ released_integ(q) = {q.released_integ}
      BY <1>8 DEF released_conf, released_integ
    <2>6. audit' = Holds(Spends([demoted EXCEPT !.left[key] = @ - 1], {q.evidence.id}),
                         q.rcv, {q.released_conf}, {q.released_integ})
      <3> HIDE DEF demoted
      <3>1. QED
        BY <1>4, <1>8 DEF ReadCross, cross_action
    <2>7. QED
      BY <1>6, <2>4, <2>5, <2>6, Zenon
  <1>9. CASE branch(q) # "endorsed"
    <2>1. after = demoted
      BY <1>9 DEF cross_output
    <2>2. CASE branch(q) = "unendorsed"
      <3>1. released_conf(q) = taint_levels[q.src] /\ released_integ(q) = integ_levels[q.src]
        BY <2>2 DEF released_conf, released_integ
      <3>2. audit' = Holds(demoted, q.rcv, Truth.held[q.src].conf, Truth.held[q.src].integ)
        <4> HIDE DEF demoted
        <4>1. QED
          BY <1>4, <2>2 DEF ReadCross, cross_action
      <3>3. QED
        BY <1>6, <1>7, <2>1, <3>1, <3>2
    <2>3. CASE branch(q) # "unendorsed"
      <3>1. released_conf(q) = {} /\ released_integ(q) = {}
        BY <1>9, <2>3 DEF released_conf, released_integ
      <3>2. audit' = demoted
        <4> HIDE DEF demoted
        <4>1. QED
          BY <1>4, <1>9, <2>3 DEF ReadCross, cross_action
      <3>3. taint_levels' = taint_levels /\ integ_levels' = integ_levels
        BY <1>2, <1>5, <3>1 DEF extend_into, TypeOK
      <3>4. QED
        BY <1>5, <2>1, <3>2, <3>3 DEF Truth
    <2>4. QED
      BY <2>2, <2>3
  <1>10. QED
    BY <1>8, <1>9

(* A step of the audited kernel is a step of the kernel.                   *)
LEMMA AuditStep == [AuditNext]_<<vars, audit>> => [Next]_vars
  <1> SUFFICES ASSUME [AuditNext]_<<vars, audit>> PROVE [Next]_vars
    OBVIOUS
  <1>1. AuditStructural => TreeNext
    BY DEF AuditStructural, TreeNext
  <1>2. ASSUME NEW a \in AgentId, NEW src \in Maybe(AgentId), NEW p \in Provenances,
               ingest(a, src, p[1], p[2])
        PROVE  IngestNext
    BY <1>2 DEF IngestNext
  <1>3. ASSUME NEW a \in AgentId, NEW inv \in InvocationId, NEW chal \in ChallengeId,
               NEW snap \in Snapshots, NEW egr \in SUBSET EgressKind, NEW ah \in ContentHash,
               NEW authorized \in BOOLEAN,
               begin_invocation(a, inv, chal, snap, egr, ah, authorized)
        PROVE  BeginNext
    BY <1>3 DEF BeginNext
  <1>4. ASSUME NEW inv \in InvocationId, NEW att \in Inspections, authorize_inspected(inv, att)
        PROVE  InspectNext
    BY <1>4 DEF InspectNext
  <1>5. ASSUME NEW inv \in InvocationId, NEW outcome \in Outcome,
               NEW att \in Maybe(Resolutions), settle_invocation(inv, outcome, att)
        PROVE  SettleNext
    BY <1>5 DEF SettleNext
  <1>6. ASSUME NEW q \in CrossInputs, cross_output(q)
        PROVE  CrossNext
    BY <1>6 DEF CrossNext
  <1>7. QED
    BY <1>1, <1>2, <1>3, <1>4, <1>5, <1>6 DEF AuditNext, Next

(* An agent that is taken out, or whose id is delegated anew, is           *)
(* forgotten by the kernel and the auditor alike.                          *)
LEMMA AuditForgets ==
    ASSUME TypeOK, audit = Truth, NEW b \in AgentId, audit' = Forgets(audit, b),
           taint_levels' = remove_key(taint_levels, b),
           integ_levels' = remove_key(integ_levels, b),
           pending' = drop_pending_of(b), challenges' = drop_challenges_of(b),
           crossing_grants' = drop_grants_of(b), UNCHANGED consumed_attestations
    PROVE  audit' = Truth'
  BY ForgetsViews DEF Truth

(* Every step keeps the auditor's knowledge and the kernel's state in      *)
(* agreement: one case per command.                                        *)
LEMMA NextAudit ==
    ASSUME TypeOK, audit = Truth, [AuditNext]_<<vars, audit>>
    PROVE  audit' = Truth'
  <1>1. CASE ToolNext /\ UNCHANGED audit
    BY <1>1 DEF ToolNext, register_tool, unregister_tool, labelVars, consumedVars, Truth
  <1>2. ASSUME NEW a \in AgentId, NEW b \in AgentId,
               \/ delegate(a, b) /\ audit' = Forgets(audit, b)
               \/ revoke(a, b) /\ audit' = Forgets(audit, b)
               \/ cascade_revoke(b, a) /\ audit' = Forgets(audit, b)
        PROVE  audit' = Truth'
    BY <1>2, AuditForgets DEF delegate, revoke, cascade_revoke, clear_agent, consumedVars
  <1>3. ASSUME NEW a \in AgentId, NEW b \in AgentId, NEW cap \in CapKind,
               grant_capability(a, b, cap), UNCHANGED audit
        PROVE  audit' = Truth'
    BY <1>3 DEF grant_capability, labelVars, consumedVars, Truth
  <1>4. ASSUME NEW a \in AgentId, NEW b \in AgentId, NEW d \in AssignmentDigest,
               NEW n \in GrantSizes, grant_crossing(a, b, d, n),
               audit' = [audit EXCEPT !.left = insert(@, [agent |-> b, assignment |-> d], n)]
        PROVE  audit' = Truth'
    <2> DEFINE key == [agent |-> b, assignment |-> d]
    <2>1. LeftView(crossing_grants') = insert(LeftView(crossing_grants), key, n)
      BY <1>4, LeftViews DEF grant_crossing
    <2>2. /\ Truth.left = LeftView(crossing_grants)
          /\ [Truth EXCEPT !.left = LeftView(crossing_grants')] =
                Known(HeldView(taint_levels, integ_levels), RunningView(pending),
                      OpenView(challenges), consumed_attestations, LeftView(crossing_grants'))
      BY LeftKnown DEF Truth
    <2>3. audit' = [Truth EXCEPT !.left = LeftView(crossing_grants')]
      BY <1>4, <2>1, <2>2, Zenon
    <2>4. UNCHANGED <<taint_levels, integ_levels, pending, challenges, consumed_attestations>>
      BY <1>4 DEF grant_crossing, labelVars, consumedVars
    <2>5. QED
      BY <2>2, <2>3, <2>4 DEF Truth
  <1>5. AuditStructural => audit' = Truth'
    BY <1>2, <1>3, <1>4 DEF AuditStructural
  <1>6. CASE UNCHANGED <<vars, audit>>
    BY <1>6 DEF vars, labelVars, consumedVars, Truth
  <1>7. QED
    BY <1>1, <1>5, <1>6, AuditIngest, AuditBegin, AuditAuthorize, AuditSettle, AuditCross
       DEF AuditNext

(* Whatever the policies, the provenances and the order of the commands:   *)
(* an auditor who reads the envelopes alone knows the labels, the records, *)
(* the open challenges, the spent evidence and the grants left, because    *)
(* each action reports the verdict, branch or disposition its transition   *)
(* acted on.                                                               *)
THEOREM AuditorKnows == AuditSpec => []EnvelopesTellTheState
  <1>1. AuditInit => TypeOK /\ audit = Truth
    <2>1. AuditInit => TypeOK
      BY InitTypeOK DEF AuditInit
    <2>2. ASSUME AuditInit
          PROVE  audit = Truth
      BY <2>2 DEF AuditInit, Init, initial, Truth, Known, HeldView, RunningView, OpenView,
                  LeftView, NothingHeld, EmptyMap
    <2>3. QED
      BY <2>1, <2>2
  <1>2. TypeOK /\ audit = Truth /\ [AuditNext]_<<vars, audit>> => (TypeOK /\ audit = Truth)'
    BY AuditStep, NextTypeOK, NextAudit
  <1>3. audit = Truth => EnvelopesTellTheState
    BY Views DEF Truth
  <1>4. QED
    BY <1>1, <1>2, <1>3, PTL DEF AuditSpec
===========================================================================
