------------------------------ MODULE Exposure ------------------------------
(***************************************************************************)
(* The crossing ledger, and what each agent has been exposed to: the       *)
(* levels of the data that reached it, by ingest, from its invocations, in *)
(* messages of other agents and across boundaries.  The kernel never sees  *)
(* data; its labels have to stand for this.                                *)
(*                                                                         *)
(* A message carries what its sender was exposed to when it was sent.  It  *)
(* may be delivered late, more than once, to several agents and in any     *)
(* order, each time as an ingest that names the sender as its source.      *)
(*                                                                         *)
(* Two things are taken from the host, because ingest checks the source's  *)
(* held labels as they are at delivery: the output of an invocation        *)
(* reaches its agent when it is settled, not while it is pending, and a    *)
(* message is not delivered once its sender was revoked.  So an ingest     *)
(* that names a source of which no message is under way, which the kernel  *)
(* would accept, is left out here; nothing else is.                        *)
(***************************************************************************)
EXTENDS CrossingLedger, FiniteSets

CONSTANT MaxMail    \* bound on the messages under way

VARIABLES seen,     \* agent -> the levels it was exposed to in this life
          mail      \* messages of agents that live, sent and not withdrawn

exposureVars == <<ledgerVars, seen, mail>>

Nothing == [conf |-> {}, integ |-> {}]

Join(x, y) == [conf |-> x.conf \union y.conf, integ |-> x.integ \union y.integ]

Exposed(a, what) == seen' = [seen EXCEPT ![a] = Join(@, what)]

ExposureInit ==
    /\ LedgerInit
    /\ seen = [a \in AgentId |-> Nothing]
    /\ mail = {}

(* An agent hands a message to the host.                                   *)
Send(a) ==
    LET message == [src |-> a, carries |-> seen[a]]
    IN  /\ a \in agent_active
        /\ Cardinality(mail \union {message}) <= MaxMail
        /\ mail' = mail \union {message}
        /\ UNCHANGED <<ledgerVars, seen>>

(* Data from outside the system of agents.                                 *)
Observe(a, pconf, pinteg) ==
    /\ ingest(a, None, pconf, pinteg)
    /\ Exposed(a, [conf |-> {pconf}, integ |-> {pinteg}])
    /\ UNCHANGED <<history, mail>>

(* A message, with the provenance the host declares for it.                *)
Deliver(a, m, pconf, pinteg) ==
    /\ ingest(a, m.src, pconf, pinteg)
    /\ Exposed(a, m.carries)
    /\ UNCHANGED <<history, mail>>

(* The output of an invocation; a failed one may have returned it too.     *)
Output(inv, outcome, att) ==
    LET policy == pending[inv].policy
        what == [conf |-> {policy.output_conf}, integ |-> {policy.output_integ}]
    IN  /\ Settled(inv, outcome, att)
        /\ IF outcome = "ambiguous"
           THEN UNCHANGED seen
           ELSE Exposed(pending[inv].agent, what)
        /\ UNCHANGED mail

(* Output across a boundary: everything its source was exposed to, but for *)
(* what an endorsement vouches for.                                        *)
Across(q) ==
    LET endorsed == branch(q) = "endorsed"
        what == [conf |-> IF endorsed /\ q.t_conf # None THEN {q.released_conf}
                          ELSE seen[q.src].conf,
                 integ |-> IF endorsed THEN {q.released_integ} ELSE seen[q.src].integ]
    IN  /\ Crossed(q)
        /\ Exposed(q.rcv, IF branch(q) = "fail" THEN Nothing ELSE what)
        /\ UNCHANGED mail

Forget(a, b) ==
    /\ Cleared(a, b)
    /\ seen' = [seen EXCEPT ![b] = Nothing]
    /\ mail' = {m \in mail : m.src # b}

Unexposed ==
    /\ \/ \E a \in AgentId, d \in AssignmentDigest, n \in GrantSizes : Provisioned(a, d, n)
       \/ \E inv \in InvocationId, att \in Inspections : Inspected(inv, att)
       \/ Unrecorded
    /\ UNCHANGED <<seen, mail>>

ExposureNext ==
    \/ \E a \in AgentId :
          \/ Send(a)
          \/ \E p \in Provenances :
                \/ Observe(a, p[1], p[2])
                \/ \E m \in mail : Deliver(a, m, p[1], p[2])
    \/ \E inv \in InvocationId, outcome \in Outcome, att \in Maybe(Resolutions) :
          Output(inv, outcome, att)
    \/ \E q \in CrossInputs : Across(q)
    \/ \E a, b \in AgentId : Forget(a, b)
    \/ Unexposed

ExposureSpec == ExposureInit /\ [][ExposureNext]_exposureVars

---------------------------------------------------------------------------
(* Data never loses its labels on its way through the agents: whatever     *)
(* reached an agent, directly or through any number of messages and        *)
(* crossings, delivered whenever, some held label of the agent is at least *)
(* as secret and some at most as trustworthy.  Only an endorsed crossing   *)
(* takes a level away.                                                     *)
LabelsCoverExposure ==
    \A a \in AgentId :
        /\ \A l \in seen[a].conf : \E m \in taint_levels[a] : l <= m
        /\ \A l \in seen[a].integ : \E m \in integ_levels[a] : m <= l
===========================================================================
