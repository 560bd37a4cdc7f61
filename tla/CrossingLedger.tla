--------------------------- MODULE CrossingLedger ---------------------------
(***************************************************************************)
(* The kernel with history variables about boundary crossings and one-use  *)
(* evidence: what a run of commands has released, endorsed and spent,      *)
(* which the kernel's own state only summarises.  The history variables    *)
(* never restrict a step.                                                  *)
(***************************************************************************)
EXTENDS KernelSafety

VARIABLES ledger,   \* the releases made so far
          uses,     \* endorsed crossings per grant since it was provisioned
          spent     \* accepted commands that relied on each attestation

history == <<ledger, uses, spent>>

ledgerVars == <<vars, history>>

GrantKey(q) == [agent |-> q.rcv, assignment |-> q.assignment]

(* A release records the worst-case labels of its source, whether its id   *)
(* had released before, so that a second release is never the record of    *)
(* the first, and whether the receiver it went to is still the same        *)
(* incarnation.                                                            *)
Release(q) ==
    [crossing |-> q.crossing,
     rcv      |-> q.rcv,
     branch   |-> branch(q),
     target   |-> q.t_conf,
     released |-> q.released_conf,
     conf     |-> speculative_taint(q.src),
     integ    |-> speculative_integ(q.src),
     repeated |-> \E x \in ledger : x.crossing = q.crossing,
     live     |-> TRUE]

LedgerInit ==
    /\ Init
    /\ ledger = {}
    /\ uses = [g \in CrossingKey |-> 0]
    /\ spent = [t \in AttestationId |-> 0]

Crossed(q) ==
    /\ cross_output(q)
    /\ ledger' = ledger \cup {Release(q)}
    /\ IF branch(q) = "endorsed"
       THEN /\ uses' = [uses EXCEPT ![GrantKey(q)] = @ + 1]
            /\ spent' = [spent EXCEPT ![q.evidence.id] = @ + 1]
       ELSE UNCHANGED <<uses, spent>>

Provisioned(agent, d, n) ==
    /\ grant_crossing(Root, agent, d, n)
    /\ uses' = [uses EXCEPT ![[agent |-> agent, assignment |-> d]] = 0]
    /\ UNCHANGED <<ledger, spent>>

Cleared(a, b) ==
    /\ revoke(a, b) \/ cascade_revoke(b, a)
    /\ ledger' = {IF x.rcv = b THEN [x EXCEPT !.live = FALSE] ELSE x : x \in ledger}
    /\ uses' = [g \in CrossingKey |-> IF g.agent = b THEN 0 ELSE uses[g]]
    /\ UNCHANGED spent

Inspected(inv, att) ==
    /\ authorize_inspected(inv, att)
    /\ spent' = [spent EXCEPT ![att.id] = @ + 1]
    /\ UNCHANGED <<ledger, uses>>

Settled(inv, outcome, att) ==
    /\ settle_invocation(inv, outcome, att)
    /\ spent' = [t \in AttestationId |->
                    IF att # None /\ att.id = t THEN spent[t] + 1 ELSE spent[t]]
    /\ UNCHANGED <<ledger, uses>>

Unrecorded ==
    /\ \/ ToolNext
       \/ \E a, b \in AgentId :
            delegate(a, b) \/ \E cap \in CapKind : grant_capability(a, b, cap)
       \/ BeginNext
    /\ UNCHANGED history

LedgerNext ==
    \/ \E q \in CrossInputs : Crossed(q)
    \/ \E a \in AgentId, d \in AssignmentDigest, n \in GrantSizes : Provisioned(a, d, n)
    \/ \E a, b \in AgentId : Cleared(a, b)
    \/ \E inv \in InvocationId, att \in Inspections : Inspected(inv, att)
    \/ \E inv \in InvocationId, outcome \in Outcome, att \in Maybe(Resolutions) :
            Settled(inv, outcome, att)
    \/ IngestNext /\ UNCHANGED history
    \/ Unrecorded

LedgerSpec == LedgerInit /\ [][LedgerNext]_ledgerVars

---------------------------------------------------------------------------
(* A grant endorses exactly as often as the operator provisioned: what is  *)
(* left and what was used add up, across refills, revocations and the      *)
(* rebirth of the holder under the same id.                                *)
GrantConserved ==
    \A g \in DOMAIN crossing_grants :
        crossing_grants[g].remaining + uses[g] = crossing_grants[g].provisioned

(* One piece of evidence is accepted at most once, whether as inspection,  *)
(* as quarantine resolution or as conformance evidence, and by whichever   *)
(* invocation, crossing or agent incarnation.                              *)
EvidenceSpentOnce == \A t \in AttestationId : spent[t] <= 1

(* A crossing id releases at most once, ever.                              *)
CrossedOnce ==
    \A x, y \in ledger : x.crossing = y.crossing => x = y

(* Nothing is laundered by crossing: as long as the receiver lives, its    *)
(* labels cover everything the source held or could still have come to     *)
(* hold when it released, except where an endorsed declassification gave   *)
(* up confidentiality or an endorsement raised integrity.                  *)
NoLaundering ==
    \A x \in {y \in ledger : y.live} :
        /\ x.branch = "unendorsed" \/ (x.branch = "endorsed" /\ x.target = None) =>
                \A l \in x.conf : \E m \in taint_levels[x.rcv] : l <= m
        /\ x.branch = "unendorsed" =>
                \A l \in x.integ : \E m \in integ_levels[x.rcv] : m <= l

(* The comment on CrossInput.t_conf calls it the "most-public target       *)
(* confidentiality": an endorsed declassification releases nothing more    *)
(* public than the target its assignment names.                            *)
TargetIsMostPublic ==
    \A x \in ledger :
        x.branch = "endorsed" /\ x.target # None =>
            x.target <= x.released
===========================================================================
