-------------------------------- MODULE Audit --------------------------------
(***************************************************************************)
(* The action every accepted command reports (argus-kernel: event.rs and   *)
(* the last lines of each transition), and an auditor who is sent the      *)
(* envelopes, command and action, and nothing else.  The auditor evaluates *)
(* no gate and knows no policy: what became of a command it must learn     *)
(* from the action.                                                        *)
(*                                                                         *)
(* The action of a structural command repeats the command.  The other five *)
(* report what the transition decided, in the state it found.              *)
(***************************************************************************)
EXTENDS KernelSafety

VARIABLE audit      \* what the auditor knows

----------------------------------------------------------------------------
(* The actions.                                                            *)

(* Faulty variant: a bypassed ingest is reported like any other.           *)
ingest_action_permitted(a, src, pconf, pinteg) ==
    [op |-> "ingest", agent |-> a, src |-> src, pconf |-> pconf, pinteg |-> pinteg,
     disposition |-> "permitted"]

ingest_action(a, src, pconf, pinteg) ==
    [op |-> "ingest", agent |-> a, src |-> src, pconf |-> pconf, pinteg |-> pinteg,
     disposition |-> hold_disposition(ingest_holds(a, pconf, pinteg))]

begin_action(a, inv, snap, egr, authorized) ==
    [op |-> "begin_invocation", agent |-> a, inv |-> inv, tool |-> snap.tool,
     verdict |-> verdict(a, snap, egr, authorized), authorized |-> authorized]

(* Faulty variant: the inspector's answer is reported as the admission.    *)
authorize_action_positive(inv, att) ==
    [op |-> "authorize_inspected", inv |-> inv, attestation |-> att.id,
     admitted |-> att.positive]

authorize_action(inv, att) ==
    [op |-> "authorize_inspected", inv |-> inv, attestation |-> att.id,
     admitted |-> att.positive /\ authorize_admits(inv, challenges[inv])]

settle_action(inv, outcome, att) ==
    LET j == pending[inv]
    IN  [op |-> "settle_invocation", inv |-> inv, agent |-> j.agent,
         disposition |-> j.disposition, outcome |-> outcome,
         clvl |-> j.policy.output_conf, ilvl |-> j.policy.output_integ,
         resolution |-> IF att = None THEN None ELSE att.id]

cross_action(q) ==
    [op |-> "cross_output", src |-> q.src, rcv |-> q.rcv, crossing |-> q.crossing,
     branch |-> branch(q), disposition |-> hold_disposition(cross_holds(q))]

----------------------------------------------------------------------------
(* The auditor.  held: agent -> the levels it holds; running and open:     *)
(* invocation -> what is known of its record or challenge; spent: the      *)
(* attestations used up; left: crossing key -> uses left.                  *)

NothingHeld == [conf |-> {}, integ |-> {}]

Holds(known, a, conf, integ) ==
    [known EXCEPT !.held[a] = [conf |-> @.conf \cup conf, integ |-> @.integ \cup integ]]

Spends(known, ids) == [known EXCEPT !.spent = @ \cup ids]

(* A bypass takes the claims of everything the agent has running.          *)
Demotes(known, a, disposition) ==
    IF disposition = "permitted" THEN known
    ELSE [known EXCEPT !.running = [i \in DOMAIN @ |->
            IF @[i].agent = a THEN [@[i] EXCEPT !.disposition = "monitor_bypassed"] ELSE @[i]]]

Starts(known, inv, a, disposition) ==
    [known EXCEPT !.running = insert(@, inv,
        [agent |-> a, disposition |-> disposition, quarantined |-> FALSE])]

Forgets(known, a) ==
    [held    |-> [known.held EXCEPT ![a] = NothingHeld],
     running |-> Restrict(known.running,
                    {i \in DOMAIN known.running : known.running[i].agent # a}),
     open    |-> Restrict(known.open, {i \in DOMAIN known.open : known.open[i] # a}),
     spent   |-> known.spent,
     left    |-> Restrict(known.left, {g \in DOMAIN known.left : g.agent # a})]

Closes(known, inv, outcome) ==
    [known EXCEPT !.running = IF outcome = "ambiguous"
                              THEN [@ EXCEPT ![inv].quarantined = TRUE]
                              ELSE remove(@, inv)]

ReadIngest(known, act) ==
    Holds(Demotes(known, act.agent, act.disposition), act.agent, {act.pconf}, {act.pinteg})

ReadBegin(known, act) ==
    CASE act.verdict = "allow" -> Starts(known, act.inv, act.agent, "permitted")
      [] act.verdict # "allow" /\ Mode = "monitor" ->
            Starts(known, act.inv, act.agent, "monitor_bypassed")
      [] OTHER -> [known EXCEPT !.open = insert(@, act.inv, act.agent)]

ReadAuthorize(known, act) ==
    LET answered == Spends([known EXCEPT !.open = remove(@, act.inv)], {act.attestation})
    IN  IF act.admitted
        THEN Starts(answered, act.inv, known.open[act.inv], "permitted")
        ELSE answered

ReadSettle(known, act) ==
    LET closed == Demotes(Closes(known, act.inv, act.outcome), act.agent, act.disposition)
        told == Spends(closed, {act.resolution} \ {None})
    IN  IF act.outcome = "ambiguous" THEN told
        ELSE Holds(told, act.agent, {act.clvl}, {act.ilvl})

(* The levels of an endorsed release and its evidence are in the command.  *)
ReadCross(known, q, act) ==
    LET demoted == Demotes(known, act.rcv, act.disposition)
        from == known.held[act.src]
        key == [agent |-> q.rcv, assignment |-> q.assignment]
    IN  CASE act.branch = "endorsed" ->
                Holds(Spends([demoted EXCEPT !.left[key] = @ - 1], {q.evidence.id}),
                      act.rcv, {q.released_conf}, {q.released_integ})
          [] act.branch = "unendorsed" -> Holds(demoted, act.rcv, from.conf, from.integ)
          [] OTHER -> demoted

----------------------------------------------------------------------------
AuditInit ==
    /\ Init
    /\ audit = [held |-> [a \in AgentId |-> NothingHeld], running |-> EmptyMap,
                open |-> EmptyMap, spent |-> {}, left |-> EmptyMap]

AuditStructural ==
    \E a, b \in AgentId :
        \/ delegate(a, b) /\ audit' = Forgets(audit, b)
        \/ revoke(a, b) /\ audit' = Forgets(audit, b)
        \/ cascade_revoke(b, a) /\ audit' = Forgets(audit, b)
        \/ \E cap \in CapKind : grant_capability(a, b, cap) /\ UNCHANGED audit
        \/ \E d \in AssignmentDigest, n \in GrantSizes :
              /\ grant_crossing(a, b, d, n)
              /\ audit' = [audit EXCEPT !.left = insert(@, [agent |-> b, assignment |-> d], n)]

AuditNext ==
    \/ ToolNext /\ UNCHANGED audit
    \/ AuditStructural
    \/ \E a \in AgentId, src \in Maybe(AgentId), p \in Provenances :
          /\ ingest(a, src, p[1], p[2])
          /\ audit' = ReadIngest(audit, ingest_action(a, src, p[1], p[2]))
    \/ \E a \in AgentId, inv \in InvocationId, chal \in ChallengeId, snap \in Snapshots,
          egr \in SUBSET EgressKind, ah \in ContentHash, authorized \in BOOLEAN :
          /\ begin_invocation(a, inv, chal, snap, egr, ah, authorized)
          /\ audit' = ReadBegin(audit, begin_action(a, inv, snap, egr, authorized))
    \/ \E inv \in InvocationId, att \in Inspections :
          /\ authorize_inspected(inv, att)
          /\ audit' = ReadAuthorize(audit, authorize_action(inv, att))
    \/ \E inv \in InvocationId, outcome \in Outcome, att \in Maybe(Resolutions) :
          /\ settle_invocation(inv, outcome, att)
          /\ audit' = ReadSettle(audit, settle_action(inv, outcome, att))
    \/ \E q \in CrossInputs :
          /\ cross_output(q)
          /\ audit' = ReadCross(audit, q, cross_action(q))

AuditSpec == AuditInit /\ [][AuditNext]_<<vars, audit>>

----------------------------------------------------------------------------
(* The envelopes tell the whole story: after every accepted command an     *)
(* auditor who never saw a policy, a gate or the state knows what every    *)
(* agent holds, which invocations are running, quarantined or waiting for  *)
(* an inspection and whose they are, which of them still claim             *)
(* confinement, and what evidence and which uses of grants are spent.      *)
(* So no action reports a verdict or a disposition other than the one      *)
(* the transition acted on, also when it demoted the record it reports.    *)
EnvelopesTellTheState ==
    audit = [held    |-> [a \in AgentId |->
                            [conf |-> taint_levels[a], integ |-> integ_levels[a]]],
             running |-> [i \in DOMAIN pending |->
                            [agent |-> pending[i].agent, disposition |-> pending[i].disposition,
                             quarantined |-> pending[i].quarantined]],
             open    |-> [i \in DOMAIN challenges |-> challenges[i].agent],
             spent   |-> consumed_attestations,
             left    |-> [g \in DOMAIN crossing_grants |-> crossing_grants[g].remaining]]
==============================================================================
