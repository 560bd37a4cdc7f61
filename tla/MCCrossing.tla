----------------------------- MODULE MCCrossing -----------------------------
(***************************************************************************)
(* Small instances of the kernel with its crossing ledger for TLC.  Root   *)
(* and one agent release output to each other: the agent is the source     *)
(* that may have work in flight, and the receiver that may be protected by *)
(* work in flight, revoked, and born again under the same id.              *)
(***************************************************************************)
EXTENDS CrossingLedger, TLC

CONSTANTS a1, t1, net, h1, d1, digest1

Allow == net :> 0

Inspect == net :> 1

(* An invocation that reads secret data of low integrity, and that an      *)
(* agent without integrity may start after an inspection.                  *)
CrossSnapshots ==
    {[tool |-> t1, required_caps |-> {}, conf_clearance |-> 2,
      integ_floor |-> 1, integ_inspect |-> 0, output_conf |-> 2,
      output_integ |-> 1, declared_egress |-> {}, policy_digest |-> digest1]}

Conformance(id, src, rcv) ==
    [id |-> id, output |-> h1, src |-> src, rcv |-> rcv, descriptor |-> h1,
     assignment |-> d1, positive |-> TRUE]

Request(x, src, rcv, evidence, fallback, target, conf) ==
    [src |-> src, rcv |-> rcv, crossing |-> x, output_hash |-> h1, descriptor |-> h1,
     fallback |-> fallback, t_integ |-> 2, t_conf |-> target, assignment |-> d1,
     evidence |-> evidence, released_conf |-> conf, released_integ |-> 2]

(* Requests whose evidence may be spent, whose grant may be missing or     *)
(* exhausted: with a declassification target, without one, without one     *)
(* while releasing a level below what the source holds, and with no        *)
(* evidence at all.                                                        *)
Requests ==
    UNION {LET c == Conformance(id, p[1], p[2]) IN
           {Request(x, p[1], p[2], c, "fail", None, 0),
            Request(x, p[1], p[2], c, "fail", None, 3),
            Request(x, p[1], p[2], c, "release_unendorsed", 1, 0),
            Request(x, p[1], p[2], None, "release_unendorsed", None, 0)}
           : id \in AttestationId, x \in CrossingId, p \in {<<Root, a1>>, <<a1, Root>>}}

CrossProvenances == {<<2, 0>>}

CrossInspections == InspectionAttestation

CrossResolutions == ResolutionAttestation

SymEvidence == Permutations(AttestationId) \cup Permutations(CrossingId)
===========================================================================
