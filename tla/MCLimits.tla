------------------------------ MODULE MCLimits ------------------------------
(***************************************************************************)
(* Small instances of the limits for TLC: every capacity is smaller than   *)
(* what the commands could use, and identities differ in length.           *)
(***************************************************************************)
EXTENDS Limits, TLC

CONSTANTS a1, t1, t2, i1, e1, net, h1, d1, digest1

Allow == net :> 0

Inspect == net :> 1

(* The first agent and invocation have longer names; the second tool's is  *)
(* longer than the limit for one value.                                    *)
MCBytes(id) == CASE id \in {a1, i1, e1} -> 2 [] id = t2 -> 4 [] OTHER -> 1

Policy(floor) ==
    [tool |-> t1, required_caps |-> {}, conf_clearance |-> 3, integ_floor |-> floor,
     integ_inspect |-> 0, output_conf |-> 1, output_integ |-> 1,
     declared_egress |-> {}, policy_digest |-> digest1]

(* One action that is always admitted, and one that needs an inspection    *)
(* because its output has low integrity.                                   *)
MCSnapshots == {Policy(0), Policy(2)}

MCInspections == {att \in InspectionAttestation : att.positive}

MCResolutions == {att \in ResolutionAttestation : att.outcome = "success"}

MCProvenances == {<<0, 1>>}

Request(x, src, rcv, evidence) ==
    [src |-> src, rcv |-> rcv, crossing |-> x, output_hash |-> h1, descriptor |-> h1,
     fallback |-> "release_unendorsed", t_integ |-> 3, t_conf |-> 3, assignment |-> d1,
     evidence |-> evidence, released_conf |-> 2, released_integ |-> 2]

Conformance(id, src, rcv) ==
    [id |-> id, output |-> h1, src |-> src, rcv |-> rcv, descriptor |-> h1,
     assignment |-> d1, positive |-> TRUE]

Requests ==
    UNION {{Request(x, Root, a1, Conformance(e, Root, a1)), Request(x, a1, Root, None)} :
              e \in AttestationId, x \in CrossingId}
===========================================================================
