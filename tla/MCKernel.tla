------------------------------ MODULE MCKernel ------------------------------
(***************************************************************************)
(* Small instances of the audited kernel for TLC.  Each configuration      *)
(* picks, from the sets below, the inputs that make one family of hazards  *)
(* happen.                                                                 *)
(*                                                                         *)
(* There is one egress kind, whose allow ceiling is Public and whose       *)
(* inspect ceiling is Internal, so that level 0 flows, level 1 flows when  *)
(* vouched for and level 2 does not flow.                                  *)
(***************************************************************************)
EXTENDS Audit, TLC

CONSTANTS a1, t1, net, d1, d2, h1, digest1

Allow == net :> 0

Inspect == net :> 1

Policy(caps, clearance, floor, inspect, oconf, ointeg, egress, digest) ==
    [tool |-> t1, required_caps |-> caps, conf_clearance |-> clearance,
     integ_floor |-> floor, integ_inspect |-> inspect, output_conf |-> oconf,
     output_integ |-> ointeg, declared_egress |-> egress, policy_digest |-> digest]

(* A reader whose output is inspectable on the network, a sender that      *)
(* accepts inspected data, and a sender with output of low integrity.      *)
GateSnapshots ==
    {Policy({}, 2, 0, 0, 1, 3, {}, d1),
     Policy({}, 1, 2, 1, 0, 2, {net}, d2),
     Policy({}, 1, 1, 1, 0, 1, {net}, d1)}

(* Data that only integrity bars, data to be inspected, and data no        *)
(* sender may hold.                                                        *)
GateProvenances == {<<0, 1>>, <<1, 2>>, <<2, 3>>}

(* The extremes of these.                                                  *)
ExtremeProvenances == {<<0, 1>>, <<2, 3>>}

(* An action that needs every capability and untainted integrity, or an    *)
(* inspection.                                                             *)
TreeSnapshots == {Policy(CapKind, 2, 2, 0, 0, 2, {}, d1)}

TreeProvenances == {<<0, 1>>}

(* Every attestation an inspector or a resolver could issue.               *)
AllInspections == InspectionAttestation

AllResolutions == ResolutionAttestation

(* Crossings between root and an agent, either way: endorsed while there   *)
(* is a grant and fresh evidence, unendorsed otherwise, and failing.       *)
Request(x, src, rcv, evidence, fallback, target) ==
    [src |-> src, rcv |-> rcv, crossing |-> x, output_hash |-> h1, descriptor |-> h1,
     fallback |-> fallback, t_integ |-> 2, t_conf |-> target, assignment |-> digest1,
     evidence |-> evidence, released_conf |-> 1, released_integ |-> 1]

Conformance(id, src, rcv) ==
    [id |-> id, output |-> h1, src |-> src, rcv |-> rcv, descriptor |-> h1,
     assignment |-> digest1, positive |-> TRUE]

Requests ==
    UNION {{Request(x, p[1], p[2], Conformance(id, p[1], p[2]), "release_unendorsed", 1),
            Request(x, p[1], p[2], None, "fail", None)} :
               id \in AttestationId, x \in CrossingId, p \in {<<Root, a1>>, <<a1, Root>>}}

SymGates == Permutations(InvocationId) \cup Permutations(AttestationId)

SymTree == Permutations(AgentId \ {Root}) \cup Permutations(CapKind)
===========================================================================
