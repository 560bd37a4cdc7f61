----------------------------- MODULE MCExposure -----------------------------
(***************************************************************************)
(* A small instance of the exposure history: root and an agent pass data   *)
(* on to each other by messages and by crossings, with an invocation whose *)
(* output is worse than some of what they ingest.                          *)
(***************************************************************************)
EXTENDS MCCrossing, Exposure

(* A provenance that dominates everything but the output of the            *)
(* invocation.                                                             *)
Declared == {<<1, 0>>}

(* Root endorses to the agent, within its grant and beyond, and either may *)
(* release unendorsed.                                                     *)
FewRequests ==
    UNION {LET c == Conformance(id, Root, a1) IN
           {Request(x, Root, a1, c, "fail", None, 0),
            Request(x, Root, a1, c, "release_unendorsed", 1, 0),
            Request(x, a1, Root, None, "release_unendorsed", None, 0)}
           : id \in AttestationId, x \in CrossingId}

===========================================================================
