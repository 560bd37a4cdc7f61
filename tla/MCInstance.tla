----------------------------- MODULE MCInstance -----------------------------
(***************************************************************************)
(* A small instance of the native resources for TLC.  The kernel accepts   *)
(* each command once, records whether it was permitted or bypassed, which  *)
(* depends on the background's mode and on what was accepted before, and   *)
(* keeps that record as its state.                                         *)
(***************************************************************************)
EXTENDS Instance, TLC

CONSTANTS enforce, monitor, c1, c2

MCStates == SUBSET (CommandN \X ActionN)

MCInitial == {}

MCApply(state, background, command) ==
    IF \E r \in state : r[1] = command THEN Refused
    ELSE LET action == IF background = monitor /\ state = {} THEN "bypassed" ELSE "permitted"
         IN  [state |-> state \cup {<<command, action>>}, action |-> action]

MCCheckState(state) == Cardinality(state) <= 2

MCFits(state, command) == Cardinality(state) + 1 <= 2

MCContent(command, action) == IF command = c1 THEN 1 ELSE 2

Sym == Permutations(Handle) \cup Permutations(Caller)
===========================================================================
