----------------------------- MODULE MCAttempts -----------------------------
(***************************************************************************)
(* Two processes on one handle, commands the kernel accepts once, one that *)
(* it always refuses, one for which there is room only at first, and a     *)
(* sequence that can be exhausted.                                         *)
(***************************************************************************)
EXTENDS Attempts

CONSTANTS c1, c2, refused

MCStates == SUBSET CommandN

MCInitial == {}

MCApply(state, background, command) ==
    IF command = refused \/ command \in state
    THEN Refused
    ELSE [state |-> state \union {command}, action |-> "permitted"]

MCCheckState(state) == Cardinality(state) <= 2

MCFits(state, command) == command = c2 => state = {}

MCContent(command, action) == 1
=============================================================================
