------------------------------- MODULE MCHost -------------------------------
(***************************************************************************)
(* A small instance of the host for TLC.  The kernel accepts each command  *)
(* once, records whether it was permitted or bypassed, which depends on    *)
(* the mode and on what was accepted before, and keeps that record.        *)
(***************************************************************************)
EXTENDS HostRecovery, TLC

CONSTANTS enforce, monitor, c1, c2, c3

MCStates == SUBSET (CommandN \X ActionN)

MCInitial == {}

MCApply(state, background, command) ==
    IF \E r \in state : r[1] = command THEN Refused
    ELSE LET action == IF background = monitor /\ state = {} THEN "bypassed" ELSE "permitted"
         IN  [state |-> state \cup {<<command, action>>}, action |-> action]

MCCheckState(state) == Cardinality(state) <= 3

MCFits(state, command) == Cardinality(state) + 1 <= 3

MCContent(command, action) == IF command = c1 THEN 1 ELSE 2
===========================================================================
