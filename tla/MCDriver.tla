------------------------------ MODULE MCDriver ------------------------------
(***************************************************************************)
(* A small instance of the driver for TLC: each command is accepted once,  *)
(* and its action names it and the commands accepted before it.            *)
(***************************************************************************)
EXTENDS Driver, TLC

MCInitial == {}

MCApply(s, command) ==
    IF command \in s THEN Refused
    ELSE [state |-> s \cup {command}, action |-> <<command, s>>]

MCState == SUBSET Command

MCAction == Command \X MCState

Sym == Permutations(Command)
===========================================================================
