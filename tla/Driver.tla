------------------------------- MODULE Driver -------------------------------
(***************************************************************************)
(* The stateful kernel driver (kernel.rs): it computes a transition,       *)
(* appends the event to the event store and only then adopts the new state *)
(* and sequence number.                                                    *)
(*                                                                         *)
(* The event store is external.  Its append succeeds, fails without a      *)
(* trace, or fails after the event was written (a lost acknowledgement).   *)
(* The kernel is opaque: Apply gives the new state and the action, or      *)
(* Refused; a refusal and the authorizer oracle change nothing.            *)
(*                                                                         *)
(* returned is a history variable: the events the driver returned.         *)
(***************************************************************************)
EXTENDS Integers, Sequences

CONSTANTS
    Command,
    State,          \* kernel states
    Action,         \* actions the kernel records
    KernelInitial,
    Apply(_, _),
    Refused,
    MaxLog          \* events the store can hold, bounded

ASSUME DriverAssumption ==
    /\ KernelInitial \in State
    /\ \A s \in State, c \in Command :
          Apply(s, c) # Refused => Apply(s, c) \in [state : State, action : Action]
    /\ MaxLog \in Nat

VARIABLES state, sequence, log, returned

vars == <<state, sequence, log, returned>>

(* Kernel::new                                                             *)
Init ==
    /\ state = KernelInitial
    /\ sequence = 0
    /\ log = << >>
    /\ returned = << >>

(* KernelEvent::new with the next sequence number                          *)
event(command) == [sequence |-> sequence + 1, action |-> Apply(state, command).action]

accepted(command) == Apply(state, command) # Refused

(* What apply does once append has answered.                               *)
adopt(command) ==
    /\ sequence' = sequence + 1
    /\ state' = Apply(state, command).state
    /\ returned' = Append(returned, event(command))

(* Faulty variant: the state advances before the event store has answered. *)
appended_failed_adopts(command) == adopt(command)

(* A failed append returns at once: state and sequence stay.               *)
append_failed(command) == UNCHANGED <<state, sequence, returned>>

apply(command) ==
    /\ accepted(command)
    /\ Len(log) < MaxLog
    /\ log' = Append(log, event(command))
    /\ adopt(command)

apply_store_fails(command) ==
    /\ accepted(command)
    /\ UNCHANGED log
    /\ append_failed(command)

apply_ack_lost(command) ==
    /\ accepted(command)
    /\ Len(log) < MaxLog
    /\ log' = Append(log, event(command))
    /\ append_failed(command)

Next ==
    \E command \in Command :
        apply(command) \/ apply_store_fails(command) \/ apply_ack_lost(command)

Spec == Init /\ [][Next]_vars

----------------------------------------------------------------------------
(* The last event a log holds under a sequence number, if any.             *)
Places(l, n) == {i \in 1 .. Len(l) : l[i].sequence = n}

LastUnder(l, n) == {l[i] : i \in {j \in Places(l, n) : \A k \in Places(l, n) : k <= j}}

(* Whatever the store did with the appends that failed, the log can be     *)
(* read back: the last event under each number up to the driver's sequence *)
(* is the one whose transition the driver adopted and returned, and        *)
(* nothing in the log lies further than one command ahead.                 *)
LogCoversHistory ==
    /\ Len(returned) = sequence
    /\ \A n \in 1 .. sequence : LastUnder(log, n) = {returned[n]}
    /\ \A i \in 1 .. Len(log) : log[i].sequence <= sequence + 1
===========================================================================
