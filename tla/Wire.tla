-------------------------------- MODULE Wire --------------------------------
(***************************************************************************)
(* The conversions between the terms the native adapter exchanges with     *)
(* Elixir and the kernel's values (wire.rs, command.rs).  A set of         *)
(* capabilities or egress kinds is a list in a term, with the order and    *)
(* the repetitions its sender chose, and a VecSet in the kernel.  The      *)
(* other fields only change their wrapper, an id for its text or an enum   *)
(* for the enum of the same name, and have the same value on both sides.   *)
(*                                                                         *)
(* ExArgus.Instance sorts a set and refuses a repetition before it calls   *)
(* the adapter.  The adapter does not rely on it, and neither does this.   *)
(***************************************************************************)
EXTENDS Collections

(* Faulty variant: the list becomes the vector as it stands.               *)
policy_into_kernel_verbatim(p) == p

(* ActionPolicySnapshotN::into_kernel                                      *)
policy_into_kernel(p) ==
    [p EXCEPT !.required_caps = VecSet_from_iter(@),
              !.declared_egress = VecSet_from_iter(@)]

(* The argument CommandN::apply gives to a transition.                     *)
command_into_kernel(c) ==
    IF c.op = "begin_invocation"
    THEN [c EXCEPT !.policy = policy_into_kernel(@), !.egress = VecSet_from_iter(@)]
    ELSE c

(* What a kernel value with vectors in it stands for.                      *)
PolicyOf(p) == [p EXCEPT !.required_caps = ToSet(@), !.declared_egress = ToSet(@)]

RecordOf(j) == [j EXCEPT !.policy = PolicyOf(@), !.egress = ToSet(@)]

CommandOf(c) ==
    IF c.op = "begin_invocation"
    THEN [c EXCEPT !.policy = PolicyOf(@), !.egress = ToSet(@)]
    ELSE c
=============================================================================
