------------------------ MODULE InvocationLifecycle ------------------------
(***************************************************************************)
(* The life of an invocation as a host of the kernel may rely on it,       *)
(* without labels, policies, tools or gates.  An invocation starts fresh,  *)
(* is challenged or runs at once for a living owner, may be quarantined,   *)
(* and closes for good.  A challenge is decided, and a quarantine settled, *)
(* only at the price of one piece of evidence never used before.  The only *)
(* other way out is the end of the owner, which closes all its work and    *)
(* leaves nothing for a later owner under the same name.                   *)
(***************************************************************************)
CONSTANTS Invocation, Evidence, Owner, NoOwner

VARIABLES status,   \* where each invocation is in its life
          owner,    \* for whom an open invocation is open
          spent,    \* the evidence used so far
          alive     \* the living owners

lifecycleVars == <<status, owner, spent, alive>>

LifecycleInit ==
    /\ status = [i \in Invocation |-> "fresh"]
    /\ owner = [i \in Invocation |-> NoOwner]
    /\ spent = {}
    /\ alive \subseteq Owner

Move(i, from, to) ==
    /\ status[i] = from
    /\ status' = [status EXCEPT ![i] = to]

Spend == \E e \in Evidence \ spent : spent' = spent \cup {e}

Admit(i, a) ==
    /\ a \in alive
    /\ Move(i, "fresh", "running") \/ Move(i, "fresh", "challenged")
    /\ owner' = [owner EXCEPT ![i] = a]
    /\ UNCHANGED <<spent, alive>>

(* An inspection admits a challenged invocation or turns it down.          *)
Decide(i) ==
    /\ Spend
    /\ \/ Move(i, "challenged", "running") /\ UNCHANGED owner
       \/ Move(i, "challenged", "closed") /\ owner' = [owner EXCEPT ![i] = NoOwner]
    /\ UNCHANGED alive

Settle(i) ==
    /\ \/ Move(i, "running", "quarantined") /\ UNCHANGED owner
       \/ Move(i, "running", "closed") /\ owner' = [owner EXCEPT ![i] = NoOwner]
    /\ UNCHANGED <<spent, alive>>

Resolve(i) ==
    /\ Spend
    /\ Move(i, "quarantined", "closed")
    /\ owner' = [owner EXCEPT ![i] = NoOwner]
    /\ UNCHANGED alive

Join(a) ==
    /\ a \notin alive
    /\ alive' = alive \cup {a}
    /\ UNCHANGED <<status, owner, spent>>

(* An owner ends, and its open work with it.                               *)
End(a) ==
    /\ a \in alive
    /\ alive' = alive \ {a}
    /\ status' = [i \in Invocation |-> IF owner[i] = a THEN "closed" ELSE status[i]]
    /\ owner' = [i \in Invocation |-> IF owner[i] = a THEN NoOwner ELSE owner[i]]
    /\ UNCHANGED spent

(* Evidence spent for something other than an invocation.                  *)
SpendElsewhere ==
    /\ Spend
    /\ UNCHANGED <<status, owner, alive>>

LifecycleNext ==
    \/ \E i \in Invocation, a \in Owner : Admit(i, a)
    \/ \E i \in Invocation : Decide(i) \/ Settle(i) \/ Resolve(i)
    \/ \E a \in Owner : Join(a) \/ End(a)
    \/ SpendElsewhere

LifecycleSpec == LifecycleInit /\ [][LifecycleNext]_lifecycleVars
===========================================================================
