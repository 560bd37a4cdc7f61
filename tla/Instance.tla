------------------------------ MODULE Instance ------------------------------
(***************************************************************************)
(* The native resources of instance.rs shared by concurrent callers: live  *)
(* instances and recoveries, each behind a mutex that every native         *)
(* function takes with try_lock.                                           *)
(*                                                                         *)
(* A call that is let in computes its result from the guarded state and    *)
(* then commits it; both happen under the lock, and other callers may try  *)
(* in between.  A call that finds the lock taken or poisoned, and one that *)
(* is refused by a check, changes nothing and is no step.  So is an        *)
(* observation (instance_status, instance_state).  A panic unwinds through *)
(* the guard and poisons the mutex.                                        *)
(*                                                                         *)
(* history and heir are history variables: the envelopes a resource has    *)
(* accepted, in the order in which it accepted them, and the recovery from *)
(* which a live instance was finalized.                                    *)
(***************************************************************************)
EXTENDS DigestChain, FiniteSets

CONSTANTS
    Caller,     \* Erlang processes on dirty schedulers
    Handle,     \* resource handles
    None

VARIABLES
    resource,   \* handle -> resource, None before it is created
    call,       \* caller -> the call it is in, None between calls
    history,
    heir

vars == <<resource, call, history, heir>>

Live == {h \in Handle : resource[h] # None /\ resource[h].kind = "live"}

Recoveries == {h \in Handle : resource[h] # None /\ resource[h].kind = "recovery"}

Resource ==
    [kind : {"live", "recovery"}, background : BackgroundN,
     lock : {"free", "held", "poisoned"}, slot : InstanceState \cup {None}]

Call ==
    [op : {"apply", "replay"}, on : Handle, next : InstanceState, envelope : EnvelopeN]
        \cup [op : {"finalize"}, on : Handle]

ASSUME NoneAssumption ==
    /\ None \notin Handle
    /\ None \notin InstanceState
    /\ None \notin Resource
    /\ None \notin Call

(* A fresh resource: LiveInstance::from_state and RecoveryInstance::new.   *)
Fresh(kind, background, state) ==
    [kind |-> kind, background |-> background, lock |-> "free", slot |-> state]

Init ==
    /\ resource = [h \in Handle |-> None]
    /\ call = [c \in Caller |-> None]
    /\ history = [h \in Handle |-> << >>]
    /\ heir = [h \in Handle |-> None]

----------------------------------------------------------------------------
(* Faulty variant: a taken lock does not stop the caller.                  *)
try_lock_shared(h) == resource[h].lock # "poisoned"

try_lock(h) == resource[h].lock = "free"

enter(c, h, body) ==
    /\ call[c] = None
    /\ try_lock(h)
    /\ resource' = [resource EXCEPT ![h].lock = "held"]
    /\ call' = [call EXCEPT ![c] = body]
    /\ UNCHANGED <<history, heir>>

instance_new(h, background) ==
    /\ resource[h] = None
    /\ resource' = [resource EXCEPT ![h] =
                        Fresh("live", background, initial_instance(background))]
    /\ UNCHANGED <<call, history, heir>>

recovery_new(h, background) ==
    /\ resource[h] = None
    /\ resource' = [resource EXCEPT ![h] =
                        Fresh("recovery", background, initial_instance(background))]
    /\ UNCHANGED <<call, history, heir>>

(* LiveInstance::apply up to apply_without_commit.                         *)
apply(c, h, command) ==
    LET applied == apply_without_commit(resource[h].slot, resource[h].background, command)
    IN  /\ h \in Live
        /\ applied # Error
        /\ enter(c, h, [op |-> "apply", on |-> h, next |-> applied.next,
                        envelope |-> applied.envelope])

(* RecoveryInstance::replay up to the last check.  A consumed recovery     *)
(* refuses.                                                                *)
replay_recorded(c, h, recorded) ==
    /\ h \in Recoveries
    /\ resource[h].slot # None
    /\ LET next == replay(resource[h].slot, resource[h].background, recorded)
       IN  /\ next # Error
           /\ enter(c, h, [op |-> "replay", on |-> h, next |-> next, envelope |-> recorded])

(* The commit of either: the guarded state is replaced, the lock released. *)
commit(c) ==
    /\ call[c] # None
    /\ call[c].op \in {"apply", "replay"}
    /\ LET h == call[c].on
       IN  /\ resource' = [resource EXCEPT ![h].slot = call[c].next, ![h].lock = "free"]
           /\ history' = [history EXCEPT ![h] = Append(@, call[c].envelope)]
    /\ call' = [call EXCEPT ![c] = None]
    /\ UNCHANGED heir

(* RecoveryInstance::finalize up to the anchor check.                      *)
finalize(c, h, expected) ==
    /\ h \in Recoveries
    /\ resource[h].slot # None
    /\ anchored(resource[h].slot, expected)
    /\ enter(c, h, [op |-> "finalize", on |-> h])

(* Faulty variant: the slot is cloned and stays usable.                    *)
take_clone(h) == resource[h].slot

(* What slot.take leaves behind.                                           *)
take(h) == None

(* slot.take and the new live instance; the recovery is consumed.          *)
finalize_take(c, g) ==
    /\ call[c] # None
    /\ call[c].op = "finalize"
    /\ resource[g] = None
    /\ LET h == call[c].on
       IN  /\ resource' = [resource EXCEPT
                             ![h].slot = take(h), ![h].lock = "free",
                             ![g] = Fresh("live", resource[h].background, resource[h].slot)]
           /\ history' = [history EXCEPT ![g] = history[h]]
           /\ heir' = [heir EXCEPT ![g] = h]
    /\ call' = [call EXCEPT ![c] = None]

(* An unwinding panic while the guard is held.                             *)
panic(c) ==
    /\ call[c] # None
    /\ resource' = [resource EXCEPT ![call[c].on].lock = "poisoned"]
    /\ call' = [call EXCEPT ![c] = None]
    /\ UNCHANGED <<history, heir>>

----------------------------------------------------------------------------
(* What a caller may present as recorded: any accepted envelope, also of   *)
(* another instance, with at most one field altered.                       *)
Accepted == UNION {Range(history[h]) : h \in Handle}

Altered(e) ==
    {e} \cup {[e EXCEPT !.version = v] : v \in Versions}
        \cup {[e EXCEPT !.sequence = s] : s \in 1 .. MaxAcceptedSequence}
        \cup {[e EXCEPT !.command = d] : d \in CommandN}
        \cup {[e EXCEPT !.action = a] : a \in ActionN}
        \cup {[e EXCEPT !.previous_digest = f.previous_digest] : f \in Accepted}
        \cup {[e EXCEPT !.digest = f.digest] : f \in Accepted}

Recorded == UNION {Altered(e) : e \in Accepted}

(* An anchor is a status some instance reported, now or in the past.       *)
Anchors ==
    {status(initial_instance(b)) : b \in BackgroundN} \cup
    {[version |-> Version, sequence |-> e.sequence, head |-> e.digest] : e \in Accepted}

Next ==
    \/ \E h \in Handle, b \in BackgroundN : instance_new(h, b) \/ recovery_new(h, b)
    \/ \E c \in Caller, h \in Handle :
          \/ \E command \in CommandN : apply(c, h, command)
          \/ \E recorded \in Recorded : replay_recorded(c, h, recorded)
          \/ \E expected \in Anchors : finalize(c, h, expected)
          \/ finalize_take(c, h)
    \/ \E c \in Caller : commit(c) \/ panic(c)

Spec == Init /\ [][Next]_vars

----------------------------------------------------------------------------
Held == {h \in Live \cup Recoveries : resource[h].slot # None}

(* The envelopes an instance returns, or a recovery accepts, are exactly   *)
(* the links of its chain, each once and in order, however callers         *)
(* interleave: no accepted command is lost, none shares its sequence       *)
(* number, and the head commits to all of them.                            *)
EnvelopesAreTheChain ==
    \A h \in Held :
        LET current == resource[h].slot
        IN  /\ Len(history[h]) = current.sequence
            /\ \A i \in 1 .. Len(history[h]) :
                  /\ history[h][i].sequence = i
                  /\ history[h][i].digest = SubSeq(current.head, 1, i + 1)

(* The digest head identifies the kernel state: two instances that report  *)
(* the same head, live or recovered, are in the same state, and will       *)
(* answer every command in the same way.                                   *)
HeadDeterminesState ==
    \A g, h \in Held :
        resource[g].slot.head = resource[h].slot.head =>
            /\ resource[g].slot.kernel = resource[h].slot.kernel
            /\ resource[g].background = resource[h].background

(* A recovery yields at most one live instance: a history is never taken   *)
(* over by two handles.                                                    *)
OneHeir ==
    \A g, h \in Live : heir[g] # None /\ heir[g] = heir[h] => g = h
===========================================================================
