------------------------------ MODULE Attempts ------------------------------
(***************************************************************************)
(* The attempts of Elixir processes to move one live instance              *)
(* (ExArgus.Instance.transition): validate the command, call the adapter,  *)
(* classify what comes back, emit one telemetry event and answer.          *)
(*                                                                         *)
(* Between the step that fixes an attempt's result and the event, other    *)
(* processes run; a process can be killed at any point, but a native call  *)
(* that has begun runs to its end on its dirty scheduler; and the binding  *)
(* can raise, under the lock (a panic), or outside it, also after the      *)
(* state was replaced.                                                     *)
(*                                                                         *)
(* events and unreported are history variables: the events emitted, and    *)
(* for each accepted command whose caller was not told so, how its attempt *)
(* ended.                                                                  *)
(***************************************************************************)
EXTENDS DigestChain, FiniteSets, Functions

CONSTANTS
    Caller,         \* Elixir processes that hold the handle
    Background,     \* the background the instance was created with
    InvalidN,       \* commands that fail the Elixir validation
    None,
    MaxEvents,      \* bound on the attempts that are told an outcome
    MaxKills        \* bound on the processes killed

(* What native_error can answer.                                           *)
Reasons ==
    {"instance_busy", "resource_poisoned", "sequence_exhausted", "capacity_exceeded", "kernel"}

(* What an event can say.                                                  *)
Outcomes == {"accepted", "kernel_refused", "boundary_refused", "internal_error"}

AttemptN ==
    [command : CommandN \union InvalidN, at : {"invalid", "valid", "applying", "fixed"},
     outcome : Outcomes \union {None}, sequence : Nat \union {None},
     applied : [next : InstanceState, envelope : EnvelopeN] \union {None},
     killed : BOOLEAN]

ASSUME AttemptsAssumption ==
    /\ Background \in BackgroundN
    /\ None \notin Nat
    /\ None \notin Reasons \union Outcomes
    /\ None \notin AttemptN

VARIABLES
    current,        \* the InstanceState behind the mutex
    lock,           \* "free", "held" or "poisoned"
    attempt,        \* caller -> its attempt, None between attempts
    events,
    unreported,
    kills

vars == <<current, lock, attempt, events, unreported, kills>>

Init ==
    /\ current = initial_instance(Background)
    /\ lock = "free"
    /\ attempt = [c \in Caller |-> None]
    /\ events = << >>
    /\ unreported = << >>
    /\ kills = 0

----------------------------------------------------------------------------
(* Faulty variant: a poisoned lock is taken over.                          *)
map_try_lock_takes_over == IF lock = "held" THEN "instance_busy" ELSE None

map_try_lock == IF lock = "held" THEN "instance_busy" ELSE "resource_poisoned"

(* The error instance_apply returns, or None when the command is accepted. *)
native_error(command) ==
    CASE lock # "free" -> map_try_lock
      [] current.sequence + 1 > MaxAcceptedSequence -> "sequence_exhausted"
      [] ~ preflight(current, command) -> "capacity_exceeded"
      [] Apply(current.kernel, Background, command) = Refused -> "kernel"
      [] OTHER -> None

(* Faulty variant: whatever is not a kernel refusal is the caller's fault. *)
from_native_lenient(reason) ==
    IF reason = "kernel" THEN "kernel_refused" ELSE "boundary_refused"

(* Error.from_native and the error's class in classified_error.            *)
from_native(reason) ==
    CASE reason = "kernel" -> "kernel_refused"
      [] reason \in {"instance_busy", "capacity_exceeded", "sequence_exhausted"} ->
            "boundary_refused"
      [] OTHER -> "internal_error"

At(c, place) == attempt[c] # None /\ attempt[c].at = place

(* The result of an attempt is fixed: outcome and sequence are what the    *)
(* event will carry.                                                       *)
Fix(c, outcome, sequence) ==
    attempt' = [attempt EXCEPT ![c].at = "fixed", ![c].outcome = outcome,
                               ![c].sequence = sequence]

start(c, command) ==
    /\ attempt[c] = None
    /\ Len(events) < MaxEvents
    /\ attempt' = [attempt EXCEPT ![c] =
                    [command |-> command, outcome |-> None, sequence |-> None,
                     applied |-> None, killed |-> FALSE,
                     at |-> IF command \in InvalidN THEN "invalid" ELSE "valid"]]
    /\ UNCHANGED <<current, lock, events, unreported, kills>>

(* The validator's boundary error, without a native call.                  *)
refuse_invalid(c) ==
    /\ At(c, "invalid")
    /\ Fix(c, "boundary_refused", None)
    /\ UNCHANGED <<current, lock, events, unreported, kills>>

(* Faulty variant: the lock is waited for.                                 *)
try_lock_waits(c) == At(c, "valid") /\ lock = "free"

(* try_lock answers at once, whoever holds the lock.                       *)
try_lock(c) == At(c, "valid")

(* Native.instance_apply returns an error, or enters the lock.             *)
instance_apply(c) ==
    LET error == native_error(attempt[c].command)
    IN  /\ try_lock(c)
        /\ IF error # None
           THEN Fix(c, from_native(error), None) /\ UNCHANGED lock
           ELSE /\ lock' = "held"
                /\ attempt' = [attempt EXCEPT
                        ![c].at = "applying",
                        ![c].applied =
                            apply_without_commit(current, Background, attempt[c].command)]
        /\ UNCHANGED <<current, events, unreported, kills>>

(* What the caller never hears of, when its attempt ends like this.        *)
Unheard(sequence, ending) ==
    unreported' = IF sequence = None THEN unreported
                  ELSE [s \in DOMAIN unreported \union {sequence} |->
                            IF s = sequence THEN ending ELSE unreported[s]]

(* The state is replaced and the envelope returned.  Of a killed caller    *)
(* nothing is left to return to.                                           *)
commit(c) ==
    LET sequence == attempt[c].applied.next.sequence
    IN  /\ At(c, "applying")
        /\ current' = attempt[c].applied.next
        /\ lock' = "free"
        /\ IF attempt[c].killed
           THEN attempt' = [attempt EXCEPT ![c] = None] /\ Unheard(sequence, "killed")
           ELSE Fix(c, "accepted", sequence) /\ UNCHANGED unreported
        /\ UNCHANGED <<events, kills>>

(* A panic under the lock.                                                 *)
panic(c) ==
    /\ At(c, "applying")
    /\ lock' = "poisoned"
    /\ IF attempt[c].killed
       THEN attempt' = [attempt EXCEPT ![c] = None]
       ELSE Fix(c, "internal_error", None)
    /\ UNCHANGED <<current, events, unreported, kills>>

(* The binding raises outside the lock, before it or after it, or returns  *)
(* an envelope that envelope_projection refuses.                           *)
unexpected(c) ==
    /\ At(c, "valid") \/ (At(c, "fixed") /\ attempt[c].outcome = "accepted")
    /\ Fix(c, from_native("native_contract_violation"), None)
    /\ Unheard(attempt[c].sequence, from_native("native_contract_violation"))
    /\ UNCHANGED <<current, lock, events, kills>>

(* Telemetry.emit_transition, then the result is returned or the exception *)
(* raised again.                                                           *)
emit_transition(c) ==
    /\ At(c, "fixed")
    /\ events' = Append(events, [outcome |-> attempt[c].outcome, sequence |-> attempt[c].sequence])
    /\ attempt' = [attempt EXCEPT ![c] = None]
    /\ UNCHANGED <<current, lock, unreported, kills>>

(* The process is killed.  Inside the native call it dies when that ends.  *)
kill(c) ==
    /\ attempt[c] # None
    /\ ~ attempt[c].killed
    /\ kills < MaxKills
    /\ kills' = kills + 1
    /\ IF At(c, "applying")
       THEN attempt' = [attempt EXCEPT ![c].killed = TRUE] /\ UNCHANGED unreported
       ELSE attempt' = [attempt EXCEPT ![c] = None] /\ Unheard(attempt[c].sequence, "killed")
    /\ UNCHANGED <<current, lock, events>>

Continue(c) ==
    \/ refuse_invalid(c)
    \/ instance_apply(c)
    \/ commit(c)
    \/ panic(c)
    \/ emit_transition(c)

Next ==
    \E c \in Caller :
        \/ \E command \in CommandN \union InvalidN : start(c, command)
        \/ Continue(c)
        \/ unexpected(c)
        \/ kill(c)

(* A process that is in an attempt, or the scheduler that runs its native  *)
(* call, is not stopped for ever.                                          *)
Spec == Init /\ [][Next]_vars /\ \A c \in Caller : WF_vars(Continue(c))

----------------------------------------------------------------------------
Reported == {i \in DOMAIN events : events[i].outcome = "accepted"}

Underway == {c \in Caller : At(c, "fixed") /\ attempt[c].outcome = "accepted"}

(* Every accepted command is accounted for exactly once: by an event that  *)
(* carries its sequence number, by an attempt that is about to emit it, or *)
(* by an attempt whose caller was killed or told internal_error.  So an    *)
(* event never claims a command that was not accepted, two never claim the *)
(* same one, and a refusal, kernel or boundary, means that the instance    *)
(* did not move: only the outcomes the README calls ambiguous are.         *)
EventsAccountForTheChain ==
    LET told(s) == {i \in Reported : events[i].sequence = s}
        telling(s) == {c \in Underway : attempt[c].sequence = s}
        silent(s) == {t \in DOMAIN unreported : t = s}
    IN  /\ \A s \in 1 .. current.sequence :
              Cardinality(told(s)) + Cardinality(telling(s)) + Cardinality(silent(s)) = 1
        /\ \A i \in Reported : events[i].sequence \in 1 .. current.sequence
        /\ \A s \in DOMAIN unreported : unreported[s] \in {"killed", "internal_error"}

(* A handle that a panic poisoned is terminal: no later attempt moves it.  *)
PoisonIsTerminal == [][lock = "poisoned" => UNCHANGED <<current, lock>>]_vars

(* Every attempt comes to an end, whatever happens to the other callers of *)
(* the handle: nobody waits for a lock that is held or poisoned.           *)
AttemptsEnd == \A c \in Caller : (attempt[c] # None) ~> (attempt[c] = None)
=============================================================================
