----------------------------- MODULE DigestChain -----------------------------
(***************************************************************************)
(* The native adapter's value layer: the digest chain, the instance state  *)
(* it heads, and the pure steps over them that a live instance, a recovery *)
(* and the Elixir validation of a recorded history are made of.            *)
(*                                                                         *)
(* The kernel is opaque here, as it is to the adapter: Apply is any        *)
(* function from a state, a background and a command to a new state and an *)
(* action, or Refused.                                                     *)
(*                                                                         *)
(* A digest is the value it covers.  genesis and link are therefore free   *)
(* of collisions, which SHA-256 is trusted to be.  That the bytes it is    *)
(* given say what they cover without ambiguity is the subject of           *)
(* Transcript; here the byte layout is left out.                           *)
(***************************************************************************)
EXTENDS Integers, Sequences, SequencesExt

CONSTANTS
    BackgroundN,            \* backgrounds an instance can be created with
    CommandN,               \* commands that pass the Elixir validation
    ActionN,                \* actions the kernel records
    KernelStates,           \* the values of KernelState
    KernelInitial,          \* KernelState::initial
    Apply(_, _, _),         \* CommandN::apply(state, background, command)
    Refused,                \* the kernel's refusal of a command
    CheckState(_),          \* limits::check_state of a kernel state
    Fits(_, _),             \* the capacity a command needs beyond its state
    Content(_, _),          \* bytes of a command and its action in a history
    MaxAcceptedSequence,    \* MAX_ACCEPTED_SEQUENCE, MAX_RECOVERY_ENVELOPES
    MaxReplayContent,       \* MAX_REPLAY_CONTENT_BYTES
    Versions,               \* versions a recorded envelope may carry
    Version,                \* VERSION
    Error                   \* any error result

ASSUME ChainAssumption ==
    /\ MaxAcceptedSequence \in Nat
    /\ MaxReplayContent \in Nat
    /\ Version \in Versions
    /\ \A c \in CommandN, a \in ActionN : Content(c, a) \in Nat

ASSUME KernelAssumption ==
    /\ KernelInitial \in KernelStates
    /\ \A s \in KernelStates, b \in BackgroundN, c \in CommandN :
          Apply(s, b, c) # Refused => Apply(s, b, c) \in [state : KernelStates, action : ActionN]

Link == [sequence : Nat, command : CommandN, action : ActionN]

Digest == Seq(BackgroundN \cup Link)

InstanceState == [kernel : KernelStates, sequence : Nat, head : Digest]

EnvelopeN ==
    [version : Versions, sequence : Nat, previous_digest : Digest, digest : Digest,
     command : CommandN, action : ActionN]

ASSUME ErrorAssumption ==
    /\ Error \notin InstanceState
    /\ Error \notin [next : InstanceState, envelope : EnvelopeN]

(* Faulty variant: the genesis digest does not cover the background.       *)
genesis_unbound(background) == << >>

genesis(background) == <<background>>

link(previous, sequence, command, action) ==
    Append(previous, [sequence |-> sequence, command |-> command, action |-> action])

(* InstanceState::initial                                                  *)
initial_instance(background) ==
    [kernel |-> KernelInitial, sequence |-> 0, head |-> genesis(background)]

status(current) ==
    [version |-> Version, sequence |-> current.sequence, head |-> current.head]

(* limits::preflight: the sequence bound, then the capacities.             *)
preflight(current, command) ==
    /\ current.sequence + 1 <= MaxAcceptedSequence
    /\ CheckState(current.kernel)
    /\ Fits(current.kernel, command)

(* apply_without_commit: the state and the envelope a command leads to, or *)
(* Error when the preflight or the kernel refuses it.                      *)
apply_without_commit(current, background, command) ==
    LET result == Apply(current.kernel, background, command)
        sequence == current.sequence + 1
        digest == link(current.head, sequence, command, result.action)
    IN  IF ~ preflight(current, command) \/ result = Refused
        THEN Error
        ELSE [next |-> [kernel |-> result.state, sequence |-> sequence, head |-> digest],
              envelope |-> [version |-> Version, sequence |-> sequence,
                            previous_digest |-> current.head, digest |-> digest,
                            command |-> command, action |-> result.action]]

(* Faulty variant: the last sequence number cannot be replayed.            *)
check_recovery_link_tight(current) ==
    /\ CheckState(current.kernel)
    /\ current.sequence + 1 < MaxAcceptedSequence

check_recovery_link(current) ==
    /\ CheckState(current.kernel)
    /\ current.sequence + 1 <= MaxAcceptedSequence

(* RecoveryInstance::replay: the next state of the recovery, or Error.     *)
replay(current, background, recorded) ==
    LET applied == apply_without_commit(current, background, recorded.command)
    IN  IF /\ check_recovery_link(current)
           /\ recorded.version = Version
           /\ recorded.sequence = current.sequence + 1
           /\ recorded.previous_digest = current.head
           /\ applied # Error
           /\ applied.envelope.action = recorded.action
           /\ applied.envelope.digest = recorded.digest
        THEN applied.next
        ELSE Error

(* Faulty variant: only the length of the history is compared.             *)
anchored_length_only(current, expected) ==
    /\ expected.version = Version
    /\ expected.sequence = current.sequence

(* RecoveryInstance::finalize: whether the replayed state is the anchored  *)
(* one.                                                                    *)
anchored(current, expected) ==
    /\ expected.version = Version
    /\ expected.sequence = current.sequence
    /\ expected.head = current.head

----------------------------------------------------------------------------
(* The Elixir side of a recovery, ExArgus.Instance.recover/3.              *)

(* Validation.history: each envelope declares its place and its            *)
(* predecessor, and the content stays within the replay bound.             *)
content(history) ==
    FoldLeft(LAMBDA total, e : total + Content(e.command, e.action), 0, history)

declared(history, i) ==
    /\ i <= MaxAcceptedSequence
    /\ history[i].version = Version
    /\ history[i].sequence = i
    /\ i > 1 => history[i].previous_digest = history[i - 1].digest

(* The history declares the anchor as its end.  An empty history declares  *)
(* no head to compare with the anchor's.                                   *)
ends_at(history, expected) ==
    /\ expected.version = Version
    /\ expected.sequence = Len(history)
    /\ history # << >> => expected.head = Last(history).digest

(* Validation.recovery                                                     *)
validated(history, expected) ==
    /\ \A i \in 1 .. Len(history) : declared(history, i)
    /\ content(history) <= MaxReplayContent
    /\ ends_at(history, expected)

(* Instance.replay_history: the states after each envelope, Error from the *)
(* first error on.  (The choice from a singleton only lets TLC evaluate    *)
(* each state once.)                                                       *)
replay_states(background, history) ==
    LET step(current, e) == IF current = Error THEN Error ELSE replay(current, background, e)
        after[i \in 0 .. Len(history)] ==
            IF i = 0 THEN initial_instance(background)
            ELSE CHOOSE next \in {step(current, history[i]) : current \in {after[i - 1]}} : TRUE
    IN  after

replay_history(background, history) == replay_states(background, history)[Len(history)]

(* Faulty variant: a history that replays is taken for the whole history.  *)
recover_unanchored(background, history, expected) == replay_history(background, history)

(* Instance.recover: the state of the live instance it returns, or Error.  *)
recover(background, history, expected) ==
    LET final == replay_history(background, history)
    IN  IF validated(history, expected) /\ final # Error /\ anchored(final, expected)
        THEN final
        ELSE Error
===========================================================================
