---------------------------- MODULE HostRecovery ----------------------------
(***************************************************************************)
(* A host that follows ExArgus's ordering rules around one live instance:  *)
(* it stores each accepted envelope, then moves its protected anchor, and  *)
(* only then issues the next command or the effect the kernel authorized.  *)
(* It may crash at any point, and it discards the instance and recovers    *)
(* after a timeout, a binding exception or a failed write.                 *)
(*                                                                         *)
(* The instance and the recovery are the repository's (DigestChain); the   *)
(* host is external and taken from what the adapter's interface demands of *)
(* it.  What the store gives back may be damaged; the anchor is protected. *)
(*                                                                         *)
(* anchor_state and effects are history variables: the instance state that *)
(* produced the anchor, and the envelopes whose effect was performed.      *)
(***************************************************************************)
EXTENDS DigestChain, FiniteSets

CONSTANTS
    Background,     \* the background the host was configured with
    MaxFaults       \* crashes and discards, bounded

ASSUME HostAssumption ==
    /\ Background \in BackgroundN
    /\ MaxFaults \in Nat

VARIABLES
    store,          \* durable: the envelopes stored, in order
    anchor,         \* durable and protected: head and length
    phase,          \* what the host is about to do
    instance,       \* the live instance's state; Error when there is none
    envelope,       \* the envelope of the command in progress; Error for none
    faults,
    anchor_state,
    effects

durable == <<store, anchor, anchor_state, effects>>

vars == <<store, anchor, phase, instance, envelope, faults, anchor_state, effects>>

(* The host has just created its instance and anchored its genesis.        *)
Init ==
    /\ store = << >>
    /\ instance = initial_instance(Background)
    /\ anchor = status(instance)
    /\ anchor_state = instance
    /\ phase = "ready"
    /\ envelope = Error
    /\ faults = 0
    /\ effects = << >>

(* Instance.transition and LiveInstance::apply.  A refused command leaves  *)
(* the instance as it is and is no step.                                   *)
Issue(command) ==
    LET applied == apply_without_commit(instance, Background, command)
    IN  /\ phase = "ready"
        /\ applied # Error
        /\ instance' = applied.next
        /\ envelope' = applied.envelope
        /\ phase' = "received"
        /\ UNCHANGED <<durable, faults>>

(* The anchored history, as far as the store holds it.                     *)
Durable == SubSeq(store, 1, Min({anchor.sequence, Len(store)}))

(* An envelope left behind by a crash before the anchor moved is           *)
(* overwritten.                                                            *)
stored == Append(Durable, envelope)

StoreEnvelope ==
    /\ phase = "received"
    /\ store' = stored
    /\ phase' = "stored"
    /\ UNCHANGED <<anchor, anchor_state, effects, instance, envelope, faults>>

AdvanceAnchor ==
    /\ phase = "stored"
    /\ anchor' = [version |-> Version, sequence |-> envelope.sequence, head |-> envelope.digest]
    /\ anchor_state' = instance
    /\ phase' = "anchored"
    /\ UNCHANGED <<store, effects, instance, envelope, faults>>

(* The effect the envelope authorizes, performed at most once per receipt. *)
Effect ==
    /\ phase = "anchored"
    /\ effects' = Append(effects, envelope)
    /\ phase' = "ready"
    /\ envelope' = Error
    /\ UNCHANGED <<store, anchor, anchor_state, instance, faults>>

(* The host does without the effect.                                       *)
Skip ==
    /\ phase = "anchored"
    /\ phase' = "ready"
    /\ envelope' = Error
    /\ UNCHANGED <<durable, instance, faults>>

(* A crash, or the discarding of an instance whose state is in doubt.  A   *)
(* native call still running then ends on a resource nobody holds.         *)
Discard ==
    /\ phase # "down"
    /\ faults < MaxFaults
    /\ faults' = faults + 1
    /\ phase' = "down"
    /\ instance' = Error
    /\ envelope' = Error
    /\ UNCHANGED durable

----------------------------------------------------------------------------
(* What the store may give back for the anchored history: the history, or  *)
(* one that lost its last envelope, kept a stale one beyond the anchor,    *)
(* swapped or repeated two, or has one field of one envelope altered.      *)
Alterations(e) ==
    {[e EXCEPT !.version = v] : v \in Versions} \cup
    {[e EXCEPT !.sequence = s] : s \in 1 .. MaxAcceptedSequence} \cup
    {[e EXCEPT !.command = d] : d \in CommandN} \cup
    {[e EXCEPT !.action = a] : a \in ActionN} \cup
    {[e EXCEPT !.digest = link(e.previous_digest, e.sequence, d, e.action)] : d \in CommandN}

Read ==
    LET places == 1 .. Len(Durable)
    IN  {Durable, store, SubSeq(Durable, 1, Len(Durable) - 1)} \cup
        {[Durable EXCEPT ![i] = Durable[j], ![j] = Durable[i]] : i, j \in places} \cup
        {[Durable EXCEPT ![i] = Durable[j]] : i, j \in places} \cup
        UNION {{[Durable EXCEPT ![i] = e] : e \in Alterations(Durable[i])} : i \in places}

(* Instance.recover with what was read, possibly under a background that   *)
(* was configured wrongly.  An error exposes no instance.                  *)
Recover(background, read) ==
    LET recovered == recover(background, read, anchor)
    IN  /\ phase = "down"
        /\ recovered # Error
        /\ instance' = recovered
        /\ phase' = "ready"
        /\ UNCHANGED <<durable, envelope, faults>>

Next ==
    \/ \E command \in CommandN : Issue(command)
    \/ StoreEnvelope
    \/ AdvanceAnchor
    \/ Effect
    \/ Skip
    \/ Discard
    \/ \E background \in BackgroundN, read \in Read : Recover(background, read)

(* The host's supervisor keeps retrying the recovery, and the store is     *)
(* eventually read undamaged.                                              *)
Fairness == WF_vars(Recover(Background, Durable))

Spec == Init /\ [][Next]_vars /\ Fairness

----------------------------------------------------------------------------
(* A host that is ready holds exactly the instance state it anchored: the  *)
(* state it reached before the crash, or the one a recovery rebuilt from a *)
(* store that may be damaged and a background that may be wrong.           *)
ReadyIsAnchored ==
    phase = "ready" => instance = anchor_state

(* Every effect performed is of an envelope of the anchored history, and   *)
(* effects follow its order: across crashes and recoveries none is         *)
(* performed twice, or after a later one.                                  *)
EffectsOnceAndRecorded ==
    /\ \A i \in DOMAIN effects :
          /\ effects[i].sequence \in DOMAIN Durable
          /\ Durable[effects[i].sequence] = effects[i]
    /\ \A i, j \in DOMAIN effects : i < j => effects[i].sequence < effects[j].sequence

(* What a live instance accepted and the host anchored can be recovered:   *)
(* no limit that only recovery enforces turns an accepted history into a   *)
(* lost one.                                                               *)
HistoryRecoverable ==
    recover(Background, Durable, anchor) = anchor_state

(* A host that is down comes up again, whatever it crashed in the middle   *)
(* of.                                                                     *)
RecoveryCompletes ==
    phase = "down" ~> phase = "ready"
===========================================================================
