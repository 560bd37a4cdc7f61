----------------------------- MODULE HostProofs -----------------------------
(***************************************************************************)
(* A host that keeps to the adapter's ordering comes up in the state it    *)
(* anchored and performs each effect once, for every kernel, any number of *)
(* commands and any number of crashes, whatever its store hands back.      *)
(***************************************************************************)
EXTENDS HostRecovery, ChainProofs

Phases == {"ready", "received", "stored", "anchored", "down"}

TypeOK ==
    /\ store \in Seq(EnvelopeN)
    /\ anchor_state \in InstanceState
    /\ anchor = status(anchor_state)
    /\ phase \in Phases
    /\ instance \in InstanceState \cup {Error}
    /\ envelope \in EnvelopeN \cup {Error}
    /\ effects \in Seq(EnvelopeN)

(* The anchored part of the store leads to the anchored state.             *)
AnchorReplays == Replays(Background, Durable, anchor_state)

(* The envelope in progress is the next link after the anchor.             *)
InProgress ==
    /\ envelope \in EnvelopeN
    /\ instance \in InstanceState
    /\ instance = replay(anchor_state, Background, envelope)

(* How far the host has come, phase by phase.                              *)
Progress ==
    /\ phase \in {"ready", "anchored"} => instance = anchor_state
    /\ phase \in {"received", "stored"} => InProgress
    /\ phase = "stored" => store = stored
    /\ phase = "anchored" =>
          /\ anchor.sequence \in DOMAIN Durable
          /\ envelope = Durable[anchor.sequence]
          /\ envelope.sequence = anchor.sequence

(* An envelope whose effect is yet to come has none behind it.             *)
EffectsBehind ==
    phase = "anchored" => \A i \in DOMAIN effects : effects[i].sequence < anchor.sequence

(* The inductive invariant.                                                *)
HostInv ==
    /\ TypeOK
    /\ AnchorReplays
    /\ Progress
    /\ EffectsOnceAndRecorded
    /\ EffectsBehind

---------------------------------------------------------------------------
(* The smaller of two numbers.                                             *)
LEMMA MinOfTwo ==
    ASSUME NEW m \in Nat, NEW n \in Nat
    PROVE  Min({m, n}) = IF m <= n THEN m ELSE n
  <1> DEFINE x == IF m <= n THEN m ELSE n
  <1>1. x \in {m, n} /\ \A y \in {m, n} : x <= y
    OBVIOUS
  <1>2. \A z \in {m, n} : (\A y \in {m, n} : z <= y) => z = x
    OBVIOUS
  <1> HIDE DEF x
  <1>3. Min({m, n}) = x
    BY <1>1, <1>2 DEF Min
  <1>4. QED
    BY <1>3 DEF x

(* The first envelopes of a store.                                         *)
LEMMA Prefix ==
    ASSUME NEW s \in Seq(EnvelopeN), NEW n \in Nat
    PROVE  LET t == SubSeq(s, 1, Min({n, Len(s)}))
           IN  /\ t \in Seq(EnvelopeN)
               /\ Len(t) = IF n <= Len(s) THEN n ELSE Len(s)
               /\ \A i \in 1 .. Len(t) : t[i] = s[i]
               /\ n <= Len(s) => t = SubSeq(s, 1, n)
  <1> DEFINE m == IF n <= Len(s) THEN n ELSE Len(s)
  <1>1. Len(s) \in Nat
    OBVIOUS
  <1>2. Min({n, Len(s)}) = m /\ m \in Nat /\ m <= Len(s)
    BY <1>1, MinOfTwo
  <1> HIDE DEF m
  <1>3. /\ SubSeq(s, 1, m) \in Seq(EnvelopeN)
        /\ Len(SubSeq(s, 1, m)) = m
        /\ \A i \in 1 .. m : SubSeq(s, 1, m)[i] = s[i]
    BY <1>2
  <1>4. QED
    BY <1>2, <1>3 DEF m

(* The anchored part of the store, as long as the anchor says.             *)
LEMMA DurableIs ==
    ASSUME TypeOK, AnchorReplays
    PROVE  /\ Durable \in Seq(EnvelopeN)
           /\ anchor.sequence \in Nat
           /\ Len(Durable) = anchor.sequence
           /\ DOMAIN Durable = 1 .. anchor.sequence
           /\ anchor.sequence = anchor_state.sequence /\ anchor.head = anchor_state.head
           /\ anchor.version = Version
  <1>1. /\ anchor.sequence = anchor_state.sequence /\ anchor.head = anchor_state.head
        /\ anchor.version = Version
    BY DEF TypeOK, status
  <1>2. anchor.sequence \in Nat
    BY <1>1 DEF TypeOK, InstanceState
  <1>3. Durable \in Seq(EnvelopeN)
    BY <1>2, Prefix DEF TypeOK, Durable
  <1>4. anchor_state.sequence = Len(Durable)
    BY <1>3, HostAssumption, ReplaysDeclare DEF AnchorReplays
  <1>5. QED
    BY <1>1, <1>2, <1>3, <1>4

(* A step that leaves store and anchor alone leaves the anchored history   *)
(* alone.                                                                  *)
LEMMA DurableKept ==
    ASSUME UNCHANGED <<store, anchor, anchor_state>>
    PROVE  /\ Durable' = Durable
           /\ AnchorReplays => AnchorReplays'
           /\ EffectsOnceAndRecorded /\ UNCHANGED effects => EffectsOnceAndRecorded'
  BY DEF Durable, AnchorReplays, EffectsOnceAndRecorded

(* The anchored state is the one the chain stands for, and the replay of   *)
(* the anchored history is that state.                                     *)
LEMMA AnchorReached ==
    ASSUME TypeOK, AnchorReplays
    PROVE  /\ Reached(Background, anchor_state)
           /\ replay_history(Background, Durable) = anchor_state
  <1>1. Durable \in Seq(EnvelopeN)
    BY DurableIs
  <1>2. replay_history(Background, Durable) = anchor_state
    BY <1>1, ReplayDetermined DEF AnchorReplays
  <1>3. anchor_state # Error
    BY ErrorAssumption DEF TypeOK
  <1>4. QED
    BY <1>1, <1>2, <1>3, HostAssumption, ReplayReached

(* However the store was damaged, what it gives back are envelopes.        *)
LEMMA ReadTyped ==
    ASSUME TypeOK, AnchorReplays
    PROVE  Read \subseteq Seq(EnvelopeN)
  <1> DEFINE n == Len(Durable)
  <1>1. /\ Durable \in Seq(EnvelopeN) /\ n \in Nat
        /\ \A i \in 1 .. n : Durable[i] \in EnvelopeN
    BY DurableIs
  <1>2. store \in Seq(EnvelopeN)
    BY DEF TypeOK
  <1>3. SubSeq(Durable, 1, n - 1) \in Seq(EnvelopeN)
    BY <1>1
  <1>4. \A i \in 1 .. n, e \in EnvelopeN : [Durable EXCEPT ![i] = e] \in Seq(EnvelopeN)
    BY <1>1
  <1>5. \A i, j \in 1 .. n :
            [Durable EXCEPT ![i] = Durable[j], ![j] = Durable[i]] \in Seq(EnvelopeN)
    BY <1>1
  <1>6. ASSUME NEW e \in EnvelopeN
        PROVE  Alterations(e) \subseteq EnvelopeN
    <2>1. \A d \in CommandN : link(e.previous_digest, e.sequence, d, e.action) \in Digest
      BY LinkDigest DEF EnvelopeN
    <2>2. \A s \in 1 .. MaxAcceptedSequence : s \in Nat
      BY ChainAssumption
    <2>3. /\ \A v \in Versions : [e EXCEPT !.version = v] \in EnvelopeN
          /\ \A s \in Nat : [e EXCEPT !.sequence = s] \in EnvelopeN
          /\ \A d \in CommandN : [e EXCEPT !.command = d] \in EnvelopeN
          /\ \A a \in ActionN : [e EXCEPT !.action = a] \in EnvelopeN
          /\ \A x \in Digest : [e EXCEPT !.digest = x] \in EnvelopeN
      BY DEF EnvelopeN
    <2>4. QED
      BY <2>1, <2>2, <2>3 DEF Alterations
  <1> DEFINE places == 1 .. n
  <1>7. /\ \A i \in places, j \in places :
              [Durable EXCEPT ![i] = Durable[j]] \in Seq(EnvelopeN)
        /\ \A i \in places : \A e \in Alterations(Durable[i]) :
              [Durable EXCEPT ![i] = e] \in Seq(EnvelopeN)
    BY <1>1, <1>4, <1>6
  <1> DEFINE swapped ==
                {[Durable EXCEPT ![i] = Durable[j], ![j] = Durable[i]] : i, j \in places}
             repeated == {[Durable EXCEPT ![i] = Durable[j]] : i, j \in places}
             altered ==
                UNION {{[Durable EXCEPT ![i] = e] : e \in Alterations(Durable[i])} : i \in places}
  <1>8. Read = {Durable, store, SubSeq(Durable, 1, n - 1)} \cup swapped \cup repeated
                    \cup altered
    BY DEF Read
  <1> HIDE DEF n, places
  <1>9. altered \subseteq Seq(EnvelopeN)
    BY <1>7
  <1>10. repeated \subseteq Seq(EnvelopeN)
    BY <1>7
  <1>11. swapped \subseteq Seq(EnvelopeN)
    BY <1>5 DEF places
  <1> HIDE DEF swapped, repeated, altered
  <1>12. QED
    BY <1>1, <1>2, <1>3, <1>8, <1>9, <1>10, <1>11

(* A recovery that succeeds, from whatever was read and under whatever     *)
(* background, gives back the anchored state.                              *)
LEMMA RecoveredIsAnchored ==
    ASSUME TypeOK, AnchorReplays, NEW b \in BackgroundN, NEW read \in Read,
           recover(b, read, anchor) # Error
    PROVE  recover(b, read, anchor) = anchor_state
  <1> DEFINE final == replay_history(b, read)
  <1>1. /\ recover(b, read, anchor) = final
        /\ final # Error
        /\ anchor.sequence = final.sequence /\ anchor.head = final.head
    BY DEF recover, anchored
  <1>2. final \in InstanceState /\ Reached(b, final)
    BY <1>1, ReadTyped, ReplayReached
  <1> HIDE DEF final
  <1>3. /\ anchor.sequence = anchor_state.sequence /\ anchor.head = anchor_state.head
        /\ anchor_state \in InstanceState /\ Reached(Background, anchor_state)
    BY DurableIs, AnchorReached DEF TypeOK
  <1>4. final.kernel = anchor_state.kernel
    BY <1>1, <1>2, <1>3, HeadDetermines
  <1>5. \A s, t \in InstanceState :
            s.kernel = t.kernel /\ s.sequence = t.sequence /\ s.head = t.head => s = t
    BY DEF InstanceState
  <1>6. QED
    BY <1>1, <1>2, <1>3, <1>4, <1>5
---------------------------------------------------------------------------
(* The host starts with an anchored genesis.                               *)
LEMMA HostInit ==
    Init => HostInv
  <1> SUFFICES ASSUME Init PROVE HostInv
    OBVIOUS
  <1>1. /\ instance \in InstanceState
        /\ instance.sequence = 0
        /\ Replays(Background, << >>, instance)
    BY HostAssumption, InitialReached, ReplaysNothing DEF Init, initial_instance
  <1>2. TypeOK
    BY <1>1 DEF Init, TypeOK, Phases
  <1>3. anchor.sequence = 0
    BY <1>1 DEF Init, status
  <1>4. << >> \in Seq(EnvelopeN) /\ Len(<< >>) = 0
    OBVIOUS
  <1>5. Durable \in Seq(EnvelopeN) /\ Len(Durable) = 0
    <2>1. 0 \in Nat /\ store = << >> /\ store \in Seq(EnvelopeN)
      BY <1>4 DEF Init
    <2>2. LET t == SubSeq(store, 1, Min({0, Len(store)}))
          IN  t \in Seq(EnvelopeN) /\ Len(t) = IF 0 <= Len(store) THEN 0 ELSE Len(store)
      BY <2>1, Prefix
    <2>3. QED
      BY <1>3, <1>4, <2>1, <2>2 DEF Durable
  <1>6. Durable = << >>
    BY <1>5
  <1>7. AnchorReplays
    BY <1>1, <1>6 DEF Init, AnchorReplays
  <1>8. Progress /\ EffectsBehind
    BY DEF Init, Progress, EffectsBehind
  <1>9. EffectsOnceAndRecorded
    BY DEF Init, EffectsOnceAndRecorded
  <1>10. QED
    BY <1>2, <1>7, <1>8, <1>9 DEF HostInv

(* A command's envelope is the next link after the anchored state.         *)
LEMMA HostIssue ==
    ASSUME HostInv, NEW command \in CommandN, Issue(command)
    PROVE  HostInv'
  <1> DEFINE applied == apply_without_commit(instance, Background, command)
  <1>1. /\ phase = "ready" /\ applied # Error
        /\ instance' = applied.next /\ envelope' = applied.envelope
        /\ phase' = "received"
        /\ UNCHANGED <<store, anchor, anchor_state, effects>>
    BY DEF Issue, durable
  <1>2. instance = anchor_state /\ instance \in InstanceState
    BY <1>1 DEF HostInv, TypeOK, Progress
  <1>3. applied.next \in InstanceState /\ applied.envelope \in EnvelopeN
    BY <1>1, <1>2, HostAssumption, ApplyFollows
  <1>4. replay(instance, Background, applied.envelope) = applied.next
    BY <1>1, <1>2, HostAssumption, AppliedReplays
  <1> HIDE DEF applied
  <1>5. InProgress'
    BY <1>1, <1>2, <1>3, <1>4 DEF InProgress
  <1>6. TypeOK'
    BY <1>1, <1>3 DEF HostInv, TypeOK, Phases
  <1>7. Progress' /\ EffectsBehind'
    BY <1>1, <1>5 DEF Progress, EffectsBehind
  <1>8. AnchorReplays' /\ EffectsOnceAndRecorded'
    BY <1>1, DurableKept DEF HostInv
  <1>9. QED
    BY <1>6, <1>7, <1>8 DEF HostInv

(* The envelope in progress and the anchor it follows.                     *)
LEMMA NextLink ==
    ASSUME TypeOK, AnchorReplays, InProgress
    PROVE  /\ envelope.sequence = anchor.sequence + 1
           /\ instance.sequence = envelope.sequence
           /\ instance.head = envelope.digest
           /\ stored \in Seq(EnvelopeN)
           /\ Len(stored) = anchor.sequence + 1
           /\ stored[anchor.sequence + 1] = envelope
           /\ \A i \in 1 .. anchor.sequence : stored[i] = Durable[i]
  <1>1. /\ envelope.sequence = anchor_state.sequence + 1
        /\ instance.sequence = envelope.sequence
        /\ instance.head = envelope.digest
    BY HostAssumption, ReplayLinks DEF InProgress, TypeOK
  <1>2. envelope \in EnvelopeN
    BY DEF InProgress
  <1>3. /\ Durable \in Seq(EnvelopeN) /\ Len(Durable) = anchor.sequence
        /\ anchor.sequence = anchor_state.sequence
    BY DurableIs
  <1>4. /\ stored \in Seq(EnvelopeN)
        /\ Len(stored) = Len(Durable) + 1
        /\ stored[Len(Durable) + 1] = envelope
        /\ \A i \in 1 .. Len(Durable) : stored[i] = Durable[i]
    BY <1>2, <1>3 DEF stored
  <1>5. QED
    BY <1>1, <1>3, <1>4

(* Storing the envelope replaces what a crash left behind the anchored     *)
(* history and nothing of the history itself.                              *)
LEMMA HostStores ==
    ASSUME HostInv, StoreEnvelope
    PROVE  HostInv'
  <1>1. /\ phase = "received" /\ store' = stored /\ phase' = "stored"
        /\ UNCHANGED <<anchor, anchor_state, effects, instance, envelope>>
    BY DEF StoreEnvelope
  <1>2. TypeOK /\ AnchorReplays /\ InProgress
    BY <1>1 DEF HostInv, Progress
  <1>3. /\ stored \in Seq(EnvelopeN)
        /\ Len(stored) = anchor.sequence + 1
        /\ \A i \in 1 .. anchor.sequence : stored[i] = Durable[i]
    BY <1>2, NextLink
  <1>4. /\ Durable \in Seq(EnvelopeN) /\ anchor.sequence \in Nat
        /\ Len(Durable) = anchor.sequence
    BY <1>2, DurableIs
  <1>5. Durable' = Durable
    <2> DEFINE t == SubSeq(stored, 1, Min({anchor.sequence, Len(stored)}))
    <2>1. /\ t \in Seq(EnvelopeN)
          /\ Len(t) = IF anchor.sequence <= Len(stored) THEN anchor.sequence ELSE Len(stored)
          /\ \A i \in 1 .. Len(t) : t[i] = stored[i]
      BY <1>3, <1>4, Prefix
    <2>2. Durable' = t
      BY <1>1 DEF Durable
    <2> HIDE DEF t
    <2>3. Len(t) = Len(Durable) /\ \A i \in 1 .. Len(t) : t[i] = Durable[i]
      BY <1>3, <1>4, <2>1
    <2>4. t = Durable
      BY <1>4, <2>1, <2>3
    <2>5. QED
      BY <2>2, <2>4
  <1>6. TypeOK'
    BY <1>1, <1>2, <1>3 DEF TypeOK, Phases
  <1>7. AnchorReplays' /\ EffectsOnceAndRecorded'
    BY <1>1, <1>5 DEF HostInv, AnchorReplays, EffectsOnceAndRecorded
  <1>8. Progress'
    <2>1. InProgress'
      BY <1>1, <1>2 DEF InProgress
    <2>2. stored' = store'
      BY <1>1, <1>5 DEF stored
    <2>3. QED
      BY <1>1, <2>1, <2>2 DEF Progress
  <1>9. QED
    BY <1>1, <1>6, <1>7, <1>8 DEF HostInv, EffectsBehind

(* The anchor moves to the stored envelope, so the stored envelope joins   *)
(* the anchored history and no effect of it has been performed.            *)
LEMMA HostAdvances ==
    ASSUME HostInv, AdvanceAnchor
    PROVE  HostInv'
  <1>1. /\ phase = "stored"
        /\ anchor' = [version |-> Version, sequence |-> envelope.sequence,
                      head |-> envelope.digest]
        /\ anchor_state' = instance /\ phase' = "anchored"
        /\ UNCHANGED <<store, effects, instance, envelope>>
    BY DEF AdvanceAnchor
  <1>2. TypeOK /\ AnchorReplays /\ InProgress /\ store = stored
    BY <1>1 DEF HostInv, Progress
  <1>3. /\ envelope.sequence = anchor.sequence + 1
        /\ instance.sequence = envelope.sequence /\ instance.head = envelope.digest
        /\ stored \in Seq(EnvelopeN) /\ Len(stored) = anchor.sequence + 1
        /\ stored[anchor.sequence + 1] = envelope
        /\ \A i \in 1 .. anchor.sequence : stored[i] = Durable[i]
    BY <1>2, NextLink
  <1>4. /\ Durable \in Seq(EnvelopeN) /\ anchor.sequence \in Nat
        /\ DOMAIN Durable = 1 .. anchor.sequence
    BY <1>2, DurableIs
  <1>5. anchor'.sequence = anchor.sequence + 1
    BY <1>1, <1>3
  <1>6. Durable' = stored
    <2> DEFINE n == anchor.sequence + 1
               t == SubSeq(stored, 1, Min({n, Len(stored)}))
    <2>1. n \in Nat
      BY <1>4
    <2>2. /\ t \in Seq(EnvelopeN) /\ Len(t) = n
          /\ \A i \in 1 .. Len(t) : t[i] = stored[i]
      BY <1>3, <2>1, Prefix
    <2>3. Durable' = t
      BY <1>1, <1>2, <1>5 DEF Durable
    <2> HIDE DEF t
    <2>4. t = stored
      BY <1>3, <2>2
    <2>5. QED
      BY <2>3, <2>4
  <1>7. DOMAIN stored = 1 .. anchor.sequence + 1
    BY <1>3
  <1>8. TypeOK'
    BY <1>1, <1>2, <1>3 DEF TypeOK, InProgress, status, Phases
  <1>9. AnchorReplays'
    <2>1. Replays(Background, stored, instance)
      BY <1>2, <1>4, HostAssumption, ReplaysAppend DEF AnchorReplays, InProgress, stored
    <2>2. QED
      BY <1>1, <1>6, <2>1 DEF AnchorReplays
  <1>10. Progress'
    BY <1>1, <1>3, <1>4, <1>5, <1>6, <1>7 DEF Progress
  <1>11. EffectsOnceAndRecorded' /\ EffectsBehind'
    <2>1. \A i \in DOMAIN effects :
            /\ effects[i].sequence \in 1 .. anchor.sequence
            /\ Durable[effects[i].sequence] = effects[i]
      BY <1>4 DEF HostInv, EffectsOnceAndRecorded
    <2>2. \A i \in DOMAIN effects :
            /\ effects[i].sequence \in DOMAIN stored
            /\ stored[effects[i].sequence] = effects[i]
            /\ effects[i].sequence < anchor.sequence + 1
      BY <1>3, <1>4, <1>7, <2>1
    <2>3. \A i, j \in DOMAIN effects : i < j => effects[i].sequence < effects[j].sequence
      BY DEF HostInv, EffectsOnceAndRecorded
    <2>4. QED
      BY <1>1, <1>5, <1>6, <2>2, <2>3 DEF EffectsOnceAndRecorded, EffectsBehind
  <1>12. QED
    BY <1>8, <1>9, <1>10, <1>11 DEF HostInv

(* The effect comes after the anchor that records it.                      *)
LEMMA HostPerforms ==
    ASSUME HostInv, Effect
    PROVE  HostInv'
  <1>1. /\ phase = "anchored" /\ effects' = Append(effects, envelope)
        /\ phase' = "ready" /\ envelope' = Error
        /\ UNCHANGED <<store, anchor, anchor_state, instance>>
    BY DEF Effect
  <1>2. /\ TypeOK /\ AnchorReplays /\ instance = anchor_state
        /\ anchor.sequence \in DOMAIN Durable
        /\ envelope = Durable[anchor.sequence] /\ envelope.sequence = anchor.sequence
        /\ \A i \in DOMAIN effects : effects[i].sequence < anchor.sequence
    BY <1>1 DEF HostInv, Progress, EffectsBehind
  <1>3. effects \in Seq(EnvelopeN)
    BY <1>2 DEF TypeOK
  <1>4. envelope \in EnvelopeN
    BY <1>2, DurableIs
  <1> DEFINE n == Len(effects)
  <1>5. /\ effects' \in Seq(EnvelopeN) /\ n \in Nat
        /\ DOMAIN effects = 1 .. n /\ DOMAIN effects' = 1 .. n + 1
        /\ effects'[n + 1] = envelope
        /\ \A i \in 1 .. n : effects'[i] = effects[i]
    BY <1>1, <1>3, <1>4
  <1>6. Durable' = Durable /\ AnchorReplays'
    BY <1>1, <1>2, DurableKept
  <1>7. TypeOK'
    BY <1>1, <1>2, <1>5 DEF TypeOK, Phases
  <1>8. Progress' /\ EffectsBehind'
    BY <1>1, <1>2 DEF Progress, EffectsBehind
  <1>9. EffectsOnceAndRecorded'
    <2> HIDE DEF n
    <2>1. ASSUME NEW i \in 1 .. n + 1
          PROVE  /\ effects'[i].sequence \in DOMAIN Durable
                 /\ Durable[effects'[i].sequence] = effects'[i]
      <3>1. CASE i = n + 1
        BY <1>2, <1>5, <3>1
      <3>2. CASE i # n + 1
        <4>1. i \in 1 .. n
          BY <1>5, <3>2
        <4>2. QED
          BY <1>5, <4>1 DEF HostInv, EffectsOnceAndRecorded
      <3>3. QED
        BY <3>1, <3>2
    <2>2. ASSUME NEW i \in 1 .. n + 1, NEW j \in 1 .. n + 1, i < j
          PROVE  effects'[i].sequence < effects'[j].sequence
      <3>1. i \in 1 .. n /\ effects'[i] = effects[i]
        BY <1>5, <2>2
      <3>2. CASE j = n + 1
        BY <1>2, <1>5, <3>1, <3>2
      <3>3. CASE j # n + 1
        <4>1. j \in 1 .. n /\ effects'[j] = effects[j]
          BY <1>5, <3>3
        <4>2. QED
          BY <1>5, <2>2, <3>1, <4>1 DEF HostInv, EffectsOnceAndRecorded
      <3>4. QED
        BY <3>2, <3>3
    <2>3. QED
      BY <1>5, <1>6, <2>1, <2>2 DEF EffectsOnceAndRecorded
  <1>10. QED
    BY <1>6, <1>7, <1>8, <1>9 DEF HostInv

(* Giving up an effect, losing the instance and rebuilding it leave what   *)
(* is durable alone.                                                       *)
LEMMA HostKeeps ==
    ASSUME HostInv,
           \/ Skip
           \/ Discard
           \/ \E background \in BackgroundN, read \in Read : Recover(background, read)
    PROVE  HostInv'
  <1>1. /\ UNCHANGED <<store, anchor, anchor_state, effects>>
        /\ phase' \in {"ready", "down"}
        /\ envelope' \in {envelope, Error}
    BY DEF Skip, Discard, Recover, durable
  <1>2. /\ instance' \in {anchor_state, Error}
        /\ phase' = "ready" => instance' = anchor_state
    <2>1. CASE Skip
      BY <2>1 DEF HostInv, Progress, Skip
    <2>2. CASE Discard
      BY <2>2 DEF Discard
    <2>3. CASE \E background \in BackgroundN, read \in Read : Recover(background, read)
      <3>1. PICK background \in BackgroundN, read \in Read : Recover(background, read)
        BY <2>3
      <3>2. /\ recover(background, read, anchor) # Error
            /\ instance' = recover(background, read, anchor)
        BY <3>1 DEF Recover
      <3>3. QED
        BY <3>2, RecoveredIsAnchored DEF HostInv
    <2>4. QED
      BY <2>1, <2>2, <2>3
  <1>3. TypeOK'
    BY <1>1, <1>2 DEF HostInv, TypeOK, Phases
  <1>4. Progress' /\ EffectsBehind'
    BY <1>1, <1>2 DEF Progress, EffectsBehind
  <1>5. AnchorReplays' /\ EffectsOnceAndRecorded'
    BY <1>1, DurableKept DEF HostInv
  <1>6. QED
    BY <1>3, <1>4, <1>5 DEF HostInv

(* The invariant of a host, over all its runs.                             *)
THEOREM HostInvariant ==
    Spec => []HostInv
  <1>1. Init => HostInv
    BY HostInit
  <1>2. HostInv /\ [Next]_vars => HostInv'
    <2> SUFFICES ASSUME HostInv, [Next]_vars PROVE HostInv'
      OBVIOUS
    <2>1. CASE \E command \in CommandN : Issue(command)
      BY <2>1, HostIssue
    <2>2. CASE StoreEnvelope
      BY <2>2, HostStores
    <2>3. CASE AdvanceAnchor
      BY <2>3, HostAdvances
    <2>4. CASE Effect
      BY <2>4, HostPerforms
    <2>5. CASE Skip \/ Discard
      BY <2>5, HostKeeps
    <2>6. CASE \E background \in BackgroundN, read \in Read : Recover(background, read)
      BY <2>6, HostKeeps
    <2>7. CASE UNCHANGED vars
      BY <2>7 DEF vars, HostInv, TypeOK, AnchorReplays, Progress, InProgress, stored,
                  EffectsBehind, EffectsOnceAndRecorded, Durable
    <2>8. QED
      BY <2>1, <2>2, <2>3, <2>4, <2>5, <2>6, <2>7 DEF Next
  <1>3. QED
    BY <1>1, <1>2, PTL DEF Spec

(* A host that is ready holds the state it anchored, however often it      *)
(* crashed and whatever its store gave back.                               *)
THEOREM ReadyIsAnchoredHolds ==
    Spec => []ReadyIsAnchored
  <1>1. HostInv => ReadyIsAnchored
    BY DEF HostInv, Progress, ReadyIsAnchored
  <1>2. QED
    BY <1>1, HostInvariant, PTL

(* No effect is performed unrecorded, twice or out of order.               *)
THEOREM EffectsOnceAndRecordedHolds ==
    Spec => []EffectsOnceAndRecorded
  <1>1. HostInv => EffectsOnceAndRecorded
    BY DEF HostInv
  <1>2. QED
    BY <1>1, HostInvariant, PTL

(* An anchored history is recoverable as long as its content stays within  *)
(* the bound that only a recovery enforces: no other check of a recovery,  *)
(* of the Elixir validation or of the native replay, can lose it.          *)
THEOREM HistoryRecoverableWithinBound ==
    Spec => [](content(Durable) <= MaxReplayContent => HistoryRecoverable)
  <1>1. ASSUME HostInv, content(Durable) <= MaxReplayContent
        PROVE  HistoryRecoverable
    <2>1. TypeOK /\ AnchorReplays
      BY <1>1 DEF HostInv
    <2>2. /\ Durable \in Seq(EnvelopeN) /\ anchor.sequence \in Nat
          /\ Len(Durable) = anchor.sequence
          /\ anchor.sequence = anchor_state.sequence /\ anchor.head = anchor_state.head
          /\ anchor.version = Version
      BY <2>1, DurableIs
    <2>3. replay_history(Background, Durable) = anchor_state
      BY <2>1, AnchorReached
    <2>4. /\ Len(Durable) > 0 => anchor_state.head = Durable[Len(Durable)].digest
          /\ \A i \in 1 .. Len(Durable) : declared(Durable, i)
      BY <2>1, <2>2, HostAssumption, ReplaysDeclare DEF AnchorReplays
    <2>5. Durable # << >> => Len(Durable) > 0
      BY <2>2
    <2>6. ends_at(Durable, anchor)
      BY <2>2, <2>4, <2>5 DEF ends_at, Last
    <2>7. validated(Durable, anchor)
      BY <1>1, <2>4, <2>6 DEF validated
    <2>8. anchor_state # Error
      BY <2>1, ErrorAssumption DEF TypeOK
    <2>9. anchored(anchor_state, anchor)
      BY <2>2 DEF anchored
    <2>10. QED
      BY <2>3, <2>7, <2>8, <2>9 DEF HistoryRecoverable, recover
  <1>2. HostInv => (content(Durable) <= MaxReplayContent => HistoryRecoverable)
    BY <1>1
  <1>3. QED
    BY <1>2, HostInvariant, PTL
===========================================================================
