---------------------------- MODULE ChainProofs ----------------------------
(***************************************************************************)
(* Lemmas about the adapter's value layer: what a link, an accepted        *)
(* command and a replayed envelope do to an instance state, that the head  *)
(* of a chain determines the kernel state, and what the replay of a whole  *)
(* history computes.                                                       *)
(***************************************************************************)
EXTENDS DigestChain, WellFoundedInduction, TLAPS

(* A state follows another by one command, with the envelope to show.      *)
Follows(background, current, next, envelope) ==
    \E command \in CommandN, action \in ActionN :
        /\ next.sequence = current.sequence + 1
        /\ next.head = link(current.head, next.sequence, command, action)
        /\ next.kernel = Apply(current.kernel, background, command).state
        /\ envelope.sequence = next.sequence
        /\ envelope.digest = next.head

(* The kernel states a head stands for, one per link: the commands of the  *)
(* links lead from the initial state to the present one.                   *)
Trace(background, current, trace) ==
    /\ trace \in [1 .. current.sequence + 1 -> KernelStates]
    /\ trace[1] = KernelInitial
    /\ \A i \in 1 .. current.sequence :
          trace[i + 1] = Apply(trace[i], background, current.head[i + 1].command).state
    /\ trace[current.sequence + 1] = current.kernel

(* A state whose head tells how it was reached.                            *)
Reached(background, current) ==
    /\ Len(current.head) = current.sequence + 1
    /\ current.head[1] = background
    /\ \E trace : Trace(background, current, trace)

(* The envelopes are the links of a chain.                                 *)
IsChain(envelopes, current) ==
    /\ Len(envelopes) = current.sequence
    /\ \A i \in 1 .. Len(envelopes) :
          /\ envelopes[i].sequence = i
          /\ envelopes[i].digest = SubSeq(current.head, 1, i + 1)

---------------------------------------------------------------------------
(* Appending a link to a digest.                                           *)
LEMMA LinkDigest ==
    ASSUME NEW head \in Digest, NEW n \in Nat, NEW c \in CommandN, NEW a \in ActionN
    PROVE  /\ link(head, n, c, a) \in Digest
           /\ Len(link(head, n, c, a)) = Len(head) + 1
           /\ \A i \in 1 .. Len(head) : link(head, n, c, a)[i] = head[i]
           /\ link(head, n, c, a)[Len(head) + 1].command = c
  <1> DEFINE x == [sequence |-> n, command |-> c, action |-> a]
  <1>1. x \in BackgroundN \cup Link /\ x.command = c
    BY DEF Link
  <1> HIDE DEF x
  <1>2. /\ Append(head, x) \in Digest
        /\ Len(Append(head, x)) = Len(head) + 1
        /\ \A i \in 1 .. Len(head) : Append(head, x)[i] = head[i]
        /\ Append(head, x)[Len(head) + 1] = x
    BY <1>1 DEF Digest
  <1>3. QED
    BY <1>1, <1>2 DEF link, x

(* A command that passes the preflight and the kernel leads to a state     *)
(* that follows the present one.                                           *)
LEMMA AcceptedFollows ==
    ASSUME NEW current \in InstanceState, NEW b \in BackgroundN, NEW command \in CommandN,
           preflight(current, command), Apply(current.kernel, b, command) # Refused
    PROVE  LET applied == apply_without_commit(current, b, command)
           IN  /\ applied \in [next : InstanceState, envelope : EnvelopeN]
               /\ applied # Error
               /\ applied.envelope.digest = applied.next.head
               /\ applied.next.sequence = current.sequence + 1
               /\ Follows(b, current, applied.next, applied.envelope)
  <1> DEFINE result == Apply(current.kernel, b, command)
             n == current.sequence + 1
             head == link(current.head, n, command, result.action)
             next == [kernel |-> result.state, sequence |-> n, head |-> head]
             envelope == [version |-> Version, sequence |-> n,
                          previous_digest |-> current.head, digest |-> head,
                          command |-> command, action |-> result.action]
  <1>1. apply_without_commit(current, b, command) = [next |-> next, envelope |-> envelope]
    BY DEF apply_without_commit
  <1>2. current.kernel \in KernelStates /\ current.sequence \in Nat /\ current.head \in Digest
    BY DEF InstanceState
  <1>3. result.state \in KernelStates /\ result.action \in ActionN
    <2>1. result \in [state : KernelStates, action : ActionN]
      BY <1>2, KernelAssumption
    <2>2. QED
      BY <2>1
  <1>4. n \in Nat
    BY <1>2
  <1> HIDE DEF result, n
  <1>5. head \in Digest
    BY <1>2, <1>3, <1>4, LinkDigest
  <1> HIDE DEF head
  <1>6. next \in InstanceState /\ envelope \in EnvelopeN
    BY <1>2, <1>3, <1>4, <1>5, ChainAssumption DEF InstanceState, EnvelopeN
  <1>7. Follows(b, current, next, envelope)
    BY <1>3 DEF Follows, head, n, result
  <1>8. next.sequence = n /\ next.head = head /\ envelope.digest = head
    OBVIOUS
  <1> HIDE DEF next, envelope
  <1>9. QED
    BY <1>1, <1>6, <1>7, <1>8, ErrorAssumption DEF n

(* apply_without_commit leads from a state to one that follows it.         *)
LEMMA ApplyFollows ==
    ASSUME NEW current \in InstanceState, NEW b \in BackgroundN, NEW command \in CommandN,
           apply_without_commit(current, b, command) # Error
    PROVE  LET applied == apply_without_commit(current, b, command)
           IN  /\ applied.next \in InstanceState
               /\ applied.envelope \in EnvelopeN
               /\ applied.envelope.digest = applied.next.head
               /\ applied.next.sequence = current.sequence + 1
               /\ Follows(b, current, applied.next, applied.envelope)
  <1>1. preflight(current, command) /\ Apply(current.kernel, b, command) # Refused
    BY DEF apply_without_commit
  <1>2. QED
    BY <1>1, AcceptedFollows

(* RecoveryInstance::replay accepts an envelope only for such a step.      *)
LEMMA ReplayFollows ==
    ASSUME NEW current \in InstanceState, NEW b \in BackgroundN, NEW recorded \in EnvelopeN,
           replay(current, b, recorded) # Error
    PROVE  /\ replay(current, b, recorded) \in InstanceState
           /\ Follows(b, current, replay(current, b, recorded), recorded)
  <1> DEFINE applied == apply_without_commit(current, b, recorded.command)
  <1>1. /\ applied # Error
        /\ replay(current, b, recorded) = applied.next
        /\ recorded.sequence = current.sequence + 1
        /\ recorded.digest = applied.envelope.digest
    BY DEF replay
  <1>2. recorded.command \in CommandN
    BY DEF EnvelopeN
  <1>3. /\ applied.next \in InstanceState
        /\ applied.envelope.digest = applied.next.head
        /\ applied.next.sequence = current.sequence + 1
        /\ Follows(b, current, applied.next, applied.envelope)
    BY <1>1, <1>2, ApplyFollows
  <1> HIDE DEF applied
  <1>4. QED
    BY <1>1, <1>3 DEF Follows

(* The initial state of an instance.                                       *)
LEMMA InitialReached ==
    ASSUME NEW b \in BackgroundN
    PROVE  /\ initial_instance(b) \in InstanceState
           /\ Reached(b, initial_instance(b))
           /\ IsChain(<< >>, initial_instance(b))
  <1> DEFINE current == initial_instance(b)
             trace == [i \in 1 .. 1 |-> KernelInitial]
  <1>1. /\ current.kernel = KernelInitial /\ current.sequence = 0 /\ current.head = <<b>>
        /\ current \in InstanceState
    BY KernelAssumption DEF initial_instance, genesis, InstanceState, Digest
  <1>2. Len(<<b>>) = 1 /\ <<b>>[1] = b
    OBVIOUS
  <1>3. Trace(b, current, trace)
    BY <1>1, KernelAssumption DEF Trace
  <1> HIDE DEF current
  <1>4. Reached(b, current)
    BY <1>1, <1>2, <1>3 DEF Reached
  <1>5. IsChain(<< >>, current)
    BY <1>1 DEF IsChain
  <1>6. QED
    BY <1>1, <1>4, <1>5 DEF current

(* A step extends the trace of kernel states by one.                       *)
LEMMA FollowsReached ==
    ASSUME NEW b \in BackgroundN, NEW current \in InstanceState, NEW next \in InstanceState,
           NEW e, Follows(b, current, next, e), Reached(b, current)
    PROVE  Reached(b, next)
  <1>1. PICK c \in CommandN, a \in ActionN :
            /\ next.sequence = current.sequence + 1
            /\ next.head = link(current.head, next.sequence, c, a)
            /\ next.kernel = Apply(current.kernel, b, c).state
    BY DEF Follows
  <1>2. PICK trace : Trace(b, current, trace)
    BY DEF Reached
  <1> DEFINE n == current.sequence
             longer == [i \in 1 .. n + 2 |-> IF i = n + 2 THEN next.kernel ELSE trace[i]]
  <1>3. n \in Nat /\ next.sequence \in Nat /\ current.head \in Digest /\ next.kernel \in KernelStates
    BY DEF InstanceState
  <1>4. Len(current.head) = n + 1 /\ current.head[1] = b
    BY DEF Reached
  <1>5. /\ Len(next.head) = n + 2
        /\ \A i \in 1 .. n + 1 : next.head[i] = current.head[i]
        /\ next.head[n + 2].command = c
    <2>1. /\ Len(next.head) = Len(current.head) + 1
          /\ \A i \in 1 .. Len(current.head) : next.head[i] = current.head[i]
          /\ next.head[Len(current.head) + 1].command = c
      BY <1>1, <1>3, LinkDigest
    <2>2. Len(current.head) = n + 1 /\ Len(current.head) + 1 = n + 2
      BY <1>3, <1>4
    <2> HIDE DEF n
    <2>3. QED
      BY <2>1, <2>2
  <1>6. /\ trace \in [1 .. n + 1 -> KernelStates]
        /\ trace[1] = KernelInitial
        /\ \A i \in 1 .. n : trace[i + 1] = Apply(trace[i], b, current.head[i + 1].command).state
        /\ trace[n + 1] = current.kernel
    BY <1>2 DEF Trace
  <1>7. next.sequence = n + 1
    BY <1>1
  <1> HIDE DEF n
  <1>8. Trace(b, next, longer)
    <2>1. longer \in [1 .. n + 2 -> KernelStates]
      BY <1>3, <1>6
    <2>2. longer[1] = KernelInitial /\ longer[n + 2] = next.kernel
      BY <1>3, <1>6
    <2>3. ASSUME NEW i \in 1 .. n + 1
          PROVE  longer[i + 1] = Apply(longer[i], b, next.head[i + 1].command).state
      <3>1. CASE i = n + 1
        BY <1>1, <1>3, <1>5, <1>6, <3>1
      <3>2. CASE i # n + 1
        <4>1. i \in 1 .. n /\ i + 1 \in 1 .. n + 1
          BY <1>3, <3>2
        <4>2. longer[i] = trace[i] /\ longer[i + 1] = trace[i + 1]
          BY <1>3, <4>1
        <4>3. next.head[i + 1] = current.head[i + 1]
          BY <1>5, <4>1
        <4>4. QED
          BY <1>6, <4>1, <4>2, <4>3
      <3>3. QED
        BY <3>1, <3>2
    <2> HIDE DEF longer
    <2>4. next.sequence + 1 = n + 2
      BY <1>3, <1>7
    <2>5. QED
      BY <1>7, <2>1, <2>2, <2>3, <2>4 DEF Trace
  <1>9. QED
    BY <1>3, <1>4, <1>5, <1>7, <1>8 DEF Reached

(* Its envelope extends the chain.                                         *)
LEMMA FollowsChain ==
    ASSUME NEW b, NEW current \in InstanceState, NEW next \in InstanceState,
           NEW e \in EnvelopeN, Follows(b, current, next, e),
           Len(current.head) = current.sequence + 1,
           NEW envelopes \in Seq(EnvelopeN), IsChain(envelopes, current)
    PROVE  IsChain(Append(envelopes, e), next)
  <1> DEFINE n == current.sequence
             longer == Append(envelopes, e)
  <1>1. PICK c \in CommandN, a \in ActionN :
            /\ next.sequence = current.sequence + 1
            /\ next.head = link(current.head, next.sequence, c, a)
            /\ e.sequence = next.sequence
            /\ e.digest = next.head
    BY DEF Follows
  <1>2. /\ n \in Nat /\ next.sequence \in Nat
        /\ current.head \in Digest /\ next.head \in Digest
    BY DEF InstanceState
  <1>3. /\ Len(next.head) = n + 2
        /\ \A i \in 1 .. n + 1 : next.head[i] = current.head[i]
    <2> DEFINE linked == link(current.head, next.sequence, c, a)
    <2>0. /\ Len(linked) = Len(current.head) + 1
          /\ \A i \in 1 .. Len(current.head) : linked[i] = current.head[i]
      <3>1. current.head \in Digest /\ next.sequence \in Nat /\ c \in CommandN /\ a \in ActionN
        BY <1>2
      <3> HIDE DEF linked
      <3>2. linked = link(current.head, next.sequence, c, a)
        BY DEF linked
      <3>3. Len(linked) = Len(current.head) + 1
        BY <3>1, <3>2, LinkDigest
      <3>4. \A i \in 1 .. Len(current.head) : linked[i] = current.head[i]
        BY <3>1, <3>2, LinkDigest
      <3>5. QED
        BY <3>3, <3>4
    <2> HIDE DEF linked
    <2>1. /\ Len(next.head) = Len(current.head) + 1
          /\ \A i \in 1 .. Len(current.head) : next.head[i] = current.head[i]
      BY <1>1, <2>0 DEF linked
    <2>2. Len(current.head) = n + 1 /\ Len(current.head) + 1 = n + 2
      BY <1>2
    <2> HIDE DEF n
    <2>3. QED
      BY <2>1, <2>2
  <1>4. /\ Len(envelopes) = n
        /\ \A i \in 1 .. n : /\ envelopes[i].sequence = i
                             /\ envelopes[i].digest = SubSeq(current.head, 1, i + 1)
    BY DEF IsChain
  <1>5. /\ Len(longer) = n + 1 /\ longer[n + 1] = e
        /\ \A i \in 1 .. n : longer[i] = envelopes[i]
    BY <1>2, <1>4
  <1>6. /\ next.sequence = n + 1 /\ e.sequence = n + 1 /\ e.digest = next.head
        /\ Len(current.head) = n + 1
    BY <1>1
  <1> HIDE DEF n, longer
  <1>7. ASSUME NEW i \in 1 .. n
        PROVE  SubSeq(next.head, 1, i + 1) = SubSeq(current.head, 1, i + 1)
    <2>1. /\ SubSeq(next.head, 1, i + 1) = [k \in 1 .. i + 1 |-> next.head[k]]
          /\ SubSeq(current.head, 1, i + 1) = [k \in 1 .. i + 1 |-> current.head[k]]
      BY <1>2, <1>3, <1>6 DEF Digest
    <2>2. \A k \in 1 .. i + 1 : next.head[k] = current.head[k]
      BY <1>2, <1>3
    <2>3. QED
      BY <2>1, <2>2
  <1>8. SubSeq(next.head, 1, n + 2) = next.head
    BY <1>2, <1>3 DEF Digest
  <1>9. ASSUME NEW i \in 1 .. n + 1
        PROVE  longer[i].sequence = i /\ longer[i].digest = SubSeq(next.head, 1, i + 1)
    <2>1. CASE i = n + 1
      BY <1>2, <1>5, <1>6, <1>8, <2>1
    <2>2. CASE i # n + 1
      <3>1. i \in 1 .. n
        BY <1>2, <2>2
      <3>2. QED
        BY <1>4, <1>5, <1>7, <3>1
    <2>3. QED
      BY <2>1, <2>2
  <1>10. QED
    BY <1>5, <1>6, <1>9 DEF IsChain, longer

(* A set of numbers that is not empty has a least one.                     *)
LEMMA Least ==
    ASSUME NEW S \in SUBSET Nat, S # {}
    PROVE  \E x \in S : \A y \in S : x <= y
  <1> DEFINE R == OpToRel(<, Nat)
  <1>1. IsWellFoundedOn(R, Nat)
    BY NatLessThanWellFounded
  <1> HIDE DEF R
  <1>2. PICK x \in S : \A y \in S : <<y, x>> \notin R
    BY <1>1, WFMin
  <1>3. \A y \in S : ~(y < x)
    BY <1>2 DEF R, OpToRel
  <1>4. QED
    BY <1>2, <1>3

(* The commands of a chain lead to one kernel state: two traces over the   *)
(* same head agree at the first link, and at no later link could they      *)
(* part for the first time.                                                *)
LEMMA HeadDetermines ==
    ASSUME NEW b, NEW current \in InstanceState, Reached(b, current),
           NEW d, NEW other \in InstanceState, Reached(d, other), current.head = other.head
    PROVE  current.kernel = other.kernel /\ b = d
  <1> DEFINE n == current.sequence
  <1>1. n \in Nat /\ other.sequence \in Nat
    BY DEF InstanceState
  <1>2. other.sequence = n /\ b = d
    BY <1>1 DEF Reached
  <1>3. PICK s : Trace(b, current, s)
    BY DEF Reached
  <1>4. PICK t : Trace(d, other, t)
    BY DEF Reached
  <1>5. /\ s[1] = KernelInitial /\ t[1] = KernelInitial
        /\ s[n + 1] = current.kernel /\ t[n + 1] = other.kernel
        /\ \A i \in 1 .. n : s[i + 1] = Apply(s[i], b, current.head[i + 1].command).state
        /\ \A i \in 1 .. n : t[i + 1] = Apply(t[i], b, current.head[i + 1].command).state
    BY <1>2, <1>3, <1>4 DEF Trace
  <1> HIDE DEF n
  <1> DEFINE apart == {i \in 1 .. n + 1 : s[i] # t[i]}
  <1>6. apart = {}
    <2>1. SUFFICES ASSUME apart # {} PROVE FALSE
      OBVIOUS
    <2>2. PICK i \in apart : \A k \in apart : i <= k
      <3>1. apart \in SUBSET Nat
        BY <1>1
      <3> HIDE DEF apart
      <3>2. QED
        BY <2>1, <3>1, Least
    <2>3. i # 1
      BY <1>5, <2>2
    <2>4. i - 1 \in 1 .. n /\ (i - 1) + 1 = i /\ i - 1 \notin apart
      BY <1>1, <2>2, <2>3
    <2>5. s[i - 1] = t[i - 1]
      BY <1>1, <2>4
    <2>6. s[i] = t[i]
      BY <1>5, <2>4, <2>5
    <2>7. QED
      BY <2>2, <2>6
  <1>7. n + 1 \in 1 .. n + 1
    BY <1>1
  <1>8. QED
    BY <1>2, <1>5, <1>6, <1>7

---------------------------------------------------------------------------
(* The replay of a history.                                                *)

replay_step(background, current, e) ==
    IF current = Error THEN Error ELSE replay(current, background, e)

(* States that follow one another as the envelopes of a history say, as    *)
(* far as the k-th.                                                        *)
IsReplay(background, history, states, k) ==
    /\ states = [i \in 0 .. k |-> states[i]]
    /\ states[0] = initial_instance(background)
    /\ \A i \in 1 .. k : states[i] = replay_step(background, states[i - 1], history[i])

(* The loop of replay_history is well defined for a history of any length. *)
LEMMA ReplayExists ==
    ASSUME NEW b, NEW history, Len(history) \in Nat
    PROVE  \A k \in 0 .. Len(history) : \E states : IsReplay(b, history, states, k)
  <1> DEFINE bad == {k \in 0 .. Len(history) : ~ \E states : IsReplay(b, history, states, k)}
  <1>1. SUFFICES ASSUME bad # {} PROVE FALSE
    OBVIOUS
  <1>2. PICK k \in bad : \A j \in bad : k <= j
    <2>1. bad \in SUBSET Nat
      OBVIOUS
    <2> HIDE DEF bad
    <2>2. QED
      BY <1>1, <2>1, Least
  <1>3. k # 0
    <2> DEFINE states == [i \in 0 .. 0 |-> initial_instance(b)]
    <2>1. IsReplay(b, history, states, 0)
      BY DEF IsReplay
    <2>2. QED
      BY <1>2, <2>1
  <1>4. k \in Nat /\ k - 1 \in 0 .. Len(history) /\ k - 1 \notin bad
    BY <1>2, <1>3
  <1>5. PICK shorter : IsReplay(b, history, shorter, k - 1)
    BY <1>4
  <1> DEFINE last == replay_step(b, shorter[k - 1], history[k])
             states == [i \in 0 .. k |-> IF i = k THEN last ELSE shorter[i]]
  <1> HIDE DEF bad, last
  <1>6. states[0] = initial_instance(b)
    BY <1>3, <1>4, <1>5 DEF IsReplay
  <1>7. ASSUME NEW i \in 1 .. k
        PROVE  states[i] = replay_step(b, states[i - 1], history[i])
    <2>1. CASE i = k
      BY <1>4, <2>1 DEF last
    <2>2. CASE i # k
      <3>1. i \in 1 .. k - 1 /\ states[i] = shorter[i] /\ states[i - 1] = shorter[i - 1]
        BY <1>4, <2>2
      <3>2. QED
        BY <1>5, <3>1 DEF IsReplay
    <2>3. QED
      BY <2>1, <2>2
  <1>8. IsReplay(b, history, states, k)
    <2>1. states = [i \in 0 .. k |-> states[i]]
      OBVIOUS
    <2> HIDE DEF states
    <2>2. QED
      BY <1>6, <1>7, <2>1 DEF IsReplay
  <1>9. QED
    BY <1>2, <1>8 DEF bad

(* replay_states are those states.                                         *)
LEMMA ReplayStates ==
    ASSUME NEW b, NEW history, Len(history) \in Nat
    PROVE  IsReplay(b, history, replay_states(b, history), Len(history))
  <1> DEFINE n == Len(history)
             Def(f) == [i \in 0 .. n |->
                          IF i = 0 THEN initial_instance(b)
                          ELSE CHOOSE next \in {IF current = Error THEN Error
                                                ELSE replay(current, b, history[i]) :
                                                   current \in {f[i - 1]}} : TRUE]
  <1>1. replay_states(b, history) = CHOOSE f : f = Def(f)
    BY DEF replay_states
  <1>2. \A f, i : (CHOOSE next \in {IF current = Error THEN Error
                                     ELSE replay(current, b, history[i]) :
                                        current \in {f[i - 1]}} : TRUE)
                    = replay_step(b, f[i - 1], history[i])
    <2> TAKE f, i
    <2> DEFINE T == {IF current = Error THEN Error ELSE replay(current, b, history[i]) :
                        current \in {f[i - 1]}}
    <2>1. T = {replay_step(b, f[i - 1], history[i])}
      BY DEF replay_step
    <2> HIDE DEF T
    <2>2. (CHOOSE next \in T : TRUE) \in T
      BY <2>1
    <2>3. (CHOOSE next \in T : TRUE) = replay_step(b, f[i - 1], history[i])
      BY <2>1, <2>2
    <2>4. QED
      BY <2>3 DEF T
  <1>3. \A f : Def(f) = [i \in 0 .. n |->
                          IF i = 0 THEN initial_instance(b)
                          ELSE replay_step(b, f[i - 1], history[i])]
    BY <1>2
  <1> HIDE DEF Def
  <1>4. ASSUME NEW f
        PROVE  f = Def(f) <=> IsReplay(b, history, f, n)
    <2> DEFINE g == [i \in 0 .. n |-> IF i = 0 THEN initial_instance(b)
                                      ELSE replay_step(b, f[i - 1], history[i])]
    <2>1. f = g => IsReplay(b, history, f, n)
      BY DEF IsReplay
    <2>2. IsReplay(b, history, f, n) => f = g
      <3> SUFFICES ASSUME IsReplay(b, history, f, n) PROVE f = g
        OBVIOUS
      <3>1. f = [i \in 0 .. n |-> f[i]]
        BY DEF IsReplay
      <3>2. \A i \in 0 .. n : f[i] = g[i]
        BY DEF IsReplay
      <3>3. QED
        BY <3>1, <3>2
    <2>3. QED
      BY <1>3, <2>1, <2>2
  <1>5. \E f : f = Def(f)
    <2>1. n \in 0 .. n
      OBVIOUS
    <2>2. PICK f : IsReplay(b, history, f, n)
      BY <2>1, ReplayExists
    <2>3. QED
      BY <1>4, <2>2
  <1>6. QED
    BY <1>1, <1>4, <1>5

(* Whatever a store hands back: a history that replays leads to a state    *)
(* its chain stands for.                                                   *)
LEMMA ReplayReached ==
    ASSUME NEW b \in BackgroundN, NEW history \in Seq(EnvelopeN),
           replay_history(b, history) # Error
    PROVE  /\ replay_history(b, history) \in InstanceState
           /\ Reached(b, replay_history(b, history))
  <1> DEFINE f == replay_states(b, history)
             n == Len(history)
             sound(i) == f[i] \in InstanceState /\ Reached(b, f[i])
             bad == {i \in 0 .. n : f[i] # Error /\ ~ sound(i)}
  <1>1. n \in Nat /\ \A i \in 1 .. n : history[i] \in EnvelopeN
    OBVIOUS
  <1>2. /\ f[0] = initial_instance(b)
        /\ \A i \in 1 .. n : f[i] = replay_step(b, f[i - 1], history[i])
    BY <1>1, ReplayStates DEF IsReplay
  <1> HIDE DEF f, n
  <1>3. bad = {}
    <2>1. SUFFICES ASSUME bad # {} PROVE FALSE
      OBVIOUS
    <2>2. PICK i \in bad : \A k \in bad : i <= k
      <3>1. bad \in SUBSET Nat
        BY <1>1
      <3> HIDE DEF bad
      <3>2. QED
        BY <2>1, <3>1, Least
    <2>3. i # 0
      BY <1>2, <2>2, InitialReached
    <2>4. i \in 1 .. n /\ i - 1 \in 0 .. n /\ i - 1 \notin bad
      BY <1>1, <2>2, <2>3
    <2>5. f[i] # Error /\ ~ sound(i) /\ f[i] = replay_step(b, f[i - 1], history[i])
      BY <1>2, <2>2, <2>4
    <2>6. f[i - 1] # Error /\ f[i] = replay(f[i - 1], b, history[i])
      BY <2>5 DEF replay_step
    <2>7. sound(i - 1)
      BY <2>4, <2>6
    <2>8. f[i] \in InstanceState /\ Follows(b, f[i - 1], f[i], history[i])
      BY <1>1, <2>4, <2>5, <2>6, <2>7, ReplayFollows
    <2>9. Reached(b, f[i])
      BY <2>7, <2>8, FollowsReached
    <2>10. QED
      BY <2>5, <2>8, <2>9
  <1>4. n \in 0 .. n /\ replay_history(b, history) = f[n]
    BY <1>1 DEF replay_history, f, n
  <1>5. sound(n)
    BY <1>3, <1>4
  <1>6. QED
    BY <1>4, <1>5

(* The states an undamaged history leads through, numbered.                *)
ReplayTrace(background, history, trace) ==
    /\ trace \in [0 .. Len(history) -> InstanceState]
    /\ trace[0] = initial_instance(background)
    /\ \A i \in 1 .. Len(history) :
          /\ trace[i] = replay(trace[i - 1], background, history[i])
          /\ trace[i].sequence = i
          /\ trace[i].head = history[i].digest

Replays(background, history, final) ==
    \E trace : ReplayTrace(background, history, trace) /\ trace[Len(history)] = final

(* Two replays of one history agree.                                       *)
LEMMA ReplayDetermined ==
    ASSUME NEW b, NEW history \in Seq(EnvelopeN), NEW final, Replays(b, history, final)
    PROVE  replay_history(b, history) = final
  <1> DEFINE f == replay_states(b, history)
             n == Len(history)
  <1>1. PICK trace : ReplayTrace(b, history, trace) /\ trace[n] = final
    BY DEF Replays
  <1>2. n \in Nat
    OBVIOUS
  <1>3. /\ f[0] = initial_instance(b)
        /\ \A i \in 1 .. n : f[i] = replay_step(b, f[i - 1], history[i])
    BY <1>2, ReplayStates DEF IsReplay
  <1>4. /\ trace[0] = initial_instance(b)
        /\ \A i \in 0 .. n : trace[i] # Error
        /\ \A i \in 1 .. n : trace[i] = replay(trace[i - 1], b, history[i])
    BY <1>1, ErrorAssumption DEF ReplayTrace
  <1> HIDE DEF f, n
  <1> DEFINE apart == {i \in 0 .. n : f[i] # trace[i]}
  <1>5. apart = {}
    <2>1. SUFFICES ASSUME apart # {} PROVE FALSE
      OBVIOUS
    <2>2. PICK i \in apart : \A k \in apart : i <= k
      <3>1. apart \in SUBSET Nat
        BY <1>2
      <3> HIDE DEF apart
      <3>2. QED
        BY <2>1, <3>1, Least
    <2>3. i # 0
      BY <1>3, <1>4, <2>2
    <2>4. i \in 1 .. n /\ i - 1 \in 0 .. n /\ i - 1 \notin apart
      BY <1>2, <2>2, <2>3
    <2>5. f[i - 1] = trace[i - 1] /\ trace[i - 1] # Error
      BY <1>4, <2>4
    <2>6. f[i] = trace[i]
      BY <1>3, <1>4, <2>4, <2>5 DEF replay_step
    <2>7. QED
      BY <2>2, <2>6
  <1>6. n \in 0 .. n
    BY <1>2
  <1>7. f[n] = trace[n]
    BY <1>5, <1>6
  <1>8. QED
    BY <1>1, <1>7 DEF replay_history, f, n

(* What a command's envelope says is what a replay of it finds.            *)
LEMMA AppliedReplays ==
    ASSUME NEW current \in InstanceState, NEW b \in BackgroundN, NEW command \in CommandN,
           apply_without_commit(current, b, command) # Error
    PROVE  LET applied == apply_without_commit(current, b, command)
           IN  replay(current, b, applied.envelope) = applied.next
  <1> DEFINE result == Apply(current.kernel, b, command)
             n == current.sequence + 1
             head == link(current.head, n, command, result.action)
             next == [kernel |-> result.state, sequence |-> n, head |-> head]
             envelope == [version |-> Version, sequence |-> n,
                          previous_digest |-> current.head, digest |-> head,
                          command |-> command, action |-> result.action]
             applied == apply_without_commit(current, b, command)
  <1>1. /\ applied = [next |-> next, envelope |-> envelope]
        /\ preflight(current, command)
    BY DEF apply_without_commit
  <1>2. check_recovery_link(current)
    BY <1>1 DEF preflight, check_recovery_link
  <1>3. applied.envelope = envelope /\ applied.next = next
    BY <1>1
  <1> HIDE DEF applied
  <1>4. /\ envelope.version = Version /\ envelope.sequence = n
        /\ envelope.previous_digest = current.head /\ envelope.command = command
    OBVIOUS
  <1> HIDE DEF envelope, next
  <1>5. applied = apply_without_commit(current, b, envelope.command)
    BY <1>4 DEF applied
  <1>6. applied # Error
    BY DEF applied
  <1>7. replay(current, b, envelope) = next
    BY <1>2, <1>3, <1>4, <1>5, <1>6 DEF replay
  <1>8. QED
    BY <1>3, <1>7 DEF applied

(* What an accepted envelope says of the states before and after it.       *)
LEMMA ReplayLinks ==
    ASSUME NEW current \in InstanceState, NEW b \in BackgroundN, NEW e \in EnvelopeN,
           NEW next \in InstanceState, next = replay(current, b, e)
    PROVE  /\ check_recovery_link(current)
           /\ e.version = Version
           /\ e.sequence = current.sequence + 1 /\ next.sequence = e.sequence
           /\ e.previous_digest = current.head /\ next.head = e.digest
  <1>1. replay(current, b, e) # Error
    BY ErrorAssumption
  <1>2. /\ check_recovery_link(current)
        /\ e.version = Version
        /\ e.sequence = current.sequence + 1
        /\ e.previous_digest = current.head
    BY <1>1 DEF replay
  <1>3. Follows(b, current, next, e)
    BY <1>1, ReplayFollows
  <1>4. QED
    BY <1>2, <1>3 DEF Follows

(* The empty history.                                                      *)
LEMMA ReplaysNothing ==
    ASSUME NEW b \in BackgroundN
    PROVE  Replays(b, << >>, initial_instance(b))
  <1> DEFINE trace == [i \in 0 .. 0 |-> initial_instance(b)]
  <1>1. ReplayTrace(b, << >>, trace) /\ trace[Len(<< >>)] = initial_instance(b)
    BY InitialReached DEF ReplayTrace
  <1>2. QED
    BY <1>1 DEF Replays

(* A history that replays has the length, the end and the declarations a   *)
(* recovery asks of it.                                                    *)
LEMMA ReplaysDeclare ==
    ASSUME NEW b \in BackgroundN, NEW history \in Seq(EnvelopeN), NEW final,
           Replays(b, history, final)
    PROVE  /\ final \in InstanceState
           /\ final.sequence = Len(history)
           /\ Len(history) > 0 => final.head = history[Len(history)].digest
           /\ \A i \in 1 .. Len(history) : declared(history, i)
  <1> DEFINE n == Len(history)
  <1>1. PICK trace : ReplayTrace(b, history, trace) /\ trace[n] = final
    BY DEF Replays
  <1>2. n \in Nat /\ \A i \in 1 .. n : history[i] \in EnvelopeN
    OBVIOUS
  <1>3. /\ \A i \in 0 .. n : trace[i] \in InstanceState
        /\ trace[0] = initial_instance(b)
        /\ \A i \in 1 .. n :
              /\ trace[i] = replay(trace[i - 1], b, history[i])
              /\ trace[i].sequence = i
              /\ trace[i].head = history[i].digest
    BY <1>1 DEF ReplayTrace
  <1>4. trace[0].sequence = 0
    BY <1>3 DEF initial_instance
  <1> HIDE DEF n
  <1>5. /\ final \in InstanceState
        /\ final.sequence = n
        /\ n > 0 => final.head = history[n].digest
    <2>1. CASE n = 0
      BY <1>1, <1>2, <1>3, <1>4, <2>1
    <2>2. CASE n # 0
      <3>1. n \in 1 .. n /\ n \in 0 .. n
        BY <1>2, <2>2
      <3>2. QED
        BY <1>1, <1>3, <3>1
    <2>3. QED
      BY <2>1, <2>2
  <1>6. ASSUME NEW i \in 1 .. n
        PROVE  declared(history, i)
    <2>1. i - 1 \in 0 .. n /\ i \in 0 .. n /\ i \in Nat
      BY <1>2
    <2>2. trace[i - 1].sequence = i - 1
      <3>1. CASE i = 1
        BY <1>4, <3>1
      <3>2. CASE i # 1
        BY <1>2, <1>3, <3>2
      <3>3. QED
        BY <3>1, <3>2
    <2>3. /\ check_recovery_link(trace[i - 1])
          /\ history[i].version = Version
          /\ history[i].sequence = trace[i - 1].sequence + 1
          /\ history[i].previous_digest = trace[i - 1].head
      BY <1>2, <1>3, <2>1, ReplayLinks
    <2>4. history[i].sequence = i /\ i <= MaxAcceptedSequence
      BY <2>1, <2>2, <2>3 DEF check_recovery_link
    <2>5. i > 1 => trace[i - 1].head = history[i - 1].digest
      BY <1>2, <1>3
    <2>6. QED
      BY <2>3, <2>4, <2>5 DEF declared
  <1>7. QED
    BY <1>5, <1>6 DEF n

(* One more envelope.                                                      *)
LEMMA ReplaysAppend ==
    ASSUME NEW b \in BackgroundN, NEW history \in Seq(EnvelopeN), NEW current,
           Replays(b, history, current), NEW e \in EnvelopeN,
           NEW next \in InstanceState, next = replay(current, b, e)
    PROVE  Replays(b, Append(history, e), next)
  <1> DEFINE n == Len(history)
             longer == Append(history, e)
  <1>1. PICK trace : ReplayTrace(b, history, trace) /\ trace[n] = current
    BY DEF Replays
  <1>2. n \in Nat
    OBVIOUS
  <1>3. current \in InstanceState /\ current.sequence = n
    BY ReplaysDeclare
  <1>4. next.sequence = n + 1 /\ next.head = e.digest
    BY <1>3, ReplayLinks
  <1>5. Len(longer) = n + 1 /\ longer[n + 1] = e /\ \A i \in 1 .. n : longer[i] = history[i]
    OBVIOUS
  <1>6. /\ \A i \in 0 .. n : trace[i] \in InstanceState
        /\ trace[0] = initial_instance(b)
        /\ \A i \in 1 .. n :
              /\ trace[i] = replay(trace[i - 1], b, history[i])
              /\ trace[i].sequence = i
              /\ trace[i].head = history[i].digest
    BY <1>1 DEF ReplayTrace
  <1> HIDE DEF n, longer
  <1> DEFINE extended == [i \in 0 .. n + 1 |-> IF i = n + 1 THEN next ELSE trace[i]]
  <1>7. extended \in [0 .. n + 1 -> InstanceState]
    BY <1>2, <1>6
  <1>8. extended[0] = initial_instance(b) /\ extended[n + 1] = next
    BY <1>2, <1>6
  <1>9. ASSUME NEW i \in 1 .. n + 1
        PROVE  /\ extended[i] = replay(extended[i - 1], b, longer[i])
               /\ extended[i].sequence = i
               /\ extended[i].head = longer[i].digest
    <2>1. CASE i = n + 1
      <3>1. extended[i] = next /\ extended[i - 1] = trace[n] /\ longer[i] = e
        BY <1>2, <1>5, <2>1
      <3>2. QED
        BY <1>1, <1>4, <2>1, <3>1
    <2>2. CASE i # n + 1
      <3>1. i \in 1 .. n /\ extended[i] = trace[i] /\ extended[i - 1] = trace[i - 1]
        BY <1>2, <2>2
      <3>2. QED
        BY <1>5, <1>6, <3>1
    <2>3. QED
      BY <2>1, <2>2
  <1> HIDE DEF extended
  <1>10. ReplayTrace(b, longer, extended) /\ extended[Len(longer)] = next
    BY <1>5, <1>7, <1>8, <1>9 DEF ReplayTrace
  <1>11. QED
    BY <1>10 DEF Replays, longer
===========================================================================
