---------------------------- MODULE VectorProofs ----------------------------
(***************************************************************************)
(* The vectors of the kernel stay the sets and maps they stand for, and    *)
(* every transition on them is that transition of Kernel on what they      *)
(* stand for: for every background, all policies and all lists a command   *)
(* may carry.  What an observer is shown of them is the state they stand   *)
(* for.                                                                    *)
(***************************************************************************)
EXTENDS StateProjection, FiniteSetTheorems, WellFoundedInduction, TLAPS

---------------------------------------------------------------------------
(* Loops over a vector.  FoldLeft is a function on sets of positions that  *)
(* takes the largest position last.                                        *)

(* The loop over n items, from base, by the function f.                    *)
IsLoop(f, base, items, n, G) ==
    G = [s \in SUBSET (1 .. n) |->
            IF s = {} THEN base ELSE f[<<G[s \ {Max(s)}], items[Max(s)]>>]]

(* A set of numbers has a least element.                                   *)
LEMMA LeastNumber ==
    ASSUME NEW S \in SUBSET Nat, S # {}
    PROVE  \E x \in S : \A y \in S : x <= y
  <1> DEFINE R == OpToRel(<, Nat)
  <1>1. IsWellFoundedOn(R, Nat)
    BY NatLessThanWellFounded
  <1> HIDE DEF R
  <1>2. PICK x \in S : \A y \in S : <<y, x>> \notin R
    BY <1>1, WFMin
  <1>3. \A y \in S : ~(y < x)
    BY <1>2 DEF R, OpToRel
  <1>4. QED
    BY <1>2, <1>3

(* The largest of some positions, and those before it.                     *)
LEMMA Largest ==
    ASSUME NEW n \in Nat, NEW s \in SUBSET (1 .. n), s # {}
    PROVE  /\ Max(s) \in s /\ \A y \in s : y <= Max(s)
           /\ n - 1 \in Nat /\ s \ {Max(s)} \in SUBSET (1 .. (n - 1))
  <1> DEFINE D == {d \in Nat : \E y \in s : d = n - y}
  <1>1. D \in SUBSET Nat /\ D # {}
    <2>1. PICK y \in s : TRUE
      OBVIOUS
    <2>2. n - y \in D
      BY <2>1
    <2>3. QED
      BY <2>2
  <1>2. PICK d \in D : \A e \in D : d <= e
    <2> HIDE DEF D
    <2>1. QED
      BY <1>1, LeastNumber
  <1>3. PICK x \in s : d = n - x
    BY <1>2
  <1>4. \A y \in s : x >= y
    <2> SUFFICES ASSUME NEW y \in s PROVE x >= y
      OBVIOUS
    <2>1. n - y \in D
      OBVIOUS
    <2>2. d <= n - y
      BY <1>2, <2>1
    <2>3. QED
      BY <1>3, <2>2
  <1>5. Max(s) \in s /\ \A y \in s : Max(s) >= y
    BY <1>4 DEF Max
  <1> DEFINE x0 == Max(s)
  <1>6. x0 \in s /\ \A y \in s : y <= x0
    BY <1>5
  <1> HIDE DEF x0, D
  <1>7. n \in Nat /\ n - 1 \in Nat
    BY <1>6
  <1>8. ASSUME NEW y \in s \ {x0}
        PROVE  y \in 1 .. (n - 1)
    BY <1>6, <1>7
  <1>9. QED
    BY <1>6, <1>7, <1>8 DEF x0

(* The last of the first positions.                                        *)
LEMMA LastPosition ==
    ASSUME NEW i \in Nat, i # 0
    PROVE  /\ Max(1 .. i) = i /\ (1 .. i) \ {i} = 1 .. (i - 1)
           /\ 1 .. i # {}
  <1>1. i \in 1 .. i
    OBVIOUS
  <1>2. Max(1 .. i) \in 1 .. i /\ \A y \in 1 .. i : y <= Max(1 .. i)
    BY <1>1, Largest
  <1>3. QED
    BY <1>1, <1>2

(* The loop exists, and its values are those of f.                         *)
LEMMA LoopExists ==
    ASSUME NEW S, NEW X, NEW base \in S, NEW n \in Nat, NEW items \in [1 .. n -> X],
           NEW f \in [S \X X -> S]
    PROVE  \E G \in [SUBSET (1 .. n) -> S] : IsLoop(f, base, items, n, G)
  <1> DEFINE bad == {m \in 0 .. n :
                       ~ \E G \in [SUBSET (1 .. m) -> S] : IsLoop(f, base, items, m, G)}
  <1>1. bad = {}
    <2>1. SUFFICES ASSUME bad # {} PROVE FALSE
      OBVIOUS
    <2>2. PICK m \in bad : \A k \in bad : m <= k
      <3>1. bad \in SUBSET Nat
        OBVIOUS
      <3> HIDE DEF bad
      <3>2. QED
        BY <2>1, <3>1, LeastNumber
    <2>3. m # 0
      <3> DEFINE G == [s \in SUBSET (1 .. 0) |-> base]
      <3>1. \A s \in SUBSET (1 .. 0) : s = {}
        OBVIOUS
      <3>2. G \in [SUBSET (1 .. 0) -> S] /\ IsLoop(f, base, items, 0, G)
        BY <3>1 DEF IsLoop
      <3> HIDE DEF G
      <3>3. QED
        BY <2>2, <3>2
    <2>4. m \in Nat /\ m - 1 \in Nat /\ m <= n /\ m - 1 \notin bad /\ m - 1 \in 0 .. n
      <3>1. m \in 0 .. n
        OBVIOUS
      <3> HIDE DEF bad
      <3>2. QED
        BY <2>2, <2>3, <3>1
    <2>5. PICK F \in [SUBSET (1 .. (m - 1)) -> S] : IsLoop(f, base, items, m - 1, F)
      BY <2>4
    <2> DEFINE step(H, s) == IF s = {} THEN base ELSE f[<<H[s \ {Max(s)}], items[Max(s)]>>]
               G == [s \in SUBSET (1 .. m) |-> step(F, s)]
    <2>6. \A s \in SUBSET (1 .. m) : s # {} =>
             /\ Max(s) \in s /\ Max(s) \in 1 .. n
             /\ s \ {Max(s)} \in SUBSET (1 .. (m - 1))
             /\ s \ {Max(s)} \in SUBSET (1 .. m)
      <3> SUFFICES ASSUME NEW s \in SUBSET (1 .. m), s # {}
                   PROVE  /\ Max(s) \in s /\ Max(s) \in 1 .. n
                          /\ s \ {Max(s)} \in SUBSET (1 .. (m - 1))
                          /\ s \ {Max(s)} \in SUBSET (1 .. m)
        OBVIOUS
      <3>1. Max(s) \in s /\ s \ {Max(s)} \in SUBSET (1 .. (m - 1))
        BY <2>4, Largest
      <3> DEFINE x == Max(s)
      <3>2. x \in s /\ s \ {x} \in SUBSET (1 .. (m - 1)) /\ s \ {x} \in SUBSET (1 .. m)
        BY <3>1
      <3> HIDE DEF x
      <3>3. x \in 1 .. n
        BY <2>4, <3>2
      <3>4. QED
        BY <3>2, <3>3 DEF x
    <2>7. \A s \in SUBSET (1 .. m) : step(F, s) \in S
      BY <2>6
    <2>8. G \in [SUBSET (1 .. m) -> S]
      BY <2>7
    <2>9. \A s \in SUBSET (1 .. (m - 1)) : s \in SUBSET (1 .. m) /\ F[s] = step(F, s)
      <3>1. SUBSET (1 .. (m - 1)) \subseteq SUBSET (1 .. m)
        BY <2>4
      <3>2. \A s \in SUBSET (1 .. (m - 1)) : F[s] = step(F, s)
        <4>1. F = [s \in SUBSET (1 .. (m - 1)) |-> step(F, s)]
          BY <2>5 DEF IsLoop
        <4> HIDE DEF step
        <4>2. QED
          BY <4>1
      <3> HIDE DEF step
      <3>3. QED
        BY <3>1, <3>2
    <2>10. \A s \in SUBSET (1 .. (m - 1)) : G[s] = F[s]
      BY <2>9
    <2>11. \A s \in SUBSET (1 .. m) : step(G, s) = step(F, s)
      <3> HIDE DEF G
      <3>1. QED
        BY <2>6, <2>10
    <2>12. IsLoop(f, base, items, m, G)
      BY <2>11 DEF IsLoop
    <2> HIDE DEF G
    <2>13. QED
      BY <2>2, <2>8, <2>12
  <1>2. n \in 0 .. n /\ n \notin bad
    <2> HIDE DEF bad
    <2>1. QED
      BY <1>1
  <1>3. QED
    BY <1>2

(* What holds of the empty prefix, and of a prefix when it holds of the    *)
(* one before it, holds of all of them.                                    *)
LEMMA PrefixInduction ==
    ASSUME NEW n \in Nat, NEW B, 0 \in B,
           \A i \in 1 .. n : i - 1 \in B => i \in B
    PROVE  \A i \in 0 .. n : i \in B
  <1> DEFINE bad == {i \in 0 .. n : i \notin B}
  <1>1. bad \in SUBSET Nat
    OBVIOUS
  <1>2. SUFFICES ASSUME bad # {} PROVE FALSE
    OBVIOUS
  <1>3. PICK m \in bad : \A k \in bad : m <= k
    <2> HIDE DEF bad
    <2>1. QED
      BY <1>1, <1>2, LeastNumber
  <1>4. m \in 0 .. n /\ m \notin B
    OBVIOUS
  <1>5. m # 0
    BY <1>4
  <1>6. m \in 1 .. n /\ m - 1 \in 0 .. n
    BY <1>4, <1>5
  <1>7. m - 1 \in B
    <2>1. m - 1 \in bad => m <= m - 1
      BY <1>3
    <2>2. m - 1 \notin bad
      BY <1>6, <2>1
    <2>3. QED
      BY <1>6, <2>2
  <1>8. QED
    BY <1>4, <1>6, <1>7

(* The states of a loop, one after each item, and its result r.            *)
Runs(S, f, base, items, n, h, r) ==
    /\ h \in [0 .. n -> S]
    /\ h[0] = base
    /\ \A i \in 1 .. n : h[i] = f[<<h[i - 1], items[i]>>]
    /\ r = h[n]

(* The function behind a loop takes its items in order.                    *)
LEMMA LoopRuns ==
    ASSUME NEW S, NEW X, NEW base \in S, NEW n \in Nat, NEW items \in [1 .. n -> X],
           NEW f \in [S \X X -> S], NEW g,
           g[{}] = base,
           \A s \in SUBSET (1 .. n) : s # {} /\ g[s \ {Max(s)}] \in S
                => g[s] = f[<<g[s \ {Max(s)}], items[Max(s)]>>]
    PROVE  \E h : Runs(S, f, base, items, n, h, g[1 .. n])
  <1> DEFINE h == [i \in 0 .. n |-> g[1 .. i]]
             B == {i \in 0 .. n : g[1 .. i] \in S}
  <1>1. 1 .. 0 = {}
    OBVIOUS
  <1>2. ASSUME NEW i \in 1 .. n, g[1 .. (i - 1)] \in S
        PROVE  g[1 .. i] \in S /\ g[1 .. i] = f[<<g[1 .. (i - 1)], items[i]>>]
    <2>1. /\ i \in Nat /\ i # 0 /\ 1 .. i \in SUBSET (1 .. n)
      OBVIOUS
    <2>2. Max(1 .. i) = i /\ (1 .. i) \ {i} = 1 .. (i - 1) /\ 1 .. i # {}
      BY <2>1, LastPosition
    <2>3. g[1 .. i] = f[<<g[1 .. (i - 1)], items[i]>>]
      BY <1>2, <2>1, <2>2
    <2>4. QED
      BY <1>2, <2>3
  <1>3. 0 \in B /\ \A i \in 1 .. n : i - 1 \in B => i \in B
    <2>1. 0 \in B
      BY <1>1
    <2>2. ASSUME NEW i \in 1 .. n, i - 1 \in B PROVE i \in B
      <3>1. i \in 0 .. n
        OBVIOUS
      <3>2. QED
        BY <1>2, <2>2, <3>1
    <2>3. QED
      BY <2>1, <2>2
  <1>4. \A i \in 0 .. n : i \in B
    <2> HIDE DEF B
    <2>1. QED
      BY <1>3, PrefixInduction
  <1>5. h \in [0 .. n -> S] /\ h[0] = base /\ g[1 .. n] = h[n]
    BY <1>1, <1>4
  <1>6. \A i \in 1 .. n : h[i] = f[<<h[i - 1], items[i]>>]
    <2> SUFFICES ASSUME NEW i \in 1 .. n PROVE h[i] = f[<<h[i - 1], items[i]>>]
      OBVIOUS
    <2>1. i \in 0 .. n /\ i - 1 \in 0 .. n
      OBVIOUS
    <2>2. g[1 .. (i - 1)] \in S
      BY <1>4, <2>1
    <2>3. QED
      BY <1>2, <2>1, <2>2
  <1> HIDE DEF h
  <1>7. QED
    BY <1>5, <1>6 DEF Runs

---------------------------------------------------------------------------
(* Sets as vectors.                                                        *)

(* A vector of members of T, none of them twice.                           *)
USeq(T) == {s \in Seq(T) : Unique(s)}

(* The positions of a vector, and what is at each.                         *)
LEMMA SeqParts ==
    ASSUME NEW T, NEW s \in Seq(T)
    PROVE  /\ Len(s) \in Nat /\ DOMAIN s = 1 .. Len(s) /\ s \in [1 .. Len(s) -> T]
           /\ \A i \in 1 .. Len(s) : s[i] \in T
  OBVIOUS

(* What a push leaves alone, and what it adds.                             *)
LEMMA AppendParts ==
    ASSUME NEW T, NEW s \in Seq(T), NEW x \in T
    PROVE  /\ Append(s, x) \in Seq(T) /\ Len(Append(s, x)) = Len(s) + 1
           /\ DOMAIN Append(s, x) = 1 .. (Len(s) + 1)
           /\ Append(s, x)[Len(s) + 1] = x
           /\ \A i \in 1 .. Len(s) : Append(s, x)[i] = s[i]
  OBVIOUS

(* A new item at the end of a vector leaves it a set.                      *)
LEMMA AppendUnique ==
    ASSUME NEW T, NEW s \in USeq(T), NEW x \in T, x \notin ToSet(s)
    PROVE  Append(s, x) \in USeq(T)
  <1>1. /\ s \in Seq(T) /\ Unique(s) /\ \A i \in 1 .. Len(s) : s[i] # x
        /\ Len(s) \in Nat /\ DOMAIN s = 1 .. Len(s)
    BY SeqParts DEF USeq, ToSet
  <1> DEFINE a == Append(s, x)
  <1>2. /\ a \in Seq(T) /\ DOMAIN a = 1 .. (Len(s) + 1) /\ a[Len(s) + 1] = x
        /\ \A i \in 1 .. Len(s) : a[i] = s[i]
    BY <1>1, AppendParts
  <1> HIDE DEF a
  <1>3. ASSUME NEW i \in DOMAIN a, NEW j \in DOMAIN a, a[i] = a[j] PROVE i = j
    <2>1. CASE i = Len(s) + 1 /\ j # Len(s) + 1
      BY <1>1, <1>2, <1>3, <2>1
    <2>2. CASE j = Len(s) + 1 /\ i # Len(s) + 1
      BY <1>1, <1>2, <1>3, <2>2
    <2>3. CASE i # Len(s) + 1 /\ j # Len(s) + 1
      BY <1>1, <1>2, <1>3, <2>3 DEF Unique
    <2>4. QED
      BY <2>1, <2>2, <2>3
  <1>4. QED
    BY <1>2, <1>3 DEF USeq, Unique, a

(* A push adds one member to the contents.                                 *)
LEMMA AppendToSet ==
    ASSUME NEW T, NEW s \in Seq(T), NEW x \in T
    PROVE  ToSet(Append(s, x)) = ToSet(s) \cup {x}
  <1> DEFINE a == Append(s, x)
  <1>1. /\ Len(s) \in Nat /\ DOMAIN s = 1 .. Len(s)
        /\ DOMAIN a = 1 .. (Len(s) + 1) /\ a[Len(s) + 1] = x
        /\ \A i \in 1 .. Len(s) : a[i] = s[i]
    BY AppendParts, SeqParts
  <1> HIDE DEF a
  <1>2. ASSUME NEW y PROVE y \in ToSet(a) <=> y \in ToSet(s) \cup {x}
    <2>1. ASSUME y \in ToSet(a) PROVE y \in ToSet(s) \cup {x}
      <3>1. PICK i \in 1 .. (Len(s) + 1) : y = a[i]
        BY <1>1, <2>1 DEF ToSet
      <3>2. i = Len(s) + 1 \/ i \in 1 .. Len(s)
        BY <1>1
      <3>3. QED
        BY <1>1, <3>1, <3>2 DEF ToSet
    <2>2. ASSUME NEW i \in 1 .. Len(s) PROVE s[i] \in ToSet(a)
      <3>1. i \in DOMAIN a /\ a[i] = s[i]
        BY <1>1
      <3>2. QED
        BY <3>1 DEF ToSet
    <2>3. x \in ToSet(a)
      <3>1. Len(s) + 1 \in DOMAIN a
        BY <1>1
      <3>2. QED
        BY <1>1, <3>1 DEF ToSet
    <2>4. QED
      BY <1>1, <2>1, <2>2, <2>3 DEF ToSet
  <1>3. QED
    BY <1>2 DEF a

(* VecSet::insert adds a member once, and only that member.                *)
LEMMA InsertSet ==
    ASSUME NEW T, NEW s \in USeq(T), NEW x \in T
    PROVE  VecSet_insert(s, x) \in USeq(T) /\ ToSet(VecSet_insert(s, x)) = ToSet(s) \cup {x}
  <1>1. CASE VecSet_contains(s, x)
    <2>1. x \in ToSet(s)
      BY <1>1 DEF VecSet_contains, ToSet
    <2>2. QED
      BY <1>1, <2>1 DEF VecSet_insert
  <1>2. CASE ~VecSet_contains(s, x)
    <2>1. x \notin ToSet(s) /\ s \in Seq(T)
      BY <1>2 DEF VecSet_contains, ToSet, USeq
    <2>2. QED
      BY <1>2, <2>1, AppendUnique, AppendToSet DEF VecSet_insert
  <1>3. QED
    BY <1>1, <1>2

(* The empty vector is the empty set.                                      *)
LEMMA EmptySet ==
    ASSUME NEW T
    PROVE  << >> \in USeq(T) /\ ToSet(<< >>) = {}
  BY DEF USeq, Unique, ToSet

(* A list collected into a vector is the set of its items.                 *)
LEMMA FromIterSet ==
    ASSUME NEW T, NEW list \in Seq(T)
    PROVE  /\ VecSet_from_iter(list) \in USeq(T)
           /\ ToSet(VecSet_from_iter(list)) = ToSet(list)
  <1> DEFINE n == Len(list)
             S == USeq(T)
             f == [p \in S \X T |-> VecSet_insert(p[1], p[2])]
             loop(g) == [s \in SUBSET (1 .. n) |->
                           IF s = {} THEN << >>
                           ELSE VecSet_insert(g[s \ {Max(s)}], list[Max(s)])]
             g == CHOOSE h : h = loop(h)
  <1>1. /\ n \in Nat /\ list \in [1 .. n -> T] /\ DOMAIN list = 1 .. n /\ << >> \in S
        /\ \A i \in 1 .. n : list[i] \in T
    BY SeqParts, EmptySet
  <1>2. VecSet_from_iter(list) = g[1 .. n]
    BY <1>1, Zenon DEF VecSet_from_iter, FoldLeft, MapThenFoldSet, VecSet_new
  <1> HIDE DEF n
  <1>3. f \in [S \X T -> S] /\ \A a \in S, x \in T : f[<<a, x>>] = VecSet_insert(a, x)
    BY InsertSet
  <1> HIDE DEF f, S
  <1>4. PICK G \in [SUBSET (1 .. n) -> S] : IsLoop(f, << >>, list, n, G)
    BY <1>1, <1>3, LoopExists
  <1>5. g = loop(g)
    <2>1. G = loop(G)
      <3>1. ASSUME NEW s \in SUBSET (1 .. n), s # {}
            PROVE  f[<<G[s \ {Max(s)}], list[Max(s)]>>] = VecSet_insert(G[s \ {Max(s)}], list[Max(s)])
        <4>1. Max(s) \in 1 .. n /\ s \ {Max(s)} \in SUBSET (1 .. n)
          BY <1>1, <3>1, Largest
        <4>2. QED
          BY <1>1, <1>3, <4>1
      <3>2. QED
        BY <1>4, <3>1 DEF IsLoop
    <2> HIDE DEF loop
    <2>2. QED
      BY <2>1
  <1>6. /\ g[{}] = << >>
        /\ \A s \in SUBSET (1 .. n) : s # {} /\ g[s \ {Max(s)}] \in S
             => g[s] = f[<<g[s \ {Max(s)}], list[Max(s)]>>]
    <2> HIDE DEF g
    <2>1. g[{}] = << >>
      BY <1>5
    <2>2. ASSUME NEW s \in SUBSET (1 .. n), s # {}, g[s \ {Max(s)}] \in S
          PROVE  g[s] = f[<<g[s \ {Max(s)}], list[Max(s)]>>]
      <3>1. Max(s) \in 1 .. n
        BY <1>1, <2>2, Largest
      <3>2. g[s] = VecSet_insert(g[s \ {Max(s)}], list[Max(s)])
        BY <1>5, <2>2
      <3>3. QED
        BY <1>1, <1>3, <2>2, <3>1, <3>2
    <2>3. QED
      BY <2>1, <2>2
  <1> HIDE DEF g
  <1>7. PICK h : Runs(S, f, << >>, list, n, h, g[1 .. n])
    BY <1>1, <1>3, <1>6, LoopRuns
  <1> DEFINE B == {i \in 0 .. n : ToSet(h[i]) = {list[k] : k \in 1 .. i}}
  <1>8. 0 \in B
    <2>1. {list[k] : k \in 1 .. 0} = {}
      OBVIOUS
    <2>2. QED
      BY <1>1, <1>7, <2>1, EmptySet DEF Runs
  <1>9. ASSUME NEW i \in 1 .. n, i - 1 \in B PROVE i \in B
    <2>1. i \in 0 .. n /\ i - 1 \in 0 .. n /\ 1 .. i = (1 .. (i - 1)) \cup {i}
      BY <1>1
    <2>2. h[i - 1] \in S /\ h[i] = VecSet_insert(h[i - 1], list[i])
      BY <1>1, <1>3, <1>7, <2>1 DEF Runs
    <2>3. ToSet(h[i]) = ToSet(h[i - 1]) \cup {list[i]}
      BY <1>1, <2>2, InsertSet DEF S
    <2>4. QED
      BY <1>9, <2>1, <2>3
  <1>10. \A i \in 0 .. n : i \in B
    <2> HIDE DEF B
    <2>1. QED
      BY <1>1, <1>8, <1>9, PrefixInduction
  <1>11. n \in B /\ h[n] \in S
    BY <1>1, <1>7, <1>10 DEF Runs
  <1>12. ToSet(h[n]) = ToSet(list)
    BY <1>1, <1>11 DEF ToSet
  <1>13. VecSet_from_iter(list) = h[n]
    BY <1>2, <1>7 DEF Runs
  <1>14. QED
    BY <1>11, <1>12, <1>13 DEF S

(* A removal leaves the other items, each once.                            *)
LEMMA RemoveSet ==
    ASSUME NEW T, NEW list \in USeq(T), NEW x
    PROVE  /\ VecSet_remove(list, x) \in USeq(T)
           /\ ToSet(VecSet_remove(list, x)) = ToSet(list) \ {x}
  <1> DEFINE n == Len(list)
             S == Seq(T)
             op(kept, y) == IF y # x THEN Append(kept, y) ELSE kept
             f == [p \in S \X T |-> op(p[1], p[2])]
             loop(g) == [s \in SUBSET (1 .. n) |->
                           IF s = {} THEN << >> ELSE op(g[s \ {Max(s)}], list[Max(s)])]
             g == CHOOSE h : h = loop(h)
  <1>1. /\ n \in Nat /\ list \in [1 .. n -> T] /\ DOMAIN list = 1 .. n /\ << >> \in S
        /\ \A i \in 1 .. n : list[i] \in T
    BY SeqParts DEF USeq
  <1>2. VecSet_remove(list, x) = g[1 .. n]
    BY <1>1, Zenon DEF VecSet_remove, FoldLeft, MapThenFoldSet, VecSet_new
  <1> HIDE DEF n
  <1>3. f \in [S \X T -> S] /\ \A a \in S, y \in T : f[<<a, y>>] = op(a, y)
    OBVIOUS
  <1> HIDE DEF f, S, op
  <1>4. PICK G \in [SUBSET (1 .. n) -> S] : IsLoop(f, << >>, list, n, G)
    BY <1>1, <1>3, LoopExists
  <1>5. g = loop(g)
    <2>1. G = loop(G)
      <3>1. ASSUME NEW s \in SUBSET (1 .. n), s # {}
            PROVE  f[<<G[s \ {Max(s)}], list[Max(s)]>>] = op(G[s \ {Max(s)}], list[Max(s)])
        <4>1. Max(s) \in 1 .. n /\ s \ {Max(s)} \in SUBSET (1 .. n)
          BY <1>1, <3>1, Largest
        <4>2. QED
          BY <1>1, <1>3, <4>1
      <3>2. QED
        BY <1>4, <3>1 DEF IsLoop
    <2> HIDE DEF loop
    <2>2. QED
      BY <2>1
  <1>6. /\ g[{}] = << >>
        /\ \A s \in SUBSET (1 .. n) : s # {} /\ g[s \ {Max(s)}] \in S
             => g[s] = f[<<g[s \ {Max(s)}], list[Max(s)]>>]
    <2> HIDE DEF g
    <2>1. g[{}] = << >>
      BY <1>5
    <2>2. ASSUME NEW s \in SUBSET (1 .. n), s # {}, g[s \ {Max(s)}] \in S
          PROVE  g[s] = f[<<g[s \ {Max(s)}], list[Max(s)]>>]
      <3>1. Max(s) \in 1 .. n
        BY <1>1, <2>2, Largest
      <3>2. g[s] = op(g[s \ {Max(s)}], list[Max(s)])
        BY <1>5, <2>2
      <3>3. QED
        BY <1>1, <1>3, <2>2, <3>1, <3>2
    <2>3. QED
      BY <2>1, <2>2
  <1> HIDE DEF g
  <1>7. PICK h : Runs(S, f, << >>, list, n, h, g[1 .. n])
    BY <1>1, <1>3, <1>6, LoopRuns
  <1> DEFINE seen(i) == {list[k] : k \in 1 .. i}
             B == {i \in 0 .. n : h[i] \in USeq(T) /\ ToSet(h[i]) = seen(i) \ {x}}
  <1>8. 0 \in B
    <2>1. seen(0) = {}
      OBVIOUS
    <2>2. QED
      BY <1>1, <1>7, <2>1, EmptySet DEF Runs
  <1>9. ASSUME NEW i \in 1 .. n, i - 1 \in B PROVE i \in B
    <2>1. i \in 0 .. n /\ i - 1 \in 0 .. n /\ 1 .. i = (1 .. (i - 1)) \cup {i}
      BY <1>1
    <2>2. h[i - 1] \in S /\ h[i] = op(h[i - 1], list[i])
      BY <1>1, <1>3, <1>7, <2>1 DEF Runs
    <2>3. seen(i) = seen(i - 1) \cup {list[i]}
      BY <2>1
    <2>4. list[i] \notin seen(i - 1)
      <3>1. SUFFICES ASSUME NEW k \in 1 .. (i - 1), list[k] = list[i] PROVE FALSE
        OBVIOUS
      <3>2. k \in DOMAIN list /\ i \in DOMAIN list /\ k # i
        BY <1>1
      <3>3. QED
        BY <3>1, <3>2 DEF USeq, Unique
    <2> HIDE DEF seen
    <2>5. list[i] \in T /\ h[i - 1] \in USeq(T) /\ ToSet(h[i - 1]) = seen(i - 1) \ {x}
      BY <1>1, <1>9
    <2>6. CASE list[i] # x
      <3>1. h[i] = Append(h[i - 1], list[i])
        BY <2>2, <2>6 DEF op
      <3>2. h[i] \in USeq(T)
        BY <2>4, <2>5, <3>1, AppendUnique
      <3>3. ToSet(h[i]) = ToSet(h[i - 1]) \cup {list[i]}
        BY <2>5, <3>1, AppendToSet DEF USeq
      <3>4. QED
        BY <2>1, <2>3, <2>5, <2>6, <3>2, <3>3
    <2>7. CASE list[i] = x
      BY <2>1, <2>2, <2>3, <2>5, <2>7 DEF op
    <2>8. QED
      BY <2>6, <2>7
  <1>10. \A i \in 0 .. n : i \in B
    <2> HIDE DEF B
    <2>1. QED
      BY <1>1, <1>8, <1>9, PrefixInduction
  <1>11. n \in B
    <2> HIDE DEF B
    <2>1. QED
      BY <1>1, <1>10
  <1>12. seen(n) = ToSet(list)
    BY <1>1 DEF ToSet
  <1>13. VecSet_remove(list, x) = h[n]
    BY <1>2, <1>7 DEF Runs
  <1>14. QED
    BY <1>11, <1>12, <1>13

---------------------------------------------------------------------------
(* Maps as vectors.                                                        *)

(* A vector of entries from D to V, no key of it twice.                    *)
VMap(D, V) == {m \in Seq(D \X V) : UniqueKeys(m)}

(* The entries of a map, and their keys.                                   *)
MapFacts(m, D, V) ==
    /\ m \in Seq(D \X V) /\ Len(m) \in Nat /\ DOMAIN m = 1 .. Len(m)
    /\ \A i \in DOMAIN m : m[i] \in D \X V /\ m[i] = <<m[i][1], m[i][2]>>
    /\ \A i \in DOMAIN m : m[i] \in ToSet(m)
    /\ \A e \in ToSet(m) : e \in D \X V /\ e = <<e[1], e[2]>>
    /\ \A i, j \in DOMAIN m : m[i][1] = m[j][1] => i = j
    /\ \A e, d \in ToSet(m) : e[1] = d[1] => e = d
    /\ Keys(m) = {e[1] : e \in ToSet(m)}

(* A vector of entries with different keys has these facts.                *)
LEMMA MapParts ==
    ASSUME NEW D, NEW V, NEW m \in VMap(D, V)
    PROVE  MapFacts(m, D, V)
  <1>1. m \in Seq(D \X V) /\ Len(m) \in Nat /\ DOMAIN m = 1 .. Len(m)
    BY DEF VMap
  <1>2. \A i \in DOMAIN m : m[i] \in D \X V /\ m[i] = <<m[i][1], m[i][2]>>
    BY <1>1
  <1>3. \A i, j \in DOMAIN m : m[i][1] = m[j][1] => i = j
    BY DEF VMap, UniqueKeys
  <1>4. \A e \in ToSet(m) : e \in D \X V /\ e = <<e[1], e[2]>>
    BY <1>2 DEF ToSet
  <1>5. \A e, d \in ToSet(m) : e[1] = d[1] => e = d
    BY <1>3 DEF ToSet
  <1>6. Keys(m) = {e[1] : e \in ToSet(m)}
    BY DEF Keys, ToSet
  <1>7. QED
    BY <1>1, <1>2, <1>3, <1>4, <1>5, <1>6 DEF ToSet, MapFacts

(* A vector of entries is a map when no two of them share a key.           *)
LEMMA AppendMap ==
    ASSUME NEW D, NEW V, NEW m \in VMap(D, V), NEW d \in D \X V,
           \A e \in ToSet(m) : e[1] # d[1]
    PROVE  Append(m, d) \in VMap(D, V) /\ ToSet(Append(m, d)) = ToSet(m) \cup {d}
  <1>1. /\ m \in Seq(D \X V) /\ Len(m) \in Nat /\ DOMAIN m = 1 .. Len(m)
        /\ \A i \in 1 .. Len(m) : m[i][1] # d[1]
        /\ \A i, j \in 1 .. Len(m) : m[i][1] = m[j][1] => i = j
    <2>1. MapFacts(m, D, V)
      BY MapParts
    <2>2. /\ m \in Seq(D \X V) /\ Len(m) \in Nat /\ DOMAIN m = 1 .. Len(m)
          /\ \A i \in DOMAIN m : m[i] \in ToSet(m)
          /\ \A i, j \in DOMAIN m : m[i][1] = m[j][1] => i = j
      BY <2>1, Zenon DEF MapFacts
    <2>3. QED
      BY <2>2
  <1> DEFINE a == Append(m, d)
  <1>2. /\ a \in Seq(D \X V) /\ DOMAIN a = 1 .. (Len(m) + 1) /\ a[Len(m) + 1] = d
        /\ \A i \in 1 .. Len(m) : a[i] = m[i]
        /\ ToSet(a) = ToSet(m) \cup {d}
    BY <1>1, AppendParts, AppendToSet
  <1> HIDE DEF a
  <1>3. ASSUME NEW i \in DOMAIN a, NEW j \in DOMAIN a, a[i][1] = a[j][1] PROVE i = j
    <2>1. CASE i = Len(m) + 1 /\ j # Len(m) + 1
      BY <1>1, <1>2, <1>3, <2>1
    <2>2. CASE j = Len(m) + 1 /\ i # Len(m) + 1
      BY <1>1, <1>2, <1>3, <2>2
    <2>3. CASE i # Len(m) + 1 /\ j # Len(m) + 1
      BY <1>1, <1>2, <1>3, <2>3
    <2>4. QED
      BY <2>1, <2>2, <2>3
  <1>4. QED
    BY <1>2, <1>3 DEF VMap, UniqueKeys, a

(* The empty vector is the empty map.                                      *)
LEMMA EmptyVMap ==
    ASSUME NEW D, NEW V
    PROVE  << >> \in VMap(D, V) /\ ToSet(<< >>) = {}
  BY DEF VMap, UniqueKeys, ToSet

(* A lookup finds the one entry of its key, or none.                       *)
LEMMA IndexOf ==
    ASSUME NEW D, NEW V, NEW m \in VMap(D, V), NEW k
    PROVE  /\ \A i \in DOMAIN m : m[i][1] = k => index(m, k) = i
           /\ k \notin Keys(m) => index(m, k) = Len(m) + 1
           /\ VecMap_contains_key(m, k) <=> k \in Keys(m)
  <1>1. MapFacts(m, D, V)
    BY MapParts
  <1>2. /\ Len(m) \in Nat /\ DOMAIN m = 1 .. Len(m)
        /\ \A i, j \in DOMAIN m : m[i][1] = m[j][1] => i = j
    BY <1>1, Zenon DEF MapFacts
  <1>3. ASSUME NEW i \in DOMAIN m, m[i][1] = k PROVE index(m, k) = i
    <2> DEFINE at == {j \in DOMAIN m : m[j][1] = k}
    <2>1. at = {i} /\ at \in SUBSET (1 .. Len(m)) /\ at # {}
      BY <1>2, <1>3
    <2>2. index(m, k) = Max(at)
      BY <2>1 DEF index
    <2> HIDE DEF at
    <2>3. Max(at) \in at
      BY <1>2, <2>1, Largest
    <2>4. QED
      BY <2>1, <2>2, <2>3
  <1>4. ASSUME k \notin Keys(m) PROVE index(m, k) = Len(m) + 1
    <2>1. {j \in DOMAIN m : m[j][1] = k} = {}
      BY <1>4 DEF Keys
    <2>2. QED
      BY <2>1 DEF index
  <1>5. VecMap_contains_key(m, k) <=> k \in Keys(m)
    BY DEF VecMap_contains_key, Keys
  <1>6. QED
    BY <1>3, <1>4, <1>5

(* What is read at a key is the value of its entry.                        *)
LEMMA GetCloned ==
    ASSUME NEW D, NEW V, NEW m \in VMap(D, V)
    PROVE  /\ \A e \in ToSet(m) : VecMap_get_cloned(m, e[1]) = e[2] /\ e[1] \in Keys(m)
           /\ \A k \in Keys(m) : /\ k \in D /\ VecMap_get_cloned(m, k) \in V
                                 /\ <<k, VecMap_get_cloned(m, k)>> \in ToSet(m)
  <1>1. MapFacts(m, D, V)
    BY MapParts
  <1>2. /\ Len(m) \in Nat /\ DOMAIN m = 1 .. Len(m)
        /\ \A e \in ToSet(m) : e \in D \X V /\ e = <<e[1], e[2]>>
        /\ Keys(m) = {e[1] : e \in ToSet(m)}
    BY <1>1, Zenon DEF MapFacts
  <1>3. ASSUME NEW e \in ToSet(m)
        PROVE  VecMap_get_cloned(m, e[1]) = e[2] /\ e[1] \in Keys(m)
    <2>1. PICK i \in DOMAIN m : e = m[i]
      BY DEF ToSet
    <2>2. index(m, e[1]) = i
      BY <2>1, IndexOf
    <2>3. i <= Len(m)
      BY <1>2
    <2>4. QED
      BY <1>2, <2>1, <2>2, <2>3 DEF VecMap_get_cloned
  <1>4. ASSUME NEW k \in Keys(m)
        PROVE  /\ k \in D /\ VecMap_get_cloned(m, k) \in V
               /\ <<k, VecMap_get_cloned(m, k)>> \in ToSet(m)
    <2>1. PICK e \in ToSet(m) : k = e[1]
      BY <1>2
    <2>2. e = <<e[1], e[2]>> /\ e[1] \in D /\ e[2] \in V
      BY <1>2
    <2>3. VecMap_get_cloned(m, e[1]) = e[2]
      BY <1>3
    <2>4. QED
      BY <2>1, <2>2, <2>3
  <1>5. QED
    BY <1>3, <1>4

(* An insertion replaces the entry of its key, or adds one.                *)
LEMMA InsertMap ==
    ASSUME NEW D, NEW V, NEW m \in VMap(D, V), NEW k \in D, NEW v \in V
    PROVE  /\ VecMap_insert(m, k, v) \in VMap(D, V)
           /\ ToSet(VecMap_insert(m, k, v)) = {e \in ToSet(m) : e[1] # k} \cup {<<k, v>>}
  <1>1. MapFacts(m, D, V)
    BY MapParts
  <1>2. /\ m \in Seq(D \X V) /\ Len(m) \in Nat /\ DOMAIN m = 1 .. Len(m)
        /\ \A i, j \in DOMAIN m : m[i][1] = m[j][1] => i = j
        /\ \A i \in DOMAIN m : m[i] \in ToSet(m)
        /\ Keys(m) = {e[1] : e \in ToSet(m)}
    BY <1>1, Zenon DEF MapFacts
  <1> DEFINE w == VecMap_insert(m, k, v)
  <1>3. CASE k \notin Keys(m)
    <2>1. index(m, k) = Len(m) + 1
      BY <1>3, IndexOf
    <2>2. w = Append(m, <<k, v>>)
      BY <1>2, <2>1 DEF VecMap_insert
    <2>3. \A e \in ToSet(m) : e[1] # k
      BY <1>2, <1>3
    <2>4. {e \in ToSet(m) : e[1] # k} = ToSet(m)
      BY <2>3
    <2>5. w \in VMap(D, V) /\ ToSet(w) = ToSet(m) \cup {<<k, v>>}
      BY <2>2, <2>3, AppendMap
    <2>6. QED
      BY <2>4, <2>5
  <1>4. CASE k \in Keys(m)
    <2>1. PICK i \in DOMAIN m : m[i][1] = k
      BY <1>4 DEF Keys
    <2>2. index(m, k) = i
      BY <2>1, IndexOf
    <2>3. w = [m EXCEPT ![i] = <<k, v>>]
      BY <1>2, <2>2 DEF VecMap_insert
    <2>4. /\ w \in Seq(D \X V) /\ DOMAIN w = DOMAIN m /\ w[i] = <<k, v>>
          /\ \A j \in DOMAIN m : j # i => w[j] = m[j]
      BY <1>2, <2>1, <2>3
    <2> HIDE DEF w
    <2>5. \A j \in DOMAIN m : w[j][1] = m[j][1]
      BY <2>1, <2>4
    <2>6. w \in VMap(D, V)
      BY <1>2, <2>4, <2>5 DEF VMap, UniqueKeys
    <2>7. ASSUME NEW e PROVE e \in ToSet(w) <=> e \in {d \in ToSet(m) : d[1] # k} \cup {<<k, v>>}
      <3>1. ASSUME e \in ToSet(w) PROVE e \in {d \in ToSet(m) : d[1] # k} \cup {<<k, v>>}
        <4>1. PICK j \in DOMAIN m : e = w[j]
          BY <2>4, <3>1 DEF ToSet
        <4>2. CASE j = i
          BY <2>4, <4>1, <4>2
        <4>3. CASE j # i
          <5>1. e = m[j] /\ m[j][1] # k
            BY <1>2, <2>1, <2>4, <4>1, <4>3
          <5>2. QED
            BY <1>2, <5>1
        <4>4. QED
          BY <4>2, <4>3
      <3>2. <<k, v>> \in ToSet(w)
        BY <2>4 DEF ToSet
      <3>3. ASSUME e \in ToSet(m), e[1] # k PROVE e \in ToSet(w)
        <4>1. PICK j \in DOMAIN m : e = m[j]
          BY <3>3 DEF ToSet
        <4>2. j # i
          BY <2>1, <3>3, <4>1
        <4>3. QED
          BY <2>4, <4>1, <4>2 DEF ToSet
      <3>4. QED
        BY <3>1, <3>2, <3>3
    <2>8. QED
      BY <2>6, <2>7 DEF w
  <1>5. QED
    BY <1>3, <1>4

(* A removal leaves the entries of the other keys.                         *)
LEMMA RemoveMap ==
    ASSUME NEW D, NEW V, NEW list \in VMap(D, V), NEW x
    PROVE  /\ VecMap_remove(list, x) \in VMap(D, V)
           /\ ToSet(VecMap_remove(list, x)) = {e \in ToSet(list) : e[1] # x}
  <1> DEFINE T == D \X V
  <1> DEFINE n == Len(list)
             S == Seq(T)
             op(kept, y) == IF y[1] # x THEN Append(kept, y) ELSE kept
             f == [p \in S \X T |-> op(p[1], p[2])]
             loop(g) == [s \in SUBSET (1 .. n) |->
                           IF s = {} THEN << >> ELSE op(g[s \ {Max(s)}], list[Max(s)])]
             g == CHOOSE h : h = loop(h)
  <1>1. /\ n \in Nat /\ list \in [1 .. n -> T] /\ DOMAIN list = 1 .. n /\ << >> \in S
        /\ \A i \in 1 .. n : list[i] \in T
    BY SeqParts DEF VMap
  <1>2. VecMap_remove(list, x) = g[1 .. n]
    BY <1>1, Zenon DEF VecMap_remove, FoldLeft, MapThenFoldSet, VecMap_new
  <1> HIDE DEF n
  <1>3. f \in [S \X T -> S] /\ \A a \in S, y \in T : f[<<a, y>>] = op(a, y)
    OBVIOUS
  <1> HIDE DEF f, S, op
  <1>4. PICK G \in [SUBSET (1 .. n) -> S] : IsLoop(f, << >>, list, n, G)
    BY <1>1, <1>3, LoopExists
  <1>5. g = loop(g)
    <2>1. G = loop(G)
      <3>1. ASSUME NEW s \in SUBSET (1 .. n), s # {}
            PROVE  f[<<G[s \ {Max(s)}], list[Max(s)]>>] = op(G[s \ {Max(s)}], list[Max(s)])
        <4>1. Max(s) \in 1 .. n /\ s \ {Max(s)} \in SUBSET (1 .. n)
          BY <1>1, <3>1, Largest
        <4>2. QED
          BY <1>1, <1>3, <4>1
      <3>2. QED
        BY <1>4, <3>1 DEF IsLoop
    <2> HIDE DEF loop
    <2>2. QED
      BY <2>1
  <1>6. /\ g[{}] = << >>
        /\ \A s \in SUBSET (1 .. n) : s # {} /\ g[s \ {Max(s)}] \in S
             => g[s] = f[<<g[s \ {Max(s)}], list[Max(s)]>>]
    <2> HIDE DEF g
    <2>1. g[{}] = << >>
      BY <1>5
    <2>2. ASSUME NEW s \in SUBSET (1 .. n), s # {}, g[s \ {Max(s)}] \in S
          PROVE  g[s] = f[<<g[s \ {Max(s)}], list[Max(s)]>>]
      <3>1. Max(s) \in 1 .. n
        BY <1>1, <2>2, Largest
      <3>2. g[s] = op(g[s \ {Max(s)}], list[Max(s)])
        BY <1>5, <2>2
      <3>3. QED
        BY <1>1, <1>3, <2>2, <3>1, <3>2
    <2>3. QED
      BY <2>1, <2>2
  <1> HIDE DEF g
  <1>7. PICK h : Runs(S, f, << >>, list, n, h, g[1 .. n])
    BY <1>1, <1>3, <1>6, LoopRuns
  <1> DEFINE seen(i) == {list[k] : k \in 1 .. i}
             B == {i \in 0 .. n : h[i] \in VMap(D, V) /\ ToSet(h[i]) = {e \in seen(i) : e[1] # x}}
  <1>8. 0 \in B
    <2>1. seen(0) = {}
      OBVIOUS
    <2>2. QED
      BY <1>1, <1>7, <2>1, EmptyVMap DEF Runs
  <1>9. ASSUME NEW i \in 1 .. n, i - 1 \in B PROVE i \in B
    <2>1. i \in 0 .. n /\ i - 1 \in 0 .. n /\ 1 .. i = (1 .. (i - 1)) \cup {i}
      BY <1>1
    <2>2. h[i - 1] \in S /\ h[i] = op(h[i - 1], list[i])
      BY <1>1, <1>3, <1>7, <2>1 DEF Runs
    <2>3. seen(i) = seen(i - 1) \cup {list[i]}
      BY <2>1
    <2>4. \A e \in seen(i - 1) : e[1] # list[i][1]
      <3>1. SUFFICES ASSUME NEW k \in 1 .. (i - 1), list[k][1] = list[i][1] PROVE FALSE
        OBVIOUS
      <3>2. k \in DOMAIN list /\ i \in DOMAIN list /\ k # i
        BY <1>1
      <3>3. QED
        BY <3>1, <3>2 DEF VMap, UniqueKeys
    <2> HIDE DEF seen
    <2>5. list[i] \in T /\ h[i - 1] \in VMap(D, V) /\ ToSet(h[i - 1]) = {e \in seen(i - 1) : e[1] # x}
      BY <1>1, <1>9
    <2>6. CASE list[i][1] # x
      <3>1. h[i] = Append(h[i - 1], list[i])
        BY <2>2, <2>6 DEF op
      <3>2. \A e \in ToSet(h[i - 1]) : e[1] # list[i][1]
        BY <2>4, <2>5
      <3>3. h[i] \in VMap(D, V) /\ ToSet(h[i]) = ToSet(h[i - 1]) \cup {list[i]}
        BY <2>5, <3>1, <3>2, AppendMap
      <3>4. QED
        BY <2>1, <2>3, <2>5, <2>6, <3>3
    <2>7. CASE list[i][1] = x
      BY <2>1, <2>2, <2>3, <2>5, <2>7 DEF op
    <2>8. QED
      BY <2>6, <2>7
  <1>10. \A i \in 0 .. n : i \in B
    <2> HIDE DEF B
    <2>1. QED
      BY <1>1, <1>8, <1>9, PrefixInduction
  <1>11. n \in B
    <2> HIDE DEF B
    <2>1. QED
      BY <1>1, <1>10
  <1>12. seen(n) = ToSet(list)
    BY <1>1 DEF ToSet
  <1>13. VecMap_remove(list, x) = h[n]
    BY <1>2, <1>7 DEF Runs
  <1>14. QED
    BY <1>11, <1>12, <1>13

(* The loops of state.rs insert what they keep of a map into a new one:    *)
(* the entries in keep, with their values replaced as new says.            *)
Rebuilding(m, keep, new, g) ==
    [s \in SUBSET (DOMAIN m) |->
        IF s = {} THEN << >>
        ELSE IF m[Max(s)] \in keep
             THEN VecMap_insert(g[s \ {Max(s)}], m[Max(s)][1], new[m[Max(s)]])
             ELSE g[s \ {Max(s)}]]

(* What such a loop returns.                                               *)
RebuiltIs(m, keep, new, D, V, r) ==
    /\ r \in VMap(D, V)
    /\ ToSet(r) = {<<e[1], new[e]>> : e \in ToSet(m) \cap keep}

(* A rebuilt map has the entries that were kept.                           *)
LEMMA RebuiltMap ==
    ASSUME NEW D, NEW V, NEW m \in VMap(D, V), NEW keep, NEW new \in [ToSet(m) -> V]
    PROVE  /\ \E g : g = Rebuilding(m, keep, new, g)
           /\ \A g : g = Rebuilding(m, keep, new, g) =>
                 RebuiltIs(m, keep, new, D, V, g[DOMAIN m])
  <1> DEFINE n == Len(m)
             S == VMap(D, V)
             X == ToSet(m)
             op(kept, e) == IF e \in keep THEN VecMap_insert(kept, e[1], new[e]) ELSE kept
             f == [p \in S \X X |-> op(p[1], p[2])]
             loop(g) == [s \in SUBSET (1 .. n) |->
                           IF s = {} THEN << >> ELSE op(g[s \ {Max(s)}], m[Max(s)])]
  <1>1. MapFacts(m, D, V)
    BY MapParts
  <1>2. /\ n \in Nat /\ DOMAIN m = 1 .. n /\ << >> \in S
        /\ \A i \in 1 .. n : m[i] \in X
        /\ \A e \in X : e[1] \in D /\ new[e] \in V
        /\ \A i, j \in 1 .. n : m[i][1] = m[j][1] => i = j
    <2>1. /\ n \in Nat /\ DOMAIN m = 1 .. n
          /\ \A i \in DOMAIN m : m[i] \in ToSet(m)
          /\ \A e \in ToSet(m) : e \in D \X V
          /\ \A i, j \in DOMAIN m : m[i][1] = m[j][1] => i = j
      BY <1>1, Zenon DEF MapFacts
    <2>2. << >> \in S
      BY EmptyVMap
    <2>3. QED
      BY <2>1, <2>2
  <1>3. m \in [1 .. n -> X]
    BY <1>1, <1>2 DEF MapFacts
  <1>4. \A g : Rebuilding(m, keep, new, g) = loop(g)
    BY <1>2 DEF Rebuilding
  <1> HIDE DEF n
  <1>5. f \in [S \X X -> S] /\ \A a \in S, e \in X : f[<<a, e>>] = op(a, e)
    BY <1>2, InsertMap
  <1> HIDE DEF f, S, op, X
  <1>6. PICK G \in [SUBSET (1 .. n) -> S] : IsLoop(f, << >>, m, n, G)
    BY <1>2, <1>3, <1>5, LoopExists
  <1>7. G = loop(G)
    <2>1. ASSUME NEW s \in SUBSET (1 .. n), s # {}
          PROVE  f[<<G[s \ {Max(s)}], m[Max(s)]>>] = op(G[s \ {Max(s)}], m[Max(s)])
      <3>1. Max(s) \in 1 .. n /\ s \ {Max(s)} \in SUBSET (1 .. n)
        BY <1>2, <2>1, Largest
      <3>2. QED
        BY <1>2, <1>5, <3>1
    <2>2. QED
      BY <1>6, <2>1 DEF IsLoop
  <1>fix. SUFFICES ASSUME NEW g, g = loop(g)
                 PROVE  RebuiltIs(m, keep, new, D, V, g[DOMAIN m])
    <2> HIDE DEF loop
    <2>1. QED
      BY <1>4, <1>7
  <1>8. /\ g[{}] = << >>
        /\ \A s \in SUBSET (1 .. n) : s # {} /\ g[s \ {Max(s)}] \in S
             => g[s] = f[<<g[s \ {Max(s)}], m[Max(s)]>>]
    <2>1. g[{}] = << >>
      BY <1>fix
    <2>2. ASSUME NEW s \in SUBSET (1 .. n), s # {}, g[s \ {Max(s)}] \in S
          PROVE  g[s] = f[<<g[s \ {Max(s)}], m[Max(s)]>>]
      <3>1. Max(s) \in 1 .. n
        BY <1>2, <2>2, Largest
      <3>2. g[s] = op(g[s \ {Max(s)}], m[Max(s)])
        BY <1>fix, <2>2
      <3>3. QED
        BY <1>2, <1>5, <2>2, <3>1, <3>2
    <2>3. QED
      BY <2>1, <2>2
  <1>9. PICK h : Runs(S, f, << >>, m, n, h, g[1 .. n])
    BY <1>2, <1>3, <1>5, <1>8, LoopRuns
  <1> DEFINE seen(i) == {m[j] : j \in 1 .. i}
             out(E) == {<<e[1], new[e]>> : e \in E \cap keep}
             B == {i \in 0 .. n : ToSet(h[i]) = out(seen(i))}
  <1>10. 0 \in B
    <2>1. seen(0) = {}
      OBVIOUS
    <2> HIDE DEF seen
    <2>2. out(seen(0)) = {}
      BY <2>1
    <2>3. h[0] = << >> /\ 0 \in 0 .. n
      BY <1>2, <1>9 DEF Runs
    <2>4. ToSet(h[0]) = {}
      BY <2>3, EmptyVMap
    <2>5. QED
      BY <2>2, <2>3, <2>4
  <1>11. ASSUME NEW i \in 1 .. n, i - 1 \in B PROVE i \in B
    <2>1. i \in 0 .. n /\ i - 1 \in 0 .. n /\ 1 .. i = (1 .. (i - 1)) \cup {i}
      BY <1>2
    <2>2. h[i - 1] \in S /\ h[i] = op(h[i - 1], m[i])
      BY <1>2, <1>5, <1>9, <2>1 DEF Runs
    <2>3. seen(i) = seen(i - 1) \cup {m[i]}
      BY <2>1
    <2>4. \A e \in seen(i - 1) : e[1] # m[i][1]
      <3>1. SUFFICES ASSUME NEW k \in 1 .. (i - 1), m[k][1] = m[i][1] PROVE FALSE
        OBVIOUS
      <3>2. k \in 1 .. n /\ i \in 1 .. n /\ k # i
        BY <1>2
      <3>3. QED
        BY <1>2, <3>1, <3>2
    <2> HIDE DEF seen
    <2>5. m[i] \in X /\ ToSet(h[i - 1]) = out(seen(i - 1)) /\ m[i][1] \in D /\ new[m[i]] \in V
      BY <1>2, <1>11
    <2>6. CASE m[i] \in keep
      <3>1. h[i] = VecMap_insert(h[i - 1], m[i][1], new[m[i]])
        BY <2>2, <2>6 DEF op
      <3>2. ToSet(h[i]) = {e \in ToSet(h[i - 1]) : e[1] # m[i][1]} \cup {<<m[i][1], new[m[i]]>>}
        BY <2>2, <2>5, <3>1, InsertMap DEF S
      <3>3. {e \in ToSet(h[i - 1]) : e[1] # m[i][1]} = ToSet(h[i - 1])
        BY <2>4, <2>5
      <3>4. out(seen(i)) = out(seen(i - 1)) \cup {<<m[i][1], new[m[i]]>>}
        BY <2>3, <2>6
      <3>5. QED
        BY <2>1, <2>5, <3>2, <3>3, <3>4
    <2>7. CASE m[i] \notin keep
      <3>1. h[i] = h[i - 1]
        BY <2>2, <2>7 DEF op
      <3>2. out(seen(i)) = out(seen(i - 1))
        BY <2>3, <2>7
      <3>3. QED
        BY <2>1, <2>5, <3>1, <3>2
    <2>8. QED
      BY <2>6, <2>7
  <1>12. \A i \in 0 .. n : i \in B
    <2> HIDE DEF B
    <2>1. QED
      BY <1>2, <1>10, <1>11, PrefixInduction
  <1>13. n \in B
    <2> HIDE DEF B
    <2>1. QED
      BY <1>2, <1>12
  <1>14. seen(n) = ToSet(m)
    BY <1>2 DEF ToSet
  <1>15. g[DOMAIN m] = h[n] /\ h[n] \in S
    BY <1>2, <1>9 DEF Runs
  <1> HIDE DEF seen
  <1>16. QED
    BY <1>13, <1>14, <1>15 DEF S, RebuiltIs

(* drop_of keeps the records of the other agents.                          *)
LEMMA DropOf ==
    ASSUME NEW D, NEW V, NEW m \in VMap(D, V), NEW agent
    PROVE  /\ drop_of(m, agent) \in VMap(D, V)
           /\ ToSet(drop_of(m, agent)) =
                {e \in ToSet(m) : e[2].agent # agent}
  <1> DEFINE keep == {e \in ToSet(m) : e[2].agent # agent}
             new == [e \in ToSet(m) |-> e[2]]
             loop(g) == [s \in SUBSET (DOMAIN m) |->
                           IF s = {} THEN << >>
                           ELSE LET value == VecMap_get_cloned(m, m[Max(s)][1])
                                IN  IF value.agent # agent
                                    THEN VecMap_insert(g[s \ {Max(s)}], m[Max(s)][1], value)
                                    ELSE g[s \ {Max(s)}]]
             g == CHOOSE h : h = loop(h)
  <1>1. drop_of(m, agent) = g[DOMAIN m]
    BY Zenon DEF drop_of, rebuild, FoldLeft, MapThenFoldSet, VecMap_new
  <1>2. MapFacts(m, D, V)
    BY MapParts
  <1>3. /\ Len(m) \in Nat /\ DOMAIN m = 1 .. Len(m)
        /\ \A i \in DOMAIN m : m[i] \in ToSet(m)
        /\ \A e \in ToSet(m) : e \in D \X V
    BY <1>2, Zenon DEF MapFacts
  <1>4. new \in [ToSet(m) -> V]
    BY <1>3
  <1>5. \A h : loop(h) = Rebuilding(m, keep, new, h)
    <2> SUFFICES ASSUME NEW h PROVE loop(h) = Rebuilding(m, keep, new, h)
      OBVIOUS
    <2>1. ASSUME NEW s \in SUBSET (DOMAIN m), s # {}
          PROVE  /\ m[Max(s)] \in ToSet(m)
                 /\ VecMap_get_cloned(m, m[Max(s)][1]) = m[Max(s)][2]
      <3>1. Max(s) \in DOMAIN m
        BY <1>3, <2>1, Largest
      <3>2. QED
        BY <1>3, <3>1, GetCloned
    <2>2. QED
      BY <2>1 DEF Rebuilding
  <1> HIDE DEF keep, new, loop
  <1>6. \E h : h = Rebuilding(m, keep, new, h)
    BY <1>4, RebuiltMap
  <1>7. g = Rebuilding(m, keep, new, g)
    BY <1>5, <1>6
  <1> HIDE DEF g
  <1>8. RebuiltIs(m, keep, new, D, V, g[DOMAIN m])
    BY <1>4, <1>7, RebuiltMap
  <1>9. {<<e[1], new[e]>> : e \in ToSet(m) \cap keep} =
            {e \in ToSet(m) : e[2].agent # agent}
    BY <1>3 DEF keep, new
  <1>10. QED
    BY <1>1, <1>8, <1>9 DEF RebuiltIs

(* drop_grants_of keeps the grants of the other agents.                    *)
LEMMA DropGrantsOf ==
    ASSUME NEW D, NEW V, NEW m \in VMap(D, V), NEW agent,
           m = crossing_grants
    PROVE  /\ drop_grants_of(agent) \in VMap(D, V)
           /\ ToSet(drop_grants_of(agent)) =
                {e \in ToSet(m) : e[1].agent # agent}
  <1> DEFINE keep == {e \in ToSet(m) : e[1].agent # agent}
             new == [e \in ToSet(m) |-> e[2]]
             loop(g) == [s \in SUBSET (DOMAIN m) |->
                           IF s = {} THEN << >>
                           ELSE LET value == VecMap_get_cloned(m, m[Max(s)][1])
                                IN  IF m[Max(s)][1].agent # agent
                                    THEN VecMap_insert(g[s \ {Max(s)}], m[Max(s)][1], value)
                                    ELSE g[s \ {Max(s)}]]
             g == CHOOSE h : h = loop(h)
  <1>1. drop_grants_of(agent) = g[DOMAIN m]
    BY Zenon DEF drop_grants_of, rebuild, FoldLeft, MapThenFoldSet, VecMap_new
  <1>2. MapFacts(m, D, V)
    BY MapParts
  <1>3. /\ Len(m) \in Nat /\ DOMAIN m = 1 .. Len(m)
        /\ \A i \in DOMAIN m : m[i] \in ToSet(m)
        /\ \A e \in ToSet(m) : e \in D \X V
    BY <1>2, Zenon DEF MapFacts
  <1>4. new \in [ToSet(m) -> V]
    BY <1>3
  <1>5. \A h : loop(h) = Rebuilding(m, keep, new, h)
    <2> SUFFICES ASSUME NEW h PROVE loop(h) = Rebuilding(m, keep, new, h)
      OBVIOUS
    <2>1. ASSUME NEW s \in SUBSET (DOMAIN m), s # {}
          PROVE  /\ m[Max(s)] \in ToSet(m)
                 /\ VecMap_get_cloned(m, m[Max(s)][1]) = m[Max(s)][2]
      <3>1. Max(s) \in DOMAIN m
        BY <1>3, <2>1, Largest
      <3>2. QED
        BY <1>3, <3>1, GetCloned
    <2>2. QED
      BY <2>1 DEF Rebuilding
  <1> HIDE DEF keep, new, loop
  <1>6. \E h : h = Rebuilding(m, keep, new, h)
    BY <1>4, RebuiltMap
  <1>7. g = Rebuilding(m, keep, new, g)
    BY <1>5, <1>6
  <1> HIDE DEF g
  <1>8. RebuiltIs(m, keep, new, D, V, g[DOMAIN m])
    BY <1>4, <1>7, RebuiltMap
  <1>9. {<<e[1], new[e]>> : e \in ToSet(m) \cap keep} =
            {e \in ToSet(m) : e[1].agent # agent}
    BY <1>3 DEF keep, new
  <1>10. QED
    BY <1>1, <1>8, <1>9 DEF RebuiltIs

(* delegate keeps the edges that do not touch the grantee.                 *)
LEMMA DropEdgesOf ==
    ASSUME NEW D, NEW V, NEW m \in VMap(D, V), NEW agent,
           m = agent_parent
    PROVE  /\ drop_edges_of(agent) \in VMap(D, V)
           /\ ToSet(drop_edges_of(agent)) =
                {e \in ToSet(m) : e[1] # agent /\ e[2] # agent}
  <1> DEFINE keep == {e \in ToSet(m) : e[1] # agent /\ e[2] # agent}
             new == [e \in ToSet(m) |-> e[2]]
             loop(g) == [s \in SUBSET (DOMAIN m) |->
                           IF s = {} THEN << >>
                           ELSE LET value == VecMap_get_cloned(m, m[Max(s)][1])
                                IN  IF m[Max(s)][1] # agent /\ value # agent
                                    THEN VecMap_insert(g[s \ {Max(s)}], m[Max(s)][1], value)
                                    ELSE g[s \ {Max(s)}]]
             g == CHOOSE h : h = loop(h)
  <1>1. drop_edges_of(agent) = g[DOMAIN m]
    BY Zenon DEF drop_edges_of, rebuild, FoldLeft, MapThenFoldSet, VecMap_new
  <1>2. MapFacts(m, D, V)
    BY MapParts
  <1>3. /\ Len(m) \in Nat /\ DOMAIN m = 1 .. Len(m)
        /\ \A i \in DOMAIN m : m[i] \in ToSet(m)
        /\ \A e \in ToSet(m) : e \in D \X V
    BY <1>2, Zenon DEF MapFacts
  <1>4. new \in [ToSet(m) -> V]
    BY <1>3
  <1>5. \A h : loop(h) = Rebuilding(m, keep, new, h)
    <2> SUFFICES ASSUME NEW h PROVE loop(h) = Rebuilding(m, keep, new, h)
      OBVIOUS
    <2>1. ASSUME NEW s \in SUBSET (DOMAIN m), s # {}
          PROVE  /\ m[Max(s)] \in ToSet(m)
                 /\ VecMap_get_cloned(m, m[Max(s)][1]) = m[Max(s)][2]
      <3>1. Max(s) \in DOMAIN m
        BY <1>3, <2>1, Largest
      <3>2. QED
        BY <1>3, <3>1, GetCloned
    <2>2. QED
      BY <2>1 DEF Rebuilding
  <1> HIDE DEF keep, new, loop
  <1>6. \E h : h = Rebuilding(m, keep, new, h)
    BY <1>4, RebuiltMap
  <1>7. g = Rebuilding(m, keep, new, g)
    BY <1>5, <1>6
  <1> HIDE DEF g
  <1>8. RebuiltIs(m, keep, new, D, V, g[DOMAIN m])
    BY <1>4, <1>7, RebuiltMap
  <1>9. {<<e[1], new[e]>> : e \in ToSet(m) \cap keep} =
            {e \in ToSet(m) : e[1] # agent /\ e[2] # agent}
    BY <1>3 DEF keep, new
  <1>10. QED
    BY <1>1, <1>8, <1>9 DEF RebuiltIs

(* What demote_all_of makes of a record.                                   *)
demoted(v, agent) ==
    IF v.agent = agent THEN [v EXCEPT !.disposition = "monitor_bypassed"] ELSE v

(* demote_all_of changes the disposition of the agent's records.           *)
LEMMA DemoteAllOf ==
    ASSUME NEW D, NEW V, NEW m \in VMap(D, V), NEW agent,
           \A v \in V : demoted(v, agent) \in V
    PROVE  /\ demote_all_of(m, agent) \in VMap(D, V)
           /\ ToSet(demote_all_of(m, agent)) =
                {<<e[1], demoted(e[2], agent)>> : e \in ToSet(m)}
  <1> DEFINE keep == {e \in ToSet(m) : TRUE}
             new == [e \in ToSet(m) |-> demoted(e[2], agent)]
             loop(g) == [s \in SUBSET (DOMAIN m) |->
                           IF s = {} THEN << >>
                           ELSE LET value == VecMap_get_cloned(m, m[Max(s)][1])
                                IN  IF TRUE
                                    THEN VecMap_insert(g[s \ {Max(s)}], m[Max(s)][1], demoted(value, agent))
                                    ELSE g[s \ {Max(s)}]]
             g == CHOOSE h : h = loop(h)
  <1>1. demote_all_of(m, agent) = g[DOMAIN m]
    BY Zenon DEF demote_all_of, demoted, rebuild, FoldLeft, MapThenFoldSet, VecMap_new
  <1>2. MapFacts(m, D, V)
    BY MapParts
  <1>3. /\ Len(m) \in Nat /\ DOMAIN m = 1 .. Len(m)
        /\ \A i \in DOMAIN m : m[i] \in ToSet(m)
        /\ \A e \in ToSet(m) : e \in D \X V
    BY <1>2, Zenon DEF MapFacts
  <1>4. new \in [ToSet(m) -> V]
    BY <1>3
  <1>5. \A h : loop(h) = Rebuilding(m, keep, new, h)
    <2> SUFFICES ASSUME NEW h PROVE loop(h) = Rebuilding(m, keep, new, h)
      OBVIOUS
    <2>1. ASSUME NEW s \in SUBSET (DOMAIN m), s # {}
          PROVE  /\ m[Max(s)] \in ToSet(m)
                 /\ VecMap_get_cloned(m, m[Max(s)][1]) = m[Max(s)][2]
      <3>1. Max(s) \in DOMAIN m
        BY <1>3, <2>1, Largest
      <3>2. QED
        BY <1>3, <3>1, GetCloned
    <2>2. QED
      BY <2>1 DEF Rebuilding
  <1> HIDE DEF keep, new, loop
  <1>6. \E h : h = Rebuilding(m, keep, new, h)
    BY <1>4, RebuiltMap
  <1>7. g = Rebuilding(m, keep, new, g)
    BY <1>5, <1>6
  <1> HIDE DEF g
  <1>8. RebuiltIs(m, keep, new, D, V, g[DOMAIN m])
    BY <1>4, <1>7, RebuiltMap
  <1>9. {<<e[1], new[e]>> : e \in ToSet(m) \cap keep} =
            {<<e[1], demoted(e[2], agent)>> : e \in ToSet(m)}
    BY <1>3 DEF keep, new
  <1>10. QED
    BY <1>1, <1>8, <1>9 DEF RebuiltIs

---------------------------------------------------------------------------
(* Maps into sets.                                                         *)

(* What is read after an insertion and after a removal.                    *)
LEMMA ReadAfter ==
    ASSUME NEW D, NEW V, NEW m \in VMap(D, V), NEW k \in D, NEW v \in V, NEW a \in D
    PROVE  /\ VecMap_get_set_or_empty(VecMap_insert(m, k, v), a) =
                IF a = k THEN v ELSE VecMap_get_set_or_empty(m, a)
           /\ VecMap_get_set_or_empty(VecMap_remove(m, k), a) =
                IF a = k THEN << >> ELSE VecMap_get_set_or_empty(m, a)
  <1>1. ASSUME NEW w \in VMap(D, V), NEW b
        PROVE  /\ (\A e \in ToSet(w) : e[1] # b) => VecMap_get_set_or_empty(w, b) = << >>
               /\ \A e \in ToSet(w) : e[1] = b => VecMap_get_set_or_empty(w, b) = e[2]
    <2>1. MapFacts(w, D, V)
      BY MapParts
    <2>2. Keys(w) = {e[1] : e \in ToSet(w)}
      BY <2>1, Zenon DEF MapFacts
    <2>3. VecMap_contains_key(w, b) <=> b \in Keys(w)
      BY IndexOf
    <2>4. \A e \in ToSet(w) : VecMap_get_cloned(w, e[1]) = e[2]
      BY GetCloned
    <2>5. QED
      BY <2>2, <2>3, <2>4 DEF VecMap_get_set_or_empty, VecSet_new
  <1> DEFINE w == VecMap_insert(m, k, v)
             u == VecMap_remove(m, k)
  <1>2. /\ w \in VMap(D, V) /\ ToSet(w) = {e \in ToSet(m) : e[1] # k} \cup {<<k, v>>}
        /\ u \in VMap(D, V) /\ ToSet(u) = {e \in ToSet(m) : e[1] # k}
    BY InsertMap, RemoveMap
  <1> HIDE DEF w, u
  <1>3. CASE a = k
    <2>1. VecMap_get_set_or_empty(w, a) = v
      <3>1. <<k, v>> \in ToSet(w) /\ <<k, v>>[1] = a /\ <<k, v>>[2] = v
        BY <1>2, <1>3
      <3>2. QED
        BY <1>1, <1>2, <3>1
    <2>2. \A e \in ToSet(u) : e[1] # a
      BY <1>2, <1>3
    <2>3. VecMap_get_set_or_empty(u, a) = << >>
      BY <1>1, <1>2, <2>2
    <2>4. QED
      BY <1>3, <2>1, <2>3 DEF w, u
  <1>4. CASE a # k /\ \E e \in ToSet(m) : e[1] = a
    <2>1. PICK e \in ToSet(m) : e[1] = a
      BY <1>4
    <2>2. e \in ToSet(w) /\ e \in ToSet(u)
      BY <1>2, <1>4, <2>1
    <2>3. /\ VecMap_get_set_or_empty(m, a) = e[2] /\ VecMap_get_set_or_empty(w, a) = e[2]
          /\ VecMap_get_set_or_empty(u, a) = e[2]
      BY <1>1, <1>2, <2>1, <2>2
    <2>4. QED
      BY <1>4, <2>3 DEF w, u
  <1>5. CASE a # k /\ \A e \in ToSet(m) : e[1] # a
    <2>1. (\A e \in ToSet(w) : e[1] # a) /\ (\A e \in ToSet(u) : e[1] # a)
      BY <1>2, <1>5
    <2>2. /\ VecMap_get_set_or_empty(m, a) = << >> /\ VecMap_get_set_or_empty(w, a) = << >>
          /\ VecMap_get_set_or_empty(u, a) = << >>
      BY <1>1, <1>2, <1>5, <2>1
    <2>3. QED
      BY <1>5, <2>2 DEF w, u
  <1>6. QED
    BY <1>3, <1>4, <1>5

(* The set read at any key is a set.                                       *)
LEMMA ReadSet ==
    ASSUME NEW D, NEW L, NEW m \in VMap(D, USeq(L)), NEW a
    PROVE  VecMap_get_set_or_empty(m, a) \in USeq(L)
  <1>1. VecMap_contains_key(m, a) => a \in Keys(m)
    BY IndexOf
  <1>2. \A k \in Keys(m) : VecMap_get_cloned(m, k) \in USeq(L)
    BY GetCloned
  <1>3. << >> \in USeq(L)
    BY EmptySet
  <1>4. QED
    BY <1>1, <1>2, <1>3 DEF VecMap_get_set_or_empty, VecSet_new

(* One more member at a key.                                               *)
LEMMA InsertInto ==
    ASSUME NEW D, NEW L, NEW m \in VMap(D, USeq(L)), NEW k \in D, NEW x \in L
    PROVE  /\ VecMap_insert_into(m, k, x) \in VMap(D, USeq(L))
           /\ \A a \in D : ToSet(VecMap_get_set_or_empty(VecMap_insert_into(m, k, x), a)) =
                 IF a = k THEN ToSet(VecMap_get_set_or_empty(m, k)) \cup {x}
                 ELSE ToSet(VecMap_get_set_or_empty(m, a))
  <1> DEFINE old == VecMap_get_set_or_empty(m, k)
             v == VecSet_insert(old, x)
  <1>1. old \in USeq(L)
    BY ReadSet
  <1> HIDE DEF old
  <1>2. v \in USeq(L) /\ ToSet(v) = ToSet(old) \cup {x}
    BY <1>1, InsertSet
  <1> HIDE DEF v
  <1>3. VecMap_insert_into(m, k, x) = VecMap_insert(m, k, v)
    BY DEF VecMap_insert_into, v, old
  <1>4. VecMap_insert(m, k, v) \in VMap(D, USeq(L))
    BY <1>2, InsertMap
  <1>5. \A a \in D : VecMap_get_set_or_empty(VecMap_insert(m, k, v), a) =
                        IF a = k THEN v ELSE VecMap_get_set_or_empty(m, a)
    BY <1>2, ReadAfter
  <1>6. QED
    BY <1>2, <1>3, <1>4, <1>5 DEF old

(* A list of members at a key, one by one; what every insertion keeps, the *)
(* whole loop keeps.                                                       *)
LEMMA Released ==
    ASSUME NEW D, NEW L, NEW m \in VMap(D, USeq(L)), NEW k \in D, NEW list \in Seq(L)
    PROVE  /\ release(m, k, list) \in VMap(D, USeq(L))
           /\ \A a \in D : ToSet(VecMap_get_set_or_empty(release(m, k, list), a)) =
                 IF a = k THEN ToSet(VecMap_get_set_or_empty(m, k)) \cup ToSet(list)
                 ELSE ToSet(VecMap_get_set_or_empty(m, a))
           /\ \A C : /\ m \in C
                     /\ \A w \in C \cap VMap(D, USeq(L)), x \in L : VecMap_insert_into(w, k, x) \in C
                     => release(m, k, list) \in C
  <1> DEFINE n == Len(list)
             S == VMap(D, USeq(L))
             f == [p \in S \X L |-> VecMap_insert_into(p[1], k, p[2])]
             loop(g) == [s \in SUBSET (1 .. n) |->
                           IF s = {} THEN m
                           ELSE VecMap_insert_into(g[s \ {Max(s)}], k, list[Max(s)])]
             g == CHOOSE h : h = loop(h)
             held(w, a) == ToSet(VecMap_get_set_or_empty(w, a))
  <1>1. /\ n \in Nat /\ list \in [1 .. n -> L] /\ DOMAIN list = 1 .. n /\ m \in S
        /\ \A i \in 1 .. n : list[i] \in L
    BY SeqParts
  <1>2. release(m, k, list) = g[1 .. n]
    BY <1>1, Zenon DEF release, FoldLeft, MapThenFoldSet
  <1> HIDE DEF n
  <1>3. /\ f \in [S \X L -> S]
        /\ \A w \in S, x \in L : f[<<w, x>>] = VecMap_insert_into(w, k, x)
    BY InsertInto
  <1> HIDE DEF f, S
  <1>4. PICK G \in [SUBSET (1 .. n) -> S] : IsLoop(f, m, list, n, G)
    BY <1>1, <1>3, LoopExists
  <1>5. g = loop(g)
    <2>1. G = loop(G)
      <3>1. ASSUME NEW s \in SUBSET (1 .. n), s # {}
            PROVE  f[<<G[s \ {Max(s)}], list[Max(s)]>>] =
                        VecMap_insert_into(G[s \ {Max(s)}], k, list[Max(s)])
        <4>1. Max(s) \in 1 .. n /\ s \ {Max(s)} \in SUBSET (1 .. n)
          BY <1>1, <3>1, Largest
        <4>2. QED
          BY <1>1, <1>3, <4>1
      <3>2. QED
        BY <1>4, <3>1 DEF IsLoop
    <2> HIDE DEF loop
    <2>2. QED
      BY <2>1
  <1>6. /\ g[{}] = m
        /\ \A s \in SUBSET (1 .. n) : s # {} /\ g[s \ {Max(s)}] \in S
             => g[s] = f[<<g[s \ {Max(s)}], list[Max(s)]>>]
    <2> HIDE DEF g
    <2>1. g[{}] = m
      BY <1>5
    <2>2. ASSUME NEW s \in SUBSET (1 .. n), s # {}, g[s \ {Max(s)}] \in S
          PROVE  g[s] = f[<<g[s \ {Max(s)}], list[Max(s)]>>]
      <3>1. Max(s) \in 1 .. n
        BY <1>1, <2>2, Largest
      <3>2. g[s] = VecMap_insert_into(g[s \ {Max(s)}], k, list[Max(s)])
        BY <1>5, <2>2
      <3>3. QED
        BY <1>1, <1>3, <2>2, <3>1, <3>2
    <2>3. QED
      BY <2>1, <2>2
  <1> HIDE DEF g
  <1>7. PICK h : Runs(S, f, m, list, n, h, g[1 .. n])
    BY <1>1, <1>3, <1>6, LoopRuns
  <1> DEFINE given(i, a) == IF a = k THEN {list[j] : j \in 1 .. i} ELSE {}
             B == {i \in 0 .. n : \A a \in D : held(h[i], a) = held(m, a) \cup given(i, a)}
  <1>8. 0 \in B
    <2>1. \A a \in D : given(0, a) = {}
      OBVIOUS
    <2>2. h[0] = m /\ 0 \in 0 .. n
      BY <1>1, <1>7 DEF Runs
    <2> HIDE DEF held, given
    <2>3. QED
      BY <2>1, <2>2
  <1>9. ASSUME NEW i \in 1 .. n, i - 1 \in B PROVE i \in B
    <2>1. i \in 0 .. n /\ i - 1 \in 0 .. n /\ 1 .. i = (1 .. (i - 1)) \cup {i}
      BY <1>1
    <2>2. h[i - 1] \in S /\ h[i] = VecMap_insert_into(h[i - 1], k, list[i])
      BY <1>1, <1>3, <1>7, <2>1 DEF Runs
    <2>3. \A a \in D : held(h[i], a) = IF a = k THEN held(h[i - 1], k) \cup {list[i]}
                                       ELSE held(h[i - 1], a)
      <3>1. \A w \in VMap(D, USeq(L)), x \in L, a \in D :
              held(VecMap_insert_into(w, k, x), a) =
                IF a = k THEN held(w, k) \cup {x} ELSE held(w, a)
        BY InsertInto
      <3>2. h[i - 1] \in VMap(D, USeq(L)) /\ list[i] \in L
        BY <1>1, <2>2 DEF S
      <3> DEFINE w == h[i - 1]
                 x == list[i]
      <3>3. w \in VMap(D, USeq(L)) /\ x \in L /\ h[i] = VecMap_insert_into(w, k, x)
        BY <2>2, <3>2
      <3> HIDE DEF held, w, x
      <3>4. \A a \in D : held(VecMap_insert_into(w, k, x), a) =
                           IF a = k THEN held(w, k) \cup {x} ELSE held(w, a)
        BY <3>1, <3>3
      <3>5. \A a \in D : held(h[i], a) = IF a = k THEN held(w, k) \cup {x} ELSE held(w, a)
        BY <3>3, <3>4
      <3>6. QED
        BY <3>5 DEF w, x
    <2>4. \A a \in D : given(i, a) = IF a = k THEN given(i - 1, a) \cup {list[i]} ELSE {}
      BY <2>1
    <2>5. \A a \in D : a # k => given(i - 1, a) = {}
      OBVIOUS
    <2>6. \A a \in D : held(h[i - 1], a) = held(m, a) \cup given(i - 1, a)
      BY <1>9
    <2> HIDE DEF held, given
    <2>7. \A a \in D : held(h[i], a) = held(m, a) \cup given(i, a)
      <3> TAKE a \in D
      <3>1. CASE a = k
        BY <2>3, <2>4, <2>6, <3>1
      <3>2. CASE a # k
        BY <2>3, <2>4, <2>5, <2>6, <3>2
      <3>3. QED
        BY <3>1, <3>2
    <2>8. QED
      BY <2>1, <2>7
  <1>10. \A i \in 0 .. n : i \in B
    <2> HIDE DEF B
    <2>1. QED
      BY <1>1, <1>8, <1>9, PrefixInduction
  <1>11. n \in B
    <2> HIDE DEF B
    <2>1. QED
      BY <1>1, <1>10
  <1>12. {list[j] : j \in 1 .. n} = ToSet(list)
    BY <1>1 DEF ToSet
  <1>13. release(m, k, list) = h[n] /\ h[n] \in S
    BY <1>1, <1>2, <1>7 DEF Runs
  <1>14. \A a \in D : held(h[n], a) = held(m, a) \cup given(n, a)
    BY <1>11
  <1> HIDE DEF held
  <1>15. \A a \in D : held(h[n], a) = IF a = k THEN held(m, k) \cup ToSet(list) ELSE held(m, a)
    BY <1>12, <1>14
  <1>16. ASSUME NEW C, m \in C, \A w \in C \cap S, x \in L : VecMap_insert_into(w, k, x) \in C
         PROVE  h[n] \in C
    <2> DEFINE I == {i \in 0 .. n : h[i] \in C}
    <2>1. 0 \in I
      BY <1>1, <1>7, <1>16 DEF Runs
    <2>2. ASSUME NEW i \in 1 .. n, i - 1 \in I PROVE i \in I
      <3>1. i \in 0 .. n /\ i - 1 \in 0 .. n
        BY <1>1
      <3>2. h[i - 1] \in S /\ h[i] = VecMap_insert_into(h[i - 1], k, list[i]) /\ list[i] \in L
        BY <1>1, <1>3, <1>7, <3>1 DEF Runs
      <3>3. QED
        BY <1>16, <2>2, <3>1, <3>2
    <2>3. \A i \in 0 .. n : i \in I
      <3> HIDE DEF I
      <3>1. QED
        BY <1>1, <2>1, <2>2, PrefixInduction
    <2>4. QED
      BY <1>1, <2>3
  <1>17. QED
    BY <1>13, <1>15, <1>16 DEF S, held

---------------------------------------------------------------------------
(* The vectors hold what their types allow, each key and member once.      *)

(* A retained policy, its two lists as vectors (ActionPolicy).             *)
PolicyV ==
    [tool            : ToolId,
     required_caps   : USeq(CapKind),
     conf_clearance  : ConfLevel,
     integ_floor     : IntegLevel,
     integ_inspect   : IntegLevel,
     output_conf     : ConfLevel,
     output_integ    : IntegLevel,
     declared_egress : USeq(EgressKind),
     policy_digest   : PolicyDigest]

(* A running invocation, with its egress as a vector (Pending).            *)
PendingV ==
    [agent       : AgentId,
     policy      : PolicyV,
     egress      : USeq(EgressKind),
     admission   : Admission,
     disposition : Disposition,
     authorized  : BOOLEAN,
     quarantined : BOOLEAN]

(* An open challenge, with its egress as a vector (Challenge).             *)
ChallengeV ==
    [challenge  : ChallengeId,
     agent      : AgentId,
     policy     : PolicyV,
     egress     : USeq(EgressKind),
     args_hash  : ContentHash,
     authorized : BOOLEAN]

(* A crossing grant: remaining may be any integer here; that it never goes *)
(* below zero is a theorem about Kernel.                                   *)
GrantV == [remaining : Int, provisioned : 0 .. MaxUses]

(* The inductive invariant: each field is a vector of its type with no key *)
(* and no member twice, inside the retained records too.                   *)
VecTypeOK ==
    /\ agent_active \in USeq(AgentId)
    /\ agent_parent \in VMap(AgentId, AgentId)
    /\ agent_cap \in VMap(AgentId, USeq(CapKind))
    /\ taint_levels \in VMap(AgentId, USeq(ConfLevel))
    /\ integ_levels \in VMap(AgentId, USeq(IntegLevel))
    /\ pending \in VMap(InvocationId, PendingV)
    /\ challenges \in VMap(InvocationId, ChallengeV)
    /\ consumed_ids \in USeq(InvocationId)
    /\ consumed_attestations \in USeq(AttestationId)
    /\ consumed_crossings \in USeq(CrossingId)
    /\ crossing_grants \in VMap(CrossingKey, GrantV)
    /\ tool_registered \in USeq(ToolId)

(* What is typed so is a set or a map.                                     *)
LEMMA TypedIsSets == VecTypeOK => VectorsAreSets
  <1> SUFFICES ASSUME VecTypeOK PROVE VectorsAreSets
    OBVIOUS
  <1>1. \A list \in {agent_active, consumed_ids, consumed_attestations,
                     consumed_crossings, tool_registered} : Unique(list)
    BY DEF VecTypeOK, USeq
  <1>2. UniqueKeys(agent_parent) /\ UniqueKeys(crossing_grants)
    BY DEF VecTypeOK, VMap
  <1>3. ASSUME NEW L, NEW m \in VMap(AgentId, USeq(L))
        PROVE  UniqueKeys(m) /\ \A i \in DOMAIN m : Unique(m[i][2])
    <2>1. \A i \in DOMAIN m : m[i] \in AgentId \X USeq(L)
      BY DEF VMap
    <2>2. QED
      BY <2>1 DEF VMap, USeq
  <1>4. ASSUME NEW m \in VMap(InvocationId, PendingV) \cup VMap(InvocationId, ChallengeV)
        PROVE  UniqueKeys(m) /\ \A i \in DOMAIN m :
                  /\ Unique(m[i][2].policy.required_caps)
                  /\ Unique(m[i][2].policy.declared_egress)
                  /\ Unique(m[i][2].egress)
    <2>1. /\ \/ \A i \in DOMAIN m : m[i] \in InvocationId \X PendingV
             \/ \A i \in DOMAIN m : m[i] \in InvocationId \X ChallengeV
          /\ UniqueKeys(m)
      BY DEF VMap
    <2>2. \A i \in DOMAIN m : m[i][2].policy \in PolicyV /\ m[i][2].egress \in USeq(EgressKind)
      BY <2>1 DEF PendingV, ChallengeV
    <2>3. \A p \in PolicyV : Unique(p.required_caps) /\ Unique(p.declared_egress)
      BY DEF PolicyV, USeq
    <2>4. \A e \in USeq(EgressKind) : Unique(e)
      BY DEF USeq
    <2>5. QED
      BY <2>1, <2>2, <2>3, <2>4
  <1>5. /\ agent_cap \in VMap(AgentId, USeq(CapKind))
        /\ taint_levels \in VMap(AgentId, USeq(ConfLevel))
        /\ integ_levels \in VMap(AgentId, USeq(IntegLevel))
        /\ pending \in VMap(InvocationId, PendingV)
        /\ challenges \in VMap(InvocationId, ChallengeV)
    BY DEF VecTypeOK
  <1>6. QED
    BY <1>1, <1>2, <1>3, <1>4, <1>5 DEF VectorsAreSets

(* A policy of a term becomes a policy of the kernel.                      *)
LEMMA PolicyTyped ==
    ASSUME NEW p \in PolicyN
    PROVE  /\ policy_into_kernel(p) \in PolicyV
           /\ PolicyOf(policy_into_kernel(p)) = PolicyOf(p)
           /\ PolicyOf(p) \in ActionPolicySnapshot
  <1>1. p \in ActionPolicySnapshotN
    BY VecInputsAssumption
  <1>2. p.required_caps \in Seq(CapKind) /\ p.declared_egress \in Seq(EgressKind)
    BY <1>1 DEF ActionPolicySnapshotN
  <1>3. /\ VecSet_from_iter(p.required_caps) \in USeq(CapKind)
        /\ VecSet_from_iter(p.declared_egress) \in USeq(EgressKind)
        /\ ToSet(VecSet_from_iter(p.required_caps)) = ToSet(p.required_caps)
        /\ ToSet(VecSet_from_iter(p.declared_egress)) = ToSet(p.declared_egress)
    BY <1>2, FromIterSet
  <1>4. policy_into_kernel(p) \in PolicyV
    BY <1>1, <1>3 DEF policy_into_kernel, ActionPolicySnapshotN, PolicyV
  <1>5. PolicyOf(policy_into_kernel(p)) = PolicyOf(p)
    BY <1>1, <1>3 DEF policy_into_kernel, ActionPolicySnapshotN, PolicyOf
  <1>6. ToSet(p.required_caps) \in SUBSET CapKind /\ ToSet(p.declared_egress) \in SUBSET EgressKind
    BY <1>2 DEF ToSet
  <1>7. PolicyOf(p) \in ActionPolicySnapshot
    BY <1>1, <1>6 DEF ActionPolicySnapshotN, PolicyOf, ActionPolicySnapshot
  <1>8. QED
    BY <1>4, <1>5, <1>7

(* The initial vectors.                                                    *)
LEMMA VecInit == Init => VecTypeOK
  <1> SUFFICES ASSUME Init PROVE VecTypeOK
    OBVIOUS
  <1>1. \A T : << >> \in USeq(T)
    BY EmptySet
  <1>2. \A D, V : << >> \in VMap(D, V)
    BY EmptyVMap
  <1>3. agent_active \in USeq(AgentId)
    BY <1>1, RootAssumption, InsertSet DEF Init, VecSet_new
  <1>4. agent_cap \in VMap(AgentId, USeq(CapKind))
    <2>1. VecSet_from_iter(CapOrder) \in USeq(CapKind)
      BY VecInputsAssumption, FromIterSet
    <2>2. QED
      BY <1>2, <2>1, RootAssumption, InsertMap DEF Init, VecMap_new
  <1>5. QED
    BY <1>1, <1>2, <1>3, <1>4 DEF Init, VecTypeOK, VecSet_new, VecMap_new

(* demote_all_of leaves records records.                                   *)
LEMMA DemotedTyped ==
    ASSUME NEW m \in VMap(InvocationId, PendingV), NEW agent
    PROVE  demote_all_of(m, agent) \in VMap(InvocationId, PendingV)
  <1>1. \A v \in PendingV : demoted(v, agent) \in PendingV
    BY DEF demoted, PendingV, Disposition
  <1>2. QED
    BY <1>1, DemoteAllOf

(* What delegate and clear_agent take keeps the types.                     *)
LEMMA DestroyTyped ==
    ASSUME VecTypeOK, NEW agent, destroy(agent),
           agent_active' \in USeq(AgentId), agent_parent' \in VMap(AgentId, AgentId)
    PROVE  VecTypeOK'
  <1>1. /\ VecMap_remove(agent_cap, agent) \in VMap(AgentId, USeq(CapKind))
        /\ VecMap_remove(taint_levels, agent) \in VMap(AgentId, USeq(ConfLevel))
        /\ VecMap_remove(integ_levels, agent) \in VMap(AgentId, USeq(IntegLevel))
    BY RemoveMap DEF VecTypeOK
  <1>2. /\ drop_of(pending, agent) \in VMap(InvocationId, PendingV)
        /\ drop_of(challenges, agent) \in VMap(InvocationId, ChallengeV)
    BY DropOf DEF VecTypeOK
  <1>3. drop_grants_of(agent) \in VMap(CrossingKey, GrantV)
    BY DropGrantsOf DEF VecTypeOK
  <1>4. QED
    BY <1>1, <1>2, <1>3 DEF VecTypeOK, destroy, consumedVars

(* Every step keeps the vectors sets and maps.                             *)
LEMMA VecNext == VecTypeOK /\ [Next]_vars => VecTypeOK'
  <1> SUFFICES ASSUME VecTypeOK, [Next]_vars PROVE VecTypeOK'
    OBVIOUS
  <1> USE DEF agentVars, labelVars, consumedVars
  <1>1. ASSUME NEW tool \in ToolId, register_tool(tool) \/ unregister_tool(tool)
        PROVE  VecTypeOK'
    <2>1. /\ VecSet_insert(tool_registered, tool) \in USeq(ToolId)
          /\ VecSet_remove(tool_registered, tool) \in USeq(ToolId)
      BY InsertSet, RemoveSet DEF VecTypeOK
    <2>2. QED
      BY <1>1, <2>1 DEF VecTypeOK, register_tool, unregister_tool
  <1>2. ASSUME NEW a \in AgentId, NEW b \in AgentId, delegate(a, b)
        PROVE  VecTypeOK'
    <2>1. VecSet_insert(agent_active, b) \in USeq(AgentId)
      BY InsertSet DEF VecTypeOK
    <2>2. drop_edges_of(b) \in VMap(AgentId, AgentId)
      BY DropEdgesOf DEF VecTypeOK
    <2>3. VecMap_insert(drop_edges_of(b), b, a) \in VMap(AgentId, AgentId)
      BY <2>2, InsertMap
    <2>4. QED
      BY <1>2, <2>1, <2>3, DestroyTyped DEF delegate
  <1>3. ASSUME NEW b \in AgentId, clear_agent(b)
        PROVE  VecTypeOK'
    <2>1. VecSet_remove(agent_active, b) \in USeq(AgentId)
      BY RemoveSet DEF VecTypeOK
    <2>2. VecMap_remove(agent_parent, b) \in VMap(AgentId, AgentId)
      BY RemoveMap DEF VecTypeOK
    <2>3. QED
      BY <1>3, <2>1, <2>2, DestroyTyped DEF clear_agent
  <1>4. ASSUME NEW a \in AgentId, NEW b \in AgentId, NEW cap \in CapKind,
               grant_capability(a, b, cap)
        PROVE  VecTypeOK'
    <2>1. VecMap_insert_into(agent_cap, b, cap) \in VMap(AgentId, USeq(CapKind))
      BY InsertInto DEF VecTypeOK
    <2>2. QED
      BY <1>4, <2>1 DEF VecTypeOK, grant_capability
  <1>5. ASSUME NEW a \in AgentId, NEW b \in AgentId, NEW d \in AssignmentDigest,
               NEW n \in GrantSizes, grant_crossing(a, b, d, n)
        PROVE  VecTypeOK'
    <2>1. [agent |-> b, assignment |-> d] \in CrossingKey
      BY DEF CrossingKey
    <2>2. [remaining |-> n, provisioned |-> n] \in GrantV
      BY VecInputsAssumption, MaxUsesAssumption DEF GrantV
    <2>3. VecMap_insert(crossing_grants, [agent |-> b, assignment |-> d],
                        [remaining |-> n, provisioned |-> n]) \in VMap(CrossingKey, GrantV)
      BY <2>1, <2>2, InsertMap DEF VecTypeOK
    <2>4. QED
      BY <1>5, <2>3 DEF VecTypeOK, grant_crossing
  <1>6. ASSUME NEW a \in AgentId, NEW src \in Maybe(AgentId), NEW p \in Provenances,
               ingest(a, src, p[1], p[2])
        PROVE  VecTypeOK'
    <2>1. p[1] \in ConfLevel /\ p[2] \in IntegLevel
      BY VecInputsAssumption
    <2>2. /\ VecMap_insert_into(taint_levels, a, p[1]) \in VMap(AgentId, USeq(ConfLevel))
          /\ VecMap_insert_into(integ_levels, a, p[2]) \in VMap(AgentId, USeq(IntegLevel))
      BY <2>1, InsertInto DEF VecTypeOK
    <2>3. demote_all_of(pending, a) \in VMap(InvocationId, PendingV)
      BY DemotedTyped DEF VecTypeOK
    <2>4. QED
      BY <1>6, <2>2, <2>3 DEF VecTypeOK, ingest
  <1>7. ASSUME NEW inv \in InvocationId, NEW outcome \in Outcome, NEW att \in Maybe(Resolutions),
               settle_invocation(inv, outcome, att)
        PROVE  VecTypeOK'
    <2> DEFINE j == VecMap_get_cloned(pending, inv)
    <2>1. inv \in Keys(pending)
      BY <1>7 DEF settle_invocation, K!settleable, RecordsOf
    <2>2. j \in PendingV
      BY <2>1, GetCloned DEF VecTypeOK
    <2> DEFINE q == [j EXCEPT !.quarantined = TRUE]
               closed == IF outcome = "ambiguous" THEN VecMap_insert(pending, inv, q)
                         ELSE VecMap_remove(pending, inv)
    <2>3. q \in PendingV
      BY <2>2 DEF PendingV
    <2>4. closed \in VMap(InvocationId, PendingV)
      <3> HIDE DEF q
      <3>1. QED
        BY <2>3, InsertMap, RemoveMap DEF VecTypeOK
    <2>5. /\ pending' = IF contained(j) THEN closed ELSE demote_all_of(closed, j.agent)
          /\ IF K!absorbs(outcome)
             THEN /\ taint_levels' = VecMap_insert_into(taint_levels, j.agent, j.policy.output_conf)
                  /\ integ_levels' = VecMap_insert_into(integ_levels, j.agent, j.policy.output_integ)
             ELSE UNCHANGED labelVars
          /\ consumed_attestations' = IF att = None THEN consumed_attestations
                                      ELSE VecSet_insert(consumed_attestations, att.id)
          /\ UNCHANGED <<agentVars, challenges, consumed_ids, consumed_crossings,
                         crossing_grants, tool_registered>>
      BY <1>7 DEF settle_invocation
    <2> HIDE DEF closed
    <2>6. demote_all_of(closed, j.agent) \in VMap(InvocationId, PendingV)
      BY <2>4, DemotedTyped
    <2>7. j.agent \in AgentId /\ j.policy.output_conf \in ConfLevel /\ j.policy.output_integ \in IntegLevel
      BY <2>2 DEF PendingV, PolicyV
    <2> HIDE DEF j
    <2>8. /\ VecMap_insert_into(taint_levels, j.agent, j.policy.output_conf)
                \in VMap(AgentId, USeq(ConfLevel))
          /\ VecMap_insert_into(integ_levels, j.agent, j.policy.output_integ)
                \in VMap(AgentId, USeq(IntegLevel))
      BY <2>7, InsertInto DEF VecTypeOK
    <2>9. att # None => VecSet_insert(consumed_attestations, att.id) \in USeq(AttestationId)
      <3>1. att # None => att.id \in AttestationId
        BY VecInputsAssumption DEF Maybe, ResolutionAttestation
      <3>2. QED
        BY <3>1, InsertSet DEF VecTypeOK
    <2>10. QED
      BY <2>4, <2>5, <2>6, <2>8, <2>9 DEF VecTypeOK
  <1>8. ASSUME NEW inv \in InvocationId, NEW att \in Inspections, authorize_inspected(inv, att)
        PROVE  VecTypeOK'
    <2> DEFINE sc == VecMap_get_cloned(challenges, inv)
               admission == [kind |-> "inspected", att |-> att.id]
               j == K!NewPending(sc.agent, sc.policy, sc.egress, admission, "permitted",
                                 sc.authorized)
    <2>1. inv \in Keys(challenges)
      BY <1>8 DEF authorize_inspected, VecMap_contains_key, Keys
    <2>2. sc \in ChallengeV
      BY <2>1, GetCloned DEF VecTypeOK
    <2>3. att.id \in AttestationId
      BY VecInputsAssumption DEF InspectionAttestation
    <2>4. admission \in Admission
      BY <2>3 DEF Admission
    <2>5. j \in PendingV
      <3> HIDE DEF sc, admission
      <3>1. QED
        BY <2>2, <2>4 DEF K!NewPending, PendingV, ChallengeV, Disposition
    <2>6. VecMap_insert(pending, inv, j) \in VMap(InvocationId, PendingV)
      <3> HIDE DEF j
      <3>1. QED
        BY <2>5, InsertMap DEF VecTypeOK
    <2>7. VecMap_remove(challenges, inv) \in VMap(InvocationId, ChallengeV)
      BY RemoveMap DEF VecTypeOK
    <2>8. VecSet_insert(consumed_attestations, att.id) \in USeq(AttestationId)
      BY <2>3, InsertSet DEF VecTypeOK
    <2>9. /\ pending' = VecMap_insert(pending, inv, j) \/ pending' = pending
          /\ challenges' = VecMap_remove(challenges, inv)
          /\ consumed_attestations' = VecSet_insert(consumed_attestations, att.id)
          /\ UNCHANGED <<agentVars, labelVars, consumed_ids, consumed_crossings,
                         crossing_grants, tool_registered>>
      BY <1>8 DEF authorize_inspected
    <2> HIDE DEF j
    <2>10. QED
      BY <2>6, <2>7, <2>8, <2>9 DEF VecTypeOK
  <1>9. ASSUME NEW inv \in InvocationId, NEW a \in AgentId, NEW chal \in ChallengeId,
               NEW policy \in PolicyN, NEW egress \in EgressLists, NEW ah \in ContentHash,
               NEW authorized \in BOOLEAN,
               begin_invocation(a, inv, chal, policy, egress, ah, authorized)
        PROVE  VecTypeOK'
    <2> DEFINE snap == policy_into_kernel(policy)
               egr == VecSet_from_iter(egress)
               record(admission, disposition) ==
                   K!NewPending(a, snap, egr, admission, disposition, authorized)
               scope == [challenge |-> chal, agent |-> a, policy |-> snap, egress |-> egr,
                         args_hash |-> ah, authorized |-> authorized]
    <2>1. snap \in PolicyV /\ egr \in USeq(EgressKind)
      BY PolicyTyped, FromIterSet, VecInputsAssumption
    <2>2. /\ \/ /\ \/ pending' = VecMap_insert(pending, inv, record([kind |-> "plain"], "permitted"))
                   \/ pending' = VecMap_insert(pending, inv,
                                    record([kind |-> "bypassed"], "monitor_bypassed"))
                /\ UNCHANGED challenges
             \/ /\ challenges' = VecMap_insert(challenges, inv, scope)
                /\ UNCHANGED pending
          /\ consumed_ids' = VecSet_insert(consumed_ids, inv)
          /\ UNCHANGED <<agentVars, labelVars, consumed_attestations, consumed_crossings,
                         crossing_grants, tool_registered>>
      BY <1>9, Zenon DEF begin_invocation
    <2> HIDE DEF snap, egr
    <2>3. /\ record([kind |-> "plain"], "permitted") \in PendingV
          /\ record([kind |-> "bypassed"], "monitor_bypassed") \in PendingV
      BY <2>1 DEF K!NewPending, PendingV, Admission, Disposition
    <2>4. scope \in ChallengeV
      BY <2>1 DEF ChallengeV
    <2> HIDE DEF scope, record
    <2>5. /\ VecMap_insert(pending, inv, record([kind |-> "plain"], "permitted"))
                \in VMap(InvocationId, PendingV)
          /\ VecMap_insert(pending, inv, record([kind |-> "bypassed"], "monitor_bypassed"))
                \in VMap(InvocationId, PendingV)
          /\ VecMap_insert(challenges, inv, scope) \in VMap(InvocationId, ChallengeV)
      BY <2>3, <2>4, InsertMap DEF VecTypeOK
    <2>6. VecSet_insert(consumed_ids, inv) \in USeq(InvocationId)
      BY InsertSet DEF VecTypeOK
    <2>7. QED
      BY <2>2, <2>5, <2>6 DEF VecTypeOK
  <1>10. ASSUME NEW q \in CrossInputs, cross_output(q)
        PROVE  VecTypeOK'
    <2> DEFINE endorsed == K!branch(q) = "endorsed"
               levels(given, entries) ==
                   CASE endorsed -> <<given>>
                     [] K!branch(q) = "unendorsed" -> VecMap_get_set_or_empty(entries, q.src)
                     [] OTHER -> << >>
               key == [agent |-> q.rcv, assignment |-> q.assignment]
    <2>1. q \in CrossInput
      BY VecInputsAssumption
    <2>2. /\ q.src \in AgentId /\ q.rcv \in AgentId /\ q.crossing \in CrossingId
          /\ q.assignment \in AssignmentDigest /\ q.released_conf \in ConfLevel
          /\ q.released_integ \in IntegLevel /\ q.evidence \in Maybe(ConformanceAttestation)
      BY <2>1 DEF CrossInput
    <2>3. /\ levels(q.released_conf, taint_levels) \in Seq(ConfLevel)
          /\ levels(q.released_integ, integ_levels) \in Seq(IntegLevel)
      <3>1. /\ VecMap_get_set_or_empty(taint_levels, q.src) \in Seq(ConfLevel)
            /\ VecMap_get_set_or_empty(integ_levels, q.src) \in Seq(IntegLevel)
        BY ReadSet DEF VecTypeOK, USeq
      <3>2. QED
        BY <2>2, <3>1
    <2>4. /\ taint_levels' = release(taint_levels, q.rcv, levels(q.released_conf, taint_levels))
          /\ integ_levels' = release(integ_levels, q.rcv, levels(q.released_integ, integ_levels))
          /\ consumed_crossings' = VecSet_insert(consumed_crossings, q.crossing)
          /\ IF endorsed
             THEN /\ consumed_attestations' = VecSet_insert(consumed_attestations, q.evidence.id)
                  /\ crossing_grants' = decrement_grant_at(key)
             ELSE UNCHANGED <<consumed_attestations, crossing_grants>>
          /\ pending' = pending \/ pending' = demote_all_of(pending, q.rcv)
          /\ UNCHANGED <<agentVars, challenges, consumed_ids, tool_registered>>
      BY <1>10, Zenon DEF cross_output
    <2> HIDE DEF levels
    <2>5. /\ taint_levels' \in VMap(AgentId, USeq(ConfLevel))
          /\ integ_levels' \in VMap(AgentId, USeq(IntegLevel))
      BY <2>2, <2>3, <2>4, Released DEF VecTypeOK
    <2>6. consumed_crossings' \in USeq(CrossingId)
      BY <2>2, <2>4, InsertSet DEF VecTypeOK
    <2>7. pending' \in VMap(InvocationId, PendingV)
      BY <2>4, DemotedTyped DEF VecTypeOK
    <2>8. consumed_attestations' \in USeq(AttestationId)
      <3>1. endorsed => q.evidence # None
        BY DEF K!branch, K!endorsed_ok
      <3>2. endorsed => q.evidence.id \in AttestationId
        BY <2>2, <3>1 DEF Maybe, ConformanceAttestation
      <3>3. endorsed => VecSet_insert(consumed_attestations, q.evidence.id) \in USeq(AttestationId)
        BY <3>2, InsertSet DEF VecTypeOK
      <3> HIDE DEF endorsed
      <3>4. QED
        BY <2>4, <3>3 DEF VecTypeOK
    <2>9. crossing_grants' \in VMap(CrossingKey, GrantV)
      <3>1. key \in CrossingKey
        BY <2>2 DEF CrossingKey
      <3> DEFINE v == VecMap_get_cloned(crossing_grants, key)
                 w == [v EXCEPT !.remaining = @ - 1]
      <3>2. VecMap_contains_key(crossing_grants, key) => w \in GrantV
        <4>1. VecMap_contains_key(crossing_grants, key) => v \in GrantV
          <5> HIDE DEF key
          <5>1. QED
            BY IndexOf, GetCloned DEF VecTypeOK
        <4> HIDE DEF v
        <4>2. QED
          BY <4>1 DEF GrantV
      <3>3. decrement_grant_at(key) = IF VecMap_contains_key(crossing_grants, key)
                                      THEN VecMap_insert(crossing_grants, key, w)
                                      ELSE crossing_grants
        BY DEF decrement_grant_at
      <3> HIDE DEF w, key, endorsed
      <3>4. decrement_grant_at(key) \in VMap(CrossingKey, GrantV)
        BY <3>1, <3>2, <3>3, InsertMap DEF VecTypeOK
      <3>5. QED
        BY <2>4, <3>4 DEF VecTypeOK
    <2>10. QED
      BY <2>4, <2>5, <2>6, <2>7, <2>8, <2>9 DEF VecTypeOK
  <1>11. CASE UNCHANGED vars
    BY <1>11 DEF vars, VecTypeOK
  <1>12. QED
    BY <1>1, <1>2, <1>3, <1>4, <1>5, <1>6, <1>7, <1>8, <1>9, <1>10, <1>11
       DEF Next, revoke, cascade_revoke

(* VectorsAreSets holds for every background, all agents, tools and ids,   *)
(* and whatever lists the commands carry: no sequence of transitions puts  *)
(* a member twice into a set or a key twice into a map.                    *)
THEOREM VectorsAreSetsHolds == Spec => []VectorsAreSets
  <1>1. Init => VecTypeOK
    BY VecInit
  <1>2. VecTypeOK /\ [Next]_vars => VecTypeOK'
    BY VecNext
  <1>3. VecTypeOK => VectorsAreSets
    BY TypedIsSets
  <1>4. QED
    BY <1>1, <1>2, <1>3, PTL DEF Spec

---------------------------------------------------------------------------
(* The writes are those of Kernel.                                         *)

(* The keys of a map are the first parts of its entries.                   *)
LEMMA KeysAre ==
    ASSUME NEW D, NEW V, NEW m \in VMap(D, V)
    PROVE  Keys(m) = {e[1] : e \in ToSet(m)}
  <1>1. MapFacts(m, D, V)
    BY MapParts
  <1>2. QED
    BY <1>1, Zenon DEF MapFacts

(* An entry is its key and what is read there.                             *)
LEMMA EntryIs ==
    ASSUME NEW D, NEW V, NEW m \in VMap(D, V), NEW e \in ToSet(m)
    PROVE  e[1] \in Keys(m) /\ e = <<e[1], VecMap_get_cloned(m, e[1])>>
  <1>1. MapFacts(m, D, V)
    BY MapParts
  <1>2. e = <<e[1], e[2]>>
    BY <1>1, Zenon DEF MapFacts
  <1>3. VecMap_get_cloned(m, e[1]) = e[2] /\ e[1] \in Keys(m)
    BY GetCloned
  <1>4. QED
    BY <1>2, <1>3

(* What VecMap::get reads after VecMap::insert, under the key and under    *)
(* every other.                                                            *)
LEMMA GetAfterInsert ==
    ASSUME NEW D, NEW V, NEW m \in VMap(D, V), NEW k \in D, NEW v \in V
    PROVE  /\ Keys(VecMap_insert(m, k, v)) = Keys(m) \cup {k}
           /\ VecMap_get_cloned(VecMap_insert(m, k, v), k) = v
           /\ \A x \in Keys(m) : x # k => VecMap_get_cloned(VecMap_insert(m, k, v), x) =
                                            VecMap_get_cloned(m, x)
  <1> DEFINE w == VecMap_insert(m, k, v)
  <1>1. w \in VMap(D, V) /\ ToSet(w) = {e \in ToSet(m) : e[1] # k} \cup {<<k, v>>}
    BY InsertMap
  <1> HIDE DEF w
  <1>2. Keys(w) = {e[1] : e \in ToSet(w)} /\ Keys(m) = {e[1] : e \in ToSet(m)}
    BY <1>1, KeysAre
  <1>3. <<k, v>> \in ToSet(w) /\ <<k, v>>[1] = k /\ <<k, v>>[2] = v
    BY <1>1
  <1>4. Keys(w) = Keys(m) \cup {k}
    BY <1>1, <1>2, <1>3
  <1>5. VecMap_get_cloned(w, k) = v
    <2>1. \A e \in ToSet(w) : VecMap_get_cloned(w, e[1]) = e[2]
      BY <1>1, GetCloned
    <2>2. QED
      BY <1>3, <2>1
  <1>6. ASSUME NEW x \in Keys(m), x # k
        PROVE  VecMap_get_cloned(w, x) = VecMap_get_cloned(m, x)
    <2>1. PICK e \in ToSet(m) : e[1] = x
      BY <1>2
    <2>2. e \in ToSet(w)
      BY <1>1, <1>6, <2>1
    <2>3. VecMap_get_cloned(w, e[1]) = e[2] /\ VecMap_get_cloned(m, e[1]) = e[2]
      BY <1>1, <2>2, GetCloned
    <2>4. QED
      BY <2>1, <2>3
  <1>7. QED
    BY <1>4, <1>5, <1>6 DEF w

(* What is read from a part of a map.                                      *)
LEMMA GetFromPart ==
    ASSUME NEW D, NEW V, NEW m \in VMap(D, V), NEW r \in VMap(D, V), ToSet(r) \subseteq ToSet(m)
    PROVE  /\ Keys(r) \subseteq Keys(m)
           /\ \A x \in Keys(r) : VecMap_get_cloned(r, x) = VecMap_get_cloned(m, x)
           /\ \A x \in Keys(m) : x \in Keys(r) <=> <<x, VecMap_get_cloned(m, x)>> \in ToSet(r)
  <1>1. Keys(r) = {e[1] : e \in ToSet(r)} /\ Keys(m) = {e[1] : e \in ToSet(m)}
    BY KeysAre
  <1>2. ASSUME NEW e \in ToSet(r)
        PROVE  /\ e[1] \in Keys(m) /\ e = <<e[1], VecMap_get_cloned(m, e[1])>>
               /\ VecMap_get_cloned(r, e[1]) = VecMap_get_cloned(m, e[1])
    <2>1. e[1] \in Keys(m) /\ e = <<e[1], VecMap_get_cloned(m, e[1])>>
      BY EntryIs
    <2>2. VecMap_get_cloned(r, e[1]) = e[2] /\ VecMap_get_cloned(m, e[1]) = e[2]
      BY GetCloned
    <2>3. QED
      BY <2>1, <2>2
  <1>3. ASSUME NEW x \in Keys(m), <<x, VecMap_get_cloned(m, x)>> \in ToSet(r)
        PROVE  x \in Keys(r)
    <2>1. <<x, VecMap_get_cloned(m, x)>>[1] = x
      OBVIOUS
    <2>2. QED
      BY <1>1, <1>3, <2>1
  <1>4. ASSUME NEW x \in Keys(r)
        PROVE  /\ x \in Keys(m) /\ VecMap_get_cloned(r, x) = VecMap_get_cloned(m, x)
               /\ <<x, VecMap_get_cloned(m, x)>> \in ToSet(r)
    <2>1. PICK e \in ToSet(r) : x = e[1]
      BY <1>1
    <2>2. QED
      BY <1>2, <2>1
  <1>5. QED
    BY <1>3, <1>4

(* VecMap::insert is the kernel's insert on the map the vector stands for. *)
LEMMA MapInsert ==
    ASSUME NEW D, NEW V, NEW m \in VMap(D, V), NEW k \in D, NEW v \in V
    PROVE  /\ MapOf(VecMap_insert(m, k, v)) = K!insert(MapOf(m), k, v)
           /\ RecordsOf(VecMap_insert(m, k, v)) = K!insert(RecordsOf(m), k, RecordOf(v))
  <1> DEFINE w == VecMap_insert(m, k, v)
  <1>1. /\ Keys(w) = Keys(m) \cup {k} /\ VecMap_get_cloned(w, k) = v
        /\ \A x \in Keys(m) : x # k => VecMap_get_cloned(w, x) = VecMap_get_cloned(m, x)
    BY GetAfterInsert
  <1> HIDE DEF w
  <1>2. /\ MapOf(w) = K!insert(MapOf(m), k, v)
        /\ RecordsOf(w) = K!insert(RecordsOf(m), k, RecordOf(v))
    BY <1>1 DEF MapOf, RecordsOf, K!insert
  <1>3. QED
    BY <1>2 DEF w

(* VecMap::remove is the kernel's remove on the map the vector stands for. *)
LEMMA MapRemove ==
    ASSUME NEW D, NEW V, NEW m \in VMap(D, V), NEW k
    PROVE  /\ MapOf(VecMap_remove(m, k)) = K!remove(MapOf(m), k)
           /\ RecordsOf(VecMap_remove(m, k)) = K!remove(RecordsOf(m), k)
  <1> DEFINE w == VecMap_remove(m, k)
  <1>1. w \in VMap(D, V) /\ ToSet(w) = {e \in ToSet(m) : e[1] # k}
    BY RemoveMap
  <1> HIDE DEF w
  <1>2. /\ Keys(w) \subseteq Keys(m)
        /\ \A x \in Keys(w) : VecMap_get_cloned(w, x) = VecMap_get_cloned(m, x)
        /\ \A x \in Keys(m) : x \in Keys(w) <=> <<x, VecMap_get_cloned(m, x)>> \in ToSet(w)
    BY <1>1, GetFromPart
  <1>3. Keys(w) = Keys(m) \ {k}
    <2>1. ASSUME NEW x \in Keys(m)
          PROVE  <<x, VecMap_get_cloned(m, x)>> \in ToSet(w) <=> x # k
      BY <1>1, GetCloned
    <2>2. QED
      BY <1>2, <2>1
  <1>4. /\ MapOf(w) = K!remove(MapOf(m), k)
        /\ RecordsOf(w) = K!remove(RecordsOf(m), k)
    BY <1>2, <1>3 DEF MapOf, RecordsOf, K!remove, K!Restrict
  <1>5. QED
    BY <1>4 DEF w

(* The fields of a record that are no vectors stand for themselves.        *)
LEMMA RecordFields ==
    ASSUME NEW j \in PendingV \cup ChallengeV
    PROVE  /\ RecordOf(j).agent = j.agent /\ RecordOf(j).policy = PolicyOf(j.policy)
           /\ RecordOf(j).egress = ToSet(j.egress) /\ RecordOf(j).authorized = j.authorized
           /\ RecordOf(j).policy.output_conf = j.policy.output_conf
           /\ RecordOf(j).policy.output_integ = j.policy.output_integ
           /\ j \in PendingV => RecordOf(j).disposition = j.disposition
  <1>1. j.policy \in PolicyV
    BY DEF PendingV, ChallengeV
  <1>2. /\ PolicyOf(j.policy).output_conf = j.policy.output_conf
        /\ PolicyOf(j.policy).output_integ = j.policy.output_integ
    BY <1>1 DEF PolicyOf, PolicyV
  <1>3. /\ RecordOf(j).agent = j.agent /\ RecordOf(j).policy = PolicyOf(j.policy)
        /\ RecordOf(j).egress = ToSet(j.egress) /\ RecordOf(j).authorized = j.authorized
    <2>1. CASE j \in PendingV
      BY <2>1 DEF RecordOf, PendingV
    <2>2. CASE j \in ChallengeV
      BY <2>2 DEF RecordOf, ChallengeV
    <2>3. QED
      BY <2>1, <2>2
  <1>4. j \in PendingV => RecordOf(j).disposition = j.disposition
    BY DEF RecordOf, PendingV
  <1>5. QED
    BY <1>2, <1>3, <1>4

(* What settlement and demotion change in a record they change in what it  *)
(* stands for.                                                             *)
LEMMA RecordChanges ==
    ASSUME NEW j \in PendingV, NEW agent
    PROVE  /\ RecordOf([j EXCEPT !.quarantined = TRUE]) =
                [RecordOf(j) EXCEPT !.quarantined = TRUE]
           /\ RecordOf([j EXCEPT !.disposition = "monitor_bypassed"]) =
                [RecordOf(j) EXCEPT !.disposition = "monitor_bypassed"]
           /\ RecordOf(demoted(j, agent)) =
                IF RecordOf(j).agent = agent
                THEN [RecordOf(j) EXCEPT !.disposition = "monitor_bypassed"] ELSE RecordOf(j)
  <1>1. RecordOf([j EXCEPT !.quarantined = TRUE]) = [RecordOf(j) EXCEPT !.quarantined = TRUE]
    BY DEF RecordOf, PendingV
  <1>2. RecordOf([j EXCEPT !.disposition = "monitor_bypassed"]) =
                [RecordOf(j) EXCEPT !.disposition = "monitor_bypassed"]
    BY DEF RecordOf, PendingV
  <1>3. RecordOf(j).agent = j.agent
    BY RecordFields
  <1>4. QED
    BY <1>1, <1>2, <1>3 DEF demoted

(* Records are dropped as in Kernel.                                       *)
LEMMA RecordsDropped ==
    ASSUME NEW V \in {PendingV, ChallengeV}, NEW m \in VMap(InvocationId, V), NEW agent
    PROVE  RecordsOf(drop_of(m, agent)) =
              [i \in {x \in Keys(m) : RecordsOf(m)[x].agent # agent} |-> RecordsOf(m)[i]]
  <1> DEFINE w == drop_of(m, agent)
  <1>1. w \in VMap(InvocationId, V) /\ ToSet(w) = {e \in ToSet(m) : e[2].agent # agent}
    BY DropOf
  <1> HIDE DEF w
  <1>2. /\ Keys(w) \subseteq Keys(m)
        /\ \A x \in Keys(w) : VecMap_get_cloned(w, x) = VecMap_get_cloned(m, x)
        /\ \A x \in Keys(m) : x \in Keys(w) <=> <<x, VecMap_get_cloned(m, x)>> \in ToSet(w)
    BY <1>1, GetFromPart
  <1>3. ASSUME NEW x \in Keys(m)
        PROVE  x \in Keys(w) <=> RecordsOf(m)[x].agent # agent
    <2>1. VecMap_get_cloned(m, x) \in V /\ <<x, VecMap_get_cloned(m, x)>> \in ToSet(m)
      BY GetCloned
    <2>2. RecordsOf(m)[x].agent = VecMap_get_cloned(m, x).agent
      BY <2>1, RecordFields DEF RecordsOf
    <2>3. <<x, VecMap_get_cloned(m, x)>> \in ToSet(w) <=> VecMap_get_cloned(m, x).agent # agent
      BY <1>1, <2>1
    <2>4. QED
      BY <1>2, <2>2, <2>3
  <1>4. Keys(w) = {x \in Keys(m) : RecordsOf(m)[x].agent # agent}
    BY <1>2, <1>3
  <1>5. \A x \in Keys(w) : RecordOf(VecMap_get_cloned(w, x)) = RecordsOf(m)[x]
    BY <1>2 DEF RecordsOf
  <1>6. RecordsOf(w) = [i \in Keys(w) |-> RecordsOf(m)[i]]
    BY <1>5 DEF RecordsOf
  <1>7. QED
    BY <1>4, <1>6 DEF w

(* The loops that drop an agent's records and challenges drop those, and   *)
(* no others.                                                              *)
LEMMA PendingDropped ==
    ASSUME VecTypeOK, NEW agent
    PROVE  /\ RecordsOf(drop_of(pending, agent)) = K!drop_pending_of(agent)
           /\ RecordsOf(drop_of(challenges, agent)) = K!drop_challenges_of(agent)
  <1> DEFINE P == RecordsOf(pending)
             C == RecordsOf(challenges)
  <1>1. DOMAIN P = Keys(pending) /\ DOMAIN C = Keys(challenges)
    BY DEF RecordsOf
  <1>2. /\ RecordsOf(drop_of(pending, agent)) =
             [i \in {x \in Keys(pending) : P[x].agent # agent} |-> P[i]]
        /\ RecordsOf(drop_of(challenges, agent)) =
             [i \in {x \in Keys(challenges) : C[x].agent # agent} |-> C[i]]
    BY RecordsDropped DEF VecTypeOK
  <1> HIDE DEF P, C
  <1>3. /\ K!drop_pending_of(agent) =
             [i \in DOMAIN P \ {x \in DOMAIN P : P[x].agent = agent} |-> P[i]]
        /\ K!drop_challenges_of(agent) = [i \in {x \in DOMAIN C : C[x].agent # agent} |-> C[i]]
    BY DEF K!drop_pending_of, K!drop_challenges_of, K!PendingOf, K!Restrict, P, C
  <1>4. DOMAIN P \ {x \in DOMAIN P : P[x].agent = agent} = {x \in DOMAIN P : P[x].agent # agent}
    OBVIOUS
  <1>5. QED
    BY <1>1, <1>2, <1>3, <1>4

(* Records are demoted as in Kernel.                                       *)
LEMMA RecordsDemoted ==
    ASSUME NEW m \in VMap(InvocationId, PendingV), NEW agent
    PROVE  RecordsOf(demote_all_of(m, agent)) = K!demote_all_of(RecordsOf(m), agent)
  <1> DEFINE w == demote_all_of(m, agent)
             R == RecordsOf(m)
  <1>1. \A v \in PendingV : demoted(v, agent) \in PendingV
    BY DEF demoted, PendingV, Disposition
  <1>2. w \in VMap(InvocationId, PendingV)
        /\ ToSet(w) = {<<e[1], demoted(e[2], agent)>> : e \in ToSet(m)}
    BY <1>1, DemoteAllOf
  <1> HIDE DEF w
  <1>3. Keys(w) = {e[1] : e \in ToSet(w)} /\ Keys(m) = {e[1] : e \in ToSet(m)}
    BY <1>2, KeysAre
  <1>4. Keys(w) = Keys(m)
    <2>1. ASSUME NEW e \in ToSet(m) PROVE e[1] \in Keys(w)
      <3>1. <<e[1], demoted(e[2], agent)>> \in ToSet(w)
        BY <1>2
      <3>2. <<e[1], demoted(e[2], agent)>>[1] = e[1]
        OBVIOUS
      <3>3. QED
        BY <1>3, <3>1, <3>2
    <2>2. ASSUME NEW e \in ToSet(w) PROVE e[1] \in Keys(m)
      <3>1. PICK d \in ToSet(m) : e = <<d[1], demoted(d[2], agent)>>
        BY <1>2
      <3>2. QED
        BY <1>3, <3>1
    <2>3. QED
      BY <1>3, <2>1, <2>2
  <1>5. ASSUME NEW x \in Keys(m)
        PROVE  RecordOf(VecMap_get_cloned(w, x)) =
                 IF R[x].agent = agent THEN [R[x] EXCEPT !.disposition = "monitor_bypassed"]
                 ELSE R[x]
    <2> DEFINE v == VecMap_get_cloned(m, x)
    <2>1. v \in PendingV /\ <<x, v>> \in ToSet(m)
      BY GetCloned
    <2>2. R[x] = RecordOf(v)
      BY DEF RecordsOf
    <2> HIDE DEF v, R
    <2>3. <<x, demoted(v, agent)>> \in ToSet(w)
      BY <1>2, <2>1
    <2>4. VecMap_get_cloned(w, x) = demoted(v, agent)
      <3>1. \A e \in ToSet(w) : VecMap_get_cloned(w, e[1]) = e[2]
        BY <1>2, GetCloned
      <3>2. QED
        BY <2>3, <3>1
    <2>5. RecordOf(demoted(v, agent)) =
             IF RecordOf(v).agent = agent
             THEN [RecordOf(v) EXCEPT !.disposition = "monitor_bypassed"] ELSE RecordOf(v)
      BY <2>1, RecordChanges
    <2>6. QED
      BY <2>2, <2>4, <2>5
  <1>6. DOMAIN R = Keys(m)
    BY DEF RecordsOf
  <1> HIDE DEF R
  <1>7. RecordsOf(w) = K!demote_all_of(R, agent)
    BY <1>4, <1>5, <1>6 DEF RecordsOf, K!demote_all_of
  <1>8. QED
    BY <1>7 DEF w, R

(* Grants are dropped and used up as in Kernel.                            *)
LEMMA GrantsDropped ==
    ASSUME VecTypeOK, NEW agent
    PROVE  MapOf(drop_grants_of(agent)) = K!drop_grants_of(agent)
  <1> DEFINE m == crossing_grants
             w == drop_grants_of(agent)
  <1>0. m \in VMap(CrossingKey, GrantV)
    BY DEF VecTypeOK
  <1>1. w \in VMap(CrossingKey, GrantV) /\ ToSet(w) = {e \in ToSet(m) : e[1].agent # agent}
    BY <1>0, DropGrantsOf
  <1> HIDE DEF w
  <1>2. /\ Keys(w) \subseteq Keys(m)
        /\ \A x \in Keys(w) : VecMap_get_cloned(w, x) = VecMap_get_cloned(m, x)
        /\ \A x \in Keys(m) : x \in Keys(w) <=> <<x, VecMap_get_cloned(m, x)>> \in ToSet(w)
    BY <1>0, <1>1, GetFromPart
  <1>3. ASSUME NEW x \in Keys(m) PROVE x \in Keys(w) <=> x.agent # agent
    <2>1. <<x, VecMap_get_cloned(m, x)>> \in ToSet(m)
      BY <1>0, GetCloned
    <2>2. QED
      BY <1>1, <1>2, <2>1
  <1>4. Keys(w) = {x \in Keys(m) : x.agent # agent}
    BY <1>2, <1>3
  <1>5. MapOf(w) = [x \in Keys(w) |-> MapOf(m)[x]] /\ DOMAIN MapOf(m) = Keys(m)
    BY <1>2 DEF MapOf
  <1>6. MapOf(w) = K!drop_grants_of(agent)
    <2> HIDE DEF m
    <2>1. K!drop_grants_of(agent) = [x \in {x \in DOMAIN MapOf(m) : x.agent # agent} |-> MapOf(m)[x]]
      BY DEF K!drop_grants_of, K!Restrict, m
    <2>2. QED
      BY <1>4, <1>5, <2>1
  <1>7. QED
    BY <1>6 DEF w

(* Counting a grant down is what Kernel does to the map.                   *)
LEMMA GrantUsed ==
    ASSUME VecTypeOK, NEW rcv \in AgentId, NEW assignment \in AssignmentDigest
    PROVE  MapOf(decrement_grant_at([agent |-> rcv, assignment |-> assignment])) =
              K!decrement_grant_at(rcv, assignment)
  <1> DEFINE m == crossing_grants
             key == [agent |-> rcv, assignment |-> assignment]
             v == VecMap_get_cloned(m, key)
             u == [v EXCEPT !.remaining = @ - 1]
             G == MapOf(m)
  <1>1. m \in VMap(CrossingKey, GrantV) /\ key \in CrossingKey
    BY DEF VecTypeOK, CrossingKey
  <1>2. K!decrement_grant_at(rcv, assignment) =
          [g \in DOMAIN G |-> IF g = key THEN [G[g] EXCEPT !.remaining = @ - 1] ELSE G[g]]
    BY DEF K!decrement_grant_at
  <1>3. DOMAIN G = Keys(m) /\ \A g \in Keys(m) : G[g] = VecMap_get_cloned(m, g)
    BY DEF MapOf
  <1> HIDE DEF m, key
  <1>4. VecMap_contains_key(m, key) <=> key \in Keys(m)
    BY <1>1, IndexOf
  <1>5. CASE key \in Keys(m)
    <2>1. v \in GrantV
      BY <1>1, <1>5, GetCloned
    <2>2. u \in GrantV
      <3> HIDE DEF v
      <3>1. QED
        BY <2>1 DEF GrantV
    <2>3. G[key] = v
      BY <1>3, <1>5
    <2> DEFINE w == VecMap_insert(m, key, u)
    <2>4. decrement_grant_at(key) = w
      BY <1>4, <1>5 DEF decrement_grant_at, m
    <2>5. [G[key] EXCEPT !.remaining = @ - 1] = u
      BY <2>3
    <2> HIDE DEF u
    <2>6. /\ Keys(w) = Keys(m) \cup {key} /\ VecMap_get_cloned(w, key) = u
          /\ \A x \in Keys(m) : x # key => VecMap_get_cloned(w, x) = VecMap_get_cloned(m, x)
      BY <1>1, <2>2, GetAfterInsert
    <2> HIDE DEF w
    <2>7. Keys(w) = Keys(m)
      BY <1>5, <2>6
    <2> DEFINE D == [g \in Keys(m) |-> IF g = key THEN u ELSE G[g]]
    <2>8. MapOf(w) = D
      BY <1>3, <2>6, <2>7 DEF MapOf
    <2>9. K!decrement_grant_at(rcv, assignment) = D
      <3> HIDE DEF G
      <3>1. \A g \in Keys(m) : (IF g = key THEN [G[g] EXCEPT !.remaining = @ - 1] ELSE G[g]) =
                               (IF g = key THEN u ELSE G[g])
        BY <2>5
      <3>2. QED
        BY <1>2, <1>3, <3>1
    <2>10. QED
      BY <2>4, <2>8, <2>9 DEF key
  <1>6. CASE key \notin Keys(m)
    <2>1. decrement_grant_at(key) = m
      BY <1>4, <1>6 DEF decrement_grant_at, m
    <2>2. K!decrement_grant_at(rcv, assignment) = [g \in Keys(m) |-> G[g]]
      BY <1>2, <1>3, <1>6
    <2>3. G = [g \in Keys(m) |-> G[g]]
      BY DEF MapOf
    <2>4. QED
      BY <2>1, <2>2, <2>3 DEF key
  <1>7. QED
    BY <1>5, <1>6

(* The edges after a delegation.                                           *)
LEMMA EdgesDelegated ==
    ASSUME VecTypeOK, NEW a \in AgentId, NEW b \in AgentId
    PROVE  MapOf(VecMap_insert(drop_edges_of(b), b, a)) =
              K!insert(K!Restrict(MapOf(agent_parent),
                          {c \in DOMAIN MapOf(agent_parent) :
                                c # b /\ MapOf(agent_parent)[c] # b}), b, a)
  <1> DEFINE m == agent_parent
             w == drop_edges_of(b)
             M == MapOf(m)
  <1>0. m \in VMap(AgentId, AgentId)
    BY DEF VecTypeOK
  <1>1. w \in VMap(AgentId, AgentId) /\ ToSet(w) = {e \in ToSet(m) : e[1] # b /\ e[2] # b}
    BY <1>0, DropEdgesOf
  <1> HIDE DEF w
  <1>2. /\ Keys(w) \subseteq Keys(m)
        /\ \A x \in Keys(w) : VecMap_get_cloned(w, x) = VecMap_get_cloned(m, x)
        /\ \A x \in Keys(m) : x \in Keys(w) <=> <<x, VecMap_get_cloned(m, x)>> \in ToSet(w)
    BY <1>0, <1>1, GetFromPart
  <1>3. DOMAIN M = Keys(m) /\ \A x \in Keys(m) : M[x] = VecMap_get_cloned(m, x)
    BY DEF MapOf
  <1>4. ASSUME NEW x \in Keys(m) PROVE x \in Keys(w) <=> x # b /\ M[x] # b
    <2>1. <<x, VecMap_get_cloned(m, x)>> \in ToSet(m)
      BY <1>0, GetCloned
    <2>2. QED
      BY <1>1, <1>2, <1>3, <2>1
  <1>5. MapOf(w) = [x \in Keys(w) |-> M[x]]
    BY <1>2, <1>3 DEF MapOf
  <1> HIDE DEF M
  <1>6. Keys(w) = {c \in DOMAIN M : c # b /\ M[c] # b}
    BY <1>2, <1>3, <1>4
  <1>7. MapOf(w) = K!Restrict(M, {c \in DOMAIN M : c # b /\ M[c] # b})
    BY <1>5, <1>6 DEF K!Restrict
  <1>8. MapOf(VecMap_insert(w, b, a)) = K!insert(MapOf(w), b, a)
    BY <1>1, MapInsert
  <1>9. QED
    BY <1>7, <1>8 DEF w, M

(* Sets at keys change as in Kernel.                                       *)
LEMMA SetsChange ==
    ASSUME NEW L, NEW m \in VMap(AgentId, USeq(L)), NEW k \in AgentId
    PROVE  /\ \A x \in L : SetsOf(VecMap_insert_into(m, k, x)) = K!insert_into(SetsOf(m), k, x)
           /\ \A list \in Seq(L) : SetsOf(release(m, k, list)) = K!extend_into(SetsOf(m), k, ToSet(list))
           /\ SetsOf(VecMap_remove(m, k)) = K!remove_key(SetsOf(m), k)
  <1>1. ASSUME NEW x \in L
        PROVE  SetsOf(VecMap_insert_into(m, k, x)) = K!insert_into(SetsOf(m), k, x)
    <2>1. \A a \in AgentId : ToSet(VecMap_get_set_or_empty(VecMap_insert_into(m, k, x), a)) =
             IF a = k THEN ToSet(VecMap_get_set_or_empty(m, k)) \cup {x}
             ELSE ToSet(VecMap_get_set_or_empty(m, a))
      BY InsertInto
    <2>2. QED
      BY <2>1 DEF SetsOf, K!insert_into
  <1>2. ASSUME NEW list \in Seq(L)
        PROVE  SetsOf(release(m, k, list)) = K!extend_into(SetsOf(m), k, ToSet(list))
    <2>1. \A a \in AgentId : ToSet(VecMap_get_set_or_empty(release(m, k, list), a)) =
             IF a = k THEN ToSet(VecMap_get_set_or_empty(m, k)) \cup ToSet(list)
             ELSE ToSet(VecMap_get_set_or_empty(m, a))
      BY Released
    <2>2. QED
      BY <2>1 DEF SetsOf, K!extend_into
  <1>3. SetsOf(VecMap_remove(m, k)) = K!remove_key(SetsOf(m), k)
    <2>1. << >> \in USeq(L) /\ ToSet(<< >>) = {}
      BY EmptySet
    <2>2. \A a \in AgentId : VecMap_get_set_or_empty(VecMap_remove(m, k), a) =
             IF a = k THEN << >> ELSE VecMap_get_set_or_empty(m, a)
      BY <2>1, ReadAfter
    <2>3. \A a \in AgentId : ToSet(VecMap_get_set_or_empty(VecMap_remove(m, k), a)) =
             IF a = k THEN {} ELSE ToSet(VecMap_get_set_or_empty(m, a))
      BY <2>1, <2>2
    <2>4. QED
      BY <2>3 DEF SetsOf, K!remove_key
  <1>4. QED
    BY <1>1, <1>2, <1>3

---------------------------------------------------------------------------
(* Every transition on vectors is that transition of Kernel.               *)

(* VecSet::contains is membership.                                         *)
LEMMA ContainsMember ==
    ASSUME NEW s, NEW x
    PROVE  VecSet_contains(s, x) <=> x \in ToSet(s)
  BY DEF VecSet_contains, ToSet

(* Registering and unregistering a tool.                                   *)
LEMMA ToolsRefine ==
    ASSUME VecTypeOK, NEW tool \in ToolId
    PROVE  /\ register_tool(tool) => K!register_tool(tool)
           /\ unregister_tool(tool) => K!unregister_tool(tool)
  <1>1. /\ ToSet(VecSet_insert(tool_registered, tool)) = ToSet(tool_registered) \cup {tool}
        /\ ToSet(VecSet_remove(tool_registered, tool)) = ToSet(tool_registered) \ {tool}
    BY InsertSet, RemoveSet DEF VecTypeOK
  <1>2. register_tool(tool) => K!register_tool(tool)
    BY <1>1, ContainsMember DEF register_tool, K!register_tool, agentVars, labelVars, consumedVars,
       K!agentVars, K!labelVars, K!consumedVars
  <1>3. unregister_tool(tool) => K!unregister_tool(tool)
    BY <1>1, ContainsMember DEF unregister_tool, K!unregister_tool, agentVars, labelVars, consumedVars,
       K!agentVars, K!labelVars, K!consumedVars
  <1>4. QED
    BY <1>2, <1>3

(* What destroy writes.                                                    *)
LEMMA DestroyRefines ==
    ASSUME VecTypeOK, NEW agent \in AgentId, destroy(agent)
    PROVE  /\ SetsOf(agent_cap)' = K!remove_key(SetsOf(agent_cap), agent)
           /\ SetsOf(taint_levels)' = K!remove_key(SetsOf(taint_levels), agent)
           /\ SetsOf(integ_levels)' = K!remove_key(SetsOf(integ_levels), agent)
           /\ RecordsOf(pending)' = K!drop_pending_of(agent)
           /\ RecordsOf(challenges)' = K!drop_challenges_of(agent)
           /\ MapOf(crossing_grants)' = K!drop_grants_of(agent)
           /\ UNCHANGED <<K!consumedVars, ToSet(tool_registered)>>
  <1>1. /\ agent_cap' = VecMap_remove(agent_cap, agent)
        /\ taint_levels' = VecMap_remove(taint_levels, agent)
        /\ integ_levels' = VecMap_remove(integ_levels, agent)
        /\ pending' = drop_of(pending, agent)
        /\ challenges' = drop_of(challenges, agent)
        /\ crossing_grants' = drop_grants_of(agent)
        /\ UNCHANGED <<consumedVars, tool_registered>>
    BY DEF destroy
  <1>2. /\ SetsOf(VecMap_remove(agent_cap, agent)) = K!remove_key(SetsOf(agent_cap), agent)
        /\ SetsOf(VecMap_remove(taint_levels, agent)) = K!remove_key(SetsOf(taint_levels), agent)
        /\ SetsOf(VecMap_remove(integ_levels, agent)) = K!remove_key(SetsOf(integ_levels), agent)
    BY SetsChange DEF VecTypeOK
  <1>3. /\ RecordsOf(drop_of(pending, agent)) = K!drop_pending_of(agent)
        /\ RecordsOf(drop_of(challenges, agent)) = K!drop_challenges_of(agent)
        /\ MapOf(drop_grants_of(agent)) = K!drop_grants_of(agent)
    BY PendingDropped, GrantsDropped
  <1>4. UNCHANGED <<K!consumedVars, ToSet(tool_registered)>>
    BY <1>1 DEF consumedVars, K!consumedVars
  <1>5. QED
    BY <1>1, <1>2, <1>3, <1>4

(* Delegating, clearing and revoking an agent, with the loops over edges,  *)
(* records, challenges and grants.                                         *)
LEMMA TreeRefines ==
    ASSUME VecTypeOK, NEW a \in AgentId, NEW b \in AgentId
    PROVE  /\ delegate(a, b) => K!delegate(a, b)
           /\ clear_agent(b) => K!clear_agent(b)
           /\ revoke(a, b) => K!revoke(a, b)
           /\ clear_agent(a) => K!clear_agent(a)
           /\ cascade_revoke(a, b) => K!cascade_revoke(a, b)
  <1>1. ASSUME delegate(a, b) PROVE K!delegate(a, b)
    <2>1. /\ K!delegable(a, b)
          /\ agent_active' = VecSet_insert(agent_active, b)
          /\ agent_parent' = VecMap_insert(drop_edges_of(b), b, a)
          /\ destroy(b)
      BY <1>1 DEF delegate
    <2>2. ToSet(agent_active)' = ToSet(agent_active) \cup {b}
      BY <2>1, InsertSet DEF VecTypeOK
    <2>3. MapOf(agent_parent)' =
             K!insert(K!Restrict(MapOf(agent_parent),
                         {c \in DOMAIN MapOf(agent_parent) :
                               c # b /\ MapOf(agent_parent)[c] # b}), b, a)
      BY <2>1, EdgesDelegated
    <2>4. /\ SetsOf(agent_cap)' = K!remove_key(SetsOf(agent_cap), b)
          /\ SetsOf(taint_levels)' = K!remove_key(SetsOf(taint_levels), b)
          /\ SetsOf(integ_levels)' = K!remove_key(SetsOf(integ_levels), b)
          /\ RecordsOf(pending)' = K!drop_pending_of(b)
          /\ RecordsOf(challenges)' = K!drop_challenges_of(b)
          /\ MapOf(crossing_grants)' = K!drop_grants_of(b)
          /\ UNCHANGED <<K!consumedVars, ToSet(tool_registered)>>
      BY <2>1, DestroyRefines
    <2>5. QED
      BY <2>1, <2>2, <2>3, <2>4 DEF K!delegate
  <1>2. ASSUME NEW c \in AgentId, clear_agent(c) PROVE K!clear_agent(c)
    <2>1. /\ agent_active' = VecSet_remove(agent_active, c)
          /\ agent_parent' = VecMap_remove(agent_parent, c)
          /\ destroy(c)
      BY <1>2 DEF clear_agent
    <2>2. ToSet(agent_active)' = ToSet(agent_active) \ {c}
      BY <2>1, RemoveSet DEF VecTypeOK
    <2>3. MapOf(agent_parent)' = K!remove(MapOf(agent_parent), c)
      BY <2>1, MapRemove DEF VecTypeOK
    <2>4. /\ SetsOf(agent_cap)' = K!remove_key(SetsOf(agent_cap), c)
          /\ SetsOf(taint_levels)' = K!remove_key(SetsOf(taint_levels), c)
          /\ SetsOf(integ_levels)' = K!remove_key(SetsOf(integ_levels), c)
          /\ RecordsOf(pending)' = K!drop_pending_of(c)
          /\ RecordsOf(challenges)' = K!drop_challenges_of(c)
          /\ MapOf(crossing_grants)' = K!drop_grants_of(c)
          /\ UNCHANGED <<K!consumedVars, ToSet(tool_registered)>>
      BY <2>1, DestroyRefines
    <2>5. QED
      BY <2>2, <2>3, <2>4 DEF K!clear_agent
  <1>3. revoke(a, b) => K!revoke(a, b)
    BY <1>2, ContainsMember DEF revoke, K!revoke
  <1>4. cascade_revoke(a, b) => K!cascade_revoke(a, b)
    BY <1>2, ContainsMember DEF cascade_revoke, K!cascade_revoke
  <1>5. QED
    BY <1>1, <1>2, <1>3, <1>4

(* Granting a capability and provisioning a crossing grant.                *)
LEMMA GrantsRefine ==
    ASSUME VecTypeOK, NEW a \in AgentId, NEW b \in AgentId
    PROVE  /\ \A cap \in CapKind : grant_capability(a, b, cap) => K!grant_capability(a, b, cap)
           /\ \A d \in AssignmentDigest, n \in GrantSizes :
                 grant_crossing(a, b, d, n) => K!grant_crossing(a, b, d, n)
  <1> USE DEF agentVars, labelVars, consumedVars, K!agentVars, K!labelVars, K!consumedVars
  <1>1. ASSUME NEW cap \in CapKind, grant_capability(a, b, cap)
        PROVE  K!grant_capability(a, b, cap)
    <2>1. SetsOf(agent_cap)' = K!insert_into(SetsOf(agent_cap), b, cap)
      BY <1>1, SetsChange DEF grant_capability, VecTypeOK
    <2>2. QED
      BY <1>1, <2>1 DEF grant_capability, K!grant_capability
  <1>2. ASSUME NEW d \in AssignmentDigest, NEW n \in GrantSizes, grant_crossing(a, b, d, n)
        PROVE  K!grant_crossing(a, b, d, n)
    <2> DEFINE key == [agent |-> b, assignment |-> d]
               grant == [remaining |-> n, provisioned |-> n]
    <2>1. key \in CrossingKey /\ grant \in GrantV
      BY VecInputsAssumption, MaxUsesAssumption DEF GrantV, CrossingKey
    <2>2. crossing_grants' = VecMap_insert(crossing_grants, key, grant)
      BY <1>2 DEF grant_crossing
    <2> HIDE DEF key, grant
    <2>3. MapOf(crossing_grants)' = K!insert(MapOf(crossing_grants), key, grant)
      BY <2>1, <2>2, MapInsert DEF VecTypeOK
    <2>4. QED
      BY <1>2, <2>3, ContainsMember DEF grant_crossing, K!grant_crossing, key, grant
  <1>3. QED
    BY <1>1, <1>2

(* What a record and a challenge stand for, field by field.                *)
LEMMA RecordOfFields ==
    /\ \A j \in PendingV : RecordOf(j) =
          [agent |-> j.agent, policy |-> PolicyOf(j.policy), egress |-> ToSet(j.egress),
           admission |-> j.admission, disposition |-> j.disposition,
           authorized |-> j.authorized, quarantined |-> j.quarantined]
    /\ \A j \in ChallengeV : RecordOf(j) =
          [challenge |-> j.challenge, agent |-> j.agent, policy |-> PolicyOf(j.policy),
           egress |-> ToSet(j.egress), args_hash |-> j.args_hash, authorized |-> j.authorized]
  <1>1. ASSUME NEW j \in PendingV
        PROVE  RecordOf(j) =
                  [agent |-> j.agent, policy |-> PolicyOf(j.policy), egress |-> ToSet(j.egress),
                   admission |-> j.admission, disposition |-> j.disposition,
                   authorized |-> j.authorized, quarantined |-> j.quarantined]
    <2>1. RecordOf(j) \in
             [agent : {j.agent}, policy : {PolicyOf(j.policy)}, egress : {ToSet(j.egress)},
              admission : {j.admission}, disposition : {j.disposition},
              authorized : {j.authorized}, quarantined : {j.quarantined}]
      BY DEF RecordOf, PendingV
    <2>2. QED
      BY <2>1
  <1>2. ASSUME NEW j \in ChallengeV
        PROVE  RecordOf(j) =
                  [challenge |-> j.challenge, agent |-> j.agent, policy |-> PolicyOf(j.policy),
                   egress |-> ToSet(j.egress), args_hash |-> j.args_hash,
                   authorized |-> j.authorized]
    <2>1. RecordOf(j) \in
             [challenge : {j.challenge}, agent : {j.agent}, policy : {PolicyOf(j.policy)},
              egress : {ToSet(j.egress)}, args_hash : {j.args_hash}, authorized : {j.authorized}]
      BY DEF RecordOf, ChallengeV
    <2>2. QED
      BY <2>1
  <1>3. QED
    BY <1>1, <1>2

(* Ingesting a level, with the demotions it causes.                        *)
LEMMA IngestRefines ==
    ASSUME VecTypeOK, NEW a \in AgentId, NEW src, NEW c \in ConfLevel, NEW i \in IntegLevel,
           ingest(a, src, c, i)
    PROVE  K!ingest(a, src, c, i)
  <1> DEFINE holds == K!ingest_holds(a, c, i)
  <1>1. /\ a \in ToSet(agent_active)
        /\ src # None => K!dominates(c, i, src)
        /\ K!hold_disposition(holds) # "refused"
        /\ taint_levels' = VecMap_insert_into(taint_levels, a, c)
        /\ integ_levels' = VecMap_insert_into(integ_levels, a, i)
        /\ pending' = IF K!hold_disposition(holds) = "permitted" THEN pending
                      ELSE demote_all_of(pending, a)
        /\ UNCHANGED <<agentVars, challenges, consumedVars, crossing_grants, tool_registered>>
    BY ContainsMember DEF ingest
  <1>2. K!hold_disposition(holds) \in {"permitted", "monitor_bypassed", "refused"}
    <2> HIDE DEF holds
    <2>1. QED
      BY DEF K!hold_disposition
  <1> HIDE DEF holds
  <1>3. /\ SetsOf(taint_levels)' = K!insert_into(SetsOf(taint_levels), a, c)
        /\ SetsOf(integ_levels)' = K!insert_into(SetsOf(integ_levels), a, i)
    BY <1>1, SetsChange DEF VecTypeOK
  <1>4. RecordsOf(demote_all_of(pending, a)) = K!demote_all_of(RecordsOf(pending), a)
    BY RecordsDemoted DEF VecTypeOK
  <1>5. \/ K!hold_disposition(holds) = "permitted" /\ UNCHANGED RecordsOf(pending)
        \/ /\ K!hold_disposition(holds) = "monitor_bypassed"
           /\ RecordsOf(pending)' = K!demote_all_of(RecordsOf(pending), a)
    BY <1>1, <1>2, <1>4
  <1>6. UNCHANGED <<K!agentVars, RecordsOf(challenges), K!consumedVars, MapOf(crossing_grants),
                    ToSet(tool_registered)>>
    BY <1>1 DEF agentVars, consumedVars, K!agentVars, K!consumedVars
  <1>7. QED
    BY <1>1, <1>3, <1>5, <1>6 DEF K!ingest, holds

(* Inspecting and settling an invocation.                                  *)
LEMMA SettleRefines ==
    ASSUME VecTypeOK, NEW inv \in InvocationId, NEW outcome \in Outcome,
           NEW att \in Maybe(Resolutions), settle_invocation(inv, outcome, att)
    PROVE  K!settle_invocation(inv, outcome, att)
  <1> DEFINE v == VecMap_get_cloned(pending, inv)
             q == [v EXCEPT !.quarantined = TRUE]
             closed == IF outcome = "ambiguous" THEN VecMap_insert(pending, inv, q)
                       ELSE VecMap_remove(pending, inv)
             P == RecordsOf(pending)
  <1>1. /\ K!settleable(inv, outcome, att)
        /\ pending' = IF contained(v) THEN closed ELSE demote_all_of(closed, v.agent)
        /\ IF K!absorbs(outcome)
           THEN /\ taint_levels' = VecMap_insert_into(taint_levels, v.agent, v.policy.output_conf)
                /\ integ_levels' = VecMap_insert_into(integ_levels, v.agent, v.policy.output_integ)
           ELSE UNCHANGED labelVars
        /\ consumed_attestations' = IF att = None THEN consumed_attestations
                                    ELSE VecSet_insert(consumed_attestations, att.id)
        /\ UNCHANGED <<agentVars, challenges, consumed_ids, consumed_crossings,
                       crossing_grants, tool_registered>>
    BY DEF settle_invocation
  <1>2. inv \in Keys(pending)
    BY <1>1 DEF K!settleable, RecordsOf
  <1>3. v \in PendingV
    BY <1>2, GetCloned DEF VecTypeOK
  <1>4. P[inv] = RecordOf(v)
    BY <1>2 DEF RecordsOf
  <1>5. q \in PendingV /\ RecordOf(q) = [P[inv] EXCEPT !.quarantined = TRUE]
    <2> HIDE DEF v, P
    <2>1. q \in PendingV
      BY <1>3 DEF PendingV
    <2>2. RecordOf(q) = [RecordOf(v) EXCEPT !.quarantined = TRUE]
      BY <1>3, RecordChanges
    <2> HIDE DEF q
    <2>3. QED
      BY <1>4, <2>1, <2>2
  <1> HIDE DEF v, q
  <1>6. closed \in VMap(InvocationId, PendingV) /\ RecordsOf(closed) = K!settled(inv, outcome)
    <2>1. /\ VecMap_insert(pending, inv, q) \in VMap(InvocationId, PendingV)
          /\ VecMap_remove(pending, inv) \in VMap(InvocationId, PendingV)
      BY <1>5, InsertMap, RemoveMap DEF VecTypeOK
    <2>2. /\ RecordsOf(VecMap_insert(pending, inv, q)) = K!insert(P, inv, RecordOf(q))
          /\ RecordsOf(VecMap_remove(pending, inv)) = K!remove(P, inv)
      <3>0. q \in PendingV
        BY <1>5
      <3>1. RecordsOf(VecMap_insert(pending, inv, q)) = K!insert(P, inv, RecordOf(q))
        BY <3>0, MapInsert DEF VecTypeOK
      <3>2. RecordsOf(VecMap_remove(pending, inv)) = K!remove(P, inv)
        BY MapRemove DEF VecTypeOK
      <3>3. QED
        BY <3>1, <3>2
    <2>3. QED
      BY <1>5, <2>1, <2>2 DEF K!settled
  <1> HIDE DEF closed
  <1>7. /\ P[inv].agent = v.agent /\ P[inv].disposition = v.disposition
        /\ P[inv].policy.output_conf = v.policy.output_conf
        /\ P[inv].policy.output_integ = v.policy.output_integ
    BY <1>3, <1>4, RecordFields
  <1> HIDE DEF P
  <1>8. RecordsOf(pending)' = IF K!contained(P[inv]) THEN K!settled(inv, outcome)
                              ELSE K!demote_all_of(K!settled(inv, outcome), P[inv].agent)
    <2>1. RecordsOf(demote_all_of(closed, v.agent)) = K!demote_all_of(RecordsOf(closed), v.agent)
      BY <1>6, RecordsDemoted
    <2>2. K!contained(P[inv]) <=> contained(v)
      BY <1>7 DEF K!contained, contained
    <2>3. QED
      BY <1>1, <1>6, <1>7, <2>1, <2>2
  <1>9. v.agent \in AgentId /\ v.policy.output_conf \in ConfLevel /\ v.policy.output_integ \in IntegLevel
    BY <1>3 DEF PendingV, PolicyV
  <1>10. /\ SetsOf(VecMap_insert_into(taint_levels, v.agent, v.policy.output_conf)) =
                K!insert_into(SetsOf(taint_levels), v.agent, v.policy.output_conf)
         /\ SetsOf(VecMap_insert_into(integ_levels, v.agent, v.policy.output_integ)) =
                K!insert_into(SetsOf(integ_levels), v.agent, v.policy.output_integ)
    BY <1>9, SetsChange DEF VecTypeOK
  <1>11. IF K!absorbs(outcome)
         THEN /\ SetsOf(taint_levels)' =
                    K!insert_into(SetsOf(taint_levels), P[inv].agent, P[inv].policy.output_conf)
              /\ SetsOf(integ_levels)' =
                    K!insert_into(SetsOf(integ_levels), P[inv].agent, P[inv].policy.output_integ)
         ELSE UNCHANGED K!labelVars
    BY <1>1, <1>7, <1>10 DEF labelVars, K!labelVars
  <1>12. ToSet(consumed_attestations)' =
             ToSet(consumed_attestations) \cup (IF att = None THEN {} ELSE {att.id})
    <2>1. att # None => att.id \in AttestationId
      BY VecInputsAssumption DEF Maybe, ResolutionAttestation
    <2>2. att # None => ToSet(VecSet_insert(consumed_attestations, att.id)) =
                            ToSet(consumed_attestations) \cup {att.id}
      BY <2>1, InsertSet DEF VecTypeOK
    <2>3. CASE att = None
      BY <1>1, <2>3
    <2>4. CASE att # None
      BY <1>1, <2>2, <2>4
    <2>5. QED
      BY <2>3, <2>4
  <1>13. UNCHANGED <<K!agentVars, RecordsOf(challenges), ToSet(consumed_ids),
                     ToSet(consumed_crossings), MapOf(crossing_grants), ToSet(tool_registered)>>
    BY <1>1 DEF agentVars, K!agentVars
  <1>14. QED
    BY <1>1, <1>8, <1>11, <1>12, <1>13 DEF K!settle_invocation, P

(* Answering a challenge.                                                  *)
LEMMA AuthorizeRefines ==
    ASSUME VecTypeOK, NEW inv \in InvocationId, NEW att \in Inspections,
           authorize_inspected(inv, att)
    PROVE  K!authorize_inspected(inv, att)
  <1> DEFINE sc == VecMap_get_cloned(challenges, inv)
             adm == [kind |-> "inspected", att |-> att.id]
             j == K!NewPending(sc.agent, sc.policy, sc.egress, adm, "permitted", sc.authorized)
             C == RecordsOf(challenges)
             P == RecordsOf(pending)
  <1>1. inv \in Keys(challenges)
    BY DEF authorize_inspected, VecMap_contains_key, Keys
  <1>2. sc \in ChallengeV
    BY <1>1, GetCloned DEF VecTypeOK
  <1>3. C[inv] = RecordOf(sc) /\ inv \in DOMAIN C
    BY <1>1 DEF RecordsOf
  <1>4. att.id \in AttestationId
    BY VecInputsAssumption DEF InspectionAttestation
  <1>5. /\ K!in_scope(inv, att)
        /\ pending' = IF att.positive /\ K!authorize_admits(inv, RecordOf(sc))
                      THEN VecMap_insert(pending, inv, j) ELSE pending
        /\ challenges' = VecMap_remove(challenges, inv)
        /\ consumed_attestations' = VecSet_insert(consumed_attestations, att.id)
        /\ UNCHANGED <<agentVars, labelVars, consumed_ids, consumed_crossings,
                       crossing_grants, tool_registered>>
    BY DEF authorize_inspected
  <1> HIDE DEF sc
  <1>6. adm \in Admission
    BY <1>4 DEF Admission
  <1> HIDE DEF adm
  <1>7. /\ j \in PendingV
        /\ RecordOf(j) = K!NewPending(sc.agent, PolicyOf(sc.policy), ToSet(sc.egress), adm,
                                      "permitted", sc.authorized)
    <2>1. j \in PendingV
      BY <1>2, <1>6 DEF K!NewPending, PendingV, ChallengeV, Disposition
    <2>2. RecordOf(j) = [agent |-> j.agent, policy |-> PolicyOf(j.policy),
             egress |-> ToSet(j.egress), admission |-> j.admission,
             disposition |-> j.disposition, authorized |-> j.authorized,
             quarantined |-> j.quarantined]
      <3> HIDE DEF j
      <3>1. QED
        BY <2>1, RecordOfFields
    <2>3. QED
      BY <2>1, <2>2 DEF K!NewPending
  <1>8. /\ C[inv].agent = sc.agent /\ C[inv].policy = PolicyOf(sc.policy)
        /\ C[inv].egress = ToSet(sc.egress) /\ C[inv].authorized = sc.authorized
    BY <1>2, <1>3, RecordFields
  <1> HIDE DEF j
  <1>9. RecordsOf(VecMap_insert(pending, inv, j)) = K!insert(P, inv, RecordOf(j))
    BY <1>7, MapInsert DEF VecTypeOK
  <1>10. RecordsOf(challenges)' = K!remove(C, inv)
    BY <1>5, MapRemove DEF VecTypeOK
  <1>11. ToSet(consumed_attestations)' = ToSet(consumed_attestations) \cup {att.id}
    BY <1>4, <1>5, InsertSet DEF VecTypeOK
  <1> HIDE DEF C
  <1>12. IF att.positive /\ K!authorize_admits(inv, C[inv])
         THEN P' = K!insert(P, inv, K!NewPending(C[inv].agent, C[inv].policy, C[inv].egress, adm,
                                                 "permitted", C[inv].authorized))
         ELSE UNCHANGED P
    BY <1>3, <1>5, <1>7, <1>8, <1>9
  <1>13. UNCHANGED <<K!agentVars, K!labelVars, ToSet(consumed_ids), ToSet(consumed_crossings),
                     MapOf(crossing_grants), ToSet(tool_registered)>>
    BY <1>5 DEF agentVars, labelVars, K!agentVars, K!labelVars
  <1>14. QED
    BY <1>3, <1>5, <1>10, <1>11, <1>12, <1>13 DEF K!authorize_inspected, C, adm

(* Beginning an invocation under a policy that came in as lists.           *)
LEMMA BeginRefines ==
    ASSUME VecTypeOK, NEW a \in AgentId, NEW inv \in InvocationId, NEW chal \in ChallengeId,
           NEW policy \in PolicyN, NEW egress \in EgressLists, NEW ah \in ContentHash,
           NEW authorized \in BOOLEAN,
           begin_invocation(a, inv, chal, policy, egress, ah, authorized)
    PROVE  K!begin_invocation(a, inv, chal, PolicyOf(policy), ToSet(egress), ah, authorized)
  <1> DEFINE snap == policy_into_kernel(policy)
             egr == VecSet_from_iter(egress)
             p == PolicyOf(policy)
             e == ToSet(egress)
             v == K!verdict(a, p, e, authorized)
             plain == K!NewPending(a, snap, egr, [kind |-> "plain"], "permitted", authorized)
             bypassed == K!NewPending(a, snap, egr, [kind |-> "bypassed"], "monitor_bypassed",
                                      authorized)
             scope == [challenge |-> chal, agent |-> a, policy |-> snap, egress |-> egr,
                       args_hash |-> ah, authorized |-> authorized]
             P == RecordsOf(pending)
             C == RecordsOf(challenges)
  <1>1. /\ snap \in PolicyV /\ egr \in USeq(EgressKind) /\ PolicyOf(snap) = p /\ ToSet(egr) = e
    BY PolicyTyped, FromIterSet, VecInputsAssumption
  <1>2. /\ K!begin_structural(a, inv, PolicyOf(snap), ToSet(egr))
        /\ \/ /\ K!verdict(a, PolicyOf(snap), ToSet(egr), authorized) = "allow"
              /\ pending' = VecMap_insert(pending, inv, plain)
              /\ UNCHANGED challenges
           \/ /\ K!verdict(a, PolicyOf(snap), ToSet(egr), authorized) = "inspection_required"
              /\ Mode = "enforce"
              /\ challenges' = VecMap_insert(challenges, inv, scope)
              /\ UNCHANGED pending
           \/ /\ K!verdict(a, PolicyOf(snap), ToSet(egr), authorized) # "allow"
              /\ Mode = "monitor"
              /\ pending' = VecMap_insert(pending, inv, bypassed)
              /\ UNCHANGED challenges
        /\ consumed_ids' = VecSet_insert(consumed_ids, inv)
        /\ UNCHANGED <<agentVars, labelVars, consumed_attestations, consumed_crossings,
                       crossing_grants, tool_registered>>
    BY DEF begin_invocation
  <1> HIDE DEF snap, egr, p, e
  <1>3. plain \in PendingV /\ bypassed \in PendingV /\ scope \in ChallengeV
    BY <1>1 DEF K!NewPending, PendingV, ChallengeV, Admission, Disposition
  <1> DEFINE plainK == K!NewPending(a, p, e, [kind |-> "plain"], "permitted", authorized)
             bypassedK == K!NewPending(a, p, e, [kind |-> "bypassed"], "monitor_bypassed", authorized)
             scopeK == [challenge |-> chal, agent |-> a, policy |-> p, egress |-> e,
                        args_hash |-> ah, authorized |-> authorized]
  <1>4. RecordOf(plain) = plainK
    <2>1. RecordOf(plain) =
             [agent |-> plain.agent, policy |-> PolicyOf(plain.policy),
              egress |-> ToSet(plain.egress), admission |-> plain.admission,
              disposition |-> plain.disposition, authorized |-> plain.authorized,
              quarantined |-> plain.quarantined]
      <3> HIDE DEF plain
      <3>1. QED
        BY <1>3, RecordOfFields
    <2>2. QED
      BY <1>1, <2>1 DEF K!NewPending
  <1>5. RecordOf(bypassed) = bypassedK
    <2>1. RecordOf(bypassed) =
             [agent |-> bypassed.agent, policy |-> PolicyOf(bypassed.policy),
              egress |-> ToSet(bypassed.egress), admission |-> bypassed.admission,
              disposition |-> bypassed.disposition, authorized |-> bypassed.authorized,
              quarantined |-> bypassed.quarantined]
      <3> HIDE DEF bypassed
      <3>1. QED
        BY <1>3, RecordOfFields
    <2>2. QED
      BY <1>1, <2>1 DEF K!NewPending
  <1>6. RecordOf(scope) = scopeK
    <2>1. RecordOf(scope) =
             [challenge |-> scope.challenge, agent |-> scope.agent,
              policy |-> PolicyOf(scope.policy), egress |-> ToSet(scope.egress),
              args_hash |-> scope.args_hash, authorized |-> scope.authorized]
      <3> HIDE DEF scope
      <3>1. QED
        BY <1>3, RecordOfFields
    <2>2. QED
      BY <1>1, <2>1
  <1> HIDE DEF plain, bypassed, scope, plainK, bypassedK, scopeK
  <1>7. /\ RecordsOf(VecMap_insert(pending, inv, plain)) = K!insert(P, inv, RecordOf(plain))
        /\ RecordsOf(VecMap_insert(pending, inv, bypassed)) = K!insert(P, inv, RecordOf(bypassed))
        /\ RecordsOf(VecMap_insert(challenges, inv, scope)) = K!insert(C, inv, RecordOf(scope))
    BY <1>3, MapInsert DEF VecTypeOK
  <1> HIDE DEF v
  <1>8. K!begin_structural(a, inv, p, e) /\ v = K!verdict(a, PolicyOf(snap), ToSet(egr), authorized)
    BY <1>1, <1>2 DEF v
  <1>9. \/ v = "allow" /\ P' = K!insert(P, inv, plainK) /\ UNCHANGED C
        \/ /\ v = "inspection_required" /\ Mode = "enforce"
           /\ C' = K!insert(C, inv, scopeK) /\ UNCHANGED P
        \/ /\ v # "allow" /\ Mode = "monitor"
           /\ P' = K!insert(P, inv, bypassedK) /\ UNCHANGED C
    BY <1>2, <1>4, <1>5, <1>6, <1>7, <1>8
  <1>10. ToSet(consumed_ids)' = ToSet(consumed_ids) \cup {inv}
    BY <1>2, InsertSet DEF VecTypeOK
  <1>11. UNCHANGED <<K!agentVars, K!labelVars, ToSet(consumed_attestations),
                     ToSet(consumed_crossings), MapOf(crossing_grants), ToSet(tool_registered)>>
    BY <1>2 DEF agentVars, labelVars, K!agentVars, K!labelVars
  <1>12. K!begin_invocation(a, inv, chal, p, e, ah, authorized)
    BY <1>8, <1>9, <1>10, <1>11 DEF K!begin_invocation, v, plainK, bypassedK, scopeK
  <1>13. QED
    BY <1>12 DEF p, e

(* Crossing, with or without an endorsement.                               *)
LEMMA CrossRefines ==
    ASSUME VecTypeOK, NEW q \in CrossInputs, cross_output(q)
    PROVE  K!cross_output(q)
  <1> DEFINE endorsed == K!branch(q) = "endorsed"
             levels(given, entries) ==
                 CASE endorsed -> <<given>>
                   [] K!branch(q) = "unendorsed" -> VecMap_get_set_or_empty(entries, q.src)
                   [] OTHER -> << >>
             key == [agent |-> q.rcv, assignment |-> q.assignment]
             disposition == K!hold_disposition(K!cross_holds(q))
             conf == levels(q.released_conf, taint_levels)
             integ == levels(q.released_integ, integ_levels)
  <1>1. q \in CrossInput
    BY VecInputsAssumption
  <1>2. /\ q.src \in AgentId /\ q.rcv \in AgentId /\ q.crossing \in CrossingId
        /\ q.assignment \in AssignmentDigest /\ q.released_conf \in ConfLevel
        /\ q.released_integ \in IntegLevel /\ q.evidence \in Maybe(ConformanceAttestation)
    BY <1>1 DEF CrossInput
  <1>3. /\ K!crossable(q)
        /\ endorsed => K!endorsed_bounds(q)
        /\ disposition # "refused"
        /\ taint_levels' = release(taint_levels, q.rcv, conf)
        /\ integ_levels' = release(integ_levels, q.rcv, integ)
        /\ consumed_crossings' = VecSet_insert(consumed_crossings, q.crossing)
        /\ IF endorsed
           THEN /\ consumed_attestations' = VecSet_insert(consumed_attestations, q.evidence.id)
                /\ crossing_grants' = decrement_grant_at(key)
           ELSE UNCHANGED <<consumed_attestations, crossing_grants>>
        /\ pending' = IF disposition = "permitted" THEN pending ELSE demote_all_of(pending, q.rcv)
        /\ UNCHANGED <<agentVars, challenges, consumed_ids, tool_registered>>
    BY Zenon DEF cross_output
  <1>4. /\ conf \in Seq(ConfLevel) /\ ToSet(conf) = K!released_conf(q)
        /\ integ \in Seq(IntegLevel) /\ ToSet(integ) = K!released_integ(q)
    <2>1. /\ VecMap_get_set_or_empty(taint_levels, q.src) \in Seq(ConfLevel)
          /\ VecMap_get_set_or_empty(integ_levels, q.src) \in Seq(IntegLevel)
      BY ReadSet DEF VecTypeOK, USeq
    <2>2. \A x : ToSet(<<x>>) = {x}
      BY DEF ToSet
    <2>3. ToSet(<< >>) = {}
      BY DEF ToSet
    <2>4. /\ SetsOf(taint_levels)[q.src] = ToSet(VecMap_get_set_or_empty(taint_levels, q.src))
          /\ SetsOf(integ_levels)[q.src] = ToSet(VecMap_get_set_or_empty(integ_levels, q.src))
      BY <1>2 DEF SetsOf
    <2>5. conf \in Seq(ConfLevel) /\ integ \in Seq(IntegLevel)
      BY <1>2, <2>1
    <2>6. ToSet(conf) = K!released_conf(q)
      BY <2>2, <2>3, <2>4 DEF K!released_conf
    <2>7. ToSet(integ) = K!released_integ(q)
      BY <2>2, <2>3, <2>4 DEF K!released_integ
    <2>8. QED
      BY <2>5, <2>6, <2>7
  <1> HIDE DEF conf, integ, levels
  <1>5. /\ SetsOf(taint_levels)' = K!extend_into(SetsOf(taint_levels), q.rcv, K!released_conf(q))
        /\ SetsOf(integ_levels)' = K!extend_into(SetsOf(integ_levels), q.rcv, K!released_integ(q))
    <2>1. SetsOf(release(taint_levels, q.rcv, conf)) =
             K!extend_into(SetsOf(taint_levels), q.rcv, ToSet(conf))
      BY <1>2, <1>4, SetsChange DEF VecTypeOK
    <2>2. SetsOf(release(integ_levels, q.rcv, integ)) =
             K!extend_into(SetsOf(integ_levels), q.rcv, ToSet(integ))
      BY <1>2, <1>4, SetsChange DEF VecTypeOK
    <2>3. QED
      BY <1>3, <1>4, <2>1, <2>2
  <1>6. ToSet(consumed_crossings)' = ToSet(consumed_crossings) \cup {q.crossing}
    BY <1>2, <1>3, InsertSet DEF VecTypeOK
  <1>7. endorsed => ToSet(VecSet_insert(consumed_attestations, q.evidence.id)) =
                        ToSet(consumed_attestations) \cup {q.evidence.id}
    <2>1. endorsed => q.evidence # None
      BY DEF K!branch, K!endorsed_ok
    <2>2. endorsed => q.evidence.id \in AttestationId
      BY <1>2, <2>1 DEF Maybe, ConformanceAttestation
    <2>3. QED
      BY <2>2, InsertSet DEF VecTypeOK
  <1>8. MapOf(decrement_grant_at(key)) = K!decrement_grant_at(q.rcv, q.assignment)
    BY <1>2, GrantUsed
  <1> HIDE DEF endorsed, key
  <1>9. IF endorsed
        THEN /\ ToSet(consumed_attestations)' = ToSet(consumed_attestations) \cup {q.evidence.id}
             /\ MapOf(crossing_grants)' = K!decrement_grant_at(q.rcv, q.assignment)
        ELSE UNCHANGED <<ToSet(consumed_attestations), MapOf(crossing_grants)>>
    BY <1>3, <1>7, <1>8
  <1>10. disposition \in {"permitted", "monitor_bypassed", "refused"}
    BY DEF K!hold_disposition
  <1> HIDE DEF disposition
  <1>11. RecordsOf(demote_all_of(pending, q.rcv)) = K!demote_all_of(RecordsOf(pending), q.rcv)
    BY RecordsDemoted DEF VecTypeOK
  <1>12. \/ disposition = "permitted" /\ UNCHANGED RecordsOf(pending)
         \/ /\ disposition = "monitor_bypassed"
            /\ RecordsOf(pending)' = K!demote_all_of(RecordsOf(pending), q.rcv)
    BY <1>3, <1>10, <1>11
  <1>13. UNCHANGED <<K!agentVars, RecordsOf(challenges), ToSet(consumed_ids), ToSet(tool_registered)>>
    BY <1>3 DEF agentVars, K!agentVars
  <1>14. QED
    BY <1>3, <1>5, <1>6, <1>9, <1>12, <1>13 DEF K!cross_output, endorsed, disposition

(* The initial vectors stand for the initial state.                        *)
LEMMA InitRefines == Init => K!Init
  <1> SUFFICES ASSUME Init PROVE K!Init
    OBVIOUS
  <1>1. ToSet(<< >>) = {} /\ Keys(<< >>) = {}
    BY DEF ToSet, Keys
  <1>2. MapOf(<< >>) = K!EmptyMap /\ RecordsOf(<< >>) = K!EmptyMap
    BY <1>1 DEF MapOf, RecordsOf, K!EmptyMap
  <1>3. \A a : VecMap_get_set_or_empty(<< >>, a) = << >>
    BY DEF VecMap_get_set_or_empty, VecMap_contains_key, VecSet_new
  <1>4. SetsOf(<< >>) = [a \in AgentId |-> {}]
    BY <1>1, <1>3 DEF SetsOf
  <1>5. ToSet(agent_active) = {Root}
    <2>1. << >> \in USeq(AgentId)
      BY EmptySet
    <2>2. ToSet(VecSet_insert(<< >>, Root)) = {} \cup {Root}
      BY <1>1, <2>1, RootAssumption, InsertSet
    <2>3. QED
      BY <2>2 DEF Init, VecSet_new
  <1>6. SetsOf(agent_cap) = [a \in AgentId |-> IF a = Root THEN CapKind ELSE {}]
    <2> DEFINE caps == VecSet_from_iter(CapOrder)
    <2>1. caps \in USeq(CapKind) /\ ToSet(caps) = CapKind
      BY VecInputsAssumption, FromIterSet
    <2>2. << >> \in VMap(AgentId, USeq(CapKind))
      BY EmptyVMap
    <2>3. agent_cap = VecMap_insert(<< >>, Root, caps)
      BY DEF Init, VecMap_new
    <2> HIDE DEF caps
    <2>4. \A a \in AgentId : VecMap_get_set_or_empty(VecMap_insert(<< >>, Root, caps), a) =
             IF a = Root THEN caps ELSE VecMap_get_set_or_empty(<< >>, a)
      BY <2>1, <2>2, RootAssumption, ReadAfter
    <2>5. \A a \in AgentId : ToSet(VecMap_get_set_or_empty(agent_cap, a)) =
             IF a = Root THEN CapKind ELSE {}
      BY <1>1, <1>3, <2>1, <2>3, <2>4
    <2>6. QED
      BY <2>5 DEF SetsOf
  <1>7. QED
    BY <1>1, <1>2, <1>4, <1>5, <1>6 DEF Init, K!Init, K!initial, VecSet_new, VecMap_new

(* A step on vectors is a step of Kernel.                                  *)
LEMMA StepRefines == VecTypeOK /\ [Next]_vars => [K!Next]_(K!vars)
  <1> SUFFICES ASSUME VecTypeOK, [Next]_vars PROVE [K!Next]_(K!vars)
    OBVIOUS
  <1>1. ASSUME NEW tool \in ToolId, register_tool(tool) \/ unregister_tool(tool)
        PROVE  K!ToolNext
    BY <1>1, ToolsRefine DEF K!ToolNext
  <1>2. ASSUME NEW a \in AgentId, NEW b \in AgentId,
               \/ delegate(a, b) \/ revoke(a, b) \/ cascade_revoke(a, b)
               \/ \E cap \in CapKind : grant_capability(a, b, cap)
               \/ \E d \in AssignmentDigest, n \in GrantSizes : grant_crossing(a, b, d, n)
        PROVE  K!TreeNext
    BY <1>2, TreeRefines, GrantsRefine DEF K!TreeNext
  <1>3. ASSUME NEW a \in AgentId, NEW src \in Maybe(AgentId), NEW p \in Provenances,
               ingest(a, src, p[1], p[2])
        PROVE  K!IngestNext
    <2>1. p[1] \in ConfLevel /\ p[2] \in IntegLevel
      BY VecInputsAssumption
    <2>2. K!ingest(a, src, p[1], p[2]) /\ src \in K!Maybe(AgentId)
      BY <1>3, <2>1, IngestRefines DEF K!Maybe, Maybe
    <2>3. QED
      BY <2>2 DEF K!IngestNext
  <1>4. ASSUME NEW inv \in InvocationId, NEW outcome \in Outcome, NEW att \in Maybe(Resolutions),
               settle_invocation(inv, outcome, att)
        PROVE  K!SettleNext
    <2>1. K!settle_invocation(inv, outcome, att) /\ outcome \in K!Outcome
          /\ att \in K!Maybe(Resolutions)
      BY <1>4, SettleRefines DEF K!Maybe, Maybe, K!Outcome, Outcome
    <2>2. QED
      BY <2>1 DEF K!SettleNext
  <1>5. ASSUME NEW inv \in InvocationId, NEW att \in Inspections, authorize_inspected(inv, att)
        PROVE  K!InspectNext
    BY <1>5, AuthorizeRefines DEF K!InspectNext
  <1>6. ASSUME NEW inv \in InvocationId, NEW a \in AgentId, NEW chal \in ChallengeId,
               NEW policy \in PolicyN, NEW egress \in EgressLists, NEW ah \in ContentHash,
               NEW authorized \in BOOLEAN,
               begin_invocation(a, inv, chal, policy, egress, ah, authorized)
        PROVE  K!BeginNext
    <2>1. K!begin_invocation(a, inv, chal, PolicyOf(policy), ToSet(egress), ah, authorized)
      BY <1>6, BeginRefines
    <2>2. ToSet(egress) \in SUBSET EgressKind
      BY VecInputsAssumption DEF ToSet
    <2>3. QED
      BY <2>1, <2>2 DEF K!BeginNext
  <1>7. ASSUME NEW q \in CrossInputs, cross_output(q)
        PROVE  K!CrossNext
    BY <1>7, CrossRefines DEF K!CrossNext
  <1>8. CASE UNCHANGED vars
    BY <1>8 DEF vars, agentVars, labelVars, consumedVars, K!vars, K!agentVars, K!labelVars,
       K!consumedVars
  <1>9. QED
    BY <1>1, <1>2, <1>3, <1>4, <1>5, <1>6, <1>7, <1>8 DEF Next, K!Next

(* The code on vectors does what Kernel says, for every background and all *)
(* inputs: a transition, with its loops, rebuilt maps and converted lists, *)
(* is that transition of Kernel on the sets and maps the vectors stand     *)
(* for, so whatever is proved of Kernel holds of the vectors, whatever     *)
(* their order.                                                            *)
THEOREM VectorsImplementKernel == Spec => K!Spec
  <1>1. Init => VecTypeOK
    BY VecInit
  <1>2. VecTypeOK /\ [Next]_vars => VecTypeOK'
    BY VecNext
  <1>3. Init => K!Init
    BY InitRefines
  <1>4. VecTypeOK /\ [Next]_vars => [K!Next]_(K!vars)
    BY StepRefines
  <1>5. QED
    BY <1>1, <1>2, <1>3, <1>4, PTL DEF Spec, K!Spec

---------------------------------------------------------------------------
(* Sorting.                                                                *)

(* The pairs of an order that tells any two members of a set apart.        *)
StrictlyOrders(before, S) ==
    /\ \A x \in S : <<x, x>> \notin before
    /\ \A x, y, z \in S : <<x, y>> \in before /\ <<y, z>> \in before => <<x, z>> \in before
    /\ \A x, y \in S : x # y => <<x, y>> \in before \/ <<y, x>> \in before

(* The first n places list all of S, and ascend.                           *)
Ascends(r, n, S, before) ==
    /\ r \in [1 .. n -> S]
    /\ \A x \in S : \E i \in 1 .. n : r[i] = x
    /\ \A i, j \in 1 .. n : i < j => <<r[i], r[j]>> \in before

(* Two ascending lists of one set agree.                                   *)
LEMMA AscendingOnce ==
    ASSUME NEW S, NEW before, StrictlyOrders(before, S), NEW n \in Nat,
           NEW r, NEW s, Ascends(r, n, S, before), Ascends(s, n, S, before)
    PROVE  r = s
  <1> SUFFICES ASSUME r # s PROVE FALSE
    OBVIOUS
  <1> DEFINE U == {i \in 1 .. n : r[i] # s[i]}
  <1>1. /\ r \in [1 .. n -> S] /\ s \in [1 .. n -> S]
        /\ \A i \in 1 .. n : r[i] \in S /\ s[i] \in S
    BY DEF Ascends
  <1>2. U # {} /\ U \in SUBSET Nat
    BY <1>1
  <1>3. PICK i \in U : \A j \in U : i <= j
    <2> HIDE DEF U
    <2>1. QED
      BY <1>2, LeastNumber
  <1>4. i \in 1 .. n /\ r[i] # s[i] /\ \A j \in 1 .. n : j < i => r[j] = s[j]
    BY <1>3
  <1>5. PICK j \in 1 .. n : s[j] = r[i]
    BY <1>1, <1>4 DEF Ascends
  <1>6. PICK k \in 1 .. n : r[k] = s[i]
    BY <1>1, <1>4 DEF Ascends
  <1>7. /\ \A x \in 1 .. n, y \in 1 .. n : x < y => r[x] # r[y]
        /\ \A x \in 1 .. n, y \in 1 .. n : x < y => s[x] # s[y]
    <2>1. \A x \in S : <<x, x>> \notin before
      BY DEF StrictlyOrders
    <2>2. \A x, y \in 1 .. n : x < y => <<r[x], r[y]>> \in before /\ <<s[x], s[y]>> \in before
      BY DEF Ascends
    <2>3. QED
      BY <1>1, <2>1, <2>2
  <1>8. i < j /\ i < k
    <2>1. ~(j < i)
      BY <1>4, <1>5, <1>7
    <2>2. ~(k < i)
      BY <1>4, <1>6, <1>7
    <2>3. j # i /\ k # i
      BY <1>4, <1>5, <1>6
    <2>4. QED
      BY <1>4, <2>1, <2>2, <2>3
  <1>9. <<r[i], s[i]>> \in before /\ <<s[i], r[i]>> \in before
    BY <1>4, <1>5, <1>6, <1>8 DEF Ascends
  <1>10. <<r[i], r[i]>> \in before
    BY <1>1, <1>4, <1>9 DEF StrictlyOrders
  <1>11. QED
    BY <1>1, <1>4, <1>10 DEF StrictlyOrders

(* The ascending list of a set is the one any ascending list of it is.     *)
LEMMA AscendingIs ==
    ASSUME NEW S, NEW before, StrictlyOrders(before, S), NEW n \in Nat,
           NEW r, Ascends(r, n, S, before)
    PROVE  Cardinality(S) = n /\ Ascending(S, before) = r
  <1>1. /\ r \in [1 .. n -> S] /\ \A i \in 1 .. n : r[i] \in S
        /\ \A x \in S : \E i \in 1 .. n : r[i] = x
        /\ \A i, j \in 1 .. n : i < j => r[i] # r[j]
    BY DEF Ascends, StrictlyOrders
  <1>2. Cardinality(S) = n
    <2>1. \A i, j \in 1 .. n : r[i] = r[j] => i = j
      BY <1>1
    <2>2. r \in Bijection(1 .. n, S)
      BY <1>1, <2>1 DEF Bijection, Injection, Surjection, IsInjective
    <2>3. ExistsBijection(1 .. n, S)
      BY <2>2 DEF ExistsBijection
    <2>4. Cardinality(1 .. n) = n /\ IsFiniteSet(1 .. n)
      BY FS_Interval
    <2>5. QED
      BY <2>3, <2>4, FS_Bijection
  <1> DEFINE P(s) == /\ ToSet(s) = S
                     /\ \A i, j \in DOMAIN s : i < j => <<s[i], s[j]>> \in before
  <1>3. \A s \in [1 .. n -> S] : P(s) <=> Ascends(s, n, S, before)
    <2> TAKE s \in [1 .. n -> S]
    <2>1. DOMAIN s = 1 .. n /\ \A i \in 1 .. n : s[i] \in S
      OBVIOUS
    <2>2. ToSet(s) = S <=> \A x \in S : \E i \in 1 .. n : s[i] = x
      BY <2>1 DEF ToSet
    <2>3. QED
      BY <2>1, <2>2 DEF Ascends
  <1>4. P(r)
    BY <1>1, <1>3
  <1>5. Ascending(S, before) = CHOOSE s \in [1 .. n -> S] : P(s)
    BY <1>2 DEF Ascending
  <1> HIDE DEF P
  <1>6. PICK s \in [1 .. n -> S] : P(s) /\ s = Ascending(S, before)
    BY <1>1, <1>4, <1>5
  <1>7. Ascends(s, n, S, before)
    BY <1>3, <1>6
  <1>8. QED
    BY <1>2, <1>6, <1>7, AscendingOnce

(* The places of a list without repetitions can be put in ascending order. *)
Places(p, i, items, before) ==
    /\ p \in [1 .. i -> 1 .. i]
    /\ \A x \in 1 .. i : \E a \in 1 .. i : p[a] = x
    /\ \A a, b \in 1 .. i : a < b => <<items[p[a]], items[p[b]]>> \in before

(* One more item finds its place among those that are sorted.              *)
LEMMA PlaceInserted ==
    ASSUME NEW S, NEW before, StrictlyOrders(before, S), NEW n \in Nat, NEW i \in 1 .. n,
           NEW items \in [1 .. n -> S], \A a, b \in 1 .. n : items[a] = items[b] => a = b,
           NEW p, Places(p, i - 1, items, before)
    PROVE  \E q : Places(q, i, items, before)
  <1> DEFINE later == {a \in 1 .. (i - 1) : <<items[i], items[p[a]]>> \in before}
  <1>1. /\ i \in Nat /\ i - 1 \in Nat /\ i \in 1 .. n /\ \A a \in 1 .. i : a \in 1 .. n
        /\ \A a \in 1 .. (i - 1) : a \in 1 .. n /\ a # i /\ a \in 1 .. i
    OBVIOUS
  <1>2. /\ p \in [1 .. (i - 1) -> 1 .. (i - 1)] /\ \A a \in 1 .. (i - 1) : p[a] \in 1 .. (i - 1)
        /\ \A x \in 1 .. (i - 1) : \E a \in 1 .. (i - 1) : p[a] = x
        /\ \A a, b \in 1 .. (i - 1) : a < b => <<items[p[a]], items[p[b]]>> \in before
    BY DEF Places
  <1>3. \A a \in 1 .. (i - 1) : \/ <<items[p[a]], items[i]>> \in before
                                \/ <<items[i], items[p[a]]>> \in before
    <2> TAKE a \in 1 .. (i - 1)
    <2>1. p[a] \in 1 .. n /\ p[a] # i
      BY <1>1, <1>2
    <2>2. items[p[a]] # items[i] /\ items[p[a]] \in S /\ items[i] \in S
      BY <1>1, <2>1
    <2>3. QED
      BY <2>2 DEF StrictlyOrders
  <1>4. PICK at \in 1 .. i :
           /\ \A a \in 1 .. (i - 1) : a < at => <<items[p[a]], items[i]>> \in before
           /\ \A a \in 1 .. (i - 1) : at <= a => <<items[i], items[p[a]]>> \in before
    <2>1. CASE later = {}
      <3>1. \A a \in 1 .. (i - 1) : a < i /\ <<items[p[a]], items[i]>> \in before
        <4> TAKE a \in 1 .. (i - 1)
        <4>1. a < i
          BY <1>1
        <4>2. a \notin later
          BY <2>1
        <4>3. <<items[i], items[p[a]]>> \notin before
          BY <4>2
        <4>4. QED
          BY <1>3, <4>1, <4>3
      <3>2. i \in 1 .. i /\ \A a \in 1 .. (i - 1) : ~(i <= a)
        BY <1>1
      <3>3. QED
        BY <3>1, <3>2
    <2>2. CASE later # {}
      <3>1. later \in SUBSET Nat
        OBVIOUS
      <3>2. PICK at \in later : \A a \in later : at <= a
        <4> HIDE DEF later
        <4>1. QED
          BY <2>2, <3>1, LeastNumber
      <3>3. at \in 1 .. i /\ at \in 1 .. (i - 1) /\ <<items[i], items[p[at]]>> \in before
        BY <1>1, <3>2
      <3>4. \A a \in 1 .. (i - 1) : a < at => a \notin later
        BY <3>2, <3>3
      <3>5. \A a \in 1 .. (i - 1) : a < at => <<items[p[a]], items[i]>> \in before
        BY <1>3, <3>4
      <3>6. ASSUME NEW a \in 1 .. (i - 1), at <= a
            PROVE  <<items[i], items[p[a]]>> \in before
        <4>1. CASE a = at
          BY <3>3, <4>1
        <4>2. CASE at < a
          <5>1. <<items[p[at]], items[p[a]]>> \in before
            BY <1>2, <3>3, <4>2
          <5>2. p[at] \in 1 .. n /\ p[a] \in 1 .. n
            BY <1>1, <1>2, <3>3
          <5>3. items[i] \in S /\ items[p[at]] \in S /\ items[p[a]] \in S
            BY <1>1, <5>2
          <5>4. QED
            BY <3>3, <5>1, <5>3 DEF StrictlyOrders
        <4>3. QED
          BY <3>3, <3>6, <4>1, <4>2
      <3>7. QED
        BY <3>3, <3>5, <3>6
    <2>3. QED
      BY <2>1, <2>2
  <1> DEFINE q == [a \in 1 .. i |-> IF a < at THEN p[a] ELSE IF a = at THEN i ELSE p[a - 1]]
  <1>5. /\ \A a \in 1 .. i : a < at => a \in 1 .. (i - 1) /\ q[a] = p[a]
        /\ at \in 1 .. i /\ q[at] = i
        /\ \A a \in 1 .. i : at < a => a - 1 \in 1 .. (i - 1) /\ at <= a - 1 /\ q[a] = p[a - 1]
    BY <1>1, <1>4
  <1>6. q \in [1 .. i -> 1 .. i]
    <2>1. ASSUME NEW a \in 1 .. i PROVE q[a] \in 1 .. i
      <3>1. a < at \/ a = at \/ at < a
        BY <1>4
      <3>2. \A b \in 1 .. (i - 1) : p[b] \in 1 .. i
        BY <1>1, <1>2
      <3>3. i \in 1 .. i
        BY <1>1
      <3> HIDE DEF q
      <3>4. QED
        BY <1>5, <3>1, <3>2, <3>3
    <2>2. QED
      BY <2>1
  <1>7. ASSUME NEW x \in 1 .. i PROVE \E a \in 1 .. i : q[a] = x
    <2>1. CASE x = i
      BY <1>5, <2>1
    <2>2. CASE x # i
      <3>1. x \in 1 .. (i - 1)
        BY <1>1, <2>2
      <3>2. PICK a \in 1 .. (i - 1) : p[a] = x
        BY <1>2, <3>1
      <3>3. CASE a < at
        <4>1. a \in 1 .. i
          BY <1>1
        <4>2. QED
          BY <1>5, <3>2, <3>3, <4>1
      <3>4. CASE at <= a
        <4>1. a + 1 \in 1 .. i /\ at < a + 1 /\ (a + 1) - 1 = a
          BY <1>1, <1>4, <3>4
        <4>2. q[a + 1] = p[a]
          BY <1>5, <4>1
        <4>3. QED
          BY <3>2, <4>1, <4>2
      <3>5. QED
        BY <1>4, <3>3, <3>4
    <2>3. QED
      BY <2>1, <2>2
  <1>8. ASSUME NEW a \in 1 .. i, NEW b \in 1 .. i, a < b
        PROVE  <<items[q[a]], items[q[b]]>> \in before
    <2> HIDE DEF q
    <2>1. CASE b < at
      <3>1. a < at
        BY <1>8, <2>1, <1>4
      <3>2. QED
        BY <1>2, <1>5, <1>8, <2>1, <3>1
    <2>2. CASE b = at
      BY <1>4, <1>5, <1>8, <2>2
    <2>3. CASE at < b /\ a < at
      <3>1. a < b - 1
        BY <1>4, <1>8, <2>3
      <3>2. a \in 1 .. (i - 1) /\ b - 1 \in 1 .. (i - 1) /\ q[a] = p[a] /\ q[b] = p[b - 1]
        BY <1>5, <2>3
      <3>3. <<items[p[a]], items[p[b - 1]]>> \in before
        BY <1>2, <3>1, <3>2
      <3>4. QED
        BY <3>2, <3>3
    <2>4. CASE at < b /\ a = at
      BY <1>4, <1>5, <2>4
    <2>5. CASE at < b /\ at < a
      <3>1. a - 1 < b - 1
        BY <1>8
      <3>2. /\ a - 1 \in 1 .. (i - 1) /\ b - 1 \in 1 .. (i - 1)
            /\ q[a] = p[a - 1] /\ q[b] = p[b - 1]
        BY <1>5, <2>5
      <3>3. <<items[p[a - 1]], items[p[b - 1]]>> \in before
        BY <1>2, <3>1, <3>2
      <3>4. QED
        BY <3>2, <3>3
    <2>6. QED
      BY <1>4, <1>8, <2>1, <2>2, <2>3, <2>4, <2>5
  <1>9. Places(q, i, items, before)
    <2> HIDE DEF q
    <2>1. QED
      BY <1>6, <1>7, <1>8 DEF Places
  <1>10. QED
    BY <1>9

(* Every list without repetitions can be sorted.                           *)
LEMMA PlacesExist ==
    ASSUME NEW S, NEW before, StrictlyOrders(before, S), NEW n \in Nat,
           NEW items \in [1 .. n -> S], \A a, b \in 1 .. n : items[a] = items[b] => a = b
    PROVE  \E p : Places(p, n, items, before)
  <1> DEFINE B == {i \in 0 .. n : \E p : Places(p, i, items, before)}
  <1>1. 0 \in B
    <2>1. Places([a \in 1 .. 0 |-> a], 0, items, before)
      BY DEF Places
    <2>2. QED
      BY <2>1
  <1>2. ASSUME NEW i \in 1 .. n, i - 1 \in B PROVE i \in B
    <2>1. PICK p : Places(p, i - 1, items, before)
      BY <1>2
    <2>2. \E q : Places(q, i, items, before)
      BY <2>1, PlaceInserted
    <2>3. QED
      BY <2>2
  <1>3. n \in B
    <2> HIDE DEF B
    <2>1. QED
      BY <1>1, <1>2, PrefixInduction
  <1>4. QED
    BY <1>3

(* What sort_by gives back lists the same items, and ascends.              *)
LEMMA SortAscends ==
    ASSUME NEW T, NEW items \in USeq(T), NEW before, StrictlyOrders(before, ToSet(items))
    PROVE  /\ Ascends(sort_by(items, before), Len(items), ToSet(items), before)
           /\ sort_by(items, before) = Ascending(ToSet(items), before)
           /\ Cardinality(ToSet(items)) = Len(items)
  <1> DEFINE n == Len(items)
             S == ToSet(items)
             Q(p) == /\ ToSet(p) = 1 .. n
                     /\ \A i, j \in 1 .. n : i < j =>
                          \/ <<items[p[i]], items[p[j]]>> \in before
                          \/ <<items[p[j]], items[p[i]]>> \notin before /\ p[i] < p[j]
             order == CHOOSE p \in [1 .. n -> 1 .. n] : Q(p)
  <1>1. /\ n \in Nat /\ DOMAIN items = 1 .. n /\ items \in Seq(T)
        /\ \A i, j \in 1 .. n : items[i] = items[j] => i = j
    BY DEF USeq, Unique
  <1>2. /\ items \in [1 .. n -> S] /\ \A x \in S : \E i \in 1 .. n : items[i] = x
        /\ \A i \in 1 .. n : items[i] \in S
    BY <1>1 DEF ToSet
  <1>3. sort_by(items, before) = [i \in 1 .. n |-> items[order[i]]]
    BY <1>1 DEF sort_by
  <1> HIDE DEF n, S
  <1>4. StrictlyOrders(before, S)
    BY DEF S
  <1>5. PICK p : Places(p, n, items, before)
    BY <1>1, <1>2, <1>4, PlacesExist
  <1>6. p \in [1 .. n -> 1 .. n] /\ Q(p)
    <2>1. p \in [1 .. n -> 1 .. n] /\ \A x \in 1 .. n : \E a \in 1 .. n : p[a] = x
      BY <1>5 DEF Places
    <2>2. ToSet(p) = 1 .. n
      BY <2>1 DEF ToSet
    <2>3. QED
      BY <1>5, <2>1, <2>2 DEF Places
  <1>7. order \in [1 .. n -> 1 .. n] /\ Q(order)
    <2> HIDE DEF Q
    <2>1. QED
      BY <1>6
  <1> DEFINE r == [i \in 1 .. n |-> items[order[i]]]
  <1> HIDE DEF order
  <1>8. Ascends(r, n, S, before)
    <2>1. \A i \in 1 .. n : order[i] \in 1 .. n
      BY <1>7
    <2>2. r \in [1 .. n -> S]
      BY <1>2, <2>1
    <2>3. ASSUME NEW x \in S PROVE \E i \in 1 .. n : r[i] = x
      <3>1. PICK k \in 1 .. n : items[k] = x
        BY <1>2
      <3>2. k \in ToSet(order) /\ DOMAIN order = 1 .. n
        BY <1>7
      <3>3. PICK i \in 1 .. n : order[i] = k
        BY <3>2 DEF ToSet
      <3>4. QED
        BY <3>1, <3>3
    <2>4. ASSUME NEW i \in 1 .. n, NEW j \in 1 .. n, i < j
          PROVE  <<r[i], r[j]>> \in before
      <3>1. \/ <<items[order[i]], items[order[j]]>> \in before
            \/ <<items[order[j]], items[order[i]]>> \notin before /\ order[i] < order[j]
        BY <1>7, <2>4
      <3>2. order[i] < order[j] => items[order[i]] # items[order[j]]
        BY <1>1, <2>1
      <3>3. items[order[i]] \in S /\ items[order[j]] \in S
        BY <1>2, <2>1
      <3>4. <<items[order[i]], items[order[j]]>> \in before
        BY <1>4, <3>1, <3>2, <3>3 DEF StrictlyOrders
      <3>5. QED
        BY <3>4
    <2> HIDE DEF r
    <2>5. QED
      BY <2>2, <2>3, <2>4 DEF Ascends
  <1>9. Cardinality(S) = n /\ Ascending(S, before) = r
    <2> HIDE DEF r
    <2>1. QED
      BY <1>1, <1>4, <1>8, AscendingIs
  <1>10. QED
    BY <1>3, <1>8, <1>9 DEF r, n, S

---------------------------------------------------------------------------
(* The orders of the projection.                                           *)

(* The ids of S have places of their own in the byte order.                *)
HasTexts(S) == \A x, y \in S : utf8(x) \in Nat /\ (utf8(x) = utf8(y) => x = y)

(* The values of S have tags of their own.                                 *)
HasTags(S) == \A x, y \in S : tag(x) \in Nat /\ (tag(x) = tag(y) => x = y)

(* Texts, tags and ranks tell the members of a set apart.                  *)
LEMMA MembersOrdered ==
    ASSUME NEW S
    PROVE  /\ HasTexts(S) => StrictlyOrders(ByText(S), S)
           /\ HasTags(S) => StrictlyOrders(ByTag(S), S)
           /\ S \subseteq Nat => StrictlyOrders(ByRank(S), S)
  <1>1. ASSUME HasTexts(S) PROVE StrictlyOrders(ByText(S), S)
    <2>1. \A x, y \in S : <<x, y>> \in ByText(S) <=> utf8(x) < utf8(y)
      BY DEF ByText
    <2>2. QED
      BY <1>1, <2>1 DEF HasTexts, StrictlyOrders
  <1>2. ASSUME HasTags(S) PROVE StrictlyOrders(ByTag(S), S)
    <2>1. \A x, y \in S : <<x, y>> \in ByTag(S) <=> tag(x) < tag(y)
      BY DEF ByTag
    <2>2. QED
      BY <1>2, <2>1 DEF HasTags, StrictlyOrders
  <1>3. ASSUME S \subseteq Nat PROVE StrictlyOrders(ByRank(S), S)
    <2>1. \A x, y \in S : <<x, y>> \in ByRank(S) <=> x < y
      BY DEF ByRank
    <2>2. QED
      BY <1>3, <2>1 DEF StrictlyOrders
  <1>4. QED
    BY <1>1, <1>2, <1>3

(* The entries of a map are told apart by the texts of their keys.         *)
LEMMA EntriesOrdered ==
    ASSUME NEW D, NEW V, NEW m \in VMap(D, V)
    PROVE  /\ HasTexts(D) => StrictlyOrders(ByKey(ToSet(m)), ToSet(m))
           /\ D = CrossingKey => StrictlyOrders(ByGrantKey(ToSet(m)), ToSet(m))
  <1> DEFINE E == ToSet(m)
  <1>1. /\ \A e \in E : e[1] \in D
        /\ \A e, d \in E : e[1] = d[1] => e = d
    <2>1. MapFacts(m, D, V)
      BY MapParts
    <2>2. QED
      BY <2>1 DEF MapFacts
  <1> HIDE DEF E
  <1>2. ASSUME HasTexts(D) PROVE StrictlyOrders(ByKey(E), E)
    <2>1. \A e, d \in E : <<e, d>> \in ByKey(E) <=> utf8(e[1]) < utf8(d[1])
      BY DEF ByKey
    <2>2. \A e, d \in E : utf8(e[1]) \in Nat /\ (utf8(e[1]) = utf8(d[1]) => e = d)
      BY <1>1, <1>2 DEF HasTexts
    <2>3. QED
      BY <2>1, <2>2 DEF StrictlyOrders
  <1>3. ASSUME D = CrossingKey PROVE StrictlyOrders(ByGrantKey(E), E)
    <2>1. \A e, d \in E : <<e, d>> \in ByGrantKey(E) <=>
             \/ utf8(e[1].agent) < utf8(d[1].agent)
             \/ e[1].agent = d[1].agent /\ utf8(e[1].assignment) < utf8(d[1].assignment)
      BY DEF ByGrantKey
    <2>2. \A e \in E : e[1].agent \in AgentId /\ e[1].assignment \in AssignmentDigest
      BY <1>1, <1>3 DEF CrossingKey
    <2>3. /\ \A x, y \in AgentId : utf8(x) \in Nat /\ (utf8(x) = utf8(y) => x = y)
          /\ \A x, y \in AssignmentDigest : utf8(x) \in Nat /\ (utf8(x) = utf8(y) => x = y)
      BY OrderAssumption
    <2>4. \A e, d \in E : e[1].agent = d[1].agent /\ e[1].assignment = d[1].assignment => e = d
      BY <1>1, <1>3 DEF CrossingKey
    <2>5. /\ \A e \in E : utf8(e[1].agent) \in Nat /\ utf8(e[1].assignment) \in Nat
          /\ \A e, d \in E : utf8(e[1].agent) = utf8(d[1].agent) => e[1].agent = d[1].agent
          /\ \A e, d \in E : utf8(e[1].assignment) = utf8(d[1].assignment)
                               => e[1].assignment = d[1].assignment
      BY <2>2, <2>3
    <2>6. \A e \in E : <<e, e>> \notin ByGrantKey(E)
      BY <2>1, <2>5
    <2>7. \A e, d, c \in E : <<e, d>> \in ByGrantKey(E) /\ <<d, c>> \in ByGrantKey(E)
                               => <<e, c>> \in ByGrantKey(E)
      BY <2>1, <2>5
    <2>8. \A e, d \in E : e # d => <<e, d>> \in ByGrantKey(E) \/ <<d, e>> \in ByGrantKey(E)
      BY <2>1, <2>4, <2>5
    <2>9. QED
      BY <2>6, <2>7, <2>8 DEF StrictlyOrders
  <1>4. QED
    BY <1>2, <1>3 DEF E

---------------------------------------------------------------------------
(* What the projection's sorts show.                                       *)

(* A sorted vector is the ascending list of its set.                       *)
LEMMA VectorsSorted ==
    ASSUME NEW T, NEW items \in USeq(T)
    PROVE  /\ HasTexts(T) => sort_strings(items) = ListOf(ToSet(items))
           /\ HasTags(T) => sort_tags(items) = TagsOf(ToSet(items))
           /\ T \subseteq Nat => sort_levels(items) = LevelsOf(ToSet(items))
  <1>1. ToSet(items) \subseteq T
    BY DEF USeq, ToSet
  <1>2. ASSUME HasTexts(T) PROVE sort_strings(items) = ListOf(ToSet(items))
    <2>1. HasTexts(ToSet(items))
      BY <1>1, <1>2 DEF HasTexts
    <2>2. StrictlyOrders(ByText(ToSet(items)), ToSet(items))
      BY <2>1, MembersOrdered
    <2>3. QED
      BY <2>2, SortAscends DEF sort_strings, ListOf
  <1>3. ASSUME HasTags(T) PROVE sort_tags(items) = TagsOf(ToSet(items))
    <2>1. HasTags(ToSet(items))
      BY <1>1, <1>3 DEF HasTags
    <2>2. StrictlyOrders(ByTag(ToSet(items)), ToSet(items))
      BY <2>1, MembersOrdered
    <2>3. QED
      BY <2>2, SortAscends DEF sort_tags, TagsOf
  <1>4. ASSUME T \subseteq Nat PROVE sort_levels(items) = LevelsOf(ToSet(items))
    <2>1. ToSet(items) \subseteq Nat
      BY <1>1, <1>4
    <2>2. StrictlyOrders(ByRank(ToSet(items)), ToSet(items))
      BY <2>1, MembersOrdered
    <2>3. QED
      BY <2>2, SortAscends DEF sort_levels, LevelsOf
  <1>5. QED
    BY <1>2, <1>3, <1>4

(* The entries of a map are a vector without repetitions.                  *)
LEMMA MapIsSet ==
    ASSUME NEW D, NEW V, NEW m \in VMap(D, V)
    PROVE  m \in USeq(D \X V)
  <1>1. \A i, j \in DOMAIN m : m[i] = m[j] => i = j
    BY DEF VMap, UniqueKeys
  <1>2. QED
    BY <1>1 DEF VMap, USeq, Unique

(* A sorted map is the table of its keys, ascending, with their values.    *)
LEMMA MapSorted ==
    ASSUME NEW D, NEW V, NEW m \in VMap(D, V), HasTexts(D)
    PROVE  LET l == ListOf(Keys(m))
           IN  /\ \A i \in 1 .. Cardinality(Keys(m)) : l[i] \in Keys(m)
               /\ sort_string_map(m) = [i \in 1 .. Cardinality(Keys(m)) |->
                                            <<l[i], VecMap_get_cloned(m, l[i])>>]
  <1> DEFINE n == Len(m)
             E == ToSet(m)
             r == sort_string_map(m)
             l == [i \in 1 .. n |-> r[i][1]]
  <1>1. n \in Nat
    BY DEF VMap
  <1>2. /\ Keys(m) = {e[1] : e \in E} /\ Keys(m) \subseteq D
        /\ \A e \in E : e[1] \in Keys(m) /\ e = <<e[1], VecMap_get_cloned(m, e[1])>>
    BY KeysAre, EntryIs, GetCloned
  <1>3. Ascends(r, n, E, ByKey(E))
    <2>1. m \in USeq(D \X V)
      BY MapIsSet
    <2>2. StrictlyOrders(ByKey(ToSet(m)), ToSet(m))
      BY EntriesOrdered
    <2>3. QED
      BY <2>1, <2>2, SortAscends DEF sort_string_map
  <1> HIDE DEF n, E, r
  <1>4. /\ r \in [1 .. n -> E] /\ \A i \in 1 .. n : r[i] \in E
        /\ \A e \in E : \E i \in 1 .. n : r[i] = e
        /\ \A i, j \in 1 .. n : i < j => utf8(r[i][1]) < utf8(r[j][1])
    BY <1>3 DEF Ascends, ByKey
  <1>5. /\ l \in [1 .. n -> Keys(m)] /\ \A i \in 1 .. n : l[i] = r[i][1] /\ l[i] \in Keys(m)
    BY <1>2, <1>4
  <1> HIDE DEF l
  <1>6. Ascends(l, n, Keys(m), ByText(Keys(m)))
    <2>1. ASSUME NEW k \in Keys(m) PROVE \E i \in 1 .. n : l[i] = k
      <3>1. PICK e \in E : e[1] = k
        BY <1>2
      <3>2. PICK i \in 1 .. n : r[i] = e
        BY <1>4
      <3>3. QED
        BY <1>5, <3>1, <3>2
    <2>2. ASSUME NEW i \in 1 .. n, NEW j \in 1 .. n, i < j
          PROVE  <<l[i], l[j]>> \in ByText(Keys(m))
      BY <1>4, <1>5, <2>2 DEF ByText
    <2>3. QED
      BY <1>5, <2>1, <2>2 DEF Ascends
  <1>7. Cardinality(Keys(m)) = n /\ ListOf(Keys(m)) = l
    <2>1. HasTexts(Keys(m))
      BY <1>2 DEF HasTexts
    <2>2. StrictlyOrders(ByText(Keys(m)), Keys(m))
      BY <2>1, MembersOrdered
    <2>3. QED
      BY <1>1, <1>6, <2>2, AscendingIs DEF ListOf
  <1>8. r = [i \in 1 .. n |-> <<l[i], VecMap_get_cloned(m, l[i])>>]
    <2>1. \A i \in 1 .. n : r[i] = <<l[i], VecMap_get_cloned(m, l[i])>>
      BY <1>2, <1>4, <1>5
    <2>2. QED
      BY <1>4, <2>1
  <1>9. QED
    BY <1>5, <1>7, <1>8 DEF r

(* The values of a map are converted, its keys stay.                       *)
LEMMA NewValues ==
    ASSUME NEW D, NEW V, NEW m \in VMap(D, V), NEW W, NEW g \in [V -> W], NEW w,
           w = [i \in DOMAIN m |-> <<m[i][1], g[m[i][2]]>>]
    PROVE  /\ w \in VMap(D, W) /\ Keys(w) = Keys(m)
           /\ \A k \in Keys(m) : VecMap_get_cloned(w, k) = g[VecMap_get_cloned(m, k)]
  <1>1. MapFacts(m, D, V)
    BY MapParts
  <1>2. /\ Len(m) \in Nat /\ DOMAIN m = 1 .. Len(m)
        /\ \A i \in DOMAIN m : m[i][1] \in D /\ m[i][2] \in V
        /\ \A i, j \in DOMAIN m : m[i][1] = m[j][1] => i = j
    BY <1>1 DEF MapFacts
  <1>3. /\ DOMAIN w = DOMAIN m
        /\ \A i \in DOMAIN m : w[i] = <<m[i][1], g[m[i][2]]>> /\ w[i] \in D \X W
        /\ \A i \in DOMAIN m : w[i][1] = m[i][1] /\ w[i][2] = g[m[i][2]]
    BY <1>2
  <1>4. w \in VMap(D, W)
    <2>1. w \in [1 .. Len(m) -> D \X W]
      BY <1>2, <1>3
    <2>2. w \in Seq(D \X W)
      BY <1>2, <2>1
    <2>3. UniqueKeys(w)
      BY <1>2, <1>3 DEF UniqueKeys
    <2>4. QED
      BY <2>2, <2>3 DEF VMap
  <1>5. Keys(w) = Keys(m)
    BY <1>3 DEF Keys
  <1>6. ASSUME NEW k \in Keys(m)
        PROVE  VecMap_get_cloned(w, k) = g[VecMap_get_cloned(m, k)]
    <2>1. PICK i \in DOMAIN m : m[i][1] = k
      BY DEF Keys
    <2>2. m[i] \in ToSet(m) /\ w[i] \in ToSet(w)
      BY <1>3, <2>1 DEF ToSet
    <2>3. VecMap_get_cloned(m, k) = m[i][2]
      BY <2>1, <2>2, GetCloned
    <2>4. VecMap_get_cloned(w, k) = w[i][2]
      BY <1>3, <1>4, <2>1, <2>2, GetCloned
    <2>5. QED
      BY <1>3, <2>3, <2>4
  <1>7. QED
    BY <1>4, <1>5, <1>6

(* The ids and the kinds of the kernel are ordered.                        *)
LEMMA KernelOrders ==
    /\ HasTexts(AgentId) /\ HasTexts(ToolId) /\ HasTexts(InvocationId)
    /\ HasTexts(AttestationId) /\ HasTexts(CrossingId)
    /\ HasTags(CapKind) /\ HasTags(EgressKind)
    /\ ConfLevel \subseteq Nat /\ IntegLevel \subseteq Nat
  BY OrderAssumption DEF HasTexts, HasTags, ConfLevel, IntegLevel

(* What is read at a key of a map into sets.                               *)
LEMMA SetsAtKeys ==
    ASSUME NEW L, NEW m \in VMap(AgentId, USeq(L))
    PROVE  \A a \in Keys(m) : /\ a \in AgentId
                              /\ SetsOf(m)[a] = ToSet(VecMap_get_cloned(m, a))
                              /\ VecMap_get_cloned(m, a) \in USeq(L)
  <1> TAKE a \in Keys(m)
  <1>1. a \in AgentId /\ VecMap_get_cloned(m, a) \in USeq(L) /\ VecMap_contains_key(m, a)
    BY GetCloned, IndexOf
  <1>2. QED
    BY <1>1 DEF SetsOf, VecMap_get_set_or_empty

(* No key is left behind with an empty set, except where it is kept.       *)
KeysAreUsed(m, kept) == Keys(m) = kept \cup {a \in AgentId : SetsOf(m)[a] # {}}

(* The tables of capabilities and of levels.                               *)
LEMMA SetsShown ==
    ASSUME NEW L, NEW m \in VMap(AgentId, USeq(L)), NEW kept, KeysAreUsed(m, kept)
    PROVE  /\ HasTags(L) => sort_string_map(with_values(m, sort_tags)) =
                               TableOfSets(SetsOf(m), kept, TagsOf)
           /\ L \subseteq Nat => sort_string_map(with_values(m, sort_levels)) =
                               TableOfSets(SetsOf(m), kept, LevelsOf)
  <1> DEFINE n == Cardinality(Keys(m))
             l == ListOf(Keys(m))
  <1>1. HasTexts(AgentId)
    BY KernelOrders
  <1>2. \A i \in DOMAIN m : m[i][2] \in USeq(L)
    <2>1. MapFacts(m, AgentId, USeq(L))
      BY MapParts
    <2>2. QED
      BY <2>1 DEF MapFacts
  <1>3. Keys(m) = kept \cup {a \in AgentId : SetsOf(m)[a] # {}}
    BY DEF KeysAreUsed
  <1>4. ASSUME HasTags(L)
        PROVE  sort_string_map(with_values(m, sort_tags)) = TableOfSets(SetsOf(m), kept, TagsOf)
    <2> DEFINE g == [v \in USeq(L) |-> sort_tags(v)]
               W == {sort_tags(v) : v \in USeq(L)}
               w == with_values(m, sort_tags)
    <2>1. w = [i \in DOMAIN m |-> <<m[i][1], g[m[i][2]]>>]
      BY <1>2 DEF with_values
    <2>2. g \in [USeq(L) -> W] /\ \A v \in USeq(L) : g[v] = sort_tags(v)
      OBVIOUS
    <2> HIDE DEF g, W, w
    <2>3. /\ w \in VMap(AgentId, W) /\ Keys(w) = Keys(m)
          /\ \A k \in Keys(m) : VecMap_get_cloned(w, k) = g[VecMap_get_cloned(m, k)]
      BY <2>1, <2>2, NewValues
    <2>4. /\ \A i \in 1 .. n : l[i] \in Keys(m)
          /\ sort_string_map(w) = [i \in 1 .. n |-> <<l[i], VecMap_get_cloned(w, l[i])>>]
      BY <1>1, <2>3, MapSorted
    <2>5. \A k \in Keys(m) : VecMap_get_cloned(w, k) = TagsOf(SetsOf(m)[k])
      <3> TAKE k \in Keys(m)
      <3>1. SetsOf(m)[k] = ToSet(VecMap_get_cloned(m, k)) /\ VecMap_get_cloned(m, k) \in USeq(L)
        BY SetsAtKeys
      <3>2. sort_tags(VecMap_get_cloned(m, k)) = TagsOf(ToSet(VecMap_get_cloned(m, k)))
        BY <1>4, <3>1, VectorsSorted
      <3>3. QED
        BY <2>2, <2>3, <3>1, <3>2
    <2>6. TableOfSets(SetsOf(m), kept, TagsOf) =
             [i \in 1 .. n |-> <<l[i], TagsOf(SetsOf(m)[l[i]])>>]
      BY <1>3 DEF TableOfSets, TableOf
    <2> HIDE DEF n, l
    <2>7. sort_string_map(w) = [i \in 1 .. n |-> <<l[i], TagsOf(SetsOf(m)[l[i]])>>]
      BY <2>4, <2>5
    <2>8. QED
      BY <2>6, <2>7 DEF w
  <1>5. ASSUME L \subseteq Nat
        PROVE  sort_string_map(with_values(m, sort_levels)) = TableOfSets(SetsOf(m), kept, LevelsOf)
    <2> DEFINE g == [v \in USeq(L) |-> sort_levels(v)]
               W == {sort_levels(v) : v \in USeq(L)}
               w == with_values(m, sort_levels)
    <2>1. w = [i \in DOMAIN m |-> <<m[i][1], g[m[i][2]]>>]
      BY <1>2 DEF with_values
    <2>2. g \in [USeq(L) -> W] /\ \A v \in USeq(L) : g[v] = sort_levels(v)
      OBVIOUS
    <2> HIDE DEF g, W, w
    <2>3. /\ w \in VMap(AgentId, W) /\ Keys(w) = Keys(m)
          /\ \A k \in Keys(m) : VecMap_get_cloned(w, k) = g[VecMap_get_cloned(m, k)]
      BY <2>1, <2>2, NewValues
    <2>4. /\ \A i \in 1 .. n : l[i] \in Keys(m)
          /\ sort_string_map(w) = [i \in 1 .. n |-> <<l[i], VecMap_get_cloned(w, l[i])>>]
      BY <1>1, <2>3, MapSorted
    <2>5. \A k \in Keys(m) : VecMap_get_cloned(w, k) = LevelsOf(SetsOf(m)[k])
      <3> TAKE k \in Keys(m)
      <3>1. SetsOf(m)[k] = ToSet(VecMap_get_cloned(m, k)) /\ VecMap_get_cloned(m, k) \in USeq(L)
        BY SetsAtKeys
      <3>2. sort_levels(VecMap_get_cloned(m, k)) = LevelsOf(ToSet(VecMap_get_cloned(m, k)))
        BY <1>5, <3>1, VectorsSorted
      <3>3. QED
        BY <2>2, <2>3, <3>1, <3>2
    <2>6. TableOfSets(SetsOf(m), kept, LevelsOf) =
             [i \in 1 .. n |-> <<l[i], LevelsOf(SetsOf(m)[l[i]])>>]
      BY <1>3 DEF TableOfSets, TableOf
    <2> HIDE DEF n, l
    <2>7. sort_string_map(w) = [i \in 1 .. n |-> <<l[i], LevelsOf(SetsOf(m)[l[i]])>>]
      BY <2>4, <2>5
    <2>8. QED
      BY <2>6, <2>7 DEF w
  <1>6. QED
    BY <1>4, <1>5

(* A record is shown by what its vectors stand for.                        *)
LEMMA RecordShown ==
    ASSUME NEW j \in PendingV \cup ChallengeV
    PROVE  record_from_kernel(j) = ShownRecord(RecordOf(j))
  <1>1. /\ j.policy \in PolicyV /\ j.egress \in USeq(EgressKind)
        /\ j.policy.required_caps \in USeq(CapKind)
        /\ j.policy.declared_egress \in USeq(EgressKind)
    BY DEF PendingV, ChallengeV, PolicyV
  <1>2. /\ sort_tags(j.egress) = TagsOf(ToSet(j.egress))
        /\ sort_tags(j.policy.required_caps) = TagsOf(ToSet(j.policy.required_caps))
        /\ sort_tags(j.policy.declared_egress) = TagsOf(ToSet(j.policy.declared_egress))
    BY <1>1, KernelOrders, VectorsSorted
  <1>3. policy_from_kernel(j.policy) = ShownPolicy(PolicyOf(j.policy))
    BY <1>1, <1>2 DEF policy_from_kernel, PolicyOf, PolicyV, ShownPolicy
  <1> DEFINE P == PolicyOf(j.policy)
             G == ToSet(j.egress)
  <1>4. CASE j \in PendingV
    <2>1. record_from_kernel(j) =
             [agent |-> j.agent, policy |-> policy_from_kernel(j.policy),
              egress |-> sort_tags(j.egress), admission |-> j.admission,
              disposition |-> j.disposition, authorized |-> j.authorized,
              quarantined |-> j.quarantined]
      <3>1. record_from_kernel(j) \in
               [agent : {j.agent}, policy : {policy_from_kernel(j.policy)},
                egress : {sort_tags(j.egress)}, admission : {j.admission},
                disposition : {j.disposition}, authorized : {j.authorized},
                quarantined : {j.quarantined}]
        BY <1>4 DEF record_from_kernel, PendingV
      <3>2. QED
        BY <3>1
    <2>2. RecordOf(j) =
             [agent |-> j.agent, policy |-> P, egress |-> G,
              admission |-> j.admission, disposition |-> j.disposition,
              authorized |-> j.authorized, quarantined |-> j.quarantined]
      BY <1>4, RecordOfFields
    <2> HIDE DEF P, G
    <2>3. ShownRecord(RecordOf(j)) =
             [agent |-> j.agent, policy |-> ShownPolicy(P), egress |-> TagsOf(G),
              admission |-> j.admission, disposition |-> j.disposition,
              authorized |-> j.authorized, quarantined |-> j.quarantined]
      <3>1. ShownRecord(RecordOf(j)) \in
               [agent : {j.agent}, policy : {ShownPolicy(P)}, egress : {TagsOf(G)},
                admission : {j.admission}, disposition : {j.disposition},
                authorized : {j.authorized}, quarantined : {j.quarantined}]
        <4> DEFINE R == RecordOf(j)
        <4>1. R \in [agent : {j.agent}, policy : {P}, egress : {G}, admission : {j.admission},
                     disposition : {j.disposition}, authorized : {j.authorized},
                     quarantined : {j.quarantined}]
          BY <2>2
        <4> HIDE DEF R
        <4>2. R.policy = P /\ R.egress = G
          BY <4>1
        <4>3. ShownRecord(R) = [R EXCEPT !.policy = ShownPolicy(P), !.egress = TagsOf(G)]
          BY <4>2 DEF ShownRecord
        <4>4. QED
          BY <4>1, <4>3 DEF R
      <3>2. QED
        BY <3>1
    <2>4. QED
      BY <1>2, <1>3, <2>1, <2>3 DEF P, G
  <1>5. CASE j \in ChallengeV
    <2>1. record_from_kernel(j) =
             [challenge |-> j.challenge, agent |-> j.agent,
              policy |-> policy_from_kernel(j.policy),
              egress |-> sort_tags(j.egress), args_hash |-> j.args_hash,
              authorized |-> j.authorized]
      <3>1. record_from_kernel(j) \in
               [challenge : {j.challenge}, agent : {j.agent},
                policy : {policy_from_kernel(j.policy)},
                egress : {sort_tags(j.egress)}, args_hash : {j.args_hash},
                authorized : {j.authorized}]
        BY <1>5 DEF record_from_kernel, ChallengeV
      <3>2. QED
        BY <3>1
    <2>2. RecordOf(j) =
             [challenge |-> j.challenge, agent |-> j.agent, policy |-> P,
              egress |-> G, args_hash |-> j.args_hash,
              authorized |-> j.authorized]
      BY <1>5, RecordOfFields
    <2> HIDE DEF P, G
    <2>3. ShownRecord(RecordOf(j)) =
             [challenge |-> j.challenge, agent |-> j.agent,
              policy |-> ShownPolicy(P), egress |-> TagsOf(G),
              args_hash |-> j.args_hash, authorized |-> j.authorized]
      <3>1. ShownRecord(RecordOf(j)) \in
               [challenge : {j.challenge}, agent : {j.agent},
                policy : {ShownPolicy(P)}, egress : {TagsOf(G)},
                args_hash : {j.args_hash}, authorized : {j.authorized}]
        <4> DEFINE R == RecordOf(j)
        <4>1. R \in [challenge : {j.challenge}, agent : {j.agent}, policy : {P}, egress : {G},
                     args_hash : {j.args_hash}, authorized : {j.authorized}]
          BY <2>2
        <4> HIDE DEF R
        <4>2. R.policy = P /\ R.egress = G
          BY <4>1
        <4>3. ShownRecord(R) = [R EXCEPT !.policy = ShownPolicy(P), !.egress = TagsOf(G)]
          BY <4>2 DEF ShownRecord
        <4>4. QED
          BY <4>1, <4>3 DEF R
      <3>2. QED
        BY <3>1
    <2>4. QED
      BY <1>2, <1>3, <2>1, <2>3 DEF P, G
  <1>6. QED
    BY <1>4, <1>5

(* The tables of records.                                                  *)
LEMMA RecordsShown ==
    ASSUME NEW V \in {PendingV, ChallengeV}, NEW m \in VMap(InvocationId, V)
    PROVE  sort_string_map(with_values(m, record_from_kernel)) =
              TableOf(DOMAIN RecordsOf(m), LAMBDA i : ShownRecord(RecordsOf(m)[i]))
  <1> DEFINE n == Cardinality(Keys(m))
             l == ListOf(Keys(m))
             g == [v \in V |-> record_from_kernel(v)]
             W == {record_from_kernel(v) : v \in V}
             w == with_values(m, record_from_kernel)
  <1>1. HasTexts(InvocationId)
    BY KernelOrders
  <1>2. \A i \in DOMAIN m : m[i][2] \in V
    <2>1. MapFacts(m, InvocationId, V)
      BY MapParts
    <2>2. QED
      BY <2>1 DEF MapFacts
  <1>3. w = [i \in DOMAIN m |-> <<m[i][1], g[m[i][2]]>>]
    BY <1>2 DEF with_values
  <1>4. g \in [V -> W] /\ \A v \in V : g[v] = record_from_kernel(v)
    OBVIOUS
  <1> HIDE DEF g, W, w
  <1>5. /\ w \in VMap(InvocationId, W) /\ Keys(w) = Keys(m)
        /\ \A k \in Keys(m) : VecMap_get_cloned(w, k) = g[VecMap_get_cloned(m, k)]
    BY <1>3, <1>4, NewValues
  <1>6. /\ \A i \in 1 .. n : l[i] \in Keys(m)
        /\ sort_string_map(w) = [i \in 1 .. n |-> <<l[i], VecMap_get_cloned(w, l[i])>>]
    BY <1>1, <1>5, MapSorted
  <1>7. \A k \in Keys(m) : VecMap_get_cloned(w, k) = ShownRecord(RecordsOf(m)[k])
    <2> TAKE k \in Keys(m)
    <2>1. VecMap_get_cloned(m, k) \in V
      BY GetCloned
    <2>2. VecMap_get_cloned(m, k) \in PendingV \cup ChallengeV
      BY <2>1
    <2>3. record_from_kernel(VecMap_get_cloned(m, k)) =
             ShownRecord(RecordOf(VecMap_get_cloned(m, k)))
      BY <2>2, RecordShown
    <2>4. RecordsOf(m)[k] = RecordOf(VecMap_get_cloned(m, k))
      BY DEF RecordsOf
    <2>5. QED
      BY <1>4, <1>5, <2>1, <2>3, <2>4
  <1>8. DOMAIN RecordsOf(m) = Keys(m)
    BY DEF RecordsOf
  <1>9. TableOf(DOMAIN RecordsOf(m), LAMBDA i : ShownRecord(RecordsOf(m)[i])) =
           [i \in 1 .. n |-> <<l[i], ShownRecord(RecordsOf(m)[l[i]])>>]
    BY <1>8 DEF TableOf
  <1> HIDE DEF n, l
  <1>10. sort_string_map(w) = [i \in 1 .. n |-> <<l[i], ShownRecord(RecordsOf(m)[l[i]])>>]
    BY <1>6, <1>7
  <1>11. QED
    BY <1>9, <1>10 DEF w

(* The table of parents and the list of grants.                            *)
LEMMA MapsShown ==
    ASSUME VecTypeOK
    PROVE  /\ sort_string_map(agent_parent) =
                 TableOf(Keys(agent_parent), LAMBDA c : MapOf(agent_parent)[c])
           /\ LET grants == MapOf(crossing_grants)
                  entries == {<<g, grants[g]>> : g \in DOMAIN grants}
              IN  sort_grants(crossing_grants) = Ascending(entries, ByGrantKey(entries))
  <1>1. sort_string_map(agent_parent) =
           TableOf(Keys(agent_parent), LAMBDA c : MapOf(agent_parent)[c])
    <2> DEFINE m == agent_parent
               l == ListOf(Keys(m))
               n == Cardinality(Keys(m))
    <2>1. m \in VMap(AgentId, AgentId) /\ HasTexts(AgentId)
      BY KernelOrders DEF VecTypeOK
    <2> HIDE DEF m
    <2>2. /\ \A i \in 1 .. n : l[i] \in Keys(m)
          /\ sort_string_map(m) = [i \in 1 .. n |-> <<l[i], VecMap_get_cloned(m, l[i])>>]
      BY <2>1, MapSorted
    <2>3. \A k \in Keys(m) : MapOf(m)[k] = VecMap_get_cloned(m, k)
      BY DEF MapOf
    <2>4. TableOf(Keys(m), LAMBDA c : MapOf(m)[c]) = [i \in 1 .. n |-> <<l[i], MapOf(m)[l[i]]>>]
      BY DEF TableOf
    <2> HIDE DEF l, n
    <2>5. sort_string_map(m) = [i \in 1 .. n |-> <<l[i], MapOf(m)[l[i]]>>]
      BY <2>2, <2>3
    <2>6. QED
      BY <2>4, <2>5 DEF m
  <1> DEFINE m == crossing_grants
             grants == MapOf(m)
             entries == {<<g, grants[g]>> : g \in DOMAIN grants}
  <1>2. sort_grants(m) = Ascending(entries, ByGrantKey(entries))
    <2>1. m \in VMap(CrossingKey, GrantV)
      BY DEF VecTypeOK
    <2> HIDE DEF m
    <2>2. DOMAIN grants = Keys(m) /\ \A g \in Keys(m) : grants[g] = VecMap_get_cloned(m, g)
      BY DEF MapOf
    <2>3. entries = ToSet(m)
      <3>1. \A g \in Keys(m) : <<g, VecMap_get_cloned(m, g)>> \in ToSet(m)
        BY <2>1, GetCloned
      <3>2. \A e \in ToSet(m) : e[1] \in Keys(m) /\ e = <<e[1], VecMap_get_cloned(m, e[1])>>
        BY <2>1, EntryIs
      <3> HIDE DEF grants
      <3>3. entries \subseteq ToSet(m)
        BY <2>2, <3>1
      <3>4. ASSUME NEW e \in ToSet(m) PROVE e \in entries
        BY <2>2, <3>2
      <3>5. QED
        BY <3>3, <3>4
    <2>4. StrictlyOrders(ByGrantKey(ToSet(m)), ToSet(m)) /\ m \in USeq(CrossingKey \X GrantV)
      BY <2>1, EntriesOrdered, MapIsSet
    <2>5. sort_grants(m) = Ascending(ToSet(m), ByGrantKey(ToSet(m)))
      BY <2>4, SortAscends DEF sort_grants
    <2> HIDE DEF entries
    <2>6. QED
      BY <2>3, <2>5
  <1>3. QED
    BY <1>1, <1>2

---------------------------------------------------------------------------
(* Every key of a map into sets has a set with members, except those that  *)
(* are kept, which are there.                                              *)
KeysFilled(m, kept) ==
    /\ kept \subseteq Keys(m)
    /\ \A e \in ToSet(m) : e[1] \in kept \/ ToSet(e[2]) # {}

(* So the keys that are there are those that are used.                     *)
LEMMA FilledIsUsed ==
    ASSUME NEW L, NEW m \in VMap(AgentId, USeq(L)), NEW kept, KeysFilled(m, kept)
    PROVE  KeysAreUsed(m, kept)
  <1>1. ASSUME NEW a \in Keys(m)
        PROVE  a \in kept \cup {b \in AgentId : SetsOf(m)[b] # {}}
    <2>1. /\ a \in AgentId /\ <<a, VecMap_get_cloned(m, a)>> \in ToSet(m)
          /\ SetsOf(m)[a] = ToSet(VecMap_get_cloned(m, a))
      BY GetCloned, SetsAtKeys
    <2>2. a \in kept \/ ToSet(VecMap_get_cloned(m, a)) # {}
      BY <2>1 DEF KeysFilled
    <2>3. QED
      BY <2>1, <2>2
  <1>2. ASSUME NEW a \in AgentId, SetsOf(m)[a] # {}
        PROVE  a \in Keys(m)
    <2>1. VecMap_get_set_or_empty(m, a) # << >>
      BY <1>2, EmptySet DEF SetsOf
    <2>2. VecMap_contains_key(m, a)
      BY <2>1 DEF VecMap_get_set_or_empty, VecSet_new
    <2>3. QED
      BY <2>2, IndexOf
  <1>3. kept \subseteq Keys(m)
    BY DEF KeysFilled
  <1>4. QED
    BY <1>1, <1>2, <1>3 DEF KeysAreUsed

(* Adding to a set and removing a key leave no empty set behind.           *)
LEMMA FilledStays ==
    ASSUME NEW L, NEW m \in VMap(AgentId, USeq(L)), NEW k \in AgentId, NEW kept,
           KeysFilled(m, kept)
    PROVE  /\ \A x \in L : KeysFilled(VecMap_insert_into(m, k, x), kept)
           /\ \A list \in Seq(L) : KeysFilled(release(m, k, list), kept)
           /\ k \notin kept => KeysFilled(VecMap_remove(m, k), kept)
  <1>1. ASSUME NEW w \in VMap(AgentId, USeq(L)), KeysFilled(w, kept), NEW x \in L
        PROVE  /\ VecMap_insert_into(w, k, x) \in VMap(AgentId, USeq(L))
               /\ KeysFilled(VecMap_insert_into(w, k, x), kept)
    <2> DEFINE old == VecMap_get_set_or_empty(w, k)
               v == VecSet_insert(old, x)
    <2>1. old \in USeq(L)
      BY ReadSet
    <2> HIDE DEF old
    <2>2. v \in USeq(L) /\ x \in ToSet(v)
      BY <2>1, InsertSet
    <2> HIDE DEF v
    <2>3. VecMap_insert_into(w, k, x) = VecMap_insert(w, k, v)
      BY DEF VecMap_insert_into, v, old
    <2>4. /\ ToSet(VecMap_insert(w, k, v)) = {e \in ToSet(w) : e[1] # k} \cup {<<k, v>>}
          /\ Keys(VecMap_insert(w, k, v)) = Keys(w) \cup {k}
      BY <2>2, InsertMap, GetAfterInsert
    <2>5. KeysFilled(VecMap_insert(w, k, v), kept)
      BY <1>1, <2>2, <2>4 DEF KeysFilled
    <2>6. QED
      BY <2>3, <2>5, InsertInto
  <1>2. ASSUME NEW list \in Seq(L)
        PROVE  KeysFilled(release(m, k, list), kept)
    <2> DEFINE C == {w \in VMap(AgentId, USeq(L)) : KeysFilled(w, kept)}
    <2>1. m \in C
      OBVIOUS
    <2>2. \A w \in C \cap VMap(AgentId, USeq(L)), x \in L : VecMap_insert_into(w, k, x) \in C
      BY <1>1
    <2>3. release(m, k, list) \in C
      <3> HIDE DEF C
      <3>1. QED
        BY <2>1, <2>2, Released
    <2>4. QED
      BY <2>3
  <1>3. ASSUME k \notin kept PROVE KeysFilled(VecMap_remove(m, k), kept)
    <2> DEFINE w == VecMap_remove(m, k)
    <2>1. w \in VMap(AgentId, USeq(L)) /\ ToSet(w) = {e \in ToSet(m) : e[1] # k}
      BY RemoveMap
    <2>2. Keys(w) = {e[1] : e \in ToSet(w)} /\ Keys(m) = {e[1] : e \in ToSet(m)}
      BY <2>1, KeysAre
    <2> HIDE DEF w
    <2>3. kept \subseteq Keys(w)
      BY <1>3, <2>1, <2>2 DEF KeysFilled
    <2>4. \A e \in ToSet(w) : e[1] \in kept \/ ToSet(e[2]) # {}
      BY <2>1 DEF KeysFilled
    <2>5. QED
      BY <2>3, <2>4 DEF KeysFilled, w
  <1>4. QED
    BY <1>1, <1>2, <1>3

(* An agent has an entry only while it holds something; Root keeps its     *)
(* entry.                                                                  *)
NoneLeftBehind ==
    /\ KeysFilled(agent_cap, {Root})
    /\ KeysFilled(taint_levels, {})
    /\ KeysFilled(integ_levels, {})

(* The maps start with Root's entry alone.                                 *)
LEMMA NoneLeftInit == Init => NoneLeftBehind
  <1> SUFFICES ASSUME Init PROVE NoneLeftBehind
    OBVIOUS
  <1>1. KeysFilled(<< >>, {})
    BY DEF KeysFilled, ToSet
  <1>2. KeysFilled(agent_cap, {Root})
    <2> DEFINE caps == VecSet_from_iter(CapOrder)
    <2>1. caps \in USeq(CapKind)
      BY VecInputsAssumption, FromIterSet
    <2>2. << >> \in VMap(AgentId, USeq(CapKind)) /\ ToSet(<< >>) = {}
      BY EmptyVMap
    <2>3. agent_cap = VecMap_insert(<< >>, Root, caps)
      BY DEF Init, VecMap_new
    <2> HIDE DEF caps
    <2>4. ToSet(agent_cap) = {<<Root, caps>>} /\ agent_cap \in VMap(AgentId, USeq(CapKind))
      BY <2>1, <2>2, <2>3, RootAssumption, InsertMap
    <2>5. Keys(agent_cap) = {e[1] : e \in ToSet(agent_cap)}
      BY <2>4, KeysAre
    <2>6. QED
      BY <2>4, <2>5 DEF KeysFilled
  <1>3. QED
    BY <1>1, <1>2 DEF Init, NoneLeftBehind, VecMap_new

(* Destroying an agent takes its entries with it.                          *)
LEMMA DestroyLeavesNone ==
    ASSUME VecTypeOK, NoneLeftBehind, NEW agent \in AgentId, agent # Root, destroy(agent)
    PROVE  NoneLeftBehind'
  <1>1. /\ KeysFilled(VecMap_remove(agent_cap, agent), {Root})
        /\ KeysFilled(VecMap_remove(taint_levels, agent), {})
        /\ KeysFilled(VecMap_remove(integ_levels, agent), {})
    BY FilledStays DEF VecTypeOK, NoneLeftBehind
  <1>2. QED
    BY <1>1 DEF NoneLeftBehind, destroy

(* No transition leaves an entry behind.                                   *)
LEMMA NoneLeftNext == VecTypeOK /\ NoneLeftBehind /\ [Next]_vars => NoneLeftBehind'
  <1> SUFFICES ASSUME VecTypeOK, NoneLeftBehind, [Next]_vars PROVE NoneLeftBehind'
    OBVIOUS
  <1> USE DEF agentVars, labelVars, consumedVars
  <1>1. ASSUME UNCHANGED <<agentVars, labelVars>> PROVE NoneLeftBehind'
    BY <1>1 DEF NoneLeftBehind
  <1>2. ASSUME UNCHANGED agentVars,
               NEW a \in AgentId, NEW confs \in Seq(ConfLevel), NEW integs \in Seq(IntegLevel),
               taint_levels' = release(taint_levels, a, confs),
               integ_levels' = release(integ_levels, a, integs)
        PROVE  NoneLeftBehind'
    <2>1. /\ KeysFilled(release(taint_levels, a, confs), {})
          /\ KeysFilled(release(integ_levels, a, integs), {})
      BY FilledStays DEF VecTypeOK, NoneLeftBehind
    <2>2. QED
      BY <1>2, <2>1 DEF NoneLeftBehind
  <1>3. ASSUME UNCHANGED agentVars,
               NEW a \in AgentId, NEW c \in ConfLevel, NEW i \in IntegLevel,
               taint_levels' = VecMap_insert_into(taint_levels, a, c),
               integ_levels' = VecMap_insert_into(integ_levels, a, i)
        PROVE  NoneLeftBehind'
    <2>1. /\ KeysFilled(VecMap_insert_into(taint_levels, a, c), {})
          /\ KeysFilled(VecMap_insert_into(integ_levels, a, i), {})
      BY FilledStays DEF VecTypeOK, NoneLeftBehind
    <2>2. QED
      BY <1>3, <2>1 DEF NoneLeftBehind
  <1>4. ASSUME NEW tool \in ToolId, register_tool(tool) \/ unregister_tool(tool)
        PROVE  NoneLeftBehind'
    BY <1>1, <1>4 DEF register_tool, unregister_tool
  <1>5. ASSUME NEW a \in AgentId, NEW b \in AgentId, delegate(a, b)
        PROVE  NoneLeftBehind'
    BY <1>5, DestroyLeavesNone DEF delegate, K!delegable
  <1>6. ASSUME NEW b \in AgentId, b # Root, clear_agent(b)
        PROVE  NoneLeftBehind'
    BY <1>6, DestroyLeavesNone DEF clear_agent
  <1>7. ASSUME NEW a \in AgentId, NEW b \in AgentId, NEW cap \in CapKind,
               grant_capability(a, b, cap)
        PROVE  NoneLeftBehind'
    <2>1. KeysFilled(VecMap_insert_into(agent_cap, b, cap), {Root})
      BY FilledStays DEF VecTypeOK, NoneLeftBehind
    <2>2. QED
      BY <1>7, <2>1 DEF NoneLeftBehind, grant_capability
  <1>8. ASSUME NEW a \in AgentId, NEW b \in AgentId, NEW d \in AssignmentDigest,
               NEW n \in GrantSizes, grant_crossing(a, b, d, n)
        PROVE  NoneLeftBehind'
    BY <1>1, <1>8 DEF grant_crossing
  <1>9. ASSUME NEW a \in AgentId, NEW src \in Maybe(AgentId), NEW p \in Provenances,
               ingest(a, src, p[1], p[2])
        PROVE  NoneLeftBehind'
    <2>1. p[1] \in ConfLevel /\ p[2] \in IntegLevel
      BY VecInputsAssumption
    <2>2. QED
      BY <1>3, <1>9, <2>1 DEF ingest
  <1>10. ASSUME NEW inv \in InvocationId, NEW outcome \in Outcome, NEW att \in Maybe(Resolutions),
                settle_invocation(inv, outcome, att)
         PROVE  NoneLeftBehind'
    <2> DEFINE j == VecMap_get_cloned(pending, inv)
    <2>1. inv \in Keys(pending)
      BY <1>10 DEF settle_invocation, K!settleable, RecordsOf
    <2>2. j \in PendingV
      BY <2>1, GetCloned DEF VecTypeOK
    <2>3. /\ \/ UNCHANGED labelVars
             \/ /\ taint_levels' = VecMap_insert_into(taint_levels, j.agent, j.policy.output_conf)
                /\ integ_levels' = VecMap_insert_into(integ_levels, j.agent, j.policy.output_integ)
          /\ UNCHANGED agentVars
      BY <1>10 DEF settle_invocation
    <2>4. j.agent \in AgentId /\ j.policy.output_conf \in ConfLevel /\ j.policy.output_integ \in IntegLevel
      BY <2>2 DEF PendingV, PolicyV
    <2> HIDE DEF j
    <2>5. QED
      BY <1>1, <1>3, <2>3, <2>4
  <1>11. ASSUME NEW inv \in InvocationId, NEW att \in Inspections, authorize_inspected(inv, att)
         PROVE  NoneLeftBehind'
    BY <1>1, <1>11 DEF authorize_inspected
  <1>12. ASSUME NEW inv \in InvocationId, NEW a \in AgentId, NEW chal \in ChallengeId,
                NEW policy \in PolicyN, NEW egress \in EgressLists, NEW ah \in ContentHash,
                NEW authorized \in BOOLEAN,
                begin_invocation(a, inv, chal, policy, egress, ah, authorized)
         PROVE  NoneLeftBehind'
    BY <1>1, <1>12 DEF begin_invocation
  <1>13. ASSUME NEW q \in CrossInputs, cross_output(q)
         PROVE  NoneLeftBehind'
    <2> DEFINE levels(given, entries) ==
                  CASE K!branch(q) = "endorsed" -> <<given>>
                    [] K!branch(q) = "unendorsed" -> VecMap_get_set_or_empty(entries, q.src)
                    [] OTHER -> << >>
               confs == levels(q.released_conf, taint_levels)
               integs == levels(q.released_integ, integ_levels)
    <2>1. q.rcv \in AgentId /\ q.released_conf \in ConfLevel /\ q.released_integ \in IntegLevel
      BY VecInputsAssumption DEF CrossInput
    <2>2. /\ VecMap_get_set_or_empty(taint_levels, q.src) \in Seq(ConfLevel)
          /\ VecMap_get_set_or_empty(integ_levels, q.src) \in Seq(IntegLevel)
      BY ReadSet DEF VecTypeOK, USeq
    <2>3. confs \in Seq(ConfLevel) /\ integs \in Seq(IntegLevel)
      BY <2>1, <2>2
    <2>4. /\ taint_levels' = release(taint_levels, q.rcv, confs)
          /\ integ_levels' = release(integ_levels, q.rcv, integs)
          /\ UNCHANGED agentVars
      BY <1>13, Zenon DEF cross_output
    <2> HIDE DEF confs, integs
    <2>5. QED
      BY <1>2, <2>1, <2>3, <2>4
  <1>14. CASE UNCHANGED vars
    BY <1>1, <1>14 DEF vars
  <1>15. QED
    BY <1>4, <1>5, <1>6, <1>7, <1>8, <1>9, <1>10, <1>11, <1>12, <1>13, <1>14
       DEF Next, revoke, cascade_revoke

(* What is shown of vectors that are sets and maps, with nothing left      *)
(* behind in them, is the state they stand for.                            *)
LEMMA ShownIsTheState ==
    ASSUME VecTypeOK, NoneLeftBehind
    PROVE  ProjectionIsTheState
  <1>1. /\ sort_strings(agent_active) = ListOf(ToSet(agent_active))
        /\ sort_strings(consumed_ids) = ListOf(ToSet(consumed_ids))
        /\ sort_strings(consumed_attestations) = ListOf(ToSet(consumed_attestations))
        /\ sort_strings(consumed_crossings) = ListOf(ToSet(consumed_crossings))
        /\ sort_strings(tool_registered) = ListOf(ToSet(tool_registered))
    BY KernelOrders, VectorsSorted DEF VecTypeOK
  <1>2. /\ KeysAreUsed(agent_cap, {Root}) /\ KeysAreUsed(taint_levels, {})
        /\ KeysAreUsed(integ_levels, {})
    BY FilledIsUsed DEF VecTypeOK, NoneLeftBehind
  <1>3. /\ sort_string_map(with_values(agent_cap, sort_tags)) =
               TableOfSets(SetsOf(agent_cap), {Root}, TagsOf)
        /\ sort_string_map(with_values(taint_levels, sort_levels)) =
               TableOfSets(SetsOf(taint_levels), {}, LevelsOf)
        /\ sort_string_map(with_values(integ_levels, sort_levels)) =
               TableOfSets(SetsOf(integ_levels), {}, LevelsOf)
    BY <1>2, KernelOrders, SetsShown DEF VecTypeOK
  <1>4. /\ sort_string_map(with_values(pending, record_from_kernel)) =
               TableOf(DOMAIN RecordsOf(pending), LAMBDA i : ShownRecord(RecordsOf(pending)[i]))
        /\ sort_string_map(with_values(challenges, record_from_kernel)) =
               TableOf(DOMAIN RecordsOf(challenges), LAMBDA i : ShownRecord(RecordsOf(challenges)[i]))
    BY RecordsShown DEF VecTypeOK
  <1>5. QED
    BY <1>1, <1>3, <1>4, MapsShown, Zenon DEF ProjectionIsTheState, StateN

(* What an observer is shown is the state: on every run, for every         *)
(* background and all lists a command may carry, state.rs shows a function *)
(* of the sets and maps the vectors stand for.                             *)
THEOREM ProjectionIsTheStateHolds == Spec => []ProjectionIsTheState
  <1>1. Init => VecTypeOK /\ NoneLeftBehind
    BY VecInit, NoneLeftInit
  <1>2. VecTypeOK /\ NoneLeftBehind /\ [Next]_vars => (VecTypeOK /\ NoneLeftBehind)'
    BY VecNext, NoneLeftNext
  <1>3. VecTypeOK /\ NoneLeftBehind => ProjectionIsTheState
    BY ShownIsTheState
  <1>4. QED
    BY <1>1, <1>2, <1>3, PTL DEF Spec
===========================================================================
