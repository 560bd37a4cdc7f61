---------------------------- MODULE LimitsProofs ----------------------------
(***************************************************************************)
(* The preflight of a command bounds the state it leads to, for every      *)
(* kernel, all limits and all lengths of identities: no accepted command   *)
(* leaves the limits.                                                      *)
(***************************************************************************)
EXTENDS Limits, KernelProofs, FiniteSetTheorems

---------------------------------------------------------------------------
(* Sums over finite sets.  SumFunction takes the elements one by one, in   *)
(* an order of its own; the lemmas show that the order does not matter.    *)

(* The element SumFunction takes first.                                    *)
FirstOf(T) == CHOOSE x \in T : TRUE

(* One step of the sum.                                                    *)
sum_step(w, F, T) == IF T = {} THEN 0 ELSE w[FirstOf(T)] + F[T \ {FirstOf(T)}]

(* The partial sums of w over the sets in D.                               *)
IsSum(w, D, F) == F = [T \in D |-> sum_step(w, F, T)]

(* A set of numbers has a least element.                                   *)
LEMMA LeastNumber ==
    ASSUME NEW S \in SUBSET Nat, S # {}
    PROVE  \E x \in S : \A y \in S : x <= y
  <1> DEFINE R == OpToRel(<, Nat)
  <1>1. IsWellFoundedOn(R, Nat)
    BY NatLessThanWellFounded
  <1> HIDE DEF R
  <1>2. PICK x \in S : \A y \in S : <<y, x>> \notin R
    BY <1>1, WFMin
  <1>3. \A y \in S : ~(y < x)
    BY <1>2 DEF R, OpToRel
  <1>4. QED
    BY <1>2, <1>3

(* Of some subsets of a finite set, one is smallest: none of them is part  *)
(* of it.                                                                  *)
LEMMA SmallestSubset ==
    ASSUME NEW S, IsFiniteSet(S), NEW B \in SUBSET SUBSET S, B # {}
    PROVE  \E T \in B : \A x \in T : T \ {x} \notin B
  <1> DEFINE N == {Cardinality(T) : T \in B}
  <1>1. \A T \in B : IsFiniteSet(T) /\ Cardinality(T) \in Nat
    BY FS_Subset, FS_CardinalityType
  <1>2. N \in SUBSET Nat /\ N # {}
    BY <1>1
  <1>3. PICK n \in N : \A m \in N : n <= m
    <2> HIDE DEF N
    <2>1. QED
      BY <1>2, LeastNumber
  <1>4. PICK T \in B : Cardinality(T) = n
    BY <1>3
  <1>5. ASSUME NEW x \in T
        PROVE  T \ {x} \notin B
    <2>1. Cardinality(T \ {x}) = Cardinality(T) - 1
      BY <1>1, FS_RemoveElement
    <2>2. T \ {x} \in B => n <= Cardinality(T) - 1
      BY <1>3, <2>1
    <2>3. QED
      BY <1>1, <1>4, <2>2
  <1>6. QED
    BY <1>5

(* The partial sums exist.                                                 *)
LEMMA SumExists ==
    ASSUME NEW S, IsFiniteSet(S), NEW w
    PROVE  \E F : IsSum(w, SUBSET S, F)
  <1> DEFINE upto(n) == {T \in SUBSET S : Cardinality(T) <= n}
             bad == {n \in Nat : ~ \E F : IsSum(w, upto(n), F)}
  <1>1. \A T \in SUBSET S : /\ IsFiniteSet(T) /\ Cardinality(T) \in Nat
                            /\ Cardinality(T) <= Cardinality(S)
                            /\ Cardinality(T) = 0 <=> T = {}
    BY FS_Subset, FS_CardinalityType, FS_EmptySet
  <1>2. \A T \in SUBSET S : T # {} =>
            /\ FirstOf(T) \in T
            /\ T \ {FirstOf(T)} \in SUBSET S
            /\ Cardinality(T \ {FirstOf(T)}) = Cardinality(T) - 1
    BY <1>1, FS_RemoveElement DEF FirstOf
  <1>3. bad = {}
    <2>1. SUFFICES ASSUME bad # {} PROVE FALSE
      OBVIOUS
    <2>2. PICK n \in bad : \A m \in bad : n <= m
      <3>1. bad \in SUBSET Nat
        OBVIOUS
      <3> HIDE DEF bad
      <3>2. QED
        BY <2>1, <3>1, LeastNumber
    <2>3. n # 0
      <3> DEFINE F == [T \in upto(0) |-> 0]
      <3>1. \A T \in upto(0) : sum_step(w, F, T) = 0
        BY <1>1 DEF sum_step
      <3>2. IsSum(w, upto(0), F)
        BY <3>1 DEF IsSum
      <3> HIDE DEF F
      <3>3. QED
        BY <2>2, <3>2
    <2>4. n \in Nat /\ n - 1 \in Nat /\ n - 1 \notin bad
      <3>1. n \in Nat
        OBVIOUS
      <3> HIDE DEF bad
      <3>2. QED
        BY <2>2, <2>3, <3>1
    <2>5. PICK F : IsSum(w, upto(n - 1), F)
      BY <2>4
    <2> DEFINE G == [T \in upto(n) |-> sum_step(w, F, T)]
    <2>6. \A T \in upto(n) : T # {} =>
             T \ {FirstOf(T)} \in upto(n - 1) /\ T \ {FirstOf(T)} \in upto(n)
      BY <1>1, <1>2, <2>4
    <2>7. \A T \in upto(n - 1) : T \in upto(n) /\ F[T] = sum_step(w, F, T)
      BY <1>1, <2>4, <2>5 DEF IsSum
    <2>8. \A T \in upto(n - 1) : G[T] = F[T]
      BY <2>7
    <2>9. \A T \in upto(n) : sum_step(w, G, T) = sum_step(w, F, T)
      <3> HIDE DEF G, upto
      <3>1. QED
        BY <2>6, <2>8 DEF sum_step
    <2>10. IsSum(w, upto(n), G)
      BY <2>9 DEF IsSum
    <2> HIDE DEF G, upto
    <2>11. QED
      BY <2>2, <2>10
  <1>4. Cardinality(S) \in Nat /\ upto(Cardinality(S)) = SUBSET S
    BY <1>1
  <1>5. QED
    BY <1>3, <1>4

(* SumFunction is the last partial sum.                                    *)
LEMMA SumIs ==
    ASSUME NEW S, IsFiniteSet(S), NEW w, DOMAIN w = S
    PROVE  \E F : IsSum(w, SUBSET S, F) /\ SumFunction(w) = F[S]
  <1> DEFINE Def(F) == [T \in SUBSET S |->
                          IF T = {} THEN 0
                          ELSE w[CHOOSE x \in T : TRUE] + F[T \ {CHOOSE x \in T : TRUE}]]
             G == CHOOSE F : F = Def(F)
  <1>1. SumFunction(w) = G[S]
    BY DEF SumFunction, SumFunctionOnSet, FoldFunctionOnSet, MapThenFoldSet
  <1>2. \A F : Def(F) = [T \in SUBSET S |-> sum_step(w, F, T)]
    BY DEF sum_step, FirstOf
  <1> HIDE DEF Def
  <1>3. \E F : F = Def(F)
    <2>1. PICK F : IsSum(w, SUBSET S, F)
      BY SumExists
    <2>2. F = Def(F)
      BY <1>2, <2>1 DEF IsSum
    <2>3. QED
      BY <2>2
  <1>4. G = Def(G)
    BY <1>3
  <1> HIDE DEF G
  <1>5. QED
    BY <1>1, <1>2, <1>4 DEF IsSum

(* What the partial sums are, one element at a time.                       *)
LEMMA SumUnfolds ==
    ASSUME NEW S, NEW w, NEW F, IsSum(w, SUBSET S, F)
    PROVE  /\ F[{}] = 0
           /\ \A T \in SUBSET S : T # {} =>
                 /\ FirstOf(T) \in T
                 /\ T \ {FirstOf(T)} \in SUBSET S
                 /\ F[T] = w[FirstOf(T)] + F[T \ {FirstOf(T)}]
  <1>1. \A T \in SUBSET S : F[T] = sum_step(w, F, T)
    BY DEF IsSum
  <1>2. {} \in SUBSET S
    OBVIOUS
  <1>3. \A T \in SUBSET S : T # {} => FirstOf(T) \in T
    BY DEF FirstOf
  <1>4. QED
    BY <1>1, <1>2, <1>3 DEF sum_step

(* Sums of numbers are numbers.                                            *)
LEMMA SumNat ==
    ASSUME NEW S, IsFiniteSet(S), NEW w \in [S -> Nat], NEW F, IsSum(w, SUBSET S, F)
    PROVE  \A T \in SUBSET S : F[T] \in Nat
  <1> DEFINE bad == {T \in SUBSET S : F[T] \notin Nat}
  <1>1. SUFFICES ASSUME bad # {} PROVE FALSE
    OBVIOUS
  <1>2. PICK T \in bad : \A x \in T : T \ {x} \notin bad
    <2>1. bad \in SUBSET SUBSET S
      OBVIOUS
    <2> HIDE DEF bad
    <2>2. QED
      BY <1>1, <2>1, SmallestSubset
  <1>3. T # {}
    <2>1. F[{}] = 0
      BY SumUnfolds
    <2>2. F[T] \notin Nat /\ 0 \in Nat
      BY <1>2
    <2>3. QED
      BY <2>1, <2>2, Zenon
  <1> DEFINE x == FirstOf(T)
  <1>4. /\ x \in T /\ T \ {x} \in SUBSET S
        /\ F[T] = w[x] + F[T \ {x}]
    BY <1>2, <1>3, SumUnfolds
  <1> HIDE DEF x
  <1>5. F[T \ {x}] \in Nat /\ w[x] \in Nat
    BY <1>2, <1>4
  <1>6. QED
    BY <1>2, <1>4, <1>5

(* Any element may be taken first.                                         *)
LEMMA SumAnyFirst ==
    ASSUME NEW S, IsFiniteSet(S), NEW w \in [S -> Nat], NEW F, IsSum(w, SUBSET S, F)
    PROVE  \A T \in SUBSET S : \A x \in T : F[T] = w[x] + F[T \ {x}]
  <1> DEFINE bad == {T \in SUBSET S : \E x \in T : F[T] # w[x] + F[T \ {x}]}
  <1>1. SUFFICES ASSUME bad # {} PROVE FALSE
    OBVIOUS
  <1>2. PICK T \in bad : \A x \in T : T \ {x} \notin bad
    <2>1. bad \in SUBSET SUBSET S
      OBVIOUS
    <2> HIDE DEF bad
    <2>2. QED
      BY <1>1, <2>1, SmallestSubset
  <1>3. PICK x \in T : F[T] # w[x] + F[T \ {x}]
    BY <1>2
  <1> DEFINE y == FirstOf(T)
  <1>4. y \in T /\ T \in SUBSET S /\ F[T] = w[y] + F[T \ {y}]
    <2>1. T \in SUBSET S /\ T # {}
      BY <1>2, <1>3
    <2>2. QED
      BY <2>1, SumUnfolds
  <1> HIDE DEF y
  <1>5. x # y
    BY <1>3, <1>4
  <1> DEFINE U == T \ {x, y}
  <1>6. F[T \ {y}] = w[x] + F[U]
    <2>1. x \in T \ {y} /\ (T \ {y}) \ {x} = U /\ T \ {y} \in SUBSET S
      BY <1>4, <1>5
    <2>2. T \ {y} \notin bad
      BY <1>2, <1>4
    <2>3. QED
      BY <2>1, <2>2
  <1>7. F[T \ {x}] = w[y] + F[U]
    <2>1. y \in T \ {x} /\ (T \ {x}) \ {y} = U /\ T \ {x} \in SUBSET S
      BY <1>4, <1>5
    <2>2. T \ {x} \notin bad
      BY <1>2
    <2>3. QED
      BY <2>1, <2>2
  <1>8. F[U] \in Nat /\ w[x] \in Nat /\ w[y] \in Nat
    <2>1. U \in SUBSET S /\ x \in S /\ y \in S
      BY <1>4
    <2> HIDE DEF U
    <2>2. QED
      BY <2>1, SumNat
  <1> HIDE DEF U
  <1>9. QED
    BY <1>3, <1>4, <1>6, <1>7, <1>8

(* A part sums to no more than the whole.                                  *)
LEMMA SumPart ==
    ASSUME NEW S, IsFiniteSet(S), NEW w \in [S -> Nat], NEW F, IsSum(w, SUBSET S, F),
           NEW T \in SUBSET S
    PROVE  F[T] <= F[S]
  <1> DEFINE bad == {U \in SUBSET S : T \subseteq U /\ ~(F[T] <= F[U])}
  <1>1. SUFFICES ASSUME bad # {} PROVE FALSE
    OBVIOUS
  <1>2. PICK U \in bad : \A x \in U : U \ {x} \notin bad
    <2>1. bad \in SUBSET SUBSET S
      OBVIOUS
    <2> HIDE DEF bad
    <2>2. QED
      BY <1>1, <2>1, SmallestSubset
  <1>3. \A V \in SUBSET S : F[V] \in Nat
    BY SumNat
  <1>4. U # T
    BY <1>2, <1>3
  <1>5. PICK x \in U : x \notin T
    BY <1>2, <1>4
  <1>6. F[U] = w[x] + F[U \ {x}]
    BY <1>2, SumAnyFirst
  <1>7. F[T] <= F[U \ {x}]
    BY <1>2, <1>5
  <1>8. w[x] \in Nat /\ F[U \ {x}] \in Nat /\ F[T] \in Nat /\ U \in SUBSET S
    BY <1>2, <1>3
  <1>9. QED
    BY <1>2, <1>6, <1>7, <1>8

(* The summands of v over a set do not exceed those of w.                  *)
Below(v, w, T) == \A x \in T : v[x] <= w[x]

(* Smaller summands, smaller sums.                                         *)
LEMMA SumBelow ==
    ASSUME NEW S, IsFiniteSet(S), NEW w \in [S -> Nat], NEW F, IsSum(w, SUBSET S, F),
           NEW R, IsFiniteSet(R), NEW v \in [R -> Nat], NEW G, IsSum(v, SUBSET R, G),
           NEW T \in SUBSET S, T \in SUBSET R, Below(v, w, T)
    PROVE  G[T] <= F[T]
  <1> DEFINE bad == {U \in SUBSET T : ~(G[U] <= F[U])}
  <1>1. SUFFICES ASSUME bad # {} PROVE FALSE
    OBVIOUS
  <1>2. PICK U \in bad : \A x \in U : U \ {x} \notin bad
    <2>1. bad \in SUBSET SUBSET S
      OBVIOUS
    <2> HIDE DEF bad
    <2>2. QED
      BY <1>1, <2>1, SmallestSubset
  <1>3. U \in SUBSET S /\ U \in SUBSET R /\ U \in SUBSET T
    BY <1>2
  <1>4. U # {}
    <2>1. F[{}] = 0 /\ G[{}] = 0
      BY SumUnfolds
    <2>2. ~(G[U] <= F[U]) /\ 0 <= 0
      BY <1>2
    <2>3. QED
      BY <2>1, <2>2, Zenon
  <1>5. PICK x \in U : TRUE
    BY <1>4
  <1>6. F[U] = w[x] + F[U \ {x}] /\ G[U] = v[x] + G[U \ {x}]
    BY <1>3, SumAnyFirst
  <1>7. G[U \ {x}] <= F[U \ {x}]
    BY <1>2, <1>3
  <1>8. /\ w[x] \in Nat /\ F[U \ {x}] \in Nat /\ v[x] \in Nat /\ G[U \ {x}] \in Nat
        /\ v[x] <= w[x]
    <2>1. x \in S /\ x \in R /\ x \in T /\ U \ {x} \in SUBSET S /\ U \ {x} \in SUBSET R
      BY <1>3
    <2>2. F[U \ {x}] \in Nat
      BY <2>1, SumNat
    <2>3. G[U \ {x}] \in Nat
      BY <2>1, SumNat
    <2>4. v[x] <= w[x]
      BY <2>1 DEF Below
    <2>5. QED
      BY <2>1, <2>2, <2>3, <2>4
  <1>9. QED
    BY <1>2, <1>6, <1>7, <1>8

(* Sums over a set that shrinks, or gains at most one element.             *)
LEMMA SumGrows ==
    ASSUME NEW S, IsFiniteSet(S), NEW w \in [S -> Nat],
           NEW y, NEW R \in SUBSET (S \cup {y}), NEW v \in [R -> Nat],
           NEW n \in Nat, Below(v, w, R \ {y}), y \in R => v[y] <= n
    PROVE  /\ IsFiniteSet(R) /\ Cardinality(R) \in Nat
           /\ Cardinality(R) <= Cardinality(S) + 1
           /\ SumFunction(w) \in Nat /\ SumFunction(v) \in Nat
           /\ SumFunction(v) <= SumFunction(w) + n
  <1>0. /\ IsFiniteSet(R) /\ Cardinality(R) \in Nat
        /\ Cardinality(R) <= Cardinality(S) + 1
    <2>1. /\ IsFiniteSet(S \cup {y}) /\ Cardinality(S) \in Nat
          /\ Cardinality(S \cup {y}) \in {Cardinality(S), Cardinality(S) + 1}
      BY FS_AddElement, FS_CardinalityType
    <2>2. IsFiniteSet(R) /\ Cardinality(R) <= Cardinality(S \cup {y})
      BY <2>1, FS_Subset
    <2>3. Cardinality(R) \in Nat
      BY <2>2, FS_CardinalityType
    <2>4. QED
      BY <2>1, <2>2, <2>3
  <1>1. DOMAIN w = S /\ DOMAIN v = R
    OBVIOUS
  <1>2. PICK F : IsSum(w, SUBSET S, F) /\ SumFunction(w) = F[S]
    BY <1>1, SumIs
  <1>3. PICK G : IsSum(v, SUBSET R, G) /\ SumFunction(v) = G[R]
    BY <1>0, <1>1, SumIs
  <1> DEFINE T == R \ {y}
  <1>4. T \in SUBSET S /\ T \in SUBSET R /\ S \in SUBSET S /\ R \in SUBSET R
    OBVIOUS
  <1>5. Below(v, w, T)
    OBVIOUS
  <1>6. y \in R => R \ {y} = T
    OBVIOUS
  <1>7. y \notin R => R = T
    OBVIOUS
  <1> HIDE DEF T
  <1>8. F[T] <= F[S] /\ F[T] \in Nat /\ F[S] \in Nat
    BY <1>2, <1>4, SumPart, SumNat
  <1>9. G[T] \in Nat /\ G[R] \in Nat
    BY <1>0, <1>3, <1>4, SumNat
  <1>10. G[T] <= F[T]
    <2>1. IsSum(w, SUBSET S, F) /\ IsSum(v, SUBSET R, G)
      BY <1>2, <1>3
    <2>2. QED
      BY <1>0, <1>4, <1>5, <2>1, SumBelow
  <1>11. y \in R => G[R] = v[y] + G[T] /\ v[y] \in Nat
    BY <1>0, <1>3, <1>4, <1>6, SumAnyFirst
  <1>12. G[R] <= F[S] + n
    <2>1. CASE y \in R
      BY <1>8, <1>9, <1>10, <1>11, <2>1
    <2>2. CASE y \notin R
      BY <1>7, <1>8, <1>9, <1>10, <2>2
    <2>3. QED
      BY <2>1, <2>2
  <1>13. QED
    BY <1>0, <1>2, <1>3, <1>8, <1>9, <1>12

(* Sums over a set that only shrinks.                                      *)
LEMMA SumShrinks ==
    ASSUME NEW S, IsFiniteSet(S), NEW w \in [S -> Nat],
           NEW R \in SUBSET S, NEW v \in [R -> Nat], Below(v, w, R)
    PROVE  /\ IsFiniteSet(R) /\ Cardinality(R) \in Nat /\ Cardinality(R) <= Cardinality(S)
           /\ SumFunction(w) \in Nat /\ SumFunction(v) \in Nat
           /\ SumFunction(v) <= SumFunction(w)
  <1>1. IsFiniteSet(R) /\ Cardinality(R) <= Cardinality(S) /\ Cardinality(R) \in Nat
    BY FS_Subset, FS_CardinalityType
  <1>2. PICK y : y \notin R
    BY NoSetContainsEverything
  <1>3. R \in SUBSET (S \cup {y}) /\ 0 \in Nat
    BY <1>2
  <1>4. /\ SumFunction(w) \in Nat /\ SumFunction(v) \in Nat
        /\ SumFunction(v) <= SumFunction(w) + 0
    <2>1. Below(v, w, R \ {y})
      BY DEF Below
    <2>2. QED
      BY <1>2, <1>3, <2>1, SumGrows
  <1>5. QED
    BY <1>1, <1>4

---------------------------------------------------------------------------
(* Sets of values that lose members.                                       *)
LEMMA SetShrinks ==
    ASSUME NEW S \in SUBSET Opaque, IsFiniteSet(S), NEW R \in SUBSET S
    PROVE  /\ IsFiniteSet(R) /\ Cardinality(R) \in Nat /\ Cardinality(R) <= Cardinality(S)
           /\ Length(R) \in Nat /\ Length(R) <= Length(S)
  <1> DEFINE w == [x \in S |-> Bytes(x)]
             v == [x \in R |-> Bytes(x)]
  <1>1. w \in [S -> Nat] /\ v \in [R -> Nat]
    BY LimitsAssumption
  <1>2. Below(v, w, R)
    BY <1>1 DEF Below
  <1>3. Length(S) = SumFunction(w) /\ Length(R) = SumFunction(v)
    BY DEF Length
  <1> HIDE DEF w, v
  <1>4. QED
    BY <1>1, <1>2, <1>3, SumShrinks

(* Sets of values that may gain one: at most one entry, and the text of    *)
(* the value if it was not there.                                          *)
LEMMA SetGrows ==
    ASSUME NEW S \in SUBSET Opaque, IsFiniteSet(S), NEW y \in Opaque,
           NEW R \in SUBSET (S \cup {y})
    PROVE  /\ IsFiniteSet(R) /\ Cardinality(R) \in Nat
           /\ Cardinality(R) <= Cardinality(S) + NewKey(S, y)
           /\ Cardinality(R) <= Cardinality(S) + 1
           /\ Length(R) \in Nat
           /\ Length(R) <= Length(S) + NewKey(S, y) * Bytes(y)
           /\ Length(R) <= Length(S) + Bytes(y)
  <1>1. Bytes(y) \in Nat
    BY LimitsAssumption
  <1>2. Cardinality(S) \in Nat /\ Length(S) \in Nat
    BY SetShrinks, FS_CardinalityType
  <1>3. CASE y \in S
    <2>1. R \in SUBSET S /\ NewKey(S, y) = 0
      BY <1>3 DEF NewKey
    <2>2. /\ IsFiniteSet(R) /\ Cardinality(R) \in Nat /\ Cardinality(R) <= Cardinality(S)
          /\ Length(R) \in Nat /\ Length(R) <= Length(S)
      BY <2>1, SetShrinks
    <2>3. QED
      BY <1>1, <1>2, <2>1, <2>2
  <1>4. CASE y \notin S
    <2> DEFINE w == [x \in S |-> Bytes(x)]
               v == [x \in R |-> Bytes(x)]
    <2>1. w \in [S -> Nat] /\ v \in [R -> Nat]
      BY LimitsAssumption
    <2>2. Below(v, w, R \ {y})
      BY <2>1 DEF Below
    <2>3. y \in R => v[y] <= Bytes(y)
      BY <1>1
    <2>4. Length(S) = SumFunction(w) /\ Length(R) = SumFunction(v)
      BY DEF Length
    <2> HIDE DEF w, v
    <2>5. /\ IsFiniteSet(R) /\ Cardinality(R) \in Nat
          /\ Cardinality(R) <= Cardinality(S) + 1
          /\ SumFunction(v) \in Nat /\ SumFunction(v) <= SumFunction(w) + Bytes(y)
      BY <1>1, <2>1, <2>2, <2>3, SumGrows
    <2>6. NewKey(S, y) = 1
      BY <1>4 DEF NewKey
    <2>7. QED
      BY <1>1, <2>4, <2>5, <2>6
  <1>5. QED
    BY <1>3, <1>4

---------------------------------------------------------------------------
(* The text of one entry of each map.                                      *)
parent_entry(c, m) == Bytes(c) + Bytes(m[c])

(* A running invocation with its id and its policy.                        *)
pending_entry(i, m) ==
    Bytes(i) + Bytes(m[i].agent) + policy_text(m[i].policy) + admission_text(m[i].admission)

(* An open challenge with its id and its policy.                           *)
challenge_entry(i, m) ==
    Bytes(i) + Bytes(m[i].challenge) + Bytes(m[i].agent) + policy_text(m[i].policy)
    + Bytes(m[i].args_hash)

grant_entry(g) == Bytes(g.agent) + Bytes(g.assignment)

(* Every value a state keeps is opaque text.                               *)
LEMMA OpaqueParts ==
    \A v : \/ v \in AgentId \/ v \in ToolId \/ v \in InvocationId \/ v \in ChallengeId
          \/ v \in AttestationId \/ v \in CrossingId \/ v \in AssignmentDigest
          \/ v \in PolicyDigest \/ v \in ContentHash
            => v \in Opaque /\ Bytes(v) \in Nat
  BY LimitsAssumption DEF Opaque

(* The text of a policy and of an admission.                               *)
LEMMA PolicyText ==
    /\ \A p \in ActionPolicySnapshot : policy_text(p) \in Nat
    /\ \A ad \in Admission : admission_text(ad) \in Nat
  <1>1. \A p \in ActionPolicySnapshot : p.tool \in ToolId /\ p.policy_digest \in PolicyDigest
    BY DEF ActionPolicySnapshot
  <1>2. \A ad \in Admission : ad.kind = "inspected" => ad.att \in AttestationId
    BY DEF Admission
  <1>3. QED
    BY <1>1, <1>2, OpaqueParts DEF policy_text, admission_text

(* The text of an entry is a number.                                       *)
LEMMA EntryText ==
    /\ \A m : IsVecMap(m, AgentId, AgentId) =>
          \A c \in DOMAIN m : parent_entry(c, m) \in Nat
    /\ \A m : IsVecMap(m, InvocationId, PendingInvocation) =>
          \A i \in DOMAIN m : pending_entry(i, m) \in Nat
    /\ \A m : IsVecMap(m, InvocationId, ChallengeScope) =>
          \A i \in DOMAIN m : challenge_entry(i, m) \in Nat
    /\ \A g \in CrossingKey : grant_entry(g) \in Nat
  <1>1. \A m : IsVecMap(m, AgentId, AgentId) =>
          \A c \in DOMAIN m : parent_entry(c, m) \in Nat
    BY OpaqueParts DEF IsVecMap, parent_entry
  <1>2. ASSUME NEW m, IsVecMap(m, InvocationId, PendingInvocation), NEW i \in DOMAIN m
        PROVE  pending_entry(i, m) \in Nat
    <2>1. i \in InvocationId /\ m[i] \in PendingInvocation
      BY <1>2 DEF IsVecMap
    <2>2. /\ m[i].agent \in AgentId /\ m[i].policy \in ActionPolicySnapshot
          /\ m[i].admission \in Admission
      BY <2>1 DEF PendingInvocation
    <2>3. Bytes(i) \in Nat /\ Bytes(m[i].agent) \in Nat
      BY <2>1, <2>2, OpaqueParts
    <2>4. QED
      BY <2>2, <2>3, PolicyText DEF pending_entry
  <1>3. ASSUME NEW m, IsVecMap(m, InvocationId, ChallengeScope), NEW i \in DOMAIN m
        PROVE  challenge_entry(i, m) \in Nat
    <2>1. i \in InvocationId /\ m[i] \in ChallengeScope
      BY <1>3 DEF IsVecMap
    <2>2. /\ m[i].agent \in AgentId /\ m[i].policy \in ActionPolicySnapshot
          /\ m[i].challenge \in ChallengeId /\ m[i].args_hash \in ContentHash
      BY <2>1 DEF ChallengeScope
    <2>3. /\ Bytes(i) \in Nat /\ Bytes(m[i].agent) \in Nat
          /\ Bytes(m[i].challenge) \in Nat /\ Bytes(m[i].args_hash) \in Nat
      BY <2>1, <2>2, OpaqueParts
    <2>4. QED
      BY <2>2, <2>3, PolicyText DEF challenge_entry
  <1>4. \A g \in CrossingKey : grant_entry(g) \in Nat
    BY OpaqueParts DEF CrossingKey, grant_entry
  <1>5. QED
    BY <1>1, <1>2, <1>3, <1>4

(* The delegations: entries are dropped, and one is written.               *)
LEMMA ParentsGrow ==
    ASSUME NEW m, IsVecMap(m, AgentId, AgentId), IsFiniteSet(DOMAIN m),
           NEW n, IsVecMap(n, AgentId, AgentId), NEW y,
           DOMAIN n \subseteq DOMAIN m \cup {y}, \A c \in DOMAIN n \ {y} : n[c] = m[c],
           NEW t \in Nat, y \in DOMAIN n => parent_entry(y, n) <= t
    PROVE  /\ IsFiniteSet(DOMAIN n) /\ Cardinality(DOMAIN n) \in Nat
           /\ Cardinality(DOMAIN n) <= Cardinality(DOMAIN m) + 1
           /\ parents_text(n) \in Nat /\ parents_text(n) <= parents_text(m) + t
  <1> DEFINE w == [c \in DOMAIN m |-> parent_entry(c, m)]
             v == [c \in DOMAIN n |-> parent_entry(c, n)]
             S == DOMAIN m
             R == DOMAIN n
  <1>1. w \in [S -> Nat] /\ v \in [R -> Nat]
    BY EntryText
  <1>2. Below(v, w, R \ {y})
    BY <1>1 DEF Below, parent_entry
  <1>3. y \in R => v[y] <= t
    OBVIOUS
  <1>4. parents_text(m) = SumFunction(w) /\ parents_text(n) = SumFunction(v)
    BY DEF parents_text, parent_entry
  <1>5. R \in SUBSET (S \cup {y}) /\ IsFiniteSet(S)
    OBVIOUS
  <1> HIDE DEF w, v, S, R
  <1>6. /\ IsFiniteSet(R) /\ Cardinality(R) \in Nat
        /\ Cardinality(R) <= Cardinality(S) + 1
        /\ SumFunction(v) \in Nat /\ SumFunction(v) <= SumFunction(w) + t
    BY <1>1, <1>2, <1>3, <1>5, SumGrows
  <1>7. QED
    BY <1>4, <1>6 DEF S, R

(* The delegations: entries are dropped.                                   *)
LEMMA ParentsShrink ==
    ASSUME NEW m, IsVecMap(m, AgentId, AgentId), IsFiniteSet(DOMAIN m),
           NEW n, IsVecMap(n, AgentId, AgentId),
           DOMAIN n \subseteq DOMAIN m, \A c \in DOMAIN n : n[c] = m[c]
    PROVE  /\ IsFiniteSet(DOMAIN n) /\ Cardinality(DOMAIN n) \in Nat
           /\ Cardinality(DOMAIN n) <= Cardinality(DOMAIN m)
           /\ parents_text(n) \in Nat /\ parents_text(n) <= parents_text(m)
  <1> DEFINE w == [c \in DOMAIN m |-> parent_entry(c, m)]
             v == [c \in DOMAIN n |-> parent_entry(c, n)]
             S == DOMAIN m
             R == DOMAIN n
  <1>1. w \in [S -> Nat] /\ v \in [R -> Nat]
    BY EntryText
  <1>2. Below(v, w, R)
    BY <1>1 DEF Below, parent_entry
  <1>3. parents_text(m) = SumFunction(w) /\ parents_text(n) = SumFunction(v)
    BY DEF parents_text, parent_entry
  <1>4. R \in SUBSET S /\ IsFiniteSet(S)
    OBVIOUS
  <1> HIDE DEF w, v, S, R
  <1>5. /\ IsFiniteSet(R) /\ Cardinality(R) \in Nat
        /\ Cardinality(R) <= Cardinality(S)
        /\ SumFunction(v) \in Nat /\ SumFunction(v) <= SumFunction(w)
    BY <1>1, <1>2, <1>4, SumShrinks
  <1>6. QED
    BY <1>3, <1>5 DEF S, R

(* The records: some are dropped or change what the gates do not read, and *)
(* one is written.                                                         *)
LEMMA PendingGrow ==
    ASSUME NEW m, IsVecMap(m, InvocationId, PendingInvocation), IsFiniteSet(DOMAIN m),
           NEW n, IsVecMap(n, InvocationId, PendingInvocation), NEW y,
           DOMAIN n \subseteq DOMAIN m \cup {y},
           \A i \in DOMAIN n \ {y} : SameGates(m[i], n[i]),
           NEW t \in Nat, y \in DOMAIN n => pending_entry(y, n) <= t
    PROVE  /\ IsFiniteSet(DOMAIN n) /\ Cardinality(DOMAIN n) \in Nat
           /\ Cardinality(DOMAIN n) <= Cardinality(DOMAIN m) + 1
           /\ pending_text(n) \in Nat /\ pending_text(n) <= pending_text(m) + t
  <1> DEFINE w == [i \in DOMAIN m |-> pending_entry(i, m)]
             v == [i \in DOMAIN n |-> pending_entry(i, n)]
             S == DOMAIN m
             R == DOMAIN n
  <1>1. w \in [S -> Nat] /\ v \in [R -> Nat]
    BY EntryText
  <1>2. Below(v, w, R \ {y})
    BY <1>1 DEF Below, pending_entry, SameGates
  <1>3. y \in R => v[y] <= t
    OBVIOUS
  <1>4. pending_text(m) = SumFunction(w) /\ pending_text(n) = SumFunction(v)
    BY DEF pending_text, pending_entry
  <1>5. R \in SUBSET (S \cup {y}) /\ IsFiniteSet(S)
    OBVIOUS
  <1> HIDE DEF w, v, S, R
  <1>6. /\ IsFiniteSet(R) /\ Cardinality(R) \in Nat
        /\ Cardinality(R) <= Cardinality(S) + 1
        /\ SumFunction(v) \in Nat /\ SumFunction(v) <= SumFunction(w) + t
    BY <1>1, <1>2, <1>3, <1>5, SumGrows
  <1>7. QED
    BY <1>4, <1>6 DEF S, R

(* The records: some are dropped or change what the gates do not read.     *)
LEMMA PendingShrink ==
    ASSUME NEW m, IsVecMap(m, InvocationId, PendingInvocation), IsFiniteSet(DOMAIN m),
           NEW n, IsVecMap(n, InvocationId, PendingInvocation),
           DOMAIN n \subseteq DOMAIN m, \A i \in DOMAIN n : SameGates(m[i], n[i])
    PROVE  /\ IsFiniteSet(DOMAIN n) /\ Cardinality(DOMAIN n) \in Nat
           /\ Cardinality(DOMAIN n) <= Cardinality(DOMAIN m)
           /\ pending_text(n) \in Nat /\ pending_text(n) <= pending_text(m)
  <1> DEFINE w == [i \in DOMAIN m |-> pending_entry(i, m)]
             v == [i \in DOMAIN n |-> pending_entry(i, n)]
             S == DOMAIN m
             R == DOMAIN n
  <1>1. w \in [S -> Nat] /\ v \in [R -> Nat]
    BY EntryText
  <1>2. Below(v, w, R)
    BY <1>1 DEF Below, pending_entry, SameGates
  <1>3. pending_text(m) = SumFunction(w) /\ pending_text(n) = SumFunction(v)
    BY DEF pending_text, pending_entry
  <1>4. R \in SUBSET S /\ IsFiniteSet(S)
    OBVIOUS
  <1> HIDE DEF w, v, S, R
  <1>5. /\ IsFiniteSet(R) /\ Cardinality(R) \in Nat
        /\ Cardinality(R) <= Cardinality(S)
        /\ SumFunction(v) \in Nat /\ SumFunction(v) <= SumFunction(w)
    BY <1>1, <1>2, <1>4, SumShrinks
  <1>6. QED
    BY <1>3, <1>5 DEF S, R

(* The challenges: some are dropped, and one is written.                   *)
LEMMA ChallengesGrow ==
    ASSUME NEW m, IsVecMap(m, InvocationId, ChallengeScope), IsFiniteSet(DOMAIN m),
           NEW n, IsVecMap(n, InvocationId, ChallengeScope), NEW y,
           DOMAIN n \subseteq DOMAIN m \cup {y}, \A i \in DOMAIN n \ {y} : n[i] = m[i],
           NEW t \in Nat, y \in DOMAIN n => challenge_entry(y, n) <= t
    PROVE  /\ IsFiniteSet(DOMAIN n) /\ Cardinality(DOMAIN n) \in Nat
           /\ Cardinality(DOMAIN n) <= Cardinality(DOMAIN m) + 1
           /\ challenges_text(n) \in Nat /\ challenges_text(n) <= challenges_text(m) + t
  <1> DEFINE w == [i \in DOMAIN m |-> challenge_entry(i, m)]
             v == [i \in DOMAIN n |-> challenge_entry(i, n)]
             S == DOMAIN m
             R == DOMAIN n
  <1>1. w \in [S -> Nat] /\ v \in [R -> Nat]
    BY EntryText
  <1>2. Below(v, w, R \ {y})
    BY <1>1 DEF Below, challenge_entry
  <1>3. y \in R => v[y] <= t
    OBVIOUS
  <1>4. challenges_text(m) = SumFunction(w) /\ challenges_text(n) = SumFunction(v)
    BY DEF challenges_text, challenge_entry
  <1>5. R \in SUBSET (S \cup {y}) /\ IsFiniteSet(S)
    OBVIOUS
  <1> HIDE DEF w, v, S, R
  <1>6. /\ IsFiniteSet(R) /\ Cardinality(R) \in Nat
        /\ Cardinality(R) <= Cardinality(S) + 1
        /\ SumFunction(v) \in Nat /\ SumFunction(v) <= SumFunction(w) + t
    BY <1>1, <1>2, <1>3, <1>5, SumGrows
  <1>7. QED
    BY <1>4, <1>6 DEF S, R

(* The challenges: some are dropped.                                       *)
LEMMA ChallengesShrink ==
    ASSUME NEW m, IsVecMap(m, InvocationId, ChallengeScope), IsFiniteSet(DOMAIN m),
           NEW n, IsVecMap(n, InvocationId, ChallengeScope),
           DOMAIN n \subseteq DOMAIN m, \A i \in DOMAIN n : n[i] = m[i]
    PROVE  /\ IsFiniteSet(DOMAIN n) /\ Cardinality(DOMAIN n) \in Nat
           /\ Cardinality(DOMAIN n) <= Cardinality(DOMAIN m)
           /\ challenges_text(n) \in Nat /\ challenges_text(n) <= challenges_text(m)
  <1> DEFINE w == [i \in DOMAIN m |-> challenge_entry(i, m)]
             v == [i \in DOMAIN n |-> challenge_entry(i, n)]
             S == DOMAIN m
             R == DOMAIN n
  <1>1. w \in [S -> Nat] /\ v \in [R -> Nat]
    BY EntryText
  <1>2. Below(v, w, R)
    BY <1>1 DEF Below, challenge_entry
  <1>3. challenges_text(m) = SumFunction(w) /\ challenges_text(n) = SumFunction(v)
    BY DEF challenges_text, challenge_entry
  <1>4. R \in SUBSET S /\ IsFiniteSet(S)
    OBVIOUS
  <1> HIDE DEF w, v, S, R
  <1>5. /\ IsFiniteSet(R) /\ Cardinality(R) \in Nat
        /\ Cardinality(R) <= Cardinality(S)
        /\ SumFunction(v) \in Nat /\ SumFunction(v) <= SumFunction(w)
    BY <1>1, <1>2, <1>4, SumShrinks
  <1>6. QED
    BY <1>3, <1>5 DEF S, R

(* The grants: some are dropped or change their counters, and one is       *)
(* written.                                                                *)
LEMMA GrantsGrow ==
    ASSUME NEW m, IsVecMap(m, CrossingKey, CrossingGrant), IsFiniteSet(DOMAIN m),
           NEW n, IsVecMap(n, CrossingKey, CrossingGrant), NEW y,
           DOMAIN n \subseteq DOMAIN m \cup {y},
           NEW t \in Nat, y \in DOMAIN n => grant_entry(y) <= t
    PROVE  /\ IsFiniteSet(DOMAIN n) /\ Cardinality(DOMAIN n) \in Nat
           /\ Cardinality(DOMAIN n) <= Cardinality(DOMAIN m) + 1
           /\ grants_text(n) \in Nat /\ grants_text(n) <= grants_text(m) + t
  <1> DEFINE w == [g \in DOMAIN m |-> grant_entry(g)]
             v == [g \in DOMAIN n |-> grant_entry(g)]
             S == DOMAIN m
             R == DOMAIN n
  <1>1. w \in [S -> Nat] /\ v \in [R -> Nat]
    BY EntryText DEF IsVecMap
  <1>2. Below(v, w, R \ {y})
    BY <1>1 DEF Below, grant_entry
  <1>3. y \in R => v[y] <= t
    OBVIOUS
  <1>4. grants_text(m) = SumFunction(w) /\ grants_text(n) = SumFunction(v)
    BY DEF grants_text, grant_entry
  <1>5. R \in SUBSET (S \cup {y}) /\ IsFiniteSet(S)
    OBVIOUS
  <1> HIDE DEF w, v, S, R
  <1>6. /\ IsFiniteSet(R) /\ Cardinality(R) \in Nat
        /\ Cardinality(R) <= Cardinality(S) + 1
        /\ SumFunction(v) \in Nat /\ SumFunction(v) <= SumFunction(w) + t
    BY <1>1, <1>2, <1>3, <1>5, SumGrows
  <1>7. QED
    BY <1>4, <1>6 DEF S, R

(* The grants: some are dropped or change their counters.                  *)
LEMMA GrantsShrink ==
    ASSUME NEW m, IsVecMap(m, CrossingKey, CrossingGrant), IsFiniteSet(DOMAIN m),
           NEW n, IsVecMap(n, CrossingKey, CrossingGrant),
           DOMAIN n \subseteq DOMAIN m
    PROVE  /\ IsFiniteSet(DOMAIN n) /\ Cardinality(DOMAIN n) \in Nat
           /\ Cardinality(DOMAIN n) <= Cardinality(DOMAIN m)
           /\ grants_text(n) \in Nat /\ grants_text(n) <= grants_text(m)
  <1> DEFINE w == [g \in DOMAIN m |-> grant_entry(g)]
             v == [g \in DOMAIN n |-> grant_entry(g)]
             S == DOMAIN m
             R == DOMAIN n
  <1>1. w \in [S -> Nat] /\ v \in [R -> Nat]
    BY EntryText DEF IsVecMap
  <1>2. Below(v, w, R)
    BY <1>1 DEF Below, grant_entry
  <1>3. grants_text(m) = SumFunction(w) /\ grants_text(n) = SumFunction(v)
    BY DEF grants_text, grant_entry
  <1>4. R \in SUBSET S /\ IsFiniteSet(S)
    OBVIOUS
  <1> HIDE DEF w, v, S, R
  <1>5. /\ IsFiniteSet(R) /\ Cardinality(R) \in Nat
        /\ Cardinality(R) <= Cardinality(S)
        /\ SumFunction(v) \in Nat /\ SumFunction(v) <= SumFunction(w)
    BY <1>1, <1>2, <1>4, SumShrinks
  <1>6. QED
    BY <1>3, <1>5 DEF S, R

---------------------------------------------------------------------------
(* Every field holds finitely many entries.                                *)
AllFinite ==
    /\ IsFiniteSet(agent_active) /\ IsFiniteSet(DOMAIN agent_parent)
    /\ IsFiniteSet(cap_keys) /\ IsFiniteSet(taint_keys) /\ IsFiniteSet(integ_keys)
    /\ IsFiniteSet(DOMAIN pending) /\ IsFiniteSet(DOMAIN challenges)
    /\ IsFiniteSet(consumed_ids) /\ IsFiniteSet(consumed_attestations)
    /\ IsFiniteSet(consumed_crossings)
    /\ IsFiniteSet(DOMAIN crossing_grants) /\ IsFiniteSet(tool_registered)

(* The inductive invariant: typed, finite and within the limits.           *)
LimitsInv == TypeOK /\ AllFinite /\ check_state

(* The limits of the levels hold in every state: there are four of each.   *)
LevelsFit ==
    \A a \in AgentId : /\ Cardinality(taint_levels[a]) <= MaxLevels
                       /\ Cardinality(integ_levels[a]) <= MaxLevels

(* A set of labels holds at most the four levels.                          *)
LEMMA LevelsAlwaysFit ==
    TypeOK => LevelsFit
  <1> SUFFICES ASSUME TypeOK, NEW a \in AgentId
               PROVE  /\ Cardinality(taint_levels[a]) <= MaxLevels
                      /\ Cardinality(integ_levels[a]) <= MaxLevels
    BY DEF LevelsFit
  <1>1. taint_levels[a] \in SUBSET (0 .. 3) /\ integ_levels[a] \in SUBSET (0 .. 3)
    BY DEF TypeOK, ConfLevel, IntegLevel
  <1>2. IsFiniteSet(0 .. 3) /\ Cardinality(0 .. 3) = 4
    <2>1. 0 \in Int /\ 3 \in Int
      OBVIOUS
    <2>2. IsFiniteSet(0 .. 3) /\ Cardinality(0 .. 3) = IF 0 > 3 THEN 0 ELSE 3 - 0 + 1
      BY <2>1, FS_Interval
    <2>3. QED
      BY <2>2
  <1>3. \A L \in SUBSET (0 .. 3) : Cardinality(L) <= 4 /\ Cardinality(L) \in Nat
    BY <1>2, FS_Subset, FS_CardinalityType
  <1>4. MaxLevels \in Nat /\ MaxLevels >= 4
    BY LimitsAssumption
  <1>5. QED
    BY <1>1, <1>3, <1>4

(* The sizes and the text of a state are numbers.                          *)
LEMMA PartsNat ==
    ASSUME TypeOK, AllFinite
    PROVE  /\ Cardinality(agent_active) \in Nat /\ Length(agent_active) \in Nat
           /\ Cardinality(DOMAIN agent_parent) \in Nat /\ parents_text(agent_parent) \in Nat
           /\ Cardinality(cap_keys) \in Nat /\ Length(cap_keys) \in Nat
           /\ Cardinality(taint_keys) \in Nat /\ Length(taint_keys) \in Nat
           /\ Cardinality(integ_keys) \in Nat /\ Length(integ_keys) \in Nat
           /\ Cardinality(DOMAIN pending) \in Nat /\ pending_text(pending) \in Nat
           /\ Cardinality(DOMAIN challenges) \in Nat /\ challenges_text(challenges) \in Nat
           /\ Cardinality(consumed_ids) \in Nat /\ Length(consumed_ids) \in Nat
           /\ Cardinality(consumed_attestations) \in Nat
           /\ Length(consumed_attestations) \in Nat
           /\ Cardinality(consumed_crossings) \in Nat /\ Length(consumed_crossings) \in Nat
           /\ Cardinality(DOMAIN crossing_grants) \in Nat
           /\ grants_text(crossing_grants) \in Nat
           /\ Cardinality(tool_registered) \in Nat /\ Length(tool_registered) \in Nat
  <1>1. /\ agent_active \in SUBSET Opaque /\ cap_keys \in SUBSET Opaque
        /\ taint_keys \in SUBSET Opaque /\ integ_keys \in SUBSET Opaque
        /\ consumed_ids \in SUBSET Opaque /\ consumed_attestations \in SUBSET Opaque
        /\ consumed_crossings \in SUBSET Opaque /\ tool_registered \in SUBSET Opaque
    BY RootAssumption, OpaqueParts DEF TypeOK, cap_keys, taint_keys, integ_keys
  <1>2. \A S \in SUBSET Opaque : IsFiniteSet(S) => Cardinality(S) \in Nat /\ Length(S) \in Nat
    BY SetShrinks
  <1>3. Cardinality(DOMAIN agent_parent) \in Nat /\ parents_text(agent_parent) \in Nat
    BY ParentsShrink DEF TypeOK, AllFinite
  <1>4. Cardinality(DOMAIN pending) \in Nat /\ pending_text(pending) \in Nat
    <2>1. \A i \in DOMAIN pending : SameGates(pending[i], pending[i])
      BY DEF SameGates
    <2>2. QED
      BY <2>1, PendingShrink DEF TypeOK, AllFinite
  <1>5. Cardinality(DOMAIN challenges) \in Nat /\ challenges_text(challenges) \in Nat
    BY ChallengesShrink DEF TypeOK, AllFinite
  <1>6. Cardinality(DOMAIN crossing_grants) \in Nat /\ grants_text(crossing_grants) \in Nat
    BY GrantsShrink DEF TypeOK, AllFinite
  <1>7. QED
    BY <1>1, <1>2, <1>3, <1>4, <1>5, <1>6 DEF AllFinite

(* So is the whole text.                                                   *)
LEMMA TextNat ==
    TypeOK /\ AllFinite => retained_text \in Nat
  BY PartsNat DEF retained_text

(* The text, by groups of fields.                                          *)
agents_text == Length(agent_active) + parents_text(agent_parent) + Length(cap_keys)

labels_text == Length(taint_keys) + Length(integ_keys)

records_text == pending_text(pending) + challenges_text(challenges)

consumed_text ==
    Length(consumed_ids) + Length(consumed_attestations) + Length(consumed_crossings)

others_text == grants_text(crossing_grants) + Length(tool_registered)

(* The groups are numbers and make up the text.                            *)
TextInParts ==
    /\ agents_text \in Nat /\ labels_text \in Nat /\ records_text \in Nat
    /\ consumed_text \in Nat /\ others_text \in Nat
    /\ retained_text = agents_text + labels_text + records_text + consumed_text + others_text

(* The groups make up the text.                                            *)
LEMMA TextIsItsParts ==
    TypeOK /\ AllFinite => TextInParts
  BY PartsNat DEF TextInParts, retained_text, agents_text, labels_text, records_text,
                  consumed_text, others_text

(* If each group grows by so much, the text grows by the sum.              *)
LEMMA TextGrows ==
    ASSUME LimitsInv, TypeOK', AllFinite', NEW ta \in Nat, NEW tl \in Nat, NEW tr \in Nat,
           NEW tc \in Nat, NEW to \in Nat,
           agents_text' <= agents_text + ta, labels_text' <= labels_text + tl,
           records_text' <= records_text + tr, consumed_text' <= consumed_text + tc,
           others_text' <= others_text + to
    PROVE  retained_text' <= retained_text + (ta + tl + tr + tc + to)
  <1>1. TextInParts
    BY TextIsItsParts DEF LimitsInv
  <1>2. TextInParts'
    BY TextIsItsParts, PTL
  <1>3. /\ agents_text \in Nat /\ labels_text \in Nat /\ records_text \in Nat
        /\ consumed_text \in Nat /\ others_text \in Nat
        /\ retained_text = agents_text + labels_text + records_text + consumed_text + others_text
    BY <1>1 DEF TextInParts
  <1>4. /\ agents_text' \in Nat /\ labels_text' \in Nat /\ records_text' \in Nat
        /\ consumed_text' \in Nat /\ others_text' \in Nat
        /\ retained_text' =
             agents_text' + labels_text' + records_text' + consumed_text' + others_text'
    BY <1>2 DEF TextInParts
  <1>5. PICK a \in Nat, l \in Nat, r \in Nat, c \in Nat, o \in Nat :
          /\ a = agents_text /\ l = labels_text /\ r = records_text
          /\ c = consumed_text /\ o = others_text
    BY <1>3
  <1>6. PICK a2 \in Nat, l2 \in Nat, r2 \in Nat, c2 \in Nat, o2 \in Nat :
          /\ a2 = agents_text' /\ l2 = labels_text' /\ r2 = records_text'
          /\ c2 = consumed_text' /\ o2 = others_text'
    BY <1>4
  <1>7. a2 <= a + ta /\ l2 <= l + tl /\ r2 <= r + tr /\ c2 <= c + tc /\ o2 <= o + to
    BY <1>5, <1>6
  <1>8. retained_text = a + l + r + c + o /\ retained_text' = a2 + l2 + r2 + c2 + o2
    BY <1>3, <1>4, <1>5, <1>6
  <1>9. a2 + l2 + r2 + c2 + o2 <= (a + l + r + c + o) + (ta + tl + tr + tc + to)
    BY <1>7
  <1>10. QED
    BY <1>8, <1>9

(* The keys of the maps into sets are agents.                              *)
LEMMA KeysAreAgents ==
    /\ cap_keys \subseteq AgentId /\ taint_keys \subseteq AgentId
    /\ integ_keys \subseteq AgentId
  BY RootAssumption DEF cap_keys, taint_keys, integ_keys

(* A fresh instance is within its limits.                                  *)
LEMMA LimitsInit ==
    Init => LimitsInv
  <1> SUFFICES ASSUME Init PROVE LimitsInv
    OBVIOUS
  <1>1. TypeOK
    BY InitTypeOK
  <1>2. /\ agent_active = {Root} /\ DOMAIN agent_parent = {} /\ DOMAIN pending = {}
        /\ DOMAIN challenges = {} /\ consumed_ids = {} /\ consumed_attestations = {}
        /\ consumed_crossings = {} /\ DOMAIN crossing_grants = {} /\ tool_registered = {}
    BY DEF Init, initial, EmptyMap
  <1>3. cap_keys = {Root} /\ taint_keys = {} /\ integ_keys = {}
    BY RootAssumption DEF Init, initial, cap_keys, taint_keys, integ_keys
  <1>4. /\ IsFiniteSet({}) /\ Cardinality({}) = 0
        /\ IsFiniteSet({Root}) /\ Cardinality({Root}) = 1
    BY FS_EmptySet, FS_Singleton
  <1>5. AllFinite
    BY <1>2, <1>3, <1>4 DEF AllFinite
  <1>6. \A w : DOMAIN w = {} => SumFunction(w) = 0
    <2> SUFFICES ASSUME NEW w, DOMAIN w = {} PROVE SumFunction(w) = 0
      OBVIOUS
    <2>1. PICK F : IsSum(w, SUBSET {}, F) /\ SumFunction(w) = F[{}]
      BY <1>4, SumIs
    <2>2. QED
      BY <2>1, SumUnfolds
  <1>7. Length({}) = 0
    BY <1>6 DEF Length
  <1>8. Length({Root}) <= Bytes(Root) /\ Length({Root}) \in Nat /\ Bytes(Root) \in Nat
    <2>1. Root \in Opaque /\ Bytes(Root) \in Nat /\ {} \in SUBSET Opaque
      BY RootAssumption, OpaqueParts
    <2>2. {Root} \in SUBSET ({} \cup {Root})
      OBVIOUS
    <2>3. Length({Root}) <= Length({}) + Bytes(Root) /\ Length({Root}) \in Nat
      BY <1>4, <2>1, <2>2, SetGrows
    <2>4. QED
      BY <1>7, <2>1, <2>3
  <1>9. /\ parents_text(agent_parent) = 0 /\ pending_text(pending) = 0
        /\ challenges_text(challenges) = 0 /\ grants_text(crossing_grants) = 0
    BY <1>2, <1>6 DEF parents_text, pending_text, challenges_text, grants_text
  <1>10. retained_text <= MaxText
    BY <1>2, <1>3, <1>7, <1>8, <1>9, LimitsAssumption DEF retained_text
  <1>11. check_state_shape
    BY <1>1, <1>2, <1>3, <1>4, LevelsAlwaysFit, LimitsAssumption
       DEF check_state_shape, LevelsFit
  <1>12. QED
    BY <1>1, <1>5, <1>10, <1>11 DEF LimitsInv, check_state

---------------------------------------------------------------------------
(* Every accepted command is a step of the kernel.                         *)
LEMMA LimitedIsKernel ==
    LimitedNext => Next
  BY DEF LimitedNext, LimitedTools, LimitedTree, LimitedIngest, LimitedBegin, LimitedInspect,
         LimitedSettle, LimitedCross, Next, ToolNext, TreeNext, IngestNext, BeginNext,
         InspectNext, SettleNext, CrossNext

(* What may have become of a part of the state: its size has grown by at   *)
(* most c, and its text by at most t.                                      *)
Grown(size2, size1, c, text2, text1, t) ==
    /\ size2 \in Nat /\ size2 <= size1 + c
    /\ text2 \in Nat /\ text2 <= text1 + t

(* The limits other than those of the levels and the text.                 *)
SizesFit ==
    /\ Cardinality(agent_active) <= MaxAgents
    /\ Cardinality(DOMAIN agent_parent) <= MaxKeys
    /\ Cardinality(cap_keys) <= MaxKeys
    /\ Cardinality(taint_keys) <= MaxKeys
    /\ Cardinality(integ_keys) <= MaxKeys
    /\ Cardinality(DOMAIN pending) <= MaxPending
    /\ Cardinality(DOMAIN challenges) <= MaxChallenges
    /\ Cardinality(DOMAIN crossing_grants) <= MaxGrants
    /\ Cardinality(consumed_ids) <= MaxIds
    /\ Cardinality(consumed_attestations) <= MaxAttestations
    /\ Cardinality(consumed_crossings) <= MaxCrossings
    /\ Cardinality(tool_registered) <= MaxTools

(* A step whose sizes fit and whose new text was reserved stays within the *)
(* limits.                                                                 *)
LEMMA StaysWithin ==
    ASSUME LimitsInv, TypeOK', AllFinite', SizesFit',
           NEW t \in Nat, text_fits(t), retained_text' <= retained_text + t
    PROVE  AllFinite' /\ check_state'
  <1>1. LevelsFit'
    BY LevelsAlwaysFit, PTL
  <1>2. retained_text \in Nat /\ retained_text' \in Nat /\ MaxText \in Nat
    <2>1. (TypeOK /\ AllFinite => retained_text \in Nat)'
      BY TextNat, PTL
    <2>2. QED
      BY <2>1, TextNat, LimitsAssumption DEF LimitsInv
  <1>3. retained_text' <= MaxText
    BY <1>2 DEF text_fits, checked_capacity
  <1>4. QED
    BY <1>1, <1>3 DEF check_state, check_state_shape, SizesFit, LevelsFit

(* Registering a tool, or taking it back, stays within the limits.         *)
LEMMA ToolsFit ==
    ASSUME LimitsInv, TypeOK', NEW tool \in ToolId,
           \/ register_tool_fits(tool) /\ register_tool(tool)
           \/ unregister_tool(tool)
    PROVE  AllFinite' /\ check_state'
  <1>1. UNCHANGED <<agentVars, labelVars, pending, challenges, consumedVars, crossing_grants>>
    BY DEF register_tool, unregister_tool
  <1>2. cap_keys' = cap_keys /\ taint_keys' = taint_keys /\ integ_keys' = integ_keys
    BY <1>1 DEF cap_keys, taint_keys, integ_keys, agentVars, labelVars
  <1>3. tool_registered \in SUBSET Opaque /\ tool \in Opaque /\ IsFiniteSet(tool_registered)
    BY OpaqueParts DEF LimitsInv, TypeOK, AllFinite
  <1>4. PICK c \in Nat, t \in Nat :
          /\ IsFiniteSet(tool_registered')
          /\ Grown(Cardinality(tool_registered'), Cardinality(tool_registered), c,
                   Length(tool_registered'), Length(tool_registered), t)
          /\ Cardinality(tool_registered) + c <= MaxTools
          /\ retained_text + t <= MaxText
    <2>1. CASE register_tool_fits(tool) /\ register_tool(tool)
      <3>1. tool_registered' \in SUBSET (tool_registered \cup {tool})
        BY <2>1 DEF register_tool
      <3>2. /\ IsFiniteSet(tool_registered')
            /\ Grown(Cardinality(tool_registered'), Cardinality(tool_registered), 1,
                     Length(tool_registered'), Length(tool_registered), Bytes(tool))
        BY <1>3, <3>1, SetGrows DEF Grown
      <3>3. Bytes(tool) \in Nat
        BY OpaqueParts
      <3>4. QED
        BY <2>1, <3>2, <3>3 DEF register_tool_fits, checked_capacity, text_fits
    <2>2. CASE unregister_tool(tool)
      <3>1. tool_registered' \in SUBSET tool_registered
        BY <2>2 DEF unregister_tool
      <3>2. Cardinality(tool_registered) \in Nat /\ Length(tool_registered) \in Nat
        BY PartsNat DEF LimitsInv
      <3>3. /\ IsFiniteSet(tool_registered')
            /\ Grown(Cardinality(tool_registered'), Cardinality(tool_registered), 0,
                     Length(tool_registered'), Length(tool_registered), 0)
        BY <1>3, <3>1, <3>2, SetShrinks DEF Grown
      <3>4. Cardinality(tool_registered) + 0 <= MaxTools /\ retained_text + 0 <= MaxText
        BY <3>2, TextNat DEF LimitsInv, check_state, check_state_shape
      <3>5. QED
        BY <3>3, <3>4
    <2>3. QED
      BY <2>1, <2>2
  <1>5. AllFinite'
    BY <1>1, <1>2, <1>4 DEF LimitsInv, AllFinite, agentVars, consumedVars
  <1>6. SizesFit'
    BY <1>1, <1>2, <1>4, LimitsAssumption, PartsNat
       DEF LimitsInv, check_state, check_state_shape, SizesFit, Grown, agentVars, consumedVars
  <1>7. retained_text' <= retained_text + t /\ text_fits(t)
    BY <1>1, <1>2, <1>4, PartsNat
       DEF LimitsInv, retained_text, text_fits, checked_capacity, Grown, agentVars,
           consumedVars
  <1>8. QED
    BY <1>5, <1>6, <1>7, StaysWithin

(* The keys, records, challenges and grants have not grown.                *)
AgentDropped ==
    /\ IsFiniteSet(cap_keys') /\ IsFiniteSet(taint_keys') /\ IsFiniteSet(integ_keys')
    /\ IsFiniteSet(DOMAIN pending') /\ IsFiniteSet(DOMAIN challenges')
    /\ IsFiniteSet(DOMAIN crossing_grants')
    /\ Grown(Cardinality(cap_keys'), Cardinality(cap_keys), 0,
             Length(cap_keys'), Length(cap_keys), 0)
    /\ Grown(Cardinality(taint_keys'), Cardinality(taint_keys), 0,
             Length(taint_keys'), Length(taint_keys), 0)
    /\ Grown(Cardinality(integ_keys'), Cardinality(integ_keys), 0,
             Length(integ_keys'), Length(integ_keys), 0)
    /\ Grown(Cardinality(DOMAIN pending'), Cardinality(DOMAIN pending), 0,
             pending_text(pending'), pending_text(pending), 0)
    /\ Grown(Cardinality(DOMAIN challenges'), Cardinality(DOMAIN challenges), 0,
             challenges_text(challenges'), challenges_text(challenges), 0)
    /\ Grown(Cardinality(DOMAIN crossing_grants'), Cardinality(DOMAIN crossing_grants),
             0, grants_text(crossing_grants'), grants_text(crossing_grants), 0)

(* Dropping an agent's keys, records, challenges and grants frees room.    *)
LEMMA DropsShrink ==
    ASSUME LimitsInv, TypeOK', NEW a,
           agent_cap' = remove_key(agent_cap, a),
           taint_levels' = remove_key(taint_levels, a),
           integ_levels' = remove_key(integ_levels, a),
           pending' = drop_pending_of(a), challenges' = drop_challenges_of(a),
           crossing_grants' = drop_grants_of(a)
    PROVE  AgentDropped
  <1>0. TypeOK /\ AllFinite
    BY DEF LimitsInv
  <1>1. /\ cap_keys' \in SUBSET cap_keys /\ taint_keys' \in SUBSET taint_keys
        /\ integ_keys' \in SUBSET integ_keys
    BY <1>0 DEF TypeOK, cap_keys, taint_keys, integ_keys, remove_key
  <1>2. /\ cap_keys \in SUBSET Opaque /\ taint_keys \in SUBSET Opaque
        /\ integ_keys \in SUBSET Opaque
        /\ IsFiniteSet(cap_keys) /\ IsFiniteSet(taint_keys) /\ IsFiniteSet(integ_keys)
    BY <1>0, KeysAreAgents, OpaqueParts DEF AllFinite
  <1>3. \A S \in SUBSET Opaque : IsFiniteSet(S) => \A R \in SUBSET S :
            /\ IsFiniteSet(R)
            /\ Grown(Cardinality(R), Cardinality(S), 0, Length(R), Length(S), 0)
    <2> SUFFICES ASSUME NEW S \in SUBSET Opaque, IsFiniteSet(S), NEW R \in SUBSET S
                 PROVE  /\ IsFiniteSet(R)
                        /\ Grown(Cardinality(R), Cardinality(S), 0, Length(R), Length(S), 0)
      OBVIOUS
    <2>1. Cardinality(S) \in Nat /\ Length(S) \in Nat
      BY SetShrinks
    <2>2. QED
      BY <2>1, SetShrinks DEF Grown
  <1>4. /\ IsFiniteSet(DOMAIN pending')
        /\ Grown(Cardinality(DOMAIN pending'), Cardinality(DOMAIN pending), 0,
                 pending_text(pending'), pending_text(pending), 0)
    <2>1. /\ DOMAIN pending' \subseteq DOMAIN pending
          /\ \A i \in DOMAIN pending' : SameGates(pending[i], pending'[i])
      BY DEF drop_pending_of, Restrict, SameGates
    <2>2. /\ IsVecMap(pending, InvocationId, PendingInvocation)
          /\ IsVecMap(pending', InvocationId, PendingInvocation)
          /\ IsFiniteSet(DOMAIN pending)
      BY <1>0 DEF TypeOK, AllFinite
    <2>3. QED
      BY <1>0, <2>1, <2>2, PartsNat, PendingShrink DEF Grown
  <1>5. /\ IsFiniteSet(DOMAIN challenges')
        /\ Grown(Cardinality(DOMAIN challenges'), Cardinality(DOMAIN challenges), 0,
                 challenges_text(challenges'), challenges_text(challenges), 0)
    <2>1. /\ DOMAIN challenges' \subseteq DOMAIN challenges
          /\ \A i \in DOMAIN challenges' : challenges'[i] = challenges[i]
      BY DEF drop_challenges_of, Restrict
    <2>2. /\ IsVecMap(challenges, InvocationId, ChallengeScope)
          /\ IsVecMap(challenges', InvocationId, ChallengeScope)
          /\ IsFiniteSet(DOMAIN challenges)
      BY <1>0 DEF TypeOK, AllFinite
    <2>3. QED
      BY <1>0, <2>1, <2>2, PartsNat, ChallengesShrink DEF Grown
  <1>6. /\ IsFiniteSet(DOMAIN crossing_grants')
        /\ Grown(Cardinality(DOMAIN crossing_grants'), Cardinality(DOMAIN crossing_grants), 0,
                 grants_text(crossing_grants'), grants_text(crossing_grants), 0)
    <2>1. DOMAIN crossing_grants' \subseteq DOMAIN crossing_grants
      BY DEF drop_grants_of, Restrict
    <2>2. /\ IsVecMap(crossing_grants, CrossingKey, CrossingGrant)
          /\ IsVecMap(crossing_grants', CrossingKey, CrossingGrant)
          /\ IsFiniteSet(DOMAIN crossing_grants)
      BY <1>0 DEF TypeOK, AllFinite
    <2>3. QED
      BY <1>0, <2>1, <2>2, PartsNat, GrantsShrink DEF Grown
  <1>7. QED
    BY <1>1, <1>2, <1>3, <1>4, <1>5, <1>6 DEF AgentDropped

(* Taking an agent back frees room.                                        *)
LEMMA ClearFits ==
    ASSUME LimitsInv, TypeOK', NEW a \in AgentId, clear_agent(a)
    PROVE  AllFinite' /\ check_state'
  <1>0. TypeOK /\ AllFinite
    BY DEF LimitsInv
  <1>1. UNCHANGED <<consumedVars, tool_registered>>
    BY DEF clear_agent
  <1>2. /\ IsFiniteSet(agent_active')
        /\ Grown(Cardinality(agent_active'), Cardinality(agent_active), 0,
                 Length(agent_active'), Length(agent_active), 0)
    <2>1. /\ agent_active \in SUBSET Opaque /\ IsFiniteSet(agent_active)
          /\ agent_active' \in SUBSET agent_active
      BY <1>0, OpaqueParts DEF TypeOK, AllFinite, clear_agent
    <2>2. QED
      BY <1>0, <2>1, PartsNat, SetShrinks DEF Grown
  <1>3. /\ IsFiniteSet(DOMAIN agent_parent')
        /\ Grown(Cardinality(DOMAIN agent_parent'), Cardinality(DOMAIN agent_parent), 0,
                 parents_text(agent_parent'), parents_text(agent_parent), 0)
    <2>1. /\ DOMAIN agent_parent' \subseteq DOMAIN agent_parent
          /\ \A c \in DOMAIN agent_parent' : agent_parent'[c] = agent_parent[c]
      BY DEF clear_agent, remove, Restrict
    <2>2. /\ IsVecMap(agent_parent, AgentId, AgentId)
          /\ IsVecMap(agent_parent', AgentId, AgentId)
          /\ IsFiniteSet(DOMAIN agent_parent)
      BY <1>0 DEF TypeOK, AllFinite
    <2>3. QED
      BY <1>0, <2>1, <2>2, PartsNat, ParentsShrink DEF Grown
  <1>4. AgentDropped
    BY DropsShrink DEF clear_agent
  <1>5. AllFinite'
    BY <1>0, <1>1, <1>2, <1>3, <1>4 DEF AllFinite, AgentDropped, consumedVars
  <1>6. retained_text' <= retained_text
    BY <1>0, <1>1, <1>2, <1>3, <1>4, PartsNat
       DEF retained_text, Grown, AgentDropped, consumedVars
  <1>7. SizesFit'
    BY <1>0, <1>1, <1>2, <1>3, <1>4, PartsNat, LimitsAssumption
       DEF LimitsInv, check_state, check_state_shape, SizesFit, Grown, AgentDropped,
           consumedVars
  <1>8. text_fits(0) /\ retained_text' <= retained_text + 0
    BY <1>0, <1>6, TextNat DEF LimitsInv, check_state, text_fits, checked_capacity
  <1>9. QED
    BY <1>5, <1>7, <1>8, StaysWithin

(* A delegation reserves the grantee twice and the grantor once.           *)
LEMMA DelegateFits ==
    ASSUME LimitsInv, TypeOK', NEW a \in AgentId, NEW b \in AgentId,
           delegate_fits(a, b), delegate(a, b)
    PROVE  AllFinite' /\ check_state'
  <1>0. /\ TypeOK /\ AllFinite /\ Bytes(a) \in Nat /\ Bytes(b) \in Nat
        /\ UNCHANGED <<consumedVars, tool_registered>>
    BY OpaqueParts DEF LimitsInv, delegate
  <1>1. /\ IsFiniteSet(agent_active')
        /\ Grown(Cardinality(agent_active'), Cardinality(agent_active), 1,
                 Length(agent_active'), Length(agent_active), Bytes(b))
    <2>1. /\ agent_active \in SUBSET Opaque /\ IsFiniteSet(agent_active) /\ b \in Opaque
          /\ agent_active' \in SUBSET (agent_active \cup {b})
      BY <1>0, OpaqueParts DEF TypeOK, AllFinite, delegate
    <2>2. QED
      BY <2>1, SetGrows DEF Grown
  <1>2. /\ IsFiniteSet(DOMAIN agent_parent')
        /\ Grown(Cardinality(DOMAIN agent_parent'), Cardinality(DOMAIN agent_parent), 1,
                 parents_text(agent_parent'), parents_text(agent_parent), Bytes(b) + Bytes(a))
    <2> DEFINE kept == {c \in DOMAIN agent_parent : c # b /\ agent_parent[c] # b}
    <2>1. agent_parent' = insert(Restrict(agent_parent, kept), b, a)
      BY DEF delegate
    <2>2. /\ DOMAIN agent_parent' \subseteq DOMAIN agent_parent \cup {b}
          /\ \A c \in DOMAIN agent_parent' \ {b} : agent_parent'[c] = agent_parent[c]
          /\ parent_entry(b, agent_parent') = Bytes(b) + Bytes(a)
      BY <2>1 DEF insert, Restrict, parent_entry
    <2>3. /\ IsVecMap(agent_parent, AgentId, AgentId)
          /\ IsVecMap(agent_parent', AgentId, AgentId)
          /\ IsFiniteSet(DOMAIN agent_parent)
      BY <1>0 DEF TypeOK, AllFinite
    <2>4. Bytes(b) + Bytes(a) \in Nat
          /\ (b \in DOMAIN agent_parent' => parent_entry(b, agent_parent') <= Bytes(b) + Bytes(a))
      BY <1>0, <2>2
    <2>5. QED
      BY <2>2, <2>3, <2>4, ParentsGrow DEF Grown
  <1>3. AgentDropped
    BY DropsShrink DEF delegate
  <1>4. AllFinite'
    BY <1>0, <1>1, <1>2, <1>3 DEF AllFinite, AgentDropped, consumedVars
  <1>5. SizesFit'
    BY <1>0, <1>1, <1>2, <1>3, PartsNat, LimitsAssumption
       DEF LimitsInv, check_state, check_state_shape, SizesFit, Grown, AgentDropped,
           consumedVars, delegate_fits, checked_capacity
  <1>6. retained_text' <= retained_text + (2 * Bytes(b) + Bytes(a))
    <2>1. PICK t \in Nat : t = Bytes(b) + Bytes(a)
      BY <1>0
    <2>2. /\ Grown(Cardinality(agent_active'), Cardinality(agent_active), 1,
                   Length(agent_active'), Length(agent_active), Bytes(b))
          /\ Grown(Cardinality(DOMAIN agent_parent'), Cardinality(DOMAIN agent_parent), 1,
                   parents_text(agent_parent'), parents_text(agent_parent), t)
      BY <1>1, <1>2, <2>1
    <2>3. retained_text' <= retained_text + Bytes(b) + t /\ retained_text \in Nat
      BY <1>0, <1>3, <2>2, PartsNat, TextNat
         DEF retained_text, Grown, AgentDropped, consumedVars
    <2>4. (retained_text \in Nat)'
      BY <1>4, TextNat, PTL
    <2>5. QED
      BY <1>0, <2>1, <2>3, <2>4
  <1>7. 2 * Bytes(b) + Bytes(a) \in Nat /\ text_fits(2 * Bytes(b) + Bytes(a))
    BY <1>0 DEF delegate_fits
  <1>8. QED
    BY <1>4, <1>5, <1>6, <1>7, StaysWithin

(* A capability may give its child a key.                                  *)
LEMMA GrantCapabilityFits ==
    ASSUME LimitsInv, TypeOK', NEW a \in AgentId, NEW b \in AgentId, NEW cap,
           grant_capability_fits(b), grant_capability(a, b, cap)
    PROVE  AllFinite' /\ check_state'
  <1> DEFINE k == NewKey(cap_keys, b)
             t == k * Bytes(b)
  <1>0. /\ TypeOK /\ AllFinite
        /\ UNCHANGED <<agent_active, agent_parent, labelVars, pending, challenges,
                       consumedVars, crossing_grants, tool_registered>>
    BY DEF LimitsInv, grant_capability
  <1>1. taint_keys' = taint_keys /\ integ_keys' = integ_keys
    BY <1>0 DEF taint_keys, integ_keys, labelVars
  <1>2. k \in Nat /\ t \in Nat
    <2>1. k \in {0, 1} /\ Bytes(b) \in Nat
      BY OpaqueParts DEF NewKey
    <2>2. QED
      BY <2>1
  <1>3. /\ IsFiniteSet(cap_keys')
        /\ Grown(Cardinality(cap_keys'), Cardinality(cap_keys), k,
                 Length(cap_keys'), Length(cap_keys), t)
    <2>1. /\ cap_keys \in SUBSET Opaque /\ IsFiniteSet(cap_keys) /\ b \in Opaque
      BY <1>0, KeysAreAgents, OpaqueParts DEF AllFinite
    <2>2. cap_keys' \in SUBSET (cap_keys \cup {b})
      BY <1>0 DEF TypeOK, cap_keys, grant_capability, insert_into
    <2>3. QED
      BY <2>1, <2>2, SetGrows DEF Grown
  <1>4. checked_capacity(Cardinality(cap_keys), k, MaxKeys) /\ text_fits(t)
    BY DEF grant_capability_fits
  <1> HIDE DEF k, t
  <1>5. AllFinite'
    BY <1>0, <1>1, <1>3 DEF AllFinite, consumedVars
  <1>6. SizesFit'
    BY <1>0, <1>1, <1>2, <1>3, <1>4, PartsNat, LimitsAssumption
       DEF LimitsInv, check_state, check_state_shape, SizesFit, Grown, consumedVars,
           checked_capacity
  <1>7. retained_text' <= retained_text + t
    BY <1>0, <1>1, <1>2, <1>3, PartsNat DEF retained_text, Grown, consumedVars
  <1>8. QED
    BY <1>2, <1>4, <1>5, <1>6, <1>7, StaysWithin

(* A crossing grant reserves its key.                                      *)
LEMMA GrantCrossingFits ==
    ASSUME LimitsInv, TypeOK', NEW a \in AgentId, NEW b \in AgentId,
           NEW d \in AssignmentDigest, NEW n,
           grant_crossing_fits(b, d), grant_crossing(a, b, d, n)
    PROVE  AllFinite' /\ check_state'
  <1> DEFINE key == [agent |-> b, assignment |-> d]
             t == Bytes(b) + Bytes(d)
  <1>0. /\ TypeOK /\ AllFinite
        /\ UNCHANGED <<agentVars, labelVars, pending, challenges, consumedVars, tool_registered>>
    BY DEF LimitsInv, grant_crossing
  <1>1. cap_keys' = cap_keys /\ taint_keys' = taint_keys /\ integ_keys' = integ_keys
    BY <1>0 DEF cap_keys, taint_keys, integ_keys, agentVars, labelVars
  <1>2. t \in Nat /\ grant_entry(key) = t
    BY OpaqueParts DEF grant_entry
  <1>3. DOMAIN crossing_grants' \subseteq DOMAIN crossing_grants \cup {key}
    BY DEF grant_crossing, insert
  <1>4. text_fits(t) /\ checked_capacity(Cardinality(DOMAIN crossing_grants), 1, MaxGrants)
    BY DEF grant_crossing_fits
  <1> HIDE DEF key, t
  <1>5. /\ IsFiniteSet(DOMAIN crossing_grants')
        /\ Grown(Cardinality(DOMAIN crossing_grants'), Cardinality(DOMAIN crossing_grants), 1,
                 grants_text(crossing_grants'), grants_text(crossing_grants), t)
    <2>1. /\ IsVecMap(crossing_grants, CrossingKey, CrossingGrant)
          /\ IsVecMap(crossing_grants', CrossingKey, CrossingGrant)
          /\ IsFiniteSet(DOMAIN crossing_grants)
          /\ (key \in DOMAIN crossing_grants' => grant_entry(key) <= t)
      BY <1>0, <1>2 DEF TypeOK, AllFinite
    <2>2. QED
      BY <1>2, <1>3, <2>1, GrantsGrow DEF Grown
  <1>6. AllFinite'
    BY <1>0, <1>1, <1>5 DEF AllFinite, agentVars, consumedVars
  <1>7. SizesFit'
    BY <1>0, <1>1, <1>4, <1>5, PartsNat, LimitsAssumption
       DEF LimitsInv, check_state, check_state_shape, SizesFit, Grown, agentVars, consumedVars,
           checked_capacity
  <1>8. retained_text' <= retained_text + t
    BY <1>0, <1>1, <1>2, <1>5, PartsNat DEF retained_text, Grown, agentVars, consumedVars
  <1>9. QED
    BY <1>2, <1>4, <1>6, <1>7, <1>8, StaysWithin

(* The records keep their places and what the gates read of them, or go.   *)
LEMMA RecordsShrink ==
    ASSUME LimitsInv, TypeOK', DOMAIN pending' \subseteq DOMAIN pending,
           \A i \in DOMAIN pending' : SameGates(pending[i], pending'[i])
    PROVE  /\ IsFiniteSet(DOMAIN pending')
           /\ Grown(Cardinality(DOMAIN pending'), Cardinality(DOMAIN pending), 0,
                    pending_text(pending'), pending_text(pending), 0)
  <1>1. /\ IsVecMap(pending, InvocationId, PendingInvocation)
        /\ IsVecMap(pending', InvocationId, PendingInvocation)
        /\ IsFiniteSet(DOMAIN pending)
    BY DEF LimitsInv, TypeOK, AllFinite
  <1>2. Cardinality(DOMAIN pending) \in Nat /\ pending_text(pending) \in Nat
    BY PartsNat DEF LimitsInv
  <1>3. QED
    BY <1>1, <1>2, PendingShrink DEF Grown

(* Demoting an agent, or leaving the records alone, takes no room.         *)
LEMMA DemoteFits ==
    ASSUME LimitsInv, TypeOK', NEW a, pending' = pending \/ pending' = demote_all_of(pending, a)
    PROVE  /\ IsFiniteSet(DOMAIN pending')
           /\ Grown(Cardinality(DOMAIN pending'), Cardinality(DOMAIN pending), 0,
                    pending_text(pending'), pending_text(pending), 0)
  <1>1. IsVecMap(pending, InvocationId, PendingInvocation)
    BY DEF LimitsInv, TypeOK
  <1>2. /\ DOMAIN pending' \subseteq DOMAIN pending
        /\ \A i \in DOMAIN pending' : SameGates(pending[i], pending'[i])
    <2>1. CASE pending' = pending
      BY <2>1 DEF SameGates
    <2>2. CASE pending' = demote_all_of(pending, a)
      BY <1>1, <2>2, DemoteRecords
    <2>3. QED
      BY <2>1, <2>2
  <1>3. QED
    BY <1>2, RecordsShrink

(* What the label keys become when labels are added to an agent.           *)
LabelKeysGrown(k1, t1, k2, t2) ==
    /\ IsFiniteSet(taint_keys') /\ IsFiniteSet(integ_keys')
    /\ Grown(Cardinality(taint_keys'), Cardinality(taint_keys), k1,
             Length(taint_keys'), Length(taint_keys), t1)
    /\ Grown(Cardinality(integ_keys'), Cardinality(integ_keys), k2,
             Length(integ_keys'), Length(integ_keys), t2)

(* Labels added to one agent give it at most one key in each map.          *)
LEMMA LabelKeysGrow ==
    ASSUME LimitsInv, NEW a \in AgentId,
           NEW C \in SUBSET ConfLevel, NEW I \in SUBSET IntegLevel,
           taint_levels' = extend_into(taint_levels, a, C),
           integ_levels' = extend_into(integ_levels, a, I)
    PROVE  /\ LabelKeysGrown(NewKey(taint_keys, a), NewKey(taint_keys, a) * Bytes(a),
                             NewKey(integ_keys, a), NewKey(integ_keys, a) * Bytes(a))
           /\ LabelKeysGrown(NewKey(taint_keys, a), Bytes(a), NewKey(integ_keys, a), Bytes(a))
  <1>0. TypeOK /\ AllFinite /\ a \in Opaque
    BY OpaqueParts DEF LimitsInv
  <1>1. /\ taint_keys \in SUBSET Opaque /\ integ_keys \in SUBSET Opaque
        /\ IsFiniteSet(taint_keys) /\ IsFiniteSet(integ_keys)
    BY <1>0, KeysAreAgents, OpaqueParts DEF AllFinite
  <1>2. /\ taint_keys' \in SUBSET (taint_keys \cup {a})
        /\ integ_keys' \in SUBSET (integ_keys \cup {a})
    BY <1>0 DEF TypeOK, taint_keys, integ_keys, extend_into
  <1>3. /\ IsFiniteSet(taint_keys')
        /\ Grown(Cardinality(taint_keys'), Cardinality(taint_keys), NewKey(taint_keys, a),
                 Length(taint_keys'), Length(taint_keys), NewKey(taint_keys, a) * Bytes(a))
        /\ Grown(Cardinality(taint_keys'), Cardinality(taint_keys), NewKey(taint_keys, a),
                 Length(taint_keys'), Length(taint_keys), Bytes(a))
    BY <1>0, <1>1, <1>2, SetGrows DEF Grown
  <1>4. /\ IsFiniteSet(integ_keys')
        /\ Grown(Cardinality(integ_keys'), Cardinality(integ_keys), NewKey(integ_keys, a),
                 Length(integ_keys'), Length(integ_keys), NewKey(integ_keys, a) * Bytes(a))
        /\ Grown(Cardinality(integ_keys'), Cardinality(integ_keys), NewKey(integ_keys, a),
                 Length(integ_keys'), Length(integ_keys), Bytes(a))
    BY <1>0, <1>1, <1>2, SetGrows DEF Grown
  <1>5. QED
    BY <1>3, <1>4 DEF LabelKeysGrown

(* Ingesting reserves the keys the agent lacks.                            *)
LEMMA IngestFits ==
    ASSUME LimitsInv, TypeOK', NEW a \in AgentId, NEW src, NEW c \in ConfLevel,
           NEW i \in IntegLevel, ingest_fits(a, c, i), ingest(a, src, c, i)
    PROVE  AllFinite' /\ check_state'
  <1> DEFINE k1 == NewKey(taint_keys, a)
             k2 == NewKey(integ_keys, a)
             t1 == k1 * Bytes(a)
             t2 == k2 * Bytes(a)
             t == (k1 + k2) * Bytes(a)
  <1>0. /\ TypeOK /\ AllFinite
        /\ UNCHANGED <<agentVars, challenges, consumedVars, crossing_grants, tool_registered>>
    BY DEF LimitsInv, ingest
  <1>1. cap_keys' = cap_keys
    BY <1>0 DEF cap_keys, agentVars
  <1>2. /\ IsFiniteSet(DOMAIN pending')
        /\ Grown(Cardinality(DOMAIN pending'), Cardinality(DOMAIN pending), 0,
                 pending_text(pending'), pending_text(pending), 0)
    <2>1. pending' = pending \/ pending' = demote_all_of(pending, a)
      BY DEF ingest
    <2>2. QED
      BY <2>1, DemoteFits
  <1>3. LabelKeysGrown(k1, t1, k2, t2)
    <2>1. /\ taint_levels' = extend_into(taint_levels, a, {c})
          /\ integ_levels' = extend_into(integ_levels, a, {i})
      BY DEF ingest, insert_into, extend_into
    <2>2. {c} \in SUBSET ConfLevel /\ {i} \in SUBSET IntegLevel
      OBVIOUS
    <2>3. QED
      BY <2>1, <2>2, LabelKeysGrow
  <1>4. k1 \in Nat /\ k2 \in Nat /\ t1 \in Nat /\ t2 \in Nat /\ t \in Nat /\ t = t1 + t2
    <2>1. k1 \in {0, 1} /\ k2 \in {0, 1} /\ Bytes(a) \in Nat
      BY OpaqueParts DEF NewKey
    <2> HIDE DEF k1, k2
    <2>2. t1 \in {0, Bytes(a)} /\ t2 \in {0, Bytes(a)}
      BY <2>1
    <2>3. t = t1 + t2
      <3>1. CASE k1 = 0
        BY <2>1, <3>1
      <3>2. CASE k1 = 1 /\ k2 = 0
        BY <2>1, <3>2
      <3>3. CASE k1 = 1 /\ k2 = 1
        BY <2>1, <3>3
      <3>4. QED
        BY <2>1, <3>1, <3>2, <3>3
    <2> HIDE DEF t1, t2, t
    <2>4. QED
      BY <2>1, <2>2, <2>3
  <1>5. /\ checked_capacity(Cardinality(taint_keys), k1, MaxKeys)
        /\ checked_capacity(Cardinality(integ_keys), k2, MaxKeys)
        /\ text_fits(t)
    BY DEF ingest_fits, label_keys_fit
  <1> HIDE DEF k1, k2, t1, t2, t
  <1>6. AllFinite'
    BY <1>0, <1>1, <1>2, <1>3 DEF AllFinite, LabelKeysGrown, agentVars, consumedVars
  <1>7. SizesFit'
    BY <1>0, <1>1, <1>2, <1>3, <1>4, <1>5, PartsNat, LimitsAssumption
       DEF LimitsInv, check_state, check_state_shape, SizesFit, Grown, LabelKeysGrown,
           agentVars, consumedVars, checked_capacity
  <1>8. retained_text' <= retained_text + t
    <2>1. /\ agents_text' = agents_text /\ consumed_text' = consumed_text
          /\ others_text' = others_text
      BY <1>0, <1>1 DEF agents_text, consumed_text, others_text, agentVars, consumedVars
    <2>2. labels_text' <= labels_text + t
      BY <1>0, <1>3, <1>4, PartsNat DEF labels_text, LabelKeysGrown, Grown
    <2>3. records_text' <= records_text + 0
      BY <1>0, <1>2, PartsNat DEF records_text, Grown
    <2>4. /\ agents_text' <= agents_text + 0 /\ consumed_text' <= consumed_text + 0
          /\ others_text' <= others_text + 0
      BY <1>0, <2>1, TextIsItsParts DEF TextInParts
    <2>5. retained_text' <= retained_text + (0 + t + 0 + 0 + 0) /\ 0 + t + 0 + 0 + 0 = t
      BY <1>4, <1>6, <2>2, <2>3, <2>4, TextGrows
    <2>6. QED
      BY <2>5
  <1>9. QED
    BY <1>4, <1>5, <1>6, <1>7, <1>8, StaysWithin

(* One invocation at most gains a record, one a challenge.                 *)
RecordsGrown(c1, t1, c2, t2) ==
    /\ IsFiniteSet(DOMAIN pending') /\ IsFiniteSet(DOMAIN challenges')
    /\ Grown(Cardinality(DOMAIN pending'), Cardinality(DOMAIN pending), c1,
             pending_text(pending'), pending_text(pending), t1)
    /\ Grown(Cardinality(DOMAIN challenges'), Cardinality(DOMAIN challenges), c2,
             challenges_text(challenges'), challenges_text(challenges), t2)

(* A written record takes the text of its entry.                           *)
LEMMA RecordWritten ==
    ASSUME LimitsInv, TypeOK', NEW i \in InvocationId, NEW j \in PendingInvocation,
           pending' = insert(pending, i, j), NEW t \in Nat,
           Bytes(i) + Bytes(j.agent) + policy_text(j.policy) + admission_text(j.admission) = t
    PROVE  /\ IsFiniteSet(DOMAIN pending')
           /\ Grown(Cardinality(DOMAIN pending'), Cardinality(DOMAIN pending), 1,
                    pending_text(pending'), pending_text(pending), t)
  <1>1. /\ IsVecMap(pending, InvocationId, PendingInvocation)
        /\ IsVecMap(pending', InvocationId, PendingInvocation)
        /\ IsFiniteSet(DOMAIN pending)
    BY DEF LimitsInv, TypeOK, AllFinite
  <1>2. /\ DOMAIN pending' \subseteq DOMAIN pending \cup {i}
        /\ \A x \in DOMAIN pending' \ {i} : SameGates(pending[x], pending'[x])
        /\ pending'[i] = j
    BY DEF insert, SameGates
  <1>3. i \in DOMAIN pending' => pending_entry(i, pending') <= t
    BY <1>2 DEF pending_entry
  <1>4. QED
    BY <1>1, <1>2, <1>3, PendingGrow DEF Grown

(* So does a written challenge.                                            *)
LEMMA ChallengeWritten ==
    ASSUME LimitsInv, TypeOK', NEW i \in InvocationId, NEW sc \in ChallengeScope,
           challenges' = insert(challenges, i, sc), NEW t \in Nat,
           Bytes(i) + Bytes(sc.challenge) + Bytes(sc.agent) + policy_text(sc.policy)
             + Bytes(sc.args_hash) = t
    PROVE  /\ IsFiniteSet(DOMAIN challenges')
           /\ Grown(Cardinality(DOMAIN challenges'), Cardinality(DOMAIN challenges), 1,
                    challenges_text(challenges'), challenges_text(challenges), t)
  <1>1. /\ IsVecMap(challenges, InvocationId, ChallengeScope)
        /\ IsVecMap(challenges', InvocationId, ChallengeScope)
        /\ IsFiniteSet(DOMAIN challenges)
    BY DEF LimitsInv, TypeOK, AllFinite
  <1>2. /\ DOMAIN challenges' \subseteq DOMAIN challenges \cup {i}
        /\ \A x \in DOMAIN challenges' \ {i} : challenges'[x] = challenges[x]
        /\ challenges'[i] = sc
    BY DEF insert
  <1>3. i \in DOMAIN challenges' => challenge_entry(i, challenges') <= t
    BY <1>2 DEF challenge_entry
  <1>4. QED
    BY <1>1, <1>2, <1>3, ChallengesGrow DEF Grown

(* What admission writes: a record or a challenge.                         *)
LEMMA BeginRecords ==
    ASSUME LimitsInv, TypeOK', NEW a \in AgentId, NEW inv \in InvocationId,
           NEW chal \in ChallengeId, NEW snap \in Snapshots, NEW egr \in SUBSET EgressKind,
           NEW ah \in ContentHash, NEW authorized \in BOOLEAN,
           begin_invocation(a, inv, chal, snap, egr, ah, authorized),
           NEW tp \in Nat, tp = Bytes(inv) + Bytes(a) + policy_text(snap),
           NEW tc \in Nat, tc = Bytes(inv) + Bytes(chal) + Bytes(a) + policy_text(snap) + Bytes(ah)
    PROVE  RecordsGrown(1, tp, 0, 0) \/ RecordsGrown(0, 0, 1, tc)
  <1> DEFINE plain == NewPending(a, snap, egr, [kind |-> "plain"], "permitted", authorized)
             bypassed == NewPending(a, snap, egr, [kind |-> "bypassed"], "monitor_bypassed",
                                    authorized)
             scope == [challenge |-> chal, agent |-> a, policy |-> snap, egress |-> egr,
                       args_hash |-> ah, authorized |-> authorized]
  <1>0. TypeOK /\ AllFinite
    BY DEF LimitsInv
  <1>1. snap \in ActionPolicySnapshot /\ policy_text(snap) \in Nat
    BY InputsAssumption, PolicyText
  <1>2. /\ plain \in PendingInvocation /\ bypassed \in PendingInvocation
        /\ plain.agent = a /\ plain.policy = snap /\ plain.admission = [kind |-> "plain"]
        /\ bypassed.agent = a /\ bypassed.policy = snap
        /\ bypassed.admission = [kind |-> "bypassed"]
    BY <1>1 DEF NewPending, PendingInvocation, Admission, Disposition
  <1>3. /\ scope \in ChallengeScope /\ scope.challenge = chal /\ scope.agent = a
        /\ scope.policy = snap /\ scope.args_hash = ah
    BY <1>1 DEF ChallengeScope
  <1>4. admission_text([kind |-> "plain"]) = 0 /\ admission_text([kind |-> "bypassed"]) = 0
    BY DEF admission_text
  <1>5. \/ pending' = insert(pending, inv, plain) /\ challenges' = challenges
        \/ pending' = insert(pending, inv, bypassed) /\ challenges' = challenges
        \/ challenges' = insert(challenges, inv, scope) /\ pending' = pending
    BY DEF begin_invocation
  <1> HIDE DEF plain, bypassed, scope
  <1>6. ASSUME NEW j \in PendingInvocation, j = plain \/ j = bypassed,
               pending' = insert(pending, inv, j), challenges' = challenges
        PROVE  RecordsGrown(1, tp, 0, 0)
    <2>1. Bytes(inv) + Bytes(j.agent) + policy_text(j.policy) + admission_text(j.admission) = tp
      <3>1. /\ j.agent = a /\ j.policy = snap /\ admission_text(j.admission) = 0
            /\ Bytes(inv) \in Nat /\ Bytes(a) \in Nat
        BY <1>2, <1>4, <1>6, OpaqueParts
      <3>2. QED
        BY <1>1, <3>1
    <2>2. /\ IsFiniteSet(DOMAIN pending')
          /\ Grown(Cardinality(DOMAIN pending'), Cardinality(DOMAIN pending), 1,
                   pending_text(pending'), pending_text(pending), tp)
      BY <1>6, <2>1, RecordWritten
    <2>3. /\ IsFiniteSet(DOMAIN challenges')
          /\ Grown(Cardinality(DOMAIN challenges'), Cardinality(DOMAIN challenges), 0,
                   challenges_text(challenges'), challenges_text(challenges), 0)
      BY <1>0, <1>6, PartsNat DEF AllFinite, Grown
    <2>4. QED
      BY <2>2, <2>3 DEF RecordsGrown
  <1>7. ASSUME challenges' = insert(challenges, inv, scope), pending' = pending
        PROVE  RecordsGrown(0, 0, 1, tc)
    <2>1. Bytes(inv) + Bytes(scope.challenge) + Bytes(scope.agent) + policy_text(scope.policy)
             + Bytes(scope.args_hash) = tc
      BY <1>3
    <2>2. /\ IsFiniteSet(DOMAIN challenges')
          /\ Grown(Cardinality(DOMAIN challenges'), Cardinality(DOMAIN challenges), 1,
                   challenges_text(challenges'), challenges_text(challenges), tc)
      BY <1>3, <1>7, <2>1, ChallengeWritten
    <2>3. /\ IsFiniteSet(DOMAIN pending')
          /\ Grown(Cardinality(DOMAIN pending'), Cardinality(DOMAIN pending), 0,
                   pending_text(pending'), pending_text(pending), 0)
      BY <1>0, <1>7, PartsNat DEF AllFinite, Grown
    <2>4. QED
      BY <2>2, <2>3 DEF RecordsGrown
  <1>8. QED
    BY <1>2, <1>5, <1>6, <1>7

(* Admission reserves for a challenge, the larger of the two, and for the  *)
(* consumed id.                                                            *)
LEMMA BeginFits ==
    ASSUME LimitsInv, TypeOK', NEW a \in AgentId, NEW inv \in InvocationId,
           NEW chal \in ChallengeId, NEW snap \in Snapshots, NEW egr \in SUBSET EgressKind,
           NEW ah \in ContentHash, NEW authorized \in BOOLEAN,
           begin_invocation_fits(a, inv, chal, snap, ah),
           begin_invocation(a, inv, chal, snap, egr, ah, authorized)
    PROVE  AllFinite' /\ check_state'
  <1>0. /\ TypeOK /\ AllFinite
        /\ UNCHANGED <<agentVars, labelVars, consumed_attestations, consumed_crossings,
                       crossing_grants, tool_registered>>
    BY DEF LimitsInv, begin_invocation
  <1>1. cap_keys' = cap_keys /\ taint_keys' = taint_keys /\ integ_keys' = integ_keys
    BY <1>0 DEF cap_keys, taint_keys, integ_keys, agentVars, labelVars
  <1>2. /\ Bytes(inv) \in Nat /\ Bytes(a) \in Nat /\ Bytes(chal) \in Nat /\ Bytes(ah) \in Nat
        /\ Bytes(snap.tool) \in Nat /\ Bytes(snap.policy_digest) \in Nat
    <2>1. snap \in ActionPolicySnapshot
      BY InputsAssumption
    <2>2. snap.tool \in ToolId /\ snap.policy_digest \in PolicyDigest
      BY <2>1 DEF ActionPolicySnapshot
    <2>3. QED
      BY <2>2, OpaqueParts
  <1>3. PICK ti \in Nat, tp \in Nat, tc \in Nat :
          /\ ti = Bytes(inv) /\ tp = Bytes(inv) + Bytes(a) + policy_text(snap)
          /\ tc = Bytes(inv) + Bytes(chal) + Bytes(a) + policy_text(snap) + Bytes(ah)
    BY <1>2 DEF policy_text
  <1>4. /\ tp <= tc
        /\ tc + ti = 2 * Bytes(inv) + Bytes(a) + Bytes(chal) + Bytes(snap.tool)
                     + Bytes(snap.policy_digest) + Bytes(ah)
    BY <1>2, <1>3 DEF policy_text
  <1>5. text_fits(tc + ti)
    BY <1>4 DEF begin_invocation_fits
  <1>6. RecordsGrown(1, tp, 0, 0) \/ RecordsGrown(0, 0, 1, tc)
    BY <1>3, BeginRecords
  <1>7. /\ IsFiniteSet(consumed_ids')
        /\ Grown(Cardinality(consumed_ids'), Cardinality(consumed_ids), 1,
                 Length(consumed_ids'), Length(consumed_ids), ti)
    <2>1. /\ consumed_ids \in SUBSET Opaque /\ IsFiniteSet(consumed_ids) /\ inv \in Opaque
          /\ consumed_ids' \in SUBSET (consumed_ids \cup {inv})
      BY <1>0, OpaqueParts DEF TypeOK, AllFinite, begin_invocation
    <2>2. QED
      BY <1>3, <2>1, SetGrows DEF Grown
  <1>8. AllFinite'
    BY <1>0, <1>1, <1>6, <1>7 DEF AllFinite, RecordsGrown, agentVars
  <1>9. SizesFit'
    <2>1. /\ Cardinality(DOMAIN pending') <= MaxPending
          /\ Cardinality(DOMAIN challenges') <= MaxChallenges
          /\ Cardinality(consumed_ids') <= MaxIds
      BY <1>0, <1>6, <1>7, PartsNat, LimitsAssumption
         DEF RecordsGrown, Grown, begin_invocation_fits, checked_capacity
    <2>2. QED
      BY <1>0, <1>1, <2>1
         DEF LimitsInv, check_state, check_state_shape, SizesFit, agentVars
  <1>10. retained_text' <= retained_text + (tc + ti)
    <2>1. /\ agents_text' = agents_text /\ labels_text' = labels_text
          /\ others_text' = others_text
      BY <1>0, <1>1 DEF agents_text, labels_text, others_text, agentVars
    <2>2. records_text' <= records_text + tc
      BY <1>0, <1>4, <1>6, PartsNat DEF records_text, RecordsGrown, Grown
    <2>3. consumed_text' <= consumed_text + ti
      BY <1>0, <1>7, PartsNat DEF consumed_text, Grown
    <2>4. /\ agents_text' <= agents_text + 0 /\ labels_text' <= labels_text + 0
          /\ others_text' <= others_text + 0
      BY <1>0, <2>1, TextIsItsParts DEF TextInParts
    <2>5. retained_text' <= retained_text + (0 + 0 + tc + ti + 0)
      BY <1>8, <2>2, <2>3, <2>4, TextGrows
    <2>6. 0 + 0 + tc + ti + 0 = tc + ti
      OBVIOUS
    <2>7. QED
      BY <2>5, <2>6
  <1>11. tc + ti \in Nat
    OBVIOUS
  <1>12. QED
    BY <1>5, <1>8, <1>9, <1>10, <1>11, StaysWithin

(* An inspection reserves the attestation twice and the record it may      *)
(* write.                                                                  *)
LEMMA InspectFits ==
    ASSUME LimitsInv, TypeOK', NEW inv \in InvocationId, NEW att \in Inspections,
           authorize_inspected_fits(inv, att), authorize_inspected(inv, att)
    PROVE  AllFinite' /\ check_state'
  <1> DEFINE sc == challenges[inv]
             j == NewPending(sc.agent, sc.policy, sc.egress,
                             [kind |-> "inspected", att |-> att.id], "permitted", sc.authorized)
  <1>0. /\ TypeOK /\ AllFinite
        /\ UNCHANGED <<agentVars, labelVars, consumed_ids, consumed_crossings,
                       crossing_grants, tool_registered>>
    BY DEF LimitsInv, authorize_inspected
  <1>1. cap_keys' = cap_keys /\ taint_keys' = taint_keys /\ integ_keys' = integ_keys
    BY <1>0 DEF cap_keys, taint_keys, integ_keys, agentVars, labelVars
  <1>2. inv \in DOMAIN challenges /\ sc \in ChallengeScope /\ att.id \in AttestationId
    BY <1>0, InputsAssumption
       DEF TypeOK, authorize_inspected, InspectionAttestation, IsVecMap
  <1>3. /\ sc.agent \in AgentId /\ sc.policy \in ActionPolicySnapshot
        /\ sc.policy.tool \in ToolId /\ sc.policy.policy_digest \in PolicyDigest
    BY <1>2 DEF ChallengeScope, ActionPolicySnapshot
  <1>4. /\ Bytes(inv) \in Nat /\ Bytes(sc.agent) \in Nat /\ Bytes(att.id) \in Nat
        /\ Bytes(sc.policy.tool) \in Nat /\ Bytes(sc.policy.policy_digest) \in Nat
    BY <1>2, <1>3, OpaqueParts
  <1>5. /\ j \in PendingInvocation /\ j.agent = sc.agent /\ j.policy = sc.policy
        /\ j.admission = [kind |-> "inspected", att |-> att.id]
    BY <1>2 DEF NewPending, ChallengeScope, PendingInvocation, Admission, Disposition
  <1>6. admission_text([kind |-> "inspected", att |-> att.id]) = Bytes(att.id)
    BY DEF admission_text
  <1>7. /\ pending' = insert(pending, inv, j) \/ pending' = pending
        /\ challenges' = remove(challenges, inv)
        /\ consumed_attestations' = consumed_attestations \cup {att.id}
    BY DEF authorize_inspected
  <1>8. /\ checked_capacity(Cardinality(DOMAIN pending), 1, MaxPending)
        /\ checked_capacity(Cardinality(consumed_attestations), 1, MaxAttestations)
        /\ text_fits(2 * Bytes(att.id) + (Bytes(inv) + Bytes(sc.agent) + Bytes(sc.policy.tool)
                                          + Bytes(sc.policy.policy_digest)))
    BY <1>2 DEF authorize_inspected_fits
  <1> HIDE DEF j, sc
  <1>9. PICK tr \in Nat, ta \in Nat :
          /\ tr = Bytes(inv) + Bytes(j.agent) + policy_text(j.policy)
                  + admission_text(j.admission)
          /\ ta = Bytes(att.id)
          /\ tr + ta = 2 * Bytes(att.id) + (Bytes(inv) + Bytes(sc.agent)
                        + Bytes(sc.policy.tool) + Bytes(sc.policy.policy_digest))
    BY <1>4, <1>5, <1>6 DEF policy_text
  <1>10. text_fits(tr + ta)
    BY <1>8, <1>9
  <1>11. /\ IsFiniteSet(DOMAIN pending')
         /\ Grown(Cardinality(DOMAIN pending'), Cardinality(DOMAIN pending), 1,
                  pending_text(pending'), pending_text(pending), tr)
    <2>1. CASE pending' = insert(pending, inv, j)
      BY <1>5, <1>9, <2>1, RecordWritten
    <2>2. CASE pending' = pending
      BY <1>0, <2>2, PartsNat DEF AllFinite, Grown
    <2>3. QED
      BY <1>7, <2>1, <2>2
  <1>12. /\ IsFiniteSet(DOMAIN challenges')
         /\ Grown(Cardinality(DOMAIN challenges'), Cardinality(DOMAIN challenges), 0,
                  challenges_text(challenges'), challenges_text(challenges), 0)
    <2>1. /\ DOMAIN challenges' \subseteq DOMAIN challenges
          /\ \A i \in DOMAIN challenges' : challenges'[i] = challenges[i]
      BY <1>7 DEF remove, Restrict
    <2>2. /\ IsVecMap(challenges, InvocationId, ChallengeScope)
          /\ IsVecMap(challenges', InvocationId, ChallengeScope)
          /\ IsFiniteSet(DOMAIN challenges)
      BY <1>0 DEF TypeOK, AllFinite
    <2>3. QED
      BY <1>0, <2>1, <2>2, PartsNat, ChallengesShrink DEF Grown
  <1>13. /\ IsFiniteSet(consumed_attestations')
         /\ Grown(Cardinality(consumed_attestations'), Cardinality(consumed_attestations), 1,
                  Length(consumed_attestations'), Length(consumed_attestations), ta)
    <2>1. /\ consumed_attestations \in SUBSET Opaque /\ IsFiniteSet(consumed_attestations)
          /\ att.id \in Opaque
          /\ consumed_attestations' \in SUBSET (consumed_attestations \cup {att.id})
      BY <1>0, <1>2, <1>7, OpaqueParts DEF TypeOK, AllFinite
    <2>2. QED
      BY <1>9, <2>1, SetGrows DEF Grown
  <1>14. AllFinite'
    BY <1>0, <1>1, <1>11, <1>12, <1>13 DEF AllFinite, agentVars
  <1>15. SizesFit'
    <2>1. /\ Cardinality(DOMAIN pending') <= MaxPending
          /\ Cardinality(DOMAIN challenges') <= MaxChallenges
          /\ Cardinality(consumed_attestations') <= MaxAttestations
      BY <1>0, <1>8, <1>11, <1>12, <1>13, PartsNat, LimitsAssumption
         DEF LimitsInv, check_state, check_state_shape, Grown, checked_capacity
    <2>2. QED
      BY <1>0, <1>1, <2>1
         DEF LimitsInv, check_state, check_state_shape, SizesFit, agentVars
  <1>16. retained_text' <= retained_text + (tr + ta)
    <2>1. /\ agents_text' = agents_text /\ labels_text' = labels_text
          /\ others_text' = others_text
      BY <1>0, <1>1 DEF agents_text, labels_text, others_text, agentVars
    <2>2. records_text' <= records_text + tr
      BY <1>0, <1>11, <1>12, PartsNat DEF records_text, Grown
    <2>3. consumed_text' <= consumed_text + ta
      BY <1>0, <1>13, PartsNat DEF consumed_text, Grown
    <2>4. /\ agents_text' <= agents_text + 0 /\ labels_text' <= labels_text + 0
          /\ others_text' <= others_text + 0
      BY <1>0, <2>1, TextIsItsParts DEF TextInParts
    <2>5. retained_text' <= retained_text + (0 + 0 + tr + ta + 0)
      BY <1>14, <2>2, <2>3, <2>4, TextGrows
    <2>6. 0 + 0 + tr + ta + 0 = tr + ta
      OBVIOUS
    <2>7. QED
      BY <2>5, <2>6
  <1>17. tr + ta \in Nat
    OBVIOUS
  <1>18. QED
    BY <1>10, <1>14, <1>15, <1>16, <1>17, StaysWithin

(* Settling reserves the owner's two label keys and the resolution.        *)
LEMMA SettleFits ==
    ASSUME LimitsInv, TypeOK', NEW inv \in InvocationId, NEW outcome \in Outcome,
           NEW att \in Maybe(Resolutions),
           settle_invocation_fits(inv, att), settle_invocation(inv, outcome, att)
    PROVE  AllFinite' /\ check_state'
  <1> DEFINE j == pending[inv]
             a == j.agent
             k1 == NewKey(taint_keys, a)
             k2 == NewKey(integ_keys, a)
             e == IF att = None THEN 0 ELSE Bytes(att.id)
  <1>0. /\ TypeOK /\ AllFinite
        /\ UNCHANGED <<agentVars, challenges, consumed_ids, consumed_crossings,
                       crossing_grants, tool_registered>>
    BY DEF LimitsInv, settle_invocation
  <1>1. cap_keys' = cap_keys
    BY <1>0 DEF cap_keys, agentVars
  <1>2. /\ inv \in DOMAIN pending
        /\ DOMAIN pending' \subseteq DOMAIN pending
        /\ \A i \in DOMAIN pending' : SameGates(pending[i], pending'[i])
    BY <1>0, SettleRecords
  <1>3. /\ a \in AgentId /\ j.policy.output_conf \in ConfLevel
        /\ j.policy.output_integ \in IntegLevel
    <2>1. j \in PendingInvocation
      BY <1>0, <1>2 DEF TypeOK, IsVecMap
    <2>2. QED
      BY <2>1 DEF PendingInvocation, ActionPolicySnapshot
  <1>4. att # None => att.id \in AttestationId
    BY InputsAssumption DEF Maybe, ResolutionAttestation
  <1>5. k1 \in Nat /\ k2 \in Nat /\ Bytes(a) \in Nat /\ e \in Nat
    BY <1>3, <1>4, OpaqueParts DEF NewKey
  <1>6. /\ checked_capacity(Cardinality(taint_keys), k1, MaxKeys)
        /\ checked_capacity(Cardinality(integ_keys), k2, MaxKeys)
        /\ att # None => checked_capacity(Cardinality(consumed_attestations), 1, MaxAttestations)
        /\ text_fits(2 * Bytes(a) + e)
    BY <1>2 DEF settle_invocation_fits, label_keys_fit
  <1>7. LabelKeysGrown(k1, Bytes(a), k2, Bytes(a))
    <2>1. CASE absorbs(outcome)
      <3>1. /\ taint_levels' = extend_into(taint_levels, a, {j.policy.output_conf})
            /\ integ_levels' = extend_into(integ_levels, a, {j.policy.output_integ})
        BY <2>1 DEF settle_invocation, insert_into, extend_into
      <3>2. /\ {j.policy.output_conf} \in SUBSET ConfLevel
            /\ {j.policy.output_integ} \in SUBSET IntegLevel
        BY <1>3
      <3>3. QED
        BY <1>3, <3>1, <3>2, LabelKeysGrow
    <2>2. CASE ~absorbs(outcome)
      <3>1. UNCHANGED labelVars
        BY <2>2 DEF settle_invocation
      <3>2. taint_keys' = taint_keys /\ integ_keys' = integ_keys
        BY <3>1 DEF taint_keys, integ_keys, labelVars
      <3> HIDE DEF k1, k2, a
      <3>3. QED
        BY <1>0, <1>5, <3>2, PartsNat DEF AllFinite, LabelKeysGrown, Grown
    <2>3. QED
      BY <2>1, <2>2
  <1>8. /\ IsFiniteSet(DOMAIN pending')
        /\ Grown(Cardinality(DOMAIN pending'), Cardinality(DOMAIN pending), 0,
                 pending_text(pending'), pending_text(pending), 0)
    BY <1>2, RecordsShrink
  <1>9. /\ IsFiniteSet(consumed_attestations')
        /\ Length(consumed_attestations') <= Length(consumed_attestations) + e
        /\ Cardinality(consumed_attestations') <= MaxAttestations
    <2>1. CASE att = None
      <3>1. consumed_attestations' = consumed_attestations /\ e = 0
        BY <2>1 DEF settle_invocation
      <3>2. Length(consumed_attestations) \in Nat
        BY <1>0, PartsNat
      <3>3. QED
        BY <1>0, <3>1, <3>2 DEF AllFinite, LimitsInv, check_state, check_state_shape
    <2>2. CASE att # None
      <3>1. /\ consumed_attestations \in SUBSET Opaque /\ IsFiniteSet(consumed_attestations)
            /\ att.id \in Opaque
            /\ consumed_attestations' \in SUBSET (consumed_attestations \cup {att.id})
        BY <1>0, <1>4, <2>2, OpaqueParts DEF TypeOK, AllFinite, settle_invocation
      <3>2. /\ IsFiniteSet(consumed_attestations')
            /\ Cardinality(consumed_attestations') \in Nat
            /\ Cardinality(consumed_attestations') <= Cardinality(consumed_attestations) + 1
            /\ Length(consumed_attestations') <= Length(consumed_attestations) + Bytes(att.id)
        BY <3>1, SetGrows
      <3>3. e = Bytes(att.id)
        BY <2>2
      <3>4. Cardinality(consumed_attestations) \in Nat /\ MaxAttestations \in Nat
        BY <1>0, PartsNat, LimitsAssumption
      <3>5. QED
        BY <1>6, <2>2, <3>2, <3>3, <3>4 DEF checked_capacity
    <2>3. QED
      BY <2>1, <2>2
  <1> HIDE DEF j, a, k1, k2, e
  <1>10. AllFinite'
    BY <1>0, <1>1, <1>7, <1>8, <1>9 DEF AllFinite, LabelKeysGrown, agentVars
  <1>11. SizesFit'
    <2>1. /\ Cardinality(DOMAIN pending') <= MaxPending
          /\ Cardinality(taint_keys') <= MaxKeys /\ Cardinality(integ_keys') <= MaxKeys
      BY <1>0, <1>5, <1>6, <1>7, <1>8, PartsNat, LimitsAssumption
         DEF LimitsInv, check_state, check_state_shape, Grown, LabelKeysGrown, checked_capacity
    <2>2. QED
      BY <1>0, <1>1, <1>9, <2>1
         DEF LimitsInv, check_state, check_state_shape, SizesFit, agentVars
  <1>12. PICK tl \in Nat : tl = 2 * Bytes(a)
    BY <1>5
  <1>13. retained_text' <= retained_text + (tl + e)
    <2>1. agents_text' = agents_text /\ others_text' = others_text
      BY <1>0, <1>1 DEF agents_text, others_text, agentVars
    <2>2. labels_text' <= labels_text + tl
      BY <1>0, <1>5, <1>7, <1>12, PartsNat DEF labels_text, LabelKeysGrown, Grown
    <2>3. records_text' <= records_text + 0
      BY <1>0, <1>8, PartsNat DEF records_text, Grown
    <2>4. consumed_text' <= consumed_text + e
      <3>1. Length(consumed_attestations') \in Nat
        BY <1>9, SetShrinks, OpaqueParts DEF TypeOK
      <3>2. QED
        BY <1>0, <1>5, <1>9, <3>1, PartsNat DEF consumed_text
    <2>5. agents_text' <= agents_text + 0 /\ others_text' <= others_text + 0
      BY <1>0, <2>1, TextIsItsParts DEF TextInParts
    <2>6. retained_text' <= retained_text + (0 + tl + 0 + e + 0)
      BY <1>5, <1>10, <2>2, <2>3, <2>4, <2>5, TextGrows
    <2>7. 0 + tl + 0 + e + 0 = tl + e
      BY <1>5
    <2>8. QED
      BY <2>6, <2>7
  <1>14. tl + e \in Nat /\ text_fits(tl + e)
    BY <1>5, <1>6, <1>12
  <1>15. QED
    BY <1>10, <1>11, <1>13, <1>14, StaysWithin

(* A crossing reserves its id, the receiver's two label keys and the       *)
(* evidence.                                                               *)
LEMMA CrossFits ==
    ASSUME LimitsInv, TypeOK', NEW q \in CrossInputs, cross_output_fits(q), cross_output(q)
    PROVE  AllFinite' /\ check_state'
  <1> DEFINE a == q.rcv
             k1 == NewKey(taint_keys, a)
             k2 == NewKey(integ_keys, a)
             e == IF q.evidence = None THEN 0 ELSE Bytes(q.evidence.id)
  <1>0. /\ TypeOK /\ AllFinite
        /\ UNCHANGED <<agentVars, challenges, consumed_ids, tool_registered>>
    BY DEF LimitsInv, cross_output
  <1>1. cap_keys' = cap_keys
    BY <1>0 DEF cap_keys, agentVars
  <1>2. /\ q \in CrossInput /\ a \in AgentId /\ q.crossing \in CrossingId
        /\ q.evidence # None => q.evidence.id \in AttestationId
    BY InputsAssumption DEF CrossInput, Maybe, ConformanceAttestation
  <1>3. /\ k1 \in Nat /\ k2 \in Nat /\ Bytes(a) \in Nat /\ e \in Nat
        /\ Bytes(q.crossing) \in Nat
    BY <1>2, OpaqueParts DEF NewKey
  <1>4. /\ checked_capacity(Cardinality(consumed_crossings), 1, MaxCrossings)
        /\ q.evidence # None =>
              checked_capacity(Cardinality(consumed_attestations), 1, MaxAttestations)
        /\ checked_capacity(Cardinality(taint_keys), k1, MaxKeys)
        /\ checked_capacity(Cardinality(integ_keys), k2, MaxKeys)
        /\ text_fits(Bytes(q.crossing) + 2 * Bytes(a) + e)
    BY DEF cross_output_fits, label_keys_fit
  <1>5. LabelKeysGrown(k1, Bytes(a), k2, Bytes(a))
    <2>1. released_conf(q) \in SUBSET ConfLevel /\ released_integ(q) \in SUBSET IntegLevel
      BY <1>0, <1>2 DEF TypeOK, released_conf, released_integ, CrossInput
    <2>2. /\ taint_levels' = extend_into(taint_levels, a, released_conf(q))
          /\ integ_levels' = extend_into(integ_levels, a, released_integ(q))
      BY DEF cross_output
    <2>3. QED
      BY <1>2, <2>1, <2>2, LabelKeysGrow
  <1>6. /\ IsFiniteSet(DOMAIN pending')
        /\ Grown(Cardinality(DOMAIN pending'), Cardinality(DOMAIN pending), 0,
                 pending_text(pending'), pending_text(pending), 0)
    <2>1. pending' = pending \/ pending' = demote_all_of(pending, a)
      BY DEF cross_output
    <2>2. QED
      BY <2>1, DemoteFits
  <1>7. /\ IsFiniteSet(consumed_crossings')
        /\ Grown(Cardinality(consumed_crossings'), Cardinality(consumed_crossings), 1,
                 Length(consumed_crossings'), Length(consumed_crossings), Bytes(q.crossing))
    <2>1. /\ consumed_crossings \in SUBSET Opaque /\ IsFiniteSet(consumed_crossings)
          /\ q.crossing \in Opaque
          /\ consumed_crossings' \in SUBSET (consumed_crossings \cup {q.crossing})
      BY <1>0, <1>2, OpaqueParts DEF TypeOK, AllFinite, cross_output
    <2>2. QED
      BY <2>1, SetGrows DEF Grown
  <1>8. /\ IsFiniteSet(consumed_attestations')
        /\ Length(consumed_attestations') <= Length(consumed_attestations) + e
        /\ Cardinality(consumed_attestations') <= MaxAttestations
    <2>1. CASE branch(q) # "endorsed"
      <3>1. consumed_attestations' = consumed_attestations
        BY <2>1 DEF cross_output
      <3>2. Length(consumed_attestations) \in Nat
        BY <1>0, PartsNat
      <3> HIDE DEF e
      <3>3. QED
        BY <1>0, <1>3, <3>1, <3>2 DEF AllFinite, LimitsInv, check_state, check_state_shape
    <2>2. CASE branch(q) = "endorsed"
      <3>1. q.evidence # None
        BY <2>2 DEF branch, endorsed_ok
      <3>2. consumed_attestations' = consumed_attestations \cup {q.evidence.id}
        BY <2>2 DEF cross_output
      <3>3. /\ consumed_attestations \in SUBSET Opaque /\ IsFiniteSet(consumed_attestations)
            /\ q.evidence.id \in Opaque
            /\ consumed_attestations' \in SUBSET (consumed_attestations \cup {q.evidence.id})
        BY <1>0, <1>2, <3>1, <3>2, OpaqueParts DEF TypeOK, AllFinite
      <3>4. /\ IsFiniteSet(consumed_attestations')
            /\ Cardinality(consumed_attestations') \in Nat
            /\ Cardinality(consumed_attestations') <= Cardinality(consumed_attestations) + 1
            /\ Length(consumed_attestations')
                 <= Length(consumed_attestations) + Bytes(q.evidence.id)
        BY <3>3, SetGrows
      <3>5. e = Bytes(q.evidence.id)
        BY <3>1
      <3>6. Cardinality(consumed_attestations) \in Nat /\ MaxAttestations \in Nat
        BY <1>0, PartsNat, LimitsAssumption
      <3>7. QED
        BY <1>4, <3>1, <3>4, <3>5, <3>6 DEF checked_capacity
    <2>3. QED
      BY <2>1, <2>2
  <1>9. /\ IsFiniteSet(DOMAIN crossing_grants')
        /\ Grown(Cardinality(DOMAIN crossing_grants'), Cardinality(DOMAIN crossing_grants), 0,
                 grants_text(crossing_grants'), grants_text(crossing_grants), 0)
    <2>1. DOMAIN crossing_grants' \subseteq DOMAIN crossing_grants
      BY DEF cross_output, decrement_grant_at
    <2>2. /\ IsVecMap(crossing_grants, CrossingKey, CrossingGrant)
          /\ IsVecMap(crossing_grants', CrossingKey, CrossingGrant)
          /\ IsFiniteSet(DOMAIN crossing_grants)
      BY <1>0 DEF TypeOK, AllFinite
    <2>3. QED
      BY <1>0, <2>1, <2>2, PartsNat, GrantsShrink DEF Grown
  <1> HIDE DEF a, k1, k2, e
  <1>10. AllFinite'
    BY <1>0, <1>1, <1>5, <1>6, <1>7, <1>8, <1>9 DEF AllFinite, LabelKeysGrown, agentVars
  <1>11. SizesFit'
    <2>1. /\ Cardinality(DOMAIN pending') <= MaxPending
          /\ Cardinality(DOMAIN crossing_grants') <= MaxGrants
          /\ Cardinality(consumed_crossings') <= MaxCrossings
      BY <1>0, <1>4, <1>6, <1>7, <1>9, PartsNat, LimitsAssumption
         DEF LimitsInv, check_state, check_state_shape, Grown, checked_capacity
    <2>2. Cardinality(taint_keys') <= MaxKeys /\ Cardinality(integ_keys') <= MaxKeys
      BY <1>0, <1>3, <1>4, <1>5, PartsNat, LimitsAssumption
         DEF Grown, LabelKeysGrown, checked_capacity
    <2>3. QED
      BY <1>0, <1>1, <1>8, <2>1, <2>2
         DEF LimitsInv, check_state, check_state_shape, SizesFit, agentVars
  <1>12. PICK tl \in Nat, tc \in Nat : tl = 2 * Bytes(a) /\ tc = Bytes(q.crossing) + e
    BY <1>3
  <1>13. retained_text' <= retained_text + (tl + tc)
    <2>1. agents_text' = agents_text
      BY <1>0, <1>1 DEF agents_text, agentVars
    <2>2. labels_text' <= labels_text + tl
      BY <1>0, <1>3, <1>5, <1>12, PartsNat DEF labels_text, LabelKeysGrown, Grown
    <2>3. records_text' <= records_text + 0
      BY <1>0, <1>6, PartsNat DEF records_text, Grown
    <2>4. consumed_text' <= consumed_text + tc
      <3>1. Length(consumed_attestations') \in Nat
        BY <1>8, SetShrinks, OpaqueParts DEF TypeOK
      <3>2. QED
        BY <1>0, <1>3, <1>7, <1>8, <1>12, <3>1, PartsNat DEF consumed_text, Grown
    <2>5. agents_text' <= agents_text + 0
      BY <1>0, <2>1, TextIsItsParts DEF TextInParts
    <2>6. others_text' <= others_text + 0
      BY <1>0, <1>9, PartsNat DEF others_text, Grown
    <2>7. retained_text' <= retained_text + (0 + tl + 0 + tc + 0)
      BY <1>10, <2>2, <2>3, <2>4, <2>5, <2>6, TextGrows
    <2>8. 0 + tl + 0 + tc + 0 = tl + tc
      OBVIOUS
    <2>9. QED
      BY <2>7, <2>8
  <1>14. tl + tc \in Nat /\ text_fits(tl + tc)
    <2>1. tl + tc = Bytes(q.crossing) + 2 * Bytes(a) + e
      BY <1>3, <1>12
    <2>2. QED
      BY <1>4, <2>1
  <1>15. QED
    BY <1>10, <1>11, <1>13, <1>14, StaysWithin

---------------------------------------------------------------------------
(* The invariant holds in every state an instance can be in: the fields    *)
(* are typed and finite, and the state is within its limits.               *)
THEOREM LimitsInvariant == LimitedSpec => []LimitsInv
  <1>1. LimitsInv /\ [LimitedNext]_vars => LimitsInv'
    <2> SUFFICES ASSUME LimitsInv, [LimitedNext]_vars PROVE LimitsInv'
      OBVIOUS
    <2>1. TypeOK'
      BY LimitedIsKernel, NextTypeOK DEF LimitsInv
    <2>2. CASE LimitedTools
      BY <2>1, <2>2, ToolsFit DEF LimitedTools, LimitsInv
    <2>3. CASE LimitedTree
      <3> SUFFICES AllFinite' /\ check_state'
        BY <2>1 DEF LimitsInv
      <3>1. PICK a \in AgentId, b \in AgentId :
              \/ delegate_fits(a, b) /\ delegate(a, b)
              \/ \E cap \in CapKind : grant_capability_fits(b) /\ grant_capability(a, b, cap)
              \/ \E d \in AssignmentDigest, n \in GrantSizes :
                    grant_crossing_fits(b, d) /\ grant_crossing(a, b, d, n)
              \/ revoke(a, b)
              \/ cascade_revoke(a, b)
        BY <2>3 DEF LimitedTree
      <3>2. CASE delegate_fits(a, b) /\ delegate(a, b)
        BY <2>1, <3>2, DelegateFits
      <3>3. CASE \E cap \in CapKind : grant_capability_fits(b) /\ grant_capability(a, b, cap)
        BY <2>1, <3>3, GrantCapabilityFits
      <3>4. CASE \E d \in AssignmentDigest, n \in GrantSizes :
                    grant_crossing_fits(b, d) /\ grant_crossing(a, b, d, n)
        BY <2>1, <3>4, GrantCrossingFits
      <3>5. CASE revoke(a, b) \/ cascade_revoke(a, b)
        BY <2>1, <3>5, ClearFits DEF revoke, cascade_revoke
      <3>6. QED
        BY <3>1, <3>2, <3>3, <3>4, <3>5
    <2>4. CASE LimitedIngest
      <3>1. PICK a \in AgentId, src \in Maybe(AgentId), p \in Provenances :
              ingest_fits(a, p[1], p[2]) /\ ingest(a, src, p[1], p[2])
        BY <2>4 DEF LimitedIngest
      <3>2. p[1] \in ConfLevel /\ p[2] \in IntegLevel
        BY InputsAssumption
      <3>3. QED
        BY <2>1, <3>1, <3>2, IngestFits DEF LimitsInv
    <2>5. CASE LimitedBegin
      BY <2>1, <2>5, BeginFits DEF LimitedBegin, LimitsInv
    <2>6. CASE LimitedInspect
      BY <2>1, <2>6, InspectFits DEF LimitedInspect, LimitsInv
    <2>7. CASE LimitedSettle
      BY <2>1, <2>7, SettleFits DEF LimitedSettle, LimitsInv
    <2>8. CASE LimitedCross
      BY <2>1, <2>8, CrossFits DEF LimitedCross, LimitsInv
    <2>9. CASE UNCHANGED vars
      <3>1. AllFinite'
        BY <2>9 DEF LimitsInv, AllFinite, cap_keys, taint_keys, integ_keys, vars, agentVars,
                    labelVars, consumedVars
      <3>2. check_state'
        BY <2>9 DEF LimitsInv, check_state, check_state_shape, retained_text, cap_keys,
                    taint_keys, integ_keys, vars, agentVars, labelVars, consumedVars
      <3>3. QED
        BY <2>1, <3>1, <3>2 DEF LimitsInv
    <2>10. QED
      BY <2>2, <2>3, <2>4, <2>5, <2>6, <2>7, <2>8, <2>9 DEF LimitedNext
  <1>2. QED
    BY <1>1, LimitsInit, PTL DEF LimitedSpec

(* The preflight is sound: for all limits, all lengths of identities and   *)
(* all inputs, no accepted command leads to a state outside the limits     *)
(* (check_post_transition of limits.rs against check_state), with or       *)
(* without an operator who takes agents back.                              *)
THEOREM WithinLimitsHolds ==
    /\ LimitedSpec => []WithinLimits
    /\ OperatorSpec => []WithinLimits
  <1>1. LimitsInv => WithinLimits
    BY DEF LimitsInv, WithinLimits
  <1>2. LimitedSpec => []WithinLimits
    BY <1>1, LimitsInvariant, PTL
  <1>3. OperatorSpec => LimitedSpec
    BY PTL DEF OperatorSpec
  <1>4. QED
    BY <1>2, <1>3, PTL

(* A kernel behind the limits is a kernel: what is proved of every kernel  *)
(* holds behind them.                                                      *)
THEOREM LimitsRefineKernel == LimitedSpec => Spec
  <1>1. [LimitedNext]_vars => [Next]_vars
    BY LimitedIsKernel
  <1>2. QED
    BY <1>1, PTL DEF LimitedSpec, Spec
===========================================================================
