------------------------- MODULE ContextBudgetProofs -------------------------
(***************************************************************************)
(* Proofs about ContextBudget, for any candidates and any limits: what is  *)
(* sent fits and is charged exactly.                                       *)
(***************************************************************************)
EXTENDS ContextBudget, FiniteSetTheorems, TLAPS

-----------------------------------------------------------------------------
(* Sums. *)

\* A set of numbers that has 0 and the successor of each of its members has
\* every number.
LEMMA SetInduction ==
    ASSUME NEW N \in SUBSET Nat, 0 \in N, \A n \in N : n + 1 \in N
    PROVE  N = Nat
<1> DEFINE Bad == Nat \ N
<1> SUFFICES ASSUME Bad # {} PROVE FALSE
  OBVIOUS
<1>1. PICK m \in Bad : \A k \in Bad : ~(<<k, m>> \in OpToRel(<, Nat))
  BY NatLessThanWellFounded, WFMin
<1>2. \A k \in Bad : ~(k < m)
  BY <1>1 DEF OpToRel
<1>3. m # 0 /\ m - 1 \in Nat
  OBVIOUS
<1>4. m - 1 \in N
  BY <1>2, <1>3
<1> QED BY <1>3, <1>4

\* The recursion by which the fold of w over s is defined.
Fold(w, g, s) ==
    IF s = {} THEN 0
    ELSE LET x == CHOOSE x \in s : TRUE IN w[x] + g[s \ {x}]

IsFold(w, S, g) == g = [s \in SUBSET S |-> Fold(w, g, s)]

LEMMA SumIsFold ==
    ASSUME NEW w, NEW S
    PROVE  SumFunctionOnSet(w, S) = (CHOOSE g : IsFold(w, S, g))[S]
BY DEF SumFunctionOnSet, FoldFunctionOnSet, MapThenFoldSet, IsFold, Fold

\* Such a fold exists, and its values are numbers.
LEMMA FoldExists ==
    ASSUME NEW S, IsFiniteSet(S), NEW w \in [S -> Nat]
    PROVE  \E g \in [SUBSET S -> Nat] : IsFold(w, S, g)
<1> DEFINE Small(n) == {s \in SUBSET S : Cardinality(s) <= n}
           Good(g, n) == g = [s \in Small(n) |-> Fold(w, g, s)]
           N == {n \in Nat : \E g \in [Small(n) -> Nat] : Good(g, n)}
<1>0. \A s \in SUBSET S : IsFiniteSet(s) /\ Cardinality(s) \in Nat
  BY FS_Subset, FS_CardinalityType
<1>1. \A s \in SUBSET S : s # {} =>
         LET x == CHOOSE x \in s : TRUE
         IN  x \in s /\ w[x] \in Nat /\ Cardinality(s \ {x}) = Cardinality(s) - 1
  BY <1>0, FS_RemoveElement
<1>2. 0 \in N
  <2> DEFINE g == [s \in Small(0) |-> 0]
  <2>1. \A s \in Small(0) : s = {}
    BY <1>0, FS_EmptySet
  <2>2. Good(g, 0)
    BY <2>1 DEF Fold
  <2>3. g \in [Small(0) -> Nat]
    OBVIOUS
  <2> HIDE DEF g
  <2> QED BY <2>2, <2>3
<1>3. \A n \in N : n + 1 \in N
  <2> SUFFICES ASSUME NEW n \in N PROVE n + 1 \in N
    OBVIOUS
  <2>1. PICK g \in [Small(n) -> Nat] : Good(g, n)
    OBVIOUS
  <2> DEFINE h == [s \in Small(n + 1) |->
                     IF Cardinality(s) <= n THEN g[s] ELSE Fold(w, g, s)]
  <2>2. n \in Nat /\ Small(n) \subseteq Small(n + 1)
    BY <1>0
  <2>3. \A s \in Small(n + 1) : s # {} =>
           (s \ {CHOOSE x \in s : TRUE}) \in Small(n)
    BY <1>0, <1>1, <2>2
  <2>4. \A s \in Small(n) : h[s] = g[s] /\ g[s] = Fold(w, g, s) /\ g[s] \in Nat
    BY <2>1, <2>2
  <2>5. \A s \in Small(n + 1) : Fold(w, h, s) = Fold(w, g, s) /\ Fold(w, g, s) \in Nat
    <3> SUFFICES ASSUME NEW s \in Small(n + 1)
                 PROVE  Fold(w, h, s) = Fold(w, g, s) /\ Fold(w, g, s) \in Nat
      OBVIOUS
    <3>1. CASE s = {}
      BY <3>1 DEF Fold
    <3>2. CASE s # {}
      <4> DEFINE x == CHOOSE x \in s : TRUE
      <4>1. s \ {x} \in Small(n)
        BY <2>3, <3>2
      <4>2. h[s \ {x}] = g[s \ {x}] /\ g[s \ {x}] \in Nat
        BY <2>4, <4>1
      <4>3. w[x] \in Nat
        BY <1>1, <3>2
      <4> HIDE DEF h
      <4> QED BY <3>2, <4>2, <4>3 DEF Fold
    <3> QED BY <3>1, <3>2
  <2>6. \A s \in Small(n + 1) : h[s] = Fold(w, h, s) /\ h[s] \in Nat
    BY <1>0, <2>2, <2>4, <2>5
  <2>7. h \in [Small(n + 1) -> Nat] /\ Good(h, n + 1)
    BY <2>6
  <2> HIDE DEF h, Good, Small
  <2> QED BY <2>2, <2>7
<1>4. Cardinality(S) \in N
  <2> HIDE DEF N
  <2>1. N = Nat
    <3>1. N \in SUBSET Nat
      BY DEF N
    <3> QED BY <1>2, <1>3, <3>1, SetInduction
  <2> QED BY <2>1, <1>0
<1>5. Small(Cardinality(S)) = SUBSET S
  BY <1>0, FS_Subset
<1> QED BY <1>4, <1>5 DEF IsFold

\* Two folds of the same function agree where both are defined.
LEMMA FoldsAgree ==
    ASSUME NEW S, IsFiniteSet(S), NEW T \in SUBSET S, NEW w,
           NEW f, IsFold(w, S, f), NEW g, IsFold(w, T, g)
    PROVE  f[T] = g[T]
<1> DEFINE N == {n \in Nat : \A s \in SUBSET T :
                               Cardinality(s) = n => f[s] = g[s]}
<1>0. \A s \in SUBSET T : IsFiniteSet(s) /\ Cardinality(s) \in Nat
  BY FS_Subset, FS_CardinalityType
<1>1. \A s \in SUBSET T : f[s] = Fold(w, f, s) /\ g[s] = Fold(w, g, s)
  BY DEF IsFold
<1>2. 0 \in N
  <2>1. \A s \in SUBSET T : Cardinality(s) = 0 => s = {}
    BY <1>0, FS_EmptySet
  <2> QED BY <1>1, <2>1 DEF Fold
<1>3. \A n \in N : n + 1 \in N
  <2> SUFFICES ASSUME NEW n \in N, NEW s \in SUBSET T, Cardinality(s) = n + 1
               PROVE  f[s] = g[s]
    OBVIOUS
  <2> DEFINE x == CHOOSE x \in s : TRUE
  <2>1. s # {}
    BY FS_EmptySet
  <2>2. x \in s /\ Cardinality(s \ {x}) = n
    <3>1. x \in s /\ n \in Nat
      BY <2>1
    <3>2. Cardinality(s \ {x}) = Cardinality(s) - 1
      BY <1>0, <3>1, FS_RemoveElement
    <3> HIDE DEF x, N
    <3> QED BY <3>1, <3>2
  <2>3. f[s \ {x}] = g[s \ {x}]
    BY <2>2
  <2> QED BY <1>1, <2>1, <2>3 DEF Fold
<1>4. Cardinality(T) \in N
  <2> HIDE DEF N
  <2>1. N = Nat
    <3>1. N \in SUBSET Nat
      BY DEF N
    <3> QED BY <1>2, <1>3, <3>1, SetInduction
  <2> QED BY <2>1, <1>0
<1> QED BY <1>4

\* A sum is that of its other terms and any one of its terms.
LEMMA SumFacts ==
    ASSUME NEW S, IsFiniteSet(S), NEW w \in [S -> Nat]
    PROVE  /\ SumFunctionOnSet(w, {}) = 0
           /\ \A T \in SUBSET S : SumFunctionOnSet(w, T) \in Nat
           /\ \A T \in SUBSET S : \A x \in T :
                 SumFunctionOnSet(w, T) = w[x] + SumFunctionOnSet(w, T \ {x})
<1>1. PICK g \in [SUBSET S -> Nat] : IsFold(w, S, g)
  BY FoldExists
<1>2. \A T \in SUBSET S : SumFunctionOnSet(w, T) = g[T]
  <2> SUFFICES ASSUME NEW T \in SUBSET S PROVE SumFunctionOnSet(w, T) = g[T]
    OBVIOUS
  <2>1. IsFiniteSet(T)
    BY FS_Subset
  <2>2. \E h : IsFold(w, T, h)
    <3> DEFINE v == [x \in T |-> w[x]]
    <3>1. v \in [T -> Nat]
      OBVIOUS
    <3>2. PICK h \in [SUBSET T -> Nat] : IsFold(v, T, h)
      <4> HIDE DEF v
      <4> QED BY <2>1, <3>1, FoldExists
    <3>3. \A s \in SUBSET T : Fold(v, h, s) = Fold(w, h, s)
      BY DEF Fold
    <3> QED BY <3>2, <3>3 DEF IsFold
  <2> DEFINE h == CHOOSE h : IsFold(w, T, h)
  <2>3. IsFold(w, T, h)
    BY <2>2
  <2>4. SumFunctionOnSet(w, T) = h[T]
    BY SumIsFold
  <2> HIDE DEF h
  <2> QED BY <1>1, <2>3, <2>4, FoldsAgree
<1>3. \A T \in SUBSET S : g[T] = Fold(w, g, T)
  BY <1>1 DEF IsFold
<1>4. g[{}] = 0
  BY <1>3 DEF Fold
<1> DEFINE N == {n \in Nat : \A T \in SUBSET S : Cardinality(T) = n =>
                               \A y \in T : g[T] = w[y] + g[T \ {y}]}
<1>5. \A T \in SUBSET S : IsFiniteSet(T) /\ Cardinality(T) \in Nat
  BY FS_Subset, FS_CardinalityType
<1>6. 0 \in N
  BY <1>5, FS_EmptySet
<1>7. \A n \in N : n + 1 \in N
  <2> TAKE n \in N
  <2>0. /\ n \in Nat
        /\ \A T \in SUBSET S : Cardinality(T) = n =>
              \A y \in T : g[T] = w[y] + g[T \ {y}]
    OBVIOUS
  <2> SUFFICES ASSUME NEW T \in SUBSET S, Cardinality(T) = n + 1, NEW y \in T
               PROVE  g[T] = w[y] + g[T \ {y}]
    BY <2>0
  <2> DEFINE x == CHOOSE x \in T : TRUE
  <2>1. x \in T /\ g[T] = w[x] + g[T \ {x}]
    BY <1>3 DEF Fold
  <2> HIDE DEF x
  <2>2. CASE x = y
    BY <2>1, <2>2
  <2>3. CASE x # y
    <3>1. /\ Cardinality(T \ {x}) = n /\ y \in T \ {x}
          /\ Cardinality(T \ {y}) = n /\ x \in T \ {y}
      <4>1. /\ Cardinality(T \ {x}) = Cardinality(T) - 1
            /\ Cardinality(T \ {y}) = Cardinality(T) - 1
        BY <1>5, <2>1, FS_RemoveElement
      <4> HIDE DEF N
      <4> QED BY <2>0, <2>1, <2>3, <4>1
    <3>2. g[T \ {x}] = w[y] + g[(T \ {x}) \ {y}]
      BY <2>0, <3>1
    <3>3. g[T \ {y}] = w[x] + g[(T \ {y}) \ {x}]
      BY <2>0, <3>1
    <3>4. (T \ {x}) \ {y} = (T \ {y}) \ {x}
      OBVIOUS
    <3>5. g[(T \ {x}) \ {y}] \in Nat /\ w[x] \in Nat /\ w[y] \in Nat
      BY <2>1
    <3>6. g[T \ {y}] = w[x] + g[(T \ {x}) \ {y}]
      BY <3>3, <3>4
    <3>7. g[T] = w[x] + (w[y] + g[(T \ {x}) \ {y}])
      BY <2>1, <3>2
    <3>8. \A a, b, c \in Nat : a + (b + c) = b + (a + c)
      OBVIOUS
    <3> HIDE DEF N
    <3> QED BY <3>5, <3>6, <3>7, <3>8
  <2> QED BY <2>2, <2>3
<1>8. \A T \in SUBSET S : \A y \in T : g[T] = w[y] + g[T \ {y}]
  <2>1. N = Nat
    <3> HIDE DEF N
    <3>1. N \in SUBSET Nat
      BY DEF N
    <3> QED BY <1>6, <1>7, <3>1, SetInduction
  <2> QED BY <1>5, <2>1
<1> QED BY <1>2, <1>4, <1>8

-----------------------------------------------------------------------------
(* The inductive invariant. *)

IsPacking(P) == \A i \in Items : i \in P <=> FitsIn(P, i)

\* What was taken from the queue comes before the rest of it, and was selected
\* exactly where it fits; nothing required was left out.
PackedSoFar ==
    /\ selected \subseteq Items \ queue
    /\ \A i \in Items \ queue, j \in queue : PackedBefore(i, j)
    /\ \A i \in Items \ queue : i \in selected <=> FitsIn(selected, i)
    /\ Required \ queue \subseteq selected

\* What was taken out again is optional, comes last, and had to go.
Gone == Packing \ selected
Trimmed ==
    /\ Required \subseteq selected
    /\ selected \subseteq Packing /\ Packing \subseteq Items
    /\ \A i \in Gone, j \in selected : PackedBefore(j, i)
    /\ \A i \in Gone :
          (\A j \in Gone \ {i} : PackedBefore(i, j)) =>
              Serialized(selected \cup {i}) > Capacity

BInv ==
    /\ TypeOK
    /\ \A i \in Items : WellFormed(item[i])
    /\ used = Charged(selected)
    /\ phase = "capacity" => queue = Items /\ selected = {}
    /\ phase \in {"packing", "serializing", "sent"} =>
          HasCapacity /\ limits.overhead <= Capacity
    /\ phase = "packing" => PackedSoFar
    /\ phase \in {"serializing", "sent"} => Trimmed
    /\ phase = "sent" => Serialized(selected) <= Capacity
    /\ phase = "overflow" => ~HasCapacity \/ Serialized(Required) > Capacity

-----------------------------------------------------------------------------
(* The charge and the size of a set of items. *)

LEMMA ItemTypes ==
    ASSUME TypeOK
    PROVE  /\ \A i \in Items :
                 /\ item[i].required \in BOOLEAN /\ item[i].layer \in Nat
                 /\ item[i].relevance \in Nat /\ item[i].distance \in Nat
                 /\ item[i].cost \in Nat /\ item[i].weight \in Nat
           /\ limits.input \in Nat /\ limits.window \in Nat
           /\ limits.output \in Nat /\ limits.overhead \in Nat /\ Safety \in Nat
<1>1. /\ Layers \subseteq Nat /\ Relevances \subseteq Nat /\ Distances \subseteq Nat
      /\ Costs \subseteq Nat /\ Weights \subseteq Nat /\ Inputs \subseteq Nat
      /\ Windows \subseteq Nat /\ Overheads \subseteq Nat
      /\ Outputs \subseteq Nat /\ Safety \in Nat
  BY SizesAssumption
<1>2. \A i \in Items : item[i] \in Candidates
  BY DEF TypeOK
<1> QED BY <1>1, <1>2 DEF TypeOK, Limits, Candidates

LEMMA Sizes ==
    ASSUME TypeOK
    PROVE  /\ Charged({}) = limits.overhead /\ Serialized({}) = limits.overhead
           /\ \A P \in SUBSET Items :
                 /\ Charged(P) \in Nat /\ Serialized(P) \in Nat
                 /\ \A i \in P :
                       /\ Charged(P) = Charged(P \ {i}) + item[i].cost
                       /\ Serialized(P) = Serialized(P \ {i}) + item[i].weight
<1>1. Cost \in [Items -> Nat] /\ Weight \in [Items -> Nat]
  BY ItemTypes DEF Cost, Weight
<1>2. ASSUME NEW w \in [Items -> Nat]
      PROVE  /\ limits.overhead + SumFunctionOnSet(w, {}) = limits.overhead
             /\ \A P \in SUBSET Items :
                   /\ limits.overhead + SumFunctionOnSet(w, P) \in Nat
                   /\ \A i \in P :
                         limits.overhead + SumFunctionOnSet(w, P) =
                         (limits.overhead + SumFunctionOnSet(w, P \ {i})) + w[i]
  <2>1. /\ SumFunctionOnSet(w, {}) = 0
        /\ \A P \in SUBSET Items : SumFunctionOnSet(w, P) \in Nat
        /\ \A P \in SUBSET Items : \A i \in P :
              SumFunctionOnSet(w, P) = w[i] + SumFunctionOnSet(w, P \ {i})
    <3>1. IsFiniteSet(Items)
      BY ItemsAssumption
    <3>2. SumFunctionOnSet(w, {}) = 0
      BY <3>1, SumFacts
    <3>3. \A P \in SUBSET Items : SumFunctionOnSet(w, P) \in Nat
      BY <3>1, SumFacts
    <3>4. ASSUME NEW P \in SUBSET Items, NEW i \in P
          PROVE  SumFunctionOnSet(w, P) = w[i] + SumFunctionOnSet(w, P \ {i})
      BY <3>1, SumFacts
    <3> QED BY <3>2, <3>3, <3>4
  <2>2. limits.overhead \in Nat
    BY ItemTypes
  <2>3. \A P \in SUBSET Items : \A i \in P :
           w[i] \in Nat /\ SumFunctionOnSet(w, P \ {i}) \in Nat
    BY <2>1
  <2>4. \A a, b, c \in Nat : a + (b + c) = (a + c) + b
    OBVIOUS
  <2>5. ASSUME NEW P \in SUBSET Items, NEW i \in P
        PROVE  limits.overhead + SumFunctionOnSet(w, P) =
               (limits.overhead + SumFunctionOnSet(w, P \ {i})) + w[i]
    <3>1. SumFunctionOnSet(w, P) = w[i] + SumFunctionOnSet(w, P \ {i})
      BY <2>1
    <3> QED BY <2>2, <2>3, <2>4, <3>1
  <2> QED BY <2>1, <2>2, <2>5
<1>3. \A i \in Items : Cost[i] = item[i].cost /\ Weight[i] = item[i].weight
  BY DEF Cost, Weight
<1>4. /\ Charged({}) = limits.overhead
      /\ \A P \in SUBSET Items :
            /\ Charged(P) \in Nat
            /\ \A i \in P : Charged(P) = Charged(P \ {i}) + Cost[i]
  BY <1>1, <1>2 DEF Charged
<1>5. /\ Serialized({}) = limits.overhead
      /\ \A P \in SUBSET Items :
            /\ Serialized(P) \in Nat
            /\ \A i \in P : Serialized(P) = Serialized(P \ {i}) + Weight[i]
  BY <1>1, <1>2 DEF Serialized
<1> QED BY <1>3, <1>4, <1>5

\* An item that is not there yet adds its cost.
LEMMA AddItem ==
    ASSUME TypeOK, NEW P \in SUBSET Items, NEW i \in Items \ P
    PROVE  Charged(P \cup {i}) = Charged(P) + item[i].cost
<1>1. (P \cup {i}) \ {i} = P
  OBVIOUS
<1> QED BY <1>1, Sizes

\* More items charge more.
LEMMA ChargeGrows ==
    ASSUME TypeOK, NEW P \in SUBSET Items, NEW Q \in SUBSET P
    PROVE  Charged(Q) <= Charged(P)
<1> DEFINE N == {n \in Nat : \A R \in SUBSET Items :
                    Q \subseteq R /\ Cardinality(R \ Q) = n => Charged(Q) <= Charged(R)}
<1>0. \A R \in SUBSET Items : /\ IsFiniteSet(R) /\ Cardinality(R) \in Nat
                              /\ Charged(R) \in Nat
  BY ItemsAssumption, FS_Subset, FS_CardinalityType, Sizes
<1>1. 0 \in N
  <2> SUFFICES ASSUME NEW R \in SUBSET Items, Q \subseteq R, Cardinality(R \ Q) = 0
               PROVE  Charged(Q) <= Charged(R)
    OBVIOUS
  <2>1. R \ Q = {}
    BY <1>0, FS_EmptySet
  <2>2. R = Q
    BY <2>1
  <2> QED BY <1>0, <2>2
<1>2. \A n \in N : n + 1 \in N
  <2> TAKE n \in N
  <2>0. n \in Nat /\ \A R \in SUBSET Items :
           Q \subseteq R /\ Cardinality(R \ Q) = n => Charged(Q) <= Charged(R)
    OBVIOUS
  <2> SUFFICES ASSUME NEW R \in SUBSET Items, Q \subseteq R, Cardinality(R \ Q) = n + 1
               PROVE  Charged(Q) <= Charged(R)
    BY <2>0
  <2> HIDE DEF N
  <2>1. R \ Q # {}
    BY <2>0, FS_EmptySet
  <2>2. PICK i \in R \ Q : TRUE
    BY <2>1
  <2>3. (R \ {i}) \ Q = (R \ Q) \ {i}
    OBVIOUS
  <2>4. Cardinality((R \ {i}) \ Q) = n
    <3>1. Cardinality((R \ Q) \ {i}) = Cardinality(R \ Q) - 1
      BY <1>0, <2>2, FS_Subset, FS_RemoveElement
    <3> QED BY <2>0, <2>3, <3>1
  <2>5. Charged(Q) <= Charged(R \ {i})
    BY <2>0, <2>2, <2>4
  <2>6. Charged(R) = Charged(R \ {i}) + item[i].cost /\ item[i].cost \in Nat
    BY <2>2, Sizes, ItemTypes
  <2> QED BY <1>0, <2>5, <2>6
<1>3. N = Nat
  <2> HIDE DEF N
  <2>1. N \in SUBSET Nat
    BY DEF N
  <2> QED BY <1>1, <1>2, <2>1, SetInduction
<1>4. Cardinality(P \ Q) \in N
  <2> HIDE DEF N
  <2> QED BY <1>0, <1>3
<1> QED BY <1>4

\* Serialized, a set of items is at least as large as what it is charged.
LEMMA ChargeIsBelowSize ==
    ASSUME TypeOK, \A i \in Items : WellFormed(item[i]), NEW P \in SUBSET Items
    PROVE  Charged(P) <= Serialized(P)
<1> DEFINE N == {n \in Nat : \A R \in SUBSET Items :
                    Cardinality(R) = n => Charged(R) <= Serialized(R)}
<1>0. \A R \in SUBSET Items : /\ IsFiniteSet(R) /\ Cardinality(R) \in Nat
                              /\ Charged(R) \in Nat /\ Serialized(R) \in Nat
  BY ItemsAssumption, FS_Subset, FS_CardinalityType, Sizes
<1>1. 0 \in N
  <2>1. \A R \in SUBSET Items : Cardinality(R) = 0 => R = {}
    BY <1>0, FS_EmptySet
  <2>2. Charged({}) <= Serialized({})
    BY Sizes, ItemTypes
  <2> QED BY <2>1, <2>2
<1>2. \A n \in N : n + 1 \in N
  <2> TAKE n \in N
  <2>0. n \in Nat /\ \A R \in SUBSET Items :
           Cardinality(R) = n => Charged(R) <= Serialized(R)
    OBVIOUS
  <2> SUFFICES ASSUME NEW R \in SUBSET Items, Cardinality(R) = n + 1
               PROVE  Charged(R) <= Serialized(R)
    BY <2>0
  <2> HIDE DEF N
  <2>1. PICK i \in R : TRUE
    BY <2>0, FS_EmptySet
  <2>2. Cardinality(R \ {i}) = n
    <3>1. Cardinality(R \ {i}) = Cardinality(R) - 1
      BY <1>0, <2>1, FS_RemoveElement
    <3> QED BY <2>0, <3>1
  <2>3. Charged(R \ {i}) <= Serialized(R \ {i})
    BY <2>0, <2>2
  <2>4. /\ Charged(R) = Charged(R \ {i}) + item[i].cost
        /\ Serialized(R) = Serialized(R \ {i}) + item[i].weight
        /\ item[i].cost <= item[i].weight
        /\ item[i].cost \in Nat /\ item[i].weight \in Nat
    BY <2>1, Sizes, ItemTypes DEF WellFormed
  <2> QED BY <1>0, <2>3, <2>4
<1>3. N = Nat
  <2> HIDE DEF N
  <2>1. N \in SUBSET Nat
    BY DEF N
  <2> QED BY <1>1, <1>2, <2>1, SetInduction
<1>4. Cardinality(P) \in N
  <2> HIDE DEF N
  <2> QED BY <1>0, <1>3
<1> QED BY <1>4

-----------------------------------------------------------------------------
(* The order of the packer. *)

\* It is strict and total.
LEMMA OrderFacts ==
    ASSUME TypeOK, NEW i \in Items, NEW j \in Items
    PROVE  /\ ~PackedBefore(i, i)
           /\ ~(PackedBefore(i, j) /\ PackedBefore(j, i))
           /\ i # j => PackedBefore(i, j) \/ PackedBefore(j, i)
           /\ \A k \in Items : PackedBefore(i, j) /\ PackedBefore(j, k) =>
                                   PackedBefore(i, k)
<1> USE ItemTypes
<1>0. Items \subseteq Nat
  BY ItemsAssumption
<1>1. ~PackedBefore(i, i)
  BY <1>0 DEF PackedBefore, Optional, Precedes
<1>2. i # j => PackedBefore(i, j) \/ PackedBefore(j, i)
  BY <1>0 DEF PackedBefore, Optional, Precedes
<1>3. ASSUME NEW k \in Items, PackedBefore(i, j), PackedBefore(j, k)
      PROVE  PackedBefore(i, k)
  <2>1. Precedes(i, j) /\ Precedes(j, k) => Precedes(i, k)
    BY <1>0 DEF Precedes
  <2> QED BY <1>3, <2>1 DEF PackedBefore, Optional
<1>4. ~(PackedBefore(i, j) /\ PackedBefore(j, i))
  BY <1>0 DEF PackedBefore, Optional, Precedes
<1> QED BY <1>1, <1>2, <1>3, <1>4

\* Of any items, one comes first.
LEMMA FirstOf ==
    ASSUME TypeOK, NEW D \in SUBSET Items, D # {}
    PROVE  \E i \in D : \A j \in D \ {i} : PackedBefore(i, j)
<1> DEFINE Ranks == {Cardinality(Before(i)) : i \in D}
<1>1. \A i \in Items : IsFiniteSet(Before(i)) /\ Cardinality(Before(i)) \in Nat
  BY ItemsAssumption, FS_Subset, FS_CardinalityType DEF Before
<1>2. Ranks \subseteq Nat /\ Ranks # {}
  BY <1>1
<1>3. PICK r \in Ranks : \A q \in Ranks : ~(<<q, r>> \in OpToRel(<, Nat))
  BY <1>2, NatLessThanWellFounded, WFMin
<1>4. PICK i \in D : r = Cardinality(Before(i))
  OBVIOUS
<1>5. ASSUME NEW j \in D \ {i}, ~PackedBefore(i, j) PROVE FALSE
  <2>1. PackedBefore(j, i)
    BY <1>5, OrderFacts
  <2>2. Before(j) \subseteq Before(i)
    BY <2>1, OrderFacts DEF Before
  <2>3. j \in Before(i) /\ j \notin Before(j)
    BY <2>1 DEF Before
  <2>4. Cardinality(Before(j)) < Cardinality(Before(i))
    BY <1>1, <2>2, <2>3, FS_Subset
  <2>5. Cardinality(Before(j)) \in Ranks
    OBVIOUS
  <2>6. <<Cardinality(Before(j)), r>> \in OpToRel(<, Nat)
    BY <1>1, <1>4, <2>4 DEF OpToRel
  <2> QED BY <1>3, <2>5, <2>6
<1> QED BY <1>5

\* There is one packing.
LEMMA PackingUnique ==
    ASSUME TypeOK, NEW P \in SUBSET Items, IsPacking(P)
    PROVE  Packing = P
<1>1. ASSUME NEW Q \in SUBSET Items, IsPacking(Q), Q # P
      PROVE  FALSE
  <2> DEFINE D == {i \in Items : ~(i \in P <=> i \in Q)}
  <2>1. D # {}
    BY <1>1
  <2>2. PICK i \in D : \A j \in D \ {i} : PackedBefore(i, j)
    BY <2>1, FirstOf
  <2>3. \A j \in Before(i) : j \notin D
    BY <2>2, OrderFacts DEF Before
  <2>4. P \cap Before(i) = Q \cap Before(i)
    BY <2>3 DEF Before
  <2> QED BY <1>1, <2>2, <2>4 DEF IsPacking, FitsIn
<1>2. IsPacking(Packing) /\ Packing \in SUBSET Items
  <2>1. \E R \in SUBSET Items : \A i \in Items : i \in R <=> FitsIn(R, i)
    BY DEF IsPacking
  <2> QED BY <2>1 DEF Packing, IsPacking
<1> QED BY <1>1, <1>2

-----------------------------------------------------------------------------
(* The steps.  No step changes the limits and the candidates. *)

\* What is computed from the limits and the candidates alone is as before.
LEMMA Fixed ==
    ASSUME UNCHANGED <<limits, item>>
    PROVE  /\ UNCHANGED <<Capacity, HasCapacity, Required, Packing, Cost, Weight>>
           /\ \A i \in Items : UNCHANGED Before(i)
<1>1. UNCHANGED <<Cost, Weight, Required>>
  BY DEF Cost, Weight, Required
<1>2. UNCHANGED <<Capacity, HasCapacity>>
  BY DEF Capacity, HasCapacity, Reserved
<1>3. \A i, j \in Items : UNCHANGED PackedBefore(i, j)
  BY DEF PackedBefore, Precedes, Optional
<1>4. \A i \in Items : UNCHANGED Before(i)
  BY <1>3 DEF Before
<1>5. UNCHANGED Packing
  BY <1>1, <1>2, <1>4 DEF Packing, FitsIn, Charged
<1> QED BY <1>1, <1>2, <1>4, <1>5

\* The charge and the size of a set, after the step.
LEMMA SameSizes ==
    ASSUME UNCHANGED <<limits, item>>
    PROVE  /\ Charged(selected)' = Charged(selected')
           /\ Serialized(selected)' = Serialized(selected')
           /\ Serialized(Required)' = Serialized(Required)
BY Fixed DEF Charged, Serialized

LEMMA BudgetTypes == BInv /\ [Next]_vars => TypeOK'
<1> SUFFICES ASSUME BInv, [Next]_vars PROVE TypeOK'
  OBVIOUS
<1>0. TypeOK /\ used = Charged(selected)
  BY DEF BInv
<1>1. UNCHANGED <<limits, item>>
  BY DEF Next, CheckCapacity, Pack, Packed, Trim, CannotTrim, Send, vars
<1>2. used' \in Nat
  <2>1. ASSUME NEW i \in Items, Pack(i) PROVE used' \in Nat
    BY <1>0, <2>1, ItemTypes DEF Pack, TypeOK
  <2>2. ASSUME NEW i \in Items, Trim(i) PROVE used' \in Nat
    <3>1. selected \subseteq Items /\ i \in selected /\ used' = used - item[i].cost
      BY <1>0, <2>2 DEF Trim, TypeOK
    <3>2. Charged(selected) = Charged(selected \ {i}) + item[i].cost
      BY <1>0, <3>1, Sizes
    <3>3. Charged(selected \ {i}) \in Nat /\ item[i].cost \in Nat
      BY <1>0, <3>1, Sizes, ItemTypes
    <3> QED BY <1>0, <3>1, <3>2, <3>3
  <2>3. CASE used' = used
    BY <1>0, <2>3 DEF TypeOK
  <2> QED
    BY <2>1, <2>2, <2>3 DEF Next, CheckCapacity, Packed, CannotTrim, Send, vars
<1>3. /\ phase' \in {"capacity", "packing", "serializing", "sent", "overflow"}
      /\ queue' \subseteq Items /\ selected' \subseteq Items
  BY <1>0 DEF TypeOK, Next, CheckCapacity, Pack, Packed, Trim, CannotTrim, Send, vars
<1> QED BY <1>0, <1>1, <1>2, <1>3 DEF TypeOK

\* A step that keeps the packet keeps what was trimmed.
LEMMA TrimmedKept ==
    ASSUME UNCHANGED <<limits, item, selected>>, Trimmed
    PROVE  Trimmed'
<1>1. UNCHANGED <<Packing, Required, Capacity>>
  BY Fixed
<1>2. \A j, k : PackedBefore(j, k)' <=> PackedBefore(j, k)
  BY DEF PackedBefore, Precedes, Optional
<1>3. \A k : (Serialized(selected \cup {k}))' = Serialized(selected \cup {k})
  BY Fixed DEF Serialized
<1>4. UNCHANGED Gone
  BY <1>1 DEF Gone
<1>5. \A i \in Gone :
         (\A j \in Gone \ {i} : PackedBefore(i, j)') =>
             (Serialized(selected \cup {i}))' > Capacity
  BY <1>2, <1>3 DEF Trimmed
<1>6. \A i \in Gone, j \in selected : PackedBefore(j, i)'
  BY <1>2 DEF Trimmed
<1> QED BY <1>1, <1>4, <1>5, <1>6 DEF Trimmed

\* What one turn of the packer sees: the next item fits beside all that are
\* selected before it exactly when it fits.
LEMMA NextItem ==
    ASSUME BInv, phase = "packing", NEW i \in queue
    PROVE  /\ i \in Items /\ i \notin selected /\ selected \subseteq Items
           /\ selected \subseteq Before(i)
           /\ FitsIn(selected, i) <=> Fits(i)
           /\ Charged(selected \cup {i}) = used + item[i].cost
<1>1. TypeOK /\ PackedSoFar /\ used = Charged(selected)
  BY DEF BInv
<1>2. i \in Items /\ i \notin selected /\ selected \subseteq Items
  BY <1>1 DEF TypeOK, PackedSoFar
<1>3. selected \subseteq Before(i)
  BY <1>1, <1>2 DEF PackedSoFar, Before
<1>4. selected \cap Before(i) = selected
  BY <1>3
<1>5. Charged(selected \cup {i}) = used + item[i].cost
  BY <1>1, <1>2, AddItem
<1> QED BY <1>1, <1>2, <1>3, <1>4, <1>5 DEF FitsIn, Fits

\* A turn that takes the next item from the queue.
LEMMA PackStep ==
    ASSUME BInv, phase = "packing", NEW i \in queue, IsNext(i),
           UNCHANGED <<limits, item>>, queue' = queue \ {i},
           \/ selected' = selected \cup {i} /\ Fits(i)
           \/ selected' = selected /\ ~Fits(i) /\ Optional(i)
    PROVE  PackedSoFar'
<1>0. TypeOK /\ PackedSoFar /\ queue \subseteq Items
  BY DEF BInv, TypeOK
<1>1. /\ i \in Items /\ i \notin selected /\ selected \subseteq Items
      /\ FitsIn(selected, i) <=> Fits(i)
  BY NextItem
<1>2. Items \ queue' = (Items \ queue) \cup {i}
  BY <1>1
<1>3. ASSUME NEW k \in Items \ queue', NEW j \in queue' PROVE PackedBefore(k, j)
  BY <1>0, <1>2, <1>3 DEF PackedSoFar, IsNext
<1>4. ASSUME NEW k \in Items \ queue' PROVE k \in selected' <=> FitsIn(selected', k)
  <2>1. i \notin Before(k)
    <3>1. CASE k = i
      BY <3>1 DEF Before
    <3>2. CASE k # i
      <4>1. PackedBefore(k, i)
        BY <1>0, <1>2, <1>4, <3>2 DEF PackedSoFar
      <4> QED BY <1>0, <1>1, <4>1, OrderFacts DEF Before
    <3> QED BY <3>1, <3>2
  <2>2. selected' \cap Before(k) = selected \cap Before(k)
    BY <2>1
  <2>3. FitsIn(selected', k) <=> FitsIn(selected, k)
    BY <2>2 DEF FitsIn
  <2>4. CASE k = i
    BY <1>1, <2>3, <2>4
  <2>5. CASE k # i
    BY <1>0, <1>2, <1>4, <2>3, <2>5 DEF PackedSoFar
  <2> QED BY <2>4, <2>5
<1>5. \A k \in Items \ queue' : (FitsIn(selected, k))' <=> FitsIn(selected', k)
  BY Fixed DEF FitsIn, Charged
<1>6. \A k, j \in Items : PackedBefore(k, j)' <=> PackedBefore(k, j)
  BY DEF PackedBefore, Precedes, Optional
<1>7. selected' \subseteq Items \ queue'
  BY <1>0, <1>1 DEF PackedSoFar
<1>8. Required' \ queue' \subseteq selected'
  BY <1>0, <1>1, <1>2, Fixed DEF PackedSoFar, Required, Optional
<1> QED BY <1>0, <1>3, <1>4, <1>5, <1>6, <1>7, <1>8 DEF PackedSoFar

\* A required item that does not fit: the required items do not fit.
LEMMA RequiredOverflow ==
    ASSUME BInv, phase = "packing", NEW i \in queue, ~Fits(i), item[i].required
    PROVE  Serialized(Required) > Capacity
<1>1. /\ TypeOK /\ PackedSoFar /\ \A k \in Items : WellFormed(item[k])
      /\ HasCapacity
  BY DEF BInv
<1>2. /\ i \in Items /\ selected \subseteq Items
      /\ selected \subseteq Before(i)
      /\ Charged(selected \cup {i}) = used + item[i].cost
  BY NextItem
<1>3. selected \cup {i} \subseteq Required /\ Required \in SUBSET Items
  BY <1>2 DEF Before, PackedBefore, Optional, Required
<1>4. Charged(selected \cup {i}) <= Charged(Required)
  BY <1>1, <1>3, ChargeGrows
<1>5. Charged(Required) <= Serialized(Required)
  BY <1>1, <1>3, ChargeIsBelowSize
<1>6. Charged(selected \cup {i}) > Capacity
  <2>1. Capacity \in Nat /\ used \in Nat /\ item[i].cost \in Nat
    BY <1>1, <1>2, ItemTypes DEF TypeOK, Capacity, HasCapacity, Reserved
  <2> QED BY <1>2, <2>1 DEF Fits
<1>7. /\ Charged(selected \cup {i}) \in Nat /\ Charged(Required) \in Nat
      /\ Serialized(Required) \in Nat /\ Capacity \in Nat
  BY <1>1, <1>2, <1>3, Sizes, ItemTypes DEF Capacity, HasCapacity, Reserved
<1> QED BY <1>4, <1>5, <1>6, <1>7

\* The packet that leaves the packer is the packing.
LEMMA PackedStep ==
    ASSUME BInv, phase = "packing", queue = {}
    PROVE  Packing = selected /\ Trimmed
<1>1. TypeOK /\ PackedSoFar
  BY DEF BInv
<1>2. selected \in SUBSET Items /\ IsPacking(selected) /\ Required \subseteq selected
  BY <1>1 DEF TypeOK, PackedSoFar, IsPacking, Required
<1>3. Packing = selected
  BY <1>1, <1>2, PackingUnique
<1> QED BY <1>2, <1>3 DEF Trimmed, Gone

\* A turn of the second round takes out the last item, because the request
\* with it is too large.
LEMMA TrimStep ==
    ASSUME BInv, NEW i \in Items, Trim(i)
    PROVE  Trimmed' /\ used' = Charged(selected')
<1>0. /\ TypeOK /\ Trimmed /\ used = Charged(selected)
      /\ selected \subseteq Items /\ Packing \subseteq Items
  BY DEF BInv, TypeOK, Trim, Trimmed
<1>1. /\ i \in selected /\ Optional(i) /\ RemovesLast(i)
      /\ Serialized(selected) > Capacity
      /\ selected' = selected \ {i} /\ used' = used - item[i].cost
      /\ UNCHANGED <<limits, item>>
  BY DEF Trim
<1>2. \A j \in selected \ {i} : PackedBefore(j, i)
  <2>1. \A j \in Items : item[j].required \in BOOLEAN
    BY <1>0, ItemTypes
  <2> QED BY <1>0, <1>1, <2>1 DEF RemovesLast, PackedBefore, Optional
<1>3. Packing \ selected' = Gone \cup {i}
  BY <1>0, <1>1 DEF Trimmed, Gone
<1>4. ASSUME NEW k \in Packing \ selected', NEW j \in selected'
      PROVE  PackedBefore(j, k)
  BY <1>0, <1>1, <1>2, <1>3 DEF Trimmed
<1>5. ASSUME NEW k \in Packing \ selected',
             \A j \in (Packing \ selected') \ {k} : PackedBefore(k, j)
      PROVE  Serialized(selected' \cup {k}) > Capacity
  <2>1. k = i
    <3>1. ASSUME k # i PROVE FALSE
      <4>1. PackedBefore(k, i) /\ k \in Gone
        BY <1>3, <1>5, <3>1
      <4>2. PackedBefore(i, k)
        BY <1>0, <1>1, <4>1 DEF Trimmed
      <4> QED BY <1>0, <1>5, <4>1, <4>2, OrderFacts
    <3> QED BY <3>1
  <2>2. selected' \cup {k} = selected
    BY <1>1, <2>1
  <2> QED BY <1>1, <2>2
<1>6. used' = Charged(selected')
  <2>1. Charged(selected) = Charged(selected \ {i}) + item[i].cost
    BY <1>0, <1>1, Sizes
  <2>2. Charged(selected \ {i}) \in Nat /\ item[i].cost \in Nat
    BY <1>0, Sizes, ItemTypes
  <2> QED BY <1>0, <1>1, <2>1, <2>2
<1>7. Required \subseteq selected' /\ selected' \subseteq Packing
  BY <1>0, <1>1 DEF Trimmed, Required, Optional
<1>8. /\ Packing' = Packing /\ Required' = Required /\ Capacity' = Capacity
      /\ \A j, k \in Items : PackedBefore(j, k)' <=> PackedBefore(j, k)
      /\ Gone' = Packing \ selected'
      /\ \A k \in Items : (Serialized(selected \cup {k}))' = Serialized(selected' \cup {k})
  BY <1>1, Fixed DEF PackedBefore, Precedes, Optional, Gone, Serialized
<1>9. selected' \subseteq Items /\ Gone' \subseteq Items
  BY <1>0, <1>1, <1>8
<1> QED BY <1>4, <1>5, <1>6, <1>7, <1>8, <1>9 DEF Trimmed

\* The empty-handed end of the second round: only required items are left.
LEMMA NothingToTrim ==
    ASSUME BInv, CannotTrim
    PROVE  Serialized(Required) > Capacity
<1>1. /\ phase = "serializing" /\ Serialized(selected) > Capacity
      /\ \A i \in selected : item[i].required
  BY DEF CannotTrim
<1>2. Required \subseteq selected /\ selected \subseteq Items
  BY <1>1 DEF BInv, TypeOK, Trimmed
<1>3. selected = Required
  BY <1>1, <1>2 DEF Required
<1> QED BY <1>1, <1>3

\* A request whose fixed part is too large is given up at once.
LEMMA NoCapacity ==
    ASSUME BInv, HasCapacity, ~(limits.overhead <= Capacity)
    PROVE  Serialized(Required) > Capacity
<1>0. TypeOK /\ (\A i \in Items : WellFormed(item[i])) /\ Required \in SUBSET Items
  BY DEF BInv, Required
<1>1. Charged({}) = limits.overhead /\ Charged({}) <= Charged(Required)
  BY <1>0, Sizes, ChargeGrows
<1>2. Charged(Required) <= Serialized(Required)
  BY <1>0, ChargeIsBelowSize
<1>3. /\ limits.overhead \in Nat /\ Capacity \in Nat
      /\ Charged(Required) \in Nat /\ Serialized(Required) \in Nat
  BY <1>0, Sizes, ItemTypes DEF Capacity, HasCapacity, Reserved
<1> QED BY <1>1, <1>2, <1>3

-----------------------------------------------------------------------------
(* The theorems. *)

LEMMA BudgetInitial == Init => BInv
<1> SUFFICES ASSUME Init PROVE BInv
  OBVIOUS
<1>1. item \in [Items -> Candidates] /\ \A i \in Items : WellFormed(item[i])
  BY DEF Init
<1>2. limits \in Limits /\ Overheads \subseteq Nat
  BY SizesAssumption DEF Init
<1>3. TypeOK
  BY <1>1, <1>2 DEF Init, TypeOK, Limits
<1>4. used = Charged(selected)
  BY <1>3, Sizes DEF Init
<1> QED BY <1>1, <1>3, <1>4 DEF Init, BInv

LEMMA BudgetPreserved == BInv /\ [Next]_vars => BInv'
<1> SUFFICES ASSUME BInv, [Next]_vars PROVE BInv'
  OBVIOUS
<1>0. TypeOK' /\ UNCHANGED <<limits, item>>
  BY BudgetTypes
     DEF Next, CheckCapacity, Pack, Packed, Trim, CannotTrim, Send, vars
<1>1. /\ \A i \in Items : WellFormed(item[i])'
      /\ Capacity' = Capacity /\ HasCapacity' = HasCapacity
      /\ limits'.overhead = limits.overhead
      /\ Charged(selected)' = Charged(selected')
      /\ Serialized(selected)' = Serialized(selected')
      /\ Serialized(Required)' = Serialized(Required)
  BY <1>0, Fixed, SameSizes DEF BInv, WellFormed
<1>2. CASE CheckCapacity
  <2>1. UNCHANGED <<selected, used, queue>> /\ phase = "capacity"
    BY <1>2 DEF CheckCapacity
  <2>2. queue = Items /\ selected = {}
    BY <2>1 DEF BInv
  <2>3. PackedSoFar'
    BY <1>0, <2>1, <2>2 DEF PackedSoFar, Required
  <2>4. CASE HasCapacity /\ limits.overhead <= Capacity
    BY <1>0, <1>1, <1>2, <2>1, <2>3, <2>4 DEF BInv, CheckCapacity
  <2>5. CASE ~(HasCapacity /\ limits.overhead <= Capacity)
    BY <1>0, <1>1, <1>2, <2>1, <2>5, NoCapacity DEF BInv, CheckCapacity
  <2> QED BY <2>4, <2>5
<1>3. ASSUME NEW i \in Items, Pack(i) PROVE BInv'
  <2>1. phase = "packing" /\ i \in queue /\ IsNext(i)
    BY <1>3 DEF Pack
  <2>2. /\ used = Charged(selected) /\ HasCapacity /\ limits.overhead <= Capacity
        /\ Charged(selected \cup {i}) = used + item[i].cost
    BY <2>1, NextItem DEF BInv
  <2>3. CASE ~Fits(i) /\ item[i].required
    <3>1. phase' = "overflow" /\ UNCHANGED <<selected, used>>
      BY <1>3, <2>3 DEF Pack, Optional
    <3>2. Serialized(Required) > Capacity
      BY <2>1, <2>3, RequiredOverflow
    <3> QED BY <1>0, <1>1, <2>2, <3>1, <3>2 DEF BInv
  <2>4. CASE ~(~Fits(i) /\ item[i].required)
    <3>1. /\ queue' = queue \ {i} /\ phase' = "packing"
          /\ \/ selected' = selected \cup {i} /\ Fits(i) /\ used' = used + item[i].cost
             \/ selected' = selected /\ ~Fits(i) /\ Optional(i) /\ used' = used
      BY <1>3, <2>1, <2>4 DEF Pack
    <3>2. PackedSoFar'
      BY <1>0, <2>1, <3>1, PackStep
    <3>3. used' = Charged(selected')
      BY <2>2, <3>1
    <3> QED BY <1>0, <1>1, <2>2, <3>1, <3>2, <3>3 DEF BInv
  <2> QED BY <2>3, <2>4
<1>4. CASE Packed
  <2>1. /\ phase = "packing" /\ queue = {} /\ phase' = "serializing"
        /\ UNCHANGED <<queue, selected, used>>
    BY <1>4 DEF Packed
  <2>2. Trimmed
    BY <2>1, PackedStep
  <2>3. Trimmed'
    BY <1>0, <2>1, <2>2, TrimmedKept
  <2> QED BY <1>0, <1>1, <2>1, <2>3 DEF BInv
<1>5. ASSUME NEW i \in Items, Trim(i) PROVE BInv'
  <2>1. phase = "serializing" /\ phase' = "serializing"
    BY <1>5 DEF Trim
  <2>2. Trimmed' /\ used' = Charged(selected')
    BY <1>5, TrimStep
  <2> QED BY <1>0, <1>1, <2>1, <2>2 DEF BInv
<1>6. CASE CannotTrim
  <2>1. phase' = "overflow" /\ UNCHANGED <<selected, used>>
    BY <1>6 DEF CannotTrim
  <2>2. Serialized(Required) > Capacity
    BY <1>6, NothingToTrim
  <2> QED BY <1>0, <1>1, <2>1, <2>2 DEF BInv
<1>7. CASE Send
  <2>1. /\ phase = "serializing" /\ phase' = "sent" /\ Serialized(selected) <= Capacity
        /\ UNCHANGED <<queue, selected, used>>
    BY <1>7 DEF Send
  <2>2. Trimmed'
    BY <1>0, <2>1, TrimmedKept DEF BInv
  <2> QED BY <1>0, <1>1, <2>1, <2>2 DEF BInv
<1>8. CASE UNCHANGED vars
  <2>1. UNCHANGED <<queue, selected, used, phase>>
    BY <1>8 DEF vars
  <2>2. Trimmed => Trimmed'
    BY <1>0, <2>1, TrimmedKept
  <2>3. PackedSoFar => PackedSoFar'
    BY <1>0, <2>1, Fixed
       DEF PackedSoFar, Required, FitsIn, Charged, PackedBefore, Precedes, Optional
  <2> QED BY <1>0, <1>1, <2>1, <2>2, <2>3 DEF BInv
<1> QED BY <1>2, <1>3, <1>4, <1>5, <1>6, <1>7, <1>8 DEF Next

\* BInv is an invariant of both rounds: the packer's loop and the orchestrator's
\* trimming (context/budget.py: pack; orchestrator.py:
\* _trim_to_serialized_capacity).
THEOREM BudgetInductive == Spec => []BInv
BY BudgetInitial, BudgetPreserved, PTL DEF Spec

\* Whatever the candidates and the limits, a request that is sent carries
\* every required item, leaves the reserved output and the safety margin free,
\* and is charged for exactly the items it carries.
THEOREM SentRequestsFit == Spec => []SentRequestFits
<1>1. BInv => SentRequestFits
  <2> SUFFICES ASSUME BInv, phase = "sent" PROVE SentRequestFits
    BY DEF SentRequestFits
  <2>1. /\ TypeOK /\ Required \subseteq selected /\ HasCapacity
        /\ Serialized(selected) <= Capacity /\ used = Charged(selected)
    BY DEF BInv, Trimmed
  <2>2. Serialized(selected) \in Nat
    BY <2>1, Sizes DEF TypeOK
  <2>3. /\ Serialized(selected) <= limits.input
        /\ Serialized(selected) + Reserved <= limits.window
    BY <2>1, <2>2, ItemTypes DEF Capacity, HasCapacity, Reserved
  <2> QED BY <2>1, <2>3 DEF SentRequestFits
<1> QED BY <1>1, BudgetInductive, PTL

\* Whatever the candidates and the limits, the items sent are those of the one
\* packing up to some point of its order, no more had to go, and a request is
\* given up only when the required items alone would not fit.
THEOREM PacketsAreCutLeast == Spec => []OnlyTheLeastIsLeftOut
<1>1. BInv => OnlyTheLeastIsLeftOut
  BY DEF BInv, Trimmed, Gone, OnlyTheLeastIsLeftOut
<1> QED BY <1>1, BudgetInductive, PTL
=============================================================================
