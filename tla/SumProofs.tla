----------------------------- MODULE SumProofs ------------------------------
(***************************************************************************)
(* What a total is, for any finite set: its members may be taken out in    *)
(* any order, it grows with the set where the numbers are naturals, and it *)
(* depends on nothing but the numbers of its members.                      *)
(***************************************************************************)
EXTENDS Sums, Integers, FiniteSetTheorems, WellFoundedInduction, TLAPS

(* The smallest set with a property: the form of induction these proofs    *)
(* use.                                                                    *)
LEMMA SmallestExists ==
  ASSUME NEW S, IsFiniteSet(S), NEW Bad, Bad \subseteq SUBSET S, Bad # {}
  PROVE  \E T \in Bad : \A U \in Bad : U \subseteq T => U = T
<1>1. IsWellFoundedOn(StrictSubsetOrdering(S), SUBSET S)
  BY FS_StrictSubsetOrderingWellFounded, FS_FiniteSubsetsOfFinite
<1>2. PICK T \in Bad : \A U \in Bad : <<U, T>> \notin StrictSubsetOrdering(S)
  BY <1>1, WFMin
<1> QED
  BY <1>2 DEF StrictSubsetOrdering

-----------------------------------------------------------------------------
(* The function behind a total, on the subsets of its set.                 *)

First(T) == CHOOSE x \in T : TRUE

Accumulates(g, f, S) ==
  g = [T \in SUBSET S |-> IF T = {} THEN 0 ELSE f[First(T)] + g[T \ {First(T)}]]

Accumulated(f, S) == CHOOSE g : Accumulates(g, f, S)

LEMMA TotalIsAccumulated ==
  ASSUME NEW f, NEW S
  PROVE  Total(f, S) = Accumulated(f, S)[S]
BY DEF Total, MapThenSumSet, MapThenFoldSet, Accumulated, Accumulates, First

LEMMA FirstIsMember ==
  ASSUME NEW T, T # {}
  PROVE  First(T) \in T
BY DEF First

(* Two such functions agree wherever both are defined.                     *)
LEMMA AccumulationsAgree ==
  ASSUME NEW f, NEW S, IsFiniteSet(S), NEW R \in SUBSET S,
         NEW g, Accumulates(g, f, S), NEW h, Accumulates(h, f, R)
  PROVE  \A T \in SUBSET R : g[T] = h[T]
<1> DEFINE Bad == {T \in SUBSET R : g[T] # h[T]}
<1> SUFFICES ASSUME Bad # {} PROVE FALSE
  OBVIOUS
<1>1. IsFiniteSet(R)
  BY FS_Subset
<1>2. PICK T \in Bad : \A U \in Bad : U \subseteq T => U = T
  <2>1. Bad \subseteq SUBSET R
    OBVIOUS
  <2> HIDE DEF Bad
  <2> QED
    BY <1>1, <2>1, SmallestExists
<1>3. T \in SUBSET R /\ T \in SUBSET S /\ g[T] # h[T]
  OBVIOUS
<1>4. T # {}
  BY <1>3 DEF Accumulates
<1> DEFINE U == T \ {First(T)}
<1>5. g[U] = h[U]
  <2>1. U \in SUBSET R /\ U \subseteq T /\ U # T
    BY <1>3, <1>4, FirstIsMember
  <2> QED
    BY <1>2, <2>1
<1>6. g[T] = f[First(T)] + g[U] /\ h[T] = f[First(T)] + h[U]
  BY <1>3, <1>4 DEF Accumulates
<1> QED
  BY <1>3, <1>5, <1>6

(* There is such a function for every finite set, so a total is the number *)
(* of its first member and the total of the others.                        *)
LEMMA AccumulationExists ==
  ASSUME NEW f, NEW S, IsFiniteSet(S)
  PROVE  Accumulates(Accumulated(f, S), f, S)
<1> DEFINE Bad == {T \in SUBSET S : ~Accumulates(Accumulated(f, T), f, T)}
<1> SUFFICES ASSUME Bad # {} PROVE FALSE
  OBVIOUS
<1>1. PICK T \in Bad : \A U \in Bad : U \subseteq T => U = T
  <2>1. Bad \subseteq SUBSET S
    OBVIOUS
  <2> HIDE DEF Bad
  <2> QED
    BY <2>1, SmallestExists
<1> DEFINE total(U) == Accumulated(f, U)[U]
<1> DEFINE g == [U \in SUBSET T |-> IF U = {} THEN 0
                                     ELSE f[First(U)] + total(U \ {First(U)})]
<1>2. ASSUME NEW U \in SUBSET T, U # T
      PROVE  Accumulates(Accumulated(f, U), f, U)
  BY <1>1, <1>2
<1>3. ASSUME NEW U \in SUBSET T, U # T
      PROVE  g[U] = total(U)
  <2>1. Accumulates(Accumulated(f, U), f, U)
    BY <1>2, <1>3
  <2>2. CASE U = {}
    BY <2>1, <2>2 DEF Accumulates
  <2>3. CASE U # {}
    <3> DEFINE V == U \ {First(U)}
    <3>1. V \in SUBSET U /\ V \in SUBSET T /\ V # T
      BY <1>3, <2>3, FirstIsMember
    <3>2. Accumulates(Accumulated(f, V), f, V)
      BY <1>2, <3>1
    <3>3. IsFiniteSet(U)
      BY <1>1, FS_Subset
    <3>4. Accumulated(f, U)[V] = Accumulated(f, V)[V]
      <4> HIDE DEF V
      <4> QED
        BY <2>1, <3>1, <3>2, <3>3, AccumulationsAgree
    <3>5. total(U) = f[First(U)] + Accumulated(f, U)[V]
      BY <2>1, <2>3 DEF Accumulates
    <3> QED
      BY <2>3, <3>4, <3>5
  <2> QED
    BY <2>2, <2>3
<1>4. Accumulates(g, f, T)
  <2>1. ASSUME NEW U \in SUBSET T, U # {}
        PROVE  g[U \ {First(U)}] = total(U \ {First(U)})
    <3>1. U \ {First(U)} \in SUBSET T /\ U \ {First(U)} # T
      BY <2>1, FirstIsMember
    <3> QED
      BY <1>3, <3>1
  <2> QED
    BY <2>1 DEF Accumulates
<1>5. Accumulates(Accumulated(f, T), f, T)
  <2> HIDE DEF g
  <2> QED
    BY <1>4 DEF Accumulated
<1> QED
  BY <1>1, <1>5

LEMMA TotalOfNone ==
  ASSUME NEW f
  PROVE  Total(f, {}) = 0
<1>1. Accumulates(Accumulated(f, {}), f, {})
  BY AccumulationExists, FS_EmptySet
<1>2. Accumulated(f, {})[{}] = 0
  BY <1>1 DEF Accumulates
<1> QED
  BY <1>2, TotalIsAccumulated

LEMMA TotalByFirst ==
  ASSUME NEW f, NEW S, IsFiniteSet(S), S # {}
  PROVE  Total(f, S) = f[First(S)] + Total(f, S \ {First(S)})
<1> DEFINE R == S \ {First(S)}
<1>1. R \in SUBSET S /\ IsFiniteSet(R)
  BY FS_Subset
<1>2. Accumulates(Accumulated(f, S), f, S) /\ Accumulates(Accumulated(f, R), f, R)
  BY <1>1, AccumulationExists
<1>3. Accumulated(f, S)[R] = Accumulated(f, R)[R]
  <2> HIDE DEF R
  <2> QED
    BY <1>1, <1>2, AccumulationsAgree
<1>4. Accumulated(f, S)[S] = f[First(S)] + Accumulated(f, S)[R]
  BY <1>2 DEF Accumulates
<1> QED
  BY <1>3, <1>4, TotalIsAccumulated

-----------------------------------------------------------------------------
(* The laws of totals.                                                     *)

LEMMA TotalIsInt ==
  ASSUME NEW f, NEW S, IsFiniteSet(S), \A x \in S : f[x] \in Int
  PROVE  Total(f, S) \in Int
<1> DEFINE Bad == {T \in SUBSET S : Total(f, T) \notin Int}
<1> SUFFICES ASSUME Bad # {} PROVE FALSE
  OBVIOUS
<1>1. PICK T \in Bad : \A U \in Bad : U \subseteq T => U = T
  <2>1. Bad \subseteq SUBSET S
    OBVIOUS
  <2> HIDE DEF Bad
  <2> QED
    BY <2>1, SmallestExists
<1>2. T # {}
  <2>1. {} \notin Bad
    BY TotalOfNone
  <2> QED
    BY <1>1, <2>1
<1>3. T \ {First(T)} \in SUBSET S /\ T \ {First(T)} # T /\ f[First(T)] \in Int
  BY <1>1, <1>2, FirstIsMember
<1>4. Total(f, T \ {First(T)}) \in Int
  BY <1>1, <1>3
<1>5. Total(f, T) = f[First(T)] + Total(f, T \ {First(T)})
  BY <1>1, <1>2, TotalByFirst, FS_Subset
<1> QED
  BY <1>1, <1>3, <1>4, <1>5

(* Any member may be taken out, not only the first.                        *)
LEMMA TotalWithout ==
  ASSUME NEW f, NEW S, IsFiniteSet(S), \A x \in S : f[x] \in Int
  PROVE  \A x \in S : Total(f, S) = f[x] + Total(f, S \ {x})
<1> DEFINE Bad == {T \in SUBSET S : ~\A x \in T : Total(f, T) = f[x] + Total(f, T \ {x})}
<1> SUFFICES ASSUME Bad # {} PROVE FALSE
  OBVIOUS
<1>1. PICK T \in Bad : \A U \in Bad : U \subseteq T => U = T
  <2>1. Bad \subseteq SUBSET S
    OBVIOUS
  <2> HIDE DEF Bad
  <2> QED
    BY <2>1, SmallestExists
<1>2. PICK x \in T : Total(f, T) # f[x] + Total(f, T \ {x})
  BY <1>1
<1> DEFINE p == First(T)
<1>3. p \in T /\ p # x /\ IsFiniteSet(T)
  BY <1>1, <1>2, FirstIsMember, TotalByFirst, FS_Subset
<1>4. Total(f, T) = f[p] + Total(f, T \ {p})
  BY <1>3, TotalByFirst
<1> HIDE DEF p
<1>5. Total(f, T \ {p}) = f[x] + Total(f, (T \ {p}) \ {x})
  <2>1. T \ {p} \notin Bad
    BY <1>1, <1>3
  <2> QED
    BY <1>1, <1>2, <1>3, <2>1
<1>6. Total(f, T \ {x}) = f[p] + Total(f, (T \ {x}) \ {p})
  <2>1. T \ {x} \notin Bad
    BY <1>1, <1>2
  <2> QED
    BY <1>1, <1>2, <1>3, <2>1
<1>7. (T \ {p}) \ {x} = (T \ {x}) \ {p}
  OBVIOUS
<1>8. f[p] \in Int /\ f[x] \in Int
  BY <1>1, <1>2, <1>3
<1>9. Total(f, (T \ {p}) \ {x}) \in Int
  <2>1. (T \ {p}) \ {x} \subseteq S
    BY <1>1
  <2>2. IsFiniteSet((T \ {p}) \ {x})
    BY <2>1, FS_Subset
  <2> QED
    BY <2>1, <2>2, TotalIsInt
<1>10. \A a, b, c \in Int : a + (b + c) = b + (a + c)
  OBVIOUS
<1>11. f[p] + (f[x] + Total(f, (T \ {p}) \ {x})) = f[x] + (f[p] + Total(f, (T \ {p}) \ {x}))
  BY <1>8, <1>9, <1>10
<1> QED
  BY <1>2, <1>4, <1>5, <1>6, <1>7, <1>11, Zenon

LEMMA TotalWith ==
  ASSUME NEW f, NEW S, IsFiniteSet(S), NEW x, x \notin S,
         \A y \in S \cup {x} : f[y] \in Int
  PROVE  Total(f, S \cup {x}) = Total(f, S) + f[x]
<1>1. IsFiniteSet(S \cup {x})
  BY FS_AddElement
<1>2. (S \cup {x}) \ {x} = S
  OBVIOUS
<1>3. Total(f, S \cup {x}) = f[x] + Total(f, S)
  BY <1>1, <1>2, TotalWithout
<1>4. f[x] \in Int /\ Total(f, S) \in Int
  BY TotalIsInt
<1> QED
  BY <1>3, <1>4

(* A total of naturals grows with its set.                                 *)
LEMMA TotalGrows ==
  ASSUME NEW f, NEW S, IsFiniteSet(S), \A x \in S : f[x] \in Nat,
         NEW R, R \subseteq S
  PROVE  Total(f, R) <= Total(f, S)
<1> DEFINE Bad == {T \in SUBSET S : R \subseteq T /\ ~(Total(f, R) <= Total(f, T))}
<1> SUFFICES ASSUME Bad # {} PROVE FALSE
  OBVIOUS
<1>1. PICK T \in Bad : \A U \in Bad : U \subseteq T => U = T
  <2>1. Bad \subseteq SUBSET S
    OBVIOUS
  <2> HIDE DEF Bad
  <2> QED
    BY <2>1, SmallestExists
<1>2. \A U \in SUBSET S : IsFiniteSet(U) /\ Total(f, U) \in Int
  BY FS_Subset, TotalIsInt
<1>3. PICK x \in T : x \notin R
  <2>1. Total(f, R) <= Total(f, R)
    BY <1>2
  <2>2. T # R
    BY <1>1, <2>1
  <2> QED
    BY <1>1, <2>2
<1>4. T \ {x} \notin Bad
  BY <1>1, <1>3
<1>5. Total(f, R) <= Total(f, T \ {x})
  BY <1>1, <1>3, <1>4
<1>6. Total(f, T) = f[x] + Total(f, T \ {x})
  BY <1>1, <1>2, <1>3, TotalWithout
<1>7. f[x] \in Nat /\ Total(f, R) \in Int /\ Total(f, T \ {x}) \in Int
  BY <1>1, <1>2, <1>3
<1> QED
  BY <1>1, <1>5, <1>6, <1>7

LEMMA TotalIsNat ==
  ASSUME NEW f, NEW S, IsFiniteSet(S), \A x \in S : f[x] \in Nat
  PROVE  Total(f, S) \in Nat
<1>1. Total(f, {}) <= Total(f, S)
  BY TotalGrows
<1> QED
  BY <1>1, TotalOfNone, TotalIsInt

(* A total depends on nothing but the numbers of its members.              *)
LEMMA TotalByMembers ==
  ASSUME NEW f, NEW g, NEW S, IsFiniteSet(S), \A x \in S : f[x] = g[x]
  PROVE  Total(f, S) = Total(g, S)
<1> DEFINE Bad == {T \in SUBSET S : Total(f, T) # Total(g, T)}
<1> SUFFICES ASSUME Bad # {} PROVE FALSE
  OBVIOUS
<1>1. PICK T \in Bad : \A U \in Bad : U \subseteq T => U = T
  <2>1. Bad \subseteq SUBSET S
    OBVIOUS
  <2> HIDE DEF Bad
  <2> QED
    BY <2>1, SmallestExists
<1>2. T # {} /\ IsFiniteSet(T)
  BY <1>1, TotalOfNone, FS_Subset
<1> DEFINE x == First(T)
<1>3. x \in T
  BY <1>2, FirstIsMember
<1>4. Total(f, T) = f[x] + Total(f, T \ {x}) /\ Total(g, T) = g[x] + Total(g, T \ {x})
  BY <1>2, TotalByFirst
<1> HIDE DEF x
<1>5. T \ {x} \notin Bad
  BY <1>1, <1>3
<1>6. Total(f, T \ {x}) = Total(g, T \ {x})
  BY <1>1, <1>5
<1> QED
  BY <1>1, <1>3, <1>4, <1>6
=============================================================================
