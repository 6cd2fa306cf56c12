-------------------------- MODULE VocabularyProofs --------------------------
(***************************************************************************)
(* What the pure algorithms of drm-core compute, for every vocabulary and  *)
(* every text.                                                             *)
(*                                                                         *)
(* These are facts about recursive functions, so they need induction.  The *)
(* induction theorems of the library take a predicate as a parameter; here *)
(* the predicate is a set instead, the set of the values that have the     *)
(* property, and induction is the statement that the set is everything.    *)
(* That a recursive function exists is proved in the same way: it exists   *)
(* on a part of its domain that grows by one value at a time.              *)
(***************************************************************************)
EXTENDS Vocabulary, SequenceTheorems, FiniteSetTheorems, WellFoundedInduction, TLAPS

(* Every nonempty set of naturals has a least element.                     *)
LEMMA LeastNat ==
  ASSUME NEW T, T \subseteq Nat, T # {}
  PROVE  \E n \in T : \A m \in T : n <= m
<1>1. PICK n \in T : \A m \in T : ~(<<m, n>> \in OpToRel(<, Nat))
  BY WFMin, NatLessThanWellFounded
<1>2. \A m \in T : ~(m < n)
  BY <1>1 DEF OpToRel
<1>3. QED
  BY <1>2

(* Induction up to n.                                                      *)
LEMMA InductionUpTo ==
  ASSUME NEW T, NEW n \in Nat, 0 \in T, \A k \in 0..(n - 1) : k \in T => k + 1 \in T
  PROVE  \A k \in 0..n : k \in T
<1> SUFFICES ASSUME NEW j \in 0..n, j \notin T
             PROVE  FALSE
  OBVIOUS
<1> DEFINE C == {k \in 0..n : k \notin T}
<1>1. PICK m \in C : \A k \in C : m <= k
  <2>1. C \subseteq Nat /\ C # {}
    OBVIOUS
  <2> HIDE DEF C
  <2>2. QED
    BY <2>1, LeastNat
<1>2. m # 0 /\ m \in Nat /\ m - 1 \in 0..(n - 1)
  OBVIOUS
<1>3. m - 1 \in T
  BY <1>1, <1>2
<1>4. (m - 1) + 1 \in T
  BY <1>2, <1>3
<1>5. QED
  BY <1>2, <1>4

(* Induction over the naturals, where all smaller ones may be used.        *)
LEMMA StrongInduction ==
  ASSUME NEW T, \A n \in Nat : (\A m \in 0..(n - 1) : m \in T) => n \in T
  PROVE  \A n \in Nat : n \in T
<1> SUFFICES ASSUME NEW j \in Nat, j \notin T
             PROVE  FALSE
  OBVIOUS
<1> DEFINE C == {k \in Nat : k \notin T}
<1>1. PICK m \in C : \A k \in C : m <= k
  <2>1. C \subseteq Nat /\ C # {}
    OBVIOUS
  <2> HIDE DEF C
  <2>2. QED
    BY <2>1, LeastNat
<1>2. \A k \in 0..(m - 1) : k \in T
  BY <1>1
<1>3. QED
  BY <1>2

(* Induction over the parts of a finite set.                               *)
LEMMA FiniteInduction ==
  ASSUME NEW S, IsFiniteSet(S), NEW T, {} \in T,
         \A U \in SUBSET S : \A x \in S \ U : U \in T => U \cup {x} \in T
  PROVE  \A U \in SUBSET S : U \in T
<1> DEFINE Sized == {n \in Nat : \A U \in SUBSET S : Cardinality(U) = n => U \in T}
<1>1. \A U \in SUBSET S : IsFiniteSet(U) /\ Cardinality(U) \in Nat
  BY FS_Subset, FS_CardinalityType
<1>2. 0 \in Sized
  BY <1>1, FS_EmptySet
<1>3. ASSUME NEW n \in Nat, n \in Sized
      PROVE  n + 1 \in Sized
  <2>1. SUFFICES ASSUME NEW U \in SUBSET S, Cardinality(U) = n + 1
                 PROVE  U \in T
    OBVIOUS
  <2>2. PICK x : x \in U
    BY <2>1, FS_EmptySet
  <2>3. U \ {x} \in SUBSET S /\ x \in S \ (U \ {x}) /\ (U \ {x}) \cup {x} = U
    BY <2>2
  <2>4. Cardinality(U \ {x}) = n
    <3>1. Cardinality(U \ {x}) = Cardinality(U) - 1
      BY <1>1, <2>2, FS_RemoveElement
    <3>2. QED
      BY <2>1, <3>1
  <2>5. U \ {x} \in T
    BY <1>3, <2>3, <2>4
  <2>6. QED
    BY <2>3, <2>5
<1> HIDE DEF Sized
<1>4. \A n \in Nat : \A k \in 0..n : k \in Sized
  <2>1. TAKE n \in Nat
  <2>2. \A k \in 0..(n - 1) : k \in Sized => k + 1 \in Sized
    BY <1>3
  <2>3. QED
    BY <1>2, <2>2, InductionUpTo
<1>5. \A n \in Nat : n \in Sized
  BY <1>4
<1>6. QED
  BY <1>1, <1>5 DEF Sized

----------------------------------------------------------------------------
(* Least and greatest elements.                                            *)

LEMMA MinProperties ==
  ASSUME NEW T, T \subseteq Nat, T # {}
  PROVE  Min(T) \in T /\ \A m \in T : Min(T) <= m
BY LeastNat DEF Min

LEMMA MinIs ==
  ASSUME NEW T, T \subseteq Nat, NEW n \in T, \A m \in T : n <= m
  PROVE  Min(T) = n
<1>1. Min(T) \in T /\ \A m \in T : Min(T) <= m
  BY MinProperties
<1>2. Min(T) \in Nat /\ n \in Nat /\ Min(T) <= n /\ n <= Min(T)
  BY <1>1
<1> HIDE DEF Min
<1>3. QED
  BY <1>2

LEMMA MaxProperties ==
  ASSUME NEW n \in Nat, NEW T, T \subseteq 0..n, T # {}
  PROVE  Max(T) \in T /\ \A m \in T : Max(T) >= m
<1> DEFINE C == {n - k : k \in T}
<1>1. C \subseteq Nat /\ C # {}
  <2>1. \A k \in T : n - k \in Nat
    OBVIOUS
  <2>2. QED
    BY <2>1
<1>2. PICK c \in C : \A d \in C : c <= d
  <2> HIDE DEF C
  <2> QED
    BY <1>1, LeastNat
<1>3. PICK k \in T : c = n - k
  OBVIOUS
<1>4. \A m \in T : k >= m
  BY <1>2, <1>3
<1>5. QED
  BY <1>3, <1>4 DEF Max

LEMMA MinOfTwo ==
  ASSUME NEW m \in Nat, NEW n \in Nat
  PROVE  Min({m, n}) \in {m, n} /\ Min({m, n}) <= m /\ Min({m, n}) <= n
<1>1. {m, n} \subseteq Nat /\ {m, n} # {}
  OBVIOUS
<1>2. QED
  BY <1>1, MinProperties

----------------------------------------------------------------------------
(* Sums over a finite set.                                                 *)

(* Induction over the parts of a finite set, where the proper parts of a   *)
(* part may be used.                                                       *)
LEMMA PartInduction ==
  ASSUME NEW S, IsFiniteSet(S), NEW T,
         \A U \in SUBSET S : (\A V \in SUBSET U : V # U => V \in T) => U \in T
  PROVE  \A U \in SUBSET S : U \in T
<1> DEFINE Sized == {n \in Nat : \A U \in SUBSET S : Cardinality(U) = n => U \in T}
<1>1. \A U \in SUBSET S : IsFiniteSet(U) /\ Cardinality(U) \in Nat
  BY FS_Subset, FS_CardinalityType
<1>2. ASSUME NEW n \in Nat, \A m \in 0..(n - 1) : m \in Sized
      PROVE  n \in Sized
  <2>1. SUFFICES ASSUME NEW U \in SUBSET S, Cardinality(U) = n
                 PROVE  U \in T
    OBVIOUS
  <2>2. ASSUME NEW V \in SUBSET U, V # U
        PROVE  V \in T
    <3>1. Cardinality(V) <= Cardinality(U) /\ Cardinality(V) # Cardinality(U)
      BY <1>1, <2>2, FS_Subset
    <3>2. V \in SUBSET S /\ Cardinality(V) \in 0..(n - 1)
      BY <1>1, <2>1, <3>1
    <3>3. QED
      BY <1>2, <3>2
  <2>3. QED
    BY <2>2
<1> HIDE DEF Sized
<1>3. \A n \in Nat : n \in Sized
  BY <1>2, StrongInduction
<1>4. QED
  BY <1>1, <1>3 DEF Sized

(* The fold behind a sum, with its recursion.                              *)
IsFold(it, f, S) ==
  it = [U \in SUBSET S |->
          IF U = {} THEN 0 ELSE LET x == CHOOSE x \in U : TRUE IN f[x] + it[U \ {x}]]

LEMMA FoldExists ==
  ASSUME NEW f, NEW S, IsFiniteSet(S)
  PROVE  \E it : IsFold(it, f, S)
<1> DEFINE Def(g, U) == IF U = {} THEN 0 ELSE LET x == CHOOSE x \in U : TRUE IN f[x] + g[U \ {x}]
           Small(n)  == {U \in SUBSET S : Cardinality(U) <= n}
           T == {n \in 0..Cardinality(S) : \E g : g = [U \in Small(n) |-> Def(g, U)]}
<1>1. \A U \in SUBSET S : /\ IsFiniteSet(U) /\ Cardinality(U) \in 0..Cardinality(S)
                          /\ Cardinality(U) = 0 <=> U = {}
  <2>1. Cardinality(S) \in Nat
    BY FS_CardinalityType
  <2>2. \A U \in SUBSET S : IsFiniteSet(U) /\ Cardinality(U) \in Nat /\ Cardinality(U) <= Cardinality(S)
    BY FS_Subset, FS_CardinalityType
  <2>3. QED
    BY <2>1, <2>2, FS_EmptySet
<1>2. Cardinality(S) \in Nat
  BY FS_CardinalityType
<1>3. 0 \in T
  <2> DEFINE g == [U \in Small(0) |-> 0]
  <2>1. \A U \in Small(0) : U = {}
    BY <1>1
  <2>2. g = [U \in Small(0) |-> Def(g, U)]
    BY <2>1
  <2> HIDE DEF g, Def, Small
  <2>3. 0 \in 0..Cardinality(S)
    BY <1>2
  <2>4. QED
    BY <2>2, <2>3
<1>4. ASSUME NEW n \in 0..(Cardinality(S) - 1), n \in T
      PROVE  n + 1 \in T
  <2>1. PICK g : g = [U \in Small(n) |-> Def(g, U)]
    BY <1>4
  <2> DEFINE h == [U \in Small(n + 1) |-> Def(g, U)]
  <2>2. \A U \in Small(n) : U \in Small(n + 1) /\ h[U] = g[U]
    <3>1. \A U \in Small(n) : U \in Small(n + 1)
      BY <1>1, <1>2
    <3> HIDE DEF Def, Small
    <3>2. QED
      BY <2>1, <3>1
  <2>3. ASSUME NEW U \in Small(n + 1)
        PROVE  Def(h, U) = Def(g, U)
    <3>1. CASE U = {}
      BY <3>1
    <3>2. CASE U # {}
      <4> DEFINE x == CHOOSE x \in U : TRUE
      <4>1. x \in U
        BY <3>2
      <4> HIDE DEF x
      <4>2. Cardinality(U \ {x}) = Cardinality(U) - 1
        BY <1>1, <4>1, FS_RemoveElement
      <4>3. U \ {x} \in Small(n)
        BY <1>1, <1>2, <4>2
      <4>4. h[U \ {x}] = g[U \ {x}]
        BY <2>2, <4>3
      <4>5. f[x] + h[U \ {x}] = f[x] + g[U \ {x}]
        BY <4>4
      <4> HIDE DEF h
      <4>6. QED
        BY <3>2, <4>5 DEF x
    <3>3. QED
      BY <3>1, <3>2
  <2>4. h = [U \in Small(n + 1) |-> Def(h, U)]
    <3> HIDE DEF Def, Small
    <3> QED
      BY <2>3
  <2> HIDE DEF h, Def, Small
  <2>5. n + 1 \in 0..Cardinality(S)
    BY <1>2
  <2>6. QED
    BY <2>4, <2>5
<1>5. Cardinality(S) \in T
  <2> HIDE DEF T
  <2>1. \A k \in 0..Cardinality(S) : k \in T
    BY <1>2, <1>3, <1>4, InductionUpTo
  <2>2. QED
    BY <1>2, <2>1
<1>6. Small(Cardinality(S)) = SUBSET S
  BY <1>1
<1>7. \E g : g = [U \in SUBSET S |-> Def(g, U)]
  <2> HIDE DEF Def, Small
  <2> QED
    BY <1>5, <1>6
<1>8. QED
  BY <1>7 DEF IsFold

LEMMA SumIsFold ==
  ASSUME NEW f, NEW S, IsFiniteSet(S)
  PROVE  \E it : IsFold(it, f, S) /\ SumFunctionOnSet(f, S) = it[S]
<1> DEFINE F == CHOOSE it : IsFold(it, f, S)
<1>1. IsFold(F, f, S)
  BY FoldExists
<1>2. SumFunctionOnSet(f, S) = F[S]
  BY Zenon DEF SumFunctionOnSet, FoldFunctionOnSet, MapThenFoldSet, IsFold
<1> HIDE DEF F
<1>3. QED
  BY <1>1, <1>2

(* Every fold over a set that contains S sums S alike.                     *)
LEMMA FoldIsSum ==
  ASSUME NEW f, NEW S, IsFiniteSet(S), NEW it, IsFold(it, f, S)
  PROVE  \A U \in SUBSET S : it[U] = SumFunctionOnSet(f, U)
<1>1. SUFFICES ASSUME NEW U \in SUBSET S
               PROVE  it[U] = SumFunctionOnSet(f, U)
  OBVIOUS
<1>2. IsFiniteSet(U)
  BY FS_Subset
<1>3. PICK own : IsFold(own, f, U) /\ SumFunctionOnSet(f, U) = own[U]
  BY <1>2, SumIsFold
<1> DEFINE T == {V \in SUBSET U : it[V] = own[V]}
<1>4. ASSUME NEW V \in SUBSET U, \A W \in SUBSET V : W # V => W \in T
      PROVE  V \in T
  <2>1. /\ it[V] = IF V = {} THEN 0 ELSE LET x == CHOOSE x \in V : TRUE IN f[x] + it[V \ {x}]
        /\ own[V] = IF V = {} THEN 0 ELSE LET x == CHOOSE x \in V : TRUE IN f[x] + own[V \ {x}]
    <3>1. V \in SUBSET S /\ V \in SUBSET U
      OBVIOUS
    <3>2. QED
      BY <1>3, <3>1 DEF IsFold
  <2>2. CASE V = {}
    BY <2>1, <2>2
  <2>3. CASE V # {}
    <3> DEFINE x == CHOOSE x \in V : TRUE
    <3>1. x \in V
      BY <2>3
    <3>2. it[V] = f[x] + it[V \ {x}] /\ own[V] = f[x] + own[V \ {x}]
      BY <2>1, <2>3
    <3> HIDE DEF x
    <3>3. V \ {x} \in T
      BY <1>4, <3>1
    <3>4. QED
      BY <3>2, <3>3
  <2>4. QED
    BY <2>2, <2>3
<1>5. U \in T
  <2> HIDE DEF T
  <2>1. \A V \in SUBSET U : V \in T
    BY <1>2, <1>4, PartInduction
  <2>2. QED
    BY <2>1
<1>6. QED
  BY <1>3, <1>5

LEMMA SumOfNothing ==
  ASSUME NEW f
  PROVE  SumFunctionOnSet(f, {}) = 0
<1>1. PICK it : IsFold(it, f, {}) /\ SumFunctionOnSet(f, {}) = it[{}]
  BY FS_EmptySet, SumIsFold
<1>2. QED
  BY <1>1 DEF IsFold

LEMMA SumOfSome ==
  ASSUME NEW f, NEW S, IsFiniteSet(S), S # {}
  PROVE  \E x \in S : SumFunctionOnSet(f, S) = f[x] + SumFunctionOnSet(f, S \ {x})
<1>1. PICK it : IsFold(it, f, S) /\ SumFunctionOnSet(f, S) = it[S]
  BY SumIsFold
<1> DEFINE x == CHOOSE x \in S : TRUE
<1>2. x \in S
  OBVIOUS
<1>3. it[S] = f[x] + it[S \ {x}]
  BY <1>1 DEF IsFold
<1> HIDE DEF x
<1>4. it[S \ {x}] = SumFunctionOnSet(f, S \ {x})
  <2>1. S \ {x} \in SUBSET S
    OBVIOUS
  <2>2. \A U \in SUBSET S : it[U] = SumFunctionOnSet(f, U)
    BY <1>1, FoldIsSum
  <2>3. QED
    BY <2>1, <2>2
<1>5. QED
  BY <1>1, <1>2, <1>3, <1>4

LEMMA SumType ==
  ASSUME NEW f, NEW S, IsFiniteSet(S), \A x \in S : f[x] \in Int
  PROVE  \A U \in SUBSET S : SumFunctionOnSet(f, U) \in Int
<1> DEFINE T == {U \in SUBSET S : SumFunctionOnSet(f, U) \in Int}
<1>1. ASSUME NEW U \in SUBSET S, \A V \in SUBSET U : V # U => V \in T
      PROVE  U \in T
  <2>1. IsFiniteSet(U)
    BY FS_Subset
  <2>2. CASE U = {}
    BY <2>2, SumOfNothing
  <2>3. CASE U # {}
    <3>1. PICK x \in U : SumFunctionOnSet(f, U) = f[x] + SumFunctionOnSet(f, U \ {x})
      BY <2>1, <2>3, SumOfSome
    <3>2. SumFunctionOnSet(f, U \ {x}) \in Int /\ f[x] \in Int
      BY <1>1
    <3>3. QED
      BY <3>1, <3>2
  <2>4. QED
    BY <2>2, <2>3
<1>2. \A U \in SUBSET S : U \in T
  <2> HIDE DEF T
  <2> QED
    BY <1>1, PartInduction
<1>3. QED
  BY <1>2

(* Any element of the set may be taken out of the sum first.               *)
LEMMA SumTakesOut ==
  ASSUME NEW f, NEW S, IsFiniteSet(S), \A x \in S : f[x] \in Int, NEW e \in S
  PROVE  SumFunctionOnSet(f, S) = f[e] + SumFunctionOnSet(f, S \ {e})
<1> DEFINE T == {U \in SUBSET S :
                   \A x \in U : SumFunctionOnSet(f, U) = f[x] + SumFunctionOnSet(f, U \ {x})}
<1>1. \A U \in SUBSET S : IsFiniteSet(U) /\ SumFunctionOnSet(f, U) \in Int
  BY FS_Subset, SumType
<1>2. ASSUME NEW U \in SUBSET S, \A V \in SUBSET U : V # U => V \in T
      PROVE  U \in T
  <2>1. SUFFICES ASSUME NEW x \in U
                 PROVE  SumFunctionOnSet(f, U) = f[x] + SumFunctionOnSet(f, U \ {x})
    OBVIOUS
  <2>2. PICK c \in U : SumFunctionOnSet(f, U) = f[c] + SumFunctionOnSet(f, U \ {c})
    BY <1>1, SumOfSome
  <2>3. CASE c = x
    BY <2>2, <2>3
  <2>4. CASE c # x
    <3>1. SumFunctionOnSet(f, U \ {c}) = f[x] + SumFunctionOnSet(f, (U \ {c}) \ {x})
      <4>1. U \ {c} \in T /\ x \in U \ {c}
        BY <1>2, <2>4
      <4>2. QED
        BY <4>1
    <3>2. SumFunctionOnSet(f, U \ {x}) = f[c] + SumFunctionOnSet(f, (U \ {x}) \ {c})
      <4>1. U \ {x} \in T /\ c \in U \ {x}
        BY <1>2, <2>4
      <4>2. QED
        BY <4>1
    <3>3. (U \ {c}) \ {x} = (U \ {x}) \ {c} /\ (U \ {x}) \ {c} \in SUBSET S
      OBVIOUS
    <3>4. SumFunctionOnSet(f, (U \ {x}) \ {c}) \in Int /\ f[x] \in Int /\ f[c] \in Int
      BY <1>1, <3>3
    <3>5. SumFunctionOnSet(f, (U \ {c}) \ {x}) = SumFunctionOnSet(f, (U \ {x}) \ {c})
      BY <3>3
    <3>6. f[c] + (f[x] + SumFunctionOnSet(f, (U \ {x}) \ {c}))
            = f[x] + (f[c] + SumFunctionOnSet(f, (U \ {x}) \ {c}))
      BY <3>4
    <3>7. QED
      BY <2>2, <3>1, <3>2, <3>5, <3>6
  <2>5. QED
    BY <2>3, <2>4
<1>3. S \in T
  <2> HIDE DEF T
  <2>1. \A U \in SUBSET S : U \in T
    BY <1>2, PartInduction
  <2>2. QED
    BY <2>1
<1>4. QED
  BY <1>3

(* The difference of two sums is the sum of the differences.               *)
LEMMA SumOfDifferences ==
  ASSUME NEW S, IsFiniteSet(S), NEW f, NEW g, NEW h,
         \A x \in S : f[x] \in Int /\ g[x] \in Int /\ h[x] = f[x] - g[x]
  PROVE  SumFunctionOnSet(h, S) = SumFunctionOnSet(f, S) - SumFunctionOnSet(g, S)
<1> DEFINE T == {U \in SUBSET S :
                   SumFunctionOnSet(h, U) = SumFunctionOnSet(f, U) - SumFunctionOnSet(g, U)}
<1>1. {} \in T
  BY SumOfNothing
<1>2. \A x \in S : h[x] \in Int
  OBVIOUS
<1>3. \A U \in SUBSET S : IsFiniteSet(U) /\ SumFunctionOnSet(f, U) \in Int
                          /\ SumFunctionOnSet(g, U) \in Int /\ SumFunctionOnSet(h, U) \in Int
  BY <1>2, FS_Subset, SumType
<1>4. ASSUME NEW U \in SUBSET S, NEW x \in S \ U, U \in T
      PROVE  U \cup {x} \in T
  <2>1. (U \cup {x}) \in SUBSET S /\ (U \cup {x}) \ {x} = U /\ x \in U \cup {x}
    OBVIOUS
  <2>2. IsFiniteSet(U \cup {x})
    BY <1>3, <2>1
  <2>3. /\ SumFunctionOnSet(f, U \cup {x}) = f[x] + SumFunctionOnSet(f, U)
        /\ SumFunctionOnSet(g, U \cup {x}) = g[x] + SumFunctionOnSet(g, U)
        /\ SumFunctionOnSet(h, U \cup {x}) = h[x] + SumFunctionOnSet(h, U)
    BY <1>2, <2>1, <2>2, SumTakesOut
  <2>4. QED
    BY <1>3, <1>4, <2>1, <2>3
<1>5. S \in T
  <2> HIDE DEF T
  <2>1. \A U \in SUBSET S : U \in T
    BY <1>1, <1>4, FiniteInduction
  <2>2. QED
    BY <2>1
<1>6. QED
  BY <1>5

(* What is 0 adds nothing.                                                 *)
LEMMA SumOfZeros ==
  ASSUME NEW S, IsFiniteSet(S), NEW f, \A x \in S : f[x] \in Int,
         NEW U \in SUBSET S, \A x \in S \ U : f[x] = 0
  PROVE  SumFunctionOnSet(f, S) = SumFunctionOnSet(f, U)
<1> DEFINE T == {V \in SUBSET (S \ U) : SumFunctionOnSet(f, U \cup V) = SumFunctionOnSet(f, U)}
<1>1. {} \in T
  <2>1. U \cup {} = U
    OBVIOUS
  <2>2. QED
    BY <2>1
<1>2. \A V \in SUBSET S : IsFiniteSet(V) /\ SumFunctionOnSet(f, V) \in Int
  BY FS_Subset, SumType
<1>3. ASSUME NEW V \in SUBSET (S \ U), NEW x \in (S \ U) \ V, V \in T
      PROVE  V \cup {x} \in T
  <2> DEFINE W == U \cup (V \cup {x})
  <2>1. W \in SUBSET S /\ W \ {x} = U \cup V /\ x \in W /\ U \cup V \in SUBSET S
    OBVIOUS
  <2> HIDE DEF W
  <2>2. SumFunctionOnSet(f, W) = f[x] + SumFunctionOnSet(f, U \cup V)
    BY <1>2, <2>1, SumTakesOut
  <2>3. SumFunctionOnSet(f, W) = SumFunctionOnSet(f, U)
    BY <1>2, <1>3, <2>1, <2>2
  <2>4. QED
    BY <2>3 DEF W
<1>4. S \ U \in T
  <2>1. IsFiniteSet(S \ U)
    BY <1>2
  <2> HIDE DEF T
  <2>2. \A V \in SUBSET (S \ U) : V \in T
    BY ZenonT(60), <1>1, <1>3, <2>1, FiniteInduction
  <2>3. QED
    BY <2>2
<1>5. U \cup (S \ U) = S
  OBVIOUS
<1>6. QED
  BY <1>4, <1>5

(* A sum depends on the terms alone.                                       *)
LEMMA SumOfSame ==
  ASSUME NEW S, IsFiniteSet(S), NEW f, NEW g, \A x \in S : f[x] \in Int /\ g[x] = f[x]
  PROVE  SumFunctionOnSet(f, S) = SumFunctionOnSet(g, S)
<1>1. PICK h : h = [x \in S |-> 0]
  OBVIOUS
<1>2. SumFunctionOnSet(h, S) = SumFunctionOnSet(f, S) - SumFunctionOnSet(g, S)
  <2>1. \A x \in S : f[x] \in Int /\ g[x] \in Int /\ h[x] = f[x] - g[x]
    BY <1>1
  <2>2. QED
    BY <2>1, SumOfDifferences
<1>3. SumFunctionOnSet(h, S) = 0
  <2>1. \A x \in S : h[x] \in Int /\ h[x] = 0
    BY <1>1
  <2>2. {} \in SUBSET S /\ \A x \in S \ {} : h[x] = 0
    BY <2>1
  <2>3. SumFunctionOnSet(h, S) = SumFunctionOnSet(h, {})
    BY <2>1, <2>2, SumOfZeros
  <2>4. QED
    BY <2>3, SumOfNothing
<1>4. SumFunctionOnSet(f, S) \in Int /\ SumFunctionOnSet(g, S) \in Int
  BY SumType
<1>5. QED
  BY <1>2, <1>3, <1>4

----------------------------------------------------------------------------
(* Flatten concatenates.                                                   *)

(* Concatenation may be bracketed either way.                              *)
LEMMA ConcatAnyOrder ==
  ASSUME NEW X
  PROVE  \A a, b, c \in Seq(X) : (a \o b) \o c = a \o (b \o c)
OBVIOUS

LEMMA PrependProperties ==
  ASSUME NEW X, NEW a \in X, NEW t \in Seq(X)
  PROVE  <<a>> \o t \in Seq(X) /\ Len(<<a>> \o t) = 1 + Len(t)
OBVIOUS

IsConcat(upTo, parts) ==
  upTo = [n \in 0..Len(parts) |-> IF n = 0 THEN <<>> ELSE upTo[n - 1] \o parts[n]]

LEMMA ConcatStep ==
  ASSUME NEW upTo, NEW parts, IsConcat(upTo, parts), Len(parts) \in Nat, NEW n \in 0..(Len(parts) - 1)
  PROVE  upTo[0] = <<>> /\ upTo[n + 1] = upTo[n] \o parts[n + 1]
<1>1. \A k \in 0..Len(parts) : upTo[k] = IF k = 0 THEN <<>> ELSE upTo[k - 1] \o parts[k]
  BY Zenon DEF IsConcat
<1>2. n + 1 \in 0..Len(parts) /\ 0 \in 0..Len(parts) /\ n + 1 # 0 /\ (n + 1) - 1 = n
  OBVIOUS
<1>3. QED
  BY <1>1, <1>2

LEMMA ConcatExists ==
  ASSUME NEW parts, Len(parts) \in Nat
  PROVE  \E upTo : IsConcat(upTo, parts)
<1> DEFINE Def(g, n) == IF n = 0 THEN <<>> ELSE g[n - 1] \o parts[n]
           T == {k \in 0..Len(parts) : \E g : g = [n \in 0..k |-> Def(g, n)]}
<1>1. 0 \in T
  <2> DEFINE g == [n \in 0..0 |-> <<>>]
  <2>1. g = [n \in 0..0 |-> Def(g, n)]
    OBVIOUS
  <2> HIDE DEF g, Def
  <2>2. QED
    BY <2>1
<1>2. ASSUME NEW k \in 0..(Len(parts) - 1), k \in T
      PROVE  k + 1 \in T
  <2>1. PICK g : g = [n \in 0..k |-> Def(g, n)]
    BY <1>2
  <2> DEFINE h == [n \in 0..(k + 1) |-> Def(g, n)]
  <2>2. \A n \in 0..k : h[n] = g[n]
    <3>1. \A n \in 0..k : n \in 0..(k + 1)
      OBVIOUS
    <3> HIDE DEF Def
    <3>2. QED
      BY <2>1, <3>1
  <2>3. ASSUME NEW n \in 0..(k + 1)
        PROVE  Def(h, n) = Def(g, n)
    <3>1. n = 0 \/ n - 1 \in 0..k
      OBVIOUS
    <3> HIDE DEF h
    <3>2. QED
      BY <2>2, <3>1
  <2>4. h = [n \in 0..(k + 1) |-> Def(h, n)]
    <3> HIDE DEF Def
    <3> QED
      BY <2>3
  <2> HIDE DEF h, Def
  <2>5. k + 1 \in 0..Len(parts)
    OBVIOUS
  <2>6. QED
    BY <2>4, <2>5
<1>3. \E g : g = [n \in 0..Len(parts) |-> Def(g, n)]
  <2>1. \A k \in 0..Len(parts) : k \in T
    <3> HIDE DEF T
    <3> QED
      BY <1>1, <1>2, InductionUpTo
  <2> HIDE DEF Def
  <2>2. QED
    BY <2>1
<1>4. QED
  BY <1>3 DEF IsConcat

LEMMA FlattenIsConcat ==
  ASSUME NEW X, NEW parts \in Seq(Seq(X))
  PROVE  \E upTo : /\ IsConcat(upTo, parts)
                   /\ Flatten(parts) = upTo[Len(parts)]
                   /\ \A n \in 0..Len(parts) : upTo[n] \in Seq(X)
<1> DEFINE U == CHOOSE upTo : IsConcat(upTo, parts)
<1>1. Len(parts) \in Nat /\ \A n \in 1..Len(parts) : parts[n] \in Seq(X)
  OBVIOUS
<1>2. IsConcat(U, parts)
  BY <1>1, ConcatExists
<1>3. Flatten(parts) = U[Len(parts)]
  BY Zenon DEF Flatten, IsConcat
<1> HIDE DEF U
<1>4. PICK u : u = U
  OBVIOUS
<1>5. IsConcat(u, parts) /\ Flatten(parts) = u[Len(parts)]
  BY <1>2, <1>3, <1>4
<1>6. \A n \in 0..Len(parts) : u[n] \in Seq(X)
  <2> DEFINE T == {n \in 0..Len(parts) : u[n] \in Seq(X)}
  <2>1. 0 \in T
    BY <1>1, <1>5 DEF IsConcat
  <2>2. ASSUME NEW n \in 0..(Len(parts) - 1), n \in T
        PROVE  n + 1 \in T
    <3>1. n + 1 \in 1..Len(parts) /\ n + 1 \in 0..Len(parts)
      BY <1>1
    <3>2. u[n + 1] = u[n] \o parts[n + 1]
      BY <1>1, <1>5, ConcatStep
    <3>3. u[n] \in Seq(X) /\ parts[n + 1] \in Seq(X)
      BY <1>1, <2>2, <3>1
    <3>4. u[n + 1] \in Seq(X)
      BY <3>2, <3>3
    <3>5. QED
      BY <3>1, <3>4
  <2> HIDE DEF T
  <2>3. \A n \in 0..Len(parts) : n \in T
    BY <1>1, <2>1, <2>2, InductionUpTo
  <2>4. QED
    BY <2>3 DEF T
<1>7. QED
  BY <1>5, <1>6

LEMMA FlattenType ==
  ASSUME NEW X, NEW parts \in Seq(Seq(X))
  PROVE  Flatten(parts) \in Seq(X)
<1>1. PICK upTo : Flatten(parts) = upTo[Len(parts)] /\ \A n \in 0..Len(parts) : upTo[n] \in Seq(X)
  BY FlattenIsConcat
<1>2. Len(parts) \in 0..Len(parts)
  OBVIOUS
<1>3. QED
  BY <1>1, <1>2

LEMMA FlattenNothing == Flatten(<<>>) = <<>>
<1>1. <<>> \in Seq(Seq({})) /\ Len(<<>>) = 0
  OBVIOUS
<1>2. PICK upTo : IsConcat(upTo, <<>>) /\ Flatten(<<>>) = upTo[Len(<<>>)]
  BY <1>1, FlattenIsConcat
<1>3. QED
  BY <1>1, <1>2 DEF IsConcat

(* Flatten puts its first part in front of what it makes of the rest.      *)
LEMMA FlattenFirst ==
  ASSUME NEW X, NEW part \in Seq(X), NEW rest \in Seq(Seq(X))
  PROVE  Flatten(<<part>> \o rest) = part \o Flatten(rest)
<1>0. \A a, b, c \in Seq(X) : (a \o b) \o c = a \o (b \o c)
  BY SMTT(30)
<1> DEFINE all == <<part>> \o rest
<1>1. /\ all \in Seq(Seq(X)) /\ Len(all) = Len(rest) + 1 /\ Len(rest) \in Nat
      /\ all[1] = part
      /\ \A n \in 1..Len(rest) : all[n + 1] = rest[n] /\ rest[n] \in Seq(X)
  OBVIOUS
<1> HIDE DEF all
<1>2. PICK u : IsConcat(u, rest) /\ Flatten(rest) = u[Len(rest)]
               /\ \A n \in 0..Len(rest) : u[n] \in Seq(X)
  BY FlattenIsConcat
<1>3. PICK v : IsConcat(v, all) /\ Flatten(all) = v[Len(all)]
  BY <1>1, FlattenIsConcat
<1> DEFINE T == {n \in 0..Len(rest) : v[n + 1] = part \o u[n]}
<1>4. 0 \in T
  <2>1. u[0] = <<>> /\ v[0] = <<>>
    BY <1>1, <1>2, <1>3 DEF IsConcat
  <2>2. v[1] = v[0] \o all[1]
    <3>1. 0 \in 0..(Len(all) - 1) /\ Len(all) \in Nat
      BY <1>1
    <3>2. v[0 + 1] = v[0] \o all[0 + 1]
      BY <1>3, <3>1, ConcatStep
    <3>3. 0 + 1 = 1
      OBVIOUS
    <3>4. QED
      BY Zenon, <3>2, <3>3
  <2>3. QED
    BY <1>1, <2>1, <2>2
<1>5. ASSUME NEW n \in 0..(Len(rest) - 1), n \in T
      PROVE  n + 1 \in T
  <2>1. n + 1 \in 1..Len(rest) /\ n + 2 \in 0..Len(all) /\ n + 1 \in 0..Len(rest)
        /\ (n + 1) - 1 = n /\ (n + 2) - 1 = n + 1 /\ (n + 1) + 1 = n + 2
        /\ n + 1 # 0 /\ n + 2 # 0 /\ n \in 0..Len(rest)
    BY <1>1
  <2>2. u[n + 1] = u[n] \o rest[n + 1]
    BY ZenonT(60), <1>1, <1>2, ConcatStep
  <2>3. v[n + 2] = v[n + 1] \o all[n + 2]
    <3>1. n + 1 \in 0..(Len(all) - 1) /\ Len(all) \in Nat
      BY <1>1
    <3>2. v[(n + 1) + 1] = v[n + 1] \o all[(n + 1) + 1]
      BY <1>3, <3>1, ConcatStep
    <3>3. QED
      BY <2>1, <3>2
  <2>4. all[n + 2] = rest[n + 1] /\ rest[n + 1] \in Seq(X)
    BY <1>1, <2>1
  <2>5. v[n + 1] = part \o u[n]
    BY <1>5
  <2>6. v[n + 2] = (part \o u[n]) \o rest[n + 1]
    BY <2>3, <2>4, <2>5
  <2>7. (part \o u[n]) \o rest[n + 1] = part \o (u[n] \o rest[n + 1])
    <3>1. u[n] \in Seq(X)
      BY <1>2, <2>1
    <3>2. QED
      BY Zenon, <1>0, <2>4, <3>1
  <2>8. v[(n + 1) + 1] = part \o u[n + 1]
    BY <2>1, <2>2, <2>6, <2>7
  <2>9. QED
    BY <2>1, <2>8
<1>6. Len(rest) \in T
  <2> HIDE DEF T
  <2>1. \A n \in 0..Len(rest) : n \in T
    BY <1>1, <1>4, <1>5, InductionUpTo
  <2>2. QED
    BY <1>1, <2>1
<1>7. QED
  BY <1>1, <1>2, <1>3, <1>6 DEF all

----------------------------------------------------------------------------
(* The scan of the compressor.                                             *)

IsScan(from, at) ==
  from = [i \in Nat |->
            IF i \in DOMAIN at THEN LET p == at[i] IN <<p>> \o from[i + Len(p)] ELSE <<>>]

LEMMA ScanExists ==
  ASSUME NEW X, NEW at \in Seq(Seq(X)), \A i \in 1..Len(at) : at[i] # <<>>
  PROVE  \E from : IsScan(from, at)
<1> DEFINE Def(g, i) == IF i \in DOMAIN at THEN LET p == at[i] IN <<p>> \o g[i + Len(p)] ELSE <<>>
           From(k) == {i \in Nat : i + k > Len(at)}
           T == {k \in 0..(Len(at) + 1) : \E g : g = [i \in From(k) |-> Def(g, i)]}
<1>1. /\ Len(at) \in Nat /\ DOMAIN at = 1..Len(at)
      /\ \A i \in 1..Len(at) : Len(at[i]) \in Nat /\ Len(at[i]) >= 1
  OBVIOUS
<1>2. 0 \in T
  <2> DEFINE g == [i \in From(0) |-> <<>>]
  <2>1. \A i \in From(0) : i \notin DOMAIN at
    BY <1>1
  <2>2. g = [i \in From(0) |-> Def(g, i)]
    BY <2>1
  <2>3. 0 \in 0..(Len(at) + 1)
    BY <1>1
  <2> HIDE DEF g, Def, From
  <2>4. QED
    BY <2>2, <2>3
<1>3. ASSUME NEW k \in 0..Len(at), k \in T
      PROVE  k + 1 \in T
  <2>1. PICK g : g = [i \in From(k) |-> Def(g, i)]
    BY <1>3
  <2> DEFINE h == [i \in From(k + 1) |-> Def(g, i)]
  <2>2. \A i \in From(k) : h[i] = g[i]
    <3>1. \A i \in From(k) : i \in From(k + 1)
      BY <1>1
    <3> HIDE DEF Def, From
    <3>2. QED
      BY <2>1, <3>1
  <2>3. ASSUME NEW i \in From(k + 1)
        PROVE  Def(h, i) = Def(g, i)
    <3>1. CASE i \in DOMAIN at
      <4>1. i + Len(at[i]) \in From(k)
        BY <1>1, <3>1
      <4> HIDE DEF h
      <4>2. QED
        BY <2>2, <4>1
    <3>2. CASE i \notin DOMAIN at
      BY <3>2
    <3>3. QED
      BY <3>1, <3>2
  <2>4. h = [i \in From(k + 1) |-> Def(h, i)]
    <3> HIDE DEF Def, From
    <3> QED
      BY <2>3
  <2>5. k + 1 \in 0..(Len(at) + 1)
    BY <1>1
  <2> HIDE DEF h, Def, From
  <2>6. QED
    BY <2>4, <2>5
<1>4. Len(at) + 1 \in T
  <2>1. Len(at) + 1 \in Nat /\ (Len(at) + 1) - 1 = Len(at)
    BY <1>1
  <2> HIDE DEF T
  <2>2. \A k \in 0..(Len(at) + 1) : k \in T
    BY <1>2, <1>3, <2>1, InductionUpTo
  <2>3. QED
    BY <2>1, <2>2
<1>5. From(Len(at) + 1) = Nat
  BY <1>1
<1>6. \E g : g = [i \in Nat |-> Def(g, i)]
  <2> HIDE DEF Def, From
  <2> QED
    BY <1>4, <1>5
<1>7. QED
  BY <1>6 DEF IsScan

LEMMA ScanIs ==
  ASSUME NEW X, NEW at \in Seq(Seq(X)), \A i \in 1..Len(at) : at[i] # <<>>
  PROVE  \E from : /\ Scan(at) = from[1]
                   /\ \A i \in 1..Len(at) : from[i] = <<at[i]>> \o from[i + Len(at[i])]
                   /\ \A i \in Nat : i > Len(at) => from[i] = <<>>
<1> DEFINE F == CHOOSE from : IsScan(from, at)
<1>1. IsScan(F, at)
  BY ScanExists
<1>2. Scan(at) = F[1]
  BY Zenon DEF Scan, IsScan
<1> HIDE DEF F
<1>3. PICK from : from = F
  OBVIOUS
<1>4. \A i \in Nat : from[i] = IF i \in DOMAIN at THEN <<at[i]>> \o from[i + Len(at[i])] ELSE <<>>
  BY Zenon, <1>1, <1>3 DEF IsScan
<1>5. Len(at) \in Nat /\ DOMAIN at = 1..Len(at)
  OBVIOUS
<1>6. ASSUME NEW i \in 1..Len(at)
      PROVE  from[i] = <<at[i]>> \o from[i + Len(at[i])]
  <2>1. i \in Nat /\ i \in DOMAIN at
    BY <1>5
  <2>2. QED
    BY Zenon, <1>4, <2>1
<1>7. ASSUME NEW i \in Nat, i > Len(at)
      PROVE  from[i] = <<>>
  <2>1. i \notin DOMAIN at
    BY <1>5, <1>7
  <2>2. QED
    BY Zenon, <1>4, <2>1
<1>8. QED
  BY <1>2, <1>3, <1>6, <1>7

(* at[i] is a piece of s that starts at place i.                           *)
CutsAt(at, s) ==
  /\ Len(at) = Len(s)
  /\ \A i \in 1..Len(s) : /\ Len(at[i]) >= 1
                          /\ i + Len(at[i]) - 1 <= Len(s)
                          /\ at[i] = SubSeq(s, i, i + Len(at[i]) - 1)

(* The scan cuts the text into at most as many pieces as it has symbols,   *)
(* and the pieces make up the text.                                        *)
LEMMA ScanProperties ==
  ASSUME NEW X, NEW s \in Seq(X), NEW at \in Seq(Seq(X)), CutsAt(at, s)
  PROVE  /\ Scan(at) \in Seq({at[i] : i \in 1..Len(s)})
         /\ Len(Scan(at)) <= Len(s)
         /\ Flatten(Scan(at)) = s
<1> DEFINE n == Len(s)
           A == {at[i] : i \in 1..n}
<1>1. /\ n \in Nat /\ Len(at) = n /\ A \subseteq Seq(X) /\ n = Len(s)
      /\ \A i \in 1..n : /\ at[i] \in Seq(X) /\ at[i] \in A /\ at[i] # <<>>
                         /\ Len(at[i]) \in Nat /\ Len(at[i]) >= 1 /\ i + Len(at[i]) - 1 <= n
                         /\ at[i] = SubSeq(s, i, i + Len(at[i]) - 1)
  BY DEF CutsAt
<1> HIDE DEF n, A
<1>2. PICK from : /\ Scan(at) = from[1]
                  /\ \A i \in 1..n : from[i] = <<at[i]>> \o from[i + Len(at[i])]
                  /\ \A i \in Nat : i > n => from[i] = <<>>
  <2>1. \A i \in 1..Len(at) : at[i] # <<>>
    BY <1>1
  <2>2. \E from : /\ Scan(at) = from[1]
                  /\ \A i \in 1..Len(at) : from[i] = <<at[i]>> \o from[i + Len(at[i])]
                  /\ \A i \in Nat : i > Len(at) => from[i] = <<>>
    BY <2>1, ScanIs
  <2>3. Len(at) = n
    BY <1>1
  <2>4. QED
    BY Zenon, <2>2, <2>3
<1> DEFINE P(i) == from[i] \in Seq(A) /\ Len(from[i]) <= n + 1 - i /\ Flatten(from[i]) = SubSeq(s, i, n)
           T == {k \in 0..n : \A i \in (n + 1 - k)..(n + 1) : P(i)}
<1>3. P(n + 1)
  <2>1. from[n + 1] = <<>>
    BY <1>1, <1>2
  <2>2. SubSeq(s, n + 1, n) = <<>>
    BY <1>1, SubSeqEmpty
  <2>3. <<>> \in Seq(A) /\ Len(<<>>) = 0 /\ n + 1 - (n + 1) = 0
    BY <1>1
  <2>4. from[n + 1] \in Seq(A) /\ Flatten(from[n + 1]) = SubSeq(s, n + 1, n)
    BY Zenon, <2>1, <2>2, <2>3, FlattenNothing
  <2>5. Len(from[n + 1]) = 0
    BY <2>1
  <2>6. Len(from[n + 1]) <= n + 1 - (n + 1)
    BY <2>3, <2>5
  <2>7. QED
    BY <2>4, <2>6
<1>4. ASSUME NEW i \in 1..n, \A j \in (i + 1)..(n + 1) : P(j)
      PROVE  P(i)
  <2> DEFINE j == i + Len(at[i])
             p == at[i]
  <2>1. /\ j \in (i + 1)..(n + 1) /\ p \in Seq(X) /\ p \in A
        /\ p = SubSeq(s, i, j - 1) /\ from[i] = <<p>> \o from[j]
    <3>1. j \in (i + 1)..(n + 1)
      BY <1>1
    <3>2. p \in Seq(X) /\ p \in A /\ p = SubSeq(s, i, j - 1)
      BY <1>1
    <3>3. from[i] = <<p>> \o from[j]
      BY <1>2
    <3>4. QED
      BY <3>1, <3>2, <3>3
  <2>2. P(j)
    BY <1>4, <2>1
  <2> HIDE DEF j, p
  <2>3. from[i] \in Seq(A) /\ Len(from[i]) = 1 + Len(from[j])
    BY <2>1, <2>2, PrependProperties
  <2>4. Flatten(from[i]) = p \o Flatten(from[j])
    <3>1. from[j] \in Seq(Seq(X))
      BY <1>1, <2>2, SeqMonotonic
    <3>2. Flatten(<<p>> \o from[j]) = p \o Flatten(from[j])
      BY <2>1, <3>1, FlattenFirst
    <3>3. QED
      BY <2>1, <3>2
  <2>5. SubSeq(s, i, j - 1) \o SubSeq(s, j, n) = SubSeq(s, i, n)
    <3>1. i \in 1..(n + 1) /\ j - 1 \in (i - 1)..n /\ n \in (j - 1)..n /\ (j - 1) + 1 = j
      BY <1>1, <2>1
    <3>2. SubSeq(s, i, j - 1) \o SubSeq(s, (j - 1) + 1, n) = SubSeq(s, i, n)
      <4>1. i \in 1..(Len(s) + 1) /\ j - 1 \in (i - 1)..Len(s) /\ n \in (j - 1)..Len(s)
        BY <1>1, <3>1
      <4> HIDE DEF P, T
      <4>2. QED
        BY <4>1, ConcatAdjacentSubSeq
    <3>3. QED
      BY <3>1, <3>2
  <2>6. Len(from[i]) <= n + 1 - i
    <3>1. Len(from[j]) \in Nat /\ Len(from[j]) <= n + 1 - j
      BY <2>2
    <3>2. QED
      BY SMTT(30), <1>1, <2>1, <2>3, <3>1
  <2>7. QED
    BY <2>1, <2>2, <2>3, <2>4, <2>5, <2>6
<1>5. n \in T
  <2> HIDE DEF P
  <2>1. 0 \in T
    BY <1>1, <1>3
  <2>2. ASSUME NEW k \in 0..(n - 1), k \in T
        PROVE  k + 1 \in T
    <3>1. n - k \in 1..n /\ k + 1 \in 0..n /\ n + 1 - (k + 1) = n - k
      BY <1>1
    <3>2. \A j \in ((n - k) + 1)..(n + 1) : P(j)
      BY <1>1, <2>2
    <3>3. P(n - k)
      BY <1>4, <3>1, <3>2
    <3>4. \A i \in (n - k)..(n + 1) : i = n - k \/ i \in ((n - k) + 1)..(n + 1)
      BY <1>1
    <3>5. \A i \in (n - k)..(n + 1) : P(i)
      BY <3>2, <3>3, <3>4
    <3>6. QED
      BY <3>1, <3>5
  <2> HIDE DEF T
  <2>3. \A k \in 0..n : k \in T
    BY <1>1, <2>1, <2>2, InductionUpTo
  <2>4. QED
    BY <1>1, <2>3
<1>6. P(1)
  <2> HIDE DEF P
  <2>1. 1 \in (n + 1 - n)..(n + 1)
    BY <1>1
  <2>2. QED
    BY <1>5, <2>1
<1>7. SubSeq(s, 1, n) = s
  BY <1>1, SubSeqFull
<1>8. n + 1 - 1 = n
  BY <1>1
<1>9. QED
  BY <1>1, <1>2, <1>6, <1>7, <1>8 DEF A

----------------------------------------------------------------------------
(* The pieces of the compressor.                                           *)

(* A piece is the part of the text that starts at its place: one symbol,   *)
(* or a longest pattern among those that match.                            *)
LEMMA PieceProperties ==
  ASSUME NEW X, NEW s \in Seq(X), NEW patterns, patterns \subseteq Seq(X), NEW i \in 1..Len(s)
  PROVE  LET p == Piece(s, i, patterns)
         IN  /\ p \in Seq(X) /\ Len(p) >= 1 /\ i + Len(p) - 1 <= Len(s)
             /\ p = SubSeq(s, i, i + Len(p) - 1)
             /\ \/ /\ p = <<s[i]>> /\ Len(p) = 1
                   /\ Matching(s, i, patterns) = {}
                \/ /\ p \in patterns /\ Len(p) >= 2
                   /\ p \in Matching(s, i, patterns)
                   /\ \A q \in Matching(s, i, patterns) : Len(q) <= Len(p)
<1> DEFINE hits == Matching(s, i, patterns)
           p == Piece(s, i, patterns)
<1>1. Len(s) \in Nat /\ i \in Nat /\ s[i] \in X
  OBVIOUS
<1>2. CASE hits = {}
  <2>1. p = <<s[i]>>
    BY <1>2 DEF Piece
  <2>2. <<s[i]>> \in Seq(X) /\ Len(<<s[i]>>) = 1
    BY <1>1
  <2>3. SubSeq(s, i, i + 1 - 1) = <<s[i]>>
    <3>1. SubSeq(s, i, i) = <<s[i]>> \o SubSeq(s, i + 1, i)
      BY <1>1, SubSeqRecursiveFirst
    <3>2. SubSeq(s, i + 1, i) = <<>>
      BY <1>1, SubSeqEmpty
    <3>3. i + 1 - 1 = i /\ <<s[i]>> \o <<>> = <<s[i]>>
      BY <1>1
    <3>4. QED
      BY Zenon, <3>1, <3>2, <3>3
  <2> HIDE DEF p, hits
  <2>4. QED
    BY <1>1, <1>2, <2>1, <2>2, <2>3 DEF p, hits
<1>3. CASE hits # {}
  <2>1. \A q \in hits : /\ q \in Seq(X) /\ q \in patterns /\ Len(q) \in 0..Len(s) /\ Len(q) >= 2
                        /\ i + Len(q) - 1 <= Len(s) /\ q = SubSeq(s, i, i + Len(q) - 1)
    BY <1>1 DEF Matching, OccursAt
  <2> HIDE DEF hits
  <2> DEFINE L == {Len(q) : q \in hits}
  <2>2. L \subseteq 0..Len(s) /\ L # {}
    BY <1>3, <2>1
  <2> HIDE DEF L
  <2>3. Max(L) \in L /\ \A m \in L : Max(L) >= m
    BY <1>1, <2>2, MaxProperties
  <2>4. PICK r \in hits : Max(L) = Len(r)
    BY <2>3 DEF L
  <2>5. \A q \in hits : Len(q) <= Len(r)
    <3>1. TAKE q \in hits
    <3>2. Len(q) \in L
      BY DEF L
    <3>3. Len(r) >= Len(q)
      BY <2>3, <2>4, <3>2
    <3>4. QED
      BY <2>1, <3>3
  <2>6. p = CHOOSE p_1 \in hits : \A q \in hits : Len(q) <= Len(p_1)
    BY <1>3 DEF Piece, hits
  <2>7. p \in hits /\ \A q \in hits : Len(q) <= Len(p)
    BY <2>5, <2>6
  <2> HIDE DEF p
  <2>8. QED
    BY <2>1, <2>7 DEF p, hits
<1>4. QED
  BY <1>2, <1>3

(* Two patterns that match at one place with one length are one pattern.   *)
LEMMA MatchUnique ==
  ASSUME NEW s, NEW i, NEW patterns,
         NEW p \in Matching(s, i, patterns), NEW q \in Matching(s, i, patterns), Len(p) = Len(q)
  PROVE  p = q
BY DEF Matching, OccursAt

LEMMA PiecesAt ==
  ASSUME NEW X, NEW s \in Seq(X), NEW patterns, patterns \subseteq Seq(X)
  PROVE  LET at == [i \in 1..Len(s) |-> Piece(s, i, patterns)]
         IN  at \in Seq(Seq(X)) /\ CutsAt(at, s)
<1> DEFINE at == [i \in 1..Len(s) |-> Piece(s, i, patterns)]
<1>1. Len(s) \in Nat
  OBVIOUS
<1>2. \A i \in 1..Len(s) :
        /\ at[i] \in Seq(X) /\ Len(at[i]) >= 1 /\ i + Len(at[i]) - 1 <= Len(s)
        /\ at[i] = SubSeq(s, i, i + Len(at[i]) - 1)
  BY PieceProperties
<1>3. \A i \in 1..Len(s) : Piece(s, i, patterns) \in Seq(X)
  BY PieceProperties
<1>4. at \in Seq(Seq(X)) /\ Len(at) = Len(s)
  BY <1>1, <1>3
<1> HIDE DEF at
<1>5. CutsAt(at, s)
  BY <1>2, <1>4 DEF CutsAt
<1>6. QED
  BY <1>4, <1>5 DEF at

(* The pieces are single symbols of the text and patterns, they make up    *)
(* the text, and there are at most as many as symbols.                     *)
LEMMA PiecesProperties ==
  ASSUME NEW X, NEW s \in Seq(X), NEW patterns, patterns \subseteq Seq(X)
  PROVE  LET pieces == Pieces(s, patterns)
         IN  /\ pieces \in Seq(Seq(X))
             /\ Len(pieces) <= Len(s)
             /\ Flatten(pieces) = s
             /\ \A k \in DOMAIN pieces :
                  \/ Len(pieces[k]) = 1
                  \/ (pieces[k] \in patterns /\ Len(pieces[k]) >= 2)
<1> DEFINE at == [i \in 1..Len(s) |-> Piece(s, i, patterns)]
           pieces == Pieces(s, patterns)
           A == {at[i] : i \in 1..Len(s)}
<1>1. at \in Seq(Seq(X)) /\ CutsAt(at, s)
  BY PiecesAt
<1>2. pieces = Scan(at)
  BY DEF Pieces
<1>3. pieces \in Seq(A) /\ Len(pieces) <= Len(s) /\ Flatten(pieces) = s
  <2>1. PICK t : t = at
    OBVIOUS
  <2>2. A = {t[i] : i \in 1..Len(s)} /\ t \in Seq(Seq(X)) /\ CutsAt(t, s) /\ pieces = Scan(t)
    BY <1>1, <1>2, <2>1
  <2>3. /\ Scan(t) \in Seq({t[i] : i \in 1..Len(s)})
        /\ Len(Scan(t)) <= Len(s) /\ Flatten(Scan(t)) = s
    BY <2>2, ScanProperties
  <2> HIDE DEF at, A, pieces
  <2> QED
    BY <2>2, <2>3
<1>4. \A a \in A : /\ a \in Seq(X)
                   /\ Len(a) = 1 \/ (a \in patterns /\ Len(a) >= 2)
  <2>1. \A i \in 1..Len(s) :
          /\ Piece(s, i, patterns) \in Seq(X)
          /\ \/ Len(Piece(s, i, patterns)) = 1
             \/ Piece(s, i, patterns) \in patterns /\ Len(Piece(s, i, patterns)) >= 2
    BY PieceProperties
  <2> QED
    BY <2>1
<1> HIDE DEF at, A, pieces
<1>5. A \subseteq Seq(X)
  BY <1>4
<1>6. pieces \in Seq(Seq(X))
  BY <1>3, <1>5, SeqMonotonic
<1>7. \A k \in DOMAIN pieces : pieces[k] \in A
  BY <1>3
<1>8. QED
  BY <1>3, <1>4, <1>6, <1>7 DEF pieces

(* A sequence that does not occur in a text is no pattern for it.          *)
LEMMA AbsentPattern ==
  ASSUME NEW s, NEW patterns, NEW c, \A i \in 1..Len(s) : ~OccursAt(c, s, i)
  PROVE  Pieces(s, patterns \cup {c}) = Pieces(s, patterns)
<1>1. \A i \in 1..Len(s) : Matching(s, i, patterns \cup {c}) = Matching(s, i, patterns)
  BY DEF Matching
<1>2. \A i \in 1..Len(s) : Piece(s, i, patterns \cup {c}) = Piece(s, i, patterns)
  <2>1. SUFFICES ASSUME NEW i \in 1..Len(s)
                 PROVE  Piece(s, i, patterns \cup {c}) = Piece(s, i, patterns)
    OBVIOUS
  <2>2. Matching(s, i, patterns \cup {c}) = Matching(s, i, patterns)
    BY <1>1
  <2> DEFINE Longest(hits) == IF hits = {} THEN <<s[i]>>
                              ELSE CHOOSE p \in hits : \A q \in hits : Len(q) <= Len(p)
  <2>3. \A ps : Piece(s, i, ps) = Longest(Matching(s, i, ps))
    BY DEF Piece
  <2> HIDE DEF Longest
  <2>4. QED
    BY <2>2, <2>3
<1>3. [i \in 1..Len(s) |-> Piece(s, i, patterns \cup {c})] = [i \in 1..Len(s) |-> Piece(s, i, patterns)]
  BY Zenon, <1>2
<1>4. QED
  BY Zenon, <1>3 DEF Pieces

----------------------------------------------------------------------------
(* The expansion of a word.                                                *)

ExpandDef(expand, dict, stack, sym) ==
  IF sym \in Capability THEN <<sym>>
  ELSE IF sym \notin DOMAIN dict \ stack THEN NoExpansion
  ELSE LET parts == [i \in DOMAIN dict[sym] |-> expand[stack \cup {sym}][dict[sym][i]]]
       IN  IF NoExpansion \in Range(parts) THEN NoExpansion ELSE Flatten(parts)

IsExpand(expand, dict) ==
  expand = [stack \in SUBSET DOMAIN dict |-> [sym \in Symbol |-> ExpandDef(expand, dict, stack, sym)]]

(* The recursion over the stack is well founded: the stack only grows.     *)
LEMMA ExpandExists ==
  ASSUME NEW dict, IsFiniteSet(DOMAIN dict)
  PROVE  \E expand : IsExpand(expand, dict)
<1> DEFINE N == Cardinality(DOMAIN dict)
           Left(stack) == Cardinality(DOMAIN dict \ stack)
           D(k) == {stack \in SUBSET DOMAIN dict : Left(stack) <= k}
           Row(g, stack) == [sym \in Symbol |-> ExpandDef(g, dict, stack, sym)]
           T == {k \in 0..N : \E g : g = [stack \in D(k) |-> Row(g, stack)]}
<1>1. N \in Nat /\ \A stack \in SUBSET DOMAIN dict : Left(stack) \in 0..N
  <2>1. \A stack \in SUBSET DOMAIN dict : DOMAIN dict \ stack \subseteq DOMAIN dict
    OBVIOUS
  <2>2. \A U \in SUBSET DOMAIN dict : IsFiniteSet(U) /\ Cardinality(U) \in Nat /\ Cardinality(U) <= N
    BY FS_Subset, FS_CardinalityType
  <2>3. N \in Nat
    BY FS_CardinalityType
  <2>4. QED
    BY <2>1, <2>2, <2>3
<1>2. ASSUME NEW stack \in SUBSET DOMAIN dict, NEW sym \in DOMAIN dict \ stack
      PROVE  stack \cup {sym} \in SUBSET DOMAIN dict /\ Left(stack \cup {sym}) = Left(stack) - 1
  <2>1. DOMAIN dict \ (stack \cup {sym}) = (DOMAIN dict \ stack) \ {sym}
    OBVIOUS
  <2>2. IsFiniteSet(DOMAIN dict \ stack)
    BY FS_Subset
  <2>3. Cardinality((DOMAIN dict \ stack) \ {sym}) = Cardinality(DOMAIN dict \ stack) - 1
    BY <2>2, FS_RemoveElement
  <2>4. QED
    BY <2>1, <2>3
<1> HIDE DEF N, Left
<1>3. 0 \in T
  <2>1. \A stack \in D(0) : Left(stack) = 0
    BY <1>1
  <2>2. \A stack \in D(0) : \A sym : sym \notin DOMAIN dict \ stack
    <3>1. SUFFICES ASSUME NEW stack \in D(0), NEW sym \in DOMAIN dict \ stack
                   PROVE  FALSE
      OBVIOUS
    <3>2. Left(stack \cup {sym}) = 0 - 1 /\ Left(stack \cup {sym}) \in 0..N
      BY <1>1, <1>2, <2>1
    <3>3. QED
      BY <1>1, <3>2
  <2> DEFINE g == [stack \in D(0) |-> [sym \in Symbol |-> IF sym \in Capability THEN <<sym>> ELSE NoExpansion]]
  <2>3. \A stack \in D(0) :
          [sym \in Symbol |-> IF sym \in Capability THEN <<sym>> ELSE NoExpansion] = Row(g, stack)
    BY <2>2 DEF ExpandDef
  <2>4. g = [stack \in D(0) |-> Row(g, stack)]
    <3> HIDE DEF Row, D
    <3> QED
      BY <2>3
  <2>5. 0 \in 0..N
    BY <1>1
  <2> HIDE DEF g, Row, D
  <2>6. QED
    BY <2>4, <2>5
<1>4. ASSUME NEW k \in 0..(N - 1), k \in T
      PROVE  k + 1 \in T
  <2>1. PICK g : g = [stack \in D(k) |-> Row(g, stack)]
    BY <1>4
  <2> DEFINE h == [stack \in D(k + 1) |-> Row(g, stack)]
  <2>2. \A stack \in D(k) : h[stack] = g[stack]
    <3>1. \A stack \in D(k) : stack \in D(k + 1)
      BY <1>1
    <3> HIDE DEF Row, D
    <3>2. QED
      BY <2>1, <3>1
  <2>3. ASSUME NEW stack \in D(k + 1), NEW sym \in DOMAIN dict \ stack
        PROVE  h[stack \cup {sym}] = g[stack \cup {sym}]
    <3>1. stack \cup {sym} \in D(k)
      BY <1>1, <1>2
    <3> HIDE DEF h, D
    <3>2. QED
      BY <2>2, <3>1
  <2>4. ASSUME NEW stack \in D(k + 1)
        PROVE  Row(h, stack) = Row(g, stack)
    <3> HIDE DEF h, D
    <3>1. \A sym \in Symbol : ExpandDef(h, dict, stack, sym) = ExpandDef(g, dict, stack, sym)
      BY Zenon, <2>3 DEF ExpandDef
    <3>2. QED
      BY <3>1
  <2>5. h = [stack \in D(k + 1) |-> Row(h, stack)]
    <3> HIDE DEF Row, D
    <3> QED
      BY <2>4
  <2>6. k + 1 \in 0..N
    BY <1>1
  <2> HIDE DEF h, Row, D
  <2>7. QED
    BY <2>5, <2>6
<1>5. N \in T
  <2> HIDE DEF T
  <2>1. \A k \in 0..N : k \in T
    BY <1>1, <1>3, <1>4, InductionUpTo
  <2>2. QED
    BY <1>1, <2>1
<1>6. D(N) = SUBSET DOMAIN dict
  BY <1>1
<1>7. \E g : g = [stack \in SUBSET DOMAIN dict |-> Row(g, stack)]
  <2> HIDE DEF Row, D
  <2> QED
    BY <1>5, <1>6
<1>8. QED
  BY <1>7 DEF IsExpand

LEMMA ExpandIs ==
  ASSUME NEW dict, IsFiniteSet(DOMAIN dict)
  PROVE  \E expand : /\ \A x : Expand(dict, x) = expand[{}][x]
                     /\ \A stack \in SUBSET DOMAIN dict, sym \in Symbol :
                          expand[stack][sym] = ExpandDef(expand, dict, stack, sym)
<1> DEFINE F == CHOOSE expand : IsExpand(expand, dict)
<1>1. IsExpand(F, dict)
  BY ExpandExists
<1>2. \A x : Expand(dict, x) = F[{}][x]
  BY Zenon DEF Expand, ExpandDef, IsExpand
<1> HIDE DEF F
<1>3. PICK expand : expand = F
  OBVIOUS
<1>4. \A stack \in SUBSET DOMAIN dict, sym \in Symbol :
        expand[stack][sym] = ExpandDef(expand, dict, stack, sym)
  <2>1. TAKE stack \in SUBSET DOMAIN dict, sym \in Symbol
  <2>2. expand[stack] = [y \in Symbol |-> ExpandDef(expand, dict, stack, y)]
    BY Zenon, <1>1, <1>3 DEF IsExpand
  <2>3. QED
    BY Zenon, <2>2
<1>5. QED
  BY <1>2, <1>3, <1>4

(* The definition of every word uses capabilities and older words only.    *)
Refers(definition, n) ==
  /\ definition \in Seq(Symbol) /\ definition # <<>>
  /\ \A i \in DOMAIN definition : definition[i] \in Capability \cup 1..n

Grounded(dict) ==
  dict \in Seq(Seq(Symbol)) /\ \A w \in DOMAIN dict : Refers(dict[w], w - 1)

LEMMA GroundedDomain ==
  ASSUME NEW dict, Grounded(dict)
  PROVE  /\ Len(dict) \in Nat /\ DOMAIN dict = 1..Len(dict) /\ IsFiniteSet(DOMAIN dict)
         /\ DOMAIN dict \subseteq Symbol /\ DOMAIN dict \cap Capability = {}
<1>1. Len(dict) \in Nat /\ DOMAIN dict = 1..Len(dict)
  BY DEF Grounded
<1>2. IsFiniteSet(1..Len(dict))
  BY <1>1, FS_Interval
<1>3. 1..Len(dict) \subseteq Nat
  BY <1>1
<1>4. QED
  BY <1>1, <1>2, <1>3, NamesApart DEF Symbol

(* What the expansion of a word is made of, on any stack of younger words. *)
Parts(dict, w) == [i \in DOMAIN dict[w] |-> Expand(dict, dict[w][i])]

LEMMA FlattenNonempty ==
  ASSUME NEW X, NEW parts \in Seq(Seq(X)), parts # <<>>, parts[1] # <<>>
  PROVE  Flatten(parts) # <<>>
<1>1. Head(parts) = parts[1] /\ Head(parts) \in Seq(X) /\ Tail(parts) \in Seq(Seq(X))
  BY HeadTailProperties
<1>2. parts = <<Head(parts)>> \o Tail(parts)
  OBVIOUS
<1>3. Flatten(parts) = Head(parts) \o Flatten(Tail(parts))
  <2>1. Flatten(<<Head(parts)>> \o Tail(parts)) = Head(parts) \o Flatten(Tail(parts))
    BY <1>1, FlattenFirst
  <2>2. QED
    BY <1>2, <2>1
<1>4. Flatten(Tail(parts)) \in Seq(X)
  BY <1>1, FlattenType
<1>5. QED
  BY <1>1, <1>3, <1>4, ConcatEqualIffEmpty

(* The stack only matters for cycles, and a grounded dictionary has none:  *)
(* a word's expansion is that of its parts, a sequence of capabilities.    *)
LEMMA GroundedExpand ==
  ASSUME NEW dict, Grounded(dict)
  PROVE  /\ \A c \in Capability : Expand(dict, c) = <<c>>
         /\ \A w \in DOMAIN dict : /\ Expand(dict, w) \in Seq(Capability) \ {<<>>}
                                   /\ Expand(dict, w) = Flatten(Parts(dict, w))
<1>1. PICK expand : /\ \A x : Expand(dict, x) = expand[{}][x]
                    /\ \A stack \in SUBSET DOMAIN dict, sym \in Symbol :
                         expand[stack][sym] = ExpandDef(expand, dict, stack, sym)
  BY GroundedDomain, ExpandIs
<1>2. ASSUME NEW stack \in SUBSET DOMAIN dict, NEW c \in Capability
      PROVE  expand[stack][c] = <<c>>
  <2>1. c \in Symbol
    BY DEF Symbol
  <2>2. expand[stack][c] = ExpandDef(expand, dict, stack, c)
    BY <1>1, <2>1
  <2>3. QED
    BY <2>2 DEF ExpandDef
<1>3. {} \in SUBSET DOMAIN dict
  OBVIOUS
<1>4. \A c \in Capability : Expand(dict, c) = <<c>>
  BY <1>1, <1>2, <1>3
<1> DEFINE Good(w) == /\ Expand(dict, w) \in Seq(Capability) \ {<<>>}
                      /\ Expand(dict, w) = Flatten(Parts(dict, w))
                      /\ \A stack \in SUBSET DOMAIN dict :
                           stack \cap 1..w = {} => expand[stack][w] = Expand(dict, w)
           T == {w \in Nat : w \in DOMAIN dict => Good(w)}
<1>5. ASSUME NEW w \in Nat, \A v \in 0..(w - 1) : v \in T
      PROVE  w \in T
  <2>1. SUFFICES ASSUME w \in DOMAIN dict
                 PROVE  Good(w)
    OBVIOUS
  <2>2. /\ w \in Symbol /\ w \notin Capability /\ w \in Nat
        /\ Refers(dict[w], w - 1)
    BY <2>1, GroundedDomain DEF Grounded
  <2>3. ASSUME NEW i \in DOMAIN dict[w]
        PROVE  Expand(dict, dict[w][i]) \in Seq(Capability) \ {<<>>}
    <3>1. CASE dict[w][i] \in Capability
      <4>1. Expand(dict, dict[w][i]) = <<dict[w][i]>>
        BY <1>4, <3>1
      <4>2. QED
        BY <3>1, <4>1
    <3>2. CASE dict[w][i] \in 1..(w - 1)
      <4>1. dict[w][i] \in 0..(w - 1) /\ dict[w][i] \in DOMAIN dict
        BY <2>1, <3>2, GroundedDomain
      <4>2. Good(dict[w][i])
        BY <1>5, <4>1
      <4> HIDE DEF T
      <4>3. QED
        BY <4>2
    <3>3. QED
      BY <2>2, <3>1, <3>2 DEF Refers
  <2>4. ASSUME NEW stack \in SUBSET DOMAIN dict, stack \cap 1..w = {}, NEW i \in DOMAIN dict[w]
        PROVE  expand[stack \cup {w}][dict[w][i]] = Expand(dict, dict[w][i])
    <3>1. stack \cup {w} \in SUBSET DOMAIN dict
      BY <2>1
    <3>2. CASE dict[w][i] \in Capability
      BY <1>2, <1>4, <3>1, <3>2
    <3>3. CASE dict[w][i] \in 1..(w - 1)
      <4>1. dict[w][i] \in 0..(w - 1) /\ dict[w][i] \in DOMAIN dict
        BY <2>1, <3>3, GroundedDomain
      <4>2. Good(dict[w][i])
        BY <1>5, <4>1
      <4>3. (stack \cup {w}) \cap 1..dict[w][i] = {}
        BY <2>2, <2>4, <3>3
      <4> HIDE DEF T
      <4>4. QED
        BY <3>1, <4>2, <4>3
    <3>4. QED
      BY <2>2, <3>2, <3>3 DEF Refers
  <2> DEFINE parts == Parts(dict, w)
  <2>5. /\ parts \in Seq(Seq(Capability)) /\ parts # <<>> /\ parts[1] # <<>>
        /\ NoExpansion \notin Range(parts)
    <3>1. Len(dict[w]) \in Nat /\ DOMAIN dict[w] = 1..Len(dict[w]) /\ Len(dict[w]) >= 1
      BY <2>2 DEF Refers
    <3>2. parts \in Seq(Seq(Capability)) /\ parts # <<>> /\ parts[1] # <<>>
      BY <2>3, <3>1 DEF Parts
    <3>3. NoExpansion \notin Range(parts)
      BY <2>3 DEF Parts, Range, NoExpansion
    <3>4. QED
      BY <3>2, <3>3
  <2>6. ASSUME NEW stack \in SUBSET DOMAIN dict, stack \cap 1..w = {}
        PROVE  expand[stack][w] = Flatten(parts)
    <3>1. w \in DOMAIN dict \ stack
      <4>1. w \in 1..w
        BY <2>1, GroundedDomain
      <4>2. QED
        BY <2>1, <2>6, <4>1
    <3>2. [i \in DOMAIN dict[w] |-> expand[stack \cup {w}][dict[w][i]]] = parts
      BY <2>4, <2>6 DEF Parts
    <3>3. expand[stack][w] = ExpandDef(expand, dict, stack, w)
      BY <1>1, <2>2
    <3> HIDE DEF parts
    <3>4. QED
      BY <2>2, <2>5, <3>1, <3>2, <3>3 DEF ExpandDef
  <2>7. Expand(dict, w) = Flatten(parts)
    BY <1>1, <1>3, <2>6
  <2>8. Flatten(parts) \in Seq(Capability) \ {<<>>}
    BY <2>5, FlattenType, FlattenNonempty
  <2>9. QED
    BY <2>6, <2>7, <2>8
<1>6. \A w \in Nat : w \in T
  <2> HIDE DEF T
  <2> QED
    BY <1>5, StrongInduction
<1>7. \A w \in DOMAIN dict : Good(w)
  <2>1. DOMAIN dict \subseteq Nat
    BY GroundedDomain
  <2> HIDE DEF Good
  <2>2. QED
    BY <1>6, <2>1
<1>8. QED
  BY <1>4, <1>7

(* Learning a word leaves the expansion of the older ones.                 *)
LEMMA GroundedAppend ==
  ASSUME NEW dict, Grounded(dict), NEW definition, Refers(definition, Len(dict))
  PROVE  LET grown == Append(dict, definition)
         IN  /\ Grounded(grown)
             /\ DOMAIN grown = DOMAIN dict \cup {Len(dict) + 1}
             /\ \A x \in Capability \cup DOMAIN dict : Expand(grown, x) = Expand(dict, x)
             /\ Expand(grown, Len(dict) + 1)
                  = Flatten([i \in DOMAIN definition |-> Expand(dict, definition[i])])
<1> DEFINE grown == Append(dict, definition)
           n == Len(dict)
<1>1. n \in Nat /\ DOMAIN dict = 1..n /\ dict \in Seq(Seq(Symbol))
  BY GroundedDomain DEF Grounded
<1>2. /\ grown \in Seq(Seq(Symbol)) /\ DOMAIN grown = 1..(n + 1)
      /\ \A w \in 1..n : grown[w] = dict[w]
      /\ grown[n + 1] = definition
  BY <1>1, AppendProperties DEF Refers
<1> HIDE DEF grown, n
<1>3. Grounded(grown)
  <2>1. SUFFICES ASSUME NEW w \in DOMAIN grown
                 PROVE  Refers(grown[w], w - 1)
    BY <1>2 DEF Grounded
  <2>2. CASE w = n + 1
    BY <1>1, <1>2, <2>2 DEF n
  <2>3. CASE w \in 1..n
    BY <1>1, <1>2, <2>3 DEF Grounded
  <2>4. QED
    BY <1>1, <1>2, <2>2, <2>3
<1>4. \A c \in Capability : Expand(grown, c) = Expand(dict, c)
  BY <1>3, GroundedExpand
<1> DEFINE T == {w \in Nat : w \in 1..n => Expand(grown, w) = Expand(dict, w)}
<1>5. ASSUME NEW w \in Nat, \A v \in 0..(w - 1) : v \in T
      PROVE  w \in T
  <2>1. SUFFICES ASSUME w \in 1..n
                 PROVE  Expand(grown, w) = Expand(dict, w)
    OBVIOUS
  <2>2. w \in DOMAIN dict /\ w \in DOMAIN grown /\ grown[w] = dict[w]
    BY <1>1, <1>2, <2>1
  <2>3. Expand(dict, w) = Flatten(Parts(dict, w)) /\ Expand(grown, w) = Flatten(Parts(grown, w))
    BY <1>3, <2>2, GroundedExpand
  <2>4. \A i \in DOMAIN dict[w] : Expand(grown, dict[w][i]) = Expand(dict, dict[w][i])
    <3>1. TAKE i \in DOMAIN dict[w]
    <3>2. dict[w][i] \in Capability \cup 1..(w - 1)
      BY <2>2 DEF Grounded, Refers
    <3>3. CASE dict[w][i] \in Capability
      BY <1>4, <3>3
    <3>4. CASE dict[w][i] \in 1..(w - 1)
      <4>1. dict[w][i] \in 0..(w - 1) /\ dict[w][i] \in 1..n
        BY <1>1, <2>1, <3>4
      <4>2. QED
        BY <1>5, <4>1
    <3>5. QED
      BY <3>2, <3>3, <3>4
  <2>5. Parts(grown, w) = Parts(dict, w)
    BY <2>2, <2>4 DEF Parts
  <2>6. QED
    BY <2>3, <2>5
<1>6. \A w \in 1..n : Expand(grown, w) = Expand(dict, w)
  <2> HIDE DEF T
  <2>1. \A w \in Nat : w \in T
    BY <1>5, StrongInduction
  <2>2. \A w \in 1..n : w \in Nat
    BY <1>1
  <2>3. QED
    BY <2>1, <2>2 DEF T
<1>7. Expand(grown, n + 1) = Flatten([i \in DOMAIN definition |-> Expand(dict, definition[i])])
  <2>1. n + 1 \in DOMAIN grown
    BY <1>1, <1>2
  <2>2. Expand(grown, n + 1) = Flatten(Parts(grown, n + 1))
    BY <1>3, <2>1, GroundedExpand
  <2>3. \A i \in DOMAIN definition : definition[i] \in Capability \cup 1..n
    BY DEF Refers, n
  <2>4. \A i \in DOMAIN definition : Expand(grown, definition[i]) = Expand(dict, definition[i])
    BY <1>4, <1>6, <2>3
  <2>5. Parts(grown, n + 1) = [i \in DOMAIN definition |-> Expand(dict, definition[i])]
    BY <1>2, <2>4 DEF Parts
  <2>6. QED
    BY <2>2, <2>5
<1>8. \A x \in Capability \cup DOMAIN dict : Expand(grown, x) = Expand(dict, x)
  BY <1>1, <1>4, <1>6
<1>9. DOMAIN grown = DOMAIN dict \cup {n + 1}
  BY <1>1, <1>2
<1>10. QED
  BY <1>3, <1>7, <1>8, <1>9 DEF grown, n

LEMMA ExpansionsType ==
  ASSUME NEW dict, Grounded(dict)
  PROVE  Expansions(dict) \subseteq Seq(Capability) \ {<<>>}
BY GroundedExpand DEF Expansions

----------------------------------------------------------------------------
(* Compression.                                                            *)

(* The name of a piece expands to it.                                      *)
LEMMA NameProperties ==
  ASSUME NEW dict, Grounded(dict), NEW p \in Seq(Capability),
         Len(p) = 1 \/ (p \in Expansions(dict) /\ Len(p) >= 2)
  PROVE  /\ Name(dict, p) \in Capability \cup 1..Len(dict)
         /\ Expand(dict, Name(dict, p)) = p
<1>1. CASE Len(p) = 1
  <2>1. p[1] \in Capability /\ p = <<p[1]>>
    BY <1>1
  <2>2. Expand(dict, p[1]) = <<p[1]>>
    BY <2>1, GroundedExpand
  <2>3. Name(dict, p) = p[1]
    BY <1>1 DEF Name
  <2>4. QED
    BY <2>1, <2>2, <2>3
<1>2. CASE p \in Expansions(dict) /\ Len(p) >= 2
  <2> DEFINE W == {w \in DOMAIN dict : Expand(dict, w) = p}
  <2>1. W # {}
    BY <1>2 DEF Expansions
  <2>2. W \subseteq Nat /\ W \subseteq 1..Len(dict)
    BY GroundedDomain
  <2>3. Min(W) \in W
    <3> HIDE DEF W
    <3> QED
      BY <2>1, <2>2, MinProperties
  <2>4. Name(dict, p) = Min(W)
    <3>0. PICK k \in Nat : k = Len(p) /\ k >= 2
      BY <1>2
    <3>1. k # 1
      BY <3>0
    <3>2. QED
      BY Zenon, <3>0, <3>1 DEF Name
  <2>5. Min(W) \in 1..Len(dict) /\ Expand(dict, Min(W)) = p
    BY <2>2, <2>3
  <2> HIDE DEF W
  <2>6. QED
    BY <2>4, <2>5
<1>3. QED
  BY <1>1, <1>2

(* Every symbol of the compressed text expands to the piece it names.      *)
LEMMA CompressProperties ==
  ASSUME NEW dict, Grounded(dict), NEW s \in Seq(Capability)
  PROVE  LET code == Compress(dict, s)
             pieces == Pieces(s, Expansions(dict))
         IN  /\ pieces \in Seq(Seq(Capability))
             /\ code \in Seq(Symbol)
             /\ DOMAIN code = DOMAIN pieces /\ Len(code) = Len(pieces) /\ Len(code) <= Len(s)
             /\ \A i \in DOMAIN code : code[i] \in Capability \cup 1..Len(dict)
             /\ \A i \in DOMAIN code : Expand(dict, code[i]) = pieces[i]
<1> DEFINE E == Expansions(dict)
           pieces == Pieces(s, E)
           code == Compress(dict, s)
<1>1. E \subseteq Seq(Capability)
  BY ExpansionsType
<1>2. /\ pieces \in Seq(Seq(Capability)) /\ Len(pieces) <= Len(s)
      /\ \A k \in DOMAIN pieces : Len(pieces[k]) = 1 \/ (pieces[k] \in E /\ Len(pieces[k]) >= 2)
  BY <1>1, PiecesProperties
<1>3. code = [i \in DOMAIN pieces |-> Name(dict, pieces[i])]
  BY DEF Compress
<1> HIDE DEF pieces, code
<1>4. ASSUME NEW i \in DOMAIN pieces
      PROVE  /\ Name(dict, pieces[i]) \in Capability \cup 1..Len(dict)
             /\ Expand(dict, Name(dict, pieces[i])) = pieces[i]
  <2>1. pieces[i] \in Seq(Capability)
    BY <1>2
  <2>2. Len(pieces[i]) = 1 \/ (pieces[i] \in E /\ Len(pieces[i]) >= 2)
    BY <1>2
  <2>3. QED
    BY <2>1, <2>2, NameProperties
<1>5. 1..Len(dict) \subseteq Nat
  BY GroundedDomain
<1>6. \A i \in DOMAIN pieces : Name(dict, pieces[i]) \in Symbol
  BY <1>4, <1>5 DEF Symbol
<1>7. DOMAIN pieces = 1..Len(pieces) /\ Len(pieces) \in Nat
  BY <1>2
<1>8. code \in Seq(Symbol) /\ Len(code) = Len(pieces) /\ DOMAIN code = DOMAIN pieces
  BY <1>3, <1>6, <1>7
<1>9. \A i \in DOMAIN code : /\ code[i] \in Capability \cup 1..Len(dict)
                             /\ Expand(dict, code[i]) = pieces[i]
  BY <1>3, <1>4
<1>10. QED
  BY <1>2, <1>8, <1>9 DEF pieces, code

(* Compression loses nothing.                                              *)
LEMMA CompressLossless ==
  ASSUME NEW dict, Grounded(dict), NEW s \in Seq(Capability)
  PROVE  LET code == Compress(dict, s)
         IN  Flatten([i \in DOMAIN code |-> Expand(dict, code[i])]) = s
<1> DEFINE code == Compress(dict, s)
           pieces == Pieces(s, Expansions(dict))
<1>1. /\ DOMAIN code = DOMAIN pieces /\ pieces \in Seq(Seq(Capability))
      /\ \A i \in DOMAIN code : Expand(dict, code[i]) = pieces[i]
  BY CompressProperties
<1>2. Flatten(pieces) = s
  BY ExpansionsType, PiecesProperties
<1> HIDE DEF code, pieces
<1>3. [i \in DOMAIN code |-> Expand(dict, code[i])] = pieces
  BY <1>1
<1>4. QED
  BY <1>2, <1>3 DEF code

LEMMA CompressNonempty ==
  ASSUME NEW dict, Grounded(dict), NEW s \in Seq(Capability), s # <<>>
  PROVE  Refers(Compress(dict, s), Len(dict))
<1> DEFINE code == Compress(dict, s)
<1>1. code \in Seq(Symbol) /\ \A i \in DOMAIN code : code[i] \in Capability \cup 1..Len(dict)
  BY CompressProperties
<1>2. Flatten([i \in DOMAIN code |-> Expand(dict, code[i])]) = s
  BY CompressLossless
<1> HIDE DEF code
<1>3. code # <<>>
  <2>1. SUFFICES ASSUME code = <<>>
                 PROVE  FALSE
    OBVIOUS
  <2>2. [i \in DOMAIN code |-> Expand(dict, code[i])] = <<>>
    BY <2>1
  <2>3. QED
    BY <1>2, <2>2, FlattenNothing
<1>4. QED
  BY <1>1, <1>3 DEF Refers, code

(* A word learned for a sequence stands for the sequence.                  *)
LEMMA LearningExact ==
  ASSUME NEW dict, Grounded(dict), NEW cand \in Seq(Capability), cand # <<>>
  PROVE  LET grown == Append(dict, Compress(dict, cand))
         IN  /\ Grounded(grown)
             /\ Expansions(grown) = Expansions(dict) \cup {cand}
<1> DEFINE code == Compress(dict, cand)
           grown == Append(dict, code)
<1>1. Refers(code, Len(dict))
  BY CompressNonempty
<1>2. Flatten([i \in DOMAIN code |-> Expand(dict, code[i])]) = cand
  BY CompressLossless
<1> HIDE DEF code
<1>3. /\ Grounded(grown)
      /\ DOMAIN grown = DOMAIN dict \cup {Len(dict) + 1}
      /\ \A x \in Capability \cup DOMAIN dict : Expand(grown, x) = Expand(dict, x)
      /\ Expand(grown, Len(dict) + 1) = cand
  BY <1>1, <1>2, GroundedAppend
<1> HIDE DEF grown
<1>4. cand # NoExpansion
  BY DEF NoExpansion
<1>5. {Expand(grown, w) : w \in DOMAIN grown} = {Expand(dict, w) : w \in DOMAIN dict} \cup {cand}
  BY <1>3
<1>6. Expansions(grown) = Expansions(dict) \cup {cand}
  BY <1>4, <1>5 DEF Expansions
<1>7. QED
  BY <1>3, <1>6 DEF grown, code

----------------------------------------------------------------------------
(* The tokenizer of the hybrid planner.                                    *)

CostDef(g, s, patterns, i) ==
  IF i > Len(s) THEN 0
  ELSE 1 + Min({g[i + 1]} \cup {g[i + Len(p)] : p \in Matching(s, i, patterns)})

IsCost(cost, s, patterns) == cost = [i \in 1..(Len(s) + 1) |-> CostDef(cost, s, patterns, i)]

LEMMA MatchingType ==
  ASSUME NEW X, NEW s \in Seq(X), NEW Y, NEW patterns, patterns \subseteq Seq(Y),
         NEW i \in 1..Len(s), NEW p \in Matching(s, i, patterns)
  PROVE  /\ Len(p) \in Nat /\ Len(p) >= 2 /\ i + Len(p) \in (i + 2)..(Len(s) + 1)
         /\ p = SubSeq(s, i, i + Len(p) - 1)
<1>1. Len(s) \in Nat /\ p \in Seq(Y)
  BY DEF Matching
<1>2. /\ Len(p) \in Nat /\ Len(p) >= 2 /\ i + Len(p) - 1 <= Len(s)
      /\ p = SubSeq(s, i, i + Len(p) - 1)
  BY <1>1 DEF Matching, OccursAt
<1>3. QED
  BY <1>1, <1>2

LEMMA CostExists ==
  ASSUME NEW X, NEW s \in Seq(X), NEW Y, NEW patterns, patterns \subseteq Seq(Y)
  PROVE  \E cost : IsCost(cost, s, patterns)
<1> DEFINE Def(g, i) == CostDef(g, s, patterns, i)
           n == Len(s)
           D(k) == {i \in 1..(n + 1) : i + k > n}
           T == {k \in 0..n : \E g : g = [i \in D(k) |-> Def(g, i)]}
<1>1. n \in Nat /\ n = Len(s)
  OBVIOUS
<1> HIDE DEF n
<1>2. 0 \in T
  <2> DEFINE g == [i \in D(0) |-> 0]
  <2>1. \A i \in D(0) : i > n
    BY <1>1
  <2>2. g = [i \in D(0) |-> Def(g, i)]
    BY <1>1, <2>1 DEF CostDef
  <2>3. 0 \in 0..n
    BY <1>1
  <2> HIDE DEF g, Def, D
  <2>4. QED
    BY <2>2, <2>3
<1>3. ASSUME NEW k \in 0..(n - 1), k \in T
      PROVE  k + 1 \in T
  <2>1. PICK g : g = [i \in D(k) |-> Def(g, i)]
    BY <1>3
  <2> DEFINE h == [i \in D(k + 1) |-> Def(g, i)]
  <2>2. \A i \in D(k) : h[i] = g[i]
    <3>1. \A i \in D(k) : i \in D(k + 1)
      BY <1>1
    <3> HIDE DEF Def, D
    <3>2. QED
      BY <2>1, <3>1
  <2>3. ASSUME NEW i \in D(k + 1)
        PROVE  Def(h, i) = Def(g, i)
    <3>1. CASE i > n
      BY <1>1, <3>1 DEF CostDef
    <3>2. CASE i \in 1..n
      <4>1. \A p \in Matching(s, i, patterns) : i + Len(p) \in (i + 2)..(n + 1)
        BY <1>1, <3>2, MatchingType
      <4>2. i + 1 \in D(k) /\ \A p \in Matching(s, i, patterns) : i + Len(p) \in D(k)
        BY <1>1, <3>2, <4>1
      <4> HIDE DEF h, D
      <4>3. h[i + 1] = g[i + 1] /\ \A p \in Matching(s, i, patterns) : h[i + Len(p)] = g[i + Len(p)]
        BY <2>2, <4>2
      <4>4. {h[i + Len(p)] : p \in Matching(s, i, patterns)}
              = {g[i + Len(p)] : p \in Matching(s, i, patterns)}
        BY <4>3
      <4>5. QED
        BY Zenon, <4>3, <4>4 DEF CostDef
    <3>3. QED
      BY <1>1, <3>1, <3>2
  <2>4. h = [i \in D(k + 1) |-> Def(h, i)]
    <3> HIDE DEF Def, D
    <3> QED
      BY <2>3
  <2>5. k + 1 \in 0..n
    BY <1>1
  <2> HIDE DEF h, Def, D
  <2>6. QED
    BY <2>4, <2>5
<1>4. n \in T
  <2> HIDE DEF T
  <2>1. \A k \in 0..n : k \in T
    BY <1>1, <1>2, <1>3, InductionUpTo
  <2>2. QED
    BY <1>1, <2>1
<1>5. D(n) = 1..(n + 1)
  BY <1>1
<1>6. \E g : g = [i \in 1..(n + 1) |-> Def(g, i)]
  <2> HIDE DEF Def, D
  <2> QED
    BY <1>4, <1>5
<1>7. QED
  BY <1>6 DEF IsCost, n

(* Induction from the end of the text to its beginning.                    *)
LEMMA InductionDown ==
  ASSUME NEW T, NEW n \in Nat, n + 1 \in T,
         \A i \in 1..n : (\A j \in (i + 1)..(n + 1) : j \in T) => i \in T
  PROVE  \A i \in 1..(n + 1) : i \in T
<1> DEFINE U == {k \in 0..n : \A i \in (n + 1 - k)..(n + 1) : i \in T}
<1>1. 0 \in U
  OBVIOUS
<1>2. ASSUME NEW k \in 0..(n - 1), k \in U
      PROVE  k + 1 \in U
  <2>1. n - k \in 1..n /\ k + 1 \in 0..n /\ n + 1 - (k + 1) = n - k
    OBVIOUS
  <2>2. \A j \in ((n - k) + 1)..(n + 1) : j \in T
    BY <1>2
  <2>3. n - k \in T
    BY <2>1, <2>2
  <2>4. \A i \in (n - k)..(n + 1) : i = n - k \/ i \in ((n - k) + 1)..(n + 1)
    OBVIOUS
  <2>5. \A i \in (n - k)..(n + 1) : i \in T
    BY <2>2, <2>3, <2>4
  <2>6. QED
    BY <2>1, <2>5
<1>3. n \in U
  <2> HIDE DEF U
  <2>1. \A k \in 0..n : k \in U
    BY <1>1, <1>2, InductionUpTo
  <2>2. QED
    BY <2>1
<1>4. n + 1 - n = 1
  OBVIOUS
<1>5. QED
  BY <1>3, <1>4

(* The costs of the suffixes, with their recursion and their range.        *)
LeastCosts(cost, s, patterns) ==
  /\ SemanticCost(s, patterns) = cost[1]
  /\ cost[Len(s) + 1] = 0
  /\ \A i \in 1..(Len(s) + 1) : cost[i] \in 0..(Len(s) + 1 - i)
  /\ \A i \in 1..Len(s) :
       /\ cost[i] <= 1 + cost[i + 1]
       /\ \A p \in Matching(s, i, patterns) : cost[i] <= 1 + cost[i + Len(p)]
       /\ \/ cost[i] = 1 + cost[i + 1]
          \/ \E p \in Matching(s, i, patterns) : cost[i] = 1 + cost[i + Len(p)]

LEMMA CostIs ==
  ASSUME NEW X, NEW s \in Seq(X), NEW Y, NEW patterns, patterns \subseteq Seq(Y)
  PROVE  \E cost : LeastCosts(cost, s, patterns)
<1> DEFINE F == CHOOSE cost : IsCost(cost, s, patterns)
           n == Len(s)
<1>1. IsCost(F, s, patterns)
  BY CostExists
<1>2. SemanticCost(s, patterns) = F[1]
  BY Zenon DEF SemanticCost, IsCost, CostDef
<1>3. n \in Nat /\ n = Len(s)
  OBVIOUS
<1> HIDE DEF F, n
<1>4. PICK cost : cost = F
  OBVIOUS
<1>5. \A i \in 1..(n + 1) : cost[i] = CostDef(cost, s, patterns, i)
  BY Zenon, <1>1, <1>3, <1>4 DEF IsCost
<1>6. cost[n + 1] = 0
  <2>1. n + 1 \in 1..(n + 1) /\ n + 1 > n
    BY <1>3
  <2>2. cost[n + 1] = CostDef(cost, s, patterns, n + 1)
    BY <1>5, <2>1
  <2>3. QED
    BY <1>3, <2>1, <2>2 DEF CostDef
<1> DEFINE Ways(i) == {cost[i + 1]} \cup {cost[i + Len(p)] : p \in Matching(s, i, patterns)}
<1>7. \A i \in 1..n : cost[i] = 1 + Min(Ways(i))
  <2>1. TAKE i \in 1..n
  <2>2. i \in 1..(n + 1) /\ ~(i > n)
    BY <1>3
  <2>3. cost[i] = CostDef(cost, s, patterns, i)
    BY <1>5, <2>2
  <2>4. QED
    BY <1>3, <2>2, <2>3 DEF CostDef
<1> DEFINE T == {i \in 1..(n + 1) : cost[i] \in 0..(n + 1 - i)}
<1>8. ASSUME NEW i \in 1..n, \A j \in (i + 1)..(n + 1) : j \in T
      PROVE  /\ Ways(i) \subseteq 0..(n - i) /\ i \in T
             /\ cost[i] - 1 \in Ways(i) /\ \A c \in Ways(i) : cost[i] <= 1 + c
  <2>1. \A j \in (i + 1)..(n + 1) : cost[j] \in 0..(n - i)
    <3>1. TAKE j \in (i + 1)..(n + 1)
    <3>2. cost[j] \in 0..(n + 1 - j)
      BY <1>8
    <3>3. QED
      BY <1>3, <3>2
  <2>2. \A p \in Matching(s, i, patterns) : i + Len(p) \in (i + 1)..(n + 1)
    <3>1. \A p \in Matching(s, i, patterns) : i + Len(p) \in (i + 2)..(n + 1)
      BY <1>3, MatchingType
    <3>2. QED
      BY <1>3, <3>1
  <2>3. i + 1 \in (i + 1)..(n + 1)
    BY <1>3
  <2>4. Ways(i) \subseteq 0..(n - i)
    BY <2>1, <2>2, <2>3
  <2>5. cost[i] = 1 + Min(Ways(i))
    BY <1>7
  <2>6. Ways(i) # {}
    OBVIOUS
  <2> HIDE DEF Ways
  <2>7. Ways(i) \subseteq Nat
    BY <1>3, <2>4
  <2>8. Min(Ways(i)) \in Ways(i) /\ \A c \in Ways(i) : Min(Ways(i)) <= c
    BY <2>6, <2>7, MinProperties
  <2>9. Min(Ways(i)) \in 0..(n - i)
    BY <2>4, <2>8
  <2>10. cost[i] - 1 = Min(Ways(i)) /\ cost[i] \in 0..(n + 1 - i)
    BY <1>3, <2>5, <2>9
  <2>11. \A c \in Ways(i) : cost[i] <= 1 + c
    BY <2>5, <2>7, <2>8
  <2>12. i \in T
    BY <1>3, <2>10
  <2>13. QED
    BY <2>4, <2>8, <2>10, <2>11, <2>12
<1>9. \A i \in 1..(n + 1) : i \in T
  <2>1. n + 1 \in T
    BY <1>3, <1>6
  <2>2. \A i \in 1..n : (\A j \in (i + 1)..(n + 1) : j \in T) => i \in T
    BY <1>8
  <2> HIDE DEF T
  <2>3. QED
    BY <1>3, <2>1, <2>2, InductionDown
<1>10. ASSUME NEW i \in 1..n
       PROVE  /\ cost[i] <= 1 + cost[i + 1]
              /\ \A p \in Matching(s, i, patterns) : cost[i] <= 1 + cost[i + Len(p)]
              /\ \/ cost[i] = 1 + cost[i + 1]
                 \/ \E p \in Matching(s, i, patterns) : cost[i] = 1 + cost[i + Len(p)]
  <2>1. \A j \in (i + 1)..(n + 1) : j \in T
    <3>1. \A j \in (i + 1)..(n + 1) : j \in 1..(n + 1)
      BY <1>3
    <3> HIDE DEF T
    <3>2. QED
      BY <1>9, <3>1
  <2>2. cost[i] - 1 \in Ways(i) /\ \A c \in Ways(i) : cost[i] <= 1 + c
    BY <1>8, <2>1
  <2>3. cost[i] \in Int
    <3>1. i \in 1..(n + 1)
      BY <1>3
    <3>2. QED
      BY <1>3, <1>9, <3>1
  <2>4. \/ cost[i] - 1 = cost[i + 1]
        \/ \E p \in Matching(s, i, patterns) : cost[i] - 1 = cost[i + Len(p)]
    BY <2>2
  <2>5. /\ cost[i] <= 1 + cost[i + 1]
        /\ \A p \in Matching(s, i, patterns) : cost[i] <= 1 + cost[i + Len(p)]
    BY <2>2
  <2>6. QED
    BY <2>3, <2>4, <2>5
<1>11. \A i \in 1..(n + 1) : cost[i] \in 0..(n + 1 - i)
  BY <1>9
<1>12. QED
  BY <1>2, <1>3, <1>4, <1>6, <1>10, <1>11 DEF LeastCosts

(* A tiling costs between one token and one token per symbol.              *)
LEMMA SemanticCostBounds ==
  ASSUME NEW X, NEW s \in Seq(X), NEW Y, NEW patterns, patterns \subseteq Seq(Y)
  PROVE  SemanticCost(s, patterns) \in 0..Len(s)
<1>1. Len(s) \in Nat /\ 1 \in 1..(Len(s) + 1) /\ Len(s) + 1 - 1 = Len(s)
  OBVIOUS
<1>2. PICK cost : LeastCosts(cost, s, patterns)
  BY CostIs
<1>3. QED
  BY <1>1, <1>2 DEF LeastCosts

----------------------------------------------------------------------------
(* Dictionaries that may use foreign names.                                *)

LEMMA MapType ==
  ASSUME NEW X, NEW s \in Seq(X), NEW Y, NEW f, \A x \in X : f[x] \in Y
  PROVE  [i \in DOMAIN s |-> f[s[i]]] \in Seq(Y)
<1>1. Len(s) \in Nat /\ DOMAIN s = 1..Len(s)
  OBVIOUS
<1>2. \A i \in DOMAIN s : f[s[i]] \in Y
  OBVIOUS
<1>3. QED
  BY <1>1, <1>2

IsDictionary(dict) == dict \in Seq(Seq(Symbol))

(* Whatever a dictionary defines by what, an expansion has capabilities    *)
(* only.                                                                   *)
LEMMA ExpandType ==
  ASSUME NEW dict, IsDictionary(dict)
  PROVE  \A sym \in Symbol : Expand(dict, sym) \in Seq(Capability)
<1> DEFINE D == DOMAIN dict
<1>1. IsFiniteSet(D) /\ D \subseteq Symbol
  <2>1. Len(dict) \in Nat /\ D = 1..Len(dict)
    BY DEF IsDictionary
  <2>2. 1..Len(dict) \subseteq Nat /\ IsFiniteSet(1..Len(dict))
    BY <2>1, FS_Interval
  <2>3. QED
    BY <2>1, <2>2 DEF Symbol
<1>2. PICK expand : /\ \A x : Expand(dict, x) = expand[{}][x]
                    /\ \A stack \in SUBSET D, sym \in Symbol :
                         expand[stack][sym] = ExpandDef(expand, dict, stack, sym)
  BY <1>1, ExpandIs
<1> HIDE DEF D
<1> DEFINE T == {U \in SUBSET D : \A sym \in Symbol : expand[D \ U][sym] \in Seq(Capability)}
<1>3. ASSUME NEW U \in SUBSET D, \A V \in SUBSET U : V # U => V \in T
      PROVE  U \in T
  <2>1. SUFFICES ASSUME NEW sym \in Symbol
                 PROVE  expand[D \ U][sym] \in Seq(Capability)
    OBVIOUS
  <2>2. expand[D \ U][sym] = ExpandDef(expand, dict, D \ U, sym)
    BY <1>2
  <2>3. CASE sym \in Capability
    BY <2>2, <2>3 DEF ExpandDef
  <2>4. CASE sym \notin Capability /\ sym \notin D \ (D \ U)
    BY <2>2, <2>4 DEF ExpandDef, NoExpansion, D
  <2>5. CASE sym \notin Capability /\ sym \in D \ (D \ U)
    <3>1. U \ {sym} \in T /\ D \ (U \ {sym}) = (D \ U) \cup {sym}
      BY <1>3, <2>5
    <3> DEFINE parts == [i \in DOMAIN dict[sym] |-> expand[(D \ U) \cup {sym}][dict[sym][i]]]
    <3>2. expand[D \ U][sym] = IF NoExpansion \in Range(parts) THEN NoExpansion ELSE Flatten(parts)
      BY <2>2, <2>5 DEF ExpandDef, D
    <3>3. \A y \in Symbol : expand[(D \ U) \cup {sym}][y] \in Seq(Capability)
      BY <3>1
    <3>4. dict[sym] \in Seq(Symbol)
      BY <2>5 DEF D, IsDictionary
    <3>5. parts \in Seq(Seq(Capability))
      BY Zenon, <3>3, <3>4, MapType
    <3>6. Flatten(parts) \in Seq(Capability)
      <4> HIDE DEF parts
      <4> QED
        BY <3>5, FlattenType
    <3> HIDE DEF parts
    <3>7. QED
      BY <3>2, <3>6 DEF NoExpansion
  <2>6. QED
    BY <2>3, <2>4, <2>5
<1>4. D \in T
  <2> HIDE DEF T
  <2>1. \A U \in SUBSET D : U \in T
    BY <1>1, <1>3, PartInduction
  <2>2. QED
    BY <2>1
<1>5. D \ D = {}
  OBVIOUS
<1>6. QED
  BY <1>2, <1>4, <1>5

LEMMA AllExpansionsType ==
  ASSUME NEW dict, IsDictionary(dict)
  PROVE  Expansions(dict) \subseteq Seq(Capability)
<1>1. DOMAIN dict \subseteq Symbol
  BY DEF Symbol, IsDictionary
<1>2. QED
  BY <1>1, ExpandType DEF Expansions

LEMMA CapabilityIsSymbol == Seq(Capability) \subseteq Seq(Symbol)
<1>1. Capability \subseteq Symbol
  BY DEF Symbol
<1>2. QED
  BY <1>1, SeqMonotonic

LEMMA NameType ==
  ASSUME NEW dict, IsDictionary(dict), NEW X, X \subseteq Symbol, NEW p \in Seq(X),
         Len(p) = 1 \/ (p \in Expansions(dict) /\ Len(p) >= 2)
  PROVE  Name(dict, p) \in Symbol
<1>1. CASE Len(p) = 1
  <2>1. p[1] \in Symbol
    BY <1>1
  <2>2. QED
    BY <1>1, <2>1 DEF Name
<1>2. CASE p \in Expansions(dict) /\ Len(p) >= 2
  <2> DEFINE W == {w \in DOMAIN dict : Expand(dict, w) = p}
  <2>1. W # {} /\ W \subseteq Nat
    BY <1>2 DEF Expansions, IsDictionary
  <2>2. Min(W) \in W
    <3> HIDE DEF W
    <3> QED
      BY <2>1, MinProperties
  <2>3. Len(p) # 1
    BY <1>2
  <2>4. Name(dict, p) = Min(W)
    BY <2>3 DEF Name
  <2>5. Min(W) \in Nat
    BY <2>1, <2>2
  <2>6. QED
    BY <2>4, <2>5 DEF Symbol
<1>3. QED
  BY <1>1, <1>2

LEMMA CompressType ==
  ASSUME NEW dict, IsDictionary(dict), NEW s \in Seq(Symbol)
  PROVE  /\ Compress(dict, s) \in Seq(Symbol)
         /\ Len(Compress(dict, s)) = Len(Pieces(s, Expansions(dict)))
         /\ Len(Compress(dict, s)) <= Len(s)
<1> DEFINE E == Expansions(dict)
           pieces == Pieces(s, E)
<1>1. E \subseteq Seq(Symbol)
  BY AllExpansionsType, CapabilityIsSymbol
<1>2. /\ pieces \in Seq(Seq(Symbol)) /\ Len(pieces) <= Len(s)
      /\ \A k \in DOMAIN pieces : Len(pieces[k]) = 1 \/ (pieces[k] \in E /\ Len(pieces[k]) >= 2)
  BY <1>1, PiecesProperties
<1>3. Compress(dict, s) = [i \in DOMAIN pieces |-> Name(dict, pieces[i])]
  BY DEF Compress
<1>4. \A p \in Seq(Symbol) : Len(p) = 1 \/ (p \in E /\ Len(p) >= 2) => Name(dict, p) \in Symbol
  BY NameType
<1> HIDE DEF pieces, E
<1>5. \A i \in DOMAIN pieces : Name(dict, pieces[i]) \in Symbol
  <2>1. TAKE i \in DOMAIN pieces
  <2>2. pieces[i] \in Seq(Symbol)
    BY <1>2
  <2>3. QED
    BY <1>2, <1>4, <2>2
<1>6. DOMAIN pieces = 1..Len(pieces) /\ Len(pieces) \in Nat
  BY <1>2
<1>7. Compress(dict, s) \in Seq(Symbol) /\ Len(Compress(dict, s)) = Len(pieces)
  BY <1>3, <1>5, <1>6
<1>8. QED
  BY <1>2, <1>7 DEF pieces, E

(* f[stack] expands every symbol, with the words of stack on the stack.    *)
ExpandsBy(f, dict) ==
  \A stack \in SUBSET DOMAIN dict, sym \in Symbol :
    f[stack][sym] = ExpandDef(f, dict, stack, sym)

(* A word that no definition names changes what no other symbol stands     *)
(* for, with it on the stack or without.                                   *)
LEMMA AppendLeaves ==
  ASSUME NEW dict, IsDictionary(dict), NEW definition \in Seq(Symbol),
         \A w \in DOMAIN dict : Len(dict) + 1 \notin Range(dict[w]),
         NEW old, ExpandsBy(old, dict),
         NEW new, ExpandsBy(new, Append(dict, definition))
  PROVE  \A extra \in SUBSET {Len(dict) + 1} :
           \A sym \in Symbol \ {Len(dict) + 1} : new[extra][sym] = old[{}][sym]
<1>0. PICK fresh, grown : fresh = Len(dict) + 1 /\ grown = Append(dict, definition)
  OBVIOUS
<1> SUFFICES ASSUME NEW extra \in SUBSET {fresh}
             PROVE  \A sym \in Symbol \ {fresh} : new[extra][sym] = old[{}][sym]
  BY <1>0
<1> DEFINE D == DOMAIN dict
<1>1. /\ fresh \in Nat /\ fresh \notin D /\ DOMAIN grown = D \cup {fresh}
      /\ IsFiniteSet(D) /\ D \subseteq Nat
      /\ \A w \in D : /\ grown[w] = dict[w] /\ dict[w] \in Seq(Symbol)
                      /\ \A i \in DOMAIN dict[w] : dict[w][i] \in Symbol \ {fresh}
  <2>1. Len(dict) \in Nat /\ D = 1..Len(dict) /\ \A w \in D : dict[w] \in Seq(Symbol)
    BY DEF IsDictionary
  <2>2. DOMAIN grown = 1..(Len(dict) + 1) /\ \A w \in 1..Len(dict) : grown[w] = dict[w]
    BY <1>0, <2>1 DEF IsDictionary
  <2>3. IsFiniteSet(1..Len(dict))
    BY <2>1, FS_Interval
  <2>4. \A w \in D : \A i \in DOMAIN dict[w] : dict[w][i] \in Symbol \ {fresh}
    BY <1>0, <2>1 DEF Range
  <2> HIDE DEF D
  <2>5. fresh \in Nat /\ fresh \notin D /\ D \subseteq Nat /\ DOMAIN grown = D \cup {fresh}
    BY <1>0, <2>1, <2>2
  <2>6. QED
    BY <2>1, <2>2, <2>3, <2>4, <2>5
<1>2. D = DOMAIN dict
  OBVIOUS
<1> HIDE DEF D
<1> DEFINE T == {U \in SUBSET D :
                   \A sym \in Symbol \ {fresh} : new[(D \ U) \cup extra][sym] = old[D \ U][sym]}
<1>3. ASSUME NEW U \in SUBSET D, \A V \in SUBSET U : V # U => V \in T
      PROVE  U \in T
  <2>1. SUFFICES ASSUME NEW sym \in Symbol \ {fresh}
                 PROVE  new[(D \ U) \cup extra][sym] = old[D \ U][sym]
    OBVIOUS
  <2>2. PICK stack, over : stack = D \ U /\ over = (D \ U) \cup extra
    OBVIOUS
  <2>3. /\ stack \in SUBSET D /\ over \in SUBSET DOMAIN grown
        /\ sym \in D \ stack <=> sym \in DOMAIN grown \ over
    BY <1>1, <2>2
  <2>4. old[stack][sym] = ExpandDef(old, dict, stack, sym)
        /\ new[over][sym] = ExpandDef(new, grown, over, sym)
    BY <1>0, <1>2, <2>3 DEF ExpandsBy
  <2>5. CASE sym \in Capability
    BY <2>2, <2>4, <2>5 DEF ExpandDef
  <2>6. CASE sym \notin Capability /\ sym \notin D \ stack
    BY <1>2, <2>2, <2>3, <2>4, <2>6 DEF ExpandDef
  <2>7. CASE sym \notin Capability /\ sym \in D \ stack
    <3>1. /\ U \ {sym} \in T
          /\ D \ (U \ {sym}) = stack \cup {sym}
          /\ (D \ (U \ {sym})) \cup extra = over \cup {sym}
      <4>1. sym \in U /\ U \subseteq D
        BY <2>2, <2>7
      <4>2. D \ (U \ {sym}) = (D \ U) \cup {sym}
        BY <4>1
      <4> HIDE DEF T
      <4>3. U \ {sym} \in T
        BY <1>3, <4>1
      <4>4. QED
        BY <2>2, <4>2, <4>3
    <3>2. \A y \in Symbol \ {fresh} : new[over \cup {sym}][y] = old[stack \cup {sym}][y]
      BY <3>1
    <3>3. grown[sym] = dict[sym] /\ \A i \in DOMAIN dict[sym] : dict[sym][i] \in Symbol \ {fresh}
      BY <1>1, <2>7
    <3>4. [i \in DOMAIN grown[sym] |-> new[over \cup {sym}][grown[sym][i]]]
            = [i \in DOMAIN dict[sym] |-> old[stack \cup {sym}][dict[sym][i]]]
      BY <3>2, <3>3
    <3>5. QED
      BY Zenon, <1>2, <2>2, <2>3, <2>4, <2>7, <3>4 DEF ExpandDef
  <2>8. QED
    BY <2>5, <2>6, <2>7
<1>4. D \in T
  <2> HIDE DEF T
  <2>1. \A U \in SUBSET D : U \in T
    BY <1>1, <1>3, PartInduction
  <2>2. QED
    BY <2>1
<1>5. (D \ D) \cup extra = extra /\ D \ D = {}
  OBVIOUS
<1>6. QED
  BY <1>4, <1>5

LEMMA OneSymbol == \A X, p : p \in Seq(X) /\ Len(p) = 1 => p[1] \in X /\ p = <<p[1]>>
OBVIOUS

LEMMA LongIsNotOne ==
  ASSUME NEW X, NEW p \in Seq(X), Len(p) >= 2
  PROVE  Len(p) # 1
<1>1. PICK n \in Nat : n = Len(p)
  OBVIOUS
<1>2. QED
  BY <1>1

(* Where no definition and no text names a word before it exists, a word   *)
(* learned for a text stands for the text, or for nothing when the text    *)
(* has a foreign name, and no older word stands for anything else than     *)
(* before.                                                                 *)
LEMMA LearningPlain ==
  ASSUME NEW dict, IsDictionary(dict),
         \A w \in DOMAIN dict : Len(dict) + 1 \notin Range(dict[w]),
         NEW cand \in Seq(Symbol), cand # <<>>, Range(cand) \cap Nat = {}
  PROVE  LET grown == Append(dict, Compress(dict, cand))
         IN  /\ IsDictionary(grown)
             /\ Expand(grown, Len(grown)) \in {NoExpansion, cand}
             /\ Expand(grown, Len(grown)) = cand
                  => Expansions(grown) = Expansions(dict) \cup {cand}
<1> DEFINE E == Expansions(dict)
           code == Compress(dict, cand)
           grown == Append(dict, code)
           pieces == Pieces(cand, E)
           fresh == Len(dict) + 1
<1> DEFINE Plain == Symbol \ Nat
<1>1. /\ Len(dict) \in Nat /\ DOMAIN dict = 1..Len(dict) /\ IsFiniteSet(DOMAIN dict)
      /\ DOMAIN dict \subseteq Nat /\ DOMAIN dict \subseteq Symbol
      /\ fresh \in Symbol /\ fresh \in Nat /\ fresh \notin Capability
      /\ fresh \notin DOMAIN dict
  <2>1. Len(dict) \in Nat /\ DOMAIN dict = 1..Len(dict)
    BY DEF IsDictionary
  <2>2. IsFiniteSet(1..Len(dict))
    BY <2>1, FS_Interval
  <2>3. 1..Len(dict) \subseteq Nat /\ fresh \in Nat /\ fresh \notin 1..Len(dict)
    BY <2>1
  <2> HIDE DEF fresh
  <2>4. QED
    BY <2>1, <2>2, <2>3, NamesApart DEF Symbol
<1>2. code \in Seq(Symbol) /\ Len(code) = Len(pieces)
      /\ code = [i \in DOMAIN pieces |-> Name(dict, pieces[i])]
  BY CompressType DEF Compress
<1>3. E \subseteq Seq(Plain) /\ cand \in Seq(Plain) /\ Plain \subseteq Symbol
  <2>1. Capability \subseteq Plain
    BY NamesApart DEF Symbol
  <2>2. Seq(Capability) \subseteq Seq(Plain)
    BY <2>1, SeqMonotonic
  <2>3. \A i \in DOMAIN cand : cand[i] \in Plain
    BY DEF Range
  <2>4. DOMAIN cand = 1..Len(cand) /\ Len(cand) \in Nat
    OBVIOUS
  <2> HIDE DEF Plain
  <2>5. cand \in Seq(Plain)
    BY <2>3, <2>4
  <2>6. QED
    BY <2>2, <2>5, AllExpansionsType DEF Plain
<1>4. /\ pieces \in Seq(Seq(Plain)) /\ Flatten(pieces) = cand
      /\ \A k \in DOMAIN pieces : Len(pieces[k]) = 1 \/ (pieces[k] \in E /\ Len(pieces[k]) >= 2)
  <2> HIDE DEF Plain, E
  <2> QED
    BY <1>3, PiecesProperties
<1>5. /\ IsDictionary(grown) /\ Len(grown) = fresh /\ DOMAIN grown = DOMAIN dict \cup {fresh}
      /\ grown[fresh] = code
  BY <1>1, <1>2 DEF IsDictionary
<1> HIDE DEF code, pieces, E, fresh, Plain, grown
<1>6. IsFiniteSet(DOMAIN grown) /\ IsFiniteSet(DOMAIN dict)
  <2>1. IsFiniteSet(DOMAIN dict)
    BY <1>1
  <2>2. IsFiniteSet(DOMAIN dict \cup {fresh})
    BY <2>1, FS_AddElement
  <2>3. QED
    BY <1>5, <2>1, <2>2
<1>7. PICK old : /\ \A x : Expand(dict, x) = old[{}][x]
                 /\ \A stack \in SUBSET DOMAIN dict, sym \in Symbol :
                      old[stack][sym] = ExpandDef(old, dict, stack, sym)
  BY <1>6, ExpandIs
<1>8. PICK new : /\ \A x : Expand(grown, x) = new[{}][x]
                 /\ \A stack \in SUBSET DOMAIN grown, sym \in Symbol :
                      new[stack][sym] = ExpandDef(new, grown, stack, sym)
  BY <1>6, ExpandIs
<1>9. \A extra \in SUBSET {fresh} : \A sym \in Symbol \ {fresh} : new[extra][sym] = old[{}][sym]
  <2>1. ExpandsBy(old, dict) /\ ExpandsBy(new, Append(dict, code))
    BY <1>7, <1>8 DEF ExpandsBy, grown
  <2>2. code \in Seq(Symbol)
    BY <1>2
  <2>3. QED
    BY <2>1, <2>2, AppendLeaves DEF fresh
<1>10. \A i \in DOMAIN pieces : /\ code[i] \in Symbol \ {fresh}
                                /\ Expand(dict, code[i]) \in {NoExpansion, pieces[i]}
  <2>1. TAKE i \in DOMAIN pieces
  <2>2. /\ pieces[i] \in Seq(Plain) /\ code[i] = Name(dict, pieces[i]) /\ code[i] \in Symbol
    BY <1>2, <1>4
  <2>3. CASE Len(pieces[i]) = 1
    <3>1. code[i] = pieces[i][1] /\ pieces[i] = <<code[i]>> /\ code[i] \in Plain
      <4>1. code[i] = pieces[i][1]
        BY Zenon, <2>2, <2>3 DEF Name
      <4>2. \A p \in Seq(Plain) : Len(p) = 1 => p[1] \in Plain /\ p = <<p[1]>>
        BY OneSymbol
      <4>3. QED
        BY Zenon, <2>2, <2>3, <4>1, <4>2
    <3>2. Expand(dict, code[i]) = ExpandDef(old, dict, {}, code[i])
      BY <1>7, <2>2
    <3>3. code[i] \notin DOMAIN dict /\ code[i] # fresh
      BY <1>1, <3>1 DEF Plain
    <3>4. Expand(dict, code[i]) = IF code[i] \in Capability THEN <<code[i]>> ELSE NoExpansion
      BY Zenon, <3>2, <3>3 DEF ExpandDef
    <3>5. QED
      BY <2>2, <3>1, <3>3, <3>4
  <2>4. CASE pieces[i] \in E /\ Len(pieces[i]) >= 2
    <3> DEFINE W == {w \in DOMAIN dict : Expand(dict, w) = pieces[i]}
    <3>1. W # {} /\ W \subseteq Nat
      BY <1>1, <2>4 DEF Expansions, E
    <3>2. Min(W) \in W
      <4> HIDE DEF W
      <4> QED
        BY <3>1, MinProperties
    <3>3. Len(pieces[i]) # 1
      BY <2>2, <2>4, LongIsNotOne
    <3>4. code[i] = Min(W)
      <4>1. PICK p : p = pieces[i]
        OBVIOUS
      <4>2. Name(dict, p) = Min({w \in DOMAIN dict : Expand(dict, w) = p})
        BY <3>3, <4>1 DEF Name
      <4>3. code[i] = Name(dict, p)
        BY <2>2, <4>1
      <4>4. W = {w \in DOMAIN dict : Expand(dict, w) = p}
        BY <4>1
      <4> HIDE DEF W
      <4>5. QED
        BY <4>2, <4>3, <4>4
    <3>5. code[i] \in DOMAIN dict /\ Expand(dict, code[i]) = pieces[i]
      BY <3>2, <3>4
    <3>6. QED
      BY <1>1, <3>5
  <2>5. QED
    BY <1>4, <2>3, <2>4
<1> DEFINE parts == [i \in DOMAIN code |-> new[{fresh}][code[i]]]
<1>11. Expand(grown, fresh) = IF NoExpansion \in Range(parts) THEN NoExpansion ELSE Flatten(parts)
  <2>1. {} \in SUBSET DOMAIN grown /\ fresh \in DOMAIN grown \ {}
    BY <1>5
  <2>2. Expand(grown, fresh) = ExpandDef(new, grown, {}, fresh)
    BY <1>1, <1>8, <2>1
  <2>3. {} \cup {fresh} = {fresh}
    OBVIOUS
  <2>4. QED
    BY <1>1, <1>5, <2>1, <2>2, <2>3 DEF ExpandDef
<1>12. DOMAIN code = DOMAIN pieces
  BY <1>2
<1>13. \A i \in DOMAIN pieces : parts[i] \in {NoExpansion, pieces[i]}
  <2>1. \A i \in DOMAIN pieces : parts[i] = Expand(dict, code[i])
    BY <1>7, <1>9, <1>10, <1>12
  <2>2. QED
    BY <1>10, <2>1
<1>14. Expand(grown, fresh) \in {NoExpansion, cand}
  <2>1. CASE NoExpansion \in Range(parts)
    BY <1>11, <2>1
  <2>2. CASE NoExpansion \notin Range(parts)
    <3>1. \A i \in DOMAIN pieces : parts[i] = pieces[i]
      BY <1>12, <1>13, <2>2 DEF Range
    <3>2. pieces = [i \in DOMAIN pieces |-> pieces[i]]
      BY <1>4
    <3>3. parts = pieces
      BY Zenon, <1>12, <3>1, <3>2
    <3>4. QED
      BY <1>4, <1>11, <2>2, <3>3
  <2>3. QED
    BY <2>1, <2>2
<1>15. ASSUME Expand(grown, fresh) = cand
       PROVE  Expansions(grown) = E \cup {cand}
  <2>1. \A w \in DOMAIN dict : Expand(grown, w) = Expand(dict, w)
    BY <1>1, <1>7, <1>8, <1>9
  <2>2. {Expand(grown, w) : w \in DOMAIN grown} = {Expand(dict, w) : w \in DOMAIN dict} \cup {cand}
    BY <1>5, <1>15, <2>1
  <2>3. QED
    BY <2>2 DEF Expansions, NoExpansion, E
<1>16. QED
  BY <1>5, <1>14, <1>15 DEF E, grown, code

----------------------------------------------------------------------------
(* The growth candidates of a sequence are its parts of 2 to 5 symbols.    *)

LEMMA CandidateProperties ==
  ASSUME NEW X, NEW s \in Seq(X), NEW c \in Candidates(s)
  PROVE  /\ c \in Seq(X) /\ Len(c) \in 2..5 /\ c # <<>>
         /\ \E i \in 1..Len(s) : OccursAt(c, s, i)
<1>1. PICK n \in MinCandidate..MaxCandidate :
        c \in {SubSeq(s, i, i + n - 1) : i \in 1..(Len(s) - n + 1)}
  BY DEF Candidates
<1>2. PICK i \in 1..(Len(s) - n + 1) : c = SubSeq(s, i, i + n - 1)
  BY <1>1
<1>3. n \in 2..5 /\ Len(s) \in Nat
  BY DEF MinCandidate, MaxCandidate
<1>4. /\ i \in 1..Len(s) /\ i \in Int /\ i + n - 1 \in Int /\ i <= i + n - 1 /\ i + n - 1 <= Len(s)
      /\ (i + n - 1) - i + 1 = n /\ \A k \in i..(i + n - 1) : s[k] \in X
  BY <1>3
<1>5. c \in Seq(X) /\ Len(c) = n
  BY <1>2, <1>4, SubSeqProperties
<1>6. OccursAt(c, s, i)
  BY <1>2, <1>4, <1>5 DEF OccursAt
<1>7. QED
  BY <1>3, <1>4, <1>5, <1>6

LEMMA CandidateType ==
  ASSUME NEW X, NEW s \in Seq(X)
  PROVE  Candidates(s) \subseteq Seq(X)
BY CandidateProperties

LEMMA CandidateIfOccurs ==
  ASSUME NEW X, NEW s \in Seq(X), NEW c, Len(c) \in 2..5, NEW i \in 1..Len(s), OccursAt(c, s, i)
  PROVE  c \in Candidates(s)
<1> DEFINE n == Len(c)
<1>1. n \in MinCandidate..MaxCandidate /\ Len(s) \in Nat
  BY DEF MinCandidate, MaxCandidate
<1>2. i \in 1..(Len(s) - n + 1) /\ c = SubSeq(s, i, i + n - 1)
  BY <1>1 DEF OccursAt, MinCandidate, MaxCandidate
<1> HIDE DEF n
<1>3. c \in {SubSeq(s, j, j + n - 1) : j \in 1..(Len(s) - n + 1)}
  BY <1>2
<1>4. QED
  BY <1>1, <1>3 DEF Candidates

----------------------------------------------------------------------------
(* The repair of a drift.                                                  *)

LEMMA CommonPrefixProperties ==
  ASSUME NEW X, NEW old \in Seq(X), NEW new \in Seq(X), NEW m \in Nat, m = Min({Len(old), Len(new)})
  PROVE  /\ CommonPrefix(old, new) \in 0..m
         /\ SubSeq(old, 1, CommonPrefix(old, new)) = SubSeq(new, 1, CommonPrefix(old, new))
         /\ \A n \in 0..m : SubSeq(old, 1, n) = SubSeq(new, 1, n) => n <= CommonPrefix(old, new)
<1> DEFINE P == {n \in 0..m : SubSeq(old, 1, n) = SubSeq(new, 1, n)}
<1>1. CommonPrefix(old, new) = Max(P)
  BY DEF CommonPrefix
<1>2. P \subseteq 0..m
  OBVIOUS
<1>3. 0 \in P
  <2>1. SubSeq(old, 1, 0) = <<>> /\ SubSeq(new, 1, 0) = <<>>
    BY SubSeqEmpty
  <2>2. QED
    BY <2>1
<1> HIDE DEF P
<1>4. Max(P) \in P /\ \A n \in P : Max(P) >= n
  BY <1>2, <1>3, MaxProperties
<1>5. PICK x : x = Max(P)
  OBVIOUS
<1>6. x \in 0..m /\ SubSeq(old, 1, x) = SubSeq(new, 1, x)
  BY <1>2, <1>4, <1>5 DEF P
<1>7. \A n \in 0..m : SubSeq(old, 1, n) = SubSeq(new, 1, n) => n <= x
  <2>1. SUFFICES ASSUME NEW n \in 0..m, SubSeq(old, 1, n) = SubSeq(new, 1, n)
                 PROVE  n <= x
    OBVIOUS
  <2>2. n \in P
    BY <2>1 DEF P
  <2>3. x >= n
    BY <1>4, <1>5, <2>2
  <2>4. QED
    BY <1>6, <2>3
<1>8. QED
  BY <1>1, <1>5, <1>6, <1>7

SameEnd(old, new, q) ==
  SubSeq(old, Len(old) - q + 1, Len(old)) = SubSeq(new, Len(new) - q + 1, Len(new))

LEMMA CommonSuffixProperties ==
  ASSUME NEW X, NEW old \in Seq(X), NEW new \in Seq(X),
         NEW m \in Nat, m = Min({Len(old), Len(new)}), NEW prefix \in 0..m
  PROVE  /\ CommonSuffix(old, new, prefix) \in 0..(m - prefix)
         /\ SameEnd(old, new, CommonSuffix(old, new, prefix))
         /\ \A n \in 0..(m - prefix) : SameEnd(old, new, n) => n <= CommonSuffix(old, new, prefix)
<1> DEFINE k == m - prefix
           P == {n \in 0..k : SameEnd(old, new, n)}
<1>1. CommonSuffix(old, new, prefix) = Max(P)
  BY DEF CommonSuffix, SameEnd
<1>2. P \subseteq 0..k /\ k \in Nat
  OBVIOUS
<1>3. 0 \in P
  <2>1. Len(old) \in Nat /\ Len(new) \in Nat /\ Len(old) - 0 + 1 > Len(old) /\ Len(new) - 0 + 1 > Len(new)
    OBVIOUS
  <2>2. /\ SubSeq(old, Len(old) - 0 + 1, Len(old)) = <<>>
        /\ SubSeq(new, Len(new) - 0 + 1, Len(new)) = <<>>
    BY <2>1, SubSeqEmpty
  <2>3. QED
    BY <1>2, <2>2 DEF SameEnd
<1> HIDE DEF P, k
<1>4. Max(P) \in P /\ \A n \in P : Max(P) >= n
  BY <1>2, <1>3, MaxProperties
<1>5. PICK x : x = Max(P)
  OBVIOUS
<1>6. x \in 0..k /\ SameEnd(old, new, x)
  BY <1>2, <1>4, <1>5 DEF P
<1>7. \A n \in 0..k : SameEnd(old, new, n) => n <= x
  <2>1. SUFFICES ASSUME NEW n \in 0..k, SameEnd(old, new, n)
                 PROVE  n <= x
    OBVIOUS
  <2>2. n \in P
    BY <2>1 DEF P
  <2>3. x >= n
    BY <1>4, <1>5, <2>2
  <2>4. QED
    BY <1>2, <1>6, <2>3
<1>8. QED
  BY <1>1, <1>5, <1>6, <1>7 DEF k

(* An end of an equal end is equal.                                        *)
LEMMA SameEndShorter ==
  ASSUME NEW X, NEW old \in Seq(X), NEW new \in Seq(X), NEW q \in Nat, NEW r \in 0..q,
         q <= Len(old), q <= Len(new), SameEnd(old, new, q)
  PROVE  SameEnd(old, new, r)
<1>1. \A s \in Seq(X), n \in Nat :
        n <= Len(s) => /\ SubSeq(s, Len(s) - n + 1, Len(s)) \in Seq(X)
                       /\ Len(SubSeq(s, Len(s) - n + 1, Len(s))) = n
                       /\ \A i \in 1..n : SubSeq(s, Len(s) - n + 1, Len(s))[i] = s[Len(s) - n + i]
  <2>1. SUFFICES ASSUME NEW s \in Seq(X), NEW n \in Nat, n <= Len(s)
                 PROVE  /\ SubSeq(s, Len(s) - n + 1, Len(s)) \in Seq(X)
                        /\ Len(SubSeq(s, Len(s) - n + 1, Len(s))) = n
                        /\ \A i \in 1..n : SubSeq(s, Len(s) - n + 1, Len(s))[i] = s[Len(s) - n + i]
    OBVIOUS
  <2>2. QED
    BY <2>1
<1>2. \A i \in 1..q : old[Len(old) - q + i] = new[Len(new) - q + i]
  <2>1. \A i \in 1..q : /\ SubSeq(old, Len(old) - q + 1, Len(old))[i] = old[Len(old) - q + i]
                        /\ SubSeq(new, Len(new) - q + 1, Len(new))[i] = new[Len(new) - q + i]
    BY <1>1
  <2>2. QED
    BY <2>1 DEF SameEnd
<1>3. \A i \in 1..r : old[Len(old) - r + i] = new[Len(new) - r + i]
  <2>1. TAKE i \in 1..r
  <2>2. (q - r) + i \in 1..q /\ Len(old) \in Nat /\ Len(new) \in Nat
    OBVIOUS
  <2>3. old[Len(old) - q + ((q - r) + i)] = new[Len(new) - q + ((q - r) + i)]
    BY <1>2, <2>2
  <2>4. Len(old) - q + ((q - r) + i) = Len(old) - r + i /\ Len(new) - q + ((q - r) + i) = Len(new) - r + i
    BY <2>2
  <2>5. QED
    BY <2>3, <2>4
<1>4. r \in Nat /\ r <= Len(old) /\ r <= Len(new)
  OBVIOUS
<1>5. PICK a, b : a = SubSeq(old, Len(old) - r + 1, Len(old)) /\ b = SubSeq(new, Len(new) - r + 1, Len(new))
  OBVIOUS
<1>6. /\ a \in Seq(X) /\ b \in Seq(X) /\ Len(a) = r /\ Len(b) = r
      /\ \A i \in 1..r : a[i] = old[Len(old) - r + i] /\ b[i] = new[Len(new) - r + i]
  BY <1>1, <1>4, <1>5
<1>7. a = b
  <2>1. Len(a) = Len(b) /\ \A i \in 1..Len(a) : a[i] = b[i]
    BY <1>3, <1>6
  <2>2. QED
    BY <1>6, <2>1, SeqEqual
<1>8. QED
  BY <1>5, <1>7 DEF SameEnd

(* No shorter middle would do: whatever beginning and whatever end the two *)
(* sequences share without overlapping, the greedy prefix and then the     *)
(* greedy suffix keep as much.                                             *)
LEMMA MiddleIsLeast ==
  ASSUME NEW X, NEW old \in Seq(X), NEW new \in Seq(X)
  PROVE  \E p \in 0..Len(new), q \in 0..Len(new) :
           /\ p + q <= Min({Len(old), Len(new)})
           /\ SubSeq(old, 1, p) = SubSeq(new, 1, p) /\ SameEnd(old, new, q)
           /\ Len(DiffMiddle(old, new)) = Len(new) - (p + q)
           /\ Len(new) - (p + q) \in Nat
           /\ \A x \in 0..Len(new), y \in 0..Len(new) :
                /\ x + y <= Min({Len(old), Len(new)})
                /\ SubSeq(old, 1, x) = SubSeq(new, 1, x)
                /\ SameEnd(old, new, y)
                => x + y <= p + q
<1>1. Len(old) \in Nat /\ Len(new) \in Nat
  OBVIOUS
<1>2. PICK m : m = Min({Len(old), Len(new)})
  OBVIOUS
<1>3. m \in Nat /\ m <= Len(old) /\ m <= Len(new)
  BY <1>1, <1>2, MinOfTwo
<1>4. PICK p : p = CommonPrefix(old, new)
  OBVIOUS
<1>5. /\ p \in 0..m /\ SubSeq(old, 1, p) = SubSeq(new, 1, p)
      /\ \A n \in 0..m : SubSeq(old, 1, n) = SubSeq(new, 1, n) => n <= p
  BY <1>2, <1>3, <1>4, CommonPrefixProperties
<1>6. PICK q : q = CommonSuffix(old, new, p)
  OBVIOUS
<1>7. /\ q \in 0..(m - p) /\ SameEnd(old, new, q)
      /\ \A n \in 0..(m - p) : SameEnd(old, new, n) => n <= q
  BY <1>2, <1>3, <1>5, <1>6, CommonSuffixProperties
<1>8. p \in 0..Len(new) /\ q \in 0..Len(new) /\ p + q <= m /\ Len(new) - (p + q) \in Nat
  BY <1>1, <1>3, <1>5, <1>7
<1>9. Len(DiffMiddle(old, new)) = Len(new) - (p + q)
  <2>1. DiffMiddle(old, new) = SubSeq(new, p + 1, Len(new) - q)
    BY <1>4, <1>6 DEF DiffMiddle
  <2>2. p + 1 \in Int /\ Len(new) - q \in Int /\ \A i \in (p + 1)..(Len(new) - q) : new[i] \in X
    BY <1>1, <1>8
  <2>3. Len(SubSeq(new, p + 1, Len(new) - q))
          = IF p + 1 <= Len(new) - q THEN (Len(new) - q) - (p + 1) + 1 ELSE 0
    BY <2>2, SubSeqProperties
  <2>4. QED
    BY <1>1, <1>8, <2>1, <2>3
<1>10. ASSUME NEW x \in 0..Len(new), NEW y \in 0..Len(new), x + y <= m,
              SubSeq(old, 1, x) = SubSeq(new, 1, x), SameEnd(old, new, y)
       PROVE  x + y <= p + q
  <2>1. x <= p
    <3>1. x \in 0..m
      BY <1>1, <1>3, <1>10
    <3>2. QED
      BY <1>5, <1>10, <3>1
  <2>2. CASE y <= m - p
    <3>1. y \in 0..(m - p)
      BY <1>1, <1>3, <1>5, <2>2
    <3>2. y <= q
      BY <1>7, <1>10, <3>1
    <3>3. QED
      BY <1>1, <1>8, <2>1, <3>2
  <2>3. CASE y > m - p
    <3>1. y \in Nat /\ m - p \in 0..y /\ y <= Len(old) /\ y <= Len(new)
      BY <1>1, <1>3, <1>5, <1>10, <2>3
    <3>2. SameEnd(old, new, m - p)
      BY <1>10, <3>1, SameEndShorter
    <3>3. m - p \in 0..(m - p)
      BY <1>3, <1>5
    <3>4. m - p <= q
      BY <1>7, <3>2, <3>3
    <3>5. QED
      BY <1>1, <1>3, <1>5, <1>8, <1>10, <3>4
  <2>4. QED
    BY <1>1, <1>3, <1>5, <2>2, <2>3
<1>11. QED
  BY <1>2, <1>5, <1>7, <1>8, <1>9, <1>10

=============================================================================
