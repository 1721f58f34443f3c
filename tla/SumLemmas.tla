------------------------------ MODULE SumLemmas ------------------------------
(***************************************************************************)
(* Sums over finite sets.  SumFunctionOnSet folds a function in an order   *)
(* nobody knows; these lemmas say that the order does not matter, and what *)
(* a sum becomes when an element is added or a value changes.  They rest   *)
(* on induction over the subsets of a finite set, stated for a set of      *)
(* subsets rather than for a predicate; induction over the numbers is      *)
(* stated in the same way.                                                 *)
(***************************************************************************)
EXTENDS Integers, Functions, FiniteSetTheorems, WellFoundedInduction, TLAPS

\* A set of subsets of S that has every subset whose smaller ones it has, has S.
LEMMA SubsetInduction ==
    ASSUME NEW S, IsFiniteSet(S), NEW D,
           \A T \in SUBSET S : (\A x \in T : T \ {x} \in D) => T \in D
    PROVE  S \in D
  <1> SUFFICES ASSUME S \notin D PROVE FALSE
    OBVIOUS
  <1> DEFINE Bad == {n \in Nat : \E T \in SUBSET S : T \notin D /\ Cardinality(T) = n}
  <1>1. Cardinality(S) \in Bad
    BY FS_CardinalityType
  <1>2. PICK n \in Bad : \A m \in Bad : <<m, n>> \notin OpToRel(<, Nat)
    <2>1. Bad \subseteq Nat /\ Bad # {}
      BY <1>1
    <2> HIDE DEF Bad
    <2> QED
      BY <2>1, NatLessThanWellFounded, WFMin
  <1>3. n \in Nat /\ \A m \in Bad : ~(m < n)
    BY <1>2 DEF OpToRel
  <1>4. PICK T \in SUBSET S : T \notin D /\ Cardinality(T) = n
    BY <1>2
  <1>5. IsFiniteSet(T)
    BY FS_Subset
  <1>6. ASSUME NEW x \in T PROVE T \ {x} \in D
    <2>1. Cardinality(T \ {x}) = n - 1 /\ IsFiniteSet(T \ {x})
      BY <1>4, <1>5, FS_RemoveElement
    <2>2. Cardinality(T \ {x}) \in Nat
      BY <2>1, FS_CardinalityType
    <2>3. n - 1 \in Nat /\ n - 1 < n
      BY <1>3, <2>1, <2>2
    <2> QED
      BY <1>3, <2>1, <2>3
  <1> QED
    BY <1>4, <1>6

\* A set that has 0 and, with a number, the next one, has all of them.
LEMMA CountingUp ==
    ASSUME NEW D, 0 \in D, \A n \in Nat : n \in D => n + 1 \in D
    PROVE  \A n \in Nat : n \in D
  <1> SUFFICES ASSUME NEW k \in Nat, k \notin D PROVE FALSE
    OBVIOUS
  <1> DEFINE Bad == Nat \ D
  <1>1. PICK n \in Bad : \A m \in Bad : <<m, n>> \notin OpToRel(<, Nat)
    <2>1. Bad \subseteq Nat /\ Bad # {}
      OBVIOUS
    <2> HIDE DEF Bad
    <2> QED
      BY <2>1, NatLessThanWellFounded, WFMin
  <1>2. n \in Nat /\ \A m \in Bad : ~(m < n)
    BY <1>1 DEF OpToRel
  <1>3. n # 0 /\ n - 1 \in Nat /\ n - 1 < n /\ (n - 1) + 1 = n
    BY <1>2
  <1>4. n - 1 \in D
    BY <1>2, <1>3
  <1> QED
    BY <1>3, <1>4

-----------------------------------------------------------------------------
(* The fold of a function with + *)

\* G adds up f over the subsets of S, whatever element it takes first.
Adds(G, f, S) ==
    /\ G \in [SUBSET S -> Int]
    /\ G[{}] = 0
    /\ \A T \in SUBSET S : \A x \in T : G[T] = f[x] + G[T \ {x}]

LEMMA AddsExists ==
    ASSUME NEW S, IsFiniteSet(S), NEW f, \A x \in S : f[x] \in Int
    PROVE  \E G : Adds(G, f, S)
  <1> DEFINE D == {T \in SUBSET S : \E G : Adds(G, f, T)}
  <1>1. ASSUME NEW T \in SUBSET S, \A x \in T : T \ {x} \in D PROVE T \in D
    <2>1. CASE T = {}
      <3> DEFINE G == [U \in SUBSET T |-> 0]
      <3>1. Adds(G, f, T)
        BY <2>1 DEF Adds
      <3> QED
        BY <3>1
    <2>2. CASE T # {}
      <3>1. PICK x \in T : TRUE
        BY <2>2
      <3>2. PICK G : Adds(G, f, T \ {x})
        BY <1>1, <3>1
      <3> DEFINE H == [U \in SUBSET T |-> IF x \in U THEN f[x] + G[U \ {x}] ELSE G[U]]
      <3>3. ASSUME NEW U \in SUBSET T
            PROVE  /\ U \ {x} \in SUBSET (T \ {x}) /\ G[U \ {x}] \in Int
                   /\ x \notin U => U \ {x} = U
        BY <3>2 DEF Adds
      <3>4. H \in [SUBSET T -> Int]
        <4>1. ASSUME NEW U \in SUBSET T PROVE H[U] \in Int
          <5>1. G[U \ {x}] \in Int /\ (x \notin U => G[U] \in Int) /\ f[x] \in Int
            BY <3>3
          <5> QED
            BY <5>1
        <4> QED
          BY <4>1
      <3>5. H[{}] = 0
        BY <3>2 DEF Adds
      <3>6. ASSUME NEW U \in SUBSET T, NEW y \in U PROVE H[U] = f[y] + H[U \ {y}]
        <4>1. f[y] \in Int /\ f[x] \in Int /\ U \ {y} \in SUBSET T
          OBVIOUS
        <4>2. CASE y = x
          BY <3>3, <4>1, <4>2
        <4>3. CASE y # x /\ x \in U
          <5>1. H[U] = f[x] + G[U \ {x}] /\ H[U \ {y}] = f[x] + G[(U \ {y}) \ {x}]
            BY <4>3, <4>1
          <5>2. y \in U \ {x} /\ (U \ {x}) \ {y} = (U \ {y}) \ {x}
            BY <4>3
          <5>3. G[U \ {x}] = f[y] + G[(U \ {y}) \ {x}]
            BY <3>2, <3>3, <5>2 DEF Adds
          <5>4. G[(U \ {y}) \ {x}] \in Int
            BY <3>3, <4>1
          <5> HIDE DEF H
          <5> QED
            BY <5>1, <5>3, <5>4, <4>1
        <4>4. CASE y # x /\ x \notin U
          <5>1. U \in SUBSET (T \ {x}) /\ U \ {y} \in SUBSET (T \ {x})
            BY <4>4
          <5> QED
            BY <3>2, <4>4, <5>1 DEF Adds
        <4> QED
          BY <4>2, <4>3, <4>4
      <3>7. Adds(H, f, T)
        <4> HIDE DEF H
        <4> QED
          BY <3>4, <3>5, <3>6 DEF Adds
      <3> QED
        BY <3>7
    <2> QED
      BY <2>1, <2>2
  <1>2. S \in D
    <2> HIDE DEF D
    <2> QED
      BY <1>1, SubsetInduction
  <1> QED
    BY <1>2

\* The element that the fold takes first.
AnyOf(T) == CHOOSE x \in T : TRUE

\* h is the function of subsets by which the fold is defined.
Folds(h, f, S) ==
    h = [T \in SUBSET S |-> IF T = {} THEN 0 ELSE f[AnyOf(T)] + h[T \ {AnyOf(T)}]]

LEMMA SumUnfolds ==
    ASSUME NEW f, NEW S
    PROVE  SumFunctionOnSet(f, S) = (CHOOSE h : Folds(h, f, S))[S]
  BY DEF SumFunctionOnSet, FoldFunctionOnSet, MapThenFoldSet, AnyOf, Folds

\* It adds up f.
LEMMA SumAdds ==
    ASSUME NEW S, IsFiniteSet(S), NEW f, NEW G, Adds(G, f, S)
    PROVE  SumFunctionOnSet(f, S) = G[S]
  <1>1. ASSUME NEW T \in SUBSET S, T # {} PROVE AnyOf(T) \in T /\ T \ {AnyOf(T)} \in SUBSET S
    BY <1>1 DEF AnyOf
  <1>2. ASSUME NEW T \in SUBSET S
        PROVE  G[T] = IF T = {} THEN 0 ELSE f[AnyOf(T)] + G[T \ {AnyOf(T)}]
    BY <1>1 DEF Adds
  <1>3. Folds(G, f, S)
    BY <1>2 DEF Adds, Folds
  <1> DEFINE g == CHOOSE h : Folds(h, f, S)
  <1>4. Folds(g, f, S)
    BY <1>3
  <1>5. SumFunctionOnSet(f, S) = g[S]
    BY SumUnfolds
  <1> HIDE DEF g
  <1> DEFINE D == {T \in SUBSET S : g[T] = G[T]}
  <1>6. ASSUME NEW T \in SUBSET S, \A x \in T : T \ {x} \in D PROVE T \in D
    <2>1. g[T] = IF T = {} THEN 0 ELSE f[AnyOf(T)] + g[T \ {AnyOf(T)}]
      BY <1>4 DEF Folds
    <2> QED
      BY <1>1, <1>2, <1>6, <2>1
  <1>7. S \in D
    <2> HIDE DEF D
    <2> QED
      BY <1>6, SubsetInduction
  <1> QED
    BY <1>5, <1>7

-----------------------------------------------------------------------------
(* What the proofs use *)

LEMMA SumEmpty == ASSUME NEW f PROVE SumFunctionOnSet(f, {}) = 0
  <1>1. IsFiniteSet({})
    BY FS_EmptySet
  <1>2. PICK G : Adds(G, f, {})
    BY <1>1, AddsExists
  <1> QED
    BY <1>1, <1>2, SumAdds DEF Adds

LEMMA SumRemove ==
    ASSUME NEW S, IsFiniteSet(S), NEW f, \A y \in S : f[y] \in Int, NEW x \in S
    PROVE  /\ SumFunctionOnSet(f, S) = f[x] + SumFunctionOnSet(f, S \ {x})
           /\ SumFunctionOnSet(f, S) \in Int
           /\ SumFunctionOnSet(f, S \ {x}) \in Int
  <1>1. PICK G : Adds(G, f, S)
    BY AddsExists
  <1>2. Adds([T \in SUBSET (S \ {x}) |-> G[T]], f, S \ {x})
    BY <1>1 DEF Adds
  <1>3. IsFiniteSet(S \ {x})
    BY FS_RemoveElement
  <1>4. SumFunctionOnSet(f, S) = G[S]
    BY <1>1, SumAdds
  <1>5. SumFunctionOnSet(f, S \ {x}) = G[S \ {x}]
    <2>1. SumFunctionOnSet(f, S \ {x}) = [T \in SUBSET (S \ {x}) |-> G[T]][S \ {x}]
      BY <1>2, <1>3, SumAdds
    <2> QED
      BY <2>1
  <1> QED
    BY <1>1, <1>4, <1>5 DEF Adds

LEMMA SumInt ==
    ASSUME NEW S, IsFiniteSet(S), NEW f, \A x \in S : f[x] \in Int
    PROVE  SumFunctionOnSet(f, S) \in Int
  <1>1. CASE S = {}
    BY <1>1, SumEmpty
  <1>2. CASE S # {}
    BY <1>2, SumRemove
  <1> QED
    BY <1>1, <1>2

LEMMA SumAdd ==
    ASSUME NEW S, IsFiniteSet(S), NEW x, x \notin S, NEW f, \A y \in S \cup {x} : f[y] \in Int
    PROVE  SumFunctionOnSet(f, S \cup {x}) = f[x] + SumFunctionOnSet(f, S)
  <1>1. IsFiniteSet(S \cup {x}) /\ (S \cup {x}) \ {x} = S
    BY FS_AddElement
  <1> QED
    BY <1>1, SumRemove

\* Only the values on the set count.
LEMMA SumSame ==
    ASSUME NEW S, IsFiniteSet(S), NEW f, NEW g, \A x \in S : f[x] = g[x] /\ f[x] \in Int
    PROVE  SumFunctionOnSet(f, S) = SumFunctionOnSet(g, S)
  <1>1. PICK G : Adds(G, f, S)
    BY AddsExists
  <1>2. Adds(G, g, S)
    BY <1>1 DEF Adds
  <1> QED
    BY <1>1, <1>2, SumAdds

\* One value changes.
LEMMA SumChange ==
    ASSUME NEW S, IsFiniteSet(S), NEW f, NEW g, NEW x \in S,
           \A y \in S : f[y] \in Int /\ g[y] \in Int,
           \A y \in S \ {x} : f[y] = g[y]
    PROVE  SumFunctionOnSet(g, S) = SumFunctionOnSet(f, S) + (g[x] - f[x])
  <1>1. IsFiniteSet(S \ {x})
    BY FS_RemoveElement
  <1>2. SumFunctionOnSet(f, S \ {x}) = SumFunctionOnSet(g, S \ {x})
    BY <1>1, SumSame
  <1>3. /\ SumFunctionOnSet(f, S) = f[x] + SumFunctionOnSet(f, S \ {x})
        /\ SumFunctionOnSet(g, S) = g[x] + SumFunctionOnSet(g, S \ {x})
        /\ SumFunctionOnSet(f, S \ {x}) \in Int
    BY SumRemove
  <1> QED
    BY <1>2, <1>3

LEMMA SumZero ==
    ASSUME NEW S, IsFiniteSet(S), NEW f, \A x \in S : f[x] = 0
    PROVE  SumFunctionOnSet(f, S) = 0
  <1> DEFINE G == [T \in SUBSET S |-> 0]
  <1>1. Adds(G, f, S)
    BY DEF Adds
  <1> QED
    BY <1>1, SumAdds

-----------------------------------------------------------------------------
(* The greatest of finitely many numbers *)

LEMMA GreatestExists ==
    ASSUME NEW S, IsFiniteSet(S), S \subseteq Int, S # {}
    PROVE  \E x \in S : \A y \in S : x >= y
  <1> DEFINE D == {T \in SUBSET S : T # {} => \E x \in T : \A y \in T : x >= y}
  <1>1. ASSUME NEW T \in SUBSET S, \A x \in T : T \ {x} \in D PROVE T \in D
    <2> SUFFICES ASSUME T # {} PROVE \E x \in T : \A y \in T : x >= y
      OBVIOUS
    <2>1. PICK z \in T : TRUE
      OBVIOUS
    <2>2. CASE T \ {z} = {}
      BY <2>1, <2>2
    <2>3. CASE T \ {z} # {}
      <3>1. PICK x \in T \ {z} : \A y \in T \ {z} : x >= y
        BY <1>1, <2>1, <2>3
      <3>2. CASE x >= z
        BY <3>1, <3>2
      <3>3. CASE ~(x >= z)
        BY <2>1, <3>1, <3>3
      <3> QED
        BY <3>2, <3>3
    <2> QED
      BY <2>2, <2>3
  <1> HIDE DEF D
  <1>2. S \in D
    BY <1>1, SubsetInduction
  <1> QED
    BY <1>2 DEF D

=============================================================================
