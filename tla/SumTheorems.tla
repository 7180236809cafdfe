---------------------------- MODULE SumTheorems ----------------------------
(***************************************************************************)
(* Facts about SumFunctionOnSet of the community module Functions, for the *)
(* proofs about the modules that add up latencies, scores or failures.     *)
(*                                                                         *)
(* A sum is a fold over the subsets of a finite set.  The induction it     *)
(* needs is over a set of sets, FiniteInduction, instead of a predicate.   *)
(***************************************************************************)
EXTENDS Naturals, FiniteSets, Functions, FiniteSetTheorems, WellFoundedInduction, TLAPS

\* A set of subsets of a finite set that has each subset whose own proper
\* subsets it has, has them all.
LEMMA FiniteInduction ==
    ASSUME NEW S, IsFiniteSet(S), NEW G,
           ASSUME NEW T \in SUBSET S, \A U \in SUBSET T : U # T => U \in G PROVE T \in G
    PROVE  \A T \in SUBSET S : T \in G
  <1> DEFINE B == {T \in SUBSET S : T \notin G}
  <1>1. SUFFICES ASSUME B # {} PROVE FALSE OBVIOUS
  <1>2. B \subseteq FiniteSubsetsOf(S)
    BY FS_Subset DEF FiniteSubsetsOf
  <1>3. IsWellFoundedOn(StrictSubsetOrdering(S), FiniteSubsetsOf(S))
    BY FS_StrictSubsetOrderingWellFounded
  <1>4. PICK T \in B : \A U \in B : ~(<<U, T>> \in StrictSubsetOrdering(S))
    <2> HIDE DEF B
    <2>1. QED BY <1>1, <1>2, <1>3, WFMin
  <1>5. \A U \in SUBSET T : U # T => U \in G
    BY <1>4 DEF StrictSubsetOrdering
  <1>6. QED BY <1>4, <1>5
-----------------------------------------------------------------------------
(* The fold behind a sum.                                                  *)

Chosen(s) == CHOOSE x \in s : TRUE
FoldStep(f, g, s) == IF s = {} THEN 0 ELSE f[Chosen(s)] + g[s \ {Chosen(s)}]
\* g is the table of the sums of f over the subsets of S.
IsFold(f, S, g) == g = [s \in SUBSET S |-> FoldStep(f, g, s)]

LEMMA SumIsFold ==
    ASSUME NEW f, NEW S
    PROVE  SumFunctionOnSet(f, S) = (CHOOSE g : IsFold(f, S, g))[S]
  BY DEF SumFunctionOnSet, FoldFunctionOnSet, MapThenFoldSet, IsFold, FoldStep, Chosen

LEMMA ChosenIn == \A s : s # {} => Chosen(s) \in s
  BY DEF Chosen

LEMMA FoldAt ==
    ASSUME NEW f, NEW S, NEW g, IsFold(f, S, g), NEW T \in SUBSET S
    PROVE  g[T] = FoldStep(f, g, T)
  <1>1. g = [s \in SUBSET S |-> FoldStep(f, g, s)] BY DEF IsFold
  <1>2. QED BY <1>1

\* Two tables agree on what both have.
LEMMA FoldsAgree ==
    ASSUME NEW f, NEW S, NEW R, NEW g, NEW h, IsFold(f, S, g), IsFold(f, R, h),
           NEW T, IsFiniteSet(T), T \subseteq S, T \subseteq R
    PROVE  g[T] = h[T]
  <1> DEFINE G == {U \in SUBSET T : g[U] = h[U]}
  <1>1. ASSUME NEW U \in SUBSET T, \A V \in SUBSET U : V # U => V \in G
        PROVE  U \in G
    <2>1. g[U] = FoldStep(f, g, U) /\ h[U] = FoldStep(f, h, U)
      <3>1. U \in SUBSET S /\ U \in SUBSET R OBVIOUS
      <3>2. QED BY <3>1, FoldAt
    <2>2. CASE U = {} BY <2>1, <2>2 DEF FoldStep
    <2>3. CASE U # {}
      <3>1. Chosen(U) \in U BY <2>3, ChosenIn
      <3>2. U \ {Chosen(U)} \in G BY <1>1, <3>1
      <3>3. g[U \ {Chosen(U)}] = h[U \ {Chosen(U)}] BY <3>2
      <3>4. g[U] = h[U] BY <2>1, <2>3, <3>3 DEF FoldStep
      <3>5. QED BY <3>4
    <2>4. QED BY <2>2, <2>3
  <1>2. \A U \in SUBSET T : U \in G
    <2> HIDE DEF G
    <2>1. QED BY <1>1, FiniteInduction
  <1>3. QED BY <1>2

\* A finite set has a table.
LEMMA FoldExists ==
    ASSUME NEW f, NEW S, IsFiniteSet(S)
    PROVE  \E g : IsFold(f, S, g)
  <1> DEFINE G == {T \in SUBSET S : \E g : IsFold(f, T, g)}
  <1>1. ASSUME NEW T \in SUBSET S, \A U \in SUBSET T : U # T => U \in G
        PROVE  T \in G
    <2> DEFINE t(U) == CHOOSE g : IsFold(f, U, g)
               last == IF T = {} THEN 0 ELSE f[Chosen(T)] + t(T \ {Chosen(T)})[T \ {Chosen(T)}]
               h == [s \in SUBSET T |-> IF s = T THEN last ELSE t(s)[s]]
    <2>1. \A U \in SUBSET T : U # T => IsFold(f, U, t(U))
      BY <1>1
    <2>2. IsFiniteSet(T) BY FS_Subset
    <2>3. ASSUME NEW s \in SUBSET T PROVE h[s] = FoldStep(f, h, s)
      <3>1. CASE s = {}
        <4>1. CASE s = T BY <3>1, <4>1 DEF FoldStep
        <4>2. CASE s # T
          <5>1. t(s)[s] = FoldStep(f, t(s), s) BY <2>1, <4>2, FoldAt
          <5>2. QED BY <3>1, <4>2, <5>1 DEF FoldStep
        <4>3. QED BY <4>1, <4>2
      <3>2. CASE s # {}
        <4> DEFINE r == s \ {Chosen(s)}
        <4>1. Chosen(s) \in s BY <3>2, ChosenIn
        <4>2. r \in SUBSET T /\ r # T /\ r \in SUBSET s BY <4>1
        <4>3. h[r] = t(r)[r] BY <4>2
        <4>4. CASE s = T
          BY <3>2, <4>3, <4>4 DEF FoldStep
        <4>5. CASE s # T
          <5>1. IsFold(f, s, t(s)) /\ IsFold(f, r, t(r)) BY <2>1, <4>2, <4>5
          <5>2. IsFiniteSet(r) BY <2>2, <4>2, FS_Subset
          <5>3. t(s)[r] = t(r)[r]
            <6> HIDE DEF t, r
            <6>1. r \subseteq r /\ r \subseteq s BY <4>2
            <6>2. QED BY <5>1, <5>2, <6>1, FoldsAgree
          <5>4. t(s)[s] = FoldStep(f, t(s), s)
            <6> HIDE DEF t
            <6>1. s \in SUBSET s OBVIOUS
            <6>2. QED BY <5>1, <6>1, FoldAt
          <5>5. t(s)[s] = f[Chosen(s)] + t(s)[r] BY <3>2, <5>4 DEF FoldStep
          <5>6. h[s] = t(s)[s] BY <4>5
          <5>7. QED BY <3>2, <4>3, <5>3, <5>5, <5>6 DEF FoldStep
        <4>6. QED BY <4>4, <4>5
      <3>3. QED BY <3>1, <3>2
    <2>4. IsFold(f, T, h)
      <3>1. h = [s \in SUBSET T |-> FoldStep(f, h, s)] BY <2>3
      <3>2. QED BY <3>1 DEF IsFold
    <2>5. QED BY <2>4
  <1>2. \A T \in SUBSET S : T \in G
    <2> HIDE DEF G
    <2>1. QED BY <1>1, FiniteInduction
  <1>3. QED BY <1>2
-----------------------------------------------------------------------------
(* Sums of a finite set.                                                   *)

LEMMA SumFold ==
    ASSUME NEW f, NEW S, IsFiniteSet(S)
    PROVE  \E g : /\ IsFold(f, S, g)
                  /\ \A T \in SUBSET S : SumFunctionOnSet(f, T) = g[T]
  <1>1. PICK g : IsFold(f, S, g) /\ g = (CHOOSE h : IsFold(f, S, h)) BY FoldExists
  <1>2. ASSUME NEW T \in SUBSET S PROVE SumFunctionOnSet(f, T) = g[T]
    <2>1. IsFiniteSet(T) BY FS_Subset
    <2>2. PICK h : IsFold(f, T, h) /\ h = (CHOOSE k : IsFold(f, T, k)) BY <2>1, FoldExists
    <2>3. h[T] = g[T] BY <1>1, <2>1, <2>2, FoldsAgree
    <2>4. QED BY <2>2, <2>3, SumIsFold
  <1>3. QED BY <1>1, <1>2

LEMMA SumEmpty == \A f : SumFunctionOnSet(f, {}) = 0
  <1>1. ASSUME NEW f PROVE SumFunctionOnSet(f, {}) = 0
    <2>1. PICK g : IsFold(f, {}, g) /\ SumFunctionOnSet(f, {}) = g[{}] BY SumFold, FS_EmptySet
    <2>2. g[{}] = FoldStep(f, g, {}) BY <2>1, FoldAt
    <2>3. QED BY <2>1, <2>2 DEF FoldStep
  <1>2. QED BY <1>1

\* The element the fold takes first.
LEMMA SumChosen ==
    ASSUME NEW f, NEW S, IsFiniteSet(S), S # {}
    PROVE  SumFunctionOnSet(f, S) = f[Chosen(S)] + SumFunctionOnSet(f, S \ {Chosen(S)})
  <1>1. PICK g : /\ IsFold(f, S, g)
                 /\ \A T \in SUBSET S : SumFunctionOnSet(f, T) = g[T]
    BY SumFold
  <1>2. g[S] = FoldStep(f, g, S)
    <2>1. S \in SUBSET S OBVIOUS
    <2>2. QED BY <1>1, <2>1, FoldAt
  <1>3. g[S] = f[Chosen(S)] + g[S \ {Chosen(S)}] BY <1>2 DEF FoldStep
  <1>4. S \in SUBSET S /\ S \ {Chosen(S)} \in SUBSET S OBVIOUS
  <1>5. QED BY <1>1, <1>3, <1>4

LEMMA SumType ==
    ASSUME NEW f, NEW S, IsFiniteSet(S), \A x \in S : f[x] \in Nat
    PROVE  SumFunctionOnSet(f, S) \in Nat
  <1> DEFINE G == {T \in SUBSET S : SumFunctionOnSet(f, T) \in Nat}
  <1>1. ASSUME NEW T \in SUBSET S, \A U \in SUBSET T : U # T => U \in G
        PROVE  T \in G
    <2>1. CASE T = {} BY <2>1, SumEmpty
    <2>2. CASE T # {}
      <3>1. Chosen(T) \in T BY <2>2, ChosenIn
      <3>2. T \ {Chosen(T)} \in G BY <1>1, <3>1
      <3>3. IsFiniteSet(T) BY FS_Subset
      <3>4. f[Chosen(T)] \in Nat BY <3>1
      <3>5. QED BY <2>2, <3>2, <3>3, <3>4, SumChosen
    <2>3. QED BY <2>1, <2>2
  <1>2. \A T \in SUBSET S : T \in G
    <2> HIDE DEF G
    <2>1. QED BY <1>1, FiniteInduction
  <1>3. QED BY <1>2

\* Any element may be taken first.
LEMMA SumRemove ==
    ASSUME NEW f, NEW S, IsFiniteSet(S), \A x \in S : f[x] \in Nat, NEW e \in S
    PROVE  SumFunctionOnSet(f, S) = f[e] + SumFunctionOnSet(f, S \ {e})
  <1> DEFINE G == {T \in SUBSET S : \A x \in T : SumFunctionOnSet(f, T) = f[x] + SumFunctionOnSet(f, T \ {x})}
  <1>1. ASSUME NEW T \in SUBSET S, \A U \in SUBSET T : U # T => U \in G
        PROVE  T \in G
    <2>1. SUFFICES ASSUME NEW x \in T
                   PROVE  SumFunctionOnSet(f, T) = f[x] + SumFunctionOnSet(f, T \ {x})
      OBVIOUS
    <2> DEFINE y == Chosen(T)
    <2>2. y \in T BY ChosenIn
    <2>3. IsFiniteSet(T) BY FS_Subset
    <2>4. SumFunctionOnSet(f, T) = f[y] + SumFunctionOnSet(f, T \ {y}) BY <2>3, SumChosen
    <2>5. CASE x = y BY <2>4, <2>5
    <2>6. CASE x # y
      <3>1. T \ {x} \in G /\ T \ {y} \in G BY <1>1, <2>2
      <3>2. SumFunctionOnSet(f, T \ {y}) = f[x] + SumFunctionOnSet(f, (T \ {y}) \ {x})
        BY <2>6, <3>1
      <3>3. SumFunctionOnSet(f, T \ {x}) = f[y] + SumFunctionOnSet(f, (T \ {x}) \ {y})
        BY <2>2, <2>6, <3>1
      <3>4. (T \ {x}) \ {y} = (T \ {y}) \ {x} OBVIOUS
      <3>5. SumFunctionOnSet(f, (T \ {y}) \ {x}) \in Nat
        <4> HIDE DEF y
        <4>1. IsFiniteSet((T \ {y}) \ {x}) BY <2>3, FS_Subset
        <4>2. QED BY <4>1, SumType
      <3>6. f[x] \in Nat /\ f[y] \in Nat BY <2>2
      <3> HIDE DEF y
      <3>7. QED BY <2>4, <3>2, <3>3, <3>4, <3>5, <3>6
    <2>7. QED BY <2>5, <2>6
  <1>2. \A T \in SUBSET S : T \in G
    <2> HIDE DEF G
    <2>1. QED BY <1>1, FiniteInduction
  <1>3. S \in G BY <1>2
  <1>4. QED BY <1>3

\* A sum depends on the values at its elements only.
LEMMA SumAgree ==
    ASSUME NEW f, NEW g, NEW S, IsFiniteSet(S), \A x \in S : f[x] = g[x]
    PROVE  SumFunctionOnSet(f, S) = SumFunctionOnSet(g, S)
  <1> DEFINE G == {T \in SUBSET S : SumFunctionOnSet(f, T) = SumFunctionOnSet(g, T)}
  <1>1. ASSUME NEW T \in SUBSET S, \A U \in SUBSET T : U # T => U \in G
        PROVE  T \in G
    <2>1. CASE T = {} BY <2>1, SumEmpty
    <2>2. CASE T # {}
      <3>1. Chosen(T) \in T BY <2>2, ChosenIn
      <3>2. T \ {Chosen(T)} \in G BY <1>1, <3>1
      <3>3. IsFiniteSet(T) BY FS_Subset
      <3>4. f[Chosen(T)] = g[Chosen(T)] BY <3>1
      <3>5. QED BY <2>2, <3>2, <3>3, <3>4, SumChosen
    <2>3. QED BY <2>1, <2>2
  <1>2. \A T \in SUBSET S : T \in G
    <2> HIDE DEF G
    <2>1. QED BY <1>1, FiniteInduction
  <1>3. S \in G BY <1>2
  <1>4. QED BY <1>3

\* No value above b: the sum is at most b for each element.
LEMMA SumBound ==
    ASSUME NEW f, NEW S, IsFiniteSet(S), NEW b \in Nat, \A x \in S : f[x] \in 0..b
    PROVE  SumFunctionOnSet(f, S) <= b * Cardinality(S)
  <1> DEFINE G == {T \in SUBSET S : SumFunctionOnSet(f, T) <= b * Cardinality(T)}
  <1>1. ASSUME NEW T \in SUBSET S, \A U \in SUBSET T : U # T => U \in G
        PROVE  T \in G
    <2>1. CASE T = {} BY <2>1, SumEmpty, FS_EmptySet
    <2>2. CASE T # {}
      <3> DEFINE r == T \ {Chosen(T)}
      <3>1. Chosen(T) \in T BY <2>2, ChosenIn
      <3>2. r \in G BY <1>1, <3>1
      <3>3. IsFiniteSet(T) /\ IsFiniteSet(r) BY FS_Subset
      <3>4. f[Chosen(T)] \in 0..b BY <3>1
      <3>5. SumFunctionOnSet(f, T) = f[Chosen(T)] + SumFunctionOnSet(f, r) BY <2>2, <3>3, SumChosen
      <3>6. /\ Cardinality(T) \in Nat /\ Cardinality(r) \in Nat
            /\ Cardinality(T) = Cardinality(r) + 1
        BY <3>1, <3>3, FS_CardinalityType, FS_RemoveElement
      <3>7. SumFunctionOnSet(f, r) \in Nat
        <4>1. \A x \in r : f[x] \in Nat OBVIOUS
        <4> HIDE DEF r
        <4>2. QED BY <3>3, <4>1, SumType
      <3>8. SumFunctionOnSet(f, r) <= b * Cardinality(r) BY <3>2
      <3> HIDE DEF r, G
      <3>9. b * (Cardinality(r) + 1) = b * Cardinality(r) + b BY <3>6
      <3>10. SumFunctionOnSet(f, T) <= b * Cardinality(T)
        <4>1. b * Cardinality(r) \in Nat BY <3>6
        <4>2. QED BY <3>4, <3>5, <3>6, <3>7, <3>8, <3>9, <4>1
      <3>11. QED BY <3>10 DEF G
    <2>3. QED BY <2>1, <2>2
  <1>2. \A T \in SUBSET S : T \in G
    <2> HIDE DEF G
    <2>1. QED BY <1>1, FiniteInduction
  <1>3. S \in G BY <1>2
  <1>4. QED BY <1>3

\* Of fewer elements.
LEMMA SumOfSubset ==
    ASSUME NEW f, NEW S, IsFiniteSet(S), \A x \in S : f[x] \in Nat, NEW R \in SUBSET S
    PROVE  SumFunctionOnSet(f, R) <= SumFunctionOnSet(f, S)
  <1> DEFINE G == {T \in SUBSET S : SumFunctionOnSet(f, T \cap R) <= SumFunctionOnSet(f, T)}
  <1>1. ASSUME NEW T \in SUBSET S, \A U \in SUBSET T : U # T => U \in G
        PROVE  T \in G
    <2>1. CASE T \subseteq R
      <3>1. T \cap R = T BY <2>1
      <3>2. SumFunctionOnSet(f, T) \in Nat
        <4>1. IsFiniteSet(T) BY FS_Subset
        <4>2. QED BY <4>1, SumType
      <3>3. QED BY <3>1, <3>2
    <2>2. CASE ~(T \subseteq R)
      <3>1. PICK e \in T : e \notin R BY <2>2
      <3>2. (T \ {e}) \cap R = T \cap R /\ T \ {e} \in G BY <1>1, <3>1
      <3>3. IsFiniteSet(T) /\ IsFiniteSet(T \ {e}) /\ IsFiniteSet(T \cap R) BY FS_Subset
      <3>4. SumFunctionOnSet(f, T) = f[e] + SumFunctionOnSet(f, T \ {e}) BY <3>3, SumRemove
      <3>5. SumFunctionOnSet(f, T \ {e}) \in Nat /\ SumFunctionOnSet(f, T \cap R) \in Nat
        BY <3>3, SumType
      <3>6. f[e] \in Nat OBVIOUS
      <3>7. SumFunctionOnSet(f, T \cap R) <= SumFunctionOnSet(f, T \ {e}) BY <3>2
      <3>8. QED BY <3>4, <3>5, <3>6, <3>7
    <2>3. QED BY <2>1, <2>2
  <1>2. \A T \in SUBSET S : T \in G
    <2> HIDE DEF G
    <2>1. QED BY <1>1, FiniteInduction
  <1>3. S \in G /\ S \cap R = R BY <1>2
  <1>4. QED BY <1>3

\* One more at one element.
LEMMA SumOneMore ==
    ASSUME NEW f, NEW g, NEW S, IsFiniteSet(S), NEW e \in S, \A x \in S : f[x] \in Nat,
           \A x \in S : g[x] = IF x = e THEN f[x] + 1 ELSE f[x]
    PROVE  SumFunctionOnSet(g, S) = SumFunctionOnSet(f, S) + 1
  <1>1. IsFiniteSet(S \ {e}) BY FS_Subset
  <1>2. SumFunctionOnSet(g, S \ {e}) = SumFunctionOnSet(f, S \ {e}) BY <1>1, SumAgree
  <1>3. SumFunctionOnSet(g, S) = g[e] + SumFunctionOnSet(g, S \ {e})
    <2>1. \A x \in S : g[x] \in Nat OBVIOUS
    <2>2. QED BY <2>1, SumRemove
  <1>4. SumFunctionOnSet(f, S) = f[e] + SumFunctionOnSet(f, S \ {e}) BY SumRemove
  <1>5. SumFunctionOnSet(f, S \ {e}) \in Nat BY <1>1, SumType
  <1>6. g[e] = f[e] + 1 /\ f[e] \in Nat OBVIOUS
  <1>7. QED BY <1>2, <1>3, <1>4, <1>5, <1>6
-----------------------------------------------------------------------------
(* Sums over the ages of a window.                                         *)

\* A window of span ages holds, one tick later, no more than the window of one
\* age less did: what was oldest has left it, and nothing is new.
LEMMA SumShift ==
    ASSUME NEW span \in Nat, NEW f, NEW g,
           \A a \in 0..span - 1 : f[a] \in Nat,
           \A a \in 0..span - 1 : g[a] = IF a = 0 THEN 0 ELSE f[a - 1]
    PROVE  SumFunctionOnSet(g, 0..span - 1) <= SumFunctionOnSet(f, 0..span - 2)
  <1> DEFINE S == 0..span - 1
             G == {T \in SUBSET S : SumFunctionOnSet(g, T) <= SumFunctionOnSet(f, {a \in S : a + 1 \in T})}
  <1>1. IsFiniteSet(S) BY FS_Interval
  <1>2. \A a \in S : g[a] \in Nat
    <2>1. ASSUME NEW a \in S PROVE g[a] \in Nat
      <3>1. CASE a = 0 BY <3>1
      <3>2. CASE a # 0
        <4>1. a - 1 \in S BY <3>2
        <4>2. f[a - 1] \in Nat BY <4>1
        <4>3. QED BY <3>2, <4>2
      <3>3. QED BY <3>1, <3>2
    <2>2. QED BY <2>1
  <1>3. ASSUME NEW T \in SUBSET S, \A U \in SUBSET T : U # T => U \in G
        PROVE  T \in G
    <2> DEFINE pre(U) == {a \in S : a + 1 \in U}
    <2>1. IsFiniteSet(T) /\ \A U : IsFiniteSet(pre(U)) BY <1>1, FS_Subset
    <2>2. CASE T = {}
      <3>1. pre({}) = {} OBVIOUS
      <3>2. QED BY <2>2, <3>1, SumEmpty
    <2>3. ASSUME NEW e \in T, e = 0 PROVE T \in G
      <3>1. pre(T \ {e}) = pre(T) BY <2>3
      <3>2. T \ {e} \in G BY <1>3
      <3>3. SumFunctionOnSet(g, T) = g[e] + SumFunctionOnSet(g, T \ {e})
        <4>1. \A x \in T : g[x] \in Nat BY <1>2
        <4> HIDE DEF S
        <4>2. QED BY <2>1, <4>1, SumRemove
      <3>4. g[e] = 0 BY <2>3
      <3>5. SumFunctionOnSet(g, T \ {e}) \in Nat
        <4>1. IsFiniteSet(T \ {e}) BY <2>1, FS_Subset
        <4>2. QED BY <1>2, <4>1, SumType
      <3>6. SumFunctionOnSet(g, T \ {e}) <= SumFunctionOnSet(f, pre(T)) BY <3>1, <3>2
      <3> HIDE DEF S
      <3>7. QED BY <3>3, <3>4, <3>5, <3>6
    <2>4. ASSUME NEW e \in T, e # 0 PROVE T \in G
      <3> DEFINE d == e - 1
      <3>1. d \in S /\ d + 1 = e BY <2>4
      <3>2. d \in pre(T) /\ pre(T \ {e}) = pre(T) \ {d}
        <4>1. d \in pre(T) BY <3>1
        <4>2. \A a \in S : a + 1 = e <=> a = d BY <3>1
        <4>3. QED BY <4>1, <4>2
      <3>3. T \ {e} \in G BY <1>3
      <3>4. SumFunctionOnSet(g, T) = g[e] + SumFunctionOnSet(g, T \ {e})
        <4>1. \A x \in T : g[x] \in Nat BY <1>2
        <4> HIDE DEF S
        <4>2. QED BY <2>1, <4>1, SumRemove
      <3>5. SumFunctionOnSet(f, pre(T)) = f[d] + SumFunctionOnSet(f, pre(T) \ {d})
        <4>1. \A x \in pre(T) : f[x] \in Nat OBVIOUS
        <4> HIDE DEF pre
        <4>2. QED BY <2>1, <3>2, <4>1, SumRemove
      <3>6. g[e] = f[d] /\ f[d] \in Nat BY <2>4, <3>1
      <3>7. SumFunctionOnSet(g, T \ {e}) \in Nat
        <4>1. IsFiniteSet(T \ {e}) BY <2>1, FS_Subset
        <4>2. QED BY <1>2, <4>1, SumType
      <3>8. SumFunctionOnSet(f, pre(T) \ {d}) \in Nat
        <4>1. IsFiniteSet(pre(T) \ {d}) /\ \A x \in pre(T) \ {d} : f[x] \in Nat BY <2>1, FS_Subset
        <4> HIDE DEF pre
        <4>2. QED BY <4>1, SumType
      <3>9. SumFunctionOnSet(g, T \ {e}) <= SumFunctionOnSet(f, pre(T) \ {d}) BY <3>2, <3>3
      <3> HIDE DEF S, pre, d
      <3>10. SumFunctionOnSet(g, T) <= SumFunctionOnSet(f, pre(T))
        BY <3>4, <3>5, <3>6, <3>7, <3>8, <3>9
      <3>11. QED BY <3>10 DEF pre
    <2>5. QED BY <2>2, <2>3, <2>4
  <1>4. \A T \in SUBSET S : T \in G
    <2> HIDE DEF G, S
    <2>1. QED BY <1>1, <1>3, FiniteInduction
  <1>5. S \in G BY <1>4
  <1>6. {a \in S : a + 1 \in S} = 0..span - 2 OBVIOUS
  <1>7. QED BY <1>5, <1>6
=============================================================================
