---------------------------- MODULE TenantProofs ----------------------------
(***************************************************************************)
(* For any number of requests, clients, workers, tokens and headers, any   *)
(* queue capacity and any limits.                                          *)
(*                                                                         *)
(* Of Billing: the types, that a record is in one place, that a client     *)
(* overshoots its daily limit by at most Concurrency responses, and that   *)
(* usage is the sum of what is booked.                                     *)
(*                                                                         *)
(* Of Admission: the types, that a process which serves knows the tokens   *)
(* its file asks for, that a response is charged to its caller, and that   *)
(* the numbers of an accepted file are sane.                               *)
(*                                                                         *)
(* Usage is a fold over a set, uniqueNonEmpty and the registry are folds   *)
(* over a list.  A fold is a CHOSEN function that satisfies an equation;   *)
(* the first part shows that there is one.                                 *)
(***************************************************************************)
EXTENDS Admission, Billing, FiniteSetTheorems, SequenceTheorems, TLAPS

-----------------------------------------------------------------------------
(* Induction, and folds over finite sets.                                  *)

\* Every set of natural numbers that has an element has a least one.
LEMMA LeastElement ==
    ASSUME NEW S, S \subseteq Nat, S # {}
    PROVE  \E m \in S : \A k \in S : m <= k
  <1>1. \E m \in S : \A k \in S : ~(<<k, m>> \in OpToRel(<, Nat))
    BY NatLessThanWellFounded, WFMin
  <1>2. OpToRel(<, Nat) = {ss \in Nat \X Nat : ss[1] < ss[2]}
    BY DEF OpToRel
  <1>3. PICK m \in S : \A k \in S : ~(<<k, m>> \in {ss \in Nat \X Nat : ss[1] < ss[2]})
    BY <1>1, <1>2, Zenon
  <1>4. ASSUME NEW k \in S  PROVE  m <= k
    <2>1. k < m => <<k, m>> \in {ss \in Nat \X Nat : ss[1] < ss[2]}
      OBVIOUS
    <2>2. ~(k < m)
      BY <1>3, <2>1, Zenon
    <2> QED  BY <2>2
  <1> QED  BY <1>4

\* Induction over the natural numbers, with a set in the place of a predicate.
LEMMA NatInduct ==
    ASSUME NEW S, 0 \in S, \A n \in Nat : n \in S => n + 1 \in S
    PROVE  Nat \subseteq S
  <1> SUFFICES ASSUME ~(Nat \subseteq S)  PROVE  FALSE
    OBVIOUS
  <1> DEFINE T == {n \in Nat : n \notin S}
  <1>1. PICK m \in T : \A k \in T : m <= k
    <2>1. T \subseteq Nat /\ T # {}  OBVIOUS
    <2> HIDE DEF T
    <2> QED  BY <2>1, LeastElement
  <1>2. m # 0 /\ m - 1 \in Nat /\ m - 1 \notin T  BY <1>1
  <1> QED  BY <1>1, <1>2

\* Induction over the subsets of a finite set: P has each of them that it has all
\* the proper subsets of.
LEMMA SetInduct ==
    ASSUME NEW U, IsFiniteSet(U), NEW P,
           \A T \in SUBSET U : (\A S \in SUBSET T : S # T => S \in P) => T \in P
    PROVE  SUBSET U \subseteq P
  <1> SUFFICES ASSUME ~(SUBSET U \subseteq P)  PROVE  FALSE
    OBVIOUS
  <1> DEFINE Q == {T \in SUBSET U : T \notin P}
  <1>1. IsWellFoundedOn(StrictSubsetOrdering(U), SUBSET U)
    <2>1. IsWellFoundedOn(StrictSubsetOrdering(U), FiniteSubsetsOf(U))
      BY FS_StrictSubsetOrderingWellFounded, Zenon
    <2>2. FiniteSubsetsOf(U) = SUBSET U
      BY FS_FiniteSubsetsOfFinite, Zenon
    <2> QED  BY <2>1, <2>2, Zenon
  <1>2. PICK T \in Q : \A S \in Q : ~(<<S, T>> \in StrictSubsetOrdering(U))
    <2>1. Q \subseteq SUBSET U /\ Q # {}  OBVIOUS
    <2> HIDE DEF Q
    <2> QED  BY <1>1, <2>1, WFMin
  <1>3. \A S \in SUBSET T : S # T => S \in P
    BY <1>2 DEF StrictSubsetOrdering
  <1> QED  BY <1>2, <1>3

\* A fold over the finite set U: pick says which element comes first, and step
\* what it adds to the result of the others.
IsFold(U, V, base, pick, step) ==
    /\ IsFiniteSet(U)
    /\ base \in V
    /\ \A T \in SUBSET U : T # {} => pick[T] \in T
    /\ \A T \in SUBSET U, v \in V : step[T][v] \in V

FoldEquation(U, base, pick, step, F) ==
    \A T \in SUBSET U : F[T] = IF T = {} THEN base ELSE step[T][F[T \ {pick[T]}]]

\* The equation of a fold has a solution.
LEMMA FoldExists ==
    ASSUME NEW U, NEW V, NEW base, NEW pick, NEW step, IsFold(U, V, base, pick, step)
    PROVE  \E F \in [SUBSET U -> V] : FoldEquation(U, base, pick, step, F)
  <1> USE DEF IsFold, FoldEquation
  <1> DEFINE Eqn(F, T) == F[T] = IF T = {} THEN base ELSE step[T][F[T \ {pick[T]}]]
             N == {n \in Nat : \E F \in [SUBSET U -> V] :
                                  \A T \in SUBSET U : Cardinality(T) <= n => Eqn(F, T)}
  <1>0. \A T \in SUBSET U : IsFiniteSet(T) /\ Cardinality(T) \in Nat
    BY FS_Subset, FS_CardinalityType
  <1>1. 0 \in N
    <2> DEFINE F == [T \in SUBSET U |-> base]
    <2>1. F \in [SUBSET U -> V]  OBVIOUS
    <2>2. ASSUME NEW T \in SUBSET U, Cardinality(T) <= 0  PROVE  T = {}
      <3> HIDE DEF Eqn, N, F
      <3>1. Cardinality(T) \in Nat /\ IsFiniteSet(T)  BY <1>0, Zenon
      <3>2. Cardinality(T) = 0  BY <2>2, <3>1
      <3> QED  BY <3>1, <3>2, FS_EmptySet, Zenon
    <2> QED  BY <2>1, <2>2
  <1>2. ASSUME NEW n \in Nat, n \in N  PROVE  n + 1 \in N
    <2>1. PICK F \in [SUBSET U -> V] :
             \A T \in SUBSET U : Cardinality(T) <= n => Eqn(F, T)
      BY <1>2
    <2> DEFINE G == [T \in SUBSET U |->
                       IF T = {} THEN base ELSE step[T][F[T \ {pick[T]}]]]
    <2>2. G \in [SUBSET U -> V]
      OBVIOUS
    <2>3. ASSUME NEW T \in SUBSET U, Cardinality(T) <= n + 1  PROVE  Eqn(G, T)
      <3>1. CASE T = {}  BY <3>1
      <3>2. CASE T # {}
        <4> DEFINE S == T \ {pick[T]}
        <4>1. S \in SUBSET U /\ pick[T] \in T  BY <3>2
        <4>2. Cardinality(S) = Cardinality(T) - 1
          <5> HIDE DEF Eqn, N, IsFold, FoldEquation
          <5>1. IsFiniteSet(T)  BY <1>0, Zenon
          <5>2. ASSUME NEW x \in T  PROVE  Cardinality(T \ {x}) = Cardinality(T) - 1
            BY <5>1, FS_RemoveElement, Zenon
          <5> QED  BY <4>1, <5>2, Zenon
        <4>3. Eqn(F, S)
          <5>1. Cardinality(T) \in Nat  BY <1>0, Zenon
          <5>2. Cardinality(S) <= n  BY <4>2, <5>1, <2>3
          <5> HIDE DEF S, Eqn
          <5> QED  BY <4>1, <5>2, <2>1, Zenon
        <4>4. G[S] = F[S]  BY <4>1, <4>3
        <4> QED  BY <3>2, <4>4
      <3> QED  BY <3>1, <3>2
    <2>4. \E H \in [SUBSET U -> V] : \A T \in SUBSET U : Cardinality(T) <= n + 1 => Eqn(H, T)
      BY <2>2, <2>3
    <2>5. n + 1 \in Nat  OBVIOUS
    <2> HIDE DEF Eqn
    <2> QED  BY <2>4, <2>5, Zenon
  <1>3. Nat \subseteq N
    <2> HIDE DEF N
    <2> QED  BY <1>1, <1>2, NatInduct
  <1>4. PICK F \in [SUBSET U -> V] :
           \A T \in SUBSET U : Cardinality(T) <= Cardinality(U) => Eqn(F, T)
    BY <1>0, <1>3
  <1>5. \A T \in SUBSET U : Cardinality(T) <= Cardinality(U)
    BY FS_Subset
  <1> QED  BY <1>4, <1>5

\* Max of a set of positions is the last of them.
LEMMA MaxOf ==
    ASSUME NEW n \in Nat, NEW S, S \subseteq 1 .. n, S # {}
    PROVE  Max(S) \in S /\ \A k \in S : k <= Max(S)
  <1> DEFINE T == {n - k : k \in S}
  <1>1. PICK m \in T : \A k \in T : m <= k
    <2>1. ASSUME NEW k \in S  PROVE  n - k \in Nat
      OBVIOUS
    <2>2. T \subseteq Nat  BY <2>1
    <2>3. T # {}  OBVIOUS
    <2> HIDE DEF T
    <2> QED  BY <2>2, <2>3, LeastElement
  <1>2. PICK x \in S : m = n - x  OBVIOUS
  <1>3. ASSUME NEW k \in S  PROVE  k <= x
    <2>1. n - x <= n - k  BY <1>1, <1>2
    <2> QED  BY <2>1
  <1>4. \E y \in S : \A k \in S : y >= k  BY <1>3
  <1>5. Max(S) \in S /\ \A k \in S : Max(S) >= k  BY <1>4 DEF Max
  <1> QED  BY <1>5

\* Min of a set of positions is the first of them.
LEMMA MinOf ==
    ASSUME NEW n \in Nat, NEW S, S \subseteq 1 .. n, S # {}
    PROVE  Min(S) \in S /\ \A k \in S : Min(S) <= k
  <1>1. S \subseteq Nat  OBVIOUS
  <1>2. \E m \in S : \A k \in S : m <= k  BY <1>1, LeastElement
  <1> QED  BY <1>2 DEF Min

\* A loop over the first n entries of a list is over its last one when it was
\* over the others.
LEMMA LastIndex ==
    ASSUME NEW n \in Nat \ {0}
    PROVE  /\ 1 .. n # {} /\ Max(1 .. n) = n
           /\ (1 .. n) \ {n} = 1 .. (n - 1)
  <1>1. Max(1 .. n) \in 1 .. n /\ \A k \in 1 .. n : k <= Max(1 .. n)
    <2>1. 1 .. n \subseteq 1 .. n /\ 1 .. n # {}  OBVIOUS
    <2> QED  BY <2>1, MaxOf
  <1>2. n \in 1 .. n  OBVIOUS
  <1>3. Max(1 .. n) = n
    <2> DEFINE m == Max(1 .. n)
    <2>1. m \in 1 .. n /\ n <= m  BY <1>1, <1>2
    <2> HIDE DEF m
    <2>2. m = n  BY <2>1
    <2> QED  BY <2>2 DEF m
  <1> QED  BY <1>3

-----------------------------------------------------------------------------
(* Sums over a finite set.                                                 *)

\* What SumFunctionOnSet(f, U) stands for: a function on the subsets of U.
Adds(f, U, g) ==
    g = [T \in SUBSET U |->
            IF T = {} THEN 0
            ELSE LET x == CHOOSE x \in T : TRUE IN f[x] + g[T \ {x}]]

\* SumFunctionOnSet is defined by some function with the equation of Adds.
LEMMA SumUnfold ==
    ASSUME NEW f, NEW U
    PROVE  SumFunctionOnSet(f, U) = (CHOOSE g : Adds(f, U, g))[U]
  BY SMT DEF SumFunctionOnSet, FoldFunctionOnSet, MapThenFoldSet, Adds

\* There is a function with that equation.
LEMMA AddsExists ==
    ASSUME NEW U, IsFiniteSet(U), NEW f, \A x \in U : f[x] \in Nat
    PROVE  \E g : Adds(f, U, g) /\ g \in [SUBSET U -> Nat]
  <1> DEFINE pick == [T \in SUBSET U |-> CHOOSE x \in T : TRUE]
             step == [T \in SUBSET U |-> [v \in Nat |-> IF T = {} THEN 0 ELSE f[pick[T]] + v]]
  <1>1. \A T \in SUBSET U : T # {} => pick[T] \in T
    OBVIOUS
  <1>2. ASSUME NEW T \in SUBSET U, NEW v \in Nat  PROVE  step[T][v] \in Nat
    <2>1. CASE T = {}  BY <2>1
    <2>2. CASE T # {}  
      <3>1. f[pick[T]] \in Nat BY <1>1, <2>2
      <3> QED BY <3>1, <2>2
    <2> QED  BY <2>1, <2>2
  <1>3. IsFold(U, Nat, 0, pick, step)
    <2> HIDE DEF pick, step
    <2> QED  BY <1>1, <1>2 DEF IsFold
  <1>4. PICK g \in [SUBSET U -> Nat] : FoldEquation(U, 0, pick, step, g)
    <2> HIDE DEF pick, step
    <2> QED  BY <1>3, FoldExists
  <1>5. ASSUME NEW T \in SUBSET U
        PROVE  g[T] = IF T = {} THEN 0
                      ELSE LET x == CHOOSE x \in T : TRUE IN f[x] + g[T \ {x}]
    <2>1. g[T \ {pick[T]}] \in Nat
      OBVIOUS
    <2> QED  BY <1>4, <2>1 DEF FoldEquation
  <1>6. Adds(f, U, g)
    BY <1>5 DEF Adds
  <1> QED  BY <1>6

\* There is one: what it gives to W does not depend on the set it was made for.
LEMMA AddsUnique ==
    ASSUME NEW f, NEW U, NEW g, Adds(f, U, g), NEW W, IsFiniteSet(W), W \subseteq U,
           NEW h, Adds(f, W, h)
    PROVE  g[W] = h[W]
  <1> DEFINE P == {T \in SUBSET W : g[T] = h[T]}
  <1>1. ASSUME NEW T \in SUBSET W, \A S \in SUBSET T : S # T => S \in P
        PROVE  T \in P
    <2>1. CASE T = {}  BY <2>1 DEF Adds
    <2>2. CASE T # {}
      <3> DEFINE x == CHOOSE x \in T : TRUE
      <3>1. x \in T  BY <2>2
      <3>2. g[T \ {x}] = h[T \ {x}]  BY <1>1, <3>1
      <3>3. g[T] = f[x] + g[T \ {x}]  BY <2>2 DEF Adds
      <3>4. h[T] = f[x] + h[T \ {x}]  BY <2>2 DEF Adds
      <3> QED  BY <3>2, <3>3, <3>4
    <2> QED  BY <2>1, <2>2
  <1>2. SUBSET W \subseteq P
    <2> HIDE DEF P
    <2> QED  BY <1>1, SetInduct
  <1> QED  BY <1>2

\* The numbers f gives to a finite set can be added up.
Summable(f, U) == IsFiniteSet(U) /\ \A x \in U : f[x] \in Nat

AddsUp(f, U, g) == Adds(f, U, g) /\ g \in [SUBSET U -> Nat]

\* So any such function is the sum.
LEMMA SumIsAdds ==
    ASSUME NEW U, NEW f, Summable(f, U), NEW W, W \subseteq U, NEW g, Adds(f, U, g)
    PROVE  SumFunctionOnSet(f, W) = g[W]
  <1>1. IsFiniteSet(W)  BY FS_Subset DEF Summable
  <1>2. \E h : Adds(f, W, h)  BY <1>1, AddsExists DEF Summable
  <1> DEFINE h == CHOOSE h : Adds(f, W, h)
  <1>3. Adds(f, W, h)  BY <1>2
  <1>4. SumFunctionOnSet(f, W) = h[W]  BY SumUnfold
  <1> HIDE DEF h
  <1> QED  BY <1>1, <1>3, <1>4, AddsUnique

\* The element that is taken out of a sum need not be the one that was chosen.
LEMMA AddsAny ==
    ASSUME NEW f, NEW U, Summable(f, U), NEW g, AddsUp(f, U, g), NEW y \in U
    PROVE  g[U] = g[U \ {y}] + f[y]
  <1> DEFINE P == {T \in SUBSET U : \A z \in T : g[T] = g[T \ {z}] + f[z]}
  <1>0. IsFiniteSet(U) /\ \A x \in U : f[x] \in Nat  BY DEF Summable
  <1> USE DEF AddsUp
  <1>1. ASSUME NEW T \in SUBSET U, \A S \in SUBSET T : S # T => S \in P
        PROVE  T \in P
    <2> SUFFICES ASSUME NEW z \in T  PROVE  g[T] = g[T \ {z}] + f[z]
      OBVIOUS
    <2> DEFINE x == CHOOSE x \in T : TRUE
    <2>1. x \in T  OBVIOUS
    <2>2. g[T] = f[x] + g[T \ {x}]  BY DEF Adds
    <2>3. /\ g[T \ {x}] \in Nat /\ g[T \ {z}] \in Nat /\ f[x] \in Nat /\ f[z] \in Nat
          /\ g[(T \ {x}) \ {z}] \in Nat
      BY <1>0, <2>1
    <2> HIDE DEF x
    <2>4. CASE x = z  BY <2>2, <2>3, <2>4
    <2>5. CASE x # z
      <3>1. g[T \ {x}] = g[(T \ {x}) \ {z}] + f[z]
        <4>1. T \ {x} \in P  BY <1>1, <2>1
        <4> QED  BY <4>1, <2>5
      <3>2. g[T \ {z}] = g[(T \ {z}) \ {x}] + f[x]
        <4>1. T \ {z} \in P  BY <1>1
        <4> QED  BY <4>1, <2>1, <2>5
      <3>3. (T \ {x}) \ {z} = (T \ {z}) \ {x}  OBVIOUS
      <3> DEFINE rest == g[(T \ {x}) \ {z}]
      <3>4. g[T \ {z}] = rest + f[x]  BY <3>2, <3>3, Zenon
      <3> HIDE DEF rest, P
      <3>5. g[T \ {x}] = rest + f[z] /\ rest \in Nat  BY <2>3, <3>1, Zenon DEF rest
      <3> QED  BY <2>2, <2>3, <3>4, <3>5
    <2> QED  BY <2>4, <2>5
  <1>2. SUBSET U \subseteq P
    <2> HIDE DEF P
    <2> QED  BY <1>0, <1>1, SetInduct
  <1>3. U \in P  BY <1>2
  <1> QED  BY <1>3

\* The sum of nothing is 0, so that usage starts at it.
LEMMA SumEmpty == ASSUME NEW f PROVE SumFunctionOnSet(f, {}) = 0
  <1>1. IsFiniteSet({}) /\ Summable(f, {})  BY FS_EmptySet DEF Summable
  <1>2. PICK g : Adds(f, {}, g)
    BY <1>1, AddsExists DEF Summable
  <1>3. SumFunctionOnSet(f, {}) = g[{}]
    BY <1>1, <1>2, SumIsAdds
  <1>4. g[{}] = 0  BY <1>2 DEF Adds
  <1> QED  BY <1>3, <1>4

\* What one element adds to a sum: its number.
LEMMA SumWith ==
    ASSUME NEW f, NEW U, Summable(f, U), NEW y \in U
    PROVE  /\ SumFunctionOnSet(f, U) \in Nat
           /\ SumFunctionOnSet(f, U \ {y}) \in Nat
           /\ SumFunctionOnSet(f, U) = SumFunctionOnSet(f, U \ {y}) + f[y]
  <1>1. PICK g : AddsUp(f, U, g)
    BY AddsExists DEF Summable, AddsUp
  <1>2. SumFunctionOnSet(f, U) = g[U]
    BY <1>1, SumIsAdds DEF AddsUp
  <1>3. SumFunctionOnSet(f, U \ {y}) = g[U \ {y}]
    <2>1. U \ {y} \subseteq U  OBVIOUS
    <2> QED  BY <1>1, <2>1, SumIsAdds DEF AddsUp
  <1>4. g[U] = g[U \ {y}] + f[y]
    BY <1>1, AddsAny
  <1>5. g[U] \in Nat /\ g[U \ {y}] \in Nat /\ f[y] \in Nat
    BY <1>1 DEF Summable, AddsUp
  <1> QED  BY <1>2, <1>3, <1>4, <1>5

\* The sum only depends on the numbers of the elements of the set.
LEMMA SumAgrees ==
    ASSUME NEW f, NEW U, Summable(f, U), NEW h, \A x \in U : h[x] = f[x]
    PROVE  SumFunctionOnSet(h, U) = SumFunctionOnSet(f, U)
  <1>1. PICK g : Adds(f, U, g)
    BY AddsExists DEF Summable
  <1>2. Adds(h, U, g)
    <2>1. ASSUME NEW T \in SUBSET U, T # {}
          PROVE  LET x == CHOOSE x \in T : TRUE IN h[x] = f[x]
      BY <2>1
    <2>2. g = [T \in SUBSET U |->
            IF T = {} THEN 0
            ELSE LET x == CHOOSE x \in T : TRUE IN h[x] + g[T \ {x}]]
      BY <1>1, <2>1 DEF Adds
    <2> QED  BY <2>2 DEF Adds
  <1>3. Summable(h, U)  BY DEF Summable
  <1>4. SumFunctionOnSet(f, U) = g[U]  BY <1>1, SumIsAdds
  <1>5. SumFunctionOnSet(h, U) = g[U]  BY <1>2, <1>3, SumIsAdds
  <1> QED  BY <1>4, <1>5

-----------------------------------------------------------------------------
(* Lists.                                                                  *)

\* What an entry at the end adds to a list.
LEMMA AppendTo ==
    ASSUME NEW E, NEW s \in Seq(E), NEW e \in E
    PROVE  /\ Append(s, e) \in Seq(E)
           /\ Range(Append(s, e)) = Range(s) \cup {e}
           /\ e \notin Range(s) /\ IsInjective(s) => IsInjective(Append(s, e))
  <1>1. /\ Append(s, e) \in Seq(E)
        /\ Len(s) \in Nat
        /\ DOMAIN s = 1 .. Len(s)
        /\ DOMAIN Append(s, e) = 1 .. (Len(s) + 1)
        /\ \A i \in 1 .. Len(s) : Append(s, e)[i] = s[i]
        /\ Append(s, e)[Len(s) + 1] = e
    OBVIOUS
  <1>2. \A i \in 1 .. (Len(s) + 1) : i \in 1 .. Len(s) \/ i = Len(s) + 1
    BY <1>1
  <1>3. 1 .. Len(s) \subseteq 1 .. (Len(s) + 1) /\ Len(s) + 1 \in 1 .. (Len(s) + 1)
    BY <1>1
  <1>4. Range(Append(s, e)) = Range(s) \cup {e}
    BY <1>1, <1>2, <1>3 DEF Range
  <1>5. ASSUME e \notin Range(s), IsInjective(s)  PROVE IsInjective(Append(s, e))
    BY <1>1, <1>2, <1>3, <1>5 DEF Range, IsInjective
  <1> QED  BY <1>1, <1>4, <1>5

\* A list contains what is in its range.
LEMMA ContainsRange ==
    ASSUME NEW E, NEW s \in Seq(E), NEW e
    PROVE  Contains(s, e) <=> e \in Range(s)
  <1>1. DOMAIN s = 1 .. Len(s)  OBVIOUS
  <1> QED  BY <1>1 DEF Contains, Range

\* The tail of a list of two is its second entry.
LEMMA TailOfTwo ==
    ASSUME NEW S, NEW w \in Seq(S), Len(w) = 2
    PROVE  Tail(w) = <<w[2]>>
  <1> DEFINE a == Tail(w)
             b == <<w[2]>>
  <1>1. a \in Seq(S) /\ Len(a) = 1 /\ a[1] = w[2] /\ w[2] \in S
    OBVIOUS
  <1>2. b \in Seq(S) /\ Len(b) = 1 /\ b[1] = w[2]
    BY <1>1
  <1> HIDE DEF a, b
  <1>3. \A i \in 1 .. Len(a) : a[i] = b[i]
    BY <1>1, <1>2
  <1>4. a = b  BY <1>1, <1>2, <1>3, SeqEqual
  <1> QED  BY <1>4 DEF a, b

\* The map that a loop fills has the keys of the list, each with an entry of it.
LEMMA MapFacts ==
    ASSUME NEW E, NEW list \in Seq(E), NEW K, NEW keys \in Seq(K), Len(keys) = Len(list)
    PROVE  /\ DOMAIN MapOf(list, keys) = Range(keys)
           /\ \A k \in Range(keys) :
                 \E i \in DOMAIN list : keys[i] = k /\ MapOf(list, keys)[k] = list[i]
  <1>1. /\ Len(keys) \in Nat
        /\ DOMAIN keys = 1 .. Len(keys) /\ DOMAIN list = 1 .. Len(keys)
    OBVIOUS
  <1>2. DOMAIN MapOf(list, keys) = Range(keys)
    BY DEF MapOf
  <1>3. ASSUME NEW k \in Range(keys)
        PROVE  \E i \in DOMAIN list : keys[i] = k /\ MapOf(list, keys)[k] = list[i]
    <2> DEFINE I == {i \in 1 .. Len(keys) : keys[i] = k}
    <2>1. I # {} /\ I \subseteq 1 .. Len(keys)  BY <1>1, <1>3 DEF Range
    <2>2. Max(I) \in I
      <3> HIDE DEF I
      <3> QED  BY <1>1, <2>1, MaxOf
    <2>3. SelectLastInSeq(keys, LAMBDA x : x = k) = Max(I)
      BY <2>1 DEF SelectLastInSeq
    <2>4. MapOf(list, keys)[k] = list[SelectLastInSeq(keys, LAMBDA x : x = k)]
      BY <1>3 DEF MapOf
    <2>5. MapOf(list, keys)[k] = list[Max(I)]
      BY <2>3, <2>4
    <2> QED  BY <1>1, <2>2, <2>5
  <1> QED  BY <1>2, <1>3

-----------------------------------------------------------------------------
(* Billing.                                                                *)

\* The strengthening of OvershootBounded: what a client was booked, and the most
\* that what it has open can still add to it, stay below the bound.
Reserved ==
    \A c \in Clients : Limit[c] > 0 =>
        /\ Cardinality(Unbooked(c)) <= Concurrency
        /\ usage[c] + MaxCost * Cardinality(Unbooked(c)) < Limit[c] + MaxCost * Concurrency

IInv == TypeOK /\ RecordInOnePlace /\ Reserved

\* A gateway that has just started has no record anywhere.
LEMMA InitType == Init => TypeOK /\ RecordInOnePlace
  BY BillingAssumption DEF Init, TypeOK, RecordInOnePlace

\* The channel keeps the records apart, and a worker only books what it took.
LEMMA NextType == TypeOK /\ RecordInOnePlace /\ [Next]_vars => (TypeOK /\ RecordInOnePlace)'
  <1> SUFFICES ASSUME TypeOK, RecordInOnePlace, [Next]_vars
               PROVE  TypeOK' /\ RecordInOnePlace'
    OBVIOUS
  <1> USE BillingAssumption DEF TypeOK, RecordInOnePlace
  <1>1. ASSUME NEW r \in Requests, Admit(r) \/ Refuse(r) \/ NoRecord(r) \/ Drop(r)
        PROVE  TypeOK' /\ RecordInOnePlace'
    <2>1. CASE Admit(r)  BY <2>1 DEF Admit, clock
    <2>2. CASE Refuse(r)  BY <2>2 DEF Refuse, clock
    <2>3. CASE NoRecord(r)  BY <2>3 DEF NoRecord, clock
    <2>4. CASE Drop(r)  BY <2>4 DEF Drop, clock
    <2> QED  BY <1>1, <2>1, <2>2, <2>3, <2>4
  <1>2. ASSUME NEW r \in Requests, Spend(r)
        PROVE  TypeOK' /\ RecordInOnePlace'
    BY <1>2 DEF Spend, clock
  <1>3. ASSUME NEW r \in Requests, Push(r)
        PROVE  TypeOK' /\ RecordInOnePlace'
    <2>1. /\ queue' \in Seq(Requests)
          /\ Len(queue') = Len(queue) + 1
          /\ Len(queue) \in Nat
          /\ \A i \in 1 .. Len(queue) : queue'[i] = queue[i]
          /\ queue'[Len(queue) + 1] = r
      BY <1>3 DEF Push
    <2>2. TypeOK'  BY <1>3, <2>1 DEF Push, clock
    <2>3. /\ DOMAIN queue = 1 .. Len(queue)
          /\ \A i \in DOMAIN queue : pc[queue[i]] = "queued"
          /\ pc[r] = "spent"
      BY <1>3 DEF Push
    <2> HIDE DEF TypeOK, RecordInOnePlace
    <2>4. \A i, j \in 1 .. Len(queue) : queue[i] = queue[j] => i = j
      BY <2>3 DEF RecordInOnePlace
    <2>10. \A i \in 1 .. Len(queue) : pc[queue[i]] = "queued" /\ queue[i] # r
      BY <2>3
    <2>11. pc' = [pc EXCEPT ![r] = "queued"] /\ DOMAIN pc = Requests
      BY <1>3 DEF Push, TypeOK
    <2>12. \A i \in 1 .. Len(queue) : queue[i] \in Requests
      BY DEF TypeOK
    <2>5. \A i \in 1 .. Len(queue') : pc'[queue'[i]] = "queued"
      <3> SUFFICES ASSUME NEW i \in 1 .. Len(queue')  PROVE  pc'[queue'[i]] = "queued"
        OBVIOUS
      <3>1. CASE i \in 1 .. Len(queue)
        BY <3>1, <2>1, <2>10, <2>11, <2>12
      <3>2. CASE i = Len(queue) + 1
        BY <3>2, <2>1, <2>11
      <3> QED  BY <3>1, <3>2, <2>1
    <2>6. \A i, j \in 1 .. Len(queue') : queue'[i] = queue'[j] => i = j
      <3> SUFFICES ASSUME NEW i \in 1 .. Len(queue'), NEW j \in 1 .. Len(queue'),
                          queue'[i] = queue'[j]
                   PROVE  i = j
        OBVIOUS
      <3>1. CASE i \in 1 .. Len(queue) /\ j \in 1 .. Len(queue)
        BY <3>1, <2>1, <2>4
      <3>2. CASE i = Len(queue) + 1 /\ j \in 1 .. Len(queue)
        BY <3>2, <2>1, <2>10
      <3>3. CASE j = Len(queue) + 1 /\ i \in 1 .. Len(queue)
        BY <3>3, <2>1, <2>10
      <3> QED  BY <3>1, <3>2, <3>3, <2>1
    <2>7. DOMAIN queue' = 1 .. Len(queue')
      BY <2>1
    <2>8. \A w \in Workers : holds'[w] # None => pc'[holds'[w]] = "held"
      BY <1>3 DEF Push, TypeOK, RecordInOnePlace
    <2>9. /\ \A v, w \in Workers : holds'[v] = holds'[w] /\ holds'[w] # None => v = w
          /\ \A q \in booked' : pc'[q] = "booked"
      BY <1>3 DEF Push, TypeOK, RecordInOnePlace
    <2> QED  BY <2>2, <2>5, <2>6, <2>7, <2>8, <2>9 DEF RecordInOnePlace
  <1>4. ASSUME NEW w \in Workers, Take(w)
        PROVE  TypeOK' /\ RecordInOnePlace'
    <2> DEFINE h == Head(queue)
    <2>1. /\ Len(queue) \in Nat \ {0}
          /\ h \in Requests /\ h = queue[1]
          /\ queue' \in Seq(Requests)
          /\ Len(queue') = Len(queue) - 1
          /\ \A i \in 1 .. Len(queue') : queue'[i] = queue[i + 1]
      BY <1>4 DEF Take
    <2>2. TypeOK'  BY <1>4, <2>1 DEF Take, clock
    <2>3. /\ DOMAIN queue = 1 .. Len(queue)
          /\ \A i \in DOMAIN queue : pc[queue[i]] = "queued" /\ queue[i] \in Requests
      OBVIOUS
    <2> HIDE DEF TypeOK, RecordInOnePlace, h
    <2>4. \A i, j \in 1 .. Len(queue) : queue[i] = queue[j] => i = j
      BY <2>3, Zenon DEF RecordInOnePlace
    <2>13. pc[h] = "queued"
      BY <2>1, <2>3
    <2>14. ASSUME NEW i \in 1 .. Len(queue')
           PROVE  pc[queue'[i]] = "queued" /\ queue'[i] # h /\ queue'[i] \in Requests
      <3>1. 1 \in 1 .. Len(queue) /\ i + 1 \in 1 .. Len(queue) /\ i + 1 # 1
        BY <2>1
      <3>2. queue'[i] = queue[i + 1]
        BY <2>1
      <3> QED  BY <3>1, <3>2, <2>1, <2>3, <2>4
    <2>5. /\ pc[h] = "queued"
          /\ \A i \in 1 .. Len(queue') :
                pc[queue'[i]] = "queued" /\ queue'[i] # h /\ queue'[i] \in Requests
      BY <2>13, <2>14
    <2>6. ASSUME NEW i \in 1 .. Len(queue'), NEW j \in 1 .. Len(queue'), queue'[i] = queue'[j]
          PROVE  i = j
      <3>1. i + 1 \in 1 .. Len(queue) /\ j + 1 \in 1 .. Len(queue)
        BY <2>1
      <3>2. queue[i + 1] = queue[j + 1]
        BY <2>1, <2>6
      <3>3. i + 1 = j + 1
        BY <2>4, <3>1, <3>2, Zenon
      <3> QED  BY <3>3
    <2>7. pc' = [pc EXCEPT ![h] = "held"] /\ holds' = [holds EXCEPT ![w] = h] /\ booked' = booked
      BY <1>4 DEF Take, h
    <2>8. \A i \in 1 .. Len(queue') : pc'[queue'[i]] = "queued"
      BY <2>1, <2>5, <2>7 DEF TypeOK
    <2>9. DOMAIN queue' = 1 .. Len(queue')
      BY <2>1
    <2>15. /\ holds'[w] = h /\ pc'[h] = "held"
           /\ \A v \in Workers \ {w} : holds'[v] = holds[v]
      BY <2>1, <2>7 DEF TypeOK
    <2>16. ASSUME NEW v \in Workers \ {w}, holds[v] # None
           PROVE  holds[v] # h /\ pc'[holds[v]] = "held"
      <3>1. pc[holds[v]] = "held" /\ holds[v] \in Requests
        BY <2>16 DEF TypeOK, RecordInOnePlace
      <3>2. holds[v] # h
        BY <3>1, <2>13
      <3> QED  BY <3>1, <3>2, <2>7 DEF TypeOK
    <2>10. \A v \in Workers : holds'[v] # None => pc'[holds'[v]] = "held"
      BY <2>15, <2>16
    <2>17. \A u, v \in Workers : holds[u] = holds[v] /\ holds[u] # None => u = v
      BY DEF RecordInOnePlace
    <2>11. \A u, v \in Workers : holds'[u] = holds'[v] /\ holds'[u] # None => u = v
      BY <2>15, <2>16, <2>17
    <2>12. \A q \in booked' : pc'[q] = "booked"
      BY <2>1, <2>5, <2>7 DEF TypeOK, RecordInOnePlace
    <2> QED  BY <2>2, <2>6, <2>8, <2>9, <2>10, <2>11, <2>12 DEF RecordInOnePlace
  <1>5. ASSUME NEW w \in Workers, Book(w)
        PROVE  TypeOK' /\ RecordInOnePlace'
    BY <1>5 DEF Book, clock
  <1>6. ASSUME NEW w \in Workers, LogOnly(w)
        PROVE  TypeOK' /\ RecordInOnePlace'
    BY <1>6 DEF LogOnly, clock
  <1>7. CASE Midnight  BY <1>7 DEF Midnight
  <1>8. CASE Restart  BY <1>8 DEF Restart
  <1>9. CASE UNCHANGED vars  BY <1>9 DEF vars
  <1> QED  BY <1>1, <1>2, <1>3, <1>4, <1>5, <1>6, <1>7, <1>8, <1>9 DEF Next, Handle, Work

-----------------------------------------------------------------------------
\* What Unbooked does when a single request moves.
LEMMA UnbookedFinite ==
    ASSUME NEW c \in Clients
    PROVE  IsFiniteSet(Unbooked(c)) /\ Cardinality(Unbooked(c)) \in Nat
  <1>1. Unbooked(c) \subseteq Requests  BY DEF Unbooked
  <1>2. IsFiniteSet(Unbooked(c))  BY <1>1, FS_Subset, BillingAssumption
  <1> QED  BY <1>2, FS_CardinalityType

\* Admitting a request opens one response of its client and of no other.
LEMMA UnbookedGrows ==
    ASSUME TypeOK, NEW r \in Requests, Admit(r), NEW c \in Clients
    PROVE  Cardinality(Unbooked(c)') =
               IF c = ClientOf[r] THEN Cardinality(Unbooked(c)) + 1 ELSE Cardinality(Unbooked(c))
  <1>1. CASE c = ClientOf[r]
    <2>1. Unbooked(c)' = Unbooked(c) \cup {r} /\ r \notin Unbooked(c)
      BY <1>1 DEF Unbooked, Admit, TypeOK
    <2> QED  BY <1>1, <2>1, UnbookedFinite, FS_AddElement
  <1>2. CASE c # ClientOf[r]
    <2>1. Unbooked(c)' = Unbooked(c)  BY <1>2 DEF Unbooked, Admit, TypeOK
    <2> QED  BY <1>2, <2>1
  <1> QED  BY <1>1, <1>2

\* Whatever else happens to requests, no other one becomes unbooked.
LEMMA UnbookedShrinks ==
    ASSUME NEW c \in Clients, Unbooked(c)' \subseteq Unbooked(c)
    PROVE  /\ Cardinality(Unbooked(c)') \in Nat
           /\ Cardinality(Unbooked(c)') <= Cardinality(Unbooked(c))
  BY UnbookedFinite, FS_Subset, FS_CardinalityType

\* A booking moves at most MaxCost tokens from what is open to what is booked.
LEMMA BookKeeps ==
    ASSUME TypeOK, RecordInOnePlace, Reserved, NEW w \in Workers, Book(w)
    PROVE  Reserved'
  <1> DEFINE r == holds[w]
  <1> USE BillingAssumption
  <1>0. r \in Requests /\ pc[r] = "held" /\ cost[r] \in 0 .. MaxCost
    BY DEF TypeOK, RecordInOnePlace, Book
  <1> SUFFICES ASSUME NEW c \in Clients, Limit[c] > 0
               PROVE  /\ Cardinality(Unbooked(c)') <= Concurrency
                      /\ usage'[c] + MaxCost * Cardinality(Unbooked(c)')
                           < Limit[c] + MaxCost * Concurrency
    BY DEF Reserved, Unbooked
  <1>1. Cardinality(Unbooked(c)) \in Nat  BY UnbookedFinite
  <1>2. usage[c] \in Nat /\ Limit[c] \in Nat  BY DEF TypeOK
  <1>3. /\ Cardinality(Unbooked(c)) <= Concurrency
        /\ usage[c] + MaxCost * Cardinality(Unbooked(c)) < Limit[c] + MaxCost * Concurrency
    BY DEF Reserved
  <1>4. CASE c = ClientOf[r]
    <2>1. Unbooked(c)' = Unbooked(c) \ {r} /\ r \in Unbooked(c)
      BY <1>0, <1>4 DEF Unbooked, Book, TypeOK
    <2>2. Cardinality(Unbooked(c)') = Cardinality(Unbooked(c)) - 1
      <3>1. IsFiniteSet(Unbooked(c))  BY UnbookedFinite
      <3>2. Cardinality(Unbooked(c) \ {r}) = Cardinality(Unbooked(c)) - 1
        BY <2>1, <3>1, FS_RemoveElement
      <3> QED  BY <2>1, <3>2
    <2>3. usage'[c] = usage[c] + cost[r]
      BY <1>0, <1>4 DEF Book, TypeOK
    <2>4. MaxCost * (Cardinality(Unbooked(c)) - 1) = MaxCost * Cardinality(Unbooked(c)) - MaxCost
      BY <1>1
    <2>5. MaxCost * Cardinality(Unbooked(c)) \in Nat /\ MaxCost * Concurrency \in Nat
      BY <1>1
    <2> QED  BY <1>0, <1>1, <1>2, <1>3, <2>2, <2>3, <2>4, <2>5
  <1>5. CASE c # ClientOf[r]
    <2>1. Unbooked(c)' = Unbooked(c)  BY <1>0, <1>5 DEF Unbooked, Book, TypeOK
    <2>2. usage'[c] = usage[c]  BY <1>0, <1>5 DEF Book, TypeOK
    <2> QED  BY <1>3, <2>1, <2>2
  <1> QED  BY <1>4, <1>5

\* An admission reserves one response, on a client that is below its limit.
LEMMA AdmitKeeps ==
    ASSUME TypeOK, Reserved, NEW r \in Requests, Admit(r)
    PROVE  Reserved'
  <1> USE BillingAssumption
  <1> SUFFICES ASSUME NEW c \in Clients, Limit[c] > 0
               PROVE  /\ Cardinality(Unbooked(c)') <= Concurrency
                      /\ usage'[c] + MaxCost * Cardinality(Unbooked(c)')
                           < Limit[c] + MaxCost * Concurrency
    BY DEF Reserved, Unbooked
  <1>1. Cardinality(Unbooked(c)) \in Nat  BY UnbookedFinite
  <1>2. usage[c] \in Nat /\ Limit[c] \in Nat /\ usage'[c] = usage[c]
    BY DEF TypeOK, Admit
  <1>3. CASE c = ClientOf[r]
    <2>1. Cardinality(Unbooked(c)') = Cardinality(Unbooked(c)) + 1
      BY <1>3, UnbookedGrows
    <2>2. usage[c] < Limit[c] /\ Cardinality(Unbooked(c)) + 1 <= Concurrency
      BY <1>1, <1>2, <1>3 DEF Admit, Exceeded
    <2>3. MaxCost * (Cardinality(Unbooked(c)) + 1) <= MaxCost * Concurrency
      BY <1>1, <2>2
    <2>4. MaxCost * (Cardinality(Unbooked(c)) + 1) \in Nat /\ MaxCost * Concurrency \in Nat
      BY <1>1
    <2> QED  BY <1>1, <1>2, <2>1, <2>2, <2>3, <2>4
  <1>4. CASE c # ClientOf[r]
    <2>1. Cardinality(Unbooked(c)') = Cardinality(Unbooked(c))
      BY <1>4, UnbookedGrows
    <2> QED  BY <1>2, <2>1 DEF Reserved
  <1> QED  BY <1>3, <1>4

\* Every other step leaves the books alone or clears them, and opens nothing.
LEMMA OthersKeep ==
    ASSUME TypeOK, TypeOK', Reserved,
           \A c \in Clients : Unbooked(c)' \subseteq Unbooked(c) /\ usage'[c] <= usage[c]
    PROVE  Reserved'
  <1> USE BillingAssumption
  <1> SUFFICES ASSUME NEW c \in Clients, Limit[c] > 0
               PROVE  /\ Cardinality(Unbooked(c)') <= Concurrency
                      /\ usage'[c] + MaxCost * Cardinality(Unbooked(c)')
                           < Limit[c] + MaxCost * Concurrency
    BY DEF Reserved, Unbooked
  <1>1. Cardinality(Unbooked(c)) \in Nat  BY UnbookedFinite
  <1>2. /\ Cardinality(Unbooked(c)') \in Nat
        /\ Cardinality(Unbooked(c)') <= Cardinality(Unbooked(c))
    BY UnbookedShrinks
  <1>3. usage[c] \in Nat /\ usage'[c] \in Nat /\ Limit[c] \in Nat
    BY DEF TypeOK
  <1>4. MaxCost * Cardinality(Unbooked(c)') <= MaxCost * Cardinality(Unbooked(c))
    BY <1>1, <1>2
  <1>5. /\ MaxCost * Cardinality(Unbooked(c)') \in Nat
        /\ MaxCost * Cardinality(Unbooked(c)) \in Nat
        /\ MaxCost * Concurrency \in Nat
    BY <1>1, <1>2
  <1> QED  BY <1>1, <1>2, <1>3, <1>4, <1>5 DEF Reserved

\* With nothing booked and nothing open, every client is below its bound.
LEMMA InitReserved == Init => Reserved
  <1> SUFFICES ASSUME Init, NEW c \in Clients, Limit[c] > 0
               PROVE  /\ Cardinality(Unbooked(c)) <= Concurrency
                      /\ usage[c] + MaxCost * Cardinality(Unbooked(c))
                           < Limit[c] + MaxCost * Concurrency
    BY DEF Reserved
  <1>1. Unbooked(c) = {}  BY DEF Init, Unbooked
  <1>2. Cardinality(Unbooked(c)) = 0  BY <1>1, FS_EmptySet
  <1>3. MaxCost * 0 = 0 /\ MaxCost * Concurrency \in Nat  BY BillingAssumption
  <1>4. usage[c] = 0 /\ Limit[c] \in Nat /\ Concurrency \in Nat
    BY BillingAssumption DEF Init
  <1> DEFINE most == MaxCost * Concurrency
  <1> HIDE DEF most
  <1>5. MaxCost * Cardinality(Unbooked(c)) = 0  BY <1>2, <1>3
  <1>6. most \in Nat  BY <1>3 DEF most
  <1>7. usage[c] + MaxCost * Cardinality(Unbooked(c)) < Limit[c] + most
    BY <1>4, <1>5, <1>6
  <1> QED  BY <1>2, <1>4, <1>7 DEF most

\* Every step keeps the inductive invariant: an admission reserves, a booking
\* spends what was reserved, everything else reserves nothing.
LEMMA NextIInv == IInv /\ [Next]_vars => IInv'
  <1> SUFFICES ASSUME IInv, [Next]_vars PROVE IInv'
    OBVIOUS
  <1>0. TypeOK' /\ RecordInOnePlace'  BY NextType DEF IInv
  <1> USE DEF IInv
  <1>1. ASSUME NEW r \in Requests, Admit(r) PROVE Reserved'
    BY <1>1, AdmitKeeps
  <1>2. ASSUME NEW w \in Workers, Book(w) PROVE Reserved'
    BY <1>2, BookKeeps
  <1>3. ASSUME NEW r \in Requests, Refuse(r) \/ Spend(r) \/ NoRecord(r) \/ Push(r) \/ Drop(r)
        PROVE  Reserved'
    <2>1. \A c \in Clients : Unbooked(c)' \subseteq Unbooked(c) /\ usage'[c] <= usage[c]
      BY <1>3 DEF Refuse, Spend, NoRecord, Push, Drop, Unbooked, TypeOK
    <2> QED  BY <1>0, <2>1, OthersKeep
  <1>4. ASSUME NEW w \in Workers, Take(w) PROVE Reserved'
    <2>1. Head(queue) \in Requests /\ pc[Head(queue)] = "queued"
      BY <1>4 DEF Take, TypeOK, RecordInOnePlace
    <2>2. \A c \in Clients : Unbooked(c)' \subseteq Unbooked(c) /\ usage'[c] <= usage[c]
      BY <1>4, <2>1 DEF Take, Unbooked, TypeOK
    <2> QED  BY <1>0, <2>2, OthersKeep
  <1>5. ASSUME NEW w \in Workers, LogOnly(w) PROVE Reserved'
    <2>1. \A c \in Clients : Unbooked(c)' \subseteq Unbooked(c) /\ usage'[c] <= usage[c]
      BY <1>5 DEF LogOnly, Unbooked, TypeOK
    <2> QED  BY <1>0, <2>1, OthersKeep
  <1>6. CASE Midnight
    <2>1. \A c \in Clients : Unbooked(c)' \subseteq Unbooked(c) /\ usage'[c] <= usage[c]
      BY <1>6 DEF Midnight, Unbooked, TypeOK
    <2> QED  BY <1>0, <2>1, OthersKeep
  <1>7. CASE Restart
    <2>1. \A c \in Clients : Unbooked(c)' \subseteq Unbooked(c) /\ usage'[c] <= usage[c]
      BY <1>7 DEF Restart, Unbooked, TypeOK
    <2> QED  BY <1>0, <2>1, OthersKeep
  <1>8. CASE UNCHANGED vars
    <2>1. \A c \in Clients : Unbooked(c)' \subseteq Unbooked(c) /\ usage'[c] <= usage[c]
      BY <1>8 DEF vars, Unbooked, TypeOK
    <2> QED  BY <1>0, <2>1, OthersKeep
  <1> QED  BY <1>0, <1>1, <1>2, <1>3, <1>4, <1>5, <1>6, <1>7, <1>8 DEF Next, Handle, Work

\* The inductive invariant holds in every behaviour.
LEMMA Inductive == Spec => []IInv
  <1>1. Init => IInv  BY InitType, InitReserved DEF IInv
  <1> QED  BY <1>1, NextIInv, PTL DEF Spec

-----------------------------------------------------------------------------
\* Types; in particular the audit queue never outgrows its capacity.
THEOREM TypeCorrect == Spec => []TypeOK
  <1>1. IInv => TypeOK  BY DEF IInv
  <1> QED  BY <1>1, Inductive, PTL

\* No record is booked twice, however many workers there are.
THEOREM OnePlace == Spec => []RecordInOnePlace
  <1>1. IInv => RecordInOnePlace  BY DEF IInv
  <1> QED  BY <1>1, Inductive, PTL

\* The overshoot of a daily limit is bounded by what was open at once.
THEOREM Overshoot == Spec => []OvershootBounded
  <1>1. IInv => OvershootBounded
    <2> SUFFICES ASSUME IInv, NEW c \in Clients, Limit[c] > 0
                 PROVE  usage[c] < Limit[c] + MaxCost * Concurrency
      BY DEF OvershootBounded
    <2>1. Cardinality(Unbooked(c)) \in Nat  BY UnbookedFinite
    <2>2. MaxCost * Cardinality(Unbooked(c)) \in Nat /\ MaxCost * Concurrency \in Nat
      BY <2>1, BillingAssumption
    <2> QED  BY <2>2, BillingAssumption DEF IInv, Reserved, TypeOK
  <1> QED  BY <1>1, Inductive, PTL

-----------------------------------------------------------------------------
\* The books change by what the worker books, and only for its client.
LEMMA BookAddsUp ==
    ASSUME TypeOK, RecordInOnePlace, SnapshotsAddUp, NEW w \in Workers, Book(w)
    PROVE  SnapshotsAddUp'
  <1> DEFINE r == holds[w]
             On(c) == {q \in booked : ClientOf[q] = c}
             After(c) == {q \in booked' : ClientOf[q] = c}
  <1> USE BillingAssumption
  <1>0. /\ r \in Requests /\ pc[r] = "held" /\ r \notin booked
        /\ booked' = booked \cup {r} /\ cost' = cost
        /\ usage' = [usage EXCEPT ![ClientOf[r]] = @ + cost[r]]
    BY DEF TypeOK, RecordInOnePlace, Book
  <1> SUFFICES ASSUME NEW c \in Clients
               PROVE  usage'[c] = SumFunctionOnSet(cost, After(c))
    BY <1>0 DEF SnapshotsAddUp
  <1>1. usage[c] = SumFunctionOnSet(cost, On(c))  BY DEF SnapshotsAddUp
  <1>2. Summable(cost, After(c))
    <2>1. After(c) \in SUBSET Requests  BY <1>0 DEF TypeOK
    <2>2. IsFiniteSet(After(c))  BY <2>1, FS_Subset
    <2>3. \A q \in Requests : cost[q] \in Nat  BY DEF TypeOK
    <2> QED  BY <2>1, <2>2, <2>3 DEF Summable
  <1> HIDE DEF r
  <1>3. CASE c = ClientOf[r]
    <2>1. r \in After(c) /\ After(c) \ {r} = On(c)  BY <1>0, <1>3
    <2> HIDE DEF On, After
    <2>2. SumFunctionOnSet(cost, After(c)) = SumFunctionOnSet(cost, On(c)) + cost[r]
      BY <1>2, <2>1, SumWith
    <2>3. usage'[c] = usage[c] + cost[r]  BY <1>0, <1>3 DEF TypeOK
    <2> QED  BY <1>1, <2>2, <2>3
  <1>4. CASE c # ClientOf[r]
    <2>1. After(c) = On(c)  BY <1>0, <1>4
    <2>2. usage'[c] = usage[c]  BY <1>0, <1>4 DEF TypeOK
    <2> QED  BY <1>1, <2>1, <2>2
  <1> QED  BY <1>3, <1>4

\* What a response costs is settled before it is on the books.
LEMMA SpendAddsUp ==
    ASSUME TypeOK, RecordInOnePlace, SnapshotsAddUp, NEW r \in Requests, Spend(r)
    PROVE  SnapshotsAddUp'
  <1> DEFINE On(c) == {q \in booked : ClientOf[q] = c}
  <1>1. /\ booked' = booked /\ usage' = usage
        /\ \A q \in booked : cost'[q] = cost[q] /\ cost[q] \in Nat
    BY BillingAssumption DEF TypeOK, RecordInOnePlace, Spend
  <1> SUFFICES ASSUME NEW c \in Clients
               PROVE  usage[c] = SumFunctionOnSet(cost', On(c))
    BY <1>1 DEF SnapshotsAddUp
  <1>2. usage[c] = SumFunctionOnSet(cost, On(c))  BY DEF SnapshotsAddUp
  <1>3. Summable(cost, On(c))
    <2>1. On(c) \in SUBSET Requests  BY DEF TypeOK
    <2>2. IsFiniteSet(On(c))  BY <2>1, BillingAssumption, FS_Subset
    <2> QED  BY <1>1, <2>2 DEF Summable
  <1>4. \A q \in On(c) : cost'[q] = cost[q]  BY <1>1
  <1> HIDE DEF On
  <1> QED  BY <1>2, <1>3, <1>4, SumAgrees

\* With nothing booked, nothing is on the books.
LEMMA EmptyBooks ==
    ASSUME NEW c, booked = {}
    PROVE  SumFunctionOnSet(cost, {r \in booked : ClientOf[r] = c}) = 0
  <1>1. {r \in booked : ClientOf[r] = c} = {}  OBVIOUS
  <1> QED  BY <1>1, SumEmpty

\* No other step touches the books, short of closing them.
LEMMA NextAddsUp ==
    ASSUME TypeOK, RecordInOnePlace, SnapshotsAddUp, [Next]_vars
    PROVE  SnapshotsAddUp'
  <1>1. ASSUME UNCHANGED <<usage, cost, booked>>  PROVE  SnapshotsAddUp'
    BY <1>1 DEF SnapshotsAddUp
  <1>2. ASSUME booked' = {}, usage' = [c \in Clients |-> 0]  PROVE  SnapshotsAddUp'
    <2>1. \A c \in Clients : {r \in booked' : ClientOf[r] = c} = {} /\ usage'[c] = 0
      BY <1>2
    <2> QED  BY <2>1, SumEmpty DEF SnapshotsAddUp
  <1>3. ASSUME NEW r \in Requests, Admit(r) \/ Refuse(r) \/ NoRecord(r) \/ Push(r) \/ Drop(r)
        PROVE  SnapshotsAddUp'
    BY <1>1, <1>3 DEF Admit, Refuse, NoRecord, Push, Drop
  <1>4. ASSUME NEW r \in Requests, Spend(r)  PROVE  SnapshotsAddUp'
    BY <1>4, SpendAddsUp
  <1>5. ASSUME NEW w \in Workers, Take(w)  PROVE  SnapshotsAddUp'
    BY <1>1, <1>5 DEF Take
  <1>6. ASSUME NEW w \in Workers, Book(w)  PROVE  SnapshotsAddUp'
    BY <1>6, BookAddsUp
  <1>7. ASSUME NEW w \in Workers, LogOnly(w)  PROVE  SnapshotsAddUp'
    BY <1>1, <1>7 DEF LogOnly
  <1>8. CASE Midnight  BY <1>2, <1>8 DEF Midnight
  <1>9. CASE Restart  BY <1>2, <1>9 DEF Restart
  <1>10. CASE UNCHANGED vars  BY <1>1, <1>10 DEF vars
  <1> QED  BY <1>3, <1>4, <1>5, <1>6, <1>7, <1>8, <1>9, <1>10 DEF Next, Handle, Work

\* The snapshot of a client is the sum of what its booked responses cost, for
\* any number of clients, requests and workers.
THEOREM AddsUpAlways == Spec => []SnapshotsAddUp
  <1>1. Init => SnapshotsAddUp
    BY EmptyBooks DEF Init, SnapshotsAddUp
  <1>2. IInv /\ SnapshotsAddUp /\ [Next]_vars => SnapshotsAddUp'
    BY NextAddsUp DEF IInv
  <1> QED  BY <1>1, <1>2, Inductive, PTL DEF Spec

-----------------------------------------------------------------------------
(* Admission: strings, and the lists LoadConfig makes of them.             *)

\* A string without its blanks.
Clean == Seq(Words \ {Blank})

\* TrimSpace leaves a string alone that has no blank at either end.
LEMMA TrimClean ==
    ASSUME NEW s \in Clean
    PROVE  Trim(s) = s
  <1> DEFINE W == {i \in DOMAIN s : s[i] # Blank}
  <1>1. Len(s) \in Nat /\ DOMAIN s = 1 .. Len(s) /\ W = 1 .. Len(s) /\ s \in Seq(Words \ {Blank})
    BY DEF Clean
  <1>2. CASE Len(s) = 0
    <2>1. W = {} /\ s = <<>>  BY <1>1, <1>2
    <2> QED  BY <2>1 DEF Trim
  <1>3. CASE Len(s) # 0
    <2>1. W # {} /\ W \subseteq 1 .. Len(s) /\ 1 \in W /\ Len(s) \in W  BY <1>1, <1>3
    <2>2. Min(W) = 1
      <3> HIDE DEF W
      <3>1. Min(W) \in W /\ \A k \in W : Min(W) <= k  BY <1>1, <2>1, MinOf
      <3>2. Min(W) \in 1 .. Len(s) /\ Min(W) <= 1  BY <2>1, <3>1
      <3> QED  BY <3>2
    <2>3. Max(W) = Len(s)
      <3> HIDE DEF W
      <3>1. Max(W) \in W /\ Len(s) <= Max(W)  BY <1>1, <2>1, MaxOf
      <3> QED  BY <3>1, <2>1, <1>1
    <2>4. SubSeq(s, 1, Len(s)) = s
      BY <1>1, <1>3
    <2> QED  BY <2>1, <2>2, <2>3, <2>4 DEF Trim
  <1> QED  BY <1>2, <1>3

\* And it leaves no other string: applied twice it is TrimSpace.
LEMMA TrimType ==
    ASSUME NEW s \in Strings
    PROVE  Trim(s) \in Clean
  <1> DEFINE W == {i \in DOMAIN s : s[i] # Blank}
  <1>1. Len(s) \in Nat /\ DOMAIN s = 1 .. Len(s) /\ s \in Seq(Words)
    BY DEF Strings
  <1>2. CASE W = {}
    <2>1. Trim(s) = <<>>  BY <1>2 DEF Trim
    <2> QED  BY <2>1 DEF Clean
  <1>3. CASE W # {}
    <2>1. W \subseteq 1 .. Len(s)  BY <1>1
    <2>2. Min(W) \in W /\ Max(W) \in W /\ \A k \in W : Min(W) <= k /\ k <= Max(W)
      <3> HIDE DEF W
      <3> QED  BY <1>1, <1>3, <2>1, MinOf, MaxOf
    <2> DEFINE a == Min(W)
               b == Max(W)
    <2>3. a \in 1 .. Len(s) /\ b \in 1 .. Len(s) /\ a <= b /\ s[a] # Blank /\ s[b] # Blank
      BY <2>1, <2>2
    <2> HIDE DEF a, b
    <2>4. \A j \in a .. b : s[j] \in Words \ {Blank}
      <3> SUFFICES ASSUME NEW j \in a .. b  PROVE  s[j] \in Words /\ s[j] # Blank
        OBVIOUS
      <3>1. j \in 1 .. Len(s)  BY <2>3, <1>1
      <3>2. s[j] \in Words  BY <1>1, <3>1
      <3>3. CASE j = a \/ j = b  BY <3>2, <3>3, <2>3
      <3>4. CASE j # a /\ j # b
        <4>1. a < j /\ j < b  BY <3>4, <2>3, <1>1
        <4> QED  BY <1>1, <2>3, <3>1, <3>2, <4>1 DEF Strings
      <3> QED  BY <3>3, <3>4
    <2>5. SubSeq(s, a, b) \in Seq(Words \ {Blank})
      <3>1. SubSeq(s, a, b) = [i \in 1 .. (b - a + 1) |-> s[a + i - 1]]
        BY <1>1, <2>3
      <3>2. \A i \in 1 .. (b - a + 1) : s[a + i - 1] \in Words \ {Blank}
        BY <1>1, <2>3, <2>4
      <3> QED  BY <1>1, <2>3, <3>1, <3>2
    <2>6. Trim(s) = SubSeq(s, a, b)  BY <1>3 DEF Trim, a, b
    <2> QED  BY <2>5, <2>6 DEF Clean
  <1> QED  BY <1>2, <1>3

\* A string without blanks is a string.
LEMMA CleanStrings == Clean \subseteq Strings
  BY DEF Clean, Strings

-----------------------------------------------------------------------------
\* What the loop of uniqueNonEmpty does with entry x of its list.
UniqueStep(items, x, out) ==
    IF Empty(items[x]) \/ Contains(out, Trim(items[x])) THEN out
    ELSE Append(out, Trim(items[x]))

UniqueLoop(items, F) ==
    F = [T \in SUBSET DOMAIN items |->
            IF T = {} THEN <<>>
            ELSE LET x == Max(T) IN UniqueStep(items, x, F[T \ {x}])]

\* uniqueNonEmpty is defined by some function with the equation of its loop.
LEMMA UniqueUnfold ==
    ASSUME NEW items
    PROVE  UniqueNonEmpty(items) = (CHOOSE F : UniqueLoop(items, F))[DOMAIN items]
  BY SMT DEF UniqueNonEmpty, FoldLeft, MapThenFoldSet, UniqueLoop, UniqueStep

\* One round of the loop of uniqueNonEmpty adds an entry that is neither empty nor
\* there already.
LEMMA UniqueStepType ==
    ASSUME NEW items \in Seq(Strings), NEW x \in DOMAIN items, NEW out \in Seq(Clean)
    PROVE  /\ UniqueStep(items, x, out) \in Seq(Clean)
           /\ Range(UniqueStep(items, x, out)) =
                IF Empty(items[x]) THEN Range(out) ELSE Range(out) \cup {Trim(items[x])}
           /\ IsInjective(out) => IsInjective(UniqueStep(items, x, out))
  <1> DEFINE e == Trim(items[x])
  <1>1. e \in Clean  BY TrimType
  <1>2. CASE Empty(items[x])  BY <1>2 DEF UniqueStep
  <1>3. CASE ~Empty(items[x]) /\ e \in Range(out)
    <2>1. UniqueStep(items, x, out) = out  BY <1>3, ContainsRange DEF UniqueStep
    <2> QED  BY <1>3, <2>1
  <1>4. CASE ~Empty(items[x]) /\ e \notin Range(out)
    <2>1. UniqueStep(items, x, out) = Append(out, e)  BY <1>4, ContainsRange DEF UniqueStep
    <2> HIDE DEF e
    <2>2. /\ Append(out, e) \in Seq(Clean)
          /\ Range(Append(out, e)) = Range(out) \cup {e}
          /\ IsInjective(out) => IsInjective(Append(out, e))
      BY <1>1, <1>4, AppendTo
    <2> QED  BY <1>4, <2>1, <2>2 DEF e
  <1> QED  BY <1>2, <1>3, <1>4

\* There is a function with the equation of that loop.
LEMMA UniqueExists ==
    ASSUME NEW items \in Seq(Strings)
    PROVE  \E F : UniqueLoop(items, F)
  <1> DEFINE n == Len(items)
             U == 1 .. n
             V == Seq(Clean)
             pick == [T \in SUBSET U |-> Max(T)]
             step == [T \in SUBSET U |-> [v \in V |->
                        IF T = {} THEN v ELSE UniqueStep(items, Max(T), v)]]
  <1>1. n \in Nat /\ DOMAIN items = U  OBVIOUS
  <1>2. ASSUME NEW T \in SUBSET U, T # {}  PROVE  Max(T) \in T
    BY <1>1, <1>2, MaxOf
  <1>3. IsFold(U, V, <<>>, pick, step)
    <2>1. IsFiniteSet(U)  BY <1>1, FS_Interval
    <2>2. <<>> \in V  OBVIOUS
    <2>3. \A T \in SUBSET U : T # {} => pick[T] \in T  BY <1>2
    <2>4. ASSUME NEW T \in SUBSET U, NEW v \in V  PROVE  step[T][v] \in V
      <3>1. CASE T = {}  BY <3>1
      <3>2. CASE T # {}
        <4>1. Max(T) \in DOMAIN items  BY <1>1, <1>2, <3>2
        <4>2. UniqueStep(items, Max(T), v) \in V  BY <4>1, UniqueStepType
        <4> QED  BY <3>2, <4>2
      <3> QED  BY <3>1, <3>2
    <2> HIDE DEF U, V, pick, step
    <2> QED  BY <2>1, <2>2, <2>3, <2>4 DEF IsFold
  <1>4. PICK F \in [SUBSET U -> V] : FoldEquation(U, <<>>, pick, step, F)
    <2> HIDE DEF U, V, pick, step
    <2> QED  BY <1>3, FoldExists
  <1>5. ASSUME NEW T \in SUBSET U
        PROVE  F[T] = IF T = {} THEN <<>>
                      ELSE LET x == Max(T) IN UniqueStep(items, x, F[T \ {x}])
    <2>1. F[T \ {Max(T)}] \in V  OBVIOUS
    <2> QED  BY <1>4, <2>1 DEF FoldEquation
  <1>6. UniqueLoop(items, F)  BY <1>1, <1>5 DEF UniqueLoop
  <1> QED  BY <1>6

\* uniqueNonEmpty keeps every entry that is not empty, trimmed, and none twice.
LEMMA UniqueFacts ==
    ASSUME NEW items \in Seq(Strings)
    PROVE  /\ UniqueNonEmpty(items) \in Seq(Clean)
           /\ Range(UniqueNonEmpty(items)) =
                {Trim(s) : s \in {x \in Range(items) : ~Empty(x)}}
           /\ IsInjective(UniqueNonEmpty(items))
  <1> DEFINE n == Len(items)
             F == CHOOSE F : UniqueLoop(items, F)
             P == {k \in Nat : k <= n =>
                     /\ F[1 .. k] \in Seq(Clean)
                     /\ Range(F[1 .. k]) = {Trim(items[i]) : i \in {j \in 1 .. k : ~Empty(items[j])}}
                     /\ IsInjective(F[1 .. k])}
  <1>1. n \in Nat /\ DOMAIN items = 1 .. n  OBVIOUS
  <1>2. UniqueLoop(items, F)  BY UniqueExists
  <1>3. UniqueNonEmpty(items) = F[1 .. n]  BY <1>1, UniqueUnfold
  <1> HIDE DEF F
  <1>4. 0 \in P
    <2>1. F[1 .. 0] = <<>>  BY <1>1, <1>2 DEF UniqueLoop
    <2>2. Range(<<>>) = {} /\ IsInjective(<<>>) /\ <<>> \in Seq(Clean)
      BY DEF Range, IsInjective
    <2>3. {Trim(items[i]) : i \in {j \in 1 .. 0 : ~Empty(items[j])}} = {}
      OBVIOUS
    <2> QED  BY <2>1, <2>2, <2>3
  <1>5. ASSUME NEW k \in Nat, k \in P  PROVE  k + 1 \in P
    <2> SUFFICES ASSUME k + 1 <= n
                 PROVE  /\ F[1 .. (k + 1)] \in Seq(Clean)
                        /\ Range(F[1 .. (k + 1)]) =
                             {Trim(items[i]) : i \in {j \in 1 .. (k + 1) : ~Empty(items[j])}}
                        /\ IsInjective(F[1 .. (k + 1)])
      OBVIOUS
    <2>1. k + 1 \in Nat \ {0} /\ (k + 1) - 1 = k /\ k + 1 \in DOMAIN items
      BY <1>1
    <2>2. F[1 .. (k + 1)] = UniqueStep(items, k + 1, F[1 .. k])
      <3>1. 1 .. (k + 1) \in SUBSET DOMAIN items  BY <1>1
      <3>2. /\ 1 .. (k + 1) # {} /\ Max(1 .. (k + 1)) = k + 1
            /\ (1 .. (k + 1)) \ {k + 1} = 1 .. k
        BY <2>1, LastIndex
      <3> QED  BY <1>2, <3>1, <3>2 DEF UniqueLoop
    <2> DEFINE out == F[1 .. k]
    <2>3. /\ out \in Seq(Clean)
          /\ Range(out) = {Trim(items[i]) : i \in {j \in 1 .. k : ~Empty(items[j])}}
          /\ IsInjective(out)
      BY <1>1, <1>5
    <2>4. \A i \in 1 .. (k + 1) : i \in 1 .. k \/ i = k + 1
      OBVIOUS
    <2>5. 1 .. k \subseteq 1 .. (k + 1) /\ k + 1 \in 1 .. (k + 1)
      OBVIOUS
    <2> HIDE DEF out, P
    <2>6. /\ UniqueStep(items, k + 1, out) \in Seq(Clean)
          /\ Range(UniqueStep(items, k + 1, out)) =
               IF Empty(items[k + 1]) THEN Range(out) ELSE Range(out) \cup {Trim(items[k + 1])}
          /\ IsInjective(UniqueStep(items, k + 1, out))
      BY <2>1, <2>3, UniqueStepType
    <2>7. Range(UniqueStep(items, k + 1, out)) =
             {Trim(items[i]) : i \in {j \in 1 .. (k + 1) : ~Empty(items[j])}}
      BY <2>3, <2>4, <2>5, <2>6
    <2> QED  BY <2>2, <2>6, <2>7 DEF out
  <1>6. /\ F[1 .. n] \in Seq(Clean)
        /\ Range(F[1 .. n]) = {Trim(items[i]) : i \in {j \in 1 .. n : ~Empty(items[j])}}
        /\ IsInjective(F[1 .. n])
    <2>1. Nat \subseteq P
      <3> HIDE DEF P
      <3> QED  BY <1>4, <1>5, NatInduct
    <2>2. n \in P
      <3> HIDE DEF P
      <3> QED  BY <1>1, <2>1
    <2>3. n <= n  BY <1>1
    <2> QED  BY <2>2, <2>3
  <1>7. {Trim(items[i]) : i \in {j \in 1 .. n : ~Empty(items[j])}}
          = {Trim(s) : s \in {x \in Range(items) : ~Empty(x)}}
    BY <1>1 DEF Range
  <1> HIDE DEF P
  <1> QED  BY <1>3, <1>6, <1>7

-----------------------------------------------------------------------------
\* What the loop of rebuild does with entry x of auth.tokens.
IdentityStep(entries, x, out) ==
    IF entries[x].disabled \/ Empty(entries[x].value) THEN out
    ELSE Append(out, Structured(entries[x]))

LegacyIdentities(valid) == [i \in DOMAIN valid |-> Legacy(valid[i])]

IdentityLoop(valid, entries, F) ==
    F = [T \in SUBSET DOMAIN entries |->
            IF T = {} THEN LegacyIdentities(valid)
            ELSE LET x == Max(T) IN IdentityStep(entries, x, F[T \ {x}])]

\* The list of rebuild is defined by some function with the equation of its loop.
LEMMA IdentitiesUnfold ==
    ASSUME NEW cfg
    PROVE  Identities(cfg) =
             (CHOOSE F : IdentityLoop(cfg.valid, cfg.tokens, F))[DOMAIN cfg.tokens]
  BY SMT DEF Identities, FoldLeft, MapThenFoldSet, IdentityLoop, IdentityStep, LegacyIdentities

\* What the two constructors of identities make.
LEMMA IdentityTypes ==
    /\ \A s \in Clean : Legacy(s) \in Identity
    /\ \A e \in TokenEntry : Structured(e) \in Identity
  BY TrimType, CleanStrings DEF Legacy, Structured, Identity, TokenEntry

\* One round of the loop of rebuild adds the identity of an enabled entry.
LEMMA IdentityStepType ==
    ASSUME NEW entries \in Seq(TokenEntry), NEW x \in DOMAIN entries, NEW out \in Seq(Identity)
    PROVE  /\ IdentityStep(entries, x, out) \in Seq(Identity)
           /\ Range(IdentityStep(entries, x, out)) =
                IF entries[x].disabled \/ Empty(entries[x].value) THEN Range(out)
                ELSE Range(out) \cup {Structured(entries[x])}
  <1> DEFINE e == Structured(entries[x])
  <1>1. entries[x] \in TokenEntry  OBVIOUS
  <1>2. e \in Identity  BY <1>1, IdentityTypes
  <1>3. CASE entries[x].disabled \/ Empty(entries[x].value)
    <2>1. IdentityStep(entries, x, out) = out  BY <1>3 DEF IdentityStep
    <2> QED  BY <1>3, <2>1
  <1>4. CASE ~(entries[x].disabled \/ Empty(entries[x].value))
    <2>1. IdentityStep(entries, x, out) = Append(out, e)  BY <1>4 DEF IdentityStep
    <2> HIDE DEF e
    <2>2. Append(out, e) \in Seq(Identity) /\ Range(Append(out, e)) = Range(out) \cup {e}
      BY <1>2, AppendTo
    <2> QED  BY <1>4, <2>1, <2>2 DEF e
  <1> QED  BY <1>3, <1>4

\* The part of the list that comes from auth.valid_tokens.
LEMMA LegacyType ==
    ASSUME NEW valid \in Seq(Clean)
    PROVE  /\ LegacyIdentities(valid) \in Seq(Identity)
           /\ Range(LegacyIdentities(valid)) = {Legacy(s) : s \in Range(valid)}
  <1>1. DOMAIN valid = 1 .. Len(valid) /\ Len(valid) \in Nat
    OBVIOUS
  <1>2. \A i \in DOMAIN valid : Legacy(valid[i]) \in Identity
    BY IdentityTypes
  <1>3. LegacyIdentities(valid) \in Seq(Identity)
    BY <1>1, <1>2, IsASeq DEF LegacyIdentities
  <1> QED  BY <1>3 DEF LegacyIdentities, Range

\* There is a function with the equation of the loop of rebuild.
LEMMA IdentitiesExist ==
    ASSUME NEW valid \in Seq(Clean), NEW entries \in Seq(TokenEntry)
    PROVE  \E F : IdentityLoop(valid, entries, F)
  <1> DEFINE n == Len(entries)
             U == 1 .. n
             V == Seq(Identity)
             base == LegacyIdentities(valid)
             pick == [T \in SUBSET U |-> Max(T)]
             step == [T \in SUBSET U |-> [v \in V |->
                        IF T = {} THEN v ELSE IdentityStep(entries, Max(T), v)]]
  <1>1. n \in Nat /\ DOMAIN entries = U  OBVIOUS
  <1>2. ASSUME NEW T \in SUBSET U, T # {}  PROVE  Max(T) \in T
    BY <1>1, <1>2, MaxOf
  <1>3. IsFold(U, V, base, pick, step)
    <2>1. IsFiniteSet(U)  BY <1>1, FS_Interval
    <2>2. base \in V  BY LegacyType
    <2>3. \A T \in SUBSET U : T # {} => pick[T] \in T  BY <1>2
    <2>4. ASSUME NEW T \in SUBSET U, NEW v \in V  PROVE  step[T][v] \in V
      <3>1. CASE T = {}  BY <3>1
      <3>2. CASE T # {}
        <4>1. Max(T) \in DOMAIN entries  BY <1>1, <1>2, <3>2
        <4>2. IdentityStep(entries, Max(T), v) \in V  BY <4>1, IdentityStepType
        <4> QED  BY <3>2, <4>2
      <3> QED  BY <3>1, <3>2
    <2> HIDE DEF U, V, base, pick, step
    <2> QED  BY <2>1, <2>2, <2>3, <2>4 DEF IsFold
  <1>4. PICK F \in [SUBSET U -> V] : FoldEquation(U, base, pick, step, F)
    <2> HIDE DEF U, V, base, pick, step
    <2> QED  BY <1>3, FoldExists
  <1>5. ASSUME NEW T \in SUBSET U
        PROVE  F[T] = IF T = {} THEN base
                      ELSE LET x == Max(T) IN IdentityStep(entries, x, F[T \ {x}])
    <2>1. F[T \ {Max(T)}] \in V  OBVIOUS
    <2> QED  BY <1>4, <2>1 DEF FoldEquation
  <1>6. IdentityLoop(valid, entries, F)  BY <1>1, <1>5 DEF IdentityLoop
  <1> QED  BY <1>6

\* Every token of the list and every enabled entry with a token gets an identity.
LEMMA IdentityFacts ==
    ASSUME NEW cfg, cfg.valid \in Seq(Clean), cfg.tokens \in Seq(TokenEntry)
    PROVE  /\ Identities(cfg) \in Seq(Identity)
           /\ Range(Identities(cfg)) =
                {Legacy(s) : s \in Range(cfg.valid)}
                \cup {Structured(t) : t \in {x \in Range(cfg.tokens) :
                                               ~(x.disabled \/ Empty(x.value))}}
  <1> DEFINE entries == cfg.tokens
             n == Len(entries)
             base == LegacyIdentities(cfg.valid)
             F == CHOOSE F : IdentityLoop(cfg.valid, cfg.tokens, F)
             Kept(k) == {j \in 1 .. k : ~(entries[j].disabled \/ Empty(entries[j].value))}
             P == {k \in Nat : k <= n =>
                     /\ F[1 .. k] \in Seq(Identity)
                     /\ Range(F[1 .. k]) = Range(base) \cup {Structured(entries[i]) : i \in Kept(k)}}
  <1>1. n \in Nat /\ DOMAIN entries = 1 .. n  OBVIOUS
  <1>2. IdentityLoop(cfg.valid, entries, F)  BY IdentitiesExist
  <1>3. Identities(cfg) = F[1 .. n]  BY <1>1, IdentitiesUnfold
  <1> HIDE DEF F
  <1>4. 0 \in P
    <2>1. F[1 .. 0] = base  BY <1>1, <1>2 DEF IdentityLoop
    <2>2. base \in Seq(Identity)  BY LegacyType
    <2>3. {Structured(entries[i]) : i \in Kept(0)} = {}
      OBVIOUS
    <2> HIDE DEF base, Kept
    <2> QED  BY <2>1, <2>2, <2>3
  <1>5. ASSUME NEW k \in Nat, k \in P  PROVE  k + 1 \in P
    <2> SUFFICES ASSUME k + 1 <= n
                 PROVE  /\ F[1 .. (k + 1)] \in Seq(Identity)
                        /\ Range(F[1 .. (k + 1)]) =
                             Range(base) \cup {Structured(entries[i]) : i \in Kept(k + 1)}
      OBVIOUS
    <2>1. k + 1 \in Nat \ {0} /\ (k + 1) - 1 = k /\ k + 1 \in DOMAIN entries
      BY <1>1
    <2>2. F[1 .. (k + 1)] = IdentityStep(entries, k + 1, F[1 .. k])
      <3>1. 1 .. (k + 1) \in SUBSET DOMAIN entries  BY <1>1
      <3>2. /\ 1 .. (k + 1) # {} /\ Max(1 .. (k + 1)) = k + 1
            /\ (1 .. (k + 1)) \ {k + 1} = 1 .. k
        BY <2>1, LastIndex
      <3> QED  BY <1>2, <3>1, <3>2 DEF IdentityLoop
    <2> DEFINE out == F[1 .. k]
    <2> HIDE DEF base
    <2>3. /\ out \in Seq(Identity)
          /\ Range(out) = Range(base) \cup {Structured(entries[i]) : i \in Kept(k)}
      BY <1>1, <1>5
    <2>4. Kept(k + 1) = IF entries[k + 1].disabled \/ Empty(entries[k + 1].value) THEN Kept(k)
                        ELSE Kept(k) \cup {k + 1}
      OBVIOUS
    <2> HIDE DEF out, P, entries, Kept
    <2>5. /\ IdentityStep(entries, k + 1, out) \in Seq(Identity)
          /\ Range(IdentityStep(entries, k + 1, out)) =
               IF entries[k + 1].disabled \/ Empty(entries[k + 1].value) THEN Range(out)
               ELSE Range(out) \cup {Structured(entries[k + 1])}
      <3>1. entries \in Seq(TokenEntry)  BY DEF entries
      <3> QED  BY <2>1, <2>3, <3>1, IdentityStepType
    <2>6. Range(IdentityStep(entries, k + 1, out)) =
             Range(base) \cup {Structured(entries[i]) : i \in Kept(k + 1)}
      BY <2>3, <2>4, <2>5
    <2> QED  BY <2>2, <2>5, <2>6 DEF out
  <1>6. /\ F[1 .. n] \in Seq(Identity)
        /\ Range(F[1 .. n]) = Range(base) \cup {Structured(entries[i]) : i \in Kept(n)}
    <2>1. Nat \subseteq P
      <3> HIDE DEF P
      <3> QED  BY <1>4, <1>5, NatInduct
    <2>2. n \in P
      <3> HIDE DEF P
      <3> QED  BY <1>1, <2>1
    <2>3. n <= n  BY <1>1
    <2> QED  BY <2>2, <2>3
  <1>7. {Structured(entries[i]) : i \in Kept(n)}
          = {Structured(t) : t \in {x \in Range(cfg.tokens) : ~(x.disabled \/ Empty(x.value))}}
    BY <1>1 DEF Range
  <1>8. Range(base) = {Legacy(s) : s \in Range(cfg.valid)}
    BY LegacyType
  <1> HIDE DEF P, base, Kept
  <1> QED  BY <1>3, <1>6, <1>7, <1>8

-----------------------------------------------------------------------------
\* The steps of LoadConfig do not lose sight of the token list ...
LEMMA LoadedValid ==
    ASSUME NEW f \in File, ~LoadRefused(f)
    PROVE  /\ Loaded(f).valid \in Seq(Clean)
           /\ Range(Loaded(f).valid) =
                {Trim(s) : s \in {x \in Range(f.valid) : ~Empty(x)}}
                \cup (IF f.validEnv = Unnamed THEN {}
                      ELSE {Trim(s) : s \in {x \in Range(f.validEnv) : ~Empty(x)}})
  <1> DEFINE given == IF f.validEnv = Unnamed THEN f.valid ELSE f.valid \o f.validEnv
             once == UniqueNonEmpty(given)
  <1>1. f.valid \in Seq(Strings) /\ f.validEnv \in Seq(Strings) \cup {Unnamed, Unset}
    BY DEF File
  <1>2. f.validEnv # Unnamed => f.validEnv \in Seq(Strings)
    BY <1>1 DEF LoadRefused, ValidTokensMissing
  <1>3. given \in Seq(Strings)  BY <1>1, <1>2
  <1>4. Range(given) = Range(f.valid) \cup (IF f.validEnv = Unnamed THEN {} ELSE Range(f.validEnv))
    <2>1. CASE f.validEnv = Unnamed  BY <2>1
    <2>2. CASE f.validEnv # Unnamed
      BY <1>1, <1>2, <2>2, RangeConcatenation
    <2> QED  BY <2>1, <2>2
  <1>5. Loaded(f).valid = UniqueNonEmpty(once)
    BY DEF File, Loaded, ApplyDefaults, NormalizeConfig, ResolveStructuredTokens, ResolveAuthTokens
  <1> HIDE DEF given
  <1>6. once \in Seq(Clean) /\ Range(once) = {Trim(s) : s \in {x \in Range(given) : ~Empty(x)}}
    BY <1>3, UniqueFacts
  <1> HIDE DEF once
  <1>7. once \in Seq(Strings)  BY <1>6, CleanStrings
  <1>8. /\ UniqueNonEmpty(once) \in Seq(Clean)
        /\ Range(UniqueNonEmpty(once)) = {Trim(s) : s \in {x \in Range(once) : ~Empty(x)}}
    BY <1>7, UniqueFacts
  <1>9. {Trim(s) : s \in {x \in Range(once) : ~Empty(x)}} = Range(once)
    <2>1. ASSUME NEW x \in Range(given), ~Empty(x)
          PROVE  Trim(Trim(x)) = Trim(x) /\ ~Empty(Trim(x))
      <3>1. x \in Strings  BY <1>3 DEF Range
      <3>2. Trim(Trim(x)) = Trim(x)  BY <3>1, TrimType, TrimClean
      <3> QED  BY <2>1, <3>2 DEF Empty
    <2> QED  BY <1>6, <2>1
  <1> QED  BY <1>4, <1>5, <1>6, <1>8, <1>9

\* What the updates of resolveStructuredTokens and normalizeConfig make of an entry.
LEMMA EntryExcept ==
    ASSUME NEW e, NEW x,
           e = [name |-> e.name, env |-> e.env, value |-> e.value,
                disabled |-> e.disabled, limit |-> e.limit]
    PROVE  /\ [e EXCEPT !.value = x] =
                [name |-> e.name, env |-> e.env, value |-> x,
                 disabled |-> e.disabled, limit |-> e.limit]
           /\ [e EXCEPT !.name = Trim(@), !.value = Trim(@)] =
                [name |-> Trim(e.name), env |-> e.env, value |-> Trim(e.value),
                 disabled |-> e.disabled, limit |-> e.limit]
  <1> DEFINE g == [e EXCEPT !.name = Trim(e.name)]
  <1>1. g = [name |-> Trim(e.name), env |-> e.env, value |-> e.value,
             disabled |-> e.disabled, limit |-> e.limit]
    OBVIOUS
  <1>2. [e EXCEPT !.name = Trim(@), !.value = Trim(@)] = [g EXCEPT !.value = Trim(e.value)]
    OBVIOUS
  <1> HIDE DEF g
  <1>3. [g EXCEPT !.value = Trim(e.value)] =
            [name |-> Trim(e.name), env |-> e.env, value |-> Trim(e.value),
             disabled |-> e.disabled, limit |-> e.limit]
    BY <1>1
  <1>4. [e EXCEPT !.value = x] =
            [name |-> e.name, env |-> e.env, value |-> x,
             disabled |-> e.disabled, limit |-> e.limit]
    OBVIOUS
  <1> QED  BY <1>2, <1>3, <1>4

\* The fields of a file, and what each step of LoadConfig makes of them.
Fields == {"valid", "validEnv", "tokens", "providers", "num", "wellFormed"}

NormalTokens(w) == [i \in DOMAIN w |-> NormalToken(w[i])]

NormalProviders(w) == [i \in DOMAIN w |-> NormalProvider(w[i])]

DefaultProviders(w) == [i \in DOMAIN w |-> DefaultProvider(w[i])]

\* What normalizeConfig makes of each field ...
LEMMA NormalizedFields ==
    ASSUME NEW h, DOMAIN h = Fields
    PROVE  /\ DOMAIN NormalizeConfig(h) = Fields
           /\ NormalizeConfig(h).tokens = NormalTokens(h.tokens)
           /\ NormalizeConfig(h).providers = NormalProviders(h.providers)
           /\ NormalizeConfig(h).num = h.num
  <1> DEFINE k == NormalizeConfig(h)
             x == UniqueNonEmpty(h.valid)
             v == NormalTokens(h.tokens)
             w == NormalProviders(h.providers)
             k1 == [h EXCEPT !.valid = x]
             k2 == [k1 EXCEPT !.tokens = v]
             k3 == [k2 EXCEPT !.providers = w]
  <1>1. k = [h EXCEPT !.valid = x, !.tokens = v, !.providers = w]
    BY DEF NormalizeConfig, NormalTokens, NormalProviders
  <1> HIDE DEF k, x, v, w
  <1>2. k = k3  BY <1>1
  <1>3. DOMAIN k1 = Fields /\ k1.tokens = h.tokens /\ k1.providers = h.providers /\ k1.num = h.num
    BY DEF Fields
  <1> HIDE DEF k1
  <1>4. DOMAIN k2 = Fields /\ k2.tokens = v /\ k2.providers = h.providers /\ k2.num = h.num
    BY <1>3 DEF Fields
  <1> HIDE DEF k2
  <1>5. DOMAIN k3 = Fields /\ k3.tokens = v /\ k3.providers = w /\ k3.num = h.num
    BY <1>4 DEF Fields
  <1> HIDE DEF k3
  <1> QED  BY <1>2, <1>5 DEF k, v, w

\* ... and what the defaults make of it.
LEMMA DefaultedFields ==
    ASSUME NEW h, DOMAIN h = Fields
    PROVE  /\ ApplyDefaults(h).tokens = h.tokens
           /\ ApplyDefaults(h).providers = DefaultProviders(h.providers)
           /\ ApplyDefaults(h).num = DefaultNumbers(h.num)
  <1> DEFINE k == ApplyDefaults(h)
             v == DefaultNumbers(h.num)
             w == DefaultProviders(h.providers)
             k1 == [h EXCEPT !.num = v]
             k2 == [k1 EXCEPT !.providers = w]
  <1>1. k = [h EXCEPT !.num = v, !.providers = w]
    BY DEF ApplyDefaults, DefaultProviders
  <1> HIDE DEF k, v, w
  <1>2. k = k2  BY <1>1
  <1>3. DOMAIN k1 = Fields /\ k1.tokens = h.tokens /\ k1.providers = h.providers /\ k1.num = v
    BY DEF Fields
  <1> HIDE DEF k1
  <1>4. k2.tokens = h.tokens /\ k2.providers = w /\ k2.num = v
    BY <1>3 DEF Fields
  <1> HIDE DEF k2
  <1> QED  BY <1>2, <1>4 DEF k, v, w

\* What the environment gives the entries that are not disabled.
ResolvedTokens(w) == [i \in DOMAIN w |-> ResolvedToken(w[i])]

\* What LoadConfig makes of the fields of a file.
LEMMA LoadedFields ==
    ASSUME NEW f \in File
    PROVE  /\ Loaded(f).tokens = NormalTokens(ResolvedTokens(f.tokens))
           /\ Loaded(f).providers = DefaultProviders(NormalProviders(f.providers))
           /\ Loaded(f).num = DefaultNumbers(f.num)
  <1> DEFINE g == ResolveAuthTokens(f)
             h == ResolveStructuredTokens(g)
             k == NormalizeConfig(h)
             t == f.tokens
             p == f.providers
             n == f.num
  <1>1. DOMAIN f = Fields
    BY DEF File, Fields
  <1>2. g.tokens = t /\ g.providers = p /\ g.num = n /\ DOMAIN g = Fields
    BY <1>1 DEF ResolveAuthTokens, Fields
  <1> HIDE DEF g, t, p, n
  <1>3. h.tokens = ResolvedTokens(g.tokens) /\ h.providers = p /\ h.num = n /\ DOMAIN h = Fields
    BY <1>2 DEF ResolveStructuredTokens, ResolvedTokens, Fields
  <1> HIDE DEF h
  <1>4. /\ k.tokens = NormalTokens(h.tokens) /\ k.providers = NormalProviders(p)
        /\ k.num = n /\ DOMAIN k = Fields
    BY <1>3, NormalizedFields
  <1> HIDE DEF k
  <1>5. /\ ApplyDefaults(k).tokens = NormalTokens(h.tokens)
        /\ ApplyDefaults(k).providers = DefaultProviders(k.providers)
        /\ ApplyDefaults(k).num = DefaultNumbers(n)
    BY <1>4, DefaultedFields
  <1>6. Loaded(f) = ApplyDefaults(k)
    BY DEF Loaded, g, h, k
  <1> QED  BY <1>2, <1>3, <1>4, <1>5, <1>6 DEF t, p, n

\* ... nor of its entries: each stays at its place, with the name and the token of
\* its variable trimmed.
LEMMA LoadedTokens ==
    ASSUME NEW f \in File, ~LoadRefused(f)
    PROVE  /\ Loaded(f).tokens \in Seq(TokenEntry)
           /\ DOMAIN Loaded(f).tokens = DOMAIN f.tokens
           /\ \A i \in DOMAIN f.tokens :
                 /\ f.tokens[i] \in TokenEntry
                 /\ Loaded(f).tokens[i].name = Trim(f.tokens[i].name)
                 /\ Loaded(f).tokens[i].disabled = f.tokens[i].disabled
                 /\ Loaded(f).tokens[i].limit = f.tokens[i].limit
                 /\ ~f.tokens[i].disabled =>
                       /\ f.tokens[i].env \in Strings
                       /\ ~Empty(f.tokens[i].env)
                       /\ Loaded(f).tokens[i].value = Trim(f.tokens[i].env)
  <1> DEFINE t == f.tokens
             u == ResolvedTokens(t)
             v == NormalTokens(u)
  <1>1. t \in Seq(TokenEntry) /\ DOMAIN t = 1 .. Len(t) /\ Len(t) \in Nat
    BY DEF File
  <1>2. Loaded(f).tokens = v
    BY LoadedFields
  <1> HIDE DEF t
  <1>3. \A i \in DOMAIN t : ~StructuredTokenRefused(t[i])
    BY DEF LoadRefused, t
  <1>4. ASSUME NEW i \in DOMAIN t
        PROVE  /\ t[i] \in TokenEntry
               /\ v[i] \in TokenEntry
               /\ v[i].name = Trim(t[i].name)
               /\ v[i].disabled = t[i].disabled
               /\ v[i].limit = t[i].limit
               /\ ~t[i].disabled =>
                     /\ t[i].env \in Strings
                     /\ ~Empty(t[i].env)
                     /\ v[i].value = Trim(t[i].env)
    <2>1. t[i] \in TokenEntry  BY <1>1
    <2>2. /\ v[i] = [u[i] EXCEPT !.name = Trim(@), !.value = Trim(@)]
          /\ u[i] = IF t[i].disabled THEN t[i] ELSE [t[i] EXCEPT !.value = Trim(t[i].env)]
      <3>1. v[i] = NormalToken(u[i]) /\ u[i] = ResolvedToken(t[i])
        BY DEF NormalTokens, ResolvedTokens
      <3> HIDE DEF u, v
      <3> QED  BY <3>1 DEF NormalToken, ResolvedToken
    <2> HIDE DEF u, v
    <2> DEFINE e == t[i]
    <2>3. /\ e.name \in Strings /\ e.value \in Strings /\ e.env \in Variable
          /\ e = [name |-> e.name, env |-> e.env, value |-> e.value,
                  disabled |-> e.disabled, limit |-> e.limit]
          /\ e.disabled \in BOOLEAN /\ e.limit \in Int
      BY <2>1 DEF TokenEntry
    <2>4. Trim(e.name) \in Strings /\ Trim(e.value) \in Strings
      BY <2>3, TrimType, CleanStrings
    <2>5. CASE e.disabled
      <3>1. u[i] = e  BY <2>2, <2>5
      <3>2. v[i] = [name |-> Trim(e.name), env |-> e.env, value |-> Trim(e.value),
                    disabled |-> e.disabled, limit |-> e.limit]
        BY <2>2, <2>3, <3>1, EntryExcept
      <3> QED  BY <2>1, <2>3, <2>4, <2>5, <3>2 DEF TokenEntry
    <2>6. CASE ~e.disabled
      <3>1. e.env \in Strings /\ ~Empty(e.env)
        BY <1>3, <2>3, <2>6 DEF StructuredTokenRefused, Variable
      <3>2. Trim(e.env) \in Strings /\ Trim(Trim(e.env)) = Trim(e.env)
        BY <3>1, TrimType, CleanStrings, TrimClean
      <3>3. u[i] = [name |-> e.name, env |-> e.env, value |-> Trim(e.env),
                    disabled |-> e.disabled, limit |-> e.limit]
        BY <2>2, <2>3, <2>6, EntryExcept
      <3>5. /\ u[i] = [name |-> u[i].name, env |-> u[i].env, value |-> u[i].value,
                       disabled |-> u[i].disabled, limit |-> u[i].limit]
            /\ u[i].name = e.name /\ u[i].env = e.env /\ u[i].value = Trim(e.env)
            /\ u[i].disabled = e.disabled /\ u[i].limit = e.limit
        BY <3>3
      <3>6. [u[i] EXCEPT !.name = Trim(@), !.value = Trim(@)] =
               [name |-> Trim(u[i].name), env |-> u[i].env, value |-> Trim(u[i].value),
                disabled |-> u[i].disabled, limit |-> u[i].limit]
        BY <3>5, EntryExcept
      <3>4. v[i] = [name |-> Trim(e.name), env |-> e.env, value |-> Trim(Trim(e.env)),
                    disabled |-> e.disabled, limit |-> e.limit]
        BY <2>2, <3>5, <3>6
      <3> QED  BY <2>1, <2>3, <2>4, <2>6, <3>1, <3>2, <3>4 DEF TokenEntry
    <2> QED  BY <2>5, <2>6
  <1>5. DOMAIN v = DOMAIN t  BY DEF NormalTokens, ResolvedTokens
  <1>6. v \in Seq(TokenEntry)
    <2>1. v \in [1 .. Len(t) -> TokenEntry]
      <3>1. v = [i \in 1 .. Len(t) |-> v[i]]  BY <1>1 DEF NormalTokens, ResolvedTokens
      <3>2. \A i \in 1 .. Len(t) : v[i] \in TokenEntry  BY <1>1, <1>4
      <3> HIDE DEF v
      <3> QED  BY <3>1, <3>2
    <2> HIDE DEF v
    <2> QED  BY <1>1, <2>1
  <1> HIDE DEF v
  <1> QED  BY <1>2, <1>4, <1>5, <1>6 DEF t

\* Who the process knows is who the file asks for.
LEMMA KnownConfigured ==
    ASSUME NEW f \in File, ~LoadRefused(f)
    PROVE  /\ Identities(Loaded(f)) \in Seq(Identity)
           /\ Range(Identities(Loaded(f))) = Configured(f)
  <1> DEFINE cfg == Loaded(f)
             on == {x \in Range(cfg.tokens) : ~(x.disabled \/ Empty(x.value))}
  <1>1. cfg.valid \in Seq(Clean) /\ cfg.tokens \in Seq(TokenEntry)
    BY LoadedValid, LoadedTokens
  <1> DEFINE here == {Trim(s) : s \in {x \in Range(f.valid) : ~Empty(x)}}
             there == IF f.validEnv = Unnamed THEN {}
                      ELSE {Trim(s) : s \in {x \in Range(f.validEnv) : ~Empty(x)}}
  <1>2. Range(cfg.valid) = here \cup there
    BY LoadedValid
  <1> HIDE DEF cfg
  <1>3. /\ Identities(cfg) \in Seq(Identity)
        /\ Range(Identities(cfg)) = {Legacy(s) : s \in Range(cfg.valid)} \cup {Structured(t) : t \in on}
    BY <1>1, IdentityFacts
  <1>4. {Legacy(s) : s \in Range(cfg.valid)}
          = {Legacy(Trim(s)) : s \in {x \in Range(f.valid) : ~Empty(x)}}
            \cup (IF f.validEnv = Unnamed THEN {}
                  ELSE {Legacy(Trim(s)) : s \in {x \in Range(f.validEnv) : ~Empty(x)}})
    BY <1>2
  <1> DEFINE wanted == {[token |-> Trim(t.env), name |-> Trim(t.name), limit |-> t.limit,
                         legacy |-> FALSE] : t \in {x \in Range(f.tokens) : ~x.disabled}}
             one(i) == [token |-> Trim(f.tokens[i].env), name |-> Trim(f.tokens[i].name),
                        limit |-> f.tokens[i].limit, legacy |-> FALSE]
             I == {i \in DOMAIN f.tokens : ~f.tokens[i].disabled}
  <1>5. ASSUME NEW i \in I
        PROVE  Structured(cfg.tokens[i]) = one(i) /\ ~Empty(cfg.tokens[i].value)
    <2>1. /\ cfg.tokens[i].name = Trim(f.tokens[i].name)
          /\ cfg.tokens[i].limit = f.tokens[i].limit
          /\ f.tokens[i].env \in Strings /\ ~Empty(f.tokens[i].env)
          /\ cfg.tokens[i].value = Trim(f.tokens[i].env)
      BY LoadedTokens DEF cfg
    <2>2. Trim(Trim(f.tokens[i].env)) = Trim(f.tokens[i].env)
      BY <2>1, TrimType, TrimClean
    <2> QED  BY <2>1, <2>2 DEF Structured, Empty
  <1>6. wanted = {one(i) : i \in I}
    BY DEF Range
  <1>7. {Structured(t) : t \in on} = {Structured(cfg.tokens[i]) : i \in I}
    <2>1. DOMAIN cfg.tokens = DOMAIN f.tokens
      BY LoadedTokens DEF cfg
    <2>2. \A i \in DOMAIN f.tokens : cfg.tokens[i].disabled = f.tokens[i].disabled
      BY LoadedTokens DEF cfg
    <2>3. on = {cfg.tokens[i] : i \in I}
      BY <1>5, <2>1, <2>2 DEF Range
    <2> HIDE DEF on, I
    <2> QED  BY <2>3
  <1>8. {Structured(t) : t \in on} = wanted
    <2> HIDE DEF on, wanted, I, one
    <2> QED  BY <1>5, <1>6, <1>7
  <1> HIDE DEF on
  <1> QED  BY <1>3, <1>4, <1>8 DEF Configured, cfg

\* No token is configured twice.
LEMMA OneIdentity ==
    ASSUME NEW f \in File, ~LoadRefused(f),
           NEW c \in Configured(f), NEW d \in Configured(f), c.token = d.token
    PROVE  c = d
  <1> DEFINE cfg == Loaded(f)
             I == {i \in DOMAIN f.tokens : ~f.tokens[i].disabled}
             one(i) == [token |-> Trim(f.tokens[i].env), name |-> Trim(f.tokens[i].name),
                        limit |-> f.tokens[i].limit, legacy |-> FALSE]
             L == {Legacy(s) : s \in Range(cfg.valid)}
             S == {one(i) : i \in I}
  <1>1. Configured(f) = L \cup S
    <2> DEFINE here == {Trim(s) : s \in {x \in Range(f.valid) : ~Empty(x)}}
               there == IF f.validEnv = Unnamed THEN {}
                        ELSE {Trim(s) : s \in {x \in Range(f.validEnv) : ~Empty(x)}}
    <2>1. Range(cfg.valid) = here \cup there
      BY LoadedValid
    <2> HIDE DEF cfg
    <2>2. L = {Legacy(Trim(s)) : s \in {x \in Range(f.valid) : ~Empty(x)}}
              \cup (IF f.validEnv = Unnamed THEN {}
                    ELSE {Legacy(Trim(s)) : s \in {x \in Range(f.validEnv) : ~Empty(x)}})
      BY <2>1
    <2>3. S = {[token |-> Trim(t.env), name |-> Trim(t.name), limit |-> t.limit,
                legacy |-> FALSE] : t \in {x \in Range(f.tokens) : ~x.disabled}}
      BY DEF Range
    <2> HIDE DEF L, S
    <2> QED  BY <2>2, <2>3 DEF Configured
  <1>2. /\ \A i \in I : cfg.tokens[i].value \notin Range(cfg.valid)
        /\ \A i, j \in I : i # j => cfg.tokens[i].value # cfg.tokens[j].value
    <2>1. ValidateTokenCatalog(cfg)
      <3>1. ValidateConfig(cfg)  BY Zenon DEF LoadRefused
      <3> HIDE DEF cfg
      <3> QED  BY <3>1 DEF ValidateConfig
    <2>2. I = {i \in DOMAIN cfg.tokens : ~cfg.tokens[i].disabled}
      BY LoadedTokens
    <2>3. cfg.valid \in Seq(Clean)
      BY LoadedValid
    <2> HIDE DEF cfg, I
    <2> QED  BY <2>1, <2>2, <2>3, ContainsRange DEF ValidateTokenCatalog
  <1>3. \A i \in I : cfg.tokens[i].value = one(i).token
    BY LoadedTokens
  <1> HIDE DEF cfg, one, I
  <1>4. CASE c \in L /\ d \in L
    <2>1. PICK s, z \in Range(cfg.valid) : c = Legacy(s) /\ d = Legacy(z)
      BY <1>4
    <2> QED  BY <2>1 DEF Legacy
  <1>5. CASE c \in S /\ d \in S
    <2>1. PICK i \in I, j \in I : c = one(i) /\ d = one(j)
      BY <1>5
    <2>2. cfg.tokens[i].value = cfg.tokens[j].value
      BY <1>3, <2>1
    <2> QED  BY <1>2, <2>1, <2>2
  <1>6. ASSUME NEW x \in L, NEW y \in S
        PROVE  x.token # y.token
    <2>1. x.token \in Range(cfg.valid)  BY DEF Legacy
    <2>2. PICK i \in I : y = one(i)  OBVIOUS
    <2> QED  BY <1>2, <1>3, <2>1, <2>2
  <1> HIDE DEF L, S
  <1> QED  BY <1>1, <1>4, <1>5, <1>6

\* The identities a file asks for have tokens without a blank around them.
LEMMA ConfiguredTypes ==
    ASSUME NEW f \in File, ~LoadRefused(f), NEW c \in Configured(f)
    PROVE  c \in Identity /\ c.token \in Clean
  <1>1. c \in Identity
    <2>1. Configured(f) = Range(Identities(Loaded(f))) /\ Identities(Loaded(f)) \in Seq(Identity)
      BY KnownConfigured
    <2> QED  BY <2>1 DEF Range
  <1>2. f.valid \in Seq(Strings) /\ f.tokens \in Seq(TokenEntry)
    BY DEF File
  <1>3. f.validEnv # Unnamed => f.validEnv \in Seq(Strings)
    BY DEF File, LoadRefused, ValidTokensMissing
  <1>4. CASE c \in {Legacy(Trim(s)) : s \in {x \in Range(f.valid) : ~Empty(x)}}
    <2>1. PICK s \in Range(f.valid) : c = Legacy(Trim(s))  BY <1>4
    <2>2. s \in Strings  BY <1>2 DEF Range
    <2> QED  BY <1>1, <2>1, <2>2, TrimType DEF Legacy
  <1>5. CASE /\ f.validEnv # Unnamed
             /\ c \in {Legacy(Trim(s)) : s \in {x \in Range(f.validEnv) : ~Empty(x)}}
    <2>1. PICK s \in Range(f.validEnv) : c = Legacy(Trim(s))  BY <1>5
    <2>2. s \in Strings  BY <1>3, <1>5 DEF Range
    <2> QED  BY <1>1, <2>1, <2>2, TrimType DEF Legacy
  <1>6. CASE c \in {[token |-> Trim(t.env), name |-> Trim(t.name), limit |-> t.limit,
                     legacy |-> FALSE] : t \in {x \in Range(f.tokens) : ~x.disabled}}
    <2>1. PICK t \in Range(f.tokens) : ~t.disabled /\ c.token = Trim(t.env)  BY <1>6
    <2>2. PICK i \in DOMAIN f.tokens : t = f.tokens[i]  BY DEF Range
    <2>3. t.env \in Strings  BY <2>1, <2>2, LoadedTokens
    <2> QED  BY <1>1, <2>1, <2>3, TrimType
  <1> QED  BY <1>4, <1>5, <1>6 DEF Configured

\* What rebuild makes of a file that LoadConfig accepts: by its token every identity
\* is found, by a fingerprint one of those that have it.
LEMMA RegistryFacts ==
    ASSUME NEW f \in File, ~LoadRefused(f), NEW reg, reg = Rebuild(Loaded(f))
    PROVE  /\ {reg.tokens[i] : i \in DOMAIN reg.tokens} = Configured(f)
           /\ DOMAIN reg.byToken = {c.token : c \in Configured(f)}
           /\ \A c \in Configured(f) : reg.byToken[c.token] = c
           /\ DOMAIN reg.byFingerprint = {Fingerprint(c.token) : c \in Configured(f)}
           /\ \A k \in DOMAIN reg.byFingerprint :
                 \E c \in Configured(f) : Fingerprint(c.token) = k /\ reg.byFingerprint[k] = c
  <1> DEFINE ids == Identities(Loaded(f))
             tokens == [i \in DOMAIN ids |-> ids[i].token]
             prints == [i \in DOMAIN ids |-> Fingerprint(tokens[i])]
             T == {c.token : c \in Configured(f)}
             K == {Fingerprint(c.token) : c \in Configured(f)}
  <1>1. reg = [byToken |-> MapOf(ids, tokens), byFingerprint |-> MapOf(ids, prints),
               tokens |-> ids]
    BY DEF Rebuild
  <1>2. ids \in Seq(Identity) /\ Range(ids) = Configured(f)
    BY KnownConfigured
  <1> HIDE DEF ids
  <1>3. DOMAIN ids = 1 .. Len(ids) /\ Len(ids) \in Nat
    BY <1>2
  <1>4. tokens \in Seq(T) /\ Len(tokens) = Len(ids) /\ Range(tokens) = T
    <2>1. \A i \in 1 .. Len(ids) : ids[i].token \in T
      BY <1>2, <1>3 DEF Range
    <2>2. tokens \in Seq(T) /\ Len(tokens) = Len(ids)
      BY <1>3, <2>1
    <2>3. Range(tokens) = T
      BY <1>2 DEF Range
    <2> QED  BY <2>2, <2>3
  <1>5. prints \in Seq(K) /\ Len(prints) = Len(ids) /\ Range(prints) = K
    <2>1. \A i \in 1 .. Len(ids) : Fingerprint(tokens[i]) \in K
      BY <1>2, <1>3 DEF Range
    <2>2. prints \in Seq(K) /\ Len(prints) = Len(ids)
      BY <1>3, <2>1
    <2>3. Range(prints) = K
      BY <1>2 DEF Range
    <2> QED  BY <2>2, <2>3
  <1>6. {ids[i] : i \in DOMAIN ids} = Configured(f)
    BY <1>2 DEF Range
  <1> HIDE DEF T, K, prints
  <1>7. /\ DOMAIN MapOf(ids, prints) = K
        /\ \A k \in K : \E i \in DOMAIN ids : prints[i] = k /\ MapOf(ids, prints)[k] = ids[i]
    <2>1. ids \in Seq(Identity) /\ prints \in Seq(K) /\ Len(prints) = Len(ids)
      BY <1>2, <1>5
    <2>2. /\ DOMAIN MapOf(ids, prints) = Range(prints)
          /\ \A k \in Range(prints) :
                \E i \in DOMAIN ids : prints[i] = k /\ MapOf(ids, prints)[k] = ids[i]
      BY <2>1, MapFacts, SMT
    <2> QED  BY <2>2, <1>5, Zenon
  <1>8. ASSUME NEW k \in K
        PROVE  \E c \in Configured(f) : Fingerprint(c.token) = k /\ MapOf(ids, prints)[k] = c
    <2>1. PICK i \in DOMAIN ids : prints[i] = k /\ MapOf(ids, prints)[k] = ids[i]
      BY <1>7
    <2>2. ids[i] \in Configured(f)  BY <1>6
    <2>3. prints[i] = Fingerprint(ids[i].token)  BY DEF prints
    <2> QED  BY <2>1, <2>2, <2>3
  <1> HIDE DEF tokens
  <1>9. /\ DOMAIN MapOf(ids, tokens) = T
        /\ \A k \in T : \E i \in DOMAIN ids : tokens[i] = k /\ MapOf(ids, tokens)[k] = ids[i]
    <2>1. ids \in Seq(Identity) /\ tokens \in Seq(T) /\ Len(tokens) = Len(ids)
      BY <1>2, <1>4
    <2>2. /\ DOMAIN MapOf(ids, tokens) = Range(tokens)
          /\ \A k \in Range(tokens) :
                \E i \in DOMAIN ids : tokens[i] = k /\ MapOf(ids, tokens)[k] = ids[i]
      BY <2>1, MapFacts, SMT
    <2> QED  BY <2>2, <1>4, Zenon
  <1>10. ASSUME NEW c \in Configured(f)
         PROVE  MapOf(ids, tokens)[c.token] = c
    <2>1. c.token \in T  BY DEF T
    <2>2. PICK i \in DOMAIN ids : tokens[i] = c.token /\ MapOf(ids, tokens)[c.token] = ids[i]
      BY <1>9, <2>1
    <2>3. ids[i] \in Configured(f) /\ ids[i].token = c.token  BY <1>6, <2>2 DEF tokens
    <2>4. ids[i] = c  BY <2>3, OneIdentity
    <2> QED  BY <2>2, <2>4
  <1>11. /\ reg.tokens = ids /\ reg.byToken = MapOf(ids, tokens)
         /\ reg.byFingerprint = MapOf(ids, prints)
    BY <1>1
  <1> QED  BY <1>6, <1>7, <1>8, <1>9, <1>10, <1>11 DEF T, K

\* The numbers that validateConfig does not look at.
LEMMA NumberFacts ==
    ASSUME NEW n, DOMAIN n = {"port", "server", "other", "db", "qps", "burst", "rate", "size",
                              "retries", "ratio", "minimum", "halfOpen"}
    PROVE  /\ DefaultNumbers(n).retries = AtLeast(0, n.retries, 0)
           /\ DefaultNumbers(n).ratio =
                IF n.ratio \in 1 .. RatioDen THEN n.ratio ELSE RatioDen \div 2
           /\ DefaultNumbers(n).minimum = AtLeast(1, n.minimum, 5)
           /\ DefaultNumbers(n).halfOpen = AtLeast(1, n.halfOpen, 3)
  <1> DEFINE S == DOMAIN n
             x == AtLeast(1, n.rate, 5)
             y == AtLeast(1, n.size, 1)
             z == IF n.other = 0 THEN 1 ELSE n.other
             re == AtLeast(0, n.retries, 0)
             ra == IF n.ratio \in 1 .. RatioDen THEN n.ratio ELSE RatioDen \div 2
             mi == AtLeast(1, n.minimum, 5)
             ha == AtLeast(1, n.halfOpen, 3)
             n3 == [n EXCEPT !.rate = x, !.size = y, !.other = z]
             n4 == [n3 EXCEPT !.retries = re]
             n5 == [n4 EXCEPT !.ratio = ra]
             n6 == [n5 EXCEPT !.minimum = mi]
             n7 == [n6 EXCEPT !.halfOpen = ha]
  <1>1. DefaultNumbers(n) = [n EXCEPT !.rate = x, !.size = y, !.other = z, !.retries = re,
                                      !.ratio = ra, !.minimum = mi, !.halfOpen = ha]
    BY DEF DefaultNumbers
  <1> HIDE DEF x, y, z, re, ra, mi, ha
  <1>2. DefaultNumbers(n) = n7  BY <1>1
  <1>3. DOMAIN n3 = S  OBVIOUS
  <1> HIDE DEF n3
  <1>4. DOMAIN n4 = S /\ n4.retries = re  BY <1>3
  <1> HIDE DEF n4
  <1>5. DOMAIN n5 = S /\ n5.retries = re /\ n5.ratio = ra  BY <1>4
  <1> HIDE DEF n5
  <1>6. DOMAIN n6 = S /\ n6.retries = re /\ n6.ratio = ra /\ n6.minimum = mi  BY <1>5
  <1> HIDE DEF n6
  <1>7. n7.retries = re /\ n7.ratio = ra /\ n7.minimum = mi /\ n7.halfOpen = ha  BY <1>6
  <1> HIDE DEF n7
  <1> QED  BY <1>2, <1>7 DEF re, ra, mi, ha

\* The numbers of a file that is not refused.
LEMMA SaneNumbers ==
    ASSUME NEW f \in File, ~LoadRefused(f)
    PROVE  LET n == Loaded(f).num IN
           /\ n.ratio \in 1 .. RatioDen /\ n.minimum > 0 /\ n.halfOpen > 0
           /\ n.retries >= 0 /\ \A p \in Range(Loaded(f).providers) : p.retries >= 0
           /\ n.qps > 0 /\ n.burst > 0 /\ n.rate > 0
           /\ n.server > 0 /\ n.other > 0 /\ n.size > 0
  <1> DEFINE cfg == Loaded(f)
             n == f.num
  <1>1. ValidateConfig(cfg)
    BY Zenon DEF LoadRefused
  <1>2. /\ n.ratio \in Int /\ n.minimum \in Int /\ n.halfOpen \in Int /\ n.retries \in Int
        /\ DOMAIN n = {"port", "server", "other", "db", "qps", "burst", "rate", "size",
                       "retries", "ratio", "minimum", "halfOpen"}
    BY DEF File
  <1>3. cfg.num = DefaultNumbers(n)
    BY LoadedFields
  <1> HIDE DEF cfg, n
  <1>4. /\ cfg.num.qps > 0 /\ cfg.num.burst > 0 /\ cfg.num.rate > 0
        /\ cfg.num.server > 0 /\ cfg.num.other > 0 /\ cfg.num.size > 0
    BY <1>1 DEF ValidateConfig
  <1>5. \A p \in Range(cfg.providers) : p.retries >= 0
    <2>1. \A i \in DOMAIN cfg.providers : ValidProvider(cfg.providers[i])
      BY <1>1 DEF ValidateConfig
    <2> QED  BY <2>1 DEF ValidProvider, Range
  <1>6. /\ cfg.num.retries = AtLeast(0, n.retries, 0)
        /\ cfg.num.ratio = IF n.ratio \in 1 .. RatioDen THEN n.ratio ELSE RatioDen \div 2
        /\ cfg.num.minimum = AtLeast(1, n.minimum, 5)
        /\ cfg.num.halfOpen = AtLeast(1, n.halfOpen, 3)
    BY <1>2, <1>3, NumberFacts
  <1>7. RatioDen \div 2 \in 1 .. RatioDen
    BY ConfigAssumption
  <1>8. cfg.num.ratio \in 1 .. RatioDen
    BY <1>6, <1>7
  <1>9. cfg.num.minimum > 0 /\ cfg.num.halfOpen > 0 /\ cfg.num.retries >= 0
    BY <1>2, <1>6 DEF AtLeast
  <1> QED  BY <1>4, <1>5, <1>8, <1>9 DEF cfg

Progress == {"new", "no_header", "bad_header", "unknown_token", "accepted", "charged"}

Passed(r) == stage[r] \in {"accepted", "charged"}

\* What AuthMiddleware and the registry agree on about request r.
RequestInv(r) ==
    /\ Passed(r) => /\ registry # None
                    /\ Len(Trim(header[r])) > 1 /\ Head(Trim(header[r])) = Bearer
                    /\ Tail(Trim(header[r])) \in DOMAIN registry.byToken
                    /\ caller[r] = registry.byToken[Tail(Trim(header[r]))]
    /\ ~Passed(r) => caller[r] = None
    /\ payer[r] = IF stage[r] = "charged"
                  THEN Find(registry.byFingerprint, Fingerprint(header[r])) ELSE None

AdmissionInv ==
    /\ file \in Files
    /\ phase \in {"starting", "fatal", "serving"}
    /\ phase = "serving" => ~LoadRefused(file)
    /\ registry # None => phase = "serving" /\ registry = Rebuild(Loaded(file))
    /\ stage \in [Requests -> Progress]
    /\ header \in [Requests -> Headers \cup {<<>>}]
    /\ DOMAIN caller = Requests /\ DOMAIN payer = Requests
    /\ \A r \in Requests : RequestInv(r)

\* What AuthMiddleware takes from behind "Bearer" has no blank around it.
LEMMA TailClean ==
    ASSUME NEW h \in Headers \cup {<<>>}
    PROVE  /\ Trim(h) \in Clean
           /\ Len(Trim(h)) > 0 => Tail(Trim(h)) \in Clean /\ Trim(Tail(Trim(h))) = Tail(Trim(h))
  <1>1. h \in Strings
    <2>1. <<>> \in Strings  BY DEF Strings
    <2> QED  BY <2>1, AdmissionAssumption
  <1>2. Trim(h) \in Clean  BY <1>1, TrimType
  <1>3. ASSUME Len(Trim(h)) > 0  PROVE  Tail(Trim(h)) \in Clean
    BY <1>2, <1>3 DEF Clean
  <1> QED  BY <1>2, <1>3, TrimClean

\* A process that has not read its file has no registry and knows no request.
LEMMA InitAdmission == AdmissionInit => AdmissionInv
  BY DEF AdmissionInit, AdmissionInv, RequestInv, Passed, Progress

\* Only a file that is not refused gets a process to serve.
LEMMA LoadAdmission == AdmissionInv /\ Load => AdmissionInv'
  <1> SUFFICES ASSUME AdmissionInv, Load  PROVE  AdmissionInv'
    OBVIOUS
  <1>1. /\ phase = "starting" /\ phase' = IF LoadRefused(file) THEN "fatal" ELSE "serving"
        /\ file' = file /\ registry' = registry /\ stage' = stage /\ header' = header
        /\ caller' = caller /\ payer' = payer
    BY DEF Load
  <1>2. registry = None /\ registry' = None
    BY <1>1 DEF AdmissionInv
  <1>3. phase' \in {"starting", "fatal", "serving"} /\ (phase' = "serving" => ~LoadRefused(file'))
    BY <1>1, Zenon
  <1>4. ASSUME NEW r \in Requests  PROVE  RequestInv(r)'
    <2>1. RequestInv(r)  BY DEF AdmissionInv
    <2> QED  BY <1>1, <2>1 DEF RequestInv, Passed
  <1> QED  BY <1>1, <1>2, <1>3, <1>4 DEF AdmissionInv

\* AuthMiddleware: a request passes as the identity of the token behind "Bearer".
LEMMA AuthenticateAdmission ==
    ASSUME AdmissionInv, NEW r \in Requests, NEW h \in Headers, Authenticate(r, h)
    PROVE  AdmissionInv'
  <1>1. /\ phase = "serving" /\ stage[r] = "new"
        /\ header' = [header EXCEPT ![r] = h]
        /\ registry' = IF Verdict(h) \in {"no_header", "bad_header"} THEN registry ELSE Registry
        /\ stage' = [stage EXCEPT ![r] = Verdict(h)]
        /\ caller' = [caller EXCEPT ![r] =
                        IF Verdict(h) = "accepted" THEN ResolveToken(Tail(Trim(h))) ELSE None]
        /\ file' = file /\ phase' = phase /\ payer' = payer
    BY DEF Authenticate
  <1>2. /\ file \in Files /\ ~LoadRefused(file)
        /\ registry = None \/ registry = Rebuild(Loaded(file))
    BY <1>1 DEF AdmissionInv
  <1>3. Registry = Rebuild(Loaded(file)) /\ Registry # None
    BY <1>2, AdmissionAssumption DEF Registry
  <1>4. /\ registry' = registry \/ registry' = Registry
        /\ registry # None => registry' = registry
    BY <1>1, <1>2, <1>3
  <1>5. Verdict(h) \in Progress \ {"charged", "new"}
    BY DEF Verdict, Progress
  <1>6. ASSUME Verdict(h) = "accepted"
        PROVE  /\ registry' = Registry
               /\ Len(Trim(h)) > 1 /\ Head(Trim(h)) = Bearer
               /\ Tail(Trim(h)) \in DOMAIN Registry.byToken
               /\ ResolveToken(Tail(Trim(h))) = Registry.byToken[Tail(Trim(h))]
    <2>1. /\ Trim(h) # <<>> /\ Len(Trim(h)) # 1 /\ Head(Trim(h)) = Bearer
          /\ ResolveToken(Tail(Trim(h))) # None
      BY <1>6 DEF Verdict
    <2>2. Trim(h) \in Clean  BY TailClean
    <2>3. Len(Trim(h)) > 1
      <3> DEFINE w == Trim(h)
      <3> HIDE DEF w
      <3>1. w \in Seq(Words \ {Blank}) /\ w # <<>> /\ Len(w) # 1  BY <2>1, <2>2 DEF Clean, w
      <3>2. Len(w) > 1  BY <3>1
      <3> QED  BY <3>2 DEF w
    <2>4. Trim(Tail(Trim(h))) = Tail(Trim(h))  BY <2>3, <2>2, TailClean DEF Clean
    <2>5. ResolveToken(Tail(Trim(h))) = Find(Registry.byToken, Tail(Trim(h)))
      BY <2>4 DEF ResolveToken
    <2> QED  BY <1>1, <1>6, <2>1, <2>3, <2>5 DEF Find
  <1>7. RequestInv(r)'
    <2>1. stage'[r] = Verdict(h) /\ header'[r] = h /\ payer'[r] = payer[r] /\ payer[r] = None
      BY <1>1 DEF AdmissionInv, RequestInv
    <2>2. caller'[r] = IF Verdict(h) = "accepted" THEN ResolveToken(Tail(Trim(h))) ELSE None
      BY <1>1 DEF AdmissionInv
    <2>3. Passed(r)' <=> Verdict(h) = "accepted"
      BY <1>5, <2>1 DEF Passed, Progress
    <2>4. stage'[r] # "charged"
      BY <1>5, <2>1
    <2> QED  BY <1>3, <1>6, <2>1, <2>2, <2>3, <2>4 DEF RequestInv
  <1>8. ASSUME NEW q \in Requests, q # r  PROVE  RequestInv(q)'
    <2>1. RequestInv(q)  BY DEF AdmissionInv
    <2>2. /\ stage'[q] = stage[q] /\ header'[q] = header[q]
          /\ caller'[q] = caller[q] /\ payer'[q] = payer[q]
      BY <1>1, <1>8 DEF AdmissionInv
    <2>3. CASE Passed(q)
      <3>1. registry' = registry  BY <1>4, <2>1, <2>3 DEF RequestInv
      <3> QED  BY <2>1, <2>2, <3>1 DEF RequestInv, Passed
    <2>4. CASE ~Passed(q)
      BY <2>1, <2>2, <2>4 DEF RequestInv, Passed
    <2> QED  BY <2>3, <2>4
  <1>9. /\ stage' \in [Requests -> Progress] /\ header' \in [Requests -> Headers \cup {<<>>}]
        /\ DOMAIN caller' = Requests /\ DOMAIN payer' = Requests
    BY <1>1, <1>5 DEF AdmissionInv
  <1>10. registry' # None => phase' = "serving" /\ registry' = Rebuild(Loaded(file'))
    BY <1>1, <1>2, <1>3, <1>4
  <1>11. \A q \in Requests : RequestInv(q)'
    BY <1>7, <1>8
  <1> QED  BY <1>1, <1>2, <1>9, <1>10, <1>11 DEF AdmissionInv

\* RecordUsage looks the fingerprint up in the registry that admitted the request.
LEMMA ChargeAdmission ==
    ASSUME AdmissionInv, NEW r \in Requests, Charge(r)
    PROVE  AdmissionInv'
  <1>1. /\ stage[r] = "accepted" /\ stage' = [stage EXCEPT ![r] = "charged"]
        /\ payer' = [payer EXCEPT ![r] = LookupByFingerprint(Fingerprint(header[r]))]
        /\ file' = file /\ phase' = phase /\ registry' = registry /\ header' = header
        /\ caller' = caller
    BY DEF Charge
  <1>2. Passed(r) /\ RequestInv(r)
    BY <1>1 DEF AdmissionInv, Passed
  <1>3. registry # None /\ Registry = registry
    BY <1>2 DEF RequestInv, Registry
  <1>4. RequestInv(r)'
    <2>1. stage'[r] = "charged" /\ Passed(r)'
      BY <1>1 DEF AdmissionInv, Passed
    <2>2. payer'[r] = Find(registry.byFingerprint, Fingerprint(header[r]))
      BY <1>1, <1>3 DEF AdmissionInv, LookupByFingerprint
    <2> QED  BY <1>1, <1>2, <2>1, <2>2 DEF RequestInv
  <1>5. ASSUME NEW q \in Requests, q # r  PROVE  RequestInv(q)'
    <2>1. RequestInv(q)  BY DEF AdmissionInv
    <2>2. stage'[q] = stage[q] /\ payer'[q] = payer[q]
      BY <1>1, <1>5 DEF AdmissionInv
    <2> QED  BY <1>1, <2>1, <2>2 DEF RequestInv, Passed
  <1>6. /\ stage' \in [Requests -> Progress] /\ DOMAIN payer' = Requests
    BY <1>1 DEF AdmissionInv, Progress
  <1>7. \A q \in Requests : RequestInv(q)'
    BY <1>4, <1>5
  <1> QED  BY <1>1, <1>6, <1>7 DEF AdmissionInv

\* The invariant of Admission: the registry is that of the file, and each request
\* is what its header makes of it (main.go, auth.go, registry.go).
THEOREM AdmissionInvariant == AdmissionSpec => []AdmissionInv
  <1>1. AdmissionInv /\ [AdmissionNext]_admissionVars => AdmissionInv'
    <2> SUFFICES ASSUME AdmissionInv, [AdmissionNext]_admissionVars  PROVE  AdmissionInv'
      OBVIOUS
    <2>1. CASE Load  BY <2>1, LoadAdmission
    <2>2. ASSUME NEW r \in Requests, NEW h \in Headers, Authenticate(r, h)  PROVE  AdmissionInv'
      BY <2>2, AuthenticateAdmission
    <2>3. ASSUME NEW r \in Requests, Charge(r)  PROVE  AdmissionInv'
      BY <2>3, ChargeAdmission
    <2>4. CASE UNCHANGED admissionVars
      BY <2>4 DEF admissionVars, AdmissionInv, RequestInv, Passed
    <2> QED  BY <2>1, <2>2, <2>3, <2>4, Zenon DEF AdmissionNext
  <1> QED  BY InitAdmission, <1>1, PTL DEF AdmissionSpec

\* What is known of an identity that was found.
LEMMA CallerFacts ==
    ASSUME AdmissionInv, NEW r \in Requests, Passed(r)
    PROVE  /\ file \in File /\ ~LoadRefused(file)
           /\ caller[r] \in Configured(file)
           /\ caller[r].token = Tail(Trim(header[r]))
           /\ caller[r] # None
  <1>1. RequestInv(r) /\ registry = Rebuild(Loaded(file)) /\ ~LoadRefused(file) /\ file \in File
    BY AdmissionAssumption DEF AdmissionInv, RequestInv
  <1> DEFINE t == Tail(Trim(header[r]))
  <1>2. t \in DOMAIN registry.byToken /\ caller[r] = registry.byToken[t]
    BY <1>1 DEF RequestInv
  <1>3. /\ DOMAIN registry.byToken = {c.token : c \in Configured(file)}
        /\ \A c \in Configured(file) : registry.byToken[c.token] = c
    BY <1>1, RegistryFacts
  <1>4. PICK c \in Configured(file) : t = c.token
    BY <1>2, <1>3
  <1>5. caller[r] = c
    BY <1>2, <1>3, <1>4
  <1>6. c \in Identity
    BY <1>1, ConfiguredTypes
  <1> QED  BY <1>1, <1>4, <1>5, <1>6, AdmissionAssumption

\* Whom the registry gives for the fingerprint of a header, if anyone.
LEMMA PayerFacts ==
    ASSUME AdmissionInv, NEW r \in Requests, stage[r] = "charged"
    PROVE  \/ payer[r] = None /\ \A c \in Configured(file) :
                                    Fingerprint(c.token) # Fingerprint(header[r])
           \/ \E c \in Configured(file) :
                 payer[r] = c /\ Fingerprint(c.token) = Fingerprint(header[r])
  <1>1. RequestInv(r) /\ registry = Rebuild(Loaded(file)) /\ ~LoadRefused(file) /\ file \in File
    BY AdmissionAssumption DEF AdmissionInv, RequestInv, Passed
  <1> DEFINE k == Fingerprint(header[r])
  <1>2. payer[r] = Find(registry.byFingerprint, k)
    BY <1>1 DEF RequestInv
  <1>3. /\ DOMAIN registry.byFingerprint = {Fingerprint(c.token) : c \in Configured(file)}
        /\ \A x \in DOMAIN registry.byFingerprint :
              \E c \in Configured(file) :
                 Fingerprint(c.token) = x /\ registry.byFingerprint[x] = c
    BY <1>1, RegistryFacts
  <1> HIDE DEF k
  <1>4. CASE k \in DOMAIN registry.byFingerprint
    BY <1>2, <1>3, <1>4 DEF Find, k
  <1>5. CASE k \notin DOMAIN registry.byFingerprint
    BY <1>2, <1>3, <1>5 DEF Find, k
  <1> QED  BY <1>4, <1>5

\* The states of Admission are well formed: whoever is caller or payer is known to
\* the registry (registry.go).
THEOREM AdmissionTypes == AdmissionSpec => []AdmissionTypeOK
  <1>1. AdmissionInv => AdmissionTypeOK
    <2> SUFFICES ASSUME AdmissionInv  PROVE  AdmissionTypeOK
      OBVIOUS
    <2>1. registry # None => Known = Configured(file)
      <3> SUFFICES ASSUME registry # None  PROVE  Known = Configured(file)
        OBVIOUS
      <3>1. registry = Rebuild(Loaded(file)) /\ ~LoadRefused(file) /\ file \in File
        BY AdmissionAssumption DEF AdmissionInv
      <3>2. {registry.tokens[i] : i \in DOMAIN registry.tokens} = Configured(file)
        BY <3>1, RegistryFacts
      <3> QED  BY <3>2 DEF Known
    <2>2. ASSUME NEW r \in Requests
          PROVE  /\ header[r] \in Headers \cup {<<>>}
                 /\ caller[r] \in Known \cup {None}
                 /\ payer[r] \in Known \cup {None}
                 /\ caller[r] # None <=> stage[r] \in {"accepted", "charged"}
      <3>1. header[r] \in Headers \cup {<<>>} /\ RequestInv(r)
        BY DEF AdmissionInv
      <3>2. CASE ~Passed(r)
        BY <3>1, <3>2 DEF RequestInv, Passed
      <3>3. CASE Passed(r)
        <4>1. registry # None  BY <3>1, <3>3 DEF RequestInv
        <4>2. caller[r] \in Configured(file) /\ caller[r] # None
          BY <3>3, CallerFacts
        <4>3. payer[r] \in Configured(file) \cup {None}
          <5>1. CASE stage[r] = "charged"  BY <5>1, PayerFacts
          <5>2. CASE stage[r] # "charged"  BY <3>1, <5>2 DEF RequestInv
          <5> QED  BY <5>1, <5>2
        <4> QED  BY <2>1, <3>1, <3>3, <4>1, <4>2, <4>3 DEF Passed
      <3> QED  BY <3>2, <3>3
    <2> QED  BY <2>2 DEF AdmissionTypeOK, AdmissionInv, Progress
  <1> QED  BY <1>1, AdmissionInvariant, PTL

\* No entry of the file is lost, renamed or found under another token, whatever the
\* lists, the variables and their padding (config.go:281-314, 536-578;
\* registry.go:41-121).
THEOREM EveryEntryResolves == AdmissionSpec => []ResolvesAsConfigured
  <1>1. AdmissionInv => ResolvesAsConfigured
    <2> SUFFICES ASSUME AdmissionInv, registry # None
                 PROVE  /\ Known = Configured(file)
                        /\ DOMAIN registry.byToken = {c.token : c \in Configured(file)}
                        /\ \A c \in Configured(file) : registry.byToken[c.token] = c
      BY DEF ResolvesAsConfigured
    <2>1. registry = Rebuild(Loaded(file)) /\ ~LoadRefused(file) /\ file \in File
      BY AdmissionAssumption DEF AdmissionInv
    <2>2. /\ {registry.tokens[i] : i \in DOMAIN registry.tokens} = Configured(file)
          /\ DOMAIN registry.byToken = {c.token : c \in Configured(file)}
          /\ \A c \in Configured(file) : registry.byToken[c.token] = c
      BY <2>1, RegistryFacts
    <2> QED  BY <2>2 DEF Known
  <1> QED  BY <1>1, AdmissionInvariant, PTL

\* The fingerprint of a token that does not read like a header is the token.
LEMMA FingerprintOfToken ==
    ASSUME NEW token \in Clean, ~LikeHeader(token)
    PROVE  Fingerprint(token) = token
  <1>1. Trim(token) = token  BY TrimClean
  <1> QED  BY <1>1 DEF Fingerprint, NormalizeBearerToken, LikeHeader

\* The look-up by fingerprint charges whom the look-up by token admitted, whatever
\* the header and the tokens, as long as none reads like a header (auth.go, cache.go,
\* usage.go).
THEOREM PayerIsCaller == AdmissionSpec => []ChargedToCaller
  <1>1. AdmissionInv => ChargedToCaller
    <2> SUFFICES ASSUME AdmissionInv, NEW r \in Requests, stage[r] = "charged",
                        \A c \in Configured(file) : ~LikeHeader(c.token)
                 PROVE  payer[r] = IF OneWord(r) THEN caller[r] ELSE None
      BY DEF ChargedToCaller
    <2> DEFINE words == Trim(header[r])
    <2>1. /\ file \in File /\ ~LoadRefused(file)
          /\ caller[r] \in Configured(file) /\ caller[r].token = Tail(words)
      BY CallerFacts DEF Passed
    <2>2. words \in Clean
      BY TailClean DEF AdmissionInv
    <2>3. Len(words) > 1 /\ Head(words) = Bearer /\ words[1] = Bearer
      BY <2>2 DEF AdmissionInv, RequestInv, Passed, Clean
    <2>4. \A c \in Configured(file) : c.token \in Clean /\ Fingerprint(c.token) = c.token
      BY <2>1, ConfiguredTypes, FingerprintOfToken
    <2>5. Fingerprint(header[r]) = IF Len(words) = 2 THEN <<words[2]>> ELSE words
      BY <2>3 DEF Fingerprint, NormalizeBearerToken
    <2> HIDE DEF words
    <2>6. CASE Len(words) = 2
      <3>1. Tail(words) = <<words[2]>>  BY <2>2, <2>6, TailOfTwo DEF Clean
      <3>2. Fingerprint(header[r]) = caller[r].token  BY <2>1, <2>5, <2>6, <3>1
      <3>4. PICK c \in Configured(file) : payer[r] = c /\ Fingerprint(c.token) = Fingerprint(header[r])
        <4>1. caller[r] \in Configured(file) /\ Fingerprint(caller[r].token) = Fingerprint(header[r])
          BY <2>1, <2>4, <3>2, Zenon
        <4> QED  BY <4>1, PayerFacts, Zenon
      <3>5. c.token = caller[r].token  BY <2>4, <3>2, <3>4, Zenon
      <3>3. c = caller[r]  BY <2>1, <3>5, OneIdentity, Zenon
      <3> QED  BY <2>6, <3>3, <3>4 DEF OneWord, words
    <2>7. CASE Len(words) # 2
      <3>1. LikeHeader(words)  BY <2>3 DEF LikeHeader
      <3>2. payer[r] = None
        BY <2>4, <2>5, <2>7, <3>1, PayerFacts
      <3> QED  BY <2>7, <3>2 DEF OneWord, words
    <2> QED  BY <2>6, <2>7
  <1> QED  BY <1>1, AdmissionInvariant, PTL

\* A process only serves with the numbers that the other components rely on
\* (config.go:335-415, 434-534).
THEOREM SaneNumbersServed == AdmissionSpec => []ServesWithSaneNumbers
  <1>1. AdmissionInv => ServesWithSaneNumbers
    <2>1. AdmissionInv /\ phase = "serving" => file \in File /\ ~LoadRefused(file)
      BY AdmissionAssumption DEF AdmissionInv
    <2> QED  BY <2>1, SaneNumbers, Zenon DEF ServesWithSaneNumbers
  <1> QED  BY <1>1, AdmissionInvariant, PTL
=============================================================================
