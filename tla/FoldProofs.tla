----------------------------- MODULE FoldProofs -----------------------------
(***************************************************************************)
(* Facts about the folds of the community modules that the proofs about    *)
(* sums of coins and about loops over the store rest on.  A fold is a      *)
(* recursive function on the subsets of a finite set; that it exists, and  *)
(* what holds of it, is shown with minimal subsets.                        *)
(***************************************************************************)
EXTENDS Integers, FiniteSets, Folds, Functions, FiniteSetTheorems, TLAPS

\* A set of subsets of S that holds no subset all of whose proper subsets are
\* outside of it is empty.
LEMMA SubsetInduction ==
    ASSUME NEW S, IsFiniteSet(S), NEW D \in SUBSET SUBSET S,
           \A s \in SUBSET S : (\A u \in SUBSET s : u # s => u \notin D) => s \notin D
    PROVE  D = {}
<1> SUFFICES ASSUME D # {} PROVE FALSE
    OBVIOUS
<1>1. IsWellFoundedOn(StrictSubsetOrdering(S), SUBSET S)
  <2>1. IsWellFoundedOn(StrictSubsetOrdering(S), FiniteSubsetsOf(S))
      BY FS_StrictSubsetOrderingWellFounded
  <2>2. FiniteSubsetsOf(S) = SUBSET S
      BY FS_FiniteSubsetsOfFinite
  <2> QED BY <2>1, <2>2
<1>2. PICK s \in D : \A u \in D : <<u, s>> \notin StrictSubsetOrdering(S)
    BY <1>1, WFMin
<1>3. \A u \in SUBSET s : u # s => u \notin D
  <2> SUFFICES ASSUME NEW u \in SUBSET s, u # s, u \in D PROVE FALSE
      OBVIOUS
  <2>1. <<u, s>> \in (SUBSET S) \X (SUBSET S)
      OBVIOUS
  <2> QED BY <2>1, <1>2 DEF StrictSubsetOrdering
<1> QED BY <1>2, <1>3

-----------------------------------------------------------------------------
\* The recursion behind MapThenFoldSet, with the step and the choice of the next
\* element as functions.
Folding(it, S, base, step, pick) ==
    it = [s \in SUBSET S |-> IF s = {} THEN base ELSE step[<<pick[s], it[s \ {pick[s]}]>>]]

\* Two solutions agree where both are defined.
LEMMA FoldingUnique ==
    ASSUME NEW S, IsFiniteSet(S), NEW base, NEW step, NEW pick,
           \A s \in SUBSET S : s # {} => pick[s] \in s,
           NEW T \in SUBSET S, NEW U \in SUBSET S, NEW i, NEW j,
           Folding(i, T, base, step, pick), Folding(j, U, base, step, pick),
           NEW s \in SUBSET T, s \in SUBSET U
    PROVE  i[s] = j[s]
<1> DEFINE D == {u \in SUBSET S : u \in SUBSET T /\ u \in SUBSET U /\ i[u] # j[u]}
<1>1. ASSUME NEW u \in SUBSET S, \A t \in SUBSET u : t # u => t \notin D
      PROVE  u \notin D
  <2> SUFFICES ASSUME u \in SUBSET T, u \in SUBSET U PROVE i[u] = j[u]
      OBVIOUS
  <2>1. CASE u = {}
      BY <2>1 DEF Folding
  <2>2. CASE u # {}
    <3> DEFINE v == u \ {pick[u]}
    <3>1. v \in SUBSET u /\ v # u /\ v \in SUBSET S /\ v \in SUBSET T /\ v \in SUBSET U
        BY <2>2
    <3>2. i[v] = j[v]
        BY <1>1, <3>1
    <3>3. i[u] = step[<<pick[u], i[v]>>]
        BY <2>2, ZenonT(30) DEF Folding
    <3>4. j[u] = step[<<pick[u], j[v]>>]
        BY <2>2, ZenonT(30) DEF Folding
    <3> QED BY <3>2, <3>3, <3>4
  <2> QED BY <2>1, <2>2
<1>2. D = {}
  <2> HIDE DEF D
  <2>1. D \in SUBSET SUBSET S
      BY DEF D
  <2> QED BY <1>1, <2>1, SubsetInduction
<1> QED BY <1>2

\* There is a solution.
LEMMA FoldingExists ==
    ASSUME NEW S, IsFiniteSet(S), NEW base, NEW step, NEW pick,
           \A s \in SUBSET S : s # {} => pick[s] \in s
    PROVE  \E it : Folding(it, S, base, step, pick)
<1> DEFINE Solved(T) == \E it : Folding(it, T, base, step, pick)
           V(T) == (CHOOSE it : Folding(it, T, base, step, pick))[T]
           D == {T \in SUBSET S : ~Solved(T)}
<1>1. ASSUME NEW T \in SUBSET S, Solved(T)
      PROVE  \E it : Folding(it, T, base, step, pick) /\ V(T) = it[T]
  <2> DEFINE it0 == CHOOSE it : Folding(it, T, base, step, pick)
  <2>1. Folding(it0, T, base, step, pick)
      BY <1>1
  <2>2. V(T) = it0[T]
      OBVIOUS
  <2> HIDE DEF it0, V
  <2> QED BY <2>1, <2>2
<1>2. ASSUME NEW T \in SUBSET S, \A u \in SUBSET T : u # T => u \notin D
      PROVE  T \notin D
  <2> DEFINE it == [s \in SUBSET T |-> IF s = {} THEN base
                                       ELSE step[<<pick[s], V(s \ {pick[s]})>>]]
  <2>1. ASSUME NEW s \in SUBSET T, s # {}
        PROVE  V(s \ {pick[s]}) = it[s \ {pick[s]}]
    <3> DEFINE u == s \ {pick[s]}
    <3>1. u \in SUBSET T /\ u \in SUBSET S /\ u # T
        BY <2>1
    <3>2. Solved(u)
        BY <1>2, <3>1
    <3>3. PICK i : Folding(i, u, base, step, pick) /\ V(u) = i[u]
        BY <1>1, <3>1, <3>2, ZenonT(30)
    <3>4. CASE u = {}
      <4>1. i[u] = base
          BY <3>3, <3>4 DEF Folding
      <4>2. it[u] = base
          BY <3>1, <3>4
      <4> QED BY <3>3, <4>1, <4>2
    <3>5. CASE u # {}
      <4> DEFINE w == u \ {pick[u]}
      <4>1. w \in SUBSET u /\ w \in SUBSET T /\ w \in SUBSET S /\ w # T
          BY <3>1
      <4>2. Solved(w)
          BY <1>2, <4>1
      <4>3. PICK j : Folding(j, w, base, step, pick) /\ V(w) = j[w]
          BY <1>1, <4>1, <4>2, ZenonT(30)
      <4>4. i[w] = j[w]
          BY <3>1, <3>3, <4>1, <4>3, FoldingUnique
      <4>5. i[u] = step[<<pick[u], i[w]>>]
          BY <3>3, <3>5, ZenonT(30) DEF Folding
      <4>6. it[u] = step[<<pick[u], V(w)>>]
          BY <3>1, <3>5
      <4> QED BY <3>3, <4>3, <4>4, <4>5, <4>6
    <3> QED BY <3>4, <3>5
  <2>2. Folding(it, T, base, step, pick)
    <3> HIDE DEF V
    <3> QED BY <2>1, ZenonT(30) DEF Folding
  <2> QED BY <2>2
<1>3. D = {}
  <2> HIDE DEF D
  <2>1. D \in SUBSET SUBSET S
      BY DEF D
  <2> QED BY <1>2, <2>1, SubsetInduction
<1> QED BY <1>3

\* A solution stays in a set that its steps do not leave.
LEMMA FoldingClosed ==
    ASSUME NEW S, IsFiniteSet(S), NEW V, NEW base \in V, NEW step, NEW pick,
           \A s \in SUBSET S : s # {} => pick[s] \in s,
           \A x \in S, a \in V : step[<<x, a>>] \in V,
           NEW it, Folding(it, S, base, step, pick)
    PROVE  it \in [SUBSET S -> V]
<1> DEFINE D == {s \in SUBSET S : it[s] \notin V}
<1>1. ASSUME NEW s \in SUBSET S, \A u \in SUBSET s : u # s => u \notin D
      PROVE  s \notin D
  <2>1. CASE s = {}
      BY <2>1 DEF Folding
  <2>2. CASE s # {}
    <3> DEFINE u == s \ {pick[s]}
    <3>1. u \in SUBSET S /\ u \in SUBSET s /\ u # s /\ pick[s] \in S
        BY <2>2
    <3>2. it[u] \in V
        BY <1>1, <3>1
    <3>3. it[s] = step[<<pick[s], it[u]>>]
        BY <2>2, ZenonT(30) DEF Folding
    <3> HIDE DEF u
    <3> QED BY <3>1, <3>2, <3>3
  <2> QED BY <2>1, <2>2
<1>2. D = {}
  <2> HIDE DEF D
  <2>1. D \in SUBSET SUBSET S
      BY DEF D
  <2> QED BY <1>1, <2>1, SubsetInduction
<1>3. \A s \in SUBSET S : it[s] \in V
    BY <1>2
<1> QED BY <1>3, ZenonT(30) DEF Folding

-----------------------------------------------------------------------------
(* Sums of a function over a set of its arguments.                         *)

Pick(s) == CHOOSE x \in s : TRUE
Summing(it, f, S) ==
    it = [s \in SUBSET S |-> IF s = {} THEN 0 ELSE f[Pick(s)] + it[s \ {Pick(s)}]]

IsIntOn(f, S) == \A x \in S : f[x] \in Int

\* SumFunction is the sum over all arguments.
LEMMA SumAll ==
    ASSUME NEW f, NEW S, DOMAIN f = S
    PROVE  SumFunction(f) = SumFunctionOnSet(f, S)
BY DEF SumFunction

\* The sum as a recursion.
LEMMA SumUnfold ==
    ASSUME NEW f, NEW S
    PROVE  SumFunctionOnSet(f, S) = (CHOOSE it : Summing(it, f, S))[S]
BY DEF SumFunctionOnSet, FoldFunctionOnSet, MapThenFoldSet, Summing, Pick

Adding(f, S) == [p \in S \X Int |-> f[p[1]] + p[2]]
Picking(S) == [s \in SUBSET S |-> Pick(s)]

\* What the fold picks from a set is in it.
LEMMA PickingPicks ==
    ASSUME NEW S, NEW T \in SUBSET S
    PROVE  \A s \in SUBSET T : s # {} => Picking(S)[s] \in s /\ Picking(S)[s] = Pick(s)
BY DEF Picking, Pick

\* A solution for integers has integers.
LEMMA SummingInt ==
    ASSUME NEW S, IsFiniteSet(S), NEW f, IsIntOn(f, S), NEW it, Summing(it, f, S)
    PROVE  it \in [SUBSET S -> Int]
<1> DEFINE D == {s \in SUBSET S : it[s] \notin Int}
<1>1. ASSUME NEW s \in SUBSET S, \A u \in SUBSET s : u # s => u \notin D
      PROVE  s \notin D
  <2>1. CASE s = {}
      BY <2>1 DEF Summing
  <2>2. CASE s # {}
    <3> DEFINE u == s \ {Pick(s)}
    <3>1. Pick(s) \in s
        BY <2>2 DEF Pick
    <3>2. u \in SUBSET S /\ u \in SUBSET s /\ u # s /\ f[Pick(s)] \in Int
        BY <3>1 DEF IsIntOn
    <3>3. it[u] \in Int
        BY <1>1, <3>2
    <3>4. it[s] = f[Pick(s)] + it[u]
        BY <2>2, ZenonT(30) DEF Summing
    <3> QED BY <3>2, <3>3, <3>4
  <2> QED BY <2>1, <2>2
<1>2. D = {}
  <2> HIDE DEF D
  <2>1. D \in SUBSET SUBSET S
      BY DEF D
  <2> QED BY <1>1, <2>1, SubsetInduction
<1>3. \A s \in SUBSET S : it[s] \in Int
    BY <1>2
<1> QED BY <1>3, ZenonT(30) DEF Summing

\* The two recursions have the same solutions.
LEMMA SummingFolds ==
    ASSUME NEW S, IsFiniteSet(S), NEW f, IsIntOn(f, S), NEW T \in SUBSET S, NEW it
    PROVE  Folding(it, T, 0, Adding(f, S), Picking(S)) <=> Summing(it, f, T) /\ it \in [SUBSET T -> Int]
<1>0. IsFiniteSet(T)
    BY FS_Subset
<1>1. ASSUME NEW i, i \in [SUBSET T -> Int], NEW s \in SUBSET T, s # {}
      PROVE  Adding(f, S)[<<Picking(S)[s], i[s \ {Picking(S)[s]}]>>] = f[Pick(s)] + i[s \ {Pick(s)}]
  <2>1. Picking(S)[s] = Pick(s) /\ Pick(s) \in S /\ s \ {Pick(s)} \in SUBSET T
      BY <1>1, PickingPicks, ZenonT(30)
  <2>2. i[s \ {Pick(s)}] \in Int
      BY <1>1, <2>1
  <2> QED BY <2>1, <2>2 DEF Adding
<1>2. ASSUME Folding(it, T, 0, Adding(f, S), Picking(S))
      PROVE  Summing(it, f, T) /\ it \in [SUBSET T -> Int]
  <2>1. \A x \in T, a \in Int : Adding(f, S)[<<x, a>>] \in Int
      BY DEF Adding, IsIntOn
  <2>2. it \in [SUBSET T -> Int]
    <3>1. \A s \in SUBSET T : s # {} => Picking(S)[s] \in s
        BY PickingPicks, ZenonT(30)
    <3>2. 0 \in Int
        OBVIOUS
    <3> QED BY <1>0, <1>2, <2>1, <3>1, <3>2, FoldingClosed, ZenonT(30)
  <2>3. \A s \in SUBSET T : s # {} => it[s] = f[Pick(s)] + it[s \ {Pick(s)}]
      BY <1>1, <1>2, <2>2, ZenonT(30) DEF Folding
  <2>4. it[{}] = 0
      BY <1>2 DEF Folding
  <2> QED BY <2>2, <2>3, <2>4, ZenonT(30) DEF Summing
<1>3. ASSUME Summing(it, f, T), it \in [SUBSET T -> Int]
      PROVE  Folding(it, T, 0, Adding(f, S), Picking(S))
  <2>1. \A s \in SUBSET T : s # {} =>
            it[s] = Adding(f, S)[<<Picking(S)[s], it[s \ {Picking(S)[s]}]>>]
      BY <1>1, <1>3, ZenonT(30) DEF Summing
  <2>2. it[{}] = 0
      BY <1>3 DEF Summing
  <2> QED BY <1>3, <2>1, <2>2, ZenonT(30) DEF Folding
<1> QED BY <1>2, <1>3

\* There is a solution.
LEMMA SummingExists ==
    ASSUME NEW S, IsFiniteSet(S), NEW f, IsIntOn(f, S)
    PROVE  \E it : Summing(it, f, S)
<1>1. \A s \in SUBSET S : s # {} => Picking(S)[s] \in s
    BY PickingPicks
<1>2. PICK it : Folding(it, S, 0, Adding(f, S), Picking(S))
    BY <1>1, FoldingExists, ZenonT(30)
<1> QED BY <1>2, SummingFolds, ZenonT(30)

\* What any solution gives is the sum.
LEMMA SumIs ==
    ASSUME NEW S, IsFiniteSet(S), NEW f, IsIntOn(f, S), NEW it, Summing(it, f, S),
           NEW T \in SUBSET S
    PROVE  SumFunctionOnSet(f, T) = it[T]
<1> DEFINE jt == CHOOSE j : Summing(j, f, T)
<1>1. IsFiniteSet(T) /\ IsIntOn(f, T)
    BY FS_Subset DEF IsIntOn
<1>2. Summing(jt, f, T)
    BY <1>1, SummingExists
<1>3. SumFunctionOnSet(f, T) = jt[T]
    BY SumUnfold
<1> HIDE DEF jt
<1>4. Folding(jt, T, 0, Adding(f, S), Picking(S))
    BY <1>1, <1>2, SummingInt, SummingFolds, ZenonT(30)
<1>5. Folding(it, S, 0, Adding(f, S), Picking(S))
    BY SummingInt, SummingFolds, ZenonT(30)
<1>6. \A s \in SUBSET S : s # {} => Picking(S)[s] \in s
    BY PickingPicks, ZenonT(30)
<1>7. jt[T] = it[T]
    BY <1>4, <1>5, <1>6, FoldingUnique
<1> QED BY <1>3, <1>7

\* The sum over no argument.
LEMMA SumEmpty ==
    ASSUME NEW f
    PROVE  SumFunctionOnSet(f, {}) = 0
<1>1. IsFiniteSet({}) /\ IsIntOn(f, {})
    BY FS_EmptySet DEF IsIntOn
<1>2. PICK it : Summing(it, f, {})
    BY <1>1, SummingExists
<1>3. SumFunctionOnSet(f, {}) = it[{}]
    BY <1>1, <1>2, SumIs
<1> QED BY <1>2, <1>3 DEF Summing

\* A sum of integers is one.
LEMMA SumInt ==
    ASSUME NEW S, IsFiniteSet(S), NEW f, IsIntOn(f, S)
    PROVE  SumFunctionOnSet(f, S) \in Int
<1>1. PICK it : Summing(it, f, S)
    BY SummingExists
<1>2. SumFunctionOnSet(f, S) = it[S]
    BY <1>1, SumIs
<1>3. it \in [SUBSET S -> Int]
    BY <1>1, SummingInt, ZenonT(30)
<1> QED BY <1>2, <1>3

\* The sum, with the argument taken first that the fold picks.
LEMMA SumPicked ==
    ASSUME NEW S, IsFiniteSet(S), S # {}, NEW f, IsIntOn(f, S)
    PROVE  SumFunctionOnSet(f, S) = f[Pick(S)] + SumFunctionOnSet(f, S \ {Pick(S)})
<1>1. PICK it : Summing(it, f, S)
    BY SummingExists
<1>2. SumFunctionOnSet(f, S) = it[S]
    BY <1>1, SumIs
<1>3. SumFunctionOnSet(f, S \ {Pick(S)}) = it[S \ {Pick(S)}]
    BY <1>1, SumIs
<1>4. it[S] = f[Pick(S)] + it[S \ {Pick(S)}]
    BY <1>1, ZenonT(30) DEF Summing
<1> QED BY <1>2, <1>3, <1>4

\* Any element can be taken first.
LEMMA SumRemove ==
    ASSUME NEW S, IsFiniteSet(S), NEW f, IsIntOn(f, S), NEW x \in S
    PROVE  SumFunctionOnSet(f, S) = f[x] + SumFunctionOnSet(f, S \ {x})
<1> DEFINE Sum(s) == SumFunctionOnSet(f, s)
           D == {s \in SUBSET S : ~ \A y \in s : Sum(s) = f[y] + Sum(s \ {y})}
<1>0. \A s \in SUBSET S : IsFiniteSet(s) /\ IsIntOn(f, s) /\ Sum(s) \in Int
    BY FS_Subset, SumInt DEF IsIntOn
<1>1. ASSUME NEW s \in SUBSET S, \A u \in SUBSET s : u # s => u \notin D
      PROVE  s \notin D
  <2> SUFFICES ASSUME NEW y \in s PROVE Sum(s) = f[y] + Sum(s \ {y})
      OBVIOUS
  <2> DEFINE p == Pick(s)
  <2>1. p \in s
      BY DEF Pick
  <2>2. Sum(s) = f[p] + Sum(s \ {p})
      BY <1>0, SumPicked, ZenonT(30)
  <2> HIDE DEF p, Sum
  <2>3. CASE y = p
      BY <2>2, <2>3
  <2>4. CASE y # p
    <3>1. s \ {p} \in SUBSET s /\ s \ {p} # s /\ s \ {y} \in SUBSET s /\ s \ {y} # s
        BY <2>1
    <3>2. Sum(s \ {p}) = f[y] + Sum((s \ {p}) \ {y})
        BY <1>1, <3>1, <2>4
    <3>3. Sum(s \ {y}) = f[p] + Sum((s \ {y}) \ {p})
        BY <1>1, <3>1, <2>1, <2>4
    <3>4. (s \ {p}) \ {y} = (s \ {y}) \ {p}
        OBVIOUS
    <3>5. f[p] \in Int /\ f[y] \in Int /\ Sum((s \ {y}) \ {p}) \in Int
        BY <1>0, <2>1 DEF IsIntOn
    <3>6. Sum((s \ {p}) \ {y}) = Sum((s \ {y}) \ {p})
        BY <3>4
    <3> DEFINE r == Sum((s \ {y}) \ {p})
    <3>7. r \in Int /\ Sum(s \ {p}) = f[y] + r /\ Sum(s \ {y}) = f[p] + r
        BY <3>2, <3>3, <3>5, <3>6
    <3> HIDE DEF D, r
    <3> QED BY <2>2, <3>5, <3>7
  <2> QED BY <2>3, <2>4
<1>2. D = {}
  <2> HIDE DEF D
  <2>1. D \in SUBSET SUBSET S
      BY DEF D
  <2> QED BY <1>1, <2>1, SubsetInduction
<1> QED BY <1>2

\* One more argument.
LEMMA SumAdd ==
    ASSUME NEW S, IsFiniteSet(S), NEW x, x \notin S, NEW f, IsIntOn(f, S \cup {x})
    PROVE  SumFunctionOnSet(f, S \cup {x}) = f[x] + SumFunctionOnSet(f, S)
<1>1. IsFiniteSet(S \cup {x}) /\ x \in S \cup {x} /\ (S \cup {x}) \ {x} = S
    BY FS_AddElement
<1> QED BY <1>1, SumRemove

\* The sum of a sum of functions.
LEMMA SumPlus ==
    ASSUME NEW S, IsFiniteSet(S), NEW f, IsIntOn(f, S), NEW g, IsIntOn(g, S),
           NEW h, \A x \in S : h[x] = f[x] + g[x]
    PROVE  SumFunctionOnSet(h, S) = SumFunctionOnSet(f, S) + SumFunctionOnSet(g, S)
<1> DEFINE Sum(k, s) == SumFunctionOnSet(k, s)
           D == {s \in SUBSET S : Sum(h, s) # Sum(f, s) + Sum(g, s)}
<1>0. \A s \in SUBSET S : IsFiniteSet(s) /\ IsIntOn(f, s) /\ IsIntOn(g, s) /\ IsIntOn(h, s)
    BY FS_Subset DEF IsIntOn
<1>1. ASSUME NEW s \in SUBSET S, \A u \in SUBSET s : u # s => u \notin D
      PROVE  s \notin D
  <2>1. CASE s = {}
      BY <2>1, SumEmpty
  <2>2. CASE s # {}
    <3> DEFINE p == Pick(s)
               u == s \ {p}
    <3>1. p \in s
        BY <2>2 DEF Pick
    <3>2. Sum(f, s) = f[p] + Sum(f, u) /\ Sum(g, s) = g[p] + Sum(g, u) /\ Sum(h, s) = h[p] + Sum(h, u)
        BY <1>0, <2>2, SumPicked, ZenonT(30)
    <3>3. u \in SUBSET S /\ u \in SUBSET s /\ u # s
        BY <3>1
    <3>4. Sum(f, u) \in Int /\ Sum(g, u) \in Int
        BY <1>0, <3>3, SumInt, ZenonT(30)
    <3>5. Sum(h, u) = Sum(f, u) + Sum(g, u)
        BY <1>1, <3>3
    <3>6. f[p] \in Int /\ g[p] \in Int /\ h[p] = f[p] + g[p]
        BY <3>1 DEF IsIntOn
    <3> HIDE DEF p, u, Sum
    <3>7. Sum(h, s) = Sum(f, s) + Sum(g, s)
      <4> HIDE DEF D
      <4> QED BY <3>2, <3>4, <3>5, <3>6
    <3> QED BY <3>7
  <2> QED BY <2>1, <2>2
<1>2. D = {}
  <2> HIDE DEF D
  <2>1. D \in SUBSET SUBSET S
      BY DEF D
  <2> QED BY <1>1, <2>1, SubsetInduction
<1> QED BY <1>2

\* A sum of zeros.
LEMMA SumZero ==
    ASSUME NEW S, IsFiniteSet(S), NEW f, \A x \in S : f[x] = 0
    PROVE  SumFunctionOnSet(f, S) = 0
<1>1. IsIntOn(f, S)
    BY DEF IsIntOn
<1>2. SumFunctionOnSet(f, S) = SumFunctionOnSet(f, S) + SumFunctionOnSet(f, S)
    BY <1>1, SumPlus
<1>3. SumFunctionOnSet(f, S) \in Int
    BY <1>1, SumInt
<1>4. \A n \in Int : n = n + n => n = 0
    OBVIOUS
<1> QED BY <1>2, <1>3, <1>4

\* The sum depends on the values on the set only.
LEMMA SumSame ==
    ASSUME NEW S, IsFiniteSet(S), NEW f, IsIntOn(f, S), NEW g, \A x \in S : g[x] = f[x]
    PROVE  SumFunctionOnSet(g, S) = SumFunctionOnSet(f, S)
<1> DEFINE z == [x \in S |-> 0]
<1>1. IsIntOn(z, S) /\ \A x \in S : g[x] = f[x] + z[x]
    BY DEF IsIntOn
<1>2. SumFunctionOnSet(z, S) = 0
    BY SumZero
<1>3. SumFunctionOnSet(g, S) = SumFunctionOnSet(f, S) + SumFunctionOnSet(z, S)
    BY <1>1, SumPlus
<1>4. SumFunctionOnSet(f, S) \in Int
    BY SumInt
<1> QED BY <1>2, <1>3, <1>4

\* What a change of the value of one argument does to the sum.
LEMMA SumUpdate ==
    ASSUME NEW S, IsFiniteSet(S), NEW f, IsIntOn(f, S), NEW g, NEW x \in S, g[x] \in Int,
           \A y \in S \ {x} : g[y] = f[y]
    PROVE  SumFunctionOnSet(g, S) = SumFunctionOnSet(f, S) - f[x] + g[x]
<1>1. IsIntOn(g, S) /\ IsIntOn(f, S \ {x}) /\ f[x] \in Int
    BY DEF IsIntOn
<1>2. IsFiniteSet(S \ {x})
    BY FS_Subset
<1>3. SumFunctionOnSet(g, S \ {x}) = SumFunctionOnSet(f, S \ {x})
    BY <1>1, <1>2, SumSame
<1>4. SumFunctionOnSet(f, S) = f[x] + SumFunctionOnSet(f, S \ {x})
    BY SumRemove
<1>5. SumFunctionOnSet(g, S) = g[x] + SumFunctionOnSet(g, S \ {x})
    BY <1>1, SumRemove
<1>6. SumFunctionOnSet(f, S \ {x}) \in Int
    BY <1>1, <1>2, SumInt
<1> QED BY <1>1, <1>3, <1>4, <1>5, <1>6

\* The sum of a difference of functions.
LEMMA SumMinus ==
    ASSUME NEW S, IsFiniteSet(S), NEW f, IsIntOn(f, S), NEW g, IsIntOn(g, S),
           NEW h, \A x \in S : h[x] = f[x] - g[x]
    PROVE  SumFunctionOnSet(h, S) = SumFunctionOnSet(f, S) - SumFunctionOnSet(g, S)
<1>1. IsIntOn(h, S) /\ \A x \in S : f[x] = h[x] + g[x]
    BY DEF IsIntOn
<1>2. SumFunctionOnSet(f, S) = SumFunctionOnSet(h, S) + SumFunctionOnSet(g, S)
    BY <1>1, SumPlus
<1>3. SumFunctionOnSet(f, S) \in Int /\ SumFunctionOnSet(h, S) \in Int /\ SumFunctionOnSet(g, S) \in Int
    BY <1>1, SumInt
<1> QED BY <1>2, <1>3

\* A sum over two sets that are disjoint.
LEMMA SumUnion ==
    ASSUME NEW S, IsFiniteSet(S), NEW T, IsFiniteSet(T), S \cap T = {},
           NEW f, IsIntOn(f, S \cup T)
    PROVE  SumFunctionOnSet(f, S \cup T) = SumFunctionOnSet(f, S) + SumFunctionOnSet(f, T)
<1> DEFINE Sum(s) == SumFunctionOnSet(f, s)
           D == {s \in SUBSET T : Sum(S \cup s) # Sum(S) + Sum(s)}
<1>0. IsIntOn(f, S) /\ Sum(S) \in Int
    BY SumInt DEF IsIntOn
<1>1. ASSUME NEW s \in SUBSET T, \A u \in SUBSET s : u # s => u \notin D
      PROVE  s \notin D
  <2>0. IsFiniteSet(s) /\ IsFiniteSet(S \cup s) /\ IsIntOn(f, s) /\ IsIntOn(f, S \cup s)
      BY FS_Subset, FS_Union, ZenonT(30) DEF IsIntOn
  <2>1. CASE s = {}
    <3>1. S \cup s = S /\ Sum(s) = 0
        BY <2>1, SumEmpty
    <3>2. Sum(S \cup s) = Sum(S)
        BY <3>1
    <3>3. \A n \in Int : n = n + 0
        OBVIOUS
    <3> HIDE DEF Sum
    <3>4. Sum(S \cup s) = Sum(S) + Sum(s)
      <4> HIDE DEF D
      <4> QED BY <1>0, <3>1, <3>2, <3>3
    <3> QED BY <3>4
  <2>2. CASE s # {}
    <3> DEFINE p == Pick(s)
               u == s \ {p}
    <3>1. p \in s /\ p \in S \cup s /\ (S \cup s) \ {p} = S \cup u
        BY <2>2 DEF Pick
    <3>2. Sum(s) = f[p] + Sum(u)
        BY <2>0, <2>2, SumPicked, SMTT(30)
    <3>3. Sum(S \cup s) = f[p] + Sum(S \cup u)
      <4>1. Sum(S \cup s) = f[p] + Sum((S \cup s) \ {p})
          BY <2>0, <3>1, SumRemove
      <4> QED BY <3>1, <4>1
    <3>4. u \in SUBSET s /\ u # s /\ u \in SUBSET T
        BY <3>1
    <3>5. Sum(S \cup u) = Sum(S) + Sum(u)
        BY <1>1, <3>4
    <3>6. IsFiniteSet(u) /\ IsIntOn(f, u) /\ f[p] \in Int
        BY <2>0, <3>1, <3>4, FS_Subset DEF IsIntOn
    <3>7. Sum(u) \in Int
        BY <3>6, SumInt
    <3> HIDE DEF p, u, Sum
    <3>8. Sum(S \cup s) = Sum(S) + Sum(s)
      <4> HIDE DEF D
      <4> QED BY <1>0, <3>2, <3>3, <3>5, <3>6, <3>7
    <3> QED BY <3>8
  <2> QED BY <2>1, <2>2
<1>2. D = {}
  <2> HIDE DEF D
  <2>1. D \in SUBSET SUBSET T
      BY DEF D
  <2> QED BY <1>1, <2>1, SubsetInduction
<1> QED BY <1>2

\* The sum of the multiples of a function.
LEMMA SumScale ==
    ASSUME NEW S, IsFiniteSet(S), NEW f, IsIntOn(f, S), NEW k \in Int,
           NEW g, \A x \in S : g[x] = f[x] * k
    PROVE  SumFunctionOnSet(g, S) = SumFunctionOnSet(f, S) * k
<1> DEFINE Sum(h, s) == SumFunctionOnSet(h, s)
           D == {s \in SUBSET S : Sum(g, s) # Sum(f, s) * k}
<1>0. \A s \in SUBSET S : IsFiniteSet(s) /\ IsIntOn(f, s) /\ IsIntOn(g, s)
    BY FS_Subset DEF IsIntOn
<1>1. ASSUME NEW s \in SUBSET S, \A u \in SUBSET s : u # s => u \notin D
      PROVE  s \notin D
  <2>1. CASE s = {}
    <3>1. Sum(f, s) = 0 /\ Sum(g, s) = 0
        BY <2>1, SumEmpty
    <3> HIDE DEF Sum
    <3>2. Sum(g, s) = Sum(f, s) * k
        BY <3>1
    <3> QED BY <3>2
  <2>2. CASE s # {}
    <3> DEFINE p == Pick(s)
               u == s \ {p}
    <3>1. p \in s
        BY <2>2 DEF Pick
    <3>2. Sum(f, s) = f[p] + Sum(f, u) /\ Sum(g, s) = g[p] + Sum(g, u)
        BY <1>0, <2>2, SumPicked, ZenonT(30)
    <3>3. u \in SUBSET S /\ u \in SUBSET s /\ u # s
        BY <3>1
    <3>4. Sum(f, u) \in Int
        BY <1>0, <3>3, SumInt, ZenonT(30)
    <3>5. Sum(g, u) = Sum(f, u) * k
        BY <1>1, <3>3
    <3>6. f[p] \in Int /\ g[p] = f[p] * k
        BY <3>1 DEF IsIntOn
    <3> HIDE DEF p, u, Sum
    <3>7. \A a, b \in Int : a * k + b * k = (a + b) * k
        OBVIOUS
    <3>8. Sum(g, s) = Sum(f, s) * k
      <4> HIDE DEF D
      <4> QED BY <3>2, <3>4, <3>5, <3>6, <3>7
    <3> QED BY <3>8
  <2> QED BY <2>1, <2>2
<1>2. D = {}
  <2> HIDE DEF D
  <2>1. D \in SUBSET SUBSET S
      BY DEF D
  <2> QED BY <1>1, <2>1, SubsetInduction
<1> QED BY <1>2

\* A sum of natural numbers is one.
LEMMA SumNat ==
    ASSUME NEW S, IsFiniteSet(S), NEW f, \A x \in S : f[x] \in Nat
    PROVE  SumFunctionOnSet(f, S) \in Nat
<1> DEFINE Sum(s) == SumFunctionOnSet(f, s)
           D == {s \in SUBSET S : Sum(s) \notin Nat}
<1>0. \A s \in SUBSET S : IsFiniteSet(s) /\ IsIntOn(f, s)
    BY FS_Subset DEF IsIntOn
<1>1. ASSUME NEW s \in SUBSET S, \A u \in SUBSET s : u # s => u \notin D
      PROVE  s \notin D
  <2>1. CASE s = {}
      BY <2>1, SumEmpty
  <2>2. CASE s # {}
    <3> DEFINE p == Pick(s)
               u == s \ {p}
    <3>1. p \in s
        BY <2>2 DEF Pick
    <3>2. Sum(s) = f[p] + Sum(u)
        BY <1>0, <2>2, SumPicked, ZenonT(30)
    <3>3. u \in SUBSET S /\ u \in SUBSET s /\ u # s /\ f[p] \in Nat
        BY <3>1
    <3>4. Sum(u) \in Nat
        BY <1>1, <3>3
    <3> HIDE DEF p, u, Sum
    <3>5. Sum(s) \in Nat
      <4> HIDE DEF D
      <4> QED BY <3>2, <3>3, <3>4
    <3> QED BY <3>5
  <2> QED BY <2>1, <2>2
<1>2. D = {}
  <2> HIDE DEF D
  <2>1. D \in SUBSET SUBSET S
      BY DEF D
  <2> QED BY <1>1, <2>1, SubsetInduction
<1> QED BY <1>2

\* No summand is above the sum.
LEMMA SumBounds ==
    ASSUME NEW S, IsFiniteSet(S), NEW f, \A x \in S : f[x] \in Nat, NEW x \in S
    PROVE  f[x] <= SumFunctionOnSet(f, S)
<1>1. IsIntOn(f, S) /\ IsFiniteSet(S \ {x})
    BY FS_Subset DEF IsIntOn
<1>2. SumFunctionOnSet(f, S) = f[x] + SumFunctionOnSet(f, S \ {x})
    BY <1>1, SumRemove
<1>3. SumFunctionOnSet(f, S \ {x}) \in Nat
    BY <1>1, SumNat
<1> QED BY <1>2, <1>3

\* A row of a table is summed like a function of its columns.
LEMMA SumRow ==
    ASSUME NEW S, IsFiniteSet(S), NEW y, NEW f, \A x \in S : f[<<x, y>>] \in Int
    PROVE  SumFunctionOnSet(f, S \X {y}) = SumFunctionOnSet([x \in S |-> f[<<x, y>>]], S)
<1> DEFINE h == [x \in S |-> f[<<x, y>>]]
           D == {s \in SUBSET S : SumFunctionOnSet(f, s \X {y}) # SumFunctionOnSet(h, s)}
<1>1. ASSUME NEW s \in SUBSET S, \A u \in SUBSET s : u # s => u \notin D
      PROVE  s \notin D
  <2>0. IsFiniteSet(s) /\ IsFiniteSet(s \X {y})
    <3>1. IsFiniteSet(s) /\ IsFiniteSet({y})
        BY FS_Subset, FS_Singleton, ZenonT(30)
    <3> QED BY <3>1, FS_Product
  <2>1. IsIntOn(h, s) /\ IsIntOn(f, s \X {y})
    <3>1. \A x \in s : h[x] \in Int
        OBVIOUS
    <3>2. \A x \in s : f[<<x, y>>] \in Int
        OBVIOUS
    <3>3. \A q \in s \X {y} : f[q] \in Int
        BY ONLY <3>2
    <3> QED BY <3>1, <3>3, ZenonT(30) DEF IsIntOn
  <2>2. CASE s = {}
    <3>1. s \X {y} = {}
        BY <2>2
    <3>2. SumFunctionOnSet(f, s \X {y}) = 0
        BY <3>1, SumEmpty
    <3>3. SumFunctionOnSet(h, s) = 0
        BY <2>2, SumEmpty
    <3> QED BY <3>2, <3>3
  <2>3. CASE s # {}
    <3> DEFINE p == Pick(s)
               u == s \ {p}
    <3>1. p \in s /\ p \in S
        BY <2>3 DEF Pick
    <3>2. SumFunctionOnSet(h, s) = h[p] + SumFunctionOnSet(h, u)
        BY <2>0, <2>1, <2>3, SumPicked, ZenonT(30)
    <3> HIDE DEF p
    <3>3. u \in SUBSET S /\ u \in SUBSET s /\ u # s
        BY <3>1
    <3>4. SumFunctionOnSet(f, u \X {y}) = SumFunctionOnSet(h, u)
        BY <1>1, <3>3
    <3>5. <<p, y>> \in s \X {y} /\ (s \X {y}) \ {<<p, y>>} = u \X {y}
        BY <3>1
    <3>6. SumFunctionOnSet(f, s \X {y}) = f[<<p, y>>] + SumFunctionOnSet(f, (s \X {y}) \ {<<p, y>>})
        BY <2>0, <2>1, <3>5, SumRemove
    <3>7. h[p] = f[<<p, y>>]
        BY <3>1
    <3> HIDE DEF h, u
    <3>8. SumFunctionOnSet(f, s \X {y}) = SumFunctionOnSet(h, s)
        BY <3>2, <3>4, <3>5, <3>6, <3>7, ZenonT(30)
    <3> QED BY <3>8
  <2> QED BY <2>2, <2>3
<1>2. D = {}
  <2> HIDE DEF D
  <2>1. D \in SUBSET SUBSET S
      BY DEF D
  <2> QED BY <1>1, <2>1, SubsetInduction, SMTT(30)
<1> QED BY <1>2

\* A sum over pairs is a sum of sums.
LEMMA SumProduct ==
    ASSUME NEW S, IsFiniteSet(S), NEW T, IsFiniteSet(T), NEW f, IsIntOn(f, S \X T),
           NEW rows, \A x \in S, y \in T : rows[y][x] = f[<<x, y>>],
           NEW g, \A y \in T : g[y] = SumFunctionOnSet(rows[y], S)
    PROVE  SumFunctionOnSet(f, S \X T) = SumFunctionOnSet(g, T)
<1> DEFINE D == {s \in SUBSET T : SumFunctionOnSet(f, S \X s) # SumFunctionOnSet(g, s)}
<1>0. \A y \in T : g[y] \in Int
  <2> SUFFICES ASSUME NEW y \in T PROVE g[y] \in Int
      OBVIOUS
  <2>1. IsIntOn(rows[y], S)
      BY ZenonT(30) DEF IsIntOn
  <2>2. SumFunctionOnSet(rows[y], S) \in Int
      BY <2>1, SumInt
  <2> QED BY <2>2
<1>3. ASSUME NEW y \in T
      PROVE  SumFunctionOnSet(f, S \X {y}) = g[y]
  <2>1. \A x \in S : f[<<x, y>>] \in Int
      BY DEF IsIntOn
  <2>2. \A x \in S : rows[y][x] = f[<<x, y>>]
      OBVIOUS
  <2>3. IsFiniteSet(S)
      OBVIOUS
  <2>4. SumFunctionOnSet(f, S \X {y}) = SumFunctionOnSet(rows[y], S)
    <3> DEFINE h == [x \in S |-> f[<<x, y>>]]
    <3>1. SumFunctionOnSet(f, S \X {y}) = SumFunctionOnSet(h, S)
        BY ONLY <2>1, <2>3, SumRow, ZenonT(30)
    <3>2. IsIntOn(h, S) /\ \A x \in S : rows[y][x] = h[x]
        BY <2>1, <2>2 DEF IsIntOn
    <3> HIDE DEF h
    <3> QED BY <2>3, <3>1, <3>2, SumSame
  <2> QED BY <2>4
<1>1. ASSUME NEW s \in SUBSET T, \A u \in SUBSET s : u # s => u \notin D
      PROVE  s \notin D
  <2>0. IsFiniteSet(s) /\ IsIntOn(g, s)
      BY <1>0, FS_Subset DEF IsIntOn
  <2>1. CASE s = {}
    <3>1. S \X s = {}
        BY <2>1
    <3>2. SumFunctionOnSet(f, S \X s) = 0
        BY <3>1, SumEmpty, ZenonT(30)
    <3>3. SumFunctionOnSet(g, s) = 0
        BY <2>1, SumEmpty
    <3> QED BY <3>2, <3>3
  <2>2. CASE s # {}
    <3> DEFINE p == Pick(s)
               u == s \ {p}
    <3>1. p \in s /\ p \in T
        BY <2>2 DEF Pick
    <3>2. SumFunctionOnSet(g, s) = g[p] + SumFunctionOnSet(g, u)
        BY <2>0, <2>2, SumPicked, ZenonT(30)
    <3>3. u \in SUBSET T /\ u \in SUBSET s /\ u # s
        BY <3>1
    <3>4. SumFunctionOnSet(f, S \X u) = SumFunctionOnSet(g, u)
        BY <1>1, <3>3
    <3> HIDE DEF p
    <3>5. SumFunctionOnSet(f, S \X {p}) = g[p]
        BY <1>3, <3>1
    <3>6. S \X s = (S \X u) \cup (S \X {p}) /\ (S \X u) \cap (S \X {p}) = {}
        BY <3>1
    <3>7. IsFiniteSet(S \X u) /\ IsFiniteSet(S \X {p})
      <4>1. IsFiniteSet(u) /\ IsFiniteSet({p})
          BY <3>3, FS_Subset, FS_Singleton
      <4> QED BY <4>1, FS_Product
    <3>8. IsIntOn(f, (S \X u) \cup (S \X {p})) /\ IsIntOn(f, S \X u)
        BY <3>1, <3>3 DEF IsIntOn
    <3>9. SumFunctionOnSet(f, S \X s) = SumFunctionOnSet(f, S \X u) + SumFunctionOnSet(f, S \X {p})
      <4> DEFINE A == S \X u
                 B == S \X {p}
      <4> HIDE DEF A, B
      <4>1. SumFunctionOnSet(f, A \cup B) = SumFunctionOnSet(f, A) + SumFunctionOnSet(f, B)
          BY <3>6, <3>7, <3>8, SumUnion DEF A, B
      <4> QED BY <3>6, <4>1, ZenonT(30) DEF A, B
    <3>10. g[p] \in Int /\ SumFunctionOnSet(f, S \X u) \in Int
        BY <1>0, <3>1, <3>7, <3>8, SumInt
    <3> HIDE DEF u
    <3>11. SumFunctionOnSet(f, S \X s) = SumFunctionOnSet(g, s)
        BY <3>2, <3>4, <3>5, <3>9, <3>10
    <3> QED BY <3>11
  <2> QED BY <2>1, <2>2
<1>2. D = {}
  <2> HIDE DEF D
  <2>1. D \in SUBSET SUBSET T
      BY DEF D
  <2> QED BY <1>1, <2>1, SubsetInduction, ZenonT(30)
<1> QED BY <1>2

\* A constant adds up to its multiple.
LEMMA SumConst ==
    ASSUME NEW S, IsFiniteSet(S), NEW c \in Int, NEW f, \A x \in S : f[x] = c
    PROVE  SumFunctionOnSet(f, S) = c * Cardinality(S)
<1> DEFINE Sum(s) == SumFunctionOnSet(f, s)
           D == {s \in SUBSET S : Sum(s) # c * Cardinality(s)}
<1>0. \A s \in SUBSET S : IsFiniteSet(s) /\ IsIntOn(f, s) /\ Cardinality(s) \in Nat
    BY FS_Subset, FS_CardinalityType DEF IsIntOn
<1>1. ASSUME NEW s \in SUBSET S, \A u \in SUBSET s : u # s => u \notin D
      PROVE  s \notin D
  <2>1. CASE s = {}
    <3>1. Sum(s) = 0 /\ Cardinality(s) = 0
        BY <2>1, SumEmpty, FS_EmptySet
    <3> QED BY <3>1
  <2>2. CASE s # {}
    <3> DEFINE p == Pick(s)
               u == s \ {p}
    <3>1. p \in s
        BY <2>2 DEF Pick
    <3>2. Sum(s) = f[p] + Sum(u) /\ f[p] = c
        BY <1>0, <2>2, <3>1, SumPicked, ZenonT(30)
    <3>3. u \in SUBSET s /\ u # s
        BY <3>1
    <3>4. Sum(u) = c * Cardinality(u)
        BY <1>1, <3>3
    <3>5. Cardinality(u) = Cardinality(s) - 1
        BY <1>0, <3>1, FS_RemoveElement
    <3>6. Cardinality(s) \in Int
        BY <1>0
    <3> DEFINE n == Cardinality(s)
    <3>7. c + c * (n - 1) = c * n
        <4> HIDE DEF n
        <4>1. n \in Int
            BY <3>6 DEF n
        <4> QED BY <4>1
    <3>8. Sum(s) = c * n
        BY <3>2, <3>4, <3>5, <3>7
    <3> QED BY <3>8
  <2> QED BY <2>1, <2>2
<1>2. D = {}
  <2> HIDE DEF D
  <2>1. D \in SUBSET SUBSET S
      BY DEF D
  <2> QED BY <1>1, <2>1, SubsetInduction
<1> QED BY <1>2
=============================================================================
