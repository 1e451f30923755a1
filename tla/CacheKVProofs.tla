--------------------------- MODULE CacheKVProofs ---------------------------
(***************************************************************************)
(* cachekv.Store implements a branch of its parent, for any number of keys *)
(* and values and any minSortSize.                                         *)
(***************************************************************************)
EXTENDS CacheKV, FiniteSetTheorems, TLAPS

USE CacheAssumption

----------------------------------------------------------------------------
(* Positions among the dirty keys.                                         *)

LEMMA EntryPresent == \A v \in Stored, d \in BOOLEAN : [value |-> v, dirty |-> d] # Absent
BY CacheAssumption, Zenon DEF Stored

LEMMA KeysInt == ASSUME NEW k \in Keys PROVE k \in Int /\ k <= k
BY DEF Keys

LEMMA SubsetFinite ==
    ASSUME NEW S \in SUBSET Keys
    PROVE  IsFiniteSet(S) /\ Cardinality(S) \in Nat
<1>1. IsFiniteSet(Keys)
  <2>1. 1 \in Int /\ N \in Int
    BY DEF CacheAssumption
  <2> QED
    BY <2>1, FS_Interval DEF Keys
<1>2. IsFiniteSet(S)
  BY <1>1, FS_Subset
<1> QED
  BY <1>2, FS_CardinalityType

LEMMA IndexMonotone ==
    ASSUME NEW S \in SUBSET Keys, NEW j \in Int, NEW k \in Int, j <= k
    PROVE  Index(S, j) \in Nat /\ Index(S, j) <= Index(S, k)
<1>1. {i \in S : i < j} \in SUBSET {i \in S : i < k}
  <2>1. \A i \in S : i \in Int
    BY KeysInt
  <2>2. \A i \in S : i < j => i < k
    BY <2>1
  <2> QED
    BY <2>2, Zenon
<1>2. IsFiniteSet({i \in S : i < k})
  BY SubsetFinite, FS_Subset
<1>3. Index(S, j) \in Nat
  BY SubsetFinite DEF Index
<1> QED
  BY <1>1, <1>2, <1>3, FS_Subset DEF Index

LEMMA IndexStrict ==
    ASSUME NEW S \in SUBSET Keys, NEW j \in S, NEW T \in SUBSET S,
           j \in T, \A i \in S : i < j => i \in T
    PROVE  Index(S, j) + 1 <= Cardinality(T)
<1> DEFINE B == {i \in S : i < j}
<1>1. IsFiniteSet(B) /\ Cardinality(B) \in Nat /\ IsFiniteSet(T)
  BY SubsetFinite
<1>2. j \notin B
  <2>1. j \in Int
    BY KeysInt
  <2> QED
    BY <2>1
<1>3. Cardinality(B \cup {j}) = Cardinality(B) + 1
  BY <1>1, <1>2, FS_AddElement, ZenonT(30)
<1>4. B \cup {j} \in SUBSET T
  OBVIOUS
<1>5. Cardinality(B \cup {j}) <= Cardinality(T)
  BY <1>1, <1>4, FS_Subset
<1> QED
  BY <1>3, <1>5 DEF Index

\* dirtyItems moves every dirty key of the domain, however few or many there are.
LEMMA DirtyItemsCover ==
    ASSUME TypeOK, NEW start \in 1 .. N, NEW end \in 1 .. N + 1
    PROVE  /\ DirtyItems(start, end) \subseteq unsortedCache
           /\ unsortedCache \cap Domain(start, end) \subseteq DirtyItems(start, end)
<1> DEFINE U == unsortedCache
<1>1. U \in SUBSET Keys
  BY DEF TypeOK
<1>2. DirtyItems(start, end) \subseteq U
  BY DEF DirtyItems
<1>3. ASSUME NEW k \in U \cap Domain(start, end) PROVE k \in DirtyItems(start, end)
  <2> DEFINE n == Cardinality(U)
             i == StartIndex(U, start)
             j == EndIndex(U, end)
             x == Index(U, k)
  <2>1. k \in U /\ k \in Int /\ start \in Int /\ end \in Int /\ start <= k /\ k < end
    BY <1>1, <1>3 DEF Domain, Keys
  <2>2. n \in Nat /\ x \in Nat /\ x + 1 <= n
    BY <1>1, <2>1, SubsetFinite, IndexMonotone, IndexStrict
  <2>3. i \in Nat /\ i <= x
    BY <1>1, <2>1, IndexMonotone, ZenonT(30) DEF StartIndex
  <2>4. j \in Int /\ x <= j
    <3>1. CASE end = N + 1 \/ \A m \in U : m > end
      BY <2>2, <3>1 DEF EndIndex
    <3>2. CASE ~ (end = N + 1 \/ \A m \in U : m > end) /\ end \in U
      BY <1>1, <2>1, <3>2, IndexMonotone DEF EndIndex
    <3>3. CASE ~ (end = N + 1 \/ \A m \in U : m > end) /\ end \notin U
      <4>1. Index(U, k) + 1 <= Index(U, end)
        <5> DEFINE T == {m \in U : m < end}
        <5>1. T \in SUBSET U /\ k \in T
          BY <2>1
        <5>2. ASSUME NEW m \in U, m < k
              PROVE  m \in T
          <6>1. m \in Int /\ k \in Int /\ end \in Int /\ k < end
            BY <1>1, <2>1 DEF Keys
          <6>2. m < end
            BY ONLY <5>2, <6>1
          <6> QED
            BY <6>2, ZenonT(30)
        <5>3. Index(U, k) + 1 <= Cardinality(T)
          BY <1>1, <2>1, <5>1, <5>2, IndexStrict, ZenonT(30)
        <5> QED
          BY <5>3, ZenonT(30) DEF Index
      <4>2. Index(U, end) \in Nat
        BY <1>1, <2>1, IndexMonotone
      <4> QED
        BY <2>2, <3>3, <4>1, <4>2 DEF EndIndex
    <3> QED
      BY <3>1, <3>2, <3>3, ZenonT(30)
  <2>5. CASE n < MinSortSize
    BY <1>3, <2>5 DEF DirtyItems
  <2>6. CASE ~ (n < MinSortSize)
    <3> DEFINE last == n - 1
               wide == j - i >= MinSortSize
               j2 == IF wide THEN j ELSE AtMost(i + MinSortSize, last)
               i2 == IF wide \/ j2 - i >= MinSortSize THEN i
                     ELSE AtLeast(j2 - MinSortSize, 0)
    <3>1. DirtyItems(start, end) = {m \in U : i2 <= Index(U, m) /\ Index(U, m) <= j2}
      BY <2>6, ZenonT(30) DEF DirtyItems
    <3> HIDE DEF n, i, j, x
    <3>2. j2 \in Int /\ x <= j2
      BY <2>2, <2>3, <2>4 DEF AtMost
    <3>3. i2 <= x
      BY <2>2, <2>3, <2>4, <3>2 DEF AtLeast
    <3> QED
      BY <2>1, <3>1, <3>2, <3>3, ZenonT(30) DEF x
  <2> QED
    BY <2>5, <2>6
<1> QED
  BY <1>2, <1>3, ZenonT(30)

----------------------------------------------------------------------------
(* Iterators.                                                              *)

\* Skipping drops only keys that do not exist, and ends at one that does.
LEMMA SkipKeepsExisting ==
    ASSUME NEW p \in SUBSET Keys, NEW c \in SUBSET Keys, NEW items,
           NEW o \in Orders
    PROVE  LET E == Existing(p, c, items)
               p2 == From(p, E, o)
               c2 == From(c, E, o)
           IN  /\ Existing(p2, c2, items) = E
               /\ \A k \in E : (k \in c2 <=> k \in c) /\ (k \in p2 <=> k \in p)
               /\ p2 \subseteq p /\ c2 \subseteq c
               /\ \A k \in p2 \cup c2 : \E e \in E : NotAfter(e, k, o)
<1> DEFINE E == Existing(p, c, items)
           p2 == From(p, E, o)
           c2 == From(c, E, o)
<1>1. \A k \in E : k \in Int /\ k <= k
  BY KeysInt, ZenonT(30) DEF Existing
<1>2. \A k \in E : (k \in c2 <=> k \in c) /\ (k \in p2 <=> k \in p)
  <2>1. \A k \in E : NotAfter(k, k, o)
    BY <1>1 DEF NotAfter
  <2> HIDE DEF E
  <2> QED
    BY <2>1, Zenon DEF From
<1>3. \A k \in p2 \cup c2 : k \in p => k \in p2
  BY DEF From
<1>4. \A k \in p2 \cup c2 : k \in c => k \in c2
  BY ZenonT(30) DEF From
<1>5. p2 \subseteq p /\ c2 \subseteq c
  BY ZenonT(30) DEF From
<1>6. Existing(p2, c2, items) = E
  BY <1>2, <1>3, <1>4, <1>5, ZenonT(30) DEF Existing
<1>7. \A k \in p2 \cup c2 : \E e \in E : NotAfter(e, k, o)
  BY DEF From
<1> QED
  BY <1>2, <1>5, <1>6, <1>7, ZenonT(30)

IInv == TypeOK /\ CacheCoherent /\ IteratorExists

\* The current key of a valid iterator exists, and has a value.
LEMMA CurrentExists ==
    ASSUME IInv, NEW k \in Keys, order # "closed",
           First(parentLeft \cup cacheLeft, k, order)
    PROVE  k \in Existing(parentLeft, cacheLeft, copy) /\ Current(k) \in Values
<1> USE DEF IInv
<1>1. PICK e \in Existing(parentLeft, cacheLeft, copy) : NotAfter(e, k, order)
  BY ZenonT(30) DEF IteratorExists, First
<1>2. e \in parentLeft \cup cacheLeft /\ e \in Int /\ k \in Int
  BY <1>1 DEF Existing, TypeOK, Keys, CacheAssumption
<1>3. NotAfter(k, e, order)
  BY <1>2 DEF First
<1>4. e = k
  BY <1>1, <1>2, <1>3 DEF NotAfter, TypeOK
<1>5. Current(k) \in Stored \ {Nil}
  BY <1>1, <1>4, ZenonT(30) DEF Current, Existing, IteratorExists, TypeOK
<1> QED
  BY <1>1, <1>4, <1>5 DEF Stored

\* What an iterator over a domain merges is the view of the branch.
LEMMA IteratorSeesView ==
    ASSUME IInv, NEW start \in 1 .. N, NEW end \in 1 .. N + 1, NEW o \in Orders,
           Iterator(start, end, o)
    PROVE  /\ \A k \in Domain(start, end) :
                copy'[k] = IF Dirty(k) THEN cache[k].value ELSE Absent
           /\ Existing(parentLeft', cacheLeft', copy')
                = {k \in Domain(start, end) : View[k] # Nil}
           /\ \A k \in Existing(parentLeft', cacheLeft', copy') : Current(k)' = View[k]
           /\ IteratorExists'
<1> USE DEF IInv
<1> DEFINE D == Domain(start, end)
           moved == DirtyItems(start, end)
           sorted == [k \in Keys |-> IF k \in moved THEN cache[k].value ELSE sortedCache[k]]
           p == {k \in D : parent[k] # Nil}
           c == {k \in D : sorted[k] # Absent}
           E == Existing(p, c, sorted)
<1>1. /\ copy' = sorted /\ parent' = parent /\ cache' = cache /\ order' = o
      /\ parentLeft' = From(p, E, o) /\ cacheLeft' = From(c, E, o)
  BY ZenonT(30) DEF Iterator, Skip
<1>2. moved \subseteq unsortedCache /\ unsortedCache \cap D \subseteq moved
  BY DirtyItemsCover, ZenonT(30)
<1>3. D \subseteq Keys
  BY ZenonT(30) DEF Domain
<1> HIDE DEF moved, D
<1>4. \A k \in D : sorted[k] = IF Dirty(k) THEN cache[k].value ELSE Absent
  BY <1>2, <1>3, ZenonT(30) DEF CacheCoherent, Dirty, TypeOK
<1>5. \A k \in D : Dirty(k) => cache[k].value # Absent
  BY <1>3, ZenonT(30) DEF TypeOK, Entries, Dirty, Stored, CacheAssumption
<1>6. E = {k \in D : View[k] # Nil}
  BY <1>3, <1>4, <1>5, ZenonT(30) DEF Existing, View, Written
<1>7. /\ Existing(parentLeft', cacheLeft', sorted) = E
      /\ \A k \in E : (k \in cacheLeft' <=> k \in c) /\ (k \in parentLeft' <=> k \in p)
      /\ parentLeft' \subseteq p /\ cacheLeft' \subseteq c
      /\ \A k \in parentLeft' \cup cacheLeft' : \E e \in E : NotAfter(e, k, o)
  <2>1. p \in SUBSET Keys /\ c \in SUBSET Keys
    BY <1>3, ZenonT(30)
  <2> HIDE DEF p, c, sorted
  <2> QED
    BY <1>1, <2>1, SkipKeepsExisting
<1>8. \A k \in E : Current(k)' = View[k]
  <2> SUFFICES ASSUME NEW k \in E PROVE Current(k)' = View[k]
    BY ZenonT(30)
  <2>1. k \in D /\ k \in Keys
    BY <1>3, <1>6, ZenonT(30)
  <2>2. k \in cacheLeft' <=> Dirty(k)
    BY <1>4, <1>5, <1>7, <2>1, ZenonT(30)
  <2> QED
    BY <1>1, <1>4, <2>1, <2>2, ZenonT(30) DEF Current, View, Written
<1>9. IteratorExists'
  <2>1. order' # "closed"
    BY <1>1, ZenonT(30) DEF Orders
  <2>2. \A k \in parentLeft' : parent'[k] # Nil
    BY <1>1, <1>7, ZenonT(30)
  <2>3. \A k \in cacheLeft' : copy'[k] # Absent
    BY <1>1, <1>7, ZenonT(30)
  <2> QED
    BY <1>1, <1>7, <2>1, <2>2, <2>3, ZenonT(30) DEF IteratorExists
<1> QED
  BY <1>1, <1>4, <1>6, <1>7, <1>8, <1>9, ZenonT(30) DEF D

\* What the next item leaves in the iterator.
LEMMA NextLeaves ==
    ASSUME IInv, NEW k \in Keys, NextItem(k)
    PROVE  /\ Existing(parentLeft', cacheLeft', copy')
                = Existing(parentLeft, cacheLeft, copy) \ {k}
           /\ \A j \in Existing(parentLeft', cacheLeft', copy') : Current(j)' = Current(j)
           /\ parentLeft' \subseteq parentLeft /\ cacheLeft' \subseteq cacheLeft
           /\ IteratorExists'
<1> USE DEF IInv
<1> DEFINE p == parentLeft \ {k}
           c == cacheLeft \ {k}
           E == Existing(p, c, copy)
<1>1. /\ parentLeft' = From(p, E, order) /\ cacheLeft' = From(c, E, order)
      /\ copy' = copy /\ parent' = parent /\ order' = order /\ order \in Orders
  BY ZenonT(30) DEF NextItem, Skip, TypeOK
<1>2. p \in SUBSET Keys /\ c \in SUBSET Keys
  BY ZenonT(30) DEF TypeOK
<1>3. /\ Existing(parentLeft', cacheLeft', copy) = E
      /\ \A j \in E : (j \in cacheLeft' <=> j \in c) /\ (j \in parentLeft' <=> j \in p)
      /\ parentLeft' \subseteq p /\ cacheLeft' \subseteq c
      /\ \A j \in parentLeft' \cup cacheLeft' : \E e \in E : NotAfter(e, j, order)
  <2> HIDE DEF p, c
  <2> QED
    BY <1>1, <1>2, SkipKeepsExisting, ZenonT(30)
<1>4. E = Existing(parentLeft, cacheLeft, copy) \ {k}
  BY DEF Existing
<1>5. \A j \in E : Current(j)' = Current(j)
  BY <1>1, <1>3, <1>4, ZenonT(30) DEF Current
<1>6. IteratorExists'
  <2>1. order' # "closed"
    BY <1>1 DEF Orders
  <2>2. \A j \in parentLeft' : parent'[j] # Nil
    BY <1>1, <1>3, ZenonT(30) DEF IteratorExists
  <2>3. \A j \in cacheLeft' : copy'[j] # Absent
    BY <1>1, <1>3, ZenonT(30) DEF IteratorExists
  <2> QED
    BY <1>1, <1>3, <2>1, <2>2, <2>3, ZenonT(30) DEF IteratorExists
<1> QED
  BY <1>1, <1>3, <1>4, <1>5, <1>6, ZenonT(30)

----------------------------------------------------------------------------
(* The invariant.                                                          *)

LEMMA InitInv == Init => IInv
<1> SUFFICES ASSUME Init PROVE IInv
  OBVIOUS
<1>1. TypeOK
  BY ZenonT(30) DEF Init, TypeOK, NoCopy, Stored
<1>2. CacheCoherent
  BY ZenonT(30) DEF Init, CacheCoherent, NoCopy, Dirty
<1>3. IteratorExists
  BY ZenonT(30) DEF Init, IteratorExists
<1> QED
  BY <1>1, <1>2, <1>3 DEF IInv

\* The iterator is undisturbed by a step that leaves it and the parent alone.
LEMMA IteratorKept ==
    IteratorExists /\ UNCHANGED <<parent, iterator>> => IteratorExists'
BY ZenonT(30) DEF IteratorExists, iterator, Existing

LEMMA GetInv == ASSUME IInv, NEW k \in Keys, Get(k) PROVE IInv'
<1> USE DEF IInv
<1>1. TypeOK'
  <2>1. parent[k] \in Stored
    BY ZenonT(30) DEF TypeOK
  <2>2. cache[k] # Absent => cache[k].value \in Stored
    BY ZenonT(30) DEF TypeOK, Entries
  <2>3. out' \in Stored
    BY <2>1, <2>2, ZenonT(30) DEF Get
  <2>4. cache' \in [Keys -> Entries \cup {Absent}]
    <3>1. [value |-> parent[k], dirty |-> FALSE] \in Entries
      BY <2>1, ZenonT(30) DEF Entries
    <3> HIDE DEF Entries
    <3> QED
      BY <3>1, ZenonT(30) DEF Get, TypeOK
  <2> QED
    BY <2>3, <2>4, ZenonT(30) DEF Get, TypeOK, iterator
<1>2. CacheCoherent'
  <2>1. /\ parent' = parent /\ unsortedCache' = unsortedCache
        /\ sortedCache' = sortedCache
    BY ZenonT(30) DEF Get
  <2>2. CASE cache[k] = Absent
    <3>1. cache' = [cache EXCEPT ![k] = [value |-> parent[k], dirty |-> FALSE]]
      BY <2>2, ZenonT(30) DEF Get
    <3>2. \A j \in Keys : cache'[j] = IF j = k THEN [value |-> parent[k], dirty |-> FALSE]
                                      ELSE cache[j]
      BY <3>1, ZenonT(30) DEF TypeOK
    <3>3. ~ Dirty(k) /\ k \notin unsortedCache /\ sortedCache[k] = Absent
      BY <2>2, ZenonT(30) DEF Dirty, CacheCoherent
    <3> QED
      BY <2>1, <3>2, <3>3 DEF CacheCoherent, Dirty
  <2>3. CASE cache[k] # Absent
    BY <2>1, <2>3, ZenonT(30) DEF Get, CacheCoherent, Dirty
  <2> QED
    BY <2>2, <2>3, ZenonT(30)
<1>3. IteratorExists'
  BY IteratorKept, ZenonT(30) DEF Get
<1> QED
  BY <1>1, <1>2, <1>3, ZenonT(30)

LEMMA SetInv == ASSUME IInv, NEW k \in Keys, NEW v \in Stored, Set(k, v) PROVE IInv'
<1> USE DEF IInv
<1>1. TypeOK'
  BY ZenonT(30) DEF Set, UnsortedWith, TypeOK, Entries, iterator, Stored
<1>2. CacheCoherent'
  <2>1. \A j \in Keys : cache'[j] = IF j = k THEN [value |-> v, dirty |-> TRUE] ELSE cache[j]
    BY ZenonT(30) DEF Set, TypeOK
  <2>2. cache'[k] # Absent
    BY <2>1, CacheAssumption, ZenonT(30) DEF Stored
  <2> QED
    BY <2>1, <2>2 DEF Set, UnsortedWith, CacheCoherent, Dirty
<1>3. IteratorExists'
  BY IteratorKept, ZenonT(30) DEF Set
<1> QED
  BY <1>1, <1>2, <1>3, ZenonT(30)

LEMMA ResetInv == ASSUME IInv, Write \/ Drop PROVE IInv'
<1> USE DEF IInv
<1>1. Written \in [Keys -> Stored]
  BY ZenonT(30) DEF Written, Dirty, TypeOK, Entries
<1>2. TypeOK'
  BY <1>1 DEF Write, Drop, resetCaches, TypeOK, NoCopy, iterator, Stored
<1>3. CacheCoherent'
  BY ZenonT(30) DEF Write, Drop, resetCaches, CacheCoherent, NoCopy, Dirty
<1>4. IteratorExists'
  BY ZenonT(30) DEF Write, Drop, iterator, IteratorExists
<1> QED
  BY <1>2, <1>3, <1>4, ZenonT(30)

LEMMA CloseInv == ASSUME IInv, Close PROVE IInv'
<1> USE DEF IInv
<1>1. TypeOK'
  BY ZenonT(30) DEF Close, TypeOK, NoCopy, Stored
<1>2. CacheCoherent'
  BY ZenonT(30) DEF Close, CacheCoherent, Dirty
<1>3. IteratorExists'
  BY ZenonT(30) DEF Close, IteratorExists
<1> QED
  BY <1>1, <1>2, <1>3, ZenonT(30)

LEMMA IteratorInv ==
    ASSUME IInv, NEW start \in 1 .. N, NEW end \in 1 .. N + 1, NEW o \in Orders,
           Iterator(start, end, o)
    PROVE  IInv'
<1> USE DEF IInv
<1> DEFINE moved == DirtyItems(start, end)
           sorted == [k \in Keys |-> IF k \in moved THEN cache[k].value ELSE sortedCache[k]]
<1>1. moved \subseteq unsortedCache
  BY DirtyItemsCover, ZenonT(30)
<1>2. /\ unsortedCache' = unsortedCache \ moved /\ sortedCache' = sorted /\ copy' = sorted
      /\ parent' = parent /\ cache' = cache /\ out' = Nil /\ order' = o
      /\ parentLeft' \subseteq Keys /\ cacheLeft' \subseteq Keys
  BY ZenonT(30) DEF Iterator, Skip, From, Domain
<1> HIDE DEF moved
<1>3. \A k \in moved : k \in Keys /\ Dirty(k) /\ cache[k].value \in Stored
  BY <1>1 DEF CacheCoherent, TypeOK, Dirty, Entries
<1>4. sorted \in [Keys -> Stored \cup {Absent}]
  BY <1>3, ZenonT(30) DEF TypeOK
<1>5. TypeOK'
  BY <1>2, <1>4, ZenonT(30) DEF TypeOK, Stored
<1>6. \A k \in moved : cache[k].value # Absent
  BY <1>3, CacheAssumption, ZenonT(30) DEF Stored
<1>7. CacheCoherent'
  BY <1>1, <1>2, <1>3, <1>6, ZenonT(30) DEF CacheCoherent, Dirty
<1>8. IteratorExists'
  BY IteratorSeesView, ZenonT(30)
<1> QED
  BY <1>5, <1>7, <1>8, ZenonT(30)

LEMMA NextItemInv == ASSUME IInv, NEW k \in Keys, NextItem(k) PROVE IInv'
<1> USE DEF IInv
<1>1. Current(k) \in Values
  BY CurrentExists, ZenonT(30) DEF NextItem
<1>2. parentLeft' \subseteq parentLeft /\ cacheLeft' \subseteq cacheLeft /\ IteratorExists'
  BY NextLeaves, ZenonT(30)
<1>3. TypeOK'
  BY <1>1, <1>2, ZenonT(30) DEF NextItem, TypeOK
<1>4. CacheCoherent'
  BY ZenonT(30) DEF NextItem, CacheCoherent, Dirty
<1> QED
  BY <1>2, <1>3, <1>4, ZenonT(30)

LEMMA NextInv == IInv /\ [Next]_vars => IInv'
<1> SUFFICES ASSUME IInv, [Next]_vars PROVE IInv'
  BY ZenonT(30)
<1>1. CASE UNCHANGED vars
  BY <1>1, ZenonT(30) DEF IInv, TypeOK, CacheCoherent, IteratorExists, vars, iterator, Dirty,
     Existing
<1>2. CASE \E k \in Keys : Get(k) \/ NextItem(k) \/ \E v \in Stored : Set(k, v)
  BY <1>2, GetInv, NextItemInv, SetInv, ZenonT(30)
<1>3. CASE Write \/ Drop \/ Close
  BY <1>3, ResetInv, CloseInv, ZenonT(30)
<1>4. CASE \E start \in 1 .. N, end \in 1 .. N + 1, o \in Orders : Iterator(start, end, o)
  BY <1>4, IteratorInv, ZenonT(30)
<1> QED
  BY <1>1, <1>2, <1>3, <1>4, ZenonT(30) DEF Next

\* The invariant of cachekv.Store: the maps, the queue and the B-tree agree.
THEOREM Invariance == Spec => []IInv
<1>1. Init => IInv
  BY InitInv, ZenonT(30)
<1>2. IInv /\ [Next]_vars => IInv'
  BY NextInv, ZenonT(30)
<1> QED
  BY <1>1, <1>2, PTL DEF Spec

\* The caches of a branch agree with each other and with the parent, for any
\* number of keys and any minSortSize.
THEOREM CachesCoherent == Spec => []CacheCoherent
BY Invariance, PTL DEF IInv

----------------------------------------------------------------------------
(* The refinement.                                                         *)

LEMMA RefinesInit == Init => Branch!Init
<1> SUFFICES ASSUME Init PROVE Branch!Init
  BY ZenonT(30)
<1>1. View = parent
  BY ZenonT(30) DEF Init, View, Written, Dirty, Stored
<1>2. Cursor = {}
  BY ZenonT(30) DEF Init, Cursor, Existing
<1> QED
  BY <1>1, <1>2, ZenonT(30) DEF Init, Branch!Init, Branch!Keys, Branch!Stored, Keys, Stored

\* Only the iterator and the parent matter for what an iterator yields.
LEMMA CursorKept == UNCHANGED <<parent, iterator>> => UNCHANGED Cursor
BY ZenonT(30) DEF Cursor, Existing, Current, iterator

LEMMA RefinesGet == ASSUME IInv, NEW k \in Keys, Get(k) PROVE Branch!Get(k)
<1> USE DEF IInv
<1>1. out' = View[k]
  BY ZenonT(30) DEF Get, View, Written, Dirty, CacheCoherent
<1>2. parent' = parent /\ order' = order /\ Cursor' = Cursor
  BY CursorKept, ZenonT(30) DEF Get, iterator
<1>3. View' = View
  <2>1. \A j \in Keys : Dirty(j)' = Dirty(j) /\ (Dirty(j) => cache'[j] = cache[j])
    BY DEF Get, Dirty, TypeOK, CacheCoherent
  <2> QED
    BY <1>2, <2>1, ZenonT(30) DEF View, Written
<1> QED
  BY <1>1, <1>2, <1>3, ZenonT(30) DEF Branch!Get

LEMMA RefinesSet ==
    ASSUME IInv, NEW k \in Keys, NEW v \in Stored, Set(k, v) PROVE Branch!Set(k, v)
<1> USE DEF IInv
<1>1. \A j \in Keys : cache'[j] = IF j = k THEN [value |-> v, dirty |-> TRUE] ELSE cache[j]
  BY DEF Set, TypeOK
<1>2. cache'[k] # Absent
  <2>1. cache'[k] = [value |-> v, dirty |-> TRUE]
    BY <1>1, Zenon
  <2> QED
    BY <2>1, EntryPresent, Zenon
<1>3. parent' = parent /\ order' = order /\ out' = Nil /\ Cursor' = Cursor
  BY CursorKept, ZenonT(30) DEF Set, iterator
<1>4. View' = [View EXCEPT ![k] = v]
  <2>1. \A j \in Keys : View'[j] = IF j = k THEN v ELSE View[j]
    BY <1>1, <1>2, <1>3 DEF View, Written, Dirty
  <2>2. View' = [j \in Keys |-> View'[j]] /\ View = [j \in Keys |-> View[j]]
    BY ZenonT(30) DEF View, Written
  <2> QED
    BY <2>1, <2>2
<1> QED
  BY <1>3, <1>4, ZenonT(30) DEF Branch!Set

LEMMA RefinesWrite == ASSUME IInv, Write PROVE Branch!Write
<1> USE DEF IInv
<1>1. parent' = View /\ order = "closed" /\ order' = order /\ out' = Nil
  BY ZenonT(30) DEF Write, View, iterator
<1>2. View' = View
  BY <1>1, ZenonT(30) DEF Write, resetCaches, View, Written, Dirty
<1>3. Cursor = {} /\ Cursor' = {}
  BY ZenonT(30) DEF Write, iterator, IteratorExists, Cursor, Existing
<1> QED
  BY <1>1, <1>2, <1>3, ZenonT(30) DEF Branch!Write

LEMMA RefinesDrop == ASSUME IInv, Drop PROVE Branch!Drop
<1> USE DEF IInv
<1>1. parent' = parent /\ order = "closed" /\ order' = order /\ out' = Nil
  BY DEF Drop, iterator
<1>2. View' = parent
  BY ZenonT(30) DEF Drop, resetCaches, View, Written, Dirty, TypeOK
<1>3. Cursor' = Cursor
  BY CursorKept, ZenonT(30) DEF Drop
<1> QED
  BY <1>1, <1>2, <1>3, ZenonT(30) DEF Branch!Drop

LEMMA RefinesClose == ASSUME IInv, Close PROVE Branch!Close
<1>1. View' = View
  BY ZenonT(30) DEF Close, View, Written, Dirty
<1>2. Cursor' = {}
  BY ZenonT(30) DEF Close, Cursor, Existing
<1> QED
  BY <1>1, <1>2, ZenonT(30) DEF Close, Branch!Close

LEMMA RefinesIterator ==
    ASSUME IInv, NEW start \in 1 .. N, NEW end \in 1 .. N + 1, NEW o \in Orders,
           Iterator(start, end, o)
    PROVE  Branch!Iterator(start, end, o)
<1>1. /\ order = "closed" /\ order' = o
      /\ parent' = parent /\ cache' = cache /\ out' = Nil
  BY ZenonT(30) DEF Iterator
<1>2. View' = View
  BY <1>1, ZenonT(30) DEF View, Written, Dirty
<1>3. /\ Existing(parentLeft', cacheLeft', copy')
           = {k \in Domain(start, end) : View[k] # Nil}
      /\ \A k \in Existing(parentLeft', cacheLeft', copy') : Current(k)' = View[k]
  BY IteratorSeesView, ZenonT(30)
<1>4. Cursor' = {<<k, View[k]>> : k \in {j \in Domain(start, end) : View[j] # Nil}}
  BY <1>3, ZenonT(30) DEF Cursor
<1>5. Branch!Domain(start, end) = Domain(start, end)
  BY ZenonT(30) DEF Branch!Domain, Domain, Branch!Keys, Keys
<1> QED
  BY <1>1, <1>2, <1>4, <1>5, ZenonT(30) DEF Branch!Iterator

LEMMA RefinesNextItem == ASSUME IInv, NEW k \in Keys, NextItem(k) PROVE Branch!NextItem(k)
<1> DEFINE E == Existing(parentLeft, cacheLeft, copy)
           E2 == Existing(parentLeft', cacheLeft', copy')
<1>1. /\ order # "closed" /\ First(parentLeft \cup cacheLeft, k, order)
      /\ out' = <<k, Current(k)>> /\ order' = order
      /\ parent' = parent /\ cache' = cache
  BY ZenonT(30) DEF NextItem
<1>2. View' = View
  BY <1>1, ZenonT(30) DEF View, Written, Dirty
<1>3. k \in E
  BY <1>1, CurrentExists, ZenonT(30)
<1>4. E2 = E \ {k} /\ \A j \in E2 : Current(j)' = Current(j)
  BY NextLeaves, ZenonT(30)
<1>5. E \subseteq parentLeft \cup cacheLeft
  BY ZenonT(30) DEF Existing
<1>6. Cursor = {<<j, Current(j)>> : j \in E} /\ Cursor' = {<<j, Current(j)'>> : j \in E2}
  BY ZenonT(30) DEF Cursor
<1> HIDE DEF E, E2
<1>7. <<k, Current(k)>> \in Cursor
  BY <1>3, <1>6, ZenonT(30)
<1>8. Cursor' = Cursor \ {<<k, Current(k)>>}
  BY <1>3, <1>4, <1>6
<1>9. {p[1] : p \in Cursor} = E
  <2>1. \A p \in Cursor : p[1] \in E
    BY <1>6
  <2>2. \A j \in E : <<j, Current(j)>> \in Cursor /\ <<j, Current(j)>>[1] = j
    BY <1>6, ZenonT(30)
  <2> QED
    BY <2>1, <2>2, ZenonT(30)
<1>10. Branch!First(E, k, order)
  BY <1>1, <1>3, <1>5, ZenonT(30) DEF Branch!First, First, NotAfter
<1> QED
  BY <1>1, <1>2, <1>7, <1>8, <1>9, <1>10, ZenonT(30) DEF Branch!NextItem

LEMMA RefinesNext == IInv /\ [Next]_vars => [Branch!Next]_(Branch!vars)
<1> SUFFICES ASSUME IInv, [Next]_vars PROVE [Branch!Next]_(Branch!vars)
  BY ZenonT(30)
<1> USE DEF Branch!Keys, Branch!Stored, Branch!Orders, Branch!Starts, Branch!Ends,
            Keys, Stored, Orders
<1>1. CASE UNCHANGED vars
  BY <1>1, ZenonT(30) DEF vars, iterator, Branch!vars, View, Written, Dirty, Cursor, Existing,
     Current
<1>2. ASSUME NEW k \in Keys, Get(k) PROVE Branch!Next
  BY <1>2, RefinesGet, ZenonT(30) DEF Branch!Next
<1>3. ASSUME NEW k \in Keys, NextItem(k) PROVE Branch!Next
  BY <1>3, RefinesNextItem, ZenonT(30) DEF Branch!Next
<1>4. ASSUME NEW k \in Keys, NEW v \in Stored, Set(k, v) PROVE Branch!Next
  BY <1>4, RefinesSet, ZenonT(30) DEF Branch!Next
<1>5. CASE Write \/ Drop \/ Close
  BY <1>5, RefinesWrite, RefinesDrop, RefinesClose, ZenonT(30) DEF Branch!Next
<1>6. ASSUME NEW start \in 1 .. N, NEW end \in 1 .. N + 1, NEW o \in Orders,
             Iterator(start, end, o)
      PROVE  Branch!Next
  BY <1>6, RefinesIterator, ZenonT(30) DEF Branch!Next
<1> QED
  BY <1>1, <1>2, <1>3, <1>4, <1>5, <1>6, ZenonT(30) DEF Next

\* cachekv.Store implements a branch of its parent, for any number of keys, any
\* values and any minSortSize.
THEOREM Refinement == Spec => RefinesBranch
<1>1. Init => Branch!Init
  BY RefinesInit
<1>2. IInv /\ [Next]_vars => [Branch!Next]_(Branch!vars)
  BY RefinesNext, ZenonT(30)
<1> QED
  BY <1>1, <1>2, Invariance, PTL DEF Spec, RefinesBranch, Branch!Spec
=============================================================================
