------------------------------ MODULE CacheKV ------------------------------
(***************************************************************************)
(* cachekv.Store: the write-back cache that every transaction, block and   *)
(* query branches its stores with.  cache holds what was read and written; *)
(* a written key waits in unsortedCache until an iterator over its domain  *)
(* moves it to the B-tree sortedCache, of which the iterator takes a copy. *)
(* The iterator merges that copy with an iterator of the parent.           *)
(*                                                                         *)
(* While an iterator is open the store may be written, but Write, which    *)
(* changes the parent under the iterator, is called only after it is       *)
(* closed.  Nothing but this branch writes to the parent.                  *)
(***************************************************************************)
EXTENDS Integers, FiniteSets

CONSTANTS N, Values, Nil,
    Absent,        \* a key that a map does not hold
    MinSortSize    \* minSortSize

VARIABLES
    parent,
    cache,         \* key to Absent or [value, dirty]
    unsortedCache,
    sortedCache,   \* key to Absent or a value, Nil standing for a deletion
    order, copy, parentLeft, cacheLeft,   \* the open iterator
    out            \* what the last operation returned

ASSUME CacheAssumption ==
    /\ N \in Nat /\ MinSortSize \in Nat
    /\ Nil \notin Values /\ Absent \notin Values \cup {Nil}
    /\ \A v \in Values \cup {Nil}, d \in BOOLEAN : [value |-> v, dirty |-> d] # Absent

iterator == <<order, copy, parentLeft, cacheLeft>>
vars == <<parent, cache, unsortedCache, sortedCache, iterator, out>>

Keys == 1 .. N
Stored == Values \cup {Nil}
Orders == {"ascending", "descending"}
Domain(start, end) == {k \in Keys : start <= k /\ k < end}
Entries == [value : Stored, dirty : BOOLEAN]
NoCopy == [k \in Keys |-> Absent]

TypeOK ==
    /\ parent \in [Keys -> Stored]
    /\ cache \in [Keys -> Entries \cup {Absent}]
    /\ unsortedCache \subseteq Keys
    /\ sortedCache \in [Keys -> Stored \cup {Absent}]
    /\ copy \in [Keys -> Stored \cup {Absent}]
    /\ order \in Orders \cup {"closed"}
    /\ parentLeft \subseteq Keys /\ cacheLeft \subseteq Keys
    /\ out \in Stored \cup (Keys \X Values)

Dirty(k) == cache[k] # Absent /\ cache[k].dirty

\* NewStore on some parent.
Init ==
    /\ parent \in [Keys -> Stored]
    /\ cache = [k \in Keys |-> Absent]
    /\ unsortedCache = {} /\ sortedCache = NoCopy
    /\ order = "closed" /\ copy = NoCopy
    /\ parentLeft = {} /\ cacheLeft = {}
    /\ out = Nil

----------------------------------------------------------------------------
\* Get: a miss is cached, clean.
Get(k) ==
    /\ IF cache[k] = Absent
         THEN /\ cache' = [cache EXCEPT ![k] = [value |-> parent[k], dirty |-> FALSE]]
              /\ out' = parent[k]
         ELSE out' = cache[k].value /\ UNCHANGED cache
    /\ UNCHANGED <<parent, unsortedCache, sortedCache, iterator>>

\* Mutant: a key that is in the B-tree is not queued for it again.
UnsortedWithOnce(k) ==
    IF sortedCache[k] = Absent THEN unsortedCache \cup {k} ELSE unsortedCache

UnsortedWith(k) == unsortedCache \cup {k}

\* Set, and Delete, which sets Nil: setCacheValue with dirty.
Set(k, v) ==
    /\ cache' = [cache EXCEPT ![k] = [value |-> v, dirty |-> TRUE]]
    /\ unsortedCache' = UnsortedWith(k)
    /\ out' = Nil
    /\ UNCHANGED <<parent, sortedCache, iterator>>

\* Mutant: every cached key is written that has a value.
WrittenNoDeletes ==
    [k \in Keys |-> IF Dirty(k) /\ cache[k].value # Nil THEN cache[k].value ELSE parent[k]]

\* What Write makes of the parent: the dirty keys are set or deleted.
Written == [k \in Keys |-> IF Dirty(k) THEN cache[k].value ELSE parent[k]]

resetCaches ==
    /\ cache' = [k \in Keys |-> Absent]
    /\ unsortedCache' = {} /\ sortedCache' = NoCopy

Write ==
    /\ order = "closed"
    /\ parent' = Written
    /\ resetCaches
    /\ out' = Nil
    /\ UNCHANGED iterator

\* The branch of a failed transaction is dropped, and another one is taken.
Drop ==
    /\ order = "closed"
    /\ resetCaches
    /\ out' = Nil
    /\ UNCHANGED <<parent, iterator>>

----------------------------------------------------------------------------
(* Iteration.                                                              *)

\* The position of a key among the keys of S, counted from 0.
Index(S, k) == Cardinality({j \in S : j < k})

\* findStartIndex, with the default of its caller: the first key >= start.
StartIndex(S, start) ==
    IF \E k \in S : k >= start THEN Index(S, start) ELSE 0

\* findEndIndex, with the default of its caller: the key end itself, or the
\* last one below it.
EndIndex(S, end) ==
    IF end = N + 1 \/ (\A k \in S : k > end) THEN Cardinality(S) - 1
    ELSE IF end \in S THEN Index(S, end) ELSE Index(S, end) - 1

AtMost(a, b) == IF a <= b THEN a ELSE b
AtLeast(a, b) == IF a <= b THEN b ELSE a

\* The keys that dirtyItems moves to the B-tree: those of the domain, or, when
\* there are many, a range of at least MinSortSize positions around them.
DirtyItems(start, end) ==
    IF Cardinality(unsortedCache) < MinSortSize
    THEN unsortedCache \cap Domain(start, end)
    ELSE LET i == StartIndex(unsortedCache, start)
             j == EndIndex(unsortedCache, end)
             last == Cardinality(unsortedCache) - 1
             wide == j - i >= MinSortSize
             j2 == IF wide THEN j ELSE AtMost(i + MinSortSize, last)
             i2 == IF wide \/ j2 - i >= MinSortSize THEN i
                   ELSE AtLeast(j2 - MinSortSize, 0)
         IN  {k \in unsortedCache : i2 <= Index(unsortedCache, k)
                                    /\ Index(unsortedCache, k) <= j2}

NotAfter(j, k, o) == IF o = "ascending" THEN j <= k ELSE k <= j

\* The keys of S that are not before the first key of E.
From(S, E, o) == {k \in S : \E e \in E : NotAfter(e, k, o)}

\* The keys at which the merged iterator stops: a deletion in the cache hides
\* the parent's key.
Existing(p, c, items) == {k \in p \cup c : k \in c => items[k] # Nil}

\* skipUntilExistsOrInvalid: both iterators go on to the first key that exists.
Skip(p, c, items, o) ==
    /\ parentLeft' = From(p, Existing(p, c, items), o)
    /\ cacheLeft' = From(c, Existing(p, c, items), o)

Iterator(start, end, o) ==
    /\ order = "closed" /\ start <= end
    /\ LET moved == DirtyItems(start, end)
           sorted == [k \in Keys |-> IF k \in moved THEN cache[k].value ELSE sortedCache[k]]
       IN  /\ unsortedCache' = unsortedCache \ moved
           /\ sortedCache' = sorted
           /\ copy' = sorted
           /\ Skip({k \in Domain(start, end) : parent[k] # Nil},
                   {k \in Domain(start, end) : sorted[k] # Absent}, sorted, o)
    /\ order' = o
    /\ out' = Nil
    /\ UNCHANGED <<parent, cache>>

\* The current key is the first of both iterators; the cache wins.
First(S, k, o) == k \in S /\ \A j \in S : NotAfter(k, j, o)

Current(k) == IF k \in cacheLeft THEN copy[k] ELSE parent[k]

\* Key and Value, then Next, of a valid iterator.
NextItem(k) ==
    /\ order # "closed"
    /\ First(parentLeft \cup cacheLeft, k, order)
    /\ out' = <<k, Current(k)>>
    /\ Skip(parentLeft \ {k}, cacheLeft \ {k}, copy, order)
    /\ UNCHANGED <<parent, cache, unsortedCache, sortedCache, order, copy>>

Close ==
    /\ order # "closed"
    /\ order' = "closed" /\ copy' = NoCopy
    /\ parentLeft' = {} /\ cacheLeft' = {}
    /\ out' = Nil
    /\ UNCHANGED <<parent, cache, unsortedCache, sortedCache>>

Next ==
    \/ \E k \in Keys : Get(k) \/ NextItem(k) \/ \E v \in Stored : Set(k, v)
    \/ Write \/ Drop \/ Close
    \/ \E start \in 1 .. N, end \in 1 .. N + 1, o \in Orders : Iterator(start, end, o)

Spec == Init /\ [][Next]_vars

----------------------------------------------------------------------------
(* Properties.                                                             *)

\* A clean entry repeats the parent's value; a written key is queued for the
\* B-tree or is in it with its last value; and the B-tree and the queue hold
\* written keys only.
CacheCoherent ==
    \A k \in Keys :
        /\ cache[k] # Absent /\ ~ cache[k].dirty => cache[k].value = parent[k]
        /\ Dirty(k) => k \in unsortedCache \/ sortedCache[k] = cache[k].value
        /\ k \in unsortedCache \/ sortedCache[k] # Absent => Dirty(k)

\* The iterator stands at a key that exists in what it merges: no deletion that
\* is ahead of every existing key is left in it.
IteratorExists ==
    /\ order = "closed" => parentLeft = {} /\ cacheLeft = {}
    /\ \A k \in parentLeft : parent[k] # Nil
    /\ \A k \in cacheLeft : copy[k] # Absent
    /\ \A k \in parentLeft \cup cacheLeft :
         \E e \in Existing(parentLeft, cacheLeft, copy) : NotAfter(e, k, order)

\* The view of the branch and what its iterator has yet to yield.
View == Written
Cursor ==
    {<<k, Current(k)>> : k \in Existing(parentLeft, cacheLeft, copy)}

Branch == INSTANCE KVBranch WITH base <- parent, view <- View, cursor <- Cursor

\* cachekv.Store is a branch of its parent: whatever the cache, the queue and
\* the B-tree hold, every Get, iteration and Write returns and does what the
\* branch promises, also when keys are written while an iterator is open.
RefinesBranch == Branch!Spec
=============================================================================
