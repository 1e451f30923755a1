---------------------------- MODULE CacheKVMerge ----------------------------
(***************************************************************************)
(* The iterators of cachekv as the loops the code runs: memIterator, which *)
(* seeks in the B-tree, and cacheMergeIterator, which merges it with the   *)
(* parent's iterator; and the binary searches with which dirtyItems cuts   *)
(* the range of an iterator out of its sorted dirty keys.  CacheKV has     *)
(* what they compute in closed form; here they are compared with it, in    *)
(* every state that the store gets into.                                   *)
(***************************************************************************)
EXTENDS CacheKV, Sequences, SequencesExt

Compare(a, b, o) == IF o = "ascending" THEN a - b ELSE b - a
Sorted(S) == SelectSeq([i \in Keys |-> i], LAMBDA k : k \in S)
InOrder(S, o) == IF o = "ascending" THEN Sorted(S) ELSE Reverse(Sorted(S))

----------------------------------------------------------------------------
\* newMemIterator: seek to start, or to just before end, among all the keys.
SeekFrom(s, start, end, o) ==
    IF o = "ascending"
    THEN SubSeq(s, Cardinality({i \in DOMAIN s : s[i] < start}) + 1, Len(s))
    ELSE Reverse(SubSeq(s, 1, Cardinality({i \in DOMAIN s : s[i] < end})))

\* Mutant: end is taken for inclusive.
KeyInRangeInclusive(k, start, end, o) == IF o = "ascending" THEN k <= end ELSE k >= start

\* keyInRange: the other limit ends the iteration.
KeyInRange(k, start, end, o) == IF o = "ascending" THEN k < end ELSE k >= start

RECURSIVE TakeInRange(_, _, _, _)
TakeInRange(s, start, end, o) ==
    IF s = <<>> \/ ~ KeyInRange(Head(s), start, end, o) THEN <<>>
    ELSE <<Head(s)>> \o TakeInRange(Tail(s), start, end, o)

MemIterator(items, start, end, o) ==
    TakeInRange(SeekFrom(Sorted({k \in Keys : items[k] # Absent}), start, end, o),
                start, end, o)

----------------------------------------------------------------------------
\* skipCacheDeletes; NoLimit stands for a nil until.
NoLimit == 0
RECURSIVE SkipCacheDeletes(_, _, _, _)
SkipCacheDeletes(c, until, items, o) ==
    IF /\ c # <<>> /\ items[Head(c)] = Nil
       /\ until = NoLimit \/ Compare(Head(c), until, o) < 0
    THEN SkipCacheDeletes(Tail(c), until, items, o)
    ELSE c

\* skipUntilExistsOrInvalid: what is left of both iterators.
RECURSIVE SkipUntilExists(_, _, _, _)
SkipUntilExists(p, c, items, o) ==
    IF p = <<>> THEN <<p, SkipCacheDeletes(c, NoLimit, items, o)>>
    ELSE IF c = <<>> \/ items[Head(c)] # Nil \/ Compare(Head(p), Head(c), o) < 0
    THEN <<p, c>>
    ELSE IF Head(p) = Head(c) THEN SkipUntilExists(Tail(p), Tail(c), items, o)
    ELSE SkipUntilExists(p, SkipCacheDeletes(c, Head(p), items, o), items, o)

\* Key: the smaller of the two current ones.
CurrentKey(p, c, o) ==
    IF p = <<>> THEN Head(c)
    ELSE IF c = <<>> \/ Compare(Head(p), Head(c), o) <= 0 THEN Head(p) ELSE Head(c)

\* Value: the cache's at equal keys.
CurrentValue(p, c, o) ==
    IF c = <<>> THEN parent[Head(p)]
    ELSE IF p = <<>> \/ Compare(Head(p), Head(c), o) >= 0 THEN copy[Head(c)]
    ELSE parent[Head(p)]

\* Next: the iterators that stand at the current key go on.
Advance(s, k) == IF s # <<>> /\ Head(s) = k THEN Tail(s) ELSE s

----------------------------------------------------------------------------
\* The loop both searches share: where it finds q, or how it fails.  Positions
\* count from 0, as in the code; the keys are distinct, so that the scan for
\* equal keys before mid ends at once.
RECURSIVE Search(_, _, _, _)
Search(strL, q, left, right) ==
    LET mid == (left + right) \div 2
    IN  IF left > right THEN [found |-> FALSE, left |-> left, right |-> right]
        ELSE IF strL[mid + 1] = q THEN [found |-> TRUE, at |-> mid]
        ELSE IF strL[mid + 1] < q THEN Search(strL, q, mid + 1, right)
        ELSE Search(strL, q, left, mid - 1)

FindStartIndex(strL, q) ==
    LET s == Search(strL, q, 0, Len(strL) - 1)
    IN  IF s.found THEN s.at
        ELSE IF s.left < Len(strL) /\ strL[s.left + 1] >= q THEN s.left ELSE -1

FindEndIndex(strL, q) ==
    LET s == Search(strL, q, 0, Len(strL) - 1)
        below == {i \in 0 .. s.right : strL[i + 1] < q}
    IN  IF s.found THEN s.at
        ELSE IF below = {} THEN -1 ELSE CHOOSE i \in below : \A j \in below : j <= i

----------------------------------------------------------------------------
\* What a loop leaves of both iterators is what the closed form says.
Leaves(loop, p, c, items, o) ==
    /\ loop[1] = InOrder(From(p, Existing(p, c, items), o), o)
    /\ loop[2] = InOrder(From(c, Existing(p, c, items), o), o)

\* The loops of the code compute what CacheKV states in closed form.  Wherever the
\* store is, an iterator that is opened over any domain and in any order starts
\* with what CacheKV says is left of the parent's keys and of the B-tree's; an
\* open one yields its first key and goes on to the same.  Of the dirty keys,
\* findStartIndex finds the first one >= query, or nothing; findEndIndex finds
\* the one equal to query, else the last one below it, or nothing.
LoopsAgree ==
    /\ order = "closed" =>
         \A start \in 1 .. N, end \in 1 .. N + 1, o \in Orders : start <= end =>
             LET p == {k \in Domain(start, end) : parent[k] # Nil}
                 c == {k \in Domain(start, end) : sortedCache[k] # Absent}
             IN  Leaves(SkipUntilExists(InOrder(p, o), MemIterator(sortedCache, start, end, o),
                                        sortedCache, o), p, c, sortedCache, o)
    /\ parentLeft \cup cacheLeft # {} =>
         LET p == InOrder(parentLeft, order)
             c == InOrder(cacheLeft, order)
             k == CurrentKey(p, c, order)
         IN  /\ First(parentLeft \cup cacheLeft, k, order)
             /\ CurrentValue(p, c, order) = Current(k)
             /\ Leaves(SkipUntilExists(Advance(p, k), Advance(c, k), copy, order),
                       parentLeft \ {k}, cacheLeft \ {k}, copy, order)
    /\ LET strL == Sorted(unsortedCache)
       IN  \A q \in 0 .. N + 1 :
             LET below == Index(unsortedCache, q)
             IN  /\ FindStartIndex(strL, q) =
                      IF \E k \in unsortedCache : k >= q THEN below ELSE -1
                 /\ FindEndIndex(strL, q) = IF q \in unsortedCache THEN below ELSE below - 1
=============================================================================
