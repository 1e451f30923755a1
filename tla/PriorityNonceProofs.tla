------------------------ MODULE PriorityNonceProofs ------------------------
(***************************************************************************)
(* The indexes of the priority mempool agree, its counts are exact and it  *)
(* implements TxPool, for any senders, nonces, priorities, capacity and    *)
(* rule of replacement.                                                    *)
(***************************************************************************)
EXTENDS PriorityNonce, WellFoundedInduction, FiniteSetTheorems, TLAPS

\* What the indexes are made of.
Shape ==
    /\ senderIndices = [s \in Senders |-> senderIndices[s]]
    /\ \A k \in priorityIndex :
          k = [sender |-> k.sender, nonce |-> k.nonce, priority |-> k.priority,
               weight |-> k.weight]

\* IndexesAgree, element by element.
KeysScored ==
    \A k \in priorityIndex :
        /\ Id(k) \in DOMAIN scores
        /\ scores[Id(k)] = [priority |-> k.priority, weight |-> k.weight]
ElementsScored ==
    \A s \in Senders : \A e \in senderIndices[s] :
        /\ e.tx.sender = s /\ e.tx.nonce = e.nonce
        /\ Id(e.tx) \in DOMAIN scores
        /\ scores[Id(e.tx)].priority = e.tx.priority
        /\ \A d \in senderIndices[s] : d.nonce = e.nonce => d = e
ScoresFound ==
    \A id \in DOMAIN scores :
        /\ \E k \in priorityIndex : Id(k) = id
        /\ \E s \in Senders : \E e \in senderIndices[s] : Id(e.tx) = id

IInv == Shape /\ KeysScored /\ ElementsScored /\ ScoresFound

\* A key is told by its sender and nonce.
LEMMA IdEqual ==
    ASSUME NEW a, NEW b
    PROVE  Id(a) = Id(b) <=> a.sender = b.sender /\ a.nonce = b.nonce
BY ZenonT(30) DEF Id

\* The element-wise form says what IndexesAgree says.
LEMMA ElementByElement == KeysScored /\ ElementsScored /\ ScoresFound => IndexesAgree
<1> SUFFICES ASSUME KeysScored, ElementsScored, ScoresFound PROVE IndexesAgree
    OBVIOUS
<1>1. {Id(k) : k \in priorityIndex} = DOMAIN scores
    BY ZenonT(30) DEF KeysScored, ScoresFound
<1>2. ASSUME NEW tx \in Pool PROVE Id(tx) \in DOMAIN scores
    BY <1>2 DEF Pool, ElementsScored
<1>3. ASSUME NEW id \in DOMAIN scores PROVE \E tx \in Pool : Id(tx) = id
    BY <1>3 DEF Pool, ScoresFound
<1>4. {Id(tx) : tx \in Pool} = DOMAIN scores
    BY <1>2, <1>3
<1> QED
    BY <1>1, <1>4 DEF IndexesAgree, KeysScored, ElementsScored

LEMMA InitIInv == Init => IInv
BY DEF Init, IInv, Shape, KeysScored, ElementsScored, ScoresFound

-----------------------------------------------------------------------------
\* Two keys of the priority index that are of one transaction are the same.
LEMMA KeyUnique ==
    ASSUME IInv, NEW k \in priorityIndex, NEW j \in priorityIndex, Id(k) = Id(j)
    PROVE  k = j
<1>1. k.sender = j.sender /\ k.nonce = j.nonce
    BY IdEqual
<1>2. [priority |-> k.priority, weight |-> k.weight] = [priority |-> j.priority, weight |-> j.weight]
    BY DEF IInv, KeysScored
<1>3. k.priority = j.priority /\ k.weight = j.weight
    BY <1>2
<1> QED
    BY <1>1, <1>3 DEF IInv, Shape

\* What is scored is under its key in the priority index.
LEMMA ScoredKeyIsKey ==
    ASSUME IInv, NEW tx, NEW k \in priorityIndex, Id(k) = Id(tx)
    PROVE  k = ScoredKey(tx)
<1>1. k.sender = tx.sender /\ k.nonce = tx.nonce
    BY IdEqual
<1>2. scores[Id(k)] = [priority |-> k.priority, weight |-> k.weight]
    BY DEF IInv, KeysScored
<1>3. scores[Id(tx)].priority = k.priority /\ scores[Id(tx)].weight = k.weight
    BY <1>2
<1> QED
    BY <1>1, <1>3 DEF IInv, Shape, ScoredKey

LEMMA InsertIInv ==
    ASSUME IInv, NEW tx \in Txs, Insert(tx)
    PROVE  IInv'
<1> DEFINE exists == Id(tx) \in DOMAIN scores
           new == [sender |-> tx.sender, nonce |-> tx.nonce,
                   priority |-> tx.priority, weight |-> 0]
           score == [priority |-> tx.priority, weight |-> 0]
           kept == {e \in senderIndices[tx.sender] : e.nonce # tx.nonce}
<1>1. tx.sender \in Senders
    BY DEF Senders
<1>2. PICK key : senderIndices' = [senderIndices EXCEPT ![tx.sender] =
                     kept \cup {[nonce |-> tx.nonce, priority |-> key, tx |-> tx]}]
    <2>1. PICK key : senderIndices' = [senderIndices EXCEPT ![tx.sender] =
                  (@ \ {e \in senderIndices[tx.sender] : e.nonce = tx.nonce})
                     \cup {[nonce |-> tx.nonce, priority |-> key, tx |-> tx]}]
        BY ZenonT(30) DEF Insert
    <2>2. senderIndices[tx.sender] \ {e \in senderIndices[tx.sender] : e.nonce = tx.nonce} = kept
        OBVIOUS
    <2> QED BY <2>1, <2>2, ZenonT(30)
<1> DEFINE element == [nonce |-> tx.nonce, priority |-> key, tx |-> tx]
<1>3. Id(new) = Id(tx) /\ Id(element.tx) = Id(tx)
    BY DEF Id
<1>4. /\ DOMAIN scores' = DOMAIN scores \cup {Id(tx)}
      /\ scores'[Id(tx)] = score
      /\ \A id \in DOMAIN scores : id # Id(tx) => scores'[id] = scores[id]
    BY DEF Insert
<1>5. priorityIndex' = {k \in priorityIndex : Id(k) # Id(tx)} \cup {new}
    <2>1. CASE exists
        <3>1. priorityIndex' = (priorityIndex \ {ScoredKey(tx)}) \cup {new}
            BY <2>1 DEF Insert
        <3>2. Id(ScoredKey(tx)) = Id(tx)
            BY DEF ScoredKey, Id
        <3> QED BY <3>1, <3>2, ScoredKeyIsKey
    <2>2. CASE ~exists
        <3>1. priorityIndex' = priorityIndex \cup {new}
            BY <2>2 DEF Insert
        <3> QED BY <3>1, <2>2, ZenonT(30) DEF IInv, KeysScored
    <2> QED BY <2>1, <2>2
<1>6. /\ senderIndices' = [s \in Senders |-> senderIndices'[s]]
      /\ senderIndices'[tx.sender] = kept \cup {element}
      /\ \A s \in Senders : s # tx.sender => senderIndices'[s] = senderIndices[s]
    BY <1>1, <1>2, ZenonT(30) DEF IInv, Shape
<1>7. Shape'
    BY <1>5, <1>6 DEF IInv, Shape
<1>8. KeysScored'
    <2> SUFFICES ASSUME NEW k \in priorityIndex'
                 PROVE  /\ Id(k) \in DOMAIN scores'
                        /\ scores'[Id(k)] = [priority |-> k.priority, weight |-> k.weight]
        BY ZenonT(30) DEF KeysScored
    <2>1. CASE k = new
        BY <2>1, <1>3, <1>4
    <2>2. CASE k \in priorityIndex /\ Id(k) # Id(tx)
        BY <2>2, <1>4 DEF IInv, KeysScored
    <2> QED BY <2>1, <2>2, <1>5
<1>9. ElementsScored'
    <2> SUFFICES ASSUME NEW s \in Senders, NEW e \in senderIndices'[s]
                 PROVE  /\ e.tx.sender = s /\ e.tx.nonce = e.nonce
                        /\ Id(e.tx) \in DOMAIN scores'
                        /\ scores'[Id(e.tx)].priority = e.tx.priority
                        /\ \A d \in senderIndices'[s] : d.nonce = e.nonce => d = e
        BY DEF ElementsScored
    <2>1. CASE s = tx.sender /\ e = element
        BY <2>1, <1>3, <1>4, <1>6
    <2>2. CASE s = tx.sender /\ e \in kept
        <3>1. /\ e.tx.sender = s /\ e.tx.nonce = e.nonce /\ Id(e.tx) \in DOMAIN scores
              /\ scores[Id(e.tx)].priority = e.tx.priority
              /\ \A d \in senderIndices[s] : d.nonce = e.nonce => d = e
            BY <2>2 DEF IInv, ElementsScored
        <3>2. Id(e.tx) # Id(tx) /\ element.nonce # e.nonce
            BY <2>2, <3>1, IdEqual
        <3> QED BY <2>2, <3>1, <3>2, <1>4, <1>6
    <2>3. CASE s # tx.sender
        <3>1. /\ e.tx.sender = s /\ e.tx.nonce = e.nonce /\ Id(e.tx) \in DOMAIN scores
              /\ scores[Id(e.tx)].priority = e.tx.priority
              /\ \A d \in senderIndices[s] : d.nonce = e.nonce => d = e
            BY <2>3, <1>6 DEF IInv, ElementsScored
        <3>2. Id(e.tx) # Id(tx)
            BY <2>3, <3>1, IdEqual
        <3> QED BY <2>3, <3>1, <3>2, <1>4, <1>6
    <2> QED BY <2>1, <2>2, <2>3, <1>6
<1>10. ScoresFound'
    <2> SUFFICES ASSUME NEW id \in DOMAIN scores'
                 PROVE  /\ \E k \in priorityIndex' : Id(k) = id
                        /\ \E s \in Senders : \E e \in senderIndices'[s] : Id(e.tx) = id
        BY DEF ScoresFound
    <2>1. CASE id = Id(tx)
        BY <2>1, <1>1, <1>3, <1>5, <1>6, ZenonT(30)
    <2>2. CASE id # Id(tx)
        <3>1. id \in DOMAIN scores
            BY <2>2, <1>4
        <3>a. PICK s \in Senders : \E e \in senderIndices[s] : Id(e.tx) = id
            BY <3>1 DEF IInv, ScoresFound
        <3>2. PICK e \in senderIndices[s] : Id(e.tx) = id
            BY <3>a
        <3>3. e \in senderIndices'[s]
            <4>1. e.tx.sender = s /\ e.tx.nonce = e.nonce
                BY DEF IInv, ElementsScored
            <4>2. s # tx.sender \/ e.nonce # tx.nonce
                BY <4>1, <3>2, <2>2, IdEqual
            <4> QED BY <4>2, <1>6
        <3>4. \E k \in priorityIndex' : Id(k) = id
            BY <2>2, <3>1, <1>5 DEF IInv, ScoresFound
        <3> QED BY <3>2, <3>3, <3>4
    <2> QED BY <2>1, <2>2
<1> QED BY <1>7, <1>8, <1>9, <1>10 DEF IInv

\* Remove, by the block that executes tx or by the handler that iterates.
LEMMA RemovedIInv ==
    ASSUME IInv, NEW tx, Removed(tx)
    PROVE  IInv'
<1>1. /\ DOMAIN scores' = DOMAIN scores \ {Id(tx)}
      /\ \A id \in DOMAIN scores' : scores'[id] = scores[id]
    BY DEF Removed
<1>2. priorityIndex' = {k \in priorityIndex : Id(k) # Id(tx)}
    <2>1. priorityIndex' = priorityIndex \ {ScoredKey(tx)}
        BY DEF Removed
    <2>2. Id(ScoredKey(tx)) = Id(tx)
        BY DEF ScoredKey, Id
    <2> QED BY <2>1, <2>2, ScoredKeyIsKey
<1>3. tx.sender \in Senders
    <2>1. Id(tx) \in DOMAIN scores
        BY DEF Removed
    <2>2. PICK s \in Senders : \E e \in senderIndices[s] : Id(e.tx) = Id(tx)
        BY <2>1 DEF IInv, ScoresFound
    <2>3. PICK e \in senderIndices[s] : Id(e.tx) = Id(tx)
        BY <2>2
    <2>4. e.tx.sender = s
        BY DEF IInv, ElementsScored
    <2> QED BY <2>3, <2>4, IdEqual
<1>4. /\ senderIndices' = [s \in Senders |-> senderIndices'[s]]
      /\ senderIndices'[tx.sender] = {e \in senderIndices[tx.sender] : e.nonce # tx.nonce}
      /\ \A s \in Senders : s # tx.sender => senderIndices'[s] = senderIndices[s]
    BY <1>3, ZenonT(30) DEF IInv, Shape, Removed
<1>5. Shape'
    BY <1>2, <1>4 DEF IInv, Shape
<1>6. KeysScored'
    BY <1>1, <1>2, ZenonT(30) DEF IInv, KeysScored
<1>7. ElementsScored'
    <2> SUFFICES ASSUME NEW s \in Senders, NEW e \in senderIndices'[s]
                 PROVE  /\ e.tx.sender = s /\ e.tx.nonce = e.nonce
                        /\ Id(e.tx) \in DOMAIN scores'
                        /\ scores'[Id(e.tx)].priority = e.tx.priority
                        /\ \A d \in senderIndices'[s] : d.nonce = e.nonce => d = e
        BY DEF ElementsScored
    <2>1. /\ senderIndices'[s] \subseteq senderIndices[s]
          /\ s # tx.sender \/ e.nonce # tx.nonce
        BY <1>4
    <2>2. /\ e.tx.sender = s /\ e.tx.nonce = e.nonce /\ Id(e.tx) \in DOMAIN scores
          /\ scores[Id(e.tx)].priority = e.tx.priority
          /\ \A d \in senderIndices[s] : d.nonce = e.nonce => d = e
        BY <2>1 DEF IInv, ElementsScored
    <2>3. Id(e.tx) # Id(tx)
        BY <2>1, <2>2, IdEqual
    <2> QED BY <2>1, <2>2, <2>3, <1>1
<1>8. ScoresFound'
    <2> SUFFICES ASSUME NEW id \in DOMAIN scores'
                 PROVE  /\ \E k \in priorityIndex' : Id(k) = id
                        /\ \E s \in Senders : \E e \in senderIndices'[s] : Id(e.tx) = id
        BY DEF ScoresFound
    <2>1. id \in DOMAIN scores /\ id # Id(tx)
        BY <1>1
    <2>2. PICK s \in Senders : \E e \in senderIndices[s] : Id(e.tx) = id
        BY <2>1 DEF IInv, ScoresFound
    <2>3. PICK e \in senderIndices[s] : Id(e.tx) = id
        BY <2>2
    <2>4. e.tx.sender = s /\ e.tx.nonce = e.nonce
        BY DEF IInv, ElementsScored
    <2>5. s # tx.sender \/ e.nonce # tx.nonce
        BY <2>1, <2>3, <2>4, IdEqual
    <2>6. e \in senderIndices'[s]
        BY <2>5, <1>4
    <2>7. \E k \in priorityIndex' : Id(k) = id
        BY <2>1, <1>2 DEF IInv, ScoresFound
    <2> QED BY <2>3, <2>6, <2>7
<1> QED BY <1>5, <1>6, <1>7, <1>8 DEF IInv

\* reorderPriorityTies gives keys new weights, in both places.
LEMMA SelectIInv ==
    ASSUME IInv, Select
    PROVE  IInv'
<1> DEFINE tied(k) == priorityCounts[k.priority] > 1
           ties(id) == {k \in priorityIndex : Id(k) = id /\ tied(k)}
<1>1. /\ priorityIndex' = {Reordered(k) : k \in priorityIndex}
      /\ DOMAIN scores' = DOMAIN scores
      /\ senderIndices' = senderIndices
    BY DEF Select
<1>2. ASSUME NEW k \in priorityIndex
      PROVE  /\ Id(Reordered(k)) = Id(k) /\ Reordered(k).priority = k.priority
             /\ Reordered(k).weight = IF tied(k) THEN SenderWeight(k) ELSE k.weight
             /\ Reordered(k) = [sender |-> Reordered(k).sender, nonce |-> Reordered(k).nonce,
                                priority |-> Reordered(k).priority,
                                weight |-> Reordered(k).weight]
    <2>1. k = [sender |-> k.sender, nonce |-> k.nonce, priority |-> k.priority,
               weight |-> k.weight]
        BY DEF IInv, Shape
    <2> DEFINE r == [sender |-> k.sender, nonce |-> k.nonce, priority |-> k.priority,
                     weight |-> SenderWeight(k)]
    <2>2. CASE tied(k)
        <3>1. Reordered(k) = [k EXCEPT !.weight = SenderWeight(k)]
            BY <2>2 DEF Reordered
        <3>2. [k EXCEPT !.weight = SenderWeight(k)] = r
            BY <2>1
        <3>3. Reordered(k) = r
            BY <3>1, <3>2
        <3> HIDE DEF tied
        <3> QED BY <2>2, <3>3, IdEqual
    <2>3. CASE ~tied(k)
        BY <2>1, <2>3 DEF Reordered
    <2> QED BY <2>2, <2>3, ZenonT(30)
<1>3. ASSUME NEW k \in priorityIndex
      PROVE  scores'[Id(k)] = [priority |-> k.priority,
                               weight |-> IF tied(k) THEN SenderWeight(k) ELSE k.weight]
    <2>1. Id(k) \in DOMAIN scores
          /\ scores[Id(k)] = [priority |-> k.priority, weight |-> k.weight]
        BY DEF IInv, KeysScored
    <2>2. \A j \in ties(Id(k)) : j = k
        BY KeyUnique
    <2>3. scores'[Id(k)] = IF ties(Id(k)) = {} THEN scores[Id(k)]
                           ELSE LET j == CHOOSE j \in ties(Id(k)) : TRUE
                                IN  [priority |-> j.priority, weight |-> SenderWeight(j)]
        BY <2>1 DEF Select
    <2>4. CASE tied(k)
        <3>1. k \in ties(Id(k))
            BY <2>4
        <3>2. (CHOOSE j \in ties(Id(k)) : TRUE) = k
            BY <3>1, <2>2
        <3> HIDE DEF tied, ties
        <3> QED BY <2>3, <2>4, <3>1, <3>2, ZenonT(30)
    <2>5. CASE ~tied(k)
        <3>1. ties(Id(k)) = {}
            BY <2>2, <2>5
        <3> HIDE DEF tied, ties
        <3> QED BY <2>1, <2>3, <2>5, <3>1
    <2> QED BY <2>4, <2>5
<1> HIDE DEF tied, ties
<1>4. Shape'
    BY <1>1, <1>2 DEF IInv, Shape
<1>5. KeysScored'
    <2> SUFFICES ASSUME NEW k \in priorityIndex
                 PROVE  LET r == Reordered(k)
                        IN  /\ Id(r) \in DOMAIN scores'
                            /\ scores'[Id(r)] = [priority |-> r.priority, weight |-> r.weight]
        BY <1>1 DEF KeysScored
    <2>1. Id(k) \in DOMAIN scores'
        BY <1>1, ZenonT(30) DEF IInv, KeysScored
    <2> QED BY <2>1, <1>2, <1>3
<1>6. ASSUME NEW id \in DOMAIN scores
      PROVE  scores'[id].priority = scores[id].priority
    <2>1. PICK k \in priorityIndex : Id(k) = id
        BY DEF IInv, ScoresFound
    <2>2. scores[Id(k)] = [priority |-> k.priority, weight |-> k.weight]
        BY DEF IInv, KeysScored
    <2>3. scores[Id(k)].priority = k.priority
        BY <2>2
    <2> DEFINE w == IF tied(k) THEN SenderWeight(k) ELSE k.weight
    <2>a. scores'[Id(k)] = [priority |-> k.priority, weight |-> w]
        BY <1>3
    <2> HIDE DEF w
    <2>4. scores'[Id(k)].priority = k.priority
        BY <2>a
    <2> QED BY <2>1, <2>3, <2>4
<1>7. ElementsScored'
    BY <1>1, <1>6 DEF IInv, ElementsScored
<1>8. ScoresFound'
    BY <1>1, <1>2 DEF IInv, ScoresFound
<1> QED BY <1>4, <1>5, <1>7, <1>8 DEF IInv

-----------------------------------------------------------------------------
\* The other steps leave the indexes alone.
LEMMA UnchangedIInv == IInv /\ UNCHANGED indexes => IInv'
BY DEF IInv, Shape, KeysScored, ElementsScored, ScoresFound, indexes

LEMMA NextIInv ==
    ASSUME IInv, [Next]_vars
    PROVE  IInv'
<1>1. ASSUME NEW tx \in Txs, Insert(tx) PROVE IInv'
    BY <1>1, InsertIInv
<1>2. ASSUME NEW tx \in Txs, Remove(tx) PROVE IInv'
    BY <1>2, RemovedIInv DEF Remove
<1>3. CASE Select
    BY <1>3, SelectIInv
<1>4. CASE Refused
    BY <1>4, RemovedIInv DEF Refused
<1>5. CASE PriorityEnds \/ IteratePriority \/ SenderWaits \/ SenderNext \/ Selected \/ Break
    BY <1>5, UnchangedIInv
       DEF PriorityEnds, IteratePriority, SenderWaits, SenderNext, Selected, Break
<1>6. CASE UNCHANGED vars
    BY <1>6, UnchangedIInv DEF vars
<1> QED
    BY <1>1, <1>2, <1>3, <1>4, <1>5, <1>6 DEF Next, Iterate

\* The indexes of PriorityNonceMempool agree after any sequence of Insert,
\* Select, Remove and steps of the iterator, removals during an iteration
\* included.
THEOREM AlwaysAgree == Spec => []IndexesAgree
<1>1. Init => IInv
    BY InitIInv
<1>2. IInv /\ [Next]_vars => IInv'
    BY NextIInv
<1>3. IInv => IndexesAgree
    BY ElementByElement DEF IInv
<1> QED BY <1>1, <1>2, <1>3, PTL DEF Spec

-----------------------------------------------------------------------------
(* The counts.                                                             *)

Of(S, p) == {k \in S : k.priority = p}

CountInv ==
    /\ IsFiniteSet(priorityIndex)
    /\ priorityCounts = [p \in Priorities |-> priorityCounts[p]]
    /\ CountsExact

\* One key less, and one more.
LEMMA CountRemoved ==
    ASSUME NEW S, IsFiniteSet(S), NEW k \in S, NEW p
    PROVE  /\ IsFiniteSet(S \ {k}) /\ Cardinality(S \ {k}) = Cardinality(S) - 1
           /\ Cardinality(Of(S, p)) \in Nat
           /\ Cardinality(Of(S \ {k}, p)) =
                  Cardinality(Of(S, p)) - (IF k.priority = p THEN 1 ELSE 0)
<1>1. IsFiniteSet(Of(S, p)) /\ Cardinality(Of(S, p)) \in Nat
    BY FS_Subset, FS_CardinalityType DEF Of
<1>2. Of(S \ {k}, p) = Of(S, p) \ {k} /\ (k \in Of(S, p) <=> k.priority = p)
    BY DEF Of
<1>3. Cardinality(Of(S, p) \ {k}) = IF k \in Of(S, p) THEN Cardinality(Of(S, p)) - 1
                                    ELSE Cardinality(Of(S, p))
    BY <1>1, FS_RemoveElement, ZenonT(30)
<1>4. IsFiniteSet(S \ {k}) /\ Cardinality(S \ {k}) = Cardinality(S) - 1
    BY FS_RemoveElement
<1> DEFINE c == Cardinality(Of(S, p))
<1>5. Cardinality(Of(S \ {k}, p)) = IF k.priority = p THEN c - 1 ELSE c
    BY <1>2, <1>3, ZenonT(30)
<1>6. c \in Nat
    BY <1>1
<1> HIDE DEF c
<1>7. Cardinality(Of(S \ {k}, p)) = c - (IF k.priority = p THEN 1 ELSE 0)
    BY <1>5, <1>6
<1> QED BY <1>4, <1>6, <1>7, ZenonT(30) DEF c

LEMMA CountAdded ==
    ASSUME NEW S, IsFiniteSet(S), NEW k, k \notin S, NEW T, T = S \cup {k}, NEW p
    PROVE  /\ IsFiniteSet(T) /\ Cardinality(T) = Cardinality(S) + 1
           /\ Cardinality(Of(S, p)) \in Nat
           /\ Cardinality(Of(T, p)) =
                  Cardinality(Of(S, p)) + (IF k.priority = p THEN 1 ELSE 0)
<1>1. IsFiniteSet(Of(S, p)) /\ Cardinality(Of(S, p)) \in Nat
    BY FS_Subset, FS_CardinalityType DEF Of
<1>2. k \notin Of(S, p)
    BY DEF Of
<1>3. CASE k.priority = p
    <2>1. Of(T, p) = Of(S, p) \cup {k}
        BY <1>3 DEF Of
    <2> QED BY <1>1, <1>2, <1>3, <2>1, FS_AddElement, ZenonT(30)
<1>4. CASE k.priority # p
    <2>1. Of(T, p) = Of(S, p)
        BY <1>4 DEF Of
    <2> QED BY <1>1, <1>4, <2>1, FS_AddElement
<1> QED BY <1>3, <1>4

\* What scores has of a transaction is a key of the priority index.
LEMMA ScoredKeyThere ==
    ASSUME IInv, NEW tx, Id(tx) \in DOMAIN scores
    PROVE  /\ ScoredKey(tx) \in priorityIndex
           /\ ScoredKey(tx).priority = scores[Id(tx)].priority
<1>1. PICK k \in priorityIndex : Id(k) = Id(tx)
    BY DEF IInv, ScoresFound
<1>2. k = ScoredKey(tx)
    BY <1>1, ScoredKeyIsKey
<1> QED BY <1>2 DEF ScoredKey

\* Insert, of a new transaction and in place of another one.
LEMMA InsertCounts ==
    ASSUME IInv, CountInv, NEW tx \in Txs, Insert(tx)
    PROVE  CountInv'
<1> DEFINE exists == Id(tx) \in DOMAIN scores
           old == scores[Id(tx)].priority
           new == [sender |-> tx.sender, nonce |-> tx.nonce,
                   priority |-> tx.priority, weight |-> 0]
           rest == {k \in priorityIndex : Id(k) # Id(tx)}
           less(p) == IF exists /\ p = old THEN 1 ELSE 0
           more(p) == IF p = tx.priority THEN 1 ELSE 0
<1>1. /\ priorityCounts' = [p \in Priorities |-> priorityCounts[p] + more(p) - less(p)]
      /\ ~Full
    BY ZenonT(30) DEF Insert
<1>2. Id(new) = Id(tx) /\ Id(ScoredKey(tx)) = Id(tx)
    BY DEF Id, ScoredKey
<1>3. new \notin rest /\ new.priority = tx.priority
    BY <1>2
<1>4. /\ priorityIndex' = rest \cup {new}
      /\ IsFiniteSet(rest)
      /\ Cardinality(rest) <= Cardinality(priorityIndex)
      /\ Cardinality(priorityIndex) \in Nat /\ Cardinality(rest) \in Nat
      /\ \A p : /\ Cardinality(Of(priorityIndex, p)) \in Nat
                /\ Cardinality(Of(rest, p)) = Cardinality(Of(priorityIndex, p)) - less(p)
    <2>0. IsFiniteSet(priorityIndex) /\ Cardinality(priorityIndex) \in Nat
        BY FS_CardinalityType DEF CountInv
    <2>1. CASE exists
        <3>1. ScoredKey(tx) \in priorityIndex /\ ScoredKey(tx).priority = old
            BY <2>1, ScoredKeyThere
        <3>2. rest = priorityIndex \ {ScoredKey(tx)}
            BY <1>2, ScoredKeyIsKey
        <3>3. priorityIndex' = rest \cup {new}
            BY <2>1, <3>2, ZenonT(30) DEF Insert
        <3>4. \A p : /\ IsFiniteSet(rest) /\ Cardinality(rest) = Cardinality(priorityIndex) - 1
                     /\ Cardinality(Of(priorityIndex, p)) \in Nat
                     /\ Cardinality(Of(rest, p)) =
                            Cardinality(Of(priorityIndex, p))
                              - (IF ScoredKey(tx).priority = p THEN 1 ELSE 0)
            BY <2>0, <3>1, <3>2, CountRemoved
        <3>5. Cardinality(rest) \in Nat
            BY <3>4, FS_CardinalityType
        <3>6. \A p : less(p) = IF ScoredKey(tx).priority = p THEN 1 ELSE 0
            BY <2>1, <3>1
        <3> HIDE DEF rest, new, less
        <3> QED BY <2>0, <3>3, <3>4, <3>5, <3>6
    <2>2. CASE ~exists
        <3>1. rest = priorityIndex
            BY <2>2, ZenonT(30) DEF IInv, KeysScored
        <3>2. priorityIndex' = rest \cup {new}
            BY <2>2, <3>1, ZenonT(30) DEF Insert
        <3>3. \A p : IsFiniteSet(Of(priorityIndex, p)) /\ Cardinality(Of(priorityIndex, p)) \in Nat
            BY <2>0, FS_Subset, FS_CardinalityType DEF Of
        <3>4. \A p : less(p) = 0
            BY <2>2
        <3> HIDE DEF rest, new, less
        <3> QED BY <2>0, <3>1, <3>2, <3>3, <3>4
    <2> QED BY <2>1, <2>2, ZenonT(30)
<1> HIDE DEF rest, new, less, exists, old
<1>5. ASSUME NEW p
      PROVE  /\ IsFiniteSet(priorityIndex') /\ Cardinality(priorityIndex') = Cardinality(rest) + 1
             /\ Cardinality(Of(rest, p)) \in Nat
             /\ Cardinality(Of(priorityIndex', p)) = Cardinality(Of(rest, p)) + more(p)
    <2>1. IsFiniteSet(rest) /\ new \notin rest /\ priorityIndex' = rest \cup {new}
        BY <1>3, <1>4
    <2>2. /\ IsFiniteSet(priorityIndex') /\ Cardinality(priorityIndex') = Cardinality(rest) + 1
          /\ Cardinality(Of(rest, p)) \in Nat
          /\ Cardinality(Of(priorityIndex', p)) =
                 Cardinality(Of(rest, p)) + (IF new.priority = p THEN 1 ELSE 0)
        BY ONLY <2>1, CountAdded
    <2>3. (IF new.priority = p THEN 1 ELSE 0) = more(p)
        BY <1>3
    <2> QED BY <2>2, <2>3
<1>6. ASSUME NEW p \in Priorities
      PROVE  priorityCounts'[p] = Cardinality(Of(priorityIndex', p))
    <2>1. priorityCounts[p] = Cardinality(Of(priorityIndex, p))
        BY DEF CountInv, CountsExact, Of
    <2>2. less(p) \in {0, 1} /\ more(p) \in {0, 1}
        BY DEF less
    <2>3. priorityCounts'[p] = priorityCounts[p] + more(p) - less(p)
        BY <1>1
    <2> DEFINE c == Cardinality(Of(priorityIndex, p))
               d == Cardinality(Of(rest, p))
               n == Cardinality(Of(priorityIndex', p))
    <2>4. c \in Nat /\ d = c - less(p)
        BY <1>4, ZenonT(30)
    <2>5. n = d + more(p)
        BY <1>5, ZenonT(30)
    <2> HIDE DEF more, c, d, n
    <2>6. priorityCounts'[p] = n
        BY <2>1, <2>2, <2>3, <2>4, <2>5 DEF c
    <2> QED BY <2>6 DEF n
<1>7. MaxTx > 0 => Cardinality(priorityIndex') <= MaxTx
    <2>1. /\ Cardinality(rest) <= Cardinality(priorityIndex)
          /\ Cardinality(priorityIndex) \in Nat /\ Cardinality(rest) \in Nat
        BY <1>4, ZenonT(30)
    <2>2. Cardinality(priorityIndex') = Cardinality(rest) + 1
        BY <1>5, ZenonT(30)
    <2>3. ~(MaxTx > 0 /\ Cardinality(priorityIndex) >= MaxTx)
        BY <1>1, ZenonT(30) DEF Full
    <2> QED BY <2>1, <2>2, <2>3, MempoolAssumption
<1> QED BY <1>1, <1>5, <1>6, <1>7, ZenonT(30) DEF CountInv, CountsExact, Of

\* Remove.
LEMMA RemovedCounts ==
    ASSUME IInv, CountInv, NEW tx, Removed(tx)
    PROVE  CountInv'
<1> DEFINE q == scores[Id(tx)].priority
           key == ScoredKey(tx)
<1>1. key \in priorityIndex /\ key.priority = q
    BY ScoredKeyThere, ZenonT(30) DEF Removed
<1>2. /\ priorityIndex' = priorityIndex \ {key}
      /\ priorityCounts' = [priorityCounts EXCEPT ![q] = @ - 1]
    BY DEF Removed
<1> HIDE DEF q, key
<1>3. \A p : /\ IsFiniteSet(priorityIndex')
             /\ Cardinality(priorityIndex') = Cardinality(priorityIndex) - 1
             /\ Cardinality(Of(priorityIndex, p)) \in Nat
             /\ Cardinality(Of(priorityIndex', p)) =
                    Cardinality(Of(priorityIndex, p)) - (IF key.priority = p THEN 1 ELSE 0)
    BY <1>1, <1>2, CountRemoved DEF CountInv
<1>4. /\ priorityCounts' = [p \in Priorities |-> priorityCounts'[p]]
      /\ \A p \in Priorities :
            priorityCounts'[p] = IF p = q THEN priorityCounts[p] - 1 ELSE priorityCounts[p]
    <2>1. priorityCounts = [p \in Priorities |-> priorityCounts[p]]
        BY DEF CountInv
    <2> QED BY <1>2, <2>1
<1>5. ASSUME NEW p \in Priorities
      PROVE  priorityCounts'[p] = Cardinality(Of(priorityIndex', p))
    <2>1. priorityCounts[p] = Cardinality(Of(priorityIndex, p))
        BY DEF CountInv, CountsExact, Of
    <2> QED BY <1>1, <1>3, <1>4, <2>1
<1>6. Cardinality(priorityIndex) \in Nat
    BY FS_CardinalityType DEF CountInv
<1>7. MaxTx > 0 => Cardinality(priorityIndex') <= MaxTx
    BY <1>3, <1>6, MempoolAssumption DEF CountInv, CountsExact
<1> QED BY <1>3, <1>4, <1>5, <1>7, ZenonT(30) DEF CountInv, CountsExact, Of

\* reorderPriorityTies gives a key another weight and keeps its priority.
LEMMA SelectCounts ==
    ASSUME IInv, CountInv, Select
    PROVE  CountInv'
<1>1. priorityIndex' = {Reordered(k) : k \in priorityIndex} /\ priorityCounts' = priorityCounts
    BY DEF Select
<1>2. ASSUME NEW k \in priorityIndex
      PROVE  Id(Reordered(k)) = Id(k) /\ Reordered(k).priority = k.priority
    <2>1. k = [sender |-> k.sender, nonce |-> k.nonce, priority |-> k.priority,
               weight |-> k.weight]
        BY ZenonT(30) DEF IInv, Shape
    <2>2. \A w : [k EXCEPT !.weight = w] = [sender |-> k.sender, nonce |-> k.nonce,
                                            priority |-> k.priority, weight |-> w]
        BY <2>1
    <2>3. \A w : /\ [k EXCEPT !.weight = w].sender = k.sender
                 /\ [k EXCEPT !.weight = w].nonce = k.nonce
                 /\ [k EXCEPT !.weight = w].priority = k.priority
        BY <2>2
    <2> QED BY <2>3 DEF Reordered, Id
<1>3. ASSUME NEW S \in SUBSET priorityIndex
      PROVE  LET T == {Reordered(k) : k \in S}
             IN  IsFiniteSet(T) /\ Cardinality(T) = Cardinality(S)
    <2> DEFINE T == {Reordered(k) : k \in S}
               f == [k \in S |-> Reordered(k)]
    <2>1. IsFiniteSet(S)
        BY FS_Subset DEF CountInv
    <2>2. f \in Bijection(S, T)
        <3>1. \A k, j \in S : f[k] = f[j] => k = j
            BY <1>2, KeyUnique
        <3>2. f \in [S -> T] /\ \A t \in T : \E k \in S : f[k] = t
            OBVIOUS
        <3> HIDE DEF f, T
        <3> QED BY <3>1, <3>2, ZenonT(30) DEF Bijection, Injection, Surjection, IsInjective
    <2>3. ExistsBijection(S, T)
        BY <2>2 DEF ExistsBijection
    <2> HIDE DEF T
    <2>4. IsFiniteSet(T) /\ Cardinality(T) = Cardinality(S)
        BY <2>1, <2>3, FS_Bijection
    <2> QED BY <2>4 DEF T
<1>4. IsFiniteSet(priorityIndex') /\ Cardinality(priorityIndex') = Cardinality(priorityIndex)
    BY <1>1, <1>3
<1>5. ASSUME NEW p
      PROVE  Cardinality(Of(priorityIndex', p)) = Cardinality(Of(priorityIndex, p))
    <2>1. Of(priorityIndex', p) = {Reordered(k) : k \in Of(priorityIndex, p)}
        BY <1>1, <1>2 DEF Of
    <2>2. Of(priorityIndex, p) \in SUBSET priorityIndex
        BY DEF Of
    <2> QED BY <1>3, <2>1, <2>2
<1> QED BY <1>1, <1>4, <1>5, ZenonT(30) DEF CountInv, CountsExact, Of

\* priorityCounts counts the keys of each priority after any sequence of Insert,
\* replacements, Select, Remove and steps of the iterator, and a mempool with a
\* capacity never holds more than that.
THEOREM CountsAreExact == Spec => []CountsExact
<1>1. Init => IInv /\ CountInv
    BY InitIInv, FS_EmptySet, MempoolAssumption DEF Init, CountInv, CountsExact
<1>2. ASSUME IInv, CountInv, [Next]_vars PROVE CountInv'
    <2>1. ASSUME NEW tx \in Txs, Insert(tx) PROVE CountInv'
        BY <1>2, <2>1, InsertCounts
    <2>2. ASSUME NEW tx \in Txs, Remove(tx) PROVE CountInv'
        BY <1>2, <2>2, RemovedCounts DEF Remove
    <2>3. CASE Select
        BY <1>2, <2>3, SelectCounts
    <2>4. CASE Refused
        BY <1>2, <2>4, RemovedCounts DEF Refused
    <2>5. ASSUME UNCHANGED indexes PROVE CountInv'
        BY <1>2, <2>5 DEF CountInv, CountsExact, indexes
    <2>6. CASE PriorityEnds \/ IteratePriority \/ SenderWaits \/ SenderNext \/ Selected \/ Break
        BY <2>5, <2>6 DEF PriorityEnds, IteratePriority, SenderWaits, SenderNext, Selected, Break
    <2>7. CASE UNCHANGED vars
        BY <2>5, <2>7 DEF vars
    <2> QED BY <1>2, <2>1, <2>2, <2>3, <2>4, <2>6, <2>7 DEF Next, Iterate
<1>3. CountInv => CountsExact
    BY DEF CountInv
<1> QED BY <1>1, <1>2, <1>3, NextIInv, PTL DEF Spec

-----------------------------------------------------------------------------
(***************************************************************************)
(* The refinement.                                                         *)
(***************************************************************************)
Typed ==
    /\ priorityIndex \subseteq Key
    /\ senderIndices \in [Senders -> SUBSET ElementOf]
    /\ senderCursors \in [Senders -> Value \cup {Nil}]
    /\ priorityNode \in Key \cup {Nil}
    /\ at \in {"closed", "priority", "sender", "tx"}
    /\ cut \in BOOLEAN

\* The iterator is at a sender's transactions.
AtSender == at \in {"sender", "tx"}

\* Where the iterator is.
Placed ==
    /\ at = "closed" => /\ priorityNode = Nil /\ ~cut
                        /\ senderCursors = [s \in Senders |-> Nil]
    /\ at = "priority" /\ priorityNode = Nil => priorityIndex # {}
    /\ AtSender => priorityNode \in Key /\ sender = priorityNode.sender /\ sender \in Senders
    /\ at = "tx" => \E e \in senderIndices[sender] : e.nonce = senderCursors[sender]

\* As long as nothing was removed, what the iterator holds is in the indexes.
Anchored ==
    ~cut =>
        /\ priorityNode # Nil => priorityNode \in priorityIndex
        /\ \A s \in Senders : senderCursors[s] # Nil =>
              \E e \in senderIndices[s] : e.nonce = senderCursors[s]
        /\ AtSender =>
              nextPriority = IF NextNode(priorityNode) = Nil THEN MinValue
                             ELSE NextNode(priorityNode).priority

\* A transaction that was not yielded is its sender's turn, or waits for one of
\* its sender that the iterator has still to come to in the priority index.
Ahead(tx) ==
    \/ AtSender /\ tx.sender = sender
    \/ \E gate \in Pool \ Seen :
          /\ gate.sender = tx.sender /\ gate.nonce <= tx.nonce
          /\ priorityNode = Nil \/ Before(priorityNode, ScoredKey(gate))

NoneLost == at # "closed" /\ ~cut /\ Doubtful = {} => \A tx \in Pool \ Seen : Ahead(tx)

RInv == IInv /\ Typed /\ Placed /\ Anchored /\ NoneLost

\* Values have a least and a greatest one.
LEMMA Least ==
    ASSUME NEW S \in SUBSET Nat, S # {}
    PROVE  \E m \in S : \A n \in S : m <= n
<1>1. IsWellFoundedOn(OpToRel(<, Nat), Nat)
    BY NatLessThanWellFounded, ZenonT(30)
<1>2. PICK m \in S : \A n \in S : ~(<<n, m>> \in OpToRel(<, Nat))
    BY <1>1, WFMin, ZenonT(30)
<1>3. \A n \in S : ~(n < m)
    BY <1>2, ZenonT(30) DEF OpToRel
<1> QED BY <1>3

LEMMA Greatest ==
    ASSUME NEW S \in SUBSET Value, S # {}
    PROVE  \E m \in S : \A n \in S : n <= m
<1> DEFINE T == {MaxValue - n : n \in S}
<1>1. T \in SUBSET Nat /\ T # {}
    BY MempoolAssumption DEF Value
<1>2. PICK t \in T : \A u \in T : t <= u
    BY <1>1, Least, ZenonT(30)
<1>3. PICK m \in S : t = MaxValue - m
    OBVIOUS
<1>4. ASSUME NEW n \in S PROVE n <= m
    <2>1. t <= MaxValue - n
        BY <1>2
    <2> QED BY <2>1, <1>3, MempoolAssumption DEF Value
<1> QED BY <1>4

\* What First finds in a sender's index.
LEMMA FirstFound ==
    ASSUME NEW S \in SUBSET ElementOf, S # {}
    PROVE  First(S) \in S /\ \A d \in S : First(S).nonce <= d.nonce
<1> DEFINE N == {e.nonce : e \in S}
<1>1. N \in SUBSET Nat /\ N # {}
    BY MempoolAssumption DEF ElementOf, Value
<1>2. PICK m \in N : \A n \in N : m <= n
    BY <1>1, Least, ZenonT(30)
<1>3. \E e \in S : \A d \in S : e.nonce <= d.nonce
    BY <1>2
<1> QED BY <1>3 DEF First

\* senderWeight is one of the sender's priorities.
LEMMA WeightFound ==
    ASSUME RInv, NEW k \in priorityIndex
    PROVE  SenderWeight(k) \in Value
<1> DEFINE rest == {e \in senderIndices[k.sender] : e.nonce >= k.nonce}
           N == {e.nonce : e \in rest}
<1>1. PICK s \in Senders : \E e \in senderIndices[s] : Id(e.tx) = Id(k)
    BY ZenonT(30) DEF RInv, IInv, KeysScored, ScoresFound
<1>2. PICK e \in senderIndices[s] : Id(e.tx) = Id(k)
    BY <1>1
<1>3. e.tx.sender = s /\ e.tx.nonce = e.nonce
    BY ZenonT(30) DEF RInv, IInv, ElementsScored
<1>4. s = k.sender /\ e.nonce = k.nonce
    BY <1>2, <1>3, IdEqual
<1>5. rest \subseteq ElementOf /\ e \in rest
    BY <1>4, MempoolAssumption DEF RInv, Typed, ElementOf, Value
<1>6. N \in SUBSET Value /\ N # {}
    BY <1>5, ZenonT(30) DEF ElementOf
<1>7. PICK m \in N : \A n \in N : n <= m
    BY <1>6, Greatest, ZenonT(30)
<1>8. \E d \in rest : \A c \in rest : c.nonce <= d.nonce
    BY <1>7
<1>9. (CHOOSE d \in rest : \A c \in rest : c.nonce <= d.nonce) \in rest
    BY <1>8, ZenonT(30)
<1> QED BY <1>9, <1>5, ZenonT(30) DEF SenderWeight, ElementOf

\* What Front finds in the priority index.
LEMMA FrontFound ==
    ASSUME NEW S \in SUBSET Key, S # {}
    PROVE  Front(S) \in S /\ \A j \in S \ {Front(S)} : Before(Front(S), j)
<1> DEFINE P0 == {k.priority : k \in S}
<1>1. PICK p \in P0 : \A q \in P0 : q <= p
    <2>1. P0 \in SUBSET Value /\ P0 # {} BY DEF Key
    <2> QED BY <2>1, Greatest, ZenonT(30)
<1> DEFINE S1 == {k \in S : k.priority = p}
           W == {k.weight : k \in S1}
<1>2. PICK w \in W : \A v \in W : v <= w
    <2>1. W \in SUBSET Value /\ W # {} BY DEF Key
    <2> QED BY <2>1, Greatest, ZenonT(30)
<1> DEFINE S2 == {k \in S1 : k.weight = w}
           A == {k.sender : k \in S2}
<1>3. PICK a \in A : \A b \in A : b <= a
    <2>1. A \in SUBSET Value /\ A # {} BY ZenonT(30) DEF Key
    <2> QED BY <2>1, Greatest, ZenonT(30)
<1> DEFINE S3 == {k \in S2 : k.sender = a}
           N == {k.nonce : k \in S3}
<1>4. PICK n \in N : \A m \in N : m <= n
    <2>1. N \in SUBSET Value /\ N # {} BY DEF Key
    <2> QED BY <2>1, Greatest, ZenonT(30)
<1>5. PICK k \in S3 : k.nonce = n
    OBVIOUS
<1>6. k \in S /\ k.priority = p /\ k.weight = w /\ k.sender = a
    OBVIOUS
<1>7. ASSUME NEW j \in S, j # k PROVE Before(k, j)
    <2>1. j.priority <= p /\ (j.priority = p => j.weight <= w)
        BY <1>1, <1>2
    <2>2. j \in S2 => j.sender <= a
        BY <1>3
    <2>3. j \in S3 => j.nonce <= n
        BY <1>4
    <2>4. j \in S3 => j.nonce # n
        BY <1>5, <1>6, <1>7 DEF Key
    <2>5. /\ j.priority \in Int /\ j.weight \in Int /\ j.sender \in Int /\ j.nonce \in Int
          /\ k.priority \in Int /\ k.weight \in Int /\ k.sender \in Int /\ k.nonce \in Int
        BY <1>6, MempoolAssumption DEF Key, Value
    <2> QED BY <2>1, <2>2, <2>3, <2>4, <2>5, <1>5, <1>6, SMTT(30) DEF Before
<1>8. \E c \in S : \A j \in S \ {c} : Before(c, j)
    BY <1>6, <1>7, ZenonT(30)
<1> QED BY <1>8, ZenonT(30) DEF Front

-----------------------------------------------------------------------------
LEMMA SamePool == UNCHANGED senderIndices => Pool' = Pool /\ Doubtful' = Doubtful
BY ZenonT(30) DEF Pool, Doubtful

LEMMA SameSeen == UNCHANGED <<senderIndices, senderCursors>> => Seen' = Seen
BY SamePool DEF Seen

\* A transaction of the pool has an element and a key.
LEMMA PoolElement ==
    ASSUME RInv, NEW tx \in Pool
    PROVE  /\ tx \in Txs /\ tx.sender \in Senders
           /\ tx.nonce \in Value /\ tx.priority \in Value
           /\ \E e \in senderIndices[tx.sender] : e.tx = tx /\ e.nonce = tx.nonce
           /\ Id(tx) \in DOMAIN scores /\ scores[Id(tx)].priority = tx.priority
           /\ ScoredKey(tx) \in priorityIndex
<1>1. PICK s \in Senders : \E e \in senderIndices[s] : e.tx = tx
    BY DEF Pool
<1>2. PICK e \in senderIndices[s] : e.tx = tx
    BY <1>1
<1>3. /\ tx.sender = s /\ tx.nonce = e.nonce /\ Id(tx) \in DOMAIN scores
      /\ scores[Id(tx)].priority = tx.priority
    BY <1>2, ZenonT(30) DEF RInv, IInv, ElementsScored
<1>4. tx \in Txs
    BY <1>2 DEF RInv, Typed, ElementOf
<1>5. tx.nonce \in Value /\ tx.priority \in Value
    BY <1>4, MempoolAssumption, ZenonT(30) DEF Tx
<1>6. PICK k \in priorityIndex : Id(k) = Id(tx)
    BY <1>3, ZenonT(30) DEF RInv, IInv, ScoresFound
<1>7. ScoredKey(tx) = k
    BY <1>6, ScoredKeyIsKey, ZenonT(30) DEF RInv
<1> QED BY <1>2, <1>3, <1>4, <1>5, <1>7

LEMMA ElementPooled ==
    ASSUME RInv, NEW s \in Senders, NEW e \in senderIndices[s]
    PROVE  /\ e.tx \in Pool /\ e.tx.sender = s /\ e.tx.nonce = e.nonce
           /\ e.nonce \in Value /\ e.priority \in Value
BY DEF Pool, RInv, IInv, ElementsScored, Typed, ElementOf

\* A key is of one of the senders.
LEMMA KeySender ==
    ASSUME RInv, NEW k \in priorityIndex
    PROVE  k \in Key /\ k # Nil /\ k.sender \in Senders
<1>1. PICK s \in Senders : \E e \in senderIndices[s] : Id(e.tx) = Id(k)
    BY ZenonT(30) DEF RInv, IInv, KeysScored, ScoresFound
<1>2. PICK e \in senderIndices[s] : Id(e.tx) = Id(k)
    BY <1>1
<1>3. e.tx.sender = k.sender /\ e.tx.sender = s
    BY <1>2, IdEqual, ZenonT(30) DEF RInv, IInv, ElementsScored
<1> QED BY <1>3, NilAssumption, SMTT(30) DEF RInv, Typed

\* The next node of the priority index, and whether there is one.
LEMMA NextFound ==
    ASSUME RInv, NEW k \in priorityIndex
    PROVE  /\ NextNode(k) = Nil <=> After(k) = {}
           /\ NextNode(k) # Nil => /\ NextNode(k) \in After(k)
                                   /\ \A j \in After(k) \ {NextNode(k)} : Before(NextNode(k), j)
<1>1. After(k) \in SUBSET Key /\ After(k) \subseteq priorityIndex
    BY DEF After, RInv, Typed
<1>2. CASE After(k) = {}
    BY <1>2 DEF NextNode
<1>3. CASE After(k) # {}
    <2>1. NextNode(k) = Front(After(k))
        BY <1>3 DEF NextNode
    <2>2. /\ Front(After(k)) \in After(k)
          /\ \A j \in After(k) \ {Front(After(k))} : Before(Front(After(k)), j)
        BY <1>1, <1>3, FrontFound
    <2>3. Front(After(k)) # Nil
        BY <1>1, <2>2, KeySender
    <2> QED BY <1>3, <2>1, <2>2, <2>3
<1> QED BY <1>2, <1>3

LEMMA NodesFound ==
    ASSUME RInv, at = "priority", Nodes # Nil
    PROVE  Nodes \in priorityIndex
<1>1. CASE priorityNode = Nil
    <2>1. Nodes = Front(priorityIndex) /\ priorityIndex # {}
        BY <1>1 DEF Nodes, RInv, Placed
    <2> QED BY <2>1, FrontFound DEF RInv, Typed
<1>2. CASE priorityNode # Nil
    <2>1. Nodes = NextNode(priorityNode)
        BY <1>2 DEF Nodes
    <2>2. priorityNode \in priorityIndex
        BY <2>1 DEF NextNode
    <2> QED BY <2>1, <2>2, NextFound DEF After
<1> QED BY <1>1, <1>2

-----------------------------------------------------------------------------
LEMMA InitRInv == Init => RInv
<1> SUFFICES ASSUME Init PROVE RInv
    OBVIOUS
<1>1. Typed /\ Placed /\ Anchored
    BY ZenonT(30) DEF Init, Typed, Placed, Anchored, AtSender
<1>2. NoneLost
    BY DEF Init, NoneLost
<1> QED BY <1>1, <1>2, InitIInv DEF RInv

\* An iterator that is closed.
LEMMA ClosedRInv ==
    ASSUME IInv', Typed', at' = "closed", priorityNode' = Nil, cut' = FALSE,
           senderCursors' = [s \in Senders |-> Nil]
    PROVE  RInv'
<1>1. Placed' /\ Anchored'
    BY ZenonT(30) DEF Placed, Anchored, AtSender
<1>2. NoneLost'
    BY DEF NoneLost
<1> QED BY <1>1, <1>2 DEF RInv

LEMMA StillClosed ==
    ASSUME RInv, at = "closed", UNCHANGED iterator
    PROVE  /\ at' = "closed" /\ priorityNode' = Nil /\ cut' = FALSE
           /\ senderCursors' = [s \in Senders |-> Nil]
BY DEF RInv, Placed, iterator, Typed

LEMMA InsertRInv ==
    ASSUME RInv, NEW tx \in Txs, Insert(tx)
    PROVE  RInv'
<1>1. IInv'
    BY InsertIInv, SMTT(30) DEF RInv
<1>2. /\ at = "closed" /\ UNCHANGED iterator
    BY ZenonT(30) DEF Insert
<1>3. Typed'
    <2>1. tx.sender \in Senders /\ tx \in Tx
        BY MempoolAssumption, SMTT(30) DEF Senders
    <2>2. priorityIndex' \subseteq Key
        <3>1. 0 \in Value
            BY MempoolAssumption DEF Value
        <3>2. [sender |-> tx.sender, nonce |-> tx.nonce,
               priority |-> tx.priority, weight |-> 0] \in Key
            BY <2>1, <3>1 DEF Tx, Key
        <3> QED BY <3>2, ZenonT(30) DEF Insert, RInv, Typed
    <2>3. senderIndices' \in [Senders -> SUBSET ElementOf]
        <3> DEFINE element == {e \in senderIndices[tx.sender] : e.nonce = tx.nonce}
        <3>1. PICK key \in {tx.priority} \cup {e.priority : e \in element} :
                 senderIndices' = [senderIndices EXCEPT ![tx.sender] =
                     (@ \ element) \cup {[nonce |-> tx.nonce, priority |-> key, tx |-> tx]}]
            BY ZenonT(30) DEF Insert
        <3>2. key \in Value
            BY <2>1 DEF Tx, RInv, Typed, ElementOf
        <3>3. [nonce |-> tx.nonce, priority |-> key, tx |-> tx] \in ElementOf
            BY <2>1, <3>2, ZenonT(30) DEF Tx, ElementOf
        <3> HIDE DEF element
        <3> QED BY <2>1, <3>1, <3>3, ZenonT(30) DEF RInv, Typed
    <2> QED BY <2>2, <2>3, <1>2 DEF RInv, Typed, iterator
<1> QED BY <1>1, <1>2, <1>3, StillClosed, ClosedRInv

\* Remove leaves what is typed typed.
LEMMA RemovedTyped ==
    ASSUME RInv, NEW tx, Removed(tx)
    PROVE  priorityIndex' \subseteq Key /\ senderIndices' \in [Senders -> SUBSET ElementOf]
BY ZenonT(30) DEF RInv, Typed, Removed

LEMMA RemoveRInv ==
    ASSUME RInv, NEW tx, Remove(tx)
    PROVE  RInv'
<1>1. IInv'
    BY RemovedIInv DEF RInv, Remove
<1>2. at = "closed" /\ UNCHANGED iterator
    BY DEF Remove
<1>3. Typed'
    BY <1>2, RemovedTyped, ZenonT(30) DEF Remove, RInv, Typed, iterator
<1> QED BY <1>1, <1>2, <1>3, StillClosed, ClosedRInv

LEMMA SelectRInv ==
    ASSUME RInv, Select
    PROVE  RInv'
<1>1. IInv'
    BY SelectIInv DEF RInv
<1>2. /\ at = "closed" /\ at' = "priority" /\ priorityIndex # {}
      /\ priorityIndex' = {Reordered(k) : k \in priorityIndex}
      /\ UNCHANGED <<senderIndices, priorityNode, sender, senderCursors, cut>>
    BY ZenonT(30) DEF Select
<1>3. priorityNode = Nil /\ ~cut /\ senderCursors = [s \in Senders |-> Nil]
    BY <1>2 DEF RInv, Placed
<1>4. ASSUME NEW k \in priorityIndex PROVE Reordered(k) \in Key
    BY WeightFound DEF Reordered, RInv, Typed, Key
<1>5. Typed'
    BY <1>2, <1>4 DEF RInv, Typed
<1>6. Placed'
    BY <1>2, ZenonT(30) DEF Placed, AtSender
<1>7. Anchored'
    BY <1>2, <1>3, ZenonT(30) DEF Anchored, AtSender
<1>8. NoneLost'
    <2> SUFFICES ASSUME NEW tx \in (Pool \ Seen)' PROVE Ahead(tx)'
        BY DEF NoneLost
    <2>1. tx \in Pool
        BY <1>2, SamePool
    <2>2. tx.nonce <= tx.nonce
        BY <2>1, PoolElement, MempoolAssumption DEF Value
    <2> QED BY <1>2, <1>3, <2>2 DEF Ahead
<1> QED BY <1>1, <1>5, <1>6, <1>7, <1>8 DEF RInv

\* The iteration ends, or is broken off.
LEMMA EndRInv ==
    ASSUME RInv, Closed, UNCHANGED indexes
    PROVE  RInv'
<1>1. IInv'
    BY UnchangedIInv DEF RInv
<1>2. /\ at' = "closed" /\ priorityNode' = Nil /\ cut' = FALSE
      /\ senderCursors' = [s \in Senders |-> Nil]
    BY DEF Closed
<1>3. Typed'
    BY <1>2, ZenonT(30) DEF RInv, Typed, indexes
<1> QED BY <1>1, <1>2, <1>3, ClosedRInv, ZenonT(30)

LEMMA IteratePriorityRInv ==
    ASSUME RInv, IteratePriority
    PROVE  RInv'
<1>1. /\ at = "priority" /\ at' = "sender" /\ Nodes # Nil
      /\ priorityNode' = Nodes /\ sender' = Nodes.sender
      /\ nextPriority' = IF NextNode(Nodes) = Nil THEN MinValue ELSE NextNode(Nodes).priority
      /\ UNCHANGED <<priorityIndex, senderIndices, scores, senderCursors, cut>>
    BY DEF IteratePriority, indexes
<1>2. IInv'
    BY UnchangedIInv DEF RInv, IteratePriority
<1>3. Nodes \in priorityIndex /\ Nodes \in Key /\ Nodes.sender \in Senders
    BY <1>1, NodesFound, KeySender
<1>4. Typed'
    BY <1>1, <1>3, ZenonT(30) DEF RInv, Typed
<1>5. Placed'
    BY <1>1, <1>3, ZenonT(30) DEF Placed
<1>6. Anchored'
    <2>1. ASSUME NEW k PROVE NextNode(k)' = NextNode(k)
        BY <1>1, ZenonT(30) DEF NextNode, After
    <2> QED BY <1>1, <1>3, <2>1, ZenonT(30) DEF RInv, Anchored
<1>7. NoneLost'
    <2> SUFFICES ASSUME ~cut, Doubtful = {}, NEW tx \in Pool \ Seen, tx.sender # Nodes.sender
                 PROVE  Ahead(tx)'
        BY <1>1, SamePool, SameSeen, ZenonT(30) DEF NoneLost, Ahead, AtSender
    <2>1. Ahead(tx) /\ ~AtSender
        BY <1>1, ZenonT(30) DEF RInv, NoneLost, AtSender
    <2>2. PICK gate \in Pool \ Seen :
             /\ gate.sender = tx.sender /\ gate.nonce <= tx.nonce
             /\ priorityNode = Nil \/ Before(priorityNode, ScoredKey(gate))
        BY <2>1, ZenonT(30) DEF Ahead
    <2>3. ScoredKey(gate) \in priorityIndex /\ ScoredKey(gate) # Nodes
        BY <2>2, PoolElement DEF ScoredKey
    <2>4. Before(Nodes, ScoredKey(gate))
        <3>1. CASE priorityNode = Nil
            <4>1. Nodes = Front(priorityIndex)
                BY <3>1 DEF Nodes
            <4> QED BY <4>1, <2>3, FrontFound, ZenonT(30) DEF RInv, Typed
        <3>2. CASE priorityNode # Nil
            <4>1. Nodes = NextNode(priorityNode) /\ priorityNode \in priorityIndex
                BY <3>2, ZenonT(30) DEF Nodes, RInv, Anchored
            <4>2. ScoredKey(gate) \in After(priorityNode)
                BY <3>2, <2>2, <2>3, ZenonT(30) DEF After
            <4> QED BY <4>1, <4>2, <2>3, <1>1, NextFound, ZenonT(30)
        <3> QED BY <3>1, <3>2, ZenonT(30)
    <2>5. ScoredKey(gate)' = ScoredKey(gate)
        BY <1>1, ZenonT(30) DEF ScoredKey
    <2> QED BY <1>1, <2>2, <2>4, <2>5, SamePool, SameSeen, ZenonT(30) DEF Ahead
<1> QED BY <1>2, <1>4, <1>5, <1>6, <1>7 DEF RInv

-----------------------------------------------------------------------------
(* A sender's transactions.                                                *)

\* What a sender's cursor stands before.
Rest(s) ==
    IF senderCursors[s] = Nil THEN senderIndices[s]
    ELSE IF senderCursors[s] \notin {e.nonce : e \in senderIndices[s]} THEN {}
    ELSE {e \in senderIndices[s] : e.nonce > senderCursors[s]}

LEMMA CursorFound ==
    ASSUME RInv, NEW s \in Senders
    PROVE  /\ Cursor(s) = Nil <=> Rest(s) = {}
           /\ Cursor(s) # Nil => /\ Cursor(s) \in Rest(s)
                                 /\ \A d \in Rest(s) : Cursor(s).nonce <= d.nonce
<1>1. Rest(s) \in SUBSET ElementOf
    BY ZenonT(30) DEF Rest, RInv, Typed
<1>2. Cursor(s) = IF Rest(s) = {} THEN Nil ELSE First(Rest(s))
    BY ZenonT(30) DEF Cursor, Rest
<1>3. ASSUME Rest(s) # {}
      PROVE  /\ First(Rest(s)) \in Rest(s) /\ First(Rest(s)) # Nil
             /\ \A d \in Rest(s) : First(Rest(s)).nonce <= d.nonce
    BY <1>1, <1>3, FirstFound, NilAssumption, ZenonT(30)
<1> QED BY <1>2, <1>3, ZenonT(30)

\* What is seen of a sender's transactions.
LEMMA ElementSeen ==
    ASSUME RInv, NEW s \in Senders, NEW e \in senderIndices[s]
    PROVE  e.tx \in Seen <=> senderCursors[s] # Nil /\ e.nonce <= senderCursors[s]
BY ElementPooled, ZenonT(30) DEF Seen

\* As long as nothing was removed, a cursor stands before all that is not seen.
LEMMA RestUnseen ==
    ASSUME RInv, ~cut, NEW s \in Senders, NEW e \in senderIndices[s]
    PROVE  e \in Rest(s) <=> e.tx \notin Seen
<1>1. senderCursors[s] # Nil =>
          /\ senderCursors[s] \in {d.nonce : d \in senderIndices[s]}
          /\ senderCursors[s] \in Value
    BY ZenonT(30) DEF RInv, Typed, Anchored
<1>2. e.nonce \in Value
    BY ElementPooled
<1> QED BY <1>1, <1>2, ElementSeen, MempoolAssumption DEF Rest, Value

\* A transaction that has to wait comes later in the priority index.
LEMMA WaitsBehind ==
    ASSUME RInv, ~cut, Doubtful = {}, AtSender, Cursor(sender) # Nil, Waits(Cursor(sender))
    PROVE  Before(priorityNode, ScoredKey(Cursor(sender).tx))
<1> DEFINE e == Cursor(sender)
           k == ScoredKey(e.tx)
           n == NextNode(priorityNode)
<1>1. sender \in Senders /\ priorityNode \in priorityIndex /\ priorityNode \in Key
    BY NilAssumption, ZenonT(30) DEF RInv, Placed, Anchored
<1>2. e \in senderIndices[sender]
    BY <1>1, CursorFound, ZenonT(30) DEF Rest
<1>3. /\ e.tx \in Pool /\ e.tx.sender = sender /\ e.tx.nonce = e.nonce
      /\ e.priority \in Value
    BY <1>1, <1>2, ElementPooled, ZenonT(30)
<1>4. e.priority = e.tx.priority
    BY <1>1, <1>2, SMTT(30) DEF Doubtful
<1>5. k \in priorityIndex /\ k.priority = e.priority /\ k.weight = scores[<<sender, e.nonce>>].weight
    <2>1. k \in priorityIndex /\ scores[Id(e.tx)].priority = e.tx.priority
        BY <1>3, PoolElement, ZenonT(30)
    <2>2. Id(e.tx) = <<sender, e.nonce>>
        BY <1>3, ZenonT(30) DEF Id
    <2> QED BY <2>1, <2>2, <1>4, ZenonT(30) DEF ScoredKey
<1>6. nextPriority = IF n = Nil THEN MinValue ELSE n.priority
    BY ZenonT(30) DEF RInv, Anchored
<1>7. \/ e.priority < nextPriority
      \/ e.priority = nextPriority /\ k.weight < n.weight
    BY <1>5, ZenonT(30) DEF Waits
<1>8. n # Nil
    BY <1>3, <1>6, <1>7, MempoolAssumption DEF MinValue, Value
<1>9. n \in priorityIndex /\ Before(priorityNode, n)
    BY <1>1, <1>8, NextFound, ZenonT(30) DEF After
<1>10. /\ k \in Key /\ n \in Key
    BY <1>5, <1>9, ZenonT(30) DEF RInv, Typed
<1>11. /\ priorityNode.priority \in Int /\ n.priority \in Int /\ k.priority \in Int
       /\ priorityNode.weight \in Int /\ n.weight \in Int /\ k.weight \in Int
    BY <1>1, <1>10, MempoolAssumption DEF Key, Value
<1> HIDE DEF e, k, n
<1> QED BY <1>5, <1>6, <1>7, <1>8, <1>9, <1>11 DEF Before, e, k

\* The indexes, and with them what is next in them, stay.
LEMMA SameNext ==
    ASSUME UNCHANGED <<priorityIndex, scores>>, NEW k, NEW tx
    PROVE  NextNode(k)' = NextNode(k) /\ ScoredKey(tx)' = ScoredKey(tx)
BY ZenonT(30) DEF NextNode, After, ScoredKey

LEMMA SenderWaitsRInv ==
    ASSUME RInv, SenderWaits
    PROVE  RInv'
<1>1. /\ at = "sender" /\ at' = "priority" /\ Waits(Cursor(sender))
      /\ UNCHANGED <<priorityIndex, senderIndices, scores, priorityNode, sender,
                     senderCursors, cut>>
    BY DEF SenderWaits, indexes
<1>2. IInv'
    BY UnchangedIInv DEF RInv, SenderWaits
<1>3. sender \in Senders /\ AtSender /\ priorityNode \in Key /\ priorityNode # Nil
    BY <1>1, NilAssumption, ZenonT(30) DEF RInv, Placed, AtSender
<1>4. Typed' /\ Placed'
    BY <1>1, <1>3, ZenonT(30) DEF RInv, Typed, Placed, AtSender
<1>5. Anchored'
    BY <1>1, ZenonT(30) DEF RInv, Anchored, AtSender
<1>6. NoneLost'
    <2> SUFFICES ASSUME ~cut, Doubtful = {}, NEW tx \in Pool \ Seen
                 PROVE  Ahead(tx)'
        BY <1>1, SamePool, SameSeen DEF NoneLost
    <2>1. \E gate \in Pool \ Seen :
             /\ gate.sender = tx.sender /\ gate.nonce <= tx.nonce
             /\ Before(priorityNode, ScoredKey(gate))
        <3>1. CASE tx.sender # sender
            BY <1>1, <1>3, <3>1, ZenonT(30) DEF RInv, NoneLost, Ahead
        <3>2. CASE tx.sender = sender
            <4>1. PICK d \in senderIndices[sender] : d.tx = tx /\ d.nonce = tx.nonce
                BY <3>2, PoolElement, ZenonT(30)
            <4>2. d \in Rest(sender)
                BY <4>1, <1>3, RestUnseen, ZenonT(30)
            <4>3. /\ Cursor(sender) # Nil /\ Cursor(sender) \in Rest(sender)
                  /\ Cursor(sender).nonce <= d.nonce
                BY <4>2, <1>3, CursorFound, ZenonT(30)
            <4>4. Cursor(sender) \in senderIndices[sender]
                BY <4>3, ZenonT(30) DEF Rest
            <4>5. /\ Cursor(sender).tx \in Pool \ Seen
                  /\ Cursor(sender).tx.sender = sender
                  /\ Cursor(sender).tx.nonce = Cursor(sender).nonce
                BY <4>3, <4>4, <1>3, RestUnseen, ElementPooled, ZenonT(30)
            <4>6. Before(priorityNode, ScoredKey(Cursor(sender).tx))
                BY <4>3, <1>1, <1>3, WaitsBehind, ZenonT(30)
            <4> QED BY <3>2, <4>1, <4>3, <4>5, <4>6, ZenonT(30)
        <3> QED BY <3>1, <3>2, ZenonT(30)
    <2> QED BY <2>1, <1>1, SamePool, SameSeen, SameNext, ZenonT(30) DEF Ahead
<1> QED BY <1>2, <1>4, <1>5, <1>6 DEF RInv

\* The sender's next transaction is at the iterator.
LEMMA SenderNextFacts ==
    ASSUME RInv, SenderNext
    PROVE  /\ sender \in Senders /\ Cursor(sender) \in senderIndices[sender]
           /\ Cursor(sender) \in Rest(sender)
           /\ \A d \in Rest(sender) : Cursor(sender).nonce <= d.nonce
           /\ Cursor(sender).nonce \in Value
           /\ senderCursors'[sender] = Cursor(sender).nonce
           /\ \A s \in Senders : s # sender => senderCursors'[s] = senderCursors[s]
<1>1. sender \in Senders
    BY ZenonT(30) DEF SenderNext, RInv, Placed, AtSender
<1>2. Cursor(sender) # Nil
    BY ZenonT(30) DEF SenderNext, Waits
<1>3. /\ Cursor(sender) \in Rest(sender)
      /\ \A d \in Rest(sender) : Cursor(sender).nonce <= d.nonce
    BY <1>1, <1>2, CursorFound, ZenonT(30)
<1>4. Cursor(sender) \in senderIndices[sender]
    BY <1>3, ZenonT(30) DEF Rest
<1>5. Cursor(sender).nonce \in Value
    BY <1>1, <1>4, ElementPooled, ZenonT(30)
<1> QED BY <1>1, <1>3, <1>4, <1>5, ZenonT(30) DEF SenderNext, RInv, Typed

LEMMA SenderNextRInv ==
    ASSUME RInv, SenderNext
    PROVE  RInv'
<1>1. /\ at = "sender" /\ at' = "tx"
      /\ UNCHANGED <<priorityIndex, senderIndices, scores, priorityNode, nextPriority,
                     sender, cut>>
    BY ZenonT(30) DEF SenderNext, indexes
<1>2. IInv'
    BY UnchangedIInv DEF RInv, SenderNext
<1>3. AtSender /\ AtSender'
    BY <1>1 DEF AtSender
<1>4. Typed'
    <2>1. senderCursors' \in [Senders -> Value \cup {Nil}]
        BY SenderNextFacts, ZenonT(30) DEF SenderNext, RInv, Typed
    <2> QED BY <2>1, <1>1, ZenonT(30) DEF RInv, Typed
<1>5. Placed'
    BY <1>1, <1>3, SenderNextFacts, ZenonT(30) DEF RInv, Placed
<1>6. Anchored'
    BY <1>1, <1>3, SenderNextFacts, SameNext DEF RInv, Anchored
<1>7. NoneLost'
    <2> SUFFICES ASSUME ~cut, Doubtful = {}, NEW tx \in Pool, tx \notin Seen', tx.sender # sender
                 PROVE  Ahead(tx)'
        BY <1>1, <1>3, SamePool, ZenonT(30) DEF NoneLost, Ahead
    <2>1. ASSUME NEW t \in Pool, t.sender = tx.sender
          PROVE  t \in Seen <=> t \in Seen'
        BY <2>1, <1>1, SamePool, SenderNextFacts, PoolElement, ZenonT(30) DEF Seen
    <2>2. tx \in Pool \ Seen
        BY <2>1
    <2>3. PICK gate \in Pool \ Seen :
             /\ gate.sender = tx.sender /\ gate.nonce <= tx.nonce
             /\ priorityNode = Nil \/ Before(priorityNode, ScoredKey(gate))
        BY <2>2, <1>1, ZenonT(30) DEF RInv, NoneLost, Ahead
    <2>4. gate \in (Pool \ Seen)'
        BY <2>1, <2>3, <1>1, SamePool, ZenonT(30)
    <2> QED BY <2>3, <2>4, <1>1, SameNext, ZenonT(30) DEF Ahead
<1> QED BY <1>2, <1>4, <1>5, <1>6, <1>7 DEF RInv

LEMMA SelectedRInv ==
    ASSUME RInv, Selected
    PROVE  RInv'
<1>1. /\ at = "tx" /\ at' = "sender"
      /\ UNCHANGED <<priorityIndex, senderIndices, scores, priorityNode, nextPriority,
                     sender, senderCursors, cut>>
    BY DEF Selected, indexes
<1>2. IInv'
    BY UnchangedIInv DEF RInv, Selected
<1>3. AtSender /\ AtSender'
    BY <1>1 DEF AtSender
<1>4. Typed' /\ Placed'
    BY <1>1, <1>3, ZenonT(30) DEF RInv, Typed, Placed
<1>5. Anchored'
    BY <1>1, <1>3, SameNext DEF RInv, Anchored
<1>6. NoneLost'
    <2>1. ASSUME NEW tx PROVE Ahead(tx)' <=> Ahead(tx)
        BY <1>1, <1>3, SamePool, SameSeen, SameNext, ZenonT(30) DEF Ahead
    <2> QED BY <2>1, <1>1, SamePool, SameSeen, SMTT(30) DEF RInv, NoneLost
<1> QED BY <1>2, <1>4, <1>5, <1>6 DEF RInv

LEMMA RefusedRInv ==
    ASSUME RInv, Refused
    PROVE  RInv'
<1>1. /\ at = "tx" /\ at' = "sender" /\ cut' = TRUE /\ Removed(CurrentTx)
      /\ UNCHANGED <<priorityNode, nextPriority, sender, senderCursors>>
    BY DEF Refused
<1>2. IInv'
    BY <1>1, RemovedIInv DEF RInv
<1>3. Typed'
    BY <1>1, RemovedTyped, ZenonT(30) DEF RInv, Typed
<1>4. Placed'
    BY <1>1, ZenonT(30) DEF RInv, Placed, AtSender
<1>5. Anchored' /\ NoneLost'
    BY <1>1, ZenonT(30) DEF Anchored, NoneLost
<1> QED BY <1>2, <1>3, <1>4, <1>5 DEF RInv

LEMMA NextRInv ==
    ASSUME RInv, [Next]_vars
    PROVE  RInv'
<1>1. ASSUME NEW tx \in Txs, Insert(tx) PROVE RInv'
    BY <1>1, InsertRInv
<1>2. ASSUME NEW tx \in Txs, Remove(tx) PROVE RInv'
    BY <1>2, RemoveRInv
<1>3. CASE Select
    BY <1>3, SelectRInv
<1>4. CASE PriorityEnds \/ Break
    BY <1>4, EndRInv, SMTT(30) DEF PriorityEnds, Break
<1>5. CASE IteratePriority
    BY <1>5, IteratePriorityRInv
<1>6. CASE SenderWaits
    BY <1>6, SenderWaitsRInv
<1>7. CASE SenderNext
    BY <1>7, SenderNextRInv
<1>8. CASE Selected
    BY <1>8, SelectedRInv
<1>9. CASE Refused
    BY <1>9, RefusedRInv
<1>10. CASE UNCHANGED vars
    <2>1. UNCHANGED <<indexes, priorityIndex, senderIndices, scores, iterator, at,
                      priorityNode, nextPriority, sender, senderCursors, cut>>
        BY <1>10, ZenonT(30) DEF vars, indexes, iterator
    <2>2. IInv'
        BY <2>1, UnchangedIInv DEF RInv
    <2>3. Typed' /\ Placed'
        BY <2>1, ZenonT(30) DEF RInv, Typed, Placed, AtSender
    <2>4. Anchored'
        BY <2>1, SameNext, SMTT(30) DEF RInv, Anchored, AtSender
    <2>5. ASSUME NEW tx PROVE Ahead(tx)' <=> Ahead(tx)
        BY <2>1, SamePool, SameSeen, SameNext, ZenonT(30) DEF Ahead, AtSender
    <2>6. NoneLost'
        BY <2>1, <2>5, SamePool, SameSeen, ZenonT(30) DEF RInv, NoneLost
    <2> QED BY <2>2, <2>3, <2>4, <2>6 DEF RInv
<1> QED
    BY <1>1, <1>2, <1>3, <1>4, <1>5, <1>6, <1>7, <1>8, <1>9, <1>10, SMTT(30) DEF Next, Iterate

-----------------------------------------------------------------------------
(* Every step is one of TxPool, or none.                                   *)

\* The pool after Remove.
LEMMA RemovedPool ==
    ASSUME RInv, NEW tx, Removed(tx)
    PROVE  /\ Pool' = P!Without(Pool, tx)
           /\ Doubtful' = P!Without(Doubtful, tx)
<1>1. tx.sender \in Senders
    <2>1. Id(tx) \in DOMAIN scores
        BY DEF Removed
    <2>2. PICK s \in Senders : \E e \in senderIndices[s] : Id(e.tx) = Id(tx)
        BY <2>1, ZenonT(30) DEF RInv, IInv, ScoresFound
    <2>3. PICK e \in senderIndices[s] : Id(e.tx) = Id(tx)
        BY <2>2
    <2>4. e.tx.sender = s
        BY ZenonT(30) DEF RInv, IInv, ElementsScored
    <2> QED BY <2>3, <2>4, IdEqual, ZenonT(30)
<1>2. /\ senderIndices'[tx.sender] = {e \in senderIndices[tx.sender] : e.nonce # tx.nonce}
      /\ \A s \in Senders : s # tx.sender => senderIndices'[s] = senderIndices[s]
    BY <1>1, ZenonT(30) DEF RInv, Typed, Removed
<1>3. ASSUME NEW s \in Senders, NEW e
      PROVE  e \in senderIndices'[s] <=> e \in senderIndices[s] /\ ~P!SameKey(e.tx, tx)
    BY <1>2, ElementPooled DEF P!SameKey
<1>4. ASSUME NEW t PROVE t \in Pool' <=> t \in P!Without(Pool, tx)
    BY <1>3 DEF Pool, P!Without
<1>5. ASSUME NEW t PROVE t \in Doubtful' <=> t \in P!Without(Doubtful, tx)
    BY <1>3 DEF Doubtful, P!Without
<1> QED BY <1>4, <1>5

\* A closed iterator has seen nothing.
LEMMA ClosedSeen ==
    ASSUME senderCursors = [s \in Senders |-> Nil], RInv
    PROVE  Seen = {}
BY PoolElement, ZenonT(30) DEF Seen

LEMMA InsertStep ==
    ASSUME RInv, NEW tx \in Txs, Insert(tx), RInv'
    PROVE  P!Insert(tx)
<1> DEFINE element == {e \in senderIndices[tx.sender] : e.nonce = tx.nonce}
<1>1. tx.sender \in Senders
    BY SMTT(30) DEF Senders
<1>2. at = "closed" /\ at' = "closed" /\ cut' = cut
    BY ZenonT(30) DEF Insert, iterator
<1>3. Seen = {} /\ Seen' = {}
    <2>1. senderCursors = [s \in Senders |-> Nil] /\ senderCursors' = senderCursors
        BY <1>2, ZenonT(30) DEF RInv, Placed, Insert, iterator
    <2>2. Seen = {}
        BY <2>1, ClosedSeen, SMTT(30)
    <2>3. ASSUME NEW t \in Pool' PROVE t.sender \in Senders
        BY <2>3, SMTT(30) DEF RInv, IInv, ElementsScored, Pool
    <2> QED BY <2>1, <2>2, <2>3, ZenonT(30) DEF Seen
<1>4. PICK key \in {tx.priority} \cup {e.priority : e \in element} :
         senderIndices' = [senderIndices EXCEPT ![tx.sender] =
             (@ \ element) \cup {[nonce |-> tx.nonce, priority |-> key, tx |-> tx]}]
    BY ZenonT(30) DEF Insert
<1> DEFINE new == [nonce |-> tx.nonce, priority |-> key, tx |-> tx]
<1>5. ASSUME NEW s \in Senders, NEW e
      PROVE  e \in senderIndices'[s] <=>
                 \/ e \in senderIndices[s] /\ ~P!SameKey(e.tx, tx)
                 \/ s = tx.sender /\ e = new
    <2>1. senderIndices'[s] = IF s = tx.sender THEN (senderIndices[s] \ element) \cup {new}
                              ELSE senderIndices[s]
        BY <1>1, <1>4, ZenonT(30) DEF RInv, Typed
    <2> QED BY <2>1, ElementPooled DEF P!SameKey
<1>6. new.tx = tx /\ new.priority = key
    BY ZenonT(30)
<1> HIDE DEF new
<1>7. ASSUME NEW t PROVE t \in Pool' <=> t \in P!Without(Pool, tx) \cup {tx}
    BY <1>1, <1>5, <1>6, SMTT(30) DEF Pool, P!Without
<1>8. ASSUME NEW t
      PROVE  t \in Doubtful' <=> t \in P!Without(Doubtful, tx) \/ (t = tx /\ key # tx.priority)
    BY <1>1, <1>5, <1>6, SMTT(30) DEF Doubtful, P!Without
<1>9. CASE key = tx.priority
    <2>1. Doubtful' = P!Without(Doubtful, tx)
        BY <1>8, <1>9, ZenonT(30)
    <2> QED BY <1>2, <1>3, <1>7, <2>1, ZenonT(30) DEF P!Insert, P!iteration
<1>10. CASE key # tx.priority
    <2>1. PICK e \in senderIndices[tx.sender] : e.nonce = tx.nonce
        BY <1>4, <1>10, ZenonT(30)
    <2>2. e.tx \in Pool /\ P!SameKey(e.tx, tx)
        BY <1>1, <2>1, ElementPooled, ZenonT(30) DEF P!SameKey
    <2>3. P!Without(Pool, tx) # Pool
        BY <2>2, ZenonT(30) DEF P!Without
    <2>4. Doubtful' = P!Without(Doubtful, tx) \cup {t \in {tx} : P!Without(Pool, tx) # Pool}
        BY <1>8, <1>10, <2>3, ZenonT(30)
    <2> QED BY <1>2, <1>3, <1>7, <2>4, ZenonT(30) DEF P!Insert, P!iteration
<1> QED BY <1>9, <1>10, ZenonT(30)

LEMMA RemoveStep ==
    ASSUME RInv, NEW tx \in Txs, Remove(tx)
    PROVE  P!Remove(tx)
<1>1. at = "closed" /\ at' = "closed" /\ cut' = cut /\ Removed(tx)
    BY DEF Remove, iterator
<1>2. senderCursors = [s \in Senders |-> Nil] /\ senderCursors' = senderCursors
    BY <1>1, ZenonT(30) DEF RInv, Placed, Remove, iterator
<1>3. Seen = {}
    BY <1>2, ClosedSeen
<1>4. Pool' \subseteq Pool
    BY <1>1, RemovedPool, SMTT(30) DEF P!Without
<1>5. Seen' = {}
    BY <1>2, <1>4, PoolElement, ZenonT(30) DEF Seen
<1> QED BY <1>1, <1>3, <1>5, RemovedPool, ZenonT(30) DEF P!Remove, P!iteration

\* CurrentTx is what the sender's cursor is at.
LEMMA CurrentFound ==
    ASSUME RInv, at = "tx"
    PROVE  /\ sender \in Senders /\ CurrentTx \in Seen
           /\ CurrentTx.sender = sender /\ CurrentTx.nonce = senderCursors[sender]
<1> DEFINE e == Element(sender, senderCursors[sender])
<1>1. sender \in Senders
    BY ZenonT(30) DEF RInv, Placed, AtSender
<1>2. e \in senderIndices[sender] /\ e.nonce = senderCursors[sender]
    BY ZenonT(30) DEF RInv, Placed, Element
<1>3. e.tx \in Pool /\ e.tx.sender = sender /\ e.tx.nonce = e.nonce /\ e.nonce \in Value
    BY <1>1, <1>2, ElementPooled, ZenonT(30)
<1>4. e.tx \in Seen
    BY <1>1, <1>2, <1>3, ElementSeen, NilAssumption, MempoolAssumption DEF Value
<1> QED BY <1>1, <1>2, <1>3, <1>4, ZenonT(30) DEF CurrentTx

LEMMA SelectStep ==
    ASSUME RInv, Select
    PROVE  P!Select
<1>1. /\ at = "closed" /\ at' = "priority"
      /\ UNCHANGED <<senderIndices, senderCursors, cut>>
    BY ZenonT(30) DEF Select
<1>2. ~cut /\ Seen = {}
    BY <1>1, ClosedSeen, ZenonT(30) DEF RInv, Placed
<1>3. cut' = FALSE
    BY <1>1, <1>2, ZenonT(30) DEF RInv, Typed
<1> QED BY <1>1, <1>2, <1>3, SamePool, SameSeen, SMTT(30) DEF P!Select, P!poolVars

LEMMA YieldStep ==
    ASSUME RInv, RInv', SenderNext
    PROVE  \E tx \in Txs : P!Yield(tx)
<1> DEFINE e == Cursor(sender)
           tx == e.tx
<1>1. /\ at = "sender" /\ at' = "tx" /\ UNCHANGED <<senderIndices, sender, cut>>
    BY ZenonT(30) DEF SenderNext, indexes
<1>2. /\ sender \in Senders /\ e \in senderIndices[sender] /\ e \in Rest(sender)
      /\ \A d \in Rest(sender) : e.nonce <= d.nonce
      /\ e.nonce \in Value
      /\ senderCursors'[sender] = e.nonce
      /\ \A s \in Senders : s # sender => senderCursors'[s] = senderCursors[s]
    BY SenderNextFacts, ZenonT(30)
<1>3. tx \in Pool /\ tx.sender = sender /\ tx.nonce = e.nonce
    BY <1>2, ElementPooled, ZenonT(30)
<1>4. ASSUME NEW d \in senderIndices[sender]
      PROVE  d.tx \in Seen <=> d.nonce < e.nonce
    <2>1. d.nonce \in Value
        BY <1>2, ElementPooled, ZenonT(30)
    <2>2. d.tx \in Seen <=> senderCursors[sender] # Nil /\ d.nonce <= senderCursors[sender]
        BY <1>2, ElementSeen, ZenonT(30)
    <2>3. CASE senderCursors[sender] = Nil
        <3>1. d \in Rest(sender)
            BY <2>3, ZenonT(30) DEF Rest
        <3> QED BY <3>1, <2>1, <2>2, <2>3, <1>2, MempoolAssumption, SMTT(30) DEF Value
    <2>4. CASE senderCursors[sender] # Nil
        <3>1. senderCursors[sender] \in Value /\ e.nonce > senderCursors[sender]
            BY <2>4, <1>2, ZenonT(30) DEF Rest, RInv, Typed
        <3>2. d \in Rest(sender) <=> d.nonce > senderCursors[sender]
            BY <2>4, <1>2, ZenonT(30) DEF Rest
        <3> QED BY <3>1, <3>2, <2>1, <2>2, <2>4, <1>2, MempoolAssumption, SMTT(30) DEF Value
    <2> QED BY <2>3, <2>4, ZenonT(30)
<1>5. tx \notin Seen
    BY <1>2, <1>4, MempoolAssumption, SMTT(30) DEF Value
<1>6. ASSUME NEW t \in Pool, t.sender = tx.sender, t.nonce < tx.nonce
      PROVE  t \in Seen
    BY <1>3, <1>4, <1>6, PoolElement, ZenonT(30)
<1>7. ASSUME NEW t PROVE t \in Seen' <=> t \in Seen \cup {tx}
    <2>1. Pool' = Pool
        BY <1>1, SamePool, SMTT(30)
    <2>2. CASE t \notin Pool
        BY <2>1, <2>2, <1>3, ZenonT(30) DEF Seen
    <2>3. CASE t \in Pool /\ t.sender # sender
        BY <2>1, <2>3, <1>2, <1>3, PoolElement, ZenonT(30) DEF Seen
    <2>4. CASE t \in Pool /\ t.sender = sender
        <3>1. PICK d \in senderIndices[sender] : d.tx = t /\ d.nonce = t.nonce
            BY <2>4, PoolElement, ZenonT(30)
        <3>2. t \in Seen' <=> d.nonce <= e.nonce
            BY <2>1, <2>4, <3>1, <1>2, NilAssumption, ZenonT(30) DEF Seen
        <3>3. t \in Seen <=> d.nonce < e.nonce
            BY <3>1, <1>4, ZenonT(30)
        <3>4. d.nonce = e.nonce <=> t = tx
            BY <3>1, <1>2, <1>3, ZenonT(30) DEF RInv, IInv, ElementsScored
        <3>5. d.nonce \in Value
            BY <1>2, ElementPooled
        <3> QED BY <3>2, <3>3, <3>4, <3>5, <1>2, MempoolAssumption, SMTT(30) DEF Value
    <2> QED BY <2>2, <2>3, <2>4, ZenonT(30)
<1>8. CurrentTx' = tx
    <2> DEFINE d == CHOOSE c \in senderIndices[sender] : c.nonce = e.nonce
    <2>1. CurrentTx' = d.tx
        BY <1>1, <1>2, ZenonT(30) DEF CurrentTx, Element
    <2>2. d \in senderIndices[sender] /\ d.nonce = e.nonce
        BY <1>2, ZenonT(30)
    <2>3. d = e
        BY <2>2, <1>2, ZenonT(30) DEF RInv, IInv, ElementsScored
    <2> QED BY <2>1, <2>3, ZenonT(30)
<1>9. tx \in Txs
    BY <1>3, PoolElement, ZenonT(30)
<1> HIDE DEF tx, e
<1>10. P!Yield(tx)
    BY <1>1, <1>3, <1>5, <1>6, <1>7, <1>8, SamePool, ZenonT(30) DEF P!Yield, P!poolVars
<1> QED BY <1>9, <1>10

\* An iteration that is neither cut nor misled ends when all is seen.
LEMMA EndStep ==
    ASSUME RInv, RInv', PriorityEnds
    PROVE  P!End
<1>1. /\ at = "priority" /\ at' = "closed" /\ Nodes = Nil /\ cut' = FALSE
      /\ senderCursors' = [s \in Senders |-> Nil] /\ UNCHANGED senderIndices
    BY SMTT(30) DEF PriorityEnds, Closed, indexes
<1>2. Seen' = {}
    BY <1>1, ClosedSeen, SamePool, PoolElement, ZenonT(30) DEF Seen
<1>3. ASSUME ~cut, Doubtful = {}, NEW tx \in Pool, tx \notin Seen
      PROVE  FALSE
    <2> DEFINE k == ScoredKey(tx)
    <2>1. k \in priorityIndex /\ k # Nil
        BY PoolElement, KeySender, ZenonT(30)
    <2>2. CASE priorityNode = Nil
        <3>1. Front(priorityIndex) \in priorityIndex
            BY <2>1, FrontFound, ZenonT(30) DEF RInv, Typed
        <3> QED BY <2>2, <3>1, <1>1, KeySender, SMTT(30) DEF Nodes
    <2>3. CASE priorityNode # Nil
        <3>1. priorityNode \in priorityIndex
            BY <1>3, <2>3, ZenonT(30) DEF RInv, Anchored
        <3>2. Ahead(tx) /\ ~AtSender
            BY <1>1, <1>3, ZenonT(30) DEF RInv, NoneLost, AtSender
        <3>3. PICK gate \in Pool : Before(priorityNode, ScoredKey(gate))
            BY <2>3, <3>2, SMTT(30) DEF Ahead
        <3>4. ScoredKey(gate) \in After(priorityNode)
            BY <3>3, PoolElement, ZenonT(30) DEF After
        <3> QED BY <2>3, <3>1, <3>4, <1>1, NextFound, ZenonT(30) DEF Nodes
    <2> QED BY <2>2, <2>3
<1>4. Seen = Pool \/ cut \/ Doubtful # {}
    BY <1>3, ZenonT(30) DEF Seen, RInv, Typed
<1> QED BY <1>1, <1>2, <1>4, SamePool, ZenonT(30) DEF P!End, P!Closed, P!poolVars

\* The handler removes what the iterator is at, and it was seen.
LEMMA DropStep ==
    ASSUME RInv, RInv', Refused
    PROVE  \E tx \in Txs : P!Drop(tx)
<1>1. /\ at = "tx" /\ at' = "sender" /\ cut' = TRUE /\ Removed(CurrentTx)
      /\ UNCHANGED <<sender, senderCursors>>
    BY SMTT(30) DEF Refused
<1>2. CurrentTx \in Txs
    BY <1>1, CurrentFound, PoolElement, ZenonT(30) DEF Seen
<1>3. Pool' = P!Without(Pool, CurrentTx) /\ Doubtful' = P!Without(Doubtful, CurrentTx)
    BY <1>1, RemovedPool
<1>4. Seen' = P!Without(Seen, CurrentTx)
    BY <1>1, <1>3, ZenonT(30) DEF Seen, P!Without
<1>5. P!Drop(CurrentTx)
    BY <1>1, <1>3, <1>4, ZenonT(30) DEF P!Drop
<1> QED BY <1>2, <1>5

LEMMA StopStep ==
    ASSUME RInv, Break
    PROVE  P!Stop
<1>1. /\ at = "tx" /\ at' = "closed" /\ cut' = FALSE
      /\ senderCursors' = [s \in Senders |-> Nil] /\ UNCHANGED senderIndices
    BY DEF Break, Closed, indexes
<1>2. Seen' = {}
    BY <1>1, SamePool, PoolElement, ZenonT(30) DEF Seen
<1> QED BY <1>1, <1>2, SamePool, ZenonT(30) DEF P!Stop, P!Closed, P!poolVars

LEMMA TakeStep ==
    ASSUME RInv, Selected
    PROVE  P!Take
<1>1. at = "tx" /\ at' = "sender" /\ UNCHANGED <<senderIndices, senderCursors, cut>>
    BY DEF Selected, indexes
<1> QED BY <1>1, SamePool, SameSeen DEF P!Take, P!poolVars

\* On the way from a transaction to the next one nothing happens to the pool.
LEMMA SilentStep ==
    ASSUME IteratePriority \/ SenderWaits
    PROVE  UNCHANGED P!vars
<1>1. /\ at \in {"priority", "sender"} /\ at' \in {"priority", "sender"}
      /\ UNCHANGED <<senderIndices, senderCursors, cut>>
    BY ZenonT(30) DEF IteratePriority, SenderWaits, indexes
<1> QED BY <1>1, SamePool, SameSeen, ZenonT(30) DEF P!vars, P!poolVars, P!iteration

LEMMA StepRefines ==
    ASSUME RInv, RInv', [Next]_vars
    PROVE  [P!Next]_(P!vars)
<1>1. ASSUME NEW tx \in Txs, Insert(tx) PROVE P!Next
    BY <1>1, InsertStep DEF P!Next
<1>2. ASSUME NEW tx \in Txs, Remove(tx) PROVE P!Next
    BY <1>2, RemoveStep DEF P!Next
<1>3. CASE Select
    BY <1>3, SelectStep DEF P!Next
<1>4. CASE PriorityEnds
    BY <1>4, EndStep DEF P!Next
<1>5. CASE IteratePriority \/ SenderWaits
    BY <1>5, SilentStep
<1>6. CASE SenderNext
    BY <1>6, YieldStep, ZenonT(30) DEF P!Next
<1>7. CASE Selected
    BY <1>7, TakeStep DEF P!Next
<1>8. CASE Refused
    BY <1>8, DropStep DEF P!Next
<1>9. CASE Break
    BY <1>9, StopStep DEF P!Next
<1>10. CASE UNCHANGED vars
    <2>1. UNCHANGED <<senderIndices, senderCursors, at, sender, cut>>
        BY <1>10 DEF vars, indexes, iterator
    <2>2. CurrentTx' = CurrentTx
        BY <2>1, ZenonT(30) DEF CurrentTx, Element
    <2> QED BY <2>1, <2>2, SamePool, SameSeen, ZenonT(30) DEF P!vars, P!poolVars, P!iteration
<1> QED BY <1>1, <1>2, <1>3, <1>4, <1>5, <1>6, <1>7, <1>8, <1>9, <1>10, SMTT(30) DEF Next, Iterate

(***************************************************************************)
(* The priority mempool with its iterator implements TxPool, for every set *)
(* of transactions, every capacity and every replacement rule: Next of the *)
(* iterator yields every transaction once, a sender's in the order of      *)
(* their nonces, and does not end before all were yielded unless the       *)
(* handler stopped or removed one, or a replaced key misleads it.          *)
(***************************************************************************)
THEOREM Refinement == Spec => RefinesPool
<1>1. Init => P!Init
    <2> SUFFICES ASSUME Init PROVE P!Init
        OBVIOUS
    <2>1. Pool = {} /\ Doubtful = {}
        BY ZenonT(30) DEF Init, Pool, Doubtful
    <2>2. Seen = {}
        BY <2>1 DEF Seen
    <2> QED BY <2>1, <2>2 DEF Init, P!Init
<1>2. Init => RInv
    BY InitRInv
<1>3. RInv /\ [Next]_vars => RInv'
    BY NextRInv
<1>4. RInv /\ RInv' /\ [Next]_vars => [P!Next]_(P!vars)
    BY StepRefines
<1> QED BY <1>1, <1>2, <1>3, <1>4, PTL DEF Spec, RefinesPool, P!Spec

-----------------------------------------------------------------------------
(***************************************************************************)
(* Rule 2.                                                                 *)
(***************************************************************************)

\* What the iterator has yielded is not below the next node's priority.
Yielded ==
    at = "tx" /\ ~cut =>
        \E e \in senderIndices[sender] :
            e.nonce = senderCursors[sender] /\ e.priority >= nextPriority

LEMMA NextYielded ==
    ASSUME RInv, Yielded, [Next]_vars
    PROVE  Yielded'
<1>1. CASE SenderNext
    <2> DEFINE e == Cursor(sender)
    <2>1. /\ UNCHANGED <<senderIndices, sender, nextPriority, cut>>
          /\ at = "sender" /\ ~Waits(e)
        BY <1>1, ZenonT(30) DEF SenderNext, indexes
    <2>2. sender \in Senders /\ e \in senderIndices[sender] /\ senderCursors'[sender] = e.nonce
        BY <1>1, SenderNextFacts, ZenonT(30)
    <2>3. ASSUME ~cut PROVE e.priority >= nextPriority
        <3>1. e.priority \in Value
            BY <2>2, SMTT(30) DEF RInv, Typed, ElementOf
        <3>2. priorityNode \in priorityIndex
            BY <2>1, <2>3, NilAssumption, ZenonT(30) DEF RInv, Placed, Anchored, AtSender
        <3>3. NextNode(priorityNode) # Nil => NextNode(priorityNode) \in Key
            BY <3>2, NextFound, ZenonT(30) DEF After, RInv, Typed
        <3>4. nextPriority \in Int
            BY <2>1, <2>3, <3>3, MempoolAssumption, SMTT(30)
               DEF RInv, Anchored, AtSender, Key, Value, MinValue
        <3>5. ~(e.priority < nextPriority)
            BY <2>1, <2>2, NilAssumption, ZenonT(30) DEF Waits
        <3> HIDE DEF e
        <3> QED BY <3>1, <3>4, <3>5, MempoolAssumption DEF Value
    <2> HIDE DEF e
    <2> QED BY <2>1, <2>2, <2>3, ZenonT(30) DEF Yielded
<1>2. CASE \/ (\E tx \in Txs : Insert(tx) \/ Remove(tx)) \/ Select
           \/ PriorityEnds \/ IteratePriority \/ SenderWaits \/ Selected \/ Refused \/ Break
    <2>1. at' # "tx"
        BY <1>2, ZenonT(30) DEF Insert, Remove, iterator, Select, PriorityEnds, IteratePriority,
                    SenderWaits, Selected, Refused, Break, Closed
    <2> QED BY <2>1, ZenonT(30) DEF Yielded
<1>3. CASE UNCHANGED vars
    BY <1>3, ZenonT(30) DEF vars, indexes, iterator, Yielded
<1> QED BY <1>1, <1>2, <1>3 DEF Next, Iterate

\* A key behind the iterator's node is not above the next node's priority.
LEMMA BehindNode ==
    ASSUME RInv, ~cut, AtSender, NEW j \in priorityIndex, Before(priorityNode, j)
    PROVE  j.priority <= nextPriority /\ nextPriority \in Value
<1>1. priorityNode \in priorityIndex /\ j \in After(priorityNode)
    BY NilAssumption, ZenonT(30) DEF RInv, Placed, Anchored, After
<1> DEFINE n == NextNode(priorityNode)
<1>2. n # Nil /\ n \in After(priorityNode)
    BY <1>1, NextFound, ZenonT(30)
<1>3. nextPriority = n.priority
    BY <1>2, ZenonT(30) DEF RInv, Anchored
<1>4. j = n \/ Before(n, j)
    BY <1>1, <1>2, NextFound, ZenonT(30)
<1>5. j \in Key /\ n \in Key
    BY <1>2, ZenonT(30) DEF After, RInv, Typed
<1> HIDE DEF n
<1> QED BY <1>3, <1>4, <1>5, MempoolAssumption, SMTT(30) DEF Before, Key, Value

(***************************************************************************)
(* Rule 2 of the mempool, for any transactions, capacity and replacement   *)
(* rule: when the iterator yields a transaction, one of a higher priority  *)
(* waits only behind one of its own sender whose priority is not higher    *)
(* (Next of the iterator, reorderPriorityTies).                            *)
(***************************************************************************)
THEOREM AlwaysRespected == Spec => []PriorityRespected
<1>1. Init => RInv /\ Yielded
    BY InitRInv, ZenonT(30) DEF Init, Yielded
<1>2. RInv /\ Yielded /\ [Next]_vars => RInv' /\ Yielded'
    BY NextRInv, NextYielded, SMTT(30)
<1>3. RInv /\ Yielded => PriorityRespected
    <2> SUFFICES ASSUME RInv, Yielded, at = "tx", ~cut, Doubtful = {},
                        NEW tx \in Pool \ Seen, tx.sender # sender,
                        tx.priority > CurrentTx.priority
                 PROVE  \E gate \in Pool \ Seen :
                            /\ gate.sender = tx.sender /\ gate.nonce < tx.nonce
                            /\ gate.priority <= CurrentTx.priority
        BY ZenonT(30) DEF PriorityRespected
    <2>1. sender \in Senders /\ AtSender /\ priorityNode # Nil
        BY NilAssumption, ZenonT(30) DEF RInv, Placed, AtSender
    <2>2. PICK e \in senderIndices[sender] :
              e.nonce = senderCursors[sender] /\ e.priority >= nextPriority
        BY ZenonT(30) DEF Yielded
    <2>3. CurrentTx = e.tx
        BY <2>1, <2>2 DEF CurrentTx, Element, RInv, IInv, ElementsScored
    <2>4. e.tx.priority = e.priority
        BY <2>1, <2>2, SMTT(30) DEF Doubtful
    <2>5. PICK gate \in Pool \ Seen :
              /\ gate.sender = tx.sender /\ gate.nonce <= tx.nonce
              /\ Before(priorityNode, ScoredKey(gate))
        BY <2>1, ZenonT(30) DEF RInv, NoneLost, Ahead
    <2>6. ScoredKey(gate) \in priorityIndex /\ ScoredKey(gate).priority = gate.priority
        BY PoolElement, ZenonT(30) DEF ScoredKey
    <2>7. gate.priority <= nextPriority /\ nextPriority \in Value
        BY <2>1, <2>5, <2>6, BehindNode, ZenonT(30)
    <2>8. /\ e.priority \in Value /\ gate.priority \in Value /\ tx.priority \in Value
          /\ gate.nonce \in Value /\ tx.nonce \in Value
        BY <2>1, PoolElement, ElementPooled, ZenonT(30)
    <2>9. gate.priority <= CurrentTx.priority
        BY <2>2, <2>3, <2>4, <2>7, <2>8, MempoolAssumption, SMTT(30) DEF Value
    <2>10. gate.nonce # tx.nonce
        <3> SUFFICES ASSUME gate.nonce = tx.nonce PROVE FALSE
            BY ZenonT(30)
        <3>1. gate.priority = tx.priority
            BY <2>5, PoolElement, ZenonT(30) DEF Id
        <3> QED BY <3>1, <2>3, <2>4, <2>8, <2>9, MempoolAssumption, SMTT(30) DEF Value
    <2> QED BY <2>5, <2>8, <2>9, <2>10, MempoolAssumption DEF Value
<1> QED BY <1>1, <1>2, <1>3, PTL DEF Spec
=============================================================================
