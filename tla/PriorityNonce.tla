---------------------------- MODULE PriorityNonce ----------------------------
(***************************************************************************)
(* types/mempool/priority_nonce.go: a mempool ordered by priority that     *)
(* keeps the nonce order of each sender, its iterator, and the loop of     *)
(* PrepareProposalHandler, which removes transactions while it iterates.   *)
(*                                                                         *)
(* A skip list is the set of its elements in the order of its comparator.  *)
(* An element that is removed from a list has no successor any more.  Set  *)
(* on a key that compares equal to one of the list overwrites the value;   *)
(* whether it also overwrites the key, as Insert says, is left open.       *)
(*                                                                         *)
(* The calls come one at a time (CometBFT's client takes one lock), so an  *)
(* iteration is not disturbed but by the handler's own removals; it is     *)
(* taken one step at a time.                                               *)
(***************************************************************************)
EXTENDS MempoolTx, FiniteSets

CONSTANTS
    Replacements,    \* TxReplacement: the old and new priorities it allows
    Nil

MinValue == -1      \* TxPriority.MinValue, below every priority

Key == [sender : Value, nonce : Value, priority : Value, weight : Value]
ElementOf == [nonce : Value, priority : Value, tx : Txs]

\* Nil is told apart from what it stands for the lack of.
ASSUME NilAssumption == Nil \notin Value \cup Key \cup ElementOf

VARIABLES
    priorityIndex,   \* its keys: sender, nonce, priority and weight
    priorityCounts,
    senderIndices,   \* for each sender its elements: a key's nonce and priority,
                     \* and the transaction
    scores,          \* sender and nonce to priority and weight
    at,              \* where the iterator is: "closed", "priority", "sender" or "tx"
    priorityNode, nextPriority, sender,
    senderCursors,   \* the nonce of the element each sender has got to, or Nil
    cut              \* the handler has removed a transaction of this iteration

indexes == <<priorityIndex, priorityCounts, senderIndices, scores>>
iterator == <<at, priorityNode, nextPriority, sender, senderCursors, cut>>
vars == <<indexes, iterator>>

Senders == {tx.sender : tx \in Txs}
Priorities == {tx.priority : tx \in Txs}
Id(k) == <<k.sender, k.nonce>>

-----------------------------------------------------------------------------
(* The order of the priority index: the highest first.                     *)

Before(a, b) ==
    \/ a.priority > b.priority
    \/ a.priority = b.priority
       /\ \/ a.weight > b.weight
          \/ a.weight = b.weight
             /\ \/ a.sender > b.sender
                \/ a.sender = b.sender /\ a.nonce > b.nonce

Front(S) == CHOOSE k \in S : \A j \in S \ {k} : Before(k, j)
After(k) == {j \in priorityIndex : Before(k, j)}
NextNode(k) ==
    IF k \notin priorityIndex \/ After(k) = {} THEN Nil ELSE Front(After(k))

\* Mutant: the highest nonce first.
FirstHighest(S) == CHOOSE e \in S : \A d \in S : e.nonce >= d.nonce

\* A sender's index: the lowest nonce first.
First(S) == CHOOSE e \in S : \A d \in S : e.nonce <= d.nonce

\* The element after the sender's cursor.
Cursor(s) ==
    LET nonces == {e.nonce : e \in senderIndices[s]}
        rest == IF senderCursors[s] = Nil THEN senderIndices[s]
                ELSE IF senderCursors[s] \notin nonces THEN {}
                ELSE {e \in senderIndices[s] : e.nonce > senderCursors[s]}
    IN  IF rest = {} THEN Nil ELSE First(rest)

Element(s, n) == CHOOSE e \in senderIndices[s] : e.nonce = n

-----------------------------------------------------------------------------
Closed ==
    /\ at' = "closed" /\ priorityNode' = Nil /\ nextPriority' = MinValue /\ sender' = Nil
    /\ senderCursors' = [s \in Senders |-> Nil] /\ cut' = FALSE

Init ==
    /\ priorityIndex = {} /\ priorityCounts = [p \in Priorities |-> 0]
    /\ senderIndices = [s \in Senders |-> {}] /\ scores = <<>>
    /\ at = "closed" /\ priorityNode = Nil /\ nextPriority = MinValue /\ sender = Nil
    /\ senderCursors = [s \in Senders |-> Nil] /\ cut = FALSE

Full == MaxTx > 0 /\ Cardinality(priorityIndex) >= MaxTx

\* The key under which the priority index has what scores has of tx.
ScoredKey(tx) ==
    [sender |-> tx.sender, nonce |-> tx.nonce,
     priority |-> scores[Id(tx)].priority, weight |-> scores[Id(tx)].weight]

\* Weight is 0 until Select sets it.
Insert(tx) ==
    LET exists == Id(tx) \in DOMAIN scores
        old == scores[Id(tx)].priority
        removed == IF exists THEN {ScoredKey(tx)} ELSE {}
        element == {e \in senderIndices[tx.sender] : e.nonce = tx.nonce}
    IN  /\ at = "closed" /\ MaxTx >= 0 /\ ~Full
        /\ exists => <<old, tx.priority>> \in Replacements
        /\ priorityIndex' = (priorityIndex \ removed)
               \cup {[sender |-> tx.sender, nonce |-> tx.nonce,
                      priority |-> tx.priority, weight |-> 0]}
        /\ priorityCounts' =
               [p \in Priorities |-> priorityCounts[p] + (IF p = tx.priority THEN 1 ELSE 0)
                                        - (IF exists /\ p = old THEN 1 ELSE 0)]
        /\ \E key \in {tx.priority} \cup {e.priority : e \in element} :
              senderIndices' = [senderIndices EXCEPT ![tx.sender] =
                  (@ \ element) \cup {[nonce |-> tx.nonce, priority |-> key, tx |-> tx]}]
        /\ scores' = [id \in DOMAIN scores \cup {Id(tx)} |->
                         IF id = Id(tx) THEN [priority |-> tx.priority, weight |-> 0]
                         ELSE scores[id]]
        /\ UNCHANGED iterator

\* Mutant: the weight is not a part of the key.
RemovedUnweighted(tx) ==
    /\ Id(tx) \in DOMAIN scores
    /\ priorityIndex' = priorityIndex \ {[ScoredKey(tx) EXCEPT !.weight = 0]}
    /\ senderIndices' = [senderIndices EXCEPT ![tx.sender] = {e \in @ : e.nonce # tx.nonce}]
    /\ scores' = [id \in DOMAIN scores \ {Id(tx)} |-> scores[id]]
    /\ priorityCounts' = [priorityCounts EXCEPT ![scores[Id(tx)].priority] = @ - 1]

\* Mutant: the transaction stays in the count of its priority.
RemovedCounted(tx) ==
    /\ Id(tx) \in DOMAIN scores
    /\ priorityIndex' = priorityIndex \ {ScoredKey(tx)}
    /\ senderIndices' = [senderIndices EXCEPT ![tx.sender] = {e \in @ : e.nonce # tx.nonce}]
    /\ scores' = [id \in DOMAIN scores \ {Id(tx)} |-> scores[id]]
    /\ UNCHANGED priorityCounts

\* Remove, of a transaction that is found.
Removed(tx) ==
    /\ Id(tx) \in DOMAIN scores
    /\ priorityIndex' = priorityIndex \ {ScoredKey(tx)}
    /\ senderIndices' = [senderIndices EXCEPT ![tx.sender] = {e \in @ : e.nonce # tx.nonce}]
    /\ scores' = [id \in DOMAIN scores \ {Id(tx)} |-> scores[id]]
    /\ priorityCounts' = [priorityCounts EXCEPT ![scores[Id(tx)].priority] = @ - 1]

\* FinalizeBlock executes tx.
Remove(tx) == at = "closed" /\ Removed(tx) /\ UNCHANGED iterator

-----------------------------------------------------------------------------
(* The iterator.                                                           *)

\* The loop of senderWeight ends with the priority of the sender's last one.
SenderWeight(k) ==
    LET rest == {e \in senderIndices[k.sender] : e.nonce >= k.nonce}
    IN  (CHOOSE e \in rest : \A d \in rest : d.nonce <= e.nonce).priority

Reordered(k) ==
    IF priorityCounts[k.priority] > 1 THEN [k EXCEPT !.weight = SenderWeight(k)] ELSE k

\* Select: reorderPriorityTies, and a new iterator.
Select ==
    /\ at = "closed" /\ priorityIndex # {}
    /\ priorityIndex' = {Reordered(k) : k \in priorityIndex}
    /\ scores' = [id \in DOMAIN scores |->
                     LET ks == {k \in priorityIndex : Id(k) = id /\ priorityCounts[k.priority] > 1}
                     IN  IF ks = {} THEN scores[id]
                         ELSE LET k == CHOOSE k \in ks : TRUE
                              IN  [priority |-> k.priority, weight |-> SenderWeight(k)]]
    /\ at' = "priority"
    /\ UNCHANGED <<priorityCounts, senderIndices, priorityNode, nextPriority, sender,
                   senderCursors, cut>>

Nodes == IF priorityNode = Nil THEN Front(priorityIndex) ELSE NextNode(priorityNode)

\* iteratePriority comes to the end.
PriorityEnds ==
    /\ at = "priority" /\ Nodes = Nil
    /\ Closed /\ UNCHANGED indexes

IteratePriority ==
    /\ at = "priority" /\ Nodes # Nil
    /\ at' = "sender" /\ priorityNode' = Nodes /\ sender' = Nodes.sender
    /\ nextPriority' = IF NextNode(Nodes) = Nil THEN MinValue ELSE NextNode(Nodes).priority
    /\ UNCHANGED <<indexes, senderCursors, cut>>

\* Mutant: the sender goes on to its end.
WaitsAtEnd(e) == e = Nil

\* The sender's next transaction has to wait for other senders'.
Waits(e) ==
    \/ e = Nil
    \/ e # Nil /\ e.priority < nextPriority
    \/ e # Nil /\ e.priority = nextPriority
       /\ scores[<<sender, e.nonce>>].weight < NextNode(priorityNode).weight

\* Next.
SenderWaits ==
    /\ at = "sender" /\ Waits(Cursor(sender))
    /\ at' = "priority"
    /\ UNCHANGED <<indexes, priorityNode, nextPriority, sender, senderCursors, cut>>

SenderNext ==
    /\ at = "sender" /\ ~Waits(Cursor(sender))
    /\ at' = "tx" /\ senderCursors' = [senderCursors EXCEPT ![sender] = Cursor(sender).nonce]
    /\ UNCHANGED <<indexes, priorityNode, nextPriority, sender, cut>>

-----------------------------------------------------------------------------
(* PrepareProposalHandler with the transaction at the iterator.            *)

CurrentTx == Element(sender, senderCursors[sender]).tx

Selected ==
    /\ at = "tx" /\ at' = "sender"
    /\ UNCHANGED <<indexes, priorityNode, nextPriority, sender, senderCursors, cut>>

\* It does not verify, and is removed.
Refused ==
    /\ at = "tx" /\ at' = "sender" /\ cut' = TRUE
    /\ Removed(CurrentTx)
    /\ UNCHANGED <<priorityNode, nextPriority, sender, senderCursors>>

\* It does not fit into the block.
Break == at = "tx" /\ Closed /\ UNCHANGED indexes

Iterate ==
    \/ PriorityEnds \/ IteratePriority \/ SenderWaits \/ SenderNext
    \/ Selected \/ Refused \/ Break

Next ==
    \/ \E tx \in Txs : Insert(tx) \/ Remove(tx)
    \/ Select
    \/ Iterate

Spec == Init /\ [][Next]_vars

-----------------------------------------------------------------------------
Pool == UNION {{e.tx : e \in senderIndices[s]} : s \in Senders}
Seen == {tx \in Pool : senderCursors[tx.sender] # Nil /\ tx.nonce <= senderCursors[tx.sender]}

\* Transactions under a key that was not overwritten.
Doubtful ==
    UNION {{e.tx : e \in {d \in senderIndices[s] : d.priority # d.tx.priority}} : s \in Senders}

(***************************************************************************)
(* The three indexes of the mempool hold the same transactions, under the  *)
(* same priorities and weights, whatever sequence of Insert, of            *)
(* replacements, of Select's reordering and of Remove there was, Remove    *)
(* during an iteration included.                                           *)
(***************************************************************************)
IndexesAgree ==
    /\ {Id(k) : k \in priorityIndex} = DOMAIN scores
    /\ {Id(tx) : tx \in Pool} = DOMAIN scores
    /\ \A k \in priorityIndex : scores[Id(k)] = [priority |-> k.priority, weight |-> k.weight]
    /\ \A s \in Senders : \A e \in senderIndices[s] :
          /\ e.tx.sender = s /\ e.tx.nonce = e.nonce
          /\ scores[Id(e.tx)].priority = e.tx.priority
          /\ \A d \in senderIndices[s] : d.nonce = e.nonce => d = e

(***************************************************************************)
(* priorityCounts, by which Select decides what to reorder, counts the     *)
(* keys of each priority, and the mempool holds no more than MaxTx.        *)
(***************************************************************************)
CountsExact ==
    /\ \A p \in Priorities :
          priorityCounts[p] = Cardinality({k \in priorityIndex : k.priority = p})
    /\ MaxTx > 0 => Cardinality(priorityIndex) <= MaxTx

(***************************************************************************)
(* Rule 2 of the mempool: when the iterator yields a transaction, another  *)
(* sender's transaction of a higher priority is still waiting only behind  *)
(* one of its own sender of a lower nonce whose priority is not higher.    *)
(* It is promised for an iteration in which nothing was removed yet.       *)
(***************************************************************************)
PriorityRespected ==
    at = "tx" /\ ~cut /\ Doubtful = {} =>
        \A tx \in Pool \ Seen :
            tx.sender # sender /\ tx.priority > CurrentTx.priority =>
                \E gate \in Pool \ Seen :
                    /\ gate.sender = tx.sender /\ gate.nonce < tx.nonce
                    /\ gate.priority <= CurrentTx.priority

P == INSTANCE TxPool WITH
        pool <- Pool, doubtful <- Doubtful, open <- at # "closed", seen <- Seen,
        current <- IF at = "tx" THEN {CurrentTx} ELSE {}

(***************************************************************************)
(* The mempool with its iterator and the loop of PrepareProposalHandler    *)
(* implements TxPool: every transaction is yielded once, a sender's in the *)
(* order of their nonces, and, if none was removed, none is left out.      *)
(***************************************************************************)
RefinesPool == P!Spec
=============================================================================
