----------------------------- MODULE SenderNonce -----------------------------
(***************************************************************************)
(* types/mempool/sender_nonce.go: a mempool that yields, of a sender it    *)
(* chooses at random, the transaction with the next nonce; with its        *)
(* iterator and the loop of PrepareProposalHandler.                        *)
(***************************************************************************)
EXTENDS MempoolTx, FiniteSets

CONSTANT Nil

VARIABLES
    senders,         \* for each sender the transactions of its list; none: no list
    existingTx,      \* the senders and nonces there are
    at,              \* where the iterator is: "closed", "next" or "tx"
    left,            \* iterator.senders
    senderCursors,   \* what each of them yields next
    currentTx

iterator == <<at, left, senderCursors, currentTx>>
vars == <<senders, existingTx, iterator>>

Senders == {tx.sender : tx \in Txs}
Id(tx) == <<tx.sender, tx.nonce>>
First(S) == CHOOSE tx \in S : \A t \in S : tx.nonce <= t.nonce
NextTx(tx) == {t \in senders[tx.sender] : t.nonce > tx.nonce}

Init ==
    /\ senders = [s \in Senders |-> {}] /\ existingTx = {}
    /\ at = "closed" /\ left = {} /\ senderCursors = <<>> /\ currentTx = Nil

Insert(tx) ==
    /\ at = "closed" /\ MaxTx >= 0 /\ ~(MaxTx > 0 /\ Cardinality(existingTx) >= MaxTx)
    /\ senders' = [senders EXCEPT ![tx.sender] = {t \in @ : t.nonce # tx.nonce} \cup {tx}]
    /\ existingTx' = existingTx \cup {Id(tx)}
    /\ UNCHANGED iterator

\* Remove, of a transaction that is found.
Removed(tx) ==
    /\ \E t \in senders[tx.sender] : t.nonce = tx.nonce
    /\ senders' = [senders EXCEPT ![tx.sender] = {t \in @ : t.nonce # tx.nonce}]
    /\ existingTx' = existingTx \ {Id(tx)}

Remove(tx) == at = "closed" /\ Removed(tx) /\ UNCHANGED iterator

Select ==
    /\ at = "closed" /\ at' = "next"
    /\ left' = {s \in Senders : senders[s] # {}}
    /\ senderCursors' = [s \in left' |-> First(senders[s])]
    /\ UNCHANGED <<senders, existingTx, currentTx>>

\* Mutant: a sender that has one transaction left is done.
IteratorNextShort(s) ==
    LET tx == senderCursors[s]
    IN  /\ at = "next" /\ s \in left
        /\ at' = "tx" /\ currentTx' = tx
        /\ IF Cardinality(NextTx(tx)) <= 1
           THEN left' = left \ {s} /\ UNCHANGED senderCursors
           ELSE /\ senderCursors' = [senderCursors EXCEPT ![s] = First(NextTx(tx))]
                /\ UNCHANGED left
        /\ UNCHANGED <<senders, existingTx>>

\* Next: the sender's cursor goes on before its transaction is used.
IteratorNext(s) ==
    LET tx == senderCursors[s]
    IN  /\ at = "next" /\ s \in left
        /\ at' = "tx" /\ currentTx' = tx
        /\ IF NextTx(tx) = {}
           THEN left' = left \ {s} /\ UNCHANGED senderCursors
           ELSE /\ senderCursors' = [senderCursors EXCEPT ![s] = First(NextTx(tx))]
                /\ UNCHANGED left
        /\ UNCHANGED <<senders, existingTx>>

Closed == at' = "closed" /\ left' = {} /\ senderCursors' = <<>> /\ currentTx' = Nil

IteratorEnds ==
    /\ at = "next" /\ left = {}
    /\ Closed /\ UNCHANGED <<senders, existingTx>>

\* PrepareProposalHandler with the transaction at the iterator: it selects it,
\* removes it because it does not verify, or stops because it does not fit.
Selected ==
    /\ at = "tx" /\ at' = "next" /\ currentTx' = Nil
    /\ UNCHANGED <<senders, existingTx, left, senderCursors>>

Refused ==
    /\ at = "tx" /\ at' = "next" /\ currentTx' = Nil
    /\ Removed(currentTx)
    /\ UNCHANGED <<left, senderCursors>>

Break == at = "tx" /\ Closed /\ UNCHANGED <<senders, existingTx>>

Next ==
    \/ \E tx \in Txs : Insert(tx) \/ Remove(tx)
    \/ Select \/ IteratorEnds \/ Selected \/ Refused \/ Break
    \/ \E s \in Senders : IteratorNext(s)

-----------------------------------------------------------------------------
Pool == UNION {senders[s] : s \in Senders}

\* What is left to yield: of each sender that is left, from its cursor on.
Unseen ==
    {tx \in Pool : tx.sender \in left /\ tx.nonce >= senderCursors[tx.sender].nonce}

P == INSTANCE TxPool WITH
        pool <- Pool, doubtful <- {}, cut <- FALSE, open <- at # "closed",
        seen <- IF at = "closed" THEN {} ELSE Pool \ Unseen,
        current <- IF at = "tx" THEN {currentTx} ELSE {}

(***************************************************************************)
(* This mempool implements TxPool too, without its exceptions: the         *)
(* handler's removals do not cut an iteration short, as the cursor goes on *)
(* before the handler gets the transaction.  CountTx, with which Insert    *)
(* bounds the mempool, counts what it holds.                               *)
(***************************************************************************)
RefinesPool ==
    /\ P!Init /\ [][P!Next]_(P!vars)
    /\ [](existingTx = {Id(tx) : tx \in Pool} /\ Cardinality(existingTx) = Cardinality(Pool))
=============================================================================
