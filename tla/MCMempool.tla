----------------------------- MODULE MCMempool -----------------------------
(***************************************************************************)
(* The two mempools, one in a behaviour: two senders, one with three       *)
(* nonces and one with two, and two priorities, in a mempool of four.      *)
(***************************************************************************)
EXTENDS PriorityNonce

VARIABLES kind, senders, existingTx, snAt, snLeft, snCursors, snCurrent

snVars == <<senders, existingTx, snAt, snLeft, snCursors, snCurrent>>

SN == INSTANCE SenderNonce WITH
        at <- snAt, left <- snLeft, senderCursors <- snCursors, currentTx <- snCurrent

MCInit == Init /\ SN!Init /\ kind \in {"priority", "sender"}

MCNext ==
    \/ kind = "priority" /\ Next /\ UNCHANGED <<kind, snVars>>
    \/ kind = "sender" /\ SN!Next /\ UNCHANGED <<kind, vars>>

MCSpec == MCInit /\ [][MCNext]_<<kind, vars, snVars>>

\* sender_nonce.go implements TxPool.
SenderRefinesPool == SN!RefinesPool

MCTxs ==
    {t \in [sender : 1 .. 2, nonce : 0 .. 2, priority : 1 .. 2] : t.sender = 1 \/ t.nonce < 2}

\* A TxReplacement that refuses lower priorities.
MCReplacements == {r \in Priorities \X Priorities : r[2] >= r[1]}
=============================================================================
