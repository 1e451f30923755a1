------------------------------- MODULE TxPool -------------------------------
(***************************************************************************)
(* What a mempool promises to the handlers of baseapp: it holds at most    *)
(* one transaction of a sender and a nonce, the last one it took, and an   *)
(* iteration yields a sender's transactions in the order of their nonces,  *)
(* each one once, and does not end before it has yielded all, unless the   *)
(* caller stops it or has removed something in the meantime.               *)
(***************************************************************************)
EXTENDS MempoolTx

VARIABLES
    pool,
    doubtful,    \* transactions of the pool that came in place of another one
    open,        \* an iteration is open
    seen,        \* what it has yielded and the pool still holds
    current,     \* what it has just yielded, {} when it is on its way
    cut          \* something was removed since it was opened

poolVars == <<pool, doubtful>>
iteration == <<open, seen, current, cut>>
vars == <<poolVars, iteration>>

Without(S, tx) == {t \in S : ~SameKey(t, tx)}

Init ==
    /\ pool = {} /\ doubtful = {}
    /\ open = FALSE /\ seen = {} /\ current = {} /\ cut = FALSE

\* A transaction that comes in place of another one may be taken for that one
\* in the order of an iteration.
Insert(tx) ==
    /\ ~open
    /\ pool' = Without(pool, tx) \cup {tx}
    /\ doubtful' \in {Without(doubtful, tx),
                      Without(doubtful, tx) \cup {t \in {tx} : Without(pool, tx) # pool}}
    /\ UNCHANGED iteration

Remove(tx) ==
    /\ ~open
    /\ pool' = Without(pool, tx) /\ doubtful' = Without(doubtful, tx)
    /\ UNCHANGED iteration

Select ==
    /\ ~open
    /\ open' = TRUE /\ seen' = {} /\ current' = {} /\ cut' = FALSE
    /\ UNCHANGED poolVars

\* The next transaction is the first of its sender that was not yielded.
Yield(tx) ==
    /\ open /\ current = {}
    /\ tx \in pool \ seen
    /\ \A t \in pool : t.sender = tx.sender /\ t.nonce < tx.nonce => t \in seen
    /\ current' = {tx} /\ seen' = seen \cup {tx}
    /\ UNCHANGED <<poolVars, open, cut>>

\* The handler takes what was yielded, or removes it from the pool.
Take ==
    /\ current # {}
    /\ current' = {}
    /\ UNCHANGED <<poolVars, open, seen, cut>>

Drop(tx) ==
    /\ current = {tx}
    /\ pool' = Without(pool, tx) /\ doubtful' = Without(doubtful, tx)
    /\ seen' = Without(seen, tx)
    /\ current' = {} /\ cut' \in {cut, TRUE}
    /\ UNCHANGED open

Closed == open' = FALSE /\ seen' = {} /\ current' = {} /\ cut' = FALSE

Stop == current # {} /\ Closed /\ UNCHANGED poolVars

End ==
    /\ open /\ current = {}
    /\ seen = pool \/ cut \/ doubtful # {}
    /\ Closed /\ UNCHANGED poolVars

Next ==
    \/ \E tx \in Txs : Insert(tx) \/ Remove(tx) \/ Yield(tx) \/ Drop(tx)
    \/ Select \/ Take \/ Stop \/ End

Spec == Init /\ [][Next]_vars
=============================================================================
