------------------------------- MODULE Ledger -------------------------------
(***************************************************************************)
(* What BaseApp promises of the blocks it is given: every block starts     *)
(* from the state the block before it left, each of its transactions has   *)
(* no effect, its ante effect, or its whole effect, and a block is         *)
(* committed whole or not at all.                                          *)
(***************************************************************************)
EXTENDS TxModel

CONSTANT Idle

VARIABLES
    height,    \* of the last block that was committed
    state,     \* what it left
    work,      \* the state of the block being executed, or Idle
    gas        \* the gas that block has consumed

vars == <<height, state, work, gas>>

Init == height = 0 /\ state = Genesis /\ work = Idle /\ gas = 0

Begin == work = Idle /\ work' = state /\ gas' = 0 /\ UNCHANGED <<height, state>>

\* The ante handler took the transaction, and it had its whole effect.
Charged(tx) == tx.wellFormed /\ ~IsOutOfGas(gas) /\ AnteAccepts(work, tx)
Done(tx) == Charged(tx) /\ MsgsSucceed(tx) /\ ~IsPastLimit(gas + Used(tx))

Deliver(tx) ==
    /\ work # Idle
    /\ work' = IF Done(tx) THEN Credit(Ante(work, tx), tx)
               ELSE IF Charged(tx) THEN Ante(work, tx) ELSE work
    /\ gas' = gas + IF ~tx.decodes \/ IsOutOfGas(gas) THEN 0
                    ELSE IF ~tx.wellFormed THEN CtxGas
                    ELSE IF Charged(tx) THEN Used(tx) ELSE AnteUsed(tx)
    /\ UNCHANGED <<height, state>>

Commit ==
    /\ work # Idle
    /\ height' > height /\ state' = work
    /\ work' = Idle /\ gas' = 0

Abandon == work # Idle /\ work' = Idle /\ gas' = 0 /\ UNCHANGED <<height, state>>

Next == Begin \/ (\E tx \in Txs : Deliver(tx)) \/ Commit \/ Abandon

Spec == Init /\ [][Next]_vars
=============================================================================
