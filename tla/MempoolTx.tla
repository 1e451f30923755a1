------------------------------ MODULE MempoolTx ------------------------------
(***************************************************************************)
(* What the application-side mempools (types/mempool) see of a             *)
(* transaction: its first signer, that signer's sequence number, and the   *)
(* priority that the ante handler gave it.  Two transactions of a sender   *)
(* with the same nonce are told apart by their priorities.                 *)
(***************************************************************************)
EXTENDS Integers

CONSTANTS
    Txs,         \* the transactions there are
    MaxValue,    \* addresses, nonces and priorities are of a bounded width
    MaxTx        \* capacity; 0: none, negative: nothing is inserted

Value == 0 .. MaxValue
Tx == [sender : Value, nonce : Value, priority : Value]

ASSUME MempoolAssumption == Txs \subseteq Tx /\ MaxValue \in Nat /\ MaxTx \in Int

SameKey(t, u) == t.sender = u.sender /\ t.nonce = u.nonce
=============================================================================
