------------------------------ MODULE TxModel ------------------------------
(***************************************************************************)
(* The application BaseApp runs: accounts with a sequence number, an ante  *)
(* handler that checks and advances the sequence of the signer (x/auth's   *)
(* SetUpContext, SigVerification and IncrementSequence decorators), and    *)
(* messages that each credit one account.                                  *)
(***************************************************************************)
EXTENDS Integers

CONSTANTS
    Accounts,
    NoAccount,    \* what is stored for an account that does not exist
    Txs,          \* the transactions there are
    AnteGas,      \* the gas the ante handler consumes
    CtxGas,       \* the gas a block's own context has consumed when a transaction starts
    MaxGas        \* the block's gas limit; 0: none (GetMaximumBlockGas)

Tx == [from : Accounts, seq : Nat,
       decodes : BOOLEAN,         \* txDecoder takes its bytes
       wellFormed : BOOLEAN,      \* and ValidateBasic its messages
       msgs : SUBSET Accounts,    \* whom its messages credit
       fails : BOOLEAN,           \* some message's handler returns an error
       need : Nat,                \* the gas its messages consume
       limit : Nat]               \* the gas limit it declares

ASSUME TxAssumption ==
    /\ Txs \subseteq Tx /\ \A tx \in Txs : tx.wellFormed => tx.decodes
    /\ AnteGas \in Nat /\ CtxGas \in Nat /\ MaxGas \in Nat
    /\ NoAccount \notin [seq : Nat, recv : Nat]

Account == [seq : Nat, recv : Nat]
Store == [Accounts -> Account \cup {NoAccount}]

Genesis == [a \in Accounts |-> [seq |-> 0, recv |-> 0]]

AnteAccepts(s, tx) ==
    /\ AnteGas <= tx.limit
    /\ s[tx.from] # NoAccount
    /\ s[tx.from].seq = tx.seq

Ante(s, tx) == [s EXCEPT ![tx.from].seq = @ + 1]

\* The store after every message has run.
Credit(s, tx) ==
    [a \in Accounts |->
        IF s[a] = NoAccount THEN NoAccount
        ELSE [s[a] EXCEPT !.recv = IF a \in tx.msgs THEN @ + 1 ELSE @]]

MsgsSucceed(tx) == ~tx.fails /\ AnteGas + tx.need <= tx.limit

\* GasConsumedToLimit of the transaction's meter: when the ante handler
\* refused it, and when its messages were run.
ToLimit(gas, tx) == IF gas > tx.limit THEN tx.limit ELSE gas
AnteUsed(tx) == ToLimit(AnteGas, tx)
Used(tx) == ToLimit(AnteGas + tx.need, tx)

\* The block's meter: nothing is left, or more was consumed than there was.
IsOutOfGas(gas) == MaxGas > 0 /\ gas >= MaxGas
IsPastLimit(gas) == MaxGas > 0 /\ gas > MaxGas
=============================================================================
