--------------------------- MODULE BaseAppProofs ---------------------------
(***************************************************************************)
(* BaseApp implements Ledger, checkState follows what is committed and a   *)
(* block that is executed again is answered in the same way, for any       *)
(* accounts, transactions, gas limits and heights, as long as the          *)
(* ProcessProposal handler does not write to finalizeBlockState; a node    *)
(* accepts its own proposals, whatever the handler writes.                 *)
(***************************************************************************)
EXTENDS BaseApp, WellFoundedInduction, FiniteSetTheorems, TLAPS

\* What a branch has only read is what cms holds.
Clean(br) ==
    \A a \in Accounts : IF a \in br.dirty THEN br.cache[a] # Uncached
                         ELSE br.cache[a] \in {Uncached, cms[a]}

\* CheckTx only advances the sequence of an account.
Ahead(br) ==
    \A a \in br.dirty :
        /\ br.cache[a] \in Account /\ cms[a] \in Account
        /\ br.cache[a].seq > cms[a].seq /\ br.cache[a].recv = cms[a].recv

Types ==
    /\ version \in Nat /\ disk \in Store /\ cms \in Store
    /\ phase \in {"init", "ready", "executing", "finalized"}
    /\ check \in Branch /\ finalize \in Branch \cup {Nil}
    /\ initialHeight \in Nat /\ gas \in Nat

\* Where a block starts from: genesis, which only finalizeBlockState holds, or
\* what was committed.
Base ==
    /\ phase = "init" => version = 0 /\ gas = 0
    /\ phase = "ready" => gas = 0
    /\ phase = "ready" /\ version = 0 =>
          /\ finalize # Nil /\ View(finalize) = Genesis
          /\ Height <= initialHeight
    /\ phase = "ready" /\ version # 0 /\ finalize # Nil => View(finalize) = cms
    /\ phase = "executing" => finalize # Nil
    /\ phase # "finalized" => cms = disk

IInv ==
    /\ Types
    /\ Base
    /\ finalize # Nil => Clean(finalize)
    /\ phase # "finalized" => Clean(check) /\ Ahead(check)

-----------------------------------------------------------------------------
(* The application's steps on stores.                                      *)

\* The genesis state is a store.
LEMMA GenesisStore == Genesis \in Store
BY DEF Genesis, Store, Account

\* Advancing the signer's sequence gives a store and touches nothing else.
LEMMA AnteStore ==
    ASSUME NEW s \in Store, NEW tx \in Txs, AnteAccepts(s, tx)
    PROVE  /\ Ante(s, tx) \in Store
           /\ tx.from \in Accounts /\ s[tx.from] \in Account
           /\ Ante(s, tx)[tx.from] = [s[tx.from] EXCEPT !.seq = @ + 1]
           /\ \A a \in Accounts \ {tx.from} : Ante(s, tx)[a] = s[a]
<1>1. tx.from \in Accounts
    BY TxAssumption DEF Tx
<1>2. s[tx.from] \in Account
    BY <1>1 DEF AnteAccepts, Store
<1>3. [s[tx.from] EXCEPT !.seq = @ + 1] \in Account
    BY <1>2 DEF Account
<1> QED
    BY <1>1, <1>2, <1>3 DEF Ante, Store

\* Crediting the recipients gives a store.
LEMMA CreditStore ==
    ASSUME NEW s \in Store, NEW tx \in Txs
    PROVE  Credit(s, tx) \in Store
<1>1. ASSUME NEW a \in Accounts, s[a] # NoAccount
      PROVE  [s[a] EXCEPT !.recv = IF a \in tx.msgs THEN @ + 1 ELSE @] \in Account
    <2>1. s[a] \in Account
        BY <1>1 DEF Store
    <2> QED BY <2>1 DEF Account
<1> QED
    BY <1>1 DEF Credit, Store

-----------------------------------------------------------------------------
(* Branches.                                                               *)

\* The view of a branch is a store.
LEMMA ViewStore ==
    ASSUME cms \in Store, NEW br \in Branch
    PROVE  View(br) \in Store
BY DEF View, Branch, Store, Entry

\* A branch that has written s shows s, and what it only read it still did.
LEMMA PutView ==
    ASSUME cms \in Store, NEW br \in Branch, NEW s \in Store
    PROVE  /\ Put(br, s) \in Branch
           /\ View(Put(br, s)) = s
           /\ Clean(br) => Clean(Put(br, s))
<1>1. Put(br, s) \in Branch
    BY DEF Put, Branch, Store, Entry, Changed
<1>2. \A a \in Accounts : View(Put(br, s))[a] = s[a]
    <2> TAKE a \in Accounts
    <2>1. s[a] # Uncached
        BY BaseAppAssumption DEF Store
    <2>2. CASE a \in Changed(br, s)
        BY <2>1, <2>2 DEF View, Put
    <2>3. CASE a \notin Changed(br, s)
        BY <2>3 DEF View, Put, Changed
    <2> QED BY <2>2, <2>3
<1>3. View(Put(br, s)) = s
    BY <1>2 DEF View, Store
<1>4. Clean(br) => Clean(Put(br, s))
    <2>1. \A a \in Accounts : s[a] # Uncached
        BY BaseAppAssumption DEF Store
    <2> QED BY <2>1 DEF Clean, Put, Branch
<1> QED BY <1>1, <1>3, <1>4

\* Reading through a branch changes nothing it shows.
LEMMA ReadView ==
    ASSUME cms \in Store, NEW br \in Branch, NEW S
    PROVE  /\ Read(br, S) \in Branch
           /\ View(Read(br, S)) = View(br)
           /\ Read(br, S).dirty = br.dirty
           /\ Clean(br) => Clean(Read(br, S))
           /\ \A a \in Accounts : br.cache[a] # Uncached => Read(br, S).cache[a] = br.cache[a]
<1> DEFINE c == [a \in Accounts |-> IF a \in S THEN View(br)[a] ELSE br.cache[a]]
<1>1. c \in [Accounts -> Entry]
    BY ViewStore DEF Branch, Store, Entry
<1>2. Read(br, S) = [cache |-> c, dirty |-> br.dirty]
    BY DEF Read, Branch
<1>3. Read(br, S) \in Branch
    BY <1>1, <1>2 DEF Branch
<1>4. \A a \in Accounts : br.cache[a] # Uncached => c[a] = br.cache[a]
    BY DEF View
<1>5. \A a \in Accounts : c[a] \in {br.cache[a], View(br)[a]}
    OBVIOUS
<1>6. \A a \in Accounts : View(Read(br, S))[a] = View(br)[a]
    <2> TAKE a \in Accounts
    <2>1. View(Read(br, S))[a] = IF c[a] = Uncached THEN cms[a] ELSE c[a]
        BY <1>2 DEF View
    <2>2. View(br)[a] = IF br.cache[a] = Uncached THEN cms[a] ELSE br.cache[a]
        BY DEF View
    <2> HIDE DEF c
    <2> QED BY <2>1, <2>2, <1>5
<1>7. View(Read(br, S)) = View(br)
    BY <1>6 DEF View
<1>8. Clean(br) => Clean(Read(br, S))
    <2>1. ASSUME Clean(br), NEW a \in Accounts
          PROVE  IF a \in br.dirty THEN c[a] # Uncached ELSE c[a] \in {Uncached, cms[a]}
        BY <2>1, <1>4 DEF Clean, View
    <2> HIDE DEF c
    <2>2. Read(br, S).cache = c /\ Read(br, S).dirty = br.dirty
        BY <1>2
    <2> QED BY <2>1, <2>2, Zenon DEF Clean
<1> HIDE DEF c
<1> QED BY <1>2, <1>3, <1>4, <1>7, <1>8

\* Writing a branch whose reads are current gives what it shows.
LEMMA WrittenView ==
    ASSUME cms \in Store, NEW br \in Branch, Clean(br)
    PROVE  Written(br) = View(br)
BY DEF Written, View, Clean, Branch

\* A new branch shows what it was branched from.
LEMMA FreshView ==
    ASSUME cms \in Store
    PROVE  Fresh \in Branch /\ View(Fresh) = cms /\ Clean(Fresh) /\ Ahead(Fresh)
<1>1. Fresh \in Branch
    BY DEF Fresh, Branch, Entry
<1>2. View(Fresh) = cms
    BY DEF Fresh, View, Store
<1> QED BY <1>1, <1>2 DEF Fresh, Clean, Ahead

-----------------------------------------------------------------------------
(* The invariant.                                                          *)

\* The state a node starts in.
LEMMA InitInv == Init => IInv
<1> SUFFICES ASSUME Init PROVE IInv
    OBVIOUS
<1>1. cms \in Store
    BY DEF Init, Store
<1>2. Types
    BY <1>1, FreshView DEF Init, Types, Store
<1>3. Base
    BY DEF Init, Base
<1>4. Clean(check) /\ Ahead(check) /\ finalize = Nil
    BY <1>1, FreshView DEF Init
<1> QED BY <1>2, <1>3, <1>4 DEF IInv

\* A step that only changes checkState.
LEMMA CheckInv ==
    ASSUME IInv, UNCHANGED <<version, disk, phase, cms, finalize, initialHeight, gas>>,
           check' \in Branch,
           phase # "finalized" => Clean(check') /\ Ahead(check')
    PROVE  IInv'
<1>1. Types'
    BY DEF IInv, Types
<1>2. Base'
    BY DEF IInv, Base, View, Height
<1>3. (finalize # Nil => Clean(finalize))'
    BY DEF IInv, Clean
<1>4. (phase # "finalized" => Clean(check) /\ Ahead(check))'
    BY DEF Clean, Ahead
<1> QED BY <1>1, <1>2, <1>3, <1>4 DEF IInv

\* A step that only changes finalizeBlockState and the block's gas while a block
\* is executed.
LEMMA ExecuteInv ==
    ASSUME IInv, phase = "executing",
           UNCHANGED <<version, disk, phase, cms, check, initialHeight>>,
           gas' \in Nat, finalize' \in Branch, Clean(finalize')
    PROVE  IInv'
<1>1. Types'
    BY ZenonT(30) DEF IInv, Types
<1>2. Base'
    BY NilAssumption DEF IInv, Base
<1>3. (finalize # Nil => Clean(finalize))'
    BY DEF Clean
<1>4. (phase # "finalized" => Clean(check) /\ Ahead(check))'
    BY DEF IInv, Clean, Ahead
<1> QED BY <1>1, <1>2, <1>3, <1>4 DEF IInv

\* The ante handler's write keeps checkState ahead of what is committed.
LEMMA AnteAhead ==
    ASSUME cms \in Store, NEW br \in Branch, NEW tx \in Txs,
           AnteAccepts(View(br), tx), Clean(br), Ahead(br)
    PROVE  Ahead(Put(br, Ante(View(br), tx)))
<1> DEFINE s == View(br)
           t == Ante(s, tx)
           p == Put(br, t)
<1>1. s \in Store
    BY ViewStore
<1>2. /\ t \in Store /\ tx.from \in Accounts /\ s[tx.from] \in Account
      /\ t[tx.from] = [s[tx.from] EXCEPT !.seq = @ + 1]
      /\ \A a \in Accounts \ {tx.from} : t[a] = s[a]
    BY <1>1, AnteStore
<1>3. p.dirty \subseteq br.dirty \cup {tx.from}
    BY <1>2 DEF Put, Changed
<1>4. \A a \in Accounts : p.cache[a] = IF a \in Changed(br, t) THEN t[a] ELSE br.cache[a]
    BY DEF Put
<1>5. tx.from \in Changed(br, t)
    BY <1>2 DEF Changed, Account
<1>6. /\ cms[tx.from] \in Account
      /\ s[tx.from].seq >= cms[tx.from].seq /\ s[tx.from].recv = cms[tx.from].recv
    <2>1. CASE tx.from \in br.dirty
        <3>1. s[tx.from] = br.cache[tx.from]
            BY <2>1, <1>2 DEF Clean, View
        <3> QED BY <2>1, <3>1 DEF Ahead, Account
    <2>2. CASE tx.from \notin br.dirty
        <3>1. s[tx.from] = cms[tx.from]
            BY <2>2, <1>2 DEF Clean, View
        <3> QED BY <3>1, <1>2 DEF Account
    <2> QED BY <2>1, <2>2
<1>7. /\ p.cache[tx.from] \in Account
      /\ p.cache[tx.from].seq > cms[tx.from].seq
      /\ p.cache[tx.from].recv = cms[tx.from].recv
    <2>1. p.cache[tx.from] = [s[tx.from] EXCEPT !.seq = @ + 1]
        BY <1>2, <1>4, <1>5
    <2> HIDE DEF s, t, p
    <2> QED BY <2>1, <1>2, <1>6 DEF Account
<1>8. ASSUME NEW a \in br.dirty, a # tx.from PROVE p.cache[a] = br.cache[a]
    BY <1>2, <1>4, <1>8 DEF Changed, Branch
<1> HIDE DEF s, t, p
<1>9. Ahead(p)
    BY <1>3, <1>6, <1>7, <1>8 DEF Ahead
<1> QED BY <1>9 DEF s, t, p

\* A read keeps checkState ahead of what is committed.
LEMMA ReadAhead ==
    ASSUME cms \in Store, NEW br \in Branch, NEW S, Clean(br), Ahead(br)
    PROVE  Ahead(Read(br, S))
<1>1. \A a \in br.dirty : a \in Accounts /\ br.cache[a] # Uncached
    BY DEF Branch, Clean
<1> QED BY <1>1, ReadView DEF Ahead

\* Checks and simulations.
LEMMA ChecksInv ==
    ASSUME IInv, NEW tx \in Txs,
           CheckRefused(tx) \/ CheckTx(tx) \/ ReCheckTx(tx) \/ Simulate(tx)
    PROVE  IInv'
<1>1. cms \in Store /\ check \in Branch
    BY DEF IInv, Types
<1>2. phase # "finalized" => Clean(check) /\ Ahead(check)
    BY DEF IInv
<1>3. ASSUME NEW S, check' = Read(check, S),
             UNCHANGED <<version, disk, phase, cms, finalize, initialHeight, gas>>
      PROVE  IInv'
    <2>1. check' \in Branch
        BY <1>1, <1>3, ReadView
    <2>2. phase # "finalized" => Clean(check') /\ Ahead(check')
        BY <1>1, <1>2, <1>3, ReadView, ReadAhead
    <2> QED BY <1>3, <2>1, <2>2, CheckInv
<1>4. ASSUME AnteAccepts(View(check), tx), check' = Put(check, Ante(View(check), tx)),
             UNCHANGED <<version, disk, phase, cms, finalize, initialHeight, gas>>
      PROVE  IInv'
    <2>1. Ante(View(check), tx) \in Store
        BY <1>1, <1>4, ViewStore, AnteStore, ZenonT(30)
    <2>2. check' \in Branch
        BY <1>1, <1>4, <2>1, PutView
    <2>3. phase # "finalized" => Clean(check') /\ Ahead(check')
        BY <1>1, <1>2, <1>4, <2>1, PutView, AnteAhead
    <2> QED BY <1>4, <2>2, <2>3, CheckInv
<1>5. CASE CheckRefused(tx)
    BY <1>3, <1>5 DEF CheckRefused, stable
<1>6. CASE CheckTx(tx)
    BY <1>4, <1>6 DEF CheckTx, stable
<1>7. CASE ReCheckTx(tx)
    BY <1>4, <1>7, SMTT(30) DEF ReCheckTx, stable
<1>8. CASE Simulate(tx)
    BY <1>3, <1>8, ZenonT(30) DEF Simulate, stable
<1> QED BY <1>5, <1>6, <1>7, <1>8

\* The transactions of a block.
LEMMA DeliverInv ==
    ASSUME IInv, NEW tx \in Txs, DeliverTx(tx)
    PROVE  IInv'
<1>1. /\ cms \in Store /\ finalize \in Branch /\ Clean(finalize) /\ gas \in Nat
      /\ phase = "executing"
    BY ZenonT(30) DEF IInv, Types, Base, DeliverTx, Skipped, NoBlockGas, Malformed, AnteFails,
       AnteTakes,
           MsgsFail, PastBlockGas, Succeeds, Running
<1>2. AnteUsed(tx) \in Nat /\ Used(tx) \in Nat
    <2>1. tx.limit \in Nat /\ tx.need \in Nat /\ AnteGas \in Nat
        BY TxAssumption DEF Tx
    <2> QED BY <2>1 DEF AnteUsed, Used, ToLimit
<1>3. ASSUME NEW code, NEW used \in Nat, NEW f \in Branch, NEW p, Clean(f),
             Result(code, used, f, p)
      PROVE  IInv'
    <2>1. UNCHANGED <<version, disk, phase, cms, check, initialHeight>>
        BY <1>3 DEF Result, stable
    <2>2. gas' \in Nat /\ finalize' = f
        BY <1>1, <1>3 DEF Result
    <2> QED BY <1>1, <1>3, <2>1, <2>2, ExecuteInv
<1> DEFINE v == View(finalize)
<1>4. v \in Store
    BY <1>1, ViewStore
<1>5. AnteAccepts(v, tx) => /\ Ante(v, tx) \in Store
                            /\ Credit(Ante(v, tx), tx) \in Store
    BY <1>4, AnteStore, CreditStore, ZenonT(30)
<1>6. \A t \in Store : Put(finalize, t) \in Branch /\ Clean(Put(finalize, t))
    BY <1>1, PutView
<1>7. Read(finalize, {tx.from}) \in Branch /\ Clean(Read(finalize, {tx.from}))
    BY <1>1, ReadView
<1>8. CASE Skipped(tx) \/ NoBlockGas(tx) \/ Malformed(tx)
    BY <1>1, <1>3, <1>8, TxAssumption DEF Skipped, NoBlockGas, Malformed
<1>9. CASE AnteFails(tx)
    BY <1>2, <1>3, <1>7, <1>9 DEF AnteFails
<1>10. CASE MsgsFail(tx) \/ PastBlockGas(tx)
    <2>1. AnteAccepts(v, tx)
        BY <1>10 DEF MsgsFail, PastBlockGas, AnteTakes
    <2> QED BY <1>2, <1>3, <1>5, <1>6, <1>10, <2>1 DEF MsgsFail, PastBlockGas
<1>11. CASE Succeeds(tx)
    <2>1. AnteAccepts(v, tx)
        BY <1>11 DEF Succeeds, AnteTakes
    <2> QED BY <1>2, <1>3, <1>5, <1>6, <1>11, <2>1 DEF Succeeds
<1> QED BY <1>8, <1>9, <1>10, <1>11 DEF DeliverTx

\* Genesis, which stays in finalizeBlockState until the first block is committed.
LEMMA InitChainInv ==
    ASSUME IInv, InitChain
    PROVE  IInv'
<1>1. cms \in Store /\ version = 0 /\ gas = 0 /\ cms = disk
    BY DEF IInv, Types, Base, InitChain
<1>2. Fresh \in Branch /\ Clean(Fresh) /\ Ahead(Fresh)
    BY <1>1, FreshView
<1>3. /\ Put(Fresh, Genesis) \in Branch /\ View(Put(Fresh, Genesis)) = Genesis
      /\ Clean(Put(Fresh, Genesis))
    BY <1>1, <1>2, PutView, GenesisStore
<1>4. UNCHANGED <<version, disk, cms, gas>>
    BY DEF InitChain, stable
<1>5. finalize' = Put(Fresh, Genesis) /\ check' = Fresh /\ phase' = "ready"
    BY DEF InitChain
<1>6. initialHeight' = InitialHeight /\ InitialHeight \in Nat /\ InitialHeight >= 1
    BY BaseAppAssumption DEF InitChain
<1>7. Types'
    BY <1>2, <1>3, <1>4, <1>5, <1>6 DEF IInv, Types
<1>8. View(finalize)' = Genesis
    BY <1>3, <1>4, <1>5 DEF View
<1>9. (Height <= initialHeight)'
    BY <1>1, <1>4, <1>6 DEF Height
<1>10. Base'
    BY <1>1, <1>3, <1>4, <1>5, <1>8, <1>9, NilAssumption DEF Base
<1>11. Clean(finalize)' /\ Clean(check)' /\ Ahead(check)'
    BY <1>2, <1>3, <1>4, <1>5, ZenonT(30) DEF Clean, Ahead
<1> QED BY <1>7, <1>10, <1>11 DEF IInv

\* Proposals: ProcessProposal leaves genesis alone, and otherwise a new branch.
LEMMA ProposalInv ==
    ASSUME IInv, ~ProposalWrites,
           PrepareProposal \/ (\E txs \in Blocks : ProcessProposal(txs))
    PROVE  IInv'
<1>1. /\ cms \in Store /\ phase = "ready"
      /\ version = 0 => Height <= initialHeight
    BY ZenonT(30) DEF IInv, Types, Base, PrepareProposal, ProcessProposal
<1>2. UNCHANGED <<version, disk, phase, cms, check, initialHeight, gas>>
    BY ZenonT(30) DEF PrepareProposal, ProcessProposal, stable
<1>3. finalize' = finalize \/ (finalize' = Fresh /\ version # 0)
    BY <1>1, ZenonT(30) DEF PrepareProposal, ProcessProposal
<1>4. /\ Fresh \in Branch /\ View(Fresh) = cms /\ Clean(Fresh)
      /\ (phase # "finalized" => Clean(check) /\ Ahead(check))'
    BY <1>1, <1>2, FreshView, ZenonT(30) DEF IInv, Clean, Ahead
<1>5. Types'
    BY <1>2, <1>3, <1>4 DEF IInv, Types
<1>6. CASE finalize' = finalize
    <2>1. Base'
        BY <1>2, <1>6, ZenonT(30) DEF IInv, Base, View, Height
    <2>2. (finalize # Nil => Clean(finalize))'
        BY <1>2, <1>6, ZenonT(30) DEF IInv, Clean
    <2> QED BY <1>4, <1>5, <2>1, <2>2 DEF IInv
<1>7. CASE finalize' = Fresh /\ version # 0
    <2>1. View(finalize)' = cms' /\ Clean(finalize)'
        BY <1>2, <1>4, <1>7, ZenonT(30) DEF View, Clean
    <2>2. Base'
        BY <1>1, <1>2, <1>7, <2>1 DEF IInv, Base
    <2> QED BY <1>4, <1>5, <2>1, <2>2, ZenonT(30) DEF IInv
<1> QED BY <1>3, <1>6, <1>7, SMTT(30)

\* The start of FinalizeBlock.
LEMMA BeginInv ==
    ASSUME IInv, NEW txs \in Blocks, BeginBlock(txs)
    PROVE  IInv'
<1>1. cms \in Store /\ cms = disk /\ finalize \in Branch \cup {Nil}
    BY DEF IInv, Types, Base, BeginBlock
<1>2. UNCHANGED <<version, disk, cms, check, initialHeight>> /\ gas' = 0
    BY DEF BeginBlock
<1>3. /\ phase = "ready" /\ phase' = "executing"
      /\ finalize' = IF finalize = Nil THEN Fresh ELSE finalize
    BY DEF BeginBlock
<1>4. Fresh \in Branch /\ Clean(Fresh)
    BY <1>1, FreshView
<1>5. finalize' \in Branch /\ Clean(finalize')
    BY <1>1, <1>3, <1>4 DEF IInv
<1>6. Types'
    BY <1>2, <1>3, <1>5 DEF IInv, Types
<1>7. Base'
    BY <1>1, <1>2, <1>3, <1>5, NilAssumption, ZenonT(30) DEF Base
<1>8. Clean(finalize)' /\ Clean(check)' /\ Ahead(check)'
    BY <1>2, <1>3, <1>5, ZenonT(30) DEF IInv, Clean, Ahead
<1> QED BY <1>6, <1>7, <1>8 DEF IInv

\* The end of FinalizeBlock, Commit and a crash.
LEMMA EndInv ==
    ASSUME IInv, WorkingHash \/ Commit \/ Crash
    PROVE  IInv'
<1>1. cms \in Store /\ disk \in Store /\ version \in Nat /\ initialHeight \in Nat
    BY DEF IInv, Types
<1>2. CASE WorkingHash
    <2>1. finalize \in Branch /\ Clean(finalize)
        BY <1>2, ZenonT(30) DEF IInv, Types, Base, WorkingHash
    <2>2. cms' \in Store
        BY <1>1, <1>2, <2>1, WrittenView, ViewStore DEF WorkingHash
    <2>3. Fresh \in Branch
        BY <1>1, FreshView
    <2>4. Types'
        BY <1>2, <2>2, <2>3 DEF IInv, Types, WorkingHash
    <2>5. Base'
        BY <1>2 DEF Base, WorkingHash
    <2>6. Clean(finalize)' /\ phase' = "finalized"
        BY <1>2, ZenonT(30) DEF WorkingHash, Clean, Fresh
    <2> QED BY <2>4, <2>5, <2>6 DEF IInv
<1>3. CASE Commit
    <2>1. Height \in Nat /\ Height # 0
        BY <1>1 DEF Height
    <2>2. Fresh \in Branch /\ Clean(Fresh) /\ Ahead(Fresh)
        BY <1>1, FreshView
    <2>3. Types'
        BY <1>1, <1>3, <2>1, <2>2 DEF IInv, Types, Commit
    <2>4. Base'
        BY <1>3, <2>1 DEF Base, Commit
    <2>5. finalize' = Nil /\ Clean(check)' /\ Ahead(check)'
        BY <1>3, <2>2, ZenonT(30) DEF Commit, Clean, Ahead
    <2> QED BY <2>3, <2>4, <2>5 DEF IInv
<1>4. CASE Crash
    <2>1. Fresh \in Branch
        BY <1>1, FreshView
    <2>2. Types'
        BY <1>1, <1>4, <2>1, ZenonT(30) DEF IInv, Types, Crash, stable
    <2>3. Base'
        BY <1>4 DEF Base, Crash, stable
    <2>4. finalize' = Nil /\ Clean(check)' /\ Ahead(check)'
        BY <1>4, ZenonT(30) DEF Crash, Clean, Ahead, Fresh
    <2> QED BY <2>2, <2>3, <2>4 DEF IInv
<1> QED BY <1>2, <1>3, <1>4

\* Every step keeps the invariant.
LEMMA NextInv ==
    ASSUME ~ProposalWrites, IInv, [Next]_vars
    PROVE  IInv'
<1>1. CASE UNCHANGED vars
    <2>1. UNCHANGED <<version, disk, phase, cms, finalize, initialHeight, gas, check>>
        BY <1>1 DEF vars
    <2>2. check' \in Branch /\ (phase # "finalized" => Clean(check') /\ Ahead(check'))
        BY <2>1 DEF IInv, Types
    <2> QED BY <2>1, <2>2, CheckInv
<1>2. CASE Next
    BY <1>2, InitChainInv, ChecksInv, ProposalInv, BeginInv, DeliverInv, EndInv DEF Next
<1> QED BY <1>1, <1>2

\* The inductive invariant holds of every behaviour.
THEOREM Invariance ==
    ASSUME ~ProposalWrites
    PROVE  Spec => []IInv
<1>1. Init => IInv
    BY InitInv
<1>2. IInv /\ [Next]_vars => IInv'
    BY NextInv
<1> QED BY <1>1, <1>2, PTL DEF Spec

\* checkState is a branch of the last committed block whenever no block is in
\* flight (setState, Commit).
THEOREM CheckStateFollows ==
    ASSUME ~ProposalWrites
    PROVE  Spec => []CheckFollowsCommit
<1>1. IInv => CheckFollowsCommit
    <2> SUFFICES ASSUME IInv, phase = "ready" PROVE
            /\ cms = disk
            /\ \A a \in Accounts :
                  IF a \in check.dirty
                  THEN check.cache[a].seq > cms[a].seq /\ check.cache[a].recv = cms[a].recv
                  ELSE check.cache[a] \in {Uncached, cms[a]}
        BY DEF CheckFollowsCommit
    <2>1. cms = disk /\ Clean(check) /\ Ahead(check)
        BY DEF IInv, Base
    <2> QED BY <2>1, ZenonT(30) DEF Clean, Ahead
<1> QED BY <1>1, Invariance, PTL

-----------------------------------------------------------------------------
(* The refinement: state and work as the ledger sees them.                 *)

LState == IF version = 0 THEN Genesis ELSE disk
LWork == IF phase = "executing" THEN View(finalize)
         ELSE IF phase = "finalized" THEN cms ELSE Nil

\* A step that leaves what the ledger sees alone.
LEMMA Stutters ==
    ASSUME UNCHANGED <<version, disk, phase, cms, finalize, gas>>
    PROVE  UNCHANGED L!vars
BY DEF L!vars, View

\* The ledger runs the same application.
LEMMA SameApplication ==
    ASSUME NEW s, NEW tx, NEW g
    PROVE  /\ L!Genesis = Genesis
           /\ L!AnteAccepts(s, tx) = AnteAccepts(s, tx)
           /\ L!Ante(s, tx) = Ante(s, tx) /\ L!Credit(s, tx) = Credit(s, tx)
           /\ L!MsgsSucceed(tx) = MsgsSucceed(tx)
           /\ L!AnteUsed(tx) = AnteUsed(tx) /\ L!Used(tx) = Used(tx)
           /\ L!IsOutOfGas(g) = IsOutOfGas(g) /\ L!IsPastLimit(g) = IsPastLimit(g)
<1>1. L!Genesis = Genesis
    BY DEF L!Genesis, Genesis
<1>2. L!AnteAccepts(s, tx) = AnteAccepts(s, tx)
    BY DEF L!AnteAccepts, AnteAccepts
<1>3. L!Ante(s, tx) = Ante(s, tx)
    BY DEF L!Ante, Ante
<1>4. L!Credit(s, tx) = Credit(s, tx)
    BY DEF L!Credit, Credit
<1>5. L!MsgsSucceed(tx) = MsgsSucceed(tx)
    BY DEF L!MsgsSucceed, MsgsSucceed
<1>6. L!AnteUsed(tx) = AnteUsed(tx) /\ L!Used(tx) = Used(tx)
    BY DEF L!AnteUsed, AnteUsed, L!Used, Used, L!ToLimit, ToLimit
<1>7. L!IsOutOfGas(g) = IsOutOfGas(g) /\ L!IsPastLimit(g) = IsPastLimit(g)
    BY DEF L!IsOutOfGas, IsOutOfGas, L!IsPastLimit, IsPastLimit
<1> QED BY <1>1, <1>2, <1>3, <1>4, <1>5, <1>6, <1>7

\* Each transaction of a block has the ledger's effect.
LEMMA DeliverRefines ==
    ASSUME IInv, NEW tx \in Txs, DeliverTx(tx)
    PROVE  L!Deliver(tx)
<1>1. /\ cms \in Store /\ finalize \in Branch /\ Clean(finalize)
      /\ phase = "executing"
    BY ZenonT(30) DEF IInv, Types, Base, DeliverTx, Skipped, NoBlockGas, Malformed, AnteFails,
       AnteTakes,
           MsgsFail, PastBlockGas, Succeeds, Running
<1> DEFINE v == View(finalize)
<1>2. v \in Store /\ v # Nil
    BY <1>1, ViewStore, NilAssumption
<1>3. AnteAccepts(v, tx) => /\ Ante(v, tx) \in Store
                            /\ Credit(Ante(v, tx), tx) \in Store
    BY <1>2, AnteStore, CreditStore, ZenonT(30)
<1>4. ASSUME NEW code, NEW used, NEW f, NEW p, Result(code, used, f, p)
      PROVE  /\ LWork = v /\ LWork' = View(f) /\ gas' = gas + used
             /\ version' = version /\ LState' = LState
    BY <1>1, <1>4, ZenonT(30) DEF Result, stable, LWork, LState, View
<1>5. ASSUME LWork = v, version' = version, LState' = LState,
             LWork' = IF L!Done(tx) THEN Credit(Ante(v, tx), tx)
                      ELSE IF L!Charged(tx) THEN Ante(v, tx) ELSE v,
             gas' = gas + IF ~tx.decodes \/ IsOutOfGas(gas) THEN 0
                          ELSE IF ~tx.wellFormed THEN CtxGas
                          ELSE IF L!Charged(tx) THEN Used(tx) ELSE AnteUsed(tx)
      PROVE  L!Deliver(tx)
    <2> HIDE DEF v
    <2> QED BY <1>2, <1>5, SameApplication, ZenonT(30) DEF L!Deliver, LWork, LState
<1>6. LWork = v => /\ L!Charged(tx) = (tx.wellFormed /\ ~IsOutOfGas(gas) /\ AnteAccepts(v, tx))
                   /\ L!Done(tx) = (L!Charged(tx) /\ MsgsSucceed(tx) /\ ~IsPastLimit(gas + Used(tx)))
    <2> HIDE DEF v
    <2> QED BY SameApplication, ZenonT(30) DEF L!Charged, L!Done, LWork
<1>wf. tx.wellFormed => tx.decodes
    BY TxAssumption
<1>7. CASE Skipped(tx) \/ NoBlockGas(tx) \/ Malformed(tx)
    <2>1. /\ LWork = v /\ LWork' = v
          /\ gas' = gas + IF Malformed(tx) THEN CtxGas ELSE 0
          /\ version' = version /\ LState' = LState
        BY <1>4, <1>7, ZenonT(30) DEF Skipped, NoBlockGas, Malformed
    <2>2. IF Malformed(tx) THEN tx.decodes /\ ~tx.wellFormed /\ ~IsOutOfGas(gas)
          ELSE (~tx.decodes \/ IsOutOfGas(gas)) /\ ~(tx.wellFormed /\ ~IsOutOfGas(gas))
        BY <1>7, TxAssumption DEF Skipped, NoBlockGas, Malformed
    <2> HIDE DEF v
    <2> QED BY <1>5, <1>6, <2>1, <2>2, ZenonT(30)
<1>8. CASE AnteFails(tx)
    <2>1. /\ LWork = v /\ LWork' = View(Read(finalize, {tx.from}))
          /\ gas' = gas + AnteUsed(tx)
          /\ version' = version /\ LState' = LState
        BY <1>4, <1>8 DEF AnteFails
    <2>2. View(Read(finalize, {tx.from})) = v
        BY <1>1, ReadView
    <2>3. tx.wellFormed /\ ~IsOutOfGas(gas) /\ ~AnteAccepts(v, tx)
        BY <1>8 DEF AnteFails
    <2> HIDE DEF v
    <2> QED BY <1>wf, <1>5, <1>6, <2>1, <2>2, <2>3, ZenonT(30)
<1>9. CASE MsgsFail(tx) \/ PastBlockGas(tx)
    <2>1. /\ LWork = v /\ LWork' = View(Put(finalize, Ante(v, tx)))
          /\ gas' = gas + Used(tx)
          /\ version' = version /\ LState' = LState
        BY <1>4, <1>9, ZenonT(30) DEF MsgsFail, PastBlockGas
    <2>2. /\ tx.wellFormed /\ ~IsOutOfGas(gas) /\ AnteAccepts(v, tx)
          /\ ~(MsgsSucceed(tx) /\ ~IsPastLimit(gas + Used(tx)))
        BY <1>9 DEF MsgsFail, PastBlockGas, AnteTakes
    <2>3. View(Put(finalize, Ante(v, tx))) = Ante(v, tx)
        BY <1>1, <1>3, <2>2, PutView
    <2> HIDE DEF v
    <2> QED BY <1>wf, <1>5, <1>6, <2>1, <2>2, <2>3, ZenonT(30)
<1>10. CASE Succeeds(tx)
    <2>1. /\ LWork = v /\ LWork' = View(Put(finalize, Credit(Ante(v, tx), tx)))
          /\ gas' = gas + Used(tx)
          /\ version' = version /\ LState' = LState
        BY <1>4, <1>10 DEF Succeeds
    <2>2. /\ tx.wellFormed /\ ~IsOutOfGas(gas) /\ AnteAccepts(v, tx)
          /\ MsgsSucceed(tx) /\ ~IsPastLimit(gas + Used(tx))
        BY <1>10 DEF Succeeds, AnteTakes
    <2>3. View(Put(finalize, Credit(Ante(v, tx), tx))) = Credit(Ante(v, tx), tx)
        BY <1>1, <1>3, <2>2, PutView
    <2> HIDE DEF v
    <2> QED BY <1>wf, <1>5, <1>6, <2>1, <2>2, <2>3, ZenonT(30)
<1> QED BY <1>7, <1>8, <1>9, <1>10, SMTT(30) DEF DeliverTx

\* Beginning a block, ending it, committing it and losing it.
LEMMA BlockRefines ==
    ASSUME IInv, (\E txs \in Blocks : BeginBlock(txs)) \/ WorkingHash \/ Commit \/ Crash
    PROVE  L!Next \/ UNCHANGED L!vars
<1>1. cms \in Store /\ version \in Nat /\ initialHeight \in Nat
    BY DEF IInv, Types
<1>2. CASE \E txs \in Blocks : BeginBlock(txs)
    <2>1. PICK txs \in Blocks : BeginBlock(txs)
        BY <1>2
    <2>2. cms = disk /\ cms' = cms /\ version' = version /\ disk' = disk
        BY <2>1, ZenonT(30) DEF IInv, Base, BeginBlock
    <2>3. finalize' = IF finalize = Nil THEN Fresh ELSE finalize
        BY <2>1 DEF BeginBlock
    <2>4. View(finalize') = LState
        <3>1. View(Fresh) = cms
            BY <1>1, FreshView
        <3> QED BY <2>1, <2>2, <2>3, <3>1, ZenonT(30) DEF IInv, Base, BeginBlock, LState
    <2>5. LWork = Nil /\ LWork' = View(finalize') /\ LState' = LState /\ gas' = 0
        BY <2>1, <2>2, ZenonT(30) DEF BeginBlock, LWork, LState, View
    <2>6. L!Begin
        BY <2>2, <2>4, <2>5 DEF L!Begin, LWork, LState
    <2> QED BY <2>6 DEF L!Next
<1>3. CASE WorkingHash
    <2>1. finalize \in Branch /\ Clean(finalize)
        BY <1>3, ZenonT(30) DEF IInv, Types, Base, WorkingHash
    <2>2. cms' = View(finalize)
        BY <1>1, <1>3, <2>1, WrittenView, ZenonT(30) DEF WorkingHash
    <2>3. LWork' = LWork /\ UNCHANGED <<version, LState, gas>>
        BY <1>3, <2>2, ZenonT(30) DEF WorkingHash, LWork, LState
    <2>4. UNCHANGED L!vars
        BY <2>3, ZenonT(30) DEF L!vars, LWork, LState
    <2> QED BY <2>4
<1>4. CASE Commit
    <2>1. version' > version /\ version' # 0
        BY <1>1, <1>4 DEF Commit, Height
    <2>2. LWork = cms /\ cms # Nil /\ LWork' = Nil /\ LState' = cms /\ gas' = 0
        BY <1>1, <1>4, <2>1, NilAssumption DEF Commit, LWork, LState
    <2>3. L!Commit
        BY <2>1, <2>2 DEF L!Commit, LWork, LState
    <2> QED BY <2>3 DEF L!Next
<1>5. CASE Crash
    <2>1. LWork' = Nil /\ gas' = 0 /\ version' = version /\ LState' = LState
        BY <1>5, ZenonT(30) DEF Crash, stable, LWork, LState
    <2>2. CASE phase \in {"executing", "finalized"}
        <3>1. LWork # Nil
            BY <1>1, <2>2, ViewStore, NilAssumption, ZenonT(30) DEF IInv, Types, Base, LWork
        <3>2. L!Abandon
            BY <2>1, <3>1 DEF L!Abandon, LWork, LState
        <3> QED BY <3>2 DEF L!Next
    <2>3. CASE phase \notin {"executing", "finalized"}
        <3>1. LWork = Nil /\ gas = 0
            BY <2>3 DEF LWork, IInv, Types, Base
        <3>2. UNCHANGED L!vars
            BY <2>1, <3>1 DEF L!vars, LWork, LState
        <3> QED BY <3>2
    <2> QED BY <2>2, <2>3
<1> QED BY <1>2, <1>3, <1>4, <1>5

\* Every step is a step of the ledger, or none.
LEMMA NextRefines ==
    ASSUME IInv, [Next]_vars
    PROVE  [L!Next]_L!vars
<1>1. CASE UNCHANGED vars
    BY <1>1, Stutters DEF vars
<1>2. CASE InitChain
    <2>1. LWork' = LWork /\ UNCHANGED <<version, LState, gas>>
        BY <1>2, SMTT(30) DEF InitChain, stable, LWork, LState
    <2> QED BY <2>1 DEF L!vars, LWork, LState
<1>3. CASE \E tx \in Txs : CheckRefused(tx) \/ CheckTx(tx) \/ ReCheckTx(tx) \/ Simulate(tx)
    BY <1>3, Stutters, ZenonT(30) DEF CheckRefused, CheckTx, ReCheckTx, Simulate, stable
<1>4. CASE PrepareProposal \/ (\E txs \in Blocks : ProcessProposal(txs))
    <2>1. LWork' = LWork /\ UNCHANGED <<version, LState, gas>>
        BY <1>4, ZenonT(30) DEF PrepareProposal, ProcessProposal, stable, LWork, LState
    <2> QED BY <2>1 DEF L!vars, LWork, LState
<1>5. CASE \E tx \in Txs : DeliverTx(tx)
    BY <1>5, DeliverRefines DEF L!Next
<1>6. CASE (\E txs \in Blocks : BeginBlock(txs)) \/ WorkingHash \/ Commit \/ Crash
    BY <1>6, BlockRefines
<1> QED BY <1>1, <1>2, <1>3, <1>4, <1>5, <1>6 DEF Next

\* BaseApp implements the ledger: checks, simulations, proposals and crashes
\* leave no trace in the blocks that are executed and committed (FinalizeBlock,
\* runTx, Commit).
THEOREM Refinement ==
    ASSUME ~ProposalWrites
    PROVE  Spec => LedgerRefined
<1>1. Init => L!Init
    BY SameApplication, ZenonT(30) DEF Init, L!Init
<1>2. IInv /\ [Next]_vars => [L!Next]_L!vars
    BY NextRefines
<1> QED BY <1>1, <1>2, Invariance, PTL DEF Spec, LedgerRefined, L!Spec

-----------------------------------------------------------------------------
(* A block gets one response: what a transaction does is a function of the *)
(* state, the gas and the results before it, so that two executions of the *)
(* block go through the same states.                                       *)

\* runTx for tx, on a store w and a block meter that has consumed g.
Refused(g, tx) == ~tx.decodes \/ IsOutOfGas(g)
Taken(w, g, tx) == ~Refused(g, tx) /\ tx.wellFormed /\ AnteAccepts(w, tx)
Code(w, g, tx) ==
    IF ~tx.decodes THEN "skipped"
    ELSE IF IsOutOfGas(g) THEN "no block gas"
    ELSE IF ~tx.wellFormed THEN "malformed"
    ELSE IF ~AnteAccepts(w, tx) THEN "ante"
    ELSE IF ~MsgsSucceed(tx) THEN "msgs"
    ELSE IF IsPastLimit(g + Used(tx)) THEN "past block gas" ELSE "ok"
GasOf(w, g, tx) ==
    IF Refused(g, tx) THEN 0
    ELSE IF ~tx.wellFormed THEN CtxGas
    ELSE IF AnteAccepts(w, tx) THEN Used(tx) ELSE AnteUsed(tx)
WorkOf(w, g, tx) ==
    IF ~Taken(w, g, tx) THEN w
    ELSE IF MsgsSucceed(tx) /\ ~IsPastLimit(g + Used(tx)) THEN Credit(Ante(w, tx), tx)
    ELSE Ante(w, tx)

After(m, tx) ==
    <<WorkOf(m[1], m[2], tx), m[2] + GasOf(m[1], m[2], tx),
      Append(m[3], [code |-> Code(m[1], m[2], tx), gas |-> GasOf(m[1], m[2], tx)])>>

\* The first n transactions of the block lead to the states of t, and to m.
Replay(t, n) ==
    /\ t[0] = <<LState, 0, <<>>>>
    /\ \A i \in 1 .. n : t[i] = After(t[i - 1], block[i])
Reaches(n, m) == \E t : Replay(t, n) /\ t[n] = m

Now == <<View(finalize), gas, results>>

ReplayInv ==
    /\ phase = "executing" \/ replies # {} => block \in Blocks
    /\ phase = "executing" =>
          results \in Seq([code : Codes, gas : Nat]) /\ Reaches(Len(results), Now)
    /\ \A r \in replies : \E m : Reaches(Len(block), m) /\ r = <<m[1], TxResults(m[3])>>

\* A set of numbers has a least one.
LEMMA Least ==
    ASSUME NEW S \in SUBSET Nat, S # {}
    PROVE  \E m \in S : \A n \in S : m <= n
<1>1. IsWellFoundedOn(OpToRel(<, Nat), Nat)
    BY NatLessThanWellFounded
<1>2. PICK m \in S : \A n \in S : ~(<<n, m>> \in OpToRel(<, Nat))
    BY <1>1, WFMin
<1>3. \A n \in S : ~(n < m)
    BY <1>2, ZenonT(30) DEF OpToRel
<1> QED BY <1>3

\* Two executions of a block go through the same states: there is no first
\* transaction after which they differ.
LEMMA SameStates ==
    ASSUME NEW n \in Nat, NEW l, NEW m, Reaches(n, l), Reaches(n, m)
    PROVE  l = m
<1>1. PICK t : Replay(t, n) /\ t[n] = l
    BY DEF Reaches
<1>2. PICK u : Replay(u, n) /\ u[n] = m
    BY DEF Reaches
<1> DEFINE D == {i \in 0 .. n : t[i] # u[i]}
<1>3. ASSUME D # {} PROVE FALSE
    <2>1. D \in SUBSET Nat
        OBVIOUS
    <2>2. PICK i \in D : \A j \in D : i <= j
        BY <2>1, <1>3, Least, ZenonT(30)
    <2>3. i # 0
        BY <1>1, <1>2, ZenonT(30) DEF Replay
    <2>4. i \in 1 .. n /\ i - 1 \in 0 .. n /\ i - 1 \notin D
        BY <2>2, <2>3
    <2>5. t[i - 1] = u[i - 1]
        BY <2>4
    <2>6. t[i] = After(t[i - 1], block[i]) /\ u[i] = After(u[i - 1], block[i])
        BY <1>1, <1>2, <2>4, ZenonT(30) DEF Replay
    <2> QED BY <2>2, <2>5, <2>6, ZenonT(30)
<1>4. n \in 0 .. n
    OBVIOUS
<1> QED BY <1>1, <1>2, <1>3, <1>4, ZenonT(30)

\* One more transaction.
LEMMA OneMore ==
    ASSUME NEW n \in Nat, NEW m, Reaches(n, m)
    PROVE  Reaches(n + 1, After(m, block[n + 1]))
<1>1. PICK t : Replay(t, n) /\ t[n] = m
    BY DEF Reaches
<1> DEFINE last == After(m, block[n + 1])
           u == [i \in 0 .. n + 1 |-> IF i = n + 1 THEN last ELSE t[i]]
<1> HIDE DEF last
<1>2. u[n + 1] = last /\ \A i \in 0 .. n : u[i] = t[i]
    OBVIOUS
<1> HIDE DEF u
<1>3. u[0] = <<LState, 0, <<>>>>
    BY <1>1, <1>2 DEF Replay
<1>4. ASSUME NEW i \in 1 .. n + 1 PROVE u[i] = After(u[i - 1], block[i])
    <2>1. CASE i = n + 1
        <3>1. u[i - 1] = m
            BY <1>1, <1>2, <2>1
        <3> QED BY <3>1, <1>2, <2>1, ZenonT(30) DEF last
    <2>2. CASE i # n + 1
        <3>1. i \in 1 .. n /\ i \in 0 .. n /\ i - 1 \in 0 .. n
            BY <2>2
        <3>2. u[i] = t[i] /\ u[i - 1] = t[i - 1]
            BY <3>1, <1>2
        <3> QED BY <3>1, <3>2, <1>1, ZenonT(30) DEF Replay
    <2> QED BY <2>1, <2>2
<1>5. Replay(u, n + 1)
    BY <1>3, <1>4, ZenonT(30) DEF Replay
<1> QED BY <1>2, <1>5, ZenonT(30) DEF Reaches, last

\* A transaction does what After says.
LEMMA DeliverAfter ==
    ASSUME IInv, NEW tx \in Txs, DeliverTx(tx)
    PROVE  /\ Now' = After(Now, tx)
           /\ Code(View(finalize), gas, tx) \in Codes
           /\ GasOf(View(finalize), gas, tx) \in Nat
<1>1. /\ cms \in Store /\ finalize \in Branch /\ gas \in Nat
    BY ZenonT(30) DEF IInv, Types, Base, DeliverTx, Skipped, NoBlockGas, Malformed, AnteFails,
       AnteTakes,
           MsgsFail, PastBlockGas, Succeeds, Running
<1> DEFINE v == View(finalize)
           R(code, used, w) ==
               /\ View(finalize)' = w /\ gas' = gas + used
               /\ results' = Append(results, [code |-> code, gas |-> used])
<1>2. v \in Store
    BY <1>1, ViewStore, SMTT(30)
<1>3. AnteAccepts(v, tx) => /\ Ante(v, tx) \in Store
                            /\ Credit(Ante(v, tx), tx) \in Store
    BY <1>2, AnteStore, CreditStore, ZenonT(30)
<1>4. ASSUME NEW code, NEW used, NEW f, NEW p, Result(code, used, f, p)
      PROVE  R(code, used, View(f))
    BY <1>4, ZenonT(30) DEF Result, View
<1>wf. tx.wellFormed => tx.decodes
    BY TxAssumption
<1>5. R(Code(v, gas, tx), GasOf(v, gas, tx), WorkOf(v, gas, tx))
    <2>1. CASE Skipped(tx) \/ NoBlockGas(tx) \/ Malformed(tx)
        <3>1. CASE Skipped(tx)
            <4>1. R("skipped", 0, v) /\ ~tx.decodes
                BY <1>4, <3>1, ZenonT(30) DEF Skipped
            <4> HIDE DEF v, R
            <4> QED BY <4>1, ZenonT(30) DEF Code, GasOf, WorkOf, Refused, Taken
        <3>2. CASE NoBlockGas(tx)
            <4>1. R("no block gas", 0, v) /\ tx.decodes /\ IsOutOfGas(gas)
                BY <1>4, <3>2, ZenonT(30) DEF NoBlockGas
            <4> HIDE DEF v, R
            <4> QED BY <4>1, ZenonT(30) DEF Code, GasOf, WorkOf, Refused, Taken
        <3>3. CASE Malformed(tx)
            <4>1. R("malformed", CtxGas, v) /\ tx.decodes /\ ~IsOutOfGas(gas) /\ ~tx.wellFormed
                BY <1>4, <3>3, ZenonT(30) DEF Malformed
            <4> HIDE DEF v, R
            <4> QED BY <4>1, ZenonT(30) DEF Code, GasOf, WorkOf, Refused, Taken
        <3> QED BY <2>1, <3>1, <3>2, <3>3, ZenonT(30)
    <2>2. CASE AnteFails(tx)
        <3>1. /\ R("ante", AnteUsed(tx), View(Read(finalize, {tx.from})))
              /\ tx.wellFormed /\ ~IsOutOfGas(gas) /\ ~AnteAccepts(v, tx)
            BY <1>4, <2>2, ZenonT(30) DEF AnteFails
        <3>2. View(Read(finalize, {tx.from})) = v
            BY <1>1, ReadView
        <3> HIDE DEF v, R
        <3> QED BY <1>wf, <3>1, <3>2, ZenonT(30) DEF Code, GasOf, WorkOf, Refused, Taken
    <2>3. CASE MsgsFail(tx)
        <3>1. /\ R("msgs", Used(tx), View(Put(finalize, Ante(v, tx))))
              /\ tx.wellFormed /\ ~IsOutOfGas(gas) /\ AnteAccepts(v, tx) /\ ~MsgsSucceed(tx)
            BY <1>4, <2>3, ZenonT(30) DEF MsgsFail, AnteTakes
        <3>2. View(Put(finalize, Ante(v, tx))) = Ante(v, tx)
            BY <1>1, <1>3, <3>1, PutView, ZenonT(30)
        <3> HIDE DEF v, R
        <3> QED BY <1>wf, <3>1, <3>2, ZenonT(30) DEF Code, GasOf, WorkOf, Refused, Taken
    <2>4. CASE PastBlockGas(tx)
        <3>1. /\ R("past block gas", Used(tx), View(Put(finalize, Ante(v, tx))))
              /\ tx.wellFormed /\ ~IsOutOfGas(gas) /\ AnteAccepts(v, tx)
              /\ MsgsSucceed(tx) /\ IsPastLimit(gas + Used(tx))
            BY <1>4, <2>4, ZenonT(30) DEF PastBlockGas, AnteTakes
        <3>2. View(Put(finalize, Ante(v, tx))) = Ante(v, tx)
            BY <1>1, <1>3, <3>1, PutView, ZenonT(30)
        <3> HIDE DEF v, R
        <3> QED BY <1>wf, <3>1, <3>2, ZenonT(30) DEF Code, GasOf, WorkOf, Refused, Taken
    <2>5. CASE Succeeds(tx)
        <3>1. /\ R("ok", Used(tx), View(Put(finalize, Credit(Ante(v, tx), tx))))
              /\ tx.wellFormed /\ ~IsOutOfGas(gas) /\ AnteAccepts(v, tx)
              /\ MsgsSucceed(tx) /\ ~IsPastLimit(gas + Used(tx))
            BY <1>4, <2>5, ZenonT(30) DEF Succeeds, AnteTakes
        <3>2. View(Put(finalize, Credit(Ante(v, tx), tx))) = Credit(Ante(v, tx), tx)
            BY <1>1, <1>3, <3>1, PutView, ZenonT(30)
        <3> HIDE DEF v, R
        <3> QED BY <1>wf, <3>1, <3>2, ZenonT(30) DEF Code, GasOf, WorkOf, Refused, Taken
    <2> QED BY <2>1, <2>2, <2>3, <2>4, <2>5, ZenonT(30) DEF DeliverTx
<1>6. Now' = After(Now, tx)
    BY <1>5, ZenonT(30) DEF Now, After
<1>7. Code(v, gas, tx) \in Codes
    BY DEF Code, Codes
<1>8. GasOf(v, gas, tx) \in Nat
    BY TxAssumption, SMTT(30) DEF GasOf, Used, AnteUsed, ToLimit, Tx
<1> QED BY <1>6, <1>7, <1>8, SMTT(30)

\* A step that leaves the block, what it starts from and its responses alone,
\* and does not execute it, keeps the invariant.
LEMMA StillReplays ==
    ASSUME ReplayInv, UNCHANGED stable,
           phase' = "executing" => phase = "executing" /\ UNCHANGED <<cms, finalize, gas, results>>
    PROVE  ReplayInv'
<1>1. \A n, m : Reaches(n, m)' <=> Reaches(n, m)
    BY ZenonT(30) DEF Reaches, Replay, LState, stable
<1>2. phase' = "executing" => Now' = Now
    BY ZenonT(30) DEF Now, View
<1>3. \A r \in replies' : \E m : Reaches(Len(block), m)' /\ r = <<m[1], TxResults(m[3])>>
    BY <1>1 DEF ReplayInv, stable
<1>4. phase' = "executing" => results' \in Seq([code : Codes, gas : Nat])
                              /\ Reaches(Len(results), Now)'
    BY <1>1, <1>2 DEF ReplayInv
<1>5. phase' = "executing" \/ replies' # {} => block' \in Blocks
    BY DEF ReplayInv, stable
<1> QED BY <1>3, <1>4, <1>5, ZenonT(30) DEF ReplayInv

\* The start of FinalizeBlock: a block that already has a response is the same
\* one, and it starts from the same state.
LEMMA BeginReplays ==
    ASSUME IInv, ReplayInv, NEW txs \in Blocks, BeginBlock(txs)
    PROVE  ReplayInv'
<1>1. /\ phase = "ready" /\ block \in {Nil, txs} /\ block' = txs /\ gas' = 0 /\ results' = <<>>
      /\ finalize' = (IF finalize = Nil THEN Fresh ELSE finalize)
      /\ UNCHANGED <<version, disk, cms, replies>>
    BY DEF BeginBlock
<1>2. replies # {} => block' = block
    BY <1>1, NilAssumption DEF ReplayInv
<1>3. View(finalize)' = LState
    <2>1. cms \in Store /\ cms = disk
        BY <1>1, ZenonT(30) DEF IInv, Types, Base
    <2>2. View(finalize)' = View(finalize')
        BY <1>1, ZenonT(30) DEF View
    <2>3. CASE finalize = Nil
        BY <1>1, <2>1, <2>2, <2>3, FreshView, ZenonT(30) DEF IInv, Base, LState
    <2>4. CASE finalize # Nil
        BY <1>1, <2>1, <2>2, <2>4, ZenonT(30) DEF IInv, Base, LState
    <2> QED BY <2>3, <2>4
<1>4. Now' = <<LState', 0, <<>>>>
    BY <1>1, <1>3 DEF Now, LState
<1>5. Reaches(0, Now)'
    <2>1. PICK t : t[0] = <<LState', 0, <<>>>>
        <3>1. [i \in {0} |-> <<LState', 0, <<>>>>][0] = <<LState', 0, <<>>>>
            OBVIOUS
        <3> QED BY <3>1, ZenonT(30)
    <2>2. t[0] = Now' /\ 1 .. 0 = {}
        BY <2>1, <1>4
    <2>3. Replay(t, 0)'
        BY <2>1, <2>2, ZenonT(30) DEF Replay
    <2> QED BY <2>2, <2>3 DEF Reaches
<1>6. results' \in Seq([code : Codes, gas : Nat]) /\ Len(results') = 0
    BY <1>1
<1>7. \A r \in replies' : \E m : Reaches(Len(block), m)' /\ r = <<m[1], TxResults(m[3])>>
    <2> SUFFICES ASSUME NEW r \in replies'
                 PROVE  \E m : Reaches(Len(block), m)' /\ r = <<m[1], TxResults(m[3])>>
        OBVIOUS
    <2>1. r \in replies /\ block' = block
        BY <1>1, <1>2
    <2>2. PICK m : Reaches(Len(block), m) /\ r = <<m[1], TxResults(m[3])>>
        BY <2>1, SMTT(30) DEF ReplayInv
    <2>3. Reaches(Len(block), m)'
        BY <1>1, <2>1, <2>2, ZenonT(30) DEF Reaches, Replay, LState
    <2> QED BY <2>2, <2>3
<1> QED BY <1>1, <1>5, <1>6, <1>7, ZenonT(30) DEF ReplayInv

\* A transaction of the block.
LEMMA DeliverReplays ==
    ASSUME IInv, ReplayInv, NEW tx \in Txs, DeliverTx(tx)
    PROVE  ReplayInv'
<1>1. Running(tx) /\ UNCHANGED <<version, disk, block, replies, phase>>
    BY ZenonT(30) DEF DeliverTx, Skipped, NoBlockGas, Malformed, AnteFails, AnteTakes, MsgsFail,
           PastBlockGas, Succeeds, Result, stable
<1>2. /\ results \in Seq([code : Codes, gas : Nat]) /\ Reaches(Len(results), Now)
      /\ Len(results) \in Nat /\ tx = block[Len(results) + 1]
    BY <1>1 DEF ReplayInv, Running
<1> DEFINE v == View(finalize)
           r == [code |-> Code(v, gas, tx), gas |-> GasOf(v, gas, tx)]
<1>3. Now' = After(Now, tx) /\ r \in [code : Codes, gas : Nat]
    BY DeliverAfter, ZenonT(30)
<1>4. results' = Append(results, r)
    <2>1. Now'[3] = results' /\ After(Now, tx)[3] = Append(results, r)
        BY ZenonT(30) DEF Now, After
    <2> QED BY <1>3, <2>1, ZenonT(30)
<1> HIDE DEF r
<1>5. results' \in Seq([code : Codes, gas : Nat]) /\ Len(results') = Len(results) + 1
    BY <1>2, <1>3, <1>4
<1>6. Reaches(Len(results) + 1, After(Now, tx))
    BY <1>2, OneMore, SMTT(30)
<1>7. \A n, m : Reaches(n, m)' <=> Reaches(n, m)
    BY <1>1, ZenonT(30) DEF Reaches, Replay, LState
<1>8. Reaches(Len(results), Now)'
    BY <1>3, <1>5, <1>6, <1>7
<1>9. \A q \in replies' : \E m : Reaches(Len(block), m)' /\ q = <<m[1], TxResults(m[3])>>
    BY <1>1, <1>7, ZenonT(30) DEF ReplayInv
<1> QED BY <1>1, <1>5, <1>8, <1>9, ZenonT(30) DEF ReplayInv, Running

\* The end of FinalizeBlock answers with what the block leads to.
LEMMA EndReplays ==
    ASSUME IInv, ReplayInv, WorkingHash
    PROVE  ReplayInv'
<1>1. /\ phase = "executing" /\ phase' = "finalized" /\ Len(results) = Len(block)
      /\ replies' = replies \cup {<<cms', TxResults(results)>>} /\ cms' = Written(finalize)
      /\ UNCHANGED <<version, disk, block>>
    BY ZenonT(30) DEF WorkingHash
<1>2. cms' = View(finalize)
    BY <1>1, WrittenView, ZenonT(30) DEF IInv, Types, Base
<1>3. Reaches(Len(block), Now) /\ block \in Blocks
    BY <1>1, ZenonT(30) DEF ReplayInv
<1>4. <<cms', TxResults(results)>> = <<Now[1], TxResults(Now[3])>>
    BY <1>2 DEF Now
<1>5. ASSUME NEW r \in replies'
      PROVE  \E m : Reaches(Len(block), m) /\ r = <<m[1], TxResults(m[3])>>
    BY <1>1, <1>3, <1>4, ZenonT(30) DEF ReplayInv
<1>6. \A n, m : Reaches(n, m)' <=> Reaches(n, m)
    BY <1>1, ZenonT(30) DEF Reaches, Replay, LState
<1>7. \A r \in replies' : \E m : Reaches(Len(block), m)' /\ r = <<m[1], TxResults(m[3])>>
    BY <1>1, <1>5, <1>6, ZenonT(30)
<1> QED BY <1>1, <1>3, <1>7, ZenonT(30) DEF ReplayInv

\* Every step keeps the executions of the block together.
LEMMA NextReplays ==
    ASSUME IInv, ReplayInv, [Next]_vars
    PROVE  ReplayInv'
<1>1. CASE \/ UNCHANGED vars \/ PrepareProposal \/ Crash \/ InitChain
           \/ \E tx \in Txs : CheckRefused(tx) \/ CheckTx(tx) \/ ReCheckTx(tx) \/ Simulate(tx)
           \/ \E txs \in Blocks : ProcessProposal(txs)
    <2>1. UNCHANGED stable
        BY <1>1, ZenonT(30) DEF vars, stable, PrepareProposal, Crash, InitChain, CheckRefused,
           CheckTx,
                    ReCheckTx, Simulate, ProcessProposal
    <2>2. phase' = "executing" => phase = "executing" /\ UNCHANGED <<cms, finalize, gas, results>>
        BY <1>1, ZenonT(30) DEF vars, PrepareProposal, Crash, InitChain, CheckRefused, CheckTx,
                    ReCheckTx, Simulate, ProcessProposal
    <2> QED BY <2>1, <2>2, StillReplays, SMTT(30)
<1>2. CASE Commit
    BY <1>2, ZenonT(30) DEF Commit, ReplayInv
<1>3. CASE \E txs \in Blocks : BeginBlock(txs)
    BY <1>3, BeginReplays
<1>4. CASE \E tx \in Txs : DeliverTx(tx)
    BY <1>4, DeliverReplays
<1>5. CASE WorkingHash
    BY <1>5, EndReplays
<1> QED BY <1>1, <1>2, <1>3, <1>4, <1>5 DEF Next

\* However often a block is executed before it is committed, and whatever checks,
\* proposals and crashes come between, FinalizeBlock answers with the same
\* application hash and the same results.
THEOREM AlwaysSameReply ==
    ASSUME ~ProposalWrites
    PROVE  Spec => []RepliesAgree
<1>1. Init => ReplayInv
    BY DEF Init, ReplayInv
<1>2. IInv /\ ReplayInv /\ [Next]_vars => ReplayInv'
    BY NextReplays
<1>3. ReplayInv => RepliesAgree
    <2> SUFFICES ASSUME ReplayInv, NEW r \in replies, NEW q \in replies PROVE r = q
        BY DEF RepliesAgree
    <2>1. Len(block) \in Nat
        BY BaseAppAssumption DEF ReplayInv, Blocks
    <2>2. PICK l : Reaches(Len(block), l) /\ r = <<l[1], TxResults(l[3])>>
        BY DEF ReplayInv
    <2>3. PICK m : Reaches(Len(block), m) /\ q = <<m[1], TxResults(m[3])>>
        BY DEF ReplayInv
    <2>4. l = m
        BY <2>1, <2>2, <2>3, SameStates
    <2> QED BY <2>2, <2>3, <2>4, ZenonT(30)
<1> QED BY <1>1, <1>2, <1>3, Invariance, PTL DEF Spec
-----------------------------------------------------------------------------
(* The two proposal handlers agree: the transactions PrepareProposal keeps *)
(* are the ones whose ante handlers it ran, one after the other, from the  *)
(* state ProcessProposal starts from.                                      *)

\* The ante handler takes the transactions of txs in turn, from store s to the
\* stores of g.
Chain(g, s, txs) ==
    /\ g[0] = s
    /\ \A i \in 1 .. Len(txs) : /\ txs[i].wellFormed /\ AnteAccepts(g[i - 1], txs[i])
                                /\ g[i] = Ante(g[i - 1], txs[i])
Passes(s, txs, last) == \E g : Chain(g, s, txs) /\ g[Len(txs)] = last

\* An accumulator of PrepareProposalHandler's loop, and what it stands for.
Accumulator(acc) ==
    /\ acc = [store |-> acc.store, txs |-> acc.txs, removed |-> acc.removed, full |-> acc.full]
    /\ acc.txs \in Seq(Txs)
    /\ Passes(ProposalState, acc.txs, acc.store)

HandlersInv ==
    /\ version \in Nat /\ initialHeight \in Nat
    /\ IsFiniteSet(pool) /\ pool \subseteq {t \in Txs : t.wellFormed}
    /\ phase = "init" => proposal = Nil
    /\ OwnProposalAccepted

\* It takes none of no transactions, and one more.
LEMMA PassNone == ASSUME NEW s PROVE Passes(s, <<>>, s)
<1> DEFINE g == [i \in {0} |-> s]
<1>1. Len(<<>>) = 0 /\ 1 .. 0 = {} /\ g[0] = s
    OBVIOUS
<1> HIDE DEF g
<1>2. Chain(g, s, <<>>) /\ g[Len(<<>>)] = s
    BY <1>1, ZenonT(30) DEF Chain
<1> QED BY <1>2, ZenonT(30) DEF Passes

LEMMA NoneSelected ==
    Accumulator([store |-> ProposalState, txs |-> <<>>, removed |-> {}, full |-> FALSE])
BY PassNone DEF Accumulator

LEMMA PassOne ==
    ASSUME NEW s, NEW txs \in Seq(Txs), NEW last, Passes(s, txs, last),
           NEW tx \in Txs, tx.wellFormed, AnteAccepts(last, tx)
    PROVE  Passes(s, Append(txs, tx), Ante(last, tx))
<1>1. PICK g : Chain(g, s, txs) /\ g[Len(txs)] = last
    BY DEF Passes
<1> DEFINE n == Len(txs)
           more == Append(txs, tx)
           next == Ante(last, tx)
           h == [i \in 0 .. n + 1 |-> IF i = n + 1 THEN next ELSE g[i]]
<1>2. n \in Nat /\ Len(more) = n + 1 /\ more[n + 1] = tx /\ \A i \in 1 .. n : more[i] = txs[i]
    BY SMTT(30)
<1> HIDE DEF n, more, next
<1>3. h[n + 1] = next /\ \A i \in 0 .. n : h[i] = g[i]
    BY <1>2, SMTT(30)
<1> HIDE DEF h
<1>4. h[0] = s
    BY <1>1, <1>2, <1>3, SMTT(30) DEF Chain
<1>5. ASSUME NEW i \in 1 .. n + 1
      PROVE  /\ more[i].wellFormed /\ AnteAccepts(h[i - 1], more[i])
             /\ h[i] = Ante(h[i - 1], more[i])
    <2>1. CASE i = n + 1
        <3>1. h[i - 1] = last
            BY <1>1, <1>2, <1>3, <2>1, SMTT(30) DEF n
        <3> QED BY <1>2, <1>3, <2>1, <3>1, ZenonT(30) DEF next
    <2>2. CASE i # n + 1
        <3>1. i \in 1 .. n /\ i \in 0 .. n /\ i - 1 \in 0 .. n
            BY <1>2, <2>2, SMTT(30)
        <3>2. h[i] = g[i] /\ h[i - 1] = g[i - 1] /\ more[i] = txs[i]
            BY <1>2, <1>3, <3>1, ZenonT(30)
        <3> QED BY <1>1, <3>1, <3>2, ZenonT(30) DEF Chain, n
    <2> QED BY <2>1, <2>2, ZenonT(30)
<1>6. Chain(h, s, more)
    BY <1>2, <1>4, <1>5, ZenonT(30) DEF Chain
<1>7. Passes(s, more, next)
    BY <1>2, <1>3, <1>6, ZenonT(30) DEF Passes
<1> QED BY <1>7 DEF more, next

\* ProcessProposalHandler accepts such transactions.
LEMMA PassesAccepted ==
    ASSUME NEW txs \in Seq(Txs), NEW last, Passes(ProposalState, txs, last)
    PROVE  Accepts(txs)
<1> DEFINE n == Len(txs)
           Step(acc, tx) ==
               [ok |-> acc.ok /\ tx.wellFormed /\ AnteAccepts(acc.store, tx),
                store |-> IF AnteAccepts(acc.store, tx) THEN Ante(acc.store, tx) ELSE acc.store]
           start == [ok |-> TRUE, store |-> ProposalState]
           F(f) == f = [i \in 0 .. n |-> IF i = 0 THEN start ELSE Step(f[i - 1], txs[i])]
           after == CHOOSE f : F(f)
<1>1. PICK g : Chain(g, ProposalState, txs)
    BY DEF Passes
<1> DEFINE At(i) == [ok |-> TRUE, store |-> g[i]]
           w == [i \in 0 .. n |-> At(i)]
<1>2. n \in Nat
    OBVIOUS
<1>3. At(0) = start
    BY <1>1, ZenonT(30) DEF Chain
<1>4. ASSUME NEW i \in 1 .. n PROVE Step(At(i - 1), txs[i]) = At(i)
    <2>1. /\ txs[i].wellFormed /\ AnteAccepts(g[i - 1], txs[i])
          /\ g[i] = Ante(g[i - 1], txs[i])
        BY <1>1, ZenonT(30) DEF Chain
    <2>2. At(i - 1).ok /\ At(i - 1).store = g[i - 1]
        BY ZenonT(30)
    <2> HIDE DEF n
    <2>3. (At(i - 1).ok /\ txs[i].wellFormed /\ AnteAccepts(At(i - 1).store, txs[i])) = TRUE
        BY <2>1, <2>2, ZenonT(30)
    <2>4. (IF AnteAccepts(At(i - 1).store, txs[i]) THEN Ante(At(i - 1).store, txs[i])
           ELSE At(i - 1).store) = g[i]
        BY <2>1, <2>2, ZenonT(30)
    <2> QED BY <2>3, <2>4, ZenonT(30)
<1> HIDE DEF Step, At, start, n
<1>5. \E f : F(f)
    <2>1. ASSUME NEW i \in 0 .. n, i # 0 PROVE w[i] = Step(w[i - 1], txs[i])
        <3>1. i \in 1 .. n /\ i - 1 \in 0 .. n
            BY <1>2, <2>1
        <3>2. w[i - 1] = At(i - 1) /\ w[i] = At(i)
            BY <3>1
        <3> QED BY <3>1, <3>2, <1>4, ZenonT(30)
    <2>2. F(w)
        BY <1>2, <1>3, <2>1, ZenonT(30)
    <2> QED BY <2>2, ZenonT(30)
<1>6. F(after)
    BY <1>5, ZenonT(30)
<1> HIDE DEF after
<1> DEFINE D == {i \in 0 .. n : after[i] # At(i)}
<1>7. ASSUME D # {} PROVE FALSE
    <2>1. PICK i \in D : \A j \in D : i <= j
        BY <1>2, <1>7, Least, D \in SUBSET Nat, ZenonT(30)
    <2>2. i # 0
        BY <1>2, <1>3, <1>6
    <2>3. i \in 1 .. n /\ i - 1 \in 0 .. n /\ i - 1 \notin D
        BY <1>2, <2>1, <2>2
    <2>4. after[i] = Step(after[i - 1], txs[i])
        BY <1>6, <2>2, <2>3, ZenonT(30)
    <2> QED BY <2>1, <2>3, <2>4, <1>4, ZenonT(30)
<1>8. after[n] = At(n)
    BY <1>2, <1>7, SMTT(30)
<1>9. after[n].ok
    BY <1>8 DEF At
<1> QED BY <1>9, ZenonT(30) DEF Accepts, after, F, Step, start, n
\* The handler's loop on one more transaction of the mempool.
LEMMA VerifyKeeps ==
    ASSUME NEW acc, Accumulator(acc), NEW tx \in Txs, tx.wellFormed
    PROVE  Accumulator(Verify(acc, tx))
<1> DEFINE R(s, t, r, u) == [store |-> s, txs |-> t, removed |-> r, full |-> u]
<1>1. acc = R(acc.store, acc.txs, acc.removed, acc.full)
    BY ZenonT(30) DEF Accumulator
<1>2. ASSUME NEW r, NEW u PROVE Accumulator(R(acc.store, acc.txs, r, u))
    BY ZenonT(30) DEF Accumulator
<1>3. CASE acc.full
    BY <1>3, SMTT(30) DEF Verify
<1>4. CASE ~acc.full /\ ~AnteAccepts(acc.store, tx)
    <2>1. Verify(acc, tx) = R(acc.store, acc.txs, acc.removed \cup {tx}, acc.full)
        BY <1>1, <1>4, SMTT(30) DEF Verify
    <2> QED BY <2>1, <1>2, ZenonT(30)
<1>5. CASE ~acc.full /\ AnteAccepts(acc.store, tx) /\ Len(acc.txs) = MaxBlockTxs
    <2>1. Verify(acc, tx) = R(acc.store, acc.txs, acc.removed, TRUE)
        BY <1>1, <1>5, ZenonT(30) DEF Verify
    <2> QED BY <2>1, <1>2, ZenonT(30)
<1>6. CASE ~acc.full /\ AnteAccepts(acc.store, tx) /\ Len(acc.txs) # MaxBlockTxs
    <2> DEFINE s == Ante(acc.store, tx)
               t == Append(acc.txs, tx)
    <2>1. Passes(ProposalState, t, s)
        BY <1>6, PassOne, ZenonT(30) DEF Accumulator
    <2>2. t \in Seq(Txs)
        BY DEF Accumulator
    <2> HIDE DEF s, t
    <2>3. Verify(acc, tx) = R(s, t, acc.removed, acc.full)
        BY <1>1, <1>6, ZenonT(30) DEF Verify, s, t
    <2>4. Accumulator(R(s, t, acc.removed, acc.full))
        BY <2>1, <2>2, ZenonT(30) DEF Accumulator
    <2> QED BY <2>3, <2>4, ZenonT(30)
<1> QED BY <1>3, <1>4, <1>5, <1>6, ZenonT(30)

\* What it returns is accepted, in whatever order Select yields the mempool.
LEMMA SelectedPasses ==
    ASSUME HandlersInv, NEW order \in Orders
    PROVE  Accepts(Selected(order).txs)
<1> DEFINE n == Len(order)
           start == [store |-> ProposalState, txs |-> <<>>, removed |-> {}, full |-> FALSE]
           F(m, f) == f = [i \in 0 .. m |-> IF i = 0 THEN start ELSE Verify(f[i - 1], order[i])]
           after == CHOOSE f : F(n, f)
<1>1. /\ n \in Nat
      /\ \A i \in 1 .. n : order[i] \in Txs /\ order[i].wellFormed
    <2>1. Cardinality(pool) \in Nat
        BY FS_CardinalityType DEF HandlersInv
    <2>2. order \in [1 .. Cardinality(pool) -> pool]
        BY DEF Orders
    <2>3. n = Cardinality(pool)
        BY <2>1, <2>2, SMTT(30)
    <2> QED BY <2>1, <2>2, <2>3 DEF HandlersInv
<1> HIDE DEF n, start
<1> DEFINE Solved(m) == \E f : F(m, f)
           U == {m \in 0 .. n : ~Solved(m)}
<1> HIDE DEF Solved
<1>2. ASSUME U # {} PROVE FALSE
    <2>1. PICK m \in U : \A j \in U : m <= j
        BY <1>1, <1>2, Least, U \in SUBSET Nat, ZenonT(30)
    <2>2. m # 0
        <3> DEFINE f == [i \in 0 .. 0 |-> start]
        <3>1. F(0, f)
            OBVIOUS
        <3> QED BY <3>1, <2>1, ZenonT(30) DEF Solved
    <2>3. m \in 1 .. n /\ m - 1 \in 0 .. n /\ m - 1 \notin U
        BY <1>1, <2>1, <2>2
    <2>4. PICK f : F(m - 1, f)
        BY <2>3, ZenonT(30) DEF Solved
    <2> DEFINE h == [i \in 0 .. m |-> IF i = m THEN Verify(f[m - 1], order[m]) ELSE f[i]]
    <2>5. h[m] = Verify(f[m - 1], order[m]) /\ \A i \in 0 .. m - 1 : h[i] = f[i]
        BY <1>1, <2>3, SMTT(30)
    <2>6. ASSUME NEW i \in 0 .. m
          PROVE  h[i] = IF i = 0 THEN start ELSE Verify(h[i - 1], order[i])
        <3>1. CASE i = m
            <4>1. h[m - 1] = f[m - 1]
                BY <1>1, <2>3, <2>5, SMTT(30)
            <4> HIDE DEF h
            <4> QED BY <2>2, <2>5, <3>1, <4>1, ZenonT(30)
        <3>2. CASE i # m
            <4>1. i \in 0 .. m - 1 /\ (i # 0 => i - 1 \in 0 .. m - 1)
                BY <1>1, <2>3, <3>2
            <4>2. f[i] = IF i = 0 THEN start ELSE Verify(f[i - 1], order[i])
                BY <2>4, <4>1, SMTT(30)
            <4> HIDE DEF h
            <4> QED BY <2>5, <4>1, <4>2, ZenonT(30)
        <3> QED BY <3>1, <3>2, ZenonT(30)
    <2>7. F(m, h)
        BY <2>6, ZenonT(30)
    <2> QED BY <2>1, <2>7, ZenonT(30) DEF Solved
<1>3. F(n, after)
    <2>1. Solved(n)
        BY <1>1, <1>2
    <2> QED BY <2>1, ZenonT(30) DEF Solved
<1> HIDE DEF after
<1>4. Accumulator(start)
    BY NoneSelected, ZenonT(30) DEF start
<1> DEFINE D == {i \in 0 .. n : ~Accumulator(after[i])}
<1>5. ASSUME D # {} PROVE FALSE
    <2>1. PICK i \in D : \A j \in D : i <= j
        BY <1>1, <1>5, Least, D \in SUBSET Nat, ZenonT(30)
    <2>2. i # 0
        BY <1>1, <1>3, <1>4
    <2>3. i \in 1 .. n /\ i - 1 \in 0 .. n /\ i - 1 \notin D
        BY <1>1, <2>1, <2>2
    <2>4. after[i] = Verify(after[i - 1], order[i])
        BY <1>3, <2>2, <2>3, ZenonT(30)
    <2> QED BY <1>1, <2>1, <2>3, <2>4, VerifyKeeps, ZenonT(30)
<1>6. Accumulator(after[n])
    BY <1>1, <1>5, SMTT(30)
<1>7. Accepts(after[n].txs)
    BY <1>6, PassesAccepted, ZenonT(30) DEF Accumulator
<1>8. Selected(order) = after[n]
    BY ZenonT(30) DEF Selected, after, F, start, n
<1> QED BY <1>7, <1>8

\* Every step keeps what the handlers rely on.
LEMMA NextHandlers ==
    ASSUME HandlersInv, [Next]_vars
    PROVE  HandlersInv'
<1>1. version' \in Nat /\ initialHeight' \in Nat
    <2>1. Height \in Nat
        BY DEF HandlersInv, Height
    <2>2. version' \in {version, Height} /\ initialHeight' \in {initialHeight, InitialHeight, 0}
        BY ZenonT(60)
        DEF Next, vars, stable, InitChain, CheckRefused, CheckTx, ReCheckTx, Simulate,
            PrepareProposal, ProcessProposal, BeginBlock, DeliverTx, Skipped, NoBlockGas, Malformed,
            AnteFails, MsgsFail, PastBlockGas, Succeeds, Result, WorkingHash, Commit, Crash
    <2> QED BY <2>1, <2>2, BaseAppAssumption DEF HandlersInv
<1>2. IsFiniteSet(pool)' /\ pool' \subseteq {t \in Txs : t.wellFormed}
    <2>1. CASE \E tx \in Txs : CheckTx(tx)
        <3>1. PICK tx \in Txs : CheckTx(tx)
            BY <2>1
        <3>2. pool' \subseteq pool \cup {tx} /\ tx.wellFormed
            BY <3>1, ZenonT(30) DEF CheckTx, Insert, RemoveTx
        <3>3. IsFiniteSet(pool \cup {tx})
            BY FS_AddElement DEF HandlersInv
        <3> QED BY <3>2, <3>3, FS_Subset, ZenonT(30) DEF HandlersInv
    <2>2. CASE ~\E tx \in Txs : CheckTx(tx)
        <3>1. pool' \subseteq pool
            BY <2>2, ZenonT(60)
            DEF Next, vars, stable, InitChain, CheckRefused, ReCheckTx, Simulate,
                PrepareProposal, ProcessProposal, BeginBlock, DeliverTx, Skipped, NoBlockGas, Malformed,
                AnteFails, MsgsFail, PastBlockGas, Succeeds, Result, WorkingHash, Commit, Crash, RemoveTx
        <3> QED BY <3>1, FS_Subset DEF HandlersInv
    <2> QED BY <2>1, <2>2
<1>3. (phase = "init" => proposal = Nil)' /\ OwnProposalAccepted'
    <2>1. CASE InitChain \/ WorkingHash \/ Commit \/ Crash
        BY <2>1, ZenonT(30) DEF HandlersInv, OwnProposalAccepted, InitChain, WorkingHash,
           Commit, Crash
    <2>2. CASE \E tx \in Txs : DeliverTx(tx)
        <3>1. phase' = "executing"
            BY <2>2, ZenonT(30) DEF DeliverTx, Skipped, NoBlockGas, Malformed, AnteFails,
               AnteTakes, MsgsFail,
                        PastBlockGas, Succeeds, Running, Result
        <3> QED BY <3>1, SMTT(30) DEF OwnProposalAccepted
    <2>3. CASE \E txs \in Blocks : BeginBlock(txs)
        BY <2>3, ZenonT(30) DEF OwnProposalAccepted, BeginBlock
    <2>4. ASSUME ProposalState' = ProposalState, UNCHANGED <<phase, proposal>>
          PROVE  (phase = "init" => proposal = Nil)' /\ OwnProposalAccepted'
        <3>1. Accepts(proposal)' <=> Accepts(proposal)
            BY <2>4 DEF Accepts
        <3> QED BY <2>4, <3>1 DEF HandlersInv, OwnProposalAccepted
    <2>5. CASE \/ UNCHANGED vars
               \/ \E tx \in Txs : CheckRefused(tx) \/ CheckTx(tx) \/ ReCheckTx(tx) \/ Simulate(tx)
        <3>1. UNCHANGED <<phase, proposal, version, initialHeight, cms, finalize>>
            BY <2>5, ZenonT(30) DEF vars, stable, CheckRefused, CheckTx, ReCheckTx, Simulate
        <3>2. ProposalState' = ProposalState
            BY <3>1, ZenonT(30) DEF ProposalState, Height, View
        <3> QED BY <2>4, <3>1, <3>2
    <2>6. CASE \E txs \in Blocks : ProcessProposal(txs)
        <3>1. /\ UNCHANGED <<phase, proposal, version, initialHeight, cms>>
              /\ Height <= initialHeight => finalize' = finalize
            BY <2>6, ZenonT(30) DEF ProcessProposal, stable
        <3>2. Height \in Nat /\ initialHeight \in Nat
            BY DEF HandlersInv, Height
        <3>3. Height' = Height
            BY <3>1 DEF Height
        <3>4. Height = initialHeight => finalize' = finalize
            BY <3>1, <3>2
        <3>5. ProposalState' = ProposalState
            BY <3>1, <3>3, <3>4, ZenonT(30) DEF ProposalState, View
        <3> QED BY <2>4, <3>1, <3>5
    <2>7. CASE PrepareProposal
        <3>1. PICK order \in Orders : proposal' = Selected(order).txs
            BY <2>7, ZenonT(30) DEF PrepareProposal
        <3>2. Accepts(proposal')
            BY <3>1, SelectedPasses, SMTT(30)
        <3>3. phase' = "ready" /\ UNCHANGED <<version, initialHeight, cms, finalize>>
            BY <2>7, ZenonT(30) DEF PrepareProposal, stable
        <3>4. ProposalState' = ProposalState
            BY <3>3, ZenonT(30) DEF ProposalState, Height, View
        <3>5. Accepts(proposal)'
            BY <3>2, <3>4 DEF Accepts
        <3> QED BY <3>3, <3>5, SMTT(30) DEF OwnProposalAccepted
    <2> QED BY <2>1, <2>2, <2>3, <2>5, <2>6, <2>7, ZenonT(30) DEF Next
<1> QED BY <1>1, <1>2, <1>3 DEF HandlersInv

\* ProcessProposal accepts what PrepareProposal returned for the height, whatever
\* the mempool yields and whatever checks, simulations and proposals of others
\* come between, also when the ProcessProposal handler writes to finalizeBlockState.
THEOREM OwnProposalPasses == Spec => []OwnProposalAccepted
<1>1. Init => HandlersInv
    BY FS_EmptySet DEF Init, HandlersInv, OwnProposalAccepted
<1>2. HandlersInv /\ [Next]_vars => HandlersInv'
    BY NextHandlers
<1>3. HandlersInv => OwnProposalAccepted
    BY DEF HandlersInv
<1> QED BY <1>1, <1>2, <1>3, PTL DEF Spec
=============================================================================
