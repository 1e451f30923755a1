------------------------------ MODULE BaseApp ------------------------------
(***************************************************************************)
(* The ABCI application (baseapp): one node's calls from CometBFT, the     *)
(* branches of the multistore they work on, the application-side mempool,  *)
(* and crashes.  CometBFT's local client takes one lock around every call, *)
(* so calls do not overlap; Simulate comes from the gRPC server and takes  *)
(* no lock.                                                                *)
(*                                                                         *)
(* BeginBlock, EndBlock and the post handler are the application's and are *)
(* not given an effect.                                                    *)
(***************************************************************************)
EXTENDS TxModel, Sequences, FiniteSets

CONSTANTS
    Uncached,         \* a branch holds no entry for the account
    Nil,              \* no branch, no block, no proposal
    InitialHeight,    \* of the genesis file
    MaxHeight,        \* bound: the last height that is decided
    MaxBlockTxs,      \* bound: transactions in a block (MaxTxBytes)
    MaxTx,            \* capacity of the mempool; 0: none
    MaxCrashes,       \* bound
    ProposalWrites    \* the ProcessProposal handler writes to finalizeBlockState

ASSUME BaseAppAssumption ==
    /\ InitialHeight \in Nat \ {0} /\ MaxBlockTxs \in Nat
    /\ MaxHeight \in Nat /\ MaxTx \in Nat /\ MaxCrashes \in Nat
    /\ ProposalWrites \in BOOLEAN
    /\ Uncached \notin Account \cup {NoAccount}

VARIABLES
    version, disk,    \* the last committed version, and what it holds
    block,            \* the block decided for the next height, or Nil
    phase,            \* "init", "ready", "executing" or "finalized"
    cms,              \* the multistore's working state
    check,            \* checkState's branch of cms
    finalize,         \* finalizeBlockState's branch of cms, or Nil
    initialHeight,    \* app.initialHeight; 0 until InitChain
    pool,             \* the application-side mempool
    gas, results,     \* block gas consumed, and the results so far
    proposal,         \* what PrepareProposal returned for the next height, or Nil
    replies,          \* the responses FinalizeBlock gave for the next height
    crashes

stable == <<version, disk, block, replies>>
vars == <<version, disk, block, phase, cms, check, finalize, initialHeight,
          pool, gas, results, proposal, replies, crashes>>

Entry == Account \cup {NoAccount, Uncached}
Branch == [cache : [Accounts -> Entry], dirty : SUBSET Accounts]
Blocks == UNION {[1 .. n -> Txs] : n \in 0 .. MaxBlockTxs}

\* Nil is told apart from what it stands beside.
ASSUME NilAssumption == Nil \notin Branch \cup Store \cup Blocks

Codes == {"skipped", "no block gas", "malformed", "ante", "msgs", "past block gas", "ok"}

-----------------------------------------------------------------------------
(* A branch: what it reads is kept, what it writes is kept as dirty.       *)

Fresh == [cache |-> [a \in Accounts |-> Uncached], dirty |-> {}]

View(b) ==
    [a \in Accounts |-> IF b.cache[a] = Uncached THEN cms[a] ELSE b.cache[a]]

\* The accounts of S have been read through b.
Read(b, S) ==
    [b EXCEPT !.cache = [a \in Accounts |-> IF a \in S THEN View(b)[a] ELSE b.cache[a]]]

\* The branch of b that turned its view into s is written.
Changed(b, s) == {a \in Accounts : s[a] # View(b)[a]}
Put(b, s) ==
    [cache |-> [a \in Accounts |-> IF a \in Changed(b, s) THEN s[a] ELSE b.cache[a]],
     dirty |-> b.dirty \cup Changed(b, s)]

\* cms after b is written to it.
Written(b) == [a \in Accounts |-> IF a \in b.dirty THEN b.cache[a] ELSE cms[a]]

-----------------------------------------------------------------------------
(* The mempool holds one transaction for each sender and sequence.         *)

SameKey(t, u) == t.from = u.from /\ t.seq = u.seq
RemoveTx(p, tx) == {t \in p : ~SameKey(t, tx)}
Full == MaxTx > 0 /\ Cardinality(pool) >= MaxTx
Insert(tx) == IF Full THEN pool ELSE RemoveTx(pool, tx) \cup {tx}

\* The orders in which Select can yield the mempool: by sequence for each
\* sender, the senders in any order.
Orders ==
    {o \in [1 .. Cardinality(pool) -> pool] :
        \A i, j \in DOMAIN o :
            i < j => o[i] # o[j] /\ (o[i].from = o[j].from => o[i].seq < o[j].seq)}

-----------------------------------------------------------------------------
Init ==
    /\ version = 0 /\ disk = [a \in Accounts |-> NoAccount] /\ block = Nil
    /\ phase = "init" /\ cms = disk /\ check = Fresh /\ finalize = Nil
    /\ initialHeight = 0 /\ pool = {} /\ gas = 0 /\ results = <<>>
    /\ proposal = Nil /\ replies = {} /\ crashes = 0

\* validateFinalizeBlockHeight: the one height a block may have.
Height ==
    IF version = 0 /\ initialHeight > 1 THEN initialHeight ELSE version + 1

\* InitChain leaves genesis in finalizeBlockState, uncommitted; checkState is
\* branched before and does not see it.
InitChain ==
    /\ phase = "init"
    /\ phase' = "ready" /\ initialHeight' = InitialHeight
    /\ check' = Fresh /\ finalize' = Put(Fresh, Genesis)
    /\ UNCHANGED <<stable, cms, pool, gas, results, proposal, crashes>>

-----------------------------------------------------------------------------
(* runTx in the check modes.  Between FinalizeBlock and Commit checkState  *)
(* reads what FinalizeBlock wrote to cms wherever it holds no entry.       *)

CheckRefused(tx) ==
    /\ phase \in {"ready", "finalized"}
    /\ tx.wellFormed /\ ~AnteAccepts(View(check), tx)
    /\ check' = Read(check, {tx.from})
    /\ UNCHANGED <<stable, phase, cms, finalize, initialHeight, pool, gas,
                   results, proposal, crashes>>

\* A mempool that is full refuses the transaction after the ante handler's
\* writes.
CheckTx(tx) ==
    /\ phase \in {"ready", "finalized"}
    /\ tx.wellFormed /\ AnteAccepts(View(check), tx)
    /\ check' = Put(check, Ante(View(check), tx))
    /\ pool' = Insert(tx)
    /\ UNCHANGED <<stable, phase, cms, finalize, initialHeight, gas,
                   results, proposal, crashes>>

ReCheckTx(tx) ==
    /\ phase = "ready"
    /\ tx.wellFormed /\ AnteAccepts(View(check), tx)
    /\ check' = Put(check, Ante(View(check), tx))
    /\ UNCHANGED <<stable, phase, cms, finalize, initialHeight, pool, gas,
                   results, proposal, crashes>>

\* Simulate runs the messages too, on a branch of checkState it drops: what
\* remains is what was read.
Simulate(tx) ==
    /\ phase # "init" /\ tx.wellFormed
    /\ check' = Read(check, IF AnteAccepts(View(check), tx)
                            THEN {tx.from} \cup tx.msgs
                            ELSE {tx.from})
    /\ UNCHANGED <<stable, phase, cms, finalize, initialHeight, pool, gas,
                   results, proposal, crashes>>

-----------------------------------------------------------------------------
(* Proposals.  Their branches live for one call.                           *)

\* getContextForProposal: the first block's proposals see genesis.
ProposalState == IF Height = initialHeight THEN View(finalize) ELSE cms

\* Mutant: what CheckTx took is not verified again.
VerifyTrusting(acc, tx) ==
    IF acc.full THEN acc
    ELSE IF Len(acc.txs) = MaxBlockTxs THEN [acc EXCEPT !.full = TRUE]
    ELSE [acc EXCEPT !.txs = Append(@, tx)]

\* PrepareProposalHandler for the next transaction of the mempool.
Verify(acc, tx) ==
    IF acc.full THEN acc
    ELSE IF ~AnteAccepts(acc.store, tx) THEN [acc EXCEPT !.removed = @ \cup {tx}]
    ELSE IF Len(acc.txs) = MaxBlockTxs THEN [acc EXCEPT !.full = TRUE]
    ELSE [acc EXCEPT !.store = Ante(@, tx), !.txs = Append(@, tx)]

Selected(order) ==
    LET after[i \in 0 .. Len(order)] ==
            IF i = 0
            THEN [store |-> ProposalState, txs |-> <<>>, removed |-> {}, full |-> FALSE]
            ELSE Verify(after[i - 1], order[i])
    IN  after[Len(order)]

PrepareProposal ==
    /\ phase = "ready" /\ block = Nil /\ Height <= MaxHeight
    /\ \E order \in Orders :
          /\ proposal' = Selected(order).txs
          /\ pool' = pool \ Selected(order).removed
    /\ UNCHANGED <<stable, phase, cms, check, finalize, initialHeight, gas,
                   results, crashes>>

\* ProcessProposalHandler's verdict.
Accepts(txs) ==
    LET Step(acc, tx) ==
            [ok |-> acc.ok /\ tx.wellFormed /\ AnteAccepts(acc.store, tx),
             store |-> IF AnteAccepts(acc.store, tx) THEN Ante(acc.store, tx) ELSE acc.store]
        after[i \in 0 .. Len(txs)] ==
            IF i = 0 THEN [ok |-> TRUE, store |-> ProposalState]
            ELSE Step(after[i - 1], txs[i])
    IN  after[Len(txs)].ok

\* What an application that uses GetFinalizeBlockStateCtx writes for a proposal.
Derived(s, txs) ==
    IF ProposalWrites /\ txs # <<>>
    THEN Credit(s, [Head(txs) EXCEPT !.msgs = {Head(txs).from}]) ELSE s

ProcessProposal(txs) ==
    /\ phase = "ready" /\ Height <= MaxHeight
    /\ finalize' = IF Height <= initialHeight THEN finalize
                   ELSE IF ProposalWrites /\ Accepts(txs) THEN Put(Fresh, Derived(cms, txs))
                   ELSE Fresh
    /\ UNCHANGED <<stable, phase, cms, check, initialHeight, pool, gas,
                   results, proposal, crashes>>

-----------------------------------------------------------------------------
(* FinalizeBlock, one step for each transaction, and Commit.               *)

\* Mutant: a block is not executed a second time.
BeginBlockOnce(txs) ==
    /\ phase = "ready" /\ Height <= MaxHeight
    /\ block = Nil
    /\ phase' = "executing" /\ block' = txs
    /\ finalize' = IF finalize = Nil THEN Fresh ELSE finalize
    /\ gas' = 0 /\ results' = <<>>
    /\ UNCHANGED <<version, disk, cms, check, initialHeight, pool, proposal,
                   replies, crashes>>

\* A block that was decided before a crash is the one that is replayed.
BeginBlock(txs) ==
    /\ phase = "ready" /\ Height <= MaxHeight
    /\ block \in {Nil, txs}
    /\ phase' = "executing" /\ block' = txs
    /\ finalize' = IF finalize = Nil THEN Fresh ELSE finalize
    /\ gas' = 0 /\ results' = <<>>
    /\ UNCHANGED <<version, disk, cms, check, initialHeight, pool, proposal,
                   replies, crashes>>

\* runTx in the finalize mode ends with the code and the gas its result holds,
\* and has turned finalizeBlockState into f and the mempool into p.
Result(code, used, f, p) ==
    /\ results' = Append(results, [code |-> code, gas |-> used])
    /\ gas' = gas + used
    /\ finalize' = f /\ pool' = p
    /\ UNCHANGED <<stable, phase, cms, check, initialHeight, proposal, crashes>>

TxResults(rs) == SelectSeq(rs, LAMBDA r : r.code # "skipped")

Running(tx) ==
    /\ phase = "executing" /\ Len(results) < Len(block)
    /\ tx = block[Len(results) + 1]

\* Bytes that do not decode get no result.
Skipped(tx) ==
    /\ Running(tx) /\ ~tx.decodes
    /\ Result("skipped", 0, finalize, pool)

NoBlockGas(tx) ==
    /\ Running(tx) /\ tx.decodes /\ IsOutOfGas(gas)
    /\ Result("no block gas", 0, finalize, pool)

\* The block is charged what its own context has consumed: the transaction has
\* no meter yet.
Malformed(tx) ==
    /\ Running(tx) /\ tx.decodes /\ ~tx.wellFormed /\ ~IsOutOfGas(gas)
    /\ Result("malformed", CtxGas, finalize, pool)

\* The transaction stays in the mempool.
AnteFails(tx) ==
    /\ Running(tx) /\ tx.wellFormed /\ ~IsOutOfGas(gas)
    /\ ~AnteAccepts(View(finalize), tx)
    /\ Result("ante", AnteUsed(tx), Read(finalize, {tx.from}), pool)

AnteTakes(tx) ==
    /\ Running(tx) /\ tx.wellFormed /\ ~IsOutOfGas(gas)
    /\ AnteAccepts(View(finalize), tx)

\* Mutant: the messages' branch is written whatever they return.
MsgsFailKeeps(tx) ==
    /\ AnteTakes(tx) /\ ~MsgsSucceed(tx)
    /\ Result("msgs", Used(tx), Put(finalize, Credit(Ante(View(finalize), tx), tx)),
              RemoveTx(pool, tx))

MsgsFail(tx) ==
    /\ AnteTakes(tx) /\ ~MsgsSucceed(tx)
    /\ Result("msgs", Used(tx), Put(finalize, Ante(View(finalize), tx)), RemoveTx(pool, tx))

\* consumeBlockGas panics before the messages' branch is written.
PastBlockGas(tx) ==
    /\ AnteTakes(tx) /\ MsgsSucceed(tx) /\ IsPastLimit(gas + Used(tx))
    /\ Result("past block gas", Used(tx), Put(finalize, Ante(View(finalize), tx)),
              RemoveTx(pool, tx))

Succeeds(tx) ==
    /\ AnteTakes(tx) /\ MsgsSucceed(tx) /\ ~IsPastLimit(gas + Used(tx))
    /\ Result("ok", Used(tx), Put(finalize, Credit(Ante(View(finalize), tx), tx)),
              RemoveTx(pool, tx))

\* Mutant: the working hash is taken by committing.
WorkingHashFlushes ==
    /\ phase = "executing" /\ Len(results) = Len(block)
    /\ phase' = "finalized"
    /\ cms' = Written(finalize) /\ finalize' = Fresh /\ disk' = cms'
    /\ replies' = replies \cup {<<cms', TxResults(results)>>}
    /\ UNCHANGED <<version, block, check, initialHeight, pool, gas,
                   results, proposal, crashes>>

\* The end of FinalizeBlock: workingHash writes finalizeBlockState to cms.
WorkingHash ==
    /\ phase = "executing" /\ Len(results) = Len(block)
    /\ phase' = "finalized"
    /\ cms' = Written(finalize) /\ finalize' = Fresh
    /\ replies' = replies \cup {<<cms', TxResults(results)>>}
    /\ UNCHANGED <<version, disk, block, check, initialHeight, pool, gas,
                   results, proposal, crashes>>

\* Mutant: checkState is kept.
CommitKeepsCheck ==
    /\ phase = "finalized"
    /\ phase' = "ready"
    /\ version' = Height /\ disk' = cms /\ block' = Nil
    /\ finalize' = Nil
    /\ gas' = 0 /\ results' = <<>> /\ proposal' = Nil /\ replies' = {}
    /\ UNCHANGED <<cms, check, initialHeight, pool, crashes>>

Commit ==
    /\ phase = "finalized"
    /\ phase' = "ready"
    /\ version' = Height /\ disk' = cms /\ block' = Nil
    /\ check' = Fresh /\ finalize' = Nil
    /\ gas' = 0 /\ results' = <<>> /\ proposal' = Nil /\ replies' = {}
    /\ UNCHANGED <<cms, initialHeight, pool, crashes>>

\* The process dies and starts again; CometBFT calls InitChain when nothing was
\* committed.
Crash ==
    /\ crashes < MaxCrashes
    /\ crashes' = crashes + 1
    /\ phase' = IF version = 0 THEN "init" ELSE "ready"
    /\ cms' = disk /\ check' = Fresh /\ finalize' = Nil
    /\ initialHeight' = 0 /\ pool' = {} /\ gas' = 0 /\ results' = <<>>
    /\ proposal' = Nil
    /\ UNCHANGED stable

DeliverTx(tx) ==
    Skipped(tx) \/ NoBlockGas(tx) \/ Malformed(tx) \/ AnteFails(tx)
        \/ MsgsFail(tx) \/ PastBlockGas(tx) \/ Succeeds(tx)

Next ==
    \/ InitChain
    \/ \E tx \in Txs : CheckRefused(tx) \/ CheckTx(tx) \/ ReCheckTx(tx) \/ Simulate(tx)
    \/ PrepareProposal
    \/ \E txs \in Blocks : ProcessProposal(txs) \/ BeginBlock(txs)
    \/ \E tx \in Txs : DeliverTx(tx)
    \/ WorkingHash \/ Commit \/ Crash

Spec == Init /\ [][Next]_vars

\* CometBFT has a decided block executed and committed, and replays it after a
\* restart; nothing obliges it to propose or check anything.
Fairness ==
    /\ WF_vars(InitChain) /\ WF_vars(WorkingHash) /\ WF_vars(Commit)
    /\ WF_vars(block # Nil /\ \E txs \in Blocks : BeginBlock(txs))
    /\ WF_vars(\E tx \in Txs : DeliverTx(tx))

FairSpec == Spec /\ Fairness

-----------------------------------------------------------------------------
\* The shape of the node's state.
TypeOK ==
    /\ version \in 0 .. MaxHeight /\ disk \in Store /\ cms \in Store
    /\ block \in Blocks \cup {Nil} /\ proposal \in Blocks \cup {Nil}
    /\ phase \in {"init", "ready", "executing", "finalized"}
    /\ check \in Branch /\ finalize \in Branch \cup {Nil}
    /\ initialHeight \in {0, InitialHeight} /\ pool \subseteq Txs
    /\ gas \in Nat
    /\ \A i \in DOMAIN results : results[i].code \in Codes /\ results[i].gas \in Nat
    /\ crashes \in 0 .. MaxCrashes

\* The blocks CometBFT decides are executed as the ledger says, whatever
\* checks, simulations, proposals of other rounds and crashes come between
\* (FinalizeBlock, Commit): none of their branches leaks into the block's, and a
\* crash leaves nothing of a block behind.
L == INSTANCE Ledger WITH
        Idle <- Nil,
        height <- version,
        state <- IF version = 0 THEN Genesis ELSE disk,
        work <- IF phase = "executing" THEN View(finalize)
                ELSE IF phase = "finalized" THEN cms ELSE Nil,
        gas <- gas
LedgerRefined == L!Spec

\* A block that is executed again after a crash gets the same response (the
\* application hash and the results FinalizeBlock returns).
RepliesAgree == \A r, q \in replies : r = q

\* checkState is a branch of the last committed block (Commit resets it): when
\* no block is in flight, what it read is what was committed, and an account it
\* wrote is only ahead by what CheckTx took.
CheckFollowsCommit ==
    phase = "ready" =>
        /\ cms = disk
        /\ \A a \in Accounts :
              IF a \in check.dirty
              THEN check.cache[a].seq > cms[a].seq /\ check.cache[a].recv = cms[a].recv
              ELSE check.cache[a] \in {Uncached, cms[a]}

\* A node accepts what PrepareProposal returned for this height, whatever it did
\* since, until a block is decided (PrepareProposalHandler: "It is very important
\* that the same validation logic is used in both steps").
OwnProposalAccepted == phase = "ready" /\ proposal # Nil => Accepts(proposal)

\* A block that was decided is committed, also when the node crashes in between.
DecidedIsCommitted == block # Nil ~> block = Nil

-----------------------------------------------------------------------------
(* What the documentation says and the code does not do.                   *)

\* adr-064: "since ProcessProposal can timeout and thus require another round of
\* consensus, we will reset finalizeState in the beginning of ProcessProposal":
\* a block starts from the committed state and from what was derived from itself.
StartsFromOwnProposal ==
    phase = "executing" /\ results = <<>> /\ version > 0 =>
        View(finalize) \in {disk, Derived(disk, block)}
=============================================================================
