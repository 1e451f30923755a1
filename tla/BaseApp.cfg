SPECIFICATION FairSpec
CONSTANTS
  a = a
  b = b
  Accounts = {a, b}
  NoAccount = NoAccount
  Uncached = Uncached
  Nil = Nil
  Txs <- MCTxs
  AnteGas = 1
  CtxGas = 1
  MaxGas = 2
  InitialHeight = 2
  MaxHeight = 3
  MaxBlockTxs = 2
  MaxTx = 2
  MaxCrashes = 1
  ProposalWrites = FALSE
INVARIANTS RepliesAgree CheckFollowsCommit OwnProposalAccepted 
PROPERTIES LedgerRefined DecidedIsCommitted
CHECK_DEADLOCK FALSE
