SPECIFICATION Spec
CONSTANTS
  a = a
  b = b
  Accounts = {a, b}
  NoAccount = NoAccount
  Uncached = Uncached
  Nil = Nil
  Txs <- MCTxs
  AnteGas = 1
  CtxGas = 1
  MaxGas = 2
  InitialHeight = 2
  MaxHeight = 3
  MaxBlockTxs = 2
  MaxTx = 2
  MaxCrashes = 1
  ProposalWrites = TRUE
INVARIANTS StartsFromOwnProposal
CHECK_DEADLOCK FALSE
