SPECIFICATION MCSpec
CONSTANTS
  Txs <- MCTxs
  MaxTx = 4
  MaxValue = 2
  Replacements <- MCReplacements
  Nil = Nil
INVARIANTS IndexesAgree CountsExact PriorityRespected
PROPERTIES RefinesPool SenderRefinesPool
