\* Three blocks, up to three transactions in the mempool, one foreign one.
CONSTANTS
  Txs <- MCTxs
  ForeignTxs <- MCForeign
  InitBalance = 100000
  HasAccount = TRUE
  Homestead = TRUE
  Istanbul = TRUE
  MaxMempool = 3
  MaxBlocks = 3

SPECIFICATION Spec

\* The run ends after MaxBlocks blocks with a full mempool.
CHECK_DEADLOCK FALSE

INVARIANT ChargedTxCanPay
