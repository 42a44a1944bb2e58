\* As MCEvmFees.cfg: a proposer includes the low-gas transaction.
CONSTANTS
  Txs <- MCTxs
  ForeignTxs <- MCForeign
  InitBalance = 100000
  HasAccount = TRUE
  Homestead = TRUE
  Istanbul = TRUE
  MaxMempool = 3
  MaxBlocks = 3

SPECIFICATION Spec

\* The run ends after MaxBlocks blocks with a full mempool.
CHECK_DEADLOCK FALSE

INVARIANT ChargedOnlyIfIntrinsicCovered
