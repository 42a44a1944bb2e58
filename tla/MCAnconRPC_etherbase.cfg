\* Two concurrent requests each and a restart at any point. The node starts
\* with 100000, for which gas * price passes 2^32; SetGasPrice may write a
\* lower price (10), the zero price, or 2^47, for which it passes 2^64.
CONSTANTS
  Callers = {c1, c2}
  Etherbases <- MCEtherbases
  GasPrices <- MCGasPricesAll
  GasEstimates <- MCGas
  InitPrice <- MCInitPriceMid
  NoPrice = NoPrice
  MaxCalls = 2
  MaxRestarts = 1
  CleanRestartOnly = FALSE
  TxBuilderIsExt = TRUE
  BaseDenomRegistered = TRUE

SPECIFICATION Spec

\* The node idles once every request has been served and delivered, or stops
\* on a config file it cannot parse.
CHECK_DEADLOCK FALSE

INVARIANT TypeOK
PROPERTY AckedTxApplied
