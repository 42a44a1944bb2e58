\* Two concurrent SetGasPrice calls, then a clean restart.
CONSTANTS
  Callers = {c1, c2}
  Etherbases <- MCEtherbases
  GasPrices <- MCGasPricesRace
  GasEstimates <- MCGas
  InitPrice <- MCInitPrice
  NoPrice = NoPrice
  MaxCalls = 1
  MaxRestarts = 1
  CleanRestartOnly = TRUE
  TxBuilderIsExt = TRUE
  BaseDenomRegistered = TRUE

SPECIFICATION Spec

\* The node idles once every request has been served, or stops on a config
\* file it cannot parse.
CHECK_DEADLOCK FALSE

PROPERTY AckedGasPriceDurable
