----------------------------- MODULE MCAnconRPC -----------------------------
(***************************************************************************)
(* Instances of AnconRPC for TLC.                                          *)
(*  - gas: 200000, the order of a MsgSetWithdrawAddress estimate;          *)
(*  - prices: 10 (2 digits), 1000 (4 digits), 100000 (gas * price passes  *)
(*    2^32), 0 (dropped as unset on the next start) and 2^47, for which   *)
(*    gas * price passes 2^64;                                             *)
(*  - SetGasPrice arguments of different decimal lengths, so that two      *)
(*    writes of the config file can leave a tail behind.                   *)
(***************************************************************************)
EXTENDS AnconRPC

MCGas == {BitsOf(200000)}
MCEtherbases == {"e1", "e2"}
MCPriceWrap == {47}
MCGasPricesRace == {BitsOf(10), BitsOf(1000)}
MCInitPrice == BitsOf(1000)
MCInitPriceMid == BitsOf(100000)
MCGasPricesAll == {BitsOf(10), {}, MCPriceWrap}
=============================================================================
