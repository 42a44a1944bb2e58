------------------------------ MODULE MCEvmFees ------------------------------
(***************************************************************************)
(* One sender with 100000 (price 1, so amounts are in gas units):          *)
(*  - a transfer with exactly the intrinsic gas 21000 and value 50000,     *)
(*  - a transfer of nothing with the intrinsic gas,                       *)
(*  - a contract creation with 16 non-zero data bytes,                     *)
(*  - a transaction with a gas limit of 20000, below intrinsic gas,        *)
(* so that two transfers fit the CheckTx state (fees only) but not the     *)
(* committed one (fees and values), and a creation's intrinsic gas         *)
(* depends on Homestead.                                                   *)
(***************************************************************************)
EXTENDS EvmFees

Tx(g, v, c, nz) == [gas |-> g, price |-> 1, value |-> v, create |-> c,
                    nonZero |-> nz, zero |-> 0]
MCTxs == {Tx(21000, 50000, FALSE, 0), Tx(21000, 0, FALSE, 0), Tx(60000, 0, TRUE, 16)}
MCForeign == {Tx(20000, 0, FALSE, 0)}
=============================================================================
