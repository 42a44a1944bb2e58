------------------------------ MODULE EvmFees ------------------------------
(***************************************************************************)
(* The EVM keeper's fee helpers (src/x/evm/keeper/utils.go):               *)
(*   CheckSenderBalance            balance >= cost = fee + value;          *)
(*   DeductTxCostsFromUserBalance  the intrinsic gas check (CheckTx only)  *)
(*                                 and the deduction of gas limit * price. *)
(* Their caller, ethermint's ante chain, is not in this repository; the    *)
(* model runs them in its order for the transactions of one sender: in    *)
(* CheckTx against the CheckTx state, which only the ante handler changes *)
(* (messages are not run in CheckTx), and in DeliverTx, where the EVM then *)
(* runs the message: a gas limit below intrinsic gas fails it, and the     *)
(* value moves only if the balance covers it.  A block holds the mempool  *)
(* in order and possibly one transaction the proposer took from elsewhere.*)
(***************************************************************************)
EXTENDS Naturals, Integers, Sequences, SequencesExt, FiniteSets

CONSTANTS Txs,            \* transactions the sender may submit
          ForeignTxs,     \* transactions a proposer may include unchecked
          InitBalance,    \* the sender's balance at the start
          HasAccount,     \* the sender has an account (GetSignerAcc succeeds)
          Homestead, Istanbul,
          MaxMempool, MaxBlocks

VARIABLES balance,       \* the sender's balance in the committed state
          checkBalance,  \* ... in the CheckTx state
          mempool,       \* transactions CheckTx admitted, in order
          charges,       \* [tx, afterFee] of every fee deducted in the last block
          blocks
vars == <<balance, checkBalance, mempool, charges, blocks>>

(***************************************************************************)
(* The environment: go-ethereum's IntrinsicGas and the TxData amounts.     *)
(***************************************************************************)
IntrinsicGas(tx) ==
  (IF tx.create /\ Homestead THEN 53000 ELSE 21000)
  + tx.nonZero * (IF Istanbul THEN 16 ELSE 68) + tx.zero * 4
Fee(tx) == tx.gas * tx.price
Cost(tx) == Fee(tx) + tx.value

(***************************************************************************)
(* The code.                                                               *)
(***************************************************************************)
CheckSenderBalanceFeeOnly(bal, tx) ==
  CASE Fee(tx) < 0 -> "ErrInvalidCoins"
    [] bal < 0 \/ bal < Fee(tx) -> "ErrInsufficientFunds"
    [] OTHER -> "none"

CheckSenderBalance(bal, tx) ==
  CASE Cost(tx) < 0 -> "ErrInvalidCoins"
    [] bal < 0 \/ bal < Cost(tx) -> "ErrInsufficientFunds"
    [] OTHER -> "none"

(* The signer account, the intrinsic gas (checked in CheckTx only), and   *)
(* DeductFees of gas limit * price, which fails on insufficient funds.     *)
DeductTxCostsFromUserBalance(bal, tx, isCheckTx) ==
  CASE ~HasAccount -> [err |-> "account not found", bal |-> bal]
    [] isCheckTx /\ tx.gas < IntrinsicGas(tx) -> [err |-> "ErrOutOfGas", bal |-> bal]
    [] bal < Fee(tx) -> [err |-> "ErrInsufficientFunds", bal |-> bal]
    [] OTHER -> [err |-> "none", bal |-> bal - Fee(tx)]

(* The ante handler's part: the balance check, then the deduction.        *)
Ante(bal, tx, isCheckTx) ==
  IF CheckSenderBalance(bal, tx) # "none"
  THEN [err |-> CheckSenderBalance(bal, tx), bal |-> bal]
  ELSE DeductTxCostsFromUserBalance(bal, tx, isCheckTx)

(* DeliverTx: the ante handler, then the EVM run of the message.          *)
DeliverTx(st, tx) ==
  LET a == Ante(st.bal, tx, FALSE)
      runs == tx.gas >= IntrinsicGas(tx) /\ tx.value <= a.bal
  IN IF a.err # "none" THEN st
     ELSE [bal |-> IF runs THEN a.bal - tx.value ELSE a.bal,
           charges |-> st.charges \cup {[tx |-> tx, afterFee |-> a.bal]}]

CheckTx ==
  /\ Len(mempool) < MaxMempool
  /\ \E tx \in Txs :
       LET a == Ante(checkBalance, tx, TRUE)
       IN /\ a.err = "none"
          /\ mempool' = Append(mempool, tx)
          /\ checkBalance' = a.bal
  /\ UNCHANGED <<balance, charges, blocks>>

Block ==
  /\ blocks < MaxBlocks
  /\ \E extra \in {<<>>} \cup {<<f>> : f \in ForeignTxs} :
       LET st == FoldLeft(DeliverTx, [bal |-> balance, charges |-> {}],
                          mempool \o extra)
       IN /\ balance' = st.bal
          /\ charges' = st.charges
          /\ checkBalance' = st.bal
  /\ mempool' = <<>>
  /\ blocks' = blocks + 1

Init ==
  /\ balance = InitBalance /\ checkBalance = InitBalance
  /\ mempool = <<>> /\ charges = {} /\ blocks = 0

Next == CheckTx \/ Block

Spec == Init /\ [][Next]_vars

(***************************************************************************)
(* Properties.                                                             *)
(***************************************************************************)
(* A transaction whose fee is deducted in DeliverTx can also pay its      *)
(* value: CheckSenderBalance checks fee + value against the balance the    *)
(* deduction then uses, even after the earlier transactions of the block   *)
(* moved value that the CheckTx state never saw.                           *)
ChargedTxCanPay == \A ch \in charges : ch.afterFee >= ch.tx.value

(* A transaction is charged only if its gas limit covers its intrinsic    *)
(* gas, as go-ethereum requires of every transaction in a block.          *)
ChargedOnlyIfIntrinsicCovered ==
  \A ch \in charges : ch.tx.gas >= IntrinsicGas(ch.tx)

=============================================================================
