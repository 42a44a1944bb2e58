------------------------------ MODULE AnconRPC ------------------------------
(***************************************************************************)
(* The ancon_ JSON-RPC methods that change the node                        *)
(* (src/ethereum/rpc/namespaces/ancon/api.go):                             *)
(*   SetEtherbase  builds a MsgSetWithdrawAddress for the node's coinbase, *)
(*                 signs it with the pending nonce and a fee of            *)
(*                 gas * ceil(min gas price) computed in uint64, and       *)
(*                 broadcasts it in sync mode (CheckTx only);              *)
(*   SetGasPrice   rewrites the config file with a new min gas price.      *)
(* The RPC server runs every request in its own goroutine, so calls of     *)
(* several Callers interleave at the steps where they touch shared state.  *)
(*                                                                         *)
(* The environment, which is not in this repository, is modelled by what  *)
(* these methods rely on:                                                  *)
(*  - the node reads its config (viper) once at start: nodePrice is the    *)
(*    min gas price it runs with, and SetGasPrice changes only the file;   *)
(*  - the config file is written by os.WriteFile: open with O_TRUNC, then  *)
(*    one write of the whole rendering at offset 0.  Its state is the     *)
(*    price of the last write and the length of the file; a file longer    *)
(*    than the rendering of its price holds the tail of an older write    *)
(*    and does not parse;                                                  *)
(*  - the pending nonce of the backend is a value between the committed    *)
(*    sequence and the sequence of the node's CheckTx state (the backend  *)
(*    may or may not count Cosmos transactions still in the mempool);     *)
(*  - CheckTx accepts a transaction whose sequence is the CheckTx         *)
(*    sequence and whose fee is at least ceil(gas * node price) (computed *)
(*    exactly); a block delivers the mempool in order; the mempool is not *)
(*    persisted, so a restart loses it, and kills the calls in flight.    *)
(*                                                                         *)
(* Numbers (gas, prices, fees) are bit sets (see WordArith); a price of   *)
(* the empty set is the zero price.  A single fee denomination is used.   *)
(***************************************************************************)
EXTENDS ProtoWire, WordArith, FiniteSets

CONSTANTS Callers,         \* concurrent RPC request goroutines
          Etherbases,      \* etherbase arguments of SetEtherbase
          GasPrices,       \* gasPrice arguments of SetGasPrice (bit sets)
          GasEstimates,    \* gas values tx.CalculateGas may return
          InitPrice,       \* min gas price in the config at first start, or NoPrice
          NoPrice,         \* "min-gas-prices" empty
          MaxCalls,        \* requests per caller
          MaxRestarts,     \* node restarts
          CleanRestartOnly, \* restarts happen only with no request in flight
          TxBuilderIsExt,  \* TxConfig.NewTxBuilder is an ExtensionOptionsTxBuilder
          BaseDenomRegistered \* sdk.GetBaseDenom succeeds

VARIABLES pc,         \* step of each caller's current request
          local,      \* the request's argument and the values it computed
          calls,      \* requests each caller has made
          nodeUp,     \* the node is running
          nodePrice,  \* the min gas price the node read from its config at start
          file,       \* the config file: [price, len]
          seq,        \* the coinbase account's committed sequence
          checkSeq,   \* its sequence in the CheckTx state
          mempool,    \* transactions CheckTx accepted, in order
          withdraw,   \* the committed withdraw address of the coinbase
          acked,      \* <<nonce, etherbase>> of every SetEtherbase that returned true
          applied,    \* <<nonce, etherbase>> of every delivered transaction
          ackedPrice, \* the price of the last SetGasPrice that returned true
          dropped,    \* acked transactions a restart took out of the mempool
          restarts
vars == <<pc, local, calls, nodeUp, nodePrice, file, seq, checkSeq, mempool,
          withdraw, acked, applied, ackedPrice, dropped, restarts>>
nodeVars == <<nodeUp, nodePrice, seq, checkSeq, mempool, withdraw, applied,
              dropped, restarts>>

(***************************************************************************)
(* The environment.                                                        *)
(***************************************************************************)
\* The length of the file from the price field on (the rest is common).
FileLen(p) == IF p = NoPrice THEN 0 ELSE Digits(p) + 1
FileIntact == file.len = FileLen(file.price)
\* GetMinGasPrices: ParseDecCoins drops a zero coin.
StartPrice(p) == IF p = {} THEN NoPrice ELSE p
\* The mempool fee check: ceil(gas * price) in exact arithmetic.
RequiredFee(gas, price) == IF price = NoPrice THEN {} ELSE MulMod(gas, price, 128)
Deliver(st, tx) ==
  IF tx.nonce = st.seq
  THEN [seq |-> st.seq + 1, withdraw |-> tx.eb,
        applied |-> st.applied \cup {<<tx.nonce, tx.eb>>}]
  ELSE st

(***************************************************************************)
(* The code.                                                               *)
(***************************************************************************)
\* config.ParseConfig(api.ctx.Viper) then GetMinGasPrices.
ConfiguredPrice == nodePrice

EtherbaseFeeBig(gas, price) == MulMod(gas, price, 128)

\* gas * minGasPriceValue.Ceil().TruncateInt().Uint64(), in uint64.
EtherbaseFee(gas, price) == MulMod(gas, price, 64)

Idle == [arg |-> NoPrice, nonce |-> 0, gas |-> {}, fee |-> {}]

Return(c) == pc' = [pc EXCEPT ![c] = "idle"]

(* GetCoinbase, ValidateBasic, the builder type assertion, SetMsgs, the   *)
(* config read and the check that a min gas price is set.                 *)
SetEtherbaseBegin(c) ==
  /\ nodeUp /\ pc[c] = "idle" /\ calls[c] < MaxCalls
  /\ \E e \in Etherbases :
       local' = [local EXCEPT ![c] = [Idle EXCEPT !.arg = e]]
  /\ calls' = [calls EXCEPT ![c] = @ + 1]
  /\ pc' = [pc EXCEPT ![c] = CASE ~TxBuilderIsExt -> "idle"  \* err.Error() on nil: panic
                              [] ConfiguredPrice = NoPrice -> "idle"
                              [] OTHER -> "eb_nonce"]
  /\ UNCHANGED <<nodeVars, file, acked, ackedPrice>>

(* GetTransactionCount(pending), CalculateGas, the fee, keyring, signing. *)
EtherbaseNonce(c) ==
  /\ nodeUp /\ pc[c] = "eb_nonce"
  /\ \E n \in seq..checkSeq, g \in GasEstimates :
       local' = [local EXCEPT ![c].nonce = n, ![c].gas = g,
                              ![c].fee = EtherbaseFee(g, ConfiguredPrice)]
  \* Uint64() of a ceil past 2^64 panics; the RPC server recovers it.
  /\ pc' = [pc EXCEPT ![c] = IF ConfiguredPrice \subseteq 0..63
                             THEN "eb_broadcast" ELSE "idle"]
  /\ UNCHANGED <<calls, nodeVars, file, acked, ackedPrice>>

(* An external call fails (coinbase, nonce, gas estimate, keyring, sign,  *)
(* encode, broadcast transport): log and return false.                    *)
EtherbaseFails(c) ==
  /\ nodeUp /\ pc[c] \in {"eb_nonce", "eb_broadcast"}
  /\ Return(c)
  /\ UNCHANGED <<local, calls, nodeVars, file, acked, ackedPrice>>

EtherbaseBroadcastIgnoresCode(c) ==
  LET l == local[c]
      tx == [nonce |-> l.nonce, eb |-> l.arg, gas |-> l.gas, fee |-> l.fee]
      ok == /\ l.nonce = checkSeq
            /\ ~LessThan(l.fee, RequiredFee(l.gas, nodePrice))
  IN /\ nodeUp /\ pc[c] = "eb_broadcast"
     /\ IF ok THEN /\ mempool' = Append(mempool, tx)
                   /\ checkSeq' = checkSeq + 1
              ELSE UNCHANGED <<mempool, checkSeq>>
     /\ acked' = acked \cup {<<l.nonce, l.arg>>}
     /\ Return(c)
     /\ UNCHANGED <<local, calls, nodeUp, nodePrice, seq, withdraw, applied,
                    dropped, restarts, file, ackedPrice>>

(* BroadcastTx in sync mode: CheckTx, then true iff rsp.Code = 0.         *)
EtherbaseBroadcast(c) ==
  LET l == local[c]
      tx == [nonce |-> l.nonce, eb |-> l.arg, gas |-> l.gas, fee |-> l.fee]
      ok == /\ l.nonce = checkSeq
            /\ ~LessThan(l.fee, RequiredFee(l.gas, nodePrice))
  IN /\ nodeUp /\ pc[c] = "eb_broadcast"
     /\ IF ok THEN /\ mempool' = Append(mempool, tx)
                   /\ checkSeq' = checkSeq + 1
                   /\ acked' = acked \cup {<<l.nonce, l.arg>>}
              ELSE UNCHANGED <<mempool, checkSeq, acked>>
     /\ Return(c)
     /\ UNCHANGED <<local, calls, nodeUp, nodePrice, seq, withdraw, applied,
                    dropped, restarts, file, ackedPrice>>

(* ParseConfig, the denom, NewDecCoin, SetMinGasPrices, and the open with *)
(* O_TRUNC of WriteConfigFile.                                            *)
SetGasPriceBegin(c) ==
  /\ nodeUp /\ pc[c] = "idle" /\ calls[c] < MaxCalls
  /\ \E p \in GasPrices : local' = [local EXCEPT ![c] = [Idle EXCEPT !.arg = p]]
  /\ calls' = [calls EXCEPT ![c] = @ + 1]
  /\ IF ConfiguredPrice = NoPrice /\ ~BaseDenomRegistered
     THEN /\ Return(c) /\ UNCHANGED file
     ELSE /\ pc' = [pc EXCEPT ![c] = "gp_write"]
          /\ file' = [price |-> NoPrice, len |-> 0]
  /\ UNCHANGED <<nodeVars, acked, ackedPrice>>

(* The write of the whole rendering at offset 0; then return true.        *)
GasPriceWrite(c) ==
  LET p == local[c].arg
  IN /\ nodeUp /\ pc[c] = "gp_write"
     /\ file' = [price |-> p, len |-> Max({file.len, FileLen(p)})]
     /\ ackedPrice' = p
     /\ Return(c)
     /\ UNCHANGED <<local, calls, nodeVars, acked>>

(***************************************************************************)
(* The node.                                                               *)
(***************************************************************************)
Block ==
  LET st == FoldLeft(Deliver, [seq |-> seq, withdraw |-> withdraw,
                               applied |-> applied], mempool)
  IN /\ nodeUp /\ mempool # <<>>
     /\ seq' = st.seq /\ withdraw' = st.withdraw /\ applied' = st.applied
     /\ checkSeq' = st.seq
     /\ mempool' = <<>>
     /\ UNCHANGED <<pc, local, calls, nodeUp, nodePrice, file, acked,
                    ackedPrice, dropped, restarts>>

(* A restart (or crash) kills the requests in flight, loses the mempool   *)
(* and reads the config file; a file that does not parse stops the node.  *)
Restart ==
  /\ nodeUp /\ restarts < MaxRestarts
  /\ CleanRestartOnly => \A c \in Callers : pc[c] = "idle"
  /\ nodeUp' = FileIntact
  /\ nodePrice' = IF FileIntact THEN StartPrice(file.price) ELSE nodePrice
  /\ pc' = [c \in Callers |-> "idle"]
  /\ mempool' = <<>> /\ checkSeq' = seq
  /\ dropped' = dropped \cup (acked \ applied)
  /\ restarts' = restarts + 1
  /\ UNCHANGED <<local, calls, file, seq, withdraw, acked, applied, ackedPrice>>

Init ==
  /\ pc = [c \in Callers |-> "idle"]
  /\ local = [c \in Callers |-> Idle]
  /\ calls = [c \in Callers |-> 0]
  /\ nodeUp = TRUE
  /\ file = [price |-> InitPrice, len |-> FileLen(InitPrice)]
  /\ nodePrice = StartPrice(InitPrice)
  /\ seq = 0 /\ checkSeq = 0 /\ mempool = <<>>
  /\ withdraw = "delegator"   \* the default withdraw address
  /\ acked = {} /\ applied = {}
  /\ ackedPrice = InitPrice
  /\ dropped = {}
  /\ restarts = 0

Next ==
  \/ \E c \in Callers : \/ SetEtherbaseBegin(c) \/ EtherbaseNonce(c)
                        \/ EtherbaseFails(c) \/ EtherbaseBroadcast(c)
                        \/ SetGasPriceBegin(c) \/ GasPriceWrite(c)
  \/ Block
  \/ Restart

(* Blocks keep being produced while the mempool holds transactions; new  *)
(* requests, their progress, failures and restarts are not promised.      *)
Spec == Init /\ [][Next]_vars /\ WF_vars(Block)

(***************************************************************************)
(* Properties.                                                             *)
(***************************************************************************)
IsPrice(p) == p = NoPrice \/ p \subseteq 0..127

TypeOK ==
  /\ pc \in [Callers -> {"idle", "eb_nonce", "eb_broadcast", "gp_write"}]
  /\ calls \in [Callers -> 0..MaxCalls]
  /\ nodeUp \in BOOLEAN
  /\ IsPrice(nodePrice) /\ IsPrice(file.price) /\ file.len \in Nat
  /\ \A c \in Callers : local[c].fee \subseteq 0..63 /\ local[c].gas \subseteq 0..63
  /\ seq \in Nat /\ checkSeq \in Nat
  /\ acked \subseteq (Nat \X Etherbases) /\ applied \subseteq (Nat \X Etherbases)

(* Every SetEtherbase request that returned true has its transaction, with *)
(* the nonce it signed and its etherbase, eventually delivered, unless a    *)
(* restart dropped the mempool first (acked only grows, so a time when all *)
(* acked ones are settled covers each): true from the sync broadcast means *)
(* the transaction is in the mempool, not committed, and the nonce race    *)
(* between concurrent requests must make the loser return false.           *)
AckedTxApplied ==
  (acked \ (applied \cup dropped) # {}) ~> (acked \subseteq applied \cup dropped)

(* A restarted node runs with the min gas price of the last SetGasPrice    *)
(* that returned true (or the initial one): the file SetGasPrice wrote     *)
(* and acknowledged is what the node reads back.                           *)
AckedGasPriceDurable ==
  [][Restart => nodeUp' /\ nodePrice' = StartPrice(ackedPrice)]_vars

=============================================================================
