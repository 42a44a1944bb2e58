# TLA+ models of ancon

Models of the ancon chain code under `src/`, checked with TLC. The core of
the repository is the EIP-712 signature check that every Cosmos transaction
carrying a Web3 extension goes through (`src/app/ante/eip712.go`). A bug
there lets someone forge or replay a transaction, so it is modelled first.

## 1. Inventory

| Component | Source | State it keeps | Operations |
|---|---|---|---|
| Verification orchestrator | `app/ante/eip712.go` `AnteHandle` (47-117) | none of its own. It reads the account store (sequence, account number, pubkey) and the context (chain id, height, recheck, simulate) | one per transaction: skip on recheck, check the tx type, check signer/signature counts, then per signer: account lookup, pubkey, sequence, signer data, `VerifySignature`. It stops at the first error. |
| Signature engine | `VerifySignature` (129-273) | none | sign-mode dispatch; sign bytes; typed data and hash; 65-byte length check; `secp256k1.VerifySignature` on R‖S against the account key |
| Fee-delegation resolver | `VerifySignature` (167-199, 211-244) | none | decodes `ExtensionOptionsWeb3Tx`; chain-id override (1, 42); `fee_payer` bech32 parse; non-empty `fee_payer_sig`; recovers the payer key and compares its address |
| Typed-data builder | external `eip712` package, called at 216/248 | none | `WrapTxToTypedData`, `ComputeTypedDataHash` |
| Web3 option codec | `types/web3.pb.go` | none | `Marshal`, `Size`, `encodeVarintWeb3`, `Unmarshal`, `skipWeb3` |
| EVM fee handling | `x/evm/keeper/utils.go` | bank balances (external) | `DeductTxCostsFromUserBalance`, `CheckSenderBalance` |
| EVM genesis | `x/evm/types/genesis.go` | none | `GenesisState.Validate` (duplicate accounts) |
| Ancon JSON-RPC | `ethereum/rpc/namespaces/ancon/api.go` | node config file, keyring, mempool (external) | `SetEtherbase`: build, sign and broadcast a tx using the pending nonce. `SetGasPrice`: rewrite the config. `Store`/`Load`: IPLD stubs. |
| Fee-market query codec | `x/feemarket/types/query.pb.go` | none | `Marshal`, `Size`, `encodeVarintQuery`, `sovQuery`, `sozQuery`, `Unmarshal` of six messages, `skipQuery` |
| Test code | `benchmark_test.go` | none | benchmarks. Not modelled. |

**How the components interact.** The Cosmos ante chain calls `AnteHandle`
once per transaction in each of CheckTx, ReCheckTx, simulation and
DeliverTx. `AnteHandle` calls `VerifySignature` once per signer.
`VerifySignature` decodes the Web3 option through the codec and calls the
typed-data builder. A later decorator, outside this repository, increments
the signers' sequences. That increment is what ties the sequence check to
replay protection. `SetEtherbase` is a client of this pipeline: it signs
with the pending nonce and broadcasts.

**What makes it hard.**
- The verifier is pure and atomic. Its hard part is the adversarial
  environment. Signatures are public and can be replayed, truncated and
  recombined with other messages, options, chain ids and sequences.
- Blocks advance the height past genesis between signing and delivery.
- ReCheckTx skips the check entirely.
- Fee delegation adds a second signer whose signature must cover the same
  document.
- In the RPC code, concurrent calls read the same nonce and the same config
  file.

**What makes each component correct.**
- *Orchestrator and engine (authorization):* a delivered transaction
  executes, for each signer, exactly a document that signer's owner
  signed. The document must be for this chain and the signer's current
  sequence, so nothing executes twice. A named fee payer must have signed
  the same document.
- *Orchestrator and engine (completeness):* an honest transaction built
  the way the spec prescribes passes.
- *Codec:* decode(encode(x)) = x. Malformed input is rejected, not a panic.
- *Fee handling:* a fee is never deducted beyond the balance, and the
  intrinsic-gas bound holds for delivered transactions.
- *Genesis:* `Validate` rejects exactly the duplicate-address lists.
- *RPC:* concurrent calls never corrupt the config, and the fee never wraps
  around.

## 2. Plan

1. **Eip712Ante** (done): the orchestrator, the engine and
   the fee-delegation resolver, composed with honest wallets, fee payers,
   blocks and an attacker. It is checked against the abstract
   **AuthLedger**.
2. Extend Eip712Ante with:
   - two-signer message lists: the first failing signer wins, and a
     delegated transaction with two signers cannot verify;
   - a non-numeric chain id (`ancon_9000-1`), which fails `ParseUint`;
   - properties relating the CheckTx, ReCheckTx and simulation verdicts to
     the DeliverTx verdict.
3. **ProtoWire, Web3Codec, QueryCodec** (done): the generated codecs as
   RECURSIVE operators over byte sequences, with round trip and no-panic
   checked against crafted and tampered input.
4. **EvmFees** (done): `CheckSenderBalance` then
   `DeductTxCostsFromUserBalance` for the transactions of one sender, in
   CheckTx and DeliverTx.
5. **AnconRPC** (done): `SetEtherbase` and `SetGasPrice` as concurrent
   goroutines against a node that restarts. `SetEtherbase` signs in
   SIGN_MODE_DIRECT, so its transaction goes through the standard signature
   decorator, not Eip712Ante. The node's CheckTx is modelled by the sequence
   and minimum-fee checks only.
6. **GenesisValidate** (done): the duplicate-detection loop against a
   declarative reference.
7. Two-signer Eip712Ante runs and the non-numeric chain id (done).
8. Restarts in the liveness run of AnconRPC (done): `AckedTxApplied`
   allows the loss of the mempool, recorded in `dropped`.
9. The signature's V byte in Eip712Ante (done): wallets writing 27/28,
   the attacker rewriting V, and the recovery-based verification the code
   forbids as a mutant.
10. Not done: properties relating the CheckTx, ReCheckTx and simulation
    verdicts to the DeliverTx verdict (item 2). The model has no mempool;
    the ReCheckTx skip is covered only through `AuthSpec` on DeliverTx.

## 3. Modules

### Eip712Ante.tla — the ante handler and its environment

- **Variables:**
  - `seq`: account sequences in the delivered state;
  - `genesis`: height = 0;
  - `signed`: every signature an honest wallet produced, all public;
  - `ledger`: the (account, document) pairs that delivered transactions
    executed.
- **Abstraction of cryptography:** the typed-data hash of a document is the
  document itself, so there are no collisions. A document records the chain
  id string, the account number, the sequence, the messages, the domain
  chain id and the fee payer. A signature is `[key, doc, len, v]`. The
  attacker's key signs anything. `v` is the form of the 65th byte: `"rid"`,
  the recovery id 0/1 that `crypto.Sign` writes, or `"rid27"`, the id plus
  27 that eth_sign and eth_signTypedData wallets write. `VerifyRS` never
  reads it. `RecoverPubkey` fails unless it is `"rid"`, as go-ethereum's
  `checkSignature` rejects V >= 4.
- **How definitions correspond to the code:**
  - `AnteHandle`: lines 47-117. The `CASE` follows the order of the early
    returns, and `SelectInSeq` picks the first failing signer.
  - `SignerCheck`: the loop body, 71-113.
  - `SignerData`: 91-102.
  - `VerifySignature`: 129-273.
  - `Web3Option`: the option block, 167-199. It includes the `errors.Wrap`
    of a nil error at 192, which returns nil.
  - `DomainChainID` and `ParseUint`: 201-206. `ParseUint` works on the
    chain-id string as a sequence of characters.
  - `SignDoc` and `TypedDoc`: typed data, 145-156 and 208-257.
  - `RecoverPubkey` and `KeyAddr`: 226-242.
  - `VerifyRS`: 259-267.
- **Actions:**
  - `DeliverTx`: the handler in DeliverTx mode, followed by the sequence
    increment of the later decorator and the execution of the documents.
    A rejected transaction changes nothing.
  - `WalletSign`: an honest wallet signs for its account's current sequence
    and account number (0 at genesis). It may sign for this chain or
    another, with domain 1 or 9000, optionally naming a fee payer.
  - `PayerCoSign`: a fee payer signs a document that names it.
  - `NewBlock`: the height advances. Blocks keep coming, so the system
    never stops.
- **The attacker's inputs (`Txs`):**
  - any message list;
  - any known signature, also truncated to 64 bytes or (`ante_nodeleg`)
    with its V rewritten, or its own;
  - any sequence field;
  - any option: type-data chain id 0 or 1, fee payer among none, `a2`,
    its own address or an invalid string, and any known payer signature.

  A wrong sign mode, a non-`SigVerifiableTx` and a short signature list
  are each enumerated once. Every path rejects them whatever else the
  transaction holds.

### AuthLedger.tla — what the check promises

- **Variables:** `seq`, `consented` and `ledger`.
- **Actions:**
  - `Consent`: an owner consents to one more document.
  - `Execute`: a set of accounts executes one document each. Each account
    must be a signer of the document's messages, and its owner must have
    consented to that document. The document must be for this chain and
    the account's current sequence. A named payer must also have
    consented. The sequences of the executing accounts go up by one.
    Addresses in `Corrupt` consent to anything.
- **How it is used:** Eip712Ante implements it through `Auth == INSTANCE
  AuthLedger WITH consented <- {owner of each signature's key, its
  document}, Corrupt <- {Stranger}, ...`. The run checks `AuthSpec` as a
  PROPERTY. The actions are written over `ledger'`, so the module is a
  property to check against, not a standalone model.

### ProtoWire.tla — the protobuf wire primitives

Both generated codecs share this module's primitives:

- the varint read loop (`UvarintLoop`, with the `shift >= 64` check and the
  end-of-buffer check in the code's order);
- the length-delimited read (`ReadLenDelim`: negative length, wrap of
  `iNdEx + msglen`, past-the-end);
- `skip*` (`SkipLoop`, `SkipField`);
- `sov` and `encodeVarint`, and the back-to-front buffer write (`Put`,
  `PutTag`).

A `uint64` is the set of its one bits, a subset of 0..63, so the 64-bit
width is exact. `Val` converts a bit set to a number, and it is only used
where the number is below `Cap = 2^20`, or in `AddLen`, which returns -1
exactly when Go's `int` addition would wrap past 2^63. `int32(wire >> 3)`
is `FieldNum` over bits 3..34. A Go slice or index out of range is the
result `err = "panic"`.

### Web3Codec.tla and QueryCodec.tla — the codecs and the channel

- **What is modelled.** Each module composes the generated
  Marshal/Size/Unmarshal of its messages from the ProtoWire primitives.
  `Web3Codec` covers `ExtensionOptionsWeb3Tx` (typed-data chain id, fee
  payer, fee payer signature). `QueryCodec` covers the six fee-market query
  messages. The embedded `Params` and `BaseFee` bodies are opaque byte
  strings, and `BlockGas` is an `int64`.
- **State:** `msg`, `wire`, `stage`, `tampered`, `result`.
- **Actions:**
  - `Send`: Marshal; a panic ends the exchange.
  - `Craft`: the submitter sends bytes of its own instead.
  - `Tamper`: one truncation, overwrite or appended byte of the encoding.
  - `Receive`: Unmarshal.

  The exchange ends after `Receive`, so the cfgs set `CHECK_DEADLOCK FALSE`.
- **Bounds:**
  - Values cross every varint length boundary: 0, 1, 127, 128, 16384,
    `MinInt64` and `MaxInt64`, and -1 and -128, which take 10 bytes.
  - Crafted inputs are all strings of length ≤ 3 over a 16-17 byte
    alphabet (tags, wire types 0-5 and 7, continuation bytes, 0xff).
  - Ten long inputs add an 11-byte varint, lengths of 2^31 and near 2^63,
    and nested groups.

### WordArith.tla — exact unsigned arithmetic

An unsigned integer of any width is the set of its one bits. TLC's own
integers are 32-bit, and the fee product of `SetEtherbase` needs 64 bits
and the exact product to compare against. `AddMod` is a carry-lookahead
adder: a carry enters bit k when a lower bit generates one and every bit
between propagates it, and bits from w up are dropped. It is not
recursive, which keeps TLC's stack shallow. `MulMod` folds shifted copies
with `FoldSet`. `LessThan` compares at the highest differing bit. `Digits`
counts decimal digits against a literal table of the powers of ten (an
ASSUME checks each entry is ten times the one before). That count is the
length of a price written to the config file.

### AnconRPC.tla — SetEtherbase and SetGasPrice (`api.go` 183-324)

- **State:**
  - `pc[c]`, `local[c]`: the program counter and locals (nonce, gas,
    fee, price) of caller goroutine `c`. `calls` bounds the calls made.
  - The node: `nodeUp`, `nodePrice` (the min gas price viper read at
    start), `seq` (the committed sequence of the node's key), `checkSeq`
    (its CheckTx sequence), `mempool`, `withdraw` (the committed withdraw
    address), `restarts`.
  - `file`: `app.toml` as `[price, len]`. `os.WriteFile` truncates and then
    writes at offset 0, so the file holds the last price written and the
    length of the longest write since the last truncate. A file longer
    than its price's text is torn and does not parse.
  - History for the properties: `acked` (transactions a call reported
    true), `applied` (committed ones), `dropped` (acked transactions a
    restart removed from the mempool before a block committed them),
    `ackedPrice`.
- **Actions:**
  - `SetEtherbaseBegin`: the builder check (203) and the config parse
    (214-226); returns false without a min gas price.
  - `EtherbaseNonce`: the pending nonce (228) is any value between the
    committed and the CheckTx sequence. Gas estimation, then the fee
    `gas * ceil(price)` as a uint64 product (251). `Uint64()` of a price of
    2^64 or more panics. go-ethereum's RPC server recovers the panic, so
    the call just ends.
  - `EtherbaseFails`: any of the signing, encoding or broadcast errors
    (229-287).
  - `EtherbaseBroadcast`: sync broadcast (279-290). CheckTx accepts if the
    nonce is the CheckTx sequence and the fee covers gas × price exactly.
    The call reports `rsp.Code == 0`.
  - `SetGasPriceBegin`: the config parse and denom (296-317), then
    `WriteConfigFile`'s truncate. `GasPriceWrite`: its write (318-324).
  - Environment: `Block` delivers the mempool in order. `Restart` kills
    every call, drops the mempool and re-reads the file. A torn or empty
    file leaves the node down or without a min gas price.
- **Fairness:** `WF(Block)` only. Blocks keep being produced. Callers may
  stop at any point, as an RPC client may.

### GenesisValidate.tla — `GenesisState.Validate` (`genesis.go` 10-41)

One step is one loop iteration: the duplicate check against the
`seenAccounts` map, then `GenesisAccount.Validate` (address, then
storage), then recording the address. After the loop the params are
validated. `Init` is every account list of up to `MaxAccounts` entries
over `Addresses`, one of them invalid. `Expected` is a declarative
reference: the first position that repeats an earlier address or is
invalid decides the error. No fairness and no termination property:
`Validate` ranges over a finite slice with no blocking call, so it ends
whatever the body does.

### EvmFees.tla — the EVM fee helpers (`utils.go` 16-104)

- **State:** one sender's `balance` in the committed state,
  `checkBalance` in the CheckTx state, the `mempool`, and `charges`, the
  fees deducted in the last block with the balance after each.
- **Code:** `CheckSenderBalance` (balance ≥ fee + value) and
  `DeductTxCostsFromUserBalance` (signer account, intrinsic gas in
  CheckTx only, `DeductFees` of gas limit × price), composed in the ante
  order by `Ante`.
- **Actions:** `CheckTx` admits a transaction and deducts its fee from the
  CheckTx state. Messages do not run in CheckTx, so the value is not
  subtracted there. `Block` delivers the mempool plus possibly one foreign
  transaction that a proposer included without CheckTx. Per transaction
  it runs the ante part, then the EVM: a gas limit below intrinsic gas
  fails, and the value moves if affordable. The CheckTx state is then
  reset to the committed one.
- **MCEvmFees:** balance 100000 at price 1, a 50000-value transfer, a
  zero-value transfer and a 16-byte creation. Two value transfers pass
  CheckTx but not DeliverTx. A 20000-gas foreign transaction is below
  intrinsic gas. Three blocks, mempool of three.

### MCEip712Ante.tla and its cfgs

- **Accounts:**
  - `a1`: account number 1, key `k1` registered on chain, signs `m1`.
  - `a2`: account number 0, no key on chain, signs `m2`. It works as a fee
    payer, since payers are recovered and not looked up.
  - The attacker's address `Stranger` has no account.
- **Chain ids:** the chain id is "9000". Wallets also sign for "9001".
- **Bounds:**
  - `MaxSeq = 2`: two deliveries per account. That is enough for replay
    after a delivery and for a signature that goes stale.
  - `MaxSigned = 3`: three honest signatures. The payer-substitution case
    needs two documents naming the payer plus one co-signature.
- **Two signers** (`ante_multi*`): `a3` has account number 2 and key `k3`
  on chain, and signs `m3`. The lists `<<m1, m3>>` and `<<m3, m1>>` need
  a1's and a3's signatures, in both orders. These runs have three honest
  signatures to stay within a minute.
  - `ante_multi` uses the chain id `a_9-1`. It is in Ethermint's
    name_number-version form, which is not a decimal number. Options
    carry the override 1 only. Wallets sign with domain 1, or 0 (a wallet
    whose chain id is unset). `MaxSeq = 1`: one two-signer delivery.
  - `ante_multi_deleg` uses chain "9000", signed with domain 9000, and a2
    as the fee payer.
- **V forms:** signers' wallets write 27/28 in `ante_nodeleg` and
  `ante_multi*` and 0/1 in `ante_deleg`. Fee payers co-sign with 0/1: a
  27/28 co-signature recovers nothing, so the code rejects it, as the
  spec's full-recovery rule for the payer requires. Only `ante_nodeleg`
  lets the attacker rewrite V. Doing so everywhere multiplies the
  attacker's signatures and the delegation runs' time.
- **Symmetry:** none. Model values appear in ordinary assignments, so
  symmetry would be unsound.

## 4. Runs

| Run | cfg | Properties | Result |
|---|---|---|---|
| `ante_nodeleg` | `MCEip712Ante_nodeleg.cfg` | `TypeOK`, `HonestTxAccepted`, `AuthSpec` | pass, ~4.3k states, 30 s |
| `ante_deleg` | `MCEip712Ante_deleg.cfg` | `HonestTxAccepted`, `AuthSpec` | pass, ~4.5k states |
| `ante_empty_fee_payer_sig` | `MCEip712Ante_emptysig.cfg` | `AuthSpec` | violation |
| `ante_multi` | `MCEip712Ante_multi.cfg` | `HonestMultiTxAccepted`, `AuthSpec` | pass, 912 states |
| `ante_multi_deleg` | `MCEip712Ante_multideleg.cfg` | `HonestMultiTxAccepted` | violation |
| `web3_codec` | `MCWeb3Codec.cfg` | `TypeOK`, `RoundTrip`, `NoPanic` | pass, ~213k states |
| `query_codec` | `MCQueryCodec.cfg` | `TypeOK`, `RoundTrip`, `NoPanic` | pass, ~133k states |
| `rpc_etherbase` | `MCAnconRPC_etherbase.cfg` | `TypeOK`, `AckedTxApplied` | pass, ~104k states |
| `rpc_gasprice_race` | `MCAnconRPC_race.cfg` | `AckedGasPriceDurable` | violation |
| `genesis_validate` | `MCGenesisValidate.cfg` | `ValidateMatchesReference` | pass, 1236 states |
| `evm_fees` | `MCEvmFees.cfg` | `ChargedTxCanPay` | pass, 361 states |
| `evm_fees_intrinsic` | `MCEvmFees_intrinsic.cfg` | `ChargedOnlyIfIntrinsicCovered` | violation |

- **`AuthSpec`** (refinement of AuthLedger). It covers:
  - replay;
  - cross-chain reuse;
  - reuse of a signature with other messages, domain or payer;
  - truncation;
  - a stale genesis account number;
  - fee-payer substitution.
- **`HonestTxAccepted`.** A single-signer transaction signed over the
  document the chain expects now is accepted in DeliverTx. If it names a
  fee payer, that payer must have co-signed it. This covers the wallet and
  the verifier rebuilding the same document: genesis account number, domain
  override and payer embedding.
- **`ante_deleg` restriction.** Only options with a non-empty
  `fee_payer_sig` are offered. The empty case is the finding below, and
  `ante_empty_fee_payer_sig` checks it on its own.
- **Mutants.** Each property has a mutant that breaks it:
  - `TypeOK`: the sign document carries the next sequence.
  - `HonestTxAccepted` (`ante_nodeleg`): the account number is used even at
    genesis. A second mutant verifies the signer by recovering its key
    from all 65 bytes, the change the warning at eip712.go:264 forbids and
    the spec's open question (section 9) asks a test against. It rejects
    the wallets' 27/28 signatures.
  - `HonestTxAccepted` (`ante_deleg`): the payer is left out of the typed
    data.
  - `AuthSpec` (`ante_nodeleg`): the signature is checked against the key
    only.
  - `AuthSpec` (`ante_deleg`): payer-key recovery ignores the hash.
  - codecs, `TypeOK`: the varint writer masks eight bits instead of seven.
  - codecs, `RoundTrip`: `sov` rounds up one byte too many (web3), or
    `Size` counts the gas with zig-zag (query). In both, Size disagrees with
    what is written.
  - codecs, `NoPanic`: the `postIndex < 0` wrap check is dropped, and a
    length near 2^63 slices out of range.
- **`RoundTrip`.** Unmarshal of Marshal's output gives back the message.
- **`NoPanic`.** No byte string makes Unmarshal or `skip*` panic.

**Named chain and two signers.**
- `HonestMultiTxAccepted`: when every signer of a message list signed the
  document the chain expects from it, and the payer co-signed the first
  signer's document, the transaction passes. On the named chain this is
  the override path. Mutant: every signer is checked against the first
  signer's data.
- `AuthSpec` in `ante_multi`: no signer of a two-signer transaction
  executes without its owner's signature. Mutant: the signature is checked
  against the key only.

**Finding (spec gap, eip712.go:226, `ante_multi_deleg`).** The fee-payer
key is recovered once per signer, against that signer's document. That
document embeds the signer's account number and sequence. After genesis,
two signers' documents differ, and no single `fee_payer_sig` verifies
for both. TLC: a block, a1 and a3 sign, a2 co-signs a1's document, and the
transaction is rejected. The spec says the payer signs "the same canonical
document", but it does not say which one when there are several signers.

**Finding (code bug, eip712.go:192).** The code handles an option whose
`fee_payer` is valid and whose `fee_payer_sig` is empty with
`return errors.Wrap(err, "no feePayerSig provided ...")`. Here `err` is
the nil result of the successful bech32 parse, and `pkg/errors.Wrap(nil, …)`
returns nil. So `VerifySignature` reports success without checking any
signature. TLC delivers a transaction for `a1` that carries only the
attacker's signature, in one step. The spec (4.4, 8) requires
`MissingFeePayerSig`.

**RPC, genesis and fee runs.**
- Prices in `rpc_etherbase`: the node starts at 100000, where gas
  200000 × price passes 2^32. `SetGasPrice` can write 10, 0 or 2^47, and
  after a restart 2^47 makes the uint64 fee wrap. The wrap is Go's uint64
  arithmetic, so no property states otherwise. The node's exact fee check
  rejects the wrapped fee, and the call returns false. The price
  `SetEtherbase` reads is the one viper read at start, which is also the
  one the node enforces, so it is never stale.
- `AckedTxApplied`: every broadcast reported true is eventually committed,
  unless a restart dropped the mempool first (`dropped`). Mutant:
  reporting true whatever CheckTx said.
- `TypeOK` (`rpc_etherbase`): the fee is a uint64. Mutant: an unbounded
  product.
- `AckedGasPriceDurable`: after a restart the node runs with the last
  price `SetGasPrice` reported. Violated (finding below).
- `ValidateMatchesReference`: the loop returns the reference verdict.
  Mutant: not recording the seen address.
- `ChargedTxCanPay`: a transaction whose fee DeliverTx deducts can still
  pay its value, although CheckTx admitted it against a balance reduced by
  fees only. Mutant: `CheckSenderBalance` comparing the fee alone. The
  model runs `CheckSenderBalance` in DeliverTx too. The decorator that
  calls it is in ethermint, outside this repository. If it runs only in
  CheckTx, go-ethereum's `CanTransfer` gives DeliverTx the same outcome.
  Either way, what protects DeliverTx then is code outside src/.

**Finding (code bug, api.go:321, `rpc_gasprice_race`).** `SetGasPrice`
rewrites `app.toml` in place, with no lock. For two concurrent calls,
truncate, truncate, long write, short write leaves the short price
followed by the tail of the long one. The file no longer parses, and the
node cannot restart, although both calls returned true. The same property
fails for a crash between one call's truncate and write: the node
restarts with no min gas price. The run allows clean restarts only, so
that the race is what TLC shows.

**Finding (spec gap, utils.go:49, `evm_fees_intrinsic`).** The intrinsic
gas check runs only in CheckTx. A proposer's transaction with gas limit
below intrinsic gas has its whole fee deducted in DeliverTx and then fails
in the EVM.

## 5. Fairness

- Eip712Ante, the codecs and EvmFees check safety only. Inclusion of a
  transaction in a block is the consensus engine's business, so no
  fairness is assumed there.
- AnconRPC assumes `WF(Block)`: the chain keeps producing blocks. No
  fairness is assumed for callers, since an RPC client may stop at any
  point.
- GenesisValidate assumes none and states no liveness: a Go `range`
  over a finite slice always ends.

## 6. Not modelled (yet)

- **Never:**
  - The IPLD `Store`/`Load` handlers (api.go 59-180). `Store` assembles an
    empty map, and its write committer throws the encoded block away.
    `Load`'s read opener returns nothing, and its decode error is ignored.
    Nothing is persisted, so there is no state to model. What they return
    depends only on go-ipld-prime, which is not in this repository.
  - The gRPC glue of query.pb.go (client, server interface, handlers,
    service descriptor) and the `XXX_`/descriptor methods of both .pb.go
    files. Each handler decodes the request with the codec modelled in
    QueryCodec and hands it to a server that is not in this repository.
  - The benchmarks.
- **Abstracted:**
  - byte-level signatures: curve arithmetic and keccak. V is kept as its
    form only;
  - the `UnpackAny` failure of an unregistered option type;
  - `GetSignaturesV2` decoding errors;
  - in AnconRPC: the keyring, gas estimation (an input) and the node's
    other CheckTx checks;
  - in EvmFees: go-ethereum's `IntrinsicGas` (its overflow error is
    unreachable at these sizes), gas refunds, several messages in one
    transaction, and several senders.
