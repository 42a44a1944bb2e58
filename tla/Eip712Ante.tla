----------------------------- MODULE Eip712Ante -----------------------------
(***************************************************************************)
(* The EIP-712 signature verification ante handler of                      *)
(* src/app/ante/eip712.go: Eip712SigVerificationDecorator.AnteHandle and   *)
(* VerifySignature, including the fee-delegation extension                 *)
(* (ExtensionOptionsWeb3Tx).  The handler is a pure, atomic step (no I/O,  *)
(* no suspension); what interleaves with it is its environment: honest     *)
(* wallets that sign typed data, fee payers that co-sign it, blocks that   *)
(* leave genesis height, and an attacker that submits any transaction      *)
(* assembled from every signature broadcast so far (replayed, truncated,   *)
(* recombined) and from signatures of its own key over anything.           *)
(*                                                                         *)
(* Cryptography is abstracted: the typed-data hash of a document is the    *)
(* document itself (collision free), a signature is a record naming the   *)
(* key and the document it was made over, and the attacker key can sign   *)
(* any document.  Its 65th byte V is kept as a form: "rid", the recovery  *)
(* id 0 or 1 (crypto.Sign), or "rid27", the id plus 27 that eth_sign and   *)
(* eth_signTypedData wallets write.                                        *)
(***************************************************************************)
EXTENDS Naturals, FiniteSets, Sequences, SequencesExt

CONSTANTS
  Accounts,      \* addresses with an account in the account store
  Stranger,      \* address of AttackerKey; it has no account
  BadAddr,       \* a fee_payer string that is not valid bech32
  AccNum,        \* [Accounts -> Nat]: account numbers
  WalletKey,     \* [Accounts -> keys]: the key each account's owner holds
  PubKeyOf,      \* [Accounts -> keys \cup {NoKey}]: the key set on chain
  AttackerKey,   \* a key held by the attacker only
  Garbage,       \* the key (and address) recovered from a signature made
                 \* over another hash: unrelated to every account
  NoKey, NoPayer, NoExt, NoSig, ParseError,
  CtxChainID,    \* ctx.ChainID(): a string, as a sequence of characters
  WalletChains,  \* chain-id strings honest wallets sign for
  Domains,       \* EIP712 domain chain ids honest wallets sign with
  MsgSigner,     \* [msgs -> Accounts \cup {Stranger}]: GetSigners of a msg
  MsgSeqs,       \* the message lists transactions carry
  PayerChoices,  \* fee payers honest signers name (NoPayer: none)
  TypedChainIDs, \* TypedDataChainID values a transaction's option carries
  FeePayerStrs,  \* fee_payer strings a transaction's option carries
  FeePayerSigs,  \* NoSig (empty fee_payer_sig) allowed or not: {NoSig} or {}
  SignModes,     \* sign modes a SingleSignatureData carries
  TxKinds,       \* "SigVerifiableTx" and transactions that are not
  SigLens,       \* lengths of raw signature bytes: 65, and 64 (truncated)
  WalletVs,      \* V forms the signers' wallets write
  PayerVs,       \* V forms the fee payers' wallets write
  TamperVs,      \* V forms the attacker may rewrite a public signature to
  MaxSeq,        \* bound on account sequences
  MaxSigned      \* bound on the number of honest signatures

VARIABLES
  seq,       \* [Accounts -> Nat]: account sequence in the delivered state
  genesis,   \* ctx.BlockHeight() = 0
  signed,    \* signatures made by honest wallets (all of them are public)
  ledger     \* [acct, doc] pairs executed by delivered transactions

vars == <<seq, genesis, signed, ledger>>

LegacyAmino == "SIGN_MODE_LEGACY_AMINO_JSON"

(* strconv.ParseUint(s, 10, 64) on a chain-id string.  The strings of the *)
(* model have at most 9 characters, so the 64-bit range check never      *)
(* applies.                                                              *)
DigitVal == [c \in {"0","1","2","3","4","5","6","7","8","9"} |->
               CASE c = "0" -> 0 [] c = "1" -> 1 [] c = "2" -> 2
                 [] c = "3" -> 3 [] c = "4" -> 4 [] c = "5" -> 5
                 [] c = "6" -> 6 [] c = "7" -> 7 [] c = "8" -> 8
                 [] c = "9" -> 9]
ParseUint(s) ==
  IF s = <<>> \/ \E i \in 1..Len(s) : s[i] \notin DOMAIN DigitVal
  THEN ParseError
  ELSE FoldLeft(LAMBDA acc, c : 10 * acc + DigitVal[c], 0, s)

(* sigTx.GetSigners(): the signers of the messages, in order, without    *)
(* duplicates.                                                           *)
GetSigners(msgs) ==
  FoldLeft(LAMBDA acc, m : IF Contains(acc, MsgSigner[m]) THEN acc
                           ELSE Append(acc, MsgSigner[m]), <<>>, msgs)

(* The address of a public key (pk.Address()).                          *)
KeyAddr(k) ==
  IF \E a \in Accounts : WalletKey[a] = k
  THEN CHOOSE a \in Accounts : WalletKey[a] = k
  ELSE IF k = AttackerKey THEN Stranger ELSE Garbage

(* Mutant: the account number is taken at genesis height too.           *)
SignerDataIgnoresGenesis(a) ==
  [chain |-> CtxChainID, accNum |-> AccNum[a], seq |-> seq[a]]

(* The signer data the handler builds for account a.                    *)
SignerData(a) ==
  [chain |-> CtxChainID,
   accNum |-> IF genesis THEN 0 ELSE AccNum[a],
   seq |-> seq[a]]

(* Mutant: the sign document carries the next sequence.                *)
TypedDocNextSeq(sd, msgs, chainID, payer) ==
  [chain |-> sd.chain, accNum |-> sd.accNum, seq |-> sd.seq + 1,
   msgs |-> msgs, domain |-> chainID, payer |-> payer]

(* eip712.WrapTxToTypedData over legacytx.StdSignBytes: the document     *)
(* whose typed-data hash is signed.                                      *)
TypedDoc(sd, msgs, chainID, payer) ==
  [chain |-> sd.chain, accNum |-> sd.accNum, seq |-> sd.seq,
   msgs |-> msgs, domain |-> chainID, payer |-> payer]

(* s is a signature over doc: made over it, or made by the attacker key,  *)
(* which signs whatever the attacker wants.                              *)
Covers(s, doc) == s.doc = doc \/ s.key = AttackerKey

(* Mutant: recovery that does not depend on the hash.                   *)
RecoverPubkeyIgnoresHash(doc, s) == IF s.len # 65 THEN NoKey ELSE s.key

(* secp256k1.RecoverPubkey(sigHash, feePayerSig): its checkSignature      *)
(* fails unless the signature has 65 bytes and V < 4 (ErrInvalidRecoveryID *)
(* for 27 and 28); a signature over another hash recovers an unrelated    *)
(* key.                                                                   *)
RecoverPubkey(doc, s) ==
  IF s.len # 65 \/ s.v # "rid" THEN NoKey
  ELSE IF Covers(s, doc) THEN s.key ELSE Garbage

(* Mutant: the signature is checked against the key but not the hash.    *)
VerifyRSKeyOnly(pub, doc, s) == s.key = pub

(* Mutant: the signer's key is recovered from all 65 bytes and compared,  *)
(* the swap the warning at eip712.go:264 forbids.                         *)
VerifyRSRecover(pub, doc, s) == RecoverPubkey(doc, s) = pub

(* secp256k1.VerifySignature(pubKey, sigHash, sig[:64]): V is not read.   *)
VerifyRS(pub, doc, s) == s.key = pub /\ Covers(s, doc)

(* The extension-option block of VerifySignature: the typed-data chain-id *)
(* override and the fee-delegation fields.  ret is "continue", or the     *)
(* value VerifySignature returns at once; "ok" is the nil that            *)
(* errors.Wrap(err, ...) yields when err is nil.                          *)
Web3Option(ext) ==
  IF ext = NoExt
  THEN [ret |-> "continue", chainID |-> 0, delegated |-> FALSE,
        payer |-> NoPayer, payerSig |-> NoSig]
  ELSE LET cid == IF ext.typedChainID \in {1, 42} THEN ext.typedChainID ELSE 0
           base == [ret |-> "continue", chainID |-> cid, delegated |-> FALSE,
                    payer |-> NoPayer, payerSig |-> NoSig]
       IN CASE ext.feePayer = NoPayer -> base
            [] ext.feePayer = BadAddr -> [base EXCEPT !.ret = "ErrFeePayerAddress"]
            [] ext.feePayerSig = NoSig -> [base EXCEPT !.ret = "ok"]
            [] OTHER -> [base EXCEPT !.delegated = TRUE, !.payer = ext.feePayer,
                                     !.payerSig = ext.feePayerSig]

(* The chain id of the EIP712 domain, and the document it signs for.     *)
DomainChainID(opt, sd) ==
  IF opt.chainID = 0 THEN ParseUint(sd.chain) ELSE opt.chainID

(* Mutant: typed data built without the fee-delegation options.         *)
SignDocWithoutPayer(tx, sd) ==
  TypedDoc(sd, tx.msgs, DomainChainID(Web3Option(tx.ext), sd), NoPayer)

SignDoc(tx, sd) ==
  LET opt == Web3Option(tx.ext)
  IN TypedDoc(sd, tx.msgs, DomainChainID(opt, sd),
              IF opt.delegated THEN opt.payer ELSE NoPayer)

(* VerifySignature(pubKey, signerData, sigData, _, tx).                  *)
VerifySignature(pub, sd, sigData, tx) ==
  LET opt == Web3Option(tx.ext)
      doc == SignDoc(tx, sd)
      rk == RecoverPubkey(doc, opt.payerSig)
  IN CASE sigData.mode # LegacyAmino -> "ErrWrongSignMode"
       [] opt.ret # "continue" -> opt.ret
       [] doc.domain = ParseError -> "ErrParseChainID"
       [] opt.delegated /\ rk = NoKey -> "ErrRecoverFeePayer"
       [] opt.delegated /\ KeyAddr(rk) # opt.payer -> "ErrFeePayerSig"
       [] sigData.sig.len # 65 -> "ErrSignatureLength"
       [] ~VerifyRS(pub, doc, sigData.sig) -> "ErrSignatureMismatch"
       [] OTHER -> "ok"

(* Mutant: every signer is checked against the first signer's data.      *)
SignerCheckFirstData(tx, i, simulate) ==
  LET a == GetSigners(tx.msgs)[i]
      sig == tx.sigs[i]
  IN CASE a \notin Accounts -> "ErrUnknownAddress"
       [] ~simulate /\ PubKeyOf[a] = NoKey -> "ErrInvalidPubKey"
       [] sig.seq # seq[a] -> "ErrWrongSequence"
       [] simulate -> "ok"
       [] VerifySignature(PubKeyOf[a], SignerData(GetSigners(tx.msgs)[1]), sig, tx) # "ok"
            -> "ErrUnauthorized"
       [] OTHER -> "ok"

(* One iteration of the signer loop of AnteHandle, for signer i.         *)
SignerCheck(tx, i, simulate) ==
  LET a == GetSigners(tx.msgs)[i]
      sig == tx.sigs[i]
  IN CASE a \notin Accounts -> "ErrUnknownAddress"
       [] ~simulate /\ PubKeyOf[a] = NoKey -> "ErrInvalidPubKey"
       [] sig.seq # seq[a] -> "ErrWrongSequence"
       [] simulate -> "ok"
       [] VerifySignature(PubKeyOf[a], SignerData(a), sig, tx) # "ok"
            -> "ErrUnauthorized"
       [] OTHER -> "ok"

(* Eip712SigVerificationDecorator.AnteHandle: "ok" when next is called.  *)
AnteHandle(tx, mode) ==
  LET signers == GetSigners(tx.msgs)
      results == [i \in 1..Len(tx.sigs) |->
                    SignerCheck(tx, i, mode = "SimulateTx")]
      first == SelectInSeq(results, LAMBDA r : r # "ok")
  IN CASE mode = "ReCheckTx" -> "ok"
       [] tx.kind # "SigVerifiableTx" -> "ErrTxDecode"
       [] Len(tx.sigs) # Len(signers) -> "ErrUnauthorized"
       [] first # 0 -> results[first]
       [] OTHER -> "ok"

-----------------------------------------------------------------------------
(* The transactions that can reach the handler in a state.  Signatures:  *)
(* every honest one, also truncated to 64 bytes or with its V rewritten,  *)
(* and the attacker's own.                                                 *)
(* Inputs every path rejects whatever the rest holds (a sign mode other   *)
(* than legacy amino JSON, a transaction that is not SigVerifiableTx, one *)
(* signature short) are enumerated once each, not combined with the rest.*)
AttackerSig == [key |-> AttackerKey, doc |-> Garbage, len |-> 65, v |-> "rid"]
SigPool == signed \cup {AttackerSig}
           \cup {[s EXCEPT !.len = l] : s \in signed, l \in SigLens}
           \cup {[s EXCEPT !.v = v] : s \in signed, v \in TamperVs}
SigDatas == [mode : {LegacyAmino}, seq : 0..MaxSeq, sig : SigPool]
            \cup [mode : SignModes \ {LegacyAmino}, seq : {0}, sig : {AttackerSig}]
Exts == {NoExt} \cup [typedChainID : TypedChainIDs, feePayer : FeePayerStrs,
                      feePayerSig : SigPool \cup FeePayerSigs]
Txs == UNION {
         [kind : {"SigVerifiableTx"}, msgs : {ms}, ext : Exts,
          sigs : [1..Len(GetSigners(ms)) -> SigDatas]]
         \cup {[kind |-> k, msgs |-> ms, ext |-> NoExt,
                sigs |-> [i \in 1..Len(GetSigners(ms)) - 1 |->
                           [mode |-> LegacyAmino, seq |-> 0, sig |-> AttackerSig]]]
                : k \in TxKinds}
         \cup {[kind |-> k, msgs |-> ms, ext |-> NoExt,
                sigs |-> [i \in 1..Len(GetSigners(ms)) |->
                           [mode |-> LegacyAmino, seq |-> 0, sig |-> AttackerSig]]]
                : k \in TxKinds \ {"SigVerifiableTx"}}
         : ms \in MsgSeqs}

Init ==
  /\ seq = [a \in Accounts |-> 0]
  /\ genesis = TRUE
  /\ signed = {}
  /\ ledger = {}

(* DeliverTx of a transaction the handler passes: the sequences of its    *)
(* signers are incremented (IncrementSequenceDecorator, after this one)    *)
(* and the documents they signed for are executed.                        *)
DeliverTx ==
  \E tx \in Txs :
    LET signers == GetSigners(tx.msgs)
    IN /\ \A a \in Range(signers) : a \in Accounts /\ seq[a] < MaxSeq
       /\ AnteHandle(tx, "DeliverTx") = "ok"
       /\ seq' = [a \in Accounts |->
                    IF a \in Range(signers) THEN seq[a] + 1 ELSE seq[a]]
       /\ ledger' = ledger \cup {[acct |-> a, doc |-> SignDoc(tx, SignerData(a))]
                                  : a \in Range(signers)}
       /\ UNCHANGED <<genesis, signed>>

(* The account number a wallet signs with: 0 for genesis transactions.  *)
WalletAccNum(a) == IF genesis THEN 0 ELSE AccNum[a]

(* An honest wallet signs typed data for a transaction of its account a, *)
(* with the sequence and account number the chain currently expects.     *)
WalletSign ==
  \E ms \in MsgSeqs, c \in WalletChains, dom \in Domains, p \in PayerChoices,
     v \in WalletVs :
    \E a \in Range(GetSigners(ms)) \cap Accounts :
      /\ p # a
      /\ Cardinality(signed) < MaxSigned
      /\ signed' = signed \cup
           {[key |-> WalletKey[a], len |-> 65, v |-> v,
             doc |-> TypedDoc([chain |-> c, accNum |-> WalletAccNum(a),
                               seq |-> seq[a]], ms, dom, p)]}
      /\ UNCHANGED <<seq, genesis, ledger>>

(* A fee payer co-signs a document that names it as the payer.           *)
PayerCoSign ==
  \E s \in signed, v \in PayerVs :
    /\ s.doc.payer \in Accounts
    /\ Cardinality(signed) < MaxSigned
    /\ signed' = signed \cup {[s EXCEPT !.key = WalletKey[s.doc.payer], !.v = v]}
    /\ UNCHANGED <<seq, genesis, ledger>>

(* A block is committed: the chain is past genesis height from then on.  *)
NewBlock ==
  /\ genesis' = FALSE
  /\ UNCHANGED <<seq, signed, ledger>>

Next == DeliverTx \/ WalletSign \/ PayerCoSign \/ NewBlock

Spec == Init /\ [][Next]_vars

-----------------------------------------------------------------------------
Docs == [chain : WalletChains \cup {CtxChainID},
         accNum : {0} \cup Range(AccNum), seq : 0..MaxSeq, msgs : MsgSeqs,
         domain : Nat \cup {ParseError},
         payer : Accounts \cup {Stranger, NoPayer}]

TypeOK ==
  /\ seq \in [Accounts -> 0..MaxSeq]
  /\ genesis \in BOOLEAN
  /\ signed \subseteq [key : Range(WalletKey), doc : Docs, len : {65},
                       v : WalletVs \cup PayerVs]
  /\ \A e \in ledger : e.acct \in Accounts /\ e.doc.seq < MaxSeq

(* The owner of an honest key.                                           *)
Owner(k) == CHOOSE a \in Accounts : WalletKey[a] = k

(* Refinement: every transaction DeliverTx passes executes, for each of   *)
(* its signers, a document that signer's owner signed, for this chain and *)
(* the signer's current sequence; a named fee payer signed the same       *)
(* document; no signed document executes twice.  This is what the         *)
(* decorator's sequence check, the signer data it builds, the typed-data   *)
(* document VerifySignature reconstructs and the fee-payer recovery must   *)
(* achieve together against replayed, recombined and truncated signatures. *)
Auth == INSTANCE AuthLedger WITH
          consented <- {[acct |-> Owner(s.key), doc |-> s.doc] : s \in signed},
          Corrupt <- {Stranger},
          ChainID <- CtxChainID,
          Signers <- LAMBDA d : Range(GetSigners(d.msgs))
AuthSpec == Auth!Spec

(* The transaction an honest wallet submits for a document its owner      *)
(* signed: one message list, the signature, and the Web3 option carrying   *)
(* the domain chain id when it is an allowed override and the fee payer    *)
(* with the payer's co-signature when there is one.                       *)
PayerSigOf(d) ==
  IF d.payer \in Accounts /\ \E s \in signed : s.doc = d /\ s.key = WalletKey[d.payer]
  THEN CHOOSE s \in signed : s.doc = d /\ s.key = WalletKey[d.payer]
  ELSE NoSig
HonestTx(s) ==
  [kind |-> "SigVerifiableTx", msgs |-> s.doc.msgs,
   sigs |-> <<[mode |-> LegacyAmino, seq |-> s.doc.seq, sig |-> s]>>,
   ext |-> IF s.doc.domain \notin {1, 42} /\ s.doc.payer = NoPayer THEN NoExt
           ELSE [typedChainID |-> IF s.doc.domain \in {1, 42} THEN s.doc.domain ELSE 0,
                 feePayer |-> s.doc.payer,
                 feePayerSig |-> PayerSigOf(s.doc)]]

(* Completeness: a transaction of one signer a, signed by a's wallet over  *)
(* the document the chain expects now (this chain, a's sequence, account   *)
(* number 0 at genesis height, a domain the handler accepts) and co-signed *)
(* by its fee payer if it names one, passes the handler in DeliverTx.      *)
(* It fails if the handler rebuilds the document differently from the     *)
(* wallet: account number at genesis, domain override, payer embedding.    *)
HonestTxAccepted ==
  \A s \in signed :
    LET a == Owner(s.key)
        d == s.doc
    IN /\ d.payer # a
       /\ GetSigners(d.msgs) = <<a>>
       /\ PubKeyOf[a] = WalletKey[a]
       /\ d.chain = CtxChainID
       /\ d.seq = seq[a]
       /\ d.accNum = WalletAccNum(a)
       /\ d.domain \in {1, 42, ParseUint(CtxChainID)}
       /\ d.payer # NoPayer => PayerSigOf(d) # NoSig
       => AnteHandle(HonestTx(s), "DeliverTx") = "ok"

(* The document the chain expects now from signer a of message list ms.  *)
ExpectedDoc(a, ms, dom, p) ==
  TypedDoc([chain |-> CtxChainID, accNum |-> WalletAccNum(a), seq |-> seq[a]],
           ms, dom, p)

HasSig(a, d) == \E s \in signed : s.key = WalletKey[a] /\ s.doc = d
SigBy(a, d) == CHOOSE s \in signed : s.key = WalletKey[a] /\ s.doc = d

(* The transaction honest signers of ms submit: each signer's signature   *)
(* over its own expected document, and the fee payer's co-signature over  *)
(* the first signer's document (it has one fee_payer_sig to give).        *)
MultiTx(ms, dom, p) ==
  LET S == GetSigners(ms)
  IN [kind |-> "SigVerifiableTx", msgs |-> ms,
      sigs |-> [i \in 1..Len(S) |->
                  [mode |-> LegacyAmino, seq |-> seq[S[i]],
                   sig |-> SigBy(S[i], ExpectedDoc(S[i], ms, dom, p))]],
      ext |-> IF dom \notin {1, 42} /\ p = NoPayer THEN NoExt
              ELSE [typedChainID |-> IF dom \in {1, 42} THEN dom ELSE 0,
                    feePayer |-> p,
                    feePayerSig |-> IF p = NoPayer THEN NoSig
                                    ELSE SigBy(p, ExpectedDoc(S[1], ms, dom, p))]]

(* Completeness with several signers: when every signer of a message list *)
(* has signed the document the chain expects from it now, and the fee     *)
(* payer, if one is named, has co-signed, the transaction passes.  The     *)
(* loop of AnteHandle rebuilds a document per signer (its own account      *)
(* number and sequence) and checks the one fee-payer signature against     *)
(* each of them.                                                          *)
HonestMultiTxAccepted ==
  \A ms \in MsgSeqs, dom \in Domains, p \in PayerChoices :
    LET S == GetSigners(ms)
    IN /\ Len(S) > 1
       /\ dom \in {1, 42, ParseUint(CtxChainID)}
       /\ \A i \in 1..Len(S) :
            /\ S[i] \in Accounts /\ S[i] # p
            /\ PubKeyOf[S[i]] = WalletKey[S[i]]
            /\ HasSig(S[i], ExpectedDoc(S[i], ms, dom, p))
       /\ p # NoPayer => HasSig(p, ExpectedDoc(S[1], ms, dom, p))
       => AnteHandle(MultiTx(ms, dom, p), "DeliverTx") = "ok"

=============================================================================
