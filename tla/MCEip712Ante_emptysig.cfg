CONSTANTS
  a1 = a1  a2 = a2  a3 = a3  k1 = k1  k2 = k2  k3 = k3  m1 = m1  m2 = m2  m3 = m3
  Stranger = Stranger  BadAddr = BadAddr  AttackerKey = AttackerKey
  Garbage = Garbage  NoKey = NoKey  NoPayer = NoPayer  NoExt = NoExt
  NoSig = NoSig  ParseError = ParseError
  Accounts <- MCAccounts
  AccNum <- MCAccNum
  WalletKey <- MCWalletKey
  PubKeyOf <- MCPubKeyOf
  CtxChainID <- MCCtxChainID
  WalletChains <- MCWalletChains
  Domains <- MCDomains
  MsgSigner <- MCMsgSigner
  MsgSeqs <- MCMsgSeqs
  PayerChoices <- MCPayerChoices
  TypedChainIDs = {0, 1}
  FeePayerStrs <- DelegationPayers
  FeePayerSigs = {NoSig}
  SignModes <- MCSignModes
  TxKinds <- MCTxKinds
  SigLens = {64, 65}
  WalletVs = {"rid"}
  PayerVs = {"rid"}
  TamperVs = {}
  MaxSeq = 2
  MaxSigned = 3
SPECIFICATION Spec
PROPERTY AuthSpec
