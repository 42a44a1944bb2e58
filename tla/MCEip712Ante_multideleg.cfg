CONSTANTS
  a1 = a1  a2 = a2  a3 = a3  k1 = k1  k2 = k2  k3 = k3  m1 = m1  m2 = m2  m3 = m3
  Stranger = Stranger  BadAddr = BadAddr  AttackerKey = AttackerKey
  Garbage = Garbage  NoKey = NoKey  NoPayer = NoPayer  NoExt = NoExt
  NoSig = NoSig  ParseError = ParseError
  Accounts <- MultiAccounts
  AccNum <- MultiAccNum
  WalletKey <- MultiWalletKey
  PubKeyOf <- MultiPubKeyOf
  CtxChainID <- MCCtxChainID
  WalletChains <- MultiWalletChains
  Domains <- MultiDomains
  MsgSigner <- MultiMsgSigner
  MsgSeqs <- MultiMsgSeqs
  PayerChoices <- MultiPayers
  TypedChainIDs = {0}
  FeePayerStrs <- MultiPayers
  FeePayerSigs = {}
  SignModes <- MCSignModes
  TxKinds <- MCTxKinds
  SigLens = {64, 65}
  WalletVs = {"rid27"}
  PayerVs = {"rid"}
  TamperVs = {}
  MaxSeq = 2
  MaxSigned = 3
SPECIFICATION Spec
INVARIANT HonestMultiTxAccepted
