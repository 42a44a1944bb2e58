--------------------------- MODULE MCEip712Ante ---------------------------
(* Instances of the ante handler model for TLC: two accounts, one with a  *)
(* key registered on chain (a1, account number 1) and one that only ever  *)
(* pays fees (a2, account number 0, no key on chain), an attacker key     *)
(* whose address has no account, chain id "9000", and wallets that also   *)
(* sign for chain "9001" and with the domain chain id 1.                 *)
EXTENDS Eip712Ante

CONSTANTS a1, a2, a3, k1, k2, k3, m1, m2, m3

MCAccounts == {a1, a2}
MCAccNum == [a \in MCAccounts |-> IF a = a1 THEN 1 ELSE 0]
MCWalletKey == [a \in MCAccounts |-> IF a = a1 THEN k1 ELSE k2]
MCPubKeyOf == [a \in MCAccounts |-> IF a = a1 THEN k1 ELSE NoKey]
MCCtxChainID == <<"9", "0", "0", "0">>
MCWalletChains == {MCCtxChainID, <<"9", "0", "0", "1">>}
MCDomains == {1, 9000}
MCMsgSigner == [m \in {m1, m2} |-> IF m = m1 THEN a1 ELSE a2]
MCMsgSeqs == {<<m1>>, <<m2>>}
MCPayerChoices == {NoPayer, a2}
MCSignModes == {LegacyAmino, "SIGN_MODE_DIRECT"}
MCTxKinds == {"SigVerifiableTx", "OtherTx"}

\* Fee delegation switched off: the option only carries a chain id.
NoDelegationPayers == {NoPayer}
\* Fee delegation with every kind of fee_payer string.
DelegationPayers == {NoPayer, a2, Stranger, BadAddr}

(* Two signers: a3 (account number 2, key k3 registered on chain) signs   *)
(* m3, so <<m1, m3>> needs the signatures of a1 and a3, in that order.    *)
MultiAccounts == {a1, a2, a3}
MultiAccNum == [a \in MultiAccounts |-> CASE a = a1 -> 1 [] a = a2 -> 0 [] a = a3 -> 2]
MultiWalletKey == [a \in MultiAccounts |-> CASE a = a1 -> k1 [] a = a2 -> k2 [] a = a3 -> k3]
MultiPubKeyOf == [a \in MultiAccounts |-> IF a = a2 THEN NoKey ELSE MultiWalletKey[a]]
MultiMsgSigner == [m \in {m1, m2, m3} |-> CASE m = m1 -> a1 [] m = m2 -> a2 [] m = m3 -> a3]
MultiMsgSeqs == {<<m1, m3>>, <<m3, m1>>}
\* With fee delegation: chain 9000, signed with its parsed chain id.
MultiWalletChains == {MCCtxChainID}
MultiDomains == {9000}
\* Only a2 pays fees for others.
MultiPayers == {NoPayer, a2}

(* A chain id in Ethermint's name_number-version form, which is not a     *)
(* decimal number; wallets sign with the override 1, or with a chain id   *)
(* left unset (0).                                                         *)
NamedChainID == <<"a", "_", "9", "-", "1">>
NamedWalletChains == {NamedChainID}
NamedDomains == {1, 0}
=============================================================================
