----------------------------- MODULE AuthLedger -----------------------------
(***************************************************************************)
(* What the signature check of the ante handler promises the chain: an     *)
(* account executes a document only if its owner consented to exactly     *)
(* that document, for this chain and the account's current sequence, and  *)
(* is a signer of the document's messages; a document that names a fee    *)
(* payer is executed only if the payer consented to it too; every          *)
(* execution advances the sequence of each executing account by one, so a  *)
(* consented document is executed at most once.                            *)
(*                                                                         *)
(* Corrupt addresses belong to the attacker, who consents to anything.     *)
(* The actions are stated over the primed ledger, so this module serves    *)
(* as a property of an implementation, not as a model of its own.         *)
(***************************************************************************)
EXTENDS Naturals, FiniteSets

CONSTANTS Accounts, Corrupt, ChainID, NoPayer,
          Signers(_)   \* the set of signers of a document's messages

VARIABLES seq, consented, ledger

Approved(a, d) == a \in Corrupt \/ [acct |-> a, doc |-> d] \in consented

Init ==
  /\ seq = [a \in Accounts |-> 0]
  /\ consented = {}
  /\ ledger = {}

(* An owner consents to one more document.                               *)
Consent ==
  /\ consented \subseteq consented'
  /\ Cardinality(consented' \ consented) = 1
  /\ UNCHANGED <<seq, ledger>>

(* A set of accounts executes one document each.                         *)
Execute ==
  LET new == ledger' \ ledger
      S == {e.acct : e \in new}
  IN /\ new # {}
     /\ ledger \subseteq ledger'
     /\ \A e \in new :
          /\ e.acct \in Accounts
          /\ e.acct \in Signers(e.doc)
          /\ Approved(e.acct, e.doc)
          /\ e.doc.chain = ChainID
          /\ e.doc.seq = seq[e.acct]
          /\ e.doc.payer = NoPayer \/ Approved(e.doc.payer, e.doc)
     /\ \A e, f \in new : e.acct = f.acct => e = f
     /\ seq' = [a \in Accounts |-> IF a \in S THEN seq[a] + 1 ELSE seq[a]]
     /\ UNCHANGED consented

Next == Consent \/ Execute

Spec == Init /\ [][Next]_<<seq, consented, ledger>>

=============================================================================
