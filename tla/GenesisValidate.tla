--------------------------- MODULE GenesisValidate ---------------------------
(***************************************************************************)
(* GenesisState.Validate of the EVM module (src/x/evm/types/genesis.go):   *)
(* one pass over the genesis accounts with a map of the addresses seen so  *)
(* far; the first duplicate or invalid account stops it, and the params    *)
(* are validated last.  One step of the model is one iteration.            *)
(*                                                                         *)
(* ValidateAddress, Storage.Validate and Params.Validate are not in this   *)
(* repository: an address is valid when it is in ValidAddresses, and the  *)
(* storage and params results are inputs.                                  *)
(***************************************************************************)
EXTENDS Naturals, Sequences, SequencesExt, FiniteSets

CONSTANTS Addresses,       \* addresses a genesis file may list
          ValidAddresses,  \* those ethermint.ValidateAddress accepts
          MaxAccounts      \* length of the account list

VARIABLES accounts,  \* gs.Accounts
          paramsOk,  \* gs.Params.Validate() = nil
          i,         \* the loop index (1-based)
          seen,      \* the keys of seenAccounts
          result     \* Running, [kind |-> "ok"], or the error returned

vars == <<accounts, paramsOk, i, seen, result>>

Account == [address : Addresses, storageOk : BOOLEAN]

Running == [kind |-> "running"]

(* GenesisAccount.Validate: the address, then the storage.                *)
AccountError(acc) ==
  CASE acc.address \notin ValidAddresses -> "address"
    [] ~acc.storageOk -> "storage"
    [] OTHER -> "none"

(* An iteration that forgets seenAccounts[acc.Address] = true.          *)
GenesisStepNoRecord ==
  LET acc == accounts[i]
  IN /\ result = Running /\ i <= Len(accounts)
     /\ CASE acc.address \in seen ->
               /\ result' = [kind |-> "duplicated", address |-> acc.address]
               /\ UNCHANGED <<i, seen>>
          [] AccountError(acc) # "none" ->
               /\ result' = [kind |-> "invalid", address |-> acc.address,
                             cause |-> AccountError(acc)]
               /\ UNCHANGED <<i, seen>>
          [] OTHER ->
               /\ seen' = seen
               /\ i' = i + 1
               /\ UNCHANGED result
     /\ UNCHANGED <<accounts, paramsOk>>

(* One iteration of the loop: the duplicate check, the account check, and *)
(* seenAccounts[acc.Address] = true.                                       *)
GenesisStep ==
  LET acc == accounts[i]
  IN /\ result = Running /\ i <= Len(accounts)
     /\ CASE acc.address \in seen ->
               /\ result' = [kind |-> "duplicated", address |-> acc.address]
               /\ UNCHANGED <<i, seen>>
          [] AccountError(acc) # "none" ->
               /\ result' = [kind |-> "invalid", address |-> acc.address,
                             cause |-> AccountError(acc)]
               /\ UNCHANGED <<i, seen>>
          [] OTHER ->
               /\ seen' = seen \cup {acc.address}
               /\ i' = i + 1
               /\ UNCHANGED result
     /\ UNCHANGED <<accounts, paramsOk>>

(* After the loop: return gs.Params.Validate().                            *)
GenesisParams ==
  /\ result = Running /\ i > Len(accounts)
  /\ result' = IF paramsOk THEN [kind |-> "ok"] ELSE [kind |-> "params"]
  /\ UNCHANGED <<accounts, paramsOk, i, seen>>

Init ==
  /\ accounts \in BoundedSeq(Account, MaxAccounts)
  /\ paramsOk \in BOOLEAN
  /\ i = 1
  /\ seen = {}
  /\ result = Running

Next == GenesisStep \/ GenesisParams

Spec == Init /\ [][Next]_vars

(***************************************************************************)
(* Properties.                                                             *)
(***************************************************************************)
(* The reference: the first position that repeats an earlier address or  *)
(* holds an invalid account decides the error (a repeat is reported even  *)
(* if that account is also invalid); with none, the params decide.        *)
Repeats(k) == \E j \in 1..(k - 1) : accounts[j].address = accounts[k].address
Bad(k) == Repeats(k) \/ AccountError(accounts[k]) # "none"

Expected ==
  IF \E k \in DOMAIN accounts : Bad(k)
  THEN LET k == CHOOSE k \in DOMAIN accounts :
                  Bad(k) /\ \A j \in 1..(k - 1) : ~Bad(j)
       IN IF Repeats(k)
          THEN [kind |-> "duplicated", address |-> accounts[k].address]
          ELSE [kind |-> "invalid", address |-> accounts[k].address,
                cause |-> AccountError(accounts[k])]
  ELSE IF paramsOk THEN [kind |-> "ok"] ELSE [kind |-> "params"]

(* Validate returns exactly the reference verdict: every duplicate is     *)
(* caught at its second occurrence, whatever lies between, and the error *)
(* reported is the one of the first offending position.                   *)
ValidateMatchesReference == result # Running => result = Expected

=============================================================================
