---------------------------- MODULE VaultClient -----------------------------
(***************************************************************************)
(* requestWithdrawal of the TypeScript SDK, over the vault. It reads the   *)
(* vault, derives the address of the request from the counter it read,     *)
(* sends the transaction and returns the id it read; the vault moves on    *)
(* in between. A session is one client object: two of them may share a     *)
(* payer.                                                                  *)
(***************************************************************************)
EXTENDS Vault, Sequences

CONSTANTS
  Sessions,     \* the client objects
  payer         \* the payer of each of them, which signs as the proposer

VARIABLES
  session,      \* the call each client object is in
  returned      \* history: what the calls returned

clientVars == <<session, returned>>
systemVars == <<vaultVars, clientVars>>

ASSUME ClientAssumption == payer \in [Sessions -> Keys]

(* "sent": the transaction is out, the caller waits. "abandoned": the      *)
(* caller was told of a failure, the transaction may still be executed.    *)
Call ==
  [phase : {"idle", "sent", "abandoned"}, landed : BOOLEAN, id : Nat,
   with_role : BOOLEAN, mint : Mints \cup {DefaultKey},
   recipient_token : TokenAccounts \cup {DefaultKey}, amount : Nat]

NoCall ==
  [phase |-> "idle", landed |-> FALSE, id |-> 0, with_role |-> FALSE,
   mint |-> DefaultKey, recipient_token |-> DefaultKey, amount |-> 0]

Answer ==
  [by : Keys, id : Nat, mint : Mints, recipient_token : Wallets, amount : Amounts]

(* A call that was started has the terms it was started with. *)
ClientTypeOK ==
  /\ session \in [Sessions -> Call]
  /\ \A s \in Sessions : session[s].phase # "idle" =>
       /\ session[s].mint \in Mints /\ session[s].recipient_token \in Wallets
       /\ session[s].amount \in Amounts
  /\ \A s \in Sessions : session[s].landed => session[s].phase = "sent"
  /\ returned \in Seq(Answer)

ClientInit ==
  /\ VaultInit
  /\ session = [s \in Sessions |-> NoCall]
  /\ returned = <<>>

-----------------------------------------------------------------------------

(* requestWithdrawal up to send: fetchVault, then the addresses; the role  *)
(* account is passed unless the payer was the authority.                   *)
StartCall(s, m, recipient_token, amount) ==
  /\ session[s].phase = "idle"
  /\ vault.exists
  /\ session' = [session EXCEPT ![s] =
       [phase |-> "sent", landed |-> FALSE, id |-> vault.next_withdrawal_id,
        with_role |-> payer[s] # vault.authority, mint |-> m,
        recipient_token |-> recipient_token, amount |-> amount]]
  /\ UNCHANGED <<vaultVars, returned>>

(* Variant: the program does not tie the request's address to its counter. *)
AccountsMatchAnyId(s) == session[s].with_role = (payer[s] # vault.authority)

(* The accounts of the transaction are the ones the program expects: the   *)
(* request address is the one of the counter, and there is a role account  *)
(* exactly if the proposer is not the authority.                           *)
AccountsMatch(s) ==
  /\ session[s].id = vault.next_withdrawal_id
  /\ session[s].with_role = (payer[s] # vault.authority)

(* The transaction is executed: the program finds the accounts it expects, *)
(* or nothing happens.                                                     *)
Land(s) ==
  /\ session[s].phase \in {"sent", "abandoned"} /\ ~session[s].landed
  /\ AccountsMatch(s)
  /\ RequestWithdrawal(payer[s], session[s].mint, session[s].recipient_token,
                       session[s].amount)
  /\ session' = [session EXCEPT ![s] =
       IF @.phase = "abandoned" THEN NoCall ELSE [@ EXCEPT !.landed = TRUE]]
  /\ UNCHANGED returned

(* send resolves: the call returns the id it read. *)
ReturnCall(s) ==
  LET call == session[s]
  IN  /\ call.phase = "sent" /\ call.landed
      /\ returned' = Append(returned,
           [by |-> payer[s], id |-> call.id, mint |-> call.mint,
            recipient_token |-> call.recipient_token, amount |-> call.amount])
      /\ session' = [session EXCEPT ![s] = NoCall]
      /\ UNCHANGED vaultVars

(* send throws: the transaction failed, or its confirmation timed out, and *)
(* then it may have been executed or may still be.                         *)
ThrowCall(s) ==
  /\ session[s].phase = "sent"
  /\ session' = [session EXCEPT ![s] =
       IF @.landed THEN NoCall ELSE [@ EXCEPT !.phase = "abandoned"]]
  /\ UNCHANGED <<vaultVars, returned>>

(* The abandoned transaction was refused, or its blockhash expired. The    *)
(* caller calls again, or did so before in another session.                *)
Settle(s) ==
  /\ session[s].phase = "abandoned"
  /\ session' = [session EXCEPT ![s] = NoCall]
  /\ UNCHANGED <<vaultVars, returned>>

ClientNext ==
  \/ VaultNext /\ UNCHANGED clientVars
  \/ \E s \in Sessions, m \in Mints, w \in Wallets, amount \in Amounts :
        StartCall(s, m, w, amount)
  \/ \E s \in Sessions : Land(s)
  \/ \E s \in Sessions : ReturnCall(s)
  \/ \E s \in Sessions : ThrowCall(s)
  \/ \E s \in Sessions : Settle(s)

ClientSpec == ClientInit /\ [][ClientNext]_systemVars

-----------------------------------------------------------------------------

(* The id of the call is that of a request its caller made, on its terms. *)
Names(by, call) ==
  /\ call.id \in WithdrawalIds
  /\ LET r == requests[call.id]
     IN  /\ r.status # "Absent"
         /\ r.proposer = by /\ r.mint = call.mint /\ r.amount = call.amount
         /\ r.recipient_token_account = call.recipient_token

(* An id that requestWithdrawal returns names the caller's own request,    *)
(* with the terms it asked for, and no other call returns it, although the *)
(* id was read before the transaction was sent and others made requests in *)
(* the meantime.                                                           *)
ReturnedIdIsOwn ==
  /\ \A n \in DOMAIN returned : Names(returned[n].by, returned[n])
  /\ \A i, j \in DOMAIN returned : returned[i].id = returned[j].id => i = j

=============================================================================
