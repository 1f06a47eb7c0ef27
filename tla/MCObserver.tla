---------------------------- MODULE MCObserver -----------------------------
(***************************************************************************)
(* Small instances of Observer for TLC: a chain of four transactions.      *)
(***************************************************************************)
EXTENDS Observer

Item(ok, instruction_index, event_index, name, subject, authority, paused) ==
  [ok |-> ok, instruction_index |-> instruction_index, event_index |-> event_index,
   event |-> [name |-> name, subject |-> subject, authority |-> authority,
              paused |-> paused]]

(* 1 creates the vault and an escrow in one instruction; 2 logs an event   *)
(* that does not decode, pauses the vault and releases the escrow; 3       *)
(* rotates the authority and lifts the pause; 4 fails.                     *)
FourTransactions ==
  << << Item(TRUE, 0, 0, "VaultCreated", "vault", "alice", FALSE),
        Item(TRUE, 0, 1, "EscrowCreated", "escrow", "alice", FALSE) >>,
     << Item(FALSE, 0, 0, "Other", "vault", "alice", FALSE),
        Item(TRUE, 0, 1, "VaultPauseUpdated", "vault", "alice", TRUE),
        Item(TRUE, 1, 0, "EscrowReleased", "escrow", "alice", FALSE) >>,
     << Item(TRUE, 0, 0, "VaultAuthorityUpdated", "vault", "bob", FALSE),
        Item(TRUE, 1, 0, "VaultPauseUpdated", "vault", "bob", FALSE) >>,
     << >> >>

(* TLC keeps the value of a definition, but not of one that replaces a     *)
(* constant: hence the two names.                                          *)
MCParsed == FourTransactions

=============================================================================
