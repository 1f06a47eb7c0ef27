------------------------------ MODULE MCEscrow ------------------------------
(***************************************************************************)
(* Small instances of Escrow for TLC.                                      *)
(***************************************************************************)
EXTENDS Escrow, TLC

CONSTANTS alice, bob, admin, guardian, gold, fee, aliceGold, bobGold, bobFee

MCAuthorities == {<<admin, guardian>>, <<admin, admin>>, <<DefaultKey, guardian>>}

MCPauseChoices == {{}, {"ESCROW_RELEASE"}, {"ESCROW_CREATE", "ESCROW_RELEASE"},
                   {"UNKNOWN"}}

MCWalletMint == aliceGold :> gold @@ bobGold :> gold @@ bobFee :> fee

MCWalletOwner == aliceGold :> alice @@ bobGold :> bob @@ bobFee :> bob

MCBalances == aliceGold :> 2 @@ bobGold :> 1 @@ bobFee :> 1

(* Both parties, the default key, and the address of one of the escrows. *)
MCRecipients == {alice, bob, DefaultKey, <<alice, 2>>}

=============================================================================
