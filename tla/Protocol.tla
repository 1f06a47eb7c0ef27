------------------------------ MODULE Protocol ------------------------------
(***************************************************************************)
(* The protocol configuration of the iron_vault program and the chain      *)
(* clock: the state every instruction of the program reads.                *)
(*                                                                         *)
(* A transaction of the chain is atomic: a failed require! or a failed     *)
(* call to the token program rolls back everything the instruction did.    *)
(* An instruction is therefore one action, whose guard is the conjunction  *)
(* of its checks.                                                          *)
(***************************************************************************)
EXTENDS Integers, FiniteSets

CONSTANTS
  Keys,                 \* the public keys that can sign a transaction
  DefaultKey,           \* Pubkey::default(): never a signer
  ProtocolAuthorities,  \* the <<admin, guardian>> pairs that are tried
  PauseChoices,         \* the flag sets that are tried
  MaxTime               \* the last clock value (bound)

VARIABLES
  protocol_config,      \* the singleton ProtocolConfig account
  now                   \* Clock::get()?.unix_timestamp

protocolVars == <<protocol_config, now>>

Pubkeys == Keys \cup {DefaultKey}

ASSUME ProtocolAssumption ==
  /\ DefaultKey \notin Keys
  /\ ProtocolAuthorities \subseteq Pubkeys \X Pubkeys
  /\ MaxTime \in Nat

(* A u32 mask is the set of its bits. *)
KNOWN_PAUSE_FLAGS ==
  {"ESCROW_CREATE", "ESCROW_RELEASE", "VAULT_CONFIG", "VAULT_OUTFLOW"}

ProtocolConfig ==
  [exists : BOOLEAN, admin : Pubkeys, guardian : Pubkeys,
   pause_flags : SUBSET KNOWN_PAUSE_FLAGS]

ProtocolTypeOK ==
  /\ protocol_config \in ProtocolConfig
  /\ now \in 0 .. MaxTime

ProtocolInit ==
  /\ protocol_config = [exists |-> FALSE, admin |-> DefaultKey,
                        guardian |-> DefaultKey, pause_flags |-> {}]
  /\ now = 0

-----------------------------------------------------------------------------

(* require_protocol_active: an instruction that takes the configuration    *)
(* account also needs that account to exist.                               *)
require_protocol_active(flag) ==
  /\ protocol_config.exists
  /\ flag \notin protocol_config.pause_flags

(* initialize_protocol: `init` fails when the account exists. *)
InitializeProtocol(admin, guardian) ==
  /\ ~protocol_config.exists
  /\ admin # DefaultKey /\ guardian # DefaultKey /\ admin # guardian
  /\ protocol_config' = [exists |-> TRUE, admin |-> admin,
                         guardian |-> guardian, pause_flags |-> {}]
  /\ UNCHANGED now

(* Variant: unknown bits are stored. *)
SetProtocolPauseUnchecked(caller, flags) ==
  /\ protocol_config.exists
  /\ caller = protocol_config.admin
  /\ protocol_config' = [protocol_config EXCEPT !.pause_flags = flags]
  /\ UNCHANGED now

(* set_protocol_pause: the guardian may add flags, only the admin may      *)
(* clear one.                                                              *)
SetProtocolPause(caller, flags) ==
  /\ protocol_config.exists
  /\ flags \subseteq KNOWN_PAUSE_FLAGS
  /\ caller \in {protocol_config.admin, protocol_config.guardian}
  /\ caller = protocol_config.guardian =>
       protocol_config.pause_flags \subseteq flags
  /\ protocol_config' = [protocol_config EXCEPT !.pause_flags = flags]
  /\ UNCHANGED now

(* The cluster's clock never goes back; it may skip values. *)
Tick ==
  /\ \E t \in (now + 1) .. MaxTime : now' = t
  /\ UNCHANGED protocol_config

ProtocolNext ==
  \/ \E p \in ProtocolAuthorities : InitializeProtocol(p[1], p[2])
  \/ \E caller \in Keys, flags \in PauseChoices : SetProtocolPause(caller, flags)
  \/ Tick

=============================================================================
