--------------------------- MODULE EscrowPromise ---------------------------
(***************************************************************************)
(* What an escrow promises its two parties, without pauses, signers, token *)
(* accounts or addresses. A deal is opened once and its terms never        *)
(* change. While it is open the promised amount is held for it. It ends    *)
(* once: delivered to the payee strictly before the expiry, or returned to *)
(* the payer at or after it. Whatever else is sent to the deal's custody   *)
(* stays there.                                                            *)
(***************************************************************************)
EXTENDS Integers

CONSTANTS Deals, Parties, MaxAmount, Horizon

VARIABLES
  deal,   \* per deal, its state and terms
  held,   \* per deal, what its custody holds
  clock

vars == <<deal, held, clock>>

Terms == [payer : Parties, payee : Parties, amount : 1 .. MaxAmount,
          expires_at : 0 .. Horizon + 1]

State(d) == deal[d].state

Init ==
  /\ \A d \in Deals : State(d) = "none"
  /\ held = [d \in Deals |-> 0]
  /\ clock = 0

(* Custody of the other deals may only grow. *)
OthersKeep(d) == \A f \in Deals \ {d} : held'[f] >= held[f]

(* The terms are whatever the two parties agree on. *)
Open(d) ==
  LET terms == deal'[d].terms
  IN  /\ State(d) = "none"
      /\ deal'[d].state = "open"
      /\ deal' = [deal EXCEPT ![d] = [state |-> "open", terms |-> terms]]
      /\ terms \in Terms
      /\ terms.payer # terms.payee
      /\ terms.expires_at > clock
      /\ held' = [held EXCEPT ![d] = terms.amount]
      /\ UNCHANGED clock

Settle(d, outcome) ==
  /\ held[d] >= deal[d].terms.amount
  /\ deal' = [deal EXCEPT ![d].state = outcome]
  /\ held' \in [Deals -> Nat]
  /\ held'[d] = held[d] - deal[d].terms.amount
  /\ OthersKeep(d)
  /\ UNCHANGED clock

Deliver(d) ==
  /\ State(d) = "open"
  /\ clock < deal[d].terms.expires_at
  /\ Settle(d, "delivered")

Return(d) ==
  /\ State(d) = "open"
  /\ clock >= deal[d].terms.expires_at
  /\ Settle(d, "returned")

(* An unsolicited transfer into the custody of an existing deal. *)
Donate ==
  /\ held' \in [Deals -> Nat]
  /\ \A d \in Deals : held'[d] >= held[d] /\ (State(d) = "none" => held'[d] = held[d])
  /\ UNCHANGED <<deal, clock>>

Pass == clock' > clock /\ UNCHANGED <<deal, held>>

Next ==
  \/ \E d \in Deals : Open(d) \/ Deliver(d) \/ Return(d)
  \/ Donate
  \/ Pass

Spec == Init /\ [][Next]_vars

=============================================================================
