------------------------- MODULE WithdrawalPromise -------------------------
(***************************************************************************)
(* What a vault promises those who watch it, without signers, roles,       *)
(* pauses, spending windows or addresses. What leaves a reserve at once is *)
(* at most the instant limit of its asset. Anything larger is announced    *)
(* first, under the next number, and its terms never change: it is paid at *)
(* most once, to the announced account and for exactly the announced       *)
(* amount, after it matures and before it lapses, unless it was vetoed.    *)
(***************************************************************************)
EXTENDS Integers

CONSTANTS
  Tickets,   \* the numbers of the announcements
  Assets,
  Accounts,
  Reserve    \* the account that holds the vault's units of each asset

VARIABLES
  ticket,    \* per number, its state and terms
  funds,     \* per account, what it holds
  instant,   \* per asset, what may leave its reserve at once
  clock

vars == <<ticket, funds, instant, clock>>

Terms == [asset : Assets, payee : Accounts, amount : Nat, matures : Nat, lapses : Nat]

State(i) == ticket[i].state

Init ==
  /\ \A i \in Tickets : State(i) = "none"
  /\ \A a \in Assets : funds[Reserve[a]] = 0
  /\ clock = 0

Move(from, to, amount) ==
  /\ amount > 0 /\ amount <= funds[from]
  /\ from # to
  /\ funds' = [funds EXCEPT ![from] = @ - amount, ![to] = @ + amount]

(* The terms are whatever the announcement says. *)
Announce(i) ==
  LET terms == ticket'[i].terms
  IN  /\ \A j \in Tickets : State(j) = "none" <=> j >= i
      /\ ticket'[i].state = "waiting"
      /\ ticket' = [ticket EXCEPT ![i] = [state |-> "waiting", terms |-> terms]]
      /\ terms \in Terms
      /\ terms.amount > instant[terms.asset]
      /\ clock < terms.matures /\ terms.matures < terms.lapses
      /\ UNCHANGED <<funds, instant, clock>>

Pay(i) ==
  LET terms == ticket[i].terms
  IN  /\ State(i) = "waiting"
      /\ terms.matures <= clock /\ clock <= terms.lapses
      /\ ticket' = [ticket EXCEPT ![i].state = "paid"]
      /\ Move(Reserve[terms.asset], terms.payee, terms.amount)
      /\ UNCHANGED <<instant, clock>>

Veto(i) ==
  /\ State(i) = "waiting"
  /\ ticket' = [ticket EXCEPT ![i].state = "vetoed"]
  /\ UNCHANGED <<funds, instant, clock>>

PayAtOnce(a, to) ==
  LET amount == funds'[to] - funds[to]
  IN  /\ amount <= instant[a]
      /\ Move(Reserve[a], to, amount)
      /\ UNCHANGED <<ticket, instant, clock>>

(* A holder's own transfer, into a reserve if it likes. *)
HolderMoves(from, to) ==
  /\ \A a \in Assets : from # Reserve[a]
  /\ Move(from, to, funds'[to] - funds[to])
  /\ UNCHANGED <<ticket, instant, clock>>

(* A new limit applies to what is announced or paid from then on. *)
Adjust(a) ==
  /\ instant' = [instant EXCEPT ![a] = instant'[a]]
  /\ UNCHANGED <<ticket, funds, clock>>

Pass == clock' > clock /\ UNCHANGED <<ticket, funds, instant>>

Next ==
  \/ \E i \in Tickets : Announce(i) \/ Pay(i) \/ Veto(i)
  \/ \E a \in Assets, to \in Accounts : PayAtOnce(a, to)
  \/ \E from, to \in Accounts : HolderMoves(from, to)
  \/ \E a \in Assets : Adjust(a)
  \/ Pass

Spec == Init /\ [][Next]_vars

=============================================================================
