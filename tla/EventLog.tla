------------------------------ MODULE EventLog ------------------------------
(***************************************************************************)
(* What the observer promises about the events of the program: every event *)
(* it records belongs to a finalized, successful transaction, is recorded  *)
(* once, is never forgotten, and is announced (counted and alerted on) at  *)
(* most once, and only after it was recorded.                              *)
(***************************************************************************)
EXTENDS Naturals

CONSTANT Ids   \* the identities of events

VARIABLES
  known,   \* the events of the finalized, successful transactions
  log,     \* the recorded events
  told     \* how often each event was announced

Init ==
  /\ known = {}
  /\ log = {}
  /\ told = [id \in Ids |-> 0]

(* The chain finalizes more events. *)
Grow ==
  /\ known' \in SUBSET Ids
  /\ known \subseteq known'
  /\ UNCHANGED <<log, told>>

Record(id) ==
  /\ id \notin log
  /\ log' = log \cup {id}
  /\ id \in known
  /\ UNCHANGED <<known, told>>

Announce(id) ==
  /\ id \in log /\ told[id] = 0
  /\ told' = [told EXCEPT ![id] = 1]
  /\ UNCHANGED <<known, log>>

Next == Grow \/ \E id \in Ids : Record(id) \/ Announce(id)

Spec == Init /\ [][Next]_<<known, log, told>>

=============================================================================
