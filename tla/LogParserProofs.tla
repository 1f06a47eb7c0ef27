-------------------------- MODULE LogParserProofs ---------------------------
(***************************************************************************)
(* extract_events is right about every log: any programs, payloads, depth  *)
(* and length. The argument relates the parser's stack to the runtime's    *)
(* call stack. They are not equal, since what other programs print may     *)
(* push on, pop or clear the parser's; but whether IronVault is executing, *)
(* has called a program or is not on the stack at all, both always agree   *)
(* on.                                                                     *)
(***************************************************************************)
EXTENDS LogParser, SequenceTheorems, TLAPS

(* What the parser may take for a program. *)
Names == Programs \cup {printed}

(* IronVault is nowhere on a parser's stack, is on top of it only, or is   *)
(* right below the top only.                                               *)
Clean(P) == \A i \in 1 .. Len(P) : P[i] # program_id
TopOnly(P) == P # <<>> /\ Last(P) = program_id /\ Clean(Front(P))
BelowTop(P) == P # <<>> /\ Last(P) # program_id /\ TopOnly(Front(P))

(* The same of the runtime's stack, on which IronVault is called by other  *)
(* programs only and calls the token program only.                         *)
OnlyOthers(C) == \A i \in 1 .. Len(C) : C[i] \in OtherPrograms
Outside(C) == OnlyOthers(C) \/ (C # <<>> /\ Last(C) = token /\ OnlyOthers(Front(C)))
InVault(C) == C # <<>> /\ Last(C) = program_id /\ OnlyOthers(Front(C))
InCallee(C) == C # <<>> /\ Last(C) = token /\ InVault(Front(C))

(* Both stacks tell the same of IronVault. *)
Agree(C, P) ==
  \/ Outside(C) /\ Clean(P)
  \/ InVault(C) /\ TopOnly(P)
  \/ InCallee(C) /\ BelowTop(P)

-----------------------------------------------------------------------------
(***************************************************************************)
(* Stacks.                                                                 *)
(***************************************************************************)

(* Pushing and popping. *)
LEMMA Pushed ==
  ASSUME NEW S, NEW s \in Seq(S), NEW x \in S
  PROVE  /\ Append(s, x) \in Seq(S) /\ Append(s, x) # <<>>
         /\ Last(Append(s, x)) = x /\ Front(Append(s, x)) = s
<1>1. Append(s, x) \in Seq(S) /\ Append(s, x) # <<>> /\ Last(Append(s, x)) = x
  BY DEF Last
<1>2. Front(Append(s, x)) = s
  BY DEF Front
<1>3. QED
  BY <1>1, <1>2, Zenon

(* What is popped leaves the rest as it was. *)
LEMMA Popped ==
  ASSUME NEW S, NEW s \in Seq(S), s # <<>>
  PROVE  /\ Front(s) \in Seq(S) /\ Len(Front(s)) = Len(s) - 1 /\ Len(s) \in Nat \ {0}
         /\ \A i \in 1 .. Len(s) - 1 : Front(s)[i] = s[i]
         /\ Last(s) \in S
<1>1. Len(s) \in Nat \ {0}
  OBVIOUS
<1>2. Len(Front(s)) = Len(s) - 1
  <2>1. \A i \in 1 .. Len(s) - 1 : s[i] \in S
    BY <1>1
  <2>2. Len(SubSeq(s, 1, Len(s) - 1)) =
          IF 1 <= Len(s) - 1 THEN Len(s) - 1 - 1 + 1 ELSE 0
    BY <1>1, <2>1, SubSeqProperties
  <2>3. Len(Front(s)) = IF 1 <= Len(s) - 1 THEN Len(s) - 1 - 1 + 1 ELSE 0
    BY <2>2, Zenon DEF Front
  <2>4. \A n \in Nat \ {0} : (IF 1 <= n - 1 THEN n - 1 - 1 + 1 ELSE 0) = n - 1
    OBVIOUS
  <2>5. QED
    BY <1>1, <2>3, <2>4, ZenonT(30)
<1>3. ASSUME NEW i \in 1 .. Len(s) - 1
      PROVE  Front(s)[i] = s[i]
  BY <1>1 DEF Front
<1>4. Last(s) \in S
  BY <1>1 DEF Last
<1>5. Front(s) \in Seq(S)
  BY <1>1 DEF Front
<1>6. QED
  BY <1>1, <1>2, <1>3, <1>4, <1>5, ZenonT(30)

(* Another program on top keeps a stack clean; popping does too. *)
LEMMA StaysClean ==
  ASSUME NEW S, NEW P \in Seq(S), Clean(P)
  PROVE  /\ \A x \in S : x # program_id => Clean(Append(P, x))
         /\ P # <<>> => Clean(Front(P)) /\ Last(P) # program_id
<1>1. ASSUME NEW x \in S, x # program_id
      PROVE  Clean(Append(P, x))
  BY <1>1 DEF Clean
<1>2. ASSUME P # <<>>
      PROVE  Clean(Front(P)) /\ Last(P) # program_id
  <2>1. /\ Len(Front(P)) = Len(P) - 1 /\ Len(P) \in Nat \ {0}
        /\ \A i \in 1 .. Len(P) - 1 : Front(P)[i] = P[i]
    BY <1>2, Popped, ZenonT(30)
  <2>2. Len(P) \in 1 .. Len(P) /\ \A i \in 1 .. Len(P) - 1 : i \in 1 .. Len(P)
    BY <2>1
  <2>3. QED
    BY <2>1, <2>2, ZenonT(30) DEF Clean, Last
<1>3. QED
  BY <1>1, <1>2, ZenonT(30)

(* The same of a call stack that holds only other programs. *)
LEMMA StaysOthers ==
  ASSUME NEW S, NEW C \in Seq(S), OnlyOthers(C)
  PROVE  /\ \A x \in S : x \in OtherPrograms => OnlyOthers(Append(C, x))
         /\ C # <<>> => OnlyOthers(Front(C)) /\ Last(C) \in OtherPrograms
<1>1. ASSUME NEW x \in S, x \in OtherPrograms
      PROVE  OnlyOthers(Append(C, x))
  BY <1>1 DEF OnlyOthers
<1>2. ASSUME C # <<>>
      PROVE  OnlyOthers(Front(C)) /\ Last(C) \in OtherPrograms
  <2>1. /\ Len(Front(C)) = Len(C) - 1 /\ Len(C) \in Nat \ {0}
        /\ \A i \in 1 .. Len(C) - 1 : Front(C)[i] = C[i]
    BY <1>2, Popped, ZenonT(30)
  <2>2. Len(C) \in 1 .. Len(C) /\ \A i \in 1 .. Len(C) - 1 : i \in 1 .. Len(C)
    BY <2>1
  <2>3. QED
    BY <2>1, <2>2, ZenonT(30) DEF OnlyOthers, Last
<1>3. QED
  BY <1>1, <1>2

(* What each kind of call, and a return, does to both stacks.              *)
LEMMA CallFromOutside ==
  ASSUME NEW C \in Seq(Programs), NEW P \in Seq(Names), OnlyOthers(C), Clean(P),
         NEW x \in Programs
  PROVE  Agree(Append(C, x), Append(P, x))
<1> x \in Names
  BY DEF Names
<1>1. CASE x = program_id
  <2>1. InVault(Append(C, x))
    BY <1>1, Pushed, ZenonT(30) DEF InVault
  <2>2. TopOnly(Append(P, x))
    BY <1>1, Pushed, ZenonT(30) DEF TopOnly
  <2>3. QED
    BY <2>1, <2>2, Zenon DEF Agree
<1>2. CASE x = token
  <2>1. Clean(Append(P, x))
    BY <1>2, StaysClean, ParserAssumption, ZenonT(30)
  <2>2. Outside(Append(C, x))
    BY <1>2, Pushed, ZenonT(30) DEF Outside
  <2>3. QED
    BY <2>1, <2>2, Zenon DEF Agree
<1>3. CASE x \in OtherPrograms
  <2>1. Clean(Append(P, x))
    BY <1>3, StaysClean, ParserAssumption, Zenon
  <2>2. Outside(Append(C, x))
    BY <1>3, StaysOthers, ZenonT(30) DEF Outside
  <2>3. QED
    BY <2>1, <2>2, Zenon DEF Agree
<1>4. QED
  BY <1>1, <1>2, <1>3, Zenon DEF Programs

(* IronVault calls the token program. *)
LEMMA CallFromVault ==
  ASSUME NEW C \in Seq(Programs), NEW P \in Seq(Names), InVault(C), TopOnly(P)
  PROVE  Agree(Append(C, token), Append(P, token))
<1>1. token \in Programs /\ token \in Names /\ token # program_id
  BY ParserAssumption, Zenon DEF Programs, Names
<1>2. InCallee(Append(C, token))
  BY <1>1, Pushed, ZenonT(30) DEF InCallee
<1>3. BelowTop(Append(P, token))
  BY <1>1, Pushed, ZenonT(30) DEF BelowTop
<1>4. QED
  BY <1>2, <1>3, Zenon DEF Agree

(* A call returns, and the parser pops. *)
LEMMA ReturnAgrees ==
  ASSUME NEW C \in Seq(Programs), NEW P \in Seq(Names), Agree(C, P), C # <<>>
  PROVE  Agree(Front(C), IF P = <<>> THEN P ELSE Front(P))
<1>1. CASE Outside(C) /\ Clean(P)
  <2>1. Clean(IF P = <<>> THEN P ELSE Front(P))
    BY <1>1, StaysClean, ZenonT(30)
  <2>2. Outside(Front(C))
    BY <1>1, StaysOthers, Zenon DEF Outside
  <2>3. QED
    BY <2>1, <2>2, Zenon DEF Agree
<1>2. CASE InVault(C) /\ TopOnly(P)
  BY <1>2, Zenon DEF Agree, Outside, InVault, TopOnly
<1>3. CASE InCallee(C) /\ BelowTop(P)
  BY <1>3, ZenonT(30) DEF Agree, InCallee, BelowTop
<1>4. QED
  BY <1>1, <1>2, <1>3, Zenon DEF Agree

(* Which of the three a state is, from the program that executes.          *)
LEMMA WhoExecutes ==
  ASSUME NEW P \in Seq(Names), Agree(calls, P), calls \in Seq(Programs)
  PROVE  /\ ExecutingOther => OnlyOthers(calls) /\ Clean(P)
         /\ Executing(program_id) => InVault(calls) /\ TopOnly(P)
<1>1. /\ OnlyOthers(calls) /\ calls # <<>> => Last(calls) \in OtherPrograms
      /\ program_id \notin OtherPrograms /\ token \notin OtherPrograms /\ program_id # token
  BY StaysOthers, ParserAssumption, ZenonT(30)
<1>2. ASSUME ExecutingOther
      PROVE  OnlyOthers(calls) /\ Clean(P)
  BY <1>1, <1>2, ZenonT(30) DEF Agree, Outside, InVault, InCallee, ExecutingOther, Executing
<1>3. ASSUME Executing(program_id)
      PROVE  InVault(calls) /\ TopOnly(P)
  BY <1>1, <1>3, ZenonT(30) DEF Agree, Outside, InVault, InCallee, Executing
<1>4. QED
  BY <1>2, <1>3, ZenonT(30)

-----------------------------------------------------------------------------
(***************************************************************************)
(* The lines, as the loop takes them.                                      *)
(***************************************************************************)

Entries ==
  [ok : BOOLEAN, instruction_index : Int, event_index : Nat, event : Payloads]

ParserState ==
  [stack : Seq(Names), instruction_index : Int,
   event_indexes : UNION {[D -> Nat] : D \in SUBSET Int}, output : Seq(Entries)]

(* An entry holds a payload under an identity. *)
IsEntry(e, payload, n, r) ==
  /\ e \in Entries /\ e.instruction_index = n /\ e.event_index = r
  /\ e.event = payload /\ e.ok = (payload \in Decodable)

(* The entry of a payload does. *)
LEMMA EntryTyped ==
  ASSUME NEW payload \in Payloads, NEW n \in Int, NEW r \in Nat
  PROVE  IsEntry(Entry(payload, n, r), payload, n, r)
  BY DEF Entry, Entries, IsEntry

(* An instruction the parser has no count for counts 0. *)
LEMMA CountIsNat ==
  ASSUME NEW state \in ParserState, NEW index
  PROVE  EventIndex(state, index) \in Nat
<1>1. PICK D \in SUBSET Int : state.event_indexes \in [D -> Nat]
  BY Zenon DEF ParserState
<1>2. QED
  BY <1>1, Zenon DEF EventIndex

(* An invocation by the transaction, and one by a program. *)
LEMMA InvokeEffect ==
  ASSUME NEW state \in ParserState, NEW program \in Names,
         NEW next, next = OnLine(state, Invoke(program, 1))
  PROVE  /\ next \in ParserState
         /\ next.stack = Append(<<>>, program)
         /\ next.instruction_index = state.instruction_index + 1
         /\ next.event_indexes = state.event_indexes
         /\ next.output = state.output
<1> DEFINE stack == Append(<<>>, program)
           index == state.instruction_index + 1
<1>1. stack \in Seq(Names) /\ index \in Int
  BY DEF ParserState
<1>2. next = [state EXCEPT !.instruction_index = index, !.stack = stack]
  BY Zenon DEF OnLine, OnInvoke, Invoke
<1> HIDE DEF stack, index
<1>3. /\ next \in ParserState /\ next.stack = stack /\ next.instruction_index = index
      /\ next.event_indexes = state.event_indexes /\ next.output = state.output
  BY <1>1, <1>2, Zenon DEF ParserState
<1>4. QED
  BY <1>3, Zenon DEF stack, index

(* A line moves the parser's stack and nothing else. *)
OnlyStack(state, next, stack) ==
  /\ next \in ParserState /\ next.stack = stack
  /\ next.instruction_index = state.instruction_index
  /\ next.event_indexes = state.event_indexes
  /\ next.output = state.output

(* The parser stays at its instruction when a program invokes another.     *)
LEMMA InnerInvokeEffect ==
  ASSUME NEW state \in ParserState, NEW program \in Names, NEW depth \in Nat, depth # 1,
         NEW next, next = OnLine(state, Invoke(program, depth))
  PROVE  OnlyStack(state, next, Append(state.stack, program))
<1> DEFINE stack == Append(state.stack, program)
<1>1. stack \in Seq(Names)
  BY DEF ParserState
<1>2. next = [state EXCEPT !.instruction_index = state.instruction_index, !.stack = stack]
  BY Zenon DEF OnLine, OnInvoke, Invoke
<1> HIDE DEF stack
<1>3. /\ next \in ParserState /\ next.stack = stack
      /\ next.instruction_index = state.instruction_index
      /\ next.event_indexes = state.event_indexes /\ next.output = state.output
  BY <1>1, <1>2, Zenon DEF ParserState
<1>4. QED
  BY <1>3, Zenon DEF stack, OnlyStack

(* A closing line. *)
LEMMA ClosingEffect ==
  ASSUME NEW state \in ParserState, NEW next, next = OnLine(state, Closing)
  PROVE  /\ next \in ParserState
         /\ next.stack = IF state.stack = <<>> THEN state.stack ELSE Front(state.stack)
         /\ next.instruction_index = state.instruction_index
         /\ next.event_indexes = state.event_indexes
         /\ next.output = state.output
<1> DEFINE stack == IF state.stack = <<>> THEN state.stack ELSE Front(state.stack)
<1>1. stack \in Seq(Names)
  BY Popped, Zenon DEF ParserState
<1>2. next = [state EXCEPT !.stack = stack]
  BY Zenon DEF OnLine, OnClosing, Closing
<1> HIDE DEF stack
<1>3. /\ next \in ParserState /\ next.stack = stack
      /\ next.instruction_index = state.instruction_index
      /\ next.event_indexes = state.event_indexes /\ next.output = state.output
  BY <1>1, <1>2, ZenonT(30) DEF ParserState
<1>4. QED
  BY <1>3, Zenon DEF stack

(* Data of the active program, at a top-level instruction. *)
LEMMA DataEffect ==
  ASSUME NEW state \in ParserState, NEW payload \in Payloads, Active(state),
         state.instruction_index >= 0,
         NEW next, next = OnLine(state, Data(payload))
  PROVE  LET index == state.instruction_index
         IN  /\ next \in ParserState
             /\ next.stack = state.stack
             /\ next.instruction_index = index
             /\ DOMAIN next.event_indexes = DOMAIN state.event_indexes \cup {index}
             /\ EventIndex(next, index) = EventIndex(state, index) + 1
             /\ next.output =
                  Append(state.output, Entry(payload, index, EventIndex(state, index)))
<1> DEFINE index == IF state.instruction_index < 0 THEN 0 ELSE state.instruction_index
           n == EventIndex(state, index)
           f == state.event_indexes
           indexes == [i \in DOMAIN f \cup {index} |-> IF i = index THEN n + 1 ELSE f[i]]
           output == Append(state.output, Entry(payload, index, n))
<1>1. PICK D \in SUBSET Int : f \in [D -> Nat]
  BY DEF ParserState
<1>2. next = [state EXCEPT !.event_indexes = indexes, !.output = output]
  BY Zenon DEF OnLine, OnData, Data
<1>3. index = state.instruction_index /\ index \in Int
  BY DEF ParserState
<1> HIDE DEF index
<1>4. n \in Nat
  BY <1>1, <1>3, ZenonT(30) DEF EventIndex
<1>5. indexes \in UNION {[E -> Nat] : E \in SUBSET Int}
  <2>1. D \cup {index} \in SUBSET Int
    BY <1>3, Zenon
  <2>2. DOMAIN f = D /\ \A i \in D : f[i] \in Nat
    BY <1>1, ZenonT(30)
  <2>3. \A i \in D \cup {index} : (IF i = index THEN n + 1 ELSE f[i]) \in Nat
    <3>1. n + 1 \in Nat
      BY <1>4
    <3>2. QED
      BY <2>2, <3>1, Zenon
  <2>4. indexes \in [D \cup {index} -> Nat]
    BY <2>2, <2>3, ZenonT(30)
  <2>5. QED
    BY <2>1, <2>4, Zenon
<1>6. output \in Seq(Entries)
  <2>1. Entry(payload, index, n) \in Entries
    <3>1. IsEntry(Entry(payload, index, n), payload, index, n)
      BY <1>3, <1>4, EntryTyped, Zenon
    <3>2. QED
      BY <3>1, Zenon DEF IsEntry
  <2>2. state.output \in Seq(Entries)
    BY Zenon DEF ParserState
  <2>3. QED
    BY <2>1, <2>2, Pushed, Zenon
<1>7. indexes[index] = n + 1 /\ DOMAIN indexes = DOMAIN f \cup {index}
  OBVIOUS
<1> HIDE DEF indexes, output, n, f
<1>8. /\ next \in ParserState /\ next.stack = state.stack
      /\ next.instruction_index = state.instruction_index
      /\ next.event_indexes = indexes /\ next.output = output
  BY <1>2, <1>5, <1>6, ZenonT(30) DEF ParserState
<1>9. EventIndex(next, index) = n + 1
  BY <1>7, <1>8, Zenon DEF EventIndex
<1>10. QED
  BY <1>3, <1>7, <1>8, <1>9, ZenonT(30) DEF n, f, output

(* Data while another program is active, and text, change nothing.         *)
LEMMA IgnoredLines ==
  ASSUME NEW state
  PROVE  /\ OnLine(state, Text) = state
         /\ \A payload : ~Active(state) => OnLine(state, Data(payload)) = state
  BY Zenon DEF OnLine, Text, Data

-----------------------------------------------------------------------------
(***************************************************************************)
(* Identities.                                                             *)
(***************************************************************************)

Precedes(e, index, event_index) ==
  \/ e.instruction_index < index
  \/ e.instruction_index = index /\ e.event_index < event_index

AllPrecede(E, index, event_index) == \A i \in 1 .. Len(E) : Precedes(E[i], index, event_index)

Increasing(E) ==
  \A i, j \in 1 .. Len(E) : i < j => Precedes(E[i], E[j].instruction_index, E[j].event_index)

(* An entry before n at a rank is before instruction n + 1, and before the *)
(* next rank of n.                                                         *)
LEMMA PrecedesLater ==
  ASSUME NEW e \in Entries, NEW n \in Int, NEW r \in Nat, Precedes(e, n, r)
  PROVE  Precedes(e, n + 1, 0) /\ Precedes(e, n, r + 1)
  BY DEF Entries, Precedes

(* The next instruction keeps everything emitted before it. *)
LEMMA NextInstruction ==
  ASSUME NEW E \in Seq(Entries), NEW n \in Int, NEW r \in Nat, AllPrecede(E, n, r)
  PROVE  AllPrecede(E, n + 1, 0)
<1>1. \A i \in 1 .. Len(E) : E[i] \in Entries
  OBVIOUS
<1>2. QED
  BY <1>1, PrecedesLater, ZenonT(30) DEF AllPrecede

(* What is emitted next comes after everything before it. *)
LEMMA NextEntry ==
  ASSUME NEW E \in Seq(Entries), NEW n \in Int, NEW r \in Nat, AllPrecede(E, n, r),
         Increasing(E), NEW e \in Entries, e.instruction_index = n, e.event_index = r,
         NEW F, F = Append(E, e)
  PROVE  AllPrecede(F, n, r + 1) /\ Increasing(F)
<1>1. /\ \A i \in 1 .. Len(E) : F[i] = E[i] /\ E[i] \in Entries
      /\ Len(F) = Len(E) + 1 /\ F[Len(E) + 1] = e /\ Len(E) \in Nat
  OBVIOUS
<1>2. \A i \in 1 .. Len(F) : i \in 1 .. Len(E) \/ i = Len(E) + 1
  BY <1>1
<1>3. \A i \in 1 .. Len(E) : Precedes(F[i], n, r) /\ Precedes(F[i], n, r + 1)
  BY <1>1, PrecedesLater, Zenon DEF AllPrecede
<1>4. Precedes(e, n, r + 1)
  BY DEF Precedes
<1>5. AllPrecede(F, n, r + 1)
  BY <1>1, <1>2, <1>3, <1>4, ZenonT(30) DEF AllPrecede
<1>6. ASSUME NEW i \in 1 .. Len(F), NEW j \in 1 .. Len(F), i < j
      PROVE  Precedes(F[i], F[j].instruction_index, F[j].event_index)
  <2>1. i \in 1 .. Len(E)
    <3>1. \A k \in Nat : \A x, y \in 1 .. k + 1 : x < y => x \in 1 .. k
      OBVIOUS
    <3>2. QED
      BY <1>1, <1>6, <3>1, ZenonT(30)
  <2>2. CASE j \in 1 .. Len(E)
    BY <1>1, <1>6, <2>1, <2>2, ZenonT(30) DEF Increasing
  <2>3. CASE j = Len(E) + 1
    BY <1>1, <1>3, <2>1, <2>3, ZenonT(30)
  <2>4. QED
    BY <1>2, <2>2, <2>3, ZenonT(30)
<1>7. QED
  BY <1>5, <1>6, ZenonT(30) DEF Increasing

(* The parser's entries come before the identity it would give out next.   *)
Ordered(state) ==
  /\ \A i \in DOMAIN state.event_indexes : i <= state.instruction_index
  /\ AllPrecede(state.output, state.instruction_index,
                EventIndex(state, state.instruction_index))
  /\ Increasing(state.output)

(* They still do when the parser moves to the next instruction, of which   *)
(* it has counted nothing.                                                 *)
LEMMA OrderedAfterInvoke ==
  ASSUME NEW state \in ParserState, Ordered(state), NEW next,
         next.instruction_index = state.instruction_index + 1,
         next.event_indexes = state.event_indexes, next.output = state.output
  PROVE  Ordered(next) /\ EventIndex(next, next.instruction_index) = 0
<1> DEFINE n == state.instruction_index
<1>1. n \in Int /\ state.output \in Seq(Entries)
  BY DEF ParserState
<1>2. EventIndex(state, n) \in Nat
  BY CountIsNat, ZenonT(30)
<1>3. n + 1 \notin DOMAIN state.event_indexes
  <2>1. \A i \in DOMAIN state.event_indexes : i <= n
    BY Zenon DEF Ordered
  <2>2. ~(n + 1 <= n)
    BY <1>1
  <2>3. QED
    BY <2>1, <2>2, Zenon
<1>4. EventIndex(next, n + 1) = 0
  BY <1>3, Zenon DEF EventIndex
<1>5. AllPrecede(state.output, n + 1, 0)
  BY <1>1, <1>2, NextInstruction, ZenonT(30) DEF Ordered
<1>6. \A i \in DOMAIN state.event_indexes : i <= n + 1
  <2>1. DOMAIN state.event_indexes \subseteq Int
    BY Zenon DEF ParserState
  <2>2. QED
    <3>1. \A i \in DOMAIN state.event_indexes : i <= n
      BY Zenon DEF Ordered
    <3>2. \A i \in Int : i <= n => i <= n + 1
      BY <1>1
    <3>3. QED
      BY <2>1, <3>1, <3>2, Zenon
<1>7. QED
  BY <1>4, <1>5, <1>6, ZenonT(30) DEF Ordered

(* And when it counts the data it has just found. *)
LEMMA OrderedAfterData ==
  ASSUME NEW state \in ParserState, Ordered(state), NEW payload \in Payloads,
         NEW n, n = state.instruction_index, NEW r, r = EventIndex(state, n),
         NEW next, next.instruction_index = n,
         DOMAIN next.event_indexes = DOMAIN state.event_indexes \cup {n},
         EventIndex(next, n) = r + 1,
         next.output = Append(state.output, Entry(payload, n, r))
  PROVE  Ordered(next)
<1> DEFINE e == Entry(payload, n, r)
<1>1. n \in Int /\ state.output \in Seq(Entries)
  BY Zenon DEF ParserState
<1>2. r \in Nat
  BY CountIsNat, Zenon
<1>3. e \in Entries /\ e.instruction_index = n /\ e.event_index = r
  <2>1. IsEntry(e, payload, n, r)
    BY <1>1, <1>2, EntryTyped, Zenon
  <2>2. QED
    BY <2>1, Zenon DEF IsEntry
<1>4. next.output = Append(state.output, e)
  OBVIOUS
<1> HIDE DEF e
<1>5. AllPrecede(state.output, n, r) /\ Increasing(state.output)
  BY Zenon DEF Ordered
<1>6. AllPrecede(next.output, n, r + 1) /\ Increasing(next.output)
  BY <1>1, <1>2, <1>3, <1>4, <1>5, NextEntry, ZenonT(30)
<1>7. \A i \in DOMAIN next.event_indexes : i <= n
  <2>1. \A i \in DOMAIN state.event_indexes : i <= n
    BY Zenon DEF Ordered
  <2>2. n <= n
    BY <1>1
  <2>3. QED
    BY <2>1, <2>2, Zenon
<1>8. QED
  BY <1>6, <1>7, ZenonT(30) DEF Ordered

-----------------------------------------------------------------------------
(***************************************************************************)
(* The invariant.                                                          *)
(***************************************************************************)

ParserTypeOK ==
  /\ calls \in Seq(Programs)
  /\ instruction \in Int /\ instruction >= -1 /\ rank \in Nat
  /\ emitted \in Seq(Entries)
  /\ misread \in Nat /\ lines \in Nat
  /\ parser \in ParserState

(* The parser counts as the runtime does, and a misread message besides.   *)
Counts ==
  /\ parser.instruction_index = instruction + misread
  /\ calls # <<>> => instruction >= 0
  /\ misread = 0 => EventIndex(parser, instruction) = rank

ParserInv ==
  /\ ParserTypeOK
  /\ Agree(calls, parser.stack)
  /\ Counts
  /\ ParserFindsEmissions
  /\ Ordered(parser)

(* Instructions and messages read as one, counted together. *)
CountedTogether(a, b) ==
  /\ a + 1 \in Int /\ a + 1 >= -1 /\ a + 1 >= 0 /\ b + 1 \in Nat /\ b + 1 # 0
  /\ a + b \in Int /\ (a >= 0 => a + b >= 0)
  /\ b = 0 => a + b = a /\ (a + 1) + b = a + 1
  /\ (a + b) + 1 = (a + 1) + b /\ (a + b) + 1 = a + (b + 1)

(* The arithmetic of the two counts. *)
LEMMA Counting ==
  ASSUME NEW a \in Int, a >= -1, NEW b \in Nat
  PROVE  CountedTogether(a, b)
  BY DEF CountedTogether

(* Every line is counted. *)
LEMMA LineCounted ==
  ASSUME ParserInv, NEW line, Log(line)
  PROVE  lines' \in Nat
<1>1. lines \in Nat /\ lines' = lines + 1
  BY Zenon DEF ParserInv, ParserTypeOK, Log
<1>2. QED
  BY <1>1

(* A program that is called is at least at depth 2. *)
LEMMA CallDepth ==
  ASSUME NEW S, NEW s \in Seq(S), s # <<>>
  PROVE  Len(s) + 1 \in Nat /\ Len(s) + 1 # 1
  OBVIOUS

(* The invariant holds before the first line. *)
LEMMA ParserInitInv == ParserInit => ParserInv
<1> SUFFICES ASSUME ParserInit
             PROVE  ParserInv
  OBVIOUS
<1>1. parser \in ParserState
  <2>1. [i \in {} |-> 0] \in UNION {[D -> Nat] : D \in SUBSET Int}
    <3>1. [i \in {} |-> 0] \in [{} -> Nat] /\ {} \in SUBSET Int
      OBVIOUS
    <3>2. QED
      BY <3>1, Zenon
  <2>2. QED
    BY <2>1 DEF ParserInit, Start, ParserState
<1>2. ParserTypeOK
  <2>1. /\ <<>> \in Seq(Programs) /\ <<>> \in Seq(Entries)
        /\ -1 \in Int /\ -1 >= -1 /\ 0 \in Nat
    OBVIOUS
  <2>2. QED
    BY <1>1, <2>1, Zenon DEF ParserInit, ParserTypeOK
<1>3. Agree(calls, parser.stack)
  BY DEF ParserInit, Start, Agree, Outside, OnlyOthers, Clean
<1>4. Counts
  BY DEF ParserInit, Start, Counts, EventIndex
<1>5. Ordered(parser)
  BY DEF ParserInit, Start, Ordered, AllPrecede, Increasing
<1>6. ParserFindsEmissions
  BY Zenon DEF ParserInit, Start, ParserFindsEmissions
<1>7. QED
  BY <1>2, <1>3, <1>4, <1>5, <1>6, ZenonT(30) DEF ParserInv

(* The transaction starts an instruction. *)
LEMMA CallInstructionStep ==
  ASSUME ParserInv, NEW program \in Programs, CallInstruction(program)
  PROVE  ParserInv'
<1>1. /\ parser \in ParserState /\ parser' = OnLine(parser, Invoke(program, 1))
      /\ program \in Names
  BY Zenon DEF ParserInv, ParserTypeOK, CallInstruction, Log, Names
<1>2. /\ parser' \in ParserState /\ parser'.stack = Append(<<>>, program)
      /\ parser'.instruction_index = parser.instruction_index + 1
      /\ parser'.event_indexes = parser.event_indexes
      /\ parser'.output = parser.output
  BY <1>1, InvokeEffect, ZenonT(30)
<1>3. Agree(calls', parser'.stack)
  <2>1. /\ <<>> \in Seq(Programs) /\ <<>> \in Seq(Names)
        /\ OnlyOthers(<<>>) /\ Clean(<<>>)
    BY DEF OnlyOthers, Clean
  <2>2. calls' = Append(<<>>, program)
    BY DEF CallInstruction
  <2>3. QED
    BY <1>2, <2>1, <2>2, CallFromOutside, ZenonT(30)
<1>4. ParserTypeOK'
  <2>1. <<program>> \in Seq(Programs)
    OBVIOUS
  <2>2. /\ calls' = <<program>> /\ instruction' = instruction + 1 /\ rank' = 0
        /\ UNCHANGED <<emitted, misread>> /\ Log(Invoke(program, 1))
    BY Zenon DEF CallInstruction
  <2>3. lines' \in Nat
    BY <2>2, LineCounted, Zenon
  <2>4. CountedTogether(instruction, misread)
    BY Counting, Zenon DEF ParserInv, ParserTypeOK
  <2>5. 0 \in Nat
    OBVIOUS
  <2>6. QED
    BY <1>2, <2>1, <2>2, <2>3, <2>4, <2>5, Zenon
       DEF ParserInv, ParserTypeOK, CountedTogether
<1>5. Ordered(parser') /\ EventIndex(parser', parser'.instruction_index) = 0
  BY <1>1, <1>2, OrderedAfterInvoke, ZenonT(30) DEF ParserInv
<1>6. Counts'
  <2>1. /\ instruction' = instruction + 1 /\ rank' = 0 /\ instruction \in Int
        /\ instruction >= -1 /\ parser.instruction_index = instruction + misread
        /\ misread' = misread /\ misread \in Nat
    BY Zenon DEF ParserInv, ParserTypeOK, Counts, CallInstruction
  <2> CountedTogether(instruction, misread)
    BY <2>1, Counting, Zenon
  <2>2. parser'.instruction_index = instruction' + misread'
    BY <1>2, <2>1, Zenon DEF CountedTogether
  <2>3. ASSUME misread' = 0
        PROVE  EventIndex(parser', instruction') = rank'
    <3>1. parser'.instruction_index = instruction'
      BY <2>1, <2>2, <2>3, Zenon DEF CountedTogether
    <3>2. QED
      BY <1>5, <2>1, <3>1, Zenon
  <2>4. instruction' >= 0
    BY <2>1, Zenon DEF CountedTogether
  <2>5. QED
    BY <2>2, <2>3, <2>4, Zenon DEF Counts
<1>7. ParserFindsEmissions'
  BY <1>2, Zenon DEF ParserInv, ParserFindsEmissions, CallInstruction
<1>8. QED
  BY <1>3, <1>4, <1>5, <1>6, <1>7, ZenonT(30) DEF ParserInv

(* A step that logs a line but counts, emits and returns no entry.         *)
LEMMA SameCounts ==
  ASSUME ParserInv, calls # <<>> \/ calls' = calls, calls' \in Seq(Programs),
         UNCHANGED <<instruction, rank, emitted, misread>>, lines' \in Nat,
         parser' \in ParserState,
         parser'.instruction_index = parser.instruction_index,
         parser'.event_indexes = parser.event_indexes,
         parser'.output = parser.output,
         Agree(calls', parser'.stack)
  PROVE  ParserInv'
<1>1. ParserTypeOK'
  BY Zenon DEF ParserInv, ParserTypeOK
<1>2. Counts'
  <2>1. EventIndex(parser, instruction)' = EventIndex(parser, instruction)
    BY Zenon DEF EventIndex
  <2>2. QED
    BY <2>1, Zenon DEF ParserInv, Counts
<1>3. Ordered(parser')
  BY Zenon DEF ParserInv, Ordered, EventIndex
<1>4. ParserFindsEmissions'
  BY Zenon DEF ParserInv, ParserFindsEmissions
<1>5. QED
  BY <1>1, <1>2, <1>3, <1>4, ZenonT(30) DEF ParserInv

(* Nor does one that the parser ignores. *)
LEMMA SameParser ==
  ASSUME ParserInv, UNCHANGED <<calls, instruction, rank, emitted, misread>>,
         lines' \in Nat, parser' = parser
  PROVE  ParserInv'
<1>1. /\ calls' = calls /\ calls' \in Seq(Programs) /\ parser' \in ParserState
      /\ Agree(calls', parser'.stack)
  BY Zenon DEF ParserInv, ParserTypeOK
<1>2. QED
  BY <1>1, SameCounts, ZenonT(30)

(* One program calls another. *)
LEMMA CallProgramStep ==
  ASSUME ParserInv, NEW program \in Programs, CallProgram(program)
  PROVE  ParserInv'
<1>1. /\ parser \in ParserState /\ calls \in Seq(Programs) /\ calls # <<>>
      /\ parser' = OnLine(parser, Invoke(program, Len(calls) + 1))
      /\ calls' = Append(calls, program)
      /\ Agree(calls, parser.stack) /\ parser.stack \in Seq(Names) /\ program \in Names
  BY DEF ParserInv, ParserTypeOK, CallProgram, Log, ExecutingOther, Executing, ParserState,
         Names
<1>2. Len(calls) + 1 \in Nat /\ Len(calls) + 1 # 1
  BY <1>1, CallDepth, Zenon
<1>3. /\ parser' \in ParserState /\ parser'.stack = Append(parser.stack, program)
      /\ parser'.instruction_index = parser.instruction_index
      /\ parser'.event_indexes = parser.event_indexes
      /\ parser'.output = parser.output
  <2>1. PICK depth \in Nat : depth # 1 /\ parser' = OnLine(parser, Invoke(program, depth))
    BY <1>1, <1>2, ZenonT(30)
  <2>2. parser \in ParserState /\ program \in Names
    BY <1>1, Zenon
  <2>3. OnlyStack(parser, parser', Append(parser.stack, program))
    BY <2>1, <2>2, InnerInvokeEffect, Zenon
  <2>4. QED
    BY <2>3, Zenon DEF OnlyStack
<1>4. Agree(calls', parser'.stack)
  <2>1. CASE ExecutingOther
    BY <1>1, <1>3, <2>1, WhoExecutes, CallFromOutside, ZenonT(30)
  <2>2. CASE Executing(program_id) /\ program = token
    BY <1>1, <1>3, <2>2, WhoExecutes, CallFromVault, ZenonT(30)
  <2>3. QED
    BY <2>1, <2>2, Zenon DEF CallProgram
<1>5. /\ calls' \in Seq(Programs) /\ UNCHANGED <<instruction, rank, emitted, misread>>
      /\ lines' \in Nat
  <2>1. calls' \in Seq(Programs)
    BY <1>1, Pushed, Zenon
  <2>2. lines' \in Nat
    BY LineCounted, Zenon DEF CallProgram
  <2>3. QED
    BY <2>1, <2>2, Zenon DEF CallProgram
<1>6. QED
  BY <1>1, <1>3, <1>4, <1>5, SameCounts, ZenonT(30)

(* A call returns. *)
LEMMA ReturnStep ==
  ASSUME ParserInv, Return
  PROVE  ParserInv'
<1>1. /\ parser \in ParserState /\ calls \in Seq(Programs) /\ calls # <<>>
      /\ parser' = OnLine(parser, Closing)
      /\ calls' = Front(calls)
      /\ Agree(calls, parser.stack) /\ parser.stack \in Seq(Names)
  BY Zenon DEF ParserInv, ParserTypeOK, Return, Log, ParserState
<1>2. /\ parser' \in ParserState
      /\ parser'.stack = IF parser.stack = <<>> THEN parser.stack ELSE Front(parser.stack)
      /\ parser'.instruction_index = parser.instruction_index
      /\ parser'.event_indexes = parser.event_indexes
      /\ parser'.output = parser.output
  BY <1>1, ClosingEffect, ZenonT(30)
<1>3. Agree(calls', parser'.stack)
  BY <1>1, <1>2, ReturnAgrees, ZenonT(30)
<1>4. /\ calls' \in Seq(Programs) /\ UNCHANGED <<instruction, rank, emitted, misread>>
      /\ lines' \in Nat
  <2>1. calls' \in Seq(Programs)
    BY <1>1, Popped, ZenonT(30)
  <2>2. lines' \in Nat
    BY LineCounted, Zenon DEF Return
  <2>3. QED
    BY <2>1, <2>2, Zenon DEF Return
<1>5. QED
  BY <1>1, <1>2, <1>3, <1>4, SameCounts, ZenonT(30)

(* Two sequences hold the same events, whatever the identities. *)
SameEvents(P, E) ==
  /\ Len(P) = Len(E)
  /\ \A i \in DOMAIN E : P[i].event = E[i].event /\ P[i].ok = E[i].ok

(* They still do when both get an event. *)
LEMMA SameEvent ==
  ASSUME NEW P \in Seq(Entries), NEW E \in Seq(Entries), SameEvents(P, E),
         NEW p \in Entries, NEW e \in Entries, p.event = e.event, p.ok = e.ok
  PROVE  SameEvents(Append(P, p), Append(E, e))
<1> DEFINE Q == Append(P, p)
           F == Append(E, e)
<1>0. Len(P) = Len(E)
  BY Zenon DEF SameEvents
<1>1. /\ Len(E) \in Nat /\ Len(Q) = Len(E) + 1 /\ Len(F) = Len(E) + 1
      /\ DOMAIN F = 1 .. Len(E) + 1 /\ DOMAIN E = 1 .. Len(E)
      /\ Q[Len(E) + 1] = p /\ F[Len(E) + 1] = e
      /\ \A i \in 1 .. Len(E) : Q[i] = P[i] /\ F[i] = E[i]
  BY <1>0
<1> HIDE DEF Q, F
<1>2. \A i \in 1 .. Len(E) + 1 : i \in 1 .. Len(E) \/ i = Len(E) + 1
  BY <1>1
<1>3. QED
  <2>1. SameEvents(Q, F)
    BY <1>1, <1>2, ZenonT(30) DEF SameEvents
  <2>2. QED
    BY <2>1, Zenon DEF Q, F

(* IronVault emits. *)
LEMMA EmitEventStep ==
  ASSUME ParserInv, NEW payload \in Payloads, EmitEvent(payload)
  PROVE  ParserInv'
<1> DEFINE n == parser.instruction_index
           r == EventIndex(parser, n)
           p == Entry(payload, n, r)
           e == Entry(payload, instruction, rank)
<1>1. /\ parser \in ParserState /\ calls \in Seq(Programs) /\ calls # <<>>
      /\ parser' = OnLine(parser, Data(payload))
      /\ calls' = calls /\ instruction' = instruction /\ rank' = rank + 1
      /\ emitted' = Append(emitted, e) /\ misread' = misread
      /\ Agree(calls, parser.stack) /\ parser.stack \in Seq(Names)
      /\ lines' \in Nat
  <2>1. /\ parser \in ParserState /\ calls \in Seq(Programs)
        /\ Agree(calls, parser.stack) /\ parser.stack \in Seq(Names)
    BY Zenon DEF ParserInv, ParserTypeOK, ParserState
  <2>2. lines' \in Nat
    BY LineCounted, Zenon DEF EmitEvent
  <2>3. QED
    BY <2>1, <2>2, Zenon DEF EmitEvent, Executing, Log
<1>2. /\ instruction \in Int /\ rank \in Nat /\ emitted \in Seq(Entries)
      /\ misread \in Nat /\ instruction >= 0 /\ n = instruction + misread
      /\ parser.output \in Seq(Entries)
  BY <1>1, Zenon DEF ParserInv, ParserTypeOK, Counts, ParserState
<1> CountedTogether(instruction, misread)
  BY <1>2, Counting, Zenon DEF ParserInv, ParserTypeOK
<1>3. Active(parser)
  BY <1>1, WhoExecutes, Zenon DEF EmitEvent, TopOnly, Active
<1>4. /\ parser' \in ParserState /\ parser'.stack = parser.stack
      /\ parser'.instruction_index = n
      /\ DOMAIN parser'.event_indexes = DOMAIN parser.event_indexes \cup {n}
      /\ EventIndex(parser', n) = r + 1
      /\ parser'.output = Append(parser.output, p)
  <2>1. n >= 0
    BY <1>2, Zenon DEF CountedTogether
  <2>2. QED
    BY <1>1, <1>3, <2>1, DataEffect, ZenonT(30)
<1>5. Ordered(parser')
  BY <1>1, <1>4, OrderedAfterData, ZenonT(30) DEF ParserInv
<1>6. misread = 0 => n = instruction /\ r = rank
  BY <1>2, Zenon DEF ParserInv, Counts, CountedTogether
<1>7. p \in Entries /\ e \in Entries /\ p.event = e.event /\ p.ok = e.ok
  <2>1. r \in Nat
    BY <1>1, CountIsNat, ZenonT(30)
  <2>2. n \in Int
    BY <1>2, Zenon DEF CountedTogether
  <2> HIDE DEF n, r
  <2>3. IsEntry(p, payload, n, r) /\ IsEntry(e, payload, instruction, rank)
    BY <1>2, <2>1, <2>2, EntryTyped, Zenon
  <2>4. QED
    BY <2>3, Zenon DEF IsEntry
<1>8. misread = 0 => p = e
  BY <1>6, Zenon
<1> HIDE DEF p, e
<1>9. ParserFindsEmissions'
  <2>1. SameEvents(parser.output, emitted) /\ (misread = 0 => parser.output = emitted)
    BY ZenonT(30) DEF ParserInv, ParserFindsEmissions, SameEvents
  <2>2. SameEvents(parser'.output, emitted')
    BY <1>1, <1>2, <1>4, <1>7, <2>1, SameEvent, ZenonT(30)
  <2>3. misread' = 0 => parser'.output = emitted'
    BY <1>1, <1>4, <1>8, <2>1, ZenonT(30)
  <2>4. QED
    BY <2>2, <2>3, ZenonT(30) DEF ParserFindsEmissions, SameEvents
<1>10. ParserTypeOK'
  <2>1. emitted' \in Seq(Entries)
    BY <1>1, <1>2, <1>7, Pushed, Zenon
  <2>2. rank' \in Nat
    <3>1. rank \in Nat /\ rank' = rank + 1
      BY <1>1, <1>2, Zenon
    <3>2. QED
      BY <3>1
  <2>3. QED
    BY <1>1, <1>2, <1>4, <2>1, <2>2, Zenon DEF ParserTypeOK, ParserInv
<1>11. Counts'
  <2>1. EventIndex(parser, n)' = EventIndex(parser', n)
    BY <1>4, Zenon DEF EventIndex
  <2>2. misread' = 0 => EventIndex(parser', instruction') = rank'
    BY <1>1, <1>4, <1>6, ZenonT(30)
  <2>3. parser'.instruction_index = instruction' + misread'
    BY <1>1, <1>2, <1>4, ZenonT(30)
  <2>4. QED
    BY <1>1, <1>2, <2>2, <2>3, ZenonT(30) DEF Counts
<1>12. Agree(calls', parser'.stack)
  BY <1>1, <1>4, Zenon
<1>13. QED
  BY <1>5, <1>9, <1>10, <1>11, <1>12, ZenonT(30) DEF ParserInv

(* Another program logs data: the parser is not at IronVault. *)
LEMMA EmitOtherStep ==
  ASSUME ParserInv, NEW payload \in Payloads, EmitOther(payload)
  PROVE  ParserInv'
<1>1. /\ parser.stack \in Seq(Names) /\ calls \in Seq(Programs)
      /\ Agree(calls, parser.stack)
  BY Zenon DEF ParserInv, ParserTypeOK, ParserState
<1>2. Clean(parser.stack)
  BY <1>1, WhoExecutes, ZenonT(30) DEF EmitOther
<1>3. ~Active(parser)
  BY <1>1, <1>2, StaysClean, ZenonT(30) DEF Active
<1>4. parser' = parser
  BY <1>3, IgnoredLines, ZenonT(30) DEF EmitOther, Log
<1>5. UNCHANGED <<calls, instruction, rank, emitted, misread>> /\ lines' \in Nat
  BY LineCounted, Zenon DEF EmitOther
<1>6. QED
  BY <1>4, <1>5, SameParser, Zenon

(* A message that closes nothing. *)
LEMMA SayTextStep ==
  ASSUME ParserInv, SayText
  PROVE  ParserInv'
<1>1. parser' = parser
  BY IgnoredLines, ZenonT(30) DEF SayText, Log
<1>2. UNCHANGED <<calls, instruction, rank, emitted, misread>> /\ lines' \in Nat
  BY LineCounted, Zenon DEF SayText
<1>3. QED
  BY <1>1, <1>2, SameParser, Zenon

(* A message of another program that reads as the end of an invocation:    *)
(* what the parser pops is not IronVault's.                                *)
LEMMA SayClosingStep ==
  ASSUME ParserInv, SayClosing
  PROVE  ParserInv'
<1>1. /\ parser \in ParserState /\ calls \in Seq(Programs) /\ calls # <<>>
      /\ parser' = OnLine(parser, Closing)
      /\ calls' = calls
      /\ Agree(calls, parser.stack) /\ parser.stack \in Seq(Names)
  <2>1. /\ parser \in ParserState /\ calls \in Seq(Programs)
        /\ Agree(calls, parser.stack) /\ parser.stack \in Seq(Names)
    BY Zenon DEF ParserInv, ParserTypeOK, ParserState
  <2>2. QED
    BY <2>1, Zenon DEF SayClosing, Log, ExecutingOther, Executing
<1>2. /\ parser' \in ParserState
      /\ parser'.stack = IF parser.stack = <<>> THEN parser.stack ELSE Front(parser.stack)
      /\ parser'.instruction_index = parser.instruction_index
      /\ parser'.event_indexes = parser.event_indexes
      /\ parser'.output = parser.output
  BY <1>1, ClosingEffect, ZenonT(30)
<1>3. OnlyOthers(calls) /\ Clean(parser.stack)
  BY <1>1, WhoExecutes, ZenonT(30) DEF SayClosing
<1>4. Clean(parser'.stack)
  BY <1>1, <1>2, <1>3, StaysClean, ZenonT(30)
<1>5. Agree(calls', parser'.stack)
  BY <1>1, <1>3, <1>4, ZenonT(30) DEF Agree, Outside
<1>6. UNCHANGED <<instruction, rank, emitted, misread>> /\ lines' \in Nat
  BY LineCounted, Zenon DEF SayClosing
<1>7. QED
  BY <1>1, <1>2, <1>5, <1>6, SameCounts, ZenonT(30)

(* A message of another program that reads as an invocation: IronVault is  *)
(* not on the parser's stack, and what the message names is not IronVault. *)
LEMMA SayInvokeStep ==
  ASSUME ParserInv, NEW depth \in 1 .. 2, SayInvoke(depth)
  PROVE  ParserInv'
<1>1. /\ parser \in ParserState /\ calls \in Seq(Programs) /\ calls # <<>>
      /\ parser' = OnLine(parser, Invoke(printed, depth))
      /\ UNCHANGED <<calls, instruction, rank, emitted>>
      /\ Agree(calls, parser.stack) /\ parser.stack \in Seq(Names)
      /\ printed \in Names /\ printed # program_id /\ lines' \in Nat
  <2>1. /\ parser \in ParserState /\ calls \in Seq(Programs)
        /\ Agree(calls, parser.stack) /\ parser.stack \in Seq(Names)
    BY Zenon DEF ParserInv, ParserTypeOK, ParserState
  <2>2. lines' \in Nat
    BY LineCounted, Zenon DEF SayInvoke
  <2>3. printed \in Names /\ printed # program_id
    BY ParserAssumption, Zenon DEF Names
  <2>4. QED
    BY <2>1, <2>2, <2>3, Zenon DEF SayInvoke, Log, ExecutingOther, Executing
<1>2. OnlyOthers(calls) /\ Clean(parser.stack)
  BY <1>1, WhoExecutes, ZenonT(30) DEF SayInvoke
<1>3. <<>> \in Seq(Names) /\ Clean(<<>>)
  BY DEF Clean
<1>4. CASE depth = 2
  <2>1. /\ parser' \in ParserState /\ parser'.stack = Append(parser.stack, printed)
        /\ parser'.instruction_index = parser.instruction_index
        /\ parser'.event_indexes = parser.event_indexes
        /\ parser'.output = parser.output
    <3>1. PICK d \in Nat : d # 1 /\ parser' = OnLine(parser, Invoke(printed, d))
      <4>1. 2 \in Nat /\ 2 # 1
        OBVIOUS
      <4>2. QED
        BY <1>1, <1>4, <4>1, Zenon
    <3>2. parser \in ParserState /\ printed \in Names
      BY <1>1, Zenon
    <3>3. OnlyStack(parser, parser', Append(parser.stack, printed))
      BY <3>1, <3>2, InnerInvokeEffect, Zenon
    <3>4. QED
      BY <3>3, Zenon DEF OnlyStack
  <2>2. Clean(parser'.stack)
    BY <1>1, <1>2, <2>1, StaysClean, Zenon
  <2>3. Agree(calls', parser'.stack)
    BY <1>1, <1>2, <2>2, ZenonT(30) DEF Agree, Outside
  <2>4. misread' = misread
    <3>1. depth # 1
      BY <1>4
    <3>2. QED
      BY <3>1, Zenon DEF SayInvoke
  <2>5. QED
    BY <1>1, <2>1, <2>3, <2>4, SameCounts, ZenonT(30)
<1>5. CASE depth = 1
  <2>1. /\ parser' \in ParserState /\ parser'.stack = Append(<<>>, printed)
        /\ parser'.instruction_index = parser.instruction_index + 1
        /\ parser'.event_indexes = parser.event_indexes
        /\ parser'.output = parser.output
    BY <1>1, <1>5, InvokeEffect, ZenonT(30)
  <2>2. Clean(parser'.stack)
    BY <1>1, <1>3, <2>1, StaysClean, ZenonT(30)
  <2>3. Agree(calls', parser'.stack)
    BY <1>1, <1>2, <2>2, ZenonT(30) DEF Agree, Outside
  <2>4. /\ misread' = misread + 1 /\ misread \in Nat /\ instruction \in Int
        /\ instruction >= 0 /\ parser.instruction_index = instruction + misread
    <3>1. misread' = misread + 1
      BY <1>5, Zenon DEF SayInvoke
    <3>2. QED
      BY <1>1, <3>1, Zenon DEF ParserInv, ParserTypeOK, Counts
  <2> CountedTogether(instruction, misread)
    BY <2>4, Counting, Zenon DEF ParserInv, ParserTypeOK
  <2>5. misread' \in Nat /\ misread' # 0
        /\ parser'.instruction_index = instruction' + misread'
    BY <1>1, <2>1, <2>4, Zenon DEF CountedTogether
  <2>6. ParserTypeOK'
    BY <1>1, <2>1, <2>5, ZenonT(30) DEF ParserInv, ParserTypeOK
  <2>7. Counts'
    BY <1>1, <2>4, <2>5, ZenonT(30) DEF Counts
  <2>8. Ordered(parser')
    BY <1>1, <2>1, OrderedAfterInvoke, ZenonT(30) DEF ParserInv
  <2>9. ParserFindsEmissions'
    BY <1>1, <2>1, <2>5, Zenon DEF ParserInv, ParserFindsEmissions
  <2>10. QED
    BY <2>3, <2>6, <2>7, <2>8, <2>9, ZenonT(30) DEF ParserInv
<1>6. depth = 1 \/ depth = 2
  OBVIOUS
<1>7. QED
  BY <1>4, <1>5, <1>6, Zenon

(* The invariant holds of every log. *)
THEOREM ParserInvariant == ParserSpec => []ParserInv
<1>1. ASSUME ParserInv, [ParserNext]_parserVars
      PROVE  ParserInv'
  <2>1. ASSUME NEW program \in Programs, CallInstruction(program)
        PROVE  ParserInv'
    BY <1>1, <2>1, CallInstructionStep, ZenonT(30)
  <2>2. ASSUME NEW program \in Programs, CallProgram(program)
        PROVE  ParserInv'
    BY <1>1, <2>2, CallProgramStep, ZenonT(30)
  <2>3. CASE Return
    BY <1>1, <2>3, ReturnStep, ZenonT(30)
  <2>4. ASSUME NEW payload \in Payloads, EmitEvent(payload)
        PROVE  ParserInv'
    BY <1>1, <2>4, EmitEventStep, ZenonT(30)
  <2>5. ASSUME NEW payload \in Payloads, EmitOther(payload)
        PROVE  ParserInv'
    BY <1>1, <2>5, EmitOtherStep, ZenonT(30)
  <2>6. CASE SayText
    BY <1>1, <2>6, SayTextStep, ZenonT(30)
  <2>7. CASE SayClosing
    BY <1>1, <2>7, SayClosingStep, ZenonT(30)
  <2>8. CASE UNCHANGED parserVars
    BY <1>1, <2>8, SameCounts, ZenonT(30) DEF parserVars, ParserInv, ParserTypeOK
  <2>9. ASSUME NEW depth \in 1 .. 2, SayInvoke(depth)
        PROVE  ParserInv'
    BY <1>1, <2>9, SayInvokeStep, ZenonT(30)
  <2>10. QED
    BY <1>1, <2>1, <2>2, <2>3, <2>4, <2>5, <2>6, <2>7, <2>8, <2>9, ZenonT(30) DEF ParserNext
<1>2. QED
  BY <1>1, ParserInitInv, PTL DEF ParserSpec

(* extract_events returns exactly what IronVault emitted, in order, for    *)
(* every set of programs and payloads, every nesting of calls and every    *)
(* length of the log; and, where no message read as a top-level            *)
(* invocation, with the instruction and the rank it was emitted at.        *)
THEOREM ParserExact == ParserSpec => []ParserFindsEmissions
<1>1. ParserInv => ParserFindsEmissions
  BY DEF ParserInv
<1>2. QED
  BY <1>1, ParserInvariant, PTL

(* The identities extract_events gives out strictly increase along every   *)
(* log: they are unique keys, and they order the events of a transaction.  *)
THEOREM ParserIdentities == ParserSpec => []IdentitiesIncrease
<1>1. ASSUME ParserInv
      PROVE  IdentitiesIncrease
  <2>1. parser.output \in Seq(Entries) /\ Increasing(parser.output)
    BY <1>1, Zenon DEF ParserInv, ParserTypeOK, ParserState, Ordered
  <2>2. DOMAIN parser.output = 1 .. Len(parser.output)
    BY <2>1
  <2>3. QED
    BY <2>1, <2>2, Zenon DEF Increasing, Precedes, IdentitiesIncrease
<1>2. QED
  BY <1>1, ParserInvariant, PTL

=============================================================================
