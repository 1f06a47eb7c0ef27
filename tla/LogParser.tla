----------------------------- MODULE LogParser ------------------------------
(***************************************************************************)
(* extract_events: from the log lines of a transaction to its IronVault    *)
(* events, against what the runtime executes. The runtime takes one step   *)
(* at a time and logs a line for it; the parser takes every line as its    *)
(* loop does. Since the log may end anywhere (the node truncates long      *)
(* ones), what holds in every state holds of every log.                    *)
(*                                                                         *)
(* A line is what the parser can tell of it: "invoke" (Program P invoke    *)
(* [depth]); "closing" (it starts with "Program " and ends in " success"   *)
(* or contains " failed:"); "data" (Program data: ...); or "text". What a  *)
(* program prints starts with "Program log: ", so that a message may read  *)
(* as an invocation or as the end of one.                                  *)
(***************************************************************************)
EXTENDS Integers, SequencesExt

CONSTANTS
  program_id,       \* IronVault
  token,            \* the token and the system program, which IronVault calls
  OtherPrograms,    \* the programs of other instructions of the transaction
  printed,          \* what parse_invoke takes for a program in a message: "log: ..."
  Payloads,         \* what a data line can hold
  Decodable,        \* the payloads decode_program_data knows
  MaxLines          \* the length of the log (bound)

ASSUME ParserAssumption ==
  /\ program_id # token /\ program_id # printed
  /\ {program_id, token} \cap OtherPrograms = {}
  /\ MaxLines \in Nat

VARIABLES
  calls,         \* the runtime: the programs on its call stack
  instruction,   \* the runtime: the top-level instruction it is at, from 0
  rank,          \* the runtime: how much IronVault emitted in that instruction
  emitted,       \* history: everything IronVault emitted, with its identity
  misread,       \* history: how many messages read as a top-level invocation
  lines,         \* how many lines were logged
  parser         \* the local variables of extract_events

parserVars == <<calls, instruction, rank, emitted, misread, lines, parser>>

Programs == {program_id, token} \cup OtherPrograms

Invoke(program, depth) == [kind |-> "invoke", program |-> program, depth |-> depth]
Closing == [kind |-> "closing"]
Data(payload) == [kind |-> "data", payload |-> payload]
Text == [kind |-> "text"]

(* Data with its identity; what does not decode is an error. *)
Entry(payload, index, event_index) ==
  [ok |-> payload \in Decodable, instruction_index |-> index,
   event_index |-> event_index, event |-> payload]

-----------------------------------------------------------------------------
(***************************************************************************)
(* The parser.                                                             *)
(***************************************************************************)

Start ==
  [stack |-> <<>>, instruction_index |-> -1, event_indexes |-> [i \in {} |-> 0],
   output |-> <<>>]

(* parse_invoke: depth 1 opens the next top-level instruction. *)
OnInvoke(state, line) ==
  [state EXCEPT
     !.instruction_index = IF line.depth = 1 THEN @ + 1 ELSE @,
     !.stack = Append(IF line.depth = 1 THEN <<>> ELSE @, line.program)]

OnClosing(state) == [state EXCEPT !.stack = IF @ = <<>> THEN @ ELSE Front(@)]

(* event_indexes.entry(index).or_default() *)
EventIndex(state, index) ==
  IF index \in DOMAIN state.event_indexes THEN state.event_indexes[index] ELSE 0

(* Variant: only an event that decodes takes an index. *)
OnDataDecodedOnly(state, line) ==
  LET index == IF state.instruction_index < 0 THEN 0 ELSE state.instruction_index
      n == EventIndex(state, index)
      next == IF line.payload \in Decodable THEN n + 1 ELSE n
  IN  [state EXCEPT
         !.event_indexes = [i \in DOMAIN @ \cup {index} |-> IF i = index THEN next ELSE @[i]],
         !.output = Append(@, Entry(line.payload, index, n))]

(* Data that does not decode is an error, but takes an index as well. *)
OnData(state, line) ==
  LET index == IF state.instruction_index < 0 THEN 0 ELSE state.instruction_index
      n == EventIndex(state, index)
  IN  [state EXCEPT
         !.event_indexes = [i \in DOMAIN @ \cup {index} |-> IF i = index THEN n + 1 ELSE @[i]],
         !.output = Append(@, Entry(line.payload, index, n))]

Active(state) == state.stack # <<>> /\ Last(state.stack) = program_id

(* Variant: a closing line does not end an invocation. *)
OnLineWithoutReturn(state, line) ==
  CASE line.kind = "invoke" -> OnInvoke(state, line)
    [] line.kind = "data" /\ Active(state) -> OnData(state, line)
    [] OTHER -> state

(* The body of the loop of extract_events. *)
OnLine(state, line) ==
  CASE line.kind = "invoke" -> OnInvoke(state, line)
    [] line.kind = "closing" -> OnClosing(state)
    [] line.kind = "data" /\ Active(state) -> OnData(state, line)
    [] OTHER -> state

Log(line) ==
  /\ lines < MaxLines
  /\ lines' = lines + 1
  /\ parser' = OnLine(parser, line)

-----------------------------------------------------------------------------
(***************************************************************************)
(* The runtime: programs call each other, return, emit data and print.     *)
(***************************************************************************)

ParserInit ==
  /\ calls = <<>> /\ instruction = -1 /\ rank = 0
  /\ emitted = <<>> /\ misread = 0
  /\ lines = 0
  /\ parser = Start

Executing(program) == calls # <<>> /\ Last(calls) = program

ExecutingOther == \E program \in OtherPrograms : Executing(program)

(* The transaction calls its instructions, one after the other. *)
CallInstruction(program) ==
  /\ calls = <<>>
  /\ calls' = <<program>>
  /\ instruction' = instruction + 1 /\ rank' = 0
  /\ Log(Invoke(program, 1))
  /\ UNCHANGED <<emitted, misread>>

(* IronVault calls only the token and the system program, which call       *)
(* nobody; any other program does as it likes.                             *)
CallProgram(program) ==
  /\ ExecutingOther \/ (Executing(program_id) /\ program = token)
  /\ calls' = Append(calls, program)
  /\ Log(Invoke(program, Len(calls) + 1))
  /\ UNCHANGED <<instruction, rank, emitted, misread>>

(* The executing program succeeds or fails. *)
Return ==
  /\ calls # <<>>
  /\ calls' = Front(calls)
  /\ Log(Closing)
  /\ UNCHANGED <<instruction, rank, emitted, misread>>

(* IronVault emits an event: it is identified by the instruction and by    *)
(* its rank among what IronVault emitted in it, calls of IronVault by      *)
(* other programs included.                                                *)
EmitEvent(payload) ==
  /\ Executing(program_id)
  /\ emitted' = Append(emitted, Entry(payload, instruction, rank))
  /\ rank' = rank + 1
  /\ Log(Data(payload))
  /\ UNCHANGED <<calls, instruction, misread>>

(* Another program logs data of its own. *)
EmitOther(payload) ==
  /\ ExecutingOther
  /\ Log(Data(payload))
  /\ UNCHANGED <<calls, instruction, rank, emitted, misread>>

(* A program prints a message. What IronVault and the programs it calls    *)
(* print never reads as an invocation or as the end of one; what another   *)
(* prints may.                                                             *)
SayText ==
  /\ calls # <<>>
  /\ Log(Text)
  /\ UNCHANGED <<calls, instruction, rank, emitted, misread>>

SayClosing ==
  /\ ExecutingOther
  /\ Log(Closing)
  /\ UNCHANGED <<calls, instruction, rank, emitted, misread>>

SayInvoke(depth) ==
  /\ ExecutingOther
  /\ Log(Invoke(printed, depth))
  /\ misread' = IF depth = 1 THEN misread + 1 ELSE misread
  /\ UNCHANGED <<calls, instruction, rank, emitted>>

ParserNext ==
  \/ \E program \in Programs : CallInstruction(program) \/ CallProgram(program)
  \/ Return
  \/ \E payload \in Payloads : EmitEvent(payload) \/ EmitOther(payload)
  \/ SayText \/ SayClosing
  \/ \E depth \in 1 .. 2 : SayInvoke(depth)

ParserSpec == ParserInit /\ [][ParserNext]_parserVars

-----------------------------------------------------------------------------
(***************************************************************************)
(* Properties.                                                             *)
(***************************************************************************)

(* extract_events returns exactly the data IronVault itself emitted, in    *)
(* order, however calls nest, whatever other programs emit and print, and  *)
(* wherever the log ends. The identities are the top-level instruction and *)
(* the rank in it, unless a message read as a top-level invocation.        *)
ParserFindsEmissions ==
  /\ Len(parser.output) = Len(emitted)
  /\ \A i \in DOMAIN emitted : /\ parser.output[i].event = emitted[i].event
                               /\ parser.output[i].ok = emitted[i].ok
  /\ misread = 0 => parser.output = emitted

(* The identities extract_events gives out increase along the log: no two  *)
(* entries share the primary key of protocol_events, and the positions     *)
(* projections compare follow the order inside a transaction, whatever     *)
(* reads as an invocation.                                                 *)
IdentitiesIncrease ==
  \A i, j \in DOMAIN parser.output :
    LET p == parser.output[i]
        q == parser.output[j]
    IN  i < j => \/ p.instruction_index < q.instruction_index
                 \/ /\ p.instruction_index = q.instruction_index
                    /\ p.event_index < q.event_index

=============================================================================
