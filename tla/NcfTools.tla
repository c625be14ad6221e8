------------------------------ MODULE NcfTools ------------------------------
(***************************************************************************)
(* The command line and the Python bindings: processes that write or read  *)
(* the container at one path.  One command writes (create, the converters, *)
(* create_ncf) while another one reads (inspect, info, verify, load_tensor,*)
(* load_tensor_numpy); load_tensor_torch hands on what load_tensor_numpy   *)
(* returns.  A command that reads opens a reader of its own and closes it  *)
(* when it ends; what it has reported stays.                               *)
(***************************************************************************)
EXTENDS NcfReader, NcfConvert

CONSTANT Commands   \* how many commands read

ASSUME CommandsAssumption == Commands \in Nat
\* The tensors that inputs convert to are among those the model knows.
ASSUME ResultsAssumption ==
  \A input \in Inputs : \A i \in DOMAIN input.tensors : Converted(input, i) \subseteq Tensor

VARIABLES
  wcmd,     \* what the command that writes is at: NoInput, or its input and the next tensor
  rcmd,     \* the command that reads: its name, the tensor it asks for, and for each
            \* schema verified so far whether that returned true
  commands, \* what is left of Commands
  result,   \* what the last command that read ended with
  \* history
  origin,   \* the input of the container that is at the path, or partly so
  reread    \* what read_tensor would have returned when each schema was verified

toolVars == <<wcmd, rcmd, commands, result, origin, reread>>
toolsVars == <<writerVars, readerVars, toolVars>>

NoInput == [kind |-> "none"]
NoCommand == [cmd |-> "none", name |-> "none", reports |-> <<>>]
NoResult == [cmd |-> "none", exit |-> "none"]

Init ==
  /\ WriterInit /\ ReaderInit
  /\ wcmd = [input |-> NoInput, next |-> 1] /\ rcmd = NoCommand /\ commands = Commands
  /\ result = NoResult /\ origin = NoInput /\ reread = <<>>

(***************************************************************************)
(* Commands that write.                                                    *)
(***************************************************************************)
Writing(input) == wcmd.input = input /\ wpc = "idle"

\* The input has been read and parsed.
Write_command ==
  /\ Writing(NoInput) /\ wbudget["finalize"] > 0
  /\ \E input \in Inputs : wcmd' = [input |-> input, next |-> 1]
  /\ tensors' = <<>>
  /\ UNCHANGED <<file, unwritten, wpc, source, complete, version, wbudget>>
  /\ UNCHANGED <<readerVars, rcmd, commands, result, origin, reread>>

\* One turn of the converter's loop.
Convert_tensor ==
  /\ wcmd.input # NoInput /\ wcmd.next \in DOMAIN wcmd.input.tensors
  /\ \E t \in Converted(wcmd.input, wcmd.next) : tensors' = Append(tensors, t)
  /\ wcmd' = [wcmd EXCEPT !.next = @ + 1]
  /\ UNCHANGED <<file, unwritten, wpc, source, complete, version, wbudget>>
  /\ UNCHANGED <<readerVars, rcmd, commands, result, origin, reread>>

\* The command ends with an error, or panics; the writer is dropped.
Convert_refuses ==
  /\ wcmd.input # NoInput /\ wcmd.next \in DOMAIN wcmd.input.tensors
  /\ Refused(wcmd.input, wcmd.next)
  /\ wcmd' = [wcmd EXCEPT !.input = NoInput]
  /\ tensors' = <<>>
  /\ UNCHANGED <<file, unwritten, wpc, source, complete, version, wbudget>>
  /\ UNCHANGED <<readerVars, rcmd, commands, result, origin, reread>>

Write_output ==
  /\ wcmd.input # NoInput /\ wcmd.next > Len(wcmd.input.tensors)
  /\ Finalize
  /\ origin' = wcmd.input /\ wcmd' = [wcmd EXCEPT !.input = NoInput]
  /\ UNCHANGED <<readerVars, rcmd, commands, result, reread>>

\* The rest of finalize, or its failure.
Write_on == (Write_block \/ Write_fails) /\ UNCHANGED <<readerVars, toolVars>>

(***************************************************************************)
(* Commands that read.                                                     *)
(***************************************************************************)
\* A name is given to those commands that want one.
Read_command ==
  /\ rcmd = NoCommand /\ commands > 0
  /\ \/ \E cmd \in {"inspect", "info", "verify"} : rcmd' = [NoCommand EXCEPT !.cmd = cmd]
     \/ \E cmd \in {"load_tensor", "load_tensor_numpy"}, n \in Names :
          rcmd' = [NoCommand EXCEPT !.cmd = cmd, !.name = n]
  /\ commands' = commands - 1
  /\ Reader_map
  /\ UNCHANGED <<writerVars, wcmd, result, origin, reread>>

\* The command ends.
Ends(outcome) ==
  /\ rcmd' = NoCommand /\ result' = outcome /\ reread' = <<>>
  /\ Reader_closed
  /\ UNCHANGED <<writerVars, wcmd, commands, origin>>

Exit(exit) == [cmd |-> rcmd.cmd, exit |-> exit]

Open_continues ==
  /\ Reader_prefix \/ Reader_metadata \/ Reader_footer \/ Reader_index
  /\ UNCHANGED <<writerVars, toolVars>>

Open_fails == Reader_rejects /\ Ends(Exit("error"))

Info == rcmd.cmd = "info" /\ rpc = "open" /\ Ends(Exit("ok"))

Decode_schemas ==
  /\ rcmd.cmd # "info"
  /\ Reader_schemas
  /\ UNCHANGED <<writerVars, toolVars>>

Decode_fails == rpc = "broken" /\ Ends(Exit("error"))

Inspect == rcmd.cmd = "inspect" /\ Decoded /\ Ends(Exit("ok"))

\* The schema that verify has come to.
Turn == Len(rcmd.reports) + 1

Verify_turn ==
  /\ rcmd.cmd = "verify" /\ Decoded /\ Turn \in DOMAIN rschemas
  /\ LET name == rschemas[Turn].name
     IN  \/ /\ ~Verify_errs(name)
            /\ rcmd' = [rcmd EXCEPT !.reports = Append(@, Verify_tensor(name))]
            /\ reread' = Append(reread, Read_tensor(name))
            /\ UNCHANGED <<writerVars, readerVars, wcmd, commands, result, origin>>
         \/ Verify_errs(name) /\ Ends(Exit("error"))

\* Fault: only the last report decides.
All_valid_Last(reports) == reports # <<>> => reports[Len(reports)]

All_valid(reports) == \A i \in DOMAIN reports : reports[i]

Verify_ends ==
  /\ rcmd.cmd = "verify" /\ Decoded /\ Turn > Len(rschemas)
  /\ Ends([cmd |-> "verify", exit |-> IF All_valid(rcmd.reports) THEN "ok" ELSE "error",
           of |-> rsource, reread |-> reread])

\* A command that loads a tensor ends, the data having been read or not.
Loaded(exit, data) ==
  Ends([cmd |-> rcmd.cmd, exit |-> exit, schema |-> Find_schema(rcmd.name), data |-> data])

\* read_tensor finds no schema of that name.
Load_finds_none ==
  /\ rcmd.cmd \in {"load_tensor", "load_tensor_numpy"} /\ Decoded
  /\ rcmd.name \notin SchemaNames
  /\ Ends(Exit(IF rcmd.cmd = "load_tensor" THEN "none" ELSE "error"))

Load_tensor ==
  /\ rcmd.cmd = "load_tensor" /\ Decoded /\ rcmd.name \in SchemaNames
  /\ LET data == Read_tensor(rcmd.name)
     IN  Loaded(IF data = {} THEN "error" ELSE "ok", data)

Load_tensor_numpy ==
  /\ rcmd.cmd = "load_tensor_numpy" /\ Decoded /\ rcmd.name \in SchemaNames
  /\ LET data == Read_tensor(rcmd.name)
         arrays == UNION {Tensor_data_to_numpy(Find_schema(rcmd.name), PackedLen(d)) : d \in data}
     IN  Loaded(IF arrays = {} THEN "error" ELSE "ok", data)

WriteStep == Write_command \/ Convert_tensor \/ Convert_refuses \/ Write_output \/ Write_on

ReadStep == \/ Read_command \/ Open_continues \/ Open_fails \/ Info \/ Decode_schemas
            \/ Decode_fails \/ Inspect \/ Verify_turn \/ Verify_ends
            \/ Load_finds_none \/ Load_tensor \/ Load_tensor_numpy

Next == WriteStep \/ ReadStep

Spec == Init /\ [][Next]_toolsVars

-----------------------------------------------------------------------------
(***************************************************************************)
(* Properties.                                                             *)
(***************************************************************************)
\* A container that a command writes, has begun to write or failed to write holds
\* the tensors of its input, all of them and in order.  Where an element has a size
\* of its own the payload is as many bytes as the tensor takes, from its offset, of
\* the type the input gives; an input that is cut short, padded or overlapping there
\* is refused before the file is touched (from_gguf.rs:75).  A packed payload begins at
\* the offset of its tensor, and has all of its bytes when the input is whole and its
\* offsets differ.
Whole(input) ==
  \A i \in DOMAIN input.tensors :
    LET t == input.tensors[i]
    IN  /\ t.offset + t.size <= input.len
        /\ \A j \in DOMAIN input.tensors \ {i} :
             LET u == input.tensors[j]
             IN  u.offset # t.offset /\ (u.offset > t.offset => t.offset + t.size <= u.offset)

Faithful(input, i, made) ==
  LET t == input.tensors[i]
      from == made.payload.id[2]
      to == made.payload.id[3]
  IN  /\ made.name = t.name /\ made.elems = t.elems /\ from = t.offset
      /\ made.dtype \in DOMAIN Elem_size => made.dtype = t.type /\ to = from + t.size
      /\ Whole(input) => to >= from + t.size

ConvertedFaithfully ==
  origin # NoInput =>
    /\ Len(source) = Len(origin.tensors)
    /\ \A i \in DOMAIN source : Faithful(origin, i, source[i])

\* When verify ends well, then for every schema of the container it opened, at the
\* time it came to that schema, read_tensor returned what had been added last under
\* that name, even if another command has been writing the file since.
VerifyConfirms ==
  result.cmd = "verify" /\ result.exit = "ok" =>
    result.reread = [i \in DOMAIN result.of |->
                       {Added(result.of, LastOf(result.of, result.of[i].name))}]

\* Of a container whose lengths fit its dtypes, as the converters see to, and of one
\* that is written anew meanwhile, load_tensor_numpy drops no byte of the data it has
\* read, and refuses it only for dtypes it does not split into numbers (lib.rs:60).
Numbers == {"F64", "F32", "I32", "I16", "I8", "U8"}

ArraysAreWhole ==
  result.cmd = "load_tensor_numpy" /\ result.exit # "none" /\ "data" \in DOMAIN result =>
    \A d \in result.data :
      LET width == IF result.schema.dtype \in Numbers THEN Elem_size[result.schema.dtype] ELSE 1
      IN  /\ result.exit = "ok" => PackedLen(d) = result.schema.elems * width
          /\ result.exit = "error" => result.schema.dtype \notin Numbers
=============================================================================
