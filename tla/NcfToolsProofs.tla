--------------------------- MODULE NcfToolsProofs ---------------------------
(***************************************************************************)
(* What the commands that write make of their inputs, for every input that *)
(* a parser may return, what verify says of a file that they write while   *)
(* it reads, and what becomes of the bytes that are loaded as an array.    *)
(***************************************************************************)
EXTENDS NcfTools, NcfReaderProofs

\* Everything the tensors of an input can become.
Results(input) == UNION {Converted(input, i) : i \in DOMAIN input.tensors}

\* The input is converted up to the tensor that comes next.
Underway ==
  wcmd.input # NoInput =>
    /\ wcmd.input \in Inputs /\ wcmd.next \in 1 .. Len(wcmd.input.tensors) + 1
    /\ tensors \in Seq(Results(wcmd.input)) /\ Len(tensors) = wcmd.next - 1
    /\ \A i \in DOMAIN tensors : Faithful(wcmd.input, i, tensors[i])

ConvertInv == Underway /\ ConvertedFaithfully

-----------------------------------------------------------------------------
\* The next offset of a tensor in a whole input is behind all of its bytes.
LEMMA NextOffsetBehind ==
  ASSUME NEW input \in Inputs, NEW i \in DOMAIN input.tensors, Whole(input),
         NEW o \in Next_offset(input, i)
  PROVE  o >= input.tensors[i].offset + input.tensors[i].size
<1> DEFINE t == input.tensors[i]
<1>1. /\ input.tensors \in Seq(ListedTensor) /\ input.len \in Nat
  BY InputsAssumption
<1>2. \A j \in DOMAIN input.tensors :
        input.tensors[j].offset \in Nat /\ input.tensors[j].size \in Nat
  <2> SUFFICES ASSUME NEW j \in DOMAIN input.tensors
               PROVE  input.tensors[j].offset \in Nat /\ input.tensors[j].size \in Nat
    OBVIOUS
  <2>1. input.tensors[j] \in ListedTensor
    BY <1>1
  <2> QED BY <2>1 DEF ListedTensor
<1>3. /\ t.offset + t.size <= input.len
      /\ \A j \in DOMAIN input.tensors \ {i} :
           LET u == input.tensors[j]
           IN  u.offset # t.offset /\ (u.offset > t.offset => t.offset + t.size <= u.offset)
  BY DEF Whole
<1>4. CASE Repeated(input, i) /\ o = t.offset
  <2>1. input.len = t.offset
    BY <1>3, <1>4 DEF Repeated
  <2> QED BY <2>1, <1>1, <1>2, <1>3, <1>4
<1>5. CASE Later(input, i) # {} /\ o = Min(Later(input, i))
  <2>1. Later(input, i) \subseteq Nat
    BY <1>1, <1>2 DEF Later
  <2>2. o \in Later(input, i)
    BY <2>1, <1>5, MinNat
  <2>3. \A p \in Later(input, i) : p >= t.offset + t.size
    <3> SUFFICES ASSUME NEW p \in Later(input, i)
                 PROVE  p >= t.offset + t.size
      OBVIOUS
    <3>1. p > t.offset /\ (p = input.len \/ \E j \in DOMAIN input.tensors : p = input.tensors[j].offset)
      BY DEF Later
    <3>2. CASE p = input.len
      BY <3>2, <1>1, <1>2, <1>3
    <3>3. CASE \E j \in DOMAIN input.tensors : p = input.tensors[j].offset
      <4>1. PICK j \in DOMAIN input.tensors : p = input.tensors[j].offset
        BY <3>3
      <4>2. t.offset \in Nat /\ p \in Nat
        BY <4>1, <1>2
      <4>3. j # i
        BY <3>1, <4>1, <4>2
      <4> QED BY <3>1, <4>1, <4>2, <4>3, <1>2, <1>3
    <3> QED BY <3>1, <3>2, <3>3
  <2> QED BY <2>2, <2>3
<1> QED BY <1>4, <1>5 DEF Next_offset

\* What a tensor of a GGUF file is turned into is faithful.
LEMMA GgufFaithful ==
  ASSUME NEW input \in Inputs, NEW i \in DOMAIN input.tensors, NEW made \in Gguf_tensor(input, i)
  PROVE  Faithful(input, i, made)
<1> DEFINE t == input.tensors[i]
<1>1. PICK o \in Next_offset(input, i) :
        /\ Usable(input, i, o)
        /\ made = Made(t, Gguf_type_to_dtype(t.type), Slice(input, t.offset, o))
  BY DEF Gguf_tensor
<1>2. t \in ListedTensor
  BY InputsAssumption
<1>3. /\ t.type \in GGMLTypes \cup SafeTypes
      /\ t.offset \in Nat /\ t.elems \in Nat /\ t.size \in Nat
  BY <1>2 DEF ListedTensor
<1>4. /\ made.name = t.name /\ made.elems = t.elems
      /\ made.dtype = Gguf_type_to_dtype(t.type)
      /\ made.payload.id[2] = t.offset /\ made.payload.id[3] = o
  BY <1>1 DEF Made, Slice
<1>5. o \in Int /\ SizeFits(made.dtype, t.elems, o - t.offset)
  BY <1>1, <1>4, InputsAssumption, <1>3 DEF Usable
<1>6. ASSUME made.dtype \in DOMAIN Elem_size
      PROVE  made.dtype = t.type /\ o = t.offset + t.size
  <2>1. made.dtype = t.type
    BY <1>3, <1>4, <1>6 DEF Gguf_type_to_dtype, Elem_size, GGMLTypes, SafeTypes
  <2>2. t.size = t.elems * Elem_size[t.type]
    BY <2>1, <1>6, SizesAssumption
  <2>3. o - t.offset = t.elems * Elem_size[t.type]
    BY <2>1, <1>5, <1>6 DEF SizeFits
  <2> QED BY <2>1, <2>2, <2>3, <1>3, <1>5
<1>7. Whole(input) => o >= t.offset + t.size
  BY NextOffsetBehind
<1> QED BY <1>4, <1>6, <1>7 DEF Faithful

\* So is what a tensor of any input is turned into.
LEMMA ConvertedFaithful ==
  ASSUME NEW input \in Inputs, NEW i \in DOMAIN input.tensors, NEW made \in Converted(input, i)
  PROVE  Faithful(input, i, made)
<1> DEFINE t == input.tensors[i]
<1>1. t \in ListedTensor /\ input.kind \in {"gguf", "safetensors", "file"} /\ input.len \in Nat
  BY InputsAssumption
<1>2. t.offset \in Nat /\ t.size \in Nat /\ t.type \in GGMLTypes \cup SafeTypes
  BY <1>1 DEF ListedTensor
<1>3. CASE input.kind = "gguf"
  BY <1>3, GgufFaithful DEF Converted
<1>4. CASE input.kind = "safetensors"
  <2>1. made = Made(t, Safe_dtype(t.type), Slice(input, t.offset, t.offset + t.size))
    BY <1>4 DEF Converted, Safe_tensor
  <2>2. made.dtype \in DOMAIN Elem_size => made.dtype = t.type
    BY <2>1 DEF Made, Safe_dtype, Elem_size
  <2> QED BY <1>2, <2>1, <2>2 DEF Made, Slice, Faithful
<1>5. CASE input.kind = "file"
  <2>1. i = 1 /\ t.type = "U8" /\ t.offset = 0 /\ t.size = input.len
    BY <1>5, SizesAssumption
  <2>2. made = Made(t, "U8", Slice(input, 0, input.len))
    BY <1>5, <2>1 DEF Converted, Create_tensor
  <2> QED BY <1>1, <1>2, <2>1, <2>2 DEF Made, Slice, Faithful
<1> QED BY <1>1, <1>3, <1>4, <1>5

-----------------------------------------------------------------------------
LEMMA InitConvert == Init => ConvertInv
BY DEF Init, ConvertInv, Underway, ConvertedFaithfully

\* No input is the one that stands for none.
LEMMA InputIsSome == \A input \in Inputs : input # NoInput
BY InputsAssumption DEF NoInput

LEMMA StepWrite_command ==
  ASSUME ConvertInv, Write_command
  PROVE  ConvertInv'
<1>1. PICK input \in Inputs : wcmd' = [input |-> input, next |-> 1]
  BY DEF Write_command
<1>2. wcmd'.input = input /\ wcmd'.next = 1 /\ tensors' = <<>>
  BY <1>1 DEF Write_command
<1>3. input.tensors \in Seq(ListedTensor)
  BY InputsAssumption
<1>4. Underway'
  BY <1>2, <1>3 DEF Underway
<1>5. ConvertedFaithfully'
  BY DEF Write_command, ConvertInv, ConvertedFaithfully
<1> QED BY <1>4, <1>5 DEF ConvertInv

LEMMA StepConvert_tensor ==
  ASSUME ConvertInv, Convert_tensor
  PROVE  ConvertInv'
<1> DEFINE input == wcmd.input
           n == wcmd.next
<1>1. input # NoInput /\ input \in Inputs /\ n \in DOMAIN input.tensors
  BY DEF Convert_tensor, ConvertInv, Underway
<1>2. input.tensors \in Seq(ListedTensor)
  BY <1>1, InputsAssumption
<1>3. PICK t \in Converted(input, n) : tensors' = Append(tensors, t)
  BY DEF Convert_tensor
<1>4. wcmd'.input = input /\ wcmd'.next = n + 1
  BY DEF Convert_tensor
<1>5. t \in Results(input)
  BY <1>1, <1>3 DEF Results
<1>6. tensors \in Seq(Results(input)) /\ Len(tensors) = n - 1 /\ n \in 1 .. Len(input.tensors)
  BY <1>1, <1>2 DEF ConvertInv, Underway
<1>7. tensors' \in Seq(Results(input)) /\ Len(tensors') = n
  BY <1>3, <1>5, <1>6
<1>8. ASSUME NEW i \in DOMAIN tensors' PROVE Faithful(input, i, tensors'[i])
  <2>1. CASE i = n
    <3>1. tensors'[i] = t
      BY <1>3, <1>6, <2>1
    <3> QED BY <3>1, <2>1, <1>1, <1>3, ConvertedFaithful
  <2>2. CASE i # n
    <3>1. i \in DOMAIN tensors /\ tensors'[i] = tensors[i]
      BY <1>3, <1>6, <1>7, <2>2
    <3> QED BY <3>1, <1>1 DEF ConvertInv, Underway
  <2> QED BY <2>1, <2>2
<1>9. Underway'
  BY <1>1, <1>2, <1>4, <1>6, <1>7, <1>8 DEF Underway, Faithful, Whole
<1>10. ConvertedFaithfully'
  BY DEF Convert_tensor, ConvertInv, ConvertedFaithfully
<1> QED BY <1>9, <1>10 DEF ConvertInv

LEMMA StepConvert_refuses ==
  ASSUME ConvertInv, Convert_refuses
  PROVE  ConvertInv'
<1>1. wcmd'.input = NoInput
  BY DEF Convert_refuses, ConvertInv, Underway
<1> QED BY <1>1 DEF Convert_refuses, ConvertInv, Underway, ConvertedFaithfully

LEMMA StepWrite_output ==
  ASSUME ConvertInv, Write_output
  PROVE  ConvertInv'
<1>1. /\ wcmd.input # NoInput /\ wcmd.next > Len(wcmd.input.tensors)
      /\ origin' = wcmd.input /\ source' = tensors
  BY DEF Write_output, Finalize
<1>2. wcmd'.input = NoInput
  BY DEF Write_output
<1>3. wcmd.input \in Inputs /\ wcmd.next \in 1 .. Len(wcmd.input.tensors) + 1
  BY <1>1 DEF ConvertInv, Underway
<1>4. wcmd.input.tensors \in Seq(ListedTensor)
  BY <1>3, InputsAssumption
<1>5. Len(source') = Len(origin'.tensors)
  BY <1>1, <1>3, <1>4 DEF ConvertInv, Underway
<1>6. \A i \in DOMAIN source' : Faithful(origin', i, source'[i])
  BY <1>1 DEF ConvertInv, Underway
<1>7. ConvertedFaithfully'
  BY <1>5, <1>6 DEF ConvertedFaithfully, Faithful, Whole
<1> QED BY <1>2, <1>7 DEF ConvertInv, Underway

\* Nothing else touches what the invariant speaks of.
LEMMA StepOther ==
  ASSUME ConvertInv, UNCHANGED <<wcmd, tensors, source, origin>>
  PROVE  ConvertInv'
BY DEF ConvertInv, Underway, ConvertedFaithfully

LEMMA ReadStepKeeps ==
  ASSUME ReadStep
  PROVE  UNCHANGED <<wcmd, tensors, source, origin>>
<1>1. ASSUME NEW outcome, Ends(outcome)
      PROVE  UNCHANGED <<wcmd, tensors, source, origin>>
  BY <1>1 DEF Ends, writerVars
<1> QED BY <1>1 DEF ReadStep, Read_command, Open_continues, Open_fails, Info, Decode_schemas,
             Decode_fails, Inspect, Verify_turn, Verify_ends, Load_finds_none, Load_tensor,
             Load_tensor_numpy, Loaded, writerVars, toolVars

LEMMA NextConvert == ConvertInv /\ [Next]_toolsVars => ConvertInv'
<1> SUFFICES ASSUME ConvertInv, [Next]_toolsVars PROVE ConvertInv'
  OBVIOUS
<1>1. CASE Write_on
  BY <1>1, StepOther DEF Write_on, Write_block, Write_fails, toolVars
<1>2. CASE ReadStep
  BY <1>2, StepOther, ReadStepKeeps
<1>3. CASE UNCHANGED toolsVars
  BY <1>3, StepOther DEF toolsVars, writerVars, toolVars
<1> QED BY <1>1, <1>2, <1>3, StepWrite_command, StepConvert_tensor, StepConvert_refuses,
           StepWrite_output DEF Next, WriteStep

\* Whatever an input lists, in whatever order, cut short, padded or with offsets that
\* are equal: the container a command writes holds its tensors faithfully, or the
\* command ends before it creates the file (from_gguf.rs:61).
THEOREM ConversionIsFaithful == Spec => []ConvertedFaithfully
<1>1. ConvertInv => ConvertedFaithfully
  BY DEF ConvertInv
<1> QED BY InitConvert, NextConvert, <1>1, PTL DEF Spec
-----------------------------------------------------------------------------
\* What read_tensor can return.
Data == [payload : Payloads, compression : Compressions]

Cmds == {"none", "inspect", "info", "verify", "load_tensor", "load_tensor_numpy"}

\* Of each schema verified so far, what verify_tensor said is true of what read_tensor
\* returned.
VerifyInv ==
  /\ rcmd \in [cmd : Cmds, name : Names \cup {"none"}, reports : Seq(BOOLEAN)]
  /\ reread \in Seq(SUBSET Data) /\ Len(reread) = Len(rcmd.reports)
  /\ \A i \in DOMAIN rcmd.reports :
       /\ Decoded /\ i \in DOMAIN rsource
       /\ rcmd.reports[i] => reread[i] = {Added(rsource, LastOf(rsource, rsource[i].name))}

ToolsInv == ConvertInv /\ FileInv /\ DecodedInv /\ VerifyInv /\ VerifyConfirms

\* Whatever the file is, read_tensor returns payloads of tensors.
LEMMA ReadData ==
  ASSUME FileInv, NEW name
  PROVE  Read_tensor(name) \in SUBSET Data
<1> DEFINE s == Find_schema(name)
<1> SUFFICES ASSUME NEW c \in ChunkHeaderAt(s.chunk), NEW d \in Decompress(c.data, s.compression)
             PROVE  d \in Data
  BY DEF Read_tensor
<1>1. c \in BlockAt(file, s.chunk.byte_offset, "chunk")
  BY DEF ChunkHeaderAt
<1>2. PICK payload \in Payloads, compression \in Compressions :
        c.data = [payload |-> payload, compression |-> compression]
  <2>1. c \in Blocks(source) /\ c.kind = "chunk" /\ source \in Seq(Tensor)
    BY <1>1, BlockAtFile DEF FileInv
  <2> QED BY <2>1, ChunkOfTensor
<1> HIDE DEF s
<1> QED BY <1>2 DEF Decompress, Data, Compressions

\* Before a command begins and after it ends.
LEMMA NoCommandTyped ==
  /\ NoCommand \in [cmd : Cmds, name : Names \cup {"none"}, reports : Seq(BOOLEAN)]
  /\ DOMAIN NoCommand.reports = {} /\ Len(NoCommand.reports) = 0
  /\ <<>> \in Seq(SUBSET Data) /\ Len(<<>>) = 0
<1>1. <<>> \in Seq(BOOLEAN) /\ <<>> \in Seq(SUBSET Data) /\ DOMAIN <<>> = {} /\ Len(<<>>) = 0
  OBVIOUS
<1>2. "none" \in Cmds /\ "none" \in Names \cup {"none"}
  BY DEF Cmds
<1>3. NoCommand.reports = <<>>
  BY DEF NoCommand
<1> QED BY <1>1, <1>2, <1>3 DEF NoCommand, Cmds

LEMMA InitTools == Init => ToolsInv
<1> SUFFICES ASSUME Init PROVE ToolsInv
  OBVIOUS
<1>1. VerifyInv
  BY NoCommandTyped DEF Init, VerifyInv
<1>2. VerifyConfirms
  BY DEF Init, NoResult, VerifyConfirms
<1> QED BY <1>1, <1>2, InitConvert, InitFile, InitDecoded DEF Init, ToolsInv

\* A command that writes: the file goes with its tensors, and the reader keeps what it has.
LEMMA FileWriteStep ==
  ASSUME ConvertInv, FileInv, WriteStep
  PROVE  FileInv'
<1>1. CASE Write_command
  <2>1. tensors' = <<>> /\ UNCHANGED <<file, unwritten, wpc, source>>
    BY <1>1 DEF Write_command
  <2> QED BY <2>1 DEF FileInv
<1>2. CASE Convert_tensor
  <2>1. PICK t \in Converted(wcmd.input, wcmd.next) : tensors' = Append(tensors, t)
    BY <1>2 DEF Convert_tensor
  <2>2. t \in Tensor
    BY <1>2, <2>1, ResultsAssumption DEF Convert_tensor, ConvertInv, Underway
  <2>3. UNCHANGED <<file, unwritten, wpc, source>>
    BY <1>2 DEF Convert_tensor
  <2> QED BY <2>1, <2>2, <2>3 DEF FileInv
<1>3. CASE Convert_refuses
  <2>1. tensors' = <<>> /\ UNCHANGED <<file, unwritten, wpc, source>>
    BY <1>3 DEF Convert_refuses
  <2> QED BY <2>1 DEF FileInv
<1>4. CASE Write_output
  BY <1>4, FileStep DEF Write_output, Writer
<1>5. CASE Write_on
  BY <1>5, FileStep DEF Write_on, Writer
<1> QED BY <1>1, <1>2, <1>3, <1>4, <1>5 DEF WriteStep

LEMMA WriteStepKeeps ==
  ASSUME WriteStep
  PROVE  UNCHANGED <<readerVars, rcmd, result, reread>>
BY DEF WriteStep, Write_command, Convert_tensor, Convert_refuses, Write_output, Write_on, toolVars

\* What the reader's part of the invariant speaks of is kept.
LEMMA VerifyKept ==
  ASSUME VerifyInv, VerifyConfirms, UNCHANGED <<readerVars, rcmd, result, reread>>
  PROVE  VerifyInv' /\ VerifyConfirms'
<1>1. VerifyInv'
  BY DEF VerifyInv, Decoded, readerVars
<1>2. VerifyConfirms'
  BY DEF VerifyConfirms, Added, LastOf
<1> QED BY <1>1, <1>2

\* A command that reads ends, with something other than a verification that went well.
LEMMA EndsOtherwise ==
  ASSUME NEW outcome, Ends(outcome), ~(outcome.cmd = "verify" /\ outcome.exit = "ok")
  PROVE  DecodedInv' /\ VerifyInv' /\ VerifyConfirms'
<1>1. rcmd' = NoCommand /\ reread' = <<>> /\ result' = outcome /\ rpc' = "none"
  BY DEF Ends, Reader_closed
<1>2. DecodedInv' /\ VerifyConfirms'
  BY <1>1 DEF DecodedInv, Decoded, VerifyConfirms
<1>3. VerifyInv'
  BY <1>1, NoCommandTyped DEF VerifyInv
<1> QED BY <1>2, <1>3

LEMMA StepVerify_turn ==
  ASSUME ToolsInv, Verify_turn
  PROVE  DecodedInv' /\ VerifyInv' /\ VerifyConfirms'
<1> DEFINE name == rschemas[Turn].name
           n == Len(rcmd.reports) + 1
<1>1. CASE Verify_errs(name) /\ Ends(Exit("error"))
  BY <1>1, EndsOtherwise DEF Exit
<1>2. CASE /\ rcmd' = [rcmd EXCEPT !.reports = Append(@, Verify_tensor(name))]
           /\ reread' = Append(reread, Read_tensor(name))
           /\ UNCHANGED <<writerVars, readerVars, wcmd, commands, result, origin>>
  <2>1. Decoded /\ n \in DOMAIN rschemas /\ n = Turn
    BY DEF Verify_turn, Turn
  <2>2. PICK base \in Bases(rsource) : rschemas = Schemas(rsource, base)
    BY <2>1 DEF ToolsInv, DecodedInv
  <2>3. n \in DOMAIN rsource /\ name = rsource[n].name /\ name \in SchemaNames
    BY <2>1, <2>2 DEF Schemas, SchemaNames
  <2>4. Verify_tensor(name) => Read_tensor(name) = {Added(rsource, LastOf(rsource, name))}
    BY <2>1, <2>3, VerifiedFromInv DEF ToolsInv, VerifiedReads
  <2>5. Read_tensor(name) \in SUBSET Data
    BY ReadData DEF ToolsInv
  <2>6. Verify_tensor(name) \in BOOLEAN
    BY DEF Verify_tensor
  <2> DEFINE ok == Verify_tensor(name)
             got == Read_tensor(name)
             want == {Added(rsource, LastOf(rsource, name))}
  <2>7. rcmd' = [rcmd EXCEPT !.reports = Append(@, ok)] /\ reread' = Append(reread, got)
    BY <1>2
  <2>8. VerifyInv
    BY DEF ToolsInv
  <2>9. UNCHANGED <<rpc, rsource, rschemas, result>>
    BY <1>2 DEF readerVars
  <2> HIDE DEF ok, got, name
  <2>10. /\ rcmd.reports \in Seq(BOOLEAN) /\ reread \in Seq(SUBSET Data)
         /\ Len(reread) = Len(rcmd.reports) /\ rcmd'.reports = Append(rcmd.reports, ok)
    BY <2>7, <2>8 DEF VerifyInv
  <2>11. /\ rcmd'.reports \in Seq(BOOLEAN) /\ reread' \in Seq(SUBSET Data)
         /\ Len(rcmd'.reports) = n /\ Len(reread') = n
         /\ rcmd'.reports[n] = ok /\ reread'[n] = got
         /\ \A i \in DOMAIN rcmd'.reports \ {n} :
              /\ i \in DOMAIN rcmd.reports
              /\ rcmd'.reports[i] = rcmd.reports[i] /\ reread'[i] = reread[i]
    BY <2>5, <2>6, <2>7, <2>10 DEF ok, got
  <2>12. rcmd' \in [cmd : Cmds, name : Names \cup {"none"}, reports : Seq(BOOLEAN)]
    BY <2>7, <2>8, <2>11 DEF VerifyInv
  <2>13. ASSUME NEW i \in DOMAIN rcmd'.reports
         PROVE  /\ Decoded' /\ i \in DOMAIN rsource'
                /\ rcmd'.reports[i] => reread'[i] = {Added(rsource, LastOf(rsource, rsource[i].name))}
    <3>1. CASE i = n
      BY <3>1, <2>1, <2>3, <2>4, <2>9, <2>11 DEF Decoded, ok, got
    <3>2. CASE i # n
      BY <3>2, <2>8, <2>9, <2>11 DEF VerifyInv, Decoded
    <3> QED BY <3>1, <3>2
  <2>14. VerifyInv'
    BY <2>9, <2>11, <2>12, <2>13 DEF VerifyInv, Added, LastOf
  <2>15. VerifyConfirms'
    BY <2>9 DEF ToolsInv, VerifyConfirms, Added, LastOf
  <2> QED BY <1>2, <2>14, <2>15, DecodedKept DEF ToolsInv
<1> QED BY <1>1, <1>2 DEF Verify_turn

LEMMA StepVerify_ends ==
  ASSUME ToolsInv, Verify_ends
  PROVE  DecodedInv' /\ VerifyInv' /\ VerifyConfirms'
<1>1. CASE ~All_valid(rcmd.reports)
  BY <1>1, EndsOtherwise DEF Verify_ends
<1>2. CASE All_valid(rcmd.reports)
  <2>1. /\ rcmd' = NoCommand /\ reread' = <<>> /\ rpc' = "none"
        /\ result'.of = rsource /\ result'.reread = reread
    BY DEF Verify_ends, Ends, Reader_closed
  <2>2. DecodedInv' /\ VerifyInv'
    BY <2>1, NoCommandTyped DEF DecodedInv, Decoded, VerifyInv
  <2>3. Decoded /\ Len(rcmd.reports) + 1 > Len(rschemas) /\ VerifyInv
    BY DEF Verify_ends, Turn, ToolsInv
  <2>4. rsource \in Seq(Tensor) /\ DOMAIN rschemas = DOMAIN rsource /\ rschemas \in Seq({rschemas[i] : i \in DOMAIN rschemas})
    BY <2>3 DEF ToolsInv, DecodedInv, Schemas
  <2>5. Len(rschemas) = Len(rsource) /\ Len(rsource) \in Nat
    BY <2>4
  <2>6. Len(rcmd.reports) = Len(rsource)
    <3>1. rcmd.reports \in Seq(BOOLEAN) /\ \A i \in DOMAIN rcmd.reports : i \in DOMAIN rsource
      BY <2>3 DEF VerifyInv
    <3>2. Len(rcmd.reports) \in Nat /\ (Len(rcmd.reports) # 0 => Len(rcmd.reports) \in DOMAIN rcmd.reports)
      BY <3>1
    <3>3. DOMAIN rsource = 1 .. Len(rsource)
      BY <2>4
    <3> QED BY <3>1, <3>2, <3>3, <2>3, <2>5
  <2>7. DOMAIN reread = DOMAIN rsource /\ DOMAIN rcmd.reports = DOMAIN rsource
    BY <2>3, <2>4, <2>6 DEF VerifyInv
  <2>8. reread = [i \in DOMAIN rsource |-> {Added(rsource, LastOf(rsource, rsource[i].name))}]
    <3>1. \A i \in DOMAIN rsource : reread[i] = {Added(rsource, LastOf(rsource, rsource[i].name))}
      BY <1>2, <2>3, <2>7 DEF VerifyInv, All_valid
    <3>2. reread = [i \in DOMAIN reread |-> reread[i]]
      BY <2>3 DEF VerifyInv
    <3> QED BY <2>7, <3>1, <3>2
  <2>9. VerifyConfirms'
    BY <2>1, <2>8 DEF VerifyConfirms, Added, LastOf
  <2> QED BY <2>2, <2>9
<1> QED BY <1>1, <1>2

LEMMA NextTools == ToolsInv /\ [Next]_toolsVars => ToolsInv'
<1> SUFFICES ASSUME ToolsInv, [Next]_toolsVars PROVE ToolsInv'
  OBVIOUS
<1>1. ConvertInv'
  BY NextConvert DEF ToolsInv
<1>2. CASE WriteStep
  <2>1. FileInv'
    BY <1>2, FileWriteStep DEF ToolsInv
  <2>2. DecodedInv' /\ VerifyInv' /\ VerifyConfirms'
    BY <1>2, WriteStepKeeps, VerifyKept, DecodedKept DEF ToolsInv
  <2> QED BY <1>1, <2>1, <2>2 DEF ToolsInv
<1>3. CASE ReadStep
  <2>1. UNCHANGED writerVars
    BY <1>3 DEF ReadStep, Read_command, Open_continues, Open_fails, Info, Decode_schemas,
             Decode_fails, Inspect, Verify_turn, Verify_ends, Load_finds_none, Load_tensor,
             Load_tensor_numpy, Loaded, Ends
  <2>2. FileInv'
    BY <2>1, FileKept DEF ToolsInv
  <2> SUFFICES DecodedInv' /\ VerifyInv' /\ VerifyConfirms'
    BY <1>1, <2>2 DEF ToolsInv
  <2>3. CASE Read_command
    <3>1. rcmd.reports = <<>> /\ rpc = "none" /\ reread' = reread /\ result' = result
      BY <2>3 DEF Read_command, Reader_map, NoCommand
    <3>2. rcmd' \in [cmd : Cmds, name : Names \cup {"none"}, reports : {<<>>}]
      <4>1. \E cmd \in Cmds, n \in Names \cup {"none"} :
              rcmd' = [cmd |-> cmd, name |-> n, reports |-> <<>>]
        <5>1. CASE \E cmd \in {"inspect", "info", "verify"} : rcmd' = [NoCommand EXCEPT !.cmd = cmd]
          BY <5>1 DEF NoCommand, Cmds
        <5>2. CASE \E cmd \in {"load_tensor", "load_tensor_numpy"}, n \in Names :
                     rcmd' = [NoCommand EXCEPT !.cmd = cmd, !.name = n]
          BY <5>2 DEF NoCommand, Cmds
        <5> QED BY <5>1, <5>2, <2>3 DEF Read_command
      <4> QED BY <4>1
    <3>3. VerifyInv'
      <4>1. /\ rcmd'.reports = <<>> /\ DOMAIN rcmd'.reports = {} /\ Len(rcmd'.reports) = 0
            /\ <<>> \in Seq(BOOLEAN)
        BY <3>2
      <4>2. rcmd' \in [cmd : Cmds, name : Names \cup {"none"}, reports : Seq(BOOLEAN)]
        BY <3>2, <4>1
      <4> QED BY <3>1, <4>1, <4>2 DEF ToolsInv, VerifyInv
    <3>4. VerifyConfirms'
      BY <3>1 DEF ToolsInv, VerifyConfirms, Added, LastOf
    <3>5. DecodedInv'
      BY <2>3, DecodedStep DEF Read_command, Reader, ToolsInv
    <3> QED BY <3>3, <3>4, <3>5
  <2>4. CASE Open_continues \/ Decode_schemas
    <3>1. rpc # "decoded" /\ UNCHANGED toolVars
      BY <2>4 DEF Open_continues, Decode_schemas, Reader_prefix, Reader_metadata, Reader_footer,
                  Reader_index, Reader_schemas
    <3>2. DOMAIN rcmd.reports = {}
      BY <3>1 DEF ToolsInv, VerifyInv, Decoded
    <3>3. VerifyInv'
      BY <3>1, <3>2 DEF ToolsInv, VerifyInv, toolVars
    <3>4. VerifyConfirms'
      BY <3>1 DEF ToolsInv, VerifyConfirms, Added, LastOf, toolVars
    <3>5. DecodedInv'
      BY <2>4, DecodedStep DEF Open_continues, Decode_schemas, Reader_open, Reader, ToolsInv
    <3> QED BY <3>3, <3>4, <3>5
  <2>5. CASE Open_fails \/ Decode_fails \/ Info \/ Inspect
    BY <2>5, EndsOtherwise DEF Open_fails, Decode_fails, Info, Inspect, Exit
  <2>6. CASE Load_finds_none \/ Load_tensor \/ Load_tensor_numpy
    BY <2>6, EndsOtherwise DEF Load_finds_none, Load_tensor, Load_tensor_numpy, Loaded, Exit
  <2> QED BY <1>3, <2>3, <2>4, <2>5, <2>6, StepVerify_turn, StepVerify_ends
          DEF ReadStep, ToolsInv
<1>4. CASE UNCHANGED toolsVars
  <2>1. UNCHANGED writerVars /\ UNCHANGED <<readerVars, rcmd, result, reread>>
    BY <1>4 DEF toolsVars, toolVars
  <2> QED BY <1>1, <2>1, FileKept, DecodedKept, VerifyKept DEF ToolsInv
<1> QED BY <1>2, <1>3, <1>4 DEF Next

\* A verification that ends well tells the truth of every tensor, whatever another
\* command made of the file in its course (main.rs:58, reader.rs:341).
THEOREM VerifyTellsTheTruth == Spec => []VerifyConfirms
<1>1. ToolsInv => VerifyConfirms
  BY DEF ToolsInv
<1> QED BY InitTools, NextTools, <1>1, PTL DEF Spec
-----------------------------------------------------------------------------
(***************************************************************************)
(* The arrays of load_tensor_numpy.                                        *)
(***************************************************************************)
\* The payload is as long as the elements take that have a size of their own.
Fits(t) == t.dtype \in DOMAIN Elem_size => t.payload.len = t.elems * Elem_size[t.dtype]
FitAll(tensorList) == \A i \in DOMAIN tensorList : Fits(tensorList[i])

\* The containers of the other producer are such.  add_tensor does not ask for it.
FoundFit == \A found \in Found : FitAll(found)

\* What the commands write fits and is not compressed.
PlainInv ==
  /\ wcmd.input # NoInput => wpc = "idle"
  /\ FitAll(tensors) /\ \A i \in DOMAIN tensors : tensors[i].compression = "None"
  /\ FitAll(source) /\ (version # 0 => \A i \in DOMAIN source : source[i].compression = "None")
  /\ Decoded => FitAll(rsource)

ArraysInv == ToolsInv /\ LayoutInv /\ ReaderView /\ PlainInv /\ ArraysAreWhole

LEMMA ConvertedFits ==
  ASSUME NEW input \in Inputs, NEW i \in DOMAIN input.tensors, NEW made \in Converted(input, i)
  PROVE  Fits(made) /\ made.compression = "None"
<1> DEFINE t == input.tensors[i]
<1>1. t \in ListedTensor /\ input.kind \in {"gguf", "safetensors", "file"}
  BY InputsAssumption
<1>2. PICK dtype, from, to : made = Made(t, dtype, Slice(input, from, to))
  <2>1. CASE input.kind = "gguf"
    BY <2>1 DEF Converted, Gguf_tensor
  <2>2. CASE input.kind = "safetensors"
    BY <2>2 DEF Converted, Safe_tensor
  <2>3. CASE input.kind = "file"
    <3>1. i = 1
      BY <2>3, SizesAssumption
    <3> QED BY <2>3, <3>1 DEF Converted, Create_tensor
  <2> QED BY <1>1, <2>1, <2>2, <2>3
<1>3. /\ made.elems = t.elems /\ made.compression = "None" /\ made.payload.len = to - from
      /\ made.payload.id[2] = from /\ made.payload.id[3] = to
  BY <1>2 DEF Made, Slice
<1>4. Faithful(input, i, made)
  BY ConvertedFaithful
<1>5. ASSUME made.dtype \in DOMAIN Elem_size
      PROVE  made.payload.len = made.elems * Elem_size[made.dtype]
  <2>1. from = t.offset /\ made.dtype = t.type /\ to = from + t.size
    BY <1>3, <1>4, <1>5 DEF Faithful
  <2>2. t.size = t.elems * Elem_size[t.type]
    BY <1>5, <2>1, SizesAssumption
  <2>3. t.offset \in Nat /\ t.size \in Nat
    BY <1>1 DEF ListedTensor
  <2> QED BY <1>3, <2>1, <2>2, <2>3
<1> QED BY <1>3, <1>5 DEF Fits

LEMMA InitArrays == FoundFit /\ Init => ArraysInv
<1> SUFFICES ASSUME FoundFit, Init PROVE ArraysInv
  OBVIOUS
<1>1. WriterInit /\ ReaderInit /\ wcmd.input = NoInput /\ result = NoResult
  BY DEF Init
<1>2. ToolsInv /\ LayoutInv /\ ReaderView
  BY <1>1, InitTools, InitLayout, InitView
<1>3. FitAll(source)
  BY <1>1 DEF WriterInit, FoundFit, FitAll
<1>4. PlainInv
  BY <1>1, <1>3 DEF WriterInit, ReaderInit, Decoded, PlainInv, FitAll
<1>5. ArraysAreWhole
  BY <1>1 DEF NoResult, ArraysAreWhole
<1> QED BY <1>2, <1>4, <1>5 DEF ArraysInv

\* The schema of a decoded name says how long a payload is that fits.
LEMMA SchemaFits ==
  ASSUME DecodedInv, PlainInv, Decoded, NEW name \in SchemaNames
  PROVE  LET s == Find_schema(name)
         IN  /\ s.elems \in Nat /\ s.dtype \in DTypes /\ s.compression \in Compressions
             /\ s.chunk.uncompressed_len \in Nat
             /\ s.dtype \in DOMAIN Elem_size => s.chunk.uncompressed_len = s.elems * Elem_size[s.dtype]
             /\ \E u \in Tensor :
                  /\ s.compression = u.compression /\ s.chunk.uncompressed_len = u.payload.len
                  /\ s.chunk.byte_len = ChunkTotalLen(u)
<1>1. PICK base \in Bases(rsource) : rschemas = Schemas(rsource, base)
  BY DEF DecodedInv
<1>2. rsource \in Seq(Tensor) /\ FitAll(rsource)
  BY DEF DecodedInv, PlainInv
<1> DEFINE last == LastOf(rsource, name)
           u == rsource[last]
           s == Find_schema(name)
<1>3. name \in NamesOf(rsource)
  BY <1>1, <1>2, SchemaOfName
<1>4. last \in DOMAIN rsource /\ u \in Tensor /\ Fits(u)
  <2>1. last \in DOMAIN rsource
    BY <1>2, <1>3, LastIs
  <2> QED BY <1>2, <2>1 DEF FitAll
<1>5. s = rschemas[last]
  <2>1. DOMAIN rschemas = DOMAIN rsource /\ \A j \in DOMAIN rsource : rschemas[j].name = rsource[j].name
    BY <1>1 DEF Schemas
  <2>2. {j \in DOMAIN rschemas : rschemas[j].name = name} = {j \in DOMAIN rsource : rsource[j].name = name}
    BY <2>1
  <2> QED BY <2>2 DEF Find_schema, LastOf
<1> HIDE DEF last
<1>6. /\ s.elems = u.elems /\ s.dtype = u.dtype /\ s.compression = u.compression
      /\ s.chunk = Chunk_ref(rsource, base, last)
  BY <1>1, <1>4, <1>5 DEF Schemas
<1> HIDE DEF s
<1>7. s.chunk.uncompressed_len = u.payload.len /\ s.chunk.byte_len = ChunkTotalLen(u)
  BY <1>6 DEF Chunk_ref
<1> HIDE DEF u
<1>8. u.elems \in Nat /\ u.dtype \in DTypes /\ u.compression \in Compressions /\ u.payload.len \in Nat
  BY <1>4, TensorSizes DEF Tensor
<1> QED BY <1>4, <1>6, <1>7, <1>8 DEF Fits, s

\* A chunk in the file is that of a tensor.
LEMMA ChunkIs ==
  ASSUME NEW tensorList \in Seq(Tensor), NEW b \in Blocks(tensorList), b.kind = "chunk"
  PROVE  \E t \in Tensor, i \in DOMAIN tensorList : t = tensorList[i] /\ b = Chunk(t, i - 1)
<1>1. PICK i \in DOMAIN tensorList : b = Chunk(tensorList[i], i - 1)
  BY DEF Blocks, WholeBlocks, Prefix, Metadata, Footer, SchemaBlock, Index, Torn
<1>2. tensorList[i] \in Tensor
  OBVIOUS
<1> QED BY <1>1, <1>2

\* What read_tensor returns is as long as the schema says, whatever the file is now.
LEMMA ReadLength ==
  ASSUME FileInv, LayoutInv, DecodedInv, ReaderView, PlainInv, Decoded,
         NEW name \in SchemaNames, NEW d \in Read_tensor(name)
  PROVE  PackedLen(d) = Find_schema(name).chunk.uncompressed_len
<1> DEFINE s == Find_schema(name)
           ref == s.chunk
<1> SUFFICES PackedLen(d) = ref.uncompressed_len
  OBVIOUS
<1>1. PICK c \in ChunkHeaderAt(ref) :
        /\ FlagsAgree(c, s.compression) /\ PayloadFits(c, ref)
        /\ d \in Decompress(c.data, s.compression) /\ PackedLen(d) = c.uncompressed_len
  BY DEF Read_tensor
<1>2. c \in BlockAt(file, ref.byte_offset, "chunk") /\ source \in Seq(Tensor)
  BY DEF ChunkHeaderAt, FileInv
<1>3. PICK t \in Tensor, k \in DOMAIN source : t = source[k] /\ c = Chunk(t, k - 1)
  BY <1>2, BlockAtFile, ChunkIs
<1>4. /\ c.flags = Flags(t) /\ c.uncompressed_len = t.payload.len /\ c.compressed_len = PackedLen(t)
  BY <1>3 DEF Chunk
<1>5. PICK u \in Tensor :
        /\ s.compression = u.compression /\ ref.uncompressed_len = u.payload.len
        /\ ref.byte_len = ChunkTotalLen(u)
  BY SchemaFits
<1> HIDE DEF s, ref
<1>6. PackedLen(t) = PackedLen(u)
  <2>1. c.compressed_len = ref.byte_len - CHUNK_OVERHEAD
    BY <1>1 DEF PayloadFits, PayloadLenAgrees
  <2>2. ref.byte_len = PackedLen(u) + 62 /\ PackedLen(u) \in Nat
    BY <1>5, TensorSizes
  <2> QED BY <1>4, <2>1, <2>2 DEF CHUNK_OVERHEAD, CHUNK_HEADER_SIZE, CHUNK_CHECKSUM_SIZE
<1>7. CASE s.compression = "None"
  <2>1. PackedLen(u) = u.payload.len
    BY <1>5, <1>7 DEF PackedLen
  <2>2. Flags(t) = 0
    BY <1>1, <1>4, <1>7 DEF FlagsAgree
  <2>3. PackedLen(t) = t.payload.len
    BY <2>2 DEF Flags
  <2> QED BY <1>1, <1>4, <1>5, <1>6, <2>1, <2>3
<1>8. CASE s.compression # "None"
  <2>1. t.compression # "None"
    <3>1. Flags(t) # 0
      BY <1>1, <1>4, <1>8 DEF FlagsAgree
    <3> QED BY <3>1, FlagsOfSound
  <2>2. version = 0
    BY <1>3, <2>1 DEF PlainInv
  <2>3. rversion = version
    BY <2>2 DEF Decoded, ReaderView, ViewInv
  <2>4. complete /\ rschemas = Schemas(source, Base)
    BY <2>3 DEF Decoded, ReaderView, ViewInv
  <2> DEFINE last == LastOf(source, name)
  <2>5. name \in NamesOf(source) /\ ref = Chunk_ref(source, Base, last)
    BY <1>2, <2>4, SchemaOfName DEF ref, s
  <2>6. last \in DOMAIN source
    BY <1>2, <2>5, LastIs
  <2> HIDE DEF last
  <2>7. c = Chunk(source[last], last - 1)
    BY <1>2, <2>2, <2>4, <2>5, <2>6, ChunkFound
  <2>8. c.uncompressed_len = source[last].payload.len /\ ref.uncompressed_len = source[last].payload.len
    BY <2>5, <2>7 DEF Chunk, Chunk_ref
  <2> QED BY <1>1, <2>8
<1> QED BY <1>7, <1>8

-----------------------------------------------------------------------------
\* A result other than that of load_tensor_numpy says nothing of arrays.
LEMMA EndsWithoutArray ==
  ASSUME NEW outcome, Ends(outcome),
         ~(outcome.cmd = "load_tensor_numpy" /\ "data" \in DOMAIN outcome)
  PROVE  ArraysAreWhole'
BY DEF Ends, ArraysAreWhole

LEMMA StepLoad_tensor_numpy ==
  ASSUME FileInv, LayoutInv, DecodedInv, ReaderView, PlainInv, Load_tensor_numpy
  PROVE  ArraysAreWhole'
<1> DEFINE name == rcmd.name
           s == Find_schema(name)
           L == s.chunk.uncompressed_len
           data == Read_tensor(name)
           arrays == UNION {Tensor_data_to_numpy(s, PackedLen(d)) : d \in data}
<1>1. /\ Decoded /\ name \in SchemaNames
      /\ result' = [cmd |-> rcmd.cmd, exit |-> IF arrays = {} THEN "error" ELSE "ok",
                    schema |-> s, data |-> data]
  BY DEF Load_tensor_numpy, Loaded, Ends
<1>2. /\ s.elems \in Nat /\ s.dtype \in DTypes /\ L \in Nat
      /\ s.dtype \in DOMAIN Elem_size => L = s.elems * Elem_size[s.dtype]
  BY <1>1, SchemaFits
<1>3. \A d \in data : PackedLen(d) = L
  BY <1>1, ReadLength
<1> HIDE DEF s, L, data
<1>4. arrays # {} => Tensor_data_to_numpy(s, L) # {}
  BY <1>3
<1>5. data # {} /\ arrays = {} => Tensor_data_to_numpy(s, L) = {}
  BY <1>3
<1> HIDE DEF arrays
<1> DEFINE width == IF s.dtype \in Numbers THEN Elem_size[s.dtype] ELSE 1
<1>6. s.dtype \in Numbers => L = s.elems * width /\ Tensor_data_to_numpy(s, L) # {}
  <2>1. CASE s.dtype \in {"I16", "I32", "F32", "F64"}
    <3>1. /\ s.dtype \in DOMAIN Elem_size /\ width = Elem_size[s.dtype]
          /\ width \in {2, 4, 8}
      BY <2>1 DEF Elem_size, Numbers
    <3>2. L = s.elems * width
      BY <1>2, <3>1
    <3>3. L \div width = s.elems
      BY <1>2, <3>1, <3>2
    <3> HIDE DEF width
    <3>4. Tensor_data_to_numpy(s, L) = {s.elems}
      BY <2>1, <3>1, <3>3 DEF Tensor_data_to_numpy
    <3> QED BY <3>2, <3>4
  <2>2. CASE s.dtype \in {"I8", "U8"}
    <3>1. s.dtype \in DOMAIN Elem_size /\ Elem_size[s.dtype] = 1 /\ width = 1
      BY <2>2 DEF Elem_size, Numbers
    <3>2. L = s.elems
      BY <1>2, <3>1
    <3>3. Tensor_data_to_numpy(s, L) = {s.elems}
      BY <2>2, <3>2 DEF Tensor_data_to_numpy
    <3> QED BY <1>2, <3>1, <3>2, <3>3
  <2> QED BY <2>1, <2>2 DEF Numbers
<1>7. s.dtype \notin Numbers /\ Tensor_data_to_numpy(s, L) # {} => L = s.elems * width
  BY <1>2 DEF Tensor_data_to_numpy, Numbers
<1> HIDE DEF width
<1>8. ASSUME NEW d \in data
      PROVE  /\ result'.exit = "ok" => PackedLen(d) = s.elems * width
             /\ result'.exit = "error" => s.dtype \notin Numbers
  <2>1. CASE arrays = {}
    <3>1. result'.exit = "error"
      BY <1>1, <2>1
    <3>2. Tensor_data_to_numpy(s, L) = {}
      BY <1>5, <1>8, <2>1
    <3> QED BY <1>6, <3>1, <3>2
  <2>2. CASE arrays # {}
    <3>1. result'.exit = "ok"
      BY <1>1, <2>2
    <3>2. L = s.elems * width
      BY <1>4, <1>6, <1>7, <2>2
    <3> QED BY <1>3, <3>1, <3>2
  <2> QED BY <2>1, <2>2
<1>9. result'.schema = s /\ result'.data = data
  BY <1>1
<1> QED BY <1>8, <1>9 DEF ArraysAreWhole, width

\* The commands that write keep to the file's layout and to what PlainInv says.
LEMMA WriteStepArrays ==
  ASSUME ArraysInv, WriteStep
  PROVE  LayoutInv' /\ ReaderView' /\ PlainInv'
<1>1. /\ ConvertInv /\ FileInv /\ LayoutInv /\ ReaderView /\ PlainInv
      /\ UNCHANGED readerVars
  BY WriteStepKeeps DEF ArraysInv, ToolsInv
<1>2. UNCHANGED <<rpc, rsource>>
  BY <1>1 DEF readerVars
<1>3. CASE Write_output \/ Write_on
  <2>1. Writer
    BY <1>3 DEF Write_output, Write_on, Writer
  <2>2. LayoutInv' /\ ReaderView'
    BY <1>1, <2>1, LayoutStep, ViewBesideWriter
  <2>3. CASE Write_output
    <3>1. wcmd'.input = NoInput /\ tensors' = tensors /\ source' = tensors
      BY <2>3 DEF Write_output, Finalize
    <3> QED BY <1>1, <1>2, <2>2, <3>1 DEF PlainInv, Decoded, FitAll
  <2>4. CASE Write_on
    <3>1. wpc = "writing" /\ UNCHANGED <<wcmd, tensors, source, version>>
      BY <2>4 DEF Write_on, Write_block, Write_fails, toolVars
    <3> QED BY <1>1, <1>2, <2>2, <3>1 DEF PlainInv, Decoded, FitAll
  <2> QED BY <1>3, <2>3, <2>4
<1>4. CASE Write_command \/ Convert_tensor \/ Convert_refuses
  <2>1. UNCHANGED <<file, unwritten, wpc, source, complete, version, wbudget>> /\ wpc = "idle"
    BY <1>1, <1>4 DEF Write_command, Writing, Convert_tensor, Convert_refuses, PlainInv
  <2>2. UNCHANGED Base /\ UNCHANGED Target
    BY <2>1 DEF Base, Target
  <2>3. LayoutInv'
    BY <1>1, <2>1, <2>2 DEF LayoutInv
  <2>4. ReaderView'
    BY <1>1, <2>1, <2>2 DEF ReaderView, ViewInv, readerVars
  <2>5. FitAll(tensors') /\ \A i \in DOMAIN tensors' : tensors'[i].compression = "None"
    <3>1. CASE tensors' = <<>>
      BY <3>1 DEF FitAll
    <3>2. CASE Convert_tensor
      <4>1. PICK t \in Converted(wcmd.input, wcmd.next) : tensors' = Append(tensors, t)
        BY <3>2 DEF Convert_tensor
      <4>2. Fits(t) /\ t.compression = "None"
        BY <1>1, <3>2, <4>1, ConvertedFits DEF Convert_tensor, ConvertInv, Underway
      <4>3. \A i \in DOMAIN tensors' : (i \in DOMAIN tensors /\ tensors'[i] = tensors[i]) \/ tensors'[i] = t
        BY <1>1, <4>1 DEF FileInv
      <4>4. FitAll(tensors) /\ \A i \in DOMAIN tensors : tensors[i].compression = "None"
        BY <1>1 DEF PlainInv
      <4> QED BY <4>2, <4>3, <4>4 DEF FitAll
    <3> QED BY <1>4, <3>1, <3>2 DEF Write_command, Convert_refuses
  <2>6. FitAll(source') /\ (version' # 0 => \A i \in DOMAIN source' : source'[i].compression = "None")
    BY <1>1, <2>1 DEF PlainInv, FitAll
  <2>7. Decoded' => FitAll(rsource')
    BY <1>1, <1>2 DEF PlainInv, Decoded, FitAll
  <2> QED BY <2>1, <2>3, <2>4, <2>5, <2>6, <2>7 DEF PlainInv
<1> QED BY <1>3, <1>4 DEF WriteStep

LEMMA ReadStepArrays ==
  ASSUME ArraysInv, ReadStep
  PROVE  LayoutInv' /\ ReaderView' /\ PlainInv' /\ ArraysAreWhole'
<1>1. /\ FileInv /\ LayoutInv /\ DecodedInv /\ ReaderView /\ PlainInv /\ ArraysAreWhole
      /\ UNCHANGED <<wcmd, tensors, source>>
  BY ReadStepKeeps DEF ArraysInv, ToolsInv
<1>2. UNCHANGED writerVars
  BY DEF ReadStep, Read_command, Open_continues, Open_fails, Info, Decode_schemas,
         Decode_fails, Inspect, Verify_turn, Verify_ends, Load_finds_none, Load_tensor,
         Load_tensor_numpy, Loaded, Ends
<1>3. LayoutInv'
  BY <1>1, <1>2, LayoutKept
<1>4. UNCHANGED <<wpc, version>>
  BY <1>2 DEF writerVars
<1>5. ASSUME Decoded' => FitAll(rsource') PROVE PlainInv'
  BY <1>1, <1>4, <1>5 DEF PlainInv, FitAll
<1>6. CASE \E outcome : Ends(outcome)
  <2>1. rpc' = "none"
    BY <1>6 DEF Ends, Reader_closed
  <2>2. ReaderView' /\ ~Decoded'
    BY <2>1 DEF ReaderView, ViewInv, Decoded
  <2>3. ArraysAreWhole'
    <3>1. CASE Load_tensor_numpy
      BY <1>1, <3>1, StepLoad_tensor_numpy
    <3>2. CASE Open_fails \/ Info \/ Decode_fails \/ Inspect \/ Load_finds_none
      BY <3>2, EndsWithoutArray DEF Open_fails, Info, Decode_fails, Inspect, Load_finds_none, Exit
    <3>3. CASE Verify_ends \/ Load_tensor
      BY <3>3, EndsWithoutArray DEF Verify_ends, Load_tensor, Loaded
    <3>4. CASE Verify_turn
      <4>1. CASE Ends(Exit("error"))
        BY <4>1, EndsWithoutArray DEF Exit
      <4>2. CASE UNCHANGED result
        BY <1>1, <4>2 DEF ArraysAreWhole
      <4> QED BY <3>4, <4>1, <4>2 DEF Verify_turn
    <3>5. CASE Read_command \/ Open_continues \/ Decode_schemas
      BY <1>1, <3>5 DEF Read_command, Open_continues, Decode_schemas, toolVars, ArraysAreWhole
    <3> QED BY <3>1, <3>2, <3>3, <3>4, <3>5 DEF ReadStep
  <2> QED BY <1>3, <1>5, <2>2, <2>3
<1>7. CASE Read_command \/ Open_continues \/ Decode_schemas
  <2>1. Reader /\ result' = result
    BY <1>7 DEF Read_command, Open_continues, Decode_schemas, Reader, Reader_open, toolVars
  <2>2. ReaderView'
    BY <1>1, <1>2, <2>1, ViewStep
  <2>3. Decoded' => FitAll(rsource')
    <3>1. Decoded' => rsource' = source
      BY <1>7 DEF Read_command, Open_continues, Decode_schemas, Reader_map, Reader_prefix,
                  Reader_metadata, Reader_footer, Reader_index, Reader_schemas, Decoded
    <3> QED BY <1>1, <3>1 DEF PlainInv, FitAll
  <2>4. ArraysAreWhole'
    BY <1>1, <2>1 DEF ArraysAreWhole
  <2> QED BY <1>3, <1>5, <2>2, <2>3, <2>4
<1>8. CASE UNCHANGED <<readerVars, result>>
  <2>1. ReaderView'
    BY <1>1, <1>2, <1>8, ViewKept
  <2>2. Decoded' => FitAll(rsource')
    BY <1>1, <1>8 DEF PlainInv, Decoded, FitAll, readerVars
  <2>3. ArraysAreWhole'
    BY <1>1, <1>8 DEF ArraysAreWhole
  <2> QED BY <1>3, <1>5, <2>1, <2>2, <2>3
<1>9. \/ \E outcome : Ends(outcome)
      \/ Read_command \/ Open_continues \/ Decode_schemas \/ UNCHANGED <<readerVars, result>>
  BY DEF ReadStep, Open_fails, Info, Decode_fails, Inspect, Verify_turn, Verify_ends,
         Load_finds_none, Load_tensor, Load_tensor_numpy, Loaded
<1> QED BY <1>6, <1>7, <1>8, <1>9

LEMMA NextArrays == ArraysInv /\ [Next]_toolsVars => ArraysInv'
<1> SUFFICES ASSUME ArraysInv, [Next]_toolsVars PROVE ArraysInv'
  OBVIOUS
<1>1. ToolsInv'
  BY NextTools DEF ArraysInv
<1>2. CASE WriteStep
  <2>1. ArraysAreWhole'
    BY <1>2, WriteStepKeeps DEF ArraysInv, ArraysAreWhole
  <2> QED BY <1>1, <1>2, <2>1, WriteStepArrays DEF ArraysInv
<1>3. CASE ReadStep
  BY <1>1, <1>3, ReadStepArrays DEF ArraysInv
<1>4. CASE UNCHANGED toolsVars
  <2>1. UNCHANGED writerVars /\ UNCHANGED readerVars /\ UNCHANGED <<wcmd, result>>
    BY <1>4 DEF toolsVars, toolVars
  <2>2. LayoutInv' /\ ReaderView'
    BY <2>1, LayoutKept, ViewKept DEF ArraysInv
  <2>3. PlainInv'
    BY <2>1 DEF ArraysInv, PlainInv, Decoded, FitAll, writerVars, readerVars
  <2>4. ArraysAreWhole'
    BY <2>1 DEF ArraysInv, ArraysAreWhole
  <2> QED BY <1>1, <2>2, <2>3, <2>4 DEF ArraysInv
<1> QED BY <1>2, <1>3, <1>4 DEF Next

\* If the container that was there at first fits its dtypes, load_tensor_numpy drops no
\* byte of what it has read, and refuses no tensor of a dtype that it splits into
\* numbers, also when a command writes the file anew between the decoding of the schemas
\* and the read: read_tensor takes no chunk whose length is not that in the schema
\* (lib.rs:10, reader.rs:463).
THEOREM NoArrayLosesBytes == FoundFit => (Spec => []ArraysAreWhole)
<1>1. ArraysInv => ArraysAreWhole
  BY DEF ArraysInv
<1> QED BY InitArrays, NextArrays, <1>1, PTL DEF Spec
=============================================================================
