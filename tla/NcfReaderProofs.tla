-------------------------- MODULE NcfReaderProofs --------------------------
(***************************************************************************)
(* What is known of the file, whatever the writer, its failures and other  *)
(* writers do to it, and of a reader that has mapped it: lemmas for the    *)
(* modules in which the two meet.                                          *)
(*                                                                         *)
(* The first part holds of any reader: the blocks of the file are those of *)
(* one list of tensors, and so are the schemas it has decoded.  The second *)
(* part places the blocks: a container is laid out so that its prefix, its *)
(* footer and, if its offsets are exact, its schemas and its index say     *)
(* where they are.  From it follow which files open, that the writer       *)
(* publishes them whole, and what a reader of the present file finds.      *)
(***************************************************************************)
EXTENDS NcfReader, NatLemmas, SequenceTheorems

\* The offsets a container can name its chunks by.
Bases(tensorList) == {EstimatedBase(tensorList), ExactBase(tensorList)}

\* The blocks that a file can hold when it was written for these tensors.
WholeBlocks(tensorList) ==
  {Prefix(compressed, IndexOffset(tensorList, base)) : compressed \in BOOLEAN, base \in Bases(tensorList)}
  \cup {Metadata, Footer(IndexLen(tensorList))}
  \cup {SchemaBlock(tensorList, base) : base \in Bases(tensorList)}
  \cup {Chunk(tensorList[i], i - 1) : i \in DOMAIN tensorList}
  \cup {Index(tensorList, base) : base \in Bases(tensorList)}
Blocks(tensorList) == WholeBlocks(tensorList) \cup {Torn(b) : b \in WholeBlocks(tensorList)}

\* The file and what is still to be written belong to one list of tensors.
FileInv ==
  /\ tensors \in Seq(Tensor) /\ source \in Seq(Tensor)
  /\ file \in Seq(Blocks(source)) /\ unwritten \in Seq(WholeBlocks(source))
  /\ wpc = "writing" => unwritten # <<>>

\* The schemas a reader holds are those of one container.
DecodedInv ==
  Decoded =>
    /\ rsource \in Seq(Tensor)
    /\ \E base \in Bases(rsource) : rschemas = Schemas(rsource, base)

-----------------------------------------------------------------------------
\* A container consists of the blocks of its tensors.
LEMMA ContainerBlocks ==
  ASSUME NEW tensorList \in Seq(Tensor), NEW base \in Bases(tensorList)
  PROVE  Container(tensorList, base) \in Seq(WholeBlocks(tensorList)) /\ Container(tensorList, base) # <<>>
<1> DEFINE B == WholeBlocks(tensorList)
           compressed == \E i \in DOMAIN tensorList : tensorList[i].compression # "None"
           first == <<Prefix(compressed, IndexOffset(tensorList, base)), Metadata,
                      SchemaBlock(tensorList, base)>>
           chunks == [i \in DOMAIN tensorList |-> Chunk(tensorList[i], i - 1)]
           last == <<Index(tensorList, base), Footer(IndexLen(tensorList))>>
<1>1. first \in Seq(B)
  <2>1. compressed \in BOOLEAN
    OBVIOUS
  <2>2. /\ Prefix(compressed, IndexOffset(tensorList, base)) \in B
        /\ Metadata \in B /\ SchemaBlock(tensorList, base) \in B
    <3> HIDE DEF compressed
    <3> QED BY <2>1 DEF WholeBlocks
  <2> HIDE DEF B, compressed
  <2> QED BY <2>2
<1>2. chunks \in Seq(B)
  <2>1. \A i \in DOMAIN tensorList : Chunk(tensorList[i], i - 1) \in B
    BY DEF WholeBlocks
  <2>2. DOMAIN tensorList = 1 .. Len(tensorList) /\ Len(tensorList) \in Nat
    OBVIOUS
  <2> HIDE DEF B
  <2> QED BY <2>1, <2>2
<1>3. last \in Seq(B)
  <2>1. Index(tensorList, base) \in B /\ Footer(IndexLen(tensorList)) \in B
    BY DEF WholeBlocks
  <2> HIDE DEF B
  <2> QED BY <2>1
<1>4. Container(tensorList, base) = first \o chunks \o last
  BY DEF Container
<1>5. Len(last) = 2
  OBVIOUS
<1> HIDE DEF B, first, chunks, last
<1>6. first \o chunks \in Seq(B)
  BY <1>1, <1>2
<1>7. (first \o chunks) \o last \in Seq(B)
  BY <1>3, <1>6
<1>8. Len((first \o chunks) \o last) # 0
  <2> DEFINE two == first \o chunks
  <2>1. two \in Seq(B) /\ last \in Seq(B)
    BY <1>3, <1>6
  <2> HIDE DEF two
  <2>2. Len(two \o last) = Len(two) + Len(last) /\ Len(two) \in Nat
    BY <2>1
  <2>3. Len(two \o last) # 0
    BY <2>2, <1>5
  <2> QED BY <2>3 DEF two
<1>9. Container(tensorList, base) \in Seq(B)
  BY <1>4, <1>7
<1>10. Container(tensorList, base) # <<>>
  <2>1. Len(<<>>) = 0
    OBVIOUS
  <2> QED BY <2>1, <1>4, <1>8
<1> QED BY <1>9, <1>10 DEF B

\* What is still to be written may be in the file.
LEMMA WholeIsBlock ==
  ASSUME NEW tensorList, NEW s \in Seq(WholeBlocks(tensorList))
  PROVE  s \in Seq(Blocks(tensorList))
<1>1. WholeBlocks(tensorList) \subseteq Blocks(tensorList)
  BY DEF Blocks
<1> HIDE DEF Blocks
<1> QED BY <1>1

\* A chunk in the file holds the payload of a tensor.
LEMMA ChunkOfTensor ==
  ASSUME NEW tensorList \in Seq(Tensor), NEW b \in Blocks(tensorList), b.kind = "chunk"
  PROVE  \E payload \in Payloads, compression \in Compressions :
           b.data = [payload |-> payload, compression |-> compression]
<1>1. PICK i \in DOMAIN tensorList : b = Chunk(tensorList[i], i - 1)
  BY DEF Blocks, WholeBlocks, Prefix, Metadata, Footer, SchemaBlock, Index, Torn
<1>2. tensorList[i] \in Tensor
  OBVIOUS
<1>3. b.data = [payload |-> tensorList[i].payload, compression |-> tensorList[i].compression]
  BY <1>1 DEF Chunk, Packed
<1> QED BY <1>2, <1>3 DEF Tensor

\* A schema block in the file has the schemas of its tensors.
LEMMA SchemasOfTensors ==
  ASSUME NEW tensorList \in Seq(Tensor), NEW b \in Blocks(tensorList), b.kind = "schemas"
  PROVE  \E base \in Bases(tensorList) : b.schemas = Schemas(tensorList, base)
<1>1. PICK base \in Bases(tensorList) : b = SchemaBlock(tensorList, base)
  BY DEF Blocks, WholeBlocks, Prefix, Metadata, Footer, Chunk, Index, Torn
<1> QED BY <1>1 DEF SchemaBlock

\* What is found in the file is a block of what was written to it.
LEMMA BlockAtFile ==
  ASSUME FileInv, NEW o, NEW kind, NEW b \in BlockAt(file, o, kind)
  PROVE  b \in Blocks(source) /\ b.kind = kind
BY DEF BlockAt, FileInv

-----------------------------------------------------------------------------
\* What the path holds at first goes with its tensors.
LEMMA InitFile == WriterInit => FileInv
<1> SUFFICES ASSUME WriterInit PROVE FileInv
  OBVIOUS
<1>1. tensors = <<>> /\ unwritten = <<>> /\ wpc = "idle"
  BY DEF WriterInit
<1>2. source \in Seq(Tensor) /\ file \in Seq(Blocks(source))
  <2>1. CASE source = <<>> /\ file = <<>>
    BY <2>1
  <2>2. CASE source \in Found /\ file = Container(source, ExactBase(source))
    <3>1. source \in Seq(Tensor) /\ ExactBase(source) \in Bases(source)
      BY <2>2, FoundAssumption DEF Bases
    <3>2. file \in Seq(WholeBlocks(source))
      BY <2>2, <3>1, ContainerBlocks
    <3> QED BY <3>1, <3>2, WholeIsBlock
  <2> QED BY <2>1, <2>2 DEF WriterInit
<1> QED BY <1>1, <1>2 DEF FileInv

\* No schemas are decoded at first.
LEMMA InitDecoded == ReaderInit => DecodedInv
BY DEF ReaderInit, DecodedInv, Decoded

\* Each step of the writer keeps the file to one list of tensors, a failure too.
LEMMA FileStep ==
  ASSUME FileInv, Writer
  PROVE  FileInv'
<1>1. CASE Add_tensor
  <2>1. PICK t \in Tensor : tensors' = Append(tensors, t)
    BY <1>1, FoundAssumption DEF Add_tensor
  <2>2. UNCHANGED <<source, file, unwritten, wpc>>
    BY <1>1 DEF Add_tensor
  <2> QED BY <2>1, <2>2 DEF FileInv
<1>2. CASE Finalize
  <2>1. /\ tensors' = tensors /\ source' = tensors /\ file' = <<>>
        /\ unwritten' = Container(tensors, EstimatedBase(tensors))
    BY <1>2 DEF Finalize
  <2>2. unwritten' \in Seq(WholeBlocks(tensors)) /\ unwritten' # <<>>
    BY <2>1, ContainerBlocks DEF FileInv, Bases
  <2> QED BY <2>1, <2>2 DEF FileInv
<1>3. CASE Write_block
  <2>1. unwritten # <<>> /\ unwritten \in Seq(WholeBlocks(source)) /\ file \in Seq(Blocks(source))
    BY <1>3 DEF Write_block, FileInv
  <2>2. /\ file' = Append(file, Head(unwritten)) /\ unwritten' = Tail(unwritten)
        /\ UNCHANGED <<tensors, source>>
        /\ Len(unwritten) = 1 => wpc' = "idle"
    BY <1>3 DEF Write_block
  <2>3. file' \in Seq(Blocks(source)) /\ unwritten' \in Seq(WholeBlocks(source))
    <3>1. Head(unwritten) \in Blocks(source)
      BY <2>1 DEF Blocks
    <3> QED BY <2>1, <2>2, <3>1
  <2>4. Len(unwritten) # 1 => unwritten' # <<>>
    <3>1. Len(unwritten') = Len(unwritten) - 1 /\ Len(unwritten) \in Nat
      BY <2>1, <2>2
    <3>2. Len(<<>>) = 0
      OBVIOUS
    <3> QED BY <3>1, <3>2
  <2> QED BY <2>2, <2>3, <2>4 DEF FileInv
<1>4. CASE Write_fails
  <2>1. Torn(Head(unwritten)) \in Blocks(source)
    <3>1. Head(unwritten) \in WholeBlocks(source)
      BY <1>4 DEF Write_fails, FileInv
    <3> QED BY <3>1 DEF Blocks
  <2>2. UNCHANGED <<tensors, source>> /\ unwritten' = <<>> /\ wpc' = "idle"
    BY <1>4 DEF Write_fails
  <2>3. file \in Seq(Blocks(source)) /\ (file' = file \/ file' = Append(file, Torn(Head(unwritten))))
    BY <1>4 DEF Write_fails, FileInv
  <2>4. file' \in Seq(Blocks(source))
    BY <2>1, <2>3
  <2> QED BY <2>2, <2>4 DEF FileInv
<1>5. CASE New_writer
  <2>1. tensors' = <<>> /\ UNCHANGED <<source, file, unwritten, wpc>>
    BY <1>5 DEF New_writer
  <2> QED BY <2>1 DEF FileInv
<1> QED BY <1>1, <1>2, <1>3, <1>4, <1>5 DEF Writer

\* So does a step of anything else.
LEMMA FileKept ==
  ASSUME FileInv, UNCHANGED writerVars
  PROVE  FileInv'
BY DEF FileInv, writerVars

\* Decoded schemas are those of the container at the path when they are decoded.
LEMMA DecodedStep ==
  ASSUME FileInv, Reader
  PROVE  DecodedInv'
<1>1. CASE Reader_schemas
  <2>1. source \in Seq(Tensor) /\ rsource' = source
    BY <1>1 DEF FileInv, Reader_schemas
  <2>2. CASE rpc' = "decoded"
    <3>1. PICK b \in SchemasRead(rprefix) : rschemas' = b.schemas
      BY <1>1, <2>2 DEF Reader_schemas
    <3>2. b \in Blocks(source) /\ b.kind = "schemas"
      BY <3>1, BlockAtFile DEF SchemasRead
    <3> QED BY <2>1, <3>1, <3>2, SchemasOfTensors DEF DecodedInv
  <2> QED BY <2>2 DEF DecodedInv, Decoded
<1>2. CASE Reader_map
  BY <1>2 DEF Reader_map, DecodedInv, Decoded
<1>3. CASE Reader_open
  BY <1>3 DEF Reader_open, Reader_prefix, Reader_metadata, Reader_footer, Reader_index,
              Reader_rejects, Reader_closed, DecodedInv, Decoded
<1>4. CASE Reader_drop
  BY <1>4 DEF Reader_drop, Reader_closed, DecodedInv, Decoded
<1> QED BY <1>1, <1>2, <1>3, <1>4 DEF Reader

\* They stay so.
LEMMA DecodedKept ==
  ASSUME DecodedInv, UNCHANGED readerVars
  PROVE  DecodedInv'
BY DEF DecodedInv, Decoded, readerVars

-----------------------------------------------------------------------------
\* Two blocks of a kind at one place are one.
LEMMA OneBlock ==
  ASSUME FileInv, NEW o, NEW kind, NEW a \in BlockAt(file, o, kind), NEW b \in BlockAt(file, o, kind)
  PROVE  a = b
<1> DEFINE at == {i \in DOMAIN file : file[i].kind = kind /\ Start(file, i) = o}
<1>1. at \subseteq Nat
  BY DEF FileInv
<1>2. PICK i \in at : a = file[i] /\ \A k \in at : i <= k
  BY DEF BlockAt
<1>3. PICK j \in at : b = file[j] /\ \A k \in at : j <= k
  BY DEF BlockAt
<1> HIDE DEF at
<1>4. i \in Nat /\ j \in Nat /\ i <= j /\ j <= i
  BY <1>1, <1>2, <1>3
<1> QED BY <1>2, <1>3, <1>4

\* What decompressing data gives, and that it gives one thing.
LEMMA DecompressOne ==
  ASSUME NEW payload, NEW stored, NEW compression,
         NEW d \in Decompress([payload |-> payload, compression |-> stored], compression),
         d.compression = "None"
  PROVE  /\ d = [payload |-> payload, compression |-> "None"]
         /\ Decompress([payload |-> payload, compression |-> stored], compression) = {d}
BY DEF Decompress

\* LastOf picks a tensor of that name.
LEMMA LastOfName ==
  ASSUME NEW tensorList \in Seq(Tensor), NEW name,
         NEW i \in DOMAIN tensorList, tensorList[i].name = name
  PROVE  LastOf(tensorList, name) \in DOMAIN tensorList
<1> DEFINE same == {j \in DOMAIN tensorList : tensorList[j].name = name}
<1>1. /\ same \subseteq Nat /\ i \in same /\ Len(tensorList) \in Nat
      /\ \A j \in same : j <= Len(tensorList)
  OBVIOUS
<1>2. Max(same) \in same
  <2> HIDE DEF same
  <2>1. same # {}
    BY <1>1
  <2> QED BY <1>1, <2>1, MaxNat
<1> QED BY <1>2 DEF LastOf

\* What verify_tensor accepts has the hash of what was added, so it is that.
LEMMA VerifiedFromInv == FileInv /\ DecodedInv => VerifiedReads
<1> SUFFICES ASSUME FileInv, DecodedInv, Decoded, NEW name \in SchemaNames, Verify_tensor(name)
             PROVE  Read_tensor(name) = {Added(rsource, LastOf(rsource, name))}
  BY DEF VerifiedReads
<1> DEFINE last == LastOf(rsource, name)
           s == Find_schema(name)
<1>1. PICK base \in Bases(rsource) : rschemas = Schemas(rsource, base)
  BY DEF DecodedInv
<1>2. rsource \in Seq(Tensor) /\ FileInv
  BY DEF DecodedInv
<1>3. /\ DOMAIN rschemas = DOMAIN rsource
      /\ \A j \in DOMAIN rsource : /\ rschemas[j].name = rsource[j].name
                                   /\ rschemas[j].chunk = Chunk_ref(rsource, base, j)
  BY <1>1 DEF Schemas
<1>4. s = rschemas[last]
  <2>1. {j \in DOMAIN rschemas : rschemas[j].name = name}
          = {j \in DOMAIN rsource : rsource[j].name = name}
    BY <1>3
  <2> QED BY <2>1 DEF Find_schema, LastOf
<1>5. last \in DOMAIN rsource
  BY <1>2, <1>3, LastOfName DEF SchemaNames
<1> HIDE DEF last, s
<1>6. s.chunk.checksum = Hash(rsource[last].payload)
  <2>1. s.chunk = Chunk_ref(rsource, base, last)
    BY <1>3, <1>4, <1>5
  <2> QED BY <2>1 DEF Chunk_ref
<1>7. rsource[last].payload \in Payloads
  <2>1. rsource[last] \in Tensor
    BY <1>2, <1>5
  <2> QED BY <2>1 DEF Tensor
<1>8. PICK c \in ChunkHeaderAt(s.chunk) :
        /\ FlagsAgree(c, s.compression) /\ PayloadFits(c, s.chunk)
        /\ \E d \in Decompress(c.data, s.compression) :
             /\ PackedLen(d) = s.chunk.uncompressed_len
             /\ c.uncompressed_len = s.chunk.uncompressed_len
             /\ ChecksumsAgree(c, s.chunk, d)
  BY DEF Verify_tensor, s
<1>9. PICK d \in Decompress(c.data, s.compression) :
        /\ PackedLen(d) = c.uncompressed_len
        /\ d.compression = "None" /\ Hash(d.payload) = s.chunk.checksum
  BY <1>8 DEF ChecksumsAgree
<1>10. c \in BlockAt(file, s.chunk.byte_offset, "chunk")
  BY <1>8 DEF ChunkHeaderAt
<1>11. PICK payload \in Payloads, compression \in Compressions :
         c.data = [payload |-> payload, compression |-> compression]
  <2>1. c \in Blocks(source) /\ c.kind = "chunk" /\ source \in Seq(Tensor)
    BY <1>2, <1>10, BlockAtFile DEF FileInv
  <2> QED BY <2>1, ChunkOfTensor
<1>12. /\ d = [payload |-> payload, compression |-> "None"]
       /\ Decompress(c.data, s.compression) = {d}
  BY <1>9, <1>11, DecompressOne
<1>13. payload = rsource[last].payload
  <2>1. payload.id = rsource[last].payload.id
    BY <1>6, <1>9, <1>12 DEF Hash
  <2> QED BY <2>1, <1>7, IdsAssumption
<1>14. \A x \in ChunkHeaderAt(s.chunk) : x = c
  BY <1>2, <1>10, OneBlock DEF ChunkHeaderAt
<1>15. {x \in ChunkHeaderAt(s.chunk) : FlagsAgree(x, s.compression) /\ PayloadFits(x, s.chunk)} = {c}
  BY <1>8, <1>14
<1>16. Read_tensor(name)
         = UNION {{e \in Decompress(x.data, s.compression) : PackedLen(e) = x.uncompressed_len} : x \in {c}}
  BY <1>15 DEF Read_tensor, s
<1>17. Read_tensor(name) = {d}
  BY <1>9, <1>12, <1>16
<1> QED BY <1>12, <1>13, <1>17 DEF Added, last

-----------------------------------------------------------------------------
(***************************************************************************)
(* Lengths and places.                                                     *)
(***************************************************************************)
Lens(f) == [j \in DOMAIN f |-> f[j].len]

\* The blocks of a file have lengths.
Sized(f) == \A j \in DOMAIN f : f[j].len \in Nat

\* A place in a file is a sum of lengths.
LEMMA StartIs ==
  ASSUME NEW f, NEW i, 1 .. i - 1 \subseteq DOMAIN f
  PROVE  Start(f, i) = Total(Lens(f), 1 .. i - 1)
<1> DEFINE S == 1 .. i - 1
           here(sum) == sum = [s \in SUBSET S |->
             IF s = {} THEN 0
             ELSE f[CHOOSE x \in s : TRUE].len + sum[s \ {CHOOSE x \in s : TRUE}]]
<1>2. Start(f, i) = (CHOOSE sum : here(sum))[S]
  BY DEF Start, MapThenSumSet, MapThenFoldSet
<1>3. ASSUME NEW sum PROVE here(sum) <=> Table(Lens(f), S, sum)
  <2>1. \A s \in SUBSET S : s # {} => Lens(f)[Some(s)] = f[CHOOSE x \in s : TRUE].len
    BY DEF Some, Lens
  <2>2. [s \in SUBSET S |->
             IF s = {} THEN 0
             ELSE f[CHOOSE x \in s : TRUE].len + sum[s \ {CHOOSE x \in s : TRUE}]]
         = [s \in SUBSET S |-> IF s = {} THEN 0 ELSE Lens(f)[Some(s)] + sum[s \ {Some(s)}]]
    BY <2>1 DEF Some
  <2> QED BY <2>2 DEF Table
<1> HIDE DEF here
<1>4. (CHOOSE sum : here(sum)) = (CHOOSE sum : Table(Lens(f), S, sum))
  BY <1>3, Zenon
<1> QED BY <1>2, <1>4, TotalTable

\* The first block begins the file, and each other one behind the one before it.
LEMMA StartFirst == ASSUME NEW f PROVE Start(f, 1) = 0
<1>1. 1 .. 1 - 1 = {}
  OBVIOUS
<1>2. Start(f, 1) = Total(Lens(f), 1 .. 1 - 1)
  BY <1>1, StartIs
<1> QED BY <1>1, <1>2, TotalEmpty

LEMMA StartNext ==
  ASSUME NEW B, NEW f \in Seq(B), Sized(f), NEW i \in DOMAIN f
  PROVE  Start(f, i) \in Nat /\ Start(f, i + 1) = Start(f, i) + f[i].len
<1>1. i \in Nat /\ i >= 1 /\ DOMAIN f = 1 .. Len(f) /\ Len(f) \in Nat /\ i <= Len(f)
  BY LenProperties
<1> DEFINE k == i - 1
<1>2. k \in Nat /\ 1 .. k \subseteq DOMAIN f /\ 1 .. k + 1 \subseteq DOMAIN f /\ k + 1 = i
  BY <1>1
<1>3. Start(f, i) = Total(Lens(f), 1 .. k)
  BY <1>2, StartIs
<1>4. Start(f, i + 1) = Total(Lens(f), 1 .. k + 1)
  <2>1. 1 .. (i + 1) - 1 = 1 .. k + 1
    BY <1>1
  <2>2. 1 .. (i + 1) - 1 \subseteq DOMAIN f
    BY <1>2, <2>1
  <2>3. Start(f, i + 1) = Total(Lens(f), 1 .. (i + 1) - 1)
    BY <2>2, StartIs
  <2> QED BY <2>1, <2>3
<1> HIDE DEF k
<1>5. \A j \in 1 .. k + 1 : Lens(f)[j] \in Nat
  BY <1>2 DEF Lens, Sized
<1>6. Total(Lens(f), 1 .. k + 1) = Total(Lens(f), 1 .. k) + Lens(f)[k + 1]
  BY <1>2, <1>5, TotalLast
<1>7. Total(Lens(f), 1 .. k) \in Nat
  <2>1. IsFiniteSet(1 .. k)
    BY <1>2, FS_Interval
  <2>2. \A j \in 1 .. k : Lens(f)[j] \in Nat
    BY <1>2, <1>5
  <2> QED BY <2>1, <2>2, TotalNat
<1>8. Lens(f)[k + 1] = f[i].len
  BY <1>2 DEF Lens
<1> QED BY <1>3, <1>4, <1>6, <1>7, <1>8

LEMMA FileLenNat ==
  ASSUME NEW B, NEW f \in Seq(B), Sized(f)
  PROVE  FileLen(f) \in Nat
<1>1. DOMAIN f = 1 .. Len(f) /\ Len(f) \in Nat
  BY LenProperties
<1> DEFINE k == (Len(f) + 1) - 1
<1>2. 1 .. k = 1 .. Len(f) /\ 1 .. k \subseteq DOMAIN f
  BY <1>1
<1>3. Start(f, Len(f) + 1) = Total(Lens(f), 1 .. k)
  BY <1>2, StartIs
<1>4. IsFiniteSet(1 .. k)
  BY <1>1, <1>2, FS_Interval
<1>5. \A j \in 1 .. k : Lens(f)[j] \in Nat
  BY <1>2 DEF Lens, Sized
<1>6. Total(Lens(f), 1 .. k) \in Nat
  <2> HIDE DEF k
  <2> QED BY <1>4, <1>5, TotalNat
<1> QED BY <1>3, <1>6 DEF FileLen

\* So with the chunks of a list of tensors.
LEMMA TensorSizes ==
  ASSUME NEW t \in Tensor
  PROVE  /\ t.name \in Names /\ t.payload \in Payloads /\ t.payload.len \in Nat
         /\ PackedLen(t) \in Nat /\ ChunkTotalLen(t) \in Nat
         /\ ChunkTotalLen(t) = PackedLen(t) + 62
         /\ t.payload.wide \in 0 .. 32
<1>1. t.payload \in Payloads /\ t.name \in Names
  BY DEF Tensor
<1>2. t.payload.len \in Nat /\ t.payload.packed \in Nat /\ t.payload.wide \in 0 .. 32
  BY <1>1, PayloadsAssumption
<1>3. PackedLen(t) \in Nat
  BY <1>2 DEF PackedLen
<1> QED BY <1>1, <1>2, <1>3 DEF ChunkTotalLen, CHUNK_HEADER_SIZE, CHUNK_CHECKSUM_SIZE

Totals(tensorList) == [i \in DOMAIN tensorList |-> ChunkTotalLen(tensorList[i])]

LEMMA ChunkBytesIs ==
  ASSUME NEW tensorList, NEW n, 1 .. n \subseteq DOMAIN tensorList
  PROVE  ChunkBytes(tensorList, n) = Total(Totals(tensorList), 1 .. n)
<1> DEFINE S == 1 .. n
           here(sum) == sum = [s \in SUBSET S |->
             IF s = {} THEN 0
             ELSE ChunkTotalLen(tensorList[CHOOSE x \in s : TRUE]) + sum[s \ {CHOOSE x \in s : TRUE}]]
<1>2. ChunkBytes(tensorList, n) = (CHOOSE sum : here(sum))[S]
  BY DEF ChunkBytes, MapThenSumSet, MapThenFoldSet
<1>3. ASSUME NEW sum PROVE here(sum) <=> Table(Totals(tensorList), S, sum)
  <2>1. \A s \in SUBSET S : s # {} =>
          Totals(tensorList)[Some(s)] = ChunkTotalLen(tensorList[CHOOSE x \in s : TRUE])
    BY DEF Some, Totals
  <2>2. [s \in SUBSET S |->
             IF s = {} THEN 0
             ELSE ChunkTotalLen(tensorList[CHOOSE x \in s : TRUE]) + sum[s \ {CHOOSE x \in s : TRUE}]]
         = [s \in SUBSET S |-> IF s = {} THEN 0 ELSE Totals(tensorList)[Some(s)] + sum[s \ {Some(s)}]]
    BY <2>1 DEF Some
  <2> QED BY <2>2 DEF Table
<1> HIDE DEF here
<1>4. (CHOOSE sum : here(sum)) = (CHOOSE sum : Table(Totals(tensorList), S, sum))
  BY <1>3, Zenon
<1> QED BY <1>2, <1>4, TotalTable

LEMMA ChunkBytesFirst == ASSUME NEW tensorList PROVE ChunkBytes(tensorList, 0) = 0
<1>1. 1 .. 0 = {}
  OBVIOUS
<1>2. ChunkBytes(tensorList, 0) = Total(Totals(tensorList), 1 .. 0)
  BY <1>1, ChunkBytesIs
<1> QED BY <1>1, <1>2, TotalEmpty

LEMMA ChunkBytesNat ==
  ASSUME NEW tensorList \in Seq(Tensor), NEW n \in 0 .. Len(tensorList)
  PROVE  ChunkBytes(tensorList, n) \in Nat
<1>1. DOMAIN tensorList = 1 .. Len(tensorList) /\ Len(tensorList) \in Nat
  BY LenProperties
<1>2. n \in Nat /\ 1 .. n \subseteq DOMAIN tensorList
  BY <1>1
<1>3. \A j \in 1 .. n : Totals(tensorList)[j] \in Nat
  <2> TAKE j \in 1 .. n
  <2>1. j \in DOMAIN tensorList
    BY <1>2
  <2>2. tensorList[j] \in Tensor
    BY <2>1
  <2> QED BY <2>1, <2>2, TensorSizes DEF Totals
<1>4. Total(Totals(tensorList), 1 .. n) \in Nat
  <2>1. IsFiniteSet(1 .. n)
    BY <1>2, FS_Interval
  <2> QED BY <1>3, <2>1, TotalNat
<1> QED BY <1>2, <1>4, ChunkBytesIs

LEMMA ChunkBytesNext ==
  ASSUME NEW tensorList \in Seq(Tensor), NEW n \in DOMAIN tensorList
  PROVE  /\ ChunkBytes(tensorList, n - 1) \in Nat
         /\ ChunkBytes(tensorList, n) = ChunkBytes(tensorList, n - 1) + ChunkTotalLen(tensorList[n])
<1>1. DOMAIN tensorList = 1 .. Len(tensorList) /\ Len(tensorList) \in Nat
  BY LenProperties
<1> DEFINE k == n - 1
<1>2. /\ k \in Nat /\ k + 1 = n /\ 1 .. k \subseteq DOMAIN tensorList
      /\ 1 .. k + 1 \subseteq DOMAIN tensorList /\ k \in 0 .. Len(tensorList)
  BY <1>1
<1> HIDE DEF k
<1>3. \A j \in 1 .. k + 1 : Totals(tensorList)[j] \in Nat
  <2> TAKE j \in 1 .. k + 1
  <2>1. j \in DOMAIN tensorList
    BY <1>2
  <2>2. tensorList[j] \in Tensor
    BY <2>1
  <2> QED BY <2>1, <2>2, TensorSizes DEF Totals
<1>4. Total(Totals(tensorList), 1 .. k + 1) = Total(Totals(tensorList), 1 .. k) + Totals(tensorList)[k + 1]
  BY <1>2, <1>3, TotalLast
<1>5a. ChunkBytes(tensorList, k) = Total(Totals(tensorList), 1 .. k)
  BY <1>2, ChunkBytesIs
<1>5b. ChunkBytes(tensorList, k + 1) = Total(Totals(tensorList), 1 .. k + 1)
  BY <1>2, ChunkBytesIs
<1>6. Totals(tensorList)[k + 1] = ChunkTotalLen(tensorList[n])
  BY <1>2 DEF Totals
<1>7. ChunkBytes(tensorList, k) \in Nat
  BY <1>2, ChunkBytesNat
<1>8. ChunkBytes(tensorList, n) = ChunkBytes(tensorList, k) + ChunkTotalLen(tensorList[n])
  BY <1>2, <1>4, <1>5a, <1>5b, <1>6
<1> QED BY <1>7, <1>8 DEF k

LEMMA ChunkBytesGrow ==
  ASSUME NEW tensorList \in Seq(Tensor), NEW i \in 0 .. Len(tensorList), NEW j \in i .. Len(tensorList)
  PROVE  /\ ChunkBytes(tensorList, i) <= ChunkBytes(tensorList, j)
         /\ i < j => ChunkBytes(tensorList, i) < ChunkBytes(tensorList, j)
<1> DEFINE n == Len(tensorList)
           bytes(k) == ChunkBytes(tensorList, k)
           bad == {k \in Nat : i <= k /\ k <= n
                                /\ ~(bytes(i) <= bytes(k) /\ (i < k => bytes(i) < bytes(k)))}
<1>1. n \in Nat /\ DOMAIN tensorList = 1 .. n
  BY LenProperties
<1>2. \A k \in 0 .. n : bytes(k) \in Nat
  BY ChunkBytesNat
<1>3. \A k \in 1 .. n : bytes(k) = bytes(k - 1) + ChunkTotalLen(tensorList[k])
  BY <1>1, ChunkBytesNext
<1>4. \A k \in 1 .. n : ChunkTotalLen(tensorList[k]) \in Nat /\ ChunkTotalLen(tensorList[k]) > 0
  <2> TAKE k \in 1 .. n
  <2>1. tensorList[k] \in Tensor
    BY <1>1
  <2>2. /\ ChunkTotalLen(tensorList[k]) = PackedLen(tensorList[k]) + 62
        /\ PackedLen(tensorList[k]) \in Nat
    BY <2>1, TensorSizes
  <2> QED BY <2>2
<1>5. bad = {}
  <2> SUFFICES ASSUME bad # {} PROVE FALSE
    OBVIOUS
  <2>1. PICK m \in bad : \A k \in bad : m <= k
    <3>1. bad \subseteq Nat
      OBVIOUS
    <3> HIDE DEF bad
    <3> QED BY <3>1, LeastNat
  <2>2. m \in Nat /\ i <= m /\ m <= n /\ ~(bytes(i) <= bytes(m) /\ (i < m => bytes(i) < bytes(m)))
    OBVIOUS
  <2>3. i \in Nat /\ i \in 0 .. n /\ bytes(i) \in Nat
    BY <1>1, <1>2
  <2>4. m # i
    <3> HIDE DEF bad, bytes
    <3> QED BY <2>2, <2>3
  <2>5. m \in 1 .. n /\ m - 1 \in 0 .. n /\ m - 1 \in Nat /\ i <= m - 1 /\ ~(m <= m - 1)
    BY <1>1, <2>2, <2>3, <2>4
  <2>6. m - 1 \notin bad
    <3> HIDE DEF bad
    <3> QED BY <2>1, <2>5
  <2>7. bytes(i) <= bytes(m - 1)
    <3>1. m - 1 <= n
      BY <2>5
    <3> QED BY <2>5, <2>6, <3>1
  <2> HIDE DEF bad, bytes
  <2>8. bytes(m - 1) \in Nat /\ bytes(m) = bytes(m - 1) + ChunkTotalLen(tensorList[m])
    BY <1>2, <1>3, <2>5
  <2>9. ChunkTotalLen(tensorList[m]) \in Nat /\ ChunkTotalLen(tensorList[m]) > 0
    BY <1>4, <2>5
  <2> QED BY <2>2, <2>3, <2>7, <2>8, <2>9
<1>6. j \in Nat /\ i <= j /\ j <= n
  BY <1>1
<1>7. j \notin bad
  BY <1>5
<1> QED BY <1>6, <1>7

\* The block of schemas is as long as what is encoded in it.
RefLens(refs) == [i \in DOMAIN refs |-> SchemaLen + RefLen(refs[i])]

LEMMA SchemaBlockLenIs ==
  ASSUME NEW refs
  PROVE  SchemaBlockLen(refs) = CborLen(Len(refs)) + Total(RefLens(refs), DOMAIN refs)
<1> DEFINE S == DOMAIN refs
           here(sum) == sum = [s \in SUBSET S |->
             IF s = {} THEN 0
             ELSE SchemaLen + RefLen(refs[CHOOSE x \in s : TRUE]) + sum[s \ {CHOOSE x \in s : TRUE}]]
<1>2. SchemaBlockLen(refs) = CborLen(Len(refs)) + (CHOOSE sum : here(sum))[S]
  BY DEF SchemaBlockLen, MapThenSumSet, MapThenFoldSet
<1>3. ASSUME NEW sum PROVE here(sum) <=> Table(RefLens(refs), S, sum)
  <2>1. \A s \in SUBSET S : s # {} =>
          RefLens(refs)[Some(s)] = SchemaLen + RefLen(refs[CHOOSE x \in s : TRUE])
    BY DEF Some, RefLens
  <2>2. [s \in SUBSET S |->
             IF s = {} THEN 0
             ELSE SchemaLen + RefLen(refs[CHOOSE x \in s : TRUE]) + sum[s \ {CHOOSE x \in s : TRUE}]]
         = [s \in SUBSET S |-> IF s = {} THEN 0 ELSE RefLens(refs)[Some(s)] + sum[s \ {Some(s)}]]
    BY <2>1 DEF Some
  <2> QED BY <2>2 DEF Table
<1> HIDE DEF here
<1>4. (CHOOSE sum : here(sum)) = (CHOOSE sum : Table(RefLens(refs), S, sum))
  BY <1>3, Zenon
<1> QED BY <1>2, <1>4, TotalTable

LEMMA CborSizes == ASSUME NEW n PROVE CborLen(n) \in 1 .. 5
<1> DEFINE one == n < 24
           two == n \in 24 .. 255
           three == n \in 256 .. 65535
<1>1. CborLen(n) = CASE one -> 1 [] two -> 2 [] three -> 3 [] OTHER -> 5
  BY DEF CborLen
<1> HIDE DEF one, two, three
<1> QED BY <1>1

LEMMA RefSizes ==
  ASSUME NEW ref, ref.checksum.wide \in 0 .. 32
  PROVE  RefLen(ref) \in Nat /\ RefLen(ref) >= 38
<1> DEFINE a == CborLen(ref.chunk_id)
           b == CborLen(ref.byte_offset)
           c == CborLen(ref.byte_len)
           d == CborLen(ref.uncompressed_len)
<1>2. RefLen(ref) = a + b + c + d + 2 + 32 + ref.checksum.wide
  BY DEF RefLen
<1>3. a \in 1 .. 5 /\ b \in 1 .. 5 /\ c \in 1 .. 5 /\ d \in 1 .. 5
  <2>1. a \in 1 .. 5
    BY CborSizes
  <2>2. b \in 1 .. 5
    BY CborSizes
  <2>3. c \in 1 .. 5
    BY CborSizes
  <2>4. d \in 1 .. 5
    BY CborSizes
  <2> QED BY <2>1, <2>2, <2>3, <2>4
<1> HIDE DEF a, b, c, d
<1> QED BY <1>2, <1>3

LEMMA PlaceholderSize == RefLen(Placeholder) = 38
<1>1. CborLen(0) = 1
  BY DEF CborLen
<1> QED BY <1>1 DEF RefLen, Placeholder

\* The block of zero ChunkRefs is the shortest.
LEMMA SchemaSizes ==
  ASSUME NEW tensorList \in Seq(Tensor), NEW base
  PROVE  /\ SchemaBlockLen(Chunk_refs(tensorList, base)) \in Nat \ {0}
         /\ EstimatedBase(tensorList) \in Nat
         /\ EstimatedBase(tensorList) <= SchemaOffset + SchemaBlockLen(Chunk_refs(tensorList, base))
<1> DEFINE refs == Chunk_refs(tensorList, base)
           zeros == [i \in DOMAIN tensorList |-> Placeholder]
           D == DOMAIN tensorList
<1>1. /\ DOMAIN refs = D /\ DOMAIN zeros = D /\ D = 1 .. Len(tensorList)
      /\ Len(tensorList) \in Nat /\ IsFiniteSet(D)
  <2>1. D = 1 .. Len(tensorList) /\ Len(tensorList) \in Nat
    BY LenProperties
  <2>2. IsFiniteSet(D)
    BY <2>1, FS_Interval
  <2> QED BY <2>1, <2>2 DEF Chunk_refs
<1>2. Len(refs) = Len(tensorList) /\ Len(zeros) = Len(tensorList)
  BY <1>1
<1>3. \A i \in D : /\ RefLens(refs)[i] \in Nat /\ RefLens(zeros)[i] \in Nat
                   /\ RefLens(zeros)[i] <= RefLens(refs)[i]
  <2> TAKE i \in D
  <2>1. tensorList[i] \in Tensor
    OBVIOUS
  <2>2. refs[i].checksum.wide = tensorList[i].payload.wide
    BY DEF Chunk_refs, Chunk_ref, Hash
  <2>3. refs[i].checksum.wide \in 0 .. 32
    BY <2>1, <2>2, TensorSizes
  <2> HIDE DEF refs
  <2>4. RefLen(refs[i]) \in Nat /\ RefLen(refs[i]) >= 38
    BY <2>3, RefSizes
  <2>5. zeros[i] = Placeholder
    OBVIOUS
  <2> HIDE DEF zeros
  <2>6. RefLens(refs)[i] = SchemaLen + RefLen(refs[i]) /\ RefLens(zeros)[i] = SchemaLen + 38
    BY <1>1, <2>5, PlaceholderSize DEF RefLens
  <2> QED BY <2>4, <2>6, LengthsAssumption
<1>4. /\ Total(RefLens(refs), D) \in Nat /\ Total(RefLens(zeros), D) \in Nat
      /\ Total(RefLens(zeros), D) <= Total(RefLens(refs), D)
  <2> HIDE DEF refs, zeros, D
  <2>1. Total(RefLens(zeros), D) <= Total(RefLens(refs), D)
    BY <1>1, <1>3, TotalAtMost
  <2>2. Total(RefLens(refs), D) \in Nat
    BY <1>1, <1>3, TotalNat
  <2>3. Total(RefLens(zeros), D) \in Nat
    BY <1>1, <1>3, TotalNat
  <2> QED BY <2>1, <2>2, <2>3
<1>5. SchemaOffset \in Nat
  BY LengthsAssumption DEF SchemaOffset, FILE_HEADER_PREFIX_SIZE
<1>6. EstimatedBase(tensorList) = SchemaOffset + SchemaBlockLen(zeros)
  BY DEF EstimatedBase
<1>7. CborLen(Len(tensorList)) \in 1 .. 5
  BY CborSizes
<1> HIDE DEF refs, zeros, D
<1>8. SchemaBlockLen(refs) = CborLen(Len(tensorList)) + Total(RefLens(refs), D)
  BY <1>1, <1>2, SchemaBlockLenIs
<1>9. SchemaBlockLen(zeros) = CborLen(Len(tensorList)) + Total(RefLens(zeros), D)
  BY <1>1, <1>2, SchemaBlockLenIs
<1>10. /\ SchemaBlockLen(refs) \in Nat \ {0} /\ SchemaBlockLen(zeros) \in Nat
       /\ SchemaBlockLen(zeros) <= SchemaBlockLen(refs)
  BY <1>4, <1>7, <1>8, <1>9
<1> QED BY <1>5, <1>6, <1>10 DEF refs

-----------------------------------------------------------------------------
(***************************************************************************)
(* The blocks of a container and their places.                             *)
(***************************************************************************)
\* Where the chunks of a container are, whatever its schemas and its index say.
Actual(tensorList, base) == SchemaOffset + SchemaBlockLen(Chunk_refs(tensorList, base))

Compressed(tensorList) == \E i \in DOMAIN tensorList : tensorList[i].compression # "None"

PrefixOf(tensorList, base) == Prefix(Compressed(tensorList), IndexOffset(tensorList, base))

LEMMA ContainerIs ==
  ASSUME NEW tensorList \in Seq(Tensor), NEW base
  PROVE  /\ Len(Container(tensorList, base)) = Len(tensorList) + 5
         /\ DOMAIN Container(tensorList, base) = 1 .. Len(tensorList) + 5
         /\ Container(tensorList, base)[1] = PrefixOf(tensorList, base)
         /\ Container(tensorList, base)[2] = Metadata
         /\ Container(tensorList, base)[3] = SchemaBlock(tensorList, base)
         /\ \A i \in DOMAIN tensorList : Container(tensorList, base)[i + 3] = Chunk(tensorList[i], i - 1)
         /\ Container(tensorList, base)[Len(tensorList) + 4] = Index(tensorList, base)
         /\ Container(tensorList, base)[Len(tensorList) + 5] = Footer(IndexLen(tensorList))
<1> DEFINE B == {PrefixOf(tensorList, base), Metadata, SchemaBlock(tensorList, base),
                 Index(tensorList, base), Footer(IndexLen(tensorList))}
                \cup {Chunk(tensorList[i], i - 1) : i \in DOMAIN tensorList}
           first == <<PrefixOf(tensorList, base), Metadata, SchemaBlock(tensorList, base)>>
           chunks == [i \in DOMAIN tensorList |-> Chunk(tensorList[i], i - 1)]
           last == <<Index(tensorList, base), Footer(IndexLen(tensorList))>>
           n == Len(tensorList)
<1>1. Container(tensorList, base) = (first \o chunks) \o last
  BY DEF Container, PrefixOf, Compressed
<1>2. n \in Nat /\ DOMAIN tensorList = 1 .. n
  BY LenProperties
<1>3. /\ first \in Seq(B) /\ Len(first) = 3 /\ first[1] = PrefixOf(tensorList, base)
      /\ first[2] = Metadata /\ first[3] = SchemaBlock(tensorList, base)
  <2>1. /\ PrefixOf(tensorList, base) \in B /\ Metadata \in B /\ SchemaBlock(tensorList, base) \in B
    OBVIOUS
  <2> HIDE DEF B
  <2> QED BY <2>1
<1>4. /\ last \in Seq(B) /\ Len(last) = 2 /\ last[1] = Index(tensorList, base)
      /\ last[2] = Footer(IndexLen(tensorList))
  <2>1. Index(tensorList, base) \in B /\ Footer(IndexLen(tensorList)) \in B
    OBVIOUS
  <2> HIDE DEF B
  <2> QED BY <2>1
<1>5. /\ chunks \in Seq(B) /\ Len(chunks) = n
      /\ \A i \in 1 .. n : chunks[i] = Chunk(tensorList[i], i - 1)
  <2>1. \A i \in 1 .. n : Chunk(tensorList[i], i - 1) \in B
    BY <1>2
  <2> HIDE DEF B
  <2>2. chunks \in [1 .. n -> B]
    BY <1>2, <2>1
  <2> QED BY <1>2, <2>2
<1> HIDE DEF B, first, chunks, last, n
<1> DEFINE two == first \o chunks
           all == two \o last
<1>6. /\ two \in Seq(B) /\ Len(two) = 3 + n
      /\ \A i \in 1 .. 3 + n : two[i] = IF i <= 3 THEN first[i] ELSE chunks[i - 3]
  <2>1. two \in Seq(B) /\ Len(two) = Len(first) + Len(chunks)
    BY <1>3, <1>5, ConcatProperties, Zenon
  <2>2. \A i \in 1 .. Len(first) + Len(chunks) :
          two[i] = IF i <= Len(first) THEN first[i] ELSE chunks[i - Len(first)]
    BY <1>3, <1>5, ConcatProperties, Zenon
  <2> HIDE DEF two
  <2> QED BY <1>3, <1>5, <2>1, <2>2
<1> HIDE DEF two
<1>7. /\ all \in Seq(B) /\ Len(all) = n + 5
      /\ \A i \in 1 .. n + 5 : all[i] = IF i <= 3 + n THEN two[i] ELSE last[i - (3 + n)]
  <2>1. all \in Seq(B) /\ Len(all) = Len(two) + Len(last)
    BY <1>4, <1>6, ConcatProperties, Zenon
  <2>2. \A i \in 1 .. Len(two) + Len(last) :
          all[i] = IF i <= Len(two) THEN two[i] ELSE last[i - Len(two)]
    BY <1>4, <1>6, ConcatProperties, Zenon
  <2> HIDE DEF all
  <2>3. Len(two) + Len(last) = n + 5
    BY <1>2, <1>4, <1>6
  <2> QED BY <1>6, <2>1, <2>2, <2>3
<1>8. all = Container(tensorList, base)
  BY <1>1 DEF two
<1> HIDE DEF all
<1>9. DOMAIN all = 1 .. n + 5
  BY <1>2, <1>7, LenProperties
<1>10. all[1] = first[1] /\ all[2] = first[2] /\ all[3] = first[3]
  BY <1>2, <1>6, <1>7
<1>11. \A i \in 1 .. n : all[i + 3] = chunks[i]
  <2> TAKE i \in 1 .. n
  <2>1. i + 3 \in 1 .. 3 + n /\ i + 3 \in 1 .. n + 5 /\ ~(i + 3 <= 3) /\ (i + 3) - 3 = i
    BY <1>2
  <2> QED BY <1>6, <1>7, <2>1
<1>12. all[n + 4] = last[1]
  <2>1. n + 4 \in 1 .. n + 5 /\ ~(n + 4 <= 3 + n) /\ (n + 4) - (3 + n) = 1
    BY <1>2
  <2> QED BY <1>7, <2>1
<1>13. all[n + 5] = last[2]
  <2>1. n + 5 \in 1 .. n + 5 /\ ~(n + 5 <= 3 + n) /\ (n + 5) - (3 + n) = 2
    BY <1>2
  <2> QED BY <1>7, <2>1
<1> QED BY <1>2, <1>3, <1>4, <1>5, <1>7, <1>8, <1>9, <1>10, <1>11, <1>12, <1>13 DEF n

\* Only the chunks share a kind.
LEMMA ContainerKinds ==
  ASSUME NEW tensorList \in Seq(Tensor), NEW base, NEW j \in DOMAIN Container(tensorList, base)
  PROVE  LET block == Container(tensorList, base)[j]
         IN  /\ block.kind # "torn"
             /\ block.kind = "prefix" <=> j = 1
             /\ block.kind = "metadata" <=> j = 2
             /\ block.kind = "schemas" <=> j = 3
             /\ block.kind = "index" <=> j = Len(tensorList) + 4
             /\ block.kind = "footer" <=> j = Len(tensorList) + 5
             /\ block.kind = "chunk" <=> j - 3 \in DOMAIN tensorList
<1> DEFINE n == Len(tensorList)
           C == Container(tensorList, base)
<1>0. /\ C[1] = PrefixOf(tensorList, base) /\ C[2] = Metadata /\ C[3] = SchemaBlock(tensorList, base)
      /\ C[n + 4] = Index(tensorList, base) /\ C[n + 5] = Footer(IndexLen(tensorList))
      /\ \A i \in DOMAIN tensorList : C[i + 3] = Chunk(tensorList[i], i - 1)
  BY ContainerIs, Zenon
<1>1. n \in Nat /\ DOMAIN tensorList = 1 .. n /\ j \in 1 .. n + 5
  BY ContainerIs, LenProperties
<1> HIDE DEF C, n
<1>2. CASE j = 1
  <2>1. C[j].kind = "prefix"
    BY <1>2, <1>0 DEF PrefixOf, Prefix
  <2> QED BY <1>1, <1>2, <2>1 DEF C, n
<1>3. CASE j = 2
  <2>1. C[j].kind = "metadata"
    BY <1>3, <1>0 DEF Metadata
  <2> QED BY <1>1, <1>3, <2>1 DEF C, n
<1>4. CASE j = 3
  <2>1. C[j].kind = "schemas"
    BY <1>4, <1>0 DEF SchemaBlock
  <2> QED BY <1>1, <1>4, <2>1 DEF C, n
<1>5. CASE j - 3 \in 1 .. n
  <2>1. C[(j - 3) + 3] = Chunk(tensorList[j - 3], (j - 3) - 1)
    BY <1>0, <1>1, <1>5
  <2>2. (j - 3) + 3 = j
    BY <1>1
  <2>3. C[j].kind = "chunk"
    BY <2>1, <2>2 DEF Chunk
  <2> QED BY <1>1, <1>5, <2>3 DEF C, n
<1>6. CASE j = n + 4
  <2>1. C[j].kind = "index"
    BY <1>6, <1>0 DEF Index
  <2> QED BY <1>1, <1>6, <2>1 DEF C, n
<1>7. CASE j = n + 5
  <2>1. C[j].kind = "footer"
    BY <1>7, <1>0 DEF Footer
  <2> QED BY <1>1, <1>7, <2>1 DEF C, n
<1>8. j = 1 \/ j = 2 \/ j = 3 \/ j - 3 \in 1 .. n \/ j = n + 4 \/ j = n + 5
  BY <1>1
<1> QED BY <1>2, <1>3, <1>4, <1>5, <1>6, <1>7, <1>8 DEF C, n

LEMMA ContainerLens ==
  ASSUME NEW tensorList \in Seq(Tensor), NEW base
  PROVE  /\ Sized(Container(tensorList, base)) /\ Container(tensorList, base)[1].len = 48
         /\ Container(tensorList, base)[2].len = HeaderLen
         /\ Container(tensorList, base)[3].len = SchemaBlockLen(Chunk_refs(tensorList, base))
         /\ \A i \in DOMAIN tensorList :
              Container(tensorList, base)[i + 3].len = ChunkTotalLen(tensorList[i])
         /\ Container(tensorList, base)[Len(tensorList) + 4].len = IndexLen(tensorList)
         /\ Container(tensorList, base)[Len(tensorList) + 5].len = 16
<1> DEFINE n == Len(tensorList)
           C == Container(tensorList, base)
<1>0. /\ C[1] = PrefixOf(tensorList, base) /\ C[2] = Metadata /\ C[3] = SchemaBlock(tensorList, base)
      /\ C[n + 4] = Index(tensorList, base) /\ C[n + 5] = Footer(IndexLen(tensorList))
      /\ \A i \in DOMAIN tensorList : C[i + 3] = Chunk(tensorList[i], i - 1)
  BY ContainerIs, Zenon
<1>1. n \in Nat /\ DOMAIN tensorList = 1 .. n /\ DOMAIN C = 1 .. n + 5
  BY ContainerIs, LenProperties
<1> HIDE DEF C
<1>2. C[1].len = 48 /\ C[2].len = HeaderLen /\ C[3].len = SchemaBlockLen(Chunk_refs(tensorList, base))
  BY <1>0 DEF PrefixOf, Prefix, Metadata, SchemaBlock, FILE_HEADER_PREFIX_SIZE
<1>3. \A i \in 1 .. n : C[i + 3].len = ChunkTotalLen(tensorList[i])
  <2> TAKE i \in 1 .. n
  <2>1. C[i + 3] = Chunk(tensorList[i], i - 1)
    BY <1>0, <1>1
  <2> QED BY <2>1 DEF Chunk
<1>4. C[n + 4].len = IndexLen(tensorList) /\ C[n + 5].len = 16
  BY <1>0 DEF Index, Footer, FOOTER_SIZE
<1>5. \A i \in 1 .. n : ChunkTotalLen(tensorList[i]) \in Nat
  <2> TAKE i \in 1 .. n
  <2>1. tensorList[i] \in Tensor
    BY <1>1
  <2> QED BY <2>1, TensorSizes
<1>6. IndexLen(tensorList) \in Nat
  BY <1>1 DEF IndexLen
<1>7. SchemaBlockLen(Chunk_refs(tensorList, base)) \in Nat /\ HeaderLen \in Nat
  BY SchemaSizes, LengthsAssumption
<1>8. Sized(C)
  <2> SUFFICES ASSUME NEW j \in 1 .. n + 5 PROVE C[j].len \in Nat
    BY <1>1 DEF Sized
  <2>1. CASE j \in 1 .. 3
    BY <1>2, <1>7, <2>1
  <2>2. CASE j - 3 \in 1 .. n
    <3>1. C[(j - 3) + 3].len = ChunkTotalLen(tensorList[j - 3]) /\ (j - 3) + 3 = j
      BY <1>3, <2>2
    <3> QED BY <1>5, <2>2, <3>1
  <2>3. CASE j = n + 4 \/ j = n + 5
    BY <1>4, <1>6, <2>3
  <2>4. j \in 1 .. 3 \/ j - 3 \in 1 .. n \/ j = n + 4 \/ j = n + 5
    BY <1>1
  <2> QED BY <2>1, <2>2, <2>3, <2>4
<1> QED BY <1>1, <1>2, <1>3, <1>4, <1>8 DEF C

LEMMA ContainerPlaces ==
  ASSUME NEW tensorList \in Seq(Tensor), NEW base \in Bases(tensorList)
  PROVE  LET C == Container(tensorList, base)
             n == Len(tensorList)
         IN  /\ Actual(tensorList, base) \in Nat /\ IndexOffset(tensorList, base) \in Nat
             /\ IndexOffset(tensorList, base) = Actual(tensorList, base) + ChunkBytes(tensorList, n)
             /\ Start(C, 1) = 0 /\ Start(C, 2) = 48 /\ Start(C, 3) = SchemaOffset
             /\ Start(C, 4) = Actual(tensorList, base)
             /\ \A i \in 0 .. n : Start(C, i + 4) = Actual(tensorList, base) + ChunkBytes(tensorList, i)
             /\ Start(C, n + 4) = IndexOffset(tensorList, base)
             /\ Start(C, n + 5) = IndexOffset(tensorList, base) + IndexLen(tensorList)
             /\ FileLen(C) = IndexOffset(tensorList, base) + IndexLen(tensorList) + 16
<1> DEFINE n == Len(tensorList)
           C == Container(tensorList, base)
           B == WholeBlocks(tensorList)
<1>1. n \in Nat /\ DOMAIN tensorList = 1 .. n /\ DOMAIN C = 1 .. n + 5 /\ Len(C) = n + 5
  BY ContainerIs, LenProperties
<1>2. C \in Seq(B) /\ Sized(C)
  <2>1. C \in Seq(B)
    BY ContainerBlocks
  <2>2. Sized(C)
    BY ContainerLens
  <2> QED BY <2>1, <2>2
<1>3. \A j \in 1 .. n + 5 : Start(C, j) \in Nat /\ Start(C, j + 1) = Start(C, j) + C[j].len
  <2> HIDE DEF B, C
  <2> QED BY <1>1, <1>2, StartNext
<1>4. Start(C, 1) = 0
  BY StartFirst
<1>5. /\ C[1].len = 48 /\ C[2].len = HeaderLen /\ C[3].len = SchemaBlockLen(Chunk_refs(tensorList, base))
      /\ \A i \in DOMAIN tensorList : C[i + 3].len = ChunkTotalLen(tensorList[i])
      /\ C[n + 4].len = IndexLen(tensorList) /\ C[n + 5].len = 16
  BY ContainerLens, Zenon
<1> HIDE DEF B, C
<1>6. Start(C, 2) = 48
  <2>1. 1 \in 1 .. n + 5 /\ 1 + 1 = 2
    BY <1>1
  <2> QED BY <1>3, <1>4, <1>5, <2>1
<1>7. Start(C, 3) = SchemaOffset
  <2>1. 2 \in 1 .. n + 5 /\ 2 + 1 = 3
    BY <1>1
  <2>2. Start(C, 3) = Start(C, 2) + C[2].len
    BY <1>3, <2>1
  <2> QED BY <1>5, <1>6, <2>2 DEF SchemaOffset, FILE_HEADER_PREFIX_SIZE
<1>8. Start(C, 4) = Actual(tensorList, base)
  <2>1. 3 \in 1 .. n + 5 /\ 3 + 1 = 4
    BY <1>1
  <2>2. Start(C, 4) = Start(C, 3) + C[3].len
    BY <1>3, <2>1
  <2> QED BY <1>5, <1>7, <2>2 DEF Actual
<1>9. Actual(tensorList, base) \in Nat
  <2>1. 4 \in 1 .. n + 5
    BY <1>1
  <2> QED BY <1>3, <1>8, <2>1
<1>10. \A i \in 0 .. n : Start(C, i + 4) = Actual(tensorList, base) + ChunkBytes(tensorList, i)
  <2> DEFINE bad == {i \in 0 .. n : Start(C, i + 4) # Actual(tensorList, base) + ChunkBytes(tensorList, i)}
  <2> SUFFICES ASSUME bad # {} PROVE FALSE
    OBVIOUS
  <2>1. PICK m \in bad : \A k \in bad : m <= k
    <3>1. bad \subseteq Nat
      OBVIOUS
    <3> HIDE DEF bad
    <3> QED BY <3>1, LeastNat
  <2>2. m \in 0 .. n /\ Start(C, m + 4) # Actual(tensorList, base) + ChunkBytes(tensorList, m)
    OBVIOUS
  <2>3. m # 0
    <3> SUFFICES ASSUME m = 0 PROVE FALSE
      OBVIOUS
    <3>1. ChunkBytes(tensorList, m) = 0 /\ m + 4 = 4
      BY ChunkBytesFirst
    <3> QED BY <1>8, <1>9, <2>2, <3>1
  <2>4. m \in 1 .. n /\ m - 1 \in 0 .. n /\ m - 1 < m
    BY <1>1, <2>2, <2>3
  <2>5. m - 1 \notin bad
    <3> HIDE DEF bad
    <3> QED BY <2>1, <2>4
  <2>6. Start(C, (m - 1) + 4) = Actual(tensorList, base) + ChunkBytes(tensorList, m - 1)
    BY <2>4, <2>5
  <2> HIDE DEF bad
  <2>7. /\ ChunkBytes(tensorList, m - 1) \in Nat
        /\ ChunkBytes(tensorList, m) = ChunkBytes(tensorList, m - 1) + ChunkTotalLen(tensorList[m])
    BY <1>1, <2>4, ChunkBytesNext
  <2>8. Start(C, (m + 3) + 1) = Start(C, m + 3) + C[m + 3].len
    <3>1. m + 3 \in 1 .. n + 5
      BY <1>1, <2>4
    <3> QED BY <1>3, <3>1
  <2>9. (m - 1) + 4 = m + 3 /\ (m + 3) + 1 = m + 4
    BY <2>4
  <2>10. C[m + 3].len = ChunkTotalLen(tensorList[m]) /\ ChunkTotalLen(tensorList[m]) \in Nat
    <3>1. tensorList[m] \in Tensor
      BY <1>1, <2>4
    <3> QED BY <1>1, <1>5, <2>4, <3>1, TensorSizes
  <2> DEFINE a == Start(C, m + 3)
             l == ChunkTotalLen(tensorList[m])
             t == Actual(tensorList, base)
             q == ChunkBytes(tensorList, m - 1)
  <2>11. Start(C, m + 4) = a + l /\ a = t + q /\ ChunkBytes(tensorList, m) = q + l
    BY <2>6, <2>7, <2>8, <2>9, <2>10
  <2>12. t \in Nat /\ q \in Nat /\ l \in Nat
    BY <1>9, <2>7, <2>10
  <2> HIDE DEF a, l, q
  <2>13. a + l = t + (q + l)
    BY <2>11, <2>12
  <2> QED BY <2>2, <2>11, <2>13
<1>11. IndexOffset(tensorList, base) = Actual(tensorList, base) + ChunkBytes(tensorList, n)
  BY DEF IndexOffset, Actual
<1>12. Start(C, n + 4) = IndexOffset(tensorList, base)
  <2>1. n \in 0 .. n
    BY <1>1
  <2> QED BY <1>10, <1>11, <2>1
<1>13. IndexOffset(tensorList, base) \in Nat
  <2>1. n + 4 \in 1 .. n + 5
    BY <1>1
  <2> QED BY <1>3, <1>12, <2>1
<1>14. Start(C, n + 5) = IndexOffset(tensorList, base) + IndexLen(tensorList)
  <2>1. n + 4 \in 1 .. n + 5 /\ (n + 4) + 1 = n + 5
    BY <1>1
  <2> QED BY <1>3, <1>5, <1>12, <2>1
<1>15. FileLen(C) = IndexOffset(tensorList, base) + IndexLen(tensorList) + 16
  <2>1. n + 5 \in 1 .. n + 5
    BY <1>1
  <2>2. Start(C, (n + 5) + 1) = Start(C, n + 5) + 16
    BY <1>3, <1>5, <2>1
  <2> QED BY <1>1, <1>14, <2>2 DEF FileLen
<1> QED BY <1>4, <1>6, <1>7, <1>8, <1>9, <1>10, <1>11, <1>12, <1>13, <1>14, <1>15 DEF C

-----------------------------------------------------------------------------
(***************************************************************************)
(* What is at the path is the container of source, whole, or a part of it  *)
(* without the footer.                                                     *)
(***************************************************************************)
Base == IF version = 0 THEN ExactBase(source) ELSE EstimatedBase(source)
Target == Container(source, Base)

\* unwritten is the rest of it.
Remains ==
  /\ Len(file) + Len(unwritten) = Len(Target)
  /\ \A i \in DOMAIN unwritten : unwritten[i] = Target[Len(file) + i]

LayoutInv ==
  /\ version \in Nat
  /\ complete => wpc = "idle" /\ file = Target
  /\ ~complete => \A i \in DOMAIN file : file[i].kind # "footer"
  /\ \A i \in DOMAIN file : file[i].kind = "torn" \/ (i \in DOMAIN Target /\ file[i] = Target[i])
  /\ wpc = "writing" => version # 0 /\ ~complete /\ source = tensors /\ Remains
  /\ wpc = "writing" => \A i \in DOMAIN file : file[i].kind # "torn"
  /\ version = 0 => IF complete THEN source \in Found ELSE file = <<>>

LEMMA TargetIs ==
  ASSUME FileInv
  PROVE  /\ source \in Seq(Tensor) /\ Base \in Bases(source)
         /\ Target \in Seq(WholeBlocks(source)) /\ Len(Target) = Len(source) + 5
<1>1. source \in Seq(Tensor) /\ Base \in Bases(source)
  BY DEF FileInv, Base, Bases
<1> QED BY <1>1, ContainerBlocks, ContainerIs DEF Target

LEMMA InitLayout == WriterInit => LayoutInv
<1> SUFFICES ASSUME WriterInit PROVE LayoutInv
  OBVIOUS
<1>1. version = 0 /\ wpc = "idle"
  BY DEF WriterInit
<1>2. CASE source = <<>> /\ complete = FALSE /\ file = <<>>
  BY <1>1, <1>2 DEF LayoutInv
<1>3. CASE source \in Found /\ complete = TRUE /\ file = Container(source, ExactBase(source))
  <2>1. file = Target
    BY <1>1, <1>3 DEF Target, Base
  <2> QED BY <1>1, <1>3, <2>1 DEF LayoutInv
<1> QED BY <1>2, <1>3 DEF WriterInit

\* Each step of the writer keeps it so, a failure too.
LEMMA LayoutStep ==
  ASSUME FileInv, LayoutInv, Writer
  PROVE  LayoutInv'
<1>0. version \in Nat /\ file \in Seq(Blocks(source)) /\ unwritten \in Seq(WholeBlocks(source))
  BY DEF LayoutInv, FileInv
<1>1. CASE New_writer \/ Add_tensor
  <2>1. wpc = "idle" /\ UNCHANGED <<file, unwritten, wpc, source, complete, version>>
    BY <1>1 DEF New_writer, Add_tensor
  <2>2. Target' = Target
    BY <2>1 DEF Target, Base
  <2> QED BY <2>1, <2>2 DEF LayoutInv
<1>2. CASE Finalize
  <2>1. /\ file' = <<>> /\ source' = tensors /\ complete' = FALSE /\ version' = version + 1
        /\ unwritten' = Container(tensors, EstimatedBase(tensors)) /\ UNCHANGED tensors
    BY <1>2 DEF Finalize
  <2>2. version' \in Nat /\ version' # 0
    BY <1>0, <2>1
  <2>3. Target' = unwritten'
    BY <2>1, <2>2 DEF Target, Base
  <2>4. Remains'
    <3>1. Len(unwritten') \in Nat /\ Len(file') = 0 /\ DOMAIN unwritten' = 1 .. Len(unwritten')
      <4>1. tensors \in Seq(Tensor) /\ EstimatedBase(tensors) \in Bases(tensors)
        BY DEF FileInv, Bases
      <4>2. unwritten' \in Seq(WholeBlocks(tensors))
        BY <2>1, <4>1, ContainerBlocks
      <4> QED BY <2>1, <4>2, LenProperties
    <3> QED BY <2>3, <3>1 DEF Remains
  <2>5. DOMAIN file' = {}
    BY <2>1
  <2> QED BY <2>1, <2>2, <2>4, <2>5 DEF LayoutInv
<1>3. CASE Write_block
  <2>1. /\ wpc = "writing" /\ file' = Append(file, Head(unwritten)) /\ unwritten' = Tail(unwritten)
        /\ UNCHANGED <<tensors, source, version>>
    BY <1>3 DEF Write_block
  <2>2. /\ unwritten # <<>> /\ version # 0 /\ ~complete /\ source = tensors /\ Remains
        /\ \A i \in DOMAIN file : file[i].kind # "torn" /\ file[i].kind # "footer"
                                  /\ i \in DOMAIN Target /\ file[i] = Target[i]
    BY <2>1 DEF LayoutInv, FileInv
  <2> DEFINE m == Len(file)
             k == Len(unwritten)
  <2>3. m \in Nat /\ k \in Nat /\ k # 0 /\ m + k = Len(source) + 5 /\ Len(source) \in Nat
    <3>1. k # 0
      BY <1>0, <2>2, EmptySeq
    <3> QED BY <1>0, <2>2, <3>1, TargetIs, LenProperties DEF Remains
  <2>4. DOMAIN Target = 1 .. m + k
    BY <2>3, TargetIs, LenProperties
  <2>5. Head(unwritten) = Target[m + 1]
    <3>1. 1 \in DOMAIN unwritten /\ Head(unwritten) = unwritten[1]
      BY <1>0, <2>3
    <3> QED BY <2>2, <3>1 DEF Remains
  <2>6. /\ Len(file') = m + 1 /\ DOMAIN file' = 1 .. m + 1
        /\ \A i \in 1 .. m + 1 : file'[i] = Target[i]
    <3>1. Len(file') = m + 1 /\ DOMAIN file' = 1 .. m + 1 /\ DOMAIN file = 1 .. m
      BY <1>0, <2>1, <2>3
    <3>2. file'[m + 1] = Target[m + 1]
      BY <1>0, <2>1, <2>5
    <3>3. \A i \in 1 .. m : file'[i] = file[i]
      BY <1>0, <2>1
    <3>4. \A i \in 1 .. m : file'[i] = Target[i]
      BY <2>2, <3>1, <3>3
    <3>5. \A i \in 1 .. m + 1 : i = m + 1 \/ i \in 1 .. m
      BY <2>3
    <3> QED BY <3>1, <3>2, <3>4, <3>5
  <2>7. /\ Len(unwritten') = k - 1 /\ DOMAIN unwritten' = 1 .. k - 1
        /\ \A i \in 1 .. k - 1 : unwritten'[i] = Target[(m + 1) + i]
    <3>1. Len(unwritten') = k - 1 /\ DOMAIN unwritten' = 1 .. k - 1
      BY <1>0, <2>1, <2>2
    <3>2. \A i \in 1 .. k - 1 : unwritten'[i] = unwritten[i + 1]
      BY <1>0, <2>1, <2>2
    <3>3. \A i \in 1 .. k - 1 : unwritten[i + 1] = Target[(m + 1) + i]
      <4> TAKE i \in 1 .. k - 1
      <4>1. i + 1 \in DOMAIN unwritten /\ m + (i + 1) = (m + 1) + i
        BY <1>0, <2>3
      <4>2. unwritten[i + 1] = Target[m + (i + 1)]
        BY <2>2, <4>1 DEF Remains
      <4> QED BY <4>1, <4>2
    <3> QED BY <3>1, <3>2, <3>3
  <2>8. Target' = Target
    BY <2>1 DEF Target, Base
  <2>9. \A i \in 1 .. m + 1 : i \in DOMAIN Target
    BY <2>3, <2>4
  <2>10. \A i \in 1 .. m + 1 : i # m + k => Target[i].kind # "footer"
    <3> TAKE i \in 1 .. m + 1
    <3>1. i \in DOMAIN Container(source, Base)
      BY <2>9 DEF Target
    <3>2. Container(source, Base)[i].kind = "footer" <=> i = Len(source) + 5
      BY <3>1, TargetIs, ContainerKinds
    <3> QED BY <2>3, <3>2 DEF Target
  <2>11. \A i \in 1 .. m + 1 : Target[i].kind # "torn"
    <3> TAKE i \in 1 .. m + 1
    <3>1. i \in DOMAIN Container(source, Base)
      BY <2>9 DEF Target
    <3>2. Container(source, Base)[i].kind # "torn"
      BY <3>1, TargetIs, ContainerKinds
    <3> QED BY <3>2 DEF Target
  <2>12. CASE k = 1
    <3>1. wpc' = "idle" /\ complete' = TRUE
      BY <1>3, <2>12 DEF Write_block
    <3>2. file' = Target
      <4>1. file' \in Seq(Blocks(source)) /\ Target \in Seq(Blocks(source))
        <5>1. FileInv'
          BY FileStep
        <5>2. file' \in Seq(Blocks(source))
          BY <2>1, <5>1 DEF FileInv
        <5> QED BY <5>2, TargetIs, WholeIsBlock
      <4>2. Len(file') = Len(Target) /\ \A i \in 1 .. Len(file') : file'[i] = Target[i]
        BY <2>3, <2>6, <2>12, TargetIs
      <4> QED BY <4>1, <4>2, SeqEqual
    <3> QED BY <1>0, <2>1, <2>2, <2>6, <2>8, <2>9, <3>1, <3>2 DEF LayoutInv
  <2>13. CASE k # 1
    <3>1. UNCHANGED <<wpc, complete>>
      BY <1>3, <2>13 DEF Write_block
    <3>2. Remains'
      <4>1. (m + 1) + (k - 1) = Len(Target)
        BY <2>3, TargetIs
      <4> HIDE DEF m, k
      <4> QED BY <2>6, <2>7, <2>8, <4>1 DEF Remains
    <3>3. \A i \in 1 .. m + 1 : file'[i].kind # "footer" /\ file'[i].kind # "torn"
      <4> HIDE DEF m, k
      <4>1. \A i \in 1 .. m + 1 : i # m + k
        BY <2>3, <2>13
      <4> QED BY <2>6, <2>10, <2>11, <4>1, Zenon
    <3> QED BY <1>0, <2>1, <2>2, <2>6, <2>8, <2>9, <3>1, <3>2, <3>3 DEF LayoutInv
  <2> QED BY <2>12, <2>13
<1>4. CASE Write_fails
  <2>1. /\ wpc = "writing" /\ wpc' = "idle" /\ UNCHANGED <<tensors, source, complete, version>>
        /\ (file' = file \/ file' = Append(file, Torn(Head(unwritten))))
    BY <1>4 DEF Write_fails
  <2>2. version # 0 /\ ~complete
    BY <2>1 DEF LayoutInv
  <2>3. Target' = Target
    BY <2>1 DEF Target, Base
  <2>4. CASE file' = file
    BY <2>1, <2>2, <2>3, <2>4 DEF LayoutInv
  <2>5. CASE file' = Append(file, Torn(Head(unwritten)))
    <3> DEFINE m == Len(file)
               torn == Torn(Head(unwritten))
    <3>1. torn.kind = "torn"
      BY DEF Torn
    <3> HIDE DEF torn
    <3>2. /\ m \in Nat /\ DOMAIN file' = 1 .. m + 1 /\ DOMAIN file = 1 .. m /\ file'[m + 1] = torn
          /\ \A i \in 1 .. m : file'[i] = file[i]
      BY <1>0, <2>5 DEF torn
    <3>3. \A i \in 1 .. m + 1 : i = m + 1 \/ i \in 1 .. m
      BY <3>2
    <3> HIDE DEF m
    <3>4. \A i \in DOMAIN file' : file'[i].kind = "torn" \/ (i \in DOMAIN Target /\ file'[i] = Target[i])
      BY <3>1, <3>2, <3>3 DEF LayoutInv
    <3>5. \A i \in DOMAIN file' : file'[i].kind # "footer"
      <4> SUFFICES ASSUME NEW i \in 1 .. m + 1 PROVE file'[i].kind # "footer"
        BY <3>2
      <4>1. \A j \in 1 .. m : file[j].kind # "footer"
        BY <2>2, <3>2 DEF LayoutInv
      <4>2. CASE i = m + 1
        BY <3>1, <3>2, <4>2
      <4>3. CASE i \in 1 .. m
        BY <3>2, <4>1, <4>3
      <4> QED BY <3>3, <4>2, <4>3
    <3> QED BY <1>0, <2>1, <2>2, <2>3, <3>4, <3>5 DEF LayoutInv
  <2> QED BY <2>1, <2>4, <2>5
<1> QED BY <1>1, <1>2, <1>3, <1>4 DEF Writer

\* So does a step of anything else.
LEMMA LayoutKept ==
  ASSUME LayoutInv, UNCHANGED writerVars
  PROVE  LayoutInv'
<1>1. Target' = Target
  BY DEF writerVars, Target, Base
<1> QED BY <1>1 DEF LayoutInv, Remains, writerVars

-----------------------------------------------------------------------------
(***************************************************************************)
(* What open finds in the file.                                            *)
(***************************************************************************)
LEMMA OneFound ==
  ASSUME NEW f, NEW o, NEW kind, NEW j \in DOMAIN f, j \in Nat,
         f[j].kind = kind, Start(f, j) = o,
         \A i \in DOMAIN f : f[i].kind = kind /\ Start(f, i) = o => i = j
  PROVE  BlockAt(f, o, kind) = {f[j]}
<1> DEFINE at == {i \in DOMAIN f : f[i].kind = kind /\ Start(f, i) = o}
<1>1. at = {j}
  OBVIOUS
<1>2. {i \in at : \A k \in at : i <= k} = {j}
  BY <1>1
<1> QED BY <1>2 DEF BlockAt

LEMMA OnlyFound ==
  ASSUME NEW f, NEW o, NEW kind, NEW j \in DOMAIN f, j \in Nat,
         f[j].kind = kind, Start(f, j) = o, \A i \in DOMAIN f : f[i].kind = kind => i = j
  PROVE  BlockAt(f, o, kind) = {f[j]}
BY OneFound

\* The blocks of the file have lengths, the torn ones too.
LEMMA FileSized == FileInv => Sized(file) /\ FileLen(file) \in Nat
<1> SUFFICES ASSUME FileInv PROVE Sized(file) /\ FileLen(file) \in Nat
  OBVIOUS
<1>1. source \in Seq(Tensor) /\ file \in Seq(Blocks(source))
  BY DEF FileInv
<1>2. \A b \in WholeBlocks(source) : b.len \in Nat \ {0}
  <2> SUFFICES ASSUME NEW b \in WholeBlocks(source) PROVE b.len \in Nat \ {0}
    OBVIOUS
  <2>1. CASE b.kind = "prefix" \/ b.kind = "metadata" \/ b.kind = "footer"
    <3>1. b.len = 48 \/ b.len = HeaderLen \/ b.len = 16
      BY <2>1 DEF WholeBlocks, Prefix, Metadata, Footer, SchemaBlock, Chunk, Index,
                  FILE_HEADER_PREFIX_SIZE, FOOTER_SIZE
    <3> QED BY <3>1, LengthsAssumption
  <2>2. CASE b.kind = "schemas"
    <3>1. PICK base \in Bases(source) : b.len = SchemaBlockLen(Chunk_refs(source, base))
      BY <2>2 DEF WholeBlocks, Prefix, Metadata, Footer, SchemaBlock, Chunk, Index
    <3> QED BY <1>1, <3>1, SchemaSizes
  <2>3. CASE b.kind = "chunk"
    <3>1. PICK i \in DOMAIN source : b.len = ChunkTotalLen(source[i])
      BY <2>3 DEF WholeBlocks, Prefix, Metadata, Footer, SchemaBlock, Chunk, Index
    <3>2. source[i] \in Tensor
      BY <1>1
    <3>3. ChunkTotalLen(source[i]) = PackedLen(source[i]) + 62 /\ PackedLen(source[i]) \in Nat
      BY <3>2, TensorSizes
    <3> QED BY <3>1, <3>3
  <2>4. CASE b.kind = "index"
    <3>1. b.len = IndexLen(source)
      BY <2>4 DEF WholeBlocks, Prefix, Metadata, Footer, SchemaBlock, Chunk, Index
    <3>2. Len(source) \in Nat
      BY <1>1, LenProperties
    <3> QED BY <3>1, <3>2 DEF IndexLen
  <2>5. \/ b.kind = "prefix" \/ b.kind = "metadata" \/ b.kind = "footer"
        \/ b.kind = "schemas" \/ b.kind = "chunk" \/ b.kind = "index"
    BY DEF WholeBlocks, Prefix, Metadata, Footer, SchemaBlock, Chunk, Index
  <2> QED BY <2>1, <2>2, <2>3, <2>4, <2>5
<1>3. \A b \in Blocks(source) : b.len \in Nat
  <2> SUFFICES ASSUME NEW b \in Blocks(source) PROVE b.len \in Nat
    OBVIOUS
  <2>1. CASE b \in WholeBlocks(source)
    BY <1>2, <2>1
  <2>2. CASE b \in {Torn(w) : w \in WholeBlocks(source)}
    <3>1. PICK w \in WholeBlocks(source) : b = Torn(w)
      BY <2>2
    <3>2. b.len = w.len - 1 /\ w.len \in Nat \ {0}
      BY <1>2, <3>1 DEF Torn
    <3> QED BY <3>2
  <2> QED BY <2>1, <2>2 DEF Blocks
<1>4. Sized(file)
  <2> SUFFICES ASSUME NEW j \in DOMAIN file PROVE file[j].len \in Nat
    BY DEF Sized
  <2>1. file[j] \in Blocks(source)
    BY <1>1
  <2> QED BY <1>3, <2>1
<1> QED BY <1>1, <1>4, FileLenNat

\* A block that is not torn is the one of the container.
LEMMA FoundInTarget ==
  ASSUME FileInv, LayoutInv, NEW o, NEW kind, kind # "torn", NEW b \in BlockAt(file, o, kind)
  PROVE  \E i \in DOMAIN file : /\ i \in DOMAIN Target /\ b = Target[i] /\ b.kind = kind
                                /\ Start(file, i) = o
<1>1. PICK i \in DOMAIN file : b = file[i] /\ file[i].kind = kind /\ Start(file, i) = o
  BY DEF BlockAt
<1>2. file[i].kind = "torn" \/ (i \in DOMAIN Target /\ file[i] = Target[i])
  BY DEF LayoutInv
<1> QED BY <1>1, <1>2

LEMMA PrefixFound ==
  ASSUME FileInv, LayoutInv, NEW o, NEW b \in BlockAt(file, o, "prefix")
  PROVE  b = PrefixOf(source, Base)
<1>1. PICK i \in DOMAIN Target : b = Target[i] /\ b.kind = "prefix"
  BY FoundInTarget
<1>2. i = 1
  <2>1. i \in DOMAIN Container(source, Base) /\ Container(source, Base)[i].kind = "prefix"
    BY <1>1 DEF Target
  <2> QED BY <2>1, TargetIs, ContainerKinds
<1>3. Target[1] = PrefixOf(source, Base)
  BY TargetIs, ContainerIs DEF Target
<1> QED BY <1>1, <1>2, <1>3

LEMMA SchemasFound ==
  ASSUME FileInv, LayoutInv, NEW o, NEW b \in BlockAt(file, o, "schemas")
  PROVE  b.schemas = Schemas(source, Base)
<1>1. PICK i \in DOMAIN Target : b = Target[i] /\ b.kind = "schemas"
  BY FoundInTarget
<1>2. i = 3
  <2>1. i \in DOMAIN Container(source, Base) /\ Container(source, Base)[i].kind = "schemas"
    BY <1>1 DEF Target
  <2> QED BY <2>1, TargetIs, ContainerKinds
<1>3. Target[3] = SchemaBlock(source, Base)
  BY TargetIs, ContainerIs DEF Target
<1> QED BY <1>1, <1>2, <1>3 DEF SchemaBlock

LEMMA IndexFound ==
  ASSUME FileInv, LayoutInv, NEW o, NEW b \in BlockAt(file, o, "index")
  PROVE  b = Index(source, Base)
<1>1. PICK i \in DOMAIN Target : b = Target[i] /\ b.kind = "index"
  BY FoundInTarget
<1>2. i = Len(source) + 4
  <2>1. i \in DOMAIN Container(source, Base) /\ Container(source, Base)[i].kind = "index"
    BY <1>1 DEF Target
  <2> QED BY <2>1, TargetIs, ContainerKinds
<1>3. Target[Len(source) + 4] = Index(source, Base)
  BY TargetIs, ContainerIs, Zenon DEF Target
<1> QED BY <1>1, <1>2, <1>3

\* There is a footer only at the end of the whole container.
LEMMA FooterFound ==
  ASSUME FileInv, LayoutInv, NEW limit \in Nat, NEW b \in BlockAt(file, limit - FOOTER_SIZE, "footer")
  PROVE  complete /\ limit = FileLen(file) /\ b = Footer(IndexLen(source))
<1>1. PICK i \in DOMAIN file : /\ i \in DOMAIN Target /\ b = Target[i] /\ b.kind = "footer"
                               /\ Start(file, i) = limit - FOOTER_SIZE
  BY FoundInTarget
<1>2. complete /\ file = Target
  <2>1. file[i] = b
    <3>1. PICK j \in DOMAIN file : b = file[j]
      BY DEF BlockAt
    <3>2. file[i].kind = "torn" \/ file[i] = Target[i]
      BY <1>1 DEF LayoutInv
    <3>3. file[j].kind = "footer"
      BY <1>1, <3>1
    <3>4. complete
      BY <3>3 DEF LayoutInv
    <3> QED BY <1>1, <3>4 DEF LayoutInv
  <2>2. complete
    BY <1>1, <2>1 DEF LayoutInv
  <2> QED BY <2>2 DEF LayoutInv
<1>3. i = Len(source) + 5
  <2>1. i \in DOMAIN Container(source, Base) /\ Container(source, Base)[i].kind = "footer"
    BY <1>1 DEF Target
  <2> QED BY <2>1, TargetIs, ContainerKinds
<1>4. Target[Len(source) + 5] = Footer(IndexLen(source))
  BY TargetIs, ContainerIs, Zenon DEF Target
<1>5. /\ Start(Target, Len(source) + 5) = IndexOffset(source, Base) + IndexLen(source)
      /\ FileLen(Target) = IndexOffset(source, Base) + IndexLen(source) + 16
      /\ IndexOffset(source, Base) \in Nat
  BY TargetIs, ContainerPlaces, Zenon DEF Target
<1>6. IndexLen(source) \in Nat
  BY TargetIs, LenProperties DEF IndexLen
<1>7. Start(file, i) = IndexOffset(source, Base) + IndexLen(source)
  BY <1>2, <1>3, <1>5
<1>8. limit = FileLen(file)
  BY <1>1, <1>2, <1>5, <1>6, <1>7 DEF FOOTER_SIZE
<1> QED BY <1>1, <1>2, <1>3, <1>4, <1>8

\* In the whole file, each block is found where it is looked for.
LEMMA WholeFile ==
  ASSUME FileInv, LayoutInv, complete
  PROVE  /\ BlockAt(file, 0, "prefix") = {PrefixOf(source, Base)}
         /\ BlockAt(file, FILE_HEADER_PREFIX_SIZE, "metadata") = {Metadata}
         /\ BlockAt(file, SchemaOffset, "schemas") = {SchemaBlock(source, Base)}
         /\ BlockAt(file, IndexOffset(source, Base), "index") = {Index(source, Base)}
         /\ BlockAt(file, FileLen(file) - FOOTER_SIZE, "footer") = {Footer(IndexLen(source))}
         /\ FileLen(file) = IndexOffset(source, Base) + IndexLen(source) + 16
<1> DEFINE n == Len(source)
           C == Container(source, Base)
<1>1. file = C
  BY DEF LayoutInv, Target
<1>2. n \in Nat /\ DOMAIN C = 1 .. n + 5
  BY TargetIs, ContainerIs, LenProperties
<1>3. /\ C[1] = PrefixOf(source, Base) /\ C[2] = Metadata /\ C[3] = SchemaBlock(source, Base)
      /\ C[n + 4] = Index(source, Base) /\ C[n + 5] = Footer(IndexLen(source))
  BY TargetIs, ContainerIs, Zenon
<1>4. /\ Start(C, 1) = 0 /\ Start(C, 2) = 48 /\ Start(C, 3) = SchemaOffset
      /\ Start(C, n + 4) = IndexOffset(source, Base)
      /\ Start(C, n + 5) = IndexOffset(source, Base) + IndexLen(source)
      /\ FileLen(C) = IndexOffset(source, Base) + IndexLen(source) + 16
      /\ IndexOffset(source, Base) \in Nat
  BY TargetIs, ContainerPlaces, Zenon
<1>5. \A j \in DOMAIN C : /\ C[j].kind = "prefix" <=> j = 1
                          /\ C[j].kind = "metadata" <=> j = 2
                          /\ C[j].kind = "schemas" <=> j = 3
                          /\ C[j].kind = "index" <=> j = n + 4
                          /\ C[j].kind = "footer" <=> j = n + 5
  BY TargetIs, ContainerKinds, Zenon
<1>6. IndexLen(source) \in Nat
  BY TargetIs, LenProperties DEF IndexLen
<1> HIDE DEF C, n
<1>7. /\ 1 \in DOMAIN C /\ 2 \in DOMAIN C /\ 3 \in DOMAIN C /\ n + 4 \in DOMAIN C /\ n + 5 \in DOMAIN C
      /\ n + 4 \in Nat /\ n + 5 \in Nat
  BY <1>2
<1>8. BlockAt(C, 0, "prefix") = {C[1]}
  <2>1. C[1].kind = "prefix" /\ \A i \in DOMAIN C : C[i].kind = "prefix" => i = 1
    BY <1>5, <1>7
  <2>2. Start(C, 1) = 0 /\ 1 \in DOMAIN C /\ 1 \in Nat
    BY <1>4, <1>7
  <2> QED BY <2>1, <2>2, OnlyFound
<1>9. BlockAt(C, 48, "metadata") = {C[2]}
  <2>1. C[2].kind = "metadata" /\ \A i \in DOMAIN C : C[i].kind = "metadata" => i = 2
    BY <1>5, <1>7
  <2>2. Start(C, 2) = 48 /\ 2 \in DOMAIN C /\ 2 \in Nat
    BY <1>4, <1>7
  <2> QED BY <2>1, <2>2, OnlyFound
<1>10. BlockAt(C, SchemaOffset, "schemas") = {C[3]}
  <2>1. C[3].kind = "schemas" /\ \A i \in DOMAIN C : C[i].kind = "schemas" => i = 3
    BY <1>5, <1>7
  <2>2. Start(C, 3) = SchemaOffset /\ 3 \in DOMAIN C /\ 3 \in Nat
    BY <1>4, <1>7
  <2> QED BY <2>1, <2>2, OnlyFound
<1>11. BlockAt(C, IndexOffset(source, Base), "index") = {C[n + 4]}
  <2>1. C[n + 4].kind = "index" /\ \A i \in DOMAIN C : C[i].kind = "index" => i = n + 4
    BY <1>5, <1>7
  <2>2. Start(C, n + 4) = IndexOffset(source, Base) /\ n + 4 \in DOMAIN C /\ n + 4 \in Nat
    BY <1>4, <1>7
  <2> QED BY <2>1, <2>2, OnlyFound
<1>12. BlockAt(C, FileLen(C) - FOOTER_SIZE, "footer") = {C[n + 5]}
  <2>1. Start(C, n + 5) = FileLen(C) - FOOTER_SIZE
    BY <1>4, <1>6 DEF FOOTER_SIZE
  <2>2. C[n + 5].kind = "footer" /\ \A i \in DOMAIN C : C[i].kind = "footer" => i = n + 5
    BY <1>5, <1>7
  <2>3. n + 5 \in DOMAIN C /\ n + 5 \in Nat
    BY <1>7
  <2> QED BY <2>1, <2>2, <2>3, OnlyFound
<1> QED BY <1>1, <1>3, <1>4, <1>8, <1>9, <1>10, <1>11, <1>12 DEF FILE_HEADER_PREFIX_SIZE

LEMMA PrefixFields ==
  ASSUME FileInv
  PROVE  /\ PrefixOf(source, Base).header_len = HeaderLen
         /\ PrefixOf(source, Base).schema_offset = SchemaOffset
         /\ PrefixOf(source, Base).index_offset = IndexOffset(source, Base)
         /\ HeaderLen \in Nat /\ SchemaOffset = 48 + HeaderLen /\ SchemaOffset \in Nat
         /\ SchemaBlock(source, Base).len \in Nat
         /\ SchemaOffset + SchemaBlock(source, Base).len <= IndexOffset(source, Base)
         /\ IndexOffset(source, Base) \in Nat /\ IndexLen(source) \in Nat
<1>1. /\ PrefixOf(source, Base).header_len = HeaderLen
      /\ PrefixOf(source, Base).schema_offset = SchemaOffset
      /\ PrefixOf(source, Base).index_offset = IndexOffset(source, Base)
  BY DEF PrefixOf, Prefix
<1>2. HeaderLen \in Nat /\ SchemaOffset = 48 + HeaderLen
  BY LengthsAssumption DEF SchemaOffset, FILE_HEADER_PREFIX_SIZE
<1>3. IndexLen(source) \in Nat /\ Len(source) \in Nat
  BY TargetIs, LenProperties DEF IndexLen
<1>4. IndexOffset(source, Base) = Actual(source, Base) + ChunkBytes(source, Len(source))
  BY TargetIs, ContainerPlaces, Zenon
<1>5. ChunkBytes(source, Len(source)) \in Nat
  <2>1. Len(source) \in 0 .. Len(source)
    BY <1>3
  <2> QED BY <2>1, TargetIs, ChunkBytesNat
<1>6. SchemaBlock(source, Base).len \in Nat
  BY TargetIs, SchemaSizes DEF SchemaBlock
<1>7. Actual(source, Base) = SchemaOffset + SchemaBlock(source, Base).len
  BY DEF Actual, SchemaBlock
<1> QED BY <1>1, <1>2, <1>3, <1>4, <1>5, <1>6, <1>7

LEMMA WholeOpens ==
  ASSUME FileInv, LayoutInv, complete
  PROVE  Opens(FileLen(file))
<1> DEFINE p == PrefixOf(source, Base)
           L == FileLen(file)
           f == Footer(IndexLen(source))
           o == IndexOffset(source, Base)
<1>1. /\ p.header_len = HeaderLen /\ p.schema_offset = SchemaOffset /\ p.index_offset = o
      /\ HeaderLen \in Nat /\ SchemaOffset = 48 + HeaderLen /\ o \in Nat /\ IndexLen(source) \in Nat
      /\ SchemaOffset <= o
  BY PrefixFields
<1>2. /\ f.index_len = IndexLen(source) /\ Metadata.len = HeaderLen
      /\ Index(source, Base).len = IndexLen(source)
  BY DEF Footer, Metadata, Index
<1>3. /\ p \in PrefixRead /\ Metadata \in BlockAt(file, FILE_HEADER_PREFIX_SIZE, "metadata")
      /\ f \in BlockAt(file, L - FOOTER_SIZE, "footer")
      /\ Index(source, Base) \in BlockAt(file, o, "index") /\ L = o + IndexLen(source) + 16
  BY WholeFile DEF PrefixRead
<1> HIDE DEF p, L, f, o
<1>4. Metadata \in MetadataRead(p, L)
  BY <1>1, <1>2, <1>3 DEF MetadataRead, FILE_HEADER_PREFIX_SIZE
<1>5. f \in FooterRead(p, L)
  BY <1>1, <1>2, <1>3 DEF FooterRead, FOOTER_SIZE
<1>6. Index(source, Base) \in IndexRead(p, f.index_len)
  BY <1>1, <1>2, <1>3 DEF IndexRead
<1> QED BY <1>3, <1>4, <1>5, <1>6 DEF Opens, L

\* Nothing less opens.
LEMMA OnlyWholeFromInv == FileInv /\ LayoutInv => OnlyWholeFilesOpen
<1> SUFFICES ASSUME FileInv, LayoutInv PROVE Opens(FileLen(file)) <=> complete
  BY DEF OnlyWholeFilesOpen
<1>1. ASSUME Opens(FileLen(file)) PROVE complete
  <2>1. PICK p \in PrefixRead : FooterRead(p, FileLen(file)) # {}
    BY <1>1 DEF Opens
  <2>2. PICK b \in BlockAt(file, FileLen(file) - FOOTER_SIZE, "footer") : TRUE
    BY <2>1 DEF FooterRead
  <2>3. FileLen(file) \in Nat
    BY FileSized
  <2> QED BY <2>2, <2>3, FooterFound
<1>2. complete => Opens(FileLen(file))
  BY WholeOpens
<1> QED BY <1>1, <1>2

-----------------------------------------------------------------------------
(***************************************************************************)
(* The writer implements NcfPublication.                                   *)
(***************************************************************************)
\* What schemas describe, wherever they say the chunks are.
Descriptions(tensorList) ==
  [i \in DOMAIN tensorList |->
     [name |-> tensorList[i].name, dtype |-> tensorList[i].dtype, elems |-> tensorList[i].elems,
      compression |-> tensorList[i].compression, checksum |-> Hash(tensorList[i].payload)]]

LEMMA DescribedIs ==
  ASSUME NEW tensorList, NEW base
  PROVE  Described(Schemas(tensorList, base)) = Descriptions(tensorList)
<1> DEFINE s == Schemas(tensorList, base)
<1>1. DOMAIN s = DOMAIN tensorList
  BY DEF Schemas
<1>2. \A i \in DOMAIN tensorList :
        /\ s[i].name = tensorList[i].name /\ s[i].dtype = tensorList[i].dtype
        /\ s[i].elems = tensorList[i].elems /\ s[i].compression = tensorList[i].compression
        /\ s[i].chunk.checksum = Hash(tensorList[i].payload)
  BY DEF Schemas, Chunk_ref
<1> HIDE DEF s
<1> DEFINE one(i) == [name |-> s[i].name, dtype |-> s[i].dtype, elems |-> s[i].elems,
                      compression |-> s[i].compression, checksum |-> s[i].chunk.checksum]
           other(i) == [name |-> tensorList[i].name, dtype |-> tensorList[i].dtype,
                        elems |-> tensorList[i].elems, compression |-> tensorList[i].compression,
                        checksum |-> Hash(tensorList[i].payload)]
<1>3. \A i \in DOMAIN tensorList : one(i) = other(i)
  BY <1>2
<1>4. Described(s) = [i \in DOMAIN s |-> one(i)]
  BY DEF Described
<1>5. Descriptions(tensorList) = [i \in DOMAIN tensorList |-> other(i)]
  BY DEF Descriptions
<1> HIDE DEF one, other
<1>6. [i \in DOMAIN s |-> one(i)] = [i \in DOMAIN tensorList |-> other(i)]
  BY <1>1, <1>3
<1> QED BY <1>4, <1>5, <1>6 DEF s

LEMMA ShownIs == FileInv /\ LayoutInv => Shown = IF complete THEN {Descriptions(source)} ELSE {}
<1> SUFFICES ASSUME FileInv, LayoutInv
             PROVE  Shown = IF complete THEN {Descriptions(source)} ELSE {}
  OBVIOUS
<1>1. CASE complete
  <2> DEFINE p == PrefixOf(source, Base)
             b == SchemaBlock(source, Base)
  <2>1. PrefixRead = {p} /\ BlockAt(file, SchemaOffset, "schemas") = {b}
    BY <1>1, WholeFile DEF PrefixRead
  <2>2. /\ p.schema_offset = SchemaOffset /\ p.index_offset = IndexOffset(source, Base)
        /\ SchemaOffset + b.len <= IndexOffset(source, Base)
    BY PrefixFields
  <2>3. Described(b.schemas) = Descriptions(source)
    BY DescribedIs DEF SchemaBlock
  <2> HIDE DEF p, b
  <2>4. SchemasRead(p) = {b}
    BY <2>1, <2>2 DEF SchemasRead
  <2>5. UNION {SchemasRead(q) : q \in PrefixRead} = {b}
    BY <2>1, <2>4
  <2>6. Shown = {Described(b.schemas)}
    <3>1. Opens(FileLen(file))
      BY <1>1, WholeOpens
    <3> QED BY <2>5, <3>1 DEF Shown
  <2> QED BY <1>1, <2>3, <2>6
<1>2. CASE ~complete
  <2>1. ~Opens(FileLen(file))
    BY <1>2, OnlyWholeFromInv DEF OnlyWholeFilesOpen
  <2> QED BY <1>2, <2>1 DEF Shown
<1> QED BY <1>1, <1>2

LEMMA InitPublication == WriterInit => Publication!Init
<1> SUFFICES ASSUME WriterInit PROVE Publication!Init
  OBVIOUS
<1>1. Shown = IF complete THEN {Descriptions(source)} ELSE {}
  BY InitFile, InitLayout, ShownIs
<1>2. \A one, other \in Shown : one = other
  BY <1>1
<1>3. Described(Schemas(tensors, 0)) = <<>>
  <2>1. Descriptions(<<>>) = <<>>
    BY DEF Descriptions
  <2>2. Described(Schemas(tensors, 0)) = Descriptions(tensors)
    BY DescribedIs
  <2> QED BY <2>1, <2>2 DEF WriterInit
<1> QED BY <1>2, <1>3 DEF Publication!Init

\* Each step of the writer is one of the publication, or none.
LEMMA WriterPublishes ==
  ASSUME FileInv, LayoutInv, Writer, FileInv', LayoutInv'
  PROVE  \/ Publication!Renew \/ Publication!Add
         \/ Publication!Vanish \/ Publication!Publish
         \/ UNCHANGED <<Described(Schemas(tensors, 0)), Shown>>
<1>1. /\ Shown = IF complete THEN {Descriptions(source)} ELSE {}
      /\ Shown' = IF complete' THEN {Descriptions(source')} ELSE {}
  <2>1. (FileInv /\ LayoutInv => Shown = IF complete THEN {Descriptions(source)} ELSE {})'
    BY ShownIs, PTL
  <2> QED BY <2>1, ShownIs
<1>2. /\ Described(Schemas(tensors, 0)) = Descriptions(tensors)
      /\ Described(Schemas(tensors, 0))' = Descriptions(tensors')
  BY DescribedIs
<1>3. CASE Add_tensor
  <2>1. PICK t \in Tensor : tensors' = Append(tensors, t)
    BY <1>3, FoundAssumption DEF Add_tensor
  <2>2. UNCHANGED <<source, complete>>
    BY <1>3 DEF Add_tensor
  <2>3. Shown' = Shown
    BY <1>1, <2>2
  <2> DEFINE n == Len(tensors)
             a == Descriptions(tensors)
             b == Descriptions(tensors')
  <2>4. /\ n \in Nat /\ DOMAIN tensors = 1 .. n /\ DOMAIN tensors' = 1 .. n + 1
        /\ \A i \in 1 .. n : tensors'[i] = tensors[i]
    BY <2>1, LenProperties DEF FileInv
  <2>5. DOMAIN a = 1 .. n /\ DOMAIN b = 1 .. n + 1
    BY <2>4 DEF Descriptions
  <2>6. \A i \in 1 .. n : b[i] = a[i]
    BY <2>4 DEF Descriptions
  <2> HIDE DEF n
  <2>7. Len(a) = n /\ Len(b) = n + 1 /\ a = [i \in 1 .. n |-> a[i]]
    <3>1. a = [i \in DOMAIN a |-> a[i]]
      BY DEF Descriptions
    <3> QED BY <2>4, <2>5, <3>1
  <2> HIDE DEF a, b
  <2>8. SubSeq(b, 1, Len(a)) = a
    <3>1. SubSeq(b, 1, n) = [i \in 1 .. n |-> b[i]]
      BY <2>4
    <3> QED BY <2>6, <2>7, <3>1
  <2> QED BY <1>2, <2>3, <2>7, <2>8 DEF Publication!Add, a, b
<1>4. CASE Finalize
  <2>1. complete' = FALSE /\ UNCHANGED tensors
    BY <1>4 DEF Finalize
  <2> QED BY <1>1, <1>2, <2>1 DEF Publication!Vanish
<1>5. CASE Write_block
  <2>1. ~complete /\ source = tensors /\ UNCHANGED <<tensors, source>>
    BY <1>5 DEF Write_block, LayoutInv
  <2>2. CASE complete'
    <3>1. Shown = {} /\ Shown' = {Descriptions(tensors)}
      BY <1>1, <2>1, <2>2
    <3> QED BY <1>2, <2>1, <3>1 DEF Publication!Publish
  <2>3. CASE ~complete'
    BY <1>1, <1>2, <2>1, <2>3
  <2> QED BY <2>2, <2>3
<1>6. CASE Write_fails
  BY <1>1, <1>2, <1>6 DEF Write_fails
<1>7. CASE New_writer
  <2>1. Shown' = Shown
    BY <1>1, <1>7 DEF New_writer
  <2>2. Descriptions(tensors') = <<>>
    BY <1>7 DEF New_writer, Descriptions
  <2> QED BY <1>2, <2>1, <2>2 DEF Publication!Renew
<1> QED BY <1>3, <1>4, <1>5, <1>6, <1>7 DEF Writer

-----------------------------------------------------------------------------
(***************************************************************************)
(* What a reader holds that mapped the present file.                       *)
(***************************************************************************)
ViewInv(pc, limit, prefix, index, schemas, seen) ==
  /\ pc # "none" => limit \in Nat /\ seen \in Nat /\ seen <= version
  /\ pc # "none" /\ seen = version =>
       /\ pc # "mapped" => prefix = PrefixOf(source, Base)
       /\ pc \in {"footer", "open", "decoded", "broken"} => complete /\ limit = FileLen(file)
       /\ pc \in {"open", "decoded", "broken"} => index = Index(source, Base)
       /\ pc = "decoded" => schemas = Schemas(source, Base)

ReaderView == ViewInv(rpc, rlimit, rprefix, rindex, rschemas, rversion)

LEMMA InitView == ReaderInit => ReaderView
BY DEF ReaderInit, ReaderView, ViewInv

\* The writer creates the file anew or leaves a whole one alone.
LEMMA WriterLeavesWhole ==
  ASSUME LayoutInv, Writer
  PROVE  \/ version' = version + 1
         \/ UNCHANGED <<version, source>> /\ (complete => complete' /\ file' = file)
<1>1. CASE New_writer \/ Add_tensor
  BY <1>1 DEF New_writer, Add_tensor
<1>2. CASE Finalize
  BY <1>2 DEF Finalize
<1>3. CASE Write_block \/ Write_fails
  <2>1. ~complete
    BY <1>3 DEF LayoutInv, Write_block, Write_fails
  <2> QED BY <1>3, <2>1 DEF Write_block, Write_fails
<1> QED BY <1>1, <1>2, <1>3 DEF Writer

LEMMA ViewBesideWriter ==
  ASSUME LayoutInv, ReaderView, Writer, UNCHANGED readerVars
  PROVE  ReaderView'
<1>1. UNCHANGED <<rpc, rlimit, rprefix, rindex, rschemas, rversion>>
  BY DEF readerVars
<1>2. version \in Nat
  BY DEF LayoutInv
<1>3. CASE version' = version + 1
  <2>1. rpc # "none" => rlimit \in Nat /\ rversion \in Nat /\ rversion <= version' /\ rversion # version'
    BY <1>2, <1>3 DEF ReaderView, ViewInv
  <2> QED BY <1>1, <2>1 DEF ReaderView, ViewInv
<1>4. CASE UNCHANGED <<version, source>> /\ (complete => complete' /\ file' = file)
  <2>1. Base' = Base /\ version' = version /\ source' = source
    BY <1>4 DEF Base
  <2> QED BY <1>1, <1>4, <2>1 DEF ReaderView, ViewInv
<1> QED BY <1>3, <1>4, WriterLeavesWhole

LEMMA ViewKept ==
  ASSUME ReaderView, UNCHANGED writerVars, UNCHANGED readerVars
  PROVE  ReaderView'
BY DEF ReaderView, ViewInv, Base, writerVars, readerVars

\* Each step of open and the decoding of the schemas.
LEMMA ViewStep ==
  ASSUME FileInv, LayoutInv, ReaderView, Reader, UNCHANGED writerVars
  PROVE  ReaderView'
<1>1. UNCHANGED <<file, source, complete, version>> /\ Base' = Base
  BY DEF writerVars, Base
<1>2. CASE Reader_map
  <2>1. FileLen(file) \in Nat /\ version \in Nat
    BY FileSized DEF LayoutInv
  <2>2. rpc' = "mapped" /\ rlimit' = FileLen(file) /\ rversion' = version
    BY <1>2 DEF Reader_map
  <2>3. version <= version
    BY <2>1
  <2> QED BY <1>1, <2>1, <2>2, <2>3 DEF ReaderView, ViewInv
<1>3. CASE Reader_prefix
  <2>1. rprefix' = PrefixOf(source, Base)
    BY <1>3, PrefixFound DEF Reader_prefix, PrefixRead
  <2> QED BY <1>1, <1>3, <2>1 DEF Reader_prefix, ReaderView, ViewInv
<1>4. CASE Reader_metadata
  BY <1>1, <1>4 DEF Reader_metadata, ReaderView, ViewInv
<1>5. CASE Reader_footer
  <2>1. rlimit \in Nat
    BY <1>5 DEF Reader_footer, ReaderView, ViewInv
  <2>2. PICK f \in BlockAt(file, rlimit - FOOTER_SIZE, "footer") : TRUE
    BY <1>5 DEF Reader_footer, FooterRead
  <2>3. complete /\ rlimit = FileLen(file)
    BY <2>1, <2>2, FooterFound
  <2> QED BY <1>1, <1>5, <2>3 DEF Reader_footer, ReaderView, ViewInv
<1>6. CASE Reader_index
  <2>1. rindex' = Index(source, Base)
    BY <1>6, IndexFound DEF Reader_index, IndexRead
  <2> QED BY <1>1, <1>6, <2>1 DEF Reader_index, ReaderView, ViewInv
<1>7. CASE Reader_rejects \/ Reader_drop
  BY <1>7 DEF Reader_rejects, Reader_drop, Reader_closed, ReaderView, ViewInv
<1>8. CASE Reader_schemas
  <2>1. rpc' = "decoded" => rschemas' = Schemas(source, Base)
    <3>1. \A b \in SchemasRead(rprefix) : b.schemas = Schemas(source, Base)
      BY SchemasFound DEF SchemasRead
    <3> QED BY <1>8, <3>1 DEF Reader_schemas
  <2>2. rpc = "open" /\ rpc' \in {"decoded", "broken"}
        /\ UNCHANGED <<rlimit, rprefix, rindex, rversion>>
    BY <1>8 DEF Reader_schemas
  <2> QED BY <1>1, <2>1, <2>2 DEF ReaderView, ViewInv
<1> QED BY <1>2, <1>3, <1>4, <1>5, <1>6, <1>7, <1>8 DEF Reader, Reader_open

-----------------------------------------------------------------------------
(***************************************************************************)
(* Lookups of a tensor in the present file.                                *)
(***************************************************************************)
\* The schemas and the index name a place that is not behind that of the chunks.
LEMMA BaseIsLow ==
  ASSUME FileInv, LayoutInv, complete
  PROVE  Base \in Nat /\ Base <= Actual(source, Base)
<1>1. source \in Seq(Tensor)
  BY DEF FileInv
<1>2. CASE version = 0
  <2>1. source \in Found
    BY <1>2 DEF LayoutInv
  <2>2. Base = Actual(source, Base)
    BY <1>2, <2>1, ExactAssumption DEF Base, Actual
  <2>3. Actual(source, Base) \in Nat
    BY TargetIs, ContainerPlaces, Zenon
  <2> QED BY <2>2, <2>3
<1>3. CASE version # 0
  <2>1. Base = EstimatedBase(source)
    BY <1>3 DEF Base
  <2>2. EstimatedBase(source) \in Nat /\ EstimatedBase(source) <= Actual(source, Base)
    BY <1>1, SchemaSizes DEF Actual
  <2> QED BY <2>1, <2>2
<1> QED BY <1>2, <1>3

\* A chunk that is referred to ends before the index.
LEMMA RefInFile ==
  ASSUME FileInv, LayoutInv, complete, NEW i \in DOMAIN source
  PROVE  LET ref == Chunk_ref(source, Base, i)
         IN  /\ ref.byte_offset \in Nat /\ ref.byte_len \in Nat /\ ref.byte_len >= 62
             /\ ref.byte_len = ChunkTotalLen(source[i])
             /\ ref.byte_len = PackedLen(source[i]) + 62
             /\ ref.byte_offset + ref.byte_len <= FileLen(file)
<1> DEFINE n == Len(source)
           o == Base + ChunkBytes(source, i - 1)
           l == ChunkTotalLen(source[i])
           a == Actual(source, Base)
<1>1. source \in Seq(Tensor) /\ source[i] \in Tensor /\ n \in Nat /\ DOMAIN source = 1 .. n
  BY LenProperties DEF FileInv
<1>2. Chunk_ref(source, Base, i).byte_offset = o /\ Chunk_ref(source, Base, i).byte_len = l
  BY DEF Chunk_ref
<1>3. l \in Nat /\ l = PackedLen(source[i]) + 62 /\ PackedLen(source[i]) \in Nat
  BY <1>1, TensorSizes
<1>4. /\ ChunkBytes(source, i - 1) \in Nat
      /\ ChunkBytes(source, i) = ChunkBytes(source, i - 1) + l
  BY <1>1, ChunkBytesNext
<1>5. Base \in Nat /\ Base <= a
  BY BaseIsLow
<1>6. \A j \in 0 .. n : ChunkBytes(source, j) \in Nat
  BY <1>1, ChunkBytesNat
<1>7. ChunkBytes(source, i) <= ChunkBytes(source, n)
  <2>1. i \in 0 .. n /\ n \in i .. n
    BY <1>1
  <2> QED BY <1>1, <2>1, ChunkBytesGrow
<1>8. /\ FileLen(file) = IndexOffset(source, Base) + IndexLen(source) + 16
      /\ IndexLen(source) \in Nat
  BY WholeFile, PrefixFields
<1>9. IndexOffset(source, Base) = a + ChunkBytes(source, n) /\ a \in Nat
  BY TargetIs, ContainerPlaces, Zenon
<1>10. ChunkBytes(source, n) \in Nat
  BY <1>1, <1>6
<1> DEFINE c == ChunkBytes(source, i - 1)
           e == ChunkBytes(source, n)
           x == IndexLen(source)
<1>11. /\ c \in Nat /\ e \in Nat /\ x \in Nat /\ l \in Nat /\ a \in Nat /\ c + l <= e
       /\ FileLen(file) = (a + e) + x + 16
  BY <1>3, <1>4, <1>7, <1>8, <1>9, <1>10
<1>12. o = Base + c
  OBVIOUS
<1> HIDE DEF c, e, x, l, a, o
<1>13. o \in Nat /\ o + l <= FileLen(file)
  BY <1>5, <1>11, <1>12
<1>14. l >= 62
  BY <1>3
<1> QED BY <1>2, <1>3, <1>13, <1>14 DEF l

\* The last tensor of a name.
NamesOf(tensorList) == {tensorList[i].name : i \in DOMAIN tensorList}

LEMMA LastIs ==
  ASSUME NEW tensorList \in Seq(Tensor), NEW name \in NamesOf(tensorList)
  PROVE  /\ LastOf(tensorList, name) \in DOMAIN tensorList
         /\ tensorList[LastOf(tensorList, name)].name = name
<1> DEFINE same == {j \in DOMAIN tensorList : tensorList[j].name = name}
<1>1. PICK i \in DOMAIN tensorList : tensorList[i].name = name
  BY DEF NamesOf
<1>2. same \subseteq Nat /\ i \in same /\ Len(tensorList) \in Nat /\ \A j \in same : j <= Len(tensorList)
  BY <1>1, LenProperties
<1>3. Max(same) \in same
  <2> HIDE DEF same
  <2>1. same # {}
    BY <1>2
  <2> QED BY <1>2, <2>1, MaxNat
<1> QED BY <1>3 DEF LastOf

\* What the index says of a name is what the schema of that name says.
LEMMA EntryOfName ==
  ASSUME NEW tensorList \in Seq(Tensor), NEW base, NEW name \in NamesOf(tensorList)
  PROVE  LET index == Index(tensorList, base)
             ref == Chunk_ref(tensorList, base, LastOf(tensorList, name))
         IN  /\ DOMAIN index.tensor_map = NamesOf(tensorList)
             /\ index.chunk_map[index.tensor_map[name]]
                  = [byte_offset |-> ref.byte_offset, byte_len |-> ref.byte_len]
<1> DEFINE last == LastOf(tensorList, name)
           index == Index(tensorList, base)
           n == Len(tensorList)
<1>1. n \in Nat /\ last \in 1 .. n
  BY LastIs, LenProperties
<1>2. DOMAIN index.tensor_map = NamesOf(tensorList) /\ index.tensor_map[name] = last - 1
  BY DEF Index, Tensor_map, NamesOf
<1> HIDE DEF last
<1>3. last - 1 \in 0 .. n - 1 /\ (last - 1) + 1 = last
  BY <1>1
<1>4. index.chunk_map[last - 1] = [byte_offset |-> Chunk_ref(tensorList, base, last).byte_offset,
                                   byte_len |-> ChunkTotalLen(tensorList[last])]
  BY <1>3 DEF Index
<1>5. Chunk_ref(tensorList, base, last).byte_len = ChunkTotalLen(tensorList[last])
  BY DEF Chunk_ref
<1> QED BY <1>2, <1>4, <1>5 DEF last

\* The slice that a reader of any kind hands out.
SliceIn(index, limit, name) ==
  {[from |-> e.byte_offset + CHUNK_HEADER_SIZE, len |-> e.byte_len - CHUNK_OVERHEAD] :
     e \in {e \in {index.chunk_map[id] : id \in {index.tensor_map[name]}} :
              /\ e.byte_len >= CHUNK_OVERHEAD
              /\ e.byte_offset + e.byte_len - CHUNK_CHECKSUM_SIZE <= limit}}

LEMMA SliceOfName ==
  ASSUME FileInv, LayoutInv, complete, NEW name \in NamesOf(source)
  PROVE  LET ref == Chunk_ref(source, Base, LastOf(source, name))
         IN  SliceIn(Index(source, Base), FileLen(file), name)
               = {[from |-> ref.byte_offset + CHUNK_HEADER_SIZE, len |-> ref.byte_len - CHUNK_OVERHEAD]}
<1> DEFINE last == LastOf(source, name)
           ref == Chunk_ref(source, Base, last)
           e == [byte_offset |-> ref.byte_offset, byte_len |-> ref.byte_len]
           index == Index(source, Base)
           L == FileLen(file)
<1>1. source \in Seq(Tensor)
  BY DEF FileInv
<1>2. last \in DOMAIN source
  BY <1>1, LastIs
<1>3. /\ ref.byte_offset \in Nat /\ ref.byte_len \in Nat /\ ref.byte_len >= 62
      /\ ref.byte_offset + ref.byte_len <= L
  <2> HIDE DEF last
  <2> QED BY <1>2, RefInFile
<1>4. index.chunk_map[index.tensor_map[name]] = e
  BY <1>1, EntryOfName
<1>5. L \in Nat
  BY FileSized
<1>6. e.byte_offset = ref.byte_offset /\ e.byte_len = ref.byte_len
  OBVIOUS
<1> HIDE DEF last, ref, e, index, L
<1>7. e.byte_len >= CHUNK_OVERHEAD /\ e.byte_offset + e.byte_len - CHUNK_CHECKSUM_SIZE <= L
  BY <1>3, <1>5, <1>6 DEF CHUNK_OVERHEAD, CHUNK_HEADER_SIZE, CHUNK_CHECKSUM_SIZE
<1>8. {x \in {index.chunk_map[id] : id \in {index.tensor_map[name]}} :
         /\ x.byte_len >= CHUNK_OVERHEAD
         /\ x.byte_offset + x.byte_len - CHUNK_CHECKSUM_SIZE <= L} = {e}
  BY <1>4, <1>7
<1>9. SliceIn(index, L, name)
        = {[from |-> e.byte_offset + CHUNK_HEADER_SIZE, len |-> e.byte_len - CHUNK_OVERHEAD]}
  BY <1>8 DEF SliceIn
<1> QED BY <1>6, <1>9 DEF last, ref, index, L

\* The schema of a name among those of a container.
LEMMA SchemaOfName ==
  ASSUME NEW tensorList \in Seq(Tensor), NEW base, rschemas = Schemas(tensorList, base)
  PROVE  /\ SchemaNames = NamesOf(tensorList)
         /\ \A name \in NamesOf(tensorList) :
              LET last == LastOf(tensorList, name)
              IN  /\ Find_schema(name).chunk = Chunk_ref(tensorList, base, last)
                  /\ Find_schema(name).compression = tensorList[last].compression
<1>1. /\ DOMAIN rschemas = DOMAIN tensorList
      /\ \A j \in DOMAIN tensorList : /\ rschemas[j].name = tensorList[j].name
                                      /\ rschemas[j].compression = tensorList[j].compression
                                      /\ rschemas[j].chunk = Chunk_ref(tensorList, base, j)
  BY DEF Schemas
<1>2. SchemaNames = NamesOf(tensorList)
  BY <1>1 DEF SchemaNames, NamesOf
<1>3. ASSUME NEW name \in NamesOf(tensorList)
      PROVE  Find_schema(name) = rschemas[LastOf(tensorList, name)]
  <2>1. {j \in DOMAIN rschemas : rschemas[j].name = name}
          = {j \in DOMAIN tensorList : tensorList[j].name = name}
    BY <1>1
  <2> QED BY <2>1 DEF Find_schema, LastOf
<1>4. \A name \in NamesOf(tensorList) : LastOf(tensorList, name) \in DOMAIN tensorList
  BY LastIs
<1> QED BY <1>1, <1>2, <1>3, <1>4

LEMMA LookupsFromInv == FileInv /\ LayoutInv /\ ReaderView => LookupsAgree
<1> SUFFICES ASSUME FileInv, LayoutInv, ReaderView, Decoded, rversion = version
             PROVE  /\ DOMAIN rindex.tensor_map = SchemaNames
                    /\ \A name \in SchemaNames :
                         LET ref == Find_schema(name).chunk
                         IN  Tensor_slice(name) = {[from |-> ref.byte_offset + CHUNK_HEADER_SIZE,
                                                    len |-> ref.byte_len - CHUNK_OVERHEAD]}
  BY DEF LookupsAgree
<1>1. /\ complete /\ rlimit = FileLen(file) /\ rindex = Index(source, Base)
      /\ rschemas = Schemas(source, Base)
  BY DEF ReaderView, ViewInv, Decoded
<1>2. source \in Seq(Tensor)
  BY DEF FileInv
<1>3. /\ SchemaNames = NamesOf(source)
      /\ \A name \in NamesOf(source) : Find_schema(name).chunk = Chunk_ref(source, Base, LastOf(source, name))
  BY <1>1, <1>2, SchemaOfName
<1>4. DOMAIN rindex.tensor_map = NamesOf(source)
  BY <1>1 DEF Index, Tensor_map, NamesOf
<1>5. \A name \in NamesOf(source) : Tensor_slice(name) = SliceIn(Index(source, Base), FileLen(file), name)
  BY <1>1 DEF Tensor_slice, SliceIn
<1>6. ASSUME NEW name \in NamesOf(source)
      PROVE  LET ref == Find_schema(name).chunk
             IN  Tensor_slice(name) = {[from |-> ref.byte_offset + CHUNK_HEADER_SIZE,
                                        len |-> ref.byte_len - CHUNK_OVERHEAD]}
  BY <1>1, <1>3, <1>5, SliceOfName
<1> QED BY <1>3, <1>4, <1>6

-----------------------------------------------------------------------------
(***************************************************************************)
(* The chunks of a container of exact offsets.                             *)
(***************************************************************************)
LEMMA ChunkFound ==
  ASSUME FileInv, LayoutInv, complete, version = 0, NEW i \in DOMAIN source
  PROVE  /\ i + 3 \in DOMAIN file /\ file[i + 3] = Chunk(source[i], i - 1)
         /\ Start(file, i + 3) = Chunk_ref(source, Base, i).byte_offset
         /\ BlockAt(file, Chunk_ref(source, Base, i).byte_offset, "chunk") = {Chunk(source[i], i - 1)}
<1> DEFINE n == Len(source)
           C == Container(source, Base)
           a == Actual(source, Base)
<1>1. source \in Seq(Tensor) /\ n \in Nat /\ DOMAIN source = 1 .. n /\ i \in Nat
  BY LenProperties DEF FileInv
<1>2. file = C
  BY DEF LayoutInv, Target
<1>3. Base = a /\ a \in Nat
  <2>1. source \in Found
    BY DEF LayoutInv
  <2>2. Base = a
    BY <2>1, ExactAssumption DEF Base, Actual
  <2>3. a \in Nat
    BY TargetIs, ContainerPlaces, Zenon
  <2> QED BY <2>2, <2>3
<1>4. DOMAIN C = 1 .. n + 5 /\ \A j \in DOMAIN source : C[j + 3] = Chunk(source[j], j - 1)
  BY TargetIs, ContainerIs
<1>5. \A j \in 0 .. n : Start(C, j + 4) = a + ChunkBytes(source, j)
  BY TargetIs, ContainerPlaces, Zenon
<1>6. \A j \in DOMAIN C : C[j].kind = "chunk" => j - 3 \in 1 .. n
  BY <1>1, TargetIs, ContainerKinds
<1>7. Chunk_ref(source, Base, i).byte_offset = a + ChunkBytes(source, i - 1)
  BY <1>3 DEF Chunk_ref
<1>8. \A j \in 1 .. n : Start(C, j + 3) = a + ChunkBytes(source, j - 1)
  <2> TAKE j \in 1 .. n
  <2>1. j - 1 \in 0 .. n /\ (j - 1) + 4 = j + 3
    BY <1>1
  <2> QED BY <1>5, <2>1
<1> HIDE DEF C, a, n
<1>9. \A j \in 1 .. n : ChunkBytes(source, j - 1) \in Nat
  BY <1>1, ChunkBytesNext
<1>10. \A j, k \in 1 .. n : j < k => ChunkBytes(source, j - 1) < ChunkBytes(source, k - 1)
  <2> TAKE j, k \in 1 .. n
  <2> SUFFICES ASSUME j < k PROVE ChunkBytes(source, j - 1) < ChunkBytes(source, k - 1)
    OBVIOUS
  <2>1. j - 1 \in 0 .. Len(source) /\ k - 1 \in (j - 1) .. Len(source) /\ j - 1 < k - 1
    BY <1>1 DEF n
  <2> QED BY <1>1, <2>1, ChunkBytesGrow
<1>11. \A j \in 1 .. n : Start(C, j + 3) = Start(C, i + 3) => j = i
  <2> TAKE j \in 1 .. n
  <2> SUFFICES ASSUME Start(C, j + 3) = Start(C, i + 3) PROVE j = i
    OBVIOUS
  <2>1. i \in 1 .. n
    BY <1>1
  <2>2. a + ChunkBytes(source, j - 1) = a + ChunkBytes(source, i - 1)
    BY <1>8, <2>1
  <2>3. ChunkBytes(source, j - 1) \in Nat /\ ChunkBytes(source, i - 1) \in Nat
    BY <1>9, <2>1
  <2>4. ChunkBytes(source, j - 1) = ChunkBytes(source, i - 1)
    BY <1>3, <2>2, <2>3
  <2>5. ~(j < i) /\ ~(i < j)
    BY <1>10, <2>1, <2>3, <2>4
  <2> QED BY <1>1, <2>1, <2>5
<1>12. /\ i + 3 \in DOMAIN C /\ i + 3 \in Nat /\ C[i + 3] = Chunk(source[i], i - 1)
       /\ C[i + 3].kind = "chunk"
  BY <1>1, <1>4 DEF Chunk
<1>13. Start(C, i + 3) = Chunk_ref(source, Base, i).byte_offset
  BY <1>1, <1>7, <1>8
<1>14. \A k \in DOMAIN C : C[k].kind = "chunk" /\ Start(C, k) = Start(C, i + 3) => k = i + 3
  <2> TAKE k \in DOMAIN C
  <2> SUFFICES ASSUME C[k].kind = "chunk", Start(C, k) = Start(C, i + 3) PROVE k = i + 3
    OBVIOUS
  <2>1. k - 3 \in 1 .. n /\ k \in Int /\ (k - 3) + 3 = k
    BY <1>1, <1>4, <1>6
  <2>2. k - 3 = i
    BY <1>11, <2>1
  <2> QED BY <2>1, <2>2
<1> DEFINE h == i + 3
<1>15. /\ h \in DOMAIN C /\ h \in Nat /\ C[h].kind = "chunk"
       /\ \A k \in DOMAIN C : C[k].kind = "chunk" /\ Start(C, k) = Start(C, h) => k = h
  BY <1>12, <1>14
<1> HIDE DEF h
<1>16. BlockAt(C, Start(C, h), "chunk") = {C[h]}
  BY <1>15, OneFound
<1> QED BY <1>2, <1>12, <1>13, <1>16 DEF h

LEMMA ChunkFields ==
  ASSUME NEW t \in Tensor, NEW id
  PROVE  LET c == Chunk(t, id)
         IN  /\ c.chunk_id = id /\ c.flags = Flags(t) /\ c.uncompressed_len = t.payload.len
             /\ c.compressed_len = PackedLen(t) /\ c.checksum = Hash(t.payload)
             /\ c.data = [payload |-> t.payload, compression |-> t.compression]
BY DEF Chunk, Packed

\* Data is flagged, or not compressed, if and only if the flag of its chunk tells which.
LEMMA FlagsOfSound ==
  ASSUME NEW t \in Tensor
  PROVE  /\ (Flags(t) = 0) <=> ~(Flags(t) = 1)
         /\ t.compression = "None" => Flags(t) = 0
         /\ ((Flags(t) = 0) <=> (t.compression = "None")) <=> (t.compression = "None" \/ Flags(t) = 1)
<1>1. t.compression = "None" => PackedLen(t) = t.payload.len
  BY DEF PackedLen
<1>2. Flags(t) = 0 \/ Flags(t) = 1
  BY DEF Flags
<1>3. t.compression = "None" => Flags(t) = 0
  BY <1>1 DEF Flags
<1> QED BY <1>2, <1>3

\* What was compressed decompresses to what was added.
LEMMA UnpacksAgain ==
  ASSUME NEW payload, NEW compression \in Compressions
  PROVE  Decompress([payload |-> payload, compression |-> compression], compression)
           = {[payload |-> payload, compression |-> "None"]}
BY DEF Decompress, Compressions

LEMMA RefusesFromInv == FileInv /\ LayoutInv /\ ReaderView => RefusesOnlyUnflagged
<1> SUFFICES ASSUME FileInv, LayoutInv, ReaderView, Decoded, version = 0, NEW name \in SchemaNames
             PROVE  LET t == source[LastOf(source, name)]
                        sound == t.compression = "None" \/ Flags(t) = 1
                    IN  (Verify_tensor(name) <=> sound) /\ (Read_tensor(name) # {} <=> sound)
  BY DEF RefusesOnlyUnflagged
<1>1. /\ complete /\ rlimit = FileLen(file) /\ rschemas = Schemas(source, Base)
  BY DEF ReaderView, ViewInv, Decoded
<1>2. source \in Seq(Tensor)
  BY DEF FileInv
<1> DEFINE last == LastOf(source, name)
           t == source[last]
           s == Find_schema(name)
           ref == Chunk_ref(source, Base, last)
           c == Chunk(t, last - 1)
           d == [payload |-> t.payload, compression |-> "None"]
           sound == t.compression = "None" \/ Flags(t) = 1
<1>3. name \in NamesOf(source) /\ s.chunk = ref /\ s.compression = t.compression
  BY <1>1, <1>2, SchemaOfName
<1>4. last \in DOMAIN source /\ t \in Tensor
  BY <1>2, <1>3, LastIs
<1>5. BlockAt(file, ref.byte_offset, "chunk") = {c}
  <2> HIDE DEF last
  <2> QED BY <1>1, <1>4, ChunkFound
<1>6. /\ ref.byte_offset \in Nat /\ ref.byte_len \in Nat /\ ref.byte_len >= 62
      /\ ref.byte_len = PackedLen(t) + 62 /\ ref.byte_offset + ref.byte_len <= rlimit
  <2> HIDE DEF last
  <2> QED BY <1>1, <1>4, RefInFile
<1>7. /\ ref.chunk_id = last - 1 /\ ref.uncompressed_len = t.payload.len
      /\ ref.checksum = Hash(t.payload)
  BY DEF Chunk_ref
<1>8. /\ c.chunk_id = last - 1 /\ c.flags = Flags(t) /\ c.uncompressed_len = t.payload.len
      /\ c.compressed_len = PackedLen(t) /\ c.checksum = Hash(t.payload)
      /\ c.data = [payload |-> t.payload, compression |-> t.compression]
  <2> HIDE DEF last, t
  <2> QED BY <1>4, ChunkFields
<1>9. Decompress(c.data, t.compression) = {d}
  <2>1. t.compression \in Compressions
    BY <1>4 DEF Tensor
  <2> QED BY <1>8, <2>1, UnpacksAgain
<1>10. PackedLen(d) = t.payload.len /\ d.compression = "None" /\ d.payload = t.payload
  BY DEF PackedLen
<1>11. ((Flags(t) = 0) <=> (t.compression = "None")) <=> sound
  BY <1>4, FlagsOfSound
<1>12. rlimit \in Nat /\ PackedLen(t) \in Nat
  BY <1>1, <1>4, FileSized, TensorSizes
<1> HIDE DEF last, t, s, ref, c, d, sound
<1>13. ChunkHeaderAt(ref) = {c}
  <2>1. ref.byte_offset + CHUNK_HEADER_SIZE <= rlimit
    BY <1>6, <1>12 DEF CHUNK_HEADER_SIZE
  <2> QED BY <1>5, <2>1 DEF ChunkHeaderAt
<1>14. PayloadFits(c, ref)
  <2>1. ref.byte_len >= CHUNK_OVERHEAD /\ c.compressed_len = ref.byte_len - CHUNK_OVERHEAD
    BY <1>6, <1>8, <1>12 DEF CHUNK_OVERHEAD, CHUNK_HEADER_SIZE, CHUNK_CHECKSUM_SIZE
  <2>2. ref.byte_offset + ref.byte_len - CHUNK_CHECKSUM_SIZE <= rlimit
    BY <1>6, <1>12 DEF CHUNK_CHECKSUM_SIZE
  <2> QED BY <2>1, <2>2 DEF PayloadFits, PayloadLenAgrees
<1>15. FlagsAgree(c, t.compression) <=> sound
  BY <1>8, <1>11 DEF FlagsAgree
<1>16. ChecksumsAgree(c, ref, d)
  BY <1>7, <1>8, <1>10 DEF ChecksumsAgree
<1>17. Verify_tensor(name) <=> sound
  <2>1. Verify_tensor(name) <=>
          \E x \in {c} :
            /\ x.chunk_id = ref.chunk_id /\ FlagsAgree(x, t.compression)
            /\ PayloadFits(x, ref) /\ ref.byte_offset + ref.byte_len <= rlimit
            /\ \E y \in Decompress(x.data, t.compression) :
                 /\ PackedLen(y) = ref.uncompressed_len
                 /\ x.uncompressed_len = ref.uncompressed_len
                 /\ ChecksumsAgree(x, ref, y)
    BY <1>3, <1>13 DEF Verify_tensor, s
  <2>2. Verify_tensor(name) <=> FlagsAgree(c, t.compression)
    BY <1>6, <1>7, <1>8, <1>9, <1>10, <1>14, <1>16, <2>1
  <2> QED BY <1>15, <2>2
<1>18. Read_tensor(name) # {} <=> sound
  <2> DEFINE readable == {x \in {c} : FlagsAgree(x, t.compression) /\ PayloadFits(x, ref)}
  <2>1. Read_tensor(name)
          = UNION {{y \in Decompress(x.data, t.compression) : PackedLen(y) = x.uncompressed_len} : x \in readable}
    BY <1>3, <1>13 DEF Read_tensor, s
  <2>2. CASE sound
    <3>1. readable = {c}
      BY <1>14, <1>15, <2>2
    <3>2. d \in Read_tensor(name)
      <4> HIDE DEF readable
      <4> QED BY <1>8, <1>9, <1>10, <2>1, <3>1
    <3> QED BY <2>2, <3>2
  <2>3. CASE ~sound
    <3>1. readable = {}
      BY <1>15, <2>3
    <3>2. Read_tensor(name) = {}
      <4> HIDE DEF readable
      <4> QED BY <2>1, <3>1
    <3> QED BY <2>3, <3>2
  <2> QED BY <2>2, <2>3
<1> QED BY <1>17, <1>18 DEF sound, t, last
=============================================================================
