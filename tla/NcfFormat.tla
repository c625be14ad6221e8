----------------------------- MODULE NcfFormat -----------------------------
(***************************************************************************)
(* The container format of ncf-io: how NcfWriter lays a container out and  *)
(* how a block is found at a file offset.                                  *)
(*                                                                         *)
(* A file is a sequence of blocks; len is the size of a block in bytes, so *)
(* offsets and sizes are those of the code.  Bytes inside a block never    *)
(* look like the start of another one (no payload spells a magic number).  *)
(* A payload is a record: its identity, its length, its length after       *)
(* compression, and the number of bytes of its hash that CBOR encodes in   *)
(* two bytes (those above 23).  The one compression stands for all of      *)
(* them; of a shape, only the number of elements is kept.                  *)
(*                                                                         *)
(* A definition whose comment begins with "Fault:" is what a slip in the   *)
(* definition after it would make of it; nothing uses it.                  *)
(***************************************************************************)
EXTENDS Integers, Sequences, FiniteSetsExt

CONSTANTS
  Names,       \* tensor names
  Payloads,    \* payloads of tensors
  HeaderLen,   \* length of the metadata
  SchemaLen    \* length of a tensor's schema without the numbers of its ChunkRef

Compressions == {"None", "Zstd"}
DTypes == {"F64", "F32", "F16", "BF16", "I32", "I16", "I8", "U8", "Q4K", "Q4_0", "Q8_0", "Custom"}

ASSUME PayloadsAssumption ==
  \A payload \in Payloads :
    /\ DOMAIN payload = {"id", "len", "packed", "wide"}
    /\ payload.len \in Nat /\ payload.packed \in Nat \ {0} /\ payload.wide \in 0 .. 32
\* No two payloads have the same hash.
ASSUME IdsAssumption == \A p, q \in Payloads : p.id = q.id => p = q
ASSUME LengthsAssumption == HeaderLen \in Nat \ {0} /\ SchemaLen \in Nat \ {0}

Tensor == [name : Names, dtype : DTypes, elems : Nat, compression : Compressions,
           payload : Payloads]

FILE_HEADER_PREFIX_SIZE == 48
CHUNK_HEADER_SIZE == 30
CHUNK_CHECKSUM_SIZE == 32
CHUNK_OVERHEAD == CHUNK_HEADER_SIZE + CHUNK_CHECKSUM_SIZE
FOOTER_SIZE == 16

(***************************************************************************)
(* Layout.  base is the offset of the first chunk as the schemas and the   *)
(* index will name it.                                                     *)
(***************************************************************************)
\* Bytes of a CBOR unsigned integer, of those below 2^32.
CborLen(n) == CASE n < 24 -> 1 [] n \in 24 .. 255 -> 2
                [] n \in 256 .. 65535 -> 3 [] OTHER -> 5

Hash(payload) == [of |-> payload.id, wide |-> payload.wide]

Packed(t) == [payload |-> t.payload, compression |-> t.compression]
PackedLen(t) == IF t.compression = "None" THEN t.payload.len ELSE t.payload.packed
ChunkTotalLen(t) == CHUNK_HEADER_SIZE + PackedLen(t) + CHUNK_CHECKSUM_SIZE

ChunkBytes(tensors, n) == MapThenSumSet(LAMBDA i : ChunkTotalLen(tensors[i]), 1 .. n)

Placeholder == [chunk_id |-> 0, byte_offset |-> 0, byte_len |-> 0,
                uncompressed_len |-> 0, checksum |-> [of |-> "zeros", wide |-> 0]]

Chunk_ref(tensors, base, i) ==
  [chunk_id |-> i - 1, byte_offset |-> base + ChunkBytes(tensors, i - 1),
   byte_len |-> ChunkTotalLen(tensors[i]), uncompressed_len |-> tensors[i].payload.len,
   checksum |-> Hash(tensors[i].payload)]

Chunk_refs(tensors, base) == [i \in DOMAIN tensors |-> Chunk_ref(tensors, base, i)]

\* The checksum is an array of 32 integers with a head of two bytes.
RefLen(ref) == CborLen(ref.chunk_id) + CborLen(ref.byte_offset) + CborLen(ref.byte_len)
               + CborLen(ref.uncompressed_len) + 2 + 32 + ref.checksum.wide

SchemaBlockLen(refs) ==
  CborLen(Len(refs)) + MapThenSumSet(LAMBDA i : SchemaLen + RefLen(refs[i]), DOMAIN refs)

SchemaOffset == FILE_HEADER_PREFIX_SIZE + HeaderLen

\* Where NcfWriter believes the first chunk will be: behind a schema block whose
\* ChunkRefs are all zero.
EstimatedBase(tensors) ==
  SchemaOffset + SchemaBlockLen([i \in DOMAIN tensors |-> Placeholder])

\* Where it is in a container whose producer gets the offsets right.
ExactBase(tensors) ==
  CHOOSE base \in SchemaOffset .. SchemaOffset + 512 * (Len(tensors) + 1) :
    base = SchemaOffset + SchemaBlockLen(Chunk_refs(tensors, base))

(***************************************************************************)
(* Blocks.                                                                 *)
(***************************************************************************)
Prefix(compressed, index_offset) ==
  [kind |-> "prefix", len |-> FILE_HEADER_PREFIX_SIZE, compressed |-> compressed,
   header_len |-> HeaderLen, schema_offset |-> SchemaOffset, index_offset |-> index_offset]

Metadata == [kind |-> "metadata", len |-> HeaderLen]

\* The TensorSchemas; each tensor has one chunk.
Schemas(tensors, base) ==
  [i \in DOMAIN tensors |->
     [name |-> tensors[i].name, dtype |-> tensors[i].dtype, elems |-> tensors[i].elems,
      compression |-> tensors[i].compression, chunk |-> Chunk_ref(tensors, base, i)]]

\* Fault: the block has one schema for a name, as the index has one chunk.
SchemaBlock_OnePerName(tensors, base) ==
  [kind |-> "schemas", len |-> SchemaBlockLen(Chunk_refs(tensors, base)),
   schemas |-> SelectSeq(Schemas(tensors, base),
                         LAMBDA s : s.chunk.chunk_id + 1 =
                                      Max({i \in DOMAIN tensors : tensors[i].name = s.name}))]

SchemaBlock(tensors, base) ==
  [kind |-> "schemas", len |-> SchemaBlockLen(Chunk_refs(tensors, base)),
   schemas |-> Schemas(tensors, base)]

Flags(t) == IF PackedLen(t) # t.payload.len THEN 1 ELSE 0

Chunk(t, id) ==
  [kind |-> "chunk", len |-> ChunkTotalLen(t), chunk_id |-> id, flags |-> Flags(t),
   uncompressed_len |-> t.payload.len, compressed_len |-> PackedLen(t),
   data |-> Packed(t), checksum |-> Hash(t.payload)]

\* Of several tensors of one name, tensor_map keeps the last.
LastOf(seq, name) == Max({i \in DOMAIN seq : seq[i].name = name})

\* Fault: tensor_map keeps the first.
Tensor_map_First(tensors) ==
  [n \in {tensors[i].name : i \in DOMAIN tensors} |->
     Min({i \in DOMAIN tensors : tensors[i].name = n}) - 1]

Tensor_map(tensors) ==
  [n \in {tensors[i].name : i \in DOMAIN tensors} |-> LastOf(tensors, n) - 1]

\* The length of the index block is a stand-in for its CBOR length.
IndexLen(tensors) == 35 + 60 * Len(tensors)

Index(tensors, base) ==
  [kind |-> "index", len |-> IndexLen(tensors),
   chunk_map |-> [id \in 0 .. Len(tensors) - 1 |->
                    [byte_offset |-> Chunk_ref(tensors, base, id + 1).byte_offset,
                     byte_len |-> ChunkTotalLen(tensors[id + 1])]],
   tensor_map |-> Tensor_map(tensors)]

Footer(index_len) == [kind |-> "footer", len |-> FOOTER_SIZE, index_len |-> index_len]

\* Fault: the index is looked for behind the chunks as the schemas name them.
IndexOffset_Estimated(tensors, base) == base + ChunkBytes(tensors, Len(tensors))

IndexOffset(tensors, base) ==
  SchemaOffset + SchemaBlockLen(Chunk_refs(tensors, base)) + ChunkBytes(tensors, Len(tensors))

Container(tensors, base) ==
  LET compressed == \E i \in DOMAIN tensors : tensors[i].compression # "None"
  IN  <<Prefix(compressed, IndexOffset(tensors, base)), Metadata, SchemaBlock(tensors, base)>>
      \o [i \in DOMAIN tensors |-> Chunk(tensors[i], i - 1)]
      \o <<Index(tensors, base), Footer(IndexLen(tensors))>>

(***************************************************************************)
(* Looking at a file.  A block set of one element is a block, the empty    *)
(* set an error.                                                           *)
(***************************************************************************)
Start(file, i) == MapThenSumSet(LAMBDA j : file[j].len, 1 .. i - 1)
FileLen(file) == Start(file, Len(file) + 1)

\* Blocks are not empty, so that one at most begins at o.
BlockAt(file, o, kind) ==
  LET at == {i \in DOMAIN file : file[i].kind = kind /\ Start(file, i) = o}
  IN  {file[i] : i \in {i \in at : \A j \in at : i <= j}}

\* Fault: flagged data is handed on as it is stored.
ChunkData_Stored(chunk) == chunk.data

\* What the readers that do not know the compression make of a chunk: every
\* decompressor is tried on data whose chunk is flagged.
ChunkData(chunk) ==
  IF chunk.flags = 0 THEN chunk.data ELSE [chunk.data EXCEPT !.compression = "None"]

\* A block cut short is unreadable as a whole.
Torn(block) == [kind |-> "torn", len |-> block.len - 1]
=============================================================================
