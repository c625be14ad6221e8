----------------------------- MODULE NcfReader -----------------------------
(***************************************************************************)
(* NcfReader of ncf-io: a client that maps the file and reads through the  *)
(* map, while the writer may create the file anew underneath it: between   *)
(* any two of the reads that open makes, and after it.  open keeps the     *)
(* prefix and the index; the schemas are decoded by the first call that    *)
(* needs them and cached, the error too.  Every other read goes to the map *)
(* each time.  A read beyond the present end of the file kills the process *)
(* (SIGBUS); it is counted as an error.                                    *)
(***************************************************************************)
EXTENDS NcfWriter

VARIABLES
  rpc,       \* "none", what open has read last ("mapped", "prefix", "metadata",
             \* "footer"), "open", and "decoded" or "broken" with the schemas or their
             \* error in the cache
  rlimit,    \* length of the map
  rprefix,   \* header_prefix
  rindexlen, \* index_len
  rindex,    \* index
  rschemas,  \* schemas
  rversion,  \* history: the version that was mapped
  rsource    \* history: the tensors of the container whose schemas were decoded

readerVars == <<rpc, rlimit, rprefix, rindexlen, rindex, rschemas, rversion, rsource>>

Nothing == [kind |-> "nothing"]

ReaderInit ==
  /\ rpc = "none" /\ rlimit = 0 /\ rprefix = Nothing /\ rindexlen = 0 /\ rindex = Nothing
  /\ rschemas = <<>> /\ rversion = 0 /\ rsource = <<>>

(***************************************************************************)
(* open: what each of its reads accepts of the file as it is then, from a  *)
(* map of length limit with prefix p.                                      *)
(***************************************************************************)
PrefixRead == BlockAt(file, 0, "prefix")

MetadataRead(p, limit) ==
  {m \in BlockAt(file, FILE_HEADER_PREFIX_SIZE, "metadata") :
     /\ m.len = p.header_len /\ FILE_HEADER_PREFIX_SIZE + p.header_len <= limit
     /\ p.schema_offset <= p.index_offset /\ p.index_offset <= limit}

FooterRead(p, limit) ==
  {f \in BlockAt(file, limit - FOOTER_SIZE, "footer") :
     p.index_offset + f.index_len <= limit - FOOTER_SIZE}

\* Bytes behind the index are not looked at.
IndexRead(p, index_len) == {x \in BlockAt(file, p.index_offset, "index") : x.len <= index_len}

\* An open that nothing disturbs succeeds.
Opens(limit) ==
  \E p \in PrefixRead : \E f \in FooterRead(p, limit) :
    MetadataRead(p, limit) # {} /\ IndexRead(p, f.index_len) # {}

Reader_map ==
  /\ rpc = "none"
  /\ rpc' = "mapped" /\ rlimit' = FileLen(file) /\ rversion' = version
  /\ UNCHANGED <<rprefix, rindexlen, rindex, rschemas, rsource>>

Reader_prefix ==
  /\ rpc = "mapped"
  /\ rprefix' \in PrefixRead
  /\ rpc' = "prefix"
  /\ UNCHANGED <<rlimit, rindexlen, rindex, rschemas, rversion, rsource>>

Reader_metadata ==
  /\ rpc = "prefix"
  /\ MetadataRead(rprefix, rlimit) # {}
  /\ rpc' = "metadata"
  /\ UNCHANGED <<rlimit, rprefix, rindexlen, rindex, rschemas, rversion, rsource>>

Reader_footer ==
  /\ rpc = "metadata"
  /\ \E f \in FooterRead(rprefix, rlimit) : rindexlen' = f.index_len
  /\ rpc' = "footer"
  /\ UNCHANGED <<rlimit, rprefix, rindex, rschemas, rversion, rsource>>

Reader_index ==
  /\ rpc = "footer"
  /\ rindex' \in IndexRead(rprefix, rindexlen)
  /\ rpc' = "open"
  /\ UNCHANGED <<rlimit, rprefix, rindexlen, rschemas, rversion, rsource>>

Reader_closed ==
  /\ rpc' = "none" /\ rlimit' = 0 /\ rprefix' = Nothing /\ rindexlen' = 0 /\ rindex' = Nothing
  /\ rschemas' = <<>> /\ rversion' = 0 /\ rsource' = <<>>

\* open returns an error.
Reader_rejects ==
  /\ \/ rpc = "mapped" /\ PrefixRead = {}
     \/ rpc = "prefix" /\ MetadataRead(rprefix, rlimit) = {}
     \/ rpc = "metadata" /\ FooterRead(rprefix, rlimit) = {}
     \/ rpc = "footer" /\ IndexRead(rprefix, rindexlen) = {}
  /\ Reader_closed

Reader_drop == rpc \in {"open", "decoded", "broken"} /\ Reader_closed

SchemasRead(p) ==
  {b \in BlockAt(file, p.schema_offset, "schemas") : p.schema_offset + b.len <= p.index_offset}

Reader_schemas ==
  /\ rpc = "open"
  /\ \/ /\ \E b \in SchemasRead(rprefix) : rschemas' = b.schemas
        /\ rpc' = "decoded"
     \/ SchemasRead(rprefix) = {} /\ rpc' = "broken" /\ UNCHANGED rschemas
  /\ rsource' = source
  /\ UNCHANGED <<rlimit, rprefix, rindexlen, rindex, rversion>>

Reader_open == Reader_prefix \/ Reader_metadata \/ Reader_footer \/ Reader_index \/ Reader_rejects

Reader == Reader_map \/ Reader_open \/ Reader_drop \/ Reader_schemas

(***************************************************************************)
(* Reads of an open reader whose schemas are decoded.  An Option or an     *)
(* error is a set with nothing in it.                                      *)
(***************************************************************************)
Decoded == rpc = "decoded"
SchemaNames == {rschemas[i].name : i \in DOMAIN rschemas}

Find_schema(name) == rschemas[LastOf(rschemas, name)]

\* The chunk header at the place that ref names, inside the map.
ChunkHeaderAt(ref) ==
  {c \in BlockAt(file, ref.byte_offset, "chunk") :
     ref.byte_offset + CHUNK_HEADER_SIZE <= rlimit}

FlagsAgree(chunk, compression) == (chunk.flags = 0) <=> (compression = "None")

\* Fault: the checksum is counted as payload.
PayloadLenAgrees_WithChecksum(chunk, ref) ==
  chunk.compressed_len = ref.byte_len - CHUNK_HEADER_SIZE

PayloadLenAgrees(chunk, ref) ==
  ref.byte_len >= CHUNK_OVERHEAD /\ chunk.compressed_len = ref.byte_len - CHUNK_OVERHEAD

\* The payload_len bytes behind the header, if they are the data of the chunk.
PayloadFits(chunk, ref) ==
  /\ PayloadLenAgrees(chunk, ref)
  /\ ref.byte_offset + ref.byte_len - CHUNK_CHECKSUM_SIZE <= rlimit

\* Decompressing gives the payload, bytes of no payload, or an error.
Decompress(data, compression) ==
  IF compression = "None" THEN {data}
  ELSE IF data.compression = compression THEN {[data EXCEPT !.compression = "None"]} ELSE {}

\* read_tensor does not look at checksums.
Read_tensor(name) ==
  LET s == Find_schema(name)
      readable == {c \in ChunkHeaderAt(s.chunk) :
                     FlagsAgree(c, s.compression) /\ PayloadFits(c, s.chunk)}
  IN  UNION {{d \in Decompress(c.data, s.compression) :
                PackedLen(d) = c.uncompressed_len} : c \in readable}

\* Fault: the checksum recorded in the schema is not looked at.
ChecksumsAgree_Chunk(chunk, ref, data) ==
  data.compression = "None" /\ Hash(data.payload) = chunk.checksum

\* The checksum behind the payload, the one in the schema and that of the data.
ChecksumsAgree(chunk, ref, data) ==
  /\ chunk.checksum = ref.checksum
  /\ data.compression = "None" /\ Hash(data.payload) = ref.checksum

\* tensor_slice goes by the index: where the slice begins and how long it is.
Tensor_slice(name) ==
  {[from |-> e.byte_offset + CHUNK_HEADER_SIZE, len |-> e.byte_len - CHUNK_OVERHEAD] :
     e \in {e \in {rindex.chunk_map[id] : id \in {rindex.tensor_map[name]}} :
              /\ e.byte_len >= CHUNK_OVERHEAD
              /\ e.byte_offset + e.byte_len - CHUNK_CHECKSUM_SIZE <= rlimit}}

\* verify_tensor returns true.
Verify_tensor(name) ==
  LET s == Find_schema(name)
      ref == s.chunk
  IN  \E c \in ChunkHeaderAt(ref) :
        /\ c.chunk_id = ref.chunk_id
        /\ FlagsAgree(c, s.compression)
        /\ PayloadFits(c, ref) /\ ref.byte_offset + ref.byte_len <= rlimit
        /\ \E d \in Decompress(c.data, s.compression) :
             /\ PackedLen(d) = ref.uncompressed_len
             /\ c.uncompressed_len = ref.uncompressed_len
             /\ ChecksumsAgree(c, ref, d)

\* verify_tensor returns an error, not false: what it should read is not there, or
\* does not decompress.
Verify_errs(name) ==
  LET s == Find_schema(name)
      ref == s.chunk
  IN  \/ ChunkHeaderAt(ref) = {}
      \/ \E c \in ChunkHeaderAt(ref) :
           /\ c.chunk_id = ref.chunk_id /\ FlagsAgree(c, s.compression) /\ PayloadLenAgrees(c, ref)
           /\ \/ ref.byte_offset + ref.byte_len > rlimit
              \/ c.checksum = ref.checksum /\ Decompress(c.data, s.compression) = {}
-----------------------------------------------------------------------------
(***************************************************************************)
(* Properties.                                                             *)
(***************************************************************************)
\* open succeeds on the whole of what finalize wrote and on nothing less: not
\* while it is being written, and not after a write that failed or a crash.
OnlyWholeFilesOpen == Opens(FileLen(file)) <=> complete

\* What opening the file and decoding its schemas would show now, apart from where
\* the chunks are said to be.
Described(schemas) ==
  [i \in DOMAIN schemas |->
     [name |-> schemas[i].name, dtype |-> schemas[i].dtype, elems |-> schemas[i].elems,
      compression |-> schemas[i].compression, checksum |-> schemas[i].chunk.checksum]]

Shown ==
  IF Opens(FileLen(file))
  THEN {Described(b.schemas) : b \in UNION {SchemasRead(p) : p \in PrefixRead}}
  ELSE {}

\* The writer implements NcfPublication: at every moment, failures and crashes
\* included, opening the file shows all that was added to the writer that wrote it,
\* or nothing (writer.rs:72, reader.rs:70).
Publication ==
  INSTANCE NcfPublication WITH added <- Described(Schemas(tensors, 0)), shown <- Shown
ImplementsPublication == Publication!Spec

\* find_schema and tensor_slice, one by the schemas and one by the index, mean
\* the same chunk, also when tensors share a name, and no slice is refused.
LookupsAgree ==
  Decoded /\ rversion = version =>
    /\ DOMAIN rindex.tensor_map = SchemaNames
    /\ \A name \in SchemaNames :
         LET ref == Find_schema(name).chunk
         IN  Tensor_slice(name) = {[from |-> ref.byte_offset + CHUNK_HEADER_SIZE,
                                    len |-> ref.byte_len - CHUNK_OVERHEAD]}

\* What was added under this name, as the decoded schemas' container has it.
Added(tensorList, i) == [payload |-> tensorList[i].payload, compression |-> "None"]

\* When verify_tensor accepts a tensor, read_tensor returns what was added under
\* its name to the container the schemas come from, also when the file has been
\* created anew under the map.
VerifiedReads ==
  Decoded => \A name \in SchemaNames :
    Verify_tensor(name) => Read_tensor(name) = {Added(rsource, LastOf(rsource, name))}

\* An undisturbed container of exact offsets verifies and reads in full, but for the
\* tensors that are compressed to their own length: their chunks are not flagged, and
\* both refuse them (writer.rs:247, reader.rs:298).
RefusesOnlyUnflagged ==
  Decoded /\ version = 0 =>
    \A name \in SchemaNames :
      LET t == source[LastOf(source, name)]
          sound == t.compression = "None" \/ Flags(t) = 1
      IN  (Verify_tensor(name) <=> sound) /\ (Read_tensor(name) # {} <=> sound)

\* What was written can be read (roundtrip_tests.rs:139).
ReadsBack ==
  Decoded /\ rversion = version =>
    \A name \in SchemaNames : Read_tensor(name) = {Added(source, LastOf(source, name))}
=============================================================================
