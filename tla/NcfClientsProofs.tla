-------------------------- MODULE NcfClientsProofs --------------------------
(***************************************************************************)
(* The clients of one file beside its writer, its failures and each other: *)
(* which files open, what the lookups, the slices and the reads of a map   *)
(* return and what is fetched from a server.                               *)
(***************************************************************************)
EXTENDS NcfClients, NcfReaderProofs

\* The schemas a client holds are those of one container.
FetchedInv ==
  hpc \in {"footer", "index", "open"} =>
    /\ hsource \in Seq(Tensor)
    /\ \E base \in Bases(hsource) : hschemas = Schemas(hsource, base)

\* What the reader of slices holds if it mapped the present file.
MmapView == ViewInv(mpc, mlimit, mprefix, mindex, mschemas, mversion)

\* A client of a server has the schemas of the file that nothing has replaced.
HttpView ==
  version = 0 /\ hpc \in {"footer", "index", "open"} =>
    complete /\ hsource = source /\ hschemas = Schemas(source, Base)

ClientsInv ==
  FileInv /\ LayoutInv /\ FetchedInv /\ DecodedInv /\ ReaderView /\ MmapView /\ HttpView

-----------------------------------------------------------------------------
LEMMA InitClients == Init => ClientsInv
<1> SUFFICES ASSUME Init PROVE ClientsInv
  OBVIOUS
<1>1. FetchedInv /\ HttpView
  BY DEF Init, HttpInit, FetchedInv, HttpView
<1>2. MmapView
  BY DEF Init, MmapInit, M!ReaderInit, MmapView, ViewInv
<1> QED BY <1>1, <1>2, InitFile, InitLayout, InitDecoded, InitView DEF Init, ClientsInv

LEMMA FetchedStep ==
  ASSUME FileInv, FetchedInv, HttpStep
  PROVE  FetchedInv'
<1>1. CASE Http_head \/ Http_prefix
  BY <1>1 DEF Http_head, Http_prefix, FetchedInv
<1>2. CASE Http_schemas
  <2>1. PICK b \in SchemasReply : hschemas' = b.schemas
    BY <1>2 DEF Http_schemas
  <2>2. b \in Blocks(source) /\ b.kind = "schemas"
    BY <2>1, BlockAtFile DEF SchemasReply
  <2>3. source \in Seq(Tensor) /\ hsource' = source
    BY <1>2 DEF FileInv, Http_schemas
  <2> QED BY <2>1, <2>2, <2>3, SchemasOfTensors DEF FetchedInv
<1>3. CASE Http_footer \/ Http_index
  BY <1>3 DEF Http_footer, Http_index, FetchedInv
<1>4. CASE Http_fails \/ Http_drop
  BY <1>4 DEF Http_fails, Http_drop, Http_closed, FetchedInv
<1> QED BY <1>1, <1>2, <1>3, <1>4 DEF HttpStep

LEMMA FetchedKept ==
  ASSUME FetchedInv, UNCHANGED httpVars
  PROVE  FetchedInv'
BY DEF FetchedInv, httpVars

\* Schemas that arrive from the file that nothing has replaced are its own.
LEMMA HttpViewStep ==
  ASSUME FileInv, LayoutInv, HttpView, HttpStep, UNCHANGED writerVars
  PROVE  HttpView'
<1>1. UNCHANGED <<file, source, complete, version>> /\ Base' = Base
  BY DEF writerVars, Base
<1>2. CASE Http_head \/ Http_prefix \/ Http_fails \/ Http_drop
  BY <1>2 DEF Http_head, Http_prefix, Http_fails, Http_drop, Http_closed, HttpView
<1>3. CASE Http_schemas
  <2>1. PICK b \in SchemasReply : hschemas' = b.schemas
    BY <1>3 DEF Http_schemas
  <2>2. b.schemas = Schemas(source, Base)
    BY <2>1, SchemasFound DEF SchemasReply
  <2>3. file # <<>>
    BY <2>1 DEF SchemasReply, BlockAt
  <2>4. version = 0 => complete
    BY <2>3 DEF LayoutInv
  <2> QED BY <1>1, <1>3, <2>1, <2>2, <2>4 DEF Http_schemas, HttpView
<1>4. CASE Http_footer \/ Http_index
  BY <1>1, <1>4 DEF Http_footer, Http_index, HttpView
<1> QED BY <1>2, <1>3, <1>4 DEF HttpStep

LEMMA HttpViewBesideWriter ==
  ASSUME LayoutInv, HttpView, Writer, UNCHANGED httpVars
  PROVE  HttpView'
<1>1. version \in Nat /\ UNCHANGED <<hpc, hschemas, hsource>>
  BY DEF LayoutInv, httpVars
<1>2. CASE version' = version + 1
  BY <1>1, <1>2 DEF HttpView
<1>3. CASE UNCHANGED <<version, source>> /\ (complete => complete' /\ file' = file)
  <2>1. Base' = Base
    BY <1>3 DEF Base
  <2> QED BY <1>1, <1>3, <2>1 DEF HttpView
<1> QED BY <1>2, <1>3, WriterLeavesWhole

LEMMA HttpViewKept ==
  ASSUME HttpView, UNCHANGED writerVars, UNCHANGED httpVars
  PROVE  HttpView'
BY DEF HttpView, Base, writerVars, httpVars

-----------------------------------------------------------------------------
(***************************************************************************)
(* NcfMmap opens as NcfReader does.                                        *)
(***************************************************************************)
LEMMA MmapStart == ASSUME NEW f, NEW i PROVE M!Start(f, i) = Start(f, i)
BY DEF M!Start, Start, M!MapThenSumSet, MapThenSumSet, M!MapThenFoldSet, MapThenFoldSet

LEMMA MmapBlockAt == ASSUME NEW f, NEW o, NEW kind PROVE M!BlockAt(f, o, kind) = BlockAt(f, o, kind)
<1>1. \A i : M!Start(f, i) = Start(f, i)
  BY MmapStart
<1> QED BY <1>1 DEF M!BlockAt, BlockAt

LEMMA MmapFileLen == M!FileLen(file) = FileLen(file)
BY MmapStart DEF M!FileLen, FileLen

LEMMA MmapViewBesideWriter ==
  ASSUME LayoutInv, MmapView, Writer, UNCHANGED mmapVars
  PROVE  MmapView'
<1>1. UNCHANGED <<mpc, mlimit, mprefix, mindex, mschemas, mversion>>
  BY DEF mmapVars
<1>2. version \in Nat
  BY DEF LayoutInv
<1>3. CASE version' = version + 1
  <2>1. mpc # "none" => mlimit \in Nat /\ mversion \in Nat /\ mversion <= version' /\ mversion # version'
    BY <1>2, <1>3 DEF MmapView, ViewInv
  <2> QED BY <1>1, <2>1 DEF MmapView, ViewInv
<1>4. CASE UNCHANGED <<version, source>> /\ (complete => complete' /\ file' = file)
  <2>1. Base' = Base /\ version' = version /\ source' = source
    BY <1>4 DEF Base
  <2> QED BY <1>1, <1>4, <2>1 DEF MmapView, ViewInv
<1> QED BY <1>3, <1>4, WriterLeavesWhole

LEMMA MmapViewKept ==
  ASSUME MmapView, UNCHANGED writerVars, UNCHANGED mmapVars
  PROVE  MmapView'
BY DEF MmapView, ViewInv, Base, writerVars, mmapVars

LEMMA MmapViewStep ==
  ASSUME FileInv, LayoutInv, MmapView, MmapStep, UNCHANGED writerVars
  PROVE  MmapView'
<1>1. UNCHANGED <<file, source, complete, version>> /\ Base' = Base
  BY DEF writerVars, Base
<1>2. CASE M!Reader_map
  <2>1. FileLen(file) \in Nat /\ version \in Nat
    BY FileSized DEF LayoutInv
  <2>2. mpc' = "mapped" /\ mlimit' = FileLen(file) /\ mversion' = version
    BY <1>2, MmapFileLen DEF M!Reader_map
  <2>3. version <= version
    BY <2>1
  <2> QED BY <1>1, <2>1, <2>2, <2>3 DEF MmapView, ViewInv
<1>3. CASE M!Reader_prefix
  <2>1. mprefix' \in BlockAt(file, 0, "prefix")
    BY <1>3, MmapBlockAt DEF M!Reader_prefix, M!PrefixRead
  <2>2. mprefix' = PrefixOf(source, Base)
    BY <2>1, PrefixFound
  <2> QED BY <1>1, <1>3, <2>2 DEF M!Reader_prefix, MmapView, ViewInv
<1>4. CASE M!Reader_metadata
  BY <1>1, <1>4 DEF M!Reader_metadata, MmapView, ViewInv
<1>5. CASE M!Reader_footer
  <2>1. mlimit \in Nat
    BY <1>5 DEF M!Reader_footer, MmapView, ViewInv
  <2>2. PICK f \in BlockAt(file, mlimit - FOOTER_SIZE, "footer") : TRUE
    BY <1>5, MmapBlockAt DEF M!Reader_footer, M!FooterRead, M!FOOTER_SIZE, FOOTER_SIZE
  <2>3. complete /\ mlimit = FileLen(file)
    BY <2>1, <2>2, FooterFound
  <2> QED BY <1>1, <1>5, <2>3 DEF M!Reader_footer, MmapView, ViewInv
<1>6. CASE M!Reader_index
  <2>1. mindex' \in BlockAt(file, mprefix.index_offset, "index")
    BY <1>6, MmapBlockAt DEF M!Reader_index, M!IndexRead
  <2>2. mindex' = Index(source, Base)
    BY <2>1, IndexFound
  <2> QED BY <1>1, <1>6, <2>2 DEF M!Reader_index, MmapView, ViewInv
<1>7. CASE M!Reader_rejects \/ M!Reader_drop
  BY <1>7 DEF M!Reader_rejects, M!Reader_drop, M!Reader_closed, MmapView, ViewInv
<1>8. CASE M!Reader_schemas
  <2>1. mpc' = "decoded" => mschemas' = Schemas(source, Base)
    <3>1. \A b \in M!SchemasRead(mprefix) : b \in BlockAt(file, mprefix.schema_offset, "schemas")
      BY MmapBlockAt DEF M!SchemasRead
    <3>2. \A b \in M!SchemasRead(mprefix) : b.schemas = Schemas(source, Base)
      BY <3>1, SchemasFound
    <3> QED BY <1>8, <3>2 DEF M!Reader_schemas
  <2>2. /\ mpc = "open" /\ mpc' \in {"decoded", "broken"}
        /\ UNCHANGED <<mlimit, mprefix, mindex, mversion>>
    BY <1>8 DEF M!Reader_schemas
  <2> QED BY <1>1, <2>1, <2>2 DEF MmapView, ViewInv
<1> QED BY <1>2, <1>3, <1>4, <1>5, <1>6, <1>7, <1>8
        DEF MmapStep, Mmap_map, Mmap_open, Mmap_schemas, Mmap_drop, M!Reader_open

-----------------------------------------------------------------------------
LEMMA NextClients == ClientsInv /\ [Next]_clientsVars => ClientsInv'
<1> SUFFICES ASSUME ClientsInv, [Next]_clientsVars PROVE ClientsInv'
  OBVIOUS
<1>0. FileInv /\ LayoutInv /\ FetchedInv /\ DecodedInv /\ ReaderView /\ MmapView /\ HttpView
  BY DEF ClientsInv
<1>1. CASE Writer /\ UNCHANGED <<readerVars, mmapVars, httpVars>>
  <2>1. FileInv' /\ LayoutInv'
    BY <1>0, <1>1, FileStep, LayoutStep
  <2>2. FetchedInv' /\ DecodedInv'
    BY <1>0, <1>1, FetchedKept, DecodedKept
  <2>3. ReaderView' /\ MmapView' /\ HttpView'
    BY <1>0, <1>1, ViewBesideWriter, MmapViewBesideWriter, HttpViewBesideWriter
  <2> QED BY <2>1, <2>2, <2>3 DEF ClientsInv
<1>2. CASE UNCHANGED writerVars
  <2>1. FileInv' /\ LayoutInv'
    BY <1>0, <1>2, FileKept, LayoutKept
  <2>2. CASE ReaderStep /\ UNCHANGED <<mmapVars, httpVars>>
    <3>1. Reader
      BY <2>2 DEF ReaderStep, Reader
    <3>2. DecodedInv' /\ ReaderView'
      BY <1>0, <1>2, <3>1, DecodedStep, ViewStep
    <3>3. FetchedInv' /\ MmapView' /\ HttpView'
      BY <1>0, <1>2, <2>2, FetchedKept, MmapViewKept, HttpViewKept
    <3> QED BY <2>1, <3>2, <3>3 DEF ClientsInv
  <2>3. CASE MmapStep /\ UNCHANGED <<readerVars, httpVars>>
    <3>1. MmapView'
      BY <1>0, <1>2, <2>3, MmapViewStep
    <3>2. FetchedInv' /\ DecodedInv' /\ ReaderView' /\ HttpView'
      BY <1>0, <1>2, <2>3, FetchedKept, DecodedKept, ViewKept, HttpViewKept
    <3> QED BY <2>1, <3>1, <3>2 DEF ClientsInv
  <2>4. CASE HttpStep /\ UNCHANGED <<readerVars, mmapVars>>
    <3>1. FetchedInv' /\ HttpView'
      BY <1>0, <1>2, <2>4, FetchedStep, HttpViewStep
    <3>2. DecodedInv' /\ ReaderView' /\ MmapView'
      BY <1>0, <1>2, <2>4, DecodedKept, ViewKept, MmapViewKept
    <3> QED BY <2>1, <3>1, <3>2 DEF ClientsInv
  <2>5. CASE UNCHANGED <<readerVars, mmapVars, httpVars>>
    <3>1. FetchedInv' /\ DecodedInv' /\ ReaderView' /\ MmapView' /\ HttpView'
      BY <1>0, <1>2, <2>5, FetchedKept, DecodedKept, ViewKept, MmapViewKept, HttpViewKept
    <3> QED BY <2>1, <3>1 DEF ClientsInv
  <2> QED BY <1>2, <2>2, <2>3, <2>4, <2>5 DEF Next, clientsVars
<1> QED BY <1>1, <1>2 DEF Next, clientsVars

-----------------------------------------------------------------------------
LEMMA FetchedFromInv == ClientsInv => FetchedIsRecorded
<1> SUFFICES ASSUME ClientsInv, hpc = "open", NEW i \in DOMAIN hschemas
             PROVE  LET first == Min({j \in DOMAIN hsource : hsource[j].name = hschemas[i].name})
                    IN  Fetch_tensor(hschemas[i].name)
                          \subseteq {[payload |-> hsource[first].payload, compression |-> "None"]}
  BY DEF FetchedIsRecorded
<1> DEFINE name == hschemas[i].name
           same == {j \in DOMAIN hsource : hsource[j].name = name}
           first == Min(same)
<1>1. PICK base \in Bases(hsource) : hschemas = Schemas(hsource, base)
  BY DEF ClientsInv, FetchedInv
<1>2. hsource \in Seq(Tensor)
  BY DEF ClientsInv, FetchedInv
<1>3. /\ DOMAIN hschemas = DOMAIN hsource
      /\ \A j \in DOMAIN hsource : /\ hschemas[j].name = hsource[j].name
                                   /\ hschemas[j].chunk = Chunk_ref(hsource, base, j)
  BY <1>1 DEF Schemas
<1>4. first \in DOMAIN hsource
  <2>1. same \subseteq Nat /\ i \in same
    BY <1>2, <1>3
  <2> HIDE DEF same
  <2>2. first \in same
    BY <2>1, MinNat
  <2> QED BY <2>2 DEF same
<1>5. HttpSchema(name) = hschemas[first]
  <2>1. {j \in DOMAIN hschemas : hschemas[j].name = name} = same
    BY <1>3
  <2> QED BY <2>1 DEF HttpSchema
<1> HIDE DEF name, same, first
<1>6. HttpSchema(name).chunk.checksum = Hash(hsource[first].payload)
  <2>1. hschemas[first].chunk = Chunk_ref(hsource, base, first)
    BY <1>3, <1>4
  <2> QED BY <2>1, <1>5 DEF Chunk_ref
<1>7. hsource[first].payload \in Payloads
  <2>1. hsource[first] \in Tensor
    BY <1>2, <1>4
  <2> QED BY <2>1 DEF Tensor
<1> SUFFICES ASSUME NEW d \in Fetch_tensor(name)
             PROVE  d = [payload |-> hsource[first].payload, compression |-> "None"]
  BY DEF name, same, first
<1>8. PICK c \in BlockAt(file, HttpSchema(name).chunk.byte_offset, "chunk") :
        /\ d = ChunkData(c)
        /\ ChecksumMatches(ChunkData(c), c, HttpSchema(name).chunk)
  BY DEF Fetch_tensor, Fetch_chunk_bytes
<1>9. c \in Blocks(source) /\ c.kind = "chunk" /\ source \in Seq(Tensor)
  BY <1>8, BlockAtFile DEF ClientsInv, FileInv
<1>10. PICK payload \in Payloads, compression \in Compressions :
         c.data = [payload |-> payload, compression |-> compression]
  BY <1>9, ChunkOfTensor
<1>11. d = [payload |-> payload, compression |-> d.compression]
  BY <1>8, <1>10 DEF ChunkData
<1>12. d.compression = "None" /\ Hash(d.payload) = Hash(hsource[first].payload)
  BY <1>6, <1>8 DEF ChecksumMatches
<1>13. payload.id = hsource[first].payload.id
  <2>1. d.payload = payload
    BY <1>11
  <2> QED BY <1>12, <2>1 DEF Hash
<1>14. payload = hsource[first].payload
  BY <1>7, <1>13, IdsAssumption
<1> QED BY <1>11, <1>12, <1>14

\* Whatever stands at the path, is written, fails to be written or is replaced between
\* any two requests: what fetch_tensor returns is what was added under that name to
\* the container whose schemas the client holds (http_reader.rs:420).
THEOREM FetchesAreRecorded == Spec => []FetchedIsRecorded
BY InitClients, NextClients, FetchedFromInv, PTL DEF Spec

-----------------------------------------------------------------------------
\* When verify_tensor accepts a tensor, read_tensor returns what was added last under
\* its name to the container whose schemas the reader has decoded, even if the file has
\* been created anew since, or between two reads of open (reader.rs:341, reader.rs:369).
THEOREM VerificationIsTrue == Spec => []VerifiedReads
<1>1. ClientsInv => VerifiedReads
  BY VerifiedFromInv DEF ClientsInv
<1> QED BY InitClients, NextClients, <1>1, PTL DEF Spec

-----------------------------------------------------------------------------
LEMMA SlicesFromInv == ClientsInv => SlicesAreStored
<1> SUFFICES ASSUME ClientsInv, mpc \in {"open", "decoded", "broken"}, version = 0
             PROVE  /\ DOMAIN mindex.tensor_map = {source[i].name : i \in DOMAIN source}
                    /\ \A name \in DOMAIN mindex.tensor_map :
                         \E i \in DOMAIN file :
                           /\ file[i].kind = "chunk"
                           /\ file[i].data = Packed(source[LastOf(source, name)])
                           /\ Mmap_slice(name) = {[from |-> Start(file, i) + CHUNK_HEADER_SIZE,
                                                   len |-> file[i].compressed_len]}
  BY DEF SlicesAreStored
<1>1. FileInv /\ LayoutInv /\ source \in Seq(Tensor)
  BY DEF ClientsInv, FileInv
<1>2. mversion = version
  BY DEF ClientsInv, MmapView, ViewInv
<1>3. complete /\ mlimit = FileLen(file) /\ mindex = Index(source, Base)
  BY <1>2 DEF ClientsInv, MmapView, ViewInv
<1>4. DOMAIN mindex.tensor_map = NamesOf(source)
  BY <1>3 DEF Index, Tensor_map, NamesOf
<1> SUFFICES ASSUME NEW name \in NamesOf(source)
             PROVE  \E i \in DOMAIN file :
                      /\ file[i].kind = "chunk"
                      /\ file[i].data = Packed(source[LastOf(source, name)])
                      /\ Mmap_slice(name) = {[from |-> Start(file, i) + CHUNK_HEADER_SIZE,
                                              len |-> file[i].compressed_len]}
  BY <1>4 DEF NamesOf
<1> DEFINE last == LastOf(source, name)
           ref == Chunk_ref(source, Base, last)
<1>5. last \in DOMAIN source /\ source[last] \in Tensor
  BY <1>1, LastIs
<1>6. Mmap_slice(name) = {[from |-> ref.byte_offset + CHUNK_HEADER_SIZE,
                           len |-> ref.byte_len - CHUNK_OVERHEAD]}
  <2>1. Mmap_slice(name) = SliceIn(mindex, mlimit, name)
    BY DEF Mmap_slice, SliceIn
  <2> QED BY <1>1, <1>3, <2>1, SliceOfName
<1> HIDE DEF last, ref
<1>7. /\ last + 3 \in DOMAIN file /\ file[last + 3] = Chunk(source[last], last - 1)
      /\ Start(file, last + 3) = ref.byte_offset
  BY <1>1, <1>3, <1>5, ChunkFound DEF ref
<1>8. ref.byte_len - CHUNK_OVERHEAD = PackedLen(source[last])
  <2>1. ref.byte_len = ChunkTotalLen(source[last])
    BY DEF ref, Chunk_ref
  <2> QED BY <1>5, <2>1, TensorSizes DEF CHUNK_OVERHEAD, CHUNK_HEADER_SIZE, CHUNK_CHECKSUM_SIZE
<1>9. /\ file[last + 3].kind = "chunk" /\ file[last + 3].data = Packed(source[last])
      /\ file[last + 3].compressed_len = PackedLen(source[last])
  BY <1>7 DEF Chunk
<1> QED BY <1>6, <1>7, <1>8, <1>9 DEF last

LEMMA FetchesFromInv == ClientsInv => FetchesAllFlagged
<1> SUFFICES ASSUME ClientsInv, hpc = "open", version = 0, NEW i \in DOMAIN hschemas
             PROVE  LET t == source[Min({j \in DOMAIN source : source[j].name = hschemas[i].name})]
                    IN  Fetch_tensor(t.name) # {} <=> t.compression = "None" \/ Flags(t) = 1
  BY DEF FetchesAllFlagged
<1> DEFINE name == hschemas[i].name
           same == {j \in DOMAIN source : source[j].name = name}
           first == Min(same)
           t == source[first]
           ref == Chunk_ref(source, Base, first)
           c == Chunk(t, first - 1)
<1>1. FileInv /\ LayoutInv /\ source \in Seq(Tensor)
  BY DEF ClientsInv, FileInv
<1>2. complete /\ hschemas = Schemas(source, Base)
  BY DEF ClientsInv, HttpView
<1>3. /\ DOMAIN hschemas = DOMAIN source
      /\ \A j \in DOMAIN source : /\ hschemas[j].name = source[j].name
                                  /\ hschemas[j].chunk = Chunk_ref(source, Base, j)
  BY <1>2 DEF Schemas
<1>4. first \in same
  <2>1. same \subseteq Nat /\ i \in same
    BY <1>1, <1>3
  <2> HIDE DEF same
  <2> QED BY <2>1, MinNat
<1>5. first \in DOMAIN source /\ t.name = name
  BY <1>4
<1>6. t \in Tensor
  BY <1>1, <1>5
<1>7. HttpSchema(name).chunk = ref
  <2>1. {j \in DOMAIN hschemas : hschemas[j].name = name} = same
    BY <1>3
  <2>2. HttpSchema(name) = hschemas[first]
    BY <2>1 DEF HttpSchema
  <2> QED BY <1>3, <1>5, <2>2
<1> HIDE DEF name, same, first, t, ref, c
<1>8. BlockAt(file, ref.byte_offset, "chunk") = {c}
  BY <1>1, <1>2, <1>5, ChunkFound DEF ref, c, t
<1>9. /\ ref.byte_offset + ref.byte_len <= FileLen(file)
      /\ CHUNK_HEADER_SIZE + c.compressed_len <= ref.byte_len
  <2>1. ref.byte_offset + ref.byte_len <= FileLen(file) /\ ref.byte_len = PackedLen(t) + 62
    BY <1>1, <1>2, <1>5, RefInFile DEF ref, t
  <2>2. c.compressed_len = PackedLen(t) /\ PackedLen(t) \in Nat
    BY <1>6, ChunkFields, TensorSizes DEF c
  <2> QED BY <2>1, <2>2 DEF CHUNK_HEADER_SIZE
<1>10. Fetch_tensor(name) # {} <=> ChecksumMatches(ChunkData(c), c, ref)
  <2>1. Fetch_tensor(name) = Fetch_chunk_bytes(ref)
    BY <1>7 DEF Fetch_tensor
  <2>2. Fetch_chunk_bytes(ref) # {} <=> ChecksumMatches(ChunkData(c), c, ref)
    BY <1>8, <1>9 DEF Fetch_chunk_bytes
  <2> QED BY <2>1, <2>2
<1>11. ChecksumMatches(ChunkData(c), c, ref) <=> t.compression = "None" \/ Flags(t) = 1
  <2>1. c.flags = Flags(t) /\ c.data = [payload |-> t.payload, compression |-> t.compression]
    BY <1>6, ChunkFields DEF c
  <2>2. ref.checksum = Hash(t.payload)
    BY DEF ref, Chunk_ref, t
  <2>3. (Flags(t) = 0) <=> ~(Flags(t) = 1)
    BY <1>6, FlagsOfSound
  <2>4. CASE Flags(t) = 0
    BY <2>1, <2>2, <2>3, <2>4 DEF ChunkData, ChecksumMatches
  <2>5. CASE Flags(t) = 1
    BY <2>1, <2>2, <2>3, <2>5 DEF ChunkData, ChecksumMatches
  <2> QED BY <2>3, <2>4, <2>5
<1> QED BY <1>5, <1>10, <1>11 DEF name, same, first, t

-----------------------------------------------------------------------------
\* Whatever the file holds at any moment, half a container, one cut short by a failed
\* write or a crash, or nothing: open succeeds on the whole of what finalize wrote and
\* on nothing less, for every list of tensors and every length of theirs
\* (reader.rs:70, writer.rs:72).
THEOREM OnlyWholeFilesAreOpened == Spec => []OnlyWholeFilesOpen
<1>1. ClientsInv => OnlyWholeFilesOpen
  BY OnlyWholeFromInv DEF ClientsInv
<1> QED BY InitClients, NextClients, <1>1, PTL DEF Spec

\* In the file it has mapped, a reader finds by find_schema and by tensor_slice, the
\* one a search of the schemas, the other one of the index, the same chunk for every
\* name, tensors that share it included, and no slice is refused (reader.rs:208, reader.rs:238).
THEOREM LookupsAlwaysAgree == Spec => []LookupsAgree
<1>1. ClientsInv => LookupsAgree
  BY LookupsFromInv DEF ClientsInv
<1> QED BY InitClients, NextClients, <1>1, PTL DEF Spec

\* In a container of exact offsets that nothing has replaced, verify_tensor and
\* read_tensor refuse the tensors that are compressed to their own length, whose
\* chunks have no flag, and no others (writer.rs:247, reader.rs:298).
THEOREM OnlyUnflaggedAreRefused == Spec => []RefusesOnlyUnflagged
<1>1. ClientsInv => RefusesOnlyUnflagged
  BY RefusesFromInv DEF ClientsInv
<1> QED BY InitClients, NextClients, <1>1, PTL DEF Spec

\* In such a container each slice that NcfMmap hands out is the stored payload of the
\* last tensor of that name, from its first byte to its last (mmap.rs:167).
THEOREM SlicesAreAlwaysStored == Spec => []SlicesAreStored
BY InitClients, NextClients, SlicesFromInv, PTL DEF Spec

\* From such a container fetch_tensor fetches every tensor but those that are compressed
\* to their own length (http_reader.rs:420, writer.rs:247).
THEOREM AllFlaggedAreFetched == Spec => []FetchesAllFlagged
BY InitClients, NextClients, FetchesFromInv, PTL DEF Spec

-----------------------------------------------------------------------------
LEMMA StepPublishes ==
  ClientsInv /\ ClientsInv' /\ [Next]_clientsVars =>
    [\/ Publication!Renew \/ Publication!Add
     \/ Publication!Vanish \/ Publication!Publish]_<<Described(Schemas(tensors, 0)), Shown>>
<1> SUFFICES ASSUME ClientsInv, ClientsInv', [Next]_clientsVars
             PROVE  \/ Publication!Renew \/ Publication!Add
                    \/ Publication!Vanish \/ Publication!Publish
                    \/ UNCHANGED <<Described(Schemas(tensors, 0)), Shown>>
  OBVIOUS
<1>0. FileInv /\ LayoutInv /\ FileInv' /\ LayoutInv'
  BY DEF ClientsInv
<1>1. CASE Writer
  BY <1>0, <1>1, WriterPublishes
<1>2. CASE UNCHANGED writerVars
  <2>1. UNCHANGED <<tensors, source, complete>>
    BY <1>2 DEF writerVars
  <2>2. (FileInv /\ LayoutInv => Shown = IF complete THEN {Descriptions(source)} ELSE {})'
    BY ShownIs, PTL
  <2>3. Shown' = Shown
    BY <1>0, <2>1, <2>2, ShownIs
  <2>4. Described(Schemas(tensors, 0))' = Described(Schemas(tensors, 0))
    BY <2>1, DescribedIs
  <2> QED BY <2>3, <2>4
<1> QED BY <1>1, <1>2 DEF Next, clientsVars

\* To whoever opens the file the writer shows all that was added to it, or nothing: one
\* container never changes into another before their eyes, a writer that fails or dies
\* half way shows nothing, and the readers change nothing (writer.rs:72, reader.rs:70).
THEOREM WritersPublish == Spec => ImplementsPublication
<1>1. Init => Publication!Init
  BY InitPublication DEF Init
<1> QED BY <1>1, InitClients, NextClients, StepPublishes, PTL
        DEF Spec, ImplementsPublication, Publication!Spec
=============================================================================
