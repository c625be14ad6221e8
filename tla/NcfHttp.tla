------------------------------ MODULE NcfHttp ------------------------------
(***************************************************************************)
(* NcfHttpReader of ncf-io: a client of a server that serves the file with *)
(* range requests.  open makes five requests and fetch_tensor one for each *)
(* chunk; the server answers each from what the file holds then, so the    *)
(* writer may come between any two.  Whatever a response lacks or does not *)
(* decode makes open fail.                                                 *)
(***************************************************************************)
EXTENDS NcfWriter

VARIABLES
  hpc,       \* "none", the request that open makes next, or "open"
  hsize,     \* file_size
  hprefix,   \* header_prefix
  hschemas,  \* schemas
  hindexlen, \* index_len
  hindex,    \* index
  hsource    \* history: the tensors of the container whose schemas were fetched

httpVars == <<hpc, hsize, hprefix, hschemas, hindexlen, hindex, hsource>>

NoBlock == [kind |-> "no block"]

HttpInit ==
  /\ hpc = "none" /\ hsize = 0 /\ hprefix = NoBlock /\ hschemas = <<>>
  /\ hindexlen = 0 /\ hindex = NoBlock /\ hsource = <<>>

\* HEAD.
Http_head ==
  /\ hpc = "none"
  /\ hpc' = "prefix" /\ hsize' = FileLen(file)
  /\ UNCHANGED <<hprefix, hschemas, hindexlen, hindex, hsource>>

\* bytes=0-47
PrefixReply ==
  {p \in BlockAt(file, 0, "prefix") :
     /\ p.schema_offset >= FILE_HEADER_PREFIX_SIZE
     /\ p.schema_offset <= p.index_offset
     /\ p.index_offset < hsize /\ FOOTER_SIZE <= hsize}

Http_prefix ==
  /\ hpc = "prefix"
  /\ hprefix' \in PrefixReply
  /\ hpc' = "schemas"
  /\ UNCHANGED <<hsize, hschemas, hindexlen, hindex, hsource>>

\* From byte 48 to the index: metadata and schemas in one response.
SchemasReply ==
  {b \in BlockAt(file, hprefix.schema_offset, "schemas") :
     /\ \E m \in BlockAt(file, FILE_HEADER_PREFIX_SIZE, "metadata") : m.len = hprefix.header_len
     /\ hprefix.schema_offset + b.len <= hprefix.index_offset
     /\ hprefix.index_offset <= FileLen(file)}

Http_schemas ==
  /\ hpc = "schemas"
  /\ \E b \in SchemasReply : hschemas' = b.schemas
  /\ hsource' = source
  /\ hpc' = "footer"
  /\ UNCHANGED <<hsize, hprefix, hindexlen, hindex>>

\* The 16 bytes that were the last ones when HEAD was answered.
FooterReply ==
  {f \in BlockAt(file, hsize - FOOTER_SIZE, "footer") :
     hprefix.index_offset + f.index_len + FOOTER_SIZE <= hsize}

Http_footer ==
  /\ hpc = "footer"
  /\ \E f \in FooterReply : hindexlen' = f.index_len
  /\ hpc' = "index"
  /\ UNCHANGED <<hsize, hprefix, hschemas, hindex, hsource>>

\* The response is as long as the footer said; what it holds behind the index is not
\* looked at.
IndexReply ==
  {x \in BlockAt(file, hprefix.index_offset, "index") :
     x.len <= hindexlen /\ hprefix.index_offset + hindexlen <= FileLen(file)}

Http_index ==
  /\ hpc = "index"
  /\ hindex' \in IndexReply
  /\ hpc' = "open"
  /\ UNCHANGED <<hsize, hprefix, hschemas, hindexlen, hsource>>

Http_closed ==
  /\ hpc' = "none" /\ hsize' = 0 /\ hprefix' = NoBlock /\ hschemas' = <<>>
  /\ hindexlen' = 0 /\ hindex' = NoBlock /\ hsource' = <<>>

\* open returns an error: a request fails, or its response is refused.
Http_fails == hpc \in {"prefix", "schemas", "footer", "index"} /\ Http_closed

Http_drop == hpc = "open" /\ Http_closed

Http == Http_head \/ Http_prefix \/ Http_schemas \/ Http_footer \/ Http_index
        \/ Http_fails \/ Http_drop

(***************************************************************************)
(* fetch_tensor.                                                           *)
(***************************************************************************)
\* The first schema of that name, where NcfReader takes the last.
HttpSchema(name) == hschemas[Min({i \in DOMAIN hschemas : hschemas[i].name = name})]

\* Fault: the checksum that came with the chunk is taken instead.
ChecksumMatches_Chunk(data, chunk, ref) ==
  data.compression = "None" /\ Hash(data.payload) = chunk.checksum

ChecksumMatches(data, chunk, ref) ==
  data.compression = "None" /\ Hash(data.payload) = ref.checksum

\* One range request for the chunk; the header's own length says how much of the
\* response is payload.
Fetch_chunk_bytes(ref) ==
  {ChunkData(c) :
     c \in {c \in BlockAt(file, ref.byte_offset, "chunk") :
              /\ ref.byte_offset + ref.byte_len <= FileLen(file)
              /\ CHUNK_HEADER_SIZE + c.compressed_len <= ref.byte_len
              /\ ChecksumMatches(ChunkData(c), c, ref)}}

Fetch_tensor(name) == Fetch_chunk_bytes(HttpSchema(name).chunk)

-----------------------------------------------------------------------------
\* Whatever has happened to the file since, fetch_tensor returns what was added
\* (first) under the name to the container whose schemas it holds, or an error.
FetchedIsRecorded ==
  hpc = "open" =>
    \A i \in DOMAIN hschemas :
      LET first == Min({j \in DOMAIN hsource : hsource[j].name = hschemas[i].name})
      IN  Fetch_tensor(hschemas[i].name)
            \subseteq {[payload |-> hsource[first].payload, compression |-> "None"]}

\* It does return it, as long as nothing has replaced a container of exact offsets,
\* but for tensors that are compressed to their own length (writer.rs:247).
FetchesAllFlagged ==
  hpc = "open" /\ version = 0 =>
    \A i \in DOMAIN hschemas :
      LET t == source[Min({j \in DOMAIN source : source[j].name = hschemas[i].name})]
      IN  Fetch_tensor(t.name) # {} <=> t.compression = "None" \/ Flags(t) = 1
=============================================================================
