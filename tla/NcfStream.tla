----------------------------- MODULE NcfStream -----------------------------
(***************************************************************************)
(* NcfStreamReader of ncf-io: a client that reads the file from its        *)
(* beginning, block after block, and emits an event for each; next_chunk   *)
(* is the caller's poll.  A poll that fails leaves the state as it is and  *)
(* keeps what it has consumed; so does a future that is dropped while it   *)
(* waits.                                                                  *)
(***************************************************************************)
EXTENDS NcfWriter, SequencesExt

CONSTANTS
  StreamingSafe, \* the flag of the containers
  Cancels        \* how often a poll is dropped

ASSUME StreamAssumption == StreamingSafe \in BOOLEAN /\ Cancels \in Nat

VARIABLES
  spc,       \* "none" or the StreamState
  spos,      \* bytes consumed
  sprefix,   \* header_prefix
  sschemas,  \* schemas
  requested, \* requested_tensors: {} for all, or {the set of names}
  events,    \* the TensorData emitted
  scancels,  \* what is left of Cancels
  sversion   \* history: the version that was complete when the reader was made, or -1

streamVars == <<spc, spos, sprefix, sschemas, requested, events, scancels, sversion>>

NoPrefix == [kind |-> "no prefix"]

StreamInit ==
  /\ spc = "none" /\ spos = 0 /\ sprefix = NoPrefix /\ sschemas = <<>>
  /\ requested = {} /\ events = <<>> /\ scancels = Cancels /\ sversion = -1

\* from_async_reader
Stream_new ==
  /\ spc = "none"
  /\ spc' = "AwaitingHeader"
  /\ sversion' = IF complete THEN version ELSE -1
  /\ UNCHANGED <<spos, sprefix, sschemas, requested, events, scancels>>

\* Bounded: once for each reader.
Request_tensors ==
  /\ spc # "none" /\ requested = {}
  /\ \E names \in SUBSET Names : requested' = {names}
  /\ UNCHANGED <<spc, spos, sprefix, sschemas, events, scancels, sversion>>

\* read_exact of n bytes: it ends early at the end of the file, which may by now lie
\* before what has been consumed.
Read_exact(n) == spos' = Max({spos, Min({spos + n, FileLen(file)})})
Available(n) == spos + n <= FileLen(file)

Poll_header ==
  LET prefixes == {p \in BlockAt(file, spos, "prefix") : Available(FILE_HEADER_PREFIX_SIZE)}
  IN  /\ spc = "AwaitingHeader"
      /\ Read_exact(FILE_HEADER_PREFIX_SIZE)
      /\ IF prefixes = {} THEN UNCHANGED <<spc, sprefix>>
                         ELSE spc' = "AwaitingSchema" /\ sprefix' \in prefixes
      /\ UNCHANGED <<sschemas, requested, events, scancels, sversion>>

\* The schema range ends where the index begins, so it holds the chunks too.
TotalLen == sprefix.header_len + (sprefix.index_offset - sprefix.schema_offset)

Poll_schema ==
  LET start == spos + sprefix.schema_offset - FILE_HEADER_PREFIX_SIZE
      found == {b \in BlockAt(file, start, "schemas") :
                  /\ Available(TotalLen)
                  /\ start + b.len <= spos + TotalLen
                  /\ \E m \in BlockAt(file, spos, "metadata") : m.len = sprefix.header_len}
  IN  /\ spc = "AwaitingSchema"
      /\ Read_exact(TotalLen)
      /\ IF found = {} THEN UNCHANGED <<spc, sschemas>>
                      ELSE spc' = "StreamingChunks" /\ \E b \in found : sschemas' = b.schemas
      /\ UNCHANGED <<sprefix, requested, events, scancels, sversion>>

\* Fault: a chunk header that does not decode is not consumed.
Consumed_NotHeader(chunks) == Max({0} \cup {c.len : c \in chunks})

Consumed(chunks) == Max({CHUNK_HEADER_SIZE} \cup {c.len : c \in chunks})

\* The schema that has the chunk, if there is one.
SchemaOf(id) == {sschemas[i] : i \in {i \in DOMAIN sschemas : sschemas[i].chunk.chunk_id = id}}

\* Only a container that is safe for streaming is filtered.
Emitted(chunk) ==
  \A names \in requested : StreamingSafe => \E s \in SchemaOf(chunk.chunk_id) : s.name \in names

Event(chunk) ==
  [name |-> {s.name : s \in SchemaOf(chunk.chunk_id)}, chunk_id |-> chunk.chunk_id,
   is_last_chunk |-> SchemaOf(chunk.chunk_id) # {},
   checksum_valid |-> ChunkData(chunk).compression = "None"
                      /\ Hash(ChunkData(chunk).payload) = chunk.checksum]

\* An end of the file in the header means Done, one behind it is an error.
Poll_chunk ==
  LET chunks == BlockAt(file, spos, "chunk")
  IN  /\ spc = "StreamingChunks"
      /\ Read_exact(Consumed(chunks))
      /\ spc' = IF Available(CHUNK_HEADER_SIZE) THEN spc ELSE "Done"
      /\ events' = events \o SetToSeq({Event(c) : c \in {c \in chunks : Emitted(c)}})
      /\ UNCHANGED <<sprefix, sschemas, requested, scancels, sversion>>

Poll == Poll_header \/ Poll_schema \/ Poll_chunk

Poll_dropped ==
  /\ spc \in {"AwaitingHeader", "AwaitingSchema", "StreamingChunks"}
  /\ scancels > 0 /\ scancels' = scancels - 1
  /\ Read_exact(1)
  /\ UNCHANGED <<spc, sprefix, sschemas, requested, events, sversion>>

Stream == Stream_new \/ Request_tensors \/ Poll \/ Poll_dropped

-----------------------------------------------------------------------------
\* A caller that goes on polling after errors comes to the end: nothing that the
\* chunk state reads, not even a torn or misaligned file, makes it poll for ever.
StreamEnds == spc = "StreamingChunks" ~> spc = "Done"

\* A stream of a whole and undisturbed file emits all of its tensors (stream.rs:112).
StreamsAll ==
  spc = "Done" /\ sversion = version /\ requested = {} =>
    [i \in DOMAIN events |-> events[i].chunk_id] = [i \in DOMAIN sschemas |-> i - 1]
=============================================================================
