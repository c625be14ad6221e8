--------------------------- MODULE KvCacheReaders ---------------------------
(***************************************************************************)
(* A KvcacheReader of another thread or process beside the writer.  Open   *)
(* maps the file at its present length and then decodes the header and     *)
(* walks the chain inside that map; afterwards the index never changes,    *)
(* while token_bytes checks its bound against the live valid_token_count.  *)
(* Cells are never rewritten, so the walk is one step with the read of the *)
(* head, and a read is one step with the load of valid_token_count.        *)
(***************************************************************************)
EXTENDS KvCacheWriter

CONSTANT Opens   \* how often the reader is opened

ASSUME OpensAssumption == Opens \in Nat

VARIABLES
  rpc,     \* "none", "mapped" (between map and decode) or "open"
  rlimit,  \* length of the map
  rhead,   \* head offset decoded from the map
  rseen,   \* history: the published count when the file was mapped
  opens    \* what is left of Opens

reader == <<rpc, rlimit, rhead, rseen, opens>>
allVars == <<vars, reader>>

ReadersInit ==
  Init /\ rpc = "none" /\ rlimit = 0 /\ rhead = 0 /\ rseen = 0 /\ opens = Opens

Reader_map ==
  /\ rpc = "none" /\ opens > 0
  /\ opens' = opens - 1
  /\ rpc' = "mapped" /\ rlimit' = Len(disk) /\ rseen' = Published
  /\ UNCHANGED <<rhead, vars>>

Reader_decode ==
  /\ rpc = "mapped"
  /\ WalkOK(disk, rlimit, head)
  /\ rpc' = "open" /\ rhead' = head
  /\ UNCHANGED <<rlimit, rseen, opens, vars>>

\* open returns an error.
Reader_rejects ==
  /\ rpc = "mapped"
  /\ ~WalkOK(disk, rlimit, head)
  /\ rpc' = "none" /\ rlimit' = 0 /\ rseen' = 0
  /\ UNCHANGED <<rhead, opens, vars>>

Reader_drop ==
  /\ rpc = "open"
  /\ rpc' = "none" /\ rlimit' = 0 /\ rhead' = 0 /\ rseen' = 0
  /\ UNCHANGED <<opens, vars>>

Reader == Reader_map \/ Reader_decode \/ Reader_rejects \/ Reader_drop

ReadersNext == (Next /\ UNCHANGED reader) \/ Reader

ReadersSpec == ReadersInit /\ [][ReadersNext]_allVars

\* The fairness of KvCacheWriter; a reader need never be opened.
FairReadersSpec ==
  /\ ReadersSpec
  /\ WF_allVars(Worker /\ UNCHANGED reader)
  /\ WF_allVars(Join /\ UNCHANGED reader)
  /\ WF_allVars((Truncate_committed \/ Truncate_store \/ Truncate_pending) /\ UNCHANGED reader)

-----------------------------------------------------------------------------
SnapshotIndex == ReconstructIndex(disk, rlimit, rhead)

\* An open reader's token_bytes returns the token asked for or None, however far
\* the live count has moved past the reader's map and index (reader.rs:185).
SnapshotReads ==
  rpc = "open" =>
    \A index \in {SnapshotIndex} : \A c \in Cols, t \in 0 .. valid :
      TokenBytes(disk, rlimit, index, valid, c, t) \subseteq RightOrNone(c, t)

\* What was published before the file was mapped can be read by the reader that
\* mapped it, whatever is committed, extended or reopened after that.
ReaderSeesPublished ==
  rpc = "open" =>
    \A index \in {SnapshotIndex} : \A c \in Cols, t \in 0 .. rseen - 1 :
      /\ t < Len(log)
      /\ TokenBytes(disk, rlimit, index, valid, c, t) = {Token(c, log[t + 1])}

\* Opening a healthy file fails in one case only: a batch was committed between
\* the map and the decode, so that the head lies beyond the map.
RejectsOnlyByRace == [][rpc = "mapped" /\ rpc' = "none" => head >= rlimit]_allVars
=============================================================================
