------------------------ MODULE KvCacheReadersProofs ------------------------
(***************************************************************************)
(* Why a reader that opens the file beside the writer is turned away, and  *)
(* what it sees when it is not.  The reader adds no step that the writer   *)
(* can see, so what is known of the chain and of its contents holds beside *)
(* it; the file never shrinks below the length that the reader mapped; and *)
(* the blocks of the chain it decoded stay in the chain.                   *)
(*                                                                         *)
(* The last part is about a caller without that discipline, beside whom    *)
(* tokens go missing but nothing wrong is read.                            *)
(***************************************************************************)
EXTENDS KvCacheReaders, KvCachePacedProofs

\* The map lies within the file.
MapInv == rlimit \in Nat /\ rlimit <= Len(disk)

RaceStep == rpc = "mapped" /\ rpc' = "none" => head >= rlimit

-----------------------------------------------------------------------------
\* Beside a reader the writer takes its own steps or none.
LEMMA ReadersWrite == ReadersNext => [Next]_vars
<1> SUFFICES ASSUME Reader PROVE UNCHANGED vars
  BY DEF ReadersNext
<1> QED BY DEF Reader, Reader_map, Reader_decode, Reader_rejects, Reader_drop

LEMMA ReadersStep == [ReadersNext]_allVars => [Next]_vars
<1>1. CASE UNCHANGED allVars
  <2>1. UNCHANGED vars
    BY <1>1 DEF allVars
  <2> QED BY <2>1
<1> QED BY <1>1, ReadersWrite

LEMMA InitMap == ReadersInit => MapInv
<1> SUFFICES ASSUME ReadersInit PROVE MapInv
  OBVIOUS
<1>1. rlimit = 0 /\ disk = <<Header>>
  BY DEF ReadersInit, Init
<1> QED BY <1>1 DEF MapInv

LEMMA StepMap == TypeInv /\ MapInv /\ [ReadersNext]_allVars => MapInv'
<1> SUFFICES ASSUME TypeInv, MapInv, [ReadersNext]_allVars PROVE MapInv'
  OBVIOUS
<1>1. Len(disk) \in Nat /\ Len(disk') \in Nat /\ Len(disk) <= Len(disk')
  BY ReadersStep, FileGrows, LenProperties DEF Extends
<1>2. CASE UNCHANGED rlimit
  BY <1>1, <1>2 DEF MapInv
<1>3. CASE Reader_map
  BY <1>1, <1>3 DEF Reader_map, MapInv
<1>4. CASE Reader_rejects \/ Reader_drop
  BY <1>1, <1>4 DEF Reader_rejects, Reader_drop, MapInv
<1>5. CASE Reader_decode
  BY <1>2, <1>5 DEF Reader_decode
<1>6. CASE UNCHANGED reader
  BY <1>2, <1>6 DEF reader
<1> QED BY <1>3, <1>4, <1>5, <1>6 DEF ReadersNext, Reader, allVars

\* A head within the map is accepted, and so is all that hangs on it: every link
\* points further down.
LEMMA OnlyLateHeads ==
  ASSUME TypeInv, ChainInv, MapInv, ~WalkOK(disk, rlimit, head)
  PROVE  head >= rlimit
<1>1. disk \in Seq(Cell) /\ Len(disk) \in Nat /\ head \in Nat
  BY LenProperties DEF TypeInv, TypeOK
<1>2. rlimit \in Nat /\ rlimit <= Len(disk)
  BY DEF MapInv
<1> SUFFICES ASSUME head < rlimit PROVE WalkOK(disk, rlimit, head)
  BY <1>1, <1>2
<1>3. ASSUME NEW o, Linked(disk, o), o < rlimit
      PROVE  o = 0 \/ TrailerAt(disk, rlimit, o)
  BY <1>3 DEF Linked, Trailers, TrailerAt
<1>4. ASSUME NEW o \in Walk(disk, rlimit, head)
      PROVE  Linked(disk, Previous(disk, o)) /\ Previous(disk, o) < rlimit
  <2>1. o \in 0 .. rlimit - 1 /\ TrailerAt(disk, rlimit, o)
    BY DEF Walk, Trailers
  <2>2. o \in Trailers(disk, Len(disk))
    BY <1>1, <1>2, <2>1 DEF Trailers, TrailerAt
  <2>3. Linked(disk, Previous(disk, o)) /\ Previous(disk, o) < o
    BY <2>2 DEF ChainInv, ChainedFile
  <2>4. Previous(disk, o) \in Nat
    BY <2>3 DEF Linked, Trailers
  <2> QED BY <1>2, <2>1, <2>3, <2>4
<1>5. Linked(disk, head)
  BY DEF ChainInv
<1> QED BY <1>3, <1>4, <1>5 DEF WalkOK

LEMMA StepRace == TypeInv /\ ChainInv /\ MapInv /\ [ReadersNext]_allVars => RaceStep
<1> SUFFICES ASSUME TypeInv, ChainInv, MapInv, [ReadersNext]_allVars,
                    rpc = "mapped", rpc' = "none"
             PROVE  head >= rlimit
  BY DEF RaceStep
<1>1. Reader_rejects
  BY DEF ReadersNext, Reader, Reader_map, Reader_decode, Reader_drop, allVars, reader
<1> QED BY <1>1, OnlyLateHeads DEF Reader_rejects

LEMMA ReadersRefine == ReadersSpec => Spec
<1>1. ReadersInit => Init
  BY DEF ReadersInit
<1> QED BY <1>1, ReadersStep, PTL DEF ReadersSpec, Spec

LEMMA MapInvariant == ReadersSpec => []MapInv
BY ReadersRefine, InitMap, StepMap, TypeInvariant, PTL DEF ReadersSpec

\* Whatever the writer did, fails or crashed at, open rejects the file for one
\* reason only: a batch was committed between the map and the decode.
THEOREM RejectionsAreRaces == ReadersSpec => RejectsOnlyByRace
<1>1. ReadersSpec => Spec
  BY ReadersRefine
<1>2. ReadersSpec => []MapInv
  BY MapInvariant
<1>3. TypeInv /\ ChainInv /\ MapInv /\ [ReadersNext]_allVars => [RaceStep]_allVars
  BY StepRace
<1> QED BY <1>1, <1>2, <1>3, TypeInvariant, ChainInvariant, PTL
        DEF ReadersSpec, RejectsOnlyByRace, RaceStep

-----------------------------------------------------------------------------
(***************************************************************************)
(* What the open reader of a disciplined writer's file finds: at least     *)
(* what was published when it mapped the file.                             *)
(***************************************************************************)
\* The first n frames of lg can be looked up.
Seen(f, index, n, lg) ==
  \A c \in Cols, b \in Nat, r \in 0 .. BLOCK_TOKEN_COUNT - 1 :
    Start(b) + r < n => Found(f, index, c, b, r, Token(c, lg[Start(b) + r + 1]))

ViewInv ==
  /\ rseen \in Nat
  /\ rpc # "none" => rseen <= Published
  /\ rpc = "open" =>
       /\ rhead \in Nat /\ Linked(disk, rhead) /\ (rhead = 0 \/ rhead < rlimit)
       /\ Seen(disk, ReconstructIndex(disk, Len(disk), rhead), rseen, log)

LEMMA SeenGrows ==
  ASSUME NEW f \in Seq(Cell), NEW g \in Seq(Cell), Extends(f, g), NEW index,
         NEW n \in Nat, NEW old, NEW lg, Keeps(old, lg, n), Seen(f, index, n, old)
  PROVE  Seen(g, index, n, lg)
<1> SUFFICES ASSUME NEW c \in Cols, NEW b \in Nat, NEW r \in 0 .. BLOCK_TOKEN_COUNT - 1,
                    Start(b) + r < n
             PROVE  Found(g, index, c, b, r, Token(c, lg[Start(b) + r + 1]))
  BY DEF Seen
<1>1. r \in Nat /\ Start(b) \in Nat
  BY BlockSize, Starts
<1>2. Start(b) + r + 1 \in 1 .. n
  BY <1>1
<1>3. lg[Start(b) + r + 1] = old[Start(b) + r + 1]
  BY <1>2 DEF Keeps
<1>4. Found(f, index, c, b, r, Token(c, old[Start(b) + r + 1]))
  BY DEF Seen
<1> QED BY <1>1, <1>3, <1>4, FoundGrows

\* No step touches the frames that are published.
LEMMA LogKeeps ==
  ASSUME AllInv, LogStep
  PROVE  Published <= Published' /\ Keeps(log, log', Published)
<1>1. /\ Published \in Nat /\ Published <= Len(log) /\ log \in Seq(Frames) /\ Len(log) \in Nat
  BY PublishedNat, PublishedBound, LenProperties DEF AllInv, TypeInv, TypeOK
<1> HIDE DEF Published
<1>2. CASE log' = log /\ Published <= Published'
  BY <1>1, <1>2 DEF Keeps
<1>3. CASE Published' = Published /\ \E f \in Frames : log' = Append(log, f)
  BY <1>1, <1>3, AppendKeeps
<1>4. CASE /\ Published' = Published
           /\ \E n \in Nat : Published <= n /\ n <= Len(log) /\ log' = FirstFrames(log, n)
  <2>1. PICK n \in Nat : Published <= n /\ n <= Len(log) /\ log' = FirstFrames(log, n)
    BY <1>4
  <2>2. Len(log') = n
    BY <1>1, <2>1, FirstFramesPrefix
  <2>3. \A i \in 1 .. Published : log'[i] = log[i]
    BY <1>1, <2>1 DEF FirstFrames
  <2> QED BY <1>1, <1>4, <2>1, <2>2, <2>3 DEF Keeps
<1> QED BY <1>2, <1>3, <1>4 DEF LogStep

LEMMA WriterView ==
  ASSUME Disciplined, AllInv, [Next]_vars, ViewInv, UNCHANGED reader
  PROVE  ViewInv'
<1>1. /\ disk \in Seq(Cell) /\ disk' \in Seq(Cell) /\ Extends(disk, disk')
      /\ Len(disk) \in Nat /\ ChainedFile(disk)
      /\ Published \in Nat /\ Published' \in Nat
  <2>1. TypeInv'
    BY StepType DEF AllInv
  <2> QED BY <2>1, FileGrows, PublishedNat, LenProperties
          DEF AllInv, ChainInv, TypeInv, TypeOK, Published
<1>2. Published <= Published' /\ Keeps(log, log', Published) /\ Published <= Len(log)
  BY StepLog, LogKeeps, PublishedBound
<1> HIDE DEF Published
<1>3. rseen' = rseen /\ rpc' = rpc /\ rhead' = rhead /\ rlimit' = rlimit /\ rseen \in Nat
  BY DEF reader, ViewInv
<1>4. rpc # "none" => rseen <= Published'
  BY <1>1, <1>2, <1>3 DEF ViewInv
<1>5. ASSUME rpc = "open"
      PROVE  /\ Linked(disk', rhead)
             /\ Seen(disk', ReconstructIndex(disk', Len(disk'), rhead), rseen, log')
  <2>1. /\ rhead \in Nat /\ Linked(disk, rhead) /\ rseen <= Published
        /\ Seen(disk, ReconstructIndex(disk, Len(disk), rhead), rseen, log)
    BY <1>5 DEF ViewInv
  <2>2. rhead # 0 => rhead < Len(disk)
    BY <2>1, TrailerCells, <1>1 DEF Linked
  <2>3. ReconstructIndex(disk', Len(disk'), rhead) = ReconstructIndex(disk, Len(disk), rhead)
    BY <1>1, <2>1, <2>2, IndexGrows DEF Linked
  <2>4. Keeps(log, log', rseen)
    <3>1. Len(log') \in Nat
      BY StepType, LenProperties DEF AllInv, TypeInv, TypeOK
    <3> QED BY <1>1, <1>2, <1>3, <2>1, <3>1 DEF Keeps
  <2>5. Linked(disk', rhead)
    BY <1>1, <2>1, LinkedGrows
  <2> DEFINE I == ReconstructIndex(disk, Len(disk), rhead)
  <2> HIDE DEF I
  <2>6. Seen(disk', I, rseen, log')
    <3>1. Seen(disk, I, rseen, log)
      BY <2>1 DEF I
    <3> QED BY <1>1, <1>3, <2>4, <3>1, SeenGrows
  <2> QED BY <2>3, <2>5, <2>6 DEF I
<1> QED BY <1>3, <1>4, <1>5 DEF ViewInv

LEMMA DecodeView ==
  ASSUME AllInv, MapInv, ViewInv, Reader_decode
  PROVE  ViewInv'
<1>1. /\ disk \in Seq(Cell) /\ Len(disk) \in Nat /\ head \in Nat /\ Linked(disk, head)
      /\ Published \in Nat
  BY PublishedNat, LenProperties DEF AllInv, ChainInv, TypeInv, TypeOK
<1>2. UNCHANGED vars /\ rseen' = rseen /\ rlimit' = rlimit /\ rhead' = head
  BY DEF Reader_decode
<1>3. rseen \in Nat /\ rseen <= Published
  BY DEF Reader_decode, ViewInv
<1>4. head = 0 \/ head < rlimit
  BY DEF Reader_decode, WalkOK, TrailerAt
<1>5. Published' = Published /\ disk' = disk /\ log' = log
  BY <1>2 DEF vars, file, worker, Published
<1>6. Seen(disk, ReconstructIndex(disk, Len(disk), head), rseen, log)
  <2>1. StoredIn(disk, ReconstructIndex(disk, Len(disk), head), Published, log)
    BY DEF AllInv, ContentsInv, StoredInv, Stored
  <2> DEFINE I == ReconstructIndex(disk, Len(disk), head)
  <2> HIDE DEF I, Published
  <2>2. \A b \in Nat, r \in 0 .. BLOCK_TOKEN_COUNT - 1 :
          Start(b) + r < rseen => Start(b) + r < Published
    <3> TAKE b \in Nat, r \in 0 .. BLOCK_TOKEN_COUNT - 1
    <3>1. Start(b) \in Nat /\ r \in Nat
      BY Starts, BlockSize
    <3> QED BY <1>1, <1>3, <3>1
  <2>3. StoredIn(disk, I, Published, log)
    BY <2>1 DEF I
  <2>4. Seen(disk, I, rseen, log)
    BY <2>2, <2>3 DEF StoredIn, Seen
  <2> QED BY <2>4 DEF I
<1> HIDE DEF Published
<1> QED BY <1>1, <1>2, <1>3, <1>4, <1>5, <1>6 DEF ViewInv

LEMMA StepView ==
  ASSUME Disciplined, AllInv, MapInv, ViewInv, [ReadersNext]_allVars
  PROVE  ViewInv'
<1>1. CASE UNCHANGED reader
  BY <1>1, ReadersStep, WriterView
<1>2. CASE Reader_map
  <2>1. /\ rpc' = "mapped" /\ rseen' = Published /\ UNCHANGED vars
    BY <1>2 DEF Reader_map
  <2>2. Published' = Published
    BY <2>1 DEF vars, file, worker, Published
  <2>3. Published \in Nat
    BY PublishedNat DEF AllInv
  <2> HIDE DEF Published
  <2> QED BY <2>1, <2>2, <2>3 DEF ViewInv
<1>3. CASE Reader_rejects \/ Reader_drop
  BY <1>3 DEF Reader_rejects, Reader_drop, ViewInv
<1>4. CASE Reader_decode
  BY <1>4, DecodeView
<1> QED BY <1>1, <1>2, <1>3, <1>4 DEF ReadersNext, Reader, allVars

\* The entries that an index holds span tokens before the head it was made from.
LEMMA IndexBelowHead ==
  ASSUME TypeInv, ChainInv, NEW h \in Nat, Linked(disk, h),
         NEW e \in ReconstructIndex(disk, Len(disk), h), e.byte_len > 0
  PROVE  e.byte_offset + e.byte_len < h
<1> DEFINE W == Walk(disk, Len(disk), h)
<1>1. /\ disk \in Seq(Cell) /\ Len(disk) \in Nat /\ ChainedFile(disk)
  BY LenProperties DEF ChainInv, TypeInv, TypeOK
<1>2. W \subseteq 0 .. h
  <2>1. \A o \in 0 .. h : TrailerAt(disk, Len(disk), o) => Previous(disk, o) \in 0 .. o
    <3>1. \A o \in Nat : TrailerAt(disk, Len(disk), o) => o \in Trailers(disk, Len(disk))
      BY <1>1 DEF Trailers, TrailerAt
    <3>2. \A o \in Trailers(disk, Len(disk)) :
            Previous(disk, o) \in Nat /\ Previous(disk, o) < o /\ o \in Nat
      BY <1>1, TrailerCells DEF ChainedFile
    <3> QED BY <3>1, <3>2
  <2> QED BY <1>1, <2>1, WalkWithin
<1>3. PICK o \in W : e \in IndexedEntries(disk, o)
  BY DEF ReconstructIndex, Newest
<1>4. o \in Trailers(disk, Len(disk)) /\ o \in Nat /\ o <= h
  BY <1>2, <1>3 DEF Walk
<1> HIDE DEF W
<1>5. o \in DOMAIN disk /\ disk[o].kind = "index" /\ IndexedEntries(disk, o) = {disk[o].entries[c] : c \in Cols}
      /\ \A c \in Cols : disk[o].entries[c] \in Entry
  BY <1>1, <1>4, TrailerCells DEF IndexedEntries
<1>6. PICK c \in Cols : e = disk[o].entries[c]
  BY <1>3, <1>5
<1>7. e.byte_offset \in Nat /\ e.byte_len \in Nat
  BY <1>5, <1>6 DEF Entry
<1>8. Spans(disk, o, e, c)
  BY <1>5, <1>6 DEF TypeInv, EntriesSound
<1>9. e.byte_offset + e.byte_len \in e.byte_offset + 1 .. e.byte_offset + e.byte_len
  BY <1>7
<1>10. e.byte_offset + e.byte_len < o
  BY <1>8, <1>9 DEF Spans
<1> QED BY <1>4, <1>7, <1>10

LEMMA SeesFromInv == AllInv /\ MapInv /\ ViewInv => ReaderSeesPublished
<1> SUFFICES ASSUME AllInv, MapInv, ViewInv, rpc = "open",
                    NEW c \in Cols, NEW t \in 0 .. rseen - 1
             PROVE  /\ t < Len(log)
                    /\ TokenBytes(disk, rlimit, SnapshotIndex, valid, c, t) = {Token(c, log[t + 1])}
  BY DEF ReaderSeesPublished
<1> DEFINE b == t \div BLOCK_TOKEN_COUNT
           r == t % BLOCK_TOKEN_COUNT
<1>1. /\ Published \in Nat /\ Published <= valid /\ Published <= Len(log) /\ rseen <= Published
      /\ valid \in Nat /\ Len(log) \in Nat /\ Len(disk) \in Nat /\ rseen \in Nat
      /\ rlimit \in Nat /\ rlimit <= Len(disk) /\ disk \in Seq(Cell)
  BY PublishedNat, PublishedBound, LenProperties DEF AllInv, TypeInv, TypeOK, ViewInv, MapInv
<1>2. t \in Nat /\ t < rseen /\ t < valid /\ t < Len(log)
  <2> HIDE DEF Published
  <2> QED BY <1>1
<1>3. b \in Nat /\ r \in Nat /\ r < BLOCK_TOKEN_COUNT /\ t = Start(b) + r
  BY <1>2, BlockOfToken
<1>4. /\ rhead \in Nat /\ Linked(disk, rhead) /\ (rhead = 0 \/ rhead < rlimit)
      /\ Seen(disk, ReconstructIndex(disk, Len(disk), rhead), rseen, log)
  BY DEF ViewInv
<1>5. SnapshotIndex = ReconstructIndex(disk, Len(disk), rhead)
  <2>1. Extends(disk, disk) /\ ChainedFile(disk)
    BY <1>1 DEF Extends, AllInv, ChainInv
  <2> QED BY <1>1, <1>4, <2>1, IndexGrows DEF Linked, SnapshotIndex
<1> DEFINE x == Token(c, log[t + 1])
<1>6. PICK e \in Entry : /\ Get(SnapshotIndex, c, b) = {e}
                         /\ r < e.byte_len /\ e.byte_offset + e.byte_len <= Len(disk)
                         /\ At(disk, e.byte_offset + r) = x
  <2> HIDE DEF b, r
  <2>1. Start(b) + r + 1 = t + 1 /\ r \in 0 .. BLOCK_TOKEN_COUNT - 1 /\ Start(b) + r < rseen
    BY <1>2, <1>3, BlockSize
  <2>2. Seen(disk, SnapshotIndex, rseen, log)
    BY <1>4, <1>5
  <2>3. Found(disk, SnapshotIndex, c, b, r, x)
    BY <1>3, <2>1, <2>2 DEF Seen
  <2> QED BY <2>3 DEF Found
<1>7. e.byte_offset + r < rlimit
  <2> HIDE DEF r
  <2>1. e.byte_offset \in Nat /\ e.byte_len \in Nat
    BY DEF Entry
  <2>2. e \in ReconstructIndex(disk, Len(disk), rhead) /\ e.byte_len > 0
    BY <1>3, <1>5, <1>6, <2>1 DEF Get
  <2>3. e.byte_offset + e.byte_len < rhead
    BY <1>4, <2>2, IndexBelowHead DEF AllInv
  <2> QED BY <1>1, <1>3, <1>4, <1>6, <2>1, <2>3
<1>8. Slice(disk, rlimit, e.byte_offset + r) = x
  BY <1>6, <1>7 DEF Slice
<1>9. TokenBytes(disk, rlimit, SnapshotIndex, valid, c, t)
        = {Slice(disk, rlimit, d.byte_offset + r) : d \in {d \in Get(SnapshotIndex, c, b) : t < valid}}
  BY DEF TokenBytes
<1> HIDE DEF x, b, r
<1>10. TokenBytes(disk, rlimit, SnapshotIndex, valid, c, t) = {x}
  BY <1>2, <1>6, <1>8, <1>9
<1> QED BY <1>2, <1>10 DEF x

\* Whatever a disciplined writer commits, truncates, fails at or reopens between a
\* reader's map and its reads, and however old its index has become, the reader reads
\* all that was published when it mapped the file, and reads it right.
THEOREM ReadersSeePublished == Disciplined => (ReadersSpec => []ReaderSeesPublished)
<1> SUFFICES ASSUME Disciplined PROVE ReadersSpec => []ReaderSeesPublished
  OBVIOUS
<1>1. ReadersSpec => []AllInv
  BY ReadersRefine, ContentsInvariant, PTL
<1>2. ReadersInit => ViewInv
  BY DEF ReadersInit, ViewInv
<1>3. AllInv /\ MapInv /\ ViewInv /\ [ReadersNext]_allVars => ViewInv'
  BY StepView
<1>4. ReadersSpec => []ViewInv
  BY <1>1, <1>2, <1>3, MapInvariant, PTL DEF ReadersSpec
<1> QED BY <1>1, <1>4, MapInvariant, SeesFromInv, PTL

-----------------------------------------------------------------------------
(***************************************************************************)
(* Who never reads anything wrong: beside a caller who only appends, and   *)
(* so fills one block after the other, but waits for nobody.  Batches may  *)
(* unlink each other and be lost, so nothing is said of what is found; but *)
(* every index block that was ever written, in the chain or not, names the *)
(* tokens of its block.                                                    *)
(***************************************************************************)
Rushed == Budget["flush"] = 0 /\ Budget["truncate"] = 0 /\ Budget["reopen"] = 0

\* n tokens of block b are the frames of lg behind the first b blocks, all of the block
\* or, once nothing more is appended (p is the caller's pc), all there are.
Sized(b, n, p, lg) ==
  /\ Start(b) + n <= Len(lg)
  /\ n = BLOCK_TOKEN_COUNT \/ (p # "ready" /\ Start(b) + n = Len(lg))

\* Entry e of column c locates the tokens of its block.
Laid(f, e, c, p, lg) ==
  /\ Sized(e.block_idx, e.byte_len, p, lg)
  /\ Written(f, e, c, e.byte_len, Start(e.block_idx), lg)

LaidFile(f, p, lg) ==
  \A o \in 1 .. Len(f) : f[o].kind = "index" => \A c \in Cols : Laid(f, f[o].entries[c], c, p, lg)

\* Batch b brings the tokens of its block.
Sent(b, p, lg) ==
  /\ Sized(b.block_idx, b.token_count, p, lg)
  /\ \A c \in Cols : /\ b.entries[c].block_idx = b.block_idx
                    /\ Filled(b.payloads[c], c, b.token_count, Start(b.block_idx), lg)

SentQueue(q, p, lg) == \A i \in 1 .. Len(q) : q[i].cmd = "Flush" => Sent(q[i].batch, p, lg)

HandInv ==
  /\ wpc \in {"payload", "index"} =>
       /\ Sent(wbatch, pc, log)
       /\ \A c \in Cols : c < NextCol(wpc, wcol) => Laid(disk, wbatch.entries[c], c, pc, log)
  /\ wpc # "payload" => wcol = 0

HeldInv ==
  pc = "ready" /\ wpc # "dead" =>
    Held(buffers, pending_block_idx, log) /\ buffers[0].token_count < BLOCK_TOKEN_COUNT

RushedInv ==
  /\ pc # "load"
  /\ LaidFile(disk, pc, log) /\ SentQueue(queue, pc, log) /\ HandInv /\ HeldInv

\* What a step may do to the log: while frames are appended it keeps those it has,
\* afterwards it stays.
Later(p, lg, p2, lg2) ==
  \/ lg2 = lg /\ (p2 = "ready" => p = "ready")
  \/ p = "ready" /\ p2 = "ready" /\ Keeps(lg, lg2, Len(lg))

-----------------------------------------------------------------------------
LEMMA SizedStays ==
  ASSUME NEW b \in Nat, NEW n \in Nat, NEW p, NEW p2, NEW lg \in Seq(Frames), NEW lg2 \in Seq(Frames),
         Later(p, lg, p2, lg2), Sized(b, n, p, lg)
  PROVE  Sized(b, n, p2, lg2) /\ Keeps(lg, lg2, Start(b) + n)
<1>1. Start(b) \in Nat /\ Len(lg) \in Nat /\ Len(lg2) \in Nat
  BY Starts, LenProperties
<1>2. CASE lg2 = lg /\ (p2 = "ready" => p = "ready")
  BY <1>1, <1>2 DEF Sized, Keeps
<1>3. CASE p = "ready" /\ p2 = "ready" /\ Keeps(lg, lg2, Len(lg))
  <2>1. n = BLOCK_TOKEN_COUNT /\ Start(b) + n <= Len(lg) /\ Len(lg) <= Len(lg2)
    BY <1>3 DEF Sized, Keeps
  <2>2. \A i \in 1 .. Start(b) + n : i \in 1 .. Len(lg)
    BY <1>1, <2>1
  <2> QED BY <1>1, <1>3, <2>1, <2>2 DEF Sized, Keeps
<1> QED BY <1>2, <1>3 DEF Later

LEMMA LaidStays ==
  ASSUME NEW f \in Seq(Cell), NEW g \in Seq(Cell), Extends(f, g), NEW e \in Entry, NEW c,
         NEW p, NEW p2, NEW lg \in Seq(Frames), NEW lg2 \in Seq(Frames),
         Later(p, lg, p2, lg2), Laid(f, e, c, p, lg)
  PROVE  Laid(g, e, c, p2, lg2)
<1>1. e.block_idx \in Nat /\ e.byte_len \in Nat /\ Start(e.block_idx) \in Nat
  BY Starts DEF Entry
<1>2. Sized(e.block_idx, e.byte_len, p2, lg2) /\ Keeps(lg, lg2, Start(e.block_idx) + e.byte_len)
  BY <1>1, SizedStays DEF Laid
<1>3. Written(g, e, c, e.byte_len, Start(e.block_idx), lg2)
  BY <1>1, <1>2, WrittenKeeps DEF Laid
<1> QED BY <1>2, <1>3 DEF Laid

LEMMA SentStays ==
  ASSUME NEW b \in FlushBatch, NEW p, NEW p2, NEW lg \in Seq(Frames), NEW lg2 \in Seq(Frames),
         Later(p, lg, p2, lg2), Sent(b, p, lg)
  PROVE  Sent(b, p2, lg2)
<1>1. b.block_idx \in Nat /\ b.token_count \in Nat /\ Start(b.block_idx) \in Nat
  BY Starts DEF FlushBatch
<1>2. Sized(b.block_idx, b.token_count, p2, lg2) /\ Keeps(lg, lg2, Start(b.block_idx) + b.token_count)
  BY <1>1, SizedStays DEF Sent
<1>3. \A c \in Cols : Filled(b.payloads[c], c, b.token_count, Start(b.block_idx), lg2)
  BY <1>1, <1>2, FilledKeeps DEF Sent
<1> QED BY <1>2, <1>3 DEF Sent

LEMMA LaidFileStays ==
  ASSUME NEW f \in Seq(Cell), NEW g \in Seq(Cell), Extends(f, g),
         NEW p, NEW p2, NEW lg \in Seq(Frames), NEW lg2 \in Seq(Frames),
         Later(p, lg, p2, lg2), LaidFile(f, p, lg),
         \A o \in Len(f) + 1 .. Len(g) : g[o].kind = "index" =>
           \A c \in Cols : Laid(g, g[o].entries[c], c, p2, lg2)
  PROVE  LaidFile(g, p2, lg2)
<1> SUFFICES ASSUME NEW o \in 1 .. Len(g), g[o].kind = "index", NEW c \in Cols
             PROVE  Laid(g, g[o].entries[c], c, p2, lg2)
  BY DEF LaidFile
<1>1. Len(f) \in Nat /\ Len(g) \in Nat
  BY LenProperties
<1>2. CASE o \in 1 .. Len(f)
  <2>1. g[o] = f[o] /\ f[o] \in Cell
    BY <1>2, ElementOfSeq DEF Extends
  <2>2. f[o].entries[c] \in Entry
    BY <2>1 DEF Cell, Header, Torn
  <2>3. Laid(f, f[o].entries[c], c, p, lg)
    BY <1>2, <2>1 DEF LaidFile
  <2> QED BY <2>1, <2>2, <2>3, LaidStays
<1>3. CASE o \in Len(f) + 1 .. Len(g)
  BY <1>3
<1> QED BY <1>1, <1>2, <1>3

\* The caller appends and drops.
LEMMA RushedCaller ==
  ASSUME Rushed, TypeInv, OrderInv, pc # "load", Caller
  PROVE  Append_frame \/ Drop \/ Join
<1>1. \A k \in {"flush", "truncate", "reopen"} : ~(budget[k] > 0)
  <2>1. \A k \in {"flush", "truncate", "reopen"} : budget[k] \in Nat /\ budget[k] <= 0
    BY DEF TypeInv, TypeOK, BudgetKinds, Rushed
  <2> QED BY <2>1
<1>2. ~Flush_pending /\ ~Open /\ \A count \in 0 .. current_token_count : ~Truncate_epoch(count)
  BY <1>1 DEF Flush_pending, Open, Truncate_epoch, Spend
<1>3. ~Truncate_committed /\ ~Truncate_store /\ ~Truncate_pending
  BY DEF Truncate_committed, Truncate_store, Truncate_pending, OrderInv
<1> QED BY <1>2, <1>3 DEF Caller

LEMMA StepLater ==
  ASSUME Rushed, TypeInv, OrderInv, pc # "load", [Next]_vars
  PROVE  Later(pc, log, pc', log') /\ pc' # "load" /\ log \in Seq(Frames) /\ log' \in Seq(Frames)
<1>1. log \in Seq(Frames) /\ log' \in Seq(Frames)
  BY StepType DEF TypeInv, TypeOK
<1>2. CASE Append_frame
  <2>1. pc = "ready" /\ pc' = "ready" /\ (log' = Append(log, NextFrame) \/ UNCHANGED log)
    BY <1>2 DEF Append_frame
  <2>2. NextFrame \in Frames
    BY <1>2, AppendedBuffers
  <2> HIDE DEF NextFrame
  <2>3. Len(log) \in Nat /\ Len(log) <= Len(log)
    BY <1>1, LenProperties
  <2>4. Keeps(log, Append(log, NextFrame), Len(log))
    BY <1>1, <2>2, <2>3, AppendKeeps
  <2> QED BY <1>1, <2>1, <2>4 DEF Later
<1>3. CASE Drop \/ Join
  BY <1>1, <1>3 DEF Drop, Join, Gone, Later
<1>4. CASE Worker \/ Worker_fails \/ UNCHANGED vars
  <2>1. UNCHANGED <<pc, log>>
    BY <1>4 DEF Worker, Worker_start, Worker_receive, Worker_payload, Worker_index, Worker_trailer,
       Worker_check, Worker_load, Worker_store, Worker_head, Worker_fails, vars
  <2> QED BY <1>1, <2>1 DEF Later
<1>5. CASE Crash
  BY <1>1, <1>5 DEF Crash, Gone, Later
<1> QED BY <1>2, <1>3, <1>4, <1>5, RushedCaller DEF Next

\* What the worker and a crash append; an index block only in its own step.
LEMMA GrownCells ==
  ASSUME TypeInv, [Next]_vars, ~Worker_index
  PROVE  \A o \in Len(disk) + 1 .. Len(disk') : disk'[o].kind # "index"
<1>1. disk \in Seq(Cell) /\ Len(disk) \in Nat
  BY LenProperties DEF TypeInv, TypeOK
<1>2. CASE UNCHANGED disk
  BY <1>1, <1>2
<1>3. ASSUME NEW x \in Cell, disk' = Append(disk, x), x.kind # "index"
      PROVE  \A o \in Len(disk) + 1 .. Len(disk') : disk'[o].kind # "index"
  <2>1. Len(disk') = Len(disk) + 1 /\ disk'[Len(disk) + 1] = x
    BY <1>1, <1>3, AppendProperties
  <2>2. \A o \in Len(disk) + 1 .. Len(disk') : o = Len(disk) + 1
    BY <1>1, <2>1
  <2> QED BY <1>3, <2>1, <2>2
<1>4. CASE Worker_payload
  <2> DEFINE payload == wbatch.payloads[wcol]
  <2>1. payload \in Seq(ColumnToken(wcol)) /\ wcol \in Cols /\ disk' = disk \o payload
    BY <1>4 DEF TypeInv, TypeOK, PendingSound, Worker_payload
  <2> HIDE DEF payload
  <2>2. payload \in Seq(Cell) /\ Len(payload) \in Nat
    BY <2>1, TokensAreCells, LenProperties
  <2>3. /\ Len(disk') = Len(disk) + Len(payload)
        /\ \A j \in 1 .. Len(disk) + Len(payload) :
             disk'[j] = IF j <= Len(disk) THEN disk[j] ELSE payload[j - Len(disk)]
    BY <1>1, <2>1, <2>2, ConcatProperties
  <2>4. ASSUME NEW o \in Len(disk) + 1 .. Len(disk')
        PROVE  disk'[o].kind # "index"
    <3>1. /\ o \in 1 .. Len(disk) + Len(payload) /\ ~(o <= Len(disk))
          /\ o - Len(disk) \in 1 .. Len(payload)
      BY <1>1, <2>2, <2>3
    <3>2. disk'[o] = payload[o - Len(disk)] /\ payload[o - Len(disk)] \in ColumnToken(wcol)
      BY <2>1, <2>3, <3>1, ElementOfSeq
    <3> QED BY <3>2 DEF ColumnToken
  <2> QED BY <2>4
<1>5. CASE Worker_trailer
  <2>1. IndexTrailer(wbatch.prev_index_offset) \in Cell
        /\ IndexTrailer(wbatch.prev_index_offset).kind # "index"
    BY DEF TypeInv, TypeOK, FlushBatch, IndexTrailer, Cell
  <2> QED BY <1>3, <1>5, <2>1 DEF Worker_trailer
<1>6. CASE Worker_fails \/ Crash
  <2>1. MayTear
    BY <1>6 DEF Worker_fails, Crash
  <2>2. Torn \in Cell /\ Torn.kind # "index"
    BY DEF Cell, Torn
  <2> QED BY <1>2, <1>3, <2>1, <2>2 DEF MayTear
<1>7. CASE Caller \/ UNCHANGED vars
  BY <1>2, <1>7 DEF Caller, Append_frame, Flush_pending, Truncate_epoch, Truncate_committed,
     Truncate_store, Truncate_pending, Drop, Join, Open, vars, file
<1>8. CASE Worker_start \/ Worker_receive \/ Worker_check \/ Worker_load \/ Worker_store
           \/ Worker_head
  BY <1>2, <1>8 DEF Worker_start, Worker_receive, Worker_check, Worker_load, Worker_store,
     Worker_head, file
<1> QED BY <1>4, <1>5, <1>6, <1>7, <1>8 DEF Next, Worker

\* The index block of a batch names what has been written for it.
LEMMA StepLaidFile ==
  ASSUME Rushed, TypeInv, OrderInv, RushedInv, [Next]_vars
  PROVE  LaidFile(disk', pc', log')
<1>1. disk \in Seq(Cell) /\ disk' \in Seq(Cell) /\ Extends(disk, disk') /\ Len(disk) \in Nat
  BY FileGrows, LenProperties
<1>2. Later(pc, log, pc', log') /\ log \in Seq(Frames) /\ log' \in Seq(Frames)
  BY StepLater DEF RushedInv
<1>3. LaidFile(disk, pc, log)
  BY DEF RushedInv
<1>4. CASE Worker_index
  <2> DEFINE x == IndexBlock(wbatch.prev_index_offset, wbatch.block_idx, wbatch.entries)
  <2>1. wpc = "index" /\ disk' = Append(disk, x) /\ x.entries = wbatch.entries
    BY <1>4 DEF Worker_index, IndexBlock
  <2> HIDE DEF x
  <2>2. Len(disk') = Len(disk) + 1 /\ disk'[Len(disk) + 1] = x
    <3>1. x \in Cell
      BY DEF x, TypeInv, TypeOK, FlushBatch, IndexBlock, Cell
    <3> QED BY <1>1, <2>1, <3>1, AppendProperties
  <2>3. ASSUME NEW c \in Cols
        PROVE  Laid(disk', x.entries[c], c, pc', log')
    <3>1. c < NextCol(wpc, wcol)
      BY <2>1, ColumnsAssumption DEF NextCol, Cols
    <3>2. Laid(disk, wbatch.entries[c], c, pc, log)
      BY <2>1, <3>1 DEF RushedInv, HandInv
    <3>3. wbatch.entries[c] \in Entry
      BY DEF TypeInv, TypeOK, FlushBatch
    <3>4. Laid(disk', wbatch.entries[c], c, pc', log')
      BY <1>1, <1>2, <3>2, <3>3, LaidStays
    <3> QED BY <2>1, <3>4
  <2>4. \A o \in Len(disk) + 1 .. Len(disk') : o = Len(disk) + 1
    BY <1>1, <2>2
  <2>5. \A o \in Len(disk) + 1 .. Len(disk') : disk'[o].kind = "index" =>
          \A c \in Cols : Laid(disk', disk'[o].entries[c], c, pc', log')
    BY <2>2, <2>3, <2>4
  <2> QED BY <1>1, <1>2, <1>3, <2>5, LaidFileStays
<1>5. CASE ~Worker_index
  BY <1>1, <1>2, <1>3, <1>5, GrownCells, LaidFileStays
<1> QED BY <1>4, <1>5

\* The batch of buffers that hold what has been appended.
LEMMA BatchSent ==
  ASSUME TypeInv, NEW bufs, SoundBuffers(bufs), NEW lg, Held(bufs, pending_block_idx, lg), NEW p,
         p # "ready" \/ bufs[0].token_count = BLOCK_TOKEN_COUNT
  PROVE  Sent(BatchOf(bufs), p, lg)
<1> DEFINE b == BatchOf(bufs)
<1>1. /\ b.block_idx = pending_block_idx /\ b.token_count = bufs[0].token_count
      /\ \A c \in Cols : b.payloads[c] = bufs[c].data /\ b.entries[c].block_idx = bufs[c].block_idx
  BY DEF BatchOf
<1>2. bufs[0].token_count \in Nat /\ Start(pending_block_idx) \in Nat
  BY ColsNat, Starts DEF SoundBuffers, ColumnBuffer, TypeInv, TypeOK
<1> HIDE DEF b
<1>3. Len(lg) = Start(b.block_idx) + b.token_count /\ Len(lg) \in Nat
  BY <1>1, <1>2 DEF Held
<1>4. Sized(b.block_idx, b.token_count, p, lg)
  BY <1>1, <1>3 DEF Sized
<1>5. \A c \in Cols : /\ b.entries[c].block_idx = b.block_idx
                     /\ Filled(b.payloads[c], c, b.token_count, Start(b.block_idx), lg)
  BY <1>1 DEF Held
<1> QED BY <1>4, <1>5 DEF Sent, b

LEMMA SentQueueStays ==
  ASSUME NEW q \in Seq(FlushCommand), NEW p, NEW p2, NEW lg \in Seq(Frames), NEW lg2 \in Seq(Frames),
         Later(p, lg, p2, lg2), SentQueue(q, p, lg)
  PROVE  SentQueue(q, p2, lg2)
<1> SUFFICES ASSUME NEW i \in 1 .. Len(q), q[i].cmd = "Flush" PROVE Sent(q[i].batch, p2, lg2)
  BY DEF SentQueue
<1>1. q[i] \in FlushCommand
  BY ElementOfSeq
<1>2. q[i].batch \in FlushBatch /\ Sent(q[i].batch, p, lg)
  BY <1>1 DEF FlushCommand, SentQueue
<1> QED BY <1>2, SentStays

\* flush_block: what it queues is right if the worker can still receive it.
LEMMA FlushSentQueue ==
  ASSUME TypeInv, OrderInv, NEW bufs, SoundBuffers(bufs), NEW tail \in {<<>>, <<Stop>>},
         FlushBlock(bufs, tail), wpc = "dead" => tail = <<>>,
         pc = "ready", SentQueue(queue, pc, log), Later(pc, log, pc', log'),
         log \in Seq(Frames), log' \in Seq(Frames),
         wpc # "dead" => Held(bufs, pending_block_idx, log'),
         wpc # "dead" => pc' # "ready" \/ bufs[0].token_count = BLOCK_TOKEN_COUNT
  PROVE  SentQueue(queue', pc', log')
<1>1. queue \in Seq(FlushCommand)
  BY DEF TypeInv, TypeOK
<1>2. SentQueue(queue, pc', log')
  BY <1>1, SentQueueStays
<1>3. CASE wpc = "dead"
  <2>1. ~FlushSent(bufs, tail) /\ queue = <<>> /\ tail = <<>>
    BY <1>3 DEF FlushSent, ReceiverAlive, OrderInv
  <2>2. queue' = <<>>
    BY <2>1 DEF FlushBlock, FlushNothing, FlushLost
  <2>3. Len(queue') = 0
    BY <2>2
  <2> QED BY <2>3 DEF SentQueue
<1>4. CASE wpc # "dead"
  <2>1. Sent(BatchOf(bufs), pc', log')
    BY <1>4, BatchSent
  <2> HIDE DEF BatchOf
  <2>2. Stop.cmd # "Flush"
    BY DEF Stop
  <2>3. ASSUME NEW i \in 1 .. Len(queue'), queue'[i].cmd = "Flush"
        PROVE  Sent(queue'[i].batch, pc', log')
    <3>1. \/ i \in 1 .. Len(queue) /\ queue'[i] = queue[i]
          \/ queue'[i].batch = BatchOf(bufs)
      BY <2>2, <2>3, FlushedQueue
    <3> QED BY <1>2, <2>1, <2>3, <3>1 DEF SentQueue
  <2> QED BY <2>3 DEF SentQueue
<1> QED BY <1>3, <1>4

LEMMA StepSentQueue ==
  ASSUME Rushed, TypeInv, OrderInv, RushedInv, [Next]_vars
  PROVE  SentQueue(queue', pc', log')
<1>1. queue \in Seq(FlushCommand) /\ Len(queue) \in Nat
  BY LenProperties DEF TypeInv, TypeOK
<1>2. Later(pc, log, pc', log') /\ log \in Seq(Frames) /\ log' \in Seq(Frames)
  BY StepLater DEF RushedInv
<1>3. SentQueue(queue, pc, log) /\ HeldInv
  BY DEF RushedInv
<1>4. SentQueue(queue, pc', log')
  BY <1>1, <1>2, <1>3, SentQueueStays
<1>5. CASE queue' = <<>>
  <2>1. Len(queue') = 0
    BY <1>5
  <2> QED BY <2>1 DEF SentQueue
<1>6. CASE Append_frame
  <2> DEFINE bufs == [c \in Cols |-> [buffers[c] EXCEPT !.data = Append(@, Token(c, NextFrame)),
                                                       !.token_count = @ + 1]]
  <2>1. /\ pc = "ready"
        /\ \/ UNCHANGED queue
           \/ Full(bufs[0]) /\ FlushSent(bufs, <<>>) /\ log' = Append(log, NextFrame)
           \/ FlushLost(bufs) /\ UNCHANGED queue
    BY <1>6 DEF Append_frame, FlushLost
  <2>2. SoundBuffers(bufs) /\ NextFrame \in Frames
    BY <1>6, AppendedBuffers
  <2>3. wpc # "dead" => Held(bufs, pending_block_idx, Append(log, NextFrame))
    <3>1. SoundBuffers(buffers) /\ pending_block_idx \in Nat
      BY TypeInvBuffers DEF TypeInv, TypeOK
    <3> HIDE DEF NextFrame
    <3> QED BY <1>2, <1>3, <2>1, <2>2, <3>1, HeldAppend DEF HeldInv
  <2> HIDE DEF bufs, NextFrame
  <2>4. CASE UNCHANGED queue
    BY <1>4, <2>4
  <2>5. CASE Full(bufs[0]) /\ FlushSent(bufs, <<>>) /\ log' = Append(log, NextFrame)
    <3>1. FlushBlock(bufs, <<>>)
      BY <2>5 DEF FlushBlock
    <3>2. wpc # "dead" => Held(bufs, pending_block_idx, log')
      BY <2>3, <2>5
    <3>3. bufs[0].token_count = BLOCK_TOKEN_COUNT
      BY <2>5 DEF Full
    <3> QED BY <1>2, <1>3, <2>1, <2>2, <3>1, <3>2, <3>3, FlushSentQueue
  <2> QED BY <2>1, <2>4, <2>5
<1>7. CASE Drop
  <2>1. pc = "ready" /\ pc' = "joining" /\ log' = log /\ FlushBlock(buffers, StopCommand)
    BY <1>7 DEF Drop
  <2>2. StopCommand \in {<<>>, <<Stop>>} /\ (wpc = "dead" => StopCommand = <<>>)
    BY DEF StopCommand, ReceiverAlive
  <2>3. wpc # "dead" => Held(buffers, pending_block_idx, log')
    BY <1>3, <2>1 DEF HeldInv
  <2> HIDE DEF StopCommand
  <2> QED BY <1>2, <1>3, <2>1, <2>2, <2>3, FlushSentQueue, TypeInvBuffers
<1>8. CASE Join \/ Crash \/ Worker_fails
  BY <1>5, <1>8 DEF Join, Crash, Gone, Worker_fails, WorkerDies
<1>9. CASE Worker_receive
  <2>1. queue # <<>> /\ queue' = Tail(queue)
    BY <1>9 DEF Worker_receive
  <2>2. Len(queue') = Len(queue) - 1 /\ \A i \in 1 .. Len(queue') : queue'[i] = queue[i + 1]
    BY <1>1, <2>1, HeadTailProperties
  <2>3. \A i \in 1 .. Len(queue') : i + 1 \in 1 .. Len(queue)
    BY <1>1, <2>2
  <2> QED BY <1>4, <2>2, <2>3 DEF SentQueue
<1>10. CASE \/ Worker_start \/ Worker_payload \/ Worker_index \/ Worker_trailer \/ Worker_check
            \/ Worker_load \/ Worker_store \/ UNCHANGED vars
  BY <1>4, <1>10 DEF Worker_start, Worker_payload, Worker_index, Worker_trailer, Worker_check,
     Worker_load, Worker_store, vars
<1>11. CASE Worker_head
  BY <1>4, <1>5, <1>11 DEF Worker_head, WorkerDies
<1> QED BY <1>6, <1>7, <1>8, <1>9, <1>10, <1>11, RushedCaller DEF Next, Worker, RushedInv

\* What the worker has in hand, with the payloads written so far.
LEMMA PayloadHand ==
  ASSUME TypeInv, HandInv, [Next]_vars, Worker_payload, log \in Seq(Frames)
  PROVE  HandInv'
<1> DEFINE payload == wbatch.payloads[wcol]
<1>1. /\ wpc = "payload" /\ disk' = disk \o payload /\ UNCHANGED <<pc, log>>
      /\ wbatch' = [wbatch EXCEPT !.entries[wcol].byte_offset = Len(disk),
                                  !.entries[wcol].byte_len = Len(payload)]
      /\ IF wcol + 1 = NumColumns THEN wpc' = "index" /\ wcol' = 0
                                 ELSE wpc' = "payload" /\ wcol' = wcol + 1
  BY DEF Worker_payload, PayloadOffset
<1>2. /\ disk \in Seq(Cell) /\ Len(disk) \in Nat /\ wcol \in Cols /\ wbatch \in FlushBatch
      /\ payload \in Seq(ColumnToken(wcol)) /\ NumColumns \in Nat
  BY LenProperties, ColumnsAssumption DEF TypeInv, TypeOK, PendingSound
<1>3. /\ \A c \in Cols : c # wcol => wbatch'.entries[c] = wbatch.entries[c]
      /\ \A c \in Cols : wbatch'.entries[c].block_idx = wbatch.entries[c].block_idx
      /\ wbatch'.entries[wcol].byte_offset = Len(disk)
      /\ wbatch'.entries[wcol].byte_len = Len(payload)
      /\ wbatch'.block_idx = wbatch.block_idx /\ wbatch'.token_count = wbatch.token_count
      /\ wbatch'.payloads = wbatch.payloads
  <2> HIDE DEF payload
  <2>1. wbatch' = Placed(wbatch, wcol, Len(disk), Len(payload))
    BY <1>1 DEF Placed
  <2> QED BY <1>2, <2>1, EntryPlaced
<1>4. Sent(wbatch, pc, log)
  BY <1>1 DEF HandInv
<1>5. Sent(wbatch', pc, log)
  BY <1>3, <1>4 DEF Sent
<1>6. /\ Filled(payload, wcol, wbatch.token_count, Start(wbatch.block_idx), log)
      /\ wbatch'.entries[wcol].block_idx = wbatch.block_idx
  BY <1>2, <1>3, <1>4 DEF Sent
<1>7. Laid(disk', wbatch'.entries[wcol], wcol, pc, log)
  <2> HIDE DEF payload
  <2>1. /\ Len(disk') = Len(disk) + Len(payload) /\ Len(payload) = wbatch.token_count
        /\ \A i \in 1 .. Len(payload) : disk'[Len(disk) + i] = payload[i]
    <3>1. payload \in Seq(Cell)
      BY <1>2, TokensAreCells
    <3>2. Len(payload) \in Nat
      BY <1>2, LenProperties
    <3>3. /\ Len(disk') = Len(disk) + Len(payload)
          /\ \A j \in 1 .. Len(disk) + Len(payload) :
               disk'[j] = IF j <= Len(disk) THEN disk[j] ELSE payload[j - Len(disk)]
      BY <1>1, <1>2, <3>1, ConcatProperties
    <3>4. \A i \in 1 .. Len(payload) : /\ Len(disk) + i \in 1 .. Len(disk) + Len(payload)
                                      /\ ~(Len(disk) + i <= Len(disk))
                                      /\ Len(disk) + i - Len(disk) = i
      BY <1>2, <3>2
    <3> QED BY <1>6, <3>3, <3>4 DEF Filled
  <2>2. Written(disk', wbatch'.entries[wcol], wcol, wbatch.token_count, Start(wbatch.block_idx), log)
    BY <1>2, <1>3, <1>6, <2>1 DEF Written, Filled
  <2>3. Sized(wbatch.block_idx, wbatch.token_count, pc, log)
    BY <1>4 DEF Sent
  <2> QED BY <1>3, <1>6, <2>1, <2>2, <2>3 DEF Laid
<1>8. ASSUME NEW c \in Cols, c < NextCol(wpc', wcol')
      PROVE  Laid(disk', wbatch'.entries[c], c, pc, log)
  <2>1. CASE c = wcol
    BY <1>7, <2>1
  <2>2. CASE c # wcol
    <3>1. c < wcol
      BY <1>1, <1>2, <1>8, <2>2, ColsNat DEF NextCol, Cols
    <3>2. c < NextCol(wpc, wcol)
      BY <1>1, <3>1 DEF NextCol
    <3>3. Laid(disk, wbatch.entries[c], c, pc, log)
      BY <1>1, <3>2 DEF HandInv
    <3>4. disk' \in Seq(Cell) /\ Extends(disk, disk') /\ wbatch.entries[c] \in Entry
      BY <1>2, FileGrows DEF FlushBatch
    <3>5. Later(pc, log, pc, log)
      BY DEF Later
    <3>6. Laid(disk', wbatch.entries[c], c, pc, log)
      BY <1>2, <3>3, <3>4, <3>5, LaidStays
    <3> QED BY <1>3, <2>2, <3>6
  <2> QED BY <2>1, <2>2
<1> HIDE DEF payload
<1>9. wpc' # "payload" => wcol' = 0
  BY <1>1
<1> QED BY <1>1, <1>5, <1>8, <1>9 DEF HandInv

LEMMA StepHand ==
  ASSUME Rushed, TypeInv, OrderInv, RushedInv, [Next]_vars
  PROVE  HandInv'
<1>1. Later(pc, log, pc', log') /\ log \in Seq(Frames) /\ log' \in Seq(Frames)
  BY StepLater DEF RushedInv
<1>2. HandInv /\ SentQueue(queue, pc, log)
  BY DEF RushedInv
<1>3. CASE UNCHANGED <<wpc, wbatch, wcol>>
  <2>1. CASE wpc \in {"payload", "index"}
    <3>1. Sent(wbatch, pc', log')
      <4>1. wbatch \in FlushBatch /\ Sent(wbatch, pc, log)
        BY <1>2, <2>1 DEF HandInv, TypeInv, TypeOK
      <4> QED BY <1>1, <4>1, SentStays
    <3>2. ASSUME NEW c \in Cols, c < NextCol(wpc, wcol)
          PROVE  Laid(disk', wbatch.entries[c], c, pc', log')
      <4>1. Laid(disk, wbatch.entries[c], c, pc, log)
        BY <1>2, <2>1, <3>2 DEF HandInv
      <4>2. wbatch.entries[c] \in Entry
        BY DEF TypeInv, TypeOK, FlushBatch
      <4>3. disk \in Seq(Cell) /\ disk' \in Seq(Cell) /\ Extends(disk, disk')
        BY FileGrows
      <4> QED BY <1>1, <4>1, <4>2, <4>3, LaidStays
    <3> QED BY <1>2, <1>3, <3>1, <3>2 DEF HandInv
  <2>2. CASE wpc \notin {"payload", "index"}
    BY <1>2, <1>3, <2>2 DEF HandInv
  <2> QED BY <2>1, <2>2
<1>4. CASE wpc' \notin {"payload", "index"} /\ (wcol' = 0 \/ (wcol' = wcol /\ wpc # "payload"))
  BY <1>2, <1>4 DEF HandInv
<1>5. CASE Worker_receive
  <2>1. /\ wpc = "idle" /\ queue # <<>> /\ wcol' = wcol /\ UNCHANGED <<pc, log>>
        /\ \/ wpc' = "payload" /\ Head(queue).cmd = "Flush" /\ wbatch' = Head(queue).batch
           \/ wpc' = "stopped"
    BY <1>5 DEF Worker_receive
  <2>2. wcol = 0
    BY <1>2, <2>1 DEF HandInv
  <2>3. CASE wpc' = "stopped"
    BY <1>4, <2>1, <2>3
  <2>4. CASE wpc' = "payload" /\ Head(queue).cmd = "Flush" /\ wbatch' = Head(queue).batch
    <3>1. queue \in Seq(FlushCommand) /\ Len(queue) \in Nat
      BY LenProperties DEF TypeInv, TypeOK
    <3>2. Head(queue) = queue[1] /\ 1 \in 1 .. Len(queue)
      BY <2>1, <3>1, HeadTailProperties, EmptySeq
    <3>3. Sent(wbatch', pc', log')
      BY <1>2, <2>1, <2>4, <3>2 DEF SentQueue
    <3>4. \A c \in Cols : ~(c < NextCol(wpc', wcol'))
      BY <2>1, <2>2, <2>4, ColsNat DEF NextCol
    <3> QED BY <2>4, <3>3, <3>4 DEF HandInv
  <2> QED BY <2>1, <2>3, <2>4
<1>6. CASE Worker_payload
  BY <1>1, <1>2, <1>6, PayloadHand
<1>7. CASE Worker_start \/ Worker_index \/ Worker_trailer \/ Worker_check \/ Worker_load
           \/ Worker_store \/ Worker_head \/ Worker_fails
  BY <1>4, <1>7 DEF Worker_start, Worker_index, Worker_trailer, Worker_check, Worker_load,
     Worker_store, Worker_head, Worker_fails, WorkerDies, BackToIdle
<1>8. CASE Join \/ Crash
  BY <1>4, <1>8 DEF Join, Crash, Gone
<1>9. CASE Append_frame \/ Drop \/ UNCHANGED vars
  BY <1>3, <1>9 DEF Append_frame, Drop, vars, worker
<1> QED BY <1>5, <1>6, <1>7, <1>8, <1>9, RushedCaller DEF Next, Worker, RushedInv

\* What is buffered continues what has been handed over.
LEMMA StepHeld ==
  ASSUME Rushed, TypeInv, OrderInv, RushedInv, [Next]_vars
  PROVE  HeldInv'
<1> SUFFICES ASSUME pc' = "ready", wpc' # "dead"
             PROVE  Held(buffers', pending_block_idx', log') /\ buffers'[0].token_count < BLOCK_TOKEN_COUNT
  BY DEF HeldInv
<1>1. Later(pc, log, pc', log') /\ log \in Seq(Frames) /\ log' \in Seq(Frames)
  BY StepLater DEF RushedInv
<1>2. pc = "ready"
  BY <1>1 DEF Later
<1>3. wpc # "stopped"
  BY <1>2 DEF OrderInv
<1>4. CASE Append_frame
  <2> DEFINE bufs == [c \in Cols |-> [buffers[c] EXCEPT !.data = Append(@, Token(c, NextFrame)),
                                                       !.token_count = @ + 1]]
  <2>1. /\ wpc' = wpc
        /\ \/ ~Full(bufs[0]) /\ buffers' = bufs /\ log' = Append(log, NextFrame)
              /\ UNCHANGED pending_block_idx
           \/ Full(bufs[0]) /\ FlushSent(bufs, <<>>) /\ log' = Append(log, NextFrame)
           \/ FlushLost(bufs)
    BY <1>4 DEF Append_frame, worker
  <2>2. ~FlushLost(bufs)
    BY <1>3, <2>1 DEF FlushLost, ReceiverAlive
  <2>3. SoundBuffers(bufs) /\ NextFrame \in Frames
    BY <1>4, AppendedBuffers
  <2>4. SoundBuffers(buffers) /\ pending_block_idx \in Nat /\ Start(pending_block_idx) \in Nat
    BY TypeInvBuffers, Starts DEF TypeInv, TypeOK
  <2>5. Held(buffers, pending_block_idx, log) /\ buffers[0].token_count < BLOCK_TOKEN_COUNT
    BY <1>2, <2>1 DEF RushedInv, HeldInv
  <2>6. bufs[0].token_count = buffers[0].token_count + 1 /\ buffers[0].token_count \in Nat
    BY <2>4, ColsNat DEF SoundBuffers, ColumnBuffer
  <2>7. Held(bufs, pending_block_idx, Append(log, NextFrame))
    <3> HIDE DEF NextFrame
    <3> QED BY <1>1, <2>3, <2>4, <2>5, HeldAppend
  <2> HIDE DEF bufs, NextFrame
  <2>8. CASE ~Full(bufs[0]) /\ buffers' = bufs /\ log' = Append(log, NextFrame)
             /\ UNCHANGED pending_block_idx
    <3>1. bufs[0].token_count < BLOCK_TOKEN_COUNT
      BY <2>5, <2>6, <2>8, BlockSize DEF Full
    <3> QED BY <2>7, <2>8, <3>1
  <2>9. CASE Full(bufs[0]) /\ FlushSent(bufs, <<>>) /\ log' = Append(log, NextFrame)
    <3>1. /\ buffers' = [c \in Cols |-> Reset(bufs[c])] /\ pending_block_idx' = pending_block_idx + 1
          /\ bufs[0].token_count = BLOCK_TOKEN_COUNT /\ Held(bufs, pending_block_idx, log')
      BY <2>7, <2>9 DEF FlushSent, Full
    <3>2. \A c \in Cols : /\ buffers'[c].block_idx = pending_block_idx + 1
                         /\ buffers'[c].data = <<>> /\ buffers'[c].token_count = 0
                         /\ buffers'[c].existing_tokens = 0
      BY <3>1 DEF Reset, EmptyBuffer, Held
    <3>3. Len(log') = Start(pending_block_idx') + 0
      BY <2>4, <3>1, BlockSize, StartNext DEF Held
    <3>4. \A c \in Cols : Filled(buffers'[c].data, c, 0, Start(pending_block_idx'), log')
      BY <3>2 DEF Filled
    <3> QED BY <3>1, <3>2, <3>3, <3>4, ColsNat, BlockSize DEF Held
  <2> QED BY <2>1, <2>2, <2>8, <2>9
<1>5. CASE Drop \/ Join \/ Crash
  BY <1>5 DEF Drop, Join, Crash, Gone
<1>6. CASE Worker \/ Worker_fails \/ UNCHANGED vars
  <2>1. UNCHANGED <<buffers, pending_block_idx, log>>
    BY <1>6 DEF Worker, Worker_start, Worker_receive, Worker_payload, Worker_index, Worker_trailer,
       Worker_check, Worker_load, Worker_store, Worker_head, Worker_fails, vars, writer
  <2>2. wpc # "dead"
    BY <1>6 DEF Worker, Worker_start, Worker_receive, Worker_payload, Worker_index, Worker_trailer,
       Worker_check, Worker_load, Worker_store, Worker_head, Worker_fails, vars, worker
  <2> QED BY <1>2, <2>1, <2>2 DEF RushedInv, HeldInv
<1> QED BY <1>4, <1>5, <1>6, RushedCaller DEF Next, RushedInv

LEMMA InitRushed == Init => RushedInv
<1> SUFFICES ASSUME Init PROVE RushedInv
  OBVIOUS
<1>1. /\ disk = <<Header>> /\ queue = <<>> /\ log = <<>> /\ wpc = "start" /\ wcol = 0 /\ pc = "ready"
      /\ pending_block_idx = 0 /\ buffers = [c \in Cols |-> EmptyBuffer(0)]
  BY DEF Init, NewBuffers
<1>2. Len(queue) = 0 /\ Len(disk) = 1 /\ disk[1].kind # "index" /\ Len(log) = 0
  BY <1>1 DEF Header
<1>3. LaidFile(disk, pc, log) /\ SentQueue(queue, pc, log) /\ HandInv
  BY <1>1, <1>2 DEF LaidFile, SentQueue, HandInv
<1>4. \A c \in Cols : /\ buffers[c].block_idx = 0 /\ buffers[c].data = <<>>
                     /\ buffers[c].token_count = 0 /\ buffers[c].existing_tokens = 0
  BY <1>1 DEF EmptyBuffer
<1>5. Start(0) = 0
  BY BlockSize DEF Start
<1>6. \A c \in Cols : Filled(buffers[c].data, c, 0, 0, log)
  BY <1>4 DEF Filled
<1>7. HeldInv
  BY <1>1, <1>2, <1>4, <1>5, <1>6, ColsNat, BlockSize DEF HeldInv, Held
<1> QED BY <1>1, <1>3, <1>7 DEF RushedInv

LEMMA RushedInvariant == Rushed => (Spec => [](TypeInv /\ CountInv /\ RushedInv))
<1> SUFFICES ASSUME Rushed PROVE Spec => [](TypeInv /\ CountInv /\ RushedInv)
  OBVIOUS
<1>1. NothingStale
  BY DEF Rushed, NothingStale
<1>2. TypeInv /\ CountInv /\ RushedInv /\ [Next]_vars => RushedInv'
  <2> SUFFICES ASSUME TypeInv, CountInv, RushedInv, [Next]_vars PROVE RushedInv'
    OBVIOUS
  <2>1. OrderInv /\ pc # "load"
    BY DEF CountInv, RushedInv
  <2> QED BY <2>1, StepLater, StepLaidFile, StepSentQueue, StepHand, StepHeld DEF RushedInv
<1> QED BY <1>1, <1>2, InitRushed, TypeInvariant, CountInvariant, PTL DEF Spec

\* Through the index of any head, in a map of any length, a token that is counted as
\* visible is found right or not at all: its entry lies in the map if the trailer does.
LEMMA RightOrNoneFromInv ==
  ASSUME TypeInv, CountInv, RushedInv, NEW limit \in Nat, limit <= Len(disk), NEW h,
         NEW c \in Cols, NEW t \in 0 .. valid
  PROVE  TokenBytes(disk, limit, ReconstructIndex(disk, limit, h), valid, c, t) \subseteq RightOrNone(c, t)
<1> DEFINE I == ReconstructIndex(disk, limit, h)
           b == t \div BLOCK_TOKEN_COUNT
           r == t % BLOCK_TOKEN_COUNT
<1>1. /\ valid \in Nat /\ Len(log) \in Nat /\ valid <= Len(log) /\ log \in Seq(Frames)
      /\ disk \in Seq(Cell) /\ Len(disk) \in Nat
  <2>1. Handed <= Len(log)
    BY DEF CountInv, TallyInv
  <2>2. valid <= Handed
    BY HandedNat DEF Handed
  <2>3. valid <= Len(log)
    BY <2>1, <2>2, HandedNat
  <2> QED BY <2>3, LenProperties DEF TypeInv, TypeOK
<1>2. t \in Nat
  BY <1>1
<1>3. b \in Nat /\ r \in Nat /\ r < BLOCK_TOKEN_COUNT /\ t = Start(b) + r
  BY <1>2, BlockOfToken
<1> SUFFICES ASSUME NEW e \in Get(I, c, b), t < valid
             PROVE  Slice(disk, limit, e.byte_offset + r) \in RightOrNone(c, t)
  BY DEF TokenBytes
<1> HIDE DEF I, b, r
<1>4. PICK o \in Trailers(disk, limit) : e \in IndexedEntries(disk, o)
  BY DEF I, Get, ReconstructIndex, Newest, Walk
<1>5. /\ o \in Nat /\ o < limit /\ o \in 1 .. Len(disk) /\ disk[o].kind = "index"
      /\ \A d \in Cols : disk[o].entries[d] \in Entry
      /\ IndexedEntries(disk, o) = {disk[o].entries[d] : d \in Cols}
  <2>1. o \in Nat /\ o < limit /\ TrailerAt(disk, limit, o)
    BY DEF Trailers
  <2>2. o \in Trailers(disk, Len(disk))
    BY <1>1, <2>1 DEF Trailers, TrailerAt
  <2> QED BY <1>1, <2>1, <2>2, TrailerCells DEF IndexedEntries
<1>6. PICK d \in Cols : e = disk[o].entries[d]
  BY <1>4, <1>5
<1>7. Spans(disk, o, e, d) /\ e \in Entry
  BY <1>5, <1>6, LenProperties DEF TypeInv, EntriesSound
<1>8. e.col = c /\ e.block_idx = b
  BY DEF Get
<1>9. d = c
  BY <1>7, <1>8 DEF Spans
<1>10. Sized(b, e.byte_len, pc, log) /\ Written(disk, e, c, e.byte_len, Start(b), log)
  BY <1>5, <1>6, <1>8, <1>9 DEF RushedInv, LaidFile, Laid
<1>11. e.byte_offset \in Nat /\ e.byte_len \in Nat /\ Start(b) \in Nat
  BY <1>3, <1>7, Starts DEF Entry
<1>12. r + 1 \in 1 .. e.byte_len
  BY <1>1, <1>3, <1>10, <1>11, BlockSize DEF Sized
<1>13. disk[e.byte_offset + (r + 1)] = Token(c, log[Start(b) + (r + 1)])
  BY <1>10, <1>12 DEF Written
<1>14. e.byte_offset + (r + 1) < o
  <2>1. e.byte_offset + (r + 1) \in e.byte_offset + 1 .. e.byte_offset + e.byte_len
    BY <1>3, <1>11, <1>12
  <2> QED BY <1>7, <2>1 DEF Spans
<1>15. /\ e.byte_offset + r < limit /\ e.byte_offset + r + 1 = e.byte_offset + (r + 1)
       /\ Start(b) + (r + 1) = t + 1
  <2>1. o \in Nat /\ o < limit
    BY <1>5
  <2> QED BY <1>3, <1>11, <1>14, <2>1
<1>16. Slice(disk, limit, e.byte_offset + r) = Token(c, log[t + 1])
  BY <1>13, <1>15 DEF Slice, At
<1>17. t + 1 \in DOMAIN log \cap {t + 1} \cap 1 .. valid
  <2>1. t + 1 \in 1 .. valid /\ t + 1 \in 1 .. Len(log)
    BY <1>1, <1>2
  <2> QED BY <1>1, <2>1, LenProperties
<1> QED BY <1>16, <1>17 DEF RightOrNone

\* Beside a caller who only appends, whoever opens the file reads the token asked for
\* or none, at every moment, also between the two stores of a commit and whichever
\* blocks have been unlinked.
THEOREM RushedReadsAreRight == Rushed => (Spec => []ReadsNeverWrong)
<1>1. TypeInv /\ CountInv /\ RushedInv => ReadsNeverWrong
  <2> SUFFICES ASSUME TypeInv, CountInv, RushedInv PROVE ReadsNeverWrong
    OBVIOUS
  <2>1. Len(disk) \in Nat /\ Len(disk) <= Len(disk)
    BY LenProperties DEF TypeInv, TypeOK
  <2> QED BY <2>1, RightOrNoneFromInv DEF ReadsNeverWrong, FreshIndex
<1> QED BY <1>1, RushedInvariant, PTL

\* So does a reader that goes on with an old index and map while the count it checks
\* moves on (reader.rs:185).
THEOREM SnapshotsAreRight == Rushed => (ReadersSpec => []SnapshotReads)
<1> SUFFICES ASSUME Rushed PROVE ReadersSpec => []SnapshotReads
  OBVIOUS
<1>1. ReadersSpec => [](TypeInv /\ CountInv /\ RushedInv)
  BY RushedInvariant, ReadersRefine, PTL
<1>2. TypeInv /\ CountInv /\ RushedInv /\ MapInv => SnapshotReads
  BY RightOrNoneFromInv DEF SnapshotReads, SnapshotIndex, MapInv
<1> QED BY <1>1, <1>2, MapInvariant, PTL
=============================================================================
