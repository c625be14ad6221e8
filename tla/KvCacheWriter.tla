--------------------------- MODULE KvCacheWriter ---------------------------
(***************************************************************************)
(* KvCacheWriter of ncf-kvcache: the thread that owns the writer (the      *)
(* caller: append_frame, flush_pending, truncate, drop, open) and its      *)
(* flush thread (the worker: flush_loop, write_batch).  They communicate   *)
(* through an unbounded channel and through the file's header, mapped      *)
(* shared and accessed with atomics; the worker's accesses to the header   *)
(* and its writes to the file are separate steps.  The process may crash   *)
(* between any two steps and reopen the file; a system call of the worker  *)
(* may fail.                                                               *)
(*                                                                         *)
(* flush_block is one step of the caller.  Between its read of the head    *)
(* and its send, it writes only fields the worker never sees, and a        *)
(* channel is FIFO, so sending later is indistinguishable from the worker  *)
(* receiving later.                                                        *)
(***************************************************************************)
EXTENDS KvCacheFormat

CONSTANTS
  Budget,               \* how often each of BudgetKinds may happen
  Paced,                \* the caller lets the worker go idle before it flushes or truncates
  Truncates             \* what the caller truncates: "any", only "buffered" frames, or
                        \* only "committed" ones, when nothing else is pending

BudgetKinds == {"frame", "flush", "truncate", "reopen", "crash", "commit_crash", "fail"}

ASSUME BudgetAssumption == Budget \in [BudgetKinds -> Nat]
ASSUME PacedAssumption == Paced \in BOOLEAN
ASSUME TruncatesAssumption == Truncates \in {"any", "buffered", "committed"}

VARIABLES
  \* the file
  disk,               \* its cells
  epoch,              \* commit_epoch, header bytes 32..39
  valid,              \* valid_token_count, header bytes 40..47
  head,               \* index_head_offset, header bytes 48..55
  \* the caller and its KvCacheWriter
  pc,                 \* where the caller is
  targ,               \* the argument of the truncate it is executing
  buffers,            \* one ColumnBuffer per column
  current_token_count,
  next_chunk_id,
  pending_block_idx,
  \* shared with the worker
  queue,              \* the channel of FlushCommands
  flush_error,        \* the mutex holds an error
  \* the worker
  wpc,                \* where it is
  wbatch,             \* the FlushBatch it is writing
  wcol,               \* the column whose payload it writes next
  windex,             \* index_offset
  wvalid,             \* current_valid
  \* history
  log,                \* the frames accepted and neither truncated nor lost by a crash
  budget              \* what is left of Budget

file == <<disk, epoch, valid, head>>
writer == <<buffers, current_token_count, next_chunk_id, pending_block_idx>>
worker == <<wpc, wbatch, wcol, windex, wvalid>>
vars == <<file, pc, targ, writer, queue, flush_error, worker, log, budget>>

-----------------------------------------------------------------------------
(***************************************************************************)
(* Values.  Frames are numbered in the order they are offered; the token   *)
(* of column c in frame f is Token(c, f).                                  *)
(***************************************************************************)
Frames == 1 .. Budget["frame"]
NextFrame == Budget["frame"] - budget["frame"] + 1

ColumnBuffer == [block_idx : Nat, token_count : Nat, existing_tokens : Nat,
                 data : Seq(Cell)]
FlushBatch == [block_idx : Nat, batch_epoch : Nat, token_count : Nat,
               existing_tokens : Nat, entries : [Cols -> Entry],
               payloads : [Cols -> Seq(Cell)], prev_index_offset : Nat]
FlushCommand == [cmd : {"Flush"}, batch : FlushBatch] \cup [cmd : {"Stop"}]

EmptyBuffer(b) == [block_idx |-> b, token_count |-> 0, existing_tokens |-> 0, data |-> <<>>]
NewBuffers == [c \in Cols |-> EmptyBuffer(0)]
Stop == [cmd |-> "Stop"]

\* The content of wbatch while the worker holds no batch.
NoBatch ==
  [block_idx |-> 0, batch_epoch |-> 0, token_count |-> 0, existing_tokens |-> 0,
   entries |-> [c \in Cols |-> [chunk_id |-> 0, col |-> c, block_idx |-> 0,
                                byte_offset |-> 0, byte_len |-> 0, token_count |-> 0]],
   payloads |-> [c \in Cols |-> <<>>], prev_index_offset |-> 0]

Spend(kind) == /\ budget[kind] > 0
               /\ budget' = [budget EXCEPT ![kind] = @ - 1]

\* u32::saturating_sub
SatSub(a, b) == IF a >= b THEN a - b ELSE 0

\* The receiver lives until the worker's loop ends.
ReceiverAlive == wpc \notin {"stopped", "dead"}
Quiescent == queue = <<>> /\ wpc \in {"start", "idle", "stopped", "dead"}

-----------------------------------------------------------------------------
(***************************************************************************)
(* KvCacheWriter::create has just returned.                                *)
(***************************************************************************)
Init ==
  /\ disk = <<Header>>
  /\ epoch = 0 /\ valid = 0 /\ head = 0
  /\ pc = "ready" /\ targ = 0
  /\ buffers = NewBuffers
  /\ current_token_count = 0 /\ next_chunk_id = 0 /\ pending_block_idx = 0
  /\ queue = <<>> /\ flush_error = FALSE
  /\ wpc = "start" /\ wbatch = NoBatch /\ wcol = 0 /\ windex = 0 /\ wvalid = 0
  /\ log = <<>> /\ budget = Budget

-----------------------------------------------------------------------------
(***************************************************************************)
(* The caller: flush_block.  bufs are the buffers to flush and tail what   *)
(* drop sends after the batch.  A failed send has already taken the data   *)
(* of every buffer and used up their chunk ids.                            *)
(***************************************************************************)
\* Fault: the chain is not linked.
PrevIndexOffset_None == 0

PrevIndexOffset == head

BatchOf(bufs) ==
  [block_idx |-> pending_block_idx, batch_epoch |-> epoch,
   token_count |-> bufs[0].token_count, existing_tokens |-> bufs[0].existing_tokens,
   entries |-> [c \in Cols |->
                  [chunk_id |-> next_chunk_id + c, col |-> c,
                   block_idx |-> bufs[c].block_idx, byte_offset |-> 0, byte_len |-> 0,
                   token_count |-> bufs[0].token_count]],
   payloads |-> [c \in Cols |-> bufs[c].data],
   prev_index_offset |-> PrevIndexOffset]

\* Fault: the token count stays.
Reset_SameCount(b) == [EmptyBuffer(b.block_idx + 1) EXCEPT !.token_count = b.token_count]

\* Fault: the block index stays.
Reset_SameBlock(b) == EmptyBuffer(b.block_idx)

Reset(b) == EmptyBuffer(b.block_idx + 1)

FlushNothing(bufs, tail) ==
  /\ bufs[0].token_count = 0
  /\ buffers' = bufs
  /\ queue' = queue \o tail
  /\ UNCHANGED <<next_chunk_id, pending_block_idx>>

FlushSent(bufs, tail) ==
  /\ bufs[0].token_count > 0
  /\ Paced => Quiescent
  /\ ReceiverAlive
  /\ queue' = Append(queue, [cmd |-> "Flush", batch |-> BatchOf(bufs)]) \o tail
  /\ next_chunk_id' = next_chunk_id + NumColumns
  /\ pending_block_idx' = pending_block_idx + 1
  /\ buffers' = [c \in Cols |-> Reset(bufs[c])]

FlushLost(bufs) ==
  /\ bufs[0].token_count > 0
  /\ ~ReceiverAlive
  /\ next_chunk_id' = next_chunk_id + NumColumns
  /\ buffers' = [c \in Cols |-> [bufs[c] EXCEPT !.data = <<>>]]
  /\ UNCHANGED <<queue, pending_block_idx>>

\* Fault: a block is flushed one token late.
Full_Late(b) == b.token_count > BLOCK_TOKEN_COUNT

Full(b) == b.token_count = BLOCK_TOKEN_COUNT

\* append_frame: buffer the frame, and flush when that fills the block.  A
\* frame whose flush could not be sent is reported as an error.
Append_frame ==
  LET f == NextFrame
      bufs == [c \in Cols |-> [buffers[c] EXCEPT !.data = Append(@, Token(c, f)),
                                                 !.token_count = @ + 1]]
      full == Full(bufs[0])
  IN  /\ pc = "ready"
      /\ Spend("frame")
      /\ current_token_count' = current_token_count + 1
      /\ \/ /\ ~full
            /\ buffers' = bufs
            /\ log' = Append(log, f)
            /\ UNCHANGED <<queue, next_chunk_id, pending_block_idx>>
         \/ full /\ FlushSent(bufs, <<>>) /\ log' = Append(log, f)
         \/ full /\ FlushLost(bufs) /\ UNCHANGED log
      /\ UNCHANGED <<file, pc, targ, flush_error, worker>>

Flush_pending ==
  /\ pc = "ready"
  /\ Spend("flush")
  /\ FlushSent(buffers, <<>>) \/ FlushLost(buffers)
  /\ UNCHANGED <<file, pc, targ, current_token_count, flush_error, worker, log>>

-----------------------------------------------------------------------------
(***************************************************************************)
(* The caller: truncate.  It bumps the epoch, reads valid_token_count, and *)
(* then either lowers the visible count (first case; the buffers stay as   *)
(* they are) or drops frames from the end of the buffers (second case).    *)
(***************************************************************************)
Truncate_epoch(count) ==
  /\ pc = "ready"
  /\ count <= current_token_count
  /\ Paced => Quiescent
  /\ Truncates = "buffered" => count > valid
  /\ Truncates = "committed" => current_token_count = valid
  /\ Spend("truncate")
  /\ epoch' = epoch + 1
  /\ pc' = "load" /\ targ' = count
  /\ UNCHANGED <<disk, valid, head, writer, queue, flush_error, worker, log>>

Forget(count) == log' = SubSeq(log, 1, Min({count, Len(log)}))

\* Fault: every truncate lowers, or raises, the visible count.
IsCommitted_Always(count) == TRUE

IsCommitted(count) == count <= valid

Truncate_committed ==
  /\ pc = "load" /\ IsCommitted(targ)
  /\ current_token_count' = targ
  /\ pc' = "store"
  /\ UNCHANGED <<file, targ, buffers, next_chunk_id, pending_block_idx, queue,
                 flush_error, worker, log, budget>>

Truncate_store ==
  /\ pc = "store"
  /\ valid' = targ
  /\ pc' = "ready" /\ targ' = 0
  /\ Forget(targ)
  /\ UNCHANGED <<disk, epoch, head, writer, queue, flush_error, worker, budget>>

KeepTokens(b, keep) ==
  [b EXCEPT !.token_count = keep, !.existing_tokens = Min({@, keep}),
            !.data = SubSeq(@, 1, Min({keep, Len(@)}))]

\* Fault: the subtraction is not checked.
Underflows_Never(a, b) == FALSE

Underflows(a, b) == a < b

\* new_buffer_count underflows, and truncate fails, when frames to drop have
\* already been handed to the worker.
Truncate_pending ==
  LET drop_tokens == current_token_count - targ
      keep == buffers[0].token_count - drop_tokens
  IN  /\ pc = "load" /\ ~IsCommitted(targ)
      /\ pc' = "ready" /\ targ' = 0
      /\ \/ /\ ~Underflows(buffers[0].token_count, drop_tokens)
            /\ buffers' = [c \in Cols |-> KeepTokens(buffers[c], keep)]
            /\ current_token_count' = targ
            /\ Forget(targ)
         \/ /\ Underflows(buffers[0].token_count, drop_tokens)
            /\ UNCHANGED <<buffers, current_token_count, log>>
      /\ UNCHANGED <<file, next_chunk_id, pending_block_idx, queue, flush_error,
                     worker, budget>>

-----------------------------------------------------------------------------
(***************************************************************************)
(* The caller: drop.  Whatever flush_block(true) returns, Stop is sent if  *)
(* the receiver lives and the worker is joined.  The first error of the    *)
(* worker is taken and discarded.                                          *)
(***************************************************************************)
\* Fault: Stop is sent only behind a last batch.
StopCommand_BehindBatch ==
  IF ReceiverAlive /\ buffers[0].token_count > 0 THEN <<Stop>> ELSE <<>>

StopCommand == IF ReceiverAlive THEN <<Stop>> ELSE <<>>

FlushBlock(bufs, tail) == FlushNothing(bufs, tail) \/ FlushSent(bufs, tail) \/ FlushLost(bufs)

\* Fault: what is still buffered is not flushed.
Drop_WithoutFlush ==
  /\ pc = "ready"
  /\ queue' = queue \o StopCommand
  /\ pc' = "joining"
  /\ UNCHANGED <<file, targ, writer, flush_error, worker, log, budget>>

Drop ==
  /\ pc = "ready"
  /\ FlushBlock(buffers, StopCommand)
  /\ pc' = "joining"
  /\ UNCHANGED <<file, targ, current_token_count, flush_error, worker, log, budget>>

\* The KvCacheWriter is gone: its fields go back to their initial values.
Gone ==
  /\ pc' = "closed" /\ targ' = 0
  /\ buffers' = NewBuffers
  /\ current_token_count' = 0 /\ next_chunk_id' = 0 /\ pending_block_idx' = 0
  /\ queue' = <<>> /\ flush_error' = FALSE
  /\ wpc' = "stopped" /\ wbatch' = NoBatch /\ wcol' = 0 /\ windex' = 0 /\ wvalid' = 0

Join ==
  /\ pc = "joining"
  /\ ~ReceiverAlive
  /\ Gone
  /\ UNCHANGED <<file, log, budget>>

\* The process dies.  The kernel keeps what it has been handed; a write in
\* progress may have been cut short.
MayTear ==
  \/ UNCHANGED disk
  \/ wpc \in {"payload", "index", "trailer"} /\ disk' = Append(disk, Torn)

Crash ==
  /\ pc # "closed"
  /\ Spend(IF wpc = "head" THEN "commit_crash" ELSE "crash")
  /\ MayTear
  /\ Gone
  /\ UNCHANGED <<epoch, valid, head, log>>

-----------------------------------------------------------------------------
(***************************************************************************)
(* The caller: open.  It reads the file with a KvcacheReader; a partial    *)
(* last block is loaded into the buffers to be rewritten when it fills.    *)
(* An open that fails changes nothing.                                     *)
(***************************************************************************)
FreshIndex == ReconstructIndex(disk, Len(disk), head)

\* partial_count and pending_block_idx.
PartialCount == valid % BLOCK_TOKEN_COUNT

OpenBlock == IF PartialCount = 0 THEN valid \div BLOCK_TOKEN_COUNT
                                 ELSE (valid - 1) \div BLOCK_TOKEN_COUNT

Openable ==
  /\ WalkOK(disk, Len(disk), head)
  /\ PartialCount > 0 => \A c \in Cols : Get(FreshIndex, c, OpenBlock) # {}

Existing(c) ==
  IF PartialCount = 0 THEN <<>>
  ELSE BlockBytes(disk, CHOOSE e \in Get(FreshIndex, c, OpenBlock) : TRUE)

Open ==
  /\ pc = "closed"
  /\ Spend("reopen")
  /\ Openable
  /\ buffers' = [c \in Cols |->
       [block_idx |-> OpenBlock, token_count |-> PartialCount,
        existing_tokens |-> PartialCount, data |-> Existing(c)]]
  /\ pending_block_idx' = OpenBlock
  /\ next_chunk_id' = NextChunkId(disk, Len(disk), head)
  /\ current_token_count' = valid
  /\ pc' = "ready" /\ wpc' = "start"
  /\ Forget(valid)
  /\ UNCHANGED <<file, targ, queue, flush_error, wbatch, wcol, windex, wvalid>>

-----------------------------------------------------------------------------
(***************************************************************************)
(* The worker: flush_loop receives a command; write_batch appends the      *)
(* payload of every column, the index block and its trailer, and then,     *)
(* unless the epoch has changed since the batch was built, publishes it:   *)
(* first the token count, then the head.                                   *)
(***************************************************************************)
BackToIdle ==
  /\ wpc' = "idle" /\ wbatch' = NoBatch /\ wcol' = 0 /\ windex' = 0 /\ wvalid' = 0

Worker_start ==
  /\ wpc = "start"
  /\ wpc' = "idle"
  /\ UNCHANGED <<file, pc, targ, writer, queue, flush_error, wbatch, wcol, windex,
                 wvalid, log, budget>>

Worker_receive ==
  /\ wpc = "idle" /\ queue # <<>>
  /\ queue' = Tail(queue)
  /\ \/ /\ Head(queue).cmd = "Flush"
        /\ wpc' = "payload" /\ wbatch' = Head(queue).batch
     \/ /\ Head(queue).cmd = "Stop"
        /\ wpc' = "stopped" /\ UNCHANGED wbatch
  /\ UNCHANGED <<file, pc, targ, writer, flush_error, wcol, windex, wvalid, log, budget>>

\* Fault: the offset is taken after the write.
PayloadOffset_After(payload) == Len(disk) + Len(payload)

PayloadOffset(payload) == Len(disk)

Worker_payload ==
  LET payload == wbatch.payloads[wcol]
  IN  /\ wpc = "payload"
      /\ wbatch' = [wbatch EXCEPT !.entries[wcol].byte_offset = PayloadOffset(payload),
                                  !.entries[wcol].byte_len = Len(payload)]
      /\ disk' = disk \o payload
      /\ IF wcol + 1 = NumColumns THEN wpc' = "index" /\ wcol' = 0
                                 ELSE wpc' = "payload" /\ wcol' = wcol + 1
      /\ UNCHANGED <<epoch, valid, head, pc, targ, writer, queue, flush_error, windex,
                     wvalid, log, budget>>

Worker_index ==
  /\ wpc = "index"
  /\ disk' = Append(disk, IndexBlock(wbatch.prev_index_offset, wbatch.block_idx,
                                     wbatch.entries))
  /\ wpc' = "trailer"
  /\ UNCHANGED <<epoch, valid, head, pc, targ, writer, queue, flush_error, wbatch, wcol,
                 windex, wvalid, log, budget>>

\* Fault: the offset is taken before the index block is written.
IndexOffset_BeforeBlock == Len(disk) - 1

IndexOffset == Len(disk)

Worker_trailer ==
  /\ wpc = "trailer"
  /\ windex' = IndexOffset
  /\ disk' = Append(disk, IndexTrailer(wbatch.prev_index_offset))
  /\ wpc' = "check"
  /\ UNCHANGED <<epoch, valid, head, pc, targ, writer, queue, flush_error, wbatch, wcol,
                 wvalid, log, budget>>

Worker_check ==
  /\ wpc = "check"
  /\ \/ /\ wbatch.batch_epoch = epoch
        /\ wpc' = "load" /\ UNCHANGED <<wbatch, wcol, windex, wvalid>>
     \/ wbatch.batch_epoch # epoch /\ BackToIdle
  /\ UNCHANGED <<file, pc, targ, writer, queue, flush_error, log, budget>>

Worker_load ==
  /\ wpc = "load"
  /\ wvalid' = valid
  /\ wpc' = "store"
  /\ UNCHANGED <<file, pc, targ, writer, queue, flush_error, wbatch, wcol, windex, log,
                 budget>>

\* Fault: tokens that the block already had are counted again.
Increment_All(b) == b.token_count

Increment(b) == SatSub(b.token_count, b.existing_tokens)

Worker_store ==
  /\ wpc = "store"
  /\ valid' = wvalid + Increment(wbatch)
  /\ wpc' = "head"
  /\ UNCHANGED <<disk, epoch, head, pc, targ, writer, queue, flush_error, wbatch, wcol,
                 windex, wvalid, log, budget>>

\* The error that ends the loop drops the receiver and every queued command.
WorkerDies ==
  /\ Spend("fail")
  /\ flush_error' = TRUE
  /\ queue' = <<>>
  /\ wpc' = "dead" /\ wbatch' = NoBatch /\ wcol' = 0 /\ windex' = 0 /\ wvalid' = 0

\* The store of the head, then flush_async.
Worker_head ==
  /\ wpc = "head"
  /\ head' = windex
  /\ \/ BackToIdle /\ UNCHANGED <<queue, flush_error, budget>>
     \/ WorkerDies
  /\ UNCHANGED <<disk, epoch, valid, pc, targ, writer, log>>

\* open, seek, write_all, flush or map fails.
Worker_fails ==
  /\ wpc \in {"start", "payload", "index", "trailer", "check"}
  /\ MayTear
  /\ WorkerDies
  /\ UNCHANGED <<epoch, valid, head, pc, targ, writer, log>>

-----------------------------------------------------------------------------
Caller == \/ Append_frame \/ Flush_pending
          \/ \E count \in 0 .. current_token_count : Truncate_epoch(count)
          \/ Truncate_committed \/ Truncate_store \/ Truncate_pending
          \/ Drop \/ Join \/ Open

Worker == \/ Worker_start \/ Worker_receive \/ Worker_payload \/ Worker_index
          \/ Worker_trailer \/ Worker_check \/ Worker_load \/ Worker_store
          \/ Worker_head

Next == Caller \/ Worker \/ Worker_fails \/ Crash

Spec == Init /\ [][Next]_vars

\* The worker thread is scheduled and its system calls return; drop blocks in
\* join until the worker has ended, and an operation once begun goes on.
FairSpec == /\ Spec
            /\ WF_vars(Worker)
            /\ WF_vars(Join)
            /\ WF_vars(Truncate_committed \/ Truncate_store \/ Truncate_pending)

-----------------------------------------------------------------------------
(***************************************************************************)
(* Properties.                                                             *)
(***************************************************************************)

\* Every variable has its type: the buffers and batches hold cells, counts and
\* offsets are natural numbers, the program counters are states of the code.
TypeOK ==
  /\ disk \in Seq(Cell) /\ epoch \in Nat /\ valid \in Nat /\ head \in Nat
  /\ pc \in {"closed", "ready", "load", "store", "joining"} /\ targ \in Nat
  /\ buffers \in [Cols -> ColumnBuffer]
  /\ current_token_count \in Nat /\ next_chunk_id \in Nat /\ pending_block_idx \in Nat
  /\ queue \in Seq(FlushCommand) /\ flush_error \in BOOLEAN
  /\ wpc \in {"start", "idle", "payload", "index", "trailer", "check", "load", "store",
              "head", "stopped", "dead"}
  /\ wbatch \in FlushBatch /\ wcol \in Cols /\ windex \in Nat /\ wvalid \in Nat
  /\ log \in Seq(Frames)
  /\ budget \in [BudgetKinds -> Nat] /\ \A k \in BudgetKinds : budget[k] <= Budget[k]

\* The chain that readers and reopening rely on is well formed whatever the
\* interleaving, failures and crashes: the head is 0 or a complete trailer, and
\* every trailer in the file names 0 or an earlier complete trailer, as does the
\* index block before it.  So reconstruct_index terminates and never fails.
ChainSound ==
  LET good == Trailers(disk, Len(disk))
  IN  /\ head \in good \cup {0}
      /\ \A o \in good :
           LET prev == At(disk, o).prev_index_offset
           IN  /\ prev = 0 \/ (prev \in good /\ prev < o)
               /\ At(disk, o - 1).prev_index_offset = prev

\* A fresh reader can always open the file: reconstruct_index meets only offsets
\* it accepts, also while a batch is being written and after any crash.
ReaderOpens == WalkOK(disk, Len(disk), head)

\* Whatever index block is in the file, committed, stale or orphaned by a crash,
\* each of its entries spans exactly tokens of the entry's own column.
EntriesSound ==
  \A p \in DOMAIN disk : disk[p].kind = "index" =>
    \A c \in Cols : Spans(disk, p, disk[p].entries[c], c)

\* What is buffered, queued or being written for a column are tokens of that
\* column, and the entries of the batch in hand span what has been written.
FreshCommand ==
  {m \in FlushCommand : m.cmd = "Flush" =>
     \A c \in Cols : /\ m.batch.payloads[c] \in Seq(ColumnToken(c))
                    /\ m.batch.entries[c].col = c /\ m.batch.entries[c].byte_len = 0}

PendingSound ==
  /\ queue \in Seq(FreshCommand)
  /\ \A c \in Cols :
       /\ buffers[c].data \in Seq(ColumnToken(c))
       /\ wbatch.payloads[c] \in Seq(ColumnToken(c))
       /\ Spans(disk, Len(disk) + 1, wbatch.entries[c], c)

\* Chunk identifiers are unique and increase along the chain (index.rs:7), across
\* stale batches, lost sends, crashes and reopening.
ChunkIdsIncrease ==
  LET walk == Walk(disk, Len(disk), head)
  IN  \A o, p \in walk : \A c, d \in Cols :
        (p < o \/ (p = o /\ d < c)) =>
          At(disk, p - 1).entries[d].chunk_id < At(disk, o - 1).entries[c].chunk_id

\* Only a worker's commit raises the visible count and only truncate lowers it,
\* although each loads it in one step and stores what it derived in a later one.
VisibleMonotone ==
  [][/\ valid' > valid => wpc = "store"
     /\ valid' < valid => pc = "store"]_vars

(***************************************************************************)
(* What someone who opens the file now reads.                              *)
(***************************************************************************)
\* Between the two stores of a commit the count is ahead of the index.
Published == IF wpc = "head" THEN wvalid ELSE valid

\* Every published token can be read and is the right one: token t of column c
\* belongs to the t-th accepted frame.
ReadsCorrect ==
  \A index \in {FreshIndex} : \A c \in Cols, t \in 0 .. Published - 1 :
    /\ t < Len(log)
    /\ TokenBytes(disk, Len(disk), index, valid, c, t) = {Token(c, log[t + 1])}

\* token_bytes never returns anything but the token asked for: at every moment
\* it returns that token or None, and None from the visible count on.
RightOrNone(c, t) ==
  {Token(c, f) : f \in {log[i] : i \in DOMAIN log \cap {t + 1} \cap 1 .. valid}}

ReadsNeverWrong ==
  \A index \in {FreshIndex} : \A c \in Cols, t \in 0 .. valid :
    TokenBytes(disk, Len(disk), index, valid, c, t) \subseteq RightOrNone(c, t)

\* Reopening for append succeeds except between the two stores of a commit.
Reopenable == wpc # "head" => Openable

\* A commit never unlinks a block: what could be reached from the old head can
\* be reached from the new one.
NothingUnlinked ==
  [][Walk(disk, Len(disk), head) \subseteq Walk(disk', Len(disk'), head')]_vars

\* A writer dropped without a flush error has made every accepted frame visible.
CleanCloseCount ==
  [][pc = "joining" /\ pc' = "closed" /\ ~flush_error /\ wpc = "stopped"
       => valid = Len(log)]_vars

\* current_token_count is what is visible plus what is queued, in flight or
\* buffered, so truncate's arithmetic on it is right.
Pending(b) == SatSub(b.token_count, b.existing_tokens)

InFlight ==
  IF wpc \in {"payload", "index", "trailer", "check", "load", "store"}
    THEN Pending(wbatch) ELSE 0

Queued == MapThenSumSet(LAMBDA i : IF queue[i].cmd = "Flush" THEN Pending(queue[i].batch)
                                                            ELSE 0, DOMAIN queue)

CountsAgree ==
  pc = "ready" /\ ~flush_error =>
    current_token_count = valid + InFlight + Queued + Pending(buffers[0])

\* A truncate that has returned stands: no batch queued before it raises the visible
\* count above the frames it has left (header.rs:70).  A batch counted while truncate
\* is still under way is no harm, for truncate then lowers the new count.
StaleFlushRejected ==
  [][wbatch.batch_epoch < epoch /\ pc \notin {"load", "store"} /\ valid' > valid
       => valid' <= Len(log)]_vars

\* Whatever ended the last writer, visible tokens can be read (reader.rs:162).
ClosedReadable == pc = "closed" => ReadsCorrect

\* The frames a fresh reader can read, as the abstract log's durable prefix; 0
\* where the columns do not hold the tokens of one frame.
Durable ==
  LET tokens(index, t) ==
        UNION {TokenBytes(disk, Len(disk), index, valid, c, t) : c \in Cols}
      frame(cells) == {f \in Frames : cells = {Token(c, f) : c \in Cols}}
      prefix(index) == [i \in 1 .. Published |-> Max({0} \cup frame(tokens(index, i - 1)))]
  IN  CHOOSE d \in {prefix(index) : index \in {FreshIndex}} : TRUE

\* A paced writer implements the abstract log: frames become readable in order,
\* without holes, and once readable they stay so across crashes and reopening.
AbstractLog == INSTANCE KvCacheLog WITH Frame <- Frames, durable <- Durable
ImplementsLog == AbstractLog!Spec

\* Drop returns: the worker always ends, by Stop or by an error.
DropEnds == pc = "joining" ~> pc = "closed"

\* Every full block of accepted frames becomes visible without the caller doing
\* anything more, unless the worker fails or the process ends.
BlocksPublished ==
  \A n \in 1 .. Budget["frame"] \div BLOCK_TOKEN_COUNT :
    Len(log) >= n * BLOCK_TOKEN_COUNT ~>
      valid >= n * BLOCK_TOKEN_COUNT \/ flush_error \/ pc = "closed"

\* However the caller flushes, less than a block of what it has had accepted stays
\* unpublished for good, unless the worker fails, the process ends or something was
\* truncated (writer.rs:324, writer.rs:331).
BacklogDrains ==
  \A m \in 1 .. Budget["frame"] :
    Len(log) >= m ~>
      \/ valid > m - BLOCK_TOKEN_COUNT \/ flush_error \/ pc = "closed"
      \/ budget["truncate"] < Budget["truncate"]
=============================================================================
