----------------------- MODULE KvCacheCountersProofs ------------------------
(***************************************************************************)
(* The two counters of KvCacheWriter.                                      *)
(*                                                                         *)
(* next_chunk_id: open recovers it from the chain of the head alone, so    *)
(* that blocks which a failure or a stale epoch left behind may carry the  *)
(* same identifiers; within the chain they are unique, and increase.       *)
(*                                                                         *)
(* current_token_count: what is visible and what is queued, being written  *)
(* or buffered add up to it as long as no batch is handed over before a    *)
(* truncate and counted, or not counted, after it.                         *)
(***************************************************************************)
EXTENDS KvCacheProofs

\* The identifiers of a batch increase with the column and are above those of the
\* block it links to.
RightIds(f, prev, es) ==
  /\ \A c, d \in Cols : d < c => es[d].chunk_id < es[c].chunk_id
  /\ prev # 0 => \A c, d \in Cols : f[prev].entries[d].chunk_id < es[c].chunk_id

\* They have been handed out by a counter that is at n.
Used(es, n) == \A c \in Cols : es[c].chunk_id < n

RightFile(f) == \A o \in Trailers(f, Len(f)) : RightIds(f, Previous(f, o), f[o].entries)

RightBatch(f, b, n) == RightIds(f, b.prev_index_offset, b.entries) /\ Used(b.entries, n)

RightQueue(f, q, n) == \A i \in 1 .. Len(q) : q[i].cmd = "Flush" => RightBatch(f, q[i].batch, n)

\* While there is a writer, what is on its way and what the head names is below the
\* counter; a batch that is being published is the one windex names.
IdsInv ==
  /\ RightFile(disk)
  /\ RightQueue(disk, queue, next_chunk_id)
  /\ wpc \in {"payload", "index", "trailer", "check", "load", "store", "head"} =>
       RightBatch(disk, wbatch, next_chunk_id)
  /\ wpc = "trailer" => disk[Len(disk)].entries = wbatch.entries
  /\ wpc \in {"check", "load", "store", "head"} => disk[windex].entries = wbatch.entries
  /\ IF pc = "closed" THEN wpc = "stopped" /\ queue = <<>>
                      ELSE head # 0 => Used(disk[head].entries, next_chunk_id)

-----------------------------------------------------------------------------
\* What is right stays right while the file grows.
LEMMA RightIdsGrow ==
  ASSUME NEW f \in Seq(Cell), NEW g \in Seq(Cell), Extends(f, g),
         NEW prev, Linked(f, prev), NEW es, RightIds(f, prev, es)
  PROVE  RightIds(g, prev, es)
<1>1. prev # 0 => g[prev] = f[prev]
  BY TrailersGrow DEF Linked
<1> QED BY <1>1 DEF RightIds

LEMMA RightQueueGrows ==
  ASSUME NEW f \in Seq(Cell), NEW g \in Seq(Cell), Extends(f, g), NEW n,
         NEW q, ChainedQueue(f, q), RightQueue(f, q, n)
  PROVE  RightQueue(g, q, n)
BY RightIdsGrow DEF ChainedQueue, RightQueue, RightBatch

\* Cells that are no trailers keep the file right.
LEMMA RightFileGrows ==
  ASSUME NEW f \in Seq(Cell), NEW g \in Seq(Cell), Extends(f, g), ChainedFile(f), RightFile(f),
         \A q \in Len(f) + 1 .. Len(g) : g[q].kind # "trailer"
  PROVE  RightFile(g)
<1>1. Len(f) \in Nat /\ Len(g) \in Nat
  BY LenProperties
<1> SUFFICES ASSUME NEW o \in Trailers(g, Len(g))
             PROVE  RightIds(g, Previous(g, o), g[o].entries)
  BY DEF RightFile
<1>2. /\ o \in Nat /\ 0 < o /\ o < Len(g)
      /\ g[o].kind = "index" /\ g[o + 1].kind = "trailer"
  BY TrailerIff
<1>3. o + 1 \in 1 .. Len(f) /\ o \in 1 .. Len(f) /\ o < Len(f)
  BY <1>1, <1>2
<1>4. o \in Trailers(f, Len(f))
  BY <1>2, <1>3, TrailerIff DEF Extends
<1>5. g[o] = f[o] /\ Previous(g, o) = Previous(f, o)
  BY <1>4, TrailersGrow
<1>6. RightIds(f, Previous(f, o), f[o].entries) /\ Linked(f, Previous(f, o))
  BY <1>4 DEF RightFile, ChainedFile
<1> QED BY <1>5, <1>6, RightIdsGrow

\* A trailer behind an index block that is right.
LEMMA RightTrailer ==
  ASSUME NEW f \in Seq(Cell), NEW t \in Nat, ChainedFile(f), RightFile(f), Linked(f, t),
         Len(f) > 0, f[Len(f)].kind = "index", RightIds(f, t, f[Len(f)].entries)
  PROVE  RightFile(Append(f, IndexTrailer(t)))
<1> DEFINE x == IndexTrailer(t)
           g == Append(f, x)
<1>1. Len(f) \in Nat
  BY LenProperties
<1>2. x \in Cell /\ x.kind = "trailer" /\ x.prev_index_offset = t
  BY DEF IndexTrailer, Cell
<1> HIDE DEF x
<1>3. /\ g \in Seq(Cell) /\ Extends(f, g) /\ Len(g) = Len(f) + 1 /\ g[Len(f) + 1] = x
  BY <1>2, AppendExtends
<1> HIDE DEF g
<1> SUFFICES ASSUME NEW o \in Trailers(g, Len(g))
             PROVE  RightIds(g, Previous(g, o), g[o].entries)
  BY DEF RightFile, g, x
<1>4. /\ o \in Nat /\ 0 < o /\ o < Len(g)
      /\ g[o].kind = "index" /\ g[o + 1].kind = "trailer"
  BY <1>3, TrailerIff
<1>5. CASE o = Len(f)
  <2>1. Previous(g, o) = t /\ g[o] = f[o]
    BY <1>1, <1>2, <1>3, <1>5 DEF Previous, At, Extends
  <2> QED BY <1>3, <1>5, <2>1, RightIdsGrow
<1>6. CASE o # Len(f)
  <2>1. o < Len(f) /\ o \in 1 .. Len(f) /\ o + 1 \in 1 .. Len(f)
    BY <1>1, <1>3, <1>4, <1>6
  <2>2. o \in Trailers(f, Len(f))
    BY <1>3, <1>4, <2>1, TrailerIff DEF Extends
  <2>3. g[o] = f[o] /\ Previous(g, o) = Previous(f, o)
    BY <1>3, <2>2, TrailersGrow
  <2>4. RightIds(f, Previous(f, o), f[o].entries) /\ Linked(f, Previous(f, o))
    BY <2>2 DEF RightFile, ChainedFile
  <2> QED BY <1>3, <2>3, <2>4, RightIdsGrow
<1> QED BY <1>5, <1>6

\* The counter only goes up.
LEMMA UsedStays ==
  ASSUME NEW es \in [Cols -> Entry], NEW n \in Nat, NEW m \in Nat, n <= m, Used(es, n)
  PROVE  Used(es, m)
<1>1. \A c \in Cols : es[c].chunk_id \in Nat
  BY DEF Entry
<1> QED BY <1>1 DEF Used

LEMMA RightQueueStays ==
  ASSUME NEW f, NEW q \in Seq(FlushCommand), NEW n \in Nat, NEW m \in Nat, n <= m,
         RightQueue(f, q, n)
  PROVE  RightQueue(f, q, m)
<1> SUFFICES ASSUME NEW i \in 1 .. Len(q), q[i].cmd = "Flush" PROVE RightBatch(f, q[i].batch, m)
  BY DEF RightQueue
<1>1. q[i] \in FlushCommand
  BY ElementOfSeq
<1>2. q[i].batch.entries \in [Cols -> Entry]
  BY <1>1 DEF FlushCommand, FlushBatch
<1> QED BY <1>2, UsedStays DEF RightQueue, RightBatch

-----------------------------------------------------------------------------
\* What a fresh batch carries.
LEMMA BatchRight ==
  ASSUME TypeInv, ChainInv, head # 0 => Used(disk[head].entries, next_chunk_id), NEW bufs
  PROVE  RightBatch(disk, BatchOf(bufs), next_chunk_id + NumColumns)
<1>1. next_chunk_id \in Nat /\ NumColumns \in Nat /\ Cols \subseteq Nat
  BY ColumnsAssumption DEF TypeInv, TypeOK, Cols
<1>2. \A c \in Cols : BatchOf(bufs).entries[c].chunk_id = next_chunk_id + c
  BY DEF BatchOf
<1>3. BatchOf(bufs).prev_index_offset = head
  BY DEF BatchOf, PrevIndexOffset
<1>4. head # 0 => \A d \in Cols : disk[head].entries[d].chunk_id \in Nat
  <2>1. disk \in Seq(Cell)
    BY DEF TypeInv, TypeOK
  <2>2. head # 0 => disk[head].entries \in [Cols -> Entry]
    BY <2>1, TrailerCells DEF ChainInv, Linked
  <2> QED BY <2>2 DEF Entry
<1>5. \A c \in Cols : c < NumColumns
  BY <1>1 DEF Cols
<1> HIDE DEF BatchOf
<1>6. \A c, d \in Cols : d < c => BatchOf(bufs).entries[d].chunk_id < BatchOf(bufs).entries[c].chunk_id
  BY <1>1, <1>2
<1>7. head # 0 => \A c, d \in Cols : disk[head].entries[d].chunk_id < BatchOf(bufs).entries[c].chunk_id
  BY <1>1, <1>2, <1>4 DEF Used
<1>8. ASSUME NEW c \in Cols
      PROVE  BatchOf(bufs).entries[c].chunk_id < next_chunk_id + NumColumns
  <2>1. c \in Nat /\ c < NumColumns /\ BatchOf(bufs).entries[c].chunk_id = next_chunk_id + c
    BY <1>1, <1>2, <1>5
  <2> QED BY <1>1, <2>1
<1> QED BY <1>3, <1>6, <1>7, <1>8 DEF RightBatch, RightIds, Used

\* What flush_block does to the queue and the counter.
LEMMA FlushRight ==
  ASSUME TypeInv, ChainInv, IdsInv, pc # "closed", NEW bufs, SoundBuffers(bufs),
         NEW tail, tail \in {<<>>, <<Stop>>}, FlushBlock(bufs, tail)
  PROVE  /\ next_chunk_id' \in Nat /\ next_chunk_id <= next_chunk_id'
         /\ RightQueue(disk, queue', next_chunk_id')
<1>1. /\ queue \in Seq(FlushCommand) /\ RightQueue(disk, queue, next_chunk_id)
      /\ next_chunk_id \in Nat /\ next_chunk_id + NumColumns \in Nat
      /\ next_chunk_id <= next_chunk_id + NumColumns
  BY ColumnsAssumption DEF TypeInv, TypeOK, IdsInv
<1>2. tail \in Seq(FlushCommand) /\ \A i \in 1 .. Len(tail) : tail[i].cmd # "Flush"
  <2>1. Stop \in FlushCommand /\ Stop.cmd # "Flush"
    BY DEF Stop, FlushCommand
  <2>2. CASE tail = <<>>
    BY <2>2
  <2>3. CASE tail = <<Stop>>
    <3>1. tail \in Seq(FlushCommand) /\ Len(tail) = 1 /\ tail[1] = Stop
      BY <2>1, <2>3
    <3> QED BY <2>1, <3>1
  <2> QED BY <2>2, <2>3
<1>3. ASSUME NEW q \in Seq(FlushCommand), NEW n, RightQueue(disk, q, n)
      PROVE  RightQueue(disk, q \o tail, n)
  <2>1. Len(q) \in Nat /\ Len(tail) \in Nat
    BY <1>2, LenProperties
  <2>2. /\ Len(q \o tail) = Len(q) + Len(tail)
        /\ \A i \in 1 .. Len(q) + Len(tail) :
             (q \o tail)[i] = IF i <= Len(q) THEN q[i] ELSE tail[i - Len(q)]
    BY <1>2, ConcatProperties
  <2> SUFFICES ASSUME NEW i \in 1 .. Len(q) + Len(tail), (q \o tail)[i].cmd = "Flush"
               PROVE  RightBatch(disk, (q \o tail)[i].batch, n)
    BY <2>2 DEF RightQueue
  <2>3. CASE i <= Len(q)
    BY <1>3, <2>1, <2>2, <2>3 DEF RightQueue
  <2>4. CASE ~(i <= Len(q))
    <3>1. i - Len(q) \in 1 .. Len(tail) /\ (q \o tail)[i] = tail[i - Len(q)]
      BY <2>1, <2>2, <2>4
    <3> QED BY <1>2, <3>1
  <2> QED BY <2>3, <2>4
<1>4. CASE FlushNothing(bufs, tail)
  BY <1>1, <1>3, <1>4 DEF FlushNothing
<1>5. CASE FlushSent(bufs, tail)
  <2> DEFINE m == [cmd |-> "Flush", batch |-> BatchOf(bufs)]
             n == next_chunk_id + NumColumns
  <2>1. m \in FlushCommand
    BY BatchType DEF FreshCommand
  <2>2. RightBatch(disk, m.batch, n)
    BY BatchRight DEF IdsInv
  <2>3. queue' = Append(queue, m) \o tail /\ next_chunk_id' = n
    BY <1>5 DEF FlushSent
  <2>4. RightQueue(disk, queue, n)
    BY <1>1, RightQueueStays
  <2> HIDE DEF m, n
  <2>5. Append(queue, m) \in Seq(FlushCommand) /\ RightQueue(disk, Append(queue, m), n)
    <3>1. Len(queue) \in Nat
      BY <1>1, LenProperties
    <3>2. /\ Append(queue, m) \in Seq(FlushCommand) /\ Len(Append(queue, m)) = Len(queue) + 1
          /\ \A i \in 1 .. Len(queue) : Append(queue, m)[i] = queue[i]
          /\ Append(queue, m)[Len(queue) + 1] = m
      BY <1>1, <2>1, AppendProperties
    <3>3. \A i \in 1 .. Len(queue) + 1 : i \in 1 .. Len(queue) \/ i = Len(queue) + 1
      BY <3>1
    <3> QED BY <2>2, <2>4, <3>2, <3>3 DEF RightQueue
  <2>6. RightQueue(disk, queue', n)
    BY <1>3, <2>3, <2>5
  <2> QED BY <1>1, <2>3, <2>6 DEF n
<1>6. CASE FlushLost(bufs)
  BY <1>1, <1>6, RightQueueStays DEF FlushLost
<1> QED BY <1>4, <1>5, <1>6 DEF FlushBlock
-----------------------------------------------------------------------------
LEMMA InitIds == Init => IdsInv
<1> SUFFICES ASSUME Init PROVE IdsInv
  OBVIOUS
<1>1. disk = <<Header>> /\ disk \in Seq(Cell) /\ Len(disk) = 1
  BY DEF Init, Cell
<1>2. ASSUME NEW o \in Trailers(disk, Len(disk)) PROVE FALSE
  <2>1. o \in Nat /\ 0 < o /\ o < Len(disk)
    BY <1>1, TrailerIff
  <2> QED BY <1>1, <2>1
<1>3. RightFile(disk)
  BY <1>2 DEF RightFile
<1>4. Len(queue) = 0 /\ RightQueue(disk, queue, next_chunk_id)
  BY DEF Init, RightQueue
<1> QED BY <1>3, <1>4 DEF Init, IdsInv

\* A step of a caller that has a writer, which only queues and counts.
LEMMA CallerRight ==
  ASSUME TypeInv, IdsInv, ChainInv, pc # "closed", pc' # "closed",
         UNCHANGED <<disk, head, wpc, wbatch, windex>>,
         next_chunk_id' \in Nat, next_chunk_id <= next_chunk_id',
         RightQueue(disk, queue', next_chunk_id')
  PROVE  IdsInv'
<1>1. next_chunk_id \in Nat /\ disk \in Seq(Cell) /\ wbatch.entries \in [Cols -> Entry]
  BY DEF TypeInv, TypeOK, FlushBatch
<1>2. \A es \in [Cols -> Entry] : Used(es, next_chunk_id) => Used(es, next_chunk_id')
  BY <1>1, UsedStays
<1>3. head # 0 => disk[head].entries \in [Cols -> Entry]
  BY <1>1, TrailerCells DEF ChainInv, Linked
<1> QED BY <1>1, <1>2, <1>3 DEF IdsInv, RightBatch

LEMMA CallerStepIds == TypeInv /\ ChainInv /\ IdsInv /\ Caller => IdsInv'
<1> SUFFICES ASSUME TypeInv, ChainInv, IdsInv, Caller PROVE IdsInv'
  OBVIOUS
<1>1. /\ RightQueue(disk, queue, next_chunk_id) /\ SoundBuffers(buffers)
      /\ next_chunk_id \in Nat /\ next_chunk_id <= next_chunk_id
  BY TypeInvBuffers DEF IdsInv, TypeInv, TypeOK
<1>2. CASE Append_frame
  <2> DEFINE bufs == [c \in Cols |-> [buffers[c] EXCEPT !.data = Append(@, Token(c, NextFrame)),
                                                       !.token_count = @ + 1]]
  <2>1. UNCHANGED <<disk, head, wpc, wbatch, windex>> /\ pc = "ready" /\ pc' = "ready"
    BY <1>2 DEF Append_frame, file, worker
  <2>2. SoundBuffers(bufs)
    BY <1>2, AppendedBuffers
  <2>3. UNCHANGED <<queue, next_chunk_id>> \/ FlushBlock(bufs, <<>>)
    BY <1>2 DEF Append_frame, FlushBlock
  <2> HIDE DEF bufs
  <2>4. /\ next_chunk_id' \in Nat /\ next_chunk_id <= next_chunk_id'
        /\ RightQueue(disk, queue', next_chunk_id')
    BY <1>1, <2>1, <2>2, <2>3, FlushRight
  <2> QED BY <2>1, <2>4, CallerRight
<1>3. CASE Flush_pending
  <2>1. /\ UNCHANGED <<disk, head, wpc, wbatch, windex>> /\ FlushBlock(buffers, <<>>)
        /\ pc = "ready" /\ pc' = "ready"
    BY <1>3 DEF Flush_pending, FlushBlock, file, worker
  <2>2. /\ next_chunk_id' \in Nat /\ next_chunk_id <= next_chunk_id'
        /\ RightQueue(disk, queue', next_chunk_id')
    BY <1>1, <2>1, FlushRight
  <2> QED BY <2>1, <2>2, CallerRight
<1>4. CASE \E count \in 0 .. current_token_count : Truncate_epoch(count)
  <2>1. /\ UNCHANGED <<disk, head, wpc, wbatch, windex, queue, next_chunk_id>>
        /\ pc = "ready" /\ pc' = "load"
    BY <1>4 DEF Truncate_epoch, worker, writer
  <2> QED BY <1>1, <2>1, CallerRight
<1>5. CASE Truncate_committed \/ Truncate_store \/ Truncate_pending
  <2>1. /\ UNCHANGED <<disk, head, wpc, wbatch, windex, queue, next_chunk_id>>
        /\ pc # "closed" /\ pc' # "closed"
    BY <1>5 DEF Truncate_committed, Truncate_store, Truncate_pending, file, worker, writer
  <2> QED BY <1>1, <2>1, CallerRight
<1>6. CASE Drop
  <2>1. /\ UNCHANGED <<disk, head, wpc, wbatch, windex>> /\ FlushBlock(buffers, StopCommand)
        /\ pc = "ready" /\ pc' = "joining"
    BY <1>6 DEF Drop, file, worker
  <2>2. StopCommand \in {<<>>, <<Stop>>}
    BY DEF StopCommand
  <2>3. /\ next_chunk_id' \in Nat /\ next_chunk_id <= next_chunk_id'
        /\ RightQueue(disk, queue', next_chunk_id')
    BY <1>1, <2>1, <2>2, FlushRight
  <2> QED BY <2>1, <2>3, CallerRight
<1>7. CASE Join
  <2>1. UNCHANGED <<disk, head>> /\ queue' = <<>> /\ wpc' = "stopped" /\ pc' = "closed"
    BY <1>7 DEF Join, Gone, file
  <2>2. RightQueue(disk', queue', next_chunk_id')
    BY <2>1 DEF RightQueue
  <2> QED BY <2>1, <2>2 DEF IdsInv
<1>8. CASE Open
  <2>1. /\ UNCHANGED <<disk, head, queue>> /\ wpc' = "start" /\ pc = "closed" /\ pc' = "ready"
        /\ next_chunk_id' = NextChunkId(disk, Len(disk), head)
    BY <1>8 DEF Open, file
  <2>2. queue' = <<>> /\ RightQueue(disk', queue', next_chunk_id')
    BY <2>1 DEF IdsInv, RightQueue
  <2>3. disk \in Seq(Cell) /\ head \in Nat /\ Linked(disk, head)
    BY DEF TypeInv, TypeOK, ChainInv
  <2>4. head # 0 => head \in Walk(disk, Len(disk), head)
    BY <2>3 DEF Linked, Walk, Closed, Trailers
  <2>5. head # 0 => Used(disk[head].entries, next_chunk_id')
    BY <2>1, <2>3, <2>4, NextChunkIdFresh DEF Used
  <2> QED BY <2>1, <2>2, <2>5 DEF IdsInv
<1> QED BY <1>2, <1>3, <1>4, <1>5, <1>6, <1>7, <1>8 DEF Caller

-----------------------------------------------------------------------------
\* What is right about the rest while the file grows and nothing else changes.
LEMMA GrownRight ==
  ASSUME TypeInv, ChainInv, IdsInv, disk' \in Seq(Cell), Extends(disk, disk')
  PROVE  /\ RightQueue(disk', queue, next_chunk_id)
         /\ RightIds(disk, wbatch.prev_index_offset, wbatch.entries)
              => RightIds(disk', wbatch.prev_index_offset, wbatch.entries)
         /\ head # 0 => disk'[head] = disk[head]
<1>1. disk \in Seq(Cell)
  BY DEF TypeInv, TypeOK
<1>2. /\ ChainedQueue(disk, queue) /\ RightQueue(disk, queue, next_chunk_id)
      /\ Linked(disk, wbatch.prev_index_offset) /\ Linked(disk, head)
  BY DEF ChainInv, IdsInv
<1>3. RightQueue(disk', queue, next_chunk_id)
  BY <1>1, <1>2, RightQueueGrows
<1>4. RightIds(disk, wbatch.prev_index_offset, wbatch.entries)
        => RightIds(disk', wbatch.prev_index_offset, wbatch.entries)
  BY <1>1, <1>2, RightIdsGrow
<1>5. head # 0 => disk'[head] = disk[head]
  BY <1>1, <1>2, TrailersGrow DEF Linked
<1> QED BY <1>3, <1>4, <1>5

\* A torn cell is not a trailer.
LEMMA TornRight ==
  ASSUME TypeInv, ChainInv, IdsInv, MayTear
  PROVE  disk' \in Seq(Cell) /\ Extends(disk, disk') /\ RightFile(disk')
<1>1. disk \in Seq(Cell) /\ Len(disk) \in Nat /\ Torn \in Cell /\ Torn.kind # "trailer"
  BY LenProperties DEF TypeInv, TypeOK, Cell, Torn
<1>2. CASE UNCHANGED disk
  BY <1>1, <1>2 DEF IdsInv, Extends
<1>3. CASE disk' = Append(disk, Torn)
  <2>1. /\ disk' \in Seq(Cell) /\ Extends(disk, disk') /\ Len(disk') = Len(disk) + 1
        /\ disk'[Len(disk) + 1] = Torn
    BY <1>1, <1>3, AppendExtends
  <2>2. \A q \in Len(disk) + 1 .. Len(disk') : disk'[q].kind # "trailer"
    BY <1>1, <2>1
  <2> QED BY <1>1, <2>1, <2>2, RightFileGrows DEF ChainInv, IdsInv
<1> QED BY <1>2, <1>3 DEF MayTear

LEMMA CrashIds == TypeInv /\ ChainInv /\ IdsInv /\ Crash => IdsInv'
<1> SUFFICES ASSUME TypeInv, ChainInv, IdsInv, Crash PROVE IdsInv'
  OBVIOUS
<1>1. MayTear /\ queue' = <<>> /\ wpc' = "stopped" /\ pc' = "closed"
  BY DEF Crash, Gone
<1>2. RightFile(disk')
  BY <1>1, TornRight
<1>3. RightQueue(disk', queue', next_chunk_id')
  BY <1>1 DEF RightQueue
<1> QED BY <1>1, <1>2, <1>3 DEF IdsInv

LEMMA WorkerFailsIds == TypeInv /\ ChainInv /\ IdsInv /\ Worker_fails => IdsInv'
<1> SUFFICES ASSUME TypeInv, ChainInv, IdsInv, Worker_fails PROVE IdsInv'
  OBVIOUS
<1>1. /\ MayTear /\ queue' = <<>> /\ wpc # "stopped" /\ wpc' = "dead"
      /\ UNCHANGED <<pc, head, next_chunk_id>>
  BY DEF Worker_fails, WorkerDies, writer
<1>2. disk' \in Seq(Cell) /\ Extends(disk, disk') /\ RightFile(disk')
  BY <1>1, TornRight
<1>3. RightQueue(disk', queue', next_chunk_id')
  BY <1>1 DEF RightQueue
<1>4. head # 0 => disk'[head] = disk[head]
  BY <1>2, GrownRight
<1>5. pc # "closed"
  BY <1>1 DEF IdsInv
<1> QED BY <1>1, <1>2, <1>3, <1>4, <1>5 DEF IdsInv

LEMMA WorkerReceiveIds == TypeInv /\ ChainInv /\ IdsInv /\ Worker_receive => IdsInv'
<1> SUFFICES ASSUME TypeInv, ChainInv, IdsInv, Worker_receive PROVE IdsInv'
  OBVIOUS
<1>1. /\ wpc = "idle" /\ queue # <<>> /\ queue' = Tail(queue)
      /\ UNCHANGED <<disk, head, pc, next_chunk_id>>
      /\ \/ wpc' = "payload" /\ Head(queue).cmd = "Flush" /\ wbatch' = Head(queue).batch
         \/ wpc' = "stopped" /\ UNCHANGED wbatch
  BY DEF Worker_receive, file, writer
<1>2. queue \in Seq(FlushCommand) /\ Len(queue) \in Nat /\ RightQueue(disk, queue, next_chunk_id)
  BY LenProperties DEF TypeInv, TypeOK, IdsInv
<1>3. /\ Len(queue) > 0 /\ Head(queue) = queue[1]
      /\ queue' \in Seq(FlushCommand) /\ Len(queue') = Len(queue) - 1
      /\ \A i \in 1 .. Len(queue') : queue'[i] = queue[i + 1]
  BY <1>1, <1>2, HeadTailProperties, EmptySeq
<1>4. RightQueue(disk, queue', next_chunk_id)
  <2>1. \A i \in 1 .. Len(queue') : i + 1 \in 1 .. Len(queue)
    BY <1>2, <1>3
  <2> QED BY <1>2, <1>3, <2>1 DEF RightQueue
<1>5. wpc' = "payload" => RightBatch(disk, wbatch', next_chunk_id)
  <2>1. 1 \in 1 .. Len(queue)
    BY <1>2, <1>3
  <2> QED BY <1>1, <1>2, <1>3, <2>1 DEF RightQueue
<1>6. pc # "closed"
  BY <1>1 DEF IdsInv
<1> QED BY <1>1, <1>4, <1>5, <1>6 DEF IdsInv

LEMMA WorkerPayloadIds == TypeInv /\ ChainInv /\ IdsInv /\ Worker_payload => IdsInv'
<1> SUFFICES ASSUME TypeInv, ChainInv, IdsInv, Worker_payload PROVE IdsInv'
  OBVIOUS
<1> DEFINE payload == wbatch.payloads[wcol]
<1>1. /\ disk \in Seq(Cell) /\ Len(disk) \in Nat /\ wcol \in Cols /\ wbatch \in FlushBatch
      /\ payload \in Seq(ColumnToken(wcol))
  BY LenProperties DEF TypeInv, TypeOK, PendingSound
<1>2. /\ disk' = disk \o payload /\ UNCHANGED <<head, queue, pc, next_chunk_id>>
      /\ wpc = "payload" /\ wpc' \in {"index", "payload"}
      /\ wbatch' = [wbatch EXCEPT !.entries[wcol].byte_offset = PayloadOffset(payload),
                                  !.entries[wcol].byte_len = Len(payload)]
  BY DEF Worker_payload, writer
<1>3. /\ wbatch'.prev_index_offset = wbatch.prev_index_offset
      /\ \A c \in Cols : wbatch'.entries[c].chunk_id = wbatch.entries[c].chunk_id
  <2> DEFINE at == PayloadOffset(payload)
             length == Len(payload)
             e == [[wbatch.entries[wcol] EXCEPT !.byte_offset = at] EXCEPT !.byte_len = length]
  <2>1. wbatch' = [wbatch EXCEPT !.entries[wcol].byte_offset = at, !.entries[wcol].byte_len = length]
    BY <1>2
  <2>2. wcol \in Cols /\ wbatch \in FlushBatch /\ wbatch.entries \in [Cols -> Entry]
    BY <1>1 DEF FlushBatch
  <2> HIDE DEF at, length
  <2>3. e.chunk_id = wbatch.entries[wcol].chunk_id
    BY <2>2 DEF Entry
  <2>4. /\ wbatch'.prev_index_offset = wbatch.prev_index_offset
        /\ wbatch'.entries = [wbatch.entries EXCEPT ![wcol] = e]
    BY <2>1, <2>2 DEF FlushBatch
  <2> HIDE DEF e
  <2>5. \A c \in Cols : wbatch'.entries[c] = IF c = wcol THEN e ELSE wbatch.entries[c]
    BY <2>2, <2>4
  <2> QED BY <2>3, <2>4, <2>5
<1> HIDE DEF payload
<1>4. /\ disk' \in Seq(Cell) /\ Extends(disk, disk') /\ Len(disk') = Len(disk) + Len(payload)
      /\ \A q \in Len(disk) + 1 .. Len(disk') : disk'[q] \in ColumnToken(wcol)
  BY <1>1, <1>2, ConcatExtends
<1>5. RightFile(disk')
  <2>1. \A q \in Len(disk) + 1 .. Len(disk') : disk'[q].kind # "trailer"
    BY <1>4 DEF ColumnToken
  <2> QED BY <1>1, <1>4, <2>1, RightFileGrows DEF ChainInv, IdsInv
<1>6. RightBatch(disk', wbatch, next_chunk_id)
  BY <1>2, <1>4, GrownRight DEF IdsInv, RightBatch
<1>7. RightBatch(disk', wbatch', next_chunk_id)
  BY <1>3, <1>6 DEF RightBatch, RightIds, Used
<1>8. RightQueue(disk', queue, next_chunk_id) /\ (head # 0 => disk'[head] = disk[head])
  BY <1>4, GrownRight
<1>9. pc # "closed"
  BY <1>2 DEF IdsInv
<1> QED BY <1>2, <1>5, <1>7, <1>8, <1>9 DEF IdsInv

LEMMA WorkerIndexIds == TypeInv /\ ChainInv /\ IdsInv /\ Worker_index => IdsInv'
<1> SUFFICES ASSUME TypeInv, ChainInv, IdsInv, Worker_index PROVE IdsInv'
  OBVIOUS
<1> DEFINE x == IndexBlock(wbatch.prev_index_offset, wbatch.block_idx, wbatch.entries)
<1>1. /\ disk' = Append(disk, x) /\ wpc = "index" /\ wpc' = "trailer"
      /\ UNCHANGED <<head, queue, wbatch, pc, next_chunk_id>>
  BY DEF Worker_index, writer
<1>2. /\ disk \in Seq(Cell) /\ Len(disk) \in Nat
      /\ x \in Cell /\ x.kind = "index" /\ x.entries = wbatch.entries
  BY LenProperties DEF TypeInv, TypeOK, FlushBatch, IndexBlock, Cell
<1> HIDE DEF x
<1>3. /\ disk' \in Seq(Cell) /\ Extends(disk, disk') /\ Len(disk') = Len(disk) + 1
      /\ disk'[Len(disk) + 1] = x
  BY <1>1, <1>2, AppendExtends
<1>4. RightFile(disk')
  <2>1. \A q \in Len(disk) + 1 .. Len(disk') : disk'[q].kind # "trailer"
    BY <1>2, <1>3
  <2> QED BY <1>2, <1>3, <2>1, RightFileGrows DEF ChainInv, IdsInv
<1>5. RightBatch(disk', wbatch, next_chunk_id)
  BY <1>1, <1>3, GrownRight DEF IdsInv, RightBatch
<1>6. RightQueue(disk', queue, next_chunk_id) /\ (head # 0 => disk'[head] = disk[head])
  BY <1>3, GrownRight
<1>7. disk'[Len(disk')].entries = wbatch.entries
  BY <1>2, <1>3
<1>8. pc # "closed"
  BY <1>1 DEF IdsInv
<1> QED BY <1>1, <1>4, <1>5, <1>6, <1>7, <1>8 DEF IdsInv

LEMMA WorkerTrailerIds == TypeInv /\ ChainInv /\ IdsInv /\ Worker_trailer => IdsInv'
<1> SUFFICES ASSUME TypeInv, ChainInv, IdsInv, Worker_trailer PROVE IdsInv'
  OBVIOUS
<1> DEFINE t == wbatch.prev_index_offset
<1>1. /\ disk' = Append(disk, IndexTrailer(t)) /\ wpc = "trailer" /\ wpc' = "check"
      /\ windex' = Len(disk) /\ UNCHANGED <<head, queue, wbatch, pc, next_chunk_id>>
  BY DEF Worker_trailer, IndexOffset, writer
<1>2. disk \in Seq(Cell) /\ Len(disk) \in Nat /\ t \in Nat /\ IndexTrailer(t) \in Cell
  BY LenProperties DEF TypeInv, TypeOK, FlushBatch, IndexTrailer, Cell
<1>3. /\ Linked(disk, t) /\ Len(disk) > 0 /\ disk[Len(disk)].kind = "index"
      /\ RightIds(disk, t, disk[Len(disk)].entries) /\ disk[Len(disk)].entries = wbatch.entries
  BY <1>1 DEF ChainInv, IdsInv, RightBatch
<1>4. disk' \in Seq(Cell) /\ Extends(disk, disk') /\ Len(disk') = Len(disk) + 1
  BY <1>1, <1>2, AppendExtends
<1>5. RightBatch(disk', wbatch, next_chunk_id)
  BY <1>1, <1>4, GrownRight DEF IdsInv, RightBatch
<1> HIDE DEF t
<1>6. RightFile(disk')
  BY <1>1, <1>2, <1>3, RightTrailer DEF ChainInv, IdsInv
<1>7. RightQueue(disk', queue, next_chunk_id) /\ (head # 0 => disk'[head] = disk[head])
  BY <1>4, GrownRight
<1>8. disk'[windex'].entries = wbatch.entries
  BY <1>1, <1>2, <1>3, <1>4 DEF Extends
<1>9. pc # "closed"
  BY <1>1 DEF IdsInv
<1> QED BY <1>1, <1>5, <1>6, <1>7, <1>8, <1>9 DEF IdsInv

LEMMA WorkerCommitIds ==
  TypeInv /\ IdsInv /\ (Worker_start \/ Worker_check \/ Worker_load \/ Worker_store \/ Worker_head)
    => IdsInv'
<1> SUFFICES ASSUME TypeInv, IdsInv,
                    Worker_start \/ Worker_check \/ Worker_load \/ Worker_store \/ Worker_head
             PROVE  IdsInv'
  OBVIOUS
<1>1. CASE Worker_start \/ Worker_load
  BY <1>1 DEF Worker_start, Worker_load, IdsInv, file, writer
<1>2. CASE Worker_check
  <2>1. CASE wpc = "check" /\ wpc' = "load" /\ UNCHANGED <<file, queue, pc, writer, wbatch, windex>>
    BY <2>1 DEF IdsInv, file, writer
  <2>2. CASE wpc = "check" /\ BackToIdle /\ UNCHANGED <<file, queue, pc, writer>>
    BY <2>2 DEF IdsInv, BackToIdle, file, writer
  <2> QED BY <1>2, <2>1, <2>2 DEF Worker_check
<1>3. CASE Worker_store
  BY <1>3 DEF Worker_store, IdsInv, writer
<1>4. CASE Worker_head
  <2>1. /\ wpc = "head" /\ head' = windex /\ UNCHANGED <<disk, pc, next_chunk_id>>
        /\ wpc' \in {"idle", "dead"} /\ (queue' = queue \/ queue' = <<>>)
    BY <1>4 DEF Worker_head, BackToIdle, WorkerDies, writer
  <2>2. RightQueue(disk', queue', next_chunk_id')
    BY <2>1 DEF IdsInv, RightQueue
  <2>3. Used(disk[windex].entries, next_chunk_id) /\ pc # "closed"
    BY <2>1 DEF IdsInv, RightBatch
  <2> QED BY <2>1, <2>2, <2>3 DEF IdsInv
<1> QED BY <1>1, <1>2, <1>3, <1>4

LEMMA StepIds == TypeInv /\ ChainInv /\ IdsInv /\ [Next]_vars => IdsInv'
<1> SUFFICES ASSUME TypeInv, ChainInv, IdsInv, [Next]_vars PROVE IdsInv'
  OBVIOUS
<1>1. CASE UNCHANGED vars
  BY <1>1 DEF vars, IdsInv, file, writer, worker
<1> QED BY <1>1, CallerStepIds, CrashIds, WorkerFailsIds, WorkerReceiveIds, WorkerPayloadIds,
           WorkerIndexIds, WorkerTrailerIds, WorkerCommitIds DEF Next, Worker

-----------------------------------------------------------------------------
(***************************************************************************)
(* From one link to the whole chain.                                       *)
(***************************************************************************)
\* The walk from a trailer is that trailer and the walk from the one before.
LEMMA WalkFrom ==
  ASSUME NEW f \in Seq(Cell), NEW h \in Trailers(f, Len(f))
  PROVE  Walk(f, Len(f), h) \subseteq {h} \cup Walk(f, Len(f), Previous(f, h))
<1> DEFINE T == Trailers(f, Len(f))
           W == Walk(f, Len(f), Previous(f, h))
           S == {h} \cup W
<1>1. Len(f) \in Nat
  BY LenProperties
<1>2. \A o \in T : TrailerAt(f, Len(f), Previous(f, o)) => Previous(f, o) \in T
  <2>1. \A o \in T : Previous(f, o) \in Nat
    BY TrailerCells
  <2> QED BY <1>1, <2>1 DEF Trailers, TrailerAt
<1>3. S \subseteq T
  BY DEF Walk
<1>4. ASSUME NEW o \in S, TrailerAt(f, Len(f), Previous(f, o))
      PROVE  Previous(f, o) \in W
  <2>1. Previous(f, o) \in T
    BY <1>2, <1>3, <1>4
  <2>2. ASSUME NEW R \in SUBSET T, Closed(f, Len(f), Previous(f, h), R)
        PROVE  Previous(f, o) \in R
    <3>1. CASE o = h
      BY <1>4, <2>2, <3>1 DEF Closed
    <3>2. CASE o \in W
      <4>1. o \in R
        BY <2>2, <3>2 DEF Walk
      <4> QED BY <1>4, <2>2, <4>1 DEF Closed
    <3> QED BY <3>1, <3>2
  <2> QED BY <2>1, <2>2 DEF Walk
<1>5. Closed(f, Len(f), h, S)
  <2> HIDE DEF W
  <2> QED BY <1>4 DEF Closed
<1> HIDE DEF S
<1> QED BY <1>3, <1>5 DEF Walk, S

\* There is nothing to walk from the offset that stands for none.
LEMMA WalkNone ==
  ASSUME NEW f \in Seq(Cell)
  PROVE  Walk(f, Len(f), 0) = {}
BY DEF Walk, Closed, TrailerAt

\* All identifiers of one block are below all of another.
Less(f, p, o) == \A c, d \in Cols : f[p].entries[d].chunk_id < f[o].entries[c].chunk_id

InOrder(f, h) ==
  \A o, p \in Walk(f, Len(f), h) : o <= h /\ (p < o => Less(f, p, o))

\* No least trailer has a walk that is out of order.
LEMMA WalkInOrder ==
  ASSUME NEW f \in Seq(Cell), ChainedFile(f), RightFile(f)
  PROVE  \A h \in Trailers(f, Len(f)) : InOrder(f, h)
<1> DEFINE T == Trailers(f, Len(f))
           bad == {h \in T : ~InOrder(f, h)}
<1>1. \A o \in T : /\ o \in Nat /\ \A c \in Cols : f[o].entries[c].chunk_id \in Nat
                  /\ Previous(f, o) \in Nat /\ Previous(f, o) < o
                  /\ Linked(f, Previous(f, o)) /\ RightIds(f, Previous(f, o), f[o].entries)
  BY TrailerCells DEF Entry, ChainedFile, RightFile
<1> SUFFICES ASSUME bad # {} PROVE FALSE
  OBVIOUS
<1>2. PICK h \in bad : \A i \in bad : h <= i
  <2>1. bad \subseteq Nat
    BY <1>1
  <2> HIDE DEF bad
  <2> QED BY <2>1, LeastNat
<1> DEFINE prev == Previous(f, h)
           W == Walk(f, Len(f), prev)
<1>3. h \in T /\ h \in Nat /\ prev \in Nat /\ prev < h
  BY <1>1, <1>2
<1>4. Walk(f, Len(f), h) \subseteq {h} \cup W
  BY <1>3, WalkFrom
<1>5. CASE prev = 0
  <2>1. Walk(f, Len(f), h) \subseteq {h}
    BY <1>4, <1>5, WalkNone
  <2>2. InOrder(f, h)
    BY <1>3, <2>1 DEF InOrder
  <2> QED BY <1>2, <2>2
<1>6. CASE prev # 0
  <2>1. prev \in T /\ prev \notin bad
    BY <1>1, <1>2, <1>3, <1>6 DEF Linked
  <2>2. InOrder(f, prev) /\ W \subseteq T
    BY <2>1 DEF Walk
  <2>3. prev \in W
    BY <2>1 DEF Walk, Closed, Trailers
  <2>4. Less(f, prev, h)
    BY <1>1, <1>3, <1>6 DEF RightIds, Less
  <2>5. ASSUME NEW p \in W PROVE p \in Nat /\ p < h /\ Less(f, p, h)
    <3>1. p \in T /\ p \in Nat /\ p <= prev
      BY <1>1, <2>2, <2>3 DEF InOrder
    <3>2. p < h
      BY <1>3, <3>1
    <3>3. CASE p = prev
      BY <2>4, <3>1, <3>2, <3>3
    <3>4. CASE p < prev
      <4>1. Less(f, p, prev)
        BY <2>2, <2>3, <3>4 DEF InOrder
      <4>2. 0 \in Cols
        BY ColsNat
      <4>3. ASSUME NEW c \in Cols, NEW d \in Cols
            PROVE  f[p].entries[d].chunk_id < f[h].entries[c].chunk_id
        <5>1. /\ f[p].entries[d].chunk_id < f[prev].entries[0].chunk_id
              /\ f[prev].entries[0].chunk_id < f[h].entries[c].chunk_id
          BY <2>4, <4>1, <4>2 DEF Less
        <5>2. /\ f[p].entries[d].chunk_id \in Nat /\ f[prev].entries[0].chunk_id \in Nat
              /\ f[h].entries[c].chunk_id \in Nat
          BY <1>1, <1>3, <2>1, <3>1, <4>2
        <5> QED BY <5>1, <5>2
      <4> QED BY <3>1, <3>2, <4>3 DEF Less
    <3> QED BY <1>3, <3>1, <3>3, <3>4
  <2>6. ASSUME NEW o \in Walk(f, Len(f), h), NEW p \in Walk(f, Len(f), h)
        PROVE  o <= h /\ (p < o => Less(f, p, o))
    <3> HIDE DEF prev, W
    <3>1. o \in {h} \cup W /\ p \in {h} \cup W
      BY <1>4
    <3>2. CASE o = h
      BY <1>3, <2>5, <3>1, <3>2
    <3>3. CASE o \in W
      <4>1. o \in Nat /\ o < h
        BY <2>5, <3>3
      <4>2. CASE p = h
        BY <1>3, <4>1, <4>2
      <4>3. CASE p \in W
        BY <1>3, <2>2, <3>3, <4>1, <4>3 DEF InOrder, W
      <4> QED BY <3>1, <4>2, <4>3
    <3> QED BY <3>1, <3>2, <3>3
  <2>7. InOrder(f, h)
    BY <2>6 DEF InOrder
  <2> QED BY <1>2, <2>7
<1> QED BY <1>5, <1>6

LEMMA IdsFromInv == TypeInv /\ ChainInv /\ IdsInv => ChunkIdsIncrease
<1> SUFFICES ASSUME TypeInv, ChainInv, IdsInv,
                    NEW o \in Walk(disk, Len(disk), head), NEW p \in Walk(disk, Len(disk), head),
                    NEW c \in Cols, NEW d \in Cols, p < o \/ (p = o /\ d < c)
             PROVE  At(disk, p - 1).entries[d].chunk_id < At(disk, o - 1).entries[c].chunk_id
  BY DEF ChunkIdsIncrease
<1>1. disk \in Seq(Cell) /\ Linked(disk, head) /\ ChainedFile(disk) /\ RightFile(disk)
  BY DEF TypeInv, TypeOK, ChainInv, IdsInv
<1>2. o \in Trailers(disk, Len(disk)) /\ p \in Trailers(disk, Len(disk))
  BY DEF Walk
<1>3. At(disk, o - 1) = disk[o] /\ At(disk, p - 1) = disk[p]
  BY <1>1, <1>2, TrailerCells
<1>4. head \in Trailers(disk, Len(disk))
  BY <1>1, WalkNone DEF Linked
<1>5. InOrder(disk, head)
  BY <1>1, <1>4, WalkInOrder
<1>6. CASE p < o
  BY <1>3, <1>5, <1>6 DEF InOrder, Less
<1>7. CASE p = o /\ d < c
  BY <1>1, <1>2, <1>3, <1>7 DEF RightFile, RightIds
<1> QED BY <1>6, <1>7

\* Chunk identifiers are unique within the chain and increase along it, for any number
\* of stale batches, lost sends, failures, crashes and reopenings (index.rs:7).
THEOREM ChunkIdsAreUnique == Spec => []ChunkIdsIncrease
<1> QED BY InitIds, StepIds, TypeInvariant, ChainInvariant, IdsFromInv, PTL DEF Spec

-----------------------------------------------------------------------------
(***************************************************************************)
(* The token count of the caller.                                          *)
(*                                                                         *)
(* What a queue and the worker's hand hold and have still to be counted.   *)
(***************************************************************************)
Cost(m) == IF m.cmd = "Flush" THEN Pending(m.batch) ELSE 0

Costs(q) == [i \in 1 .. Len(q) |-> Cost(q[i])]

QueueCost(q) == Total(Costs(q), 1 .. Len(q))

InHand == {"payload", "index", "trailer", "check", "load", "store"}

HandCost(w, b) == IF w \in InHand THEN Pending(b) ELSE 0

LEMMA QueuedIs == queue \in Seq(FlushCommand) => Queued = QueueCost(queue)
<1> SUFFICES ASSUME queue \in Seq(FlushCommand) PROVE Queued = QueueCost(queue)
  OBVIOUS
<1> DEFINE f == [i \in DOMAIN queue |-> IF queue[i].cmd = "Flush" THEN Pending(queue[i].batch) ELSE 0]
           S == DOMAIN queue
           here(sum) == sum = [s \in SUBSET S |->
             IF s = {} THEN 0
             ELSE (IF queue[CHOOSE x \in s : TRUE].cmd = "Flush"
                     THEN Pending(queue[CHOOSE x \in s : TRUE].batch) ELSE 0)
                  + sum[s \ {CHOOSE x \in s : TRUE}]]
<1>1. DOMAIN queue = 1 .. Len(queue)
  BY LenProperties
<1>2. Queued = (CHOOSE sum : here(sum))[S]
  BY DEF Queued, MapThenSumSet, MapThenFoldSet
<1>3. ASSUME NEW sum PROVE here(sum) <=> Table(f, S, sum)
  <2>1. \A s \in SUBSET S : s # {} =>
          f[Some(s)] = IF queue[CHOOSE x \in s : TRUE].cmd = "Flush"
                         THEN Pending(queue[CHOOSE x \in s : TRUE].batch) ELSE 0
    BY DEF Some
  <2> HIDE DEF f
  <2>2. [s \in SUBSET S |->
             IF s = {} THEN 0
             ELSE (IF queue[CHOOSE x \in s : TRUE].cmd = "Flush"
                     THEN Pending(queue[CHOOSE x \in s : TRUE].batch) ELSE 0)
                  + sum[s \ {CHOOSE x \in s : TRUE}]]
         = [s \in SUBSET S |-> IF s = {} THEN 0 ELSE f[Some(s)] + sum[s \ {Some(s)}]]
    BY <2>1 DEF Some
  <2> QED BY <2>2 DEF Table
<1> HIDE DEF here
<1>4. (CHOOSE sum : here(sum)) = (CHOOSE sum : Table(f, S, sum))
  <2> HIDE DEF f
  <2> QED BY <1>3, Zenon
<1>5. Queued = Total(f, S)
  BY <1>2, <1>4, TotalTable
<1>6. f = Costs(queue)
  BY <1>1 DEF Costs, Cost
<1> QED BY <1>1, <1>5, <1>6 DEF QueueCost

LEMMA PendingNat ==
  ASSUME NEW b, b.token_count \in Nat, b.existing_tokens \in Nat
  PROVE  Pending(b) \in Nat
BY DEF Pending, SatSub

LEMMA CostNat == \A m \in FlushCommand : Cost(m) \in Nat
<1> SUFFICES ASSUME NEW m \in FlushCommand PROVE Cost(m) \in Nat
  OBVIOUS
<1>1. m.cmd = "Flush" => m.batch \in FlushBatch
  BY DEF FlushCommand
<1>2. m.cmd = "Flush" => Pending(m.batch) \in Nat
  BY <1>1, PendingNat DEF FlushBatch
<1> QED BY <1>2 DEF Cost

LEMMA QueueCostNat == \A q \in Seq(FlushCommand) : QueueCost(q) \in Nat
<1> SUFFICES ASSUME NEW q \in Seq(FlushCommand) PROVE QueueCost(q) \in Nat
  OBVIOUS
<1>1. Len(q) \in Nat /\ IsFiniteSet(1 .. Len(q))
  BY LenProperties, FS_Interval
<1>2. \A i \in 1 .. Len(q) : q[i] \in FlushCommand
  BY ElementOfSeq
<1>3. \A i \in 1 .. Len(q) : Costs(q)[i] \in Nat
  BY <1>2, CostNat DEF Costs
<1> QED BY <1>1, <1>3, TotalNat DEF QueueCost

LEMMA QueueCostEmpty == QueueCost(<<>>) = 0
<1>1. 1 .. Len(<<>>) = {}
  OBVIOUS
<1> QED BY <1>1, TotalEmpty DEF QueueCost

LEMMA QueueCostAppend ==
  ASSUME NEW q \in Seq(FlushCommand), NEW m \in FlushCommand
  PROVE  QueueCost(Append(q, m)) = QueueCost(q) + Cost(m)
<1> DEFINE n == Len(q)
           r == Append(q, m)
<1>1. n \in Nat
  BY LenProperties
<1>2. /\ r \in Seq(FlushCommand) /\ Len(r) = n + 1 /\ r[n + 1] = m
      /\ \A i \in 1 .. n : r[i] = q[i]
  BY AppendProperties
<1> HIDE DEF r, n
<1>3. \A i \in 1 .. n + 1 : r[i] \in FlushCommand
  BY <1>2, ElementOfSeq
<1>4. \A i \in 1 .. n + 1 : Costs(r)[i] \in Nat
  BY <1>2, <1>3, CostNat DEF Costs
<1>5. Total(Costs(r), 1 .. n + 1) = Total(Costs(r), 1 .. n) + Costs(r)[n + 1]
  BY <1>1, <1>4, TotalLast
<1>6. Costs(r)[n + 1] = Cost(m)
  BY <1>1, <1>2 DEF Costs
<1>7. Total(Costs(r), 1 .. n) = Total(Costs(q), 1 .. n)
  <2>1. \A i \in 1 .. n : Costs(r)[i] = Costs(q)[i]
    BY <1>1, <1>2 DEF Costs, n
  <2> QED BY <2>1, TotalSame
<1> QED BY <1>2, <1>5, <1>6, <1>7 DEF QueueCost, n, r

LEMMA QueueCostTail ==
  ASSUME NEW q \in Seq(FlushCommand), q # <<>>
  PROVE  QueueCost(q) = Cost(Head(q)) + QueueCost(Tail(q))
<1> DEFINE n == Len(q) - 1
           r == Tail(q)
<1>1. /\ n \in Nat /\ Len(q) = n + 1 /\ Head(q) = q[1] /\ Len(r) = n
      /\ \A i \in 1 .. n : r[i] = q[i + 1]
  <2>1. Len(q) \in Nat /\ Len(q) # 0
    BY LenProperties, EmptySeq
  <2>2. /\ Len(r) = Len(q) - 1 /\ \A i \in 1 .. Len(r) : r[i] = q[i + 1]
        /\ Head(q) = q[1]
    BY HeadTailProperties
  <2> QED BY <2>1, <2>2
<1> HIDE DEF n, r
<1>2. \A i \in 1 .. n + 1 : q[i] \in FlushCommand
  BY <1>1, ElementOfSeq
<1>3. \A i \in 1 .. n + 1 : Costs(q)[i] \in Nat
  BY <1>1, <1>2, CostNat DEF Costs
<1>4. \A i \in 1 .. n : Costs(r)[i] = Costs(q)[i + 1]
  <2>1. \A i \in 1 .. n : i + 1 \in 1 .. Len(q) /\ i \in 1 .. Len(r)
    BY <1>1
  <2> QED BY <1>1, <2>1 DEF Costs
<1>5. Total(Costs(q), 1 .. n + 1) = Costs(q)[1] + Total(Costs(r), 1 .. n)
  BY <1>1, <1>3, <1>4, TotalFirst
<1>6. Costs(q)[1] = Cost(Head(q))
  BY <1>1 DEF Costs
<1> QED BY <1>1, <1>5, <1>6 DEF QueueCost, r

-----------------------------------------------------------------------------
(***************************************************************************)
(* The caller's count agrees with what is visible and on its way when no   *)
(* batch can turn stale: nothing is truncated, or only what is buffered    *)
(* and by a caller who lets the worker go idle first.                      *)
(***************************************************************************)
NothingStale == Budget["truncate"] = 0 \/ (Paced /\ Truncates = "buffered")

\* A truncation finds the worker idle and lowers nothing that is visible; the error is
\* set when the worker dies; Stop is the last command.
OrderInv ==
  /\ pc # "store"
  /\ pc = "load" => Quiescent /\ targ > valid /\ targ <= current_token_count
  /\ wpc = "dead" <=> flush_error
  /\ wpc \in {"stopped", "dead"} => queue = <<>>
  /\ wpc = "stopped" => pc \in {"joining", "closed"}
  /\ pc = "closed" => wpc = "stopped"
  /\ \A i \in 1 .. Len(queue) : queue[i].cmd = "Stop" => pc = "joining" /\ i = Len(queue)

\* Every batch on its way will be counted.
EpochInv ==
  /\ \A i \in 1 .. Len(queue) : queue[i].cmd = "Flush" => queue[i].batch.batch_epoch = epoch
  /\ wpc \in {"payload", "index", "trailer", "check"} => wbatch.batch_epoch = epoch

\* Visible or on its way: what the worker has been handed.
Handed == valid + HandCost(wpc, wbatch) + QueueCost(queue)

\* Once the worker has failed, only what is visible counts.
TallyInv ==
  /\ wpc = "store" => wvalid = valid
  /\ Handed <= Len(log)
  /\ pc \in {"ready", "load"} /\ wpc # "dead" =>
       /\ current_token_count = Len(log)
       /\ buffers[0].existing_tokens <= buffers[0].token_count
       /\ Len(log) = Handed + Pending(buffers[0])
  /\ pc = "joining" /\ wpc # "dead" => Len(log) = Handed

CountInv == OrderInv /\ EpochInv /\ TallyInv

-----------------------------------------------------------------------------
LEMMA HandedNat ==
  ASSUME TypeInv
  PROVE  /\ HandCost(wpc, wbatch) \in Nat /\ QueueCost(queue) \in Nat /\ valid \in Nat
         /\ Handed \in Nat /\ Len(log) \in Nat /\ Pending(wbatch) \in Nat
<1>1. Pending(wbatch) \in Nat
  BY PendingNat DEF TypeInv, TypeOK, FlushBatch
<1>2. QueueCost(queue) \in Nat /\ valid \in Nat /\ Len(log) \in Nat
  BY QueueCostNat, LenProperties DEF TypeInv, TypeOK
<1>3. HandCost(wpc, wbatch) \in Nat
  BY <1>1 DEF HandCost
<1> QED BY <1>1, <1>2, <1>3 DEF Handed

LEMMA PendingBuffers ==
  ASSUME NEW bufs, SoundBuffers(bufs)
  PROVE  Pending(bufs[0]) \in Nat /\ bufs[0].token_count \in Nat /\ bufs[0].existing_tokens \in Nat
<1>1. bufs[0] \in ColumnBuffer
  BY ColsNat DEF SoundBuffers
<1> QED BY <1>1, PendingNat DEF ColumnBuffer

\* What flush_block does to the queue.
LEMMA FlushedQueue ==
  ASSUME TypeInv, NEW bufs, SoundBuffers(bufs), NEW tail \in {<<>>, <<Stop>>},
         FlushBlock(bufs, tail)
  PROVE  /\ \A i \in 1 .. Len(queue') :
              \/ i \in 1 .. Len(queue) /\ queue'[i] = queue[i]
              \/ tail = <<Stop>> /\ queue'[i] = Stop /\ i = Len(queue')
              \/ queue'[i].cmd = "Flush" /\ queue'[i].batch = BatchOf(bufs)
         /\ FlushSent(bufs, tail) => QueueCost(queue') = QueueCost(queue) + Pending(bufs[0])
         /\ ~FlushSent(bufs, tail) => QueueCost(queue') = QueueCost(queue)
<1> DEFINE m == [cmd |-> "Flush", batch |-> BatchOf(bufs)]
<1>1. queue \in Seq(FlushCommand) /\ Len(queue) \in Nat /\ Stop \in FlushCommand
  BY LenProperties DEF TypeInv, TypeOK, Stop, FlushCommand
<1>2. m \in FlushCommand /\ m.cmd = "Flush" /\ m.batch = BatchOf(bufs)
  BY BatchType DEF FreshCommand
<1>3. Cost(m) = Pending(bufs[0]) /\ Cost(Stop) = 0
  BY DEF Cost, Stop, Pending, BatchOf
<1>4. FlushSent(bufs, tail) => queue' = Append(queue, m) \o tail
  BY DEF FlushSent
<1>5. ~FlushSent(bufs, tail) => queue' = queue \o tail \/ queue' = queue
  BY DEF FlushBlock, FlushNothing, FlushLost
<1> HIDE DEF m
<1>6. ASSUME NEW q \in Seq(FlushCommand)
      PROVE  /\ q \o tail = q \/ (tail = <<Stop>> /\ q \o tail = Append(q, Stop))
             /\ QueueCost(q \o tail) = QueueCost(q)
             /\ \A i \in 1 .. Len(q \o tail) :
                  \/ i \in 1 .. Len(q) /\ (q \o tail)[i] = q[i]
                  \/ tail = <<Stop>> /\ (q \o tail)[i] = Stop /\ i = Len(q \o tail)
  <2>1. q \o tail = q \/ (tail = <<Stop>> /\ q \o tail = Append(q, Stop))
    <3>1. CASE tail = <<>>
      BY <3>1, ConcatEmptySeq
    <3>2. CASE tail = <<Stop>>
      BY <1>1, <3>2, AppendIsConcat
    <3> QED BY <3>1, <3>2
  <2>2. CASE q \o tail = q
    BY <2>2
  <2>3. CASE tail = <<Stop>> /\ q \o tail = Append(q, Stop)
    <3>1. /\ Len(Append(q, Stop)) = Len(q) + 1 /\ Append(q, Stop)[Len(q) + 1] = Stop
          /\ \A i \in 1 .. Len(q) : Append(q, Stop)[i] = q[i]
      BY <1>1, AppendProperties
    <3>2. Len(q) \in Nat
      BY LenProperties
    <3>3. QueueCost(Append(q, Stop)) = QueueCost(q) + 0 /\ QueueCost(q) \in Nat
      BY <1>1, <1>3, QueueCostAppend, QueueCostNat
    <3>4. QueueCost(Append(q, Stop)) = QueueCost(q)
      BY <3>3
    <3>5. \A i \in 1 .. Len(Append(q, Stop)) :
            \/ i \in 1 .. Len(q) /\ Append(q, Stop)[i] = q[i]
            \/ Append(q, Stop)[i] = Stop /\ i = Len(Append(q, Stop))
      BY <3>1, <3>2
    <3> QED BY <2>3, <3>4, <3>5
  <2> QED BY <2>1, <2>2, <2>3
<1>7. CASE FlushSent(bufs, tail)
  <2> DEFINE q == Append(queue, m)
  <2>1. /\ q \in Seq(FlushCommand) /\ Len(q) = Len(queue) + 1 /\ q[Len(queue) + 1] = m
        /\ \A i \in 1 .. Len(queue) : q[i] = queue[i]
    BY <1>1, <1>2, AppendProperties
  <2>2. QueueCost(q) = QueueCost(queue) + Pending(bufs[0])
    BY <1>1, <1>2, <1>3, QueueCostAppend
  <2>3. queue' = q \o tail
    BY <1>4, <1>7
  <2> HIDE DEF q
  <2>4. \A i \in 1 .. Len(q) : i \in 1 .. Len(queue) \/ i = Len(queue) + 1
    BY <1>1, <2>1
  <2>5. \A i \in 1 .. Len(queue') :
          \/ i \in 1 .. Len(q) /\ queue'[i] = q[i]
          \/ tail = <<Stop>> /\ queue'[i] = Stop /\ i = Len(queue')
    BY <1>6, <2>1, <2>3
  <2>6. QueueCost(queue') = QueueCost(q)
    BY <1>6, <2>1, <2>3
  <2> QED BY <1>2, <1>7, <2>1, <2>2, <2>4, <2>5, <2>6
<1>8. CASE ~FlushSent(bufs, tail)
  <2>1. CASE queue' = queue \o tail
    BY <1>1, <1>6, <1>8, <2>1
  <2>2. CASE queue' = queue
    BY <1>8, <2>2
  <2> QED BY <1>5, <1>8, <2>1, <2>2
<1> QED BY <1>7, <1>8

LEMMA InitCount == Init => CountInv
<1> SUFFICES ASSUME Init PROVE CountInv
  OBVIOUS
<1>1. /\ queue = <<>> /\ Len(queue) = 0 /\ log = <<>> /\ Len(log) = 0 /\ valid = 0
      /\ wpc = "start" /\ pc = "ready" /\ ~flush_error /\ current_token_count = 0
  BY DEF Init
<1>2. buffers[0] = EmptyBuffer(0) /\ Pending(buffers[0]) = 0
  BY ColsNat DEF Init, NewBuffers, EmptyBuffer, Pending, SatSub
<1>3. Handed = 0
  BY <1>1, QueueCostEmpty DEF Handed, HandCost, InHand
<1>4. OrderInv /\ EpochInv
  BY <1>1 DEF OrderInv, EpochInv
<1>5. TallyInv
  BY <1>1, <1>2, <1>3 DEF TallyInv, EmptyBuffer
<1> QED BY <1>4, <1>5 DEF CountInv

\* Only a caller whom NothingStale binds truncates.
LEMMA OnlyPacedTruncates ==
  ASSUME NothingStale, TypeOK, Spend("truncate")
  PROVE  Paced /\ Truncates = "buffered"
<1>1. budget["truncate"] \in Nat /\ budget["truncate"] <= Budget["truncate"]
  BY DEF TypeOK, BudgetKinds
<1>2. budget["truncate"] > 0
  BY DEF Spend
<1> QED BY <1>1, <1>2 DEF NothingStale

-----------------------------------------------------------------------------
(***************************************************************************)
(* The order of the commands.                                              *)
(***************************************************************************)
LEMMA FlushOrder ==
  ASSUME TypeInv, OrderInv, NEW bufs, SoundBuffers(bufs), NEW tail \in {<<>>, <<Stop>>},
         FlushBlock(bufs, tail), pc = "ready", wpc' = wpc, flush_error' = flush_error,
         wpc = "dead" => tail = <<>>,
         \/ pc' = "ready" /\ tail = <<>>
         \/ pc' = "joining"
  PROVE  OrderInv'
<1>1. ASSUME NEW i \in 1 .. Len(queue'), queue'[i].cmd = "Stop"
      PROVE  pc' = "joining" /\ i = Len(queue')
  <2>1. CASE i \in 1 .. Len(queue) /\ queue'[i] = queue[i]
    BY <1>1, <2>1 DEF OrderInv
  <2>2. CASE tail = <<Stop>> /\ queue'[i] = Stop /\ i = Len(queue')
    <3>1. tail # <<>>
      BY <2>2
    <3> QED BY <2>2, <3>1
  <2>3. CASE queue'[i].cmd = "Flush"
    BY <1>1, <2>3
  <2> QED BY <2>1, <2>2, <2>3, FlushedQueue
<1>2. wpc # "stopped"
  BY DEF OrderInv
<1>3. ASSUME wpc = "dead" PROVE queue' = <<>>
  <2>1. ~FlushSent(bufs, tail) /\ queue = <<>> /\ tail = <<>>
    BY <1>3 DEF FlushSent, ReceiverAlive, OrderInv
  <2>2. queue' = queue \/ queue' = queue \o tail
    BY <2>1 DEF FlushBlock, FlushNothing, FlushLost
  <2> QED BY <2>1, <2>2
<1>4. wpc = "dead" <=> flush_error
  BY DEF OrderInv
<1> QED BY <1>1, <1>2, <1>3, <1>4 DEF OrderInv

LEMMA CallerOrder == NothingStale /\ TypeInv /\ OrderInv /\ Caller => OrderInv'
<1> SUFFICES ASSUME NothingStale, TypeInv, OrderInv, Caller PROVE OrderInv'
  OBVIOUS
<1>1. CASE Append_frame
  <2> DEFINE bufs == [c \in Cols |-> [buffers[c] EXCEPT !.data = Append(@, Token(c, NextFrame)),
                                                       !.token_count = @ + 1]]
  <2>1. /\ pc = "ready" /\ pc' = "ready" /\ wpc' = wpc /\ flush_error' = flush_error
        /\ UNCHANGED queue \/ FlushBlock(bufs, <<>>)
    BY <1>1 DEF Append_frame, FlushBlock, worker
  <2>2. SoundBuffers(bufs)
    BY <1>1, AppendedBuffers
  <2> HIDE DEF bufs
  <2>3. CASE UNCHANGED queue
    BY <2>1, <2>3 DEF OrderInv
  <2> QED BY <2>1, <2>2, <2>3, FlushOrder
<1>2. CASE Flush_pending
  <2>1. /\ pc = "ready" /\ pc' = "ready" /\ wpc' = wpc /\ flush_error' = flush_error
        /\ FlushBlock(buffers, <<>>)
    BY <1>2 DEF Flush_pending, FlushBlock, worker
  <2> QED BY <2>1, FlushOrder, TypeInvBuffers
<1>3. ASSUME NEW count \in 0 .. current_token_count, Truncate_epoch(count)
      PROVE  OrderInv'
  <2>1. Truncates = "buffered" /\ Paced
    BY <1>3, OnlyPacedTruncates DEF Truncate_epoch, TypeInv
  <2>2. /\ pc' = "load" /\ targ' = count /\ count > valid /\ Quiescent /\ pc = "ready"
        /\ count <= current_token_count
        /\ UNCHANGED <<valid, queue, flush_error, wpc, current_token_count>>
    BY <1>3, <2>1 DEF Truncate_epoch, worker, writer
  <2> QED BY <2>2 DEF OrderInv, Quiescent
<1>4. CASE Truncate_committed
  <2>1. pc = "load" /\ targ <= valid /\ targ > valid
    BY <1>4 DEF Truncate_committed, IsCommitted, OrderInv
  <2>2. targ \in Nat /\ valid \in Nat
    BY DEF TypeInv, TypeOK
  <2> QED BY <2>1, <2>2
<1>5. CASE Truncate_store
  BY <1>5 DEF Truncate_store, OrderInv
<1>6. CASE Truncate_pending
  <2>1. pc' = "ready" /\ pc = "load" /\ UNCHANGED <<queue, wpc, flush_error>>
    BY <1>6 DEF Truncate_pending, worker
  <2> QED BY <2>1 DEF OrderInv
<1>7. CASE Drop
  <2>1. /\ pc = "ready" /\ pc' = "joining" /\ UNCHANGED <<wpc, flush_error>>
        /\ FlushBlock(buffers, StopCommand)
    BY <1>7 DEF Drop, worker
  <2>2. StopCommand \in {<<>>, <<Stop>>} /\ (wpc = "dead" => StopCommand = <<>>)
    BY DEF StopCommand, ReceiverAlive
  <2> HIDE DEF StopCommand
  <2> QED BY <2>1, <2>2, FlushOrder, TypeInvBuffers
<1>8. CASE Join
  <2>1. pc' = "closed" /\ queue' = <<>> /\ wpc' = "stopped" /\ ~flush_error'
    BY <1>8 DEF Join, Gone
  <2> QED BY <2>1 DEF OrderInv
<1>9. CASE Open
  <2>1. /\ pc' = "ready" /\ wpc' = "start" /\ UNCHANGED <<queue, flush_error>> /\ pc = "closed"
        /\ queue = <<>> /\ ~flush_error
    BY <1>9 DEF Open, OrderInv
  <2> QED BY <2>1 DEF OrderInv
<1> QED BY <1>1, <1>2, <1>3, <1>4, <1>5, <1>6, <1>7, <1>8, <1>9 DEF Caller

LEMMA WorkerOrder == TypeInv /\ OrderInv /\ (Worker \/ Worker_fails) => OrderInv'
<1> SUFFICES ASSUME TypeInv, OrderInv, Worker \/ Worker_fails PROVE OrderInv'
  OBVIOUS
<1>1. queue \in Seq(FlushCommand) /\ Len(queue) \in Nat
  BY LenProperties DEF TypeInv, TypeOK
<1>2. CASE WorkerDies /\ UNCHANGED <<pc, targ, valid, current_token_count>>
           /\ wpc # "stopped"
  <2>1. queue' = <<>> /\ wpc' = "dead" /\ flush_error'
    BY <1>2 DEF WorkerDies
  <2>2. pc' = "load" => targ' > valid' /\ targ' <= current_token_count'
    BY <1>2 DEF OrderInv
  <2>3. pc' # "store" /\ pc' # "closed"
    BY <1>2 DEF OrderInv
  <2>4. Quiescent'
    BY <2>1 DEF Quiescent
  <2> QED BY <2>1, <2>2, <2>3, <2>4 DEF OrderInv
<1>3. CASE Worker_receive
  <2>1. /\ wpc = "idle" /\ queue # <<>> /\ queue' = Tail(queue)
        /\ UNCHANGED <<pc, targ, flush_error>>
        /\ wpc' = "payload" \/ (wpc' = "stopped" /\ Head(queue).cmd = "Stop")
    BY <1>3 DEF Worker_receive
  <2>2. pc # "load" /\ pc # "closed"
    BY <2>1 DEF OrderInv, Quiescent
  <2>3. /\ Len(queue') = Len(queue) - 1 /\ \A i \in 1 .. Len(queue') : queue'[i] = queue[i + 1]
        /\ Len(queue) > 0 /\ Head(queue) = queue[1] /\ queue' \in Seq(FlushCommand)
    BY <1>1, <2>1, HeadTailProperties, EmptySeq
  <2>4. \A i \in 1 .. Len(queue') : i + 1 \in 1 .. Len(queue)
    BY <1>1, <2>3
  <2>5. 1 \in 1 .. Len(queue)
    BY <1>1, <2>3
  <2>5a. \A i \in 1 .. Len(queue) : queue[i].cmd = "Stop" => pc = "joining" /\ i = Len(queue)
    BY DEF OrderInv
  <2>6. wpc' = "stopped" => pc' = "joining" /\ Len(queue') = 0
    <3> SUFFICES ASSUME wpc' = "stopped" PROVE pc = "joining" /\ Len(queue') = 0
      BY <2>1
    <3>1. queue[1].cmd = "Stop"
      BY <2>1, <2>3
    <3>2. pc = "joining" /\ 1 = Len(queue)
      BY <2>5, <2>5a, <3>1
    <3>3. Len(queue') = Len(queue) - 1
      BY <2>3
    <3>4. Len(queue') = 0
      BY <3>2, <3>3
    <3> QED BY <3>2, <3>4
  <2>7. wpc' = "stopped" => pc' = "joining" /\ queue' = <<>>
    BY <2>3, <2>6, EmptySeq
  <2>8. \A i \in 1 .. Len(queue') : queue'[i].cmd = "Stop" => pc' = "joining" /\ i = Len(queue')
    <3> SUFFICES ASSUME NEW i \in 1 .. Len(queue'), queue'[i].cmd = "Stop"
                 PROVE  pc = "joining" /\ i = Len(queue')
      BY <2>1
    <3>1. queue[i + 1].cmd = "Stop" /\ i + 1 \in 1 .. Len(queue)
      BY <2>3, <2>4
    <3>2. pc = "joining" /\ i + 1 = Len(queue)
      BY <2>5a, <3>1
    <3>3. i \in Nat
      BY <1>1, <2>3
    <3> QED BY <1>1, <2>3, <3>2, <3>3
  <2> QED BY <2>1, <2>2, <2>7, <2>8 DEF OrderInv
<1>4. CASE /\ UNCHANGED <<pc, targ, queue, flush_error, current_token_count>>
           /\ wpc' \notin {"stopped", "dead"}
           /\ wpc = "start" \/ wpc \in InHand \cup {"head"}
           /\ wpc = "start" => wpc' = "idle" /\ UNCHANGED valid
  <2>1. pc' = "load" => wpc = "start"
    BY <1>4 DEF OrderInv, Quiescent, InHand
  <2>2. ~flush_error /\ pc # "closed"
    BY <1>4 DEF OrderInv, InHand
  <2> QED BY <1>4, <2>1, <2>2 DEF OrderInv, Quiescent
<1>5. CASE Worker_head
  BY <1>2, <1>4, <1>5 DEF Worker_head, BackToIdle, writer
<1>6. CASE Worker_fails
  BY <1>2, <1>6 DEF Worker_fails, writer
<1>7. CASE \/ Worker_start \/ Worker_payload \/ Worker_index \/ Worker_trailer \/ Worker_check
           \/ Worker_load \/ Worker_store
  BY <1>4, <1>7 DEF Worker_start, Worker_payload, Worker_index, Worker_trailer, Worker_check,
     Worker_load, Worker_store, BackToIdle, InHand, file, writer
<1> QED BY <1>3, <1>5, <1>6, <1>7 DEF Worker

LEMMA StepOrder == NothingStale /\ TypeInv /\ OrderInv /\ [Next]_vars => OrderInv'
<1> SUFFICES ASSUME NothingStale, TypeInv, OrderInv, [Next]_vars PROVE OrderInv'
  OBVIOUS
<1>1. CASE Crash
  <2>1. pc' = "closed" /\ queue' = <<>> /\ wpc' = "stopped" /\ ~flush_error'
    BY <1>1 DEF Crash, Gone
  <2> QED BY <2>1 DEF OrderInv
<1>2. CASE UNCHANGED vars
  BY <1>2 DEF vars, file, worker, writer, OrderInv, Quiescent
<1> QED BY <1>1, <1>2, CallerOrder, WorkerOrder DEF Next

-----------------------------------------------------------------------------
(***************************************************************************)
(* The epochs.                                                             *)
(***************************************************************************)
LEMMA FlushEpoch ==
  ASSUME TypeInv, EpochInv, NEW bufs, SoundBuffers(bufs), NEW tail \in {<<>>, <<Stop>>},
         FlushBlock(bufs, tail), UNCHANGED <<epoch, worker>>
  PROVE  EpochInv'
<1>1. ASSUME NEW i \in 1 .. Len(queue'), queue'[i].cmd = "Flush"
      PROVE  queue'[i].batch.batch_epoch = epoch
  <2>1. CASE i \in 1 .. Len(queue) /\ queue'[i] = queue[i]
    BY <1>1, <2>1 DEF EpochInv
  <2>2. CASE queue'[i].batch = BatchOf(bufs)
    BY <2>2 DEF BatchOf
  <2>3. ~(queue'[i] = Stop)
    BY <1>1 DEF Stop
  <2> QED BY <2>1, <2>2, <2>3, FlushedQueue
<1> QED BY <1>1 DEF EpochInv, worker

LEMMA IdleEpoch ==
  ASSUME queue' = <<>>, wpc' \notin {"payload", "index", "trailer", "check"}
  PROVE  EpochInv'
<1>1. Len(queue') = 0
  OBVIOUS
<1> QED BY <1>1 DEF EpochInv

LEMMA StepEpoch == NothingStale /\ TypeInv /\ OrderInv /\ EpochInv /\ [Next]_vars => EpochInv'
<1> SUFFICES ASSUME NothingStale, TypeInv, OrderInv, EpochInv, [Next]_vars PROVE EpochInv'
  OBVIOUS
<1>1. CASE Append_frame
  <2> DEFINE bufs == [c \in Cols |-> [buffers[c] EXCEPT !.data = Append(@, Token(c, NextFrame)),
                                                       !.token_count = @ + 1]]
  <2>1. /\ UNCHANGED queue \/ FlushBlock(bufs, <<>>)
        /\ UNCHANGED <<epoch, worker>>
    BY <1>1 DEF Append_frame, FlushBlock, file
  <2>2. SoundBuffers(bufs)
    BY <1>1, AppendedBuffers
  <2> HIDE DEF bufs
  <2>3. CASE UNCHANGED queue
    BY <2>1, <2>3 DEF EpochInv, worker
  <2> QED BY <2>1, <2>2, <2>3, FlushEpoch
<1>2. CASE Flush_pending
  <2>1. FlushBlock(buffers, <<>>) /\ UNCHANGED <<epoch, worker>>
    BY <1>2 DEF Flush_pending, FlushBlock, file
  <2> QED BY <2>1, FlushEpoch, TypeInvBuffers
<1>3. ASSUME NEW count \in 0 .. current_token_count, Truncate_epoch(count)
      PROVE  EpochInv'
  <2>1. Quiescent /\ UNCHANGED <<queue, wpc>>
    BY <1>3, OnlyPacedTruncates DEF Truncate_epoch, TypeInv, worker
  <2> QED BY <2>1, IdleEpoch DEF Quiescent
<1>4. CASE Drop
  <2>1. FlushBlock(buffers, StopCommand) /\ UNCHANGED <<epoch, worker>>
    BY <1>4 DEF Drop, file
  <2>2. StopCommand \in {<<>>, <<Stop>>}
    BY DEF StopCommand
  <2> HIDE DEF StopCommand
  <2> QED BY <2>1, <2>2, FlushEpoch, TypeInvBuffers
<1>5. CASE Join \/ Crash
  BY <1>5, IdleEpoch DEF Join, Crash, Gone
<1>6. CASE Open
  <2>1. wpc = "stopped" /\ queue = <<>> /\ queue' = queue /\ wpc' = "start"
    BY <1>6 DEF Open, OrderInv
  <2> QED BY <2>1, IdleEpoch
<1>7. CASE Worker_receive
  <2>0. queue \in Seq(FlushCommand) /\ Len(queue) \in Nat
    BY LenProperties DEF TypeInv, TypeOK
  <2>1. /\ queue # <<>> /\ queue' = Tail(queue) /\ epoch' = epoch
        /\ \/ Head(queue).cmd = "Flush" /\ wbatch' = Head(queue).batch
           \/ wpc' = "stopped"
    BY <1>7 DEF Worker_receive, file
  <2>2. /\ Len(queue') = Len(queue) - 1 /\ \A i \in 1 .. Len(queue') : queue'[i] = queue[i + 1]
        /\ Len(queue) > 0 /\ Head(queue) = queue[1]
    BY <2>0, <2>1, HeadTailProperties, EmptySeq
  <2>3. 1 \in 1 .. Len(queue) /\ \A i \in 1 .. Len(queue') : i + 1 \in 1 .. Len(queue)
    BY <2>0, <2>2
  <2>4. \A i \in 1 .. Len(queue) : queue[i].cmd = "Flush" => queue[i].batch.batch_epoch = epoch
    BY DEF EpochInv
  <2>5. wpc' # "stopped" => wbatch'.batch_epoch = epoch
    BY <2>1, <2>2, <2>3, <2>4
  <2>6. \A i \in 1 .. Len(queue') : queue'[i].cmd = "Flush" => queue'[i].batch.batch_epoch = epoch
    BY <2>2, <2>3, <2>4
  <2> QED BY <2>1, <2>5, <2>6 DEF EpochInv
<1>8. CASE Worker_payload
  <2>1. wpc = "payload" /\ wbatch'.batch_epoch = wbatch.batch_epoch /\ UNCHANGED <<queue, epoch>>
    BY <1>8 DEF Worker_payload, TypeInv, TypeOK, FlushBatch
  <2> QED BY <2>1 DEF EpochInv
<1>9. CASE Worker_start \/ Worker_index \/ Worker_trailer \/ Worker_check \/ Worker_load \/ Worker_store
  BY <1>9 DEF Worker_start, Worker_index, Worker_trailer, Worker_check, Worker_load, Worker_store,
     BackToIdle, EpochInv, file
<1>10. CASE Worker_head
  <2>1. CASE WorkerDies
    BY <2>1, IdleEpoch DEF WorkerDies
  <2>2. CASE BackToIdle /\ UNCHANGED queue
    BY <1>10, <2>2 DEF Worker_head, BackToIdle, EpochInv
  <2> QED BY <1>10, <2>1, <2>2 DEF Worker_head
<1>11. CASE Worker_fails
  BY <1>11, IdleEpoch DEF Worker_fails, WorkerDies
<1>12. CASE Truncate_committed \/ Truncate_store \/ Truncate_pending
  BY <1>12 DEF Truncate_committed, Truncate_store, Truncate_pending, EpochInv, file, worker
<1>13. CASE UNCHANGED vars
  BY <1>13 DEF vars, file, worker, EpochInv
<1> QED BY <1>1, <1>2, <1>3, <1>4, <1>5, <1>6, <1>7, <1>8, <1>9, <1>10, <1>11, <1>12, <1>13
        DEF Next, Caller, Worker

-----------------------------------------------------------------------------
(***************************************************************************)
(* The tally.                                                              *)
(***************************************************************************)
LEMMA ForgetLen ==
  ASSUME TypeInv, NEW n \in Nat, Forget(n)
  PROVE  Len(log') = IF n <= Len(log) THEN n ELSE Len(log)
<1> DEFINE m == Min({n, Len(log)})
<1>1. log \in Seq(Frames) /\ Len(log) \in Nat
  BY LenProperties DEF TypeInv, TypeOK
<1>2. m = (IF n <= Len(log) THEN n ELSE Len(log)) /\ m \in Nat /\ m <= Len(log)
  BY <1>1, MinPair
<1>3. log' = SubSeq(log, 1, m)
  BY DEF Forget
<1> HIDE DEF m
<1>4. \A i \in 1 .. m : log[i] \in Frames
  BY <1>1, <1>2, ElementOfSeq
<1>5. Len(log') = m
  BY <1>2, <1>3, <1>4, SubSeqProperties
<1> QED BY <1>2, <1>5

\* A worker that holds no batch and finds no command.
LEMMA IdleHanded ==
  ASSUME TypeInv, OrderInv, Quiescent
  PROVE  Handed = valid
<1>1. QueueCost(queue) = 0
  BY QueueCostEmpty DEF Quiescent
<1>2. HandCost(wpc, wbatch) = 0
  BY DEF Quiescent, HandCost, InHand
<1> QED BY <1>1, <1>2, HandedNat DEF Handed

LEMMA DroppedHanded ==
  ASSUME TypeInv, TallyInv, queue' = <<>>, wpc' \in {"stopped", "dead"}, valid' = valid
  PROVE  Handed' = valid /\ Handed' <= Handed
<1>1. QueueCost(queue') = 0
  BY QueueCostEmpty
<1>2. HandCost(wpc', wbatch') = 0
  BY DEF HandCost, InHand
<1>3. Handed' = valid
  BY <1>1, <1>2, HandedNat DEF Handed
<1> QED BY <1>3, HandedNat DEF Handed

\* flush_block of buffers that hold all that has not been handed over.
LEMMA FlushTally ==
  ASSUME TypeInv, OrderInv, pc = "ready", NEW bufs, SoundBuffers(bufs),
         NEW tail \in {<<>>, <<Stop>>}, FlushBlock(bufs, tail), UNCHANGED <<valid, worker>>,
         bufs[0].existing_tokens <= bufs[0].token_count \/ wpc = "dead"
  PROVE  IF wpc = "dead"
           THEN Handed' = Handed
           ELSE /\ Handed' = Handed + Pending(bufs[0])
                /\ buffers'[0].existing_tokens <= buffers'[0].token_count
                /\ Pending(buffers'[0]) = 0
<1>1. /\ Pending(bufs[0]) \in Nat /\ bufs[0].token_count \in Nat
      /\ bufs[0].existing_tokens \in Nat /\ QueueCost(queue) \in Nat /\ valid \in Nat
      /\ HandCost(wpc, wbatch) \in Nat
  BY PendingBuffers, HandedNat
<1>2. valid' = valid /\ HandCost(wpc', wbatch') = HandCost(wpc, wbatch)
  BY DEF worker
<1>3. /\ FlushSent(bufs, tail) => QueueCost(queue') = QueueCost(queue) + Pending(bufs[0])
      /\ ~FlushSent(bufs, tail) => QueueCost(queue') = QueueCost(queue)
  BY FlushedQueue
<1>4. wpc # "stopped"
  BY DEF OrderInv
<1>5. CASE FlushSent(bufs, tail)
  <2>1. wpc # "dead" /\ buffers'[0] = Reset(bufs[0])
    BY <1>5, ColsNat DEF FlushSent, ReceiverAlive
  <2>2. buffers'[0].token_count = 0 /\ buffers'[0].existing_tokens = 0
    BY <2>1 DEF Reset, EmptyBuffer
  <2>3. Pending(buffers'[0]) = 0
    BY <2>2 DEF Pending, SatSub
  <2> QED BY <1>1, <1>2, <1>3, <1>5, <2>1, <2>2, <2>3 DEF Handed
<1>6. CASE FlushNothing(bufs, tail)
  <2>1. buffers' = bufs /\ bufs[0].token_count = 0 /\ ~FlushSent(bufs, tail)
    BY <1>1, <1>6 DEF FlushNothing, FlushSent
  <2>2. Handed' = Handed
    BY <1>2, <1>3, <2>1 DEF Handed
  <2>3. Pending(bufs[0]) = 0
    BY <1>1, <2>1 DEF Pending, SatSub
  <2>4. Handed \in Nat
    BY HandedNat
  <2> QED BY <2>1, <2>2, <2>3, <2>4
<1>7. CASE FlushLost(bufs)
  <2>1. wpc = "dead" /\ ~FlushSent(bufs, tail)
    BY <1>4, <1>7 DEF FlushLost, FlushSent, ReceiverAlive
  <2> QED BY <1>2, <1>3, <2>1 DEF Handed
<1> QED BY <1>5, <1>6, <1>7 DEF FlushBlock

LEMMA AppendTally ==
  ASSUME TypeInv, OrderInv, TallyInv, Append_frame
  PROVE  TallyInv'
<1> DEFINE bufs == [c \in Cols |-> [buffers[c] EXCEPT !.data = Append(@, Token(c, NextFrame)),
                                                      !.token_count = @ + 1]]
<1>1. /\ pc = "ready" /\ pc' = "ready" /\ current_token_count' = current_token_count + 1
      /\ UNCHANGED <<valid, worker>>
      /\ \/ buffers' = bufs /\ log' = Append(log, NextFrame) /\ UNCHANGED queue
         \/ FlushSent(bufs, <<>>) /\ log' = Append(log, NextFrame)
         \/ FlushLost(bufs) /\ UNCHANGED log
  BY DEF Append_frame, file
<1>2. SoundBuffers(bufs) /\ NextFrame \in Frames
  BY AppendedBuffers
<1>3. /\ bufs[0].token_count = buffers[0].token_count + 1
      /\ bufs[0].existing_tokens = buffers[0].existing_tokens
  BY ColsNat, TypeInvBuffers DEF SoundBuffers, ColumnBuffer
<1> HIDE DEF bufs
<1>4. /\ buffers[0].token_count \in Nat /\ buffers[0].existing_tokens \in Nat
      /\ Pending(buffers[0]) \in Nat /\ Handed \in Nat /\ Len(log) \in Nat /\ log \in Seq(Frames)
      /\ current_token_count \in Nat
  BY PendingBuffers, TypeInvBuffers, HandedNat DEF TypeInv, TypeOK
<1>5. wpc # "dead" =>
        /\ Pending(bufs[0]) = Pending(buffers[0]) + 1 /\ bufs[0].existing_tokens <= bufs[0].token_count
        /\ current_token_count = Len(log) /\ Len(log) = Handed + Pending(buffers[0])
  BY <1>1, <1>3, <1>4 DEF TallyInv, Pending, SatSub
<1>6. log' = Append(log, NextFrame) => Len(log') = Len(log) + 1
  BY <1>2, <1>4, AppendProperties
<1>7. Handed <= Len(log) /\ (wpc = "store" => wvalid = valid)
  BY DEF TallyInv
<1>8. CASE buffers' = bufs /\ log' = Append(log, NextFrame) /\ UNCHANGED queue
  <2>1. Handed' = Handed
    BY <1>1, <1>8 DEF Handed, worker
  <2>2. Handed' <= Len(log')
    BY <1>4, <1>6, <1>7, <1>8, <2>1
  <2>3. wpc # "dead" => Len(log') = Handed' + Pending(buffers'[0]) /\ current_token_count' = Len(log')
    BY <1>1, <1>4, <1>5, <1>6, <1>8, <2>1
  <2> QED BY <1>1, <1>5, <1>7, <1>8, <2>2, <2>3 DEF TallyInv, worker
<1>9. CASE FlushSent(bufs, <<>>) /\ log' = Append(log, NextFrame)
  <2>1. wpc # "dead"
    BY <1>9 DEF FlushSent, ReceiverAlive
  <2>2. /\ Handed' = Handed + Pending(bufs[0]) /\ Pending(buffers'[0]) = 0
        /\ buffers'[0].existing_tokens <= buffers'[0].token_count
    BY <1>1, <1>2, <1>5, <1>9, <2>1, FlushTally DEF FlushBlock
  <2>3. Handed' = Len(log') /\ current_token_count' = Len(log')
    BY <1>1, <1>4, <1>5, <1>6, <1>9, <2>1, <2>2
  <2>4. Len(log') \in Nat
    BY <1>4, <1>6, <1>9
  <2>5. Handed' <= Len(log') /\ Len(log') = Handed' + Pending(buffers'[0])
    BY <2>2, <2>3, <2>4
  <2> QED BY <1>1, <1>7, <2>2, <2>3, <2>5 DEF TallyInv, worker
<1>10. CASE FlushLost(bufs) /\ UNCHANGED log
  <2>1. wpc = "dead"
    BY <1>1, <1>10 DEF FlushLost, ReceiverAlive, OrderInv
  <2>2. Handed' = Handed
    BY <1>1, <1>10 DEF FlushLost, Handed, worker
  <2> QED BY <1>1, <1>7, <1>10, <2>1, <2>2 DEF TallyInv, worker
<1> QED BY <1>1, <1>8, <1>9, <1>10

LEMMA FlushPendingTally ==
  ASSUME TypeInv, OrderInv, TallyInv, Flush_pending
  PROVE  TallyInv'
<1>1. /\ pc = "ready" /\ pc' = "ready" /\ FlushBlock(buffers, <<>>)
      /\ UNCHANGED <<valid, worker, log, current_token_count>>
  BY DEF Flush_pending, FlushBlock, file
<1>2. /\ Pending(buffers[0]) \in Nat /\ Handed \in Nat /\ Len(log) \in Nat
  BY PendingBuffers, TypeInvBuffers, HandedNat
<1>3. /\ wpc # "dead" => /\ buffers[0].existing_tokens <= buffers[0].token_count
                         /\ current_token_count = Len(log) /\ Len(log) = Handed + Pending(buffers[0])
      /\ Handed <= Len(log) /\ (wpc = "store" => wvalid = valid)
  BY <1>1 DEF TallyInv
<1>4. IF wpc = "dead"
        THEN Handed' = Handed
        ELSE /\ Handed' = Handed + Pending(buffers[0])
             /\ buffers'[0].existing_tokens <= buffers'[0].token_count
             /\ Pending(buffers'[0]) = 0
  BY <1>1, <1>3, TypeInvBuffers, FlushTally
<1>5. wpc # "dead" => Handed' = Len(log) /\ Len(log) = Handed' + Pending(buffers'[0])
  BY <1>2, <1>3, <1>4
<1>6. Handed' <= Len(log)
  BY <1>2, <1>3, <1>4, <1>5
<1> QED BY <1>1, <1>3, <1>4, <1>5, <1>6 DEF TallyInv, worker

LEMMA DropTally ==
  ASSUME TypeInv, OrderInv, TallyInv, Drop
  PROVE  TallyInv'
<1>1. /\ pc = "ready" /\ pc' = "joining" /\ FlushBlock(buffers, StopCommand)
      /\ UNCHANGED <<valid, worker, log>>
  BY DEF Drop, file
<1>2. StopCommand \in {<<>>, <<Stop>>}
  BY DEF StopCommand
<1> HIDE DEF StopCommand
<1>3. /\ Pending(buffers[0]) \in Nat /\ Handed \in Nat /\ Len(log) \in Nat
  BY PendingBuffers, TypeInvBuffers, HandedNat
<1>4. /\ wpc # "dead" => /\ buffers[0].existing_tokens <= buffers[0].token_count
                         /\ Len(log) = Handed + Pending(buffers[0])
      /\ Handed <= Len(log) /\ (wpc = "store" => wvalid = valid)
  BY <1>1 DEF TallyInv
<1>5. IF wpc = "dead" THEN Handed' = Handed ELSE Handed' = Handed + Pending(buffers[0])
  BY <1>1, <1>2, <1>4, TypeInvBuffers, FlushTally
<1>6. Handed' <= Len(log) /\ (wpc # "dead" => Len(log) = Handed')
  BY <1>3, <1>4, <1>5
<1> QED BY <1>1, <1>4, <1>6 DEF TallyInv, worker

\* Dropping buffered frames takes them off the count and off the buffers alike.
LEMMA TruncatePendingTally ==
  ASSUME TypeInv, OrderInv, TallyInv, Truncate_pending
  PROVE  TallyInv'
<1> DEFINE drop == current_token_count - targ
           keep == buffers[0].token_count - drop
<1>1. /\ pc = "load" /\ pc' = "ready" /\ UNCHANGED <<valid, queue, worker>>
      /\ \/ /\ ~Underflows(buffers[0].token_count, drop)
            /\ buffers' = [c \in Cols |-> KeepTokens(buffers[c], keep)]
            /\ current_token_count' = targ /\ Forget(targ)
         \/ UNCHANGED <<buffers, current_token_count, log>>
  BY DEF Truncate_pending, file
<1>2. Quiescent /\ targ > valid /\ targ <= current_token_count
  BY <1>1 DEF OrderInv
<1>3. Handed = valid /\ Handed' = Handed
  BY <1>1, <1>2, IdleHanded DEF Handed, worker
<1>4. /\ targ \in Nat /\ valid \in Nat /\ current_token_count \in Nat /\ Len(log) \in Nat
      /\ buffers[0].token_count \in Nat /\ buffers[0].existing_tokens \in Nat
  BY HandedNat, PendingBuffers, TypeInvBuffers DEF TypeInv, TypeOK
<1>5. Handed <= Len(log) /\ wpc # "store"
  BY <1>2 DEF TallyInv, Quiescent
<1>6. CASE UNCHANGED <<buffers, current_token_count, log>>
  BY <1>1, <1>3, <1>6 DEF TallyInv, worker
<1>7. CASE /\ ~Underflows(buffers[0].token_count, drop)
           /\ buffers' = [c \in Cols |-> KeepTokens(buffers[c], keep)]
           /\ current_token_count' = targ /\ Forget(targ)
  <2>1. Len(log') = IF targ <= Len(log) THEN targ ELSE Len(log)
    BY <1>4, <1>7, ForgetLen
  <2>2. Handed' <= Len(log')
    BY <1>2, <1>3, <1>4, <1>5, <2>1
  <2>3. ASSUME wpc # "dead"
        PROVE  /\ Len(log') = targ /\ buffers'[0].existing_tokens <= buffers'[0].token_count
               /\ Len(log') = Handed' + Pending(buffers'[0])
    <3>1. /\ current_token_count = Len(log)
          /\ buffers[0].existing_tokens <= buffers[0].token_count
          /\ Len(log) = valid + Pending(buffers[0])
      BY <1>1, <1>3, <2>3 DEF TallyInv
    <3>2. Pending(buffers[0]) = buffers[0].token_count - buffers[0].existing_tokens
      BY <1>4, <3>1 DEF Pending, SatSub
    <3>2a. current_token_count = valid + (buffers[0].token_count - buffers[0].existing_tokens)
      BY <3>1, <3>2
    <3>2b. keep = buffers[0].existing_tokens + (targ - valid)
      BY <1>4, <3>2a
    <3>2c. targ - valid \in Nat
      BY <1>2, <1>4
    <3>3. /\ keep = buffers[0].existing_tokens + (targ - valid)
          /\ keep \in Nat /\ buffers[0].existing_tokens <= keep
      <4> HIDE DEF keep
      <4> QED BY <1>4, <3>2b, <3>2c
    <3> HIDE DEF keep
    <3>4. buffers'[0] = KeepTokens(buffers[0], keep) /\ buffers[0] \in ColumnBuffer
      BY <1>7, ColsNat, TypeInvBuffers DEF SoundBuffers
    <3>5. /\ buffers'[0].token_count = keep
          /\ buffers'[0].existing_tokens = Min({buffers[0].existing_tokens, keep})
      BY <3>4 DEF KeepTokens, ColumnBuffer
    <3>6. buffers'[0].existing_tokens = buffers[0].existing_tokens
      BY <1>4, <3>3, <3>5, MinPair
    <3>7. Pending(buffers'[0]) = targ - valid
      BY <1>2, <1>4, <3>3, <3>5, <3>6 DEF Pending, SatSub
    <3> QED BY <1>2, <1>3, <1>4, <2>1, <3>1, <3>3, <3>5, <3>6, <3>7
  <2> QED BY <1>1, <1>5, <1>7, <2>2, <2>3 DEF TallyInv, worker
<1> QED BY <1>1, <1>6, <1>7

\* open counts what is visible and takes the last block up again.
LEMMA OpenTally ==
  ASSUME TypeInv, OrderInv, TallyInv, Open
  PROVE  TallyInv'
<1>1. /\ pc = "closed" /\ pc' = "ready" /\ wpc' = "start" /\ UNCHANGED <<valid, queue>>
      /\ current_token_count' = valid /\ Forget(valid)
      /\ buffers' = [c \in Cols |->
           [block_idx |-> OpenBlock, token_count |-> PartialCount,
            existing_tokens |-> PartialCount, data |-> Existing(c)]]
  BY DEF Open, file
<1>2. wpc = "stopped" /\ queue = <<>>
  BY <1>1 DEF OrderInv
<1>3. Handed = valid /\ valid \in Nat /\ Len(log) \in Nat /\ valid <= Len(log)
  BY <1>2, IdleHanded, HandedNat DEF Quiescent, TallyInv
<1>4. Len(log') = valid
  BY <1>1, <1>3, ForgetLen
<1>5. Handed' = valid
  <2>1. HandCost(wpc', wbatch') = 0
    BY <1>1 DEF HandCost, InHand
  <2>2. QueueCost(queue') = 0
    BY <1>1, <1>2, QueueCostEmpty
  <2> QED BY <1>1, <1>3, <2>1, <2>2 DEF Handed
<1>6. PartialCount \in Nat
  BY <1>3, BlockAssumption DEF PartialCount
<1>7. /\ buffers'[0].token_count = PartialCount /\ buffers'[0].existing_tokens = PartialCount
  BY <1>1, ColsNat
<1> HIDE DEF PartialCount
<1>8. Pending(buffers'[0]) = 0 /\ buffers'[0].existing_tokens <= buffers'[0].token_count
  BY <1>6, <1>7 DEF Pending, SatSub
<1> QED BY <1>1, <1>3, <1>4, <1>5, <1>8 DEF TallyInv

LEMMA ReceiveTally ==
  ASSUME TypeInv, OrderInv, TallyInv, Worker_receive
  PROVE  TallyInv'
<1>1. /\ wpc = "idle" /\ queue # <<>> /\ queue' = Tail(queue)
      /\ UNCHANGED <<pc, valid, log, buffers, current_token_count>>
      /\ \/ Head(queue).cmd = "Flush" /\ wpc' = "payload" /\ wbatch' = Head(queue).batch
         \/ Head(queue).cmd = "Stop" /\ wpc' = "stopped"
  BY DEF Worker_receive, file, writer
<1>2. queue \in Seq(FlushCommand) /\ queue' \in Seq(FlushCommand)
  BY <1>1, HeadTailProperties DEF TypeInv, TypeOK
<1>3. QueueCost(queue) = Cost(Head(queue)) + QueueCost(queue')
  BY <1>1, <1>2, QueueCostTail
<1>4. HandCost(wpc, wbatch) = 0 /\ HandCost(wpc', wbatch') = Cost(Head(queue))
  BY <1>1 DEF HandCost, InHand, Cost
<1>5. QueueCost(queue') \in Nat /\ Cost(Head(queue)) \in Nat /\ valid \in Nat
  BY <1>1, <1>2, QueueCostNat, CostNat, HeadTailProperties, HandedNat
<1>6. Handed' = Handed
  BY <1>1, <1>3, <1>4, <1>5 DEF Handed
<1> QED BY <1>1, <1>6 DEF TallyInv

\* The steps of a batch: nothing changes before the store, which makes it visible.
LEMMA PublishTally ==
  ASSUME TypeInv, OrderInv, EpochInv, TallyInv,
         \/ Worker_start \/ Worker_payload \/ Worker_index \/ Worker_trailer
         \/ Worker_check \/ Worker_load \/ Worker_store
  PROVE  TallyInv'
<1>1. UNCHANGED <<pc, log, buffers, current_token_count, queue>>
  BY DEF Worker_start, Worker_payload, Worker_index, Worker_trailer, Worker_check, Worker_load,
     Worker_store, writer
<1>2. wpc # "dead" /\ wpc' # "dead"
  BY DEF Worker_start, Worker_payload, Worker_index, Worker_trailer, Worker_check, Worker_load,
     Worker_store, BackToIdle
<1>3. /\ HandCost(wpc, wbatch) \in Nat /\ QueueCost(queue) \in Nat /\ valid \in Nat
      /\ Pending(wbatch) \in Nat
  BY HandedNat
<1>4. Handed' = Handed /\ (wpc' = "store" => wvalid' = valid')
  <2>1. CASE Worker_start
    BY <1>1, <2>1 DEF Worker_start, Handed, HandCost, InHand, file
  <2>2. CASE Worker_payload
    <3>1. Pending(wbatch') = Pending(wbatch) /\ UNCHANGED valid /\ wpc' \in {"payload", "index"}
          /\ wpc = "payload"
      BY <2>2 DEF Worker_payload, Pending, TypeInv, TypeOK, FlushBatch
    <3> QED BY <1>1, <3>1 DEF Handed, HandCost, InHand
  <2>3. CASE Worker_index \/ Worker_trailer
    BY <1>1, <2>3 DEF Worker_index, Worker_trailer, Handed, HandCost, InHand
  <2>4. CASE Worker_check
    <3>1. wbatch.batch_epoch = epoch
      BY <2>4 DEF Worker_check, EpochInv
    <3> QED BY <1>1, <2>4, <3>1 DEF Worker_check, Handed, HandCost, InHand, file
  <2>5. CASE Worker_load
    BY <1>1, <2>5 DEF Worker_load, Handed, HandCost, InHand, file
  <2>6. CASE Worker_store
    <3>1. wpc = "store" /\ wpc' = "head" /\ valid' = wvalid + Increment(wbatch)
      BY <2>6 DEF Worker_store
    <3>2. wvalid = valid /\ Increment(wbatch) = Pending(wbatch)
      BY <3>1 DEF TallyInv, Increment, Pending
    <3>3. HandCost(wpc', wbatch') = 0 /\ HandCost(wpc, wbatch) = Pending(wbatch)
      BY <3>1 DEF HandCost, InHand
    <3> QED BY <1>1, <1>3, <3>1, <3>2, <3>3 DEF Handed
  <2> QED BY <2>1, <2>2, <2>3, <2>4, <2>5, <2>6
<1> QED BY <1>1, <1>2, <1>4 DEF TallyInv

LEMMA DiesTally ==
  ASSUME TypeInv, TallyInv, WorkerDies, UNCHANGED <<valid, log>>
  PROVE  TallyInv'
<1>1. queue' = <<>> /\ wpc' = "dead" /\ valid' = valid /\ log' = log
  BY DEF WorkerDies
<1>2. Handed' <= Handed /\ Handed \in Nat /\ Len(log) \in Nat /\ Handed' \in Nat
  BY <1>1, DroppedHanded, HandedNat
<1>3. Handed' <= Len(log')
  BY <1>1, <1>2 DEF TallyInv
<1> QED BY <1>1, <1>3 DEF TallyInv

LEMMA HeadTally ==
  ASSUME TypeInv, TallyInv, Worker_head
  PROVE  TallyInv'
<1>1. CASE WorkerDies
  BY <1>1, DiesTally DEF Worker_head
<1>2. CASE BackToIdle /\ UNCHANGED queue
  <2>1. /\ wpc = "head" /\ wpc' = "idle"
        /\ UNCHANGED <<valid, pc, log, buffers, current_token_count>>
    BY <1>2 DEF Worker_head, BackToIdle, writer
  <2>2. Handed' = Handed
    BY <1>2, <2>1 DEF Handed, HandCost, InHand
  <2> QED BY <2>1, <2>2 DEF TallyInv
<1> QED BY <1>1, <1>2 DEF Worker_head

LEMMA GoneTally ==
  ASSUME TypeInv, TallyInv, Gone, UNCHANGED <<valid, log>>
  PROVE  TallyInv'
<1>1. queue' = <<>> /\ wpc' = "stopped" /\ pc' = "closed" /\ valid' = valid /\ log' = log
  BY DEF Gone
<1>2. Handed' <= Handed /\ Handed \in Nat /\ Len(log) \in Nat /\ Handed' \in Nat
  BY <1>1, DroppedHanded, HandedNat
<1>3. Handed' <= Len(log')
  BY <1>1, <1>2 DEF TallyInv
<1> QED BY <1>1, <1>3 DEF TallyInv

LEMMA SameTally ==
  ASSUME TallyInv, UNCHANGED <<valid, queue, worker, log, buffers, current_token_count>>,
         \/ pc' = pc
         \/ pc = "ready" /\ pc' = "load"
  PROVE  TallyInv'
<1>1. Handed' = Handed
  BY DEF Handed, worker
<1> QED BY <1>1 DEF TallyInv, worker

LEMMA StepTally ==
  NothingStale /\ TypeInv /\ CountInv /\ [Next]_vars => TallyInv'
<1> SUFFICES ASSUME NothingStale, TypeInv, OrderInv, EpochInv, TallyInv, [Next]_vars
             PROVE  TallyInv'
  BY DEF CountInv
<1>1. CASE \E count \in 0 .. current_token_count : Truncate_epoch(count)
  BY <1>1, SameTally DEF Truncate_epoch, writer
<1>2. ~Truncate_committed /\ ~Truncate_store
  <2>1. ~Truncate_store
    BY DEF Truncate_store, OrderInv
  <2>2. targ \in Nat /\ valid \in Nat
    BY DEF TypeInv, TypeOK
  <2>3. ~Truncate_committed
    BY <2>2 DEF Truncate_committed, IsCommitted, OrderInv
  <2> QED BY <2>1, <2>3
<1>3. CASE Join \/ Crash
  BY <1>3, GoneTally DEF Join, Crash, file
<1>4. CASE Worker_fails
  BY <1>4, DiesTally DEF Worker_fails
<1>5. CASE UNCHANGED vars
  BY <1>5, SameTally DEF vars, file, writer
<1> QED BY <1>1, <1>2, <1>3, <1>4, <1>5, AppendTally, FlushPendingTally, DropTally,
        TruncatePendingTally, OpenTally, ReceiveTally, PublishTally, HeadTally
        DEF Next, Caller, Worker

LEMMA StepCount == NothingStale /\ TypeInv /\ CountInv /\ [Next]_vars => CountInv'
BY StepOrder, StepEpoch, StepTally DEF CountInv

LEMMA CountInvariant == NothingStale => (Spec => []CountInv)
<1> SUFFICES ASSUME NothingStale PROVE Spec => []CountInv
  OBVIOUS
<1>1. TypeInv /\ CountInv /\ [Next]_vars => CountInv'
  BY StepCount
<1> QED BY <1>1, InitCount, TypeInvariant, PTL DEF Spec

LEMMA CountsFromInv == TypeInv /\ CountInv => CountsAgree
<1> SUFFICES ASSUME TypeInv, CountInv, pc = "ready", ~flush_error
             PROVE  current_token_count = valid + InFlight + Queued + Pending(buffers[0])
  BY DEF CountsAgree
<1>1. wpc # "dead"
  BY DEF CountInv, OrderInv
<1>2. current_token_count = Handed + Pending(buffers[0])
  BY <1>1 DEF CountInv, TallyInv
<1>3. InFlight = HandCost(wpc, wbatch) /\ Queued = QueueCost(queue)
  BY QueuedIs DEF InFlight, HandCost, InHand, TypeInv, TypeOK
<1> QED BY <1>2, <1>3 DEF Handed

\* The count that truncate computes with is right at every call of a caller who does not
\* truncate, or who truncates only what is buffered and when the worker is idle: it is
\* what is visible, queued, in the worker's hand or buffered, across failed flushes,
\* crashes at any step and reopening.
THEOREM CountIsKept == NothingStale => (Spec => []CountsAgree)
<1> SUFFICES ASSUME NothingStale PROVE Spec => []CountsAgree
  OBVIOUS
<1> QED BY CountInvariant, CountsFromInv, TypeInvariant, PTL

CloseStep ==
  pc = "joining" /\ pc' = "closed" /\ ~flush_error /\ wpc = "stopped" => valid = Len(log)

\* A writer dropped by such a caller leaves every accepted frame visible, however many
\* batches are still queued when it is dropped, unless its worker has failed.
THEOREM CloseCounts == NothingStale => (Spec => CleanCloseCount)
<1> SUFFICES ASSUME NothingStale PROVE Spec => CleanCloseCount
  OBVIOUS
<1>1. ASSUME TypeInv, CountInv PROVE CloseStep
  <2> SUFFICES ASSUME pc = "joining", wpc = "stopped" PROVE valid = Len(log)
    BY DEF CloseStep
  <2>1. queue = <<>> /\ Quiescent /\ OrderInv
    BY <1>1 DEF CountInv, OrderInv, Quiescent
  <2>2. Handed = valid
    BY <1>1, <2>1, IdleHanded
  <2> QED BY <1>1, <2>2 DEF CountInv, TallyInv
<1>2. TypeInv /\ CountInv /\ [Next]_vars => [CloseStep]_vars
  BY <1>1
<1> QED BY <1>2, CountInvariant, TypeInvariant, PTL DEF Spec, CleanCloseCount, CloseStep
=============================================================================
