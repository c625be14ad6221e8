------------------------- MODULE KvCachePacedProofs -------------------------
(***************************************************************************)
(* What a disciplined caller can rely on.                                  *)
(*                                                                         *)
(* Paced alone keeps the chain whole: a batch is queued only when none is  *)
(* on its way, so the head it links to is still the head when the worker   *)
(* replaces it.                                                            *)
(*                                                                         *)
(* Disciplined, which also flushes full blocks only, truncates nothing but *)
(* buffered frames and does not crash between the two stores of a commit,  *)
(* makes the chain of the head an image of the log: block b of every       *)
(* column holds the tokens of the frames b stands for.  So a fresh reader  *)
(* reads every published frame, open succeeds, and the writer implements   *)
(* the abstract log of KvCacheLog.                                         *)
(***************************************************************************)
EXTENDS KvCacheCountersProofs

Publishing == {"payload", "index", "trailer", "check", "load", "store", "head"}

\* At most one batch is on its way, and it links to the present head.
PacedInv ==
  /\ \A i \in 1 .. Len(queue) : queue[i].cmd = "Flush" =>
       i = 1 /\ wpc \in {"start", "idle"} /\ queue[i].batch.prev_index_offset = head
  /\ wpc \in Publishing => wbatch.prev_index_offset = head
  /\ wpc \in {"check", "load", "store", "head"} => Previous(disk, windex) = head

LinkStep == Walk(disk, Len(disk), head) \subseteq Walk(disk', Len(disk'), head')

-----------------------------------------------------------------------------
(***************************************************************************)
(* Walks.                                                                  *)
(***************************************************************************)
\* What is visited is visited again when the file has grown.
LEMMA WalkGrows ==
  ASSUME NEW f \in Seq(Cell), NEW g \in Seq(Cell), Extends(f, g), NEW h \in Nat
  PROVE  Walk(f, Len(f), h) \subseteq Walk(g, Len(g), h)
<1> DEFINE T == Trailers(f, Len(f))
           U == Trailers(g, Len(g))
<1>1. \A o \in Nat : TrailerAt(f, Len(f), o) <=> o \in T
  BY LenProperties DEF Trailers, TrailerAt
<1>2. \A o \in Nat : TrailerAt(g, Len(g), o) <=> o \in U
  BY LenProperties DEF Trailers, TrailerAt
<1>3. \A o \in T : o \in U /\ Previous(g, o) = Previous(f, o) /\ Previous(f, o) \in Nat
  BY TrailersGrow, TrailerCells
<1>4. ASSUME NEW o \in Walk(f, Len(f), h), NEW S \in SUBSET U, Closed(g, Len(g), h, S)
      PROVE  o \in S
  <2>1. Closed(f, Len(f), h, S \cap T)
    <3> HIDE DEF T, U
    <3> QED BY <1>1, <1>2, <1>3, <1>4 DEF Closed
  <2> QED BY <2>1 DEF Walk
<1>5. \A o \in Walk(f, Len(f), h) : o \in U
  BY <1>3 DEF Walk
<1> QED BY <1>4, <1>5 DEF Walk

\* The walk from a trailer visits what the walk from the one before it does.
LEMMA WalkBefore ==
  ASSUME NEW f, NEW h \in Trailers(f, Len(f))
  PROVE  Walk(f, Len(f), Previous(f, h)) \subseteq Walk(f, Len(f), h)
<1>1. TrailerAt(f, Len(f), h)
  BY DEF Trailers
<1>2. ASSUME NEW S, Closed(f, Len(f), h, S)
      PROVE  Closed(f, Len(f), Previous(f, h), S)
  BY <1>1, <1>2 DEF Closed
<1> QED BY <1>2 DEF Walk

-----------------------------------------------------------------------------
(***************************************************************************)
(* One batch at a time.                                                    *)
(***************************************************************************)
LEMMA InitPaced == Init => PacedInv
<1> SUFFICES ASSUME Init PROVE PacedInv
  OBVIOUS
<1>1. Len(queue) = 0 /\ wpc = "start"
  BY DEF Init
<1> QED BY <1>1 DEF PacedInv, Publishing

\* What flush_block of a paced caller does to the queue: a batch goes into an empty
\* one, and Stop behind whatever there is.
LEMMA FlushQueue ==
  ASSUME Paced, TypeInv, NEW bufs, NEW tail \in {<<>>, <<Stop>>}, FlushBlock(bufs, tail)
  PROVE  /\ \A i \in 1 .. Len(queue') :
              \/ i \in 1 .. Len(queue) /\ queue'[i] = queue[i] /\ ~FlushSent(bufs, tail)
              \/ tail = <<Stop>> /\ queue'[i] = Stop
              \/ /\ FlushSent(bufs, tail)
                 /\ i = 1 /\ queue'[i] = [cmd |-> "Flush", batch |-> BatchOf(bufs)]
         /\ FlushSent(bufs, tail) =>
              /\ 1 \in 1 .. Len(queue')
              /\ queue'[1] = [cmd |-> "Flush", batch |-> BatchOf(bufs)]
         /\ ~FlushSent(bufs, tail) =>
              \A i \in 1 .. Len(queue) : i \in 1 .. Len(queue') /\ queue'[i] = queue[i]
<1> DEFINE m == [cmd |-> "Flush", batch |-> BatchOf(bufs)]
<1>1. queue \in Seq(FlushCommand) /\ Len(queue) \in Nat
  BY LenProperties DEF TypeInv, TypeOK
<1>2. /\ tail \in Seq({m} \cup FlushCommand) /\ Len(tail) \in Nat
      /\ tail \in Seq(FlushCommand)
      /\ \A i \in 1 .. Len(tail) : tail = <<Stop>> /\ tail[i] = Stop
  <2>1. Stop \in FlushCommand
    BY DEF Stop, FlushCommand
  <2>2. CASE tail = <<>>
    BY <2>2, EmptySeq
  <2>3. CASE tail = <<Stop>>
    BY <2>1, <2>3
  <2> QED BY <2>2, <2>3
<1>3. FlushSent(bufs, tail) => queue' = <<m>> \o tail
  BY DEF FlushSent, Quiescent
<1>4. ~FlushSent(bufs, tail) => queue' = queue \o tail \/ queue' = queue
  BY DEF FlushBlock, FlushNothing, FlushLost
<1> HIDE DEF m
<1>5. ASSUME queue' = <<m>> \o tail
      PROVE  /\ 1 \in 1 .. Len(queue') /\ queue'[1] = m
             /\ \A i \in 1 .. Len(queue') :
                  (i = 1 /\ queue'[i] = m) \/ (tail = <<Stop>> /\ queue'[i] = Stop)
  <2>1. <<m>> \in Seq({m} \cup FlushCommand)
    OBVIOUS
  <2>2. /\ Len(queue') = 1 + Len(tail)
        /\ \A i \in 1 .. Len(queue') : queue'[i] = IF i <= 1 THEN m ELSE tail[i - 1]
    BY <1>2, <1>5, <2>1, ConcatProperties
  <2>3. \A i \in 1 .. Len(queue') : i = 1 \/ (i - 1 \in 1 .. Len(tail) /\ ~(i <= 1))
    BY <1>2, <2>2
  <2> QED BY <1>2, <2>2, <2>3
<1>6. ASSUME queue' = queue \o tail
      PROVE  /\ \A i \in 1 .. Len(queue) : i \in 1 .. Len(queue') /\ queue'[i] = queue[i]
             /\ \A i \in 1 .. Len(queue') :
                  \/ i \in 1 .. Len(queue) /\ queue'[i] = queue[i]
                  \/ tail = <<Stop>> /\ queue'[i] = Stop
  <2>1. /\ Len(queue') = Len(queue) + Len(tail)
        /\ \A i \in 1 .. Len(queue') :
             queue'[i] = IF i <= Len(queue) THEN queue[i] ELSE tail[i - Len(queue)]
    BY <1>1, <1>2, <1>6, ConcatProperties
  <2>2. \A i \in 1 .. Len(queue') :
          i \in 1 .. Len(queue) \/ (i - Len(queue) \in 1 .. Len(tail) /\ ~(i <= Len(queue)))
    BY <1>1, <1>2, <2>1
  <2>3. \A i \in 1 .. Len(queue) : i \in 1 .. Len(queue') /\ i <= Len(queue)
    BY <1>1, <1>2, <2>1
  <2> QED BY <1>2, <2>1, <2>2, <2>3
<1> QED BY <1>3, <1>4, <1>5, <1>6 DEF m

\* A flush of a paced caller finds the queue empty and the worker without a batch.
LEMMA FlushPaced ==
  ASSUME Paced, TypeInv, PacedInv, NEW bufs, NEW tail \in {<<>>, <<Stop>>},
         FlushBlock(bufs, tail), UNCHANGED <<disk, head, worker>>
  PROVE  PacedInv'
<1>1. UNCHANGED <<disk, head, wpc, wbatch, windex>>
  BY DEF worker
<1>2. ASSUME NEW i \in 1 .. Len(queue'), queue'[i].cmd = "Flush"
      PROVE  i = 1 /\ wpc \in {"start", "idle"} /\ queue'[i].batch.prev_index_offset = head
  <2>1. CASE i \in 1 .. Len(queue) /\ queue'[i] = queue[i]
    BY <1>2, <2>1 DEF PacedInv
  <2>2. CASE /\ FlushSent(bufs, tail)
             /\ i = 1 /\ queue'[i] = [cmd |-> "Flush", batch |-> BatchOf(bufs)]
    <3>1. wpc \in {"start", "idle"}
      BY <2>2 DEF FlushSent, Quiescent, ReceiverAlive
    <3> QED BY <2>2, <3>1 DEF BatchOf, PrevIndexOffset
  <2>3. ~(queue'[i] = Stop)
    BY <1>2 DEF Stop
  <2> QED BY <2>1, <2>2, <2>3, FlushQueue
<1> QED BY <1>1, <1>2 DEF PacedInv

\* Nothing is on its way.
LEMMA NothingPaced ==
  ASSUME queue' = <<>>, wpc' \notin Publishing
  PROVE  PacedInv'
<1>1. Len(queue') = 0
  OBVIOUS
<1> QED BY <1>1 DEF PacedInv, Publishing

LEMMA CallerPaced == Paced /\ TypeInv /\ PacedInv /\ Caller => PacedInv'
<1> SUFFICES ASSUME Paced, TypeInv, PacedInv, Caller PROVE PacedInv'
  OBVIOUS
<1>1. CASE Append_frame
  <2> DEFINE bufs == [c \in Cols |-> [buffers[c] EXCEPT !.data = Append(@, Token(c, NextFrame)),
                                                       !.token_count = @ + 1]]
  <2>1. UNCHANGED <<disk, head, worker>> /\ (UNCHANGED queue \/ FlushBlock(bufs, <<>>))
    BY <1>1 DEF Append_frame, FlushBlock, file
  <2> HIDE DEF bufs
  <2>2. CASE UNCHANGED queue
    BY <2>1, <2>2 DEF PacedInv, worker
  <2> QED BY <2>1, <2>2, FlushPaced
<1>2. CASE Flush_pending
  BY <1>2, FlushPaced DEF Flush_pending, FlushBlock, file
<1>3. CASE (\E count \in 0 .. current_token_count : Truncate_epoch(count))
           \/ Truncate_committed \/ Truncate_store \/ Truncate_pending
  <2>1. UNCHANGED <<disk, head, worker, queue>>
    BY <1>3 DEF Truncate_epoch, Truncate_committed, Truncate_store, Truncate_pending, file
  <2> QED BY <2>1 DEF PacedInv, worker
<1>4. CASE Drop
  BY <1>4, FlushPaced DEF Drop, StopCommand, file
<1>5. CASE Join
  BY <1>5, NothingPaced DEF Join, Gone, Publishing
<1>6. CASE Open
  <2>1. UNCHANGED <<disk, head, queue>> /\ wpc' = "start"
    BY <1>6 DEF Open, file
  <2> QED BY <2>1 DEF PacedInv, Publishing
<1> QED BY <1>1, <1>2, <1>3, <1>4, <1>5, <1>6 DEF Caller

LEMMA ReceivePaced == TypeInv /\ PacedInv /\ Worker_receive => PacedInv'
<1> SUFFICES ASSUME TypeInv, PacedInv, Worker_receive PROVE PacedInv'
  OBVIOUS
<1>1. /\ queue # <<>> /\ queue' = Tail(queue) /\ UNCHANGED <<disk, head, windex>>
      /\ \/ wpc' = "payload" /\ Head(queue).cmd = "Flush" /\ wbatch' = Head(queue).batch
         \/ wpc' = "stopped" /\ UNCHANGED wbatch
  BY DEF Worker_receive, file
<1>2. queue \in Seq(FlushCommand) /\ Len(queue) \in Nat
  BY LenProperties DEF TypeInv, TypeOK
<1>3. /\ Len(queue) > 0 /\ Head(queue) = queue[1]
      /\ Len(queue') = Len(queue) - 1
      /\ \A i \in 1 .. Len(queue') : queue'[i] = queue[i + 1]
  BY <1>1, <1>2, HeadTailProperties, EmptySeq
<1>4. \A i \in 1 .. Len(queue') : queue'[i].cmd # "Flush"
  <2>1. \A i \in 1 .. Len(queue') : i + 1 \in 1 .. Len(queue) /\ i + 1 # 1
    BY <1>2, <1>3
  <2> QED BY <1>3, <2>1 DEF PacedInv
<1>5. wpc' = "payload" => wbatch'.prev_index_offset = head
  <2>1. 1 \in 1 .. Len(queue)
    BY <1>2, <1>3
  <2> QED BY <1>1, <1>3, <2>1 DEF PacedInv
<1> QED BY <1>1, <1>4, <1>5 DEF PacedInv, Publishing

LEMMA TrailerPaced == TypeInv /\ PacedInv /\ Worker_trailer => PacedInv'
<1> SUFFICES ASSUME TypeInv, PacedInv, Worker_trailer PROVE PacedInv'
  OBVIOUS
<1> DEFINE x == IndexTrailer(wbatch.prev_index_offset)
<1>1. /\ disk' = Append(disk, x) /\ wpc = "trailer" /\ wpc' = "check"
      /\ windex' = Len(disk) /\ UNCHANGED <<head, queue, wbatch>>
  BY DEF Worker_trailer, IndexOffset
<1>2. disk \in Seq(Cell) /\ Len(disk) \in Nat /\ x \in Cell
  BY LenProperties DEF TypeInv, TypeOK, FlushBatch, IndexTrailer, Cell
<1>3. x.prev_index_offset = head
  BY <1>1 DEF PacedInv, Publishing, IndexTrailer
<1> HIDE DEF x
<1>4. disk'[Len(disk) + 1] = x
  BY <1>1, <1>2, AppendExtends
<1>5. Previous(disk', windex') = head
  BY <1>1, <1>3, <1>4 DEF Previous, At
<1> QED BY <1>1, <1>5 DEF PacedInv, Publishing

LEMMA WorkerPaced == TypeInv /\ PacedInv /\ Worker => PacedInv'
<1> SUFFICES ASSUME TypeInv, PacedInv, Worker PROVE PacedInv'
  OBVIOUS
<1>1. CASE Worker_start
  BY <1>1 DEF Worker_start, PacedInv, Publishing, file
<1>2. CASE Worker_payload
  <2>1. wpc = "payload" /\ wpc' \in {"payload", "index"} /\ UNCHANGED <<head, queue>>
    BY <1>2 DEF Worker_payload
  <2>2. wbatch'.prev_index_offset = wbatch.prev_index_offset
    BY <1>2 DEF Worker_payload, TypeInv, TypeOK, FlushBatch
  <2> QED BY <2>1, <2>2 DEF PacedInv, Publishing
<1>3. CASE Worker_index
  BY <1>3 DEF Worker_index, PacedInv, Publishing
<1>4. CASE Worker_check
  BY <1>4 DEF Worker_check, BackToIdle, PacedInv, Publishing, file
<1>5. CASE Worker_load \/ Worker_store
  BY <1>5 DEF Worker_load, Worker_store, PacedInv, Publishing, file
<1>6. CASE Worker_head
  <2>1. /\ wpc = "head" /\ wpc' \in {"idle", "dead"}
        /\ UNCHANGED queue \/ queue' = <<>>
    BY <1>6 DEF Worker_head, BackToIdle, WorkerDies
  <2>2. CASE UNCHANGED queue
    BY <2>1, <2>2 DEF PacedInv, Publishing
  <2>3. CASE queue' = <<>>
    BY <2>1, <2>3, NothingPaced DEF Publishing
  <2> QED BY <2>1, <2>2, <2>3
<1> QED BY <1>1, <1>2, <1>3, <1>4, <1>5, <1>6, ReceivePaced, TrailerPaced DEF Worker

LEMMA StepPaced == Paced /\ TypeInv /\ PacedInv /\ [Next]_vars => PacedInv'
<1> SUFFICES ASSUME Paced, TypeInv, PacedInv, [Next]_vars PROVE PacedInv'
  OBVIOUS
<1>1. CASE Worker_fails \/ Crash
  BY <1>1, NothingPaced DEF Worker_fails, WorkerDies, Crash, Gone, Publishing
<1>2. CASE UNCHANGED vars
  BY <1>2 DEF vars, file, worker, PacedInv
<1> QED BY <1>1, <1>2, CallerPaced, WorkerPaced DEF Next

-----------------------------------------------------------------------------
\* Only the store of a head moves the head; it then links to the old one.
LEMMA StepLinks == TypeInv /\ ChainInv /\ PacedInv /\ [Next]_vars => LinkStep
<1> SUFFICES ASSUME TypeInv, ChainInv, PacedInv, [Next]_vars PROVE LinkStep
  OBVIOUS
<1>1. CASE Worker_head
  <2>1. wpc = "head" /\ head' = windex /\ disk' = disk
    BY <1>1 DEF Worker_head
  <2>2. windex \in Trailers(disk, Len(disk)) /\ Previous(disk, windex) = head
    BY <2>1 DEF ChainInv, PacedInv
  <2>3. Walk(disk, Len(disk), head) \subseteq Walk(disk, Len(disk), windex)
    BY <2>2, WalkBefore
  <2> QED BY <2>1, <2>3 DEF LinkStep
<1>2. CASE UNCHANGED head
  <2>1. head \in Nat
    BY DEF TypeInv, TypeOK
  <2> QED BY <1>2, <2>1, FileGrows, WalkGrows DEF LinkStep
<1>3. Worker_head \/ UNCHANGED head
  BY DEF Next, Caller, Append_frame, Flush_pending, Truncate_epoch, Truncate_committed,
     Truncate_store, Truncate_pending, Drop, Join, Open, Worker, Worker_start, Worker_receive,
     Worker_payload, Worker_index, Worker_trailer, Worker_check, Worker_load, Worker_store,
     Worker_fails, Crash, vars, file
<1> QED BY <1>1, <1>2, <1>3

\* Under the discipline of Paced no commit, crash, failure or reopening ever takes a
\* block out of the chain. Without it KvCacheUnlinked shows that one does.
THEOREM PacedUnlinksNothing == Paced => (Spec => NothingUnlinked)
<1> SUFFICES ASSUME Paced PROVE Spec => NothingUnlinked
  OBVIOUS
<1>1. TypeInv /\ PacedInv /\ [Next]_vars => PacedInv'
  BY StepPaced
<1>2. Spec => []PacedInv
  BY <1>1, InitPaced, TypeInvariant, PTL DEF Spec
<1>3. TypeInv /\ ChainInv /\ PacedInv /\ [Next]_vars => [LinkStep]_vars
  BY StepLinks
<1> QED BY <1>2, <1>3, TypeInvariant, ChainInvariant, PTL DEF Spec, NothingUnlinked, LinkStep

-----------------------------------------------------------------------------
(***************************************************************************)
(* Blocks of tokens: arithmetic.                                           *)
(***************************************************************************)
\* The first token of block b.
Start(b) == b * BLOCK_TOKEN_COUNT

LEMMA BlockOfToken ==
  ASSUME NEW t \in Nat
  PROVE  /\ t \div BLOCK_TOKEN_COUNT \in Nat
         /\ t % BLOCK_TOKEN_COUNT \in Nat /\ t % BLOCK_TOKEN_COUNT < BLOCK_TOKEN_COUNT
         /\ t = Start(t \div BLOCK_TOKEN_COUNT) + (t % BLOCK_TOKEN_COUNT)
BY BlockAssumption DEF Start

LEMMA TokenOfBlock ==
  ASSUME NEW b \in Nat, NEW r \in Nat, r < BLOCK_TOKEN_COUNT
  PROVE  /\ (Start(b) + r) \div BLOCK_TOKEN_COUNT = b
         /\ (Start(b) + r) % BLOCK_TOKEN_COUNT = r
BY BlockAssumption DEF Start

LEMMA Starts == \A b \in Nat : Start(b) \in Nat
BY BlockAssumption DEF Start

LEMMA StartNext ==
  ASSUME NEW b \in Nat
  PROVE  Start(b + 1) = Start(b) + BLOCK_TOKEN_COUNT
BY BlockAssumption DEF Start

LEMMA BlockSize == BLOCK_TOKEN_COUNT \in Nat /\ BLOCK_TOKEN_COUNT > 0
BY BlockAssumption

LEMMA StartsInOrder ==
  ASSUME NEW b \in Nat, NEW d \in Nat, b < d
  PROVE  Start(b) + BLOCK_TOKEN_COUNT <= Start(d)
BY BlockAssumption DEF Start

-----------------------------------------------------------------------------
(***************************************************************************)
(* The index as the chain grows.                                           *)
(***************************************************************************)
\* Two files that have the same trailers up to h, each linking down, are walked alike.
LEMMA WalkWithin ==
  ASSUME NEW f, NEW l \in Nat, NEW g, NEW m \in Nat, NEW h \in Nat,
         \A o \in 0 .. h : TrailerAt(f, l, o) <=> TrailerAt(g, m, o),
         \A o \in 0 .. h : TrailerAt(f, l, o) =>
            Previous(f, o) = Previous(g, o) /\ Previous(f, o) \in 0 .. o
  PROVE  Walk(f, l, h) \subseteq Walk(g, m, h) /\ Walk(f, l, h) \subseteq 0 .. h
<1> DEFINE T == Trailers(f, l)
           U == Trailers(g, m)
<1>1. \A o \in Nat : (TrailerAt(f, l, o) <=> o \in T) /\ (TrailerAt(g, m, o) <=> o \in U)
  BY DEF Trailers, TrailerAt
<1>2. \A o : (o \in T => o \in Nat /\ TrailerAt(f, l, o)) /\ (o \in U => o \in Nat /\ TrailerAt(g, m, o))
  BY DEF Trailers
<1> HIDE DEF T, U
<1>3. ASSUME NEW S \in SUBSET U, Closed(g, m, h, S)
      PROVE  Closed(f, l, h, S \cap 0 .. h) /\ S \cap 0 .. h \in SUBSET T
  <2>1. TrailerAt(f, l, h) => h \in S \cap 0 .. h
    BY <1>3 DEF Closed
  <2>2. ASSUME NEW o \in S \cap 0 .. h, TrailerAt(f, l, Previous(f, o))
        PROVE  Previous(f, o) \in S \cap 0 .. h
    <3>1. TrailerAt(f, l, o)
      BY <1>2
    <3>2. Previous(f, o) = Previous(g, o) /\ Previous(f, o) \in 0 .. h
      BY <3>1
    <3>3. TrailerAt(g, m, Previous(g, o))
      BY <2>2, <3>2
    <3> QED BY <1>3, <3>2, <3>3 DEF Closed
  <2>3. S \cap 0 .. h \in SUBSET T
    BY <1>1, <1>2
  <2> QED BY <2>1, <2>2, <2>3 DEF Closed
<1>4. ASSUME NEW o \in Walk(f, l, h)
      PROVE  o \in 0 .. h /\ o \in T
  <2> DEFINE D == {p \in T : p \in 0 .. h}
  <2>1. Closed(f, l, h, D)
    <3>1. TrailerAt(f, l, h) => h \in D
      BY <1>1
    <3>2. ASSUME NEW p \in D, TrailerAt(f, l, Previous(f, p))
          PROVE  Previous(f, p) \in D
      <4>1. Previous(f, p) \in 0 .. h
        BY <1>2
      <4> QED BY <1>1, <3>2, <4>1
    <3> QED BY <3>1, <3>2 DEF Closed
  <2>2. D \in SUBSET T
    OBVIOUS
  <2> QED BY <2>1, <2>2 DEF Walk, T
<1>5. ASSUME NEW o \in Walk(f, l, h)
      PROVE  o \in Walk(g, m, h)
  <2>1. o \in U
    BY <1>1, <1>2, <1>4
  <2>2. ASSUME NEW S \in SUBSET U, Closed(g, m, h, S)
        PROVE  o \in S
    <3>1. Closed(f, l, h, S \cap 0 .. h) /\ S \cap 0 .. h \in SUBSET T
      BY <1>3, <2>2
    <3>2. o \in S \cap 0 .. h
      BY <3>1 DEF Walk, T
    <3> QED BY <3>2
  <2> QED BY <2>1, <2>2 DEF Walk, U
<1> QED BY <1>4, <1>5

LEMMA SameIndex ==
  ASSUME NEW f, NEW l \in Nat, NEW g, NEW m \in Nat, NEW h \in Nat,
         \A o \in 0 .. h : TrailerAt(f, l, o) <=> TrailerAt(g, m, o),
         \A o \in 0 .. h : TrailerAt(f, l, o) =>
            /\ Previous(f, o) = Previous(g, o) /\ Previous(f, o) \in 0 .. o
            /\ At(f, o - 1) = At(g, o - 1)
  PROVE  ReconstructIndex(f, l, h) = ReconstructIndex(g, m, h)
<1>1. Walk(f, l, h) \subseteq Walk(g, m, h) /\ Walk(f, l, h) \subseteq 0 .. h
  BY WalkWithin
<1>1a. Walk(g, m, h) \subseteq Walk(f, l, h)
  <2>1. \A o \in 0 .. h : TrailerAt(g, m, o) <=> TrailerAt(f, l, o)
    OBVIOUS
  <2>2. \A o \in 0 .. h : TrailerAt(g, m, o) =>
          Previous(g, o) = Previous(f, o) /\ Previous(g, o) \in 0 .. o
    OBVIOUS
  <2> QED BY <2>1, <2>2, WalkWithin
<1>2. \A o \in Walk(f, l, h) : TrailerAt(f, l, o)
  BY DEF Walk, Trailers
<1>3. \A o \in Walk(f, l, h) : IndexedEntries(f, o) = IndexedEntries(g, o)
  BY <1>1, <1>2 DEF IndexedEntries
<1>4. Newest(f, Walk(f, l, h)) = Newest(g, Walk(f, l, h))
  BY <1>3 DEF Newest
<1> QED BY <1>1, <1>1a, <1>4 DEF ReconstructIndex

\* What the index of a file is when the file has grown.
LEMMA IndexGrows ==
  ASSUME NEW f \in Seq(Cell), NEW g \in Seq(Cell), Extends(f, g), ChainedFile(f),
         NEW l \in Nat, l <= Len(f), NEW h \in Nat, h = 0 \/ (h \in Trailers(f, Len(f)) /\ h < l)
  PROVE  ReconstructIndex(g, Len(g), h) = ReconstructIndex(f, l, h)
<1>1. Len(f) \in Nat /\ Len(g) \in Nat /\ Len(f) <= Len(g)
  BY LenProperties DEF Extends
<1>2. ASSUME NEW o \in 0 .. h
      PROVE  /\ TrailerAt(f, l, o) <=> TrailerAt(g, Len(g), o)
             /\ TrailerAt(f, l, o) =>
                  /\ Previous(f, o) = Previous(g, o) /\ Previous(f, o) \in 0 .. o
                  /\ At(f, o - 1) = At(g, o - 1)
  <2>1. CASE o = 0
    BY <2>1 DEF TrailerAt
  <2>2. CASE o # 0
    <3>1. o \in Nat /\ 0 < o /\ o < l /\ o < Len(f)
      BY <1>1, <2>2
    <3>2. o + 1 \in 1 .. Len(f) /\ o - 1 + 1 = o /\ o \in 1 .. Len(f) /\ o < Len(g)
      BY <1>1, <3>1
    <3>3. f[o + 1] = g[o + 1] /\ f[o] = g[o]
      BY <3>2 DEF Extends
    <3>4. TrailerAt(f, l, o) <=> TrailerAt(g, Len(g), o)
      BY <3>1, <3>2, <3>3 DEF TrailerAt, At
    <3>5. ASSUME TrailerAt(f, l, o)
          PROVE  Previous(f, o) = Previous(g, o) /\ Previous(f, o) \in 0 .. o
      <4>1. o \in Trailers(f, Len(f))
        BY <3>1, <3>5, <1>1 DEF Trailers, TrailerAt
      <4>2. Previous(f, o) \in Nat /\ Previous(f, o) < o
        BY <4>1, TrailerCells DEF ChainedFile
      <4> QED BY <3>1, <3>3, <4>2 DEF Previous, At
    <3> QED BY <3>2, <3>3, <3>4, <3>5 DEF At
  <2> QED BY <2>1, <2>2
<1> QED BY <1>1, <1>2, SameIndex

\* The index at a trailer: the entries of its block, and those at the one it links to
\* that they do not replace.
LEMMA IndexStep ==
  ASSUME NEW f \in Seq(Cell), ChainedFile(f), NEW w \in Trailers(f, Len(f)), NEW e
  PROVE  e \in ReconstructIndex(f, Len(f), w) <=>
           \/ e \in IndexedEntries(f, w)
           \/ /\ e \in ReconstructIndex(f, Len(f), Previous(f, w))
              /\ \A x \in IndexedEntries(f, w) : ~SameKey(e, x)
<1> DEFINE h == Previous(f, w)
           W == Walk(f, Len(f), w)
           H == Walk(f, Len(f), h)
<1>1. Len(f) \in Nat /\ w \in Nat /\ h \in Nat /\ h < w
  BY TrailerCells, LenProperties DEF ChainedFile
<1>2. \A o \in 0 .. h : TrailerAt(f, Len(f), o) => Previous(f, o) \in 0 .. o
  <2>1. \A o \in Nat : TrailerAt(f, Len(f), o) => o \in Trailers(f, Len(f))
    BY <1>1 DEF Trailers, TrailerAt
  <2>2. \A o \in Trailers(f, Len(f)) : Previous(f, o) \in Nat /\ Previous(f, o) < o /\ o \in Nat
    BY TrailerCells DEF ChainedFile
  <2> QED BY <2>1, <2>2
<1>3. H \subseteq 0 .. h
  BY <1>1, <1>2, WalkWithin
<1>4. W = {w} \cup H
  <2>1. w \in W
    BY DEF Walk, Closed, Trailers
  <2> QED BY <2>1, WalkFrom, WalkBefore
<1>5. H \subseteq Nat /\ \A p \in H : p < w
  BY <1>1, <1>3
<1> HIDE DEF h, W, H
<1>6. ReconstructIndex(f, Len(f), w) = Newest(f, W) /\ ReconstructIndex(f, Len(f), h) = Newest(f, H)
  BY DEF ReconstructIndex, W, H
<1> DEFINE last(o, V) == \A p \in V : p > o => \A x \in IndexedEntries(f, p) : ~SameKey(e, x)
<1>7. /\ e \in Newest(f, W) <=> \E o \in W : e \in IndexedEntries(f, o) /\ last(o, W)
      /\ e \in Newest(f, H) <=> \E o \in H : e \in IndexedEntries(f, o) /\ last(o, H)
  BY DEF Newest
<1>8. \A o \in H : last(o, W) <=> last(o, H) /\ \A x \in IndexedEntries(f, w) : ~SameKey(e, x)
  BY <1>1, <1>4, <1>5
<1>9. last(w, W)
  BY <1>1, <1>4, <1>5
<1> HIDE DEF last
<1> QED BY <1>4, <1>6, <1>7, <1>8, <1>9 DEF h

\* Lookups at a trailer whose block has one entry per column, all for block b.
LEMMA GetStep ==
  ASSUME NEW f \in Seq(Cell), ChainedFile(f), NEW w \in Trailers(f, Len(f)), NEW b,
         \A d \in Cols : f[w].entries[d].col = d /\ f[w].entries[d].block_idx = b,
         NEW c \in Cols
  PROVE  /\ Get(ReconstructIndex(f, Len(f), w), c, b) = {f[w].entries[c]}
         /\ \A a : a # b => Get(ReconstructIndex(f, Len(f), w), c, a)
                             = Get(ReconstructIndex(f, Len(f), Previous(f, w)), c, a)
<1> DEFINE I == ReconstructIndex(f, Len(f), w)
           J == ReconstructIndex(f, Len(f), Previous(f, w))
<1>1. IndexedEntries(f, w) = {f[w].entries[d] : d \in Cols}
  BY TrailerCells DEF IndexedEntries
<1>2. \A e : e \in I <=> \/ \E d \in Cols : e = f[w].entries[d]
                        \/ /\ e \in J
                           /\ \A d \in Cols : ~SameKey(e, f[w].entries[d])
  <2> TAKE e
  <2>1. e \in I <=> \/ e \in IndexedEntries(f, w)
                    \/ e \in J /\ (\A x \in IndexedEntries(f, w) : ~SameKey(e, x))
    BY IndexStep
  <2> HIDE DEF I, J
  <2> QED BY <1>1, <2>1
<1> HIDE DEF I, J
<1>3. Get(I, c, b) = {f[w].entries[c]}
  BY <1>2 DEF Get, SameKey
<1>4. ASSUME NEW a, a # b
      PROVE  Get(I, c, a) = Get(J, c, a)
  BY <1>2, <1>4 DEF Get, SameKey
<1> QED BY <1>3, <1>4 DEF I, J

-----------------------------------------------------------------------------
(***************************************************************************)
(* What a head finds: the first n frames of lg.                            *)
(***************************************************************************)
\* Of block b, column c has one entry, and its token r is the cell x.
Found(f, index, c, b, r, x) ==
  \E e \in Entry : /\ Get(index, c, b) = {e}
                   /\ r < e.byte_len /\ e.byte_offset + e.byte_len <= Len(f)
                   /\ At(f, e.byte_offset + r) = x

\* The length is exact where the last block is not full: open relies on it.
StoredIn(f, index, n, lg) ==
  /\ n <= Len(lg)
  /\ \A c \in Cols, b \in Nat, r \in 0 .. BLOCK_TOKEN_COUNT - 1 :
       Start(b) + r < n => Found(f, index, c, b, r, Token(c, lg[Start(b) + r + 1]))
  /\ \A c \in Cols, b \in Nat, r \in 1 .. BLOCK_TOKEN_COUNT - 1 :
       Start(b) + r = n => \A e \in Get(index, c, b) : e.byte_len = r

Stored(f, h, n, lg) == StoredIn(f, ReconstructIndex(f, Len(f), h), n, lg)

\* lg begins with the first n frames of old.
Keeps(old, lg, n) == n <= Len(lg) /\ \A i \in 1 .. n : lg[i] = old[i]

\* Entry e holds n tokens of column c, of the frames of lg behind the first k.
Written(f, e, c, n, k, lg) ==
  /\ e.byte_len = n /\ e.byte_offset + n <= Len(f)
  /\ \A i \in 1 .. n : f[e.byte_offset + i] = Token(c, lg[k + i])

LEMMA FoundGrows ==
  ASSUME NEW f \in Seq(Cell), NEW g \in Seq(Cell), Extends(f, g), NEW index, NEW c, NEW b,
         NEW r \in Nat, NEW x, Found(f, index, c, b, r, x)
  PROVE  Found(g, index, c, b, r, x)
<1>1. Len(f) \in Nat /\ Len(g) \in Nat /\ Len(f) <= Len(g)
  BY LenProperties DEF Extends
<1>2. PICK e \in Entry : /\ Get(index, c, b) = {e}
                         /\ r < e.byte_len /\ e.byte_offset + e.byte_len <= Len(f)
                         /\ At(f, e.byte_offset + r) = x
  BY DEF Found
<1>3. e.byte_offset \in Nat /\ e.byte_len \in Nat
  BY DEF Entry
<1>4. e.byte_offset + r + 1 \in 1 .. Len(f) /\ e.byte_offset + e.byte_len <= Len(g)
  BY <1>1, <1>2, <1>3
<1>5. At(g, e.byte_offset + r) = x
  BY <1>2, <1>4 DEF At, Extends
<1> QED BY <1>2, <1>4, <1>5 DEF Found

LEMMA StoredGrows ==
  ASSUME NEW f \in Seq(Cell), NEW g \in Seq(Cell), Extends(f, g), ChainedFile(f),
         NEW h \in Nat, Linked(f, h), NEW n \in Nat, NEW old, NEW lg, Keeps(old, lg, n),
         Stored(f, h, n, old)
  PROVE  Stored(g, h, n, lg)
<1> DEFINE J == ReconstructIndex(f, Len(f), h)
<1>1. Len(f) \in Nat /\ (h # 0 => h < Len(f))
  BY LenProperties, TrailerCells DEF Linked
<1>2. ReconstructIndex(g, Len(g), h) = J
  BY <1>1, IndexGrows DEF Linked
<1> HIDE DEF J
<1>3. StoredIn(f, J, n, old)
  BY DEF Stored, J
<1>4. ASSUME NEW c \in Cols, NEW b \in Nat, NEW r \in 0 .. BLOCK_TOKEN_COUNT - 1, Start(b) + r < n
      PROVE  Found(g, J, c, b, r, Token(c, lg[Start(b) + r + 1]))
  <2>0. r \in Nat
    BY BlockSize
  <2>0a. Start(b) \in Nat
    BY Starts
  <2>1. r \in Nat /\ Start(b) + r + 1 \in 1 .. n
    BY <1>4, <2>0, <2>0a
  <2>2. lg[Start(b) + r + 1] = old[Start(b) + r + 1]
    BY <2>1 DEF Keeps
  <2>3. Found(f, J, c, b, r, Token(c, old[Start(b) + r + 1]))
    BY <1>3, <1>4 DEF StoredIn
  <2> QED BY <2>1, <2>2, <2>3, FoundGrows
<1> QED BY <1>2, <1>3, <1>4 DEF Stored, StoredIn, Keeps

\* The store of a head: the block of trailer w holds m tokens of block a, k of which
\* were stored before.
LEMMA StoredCommit ==
  ASSUME NEW f \in Seq(Cell), ChainedFile(f), NEW w \in Trailers(f, Len(f)),
         NEW a \in Nat, NEW m \in 1 .. BLOCK_TOKEN_COUNT, NEW k \in 0 .. m, NEW lg,
         Start(a) + m <= Len(lg), Stored(f, Previous(f, w), Start(a) + k, lg),
         \A c \in Cols : /\ f[w].entries[c].col = c /\ f[w].entries[c].block_idx = a
                        /\ Written(f, f[w].entries[c], c, m, Start(a), lg)
  PROVE  Stored(f, w, Start(a) + m, lg)
<1> DEFINE I == ReconstructIndex(f, Len(f), w)
           J == ReconstructIndex(f, Len(f), Previous(f, w))
<1>1. \A c \in Cols : /\ Get(I, c, a) = {f[w].entries[c]}
                     /\ \A b : b # a => Get(I, c, b) = Get(J, c, b)
  <2>1. \A d \in Cols : f[w].entries[d].col = d /\ f[w].entries[d].block_idx = a
    OBVIOUS
  <2> QED BY <2>1, GetStep
<1>2. StoredIn(f, J, Start(a) + k, lg)
  BY DEF Stored
<1>3. \A c \in Cols : f[w].entries[c] \in Entry
  BY TrailerCells
<1> HIDE DEF I, J
<1>4. m \in Nat /\ k \in Nat /\ k <= m /\ m <= BLOCK_TOKEN_COUNT /\ Start(a) \in Nat
  BY BlockSize, Starts
<1>5. ASSUME NEW c \in Cols, NEW b \in Nat, NEW r \in 0 .. BLOCK_TOKEN_COUNT - 1,
             Start(b) + r < Start(a) + m
      PROVE  Found(f, I, c, b, r, Token(c, lg[Start(b) + r + 1]))
  <2>0. r \in Nat /\ r < BLOCK_TOKEN_COUNT /\ Start(b) \in Nat
    <3>1. r \in Nat /\ r < BLOCK_TOKEN_COUNT
      BY BlockSize
    <3> QED BY <3>1, Starts
  <2>1. CASE b = a
    <3> DEFINE e == f[w].entries[c]
    <3>1. r < m /\ r + 1 \in 1 .. m
      BY <1>4, <1>5, <2>0, <2>1
    <3>2. e \in Entry /\ Written(f, e, c, m, Start(a), lg) /\ Get(I, c, b) = {e}
      BY <1>1, <1>3, <2>1
    <3>3. e.byte_offset \in Nat
      BY <1>3 DEF Entry
    <3> HIDE DEF e
    <3>4. f[e.byte_offset + (r + 1)] = Token(c, lg[Start(a) + (r + 1)])
      BY <3>1, <3>2 DEF Written
    <3>5. e.byte_offset + (r + 1) = e.byte_offset + r + 1 /\ Start(a) + (r + 1) = Start(b) + r + 1
      <4>1. \A x \in Nat : x + (r + 1) = x + r + 1
        BY <2>0
      <4>2. Start(a) = Start(b)
        BY <2>1
      <4> QED BY <1>4, <3>3, <4>1, <4>2
    <3> QED BY <3>1, <3>2, <3>4, <3>5 DEF Found, Written, At
  <2>2. CASE b # a
    <3>0. (a < b => Start(a) + BLOCK_TOKEN_COUNT <= Start(b))
          /\ (b < a => Start(b) + BLOCK_TOKEN_COUNT <= Start(a))
      BY StartsInOrder
    <3>1. b < a
      BY <1>4, <1>5, <2>0, <2>2, <3>0, BlockSize
    <3>2. Start(b) + r < Start(a) + k
      BY <1>4, <2>0, <3>0, <3>1, BlockSize
    <3>3. Found(f, J, c, b, r, Token(c, lg[Start(b) + r + 1]))
      BY <1>2, <3>2 DEF StoredIn
    <3> QED BY <1>1, <2>2, <3>3 DEF Found
  <2> QED BY <2>1, <2>2
<1>6. ASSUME NEW c \in Cols, NEW b \in Nat, NEW r \in 1 .. BLOCK_TOKEN_COUNT - 1,
             Start(b) + r = Start(a) + m, NEW e \in Get(I, c, b)
      PROVE  e.byte_len = r
  <2>1. r \in Nat /\ r < BLOCK_TOKEN_COUNT /\ r > 0 /\ Start(b) \in Nat
    BY BlockSize, Starts
  <2>2. a = b
    <3>0. (a < b => Start(a) + BLOCK_TOKEN_COUNT <= Start(b))
          /\ (b < a => Start(b) + BLOCK_TOKEN_COUNT <= Start(a))
      BY StartsInOrder
    <3>1. ~(a < b) /\ ~(b < a)
      BY <1>4, <1>6, <2>1, <3>0, BlockSize
    <3> QED BY <3>1
  <2>3. r = m
    BY <1>4, <1>6, <2>1, <2>2
  <2> QED BY <1>1, <1>6, <2>2, <2>3 DEF Written
<1> QED BY <1>2, <1>5, <1>6 DEF Stored, StoredIn, I

-----------------------------------------------------------------------------
(***************************************************************************)
(* Who reads back what was appended: a caller who is paced, cuts only      *)
(* frames that are still buffered and does not flush in the middle of a    *)
(* block, and whose process does not die between the stores of a commit.   *)
(***************************************************************************)
Disciplined ==
  Paced /\ Truncates = "buffered" /\ Budget["flush"] = 0 /\ Budget["commit_crash"] = 0

\* s holds the tokens of column c in the n frames of lg behind the first k.
Filled(s, c, n, k, lg) == Len(s) = n /\ \A i \in 1 .. n : s[i] = Token(c, lg[k + i])

\* Batch b, sent and not committed, continues the n published frames of lg. Unless drop
\* has sent it (p is the caller's pc) it fills its block, and block nx is filled next.
Made(b, ep, n, lg, p, nx) ==
  /\ b.batch_epoch = ep
  /\ n = Start(b.block_idx) + b.existing_tokens /\ b.existing_tokens <= b.token_count
  /\ b.token_count \in 1 .. BLOCK_TOKEN_COUNT
  /\ Start(b.block_idx) + b.token_count <= Len(lg)
  /\ \A c \in Cols :
       /\ Filled(b.payloads[c], c, b.token_count, Start(b.block_idx), lg)
       /\ b.entries[c].block_idx = b.block_idx
  /\ \/ p = "ready" /\ b.token_count = BLOCK_TOKEN_COUNT /\ nx = b.block_idx + 1
     \/ p = "joining" /\ Start(b.block_idx) + b.token_count = Len(lg)

\* The buffers hold the frames of lg behind the first nx blocks.
Held(bufs, nx, lg) ==
  /\ bufs[0].token_count <= BLOCK_TOKEN_COUNT
  /\ bufs[0].existing_tokens <= bufs[0].token_count
  /\ Len(lg) = Start(nx) + bufs[0].token_count
  /\ \A c \in Cols : /\ bufs[c].block_idx = nx
                    /\ Filled(bufs[c].data, c, bufs[0].token_count, Start(nx), lg)

OnTheWay(w, q) == w \in Publishing \/ \E i \in 1 .. Len(q) : q[i].cmd = "Flush"

\* What the discipline excludes.
Excluded(b) == b["flush"] = 0 /\ b["commit_crash"] = 0

ControlInv == OrderInv /\ Excluded(budget)

StoredInv == Stored(disk, head, Published, log)

\* The column whose payload is written next.
NextCol(w, c) == IF w = "payload" THEN c ELSE NumColumns

BatchInv ==
  /\ \A i \in 1 .. Len(queue) : queue[i].cmd = "Flush" =>
       Made(queue[i].batch, epoch, Published, log, pc, pending_block_idx)
  /\ wpc \in Publishing =>
       /\ Made(wbatch, epoch, Published, log, pc, pending_block_idx)
       /\ \A c \in Cols : c < NextCol(wpc, wcol) =>
            Written(disk, wbatch.entries[c], c, wbatch.token_count,
                    Start(wbatch.block_idx), log)
  /\ wpc # "payload" => wcol = 0
  /\ wpc = "store" => wvalid = valid
  /\ wpc = "head" => valid = Start(wbatch.block_idx) + wbatch.token_count

\* Once the worker has failed nothing more is published, whatever is buffered.
CallerInv ==
  /\ pc \in {"ready", "load"} /\ wpc # "dead" =>
       /\ Held(buffers, pending_block_idx, log)
       /\ buffers[0].token_count < BLOCK_TOKEN_COUNT
       /\ current_token_count = Len(log)
       /\ IF OnTheWay(wpc, queue)
            THEN buffers[0].existing_tokens = 0
            ELSE valid = Start(pending_block_idx) + buffers[0].existing_tokens
  /\ pc = "joining" /\ wpc # "dead" => OnTheWay(wpc, queue) \/ valid = Len(log)

ContentsInv == ControlInv /\ StoredInv /\ BatchInv /\ CallerInv

-----------------------------------------------------------------------------
\* What is filled or written stays so while the frames are kept and the file grows.
LEMMA FilledKeeps ==
  ASSUME NEW s, NEW c, NEW n \in Nat, NEW k \in Nat, NEW old, NEW lg,
         Keeps(old, lg, k + n), Filled(s, c, n, k, old)
  PROVE  Filled(s, c, n, k, lg)
<1>1. \A i \in 1 .. n : k + i \in 1 .. k + n
  OBVIOUS
<1> QED BY <1>1 DEF Filled, Keeps

LEMMA WrittenKeeps ==
  ASSUME NEW f \in Seq(Cell), NEW g \in Seq(Cell), Extends(f, g),
         NEW e \in Entry, NEW c, NEW n \in Nat, NEW k \in Nat, NEW old, NEW lg,
         Keeps(old, lg, k + n), Written(f, e, c, n, k, old)
  PROVE  Written(g, e, c, n, k, lg)
<1>1. Len(f) \in Nat /\ Len(g) \in Nat /\ Len(f) <= Len(g) /\ e.byte_offset \in Nat
  BY LenProperties DEF Extends, Entry
<1>2. e.byte_len = n /\ e.byte_offset + n <= Len(f)
  BY DEF Written
<1>3. ASSUME NEW i \in 1 .. n
      PROVE  g[e.byte_offset + i] = Token(c, lg[k + i])
  <2>1. k + i \in 1 .. k + n /\ e.byte_offset + i \in 1 .. Len(f)
    BY <1>1, <1>2
  <2>2. lg[k + i] = old[k + i] /\ g[e.byte_offset + i] = f[e.byte_offset + i]
    BY <2>1 DEF Keeps, Extends
  <2> QED BY <2>2 DEF Written
<1> QED BY <1>1, <1>2, <1>3 DEF Written

\* Appending a frame keeps them all; truncating keeps the first ones.
LEMMA AppendKeeps ==
  ASSUME NEW S, NEW lg \in Seq(S), NEW x \in S, NEW n \in Nat, n <= Len(lg)
  PROVE  /\ Keeps(lg, Append(lg, x), n) /\ Len(Append(lg, x)) = Len(lg) + 1
         /\ Append(lg, x)[Len(lg) + 1] = x
<1>1. Len(lg) \in Nat
  BY LenProperties
<1>2. /\ Len(Append(lg, x)) = Len(lg) + 1 /\ Append(lg, x)[Len(lg) + 1] = x
      /\ \A i \in 1 .. Len(lg) : Append(lg, x)[i] = lg[i]
  BY AppendProperties
<1> QED BY <1>1, <1>2 DEF Keeps

LEMMA CutKeeps ==
  ASSUME NEW S, NEW lg \in Seq(S), NEW m \in Nat, NEW n \in Nat, n <= m, n <= Len(lg)
  PROVE  LET cut == SubSeq(lg, 1, Min({m, Len(lg)}))
         IN  /\ Keeps(lg, cut, n) /\ cut \in Seq(S)
             /\ Len(cut) = IF m <= Len(lg) THEN m ELSE Len(lg)
<1> DEFINE k == Min({m, Len(lg)})
           cut == SubSeq(lg, 1, k)
<1>1. Len(lg) \in Nat
  BY LenProperties
<1>2. k = (IF m <= Len(lg) THEN m ELSE Len(lg)) /\ k \in Nat /\ k <= Len(lg) /\ n <= k
  BY <1>1, MinPair
<1> HIDE DEF k
<1>3. \A i \in 1 .. k : lg[i] \in S
  BY <1>1, <1>2, ElementOfSeq
<1>4. cut \in Seq(S) /\ Len(cut) = k /\ \A i \in 1 .. k : cut[i] = lg[i]
  BY <1>2, <1>3, SubSeqProperties
<1>5. Keeps(lg, cut, n)
  BY <1>2, <1>4 DEF Keeps
<1> QED BY <1>2, <1>4, <1>5 DEF k

-----------------------------------------------------------------------------
(***************************************************************************)
(* What the discipline excludes.                                           *)
(***************************************************************************)
LEMMA SpendExcluded ==
  ASSUME TypeOK, Excluded(budget), NEW k \in BudgetKinds, Spend(k)
  PROVE  k # "flush" /\ k # "commit_crash" /\ Excluded(budget')
<1>1. budget \in [BudgetKinds -> Nat] /\ "flush" \in BudgetKinds /\ "commit_crash" \in BudgetKinds
  BY DEF TypeOK, BudgetKinds
<1>2. budget[k] > 0 /\ budget' = [budget EXCEPT ![k] = budget[k] - 1]
  BY DEF Spend
<1> QED BY <1>1, <1>2 DEF Excluded

LEMMA InitControl == Disciplined /\ Init => ControlInv
<1> SUFFICES ASSUME Disciplined, Init PROVE ControlInv
  OBVIOUS
<1>1. budget = Budget
  BY DEF Init
<1> QED BY <1>1, InitCount DEF ControlInv, CountInv, Disciplined, Excluded

LEMMA StepControl == Disciplined /\ TypeInv /\ ControlInv /\ [Next]_vars => ControlInv'
<1> SUFFICES ASSUME Disciplined, TypeInv, ControlInv, [Next]_vars PROVE ControlInv'
  OBVIOUS
<1>1. OrderInv'
  BY StepOrder DEF ControlInv, Disciplined, NothingStale
<1>2. UNCHANGED budget \/ \E k \in BudgetKinds : Spend(k)
  <2>1. CASE Caller
    BY <2>1 DEF Caller, Append_frame, Flush_pending, Truncate_epoch, Truncate_committed,
       Truncate_store, Truncate_pending, Drop, Join, Open, BudgetKinds
  <2>2. CASE Worker \/ Worker_fails
    BY <2>2 DEF Worker, Worker_start, Worker_receive, Worker_payload, Worker_index,
       Worker_trailer, Worker_check, Worker_load, Worker_store, Worker_head, Worker_fails,
       WorkerDies, BudgetKinds
  <2>3. CASE Crash
    BY <2>3 DEF Crash, BudgetKinds
  <2>4. CASE UNCHANGED vars
    BY <2>4 DEF vars
  <2> QED BY <2>1, <2>2, <2>3, <2>4 DEF Next
<1>3. Excluded(budget')
  BY <1>2, SpendExcluded DEF ControlInv, TypeInv
<1> QED BY <1>1, <1>3 DEF ControlInv

-----------------------------------------------------------------------------
(***************************************************************************)
(* The contents.                                                           *)
(***************************************************************************)
\* What every step starts from.
AllInv == TypeInv /\ ChainInv /\ IdsInv /\ PacedInv /\ ContentsInv

RestInv == StoredInv /\ BatchInv /\ CallerInv

LEMMA PublishedNat == TypeInv => Published \in Nat
BY DEF TypeInv, TypeOK, Published

\* As long as the head and the published count stay, so does what is stored.
LEMMA StoredStays ==
  ASSUME AllInv, [Next]_vars, head' = head, Published' = Published, Keeps(log, log', Published)
  PROVE  StoredInv'
<1>1. /\ disk \in Seq(Cell) /\ disk' \in Seq(Cell) /\ Extends(disk, disk')
      /\ head \in Nat /\ Published \in Nat /\ ChainedFile(disk) /\ Linked(disk, head)
      /\ Stored(disk, head, Published, log)
  BY FileGrows, PublishedNat DEF AllInv, ChainInv, TypeInv, TypeOK, ContentsInv, StoredInv
<1>2. Stored(disk', head, Published, log')
  BY <1>1, StoredGrows
<1> QED BY <1>2 DEF StoredInv

LEMMA KeepsSame ==
  ASSUME AllInv
  PROVE  Keeps(log, log, Published)
BY DEF AllInv, ContentsInv, StoredInv, Stored, StoredIn, Keeps

\* A batch is still what it was when more frames have been accepted.
LEMMA MadeStays ==
  ASSUME NEW b \in FlushBatch, NEW ep, NEW n, NEW old, NEW lg, NEW nx,
         Made(b, ep, n, old, "ready", nx), Keeps(old, lg, Start(b.block_idx) + b.token_count)
  PROVE  Made(b, ep, n, lg, "ready", nx)
<1>1. Start(b.block_idx) \in Nat /\ b.token_count \in Nat
  BY Starts DEF FlushBatch
<1>2. \A c \in Cols : Filled(b.payloads[c], c, b.token_count, Start(b.block_idx), lg)
  BY <1>1, FilledKeeps DEF Made
<1> QED BY <1>2 DEF Made, Keeps

\* A batch made from buffers that hold what has been accepted.
LEMMA BatchMade ==
  ASSUME TypeInv, NEW bufs, SoundBuffers(bufs), NEW lg, Held(bufs, pending_block_idx, lg),
         bufs[0].token_count > 0, NEW p,
         p = "joining" \/ (p = "ready" /\ bufs[0].token_count = BLOCK_TOKEN_COUNT),
         NEW n, n = Start(pending_block_idx) + bufs[0].existing_tokens
  PROVE  Made(BatchOf(bufs), epoch, n, lg, p, pending_block_idx + 1)
<1> DEFINE b == BatchOf(bufs)
<1>1. /\ b.batch_epoch = epoch /\ b.block_idx = pending_block_idx
      /\ b.token_count = bufs[0].token_count /\ b.existing_tokens = bufs[0].existing_tokens
      /\ \A c \in Cols : b.payloads[c] = bufs[c].data /\ b.entries[c].block_idx = bufs[c].block_idx
  BY DEF BatchOf
<1>2. bufs[0].token_count \in Nat /\ bufs[0].existing_tokens \in Nat /\ pending_block_idx \in Nat
  BY ColsNat DEF SoundBuffers, ColumnBuffer, TypeInv, TypeOK
<1>3. bufs[0].token_count \in 1 .. BLOCK_TOKEN_COUNT /\ Start(pending_block_idx) \in Nat
  BY <1>2, BlockSize, Starts DEF Held
<1> HIDE DEF b
<1>4. Start(b.block_idx) + b.token_count = Len(lg) /\ Len(lg) \in Nat
  BY <1>1, <1>2, <1>3 DEF Held
<1>5. Start(b.block_idx) + b.token_count <= Len(lg)
  BY <1>4
<1>6. \A c \in Cols : /\ Filled(b.payloads[c], c, b.token_count, Start(b.block_idx), lg)
                     /\ b.entries[c].block_idx = b.block_idx
  BY <1>1 DEF Held
<1>7. \/ p = "ready" /\ b.token_count = BLOCK_TOKEN_COUNT /\ pending_block_idx + 1 = b.block_idx + 1
      \/ p = "joining" /\ Start(b.block_idx) + b.token_count = Len(lg)
  BY <1>1, <1>4
<1>8. b.existing_tokens <= b.token_count /\ n = Start(b.block_idx) + b.existing_tokens
  BY <1>1 DEF Held
<1> QED BY <1>1, <1>3, <1>5, <1>6, <1>7, <1>8 DEF Made, b

\* Between batches the worker holds none.
LEMMA NoBatchInv ==
  ASSUME wpc' \notin Publishing, wcol' = 0, \A i \in 1 .. Len(queue') : queue'[i].cmd # "Flush"
  PROVE  BatchInv' /\ ~OnTheWay(wpc', queue')
BY DEF BatchInv, OnTheWay, Publishing

\* flush_block of a caller whose worker is alive.
LEMMA FlushSentContents ==
  ASSUME Paced, AllInv, NEW bufs, SoundBuffers(bufs), NEW tail \in {<<>>, <<Stop>>},
         FlushSent(bufs, tail), log' \in Seq(Frames),
         Held(bufs, pending_block_idx, log'),
         valid = Start(pending_block_idx) + bufs[0].existing_tokens,
         UNCHANGED <<disk, epoch, valid, head, worker>>,
         pc' = "joining" \/ (pc' = "ready" /\ bufs[0].token_count = BLOCK_TOKEN_COUNT)
  PROVE  /\ BatchInv' /\ OnTheWay(wpc', queue')
         /\ pc' = "ready" => /\ Held(buffers', pending_block_idx', log')
                             /\ buffers'[0].token_count = 0 /\ buffers'[0].existing_tokens = 0
<1>1. /\ queue = <<>> /\ wpc \in {"start", "idle"} /\ bufs[0].token_count > 0
      /\ pending_block_idx' = pending_block_idx + 1
      /\ buffers' = [c \in Cols |-> Reset(bufs[c])]
  BY DEF FlushSent, Quiescent, ReceiverAlive
<1>2. FlushBlock(bufs, tail)
  BY DEF FlushBlock
<1>3. /\ \A i \in 1 .. Len(queue') :
           \/ i = 1 /\ queue'[i] = [cmd |-> "Flush", batch |-> BatchOf(bufs)]
           \/ queue'[i] = Stop
      /\ 1 \in 1 .. Len(queue') /\ queue'[1] = [cmd |-> "Flush", batch |-> BatchOf(bufs)]
  BY <1>2, FlushQueue DEF AllInv
<1>4. TypeInv /\ Published = valid /\ Published' = valid
  BY <1>1 DEF AllInv, Published, worker
<1>5. Made(BatchOf(bufs), epoch, valid, log', pc', pending_block_idx + 1)
  BY <1>1, <1>4, BatchMade
<1> HIDE DEF BatchOf
<1>6. BatchInv'
  <2>1. \A i \in 1 .. Len(queue') : queue'[i].cmd = "Flush" =>
          Made(queue'[i].batch, epoch', Published', log', pc', pending_block_idx')
    BY <1>1, <1>3, <1>4, <1>5 DEF Stop
  <2>2. wpc' \notin Publishing /\ wcol' = 0 /\ wpc' \notin {"store", "head"}
    BY <1>1 DEF AllInv, ContentsInv, BatchInv, Publishing, worker
  <2> QED BY <2>1, <2>2 DEF BatchInv
<1>7. OnTheWay(wpc', queue')
  BY <1>3 DEF OnTheWay
<1>8. ASSUME pc' = "ready"
      PROVE  /\ Held(buffers', pending_block_idx', log')
             /\ buffers'[0].token_count = 0 /\ buffers'[0].existing_tokens = 0
  <2>1. \A c \in Cols : /\ buffers'[c].block_idx = pending_block_idx + 1
                       /\ buffers'[c].data = <<>> /\ buffers'[c].token_count = 0
                       /\ buffers'[c].existing_tokens = 0
    BY <1>1 DEF Reset, EmptyBuffer, Held
  <2>2. Len(log') = Start(pending_block_idx + 1) + 0
    <3>1. pending_block_idx \in Nat /\ Start(pending_block_idx) \in Nat
      BY <1>4, Starts DEF TypeInv, TypeOK
    <3>2. Len(log') = Start(pending_block_idx) + BLOCK_TOKEN_COUNT
      BY <1>8 DEF Held
    <3>3. Start(pending_block_idx + 1) = Start(pending_block_idx) + BLOCK_TOKEN_COUNT
      BY <3>1, StartNext
    <3> QED BY <3>1, <3>2, <3>3, BlockSize
  <2>3. 0 \in Cols /\ 0 <= BLOCK_TOKEN_COUNT
    BY ColsNat, BlockSize
  <2>4. \A c \in Cols : Filled(buffers'[c].data, c, 0, Start(pending_block_idx'), log')
    BY <2>1 DEF Filled
  <2> QED BY <1>1, <2>1, <2>2, <2>3, <2>4 DEF Held
<1> QED BY <1>6, <1>7, <1>8

LEMMA InitRest == Disciplined /\ Init => RestInv
<1> SUFFICES ASSUME Init PROVE RestInv
  OBVIOUS
<1>1. /\ head = 0 /\ Published = 0 /\ log = <<>> /\ Len(log) = 0 /\ pc = "ready" /\ wpc = "start"
      /\ Len(queue) = 0 /\ valid = 0 /\ pending_block_idx = 0 /\ current_token_count = 0
      /\ wcol = 0 /\ buffers = [c \in Cols |-> EmptyBuffer(0)]
  BY DEF Init, Published, NewBuffers
<1>2. \A b \in Nat : Start(b) \in Nat
  BY Starts
<1>3. Start(0) = 0
  BY BlockSize DEF Start
<1>4. StoredInv
  <2>1. \A b \in Nat, r \in 0 .. BLOCK_TOKEN_COUNT - 1 : ~(Start(b) + r < 0)
    BY <1>2, BlockSize
  <2>2. \A b \in Nat, r \in 1 .. BLOCK_TOKEN_COUNT - 1 : ~(Start(b) + r = 0)
    BY <1>2, BlockSize
  <2> QED BY <1>1, <2>1, <2>2 DEF StoredInv, Stored, StoredIn
<1>5. BatchInv
  BY <1>1 DEF BatchInv, Publishing
<1>6. CallerInv
  <2>1. \A c \in Cols : /\ buffers[c].block_idx = 0 /\ buffers[c].token_count = 0
                       /\ buffers[c].existing_tokens = 0 /\ buffers[c].data = <<>>
    BY <1>1 DEF EmptyBuffer
  <2>2. \A c \in Cols : Filled(buffers[c].data, c, 0, Start(0), log)
    BY <2>1 DEF Filled
  <2>3. Held(buffers, 0, log)
    BY <1>1, <1>3, <2>1, <2>2, ColsNat, BlockSize DEF Held
  <2> QED BY <1>1, <1>3, <2>1, <2>3, ColsNat, BlockSize DEF CallerInv, OnTheWay, Publishing
<1> QED BY <1>4, <1>5, <1>6 DEF RestInv

-----------------------------------------------------------------------------
(***************************************************************************)
(* The caller's steps.                                                     *)
(***************************************************************************)
\* A frame goes into buffers that are not full.
LEMMA HeldAppend ==
  ASSUME NEW bufs, SoundBuffers(bufs), NEW nx \in Nat, NEW lg \in Seq(Frames), NEW f \in Frames,
         Held(bufs, nx, lg), bufs[0].token_count < BLOCK_TOKEN_COUNT
  PROVE  Held([c \in Cols |-> [bufs[c] EXCEPT !.data = Append(@, Token(c, f)),
                                             !.token_count = @ + 1]], nx, Append(lg, f))
<1> DEFINE new == [c \in Cols |-> [bufs[c] EXCEPT !.data = Append(@, Token(c, f)),
                                                 !.token_count = @ + 1]]
           k == bufs[0].token_count
<1>1. 0 \in Cols /\ bufs \in [Cols -> ColumnBuffer]
  BY ColsNat DEF SoundBuffers
<1>2. \A c \in Cols : /\ new[c].token_count = bufs[c].token_count + 1
                     /\ new[c].existing_tokens = bufs[c].existing_tokens
                     /\ new[c].block_idx = bufs[c].block_idx
                     /\ new[c].data = Append(bufs[c].data, Token(c, f))
  BY <1>1 DEF ColumnBuffer
<1> HIDE DEF new
<1>3. k \in Nat /\ bufs[0].existing_tokens \in Nat
  BY <1>1 DEF ColumnBuffer
<1>4. /\ Keeps(lg, Append(lg, f), Len(lg)) /\ Len(Append(lg, f)) = Len(lg) + 1
      /\ Append(lg, f)[Len(lg) + 1] = f /\ Len(lg) \in Nat
  BY AppendKeeps, LenProperties
<1>5. Len(lg) = Start(nx) + k /\ Start(nx) \in Nat
  BY Starts DEF Held
<1>6. ASSUME NEW c \in Cols
      PROVE  Filled(new[c].data, c, k + 1, Start(nx), Append(lg, f))
  <2>1. bufs[c].data \in Seq(ColumnToken(c)) /\ Token(c, f) \in ColumnToken(c)
    BY DEF SoundBuffers, Token, ColumnToken, Frames
  <2>2. /\ Len(new[c].data) = Len(bufs[c].data) + 1
        /\ new[c].data[Len(bufs[c].data) + 1] = Token(c, f)
        /\ \A i \in 1 .. Len(bufs[c].data) : new[c].data[i] = bufs[c].data[i]
    BY <1>2, <2>1, AppendProperties
  <2>3. Filled(bufs[c].data, c, k, Start(nx), lg)
    BY DEF Held
  <2>4. Filled(bufs[c].data, c, k, Start(nx), Append(lg, f))
    BY <1>3, <1>4, <1>5, <2>3, FilledKeeps
  <2>5. ASSUME NEW i \in 1 .. k + 1
        PROVE  new[c].data[i] = Token(c, Append(lg, f)[Start(nx) + i])
    <3>1. CASE i = k + 1
      <4>1. new[c].data[k + 1] = Token(c, f)
        BY <2>2, <2>3 DEF Filled
      <4>2. Start(nx) + i = Len(lg) + 1
        BY <1>3, <1>5, <3>1
      <4>3. Append(lg, f)[Start(nx) + i] = f
        BY <1>4, <4>2
      <4> QED BY <3>1, <4>1, <4>3
    <3>2. CASE i # k + 1
      <4>1. i \in 1 .. k
        BY <1>3, <3>2
      <4> QED BY <2>2, <2>4, <4>1 DEF Filled
    <3> QED BY <3>1, <3>2
  <2> QED BY <2>2, <2>3, <2>5 DEF Filled
<1>7. Len(Append(lg, f)) = Start(nx) + (k + 1)
  BY <1>3, <1>4, <1>5
<1>8. k + 1 <= BLOCK_TOKEN_COUNT /\ bufs[0].existing_tokens <= k + 1
  BY <1>3, BlockSize DEF Held
<1> QED BY <1>1, <1>2, <1>6, <1>7, <1>8 DEF Held, new

\* A worker that has failed holds nothing, and nothing is queued for it.
LEMMA DeadInv ==
  ASSUME AllInv, [Next]_vars, wpc = "dead", wpc' = "dead", wcol' = wcol, UNCHANGED queue,
         UNCHANGED <<head, valid>>, Keeps(log, log', Published)
  PROVE  RestInv'
<1>1. \A i \in 1 .. Len(queue') : queue'[i].cmd # "Flush"
  BY DEF AllInv, PacedInv
<1>2. wcol' = 0
  BY DEF AllInv, ContentsInv, BatchInv
<1>3. BatchInv'
  BY <1>1, <1>2, NoBatchInv DEF Publishing
<1>4. StoredInv'
  BY StoredStays DEF Published
<1>5. CallerInv'
  BY DEF CallerInv
<1> QED BY <1>3, <1>4, <1>5 DEF RestInv

\* What is on its way stays as it is while the caller buffers frames.
LEMMA BatchStays ==
  ASSUME AllInv, pc = "ready", pc' = "ready", Keeps(log, log', Len(log)),
         UNCHANGED <<disk, epoch, valid, pending_block_idx, queue, worker>>
  PROVE  BatchInv' /\ (OnTheWay(wpc', queue') <=> OnTheWay(wpc, queue))
<1> DEFINE n == Published
<1>1. UNCHANGED <<wpc, wbatch, wcol, wvalid, disk, valid, epoch, pending_block_idx, queue>>
  BY DEF worker
<1>2. Published' = n
  BY <1>1 DEF Published
<1> HIDE DEF n
<1>3. BatchInv /\ TypeOK /\ Len(log) \in Nat
  BY LenProperties DEF AllInv, ContentsInv, TypeInv, TypeOK
<1>4. ASSUME NEW b \in FlushBatch, Made(b, epoch, n, log, "ready", pending_block_idx)
      PROVE  /\ Made(b, epoch, n, log', "ready", pending_block_idx)
             /\ Keeps(log, log', Start(b.block_idx) + b.token_count)
             /\ b.token_count \in Nat /\ Start(b.block_idx) \in Nat
  <2>1. b.token_count \in Nat /\ Start(b.block_idx) \in Nat
    BY Starts DEF FlushBatch
  <2>2. Start(b.block_idx) + b.token_count <= Len(log)
    BY <1>4 DEF Made
  <2>3. Keeps(log, log', Start(b.block_idx) + b.token_count)
    <3> DEFINE m == Start(b.block_idx) + b.token_count
    <3>1. m \in Nat /\ m <= Len(log)
      BY <2>1, <2>2
    <3> HIDE DEF m
    <3>2. \A i \in 1 .. m : i \in 1 .. Len(log)
      BY <1>3, <3>1
    <3>3. Len(log) <= Len(log') /\ \A i \in 1 .. Len(log) : log'[i] = log[i]
      BY DEF Keeps
    <3>4. Len(log') \in Nat
      BY <1>3, <3>3 DEF Keeps
    <3>5. m <= Len(log')
      BY <1>3, <3>1, <3>3, <3>4
    <3> QED BY <3>2, <3>3, <3>5 DEF Keeps, m
  <2> QED BY <1>4, <2>1, <2>3, MadeStays
<1>5. ASSUME NEW i \in 1 .. Len(queue), queue[i].cmd = "Flush"
      PROVE  Made(queue[i].batch, epoch, n, log', "ready", pending_block_idx)
  <2>1. queue[i] \in FlushCommand
    BY <1>3, ElementOfSeq DEF TypeOK
  <2>2. queue[i].batch \in FlushBatch
    BY <1>5, <2>1 DEF FlushCommand
  <2> QED BY <1>3, <1>4, <1>5, <2>2 DEF BatchInv, n
<1>6. ASSUME wpc \in Publishing
      PROVE  /\ Made(wbatch, epoch, n, log', "ready", pending_block_idx)
             /\ \A c \in Cols : c < NextCol(wpc, wcol) =>
                  Written(disk, wbatch.entries[c], c, wbatch.token_count,
                          Start(wbatch.block_idx), log')
  <2>1. wbatch \in FlushBatch /\ disk \in Seq(Cell) /\ Len(disk) \in Nat
    BY <1>3, LenProperties DEF TypeOK
  <2>2. Extends(disk, disk) /\ \A c \in Cols : wbatch.entries[c] \in Entry
    BY <2>1 DEF Extends, FlushBatch
  <2>3. Made(wbatch, epoch, n, log, "ready", pending_block_idx)
    BY <1>3, <1>6 DEF BatchInv, n
  <2>4. /\ Made(wbatch, epoch, n, log', "ready", pending_block_idx)
        /\ Keeps(log, log', Start(wbatch.block_idx) + wbatch.token_count)
        /\ wbatch.token_count \in Nat /\ Start(wbatch.block_idx) \in Nat
    BY <1>4, <2>1, <2>3
  <2>5. \A c \in Cols : c < NextCol(wpc, wcol) =>
          Written(disk, wbatch.entries[c], c, wbatch.token_count, Start(wbatch.block_idx), log)
    BY <1>3, <1>6 DEF BatchInv
  <2> QED BY <2>1, <2>2, <2>4, <2>5, WrittenKeeps
<1>7. OnTheWay(wpc', queue') <=> OnTheWay(wpc, queue)
  BY <1>1
<1>8. /\ \A i \in 1 .. Len(queue') : queue'[i].cmd = "Flush" =>
           Made(queue'[i].batch, epoch', n, log', pc', pending_block_idx')
      /\ wpc' \in Publishing =>
           /\ Made(wbatch', epoch', n, log', pc', pending_block_idx')
           /\ \A c \in Cols : c < NextCol(wpc', wcol') =>
                Written(disk', wbatch'.entries[c], c, wbatch'.token_count,
                        Start(wbatch'.block_idx), log')
  BY <1>1, <1>5, <1>6
<1>9. /\ wpc' # "payload" => wcol' = 0
      /\ wpc' = "store" => wvalid' = valid'
      /\ wpc' = "head" => valid' = Start(wbatch'.block_idx) + wbatch'.token_count
  BY <1>1, <1>3 DEF BatchInv
<1> QED BY <1>2, <1>7, <1>8, <1>9 DEF BatchInv

LEMMA AppendContents ==
  ASSUME Disciplined, AllInv, [Next]_vars, Append_frame
  PROVE  RestInv'
<1> DEFINE f == NextFrame
           bufs == [c \in Cols |-> [buffers[c] EXCEPT !.data = Append(@, Token(c, f)),
                                                     !.token_count = @ + 1]]
<1>1. /\ pc = "ready" /\ pc' = "ready" /\ current_token_count' = current_token_count + 1
      /\ UNCHANGED <<disk, epoch, valid, head, worker>>
      /\ \/ /\ bufs[0].token_count # BLOCK_TOKEN_COUNT
            /\ buffers' = bufs /\ log' = Append(log, f)
            /\ UNCHANGED <<queue, next_chunk_id, pending_block_idx>>
         \/ bufs[0].token_count = BLOCK_TOKEN_COUNT /\ FlushSent(bufs, <<>>) /\ log' = Append(log, f)
         \/ bufs[0].token_count = BLOCK_TOKEN_COUNT /\ FlushLost(bufs) /\ UNCHANGED log
  BY DEF Append_frame, Full, file
<1>2. UNCHANGED <<wpc, wcol>> /\ TypeInv /\ Paced /\ ContentsInv
  BY <1>1 DEF worker, AllInv, Disciplined
<1>3. f \in Frames /\ SoundBuffers(bufs) /\ SoundBuffers(buffers)
  BY <1>2, AppendedBuffers, TypeInvBuffers
<1>4. log \in Seq(Frames) /\ Published \in Nat /\ Published <= Len(log) /\ Len(log) \in Nat
  BY <1>2, PublishedNat, LenProperties
     DEF TypeInv, TypeOK, ContentsInv, StoredInv, Stored, StoredIn
<1>5. /\ Keeps(log, Append(log, f), Published) /\ Keeps(log, Append(log, f), Len(log))
      /\ Len(Append(log, f)) = Len(log) + 1 /\ Append(log, f) \in Seq(Frames)
  <2> HIDE DEF f, Published
  <2>1. f \in Frames
    BY <1>3
  <2>2. Keeps(log, Append(log, f), Published) /\ Len(Append(log, f)) = Len(log) + 1
    BY <1>4, <2>1, AppendKeeps
  <2>3. Keeps(log, Append(log, f), Len(log))
    BY <1>4, <2>1, AppendKeeps
  <2>4. Append(log, f) \in Seq(Frames)
    BY <1>4, <2>1, AppendProperties
  <2> QED BY <2>2, <2>3, <2>4
<1>6. Keeps(log, log', Published)
  BY <1>1, <1>5, KeepsSame
<1>6a. bufs[0].token_count = buffers[0].token_count + 1
       /\ bufs[0].existing_tokens = buffers[0].existing_tokens
       /\ buffers[0].token_count \in Nat /\ pending_block_idx \in Nat
  BY <1>2, ColsNat DEF TypeInv, TypeOK, ColumnBuffer
<1>7. CASE wpc = "dead"
  <2>1. UNCHANGED queue
    BY <1>1, <1>7 DEF FlushSent, FlushLost, ReceiverAlive
  <2> QED BY <1>1, <1>2, <1>6, <1>7, <2>1, DeadInv
<1>8. CASE wpc # "dead"
  <2>1. /\ Held(buffers, pending_block_idx, log) /\ buffers[0].token_count < BLOCK_TOKEN_COUNT
        /\ current_token_count = Len(log)
        /\ IF OnTheWay(wpc, queue)
             THEN buffers[0].existing_tokens = 0
             ELSE valid = Start(pending_block_idx) + buffers[0].existing_tokens
    BY <1>1, <1>2, <1>8 DEF ContentsInv, CallerInv
  <2>2. Held(bufs, pending_block_idx, Append(log, f))
    BY <1>3, <1>4, <1>6a, <2>1, HeldAppend
  <2>3. ReceiverAlive
    BY <1>1, <1>2, <1>8 DEF ReceiverAlive, ContentsInv, ControlInv, OrderInv, Excluded
  <2>4. log' = Append(log, f)
    BY <1>1, <2>3 DEF FlushLost
  <2>5. StoredInv'
    BY <1>1, <1>2, <1>6, StoredStays DEF Published, worker
  <2> HIDE DEF bufs, f
  <2>6. CASE /\ bufs[0].token_count # BLOCK_TOKEN_COUNT /\ buffers' = bufs
             /\ UNCHANGED <<queue, pending_block_idx>>
    <3>1. BatchInv' /\ (OnTheWay(wpc', queue') <=> OnTheWay(wpc, queue))
      BY <1>1, <1>5, <2>4, <2>6, BatchStays
    <3>2. Held(buffers', pending_block_idx', log')
      BY <2>2, <2>4, <2>6
    <3>3. buffers'[0].token_count < BLOCK_TOKEN_COUNT
      BY <1>6a, <2>1, <2>6, BlockSize
    <3>4. current_token_count' = Len(log')
      BY <1>1, <1>5, <2>1, <2>4
    <3>5. IF OnTheWay(wpc', queue')
            THEN buffers'[0].existing_tokens = 0
            ELSE valid' = Start(pending_block_idx') + buffers'[0].existing_tokens
      BY <1>1, <1>6a, <2>1, <2>6, <3>1
    <3> QED BY <1>1, <2>5, <3>1, <3>2, <3>3, <3>4, <3>5 DEF RestInv, CallerInv
  <2>7. CASE bufs[0].token_count = BLOCK_TOKEN_COUNT /\ FlushSent(bufs, <<>>)
    <3>1. queue = <<>> /\ wpc \in {"start", "idle"}
      BY <1>2, <2>7 DEF FlushSent, Quiescent, ReceiverAlive
    <3>2. ~OnTheWay(wpc, queue)
      <4>1. Len(queue) = 0
        BY <3>1
      <4> QED BY <3>1, <4>1 DEF OnTheWay, Publishing
    <3>3. valid = Start(pending_block_idx) + bufs[0].existing_tokens
      BY <1>6a, <2>1, <3>2
    <3>4. log' \in Seq(Frames) /\ Held(bufs, pending_block_idx, log')
      BY <1>5, <2>2, <2>4
    <3>5. /\ BatchInv' /\ OnTheWay(wpc', queue')
          /\ Held(buffers', pending_block_idx', log')
          /\ buffers'[0].token_count = 0 /\ buffers'[0].existing_tokens = 0
      BY <1>1, <1>2, <1>3, <2>7, <3>3, <3>4, FlushSentContents
    <3>6. current_token_count' = Len(log')
      BY <1>1, <1>5, <2>1, <2>4
    <3>7. buffers'[0].token_count < BLOCK_TOKEN_COUNT
      BY <3>5, BlockSize
    <3> QED BY <1>1, <2>5, <3>5, <3>6, <3>7 DEF RestInv, CallerInv
  <2> QED BY <1>1, <2>3, <2>6, <2>7 DEF FlushLost
<1> QED BY <1>7, <1>8

\* The counter of the epoch moves while nothing is on its way.
LEMMA TruncateEpochContents ==
  ASSUME Disciplined, AllInv, [Next]_vars, NEW count, Truncate_epoch(count)
  PROVE  RestInv'
<1>1. /\ Quiescent /\ pc' = "load" /\ pc = "ready"
      /\ UNCHANGED <<disk, valid, head, buffers, current_token_count, pending_block_idx, queue, log>>
      /\ UNCHANGED <<wpc, wcol, wvalid, wbatch>>
  BY DEF Disciplined, Truncate_epoch, writer, worker
<1>2. StoredInv'
  BY <1>1, StoredStays, KeepsSame DEF Published
<1>3. wpc' \notin Publishing /\ wcol' = 0 /\ Len(queue') = 0
  BY <1>1 DEF Quiescent, Publishing, AllInv, ContentsInv, BatchInv
<1>4. BatchInv' /\ ~OnTheWay(wpc', queue')
  BY <1>3, NoBatchInv
<1>5. CallerInv'
  BY <1>1 DEF AllInv, ContentsInv, CallerInv
<1> QED BY <1>2, <1>4, <1>5 DEF RestInv

\* Frames that are buffered, and not in the file, are cut off the end.
LEMMA HeldCut ==
  ASSUME NEW bufs, SoundBuffers(bufs), NEW nx \in Nat, NEW old, NEW lg, Held(bufs, nx, old),
         NEW keep \in Nat, bufs[0].existing_tokens <= keep, keep <= bufs[0].token_count,
         Keeps(old, lg, Start(nx) + keep), Len(lg) = Start(nx) + keep
  PROVE  /\ Held([c \in Cols |-> KeepTokens(bufs[c], keep)], nx, lg)
         /\ KeepTokens(bufs[0], keep).token_count = keep
         /\ KeepTokens(bufs[0], keep).existing_tokens = bufs[0].existing_tokens
<1> DEFINE new == [c \in Cols |-> KeepTokens(bufs[c], keep)]
           k == bufs[0].token_count
<1>1. 0 \in Cols /\ bufs \in [Cols -> ColumnBuffer] /\ Start(nx) \in Nat
  BY ColsNat, Starts DEF SoundBuffers
<1>2. k \in Nat /\ bufs[0].existing_tokens \in Nat
  BY <1>1 DEF ColumnBuffer
<1>3. \A c \in Cols : /\ KeepTokens(bufs[c], keep).token_count = keep
                     /\ KeepTokens(bufs[c], keep).block_idx = bufs[c].block_idx
                     /\ KeepTokens(bufs[c], keep).existing_tokens = Min({bufs[c].existing_tokens, keep})
                     /\ KeepTokens(bufs[c], keep).data
                          = SubSeq(bufs[c].data, 1, Min({keep, Len(bufs[c].data)}))
  BY <1>1 DEF KeepTokens, ColumnBuffer
<1>4. Min({bufs[0].existing_tokens, keep}) = bufs[0].existing_tokens
  BY <1>2, MinPair
<1>5. ASSUME NEW c \in Cols
      PROVE  Filled(KeepTokens(bufs[c], keep).data, c, keep, Start(nx), lg)
  <2> DEFINE s == bufs[c].data
             cut == SubSeq(s, 1, keep)
  <2>1. s \in Seq(ColumnToken(c)) /\ Len(s) = k /\ \A i \in 1 .. k : s[i] = Token(c, old[Start(nx) + i])
    BY DEF SoundBuffers, Held, Filled
  <2>2. Min({keep, Len(s)}) = keep
    BY <1>2, <2>1, MinPair
  <2>3. KeepTokens(bufs[c], keep).data = cut
    BY <1>3, <2>2
  <2> HIDE DEF s
  <2>4. \A i \in 1 .. keep : i \in 1 .. k /\ s[i] \in ColumnToken(c)
    BY <1>2, <2>1, ElementOfSeq
  <2>5. Len(cut) = keep /\ \A i \in 1 .. keep : cut[i] = s[i]
    BY <2>1, <2>4, SubSeqProperties
  <2>6. \A i \in 1 .. keep : Start(nx) + i \in 1 .. Start(nx) + keep
    BY <1>1
  <2>7. \A i \in 1 .. keep : lg[Start(nx) + i] = old[Start(nx) + i]
    BY <2>6 DEF Keeps
  <2> QED BY <2>1, <2>3, <2>4, <2>5, <2>7 DEF Filled
<1>6. keep <= BLOCK_TOKEN_COUNT
  BY <1>2, BlockSize DEF Held
<1>7. \A c \in Cols : bufs[c].block_idx = nx
  BY DEF Held
<1> HIDE DEF KeepTokens
<1>8. Held(new, nx, lg)
  BY <1>1, <1>3, <1>4, <1>5, <1>6, <1>7 DEF Held
<1> QED BY <1>1, <1>3, <1>4, <1>8

LEMMA TruncatePendingContents ==
  ASSUME Disciplined, AllInv, [Next]_vars, Truncate_pending
  PROVE  RestInv'
<1> DEFINE keep == buffers[0].token_count - (current_token_count - targ)
<1>1. /\ pc = "load" /\ pc' = "ready"
      /\ UNCHANGED <<disk, epoch, valid, head, pending_block_idx, queue, wpc, wcol>>
      /\ \/ /\ ~(buffers[0].token_count < current_token_count - targ)
            /\ buffers' = [c \in Cols |-> KeepTokens(buffers[c], keep)]
            /\ current_token_count' = targ
            /\ Forget(targ)
         \/ /\ buffers[0].token_count < current_token_count - targ
            /\ UNCHANGED <<buffers, current_token_count, log>>
  BY DEF Truncate_pending, Underflows, file, worker
<1> HIDE DEF keep
<1>2. TypeInv /\ TypeOK /\ Quiescent /\ targ > valid /\ targ <= current_token_count /\ targ \in Nat
  BY <1>1 DEF AllInv, ContentsInv, ControlInv, OrderInv, Excluded, TypeInv, TypeOK
<1>3. wpc \notin Publishing /\ Len(queue) = 0 /\ wcol = 0
  BY <1>2 DEF Quiescent, Publishing, AllInv, ContentsInv, BatchInv
<1>4. ~OnTheWay(wpc, queue) /\ Published = valid
  BY <1>3 DEF OnTheWay, Published, Publishing
<1>5. BatchInv' /\ ~OnTheWay(wpc', queue')
  BY <1>1, <1>3, NoBatchInv
<1>6. log \in Seq(Frames) /\ Len(log) \in Nat /\ valid \in Nat /\ valid <= Len(log)
  BY <1>2, <1>4, LenProperties DEF TypeOK, AllInv, ContentsInv, StoredInv, Stored, StoredIn
<1>7. ASSUME NEW n \in Nat, n <= targ, n <= Len(log), Forget(targ)
      PROVE  /\ Keeps(log, log', n)
             /\ Len(log') = IF targ <= Len(log) THEN targ ELSE Len(log)
  BY <1>2, <1>6, <1>7, CutKeeps DEF Forget
<1>8. Keeps(log, log', Published)
  BY <1>1, <1>2, <1>4, <1>6, <1>7, KeepsSame
<1>9. StoredInv'
  <2>1. Published' = Published
    BY <1>1, <1>3 DEF Published, Publishing
  <2> QED BY <1>1, <1>8, <2>1, StoredStays
<1>10. CallerInv'
  <2>1. CASE wpc = "dead"
    BY <1>1, <2>1 DEF CallerInv
  <2>2. CASE wpc # "dead"
    <3>1. /\ Held(buffers, pending_block_idx, log) /\ buffers[0].token_count < BLOCK_TOKEN_COUNT
          /\ current_token_count = Len(log)
          /\ valid = Start(pending_block_idx) + buffers[0].existing_tokens
      BY <1>1, <1>4, <2>2 DEF AllInv, ContentsInv, CallerInv
    <3>2. /\ Len(log) = Start(pending_block_idx) + buffers[0].token_count
          /\ buffers[0].existing_tokens <= buffers[0].token_count
      BY <3>1 DEF Held
    <3>3. /\ SoundBuffers(buffers) /\ pending_block_idx \in Nat /\ Start(pending_block_idx) \in Nat
          /\ buffers[0].token_count \in Nat /\ buffers[0].existing_tokens \in Nat
      BY <1>2, TypeInvBuffers, Starts DEF TypeOK
    <3>4. /\ ~(buffers[0].token_count < current_token_count - targ)
          /\ keep \in Nat /\ targ = Start(pending_block_idx) + keep
          /\ buffers[0].existing_tokens <= keep /\ keep <= buffers[0].token_count
          /\ targ <= Len(log)
      <4>1. targ \in Nat /\ targ > valid /\ targ <= current_token_count
        BY <1>2
      <4>2. /\ current_token_count = Start(pending_block_idx) + buffers[0].token_count
            /\ valid = Start(pending_block_idx) + buffers[0].existing_tokens
        BY <3>1, <3>2
      <4>3. buffers[0].token_count - (current_token_count - targ) = targ - Start(pending_block_idx)
        BY <3>3, <4>1, <4>2
      <4> QED BY <3>1, <3>3, <4>1, <4>2, <4>3 DEF keep
    <3>5. /\ Forget(targ) /\ buffers' = [c \in Cols |-> KeepTokens(buffers[c], keep)]
          /\ current_token_count' = targ
      BY <1>1, <3>4
    <3>6. Keeps(log, log', targ) /\ Len(log') = targ
      BY <1>2, <1>7, <3>4, <3>5
    <3>7. /\ Held(buffers', pending_block_idx, log')
          /\ KeepTokens(buffers[0], keep).token_count = keep
          /\ KeepTokens(buffers[0], keep).existing_tokens = buffers[0].existing_tokens
      BY <3>1, <3>3, <3>4, <3>5, <3>6, HeldCut
    <3>8. buffers'[0].token_count = keep /\ buffers'[0].existing_tokens = buffers[0].existing_tokens
      BY <3>5, <3>7, ColsNat
    <3>9. keep < BLOCK_TOKEN_COUNT
      BY <3>1, <3>3, <3>4, BlockSize
    <3> QED BY <1>1, <1>5, <3>1, <3>5, <3>6, <3>7, <3>8, <3>9 DEF CallerInv
  <2> QED BY <2>1, <2>2
<1> QED BY <1>5, <1>9, <1>10 DEF RestInv

\* When nothing is buffered a batch on its way is the end of the log.
LEMMA MadeLast ==
  ASSUME NEW b \in FlushBatch, NEW ep, NEW n, NEW lg, NEW nx,
         Made(b, ep, n, lg, "ready", nx), Len(lg) = Start(nx)
  PROVE  Made(b, ep, n, lg, "joining", nx)
<1>1. b.block_idx \in Nat /\ b.token_count = BLOCK_TOKEN_COUNT /\ nx = b.block_idx + 1
  BY DEF FlushBatch, Made
<1>2. Start(b.block_idx) + b.token_count = Len(lg)
  BY <1>1, StartNext
<1> QED BY <1>2 DEF Made

LEMMA DropContents ==
  ASSUME Disciplined, AllInv, [Next]_vars, Drop
  PROVE  RestInv'
<1>1. /\ pc = "ready" /\ pc' = "joining" /\ FlushBlock(buffers, StopCommand)
      /\ UNCHANGED <<disk, epoch, valid, head, worker, log>>
  BY DEF Drop, file
<1>2. StopCommand \in {<<>>, <<Stop>>}
  BY DEF StopCommand
<1>3. UNCHANGED <<wpc, wcol, wvalid, wbatch>> /\ TypeInv /\ TypeOK /\ Paced /\ ContentsInv
  BY <1>1 DEF worker, AllInv, Disciplined, TypeInv
<1>4. Published' = Published
  BY <1>1, <1>3 DEF Published
<1>5. StoredInv'
  BY <1>1, <1>4, StoredStays, KeepsSame
<1>6. CASE wpc = "dead"
  <2>1. PacedInv'
    BY <1>3, StepPaced DEF AllInv
  <2>2. \A i \in 1 .. Len(queue') : queue'[i].cmd # "Flush"
    BY <1>3, <1>6, <2>1 DEF PacedInv
  <2>3. BatchInv'
    BY <1>3, <1>6, <2>2, NoBatchInv DEF Publishing, ContentsInv, BatchInv
  <2>4. CallerInv'
    BY <1>1, <1>3, <1>6 DEF CallerInv
  <2> QED BY <1>5, <2>3, <2>4 DEF RestInv
<1>7. CASE wpc # "dead"
  <2>1. /\ Held(buffers, pending_block_idx, log)
        /\ IF OnTheWay(wpc, queue)
             THEN buffers[0].existing_tokens = 0
             ELSE valid = Start(pending_block_idx) + buffers[0].existing_tokens
    BY <1>1, <1>3, <1>7 DEF ContentsInv, CallerInv
  <2>2. ~FlushLost(buffers)
    BY <1>1, <1>3, <1>7 DEF FlushLost, ReceiverAlive, ContentsInv, ControlInv, OrderInv, Excluded
  <2>3. SoundBuffers(buffers) /\ buffers[0].token_count \in Nat /\ buffers[0].existing_tokens \in Nat
        /\ pending_block_idx \in Nat /\ Start(pending_block_idx) \in Nat
    BY <1>3, TypeInvBuffers, Starts DEF TypeOK
  <2>4. CASE FlushSent(buffers, StopCommand)
    <3>1. queue = <<>> /\ wpc \in {"start", "idle"}
      BY <1>3, <2>4 DEF FlushSent, Quiescent, ReceiverAlive
    <3>2. ~OnTheWay(wpc, queue)
      <4>1. Len(queue) = 0
        BY <3>1
      <4> QED BY <3>1, <4>1 DEF OnTheWay, Publishing
    <3>3. log' \in Seq(Frames) /\ log' = log
      BY <1>1, <1>3 DEF TypeOK
    <3>4. valid = Start(pending_block_idx) + buffers[0].existing_tokens
      BY <2>1, <3>2
    <3> HIDE DEF StopCommand
    <3>5. BatchInv' /\ OnTheWay(wpc', queue')
      BY <1>1, <1>2, <1>3, <2>1, <2>3, <2>4, <3>3, <3>4, FlushSentContents
    <3>6. CallerInv'
      BY <1>1, <3>5 DEF CallerInv
    <3> QED BY <1>5, <3>5, <3>6 DEF RestInv
  <2>5. CASE FlushNothing(buffers, StopCommand) /\ ~FlushSent(buffers, StopCommand)
    <3>1. buffers[0].token_count = 0
      BY <2>5 DEF FlushNothing
    <3>2. Len(log) = Start(pending_block_idx)
      BY <2>1, <2>3, <3>1 DEF Held
    <3> HIDE DEF StopCommand
    <3>3. /\ \A i \in 1 .. Len(queue') : queue'[i].cmd = "Flush" =>
               i \in 1 .. Len(queue) /\ queue'[i] = queue[i]
          /\ \A i \in 1 .. Len(queue) : i \in 1 .. Len(queue') /\ queue'[i] = queue[i]
      <4>1. Stop.cmd # "Flush"
        BY DEF Stop
      <4> QED BY <1>1, <1>2, <1>3, <2>5, <4>1, FlushQueue
    <3>4. ASSUME NEW b \in FlushBatch, Made(b, epoch, Published, log, pc, pending_block_idx),
                 NEW nx
          PROVE  Made(b, epoch, Published, log, "joining", nx)
      <4>1. Made(b, epoch, Published, log, "joining", pending_block_idx)
        BY <1>1, <3>2, <3>4, MadeLast
      <4> QED BY <4>1 DEF Made
    <3>5. \A i \in 1 .. Len(queue') : queue'[i].cmd = "Flush" =>
            Made(queue'[i].batch, epoch', Published', log', pc', pending_block_idx')
      <4> SUFFICES ASSUME NEW i \in 1 .. Len(queue'), queue'[i].cmd = "Flush"
                   PROVE  Made(queue'[i].batch, epoch', Published', log', pc', pending_block_idx')
        OBVIOUS
      <4>1. i \in 1 .. Len(queue) /\ queue'[i] = queue[i] /\ queue[i] \in FlushCommand
        BY <1>3, <3>3, ElementOfSeq DEF TypeOK
      <4>2. queue[i].batch \in FlushBatch
        BY <4>1 DEF FlushCommand
      <4>3. Made(queue[i].batch, epoch, Published, log, pc, pending_block_idx)
        BY <1>3, <4>1 DEF ContentsInv, BatchInv
      <4> QED BY <1>1, <1>4, <3>4, <4>1, <4>2, <4>3
    <3>6. wpc' \in Publishing => Made(wbatch', epoch', Published', log', pc', pending_block_idx')
      <4>1. wpc \in Publishing => Made(wbatch, epoch, Published, log, pc, pending_block_idx)
        BY <1>3 DEF ContentsInv, BatchInv
      <4>2. wbatch \in FlushBatch
        BY <1>3 DEF TypeOK
      <4> QED BY <1>1, <1>3, <1>4, <3>4, <4>1, <4>2
    <3>7. /\ wpc' \in Publishing => \A c \in Cols : c < NextCol(wpc', wcol') =>
               Written(disk', wbatch'.entries[c], c, wbatch'.token_count,
                       Start(wbatch'.block_idx), log')
          /\ wpc' # "payload" => wcol' = 0
          /\ wpc' = "store" => wvalid' = valid'
          /\ wpc' = "head" => valid' = Start(wbatch'.block_idx) + wbatch'.token_count
      BY <1>1, <1>3 DEF ContentsInv, BatchInv
    <3>8. BatchInv'
      BY <3>5, <3>6, <3>7 DEF BatchInv
    <3>9. OnTheWay(wpc', queue') \/ valid' = Len(log')
      <4>1. CASE OnTheWay(wpc, queue)
        BY <1>3, <3>3, <4>1 DEF OnTheWay
      <4>2. CASE ~OnTheWay(wpc, queue)
        <5>1. valid = Start(pending_block_idx) + buffers[0].existing_tokens
              /\ buffers[0].existing_tokens <= buffers[0].token_count
          BY <2>1, <4>2 DEF Held
        <5> QED BY <1>1, <2>3, <3>1, <3>2, <5>1
      <4> QED BY <4>1, <4>2
    <3>10. CallerInv'
      BY <1>1, <3>9 DEF CallerInv
    <3> QED BY <1>5, <3>8, <3>10 DEF RestInv
  <2> QED BY <1>1, <2>2, <2>4, <2>5 DEF FlushBlock
<1> QED BY <1>6, <1>7

\* When the writer is gone, what is published stays.
LEMMA GoneContents ==
  ASSUME AllInv, [Next]_vars, Gone, UNCHANGED <<valid, head, log>>, wpc # "head"
  PROVE  RestInv'
<1>1. /\ pc' = "closed" /\ wpc' = "stopped" /\ wcol' = 0 /\ queue' = <<>>
  BY DEF Gone
<1>2. Published' = Published /\ Len(queue') = 0
  BY <1>1 DEF Published
<1>3. StoredInv'
  BY <1>2, StoredStays, KeepsSame
<1>4. BatchInv'
  BY <1>1, <1>2, NoBatchInv DEF Publishing
<1>5. CallerInv'
  BY <1>1 DEF CallerInv
<1> QED BY <1>3, <1>4, <1>5 DEF RestInv

LEMMA CrashContents ==
  ASSUME AllInv, [Next]_vars, Crash
  PROVE  RestInv'
<1>1. Gone /\ UNCHANGED <<valid, head, log>> /\ Spend(IF wpc = "head" THEN "commit_crash" ELSE "crash")
  BY DEF Crash
<1>2. wpc # "head"
  BY <1>1, SpendExcluded
     DEF AllInv, TypeInv, ContentsInv, ControlInv, OrderInv, Excluded, BudgetKinds
<1> QED BY <1>1, <1>2, GoneContents

LEMMA JoinContents ==
  ASSUME AllInv, [Next]_vars, Join
  PROVE  RestInv'
BY GoneContents DEF Join, ReceiverAlive, file

\* A failed worker leaves what is published, and is asked for nothing more.
LEMMA FailsContents ==
  ASSUME AllInv, [Next]_vars, WorkerDies, wpc' = "dead", UNCHANGED log,
         (head' = head /\ Published' = Published) \/ StoredInv'
  PROVE  RestInv'
<1>1. wcol' = 0 /\ queue' = <<>>
  BY DEF WorkerDies
<1>2. Len(queue') = 0
  BY <1>1
<1>3. StoredInv'
  BY StoredStays, KeepsSame
<1>4. BatchInv'
  BY <1>1, <1>2, NoBatchInv DEF Publishing
<1>5. CallerInv'
  BY DEF CallerInv
<1> QED BY <1>3, <1>4, <1>5 DEF RestInv

LEMMA WorkerFailsContents ==
  ASSUME AllInv, [Next]_vars, Worker_fails
  PROVE  RestInv'
<1>1. /\ WorkerDies /\ wpc' = "dead" /\ UNCHANGED <<valid, head, log>> /\ wpc # "head"
  BY DEF Worker_fails, WorkerDies
<1> QED BY <1>1, FailsContents DEF Published

\* The bytes of a last block that is not full.
LEMMA LastBlockBytes ==
  ASSUME NEW f \in Seq(Cell), NEW index, NEW lg, NEW b \in Nat,
         NEW r \in 1 .. BLOCK_TOKEN_COUNT - 1, StoredIn(f, index, Start(b) + r, lg),
         NEW c \in Cols, NEW e \in Get(index, c, b)
  PROVE  Filled(BlockBytes(f, e), c, r, Start(b), lg)
<1>1. r \in Nat /\ r < BLOCK_TOKEN_COUNT /\ Start(b) \in Nat /\ Len(f) \in Nat
  BY BlockSize, Starts, LenProperties
<1>2. ASSUME NEW i \in 1 .. r
      PROVE  /\ e \in Entry /\ e.byte_offset + e.byte_len <= Len(f)
             /\ At(f, e.byte_offset + (i - 1)) = Token(c, lg[Start(b) + (i - 1) + 1])
  <2>1. i - 1 \in 0 .. BLOCK_TOKEN_COUNT - 1 /\ Start(b) + (i - 1) < Start(b) + r
    BY <1>1, BlockSize
  <2>2. Found(f, index, c, b, i - 1, Token(c, lg[Start(b) + (i - 1) + 1]))
    BY <2>1 DEF StoredIn
  <2> QED BY <2>2 DEF Found
<1>3. e.byte_len = r
  BY DEF StoredIn
<1>4. 1 \in 1 .. r
  BY <1>1
<1>5. e.byte_offset \in Nat /\ e.byte_offset + r <= Len(f)
  BY <1>2, <1>3, <1>4 DEF Entry
<1> DEFINE k == e.byte_offset
<1>6. ASSUME NEW i \in 1 .. r
      PROVE  f[k + i] = Token(c, lg[Start(b) + i]) /\ f[k + i] \in Cell
  <2>1. k + (i - 1) + 1 = k + i /\ Start(b) + (i - 1) + 1 = Start(b) + i /\ k + i \in 1 .. Len(f)
    BY <1>1, <1>5
  <2>2. f[k + i] = Token(c, lg[Start(b) + i])
    BY <1>2, <2>1 DEF At
  <2> QED BY <2>1, <2>2, ElementOfSeq
<1> HIDE DEF k
<1>7. k \in Nat
  BY <1>5 DEF k
<1>8. \A q \in k + 1 .. k + r : f[q] \in Cell
  <2> TAKE q \in k + 1 .. k + r
  <2>1. q - k \in 1 .. r /\ k + (q - k) = q
    BY <1>1, <1>7
  <2> QED BY <1>6, <2>1
<1> DEFINE s == SubSeq(f, k + 1, k + r)
<1>9. Len(s) = r /\ \A i \in 1 .. r : s[i] = f[k + i]
  <2>1. k + 1 \in Int /\ k + r \in Int /\ k + 1 <= k + r /\ (k + r) - (k + 1) + 1 = r
    BY <1>1, <1>7
  <2>2. /\ Len(s) = (k + r) - (k + 1) + 1
        /\ \A i \in 1 .. (k + r) - (k + 1) + 1 : s[i] = f[(k + 1) + i - 1]
    BY <1>8, <2>1, SubSeqProperties
  <2> HIDE DEF s
  <2>3. \A i \in 1 .. r : (k + 1) + i - 1 = k + i
    BY <1>7
  <2> QED BY <2>1, <2>2, <2>3
<1>10. BlockBytes(f, e) = s
  BY <1>3 DEF BlockBytes, k
<1> HIDE DEF s
<1> QED BY <1>6, <1>9, <1>10 DEF Filled

LEMMA OpenedBlock ==
  ASSUME TypeInv
  PROVE  /\ OpenBlock \in Nat /\ PartialCount \in 0 .. BLOCK_TOKEN_COUNT - 1
         /\ valid = Start(OpenBlock) + PartialCount
<1> DEFINE q == valid \div BLOCK_TOKEN_COUNT
           r == valid % BLOCK_TOKEN_COUNT
<1>1. valid \in Nat
  BY DEF TypeInv, TypeOK
<1>2. q \in Nat /\ r \in Nat /\ r < BLOCK_TOKEN_COUNT /\ valid = Start(q) + r
  BY <1>1, BlockOfToken
<1>3. PartialCount = r
  BY DEF PartialCount
<1>4. r # 0 => (valid - 1) \div BLOCK_TOKEN_COUNT = q
  <2> HAVE r # 0
  <2>0. Start(q) \in Nat
    BY <1>2, Starts
  <2> HIDE DEF q, r
  <2>1. r - 1 \in Nat /\ r - 1 < BLOCK_TOKEN_COUNT /\ valid - 1 = Start(q) + (r - 1)
    BY <1>1, <1>2, <2>0, BlockSize
  <2>2. (Start(q) + (r - 1)) \div BLOCK_TOKEN_COUNT = q
    BY <1>2, <2>1, TokenOfBlock
  <2> QED BY <2>1, <2>2
<1>5. OpenBlock = q
  BY <1>3, <1>4 DEF OpenBlock
<1> HIDE DEF q, r
<1> QED BY <1>2, <1>3, <1>5, BlockSize

LEMMA OpenContents ==
  ASSUME AllInv, [Next]_vars, Open
  PROVE  RestInv'
<1> DEFINE p == PartialCount
           a == OpenBlock
<1>1. /\ pc = "closed" /\ Openable /\ pc' = "ready" /\ wpc' = "start"
      /\ buffers' = [c \in Cols |-> [block_idx |-> a, token_count |-> p,
                                     existing_tokens |-> p, data |-> Existing(c)]]
      /\ pending_block_idx' = a /\ current_token_count' = valid
      /\ Forget(valid)
      /\ UNCHANGED <<disk, epoch, valid, head, queue, wcol>>
  BY DEF Open, file
<1>2. /\ TypeInv /\ wpc = "stopped" /\ queue = <<>> /\ wcol = 0
  BY <1>1 DEF AllInv, IdsInv, ContentsInv, BatchInv
<1>3. Published = valid /\ Published' = valid
  BY <1>1, <1>2 DEF Published
<1>4. a \in Nat /\ p \in 0 .. BLOCK_TOKEN_COUNT - 1 /\ valid = Start(a) + p
  BY <1>2, OpenedBlock
<1> HIDE DEF p, a
<1>5. StoredIn(disk, FreshIndex, valid, log) /\ disk \in Seq(Cell) /\ valid \in Nat
      /\ log \in Seq(Frames) /\ Len(log) \in Nat
  BY <1>2, <1>3, LenProperties
     DEF AllInv, ContentsInv, StoredInv, Stored, FreshIndex, TypeInv, TypeOK
<1>6. valid <= Len(log)
  BY <1>5 DEF StoredIn
<1>7. Keeps(log, log', valid) /\ Len(log') = valid
  BY <1>1, <1>5, <1>6, CutKeeps DEF Forget
<1>8. StoredInv'
  BY <1>1, <1>3, <1>7, StoredStays
<1>9. BatchInv' /\ ~OnTheWay(wpc', queue')
  <2>1. Len(queue') = 0
    BY <1>1, <1>2
  <2> QED BY <1>1, <1>2, <2>1, NoBatchInv DEF Publishing
<1>10. ASSUME NEW c \in Cols
       PROVE  Filled(Existing(c), c, p, Start(a), log')
  <2>1. CASE p = 0
    BY <2>1 DEF Filled, Existing, p
  <2>2. CASE p # 0
    <3> DEFINE e == CHOOSE e \in Get(FreshIndex, c, a) : TRUE
    <3>1. PartialCount > 0
      BY <1>4, <2>2, BlockSize DEF p
    <3>2. e \in Get(FreshIndex, c, a)
      BY <1>1, <3>1 DEF Openable, a
    <3>3. Existing(c) = BlockBytes(disk, e)
      BY <3>1 DEF Existing, a
    <3> HIDE DEF e
    <3>4. p \in 1 .. BLOCK_TOKEN_COUNT - 1 /\ p \in Nat /\ Start(a) \in Nat
      BY <1>4, <2>2, BlockSize, Starts
    <3>5. StoredIn(disk, FreshIndex, Start(a) + p, log) /\ Keeps(log, log', Start(a) + p)
      BY <1>4, <1>5, <1>7
    <3>6. Filled(BlockBytes(disk, e), c, p, Start(a), log)
      BY <1>4, <1>5, <3>2, <3>4, <3>5, LastBlockBytes
    <3> QED BY <3>3, <3>4, <3>5, <3>6, FilledKeeps
  <2> QED BY <2>1, <2>2
<1>11. \A c \in Cols : /\ buffers'[c].block_idx = a /\ buffers'[c].token_count = p
                      /\ buffers'[c].existing_tokens = p /\ buffers'[c].data = Existing(c)
  BY <1>1
<1>12. Held(buffers', a, log') /\ buffers'[0].token_count = p /\ buffers'[0].existing_tokens = p
  <2>1. p <= BLOCK_TOKEN_COUNT /\ p <= p /\ 0 \in Cols
    BY <1>4, BlockSize, ColsNat
  <2> HIDE DEF Existing
  <2> QED BY <1>4, <1>7, <1>10, <1>11, <2>1 DEF Held
<1>13. p < BLOCK_TOKEN_COUNT
  BY <1>4, BlockSize
<1> QED BY <1>1, <1>4, <1>7, <1>8, <1>9, <1>12, <1>13 DEF RestInv, CallerInv

-----------------------------------------------------------------------------
(***************************************************************************)
(* The worker's steps.                                                     *)
(***************************************************************************)
\* While a batch is being published the caller's side does not change.
LEMMA PublishingContents ==
  ASSUME AllInv, [Next]_vars, wpc \in Publishing, wpc' \in Publishing,
         UNCHANGED <<epoch, head, pc, writer, queue, log>>, Published' = Published,
         Made(wbatch', epoch, Published, log, pc, pending_block_idx),
         \A c \in Cols : c < NextCol(wpc', wcol') =>
           Written(disk', wbatch'.entries[c], c, wbatch'.token_count,
                   Start(wbatch'.block_idx), log),
         wpc' # "payload" => wcol' = 0, wpc' = "store" => wvalid' = valid',
         wpc' = "head" => valid' = Start(wbatch'.block_idx) + wbatch'.token_count
  PROVE  RestInv'
<1>1. UNCHANGED <<buffers, current_token_count, pending_block_idx>>
  BY DEF writer
<1>2. \A i \in 1 .. Len(queue) : queue[i].cmd # "Flush"
  BY DEF AllInv, PacedInv, Publishing
<1>3. StoredInv'
  BY StoredStays, KeepsSame
<1>4. BatchInv'
  BY <1>1, <1>2 DEF BatchInv
<1>5. OnTheWay(wpc, queue) /\ OnTheWay(wpc', queue') /\ wpc # "dead"
  BY DEF OnTheWay, Publishing
<1>6. CallerInv'
  BY <1>1, <1>5 DEF CallerInv, AllInv, ContentsInv
<1> QED BY <1>3, <1>4, <1>6 DEF RestInv

\* What has been written of the batch stays written.
LEMMA WrittenStays ==
  ASSUME AllInv, [Next]_vars, wpc \in Publishing
  PROVE  /\ Made(wbatch, epoch, Published, log, pc, pending_block_idx)
         /\ \A c \in Cols : c < NextCol(wpc, wcol) =>
              Written(disk', wbatch.entries[c], c, wbatch.token_count,
                      Start(wbatch.block_idx), log)
<1>1. Made(wbatch, epoch, Published, log, pc, pending_block_idx)
  BY DEF AllInv, ContentsInv, BatchInv
<1>2. /\ disk \in Seq(Cell) /\ disk' \in Seq(Cell) /\ Extends(disk, disk')
      /\ wbatch.token_count \in Nat /\ Start(wbatch.block_idx) \in Nat
      /\ \A c \in Cols : wbatch.entries[c] \in Entry
  BY FileGrows, Starts DEF AllInv, TypeInv, TypeOK, FlushBatch
<1>3. Keeps(log, log, Start(wbatch.block_idx) + wbatch.token_count)
  BY <1>1 DEF Made, Keeps
<1>4. ASSUME NEW c \in Cols, c < NextCol(wpc, wcol)
      PROVE  Written(disk', wbatch.entries[c], c, wbatch.token_count, Start(wbatch.block_idx), log)
  <2>1. Written(disk, wbatch.entries[c], c, wbatch.token_count, Start(wbatch.block_idx), log)
    BY <1>4 DEF AllInv, ContentsInv, BatchInv
  <2> QED BY <1>2, <1>3, <2>1, WrittenKeeps
<1> QED BY <1>1, <1>4

LEMMA WorkerStartContents ==
  ASSUME AllInv, [Next]_vars, Worker_start
  PROVE  RestInv'
<1>1. /\ wpc = "start" /\ wpc' = "idle" /\ UNCHANGED <<disk, epoch, valid, head, pc, queue, wcol, log>>
      /\ UNCHANGED <<buffers, current_token_count, pending_block_idx>>
  BY DEF Worker_start, file, writer
<1>2. Published' = Published
  BY <1>1 DEF Published
<1>3. StoredInv'
  BY <1>1, <1>2, StoredStays, KeepsSame
<1>4. BatchInv'
  BY <1>1, <1>2 DEF AllInv, ContentsInv, BatchInv, Publishing
<1>5. OnTheWay(wpc', queue') <=> OnTheWay(wpc, queue)
  BY <1>1 DEF OnTheWay, Publishing
<1>6. CallerInv'
  BY <1>1, <1>5 DEF AllInv, ContentsInv, CallerInv
<1> QED BY <1>3, <1>4, <1>6 DEF RestInv

LEMMA ReceiveContents ==
  ASSUME AllInv, [Next]_vars, Worker_receive
  PROVE  RestInv'
<1>1. /\ wpc = "idle" /\ queue # <<>> /\ queue' = Tail(queue)
      /\ UNCHANGED <<disk, epoch, valid, head, pc, wcol, log>>
      /\ UNCHANGED <<buffers, current_token_count, pending_block_idx>>
      /\ \/ wpc' = "payload" /\ Head(queue).cmd = "Flush" /\ wbatch' = Head(queue).batch
         \/ wpc' = "stopped" /\ Head(queue).cmd = "Stop"
  BY DEF Worker_receive, file, writer
<1>2. queue \in Seq(FlushCommand) /\ Len(queue) \in Nat
  BY LenProperties DEF AllInv, TypeInv, TypeOK
<1>3. /\ Len(queue) > 0 /\ Head(queue) = queue[1] /\ 1 \in 1 .. Len(queue)
      /\ Len(queue') = Len(queue) - 1
      /\ \A i \in 1 .. Len(queue') : queue'[i] = queue[i + 1]
  BY <1>1, <1>2, HeadTailProperties, EmptySeq
<1>4. \A i \in 1 .. Len(queue) : queue[i].cmd = "Flush" => i = 1
  BY DEF AllInv, PacedInv
<1>5. \A i \in 1 .. Len(queue') : queue'[i].cmd # "Flush"
  <2>1. \A i \in 1 .. Len(queue') : i + 1 \in 1 .. Len(queue) /\ i + 1 # 1
    BY <1>2, <1>3
  <2> QED BY <1>3, <1>4, <2>1
<1>6. Published' = Published /\ wcol' = 0
  BY <1>1 DEF Published, AllInv, ContentsInv, BatchInv
<1>7. StoredInv'
  BY <1>1, <1>6, StoredStays, KeepsSame
<1>8. CASE wpc' = "payload" /\ Head(queue).cmd = "Flush" /\ wbatch' = Head(queue).batch
  <2>1. Made(wbatch', epoch, Published, log, pc, pending_block_idx)
    BY <1>3, <1>8 DEF AllInv, ContentsInv, BatchInv
  <2>2. \A c \in Cols : ~(c < NextCol(wpc', wcol'))
    <3>1. \A c \in Cols : ~(c < 0)
      BY ColsNat
    <3> QED BY <1>6, <1>8, <3>1 DEF NextCol
  <2>3. BatchInv'
    BY <1>1, <1>5, <1>6, <1>8, <2>1, <2>2 DEF BatchInv
  <2>4. OnTheWay(wpc, queue) /\ OnTheWay(wpc', queue')
    BY <1>3, <1>8 DEF OnTheWay, Publishing
  <2>5. CallerInv'
    BY <1>1, <2>4 DEF AllInv, ContentsInv, CallerInv
  <2> QED BY <1>7, <2>3, <2>5 DEF RestInv
<1>9. CASE wpc' = "stopped" /\ Head(queue).cmd = "Stop"
  <2>1. BatchInv' /\ ~OnTheWay(wpc', queue')
    BY <1>5, <1>6, <1>9, NoBatchInv DEF Publishing
  <2>2. ~OnTheWay(wpc, queue)
    BY <1>1, <1>3, <1>4, <1>9 DEF OnTheWay, Publishing
  <2>3. pc = "joining"
    BY <1>3, <1>9 DEF AllInv, ContentsInv, ControlInv, OrderInv, Excluded
  <2>4. CallerInv'
    BY <1>1, <2>1, <2>2, <2>3 DEF AllInv, ContentsInv, CallerInv
  <2> QED BY <1>7, <2>1, <2>4 DEF RestInv
<1> QED BY <1>1, <1>8, <1>9

\* What the worker notes of a payload it has written.
Placed(b, d, at, n) == [b EXCEPT !.entries[d].byte_offset = at, !.entries[d].byte_len = n]

LEMMA EntryPlaced ==
  ASSUME NEW b \in FlushBatch, NEW d \in Cols, NEW at, NEW n, NEW w, w = Placed(b, d, at, n)
  PROVE  /\ \A c \in Cols : c # d => w.entries[c] = b.entries[c]
         /\ \A c \in Cols : w.entries[c].block_idx = b.entries[c].block_idx
         /\ w.entries[d].byte_offset = at /\ w.entries[d].byte_len = n
         /\ w.block_idx = b.block_idx /\ w.batch_epoch = b.batch_epoch
         /\ w.token_count = b.token_count /\ w.existing_tokens = b.existing_tokens
         /\ w.payloads = b.payloads
<1> DEFINE e == [[b.entries[d] EXCEPT !.byte_offset = at] EXCEPT !.byte_len = n]
<1>1. b.entries \in [Cols -> Entry] /\ b.entries[d] \in Entry
  BY DEF FlushBatch
<1>2. e.block_idx = b.entries[d].block_idx /\ e.byte_offset = at /\ e.byte_len = n
  BY <1>1 DEF Entry
<1>3. w.entries = [b.entries EXCEPT ![d] = e]
  BY <1>1 DEF FlushBatch, Placed
<1>4. /\ w.block_idx = b.block_idx /\ w.batch_epoch = b.batch_epoch
      /\ w.token_count = b.token_count /\ w.existing_tokens = b.existing_tokens
      /\ w.payloads = b.payloads
  BY DEF FlushBatch, Placed
<1> HIDE DEF e
<1>5. \A c \in Cols : w.entries[c] = IF c = d THEN e ELSE b.entries[c]
  BY <1>1, <1>3
<1> QED BY <1>2, <1>4, <1>5

LEMMA PayloadContents ==
  ASSUME AllInv, [Next]_vars, Worker_payload
  PROVE  RestInv'
<1> DEFINE payload == wbatch.payloads[wcol]
<1>1. /\ wpc = "payload" /\ disk' = disk \o payload
      /\ UNCHANGED <<epoch, valid, head, pc, writer, queue, wvalid, log>>
      /\ wbatch' = [wbatch EXCEPT !.entries[wcol].byte_offset = Len(disk),
                                  !.entries[wcol].byte_len = Len(payload)]
      /\ IF wcol + 1 = NumColumns THEN wpc' = "index" /\ wcol' = 0
                                 ELSE wpc' = "payload" /\ wcol' = wcol + 1
  BY DEF Worker_payload, PayloadOffset
<1>2. /\ disk \in Seq(Cell) /\ Len(disk) \in Nat /\ wcol \in Cols /\ wbatch \in FlushBatch
      /\ payload \in Seq(ColumnToken(wcol)) /\ NumColumns \in Nat
  BY LenProperties, ColumnsAssumption DEF AllInv, TypeInv, TypeOK, PendingSound
<1>3. /\ \A c \in Cols : c # wcol => wbatch'.entries[c] = wbatch.entries[c]
      /\ \A c \in Cols : wbatch'.entries[c].block_idx = wbatch.entries[c].block_idx
      /\ wbatch'.entries[wcol].byte_offset = Len(disk)
      /\ wbatch'.entries[wcol].byte_len = Len(payload)
      /\ wbatch'.block_idx = wbatch.block_idx /\ wbatch'.batch_epoch = wbatch.batch_epoch
      /\ wbatch'.token_count = wbatch.token_count
      /\ wbatch'.existing_tokens = wbatch.existing_tokens
      /\ wbatch'.payloads = wbatch.payloads
  <2> HIDE DEF payload
  <2>1. wbatch' = Placed(wbatch, wcol, Len(disk), Len(payload))
    BY <1>1 DEF Placed
  <2> QED BY <1>2, <2>1, EntryPlaced
<1>4. wpc \in Publishing /\ wpc' \in Publishing /\ Published' = Published
  BY <1>1 DEF Publishing, Published
<1>5. Made(wbatch', epoch, Published, log, pc, pending_block_idx)
  <2>1. Made(wbatch, epoch, Published, log, pc, pending_block_idx)
    BY <1>4, WrittenStays
  <2> QED BY <1>3, <2>1 DEF Made
<1>6. Filled(payload, wcol, wbatch.token_count, Start(wbatch.block_idx), log)
  BY <1>2, <1>4, WrittenStays DEF Made
<1>7. Written(disk', wbatch'.entries[wcol], wcol, wbatch.token_count, Start(wbatch.block_idx), log)
  <2> HIDE DEF payload
  <2>1. /\ Len(disk') = Len(disk) + Len(payload) /\ Len(payload) = wbatch.token_count
        /\ \A i \in 1 .. Len(payload) : disk'[Len(disk) + i] = payload[i]
    <3>1. payload \in Seq(Cell)
      BY <1>2, TokensAreCells
    <3>2. Len(payload) \in Nat
      BY <1>2, LenProperties
    <3>3. /\ Len(disk') = Len(disk) + Len(payload)
          /\ \A j \in 1 .. Len(disk) + Len(payload) :
               disk'[j] = IF j <= Len(disk) THEN disk[j] ELSE payload[j - Len(disk)]
      BY <1>1, <1>2, <3>1, ConcatProperties
    <3>4. \A i \in 1 .. Len(payload) : /\ Len(disk) + i \in 1 .. Len(disk) + Len(payload)
                                      /\ ~(Len(disk) + i <= Len(disk))
                                      /\ Len(disk) + i - Len(disk) = i
      BY <1>2, <3>2
    <3> QED BY <1>6, <3>3, <3>4 DEF Filled
  <2> QED BY <1>2, <1>3, <1>6, <2>1 DEF Written, Filled
<1>8. ASSUME NEW c \in Cols, c < NextCol(wpc', wcol')
      PROVE  Written(disk', wbatch'.entries[c], c, wbatch'.token_count,
                     Start(wbatch'.block_idx), log)
  <2>1. CASE c = wcol
    BY <1>3, <1>7, <2>1
  <2>2. CASE c # wcol
    <3>1. c < wcol
      BY <1>1, <1>2, <1>8, <2>2, ColsNat DEF NextCol, Cols
    <3>2. c < NextCol(wpc, wcol)
      BY <1>1, <3>1 DEF NextCol
    <3>3. Written(disk', wbatch.entries[c], c, wbatch.token_count, Start(wbatch.block_idx), log)
      BY <1>4, <3>2, WrittenStays
    <3> QED BY <1>3, <2>2, <3>3
  <2> QED BY <2>1, <2>2
<1> HIDE DEF payload
<1>9. /\ wpc' # "payload" => wcol' = 0
      /\ wpc' # "store" /\ wpc' # "head"
  BY <1>1
<1> QED BY <1>1, <1>4, <1>5, <1>8, <1>9, PublishingContents

\* The index block, its trailer and the load of the count leave the batch alone; a
\* batch on its way is never stale.
LEMMA CommitContents ==
  ASSUME AllInv, [Next]_vars, Worker_index \/ Worker_trailer \/ Worker_check \/ Worker_load
  PROVE  RestInv'
<1>1. /\ wpc \in {"index", "trailer", "check", "load"}
      /\ UNCHANGED <<epoch, valid, head, pc, writer, queue, log>>
      /\ \/ /\ wpc' \in {"trailer", "check", "load", "store"} /\ UNCHANGED <<wbatch, wcol>>
            /\ wpc' = "store" => wvalid' = valid
         \/ wpc = "check" /\ wbatch.batch_epoch # epoch
  BY DEF Worker_index, Worker_trailer, Worker_check, Worker_load, file
<1>2. wpc \in Publishing
  BY <1>1 DEF Publishing
<1>3. /\ Made(wbatch, epoch, Published, log, pc, pending_block_idx)
      /\ \A c \in Cols : c < NextCol(wpc, wcol) =>
           Written(disk', wbatch.entries[c], c, wbatch.token_count, Start(wbatch.block_idx), log)
  BY <1>2, WrittenStays
<1>4. /\ wpc' \in {"trailer", "check", "load", "store"} /\ UNCHANGED <<wbatch, wcol>>
      /\ wpc' = "store" => wvalid' = valid
  BY <1>1, <1>3 DEF Made
<1>5. wpc' \in Publishing /\ Published' = Published
  BY <1>1, <1>4 DEF Published, Publishing
<1>6. wcol' = 0 /\ NextCol(wpc', wcol') = NextCol(wpc, wcol)
  BY <1>1, <1>4 DEF AllInv, ContentsInv, BatchInv, NextCol
<1>7. /\ Made(wbatch', epoch, Published, log, pc, pending_block_idx)
      /\ \A c \in Cols : c < NextCol(wpc', wcol') =>
           Written(disk', wbatch'.entries[c], c, wbatch'.token_count,
                   Start(wbatch'.block_idx), log)
  BY <1>3, <1>4, <1>6
<1>8. wpc' = "store" => wvalid' = valid'
  BY <1>1, <1>4
<1>9. wpc' # "head"
  BY <1>4
<1> QED BY <1>1, <1>2, <1>5, <1>6, <1>7, <1>8, <1>9, PublishingContents

LEMMA StoreContents ==
  ASSUME AllInv, [Next]_vars, Worker_store
  PROVE  RestInv'
<1>1. /\ wpc = "store" /\ wpc' = "head" /\ valid' = wvalid + Increment(wbatch)
      /\ UNCHANGED <<disk, epoch, head, pc, writer, queue, wbatch, wcol, wvalid, log>>
  BY DEF Worker_store
<1>2. wpc \in Publishing /\ wpc' \in Publishing
  BY <1>1 DEF Publishing
<1>3. wvalid = valid /\ wcol = 0 /\ Published = valid /\ Published' = Published
  BY <1>1 DEF AllInv, ContentsInv, BatchInv, Published
<1>4. /\ Made(wbatch, epoch, Published, log, pc, pending_block_idx)
      /\ \A c \in Cols : c < NextCol(wpc, wcol) =>
           Written(disk', wbatch.entries[c], c, wbatch.token_count, Start(wbatch.block_idx), log)
  BY <1>2, WrittenStays
<1>5. NextCol(wpc', wcol') = NextCol(wpc, wcol) /\ wcol' = 0
  BY <1>1, <1>3 DEF NextCol
<1>6. valid' = Start(wbatch.block_idx) + wbatch.token_count
  <2>1. /\ wbatch.token_count \in Nat /\ wbatch.existing_tokens \in Nat
        /\ Start(wbatch.block_idx) \in Nat
    BY Starts DEF AllInv, TypeInv, TypeOK, FlushBatch
  <2>2. /\ valid = Start(wbatch.block_idx) + wbatch.existing_tokens
        /\ wbatch.existing_tokens <= wbatch.token_count
    BY <1>3, <1>4 DEF Made
  <2>3. Increment(wbatch) = wbatch.token_count - wbatch.existing_tokens
    BY <2>1, <2>2 DEF Increment, SatSub
  <2> QED BY <1>1, <1>3, <2>1, <2>2, <2>3
<1>7. /\ Made(wbatch', epoch, Published, log, pc, pending_block_idx)
      /\ \A c \in Cols : c < NextCol(wpc', wcol') =>
           Written(disk', wbatch'.entries[c], c, wbatch'.token_count,
                   Start(wbatch'.block_idx), log)
  BY <1>1, <1>4, <1>5
<1>8. /\ wpc' # "store"
      /\ valid' = Start(wbatch'.block_idx) + wbatch'.token_count
  BY <1>1, <1>6
<1> QED BY <1>1, <1>2, <1>3, <1>5, <1>7, <1>8, PublishingContents

LEMMA HeadContents ==
  ASSUME AllInv, [Next]_vars, Worker_head
  PROVE  RestInv'
<1>1. /\ wpc = "head" /\ head' = windex
      /\ UNCHANGED <<disk, epoch, valid, pc, log, buffers, current_token_count, pending_block_idx>>
      /\ \/ BackToIdle /\ UNCHANGED queue
         \/ WorkerDies
  BY DEF Worker_head, writer
<1>2. wpc \in Publishing /\ Published' = valid /\ wcol' = 0
  BY <1>1 DEF Publishing, Published, BackToIdle, WorkerDies
<1>3. /\ Made(wbatch, epoch, Published, log, pc, pending_block_idx)
      /\ \A c \in Cols :
           Written(disk, wbatch.entries[c], c, wbatch.token_count, Start(wbatch.block_idx), log)
      /\ valid = Start(wbatch.block_idx) + wbatch.token_count
  <2>1. \A c \in Cols : c < NextCol(wpc, wcol)
    BY <1>1, ColumnsAssumption DEF NextCol, Cols
  <2> QED BY <1>1, <1>2, <2>1 DEF AllInv, ContentsInv, BatchInv
<1>4. StoredInv'
  <2> DEFINE a == wbatch.block_idx
             m == wbatch.token_count
             k == wbatch.existing_tokens
  <2>1. /\ disk \in Seq(Cell) /\ ChainedFile(disk) /\ windex \in Trailers(disk, Len(disk))
        /\ Previous(disk, windex) = head /\ disk[windex].entries = wbatch.entries
    BY <1>1 DEF AllInv, TypeInv, TypeOK, ChainInv, PacedInv, IdsInv
  <2>2. a \in Nat /\ m \in 1 .. BLOCK_TOKEN_COUNT /\ k \in 0 .. m
    <3>1. a \in Nat /\ m \in Nat /\ k \in Nat
      BY DEF AllInv, TypeInv, TypeOK, FlushBatch
    <3> QED BY <1>3, <3>1 DEF Made
  <2>3. Start(a) + m <= Len(log) /\ Stored(disk, head, Start(a) + k, log)
    BY <1>3 DEF Made, AllInv, ContentsInv, StoredInv
  <2>4. \A c \in Cols : /\ wbatch.entries[c].col = c /\ wbatch.entries[c].block_idx = a
                       /\ Written(disk, wbatch.entries[c], c, m, Start(a), log)
    BY <1>3 DEF AllInv, TypeInv, PendingSound, Spans, Made
  <2> HIDE DEF a, m, k
  <2>5. Stored(disk, windex, Start(a) + m, log)
    BY <2>1, <2>2, <2>3, <2>4, StoredCommit
  <2> QED BY <1>1, <1>2, <1>3, <2>5 DEF StoredInv, a, m
<1>5. CASE WorkerDies
  <2>1. wpc' = "dead"
    BY <1>5 DEF WorkerDies
  <2> QED BY <1>1, <1>4, <1>5, <2>1, FailsContents
<1>6. CASE BackToIdle /\ UNCHANGED queue
  <2>1. wpc' = "idle"
    BY <1>6 DEF BackToIdle
  <2>2. \A i \in 1 .. Len(queue') : queue'[i].cmd # "Flush"
    BY <1>1, <1>6 DEF AllInv, PacedInv
  <2>3. BatchInv' /\ ~OnTheWay(wpc', queue')
    BY <1>2, <2>1, <2>2, NoBatchInv DEF Publishing
  <2>4. OnTheWay(wpc, queue) /\ wpc # "dead" /\ pc # "load"
    BY <1>1 DEF OnTheWay, Publishing, AllInv, ContentsInv, ControlInv, OrderInv, Excluded, Quiescent
  <2>5. pc = "ready" => valid = Start(pending_block_idx)
    <3> HAVE pc = "ready"
    <3>1. /\ wbatch.token_count = BLOCK_TOKEN_COUNT
          /\ pending_block_idx = wbatch.block_idx + 1 /\ wbatch.block_idx \in Nat
      BY <1>3 DEF Made, AllInv, TypeInv, TypeOK, FlushBatch
    <3> QED BY <1>3, <3>1, StartNext
  <2>6. pc = "joining" => valid = Len(log)
    BY <1>3 DEF Made
  <2>7. Start(pending_block_idx) \in Nat
    BY Starts DEF AllInv, TypeInv, TypeOK
  <2>8. CallerInv'
    <3>1. ASSUME pc = "ready"
          PROVE  /\ Held(buffers, pending_block_idx, log)
                 /\ buffers[0].token_count < BLOCK_TOKEN_COUNT
                 /\ current_token_count = Len(log) /\ buffers[0].existing_tokens = 0
      BY <2>4, <3>1 DEF AllInv, ContentsInv, CallerInv
    <3>2. pc = "ready" => valid = Start(pending_block_idx) + buffers[0].existing_tokens
      BY <2>5, <2>7, <3>1
    <3>3. pc' = pc /\ valid' = valid /\ log' = log /\ UNCHANGED <<buffers, current_token_count, pending_block_idx>>
      BY <1>1
    <3> QED BY <2>3, <2>4, <2>6, <3>1, <3>2, <3>3 DEF CallerInv
  <2> QED BY <1>4, <2>3, <2>8 DEF RestInv
<1> QED BY <1>1, <1>5, <1>6

LEMMA StepContents == Disciplined /\ AllInv /\ [Next]_vars => ContentsInv'
<1> SUFFICES ASSUME Disciplined, AllInv, [Next]_vars PROVE ContentsInv'
  OBVIOUS
<1>1. ControlInv'
  BY StepControl DEF AllInv, ContentsInv
<1>2. CASE UNCHANGED vars
  <2>1. RestInv /\ UNCHANGED <<disk, epoch, valid, head, pc, buffers, current_token_count,
                               pending_block_idx, queue, wpc, wbatch, wcol, wvalid, log>>
    BY <1>2 DEF AllInv, ContentsInv, RestInv, vars, file, writer, worker
  <2>2. RestInv'
    BY <2>1 DEF RestInv, StoredInv, BatchInv, CallerInv, Published
  <2> QED BY <1>1, <2>2 DEF ContentsInv, RestInv
<1>3. ~Truncate_store /\ ~Truncate_committed /\ ~Flush_pending
  <2>1. ~Truncate_store
    BY DEF Truncate_store, AllInv, ContentsInv, ControlInv, OrderInv, Excluded
  <2>2. ~Truncate_committed
    <3>1. valid \in Nat /\ targ \in Nat
      BY DEF AllInv, TypeInv, TypeOK
    <3> QED BY <3>1 DEF Truncate_committed, IsCommitted, AllInv, ContentsInv, ControlInv, OrderInv, Excluded
  <2>3. ~Flush_pending
    BY SpendExcluded
       DEF Flush_pending, AllInv, TypeInv, ContentsInv, ControlInv, OrderInv, Excluded, BudgetKinds
  <2> QED BY <2>1, <2>2, <2>3
<1>4. CASE Next
  <2>1. Caller => RestInv'
    BY <1>3, AppendContents, TruncateEpochContents, TruncatePendingContents, DropContents,
       JoinContents, OpenContents DEF Caller
  <2>2. Worker => RestInv'
    BY WorkerStartContents, ReceiveContents, PayloadContents, CommitContents, StoreContents,
       HeadContents DEF Worker
  <2>3. RestInv'
    BY <1>4, <2>1, <2>2, WorkerFailsContents, CrashContents DEF Next
  <2> QED BY <1>1, <2>3 DEF ContentsInv, RestInv
<1> QED BY <1>2, <1>4

LEMMA ContentsInvariant == Disciplined => (Spec => []AllInv)
<1> SUFFICES ASSUME Disciplined PROVE Spec => []AllInv
  OBVIOUS
<1>1. Paced
  BY DEF Disciplined
<1>2. Init => ContentsInv
  BY InitControl, InitRest DEF ContentsInv, RestInv
<1>3. Init => PacedInv
  BY InitPaced
<1>4. TypeInv /\ PacedInv /\ [Next]_vars => PacedInv'
  BY <1>1, StepPaced
<1>5. AllInv /\ [Next]_vars => ContentsInv'
  BY StepContents
<1> QED BY <1>2, <1>3, <1>4, <1>5, InitIds, StepIds, TypeInvariant, ChainInvariant, PTL
        DEF Spec, AllInv

-----------------------------------------------------------------------------
(***************************************************************************)
(* What a fresh reader and a reopening writer find.                        *)
(***************************************************************************)
LEMMA PublishedBound == AllInv => Published <= valid /\ Published <= Len(log)
<1> SUFFICES ASSUME AllInv PROVE Published <= valid /\ Published <= Len(log)
  OBVIOUS
<1>1. Published <= Len(log)
  BY DEF AllInv, ContentsInv, StoredInv, Stored, StoredIn
<1>2. CASE wpc = "head"
  <2>1. /\ Published = Start(wbatch.block_idx) + wbatch.existing_tokens
        /\ wbatch.existing_tokens <= wbatch.token_count
        /\ valid = Start(wbatch.block_idx) + wbatch.token_count
    BY <1>2 DEF AllInv, ContentsInv, BatchInv, Made, Publishing
  <2>2. /\ Start(wbatch.block_idx) \in Nat
        /\ wbatch.existing_tokens \in Nat /\ wbatch.token_count \in Nat
    BY Starts DEF AllInv, TypeInv, TypeOK, FlushBatch
  <2> QED BY <1>1, <2>1, <2>2
<1>3. CASE wpc # "head"
  <2>1. Published = valid /\ valid \in Nat
    BY <1>3 DEF Published, AllInv, TypeInv, TypeOK
  <2> QED BY <1>1, <2>1
<1> QED BY <1>2, <1>3

LEMMA ReadsFromInv == AllInv => ReadsCorrect
<1> SUFFICES ASSUME AllInv, NEW c \in Cols, NEW t \in 0 .. Published - 1
             PROVE  /\ t < Len(log)
                    /\ TokenBytes(disk, Len(disk), FreshIndex, valid, c, t) = {Token(c, log[t + 1])}
  BY DEF ReadsCorrect
<1> DEFINE b == t \div BLOCK_TOKEN_COUNT
           r == t % BLOCK_TOKEN_COUNT
<1>1. /\ Published \in Nat /\ Published <= valid /\ Published <= Len(log)
      /\ valid \in Nat /\ Len(log) \in Nat /\ Len(disk) \in Nat
  BY PublishedNat, PublishedBound, LenProperties DEF AllInv, TypeInv, TypeOK
<1>2. t \in Nat /\ t < Published /\ t < valid /\ t < Len(log)
  <2> HIDE DEF Published
  <2> QED BY <1>1
<1>3. b \in Nat /\ r \in Nat /\ r < BLOCK_TOKEN_COUNT /\ t = Start(b) + r
  BY <1>2, BlockOfToken
<1> DEFINE x == Token(c, log[t + 1])
<1>4. PICK e \in Entry : /\ Get(FreshIndex, c, b) = {e}
                         /\ r < e.byte_len /\ e.byte_offset + e.byte_len <= Len(disk)
                         /\ At(disk, e.byte_offset + r) = x
  <2> HIDE DEF b, r
  <2>1. Start(b) + r + 1 = t + 1 /\ r \in 0 .. BLOCK_TOKEN_COUNT - 1 /\ Start(b) + r < Published
    BY <1>2, <1>3, BlockSize
  <2>2. StoredIn(disk, FreshIndex, Published, log)
    BY DEF AllInv, ContentsInv, StoredInv, Stored, FreshIndex
  <2>3. Found(disk, FreshIndex, c, b, r, x)
    BY <1>3, <2>1, <2>2 DEF StoredIn
  <2> QED BY <2>3 DEF Found
<1>5. e.byte_offset + r < Len(disk)
  <2> HIDE DEF r
  <2>1. e.byte_offset \in Nat /\ e.byte_len \in Nat
    BY DEF Entry
  <2> QED BY <1>1, <1>3, <1>4, <2>1
<1>6. Slice(disk, Len(disk), e.byte_offset + r) = x
  BY <1>4, <1>5 DEF Slice
<1>7. TokenBytes(disk, Len(disk), FreshIndex, valid, c, t)
        = {Slice(disk, Len(disk), d.byte_offset + r) : d \in {d \in Get(FreshIndex, c, b) : t < valid}}
  BY DEF TokenBytes
<1> HIDE DEF x, b, r
<1>8. TokenBytes(disk, Len(disk), FreshIndex, valid, c, t) = {x}
  BY <1>2, <1>4, <1>6, <1>7
<1> QED BY <1>2, <1>8 DEF x

LEMMA ReopensFromInv == AllInv => Reopenable
<1> SUFFICES ASSUME AllInv, wpc # "head" PROVE Openable
  BY DEF Reopenable
<1>1. WalkOK(disk, Len(disk), head)
  BY ChainInvSound, SoundChainOpens DEF AllInv, TypeInv, ReaderOpens
<1>2. /\ OpenBlock \in Nat /\ PartialCount \in 0 .. BLOCK_TOKEN_COUNT - 1
      /\ valid = Start(OpenBlock) + PartialCount
  BY OpenedBlock DEF AllInv
<1>3. StoredIn(disk, FreshIndex, valid, log)
  BY DEF AllInv, ContentsInv, StoredInv, Stored, FreshIndex, Published
<1>4. ASSUME PartialCount > 0, NEW c \in Cols
      PROVE  Get(FreshIndex, c, OpenBlock) # {}
  <2> HIDE DEF PartialCount, OpenBlock
  <2>1. /\ 0 \in 0 .. BLOCK_TOKEN_COUNT - 1 /\ Start(OpenBlock) + 0 < valid
    BY <1>2, <1>4, BlockSize, Starts
  <2>2. \E x : Found(disk, FreshIndex, c, OpenBlock, 0, x)
    BY <1>2, <1>3, <2>1 DEF StoredIn
  <2> QED BY <2>2 DEF Found
<1> QED BY <1>1, <1>4 DEF Openable

\* A disciplined caller, who lets each batch be published before causing the next,
\* flushes no block before it is full, truncates only what is still buffered and does
\* not die between the two stores of a commit, reads every published token back as it
\* was appended, through truncations, failures of the worker, crashes and reopening.
THEOREM DisciplinedReadsAreCorrect == Disciplined => (Spec => []ReadsCorrect)
<1> SUFFICES ASSUME Disciplined PROVE Spec => []ReadsCorrect
  OBVIOUS
<1> QED BY ContentsInvariant, ReadsFromInv, PTL

\* The same caller can reopen the file for append at any moment it may die in.
THEOREM DisciplinedReopens == Disciplined => (Spec => []Reopenable)
<1> SUFFICES ASSUME Disciplined PROVE Spec => []Reopenable
  OBVIOUS
<1> QED BY ContentsInvariant, ReopensFromInv, PTL

-----------------------------------------------------------------------------
(***************************************************************************)
(* The abstract log.                                                       *)
(***************************************************************************)
FirstFrames(lg, n) == [i \in 1 .. n |-> lg[i]]

LEMMA PrefixFrom ==
  ASSUME NEW S, NEW s \in Seq(S), NEW t \in Seq(S), Len(s) <= Len(t),
         \A i \in 1 .. Len(s) : s[i] = t[i]
  PROVE  AbstractLog!IsPrefix(s, t)
<1> DEFINE n == Len(s)
           u == SubSeq(s, 1, n)
           v == SubSeq(t, 1, n)
<1>1. n \in Nat /\ Len(t) \in Nat
  BY LenProperties
<1>2. \A i \in 1 .. n : s[i] \in S /\ t[i] \in S
  BY ElementOfSeq
<1>3. u \in Seq(S) /\ Len(u) = n /\ \A i \in 1 .. n : u[i] = s[i]
  <2> HIDE DEF n
  <2> QED BY <1>1, <1>2, SubSeqProperties
<1>4. v \in Seq(S) /\ Len(v) = n /\ \A i \in 1 .. n : v[i] = t[i]
  <2> HIDE DEF n
  <2> QED BY <1>1, <1>2, SubSeqProperties
<1> HIDE DEF u, v
<1>5. u = v
  BY <1>3, <1>4, SeqEqual
<1> QED BY <1>5 DEF AbstractLog!IsPrefix, u, v

LEMMA FirstFramesPrefix ==
  ASSUME NEW lg \in Seq(Frames), NEW m \in Nat, NEW n \in Nat, n <= m, m <= Len(lg)
  PROVE  /\ AbstractLog!IsPrefix(FirstFrames(lg, n), FirstFrames(lg, m)) /\ AbstractLog!IsPrefix(FirstFrames(lg, n), lg)
         /\ Len(FirstFrames(lg, n)) = n /\ FirstFrames(lg, n) \in Seq(Frames)
<1>1. Len(lg) \in Nat
  BY LenProperties
<1>2. ASSUME NEW k \in Nat, k <= Len(lg)
      PROVE  /\ FirstFrames(lg, k) \in Seq(Frames) /\ Len(FirstFrames(lg, k)) = k
             /\ \A i \in 1 .. k : FirstFrames(lg, k)[i] = lg[i]
  <2>1. \A i \in 1 .. k : lg[i] \in Frames
    BY <1>1, <1>2, ElementOfSeq
  <2> QED BY <2>1 DEF FirstFrames
<1>3. n <= Len(lg) /\ \A i \in 1 .. n : i \in 1 .. m
  BY <1>1
<1>4. AbstractLog!IsPrefix(FirstFrames(lg, n), FirstFrames(lg, m))
  BY <1>2, <1>3, PrefixFrom
<1>5. AbstractLog!IsPrefix(FirstFrames(lg, n), lg)
  BY <1>2, <1>3, PrefixFrom
<1> QED BY <1>2, <1>3, <1>4, <1>5

\* What a fresh reader can read is what has been published of the log.
LEMMA DurableIs == AllInv => Durable = FirstFrames(log, Published)
<1> SUFFICES ASSUME AllInv PROVE Durable = FirstFrames(log, Published)
  OBVIOUS
<1> DEFINE tokens(index, t) ==
             UNION {TokenBytes(disk, Len(disk), index, valid, c, t) : c \in Cols}
           frame(cells) == {f \in Frames : cells = {Token(c, f) : c \in Cols}}
           prefix(index) == [i \in 1 .. Published |-> Max({0} \cup frame(tokens(index, i - 1)))]
<1>1. Durable = CHOOSE d \in {prefix(index) : index \in {FreshIndex}} : TRUE
  BY DEF Durable
<1>2. Durable = prefix(FreshIndex)
  <2> HIDE DEF prefix
  <2> QED BY <1>1
<1>3. /\ ReadsCorrect /\ Published \in Nat /\ Published <= Len(log) /\ log \in Seq(Frames)
      /\ Len(log) \in Nat
  BY ReadsFromInv, PublishedNat, PublishedBound, LenProperties DEF AllInv, TypeInv, TypeOK
<1> HIDE DEF Published
<1>4. ASSUME NEW i \in 1 .. Published
      PROVE  Max({0} \cup frame(tokens(FreshIndex, i - 1))) = log[i]
  <2> DEFINE x == log[i]
  <2>1. i - 1 \in 0 .. Published - 1 /\ i - 1 + 1 = i /\ i \in 1 .. Len(log)
    BY <1>3
  <2>2. \A c \in Cols : TokenBytes(disk, Len(disk), FreshIndex, valid, c, i - 1) = {Token(c, x)}
    BY <1>3, <2>1 DEF ReadsCorrect
  <2>3. tokens(FreshIndex, i - 1) = {Token(c, x) : c \in Cols}
    BY <2>2
  <2>4. x \in Frames
    BY <1>3, <2>1, ElementOfSeq
  <2> HIDE DEF x, tokens
  <2>5. \A f \in Frames : {Token(c, x) : c \in Cols} = {Token(c, f) : c \in Cols} => f = x
    <3> SUFFICES ASSUME NEW f \in Frames, {Token(c, x) : c \in Cols} = {Token(c, f) : c \in Cols}
                 PROVE  f = x
      OBVIOUS
    <3>1. Token(0, f) \in {Token(c, x) : c \in Cols}
      BY ColsNat
    <3>2. \E c \in Cols : Token(0, f) = Token(c, x)
      BY <3>1
    <3>3. \A c : Token(0, f) = Token(c, x) => Token(0, f).frame = Token(c, x).frame
      OBVIOUS
    <3>4. \A c : Token(0, f).frame = f /\ Token(c, x).frame = x
      BY DEF Token
    <3> QED BY <3>2, <3>3, <3>4
  <2>6. frame(tokens(FreshIndex, i - 1)) = {x}
    BY <2>3, <2>4, <2>5
  <2>7. x \in Nat /\ x > 0
    BY <2>4 DEF Frames
  <2> HIDE DEF frame
  <2>8. Max({0} \cup {x}) = x
    <3>1. {0} \cup {x} \subseteq Nat /\ {0} \cup {x} # {} /\ \A y \in {0} \cup {x} : y <= x
      BY <2>7
    <3>2. /\ Max({0} \cup {x}) \in {0} \cup {x}
          /\ \A y \in {0} \cup {x} : y <= Max({0} \cup {x})
      BY <2>7, <3>1, MaxNat
    <3> QED BY <2>7, <3>2
  <2> QED BY <2>6, <2>8 DEF x
<1> HIDE DEF tokens, frame
<1> QED BY <1>2, <1>4 DEF FirstFrames

LEMMA DurableNext == (AllInv => Durable = FirstFrames(log, Published))'
BY DurableIs, PTL

\* What a step does to the log and to what is published of it.
LogStep ==
  \/ log' = log /\ Published <= Published'
  \/ Published' = Published /\ \E f \in Frames : log' = Append(log, f)
  \/ /\ Published' = Published
     /\ \E n \in Nat : Published <= n /\ n <= Len(log) /\ log' = FirstFrames(log, n)

LEMMA ForgetFrames ==
  ASSUME NEW lg \in Seq(Frames), NEW m \in Nat, NEW p \in Nat, p <= m, p <= Len(lg)
  PROVE  \E n \in Nat : /\ p <= n /\ n <= Len(lg)
                        /\ SubSeq(lg, 1, Min({m, Len(lg)})) = FirstFrames(lg, n)
<1> DEFINE n == IF m <= Len(lg) THEN m ELSE Len(lg)
           cut == SubSeq(lg, 1, Min({m, Len(lg)}))
<1>1. Len(lg) \in Nat
  BY LenProperties
<1>2. n \in Nat /\ p <= n /\ n <= Len(lg) /\ n <= m
  BY <1>1
<1>3. Keeps(lg, cut, n) /\ cut \in Seq(Frames) /\ Len(cut) = n
  <2>1. Len(cut) = n /\ cut \in Seq(Frames)
    BY CutKeeps
  <2> HIDE DEF cut
  <2>2. Keeps(lg, SubSeq(lg, 1, Min({m, Len(lg)})), n)
    <3> HIDE DEF n
    <3> QED BY <1>2, CutKeeps
  <2> QED BY <2>1, <2>2 DEF cut
<1>4. FirstFrames(lg, n) \in Seq(Frames) /\ Len(FirstFrames(lg, n)) = n
  <2> HIDE DEF n
  <2> QED BY <1>2, FirstFramesPrefix
<1> HIDE DEF n, cut
<1>5. \A i \in 1 .. n : cut[i] = FirstFrames(lg, n)[i]
  BY <1>3 DEF Keeps, FirstFrames
<1>6. cut = FirstFrames(lg, n)
  BY <1>3, <1>4, <1>5, SeqEqual
<1> QED BY <1>2, <1>6 DEF cut

LEMMA StepLog == Disciplined /\ AllInv /\ [Next]_vars => LogStep
<1> SUFFICES ASSUME Disciplined, AllInv, [Next]_vars PROVE LogStep
  OBVIOUS
<1>1. /\ Published \in Nat /\ Published <= valid /\ Published <= Len(log) /\ valid \in Nat
      /\ log \in Seq(Frames) /\ targ \in Nat /\ TypeInv
  BY PublishedNat, PublishedBound DEF AllInv, TypeInv, TypeOK
<1>2. CASE log' = log /\ Published' = Published
  <2> HIDE DEF Published
  <2> QED BY <1>1, <1>2 DEF LogStep
<1>3. CASE Append_frame
  <2>1. Published' = Published /\ (log' = log \/ log' = Append(log, NextFrame))
    BY <1>3 DEF Append_frame, file, worker, Published
  <2>2. NextFrame \in Frames
    BY <1>1, <1>3, AppendedBuffers
  <2> HIDE DEF NextFrame, Published
  <2> QED BY <1>1, <2>1, <2>2 DEF LogStep
<1>4. CASE Truncate_pending
  <2>1. /\ pc = "load" /\ UNCHANGED <<valid, wpc, wvalid>>
        /\ log' = log \/ Forget(targ)
    BY <1>4 DEF Truncate_pending, file, worker
  <2>2. Published' = Published /\ Published <= targ
    <3>1. valid < targ
      BY <1>1, <2>1 DEF AllInv, ContentsInv, ControlInv, OrderInv, Excluded
    <3>2. Published' = Published
      BY <2>1 DEF Published
    <3> HIDE DEF Published
    <3> QED BY <1>1, <3>1, <3>2
  <2> HIDE DEF Published
  <2> QED BY <1>1, <1>2, <2>1, <2>2, ForgetFrames DEF LogStep, Forget
<1>5. CASE Open
  <2>1. pc = "closed" /\ wpc' = "start" /\ UNCHANGED valid /\ Forget(valid)
    BY <1>5 DEF Open, file
  <2>2. wpc = "stopped"
    BY <2>1 DEF AllInv, IdsInv
  <2>3. Published' = Published /\ Published <= valid
    BY <1>1, <2>1, <2>2 DEF Published
  <2> HIDE DEF Published
  <2> QED BY <1>1, <2>1, <2>3, ForgetFrames DEF LogStep, Forget
<1>6. CASE Worker_head
  <2>1. log' = log /\ Published' = valid
    BY <1>6 DEF Worker_head, BackToIdle, WorkerDies, Published
  <2> QED BY <1>1, <2>1 DEF LogStep
<1>7. CASE Worker_store
  <2>1. /\ wpc = "store" /\ wpc' = "head" /\ UNCHANGED <<wvalid, log>>
    BY <1>7 DEF Worker_store
  <2>2. wvalid = valid
    BY <2>1 DEF AllInv, ContentsInv, BatchInv
  <2> QED BY <1>2, <2>1, <2>2 DEF Published
<1>8. CASE Crash
  <2>1. wpc # "head"
    BY <1>8, SpendExcluded
       DEF Crash, AllInv, TypeInv, ContentsInv, ControlInv, OrderInv, Excluded, BudgetKinds
  <2> QED BY <1>2, <1>8, <2>1 DEF Crash, Gone, Published
<1>9. CASE Join
  BY <1>2, <1>9 DEF Join, Gone, ReceiverAlive, Published, file
<1>10. CASE (\E count \in 0 .. current_token_count : Truncate_epoch(count)) \/ Drop
  BY <1>2, <1>10 DEF Truncate_epoch, Drop, Published, file, worker
<1>11. CASE \/ Worker_start \/ Worker_receive \/ Worker_payload \/ Worker_index \/ Worker_trailer
            \/ Worker_check \/ Worker_load
  BY <1>2, <1>11 DEF Worker_start, Worker_receive, Worker_payload, Worker_index, Worker_trailer,
     Worker_check, Worker_load, BackToIdle, Published, file
<1>12. CASE Worker_fails
  BY <1>2, <1>12 DEF Worker_fails, WorkerDies, Published
<1>13. CASE UNCHANGED vars
  BY <1>2, <1>13 DEF vars, file, worker, Published
<1>14. ~Truncate_store /\ ~Truncate_committed /\ ~Flush_pending
  <2>1. ~Truncate_store
    BY DEF Truncate_store, AllInv, ContentsInv, ControlInv, OrderInv, Excluded
  <2>2. ~Truncate_committed
    BY <1>1 DEF Truncate_committed, IsCommitted, AllInv, ContentsInv, ControlInv, OrderInv, Excluded
  <2>3. ~Flush_pending
    BY SpendExcluded
       DEF Flush_pending, AllInv, TypeInv, ContentsInv, ControlInv, OrderInv, Excluded, BudgetKinds
  <2> QED BY <2>1, <2>2, <2>3
<1> QED BY <1>3, <1>4, <1>5, <1>6, <1>7, <1>8, <1>9, <1>10, <1>11, <1>12, <1>13, <1>14
        DEF Next, Caller, Worker

\* Every step is one of the abstract log or leaves it alone.
LEMMA StepRefines ==
  Disciplined /\ AllInv /\ AllInv' /\ [Next]_vars => [AbstractLog!Next]_(AbstractLog!logVars)
<1> SUFFICES ASSUME Disciplined, AllInv, AllInv', [Next]_vars
             PROVE  AbstractLog!Next \/ UNCHANGED <<log, Durable>>
  BY DEF AbstractLog!logVars
<1>1. Durable = FirstFrames(log, Published) /\ Durable' = FirstFrames(log', Published')
  BY DurableIs, DurableNext
<1>2. /\ Published \in Nat /\ Published <= Len(log) /\ log \in Seq(Frames) /\ Len(log) \in Nat
  BY PublishedNat, PublishedBound, LenProperties DEF AllInv, TypeInv, TypeOK
<1>3. Published' \in Nat /\ Published' <= Len(log') /\ log' \in Seq(Frames)
  BY DEF AllInv, TypeInv, TypeOK, ContentsInv, StoredInv, Stored, StoredIn, Published
<1> HIDE DEF Durable, Published
<1>4. CASE log' = log /\ Published <= Published'
  <2>1. AbstractLog!IsPrefix(Durable, Durable') /\ AbstractLog!IsPrefix(Durable', log)
    BY <1>1, <1>2, <1>3, <1>4, FirstFramesPrefix
  <2> QED BY <1>4, <2>1 DEF AbstractLog!Next, AbstractLog!Publish
<1>5. CASE Published' = Published /\ \E f \in Frames : log' = Append(log, f)
  <2>1. PICK f \in Frames : log' = Append(log, f)
    BY <1>5
  <2>2. Keeps(log, log', Published)
    BY <1>2, <2>1, AppendKeeps
  <2>3. Durable' = Durable
    BY <1>1, <1>5, <2>2 DEF FirstFrames, Keeps
  <2> QED BY <2>1, <2>3 DEF AbstractLog!Next, AbstractLog!Accept
<1>6. CASE /\ Published' = Published
           /\ \E n \in Nat : Published <= n /\ n <= Len(log) /\ log' = FirstFrames(log, n)
  <2>1. PICK n \in Nat : Published <= n /\ n <= Len(log) /\ log' = FirstFrames(log, n)
    BY <1>6
  <2>2. AbstractLog!IsPrefix(log', log) /\ AbstractLog!IsPrefix(Durable, log')
    BY <1>1, <1>2, <2>1, FirstFramesPrefix
  <2>3. \A i \in 1 .. Published : i \in 1 .. n /\ log'[i] = log[i]
    BY <1>2, <2>1 DEF FirstFrames
  <2>4. Durable' = Durable
    BY <1>1, <1>6, <2>3 DEF FirstFrames
  <2> QED BY <2>2, <2>4 DEF AbstractLog!Next, AbstractLog!TakeBack
<1> QED BY <1>4, <1>5, <1>6, StepLog DEF LogStep

LEMMA InitRefines == Disciplined /\ Init => AbstractLog!Init
<1> SUFFICES ASSUME Disciplined, Init PROVE log = <<>> /\ Durable = <<>>
  BY DEF AbstractLog!Init
<1>1. AllInv
  BY InitType, InitChain, InitIds, InitPaced, InitControl, InitRest DEF AllInv, ContentsInv, RestInv
<1>2. log = <<>> /\ Published = 0
  BY DEF Init, Published
<1>3. Durable = FirstFrames(log, 0)
  BY <1>1, <1>2, DurableIs
<1> QED BY <1>2, <1>3 DEF FirstFrames

\* The disciplined writer implements the abstract log: a frame is accepted, published
\* frames grow in order and without holes, and only frames that are not published yet
\* are taken back, by truncate or by a crash.
THEOREM DisciplinedIsALog == Disciplined => (Spec => ImplementsLog)
<1> SUFFICES ASSUME Disciplined PROVE Spec => ImplementsLog
  OBVIOUS
<1>1. Init => AbstractLog!Init
  BY InitRefines
<1>2. AllInv /\ AllInv' /\ [Next]_vars => [AbstractLog!Next]_(AbstractLog!logVars)
  BY StepRefines
<1>3. Spec => []AllInv
  BY ContentsInvariant
<1> QED BY <1>1, <1>2, <1>3, PTL DEF Spec, ImplementsLog, AbstractLog!Spec
=============================================================================
