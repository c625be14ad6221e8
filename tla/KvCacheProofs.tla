--------------------------- MODULE KvCacheProofs ---------------------------
(***************************************************************************)
(* Proofs about KvCacheWriter for every block size, number of columns,     *)
(* budget and caller discipline.                                           *)
(***************************************************************************)
EXTENDS KvCacheWriter, SequenceTheorems, NatLemmas

-----------------------------------------------------------------------------
(***************************************************************************)
(* Columns, cells and spans.                                               *)
(***************************************************************************)
LEMMA ColsNat == 0 \in Cols /\ Cols \subseteq Nat
BY ColumnsAssumption DEF Cols

LEMMA TokensAreCells ==
  ASSUME NEW c \in Cols
  PROVE  ColumnToken(c) \subseteq Cell /\ Seq(ColumnToken(c)) \subseteq Seq(Cell)
<1>1. ColumnToken(c) \subseteq Cell
  BY DEF ColumnToken, Cell
<1>2. ASSUME NEW s \in Seq(ColumnToken(c)) PROVE s \in Seq(Cell)
  BY <1>1, SeqMonotonic
<1> QED BY <1>1, <1>2

LEMMA MinPair ==
  ASSUME NEW a \in Int, NEW b \in Int
  PROVE  Min({a, b}) = IF a <= b THEN a ELSE b
<1>1. PICK m \in {a, b} : \A y \in {a, b} : m <= y
  OBVIOUS
<1>2. Min({a, b}) \in {a, b} /\ \A y \in {a, b} : Min({a, b}) <= y
  BY <1>1 DEF Min
<1> QED BY <1>2

\* A file grows: it keeps its cells and is at least as long.
Extends(f, g) == Len(f) <= Len(g) /\ \A q \in 1 .. Len(f) : g[q] = f[q]

LEMMA SpansExtends ==
  ASSUME NEW f \in Seq(Cell), NEW g \in Seq(Cell), Extends(f, g),
         NEW l \in Nat, NEW m \in Nat, l <= Len(f) + 1, l <= m,
         NEW c \in Cols, NEW e \in Entry, Spans(f, l, e, c)
  PROVE  Spans(g, m, e, c)
<1>1. e.byte_offset \in Nat /\ e.byte_len \in Nat
  BY DEF Entry
<1>2. Len(f) \in Nat
  BY LenProperties
<1> QED BY <1>1, <1>2 DEF Spans, Extends

LEMMA AppendExtends ==
  ASSUME NEW f \in Seq(Cell), NEW x \in Cell
  PROVE  /\ Append(f, x) \in Seq(Cell) /\ Extends(f, Append(f, x))
         /\ Len(Append(f, x)) = Len(f) + 1 /\ Append(f, x)[Len(f) + 1] = x
<1>1. Len(f) \in Nat
  BY LenProperties
<1> QED BY <1>1, AppendProperties DEF Extends

LEMMA ConcatExtends ==
  ASSUME NEW f \in Seq(Cell), NEW c \in Cols, NEW s \in Seq(ColumnToken(c))
  PROVE  /\ f \o s \in Seq(Cell) /\ Extends(f, f \o s)
         /\ Len(f \o s) = Len(f) + Len(s)
         /\ \A q \in Len(f) + 1 .. Len(f) + Len(s) : (f \o s)[q] \in ColumnToken(c)
<1>1. s \in Seq(Cell)
  BY TokensAreCells
<1>2. Len(f) \in Nat /\ Len(s) \in Nat
  BY LenProperties
<1>3. /\ f \o s \in Seq(Cell)
      /\ Len(f \o s) = Len(f) + Len(s)
      /\ \A i \in 1 .. Len(f) + Len(s) :
           (f \o s)[i] = IF i <= Len(f) THEN f[i] ELSE s[i - Len(f)]
  BY <1>1, ConcatProperties
<1>4. ASSUME NEW q \in Len(f) + 1 .. Len(f) + Len(s) PROVE (f \o s)[q] \in ColumnToken(c)
  <2>1. q - Len(f) \in 1 .. Len(s) /\ (f \o s)[q] = s[q - Len(f)]
    BY <1>2, <1>3
  <2> QED BY <2>1, ElementOfSeq
<1>5. Extends(f, f \o s)
  BY <1>2, <1>3 DEF Extends
<1> QED BY <1>3, <1>4, <1>5

\* The index blocks of a file stay sound when it grows by sound ones.
SoundFile(f) ==
  \A p \in DOMAIN f : f[p].kind = "index" => \A c \in Cols : Spans(f, p, f[p].entries[c], c)

LEMMA SoundExtends ==
  ASSUME NEW f \in Seq(Cell), NEW g \in Seq(Cell), Extends(f, g), SoundFile(f),
         \A p \in Len(f) + 1 .. Len(g) :
            g[p].kind = "index" => \A c \in Cols : Spans(g, p, g[p].entries[c], c)
  PROVE  SoundFile(g)
<1> SUFFICES ASSUME NEW p \in DOMAIN g, g[p].kind = "index", NEW c \in Cols
             PROVE  Spans(g, p, g[p].entries[c], c)
  BY DEF SoundFile
<1>1. Len(f) \in Nat /\ Len(g) \in Nat /\ DOMAIN f = 1 .. Len(f) /\ DOMAIN g = 1 .. Len(g)
  BY LenProperties
<1>2. CASE p \in Len(f) + 1 .. Len(g)
  BY <1>2
<1>3. CASE p \in 1 .. Len(f)
  <2>1. g[p] = f[p] /\ f[p] \in Cell
    BY <1>3, ElementOfSeq DEF Extends
  <2>2. f[p].entries[c] \in Entry
    BY <2>1 DEF Cell, Header, Torn
  <2>3. Spans(f, p, f[p].entries[c], c)
    BY <1>1, <1>3, <2>1 DEF SoundFile
  <2> QED BY <1>1, <1>3, <2>1, <2>2, <2>3, SpansExtends
<1> QED BY <1>1, <1>2, <1>3
-----------------------------------------------------------------------------
(***************************************************************************)
(* The inductive invariant for types and payloads.  Types alone are not    *)
(* inductive: open copies a block out of the file, so its bytes have a     *)
(* type only because the entry that locates it spans tokens.               *)
(***************************************************************************)
TypeInv == TypeOK /\ EntriesSound /\ PendingSound

LEMMA EntriesSoundIsSoundFile == EntriesSound <=> SoundFile(disk)
BY DEF EntriesSound, SoundFile

LEMMA EmptySound ==
  /\ NewBuffers \in [Cols -> ColumnBuffer]
  /\ NoBatch \in FlushBatch
  /\ \A c \in Cols : /\ NewBuffers[c].data \in Seq(ColumnToken(c))
                    /\ NoBatch.payloads[c] \in Seq(ColumnToken(c))
                    /\ \A f, l : Spans(f, l, NoBatch.entries[c], c)
<1>1. \A c \in Cols : <<>> \in Seq(Cell) /\ <<>> \in Seq(ColumnToken(c))
  BY EmptySeq
<1>2. NewBuffers \in [Cols -> ColumnBuffer] /\ \A c \in Cols : NewBuffers[c].data = <<>>
  BY <1>1 DEF NewBuffers, EmptyBuffer, ColumnBuffer
<1>3. [c \in Cols |-> [chunk_id |-> 0, col |-> c, block_idx |-> 0, byte_offset |-> 0,
                       byte_len |-> 0, token_count |-> 0]] \in [Cols -> Entry]
  BY DEF Entry
<1>4. [c \in Cols |-> <<>>] \in [Cols -> Seq(Cell)]
  BY <1>1
<1>5. NoBatch \in FlushBatch
  BY <1>3, <1>4 DEF NoBatch, FlushBatch
<1>6. ASSUME NEW c \in Cols, NEW f, NEW l
      PROVE  NoBatch.payloads[c] = <<>> /\ Spans(f, l, NoBatch.entries[c], c)
  BY DEF NoBatch, Spans
<1> QED BY <1>1, <1>2, <1>5, <1>6

LEMMA InitType == Init => TypeInv
<1> SUFFICES ASSUME Init PROVE TypeInv
  OBVIOUS
<1>1. disk = <<Header>> /\ disk \in Seq(Cell) /\ Len(disk) = 1 /\ disk[1] = Header
  BY DEF Init, Cell
<1>2. <<>> \in Seq(FlushCommand) /\ <<>> \in Seq(Frames) /\ <<>> \in Seq(FreshCommand)
  BY EmptySeq
<1>3. wcol \in Cols
  BY ColsNat DEF Init
<1>4. budget \in [BudgetKinds -> Nat] /\ \A k \in BudgetKinds : budget[k] <= Budget[k]
  BY BudgetAssumption DEF Init
<1>5. TypeOK
  BY <1>1, <1>2, <1>3, <1>4, EmptySound DEF TypeOK, Init
<1>6. EntriesSound
  BY <1>1 DEF EntriesSound, Header
<1>7. PendingSound
  BY <1>2, EmptySound DEF PendingSound, Init
<1> QED BY <1>5, <1>6, <1>7 DEF TypeInv

\* Spending keeps the budget a budget.
LEMMA SpendType ==
  ASSUME TypeOK, NEW k \in BudgetKinds, Spend(k)
  PROVE  /\ budget' \in [BudgetKinds -> Nat]
         /\ \A j \in BudgetKinds : budget'[j] <= Budget[j]
<1>1. budget \in [BudgetKinds -> Nat] /\ \A j \in BudgetKinds : budget[j] <= Budget[j]
  BY DEF TypeOK
<1>2. budget[k] > 0 /\ budget' = [budget EXCEPT ![k] = budget[k] - 1]
  BY DEF Spend
<1>3. \A j \in BudgetKinds : budget[j] \in Nat /\ Budget[j] \in Nat
  BY <1>1, BudgetAssumption
<1>4. \A j \in BudgetKinds : budget'[j] \in Nat /\ budget'[j] <= budget[j]
  BY <1>1, <1>2, <1>3
<1>5. budget' \in [BudgetKinds -> Nat]
  BY <1>1, <1>2, <1>3
<1> QED BY <1>1, <1>3, <1>4, <1>5

LEMMA FreshCommands ==
  /\ Stop \in FreshCommand /\ <<Stop>> \in Seq(FreshCommand) /\ <<>> \in Seq(FreshCommand)
  /\ Seq(FreshCommand) \subseteq Seq(FlushCommand)
<1>1. Stop \in FreshCommand
  BY DEF FreshCommand, FlushCommand, Stop
<1>2. FreshCommand \subseteq FlushCommand
  BY DEF FreshCommand
<1>3. Seq(FreshCommand) \subseteq Seq(FlushCommand)
  BY <1>2, SeqMonotonic
<1> QED BY <1>1, <1>3, EmptySeq

\* Buffers whose bytes are tokens of their columns.
SoundBuffers(bufs) ==
  /\ bufs \in [Cols -> ColumnBuffer]
  /\ \A c \in Cols : bufs[c].data \in Seq(ColumnToken(c))

LEMMA BatchType ==
  ASSUME TypeInv, NEW bufs, SoundBuffers(bufs)
  PROVE  [cmd |-> "Flush", batch |-> BatchOf(bufs)] \in FreshCommand
<1> DEFINE b == BatchOf(bufs)
<1>1. \A c \in Cols : bufs[c] \in ColumnBuffer /\ bufs[c].data \in Seq(Cell)
  BY DEF SoundBuffers, ColumnBuffer
<1>2. \A c \in Cols : /\ bufs[c].token_count \in Nat /\ bufs[c].existing_tokens \in Nat
                     /\ bufs[c].block_idx \in Nat /\ next_chunk_id + c \in Nat
  <2>1. next_chunk_id \in Nat /\ \A c \in Cols : c \in Nat
    BY ColsNat DEF TypeInv, TypeOK
  <2>2. \A c \in Cols : next_chunk_id + c \in Nat
    BY <2>1
  <2> QED BY <1>1, <2>2 DEF ColumnBuffer
<1>3. bufs[0].token_count \in Nat /\ bufs[0].existing_tokens \in Nat
  BY <1>2, ColsNat
<1>4. b.entries \in [Cols -> Entry]
  BY <1>2, <1>3 DEF BatchOf, Entry
<1>5. b.payloads \in [Cols -> Seq(Cell)]
  BY <1>1 DEF BatchOf
<1>6. b \in FlushBatch
  BY <1>3, <1>4, <1>5 DEF BatchOf, FlushBatch, PrevIndexOffset, TypeInv, TypeOK
<1>7. \A c \in Cols : /\ b.payloads[c] \in Seq(ColumnToken(c))
                     /\ b.entries[c].col = c /\ b.entries[c].byte_len = 0
  BY DEF BatchOf, SoundBuffers
<1>8. [cmd |-> "Flush", batch |-> b] \in FlushCommand
  BY <1>6 DEF FlushCommand
<1> DEFINE m == [cmd |-> "Flush", batch |-> b]
<1>9. m.batch = b
  OBVIOUS
<1> HIDE DEF b
<1>10. m.batch.payloads = b.payloads /\ m.batch.entries = b.entries
  BY <1>9
<1> HIDE DEF m
<1>11. m \in FreshCommand
  BY <1>7, <1>8, <1>10 DEF FreshCommand, m
<1> QED BY <1>11 DEF m, b

LEMMA FlushType ==
  ASSUME TypeInv, NEW bufs, SoundBuffers(bufs), NEW tail, tail \in {<<>>, <<Stop>>},
         FlushBlock(bufs, tail)
  PROVE  /\ SoundBuffers(buffers') /\ queue' \in Seq(FreshCommand)
         /\ next_chunk_id' \in Nat /\ pending_block_idx' \in Nat
<1>1. tail \in Seq(FreshCommand) /\ queue \in Seq(FreshCommand)
  BY FreshCommands DEF TypeInv, PendingSound
<1>2. next_chunk_id \in Nat /\ pending_block_idx \in Nat /\ NumColumns \in Nat
  BY ColumnsAssumption DEF TypeInv, TypeOK
<1>3. \A c \in Cols : /\ bufs[c] \in ColumnBuffer /\ bufs[c].block_idx \in Nat
                     /\ <<>> \in Seq(Cell) /\ <<>> \in Seq(ColumnToken(c))
  BY EmptySeq DEF SoundBuffers, ColumnBuffer
<1>4. CASE FlushNothing(bufs, tail)
  BY <1>1, <1>2, <1>4, ConcatProperties DEF FlushNothing
<1>5. CASE FlushSent(bufs, tail)
  <2>1. Append(queue, [cmd |-> "Flush", batch |-> BatchOf(bufs)]) \in Seq(FreshCommand)
    BY <1>1, BatchType, AppendProperties
  <2>2. queue' \in Seq(FreshCommand)
    BY <1>1, <1>5, <2>1, ConcatProperties DEF FlushSent
  <2>3. buffers' = [c \in Cols |-> EmptyBuffer(bufs[c].block_idx + 1)]
    BY <1>5 DEF FlushSent, Reset
  <2>4. ASSUME NEW c \in Cols
        PROVE  EmptyBuffer(bufs[c].block_idx + 1) \in ColumnBuffer
                 /\ EmptyBuffer(bufs[c].block_idx + 1).data = <<>>
    BY <1>3 DEF EmptyBuffer, ColumnBuffer
  <2>5. SoundBuffers(buffers')
    BY <1>3, <2>3, <2>4 DEF SoundBuffers
  <2> QED BY <1>2, <1>5, <2>2, <2>5 DEF FlushSent
<1>6. CASE FlushLost(bufs)
  <2>1. buffers' = [c \in Cols |-> [bufs[c] EXCEPT !.data = <<>>]]
    BY <1>6 DEF FlushLost
  <2>2. SoundBuffers(buffers')
    BY <1>3, <2>1 DEF SoundBuffers, ColumnBuffer
  <2> QED BY <1>1, <1>2, <1>6, <2>2 DEF FlushLost
<1> QED BY <1>4, <1>5, <1>6 DEF FlushBlock

-----------------------------------------------------------------------------
(***************************************************************************)
(* Every action preserves TypeInv.                                         *)
(***************************************************************************)

\* What a step of the caller must establish when it writes neither the file nor
\* the worker's batch.
LEMMA CallerSound ==
  ASSUME TypeInv, UNCHANGED <<disk, wbatch>>, SoundBuffers(buffers'),
         queue' \in Seq(FreshCommand)
  PROVE  /\ EntriesSound' /\ PendingSound'
         /\ disk' \in Seq(Cell) /\ wbatch' \in FlushBatch
         /\ queue' \in Seq(FlushCommand) /\ buffers' \in [Cols -> ColumnBuffer]
<1>1. EntriesSound' /\ disk' \in Seq(Cell) /\ wbatch' \in FlushBatch
  BY DEF TypeInv, TypeOK, EntriesSound
<1>2. PendingSound'
  BY DEF TypeInv, PendingSound, SoundBuffers
<1> QED BY <1>1, <1>2, FreshCommands DEF SoundBuffers

\* What TypeInv says of the buffers and the channel.
LEMMA TypeInvBuffers ==
  ASSUME TypeInv
  PROVE  /\ SoundBuffers(buffers) /\ queue \in Seq(FreshCommand)
         /\ buffers[0].token_count \in Nat /\ buffers[0].existing_tokens \in Nat
<1>1. SoundBuffers(buffers) /\ queue \in Seq(FreshCommand)
  BY DEF TypeInv, TypeOK, PendingSound, SoundBuffers
<1> QED BY <1>1, ColsNat DEF SoundBuffers, ColumnBuffer

\* The buffers with a frame more.
LEMMA AppendedBuffers ==
  ASSUME TypeInv, Append_frame
  PROVE  /\ NextFrame \in Frames
         /\ SoundBuffers([c \in Cols |->
              [buffers[c] EXCEPT !.data = Append(@, Token(c, NextFrame)), !.token_count = @ + 1]])
<1> DEFINE f == NextFrame
           bufs == [c \in Cols |-> [buffers[c] EXCEPT !.data = Append(@, Token(c, f)),
                                                      !.token_count = @ + 1]]
<1>1. f \in Frames /\ f \in Nat
  <2>0. budget["frame"] > 0
    BY DEF Append_frame, Spend
  <2>1. budget["frame"] \in Nat /\ budget["frame"] <= Budget["frame"]
          /\ Budget["frame"] \in Nat /\ budget["frame"] > 0
    BY <2>0, BudgetAssumption DEF TypeInv, TypeOK, BudgetKinds
  <2> QED BY <2>1 DEF NextFrame, Frames
<1> HIDE DEF f
<1>2. SoundBuffers(bufs)
  <2> SUFFICES ASSUME NEW c \in Cols
               PROVE  bufs[c] \in ColumnBuffer /\ bufs[c].data \in Seq(ColumnToken(c))
    BY DEF SoundBuffers
  <2>1. buffers[c] \in ColumnBuffer /\ buffers[c].data \in Seq(ColumnToken(c))
    BY TypeInvBuffers DEF SoundBuffers
  <2>2. Token(c, f) \in ColumnToken(c)
    BY <1>1 DEF Token, ColumnToken
  <2>3. Append(buffers[c].data, Token(c, f)) \in Seq(ColumnToken(c))
    BY <2>1, <2>2, AppendProperties
  <2>4. Append(buffers[c].data, Token(c, f)) \in Seq(Cell)
    BY <2>3, TokensAreCells
  <2> DEFINE d == Append(buffers[c].data, Token(c, f))
             n == buffers[c].token_count + 1
  <2>5. bufs[c] = [buffers[c] EXCEPT !.data = d, !.token_count = n]
    OBVIOUS
  <2>6. d \in Seq(ColumnToken(c)) /\ d \in Seq(Cell)
    BY <2>3, <2>4
  <2>7. n \in Nat
    BY <2>1 DEF ColumnBuffer
  <2> HIDE DEF bufs, d, n
  <2> QED BY <2>1, <2>5, <2>6, <2>7 DEF ColumnBuffer
<1> QED BY <1>1, <1>2 DEF f

LEMMA AppendFrameType == TypeInv /\ Append_frame => TypeInv'
<1> SUFFICES ASSUME TypeInv, Append_frame PROVE TypeInv'
  OBVIOUS
<1> DEFINE f == NextFrame
           bufs == [c \in Cols |-> [buffers[c] EXCEPT !.data = Append(@, Token(c, f)),
                                                      !.token_count = @ + 1]]
<1>1. Spend("frame") /\ "frame" \in BudgetKinds
  BY DEF Append_frame, BudgetKinds
<1>2. budget' \in [BudgetKinds -> Nat] /\ \A k \in BudgetKinds : budget'[k] <= Budget[k]
  BY <1>1, SpendType DEF TypeInv
<1>3. f \in Frames /\ SoundBuffers(bufs)
  BY AppendedBuffers
<1> HIDE DEF f
<1>4. SoundBuffers(bufs)
  BY <1>3
<1>5. /\ SoundBuffers(buffers') /\ queue' \in Seq(FreshCommand)
      /\ next_chunk_id' \in Nat /\ pending_block_idx' \in Nat
  <2>1. CASE /\ buffers' = bufs
             /\ UNCHANGED <<queue, next_chunk_id, pending_block_idx>>
    BY <1>4, <2>1, TypeInvBuffers DEF TypeInv, TypeOK
  <2>2. CASE FlushBlock(bufs, <<>>)
    BY <1>4, <2>2, FlushType
  <2>3. \/ buffers' = bufs /\ UNCHANGED <<queue, next_chunk_id, pending_block_idx>>
        \/ FlushBlock(bufs, <<>>)
    BY DEF Append_frame, FlushBlock, f
  <2> QED BY <2>1, <2>2, <2>3
<1>6. log' \in Seq(Frames)
  <2>1. log \in Seq(Frames)
    BY DEF TypeInv, TypeOK
  <2>2. Append(log, f) \in Seq(Frames)
    BY <1>3, <2>1, AppendProperties
  <2>3. log' = log \/ log' = Append(log, f)
    BY DEF Append_frame, f
  <2> QED BY <2>1, <2>2, <2>3
<1> HIDE DEF bufs
<1>7. /\ current_token_count' = current_token_count + 1
      /\ UNCHANGED <<file, pc, targ, flush_error, worker>>
  BY DEF Append_frame
<1>8. UNCHANGED <<disk, wbatch>>
  BY <1>7 DEF file, worker
<1>9. /\ EntriesSound' /\ PendingSound'
      /\ disk' \in Seq(Cell) /\ wbatch' \in FlushBatch
      /\ queue' \in Seq(FlushCommand) /\ buffers' \in [Cols -> ColumnBuffer]
  BY <1>5, <1>8, CallerSound
<1>10. TypeOK'
  BY <1>2, <1>5, <1>6, <1>7, <1>9 DEF TypeInv, TypeOK, file, worker
<1> QED BY <1>9, <1>10 DEF TypeInv

LEMMA FlushPendingType == TypeInv /\ Flush_pending => TypeInv'
<1> SUFFICES ASSUME TypeInv, Flush_pending PROVE TypeInv'
  OBVIOUS
<1>1. Spend("flush") /\ "flush" \in BudgetKinds
  BY DEF Flush_pending, BudgetKinds
<1>2. budget' \in [BudgetKinds -> Nat] /\ \A k \in BudgetKinds : budget'[k] <= Budget[k]
  BY <1>1, SpendType DEF TypeInv
<1>3. FlushBlock(buffers, <<>>)
  BY DEF Flush_pending, FlushBlock
<1>4. /\ SoundBuffers(buffers') /\ queue' \in Seq(FreshCommand)
      /\ next_chunk_id' \in Nat /\ pending_block_idx' \in Nat
  BY <1>3, TypeInvBuffers, FlushType
<1>5. UNCHANGED <<file, pc, targ, current_token_count, flush_error, worker, log>>
  BY DEF Flush_pending
<1>6. /\ EntriesSound' /\ PendingSound'
      /\ disk' \in Seq(Cell) /\ wbatch' \in FlushBatch
      /\ queue' \in Seq(FlushCommand) /\ buffers' \in [Cols -> ColumnBuffer]
  BY <1>4, <1>5, CallerSound DEF file, worker
<1>7. TypeOK'
  BY <1>2, <1>4, <1>5, <1>6 DEF TypeInv, TypeOK, file, worker
<1> QED BY <1>6, <1>7 DEF TypeInv

LEMMA TruncateEpochType ==
  ASSUME TypeInv, NEW count \in 0 .. current_token_count, Truncate_epoch(count)
  PROVE  TypeInv'
<1>1. Spend("truncate") /\ "truncate" \in BudgetKinds
  BY DEF Truncate_epoch, BudgetKinds
<1>2. budget' \in [BudgetKinds -> Nat] /\ \A k \in BudgetKinds : budget'[k] <= Budget[k]
  BY <1>1, SpendType DEF TypeInv
<1>3. /\ epoch' = epoch + 1 /\ pc' = "load" /\ targ' = count
      /\ UNCHANGED <<disk, valid, head, writer, queue, flush_error, worker, log>>
  BY DEF Truncate_epoch
<1>4. SoundBuffers(buffers') /\ queue' \in Seq(FreshCommand)
  BY <1>3, TypeInvBuffers DEF writer
<1>5. /\ EntriesSound' /\ PendingSound'
      /\ disk' \in Seq(Cell) /\ wbatch' \in FlushBatch
      /\ queue' \in Seq(FlushCommand) /\ buffers' \in [Cols -> ColumnBuffer]
  BY <1>3, <1>4, CallerSound DEF worker
<1>6. epoch' \in Nat /\ targ' \in Nat
  BY <1>3 DEF TypeInv, TypeOK
<1>7. TypeOK'
  BY <1>2, <1>3, <1>5, <1>6 DEF TypeInv, TypeOK, writer, worker
<1> QED BY <1>5, <1>7 DEF TypeInv

\* A prefix of the log is a log.
LEMMA ForgetType ==
  ASSUME TypeInv, NEW n \in Nat, Forget(n)
  PROVE  log' \in Seq(Frames)
<1>1. log \in Seq(Frames) /\ Len(log) \in Nat
  BY LenProperties DEF TypeInv, TypeOK
<1>2. Min({n, Len(log)}) \in Int /\ Min({n, Len(log)}) <= Len(log)
  BY <1>1, MinPair
<1> DEFINE m == Min({n, Len(log)})
<1>3. \A i \in 1 .. m : log[i] \in Frames
  BY <1>1, <1>2, ElementOfSeq
<1>4. SubSeq(log, 1, m) \in Seq(Frames)
  <2>1. m \in Int /\ 1 \in Int
    BY <1>2
  <2> HIDE DEF m
  <2> QED BY <1>3, <2>1, SubSeqProperties
<1> QED BY <1>4 DEF Forget

LEMMA TruncateCommittedType == TypeInv /\ Truncate_committed => TypeInv'
<1> SUFFICES ASSUME TypeInv, Truncate_committed PROVE TypeInv'
  OBVIOUS
<1>1. /\ current_token_count' = targ /\ pc' = "store"
      /\ UNCHANGED <<file, targ, buffers, next_chunk_id, pending_block_idx, queue,
                     flush_error, worker, log, budget>>
  BY DEF Truncate_committed
<1>2. SoundBuffers(buffers') /\ queue' \in Seq(FreshCommand)
  BY <1>1, TypeInvBuffers
<1>3. /\ EntriesSound' /\ PendingSound'
      /\ disk' \in Seq(Cell) /\ wbatch' \in FlushBatch
      /\ queue' \in Seq(FlushCommand) /\ buffers' \in [Cols -> ColumnBuffer]
  BY <1>1, <1>2, CallerSound DEF file, worker
<1>4. TypeOK'
  BY <1>1, <1>3 DEF TypeInv, TypeOK, file, worker
<1> QED BY <1>3, <1>4 DEF TypeInv

LEMMA TruncateStoreType == TypeInv /\ Truncate_store => TypeInv'
<1> SUFFICES ASSUME TypeInv, Truncate_store PROVE TypeInv'
  OBVIOUS
<1>1. /\ valid' = targ /\ pc' = "ready" /\ targ' = 0 /\ Forget(targ)
      /\ UNCHANGED <<disk, epoch, head, writer, queue, flush_error, worker, budget>>
  BY DEF Truncate_store
<1>2. SoundBuffers(buffers') /\ queue' \in Seq(FreshCommand)
  BY <1>1, TypeInvBuffers DEF writer
<1>3. /\ EntriesSound' /\ PendingSound'
      /\ disk' \in Seq(Cell) /\ wbatch' \in FlushBatch
      /\ queue' \in Seq(FlushCommand) /\ buffers' \in [Cols -> ColumnBuffer]
  BY <1>1, <1>2, CallerSound DEF worker
<1>4. targ \in Nat
  BY DEF TypeInv, TypeOK
<1>5. log' \in Seq(Frames)
  BY <1>1, <1>4, ForgetType
<1>6. TypeOK'
  BY <1>1, <1>3, <1>4, <1>5 DEF TypeInv, TypeOK, writer, worker
<1> QED BY <1>3, <1>6 DEF TypeInv

LEMMA KeepTokensType ==
  ASSUME NEW c \in Cols, NEW b \in ColumnBuffer, b.data \in Seq(ColumnToken(c)),
         NEW keep \in Nat
  PROVE  /\ KeepTokens(b, keep) \in ColumnBuffer
         /\ KeepTokens(b, keep).data \in Seq(ColumnToken(c))
<1> DEFINE m == Min({keep, Len(b.data)})
           d == SubSeq(b.data, 1, m)
           x == Min({b.existing_tokens, keep})
<1>1. Len(b.data) \in Nat /\ b.existing_tokens \in Nat
  BY LenProperties DEF ColumnBuffer
<1>2. m \in Int /\ m <= Len(b.data)
  BY <1>1, MinPair
<1>3. x \in Nat
  BY <1>1, MinPair
<1>4. d \in Seq(ColumnToken(c))
  <2>1. \A i \in 1 .. m : b.data[i] \in ColumnToken(c)
    BY <1>1, <1>2, ElementOfSeq
  <2>2. 1 \in Int
    OBVIOUS
  <2> HIDE DEF m
  <2> QED BY <1>2, <2>1, <2>2, SubSeqProperties
<1>5. d \in Seq(Cell)
  BY <1>4, TokensAreCells
<1>6. KeepTokens(b, keep) = [b EXCEPT !.token_count = keep, !.existing_tokens = x,
                                      !.data = d]
  BY DEF KeepTokens
<1> HIDE DEF m, d, x
<1> QED BY <1>3, <1>4, <1>5, <1>6 DEF ColumnBuffer

LEMMA TruncatePendingType == TypeInv /\ Truncate_pending => TypeInv'
<1> SUFFICES ASSUME TypeInv, Truncate_pending PROVE TypeInv'
  OBVIOUS
<1> DEFINE drop_tokens == current_token_count - targ
           keep == buffers[0].token_count - drop_tokens
<1>1. /\ pc' = "ready" /\ targ' = 0
      /\ UNCHANGED <<file, next_chunk_id, pending_block_idx, queue, flush_error,
                     worker, budget>>
  BY DEF Truncate_pending
<1>2. targ \in Nat /\ current_token_count \in Nat
  BY DEF TypeInv, TypeOK
<1>3. SoundBuffers(buffers') /\ current_token_count' \in Nat /\ log' \in Seq(Frames)
  <2>1. CASE /\ ~Underflows(buffers[0].token_count, drop_tokens)
             /\ buffers' = [c \in Cols |-> KeepTokens(buffers[c], keep)]
             /\ current_token_count' = targ
             /\ Forget(targ)
    <3>1. keep \in Nat
      BY <1>2, <2>1, TypeInvBuffers DEF Underflows
    <3>2. \A c \in Cols : /\ KeepTokens(buffers[c], keep) \in ColumnBuffer
                         /\ KeepTokens(buffers[c], keep).data \in Seq(ColumnToken(c))
      <4> HIDE DEF keep
      <4> QED BY <3>1, TypeInvBuffers, KeepTokensType DEF SoundBuffers
    <3>3. SoundBuffers(buffers')
      <4> HIDE DEF keep
      <4> QED BY <2>1, <3>2 DEF SoundBuffers
    <3> QED BY <1>2, <2>1, <3>3, ForgetType
  <2>2. CASE UNCHANGED <<buffers, current_token_count, log>>
    BY <1>2, <2>2, TypeInvBuffers DEF TypeInv, TypeOK
  <2> QED BY <2>1, <2>2 DEF Truncate_pending
<1>4. queue' \in Seq(FreshCommand)
  BY <1>1, TypeInvBuffers
<1>5. /\ EntriesSound' /\ PendingSound'
      /\ disk' \in Seq(Cell) /\ wbatch' \in FlushBatch
      /\ queue' \in Seq(FlushCommand) /\ buffers' \in [Cols -> ColumnBuffer]
  BY <1>1, <1>3, <1>4, CallerSound DEF file, worker
<1>6. TypeOK'
  BY <1>1, <1>3, <1>5 DEF TypeInv, TypeOK, file, worker
<1> QED BY <1>5, <1>6 DEF TypeInv

LEMMA DropType == TypeInv /\ Drop => TypeInv'
<1> SUFFICES ASSUME TypeInv, Drop PROVE TypeInv'
  OBVIOUS
<1>1. /\ pc' = "joining" /\ FlushBlock(buffers, StopCommand)
      /\ UNCHANGED <<file, targ, current_token_count, flush_error, worker, log, budget>>
  BY DEF Drop
<1>2. StopCommand \in {<<>>, <<Stop>>}
  BY DEF StopCommand
<1>3. /\ SoundBuffers(buffers') /\ queue' \in Seq(FreshCommand)
      /\ next_chunk_id' \in Nat /\ pending_block_idx' \in Nat
  BY <1>1, <1>2, TypeInvBuffers, FlushType
<1>4. /\ EntriesSound' /\ PendingSound'
      /\ disk' \in Seq(Cell) /\ wbatch' \in FlushBatch
      /\ queue' \in Seq(FlushCommand) /\ buffers' \in [Cols -> ColumnBuffer]
  BY <1>1, <1>3, CallerSound DEF file, worker
<1>5. TypeOK'
  BY <1>1, <1>3, <1>4 DEF TypeInv, TypeOK, file, worker
<1> QED BY <1>4, <1>5 DEF TypeInv

\* A file that grows by sound blocks keeps EntriesSound.
LEMMA GrownFile ==
  ASSUME TypeInv, disk' \in Seq(Cell), Extends(disk, disk'),
         \A p \in Len(disk) + 1 .. Len(disk') : disk'[p].kind = "index" =>
            \A c \in Cols : Spans(disk', p, disk'[p].entries[c], c)
  PROVE  EntriesSound'
<1>1. disk \in Seq(Cell) /\ SoundFile(disk)
  BY EntriesSoundIsSoundFile DEF TypeInv, TypeOK
<1>2. SoundFile(disk')
  BY <1>1, SoundExtends
<1> QED BY <1>2 DEF EntriesSound, SoundFile

\* A torn cell keeps it.
LEMMA TornFile ==
  ASSUME TypeInv, MayTear
  PROVE  disk' \in Seq(Cell) /\ EntriesSound'
<1>1. disk \in Seq(Cell) /\ Torn \in Cell /\ Torn.kind # "index" /\ Len(disk) \in Nat
  BY LenProperties DEF TypeInv, TypeOK, Cell, Torn
<1>2. CASE UNCHANGED disk
  BY <1>1, <1>2 DEF TypeInv, EntriesSound
<1>3. CASE disk' = Append(disk, Torn)
  <2>1. /\ disk' \in Seq(Cell) /\ Extends(disk, disk') /\ Len(disk') = Len(disk) + 1
        /\ disk'[Len(disk) + 1] = Torn
    BY <1>1, <1>3, AppendExtends
  <2>2. \A p \in Len(disk) + 1 .. Len(disk') : disk'[p] = Torn
    BY <1>1, <2>1
  <2> QED BY <1>1, <2>1, <2>2, GrownFile
<1> QED BY <1>2, <1>3 DEF MayTear

LEMMA GoneType ==
  ASSUME TypeInv, Gone, disk' \in Seq(Cell), EntriesSound',
         UNCHANGED <<epoch, valid, head, log>>,
         budget' \in [BudgetKinds -> Nat], \A k \in BudgetKinds : budget'[k] <= Budget[k]
  PROVE  TypeInv'
<1>1. queue' \in Seq(FreshCommand) /\ queue' \in Seq(FlushCommand)
  BY FreshCommands DEF Gone
<1>2. buffers' = NewBuffers /\ wbatch' = NoBatch /\ wcol' = 0
  BY DEF Gone
<1>3. PendingSound'
  BY <1>1, <1>2, EmptySound DEF PendingSound
<1>4. TypeOK'
  BY <1>1, <1>2, EmptySound, ColsNat DEF TypeInv, TypeOK, Gone
<1> QED BY <1>3, <1>4 DEF TypeInv

LEMMA JoinType == TypeInv /\ Join => TypeInv'
<1> SUFFICES ASSUME TypeInv, Join PROVE TypeInv'
  OBVIOUS
<1>1. Gone /\ UNCHANGED <<disk, epoch, valid, head, log, budget>>
  BY DEF Join, file
<1>2. disk' \in Seq(Cell) /\ EntriesSound'
  BY <1>1 DEF TypeInv, TypeOK, EntriesSound
<1>3. budget' \in [BudgetKinds -> Nat] /\ \A k \in BudgetKinds : budget'[k] <= Budget[k]
  BY <1>1 DEF TypeInv, TypeOK
<1> QED BY <1>1, <1>2, <1>3, GoneType

LEMMA CrashType == TypeInv /\ Crash => TypeInv'
<1> SUFFICES ASSUME TypeInv, Crash PROVE TypeInv'
  OBVIOUS
<1> DEFINE k == IF wpc = "head" THEN "commit_crash" ELSE "crash"
<1>1. Spend(k) /\ MayTear /\ Gone /\ UNCHANGED <<epoch, valid, head, log>>
  BY DEF Crash
<1>2. k \in BudgetKinds
  BY DEF BudgetKinds
<1>3. budget' \in [BudgetKinds -> Nat] /\ \A j \in BudgetKinds : budget'[j] <= Budget[j]
  <2> HIDE DEF k
  <2> QED BY <1>1, <1>2, SpendType DEF TypeInv
<1>4. disk' \in Seq(Cell) /\ EntriesSound'
  BY <1>1, TornFile
<1> QED BY <1>1, <1>3, <1>4, GoneType

LEMMA WorkerStartType == TypeInv /\ Worker_start => TypeInv'
<1> SUFFICES ASSUME TypeInv, Worker_start PROVE TypeInv'
  OBVIOUS
<1>1. /\ wpc' = "idle"
      /\ UNCHANGED <<file, pc, targ, writer, queue, flush_error, wbatch, wcol, windex,
                     wvalid, log, budget>>
  BY DEF Worker_start
<1>2. TypeOK'
  BY <1>1 DEF TypeInv, TypeOK, file, writer
<1>3. EntriesSound' /\ PendingSound'
  BY <1>1 DEF TypeInv, EntriesSound, PendingSound, file, writer
<1> QED BY <1>2, <1>3 DEF TypeInv

LEMMA WorkerReceiveType == TypeInv /\ Worker_receive => TypeInv'
<1> SUFFICES ASSUME TypeInv, Worker_receive PROVE TypeInv'
  OBVIOUS
<1>1. /\ queue # <<>> /\ queue' = Tail(queue) /\ wpc' \in {"payload", "stopped"}
      /\ UNCHANGED <<file, pc, targ, writer, flush_error, wcol, windex, wvalid, log, budget>>
      /\ \/ Head(queue).cmd = "Flush" /\ wbatch' = Head(queue).batch
         \/ UNCHANGED wbatch
  BY DEF Worker_receive
<1>2. queue \in Seq(FreshCommand)
  BY DEF TypeInv, PendingSound
<1>3. Head(queue) \in FreshCommand /\ queue' \in Seq(FreshCommand)
  BY <1>1, <1>2, HeadTailProperties
<1>4. /\ wbatch' \in FlushBatch
      /\ \A c \in Cols : /\ wbatch'.payloads[c] \in Seq(ColumnToken(c))
                        /\ Spans(disk, Len(disk) + 1, wbatch'.entries[c], c)
  <2>1. CASE Head(queue).cmd = "Flush" /\ wbatch' = Head(queue).batch
    <3>1. /\ wbatch' \in FlushBatch
          /\ \A c \in Cols : /\ wbatch'.payloads[c] \in Seq(ColumnToken(c))
                            /\ wbatch'.entries[c].col = c
                            /\ wbatch'.entries[c].byte_len = 0
      BY <1>3, <2>1 DEF FreshCommand, FlushCommand
    <3>2. \A c \in Cols : wbatch'.entries[c].byte_offset \in Nat
      BY <3>1 DEF FlushBatch, Entry
    <3> QED BY <3>1, <3>2 DEF Spans
  <2>2. CASE UNCHANGED wbatch
    BY <2>2 DEF TypeInv, TypeOK, PendingSound
  <2> QED BY <1>1, <2>1, <2>2
<1>5. UNCHANGED <<disk, buffers>>
  BY <1>1 DEF file, writer
<1>6. PendingSound'
  BY <1>3, <1>4, <1>5 DEF TypeInv, PendingSound
<1>7. TypeOK'
  BY <1>1, <1>3, <1>4, FreshCommands DEF TypeInv, TypeOK, file, writer
<1>8. EntriesSound'
  BY <1>5 DEF TypeInv, EntriesSound
<1> QED BY <1>6, <1>7, <1>8 DEF TypeInv

LEMMA WorkerPayloadType == TypeInv /\ Worker_payload => TypeInv'
<1> SUFFICES ASSUME TypeInv, Worker_payload PROVE TypeInv'
  OBVIOUS
<1> DEFINE payload == wbatch.payloads[wcol]
           old == wbatch.entries[wcol]
           e == [old EXCEPT !.byte_offset = Len(disk), !.byte_len = Len(payload)]
<1>1. /\ disk \in Seq(Cell) /\ Len(disk) \in Nat /\ wcol \in Cols /\ wbatch \in FlushBatch
      /\ old \in Entry
  BY LenProperties DEF TypeInv, TypeOK, FlushBatch
<1>2. payload \in Seq(ColumnToken(wcol)) /\ Len(payload) \in Nat
  BY <1>1, LenProperties DEF TypeInv, PendingSound
<1>3. /\ wbatch' = [wbatch EXCEPT !.entries = [wbatch.entries EXCEPT ![wcol] = e]]
      /\ disk' = disk \o payload
      /\ wpc' \in {"index", "payload"}
      /\ wcol' = IF wcol + 1 = NumColumns THEN 0 ELSE wcol + 1
      /\ UNCHANGED <<epoch, valid, head, pc, targ, writer, queue, flush_error, windex,
                     wvalid, log, budget>>
  <2>1. wbatch' = [wbatch EXCEPT !.entries[wcol].byte_offset = Len(disk),
                                 !.entries[wcol].byte_len = Len(payload)]
    BY DEF Worker_payload, PayloadOffset
  <2>2. wbatch' = [wbatch EXCEPT !.entries = [wbatch.entries EXCEPT ![wcol] = e]]
    BY <1>1, <2>1 DEF FlushBatch, Entry
  <2> QED BY <2>2 DEF Worker_payload
<1>4. /\ disk' \in Seq(Cell) /\ Extends(disk, disk') /\ Len(disk') = Len(disk) + Len(payload)
      /\ \A q \in Len(disk) + 1 .. Len(disk') : disk'[q] \in ColumnToken(wcol)
  <2> HIDE DEF payload
  <2> QED BY <1>1, <1>2, <1>3, ConcatExtends
<1>5. EntriesSound'
  <2>1. \A q \in Len(disk) + 1 .. Len(disk') : disk'[q].kind # "index"
    BY <1>4 DEF ColumnToken
  <2> QED BY <1>4, <2>1, GrownFile
<1>6. e \in Entry /\ e.col = old.col /\ e.byte_offset = Len(disk) /\ e.byte_len = Len(payload)
  <2> HIDE DEF payload, old
  <2> QED BY <1>1, <1>2 DEF Entry
<1>7. /\ wbatch' \in FlushBatch /\ wbatch'.payloads = wbatch.payloads
      /\ wbatch'.entries = [wbatch.entries EXCEPT ![wcol] = e]
  <2>1. [wbatch.entries EXCEPT ![wcol] = e] \in [Cols -> Entry]
    <3> HIDE DEF e
    <3> QED BY <1>1, <1>6 DEF FlushBatch
  <2> HIDE DEF e
  <2> QED BY <1>1, <1>3, <2>1 DEF FlushBatch
<1>8. ASSUME NEW c \in Cols
      PROVE  Spans(disk', Len(disk') + 1, wbatch'.entries[c], c)
  <2>0. Spans(disk, Len(disk) + 1, wbatch.entries[c], c) /\ wbatch.entries[c] \in Entry
    BY <1>1 DEF TypeInv, PendingSound, FlushBatch
  <2>1. CASE c = wcol
    <3>1. wbatch'.entries[c] = e
      <4> HIDE DEF e
      <4> QED BY <1>1, <1>7, <2>1 DEF FlushBatch
    <3>2. old.col = c
      BY <2>0, <2>1 DEF Spans
    <3> HIDE DEF e, old, payload
    <3> QED BY <1>1, <1>2, <1>4, <1>6, <2>1, <3>1, <3>2 DEF Spans
  <2>2. CASE c # wcol
    <3>1. wbatch'.entries[c] = wbatch.entries[c]
      <4> HIDE DEF e
      <4> QED BY <1>1, <1>7, <2>2 DEF FlushBatch
    <3>2. Len(disk) + 1 <= Len(disk') + 1 /\ Len(disk) + 1 \in Nat /\ Len(disk') + 1 \in Nat
      <4> HIDE DEF payload
      <4> QED BY <1>1, <1>2, <1>4
    <3> QED BY <1>1, <1>4, <2>0, <3>1, <3>2, SpansExtends
  <2> QED BY <2>1, <2>2
<1>9. PendingSound'
  <2>1. UNCHANGED <<queue, buffers>>
    BY <1>3 DEF writer
  <2> QED BY <1>7, <1>8, <2>1 DEF TypeInv, PendingSound
<1>10. wcol' \in Cols
  BY <1>1, <1>3, ColumnsAssumption DEF Cols
<1> HIDE DEF payload, old, e
<1>11. TypeOK'
  BY <1>3, <1>4, <1>7, <1>10 DEF TypeInv, TypeOK, writer
<1> QED BY <1>5, <1>9, <1>11 DEF TypeInv

\* What remains of a step of the worker that appends one cell.
LEMMA AppendedCell ==
  ASSUME TypeInv, NEW x \in Cell, disk' = Append(disk, x),
         x.kind = "index" => \A c \in Cols : x.entries[c] = wbatch.entries[c],
         UNCHANGED <<queue, buffers, wbatch>>
  PROVE  disk' \in Seq(Cell) /\ EntriesSound' /\ PendingSound'
<1>1. disk \in Seq(Cell) /\ Len(disk) \in Nat /\ wbatch \in FlushBatch
  BY LenProperties DEF TypeInv, TypeOK
<1>2. /\ disk' \in Seq(Cell) /\ Extends(disk, disk') /\ Len(disk') = Len(disk) + 1
      /\ disk'[Len(disk) + 1] = x
  BY <1>1, AppendExtends
<1>3. ASSUME NEW c \in Cols
      PROVE  /\ Spans(disk', Len(disk) + 1, wbatch.entries[c], c)
             /\ Spans(disk', Len(disk') + 1, wbatch.entries[c], c)
  <2>1. Spans(disk, Len(disk) + 1, wbatch.entries[c], c) /\ wbatch.entries[c] \in Entry
    BY <1>1 DEF TypeInv, PendingSound, FlushBatch
  <2>2. /\ Len(disk) + 1 \in Nat /\ Len(disk') + 1 \in Nat
        /\ Len(disk) + 1 <= Len(disk') + 1 /\ Len(disk) + 1 <= Len(disk) + 1
    BY <1>1, <1>2
  <2>3. Spans(disk', Len(disk) + 1, wbatch.entries[c], c)
    <3> DEFINE n == Len(disk) + 1
    <3>1. n \in Nat /\ n <= Len(disk) + 1 /\ n <= n /\ Spans(disk, n, wbatch.entries[c], c)
      BY <2>1, <2>2
    <3> HIDE DEF n
    <3>2. Spans(disk', n, wbatch.entries[c], c)
      BY <1>1, <1>2, <2>1, <3>1, SpansExtends
    <3> QED BY <3>2 DEF n
  <2>4. Spans(disk', Len(disk') + 1, wbatch.entries[c], c)
    BY <1>1, <1>2, <2>1, <2>2, SpansExtends
  <2> QED BY <2>3, <2>4
<1>4. EntriesSound'
  <2>1. \A p \in Len(disk) + 1 .. Len(disk') : p = Len(disk) + 1
    BY <1>1, <1>2
  <2> QED BY <1>2, <1>3, <2>1, GrownFile
<1>5. PendingSound'
  BY <1>3 DEF TypeInv, PendingSound
<1> QED BY <1>2, <1>4, <1>5

LEMMA WorkerIndexType == TypeInv /\ Worker_index => TypeInv'
<1> SUFFICES ASSUME TypeInv, Worker_index PROVE TypeInv'
  OBVIOUS
<1> DEFINE x == IndexBlock(wbatch.prev_index_offset, wbatch.block_idx, wbatch.entries)
<1>1. /\ disk' = Append(disk, x) /\ wpc' = "trailer"
      /\ UNCHANGED <<epoch, valid, head, pc, targ, writer, queue, flush_error, wbatch,
                     wcol, windex, wvalid, log, budget>>
  BY DEF Worker_index
<1>2. x \in Cell /\ x.entries = wbatch.entries
  BY DEF TypeInv, TypeOK, FlushBatch, IndexBlock, Cell
<1> HIDE DEF x
<1>3. disk' \in Seq(Cell) /\ EntriesSound' /\ PendingSound'
  BY <1>1, <1>2, AppendedCell DEF writer
<1>4. TypeOK'
  BY <1>1, <1>3 DEF TypeInv, TypeOK, writer
<1> QED BY <1>3, <1>4 DEF TypeInv

LEMMA WorkerTrailerType == TypeInv /\ Worker_trailer => TypeInv'
<1> SUFFICES ASSUME TypeInv, Worker_trailer PROVE TypeInv'
  OBVIOUS
<1> DEFINE x == IndexTrailer(wbatch.prev_index_offset)
<1>1. /\ disk' = Append(disk, x) /\ wpc' = "check" /\ windex' = Len(disk)
      /\ UNCHANGED <<epoch, valid, head, pc, targ, writer, queue, flush_error, wbatch,
                     wcol, wvalid, log, budget>>
  BY DEF Worker_trailer, IndexOffset
<1>2. x \in Cell /\ x.kind # "index"
  BY DEF TypeInv, TypeOK, FlushBatch, IndexTrailer, Cell
<1> HIDE DEF x
<1>3. disk' \in Seq(Cell) /\ EntriesSound' /\ PendingSound'
  BY <1>1, <1>2, AppendedCell DEF writer
<1>4. windex' \in Nat
  BY <1>1, LenProperties DEF TypeInv, TypeOK
<1>5. TypeOK'
  BY <1>1, <1>3, <1>4 DEF TypeInv, TypeOK, writer
<1> QED BY <1>3, <1>5 DEF TypeInv

\* The worker lets go of its batch.
LEMMA IdleType ==
  ASSUME TypeInv, wbatch' = NoBatch, disk' \in Seq(Cell), EntriesSound',
         UNCHANGED buffers, queue' \in Seq(FreshCommand)
  PROVE  /\ PendingSound' /\ wbatch' \in FlushBatch
         /\ queue' \in Seq(FlushCommand) /\ buffers' \in [Cols -> ColumnBuffer]
<1>1. wbatch' \in FlushBatch
  BY EmptySound
<1>2. \A c \in Cols : /\ wbatch'.payloads[c] \in Seq(ColumnToken(c))
                     /\ Spans(disk', Len(disk') + 1, wbatch'.entries[c], c)
  BY EmptySound
<1>3. PendingSound'
  BY <1>2 DEF TypeInv, PendingSound
<1> QED BY <1>1, <1>3, FreshCommands DEF TypeInv, TypeOK

LEMMA WorkerCheckType == TypeInv /\ Worker_check => TypeInv'
<1> SUFFICES ASSUME TypeInv, Worker_check PROVE TypeInv'
  OBVIOUS
<1>1. UNCHANGED <<disk, epoch, valid, head, pc, targ, writer, queue, flush_error, log, budget>>
  BY DEF Worker_check, file
<1>2. disk' \in Seq(Cell) /\ EntriesSound'
  BY <1>1 DEF TypeInv, TypeOK, EntriesSound
<1>3. CASE wpc' = "load" /\ UNCHANGED <<wbatch, wcol, windex, wvalid>>
  <2>1. TypeOK'
    BY <1>1, <1>3 DEF TypeInv, TypeOK, writer
  <2>2. PendingSound'
    BY <1>1, <1>3 DEF TypeInv, PendingSound, writer
  <2> QED BY <1>2, <2>1, <2>2 DEF TypeInv
<1>4. CASE BackToIdle
  <2>1. /\ PendingSound' /\ wbatch' \in FlushBatch
        /\ queue' \in Seq(FlushCommand) /\ buffers' \in [Cols -> ColumnBuffer]
    <3>1. wbatch' = NoBatch /\ UNCHANGED buffers /\ queue' \in Seq(FreshCommand)
      BY <1>1, <1>4, TypeInvBuffers DEF BackToIdle, writer
    <3> QED BY <1>2, <3>1, IdleType
  <2>2. TypeOK'
    BY <1>1, <1>2, <1>4, <2>1, ColsNat DEF TypeInv, TypeOK, writer, BackToIdle
  <2> QED BY <1>2, <2>1, <2>2 DEF TypeInv
<1> QED BY <1>3, <1>4 DEF Worker_check

LEMMA WorkerLoadType == TypeInv /\ Worker_load => TypeInv'
<1> SUFFICES ASSUME TypeInv, Worker_load PROVE TypeInv'
  OBVIOUS
<1>1. /\ wvalid' = valid /\ wpc' = "store"
      /\ UNCHANGED <<disk, epoch, valid, head, pc, targ, writer, queue, flush_error,
                     wbatch, wcol, windex, log, budget>>
  BY DEF Worker_load, file
<1>2. TypeOK'
  BY <1>1 DEF TypeInv, TypeOK, writer
<1>3. EntriesSound' /\ PendingSound'
  BY <1>1 DEF TypeInv, EntriesSound, PendingSound, writer
<1> QED BY <1>2, <1>3 DEF TypeInv

\* The visible count grows by a natural number.
LEMMA IncrementNat ==
  ASSUME TypeOK
  PROVE  Increment(wbatch) \in Nat /\ wvalid + Increment(wbatch) \in Nat
<1>1. wbatch.token_count \in Nat /\ wbatch.existing_tokens \in Nat /\ wvalid \in Nat
  BY DEF TypeOK, FlushBatch
<1>2. Increment(wbatch) \in Nat
  BY <1>1 DEF Increment, SatSub
<1> QED BY <1>1, <1>2

LEMMA WorkerStoreType == TypeInv /\ Worker_store => TypeInv'
<1> SUFFICES ASSUME TypeInv, Worker_store PROVE TypeInv'
  OBVIOUS
<1>1. /\ valid' = wvalid + Increment(wbatch) /\ wpc' = "head"
      /\ UNCHANGED <<disk, epoch, head, pc, targ, writer, queue, flush_error, wbatch,
                     wcol, windex, wvalid, log, budget>>
  BY DEF Worker_store
<1>2. valid' \in Nat
  BY <1>1, IncrementNat DEF TypeInv
<1>3. TypeOK'
  BY <1>1, <1>2 DEF TypeInv, TypeOK, writer
<1>4. EntriesSound' /\ PendingSound'
  BY <1>1 DEF TypeInv, EntriesSound, PendingSound, writer
<1> QED BY <1>3, <1>4 DEF TypeInv

\* A step after which the worker holds nothing, having died or gone back to idle.
LEMMA ReleaseType ==
  ASSUME TypeInv, disk' \in Seq(Cell), EntriesSound', head' \in Nat,
         UNCHANGED <<epoch, valid, pc, targ, writer, log>>,
         \/ BackToIdle /\ UNCHANGED <<queue, flush_error, budget>>
         \/ WorkerDies
  PROVE  TypeInv'
<1>1. /\ wbatch' = NoBatch /\ wcol' = 0 /\ windex' = 0 /\ wvalid' = 0
      /\ wpc' \in {"idle", "dead"} /\ UNCHANGED buffers
  BY DEF BackToIdle, WorkerDies, writer
<1>2. queue' \in Seq(FreshCommand) /\ flush_error' \in BOOLEAN
  BY TypeInvBuffers, FreshCommands DEF TypeInv, TypeOK, WorkerDies
<1>3. budget' \in [BudgetKinds -> Nat] /\ \A k \in BudgetKinds : budget'[k] <= Budget[k]
  <2>1. CASE UNCHANGED budget
    BY <2>1 DEF TypeInv, TypeOK
  <2>2. CASE Spend("fail")
    <3>1. "fail" \in BudgetKinds
      BY DEF BudgetKinds
    <3> QED BY <2>2, <3>1, SpendType DEF TypeInv
  <2> QED BY <2>1, <2>2 DEF WorkerDies
<1>4. /\ PendingSound' /\ wbatch' \in FlushBatch
      /\ queue' \in Seq(FlushCommand) /\ buffers' \in [Cols -> ColumnBuffer]
  BY <1>1, <1>2, IdleType
<1>5. TypeOK'
  BY <1>1, <1>2, <1>3, <1>4, ColsNat DEF TypeInv, TypeOK, writer
<1> QED BY <1>4, <1>5 DEF TypeInv

LEMMA WorkerHeadType == TypeInv /\ Worker_head => TypeInv'
<1> SUFFICES ASSUME TypeInv, Worker_head PROVE TypeInv'
  OBVIOUS
<1>1. /\ head' = windex
      /\ \/ BackToIdle /\ UNCHANGED <<queue, flush_error, budget>>
         \/ WorkerDies
      /\ UNCHANGED <<disk, epoch, valid, pc, targ, writer, log>>
  BY DEF Worker_head
<1>2. disk' \in Seq(Cell) /\ EntriesSound' /\ head' \in Nat
  BY <1>1 DEF TypeInv, TypeOK, EntriesSound
<1> QED BY <1>1, <1>2, ReleaseType

LEMMA WorkerFailsType == TypeInv /\ Worker_fails => TypeInv'
<1> SUFFICES ASSUME TypeInv, Worker_fails PROVE TypeInv'
  OBVIOUS
<1>1. MayTear /\ WorkerDies /\ UNCHANGED <<epoch, valid, head, pc, targ, writer, log>>
  BY DEF Worker_fails
<1>2. disk' \in Seq(Cell) /\ EntriesSound' /\ head' \in Nat
  BY <1>1, TornFile DEF TypeInv, TypeOK
<1> QED BY <1>1, <1>2, ReleaseType

-----------------------------------------------------------------------------
(***************************************************************************)
(* Open: what it reads back has the types it had.                          *)
(***************************************************************************)

\* A trailer of the file is preceded by an index block inside the file.
LEMMA TrailerCells ==
  ASSUME NEW f \in Seq(Cell), NEW o \in Trailers(f, Len(f))
  PROVE  /\ o \in Nat /\ 0 < o /\ o < Len(f)
         /\ At(f, o - 1) = f[o] /\ f[o] \in Cell /\ f[o].kind = "index"
         /\ f[o].entries \in [Cols -> Entry] /\ f[o].prev_index_offset \in Nat
         /\ At(f, o) = f[o + 1] /\ f[o + 1] \in Cell /\ f[o + 1].kind = "trailer"
         /\ Previous(f, o) = f[o + 1].prev_index_offset /\ Previous(f, o) \in Nat
<1>1. Len(f) \in Nat
  BY LenProperties
<1>2. /\ o \in Nat /\ 0 < o /\ o < Len(f)
      /\ f[o + 1].kind = "trailer" /\ f[o - 1 + 1].kind = "index"
  BY <1>1 DEF Trailers, TrailerAt, At
<1>3. o - 1 + 1 = o /\ o \in 1 .. Len(f) /\ o + 1 \in 1 .. Len(f)
  BY <1>1, <1>2
<1>4. f[o] \in Cell /\ f[o + 1] \in Cell
  BY <1>3, ElementOfSeq
<1>5. f[o].kind = "index"
  BY <1>2, <1>3
<1>6. f[o].entries \in [Cols -> Entry] /\ f[o].prev_index_offset \in Nat
  BY <1>4, <1>5 DEF Cell, Header, Torn
<1>7. f[o + 1].prev_index_offset \in Nat
  BY <1>2, <1>4 DEF Cell, Header, Torn
<1> QED BY <1>2, <1>3, <1>4, <1>5, <1>6, <1>7 DEF At, Previous

LEMMA CellBound ==
  ASSUME NEW x \in Cell
  PROVE  \E b \in Nat : x.kind = "index" => \A c \in Cols : x.entries[c].chunk_id <= b
<1>1. CASE x.kind # "index"
  BY <1>1
<1>2. CASE x.kind = "index"
  <2>1. x.entries \in [Cols -> Entry]
    BY <1>2 DEF Cell, Header, Torn
  <2>2. NumColumns \in Nat /\ \A i \in 1 .. NumColumns : i - 1 \in Cols
    BY ColumnsAssumption DEF Cols
  <2> DEFINE f == [i \in 1 .. NumColumns |-> x.entries[i - 1].chunk_id]
  <2>3. f \in [1 .. NumColumns -> Nat]
    BY <2>1, <2>2 DEF Entry
  <2>4. PICK b \in Nat : \A i \in 1 .. NumColumns : f[i] <= b
    <3> HIDE DEF f
    <3> QED BY <2>2, <2>3, BoundedFunction
  <2>5. ASSUME NEW c \in Cols PROVE x.entries[c].chunk_id <= b
    <3>1. PICK i \in 1 .. NumColumns : c = i - 1
      <4>1. c + 1 \in 1 .. NumColumns /\ c = (c + 1) - 1
        BY <2>2 DEF Cols
      <4> QED BY <4>1
    <3>2. f[i] <= b
      <4> HIDE DEF f
      <4> QED BY <2>4
    <3>3. f[i] = x.entries[i - 1].chunk_id
      OBVIOUS
    <3> HIDE DEF f
    <3> QED BY <3>1, <3>2, <3>3
  <2> QED BY <2>5
<1> QED BY <1>1, <1>2

\* The identifiers in a file are bounded.
LEMMA FileBound ==
  ASSUME NEW f \in Seq(Cell)
  PROVE  \E b \in Nat : \A p \in 1 .. Len(f) :
            f[p].kind = "index" => \A c \in Cols : f[p].entries[c].chunk_id <= b
<1> DEFINE P(p, b) == f[p].kind = "index" => \A c \in Cols : f[p].entries[c].chunk_id <= b
           g == [p \in 1 .. Len(f) |-> CHOOSE b \in Nat : P(p, b)]
<1>1. \A p \in 1 .. Len(f) : \E b \in Nat : P(p, b)
  BY CellBound, ElementOfSeq
<1>2. \A p \in 1 .. Len(f) : g[p] \in Nat /\ P(p, g[p])
  <2> HIDE DEF P
  <2> QED BY <1>1
<1>3. Len(f) \in Nat /\ g \in [1 .. Len(f) -> Nat]
  <2>1. g = [p \in 1 .. Len(f) |-> g[p]]
    OBVIOUS
  <2> HIDE DEF g, P
  <2> QED BY <1>2, <2>1, LenProperties
<1>4. PICK b \in Nat : \A p \in 1 .. Len(f) : g[p] <= b
  <2> HIDE DEF g
  <2> QED BY <1>3, BoundedFunction
<1>5. ASSUME NEW p \in 1 .. Len(f), f[p].kind = "index", NEW c \in Cols
      PROVE  f[p].entries[c].chunk_id <= b
  <2>1. f[p].entries[c].chunk_id \in Nat
    <3>1. f[p] \in Cell
      BY ElementOfSeq
    <3> QED BY <1>5, <3>1 DEF Cell, Header, Torn, Entry
  <2>2. f[p].entries[c].chunk_id <= g[p] /\ g[p] \in Nat /\ g[p] <= b
    <3> HIDE DEF g
    <3> QED BY <1>2, <1>4, <1>5
  <2> HIDE DEF g
  <2> QED BY <2>1, <2>2
<1> QED BY <1>5

\* next_chunk_id is a number above every identifier the reader's index holds.
LEMMA NextChunkIdFresh ==
  ASSUME NEW f \in Seq(Cell), NEW h \in Nat
  PROVE  /\ NextChunkId(f, Len(f), h) \in Nat
         /\ \A o \in Walk(f, Len(f), h) : \A c \in Cols :
               f[o].entries[c].chunk_id < NextChunkId(f, Len(f), h)
<1> DEFINE W == Walk(f, Len(f), h)
           E == UNION {IndexedEntries(f, o) : o \in W}
           I == {e.chunk_id + 1 : e \in E}
           S == {0} \cup I
<1>1. PICK b \in Nat : \A p \in 1 .. Len(f) :
            f[p].kind = "index" => \A c \in Cols : f[p].entries[c].chunk_id <= b
  BY FileBound
<1>2. W \subseteq Trailers(f, Len(f)) /\ Len(f) \in Nat
  BY LenProperties DEF Walk
<1>3. \A o \in W : \A c \in Cols :
          f[o].entries[c].chunk_id \in Nat /\ f[o].entries[c].chunk_id <= b
  <2> HIDE DEF W
  <2> SUFFICES ASSUME NEW o \in W, NEW c \in Cols
               PROVE  f[o].entries[c].chunk_id \in Nat /\ f[o].entries[c].chunk_id <= b
    OBVIOUS
  <2>1. /\ o \in Nat /\ 0 < o /\ o < Len(f) /\ f[o].kind = "index"
        /\ f[o].entries \in [Cols -> Entry]
    BY <1>2, TrailerCells
  <2>2. f[o].entries[c].chunk_id \in Nat
    BY <2>1 DEF Entry
  <2>3. o \in 1 .. Len(f)
    BY <1>2, <2>1
  <2> QED BY <1>1, <2>1, <2>2, <2>3
<1>4. \A e \in E : \E o \in W : \E c \in Cols : e = f[o].entries[c]
  <2> HIDE DEF W
  <2>1. \A o \in W : \A e \in IndexedEntries(f, o) : \E c \in Cols : e = f[o].entries[c]
    BY <1>2, TrailerCells DEF IndexedEntries
  <2> QED BY <2>1
<1>5. \A o \in W : \A c \in Cols : f[o].entries[c] \in E
  <2> HIDE DEF W
  <2>1. \A o \in W : \A c \in Cols : f[o].entries[c] \in IndexedEntries(f, o)
    BY <1>2, TrailerCells DEF IndexedEntries
  <2> QED BY <2>1
<1> HIDE DEF W, E
<1>6. \A e \in E : e.chunk_id \in Nat /\ e.chunk_id <= b
  BY <1>3, <1>4
<1>7. S \subseteq Nat /\ S # {} /\ b + 1 \in Nat /\ \A x \in S : x <= b + 1
  BY <1>6
<1>8. Max(S) \in S /\ \A x \in S : x <= Max(S)
  <2> HIDE DEF S
  <2> QED BY <1>7, MaxNat
<1>9. NextChunkId(f, Len(f), h) = Max(S)
  BY DEF NextChunkId, W, E
<1>10. Max(S) \in Nat
  <2> HIDE DEF S
  <2> QED BY <1>7, <1>8
<1>11. ASSUME NEW o \in W, NEW c \in Cols PROVE f[o].entries[c].chunk_id < Max(S)
  <2>1. f[o].entries[c] \in E /\ f[o].entries[c].chunk_id \in Nat
    BY <1>3, <1>5
  <2>2. f[o].entries[c].chunk_id + 1 \in S
    BY <2>1
  <2>3. f[o].entries[c].chunk_id + 1 <= Max(S)
    <3> HIDE DEF S
    <3> QED BY <1>8, <2>2
  <2> HIDE DEF S
  <2> QED BY <1>10, <2>1, <2>3
<1> HIDE DEF S
<1>12. \A o \in W : \A c \in Cols : f[o].entries[c].chunk_id < Max(S)
  BY <1>11
<1> QED BY <1>9, <1>10, <1>12 DEF W

\* What a fresh reader finds in its index spans tokens of the right column.
LEMMA FoundEntry ==
  ASSUME TypeInv, NEW c \in Cols, NEW b, NEW e \in Get(FreshIndex, c, b)
  PROVE  e \in Entry /\ \E l \in Nat : l <= Len(disk) /\ Spans(disk, l, e, c)
<1> DEFINE W == Walk(disk, Len(disk), head)
<1>1. disk \in Seq(Cell) /\ Len(disk) \in Nat /\ EntriesSound /\ DOMAIN disk = 1 .. Len(disk)
  BY LenProperties DEF TypeInv, TypeOK
<1>2. W \subseteq Trailers(disk, Len(disk))
  BY DEF Walk
<1>3. e.col = c /\ e \in FreshIndex
  BY DEF Get
<1>4. \E o \in W : e \in IndexedEntries(disk, o)
  BY <1>3 DEF FreshIndex, ReconstructIndex, Newest
<1> HIDE DEF W
<1>5. PICK o \in Trailers(disk, Len(disk)) : e \in IndexedEntries(disk, o)
  BY <1>2, <1>4
<1>6. /\ o \in Nat /\ 0 < o /\ o < Len(disk) /\ At(disk, o - 1) = disk[o]
      /\ disk[o].kind = "index" /\ disk[o].entries \in [Cols -> Entry]
  BY <1>1, TrailerCells
<1>7. PICK d \in Cols : e = disk[o].entries[d]
  BY <1>5, <1>6 DEF IndexedEntries
<1>8. Spans(disk, o, disk[o].entries[d], d)
  <2>1. o \in DOMAIN disk
    BY <1>1, <1>6
  <2> QED BY <1>1, <1>6, <2>1 DEF EntriesSound
<1>9. d = c
  BY <1>3, <1>7, <1>8 DEF Spans
<1> QED BY <1>6, <1>7, <1>8, <1>9

LEMMA ExistingType ==
  ASSUME TypeInv, Openable, NEW c \in Cols
  PROVE  Existing(c) \in Seq(ColumnToken(c))
<1>0. PartialCount \in Nat
  BY BlockAssumption DEF TypeInv, TypeOK, PartialCount
<1>1. CASE PartialCount = 0
  BY <1>1, EmptySeq DEF Existing
<1>2. CASE PartialCount # 0
  <2> DEFINE e == CHOOSE e \in Get(FreshIndex, c, OpenBlock) : TRUE
  <2>1. e \in Get(FreshIndex, c, OpenBlock)
    BY <1>0, <1>2 DEF Openable
  <2> HIDE DEF e
  <2>2. e \in Entry /\ \E l \in Nat : l <= Len(disk) /\ Spans(disk, l, e, c)
    BY <2>1, FoundEntry
  <2>3. e.byte_offset \in Nat /\ e.byte_len \in Nat
    BY <2>2 DEF Entry
  <2>4. \A q \in e.byte_offset + 1 .. e.byte_offset + e.byte_len : disk[q] \in ColumnToken(c)
    BY <2>2 DEF Spans
  <2>5. BlockBytes(disk, e) \in Seq(ColumnToken(c))
    <3>1. e.byte_offset + 1 \in Int /\ e.byte_offset + e.byte_len \in Int
      BY <2>3
    <3> QED BY <2>4, <3>1, SubSeqProperties DEF BlockBytes
  <2> QED BY <1>2, <2>5 DEF Existing, e
<1> QED BY <1>1, <1>2

LEMMA OpenType == TypeInv /\ Open => TypeInv'
<1> SUFFICES ASSUME TypeInv, Open PROVE TypeInv'
  OBVIOUS
<1>1. /\ Spend("reopen") /\ Openable
      /\ buffers' = [c \in Cols |->
           [block_idx |-> OpenBlock, token_count |-> PartialCount,
            existing_tokens |-> PartialCount, data |-> Existing(c)]]
      /\ pending_block_idx' = OpenBlock
      /\ next_chunk_id' = NextChunkId(disk, Len(disk), head)
      /\ current_token_count' = valid
      /\ pc' = "ready" /\ wpc' = "start" /\ Forget(valid)
      /\ UNCHANGED <<disk, epoch, valid, head, targ, queue, flush_error, wbatch, wcol,
                     windex, wvalid>>
  BY DEF Open, file
<1>2. disk \in Seq(Cell) /\ valid \in Nat /\ head \in Nat
  BY DEF TypeInv, TypeOK
<1>3. PartialCount \in Nat /\ OpenBlock \in Nat
  <2>1. PartialCount \in Nat /\ valid \div BLOCK_TOKEN_COUNT \in Nat
    BY <1>2, BlockAssumption DEF PartialCount
  <2>2. ASSUME valid # 0 PROVE (valid - 1) \div BLOCK_TOKEN_COUNT \in Nat
    <3>1. valid - 1 \in Nat
      BY <1>2, <2>2
    <3> QED BY <3>1, BlockAssumption
  <2>3. valid = 0 => PartialCount = 0
    BY BlockAssumption DEF PartialCount
  <2> QED BY <2>1, <2>2, <2>3 DEF OpenBlock
<1>4. next_chunk_id' \in Nat
  BY <1>1, <1>2, NextChunkIdFresh
<1>5. SoundBuffers(buffers')
  <2>1. \A c \in Cols : Existing(c) \in Seq(ColumnToken(c)) /\ Existing(c) \in Seq(Cell)
    BY <1>1, ExistingType, TokensAreCells
  <2> QED BY <1>1, <1>3, <2>1 DEF SoundBuffers, ColumnBuffer
<1>6. queue' \in Seq(FreshCommand)
  BY <1>1, TypeInvBuffers
<1>7. /\ EntriesSound' /\ PendingSound'
      /\ disk' \in Seq(Cell) /\ wbatch' \in FlushBatch
      /\ queue' \in Seq(FlushCommand) /\ buffers' \in [Cols -> ColumnBuffer]
  BY <1>1, <1>5, <1>6, CallerSound
<1>8. budget' \in [BudgetKinds -> Nat] /\ \A k \in BudgetKinds : budget'[k] <= Budget[k]
  <2>1. "reopen" \in BudgetKinds
    BY DEF BudgetKinds
  <2> QED BY <1>1, <2>1, SpendType DEF TypeInv
<1>9. log' \in Seq(Frames)
  BY <1>1, <1>2, ForgetType
<1>10. TypeOK'
  BY <1>1, <1>3, <1>4, <1>7, <1>8, <1>9 DEF TypeInv, TypeOK
<1> QED BY <1>7, <1>10 DEF TypeInv

-----------------------------------------------------------------------------
(***************************************************************************)
(* Types and payloads are right in every reachable state.                  *)
(***************************************************************************)
LEMMA StepType == TypeInv /\ [Next]_vars => TypeInv'
<1> SUFFICES ASSUME TypeInv, [Next]_vars PROVE TypeInv'
  OBVIOUS
<1>1. CASE Caller
  BY <1>1, AppendFrameType, FlushPendingType, TruncateEpochType, TruncateCommittedType,
     TruncateStoreType, TruncatePendingType, DropType, JoinType, OpenType DEF Caller
<1>2. CASE Worker
  BY <1>2, WorkerStartType, WorkerReceiveType, WorkerPayloadType, WorkerIndexType,
     WorkerTrailerType, WorkerCheckType, WorkerLoadType, WorkerStoreType, WorkerHeadType
     DEF Worker
<1>3. CASE Worker_fails
  BY <1>3, WorkerFailsType
<1>4. CASE Crash
  BY <1>4, CrashType
<1>5. CASE UNCHANGED vars
  <2>1. TypeOK'
    BY <1>5 DEF TypeInv, TypeOK, vars, file, writer, worker
  <2>2. EntriesSound' /\ PendingSound'
    BY <1>5 DEF TypeInv, EntriesSound, PendingSound, vars, file, writer, worker
  <2> QED BY <2>1, <2>2 DEF TypeInv
<1> QED BY <1>1, <1>2, <1>3, <1>4, <1>5 DEF Next

THEOREM TypeInvariant == Spec => []TypeInv
<1> QED BY InitType, StepType, PTL DEF Spec

\* Type correctness, whatever the constants.
THEOREM TypeCorrect == Spec => []TypeOK
<1>1. TypeInv => TypeOK
  BY DEF TypeInv
<1> QED BY <1>1, TypeInvariant, PTL

\* No index block in the file ever points a reader at anything but tokens of the
\* entry's own column, written before it.
THEOREM EntriesAreSound == Spec => []EntriesSound
<1>1. TypeInv => EntriesSound
  BY DEF TypeInv
<1> QED BY <1>1, TypeInvariant, PTL

\* What is buffered, queued or being written for a column are tokens of it.
THEOREM PendingIsSound == Spec => []PendingSound
<1>1. TypeInv => PendingSound
  BY DEF TypeInv
<1> QED BY <1>1, TypeInvariant, PTL

-----------------------------------------------------------------------------
(***************************************************************************)
(* The visible count.  truncate loads it and stores its target later; the  *)
(* worker loads it and stores a sum later.  While either is between the    *)
(* two, what it is about to store is on the right side of the current      *)
(* count: truncate only ever stores less, the worker only ever more.       *)
(***************************************************************************)
VisibleInv ==
  /\ pc = "store" => targ <= valid
  /\ wpc = "store" => valid <= wvalid

VisibleStep ==
  /\ valid' > valid => wpc = "store"
  /\ valid' < valid => pc = "store"

LEMMA InitVisible == Init => VisibleInv
BY DEF Init, VisibleInv

LEMMA StepVisible == TypeOK /\ VisibleInv /\ [Next]_vars => VisibleInv' /\ VisibleStep
<1> SUFFICES ASSUME TypeOK, VisibleInv, [Next]_vars PROVE VisibleInv' /\ VisibleStep
  OBVIOUS
<1> USE DEF VisibleInv, VisibleStep
<1>1. valid \in Nat /\ targ \in Nat /\ wvalid \in Nat
  BY DEF TypeOK
\* Steps that write neither count and start neither store.
<1>2. CASE Append_frame \/ Flush_pending \/ UNCHANGED vars
  <2>1. UNCHANGED <<pc, targ, valid, wpc, wvalid>>
    BY <1>2 DEF Append_frame, Flush_pending, vars, file, worker
  <2> QED BY <1>1, <2>1
<1>3. CASE \E count \in 0 .. current_token_count : Truncate_epoch(count)
  BY <1>1, <1>3 DEF Truncate_epoch, worker
<1>4. CASE Truncate_committed
  BY <1>1, <1>4 DEF Truncate_committed, IsCommitted, file, worker
<1>5. CASE Truncate_store
  <2>1. /\ pc = "store" /\ targ <= valid /\ valid' = targ /\ pc' = "ready"
        /\ UNCHANGED <<wpc, wvalid>>
    BY <1>5 DEF Truncate_store, worker
  <2> QED BY <1>1, <2>1
<1>6. CASE Truncate_pending
  BY <1>1, <1>6 DEF Truncate_pending, file, worker
<1>7. CASE Drop
  BY <1>1, <1>7 DEF Drop, file, worker
<1>8. CASE Join \/ Crash
  <2>1. pc' = "closed" /\ wpc' = "stopped" /\ valid' = valid
    BY <1>8 DEF Join, Crash, Gone, file
  <2> QED BY <1>1, <2>1
<1>9. CASE Open
  <2>1. pc' = "ready" /\ wpc' = "start" /\ valid' = valid
    BY <1>9 DEF Open, file
  <2> QED BY <1>1, <2>1
<1>10. CASE Worker_start \/ Worker_receive \/ Worker_payload \/ Worker_index
            \/ Worker_trailer \/ Worker_check \/ Worker_head \/ Worker_fails
  <2>1. wpc' # "store" /\ UNCHANGED <<pc, targ, valid>>
    BY <1>10 DEF Worker_start, Worker_receive, Worker_payload, Worker_index,
       Worker_trailer, Worker_check, Worker_head, Worker_fails, BackToIdle, WorkerDies, file
  <2> QED BY <1>1, <2>1
<1>11. CASE Worker_load
  <2>1. wvalid' = valid /\ UNCHANGED <<pc, targ, valid>>
    BY <1>11 DEF Worker_load, file
  <2> QED BY <1>1, <2>1
<1>12. CASE Worker_store
  <2>1. /\ wpc = "store" /\ valid <= wvalid /\ valid' = wvalid + Increment(wbatch)
        /\ wpc' = "head" /\ UNCHANGED <<pc, targ>>
    BY <1>12 DEF Worker_store
  <2>2. Increment(wbatch) \in Nat
    BY IncrementNat
  <2> QED BY <1>1, <2>1, <2>2
<1> QED BY <1>2, <1>3, <1>4, <1>5, <1>6, <1>7, <1>8, <1>9, <1>10, <1>11, <1>12
           DEF Next, Caller, Worker

\* Only a commit raises the visible count and only truncate lowers it.
THEOREM VisibleIsMonotone == Spec => VisibleMonotone
<1>1. Spec => []VisibleInv
  BY InitVisible, StepVisible, TypeCorrect, PTL DEF Spec
<1>2. TypeOK /\ VisibleInv /\ [Next]_vars => VisibleStep
  BY StepVisible
<1>3. TypeOK /\ VisibleInv /\ [Next]_vars => [VisibleStep]_vars
  BY <1>2
<1> QED BY <1>1, <1>3, TypeCorrect, PTL DEF Spec, VisibleMonotone, VisibleStep

-----------------------------------------------------------------------------
(***************************************************************************)
(* The chain.  ChainSound speaks of the file alone; to survive the next    *)
(* commit it needs to know of every batch that is queued or being written  *)
(* that the offset it links to is already a trailer, of a worker about to  *)
(* write a trailer that the batch's index block is the last cell, and of a *)
(* worker about to store a head that it is a trailer.                      *)
(***************************************************************************)
Linked(f, o) == o = 0 \/ o \in Trailers(f, Len(f))

ChainedFile(f) ==
  \A o \in Trailers(f, Len(f)) :
    /\ Linked(f, Previous(f, o)) /\ Previous(f, o) < o
    /\ f[o].prev_index_offset = Previous(f, o)

ChainedQueue(f, q) ==
  \A i \in 1 .. Len(q) : q[i].cmd = "Flush" => Linked(f, q[i].batch.prev_index_offset)

ChainInv ==
  /\ ChainedFile(disk) /\ Linked(disk, head) /\ ChainedQueue(disk, queue)
  /\ Linked(disk, wbatch.prev_index_offset)
  /\ wpc = "trailer" =>
       /\ Len(disk) > 0 /\ disk[Len(disk)].kind = "index"
       /\ disk[Len(disk)].prev_index_offset = wbatch.prev_index_offset
  /\ wpc \in {"check", "load", "store", "head"} => windex \in Trailers(disk, Len(disk))

LEMMA TrailerIff ==
  ASSUME NEW f \in Seq(Cell), NEW o
  PROVE  o \in Trailers(f, Len(f)) <=>
           /\ o \in Nat /\ 0 < o /\ o < Len(f)
           /\ f[o].kind = "index" /\ f[o + 1].kind = "trailer"
<1>1. Len(f) \in Nat
  BY LenProperties
<1>2. ASSUME o \in Nat, 0 < o, o < Len(f), f[o].kind = "index", f[o + 1].kind = "trailer"
      PROVE  o \in Trailers(f, Len(f))
  <2>1. o - 1 + 1 = o /\ o \in 0 .. Len(f) - 1
    BY <1>1, <1>2
  <2>2. f[o - 1 + 1].kind = "index"
    BY <1>2, <2>1
  <2> QED BY <1>2, <2>1, <2>2 DEF Trailers, TrailerAt, At
<1> QED BY <1>2, TrailerCells

\* Trailers stay where they are while a file grows.
LEMMA TrailersGrow ==
  ASSUME NEW f \in Seq(Cell), NEW g \in Seq(Cell), Extends(f, g),
         NEW o \in Trailers(f, Len(f))
  PROVE  o \in Trailers(g, Len(g)) /\ g[o] = f[o] /\ Previous(g, o) = Previous(f, o)
<1>1. Len(f) \in Nat /\ Len(g) \in Nat
  BY LenProperties
<1>2. /\ o \in Nat /\ 0 < o /\ o < Len(f)
      /\ f[o].kind = "index" /\ f[o + 1].kind = "trailer"
  BY TrailerIff
<1>3. o \in 1 .. Len(f) /\ o + 1 \in 1 .. Len(f) /\ o < Len(g)
  BY <1>1, <1>2 DEF Extends
<1>4. g[o] = f[o] /\ g[o + 1] = f[o + 1]
  BY <1>3 DEF Extends
<1>5. o \in Trailers(g, Len(g))
  BY <1>2, <1>3, <1>4, TrailerIff
<1> QED BY <1>4, <1>5 DEF Previous, At

LEMMA LinkedGrows ==
  ASSUME NEW f \in Seq(Cell), NEW g \in Seq(Cell), Extends(f, g), NEW o, Linked(f, o)
  PROVE  Linked(g, o)
BY TrailersGrow DEF Linked

\* Cells that are no trailers make no new one.
LEMMA ChainedGrows ==
  ASSUME NEW f \in Seq(Cell), NEW g \in Seq(Cell), Extends(f, g), ChainedFile(f),
         \A q \in Len(f) + 1 .. Len(g) : g[q].kind # "trailer"
  PROVE  ChainedFile(g)
<1>1. Len(f) \in Nat /\ Len(g) \in Nat
  BY LenProperties
<1> SUFFICES ASSUME NEW o \in Trailers(g, Len(g))
             PROVE  /\ Linked(g, Previous(g, o)) /\ Previous(g, o) < o
                    /\ g[o].prev_index_offset = Previous(g, o)
  BY DEF ChainedFile
<1>2. /\ o \in Nat /\ 0 < o /\ o < Len(g)
      /\ g[o].kind = "index" /\ g[o + 1].kind = "trailer"
  BY TrailerIff
<1>3. o + 1 \in 1 .. Len(f) /\ o \in 1 .. Len(f) /\ o < Len(f)
  BY <1>1, <1>2
<1>4. g[o] = f[o] /\ g[o + 1] = f[o + 1]
  BY <1>3 DEF Extends
<1>5. o \in Trailers(f, Len(f))
  BY <1>2, <1>3, <1>4, TrailerIff
<1>6. Previous(g, o) = Previous(f, o)
  BY <1>5, TrailersGrow
<1>7. /\ Linked(f, Previous(f, o)) /\ Previous(f, o) < o
      /\ f[o].prev_index_offset = Previous(f, o)
  BY <1>5 DEF ChainedFile
<1> QED BY <1>4, <1>6, <1>7, LinkedGrows

\* A new trailer behind an index block that links to the same offset.
LEMMA ChainedTrailer ==
  ASSUME NEW f \in Seq(Cell), NEW t \in Nat, ChainedFile(f), Linked(f, t),
         Len(f) > 0, f[Len(f)].kind = "index", f[Len(f)].prev_index_offset = t
  PROVE  /\ ChainedFile(Append(f, IndexTrailer(t)))
         /\ Len(f) \in Trailers(Append(f, IndexTrailer(t)), Len(f) + 1)
<1> DEFINE x == IndexTrailer(t)
           g == Append(f, x)
<1>1. Len(f) \in Nat
  BY LenProperties
<1>2. x \in Cell /\ x.kind = "trailer" /\ x.prev_index_offset = t
  BY DEF IndexTrailer, Cell
<1> HIDE DEF x
<1>3. /\ g \in Seq(Cell) /\ Extends(f, g) /\ Len(g) = Len(f) + 1 /\ g[Len(f) + 1] = x
  BY <1>2, AppendExtends
<1> HIDE DEF g
<1>4. g[Len(f)] = f[Len(f)]
  BY <1>1, <1>3 DEF Extends
<1>5. Len(f) \in Trailers(g, Len(g))
  BY <1>1, <1>2, <1>3, <1>4, TrailerIff
<1>6. Linked(g, t) /\ t < Len(f)
  <2>1. Linked(g, t)
    BY <1>3, LinkedGrows
  <2>2. t < Len(f)
    BY TrailerIff DEF Linked
  <2> QED BY <2>1, <2>2
<1>7. ASSUME NEW o \in Trailers(g, Len(g))
      PROVE  /\ Linked(g, Previous(g, o)) /\ Previous(g, o) < o
             /\ g[o].prev_index_offset = Previous(g, o)
  <2>1. /\ o \in Nat /\ 0 < o /\ o < Len(g)
        /\ g[o].kind = "index" /\ g[o + 1].kind = "trailer"
    BY <1>3, TrailerIff
  <2>2. CASE o = Len(f)
    <3>1. Previous(g, o) = t
      BY <1>2, <1>3, <2>2 DEF Previous, At
    <3> QED BY <1>4, <1>6, <2>2, <3>1
  <2>3. CASE o # Len(f)
    <3>1. o < Len(f) /\ o \in 1 .. Len(f) /\ o + 1 \in 1 .. Len(f)
      BY <1>1, <1>3, <2>1, <2>3
    <3>2. o \in Trailers(f, Len(f))
      BY <1>3, <2>1, <3>1, TrailerIff DEF Extends
    <3>3. g[o] = f[o] /\ Previous(g, o) = Previous(f, o)
      BY <1>3, <3>2, TrailersGrow
    <3>4. /\ Linked(f, Previous(f, o)) /\ Previous(f, o) < o
          /\ f[o].prev_index_offset = Previous(f, o)
      BY <3>2 DEF ChainedFile
    <3> QED BY <1>3, <3>3, <3>4, LinkedGrows
  <2> QED BY <2>2, <2>3
<1>8. ChainedFile(g)
  BY <1>7 DEF ChainedFile
<1> QED BY <1>3, <1>5, <1>8 DEF g, x

LEMMA QueueConcat ==
  ASSUME NEW f, NEW q \in Seq(FlushCommand), NEW r \in Seq(FlushCommand),
         ChainedQueue(f, q), ChainedQueue(f, r)
  PROVE  ChainedQueue(f, q \o r)
<1>1. Len(q) \in Nat /\ Len(r) \in Nat
  BY LenProperties
<1>2. /\ Len(q \o r) = Len(q) + Len(r)
      /\ \A i \in 1 .. Len(q) + Len(r) :
           (q \o r)[i] = IF i <= Len(q) THEN q[i] ELSE r[i - Len(q)]
  BY ConcatProperties
<1> SUFFICES ASSUME NEW i \in 1 .. Len(q) + Len(r), (q \o r)[i].cmd = "Flush"
             PROVE  Linked(f, (q \o r)[i].batch.prev_index_offset)
  BY <1>2 DEF ChainedQueue
<1>3. CASE i <= Len(q)
  BY <1>1, <1>2, <1>3 DEF ChainedQueue
<1>4. CASE ~(i <= Len(q))
  <2>1. i - Len(q) \in 1 .. Len(r) /\ (q \o r)[i] = r[i - Len(q)]
    BY <1>1, <1>2, <1>4
  <2> QED BY <2>1 DEF ChainedQueue
<1> QED BY <1>3, <1>4

LEMMA QueueAppend ==
  ASSUME NEW f, NEW q \in Seq(FlushCommand), NEW m \in FlushCommand, ChainedQueue(f, q),
         m.cmd = "Flush" => Linked(f, m.batch.prev_index_offset)
  PROVE  Append(q, m) \in Seq(FlushCommand) /\ ChainedQueue(f, Append(q, m))
<1>1. Len(q) \in Nat
  BY LenProperties
<1>2. /\ Append(q, m) \in Seq(FlushCommand) /\ Len(Append(q, m)) = Len(q) + 1
      /\ \A i \in 1 .. Len(q) : Append(q, m)[i] = q[i]
      /\ Append(q, m)[Len(q) + 1] = m
  BY AppendProperties
<1>3. \A i \in 1 .. Len(q) + 1 : i \in 1 .. Len(q) \/ i = Len(q) + 1
  BY <1>1
<1> QED BY <1>2, <1>3 DEF ChainedQueue

\* What flush_block sends links to the head.
LEMMA FlushChained ==
  ASSUME TypeInv, ChainInv, NEW bufs, SoundBuffers(bufs),
         NEW tail, tail \in {<<>>, <<Stop>>}, FlushBlock(bufs, tail)
  PROVE  ChainedQueue(disk, queue')
<1>1. queue \in Seq(FlushCommand) /\ ChainedQueue(disk, queue)
  BY DEF TypeInv, TypeOK, ChainInv
<1>2. tail \in Seq(FlushCommand) /\ ChainedQueue(disk, tail)
  <2>1. Stop \in FlushCommand /\ Stop.cmd # "Flush"
    BY DEF Stop, FlushCommand
  <2>2. <<>> \in Seq(FlushCommand) /\ ChainedQueue(disk, <<>>)
    BY EmptySeq DEF ChainedQueue
  <2>3. <<Stop>> \in Seq(FlushCommand) /\ <<Stop>> = Append(<<>>, Stop)
    BY <2>1
  <2>4. ChainedQueue(disk, <<Stop>>)
    BY <2>1, <2>2, <2>3, QueueAppend
  <2> QED BY <2>2, <2>3, <2>4
<1>3. CASE FlushNothing(bufs, tail)
  BY <1>1, <1>2, <1>3, QueueConcat DEF FlushNothing
<1>4. CASE FlushSent(bufs, tail)
  <2> DEFINE m == [cmd |-> "Flush", batch |-> BatchOf(bufs)]
  <2>1. m \in FlushCommand
    BY BatchType DEF FreshCommand
  <2>2. m.batch.prev_index_offset = head
    BY DEF BatchOf, PrevIndexOffset
  <2>3. queue' = Append(queue, m) \o tail
    BY <1>4 DEF FlushSent
  <2> HIDE DEF m
  <2>4. Append(queue, m) \in Seq(FlushCommand) /\ ChainedQueue(disk, Append(queue, m))
    BY <1>1, <2>1, <2>2, QueueAppend DEF ChainInv
  <2> QED BY <1>2, <2>3, <2>4, QueueConcat
<1>5. CASE FlushLost(bufs)
  BY <1>1, <1>5 DEF FlushLost
<1> QED BY <1>3, <1>4, <1>5 DEF FlushBlock

\* A step of the caller that touches neither the file nor the worker.
LEMMA CallerChained ==
  ASSUME ChainInv, UNCHANGED <<disk, head, wpc, wbatch, windex>>, ChainedQueue(disk, queue')
  PROVE  ChainInv'
BY DEF ChainInv

\* What is linked stays linked while the file grows.
LEMMA GrownLinks ==
  ASSUME TypeInv, ChainInv, disk' \in Seq(Cell), Extends(disk, disk')
  PROVE  /\ Linked(disk', head) /\ ChainedQueue(disk', queue)
         /\ Linked(disk', wbatch.prev_index_offset)
         /\ windex \in Trailers(disk, Len(disk)) => windex \in Trailers(disk', Len(disk'))
<1>1. disk \in Seq(Cell)
  BY DEF TypeInv, TypeOK
<1>2. \A o : Linked(disk, o) => Linked(disk', o)
  BY <1>1, LinkedGrows
<1> QED BY <1>1, <1>2, TrailersGrow DEF ChainInv, ChainedQueue

\* A torn cell is not a trailer.
LEMMA TornChained ==
  ASSUME TypeInv, ChainInv, MayTear
  PROVE  disk' \in Seq(Cell) /\ Extends(disk, disk') /\ ChainedFile(disk')
<1>1. disk \in Seq(Cell) /\ Len(disk) \in Nat /\ Torn \in Cell /\ Torn.kind # "trailer"
  BY LenProperties DEF TypeInv, TypeOK, Cell, Torn
<1>2. CASE UNCHANGED disk
  BY <1>1, <1>2 DEF ChainInv, Extends
<1>3. CASE disk' = Append(disk, Torn)
  <2>1. /\ disk' \in Seq(Cell) /\ Extends(disk, disk') /\ Len(disk') = Len(disk) + 1
        /\ disk'[Len(disk) + 1] = Torn
    BY <1>1, <1>3, AppendExtends
  <2>2. \A q \in Len(disk) + 1 .. Len(disk') : disk'[q].kind # "trailer"
    BY <1>1, <2>1
  <2> QED BY <1>1, <2>1, <2>2, ChainedGrows DEF ChainInv
<1> QED BY <1>2, <1>3 DEF MayTear

\* The worker holds nothing: nothing is asked of its batch and offsets.
LEMMA ReleasedChained ==
  ASSUME ChainedFile(disk'), Linked(disk', head'), ChainedQueue(disk', queue'),
         wbatch' = NoBatch, wpc' \in {"start", "idle", "stopped", "dead"}
  PROVE  ChainInv'
BY DEF ChainInv, NoBatch, Linked

LEMMA InitChain == Init => ChainInv
<1> SUFFICES ASSUME Init PROVE ChainInv
  OBVIOUS
<1>1. disk = <<Header>> /\ disk \in Seq(Cell) /\ Len(disk) = 1
  BY DEF Init, Cell
<1>2. ASSUME NEW o \in Trailers(disk, Len(disk)) PROVE FALSE
  <2>1. o \in Nat /\ 0 < o /\ o < Len(disk)
    BY <1>1, TrailerIff
  <2> QED BY <1>1, <2>1
<1>3. ChainedFile(disk)
  BY <1>2 DEF ChainedFile
<1>4. Len(queue) = 0 /\ ChainedQueue(disk, queue)
  BY DEF Init, ChainedQueue
<1> QED BY <1>3, <1>4 DEF Init, ChainInv, Linked, NoBatch

LEMMA CallerStepChain == TypeInv /\ ChainInv /\ Caller => ChainInv'
<1> SUFFICES ASSUME TypeInv, ChainInv, Caller PROVE ChainInv'
  OBVIOUS
<1>1. ChainedQueue(disk, queue) /\ SoundBuffers(buffers)
  BY TypeInvBuffers DEF ChainInv
<1>2. CASE Append_frame
  <2> DEFINE bufs == [c \in Cols |-> [buffers[c] EXCEPT !.data = Append(@, Token(c, NextFrame)),
                                                       !.token_count = @ + 1]]
  <2>1. UNCHANGED <<disk, head, wpc, wbatch, windex>>
    BY <1>2 DEF Append_frame, file, worker
  <2>2. SoundBuffers(bufs)
    BY <1>2, AppendedBuffers
  <2>3. UNCHANGED queue \/ FlushBlock(bufs, <<>>)
    BY <1>2 DEF Append_frame, FlushBlock
  <2> HIDE DEF bufs
  <2>4. ChainedQueue(disk, queue')
    BY <1>1, <2>2, <2>3, FlushChained
  <2> QED BY <2>1, <2>4, CallerChained
<1>3. CASE Flush_pending
  <2>1. UNCHANGED <<disk, head, wpc, wbatch, windex>> /\ FlushBlock(buffers, <<>>)
    BY <1>3 DEF Flush_pending, FlushBlock, file, worker
  <2> QED BY <1>1, <2>1, FlushChained, CallerChained
<1>4. CASE \E count \in 0 .. current_token_count : Truncate_epoch(count)
  BY <1>1, <1>4, CallerChained DEF Truncate_epoch, worker
<1>5. CASE Truncate_committed \/ Truncate_store \/ Truncate_pending
  <2>1. UNCHANGED <<disk, head, wpc, wbatch, windex, queue>>
    BY <1>5 DEF Truncate_committed, Truncate_store, Truncate_pending, file, worker
  <2> QED BY <1>1, <2>1, CallerChained
<1>6. CASE Drop
  <2>1. UNCHANGED <<disk, head, wpc, wbatch, windex>> /\ FlushBlock(buffers, StopCommand)
    BY <1>6 DEF Drop, file, worker
  <2>2. StopCommand \in {<<>>, <<Stop>>}
    BY DEF StopCommand
  <2> QED BY <1>1, <2>1, <2>2, FlushChained, CallerChained
<1>7. CASE Join
  <2>1. UNCHANGED <<disk, head>> /\ queue' = <<>> /\ wbatch' = NoBatch /\ wpc' = "stopped"
    BY <1>7 DEF Join, Gone, file
  <2>2. ChainedQueue(disk', queue')
    BY <2>1 DEF ChainedQueue
  <2> QED BY <2>1, <2>2, ReleasedChained DEF ChainInv
<1>8. CASE Open
  BY <1>8 DEF Open, ChainInv, file
<1> QED BY <1>2, <1>3, <1>4, <1>5, <1>6, <1>7, <1>8 DEF Caller

LEMMA CrashChain == TypeInv /\ ChainInv /\ Crash => ChainInv'
<1> SUFFICES ASSUME TypeInv, ChainInv, Crash PROVE ChainInv'
  OBVIOUS
<1>1. MayTear /\ queue' = <<>> /\ wbatch' = NoBatch /\ wpc' = "stopped" /\ head' = head
  BY DEF Crash, Gone
<1>2. disk' \in Seq(Cell) /\ Extends(disk, disk') /\ ChainedFile(disk')
  BY <1>1, TornChained
<1>3. Linked(disk', head') /\ ChainedQueue(disk', queue')
  BY <1>1, <1>2, GrownLinks DEF ChainedQueue
<1> QED BY <1>1, <1>2, <1>3, ReleasedChained

LEMMA WorkerReceiveChain == TypeInv /\ ChainInv /\ Worker_receive => ChainInv'
<1> SUFFICES ASSUME TypeInv, ChainInv, Worker_receive PROVE ChainInv'
  OBVIOUS
<1>1. /\ queue # <<>> /\ queue' = Tail(queue) /\ UNCHANGED <<disk, head, windex>>
      /\ \/ wpc' = "payload" /\ Head(queue).cmd = "Flush" /\ wbatch' = Head(queue).batch
         \/ wpc' = "stopped" /\ UNCHANGED wbatch
  BY DEF Worker_receive, file
<1>2. queue \in Seq(FlushCommand) /\ Len(queue) \in Nat /\ ChainedQueue(disk, queue)
  BY LenProperties DEF TypeInv, TypeOK, ChainInv
<1>3. /\ Len(queue) > 0 /\ Head(queue) = queue[1]
      /\ queue' \in Seq(FlushCommand) /\ Len(queue') = Len(queue) - 1
      /\ \A i \in 1 .. Len(queue') : queue'[i] = queue[i + 1]
  BY <1>1, <1>2, HeadTailProperties, EmptySeq
<1>4. ChainedQueue(disk, queue')
  <2>1. \A i \in 1 .. Len(queue') : i + 1 \in 1 .. Len(queue)
    BY <1>2, <1>3
  <2> QED BY <1>2, <1>3, <2>1 DEF ChainedQueue
<1>5. Linked(disk, wbatch'.prev_index_offset)
  <2>1. 1 \in 1 .. Len(queue)
    BY <1>2, <1>3
  <2> QED BY <1>1, <1>2, <1>3, <2>1 DEF ChainedQueue, ChainInv
<1> QED BY <1>1, <1>4, <1>5 DEF ChainInv

LEMMA WorkerPayloadChain == TypeInv /\ ChainInv /\ Worker_payload => ChainInv'
<1> SUFFICES ASSUME TypeInv, ChainInv, Worker_payload PROVE ChainInv'
  OBVIOUS
<1> DEFINE payload == wbatch.payloads[wcol]
<1>1. /\ disk \in Seq(Cell) /\ Len(disk) \in Nat /\ wcol \in Cols
      /\ payload \in Seq(ColumnToken(wcol))
  BY LenProperties DEF TypeInv, TypeOK, PendingSound
<1>2. /\ disk' = disk \o payload /\ UNCHANGED <<head, queue>> /\ wpc' \in {"index", "payload"}
      /\ wbatch' = [wbatch EXCEPT !.entries[wcol].byte_offset = PayloadOffset(payload),
                                  !.entries[wcol].byte_len = Len(payload)]
  BY DEF Worker_payload
<1>3. wbatch'.prev_index_offset = wbatch.prev_index_offset
  BY <1>2 DEF TypeInv, TypeOK, FlushBatch
<1> HIDE DEF payload
<1>4. /\ disk' \in Seq(Cell) /\ Extends(disk, disk') /\ Len(disk') = Len(disk) + Len(payload)
      /\ \A q \in Len(disk) + 1 .. Len(disk') : disk'[q] \in ColumnToken(wcol)
  BY <1>1, <1>2, ConcatExtends
<1>5. ChainedFile(disk')
  <2>1. \A q \in Len(disk) + 1 .. Len(disk') : disk'[q].kind # "trailer"
    BY <1>4 DEF ColumnToken
  <2> QED BY <1>1, <1>4, <2>1, ChainedGrows DEF ChainInv
<1> QED BY <1>2, <1>3, <1>4, <1>5, GrownLinks DEF ChainInv

LEMMA WorkerIndexChain == TypeInv /\ ChainInv /\ Worker_index => ChainInv'
<1> SUFFICES ASSUME TypeInv, ChainInv, Worker_index PROVE ChainInv'
  OBVIOUS
<1> DEFINE x == IndexBlock(wbatch.prev_index_offset, wbatch.block_idx, wbatch.entries)
<1>1. /\ disk' = Append(disk, x) /\ wpc' = "trailer"
      /\ UNCHANGED <<head, queue, wbatch, windex>>
  BY DEF Worker_index
<1>2. /\ disk \in Seq(Cell) /\ Len(disk) \in Nat
      /\ x \in Cell /\ x.kind = "index" /\ x.prev_index_offset = wbatch.prev_index_offset
  BY LenProperties DEF TypeInv, TypeOK, FlushBatch, IndexBlock, Cell
<1> HIDE DEF x
<1>3. /\ disk' \in Seq(Cell) /\ Extends(disk, disk') /\ Len(disk') = Len(disk) + 1
      /\ disk'[Len(disk) + 1] = x
  BY <1>1, <1>2, AppendExtends
<1>4. ChainedFile(disk')
  <2>1. \A q \in Len(disk) + 1 .. Len(disk') : disk'[q].kind # "trailer"
    BY <1>2, <1>3
  <2> QED BY <1>2, <1>3, <2>1, ChainedGrows DEF ChainInv
<1>5. /\ Len(disk') > 0 /\ disk'[Len(disk')].kind = "index"
      /\ disk'[Len(disk')].prev_index_offset = wbatch'.prev_index_offset
  BY <1>1, <1>2, <1>3
<1> QED BY <1>1, <1>3, <1>4, <1>5, GrownLinks DEF ChainInv

LEMMA WorkerTrailerChain == TypeInv /\ ChainInv /\ Worker_trailer => ChainInv'
<1> SUFFICES ASSUME TypeInv, ChainInv, Worker_trailer PROVE ChainInv'
  OBVIOUS
<1> DEFINE t == wbatch.prev_index_offset
<1>1. /\ disk' = Append(disk, IndexTrailer(t)) /\ wpc = "trailer" /\ wpc' = "check"
      /\ windex' = Len(disk) /\ UNCHANGED <<head, queue, wbatch>>
  BY DEF Worker_trailer, IndexOffset
<1>2. disk \in Seq(Cell) /\ Len(disk) \in Nat /\ t \in Nat /\ IndexTrailer(t) \in Cell
  BY LenProperties DEF TypeInv, TypeOK, FlushBatch, IndexTrailer, Cell
<1>3. /\ Linked(disk, t) /\ Len(disk) > 0
      /\ disk[Len(disk)].kind = "index" /\ disk[Len(disk)].prev_index_offset = t
  BY <1>1 DEF ChainInv
<1> HIDE DEF t
<1>4. /\ disk' \in Seq(Cell) /\ Extends(disk, disk') /\ Len(disk') = Len(disk) + 1
  BY <1>1, <1>2, AppendExtends
<1>5. ChainedFile(disk') /\ windex' \in Trailers(disk', Len(disk'))
  BY <1>1, <1>2, <1>3, <1>4, ChainedTrailer DEF ChainInv
<1> QED BY <1>1, <1>4, <1>5, GrownLinks DEF ChainInv

LEMMA WorkerCommitChain ==
  TypeInv /\ ChainInv /\ (Worker_check \/ Worker_load \/ Worker_store \/ Worker_head) => ChainInv'
<1> SUFFICES ASSUME TypeInv, ChainInv,
                    Worker_check \/ Worker_load \/ Worker_store \/ Worker_head
             PROVE  ChainInv'
  OBVIOUS
<1>1. CASE Worker_check
  <2>1. CASE wpc = "check" /\ wpc' = "load" /\ UNCHANGED <<file, queue, wbatch, windex>>
    BY <2>1 DEF ChainInv, file
  <2>2. CASE BackToIdle /\ UNCHANGED <<file, queue>>
    BY <2>2, ReleasedChained DEF ChainInv, BackToIdle, file
  <2> QED BY <1>1, <2>1, <2>2 DEF Worker_check
<1>2. CASE Worker_load
  BY <1>2 DEF Worker_load, ChainInv, file
<1>3. CASE Worker_store
  BY <1>3 DEF Worker_store, ChainInv
<1>4. CASE Worker_head
  <2>1. /\ wpc = "head" /\ head' = windex /\ disk' = disk /\ wbatch' = NoBatch
        /\ wpc' \in {"idle", "dead"} /\ (queue' = queue \/ queue' = <<>>)
    BY <1>4 DEF Worker_head, BackToIdle, WorkerDies
  <2>2. Linked(disk', head') /\ ChainedFile(disk')
    BY <2>1 DEF ChainInv, Linked
  <2>3. ChainedQueue(disk', queue')
    BY <2>1 DEF ChainInv, ChainedQueue
  <2> QED BY <2>1, <2>2, <2>3, ReleasedChained
<1> QED BY <1>1, <1>2, <1>3, <1>4

LEMMA WorkerFailsChain == TypeInv /\ ChainInv /\ Worker_fails => ChainInv'
<1> SUFFICES ASSUME TypeInv, ChainInv, Worker_fails PROVE ChainInv'
  OBVIOUS
<1>1. MayTear /\ queue' = <<>> /\ wbatch' = NoBatch /\ wpc' = "dead" /\ head' = head
  BY DEF Worker_fails, WorkerDies
<1>2. disk' \in Seq(Cell) /\ Extends(disk, disk') /\ ChainedFile(disk')
  BY <1>1, TornChained
<1>3. Linked(disk', head') /\ ChainedQueue(disk', queue')
  BY <1>1, <1>2, GrownLinks DEF ChainedQueue
<1> QED BY <1>1, <1>2, <1>3, ReleasedChained

LEMMA StepChain == TypeInv /\ ChainInv /\ [Next]_vars => ChainInv'
<1> SUFFICES ASSUME TypeInv, ChainInv, [Next]_vars PROVE ChainInv'
  OBVIOUS
<1>1. CASE Worker_start
  BY <1>1 DEF Worker_start, ChainInv, file
<1>2. CASE UNCHANGED vars
  BY <1>2 DEF vars, ChainInv, file, worker
<1> QED BY <1>1, <1>2, CallerStepChain, CrashChain, WorkerReceiveChain, WorkerPayloadChain,
           WorkerIndexChain, WorkerTrailerChain, WorkerCommitChain, WorkerFailsChain
           DEF Next, Worker

THEOREM ChainInvariant == Spec => []ChainInv
<1> QED BY InitChain, StepChain, TypeInvariant, PTL DEF Spec

LEMMA ChainInvSound == TypeOK /\ ChainInv => ChainSound
<1> SUFFICES ASSUME TypeOK, ChainInv PROVE ChainSound
  OBVIOUS
<1> DEFINE good == Trailers(disk, Len(disk))
<1>1. disk \in Seq(Cell) /\ head \in good \cup {0}
  BY DEF TypeOK, ChainInv, Linked
<1>2. ASSUME NEW o \in good
      PROVE  LET prev == At(disk, o).prev_index_offset
             IN  /\ prev = 0 \/ (prev \in good /\ prev < o)
                 /\ At(disk, o - 1).prev_index_offset = prev
  <2>1. /\ Linked(disk, Previous(disk, o)) /\ Previous(disk, o) < o
        /\ disk[o].prev_index_offset = Previous(disk, o)
    BY DEF ChainInv, ChainedFile
  <2>2. At(disk, o - 1) = disk[o]
    BY <1>1, TrailerCells
  <2> QED BY <2>1, <2>2 DEF Linked, Previous
<1> QED BY <1>1, <1>2 DEF ChainSound

\* The chain is well formed in every reachable state, for every number of crashes,
\* failures, truncates and reopenings.
THEOREM ChainIsSound == Spec => []ChainSound
<1> QED BY ChainInvSound, ChainInvariant, TypeCorrect, PTL

LEMMA SoundChainOpens == ChainSound => ReaderOpens
<1> SUFFICES ASSUME ChainSound PROVE ReaderOpens
  OBVIOUS
<1> DEFINE good == Trailers(disk, Len(disk))
<1>1. \A o \in good \cup {0} : o = 0 \/ TrailerAt(disk, Len(disk), o)
  BY DEF Trailers
<1>2. head \in good \cup {0}
  BY DEF ChainSound
<1>3. \A o \in good : Previous(disk, o) \in good \cup {0}
  BY DEF ChainSound, Previous
<1>4. Walk(disk, Len(disk), head) \subseteq good
  BY DEF Walk
<1> HIDE DEF good
<1> QED BY <1>1, <1>2, <1>3, <1>4 DEF ReaderOpens, WalkOK

\* So a reader that opens the file at any moment, after any crash, meets no offset
\* it rejects.
THEOREM ReaderAlwaysOpens == Spec => []ReaderOpens
<1> QED BY SoundChainOpens, ChainIsSound, PTL

-----------------------------------------------------------------------------
\* No step overwrites or removes a cell: the file only grows at its end.
LEMMA FileGrows ==
  ASSUME TypeInv, [Next]_vars
  PROVE  disk \in Seq(Cell) /\ disk' \in Seq(Cell) /\ Extends(disk, disk')
<1>1. disk \in Seq(Cell) /\ Len(disk) \in Nat
  BY LenProperties DEF TypeInv, TypeOK
<1>2. CASE UNCHANGED disk
  BY <1>1, <1>2 DEF Extends
<1>3. ASSUME NEW x \in Cell, disk' = Append(disk, x)
      PROVE  disk' \in Seq(Cell) /\ Extends(disk, disk')
  BY <1>1, <1>3, AppendExtends
<1>4. CASE Worker_payload
  <2>1. wcol \in Cols /\ wbatch.payloads[wcol] \in Seq(ColumnToken(wcol))
    BY <1>4 DEF TypeInv, TypeOK, PendingSound, Worker_payload
  <2>2. disk' = disk \o wbatch.payloads[wcol]
    BY <1>4 DEF Worker_payload
  <2> QED BY <1>1, <2>1, <2>2, ConcatExtends
<1>5. CASE Worker_index
  <2>1. IndexBlock(wbatch.prev_index_offset, wbatch.block_idx, wbatch.entries) \in Cell
    BY DEF TypeInv, TypeOK, FlushBatch, IndexBlock, Cell
  <2> QED BY <1>3, <1>5, <2>1 DEF Worker_index
<1>6. CASE Worker_trailer
  <2>1. IndexTrailer(wbatch.prev_index_offset) \in Cell
    BY DEF TypeInv, TypeOK, FlushBatch, IndexTrailer, Cell
  <2> QED BY <1>3, <1>6, <2>1 DEF Worker_trailer
<1>7. CASE Worker_fails \/ Crash
  <2>1. MayTear
    BY <1>7 DEF Worker_fails, Crash
  <2>2. Torn \in Cell
    BY DEF Cell
  <2>3. UNCHANGED disk \/ disk' = Append(disk, Torn)
    BY <2>1 DEF MayTear
  <2>4. CASE disk' = Append(disk, Torn)
    BY <1>1, <2>2, <2>4, AppendExtends
  <2> QED BY <1>2, <2>3, <2>4
<1>8. CASE Caller \/ UNCHANGED vars
  BY <1>2, <1>8 DEF Caller, Append_frame, Flush_pending, Truncate_epoch, Truncate_committed,
     Truncate_store, Truncate_pending, Drop, Join, Open, vars, file
<1>9. CASE Worker_start \/ Worker_receive \/ Worker_check \/ Worker_load \/ Worker_store
           \/ Worker_head
  BY <1>2, <1>9 DEF Worker_start, Worker_receive, Worker_check, Worker_load, Worker_store,
     Worker_head, file
<1> QED BY <1>4, <1>5, <1>6, <1>7, <1>8, <1>9 DEF Next, Worker
=============================================================================
