--------------------------- MODULE KvCacheFormat ---------------------------
(***************************************************************************)
(* The on-disk format of ncf-kvcache and the pure functions that read it.  *)
(*                                                                         *)
(* A file is a sequence of cells.  File offset o is position o + 1 of the  *)
(* sequence, so that offset 0 (the "no index yet" value of the header) is  *)
(* the header cell itself and payload_offset is 1.  One cell stands for    *)
(* one token of one column (element_bytes bytes), for one CBOR index block *)
(* or for one 24-byte trailer; a torn cell is whatever an interrupted      *)
(* write left behind.  The three live words of the header (commit_epoch,   *)
(* valid_token_count, index_head_offset) are variables of the writer, for  *)
(* every process shares them through its memory map.                       *)
(*                                                                         *)
(* A definition whose comment begins with "Fault:" is what a slip in the   *)
(* definition after it would make of it.  Nothing uses it: put in place of *)
(* that definition it shows that a property can tell the difference.       *)
(***************************************************************************)
EXTENDS Integers, Sequences, FiniteSetsExt

CONSTANTS
  BLOCK_TOKEN_COUNT,  \* tokens of a full block (64 in the code)
  NumColumns          \* layers * heads

ASSUME BlockAssumption == BLOCK_TOKEN_COUNT \in Nat \ {0}
ASSUME ColumnsAssumption == NumColumns \in Nat \ {0}

Cols == 0 .. NumColumns - 1

(***************************************************************************)
(* Cells and index entries.                                                *)
(***************************************************************************)
Entry == [chunk_id : Nat, col : Cols, block_idx : Nat,
          byte_offset : Nat, byte_len : Nat, token_count : Nat]

Header == [kind |-> "header"]
Torn == [kind |-> "torn"]
Token(c, f) == [kind |-> "token", col |-> c, frame |-> f]
IndexBlock(prev, b, es) ==
  [kind |-> "index", prev_index_offset |-> prev, block_idx |-> b, entries |-> es]
IndexTrailer(prev) == [kind |-> "trailer", prev_index_offset |-> prev]

ColumnToken(c) == [kind : {"token"}, col : {c}, frame : Nat]

Cell == {Header, Torn}
  \cup [kind : {"token"}, col : Cols, frame : Nat]
  \cup [kind : {"index"}, prev_index_offset : Nat, block_idx : Nat,
        entries : [Cols -> Entry]]
  \cup [kind : {"trailer"}, prev_index_offset : Nat]

payload_offset == 1

At(file, o) == file[o + 1]

(***************************************************************************)
(* reconstruct_index.  The walk starts at the head offset and follows      *)
(* prev_index_offset until it meets 0.  An offset passes the checks of the *)
(* walk when it lies in the mapped prefix, carries the trailer magic and   *)
(* has a decodable index block before it.                                  *)
(***************************************************************************)
TrailerAt(file, limit, o) ==
  /\ 0 < o /\ o < limit
  /\ At(file, o).kind = "trailer"
  /\ At(file, o - 1).kind = "index"

Trailers(file, limit) == {o \in 0 .. limit - 1 : TrailerAt(file, limit, o)}

Previous(file, o) == At(file, o).prev_index_offset

\* S holds the head and, with a trailer, the previous one.
Closed(file, limit, head, S) ==
  /\ TrailerAt(file, limit, head) => head \in S
  /\ \A o \in S : TrailerAt(file, limit, Previous(file, o)) => Previous(file, o) \in S

\* What the walk visits: the least closed set of trailers.
Walk(file, limit, head) ==
  {o \in Trailers(file, limit) :
     \A S \in SUBSET Trailers(file, limit) : Closed(file, limit, head, S) => o \in S}

\* The walk reaches offset 0 without meeting an offset it rejects.
WalkOK(file, limit, head) ==
  LET accepted(o) == o = 0 \/ TrailerAt(file, limit, o)
  IN  /\ accepted(head)
      /\ \A o \in Walk(file, limit, head) : accepted(Previous(file, o))

IndexedEntries(file, o) == {At(file, o - 1).entries[c] : c \in Cols}

SameKey(e, f) == e.col = f.col /\ e.block_idx = f.block_idx

\* Fault: blocks are inserted newest first, so the oldest wins.
Newest_Oldest(file, walk) ==
  UNION {{e \in IndexedEntries(file, o) :
            \A p \in walk : p < o => \A f \in IndexedEntries(file, p) : ~SameKey(e, f)}
          : o \in walk}

\* Blocks are inserted oldest first, so the one nearest the head wins.  The
\* previous offset is always smaller than a trailer's own (see ChainSound in
\* KvCacheWriter), so that is the one with the largest offset.
Newest(file, walk) ==
  UNION {{e \in IndexedEntries(file, o) :
            \A p \in walk : p > o => \A f \in IndexedEntries(file, p) : ~SameKey(e, f)}
          : o \in walk}

\* The index: the entries that KvcacheIndex.block_map holds.
ReconstructIndex(file, limit, head) ==
  UNION {Newest(file, walk) : walk \in {Walk(file, limit, head)}}

\* Fault: the last identifier is handed out again.
NextChunkId_Reused(file, limit, head) ==
  Max({0} \cup {e.chunk_id :
                  e \in UNION {IndexedEntries(file, o) : o \in Walk(file, limit, head)}})

NextChunkId(file, limit, head) ==
  Max({0} \cup {e.chunk_id + 1 :
                  e \in UNION {IndexedEntries(file, o) : o \in Walk(file, limit, head)}})

(***************************************************************************)
(* Lookups.  An Option is a set of at most one element; Panic stands for   *)
(* the slice-index panic of &payload[start..end].                          *)
(***************************************************************************)
Get(index, c, b) == {e \in index : e.col = c /\ e.block_idx = b}

Panic == [kind |-> "panic"]

Slice(file, limit, o) == IF o < limit THEN At(file, o) ELSE Panic

\* Fault: > where the bound check has >=.
TokenBytes_Bound(file, limit, index, valid, c, t) ==
  {Slice(file, limit, e.byte_offset + (t % BLOCK_TOKEN_COUNT)) :
     e \in {e \in Get(index, c, t \div BLOCK_TOKEN_COUNT) : t <= valid}}

TokenBytes(file, limit, index, valid, c, t) ==
  {Slice(file, limit, e.byte_offset + (t % BLOCK_TOKEN_COUNT)) :
     e \in {e \in Get(index, c, t \div BLOCK_TOKEN_COUNT) : t < valid}}

\* Entry e of column c spans tokens of that column, all before position limit.
Spans(file, limit, e, c) ==
  /\ e.col = c
  /\ \A q \in e.byte_offset + 1 .. e.byte_offset + e.byte_len :
       q < limit /\ file[q] \in ColumnToken(c)

BlockBytes(file, e) == SubSeq(file, e.byte_offset + 1, e.byte_offset + e.byte_len)
=============================================================================
