# Verification of ncf

TLA+ specifications, model-checking configurations and machine-checked proofs for
ncf, a Rust workspace with two storage formats and the tools around one of them:

- the **container** (`ncf-core`, `ncf-io`): a file of named tensors that is written once
  and then read through a memory map, from a byte stream, or over HTTP;
- the **key-value cache** (`ncf-kvcache`): a file that one process extends, token by
  token, with a background flush thread, while others read it through a map;
- **converters, command line, Python bindings** (`ncf-convert`, `ncf-cli`, `ncf-py`):
  processes that write a container from another format, or read one.

## 1. The system

### 1.1 Components

| Component | State | Operations | Interacts with |
|---|---|---|---|
| `KvCacheWriter` (`writer.rs`), caller side | one `ColumnBuffer` per layer and head, `current_token_count`, `next_chunk_id`, `pending_block_idx`, sender, join handle | `create`, `open`, `append_frame`, `flush_pending`, `truncate`, `drop` | worker, by a channel and by the mapped header; the file |
| flush worker (`flush_loop`, `write_batch`) | file handle, map of the header, the batch in hand | receive, append payloads, append index block and trailer, check the epoch, store count, store head | caller, file |
| kv file: header, index blocks, trailers (`header.rs`, `index.rs`) | `commit_epoch`, `valid_token_count`, `index_head_offset`, appended blocks | encode and decode, `insert_entries`, `get` | everyone |
| `KvcacheReader` (`reader.rs`) | map, decoded header, index | `open` (`reconstruct_index`), `token_bytes`, `block_bytes`, `visible_token_count` | file, live count |
| `NcfWriter` (`writer.rs`) | metadata, flags, tensors | `add_tensor`, `finalize` | container file |
| `NcfReader` (`reader.rs`) | map, prefix, index, cached schemas | `open`, `schemas`, `find_schema`, `tensor_slice`, `read_tensor`, `verify_tensor` | container file |
| `NcfMmap` (`mmap.rs`) | the same | `open`, `schemas`, `tensor_slice` | container file |
| `NcfStreamReader` (`stream.rs`) | `StreamState`, prefix, schemas, requested names | `request_tensors`, `next_chunk` | any `AsyncRead` |
| `NcfHttpReader` (`http_reader.rs`) | size, prefix, schemas, index | `open` (five requests), `fetch_tensor`, `stream_tensor` | a server with range requests |
| core types (`ncf-core`) | none | CBOR and little-endian encodings | readers and writers |
| converters (`from_gguf.rs`, `from_safetensors.rs`) | the parsed input, the sorted offsets | `gguf_to_ncf`, `safetensors_to_ncf` | another crate's parser, `NcfWriter` |
| command line (`main.rs`), Python bindings (`lib.rs`) | none beyond the call | `create`, `convert`, `inspect`, `info`, `verify`; `create_ncf`, `inspect_ncf`, `load_tensor`, `load_tensor_numpy`, `load_tensor_torch` | converters, `NcfWriter`, `NcfReader`; each other, through the file |

### 1.2 What is hard about it

- **Two threads and no lock.** Caller and worker share the header words. The worker
  compares the epoch, loads the count, stores the count and stores the head in four
  accesses; `truncate` bumps the epoch, loads the count and stores it in three.
- **A commit is two stores**, count first. Readers of other processes, crashes and
  `open` can come between them.
- **Values read early and used late**: the link of an index block is the head at the time
  the block was queued; a reader's index and map are those of the time it was opened,
  while its bound check uses the live count.
- **Failure in the middle**: a failed system call ends the worker and drops what is
  queued; a failed send has already taken the data of every buffer; a crash leaves
  half a block at the end of the file, and the next writer appends behind it.
- **Reopening** a partial block: its tokens are written again, must not be counted again,
  and the new entry must win over the old one.
- **The container file is replaced in place** by `File::create`, under whoever has mapped
  it, is streaming it, or is between two of the five requests of an HTTP `open`.
- **Offsets are computed before the lengths they depend on are known**: a schema holds
  offsets, and the length of the schema block in CBOR depends on their values.
- **Cancellation**: a future of `next_chunk` that is dropped has consumed bytes.
- **Sizes nobody knows**: of a GGUF tensor the converter knows the offset only; where the
  payload ends is searched among the other offsets, and checked only for some dtypes.

### 1.3 What makes each component correct

- *Writer and worker*: the chain is well formed at every moment; what is visible reads
  back, right and in order; only commits raise the count and only truncation lowers it;
  chunk ids are unique; dropping returns; full blocks are published.
- *Format*: an index block's entries span tokens of their own columns; the newest entry
  for a block wins; the walk of the chain ends and rejects nothing.
- *Reader*: what was published before it opened stays readable; nothing wrong is ever
  read; `open` fails on a healthy file only by one race.
- *Container writer and readers*: a file opens exactly when it is whole; schemas and index
  agree; what verifies, or passes the checksum over HTTP, is what was recorded; a
  stream ends, and yields every tensor; what was written reads back. To whoever opens the
  path, the writer publishes one list of tensors after another, with nothing in between.
- *Tools*: a container holds the whole of what it was converted from, or was not touched; a
  verification that ends well is true; an array has all of the numbers it was stored with.

The hazards, each at its line and with the properties that would catch it, are in
`PROJECT.json`.

## 2. Modules

```
KvCacheFormat ── KvCacheWriter ──┬── KvCacheReaders ── MCKvCacheReaders
   cells, chain,   caller, worker, │     a reader beside the writer
   index, lookups  crash, reopen   └── MCKvCacheWriter
                   refines KvCacheLog

NcfFormat ── NcfWriter ──┬── NcfReader ─────┬── NcfClients ── MCNcfClients
  layout,      finalize,  ├── NcfMmap ───────┤
  blocks       failures   ├── NcfHttp ───────┤
   │                      ├── NcfStream ─────┘
   │                      └── NcfReader ──┐
   └── NcfConvert ────────────────────────┴── NcfTools ── MCNcfTools
                   NcfReader shows that the writer refines NcfPublication

proofs:  NatLemmas ─┬─ KvCacheProofs ── KvCacheCountersProofs ── KvCachePacedProofs ── KvCacheReadersProofs
                    └─ NcfReaderProofs ─┬─ NcfClientsProofs
                                        └─ NcfToolsProofs
```

### 2.1 Key-value cache

**KvCacheFormat** is the file as a sequence of cells: the header, a cell for each token of a
column, an index block, a trailer, or a torn write. Offsets are cell numbers from 0. It
gives the operators of the reader: `Walk` is the set of trailers `reconstruct_index` visits
(the least set closed under `prev_index_offset`, so that no recursion is needed and the
module can be proved about), `WalkOK` says that the walk rejects no offset,
`ReconstructIndex` keeps the newest entry per block, `NextChunkId`, `Get`, `TokenBytes`
and `BlockBytes` are the functions of those names.

**KvCacheWriter** is the core. Its actions are

| Action | Code |
|---|---|
| `Append_frame`, `Flush_pending` | `append_frame`, `flush_pending` with the whole of `flush_block` |
| `Truncate_epoch`, `Truncate_committed` + `Truncate_store`, `Truncate_pending` | `truncate`: the bump, then the branch it takes; load and store of the count are separate |
| `Drop`, `Join` | `drop`: last flush, `Stop`, join |
| `Open` | `open` with an existing file, including the partial block |
| `Worker_start`, `Worker_receive` | `flush_loop` |
| `Worker_payload`, `Worker_index`, `Worker_trailer` | the writes of `write_batch`, one at a time |
| `Worker_check`, `Worker_load`, `Worker_store`, `Worker_head` | its accesses to the header |
| `Worker_fails` | any system call of the worker returns an error |
| `Crash` | the process dies between two steps, perhaps in the middle of a write |

Three constants describe the environment. `Budget` bounds how often each thing
happens (and names the frames, 1, 2, 3 ...). `Paced` makes the caller wait until the worker is idle
before it causes a flush or truncates; this is the discipline under which the code keeps its
promises. Watching `visible_token_count` is not enough for it, since the count is stored before the
head. `Truncates` says what the caller cuts: anything, only frames that are still
buffered, or only committed ones with nothing pending. `log` is a history variable: the frames
accepted and neither truncated nor lost.

**KvCacheLog** is the abstract specification: a log of accepted frames with a durable prefix that only grows.
`KvCacheWriter!ImplementsLog` maps `durable` to what a reader who opened the file now would get.

**KvCacheReaders** adds a reader of another process: `Reader_map` takes the length of the file,
`Reader_decode` the header and the chain, and a read checks the live count.

### 2.2 Container

**NcfFormat** computes the layout with the sizes of the code: 48 bytes of prefix, 30 of chunk
header, 32 of checksum, 16 of footer, and the lengths that CBOR gives to the integers of a
`ChunkRef` (a checksum is an array of 32 integers, and those above 23 take two bytes). `EstimatedBase` is
the offset `finalize` gives the first chunk, `IndexOffset` the one it gives the index. A
file is a sequence of blocks with lengths; `BlockAt` decodes at a byte offset and finds something
only where a block of that kind begins.

**NcfWriter**: `New_writer` (the next save, or another process), `Add_tensor`, `Finalize` (everything up to and with `File::create`), one `Write_block`
for each block, and `Write_fails`, which leaves a prefix of the file, perhaps with half a block, for an
error and for a crash alike. At first the path may hold nothing or a container of another producer whose offsets are
right (`ExactBase` and `ExactAssumption`, external): those exercise the readers where the writer's own files do not.

**NcfPublication** is the abstract specification of the writer: the tensors added so far, and what opening the
path shows, which is one whole list of tensors or nothing. A new writer starts with no tensors (`Renew`) and leaves what is
shown alone; a list vanishes before the next one is published. At first anything may be shown, but one list at most.
`NcfReader!ImplementsPublication` maps `shown` to what an undisturbed `open` and `schemas` would return now, so
that it speaks of writer and reader together.

**NcfReader**: `open` reads the file in pieces, and the file may be created anew between any two of them: `Reader_map`,
`Reader_prefix`, `Reader_metadata`, `Reader_footer`, `Reader_index`, or `Reader_rejects` at each. `Reader_schemas` is the
first call that needs the schemas (its result, an error too, is cached), `Reader_drop` the end. The reads
are operators on the map as it is now: `Tensor_slice`, `Read_tensor`, `Verify_tensor` and `Verify_errs`, `Find_schema`.

**NcfMmap** opens and decodes as NcfReader does, line by line, so its steps are those of an instance of NcfReader with
variables of its own; `Mmap_slice` is its `tensor_slice`.

**NcfHttp**: one action for each of the five requests of `open`, each answered from the file as it is then; `Http_fails` for
any response that is missing or refused; `Fetch_tensor` with its checksum check.

**NcfStream**: `Poll_header`, `Poll_schema`, `Poll_chunk` are the states of `next_chunk`, with the bytes they
consume, also when they fail; `Poll_dropped` is a cancelled future. One `Poll_chunk` is one turn of the loop.

**NcfClients** composes them: the writer and one reader of any kind. Readers do not
write, so several of them would not affect each other.

### 2.3 Tools

**NcfConvert** has the pure part: what a GGUF tensor, a safetensors tensor or a plain file becomes (`Gguf_tensor`, `Safe_tensor`,
the tensor of `create`, together `Converted`), when the command gives up (`Refused`), and how `load_tensor_numpy` splits
bytes into numbers. `Next_offset` is a set, because the binary search may find any of several equal offsets.

**NcfTools** has a process that writes and one that reads at the same path, on the actions of NcfWriter and NcfReader:

| Action | Code |
|---|---|
| `Write_command`, `Convert_tensor`, `Convert_refuses` | reading the input; a turn of the converter's loop; its error or panic |
| `Write_output`, `Write_on` | `finalize`, up to the creation of the file, and the rest of it or its failure |
| `Read_command`, `Open_continues`, `Open_fails` | `NcfReader::open` of a command that reads |
| `Info`, `Decode_schemas`, `Decode_fails`, `Inspect` | `info`, which decodes no schemas, and `inspect`, which does |
| `Verify_turn`, `Verify_ends` | the loop of `verify` over the schemas, one tensor at a time |
| `Load_finds_none`, `Load_tensor`, `Load_tensor_numpy` | the Python calls |

`load_tensor_torch` passes on what `load_tensor_numpy` returns.

Definitions whose comment begins with "Fault:" are variants used to test that a property can fail;
nothing refers to them.

### 2.4 Abstractions

Common to all: values of tokens and payloads are identities, not bytes; encodings are
modelled by lengths where an offset depends on them (container) and by one cell per structure
elsewhere (kv cache); no payload contains bytes that look like a header of the format.

Container: one compression stands for Zstd, LZ4 and Snappy; each tensor has one chunk, as `finalize` writes it; a block is written
whole, or torn by a failure, and a torn block is unreadable as a whole; the index block's length
is a stand-in (`IndexLen`), as are the lengths of the metadata and of a schema without its numbers; a
read of a map beyond the end of the file (SIGBUS) counts as an error; no two payloads have the same hash (`IdsAssumption`).
The open of a map is five steps, one for each place it reads, and so is HTTP `open`. Of a shape, only the number of elements is kept.

Tools: the crates that parse GGUF and safetensors are external, and an input is what they return: names, types, element
counts and offsets, with the size of each tensor in bytes, which the code does not look at. An offset is taken for a position in the file, as
`from_gguf.rs` does; the GGUF format counts offsets from its data section, and whether the crate converts them is
outside this repository. `load_tensor_numpy` discards the reshaped array, so an array is its number of bytes. Reading and parsing an
input is one step, and so is a turn of a loop; argument parsing and printing are left out.

Kv cache: `create` has returned at the start; the caller's accesses in `flush_block` are one step (the
comment in the module says why); a crash is one of the process, so the page cache survives.

## 3. Runs

`tlc -config <run>.cfg <module>`. All runs set `CHECK_DEADLOCK FALSE`: every budget runs out,
and then the system does stop.

### 3.1 Runs that pass

| Run | Module | Shows |
|---|---|---|
| `KvCachePaced` | MCKvCacheWriter | with the discipline: `ReadsCorrect`, `Reopenable`, `CountsAgree`, `NothingUnlinked`, `CleanCloseCount`, and that the writer implements the abstract log |
| `KvCacheFree` | MCKvCacheWriter | without any discipline: `TypeOK`, `ChainSound`, `ReaderOpens`, `EntriesSound`, `PendingSound`, `ChunkIdsIncrease`, `VisibleMonotone`; and under fairness that dropping returns (`DropEnds`) and that less than a block of what was accepted stays unpublished (`BacklogDrains`) |
| `KvCacheRushed` | MCKvCacheReaders | a caller that queues blocks faster than they are written, and never truncates or reopens, loses access to blocks but never reads anything wrong: `ReadsNeverWrong`, `SnapshotReads`, `CountsAgree`, `CleanCloseCount`; and full blocks are published without another call: `BlocksPublished`. Two columns |
| `KvCacheReaders` | MCKvCacheReaders | beside a paced writer that reopens and extends partial blocks: `ReaderSeesPublished`, `RejectsOnlyByRace` |
| `NcfClients` | MCNcfClients | a container written anew under each kind of reader: `OnlyWholeFilesOpen`, `LookupsAgree`, `VerifiedReads`, `RefusesOnlyUnflagged`, `SlicesAreStored`, `FetchedIsRecorded`, `FetchesAllFlagged`, `StreamEnds`, and that the writer implements the abstract publication |
| `NcfTools` | MCNcfTools | commands beside each other: `ConvertedFaithfully`, `VerifyConfirms`, `ArraysAreWhole` |

**Bounds.** Blocks hold two tokens, so that a block can be empty, partial and full. The passing kv runs
offer four to seven frames, two or three blocks: enough for a partial block to be rewritten and followed by another, and for three
batches to be queued at once. One or two columns: two where payload offsets of several columns matter. At most two reopenings,
one crash, one failed system call, one truncate: each property concerns how one such event
meets the others. Container runs have two names, three payloads (two of equal length, and one
that compression does not shorten), up to two tensors, also two of one name, one rewrite and one
failure. Among the containers found at first, one holds a chunk that compression did not shorten and so is not flagged, and one
two tensors of one name. The metadata is long enough that every chunk offset takes the same number of bytes in CBOR; so the chunks of the
rewritten container lie exactly where those of the one before lay, which is when stale schemas are dangerous.

`NcfTools` has nine inputs: GGUF files whose tensors fit, are listed in another order than they lie, have padding behind a tensor of
fixed size or behind a packed one, are cut in a tensor of fixed size or in a packed one, or begin with an empty tensor at the offset of the next; a safetensors
file; a plain file. Names, lengths and element counts are such that the inputs which are accepted convert to containers of the same layout, again so that what a
command reads of one can be taken for the other. Two commands write, one of which may fail in the middle, and one reads: a
second reader would share nothing with the first.

**Fairness.** `KvCacheWriter!FairSpec` has weak fairness of `Worker` (a thread of the system scheduler whose
system calls return), of `Join` (`drop` blocks until the thread ends) and of the second half of a
`truncate` that has begun. Nothing obliges the caller to call anything, and `Worker_fails` and `Crash`
have none. `KvCacheReaders!FairReadersSpec` is the same beside a reader, which need never be opened. `NcfClients!FairSpec` has weak fairness of `Poll`: the caller goes on polling, which is what `StreamEnds` is about.

### 3.2 Runs that find a disagreement

| Run | Property | What happens |
|---|---|---|
| `KvCacheUnlinked` | `NothingUnlinked` | two blocks queued before the first is committed link to the same old head; the commit of the second unlinks the first |
| `KvCacheFlushAppend` | `ReadsCorrect` | `flush_pending` in the middle of a block moves later frames to the next block index, while readers look a token up by its number |
| `KvCacheStaleFlush` | `StaleFlushRejected` | `truncate` begins, stores its count and returns between the worker's epoch check and the worker's store, which then overwrites it: the truncated frames become visible |
| `KvCacheCommitCrash` | `ClosedReadable` | a crash between the two stores of a commit leaves a count ahead of the index |
| `NcfRoundTrip` | `ReadsBack` | chunk offsets are computed from a schema block of placeholders that is shorter than the final one |
| `NcfStreamAll` | `StreamsAll` | the range read as schema block includes the chunks, so none is streamed |

`StaleFlushRejected` does not forbid that a stale batch is counted while `truncate` is still under way: `truncate` has then neither loaded nor
stored the count, and lowers the new one correctly.

Further disagreements seen while modelling, without a run of their own. Each can be reproduced by a cfg like
`KvCacheStaleFlush.cfg` with the values given:

- `truncate` to below the committed count leaves buffered frames where they are, and they are published on
  close (`Truncates = "any"`, `Paced = TRUE`, `CleanCloseCount`).
- after a truncate into committed blocks, new frames go to a later block index, and the truncated
  token is what a reader still gets (`Truncates = "committed"`, `Paced = TRUE`, `ReadsCorrect`); with a reopening in
  between, the buffer is filled with the whole block but counts only the tokens that were kept.
- `truncate` bumps the epoch first, so the worker discards a block that is queued, although the caller goes on
  counting it, even when `truncate` then fails (`Truncates = "buffered"`, `Paced = FALSE`, `CleanCloseCount`).
- between the two stores of a commit that extends a partial block, a fresh reader checks the new count against the
  old entry and reads past the old block (`PacedBudget`, `Paced = TRUE`, `ReadsNeverWrong`), and so does a reader that was opened before
  the block was extended (`PartialBlocks` with MCKvCacheReaders, `SnapshotReads`). This is why `KvCacheRushed` does not reopen.

And of the container and its tools, where the model takes over what the code does:

- `verify_all` (reader.rs) and the `verify` command go by name, so of tensors that share a name they verify the last one several times and the others
  never, although they set out to verify every tensor in the file. `VerifyConfirms` is stated accordingly.
- `schema_count` is the number of distinct names, not of schemas.
- a packed tensor of a GGUF file that is cut short is converted without complaint, and with equal offsets a tensor may
  become empty; `Faithful` therefore asks for all of the bytes of a packed tensor only if the input is `Whole`.
- `safetensors_to_ncf` makes F64, I64 and BOOL `Custom`, although the container has an F64; and `load_tensor_numpy` does not split F16 and BF16.

## 4. Proofs

| Module | Theorem | Statement |
|---|---|---|
| `KvCacheProofs` | `TypeCorrect` | `Spec => []TypeOK` |
| | `EntriesAreSound` | `Spec => []EntriesSound`: every entry of every index block in the file spans tokens of its own column |
| | `PendingIsSound` | `Spec => []PendingSound`: so does what is buffered, queued or being written |
| | `VisibleIsMonotone` | `Spec => VisibleMonotone`: only a commit raises the visible count, only a truncate lowers it |
| | `ChainIsSound` | `Spec => []ChainSound`: the head and every link name 0 or an earlier complete trailer |
| | `ReaderAlwaysOpens` | `Spec => []ReaderOpens`: `open` of a fresh reader never rejects an offset |
| `KvCacheCountersProofs` | `ChunkIdsAreUnique` | `Spec => []ChunkIdsIncrease`: along the chain of the head no chunk id is given out twice |
| | `CountIsKept` | `NothingStale => (Spec => []CountsAgree)`: `current_token_count` is what is visible, queued, in the worker's hand and buffered |
| | `CloseCounts` | `NothingStale => (Spec => CleanCloseCount)`: dropping a writer whose worker has not failed leaves every accepted frame visible |
| `KvCachePacedProofs` | `PacedUnlinksNothing` | `Paced => (Spec => NothingUnlinked)`: under the discipline no block is ever taken out of the chain |
| | `DisciplinedReadsAreCorrect` | `Disciplined => (Spec => []ReadsCorrect)`: a fresh reader gets every published frame of every column, and each as it was appended |
| | `DisciplinedReopens` | `Disciplined => (Spec => []Reopenable)`: `open` of a closed or crashed file finds the block it has to continue |
| | `DisciplinedIsALog` | `Disciplined => (Spec => ImplementsLog)`: the writer implements KvCacheLog |
| `KvCacheReadersProofs` | `RejectionsAreRaces` | `ReadersSpec => RejectsOnlyByRace`: a reader is turned away only if a batch was committed between its map and its decode |
| | `ReadersSeePublished` | `Disciplined => (ReadersSpec => []ReaderSeesPublished)`: a reader that stays open goes on reading what was published before its map |
| | `RushedReadsAreRight` | `Rushed => (Spec => []ReadsNeverWrong)`: however many blocks are queued, a fresh reader gets the right bytes or none |
| | `SnapshotsAreRight` | `Rushed => (ReadersSpec => []SnapshotReads)`: so does a reader that stays open |
| `NcfClientsProofs` | `FetchesAreRecorded` | `Spec => []FetchedIsRecorded`: HTTP yields nothing but what was added under that name to the container whose schemas the client holds |
| | `VerificationIsTrue` | `Spec => []VerifiedReads`: what verifies reads back as it was added |
| | `OnlyWholeFilesAreOpened` | `Spec => []OnlyWholeFilesOpen`: open succeeds on a whole container and on nothing less |
| | `LookupsAlwaysAgree` | `Spec => []LookupsAgree`: schemas and index name the same chunk |
| | `OnlyUnflaggedAreRefused` | `Spec => []RefusesOnlyUnflagged`: an undisturbed container of exact offsets is read and verified but for its unflagged compressed chunks |
| | `SlicesAreAlwaysStored` | `Spec => []SlicesAreStored`: a slice of such a container is the stored payload |
| | `AllFlaggedAreFetched` | `Spec => []FetchesAllFlagged`: HTTP fetches such a container, with the same exception |
| | `WritersPublish` | `Spec => ImplementsPublication`: the writers of a path implement NcfPublication |
| `NcfToolsProofs` | `ConversionIsFaithful` | `Spec => []ConvertedFaithfully`: a container holds what its input holds |
| | `VerifyTellsTheTruth` | `Spec => []VerifyConfirms`: so does what a `verify` that ended well has come to |
| | `NoArrayLosesBytes` | `FoundFit => (Spec => []ArraysAreWhole)`: an array has all of the bytes that were read |

They hold for every value of the constants: block size, number of columns, budgets and discipline of the caller; names, payloads,
containers found, tensors offered, inputs, and lengths.

**Assumptions.** The kv cache: the block size is a positive natural (`BlockAssumption`), there is at least one column
(`ColumnsAssumption`), and `Budget`, `Paced`, `Truncates`, `Opens` have their types. The container: `Found` and `Offered` hold
tensors and payloads have naturals as lengths (`FoundAssumption`, `PayloadsAssumption`, `LengthsAssumption`); the containers found have exact
offsets (`ExactAssumption`: a base that agrees with the length of the schema block it leads to exists within the range `ExactBase` searches); no two payloads share a hash (`IdsAssumption`). The
tools: an input has the fields a parser returns (`InputsAssumption`); a tensor whose elements have a size of their own takes that many
bytes, and a plain file is one tensor of bytes (`SizesAssumption`); the payloads inputs convert to are among `Payloads` (`ResultsAssumption`). TLC evaluates them
in the runs of the modules that declare them.

**Hypotheses.** Some theorems are about some callers only. Each hypothesis is a predicate on constants, and section 3.2 shows what happens without it:

| Hypothesis | Says | Run that satisfies it | Without it |
|---|---|---|---|
| `Paced` | the caller lets the worker go idle before it queues a block or truncates | `KvCachePaced` | `KvCacheUnlinked` |
| `NothingStale` | nothing is truncated; or the caller is paced and truncates buffered frames only | `KvCachePaced`, `KvCacheRushed` | `KvCacheStaleFlush` |
| `Disciplined` | `Paced`; buffered frames only are truncated; no `flush_pending` by the caller; no crash between the two stores of a commit | `KvCachePaced`, `KvCacheReaders` | `KvCacheUnlinked`, `KvCacheFlushAppend`, `KvCacheCommitCrash` |
| `Rushed` | no `flush_pending`, no truncate, no reopening; any pace, any crash | `KvCacheRushed` | the cases of `ReadsNeverWrong` and `SnapshotReads` in 3.2 |
| `FoundFit` | the container found at first has payloads as long as its elements take; `add_tensor` does not ask for it, the converters see to it | `NcfTools` | a payload with a byte too many loses it |

**Arguments.**

- `TypeInv == TypeOK /\ EntriesSound /\ PendingSound` is inductive, and `TypeOK` alone is not: `open` copies into
  the buffers whatever cells an index entry names, so the type of a buffer rests on what the file holds, and what
  the file holds rests on what was queued. The file only grows at its end, so that an entry which spans tokens once does so
  for ever (`SpansExtends`, `SoundExtends`). Each action has a lemma of its own.
- `VisibleInv` adds what the accesses without a lock rely on: between a truncate's load and its store the
  target is still at most the count, and between the worker's load and its store the count has not
  grown past what was loaded. Each holds because the other thread only ever moves the count the other way.
- `ChainInv` adds to `ChainSound` what is still on its way: every queued batch, and the one in hand, links to
  0 or to a trailer in the file; while the trailer is due, the last cell is the index block with the same link; from the check on, `windex` is
  a trailer. It does not say that links are fresh: they need not be, which is what `KvCacheUnlinked` shows.
- `ReaderOpens` follows from `ChainSound`: the set of trailers the walk visits is within those that satisfy the check.
- `IdsInv`: the ids of every batch on its way are below the counter and above those of the block it links to, and while there is a
  writer the counter is above what the head names. Batches in the queue need not be ordered among each other, for two of them may link to
  the same block. The order of the whole chain follows from the order across each link without an induction along the walk: the lowest trailer
  whose walk were out of order would link to a lower one whose walk is in order (`WalkInOrder`).
- `PacedInv`: at most one batch is on its way, and it links to the present head; a paced caller queues the next one only when the queue is empty and the
  worker idle. So the store of a head names a trailer that links to the head it replaces, and what the old walk visits the new one does. The file
  only grows (`FileGrows`), and growing takes nothing from a walk (`WalkGrows`).
- `CountInv`: the counting properties are sums over a queue of any length (`QueueCost`). `NatLemmas` has the lemmas that take a sum apart at an element
  that is added or removed, so that a receive, a send, a commit and a failure each move a number from one term to the next. `EpochInv` says that every batch on its way has the
  present epoch, which is what keeps it from being dropped after the caller has counted it; `OrderInv` that a truncation finds the worker idle.
- `ContentsInv`: `StoredInv` says that the index of the chain of the head is an image of the log, block by block; `BatchInv` that what is on its way continues it, whole blocks unless drop
  sent it; `CallerInv` that the buffers continue what is published and on its way. A store of the head replaces an index by one with one entry more or one entry longer, and that
  this is the image of a longer prefix of the log is the heart of the proof. `Reopenable`, `ReadsCorrect` and the mapping to `KvCacheLog` are then read off
  `StoredInv`; a step of the writer is a step of the log exactly at a store of the head, at an append, at a truncation and at the loss of what was not durable.
- `ViewInv` (KvCacheReadersProofs): what a reader has decoded is the index of a head that is still in the chain, and all frames published then are found through it. The file grows under it and
  the frames stay, so they go on being found.
- `RushedInv` says nothing of the chain: every index block in the file, linked or lost, names the tokens of its block, and so does every batch on its way. A block is full, or, once nothing more is appended, holds all there
  is; so two blocks of one index hold the same frames, and whichever a reader finds, what it reads is right.
- `RejectsOnlyByRace`: a reader adds no step the writer can see, so `ChainInv` holds beside it, and the file never shrinks below the map (`MapInv`). A
  head inside the map is then a trailer inside the map, and links only point down.
- `FileInv`: the file and the blocks still to be written belong to one list of tensors, at one of two bases, whatever failed or was
  created anew; so every block found at an offset, torn or not, is one of that list. `DecodedInv` and `FetchedInv`: the schemas a reader holds, with
  every number in them, are those of one list too. They may be different lists. What makes a chunk of one acceptable to the schemas of the other is
  then the checksum alone, and payloads of equal hash are equal.
- `ConvertInv`: the tensors converted so far are each faithful to the input (`Underway`), and only when all of them are converted does `Write_output` make them the container's. The
  next offset of a tensor of a whole input is behind all of its bytes; of any other the length check of fixed sizes decides.
- `LayoutInv`: whole or half written, the file is a beginning of one container (`Target`), except that its last block may be torn; the rest is in `unwritten`; there is a footer exactly when it is complete.
  A place in a container is a sum of the lengths before it (`Start`), and `ContainerPlaces` computes the places of all of its blocks from them, for any number of tensors: the index lies where the prefix says, whatever the base
  was. That only whole files open follows, since a footer is the last block to be written; that the tensors' places in schemas and index are exact follows only for `ExactBase`.
- `WritersPublish`: by `ShownIs`, opening shows the descriptions of `source` when the file is complete and nothing otherwise, so the steps of the writer are those of NcfPublication: `Finalize` makes the list vanish, the last
  `Write_block` publishes it, `Write_fails` and all other writes change nothing that is seen.
- `ViewInv` (NcfReaderProofs): what a reader holds that mapped the present file, version by version: after the prefix was read it is that of the container, and past the footer the container is known to be complete, because a footer was where the end of the
  map says. Nothing is said of a reader whose file has been replaced; `DecodedInv` and the checksums cover that. NcfMmap is an instance of NcfReader, so its view is proved with the same lemmas; `HttpView` is the same for
  the requests, for the first container only, as HEAD fixes no version.
- `VerifyInv`: each report of `verify` that is true was made when reading the tensor returned what was added; the schemas have not changed since, whatever the file did.
- `ArraysInv`: what `read_tensor` returns is as long as the schema says, whatever the file is now (`ReadLength`). Uncompressed, because a chunk of another length is refused; compressed, because the commands write nothing compressed, so
  that a flagged chunk is one of the container found at first and the file has not been replaced (`PlainInv`).

`NatLemmas` has the facts on least and greatest numbers and on bounded functions that the library offers only
in a form no installed prover can instantiate; they are proved from the well-founded order of finite sets by inclusion. It also has what the proofs need of sums (`Total`), which the model
writes with `MapThenSumSet`: the sum over nothing, over one element more or less, and of equal or bounded terms.

**What is only model-checked**: the liveness properties `DropEnds`, `BacklogDrains`, `BlocksPublished` and `StreamEnds`. Fairness and `ENABLED` are out of the prover's reach.
Every invariant and every action property of a passing run, and both refinements, are theorems, those of the kv cache's readers and counters under the hypotheses above. The runs beyond them are the disagreements of
section 3.2, which are counterexamples and not theorems. What a proof cannot say either is that an abstraction of section 2.4 is right.

## 5. What is not modelled, and what no property covers

- The hazards of an undisciplined `truncate` (into committed tokens with frames buffered or appended later; the same, reopened; a batch discarded that was
  still queued) do go wrong. `KvCacheFree` meets them, but its properties hold all the same; the runs and theorems about
  counts and reads exclude them. So no property is listed for the first two, and 3.2 says how to reproduce all of them.
- `VerifiedReads` takes `verify_tensor` and `read_tensor` of the same file. A container created anew between an earlier `verify_tensor` and a later
  `read_tensor` is not noticed by the code.
- `RefusesOnlyUnflagged` and `FetchesAllFlagged` name the tensors that are compressed to their own length as an exception: they say that nothing else is
  refused, not that these are not.
- `StreamEnds` does not say that what is emitted after a dropped poll is aligned with the chunks, only that the stream ends.
- Crashes of the machine: nothing is synced before the head is stored.
- Two writers that open one file: nothing in the code keeps them apart.
- Widths of integers (u32 counts, u64 offsets) and the overflow checks; the `MAX_*` size limits of the container.
- `layers * heads = 0`, where `append_frame` panics on its first call.
- Byte encodings, the static part of the kv header, quantisation types, layouts, metadata: pure value types, which unit tests reach.
- The parsers of GGUF and safetensors, and numpy and torch: other projects. Argument parsing and printing.
- Fuzz targets, benchmarks and CI.

## 6. Plan

Done: the kv cache (KvCacheFormat, KvCacheWriter, KvCacheLog, KvCacheReaders), the container (NcfFormat, NcfWriter, NcfPublication,
NcfReader, NcfMmap, NcfHttp, NcfStream, NcfClients), the tools (NcfConvert, NcfTools), their runs, and the proofs of section 4. The order was by
how much goes wrong silently: the kv writer first, then its readers, then the container and its readers, then what calls them.

Left, in this order:

1. *Prove.* Weaken hypotheses where the code allows it: `Disciplined` excludes `flush_pending` altogether, although one at the end of a block, or one that nothing is appended after, does no harm; `Rushed` excludes
   reopening, although reopening at a block boundary does none either.
2. *Model.* A second writer process on one kv file, and crashes of the machine, as sources of disagreement rather than of promises.
