------------------------------ MODULE NcfMmap ------------------------------
(***************************************************************************)
(* NcfMmap of ncf-io, the reader that hands out slices of its map.  It     *)
(* opens the file and caches the schemas as NcfReader does, so its steps   *)
(* are those of NcfReader on variables of its own.                         *)
(***************************************************************************)
EXTENDS NcfWriter

VARIABLES mpc, mlimit, mprefix, mindexlen, mindex, mschemas, mversion, msource

mmapVars == <<mpc, mlimit, mprefix, mindexlen, mindex, mschemas, mversion, msource>>

M == INSTANCE NcfReader
       WITH rpc <- mpc, rlimit <- mlimit, rprefix <- mprefix, rindexlen <- mindexlen,
            rindex <- mindex, rschemas <- mschemas, rversion <- mversion, rsource <- msource

MmapInit == M!ReaderInit

Mmap_map == M!Reader_map
Mmap_open == M!Reader_open
Mmap_schemas == M!Reader_schemas
Mmap_drop == M!Reader_drop

\* tensor_slice: the bytes of the map behind the chunk header.
\* Fault: the checksum is taken for a part of the payload.
Mmap_slice_WithChecksum(name) ==
  {[from |-> e.byte_offset + CHUNK_HEADER_SIZE, len |-> e.byte_len - CHUNK_HEADER_SIZE] :
     e \in {mindex.chunk_map[id] : id \in {mindex.tensor_map[name]}}}

Mmap_slice(name) ==
  {[from |-> e.byte_offset + CHUNK_HEADER_SIZE, len |-> e.byte_len - CHUNK_OVERHEAD] :
     e \in {e \in {mindex.chunk_map[id] : id \in {mindex.tensor_map[name]}} :
              /\ e.byte_len >= CHUNK_OVERHEAD
              /\ e.byte_offset + e.byte_len - CHUNK_CHECKSUM_SIZE <= mlimit}}
-----------------------------------------------------------------------------
\* The slice of a tensor, in a container of exact offsets that nothing has replaced,
\* is its stored payload, all of it and nothing else, compressed if the tensor is,
\* and of tensors that share a name that of the last (mmap.rs:165).
SlicesAreStored ==
  mpc \in {"open", "decoded", "broken"} /\ version = 0 =>
    /\ DOMAIN mindex.tensor_map = {source[i].name : i \in DOMAIN source}
    /\ \A name \in DOMAIN mindex.tensor_map :
         \E i \in DOMAIN file :
           /\ file[i].kind = "chunk" /\ file[i].data = Packed(source[LastOf(source, name)])
           /\ Mmap_slice(name) = {[from |-> Start(file, i) + CHUNK_HEADER_SIZE,
                                   len |-> file[i].compressed_len]}
=============================================================================
