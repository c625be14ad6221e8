----------------------------- MODULE NcfClients -----------------------------
(***************************************************************************)
(* The writer of a container beside the readers of the file: one that maps *)
(* it and decompresses, one that maps it and hands out slices, one that    *)
(* fetches it from a server and one that streams it.                       *)
(***************************************************************************)
EXTENDS NcfReader, NcfMmap, NcfHttp, NcfStream

CONSTANT Clients   \* how many readers are made, of whatever kind

ASSUME ClientsAssumption == Clients \in Nat

VARIABLE clients   \* what is left of Clients

clientsVars == <<writerVars, readerVars, mmapVars, httpVars, streamVars, clients>>

Init == WriterInit /\ ReaderInit /\ MmapInit /\ HttpInit /\ StreamInit /\ clients = Clients

New == clients > 0 /\ clients' = clients - 1
Known == UNCHANGED clients

ReaderStep == \/ Reader_map /\ New
              \/ Reader_open /\ Known
              \/ Reader_drop /\ Known
              \/ Reader_schemas /\ Known

MmapStep == \/ Mmap_map /\ New
            \/ Mmap_open /\ Known
            \/ Mmap_schemas /\ Known
            \/ Mmap_drop /\ Known

HttpStep == \/ Http_head /\ New
            \/ Http_prefix /\ Known
            \/ Http_schemas /\ Known
            \/ Http_footer /\ Known
            \/ Http_index /\ Known
            \/ Http_fails /\ Known
            \/ Http_drop /\ Known

StreamStep == \/ Stream_new /\ New
              \/ Request_tensors /\ Known
              \/ Poll /\ Known
              \/ Poll_dropped /\ Known

Next == \/ Writer /\ UNCHANGED <<readerVars, mmapVars, httpVars, streamVars, clients>>
        \/ ReaderStep /\ UNCHANGED <<writerVars, mmapVars, httpVars, streamVars>>
        \/ MmapStep /\ UNCHANGED <<writerVars, readerVars, httpVars, streamVars>>
        \/ HttpStep /\ UNCHANGED <<writerVars, readerVars, mmapVars, streamVars>>
        \/ StreamStep /\ UNCHANGED <<writerVars, readerVars, mmapVars, httpVars>>

Spec == Init /\ [][Next]_clientsVars

\* The caller of next_chunk goes on polling.
FairSpec ==
  Spec /\ WF_clientsVars(Poll /\ Known /\ UNCHANGED <<writerVars, readerVars, mmapVars, httpVars>>)
=============================================================================
