---------------------------- MODULE MCNcfClients ----------------------------
(***************************************************************************)
(* Values for model-checking NcfClients.  Of the payloads, p and q have the*)
(* same lengths, p and q shrink under compression and z does not change    *)
(* its length, so that its chunk is not flagged.                           *)
(***************************************************************************)
EXTENDS NcfClients

p == [id |-> "p", len |-> 100, packed |-> 40, wide |-> 28]
q == [id |-> "q", len |-> 100, packed |-> 40, wide |-> 28]
z == [id |-> "z", len |-> 20, packed |-> 20, wide |-> 30]

AllPayloads == {p, q, z}

T(name, compression, payload) ==
  [name |-> name, dtype |-> "U8", elems |-> payload.len, compression |-> compression,
   payload |-> payload]

SomeTensors == {T("a", "None", p), T("a", "None", q), T("b", "Zstd", z)}
OneOfEach == {T("a", "None", p), T("b", "Zstd", q)}

\* One container of q alone would show what one of p alone does.
FoundContainers ==
  {<<T("a", "None", p)>>, <<T("b", "Zstd", z)>>,
   <<T("a", "None", p), T("a", "Zstd", q)>>, <<T("b", "Zstd", p), T("a", "None", q)>>}
NoContainers == {}

Writes(finalize, fail) == [finalize |-> finalize, fail |-> fail]
WriteAnew == Writes(1, 1)
WriteOnce == Writes(1, 0)
=============================================================================
