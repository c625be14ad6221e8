----------------------------- MODULE MCNcfTools -----------------------------
(***************************************************************************)
(* Values for model-checking NcfTools: containers of another producer at   *)
(* the path and inputs that convert to containers of the same layout, so   *)
(* that the chunks of the one lie where those of the other did.            *)
(***************************************************************************)
EXTENDS NcfTools

Listed(name, type, elems, size, offset) ==
  [name |-> name, type |-> type, elems |-> elems, size |-> size, offset |-> offset]
Input(kind, name, len, tensorList) ==
  [kind |-> kind, name |-> name, len |-> len, tensors |-> tensorList]

\* The offsets are aligned to 32 bytes, as they are in GGUF files.
Fit    == Input("gguf", "fit", 50, <<Listed("a", "F32", 8, 32, 0), Listed("b", "Q4_0", 32, 18, 32)>>)
Swapped == Input("gguf", "swapped", 50, <<Listed("b", "Q4_1", 32, 18, 32), Listed("a", "I8", 32, 32, 0)>>)
Padded == Input("gguf", "padded", 64, <<Listed("a", "F16", 9, 18, 0), Listed("b", "I32", 8, 32, 32)>>)
Packed_padded == Input("gguf", "packed", 64, <<Listed("a", "Q2K", 32, 18, 0), Listed("b", "I16", 16, 32, 32)>>)
Cut    == Input("gguf", "cut", 40, <<Listed("a", "F16", 16, 32, 0), Listed("b", "I8", 18, 18, 32)>>)
Cut_packed == Input("gguf", "cut packed", 40, <<Listed("a", "F32", 8, 32, 0), Listed("b", "Q8K", 18, 18, 32)>>)
Empty_first == Input("gguf", "empty first", 18, <<Listed("a", "Q5_0", 0, 0, 0), Listed("b", "Q4_0", 32, 18, 0)>>)
Safe   == Input("safetensors", "safe", 50, <<Listed("a", "F64", 4, 32, 0), Listed("b", "BF16", 9, 18, 32)>>)
Plain  == Input("file", "plain", 32, <<Listed("a", "U8", 32, 32, 0)>>)

AllInputs == {Fit, Swapped, Padded, Packed_padded, Cut, Cut_packed, Empty_first, Safe, Plain}

Payload(id, len, packed) == [id |-> <<id, 0, len>>, len |-> len, packed |-> packed, wide |-> 29]
T(name, dtype, elems, compression, payload) ==
  [name |-> name, dtype |-> dtype, elems |-> elems, compression |-> compression, payload |-> payload]

FoundContainers ==
  {<<T("a", "I16", 16, "None", Payload("p", 32, 20)), T("b", "Q4_0", 32, "None", Payload("q", 18, 18))>>,
   <<T("a", "F16", 16, "None", Payload("p", 32, 20)), T("a", "U8", 18, "Zstd", Payload("r", 18, 12))>>,
   <<T("a", "F32", 8, "Zstd", Payload("z", 32, 32)), T("b", "Q4_0", 32, "None", Payload("q", 18, 18))>>}

AllPayloads ==
  {t.payload : t \in UNION {{ts[i] : i \in DOMAIN ts} : ts \in FoundContainers}}
  \cup {t.payload : t \in UNION {UNION {Converted(input, i) : i \in DOMAIN input.tensors} :
                                     input \in AllInputs}}

Writes(finalize, fail) == [finalize |-> finalize, fail |-> fail]
WriteTwice == Writes(2, 1)
=============================================================================
