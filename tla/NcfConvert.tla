----------------------------- MODULE NcfConvert -----------------------------
(***************************************************************************)
(* What ncf-convert, "ncf create" and create_ncf make of an input file, and*)
(* what load_tensor_numpy makes of a tensor.                               *)
(*                                                                         *)
(* An input is what the parser of another crate returns for it: a kind, a  *)
(* name, the tensors it lists and the number of bytes in the file.  Of a   *)
(* tensor it gives the name, the type, the number of elements, the bytes   *)
(* they take (size; the code does not know it) and an offset, which the    *)
(* code takes for a position in the file.                                  *)
(***************************************************************************)
EXTENDS NcfFormat

CONSTANT Inputs   \* the files that may be converted

GGMLTypes == {"F32", "F16", "Q4_0", "Q4_1", "Q5_0", "Q5_1", "Q8_0", "Q8_1", "Q2K", "Q3K", "Q4K",
              "Q5K", "Q6K", "Q8K", "I8", "I16", "I32", "other"}
SafeTypes == {"F64", "F32", "F16", "BF16", "I64", "I32", "I16", "I8", "U8", "BOOL", "other"}

ListedTensor == [name : Names, type : GGMLTypes \cup SafeTypes, elems : Nat, size : Nat, offset : Nat]

ASSUME InputsAssumption ==
  \A input \in Inputs :
    /\ DOMAIN input = {"kind", "name", "tensors", "len"}
    /\ input.kind \in {"gguf", "safetensors", "file"}
    /\ input.tensors \in Seq(ListedTensor) /\ input.len \in Nat

\* The bytes from one offset of the input to another, as a payload.
Slice(input, from, to) ==
  [id |-> <<input.name, from, to>>, len |-> to - from, packed |-> 1, wide |-> 29]

Made(t, dtype, payload) ==
  [name |-> t.name, dtype |-> dtype, elems |-> t.elems, compression |-> "None",
   payload |-> payload]

(***************************************************************************)
(* gguf_to_ncf.                                                            *)
(***************************************************************************)
Gguf_type_to_dtype(type) ==
  CASE type \in {"F32", "F16", "I8", "I16", "I32", "Q4_0", "Q8_0", "Q4K"} -> type
    [] type = "Q4_1" -> "Q4_0"
    [] type = "Q2K" -> "Q4K"
    [] type = "Q8K" -> "Q8_0"
    [] OTHER -> "Custom"

\* elem_size_opt: the dtypes whose elements have a size of their own.
Elem_size == [F64 |-> 8, F32 |-> 4, F16 |-> 2, BF16 |-> 2, I32 |-> 4, I16 |-> 2, I8 |-> 1, U8 |-> 1]

\* What the parsers say of such a tensor, and what a plain file is read as.
ASSUME SizesAssumption ==
  \A input \in Inputs : \A i \in DOMAIN input.tensors :
    LET t == input.tensors[i]
    IN  /\ t.type \in DOMAIN Elem_size => t.size = t.elems * Elem_size[t.type]
        /\ input.kind = "file" =>
             i = 1 /\ t.type = "U8" /\ t.offset = 0 /\ t.size = input.len

\* Fault: a payload may be longer than its elements.
SizeFits_AtLeast(dtype, elems, len) ==
  dtype \in DOMAIN Elem_size => len >= elems * Elem_size[dtype]

SizeFits(dtype, elems, len) ==
  dtype \in DOMAIN Elem_size => len = elems * Elem_size[dtype]

\* The offsets that are sorted and searched: those of the tensors and the end of the
\* file.  Of equal ones the search may find any, so the next may be an equal one.
Later(input, i) ==
  {o \in {input.tensors[j].offset : j \in DOMAIN input.tensors} \cup {input.len} :
     o > input.tensors[i].offset}

Repeated(input, i) ==
  \/ input.len = input.tensors[i].offset
  \/ \E j \in DOMAIN input.tensors \ {i} : input.tensors[j].offset = input.tensors[i].offset

Next_offset(input, i) ==
  {input.tensors[i].offset : j \in {j \in {i} : Repeated(input, j)}}
  \cup {Min(Later(input, j)) : j \in {j \in {i} : Later(input, j) # {}}}

\* A slice that ends before it begins, or behind the input, panics.
Usable(input, i, next_offset) ==
  LET t == input.tensors[i]
  IN  /\ next_offset \in t.offset .. input.len
      /\ SizeFits(Gguf_type_to_dtype(t.type), t.elems, next_offset - t.offset)

Gguf_tensor(input, i) ==
  LET t == input.tensors[i]
  IN  {Made(t, Gguf_type_to_dtype(t.type), Slice(input, t.offset, o)) :
         o \in {o \in Next_offset(input, i) : Usable(input, i, o)}}

Gguf_refuses(input, i) ==
  \/ Later(input, i) = {}
  \/ \E o \in Next_offset(input, i) : ~Usable(input, i, o)

(***************************************************************************)
(* safetensors_to_ncf: the crate has checked where each tensor lies.       *)
(***************************************************************************)
Safe_dtype(type) ==
  IF type \in {"F32", "F16", "BF16", "I32", "I16", "I8", "U8"} THEN type ELSE "Custom"

Safe_tensor(input, i) ==
  LET t == input.tensors[i]
  IN  {Made(t, Safe_dtype(t.type), Slice(input, t.offset, t.offset + t.size))}

(***************************************************************************)
(* create: the bytes of the file are the one tensor.                       *)
(***************************************************************************)
Create_tensor(input) == {Made(input.tensors[1], "U8", Slice(input, 0, input.len))}

(***************************************************************************)
(* The loop over the tensors of an input: what the i-th may become, and    *)
(* whether it may be refused.                                              *)
(***************************************************************************)
Converted(input, i) ==
  CASE input.kind = "gguf" -> Gguf_tensor(input, i)
    [] input.kind = "safetensors" -> Safe_tensor(input, i)
    [] OTHER -> Create_tensor(input)

Refused(input, i) == input.kind = "gguf" /\ Gguf_refuses(input, i)

(***************************************************************************)
(* tensor_data_to_numpy: the number of elements of the array, or nothing   *)
(* when they do not fill the shape.                                        *)
(***************************************************************************)
\* Fault: short integers are split four bytes at a time.
Tensor_data_to_numpy_Words(schema, len) ==
  LET count == IF schema.dtype \in {"I16", "I32", "F32"} THEN len \div 4
               ELSE IF schema.dtype = "F64" THEN len \div 8 ELSE len
  IN  {n \in {count} : n = schema.elems}

Tensor_data_to_numpy(schema, len) ==
  LET count == IF schema.dtype \in {"I16", "I32", "F32", "F64"}
               THEN len \div Elem_size[schema.dtype] ELSE len
  IN  {n \in {count} : n = schema.elems}
=============================================================================
