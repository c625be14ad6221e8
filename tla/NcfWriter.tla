----------------------------- MODULE NcfWriter -----------------------------
(***************************************************************************)
(* NcfWriter of ncf-io and the file it writes.  finalize computes the whole*)
(* container and then creates the file, which empties whatever was at the  *)
(* path, and writes block after block; a write may fail, and the process   *)
(* may die, leaving what has been written so far.  Readers share the file: *)
(* they see each of these steps.                                           *)
(*                                                                         *)
(* What the path holds at first may come from another producer of the      *)
(* format: a container whose offsets are exact.                            *)
(***************************************************************************)
EXTENDS NcfFormat

CONSTANTS
  Found,        \* tensor lists of the containers that may be at the path at first
  Offered,      \* tensors that may be added
  MaxTensors,   \* how many are
  WriteBudget   \* how often the file is written, and how often a write fails

ASSUME FoundAssumption == Found \subseteq Seq(Tensor) /\ Offered \subseteq Tensor
\* The other producer gets the offsets right.
ASSUME ExactAssumption ==
  \A found \in Found :
    ExactBase(found) = SchemaOffset + SchemaBlockLen(Chunk_refs(found, ExactBase(found)))
ASSUME WriteAssumption == MaxTensors \in Nat /\ WriteBudget \in [{"finalize", "fail"} -> Nat]

VARIABLES
  tensors,   \* NcfWriter.tensors
  file,      \* what is at the path
  unwritten, \* the blocks that finalize has still to write
  wpc,       \* "idle" or "writing"
  \* history
  source,    \* the tensors of the container that is at the path, or partly so
  complete,  \* all of it is
  version,   \* how often the path has been created anew
  wbudget    \* what is left of WriteBudget

writerVars == <<tensors, file, unwritten, wpc, source, complete, version, wbudget>>

Spend(kind) == wbudget[kind] > 0 /\ wbudget' = [wbudget EXCEPT ![kind] = @ - 1]

WriterInit ==
  /\ tensors = <<>> /\ unwritten = <<>> /\ wpc = "idle"
  /\ \/ source = <<>> /\ complete = FALSE /\ file = <<>>
     \/ source \in Found /\ complete = TRUE /\ file = Container(source, ExactBase(source))
  /\ version = 0 /\ wbudget = WriteBudget

\* NcfWriter::new: the next save, or the process that takes over from a dead one,
\* starts with no tensors.
New_writer ==
  /\ wpc = "idle" /\ wbudget["finalize"] > 0
  /\ tensors' = <<>>
  /\ UNCHANGED <<file, unwritten, wpc, source, complete, version, wbudget>>

Add_tensor ==
  /\ wpc = "idle" /\ wbudget["finalize"] > 0
  /\ Len(tensors) < MaxTensors
  /\ \E t \in Offered : tensors' = Append(tensors, t)
  /\ UNCHANGED <<file, unwritten, wpc, source, complete, version, wbudget>>

Finalize ==
  /\ wpc = "idle"
  /\ Spend("finalize")
  /\ file' = <<>> /\ source' = tensors /\ complete' = FALSE /\ version' = version + 1
  /\ unwritten' = Container(tensors, EstimatedBase(tensors))
  /\ wpc' = "writing"
  /\ UNCHANGED tensors

Write_block ==
  /\ wpc = "writing"
  /\ file' = Append(file, Head(unwritten))
  /\ unwritten' = Tail(unwritten)
  /\ IF Len(unwritten) = 1 THEN wpc' = "idle" /\ complete' = TRUE
                           ELSE UNCHANGED <<wpc, complete>>
  /\ UNCHANGED <<tensors, source, version, wbudget>>

\* finalize returns an error, or the process dies.
Write_fails ==
  /\ wpc = "writing"
  /\ Spend("fail")
  /\ \/ UNCHANGED file
     \/ file' = Append(file, Torn(Head(unwritten)))
  /\ unwritten' = <<>> /\ wpc' = "idle"
  /\ UNCHANGED <<tensors, source, complete, version>>

Writer == New_writer \/ Add_tensor \/ Finalize \/ Write_block \/ Write_fails
=============================================================================
