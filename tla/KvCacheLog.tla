----------------------------- MODULE KvCacheLog -----------------------------
(***************************************************************************)
(* What ncf-kvcache promises a caller that lets each flush finish before   *)
(* it causes the next: a log of accepted frames, of which a prefix is      *)
(* durable, that is, readable by anyone who opens the file now.            *)
(***************************************************************************)
EXTENDS Naturals, SequencesExt

CONSTANT Frame

VARIABLES log, durable

logVars == <<log, durable>>

Init == log = <<>> /\ durable = <<>>

Accept == /\ \E f \in Frame : log' = Append(log, f)
          /\ UNCHANGED durable

\* A flush that ends publishes more of the log, in order and without holes.
Publish == /\ UNCHANGED log
           /\ durable' # durable
           /\ IsPrefix(durable, durable') /\ IsPrefix(durable', log)

\* Frames that are not durable yet can be taken back from the end; a crash
\* loses all of them.
TakeBack == /\ IsPrefix(log', log) /\ IsPrefix(durable, log')
            /\ UNCHANGED durable

Next == Accept \/ Publish \/ TakeBack

Spec == Init /\ [][Next]_logVars
=============================================================================
