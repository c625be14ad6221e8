--------------------------- MODULE NcfPublication ---------------------------
(***************************************************************************)
(* What finalize promises to whoever opens the file: they see the whole of *)
(* one list of tensors or no container at all.  A container goes before    *)
(* the next one comes; it is never seen to change into it.                 *)
(***************************************************************************)
EXTENDS Naturals, Sequences

VARIABLES
  added,  \* the tensors added so far, as a schema describes them
  shown   \* what opening the file shows: no list, or one

Init == added = <<>> /\ \A one, other \in shown : one = other

Renew == added' = <<>> /\ UNCHANGED shown

Add ==
  /\ Len(added') = Len(added) + 1 /\ SubSeq(added', 1, Len(added)) = added
  /\ UNCHANGED shown

Vanish == shown' = {} /\ UNCHANGED added

Publish == shown = {} /\ shown' = {added} /\ UNCHANGED added

Spec == Init /\ [][Renew \/ Add \/ Vanish \/ Publish]_<<added, shown>>
=============================================================================
