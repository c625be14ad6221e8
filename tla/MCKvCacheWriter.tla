-------------------------- MODULE MCKvCacheWriter --------------------------
(***************************************************************************)
(* Budgets for model-checking KvCacheWriter: how many frames are offered   *)
(* and how often each other thing may happen.                              *)
(***************************************************************************)
EXTENDS KvCacheWriter

Allow(frame, flush, truncate, reopen, crash, commit_crash, fail) ==
  [frame |-> frame, flush |-> flush, truncate |-> truncate, reopen |-> reopen,
   crash |-> crash, commit_crash |-> commit_crash, fail |-> fail]

\* Runs that pass.
PacedBudget == Allow(5, 0, 1, 2, 1, 0, 1)
FreeBudget  == Allow(4, 1, 1, 1, 1, 1, 1)

\* Runs that find a violation: just enough for the case.
FramesOnly      == Allow(4, 0, 0, 0, 0, 0, 0)
FlushThenAppend == Allow(3, 1, 0, 0, 0, 0, 0)
OneTruncate     == Allow(4, 0, 1, 0, 0, 0, 0)
CommitCrash     == Allow(2, 0, 0, 0, 0, 1, 0)
=============================================================================
