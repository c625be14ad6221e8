-------------------------- MODULE MCKvCacheReaders --------------------------
(***************************************************************************)
(* Budgets for model-checking KvCacheReaders.                              *)
(***************************************************************************)
EXTENDS KvCacheReaders

Allow(frame, truncate, reopen, crash, commit_crash, fail) ==
  [frame |-> frame, flush |-> 0, truncate |-> truncate, reopen |-> reopen,
   crash |-> crash, commit_crash |-> commit_crash, fail |-> fail]

RushedBudget  == Allow(7, 0, 0, 1, 1, 1)
PartialBlocks == Allow(4, 1, 2, 1, 0, 0)
=============================================================================
