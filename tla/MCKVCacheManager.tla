-------------------------- MODULE MCKVCacheManager --------------------------
(***************************************************************************)
(* KVCacheManager over a handful of blocks and two requests.               *)
(***************************************************************************)
EXTENDS KVCacheManager, TLC

CONSTANTS a, b    \* the tokens

\* Prompts that share their first block, and one that shares nothing.
ShortPrompts == {<<a, a>>, <<a, b>>, <<b, a, a>>}

\* Prompts whose KV cache a connector may have.
LoadPrompts == {<<a, a, a>>, <<a, a>>}

OneBlock  == {{blk} : blk \in Block}
NoReports == {}

Symmetric == Permutations(Block) \cup Permutations(Request)
=============================================================================
