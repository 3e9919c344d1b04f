-------------------------------- MODULE Pool --------------------------------
(***************************************************************************)
(* What MALLOC/malloc.c promises its callers: mymalloc hands out a run of  *)
(* adjacent blocks that nobody else holds, myfree takes one back.  Nothing *)
(* is said about where the run lies or how it is found; Malloc.tla is the  *)
(* block-by-block search that implements this.                             *)
(***************************************************************************)
EXTENDS Integers

CONSTANTS
  NBlocks,   \* MEMx_ALLOC_TABLE_SIZE: the number of blocks of the pool
  Counts,    \* the block counts callers ask for
  Ctx        \* who calls: the main loop and the interrupt handler

VARIABLE held   \* the allocations returned by mymalloc and not yet freed

Blocks == 0 .. NBlocks - 1

Alloc == [ctx : Ctx, base : Blocks, n : Counts]

Span(h) == h.base .. h.base + h.n - 1

Apart(g, h) == Span(g) \cap Span(h) = {}

Init == held = {}

Take(h) ==
  /\ Span(h) \subseteq Blocks
  /\ \A g \in held : Apart(g, h)
  /\ held' = held \cup {h}

Give(h) == held' = held \ {h}

Next == \/ \E h \in Alloc : Take(h)
        \/ \E h \in held  : Give(h)

Spec == Init /\ [][Next]_held
=============================================================================
