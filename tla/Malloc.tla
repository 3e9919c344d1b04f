------------------------------- MODULE Malloc -------------------------------
(***************************************************************************)
(* MALLOC/malloc.c: one memory pool cut into 32-byte blocks, described by  *)
(* the table memmap (0 for a free block, the length of the allocation for  *)
(* every block of an allocation).                                          *)
(*                                                                         *)
(* The code has no lock and is called from two places that interleave: the *)
(* main loop (udp_demo_test, udp_demo_senddata, low_level_output) and the  *)
(* EXTI1 handler (low_level_input, low_level_output).  The handler runs to *)
(* its end before the main loop goes on, and may arrive between any two    *)
(* accesses of the main loop to memmap.  A step here is one access.        *)
(*                                                                         *)
(* memrdy = FALSE only before the pool's first use; the handler does not   *)
(* exist yet then: main calls my_mem_init before it enables EXTI1.         *)
(***************************************************************************)
EXTENDS Integers

CONSTANTS
  NBlocks,   \* MEMx_ALLOC_TABLE_SIZE
  Sizes      \* the sizes in bytes that the callers ask for

BlockSize == 32

BlocksFor(size) ==
  IF size % BlockSize = 0 THEN size \div BlockSize ELSE (size \div BlockSize) + 1

CountBound == 65536     \* nmemb is a u16

(* No caller asks for more blocks than nmemb can count (the largest request  *)
(* is memp_memory, some 22 KB); a size of 0 is refused before anything       *)
(* happens.                                                                  *)
ASSUME MallocAssumption ==
  /\ NBlocks \in Nat \ {0}
  /\ Sizes \subseteq Nat \ {0}
  /\ \A s \in Sizes : BlocksFor(s) < CountBound

Ctx == {"main", "isr"}

VARIABLES
  memrdy,    \* mallco_dev.memrdy[memx]
  memmap,    \* mallco_dev.memmap[memx]
  isrOn,     \* the EXTI1 handler is running on top of the main loop
  pc,        \* where each context is inside malloc.c
  offset,    \* the search position, then the first block of the run
  cmemb,     \* free blocks seen in a row
  nmemb,     \* blocks asked for, or being freed
  i,         \* blocks of the run marked or cleared so far
  old,       \* myrealloc: the allocation to give back, or NoBlock
  held       \* ghost: allocations returned and not yet given back

vars == <<memrdy, memmap, isrOn, pc, offset, cmemb, nmemb, i, old, held>>
-----------------------------------------------------------------------------
Blocks == 0 .. NBlocks - 1

Counts == {BlocksFor(s) : s \in Sizes}

Alloc == [ctx : Ctx, base : Blocks, n : Counts]

NoBlock == [ctx |-> "none"]

Run(b, n) == b .. b + n - 1

Span(h) == Run(h.base, h.n)

Apart(g, h) == Span(g) \cap Span(h) = {}

(* The EXTI1 handler preempts the main loop and is preempted by nothing that *)
(* allocates.                                                                *)
Runs(c) == IF isrOn THEN c = "isr" ELSE c = "main"

Init ==
  /\ memrdy = FALSE
  /\ memmap \in [Blocks -> {0, 1}]     \* the map of SRAMEX is never zeroed at reset
  /\ isrOn = FALSE
  /\ pc = [c \in Ctx |-> "idle"]
  /\ offset = [c \in Ctx |-> 0]
  /\ cmemb = [c \in Ctx |-> 0]
  /\ nmemb = [c \in Ctx |-> 0]
  /\ i = [c \in Ctx |-> 0]
  /\ old = [c \in Ctx |-> NoBlock]
  /\ held = {}

-----------------------------------------------------------------------------
ZeroMap == [b \in Blocks |-> 0]

(* my_mem_init, called by main before anything else uses the pool. *)
MemInit ==
  /\ ~memrdy
  /\ memrdy' = TRUE
  /\ memmap' = ZeroMap
  /\ UNCHANGED <<isrOn, pc, offset, cmemb, nmemb, i, old, held>>

(* The call returns: its locals are gone. *)
Return(c) ==
  /\ pc' = [pc EXCEPT ![c] = "idle"]
  /\ offset' = [offset EXCEPT ![c] = 0]
  /\ cmemb' = [cmemb EXCEPT ![c] = 0]
  /\ nmemb' = [nmemb EXCEPT ![c] = 0]
  /\ i' = [i EXCEPT ![c] = 0]
  /\ old' = [old EXCEPT ![c] = NoBlock]

(* Mutant: the search starts one block below the top. *)
StartSearchLow(c, size, giveBack) ==
  /\ Runs(c) /\ pc[c] = "idle"
  /\ memrdy' = TRUE
  /\ memmap' = IF memrdy THEN memmap ELSE ZeroMap
  /\ pc' = [pc EXCEPT ![c] = "scan"]
  /\ offset' = [offset EXCEPT ![c] = NBlocks - 2]
  /\ nmemb' = [nmemb EXCEPT ![c] = BlocksFor(size)]
  /\ old' = [old EXCEPT ![c] = giveBack]
  /\ UNCHANGED <<isrOn, cmemb, i, held>>

(* my_mem_malloc up to its loop: the pool is made ready if it is not, and    *)
(* the search starts at the last block.  A size of 0 is refused (line 88)    *)
(* and changes nothing.                                                      *)
StartSearch(c, size, giveBack) ==
  /\ Runs(c) /\ pc[c] = "idle"
  /\ memrdy' = TRUE
  /\ memmap' = IF memrdy THEN memmap ELSE ZeroMap
  /\ pc' = [pc EXCEPT ![c] = "scan"]
  /\ offset' = [offset EXCEPT ![c] = NBlocks - 1]
  /\ nmemb' = [nmemb EXCEPT ![c] = BlocksFor(size)]
  /\ old' = [old EXCEPT ![c] = giveBack]
  /\ UNCHANGED <<isrOn, cmemb, i, held>>

Malloc(c, size) == StartSearch(c, size, NoBlock)

Realloc(c, size, h) == h.ctx = c /\ StartSearch(c, size, h)

(* Mutant: a block in use does not restart the count of free ones. *)
SeenInPieces(c) == IF memmap[offset[c]] = 0 THEN cmemb[c] + 1 ELSE cmemb[c]

(* One turn of the search loop (lines 92-105) counts the block looked at ... *)
Seen(c) == IF memmap[offset[c]] = 0 THEN cmemb[c] + 1 ELSE 0

Searching(c) == Runs(c) /\ pc[c] = "scan"

(* ... and has found a run, ... *)
RunFound(c) ==
  /\ Searching(c)
  /\ Seen(c) = nmemb[c]
  /\ pc' = [pc EXCEPT ![c] = "mark"]
  /\ cmemb' = [cmemb EXCEPT ![c] = Seen(c)]
  /\ UNCHANGED <<memrdy, memmap, isrOn, offset, nmemb, i, old, held>>

(* Mutant: the loop does not stop at the first block. *)
SearchOnPastStart(c) ==
  /\ Searching(c)
  /\ Seen(c) # nmemb[c]
  /\ offset' = [offset EXCEPT ![c] = offset[c] - 1]
  /\ cmemb' = [cmemb EXCEPT ![c] = Seen(c)]
  /\ UNCHANGED <<memrdy, memmap, isrOn, pc, nmemb, i, old, held>>

(* ... goes on to the block before, ... *)
SearchOn(c) ==
  /\ Searching(c)
  /\ Seen(c) # nmemb[c] /\ offset[c] > 0
  /\ offset' = [offset EXCEPT ![c] = offset[c] - 1]
  /\ cmemb' = [cmemb EXCEPT ![c] = Seen(c)]
  /\ UNCHANGED <<memrdy, memmap, isrOn, pc, nmemb, i, old, held>>

(* ... or has reached the first block in vain and returns 0XFFFFFFFF. *)
NoRoom(c) ==
  /\ Searching(c)
  /\ Seen(c) # nmemb[c] /\ offset[c] = 0
  /\ Return(c)
  /\ UNCHANGED <<memrdy, memmap, isrOn, held>>

(* One turn of the marking loop (lines 98-102).  After the last one the      *)
(* address is returned, to the caller or to myrealloc, which copies.         *)
MarkBlock(c) ==
  /\ Runs(c) /\ pc[c] = "mark"
  /\ memmap' = [memmap EXCEPT ![offset[c] + i[c]] = nmemb[c]]
  /\ UNCHANGED <<memrdy, isrOn>>

MarkOn(c) ==
  /\ MarkBlock(c)
  /\ i[c] + 1 < nmemb[c]
  /\ i' = [i EXCEPT ![c] = i[c] + 1]
  /\ UNCHANGED <<pc, offset, cmemb, nmemb, old, held>>

NewAlloc(c) == [ctx |-> c, base |-> offset[c], n |-> nmemb[c]]

HandOut(c) ==
  /\ MarkBlock(c)
  /\ i[c] + 1 >= nmemb[c]
  /\ held' = held \cup {NewAlloc(c)}
  /\ IF old[c] = NoBlock
       THEN Return(c)
       ELSE /\ pc' = [pc EXCEPT ![c] = "copied"]
            /\ UNCHANGED <<offset, cmemb, nmemb, i, old>>

(* my_mem_free up to its loop: the number of blocks comes from the map. *)
StartFree(c, h) ==
  /\ Runs(c)
  /\ pc' = [pc EXCEPT ![c] = "clear"]
  /\ offset' = [offset EXCEPT ![c] = h.base]
  /\ nmemb' = [nmemb EXCEPT ![c] = memmap[h.base]]
  /\ i' = [i EXCEPT ![c] = 0]
  /\ old' = [old EXCEPT ![c] = NoBlock]
  /\ held' = held \ {h}
  /\ UNCHANGED <<memrdy, memmap, isrOn, cmemb>>

Free(c, h) == pc[c] = "idle" /\ h.ctx = c /\ StartFree(c, h)

(* myrealloc has its new run and has copied into it: it frees the old one. *)
FreeOld(c) == pc[c] = "copied" /\ StartFree(c, old[c])

(* One turn of the clearing loop (lines 123-127). *)
ClearBlock(c) ==
  /\ Runs(c) /\ pc[c] = "clear"
  /\ memmap' = [memmap EXCEPT ![offset[c] + i[c]] = 0]
  /\ UNCHANGED <<memrdy, isrOn, held>>

ClearOn(c) ==
  /\ ClearBlock(c)
  /\ i[c] + 1 < nmemb[c]
  /\ i' = [i EXCEPT ![c] = i[c] + 1]
  /\ UNCHANGED <<pc, offset, cmemb, nmemb, old>>

(* Mutant: the last block of the run is not cleared. *)
ClearLastEarly(c) ==
  /\ ClearBlock(c)
  /\ i[c] + 2 >= nmemb[c]
  /\ Return(c)

ClearLast(c) ==
  /\ ClearBlock(c)
  /\ i[c] + 1 >= nmemb[c]
  /\ Return(c)

-----------------------------------------------------------------------------
(* EXTI1 arrives: possible between any two steps of the main loop. *)
IsrEnter ==
  /\ memrdy /\ ~isrOn
  /\ isrOn' = TRUE
  /\ UNCHANGED <<memrdy, memmap, pc, offset, cmemb, nmemb, i, old, held>>

(* EXTI1 returns: low_level_input and low_level_output have freed the buffer *)
(* they allocated on every path.                                             *)
IsrReturn ==
  /\ isrOn /\ pc["isr"] = "idle"
  /\ \A h \in held : h.ctx # "isr"
  /\ isrOn' = FALSE
  /\ UNCHANGED <<memrdy, memmap, pc, offset, cmemb, nmemb, i, old, held>>

Step(c) ==
  \/ \E size \in Sizes : Malloc(c, size)
  \/ \E size \in Sizes, h \in held : Realloc(c, size, h)
  \/ \E h \in held : Free(c, h)
  \/ RunFound(c) \/ SearchOn(c) \/ NoRoom(c)
  \/ MarkOn(c) \/ HandOut(c)
  \/ FreeOld(c)
  \/ ClearOn(c) \/ ClearLast(c)

Next == MemInit \/ IsrEnter \/ IsrReturn \/ \E c \in Ctx : Step(c)

Spec == Init /\ [][Next]_vars

-----------------------------------------------------------------------------
TypeOK ==
  /\ memrdy \in BOOLEAN /\ isrOn \in BOOLEAN
  /\ memmap \in [Blocks -> Nat]
  /\ pc \in [Ctx -> {"idle", "scan", "mark", "copied", "clear"}]
  /\ offset \in [Ctx -> Blocks]
  /\ cmemb \in [Ctx -> Nat] /\ nmemb \in [Ctx -> Nat] /\ i \in [Ctx -> Nat]
  /\ old \in [Ctx -> Alloc \cup {NoBlock}]
  /\ held \subseteq Alloc

(* The part of the map that context c has marked and not handed out yet, or  *)
(* has been given back and not cleared yet.                                  *)
InHand(c) ==
  {b \in Blocks : \/ pc[c] = "mark"  /\ b \in Run(offset[c], i[c])
                  \/ pc[c] = "clear" /\ b \in Run(offset[c] + i[c], nmemb[c] - i[c])}

(* The blocks context c has found free and is about to take. *)
Found(c) ==
  {b \in Blocks : \/ pc[c] = "scan" /\ b \in Run(offset[c] + 1, cmemb[c])
                  \/ pc[c] = "mark" /\ b \in Run(offset[c] + i[c], nmemb[c] - i[c])}

HeldBy(c) == {b \in Blocks : \E h \in held : h.ctx = c /\ b \in Span(h)}

Owned(c) == HeldBy(c) \cup InHand(c)

(* No two live allocations share a block, although the handler may search,   *)
(* mark and clear between any two accesses of the main loop's own search,    *)
(* marking or clearing, and may even take blocks the main loop has already   *)
(* counted as free.                                                          *)
NoOverlap == \A g, h \in held : g # h => Apart(g, h)

(* Freeing reads the length of an allocation back from the map: every block  *)
(* of a live allocation still says that length.                              *)
LengthKept == \A h \in held : \A b \in Span(h) : memmap[b] = h.n

(* Nothing is lost: a block is marked exactly when it belongs to a live      *)
(* allocation or to a marking or clearing under way.                         *)
Accounted == memrdy =>
  {b \in Blocks : memmap[b] # 0} = Owned("main") \cup Owned("isr")

(* mymalloc returns NULL only when there really is no run of free blocks     *)
(* long enough, whatever came and went during the search.                    *)
FailsOnlyWhenFull ==
  [][\A c \in Ctx : pc[c] = "scan" /\ pc'[c] = "idle" =>
       ~\E b \in Blocks : /\ Run(b, nmemb[c]) \subseteq Blocks
                          /\ \A x \in Run(b, nmemb[c]) : memmap[x] = 0]_vars

(* The interrupted, block-by-block allocator implements the atomic pool. *)
P == INSTANCE Pool WITH
       NBlocks <- NBlocks, Counts <- Counts, Ctx <- Ctx, held <- held
AtomicPool == P!Spec
-----------------------------------------------------------------------------
(* Where a context is, and what its locals then say. *)
LocalInv(c) ==
  /\ pc[c] = "scan" => nmemb[c] \in Counts /\ cmemb[c] < nmemb[c]
                       /\ offset[c] + cmemb[c] < NBlocks
  /\ pc[c] \in {"mark", "clear"} => nmemb[c] \in Counts /\ i[c] < nmemb[c]
                       /\ offset[c] + nmemb[c] <= NBlocks
  /\ pc[c] = "copied" => old[c] # NoBlock
  /\ old[c] # NoBlock => old[c] \in held /\ old[c].ctx = c
  /\ pc[c] \in {"idle", "scan"} => i[c] = 0
  /\ pc[c] = "idle" => cmemb[c] = 0
  /\ pc[c] \in {"idle", "clear"} => old[c] = NoBlock

(* The inductive invariant.  The main loop's found blocks are not marked by  *)
(* the main loop; the handler may hold them for a while.  The handler's are  *)
(* marked by nobody, because the main loop stands still under it.            *)
ContextInv(c) ==
  /\ LocalInv(c)
  /\ InHand(c) \cap (HeldBy("main") \cup HeldBy("isr")) = {}
  /\ Found(c) \cap Owned(c) = {}
  /\ \A b \in InHand(c) : memmap[b] = nmemb[c]

IInv ==
  /\ TypeOK
  /\ NoOverlap /\ LengthKept /\ Accounted
  /\ \A h \in held : Span(h) \subseteq Blocks
  /\ \A c \in Ctx : ContextInv(c)
  /\ InHand("main") \cap InHand("isr") = {}
  /\ Found("isr") \cap Owned("main") = {}
  /\ ~isrOn => pc["isr"] = "idle" /\ HeldBy("isr") = {}
  /\ ~memrdy => held = {} /\ pc = [c \in Ctx |-> "idle"]

(* The blocks that are free for context c once everything above it is back.  *)
(* What the handler holds is nothing to the main loop: it gives all of it    *)
(* back before the main loop looks at the map again.                         *)
Vacant(c) == Blocks \ (Owned("main") \cup IF c = "isr" THEN Owned("isr") ELSE {})

(* What a search has passed: no run that would do begins above the blocks    *)
(* counted now, and the block above these is in use or past the map's end.   *)
Passed(c) ==
  pc[c] = "scan" =>
    /\ offset[c] + cmemb[c] + 1 \notin Vacant(c)
    /\ \A b \in Blocks : b > offset[c] + cmemb[c] => ~(Run(b, nmemb[c]) \subseteq Vacant(c))

SearchInv == \A c \in Ctx : Passed(c)
=============================================================================
