---------------------------- MODULE MallocProofs ----------------------------
(***************************************************************************)
(* malloc.c keeps its promises for every number of blocks and every set of *)
(* request sizes, with the EXTI1 handler coming at any access to the map.  *)
(* The argument: IInv says, block by block, whose each block is (a live    *)
(* allocation's, or one context's that is marking or clearing it), what    *)
(* the map says of it, and what each context's locals then mean.  A step   *)
(* of one context changes what that context owns and nothing else; what    *)
(* the main loop had counted as free is free again when the handler        *)
(* returns, because the handler gives back all it took.                    *)
(***************************************************************************)
EXTENDS Malloc, TLAPS

(* Every request that mymalloc searches for is at least one block.          *)
LEMMA CountsNat == Counts \subseteq Nat \ {0}
<1>1. ASSUME NEW s \in Sizes PROVE BlocksFor(s) \in Nat \ {0}
  <2>1. s \in Nat /\ s > 0
    BY MallocAssumption DEF BlockSize
  <2> QED
    BY <2>1 DEF BlocksFor, BlockSize
<1> QED
  BY <1>1 DEF Counts

(* ---- facts the invariant gives --------------------------------------- *)

(* A context is inside malloc.c only when the pool is ready.                *)
LEMMA BusyPool == ASSUME IInv, NEW c \in Ctx, pc[c] # "idle" PROVE memrdy
BY DEF IInv

(* In a ready pool the map shows a block free exactly when nobody owns it.  *)
LEMMA FreeBlock ==
  ASSUME IInv, memrdy, NEW b \in Blocks
  PROVE  memmap[b] = 0 <=> b \notin Owned("main") /\ b \notin Owned("isr")
BY DEF IInv, Accounted

(* The blocks the running context has counted as free are free and          *)
(* nobody's, although they were counted before an interrupt that came and   *)
(* went.                                                                    *)
LEMMA FoundFree ==
  ASSUME IInv, NEW c \in Ctx, Runs(c), NEW b \in Found(c)
  PROVE  memmap[b] = 0 /\ b \notin Owned("main") /\ b \notin Owned("isr")
<1>1. b \notin Owned(c)
  BY DEF IInv, ContextInv, LocalInv
<1>2. b \in Blocks
  BY DEF Found
<1>3. memrdy
  BY BusyPool DEF Found
<1>4. CASE isrOn
  BY <1>1, <1>2, <1>3, <1>4, FreeBlock DEF IInv, Runs
<1>5. CASE ~isrOn
  <2>1. InHand("isr") = {} /\ HeldBy("isr") = {}
    BY <1>5 DEF IInv, InHand
  <2> QED
    BY <1>1, <1>2, <1>3, <1>5, <2>1, FreeBlock DEF Runs, Owned
<1> QED
  BY <1>4, <1>5

(* A context other than the one that steps keeps its locals. *)
Waits(d) ==
  /\ pc'[d] = pc[d] /\ offset'[d] = offset[d] /\ cmemb'[d] = cmemb[d]
  /\ nmemb'[d] = nmemb[d] /\ i'[d] = i[d] /\ old'[d] = old[d]

(* A context whose locals stand still keeps what it has in hand and what it *)
(* has found.                                                               *)
LEMMA WaitsKeeps ==
  ASSUME NEW d \in Ctx, Waits(d)
  PROVE  InHand(d)' = InHand(d) /\ Found(d)' = Found(d)
BY DEF Waits, InHand, Found

(* ---- a step of the search leaves the map and the allocations alone ------ *)

(* A step that only moves a search position keeps the invariant: neither    *)
(* the map nor the allocations change.                                      *)
LEMMA SearchStep ==
  ASSUME IInv, NEW c \in Ctx, Runs(c), memrdy,
         UNCHANGED <<memrdy, memmap, isrOn, held>>,
         TypeOK',
         \A d \in Ctx : d # c => Waits(d),
         InHand(c) = {}, InHand(c)' = {},
         \A b \in Found(c)' : b \in Blocks /\ memmap[b] = 0,
         LocalInv(c)'
  PROVE  IInv'
<1>1. ASSUME NEW d \in Ctx
      PROVE  /\ InHand(d)' = InHand(d) /\ HeldBy(d)' = HeldBy(d)
             /\ Owned(d)' = Owned(d)
  <2>1. HeldBy(d)' = HeldBy(d)
    BY DEF HeldBy
  <2>2. InHand(d)' = InHand(d)
    BY WaitsKeeps
  <2> QED
    BY <2>1, <2>2 DEF Owned
<1>2. ASSUME NEW b \in Found(c)'
      PROVE  b \notin Owned("main") /\ b \notin Owned("isr")
  BY <1>2, FreeBlock
<1>3. ASSUME NEW d \in Ctx PROVE ContextInv(d)'
  <2>1. CASE d = c
    <3>1. Found(c)' \cap Owned(c)' = {}
      BY <1>1, <1>2 DEF Ctx
    <3> QED
      BY <2>1, <3>1, <1>1 DEF LocalInv, ContextInv
  <2>2. CASE d # c
    <3>1. Waits(d) /\ Found(d)' = Found(d)
      BY <2>2, WaitsKeeps
    <3> QED
      BY <3>1, <1>1 DEF IInv, ContextInv, LocalInv, Waits, Ctx
  <2> QED
    BY <2>1, <2>2
<1>4. NoOverlap' /\ LengthKept' /\ (\A h \in held' : Span(h) \subseteq Blocks)
  BY DEF IInv, NoOverlap, LengthKept
<1>5. Accounted'
  BY <1>1 DEF IInv, Accounted, Ctx
<1>6. (InHand("main") \cap InHand("isr"))' = {}
  BY <1>1 DEF IInv, Ctx
<1>7. (Found("isr") \cap Owned("main"))' = {}
  <2>1. CASE c = "isr"
    BY <2>1, <1>1, <1>2 DEF Ctx
  <2>2. CASE c # "isr"
    BY <2>2, <1>1, WaitsKeeps DEF IInv, Ctx
  <2> QED
    BY <2>1, <2>2
<1>8. (~isrOn => pc["isr"] = "idle" /\ HeldBy("isr") = {})'
  BY <1>1 DEF IInv, Ctx, Runs, Waits
<1> QED
  BY <1>3, <1>4, <1>5, <1>6, <1>7, <1>8 DEF IInv

(* ---- the actions of the search ----------------------------------------- *)

(* Looking at one more block of the map (lines 94-95) keeps the invariant.  *)
LEMMA SearchOnInv == ASSUME IInv, NEW c \in Ctx, SearchOn(c) PROVE IInv'
<1>1. TypeOK /\ LocalInv(c) /\ pc[c] = "scan" /\ Runs(c)
  BY DEF IInv, ContextInv, LocalInv, SearchOn, Searching
<1>2. /\ UNCHANGED <<memrdy, memmap, isrOn, pc, nmemb, i, old, held>>
      /\ offset[c] > 0 /\ Seen(c) # nmemb[c]
      /\ cmemb'[c] = Seen(c) /\ offset'[c] = offset[c] - 1
  BY <1>1 DEF TypeOK, SearchOn
<1>3. Seen(c) = 0 \/ (Seen(c) = cmemb[c] + 1 /\ memmap[offset[c]] = 0)
  BY DEF Seen
<1>4. /\ offset[c] \in Blocks /\ offset[c] - 1 \in Blocks /\ Seen(c) \in Nat
      /\ cmemb[c] \in Nat /\ nmemb[c] \in Nat
  BY <1>1, <1>2, <1>3, MallocAssumption DEF TypeOK, Blocks
<1>5. TypeOK'
  BY <1>1, <1>4 DEF TypeOK, SearchOn
<1>6. \A d \in Ctx : d # c => Waits(d)
  BY <1>1 DEF TypeOK, SearchOn, Waits
<1>7. InHand(c) = {} /\ InHand(c)' = {}
  BY <1>1, <1>2 DEF InHand
<1>8. ASSUME NEW b \in Found(c)' PROVE b \in Blocks /\ memmap[b] = 0
  <2>1. b \in Blocks /\ b \in Run(offset[c], Seen(c))
    BY <1>1, <1>2, <1>4 DEF Found, Run, Blocks
  <2>2. CASE b = offset[c]
    BY <2>1, <2>2, <1>3, <1>4 DEF Run, Blocks
  <2>3. CASE b # offset[c]
    <3>1. b \in Found(c)
      BY <2>1, <2>3, <1>1, <1>3, <1>4 DEF Found, Run, Blocks
    <3> QED
      BY <3>1, <2>1, <1>1, FoundFree
  <2> QED
    BY <2>2, <2>3
<1>9. LocalInv(c)'
  <2>1. cmemb'[c] < nmemb'[c] /\ offset'[c] + cmemb'[c] < NBlocks
    BY <1>1, <1>2, <1>3, <1>4, MallocAssumption DEF LocalInv, Blocks
  <2> QED
    BY <2>1, <1>1, <1>2 DEF LocalInv
<1> QED
  BY <1>1, <1>2, <1>5, <1>6, <1>7, <1>8, <1>9, BusyPool, SearchStep

(* Finding enough free blocks in a row (line 96) keeps the invariant: the   *)
(* run ends inside the map.                                                 *)
LEMMA RunFoundInv == ASSUME IInv, NEW c \in Ctx, RunFound(c) PROVE IInv'
<1>1. TypeOK /\ LocalInv(c) /\ pc[c] = "scan" /\ Runs(c)
  BY DEF IInv, ContextInv, LocalInv, RunFound, Searching
<1>2. /\ UNCHANGED <<memrdy, memmap, isrOn, offset, nmemb, i, old, held>>
      /\ Seen(c) = nmemb[c] /\ pc'[c] = "mark" /\ cmemb'[c] = Seen(c)
  BY <1>1 DEF TypeOK, RunFound
<1>3. /\ i[c] = 0 /\ nmemb[c] \in Nat \ {0} /\ cmemb[c] \in Nat
      /\ offset[c] \in Blocks /\ offset[c] \in Nat
  BY <1>1, CountsNat, MallocAssumption DEF LocalInv, TypeOK, Blocks
<1>4. nmemb[c] = cmemb[c] + 1 /\ memmap[offset[c]] = 0
  BY <1>2, <1>3 DEF Seen
<1>5. TypeOK'
  BY <1>1, <1>2, <1>3 DEF TypeOK, RunFound
<1>6. \A d \in Ctx : d # c => Waits(d)
  BY <1>1 DEF TypeOK, RunFound, Waits
<1>7. InHand(c) = {} /\ InHand(c)' = {}
  BY <1>1, <1>2, <1>3 DEF InHand, Run
<1>8. ASSUME NEW b \in Found(c)' PROVE b \in Blocks /\ memmap[b] = 0
  <2>1. b \in Blocks /\ b \in Run(offset[c], nmemb[c])
    BY <1>1, <1>2, <1>3 DEF Found, Run, Blocks
  <2>2. CASE b = offset[c]
    BY <2>1, <2>2, <1>4
  <2>3. CASE b # offset[c]
    <3>1. b \in Found(c)
      BY <2>1, <2>3, <1>1, <1>3, <1>4 DEF Found, Run, Blocks
    <3> QED
      BY <3>1, <2>1, <1>1, FoundFree
  <2> QED
    BY <2>2, <2>3
<1>9. LocalInv(c)'
  <2>1. nmemb'[c] \in Counts /\ i'[c] < nmemb'[c] /\ offset'[c] + nmemb'[c] <= NBlocks
    BY <1>1, <1>2, <1>3, <1>4, MallocAssumption DEF LocalInv
  <2> QED
    BY <2>1, <1>1, <1>2 DEF LocalInv
<1> QED
  BY <1>1, <1>2, <1>5, <1>6, <1>7, <1>8, <1>9, BusyPool, SearchStep

(* What is left of a call that has returned. *)
LEMMA Returned ==
  ASSUME TypeOK, NEW c \in Ctx, Return(c), memrdy' \in BOOLEAN, isrOn' \in BOOLEAN,
         memmap' \in [Blocks -> Nat], held' \subseteq Alloc
  PROVE  /\ TypeOK' /\ LocalInv(c)' /\ InHand(c)' = {} /\ Found(c)' = {}
         /\ pc'[c] = "idle" /\ old'[c] = NoBlock
         /\ \A d \in Ctx : d # c => Waits(d)
<1>0. 0 \in Blocks
  BY MallocAssumption DEF Blocks
<1>1. TypeOK'
  BY <1>0 DEF TypeOK, Return
<1>2. pc'[c] = "idle" /\ old'[c] = NoBlock /\ i'[c] = 0 /\ cmemb'[c] = 0
  BY DEF TypeOK, Return
<1>3. LocalInv(c)' /\ InHand(c)' = {} /\ Found(c)' = {}
  BY <1>2 DEF LocalInv, InHand, Found
<1>4. \A d \in Ctx : d # c => Waits(d)
  BY DEF TypeOK, Return, Waits
<1> QED
  BY <1>1, <1>2, <1>3, <1>4

(* A search that fails (line 105) keeps the invariant.                      *)
LEMMA NoRoomInv == ASSUME IInv, NEW c \in Ctx, NoRoom(c) PROVE IInv'
<1>1. TypeOK /\ Runs(c) /\ pc[c] = "scan" /\ Return(c)
      /\ UNCHANGED <<memrdy, memmap, isrOn, held>>
  BY DEF IInv, NoRoom, Searching
<1>2. InHand(c) = {}
  BY <1>1 DEF InHand
<1>3. /\ TypeOK' /\ LocalInv(c)' /\ InHand(c)' = {} /\ Found(c)' = {}
      /\ \A d \in Ctx : d # c => Waits(d)
  <2>1. memrdy' \in BOOLEAN /\ isrOn' \in BOOLEAN /\ memmap' \in [Blocks -> Nat] /\ held' \subseteq Alloc
    BY <1>1 DEF TypeOK
  <2> QED
    BY <2>1, <1>1, Returned
<1> QED
  BY <1>1, <1>2, <1>3, BusyPool, SearchStep

(* ---- entering the search, with a pool that is ready or not -------------- *)

(* A pool just zeroed by my_mem_init, with no allocation, satisfies the     *)
(* invariant.                                                               *)
LEMMA EmptyPool ==
  ASSUME TypeOK', memrdy', memmap' = ZeroMap, held' = {},
         \A d \in Ctx : LocalInv(d)' /\ InHand(d)' = {},
         ~isrOn' => pc'["isr"] = "idle"
  PROVE  IInv'
<1>1. \A d \in Ctx : HeldBy(d)' = {} /\ Owned(d)' = {}
  BY DEF HeldBy, Owned
<1>2. \A d \in Ctx : ContextInv(d)'
  BY <1>1 DEF LocalInv, ContextInv, Ctx
<1>3. Accounted'
  BY <1>1 DEF Accounted, ZeroMap, Ctx
<1>4. NoOverlap' /\ LengthKept' /\ \A h \in held' : Span(h) \subseteq Blocks
  BY DEF NoOverlap, LengthKept
<1> QED
  BY <1>1, <1>2, <1>3, <1>4 DEF IInv, Ctx

(* main's my_mem_init keeps the invariant.                                  *)
LEMMA MemInitInv == ASSUME IInv, MemInit PROVE IInv'
<1>1. /\ TypeOK /\ held' = {} /\ pc' = [d \in Ctx |-> "idle"] /\ memrdy'
      /\ memmap' = ZeroMap /\ UNCHANGED <<isrOn, pc, offset, cmemb, nmemb, i, old>>
  BY DEF IInv, MemInit
<1>2. TypeOK'
  BY <1>1 DEF TypeOK, ZeroMap, MemInit
<1>3. ASSUME NEW d \in Ctx PROVE LocalInv(d)' /\ InHand(d)' = {}
  <2>1. pc[d] = "idle" /\ pc'[d] = "idle"
    BY <1>1
  <2>2. i[d] = 0 /\ cmemb[d] = 0 /\ old[d] = NoBlock
    BY <2>1 DEF IInv, ContextInv, LocalInv
  <2> QED
    BY <2>1, <2>2, <1>1 DEF LocalInv, InHand
<1>4. pc'["isr"] = "idle"
  BY <1>1 DEF Ctx
<1> QED
  BY <1>1, <1>2, <1>3, <1>4, EmptyPool

(* Entering my_mem_malloc, from mymalloc or from myrealloc, keeps the       *)
(* invariant, whether or not it has to make the pool ready first.           *)
LEMMA StartSearchInv ==
  ASSUME IInv, NEW c \in Ctx, NEW size \in Sizes, NEW h,
         h = NoBlock \/ (h \in held /\ h.ctx = c), StartSearch(c, size, h)
  PROVE  IInv'
<1>1. /\ TypeOK /\ Runs(c) /\ pc[c] = "idle" /\ memrdy'
      /\ UNCHANGED <<isrOn, cmemb, i, held>>
      /\ memmap' = IF memrdy THEN memmap ELSE ZeroMap
  BY DEF IInv, StartSearch
<1>2. /\ pc'[c] = "scan" /\ offset'[c] = NBlocks - 1 /\ old'[c] = h
      /\ nmemb'[c] = BlocksFor(size) /\ i[c] = 0 /\ cmemb[c] = 0
  BY <1>1 DEF TypeOK, StartSearch, IInv, ContextInv, LocalInv
<1>3. BlocksFor(size) \in Counts /\ BlocksFor(size) \in Nat \ {0}
  BY CountsNat DEF Counts
<1>4. NBlocks - 1 \in Blocks /\ NBlocks \in Nat
  BY MallocAssumption DEF Blocks
<1>5. TypeOK'
  <2>1. h \in Alloc \cup {NoBlock}
    BY <1>1 DEF TypeOK
  <2>2. memmap' \in [Blocks -> Nat]
    BY <1>1 DEF TypeOK, ZeroMap
  <2> QED
    BY <2>1, <2>2, <1>1, <1>3, <1>4 DEF TypeOK, StartSearch
<1>6. \A d \in Ctx : d # c => Waits(d)
  BY <1>1 DEF TypeOK, StartSearch, Waits
<1>7. InHand(c) = {} /\ InHand(c)' = {}
  BY <1>1, <1>2 DEF InHand
<1>8. Found(c)' = {}
  BY <1>1, <1>2, <1>4 DEF Found, Run, Blocks
<1>9. LocalInv(c)'
  BY <1>1, <1>2, <1>3, <1>4 DEF LocalInv
<1>10. CASE memrdy
  <2>1. UNCHANGED <<memrdy, memmap, isrOn, held>>
    BY <1>1, <1>10
  <2> QED
    BY <1>1, <1>5, <1>6, <1>7, <1>8, <1>9, <1>10, <2>1, SearchStep
<1>11. CASE ~memrdy
  <2>1. held = {} /\ held' = {} /\ memmap' = ZeroMap
    BY <1>1, <1>11 DEF IInv
  <2>2. ASSUME NEW d \in Ctx PROVE LocalInv(d)' /\ InHand(d)' = {}
    <3>1. CASE d = c
      BY <3>1, <1>7, <1>9
    <3>2. CASE d # c
      <4>1. pc[d] = "idle" /\ Waits(d)
        BY <3>2, <1>6, <1>11 DEF IInv
      <4>2. i[d] = 0 /\ cmemb[d] = 0 /\ old[d] = NoBlock
        BY <4>1 DEF IInv, ContextInv, LocalInv
      <4> QED
        BY <4>1, <4>2 DEF LocalInv, InHand, Waits
    <3> QED
      BY <3>1, <3>2
  <2>3. ~isrOn' => pc'["isr"] = "idle"
    BY <1>1, <1>6, <1>11 DEF IInv, Ctx, Runs, Waits
  <2> QED
    BY <1>1, <1>5, <2>1, <2>2, <2>3, EmptyPool
<1> QED
  BY <1>10, <1>11

(* ---- marking a block ----------------------------------------------------- *)

(* What a context that marks a block knows: the block is inside the map,    *)
(* free, and nobody's.                                                      *)
LEMMA MarkFacts ==
  ASSUME IInv, NEW c \in Ctx, MarkBlock(c)
  PROVE  /\ TypeOK /\ LocalInv(c) /\ Runs(c) /\ pc[c] = "mark" /\ memrdy
         /\ offset[c] \in Nat /\ i[c] \in Nat /\ nmemb[c] \in Nat \ {0}
         /\ nmemb[c] \in Counts /\ i[c] < nmemb[c] /\ NBlocks \in Nat
         /\ offset[c] + nmemb[c] <= NBlocks
         /\ offset[c] + i[c] \in Found(c)
         /\ offset[c] + i[c] \in Blocks
         /\ memmap'[offset[c] + i[c]] = nmemb[c]
         /\ \A b \in Blocks : b # offset[c] + i[c] => memmap'[b] = memmap[b]
         /\ memmap' \in [Blocks -> Nat]
<1>1. TypeOK /\ LocalInv(c) /\ Runs(c) /\ pc[c] = "mark"
  BY DEF IInv, ContextInv, LocalInv, MarkBlock
<1>2. memrdy
  BY <1>1, BusyPool
<1>3. /\ offset[c] \in Nat /\ i[c] \in Nat /\ nmemb[c] \in Nat \ {0} /\ nmemb[c] \in Counts
      /\ i[c] < nmemb[c] /\ offset[c] + nmemb[c] <= NBlocks /\ NBlocks \in Nat
  BY <1>1, CountsNat, MallocAssumption DEF LocalInv, TypeOK, Blocks
<1>4. offset[c] + i[c] \in Blocks
  BY <1>3 DEF Blocks
<1>5. offset[c] + i[c] \in Found(c)
  BY <1>1, <1>3, <1>4 DEF Found, Run
<1>6. /\ memmap'[offset[c] + i[c]] = nmemb[c]
      /\ \A b \in Blocks : b # offset[c] + i[c] => memmap'[b] = memmap[b]
      /\ memmap' \in [Blocks -> Nat]
  BY <1>1, <1>3, <1>4 DEF TypeOK, MarkBlock
<1> QED
  BY <1>1, <1>2, <1>3, <1>4, <1>5, <1>6

(* ---- a step that changes what one context owns --------------------------- *)

(* Two contexts never own the same block.                                   *)
LEMMA OwnedApart ==
  ASSUME IInv, NEW c \in Ctx, NEW d \in Ctx, d # c
  PROVE  Owned(c) \cap Owned(d) = {}
<1>1. HeldBy(c) \cap HeldBy(d) = {}
  BY DEF IInv, NoOverlap, Apart, HeldBy
<1>2. InHand(c) \cap HeldBy(d) = {} /\ InHand(d) \cap HeldBy(c) = {}
  BY DEF IInv, ContextInv, LocalInv, Ctx
<1>3. InHand(c) \cap InHand(d) = {}
  BY DEF IInv, Ctx
<1> QED
  BY <1>1, <1>2, <1>3 DEF Owned

(* What the running context has found is owned by nobody.                   *)
LEMMA FoundApart ==
  ASSUME IInv, NEW c \in Ctx, Runs(c)
  PROVE  Found(c) \cap (Owned("main") \cup Owned("isr")) = {}
BY FoundFree

(* A step that changes only what one context owns keeps the invariant if it *)
(* keeps the map and the ownership of that context in agreement.            *)
LEMMA OwnerStep ==
  ASSUME IInv, NEW c \in Ctx, Runs(c), memrdy, UNCHANGED <<memrdy, isrOn>>,
         TypeOK', LocalInv(c)', NoOverlap', LengthKept',
         \A h \in held' : Span(h) \subseteq Blocks,
         \A h \in held : h.ctx # c => h \in held',
         \A d \in Ctx : d # c =>
            /\ Waits(d) /\ HeldBy(d)' = HeldBy(d)
            /\ Owned(c)' \cap Owned(d) = {} /\ Found(c)' \cap Owned(d) = {},
         Found(c)' \cap Owned(c)' = {},
         InHand(c)' \cap HeldBy(c)' = {},
         \A b \in InHand(c)' : memmap'[b] = nmemb'[c],
         \A b \in Owned(c)' : memmap'[b] # 0,
         \A b \in Owned(c) : b \notin Owned(c)' => memmap'[b] = 0,
         \A b \in Blocks : b \notin Owned(c) /\ b \notin Owned(c)' => memmap'[b] = memmap[b]
  PROVE  IInv'
<1>1. ASSUME NEW d \in Ctx, d # c
      PROVE  /\ Waits(d) /\ InHand(d)' = InHand(d) /\ Found(d)' = Found(d)
             /\ HeldBy(d)' = HeldBy(d) /\ Owned(d)' = Owned(d)
  <2>1. InHand(d)' = InHand(d) /\ Found(d)' = Found(d)
    BY <1>1, WaitsKeeps
  <2> QED
    BY <1>1, <2>1 DEF Owned
<1>2. ASSUME NEW d \in Ctx, d # c, NEW b \in Owned(d) PROVE memmap'[b] = memmap[b]
  <2>1. b \in Blocks
    BY <1>2 DEF Owned, InHand, HeldBy
  <2> QED
    BY <1>2, <2>1, OwnedApart
<1>3. ASSUME NEW d \in Ctx PROVE ContextInv(d)'
  <2>1. CASE d = c
    <3>1. \A e \in Ctx : e # c => InHand(c)' \cap HeldBy(e)' = {}
      BY <1>1 DEF Owned
    <3>2. InHand(c)' \cap (HeldBy("main") \cup HeldBy("isr"))' = {}
      BY <3>1 DEF Ctx
    <3> QED
      BY <2>1, <3>2 DEF LocalInv, ContextInv
  <2>2. CASE d # c
    <3>1. LocalInv(d)'
      <4>1. LocalInv(d) /\ Waits(d)
        BY <2>2 DEF IInv, ContextInv, LocalInv
      <4> QED
        BY <4>1, <2>2 DEF LocalInv, Waits
    <3>2. InHand(d)' \cap HeldBy(c)' = {} /\ InHand(d)' \cap HeldBy(d)' = {}
      <4>1. InHand(d) \cap HeldBy(d) = {}
        BY DEF IInv, ContextInv, LocalInv, Ctx
      <4> QED
        BY <1>1, <2>2, <4>1 DEF Owned
    <3>3. InHand(d)' \cap (HeldBy("main") \cup HeldBy("isr"))' = {}
      BY <3>2, <2>2 DEF Ctx
    <3>4. Found(d)' \cap Owned(d)' = {}
      BY <1>1, <2>2 DEF IInv, ContextInv, LocalInv
    <3>5. \A b \in InHand(d)' : memmap'[b] = nmemb'[d]
      <4>1. \A b \in InHand(d) : memmap[b] = nmemb[d]
        BY DEF IInv, ContextInv, LocalInv
      <4> QED
        BY <1>1, <1>2, <2>2, <4>1 DEF Owned, Waits
    <3> QED
      BY <3>1, <3>3, <3>4, <3>5 DEF LocalInv, ContextInv
  <2> QED
    BY <2>1, <2>2
<1>4. Accounted'
  <2>1. ASSUME NEW b \in Blocks
        PROVE  memmap'[b] # 0 <=> \E d \in Ctx : b \in Owned(d)'
    <3>1. memmap[b] # 0 <=> \E d \in Ctx : b \in Owned(d)
      BY FreeBlock DEF Ctx
    <3>2. CASE b \in Owned(c) \/ b \in Owned(c)'
      <4>1. \A d \in Ctx : d # c => b \notin Owned(d)
        BY <3>2, OwnedApart
      <4> QED
        BY <3>2, <4>1, <1>1
    <3>3. CASE b \notin Owned(c) /\ b \notin Owned(c)'
      BY <3>1, <3>3, <1>1
    <3> QED
      BY <3>2, <3>3
  <2>2. \A d \in Ctx : Owned(d)' \subseteq Blocks
    BY DEF Owned, InHand, HeldBy
  <2> QED
    BY <2>1, <2>2 DEF Accounted, Ctx
<1>5. (InHand("main") \cap InHand("isr"))' = {}
  <2>1. \A d \in Ctx : d # c => InHand(c)' \cap InHand(d)' = {}
    BY <1>1 DEF Owned
  <2> QED
    BY <2>1 DEF Ctx
<1>6. (Found("isr") \cap Owned("main"))' = {}
  <2>1. CASE c = "isr"
    BY <2>1, <1>1 DEF Ctx
  <2>2. CASE c = "main"
    <3>1. isrOn = FALSE
      BY <2>2 DEF Runs, IInv, TypeOK
    <3>2. Found("isr") = {}
      BY <3>1 DEF IInv, Found
    <3> QED
      BY <2>2, <3>2, <1>1 DEF Ctx
  <2> QED
    BY <2>1, <2>2 DEF Ctx
<1>7. (~isrOn => pc["isr"] = "idle" /\ HeldBy("isr") = {})'
  <2>1. CASE c = "isr"
    BY <2>1 DEF Runs
  <2>2. CASE c # "isr"
    BY <2>2, <1>1 DEF IInv, Ctx, Waits
  <2> QED
    BY <2>1, <2>2
<1> QED
  BY <1>3, <1>4, <1>5, <1>6, <1>7 DEF IInv

(* Writing the length into one block of the run (line 100) keeps the        *)
(* invariant.                                                               *)
LEMMA MarkOnInv == ASSUME IInv, NEW c \in Ctx, MarkOn(c) PROVE IInv'
<1> DEFINE x == offset[c] + i[c]
<1>0. MarkBlock(c) /\ i[c] + 1 < nmemb[c]
      /\ UNCHANGED <<memrdy, isrOn, pc, offset, cmemb, nmemb, old, held>>
  BY DEF MarkOn, MarkBlock
<1>1. /\ TypeOK /\ LocalInv(c) /\ Runs(c) /\ pc[c] = "mark" /\ memrdy
      /\ offset[c] \in Nat /\ i[c] \in Nat /\ nmemb[c] \in Nat \ {0}
      /\ nmemb[c] \in Counts /\ NBlocks \in Nat
      /\ offset[c] + nmemb[c] <= NBlocks
      /\ x \in Found(c) /\ x \in Blocks
      /\ memmap'[x] = nmemb[c]
      /\ \A b \in Blocks : b # x => memmap'[b] = memmap[b]
      /\ memmap' \in [Blocks -> Nat]
  BY <1>0, MarkFacts
<1>2. i'[c] = i[c] + 1
  BY <1>1 DEF TypeOK, MarkOn
<1>3. TypeOK'
  BY <1>0, <1>1 DEF TypeOK, MarkOn
<1>4. LocalInv(c)'
  BY <1>0, <1>1, <1>2 DEF LocalInv
<1>5. HeldBy(c)' = HeldBy(c) /\ InHand(c)' = InHand(c) \cup {x} /\ Found(c)' \subseteq Found(c) \ {x}
  <2>1. HeldBy(c)' = HeldBy(c)
    BY <1>0 DEF HeldBy
  <2>2. InHand(c)' = InHand(c) \cup {x}
    BY <1>0, <1>1, <1>2 DEF InHand, Run
  <2>3. Found(c)' \subseteq Found(c) \ {x}
    BY <1>0, <1>1, <1>2 DEF Found, Run
  <2> QED
    BY <2>1, <2>2, <2>3
<1>6. Owned(c)' = Owned(c) \cup {x}
  BY <1>5 DEF Owned
<1>7. \A d \in Ctx : x \notin Owned(d)
  BY <1>1, FoundFree DEF Ctx
<1>8. \A d \in Ctx : d # c => Waits(d) /\ HeldBy(d)' = HeldBy(d)
  BY <1>0, <1>1 DEF TypeOK, MarkOn, Waits, HeldBy
<1>9. \A d \in Ctx : d # c => Owned(c)' \cap Owned(d) = {} /\ Found(c)' \cap Owned(d) = {}
  BY <1>1, <1>5, <1>6, <1>7, OwnedApart, FoundApart DEF Ctx
<1>10. Found(c)' \cap Owned(c)' = {}
  BY <1>1, <1>5, <1>6, FoundApart DEF Ctx
<1>11. InHand(c)' \cap HeldBy(c)' = {}
  <2>1. InHand(c) \cap HeldBy(c) = {}
    BY DEF IInv, ContextInv, LocalInv, Ctx
  <2> QED
    BY <2>1, <1>5, <1>7 DEF Owned
<1>12. \A b \in InHand(c)' : memmap'[b] = nmemb'[c]
  <2>1. \A b \in InHand(c) : b \in Blocks /\ memmap[b] = nmemb[c]
    BY DEF IInv, ContextInv, LocalInv, InHand
  <2> QED
    BY <2>1, <1>0, <1>1, <1>5
<1>13. \A b \in Owned(c) : b \in Blocks /\ memmap[b] # 0
  <2>1. \A b \in Owned(c) : b \in Blocks
    BY DEF Owned, InHand, HeldBy
  <2> QED
    BY <2>1, <1>1, FreeBlock DEF Ctx
<1>14. \A b \in Owned(c)' : memmap'[b] # 0
  BY <1>1, <1>6, <1>13
<1>15. NoOverlap' /\ \A h \in held' : Span(h) \subseteq Blocks
  BY <1>0 DEF IInv, NoOverlap
<1>16. LengthKept'
  <2>1. ASSUME NEW h \in held, NEW b \in Span(h) PROVE memmap'[b] = h.n
    <3>1. b \in Blocks /\ memmap[b] = h.n
      BY DEF IInv, LengthKept
    <3>2. h.ctx \in Ctx
      BY <1>1 DEF TypeOK, Alloc
    <3>3. b \in Owned(h.ctx)
      BY <3>1 DEF Owned, HeldBy
    <3> QED
      BY <3>1, <3>2, <3>3, <1>1, <1>7
  <2> QED
    BY <2>1, <1>0 DEF LengthKept
<1> HIDE DEF x
<1>17. \A b \in Blocks : b \notin Owned(c) /\ b \notin Owned(c)' => memmap'[b] = memmap[b]
  BY <1>1, <1>6
<1> QED
  BY <1>0, <1>1, <1>3, <1>4, <1>6, <1>8, <1>9, <1>10, <1>11, <1>12, <1>14, <1>15, <1>16, <1>17, OwnerStep

(* ---- handing out, giving back and clearing ------------------------------- *)

(* Whatever is owned is marked in the map.                                  *)
LEMMA OwnedMarked ==
  ASSUME IInv, memrdy, NEW c \in Ctx
  PROVE  \A b \in Owned(c) : b \in Blocks /\ memmap[b] # 0
<1>1. \A b \in Owned(c) : b \in Blocks
  BY DEF Owned, InHand, HeldBy
<1> QED
  BY <1>1, FreeBlock DEF Ctx

(* The blocks of a live allocation lie in the map and are owned by its      *)
(* context.                                                                 *)
LEMMA SpanOwned ==
  ASSUME IInv, NEW h \in held
  PROVE  /\ h.ctx \in Ctx /\ h.base \in Nat /\ h.n \in Nat \ {0} /\ h.n \in Counts
         /\ h.base \in Span(h) /\ h.base \in Blocks /\ h.base + h.n <= NBlocks
         /\ Span(h) \subseteq HeldBy(h.ctx)
<1>1. /\ h.ctx \in Ctx /\ h.base \in Nat /\ h.n \in Nat \ {0} /\ h.n \in Counts
      /\ h.base \in Blocks /\ NBlocks \in Nat
  <2>1. h \in Alloc
    BY DEF IInv, TypeOK
  <2>2. h.ctx \in Ctx
    BY <2>1 DEF Alloc
  <2>3. h.base \in Blocks
    BY <2>1 DEF Alloc
  <2>4. h.n \in Counts
    BY <2>1 DEF Alloc
  <2>5. NBlocks \in Nat /\ h.base \in Nat
    BY <2>3, MallocAssumption DEF Blocks
  <2>6. h.n \in Nat \ {0}
    BY <2>4, CountsNat
  <2> QED
    BY <2>2, <2>3, <2>4, <2>5, <2>6
<1>2. Span(h) \subseteq Blocks
  BY DEF IInv
<1>3. h.base \in Span(h) /\ h.base + h.n - 1 \in Span(h)
  BY <1>1 DEF Span, Run
<1>4. h.base + h.n <= NBlocks
  BY <1>1, <1>2, <1>3 DEF Blocks
<1>5. Span(h) \subseteq HeldBy(h.ctx)
  BY <1>2 DEF HeldBy
<1> QED
  BY <1>1, <1>2, <1>3, <1>4, <1>5

(* What handing out an allocation changes: one allocation more, and the     *)
(* call is over.                                                            *)
LEMMA HandOutFacts ==
  ASSUME IInv, NEW c \in Ctx, HandOut(c)
  PROVE  /\ TypeOK' /\ LocalInv(c)' /\ InHand(c)' = {} /\ Found(c)' = {}
         /\ held' = held \cup {NewAlloc(c)} /\ NewAlloc(c) \in Alloc
         /\ UNCHANGED <<memrdy, isrOn>>
         /\ \A d \in Ctx : d # c => Waits(d)
<1>1. /\ MarkBlock(c) /\ UNCHANGED <<memrdy, isrOn>>
      /\ held' = held \cup {NewAlloc(c)}
  BY DEF HandOut, MarkBlock
<1>2. /\ TypeOK /\ LocalInv(c) /\ nmemb[c] \in Counts /\ memmap' \in [Blocks -> Nat]
      /\ offset[c] \in Blocks
  BY <1>1, MarkFacts DEF TypeOK
<1>3. NewAlloc(c) \in Alloc
  BY <1>2 DEF NewAlloc, Alloc
<1>4. /\ held' \subseteq Alloc /\ memrdy' \in BOOLEAN /\ isrOn' \in BOOLEAN
  BY <1>1, <1>2, <1>3 DEF TypeOK
<1>5. CASE old[c] = NoBlock
  BY <1>1, <1>2, <1>3, <1>4, <1>5, Returned DEF HandOut
<1>6. CASE old[c] # NoBlock
  <2>1. /\ pc' = [pc EXCEPT ![c] = "copied"] /\ UNCHANGED <<offset, cmemb, nmemb, i, old>>
    BY <1>6 DEF HandOut
  <2>2. TypeOK'
    BY <2>1, <1>2, <1>4 DEF TypeOK
  <2>3. pc'[c] = "copied"
    BY <2>1, <1>2 DEF TypeOK
  <2>4. LocalInv(c)' /\ InHand(c)' = {} /\ Found(c)' = {}
    BY <2>1, <2>3, <1>1, <1>2, <1>6 DEF LocalInv, InHand, Found
  <2>5. \A d \in Ctx : d # c => Waits(d)
    BY <2>1, <1>2 DEF TypeOK, Waits
  <2> QED
    BY <2>2, <2>4, <2>5, <1>1, <1>3
<1> QED
  BY <1>5, <1>6

(* Marking the last block and returning the offset (line 102) keeps the     *)
(* invariant; the new allocation is apart from every live one.              *)
LEMMA HandOutInv == ASSUME IInv, NEW c \in Ctx, HandOut(c) PROVE IInv'
<1> DEFINE x == offset[c] + i[c]
           new == NewAlloc(c)
<1>0. MarkBlock(c) /\ i[c] + 1 >= nmemb[c]
  BY DEF HandOut
<1>1. /\ TypeOK /\ LocalInv(c) /\ Runs(c) /\ pc[c] = "mark" /\ memrdy
      /\ offset[c] \in Nat /\ i[c] \in Nat /\ nmemb[c] \in Nat \ {0}
      /\ i[c] < nmemb[c] /\ NBlocks \in Nat
      /\ offset[c] + nmemb[c] <= NBlocks
      /\ x \in Found(c) /\ x \in Blocks
      /\ memmap'[x] = nmemb[c]
      /\ \A b \in Blocks : b # x => memmap'[b] = memmap[b]
  BY <1>0, MarkFacts
<1>2. /\ TypeOK' /\ LocalInv(c)' /\ InHand(c)' = {} /\ Found(c)' = {}
      /\ held' = held \cup {new} /\ UNCHANGED <<memrdy, isrOn>>
      /\ \A d \in Ctx : d # c => Waits(d)
  BY HandOutFacts
<1>3. new.ctx = c /\ new.base = offset[c] /\ new.n = nmemb[c]
  BY DEF NewAlloc
<1>4. Span(new) = InHand(c) \cup {x} /\ Span(new) \subseteq Blocks
  <2>1. nmemb[c] = i[c] + 1
    BY <1>0, <1>1
  <2>2. Span(new) \subseteq Blocks
    BY <1>1, <1>3 DEF Span, Run, Blocks
  <2>3. \A b \in Blocks : b \in Span(new) <=> b \in InHand(c) \/ b = x
    BY <2>1, <1>1, <1>3 DEF Span, Run, InHand, Blocks
  <2>4. InHand(c) \subseteq Blocks
    BY DEF InHand
  <2> QED
    BY <2>2, <2>3, <2>4, <1>1
<1>5. \A d \in Ctx : x \notin Owned(d)
  BY <1>1, FoundFree DEF Ctx
<1>6. HeldBy(c)' = HeldBy(c) \cup Span(new) /\ \A d \in Ctx : d # c => HeldBy(d)' = HeldBy(d)
  BY <1>2, <1>3, <1>4 DEF HeldBy
<1>7. Owned(c)' = Owned(c) \cup {x}
  BY <1>2, <1>4, <1>6 DEF Owned
<1>8. ASSUME NEW h \in held PROVE Apart(h, new) /\ Apart(new, h)
  <2>1. Span(h) \subseteq HeldBy(h.ctx) /\ h.ctx \in Ctx
    BY SpanOwned
  <2>2. InHand(c) \cap HeldBy(h.ctx) = {}
    BY <2>1 DEF IInv, ContextInv, LocalInv, Ctx
  <2>3. x \notin HeldBy(h.ctx)
    BY <2>1, <1>5 DEF Owned
  <2> QED
    BY <2>1, <2>2, <2>3, <1>4 DEF Apart
<1>9. NoOverlap' /\ \A h \in held' : Span(h) \subseteq Blocks
  BY <1>2, <1>4, <1>8 DEF IInv, NoOverlap
<1>10. LengthKept'
  <2>1. ASSUME NEW h \in held, NEW b \in Span(h) PROVE memmap'[b] = h.n
    <3>1. b \in Blocks /\ memmap[b] = h.n
      BY DEF IInv, LengthKept
    <3>2. b # x
      BY <1>5, SpanOwned DEF Owned
    <3> QED
      BY <3>1, <3>2, <1>1
  <2>2. ASSUME NEW b \in Span(new) PROVE memmap'[b] = new.n
    <3>1. \A e \in InHand(c) : memmap[e] = nmemb[c]
      BY DEF IInv, ContextInv, LocalInv
    <3> QED
      BY <3>1, <1>1, <1>3, <1>4
  <2> QED
    BY <2>1, <2>2, <1>2 DEF LengthKept
<1> HIDE DEF x, new
<1>11. \A b \in Owned(c)' : memmap'[b] # 0
  BY <1>1, <1>7, OwnedMarked
<1>12. \A d \in Ctx : d # c => Owned(c)' \cap Owned(d) = {} /\ Found(c)' \cap Owned(d) = {}
  BY <1>2, <1>5, <1>7, OwnedApart
<1>13. \A b \in Blocks : b \notin Owned(c) /\ b \notin Owned(c)' => memmap'[b] = memmap[b]
  BY <1>1, <1>7
<1> QED
  BY <1>1, <1>2, <1>6, <1>7, <1>9, <1>10, <1>11, <1>12, <1>13, OwnerStep

(* Entering my_mem_free with a live allocation keeps the invariant: the     *)
(* length read back from the map is that of the allocation.                 *)
LEMMA StartFreeInv ==
  ASSUME IInv, NEW c \in Ctx, pc[c] \in {"idle", "copied"},
         NEW h \in held, h.ctx = c, StartFree(c, h)
  PROVE  IInv'
<1>1. /\ TypeOK /\ Runs(c) /\ held' = held \ {h}
      /\ UNCHANGED <<memrdy, memmap, isrOn, cmemb>>
  BY DEF IInv, StartFree
<1>2. memrdy
  BY DEF IInv
<1>3. /\ h.base \in Nat /\ h.n \in Nat \ {0} /\ h.n \in Counts /\ h.base \in Span(h)
      /\ h.base \in Blocks /\ h.base + h.n <= NBlocks /\ Span(h) \subseteq HeldBy(c)
      /\ Span(h) \subseteq Blocks
  BY SpanOwned DEF IInv
<1>4. memmap[h.base] = h.n
  BY <1>3 DEF IInv, LengthKept
<1>5. TypeOK'
  BY <1>1, <1>3, <1>4 DEF TypeOK, StartFree
<1>6. /\ pc'[c] = "clear" /\ offset'[c] = h.base /\ nmemb'[c] = h.n /\ i'[c] = 0
      /\ old'[c] = NoBlock
  BY <1>1, <1>4 DEF TypeOK, StartFree
<1>7. LocalInv(c)'
  BY <1>3, <1>6 DEF LocalInv
<1>8. InHand(c) = {} /\ InHand(c)' = Span(h) /\ Found(c)' = {}
  BY <1>3, <1>6 DEF InHand, Found, Span, Run
<1>9. \A d \in Ctx : d # c => Waits(d)
  BY <1>1 DEF TypeOK, StartFree, Waits
<1>10. \A d \in Ctx : d # c => HeldBy(d)' = HeldBy(d)
  BY <1>1 DEF HeldBy
<1>11. HeldBy(c)' = HeldBy(c) \ Span(h)
  <2>1. ASSUME NEW b \in HeldBy(c)' PROVE b \in HeldBy(c) /\ b \notin Span(h)
    <3>1. PICK g \in held : g # h /\ g.ctx = c /\ b \in Span(g)
      BY <1>1, <2>1 DEF HeldBy
    <3>2. b \in HeldBy(c)
      BY <3>1, <2>1 DEF HeldBy
    <3>3. Apart(g, h)
      BY <3>1 DEF IInv, NoOverlap
    <3> QED
      BY <3>1, <3>2, <3>3 DEF Apart
  <2>2. ASSUME NEW b \in HeldBy(c), b \notin Span(h) PROVE b \in HeldBy(c)'
    BY <1>1, <2>2 DEF HeldBy
  <2> QED
    BY <2>1, <2>2
<1>12. Owned(c)' = Owned(c)
  BY <1>3, <1>8, <1>11 DEF Owned
<1>13. NoOverlap' /\ LengthKept' /\ \A g \in held' : Span(g) \subseteq Blocks
  BY <1>1 DEF IInv, NoOverlap, LengthKept
<1>14. \A b \in InHand(c)' : memmap'[b] = nmemb'[c]
  BY <1>1, <1>6, <1>8 DEF IInv, LengthKept
<1>15. \A b \in Owned(c)' : memmap'[b] # 0
  BY <1>1, <1>2, <1>12, OwnedMarked
<1>16. \A d \in Ctx : d # c => Owned(c)' \cap Owned(d) = {} /\ Found(c)' \cap Owned(d) = {}
  BY <1>8, <1>12, OwnedApart
<1> QED
  BY <1>1, <1>2, <1>5, <1>7, <1>8, <1>9, <1>10, <1>11, <1>12, <1>13, <1>14, <1>15, <1>16, OwnerStep

(* What a context that clears a block knows: the block is its own.          *)
LEMMA ClearFacts ==
  ASSUME IInv, NEW c \in Ctx, ClearBlock(c)
  PROVE  /\ TypeOK /\ LocalInv(c) /\ Runs(c) /\ pc[c] = "clear" /\ memrdy
         /\ UNCHANGED <<memrdy, isrOn, held>>
         /\ offset[c] \in Nat /\ i[c] \in Nat /\ nmemb[c] \in Nat \ {0}
         /\ i[c] < nmemb[c] /\ offset[c] + nmemb[c] <= NBlocks
         /\ offset[c] + i[c] \in InHand(c)
         /\ memmap'[offset[c] + i[c]] = 0
         /\ \A b \in Blocks : b # offset[c] + i[c] => memmap'[b] = memmap[b]
         /\ memmap' \in [Blocks -> Nat]
<1>1. /\ TypeOK /\ LocalInv(c) /\ Runs(c) /\ pc[c] = "clear"
      /\ UNCHANGED <<memrdy, isrOn, held>>
  BY DEF IInv, ContextInv, LocalInv, ClearBlock
<1>2. memrdy
  BY <1>1, BusyPool
<1>3. /\ offset[c] \in Nat /\ i[c] \in Nat /\ nmemb[c] \in Nat \ {0}
      /\ i[c] < nmemb[c] /\ offset[c] + nmemb[c] <= NBlocks /\ NBlocks \in Nat
  BY <1>1, CountsNat, MallocAssumption DEF LocalInv, TypeOK, Blocks
<1>4. offset[c] + i[c] \in Blocks
  BY <1>3 DEF Blocks
<1>5. offset[c] + i[c] \in InHand(c)
  BY <1>1, <1>3, <1>4 DEF InHand, Run
<1>6. /\ memmap'[offset[c] + i[c]] = 0
      /\ \A b \in Blocks : b # offset[c] + i[c] => memmap'[b] = memmap[b]
      /\ memmap' \in [Blocks -> Nat]
  BY <1>1, <1>4 DEF TypeOK, ClearBlock
<1> QED
  BY <1>1, <1>2, <1>3, <1>5, <1>6

(* Clearing takes one block out of what the context has in hand. *)
LEMMA ClearStep ==
  ASSUME IInv, NEW c \in Ctx, ClearBlock(c), TypeOK', LocalInv(c)',
         InHand(c)' = InHand(c) \ {offset[c] + i[c]}, Found(c)' = {},
         nmemb'[c] = nmemb[c] \/ InHand(c)' = {},
         \A d \in Ctx : d # c => Waits(d)
  PROVE  IInv'
<1> DEFINE x == offset[c] + i[c]
<1>1. /\ TypeOK /\ Runs(c) /\ memrdy /\ UNCHANGED <<memrdy, isrOn, held>>
      /\ x \in InHand(c) /\ memmap'[x] = 0
      /\ \A b \in Blocks : b # x => memmap'[b] = memmap[b]
  BY ClearFacts
<1> HIDE DEF x
<1>2. InHand(c)' = InHand(c) \ {x}
  BY DEF x
<1>3. \A d \in Ctx : HeldBy(d)' = HeldBy(d)
  BY <1>1 DEF HeldBy
<1>4. \A d \in Ctx : x \notin HeldBy(d)
  <2>1. InHand(c) \cap (HeldBy("main") \cup HeldBy("isr")) = {}
    BY DEF IInv, ContextInv, LocalInv
  <2> QED
    BY <2>1, <1>1 DEF Ctx
<1>5. Owned(c)' = Owned(c) \ {x} /\ x \in Owned(c)
  BY <1>1, <1>2, <1>3, <1>4 DEF Owned
<1>6. NoOverlap' /\ \A h \in held' : Span(h) \subseteq Blocks
  BY <1>1 DEF IInv, NoOverlap
<1>7. LengthKept'
  <2>1. ASSUME NEW h \in held, NEW b \in Span(h) PROVE memmap'[b] = h.n
    <3>1. b \in Blocks /\ memmap[b] = h.n
      BY DEF IInv, LengthKept
    <3>2. b # x
      BY <1>4, SpanOwned
    <3> QED
      BY <3>1, <3>2, <1>1
  <2> QED
    BY <2>1, <1>1 DEF LengthKept
<1>8. InHand(c)' \cap HeldBy(c)' = {}
  <2>1. InHand(c) \cap HeldBy(c) = {}
    BY DEF IInv, ContextInv, LocalInv, Ctx
  <2> QED
    BY <2>1, <1>2, <1>3
<1>9. \A b \in InHand(c)' : memmap'[b] = nmemb'[c]
  <2>1. \A b \in InHand(c) : b \in Blocks /\ memmap[b] = nmemb[c]
    BY DEF IInv, ContextInv, LocalInv, InHand
  <2> QED
    BY <2>1, <1>1, <1>2
<1>10. \A b \in Owned(c)' : memmap'[b] # 0
  BY <1>1, <1>5, OwnedMarked
<1>11. \A d \in Ctx : d # c => Owned(c)' \cap Owned(d) = {} /\ Found(c)' \cap Owned(d) = {}
  BY <1>5, OwnedApart
<1>12. \A b \in Owned(c) : b \notin Owned(c)' => memmap'[b] = 0
  BY <1>1, <1>5
<1>13. \A b \in Blocks : b \notin Owned(c) /\ b \notin Owned(c)' => memmap'[b] = memmap[b]
  BY <1>1, <1>5
<1> QED
  BY <1>1, <1>3, <1>6, <1>7, <1>8, <1>9, <1>10, <1>11, <1>12, <1>13, OwnerStep

(* Clearing a block that is not the last (lines 123-126) keeps the          *)
(* invariant.                                                               *)
LEMMA ClearOnInv == ASSUME IInv, NEW c \in Ctx, ClearOn(c) PROVE IInv'
<1>0. /\ ClearBlock(c) /\ i[c] + 1 < nmemb[c]
      /\ i' = [i EXCEPT ![c] = i[c] + 1]
      /\ UNCHANGED <<pc, offset, cmemb, nmemb, old>>
  BY DEF ClearOn
<1>1. /\ TypeOK /\ LocalInv(c) /\ pc[c] = "clear" /\ UNCHANGED <<memrdy, isrOn, held>>
      /\ offset[c] \in Nat /\ i[c] \in Nat /\ nmemb[c] \in Nat \ {0}
      /\ memmap' \in [Blocks -> Nat]
  BY <1>0, ClearFacts
<1>2. i'[c] = i[c] + 1
  BY <1>0, <1>1 DEF TypeOK
<1>3. TypeOK' /\ \A d \in Ctx : d # c => Waits(d)
  BY <1>0, <1>1 DEF TypeOK, Waits
<1>4. LocalInv(c)'
  BY <1>0, <1>1, <1>2 DEF LocalInv
<1>5. InHand(c)' = InHand(c) \ {offset[c] + i[c]} /\ Found(c)' = {}
  BY <1>0, <1>1, <1>2 DEF InHand, Found, Run
<1> QED
  BY <1>0, <1>3, <1>4, <1>5, ClearStep

(* Clearing the last block and returning keeps the invariant.               *)
LEMMA ClearLastInv == ASSUME IInv, NEW c \in Ctx, ClearLast(c) PROVE IInv'
<1>0. ClearBlock(c) /\ i[c] + 1 >= nmemb[c] /\ Return(c)
  BY DEF ClearLast
<1>1. /\ TypeOK /\ pc[c] = "clear" /\ UNCHANGED <<memrdy, isrOn, held>>
      /\ offset[c] \in Nat /\ i[c] \in Nat /\ nmemb[c] \in Nat \ {0} /\ i[c] < nmemb[c]
      /\ memmap' \in [Blocks -> Nat]
  BY <1>0, ClearFacts
<1>2. TypeOK' /\ LocalInv(c)' /\ InHand(c)' = {} /\ Found(c)' = {}
      /\ \A d \in Ctx : d # c => Waits(d)
  <2>1. memrdy' \in BOOLEAN /\ isrOn' \in BOOLEAN /\ held' \subseteq Alloc
    BY <1>1 DEF TypeOK
  <2> QED
    BY <2>1, <1>0, <1>1, Returned
<1>3. InHand(c) \ {offset[c] + i[c]} = {}
  BY <1>0, <1>1 DEF InHand, Run
<1> QED
  BY <1>0, <1>2, <1>3, ClearStep

(* ---- the handler comes and goes ------------------------------------------ *)

(* EXTI1 coming or going keeps the invariant if the handler leaves nothing  *)
(* behind when it goes.                                                     *)
LEMMA HandlerStep ==
  ASSUME IInv,
         UNCHANGED <<memrdy, memmap, pc, offset, cmemb, nmemb, i, old, held>>,
         isrOn' \in BOOLEAN,
         ~isrOn' => pc["isr"] = "idle" /\ HeldBy("isr") = {}
  PROVE  IInv'
<1>1. \A d \in Ctx : /\ InHand(d)' = InHand(d) /\ Found(d)' = Found(d)
                     /\ HeldBy(d)' = HeldBy(d) /\ Owned(d)' = Owned(d)
  BY DEF InHand, Found, HeldBy, Owned
<1>2. TypeOK' /\ NoOverlap' /\ LengthKept' /\ \A h \in held' : Span(h) \subseteq Blocks
  BY DEF IInv, TypeOK, NoOverlap, LengthKept
<1>3. Accounted'
  BY <1>1 DEF IInv, Accounted, Ctx
<1>4. \A d \in Ctx : ContextInv(d)'
  BY <1>1 DEF IInv, ContextInv, LocalInv, Ctx
<1> QED
  BY <1>1, <1>2, <1>3, <1>4 DEF IInv, Ctx

(* The handler may interrupt the main loop anywhere in malloc.c.            *)
LEMMA IsrEnterInv == ASSUME IInv, IsrEnter PROVE IInv'
BY HandlerStep DEF IsrEnter

(* The handler returns only with its allocations given back.                *)
LEMMA IsrReturnInv == ASSUME IInv, IsrReturn PROVE IInv'
<1>1. HeldBy("isr") = {}
  BY DEF IsrReturn, HeldBy
<1> QED
  BY <1>1, HandlerStep DEF IsrReturn

(* ---- the theorems --------------------------------------------------------- *)

(* The pool at reset, its map not even zeroed, satisfies the invariant.     *)
LEMMA InitInv == Init => IInv
<1> SUFFICES ASSUME Init PROVE IInv
  OBVIOUS
<1>1. TypeOK
  <2>1. 0 \in Blocks
    BY MallocAssumption DEF Blocks
  <2>2. memmap \in [Blocks -> Nat]
    BY DEF Init
  <2>3. old \in [Ctx -> Alloc \cup {NoBlock}]
    BY DEF Init
  <2> QED
    BY <2>1, <2>2, <2>3 DEF Init, TypeOK
<1>2. \A c \in Ctx : InHand(c) = {} /\ Found(c) = {} /\ HeldBy(c) = {} /\ Owned(c) = {}
  BY DEF Init, InHand, Found, HeldBy, Owned
<1>3. \A c \in Ctx : ContextInv(c)
  BY <1>2 DEF Init, ContextInv, LocalInv, Ctx
<1>4. NoOverlap /\ LengthKept /\ Accounted
  BY DEF Init, NoOverlap, LengthKept, Accounted
<1> QED
  BY <1>1, <1>2, <1>3, <1>4 DEF Init, IInv, Ctx

(* Every step of a call keeps the invariant.                                *)
LEMMA StepInv == ASSUME IInv, NEW c \in Ctx, Step(c) PROVE IInv'
<1>1. CASE \E size \in Sizes : Malloc(c, size)
  BY <1>1, StartSearchInv DEF Malloc
<1>2. CASE \E size \in Sizes, h \in held : Realloc(c, size, h)
  BY <1>2, StartSearchInv DEF Realloc
<1>3. CASE \E h \in held : Free(c, h)
  BY <1>3, StartFreeInv DEF Free
<1>4. CASE FreeOld(c)
  <2>1. old[c] \in held /\ old[c].ctx = c
    BY <1>4 DEF IInv, ContextInv, LocalInv, FreeOld
  <2> QED
    BY <1>4, <2>1, StartFreeInv DEF FreeOld
<1> QED
  BY <1>1, <1>2, <1>3, <1>4, RunFoundInv, SearchOnInv, NoRoomInv, MarkOnInv,
     HandOutInv, ClearOnInv, ClearLastInv DEF Step

(* Every step of the specification keeps the invariant.                     *)
LEMMA NextInv == IInv /\ [Next]_vars => IInv'
<1> SUFFICES ASSUME IInv, [Next]_vars PROVE IInv'
  OBVIOUS
<1>1. CASE UNCHANGED vars
  <2>1. isrOn' \in BOOLEAN /\ (~isrOn' => pc["isr"] = "idle" /\ HeldBy("isr") = {})
    BY <1>1 DEF IInv, TypeOK, vars
  <2> QED
    BY <1>1, <2>1, HandlerStep DEF vars
<1>2. CASE Next
  BY <1>2, MemInitInv, IsrEnterInv, IsrReturnInv, StepInv DEF Next
<1> QED
  BY <1>1, <1>2

(* The invariant of the interrupted allocator, for every pool size and every *)
(* set of request sizes.                                                     *)
THEOREM InductiveInvariant == Spec => []IInv
BY InitInv, NextInv, PTL DEF Spec

(* Every variable of the allocator keeps its type. *)
THEOREM TypeCorrect == Spec => []TypeOK
<1>1. IInv => TypeOK
  BY DEF IInv
<1> QED
  BY <1>1, InductiveInvariant, PTL

(* No two live allocations share a block, wherever the handler interrupts.   *)
THEOREM LiveAllocationsApart == Spec => []NoOverlap
<1>1. IInv => NoOverlap
  BY DEF IInv
<1> QED
  BY <1>1, InductiveInvariant, PTL

(* The map still says the length of every live allocation on each of its     *)
(* blocks, so my_mem_free clears exactly the blocks that were handed out.    *)
THEOREM LengthsKept == Spec => []LengthKept
<1>1. IInv => LengthKept
  BY DEF IInv
<1> QED
  BY <1>1, InductiveInvariant, PTL

(* No block is leaked and none is free that somebody uses. *)
THEOREM NothingLost == Spec => []Accounted
<1>1. IInv => Accounted
  BY DEF IInv
<1> QED
  BY <1>1, InductiveInvariant, PTL

(* The block-by-block, interrupted allocator implements the atomic pool: a   *)
(* run is taken at the last marking step, given back at the first step of    *)
(* the free, and every other step leaves the pool as it is.                  *)
THEOREM ImplementsPool == Spec => AtomicPool
<1>1. Init => P!Init
  BY DEF Init, P!Init
<1>2. ASSUME IInv, IInv', [Next]_vars PROVE [P!Next]_held
  <2>1. ASSUME NEW c \in Ctx, HandOut(c) PROVE P!Next
    <3> DEFINE new == NewAlloc(c)
    <3>1. held' = held \cup {new} /\ new \in Alloc
      BY <1>2, <2>1, HandOutFacts
    <3>2. CASE new \in held
      <4>1. InHand(c) \cup {offset[c] + i[c]} \subseteq Span(new) /\ offset[c] + i[c] \in Span(new)
        BY <1>2, <2>1, <3>2, MarkFacts DEF HandOut, NewAlloc, Span, Run, InHand
      <4>2. offset[c] + i[c] \in Owned(c)
        BY <1>2, <3>2, <4>1, SpanOwned DEF Owned, NewAlloc
      <4>3. offset[c] + i[c] \notin Owned(c)
        BY <1>2, <2>1, MarkFacts, FoundFree DEF HandOut, Ctx
      <4> QED
        BY <4>2, <4>3
    <3>3. CASE new \notin held
      <4>1. Span(new) \subseteq Blocks
        BY <1>2, <3>1 DEF IInv
      <4>2. \A g \in held : Apart(g, new)
        BY <1>2, <3>1, <3>3 DEF IInv, NoOverlap, Apart, Span, Run
      <4>3. P!Take(new)
        BY <3>1, <4>1, <4>2 DEF P!Take, P!Span, P!Blocks, P!Apart, Span, Run, Blocks, Apart
      <4> QED
        BY <3>1, <4>3 DEF P!Next, P!Alloc, P!Blocks, Alloc, Blocks
    <3> QED
      BY <3>2, <3>3
  <2>2. ASSUME NEW c \in Ctx, NEW h \in held, StartFree(c, h) PROVE P!Next
    BY <2>2 DEF StartFree, P!Next, P!Give
  <2>3. ASSUME NEW c \in Ctx, Step(c) PROVE P!Next \/ held' = held
    <3>1. CASE FreeOld(c)
      <4>1. old[c] \in held
        BY <1>2, <3>1 DEF IInv, ContextInv, LocalInv, FreeOld
      <4> QED
        BY <3>1, <4>1, <2>2 DEF FreeOld
    <3>2. CASE \E h \in held : Free(c, h)
      BY <3>2, <2>2 DEF Free
    <3>3. CASE HandOut(c)
      BY <3>3, <2>1
    <3> QED
      BY <2>3, <3>1, <3>2, <3>3 DEF Step, Malloc, Realloc, StartSearch, RunFound, SearchOn,
         NoRoom, MarkOn, ClearOn, ClearLast, ClearBlock
  <2> QED
    BY <1>2, <2>3 DEF Next, MemInit, IsrEnter, IsrReturn, vars
<1> QED
  BY <1>1, <1>2, InductiveInvariant, PTL DEF Spec, AtomicPool, P!Spec

(* ---- a search that fails -------------------------------------------------- *)

(* What the map shows free to the context that runs is what is free for it. *)
LEMMA FreeIsVacant ==
  ASSUME IInv, memrdy, NEW c \in Ctx, Runs(c), NEW b \in Blocks
  PROVE  memmap[b] = 0 <=> b \in Vacant(c)
<1>1. CASE c = "isr"
  BY <1>1, FreeBlock DEF Vacant
<1>2. CASE c = "main"
  <2>1. ~isrOn
    BY <1>2 DEF Runs
  <2>2. Owned("isr") = {}
    BY <2>1 DEF IInv, Owned, InHand
  <2> QED
    BY <1>2, <2>2, FreeBlock DEF Vacant
<1> QED
  BY <1>1, <1>2 DEF Ctx

(* A step of one context leaves the locals and the allocations of the other *)
(* alone.                                                                   *)
LEMMA StepWaits ==
  ASSUME IInv, NEW c \in Ctx, Step(c), NEW d \in Ctx, d # c
  PROVE  Waits(d) /\ HeldBy(d)' = HeldBy(d)
<1>0. TypeOK
  BY DEF IInv
<1>1. ASSUME NEW h, StartFree(c, h), h.ctx = c PROVE Waits(d) /\ HeldBy(d)' = HeldBy(d)
  BY <1>0, <1>1 DEF TypeOK, StartFree, Waits, HeldBy
<1>2. ASSUME NEW size, NEW h, StartSearch(c, size, h) PROVE Waits(d) /\ HeldBy(d)' = HeldBy(d)
  BY <1>0, <1>2 DEF TypeOK, StartSearch, Waits, HeldBy
<1>3. ASSUME RunFound(c) \/ SearchOn(c) \/ MarkOn(c) \/ ClearOn(c)
      PROVE  Waits(d) /\ HeldBy(d)' = HeldBy(d)
  BY <1>0, <1>3 DEF TypeOK, RunFound, SearchOn, MarkOn, ClearOn, MarkBlock, ClearBlock, Waits, HeldBy
<1>4. ASSUME NoRoom(c) \/ ClearLast(c) PROVE Waits(d) /\ HeldBy(d)' = HeldBy(d)
  BY <1>0, <1>4 DEF TypeOK, NoRoom, ClearLast, ClearBlock, Return, Waits, HeldBy
<1>5. ASSUME HandOut(c) PROVE Waits(d) /\ HeldBy(d)' = HeldBy(d)
  <2>1. Waits(d)
    BY <1>0, <1>5 DEF TypeOK, HandOut, Return, Waits
  <2>2. HeldBy(d)' = HeldBy(d)
    BY <1>5 DEF HandOut, NewAlloc, HeldBy
  <2> QED
    BY <2>1, <2>2
<1>6. CASE FreeOld(c)
  <2>1. StartFree(c, old[c]) /\ old[c].ctx = c
    BY <1>6 DEF FreeOld, IInv, ContextInv, LocalInv
  <2> QED
    BY <2>1, <1>1
<1> QED
  BY <1>1, <1>2, <1>3, <1>4, <1>5, <1>6 DEF Step, Malloc, Realloc, Free

(* Looking at one more block keeps what the search has passed: a block in   *)
(* use is in the way of every run that would reach over it.                 *)
LEMMA SearchOnPasses ==
  ASSUME IInv, NEW c \in Ctx, SearchOn(c), Passed(c)
  PROVE  Passed(c)'
<1>1. /\ pc[c] = "scan" /\ Runs(c) /\ memrdy /\ cmemb[c] \in Nat /\ nmemb[c] \in Nat
      /\ cmemb[c] < nmemb[c] /\ offset[c] \in Blocks /\ offset[c] > 0 /\ NBlocks \in Nat
  BY BusyPool, CountsNat, MallocAssumption
     DEF IInv, ContextInv, LocalInv, TypeOK, SearchOn, Searching
<1>2. /\ UNCHANGED <<pc, nmemb>> /\ offset'[c] = offset[c] - 1 /\ cmemb'[c] = Seen(c)
      /\ \A d \in Ctx : Owned(d)' = Owned(d)
  <2>1. /\ UNCHANGED <<memrdy, memmap, isrOn, pc, nmemb, i, old, held>>
        /\ offset'[c] = offset[c] - 1 /\ cmemb'[c] = Seen(c)
    BY DEF SearchOn, IInv, TypeOK
  <2>2. ASSUME NEW d \in Ctx PROVE Owned(d)' = Owned(d)
    <3>1. HeldBy(d)' = HeldBy(d)
      BY <2>1 DEF HeldBy
    <3>2. CASE d = c
      BY <3>1, <3>2, <1>1, <2>1 DEF InHand, Owned
    <3>3. CASE d # c
      BY <3>1, <3>3, WaitsKeeps DEF IInv, TypeOK, SearchOn, Waits, Owned
    <3> QED
      BY <3>2, <3>3
  <2> QED
    BY <2>1, <2>2
<1>3. Vacant(c)' = Vacant(c)
  BY <1>2 DEF Vacant, Ctx
<1>4. offset[c] \in Nat
  BY <1>1 DEF Blocks
<1>5. CASE memmap[offset[c]] = 0
  <2>1. offset'[c] + cmemb'[c] = offset[c] + cmemb[c]
    BY <1>1, <1>2, <1>4, <1>5 DEF Seen
  <2> QED
    BY <1>1, <1>2, <1>3, <2>1 DEF Passed
<1>6. CASE memmap[offset[c]] # 0
  <2>1. offset'[c] + cmemb'[c] + 1 = offset[c] /\ offset'[c] + cmemb'[c] = offset[c] - 1
    BY <1>1, <1>2, <1>4, <1>6 DEF Seen
  <2>2. offset[c] \notin Vacant(c)
    BY <1>1, <1>6, FreeIsVacant
  <2>3. ASSUME NEW b \in Blocks, b > offset[c] - 1, Run(b, nmemb[c]) \subseteq Vacant(c)
        PROVE  FALSE
    <3>1. b \in Nat
      BY <1>1 DEF Blocks
    <3>2. CASE b = offset[c]
      <4>1. b \in Run(b, nmemb[c])
        BY <1>1, <3>1 DEF Run
      <4> QED
        BY <2>2, <2>3, <3>2, <4>1
    <3>3. CASE b > offset[c] /\ b <= offset[c] + cmemb[c]
      <4>1. offset[c] + cmemb[c] + 1 \in Run(b, nmemb[c])
        BY <1>1, <1>4, <3>1, <3>3 DEF Run
      <4> QED
        BY <1>1, <2>3, <4>1 DEF Passed
    <3>4. CASE b > offset[c] + cmemb[c]
      BY <1>1, <2>3, <3>4 DEF Passed
    <3> QED
      BY <1>1, <1>4, <2>3, <3>1, <3>2, <3>3, <3>4
  <2> QED
    BY <1>1, <1>2, <1>3, <2>1, <2>2, <2>3 DEF Passed
<1> QED
  BY <1>5, <1>6

(* A search that begins has passed nothing: it stands at the map's end.     *)
LEMMA StartSearchPasses ==
  ASSUME IInv, NEW c \in Ctx, NEW size, NEW h, StartSearch(c, size, h)
  PROVE  Passed(c)'
<1>1. offset'[c] = NBlocks - 1 /\ cmemb'[c] = 0 /\ NBlocks \in Nat
  BY MallocAssumption DEF StartSearch, IInv, TypeOK, ContextInv, LocalInv
<1>2. NBlocks \notin Blocks /\ \A b \in Blocks : ~(b > NBlocks - 1)
  BY <1>1 DEF Blocks
<1>3. offset'[c] + cmemb'[c] = NBlocks - 1 /\ offset'[c] + cmemb'[c] + 1 = NBlocks
  BY <1>1
<1>4. NBlocks \notin Vacant(c)'
  BY <1>2 DEF Vacant
<1> QED
  BY <1>2, <1>3, <1>4 DEF Passed

(* Every step keeps what each search has passed.  The main loop stands      *)
(* still under the handler, and the handler never gives back what is the    *)
(* main loop's: a run that was not there does not appear.                   *)
LEMMA PassedInv == IInv /\ SearchInv /\ [Next]_vars => SearchInv'
<1> SUFFICES ASSUME IInv, SearchInv, [Next]_vars, NEW c \in Ctx PROVE Passed(c)'
  BY DEF SearchInv
<1>1. Passed(c)
  BY DEF SearchInv
<1>2. CASE UNCHANGED <<pc, offset, cmemb, nmemb, i, held>>
  BY <1>1, <1>2 DEF Passed, Vacant, Owned, InHand, HeldBy
<1>3. CASE Step(c)
  <2>1. CASE SearchOn(c)
    BY <1>1, <2>1, SearchOnPasses
  <2>2. CASE \E size \in Sizes : Malloc(c, size) \/ \E h \in held : Realloc(c, size, h)
    BY <2>2, StartSearchPasses DEF Malloc, Realloc
  <2>3. CASE RunFound(c) \/ NoRoom(c) \/ ClearLast(c) \/ HandOut(c)
    <3>1. pc'[c] # "scan"
      BY <2>3 DEF IInv, TypeOK, RunFound, NoRoom, ClearLast, HandOut, Return
    <3> QED
      BY <3>1 DEF Passed
  <2>4. CASE MarkOn(c) \/ ClearOn(c)
    <3>1. pc'[c] # "scan"
      BY <2>4 DEF MarkOn, ClearOn, MarkBlock, ClearBlock
    <3> QED
      BY <3>1 DEF Passed
  <2>5. CASE FreeOld(c) \/ \E h \in held : Free(c, h)
    <3>1. pc'[c] # "scan"
      BY <2>5 DEF IInv, TypeOK, FreeOld, Free, StartFree
    <3> QED
      BY <3>1 DEF Passed
  <2> QED
    BY <1>3, <2>1, <2>2, <2>3, <2>4, <2>5 DEF Step
<1>4. ASSUME NEW d \in Ctx, d # c, Step(d) PROVE Passed(c)'
  <2>1. Waits(c) /\ HeldBy(c)' = HeldBy(c)
    BY <1>4, StepWaits
  <2>2. Runs(d)
    BY <1>4 DEF Step, Malloc, Realloc, Free, FreeOld, StartSearch, StartFree, RunFound, SearchOn,
       NoRoom, MarkOn, HandOut, ClearOn, ClearLast, Searching, MarkBlock, ClearBlock
  <2>3. CASE c = "isr"
    <3>1. pc[c] = "idle"
      BY <1>4, <2>2, <2>3 DEF Runs, IInv, Ctx
    <3> QED
      BY <2>1, <3>1 DEF Waits, Passed
  <2>4. CASE c = "main"
    <3>1. Owned(c)' = Owned(c)
      BY <2>1, WaitsKeeps DEF Owned
    <3>2. Vacant(c)' = Vacant(c)
      BY <2>4, <3>1 DEF Vacant
    <3> QED
      BY <1>1, <2>1, <3>2 DEF Passed, Waits
  <2> QED
    BY <2>3, <2>4 DEF Ctx
<1>5. CASE MemInit
  <2>1. pc'[c] = "idle"
    BY <1>5 DEF MemInit, IInv
  <2> QED
    BY <2>1 DEF Passed
<1> QED
  BY <1>2, <1>3, <1>4, <1>5 DEF Next, IsrEnter, IsrReturn, vars

(* mymalloc returns NULL only when no run of free blocks is long enough.    *)
(* The invariant of the allocator does not say that: it knows what a search *)
(* has found, and SearchInv what it has passed over.                        *)
THEOREM FailsForWantOfRoom == Spec => FailsOnlyWhenFull
<1>1. Init => SearchInv
  BY DEF Init, SearchInv, Passed
<1>2. ASSUME IInv, SearchInv, [Next]_vars, NEW c \in Ctx, pc[c] = "scan", pc'[c] = "idle",
             NEW b \in Blocks, Run(b, nmemb[c]) \subseteq Blocks,
             \A x \in Run(b, nmemb[c]) : memmap[x] = 0
      PROVE  FALSE
  <2>1. NoRoom(c)
    <3>1. pc' # pc
      BY <1>2
    <3>2. ASSUME NEW d \in Ctx, Step(d) PROVE d = c
      BY <1>2, <3>2, StepWaits DEF Waits
    <3>3. Step(c)
      BY <1>2, <3>1, <3>2 DEF Next, MemInit, IsrEnter, IsrReturn, vars
    <3>4. CASE \E size \in Sizes : Malloc(c, size) \/ \E h \in held : Realloc(c, size, h)
      BY <1>2, <3>4 DEF Malloc, Realloc, StartSearch
    <3>5. CASE RunFound(c) \/ SearchOn(c)
      BY <1>2, <3>5 DEF IInv, TypeOK, RunFound, SearchOn
    <3> QED
      BY <1>2, <3>3, <3>4, <3>5 DEF Step, MarkOn, HandOut, MarkBlock, ClearOn, ClearLast,
         ClearBlock, Free, FreeOld
  <2>2. /\ Runs(c) /\ memrdy /\ offset[c] = 0 /\ Seen(c) # nmemb[c] /\ NBlocks \in Nat
        /\ cmemb[c] \in Nat /\ nmemb[c] \in Nat /\ cmemb[c] < nmemb[c] /\ 0 \in Blocks
    BY <1>2, <2>1, BusyPool, MallocAssumption
       DEF IInv, ContextInv, LocalInv, TypeOK, NoRoom, Searching, Blocks
  <2>3. Run(b, nmemb[c]) \subseteq Vacant(c)
    BY <1>2, <2>2, FreeIsVacant
  <2>4. b \in Nat /\ b <= cmemb[c] /\ cmemb[c] + 1 \notin Vacant(c)
    <3>1. Passed(c) /\ b \in Nat
      BY <1>2 DEF SearchInv, Blocks
    <3> QED
      BY <1>2, <2>2, <2>3, <3>1 DEF Passed
  <2>5. CASE b + nmemb[c] > cmemb[c] + 1
    <3>1. cmemb[c] + 1 \in Run(b, nmemb[c])
      BY <2>2, <2>4, <2>5 DEF Run
    <3> QED
      BY <2>3, <2>4, <3>1
  <2>6. CASE b + nmemb[c] <= cmemb[c] + 1
    <3>1. b = 0 /\ nmemb[c] = cmemb[c] + 1
      BY <2>2, <2>4, <2>6
    <3>2. 0 \in Run(b, nmemb[c])
      BY <2>2, <3>1 DEF Run
    <3>3. memmap[0] = 0
      BY <1>2, <3>2
    <3> QED
      BY <2>2, <3>1, <3>3 DEF Seen
  <2> QED
    BY <2>2, <2>4, <2>5, <2>6
<1>3. IInv /\ SearchInv /\ [Next]_vars =>
        [\A c \in Ctx : pc[c] = "scan" /\ pc'[c] = "idle" =>
           ~\E b \in Blocks : /\ Run(b, nmemb[c]) \subseteq Blocks
                              /\ \A x \in Run(b, nmemb[c]) : memmap[x] = 0]_vars
  BY <1>2
<1> QED
  BY <1>1, <1>3, PassedInv, InductiveInvariant, PTL DEF Spec, FailsOnlyWhenFull
=============================================================================
