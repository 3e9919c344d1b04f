----------------------------- MODULE BoardProofs -----------------------------
(***************************************************************************)
(* The boot and the pool, for every size of the pool, of the buffers and   *)
(* of the frames that satisfies BoardAssumption.                           *)
(* The argument: every buffer is given back before the one taken before    *)
(* it, by each context and by the handler before main goes on.  So the     *)
(* live buffers are stacked from the last block down (Stack), a request is *)
(* always answered with the run right under the lowest (TopRun), and the   *)
(* sum of the sizes decides whether there is one (LoadFits).               *)
(***************************************************************************)
EXTENDS Board, TLAPS

(* The fields of a buffer are what it was made of. *)
LEMMA BufferFields ==
  ASSUME NEW c, NEW u, NEW b, NEW n
  PROVE  /\ Buffer(c, u, b, n).ctx = c /\ Buffer(c, u, b, n).use = u
         /\ Buffer(c, u, b, n).base = b /\ Buffer(c, u, b, n).n = n
         /\ Buffer(c, u, b, n) # Null
BY DEF Buffer, Null

(* The sizes are positive numbers, and the loads fit. *)
LEMMA Numbers ==
  /\ NBlocks \in Nat
  /\ \A u \in Uses : Size[u] \in Nat /\ Size[u] > 0
  /\ \A f \in Frames : f \in Nat /\ f > 0
  /\ LwipLow \in Nat
  /\ LwipLow < Size["memp"]
  /\ \A f \in Frames \cup {0}, t \in Frames \cup {Size["rx"], 0} :
       Size["tbuf"] + Size["reply"] + f + t <= LwipLow
  /\ \A t \in Frames \cup {Size["rx"], 0} : Size["remote"] + t <= LwipLow
<1>1. /\ NBlocks \in Nat
      /\ \A u \in Uses : Size[u] \in Nat /\ Size[u] > 0
      /\ \A f \in Frames : f \in Nat /\ f > 0
  BY BoardAssumption
<1>2. PICK g \in Frames : TRUE
  BY BoardAssumption
<1>3. /\ \A f \in Frames, t \in Frames \cup {Size["rx"]} :
           Size["memp"] + Size["heap"] + Size["tbuf"] + Size["reply"] + f + t <= NBlocks
      /\ \A t \in Frames \cup {Size["rx"]} :
           Size["memp"] + Size["heap"] + Size["remote"] + t <= NBlocks
      /\ NBlocks < Size["memp"] + Size["heap"] + Size["memp"]
  BY BoardAssumption DEF Fits
<1>4. \A u \in {"memp", "heap", "remote", "tbuf", "reply", "rx"} : u \in Uses
  BY DEF Uses
<1>5. LwipLow \in Nat /\ LwipLow < Size["memp"]
  BY <1>1, <1>2, <1>3, <1>4 DEF LwipLow
<1>6. ASSUME NEW f \in Frames \cup {0}, NEW t \in Frames \cup {Size["rx"], 0}
      PROVE  Size["tbuf"] + Size["reply"] + f + t <= LwipLow
  <2>1. PICK f1 \in Frames : f <= f1
    BY <1>1, <1>2
  <2>2. PICK t1 \in Frames \cup {Size["rx"]} : t <= t1 /\ t1 \in Nat
    BY <1>1, <1>2, <1>4
  <2>3. Size["memp"] + Size["heap"] + Size["tbuf"] + Size["reply"] + f1 + t1 <= NBlocks
    BY <1>3, <2>1, <2>2
  <2> QED
    BY <1>1, <1>4, <2>1, <2>2, <2>3 DEF LwipLow
<1>7. ASSUME NEW t \in Frames \cup {Size["rx"], 0}
      PROVE  Size["remote"] + t <= LwipLow
  <2>1. PICK t1 \in Frames \cup {Size["rx"]} : t <= t1 /\ t1 \in Nat
    BY <1>1, <1>2, <1>4
  <2> QED
    BY <1>1, <1>3, <1>4, <2>1 DEF LwipLow
<1> QED
  BY <1>1, <1>5, <1>6, <1>7

(* ---- stacks of buffers ------------------------------------------------ *)

(* The buffers of S fill the pool from block L to the last one, each         *)
(* starting where another one ends.                                          *)
Stack(S, L) ==
  /\ L \in 0 .. NBlocks
  /\ \A h \in S : /\ h.base \in Int /\ h.n \in Nat \ {0}
                  /\ L <= h.base /\ h.base + h.n <= NBlocks
  /\ \A x \in L .. NBlocks - 1 : \E h \in S : h.base <= x /\ x < h.base + h.n
  /\ \A h \in S : h.base + h.n = NBlocks \/ \E g \in S : g.base = h.base + h.n
  /\ L = NBlocks \/ \E g \in S : g.base = L
  /\ \A g, h \in S : g.base = h.base => g = h

(* The empty pool is a stack. *)
LEMMA StackEmpty == Stack({}, NBlocks)
BY Numbers DEF Stack

(* A buffer right under a stack makes a larger stack. *)
LEMMA StackPush ==
  ASSUME NEW S, NEW L, Stack(S, L), NEW c, NEW u, NEW n \in Nat, n <= L
  PROVE  Stack(S \cup Under(L, c, u, n), L - n)
<1>1. CASE n = 0
  <2>1. Under(L, c, u, n) = {} /\ L - n = L
    BY <1>1 DEF Under, Stack
  <2>2. S \cup {} = S
    OBVIOUS
  <2> QED
    BY <2>1, <2>2
<1>2. CASE n # 0
  <2> DEFINE new == Buffer(c, u, L - n, n)
             T   == S \cup {new}
  <2>1. /\ Under(L, c, u, n) = {new}
        /\ new.base = L - n /\ new.n = n
    BY <1>2, BufferFields DEF Under
  <2>2. L \in Nat /\ L <= NBlocks /\ NBlocks \in Nat
    BY Numbers DEF Stack
  <2> HIDE DEF new
  <2>3. \A h \in T : /\ h.base \in Int /\ h.n \in Nat \ {0}
                     /\ L - n <= h.base /\ h.base + h.n <= NBlocks
    BY <1>2, <2>1, <2>2 DEF Stack
  <2>4. ASSUME NEW x \in L - n .. NBlocks - 1
        PROVE  \E h \in T : h.base <= x /\ x < h.base + h.n
    <3>1. CASE x < L
      BY <1>2, <2>1, <2>2, <3>1
    <3>2. CASE x >= L
      BY <2>2, <3>2 DEF Stack
    <3> QED
      BY <2>2, <3>1, <3>2
  <2>5. \A h \in T : h.base + h.n = NBlocks \/ \E g \in T : g.base = h.base + h.n
    BY <2>1, <2>2 DEF Stack
  <2>6. \A g, h \in T : g.base = h.base => g = h
    BY <1>2, <2>1, <2>2 DEF Stack
  <2> QED
    BY <1>2, <2>1, <2>2, <2>3, <2>4, <2>5, <2>6 DEF Stack
<1> QED
  BY <1>1, <1>2

(* On a stack mymalloc answers with the run right under it, and with NULL    *)
(* exactly when the blocks under it are too few.                             *)
LEMMA TopRun ==
  ASSUME NEW L, Stack(held, L), NEW n \in Nat \ {0}
  PROVE  /\ n <= L => L - n \in Room(n) /\ Room(n) # {}
         /\ n > L  => Room(n) = {}
         /\ \A b \in Room(n) : Highest(b, n) => b = L - n
<1>1. L \in Nat /\ L <= NBlocks /\ NBlocks \in Nat
  BY Numbers DEF Stack
<1>2. ASSUME NEW b \in Room(n) PROVE b + n <= L
  <2>1. b \in Nat /\ b + n <= NBlocks
    BY <1>1 DEF Room
  <2>2. ASSUME b + n > L PROVE FALSE
    <3> DEFINE x == IF b >= L THEN b ELSE L
    <3>1. x \in L .. NBlocks - 1 /\ b <= x /\ x < b + n
      BY <1>1, <2>1, <2>2
    <3>2. PICK h \in held : h.base <= x /\ x < h.base + h.n
      BY <3>1 DEF Stack
    <3>3. b + n <= h.base \/ h.base + h.n <= b
      BY DEF Room, FreeAt
    <3> QED
      BY <1>1, <2>1, <3>1, <3>2, <3>3 DEF Stack
  <2> QED
    BY <1>1, <2>1, <2>2
<1>3. n <= L => L - n \in Room(n)
  BY <1>1 DEF Room, FreeAt, Stack
<1>4. n > L => Room(n) = {}
  <2>1. \A b \in Room(n) : b \in Nat
    BY <1>1 DEF Room
  <2> QED
    BY <1>1, <1>2, <2>1
<1>5. ASSUME NEW b \in Room(n), Highest(b, n) PROVE b = L - n
  <2>1. b \in Nat
    BY <1>1 DEF Room
  <2>2. n <= L
    BY <1>1, <1>2, <2>1
  <2>3. L - n <= b
    BY <1>3, <1>5, <2>2 DEF Highest
  <2> QED
    BY <1>1, <1>2, <2>1, <2>3
<1> QED
  BY <1>3, <1>4, <1>5

(* Giving back one of the buffers leaves the others. *)
LEMMA GiveBack ==
  ASSUME NEW c, NEW u, NEW S, NEW x, held = S \cup {x}, x.ctx = c /\ x.use = u,
         \A h \in S : ~(h.ctx = c /\ h.use = u)
  PROVE  {h \in held : ~(h.ctx = c /\ h.use = u)} = S
OBVIOUS

(* A request that fits under the stack is granted right under it. *)
LEMMA AskGrants ==
  ASSUME NEW L, Stack(held, L), NEW n \in Nat \ {0}, n <= L, NEW c, NEW u,
         Ask(c, u, n)
  PROVE  held' = held \cup Under(L, c, u, n) /\ starved' = starved /\ Room(n) # {}
BY TopRun DEF Ask, Under

(* ---- the layout of the running board ---------------------------------- *)

(* What is above the frames is main's, and no frame. *)
LEMMA DeskIsMains ==
  \A h \in Lwip \cup Desk : h.ctx = "main" /\ h.use # "tx"
BY BufferFields DEF Lwip, Desk, MempArea, HeapArea, Under

(* Whatever main holds and sends, any one buffer of the handler fits too. *)
LEMMA LoadFits ==
  ASSUME NEW m \in MainBlocks, NEW t \in Frames \cup {Size["rx"], 0}
  PROVE  m \in Nat /\ t \in Nat /\ DeskLow \in Nat /\ t <= DeskLow - m
<1> USE Numbers
<1>1. /\ Size["remote"] \in Nat /\ Size["tbuf"] \in Nat
      /\ Size["reply"] \in Nat /\ Size["rx"] \in Nat
  BY DEF Uses
<1>2. m \in Frames \cup {0}
  BY DEF MainBlocks
<1>3. m \in Nat /\ t \in Nat
  BY <1>1, <1>2
<1>4. CASE pc = "remote"
  <2>1. m = 0
    BY <1>4 DEF MainBlocks, Sending
  <2> QED
    BY <1>1, <1>3, <1>4, <2>1 DEF DeskLow, RemoteN, TbufN, ReplyN
<1>5. CASE pc # "remote"
  <2>1. Size["tbuf"] + Size["reply"] + m + t <= LwipLow
    BY <1>2
  <2> QED
    BY <1>1, <1>3, <1>5, <2>1 DEF DeskLow, RemoteN, TbufN, ReplyN
<1> QED
  BY <1>4, <1>5

(* lwIP's two areas are a stack. *)
LEMMA LwipStack == Stack(Lwip, LwipLow)
<1> USE Numbers
<1>1. Size["memp"] \in Nat \ {0} /\ Size["heap"] \in Nat \ {0}
  BY DEF Uses
<1>2. Size["memp"] <= NBlocks /\ Size["heap"] <= NBlocks - Size["memp"]
  BY <1>1 DEF LwipLow
<1>3. Stack({} \cup Under(NBlocks, "main", "memp", Size["memp"]), NBlocks - Size["memp"])
  BY <1>1, <1>2, StackEmpty, StackPush
<1>4. /\ {} \cup Under(NBlocks, "main", "memp", Size["memp"]) = {MempArea}
      /\ {MempArea} \cup Under(NBlocks - Size["memp"], "main", "heap", Size["heap"]) = Lwip
  BY <1>1 DEF Under, Lwip, MempArea, HeapArea, LwipLow
<1>5. Stack({MempArea}, NBlocks - Size["memp"])
  BY <1>3, <1>4
<1>6. Stack({MempArea} \cup Under(NBlocks - Size["memp"], "main", "heap", Size["heap"]),
            (NBlocks - Size["memp"]) - Size["heap"])
  BY <1>1, <1>2, <1>5, StackPush
<1> QED
  BY <1>4, <1>6 DEF LwipLow

(* The live buffers are a stack. *)
LEMMA LayoutStack ==
  ASSUME NEW m \in MainBlocks, NEW k \in IsrBlocks, Layout(m, k),
         isr \in {"off", "rx", "input"}
  PROVE  Stack(held, DeskLow - m - k) /\ k \in Nat
<1> USE Numbers
<1>1. k \in Frames \cup {Size["rx"], 0}
  BY DEF IsrBlocks
<1>2. m \in Nat /\ k \in Nat /\ DeskLow \in Nat /\ m <= DeskLow /\ k <= DeskLow - m
  <2>1. 0 \in Frames \cup {Size["rx"], 0}
    OBVIOUS
  <2> QED
    BY <1>1, <2>1, LoadFits
<1>3. RemoteN \in Nat /\ TbufN \in Nat /\ ReplyN \in Nat
  BY DEF RemoteN, TbufN, ReplyN, Uses
<1>4. DeskLow = ((LwipLow - RemoteN) - TbufN) - ReplyN
  BY DEF DeskLow
<1> DEFINE S1 == Lwip \cup Under(LwipLow, "main", "remote", RemoteN)
           S2 == S1 \cup Under(LwipLow - RemoteN, "main", "tbuf", TbufN)
           S3 == S2 \cup Under((LwipLow - RemoteN) - TbufN, "main", "reply", ReplyN)
           S4 == S3 \cup Under(DeskLow, "main", "tx", m)
           S5 == S4 \cup Under(DeskLow - m, "isr", IsrUse, k)
<1>5. Stack(S1, LwipLow - RemoteN)
  <2>1. RemoteN <= LwipLow
    BY <1>2, <1>3, <1>4
  <2> QED
    BY <1>3, <2>1, LwipStack, StackPush
<1>6. Stack(S2, (LwipLow - RemoteN) - TbufN)
  <2>1. TbufN <= LwipLow - RemoteN
    BY <1>2, <1>3, <1>4
  <2> HIDE DEF S1
  <2> QED
    BY <1>3, <1>5, <2>1, StackPush
<1>7. Stack(S3, DeskLow)
  <2>1. ReplyN <= (LwipLow - RemoteN) - TbufN
    BY <1>2, <1>3, <1>4
  <2> HIDE DEF S2
  <2>2. Stack(S3, ((LwipLow - RemoteN) - TbufN) - ReplyN)
    BY <1>3, <1>6, <2>1, StackPush
  <2> QED
    BY <1>4, <2>2
<1>8. Stack(S4, DeskLow - m)
  <2> HIDE DEF S3
  <2> QED
    BY <1>2, <1>7, StackPush
<1>9. Stack(S5, (DeskLow - m) - k)
  <2> HIDE DEF S4
  <2> QED
    BY <1>2, <1>8, StackPush
<1>10. S3 = Lwip \cup Desk
  <2>1. LwipLow - RemoteN = LwipLow \/ (TbufN = 0 /\ ReplyN = 0)
    BY <1>3 DEF RemoteN, TbufN, ReplyN
  <2>2. CASE LwipLow - RemoteN = LwipLow
    BY <2>2 DEF Desk
  <2>3. CASE TbufN = 0 /\ ReplyN = 0
    BY <2>3 DEF Desk, Under
  <2> QED
    BY <2>1, <2>2, <2>3
<1>11. S5 = held
  <2> HIDE DEF S3
  <2> QED
    BY <1>10 DEF Layout
<1> QED
  BY <1>2, <1>9, <1>11

(* ---- the boot --------------------------------------------------------- *)

(* A second memp_memory never fits, whatever else is leaked. *)
LEMMA NoSecondMemp == ASSUME held = Lwip PROVE Room(Size["memp"]) = {}
BY Numbers, LwipStack, TopRun DEF Uses

(* Every step of the boot before the chip answers keeps the invariant. *)
LEMMA MempMallocInv == ASSUME IInv, MempMalloc PROVE IInv'
<1>1. /\ pc = "memp" /\ pc' = "heap" /\ BootInv
      /\ Answer("memp", memp_memory')
      /\ held' = held \cup ({memp_memory'} \ {Null})
      /\ UNCHANGED <<isr, live, stack, ram_heap, starved, chipFailed, fault>>
  BY DEF MempMalloc, IInv, Booting
<1>2. Size["memp"] \in Nat \ {0}
  BY Numbers DEF Uses
<1>3. CASE chipFailed
  <2>1. held = Lwip /\ memp_memory' = Null
    BY <1>1, <1>3, NoSecondMemp DEF BootInv, Answer
  <2>2. held' = Lwip
    BY <1>1, <2>1
  <2> QED
    BY <1>1, <1>3, <2>1, <2>2 DEF IInv, BootInv, Booting
<1>4. CASE ~chipFailed
  <2>1. Stack(held, NBlocks)
    BY <1>1, <1>4, StackEmpty DEF BootInv
  <2>2. Size["memp"] <= NBlocks
    BY <1>2, Numbers DEF LwipLow, Uses
  <2>3. memp_memory' = MempArea
    BY <1>1, <1>2, <2>1, <2>2, TopRun DEF Answer, MempArea
  <2>4. held' = {MempArea}
    BY <1>1, <1>4, <2>3, BufferFields DEF BootInv, MempArea
  <2> QED
    BY <1>1, <1>4, <2>3, <2>4 DEF IInv, BootInv, Booting
<1> QED
  BY <1>3, <1>4

(* ram_heap = mymalloc(MEM_SIZE): in a first round right under memp_memory,  *)
(* in a later one under both, with memp_memory NULL.                         *)
LEMMA HeapMallocInv == ASSUME IInv, HeapMalloc PROVE IInv'
<1>1. /\ pc = "heap" /\ BootInv
      /\ pc' = IF Null \in {memp_memory, ram_heap'} THEN "release" ELSE "chip"
      /\ Answer("heap", ram_heap')
      /\ held' = held \cup ({ram_heap'} \ {Null})
      /\ UNCHANGED <<isr, live, stack, memp_memory, starved, chipFailed, fault>>
  BY DEF HeapMalloc, IInv, Booting
<1>2. Size["heap"] \in Nat \ {0}
  BY Numbers DEF Uses
<1>3. ASSUME NEW b PROVE Buffer("main", "heap", b, Size["heap"]).use \in {"null", "heap"}
  BY BufferFields
<1>4. Null.use \in {"null", "heap"}
  BY DEF Null
<1>5. CASE chipFailed
  <2>1. held = Lwip /\ memp_memory = Null /\ pc' = "release"
    BY <1>1, <1>5 DEF BootInv
  <2>2. ram_heap' = Null \/ (ram_heap' = SpareHeap /\ Size["heap"] <= LwipLow)
    BY <1>1, <1>2, <2>1, LwipStack, TopRun, Numbers DEF Answer, SpareHeap
  <2>3. \/ ram_heap' = Null /\ held' = Lwip
        \/ ram_heap' = SpareHeap /\ Size["heap"] <= LwipLow /\ held' = Lwip \cup {SpareHeap}
    BY <1>1, <2>1, <2>2, BufferFields DEF SpareHeap
  <2>4. ram_heap'.use \in {"null", "heap"}
    BY <1>3, <1>4, <2>2 DEF SpareHeap
  <2> QED
    BY <1>1, <1>5, <2>1, <2>3, <2>4 DEF IInv, BootInv, Booting
<1>6. CASE ~chipFailed
  <2>1. held = {MempArea} /\ memp_memory = MempArea
    BY <1>1, <1>6 DEF BootInv
  <2>2. Stack(held, NBlocks - Size["memp"])
    <3>1. Size["memp"] \in Nat /\ Size["memp"] <= NBlocks
      BY <1>2, Numbers DEF LwipLow, Uses
    <3>2. Stack({} \cup Under(NBlocks, "main", "memp", Size["memp"]), NBlocks - Size["memp"])
      BY <3>1, Numbers, StackEmpty, StackPush
    <3>3. Under(NBlocks, "main", "memp", Size["memp"]) = {MempArea}
      BY Numbers DEF Under, MempArea, Uses
    <3> QED
      BY <2>1, <3>2, <3>3
  <2>3. Size["heap"] <= NBlocks - Size["memp"]
    BY <1>2, Numbers DEF LwipLow, Uses
  <2>4. ram_heap' = HeapArea
    BY <1>1, <1>2, <2>2, <2>3, TopRun DEF Answer, HeapArea, LwipLow
  <2>5. held' = Lwip /\ pc' = "chip"
    BY <1>1, <2>1, <2>4, BufferFields DEF Lwip, MempArea, HeapArea
  <2>6. Layout(0, 0)'
    BY <2>5 DEF Layout, Desk, Under, RemoteN, TbufN, ReplyN
  <2>7. 0 \in MainBlocks' /\ 0 \in IsrBlocks'
    BY <2>5 DEF MainBlocks, IsrBlocks
  <2>8. RunInv'
    BY <1>1, <1>6, <2>1, <2>5, <2>6, <2>7 DEF RunInv, BootInv
  <2>9. ram_heap'.use \in {"null", "heap"}
    BY <1>3, <2>4 DEF HeapArea
  <2> QED
    BY <1>1, <1>6, <2>1, <2>5, <2>8, <2>9 DEF IInv, BootInv, Booting, Lwip
<1> QED
  BY <1>5, <1>6

(* lwip_comm_mem_free after a NULL gives back the spare heap at most; what   *)
(* the first round took stays.                                               *)
LEMMA ReleaseInv == ASSUME IInv, Release PROVE IInv'
<1>1. SpareHeap \notin Lwip /\ Null \notin Lwip
  BY BufferFields, Numbers DEF SpareHeap, Lwip, MempArea, HeapArea, Uses
<1>2. /\ pc = "release" /\ pc' = "wait" /\ BootInv
      /\ held' = held \ {memp_memory, ram_heap}
      /\ UNCHANGED <<isr, live, stack, memp_memory, ram_heap, starved, chipFailed, fault>>
  BY DEF Release, IInv, Booting
<1>3. held' = Lwip
  BY <1>1, <1>2 DEF BootInv
<1> QED
  BY <1>2, <1>3 DEF IInv, BootInv, Booting

(* ENC28J60_Init fails: both areas stay allocated. *)
LEMMA ChipFailsInv == ASSUME IInv, ChipFails PROVE IInv'
<1>1. /\ pc = "chip" /\ pc' = "wait" /\ chipFailed' /\ RunInv
      /\ UNCHANGED <<isr, live, stack, held, memp_memory, ram_heap, starved, fault>>
  BY DEF ChipFails, IInv, Booting
<1>2. held = Lwip
  BY <1>1 DEF RunInv, Layout, Desk, Under, RemoteN, TbufN, ReplyN, MainBlocks, IsrBlocks, Sending
<1>3. chipFailed' \in BOOLEAN
  BY Zenon DEF ChipFails
<1> QED
  BY <1>1, <1>2, <1>3 DEF IInv, BootInv, RunInv, Booting

(* main waits and calls lwip_comm_init again. *)
LEMMA RetryInv == ASSUME IInv, Retry PROVE IInv'
BY DEF IInv, Retry, BootInv, Booting

(* ---- the running board ------------------------------------------------ *)

(* What the layout says of what each context holds. *)
LEMMA HoldsFrame ==
  ASSUME NEW m \in Nat, NEW k \in Nat, Layout(m, k)
  PROVE  /\ Holds("main", "tx") <=> m # 0
         /\ \A u \in {"rx", "tx"} : Holds("isr", u) <=> k # 0 /\ u = IsrUse
<1>1. \A h \in Under(DeskLow, "main", "tx", m) :
         h.ctx = "main" /\ h.use = "tx"
  BY BufferFields DEF Under
<1>2. \A h \in Under(DeskLow - m, "isr", IsrUse, k) :
         h.ctx = "isr" /\ h.use = IsrUse
  BY BufferFields DEF Under
<1>3. Under(DeskLow, "main", "tx", m) # {} <=> m # 0
  BY DEF Under
<1>4. Under(DeskLow - m, "isr", IsrUse, k) # {} <=> k # 0
  BY DEF Under
<1> QED
  BY <1>1, <1>2, <1>3, <1>4, DeskIsMains DEF Holds, Layout

(* The running board, spelled out. *)
LEMMA Running ==
  ASSUME IInv, pc \notin Booting
  PROVE  \E m \in MainBlocks, k \in IsrBlocks :
           /\ Layout(m, k) /\ m \in Nat /\ k \in Nat
           /\ Stack(held, DeskLow - m - k) /\ DeskLow \in Nat
           /\ isr = "off" => k = 0
<1>1. PICK m \in MainBlocks, k \in IsrBlocks : Layout(m, k)
  BY DEF IInv, RunInv
<1>2. m \in Nat /\ DeskLow \in Nat
  BY LoadFits
<1>3. Stack(held, DeskLow - m - k) /\ k \in Nat
  BY <1>1, LayoutStack DEF IInv
<1>4. isr = "off" => k = 0
  BY DEF IsrBlocks
<1> QED
  BY <1>1, <1>2, <1>3, <1>4

(* Steps that move main or the handler and leave the pool alone. *)
LEMMA MoveInv ==
  ASSUME IInv,
         ChipStarts \/ LwipInit \/ NetifAdd \/ IsrEnter \/ CallNull \/ IsrReturn
  PROVE  IInv'
<1>1. held' = held /\ starved' = starved /\ memp_memory' = memp_memory
      /\ ram_heap' = ram_heap /\ chipFailed' = chipFailed
  BY DEF ChipStarts, LwipInit, NetifAdd, IsrEnter, CallNull, IsrReturn, netvars
<1>2. pc \notin Booting
  BY DEF ChipStarts, LwipInit, NetifAdd, IsrEnter, CallNull, IsrReturn, Booting, IInv, BootInv
<1>3. PICK m \in MainBlocks, k \in IsrBlocks : Layout(m, k) /\ m \in Nat /\ k \in Nat
                                             /\ (isr = "off" => k = 0)
  BY <1>2, Running
<1>4. RunInv
  BY <1>2 DEF IInv
<1>5. CASE ChipStarts \/ LwipInit \/ NetifAdd
  <2>1. /\ pc \in {"chip", "core", "add"} /\ pc' \in {"core", "add", "poll"} /\ isr' = isr
        /\ live' \in BOOLEAN
    BY <1>5 DEF ChipStarts, LwipInit, NetifAdd, IInv
  <2>2. Layout(m, k)'
    BY <1>1, <1>3, <2>1 DEF Layout, Desk, DeskLow, RemoteN, TbufN, ReplyN, IsrUse
  <2>3. m \in MainBlocks' /\ k \in IsrBlocks'
    BY <1>3, <2>1 DEF MainBlocks, IsrBlocks, Sending
  <2>4. RunInv' /\ fault' = fault /\ (fault => stack' = "pools")
    BY <1>1, <1>4, <1>5, <2>1, <2>2, <2>3
       DEF RunInv, ChipStarts, LwipInit, NetifAdd, IInv, MainRuns
  <2> QED
    BY <1>1, <1>2, <1>5, <2>1, <2>4 DEF IInv, Booting, ChipStarts, LwipInit, NetifAdd
<1>6. CASE IsrEnter \/ CallNull \/ IsrReturn
  <2>1. pc' = pc /\ isr' \in {"off", "rx", "input"} /\ stack' = stack /\ live' = live
    BY <1>6 DEF IsrEnter, CallNull, IsrReturn, netvars, IInv
  <2>2. isr' = isr \/ k = 0
    BY <1>3, <1>6, HoldsFrame DEF IsrEnter, CallNull, IsrReturn, MainRuns, IsrUse
  <2>3. Layout(m, k)'
    BY <1>1, <1>3, <2>1, <2>2 DEF Layout, Desk, DeskLow, RemoteN, TbufN, ReplyN, IsrUse, Under
  <2>4. m \in MainBlocks' /\ k \in IsrBlocks'
    BY <1>3, <2>1, <2>2 DEF MainBlocks, IsrBlocks
  <2>5. RunInv'
    BY <1>1, <1>4, <1>6, <2>1, <2>3, <2>4
       DEF RunInv, IsrEnter, CallNull, IsrReturn, MainRuns
  <2>6. fault' \in BOOLEAN
    BY <1>6, Zenon DEF IsrEnter, CallNull, IsrReturn, netvars, IInv
  <2>7. fault' => stack' = "pools"
    BY <1>4, <1>6, <2>1 DEF IsrEnter, CallNull, IsrReturn, netvars, IInv, RunInv
  <2> QED
    BY <1>1, <1>2, <2>1, <2>5, <2>6, <2>7 DEF IInv
<1> QED
  BY <1>5, <1>6

(* Steps of the handler that take or give back its buffer. *)
LEMMA HandlerInv ==
  ASSUME IInv, RxMalloc \/ RxRead \/ IsrSend \/ IsrSent PROVE IInv'
<1>1. /\ pc' = pc /\ live' = live /\ stack' = stack /\ memp_memory' = memp_memory
      /\ ram_heap' = ram_heap /\ chipFailed' = chipFailed /\ fault' = fault
  BY DEF RxMalloc, RxRead, IsrSend, IsrSent, netvars
<1>2. pc \notin Booting
  BY BufferFields, DeskIsMains
     DEF RxMalloc, RxRead, IsrSend, IsrSent, IInv, BootInv, Holds, Lwip, MempArea,
         SpareHeap, Booting
<1>3. PICK m \in MainBlocks, k \in IsrBlocks :
        /\ Layout(m, k) /\ m \in Nat /\ k \in Nat
        /\ Stack(held, DeskLow - m - k) /\ DeskLow \in Nat
        /\ isr = "off" => k = 0
  BY <1>2, Running
<1>4. RunInv
  BY <1>2 DEF IInv
<1>5. DeskLow - m - 0 = DeskLow - m
  BY <1>3
<1>6. MainBlocks' = MainBlocks /\ DeskLow' = DeskLow /\ Desk' = Desk
  BY <1>1 DEF MainBlocks, DeskLow, Desk, RemoteN, TbufN, ReplyN
<1> DEFINE S == Lwip \cup Desk \cup Under(DeskLow, "main", "tx", m)
<1>7. \A u : \A h \in S : ~(h.ctx = "isr" /\ h.use = u)
  BY BufferFields, DeskIsMains DEF Under
<1>8. ASSUME NEW j \in IsrBlocks', held' = S \cup Under(DeskLow - m, "isr", IsrUse', j),
             starved' = starved, isr' \in {"off", "rx", "input"}, isr' = "input" => stack # "none",
             pc = "chip" => isr' = "off"
      PROVE  IInv'
  <2>1. Layout(m, j)'
    BY <1>1, <1>6, <1>8 DEF Layout
  <2>2. RunInv'
    BY <1>1, <1>4, <1>6, <1>8, <2>1 DEF RunInv
  <2> QED
    BY <1>1, <1>2, <1>8, <2>2 DEF IInv, RunInv, Lwip
<1>9. ASSUME NEW n \in Nat \ {0}, NEW u \in {"rx", "tx"}, n \in Frames \cup {Size["rx"], 0},
             k = 0, Ask("isr", u, n)
      PROVE  held' = S \cup Under(DeskLow - m, "isr", u, n) /\ starved' = starved
  <2>1. Stack(held, DeskLow - m)
    BY <1>3, <1>5, <1>9
  <2>2. n <= DeskLow - m
    BY <1>9, LoadFits
  <2>3. held = S
    BY <1>3, <1>9 DEF Layout, Under
  <2> QED
    BY <1>9, <2>1, <2>2, <2>3, AskGrants
<1>10. CASE RxMalloc
  <2>1. isr = "rx" /\ isr' = "rx" /\ IsrUse = "rx" /\ IsrUse' = "rx" /\ k = 0
    BY <1>3, <1>10, HoldsFrame DEF RxMalloc, IsrUse
  <2>2. Size["rx"] \in Nat \ {0}
    BY Numbers DEF Uses
  <2>3. Ask("isr", "rx", Size["rx"])
    BY <1>10 DEF RxMalloc
  <2>4. held' = S \cup Under(DeskLow - m, "isr", "rx", Size["rx"]) /\ starved' = starved
    BY <1>9, <2>1, <2>2, <2>3
  <2>5. Size["rx"] \in IsrBlocks'
    BY <2>1 DEF IsrBlocks
  <2> QED
    BY <1>4, <1>8, <2>1, <2>4, <2>5 DEF RunInv
<1>11. CASE RxRead
  <2>1. isr = "rx" /\ IsrUse = "rx" /\ k # 0
    BY <1>3, <1>11, HoldsFrame DEF RxRead, IsrUse
  <2>2. PICK x : /\ held = S \cup {x}
                 /\ x.ctx = "isr" /\ x.use = "rx"
    <3>1. held = S \cup {Buffer("isr", "rx", DeskLow - m - k, k)}
      BY <1>3, <2>1 DEF Layout, Under
    <3> QED
      BY <3>1, BufferFields
  <2>3. Give("isr", "rx")
    BY <1>11 DEF RxRead
  <2>4. held' = S
    <3> HIDE DEF S
    <3> QED
      BY <1>7, <2>2, <2>3, GiveBack DEF Give
  <2>5. held' = S \cup Under(DeskLow - m, "isr", IsrUse', 0) /\ 0 \in IsrBlocks'
    BY <2>4 DEF Under, IsrBlocks
  <2>6. /\ isr' \in {"off", "input"} /\ (isr' = "input" => stack # "none")
        /\ starved' = starved
    BY <1>11 DEF RxRead
  <2> QED
    BY <1>4, <1>8, <2>1, <2>5, <2>6 DEF RunInv
<1>12. CASE IsrSend
  <2>1. isr = "input" /\ isr' = "input" /\ IsrUse = "tx" /\ IsrUse' = "tx" /\ k = 0
    BY <1>3, <1>12, HoldsFrame DEF IsrSend, IsrUse
  <2>2. PICK n \in Frames : Ask("isr", "tx", n)
    BY <1>12 DEF IsrSend
  <2>3. n \in Nat \ {0}
    BY Numbers
  <2>4. held' = S \cup Under(DeskLow - m, "isr", "tx", n) /\ starved' = starved
    BY <1>9, <2>1, <2>2, <2>3
  <2>5. n \in IsrBlocks'
    BY <2>1 DEF IsrBlocks
  <2> QED
    BY <1>4, <1>8, <2>1, <2>4, <2>5 DEF RunInv
<1>13. CASE IsrSent
  <2>1. isr' = isr /\ IsrUse = "tx" /\ k # 0 /\ starved' = starved
    BY <1>3, <1>13, HoldsFrame DEF IsrSent
  <2>2. PICK x : /\ held = S \cup {x}
                 /\ x.ctx = "isr" /\ x.use = "tx"
    <3>1. held = S \cup {Buffer("isr", "tx", DeskLow - m - k, k)}
      BY <1>3, <2>1 DEF Layout, Under
    <3> QED
      BY <3>1, BufferFields
  <2>3. Give("isr", "tx")
    BY <1>13 DEF IsrSent
  <2>4. held' = S
    <3> HIDE DEF S
    <3> QED
      BY <1>7, <2>2, <2>3, GiveBack DEF Give
  <2>5. held' = S \cup Under(DeskLow - m, "isr", IsrUse', 0) /\ 0 \in IsrBlocks'
    BY <2>4 DEF Under, IsrBlocks
  <2> QED
    BY <1>4, <1>8, <2>1, <2>5 DEF RunInv, IInv
<1> QED
  BY <1>10, <1>11, <1>12, <1>13

(* Steps of main that take or give back a buffer. *)
LEMMA DemoInv == ASSUME IInv, Demo PROVE IInv'
<1>1. /\ isr = "off" /\ isr' = isr /\ live' = live /\ stack' = stack
      /\ memp_memory' = memp_memory /\ ram_heap' = ram_heap
      /\ chipFailed' = chipFailed /\ fault' = fault
  BY DEF Demo, MainSend, MainSent, Remote, RemoteSet, Test, Reply, ReplySent,
         TestEnds, netvars, MainRuns
<1>2. pc \in {"poll", "remote", "test", "serve", "reply", "outer"}
  <2>1. ASSUME MainSent PROVE pc \in Sending
    <3>1. pc \notin Booting
      BY <2>1, BufferFields
         DEF MainSent, IInv, BootInv, Holds, Lwip, MempArea, HeapArea, SpareHeap, Booting
    <3>2. PICK m \in MainBlocks, k \in IsrBlocks : Layout(m, k) /\ m \in Nat /\ k \in Nat
      BY <3>1, Running
    <3>3. m # 0
      BY <2>1, <3>2, HoldsFrame DEF MainSent
    <3> QED
      BY <3>2, <3>3 DEF MainBlocks
  <2> QED
    BY <2>1 DEF Demo, MainSend, Remote, RemoteSet, Test, Reply, ReplySent,
         TestEnds, Sending
<1>3. pc \notin Booting
  BY <1>2 DEF Booting
<1>4. PICK m \in MainBlocks, k \in IsrBlocks :
        /\ Layout(m, k) /\ m \in Nat /\ k \in Nat
        /\ Stack(held, DeskLow - m - k) /\ DeskLow \in Nat /\ k = 0
  BY <1>1, <1>3, Running
<1>5. RunInv /\ 0 \in IsrBlocks'
  BY <1>3 DEF IInv, IsrBlocks
<1> DEFINE S == Lwip \cup Desk
<1>6. \A h \in S : h.ctx = "main" /\ h.use # "tx"
  BY DeskIsMains
<1>7. held = S \cup Under(DeskLow, "main", "tx", m) /\ Stack(held, DeskLow - m)
  BY <1>4 DEF Layout, Under
<1>8. ~Holds("main", "tx") => m = 0 /\ held = S /\ Stack(held, DeskLow)
  BY <1>4, <1>7, HoldsFrame DEF Under
<1>9. ASSUME NEW j \in MainBlocks',
             held' = Lwip \cup Desk' \cup Under(DeskLow', "main", "tx", j),
             starved' = starved,
             pc' \in {"poll", "remote", "test", "serve", "reply", "outer"}
      PROVE  IInv'
  <2>1. Layout(j, 0)'
    BY <1>9 DEF Layout, Under
  <2>2. RunInv'
    BY <1>1, <1>2, <1>5, <1>9, <2>1 DEF RunInv
  <2> QED
    BY <1>1, <1>3, <1>9, <2>2 DEF IInv, RunInv, Lwip, Booting
<1>10. ASSUME held' = Lwip \cup Desk', starved' = starved,
             pc' \in {"poll", "remote", "test", "serve", "reply", "outer"}
       PROVE  IInv'
  <2>1. 0 \in MainBlocks' /\ Under(DeskLow', "main", "tx", 0) = {}
    BY DEF MainBlocks, Under
  <2> QED
    BY <1>9, <1>10, <2>1
<1>11. ASSUME NEW n \in Nat \ {0}, n <= DeskLow, m = 0, held = S, NEW u, Ask("main", u, n)
       PROVE  held' = S \cup Under(DeskLow, "main", u, n) /\ starved' = starved /\ Room(n) # {}
  <2>1. Stack(held, DeskLow)
    BY <1>4, <1>7, <1>11
  <2> QED
    BY <1>4, <1>11, <2>1, AskGrants
<1>12. /\ LwipLow \in Nat
       /\ Size["remote"] \in Nat \ {0} /\ Size["tbuf"] \in Nat \ {0} /\ Size["reply"] \in Nat \ {0}
       /\ Size["remote"] <= LwipLow /\ Size["tbuf"] + Size["reply"] <= LwipLow
  <2>1. 0 \in Frames \cup {0} /\ 0 \in Frames \cup {Size["rx"], 0}
    OBVIOUS
  <2>2. Size["tbuf"] + Size["reply"] + 0 + 0 <= LwipLow /\ Size["remote"] + 0 <= LwipLow
    BY <2>1, Numbers
  <2>3. Size["remote"] \in Nat \ {0} /\ Size["tbuf"] \in Nat \ {0} /\ Size["reply"] \in Nat \ {0}
    BY Numbers DEF Uses
  <2> QED
    BY <2>2, <2>3, Numbers
<1>13. CASE MainSend
  <2>1. m = 0 /\ held = S /\ pc' = pc /\ pc \in Sending
    BY <1>8, <1>13 DEF MainSend
  <2>2. PICK n \in Frames : Ask("main", "tx", n)
    BY <1>13 DEF MainSend
  <2>3. n \in Nat \ {0}
    BY Numbers
  <2>4. n <= DeskLow
    <3>1. n \in Frames \cup {Size["rx"], 0}
      OBVIOUS
    <3>2. n <= DeskLow - m
      BY <3>1, LoadFits
    <3> QED
      BY <1>4, <2>1, <2>3, <3>2
  <2>5. held' = S \cup Under(DeskLow, "main", "tx", n) /\ starved' = starved
    BY <1>11, <2>1, <2>2, <2>3, <2>4
  <2>6. DeskLow' = DeskLow /\ Desk' = Desk /\ n \in MainBlocks'
    BY <2>1 DEF DeskLow, Desk, RemoteN, TbufN, ReplyN, MainBlocks
  <2> QED
    BY <1>2, <1>9, <2>1, <2>5, <2>6
<1>14. CASE MainSent
  <2>1. m # 0 /\ pc' = pc /\ starved' = starved
    BY <1>4, <1>14, HoldsFrame DEF MainSent
  <2>2. PICK x : /\ held = S \cup {x}
                 /\ x.ctx = "main" /\ x.use = "tx"
    <3>1. held = S \cup {Buffer("main", "tx", DeskLow - m, m)}
      BY <1>7, <2>1 DEF Under
    <3> QED
      BY <3>1, BufferFields
  <2>3. Give("main", "tx")
    BY <1>14 DEF MainSent
  <2>4. held' = S
    <3>1. \A h \in S : ~(h.ctx = "main" /\ h.use = "tx")
      BY <1>6
    <3> HIDE DEF S
    <3> QED
      BY <2>2, <2>3, <3>1, GiveBack DEF Give
  <2>5. Desk' = Desk
    BY <2>1 DEF Desk, RemoteN, TbufN, ReplyN
  <2> QED
    BY <1>2, <1>10, <2>1, <2>4, <2>5
<1>15. CASE Remote("poll") \/ Remote("outer")
  <2>1. /\ m = 0 /\ held = S /\ pc \in {"poll", "outer"}
        /\ AskOr("remote", "remote", "test")
    BY <1>8, <1>15 DEF Remote
  <2>2. Desk = {} /\ DeskLow = LwipLow
    BY <1>12, <2>1 DEF Desk, DeskLow, RemoteN, TbufN, ReplyN, Under
  <2>3. Ask("main", "remote", Size["remote"])
    BY <2>1 DEF AskOr
  <2>4. /\ held' = S \cup Under(DeskLow, "main", "remote", Size["remote"])
        /\ starved' = starved /\ Room(Size["remote"]) # {}
    BY <1>11, <1>12, <2>1, <2>2, <2>3
  <2>5. pc' = "remote"
    BY <2>1, <2>4 DEF AskOr
  <2>6. Desk' = Under(LwipLow, "main", "remote", Size["remote"])
    BY <2>5 DEF Desk, RemoteN, TbufN, ReplyN, Under
  <2> QED
    BY <1>10, <2>2, <2>4, <2>5, <2>6
<1>16. CASE RemoteSet
  <2>1. /\ pc = "remote" /\ pc' = "test" /\ starved' = starved /\ Give("main", "remote")
        /\ m = 0
    BY <1>4, <1>16 DEF RemoteSet, MainBlocks, Sending
  <2>2. PICK x : /\ held = Lwip \cup {x}
                 /\ x.ctx = "main" /\ x.use = "remote"
    <3>1. held = Lwip \cup {Buffer("main", "remote", LwipLow - Size["remote"], Size["remote"])}
      BY <1>7, <1>12, <2>1 DEF Desk, RemoteN, TbufN, ReplyN, Under
    <3> QED
      BY <3>1, BufferFields
  <2>3. \A h \in Lwip : ~(h.ctx = "main" /\ h.use = "remote")
    BY BufferFields DEF Lwip, MempArea, HeapArea
  <2>4. held' = Lwip
    BY <2>1, <2>2, <2>3, GiveBack DEF Give
  <2>5. Desk' = {}
    BY <2>1 DEF Desk, RemoteN, TbufN, ReplyN, Under
  <2> QED
    BY <1>10, <2>1, <2>4, <2>5
<1>17. CASE Test
  <2>1. m = 0 /\ held = S /\ pc = "test" /\ AskOr("tbuf", "serve", "outer")
    BY <1>4, <1>7, <1>17 DEF Test, MainBlocks, Sending, Under
  <2>2. Desk = {} /\ DeskLow = LwipLow
    BY <1>12, <2>1 DEF Desk, DeskLow, RemoteN, TbufN, ReplyN, Under
  <2>3. Ask("main", "tbuf", Size["tbuf"]) /\ Size["tbuf"] <= DeskLow
    BY <1>12, <2>1, <2>2 DEF AskOr
  <2>4. /\ held' = S \cup Under(DeskLow, "main", "tbuf", Size["tbuf"])
        /\ starved' = starved /\ Room(Size["tbuf"]) # {}
    BY <1>11, <1>12, <2>1, <2>3
  <2>5. pc' = "serve"
    BY <2>1, <2>4 DEF AskOr
  <2>6. Desk' = Under(LwipLow, "main", "tbuf", Size["tbuf"])
    BY <2>5 DEF Desk, RemoteN, TbufN, ReplyN, Under
  <2> QED
    BY <1>10, <2>2, <2>4, <2>5, <2>6
<1>18. CASE Reply
  <2>1. /\ m = 0 /\ held = S /\ pc = "serve" /\ pc' = "reply"
        /\ Ask("main", "reply", Size["reply"])
    BY <1>8, <1>18 DEF Reply
  <2>2. Desk = Under(LwipLow, "main", "tbuf", Size["tbuf"]) /\ DeskLow = LwipLow - Size["tbuf"]
    BY <1>12, <2>1 DEF Desk, DeskLow, RemoteN, TbufN, ReplyN, Under
  <2>3. Size["reply"] <= DeskLow
    BY <1>12, <2>2
  <2>4. /\ held' = S \cup Under(DeskLow, "main", "reply", Size["reply"])
        /\ starved' = starved
    BY <1>11, <1>12, <2>1, <2>3
  <2>5. Desk' = Under(LwipLow, "main", "tbuf", Size["tbuf"])
                \cup Under(LwipLow - Size["tbuf"], "main", "reply", Size["reply"])
    BY <2>1 DEF Desk, RemoteN, TbufN, ReplyN, Under
  <2> QED
    BY <1>10, <2>1, <2>2, <2>4, <2>5
<1>19. CASE ReplySent
  <2>1. /\ m = 0 /\ held = S /\ pc = "reply" /\ pc' = "serve" /\ Give("main", "reply")
        /\ starved' = starved
    BY <1>8, <1>19 DEF ReplySent
  <2> DEFINE T == Lwip \cup Under(LwipLow, "main", "tbuf", Size["tbuf"])
  <2>2. PICK x : /\ held = T \cup {x}
                 /\ x.ctx = "main" /\ x.use = "reply"
    <3>1. held = T \cup {Buffer("main", "reply", LwipLow - Size["tbuf"] - Size["reply"], Size["reply"])}
      BY <1>12, <2>1 DEF Desk, RemoteN, TbufN, ReplyN, Under
    <3> QED
      BY <3>1, BufferFields
  <2>3. \A h \in T : ~(h.ctx = "main" /\ h.use = "reply")
    BY BufferFields DEF Lwip, MempArea, HeapArea, Under
  <2>4. held' = T
    <3> HIDE DEF T
    <3> QED
      BY <2>1, <2>2, <2>3, GiveBack DEF Give
  <2>5. Desk' = Under(LwipLow, "main", "tbuf", Size["tbuf"])
    BY <2>1 DEF Desk, RemoteN, TbufN, ReplyN, Under
  <2> QED
    BY <1>10, <2>1, <2>4, <2>5
<1>20. CASE TestEnds
  <2>1. /\ m = 0 /\ held = S /\ pc = "serve" /\ pc' = "outer" /\ Give("main", "tbuf")
        /\ starved' = starved
    BY <1>8, <1>20 DEF TestEnds
  <2>2. PICK x : /\ held = Lwip \cup {x}
                 /\ x.ctx = "main" /\ x.use = "tbuf"
    <3>1. held = Lwip \cup {Buffer("main", "tbuf", LwipLow - Size["tbuf"], Size["tbuf"])}
      BY <1>12, <2>1 DEF Desk, RemoteN, TbufN, ReplyN, Under
    <3> QED
      BY <3>1, BufferFields
  <2>3. \A h \in Lwip : ~(h.ctx = "main" /\ h.use = "tbuf")
    BY BufferFields DEF Lwip, MempArea, HeapArea
  <2>4. held' = Lwip
    BY <2>1, <2>2, <2>3, GiveBack DEF Give
  <2>5. Desk' = {}
    BY <2>1 DEF Desk, RemoteN, TbufN, ReplyN, Under
  <2> QED
    BY <1>10, <2>1, <2>4, <2>5
<1> QED
  BY <1>13, <1>14, <1>15, <1>16, <1>17, <1>18, <1>19, <1>20 DEF Demo

(* ---- the invariant and what follows from it --------------------------- *)

(* After mem_init nothing is allocated. *)
LEMMA InitInv == Init => IInv
<1> SUFFICES ASSUME Init PROVE IInv
  OBVIOUS
<1>1. live \in BOOLEAN /\ chipFailed \in BOOLEAN /\ fault \in BOOLEAN
  BY Zenon DEF Init
<1>2. ram_heap.use \in {"null", "heap"}
  BY DEF Init, Null
<1> QED
  BY <1>1, <1>2 DEF Init, IInv, BootInv, Booting

(* Every step of main or the handler keeps the invariant. *)
LEMMA NextInv == IInv /\ [Next]_vars => IInv'
<1> SUFFICES ASSUME IInv, [Next]_vars PROVE IInv'
  OBVIOUS
<1>1. CASE Boot
  BY <1>1, MempMallocInv, HeapMallocInv, ReleaseInv, ChipFailsInv, RetryInv, MoveInv DEF Boot
<1>2. CASE Demo
  BY <1>2, DemoInv
<1>3. CASE IsrEnter
  BY <1>3, MoveInv
<1>4. CASE Handler
  BY <1>4, MoveInv, HandlerInv DEF Handler
<1>5. CASE UNCHANGED vars
  BY <1>5 DEF vars, IInv, BootInv, RunInv, Layout, Desk, DeskLow, RemoteN, TbufN, ReplyN,
              IsrUse, MainBlocks, IsrBlocks
<1> QED
  BY <1>1, <1>2, <1>3, <1>4, <1>5 DEF Next

(* The invariant holds throughout. *)
THEOREM BoardInvariant == Spec => []IInv
BY InitInv, NextInv, PTL DEF Spec

Counts == {Size[u] : u \in Uses} \cup Frames

(* In every state, booting or running, the live buffers are a stack, and     *)
(* each is of one of the sizes.                                              *)
LEMMA HeldStack ==
  ASSUME IInv
  PROVE  /\ \E L : Stack(held, L)
         /\ \A h \in held : /\ h.ctx \in {"main", "isr"} /\ h.use \in Uses \cup {"tx"}
                            /\ h.n \in Counts
<1> DEFINE Typed(S) == \A h \in S : /\ h.ctx \in {"main", "isr"}
                                   /\ h.use \in Uses \cup {"tx"} /\ h.n \in Counts
<1>1. Size["heap"] \in Nat /\ Size["memp"] \in Nat /\ Size["memp"] > 0 /\ Size["memp"] <= NBlocks
  BY Numbers DEF Uses, LwipLow
<1>2. Typed(Lwip) /\ Typed({SpareHeap})
  BY BufferFields DEF Lwip, MempArea, HeapArea, SpareHeap, Counts, Uses
<1>3. CASE pc \in Booting
  <2>1. \/ held = {} \/ held = Lwip \/ held = {MempArea}
        \/ held = Lwip \cup {SpareHeap} /\ Size["heap"] <= LwipLow
    BY <1>3 DEF IInv, BootInv, Booting
  <2>2. CASE held = {}
    BY <2>2, StackEmpty
  <2>3. CASE held = Lwip
    BY <1>2, <2>3, LwipStack
  <2>4. CASE held = {MempArea}
    <3>1. Stack({} \cup Under(NBlocks, "main", "memp", Size["memp"]), NBlocks - Size["memp"])
      BY <1>1, Numbers, StackEmpty, StackPush
    <3>2. Under(NBlocks, "main", "memp", Size["memp"]) = {MempArea}
      BY <1>1 DEF Under, MempArea
    <3> QED
      BY <1>2, <2>4, <3>1, <3>2 DEF Lwip
  <2>5. CASE held = Lwip \cup {SpareHeap} /\ Size["heap"] <= LwipLow
    <3>1. Stack(Lwip \cup Under(LwipLow, "main", "heap", Size["heap"]), LwipLow - Size["heap"])
      BY <1>1, <2>5, LwipStack, StackPush
    <3>2. Under(LwipLow, "main", "heap", Size["heap"]) = {SpareHeap}
      BY Numbers DEF Under, SpareHeap, Uses
    <3> QED
      BY <1>2, <2>5, <3>1, <3>2
  <2> QED
    BY <2>1, <2>2, <2>3, <2>4, <2>5
<1>4. CASE pc \notin Booting
  <2>1. PICK m \in MainBlocks, k \in IsrBlocks : Layout(m, k) /\ Stack(held, DeskLow - m - k)
    BY <1>4, Running
  <2>2. Typed(Desk)
    BY BufferFields DEF Desk, Under, RemoteN, TbufN, ReplyN, Counts, Uses
  <2>3. m \in Frames \cup {0} /\ k \in Frames \cup {Size["rx"], 0}
    BY DEF MainBlocks, IsrBlocks
  <2>4. Typed(Under(DeskLow, "main", "tx", m))
    BY <2>3, BufferFields DEF Under, Counts
  <2>5. Typed(Under(DeskLow - m, "isr", IsrUse, k))
    BY <2>3, BufferFields DEF Under, Counts, IsrUse, Uses
  <2> QED
    BY <1>2, <2>1, <2>2, <2>4, <2>5 DEF Layout
<1> QED
  BY <1>3, <1>4

(* Every variable of the board keeps its type. *)
THEOREM BoardTypes == Spec => []TypeOK
<1>1. ASSUME IInv PROVE TypeOK
  <2>1. \A h \in held : h.base \in 0 .. NBlocks - 1 /\ h.n \in Nat \ {0}
    BY <1>1, HeldStack, Numbers DEF Stack
  <2> QED
    BY <1>1, <2>1, HeldStack DEF IInv, TypeOK
<1> QED
  BY <1>1, BoardInvariant, PTL

(* For every pool and all buffer sizes whose largest sum fits, no request is *)
(* ever refused, wherever the handler's buffers come between main's.         *)
THEOREM AlwaysRoom == Spec => []RoomForAll
<1>1. IInv => RoomForAll
  BY DEF IInv, RoomForAll
<1> QED
  BY <1>1, BoardInvariant, PTL

(* The pool never has a hole between two buffers or above one. *)
THEOREM NeverFragmented == Spec => []NoFragments
<1>1. ASSUME IInv PROVE NoFragments
  BY <1>1, HeldStack DEF Stack, NoFragments
<1> QED
  BY <1>1, BoardInvariant, PTL

(* After one failure of the chip ENC28J60_Init is never called again: for    *)
(* every pool that cannot hold memp_memory twice.                            *)
THEOREM FailureIsFinal == Spec => []RetryInVain
<1>1. IInv => RetryInVain
  BY DEF IInv, RetryInVain, RunInv, Booting
<1> QED
  BY <1>1, BoardInvariant, PTL
=============================================================================
