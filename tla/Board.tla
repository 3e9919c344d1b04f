-------------------------------- MODULE Board --------------------------------
(***************************************************************************)
(* The board from power-up on: main's retry loop around lwip_comm_init,    *)
(* the EXTI1 handler that is live from the middle of it, and what both     *)
(* take from the pool SRAMIN along the way.  The pool itself is used as    *)
(* Malloc implements it: a call takes the highest run of free blocks, or   *)
(* returns NULL when there is none.                                        *)
(*                                                                         *)
(* The handler returns what it took before main goes on; main's buffers    *)
(* stay while it runs.  A step is one call of the pool or one stage of the *)
(* boot.                                                                   *)
(***************************************************************************)
EXTENDS Integers

CONSTANTS
  NBlocks,   \* the blocks of SRAMIN
  Size,      \* the blocks of each buffer of fixed size
  Frames     \* the blocks a frame to send may need

Uses == {"memp", "heap", "remote", "tbuf", "reply", "rx"}

(* The largest load the two contexts put on the pool together: what lwIP     *)
(* keeps, what main holds in udp_demo_test or in udp_demo_set_remoteip, and  *)
(* one buffer of the handler.  A second memp_memory never fits.              *)
Fits(blocks, size, frames) ==
  LET lwip == size["memp"] + size["heap"]
      isr  == frames \cup {size["rx"]}
  IN /\ \A f \in frames, t \in isr :
            lwip + size["tbuf"] + size["reply"] + f + t <= blocks
     /\ \A t \in isr : lwip + size["remote"] + t <= blocks
     /\ blocks < lwip + size["memp"]

ASSUME BoardAssumption ==
  /\ NBlocks \in Nat
  /\ Size \in [Uses -> Nat \ {0}]
  /\ Frames \subseteq Nat \ {0} /\ Frames # {}
  /\ Fits(NBlocks, Size, Frames)

VARIABLES
  pc,          \* where main is
  isr,         \* where the EXTI1 handler is
  live,        \* the chip raises interrupts: INTIE and RXEN are set
  stack,       \* "none" before lwip_init, "pools" after it, "added" after netif_add
  held,        \* the buffers taken and not given back
  memp_memory, \* pointer to lwIP's pools
  ram_heap,    \* pointer to lwIP's heap
  starved,     \* ghost: the uses whose request was ever refused, once booted
  chipFailed,  \* ghost: ENC28J60_Init has returned 1
  fault        \* ghost: a call through a null netif->input

vars == <<pc, isr, live, stack, held, memp_memory, ram_heap, starved,
          chipFailed, fault>>
netvars == <<live, stack, memp_memory, ram_heap, chipFailed, fault>>
-----------------------------------------------------------------------------
Null == [use |-> "null"]

Buffer(ctx, use, base, n) == [ctx |-> ctx, use |-> use, base |-> base, n |-> n]

FreeAt(b, n) == \A h \in held : b + n <= h.base \/ h.base + h.n <= b

Room(n) == {b \in 0 .. NBlocks - n : FreeAt(b, n)}

(* mymalloc searches from the last block down. *)
Highest(b, n) == b \in Room(n) /\ \A c \in Room(n) : c <= b

Holds(ctx, use) == \E h \in held : h.ctx = ctx /\ h.use = use

MainRuns == isr = "off" /\ ~fault

Init ==
  /\ pc = "memp" /\ isr = "off"
  /\ live = FALSE /\ stack = "none"
  /\ held = {}
  /\ memp_memory = Null /\ ram_heap = Null
  /\ starved = {} /\ chipFailed = FALSE /\ fault = FALSE

(* mymalloc for a buffer the code uses without a look at the pointer. *)
Ask(ctx, use, n) ==
  IF Room(n) = {}
    THEN starved' = starved \cup {use} /\ UNCHANGED held
    ELSE /\ \E b \in Room(n) : Highest(b, n) /\ held' = held \cup {Buffer(ctx, use, b, n)}
         /\ UNCHANGED starved

(* The same where NULL makes the caller go elsewhere. *)
AskOr(use, next, otherwise) ==
  /\ Ask("main", use, Size[use])
  /\ pc' = IF Room(Size[use]) = {} THEN otherwise ELSE next

Give(ctx, use) == held' = {h \in held : ~(h.ctx = ctx /\ h.use = use)}
-----------------------------------------------------------------------------
(* What mymalloc returns to lwip_comm_mem_malloc, which asks for both areas  *)
(* whatever the first answer was.                                            *)
Answer(use, p) ==
  IF Room(Size[use]) = {} THEN p = Null
  ELSE \E b \in Room(Size[use]) : Highest(b, Size[use]) /\ p = Buffer("main", use, b, Size[use])

MempMalloc ==
  /\ pc = "memp"
  /\ Answer("memp", memp_memory')
  /\ held' = held \cup ({memp_memory'} \ {Null})
  /\ pc' = "heap"
  /\ UNCHANGED <<isr, live, stack, ram_heap, starved, chipFailed, fault>>

HeapMalloc ==
  /\ pc = "heap"
  /\ Answer("heap", ram_heap')
  /\ held' = held \cup ({ram_heap'} \ {Null})
  /\ pc' = IF Null \in {memp_memory, ram_heap'} THEN "release" ELSE "chip"
  /\ UNCHANGED <<isr, live, stack, memp_memory, starved, chipFailed, fault>>

(* lwip_comm_mem_free, then lwip_comm_init returns 1. *)
Release ==
  /\ pc = "release"
  /\ held' = held \ {memp_memory, ram_heap}
  /\ pc' = "wait"
  /\ UNCHANGED <<isr, live, stack, memp_memory, ram_heap, starved, chipFailed, fault>>

(* Mutant: lwip_comm_init gives the two areas back before it returns 2. *)
ChipFailsFreeing ==
  /\ pc = "chip"
  /\ held' = held \ {memp_memory, ram_heap}
  /\ chipFailed' = TRUE
  /\ pc' = "wait"
  /\ UNCHANGED <<isr, live, stack, memp_memory, ram_heap, starved, fault>>

(* ENC28J60_Init gives up after 250 ms: lwip_comm_init returns 2, and both   *)
(* areas stay taken.                                                         *)
ChipFails ==
  /\ pc = "chip"
  /\ chipFailed' = TRUE
  /\ pc' = "wait"
  /\ UNCHANGED <<isr, live, stack, held, memp_memory, ram_heap, starved, fault>>

(* main waits 1.2 s and calls lwip_comm_init again. *)
Retry ==
  /\ pc = "wait"
  /\ pc' = "memp"
  /\ UNCHANGED <<isr, live, stack, held, memp_memory, ram_heap, starved, chipFailed, fault>>

(* ENC28J60_Init sets INTIE and RXEN: from here on frames interrupt. *)
ChipStarts ==
  /\ pc = "chip"
  /\ live' = TRUE /\ pc' = "core"
  /\ UNCHANGED <<isr, stack, held, memp_memory, ram_heap, starved, chipFailed, fault>>

(* lwip_init strings up memp_memory; netif->input is still null. *)
LwipInit ==
  /\ pc = "core" /\ MainRuns
  /\ stack' = "pools" /\ pc' = "add"
  /\ UNCHANGED <<isr, live, held, memp_memory, ram_heap, starved, chipFailed, fault>>

(* netif_add sets netif->input. *)
NetifAdd ==
  /\ pc = "add" /\ MainRuns
  /\ stack' = "added" /\ pc' = "poll"
  /\ UNCHANGED <<isr, live, held, memp_memory, ram_heap, starved, chipFailed, fault>>
-----------------------------------------------------------------------------
(* low_level_output for main: dhcp_start and lwip_periodic_handle while main *)
(* waits for an address; lwip_periodic_handle and udp_send in udp_demo_test. *)
(* The frame is copied and sent whether or not there is a buffer.            *)
Sending == {"poll", "serve", "reply"}

MainSend ==
  /\ pc \in Sending /\ MainRuns /\ ~Holds("main", "tx")
  /\ \E n \in Frames : Ask("main", "tx", n)
  /\ UNCHANGED <<pc, isr, netvars>>

MainSent ==
  /\ Holds("main", "tx") /\ MainRuns
  /\ Give("main", "tx")
  /\ UNCHANGED <<pc, isr, starved, netvars>>

(* The address is decided, or the user has pressed KEY1: udp_demo_test       *)
(* starts with udp_demo_set_remoteip, which returns at once without memory.  *)
Remote(from) ==
  /\ pc = from /\ MainRuns /\ ~Holds("main", "tx")
  /\ AskOr("remote", "remote", "test")
  /\ UNCHANGED <<isr, netvars>>

RemoteSet ==
  /\ pc = "remote" /\ MainRuns
  /\ Give("main", "remote") /\ pc' = "test"
  /\ UNCHANGED <<isr, starved, netvars>>

(* udp_demo_test has no work without its own buffer. *)
Test ==
  /\ pc = "test" /\ MainRuns
  /\ AskOr("tbuf", "serve", "outer")
  /\ UNCHANGED <<isr, netvars>>

(* udp_demo_senddata takes udp_demo_sendbuf, sends and frees it. *)
Reply ==
  /\ pc = "serve" /\ MainRuns /\ ~Holds("main", "tx")
  /\ Ask("main", "reply", Size["reply"])
  /\ pc' = "reply"
  /\ UNCHANGED <<isr, netvars>>

(* Mutant: udp_demo_sendbuf is not freed. *)
ReplyKept ==
  /\ pc = "reply" /\ MainRuns /\ ~Holds("main", "tx")
  /\ pc' = "serve"
  /\ UNCHANGED <<held, isr, starved, netvars>>

ReplySent ==
  /\ pc = "reply" /\ MainRuns /\ ~Holds("main", "tx")
  /\ Give("main", "reply") /\ pc' = "serve"
  /\ UNCHANGED <<isr, starved, netvars>>

(* Mutant: the buffer is not freed. *)
TestEndsKeeping ==
  /\ pc = "serve" /\ MainRuns /\ ~Holds("main", "tx")
  /\ pc' = "outer"
  /\ UNCHANGED <<held, isr, starved, netvars>>

(* WKUP, or no endpoint: the connection is closed and the buffer freed. *)
TestEnds ==
  /\ pc = "serve" /\ MainRuns /\ ~Holds("main", "tx")
  /\ Give("main", "tbuf") /\ pc' = "outer"
  /\ UNCHANGED <<isr, starved, netvars>>
-----------------------------------------------------------------------------
(* EXTI1: a frame is in the chip. *)
IsrEnter ==
  /\ live /\ MainRuns
  /\ isr' = "rx"
  /\ UNCHANGED <<pc, starved, held, netvars>>

(* low_level_input takes its buffer.  Without one the frame stays in the     *)
(* chip and the handler's loop comes back to it at once.                     *)
RxMalloc ==
  /\ isr = "rx" /\ ~Holds("isr", "rx")
  /\ Ask("isr", "rx", Size["rx"])
  /\ UNCHANGED <<pc, isr, netvars>>

(* ... and gives it back when the frame is in pbufs, or dropped for want of  *)
(* them: before lwip_init there are none.                                    *)
RxRead ==
  /\ isr = "rx" /\ Holds("isr", "rx")
  /\ Give("isr", "rx")
  /\ isr' \in IF stack = "none" THEN {"off"} ELSE {"off", "input"}
  /\ UNCHANGED <<pc, starved, netvars>>

(* ethernetif_input calls netif->input. *)
CallNull ==
  /\ isr = "input" /\ stack # "added" /\ ~fault
  /\ fault' = TRUE
  /\ UNCHANGED <<pc, isr, live, stack, held, memp_memory, ram_heap, starved, chipFailed>>

(* The stack answers a frame from inside the handler: an ARP or ICMP reply,  *)
(* a DHCP message, a segment.                                                *)
IsrSend ==
  /\ isr = "input" /\ stack = "added" /\ ~Holds("isr", "tx")
  /\ \E n \in Frames : Ask("isr", "tx", n)
  /\ UNCHANGED <<pc, isr, netvars>>

IsrSent ==
  /\ Holds("isr", "tx")
  /\ Give("isr", "tx")
  /\ UNCHANGED <<pc, isr, starved, netvars>>

IsrReturn ==
  /\ isr = "input" /\ stack = "added" /\ ~Holds("isr", "tx")
  /\ isr' = "off"
  /\ UNCHANGED <<pc, starved, held, netvars>>
-----------------------------------------------------------------------------
Boot == \/ MempMalloc \/ HeapMalloc \/ Release \/ ChipFails \/ Retry
        \/ ChipStarts \/ LwipInit \/ NetifAdd

Demo == \/ MainSend \/ MainSent
        \/ Remote("poll") \/ Remote("outer") \/ RemoteSet
        \/ Test \/ Reply \/ ReplySent \/ TestEnds

Handler == \/ RxMalloc \/ RxRead \/ CallNull
           \/ IsrSend \/ IsrSent \/ IsrReturn

Next == Boot \/ Demo \/ IsrEnter \/ Handler

Spec == Init /\ [][Next]_vars

(* main goes on whenever the handler lets it, and the handler ends: the      *)
(* stack answers a frame with finitely many.                                 *)
FairSpec ==
  /\ Spec
  /\ SF_vars(Boot)
  /\ WF_vars(RxMalloc \/ RxRead \/ CallNull \/ IsrSent) /\ SF_vars(IsrReturn)
-----------------------------------------------------------------------------
TypeOK ==
  /\ pc \in {"memp", "heap", "release", "wait", "chip", "core", "add",
            "poll", "remote", "test", "serve", "reply", "outer"}
  /\ isr \in {"off", "rx", "input"}
  /\ live \in BOOLEAN /\ chipFailed \in BOOLEAN /\ fault \in BOOLEAN
  /\ stack \in {"none", "pools", "added"}
  /\ \A h \in held : /\ h.ctx \in {"main", "isr"} /\ h.use \in Uses \cup {"tx"}
                     /\ h.base \in 0 .. NBlocks - 1 /\ h.n \in Nat \ {0}
  /\ memp_memory \in held \cup {Null} /\ ram_heap.use \in {"null", "heap"}
  /\ starved \subseteq Uses \cup {"tx"}

(* Once booted, nobody is ever refused a buffer: not low_level_output, which *)
(* would copy the frame to address 0, not setsendbuf, which would write      *)
(* there, and not low_level_input, whose frame would stay in the chip and    *)
(* keep the handler in its loop.                                             *)
RoomForAll == starved = {}

(* The pool never has a hole: whatever the order of keys, frames and         *)
(* failures, and wherever the handler's buffers fall between main's, the     *)
(* live buffers and the leaked ones fill the top without a gap.              *)
NoFragments ==
  \A h \in held : \/ h.base + h.n = NBlocks
                  \/ \E g \in held : g.base = h.base + h.n

(* One failure of the chip at power-up is for ever.  lwip_comm_init keeps    *)
(* both areas when it returns 2, so every later call fails for memory and    *)
(* never gets to ENC28J60_Init again.                                        *)
RetryInVain == chipFailed => pc \in {"wait", "memp", "heap", "release"}

(* The handler always comes to its end, so main is never locked out by a     *)
(* frame that finds no buffer.                                               *)
HandlerEnds == isr # "off" ~> (isr = "off" \/ fault)
-----------------------------------------------------------------------------
(* Where every live buffer lies: lwIP's two areas at the top, under them     *)
(* main's own, then the frame main sends, then the handler's buffer.         *)
LwipLow == NBlocks - Size["memp"] - Size["heap"]

MempArea == Buffer("main", "memp", NBlocks - Size["memp"], Size["memp"])
HeapArea == Buffer("main", "heap", LwipLow, Size["heap"])
Lwip     == {MempArea, HeapArea}

(* The heap a second round takes and gives back. *)
SpareHeap == Buffer("main", "heap", LwipLow - Size["heap"], Size["heap"])

(* A buffer of n blocks right under low; 0 stands for none. *)
Under(low, ctx, use, n) == IF n = 0 THEN {} ELSE {Buffer(ctx, use, low - n, n)}

RemoteN == IF pc = "remote" THEN Size["remote"] ELSE 0
TbufN   == IF pc \in {"serve", "reply"} THEN Size["tbuf"] ELSE 0
ReplyN  == IF pc = "reply" THEN Size["reply"] ELSE 0
DeskLow == LwipLow - RemoteN - TbufN - ReplyN

Desk == Under(LwipLow, "main", "remote", RemoteN)
        \cup Under(LwipLow, "main", "tbuf", TbufN)
        \cup Under(LwipLow - TbufN, "main", "reply", ReplyN)

IsrUse == IF isr = "rx" THEN "rx" ELSE "tx"

Layout(m, k) ==
  held = Lwip \cup Desk \cup Under(DeskLow, "main", "tx", m)
              \cup Under(DeskLow - m, "isr", IsrUse, k)

(* What the handler may hold at each of its places. *)
IsrBlocks ==
  {0} \cup (IF isr = "rx" THEN {Size["rx"]} ELSE IF isr = "input" THEN Frames ELSE {})

MainBlocks == IF pc \in Sending THEN {0} \cup Frames ELSE {0}

Booting == {"memp", "heap", "release", "wait"}

(* The boot before the chip answers, first round or later ... *)
BootInv ==
  /\ isr = "off" /\ ~live /\ stack = "none" /\ ~fault
  /\ pc = "memp" => held = IF chipFailed THEN Lwip ELSE {}
  /\ pc = "heap" => IF chipFailed THEN held = Lwip /\ memp_memory = Null
                                  ELSE held = {MempArea} /\ memp_memory = MempArea
  /\ pc = "release" => /\ chipFailed /\ memp_memory = Null
                       /\ \/ ram_heap = Null /\ held = Lwip
                          \/ /\ ram_heap = SpareHeap /\ Size["heap"] <= LwipLow
                             /\ held = Lwip \cup {SpareHeap}
  /\ pc = "wait" => chipFailed /\ held = Lwip

(* ... and after it. *)
RunInv ==
  /\ ~chipFailed /\ memp_memory = MempArea
  /\ \E m \in MainBlocks, k \in IsrBlocks : Layout(m, k)
  /\ pc = "chip" => isr = "off" /\ ~live
  /\ stack = "none"  <=> pc \in {"chip", "core"}
  /\ stack = "pools" <=> pc = "add"
  /\ isr = "input" => stack # "none"

IInv ==
  /\ pc \in {"memp", "heap", "release", "wait", "chip", "core", "add",
            "poll", "remote", "test", "serve", "reply", "outer"}
  /\ isr \in {"off", "rx", "input"} /\ stack \in {"none", "pools", "added"}
  /\ live \in BOOLEAN /\ chipFailed \in BOOLEAN /\ fault \in BOOLEAN
  /\ memp_memory \in held \cup {Null} /\ ram_heap.use \in {"null", "heap"}
  /\ starved = {}
  /\ fault => stack = "pools"
  /\ IF pc \in Booting THEN BootInv ELSE RunInv
=============================================================================
