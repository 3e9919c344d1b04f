# A verification project for the STM32F103 + ENC28J60 + lwIP board

The repository (`src/`) is firmware for an STM32F103 with an ENC28J60 Ethernet
chip. It gets an address by DHCP (lwIP 1.4.1, `NO_SYS` 1), opens a UDP endpoint,
turns a motor on a host's command and reports its state back. This directory
holds TLA+ modules of its core, the TLC configurations that check them on small
instances, and theorems about them for every instance, checked by TLAPS.

There is no operating system. Two contexts run:

* the **main loop**: `main`, `udp_demo_test`, and `lwip_periodic_handle`, called
  from the loops of both;
* the **EXTI1 handler**: the falling edge of the chip's INT pin. It runs the whole
  input path: reading the frame over SPI, lwIP's input, the DHCP client's
  `dhcp_recv`, `udp_demo_recv` and the motor command, and it may transmit.

EXTI1 arrives between any two steps of the main loop unless PRIMASK is set, runs
to its end, and is not preempted by anything that shares its data (TIM3, which
counts `lwip_localtime`, has the same preemption priority and has to wait). lwIP is built without `SYS_LIGHTWEIGHT_PROT`. What the
two contexts share (the memory pool, the SPI bus and the chip, flags and
records of the demo, lwIP's structures) is what this project is about.

## 1. Inventory

| Component (source) | State | Operations | Who calls it | Hard behaviour | What makes it correct |
|---|---|---|---|---|---|
| Memory pool (`MALLOC/malloc.c`) | `memmap`, `memrdy`, locals of each call | `mymalloc`, `myrealloc`, `myfree`, `my_mem_init` | main loop and EXTI1, without a lock | interrupted between any two accesses to `memmap` | live allocations are disjoint; `memmap` is exact; NULL only when there is no room |
| ENC28J60 driver (`HARDWARE/ENC28J60/enc28j60.c`, `ethernetif.c`) | the chip's receive memory, EPKTCNT, EIR, INTIE, TXRTS; `NextPacketPtr`; PRIMASK; EXTI1's pending bit | `EXTI1_IRQHandler`, `ENC28J60_ISRHandler`, `Packet_Receive`, `Packet_Send`, `low_level_input` | chip, EXTI1, main loop | edge-triggered interrupt on a level; overflow; silicon erratum of PKTIF; transmission inside the handler | no frame sleeps in the chip; the bus is used by one; order; what an overflow costs; interrupts on again; progress |
| UDP demo (`lwip_app/udp_demo`, `main.c`) | `udp_demo_flag` bits 5 and 6, `elengine_wyx`, `sendrecv`, `udp_demo_sendbuf`, pcb, buffers | `udp_demo_test`, `udp_demo_recv`, `Message_processing`, `udp_demo_senddata`, `udp_demo_connection_close`, reconnection | main loop; receive callback in EXTI1 | unprotected read-modify-writes; a record copied while it is replaced; each allocation may fail | one turn per opening of the gate; nothing leaked; a stale reply is followed by another |
| DHCP supervision and client (`lwip_comm.c`, `dhcp.c`) | `lwipdev.dhcpstatus`, `lwipdev.ip`, `netif` address, `dhcp` state, tries, timers, `p_out` | `lwip_dhcp_process_handle`, `dhcp_start`, fine and coarse timers, `dhcp_recv`, `dhcp_arp_reply` | main loop; answers in EXTI1 | state read, then answer handled, then state used; conflicts; refusals; silence | waiting for a server implies a timeout; address implies lease; the wait is decided |
| Boot and the pool's users (`main.c`, `lwip_comm.c`, `ethernetif.c`) | SRAMIN, `memp_memory`, `ram_heap`, `netif->input` | `lwip_comm_init`, its retry, every `mymalloc` after it | main loop, with EXTI1 live half-way | partial failure of a multi-step initialisation; NULL used unchecked; a frame before `netif_add` | nobody is refused a buffer; the handler ends; what a failed boot leaves |
| Bank cache of the chip (`ENC28J60_Set_Bank`, `PHY_Read`) | BSEL, chip select, cached bank | register access, byte by byte | both | compare, switch and note with interrupts on | every access that matters reaches its register |
| Clock and timers (`delay.c`, `timer.c`, `lwip_periodic_handle`, `elengine.c`) | SysTick, `lwip_localtime`, timer stamps | `delay_ms`, TIM3, periodic handler, the motor's delay in EXTI1 | both | SysTick reprogrammed under a waiting delay; lost ticks; wrap | delays neither cut short nor endless; timers never early, and again and again |
| lwIP's buffers (`memp.c`, `pbuf.c`) | free list of PBUF_POOL | `memp_malloc`, `memp_free` | both | list operations without protection | one owner per pbuf |
| IP reassembly (`ip_frag.c`) | `reassdatagrams`, `ip_reass_pbufcount` | `ip_reass` | EXTI1; shares the pool with replies | loss, duplication, order; limits; a timer nobody calls | every pbuf accounted for; only whole datagrams delivered |
| lwIP's protocols (vendored) | pcbs, ARP table, heap | input, output | both | | left to their project, except the DHCP client |
| Temperature sensor, `setdata` | readings | checksum, hex conversion | main loop | numeric edges | not modelled: a test over all bytes decides them |
| Motor GPIO, LEDs, keys, serial port, USMART, display, SRAM bus, vendor libraries | registers | output, polling | one context | none, or never initialised by `main` | not modelled |

`PROJECT.json` has the same list with its status and, under `hazards`, every
place where something can go wrong that a test would hardly reach, with the
properties that cover it or the reason why none does.

## 2. The modules and how they correspond to the code

### Pool, Malloc, MCMalloc, MallocProofs

`Pool` is what the allocator promises: an allocation is a run of blocks that
nobody holds. `Malloc` is the code, **one access to `memmap` per step**:
`StartSearch` (the call up to the loop), `SearchOn`/`RunFound`/`NoRoom` (one turn
of the search), `MarkOn`/`HandOut` (one turn of the marking loop, the last one
returning), `StartFree`, `ClearOn`/`ClearLast`, and `Realloc` (`mymalloc`, copy, `FreeOld`).
`pc`, `offset`, `cmemb`, `nmemb`, `i`, `old` are the locals of each context's call.
`IsrEnter` may come at any step; `IsrReturn` needs what the code does on every
path, that the handler has freed what it allocated (`low_level_input`,
`low_level_output`). `held` is a ghost: the allocations returned and not given
back. `my_mem_free` reads the length back from the map, as the code does. Callers
are assumed not to free twice, and nobody asks for size 0 (refused at once).

### Enc28j60, MCEnc28j60, Enc28j60Proofs

Three parties: the chip (`Arrive`, `Overflow`, `TxEnd`), the handler, and the
main loop's transmission. `isr` is the place in `EXTI1_IRQHandler` and
`ENC28J60_ISRHandler`: clear the pending bit (`Ack`), test the pin (`LoopOn`,
`LoopEnd`), mute INTIE, read EIR once into `status`, treat PKTIF, TXIF, RXERIF and
TXERIF in the code's order, unmute. `Edge` is the interrupt controller: EXTI1
becomes pending on the pin's falling edge only. `epktcnt` is the chip's count, kept
apart from the queue `fifo` because the error branch decrements it without
reading. `ahead`, `smashed` and `wild` follow ERXRDPT being moved one byte past
`NextPacketPtr`. A frame comes in for a while (`RxBegin`, `rxbusy`), because
`Packet_Receive` polls RXBUSY with interrupts off (`StartReceive`, `ReadHeader`). What a
header that was overwritten describes is copied and handed on like any other: `Copy` then
delivers nothing, a frame of any age, or something that is no frame (0). `send[c]` is `Packet_Send` in each context, with its wait for the
transmitter under PRIMASK and its check of TXERIF; the stack may send any number of frames
for one it is given (`InputDone`). Contents of frames, register values, and the
clock are left out. `PktifExact = FALSE` is a chip with the known erratum that
PKTIF does not reliably follow EPKTCNT.

### UdpDemo, MCUdpDemo, UdpDemoProofs

`pc` is the place in `udp_demo_test`, `udp_demo_senddata` or `main`'s outer loop.
Each access to data shared with the handler is a step: `udp_demo_flag |= 1<<5` is
`LoadForConnect`, `StoreConnected`; `&= ~(1<<6)` is `LoadForClear`, `StoreCleared`;
`Rearm` sets `elengine_wyx`; `CopyRecord` copies one field of `sendrecv`.
`Recv` is `udp_demo_recv` with `readrecv` and `Message_processing`, one step, because
it is in the handler. A command is abstracted to what it does with the motor; the
reply to whether its fields are of the newest command and to its length as
`strlen` sees it (`oldlen`, because the pbuf is sized before the buffer is
allocated). `pbuf_take` copies the whole record or nothing (`TakeRecord`, `carried`), and
the reply is sent either way. `MemMayFail` lets `udp_new`, `udp_bind`, `pbuf_alloc` and the buffer of
`udp_demo_test` fail; after a failed `udp_new` the control block that is
closed is NULL, and the write through it may end in a fault (`WriteThroughNull`), where the
model stops, or go unnoticed (`Close`). The buffer of `udp_demo_senddata` is assumed to be
had (the code does not look); `Board` shows that it is.

### Dhcp, MCDhcp, DhcpProofs

`lwip_dhcp_process_handle` is `Process0`, `Started`, `Adopt`, `NotYet`, `ReadTries`,
`SetStatic`. The client's functions exist twice. In the main loop they run access by
access, with the handler between any two: `dhcp_set_state` is `TestState`, `StoreState`,
`ResetTries`, `ResetTimer`; a message is `Create`, `SendTo`, `DeleteMsg`; `tries++` is
`LoadTries`, `StoreTries`; `request_timeout` is computed (`ComputeTimeout`) and stored
(`Arm`); `dhcp_bind` is `StartLease`, `SetAddress`, `Raise` and then `dhcp_set_state`;
`dhcp_release` ends with `TakeDown`, `ClearAddress`. `doing` is the function, `then` where main
goes on after it. `dhcp_fine_tmr` reads `request_timeout` up to three times: `Tick` for
the first test, `IsLast` for the second, `LoadTimer` and `CountDown` or `CountOn` for the
decrement; `dhcp_timeout` reads state and tries in `TimeOut`, `TimeOutWaiting`, `TimeOutTries`.
The project builds without optimisation, so the compiler reads each time; a build
that reads less often does what this model does when the handler stays away in between.

In the handler the same functions are whole (`SetState`, `CreateMsg`, `SendMsg`, `Check`,
`Bound`): `Offer`, `Ack`, `AckRenewed`, `Nak`, `ArpReply`. A server answers only a message on
the wire with the current transaction number (`client.sent`). `pout` says whose message is in
`dhcp->p_out`; if the handler builds one over the main loop's, the latter is lost, and the
handler's `dhcp_delete_msg` leaves the main loop a NULL `p_out` to write its options through:
`Fault`, where the model stops. Writing the address, the netmask and the gateway is one step,
because nothing else reads the last two.

`request_timeout` is `Off`, `Last` (about to trigger) or `Many`: a timeout may expire at any of
the ticks after it is set. Memory for messages is assumed to suffice, and offers to have their
server identifier. `tries` stays at `TriesBound` (9), above every value the code compares it
with, for any number of tries before it wraps from 255 to 0 (`StoreTries`); `wrapped` marks that.
t1 and t2, which a lease sets, run out at any later visit (`LeaseTimeout`).

### Board, MCBoard, BoardProofs

The system around the pool. `pc` is the place in `main` and `udp_demo_test` at the
granularity of pool calls and boot stages; `isr` is the handler's place in
`ethernetif_input`. `MempMalloc`, `HeapMalloc`, `Release` are
`lwip_comm_mem_malloc`, which asks for both areas whatever the first answer was;
`ChipFails` and `ChipStarts` are the two outcomes of `ENC28J60_Init`; `Retry` is
`main`'s loop. From `ChipStarts` on frames interrupt: before `lwip_init` they find no
pbufs and are dropped, between it and `netif_add` they are passed to a null
`netif->input` (`CallNull`, after which nothing is modelled). `held` has every
buffer with its owner, place and use, and requests are served as `malloc.c` serves them,
the highest run of free blocks (`Highest`); that each is one step is what
`AtomicPool` of `Malloc` shows. `Ask` is a request whose answer the code does not
look at: `starved` collects the uses that were refused. Sizes come from the
code (`MCBoard` has the scaled ones); `BoardAssumption` says what they must satisfy.

### Bank (proofs in Enc28j60Proofs)

Main inside `ENC28J60_PHY_Read` after `INTIE` has been set, each byte on the SPI bus a step
(`Select`, `Opcode`, `Data`, and `Test` and `Note` for the cache), and the handler
entering between any two. `Enter` models what the electrical interleaving does: the
handler's first command arrives while the chip is still selected by main's, so its
first byte is main's data, and raising CS ends both. A register's bank is the set of
its BSEL bits. `Round` is one round of `ENC28J60_ISRHandler` as the list of registers
it accesses (`Uninterrupted`: the bank at each access, `BankAt`, follows from the cache before
it), `missed` the ghost of accesses that fell into another bank. The module's names differ
from those of `Enc28j60`, so that one module can hold what is proved about both. Main's own
accesses may well miss there (a wrong duplex message is all that follows: the
value is only printed), and the model lets them.

### Clock, MCClock, ClockProofs

One unit of time is an update of TIM3. `Pass` lets a unit go by while somebody waits,
and once a round for all other instructions. `Update` is the handler of TIM3, `Pended` the
one update that waited for EXTI1; more are lost, as on the chip. SysTick is `load`,
`val`, `enable`, `flag`; main's `delay_ms` is one register access per step (`SetLoad`, `SetVal`,
`Enable`, `WaitOver`, `Stop`, `Clear`), and `MotorOn`, `MotorOff` are the delay of
`Open_Elengine_1` inside EXTI1, at any of these places. `TimerTest` and `TimerStamp` are
the two reads of `lwip_localtime` in `lwip_periodic_handle`, in u32 arithmetic over
`Wrap`. `demo` is false in `main`'s loop that waits for KEY1 and does not poll.
`main` starts TIM3 with `TIM3_Int_Init(1000,719)`, a period of 1001 counts: a unit is 10.01 ms and
not 10, which the model, counting updates, does not see.

### Memp, MempProofs

The free list of PBUF_POOL as head and links, which `memp_init` puts in some order
(`InFront`, the same as `pbuf_free` of a chain). Main's `memp_malloc` and
`memp_free` are three steps each, one per access; `Receive` is EXTI1, which takes a frame of
one or more pbufs and returns them at once (`handled`), keeps them (`fragment`), or
returns them with all that was kept (`last`). `clash` marks the cases that do break
the list: more than one pbuf, or one kept, inside main's few instructions. There the
model stops, because what follows is memory corruption. `Spells` says that head and links
spell out a sequence of pbufs to its end: a list without a loop and without a lost tail.

### Reass, MCReass, ReassProofs

`ip_reass`, one frame per step, since it runs in EXTI1: the limit
(`WithinLimit`), the search (`Position`), a new entry (`Enqueue`), the
insertion with its checks for holes as the code makes them (`Validates`), and the
delivery (`Deliver`). `RemoveOne` is one turn of `ip_reass_remove_oldest_datagram`, with its
pointer `prev` to the last entry but one; `RemoveOldest` takes two turns at most, because a
fragment needs two pbufs at most and every queued datagram gives one back at least, which
`TypeOK` states and the proof shows. The timers of datagrams are all equal, because
nothing calls `ip_reass_tmr` ("Should be called every 1000 msec", `ip_frag.c:119`).
The pool is shared with the pbuf of a reply. `Held` gives the pbufs of the list as
pairs of a datagram and a number, so that their sum is the size of a set. Fragments are
numbered in the datagram's order, and `holed` is the ghost of a delivery with a hole.

## 3. The runs

| Run | Shows | Bounds and why they are enough |
|---|---|---|
| `malloc` | The map is exact, NULL only without room, and `Malloc` implements `Pool`: no double allocation, and exactly what was allocated is freed | 4 blocks, requests of 1, 2 and 3 blocks (one of them not a multiple of 32): runs, fragmentation, a run at block 0, both contexts searching and marking in the same stretch |
| `enc_overflow` | The driver's safety properties under overflow, failed transmission, missing buffers and the PKTIF erratum, and what an overflow costs | receive memory of 2, 6 frames: two overflows with a read between them, the overwritten header read, and frames left behind by the extra PKTDEC |
| `enc_live` | Every frame is delivered and every `Packet_Send` returns, the waits under PRIMASK included | memory of 3 and 3 frames, so that nothing overflows; with overflow delivery is not promised |
| `udp` | Motor gate, nothing left behind by a test that returns, stale records known to be stale, and, while the endpoint is open, the gate opens again and the host is answered although a write may lose bit 6 | no counter grows; every set is complete; with keys, and with every failure of an allocation |
| `dhcp` | The supervision and the client agree about address and lease, a client that waits for a server has a timeout, and main's wait ends if the servers fall silent, except as `dhcp_watch` shows | two addresses: offer of one, renewal or conflict with the other |
| `dhcp_watch` | **Finding.** The ARP query is left without a timeout | as `dhcp` |
| `board` | Nobody is refused a buffer, the handler ends, and a failed `ENC28J60_Init` is for ever | 40 blocks of 1 KB, each buffer rounded up, frames of one to three blocks, so that the buffers of both contexts could leave gaps of different sizes; TLC also evaluates that the sizes of the build (1280 blocks of 32 bytes) meet the same assumption (`BuildFits`) |
| `bank` | No access of the handler or of a later transmission falls into another bank | none: the state is finite; `MISTAT` may be read any number of times |
| `clock` | Delays and timers, with the motor's delay anywhere in main's | intervals of 2 and 3, a wrap at 13, not a multiple of either; delays of 1 and 2, the motor's 2; elapsed time is counted up to 9, beyond every bound that is stated |
| `memp` | One owner per pbuf, except where `clash` says | 4 pbufs, frames of up to 2: main's, a chain, and one left; every initial order of the list |
| `reass` | Every pbuf accounted for; a full pool stays full; a datagram is delivered as soon as it is whole, and with a hole in one case only | pool and limit 5 (10 and 10 in the code), 3 entries (5), four datagrams, so that entries and pbufs run out, of 4 fragments of one or two pbufs |
| `reass_whole` | **Finding.** A datagram is delivered with a hole | as `reass`; 4 fragments are the fewest that show it |

`udp`, `dhcp`, `board` and `memp` do not check for deadlock because the model stops where
the board writes or calls through NULL (`WriteThroughNull`, `Fault`, `CallNull`) or the fragments hold
every pbuf; nor does `reass`, for the latter reason (and where a removal would be torn).
All other passing runs check it.

The properties that say most:

* `AtomicPool`: the allocator without a lock behaves as if each call were atomic.
  It holds because the handler gives back all it took: what the main loop had
  counted as free is free again when it goes on.
* `RoomForAll`: three places use a buffer without looking at the pointer
  (`ethernetif.c:37`, `udp_demo.c:205`) or would spin without one (`ethernetif.c:63`). None is ever
  refused: buffers are given back in the opposite order, so the pool has no holes
  (`NoFragments`, proved), and the largest load fits.
* `RetryInVain`: `lwip_comm_init` returns 2 without freeing, so the retry that `main`
  makes after a failed chip fails for memory, for ever.
* `NoSleep`: when the handler is out and EXTI1 not pending, the pin is high. Muting
  INTIE during a round and looping until the pin is high are what make an
  edge-triggered interrupt safe: setting INTIE again makes the edge anew, so every path
  through a round must come to line 500 (the mutant returns early for want of a buffer). `if` for
  the `while` of line 510 would be no worse: the pin's new edge is enough.
* `LagBounded`: EPKTCNT never promises a frame that is not there, although the error branch
  counts frames off by itself, and it hides no more frames than were refused.
* `OneLossHarmless`, `InOrder`: what an overflow costs. One refused frame destroys no header;
  it takes a second one before the next read. Until such a header is read the stack
  gets the frames in order, each at most once; from then on nothing is promised.
* `PrimaskBracketed`: no path leaves interrupts off behind it but the return of line
  430, and it only where PKTIF announced a frame EPKTCNT does not count. Checked with the erratum, which makes
  that return reachable.
* `AccessHits`: the handler trusts a cached bank that main may not have brought up to
  date. It is saved by reading, in each round, registers of every bank or of another one
  first; the mutant that leaves out the read of EPKTCNT breaks it.
* `HoleJustBelow`, `NoneWaitsComplete`: what `ip_reass` delivers, exactly. All whole
  datagrams, each with the fragment that completes it, and besides those of the finding of `reass_whole`: a
  single stretch is missing, neither at the start nor at the end, and its highest fragment comes.
* `OutdatedIsUnread`: a record that mixes two commands goes out only when a datagram
  came that this reply does not answer; with `Answered` another reply follows. Of a
  reply that carries no record (`carried`) it does not speak.
* `NothingLeft`: whichever allocation fails, a test that returns leaves nothing behind. After a
  failed `udp_new` it need not return.
* `WatchdogRuns`: however answers fall between the main loop's accesses to `tries` and
  `request_timeout`, a client that waits for an offer or an acknowledgement has a timeout running when
  main next looks, unless a renewal was tried 256 times. The ARP query and the
  decline are not covered: `AnswerAwaited` of `dhcp_watch` is the same for every state, and false.
* `LeaseHeld`: the interface has a leased address only while the client holds it, except
  between `dhcp_bind`'s and `dhcp_release`'s changes to the one and to the other, where an ARP reply may
  decline the address that is being set.
* `Decided`: if the servers fall silent at some time, the address is got or the tries run out, or
  the board has stopped in `Fault`, or the client is one of those `dhcp_watch` shows.
* `DelayKept`: `Open_Elengine_1` in EXTI1 reprograms and then stops the SysTick that
  main waits for. Main then sees ENABLE clear, or waits once more for what is in LOAD;
  never too short, and no longer than two motor delays more.
* `TimersRun`: u32 differences work over the wrap as long as a round of main
  comes within `Wrap` less the interval. A `Wrap` of 12 with a motor delay of 3 fails; the code
  has 2^32 ms and a motor delay of a second.
* `DeadForGood`: no timer gives incomplete datagrams up. When they hold the whole pool
  the board neither receives nor replies until it is reset.

### What the code does against its own documents

Two are runs, and are listed under `findings` in `PROJECT.json`:

* `reass_whole`: `ip_frag.c:568-569` says that a datagram is complete when "all fragments are
  received". Fragments 1, 4, 3 of 4 complete it: the insertion of a fragment before another (358-374) does not
  compare it with the one in front.
* `dhcp_watch`: `dhcp.c:365-366` says that the timer "checks whether an outstanding DHCP request is
  timed out". `dhcp_fine_tmr` tests `request_timeout` in line 377 and reads it again in 378; an offer and its
  acknowledgement in between set it to 1 for the ARP query, and 378 makes it 0
  without `dhcp_timeout`. The client stays in CHECKING and main at `main.c:52` for as long as no ARP reply comes.

The following disagreements are in the models too, as
actions the code takes, and no property excludes them:

* `enc28j60.c:491` sets PKTDEC without having read a frame, although the comment at
  458 says that it marks a frame as read: after an overflow EPKTCNT is one short
  (`SkipByte`; `LagBounded` says by how much).
* `enc28j60.c:488` moves ERXRDPT beyond `NextPacketPtr`, although 454-455 say that only
  memory that was read is freed: a second overflow writes over a header, and what it then
  describes is delivered (`ahead`, `smashed`, `wild`, `Copy`).
* `udp_demo.c:151` is a read-modify-write. A datagram inside it loses bit 6 and
  leaves `elengine_wyx` 0: one command does not turn the motor, against `readme.md:339`
  (`LoadForClear`, `StoreCleared`).
* `readme.md:489-490` says that `udp_demo_sendbuf` is put into `ptr` and `ptr` is sent. The pbuf is as
  long as the reply before it, or as the string at address 0; into one that is shorter than the
  record `pbuf_take` copies nothing (`pbuf.c:976`), and it is sent with what the pool had in it
  (`TakeRecord`, `carried`).
* `udp_demo.c:156` closes the connection of a control block that `udp_new` could not give:
  `udp_disconnect` writes through NULL (`WriteThroughNull`).
* `dhcp.c:1064` makes `request_timeout` 0 when `tries` has wrapped to 0 (`wrapped`).
* `dhcp.c:430` binds the address that an ARP reply, handled since line 424, has declined
  (`StartLease` with the client in `backing_off`).
* `lwip_comm.c:244` takes the static address and leaves the client running: a late
  answer takes it away again (`SetStatic`, then `Ack` or `Nak`).
* `dhcp.c:1662` asserts that no message is under construction; the handler
  builds one in the main loop's `p_out` (`HandlerSends`, `Fault`).
* `opt.h:549-551` asks for PBUF_POOL_SIZE above IP_REASS_MAX_PBUFS; here both are 10
  (`DeadForGood`). `BuildAssumption` states that the limit is no smaller; with a limit below
  the pool TLC finds `NothingLost` violated:
  `ip_reass_remove_oldest_datagram` then runs, and its `prev` (248-250) is
  not the predecessor of the removed datagram if the fragment belongs to the last one
  of the list.
* `memp.c` is built without protection, while `rawapi.txt:26-47` allows the raw API
  from one context only (`clash`).

### Fairness

`FairSpec` of `Enc28j60`: weak fairness of the handler, of `Packet_Send` in each
context (a processor does not stop) and of `TxEnd` (the chip ends a
transmission it has begun) and of the end of a frame that is coming in (`Arrive \/ Overflow`); strong
fairness of `InputDone`, because the stack answers a frame with finitely many. Not of `RxBegin` or of
calls to `Packet_Send`. The frames of a behaviour are finitely many, so the
poll of RXBUSY meets a gap between two; under traffic without any gap it need not end, and that is
the code's own behaviour.
`LiveSpec` of `UdpDemo`: weak fairness of the main loop, and of the host, which the
two properties presume ("a host that keeps sending"); strong fairness of `Poll`, because between two
looks at the keys the loop looks at bit 6, and of an `AllocPbuf` that succeeds, because EXTI1 gives
back the pbufs it takes. `GateReopens` does without the latter; the properties end with
the endpoint (`Ended`). `LiveSpec` of `Dhcp`: weak fairness of
the main loop; strong fairness of `CountDown`, because the tick counter is decremented
at every visit to the timers, so a timeout which is counted does come down to 1, though
`CountDown` is enabled only while main is at that line. Nothing is assumed of the
servers; `Decided` presumes that they fall silent at some time.
`FairSpec` of `Board`: strong fairness of the boot's steps, which the handler may
interrupt again and again, but whose turn comes between two frames; weak fairness of
the handler's steps and strong fairness of its return, because the stack answers a
frame with finitely many. Not of the arrival of frames or of what the user does.
`FairSpec` of `Clock`: weak fairness of time (`Pass`), of TIM3's pending update, of the handler's return and of
main, which do not stop. Not of commands that turn the motor.

## 4. The proofs

Each module's assumptions are the named `ASSUME` in it and no more:
`MallocAssumption` (positive sizes that `nmemb`, a u16, can count),
`EncAssumption`, `UdpAssumption`, `DhcpAssumption` (types of the parameters),
`BoardAssumption` (the largest load fits into the pool, a second `memp_memory` does not:
with the code's sizes both are so), `ClockAssumption` (intervals below the wrap,
delays no longer than the motor's), `MempAssumption` (finitely many pbufs, none of them NULL),
`ReassAssumption` (types; fragments numbered from 1 to their number, an entry at least) and `BuildAssumption`
(the pool is not larger than the limit of `ip_reass`: 10 and 10 in this build). Every
proof has the same shape: `IInv` holds initially (`InitInv`), every action keeps
it (one lemma per action or group), so `Spec => []IInv`; the properties follow
from it. Each `IInv` was checked by TLC on its run's instance before it was proved.

* **MallocProofs**, for every number of blocks and set of sizes: `InductiveInvariant`,
  `TypeCorrect`, `LiveAllocationsApart`, `LengthsKept`, `NothingLost`, and the refinement
  `ImplementsPool`. No single property is inductive: `NoOverlap` needs to know
  what a search has found and a marking has in hand. `IInv` says of every block
  whose it is (`HeldBy`, `InHand`), that the map agrees, and that what the running
  context has `Found` is nobody's. For the interrupted main loop the last part
  fails while the handler runs, and is regained on return because
  `HeldBy("isr")` is empty then. The action property `FailsForWantOfRoom`
  (`FailsOnlyWhenFull`) needs the history of a search: `SearchInv` says that no run which
  would do begins above the blocks a search counts now, and that the block above
  them is taken. It is stated of the blocks that are `Vacant` for the context: what the handler holds does not
  count for main, which never sees it, since all of it is given back before main looks
  again. So the handler may come and go anywhere in a search of main without making it fail.
* **Enc28j60Proofs**, for every size of the receive memory and number of frames:
  `DriverInvariant`, `TypeCorrect`, `NeverSleeps`, `BusIsExclusive`, `LagIsBounded`, `DeliveredInOrder`,
  `OneLossIsHarmless`, `PrimaskIsBracketed`, with and without the erratum, and `NeverLeftMasked`, which says that with
  an exact PKTIF interrupts are never off outside the two calls. `DriverInv`
  ties INTIE and PRIMASK to the place in the handler; `OrderInv` orders the
  frames in the chip after those delivered, until a header that was overwritten has been read.
  The module's second part is about `Bank`: `BankInvariant`, `BankTypeCorrect`, `AccessesHit`.
  `AccessHits` alone says nothing of the next access. `BankInv` adds how far main's command is
  and what the chip has of it (`link`), and that, except between main's BFC and its note
  of the new bank, the cache does not name bank 0 while another is selected.
  `AskingSettles` is the core of it: EIR, which a round reads first, is in every bank, and
  EPKTCNT, always next, is in none that the cache names after it, so the bank is set anew
  whatever it was. `BankSend` needs the clause about bank 0, since no register of a send
  is in another; `BankEnter` shows that the handler's stray byte cannot break it.
* **UdpDemoProofs**: `Invariant`, `TypesHold`, `MotorTurnsOnce`, `NothingIsLeft`, `OutdatedIsKnown`.
  `ResourceInv` gives the resources at every point of the main loop, the fault included; `CopiedInv`
  follows the record from its first field on.
* **DhcpProofs**, for every set of addresses: `Invariant`, `TypesHold`, `WatchdogAlwaysRuns`,
  `LeaseIsHeld`, `BoundIsReachable`, `RestartIsSafe`, `OnlyLeasesAdopted`. `ControlInv`
  says which function main may be in at which access, `FirstInv` that nothing is bound before the
  second `dhcp_start`, `ClientInv` what the client's state says whatever the
  handler did since main has read it, `AddressInv` who has an address and from where, `TimerInv`
  who has to set the timeout of a client that waits without one, and what main has
  read of it. `WatchdogRuns` is not inductive without the last: at the store of a
  decrement the value read must be more than 1 if the client waits for a server.

* **BoardProofs**, for every size of pool and buffers that fits: `BoardInvariant`,
  `BoardTypes`, `AlwaysRoom`, `NeverFragmented`, `FailureIsFinal`. That nobody is
  refused is not inductive without knowing where everything lies. `Layout` says
  it: lwIP's areas at the top, then main's buffer, its reply, the frame it sends, the
  handler's last. `TopRun` is the lemma that on a stack of buffers the first fit from
  the top is right under the lowest one.
* **ClockProofs**, for every list of intervals, set of delays and wrap: `ClockInvariant`,
  `ClockTypes`, `TimersKeepIntervals`, `DelaysBounded`. `CountsBehind` relates the wrapped
  difference of stamps to the time that has passed, the pending update included. `Paid`
  bounds at every place of a delay what it has taken and what SysTick still
  has to count, with one term for a motor run that may still come.

* **MempProofs**, for every set of pbufs and frames of every length: `FreeListInvariant`, `PbufTypes`,
  `PbufsHaveOneOwner`. The sequence that head and links spell out (`Spells`), main's pbuf and the
  fragments' partition the pbufs. A frame of one pbuf that is taken and given back leaves
  head and links exactly as they were, so `MainInv`, what main has read of them, survives
  it in the middle of `memp_malloc` and `memp_free`; outside them it says nothing, and chains and
  fragments are harmless there. `Place` picks the one place of a pbuf in a sequence, and a
  chain from the head is a prefix of the sequence.
* **ReassProofs**, for every pool no larger than the limit, and every number of entries,
  datagrams and fragments: `ReassemblyInvariant`, `ReassemblyTypes`, `NoPbufIsLost`,
  `FullPoolIsDead`, `CompleteIsDelivered`, `HolesJustBelow`. `Sound` says of what `ip_reass` works on that the count is the size of
  `Held` and that pool and list together have the room the reply leaves; each step of
  `ip_reass` keeps it (`FreeDatagramSound`, `RemoveOldestSound`, `EnqueueSound`, `ChainSound`,
  `IpReassSound`). The limit is never exceeded by a fragment the pool had pbufs for. So an old datagram
  is looked for only when the entries are used up, none of them is then the
  fragment's own, and `prev`, the last entry but one, is the right predecessor.
  Neither `TypeOK` nor `NothingLost` is inductive alone; with `NoneWaitsComplete` they are.
  What is delivered is a matter of numbers (`CompleteValidates`, `HoleBelow`): fragments of
  which each but the first follows another are a stretch (`Stretch`, by the greatest number
  that is missing). `Queued` and `QueuedAt` say what a fragment is chained into,
  so that `IpReassSound` and `IpReassHole` share the path through `ip_reass`.

Only model-checked: the liveness properties (`FrameDelivered`, `SendReturns`,
`GateReopens`, `Answered`, `Decided`, `HandlerEnds`, `TimersRun`; liveness under fairness is out
of the prover's reach). The findings are false and cannot be proved. Every invariant and every action property that a
passing run checks is a theorem; of `Bank` and `Memp` also the types, which their runs leave to
the inductive invariant (`SoleOwner` has the list's).

To check: `tlc -config X.cfg MCModule` for a run (the pairs are in `PROJECT.json`),
`tlapm ModuleProofs.tla` for the proofs.

## 5. What is not modelled, and why

* lwIP is vendored and is most of the repository's lines, with ST's library. Of lwIP
  the DHCP client, the pbuf pool and IP reassembly are modelled, because this program's
  configuration and its two contexts decide how they behave; TCP, DNS, SNMP, PPP,
  sockets and the other protocols are not: no code of this program opens a TCP connection
  or asks a name server, several are not compiled in, and they have no behaviour of this
  program's making. The share of the repository's lines the models stand for is
  small for this reason; of this program's own concurrent code nearly all is modelled.
* Bytes: frame contents, register values, timing on GPIO lines. `setdata`, `readrecv` and the
  checksum of the DHT11 are functions of a few bytes in one context.
* LEDs, serial output, display, FSMC and vendor start-up code: pure output or
  configuration. USMART, the display and EXTI0 are never initialised by `main`.

## 6. Plan

1. **The heap** `mem.c` of lwIP, used by both contexts as the free lists are.
2. **`etharp.c`**: the table aged by the main loop and updated by EXTI1, with queued pbufs.
3. **`udp.c`**: the list of control blocks walked by EXTI1 while main removes from it.

Twelve runs carry the project; a new one takes the place of a weaker one.
