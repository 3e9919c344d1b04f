------------------------------ MODULE Enc28j60 ------------------------------
(***************************************************************************)
(* HARDWARE/ENC28J60/enc28j60.c after ENC28J60_Init, together with what    *)
(* LWIP/.../netif/ethernetif.c does between a received frame and the       *)
(* stack: EXTI1_IRQHandler, ENC28J60_ISRHandler, ENC28J60_Packet_Receive   *)
(* and ENC28J60_Packet_Send, and the Ethernet chip they talk to.           *)
(*                                                                         *)
(* Three parties run: the chip (frames arrive and transmissions end at any *)
(* time), the EXTI1 handler, and the main loop, which the handler          *)
(* interrupts unless PRIMASK is set.  The chip's INT pin is low while a    *)
(* flag is up and INTIE is set; only its falling edge makes EXTI1 pending. *)
(*                                                                         *)
(* The receive memory is a queue of frames.  EPKTCNT is the chip's own     *)
(* count of them: what the driver believes it has left to read.            *)
(***************************************************************************)
EXTENDS Integers, Sequences

CONSTANTS
  FifoRoom,      \* frames the receive memory holds
  MaxFrames,     \* bound: frames that arrive in a behaviour
  AllocMayFail,  \* mymalloc(SRAMIN, 1600) may return NULL
  PktifExact     \* EIR.PKTIF always says whether EPKTCNT > 0

(* PktifExact = FALSE is a chip with the silicon erratum "PKTIF does not     *)
(* reliably report the status of pending packets".                           *)
ASSUME EncAssumption ==
  /\ FifoRoom \in Nat \ {0}
  /\ MaxFrames \in Nat
  /\ AllocMayFail \in BOOLEAN
  /\ PktifExact \in BOOLEAN

Ctx == {"main", "isr"}

Latched == {"TXIF", "RXERIF", "TXERIF"}     \* the EIR flags the driver must clear
Flags == Latched \cup {"PKTIF"}

VARIABLES
  fifo,       \* chip: frames in the receive memory that were not freed
  epktcnt,    \* chip: EPKTCNT
  eir,        \* chip: EIR without PKTIF, which follows EPKTCNT
  intie,      \* chip: EIE.INTIE
  txrts,      \* chip: ECON1.TXRTS, a frame is being transmitted
  ahead,      \* ERXRDPT is beyond NextPacketPtr
  smashed,    \* the header at NextPacketPtr was overwritten
  wild,       \* NextPacketPtr was read from an overwritten header
  rxbusy,     \* chip: ESTAT.RXBUSY, a frame is coming in
  pend,       \* EXTI1 is pending
  primask,    \* INTX_DISABLE is in force
  isr,        \* where EXTI1_IRQHandler is
  status,     \* ENC28J60_ISRHandler: status
  send,       \* where each context is inside ENC28J60_Packet_Send
  arrived,    \* ghost: frames so far
  lost,       \* ghost: how many of them the receive memory had no room for
  delivered   \* ghost: frames read out of the chip, in order; 0 is no frame

rx   == <<fifo, epktcnt, ahead, smashed, wild, rxbusy, arrived, lost, delivered>>
cpu  == <<primask, isr, status, send>>
vars == <<fifo, epktcnt, eir, intie, txrts, ahead, smashed, wild, rxbusy, pend,
          primask, isr, status, send, arrived, lost, delivered>>
-----------------------------------------------------------------------------
IntLow == intie /\ (eir # {} \/ epktcnt > 0)     \* ENC28J60_INT == 0

(* EXTI1 is configured for the falling edge. *)
Edge == pend' = (pend \/ (IntLow' /\ ~IntLow))

(* An interrupt that may be taken is taken before the main loop goes on. *)
MainRuns == isr = "off" /\ (primask \/ ~pend)

Init ==
  /\ fifo = << >> /\ epktcnt = 0 /\ eir = {} /\ intie = TRUE /\ txrts = FALSE
  /\ ahead = FALSE /\ smashed = FALSE /\ wild = FALSE
  /\ rxbusy = FALSE
  /\ pend = FALSE /\ primask = FALSE
  /\ isr = "off" /\ status = {} /\ send = [c \in Ctx |-> "none"]
  /\ arrived = 0 /\ lost = 0 /\ delivered = << >>
-----------------------------------------------------------------------------
(* A frame comes in.  When it has ended ... *)
RxBegin ==
  /\ ~rxbusy /\ rxbusy' = TRUE
  /\ arrived < MaxFrames
  /\ UNCHANGED <<fifo, epktcnt, eir, intie, txrts, ahead, smashed, wild, pend,
                 arrived, lost, delivered, cpu>>

(* ... the chip has stored it, ...                                           *)
(* Once NextPacketPtr is wild, ERXRDPT is written from it, and the room the  *)
(* chip believes to have is anything.                                        *)
Arrive ==
  /\ rxbusy /\ rxbusy' = FALSE
  /\ wild \/ Len(fifo) < FifoRoom
  /\ arrived' = arrived + 1
  /\ fifo' = Append(fifo, arrived + 1)
  /\ epktcnt' = epktcnt + 1
  /\ UNCHANGED <<eir, intie, txrts, ahead, smashed, wild, lost, delivered, cpu>>
  /\ Edge

(* ... or had no room for it: it wrote up to ERXRDPT, gave up and flagged    *)
(* the loss.  With ERXRDPT beyond NextPacketPtr it has written over the      *)
(* header of the oldest frame.                                               *)
Overflow ==
  /\ rxbusy /\ rxbusy' = FALSE
  /\ wild \/ Len(fifo) >= FifoRoom
  /\ arrived' = arrived + 1
  /\ lost' = lost + 1
  /\ eir' = eir \cup {"RXERIF"}
  /\ smashed' = (smashed \/ ahead)
  /\ UNCHANGED <<fifo, epktcnt, intie, txrts, ahead, wild, delivered, cpu>>
  /\ Edge

(* A transmission ends; a failed one is flagged as such. *)
TxEnd ==
  /\ txrts /\ txrts' = FALSE
  /\ \E failed \in {{}, {"TXERIF"}} : eir' = eir \cup {"TXIF"} \cup failed
  /\ UNCHANGED <<intie, rx, cpu>>
  /\ Edge
-----------------------------------------------------------------------------
(* EXTI1_IRQHandler is entered, ... *)
IsrEnter ==
  /\ pend /\ ~primask /\ isr = "off"
  /\ isr' = "ack"
  /\ UNCHANGED <<eir, intie, txrts, pend, primask, status, send, rx>>

(* ... clears the pending bit, ... *)
Ack ==
  /\ isr = "ack" /\ isr' = "test"
  /\ pend' = FALSE
  /\ UNCHANGED <<eir, intie, txrts, primask, status, send, rx>>

(* ... and calls ENC28J60_ISRHandler, which mutes the pin, ... *)
LoopOn ==
  /\ isr = "test" /\ IntLow
  /\ isr' = "read"
  /\ intie' = FALSE
  /\ UNCHANGED <<eir, txrts, primask, status, send, rx>>
  /\ Edge

(* ... until the pin is high. *)
LoopEnd ==
  /\ isr = "test" /\ ~IntLow
  /\ isr' = "off"
  /\ UNCHANGED <<eir, intie, txrts, pend, primask, status, send, rx>>

ReadEir ==
  /\ isr = "read" /\ isr' = "pkt"
  /\ \E pktif \in IF PktifExact THEN {epktcnt > 0} ELSE BOOLEAN :
       status' = eir \cup (IF pktif THEN {"PKTIF"} ELSE {})
  /\ UNCHANGED <<eir, intie, txrts, pend, primask, send, rx>>
-----------------------------------------------------------------------------
NoPacket ==
  /\ isr = "pkt" /\ "PKTIF" \notin status
  /\ isr' = "txif"
  /\ UNCHANGED <<eir, intie, txrts, pend, primask, status, send, rx>>

(* Mutant: without a buffer the handler returns at once, past line 500. *)
AllocFailsReturns ==
  /\ isr = "pkt" /\ "PKTIF" \in status
  /\ AllocMayFail
  /\ isr' = "test"
  /\ UNCHANGED <<eir, intie, txrts, pend, primask, status, send, rx>>

(* low_level_input has no buffer: the frame stays in the chip. *)
AllocFails ==
  /\ isr = "pkt" /\ "PKTIF" \in status
  /\ AllocMayFail
  /\ isr' = "txif"
  /\ UNCHANGED <<eir, intie, txrts, pend, primask, status, send, rx>>

(* ENC28J60_Packet_Receive finds EPKTCNT = 0 and returns 0 at once, with     *)
(* interrupts off.  The empty pbuf that low_level_input makes of it is       *)
(* refused by ethernet_input.                                                *)
ReceiveNothing ==
  /\ isr = "pkt" /\ "PKTIF" \in status /\ epktcnt = 0
  /\ isr' = "txif"
  /\ primask' = TRUE
  /\ UNCHANGED <<eir, intie, txrts, pend, status, send, rx>>

(* Lines 429-431: EPKTCNT is not 0, and the driver polls RXBUSY, without a   *)
(* bound and with interrupts off, ...                                        *)
StartReceive ==
  /\ isr = "pkt" /\ "PKTIF" \in status /\ epktcnt > 0
  /\ isr' = "busy"
  /\ primask' = TRUE
  /\ UNCHANGED <<eir, intie, txrts, pend, status, send, rx>>

(* ... until no frame is coming in.  Then the header at NextPacketPtr is     *)
(* read; its first two bytes are the next NextPacketPtr.                     *)
ReadHeader ==
  /\ isr = "busy" /\ ~rxbusy
  /\ isr' = "recv"
  /\ wild' = (wild \/ smashed)
  /\ UNCHANGED <<eir, intie, txrts, pend, primask, status, send, fifo, epktcnt,
                 ahead, smashed, rxbusy, arrived, lost, delivered>>

(* What reaches the stack.  A header that was overwritten gives length and   *)
(* status as they come: nothing, a frame that was read before or is to be    *)
(* read yet, or no frame at all is copied and handed on.                     *)
Copy ==
  IF wild THEN delivered' \in {delivered} \cup {Append(delivered, f) : f \in 0 .. arrived}
          ELSE delivered' = Append(delivered, Head(fifo))

(* Mutant: PKTDEC twice for one frame. *)
FinishReceiveTwice ==
  /\ isr = "recv" /\ isr' = "input"
  /\ Copy
  /\ fifo' = IF wild THEN fifo ELSE Tail(fifo)
  /\ epktcnt' = epktcnt - 2
  /\ ahead' = FALSE /\ smashed' = FALSE /\ primask' = FALSE
  /\ UNCHANGED <<eir, intie, txrts, wild, rxbusy, status, send, arrived, lost>>
  /\ Edge

(* Mutant: NextPacketPtr is not advanced. *)
FinishReceiveAgain ==
  /\ isr = "recv" /\ isr' = "input"
  /\ Copy
  /\ epktcnt' = epktcnt - 1
  /\ ahead' = FALSE /\ smashed' = FALSE /\ primask' = FALSE
  /\ UNCHANGED <<fifo, eir, intie, txrts, wild, rxbusy, status, send, arrived, lost>>
  /\ Edge

(* Mutant: line 460 is left out, as it is on the path of line 430. *)
FinishReceiveMasked ==
  /\ isr = "recv" /\ isr' = "input"
  /\ Copy
  /\ fifo' = IF wild THEN fifo ELSE Tail(fifo)
  /\ epktcnt' = epktcnt - 1
  /\ ahead' = FALSE /\ smashed' = FALSE
  /\ UNCHANGED <<eir, intie, txrts, wild, rxbusy, primask, status, send, arrived, lost>>
  /\ Edge

(* Lines 446-460: the frame is copied, its memory freed and counted off.     *)
FinishReceive ==
  /\ isr = "recv" /\ isr' = "input"
  /\ Copy
  /\ fifo' = IF wild THEN fifo ELSE Tail(fifo)
  /\ epktcnt' = epktcnt - 1
  /\ ahead' = FALSE /\ smashed' = FALSE /\ primask' = FALSE
  /\ UNCHANGED <<eir, intie, txrts, wild, rxbusy, status, send, arrived, lost>>
  /\ Edge

(* netif->input is done with the frame: it has sent as many frames as it     *)
(* had to, and may have had no pbuf for this one.                            *)
InputDone ==
  /\ isr = "input" /\ send["isr"] = "none"
  /\ isr' = "txif"
  /\ UNCHANGED <<eir, intie, txrts, pend, primask, status, send, rx>>
-----------------------------------------------------------------------------
ClearTxif ==
  /\ isr = "txif" /\ isr' = "rxer"
  /\ eir' = IF "TXIF" \in status THEN eir \ {"TXIF"} ELSE eir
  /\ UNCHANGED <<intie, txrts, primask, status, send, rx>>
  /\ Edge

(* Mutant: the braces of line 483 are missing, so ERXRDPT always moves. *)
SkipAlways ==
  /\ isr = "rxer" /\ "RXERIF" \notin status
  /\ isr' = "skip"
  /\ UNCHANGED <<eir, intie, txrts, pend, primask, status, send, rx>>

NoRxer ==
  /\ isr = "rxer" /\ "RXERIF" \notin status
  /\ isr' = "txer"
  /\ UNCHANGED <<eir, intie, txrts, pend, primask, status, send, rx>>

(* Mutant: another flag is cleared. *)
ClearRxerWrong ==
  /\ isr = "rxer" /\ "RXERIF" \in status
  /\ isr' = "skip"
  /\ eir' = eir \ {"TXERIF"}
  /\ UNCHANGED <<intie, txrts, primask, status, send, rx>>
  /\ Edge

ClearRxer ==
  /\ isr = "rxer" /\ "RXERIF" \in status
  /\ isr' = "skip"
  /\ eir' = eir \ {"RXERIF"}
  /\ UNCHANGED <<intie, txrts, primask, status, send, rx>>
  /\ Edge

(* Lines 486-491: ERXRDPT goes one byte on and a frame is counted off.  At 0 *)
(* EPKTCNT stays at 0.                                                       *)
SkipByte ==
  /\ isr = "skip" /\ isr' = "txer"
  /\ ahead' = TRUE
  /\ epktcnt' = IF epktcnt > 0 THEN epktcnt - 1 ELSE 0
  /\ UNCHANGED <<eir, intie, txrts, primask, status, send, fifo, smashed, wild,
                 rxbusy, arrived, lost, delivered>>
  /\ Edge

ClearTxer ==
  /\ isr = "txer" /\ isr' = "unmute"
  /\ eir' = IF "TXERIF" \in status THEN eir \ {"TXERIF"} ELSE eir
  /\ UNCHANGED <<intie, txrts, primask, status, send, rx>>
  /\ Edge

Unmute ==
  /\ isr = "unmute" /\ isr' = "test"
  /\ intie' = TRUE
  /\ UNCHANGED <<eir, txrts, primask, status, send, rx>>
  /\ Edge
-----------------------------------------------------------------------------
(* ENC28J60_Packet_Send, called by low_level_output from the main loop or,   *)
(* for a reply, from netif->input.                                           *)
MaySend(c) == IF c = "main" THEN MainRuns ELSE isr = "input"

(* Mutant: interrupts stay on during a transmission. *)
SendStartUnmasked(c) ==
  /\ MaySend(c) /\ send[c] = "none"
  /\ send' = [send EXCEPT ![c] = "wait"]
  /\ UNCHANGED <<eir, intie, txrts, pend, primask, isr, status, rx>>

SendStart(c) ==
  /\ MaySend(c) /\ send[c] = "none"
  /\ send' = [send EXCEPT ![c] = "wait"]
  /\ primask' = TRUE
  /\ UNCHANGED <<eir, intie, txrts, pend, isr, status, rx>>

(* Lines 393-415: the transmitter is idle, the frame is copied and started. *)
SendLoad(c) ==
  /\ send[c] = "wait" /\ ~txrts
  /\ send' = [send EXCEPT ![c] = "check"]
  /\ txrts' = TRUE
  /\ UNCHANGED <<eir, intie, pend, primask, isr, status, rx>>

SendDone(c) ==
  /\ send' = [send EXCEPT ![c] = "none"]
  /\ primask' = FALSE
  /\ UNCHANGED isr

(* Mutant: the frame is sent again until TXERIF is down. *)
SendAbortRetries(c) ==
  /\ send[c] = "check" /\ "TXERIF" \in eir
  /\ send' = [send EXCEPT ![c] = "wait"]
  /\ txrts' = FALSE
  /\ UNCHANGED <<eir, intie, pend, primask, isr, status, rx>>

(* Lines 417-418: if TXERIF is up, whichever frame it is from, TXRTS is      *)
(* cleared.  The chip may or may not count that as a failed transmission.    *)
SendAbort(c) ==
  /\ send[c] = "check" /\ "TXERIF" \in eir
  /\ SendDone(c)
  /\ txrts' = FALSE
  /\ \E flags \in {{}, {"TXIF", "TXERIF"}} : eir' = eir \cup flags
  /\ UNCHANGED <<intie, status, rx>>
  /\ Edge

(* Mutant: the function returns without INTX_ENABLE. *)
SendReturnMasked(c) ==
  /\ send[c] = "check" /\ "TXERIF" \notin eir
  /\ send' = [send EXCEPT ![c] = "none"]
  /\ UNCHANGED <<eir, intie, txrts, pend, primask, isr, status, rx>>

SendReturn(c) ==
  /\ send[c] = "check" /\ "TXERIF" \notin eir
  /\ SendDone(c)
  /\ UNCHANGED <<eir, intie, txrts, pend, status, rx>>

Send(c) == SendLoad(c) \/ SendAbort(c) \/ SendReturn(c)

Handler ==
  \/ IsrEnter \/ Ack \/ LoopOn \/ LoopEnd \/ ReadEir
  \/ NoPacket \/ AllocFails \/ ReceiveNothing
  \/ StartReceive \/ ReadHeader \/ FinishReceive \/ InputDone
  \/ ClearTxif \/ NoRxer \/ ClearRxer \/ SkipByte \/ ClearTxer \/ Unmute

Next ==
  \/ RxBegin \/ Arrive \/ Overflow \/ TxEnd
  \/ Handler
  \/ \E c \in Ctx : SendStart(c) \/ Send(c)

Spec == Init /\ [][Next]_vars

(* The processor runs, a frame on the wire ends, and a transmission ends:    *)
(* the chip keeps TXRTS up no longer than the medium needs.  netif->input    *)
(* sends finitely many frames for one it is given.                           *)
Fairness ==
  /\ WF_vars(Handler) /\ SF_vars(InputDone)
  /\ WF_vars(Arrive \/ Overflow) /\ WF_vars(TxEnd)
  /\ \A c \in Ctx : WF_vars(Send(c))

FairSpec == Spec /\ Fairness
-----------------------------------------------------------------------------
Frames == 1 .. MaxFrames
Contents == 0 .. MaxFrames     \* what is read out: a frame, or no frame

TypeOK ==
  /\ fifo \in Seq(Frames) /\ delivered \in Seq(Contents)
  /\ epktcnt \in Nat /\ arrived \in 0 .. MaxFrames /\ lost \in Nat
  /\ rxbusy \in BOOLEAN /\ (rxbusy => arrived < MaxFrames)
  /\ eir \subseteq Latched /\ status \subseteq Flags
  /\ intie \in BOOLEAN /\ txrts \in BOOLEAN /\ pend \in BOOLEAN
  /\ ahead \in BOOLEAN /\ smashed \in BOOLEAN /\ wild \in BOOLEAN
  /\ primask \in BOOLEAN
  /\ isr \in {"off", "ack", "test", "read", "pkt", "busy", "recv", "input",
              "txif", "rxer", "skip", "txer", "unmute"}
  /\ send \in [Ctx -> {"none", "wait", "check"}]

(* The edge-triggered EXTI1 never sleeps through a level: when the handler   *)
(* is out and not pending, the pin is high and INTIE is set, so nothing      *)
(* waits in the chip that the next edge would not announce.  Every path      *)
(* through a round must come to line 500, which makes the edge anew.         *)
NoSleep == isr = "off" /\ ~pend => intie /\ ~IntLow

(* The main loop's transmission and the handler never use the SPI bus, the   *)
(* chip's bank and its buffer pointers at the same time.                     *)
BusExclusive == send["main"] # "none" => isr = "off"

(* A context is inside ENC28J60_Packet_Send or ENC28J60_Packet_Receive, and  *)
(* interrupts are off outside both.                                          *)
InCall == isr \in {"busy", "recv"} \/ \E c \in Ctx : send[c] # "none"
LeftMasked == primask /\ ~InCall

(* No path but the return of line 430 leaves interrupts off behind it, and   *)
(* it only where PKTIF announced a frame EPKTCNT does not count: a frame     *)
(* that was announced truly is still counted there, whatever the error       *)
(* branch, which counts off by itself, and the chip do in between.           *)
PrimaskBracketed ==
  [][LeftMasked' => LeftMasked \/ (isr = "pkt" /\ epktcnt = 0 /\ ~PktifExact)]_vars

(* EPKTCNT never promises a frame that is not there, although the error      *)
(* branch counts frames off by itself: the driver never follows a pointer    *)
(* into empty memory.                                                        *)
CountWithinFifo == epktcnt <= Len(fifo)

(* The error branch's extra PKTDEC hides a frame that no interrupt announces *)
(* any more, but never more than one for each frame that was refused: an     *)
(* overflow is flagged, cleared and paid for once.                           *)
LagBounded == CountWithinFifo /\ (~wild => Len(fifo) - epktcnt <= lost)

(* The stack gets frames in the order of their arrival, each at most once,   *)
(* whatever was lost between them, until the driver reads a header that was  *)
(* written over; ...                                                         *)
InOrder ==
  ~wild => \A m, n \in 1 .. Len(delivered) : m < n => delivered[m] < delivered[n]

(* ... and one refused frame never writes over a header: it takes a second,  *)
(* after the error branch has moved ERXRDPT past NextPacketPtr.              *)
OneLossHarmless == smashed \/ wild => lost >= 2

(* Without overflow and with a buffer to be had, every frame that arrives is *)
(* handed to the stack, ...                                                  *)
FrameDelivered ==
  \A f \in Frames : arrived >= f ~> \E k \in DOMAIN delivered : delivered[k] = f

(* ... and every call of ENC28J60_Packet_Send, from the main loop or from    *)
(* the handler, comes back.                                                  *)
SendReturns == \A c \in Ctx : send[c] # "none" ~> send[c] = "none"

-----------------------------------------------------------------------------
(* INTIE is down exactly during a round of ENC28J60_ISRHandler, a context    *)
(* inside ENC28J60_Packet_Send runs with interrupts off, and a frame that is *)
(* being received is counted.                                                *)
DriverInv ==
  /\ intie <=> isr \in {"off", "ack", "test"}
  /\ send["main"] # "none" => isr = "off" /\ primask
  /\ send["isr"] # "none" => isr = "input" /\ primask
  /\ isr \in {"busy", "recv"} => primask /\ epktcnt > 0
  /\ isr = "pkt" /\ PktifExact /\ "PKTIF" \in status => epktcnt > 0

(* The stack has older frames than the chip holds. *)
OrderInv ==
  /\ \A m, n \in 1 .. Len(fifo) : m < n => fifo[m] < fifo[n]
  /\ \A m \in 1 .. Len(fifo) : fifo[m] <= arrived
  /\ ~wild => \A m \in 1 .. Len(delivered) : delivered[m] <= arrived
  /\ ~wild => \A m \in 1 .. Len(delivered), n \in 1 .. Len(fifo) : delivered[m] < fifo[n]

(* What an overflow is still to cost: a flag that is up and a skip that is   *)
(* under way.                                                                *)
Due == (IF "RXERIF" \in eir THEN 1 ELSE 0) + (IF isr = "skip" THEN 1 ELSE 0)

LossInv ==
  /\ ~wild => Len(fifo) - epktcnt + Due <= lost
  /\ isr \in {"pkt", "busy", "recv", "input", "txif", "rxer"} /\ "RXERIF" \in status
       => "RXERIF" \in eir
  /\ ahead \/ Due > 0 => lost >= 1

(* The inductive invariant. *)
IInv == TypeOK /\ NoSleep /\ CountWithinFifo /\ DriverInv /\ InOrder /\ OrderInv
        /\ LossInv /\ OneLossHarmless

=============================================================================
