------------------------------ MODULE UdpDemo ------------------------------
(***************************************************************************)
(* LWIP/lwip_app/udp_demo/udp_demo.c and the reconnection loop of main: a  *)
(* UDP endpoint that obeys the commands of a host and reports its state.   *)
(*                                                                         *)
(* udp_demo_test polls in the main loop; udp_demo_recv, with readrecv and  *)
(* Message_processing, runs inside EXTI1 and so between any two steps of   *)
(* the main loop.  They share udp_demo_flag, elengine_wyx and sendrecv     *)
(* without any protection.                                                 *)
(*                                                                         *)
(* A command is known by what Message_processing makes of it; a reply by   *)
(* whether its fields come from the newest command, and by its length.     *)
(***************************************************************************)
EXTENDS Integers

CONSTANTS
  Keys,          \* somebody presses the keys of the board
  MemMayFail     \* mymalloc, udp_new, udp_bind and pbuf_alloc may fail

ASSUME UdpAssumption == Keys \in BOOLEAN /\ MemMayFail \in BOOLEAN

(* What Message_processing does with the motor on sendrecv:                  *)
(*   "turn"   humi[0] is 1 and elengine is "11" or "10": motor 1 turns once  *)
(*   "hold"   humi[0] is 1 and elengine is something else                    *)
(*   "close"  humi[0] is not 1: motor 1 is closed                            *)
Orders == {"turn", "hold", "close"}

(* udp_demo_sendbuf as strlen sees it: the four letters of the head when     *)
(* led[0] is 0, as before any command, seven when elengine is 0, fifteen for *)
(* a full record, more when the byte behind it is not 0.  Other lengths are  *)
(* like one of these; 0 stands for everything shorter than the head.         *)
Lengths == {0, 4, 7, 15, 16}

Fields == {"humi", "elengine", "led"}

VARIABLES
  pc,        \* where the main loop is
  answering, \* udp_demo_senddata was called for a datagram, not for KEY0
  connected, \* udp_demo_flag bit 5
  received,  \* udp_demo_flag bit 6
  loaded,    \* the bit 6 that a read-modify-write of the main loop has read
  gate,      \* elengine_wyx
  order,     \* the command in sendrecv, "none" after initsardata
  copied,    \* per field of udp_demo_sendbuf: from which command it is
  oldlen,    \* strlen of the memory udp_demo_sendbuf points to
  ptrlen,    \* length of the pbuf that carries the reply
  carried,   \* pbuf_take has copied the record into it
  pcb,       \* the UDP control block
  tbuf,      \* udp_demo_test holds its buffer
  sendbuf,   \* udp_demo_senddata holds its buffer
  turns,     \* ghost: turns of motor 1 since elengine_wyx was last set
  unread     \* ghost: a datagram came after the newest reply was begun

memory == <<oldlen, ptrlen, carried, pcb, tbuf, sendbuf>>
shared == <<connected, received, gate, order>>
vars == <<pc, answering, connected, received, loaded, gate, order, copied, oldlen,
          ptrlen, carried, pcb, tbuf, sendbuf, turns, unread>>
-----------------------------------------------------------------------------
Init ==
  /\ pc = "start"
  /\ answering = FALSE /\ connected = FALSE /\ received = FALSE /\ loaded = FALSE
  /\ gate = TRUE /\ order = "none"
  /\ copied = [f \in Fields |-> "none"]
  /\ oldlen \in Lengths          \* udp_demo_sendbuf is NULL: the strlen of address 0
  /\ ptrlen = 0 /\ carried = FALSE /\ pcb = "none" /\ tbuf = FALSE /\ sendbuf = FALSE
  /\ turns = 0 /\ unread = FALSE

Outcome == IF MemMayFail THEN BOOLEAN ELSE {TRUE}
-----------------------------------------------------------------------------
(* udp_demo_test up to its loop.  A missing buffer ends it at once. *)
Open ==
  /\ pc = "start"
  /\ \E ok \in Outcome : tbuf' = ok /\ pc' = IF ok THEN "new" ELSE "outer"
  /\ UNCHANGED <<answering, loaded, copied, oldlen, ptrlen, carried, pcb, sendbuf, turns, unread,
                 shared>>

(* udp_new and initsardata; then udp_connect and udp_bind. *)
NewPcb ==
  /\ pc = "new"
  /\ \E ok \in Outcome :
       /\ pcb' = IF ok THEN "new" ELSE "none"
       /\ pc' = IF ok THEN "bind" ELSE "close"
  /\ order' = "none"
  /\ UNCHANGED <<answering, connected, received, loaded, gate, copied, oldlen, ptrlen,
                 carried, tbuf, sendbuf, turns, unread>>

Bind ==
  /\ pc = "bind"
  /\ \E ok \in Outcome : pc' = IF ok THEN "register" ELSE "close"
  /\ UNCHANGED <<answering, loaded, copied, turns, unread, memory, shared>>

(* udp_recv: from here on udp_input calls udp_demo_recv. *)
Register ==
  /\ pc = "register" /\ pc' = "flag5"
  /\ pcb' = "live"
  /\ UNCHANGED <<answering, loaded, copied, oldlen, ptrlen, carried, tbuf, sendbuf, turns, unread,
                 shared>>

(* udp_demo_flag |= 1<<5 reads the byte ... *)
LoadForConnect ==
  /\ pc = "flag5" /\ pc' = "connect"
  /\ loaded' = received
  /\ UNCHANGED <<answering, copied, turns, unread, memory, shared>>

(* ... and writes it back, both bits. *)
StoreConnected ==
  /\ pc = "connect" /\ pc' = "poll"
  /\ connected' = TRUE /\ received' = loaded
  /\ UNCHANGED <<answering, loaded, gate, order, copied, turns, unread, memory>>
-----------------------------------------------------------------------------
(* The loop: KEY_UP leaves it, ... *)
Quit ==
  /\ Keys /\ pc = "poll" /\ pc' = "close"
  /\ UNCHANGED <<answering, loaded, copied, turns, unread, memory, shared>>

(* ... KEY0 sends the state of the board, ... *)
SendForKey ==
  /\ Keys /\ pc = "poll" /\ pc' = "alloc"
  /\ answering' = FALSE
  /\ UNCHANGED <<loaded, copied, turns, unread, memory, shared>>

(* ... and so does a datagram. *)
Poll ==
  /\ pc = "poll" /\ received
  /\ pc' = "alloc"
  /\ answering' = TRUE
  /\ UNCHANGED <<loaded, copied, turns, unread, memory, shared>>

(* udp_demo_senddata is done; for a datagram elengine_wyx is set again. *)
SendOver == pc' = IF answering THEN "rearm" ELSE "poll"

(* Mutant: the pbuf has room for the terminating 0. *)
AllocPbufForZero ==
  /\ pc = "alloc"
  /\ \E ok \in Outcome :
       IF ok THEN pc' = "humi" /\ ptrlen' = oldlen + 1 /\ sendbuf' = TRUE /\ unread' = FALSE
             ELSE SendOver /\ UNCHANGED <<ptrlen, sendbuf, unread>>
  /\ UNCHANGED <<answering, loaded, copied, oldlen, carried, pcb, tbuf, turns, shared>>

(* The pbuf is as long as what udp_demo_sendbuf points to, a block that was  *)
(* freed after the last reply. *)
AllocPbuf ==
  /\ pc = "alloc"
  /\ \E ok \in Outcome :
       IF ok THEN pc' = "humi" /\ ptrlen' = oldlen /\ sendbuf' = TRUE /\ unread' = FALSE
             ELSE SendOver /\ UNCHANGED <<ptrlen, sendbuf, unread>>
  /\ UNCHANGED <<answering, loaded, copied, oldlen, carried, pcb, tbuf, turns, shared>>

(* Mutant: a field that was copied before is not copied again. *)
CopyOnce(f, next) ==
  /\ pc = f /\ pc' = next
  /\ copied' = [copied EXCEPT ![f] = IF order = "none" THEN "none"
                                     ELSE IF @ = "none" THEN "newest" ELSE @]
  /\ UNCHANGED <<answering, loaded, turns, unread, memory, shared>>

(* setsendbuf copies sendrecv field by field. *)
Copy(f, next) ==
  /\ pc = f /\ pc' = next
  /\ copied' = [copied EXCEPT ![f] = IF order = "none" THEN "none" ELSE "newest"]
  /\ UNCHANGED <<answering, loaded, turns, unread, memory, shared>>

CopyRecord == Copy("humi", "elengine") \/ Copy("elengine", "led") \/ Copy("led", "take")

(* The record as strlen sees it: it ends at the first field that is 0, as    *)
(* initsardata or a datagram that ends early has left it.                    *)
RecordLengths ==
  IF copied["led"] = "none" THEN {4}
  ELSE IF copied["elengine"] = "none" THEN {4, 7} ELSE {4, 7, 15, 16}

(* pbuf_take copies the record, or, into a pbuf that is shorter, nothing: it *)
(* returns ERR_ARG, which nobody looks at, and the pbuf keeps what the pool  *)
(* had in it.                                                                *)
TakeRecord ==
  /\ pc = "take" /\ pc' = "send"
  /\ \E len \in RecordLengths : oldlen' = len /\ carried' = (len <= ptrlen)
  /\ UNCHANGED <<answering, loaded, copied, ptrlen, pcb, tbuf, sendbuf, turns, unread,
                 shared>>

(* udp_send, pbuf_free and myfree. *)
SendReply ==
  /\ pc = "send"
  /\ sendbuf' = FALSE
  /\ SendOver
  /\ UNCHANGED <<answering, loaded, copied, oldlen, ptrlen, carried, pcb, tbuf, turns,
                 unread, shared>>

(* Mutant: elengine_wyx is not set again. *)
RearmNot ==
  /\ pc = "rearm" /\ pc' = "flag6"
  /\ UNCHANGED <<answering, connected, received, loaded, order, copied, memory, turns,
                 gate, unread>>

Rearm ==
  /\ pc = "rearm" /\ pc' = "flag6"
  /\ gate' = TRUE /\ turns' = 0
  /\ UNCHANGED <<answering, connected, received, loaded, order, copied, memory, unread>>

(* udp_demo_flag &= ~(1<<6) reads the byte and writes it back. *)
LoadForClear ==
  /\ pc = "flag6" /\ pc' = "clear"
  /\ loaded' = received
  /\ UNCHANGED <<answering, copied, turns, unread, memory, shared>>

StoreCleared ==
  /\ pc = "clear" /\ pc' = "poll"
  /\ received' = FALSE
  /\ UNCHANGED <<answering, connected, loaded, gate, order, copied, turns, unread, memory>>

(* Mutant: the control block is only disconnected. *)
CloseKeepingPcb ==
  /\ pc = "close" /\ pc' = "outer"
  /\ connected' = FALSE /\ tbuf' = FALSE
  /\ UNCHANGED <<answering, received, loaded, gate, order, copied, oldlen, ptrlen, carried, pcb,
                 sendbuf, turns, unread>>

(* udp_demo_connection_close, and the end of udp_demo_test. *)
Close ==
  /\ pc = "close" /\ pc' = "outer"
  /\ pcb' = "none" /\ connected' = FALSE /\ tbuf' = FALSE
  /\ UNCHANGED <<answering, received, loaded, gate, order, copied, oldlen, ptrlen,
                 carried, sendbuf, turns, unread>>

(* It is called with NULL too, when udp_new had no control block, and        *)
(* udp_disconnect writes through it: the write to address 0 is refused by    *)
(* the flash there, or traps, and HardFault_Handler does not return.         *)
WriteThroughNull ==
  /\ pc = "close" /\ pcb = "none"
  /\ pc' = "fault"
  /\ UNCHANGED <<answering, loaded, copied, turns, unread, memory, shared>>

(* KEY1 in main's last loop. *)
Reconnect ==
  /\ Keys /\ pc = "outer" /\ ~connected
  /\ pc' = "start"
  /\ UNCHANGED <<answering, loaded, copied, turns, unread, memory, shared>>
-----------------------------------------------------------------------------
(* Mutant: the gate is not asked for. *)
ProcessAlways(o) ==
  /\ turns' = IF o = "turn" THEN turns + 1 ELSE turns
  /\ gate' = IF o = "turn" THEN FALSE ELSE gate

(* Message_processing: motor 1 turns once for each time elengine_wyx is set. *)
Process(o) ==
  /\ turns' = IF o = "turn" /\ gate THEN turns + 1 ELSE turns
  /\ gate' = IF o = "turn" THEN FALSE ELSE gate

(* Mutant: the datagram is not flagged. *)
RecvUnflagged(o, valid) ==
  /\ pcb = "live"
  /\ order' = IF valid THEN o ELSE order
  /\ copied' = IF valid THEN [f \in Fields |-> IF copied[f] = "newest" THEN "older" ELSE copied[f]]
                        ELSE copied
  /\ Process(order')
  /\ unread' = TRUE
  /\ UNCHANGED <<pc, answering, connected, loaded, received, memory>>

(* udp_demo_recv.  Without the head "ZNJJ" readrecv leaves sendrecv as it    *)
(* is, and Message_processing runs all the same.                             *)
Recv(o, valid) ==
  /\ pcb = "live"
  /\ order' = IF valid THEN o ELSE order
  /\ copied' = IF valid THEN [f \in Fields |-> IF copied[f] = "newest" THEN "older" ELSE copied[f]]
                        ELSE copied
  /\ Process(order')
  /\ received' = TRUE
  /\ unread' = TRUE
  /\ UNCHANGED <<pc, answering, connected, loaded, memory>>

(* low_level_output, for an ARP reply or a DHCP message, takes and frees the *)
(* highest free blocks of the pool: the ones udp_demo_sendbuf points to.     *)
OtherFrame ==
  /\ ~sendbuf /\ pc # "fault"
  /\ oldlen' \in Lengths
  /\ UNCHANGED <<pc, answering, loaded, copied, ptrlen, carried, pcb, tbuf, sendbuf, turns, unread,
                 shared>>

Host == \E o \in Orders, valid \in BOOLEAN : Recv(o, valid)

Main ==
  \/ Open \/ NewPcb \/ Bind \/ Register \/ LoadForConnect \/ StoreConnected
  \/ Poll \/ AllocPbuf \/ CopyRecord \/ TakeRecord \/ SendReply
  \/ Rearm \/ LoadForClear \/ StoreCleared \/ Close \/ WriteThroughNull

Next == Main \/ Quit \/ SendForKey \/ Reconnect \/ Host \/ OtherFrame

Spec == Init /\ [][Next]_vars

(* The main loop runs, and the host keeps sending.  Between two looks at the *)
(* keys the loop looks at bit 6, however often KEY0 is pressed.  A pbuf is   *)
(* to be had again and again: EXTI1 gives back those it takes.               *)
LiveSpec ==
  Spec /\ WF_vars(Main) /\ WF_vars(Host) /\ SF_vars(Poll) /\ SF_vars(AllocPbuf /\ sendbuf')
-----------------------------------------------------------------------------
TypeOK ==
  /\ pc \in {"start", "new", "bind", "register", "flag5", "connect", "poll", "alloc",
             "humi", "elengine", "led", "take", "send", "rearm", "flag6", "clear",
             "close", "outer", "fault"}
  /\ answering \in BOOLEAN /\ connected \in BOOLEAN /\ received \in BOOLEAN
  /\ loaded \in BOOLEAN /\ gate \in BOOLEAN
  /\ order \in Orders \cup {"none"}
  /\ copied \in [Fields -> {"none", "older", "newest"}]
  /\ oldlen \in Lengths /\ ptrlen \in Lengths /\ carried \in BOOLEAN
  /\ pcb \in {"none", "new", "live"}
  /\ tbuf \in BOOLEAN /\ sendbuf \in BOOLEAN
  /\ turns \in Nat /\ unread \in BOOLEAN

(* However many datagrams arrive, motor 1 turns at most once for each time   *)
(* the main loop sets elengine_wyx.                                          *)
MotorOnce == turns <= 1 /\ (gate <=> turns = 0)

(* Whatever failed, when udp_demo_test returns it leaves no control block    *)
(* and no buffer behind, and the bit that keeps main from connecting a       *)
(* second time is up exactly while there is a connection to keep.  After a   *)
(* failed udp_new it need not return: then nothing is promised.              *)
NothingLeft ==
  /\ pc \in {"outer", "start", "new"} => pcb = "none" /\ ~sendbuf /\ ~connected
  /\ pc \in {"outer", "start"} => ~tbuf
  /\ pc = "poll" => pcb = "live" /\ connected /\ tbuf

Outdated(f) == copied[f] = "older" \/ (copied[f] = "none" /\ order # "none")

(* The handler may change sendrecv while setsendbuf copies it.  A record     *)
(* that mixes two commands, or is out of date, goes out only when a datagram *)
(* came that this reply does not answer.  A reply that carries no record     *)
(* carries what was in the pool; the property does not speak of it.          *)
OutdatedIsUnread == pc = "send" /\ carried /\ (\E f \in Fields : Outdated(f)) => unread

(* udp_demo_test has returned, or will not. *)
Ended == pc \in {"outer", "fault"}

(* With a host that keeps sending, a motor that was locked after a turn is   *)
(* unlocked again, although bit 6 may get lost on the way, unless the        *)
(* endpoint is closed before; ...                                            *)
GateReopens == ~gate ~> gate \/ Ended

(* ... and a host that has sent a datagram always gets a reply that was      *)
(* begun after it, whether or not its pbuf was long enough for the record.   *)
Answered == unread ~> ~unread \/ Ended

-----------------------------------------------------------------------------
(* Which resources are held at which point of the main loop; at the points   *)
(* between, the control block depends on what has failed.                    *)
Idle == {"start", "outer"}
Replying == {"humi", "elengine", "led", "take", "send"}

ResourceInv ==
  /\ tbuf <=> pc \notin Idle
  /\ sendbuf <=> pc \in Replying
  /\ pc \in Idle \cup {"new"} => pcb = "none"
  /\ pc \in {"bind", "register"} => pcb = "new"
  /\ pc \notin Idle \cup {"new", "bind", "register", "close", "fault"} => pcb = "live"
  /\ pc = "fault" => pcb = "none"
  /\ pc \in {"poll", "alloc", "rearm", "flag6", "clear"} \cup Replying => connected
  /\ pc \in Idle \cup {"new", "bind", "register", "flag5", "connect"} => ~connected

(* The fields of sendrecv that the reply already has.                        *)
Copied ==
  CASE pc = "elengine" -> {"humi"}
    [] pc = "led"      -> {"humi", "elengine"}
    [] pc = "take"     -> Fields
    [] pc = "send"     -> Fields
    [] OTHER           -> {}

CopiedInv == \A f \in Copied : Outdated(f) => unread

(* The inductive invariant: the resources at every point of the main loop,   *)
(* and the reply from its first field on.                                    *)
IInv == TypeOK /\ MotorOnce /\ ResourceInv /\ CopiedInv
=============================================================================
