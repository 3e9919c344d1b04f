-------------------------------- MODULE Dhcp --------------------------------
(***************************************************************************)
(* How the board gets its address: lwip_dhcp_process_handle of             *)
(* LWIP/lwip_app/lwip_comm/lwip_comm.c, which main waits for, and the      *)
(* client of lwip-1.4.1/src/core/dhcp.c that it starts and watches.        *)
(*                                                                         *)
(* The client is driven from two sides.  Its timers run in the main loop   *)
(* (lwip_periodic_handle); the answers of the servers, and ARP replies for *)
(* an offered address, come in the EXTI1 handler, which runs between any   *)
(* two steps of the main loop and to its end.  lwIP is built with NO_SYS   *)
(* and without SYS_LIGHTWEIGHT_PROT: nothing keeps the two apart.          *)
(*                                                                         *)
(* A timeout of a message may expire at any of the later ticks.  Memory for  *)
(* messages is assumed to suffice; lost messages are ones nobody answers.    *)
(* Every offer has its server identifier, as RFC 2131 demands; without it    *)
(* the client stops its timeout and then ignores the offer (dhcp.c:1624).    *)
(***************************************************************************)
EXTENDS Integers

CONSTANT Leases    \* the addresses that servers give out

ASSUME DhcpAssumption == Leases \cap {"none", "static"} = {}

MaxTries == 4      \* LWIP_MAX_DHCP_TRIES

(* tries is a u8 that is compared with 1, 4, 5, 8 and 0: it may stay at      *)
(* TriesBound for any number of tries before it wraps to 0. *)
TriesBound == 9

(* request_timeout: off, about to trigger, or with more ticks to go.         *)
Off == 0
Last == 1
Many == 2

States == {"off", "selecting", "requesting", "checking", "bound", "renewing",
           "rebinding", "backing_off"}

VARIABLES
  pc,          \* where the main loop is
  then,        \* where it goes on after the client function it is in
  doing,       \* that function
  reg,         \* what the main loop has read and is about to write back
  dhcpstatus,  \* lwipdev.dhcpstatus
  devip,       \* lwipdev.ip, with netmask and gateway
  netif,       \* lwip_netif: its address, with netmask and gateway, and NETIF_FLAG_UP
  client,      \* lwip_netif.dhcp
  pout,        \* dhcp->p_out: the main loop's message, none, or lost to the handler
  wrapped      \* ghost: tries has been counted on to 256

vars == <<pc, then, doing, reg, dhcpstatus, devip, netif, client, pout, wrapped>>
supervision == <<dhcpstatus, devip>>

(* timer: request_timeout.  leased: dhcp_bind has set t1 and t2.             *)
(* sent: the messages on the wire that have the current transaction number.  *)
NewClient == [state |-> "off", tries |-> 0, timer |-> Off, offered |-> "none",
              leased |-> FALSE, sent |-> {}]

NoAddress == [ip |-> "none", up |-> FALSE]

(* lwip_comm_init has added the interface and calls dhcp_start.              *)
Init ==
  /\ pc = "start" /\ then = "up" /\ doing = "none" /\ reg = 0
  /\ dhcpstatus = 0 /\ devip = "static"
  /\ netif = NoAddress /\ client = NewClient
  /\ pout = "none" /\ wrapped = FALSE
-----------------------------------------------------------------------------
(* The client's functions as the handler runs them, to their end.            *)

(* dhcp_set_state: a new state begins without tries and without a timeout.   *)
SetState(c, s) ==
  IF s = c.state THEN c ELSE [c EXCEPT !.state = s, !.tries = 0, !.timer = Off]

(* dhcp_create_msg: the first try gets a new transaction number, to which no *)
(* answer is on its way.                                                     *)
CreateMsg(c) == IF c.tries = 0 THEN [c EXCEPT !.sent = {}] ELSE c

(* A server offers to a DISCOVER, and acknowledges or refuses a REQUEST that *)
(* names an address: the one offered, or that of the interface (ciaddr).  It *)
(* does not answer the others. *)
MessageOf(f, c) ==
  CASE f = "discover" -> "DISCOVER"
    [] f = "select" /\ c.offered # "none" -> "REQUEST"
    [] f \in {"renew", "rebind"} /\ netif.ip # "none" -> "REQUEST"
    [] OTHER -> "OTHER"

StateOf(f) ==
  CASE f = "discover" -> "selecting"  [] f = "select"  -> "requesting"
    [] f = "renew"    -> "renewing"   [] f = "rebind"  -> "rebinding"
    [] f = "decline"  -> "backing_off" [] f = "release" -> "off"
    [] f = "check"    -> "checking"   [] f = "bind"    -> "bound"

CountTry(c, wait) ==
  [c EXCEPT !.tries = IF @ < TriesBound THEN @ + 1 ELSE @, !.timer = wait]

(* A message of the transaction: the state, dhcp_create_msg, udp_sendto_if,  *)
(* tries++ and request_timeout.                                              *)
SendMsg(f, c) ==
  LET d == CreateMsg(SetState(c, StateOf(f)))
  IN  CountTry([d EXCEPT !.sent = @ \cup {MessageOf(f, d)}], Many)

(* dhcp_check: an ARP query for the offered address. *)
Check(c) == CountTry(SetState(c, "checking"), Last)

Bound(c) == [SetState(c, "bound") EXCEPT !.leased = TRUE]

Address(l) == [ip |-> l, up |-> TRUE]
-----------------------------------------------------------------------------
(* The same functions in the main loop, where the handler may run between    *)
(* any two accesses: dhcp_discover, dhcp_select, dhcp_check, dhcp_bind,      *)
(* dhcp_renew, dhcp_rebind and dhcp_release.                                 *)
Messages == {"discover", "select", "renew", "rebind", "release"}

Entry(f) == CASE f = "discover" -> "forget" [] f = "bind" -> "lease" [] OTHER -> "test"

Goto(from, to) ==
  /\ pc = from /\ pc' = to
  /\ UNCHANGED <<then, supervision, wrapped>>

(* dhcp_discover forgets the offer.                                          *)
Forget ==
  /\ Goto("forget", "test")
  /\ client' = [client EXCEPT !.offered = "none"]
  /\ UNCHANGED <<doing, reg, netif, pout>>

(* dhcp_set_state, in four steps.                                            *)
StateIsSet == CASE doing = "check" -> "try" [] doing = "bind" -> then [] OTHER -> "create"

TestState ==
  /\ Goto("test", IF client.state = StateOf(doing) THEN StateIsSet ELSE "set")
  /\ UNCHANGED <<doing, reg, netif, client, pout>>

StoreState ==
  /\ Goto("set", "reset")
  /\ client' = [client EXCEPT !.state = StateOf(doing)]
  /\ UNCHANGED <<doing, reg, netif, pout>>

ResetTries ==
  /\ Goto("reset", "quiet")
  /\ client' = [client EXCEPT !.tries = 0]
  /\ UNCHANGED <<doing, reg, netif, pout>>

ResetTimer ==
  /\ Goto("quiet", StateIsSet)
  /\ client' = [client EXCEPT !.timer = Off]
  /\ UNCHANGED <<doing, reg, netif, pout>>

(* dhcp_create_msg; dhcp_release has forgotten the offer before, in a state  *)
(* in which the handler does nothing. *)
Create ==
  /\ Goto("create", "send")
  /\ client' = CreateMsg(IF doing = "release" THEN [client EXCEPT !.offered = "none"] ELSE client)
  /\ pout' = "main"
  /\ UNCHANGED <<doing, reg, netif>>

(* udp_sendto_if: from here on there may be an answer.                       *)
SendTo ==
  /\ pout = "main" /\ Goto("send", "delete")
  /\ client' = [client EXCEPT !.sent = @ \cup {MessageOf(doing, client)}]
  /\ UNCHANGED <<doing, reg, netif, pout>>

(* The handler's dhcp_delete_msg has left p_out and msg_out NULL: the main   *)
(* loop writes its options through it. *)
Fault ==
  /\ pout = "lost" /\ Goto("send", "fault")
  /\ UNCHANGED <<doing, reg, netif, client, pout>>

DeleteMsg ==
  /\ Goto("delete", "try")
  /\ pout' = "none"
  /\ UNCHANGED <<doing, reg, netif, client>>

(* tries++ reads, ...                                                        *)
LoadTries ==
  /\ Goto("try", "tried")
  /\ reg' = client.tries
  /\ UNCHANGED <<doing, netif, client, pout>>

(* Mutant: the tries are not counted. *)
StoreTriesNot ==
  /\ pc = "tried" /\ pc' = "arm"
  /\ UNCHANGED <<then, doing, reg, supervision, netif, client, pout, wrapped>>

(* ... and writes.                                                           *)
StoreTries ==
  /\ pc = "tried" /\ pc' = "arm"
  /\ \/ reg < TriesBound /\ client' = [client EXCEPT !.tries = reg + 1] /\ UNCHANGED wrapped
     \/ reg = TriesBound /\ client' = [client EXCEPT !.tries = TriesBound] /\ UNCHANGED wrapped
     \/ reg = TriesBound /\ client' = [client EXCEPT !.tries = 0] /\ wrapped' = TRUE
  /\ UNCHANGED <<then, doing, reg, supervision, netif, pout>>

(* request_timeout is half a second for an ARP query, and at least one       *)
(* second for a message, but for tries * 2000 and tries * 1000 of no tries.  *)
Wait(f, tries) ==
  CASE f = "check" -> Last
    [] f \in {"renew", "rebind", "release"} /\ tries = 0 -> Off
    [] OTHER -> Many

ComputeTimeout ==
  /\ Goto("arm", "armed")
  /\ reg' = Wait(doing, client.tries)
  /\ UNCHANGED <<doing, netif, client, pout>>

Arm ==
  /\ Goto("armed", IF doing = "release" THEN "down" ELSE then)
  /\ client' = [client EXCEPT !.timer = reg]
  /\ UNCHANGED <<doing, reg, netif, pout>>

(* dhcp_release takes the interface down and its address away, and is        *)
(* followed by dhcp_discover.                                                *)
TakeDown ==
  /\ Goto("down", "clear")
  /\ netif' = [netif EXCEPT !.up = FALSE]
  /\ UNCHANGED <<doing, reg, client, pout>>

ClearAddress ==
  /\ Goto("clear", "forget")
  /\ netif' = [netif EXCEPT !.ip = "none"] /\ doing' = "discover"
  /\ UNCHANGED <<reg, client, pout>>

(* dhcp_bind sets t1 and t2, then the address, netmask and gateway, then     *)
(* brings the interface up, and then sets the state.                         *)
StartLease ==
  /\ Goto("lease", "address")
  /\ client' = [client EXCEPT !.leased = TRUE]
  /\ UNCHANGED <<doing, reg, netif, pout>>

SetAddress ==
  /\ Goto("address", "raise")
  /\ netif' = [netif EXCEPT !.ip = client.offered]
  /\ UNCHANGED <<doing, reg, client, pout>>

(* Mutant: the interface is not brought up. *)
RaiseNot ==
  /\ Goto("raise", "test")
  /\ UNCHANGED <<doing, reg, netif, client, pout>>

Raise ==
  /\ Goto("raise", "test")
  /\ netif' = [netif EXCEPT !.up = TRUE]
  /\ UNCHANGED <<doing, reg, client, pout>>

Function ==
  \/ Forget \/ TestState \/ StoreState \/ ResetTries \/ ResetTimer
  \/ Create \/ SendTo \/ Fault \/ DeleteMsg \/ LoadTries \/ StoreTries
  \/ ComputeTimeout \/ Arm \/ TakeDown \/ ClearAddress
  \/ StartLease \/ SetAddress \/ Raise
-----------------------------------------------------------------------------
(* dhcp_start: the client begins anew and sends its first message. *)
Start ==
  /\ Goto("start", "forget")
  /\ client' = NewClient /\ doing' = "discover"
  /\ UNCHANGED <<reg, netif, pout>>

(* The end of lwip_comm_init. *)
SetUp ==
  /\ Goto("up", "poll")
  /\ netif' = [netif EXCEPT !.up = TRUE]
  /\ UNCHANGED <<doing, reg, client, pout>>

(* dhcp_fine_tmr reads request_timeout to see whether it is more than 1,     *)
(* reads it again to see whether it is 1, and reads it again to count it     *)
(* down.  A build that reads it less often does what this one does when the  *)
(* handler stays away between the reads.                                     *)
Tick ==
  /\ Goto("poll", IF client.timer > 1 THEN "load" ELSE "one")
  /\ UNCHANGED <<doing, reg, netif, client, pout>>

IsLast ==
  /\ Goto("one", IF client.timer = 1 THEN "expired" ELSE "process")
  /\ UNCHANGED <<doing, reg, netif, client, pout>>

LoadTimer ==
  /\ Goto("load", "store") \/ Goto("expired", "zero")
  /\ reg' = client.timer
  /\ UNCHANGED <<doing, netif, client, pout>>

Stored == Goto("store", "process") \/ Goto("zero", "timeout")

(* The count goes down, ...                                                  *)
CountDown ==
  /\ Stored /\ reg # Off
  /\ client' = [client EXCEPT !.timer = reg - 1]
  /\ UNCHANGED <<doing, reg, netif, pout>>

(* ... leaves many ticks to go, or, from 0, goes to 65535.                   *)
CountOn ==
  /\ Stored /\ reg # Last
  /\ client' = [client EXCEPT !.timer = Many]
  /\ UNCHANGED <<doing, reg, netif, pout>>

(* dhcp_timeout: what is done for an answer that did not come depends on the *)
(* state, read once for the first comparisons ...                            *)
Do(f) ==
  /\ doing' = f /\ pc' = Entry(f) /\ then' = "process"
  /\ UNCHANGED <<reg, supervision, netif, client, pout, wrapped>>

TimeOut ==
  /\ pc = "timeout"
  /\ IF client.state \in {"backing_off", "selecting"}
       THEN Do("discover")
       ELSE /\ pc' = "waiting"
            /\ UNCHANGED <<then, doing, reg, supervision, netif, client, pout, wrapped>>

(* ... and again for the others, ...                                         *)
TimeOutWaiting ==
  /\ pc = "waiting"
  /\ \/ client.state = "renewing" /\ Do("renew")
     \/ /\ client.state \in {"requesting", "checking", "rebinding"}
        /\ pc' = "limit" /\ doing' = client.state
        /\ UNCHANGED <<then, reg, supervision, netif, client, pout, wrapped>>
     \/ /\ client.state \notin {"renewing", "requesting", "checking", "rebinding"}
        /\ pc' = "process"
        /\ UNCHANGED <<then, doing, reg, supervision, netif, client, pout, wrapped>>

(* ... and on the tries, read after it.                                      *)
TimeOutTries ==
  /\ pc = "limit"
  /\ Do(CASE doing = "requesting" -> IF client.tries <= 5 THEN "select" ELSE "release"
           [] doing = "checking"   -> IF client.tries <= 1 THEN "check" ELSE "bind"
           [] doing = "rebinding"  -> IF client.tries <= 8 THEN "rebind" ELSE "release")

(* dhcp_coarse_tmr: the lease is to be renewed or bound again.  Before a     *)
(* lease t1 and t2 are 0, and the 45 days until they have wrapped are not    *)
(* modelled.                                                                 *)
LeaseTimeout ==
  /\ pc = "poll" /\ pc' = "test"
  /\ client.leased /\ client.state \in {"requesting", "bound", "renewing"}
  /\ doing' \in {"renew", "rebind"} /\ then' = "poll"
  /\ UNCHANGED <<reg, supervision, netif, client, pout, wrapped>>

Timers == Tick \/ IsLast \/ LoadTimer \/ CountDown \/ CountOn \/ TimeOut \/ TimeOutWaiting
          \/ TimeOutTries \/ LeaseTimeout
-----------------------------------------------------------------------------
(* lwip_dhcp_process_handle, called while dhcpstatus is neither 2 nor 0xFF.  *)
Process0 ==
  /\ pc = "process" /\ dhcpstatus = 0
  /\ pc' = "start" /\ then' = "started"
  /\ UNCHANGED <<doing, reg, dhcpstatus, devip, netif, client, pout, wrapped>>

Started ==
  /\ pc = "started" /\ pc' = "poll" /\ dhcpstatus' = 1
  /\ UNCHANGED <<then, doing, reg, devip, netif, client, pout, wrapped>>

(* Mutant: the address is not looked at. *)
AdoptAny ==
  /\ pc = "process" /\ dhcpstatus = 1
  /\ pc' = "poll" /\ dhcpstatus' = 2 /\ devip' = netif.ip
  /\ UNCHANGED <<then, doing, reg, netif, client, pout, wrapped>>

(* Mutant: the address offered is taken for the address got. *)
AdoptOffered ==
  /\ pc = "process" /\ dhcpstatus = 1 /\ client.offered # "none"
  /\ pc' = "poll" /\ dhcpstatus' = 2 /\ devip' = client.offered
  /\ UNCHANGED <<then, doing, reg, netif, client, pout, wrapped>>

Adopt ==
  /\ pc = "process" /\ dhcpstatus = 1 /\ netif.ip # "none"
  /\ pc' = "poll" /\ dhcpstatus' = 2 /\ devip' = netif.ip
  /\ UNCHANGED <<then, doing, reg, netif, client, pout, wrapped>>

(* No address yet: the tries are read after the address. *)
NotYet ==
  /\ pc = "process" /\ dhcpstatus = 1 /\ netif.ip = "none"
  /\ pc' = "tries"
  /\ UNCHANGED <<then, doing, reg, dhcpstatus, devip, netif, client, pout, wrapped>>

ReadTries ==
  /\ pc = "tries"
  /\ IF client.tries > MaxTries THEN pc' = "static" /\ dhcpstatus' = 255
                                ELSE pc' = "poll" /\ UNCHANGED dhcpstatus
  /\ UNCHANGED <<then, doing, reg, devip, netif, client, pout, wrapped>>

SetStatic ==
  /\ pc = "static" /\ pc' = "poll"
  /\ netif' = [netif EXCEPT !.ip = devip]
  /\ UNCHANGED <<then, doing, reg, dhcpstatus, devip, client, pout, wrapped>>

ProcessNothing ==
  /\ pc = "process" /\ dhcpstatus \in {2, 255} /\ pc' = "poll"
  /\ UNCHANGED <<then, doing, reg, dhcpstatus, devip, netif, client, pout, wrapped>>

Supervise ==
  \/ Process0 \/ Started \/ Adopt \/ NotYet \/ ReadTries \/ SetStatic \/ ProcessNothing
-----------------------------------------------------------------------------
(* The handler: dhcp_recv for an answer with the right transaction number,   *)
(* and dhcp_arp_reply.                                                       *)
Interrupts == pc # "fault" /\ UNCHANGED <<pc, then, doing, reg, supervision, wrapped>>

Answers(m) == Interrupts /\ m \in client.sent

(* Mutant: the state is set after the message. *)
HandlerSendsFirst(f, c) ==
  /\ client' = SetState(CountTry([c EXCEPT !.sent = {MessageOf(f, c)}], Many), StateOf(f))
  /\ pout' = IF pout = "main" THEN "lost" ELSE pout

(* dhcp_create_msg overwrites p_out, dhcp_delete_msg clears it. *)
HandlerSends(f, c) ==
  /\ client' = SendMsg(f, c)
  /\ pout' = IF pout = "main" THEN "lost" ELSE pout

Offer(l) ==
  /\ client.state = "selecting"
  /\ HandlerSends("select", [client EXCEPT !.offered = l])
  /\ UNCHANGED netif
  /\ Answers("DISCOVER")

Ack(l) ==
  /\ client.state = "requesting"
  /\ client' = Check([client EXCEPT !.offered = l])
  /\ UNCHANGED <<netif, pout>>
  /\ Answers("REQUEST")

AckRenewed ==
  /\ client.state \in {"renewing", "rebinding"}
  /\ client' = Bound(client) /\ netif' = Address(client.offered)
  /\ UNCHANGED pout
  /\ Answers("REQUEST")

(* Mutant: the address stays. *)
NakKeepingAddress ==
  /\ client.state \in {"requesting", "renewing", "rebinding"}
  /\ HandlerSends("discover", [SetState(client, "backing_off") EXCEPT !.offered = "none"])
  /\ UNCHANGED netif
  /\ Answers("REQUEST")

Nak ==
  /\ client.state \in {"requesting", "renewing", "rebinding"}
  /\ HandlerSends("discover", [SetState(client, "backing_off") EXCEPT !.offered = "none"])
  /\ netif' = NoAddress
  /\ Answers("REQUEST")

ArpReply ==
  /\ client.state = "checking"
  /\ HandlerSends("decline", client)
  /\ UNCHANGED netif
  /\ Interrupts

Handler == (\E l \in Leases : Offer(l) \/ Ack(l)) \/ AckRenewed \/ Nak \/ ArpReply

Main == Start \/ SetUp \/ Timers \/ Supervise \/ Function

Next == Main \/ Handler

Spec == Init /\ [][Next]_vars

(* The main loop runs, and a timeout that is counted does come down to 1.    *)
LiveSpec == Spec /\ WF_vars(Main) /\ SF_vars(CountDown)
-----------------------------------------------------------------------------
Clients == [state : States, tries : 0 .. TriesBound, timer : Off .. Many,
            offered : Leases \cup {"none"}, leased : BOOLEAN,
            sent : SUBSET {"DISCOVER", "REQUEST", "OTHER"}]

Netifs == [ip : Leases \cup {"static", "none"}, up : BOOLEAN]

(* Where the main loop is in a function of the client, and elsewhere.        *)
FunctionAt == {"forget", "test", "set", "reset", "quiet", "create", "send", "delete", "try",
               "tried", "arm", "armed", "down", "clear", "lease", "address", "raise"}
ElsewhereAt == {"start", "up", "poll", "one", "load", "store", "expired", "zero", "timeout",
                "waiting", "limit", "process", "started", "tries", "static", "fault"}

TypeOK ==
  /\ pc \in FunctionAt \cup ElsewhereAt
  /\ then \in {"up", "started", "process", "poll"}
  /\ doing \in Messages \cup {"check", "bind", "none", "requesting", "checking", "rebinding"}
  /\ reg \in 0 .. TriesBound
  /\ dhcpstatus \in {0, 1, 2, 255}
  /\ devip \in Leases \cup {"static"}
  /\ netif \in Netifs
  /\ client \in Clients
  /\ pout \in {"none", "main", "lost"}
  /\ wrapped \in BOOLEAN

(* However the handler's answers fall into the main loop's accesses to tries *)
(* and request_timeout, a client that waits for a server's offer or          *)
(* acknowledgement has a timeout running.  Only the ARP query, and the       *)
(* decline that may follow it, may be left without one, and whatever comes   *)
(* after 256 tries of a renewal: see AnswerAwaited.                          *)
WatchdogRuns ==
  pc = "poll" /\ client.state \in {"selecting", "requesting", "renewing", "rebinding"} =>
    wrapped \/ client.timer # Off

(* dhcp.c:363-367 says that dhcp_fine_tmr "checks whether an outstanding     *)
(* DHCP request is timed out": whatever the client waits for.                *)
AnswerAwaited == pc = "poll" /\ client.state \notin {"off", "bound"} => client.timer # Off

(* The interface has a leased address only while the client holds a lease,   *)
(* except between dhcp_bind's and dhcp_release's changes to the interface    *)
(* and to the state, whatever the handler does meanwhile.                    *)
Binding == doing = "bind" /\ pc \in {"raise", "test", "set"}

LeaseHeld ==
  netif.ip \in Leases =>
    client.state \in {"bound", "renewing", "rebinding"} \/ doing = "release" \/ Binding

(* A client that says it is bound has an address, on an interface that is up *)
(* although a refusal or a release took it down before.                      *)
BoundHasAddress == client.state = "bound" => netif.ip # "none" /\ netif.up

(* lwip_comm_init starts the client and lwip_dhcp_process_handle starts it   *)
(* once more: no address is lost by that.                                    *)
RestartLosesNothing == pc = "start" => netif.ip = "none"

(* "DHCP succeeded" is said of an address that the client holds, and         *)
(* lwipdev.ip is that address.                                               *)
LeaseAdopted ==
  [][dhcpstatus' = 2 /\ dhcpstatus # 2 =>
       netif.ip \in Leases /\ devip' = netif.ip /\ client.state = "bound"]_vars

(* Servers that fall silent do not keep main waiting: the address is got, or *)
(* the tries run out; or an answer has fallen between the reads of           *)
(* dhcp_fine_tmr and has left the ARP query, or the decline that followed,   *)
(* without a timeout.                                                        *)
Unwatched == client.state \in {"checking", "backing_off"} /\ client.timer = Off

Decided ==
  <>[][~Handler]_vars => <>(dhcpstatus \in {2, 255} \/ pc = "fault" \/ []Unwatched)
-----------------------------------------------------------------------------
InFunction == pc \in FunctionAt
Leased == {"bound", "renewing", "rebinding"}
Waiting == {"selecting", "requesting", "renewing", "rebinding"}

(* Which function main is in at which point, and where it goes on.           *)
ControlInv ==
  /\ pc = "forget" => doing = "discover"
  /\ pc \in {"lease", "address", "raise"} => doing = "bind"
  /\ pc \in {"down", "clear"} => doing = "release"
  /\ pc \in {"create", "send", "delete"} => doing \in Messages
  /\ pc \in {"try", "tried", "arm", "armed"} => doing \in Messages \cup {"check"}
  /\ pc \in {"test", "set", "reset", "quiet"} => doing \in Messages \cup {"check", "bind"}
  /\ pc = "limit" => doing \in {"requesting", "checking", "rebinding"}
  /\ doing = "release" => InFunction \/ pc = "fault"
  /\ InFunction /\ then \in {"up", "started"} => doing = "discover" /\ dhcpstatus = 0
  /\ InFunction /\ doing \in {"check", "bind"} => then = "process"
  /\ pc \in {"start", "up", "started"} => dhcpstatus = 0
  /\ pc = "tries" => dhcpstatus = 1
  /\ pc = "static" => dhcpstatus = 255
  /\ pc \in {"store", "zero", "armed"} => reg \in Off .. Many

(* Until main has started the client a second time nothing can be bound: a   *)
(* query that dhcp_fine_tmr finds expired is the first one.                  *)
FirstInv ==
  dhcpstatus = 0 =>
    /\ netif.ip = "none" /\ ~client.leased /\ client.state \notin Leased
    /\ then # "poll"
    /\ InFunction => doing \in {"discover", "select", "check", "release"}
    /\ pc \in {"up", "poll"} /\ client.state = "checking" =>
         client.tries <= 1 \/ client.timer = Many
    /\ pc \in {"one", "expired", "zero", "timeout", "waiting"} /\ client.state = "checking" =>
         client.tries <= 1
    /\ pc = "limit" => doing # "rebinding" /\ (doing = "checking" => client.tries <= 1)
    /\ pc = "armed" /\ doing = "discover" => reg = Many

(* What the client's state says about its offer, and the function main is in *)
(* about the client, whatever the handler did since main has read the state. *)
Deciding(f) == InFunction /\ doing = f

ClientInv ==
  /\ Deciding("check") \/ Deciding("bind") \/ (pc = "limit" /\ doing = "checking") =>
       client.offered # "none" /\ client.state \in {"checking", "backing_off", "bound"}
  /\ Deciding("check") \/ (pc = "limit" /\ doing = "checking") => client.state # "bound"
  /\ Deciding("bind") => (client.state = "bound" <=> pc \in {"reset", "quiet"})
  /\ client.state = "checking" /\ client.offered = "none" =>
       doing = "discover" /\ pc \in {"test", "set", "fault"}
  /\ Deciding("release") => (client.state = "off" <=> pc \notin {"test", "set"})
  /\ Deciding("release") /\ pc \in {"quiet", "create"} => client.tries = 0
  /\ pc = "limit" => client.state # "off"
  /\ client.state = "selecting" /\ pc \notin {"test", "set"} =>
       /\ Deciding("select") => client.offered = "none"
       /\ Deciding("renew") \/ Deciding("rebind") => netif.ip = "none"
  /\ "REQUEST" \in client.sent /\ client.state = "selecting" =>
       doing = "discover" /\ pc \in {"reset", "quiet", "create"}
       /\ (pc # "reset" => client.tries = 0)
  /\ "REQUEST" \in client.sent /\ client.offered = "none" =>
       doing = "discover"
       /\ \/ pc \in {"reset", "quiet", "create"} /\ client.state = "selecting"
          \/ pc \in {"test", "set"} /\ client.state \notin Leased

(* Who has an address, and from where.                                       *)
AddressInv ==
  /\ \/ client.state \in Leased \/ Deciding("renew") \/ Deciding("rebind")
     \/ Deciding("bind") /\ pc # "lease"
     \/ pc = "limit" /\ doing = "rebinding"
     => client.leased
  /\ netif.ip \in Leases => client.leased /\ (client.offered # "none" \/ doing = "release")
  /\ Deciding("bind") /\ pc \in {"raise", "test", "set"} => netif.ip # "none"
  /\ Deciding("bind") /\ pc \in {"test", "set"} => netif.up
  /\ dhcpstatus # 2 => devip = "static"
  /\ netif.ip = "static" => dhcpstatus = 255 /\ (client.leased => pc = "address")
  /\ pc = "static" => ~client.leased
  /\ dhcpstatus = 1 /\ client.leased =>
       \/ Deciding("bind") /\ pc # "lease"
       \/ pc = "process" /\ client.state = "bound"
  /\ Deciding("discover") \/ Deciding("select") \/ Deciding("check")
     \/ (pc = "limit" /\ doing # "rebinding")
     => netif.ip \notin Leases /\ client.state \notin Leased

(* A client that waits has a timeout, unless main is about to set one.       *)
TimerInv ==
  /\ client.state \in Waiting /\ client.timer = Off =>
       \/ wrapped \/ InFunction \/ pc \in {"timeout", "limit", "fault"}
       \/ pc = "waiting" /\ client.state # "selecting"
  /\ pc = "load" /\ client.state \in Waiting => client.timer = Many
  /\ pc = "store" /\ client.state \in Waiting => reg = Many
  /\ pc = "arm" /\ doing \in {"renew", "rebind"} /\ client.tries = 0 =>
       wrapped \/ client.state = "bound"
  /\ pc = "armed" /\ reg = Off => wrapped \/ client.state \in {"bound", "off"}

(* The inductive invariant. *)
IInv ==
  /\ TypeOK /\ ControlInv /\ FirstInv /\ ClientInv /\ AddressInv /\ TimerInv
  /\ LeaseHeld /\ BoundHasAddress
=============================================================================
