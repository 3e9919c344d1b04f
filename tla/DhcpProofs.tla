----------------------------- MODULE DhcpProofs -----------------------------
(***************************************************************************)
(* The safety properties of Dhcp, for every set of addresses that servers  *)
(* give out.  First what the functions of the client do to its record,     *)
(* then that every step keeps the invariant.                               *)
(***************************************************************************)
EXTENDS Dhcp, TLAPS

(* dhcp_set_state leaves the offer, the lease and the messages alone, and    *)
(* the tries and the timeout too if the state stays the same.                *)
LEMMA SetStateFields ==
  ASSUME NEW c \in Clients, NEW s \in States
  PROVE  LET d == SetState(c, s)
         IN  /\ d \in Clients
             /\ d.state = s
             /\ d.offered = c.offered /\ d.leased = c.leased /\ d.sent = c.sent
             /\ s # c.state => d.tries = 0 /\ d.timer = Off
             /\ s = c.state => d = c
<1>1. CASE s = c.state
  BY <1>1 DEF SetState
<1>2. CASE s # c.state
  <2> DEFINE d == [c EXCEPT !.state = s, !.tries = 0, !.timer = Off]
  <2>1. SetState(c, s) = d
    BY <1>2 DEF SetState
  <2>2. d \in Clients
    <3>1. 0 \in 0 .. TriesBound /\ Off \in Off .. Many
      BY DEF TriesBound, Off, Many
    <3> QED BY <3>1, Zenon DEF Clients
  <2>3. d.state = s /\ d.tries = 0 /\ d.timer = Off
        /\ d.offered = c.offered /\ d.leased = c.leased /\ d.sent = c.sent
    BY DEF Clients
  <2> QED BY <1>2, <2>1, <2>2, <2>3
<1> QED BY <1>1, <1>2

(* dhcp_create_msg may only take messages of an older transaction back.      *)
LEMMA CreateMsgFields ==
  ASSUME NEW c \in Clients
  PROVE  LET d == CreateMsg(c)
         IN  /\ d \in Clients
             /\ d.state = c.state /\ d.tries = c.tries /\ d.timer = c.timer
             /\ d.offered = c.offered /\ d.leased = c.leased
             /\ d.sent = IF c.tries = 0 THEN {} ELSE c.sent
  BY DEF CreateMsg, Clients

(* What every function that waits for an answer ends with.                   *)
LEMMA CountTryFields ==
  ASSUME NEW c \in Clients, NEW n \in {Last, Many}
  PROVE  LET d == CountTry(c, n)
         IN  /\ d \in Clients
             /\ d.state = c.state /\ d.timer = n
             /\ d.offered = c.offered /\ d.leased = c.leased /\ d.sent = c.sent
             /\ c.tries = 0 => d.tries = 1
<1> DEFINE t == IF c.tries < TriesBound THEN c.tries + 1 ELSE c.tries
           d == [c EXCEPT !.tries = t, !.timer = n]
<1>1. t \in 0 .. TriesBound /\ (c.tries = 0 => t = 1) /\ n \in Off .. Many
  BY DEF Clients, TriesBound, Off, Last, Many
<1>2. CountTry(c, n) = d
  BY DEF CountTry
<1> HIDE DEF t
<1>3. d.state = c.state /\ d.timer = n /\ d.tries = t
      /\ d.offered = c.offered /\ d.leased = c.leased /\ d.sent = c.sent
  BY DEF Clients
<1>4. d \in Clients
  BY <1>1 DEF Clients
<1> QED BY <1>1, <1>2, <1>3, <1>4

(* The handler's dhcp_check waits in the state "checking".                   *)
LEMMA CheckFields ==
  ASSUME NEW c \in Clients
  PROVE  LET d == Check(c)
         IN  /\ d \in Clients
             /\ d.state = "checking" /\ d.timer = Last
             /\ d.offered = c.offered /\ d.leased = c.leased /\ d.sent = c.sent
             /\ c.state # "checking" => d.tries = 1
  BY SetStateFields, CountTryFields DEF Check, States

(* The state in which the client waits after each of its functions.          *)
LEMMA StatesOf ==
  /\ StateOf("discover") = "selecting" /\ StateOf("select") = "requesting"
  /\ StateOf("renew") = "renewing" /\ StateOf("rebind") = "rebinding"
  /\ StateOf("decline") = "backing_off" /\ StateOf("release") = "off"
  /\ StateOf("check") = "checking" /\ StateOf("bind") = "bound"
  BY DEF StateOf

(* A function of the client begins with forgetting the offer, with the lease *)
(* or with the state, and goes on after the state.                           *)
LEMMA EntriesOf ==
  /\ Entry("discover") = "forget" /\ Entry("bind") = "lease"
  /\ \A f \in {"select", "renew", "rebind", "release", "check"} : Entry(f) = "test"
  BY DEF Entry

LEMMA AfterState ==
  /\ doing = "check" => StateIsSet = "try"
  /\ doing = "bind" => StateIsSet = then
  /\ doing \in Messages => StateIsSet = "create"
  BY DEF StateIsSet, Messages

(* The timeouts of the functions.                                            *)
LEMMA Waits ==
  ASSUME NEW n \in 0 .. TriesBound
  PROVE  /\ Wait("check", n) = Last
         /\ \A f \in {"discover", "select"} : Wait(f, n) = Many
         /\ \A f \in {"renew", "rebind", "release"} : Wait(f, n) = IF n = 0 THEN Off ELSE Many
<1>1. CASE n = 0
  BY <1>1 DEF Wait
<1>2. CASE n # 0
  BY <1>2 DEF Wait
<1> QED BY <1>1, <1>2

(* Only a client with an offer, or an interface with an address, requests.   *)
LEMMA MessagesOf ==
  ASSUME NEW c, NEW f
  PROVE  /\ MessageOf(f, c) \in {"DISCOVER", "REQUEST", "OTHER"}
         /\ f = "discover" => MessageOf(f, c) = "DISCOVER"
         /\ MessageOf(f, c) = "REQUEST" =>
              \/ f = "select" /\ c.offered # "none"
              \/ f \in {"renew", "rebind"} /\ netif.ip # "none"
  BY DEF MessageOf

(* A message sent by the handler is the only one of its transaction, since   *)
(* it changes the state.                                                     *)
LEMMA HandlerSendsFields ==
  ASSUME NEW c \in Clients, NEW f, HandlerSends(f, c), StateOf(f) \in States, StateOf(f) # c.state
  PROVE  /\ client' \in Clients
         /\ client'.state = StateOf(f) /\ client'.timer = Many /\ client'.tries = 1
         /\ client'.offered = c.offered /\ client'.leased = c.leased
         /\ client'.sent \in {{MessageOf(f, client')}}
<1> DEFINE b == SetState(c, StateOf(f))
           d == CreateMsg(b)
           e == [d EXCEPT !.sent = @ \cup {MessageOf(f, d)}]
<1>1. /\ b \in Clients /\ b.state = StateOf(f) /\ b.leased = c.leased /\ b.tries = 0
      /\ b.offered = c.offered
  BY SetStateFields
<1>2. client' = CountTry(e, Many)
  BY DEF HandlerSends, SendMsg
<1> HIDE DEF b
<1>3. /\ d \in Clients /\ d.state = StateOf(f) /\ d.leased = c.leased /\ d.sent = {}
      /\ d.offered = c.offered /\ d.tries = 0
  BY <1>1, CreateMsgFields
<1> HIDE DEF d
<1>4. MessageOf(f, d) \in {"DISCOVER", "REQUEST", "OTHER"}
  BY MessagesOf
<1>5. /\ e \in Clients /\ e.state = StateOf(f) /\ e.leased = c.leased
      /\ e.offered = c.offered /\ e.tries = 0 /\ e.sent = {MessageOf(f, d)}
  BY <1>3, <1>4 DEF Clients
<1> HIDE DEF e
<1>6. /\ client' \in Clients /\ client'.state = StateOf(f) /\ client'.timer = Many
      /\ client'.offered = c.offered /\ client'.leased = c.leased
      /\ client'.tries = 1 /\ client'.sent = {MessageOf(f, d)}
  BY <1>2, <1>5, CountTryFields
<1>7. MessageOf(f, d) = MessageOf(f, client')
  BY <1>3, <1>6 DEF MessageOf
<1> QED BY <1>6, <1>7

(* dhcp_bind makes a lease of the offer.                                     *)
LEMMA BoundFields ==
  ASSUME NEW c \in Clients
  PROVE  LET d == Bound(c)
         IN  /\ d \in Clients
             /\ d.state = "bound" /\ d.leased
             /\ d.offered = c.offered /\ d.sent = c.sent
<1> DEFINE e == SetState(c, "bound")
<1>1. /\ e \in Clients /\ e.state = "bound" /\ e.offered = c.offered /\ e.sent = c.sent
  BY SetStateFields DEF States
<1>2. Bound(c) = [e EXCEPT !.leased = TRUE]
  BY DEF Bound
<1> HIDE DEF e
<1> QED BY <1>1, <1>2 DEF Clients

(* The interface after its changes.                                          *)
LEMMA NetifFields ==
  /\ \A l \in Leases \cup {"none"} :
       Address(l) \in Netifs /\ Address(l).ip = l /\ Address(l).up
  /\ NoAddress \in Netifs /\ NoAddress.ip = "none"
  /\ \A n \in Netifs : /\ \A b \in BOOLEAN : /\ [n EXCEPT !.up = b] \in Netifs
                                            /\ [n EXCEPT !.up = b].ip = n.ip
                                            /\ [n EXCEPT !.up = b].up = b
                       /\ \A l \in Leases \cup {"static", "none"} :
                            /\ [n EXCEPT !.ip = l] \in Netifs
                            /\ [n EXCEPT !.ip = l].ip = l /\ [n EXCEPT !.ip = l].up = n.up
<1>1. TRUE \in BOOLEAN /\ FALSE \in BOOLEAN
  OBVIOUS
<1>2. ASSUME NEW l \in Leases \cup {"none"}
      PROVE  Address(l) \in Netifs /\ Address(l).ip = l /\ Address(l).up
  BY <1>1, <1>2 DEF Address, Netifs
<1>3. NoAddress \in Netifs /\ NoAddress.ip = "none"
  <2>1. NoAddress \in Netifs
    BY <1>1, Zenon DEF NoAddress, Netifs
  <2> QED BY <2>1 DEF NoAddress
<1>4. ASSUME NEW n \in Netifs, NEW b \in BOOLEAN
      PROVE  /\ [n EXCEPT !.up = b] \in Netifs
             /\ [n EXCEPT !.up = b].ip = n.ip /\ [n EXCEPT !.up = b].up = b
  BY <1>4 DEF Netifs
<1>5. ASSUME NEW n \in Netifs, NEW l \in Leases \cup {"static", "none"}
      PROVE  /\ [n EXCEPT !.ip = l] \in Netifs
             /\ [n EXCEPT !.ip = l].ip = l /\ [n EXCEPT !.ip = l].up = n.up
  BY <1>5 DEF Netifs
<1> QED BY <1>2, <1>3, <1>4, <1>5

(* The interface keeps its type.                                             *)
LEMMA NetifTypes ==
  ASSUME netif \in Netifs
  PROVE  /\ [netif EXCEPT !.up = TRUE] \in Netifs
         /\ [netif EXCEPT !.up = FALSE] \in Netifs
         /\ [netif EXCEPT !.ip = "none"] \in Netifs
<1>1. TRUE \in BOOLEAN /\ FALSE \in BOOLEAN
  OBVIOUS
<1> QED BY <1>1, NetifFields

(* A timeout is none, one tick or more.                                      *)
LEMMA WaitTypes == ASSUME NEW f, NEW n PROVE Wait(f, n) \in {Off, Last, Many}
  BY DEF Wait

(* dhcp_start.                                                               *)
LEMMA NewFields ==
  /\ NewClient \in Clients /\ NewClient.state = "off" /\ NewClient.offered = "none"
  /\ ~NewClient.leased /\ NewClient.sent = {} /\ NewClient.tries = 0
<1>1. FALSE \in BOOLEAN /\ 0 \in 0 .. TriesBound /\ Off \in Off .. Many
  BY DEF TriesBound, Off, Many
<1>2. NewClient \in Clients
  BY <1>1, Zenon DEF NewClient, Clients, States
<1> QED BY <1>2 DEF NewClient

(* What is left to show of the invariant once the types are known.           *)
Safe == /\ ControlInv /\ FirstInv /\ ClientInv /\ AddressInv /\ TimerInv
        /\ LeaseHeld /\ BoundHasAddress

(* The main loop's dhcp_set_state. *)
LEMMA FunctionStateStep ==
  ASSUME IInv, Forget \/ TestState \/ StoreState \/ ResetTries \/ ResetTimer
  PROVE  client' \in Clients /\ Safe'
<1> USE DEF IInv, Safe, ControlInv, FirstInv, ClientInv, AddressInv, TimerInv, LeaseHeld,
            BoundHasAddress, InFunction, FunctionAt, Leased, Waiting, Deciding, Binding,
            Off, Last, Many, Messages, supervision
<1>1. /\ TypeOK /\ client \in Clients /\ netif \in Netifs /\ devip \in Leases \cup {"static"}
      /\ then \in {"up", "started", "process", "poll"}
  BY DEF TypeOK
<1>2. CASE Forget
  <2>1. /\ client' \in Clients
        /\ client'.state = client.state
        /\ client'.tries = client.tries
        /\ client'.timer = client.timer
        /\ client'.offered = "none"
        /\ client'.leased = client.leased
        /\ client'.sent = client.sent
    BY <1>1, <1>2 DEF Forget, Clients
  <2>2. ControlInv' /\ FirstInv'
    BY <1>1, <1>2, <2>1, DhcpAssumption DEF Forget, Goto
  <2>3. ClientInv'
    BY <1>1, <1>2, <2>1, DhcpAssumption DEF Forget, Goto
  <2>4. AddressInv'
    BY <1>1, <1>2, <2>1, DhcpAssumption DEF Forget, Goto
  <2>5. TimerInv'
    BY <1>1, <1>2, <2>1, DhcpAssumption DEF Forget, Goto
  <2>6. LeaseHeld' /\ BoundHasAddress'
    BY <1>1, <1>2, <2>1, DhcpAssumption DEF Forget, Goto
  <2> QED BY <2>1, <2>2, <2>3, <2>4, <2>5, <2>6, <1>1, <1>2 DEF Forget, Goto
<1>3. CASE TestState
  <2>1. client' = client
    BY <1>1, <1>3 DEF TestState
  <2>2. ControlInv' /\ FirstInv'
    BY <1>1, <1>3, <2>1, StatesOf, AfterState DEF TestState, Goto
  <2>3. ClientInv'
    BY <1>1, <1>3, <2>1, StatesOf, AfterState DEF TestState, Goto
  <2>4. AddressInv'
    BY <1>1, <1>3, <2>1, StatesOf, AfterState DEF TestState, Goto
  <2>5. TimerInv'
    BY <1>1, <1>3, <2>1, StatesOf, AfterState DEF TestState, Goto
  <2>6. LeaseHeld' /\ BoundHasAddress'
    BY <1>1, <1>3, <2>1, StatesOf, AfterState DEF TestState, Goto
  <2> QED BY <2>1, <2>2, <2>3, <2>4, <2>5, <2>6, <1>1, <1>3 DEF TestState, Goto
<1>4. CASE StoreState
  <2>1. StateOf(doing) \in States
    BY <1>1, <1>4, StatesOf DEF StoreState, Goto, States
  <2>2. /\ client' \in Clients
        /\ client'.state = StateOf(doing)
        /\ client'.tries = client.tries
        /\ client'.timer = client.timer
        /\ client'.offered = client.offered
        /\ client'.leased = client.leased
        /\ client'.sent = client.sent
    BY <1>1, <1>4, <2>1 DEF StoreState, Clients
  <2>3. ControlInv' /\ FirstInv'
    BY <1>1, <1>4, <2>1, <2>2, StatesOf DEF StoreState, Goto
  <2>4. ClientInv'
    BY <1>1, <1>4, <2>1, <2>2, StatesOf DEF StoreState, Goto
  <2>5. AddressInv'
    BY <1>1, <1>4, <2>1, <2>2, StatesOf DEF StoreState, Goto
  <2>6. TimerInv'
    BY <1>1, <1>4, <2>1, <2>2, StatesOf DEF StoreState, Goto
  <2>7. LeaseHeld' /\ BoundHasAddress'
    BY <1>1, <1>4, <2>1, <2>2, StatesOf DEF StoreState, Goto
  <2> QED BY <2>1, <2>2, <2>3, <2>4, <2>5, <2>6, <2>7, <1>1, <1>4 DEF StoreState, Goto
<1>5. CASE ResetTries
  <2>1. 0 \in 0 .. TriesBound
    BY <1>1, <1>5 DEF TriesBound
  <2>2. /\ client' \in Clients
        /\ client'.state = client.state
        /\ client'.tries = 0
        /\ client'.timer = client.timer
        /\ client'.offered = client.offered
        /\ client'.leased = client.leased
        /\ client'.sent = client.sent
    BY <1>1, <1>5, <2>1 DEF ResetTries, Clients
  <2>3. ControlInv' /\ FirstInv'
    BY <1>1, <1>5, <2>1, <2>2 DEF ResetTries, Goto
  <2>4. ClientInv'
    BY <1>1, <1>5, <2>1, <2>2 DEF ResetTries, Goto
  <2>5. AddressInv'
    BY <1>1, <1>5, <2>1, <2>2 DEF ResetTries, Goto
  <2>6. TimerInv'
    BY <1>1, <1>5, <2>1, <2>2 DEF ResetTries, Goto
  <2>7. LeaseHeld' /\ BoundHasAddress'
    BY <1>1, <1>5, <2>1, <2>2 DEF ResetTries, Goto
  <2> QED BY <2>1, <2>2, <2>3, <2>4, <2>5, <2>6, <2>7, <1>1, <1>5 DEF ResetTries, Goto
<1>6. CASE ResetTimer
  <2>1. Off \in Off .. Many
    BY <1>1, <1>6
  <2>2. /\ client' \in Clients
        /\ client'.state = client.state
        /\ client'.tries = client.tries
        /\ client'.timer = Off
        /\ client'.offered = client.offered
        /\ client'.leased = client.leased
        /\ client'.sent = client.sent
    BY <1>1, <1>6, <2>1 DEF ResetTimer, Clients
  <2>3. ControlInv' /\ FirstInv'
    BY <1>1, <1>6, <2>1, <2>2, AfterState DEF ResetTimer, Goto
  <2>4. ClientInv'
    BY <1>1, <1>6, <2>1, <2>2, AfterState DEF ResetTimer, Goto
  <2>5. AddressInv'
    BY <1>1, <1>6, <2>1, <2>2, AfterState DEF ResetTimer, Goto
  <2>6. TimerInv'
    BY <1>1, <1>6, <2>1, <2>2, AfterState DEF ResetTimer, Goto
  <2>7. LeaseHeld' /\ BoundHasAddress'
    BY <1>1, <1>6, <2>1, <2>2, AfterState DEF ResetTimer, Goto
  <2> QED BY <2>1, <2>2, <2>3, <2>4, <2>5, <2>6, <2>7, <1>1, <1>6 DEF ResetTimer, Goto
<1> QED BY <1>2, <1>3, <1>4, <1>5, <1>6

(* The main loop's messages. *)
LEMMA FunctionSendStep ==
  ASSUME IInv, Create \/ SendTo \/ Fault \/ DeleteMsg \/ LoadTries
              \/ StoreTries
  PROVE  client' \in Clients /\ Safe'
<1> USE DEF IInv, Safe, ControlInv, FirstInv, ClientInv, AddressInv, TimerInv, LeaseHeld,
            BoundHasAddress, InFunction, FunctionAt, Leased, Waiting, Deciding, Binding,
            Off, Last, Many, Messages, supervision
<1>1. /\ TypeOK /\ client \in Clients /\ netif \in Netifs /\ devip \in Leases \cup {"static"}
      /\ then \in {"up", "started", "process", "poll"}
  BY DEF TypeOK
<1>2. CASE Create
  <2>1. doing \in Messages
    BY <1>1, <1>2 DEF Create, Goto
  <2>2. client' = CreateMsg(IF doing = "release" THEN [client EXCEPT !.offered = "none"]
                                                ELSE client)
    BY <1>1, <1>2 DEF Create
  <2>3. /\ client' \in Clients
        /\ client'.state = client.state
        /\ client'.tries = client.tries
        /\ client'.timer = client.timer
        /\ client'.offered = IF doing = "release" THEN "none" ELSE client.offered
        /\ client'.leased = client.leased
        /\ client'.sent = IF client.tries = 0 THEN {} ELSE client.sent
    BY <1>1, <1>2, <2>2 DEF CreateMsg, Clients
  <2>4. ControlInv' /\ FirstInv'
    BY <1>1, <1>2, <2>1, <2>2, <2>3, DhcpAssumption DEF Create, Goto
  <2>5. ClientInv'
    BY <1>1, <1>2, <2>1, <2>2, <2>3, DhcpAssumption DEF Create, Goto
  <2>6. AddressInv'
    BY <1>1, <1>2, <2>1, <2>2, <2>3, DhcpAssumption DEF Create, Goto
  <2>7. TimerInv'
    BY <1>1, <1>2, <2>1, <2>2, <2>3, DhcpAssumption DEF Create, Goto
  <2>8. LeaseHeld' /\ BoundHasAddress'
    BY <1>1, <1>2, <2>1, <2>2, <2>3, DhcpAssumption DEF Create, Goto
  <2> QED BY <2>1, <2>2, <2>3, <2>4, <2>5, <2>6, <2>7, <2>8, <1>1, <1>2 DEF Create, Goto
<1>3. CASE SendTo
  <2>1. /\ MessageOf(doing, client) \in {"DISCOVER", "REQUEST", "OTHER"}
        /\ MessageOf(doing, client) = "REQUEST" =>
              \/ doing = "select" /\ client.offered # "none"
              \/ doing \in {"renew", "rebind"} /\ netif.ip # "none"
    BY <1>1, <1>3, MessagesOf
  <2>2. /\ client' \in Clients
        /\ client'.state = client.state
        /\ client'.tries = client.tries
        /\ client'.timer = client.timer
        /\ client'.offered = client.offered
        /\ client'.leased = client.leased
        /\ client'.sent = client.sent \cup {MessageOf(doing, client)}
    BY <1>1, <1>3, <2>1 DEF SendTo, Clients
  <2>3. doing \in {"renew", "rebind"} /\ netif.ip # "none" => client.offered # "none"
    BY <1>1, <1>3 DEF SendTo, Goto, Netifs
  <2>4. "REQUEST" \in client'.sent =>
          \/ "REQUEST" \in client.sent
          \/ client.offered # "none" /\ client.state # "selecting"
    BY <1>1, <1>3, <2>1, <2>2, <2>3 DEF SendTo, Goto
  <2>5. ControlInv' /\ FirstInv'
    BY <1>1, <1>3, <2>1, <2>2, <2>3, <2>4 DEF SendTo, Goto
  <2>6. ClientInv'
    BY <1>1, <1>3, <2>1, <2>2, <2>3, <2>4 DEF SendTo, Goto
  <2>7. AddressInv'
    BY <1>1, <1>3, <2>1, <2>2, <2>3, <2>4 DEF SendTo, Goto
  <2>8. TimerInv'
    BY <1>1, <1>3, <2>1, <2>2, <2>3, <2>4 DEF SendTo, Goto
  <2>9. LeaseHeld' /\ BoundHasAddress'
    BY <1>1, <1>3, <2>1, <2>2, <2>3, <2>4 DEF SendTo, Goto
  <2> QED BY <2>1, <2>2, <2>3, <2>4, <2>5, <2>6, <2>7, <2>8, <2>9, <1>1, <1>3 DEF SendTo, Goto
<1>4. CASE Fault
  <2>1. client' = client
    BY <1>1, <1>4 DEF Fault
  <2>2. ControlInv' /\ FirstInv'
    BY <1>1, <1>4, <2>1 DEF Fault, Goto
  <2>3. ClientInv'
    BY <1>1, <1>4, <2>1 DEF Fault, Goto
  <2>4. AddressInv'
    BY <1>1, <1>4, <2>1 DEF Fault, Goto
  <2>5. TimerInv'
    BY <1>1, <1>4, <2>1 DEF Fault, Goto
  <2>6. LeaseHeld' /\ BoundHasAddress'
    BY <1>1, <1>4, <2>1 DEF Fault, Goto
  <2> QED BY <2>1, <2>2, <2>3, <2>4, <2>5, <2>6, <1>1, <1>4 DEF Fault, Goto
<1>5. CASE DeleteMsg
  <2>1. client' = client
    BY <1>1, <1>5 DEF DeleteMsg
  <2>2. ControlInv' /\ FirstInv'
    BY <1>1, <1>5, <2>1 DEF DeleteMsg, Goto
  <2>3. ClientInv'
    BY <1>1, <1>5, <2>1 DEF DeleteMsg, Goto
  <2>4. AddressInv'
    BY <1>1, <1>5, <2>1 DEF DeleteMsg, Goto
  <2>5. TimerInv'
    BY <1>1, <1>5, <2>1 DEF DeleteMsg, Goto
  <2>6. LeaseHeld' /\ BoundHasAddress'
    BY <1>1, <1>5, <2>1 DEF DeleteMsg, Goto
  <2> QED BY <2>1, <2>2, <2>3, <2>4, <2>5, <2>6, <1>1, <1>5 DEF DeleteMsg, Goto
<1>6. CASE LoadTries
  <2>1. client' = client
    BY <1>1, <1>6 DEF LoadTries
  <2>2. ControlInv' /\ FirstInv'
    BY <1>1, <1>6, <2>1 DEF LoadTries, Goto
  <2>3. ClientInv'
    BY <1>1, <1>6, <2>1 DEF LoadTries, Goto
  <2>4. AddressInv'
    BY <1>1, <1>6, <2>1 DEF LoadTries, Goto
  <2>5. TimerInv'
    BY <1>1, <1>6, <2>1 DEF LoadTries, Goto
  <2>6. LeaseHeld' /\ BoundHasAddress'
    BY <1>1, <1>6, <2>1 DEF LoadTries, Goto
  <2> QED BY <2>1, <2>2, <2>3, <2>4, <2>5, <2>6, <1>1, <1>6 DEF LoadTries, Goto
<1>7. CASE StoreTries
  <2>1. PICK n \in 0 .. TriesBound : client' = [client EXCEPT !.tries = n] /\ (n = 0 => wrapped')
    BY <1>1, <1>7 DEF StoreTries, TypeOK, TriesBound
  <2>2. /\ client' \in Clients
        /\ client'.state = client.state
        /\ client'.tries = n
        /\ client'.timer = client.timer
        /\ client'.offered = client.offered
        /\ client'.leased = client.leased
        /\ client'.sent = client.sent
    BY <1>1, <1>7, <2>1 DEF Clients
  <2>3. ControlInv' /\ FirstInv'
    BY <1>1, <1>7, <2>1, <2>2 DEF StoreTries
  <2>4. ClientInv'
    BY <1>1, <1>7, <2>1, <2>2 DEF StoreTries
  <2>5. AddressInv'
    BY <1>1, <1>7, <2>1, <2>2 DEF StoreTries
  <2>6. TimerInv'
    BY <1>1, <1>7, <2>1, <2>2 DEF StoreTries
  <2>7. LeaseHeld' /\ BoundHasAddress'
    BY <1>1, <1>7, <2>1, <2>2 DEF StoreTries
  <2> QED BY <2>1, <2>2, <2>3, <2>4, <2>5, <2>6, <2>7, <1>1, <1>7 DEF StoreTries
<1> QED BY <1>2, <1>3, <1>4, <1>5, <1>6, <1>7

(* The main loop's timeouts. *)
LEMMA FunctionArmStep ==
  ASSUME IInv, ComputeTimeout \/ Arm \/ TakeDown \/ ClearAddress
              \/ StartLease \/ SetAddress \/ Raise
  PROVE  client' \in Clients /\ Safe'
<1> USE DEF IInv, Safe, ControlInv, FirstInv, ClientInv, AddressInv, TimerInv, LeaseHeld,
            BoundHasAddress, InFunction, FunctionAt, Leased, Waiting, Deciding, Binding,
            Off, Last, Many, Messages, supervision
<1>1. /\ TypeOK /\ client \in Clients /\ netif \in Netifs /\ devip \in Leases \cup {"static"}
      /\ then \in {"up", "started", "process", "poll"}
  BY DEF TypeOK
<1>2. CASE ComputeTimeout
  <2>1. client' = client
    BY <1>1, <1>2 DEF ComputeTimeout
  <2>2. client.tries \in 0 .. TriesBound
    BY <1>1, <1>2 DEF Clients
  <2>3. ControlInv' /\ FirstInv'
    BY <1>1, <1>2, <2>1, <2>2, Waits DEF ComputeTimeout, Goto
  <2>4. ClientInv'
    BY <1>1, <1>2, <2>1, <2>2, Waits DEF ComputeTimeout, Goto
  <2>5. AddressInv'
    BY <1>1, <1>2, <2>1, <2>2, Waits DEF ComputeTimeout, Goto
  <2>6. TimerInv'
    BY <1>1, <1>2, <2>1, <2>2, Waits DEF ComputeTimeout, Goto
  <2>7. LeaseHeld' /\ BoundHasAddress'
    BY <1>1, <1>2, <2>1, <2>2, Waits DEF ComputeTimeout, Goto
  <2> QED BY <2>1, <2>2, <2>3, <2>4, <2>5, <2>6, <2>7, <1>1, <1>2 DEF ComputeTimeout, Goto
<1>3. CASE Arm
  <2>1. reg \in Off .. Many
    BY <1>1, <1>3 DEF Arm, Goto
  <2>2. /\ client' \in Clients
        /\ client'.state = client.state
        /\ client'.tries = client.tries
        /\ client'.timer = reg
        /\ client'.offered = client.offered
        /\ client'.leased = client.leased
        /\ client'.sent = client.sent
    BY <1>1, <1>3, <2>1 DEF Arm, Clients
  <2>3. ControlInv' /\ FirstInv'
    BY <1>1, <1>3, <2>1, <2>2 DEF Arm, Goto
  <2>4. ClientInv'
    BY <1>1, <1>3, <2>1, <2>2 DEF Arm, Goto
  <2>5. AddressInv'
    BY <1>1, <1>3, <2>1, <2>2 DEF Arm, Goto
  <2>6. TimerInv'
    BY <1>1, <1>3, <2>1, <2>2 DEF Arm, Goto
  <2>7. LeaseHeld' /\ BoundHasAddress'
    BY <1>1, <1>3, <2>1, <2>2 DEF Arm, Goto
  <2> QED BY <2>1, <2>2, <2>3, <2>4, <2>5, <2>6, <2>7, <1>1, <1>3 DEF Arm, Goto
<1>4. CASE TakeDown
  <2>1. client' = client /\ netif' \in Netifs /\ netif'.ip = netif.ip
    BY <1>1, <1>4, NetifFields DEF TakeDown
  <2>2. ControlInv' /\ FirstInv'
    BY <1>1, <1>4, <2>1 DEF TakeDown, Goto
  <2>3. ClientInv'
    BY <1>1, <1>4, <2>1 DEF TakeDown, Goto
  <2>4. AddressInv'
    BY <1>1, <1>4, <2>1 DEF TakeDown, Goto
  <2>5. TimerInv'
    BY <1>1, <1>4, <2>1 DEF TakeDown, Goto
  <2>6. LeaseHeld' /\ BoundHasAddress'
    BY <1>1, <1>4, <2>1 DEF TakeDown, Goto
  <2> QED BY <2>1, <2>2, <2>3, <2>4, <2>5, <2>6, <1>1, <1>4 DEF TakeDown, Goto
<1>5. CASE ClearAddress
  <2>1. client' = client /\ netif' \in Netifs /\ netif'.ip = "none"
    BY <1>1, <1>5, NetifFields DEF ClearAddress
  <2>2. ControlInv' /\ FirstInv'
    BY <1>1, <1>5, <2>1, DhcpAssumption DEF ClearAddress, Goto
  <2>3. ClientInv'
    BY <1>1, <1>5, <2>1, DhcpAssumption DEF ClearAddress, Goto
  <2>4. AddressInv'
    BY <1>1, <1>5, <2>1, DhcpAssumption DEF ClearAddress, Goto
  <2>5. TimerInv'
    BY <1>1, <1>5, <2>1, DhcpAssumption DEF ClearAddress, Goto
  <2>6. LeaseHeld' /\ BoundHasAddress'
    BY <1>1, <1>5, <2>1, DhcpAssumption DEF ClearAddress, Goto
  <2> QED BY <2>1, <2>2, <2>3, <2>4, <2>5, <2>6, <1>1, <1>5 DEF ClearAddress, Goto
<1>6. CASE StartLease
  <2>1. TRUE \in BOOLEAN
    BY <1>1, <1>6
  <2>2. /\ client' \in Clients
        /\ client'.state = client.state
        /\ client'.tries = client.tries
        /\ client'.timer = client.timer
        /\ client'.offered = client.offered
        /\ client'.leased = TRUE
        /\ client'.sent = client.sent
    BY <1>1, <1>6, <2>1 DEF StartLease, Clients
  <2>3. ControlInv' /\ FirstInv'
    BY <1>1, <1>6, <2>1, <2>2 DEF StartLease, Goto
  <2>4. ClientInv'
    BY <1>1, <1>6, <2>1, <2>2 DEF StartLease, Goto
  <2>5. AddressInv'
    BY <1>1, <1>6, <2>1, <2>2 DEF StartLease, Goto
  <2>6. TimerInv'
    BY <1>1, <1>6, <2>1, <2>2 DEF StartLease, Goto
  <2>7. LeaseHeld' /\ BoundHasAddress'
    BY <1>1, <1>6, <2>1, <2>2 DEF StartLease, Goto
  <2> QED BY <2>1, <2>2, <2>3, <2>4, <2>5, <2>6, <2>7, <1>1, <1>6 DEF StartLease, Goto
<1>7. CASE SetAddress
  <2>1. client' = client /\ client.offered \in Leases \cup {"none"}
    BY <1>1, <1>7 DEF SetAddress, Clients
  <2>2. netif' \in Netifs /\ netif'.ip = client.offered
    BY <1>1, <1>7, <2>1, NetifFields DEF SetAddress
  <2>3. ControlInv' /\ FirstInv'
    BY <1>1, <1>7, <2>1, <2>2, DhcpAssumption DEF SetAddress, Goto
  <2>4. ClientInv'
    BY <1>1, <1>7, <2>1, <2>2, DhcpAssumption DEF SetAddress, Goto
  <2>5. AddressInv'
    BY <1>1, <1>7, <2>1, <2>2, DhcpAssumption DEF SetAddress, Goto
  <2>6. TimerInv'
    BY <1>1, <1>7, <2>1, <2>2, DhcpAssumption DEF SetAddress, Goto
  <2>7. LeaseHeld' /\ BoundHasAddress'
    BY <1>1, <1>7, <2>1, <2>2, DhcpAssumption DEF SetAddress, Goto
  <2> QED BY <2>1, <2>2, <2>3, <2>4, <2>5, <2>6, <2>7, <1>1, <1>7 DEF SetAddress, Goto
<1>8. CASE Raise
  <2>1. client' = client /\ netif' \in Netifs /\ netif'.ip = netif.ip /\ netif'.up
    BY <1>1, <1>8, NetifFields DEF Raise
  <2>2. ControlInv' /\ FirstInv'
    BY <1>1, <1>8, <2>1 DEF Raise, Goto
  <2>3. ClientInv'
    BY <1>1, <1>8, <2>1 DEF Raise, Goto
  <2>4. AddressInv'
    BY <1>1, <1>8, <2>1 DEF Raise, Goto
  <2>5. TimerInv'
    BY <1>1, <1>8, <2>1 DEF Raise, Goto
  <2>6. LeaseHeld' /\ BoundHasAddress'
    BY <1>1, <1>8, <2>1 DEF Raise, Goto
  <2> QED BY <2>1, <2>2, <2>3, <2>4, <2>5, <2>6, <1>1, <1>8 DEF Raise, Goto
<1> QED BY <1>2, <1>3, <1>4, <1>5, <1>6, <1>7, <1>8

(* dhcp_fine_tmr and dhcp_coarse_tmr. *)
LEMMA TimerStep ==
  ASSUME IInv, Tick \/ IsLast \/ LoadTimer \/ CountDown \/ CountOn \/ TimeOut
              \/ TimeOutWaiting \/ TimeOutTries \/ LeaseTimeout
  PROVE  client' \in Clients /\ Safe'
<1> USE DEF IInv, Safe, ControlInv, FirstInv, ClientInv, AddressInv, TimerInv, LeaseHeld,
            BoundHasAddress, InFunction, FunctionAt, Leased, Waiting, Deciding, Binding,
            Off, Last, Many, Messages, supervision
<1>1. /\ TypeOK /\ client \in Clients /\ netif \in Netifs /\ devip \in Leases \cup {"static"}
      /\ then \in {"up", "started", "process", "poll"}
  BY DEF TypeOK
<1>2. CASE Tick
  <2>1. client' = client /\ client.timer \in Off .. Many
    BY <1>1, <1>2 DEF Tick, Clients
  <2>2. ControlInv' /\ FirstInv'
    BY <1>1, <1>2, <2>1 DEF Tick, Goto
  <2>3. ClientInv'
    BY <1>1, <1>2, <2>1 DEF Tick, Goto
  <2>4. AddressInv'
    BY <1>1, <1>2, <2>1 DEF Tick, Goto
  <2>5. TimerInv'
    BY <1>1, <1>2, <2>1 DEF Tick, Goto
  <2>6. LeaseHeld' /\ BoundHasAddress'
    BY <1>1, <1>2, <2>1 DEF Tick, Goto
  <2> QED BY <2>1, <2>2, <2>3, <2>4, <2>5, <2>6, <1>1, <1>2 DEF Tick, Goto
<1>3. CASE IsLast
  <2>1. client' = client
    BY <1>1, <1>3 DEF IsLast
  <2>2. ControlInv' /\ FirstInv'
    BY <1>1, <1>3, <2>1 DEF IsLast, Goto
  <2>3. ClientInv'
    BY <1>1, <1>3, <2>1 DEF IsLast, Goto
  <2>4. AddressInv'
    BY <1>1, <1>3, <2>1 DEF IsLast, Goto
  <2>5. TimerInv'
    BY <1>1, <1>3, <2>1 DEF IsLast, Goto
  <2>6. LeaseHeld' /\ BoundHasAddress'
    BY <1>1, <1>3, <2>1 DEF IsLast, Goto
  <2> QED BY <2>1, <2>2, <2>3, <2>4, <2>5, <2>6, <1>1, <1>3 DEF IsLast, Goto
<1>4. CASE LoadTimer
  <2>1. client' = client
    BY <1>1, <1>4 DEF LoadTimer
  <2>2. client.timer \in Off .. Many
    BY <1>1, <1>4 DEF Clients
  <2>3. ControlInv' /\ FirstInv'
    BY <1>1, <1>4, <2>1, <2>2 DEF LoadTimer, Goto
  <2>4. ClientInv'
    BY <1>1, <1>4, <2>1, <2>2 DEF LoadTimer, Goto
  <2>5. AddressInv'
    BY <1>1, <1>4, <2>1, <2>2 DEF LoadTimer, Goto
  <2>6. TimerInv'
    BY <1>1, <1>4, <2>1, <2>2 DEF LoadTimer, Goto
  <2>7. LeaseHeld' /\ BoundHasAddress'
    BY <1>1, <1>4, <2>1, <2>2 DEF LoadTimer, Goto
  <2> QED BY <2>1, <2>2, <2>3, <2>4, <2>5, <2>6, <2>7, <1>1, <1>4 DEF LoadTimer, Goto
<1>5. CASE CountDown
  <2>1. reg - 1 \in Off .. Many
    BY <1>1, <1>5 DEF CountDown, Stored, Goto
  <2>2. /\ client' \in Clients
        /\ client'.state = client.state
        /\ client'.tries = client.tries
        /\ client'.timer = reg - 1
        /\ client'.offered = client.offered
        /\ client'.leased = client.leased
        /\ client'.sent = client.sent
    BY <1>1, <1>5, <2>1 DEF CountDown, Clients
  <2>3. ControlInv' /\ FirstInv'
    BY <1>1, <1>5, <2>1, <2>2 DEF CountDown, Stored, Goto
  <2>4. ClientInv'
    BY <1>1, <1>5, <2>1, <2>2 DEF CountDown, Stored, Goto
  <2>5. AddressInv'
    BY <1>1, <1>5, <2>1, <2>2 DEF CountDown, Stored, Goto
  <2>6. TimerInv'
    BY <1>1, <1>5, <2>1, <2>2 DEF CountDown, Stored, Goto
  <2>7. LeaseHeld' /\ BoundHasAddress'
    BY <1>1, <1>5, <2>1, <2>2 DEF CountDown, Stored, Goto
  <2> QED BY <2>1, <2>2, <2>3, <2>4, <2>5, <2>6, <2>7, <1>1, <1>5 DEF CountDown, Stored, Goto
<1>6. CASE CountOn
  <2>1. /\ client' \in Clients
        /\ client'.state = client.state
        /\ client'.tries = client.tries
        /\ client'.timer = Many
        /\ client'.offered = client.offered
        /\ client'.leased = client.leased
        /\ client'.sent = client.sent
    BY <1>1, <1>6 DEF CountOn, Clients
  <2>2. ControlInv' /\ FirstInv'
    BY <1>1, <1>6, <2>1 DEF CountOn, Stored, Goto
  <2>3. ClientInv'
    BY <1>1, <1>6, <2>1 DEF CountOn, Stored, Goto
  <2>4. AddressInv'
    BY <1>1, <1>6, <2>1 DEF CountOn, Stored, Goto
  <2>5. TimerInv'
    BY <1>1, <1>6, <2>1 DEF CountOn, Stored, Goto
  <2>6. LeaseHeld' /\ BoundHasAddress'
    BY <1>1, <1>6, <2>1 DEF CountOn, Stored, Goto
  <2> QED BY <2>1, <2>2, <2>3, <2>4, <2>5, <2>6, <1>1, <1>6 DEF CountOn, Stored, Goto
<1>7. CASE TimeOut
  <2>1. client' = client
    BY <1>1, <1>7 DEF TimeOut, Do
  <2>2. ControlInv' /\ FirstInv'
    BY <1>1, <1>7, <2>1, EntriesOf DEF TimeOut, Do
  <2>3. ClientInv'
    BY <1>1, <1>7, <2>1, EntriesOf DEF TimeOut, Do
  <2>4. AddressInv'
    BY <1>1, <1>7, <2>1, EntriesOf DEF TimeOut, Do
  <2>5. TimerInv'
    BY <1>1, <1>7, <2>1, EntriesOf DEF TimeOut, Do
  <2>6. LeaseHeld' /\ BoundHasAddress'
    BY <1>1, <1>7, <2>1, EntriesOf DEF TimeOut, Do
  <2> QED BY <2>1, <2>2, <2>3, <2>4, <2>5, <2>6, <1>1, <1>7 DEF TimeOut, Do
<1>8. CASE TimeOutWaiting
  <2>1. client' = client
    BY <1>1, <1>8 DEF TimeOutWaiting, Do
  <2>2. ControlInv' /\ FirstInv'
    BY <1>1, <1>8, <2>1, EntriesOf DEF TimeOutWaiting, Do
  <2>3. ClientInv'
    BY <1>1, <1>8, <2>1, EntriesOf DEF TimeOutWaiting, Do
  <2>4. AddressInv'
    BY <1>1, <1>8, <2>1, EntriesOf DEF TimeOutWaiting, Do
  <2>5. TimerInv'
    BY <1>1, <1>8, <2>1, EntriesOf DEF TimeOutWaiting, Do
  <2>6. LeaseHeld' /\ BoundHasAddress'
    BY <1>1, <1>8, <2>1, EntriesOf DEF TimeOutWaiting, Do
  <2> QED BY <2>1, <2>2, <2>3, <2>4, <2>5, <2>6, <1>1, <1>8 DEF TimeOutWaiting, Do
<1>9. CASE TimeOutTries
  <2>1. PICK f \in {"select", "check", "bind", "rebind", "release"} :
          /\ Do(f)
          /\ doing = "requesting" => f \in {"select", "release"}
          /\ doing = "checking" => f = IF client.tries <= 1 THEN "check" ELSE "bind"
          /\ doing = "rebinding" => f \in {"rebind", "release"}
    BY <1>1, <1>9 DEF TimeOutTries
  <2>2. client' = client
    BY <1>1, <1>9, <2>1 DEF Do
  <2>3. ControlInv' /\ FirstInv'
    BY <1>1, <1>9, <2>1, <2>2, EntriesOf DEF Do, TimeOutTries
  <2>4. ClientInv'
    BY <1>1, <1>9, <2>1, <2>2, EntriesOf DEF Do, TimeOutTries
  <2>5. AddressInv'
    BY <1>1, <1>9, <2>1, <2>2, EntriesOf DEF Do, TimeOutTries
  <2>6. TimerInv'
    BY <1>1, <1>9, <2>1, <2>2, EntriesOf DEF Do, TimeOutTries
  <2>7. LeaseHeld' /\ BoundHasAddress'
    BY <1>1, <1>9, <2>1, <2>2, EntriesOf DEF Do, TimeOutTries
  <2> QED BY <2>1, <2>2, <2>3, <2>4, <2>5, <2>6, <2>7, <1>1, <1>9 DEF Do, TimeOutTries
<1>10. CASE LeaseTimeout
  <2>1. client' = client
    BY <1>1, <1>10 DEF LeaseTimeout
  <2>2. ControlInv' /\ FirstInv'
    BY <1>1, <1>10, <2>1 DEF LeaseTimeout
  <2>3. ClientInv'
    BY <1>1, <1>10, <2>1 DEF LeaseTimeout
  <2>4. AddressInv'
    BY <1>1, <1>10, <2>1 DEF LeaseTimeout
  <2>5. TimerInv'
    BY <1>1, <1>10, <2>1 DEF LeaseTimeout
  <2>6. LeaseHeld' /\ BoundHasAddress'
    BY <1>1, <1>10, <2>1 DEF LeaseTimeout
  <2> QED BY <2>1, <2>2, <2>3, <2>4, <2>5, <2>6, <1>1, <1>10 DEF LeaseTimeout
<1> QED BY <1>2, <1>3, <1>4, <1>5, <1>6, <1>7, <1>8, <1>9, <1>10

(* lwip_comm_init and lwip_dhcp_process_handle. *)
LEMMA SuperviseStep ==
  ASSUME IInv, Start \/ SetUp \/ Process0 \/ Started \/ Adopt \/ NotYet
              \/ ReadTries \/ SetStatic \/ ProcessNothing \/ UNCHANGED vars
  PROVE  client' \in Clients /\ Safe'
<1> USE DEF IInv, Safe, ControlInv, FirstInv, ClientInv, AddressInv, TimerInv, LeaseHeld,
            BoundHasAddress, InFunction, FunctionAt, Leased, Waiting, Deciding, Binding,
            Off, Last, Many, Messages, supervision
<1>1. /\ TypeOK /\ client \in Clients /\ netif \in Netifs /\ devip \in Leases \cup {"static"}
      /\ then \in {"up", "started", "process", "poll"}
  BY DEF TypeOK
<1>2. CASE Start
  <2>1. /\ NewClient \in Clients /\ NewClient.state = "off" /\ NewClient.offered = "none"
        /\ ~NewClient.leased /\ NewClient.sent = {}
    BY <1>1, <1>2, NewFields
  <2>2. client' = NewClient
    BY <1>1, <1>2 DEF Start
  <2>3. ControlInv' /\ FirstInv'
    BY <1>1, <1>2, <2>1, <2>2 DEF Start, Goto
  <2>4. ClientInv'
    BY <1>1, <1>2, <2>1, <2>2 DEF Start, Goto
  <2>5. AddressInv'
    BY <1>1, <1>2, <2>1, <2>2 DEF Start, Goto
  <2>6. TimerInv'
    BY <1>1, <1>2, <2>1, <2>2 DEF Start, Goto
  <2>7. LeaseHeld' /\ BoundHasAddress'
    BY <1>1, <1>2, <2>1, <2>2 DEF Start, Goto
  <2> QED BY <2>1, <2>2, <2>3, <2>4, <2>5, <2>6, <2>7, <1>1, <1>2 DEF Start, Goto
<1>3. CASE SetUp
  <2>1. client' = client
    BY <1>1, <1>3 DEF SetUp
  <2>2. netif' \in Netifs /\ netif'.ip = netif.ip /\ netif'.up
    BY <1>1, <1>3, NetifFields DEF SetUp
  <2>3. ControlInv' /\ FirstInv'
    BY <1>1, <1>3, <2>1, <2>2 DEF SetUp, Goto
  <2>4. ClientInv'
    BY <1>1, <1>3, <2>1, <2>2 DEF SetUp, Goto
  <2>5. AddressInv'
    BY <1>1, <1>3, <2>1, <2>2 DEF SetUp, Goto
  <2>6. TimerInv'
    BY <1>1, <1>3, <2>1, <2>2 DEF SetUp, Goto
  <2>7. LeaseHeld' /\ BoundHasAddress'
    BY <1>1, <1>3, <2>1, <2>2 DEF SetUp, Goto
  <2> QED BY <2>1, <2>2, <2>3, <2>4, <2>5, <2>6, <2>7, <1>1, <1>3 DEF SetUp, Goto
<1>4. CASE Process0
  <2>1. client' = client
    BY <1>1, <1>4 DEF Process0
  <2>2. ControlInv' /\ FirstInv'
    BY <1>1, <1>4, <2>1 DEF Process0
  <2>3. ClientInv'
    BY <1>1, <1>4, <2>1 DEF Process0
  <2>4. AddressInv'
    BY <1>1, <1>4, <2>1 DEF Process0
  <2>5. TimerInv'
    BY <1>1, <1>4, <2>1 DEF Process0
  <2>6. LeaseHeld' /\ BoundHasAddress'
    BY <1>1, <1>4, <2>1 DEF Process0
  <2> QED BY <2>1, <2>2, <2>3, <2>4, <2>5, <2>6, <1>1, <1>4 DEF Process0
<1>5. CASE Started
  <2>1. client' = client
    BY <1>1, <1>5 DEF Started
  <2>2. ControlInv' /\ FirstInv'
    BY <1>1, <1>5, <2>1 DEF Started
  <2>3. ClientInv'
    BY <1>1, <1>5, <2>1 DEF Started
  <2>4. AddressInv'
    BY <1>1, <1>5, <2>1 DEF Started
  <2>5. TimerInv'
    BY <1>1, <1>5, <2>1 DEF Started
  <2>6. LeaseHeld' /\ BoundHasAddress'
    BY <1>1, <1>5, <2>1 DEF Started
  <2> QED BY <2>1, <2>2, <2>3, <2>4, <2>5, <2>6, <1>1, <1>5 DEF Started
<1>6. CASE Adopt
  <2>1. client' = client
    BY <1>1, <1>6 DEF Adopt
  <2>2. netif.ip \in Leases
    BY <1>1, <1>6 DEF Adopt, Netifs
  <2>3. ControlInv' /\ FirstInv'
    BY <1>1, <1>6, <2>1, <2>2 DEF Adopt
  <2>4. ClientInv'
    BY <1>1, <1>6, <2>1, <2>2 DEF Adopt
  <2>5. AddressInv'
    BY <1>1, <1>6, <2>1, <2>2 DEF Adopt
  <2>6. TimerInv'
    BY <1>1, <1>6, <2>1, <2>2 DEF Adopt
  <2>7. LeaseHeld' /\ BoundHasAddress'
    BY <1>1, <1>6, <2>1, <2>2 DEF Adopt
  <2> QED BY <2>1, <2>2, <2>3, <2>4, <2>5, <2>6, <2>7, <1>1, <1>6 DEF Adopt
<1>7. CASE NotYet
  <2>1. client' = client
    BY <1>1, <1>7 DEF NotYet
  <2>2. ControlInv' /\ FirstInv'
    BY <1>1, <1>7, <2>1 DEF NotYet
  <2>3. ClientInv'
    BY <1>1, <1>7, <2>1 DEF NotYet
  <2>4. AddressInv'
    BY <1>1, <1>7, <2>1 DEF NotYet
  <2>5. TimerInv'
    BY <1>1, <1>7, <2>1 DEF NotYet
  <2>6. LeaseHeld' /\ BoundHasAddress'
    BY <1>1, <1>7, <2>1 DEF NotYet
  <2> QED BY <2>1, <2>2, <2>3, <2>4, <2>5, <2>6, <1>1, <1>7 DEF NotYet
<1>8. CASE ReadTries
  <2>1. client' = client
    BY <1>1, <1>8 DEF ReadTries
  <2>2. ControlInv' /\ FirstInv'
    BY <1>1, <1>8, <2>1 DEF ReadTries
  <2>3. ClientInv'
    BY <1>1, <1>8, <2>1 DEF ReadTries
  <2>4. AddressInv'
    BY <1>1, <1>8, <2>1 DEF ReadTries
  <2>5. TimerInv'
    BY <1>1, <1>8, <2>1 DEF ReadTries
  <2>6. LeaseHeld' /\ BoundHasAddress'
    BY <1>1, <1>8, <2>1 DEF ReadTries
  <2> QED BY <2>1, <2>2, <2>3, <2>4, <2>5, <2>6, <1>1, <1>8 DEF ReadTries
<1>9. CASE SetStatic
  <2>1. client' = client /\ netif' \in Netifs /\ netif'.ip = devip /\ netif'.up = netif.up
    BY <1>1, <1>9, NetifFields DEF SetStatic
  <2>2. ControlInv' /\ FirstInv'
    BY <1>1, <1>9, <2>1, DhcpAssumption DEF SetStatic
  <2>3. ClientInv'
    BY <1>1, <1>9, <2>1, DhcpAssumption DEF SetStatic
  <2>4. AddressInv'
    BY <1>1, <1>9, <2>1, DhcpAssumption DEF SetStatic
  <2>5. TimerInv'
    BY <1>1, <1>9, <2>1, DhcpAssumption DEF SetStatic
  <2>6. LeaseHeld' /\ BoundHasAddress'
    BY <1>1, <1>9, <2>1, DhcpAssumption DEF SetStatic
  <2> QED BY <2>1, <2>2, <2>3, <2>4, <2>5, <2>6, <1>1, <1>9 DEF SetStatic
<1>10. CASE ProcessNothing
  <2>1. client' = client
    BY <1>1, <1>10 DEF ProcessNothing
  <2>2. ControlInv' /\ FirstInv'
    BY <1>1, <1>10, <2>1 DEF ProcessNothing
  <2>3. ClientInv'
    BY <1>1, <1>10, <2>1 DEF ProcessNothing
  <2>4. AddressInv'
    BY <1>1, <1>10, <2>1 DEF ProcessNothing
  <2>5. TimerInv'
    BY <1>1, <1>10, <2>1 DEF ProcessNothing
  <2>6. LeaseHeld' /\ BoundHasAddress'
    BY <1>1, <1>10, <2>1 DEF ProcessNothing
  <2> QED BY <2>1, <2>2, <2>3, <2>4, <2>5, <2>6, <1>1, <1>10 DEF ProcessNothing
<1>11. CASE UNCHANGED vars
  <2>1. client' = client
    BY <1>1, <1>11 DEF vars
  <2>2. ControlInv' /\ FirstInv'
    BY <1>1, <1>11, <2>1 DEF vars
  <2>3. ClientInv'
    BY <1>1, <1>11, <2>1 DEF vars
  <2>4. AddressInv'
    BY <1>1, <1>11, <2>1 DEF vars
  <2>5. TimerInv'
    BY <1>1, <1>11, <2>1 DEF vars
  <2>6. LeaseHeld' /\ BoundHasAddress'
    BY <1>1, <1>11, <2>1 DEF vars
  <2> QED BY <2>1, <2>2, <2>3, <2>4, <2>5, <2>6, <1>1, <1>11 DEF vars
<1> QED BY <1>2, <1>3, <1>4, <1>5, <1>6, <1>7, <1>8, <1>9, <1>10, <1>11

(* The steps of the handler.                                                 *)
LEMMA HandlerStep == ASSUME IInv, Handler PROVE client' \in Clients /\ Safe'
<1> USE DEF IInv, Safe, ControlInv, FirstInv, ClientInv, AddressInv, TimerInv, LeaseHeld,
            BoundHasAddress, InFunction, FunctionAt, Leased, Waiting, Deciding, Binding,
            Off, Last, Many, Messages, supervision,
            Interrupts, Answers
<1>1. /\ TypeOK /\ client \in Clients /\ netif \in Netifs /\ devip \in Leases \cup {"static"}
      /\ then \in {"up", "started", "process", "poll"}
  BY DEF TypeOK
<1>2. ASSUME NEW l \in Leases
      PROVE  LET c == [client EXCEPT !.offered = l]
             IN  /\ c \in Clients /\ c.state = client.state /\ c.offered = l
                 /\ c.leased = client.leased /\ c.sent = client.sent
  BY <1>1 DEF Clients
<1>3. ASSUME NEW l \in Leases, Offer(l) PROVE client' \in Clients /\ Safe'
  <2> DEFINE c == [client EXCEPT !.offered = l]
  <2>1. c \in Clients /\ c.state = "selecting" /\ c.offered = l /\ c.leased = client.leased
    BY <1>2, <1>3 DEF Offer
  <2>2. HandlerSends("select", c)
    BY <1>3 DEF Offer
  <2> HIDE DEF c
  <2>3. /\ client' \in Clients /\ client'.state = "requesting" /\ client'.timer = Many
        /\ client'.offered = l /\ client'.leased = client.leased /\ client'.tries = 1
    BY <2>1, <2>2, StatesOf, HandlerSendsFields DEF States
  <2>4. ControlInv' /\ FirstInv'
    BY <1>1, <1>3, <2>3, DhcpAssumption DEF Offer
  <2>5. ClientInv'
    BY <1>1, <1>3, <2>3, DhcpAssumption DEF Offer
  <2>6. AddressInv'
    BY <1>1, <1>3, <2>3, DhcpAssumption DEF Offer
  <2>7. TimerInv'
    BY <1>1, <1>3, <2>3, DhcpAssumption DEF Offer
  <2>8. LeaseHeld' /\ BoundHasAddress'
    BY <1>1, <1>3, <2>3, DhcpAssumption DEF Offer
  <2> QED BY <2>3, <2>4, <2>5, <2>6, <2>7, <2>8
<1>4. ASSUME NEW l \in Leases, Ack(l) PROVE client' \in Clients /\ Safe'
  <2> DEFINE c == [client EXCEPT !.offered = l]
  <2>1. /\ c \in Clients /\ c.state = "requesting" /\ c.offered = l
        /\ c.leased = client.leased /\ c.sent = client.sent /\ client' = Check(c)
    BY <1>2, <1>4 DEF Ack
  <2> HIDE DEF c
  <2>2. /\ client' \in Clients /\ client'.state = "checking" /\ client'.timer = Last
        /\ client'.tries = 1
        /\ client'.offered = l /\ client'.leased = client.leased /\ client'.sent = client.sent
    BY <2>1, CheckFields
  <2>3. ControlInv' /\ FirstInv'
    BY <1>1, <1>4, <2>2, DhcpAssumption DEF Ack
  <2>4. ClientInv'
    BY <1>1, <1>4, <2>2, DhcpAssumption DEF Ack
  <2>5. AddressInv'
    BY <1>1, <1>4, <2>2, DhcpAssumption DEF Ack
  <2>6. TimerInv'
    BY <1>1, <1>4, <2>2, DhcpAssumption DEF Ack
  <2>7. LeaseHeld' /\ BoundHasAddress'
    BY <1>1, <1>4, <2>2, DhcpAssumption DEF Ack
  <2> QED BY <2>2, <2>3, <2>4, <2>5, <2>6, <2>7
<1>5. ASSUME AckRenewed PROVE client' \in Clients /\ Safe'
  <2>1. /\ client' \in Clients /\ client'.state = "bound" /\ client'.leased
        /\ client'.offered = client.offered /\ client'.sent = client.sent
    BY <1>1, <1>5, BoundFields DEF AckRenewed
  <2>2. /\ client.offered \in Leases \cup {"none"} /\ client.offered # "none"
        /\ netif'.ip = client.offered /\ netif'.up
    BY <1>1, <1>5, NetifFields DEF AckRenewed, Clients
  <2>3. ControlInv' /\ FirstInv'
    BY <1>1, <1>5, <2>1, <2>2, DhcpAssumption DEF AckRenewed
  <2>4. ClientInv'
    BY <1>1, <1>5, <2>1, <2>2, DhcpAssumption DEF AckRenewed
  <2>5. AddressInv'
    BY <1>1, <1>5, <2>1, <2>2, DhcpAssumption DEF AckRenewed
  <2>6. TimerInv'
    BY <1>1, <1>5, <2>1, <2>2, DhcpAssumption DEF AckRenewed
  <2>7. LeaseHeld' /\ BoundHasAddress'
    BY <1>1, <1>5, <2>1, <2>2, DhcpAssumption DEF AckRenewed
  <2> QED BY <2>1, <2>2, <2>3, <2>4, <2>5, <2>6, <2>7
<1>6. ASSUME Nak PROVE client' \in Clients /\ Safe'
  <2> DEFINE b == SetState(client, "backing_off")
             c == [b EXCEPT !.offered = "none"]
  <2>1. b \in Clients /\ b.state = "backing_off" /\ b.leased = client.leased
    BY <1>1, SetStateFields DEF States
  <2>2. HandlerSends("discover", c)
    BY <1>6 DEF Nak
  <2> HIDE DEF b
  <2>3. c \in Clients /\ c.state = "backing_off" /\ c.leased = client.leased /\ c.offered = "none"
    BY <2>1 DEF Clients
  <2> HIDE DEF c
  <2>4. /\ client' \in Clients /\ client'.state = "selecting" /\ client'.timer = Many
        /\ client'.offered = "none" /\ client'.leased = client.leased /\ client'.tries = 1
        /\ client'.sent \in {{MessageOf("discover", client')}}
    BY <2>2, <2>3, StatesOf, HandlerSendsFields DEF States
  <2>5. client'.sent = {"DISCOVER"} /\ netif'.ip = "none"
    BY <1>6, <2>4, MessagesOf, NetifFields DEF Nak
  <2>6. ControlInv' /\ FirstInv'
    BY <1>1, <1>6, <2>4, <2>5, DhcpAssumption DEF Nak
  <2>7. ClientInv'
    BY <1>1, <1>6, <2>4, <2>5, DhcpAssumption DEF Nak
  <2>8. AddressInv'
    BY <1>1, <1>6, <2>4, <2>5, DhcpAssumption DEF Nak
  <2>9. TimerInv'
    BY <1>1, <1>6, <2>4, <2>5, DhcpAssumption DEF Nak
  <2>10. LeaseHeld' /\ BoundHasAddress'
    BY <1>1, <1>6, <2>4, <2>5, DhcpAssumption DEF Nak
  <2> QED BY <2>4, <2>5, <2>6, <2>7, <2>8, <2>9, <2>10
<1>7. ASSUME ArpReply PROVE client' \in Clients /\ Safe'
  <2>1. HandlerSends("decline", client)
    BY <1>7 DEF ArpReply
  <2>2. /\ client' \in Clients /\ client'.state = "backing_off" /\ client'.timer = Many
        /\ client'.offered = client.offered /\ client'.leased = client.leased /\ client'.tries = 1
        /\ client'.sent \in {{MessageOf("decline", client')}}
    BY <1>1, <1>7, <2>1, StatesOf, HandlerSendsFields DEF ArpReply, States
  <2>3. "REQUEST" \notin client'.sent
    BY <2>2, MessagesOf
  <2>4. ControlInv' /\ FirstInv'
    BY <1>1, <1>7, <2>2, <2>3, DhcpAssumption DEF ArpReply
  <2>5. ClientInv'
    BY <1>1, <1>7, <2>2, <2>3, DhcpAssumption DEF ArpReply
  <2>6. AddressInv'
    BY <1>1, <1>7, <2>2, <2>3, DhcpAssumption DEF ArpReply
  <2>7. TimerInv'
    BY <1>1, <1>7, <2>2, <2>3, DhcpAssumption DEF ArpReply
  <2>8. LeaseHeld' /\ BoundHasAddress'
    BY <1>1, <1>7, <2>2, <2>3, DhcpAssumption DEF ArpReply
  <2> QED BY <2>2, <2>3, <2>4, <2>5, <2>6, <2>7, <2>8
<1> QED BY <1>3, <1>4, <1>5, <1>6, <1>7 DEF Handler

(* The types of the other variables.                                         *)
LEMMA TypeStep == ASSUME IInv, [Next]_vars, client' \in Clients PROVE TypeOK'
<1>0. TypeOK
  BY DEF IInv
<1> USE <1>0 DEF TypeOK, Goto, supervision, FunctionAt, ElsewhereAt, Messages
<1>1. CASE Start
  BY <1>1 DEF Start
<1>2. CASE SetUp
  BY <1>2, NetifTypes DEF SetUp
<1>3. CASE Tick \/ IsLast \/ CountDown \/ CountOn
  BY <1>3 DEF Tick, IsLast, CountDown, CountOn, Stored
<1>4. CASE LoadTimer
  BY <1>4 DEF LoadTimer, Clients, Off, Many, TriesBound
<1>5. CASE TimeOut \/ TimeOutWaiting
  BY <1>5, EntriesOf DEF TimeOut, TimeOutWaiting, Do
<1>6. CASE LeaseTimeout
  BY <1>6 DEF LeaseTimeout
<1>7. CASE Process0 \/ Started \/ NotYet \/ ReadTries \/ ProcessNothing
  BY <1>7 DEF Process0, Started, NotYet, ReadTries, ProcessNothing
<1>8. CASE Adopt
  BY <1>8 DEF Adopt, Netifs
<1>9. CASE SetStatic
  BY <1>9, NetifFields DEF SetStatic
<1>10. CASE Forget \/ StoreState \/ ResetTries
  BY <1>10 DEF Forget, StoreState, ResetTries
<1>11. CASE TestState \/ ResetTimer
  BY <1>11 DEF TestState, ResetTimer, StateIsSet
<1>12. CASE Create \/ SendTo \/ Fault \/ DeleteMsg
  BY <1>12 DEF Create, SendTo, Fault, DeleteMsg
<1>13. CASE LoadTries
  BY <1>13 DEF LoadTries, Clients
<1>14. CASE Arm \/ StartLease
  BY <1>14 DEF Arm, StartLease
<1>15. CASE TakeDown
  BY <1>15, NetifTypes DEF TakeDown
<1>16. CASE Raise
  BY <1>16, NetifTypes DEF Raise
<1>17. CASE ClearAddress
  BY <1>17, NetifTypes DEF ClearAddress
<1>18. CASE SetAddress
  BY <1>18, NetifFields DEF SetAddress, Clients
<1>19. CASE StoreTries
  <2>1. TRUE \in BOOLEAN /\ wrapped \in BOOLEAN
    OBVIOUS
  <2>2. wrapped' \in BOOLEAN
    BY <1>19, <2>1, Zenon DEF StoreTries
  <2>3. /\ pc' = "arm"
        /\ UNCHANGED <<then, doing, reg, dhcpstatus, devip, netif, pout>>
    BY <1>19, Zenon DEF StoreTries, supervision
  <2> QED BY <2>2, <2>3
<1>20. CASE ComputeTimeout
  <2>1. reg' \in {Off, Last, Many}
    BY <1>20, WaitTypes DEF ComputeTimeout
  <2>2. reg' \in 0 .. TriesBound
    BY <2>1 DEF Off, Last, Many, TriesBound
  <2> QED BY <1>20, <2>2 DEF ComputeTimeout
<1>21. CASE TimeOutTries
  <2>1. PICK f \in {"select", "check", "bind", "rebind", "release"} : Do(f)
    <3>1. doing \in {"requesting", "checking", "rebinding"}
      BY <1>21 DEF IInv, ControlInv, TimeOutTries
    <3>2. CASE doing = "requesting"
      BY <1>21, <3>2 DEF TimeOutTries
    <3>3. CASE doing = "checking"
      BY <1>21, <3>3 DEF TimeOutTries
    <3>4. CASE doing = "rebinding"
      BY <1>21, <3>4 DEF TimeOutTries
    <3> QED BY <3>1, <3>2, <3>3, <3>4
  <2> QED BY <2>1, EntriesOf DEF Do
<1>22. CASE Handler
  <2>1. \A l \in Leases : Offer(l) \/ Ack(l) => TypeOK'
    BY DEF Offer, Ack, Answers, Interrupts, HandlerSends
  <2>2. AckRenewed => TypeOK'
    BY NetifFields DEF AckRenewed, Answers, Interrupts, Clients
  <2>3. Nak \/ ArpReply => TypeOK'
    BY NetifFields DEF Nak, ArpReply, Answers, Interrupts, HandlerSends
  <2> QED BY <1>22, <2>1, <2>2, <2>3 DEF Handler
<1>23. CASE UNCHANGED vars
  BY <1>23 DEF vars
<1> QED BY <1>1, <1>2, <1>3, <1>4, <1>5, <1>6, <1>7, <1>8, <1>9, <1>10,
           <1>11, <1>12, <1>13, <1>14, <1>15, <1>16, <1>17, <1>18, <1>19, <1>20,
           <1>21, <1>22, <1>23
       DEF Next, Main, Timers, Supervise, Function

(* A reset board satisfies the invariant.                                    *)
LEMMA InitInv == Init => IInv
<1> SUFFICES ASSUME Init PROVE IInv
  OBVIOUS
<1> USE DEF Init, NoAddress, InFunction, FunctionAt, Leased, Waiting, Deciding
<1>1. TypeOK
  <2>1. FALSE \in BOOLEAN /\ 0 \in 0 .. TriesBound
    BY DEF TriesBound
  <2>2. client \in Clients /\ netif \in Netifs
    BY NewFields, NetifFields
  <2> QED BY <2>1, <2>2, Zenon DEF TypeOK, ElsewhereAt
<1>2. ControlInv /\ FirstInv /\ ClientInv
  BY NewFields DEF ControlInv, FirstInv, ClientInv
<1>3. AddressInv /\ TimerInv /\ LeaseHeld /\ BoundHasAddress
  BY NewFields, DhcpAssumption DEF AddressInv, TimerInv, LeaseHeld, BoundHasAddress
<1> QED BY <1>1, <1>2, <1>3 DEF IInv

(* The invariant holds in every behaviour: for every set of addresses and    *)
(* every interleaving of main's timers with the answers of the servers.      *)
THEOREM Invariant == Spec => []IInv
<1>1. ASSUME IInv, [Next]_vars PROVE IInv'
  <2>1. client' \in Clients /\ Safe'
    BY <1>1, TimerStep, SuperviseStep, FunctionStateStep, FunctionSendStep, FunctionArmStep,
       HandlerStep DEF Next, Main, Timers, Supervise, Function
  <2>2. TypeOK'
    BY <1>1, <2>1, TypeStep DEF IInv
  <2> QED BY <2>1, <2>2 DEF IInv, Safe
<1> QED BY InitInv, <1>1, PTL DEF Spec

(* Every variable keeps its type.                                            *)
THEOREM TypesHold == Spec => []TypeOK
<1>1. IInv => TypeOK
  BY DEF IInv
<1> QED BY Invariant, <1>1, PTL

(* No interleaving of timeouts and answers leaves a client that waits for a  *)
(* server without a timeout, unless a renewal was tried 256 times; the ARP   *)
(* query and the decline after it are not covered, see AnswerAwaited.        *)
THEOREM WatchdogAlwaysRuns == Spec => []WatchdogRuns
<1>1. IInv => WatchdogRuns
  BY DEF IInv, TimerInv, WatchdogRuns, Waiting, InFunction, FunctionAt
<1> QED BY Invariant, <1>1, PTL

(* A leased address is on the interface only while the client holds it, or   *)
(* while main is between the change of the one and of the other.             *)
THEOREM LeaseIsHeld == Spec => []LeaseHeld
<1>1. IInv => LeaseHeld
  BY DEF IInv
<1> QED BY Invariant, <1>1, PTL

(* A bound client has an address, and its interface is up.                   *)
THEOREM BoundIsReachable == Spec => []BoundHasAddress
<1>1. IInv => BoundHasAddress
  BY DEF IInv
<1> QED BY Invariant, <1>1, PTL

(* Starting the client a second time loses no address.                       *)
THEOREM RestartIsSafe == Spec => []RestartLosesNothing
<1>1. IInv => RestartLosesNothing
  BY DEF IInv, ControlInv, FirstInv, RestartLosesNothing
<1> QED BY Invariant, <1>1, PTL

(* dhcpstatus 2 is only ever set for a lease that the client holds.          *)
THEOREM OnlyLeasesAdopted == Spec => LeaseAdopted
<1> DEFINE A == dhcpstatus' = 2 /\ dhcpstatus # 2 =>
                  netif.ip \in Leases /\ devip' = netif.ip /\ client.state = "bound"
<1>1. ASSUME IInv, [Next]_vars PROVE A
  <2> DEFINE Same == dhcpstatus' = dhcpstatus \/ dhcpstatus' # 2
  <2> USE DEF Goto, supervision
  <2>1. CASE Adopt
    BY <1>1, <2>1 DEF Adopt, IInv, TypeOK, Netifs, AddressInv, Deciding, InFunction, FunctionAt
  <2>2. Start \/ SetUp \/ Tick \/ IsLast \/ LoadTimer \/ CountDown \/ CountOn => Same
    BY DEF Start, SetUp, Tick, IsLast, LoadTimer, CountDown, CountOn, Stored
  <2>3. TimeOut \/ TimeOutWaiting \/ TimeOutTries \/ LeaseTimeout => Same
    BY DEF TimeOut, TimeOutWaiting, TimeOutTries, LeaseTimeout, Do
  <2>4. Process0 \/ Started \/ NotYet \/ ReadTries \/ SetStatic \/ ProcessNothing => Same
    BY DEF Process0, Started, NotYet, ReadTries, SetStatic, ProcessNothing
  <2>5. Function => Same
    BY DEF Function, Forget, TestState, StoreState, ResetTries, ResetTimer, Create, SendTo, Fault,
           DeleteMsg, LoadTries, StoreTries, ComputeTimeout, Arm, TakeDown, ClearAddress,
           StartLease, SetAddress, Raise
  <2>6. Handler => Same
    BY DEF Handler, Offer, Ack, AckRenewed, Nak, ArpReply, Answers, Interrupts
  <2>7. UNCHANGED vars => Same
    BY DEF vars
  <2> QED BY <1>1, <2>1, <2>2, <2>3, <2>4, <2>5, <2>6, <2>7 DEF Next, Main, Timers, Supervise
<1> QED BY Invariant, <1>1, PTL DEF Spec, LeaseAdopted
=============================================================================
