-------------------------------- MODULE Reass --------------------------------
(***************************************************************************)
(* IP reassembly as this build runs it: ip_reass of lwIP's ip_frag.c, fed  *)
(* by EXTI1 with pbufs of PBUF_POOL, while the main loop takes one of the  *)
(* same pbufs for each reply.  Fragments are lost, duplicated and          *)
(* reordered by the network.                                               *)
(*                                                                         *)
(* lwip_periodic_handle calls the timers of TCP, ARP and DHCP but never    *)
(* ip_reass_tmr, and nothing else does.  So no datagram ever times out,    *)
(* and the timers ip_reass_remove_oldest_datagram compares are all equal.  *)
(***************************************************************************)
EXTENDS Integers, Sequences, FiniteSets, FiniteSetsExt, SequencesExt

CONSTANTS
  PoolSize,     \* PBUF_POOL_SIZE
  MaxPbufs,     \* IP_REASS_MAX_PBUFS
  MaxData,      \* MEMP_NUM_REASSDATA
  Ids,          \* the datagrams the network may be carrying at a time
  Parts         \* the fragments of a datagram, numbered in its order

ASSUME ReassAssumption ==
  /\ PoolSize \in Nat /\ MaxPbufs \in Nat /\ MaxData \in Nat \ {0}
  /\ IsFiniteSet(Parts) /\ Parts # {} /\ Parts = 1 .. Cardinality(Parts)

(* lwipopts.h:36 sets PBUF_POOL_SIZE to 10, and IP_REASS_MAX_PBUFS is left   *)
(* at the 10 of opt.h:554: the limit is no smaller than the pool.            *)
ASSUME BuildAssumption == PoolSize <= MaxPbufs

VARIABLES
  reassdatagrams,  \* the list, newest first: id, fragments got, pbufs they take
  pbufcount,       \* ip_reass_pbufcount
  free,            \* the pbufs left in PBUF_POOL
  reply,           \* udp_demo_senddata holds a pbuf
  torn,            \* ghost: a datagram was freed and stayed in the list
  holed            \* ghost: a datagram was delivered with a fragment missing

vars == <<reassdatagrams, pbufcount, free, reply, torn, holed>>

(* A frame of more than PBUF_POOL_BUFSIZE bytes takes two pbufs. *)
Clens == {1, 2}
-----------------------------------------------------------------------------
Init ==
  /\ reassdatagrams = << >> /\ pbufcount = 0
  /\ free = PoolSize /\ reply = FALSE
  /\ torn = FALSE /\ holed = FALSE

(* What ip_reass works on: the list, the count, the pool. *)
State == [list |-> reassdatagrams, count |-> pbufcount, free |-> free,
          torn |-> torn, holed |-> holed]

(* ip_reass_dequeue_datagram trusts prev to be the predecessor. *)
Dequeue(list, k, prev) == IF k = 1 \/ prev = k - 1 THEN RemoveAt(list, k) ELSE list

(* ip_reass_free_complete_datagram. *)
FreeDatagram(s, k, prev) ==
  [list  |-> Dequeue(s.list, k, prev),
   count |-> s.count - s.list[k].n,
   free  |-> s.free + s.list[k].n,
   torn  |-> k # 1 /\ prev # k - 1, holed |-> s.holed]

Others(list, id) == {k \in DOMAIN list : list[k].id # id}

(* One turn of ip_reass_remove_oldest_datagram: of equal timers the last     *)
(* datagram in the list that is not the fragment's own is the oldest, and    *)
(* prev ends up at the last entry but one, whichever was chosen.             *)
RemoveOne(r, id) ==
  LET oldest == Max(Others(r.state.list, id))
  IN [state |-> FreeDatagram(r.state, oldest, Len(r.state.list) - 1),
      freed |-> r.freed + r.state.list[oldest].n]

(* It goes on until enough is free or only one other datagram was left.  A   *)
(* fragment needs two pbufs at most and each datagram gives at least one     *)
(* back (TypeOK), so the second turn is the last.                            *)
RemoveOldest(s, id, needed) ==
  LET once == RemoveOne([state |-> s, freed |-> 0], id)
  IN IF Others(s.list, id) = {} THEN [state |-> s, freed |-> 0]
     ELSE IF once.state.torn \/ once.freed >= needed \/ Cardinality(Others(s.list, id)) = 1
            THEN once
            ELSE RemoveOne(once, id)

(* Mutant: the limit is taken to be reached one pbuf early. *)
WithinLimitEarly(s, id, clen) ==
  IF s.count + clen >= MaxPbufs THEN RemoveOldest(s, id, clen).state ELSE s

(* Older datagrams make room below IP_REASS_MAX_PBUFS. *)
WithinLimit(s, id, clen) ==
  IF s.count + clen > MaxPbufs THEN RemoveOldest(s, id, clen).state ELSE s

Position(s, id) == {k \in DOMAIN s.list : s.list[k].id = id}

(* ip_reass_enqueue_new_datagram: when the entries are used up the oldest is *)
(* given back first, and the fragment is refused if that freed too few pbufs.*)
Enqueue(s, id, clen) ==
  LET made == IF Len(s.list) < MaxData THEN [state |-> s, freed |-> clen]
                                       ELSE RemoveOldest(s, id, clen)
  IN IF made.freed < clen THEN made.state
     ELSE [made.state EXCEPT !.list = <<[id |-> id, got |-> {}, n |-> 0]>> \o @]

(* Mutant: the flag of the last fragment is set after the check. *)
ValidatesFlagLate(got, part) ==
  LET below == {x \in got : x < part}
      above == {x \in got : x > part}
  IN /\ Max(Parts) \in got /\ Min(Parts) \in got \cup {part}
     /\ \A x \in below : x = Min(below) \/ x - 1 \in below
     /\ above = {} /\ below # {} => part - 1 \in below
     /\ \A x \in above : x - 1 \in above \cup {part}

(* Mutant: what comes after the new fragment is not looked at. *)
ValidatesBelow(got, part) ==
  LET below == {x \in got : x < part}
      above == {x \in got : x > part}
  IN /\ Max(Parts) \in got \cup {part} /\ Min(Parts) \in got \cup {part}
     /\ \A x \in below : x = Min(below) \/ x - 1 \in below
     /\ above = {} /\ below # {} => part - 1 \in below

(* ip_reass_chain_frag_into_datagram_and_validate takes the datagram for      *)
(* complete if its last fragment is there and it found no hole: below the new *)
(* fragment, and from it to the end.  Between a new fragment that is inserted *)
(* and the one before it the code does not look.                              *)
Validates(got, part) ==
  LET below == {x \in got : x < part}
      above == {x \in got : x > part}
  IN /\ Max(Parts) \in got \cup {part} /\ Min(Parts) \in got \cup {part}
     /\ \A x \in below : x = Min(below) \/ x - 1 \in below
     /\ above = {} /\ below # {} => part - 1 \in below
     /\ \A x \in above : x - 1 \in above \cup {part}

(* A complete datagram leaves the list, and its receiver frees its pbufs. *)
Deliver(s, k, part) ==
  LET d == s.list[k] IN
  IF ~Validates(d.got \ {part}, part) THEN s
  ELSE [s EXCEPT !.list = RemoveAt(@, k), !.count = @ - d.n, !.free = @ + d.n,
                 !.holed = @ \/ d.got # Parts]

(* The fragment and its pbufs become part of the datagram. *)
Insert(d, part, clen) == [d EXCEPT !.got = @ \cup {part}, !.n = @ + clen]

(* The fragment is chained into its datagram, and its pbufs are counted; one  *)
(* that is there already is freed at once.                                    *)
Chain(s, k, part, clen) ==
  IF part \in s.list[k].got THEN s
  ELSE LET grown == [s.list EXCEPT ![k] = Insert(s.list[k], part, clen)]
       IN Deliver([s EXCEPT !.list = grown, !.count = @ + clen, !.free = @ - clen], k, part)

(* ip_reass for one fragment; where it is dropped its pbufs go back.         *)
IpReass(s, id, part, clen) ==
  LET limited == WithinLimit(s, id, clen)
      queued  == IF limited.torn \/ Position(limited, id) # {} THEN limited
                 ELSE Enqueue(limited, id, clen)
      at      == Position(queued, id)
  IN IF limited.torn \/ limited.count + clen > MaxPbufs THEN limited
     ELSE IF queued.torn \/ at = {} THEN queued
     ELSE Chain(queued, Min(at), part, clen)

(* Mutant: the frame is taken in whether or not there are pbufs for it. *)
FragmentUnasked(id, part, clen) ==
  /\ ~torn
  /\ LET s == IpReass(State, id, part, clen)
     IN /\ reassdatagrams' = s.list /\ pbufcount' = s.count
        /\ free' = s.free /\ torn' = s.torn /\ holed' = s.holed
  /\ UNCHANGED reply

(* EXTI1 reads a fragment.  Without pbufs for it low_level_input drops it.   *)
Fragment(id, part, clen) ==
  /\ clen <= free /\ ~torn
  /\ LET s == IpReass(State, id, part, clen)
     IN /\ reassdatagrams' = s.list /\ pbufcount' = s.count
        /\ free' = s.free /\ torn' = s.torn /\ holed' = s.holed
  /\ UNCHANGED reply

(* udp_demo_senddata takes its pbuf, and frees it when it is sent. *)
TakePbuf ==
  /\ ~reply /\ free > 0
  /\ reply' = TRUE /\ free' = free - 1
  /\ UNCHANGED <<reassdatagrams, pbufcount, torn, holed>>

FreePbuf ==
  /\ reply
  /\ reply' = FALSE /\ free' = free + 1
  /\ UNCHANGED <<reassdatagrams, pbufcount, torn, holed>>

Next ==
  \/ \E id \in Ids, part \in Parts, clen \in Clens : Fragment(id, part, clen)
  \/ TakePbuf \/ FreePbuf

Spec == Init /\ [][Next]_vars
-----------------------------------------------------------------------------
TypeOK ==
  /\ reassdatagrams \in Seq([id : Ids, got : SUBSET Parts, n : Nat \ {0}])
  /\ Len(reassdatagrams) <= MaxData
  /\ pbufcount \in 0 .. MaxPbufs /\ free \in 0 .. PoolSize
  /\ reply \in BOOLEAN /\ torn \in BOOLEAN /\ holed \in BOOLEAN

(* The pbufs the datagrams of the list hold, each named by its datagram and  *)
(* its number there.                                                         *)
Held(list) == UNION {{list[k].id} \X (1 .. list[k].n) : k \in DOMAIN list}

(* However fragments are lost, doubled and reordered, no datagram is queued  *)
(* twice, no pbuf is lost and none is counted twice, and the removal of an   *)
(* old datagram never works with a wrong predecessor                         *)
(* ("prev->next == ipr", ip_frag.c:167).                                     *)
NothingLost ==
  /\ ~torn
  /\ \A j, k \in DOMAIN reassdatagrams :
       reassdatagrams[j].id = reassdatagrams[k].id => j = k
  /\ pbufcount = Cardinality(Held(reassdatagrams))
  /\ free + pbufcount + (IF reply THEN 1 ELSE 0) = PoolSize

(* Once incomplete datagrams hold the whole pool (PBUF_POOL_SIZE is not      *)
(* above IP_REASS_MAX_PBUFS, as opt.h:549-551 asks) it stays so for ever:     *)
(* no timer gives them up, no fragment can be received that would complete    *)
(* one or push one out, and no reply gets a pbuf either.                      *)
DeadForGood == [][pbufcount = PoolSize => UNCHANGED vars]_vars

(* A datagram is handed on with its last missing fragment, whichever that    *)
(* is and whatever was doubled before: none stays in the list, which no timer *)
(* clears, with all of its fragments.                                         *)
NoneWaitsComplete == \A k \in DOMAIN reassdatagrams : reassdatagrams[k].got # Parts

(* A datagram is handed on with a hole in one case only: it lacked a single   *)
(* stretch of fragments, neither the first nor the last of all, and the       *)
(* highest of the stretch came.  Any other hole                               *)
(* ip_reass_chain_frag_into_datagram_and_validate finds.                      *)
HoleJustBelow ==
  [][\A id \in Ids, part \in Parts, clen \in Clens :
       ~holed /\ holed' /\ Fragment(id, part, clen) =>
         \E k \in Position(State, id), low \in 2 .. part - 1 :
           part < Max(Parts) /\ Parts \ reassdatagrams[k].got = low .. part]_vars

(* What ip_reass hands on is whole: "the totally last fragment (flag more     *)
(* fragments = 0) was received at least once AND all fragments are received"  *)
(* (ip_frag.c:568-569).                                                       *)
DeliveredWhole == ~holed
=============================================================================
