-------------------------------- MODULE Memp --------------------------------
(***************************************************************************)
(* The free list of PBUF_POOL.  memp_malloc and memp_free of lwIP's memp.c *)
(* protect nothing in this build (SYS_LIGHTWEIGHT_PROT is 0): the main     *)
(* loop takes and frees the pbuf of a reply one access after the other,    *)
(* and EXTI1 may receive a frame between any two of them.  EXTI1 itself is *)
(* not interrupted.  The link of the free list is the first word of the    *)
(* pbuf, which is its own link "next" while it is in use.                  *)
(***************************************************************************)
EXTENDS Integers, Sequences, FiniteSets, Functions, SequencesExt

CONSTANTS
  Pbufs,     \* the pbufs of PBUF_POOL
  Nil,       \* NULL
  Longest    \* the pbufs a frame may take: a frame may exceed PBUF_POOL_BUFSIZE

ASSUME MempAssumption ==
  IsFiniteSet(Pbufs) /\ Pbufs # {} /\ Nil \notin Pbufs /\ Longest \in Nat

VARIABLES
  tab,       \* memp_tab[MEMP_PBUF_POOL]: the head of the list, and the links
  pc,        \* the place of the main loop
  memp,      \* its pbuf
  link,      \* the link it read
  held,      \* the pbufs of the fragments that wait for the rest
  clash      \* ghost: more than one pbuf taken and returned behind main's back

vars == <<tab, pc, memp, link, held, clash>>

Maybe == Pbufs \cup {Nil}
-----------------------------------------------------------------------------
Place(pbufs, p) == CHOOSE k \in DOMAIN pbufs : pbufs[k] = p

(* The pbufs put in front of a list, each leading to the next.  memp_init    *)
(* does it with all of them, pbuf_free with those of a chain.                *)
InFront(pbufs, list) ==
  [head |-> pbufs[1],
   next |-> [p \in Pbufs |->
      IF p \notin ToSet(pbufs) THEN list.next[p]
      ELSE IF p = Last(pbufs) THEN list.head ELSE pbufs[Place(pbufs, p) + 1]]]

NoPbufs == [head |-> Nil, next |-> [p \in Pbufs |-> Nil]]

Init ==
  /\ \E order \in SetToSeqs(Pbufs) : tab = InFront(order, NoPbufs)
  /\ pc = "idle" /\ memp = Nil /\ link = Nil /\ held = << >> /\ clash = FALSE

Main(from, to) == pc = from /\ pc' = to /\ UNCHANGED <<held, clash>>

(* memp_malloc for a reply: memp = memp_tab[type], without one no reply;    *)
AllocHead == tab.head # Nil /\ Main("idle", "allocNext") /\ memp' = tab.head
             /\ UNCHANGED <<tab, link>>

(* memp_tab[type] = memp->next, the link read ...                           *)
AllocNext == Main("allocNext", "allocStore") /\ link' = tab.next[memp]
             /\ UNCHANGED <<tab, memp>>

(* ... and the head written.  pbuf_alloc sets the pbuf's own link to NULL.  *)
AllocStore == Main("allocStore", "have")
              /\ tab' = [head |-> link, next |-> [tab.next EXCEPT ![memp] = Nil]]
              /\ UNCHANGED <<memp, link>>

(* memp_free: memp->next = memp_tab[type], the head read ...                *)
FreeHead == Main("have", "freeNext") /\ link' = tab.head /\ UNCHANGED <<tab, memp>>

(* Mutant: the pbuf is put in front of a list it does not lead to. *)
FreeNextSkipped == Main("freeNext", "freeStore") /\ UNCHANGED <<tab, memp, link>>

(* ... and the link written,                                                *)
FreeNext == Main("freeNext", "freeStore") /\ tab' = [tab EXCEPT !.next[memp] = link]
            /\ UNCHANGED <<memp, link>>

(* memp_tab[type] = memp.                                                   *)
FreeStore == Main("freeStore", "idle") /\ tab' = [tab EXCEPT !.head = memp]
             /\ memp' = Nil /\ UNCHANGED link
-----------------------------------------------------------------------------
(* The n pbufs that pbuf_alloc gets: the head, and where each one leads. *)
FromHead(n) ==
  {pbufs \in [1 .. n -> Pbufs] :
     pbufs[1] = tab.head /\ \A k \in 1 .. n - 1 : pbufs[k + 1] = tab.next[pbufs[k]]}

(* It makes a chain of them, which ends with the last. *)
Take(pbufs) ==
  [head |-> tab.next[Last(pbufs)], next |-> [tab.next EXCEPT ![Last(pbufs)] = Nil]]

(* EXTI1 receives a frame of n pbufs.  It is handled and freed at once, the  *)
(* first pbuf first; or it is a fragment and kept; or the last missing one,  *)
(* and all are freed.  What main is doing to the list meanwhile notices more *)
(* than one pbuf taken and returned; what follows then is not modelled.      *)
Receive(n, what) == \E pbufs \in FromHead(n) :
  /\ ~clash
  /\ CASE what = "handled"  -> tab' = InFront(Reverse(pbufs), Take(pbufs)) /\ UNCHANGED held
       [] what = "fragment" -> tab' = Take(pbufs) /\ held' = held \o pbufs
       [] what = "last"     -> /\ held # << >> /\ held' = << >>
                               /\ \E order \in SetToSeqs(ToSet(held \o pbufs)) :
                                    tab' = InFront(order, Take(pbufs))
  /\ clash' = (pc \notin {"idle", "have"} /\ (n > 1 \/ what # "handled"))
  /\ UNCHANGED <<pc, memp, link>>

Next ==
  \/ AllocHead \/ AllocNext \/ AllocStore
  \/ FreeHead \/ FreeNext \/ FreeStore
  \/ \E n \in 1 .. Longest, what \in {"handled", "fragment", "last"} : Receive(n, what)

Spec == Init /\ [][Next]_vars
-----------------------------------------------------------------------------
(* The pbuf of the reply belongs to main from the write of the head on. *)
Mine == IF pc \in {"have", "freeNext", "freeStore"} THEN {memp} ELSE {}

TypeOK ==
  /\ tab \in [head : Maybe, next : [Pbufs -> Maybe]]
  /\ pc \in {"idle", "allocNext", "allocStore", "have", "freeNext", "freeStore"}
  /\ memp \in Maybe /\ link \in Maybe /\ (pc # "idle" => memp \in Pbufs)
  /\ held \in Seq(Pbufs) /\ clash \in BOOLEAN

(* The head and the links spell out a list to its end. *)
At(order, k) == IF k \in DOMAIN order THEN order[k] ELSE Nil

Spells(list, order) ==
  /\ list.head = At(order, 1)
  /\ \A k \in DOMAIN order : list.next[order[k]] = At(order, k + 1)

(* A frame of one pbuf that is handled and given back may come between any   *)
(* two accesses of memp_malloc and memp_free, and chains and fragments may   *)
(* come outside them: every pbuf is then in the free list, with main or with *)
(* the fragments, in one of them and once, and the free list has an end.     *)
(* Only a chain or a fragment inside those few instructions breaks the list. *)
SoleOwner ==
  ~clash =>
    /\ IsInjective(held) /\ Mine \cap ToSet(held) = {}
    /\ \E order \in SetToSeqs(Pbufs \ (Mine \cup ToSet(held))) : Spells(tab, order)
-----------------------------------------------------------------------------
(* What main has read is still so when it goes on. *)
MainInv ==
  /\ pc \in {"allocNext", "allocStore"} => memp = tab.head
  /\ pc = "allocStore" => link = tab.next[memp]
  /\ pc \in {"freeNext", "freeStore"} => link = tab.head
  /\ pc = "freeStore" => tab.next[memp] = link

(* The inductive invariant. *)
IInv == TypeOK /\ SoleOwner /\ (~clash => MainInv)
=============================================================================
