---------------------------- MODULE ReassProofs ----------------------------
(***************************************************************************)
(* Reassembly loses no pbuf, for every number of pbufs, entries, datagrams *)
(* and fragments with a pool that is not larger than the limit.  The       *)
(* argument: Held, the pbufs of the list each named by its datagram, only  *)
(* grows and shrinks by whole datagrams and fragments, and what ip_reass   *)
(* works on stays Sound through each of its steps.  The limit is never     *)
(* exceeded by a fragment the pool had pbufs for, so the oldest datagram   *)
(* is only looked for when the entries are used up: then none is the       *)
(* fragment's own, it is the last of the list and prev is its predecessor. *)
(*                                                                         *)
(* What is delivered: every datagram with all of its fragments, and of the *)
(* others only one that lacks a stretch right below the fragment that came *)
(* (CompleteValidates and HoleBelow, about the numbers alone).             *)
(***************************************************************************)
EXTENDS Reass, FiniteSetTheorems, SequenceTheorems, TLAPS

(* A datagram being collected; a new one has no pbufs yet. *)
Datagram == [id : Ids, got : SUBSET Parts, n : Nat]

(* No datagram is in the list twice. *)
Distinct(list) == \A j, k \in DOMAIN list : list[j].id = list[k].id => j = k

(* A datagram that holds a pbuf and lacks a fragment, *)
Waits(d) == d.n > 0 /\ d.got # Parts

(* which is what a list is made of between two fragments. *)
Waiting(list) == \A k \in DOMAIN list : Waits(list[k])

(* What ip_reass leaves as it should be: of the room of the pool and the     *)
(* list nothing is lost.                                                     *)
Sound(s, room) ==
  /\ s \in [list : Seq(Datagram), count : Nat, free : Nat, torn : {FALSE}, holed : BOOLEAN]
  /\ Len(s.list) <= MaxData /\ Distinct(s.list)
  /\ s.count = Cardinality(Held(s.list))
  /\ s.count + s.free = room

(* ---- sequences and counting ------------------------------------------------ *)

(* What is left of a sequence when an element is taken out. *)
LEMMA RemoveAtElements ==
  ASSUME NEW S, NEW list \in Seq(S), NEW k \in 1 .. Len(list)
  PROVE  /\ RemoveAt(list, k) \in Seq(S)
         /\ Len(RemoveAt(list, k)) = Len(list) - 1
         /\ \A j \in 1 .. Len(list) - 1 :
              RemoveAt(list, k)[j] = list[IF j < k THEN j ELSE j + 1]
<1> DEFINE front == SubSeq(list, 1, k - 1)
           back  == SubSeq(list, k + 1, Len(list))
<1>1. Len(list) \in Nat /\ \A j \in 1 .. Len(list) : list[j] \in S
  OBVIOUS
<1>2. front \in Seq(S) /\ Len(front) = k - 1 /\ \A j \in 1 .. k - 1 : front[j] = list[j]
  BY <1>1
<1>3. back \in Seq(S) /\ Len(back) = Len(list) - k
      /\ \A j \in 1 .. Len(list) - k : back[j] = list[k + j]
  BY <1>1
<1> HIDE DEF front, back
<1>4. front \o back \in Seq(S) /\ Len(front \o back) = Len(list) - 1
  <2>1. front \o back \in Seq(S) /\ Len(front \o back) = Len(front) + Len(back)
    BY <1>2, <1>3, ConcatProperties
  <2> QED
    BY <1>1, <1>2, <1>3, <2>1
<1>5. ASSUME NEW j \in 1 .. Len(list) - 1
      PROVE  (front \o back)[j] = list[IF j < k THEN j ELSE j + 1]
  <2>1. CASE j < k
    BY <1>1, <1>2, <1>3, <2>1
  <2>2. CASE ~(j < k)
    <3>1. (front \o back)[j] = back[j - (k - 1)]
      BY <1>1, <1>2, <1>3, <2>2
    <3>2. j - (k - 1) \in 1 .. Len(list) - k
      BY <1>1, <2>2
    <3> QED
      BY <1>1, <1>3, <2>2, <3>1, <3>2
  <2> QED
    BY <2>1, <2>2
<1> QED
  BY <1>4, <1>5 DEF RemoveAt, front, back

(* A datagram's pbufs from the a-th to the b-th are as many as the numbers. *)
LEMMA Numbered ==
  ASSUME NEW x, NEW a \in Nat, NEW b \in Nat, a <= b + 1
  PROVE  IsFiniteSet({x} \X (a .. b)) /\ Cardinality({x} \X (a .. b)) = b - a + 1
<1> DEFINE f == [j \in a .. b |-> <<x, j>>]
<1>1. IsFiniteSet(a .. b) /\ Cardinality(a .. b) = b - a + 1
  BY FS_Interval
<1>2. f \in Bijection(a .. b, {x} \X (a .. b))
  BY DEF Bijection, Injection, Surjection, IsInjective
<1> QED
  BY <1>1, <1>2, FS_Bijection DEF ExistsBijection

(* What a list of datagrams has at its places. *)
LEMMA Places ==
  ASSUME NEW list \in Seq(Datagram)
  PROVE  /\ Len(list) \in Nat /\ DOMAIN list = 1 .. Len(list)
         /\ \A k \in DOMAIN list : /\ list[k] \in Datagram /\ list[k].id \in Ids
                                  /\ list[k].got \subseteq Parts /\ list[k].n \in Nat
<1>1. Len(list) \in Nat /\ DOMAIN list = 1 .. Len(list)
  OBVIOUS
<1>2. \A k \in DOMAIN list : list[k] \in Datagram
  BY <1>1
<1> QED
  BY <1>1, <1>2 DEF Datagram

(* The c pbufs a datagram gets after the n it had. *)
More(x, n, c) == {x} \X (n + 1 .. n + c)

(* They are c pbufs. *)
LEMMA NextPbufs ==
  \A x : \A n, c \in Nat : IsFiniteSet(More(x, n, c)) /\ Cardinality(More(x, n, c)) = c
<1> TAKE x
<1> TAKE n, c \in Nat
<1> DEFINE a == n + 1
           b == n + c
<1>1. a \in Nat /\ b \in Nat /\ a <= b + 1 /\ b - a + 1 = c
  OBVIOUS
<1> HIDE DEF a, b
<1>2. IsFiniteSet({x} \X (a .. b)) /\ Cardinality({x} \X (a .. b)) = b - a + 1
  BY <1>1, Numbered
<1> QED
  BY <1>1, <1>2 DEF More, a, b

(* The pbufs of one datagram. *)
LEMMA OwnPbufs ==
  ASSUME NEW x, NEW n \in Nat
  PROVE  IsFiniteSet({x} \X (1 .. n)) /\ Cardinality({x} \X (1 .. n)) = n
<1>1. 1 \in Nat /\ 1 <= n + 1 /\ n - 1 + 1 = n
  OBVIOUS
<1>2. IsFiniteSet({x} \X (1 .. n)) /\ Cardinality({x} \X (1 .. n)) = n - 1 + 1
  BY <1>1, Numbered
<1> QED
  BY <1>1, <1>2

(* Sets without a common element. *)
LEMMA DisjointUnion ==
  ASSUME NEW A, NEW B, IsFiniteSet(A), IsFiniteSet(B), A \cap B = {}
  PROVE  Cardinality(A \cup B) = Cardinality(A) + Cardinality(B)
<1>1. Cardinality(A) \in Nat /\ Cardinality(B) \in Nat
  BY FS_CardinalityType
<1>2. Cardinality(A \cap B) = 0
  BY FS_EmptySet
<1>3. Cardinality(A \cup B) = Cardinality(A) + Cardinality(B) - Cardinality(A \cap B)
  BY FS_Union
<1> QED
  BY <1>1, <1>2, <1>3

(* A pbuf is held if it is one of its datagram's. *)
LEMMA HeldMember ==
  ASSUME NEW list
  PROVE  \A h : h \in Held(list) <=>
           \E k \in DOMAIN list : h \in {list[k].id} \X (1 .. list[k].n)
BY DEF Held

(* A list holds finitely many pbufs. *)
LEMMA HeldFinite ==
  ASSUME NEW list \in Seq(Datagram)
  PROVE  IsFiniteSet(Held(list)) /\ Cardinality(Held(list)) \in Nat
<1> DEFINE part(k) == {list[k].id} \X (1 .. list[k].n)
           parts   == {part(k) : k \in DOMAIN list}
           f       == [k \in 1 .. Len(list) |-> part(k)]
<1>1. Len(list) \in Nat /\ DOMAIN list = 1 .. Len(list)
      /\ \A k \in DOMAIN list : list[k].n \in Nat
  BY Places
<1>2. IsFiniteSet(1 .. Len(list))
  BY <1>1, FS_Interval
<1>3. f \in Surjection(1 .. Len(list), parts)
  BY <1>1 DEF Surjection
<1>4. IsFiniteSet(parts)
  BY <1>2, <1>3, FS_Surjection
<1>5. \A k \in DOMAIN list : IsFiniteSet(part(k))
  BY <1>1, OwnPbufs
<1>6. IsFiniteSet(UNION parts)
  BY <1>4, <1>5, FS_UNION
<1> QED
  BY <1>6, FS_CardinalityType DEF Held

(* What is left of a list whose k-th datagram is taken out. *)
LEMMA ListWithout ==
  ASSUME NEW list \in Seq(Datagram), NEW k \in DOMAIN list
  PROVE  /\ RemoveAt(list, k) \in Seq(Datagram)
         /\ Len(RemoveAt(list, k)) = Len(list) - 1
         /\ \A j \in DOMAIN RemoveAt(list, k) :
              \E i \in DOMAIN list : i # k /\ RemoveAt(list, k)[j] = list[i]
<1> DEFINE short == RemoveAt(list, k)
<1>1. Len(list) \in Nat /\ DOMAIN list = 1 .. Len(list)
  BY Places
<1>2. /\ short \in Seq(Datagram) /\ Len(short) = Len(list) - 1
      /\ \A j \in 1 .. Len(list) - 1 : short[j] = list[IF j < k THEN j ELSE j + 1]
  BY <1>1, RemoveAtElements
<1> HIDE DEF short
<1>3. DOMAIN short = 1 .. Len(list) - 1
  BY <1>2
<1>4. ASSUME NEW j \in DOMAIN short
      PROVE  \E i \in DOMAIN list : i # k /\ short[j] = list[i]
  <2>1. CASE j < k
    BY <1>1, <1>2, <1>3, <2>1
  <2>2. CASE ~(j < k)
    BY <1>1, <1>2, <1>3, <2>2
  <2> QED
    BY <2>1, <2>2
<1> QED
  BY <1>2, <1>4 DEF short

(* A datagram that leaves the list takes its pbufs along and no others. *)
LEMMA HeldWithout ==
  ASSUME NEW list \in Seq(Datagram), Distinct(list), NEW k \in DOMAIN list
  PROVE  /\ Distinct(RemoveAt(list, k))
         /\ list[k].n <= Cardinality(Held(list))
         /\ Cardinality(Held(RemoveAt(list, k))) = Cardinality(Held(list)) - list[k].n
<1> DEFINE short == RemoveAt(list, k)
           mine  == {list[k].id} \X (1 .. list[k].n)
<1>1. Len(list) \in Nat /\ DOMAIN list = 1 .. Len(list) /\ list[k].n \in Nat
  BY Places
<1>2. /\ short \in Seq(Datagram) /\ Len(short) = Len(list) - 1
      /\ \A j \in 1 .. Len(list) - 1 : short[j] = list[IF j < k THEN j ELSE j + 1]
  BY <1>1, RemoveAtElements
<1> HIDE DEF short
<1>3. DOMAIN short = 1 .. Len(list) - 1
  BY <1>2
<1>4. \A j \in DOMAIN short : \E i \in DOMAIN list : i # k /\ short[j] = list[i]
  BY ListWithout DEF short
<1>5. \A i \in DOMAIN list : i # k => \E j \in DOMAIN short : short[j] = list[i]
  <2>1. TAKE i \in DOMAIN list
  <2>2. CASE i < k
    BY <1>1, <1>2, <1>3, <2>2
  <2>3. CASE i > k
    <3>1. i - 1 \in DOMAIN short /\ ~(i - 1 < k) /\ (i - 1) + 1 = i
      BY <1>1, <1>3, <2>3
    <3> QED
      BY <1>2, <1>3, <3>1
  <2> QED
    BY <1>1, <2>2, <2>3
<1>6. Distinct(short)
  <2>1. SUFFICES ASSUME NEW i \in DOMAIN short, NEW j \in DOMAIN short,
                        short[i].id = short[j].id
                 PROVE  i = j
    BY DEF Distinct
  <2>2. (IF i < k THEN i ELSE i + 1) = (IF j < k THEN j ELSE j + 1)
    <3> DEFINE x == IF i < k THEN i ELSE i + 1
               y == IF j < k THEN j ELSE j + 1
    <3>1. x \in DOMAIN list /\ y \in DOMAIN list
      BY <1>1, <1>3
    <3>2. list[x].id = list[y].id
      BY <1>2, <1>3, <2>1
    <3> QED
      BY <3>1, <3>2 DEF Distinct
  <2> QED
    BY <1>1, <1>3, <2>2
<1>7. Held(short) = Held(list) \ mine
  <2>1. ASSUME NEW i \in DOMAIN list, i # k
        PROVE  ({list[i].id} \X (1 .. list[i].n)) \cap mine = {}
    BY <2>1 DEF Distinct
  <2>2. ASSUME NEW h \in Held(short) PROVE h \in Held(list) \ mine
    BY <1>4, <2>1, <2>2, HeldMember
  <2>3. ASSUME NEW h \in Held(list) \ mine PROVE h \in Held(short)
    BY <1>5, <2>3, HeldMember
  <2> QED
    BY <2>2, <2>3
<1>8. Held(list) \cap mine = mine
  BY HeldMember
<1>9. Cardinality(mine) = list[k].n
  BY <1>1, OwnPbufs
<1>10. IsFiniteSet(Held(list)) /\ Cardinality(Held(list)) \in Nat
  BY HeldFinite
<1>11. Cardinality(Held(list) \ mine) = Cardinality(Held(list)) - list[k].n
  <2>1. Cardinality(Held(list) \ mine) = Cardinality(Held(list)) - Cardinality(Held(list) \cap mine)
    BY <1>10, FS_Difference
  <2> QED
    BY <1>8, <1>9, <2>1
<1>12. list[k].n <= Cardinality(Held(list))
  BY <1>8, <1>9, <1>10, FS_Intersection
<1> QED
  BY <1>6, <1>7, <1>11, <1>12 DEF short

(* A fragment that is chained adds its pbufs to those of its datagram. *)
LEMMA HeldGrown ==
  ASSUME NEW list \in Seq(Datagram), Distinct(list), NEW k \in DOMAIN list,
         NEW c \in Nat
  PROVE  \A grown \in Seq(Datagram) :
           /\ Len(grown) = Len(list)
           /\ \A j \in DOMAIN list : j # k => grown[j] = list[j]
           /\ grown[k].id = list[k].id /\ grown[k].n = list[k].n + c
           => /\ Distinct(grown)
              /\ Cardinality(Held(grown)) = Cardinality(Held(list)) + c
<1> DEFINE n   == list[k].n
           new == More(list[k].id, n, c)
<1>1. Len(list) \in Nat /\ DOMAIN list = 1 .. Len(list) /\ n \in Nat /\ list[k].id \in Ids
  BY Places
<1>2. IsFiniteSet(new) /\ Cardinality(new) = c
  BY <1>1, NextPbufs
<1> SUFFICES ASSUME NEW grown \in Seq(Datagram), Len(grown) = Len(list),
                    \A j \in DOMAIN list : j # k => grown[j] = list[j],
                    grown[k].id = list[k].id, grown[k].n = list[k].n + c
             PROVE  /\ Distinct(grown)
                    /\ Cardinality(Held(grown)) = Cardinality(Held(list)) + c
  OBVIOUS
<1>3. DOMAIN grown = DOMAIN list
  BY <1>1, Places
<1>4. \A j \in DOMAIN list : j # k => grown[j] = list[j]
  OBVIOUS
<1>5. grown[k].id = list[k].id /\ grown[k].n = n + c
  OBVIOUS
<1>6. \A j \in DOMAIN list : grown[j].id = list[j].id
  BY <1>4, <1>5
<1>7. Distinct(grown)
  BY <1>3, <1>6 DEF Distinct
<1>8. {list[k].id} \X (1 .. n + c) = ({list[k].id} \X (1 .. n)) \cup new
  <2>1. 1 .. n + c = (1 .. n) \cup (n + 1 .. n + c)
    BY <1>1
  <2> QED
    BY <2>1 DEF More
<1>9. Held(grown) = Held(list) \cup new
  <2>1. ASSUME NEW h \in Held(grown) PROVE h \in Held(list) \cup new
    <3>1. PICK j \in DOMAIN list : h \in {grown[j].id} \X (1 .. grown[j].n)
      BY <1>3, <2>1, HeldMember
    <3>2. CASE j = k
      BY <1>5, <1>8, <3>1, <3>2, HeldMember
    <3>3. CASE j # k
      BY <1>4, <3>1, <3>3, HeldMember
    <3> QED
      BY <3>2, <3>3
  <2>2. ASSUME NEW h \in Held(list) \cup new PROVE h \in Held(grown)
    <3>1. CASE h \in new
      BY <1>3, <1>5, <1>8, <3>1, HeldMember
    <3>2. CASE h \in Held(list)
      <4>1. PICK j \in DOMAIN list : h \in {list[j].id} \X (1 .. list[j].n)
        BY <3>2, HeldMember
      <4>2. CASE j = k
        BY <1>3, <1>5, <1>8, <4>1, <4>2, HeldMember
      <4>3. CASE j # k
        BY <1>3, <1>4, <4>1, <4>3, HeldMember
      <4> QED
        BY <4>2, <4>3
    <3> QED
      BY <2>2, <3>1, <3>2
  <2> QED
    BY <2>1, <2>2
<1>10. Held(list) \cap new = {}
  <2>1. SUFFICES ASSUME NEW h \in Held(list), h \in new PROVE FALSE
    OBVIOUS
  <2>2. PICK j \in DOMAIN list : h \in {list[j].id} \X (1 .. list[j].n)
    BY HeldMember
  <2>3. j = k
    BY <2>1, <2>2 DEF Distinct, More
  <2> QED
    BY <1>1, <2>1, <2>2, <2>3 DEF More
<1>12. IsFiniteSet(Held(list))
  BY HeldFinite
<1>13. Cardinality(Held(list) \cup new) = Cardinality(Held(list)) + Cardinality(new)
  BY <1>2, <1>10, <1>12, DisjointUnion
<1>14. Cardinality(Held(grown)) = Cardinality(Held(list)) + c
  BY <1>2, <1>9, <1>13
<1> QED
  BY <1>7, <1>14

(* An element in front of a sequence. *)
LEMMA InFrontOf ==
  ASSUME NEW S, NEW x \in S, NEW list \in Seq(S)
  PROVE  /\ <<x>> \o list \in Seq(S) /\ Len(<<x>> \o list) = Len(list) + 1
         /\ (<<x>> \o list)[1] = x
         /\ \A k \in 2 .. Len(list) + 1 : (<<x>> \o list)[k] = list[k - 1]
<1>1. Len(list) \in Nat /\ <<x>> \in Seq(S) /\ Len(<<x>>) = 1 /\ <<x>>[1] = x
  OBVIOUS
<1>2. /\ <<x>> \o list \in Seq(S)
      /\ Len(<<x>> \o list) = 1 + Len(list)
      /\ \A i \in 1 .. 1 + Len(list) :
           (<<x>> \o list)[i] = IF i <= 1 THEN <<x>>[i] ELSE list[i - 1]
  BY <1>1, ConcatProperties
<1> QED
  BY <1>1, <1>2

(* The list with a new datagram at its front. *)
Longer(list, id) == <<[id |-> id, got |-> {}, n |-> 0]>> \o list

(* A new datagram at the front of the list holds nothing yet. *)
LEMMA HeldBegun ==
  ASSUME NEW list \in Seq(Datagram), Distinct(list), NEW id \in Ids,
         \A k \in DOMAIN list : list[k].id # id,
         NEW longer, longer = Longer(list, id)
  PROVE  /\ longer \in Seq(Datagram) /\ Len(longer) = Len(list) + 1 /\ Distinct(longer)
         /\ longer[1] = [id |-> id, got |-> {}, n |-> 0]
         /\ \A k \in DOMAIN longer : k # 1 => k - 1 \in DOMAIN list /\ longer[k] = list[k - 1]
         /\ Held(longer) = Held(list)
<1> DEFINE first == [id |-> id, got |-> {}, n |-> 0]
<1>1. Len(list) \in Nat /\ DOMAIN list = 1 .. Len(list)
  BY Places
<1>2. first \in Datagram
  BY DEF Datagram
<1>4. /\ longer \in Seq(Datagram) /\ Len(longer) = Len(list) + 1
      /\ longer[1] = first
      /\ \A k \in 2 .. Len(list) + 1 : longer[k] = list[k - 1]
  BY <1>2, InFrontOf DEF Longer
<1>5. DOMAIN longer = 1 .. Len(list) + 1
  BY <1>1, <1>4
<1>6. \A k \in DOMAIN longer : k # 1 => k - 1 \in DOMAIN list /\ longer[k] = list[k - 1]
  BY <1>1, <1>4, <1>5
<1>7. Distinct(longer)
  <2>1. SUFFICES ASSUME NEW i \in DOMAIN longer, NEW j \in DOMAIN longer,
                        longer[i].id = longer[j].id
                 PROVE  i = j
    BY DEF Distinct
  <2>2. CASE i = 1 \/ j = 1
    BY <1>4, <1>6, <2>1, <2>2
  <2>3. CASE i # 1 /\ j # 1
    <3>1. i - 1 = j - 1
      BY <1>6, <2>1, <2>3 DEF Distinct
    <3> QED
      BY <1>1, <1>5, <3>1
  <2> QED
    BY <2>2, <2>3
<1>8. ASSUME NEW h \in Held(longer) PROVE h \in Held(list)
  <2>1. PICK k \in DOMAIN longer : h \in {longer[k].id} \X (1 .. longer[k].n)
    BY <1>8, HeldMember
  <2>2. k # 1
    BY <1>4, <2>1
  <2> QED
    BY <1>6, <2>1, <2>2, HeldMember
<1>9. ASSUME NEW h \in Held(list) PROVE h \in Held(longer)
  <2>1. PICK k \in DOMAIN list : h \in {list[k].id} \X (1 .. list[k].n)
    BY <1>9, HeldMember
  <2>2. k + 1 \in DOMAIN longer /\ longer[k + 1] = list[k]
    <3>1. k + 1 \in DOMAIN longer /\ k + 1 # 1 /\ (k + 1) - 1 = k
      BY <1>1, <1>5
    <3> QED
      BY <1>6, <3>1
  <2> QED
    BY <2>1, <2>2, HeldMember
<1>10. Held(longer) = Held(list)
  BY <1>8, <1>9
<1> QED
  BY <1>4, <1>6, <1>7, <1>10

(* ---- fragments and holes ----------------------------------------------------- *)

(* The order of the numbers, as a relation. *)
BelowRel == {ss \in Nat \X Nat : ss[1] < ss[2]}

(* Numbers with a bound have a greatest one: of the least distance from it. *)
LEMMA GreatestOf ==
  ASSUME NEW b \in Nat, NEW S, S \subseteq 1 .. b, S # {}
  PROVE  \E m \in S : \A y \in S : y <= m
<1> DEFINE D == {b - y : y \in S}
<1>1. D \subseteq Nat /\ D # {}
  <2>1. \A y \in S : y \in 1 .. b /\ b - y \in Nat
    OBVIOUS
  <2> QED BY <2>1
<1>2. IsWellFoundedOn(BelowRel, Nat)
  BY NatLessThanWellFounded DEF OpToRel, BelowRel
<1>3. PICK d \in D : \A e \in D : ~(<<e, d>> \in BelowRel)
  <2> HIDE DEF D
  <2> QED BY <1>1, <1>2, WFMin
<1>4. PICK m \in S : d = b - m
  OBVIOUS
<1>5. ASSUME NEW y \in S PROVE y <= m
  <2>1. b - y \in D /\ b - y \in Nat /\ b - m \in Nat /\ y \in Int /\ m \in Int
    OBVIOUS
  <2>2. ~(b - y < b - m)
    BY <1>3, <1>4, <2>1 DEF BelowRel
  <2> QED BY <2>1, <2>2
<1> QED BY <1>5

(* Numbers up to b, of which every one but a follows another, are all from a *)
(* to b.                                                                     *)
LEMMA Stretch ==
  ASSUME NEW a \in Nat \ {0}, NEW b \in Nat, NEW S, S \subseteq a .. b, b \in S,
         \A x \in S : x = a \/ x - 1 \in S
  PROVE  S = a .. b
<1> SUFFICES ASSUME (a .. b) \ S # {} PROVE FALSE
  OBVIOUS
<1>1. (a .. b) \ S \subseteq 1 .. b
  OBVIOUS
<1>2. PICK m \in (a .. b) \ S : \A y \in (a .. b) \ S : y <= m
  BY <1>1, GreatestOf
<1>3. m \in Int /\ m + 1 \in a .. b /\ m + 1 # a /\ (m + 1) - 1 = m /\ ~(m + 1 <= m)
  BY <1>2
<1>4. m + 1 \in S
  BY <1>2, <1>3
<1> QED BY <1>2, <1>3, <1>4

(* The number of the last fragment. *)
Highest == Cardinality(Parts)

LEMMA PartsAre ==
  Highest \in Nat \ {0} /\ Parts = 1 .. Highest /\ Max(Parts) = Highest /\ Min(Parts) = 1
<1>1. Highest \in Nat
  BY ReassAssumption, FS_CardinalityType DEF Highest
<1>2. Parts = 1 .. Highest /\ Highest # 0
  BY <1>1, ReassAssumption DEF Highest
<1> HIDE DEF Highest
<1>3. \A x \in 1 .. Highest : (\A y \in 1 .. Highest : x >= y) <=> x = Highest
  BY <1>1
<1>4. \A x \in 1 .. Highest : (\A y \in 1 .. Highest : x <= y) <=> x = 1
  BY <1>1
<1>5. Highest \in 1 .. Highest /\ 1 \in 1 .. Highest
  BY <1>1, <1>2
<1> QED BY <1>1, <1>2, <1>3, <1>4, <1>5 DEF Max, Min

(* 1 is the least of the numbers from 1 on that it is one of. *)
LEMMA MinIsOne ==
  ASSUME NEW S, 1 \in S, \A y \in S : y \in Nat /\ 1 <= y
  PROVE  Min(S) = 1
<1>1. \A x \in S : (\A y \in S : x <= y) <=> x = 1
  OBVIOUS
<1> QED BY <1>1 DEF Min

(* The fragment that completes a datagram is found to. *)
LEMMA CompleteValidates ==
  ASSUME NEW got, NEW part \in Parts, part \notin got, got \cup {part} = Parts
  PROVE  Validates(got, part)
<1> DEFINE below == {x \in got : x < part}
           above == {x \in got : x > part}
<1>1. /\ Highest \in Nat \ {0} /\ Parts = 1 .. Highest
      /\ Max(Parts) = Highest /\ Min(Parts) = 1 /\ part \in 1 .. Highest
  BY PartsAre
<1>2. got = (1 .. Highest) \ {part}
  BY <1>1
<1>3. below = 1 .. part - 1 /\ above = part + 1 .. Highest
  BY <1>1, <1>2
<1>4. \A x \in below : x = Min(below) \/ x - 1 \in below
  <2> SUFFICES ASSUME NEW x \in below, x # 1 PROVE x = Min(below) \/ x - 1 \in below
    <3>1. ASSUME 1 \in below PROVE Min(below) = 1
      <4>1. \A y \in below : y \in Nat /\ 1 <= y
        BY <1>1, <1>2
      <4> HIDE DEF below
      <4> QED BY <3>1, <4>1, MinIsOne
    <3> QED BY <3>1
  <2> QED BY <1>1, <1>3
<1>5. above = {} /\ below # {} => part - 1 \in below
  BY <1>1, <1>3
<1>6. \A x \in above : x - 1 \in above \cup {part}
  BY <1>1, <1>3
<1> QED BY <1>1, <1>4, <1>5, <1>6 DEF Validates

(* What is taken for complete and is not lacks a stretch right below the     *)
(* fragment that came: that came in front of a stretch it goes on with to    *)
(* the last fragment, and the others go on from the first one.               *)
LEMMA HoleBelow ==
  ASSUME NEW got \in SUBSET Parts, NEW part \in Parts, part \notin got,
         Validates(got, part), got \cup {part} # Parts
  PROVE  part < Max(Parts) /\ \E low \in 2 .. part - 1 : Parts \ got = low .. part
<1> DEFINE below == {x \in got : x < part}
           above == {x \in got : x > part}
<1>1. /\ Highest \in Nat \ {0} /\ Parts = 1 .. Highest
      /\ Max(Parts) = Highest /\ Min(Parts) = 1 /\ part \in 1 .. Highest
  BY PartsAre
<1>2. /\ Highest \in got \cup {part} /\ 1 \in got \cup {part}
      /\ \A x \in below : x = Min(below) \/ x - 1 \in below
      /\ above = {} /\ below # {} => part - 1 \in below
      /\ \A x \in above : x - 1 \in above \cup {part}
  BY <1>1 DEF Validates
<1>3. got = below \cup above /\ got \subseteq 1 .. Highest
  <2>1. \A x \in got : x \in 1 .. Highest /\ x # part
    BY <1>1
  <2>2. \A x \in got : x < part \/ x > part
    BY <1>1, <2>1
  <2> QED BY <2>1, <2>2
<1>4. above = part + 1 .. Highest
  <2>0. \A x \in above : x \in 1 .. Highest /\ x > part
    BY <1>3
  <2>1. CASE part = Highest
    <3> HIDE DEF above
    <3>1. above = {}
      BY <1>1, <2>0, <2>1
    <3> QED BY <1>1, <2>1, <3>1
  <2>2. CASE part # Highest
    <3>0. Highest \in above
      BY <1>1, <1>2, <2>2
    <3>1. /\ part + 1 \in Nat \ {0} /\ above \subseteq part + 1 .. Highest /\ Highest \in above
      <4> HIDE DEF above
      <4> QED BY <1>1, <2>0, <3>0
    <3>2. \A x \in above : x = part + 1 \/ x - 1 \in above
      BY <1>1, <1>2
    <3> HIDE DEF above
    <3> QED BY <1>1, <3>1, <3>2, Stretch
  <2> QED BY <2>1, <2>2
<1>5. part > 1
  <2> SUFFICES ASSUME part = 1 PROVE FALSE
    BY <1>1
  <2>1. \A x \in below : x \in 1 .. Highest /\ x < part
    BY <1>3
  <2>2. below = {}
    <3> HIDE DEF below
    <3> QED BY <1>1, <2>1
  <2>3. got \cup {part} = 1 .. Highest
    BY <1>1, <1>3, <1>4, <2>2
  <2> QED BY <1>1, <2>3
<1>6. 1 \in below /\ below \subseteq 1 .. part - 1
  <2>1. \A x \in below : x \in 1 .. Highest /\ x < part
    BY <1>3
  <2>2. 1 \in below
    BY <1>1, <1>2, <1>5
  <2> HIDE DEF below
  <2> QED BY <1>1, <2>1, <2>2
<1>7. PICK m \in below : \A y \in below : y <= m
  <2> DEFINE last == part - 1
  <2>1. last \in Nat /\ below \subseteq 1 .. last /\ below # {}
    BY <1>1, <1>6
  <2> HIDE DEF below, last
  <2> QED BY <2>1, GreatestOf
<1>8. below = 1 .. m
  <2>1. \A y \in below : y \in Nat /\ 1 <= y
    BY <1>1
  <2>2. m \in Nat /\ below \subseteq 1 .. m
    BY <1>6, <1>7
  <2> HIDE DEF below
  <2>3. Min(below) = 1
    BY <1>6, <2>1, MinIsOne
  <2>4. 1 \in Nat \ {0} /\ \A x \in below : x = 1 \/ x - 1 \in below
    BY <1>2, <2>3
  <2> QED BY <1>7, <2>2, <2>4, Stretch
<1>9. m \in 1 .. part - 1
  BY <1>6, <1>7
<1> HIDE DEF below, above
<1>10. Parts \ got = m + 1 .. part
  BY <1>1, <1>3, <1>4, <1>8, <1>9
<1>11. m # part - 1
  <2> SUFFICES ASSUME m = part - 1 PROVE FALSE
    OBVIOUS
  <2>1. part \in Int /\ part - 1 + 1 = part /\ part .. part = {part}
    BY <1>1
  <2>2. Parts \ got = {part}
    BY <1>10, <2>1
  <2> QED BY <1>1, <2>2
<1>12. part # Highest
  <2> SUFFICES ASSUME part = Highest PROVE FALSE
    OBVIOUS
  <2>1. above = {} /\ below # {}
    BY <1>1, <1>4, <1>7
  <2>2. part - 1 \in 1 .. m
    BY <1>2, <1>8, <2>1 DEF below, above
  <2> QED BY <1>1, <1>9, <1>11, <2>2
<1> QED BY <1>1, <1>9, <1>10, <1>11, <1>12

(* ---- the steps of ip_reass ------------------------------------------------- *)

(* The list has no datagram of this name. *)
Stranger(list, id) == \A k \in DOMAIN list : list[k].id # id

(* The first datagram is new and has nothing yet, the others hold pbufs. *)
Begun(list, id) ==
  /\ Len(list) > 0 /\ list[1] = [id |-> id, got |-> {}, n |-> 0]
  /\ \A k \in DOMAIN list : k # 1 => Waits(list[k])

(* A datagram that is freed with the right predecessor gives back all it    *)
(* holds, and nothing else changes.                                         *)
LEMMA FreeDatagramSound ==
  ASSUME NEW room, NEW s, Sound(s, room),
         NEW k \in DOMAIN s.list, NEW prev, k = 1 \/ prev = k - 1, s.list[k].n > 0,
         \A j \in DOMAIN s.list : j # k => Waits(s.list[j]),
         NEW t, t = FreeDatagram(s, k, prev)
  PROVE  /\ Sound(t, room) /\ Waiting(t.list) /\ t.list = RemoveAt(s.list, k)
         /\ Len(t.list) = Len(s.list) - 1
         /\ s.list[k].n \in Nat \ {0} /\ t.free = s.free + s.list[k].n
         /\ t.holed = s.holed
<1> DEFINE list == s.list
<1>1. /\ list \in Seq(Datagram) /\ Len(list) <= MaxData /\ Distinct(list)
      /\ s.count \in Nat /\ s.free \in Nat /\ s.holed \in BOOLEAN
      /\ s.count = Cardinality(Held(list)) /\ s.count + s.free = room
  BY DEF Sound
<1>2. Len(list) \in Nat /\ list[k].n \in Nat \ {0}
  BY <1>1, Places
<1>3. /\ t.list = RemoveAt(list, k) /\ t.torn = FALSE
      /\ t.count = s.count - list[k].n /\ t.free = s.free + list[k].n
      /\ t.holed = s.holed
      /\ t = [list |-> t.list, count |-> t.count, free |-> t.free, torn |-> t.torn, holed |-> t.holed]
  BY DEF FreeDatagram, Dequeue
<1>4. /\ RemoveAt(list, k) \in Seq(Datagram)
      /\ Len(RemoveAt(list, k)) = Len(list) - 1
      /\ \A j \in DOMAIN RemoveAt(list, k) :
           \E i \in DOMAIN list : i # k /\ RemoveAt(list, k)[j] = list[i]
  BY <1>1, ListWithout
<1>5. /\ Distinct(RemoveAt(list, k)) /\ list[k].n <= Cardinality(Held(list))
      /\ Cardinality(Held(RemoveAt(list, k))) = Cardinality(Held(list)) - list[k].n
  BY <1>1, HeldWithout
<1>6. Waiting(t.list)
  BY <1>3, <1>4 DEF Waiting
<1>7. t.count \in Nat /\ t.free \in Nat /\ t.count + t.free = room
  BY <1>1, <1>2, <1>3, <1>5
<1>8. t \in [list : Seq(Datagram), count : Nat, free : Nat, torn : {FALSE}, holed : BOOLEAN]
  BY <1>1, <1>3, <1>4, <1>7
<1>9. Len(t.list) <= MaxData /\ Len(t.list) = Len(list) - 1
  BY <1>1, <1>2, <1>3, <1>4, ReassAssumption
<1>10. Distinct(t.list) /\ t.count = Cardinality(Held(t.list))
  BY <1>1, <1>3, <1>5
<1> QED
  BY <1>2, <1>3, <1>6, <1>7, <1>8, <1>9, <1>10 DEF Sound

(* The last of a list is its greatest place. *)
LEMMA MaxOfInterval ==
  ASSUME NEW n \in Nat \ {0}
  PROVE  Max(1 .. n) = n
<1>1. n \in 1 .. n /\ \A y \in 1 .. n : n >= y
  OBVIOUS
<1>2. \A x \in 1 .. n : (\A y \in 1 .. n : x >= y) => x = n
  BY <1>1
<1> QED
  BY <1>1, <1>2 DEF Max

(* With no datagram of the fragment's own in the list one turn of the loop  *)
(* frees the last one, whose predecessor prev is.                           *)
LEMMA RemoveOneSound ==
  ASSUME NEW room, NEW id, NEW r, r.freed \in Nat,
         Sound(r.state, room), Waiting(r.state.list),
         Stranger(r.state.list, id), Len(r.state.list) > 0,
         NEW t, t = RemoveOne(r, id)
  PROVE  /\ Sound(t.state, room) /\ Waiting(t.state.list) /\ Stranger(t.state.list, id)
         /\ Len(t.state.list) = Len(r.state.list) - 1
         /\ t.state.free >= r.state.free /\ t.freed \in Nat
         /\ t.state.holed = r.state.holed
<1> DEFINE s == r.state
           last == Len(s.list)
<1>1. s.list \in Seq(Datagram) /\ s.free \in Nat
  BY DEF Sound
<1>2. last \in Nat \ {0} /\ DOMAIN s.list = 1 .. last /\ last \in DOMAIN s.list
  BY <1>1, Places
<1>3. Others(s.list, id) = 1 .. last
  BY <1>2 DEF Others, Stranger
<1>4. Max(Others(s.list, id)) = last
  BY <1>2, <1>3, MaxOfInterval
<1>5. /\ t.state = FreeDatagram(s, last, last - 1)
      /\ t.freed = r.freed + s.list[last].n
  BY <1>4 DEF RemoveOne
<1>6. /\ Sound(t.state, room) /\ Waiting(t.state.list)
      /\ t.state.list = RemoveAt(s.list, last) /\ Len(t.state.list) = last - 1
      /\ s.list[last].n \in Nat \ {0} /\ t.state.free = s.free + s.list[last].n
      /\ t.state.holed = s.holed
  <2>1. s.list[last].n > 0 /\ \A j \in DOMAIN s.list : j # last => Waits(s.list[j])
    BY <1>2 DEF Waiting, Waits
  <2>2. Sound(s, room)
    OBVIOUS
  <2> HIDE DEF s, last
  <2> QED
    BY <1>2, <1>5, <2>1, <2>2, FreeDatagramSound
<1>7. Stranger(t.state.list, id)
  <2>1. \A j \in DOMAIN RemoveAt(s.list, last) :
          \E i \in DOMAIN s.list : i # last /\ RemoveAt(s.list, last)[j] = s.list[i]
    BY <1>1, <1>2, ListWithout
  <2> QED
    BY <1>6, <2>1 DEF Stranger
<1>8. t.state.free >= s.free /\ t.freed \in Nat
  BY <1>1, <1>5, <1>6
<1> QED
  BY <1>6, <1>7, <1>8

(* The loop, asked for room where there is a datagram but not the           *)
(* fragment's own: at least one is freed.                                   *)
LEMMA RemoveOldestSound ==
  ASSUME NEW room, NEW id, NEW needed, NEW s,
         Sound(s, room), Waiting(s.list), Stranger(s.list, id), Len(s.list) > 0,
         NEW t, t = RemoveOldest(s, id, needed)
  PROVE  /\ Sound(t.state, room) /\ Waiting(t.state.list) /\ Stranger(t.state.list, id)
         /\ Len(t.state.list) < Len(s.list) /\ t.state.free >= s.free
         /\ t.state.holed = s.holed
<1> DEFINE n     == Len(s.list)
           begin == [state |-> s, freed |-> 0]
           once  == RemoveOne(begin, id)
           twice == RemoveOne(once, id)
<1>1. s.list \in Seq(Datagram) /\ s.free \in Nat
  BY DEF Sound
<1>2. n \in Nat \ {0} /\ DOMAIN s.list = 1 .. n
  BY <1>1, Places
<1>3. Others(s.list, id) = 1 .. n
  BY <1>2 DEF Others, Stranger
<1>4. Others(s.list, id) # {} /\ Cardinality(Others(s.list, id)) = n
  <2> HIDE DEF n
  <2>1. Cardinality(1 .. n) = IF 1 > n THEN 0 ELSE n - 1 + 1
    BY <1>2, FS_Interval
  <2>2. n - 1 + 1 = n /\ ~(1 > n) /\ 1 \in 1 .. n
    BY <1>2
  <2>3. Cardinality(1 .. n) = n
    BY <2>1, <2>2
  <2> QED
    BY <1>3, <2>2, <2>3
<1>5. /\ begin.state = s /\ begin.freed \in Nat
      /\ Sound(begin.state, room) /\ Waiting(begin.state.list)
      /\ Stranger(begin.state.list, id) /\ Len(begin.state.list) > 0
  OBVIOUS
<1> HIDE DEF begin
<1>6. /\ Sound(once.state, room) /\ Waiting(once.state.list) /\ Stranger(once.state.list, id)
      /\ Len(once.state.list) = n - 1
      /\ once.state.free >= s.free /\ once.freed \in Nat
      /\ once.state.holed = s.holed
  BY <1>5, RemoveOneSound
<1> HIDE DEF once
<1>7. t = once \/ (n # 1 /\ t = twice)
  <2> HIDE DEF twice
  <2> QED
    BY <1>4 DEF RemoveOldest, begin, once, twice
<1>8. CASE t = once
  BY <1>2, <1>6, <1>8
<1>9. CASE n # 1 /\ t = twice
  <2>1. Len(once.state.list) > 0 /\ Len(once.state.list) \in Nat
    <3> HIDE DEF n
    <3> QED
      BY <1>2, <1>6, <1>9
  <2>2. once.state.free \in Nat
    BY <1>6 DEF Sound
  <2>3. /\ Sound(twice.state, room) /\ Waiting(twice.state.list) /\ Stranger(twice.state.list, id)
        /\ Len(twice.state.list) = Len(once.state.list) - 1
        /\ twice.state.free >= once.state.free /\ twice.freed \in Nat
        /\ twice.state.holed = once.state.holed
    <3>1. twice = RemoveOne(once, id)
      OBVIOUS
    <3> HIDE DEF twice
    <3>2. /\ once.freed \in Nat /\ Sound(once.state, room) /\ Waiting(once.state.list)
          /\ Stranger(once.state.list, id) /\ Len(once.state.list) > 0
      BY <1>6, <2>1
    <3>3. Sound(twice.state, room) /\ Waiting(twice.state.list) /\ Stranger(twice.state.list, id)
      BY <3>1, <3>2, RemoveOneSound
    <3>4. Len(twice.state.list) = Len(once.state.list) - 1
      BY <3>1, <3>2, RemoveOneSound
    <3>5. twice.state.free >= once.state.free
      BY <3>1, <3>2, RemoveOneSound
    <3>6. twice.freed \in Nat
      BY <3>1, <3>2, RemoveOneSound
    <3>7. twice.state.holed = once.state.holed
      BY <3>1, <3>2, RemoveOneSound
    <3> QED
      BY <3>3, <3>4, <3>5, <3>6, <3>7
  <2>4. twice.state.free \in Nat
    BY <2>3 DEF Sound
  <2> HIDE DEF twice
  <2> QED
    BY <1>1, <1>2, <1>6, <1>9, <2>2, <2>3, <2>4
<1> QED
  BY <1>7, <1>8, <1>9

(* A fragment of no datagram of the list gets a new one at its front, or is *)
(* refused; either way no pbuf is lost.                                     *)
LEMMA EnqueueSound ==
  ASSUME NEW room, NEW id \in Ids, NEW clen \in Clens, NEW s,
         Sound(s, room), Waiting(s.list), Stranger(s.list, id),
         NEW q, q = Enqueue(s, id, clen)
  PROVE  /\ Sound(q, room) /\ q.free >= s.free /\ q.holed = s.holed
         /\ (Waiting(q.list) /\ Stranger(q.list, id)) \/ Begun(q.list, id)
<1> DEFINE made == IF Len(s.list) < MaxData THEN [state |-> s, freed |-> clen]
                                            ELSE RemoveOldest(s, id, clen)
           m == made.state
<1>1. s.list \in Seq(Datagram) /\ s.free \in Nat /\ Len(s.list) \in Nat
      /\ Len(s.list) <= MaxData
  BY Places DEF Sound
<1>2. /\ Sound(m, room) /\ Waiting(m.list) /\ Stranger(m.list, id)
      /\ Len(m.list) < MaxData /\ m.free >= s.free /\ m.holed = s.holed
  <2>1. CASE Len(s.list) < MaxData
    <3>1. m = s
      BY <2>1
    <3> QED
      BY <1>1, <2>1, <3>1
  <2>2. CASE ~(Len(s.list) < MaxData)
    <3>1. made = RemoveOldest(s, id, clen)
      BY <2>2
    <3>2. Len(s.list) = MaxData /\ Len(s.list) > 0
      BY <1>1, <2>2, ReassAssumption
    <3> HIDE DEF made
    <3> QED
      BY <3>1, <3>2, RemoveOldestSound
  <2> QED
    BY <2>1, <2>2
<1>3. q = IF made.freed < clen THEN m
          ELSE [m EXCEPT !.list = <<[id |-> id, got |-> {}, n |-> 0]>> \o @]
  BY DEF Enqueue
<1> HIDE DEF made
<1>4. CASE made.freed < clen
  BY <1>2, <1>3, <1>4
<1>5. CASE ~(made.freed < clen)
  <2> DEFINE longer == Longer(m.list, id)
  <2>1. q = [m EXCEPT !.list = longer]
    BY <1>3, <1>5 DEF Longer
  <2>2. /\ m.list \in Seq(Datagram) /\ Distinct(m.list) /\ Len(m.list) \in Nat
        /\ m \in [list : Seq(Datagram), count : Nat, free : Nat, torn : {FALSE}, holed : BOOLEAN]
        /\ m.count = Cardinality(Held(m.list)) /\ m.count + m.free = room
    BY <1>2, Places DEF Sound
  <2>3. /\ longer \in Seq(Datagram) /\ Len(longer) = Len(m.list) + 1 /\ Distinct(longer)
        /\ longer[1] = [id |-> id, got |-> {}, n |-> 0]
        /\ \A k \in DOMAIN longer : k # 1 => k - 1 \in DOMAIN m.list /\ longer[k] = m.list[k - 1]
        /\ Held(longer) = Held(m.list)
    <3>1. \A k \in DOMAIN m.list : m.list[k].id # id
      BY <1>2 DEF Stranger
    <3> HIDE DEF m
    <3> QED
      BY <2>2, <3>1, HeldBegun
  <2> HIDE DEF longer
  <2>4. q.list = longer /\ q.count = m.count /\ q.free = m.free /\ q.holed = m.holed
        /\ q \in [list : Seq(Datagram), count : Nat, free : Nat, torn : {FALSE}, holed : BOOLEAN]
    BY <2>1, <2>2, <2>3
  <2>5. Len(longer) <= MaxData /\ Len(longer) > 0
    BY <1>2, <2>2, <2>3, ReassAssumption
  <2>6. Sound(q, room)
    BY <2>2, <2>3, <2>4, <2>5 DEF Sound
  <2>7. Begun(q.list, id)
    BY <1>2, <2>3, <2>4, <2>5 DEF Begun, Waiting
  <2> QED
    BY <1>2, <2>4, <2>6, <2>7
<1> QED
  BY <1>4, <1>5

(* A datagram that gets a fragment. *)
LEMMA InsertFields ==
  ASSUME NEW d \in Datagram, NEW part \in Parts, NEW clen \in Nat
  PROVE  /\ Insert(d, part, clen) \in Datagram
         /\ Insert(d, part, clen).id = d.id /\ Insert(d, part, clen).n = d.n + clen
         /\ Insert(d, part, clen).got = d.got \cup {part}
<1> DEFINE more == Insert(d, part, clen)
<1>1. d \in [id : Ids, got : SUBSET Parts, n : Nat]
  BY DEF Datagram
<1>2. more = [id |-> d.id, got |-> d.got \cup {part}, n |-> d.n + clen]
  <2>1. more = [d EXCEPT !.got = @ \cup {part}, !.n = @ + clen]
    BY DEF Insert
  <2> HIDE DEF more
  <2> QED
    BY <1>1, <2>1
<1>3. d.id \in Ids /\ d.got \cup {part} \in SUBSET Parts /\ d.n + clen \in Nat
  BY <1>1
<1> HIDE DEF more
<1>4. more \in Datagram /\ more.id = d.id /\ more.n = d.n + clen /\ more.got = d.got \cup {part}
  BY <1>2, <1>3 DEF Datagram
<1> QED
  BY <1>4 DEF more

(* What ip_reass works on, with a list, a count and a pool of other values. *)
Changed(s, list, count, pool) == [s EXCEPT !.list = list, !.count = count, !.free = pool]

(* The rest of it stays. *)
LEMMA ChangedFields ==
  ASSUME NEW room, NEW s, Sound(s, room), NEW list, NEW count, NEW pool
  PROVE  Changed(s, list, count, pool)
           = [list |-> list, count |-> count, free |-> pool, torn |-> s.torn, holed |-> s.holed]
<1>1. s \in [list : Seq(Datagram), count : Nat, free : Nat, torn : {FALSE}, holed : BOOLEAN]
  BY DEF Sound
<1> DEFINE g == Changed(s, list, count, pool)
<1>2. g = [s EXCEPT !.list = list, !.count = count, !.free = pool]
  BY DEF Changed
<1> HIDE DEF g
<1>3. g = [list |-> list, count |-> count, free |-> pool, torn |-> s.torn, holed |-> s.holed]
  BY <1>1, <1>2
<1> QED
  BY <1>3 DEF g

(* A fragment that is chained, and a datagram that it completes: the pbufs  *)
(* are the fragment's from the pool, and all of the datagram's go back.     *)
LEMMA ChainSound ==
  ASSUME NEW room, NEW s, Sound(s, room), NEW k \in DOMAIN s.list,
         \A j \in DOMAIN s.list : j # k => Waits(s.list[j]),
         s.list[k].n = 0 => s.list[k].got = {}, s.list[k].got # Parts,
         NEW part \in Parts, NEW clen \in Clens, clen <= s.free,
         NEW t, t = Chain(s, k, part, clen)
  PROVE  Sound(t, room) /\ Waiting(t.list)
<1> DEFINE d     == s.list[k]
           more  == Insert(d, part, clen)
           grown == [s.list EXCEPT ![k] = more]
           g     == Changed(s, grown, s.count + clen, s.free - clen)
<1>1. /\ s \in [list : Seq(Datagram), count : Nat, free : Nat, torn : {FALSE}, holed : BOOLEAN]
      /\ Len(s.list) <= MaxData /\ Distinct(s.list) /\ s.list \in Seq(Datagram)
      /\ s.count = Cardinality(Held(s.list)) /\ s.count + s.free = room
      /\ s.count \in Nat /\ s.free \in Nat /\ s.holed \in BOOLEAN
  BY DEF Sound
<1>2. /\ Len(s.list) \in Nat /\ DOMAIN s.list = 1 .. Len(s.list)
      /\ d \in Datagram /\ d.n \in Nat /\ d.got \subseteq Parts /\ d.id \in Ids
  BY <1>1, Places
<1>3. clen \in Nat \ {0}
  BY DEF Clens
<1>4. CASE part \in d.got
  <2>1. t = s
    BY <1>4 DEF Chain
  <2>2. Waiting(s.list)
    BY <1>2, <1>4 DEF Waiting, Waits
  <2> QED
    BY <2>1, <2>2
<1>5. CASE part \notin d.got
  <2>1. t = Deliver(g, k, part)
    BY <1>5 DEF Chain, Changed
  <2>2. /\ more \in Datagram /\ more.id = d.id /\ more.n = d.n + clen
        /\ more.got = d.got \cup {part}
    <3> HIDE DEF d
    <3> QED
      BY <1>2, <1>3, InsertFields
  <2>3. /\ g.list = grown /\ g.count = s.count + clen /\ g.free = s.free - clen
        /\ g.torn = s.torn /\ g.holed = s.holed
        /\ g = [list |-> g.list, count |-> g.count, free |-> g.free,
                torn |-> g.torn, holed |-> g.holed]
    <3> HIDE DEF grown
    <3>1. g = [list |-> grown, count |-> s.count + clen, free |-> s.free - clen,
               torn |-> s.torn, holed |-> s.holed]
      BY ChangedFields
    <3> HIDE DEF g
    <3> QED
      BY <3>1
  <2> HIDE DEF g
  <2>4. /\ grown \in Seq(Datagram) /\ Len(grown) = Len(s.list)
        /\ \A j \in DOMAIN s.list : j # k => grown[j] = s.list[j]
        /\ grown[k] = more /\ DOMAIN grown = DOMAIN s.list
    <3> HIDE DEF more
    <3> QED
      BY <1>1, <1>2, <2>2
  <2> HIDE DEF grown, more
  <2>5. Distinct(grown) /\ Cardinality(Held(grown)) = Cardinality(Held(s.list)) + clen
    BY <1>1, <1>3, <2>2, <2>4, HeldGrown
  <2>6. g.count \in Nat /\ g.free \in Nat /\ g.count + g.free = room
    BY <1>1, <1>3, <2>3
  <2>7. Sound(g, room)
    BY <1>1, <2>3, <2>4, <2>5, <2>6 DEF Sound
  <2>8. /\ k \in DOMAIN g.list /\ g.list[k].n > 0 /\ g.list[k].got = d.got \cup {part}
        /\ \A j \in DOMAIN g.list : j # k => Waits(g.list[j])
    BY <1>2, <1>3, <2>2, <2>3, <2>4
  <2>9. CASE ~Validates(g.list[k].got \ {part}, part)
    <3>1. t = g
      BY <2>1, <2>9 DEF Deliver
    <3>2. g.list[k].got \ {part} = d.got
      BY <1>5, <2>8
    <3>3. g.list[k].got # Parts
      BY <1>5, <2>8, <2>9, <3>2, CompleteValidates
    <3>4. Waiting(g.list)
      BY <2>8, <3>3 DEF Waiting, Waits
    <3> QED
      BY <2>7, <3>1, <3>4
  <2>10. CASE Validates(g.list[k].got \ {part}, part)
    <3> DEFINE f == FreeDatagram(g, k, k - 1)
    <3>2. Sound(f, room) /\ Waiting(f.list) /\ f.list = RemoveAt(g.list, k)
          /\ f.free = g.free + g.list[k].n
      BY <2>7, <2>8, FreeDatagramSound
    <3>3. f.count = g.count - g.list[k].n
      BY DEF FreeDatagram
    <3> HIDE DEF f
    <3>4. /\ t.list = f.list /\ t.count = f.count /\ t.free = f.free /\ t.torn = g.torn
          /\ t.holed = (g.holed \/ g.list[k].got # Parts)
          /\ t = [list |-> t.list, count |-> t.count, free |-> t.free,
                  torn |-> t.torn, holed |-> t.holed]
      BY <2>1, <2>3, <2>10, <3>2, <3>3 DEF Deliver
    <3>5. Sound(t, room)
      BY <1>1, <2>3, <3>2, <3>4 DEF Sound
    <3> QED
      BY <3>2, <3>4, <3>5
  <2> QED
    BY <2>9, <2>10
<1> QED
  BY <1>4, <1>5

(* The place of a datagram that is in the list. *)
LEMMA OnePlace ==
  ASSUME NEW s, Distinct(s.list), NEW id, NEW k \in Position(s, id), k \in Nat
  PROVE  Min(Position(s, id)) = k
<1>1. Position(s, id) = {k}
  BY DEF Position, Distinct
<1> QED
  BY <1>1 DEF Min

(* What ip_reass chains a fragment into the pool had pbufs for. *)
Queue(s, id, clen) == IF Position(s, id) # {} THEN s ELSE Enqueue(s, id, clen)

(* It is sound, and has the fragment's datagram or refuses it.  The limit is *)
(* not exceeded, because the pbufs counted and the fragment's are the pool's. *)
LEMMA Queued ==
  ASSUME NEW room \in Nat, room <= PoolSize, NEW s, Sound(s, room), Waiting(s.list),
         NEW id \in Ids, NEW part \in Parts, NEW clen \in Clens, clen <= s.free,
         NEW q, q = Queue(s, id, clen)
  PROVE  /\ Sound(q, room) /\ q.free >= s.free /\ q.holed = s.holed
         /\ Waiting(q.list) \/ (Begun(q.list, id) /\ 1 \in Position(q, id))
         /\ Position(s, id) = {} => Position(q, id) = {} \/ Begun(q.list, id)
         /\ IpReass(s, id, part, clen)
              = IF Position(q, id) = {} THEN q ELSE Chain(q, Min(Position(q, id)), part, clen)
<1> DEFINE limited == WithinLimit(s, id, clen)
           queued  == IF limited.torn \/ Position(limited, id) # {} THEN limited
                      ELSE Enqueue(limited, id, clen)
           at      == Position(queued, id)
<1>1. /\ s.count \in Nat /\ s.free \in Nat /\ s.count + s.free = room
      /\ s.torn = FALSE /\ s.list \in Seq(Datagram)
  BY DEF Sound
<1>2. s.count + clen <= MaxPbufs /\ clen \in Nat
  BY <1>1, ReassAssumption, BuildAssumption DEF Clens
<1>3. limited = s
  BY <1>1, <1>2, ReassAssumption DEF WithinLimit
<1> HIDE DEF limited
<1>4. IpReass(s, id, part, clen)
        = IF queued.torn \/ at = {} THEN queued ELSE Chain(queued, Min(at), part, clen)
  <2>1. ~(limited.torn \/ limited.count + clen > MaxPbufs)
    BY <1>1, <1>2, <1>3, ReassAssumption
  <2> QED
    BY <2>1 DEF IpReass, limited
<1>5. queued = q
  BY <1>1, <1>3 DEF Queue
<1> HIDE DEF queued
<1>6. /\ Sound(q, room) /\ q.free >= s.free /\ q.holed = s.holed
      /\ Waiting(q.list) \/ (Begun(q.list, id) /\ 1 \in Position(q, id))
      /\ Position(s, id) = {} => Position(q, id) = {} \/ Begun(q.list, id)
  <2>1. CASE Position(s, id) # {}
    BY <1>1, <2>1 DEF Queue
  <2>2. CASE Position(s, id) = {}
    <3>1. q = Enqueue(s, id, clen)
      BY <2>2 DEF Queue
    <3>2. Stranger(s.list, id)
      BY <2>2 DEF Position, Stranger
    <3>3. /\ Sound(q, room) /\ q.free >= s.free /\ q.holed = s.holed
          /\ (Waiting(q.list) /\ Stranger(q.list, id)) \/ Begun(q.list, id)
      BY <3>1, <3>2, EnqueueSound
    <3>4. ASSUME Begun(q.list, id) PROVE 1 \in Position(q, id)
      <4>1. q.list \in Seq(Datagram)
        BY <3>3 DEF Sound
      <4>2. 1 \in DOMAIN q.list /\ q.list[1].id = id
        BY <3>4, <4>1, Places DEF Begun
      <4> QED
        BY <4>2 DEF Position
    <3>5. Stranger(q.list, id) => Position(q, id) = {}
      BY DEF Stranger, Position
    <3> QED
      BY <3>3, <3>4, <3>5
  <2> QED
    BY <2>1, <2>2
<1>7. q.torn = FALSE
  BY <1>6 DEF Sound
<1> QED
  BY <1>4, <1>5, <1>6, <1>7

(* Where the fragment's datagram is, and that it lacks a fragment. *)
LEMMA QueuedAt ==
  ASSUME NEW room, NEW q, Sound(q, room), NEW id,
         Waiting(q.list) \/ (Begun(q.list, id) /\ 1 \in Position(q, id)), Position(q, id) # {}
  PROVE  \E k \in Position(q, id) :
           /\ k = Min(Position(q, id)) /\ k \in DOMAIN q.list /\ Position(q, id) = {k}
           /\ \A j \in DOMAIN q.list : j # k => Waits(q.list[j])
           /\ q.list[k].n = 0 => q.list[k].got = {}
           /\ q.list[k].got # Parts
           /\ Begun(q.list, id) => q.list[k].got = {}
<1>1. q.list \in Seq(Datagram) /\ Distinct(q.list)
  BY DEF Sound
<1>2. PICK k \in Position(q, id) :
        /\ \A j \in DOMAIN q.list : j # k => Waits(q.list[j])
        /\ Begun(q.list, id) \/ Waits(q.list[k])
  BY <1>1, Places DEF Waiting, Begun, Position
<1>3. k \in DOMAIN q.list /\ k \in Nat
  BY <1>1, Places DEF Position
<1>4. Min(Position(q, id)) = k
  BY <1>1, <1>3, OnePlace
<1>5. Position(q, id) = {k}
  BY <1>1 DEF Position, Distinct
<1>6. Begun(q.list, id) => q.list[k] = [id |-> id, got |-> {}, n |-> 0]
  <2> SUFFICES ASSUME Begun(q.list, id) PROVE q.list[k] = [id |-> id, got |-> {}, n |-> 0]
    OBVIOUS
  <2>1. 1 \in DOMAIN q.list /\ q.list[1] = [id |-> id, got |-> {}, n |-> 0]
    BY <1>1, Places DEF Begun
  <2>2. 1 \in Position(q, id)
    BY <2>1 DEF Position
  <2> QED
    BY <1>5, <2>1, <2>2
<1>7. Begun(q.list, id) => q.list[k].got = {}
  BY <1>6
<1>8. q.list[k].got # Parts /\ (q.list[k].n = 0 => q.list[k].got = {})
  <2>1. CASE Begun(q.list, id)
    BY <1>7, <2>1, ReassAssumption
  <2>2. CASE Waits(q.list[k])
    BY <2>2 DEF Waits
  <2> QED
    BY <1>2, <2>1, <2>2
<1>9. k = Min(Position(q, id))
  BY <1>4
<1> WITNESS k \in Position(q, id)
<1> QED
  BY <1>2, <1>3, <1>5, <1>7, <1>8, <1>9

(* ip_reass for a fragment the pool had pbufs for: nothing is lost, and      *)
(* every datagram it leaves in the list holds a pbuf and lacks a fragment.   *)
LEMMA IpReassSound ==
  ASSUME NEW room \in Nat, room <= PoolSize, NEW s, Sound(s, room), Waiting(s.list),
         NEW id \in Ids, NEW part \in Parts, NEW clen \in Clens, clen <= s.free,
         NEW t, t = IpReass(s, id, part, clen)
  PROVE  Sound(t, room) /\ Waiting(t.list)
<1> DEFINE q == Queue(s, id, clen)
<1>1. /\ Sound(q, room) /\ q.free >= s.free
      /\ Waiting(q.list) \/ (Begun(q.list, id) /\ 1 \in Position(q, id))
      /\ t = IF Position(q, id) = {} THEN q ELSE Chain(q, Min(Position(q, id)), part, clen)
  BY Queued
<1> HIDE DEF q
<1>2. CASE Position(q, id) = {}
  BY <1>1, <1>2
<1>3. CASE Position(q, id) # {}
  <2>1. PICK k \in Position(q, id) :
          /\ k = Min(Position(q, id)) /\ k \in DOMAIN q.list
          /\ \A j \in DOMAIN q.list : j # k => Waits(q.list[j])
          /\ q.list[k].n = 0 => q.list[k].got = {}
          /\ q.list[k].got # Parts
    BY <1>1, <1>3, QueuedAt
  <2>2. t = Chain(q, k, part, clen)
    BY <1>1, <1>3, <2>1
  <2>3. clen <= q.free
    BY <1>1 DEF Sound, Clens
  <2> QED
    BY <1>1, <2>1, <2>2, <2>3, ChainSound
<1> QED
  BY <1>2, <1>3

(* ---- datagrams handed on with a hole ------------------------------------------- *)

(* A datagram lacked one stretch of fragments, of which the highest came and *)
(* the first and the last of all were there.                                 *)
OneStretch(got, part) ==
  part < Max(Parts) /\ \E low \in 2 .. part - 1 : Parts \ got = low .. part

(* A fragment that is chained makes a hole of no other kind. *)
LEMMA ChainHole ==
  ASSUME NEW room, NEW s, Sound(s, room), NEW k \in DOMAIN s.list, ~s.holed,
         NEW part \in Parts, NEW clen \in Clens,
         NEW t, t = Chain(s, k, part, clen), t.holed
  PROVE  OneStretch(s.list[k].got, part)
<1> DEFINE d     == s.list[k]
           more  == Insert(d, part, clen)
           grown == [s.list EXCEPT ![k] = more]
           g     == Changed(s, grown, s.count + clen, s.free - clen)
<1>1. s.list \in Seq(Datagram) /\ d \in Datagram /\ d.got \in SUBSET Parts /\ clen \in Nat
  BY Places DEF Sound, Clens
<1>2. part \notin d.got
  BY DEF Chain
<1>3. t = Deliver(g, k, part)
  BY <1>2 DEF Chain, Changed
<1>4. more.got = d.got \cup {part}
  <2> HIDE DEF d
  <2> QED
    BY <1>1, InsertFields
<1> HIDE DEF more
<1>5. grown[k] = more
  BY <1>1
<1> HIDE DEF grown
<1>6. g = [list |-> grown, count |-> s.count + clen, free |-> s.free - clen,
           torn |-> s.torn, holed |-> s.holed]
  BY ChangedFields
<1> HIDE DEF g
<1>7. g.list[k].got = d.got \cup {part} /\ g.list[k].got \ {part} = d.got /\ ~g.holed
  BY <1>2, <1>4, <1>5, <1>6
<1>8. Validates(d.got, part)
  <2> SUFFICES ASSUME ~Validates(d.got, part) PROVE FALSE
    OBVIOUS
  <2>1. t = g
    BY <1>3, <1>7 DEF Deliver
  <2> QED
    BY <1>7, <2>1
<1>9. d.got \cup {part} # Parts
  <2>1. t = [g EXCEPT !.list = RemoveAt(@, k), !.count = @ - g.list[k].n,
                      !.free = @ + g.list[k].n,
                      !.holed = @ \/ g.list[k].got # Parts]
    BY <1>3, <1>7, <1>8 DEF Deliver
  <2>2. t.holed = (g.holed \/ g.list[k].got # Parts)
    BY <1>6, <2>1
  <2> QED
    BY <1>7, <2>2
<1> QED
  BY <1>1, <1>2, <1>8, <1>9, HoleBelow DEF OneStretch

(* Nor does ip_reass: a new datagram has too little for one. *)
LEMMA IpReassHole ==
  ASSUME NEW room \in Nat, room <= PoolSize, NEW s, Sound(s, room), Waiting(s.list),
         NEW id \in Ids, NEW part \in Parts, NEW clen \in Clens, clen <= s.free,
         ~s.holed, NEW t, t = IpReass(s, id, part, clen), t.holed
  PROVE  \E k \in Position(s, id) : OneStretch(s.list[k].got, part)
<1> DEFINE q == Queue(s, id, clen)
<1>1. /\ Sound(q, room) /\ q.holed = s.holed
      /\ Waiting(q.list) \/ (Begun(q.list, id) /\ 1 \in Position(q, id))
      /\ Position(s, id) = {} => Position(q, id) = {} \/ Begun(q.list, id)
      /\ t = IF Position(q, id) = {} THEN q ELSE Chain(q, Min(Position(q, id)), part, clen)
  BY Queued
<1>2. Position(s, id) # {} => q = s
  BY DEF Queue
<1> HIDE DEF q
<1>3. Position(q, id) # {}
  BY <1>1
<1>4. PICK k \in Position(q, id) :
        /\ k = Min(Position(q, id)) /\ k \in DOMAIN q.list
        /\ Begun(q.list, id) => q.list[k].got = {}
  BY <1>1, <1>3, QueuedAt
<1>5. t = Chain(q, k, part, clen)
  BY <1>1, <1>3, <1>4
<1>6. OneStretch(q.list[k].got, part)
  BY <1>1, <1>4, <1>5, ChainHole
<1>7. Position(s, id) # {}
  <2> SUFFICES ASSUME Position(s, id) = {} PROVE FALSE
    OBVIOUS
  <2>1. OneStretch({}, part)
    BY <1>1, <1>3, <1>4, <1>6
  <2>2. PICK low \in 2 .. part - 1 : Parts = low .. part
    BY <2>1 DEF OneStretch
  <2>3. 1 \in Parts
    BY PartsAre
  <2> QED
    BY <2>2, <2>3
<1> QED
  BY <1>2, <1>4, <1>6, <1>7

(* ---- the invariant ---------------------------------------------------------- *)

(* In the invariant's terms, a list of datagrams that wait. *)
LEMMA WaitingType ==
  ASSUME NEW list
  PROVE  /\ list \in Seq([id : Ids, got : SUBSET Parts, n : Nat \ {0}])
         /\ \A k \in DOMAIN list : list[k].got # Parts
         <=> list \in Seq(Datagram) /\ Waiting(list)
<1> DEFINE Holding == [id : Ids, got : SUBSET Parts, n : Nat \ {0}]
<1>1. \A d : d \in Holding <=> d \in Datagram /\ d.n > 0
  BY DEF Datagram
<1> HIDE DEF Holding
<1>2. ASSUME list \in Seq(Holding), \A k \in DOMAIN list : list[k].got # Parts
      PROVE  list \in Seq(Datagram) /\ Waiting(list)
  <2>1. \A k \in DOMAIN list : list[k] \in Holding
    BY <1>2
  <2> QED
    BY <1>1, <1>2, <2>1 DEF Waiting, Waits
<1>3. ASSUME list \in Seq(Datagram), Waiting(list)
      PROVE  list \in Seq(Holding) /\ \A k \in DOMAIN list : list[k].got # Parts
  <2>1. \A k \in DOMAIN list : list[k] \in Datagram
    BY <1>3, Places
  <2>2. \A k \in DOMAIN list : list[k] \in Holding
    BY <1>1, <1>3, <2>1 DEF Waiting, Waits
  <2> QED
    BY <1>3, <2>2 DEF Waiting, Waits
<1> QED
  BY <1>2, <1>3 DEF Holding

(* The types and the accounting together: neither can be kept alone, since *)
(* the second turn of the loop is the last only if every datagram holds a  *)
(* pbuf, and the counts stay in range only if nothing is lost.  That every *)
(* datagram lacks a fragment is kept along: when one is freed or gets a    *)
(* fragment, all the others are as they were.                              *)
IInv == TypeOK /\ NothingLost /\ NoneWaitsComplete

(* The room the pool and the list share, whatever the reply holds. *)
Room == PoolSize - (IF reply THEN 1 ELSE 0)

(* In the invariant's terms, ip_reass starts from what is sound ... *)
LEMMA StateSound ==
  ASSUME IInv
  PROVE  /\ Sound(State, Room) /\ Waiting(State.list) /\ Room \in Nat /\ Room <= PoolSize
         /\ State.free = free
<1>1. /\ State.list = reassdatagrams /\ State.count = pbufcount /\ State.free = free
      /\ State.torn = torn /\ State.holed = holed
      /\ State = [list |-> State.list, count |-> State.count, free |-> State.free,
                  torn |-> State.torn, holed |-> State.holed]
  BY DEF State
<1>2. reassdatagrams \in Seq(Datagram) /\ Waiting(reassdatagrams)
  BY WaitingType DEF IInv, TypeOK, NoneWaitsComplete
<1>3. pbufcount \in Nat /\ free \in Nat /\ torn = FALSE /\ holed \in BOOLEAN
      /\ reply \in BOOLEAN /\ Len(reassdatagrams) <= MaxData
  BY ReassAssumption DEF IInv, TypeOK, NothingLost
<1>4. Distinct(reassdatagrams) /\ pbufcount = Cardinality(Held(reassdatagrams))
  BY DEF IInv, NothingLost, Distinct
<1>5. pbufcount + free = Room /\ Room \in Nat /\ Room <= PoolSize
  BY <1>3, ReassAssumption DEF IInv, NothingLost, Room
<1>6. Sound(State, Room)
  BY <1>1, <1>2, <1>3, <1>4, <1>5 DEF Sound
<1> QED
  BY <1>1, <1>2, <1>5, <1>6

(* ... and what is sound makes the invariant. *)
LEMMA SoundIsInv ==
  ASSUME NEW s, Sound(s, Room), Waiting(s.list), reply \in BOOLEAN, reply' = reply,
         Room \in Nat, Room <= PoolSize,
         reassdatagrams' = s.list, pbufcount' = s.count, free' = s.free,
         torn' = s.torn, holed' = s.holed
  PROVE  IInv'
<1>1. /\ s.list \in Seq(Datagram) /\ s.count \in Nat /\ s.free \in Nat
      /\ s.torn = FALSE /\ s.holed \in BOOLEAN
      /\ Len(s.list) <= MaxData /\ Distinct(s.list)
      /\ s.count = Cardinality(Held(s.list)) /\ s.count + s.free = Room
  BY DEF Sound
<1>2. s.count \in 0 .. MaxPbufs /\ s.free \in 0 .. PoolSize
  BY <1>1, ReassAssumption, BuildAssumption
<1>3. s.list \in Seq([id : Ids, got : SUBSET Parts, n : Nat \ {0}])
  BY <1>1, WaitingType
<1>4. TypeOK'
  BY <1>1, <1>2, <1>3 DEF TypeOK
<1>5. s.free + s.count + (IF reply THEN 1 ELSE 0) = PoolSize
  BY <1>1, ReassAssumption DEF Room
<1>6. NothingLost'
  BY <1>1, <1>5 DEF NothingLost, Distinct
<1>7. NoneWaitsComplete'
  BY DEF NoneWaitsComplete, Waiting, Waits
<1> QED
  BY <1>4, <1>6, <1>7 DEF IInv

(* Nothing is queued, and the pool is full. *)
LEMMA InitInv == Init => IInv
<1> SUFFICES ASSUME Init PROVE IInv
  OBVIOUS
<1>1. Held(<< >>) = {}
  BY HeldMember
<1>2. Cardinality(Held(<< >>)) = 0
  BY <1>1, FS_EmptySet
<1>3. TypeOK
  <2>1. << >> \in Seq([id : Ids, got : SUBSET Parts, n : Nat \ {0}]) /\ Len(<< >>) <= MaxData
    BY ReassAssumption
  <2>2. 0 \in 0 .. MaxPbufs /\ PoolSize \in 0 .. PoolSize
    BY ReassAssumption
  <2> QED
    BY <2>1, <2>2 DEF Init, TypeOK
<1>4. NothingLost
  BY <1>2, ReassAssumption DEF Init, NothingLost
<1>5. NoneWaitsComplete
  BY DEF Init, NoneWaitsComplete
<1> QED
  BY <1>3, <1>4, <1>5 DEF IInv

(* A fragment. *)
LEMMA FragmentInv ==
  ASSUME IInv, NEW id \in Ids, NEW part \in Parts, NEW clen \in Clens,
         Fragment(id, part, clen)
  PROVE  IInv'
<1> DEFINE s == IpReass(State, id, part, clen)
<1>1. /\ reassdatagrams' = s.list /\ pbufcount' = s.count /\ free' = s.free
      /\ torn' = s.torn /\ holed' = s.holed /\ reply' = reply /\ clen <= free
  BY DEF Fragment
<1>2. /\ Sound(State, Room) /\ Waiting(State.list) /\ Room \in Nat /\ Room <= PoolSize
      /\ State.free = free
  BY StateSound
<1> HIDE DEF s
<1>3. Sound(s, Room) /\ Waiting(s.list)
  BY <1>1, <1>2, IpReassSound DEF s
<1>4. reply \in BOOLEAN
  BY DEF IInv, TypeOK
<1> QED
  BY <1>1, <1>2, <1>3, <1>4, SoundIsInv

(* The reply's pbuf, taken from the pool ... *)
LEMMA TakePbufInv ==
  ASSUME IInv, TakePbuf
  PROVE  IInv'
<1>1. free \in Nat /\ pbufcount \in Nat
  BY DEF IInv, TypeOK
<1>2. TypeOK'
  BY <1>1, ReassAssumption DEF IInv, TypeOK, TakePbuf
<1>3. NothingLost'
  BY <1>1, ReassAssumption DEF IInv, NothingLost, TakePbuf
<1>4. NoneWaitsComplete'
  BY DEF IInv, NoneWaitsComplete, TakePbuf
<1> QED
  BY <1>2, <1>3, <1>4 DEF IInv

(* ... and given back. *)
LEMMA FreePbufInv ==
  ASSUME IInv, FreePbuf
  PROVE  IInv'
<1>1. free \in Nat /\ pbufcount \in Nat /\ free + pbufcount + 1 = PoolSize
  BY DEF IInv, TypeOK, NothingLost, FreePbuf
<1>2. TypeOK'
  <2>1. free + 1 \in 0 .. PoolSize
    BY <1>1, ReassAssumption
  <2> QED
    BY <2>1 DEF IInv, TypeOK, FreePbuf
<1>3. NothingLost'
  BY <1>1, ReassAssumption DEF IInv, NothingLost, FreePbuf
<1>4. NoneWaitsComplete'
  BY DEF IInv, NoneWaitsComplete, FreePbuf
<1> QED
  BY <1>2, <1>3, <1>4 DEF IInv

(* Every step keeps the invariant. *)
LEMMA NextInv == IInv /\ [Next]_vars => IInv'
<1> SUFFICES ASSUME IInv, [Next]_vars PROVE IInv'
  OBVIOUS
<1>1. CASE UNCHANGED vars
  BY <1>1 DEF IInv, TypeOK, NothingLost, NoneWaitsComplete, vars
<1> QED
  BY <1>1, FragmentInv, TakePbufInv, FreePbufInv DEF Next

(* When the list holds the whole pool no step is left. *)
LEMMA FullStaysFull == IInv /\ [Next]_vars => (pbufcount = PoolSize => UNCHANGED vars)
<1> SUFFICES ASSUME IInv, Next, pbufcount = PoolSize PROVE FALSE
  OBVIOUS
<1>1. free = 0 /\ reply = FALSE
  BY ReassAssumption DEF IInv, TypeOK, NothingLost
<1> QED
  BY <1>1 DEF Next, Fragment, TakePbuf, FreePbuf, Clens

(* ---- the theorems ----------------------------------------------------------- *)

(* The invariant of reassembly, for every pool that is no larger than the   *)
(* limit, every number of entries and all datagrams and fragments.          *)
THEOREM ReassemblyInvariant == Spec => []IInv
BY InitInv, NextInv, PTL DEF Spec

(* The list holds datagrams of one pbuf at least, and the counts are in     *)
(* their ranges.                                                            *)
THEOREM ReassemblyTypes == Spec => []TypeOK
<1>1. IInv => TypeOK
  BY DEF IInv
<1> QED
  BY <1>1, ReassemblyInvariant, PTL

(* No pbuf is lost or counted twice, no datagram is queued twice, and the   *)
(* removal of an old datagram always works with its predecessor.            *)
THEOREM NoPbufIsLost == Spec => []NothingLost
<1>1. IInv => NothingLost
  BY DEF IInv
<1> QED
  BY <1>1, ReassemblyInvariant, PTL

(* Once incomplete datagrams hold the whole pool nothing happens any more:  *)
(* no fragment, and no reply.                                               *)
THEOREM FullPoolIsDead == Spec => DeadForGood
BY ReassemblyInvariant, FullStaysFull, PTL DEF Spec, DeadForGood

(* No datagram waits that has all of its fragments: each is handed on with  *)
(* the one that completes it, whichever that is.                            *)
THEOREM CompleteIsDelivered == Spec => []NoneWaitsComplete
<1>1. IInv => NoneWaitsComplete
  BY DEF IInv
<1> QED
  BY <1>1, ReassemblyInvariant, PTL

(* The only hole that ip_reass overlooks is a stretch right below the       *)
(* fragment that came, in a datagram that has its first and its last one.   *)
THEOREM HolesJustBelow == Spec => HoleJustBelow
<1> DEFINE Kind == \A id \in Ids, part \in Parts, clen \in Clens :
                     ~holed /\ holed' /\ Fragment(id, part, clen) =>
                       \E k \in Position(State, id), low \in 2 .. part - 1 :
                         part < Max(Parts) /\ Parts \ reassdatagrams[k].got = low .. part
<1>1. IInv /\ [Next]_vars => [Kind]_vars
  <2> SUFFICES ASSUME IInv, NEW id \in Ids, NEW part \in Parts, NEW clen \in Clens,
                      ~holed, holed', Fragment(id, part, clen)
               PROVE  \E k \in Position(State, id), low \in 2 .. part - 1 :
                        part < Max(Parts) /\ Parts \ reassdatagrams[k].got = low .. part
    OBVIOUS
  <2>1. /\ Sound(State, Room) /\ Waiting(State.list) /\ Room \in Nat /\ Room <= PoolSize
        /\ State.free = free
    BY StateSound
  <2>2. ~State.holed /\ State.list = reassdatagrams
    BY DEF State
  <2>3. clen <= State.free /\ IpReass(State, id, part, clen).holed
    BY <2>1 DEF Fragment
  <2>4. \E k \in Position(State, id) : OneStretch(State.list[k].got, part)
    BY <2>1, <2>2, <2>3, IpReassHole
  <2> QED
    BY <2>2, <2>4 DEF OneStretch
<1> QED
  BY <1>1, ReassemblyInvariant, PTL DEF Spec, HoleJustBelow
=============================================================================
