----------------------------- MODULE MempProofs -----------------------------
(***************************************************************************)
(* The free list of PBUF_POOL keeps every pbuf with one owner, for every   *)
(* set of pbufs and every length of frames, although nothing protects it.  *)
(* The argument: the head and the links spell out a list (Spells), and     *)
(* list, main and fragments partition the pbufs.  A frame of one pbuf that *)
(* is taken and given back leaves head and links exactly as they were, so  *)
(* what main has read of them (MainInv) is still so.                       *)
(***************************************************************************)
EXTENDS Memp, FiniteSetTheorems, TLAPS

(* ---- least numbers -------------------------------------------------------- *)

(* The order of the numbers, as a relation. *)
Below == {ss \in Nat \X Nat : ss[1] < ss[2]}

(* A set of numbers that is not empty has a least one. *)
LEMMA LeastNumber ==
  ASSUME NEW T \in SUBSET Nat, T # {}
  PROVE  \E x \in T : \A y \in T : x <= y
<1>1. IsWellFoundedOn(Below, Nat)
  BY NatLessThanWellFounded DEF OpToRel, Below
<1>2. PICK x \in T : \A y \in T : ~(<<y, x>> \in Below)
  BY <1>1, WFMin
<1>3. ASSUME NEW y \in T, y < x PROVE FALSE
  <2>1. <<y, x>> \in Below
    BY <1>3 DEF Below
  <2> QED
    BY <1>2, <2>1
<1> QED
  BY <1>2, <1>3

(* ---- lists of pbufs ------------------------------------------------------- *)

(* A sequence without repetition of the members of a set. *)
Lists(order, S) == order \in Seq(S) /\ IsInjective(order) /\ ToSet(order) = S

(* SetToSeqs has all of these for a finite set ... *)
LEMMA ListsInSetToSeqs ==
  ASSUME NEW S, IsFiniteSet(S), NEW order, Lists(order, S)
  PROVE  order \in SetToSeqs(S)
<1>1. Len(order) \in Nat /\ order \in [1 .. Len(order) -> S] /\ DOMAIN order = 1 .. Len(order)
  BY DEF Lists
<1>2. \A x \in S : \E k \in 1 .. Len(order) : order[k] = x
  BY <1>1 DEF Lists, ToSet
<1>3. order \in Bijection(1 .. Len(order), S)
  BY <1>1, <1>2 DEF Bijection, Injection, Surjection, Lists, IsInjective
<1>4. Cardinality(S) = Len(order)
  BY <1>1, <1>3, FS_CountingElements DEF ExistsBijection
<1> QED
  BY <1>1, <1>4 DEF SetToSeqs, Lists, IsInjective

(* ... and nothing else. *)
LEMMA SetToSeqsLists ==
  ASSUME NEW S, IsFiniteSet(S), NEW order \in SetToSeqs(S)
  PROVE  Lists(order, S) /\ Len(order) = Cardinality(S)
<1> DEFINE n == Cardinality(S)
<1>1. n \in Nat
  BY FS_CardinalityType
<1>2. order \in [1 .. n -> S] /\ \A i, j \in 1 .. n : i # j => order[i] # order[j]
  BY DEF SetToSeqs
<1>3. order \in Injection(1 .. n, S)
  BY <1>2 DEF Injection, IsInjective
<1>4. Cardinality(1 .. n) = n
  BY <1>1, FS_Interval
<1>5. order \in Surjection(1 .. n, S)
  BY <1>3, <1>4, FS_Injection
<1>6. order \in Seq(S) /\ Len(order) = n /\ DOMAIN order = 1 .. n
  BY <1>1, <1>2
<1>7. ToSet(order) = S
  BY <1>2, <1>5, <1>6 DEF Surjection, ToSet
<1> QED
  BY <1>2, <1>6, <1>7 DEF Lists, IsInjective

(* What the n pbufs from the head of a list are: its first n, for by the    *)
(* least place where they would part the links lead to both.                *)
LEMMA HeadsAreFirst ==
  ASSUME TypeOK, NEW order \in Seq(Pbufs), Spells(tab, order),
         NEW n \in Nat \ {0}, NEW pbufs \in FromHead(n)
  PROVE  n <= Len(order) /\ \A k \in 1 .. n : pbufs[k] = order[k]
<1> DEFINE T == {k \in 1 .. n : k \notin DOMAIN order \/ pbufs[k] # order[k]}
<1>1. /\ pbufs \in [1 .. n -> Pbufs] /\ pbufs[1] = tab.head
      /\ \A k \in 1 .. n - 1 : pbufs[k + 1] = tab.next[pbufs[k]]
  BY DEF FromHead
<1>2. Nil \notin Pbufs /\ Len(order) \in Nat /\ DOMAIN order = 1 .. Len(order)
  BY MempAssumption
<1>3. ASSUME T # {} PROVE FALSE
  <2>0. T \in SUBSET Nat
    OBVIOUS
  <2>1. PICK x \in T : \A y \in T : x <= y
    BY <1>3, <2>0, LeastNumber
  <2>2. x \in 1 .. n /\ pbufs[x] \in Pbufs
    BY <1>1
  <2>3. pbufs[x] = At(order, x)
    <3>1. CASE x = 1
      BY <1>1, <3>1 DEF Spells
    <3>2. CASE x # 1
      <4>1. x - 1 \in 1 .. n /\ x - 1 \in 1 .. n - 1
        BY <2>2, <3>2
      <4>2. x - 1 \in DOMAIN order /\ pbufs[x - 1] = order[x - 1]
        BY <2>1, <2>2, <4>1
      <4>3. pbufs[x] = tab.next[order[x - 1]]
        BY <1>1, <2>2, <4>1, <4>2
      <4> QED
        BY <2>2, <4>2, <4>3 DEF Spells
    <3> QED
      BY <3>1, <3>2
  <2> QED
    BY <1>2, <2>1, <2>2, <2>3 DEF At
<1>4. \A k \in 1 .. n : k \in 1 .. Len(order) /\ pbufs[k] = order[k]
  BY <1>2, <1>3
<1> QED
  BY <1>2, <1>4

(* Pbufs put in front of a list come first in it. *)
LEMMA InFrontSpells ==
  ASSUME NEW list, list.head \in Maybe, list.next \in [Pbufs -> Maybe],
         NEW order \in Seq(Pbufs), Spells(list, order),
         NEW pbufs \in Seq(Pbufs), pbufs # << >>, IsInjective(pbufs),
         ToSet(pbufs) \cap ToSet(order) = {}
  PROVE  Spells(InFront(pbufs, list), pbufs \o order)
<1> DEFINE new == InFront(pbufs, list)
           all == pbufs \o order
<1>0. Len(pbufs) \in Nat
  OBVIOUS
<1>1. /\ Len(pbufs) \in Nat \ {0} /\ Len(order) \in Nat
      /\ DOMAIN pbufs = 1 .. Len(pbufs) /\ DOMAIN order = 1 .. Len(order)
      /\ DOMAIN all = 1 .. Len(pbufs) + Len(order)
  OBVIOUS
<1>2. \A k \in 1 .. Len(pbufs) : all[k] = pbufs[k] /\ pbufs[k] \in Pbufs
  BY <1>1
<1>3. \A k \in Len(pbufs) + 1 .. Len(pbufs) + Len(order) : all[k] = order[k - Len(pbufs)]
  BY <1>1
<1> HIDE DEF new, all
<1>4. new.head = At(all, 1)
  BY <1>1, <1>2 DEF InFront, At, new
<1>5. ASSUME NEW k \in 1 .. Len(pbufs) PROVE new.next[pbufs[k]] = At(all, k + 1)
  <2>1. pbufs[k] \in ToSet(pbufs)
    BY <1>1 DEF ToSet
  <2>2. Place(pbufs, pbufs[k]) = k /\ (pbufs[k] = Last(pbufs) <=> k = Len(pbufs))
    <3>1. k \in DOMAIN pbufs /\ Len(pbufs) \in DOMAIN pbufs
      BY <1>1
    <3>2. \A i \in DOMAIN pbufs : pbufs[i] = pbufs[k] => i = k
      BY <3>1 DEF IsInjective
    <3>3. Place(pbufs, pbufs[k]) = k
      BY <3>1, <3>2 DEF Place
    <3> QED
      BY <3>1, <3>2, <3>3 DEF Last
  <2>3. new.next[pbufs[k]] = IF k = Len(pbufs) THEN list.head ELSE pbufs[k + 1]
    BY <1>2, <2>1, <2>2 DEF InFront, new
  <2>4. CASE k = Len(pbufs)
    <3>1. At(all, k + 1) = At(order, 1)
      BY <1>1, <1>3, <2>4 DEF At
    <3> QED
      BY <2>3, <2>4, <3>1 DEF Spells
  <2>5. CASE k # Len(pbufs)
    <3>1. k + 1 \in 1 .. Len(pbufs)
      BY <1>0, <2>5
    <3>2. k + 1 \in DOMAIN all
      BY <1>1, <3>1
    <3> QED
      BY <1>2, <2>3, <2>5, <3>1, <3>2 DEF At
  <2> QED
    BY <2>4, <2>5
<1>6. ASSUME NEW k \in 1 .. Len(order)
      PROVE  new.next[order[k]] = At(all, Len(pbufs) + k + 1)
  <2>1. order[k] \in Pbufs /\ order[k] \in ToSet(order)
    BY <1>1 DEF ToSet
  <2>2. new.next[order[k]] = list.next[order[k]]
    BY <2>1 DEF InFront, new
  <2>3. At(all, Len(pbufs) + k + 1) = At(order, k + 1)
    BY <1>1, <1>3 DEF At
  <2> QED
    BY <1>1, <2>2, <2>3 DEF Spells
<1>7. ASSUME NEW k \in DOMAIN all PROVE new.next[all[k]] = At(all, k + 1)
  <2>1. CASE k <= Len(pbufs)
    BY <1>1, <1>2, <1>5, <2>1
  <2>2. CASE k > Len(pbufs)
    <3>1. k - Len(pbufs) \in 1 .. Len(order) /\ all[k] = order[k - Len(pbufs)]
      BY <1>1, <1>3, <2>2
    <3>2. Len(pbufs) + (k - Len(pbufs)) + 1 = k + 1
      BY <1>1
    <3> QED
      BY <1>6, <3>1, <3>2
  <2> QED
    BY <1>1, <2>1, <2>2
<1> QED
  BY <1>4, <1>7 DEF Spells, new, all

(* It is a list, whatever it is put in front of. *)
LEMMA InFrontTyped ==
  ASSUME NEW list, list.head \in Maybe, list.next \in [Pbufs -> Maybe],
         NEW pbufs \in Seq(Pbufs), pbufs # << >>
  PROVE  InFront(pbufs, list) \in [head : Maybe, next : [Pbufs -> Maybe]]
<1>1. Len(pbufs) \in Nat \ {0} /\ DOMAIN pbufs = 1 .. Len(pbufs)
  OBVIOUS
<1>2. pbufs[1] \in Maybe
  BY <1>1 DEF Maybe
<1>3. ASSUME NEW p \in Pbufs, p \in ToSet(pbufs), p # Last(pbufs)
      PROVE  pbufs[Place(pbufs, p) + 1] \in Maybe
  <2>1. \E k \in DOMAIN pbufs : pbufs[k] = p
    BY <1>3 DEF ToSet
  <2>2. Place(pbufs, p) \in DOMAIN pbufs /\ pbufs[Place(pbufs, p)] = p
    BY <2>1 DEF Place
  <2>3. Place(pbufs, p) # Len(pbufs)
    BY <1>3, <2>2 DEF Last
  <2>4. Place(pbufs, p) + 1 \in 1 .. Len(pbufs)
    BY <1>1, <2>2, <2>3
  <2> QED
    BY <2>4 DEF Maybe
<1> QED
  BY <1>2, <1>3 DEF InFront

(* Two lists that share nothing, one after the other, are a list. *)
LEMMA ListsJoin ==
  ASSUME NEW a, NEW A, Lists(a, A), NEW b, NEW B, Lists(b, B), A \cap B = {}
  PROVE  Lists(a \o b, A \cup B)
<1>1. /\ a \in Seq(A) /\ b \in Seq(B) /\ Len(a) \in Nat /\ Len(b) \in Nat
      /\ DOMAIN a = 1 .. Len(a) /\ DOMAIN b = 1 .. Len(b)
  BY DEF Lists
<1>2. a \o b \in Seq(A \cup B) /\ DOMAIN (a \o b) = 1 .. Len(a) + Len(b)
  <2>1. a \in Seq(A \cup B) /\ b \in Seq(A \cup B)
    BY <1>1
  <2> QED
    BY <2>1
<1>3. \A k \in 1 .. Len(a) + Len(b) :
        (a \o b)[k] = IF k <= Len(a) THEN a[k] ELSE b[k - Len(a)]
  BY <1>1
<1>4. /\ \A k \in 1 .. Len(a) : a[k] \in A
      /\ \A k \in 1 .. Len(b) : b[k] \in B
      /\ \A k, l \in 1 .. Len(a) : a[k] = a[l] => k = l
      /\ \A k, l \in 1 .. Len(b) : b[k] = b[l] => k = l
      /\ \A x \in A : \E k \in 1 .. Len(a) : a[k] = x
      /\ \A x \in B : \E k \in 1 .. Len(b) : b[k] = x
  BY <1>1 DEF Lists, IsInjective, ToSet
<1> DEFINE c == a \o b
<1> HIDE DEF c
<1>5. ASSUME NEW k \in DOMAIN c, NEW l \in DOMAIN c, c[k] = c[l] PROVE k = l
  <2>1. CASE k <= Len(a) /\ l <= Len(a)
    BY <1>1, <1>2, <1>3, <1>4, <1>5, <2>1 DEF c
  <2>2. CASE k > Len(a) /\ l > Len(a)
    <3>1. k - Len(a) \in 1 .. Len(b) /\ l - Len(a) \in 1 .. Len(b)
      BY <1>1, <1>2, <2>2 DEF c
    <3>2. b[k - Len(a)] = b[l - Len(a)]
      BY <1>1, <1>2, <1>3, <1>5, <2>2 DEF c
    <3>3. k - Len(a) = l - Len(a)
      BY <1>4, <3>1, <3>2
    <3> QED
      BY <1>1, <1>2, <3>3 DEF c
  <2>3. CASE k <= Len(a) /\ l > Len(a)
    <3>1. k \in 1 .. Len(a) /\ l - Len(a) \in 1 .. Len(b)
      BY <1>1, <1>2, <2>3 DEF c
    <3>2. a[k] = b[l - Len(a)]
      BY <1>1, <1>2, <1>3, <1>5, <2>3 DEF c
    <3> QED
      BY <1>4, <3>1, <3>2
  <2>4. CASE k > Len(a) /\ l <= Len(a)
    <3>1. l \in 1 .. Len(a) /\ k - Len(a) \in 1 .. Len(b)
      BY <1>1, <1>2, <2>4 DEF c
    <3>2. a[l] = b[k - Len(a)]
      BY <1>1, <1>2, <1>3, <1>5, <2>4 DEF c
    <3> QED
      BY <1>4, <3>1, <3>2
  <2> QED
    BY <1>1, <1>2, <2>1, <2>2, <2>3, <2>4 DEF c
<1>6. ASSUME NEW x \in A \cup B PROVE \E k \in DOMAIN c : c[k] = x
  <2>1. CASE x \in A
    <3>1. PICK k \in 1 .. Len(a) : a[k] = x
      BY <1>4, <2>1
    <3>2. k \in DOMAIN c /\ c[k] = x
      BY <1>1, <1>2, <1>3, <3>1 DEF c
    <3> QED
      BY <3>2
  <2>2. CASE x \in B
    <3>1. PICK k \in 1 .. Len(b) : b[k] = x
      BY <1>4, <2>2
    <3>2. k + Len(a) \in DOMAIN c /\ c[k + Len(a)] = x
      <4>1. k + Len(a) \in 1 .. Len(a) + Len(b) /\ ~(k + Len(a) <= Len(a))
            /\ (k + Len(a)) - Len(a) = k
        BY <1>1
      <4> QED
        BY <1>2, <1>3, <3>1, <4>1 DEF c
    <3> QED
      BY <3>2
  <2> QED
    BY <2>1, <2>2
<1>7. \A k \in DOMAIN c : c[k] \in A \cup B
  BY <1>2 DEF c
<1>8. ToSet(c) = A \cup B
  BY <1>6, <1>7 DEF ToSet
<1> QED
  BY <1>2, <1>5, <1>8 DEF Lists, IsInjective, c

(* The other way round it is the same list of the same pbufs. *)
LEMMA ListsReverse ==
  ASSUME NEW a, NEW A, Lists(a, A) PROVE Lists(Reverse(a), A)
<1> DEFINE n == Len(a)
           c == Reverse(a)
<1>1. n \in Nat /\ a \in [1 .. n -> A] /\ DOMAIN a = 1 .. n
  BY DEF Lists
<1>2. DOMAIN c = 1 .. n /\ \A k \in 1 .. n : c[k] = a[n - k + 1] /\ n - k + 1 \in 1 .. n
  BY <1>1 DEF Reverse
<1> HIDE DEF n, c
<1>3. c \in Seq(A)
  <2>1. c = [k \in 1 .. n |-> c[k]]
    BY <1>1, <1>2 DEF Reverse, c, n
  <2>2. c \in [1 .. n -> A]
    BY <1>1, <1>2, <2>1
  <2> QED
    BY <1>1, <2>2
<1>4. ASSUME NEW k \in 1 .. n, NEW l \in 1 .. n, c[k] = c[l] PROVE k = l
  <2>1. n - k + 1 = n - l + 1
    BY <1>1, <1>2, <1>4 DEF Lists, IsInjective
  <2> QED
    BY <1>1, <2>1
<1>5. ASSUME NEW x \in A PROVE \E k \in 1 .. n : c[k] = x
  <2>1. PICK k \in 1 .. n : a[k] = x
    BY <1>1 DEF Lists, ToSet
  <2>2. n - k + 1 \in 1 .. n /\ n - (n - k + 1) + 1 = k
    BY <1>1
  <2>3. c[n - k + 1] = x
    BY <1>2, <2>1, <2>2
  <2> QED
    BY <2>2, <2>3
<1>6. ToSet(c) = A
  BY <1>1, <1>2, <1>5 DEF ToSet
<1> QED
  BY <1>2, <1>3, <1>4, <1>6 DEF Lists, IsInjective, c

(* A sequence read backwards is as long. *)
LEMMA ReverseNotEmpty ==
  ASSUME NEW S, NEW a \in Seq(S), a # << >> PROVE Reverse(a) # << >>
<1>1. DOMAIN Reverse(a) = 1 .. Len(a) /\ Len(a) \in Nat \ {0}
  BY DEF Reverse
<1>2. 1 \in DOMAIN Reverse(a)
  BY <1>1
<1>3. 1 \notin DOMAIN << >>
  OBVIOUS
<1> QED
  BY <1>2, <1>3

(* What is left of a list when its first pbufs are taken is the rest of it. *)
LEMMA TakeSpells ==
  ASSUME TypeOK, NEW order, NEW S \in SUBSET Pbufs, Lists(order, S), Spells(tab, order),
         NEW n \in Nat \ {0}, NEW pbufs \in FromHead(n)
  PROVE  /\ pbufs # << >> /\ Lists(pbufs, ToSet(pbufs)) /\ ToSet(pbufs) \subseteq S
         /\ Take(pbufs).head \in Maybe /\ Take(pbufs).next \in [Pbufs -> Maybe]
         /\ \E rest : Lists(rest, S \ ToSet(pbufs)) /\ Spells(Take(pbufs), rest)
<1> DEFINE m == Len(order)
           rest == [k \in 1 .. m - n |-> order[n + k]]
<1>1. /\ order \in Seq(Pbufs) /\ m \in Nat /\ DOMAIN order = 1 .. m
      /\ \A k \in 1 .. m : order[k] \in S
      /\ \A k, l \in 1 .. m : order[k] = order[l] => k = l
      /\ \A x \in S : \E k \in 1 .. m : order[k] = x
  BY DEF Lists, IsInjective, ToSet
<1>2. n <= m /\ \A k \in 1 .. n : pbufs[k] = order[k]
  BY <1>1, HeadsAreFirst
<1>3. /\ pbufs \in [1 .. n -> Pbufs] /\ pbufs \in Seq(Pbufs) /\ DOMAIN pbufs = 1 .. n
      /\ Len(pbufs) = n
  BY DEF FromHead
<1>4. pbufs # << >> /\ Last(pbufs) = order[n] /\ order[n] \in Pbufs
  BY <1>1, <1>2, <1>3 DEF Last
<1>5. Lists(pbufs, ToSet(pbufs)) /\ ToSet(pbufs) \subseteq S
  <2>1. IsInjective(pbufs) /\ ToSet(pbufs) \subseteq S
    BY <1>1, <1>2, <1>3 DEF IsInjective, ToSet
  <2>2. pbufs \in [1 .. n -> ToSet(pbufs)]
    BY <1>3 DEF ToSet
  <2> QED
    BY <2>1, <2>2 DEF Lists
<1>6. Take(pbufs).head \in Maybe /\ Take(pbufs).next \in [Pbufs -> Maybe]
  BY <1>4 DEF Take, TypeOK, Maybe
<1>7. m - n \in Nat /\ \A k \in 1 .. m - n : n + k \in 1 .. m
  BY <1>1, <1>2
<1>8. rest \in Seq(S) /\ DOMAIN rest = 1 .. m - n /\ \A k \in 1 .. m - n : rest[k] = order[n + k]
  BY <1>1, <1>7
<1> HIDE DEF rest, m
<1>9. Lists(rest, S \ ToSet(pbufs))
  <2>1. \A k \in 1 .. m - n : rest[k] \notin ToSet(pbufs)
    BY <1>1, <1>2, <1>3, <1>7, <1>8 DEF ToSet
  <2>2. rest \in Seq(S \ ToSet(pbufs))
    <3>1. rest \in [1 .. m - n -> S \ ToSet(pbufs)]
      <4>1. rest = [k \in 1 .. m - n |-> rest[k]]
        BY <1>8 DEF rest
      <4> QED
        BY <1>1, <1>7, <1>8, <2>1, <4>1
    <3> QED
      BY <1>7, <3>1
  <2>3. IsInjective(rest)
    <3>1. ASSUME NEW k \in 1 .. m - n, NEW l \in 1 .. m - n, rest[k] = rest[l] PROVE k = l
      <4>1. n + k = n + l
        BY <1>1, <1>7, <1>8, <3>1
      <4> QED
        BY <4>1
    <3> QED
      BY <1>8, <3>1 DEF IsInjective
  <2>4. ASSUME NEW x \in S, x \notin ToSet(pbufs) PROVE \E k \in 1 .. m - n : rest[k] = x
    <3>1. PICK k \in 1 .. m : order[k] = x
      BY <1>1
    <3>2. ~(k <= n)
      BY <1>2, <1>3, <2>4, <3>1 DEF ToSet
    <3>3. k - n \in 1 .. m - n /\ n + (k - n) = k
      BY <1>1, <3>2
    <3>4. rest[k - n] = x
      BY <1>8, <3>1, <3>3
    <3> QED
      BY <3>3, <3>4
  <2>5. ToSet(rest) = S \ ToSet(pbufs)
    <3>1. \A k \in 1 .. m - n : rest[k] \in S
      BY <1>1, <1>7, <1>8
    <3> QED
      BY <1>8, <2>1, <2>4, <3>1 DEF ToSet
  <2> QED
    BY <2>2, <2>3, <2>5 DEF Lists
<1>10. \A k \in Nat \ {0} : At(rest, k) = At(order, n + k)
  BY <1>1, <1>7, <1>8 DEF At
<1>11. Take(pbufs).head = At(rest, 1)
  <2>1. n \in DOMAIN order /\ Take(pbufs).head = tab.next[order[n]]
    BY <1>1, <1>2, <1>4 DEF Take
  <2>2. At(rest, 1) = At(order, n + 1)
    BY <1>10
  <2> QED
    BY <2>1, <2>2 DEF Spells
<1>12. ASSUME NEW k \in DOMAIN rest PROVE Take(pbufs).next[rest[k]] = At(rest, k + 1)
  <2>1. n + k \in 1 .. m /\ rest[k] = order[n + k] /\ order[n + k] # order[n] /\ k \in Nat
    BY <1>1, <1>2, <1>7, <1>8
  <2>2. order[n + k] \in Pbufs
    BY <1>1, <2>1
  <2>3. Take(pbufs).next[rest[k]] = tab.next[order[n + k]]
    BY <1>4, <2>1, <2>2 DEF Take, TypeOK
  <2>4. tab.next[order[n + k]] = At(order, (n + k) + 1)
    BY <1>1, <2>1 DEF Spells
  <2>5. At(rest, k + 1) = At(order, n + (k + 1)) /\ n + (k + 1) = (n + k) + 1
    BY <1>10, <2>1
  <2> QED
    BY <2>3, <2>4, <2>5
<1>13. Spells(Take(pbufs), rest)
  BY <1>11, <1>12 DEF Spells
<1> QED
  BY <1>4, <1>5, <1>6, <1>9, <1>13

(* ---- the invariant -------------------------------------------------------- *)

(* The pbufs nobody has. *)
Free == Pbufs \ (Mine \cup ToSet(held))

(* One owner each, without the sequences of TLC's run. *)
Owners ==
  /\ IsInjective(held) /\ Mine \cap ToSet(held) = {}
  /\ \E order : Lists(order, Free) /\ Spells(tab, order)

(* The two ways to say it agree. *)
LEMMA OwnersAreSole == SoleOwner <=> (~clash => Owners)
<1>1. IsFiniteSet(Free)
  BY MempAssumption, FS_Difference DEF Free
<1> QED
  BY <1>1, ListsInSetToSeqs, SetToSeqsLists DEF SoleOwner, Owners, Free

(* The same of the next state. *)
LEMMA OwnersAreSoleNext == SoleOwner' <=> (~clash' => Owners')
<1>1. IsFiniteSet(Free')
  BY MempAssumption, FS_Difference DEF Free
<1> QED
  BY <1>1, ListsInSetToSeqs, SetToSeqsLists DEF SoleOwner, Owners, Free

(* memp_init's list has all pbufs. *)
LEMMA InitInv == Init => IInv
<1> SUFFICES ASSUME Init PROVE IInv
  OBVIOUS
<1>1. PICK order \in SetToSeqs(Pbufs) : tab = InFront(order, NoPbufs)
  BY DEF Init
<1>2. Lists(order, Pbufs) /\ order # << >>
  <2>1. Lists(order, Pbufs)
    BY MempAssumption, SetToSeqsLists
  <2>2. order # << >>
    BY <2>1, MempAssumption DEF Lists, ToSet
  <2> QED
    BY <2>1, <2>2
<1>3. Lists(<< >>, {}) /\ Spells(NoPbufs, << >>)
  BY DEF Lists, IsInjective, ToSet, Spells, At, NoPbufs
<1>4. NoPbufs.head \in Maybe /\ NoPbufs.next \in [Pbufs -> Maybe]
  BY DEF NoPbufs, Maybe
<1>5. Spells(tab, order \o << >>) /\ Lists(order \o << >>, Pbufs)
  <2>1. order \in Seq(Pbufs) /\ IsInjective(order) /\ << >> \in Seq(Pbufs)
        /\ ToSet(order) \cap ToSet(<< >>) = {}
    BY <1>2, <1>3 DEF Lists
  <2>2. Spells(tab, order \o << >>)
    BY <1>1, <1>2, <1>3, <1>4, <2>1, InFrontSpells
  <2>3. order \o << >> = order
    BY <2>1
  <2> QED
    BY <1>2, <2>2, <2>3
<1>6. TypeOK
  <2>1. tab \in [head : Maybe, next : [Pbufs -> Maybe]]
    BY <1>1, <1>2, <1>4, InFrontTyped DEF Lists
  <2>2. << >> \in Seq(Pbufs)
    OBVIOUS
  <2> QED
    BY <2>1, <2>2 DEF Init, TypeOK, Maybe
<1>7. Owners
  <2>1. held = << >> /\ Mine = {} /\ ToSet(held) = {} /\ Free = Pbufs /\ IsInjective(held)
    BY DEF Init, Mine, ToSet, Free, IsInjective
  <2> QED
    BY <1>5, <2>1 DEF Owners
<1>8. MainInv
  BY DEF Init, MainInv
<1> QED
  BY <1>6, <1>7, <1>8, OwnersAreSole DEF IInv

(* An access of main to the list it leaves as it is. *)
LEMMA ReadInv ==
  ASSUME IInv, AllocHead \/ AllocNext \/ FreeHead
  PROVE  IInv'
<1>1. TypeOK'
  BY DEF IInv, TypeOK, AllocHead, AllocNext, FreeHead, Main, Maybe
<1>2. Mine' = Mine /\ UNCHANGED <<tab, held, clash>>
  BY DEF AllocHead, AllocNext, FreeHead, Main, Mine
<1>3. Owners => Owners'
  BY <1>2 DEF Owners, Free
<1>4. ~clash => MainInv'
  BY DEF IInv, MainInv, AllocHead, AllocNext, FreeHead, Main
<1> QED
  BY <1>1, <1>2, <1>3, <1>4, OwnersAreSole, OwnersAreSoleNext DEF IInv

(* Main's write of the head takes the first pbuf off the list: what it has  *)
(* read is still the head and where it leads.                               *)
LEMMA AllocStoreInv == ASSUME IInv, AllocStore PROVE IInv'
<1>1. TypeOK /\ memp \in Pbufs /\ link \in Maybe /\ pc = "allocStore" /\ pc' = "have"
      /\ UNCHANGED <<memp, link, held, clash>>
      /\ tab' = [head |-> link, next |-> [tab.next EXCEPT ![memp] = Nil]]
  BY DEF IInv, TypeOK, AllocStore, Main
<1>2. TypeOK'
  BY <1>1 DEF TypeOK, Maybe
<1>3. MainInv'
  BY <1>1 DEF MainInv
<1>4. ASSUME ~clash PROVE Owners'
  <2>1. memp = tab.head /\ link = tab.next[memp] /\ Mine = {} /\ Owners
    BY <1>1, <1>4, OwnersAreSole DEF IInv, MainInv, Mine
  <2>2. PICK order : Lists(order, Free) /\ Spells(tab, order)
    BY <2>1 DEF Owners
  <2>3. <<memp>> \in FromHead(1) /\ ToSet(<<memp>>) = {memp}
    BY <1>1, <2>1 DEF FromHead, ToSet
  <2>4. Take(<<memp>>) = tab'
    BY <1>1, <2>1 DEF Take, Last
  <2>5. Free \in SUBSET Pbufs
    BY DEF Free
  <2>6. /\ \E rest : Lists(rest, Free \ {memp}) /\ Spells(tab', rest)
        /\ memp \in Free
    <3>1. TypeOK /\ 1 \in Nat \ {0}
      BY <1>1
    <3>2. /\ ToSet(<<memp>>) \subseteq Free
          /\ \E rest : Lists(rest, Free \ ToSet(<<memp>>)) /\ Spells(Take(<<memp>>), rest)
      BY <2>2, <2>3, <2>5, <3>1, TakeSpells
    <3> QED
      BY <2>3, <2>4, <3>2
  <2>8. Mine' = {memp} /\ Free' = Free \ {memp} /\ ToSet(held)' = ToSet(held)
    BY <1>1, <2>1 DEF Mine, Free
  <2> QED
    BY <1>1, <2>1, <2>6, <2>8 DEF Owners, Free
<1> QED
  BY <1>1, <1>2, <1>3, <1>4, OwnersAreSoleNext DEF IInv

(* Main writes the link of its own pbuf, which no list leads to. *)
LEMMA FreeNextInv == ASSUME IInv, FreeNext PROVE IInv'
<1>1. TypeOK /\ memp \in Pbufs /\ link \in Maybe /\ pc = "freeNext" /\ pc' = "freeStore"
      /\ UNCHANGED <<memp, link, held, clash>>
      /\ tab' = [tab EXCEPT !.next[memp] = link]
  BY DEF IInv, TypeOK, FreeNext, Main
<1>2. tab'.head = tab.head /\ tab'.next = [tab.next EXCEPT ![memp] = link]
  BY <1>1 DEF TypeOK
<1>3. TypeOK'
  BY <1>1 DEF TypeOK
<1>4. ~clash => MainInv'
  BY <1>1, <1>2 DEF IInv, MainInv, TypeOK
<1>5. ASSUME Owners PROVE Owners'
  <2>1. PICK order : Lists(order, Free) /\ Spells(tab, order)
    BY <1>5 DEF Owners
  <2>2. memp \notin Free /\ Mine' = Mine /\ Free' = Free
    BY <1>1 DEF Free, Mine
  <2>3. \A k \in DOMAIN order : order[k] \in Pbufs /\ order[k] # memp
    BY <2>1, <2>2 DEF Lists, ToSet, Free
  <2>4. Spells(tab', order)
    BY <1>1, <1>2, <2>1, <2>3 DEF Spells, TypeOK
  <2> QED
    BY <1>1, <1>5, <2>1, <2>2, <2>4 DEF Owners
<1> QED
  BY <1>1, <1>3, <1>4, <1>5, OwnersAreSole, OwnersAreSoleNext DEF IInv

(* Main's write of the head puts its pbuf in front of the list. *)
LEMMA FreeStoreInv == ASSUME IInv, FreeStore PROVE IInv'
<1>1. TypeOK /\ memp \in Pbufs /\ pc = "freeStore" /\ pc' = "idle"
      /\ UNCHANGED <<link, held, clash>> /\ memp' = Nil
      /\ tab' = [tab EXCEPT !.head = memp]
  BY DEF IInv, TypeOK, FreeStore, Main
<1>2. tab'.head = memp /\ tab'.next = tab.next
  BY <1>1 DEF TypeOK
<1>3. TypeOK'
  BY <1>1 DEF TypeOK, Maybe
<1>4. MainInv'
  BY <1>1 DEF MainInv
<1>5. ASSUME ~clash PROVE Owners'
  <2>1. Owners /\ link = tab.head /\ tab.next[memp] = link /\ Mine = {memp}
    BY <1>1, <1>5, OwnersAreSole DEF IInv, MainInv, Mine
  <2>2. PICK order : Lists(order, Free) /\ Spells(tab, order)
    BY <2>1 DEF Owners
  <2>3. order \in Seq(Pbufs) /\ tab.head \in Maybe /\ tab.next \in [Pbufs -> Maybe]
    BY <1>1, <2>2 DEF Lists, Free, TypeOK
  <2>4. /\ <<memp>> \in Seq(Pbufs) /\ <<memp>> # << >> /\ IsInjective(<<memp>>)
        /\ ToSet(<<memp>>) = {memp} /\ Last(<<memp>>) = memp
    BY <1>1 DEF IsInjective, ToSet, Last
  <2>5. InFront(<<memp>>, tab) = tab'
    <3>1. \A p \in Pbufs : InFront(<<memp>>, tab).next[p] = tab.next[p]
      BY <2>1, <2>4 DEF InFront
    <3>2. InFront(<<memp>>, tab).next = tab.next
      BY <2>3, <3>1 DEF InFront
    <3>3. InFront(<<memp>>, tab) = [head |-> memp, next |-> tab.next]
      BY <3>2 DEF InFront
    <3>4. tab' = [head |-> memp, next |-> tab.next]
      BY <1>1 DEF TypeOK
    <3> QED
      BY <3>3, <3>4
  <2>6. {memp} \cap Free = {}
    BY <2>1 DEF Free
  <2>7. Spells(tab', <<memp>> \o order)
    BY <2>2, <2>3, <2>4, <2>5, <2>6, InFrontSpells DEF Lists
  <2>8. Lists(<<memp>>, {memp})
    BY <2>4 DEF Lists
  <2>9. Lists(<<memp>> \o order, {memp} \cup Free)
    BY <2>2, <2>6, <2>8, ListsJoin
  <2>10. Mine' = {} /\ Free' = {memp} \cup Free
    BY <1>1, <2>1 DEF Mine, Free, Owners
  <2> QED
    BY <1>1, <2>1, <2>7, <2>9, <2>10 DEF Owners
<1> QED
  BY <1>1, <1>3, <1>4, <1>5, OwnersAreSoleNext DEF IInv

(* One pbuf that is taken and given back at once leaves head and links as   *)
(* they were.                                                               *)
LEMMA SingleKeeps ==
  ASSUME TypeOK, NEW pbufs \in FromHead(1)
  PROVE  InFront(Reverse(pbufs), Take(pbufs)) = tab
<1>1. pbufs \in [1 .. 1 -> Pbufs] /\ pbufs[1] = tab.head /\ Len(pbufs) = 1
  BY DEF FromHead
<1> DEFINE h == tab.head
           c == Reverse(pbufs)
<1>2. h \in Pbufs /\ Last(pbufs) = h
  BY <1>1 DEF Last
<1>3. DOMAIN c = 1 .. 1 /\ c[1] = h /\ Len(c) = 1 /\ Last(c) = h /\ ToSet(c) = {h}
  BY <1>1 DEF Reverse, Last, ToSet
<1> HIDE DEF c
<1>4. InFront(c, Take(pbufs)).head = h
  BY <1>3 DEF InFront
<1>5. ASSUME NEW p \in Pbufs PROVE InFront(c, Take(pbufs)).next[p] = tab.next[p]
  BY <1>2, <1>3, <1>5 DEF InFront, Take, TypeOK
<1>6. InFront(c, Take(pbufs)).next = tab.next
  BY <1>5 DEF InFront, TypeOK
<1>7. InFront(c, Take(pbufs)) = [head |-> h, next |-> tab.next]
  BY <1>4, <1>6 DEF InFront
<1> QED
  BY <1>7 DEF TypeOK, c

(* A frame in the middle of main's accesses: one pbuf, given back. *)
LEMMA ReceiveBetween ==
  ASSUME IInv, NEW n \in Nat \ {0}, NEW what, Receive(n, what), ~clash',
         pc \notin {"idle", "have"}
  PROVE  UNCHANGED vars
<1>1. n = 1 /\ what = "handled" /\ ~clash /\ UNCHANGED <<pc, memp, link, held>>
  <2>1. PICK pbufs \in FromHead(n) :
          /\ ~clash /\ UNCHANGED <<pc, memp, link>>
          /\ clash' = (pc \notin {"idle", "have"} /\ (n > 1 \/ what # "handled"))
          /\ what = "handled" => UNCHANGED held
    BY DEF Receive
  <2>2. ~(n > 1) /\ what = "handled"
    BY <2>1
  <2> QED
    BY <2>1, <2>2
<1>2. tab' = tab
  BY <1>1, SingleKeeps DEF Receive, IInv
<1>3. clash' = clash
  BY <1>1 DEF IInv, TypeOK, Receive
<1> QED
  BY <1>1, <1>2, <1>3 DEF vars

(* What EXTI1 does with the pbufs of a frame, if main is not at the list:   *)
(* they go back in front of the rest, or to the fragments.                  *)
LEMMA ReceiveInv ==
  ASSUME IInv, NEW n \in Nat \ {0}, NEW what \in {"handled", "fragment", "last"},
         Receive(n, what)
  PROVE  IInv'
<1>1. TypeOK /\ Owners /\ ~clash /\ clash' \in BOOLEAN
  BY OwnersAreSole DEF IInv, Receive
<1>2. PICK pbufs \in FromHead(n) :
        /\ CASE what = "handled"  -> tab' = InFront(Reverse(pbufs), Take(pbufs)) /\ UNCHANGED held
             [] what = "fragment" -> tab' = Take(pbufs) /\ held' = held \o pbufs
             [] what = "last"     -> /\ held # << >> /\ held' = << >>
                                     /\ \E order \in SetToSeqs(ToSet(held \o pbufs)) :
                                          tab' = InFront(order, Take(pbufs))
        /\ UNCHANGED <<pc, memp, link>>
  BY DEF Receive
<1> DEFINE T == ToSet(pbufs)
           H == ToSet(held)
           new == Take(pbufs)
<1>3. PICK order : Lists(order, Free) /\ Spells(tab, order)
  BY <1>1 DEF Owners
<1>4. Free \in SUBSET Pbufs /\ Free \cap H = {} /\ Free \cap Mine = {} /\ Mine \subseteq Pbufs
  BY <1>1 DEF Free, Mine, TypeOK
<1>5. /\ pbufs # << >> /\ Lists(pbufs, T) /\ T \subseteq Free
      /\ new.head \in Maybe /\ new.next \in [Pbufs -> Maybe]
      /\ \E rest : Lists(rest, Free \ T) /\ Spells(new, rest)
  BY <1>1, <1>3, <1>4, TakeSpells
<1>6. PICK rest : Lists(rest, Free \ T) /\ Spells(new, rest)
  BY <1>5
<1>7. Lists(held, H) /\ H \subseteq Pbufs
  <2>1. held \in Seq(Pbufs) /\ Len(held) \in Nat /\ DOMAIN held = 1 .. Len(held)
    BY <1>1 DEF TypeOK
  <2>2. held \in [1 .. Len(held) -> H] /\ H \subseteq Pbufs
    BY <2>1 DEF ToSet
  <2> QED
    BY <1>1, <2>1, <2>2 DEF Lists, Owners
<1> HIDE DEF T, H, new
<1>8. ASSUME NEW back, NEW B \in SUBSET Pbufs, Lists(back, B), back # << >>,
             B \cap (Free \ T) = {}
      PROVE  /\ InFront(back, new) \in [head : Maybe, next : [Pbufs -> Maybe]]
             /\ Lists(back \o rest, B \cup (Free \ T))
             /\ Spells(InFront(back, new), back \o rest)
  <2>1. back \in Seq(Pbufs) /\ rest \in Seq(Pbufs)
    BY <1>4, <1>6, <1>8 DEF Lists
  <2>2. InFront(back, new) \in [head : Maybe, next : [Pbufs -> Maybe]]
    BY <1>5, <1>8, <2>1, InFrontTyped
  <2>3. Lists(back \o rest, B \cup (Free \ T))
    BY <1>6, <1>8, ListsJoin
  <2>4. ToSet(back) \cap ToSet(rest) = {} /\ IsInjective(back)
    BY <1>6, <1>8 DEF Lists
  <2>5. Spells(InFront(back, new), back \o rest)
    BY <1>5, <1>6, <1>8, <2>1, <2>4, InFrontSpells
  <2> QED
    BY <2>2, <2>3, <2>5
<1>9. Mine' = Mine
  BY <1>2 DEF Mine
<1>10. ASSUME tab' \in [head : Maybe, next : [Pbufs -> Maybe]], held' \in Seq(Pbufs),
              IsInjective(held'), Mine \cap ToSet(held') = {},
              \E next : /\ Lists(next, Pbufs \ (Mine \cup ToSet(held')))
                        /\ Spells(tab', next)
       PROVE  IInv'
  <2>1. TypeOK'
    BY <1>1, <1>2, <1>10 DEF TypeOK
  <2>2. Owners'
    BY <1>9, <1>10 DEF Owners, Free
  <2>3. ~clash' => MainInv'
    <3>1. CASE pc \in {"idle", "have"}
      BY <1>2, <3>1 DEF MainInv
    <3>2. CASE pc \notin {"idle", "have"} /\ ~clash'
      <4>1. UNCHANGED vars
        BY <3>2, ReceiveBetween
      <4> QED
        BY <1>1, <4>1 DEF IInv, MainInv, vars
    <3> QED
      BY <3>1, <3>2
  <2> QED
    BY <2>1, <2>2, <2>3, OwnersAreSoleNext DEF IInv
<1>11. CASE what = "handled"
  <2> DEFINE back == Reverse(pbufs)
  <2>1. Lists(back, T)
    BY <1>5, ListsReverse
  <2>2. back # << >>
    BY <1>5, <2>1, ReverseNotEmpty DEF Lists
  <2>3. held' = held /\ tab' = InFront(back, new)
    BY <1>2, <1>11 DEF new
  <2> HIDE DEF back
  <2>4. T \in SUBSET Pbufs /\ T \cap (Free \ T) = {} /\ T \cup (Free \ T) = Free
    BY <1>4, <1>5
  <2>5. /\ tab' \in [head : Maybe, next : [Pbufs -> Maybe]]
        /\ Lists(back \o rest, Free) /\ Spells(tab', back \o rest)
    <3>1. /\ InFront(back, new) \in [head : Maybe, next : [Pbufs -> Maybe]]
          /\ Lists(back \o rest, T \cup (Free \ T))
          /\ Spells(InFront(back, new), back \o rest)
      BY <1>8, <2>1, <2>2, <2>4
    <3> QED
      BY <2>3, <2>4, <3>1
  <2> QED
    BY <1>1, <1>10, <2>3, <2>5 DEF Owners, Free, TypeOK
<1>12. CASE what = "fragment"
  <2>1. held' = held \o pbufs /\ tab' = new
    BY <1>2, <1>12 DEF new
  <2>2. Lists(held', H \cup T)
    BY <1>4, <1>5, <1>7, <2>1, ListsJoin
  <2>3. tab' \in [head : Maybe, next : [Pbufs -> Maybe]]
    BY <1>5, <2>1 DEF new, Take
  <2>4. held' \in Seq(Pbufs) /\ IsInjective(held') /\ ToSet(held') = H \cup T
    BY <1>4, <1>5, <1>7, <2>2 DEF Lists
  <2>5. Pbufs \ (Mine \cup (H \cup T)) = Free \ T /\ Mine \cap (H \cup T) = {}
    BY <1>1, <1>4, <1>5 DEF Free, H, Owners
  <2> QED
    BY <1>6, <1>10, <2>1, <2>3, <2>4, <2>5
<1>13. CASE what = "last"
  <2>1. /\ held' = << >>
        /\ \E back \in SetToSeqs(ToSet(held \o pbufs)) : tab' = InFront(back, new)
    BY <1>2, <1>13 DEF new
  <2>2. ToSet(held \o pbufs) = H \cup T
    <3>1. H \cap T = {}
      BY <1>4, <1>5
    <3>2. Lists(held \o pbufs, H \cup T)
      BY <1>5, <1>7, <3>1, ListsJoin
    <3> QED
      BY <3>2 DEF Lists
  <2>3. PICK back \in SetToSeqs(H \cup T) : tab' = InFront(back, new)
    BY <2>1, <2>2
  <2>4. IsFiniteSet(H \cup T) /\ H \cup T \in SUBSET Pbufs
    BY <1>4, <1>5, <1>7, MempAssumption, FS_Subset
  <2>5. Lists(back, H \cup T)
    BY <2>3, <2>4, SetToSeqsLists
  <2>6. back # << >>
    <3>1. T # {}
      BY <1>5 DEF T, Lists, ToSet
    <3> QED
      BY <2>5, <3>1 DEF Lists, ToSet
  <2>7. (H \cup T) \cap (Free \ T) = {} /\ (H \cup T) \cup (Free \ T) = Pbufs \ Mine
    <3>1. Free = Pbufs \ (Mine \cup H) /\ Mine \cap H = {} /\ H \subseteq Pbufs
      BY <1>1, <1>7 DEF Free, H, Owners
    <3> QED
      BY <1>4, <1>5, <3>1
  <2>8. /\ tab' \in [head : Maybe, next : [Pbufs -> Maybe]]
        /\ Lists(back \o rest, Pbufs \ Mine) /\ Spells(tab', back \o rest)
    <3>1. /\ InFront(back, new) \in [head : Maybe, next : [Pbufs -> Maybe]]
          /\ Lists(back \o rest, (H \cup T) \cup (Free \ T))
          /\ Spells(InFront(back, new), back \o rest)
      BY <1>8, <2>4, <2>5, <2>6, <2>7
    <3> QED
      BY <2>3, <2>7, <3>1
  <2>9. held' \in Seq(Pbufs) /\ IsInjective(held') /\ ToSet(held') = {}
    BY <2>1 DEF IsInjective, ToSet
  <2> QED
    BY <1>10, <2>8, <2>9
<1> QED
  BY <1>11, <1>12, <1>13

(* Every step keeps the invariant. *)
LEMMA NextInv == IInv /\ [Next]_vars => IInv'
<1> SUFFICES ASSUME IInv, [Next]_vars PROVE IInv'
  OBVIOUS
<1>1. CASE UNCHANGED vars
  <2>1. TypeOK' /\ Mine' = Mine /\ Free' = Free
    BY <1>1 DEF IInv, TypeOK, vars, Mine, Free
  <2>2. (~clash => Owners) => (~clash' => Owners')
    BY <1>1, <2>1 DEF Owners, vars
  <2>3. (~clash => MainInv) => (~clash' => MainInv')
    BY <1>1 DEF MainInv, vars
  <2> QED
    BY <2>1, <2>2, <2>3, OwnersAreSole, OwnersAreSoleNext DEF IInv
<1>2. ASSUME NEW n \in 1 .. Longest, NEW what \in {"handled", "fragment", "last"},
             Receive(n, what)
      PROVE  IInv'
  <2>1. n \in Nat \ {0}
    BY MempAssumption
  <2> QED
    BY <1>2, <2>1, ReceiveInv
<1> QED
  BY <1>1, <1>2, ReadInv, AllocStoreInv, FreeNextInv, FreeStoreInv DEF Next

(* ---- the theorems --------------------------------------------------------- *)

(* The invariant of the unprotected free list, for every set of pbufs and   *)
(* frames of every length.                                                  *)
THEOREM FreeListInvariant == Spec => []IInv
BY InitInv, NextInv, PTL DEF Spec

(* The head, the links and what main has read of them are pbufs or NULL. *)
THEOREM PbufTypes == Spec => []TypeOK
<1>1. IInv => TypeOK
  BY DEF IInv
<1> QED
  BY <1>1, FreeListInvariant, PTL

(* Every pbuf has one owner: the free list, which ends, main, or the        *)
(* fragments, until a chain or a fragment falls inside main's accesses.     *)
THEOREM PbufsHaveOneOwner == Spec => []SoleOwner
<1>1. IInv => SoleOwner
  BY DEF IInv
<1> QED
  BY <1>1, FreeListInvariant, PTL
=============================================================================
