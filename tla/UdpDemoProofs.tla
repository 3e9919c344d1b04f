---------------------------- MODULE UdpDemoProofs ----------------------------
(***************************************************************************)
(* The safety properties of UdpDemo, whichever allocations fail, whatever  *)
(* the host sends and whether or not somebody presses keys.                *)
(***************************************************************************)
EXTENDS UdpDemo, TLAPS

(* The board after a reset satisfies the invariant.                          *)
LEMMA InitInv == Init => IInv
<1> SUFFICES ASSUME Init PROVE IInv
  OBVIOUS
<1>1. TypeOK
  BY DEF Init, TypeOK, Orders, Lengths, Fields
<1>2. MotorOnce
  BY DEF Init, MotorOnce
<1>3. ResourceInv
  BY DEF Init, ResourceInv, Idle, Replying
<1>4. Copied = {}
  BY DEF Init, Copied
<1> QED BY <1>1, <1>2, <1>3, <1>4 DEF IInv, CopiedInv

(* Every step of the main loop, of the handler and of somebody at the keys   *)
(* keeps the types.                                                          *)
LEMMA TypeStep == TypeOK /\ [Next]_vars => TypeOK'
<1> SUFFICES ASSUME TypeOK, [Next]_vars PROVE TypeOK'
  OBVIOUS
<1> USE DEF TypeOK, Orders, Lengths, Fields, memory, shared, SendOver
<1>1. CASE Open
  <2>1. tbuf' \in BOOLEAN
    BY <1>1, Zenon DEF Open, Outcome
  <2> QED BY <1>1, <2>1 DEF Open, Outcome
<1>2. CASE NewPcb
  BY <1>2 DEF NewPcb
<1>3. CASE Bind
  BY <1>3 DEF Bind
<1>4. CASE Register
  BY <1>4 DEF Register
<1>5. CASE LoadForConnect
  BY <1>5 DEF LoadForConnect
<1>6. CASE StoreConnected
  BY <1>6 DEF StoreConnected
<1>7. CASE Poll
  BY <1>7 DEF Poll
<1>8. CASE AllocPbuf
  <2>1. sendbuf' \in BOOLEAN /\ unread' \in BOOLEAN
    BY <1>8, Zenon DEF AllocPbuf
  <2> QED BY <1>8, <2>1 DEF AllocPbuf
<1>9. CASE CopyRecord
  BY <1>9 DEF CopyRecord, Copy
<1>10. CASE SendReply
  <2>1. sendbuf' \in BOOLEAN
    BY <1>10, Zenon DEF SendReply
  <2> QED BY <1>10, <2>1 DEF SendReply
<1>21. CASE TakeRecord
  <2>1. carried' \in BOOLEAN
    <3>1. PICK len \in RecordLengths : carried' = (len <= ptrlen)
      BY <1>21, Zenon DEF TakeRecord
    <3>2. CASE len <= ptrlen
      BY <3>1, <3>2, Zenon
    <3>3. CASE ~(len <= ptrlen)
      <4>1. (len <= ptrlen) = FALSE
        BY <3>3
      <4> QED BY <3>1, <4>1, Zenon
    <3> QED BY <3>2, <3>3
  <2> QED BY <1>21, <2>1 DEF TakeRecord, RecordLengths
<1>22. CASE WriteThroughNull
  BY <1>22 DEF WriteThroughNull
<1>11. CASE Rearm
  BY <1>11 DEF Rearm
<1>12. CASE LoadForClear
  BY <1>12 DEF LoadForClear
<1>13. CASE StoreCleared
  <2>1. received' \in BOOLEAN
    BY <1>13, Zenon DEF StoreCleared
  <2> QED BY <1>13, <2>1 DEF StoreCleared
<1>14. CASE Close
  <2>1. connected' \in BOOLEAN /\ tbuf' \in BOOLEAN
    BY <1>14, Zenon DEF Close
  <2> QED BY <1>14, <2>1 DEF Close
<1>15. CASE Quit
  BY <1>15 DEF Quit
<1>16. CASE SendForKey
  <2>1. answering' \in BOOLEAN
    BY <1>16, Zenon DEF SendForKey
  <2> QED BY <1>16, <2>1 DEF SendForKey
<1>17. CASE Reconnect
  BY <1>17 DEF Reconnect
<1>18. ASSUME NEW o \in Orders, NEW valid \in BOOLEAN, Recv(o, valid)
       PROVE  TypeOK'
  <2>1. /\ gate' \in BOOLEAN /\ received' \in BOOLEAN /\ unread' \in BOOLEAN
    BY <1>18, Zenon DEF Recv, Process
  <2>2. order' \in Orders \cup {"none"} /\ turns' \in Nat
    BY <1>18 DEF Recv, Process
  <2>3. copied' \in [Fields -> {"none", "older", "newest"}]
    BY <1>18 DEF Recv
  <2> QED BY <1>18, <2>1, <2>2, <2>3 DEF Recv
<1>19. CASE OtherFrame
  BY <1>19 DEF OtherFrame
<1>20. CASE UNCHANGED vars
  BY <1>20 DEF vars
<1> QED BY <1>1, <1>2, <1>3, <1>4, <1>5, <1>6, <1>7, <1>8, <1>9, <1>10, <1>11, <1>12, <1>13,
           <1>14, <1>15, <1>16, <1>17, <1>18, <1>19, <1>20, <1>21, <1>22 DEF Next, Main, Host

(* MotorOnce alone is inductive: Message_processing counts a turn only when  *)
(* it closes the gate, and Rearm opens the gate and forgets the turn.        *)
LEMMA MotorStep == TypeOK /\ MotorOnce /\ [Next]_vars => MotorOnce'
<1> SUFFICES ASSUME TypeOK, MotorOnce, [Next]_vars PROVE MotorOnce'
  OBVIOUS
<1> USE DEF MotorOnce, shared
<1>1. turns \in Nat /\ gate \in BOOLEAN
  BY DEF TypeOK
<1>2. ASSUME UNCHANGED <<turns, gate>> PROVE MotorOnce'
  BY <1>2
<1>3. CASE Rearm
  BY <1>3 DEF Rearm
<1>4. ASSUME NEW o \in Orders, NEW valid \in BOOLEAN, Recv(o, valid)
      PROVE  MotorOnce'
  BY <1>1, <1>4 DEF Recv, Process
<1>5. CASE Open \/ NewPcb \/ Bind \/ Register
  BY <1>2, <1>5 DEF Open, NewPcb, Bind, Register
<1>6. CASE LoadForConnect \/ StoreConnected \/ Poll \/ AllocPbuf
  BY <1>2, <1>6 DEF LoadForConnect, StoreConnected, Poll, AllocPbuf
<1>7. CASE CopyRecord \/ TakeRecord \/ SendReply \/ LoadForClear \/ StoreCleared
  BY <1>2, <1>7 DEF CopyRecord, Copy, TakeRecord, SendReply, LoadForClear, StoreCleared
<1>8. CASE Close \/ WriteThroughNull \/ Quit \/ SendForKey \/ Reconnect \/ OtherFrame \/ UNCHANGED vars
  BY <1>2, <1>8 DEF Close, WriteThroughNull, Quit, SendForKey, Reconnect, OtherFrame, vars,
     memory
<1> QED BY <1>3, <1>4, <1>5, <1>6, <1>7, <1>8 DEF Next, Main, Host

(* Every step keeps the account of the resources.                            *)
LEMMA ResourceStep == TypeOK /\ ResourceInv /\ [Next]_vars => ResourceInv'
<1> SUFFICES ASSUME TypeOK, ResourceInv, [Next]_vars PROVE ResourceInv'
  OBVIOUS
<1> USE DEF ResourceInv, Idle, Replying, memory, shared, SendOver
<1>1. /\ tbuf \in BOOLEAN /\ sendbuf \in BOOLEAN /\ connected \in BOOLEAN
  BY DEF TypeOK
<1>2. CASE Open
  BY <1>1, <1>2 DEF Open
<1>3. CASE NewPcb
  BY <1>1, <1>3 DEF NewPcb
<1>4. CASE Bind
  BY <1>1, <1>4 DEF Bind
<1>5. CASE Register
  BY <1>1, <1>5 DEF Register
<1>6. CASE LoadForConnect
  BY <1>1, <1>6 DEF LoadForConnect
<1>7. CASE StoreConnected
  BY <1>1, <1>7 DEF StoreConnected
<1>8. CASE Poll
  BY <1>1, <1>8 DEF Poll
<1>9. CASE AllocPbuf
  BY <1>1, <1>9 DEF AllocPbuf
<1>10. CASE CopyRecord
  BY <1>1, <1>10 DEF CopyRecord, Copy
<1>11. CASE SendReply
  BY <1>1, <1>11 DEF SendReply
<1>22. CASE TakeRecord
  BY <1>1, <1>22 DEF TakeRecord
<1>23. CASE WriteThroughNull
  BY <1>1, <1>23 DEF WriteThroughNull
<1>12. CASE Rearm
  BY <1>1, <1>12 DEF Rearm
<1>13. CASE LoadForClear
  BY <1>1, <1>13 DEF LoadForClear
<1>14. CASE StoreCleared
  BY <1>1, <1>14 DEF StoreCleared
<1>15. CASE Close
  BY <1>1, <1>15 DEF Close
<1>16. CASE Quit
  BY <1>1, <1>16 DEF Quit
<1>17. CASE SendForKey
  BY <1>1, <1>17 DEF SendForKey
<1>18. CASE Reconnect
  BY <1>1, <1>18 DEF Reconnect
<1>19. ASSUME NEW o \in Orders, NEW valid \in BOOLEAN, Recv(o, valid)
       PROVE  ResourceInv'
  BY <1>1, <1>19 DEF Recv
<1>20. CASE OtherFrame
  BY <1>1, <1>20 DEF OtherFrame
<1>21. CASE UNCHANGED vars
  BY <1>1, <1>21 DEF vars
<1> QED BY <1>2, <1>3, <1>4, <1>5, <1>6, <1>7, <1>8, <1>9, <1>10, <1>11, <1>12, <1>13,
           <1>14, <1>15, <1>16, <1>17, <1>18, <1>19, <1>20, <1>21, <1>22, <1>23 DEF Next, Main, Host

(* Every step keeps the fields that a reply has up to date, or leaves a      *)
(* datagram unread.                                                          *)
LEMMA CopiedStep == TypeOK /\ CopiedInv /\ [Next]_vars => CopiedInv'
<1> SUFFICES ASSUME TypeOK, CopiedInv, [Next]_vars PROVE CopiedInv'
  OBVIOUS
<1>1. Copied \subseteq Fields /\ copied \in [Fields -> {"none", "older", "newest"}]
  BY DEF Copied, Fields, TypeOK
<1>2. ASSUME pc' \notin {"elengine", "led", "take", "send"} PROVE CopiedInv'
  BY <1>2 DEF CopiedInv, Copied
<1>3. CASE CopyRecord
  <2>1. ASSUME NEW f \in Fields, NEW next, Copy(f, next)
        PROVE  /\ copied' \in [Fields -> {"none", "older", "newest"}]
               /\ copied'[f] = (IF order' = "none" THEN "none" ELSE "newest")
               /\ \A g \in Fields \ {f} : copied'[g] = copied[g]
               /\ pc = f /\ pc' = next /\ order' = order /\ unread' = unread
    BY <1>1, <2>1 DEF Copy, shared
  <2>2. CASE Copy("humi", "elengine")
    BY <2>1, <2>2 DEF CopiedInv, Copied, Outdated, Fields
  <2>3. CASE Copy("elengine", "led")
    BY <2>1, <2>3 DEF CopiedInv, Copied, Outdated, Fields
  <2>4. CASE Copy("led", "take")
    BY <2>1, <2>4 DEF CopiedInv, Copied, Outdated, Fields
  <2> QED BY <1>3, <2>2, <2>3, <2>4 DEF CopyRecord
<1>4. ASSUME NEW o \in Orders, NEW valid \in BOOLEAN, Recv(o, valid)
      PROVE  CopiedInv'
  BY <1>4 DEF Recv, CopiedInv
<1>11. CASE TakeRecord
  BY <1>11 DEF TakeRecord, shared, CopiedInv, Copied, Outdated
<1>5. ASSUME UNCHANGED <<pc, copied, order, unread>> PROVE CopiedInv'
  BY <1>5 DEF CopiedInv, Copied, Outdated
<1>6. CASE Open \/ NewPcb \/ Bind \/ Register
  BY <1>2, <1>6 DEF Open, NewPcb, Bind, Register
<1>7. CASE LoadForConnect \/ StoreConnected \/ Poll \/ AllocPbuf
  BY <1>2, <1>7 DEF LoadForConnect, StoreConnected, Poll, AllocPbuf, SendOver
<1>8. CASE SendReply \/ Rearm \/ LoadForClear \/ StoreCleared
  BY <1>2, <1>8 DEF SendReply, SendOver, Rearm, LoadForClear, StoreCleared
<1>9. CASE Close \/ WriteThroughNull \/ Quit \/ SendForKey \/ Reconnect
  BY <1>2, <1>9 DEF Close, WriteThroughNull, Quit, SendForKey, Reconnect
<1>10. CASE OtherFrame \/ UNCHANGED vars
  BY <1>5, <1>10 DEF OtherFrame, shared, vars
<1> QED BY <1>3, <1>4, <1>6, <1>7, <1>8, <1>9, <1>10, <1>11 DEF Next, Main, Host

(* The invariant holds in every behaviour: for every choice of the           *)
(* constants, every interleaving of udp_demo_test with udp_demo_recv keeps   *)
(* it.                                                                       *)
THEOREM Invariant == Spec => []IInv
<1>1. IInv /\ [Next]_vars => IInv'
  BY TypeStep, MotorStep, ResourceStep, CopiedStep DEF IInv
<1> QED BY InitInv, <1>1, PTL DEF Spec

(* Every variable of the endpoint keeps its type.                            *)
THEOREM TypesHold == Spec => []TypeOK
<1>1. IInv => TypeOK
  BY DEF IInv
<1> QED BY Invariant, <1>1, PTL

(* However many datagrams arrive, the motor turns once for each time the     *)
(* main loop sets elengine_wyx.                                              *)
THEOREM MotorTurnsOnce == Spec => []MotorOnce
<1>1. IInv => MotorOnce
  BY DEF IInv
<1> QED BY Invariant, <1>1, PTL

(* udp_demo_test leaves nothing behind, whatever failed, if it returns.      *)
THEOREM NothingIsLeft == Spec => []NothingLeft
<1>1. IInv => NothingLeft
  BY DEF IInv, NothingLeft, ResourceInv, Idle, Replying
<1> QED BY Invariant, <1>1, PTL

(* A record that goes out and is out of date leaves a datagram unread.       *)
THEOREM OutdatedIsKnown == Spec => []OutdatedIsUnread
<1>1. IInv => OutdatedIsUnread
  BY DEF IInv, CopiedInv, OutdatedIsUnread, Copied
<1> QED BY Invariant, <1>1, PTL
=============================================================================
