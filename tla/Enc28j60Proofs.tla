--------------------------- MODULE Enc28j60Proofs ---------------------------
(***************************************************************************)
(* The driver's invariants hold for every size of the receive memory, every *)
(* number of frames, whether or not buffers run out, and, where nothing     *)
(* else is said, with or without the PKTIF erratum.  The second part  *)
(* is about the register banks under the driver.                            *)
(***************************************************************************)
EXTENDS Enc28j60, Bank, TLAPS

(* A reset board satisfies the invariant. *)
LEMMA InitInv == Init => IInv
<1> SUFFICES ASSUME Init PROVE IInv
  OBVIOUS
<1>1. TypeOK
  <2>1. << >> \in Seq(Frames)
    OBVIOUS
  <2>2. fifo \in Seq(Frames) /\ delivered \in Seq(Contents)
    BY <2>1 DEF Init
  <2>3. epktcnt \in Nat /\ arrived \in 0 .. MaxFrames /\ eir \subseteq Latched /\ lost \in Nat
    BY EncAssumption DEF Init
  <2>4. status \subseteq Flags /\ send \in [Ctx -> {"none", "wait", "check"}]
    BY DEF Init
  <2> QED BY <2>2, <2>3, <2>4 DEF Init, TypeOK
<1>2. Len(fifo) = 0 /\ Len(delivered) = 0 /\ epktcnt = 0
  BY DEF Init
<1>3. CountWithinFifo /\ InOrder /\ OrderInv
  BY <1>2 DEF CountWithinFifo, InOrder, OrderInv
<1>4. NoSleep /\ DriverInv
  BY DEF Init, NoSleep, IntLow, DriverInv, Ctx
<1>5. LossInv /\ OneLossHarmless
  BY <1>2 DEF Init, LossInv, Due, OneLossHarmless
<1> QED BY <1>1, <1>3, <1>4, <1>5 DEF IInv

(* What FinishReceive does to the two sequences of frames. *)
LEMMA Received ==
  ASSUME TypeOK, CountWithinFifo, DriverInv, FinishReceive
  PROVE  /\ fifo' \in Seq(Frames) /\ delivered' \in Seq(Contents)
         /\ epktcnt' \in Nat /\ epktcnt' <= Len(fifo')
         /\ ~wild => /\ Len(fifo) > 0
                     /\ Len(fifo') = Len(fifo) - 1
                     /\ \A m \in 1 .. Len(fifo') : fifo'[m] = fifo[m + 1]
                     /\ Len(delivered') = Len(delivered) + 1
                     /\ \A m \in 1 .. Len(delivered) : delivered'[m] = delivered[m]
                     /\ delivered'[Len(delivered')] = fifo[1]
<1>1. Len(fifo) \in Nat /\ epktcnt \in Nat /\ epktcnt > 0 /\ epktcnt <= Len(fifo)
  BY DEF TypeOK, CountWithinFifo, DriverInv, FinishReceive
<1>2. fifo \in Seq(Frames) /\ delivered \in Seq(Contents)
  BY DEF TypeOK
<1>3. epktcnt' = epktcnt - 1
  BY DEF FinishReceive
<1>4. CASE wild
  <2>1. \A f \in 0 .. arrived : f \in Contents
    BY EncAssumption DEF TypeOK, Contents
  <2>2. delivered' \in Seq(Contents) /\ fifo' = fifo
    <3>1. delivered' \in {delivered} \cup {Append(delivered, f) : f \in 0 .. arrived}
      BY <1>4 DEF FinishReceive, Copy
    <3>2. \A f \in 0 .. arrived : Append(delivered, f) \in Seq(Contents)
      BY <1>2, <2>1
    <3> QED BY <1>2, <1>4, <3>1, <3>2 DEF FinishReceive
  <2> QED BY <1>1, <1>2, <1>3, <1>4, <2>2
<1>5. CASE ~wild
  <2>1. fifo' = Tail(fifo) /\ delivered' = Append(delivered, Head(fifo))
    BY <1>5 DEF FinishReceive, Copy
  <2>2. Head(fifo) = fifo[1] /\ Head(fifo) \in Frames /\ Head(fifo) \in Contents
    BY <1>1, <1>2, EncAssumption DEF Frames, Contents
  <2>3. /\ Tail(fifo) \in Seq(Frames) /\ Len(Tail(fifo)) = Len(fifo) - 1
        /\ \A m \in 1 .. Len(fifo) - 1 : Tail(fifo)[m] = fifo[m + 1]
    BY <1>1, <1>2
  <2>4. /\ Append(delivered, Head(fifo)) \in Seq(Contents)
        /\ Len(Append(delivered, Head(fifo))) = Len(delivered) + 1
        /\ \A m \in 1 .. Len(delivered) :
             Append(delivered, Head(fifo))[m] = delivered[m]
        /\ Append(delivered, Head(fifo))[Len(delivered) + 1] = Head(fifo)
    BY <1>2, <2>2
  <2> QED BY <1>1, <1>3, <2>1, <2>2, <2>3, <2>4
<1> QED BY <1>4, <1>5

(* Every step keeps the types. *)
LEMMA TypeStep ==
  ASSUME TypeOK, CountWithinFifo, DriverInv, [Next]_vars
  PROVE  TypeOK'
<1> USE EncAssumption DEF TypeOK, Latched, Flags, Ctx, Frames, rx, cpu
<1>0. CASE RxBegin BY <1>0 DEF RxBegin
<1>1. CASE Arrive
  <2>1. arrived + 1 \in Frames /\ arrived + 1 \in 0 .. MaxFrames
    BY <1>1 DEF Arrive
  <2>2. Append(fifo, arrived + 1) \in Seq(Frames)
    <3> HIDE DEF Frames
    <3> QED BY <2>1
  <2>3. fifo' \in Seq(Frames) /\ epktcnt' \in Nat /\ arrived' \in 0 .. MaxFrames
    BY <1>1, <2>1, <2>2 DEF Arrive
  <2>4. UNCHANGED <<delivered, lost, eir, status, isr, send, intie, txrts, ahead, smashed, wild, primask>>
    BY <1>1 DEF Arrive
  <2>5. pend' \in BOOLEAN /\ rxbusy' = FALSE
    BY <1>1 DEF Arrive, Edge
  <2> QED BY <2>3, <2>4, <2>5
<1>2. CASE Overflow
  <2>1. arrived + 1 \in 0 .. MaxFrames
    BY <1>2 DEF Overflow
  <2>2. eir' \subseteq Latched /\ lost' \in Nat /\ arrived' \in 0 .. MaxFrames
    BY <1>2, <2>1 DEF Overflow
  <2>3. UNCHANGED <<fifo, epktcnt, delivered, status, isr, send, intie, txrts, ahead, wild, primask>>
    BY <1>2 DEF Overflow
  <2>4. pend' \in BOOLEAN /\ rxbusy' = FALSE /\ smashed' \in BOOLEAN
    BY <1>2 DEF Overflow, Edge
  <2> QED BY <2>2, <2>3, <2>4
<1>3. CASE TxEnd BY <1>3 DEF TxEnd, Edge
<1>4. CASE Handler
  <2>1. CASE IsrEnter BY <2>1 DEF IsrEnter
  <2>2. CASE Ack BY <2>2 DEF Ack
  <2>3. CASE LoopOn BY <2>3 DEF LoopOn, Edge
  <2>4. CASE LoopEnd BY <2>4 DEF LoopEnd
  <2>5. CASE ReadEir BY <2>5 DEF ReadEir
  <2>6. CASE NoPacket BY <2>6 DEF NoPacket
  <2>7. CASE AllocFails BY <2>7 DEF AllocFails
  <2>8. CASE ReceiveNothing BY <2>8 DEF ReceiveNothing
  <2>9. CASE StartReceive BY <2>9 DEF StartReceive
  <2>18. CASE ReadHeader BY <2>18 DEF ReadHeader
  <2>10. CASE FinishReceive BY <2>10, Received DEF FinishReceive, Edge
  <2>11. CASE InputDone BY <2>11 DEF InputDone
  <2>12. CASE ClearTxif BY <2>12 DEF ClearTxif, Edge
  <2>13. CASE NoRxer BY <2>13 DEF NoRxer
  <2>14. CASE ClearRxer BY <2>14 DEF ClearRxer, Edge
  <2>15. CASE SkipByte BY <2>15 DEF SkipByte, Edge
  <2>16. CASE ClearTxer BY <2>16 DEF ClearTxer, Edge
  <2>17. CASE Unmute BY <2>17 DEF Unmute, Edge
  <2> QED BY <1>4, <2>1, <2>2, <2>3, <2>4, <2>5, <2>6, <2>7, <2>8, <2>9,
             <2>10, <2>11, <2>12, <2>13, <2>14, <2>15, <2>16, <2>17, <2>18 DEF Handler
<1>5. ASSUME NEW c \in Ctx, SendStart(c) \/ Send(c) PROVE TypeOK'
  <2>1. CASE SendStart(c) BY <2>1 DEF SendStart, MaySend, MainRuns
  <2>2. CASE SendLoad(c) BY <2>2 DEF SendLoad
  <2>3. CASE SendAbort(c) BY <2>3 DEF SendAbort, SendDone, Edge
  <2>4. CASE SendReturn(c) BY <2>4 DEF SendReturn, SendDone
  <2> QED BY <1>5, <2>1, <2>2, <2>3, <2>4 DEF Send
<1>6. CASE UNCHANGED vars BY <1>6 DEF vars
<1> QED BY <1>0, <1>1, <1>2, <1>3, <1>4, <1>5, <1>6 DEF Next

(* EPKTCNT stays within the queue: a frame adds one to both, a frame read    *)
(* takes one from both, and the error branch only takes from EPKTCNT.        *)
LEMMA CountStep ==
  ASSUME TypeOK, CountWithinFifo, DriverInv, [Next]_vars
  PROVE  CountWithinFifo'
<1> USE EncAssumption DEF TypeOK, CountWithinFifo, rx
<1>0. CASE RxBegin BY <1>0 DEF RxBegin
<1>1. CASE Arrive BY <1>1 DEF Arrive, Edge
<1>2. CASE Overflow BY <1>2 DEF Overflow, Edge
<1>3. CASE TxEnd BY <1>3 DEF TxEnd, Edge
<1>4. CASE Handler
  <2>1. CASE IsrEnter BY <2>1 DEF IsrEnter
  <2>2. CASE Ack BY <2>2 DEF Ack
  <2>3. CASE LoopOn BY <2>3 DEF LoopOn, Edge
  <2>4. CASE LoopEnd BY <2>4 DEF LoopEnd
  <2>5. CASE ReadEir BY <2>5 DEF ReadEir
  <2>6. CASE NoPacket BY <2>6 DEF NoPacket
  <2>7. CASE AllocFails BY <2>7 DEF AllocFails
  <2>8. CASE ReceiveNothing BY <2>8 DEF ReceiveNothing
  <2>9. CASE StartReceive BY <2>9 DEF StartReceive
  <2>18. CASE ReadHeader BY <2>18 DEF ReadHeader
  <2>10. CASE FinishReceive BY <2>10, Received
  <2>11. CASE InputDone BY <2>11 DEF InputDone
  <2>12. CASE ClearTxif BY <2>12 DEF ClearTxif, Edge
  <2>13. CASE NoRxer BY <2>13 DEF NoRxer
  <2>14. CASE ClearRxer BY <2>14 DEF ClearRxer, Edge
  <2>15. CASE SkipByte BY <2>15 DEF SkipByte, Edge
  <2>16. CASE ClearTxer BY <2>16 DEF ClearTxer, Edge
  <2>17. CASE Unmute BY <2>17 DEF Unmute, Edge
  <2> QED BY <1>4, <2>1, <2>2, <2>3, <2>4, <2>5, <2>6, <2>7, <2>8, <2>9,
             <2>10, <2>11, <2>12, <2>13, <2>14, <2>15, <2>16, <2>17, <2>18 DEF Handler
<1>5. ASSUME NEW c \in Ctx, SendStart(c) \/ Send(c) PROVE CountWithinFifo'
  <2>1. CASE SendStart(c) BY <2>1 DEF SendStart, MaySend, MainRuns
  <2>2. CASE SendLoad(c) BY <2>2 DEF SendLoad
  <2>3. CASE SendAbort(c) BY <2>3 DEF SendAbort, SendDone, Edge
  <2>4. CASE SendReturn(c) BY <2>4 DEF SendReturn, SendDone
  <2> QED BY <1>5, <2>1, <2>2, <2>3, <2>4 DEF Send
<1>6. CASE UNCHANGED vars BY <1>6 DEF vars
<1> QED BY <1>0, <1>1, <1>2, <1>3, <1>4, <1>5, <1>6 DEF Next

(* The handler mutes and unmutes, and masks and unmasks, in brackets. *)
LEMMA DriverStep ==
  ASSUME TypeOK, DriverInv, [Next]_vars
  PROVE  DriverInv'
<1> USE EncAssumption DEF TypeOK, DriverInv, Latched, Flags, Ctx, rx, cpu
<1>0. CASE RxBegin BY <1>0 DEF RxBegin
<1>1. CASE Arrive BY <1>1 DEF Arrive, Edge
<1>2. CASE Overflow BY <1>2 DEF Overflow, Edge
<1>3. CASE TxEnd BY <1>3 DEF TxEnd, Edge
<1>4. CASE Handler
  <2>1. CASE IsrEnter BY <2>1 DEF IsrEnter
  <2>2. CASE Ack BY <2>2 DEF Ack
  <2>3. CASE LoopOn BY <2>3 DEF LoopOn, Edge
  <2>4. CASE LoopEnd BY <2>4 DEF LoopEnd
  <2>5. CASE ReadEir BY <2>5 DEF ReadEir
  <2>6. CASE NoPacket BY <2>6 DEF NoPacket
  <2>7. CASE AllocFails BY <2>7 DEF AllocFails
  <2>8. CASE ReceiveNothing BY <2>8 DEF ReceiveNothing
  <2>9. CASE StartReceive BY <2>9 DEF StartReceive
  <2>18. CASE ReadHeader BY <2>18 DEF ReadHeader
  <2>10. CASE FinishReceive BY <2>10 DEF FinishReceive, Edge
  <2>11. CASE InputDone BY <2>11 DEF InputDone
  <2>12. CASE ClearTxif BY <2>12 DEF ClearTxif, Edge
  <2>13. CASE NoRxer BY <2>13 DEF NoRxer
  <2>14. CASE ClearRxer BY <2>14 DEF ClearRxer, Edge
  <2>15. CASE SkipByte BY <2>15 DEF SkipByte, Edge
  <2>16. CASE ClearTxer BY <2>16 DEF ClearTxer, Edge
  <2>17. CASE Unmute BY <2>17 DEF Unmute, Edge
  <2> QED BY <1>4, <2>1, <2>2, <2>3, <2>4, <2>5, <2>6, <2>7, <2>8, <2>9,
             <2>10, <2>11, <2>12, <2>13, <2>14, <2>15, <2>16, <2>17, <2>18 DEF Handler
<1>5. ASSUME NEW c \in Ctx, SendStart(c) \/ Send(c) PROVE DriverInv'
  <2>1. CASE SendStart(c) BY <2>1 DEF SendStart, MaySend, MainRuns
  <2>2. CASE SendLoad(c) BY <2>2 DEF SendLoad
  <2>3. CASE SendAbort(c) BY <2>3 DEF SendAbort, SendDone, Edge
  <2>4. CASE SendReturn(c) BY <2>4 DEF SendReturn, SendDone
  <2> QED BY <1>5, <2>1, <2>2, <2>3, <2>4 DEF Send
<1>6. CASE UNCHANGED vars BY <1>6 DEF vars
<1> QED BY <1>0, <1>1, <1>2, <1>3, <1>4, <1>5, <1>6 DEF Next

(* A falling edge always finds EXTI1 enabled to remember it, and the handler *)
(* leaves only with the pin high.                                            *)
LEMMA NoSleepStep ==
  ASSUME TypeOK, NoSleep, DriverInv, [Next]_vars
  PROVE  NoSleep'
<1> USE EncAssumption DEF TypeOK, NoSleep, DriverInv, IntLow, Ctx, rx, cpu
<1>0. CASE RxBegin BY <1>0 DEF RxBegin
<1>1. CASE Arrive BY <1>1 DEF Arrive, Edge
<1>2. CASE Overflow BY <1>2 DEF Overflow, Edge
<1>3. CASE TxEnd BY <1>3 DEF TxEnd, Edge
<1>4. CASE Handler
  <2>1. CASE IsrEnter BY <2>1 DEF IsrEnter
  <2>2. CASE Ack BY <2>2 DEF Ack
  <2>3. CASE LoopOn BY <2>3 DEF LoopOn, Edge
  <2>4. CASE LoopEnd BY <2>4 DEF LoopEnd
  <2>5. CASE ReadEir BY <2>5 DEF ReadEir
  <2>6. CASE NoPacket BY <2>6 DEF NoPacket
  <2>7. CASE AllocFails BY <2>7 DEF AllocFails
  <2>8. CASE ReceiveNothing BY <2>8 DEF ReceiveNothing
  <2>9. CASE StartReceive BY <2>9 DEF StartReceive
  <2>18. CASE ReadHeader BY <2>18 DEF ReadHeader
  <2>10. CASE FinishReceive BY <2>10 DEF FinishReceive, Edge
  <2>11. CASE InputDone BY <2>11 DEF InputDone
  <2>12. CASE ClearTxif BY <2>12 DEF ClearTxif, Edge
  <2>13. CASE NoRxer BY <2>13 DEF NoRxer
  <2>14. CASE ClearRxer BY <2>14 DEF ClearRxer, Edge
  <2>15. CASE SkipByte BY <2>15 DEF SkipByte, Edge
  <2>16. CASE ClearTxer BY <2>16 DEF ClearTxer, Edge
  <2>17. CASE Unmute BY <2>17 DEF Unmute, Edge
  <2> QED BY <1>4, <2>1, <2>2, <2>3, <2>4, <2>5, <2>6, <2>7, <2>8, <2>9,
             <2>10, <2>11, <2>12, <2>13, <2>14, <2>15, <2>16, <2>17, <2>18 DEF Handler
<1>5. ASSUME NEW c \in Ctx, SendStart(c) \/ Send(c) PROVE NoSleep'
  <2>1. CASE SendStart(c) BY <2>1 DEF SendStart, MaySend, MainRuns
  <2>2. CASE SendLoad(c) BY <2>2 DEF SendLoad
  <2>3. CASE SendAbort(c) BY <2>3 DEF SendAbort, SendDone, Edge
  <2>4. CASE SendReturn(c) BY <2>4 DEF SendReturn, SendDone
  <2> QED BY <1>5, <2>1, <2>2, <2>3, <2>4 DEF Send
<1>6. CASE UNCHANGED vars BY <1>6 DEF vars
<1> QED BY <1>0, <1>1, <1>2, <1>3, <1>4, <1>5, <1>6 DEF Next

(* Frames are numbers. *)
LEMMA FrameNumbers ==
  ASSUME TypeOK
  PROVE  /\ fifo \in Seq(Frames)
         /\ Len(fifo) \in Nat /\ Len(delivered) \in Nat /\ arrived \in Nat
         /\ \A m \in 1 .. Len(fifo) : fifo[m] \in Int
         /\ \A m \in 1 .. Len(delivered) : delivered[m] \in Int
<1>1. /\ fifo \in Seq(Frames) /\ delivered \in Seq(Contents)
      /\ arrived \in 0 .. MaxFrames
  BY DEF TypeOK
<1>2. arrived \in Nat
  BY <1>1, EncAssumption
<1>3. (\A f \in Frames : f \in Int) /\ (\A f \in Contents : f \in Int)
  BY EncAssumption DEF Frames, Contents
<1>4. \A m \in 1 .. Len(fifo) : fifo[m] \in Frames
  BY <1>1
<1>5. \A m \in 1 .. Len(delivered) : delivered[m] \in Contents
  BY <1>1
<1> QED BY <1>1, <1>2, <1>3, <1>4, <1>5

(* Frames are numbered as they arrive, queue up in that order, and move from *)
(* the head of the queue to the end of what was delivered.                   *)
LEMMA OrderStep ==
  ASSUME TypeOK, CountWithinFifo, DriverInv, InOrder, OrderInv, [Next]_vars
  PROVE  InOrder' /\ OrderInv'
<1>1. CASE Arrive
  <2>1. /\ Len(fifo) \in Nat /\ Len(fifo') = Len(fifo) + 1
        /\ \A m \in 1 .. Len(fifo) : fifo'[m] = fifo[m] /\ fifo[m] \in Int
        /\ fifo'[Len(fifo')] = arrived + 1
    <3>1. fifo' = Append(fifo, arrived + 1)
      BY <1>1 DEF Arrive
    <3> QED BY <3>1, FrameNumbers
  <2>2. /\ arrived \in Nat /\ arrived' = arrived + 1 /\ delivered' = delivered
        /\ wild' = wild /\ Len(delivered) \in Nat
        /\ \A m \in 1 .. Len(delivered) : delivered[m] \in Int
    BY <1>1, FrameNumbers DEF Arrive
  <2>3. InOrder'
    BY <2>2 DEF InOrder
  <2>4. \A m, n \in 1 .. Len(fifo') : m < n => fifo'[m] < fifo'[n]
    <3> TAKE m, n \in 1 .. Len(fifo')
    <3> HAVE m < n
    <3>1. m \in 1 .. Len(fifo)
      BY <2>1
    <3>2. CASE n = Len(fifo')
      BY <2>1, <2>2, <3>1, <3>2 DEF OrderInv
    <3>3. CASE n # Len(fifo')
      BY <2>1, <3>1, <3>3 DEF OrderInv
    <3> QED BY <3>2, <3>3
  <2>5. \A m \in 1 .. Len(fifo') : fifo'[m] <= arrived'
    BY <2>1, <2>2 DEF OrderInv
  <2>6. ~wild' => \A m \in 1 .. Len(delivered') : delivered'[m] <= arrived'
    BY <2>2 DEF OrderInv
  <2>7. ~wild' => \A m \in 1 .. Len(delivered'), n \in 1 .. Len(fifo') : delivered'[m] < fifo'[n]
    BY <2>1, <2>2 DEF OrderInv
  <2> QED BY <2>3, <2>4, <2>5, <2>6, <2>7 DEF OrderInv
<1>2. CASE FinishReceive
  <2>1. arrived' = arrived /\ arrived \in Int
    BY <1>2, EncAssumption DEF FinishReceive, TypeOK
  <2>2. CASE wild
    <3>1. fifo' = fifo /\ wild'
      BY <1>2, <2>2 DEF FinishReceive
    <3> QED BY <2>1, <2>2, <3>1 DEF InOrder, OrderInv
  <2>3. CASE ~wild
    <3>0. /\ \A m, n \in 1 .. Len(delivered) : m < n => delivered[m] < delivered[n]
          /\ \A m \in 1 .. Len(delivered) : delivered[m] <= arrived
          /\ \A m \in 1 .. Len(delivered), n \in 1 .. Len(fifo) : delivered[m] < fifo[n]
      BY <2>3 DEF InOrder, OrderInv
    <3>1. /\ Len(fifo) \in Nat /\ Len(delivered) \in Nat
          /\ \A m \in 1 .. Len(fifo) : fifo[m] \in Int
          /\ \A m \in 1 .. Len(delivered) : delivered[m] \in Int
      BY FrameNumbers
    <3>2. /\ Len(fifo) > 0
          /\ Len(fifo') = Len(fifo) - 1
          /\ \A m \in 1 .. Len(fifo') : fifo'[m] = fifo[m + 1]
          /\ Len(delivered') = Len(delivered) + 1
          /\ \A m \in 1 .. Len(delivered) : delivered'[m] = delivered[m]
          /\ delivered'[Len(delivered')] = fifo[1]
      BY <1>2, <2>3, Received
    <3>3. \A m, n \in 1 .. Len(delivered') : m < n => delivered'[m] < delivered'[n]
      <4> TAKE m, n \in 1 .. Len(delivered')
      <4> HAVE m < n
      <4>1. m \in 1 .. Len(delivered) /\ delivered'[m] = delivered[m]
        BY <3>1, <3>2
      <4>2. CASE n = Len(delivered')
        <5>1. 1 \in 1 .. Len(fifo)
          BY <3>1, <3>2
        <5> QED BY <3>0, <3>2, <4>1, <4>2, <5>1
      <4>3. CASE n # Len(delivered')
        <5>1. n \in 1 .. Len(delivered) /\ delivered'[n] = delivered[n]
          <6>1. n \in 1 .. Len(delivered) + 1 /\ n # Len(delivered) + 1
            BY <3>2, <4>3
          <6>2. n \in 1 .. Len(delivered)
            BY <3>1, <6>1
          <6> QED BY <3>2, <6>2
        <5> QED BY <3>0, <4>1, <5>1
      <4> QED BY <4>2, <4>3
    <3>4. \A m, n \in 1 .. Len(fifo') : m < n => fifo'[m] < fifo'[n]
      <4> TAKE m, n \in 1 .. Len(fifo')
      <4> HAVE m < n
      <4>1. m + 1 \in 1 .. Len(fifo) /\ n + 1 \in 1 .. Len(fifo) /\ m + 1 < n + 1
        BY <3>1, <3>2
      <4> QED BY <3>2, <4>1 DEF OrderInv
    <3>5. \A m \in 1 .. Len(fifo') : fifo'[m] <= arrived'
      BY <2>1, <3>1, <3>2 DEF OrderInv
    <3>6. \A m \in 1 .. Len(delivered') : delivered'[m] <= arrived'
      BY <2>1, <3>0, <3>1, <3>2 DEF OrderInv
    <3>7. \A m \in 1 .. Len(delivered'), n \in 1 .. Len(fifo') : delivered'[m] < fifo'[n]
      <4> SUFFICES ASSUME NEW m \in 1 .. Len(delivered'), NEW n \in 1 .. Len(fifo')
                   PROVE  delivered'[m] < fifo'[n]
        OBVIOUS
      <4>1. n + 1 \in 1 .. Len(fifo) /\ fifo'[n] = fifo[n + 1] /\ 1 \in 1 .. Len(fifo)
        BY <3>1, <3>2
      <4>2. CASE m = Len(delivered')
        BY <3>1, <3>2, <4>1, <4>2 DEF OrderInv
      <4>3. CASE m # Len(delivered')
        <5>1. m \in 1 .. Len(delivered) /\ delivered'[m] = delivered[m]
          BY <3>1, <3>2, <4>3
        <5> QED BY <3>0, <4>1, <5>1
      <4> QED BY <4>2, <4>3
    <3> QED BY <3>3, <3>4, <3>5, <3>6, <3>7 DEF InOrder, OrderInv
  <2> QED BY <2>2, <2>3
<1>3. CASE Overflow
  <2>1. arrived' = arrived + 1 /\ arrived \in Int
    BY <1>3, EncAssumption DEF Overflow, TypeOK
  <2>2. fifo' = fifo /\ delivered' = delivered /\ wild' = wild
    BY <1>3 DEF Overflow
  <2>3. /\ \A m \in 1 .. Len(fifo) : fifo[m] \in Int
        /\ \A m \in 1 .. Len(delivered) : delivered[m] \in Int
    BY FrameNumbers
  <2> QED BY <2>1, <2>2, <2>3 DEF InOrder, OrderInv
<1>4. ASSUME fifo' = fifo, delivered' = delivered, arrived' = arrived, wild => wild'
      PROVE  InOrder' /\ OrderInv'
  BY <1>4 DEF InOrder, OrderInv
<1>5. CASE Handler /\ ~FinishReceive
  <2>1. CASE ReadHeader
    BY <1>4, <2>1 DEF ReadHeader
  <2>2. CASE ~ReadHeader
    BY <1>4, <1>5, <2>2 DEF Handler, IsrEnter, Ack, LoopOn, LoopEnd, ReadEir, NoPacket,
       AllocFails, ReceiveNothing, StartReceive, InputDone, ClearTxif, NoRxer, ClearRxer,
       SkipByte, ClearTxer, Unmute, rx
  <2> QED BY <2>1, <2>2
<1>6. CASE TxEnd \/ RxBegin
  BY <1>4, <1>6 DEF TxEnd, RxBegin, rx
<1>7. ASSUME NEW c \in Ctx, SendStart(c) \/ Send(c) PROVE InOrder' /\ OrderInv'
  BY <1>4, <1>7 DEF SendStart, Send, SendLoad, SendAbort, SendReturn, rx
<1>8. CASE UNCHANGED vars
  BY <1>4, <1>8 DEF vars
<1> QED BY <1>1, <1>2, <1>3, <1>5, <1>6, <1>7, <1>8 DEF Next

(* A refused frame raises RXERIF, RXERIF is cleared for one skip, and a skip *)
(* takes one from EPKTCNT: what is due turns into lag and never into more.   *)
LEMMA LossStep ==
  ASSUME TypeOK, CountWithinFifo, DriverInv, LossInv, OneLossHarmless, [Next]_vars
  PROVE  LossInv' /\ OneLossHarmless'
<1> USE EncAssumption DEF TypeOK, DriverInv, LossInv, OneLossHarmless, Due, Latched, Flags,
        Ctx, Frames, rx, cpu
<1>0. CASE RxBegin BY <1>0 DEF RxBegin
<1>1. CASE Arrive BY <1>1 DEF Arrive, Edge
<1>2. CASE Overflow BY <1>2 DEF Overflow, Edge
<1>3. CASE TxEnd BY <1>3 DEF TxEnd, Edge
<1>4. CASE Handler
  <2>1. CASE IsrEnter BY <2>1 DEF IsrEnter
  <2>2. CASE Ack BY <2>2 DEF Ack
  <2>3. CASE LoopOn BY <2>3 DEF LoopOn, Edge
  <2>4. CASE LoopEnd BY <2>4 DEF LoopEnd
  <2>5. CASE ReadEir BY <2>5 DEF ReadEir
  <2>6. CASE NoPacket BY <2>6 DEF NoPacket
  <2>7. CASE AllocFails BY <2>7 DEF AllocFails
  <2>8. CASE ReceiveNothing BY <2>8 DEF ReceiveNothing
  <2>9. CASE StartReceive BY <2>9 DEF StartReceive
  <2>10. CASE FinishReceive
    <3>1. ~wild => Len(fifo') = Len(fifo) - 1
      BY <2>10, Received
    <3>2. /\ epktcnt' = epktcnt - 1 /\ wild' = wild /\ lost' = lost /\ eir' = eir
          /\ isr = "recv" /\ isr' = "input" /\ status' = status
          /\ ahead' = FALSE /\ smashed' = FALSE
      BY <2>10 DEF FinishReceive
    <3>3. Due' = Due
      BY <3>2 DEF Due
    <3>4. Due \in Int /\ Len(fifo) \in Int /\ epktcnt \in Int /\ lost \in Int
      BY DEF Due
    <3>5. ~wild' => Len(fifo') - epktcnt' + Due' <= lost'
      <4> HIDE DEF Due
      <4> QED BY <3>1, <3>2, <3>3, <3>4
    <3> QED BY <3>2, <3>5
  <2>11. CASE InputDone BY <2>11 DEF InputDone
  <2>12. CASE ClearTxif BY <2>12 DEF ClearTxif, Edge
  <2>13. CASE NoRxer BY <2>13 DEF NoRxer
  <2>14. CASE ClearRxer BY <2>14 DEF ClearRxer, Edge
  <2>15. CASE SkipByte BY <2>15 DEF SkipByte, Edge
  <2>16. CASE ClearTxer BY <2>16 DEF ClearTxer, Edge
  <2>17. CASE Unmute BY <2>17 DEF Unmute, Edge
  <2>18. CASE ReadHeader BY <2>18 DEF ReadHeader
  <2> QED BY <1>4, <2>1, <2>2, <2>3, <2>4, <2>5, <2>6, <2>7, <2>8, <2>9,
             <2>10, <2>11, <2>12, <2>13, <2>14, <2>15, <2>16, <2>17, <2>18 DEF Handler
<1>5. ASSUME NEW c \in Ctx, SendStart(c) \/ Send(c) PROVE LossInv' /\ OneLossHarmless'
  <2>1. CASE SendStart(c) BY <2>1 DEF SendStart, MaySend, MainRuns
  <2>2. CASE SendLoad(c) BY <2>2 DEF SendLoad
  <2>3. CASE SendAbort(c) BY <2>3 DEF SendAbort, SendDone, Edge
  <2>4. CASE SendReturn(c) BY <2>4 DEF SendReturn, SendDone
  <2> QED BY <1>5, <2>1, <2>2, <2>3, <2>4 DEF Send
<1>6. CASE UNCHANGED vars BY <1>6 DEF vars
<1> QED BY <1>0, <1>1, <1>2, <1>3, <1>4, <1>5, <1>6 DEF Next

(* The inductive invariant. *)
THEOREM DriverInvariant == Spec => []IInv
<1>1. IInv /\ [Next]_vars => IInv'
  BY TypeStep, CountStep, DriverStep, NoSleepStep, OrderStep, LossStep DEF IInv
<1> QED BY InitInv, <1>1, PTL DEF Spec

(* No value ever leaves its type: EPKTCNT is never counted below 0. *)
THEOREM TypeCorrect == Spec => []TypeOK
<1>1. IInv => TypeOK
  BY DEF IInv
<1> QED BY DriverInvariant, <1>1, PTL

(* EXTI1_IRQHandler's loop and the muting of INTIE leave no flag behind that *)
(* nothing announces.                                                        *)
THEOREM NeverSleeps == Spec => []NoSleep
<1>1. IInv => NoSleep
  BY DEF IInv
<1> QED BY DriverInvariant, <1>1, PTL

(* The main loop and the handler never share the SPI bus. *)
THEOREM BusIsExclusive == Spec => []BusExclusive
<1>1. IInv => BusExclusive
  BY DEF IInv, DriverInv, BusExclusive
<1> QED BY DriverInvariant, <1>1, PTL

(* The driver never reads a frame that is not there, and hides no more       *)
(* frames than were refused.                                                 *)
THEOREM LagIsBounded == Spec => []LagBounded
<1>1. IInv => LagBounded
  BY DEF IInv, TypeOK, LossInv, Due, LagBounded
<1> QED BY DriverInvariant, <1>1, PTL

(* The stack gets frames in order and at most once, until the header of one  *)
(* has been written over, ...                                                *)
THEOREM DeliveredInOrder == Spec => []InOrder
<1>1. IInv => InOrder
  BY DEF IInv
<1> QED BY DriverInvariant, <1>1, PTL

(* ... for which two frames must have been refused.                          *)
THEOREM OneLossIsHarmless == Spec => []OneLossHarmless
<1>1. IInv => OneLossHarmless
  BY DEF IInv
<1> QED BY DriverInvariant, <1>1, PTL

(* INTX_DISABLE meets its INTX_ENABLE but for the return of line 430.        *)
LEMMA MaskStep ==
  ASSUME TypeOK, DriverInv, Next, LeftMasked'
  PROVE  LeftMasked \/ (isr = "pkt" /\ epktcnt = 0 /\ ~PktifExact)
<1> USE EncAssumption DEF TypeOK, DriverInv, LeftMasked, InCall, Ctx, rx, cpu
<1>0. CASE RxBegin BY <1>0 DEF RxBegin
<1>1. CASE Arrive BY <1>1 DEF Arrive
<1>2. CASE Overflow BY <1>2 DEF Overflow
<1>3. CASE TxEnd BY <1>3 DEF TxEnd
<1>4. CASE Handler
  <2>1. CASE IsrEnter BY <2>1 DEF IsrEnter
  <2>2. CASE Ack BY <2>2 DEF Ack
  <2>3. CASE LoopOn BY <2>3 DEF LoopOn
  <2>4. CASE LoopEnd BY <2>4 DEF LoopEnd
  <2>5. CASE ReadEir BY <2>5 DEF ReadEir
  <2>6. CASE NoPacket BY <2>6 DEF NoPacket
  <2>7. CASE AllocFails BY <2>7 DEF AllocFails
  <2>8. CASE ReceiveNothing BY <2>8 DEF ReceiveNothing
  <2>9. CASE StartReceive BY <2>9 DEF StartReceive
  <2>10. CASE FinishReceive BY <2>10 DEF FinishReceive
  <2>11. CASE InputDone BY <2>11 DEF InputDone
  <2>12. CASE ClearTxif BY <2>12 DEF ClearTxif
  <2>13. CASE NoRxer BY <2>13 DEF NoRxer
  <2>14. CASE ClearRxer BY <2>14 DEF ClearRxer
  <2>15. CASE SkipByte BY <2>15 DEF SkipByte
  <2>16. CASE ClearTxer BY <2>16 DEF ClearTxer
  <2>17. CASE Unmute BY <2>17 DEF Unmute
  <2>18. CASE ReadHeader BY <2>18 DEF ReadHeader
  <2> QED BY <1>4, <2>1, <2>2, <2>3, <2>4, <2>5, <2>6, <2>7, <2>8, <2>9,
             <2>10, <2>11, <2>12, <2>13, <2>14, <2>15, <2>16, <2>17, <2>18 DEF Handler
<1>5. ASSUME NEW c \in Ctx, SendStart(c) \/ Send(c) PROVE LeftMasked \/ (isr = "pkt" /\ epktcnt = 0 /\ ~PktifExact)
  <2>1. CASE SendStart(c) BY <2>1 DEF SendStart, MaySend, MainRuns
  <2>2. CASE SendLoad(c) BY <2>2 DEF SendLoad
  <2>3. CASE SendAbort(c) BY <2>3 DEF SendAbort, SendDone
  <2>4. CASE SendReturn(c) BY <2>4 DEF SendReturn, SendDone
  <2> QED BY <1>5, <2>1, <2>2, <2>3, <2>4 DEF Send
<1> QED BY <1>0, <1>1, <1>2, <1>3, <1>4, <1>5 DEF Next

(* Only a PKTIF that announces a frame EPKTCNT does not count leaves         *)
(* interrupts off, ...                                                       *)
THEOREM PrimaskIsBracketed == Spec => PrimaskBracketed
<1>1. IInv /\ [Next]_vars
        => [LeftMasked' => LeftMasked \/ (isr = "pkt" /\ epktcnt = 0 /\ ~PktifExact)]_vars
  BY MaskStep DEF IInv
<1> QED BY DriverInvariant, <1>1, PTL DEF Spec, PrimaskBracketed

(* ... so on a chip without the erratum they are off only inside             *)
(* ENC28J60_Packet_Send and ENC28J60_Packet_Receive.                         *)
THEOREM NeverLeftMasked == PktifExact /\ Spec => []~LeftMasked
<1> SUFFICES ASSUME PktifExact PROVE Spec => []~LeftMasked
  OBVIOUS
<1>1. Init => ~LeftMasked
  BY DEF Init, LeftMasked
<1>2. IInv /\ ~LeftMasked /\ [Next]_vars => ~LeftMasked'
  <2>1. CASE UNCHANGED vars
    BY <2>1 DEF vars, LeftMasked, InCall
  <2> QED BY <2>1, MaskStep DEF IInv
<1> QED BY DriverInvariant, <1>1, <1>2, PTL DEF Spec
-----------------------------------------------------------------------------
(* ---- the register banks under the driver ------------------------------------ *)

(* The constants of the model, evaluated. *)
LEMMA SevenAccesses == Len(PhyRead) = 7
BY DEF PhyRead

LEMMA BanksOfRegisters ==
  /\ BankOf("EPKTCNT") = {0}
  /\ \A r \in {"EIR", "ESTAT", "ECON1", "EWRPT", "ETXND", "ERDPT", "ERXRDPT"} : BankOf(r) = {}
  /\ \A r : BankOf(r) \in Banks
BY DEF BankOf, Banks

LEMMA BanksOfPhy ==
  ASSUME NEW k \in 1 .. 7
  PROVE  BankOf(PhyRead[k]) \in Banks \ {{}}
BY DEF BankOf, Banks, PhyRead

(* The types, with what is a constant evaluated, before and after a step. *)
TypesSpelt ==
  /\ bsel \in Banks /\ cache \in Banks
  /\ link \in {"idle", "fresh", "clear", "set", "access"}
  /\ step \in 1 .. 8
  /\ stage \in {"test", "note", "clear", "set", "access"} /\ byte \in 0 .. 2
  /\ handler \in BOOLEAN /\ masked \in BOOLEAN

LEMMA BankTypes == (BankTypeOK <=> TypesSpelt) /\ (BankTypeOK' <=> TypesSpelt')
<1>1. 7 + 1 = 8
  OBVIOUS
<1> QED BY SevenAccesses, <1>1 DEF BankTypeOK, Commands, TypesSpelt

LEMMA BankBooted == BankInit => BankInv
<1> SUFFICES ASSUME BankInit PROVE BankInv
  OBVIOUS
<1>1. {} \in Banks
  BY DEF Banks
<1>2. step \in 1 .. 8 /\ byte \in 0 .. 2
  BY DEF BankInit
<1>3. BankTypeOK
  BY <1>1, <1>2, BankTypes DEF TypesSpelt, BankInit
<1> QED BY <1>3, SevenAccesses DEF BankInit, BankInv, AccessHits, InPhy, Commands

LEMMA InPhyIs == (InPhy <=> step <= 7) /\ (InPhy' <=> step' <= 7)
BY SevenAccesses DEF InPhy

(* The chip clears or sets bits of a bank, or neither. *)
LEMMA BankTaken ==
  ASSUME bsel \in Banks, NEW bits \in Banks, Take(bits)
  PROVE  bsel' \in Banks /\ (link # "set" => bsel' \subseteq bsel)
<1>1. CASE link = "clear"
  BY <1>1 DEF Take, Banks
<1>2. CASE link = "set"
  BY <1>2 DEF Take, Banks
<1>3. CASE link \notin {"clear", "set"}
  BY <1>3 DEF Take, Banks
<1> QED BY <1>1, <1>2, <1>3

(* Main's steps inside ENC28J60_PHY_Read, a byte at a time. *)
LEMMA BankMain ==
  ASSUME BankInv, Test \/ Select \/ Opcode \/ Data \/ Note
  PROVE  BankInv'
<1> USE DEF Commands
<1>1. /\ BankTypeOK /\ AccessHits
      /\ ~InPhy => stage = "test"
      /\ link = "fresh" => byte = 1
      /\ link \in Commands => byte = 2 /\ link = stage
      /\ stage \in {"set", "note"} \/ (cache = {} => bsel = {})
  BY DEF BankInv
<1>2. AccessHits'
  BY <1>1 DEF AccessHits, Test, Select, Opcode, Data, Note
<1>3. CASE Test
  <2>1. BankTypeOK'
    BY <1>1, <1>3, BankTypes DEF TypesSpelt, Test
  <2> QED BY <1>1, <1>2, <1>3, <2>1 DEF Test, BankInv, InPhy
<1>4. CASE Select \/ Opcode
  <2>1. BankTypeOK'
    BY <1>1, <1>4, BankTypes DEF TypesSpelt, Select, Opcode
  <2> QED BY <1>1, <1>2, <1>4, <2>1 DEF Select, Opcode, BankInv, InPhy
<1>5. CASE Data
  <2>1. step \in 1 .. 7
    BY <1>1, <1>5, BankTypes, InPhyIs DEF TypesSpelt, Data
  <2>2. BankOf(Reg) \in Banks /\ {0, 1} \in Banks
    BY <2>1, BanksOfPhy DEF Reg, Banks
  <2>3. (IF stage = "clear" THEN {0, 1} ELSE BankOf(Reg)) \in Banks
    BY <2>2
  <2>4. bsel' \in Banks /\ (link # "set" => bsel' \subseteq bsel)
    BY <1>1, <1>5, <2>3, BankTaken, BankTypes DEF TypesSpelt, Data
  <2>5. step' \in {step, step + 1} /\ (stage # "access" => step' = step)
    BY <1>5 DEF Data
  <2>6. step' \in 1 .. 8
    BY <2>1, <2>5
  <2>7. stage' \in {"set", "note", "test"}
    BY <1>5 DEF Data
  <2>8. stage = "access" => stage' = "test"
    BY <1>5 DEF Data
  <2>9. BankTypeOK'
    BY <1>1, <1>5, <2>4, <2>6, <2>7, BankTypes DEF TypesSpelt, Data
  <2>10. ~InPhy' => stage' = "test"
    BY <1>1, <1>5, <2>1, <2>5, <2>8, InPhyIs DEF Data
  <2>11. stage' \in {"set", "note"} \/ (cache' = {} => bsel' = {})
    <3>1. CASE stage = "access"
      BY <1>1, <1>5, <2>4, <3>1 DEF Data
    <3>2. CASE stage # "access"
      BY <1>5, <3>2 DEF Data
    <3> QED BY <3>1, <3>2
  <2> QED BY <1>2, <1>5, <2>9, <2>10, <2>11 DEF Data, BankInv
<1>6. CASE Note
  <2>1. step \in 1 .. 7
    BY <1>1, <1>6, BankTypes, InPhyIs DEF TypesSpelt, Note
  <2>2. BankOf(Reg) \in Banks \ {{}}
    BY <2>1, BanksOfPhy DEF Reg
  <2>3. BankTypeOK'
    BY <1>1, <1>6, <2>2, BankTypes DEF TypesSpelt, Note
  <2> QED BY <1>1, <1>2, <1>6, <2>2, <2>3 DEF Note, BankInv, InPhy
<1> QED BY <1>3, <1>4, <1>5, <1>6

(* Where the handler cuts in. *)
LEMMA BankEnter ==
  ASSUME BankInv, Enter
  PROVE  BankInv'
<1>1. {0, 1} \in Banks
  BY DEF Banks
<1>2. bsel' \in Banks /\ (link # "set" => bsel' \subseteq bsel)
  BY <1>1, BankTaken, BankTypes DEF TypesSpelt, Enter, BankInv
<1>3. BankTypeOK'
  BY <1>2, BankTypes DEF TypesSpelt, Enter, BankInv, place
<1>4. stage \in {"set", "note"} \/ (cache = {} => bsel' = {})
  <2>1. CASE link = "set"
    BY <2>1 DEF BankInv, Commands
  <2>2. CASE link # "set"
    BY <1>2, <2>2 DEF BankInv
  <2> QED BY <2>1, <2>2
<1> QED BY <1>3, <1>4 DEF Enter, BankInv, place, AccessHits, InPhy, Commands

(* A send, when main is through with ENC28J60_PHY_Read: its registers are    *)
(* all in bank 0, and that is selected if the cache says so.                 *)
LEMMA BankSend ==
  ASSUME BankInv, PacketSend
  PROVE  BankInv'
<1>1. cache = {} => bsel = {}
  BY DEF PacketSend, BankInv
<1>2. Len(SendRegs) = 4 /\ \A k \in 1 .. 4 : BankOf(SendRegs[k]) = {}
  BY BanksOfRegisters DEF SendRegs
<1>3. ASSUME NEW k \in 1 .. 4 PROVE BankAt(SendRegs, k) = {}
  <2>1. CASE cache = {}
    BY <1>1, <1>2, <2>1 DEF BankAt
  <2>2. CASE cache # {}
    <3>1. 1 \in 1 .. k /\ Cached(SendRegs, 1) = cache
      BY DEF Cached
    <3> QED BY <1>2, <2>2, <3>1 DEF BankAt
  <2> QED BY <2>1, <2>2
<1>4. DOMAIN SendRegs = 1 .. 4 /\ 4 \in 1 .. 4
  BY DEF SendRegs
<1>5. bsel' = {} /\ cache' = {} /\ missed' = missed
  BY <1>2, <1>3, <1>4 DEF PacketSend, Uninterrupted, Misses
<1>6. {} \in Banks
  BY DEF Banks
<1>7. BankTypeOK'
  BY <1>5, <1>6, BankTypes DEF TypesSpelt, PacketSend, BankInv, place
<1> QED BY <1>5, <1>7 DEF PacketSend, BankInv, place, AccessHits, InPhy, Commands

(* What the handler accesses after EIR: nothing, or EPKTCNT first. *)
Registers == {"EIR", "EPKTCNT", "ESTAT", "ERDPT", "ERXRDPT", "ECON1", "EWRPT", "ETXND"}

Asked == {s \in Seq(Registers) : Len(s) > 0 => s[1] = "EPKTCNT"}

LEMMA AskedTogether ==
  ASSUME NEW s \in Asked, NEW t \in Asked
  PROVE  s \o t \in Asked
<1>1. s \in Seq(Registers) /\ t \in Seq(Registers)
  BY DEF Asked
<1>2. s \o t \in Seq(Registers) /\ Len(s \o t) = Len(s) + Len(t)
  BY <1>1
<1>3. ASSUME Len(s \o t) > 0 PROVE (s \o t)[1] = "EPKTCNT"
  <2>1. CASE Len(s) > 0
    <3>1. (s \o t)[1] = s[1]
      BY <1>1, <2>1
    <3> QED BY <2>1, <3>1 DEF Asked
  <2>2. CASE Len(s) = 0
    <3>1. (s \o t)[1] = t[1] /\ Len(t) > 0
      BY <1>1, <1>2, <1>3, <2>2
    <3> QED BY <3>1 DEF Asked
  <2>3. Len(s) > 0 \/ Len(s) = 0
    BY <1>1
  <2> QED BY <2>1, <2>2, <2>3
<1> QED BY <1>2, <1>3 DEF Asked

(* However main and the handler left the bank and the cache, EIR is in every *)
(* bank, EPKTCNT in none of those before it, and from then on the cache is   *)
(* right.                                                                    *)
LEMMA AskingSettles ==
  ASSUME NEW s \in Asked, cache \in Banks, bsel \in Banks, Uninterrupted(<<"EIR">> \o s)
  PROVE  /\ missed' = missed /\ bsel' \in Banks /\ cache' \in Banks
         /\ (cache = {} => bsel = {}) => (cache' = {} => bsel' = {})
<1> DEFINE regs == <<"EIR">> \o s
<1>1. /\ Len(regs) \in Nat /\ Len(regs) >= 1 /\ DOMAIN regs = 1 .. Len(regs)
      /\ regs[1] = "EIR" /\ (Len(regs) > 1 => regs[2] = "EPKTCNT")
  <2>1. s \in Seq(Registers) /\ <<"EIR">> \in Seq(Registers) /\ Len(<<"EIR">>) = 1
    BY DEF Asked, Registers
  <2>2. /\ Len(regs) = 1 + Len(s) /\ DOMAIN regs = 1 .. Len(regs) /\ regs[1] = "EIR"
        /\ Len(s) > 0 => regs[2] = s[1]
    BY <2>1
  <2> QED BY <2>1, <2>2 DEF Asked
<1> HIDE DEF regs
<1>2. /\ bsel' = BankAt(regs, Len(regs)) /\ cache' = BankOf(regs[Len(regs)])
      /\ missed' = missed \cup {regs[k] : k \in {j \in DOMAIN regs : Misses(regs, j)}}
  BY DEF Uninterrupted, regs
<1>3. ASSUME NEW k \in 1 .. Len(regs), k > 1 PROVE BankAt(regs, k) = BankOf(regs[k])
  <2>1. 2 \in 1 .. k /\ Len(regs) > 1
    BY <1>1, <1>3
  <2>2. Cached(regs, 2) = {} /\ BankOf(regs[2]) = {0}
    BY <1>1, <2>1, BanksOfRegisters DEF Cached
  <2> QED BY <2>1, <2>2 DEF BankAt
<1>4. \A k \in DOMAIN regs : ~Misses(regs, k)
  <2> SUFFICES ASSUME NEW k \in DOMAIN regs PROVE ~Misses(regs, k)
    OBVIOUS
  <2>1. CASE k = 1
    BY <1>1, <2>1 DEF Misses, Common
  <2>2. CASE k # 1
    BY <1>1, <1>3, <2>2 DEF Misses
  <2> QED BY <2>1, <2>2
<1>5. missed' = missed
  BY <1>2, <1>4
<1>6. cache' \in Banks
  BY <1>1, <1>2, BanksOfRegisters
<1>7. CASE Len(regs) > 1
  BY <1>1, <1>2, <1>3, <1>5, <1>6, <1>7
<1>8. CASE Len(regs) = 1
  <2>1. BankOf(regs[1]) = {} /\ Cached(regs, 1) = cache
    BY <1>1, BanksOfRegisters DEF Cached
  <2>2. bsel' = IF cache # {} THEN {} ELSE bsel
    BY <1>2, <1>8, <2>1 DEF BankAt
  <2>3. {} \in Banks
    BY DEF Banks
  <2> QED BY <1>5, <1>6, <2>2, <2>3
<1> QED BY <1>1, <1>7, <1>8

LEMMA BankRound ==
  ASSUME BankInv, Round
  PROVE  BankInv'
<1>1. << >> \in Asked /\ NoFrameRegs \in Asked /\ ReceiveRegs \in Asked /\ ErrorRegs \in Asked
  <2>1. /\ << >> \in Seq(Registers) /\ NoFrameRegs \in Seq(Registers)
        /\ ReceiveRegs \in Seq(Registers) /\ ErrorRegs \in Seq(Registers)
    BY DEF Registers, NoFrameRegs, ReceiveRegs, ErrorRegs
  <2>2. /\ Len(<< >>) = 0 /\ NoFrameRegs[1] = "EPKTCNT"
        /\ ReceiveRegs[1] = "EPKTCNT" /\ ErrorRegs[1] = "EPKTCNT"
    BY DEF NoFrameRegs, ReceiveRegs, ErrorRegs
  <2> QED BY <2>1, <2>2 DEF Asked
<1>2. ReceiveRegs \o SendRegs \in Asked
  <2>1. ReceiveRegs \in Seq(Registers) /\ SendRegs \in Seq(Registers)
    BY DEF Registers, ReceiveRegs, SendRegs
  <2>2. ReceiveRegs[1] = "EPKTCNT" /\ Len(ReceiveRegs) = 4
    BY DEF ReceiveRegs
  <2>3. /\ ReceiveRegs \o SendRegs \in Seq(Registers)
        /\ (ReceiveRegs \o SendRegs)[1] = ReceiveRegs[1]
    <3>1. \A s, t \in Seq(Registers) : Len(s) > 0 => s \o t \in Seq(Registers) /\ (s \o t)[1] = s[1]
      OBVIOUS
    <3> QED BY <2>1, <2>2, <3>1
  <2> QED BY <2>2, <2>3 DEF Asked
<1>3. PICK received \in Asked, error \in Asked :
        /\ Uninterrupted(<<"EIR">> \o received \o error)
        /\ masked' \in BOOLEAN
  BY <1>1, <1>2, BankTypes DEF TypesSpelt, Round, BankInv
<1>4. received \o error \in Asked
  BY AskedTogether
<1>5. <<"EIR">> \o received \o error = <<"EIR">> \o (received \o error)
  BY DEF Asked
<1>6. /\ missed' = missed /\ bsel' \in Banks /\ cache' \in Banks
      /\ (cache = {} => bsel = {}) => (cache' = {} => bsel' = {})
  BY <1>3, <1>4, <1>5, AskingSettles, BankTypes DEF TypesSpelt, BankInv
<1>7. BankTypeOK'
  BY <1>3, <1>6, BankTypes DEF TypesSpelt, Round, BankInv, place
<1> QED BY <1>6, <1>7 DEF Round, BankInv, place, AccessHits, InPhy, Commands

(* The inductive invariant of the bank and its cache. *)
THEOREM BankInvariant == BankSpec => []BankInv
<1>1. ASSUME BankInv, [BankNext]_bankVars PROVE BankInv'
  <2>1. CASE Leave
    <3>1. BankTypeOK'
      BY <1>1, <2>1, BankTypes DEF TypesSpelt, Leave, BankInv, place
    <3> QED BY <1>1, <2>1, <3>1 DEF Leave, BankInv, place, AccessHits, InPhy
  <2>2. CASE UNCHANGED bankVars
    <3>1. BankTypeOK'
      BY <1>1, <2>2, BankTypes DEF TypesSpelt, bankVars, place, BankInv
    <3> QED BY <1>1, <2>2, <3>1 DEF bankVars, place, BankInv, AccessHits, InPhy
  <2> QED BY <1>1, <2>1, <2>2, BankMain, BankEnter, BankSend, BankRound DEF BankNext
<1> QED BY BankBooted, <1>1, PTL DEF BankSpec

(* The bank, the cache and the place of main keep their types. *)
THEOREM BankTypeCorrect == BankSpec => []BankTypeOK
<1>1. BankInv => BankTypeOK
  BY DEF BankInv
<1> QED BY BankInvariant, <1>1, PTL

(* No access of the handler or of a send falls into another bank, whatever   *)
(* byte of main's bank switch the handler cut into.                          *)
THEOREM AccessesHit == BankSpec => []AccessHits
<1>1. BankInv => AccessHits
  BY DEF BankInv
<1> QED BY BankInvariant, <1>1, PTL
=============================================================================
