----------------------------- MODULE ClockProofs -----------------------------
(***************************************************************************)
(* Proofs about Clock for all intervals, lengths of delays and widths of   *)
(* lwip_localtime: no timer fires early, and no delay of the main loop is  *)
(* cut short or goes on for ever.  The inductive invariant is IInv.        *)
(***************************************************************************)
EXTENDS Clock, TLAPS

(* The remainder of a number that is at least 0 and below the divisor. *)
LEMMA ModSmall ==
  ASSUME NEW w \in Nat \ {0}, NEW a \in Int, a < w, a >= 0
  PROVE  a % w = a
  OBVIOUS

(* The remainder of a negative number that is no less than -w. *)
LEMMA ModNeg ==
  ASSUME NEW w \in Nat \ {0}, NEW a \in Int, a < 0, a >= -w
  PROVE  a % w = a + w
  OBVIOUS

(* What the assumption says of each constant, apart from the sequence. *)
LEMMA Constants ==
  /\ Wrap \in Nat \ {0} /\ MotorDelay \in Nat \ {0} /\ Delays \subseteq 1 .. MotorDelay
  /\ Longest \in Nat /\ Longest >= 3 * MotorDelay
  /\ 1 \in Timers /\ Intervals \in [Timers -> 1 .. Wrap - 1]
<1>1. Len(Intervals) \in Nat /\ Len(Intervals) # 0 /\ Timers = 1 .. Len(Intervals)
  BY ClockAssumption DEF Timers
<1>2. 1 \in Timers /\ Intervals \in [Timers -> 1 .. Wrap - 1]
  BY <1>1, ClockAssumption
<1>3. Intervals[1] \in 1 .. Wrap - 1
  BY <1>2
<1> QED BY <1>2, <1>3, ClockAssumption

(* The numbers a delay of the main loop may be. *)
LEMMA DelayRange ==
  ASSUME NEW d \in Delays PROVE d \in 1 .. MotorDelay
  BY Constants

(* The age of a stamp, in updates counted: it is below Wrap, and an update   *)
(* adds one or takes it back to 0.                                           *)
LEMMA AgeStep ==
  ASSUME NEW now \in 0 .. Wrap - 1, NEW stamp \in 0 .. Wrap - 1
  PROVE  /\ (now + 1) % Wrap \in 0 .. Wrap - 1
         /\ (now - stamp) % Wrap \in 0 .. Wrap - 1
         /\ (((now + 1) % Wrap) - stamp) % Wrap <= ((now - stamp) % Wrap) + 1
<1> Wrap \in Nat \ {0}
  BY Constants
<1>1. (now - stamp) % Wrap = IF now >= stamp THEN now - stamp ELSE now - stamp + Wrap
  BY ModSmall, ModNeg
<1>2. CASE now < Wrap - 1
  <2>1. (now + 1) % Wrap = now + 1
    BY <1>2, ModSmall
  <2>2. (now + 1 - stamp) % Wrap =
          IF now + 1 >= stamp THEN now + 1 - stamp ELSE now + 1 - stamp + Wrap
    BY <1>2, ModSmall, ModNeg
  <2> QED BY <1>1, <1>2, <2>1, <2>2
<1>3. CASE now = Wrap - 1
  <2>1. (now + 1) % Wrap = 0
    BY <1>3
  <2>2. (0 - stamp) % Wrap = IF stamp = 0 THEN 0 ELSE Wrap - stamp
    BY ModSmall, ModNeg
  <2> QED BY <1>1, <1>3, <2>1, <2>2
<1> QED BY <1>2, <1>3
-----------------------------------------------------------------------------
(* The invariant holds at the start. *)
LEMMA InitInv == Init => IInv
<1> SUFFICES ASSUME Init PROVE IInv
  OBVIOUS
<1>1. \A t \in Timers : (localtime - last[t]) % Wrap = 0
  BY Constants, ModSmall DEF Init
<1>2. TypeOK
  <2>1. /\ 0 \in 0 .. Wrap - 1 /\ 0 \in 0 .. MotorDelay /\ 0 \in 0 .. Longest
        /\ 0 \in Delays \cup {0} /\ 1 \in Timers
    BY Constants
  <2> QED BY <2>1 DEF Init, TypeOK
<1>3. CountsBehind
  BY <1>1 DEF Init, CountsBehind
<1> QED BY <1>2, <1>3 DEF Init, IInv, NeverEarly, SysTickSet, Paid, InDelay

(* Counting down takes the wait nearer to its end, by no more than a unit. *)
LEMMA CountStep ==
  ASSUME TypeOK, Count
  PROVE  /\ val' \in 0 .. MotorDelay /\ flag' \in BOOLEAN
         /\ load' = load /\ enable' = enable
         /\ Left \in 0 .. MotorDelay /\ Left' \in 0 .. MotorDelay
         /\ Left' <= Left /\ Left' >= Left - 1
         /\ ~Over => Left' = Left - 1 \/ Left = 0
         /\ ~enable => val' = val
<1> DEFINE n == IF val = 0 THEN load ELSE val
<1>0. /\ n \in 0 .. MotorDelay /\ val \in 0 .. MotorDelay /\ load \in 0 .. MotorDelay
      /\ MotorDelay \in Nat
  BY Constants DEF TypeOK
<1>1. CASE enable /\ n > 0
  <2>1. val' = n - 1 /\ load' = load /\ enable' = enable
    BY <1>1 DEF Count
  <2>2. flag' \in BOOLEAN /\ (flag' <=> flag \/ n = 1)
    BY <1>1 DEF Count
  <2>3. Left = IF flag THEN 0 ELSE n
    BY <1>1 DEF Left, Over
  <2>4. Left' = IF flag' THEN 0 ELSE IF val' = 0 THEN load' ELSE val'
    BY <1>1, <2>1 DEF Left, Over
  <2>5. CASE flag \/ n = 1
    BY <1>0, <1>1, <2>1, <2>2, <2>3, <2>4, <2>5 DEF Over
  <2>6. CASE ~flag /\ n # 1
    BY <1>0, <1>1, <2>1, <2>2, <2>3, <2>4, <2>6 DEF Over
  <2> QED BY <2>5, <2>6
<1>2. CASE ~(enable /\ n > 0)
  <2>1. UNCHANGED <<load, val, enable, flag>>
    BY <1>2 DEF Count, systick
  <2>2. Left = 0 /\ Left' = Left
    BY <1>0, <1>2, <2>1 DEF Left, Over
  <2> QED BY <1>0, <2>1, <2>2 DEF TypeOK
<1> QED BY <1>1, <1>2

(* A unit that passes is paid for by the wait or by the round's extra unit. *)
LEMMA Spend ==
  ASSUME NEW e \in Nat, NEW f \in Nat, NEW l \in Nat, NEW m \in Nat,
         NEW x \in {0, 1}, NEW y \in {0, 1}, NEW b \in Int,
         f <= e + 1, m <= l, (m = l - 1 /\ y = x) \/ (x = 0 /\ y = 1),
         e + l <= b + x
  PROVE  f + m <= b + y
  OBVIOUS

(* What a wait has lasted and still lasts does not shrink. *)
LEMMA Keep ==
  ASSUME NEW e \in Nat, NEW f \in Nat, NEW l \in Nat, NEW m \in Nat, NEW w \in Nat,
         f >= e, f = e + 1 \/ f >= w, m >= l - 1, m <= l, e + l >= w
  PROVE  f + m >= w
  OBVIOUS

(* An update of TIM3, and what the two kinds of it mean for the ages. *)
LEMMA PassInv == IInv /\ Pass => IInv'
<1> SUFFICES ASSUME IInv, Pass PROVE IInv'
  OBVIOUS
<1> USE DEF IInv
<1>0. /\ UNCHANGED <<last, pc, timer, want, after, demo, motor, elengine_wyx>>
      /\ spent \in BOOLEAN /\ spent' \in BOOLEAN
      /\ elapsed' = Capped(elapsed, Longest) /\ Count
      /\ since' = [t \in Timers |-> Capped(since[t], Intervals[t])]
  BY DEF Pass, main, TypeOK
<1>1. \A t \in Timers : /\ since'[t] \in Nat
                        /\ since'[t] >= Intervals[t] \/ since'[t] = since[t] + 1
                        /\ since[t] >= Intervals[t] => since'[t] >= Intervals[t]
  BY <1>0, Constants DEF Capped, TypeOK
<1>2. elapsed' \in 0 .. Longest /\ elapsed' <= elapsed + 1
      /\ (elapsed' = elapsed + 1 \/ elapsed' = Longest) /\ elapsed' >= elapsed
  BY <1>0, Constants DEF Capped, TypeOK
<1>3. TypeOK'
  <2>1. localtime' \in 0 .. Wrap - 1 /\ pend' \in BOOLEAN
    BY AgeStep, Constants DEF Pass, Update, TypeOK
  <2> QED BY <1>0, <1>1, <1>2, <2>1, CountStep DEF TypeOK, InDelay
<1>4. CountsBehind'
  <2> SUFFICES ASSUME NEW t \in Timers, ~(since'[t] >= Intervals[t])
               PROVE  ((localtime' - last[t]) % Wrap) + (IF pend' THEN 1 ELSE 0) <= since'[t]
    BY <1>0 DEF CountsBehind
  <2>1. /\ since'[t] = since[t] + 1 /\ since[t] \in Nat
        /\ ((localtime - last[t]) % Wrap) + (IF pend THEN 1 ELSE 0) <= since[t]
    BY <1>1 DEF CountsBehind, TypeOK
  <2>2. last[t] \in 0 .. Wrap - 1 /\ localtime \in 0 .. Wrap - 1
    BY DEF TypeOK
  <2>3. (localtime - last[t]) % Wrap \in 0 .. Wrap - 1
    BY <2>2, AgeStep
  <2>4. CASE motor
    BY <2>1, <2>3, <2>4, Constants DEF Pass
  <2>5. CASE ~motor
    <3>1. ~pend' /\ localtime' = (localtime + 1) % Wrap
      BY <2>5 DEF Pass, Update
    <3>2. ((localtime' - last[t]) % Wrap) <= ((localtime - last[t]) % Wrap) + 1
      BY <2>2, <3>1, AgeStep
    <3>3. localtime' \in 0 .. Wrap - 1
      BY <2>2, <3>1, AgeStep
    <3>4. (localtime' - last[t]) % Wrap \in 0 .. Wrap - 1
      BY <2>2, <3>3, AgeStep
    <3> QED BY <2>1, <2>3, <3>1, <3>2, <3>4, Constants
  <2> QED BY <2>4, <2>5
<1>5. NeverEarly'
  BY <1>0, <1>1 DEF NeverEarly, TypeOK
<1>6. SysTickSet'
  BY <1>0, CountStep DEF SysTickSet, InDelay
<1>7. Paid'
  <2>1. /\ elapsed \in 0 .. Longest /\ want \in Int /\ MotorDelay \in Nat
        /\ Longest \in Nat /\ Longest >= 3 * MotorDelay
    BY Constants, DelayRange DEF TypeOK
  <2>2. \/ ~Over /\ (motor \/ pc = "wait") /\ spent' = spent
        \/ ~spent /\ spent'
    BY DEF Pass
  <2>3. InDelay => want \in 1 .. MotorDelay
    BY DelayRange DEF SysTickSet
  <2>4. (motor \/ pc = "wait") /\ ~Over => Left >= 1
    BY <2>3, Constants DEF SysTickSet, Left, Over, TypeOK, InDelay
  <2> DEFINE extra == IF spent THEN 1 ELSE 0
             grown == IF spent' THEN 1 ELSE 0
             motors == IF elengine_wyx THEN 0 ELSE MotorDelay
             top == IF elengine_wyx THEN want ELSE 2 * MotorDelay
  <2>5. /\ Left \in Nat /\ Left' \in Nat /\ Left' <= Left /\ Left' >= Left - 1
        /\ ~Over => Left' = Left - 1 \/ Left = 0
    BY <1>0, <2>1, CountStep
  <2>6. \/ (motor \/ pc = "wait") /\ Left' = Left - 1 /\ grown = extra
        \/ extra = 0 /\ grown = 1
    <3>1. CASE ~Over /\ (motor \/ pc = "wait") /\ spent' = spent
      <4>1. Left >= 1
        BY <2>4, <3>1
      <4>2. Left' = Left - 1
        BY <2>5, <3>1, <4>1
      <4> QED BY <3>1, <4>2
    <3>2. CASE ~spent /\ spent'
      BY <3>2
    <3> QED BY <2>2, <3>1, <3>2
  <2>7. /\ elapsed \in Nat /\ elapsed' \in Nat /\ extra \in {0, 1} /\ grown \in {0, 1}
        /\ motors \in Int /\ top \in Int /\ want \in Int
    BY <1>0, <1>2, <2>1
  <2> HIDE DEF extra, grown, motors, top
  <2>8. ASSUME NEW b \in Int, motor \/ pc = "wait", elapsed + Left <= b + extra
        PROVE  elapsed' + Left' <= b + grown
    BY <1>2, <2>5, <2>6, <2>7, <2>8, Spend
  <2>9. ASSUME NEW b \in Int, ~motor, pc # "wait", elapsed <= b + extra
        PROVE  elapsed' <= b + grown
    BY <1>2, <2>6, <2>7, <2>9
  <2>10. /\ pc \in {"load", "val", "enable"} =>
              (IF motor THEN elapsed + Left ELSE elapsed) <= motors + extra
         /\ pc = "wait" /\ motor  => elapsed + Left <= want + MotorDelay + extra
         /\ pc = "wait" /\ ~motor => elapsed + Left <= top + extra
         /\ pc = "wait" => elapsed + Left >= want
         /\ pc \in {"stop", "clear"} =>
              /\ elapsed >= want
              /\ (IF motor THEN elapsed + Left ELSE elapsed) <= top + extra
    BY DEF Paid, extra, motors, top
  <2>11. pc \in {"load", "val", "enable"} =>
           (IF motor THEN elapsed' + Left' ELSE elapsed') <= motors + grown
    <3>1. CASE motor
      BY <2>7, <2>8, <2>10, <3>1
    <3>2. CASE ~motor
      <4>1. pc \in {"load", "val", "enable"} => elapsed <= motors + extra
        BY <2>7, <2>10, <3>2
      <4>2. pc \in {"load", "val", "enable"} => elapsed' <= motors + grown
        BY <2>7, <2>9, <3>2, <4>1
      <4> QED BY <3>2, <4>2
    <3> QED BY <3>1, <3>2
  <2>12. pc = "wait" /\ motor => elapsed' + Left' <= want + MotorDelay + grown
    <3> want + MotorDelay \in Int
      BY <2>1, <2>7
    <3> QED BY <2>8, <2>10
  <2>13. pc = "wait" /\ ~motor => elapsed' + Left' <= top + grown
    BY <2>7, <2>8, <2>10
  <2>14. InDelay => want \in Nat /\ (elapsed' = elapsed + 1 \/ elapsed' >= want)
    BY <1>2, <2>1, <2>3
  <2>15. pc = "wait" => elapsed' + Left' >= want
    BY <1>2, <2>5, <2>7, <2>10, <2>14, Keep DEF InDelay
  <2>16. pc \in {"stop", "clear"} =>
           elapsed' >= want /\ (IF motor THEN elapsed' + Left' ELSE elapsed') <= top + grown
    <3>1. pc \in {"stop", "clear"} => elapsed' >= want
      BY <1>2, <2>7, <2>10
    <3>2. CASE motor
      BY <2>7, <2>8, <2>10, <3>1, <3>2
    <3>3. CASE ~motor
      <4>1. pc \in {"stop", "clear"} => elapsed <= top + extra
        BY <2>7, <2>10, <3>3
      <4>2. pc \in {"stop", "clear"} => elapsed' <= top + grown
        BY <2>7, <2>9, <3>3, <4>1
      <4> QED BY <3>1, <3>3, <4>2
    <3> QED BY <3>2, <3>3
  <2> QED BY <1>0, <2>11, <2>12, <2>13, <2>15, <2>16 DEF Paid, extra, grown, motors, top
<1> QED BY <1>3, <1>4, <1>5, <1>6, <1>7
(* The update that EXTI1 held up: the clock catches up by one. *)
LEMMA PendedInv == IInv /\ Pended => IInv'
<1> SUFFICES ASSUME IInv, Pended PROVE IInv'
  OBVIOUS
<1>0. /\ pend /\ ~motor /\ ~pend' /\ pend' \in BOOLEAN /\ localtime' = (localtime + 1) % Wrap
      /\ UNCHANGED <<last, load, val, enable, flag, pc, timer, want, after, demo,
                     motor, elengine_wyx, spent, since, elapsed>>
  BY DEF Pended, Update, main, systick
<1>1. localtime \in 0 .. Wrap - 1 /\ last \in [Timers -> 0 .. Wrap - 1]
      /\ localtime' \in 0 .. Wrap - 1
  <2>1. localtime \in 0 .. Wrap - 1 /\ last \in [Timers -> 0 .. Wrap - 1]
    BY DEF IInv, TypeOK
  <2>2. (localtime + 1) % Wrap \in 0 .. Wrap - 1
    BY <2>1, AgeStep
  <2> QED BY <1>0, <2>1, <2>2
<1>2. TypeOK'
  BY <1>0, <1>1 DEF IInv, TypeOK, InDelay
<1>3. CountsBehind'
  <2> SUFFICES ASSUME NEW t \in Timers, ~(since[t] >= Intervals[t])
               PROVE  ((localtime' - last[t]) % Wrap) + 0 <= since[t]
    BY <1>0 DEF CountsBehind
  <2>1. ((localtime - last[t]) % Wrap) + 1 <= since[t] /\ since[t] \in Nat
    BY <1>0 DEF IInv, CountsBehind, TypeOK
  <2>2. /\ ((localtime' - last[t]) % Wrap) <= ((localtime - last[t]) % Wrap) + 1
        /\ (localtime - last[t]) % Wrap \in 0 .. Wrap - 1
    BY <1>0, <1>1, AgeStep
  <2>3. (localtime' - last[t]) % Wrap \in 0 .. Wrap - 1
    BY <1>1, AgeStep
  <2> QED BY <2>1, <2>2, <2>3, Constants
<1>4. NeverEarly' /\ SysTickSet'
  BY <1>0 DEF IInv, NeverEarly, SysTickSet, InDelay
<1>5. Paid'
  <2>1. Left' = Left
    BY <1>0 DEF Left, Over
  <2> QED BY <1>0, <2>1 DEF IInv, Paid
<1> QED BY <1>2, <1>3, <1>4, <1>5 DEF IInv

(* EXTI1 takes SysTick over: the delay of main may grow by the motor's run.  *)
LEMMA MotorOnInv == IInv /\ MotorOn => IInv'
<1> SUFFICES ASSUME IInv, MotorOn PROVE IInv'
  OBVIOUS
<1>0. /\ ~motor /\ motor' /\ elengine_wyx /\ ~elengine_wyx' /\ load' = MotorDelay
      /\ val' = 0 /\ ~flag' /\ enable' /\ flag' \in BOOLEAN /\ enable' \in BOOLEAN
      /\ motor' \in BOOLEAN /\ elengine_wyx' \in BOOLEAN
      /\ UNCHANGED <<localtime, pend, last, pc, timer, want, after, demo,
                     spent, since, elapsed>>
  BY DEF MotorOn, main
<1>1. MotorDelay \in Nat \ {0} /\ 0 \in 0 .. MotorDelay /\ MotorDelay \in 0 .. MotorDelay
  BY Constants
<1>2. TypeOK'
  BY <1>0, <1>1 DEF IInv, TypeOK, InDelay
<1>3. CountsBehind' /\ NeverEarly' /\ SysTickSet'
  BY <1>0 DEF IInv, CountsBehind, NeverEarly, SysTickSet, InDelay
<1>4. Paid'
  <2> DEFINE extra == IF spent THEN 1 ELSE 0
  <2>1. Left' = MotorDelay
    BY <1>0 DEF Left, Over
  <2>2. elapsed \in Nat /\ extra \in {0, 1} /\ Left \in Nat
    BY <1>1, Constants DEF IInv, TypeOK, Left
  <2>3. InDelay => want \in 1 .. MotorDelay
    BY DelayRange DEF IInv, SysTickSet
  <2> HIDE DEF extra
  <2>4. /\ pc \in {"load", "val", "enable"} => elapsed <= 0 + extra
        /\ pc = "wait" => elapsed + Left <= want + extra
        /\ pc \in {"stop", "clear"} => elapsed >= want /\ elapsed <= want + extra
    BY <1>0 DEF IInv, Paid, extra
  <2>5. pc \in {"load", "val", "enable"} => elapsed + MotorDelay <= MotorDelay + extra
    BY <1>1, <2>2, <2>4
  <2>6. pc = "wait" => /\ elapsed + MotorDelay <= want + MotorDelay + extra
                       /\ elapsed + MotorDelay >= want
    BY <1>1, <2>2, <2>3, <2>4 DEF InDelay
  <2>7. pc \in {"stop", "clear"} => elapsed + MotorDelay <= 2 * MotorDelay + extra
    BY <1>1, <2>2, <2>3, <2>4 DEF InDelay
  <2> QED BY <1>0, <2>1, <2>4, <2>5, <2>6, <2>7 DEF Paid, extra
<1> QED BY <1>2, <1>3, <1>4 DEF IInv

(* EXTI1 gives SysTick back, stopped: a wait of main is over. *)
LEMMA MotorOffInv == IInv /\ MotorOff => IInv'
<1> SUFFICES ASSUME IInv, MotorOff PROVE IInv'
  OBVIOUS
<1>0. /\ motor /\ Over /\ ~motor' /\ ~enable' /\ val' = 0 /\ ~flag'
      /\ flag' \in BOOLEAN /\ enable' \in BOOLEAN /\ motor' \in BOOLEAN
      /\ UNCHANGED <<localtime, pend, last, load, pc, timer, want, after, demo,
                     elengine_wyx, spent, since, elapsed>>
  BY DEF MotorOff, main
<1>1. MotorDelay \in Nat \ {0} /\ 0 \in 0 .. MotorDelay /\ ~elengine_wyx
  BY <1>0, Constants DEF IInv, SysTickSet
<1>2. TypeOK'
  BY <1>0, <1>1 DEF IInv, TypeOK, InDelay
<1>3. CountsBehind' /\ NeverEarly' /\ SysTickSet'
  BY <1>0, <1>1 DEF IInv, CountsBehind, NeverEarly, SysTickSet, InDelay
<1>4. Paid'
  <2> DEFINE extra == IF spent THEN 1 ELSE 0
  <2>1. Left' = 0 /\ Left = 0
    BY <1>0 DEF Left, Over
  <2>2. elapsed \in Nat /\ extra \in {0, 1} /\ elapsed + 0 = elapsed
    BY Constants DEF IInv, TypeOK
  <2>3. InDelay => want \in 1 .. MotorDelay
    BY DelayRange DEF IInv, SysTickSet
  <2> HIDE DEF extra
  <2>4. /\ pc \in {"load", "val", "enable"} => elapsed + 0 <= MotorDelay + extra
        /\ pc = "wait" => elapsed + 0 <= want + MotorDelay + extra /\ elapsed + 0 >= want
        /\ pc \in {"stop", "clear"} =>
             elapsed >= want /\ elapsed + 0 <= 2 * MotorDelay + extra
    BY <1>0, <1>1, <2>1 DEF IInv, Paid, extra
  <2>5. pc = "wait" => elapsed + 0 <= 2 * MotorDelay + extra
    BY <1>1, <2>2, <2>3, <2>4 DEF InDelay
  <2> QED BY <1>0, <1>1, <2>1, <2>2, <2>4, <2>5 DEF Paid, extra
<1> QED BY <1>2, <1>3, <1>4 DEF IInv
(* A delay of main begins with SysTick as it is: stopped.                    *)
LEMMA DelayBegins ==
  ASSUME IInv, ~motor, ~motor', pc \notin {"wait", "stop"}, enable' = enable,
         pc' \in {"load", "test", "round"}, pc' = "load" => want' \in Delays,
         elapsed' = 0 \/ pc' # "load", spent' \in BOOLEAN, elengine_wyx' \in BOOLEAN
  PROVE  SysTickSet' /\ Paid'
<1>1. MotorDelay \in Nat \ {0}
  BY Constants
<1>2. SysTickSet'
  BY DEF IInv, SysTickSet, InDelay
<1>3. pc' = "load" => elapsed' <= (IF elengine_wyx' THEN 0 ELSE MotorDelay)
                                  + (IF spent' THEN 1 ELSE 0)
  BY <1>1
<1>4. Paid'
  BY <1>3 DEF Paid
<1> QED BY <1>2, <1>4

(* A new round begins: its unit is there again. *)
LEMMA RoundInv == IInv /\ Round => IInv'
<1> SUFFICES ASSUME IInv, Round PROVE IInv'
  OBVIOUS
<1>0. /\ ~motor /\ pc = "round" /\ ~spent' /\ elapsed' = 0 /\ timer' = 1
      /\ demo' \in BOOLEAN /\ elengine_wyx' \in BOOLEAN /\ spent' \in BOOLEAN
      /\ UNCHANGED <<localtime, pend, last, load, val, enable, flag, motor, since>>
      /\ pc' \in {"load", "test"} /\ after' \in {"round", "test"}
      /\ pc' = "load" => want' \in Delays
      /\ want' \in Delays \cup {0}
  BY DEF Round, MainRuns, Delay, systick, IInv, TypeOK
<1>1. TypeOK'
  BY <1>0, Constants DEF IInv, TypeOK, InDelay
<1>2. CountsBehind' /\ NeverEarly'
  BY <1>0 DEF IInv, CountsBehind, NeverEarly
<1> QED BY <1>0, <1>1, <1>2, DelayBegins DEF IInv

(* After a timer comes the next one, or the delay that ends the round. *)
LEMMA NextTimerStep ==
  ASSUME IInv, NextTimer
  PROVE  /\ pc' \in {"load", "test"} /\ timer' \in Timers
         /\ pc' = "load" => want' \in Delays /\ elapsed' = 0
         /\ want' \in Delays \cup {0} /\ after' \in {"round", "test"}
         /\ elapsed' \in 0 .. Longest
<1>0. timer \in Timers /\ Timers = 1 .. Len(Intervals) /\ Len(Intervals) \in Nat
      /\ 0 \in 0 .. Longest
  BY ClockAssumption, Constants DEF IInv, TypeOK, Timers
<1>1. CASE timer = Len(Intervals)
  BY <1>0, <1>1 DEF NextTimer, Delay, IInv, TypeOK
<1>2. CASE timer # Len(Intervals)
  <2>1. timer + 1 \in Timers
    BY <1>0, <1>2
  <2> QED BY <1>2, <2>1 DEF NextTimer, IInv, TypeOK
<1> QED BY <1>1, <1>2

(* A timer that is due has waited its interval: the counted age lags behind. *)
LEMMA TimerTestInv == IInv /\ TimerTest => IInv'
<1> SUFFICES ASSUME IInv, TimerTest PROVE IInv'
  OBVIOUS
<1>0. /\ ~motor /\ pc = "test"
      /\ UNCHANGED <<localtime, pend, last, load, val, enable, flag, demo, motor,
                     elengine_wyx, spent, since>>
  BY DEF TimerTest, MainRuns, systick
<1>1. CountsBehind'
  BY <1>0 DEF IInv, CountsBehind
<1>2. CASE Due(timer)
  <2>1. pc' = "stamp" /\ UNCHANGED <<timer, want, after, elapsed>>
    BY <1>2 DEF TimerTest
  <2>2. TypeOK'
    BY <1>0, <2>1 DEF IInv, TypeOK, InDelay
  <2>3. since[timer] >= Intervals[timer]
    <3>1. /\ timer \in Timers /\ since[timer] \in Nat /\ pend \in BOOLEAN
          /\ last[timer] \in 0 .. Wrap - 1 /\ localtime \in 0 .. Wrap - 1
          /\ Intervals[timer] \in Nat
      BY Constants DEF IInv, TypeOK
    <3>2. (localtime - last[timer]) % Wrap \in Nat
      BY <3>1, AgeStep, Constants
    <3>3. \/ since[timer] >= Intervals[timer]
          \/ ((localtime - last[timer]) % Wrap) + (IF pend THEN 1 ELSE 0) <= since[timer]
      BY <3>1 DEF IInv, CountsBehind
    <3> QED BY <1>2, <3>1, <3>2, <3>3 DEF Due
  <2>4. NeverEarly'
    BY <1>0, <2>1, <2>3 DEF NeverEarly
  <2>5. SysTickSet' /\ Paid'
    BY <1>0, <2>1 DEF IInv, SysTickSet, Paid, InDelay
  <2> QED BY <1>1, <2>2, <2>4, <2>5 DEF IInv
<1>3. CASE ~Due(timer)
  <2>1. NextTimer
    BY <1>3 DEF TimerTest
  <2>2. TypeOK'
    BY <1>0, <2>1, NextTimerStep DEF IInv, TypeOK, InDelay
  <2>3. NeverEarly'
    BY <2>1, NextTimerStep DEF NeverEarly
  <2>4. SysTickSet' /\ Paid'
    BY <1>0, <2>1, NextTimerStep, DelayBegins DEF IInv, TypeOK
  <2> QED BY <1>1, <2>2, <2>3, <2>4 DEF IInv
<1> QED BY <1>2, <1>3

(* A stamp is as young as the time since it is short. *)
LEMMA TimerStampInv == IInv /\ TimerStamp => IInv'
<1> SUFFICES ASSUME IInv, TimerStamp PROVE IInv'
  OBVIOUS
<1>0. /\ ~motor /\ ~pend /\ pc = "stamp" /\ NextTimer
      /\ last' = [last EXCEPT ![timer] = localtime]
      /\ since' = [since EXCEPT ![timer] = 0]
      /\ UNCHANGED <<localtime, pend, load, val, enable, flag, demo, motor,
                     elengine_wyx, spent>>
  BY DEF TimerStamp, MainRuns, systick
<1>1. TypeOK'
  BY <1>0, NextTimerStep DEF IInv, TypeOK, InDelay
<1>2. CountsBehind'
  <2> SUFFICES ASSUME NEW t \in Timers
               PROVE  \/ since'[t] >= Intervals[t]
                      \/ ((localtime - last'[t]) % Wrap) + (IF pend' THEN 1 ELSE 0)
                           <= since'[t]
    BY <1>0 DEF CountsBehind
  <2>1. CASE t = timer
    <3>1. last'[t] = localtime /\ since'[t] = 0 /\ localtime \in 0 .. Wrap - 1
      BY <1>0, <2>1 DEF IInv, TypeOK
    <3>2. (localtime - localtime) % Wrap = 0
      BY <3>1, Constants, ModSmall
    <3> QED BY <1>0, <3>1, <3>2
  <2>2. CASE t # timer
    <3>1. last'[t] = last[t] /\ since'[t] = since[t]
      BY <1>0, <2>2 DEF IInv, TypeOK
    <3> QED BY <1>0, <3>1 DEF IInv, CountsBehind
  <2> QED BY <2>1, <2>2
<1>3. NeverEarly'
  BY <1>0, NextTimerStep DEF NeverEarly
<1>4. SysTickSet' /\ Paid'
  BY <1>0, NextTimerStep, DelayBegins DEF IInv, TypeOK
<1> QED BY <1>1, <1>2, <1>3, <1>4 DEF IInv
(* One register access of delay_ms: nothing but the place and SysTick change.*)
LEMMA DelayFrame ==
  ASSUME IInv, NEW from, NEW to, DelayStep(from, to),
         to \in {"val", "enable", "wait", "stop", "clear", "round", "test"},
         load' \in 0 .. MotorDelay, val' \in 0 .. MotorDelay,
         enable' \in BOOLEAN, flag' \in BOOLEAN
  PROVE  /\ ~motor /\ ~motor' /\ pc = from /\ pc' = to
         /\ UNCHANGED <<want, elengine_wyx, spent, elapsed, motor>>
         /\ TypeOK' /\ CountsBehind' /\ NeverEarly'
<1>0. /\ ~motor /\ pc = from /\ pc' = to
      /\ UNCHANGED <<localtime, pend, last, timer, want, after, demo, motor,
                     elengine_wyx, spent, since, elapsed>>
  BY DEF DelayStep, MainRuns
<1>1. TypeOK'
  BY <1>0 DEF IInv, TypeOK, InDelay
<1>2. CountsBehind' /\ NeverEarly'
  BY <1>0 DEF IInv, CountsBehind, NeverEarly
<1> QED BY <1>0, <1>1, <1>2

(* Every step of delay_ms keeps what the delay has lasted and may still last.*)
LEMMA MainDelayInv == IInv /\ MainDelay => IInv'
<1> SUFFICES ASSUME IInv, MainDelay PROVE IInv'
  OBVIOUS
<1> DEFINE extra == IF spent THEN 1 ELSE 0
<1>0. /\ load \in 0 .. MotorDelay /\ val \in 0 .. MotorDelay /\ 0 \in 0 .. MotorDelay
      /\ enable \in BOOLEAN /\ flag \in BOOLEAN /\ after \in {"round", "test"}
      /\ elapsed \in Nat /\ extra \in {0, 1} /\ MotorDelay \in Nat \ {0}
  BY Constants DEF IInv, TypeOK
<1>1. InDelay => want \in 1 .. MotorDelay /\ want \in Delays
  BY DelayRange DEF IInv, SysTickSet
<1>2. ASSUME SetLoad PROVE IInv'
  <2>1. /\ DelayStep("load", "val") /\ load' = want /\ UNCHANGED <<val, enable, flag>>
        /\ pc = "load"
    BY <1>2 DEF SetLoad, DelayStep
  <2>2. load' \in 0 .. MotorDelay
    BY <1>1, <2>1 DEF InDelay
  <2>3. /\ ~motor /\ ~motor' /\ pc' = "val"
        /\ UNCHANGED <<want, elengine_wyx, spent, elapsed, motor>>
        /\ TypeOK' /\ CountsBehind' /\ NeverEarly'
    BY <1>0, <2>1, <2>2, DelayFrame
  <2> QED BY <1>1, <2>1, <2>3 DEF IInv, SysTickSet, Paid, InDelay
<1>3. ASSUME SetVal PROVE IInv'
  <2>1. /\ DelayStep("val", "enable") /\ val' = 0 /\ UNCHANGED <<load, enable>>
        /\ pc = "val" /\ flag' \in BOOLEAN
    BY <1>3 DEF SetVal, DelayStep
  <2>2. /\ ~motor /\ ~motor' /\ pc' = "enable"
        /\ UNCHANGED <<want, elengine_wyx, spent, elapsed, motor>>
        /\ TypeOK' /\ CountsBehind' /\ NeverEarly'
    BY <1>0, <2>1, DelayFrame
  <2> QED BY <2>1, <2>2 DEF IInv, SysTickSet, Paid, InDelay
<1>4. ASSUME Enable PROVE IInv'
  <2>1. /\ DelayStep("enable", "wait") /\ enable' /\ ~flag' /\ UNCHANGED <<load, val>>
        /\ pc = "enable" /\ flag' \in BOOLEAN /\ enable' \in BOOLEAN
    BY <1>4 DEF Enable, DelayStep
  <2>2. /\ ~motor /\ ~motor' /\ pc' = "wait"
        /\ UNCHANGED <<want, elengine_wyx, spent, elapsed, motor>>
        /\ TypeOK' /\ CountsBehind' /\ NeverEarly'
    BY <1>0, <2>1, DelayFrame
  <2>3. Left' = load /\ load \in {want, MotorDelay} /\ (elengine_wyx => load = want)
    BY <2>1, <2>2 DEF IInv, SysTickSet, Left, Over
  <2>4. want \in 1 .. MotorDelay /\ want \in Delays
    BY <1>1, <2>1 DEF InDelay
  <2>5. elapsed <= (IF elengine_wyx THEN 0 ELSE MotorDelay) + extra
    BY <2>1, <2>2 DEF IInv, Paid
  <2> HIDE DEF extra
  <2>6. elapsed + load >= want
    BY <1>0, <2>3, <2>4
  <2>7. elapsed + load <= (IF elengine_wyx THEN want ELSE 2 * MotorDelay) + extra
    <3>1. CASE elengine_wyx
      BY <1>0, <2>3, <2>4, <2>5, <3>1
    <3>2. CASE ~elengine_wyx
      BY <1>0, <2>3, <2>4, <2>5, <3>2
    <3> QED BY <3>1, <3>2
  <2>8. Paid'
    BY <2>2, <2>3, <2>6, <2>7 DEF Paid, extra
  <2>9. SysTickSet'
    BY <2>1, <2>2 DEF IInv, SysTickSet, InDelay
  <2> QED BY <2>2, <2>8, <2>9 DEF IInv
<1>5. ASSUME WaitOver PROVE IInv'
  <2>1. /\ DelayStep("wait", "stop") /\ Over /\ UNCHANGED <<load, val, enable>>
        /\ pc = "wait" /\ flag' \in BOOLEAN
    BY <1>5 DEF WaitOver, DelayStep
  <2>2. /\ ~motor /\ ~motor' /\ pc' = "stop"
        /\ UNCHANGED <<want, elengine_wyx, spent, elapsed, motor>>
        /\ TypeOK' /\ CountsBehind' /\ NeverEarly'
    BY <1>0, <2>1, DelayFrame
  <2>3. /\ elapsed + 0 >= want /\ elapsed + 0 = elapsed
        /\ elapsed + 0 <= (IF elengine_wyx THEN want ELSE 2 * MotorDelay) + extra
    BY <1>0, <2>1, <2>2 DEF IInv, Paid, Left
  <2>4. Paid'
    BY <2>2, <2>3 DEF Paid
  <2>5. SysTickSet'
    BY <2>1, <2>2 DEF IInv, SysTickSet, InDelay
  <2> QED BY <2>2, <2>4, <2>5 DEF IInv
<1>6. ASSUME Stop PROVE IInv'
  <2>1. /\ DelayStep("stop", "clear") /\ ~enable' /\ UNCHANGED <<load, val>>
        /\ pc = "stop" /\ flag' \in BOOLEAN /\ enable' \in BOOLEAN
    BY <1>6 DEF Stop, DelayStep
  <2>2. /\ ~motor /\ ~motor' /\ pc' = "clear"
        /\ UNCHANGED <<want, elengine_wyx, spent, elapsed, motor>>
        /\ TypeOK' /\ CountsBehind' /\ NeverEarly'
    BY <1>0, <2>1, DelayFrame
  <2> QED BY <2>1, <2>2 DEF IInv, SysTickSet, Paid, InDelay
<1>7. ASSUME Clear PROVE IInv'
  <2>1. /\ DelayStep("clear", after) /\ val' = 0 /\ UNCHANGED <<load, enable>>
        /\ pc = "clear" /\ flag' \in BOOLEAN
    BY <1>7 DEF Clear, DelayStep
  <2>2. /\ ~motor /\ ~motor' /\ pc' = after
        /\ UNCHANGED <<want, elengine_wyx, spent, elapsed, motor>>
        /\ TypeOK' /\ CountsBehind' /\ NeverEarly'
    BY <1>0, <2>1, DelayFrame
  <2> QED BY <1>0, <2>1, <2>2 DEF IInv, SysTickSet, Paid, InDelay
<1> QED BY <1>2, <1>3, <1>4, <1>5, <1>6, <1>7 DEF MainDelay

(* A step that changes nothing. *)
LEMMA StutterInv == IInv /\ UNCHANGED vars => IInv'
<1> SUFFICES ASSUME IInv, UNCHANGED vars PROVE IInv'
  OBVIOUS
<1>0. UNCHANGED <<localtime, pend, last, load, val, enable, flag, pc, timer, want, after,
                  demo, motor, elengine_wyx, spent, since, elapsed>>
  BY DEF vars, systick, main
<1>1. Left' = Left /\ InDelay' = InDelay
  BY <1>0 DEF Left, Over, InDelay
<1>2. TypeOK'
  BY <1>0, <1>1 DEF IInv, TypeOK
<1>3. CountsBehind' /\ NeverEarly'
  BY <1>0 DEF IInv, CountsBehind, NeverEarly
<1>4. SysTickSet' /\ Paid'
  BY <1>0, <1>1 DEF IInv, SysTickSet, Paid
<1> QED BY <1>2, <1>3, <1>4 DEF IInv
-----------------------------------------------------------------------------
(* The two clocks stay in order, whatever the lengths and the width.         *)
THEOREM ClockInvariant == FairSpec => []IInv
<1>1. IInv /\ [Next]_vars => IInv'
  BY PassInv, PendedInv, MotorOnInv, MotorOffInv, RoundInv, TimerTestInv,
     TimerStampInv, MainDelayInv, StutterInv DEF Next, Main
<1> QED BY InitInv, <1>1, PTL DEF FairSpec

(* Every variable keeps its type. *)
THEOREM ClockTypes == FairSpec => []TypeOK
<1>1. IInv => TypeOK
  BY DEF IInv
<1> QED BY ClockInvariant, <1>1, PTL

(* No timer of lwip_periodic_handle fires before its interval is over.       *)
THEOREM TimersKeepIntervals == FairSpec => []NeverEarly
<1>1. IInv => NeverEarly
  BY DEF IInv
<1> QED BY ClockInvariant, <1>1, PTL

(* A delay of the main loop lasts as long as asked, and no longer than the   *)
(* motor's runs it may meet.                                                 *)
THEOREM DelaysBounded == FairSpec => []DelayKept
<1>1. IInv => DelayKept
  <2> SUFFICES ASSUME IInv PROVE DelayKept
    OBVIOUS
  <2> DEFINE extra == IF spent THEN 1 ELSE 0
  <2>1. /\ elapsed \in Nat /\ extra \in {0, 1} /\ MotorDelay \in Nat \ {0} /\ Left \in Nat
    BY Constants DEF IInv, TypeOK, Left
  <2>2. InDelay => want \in 1 .. MotorDelay
    BY DelayRange DEF IInv, SysTickSet
  <2> HIDE DEF extra
  <2>3. /\ pc \in {"load", "val", "enable"} => elapsed <= MotorDelay + extra
        /\ pc = "wait" => elapsed <= 2 * MotorDelay + extra
        /\ pc \in {"stop", "clear"} => elapsed >= want /\ elapsed <= 2 * MotorDelay + extra
    <3> USE <2>1, <2>2 DEF InDelay
    <3>1. CASE pc \in {"load", "val", "enable"}
      <4>1. CASE motor /\ elengine_wyx
        BY <3>1, <4>1 DEF IInv, Paid, extra
      <4>2. CASE motor /\ ~elengine_wyx
        BY <3>1, <4>2 DEF IInv, Paid, extra
      <4>3. CASE ~motor
        BY <3>1, <4>3 DEF IInv, Paid, extra
      <4> QED BY <3>1, <4>1, <4>2, <4>3
    <3>2. CASE pc = "wait"
      <4>1. CASE motor
        BY <3>2, <4>1 DEF IInv, Paid, extra
      <4>2. CASE ~motor
        BY <3>2, <4>2 DEF IInv, Paid, extra
      <4> QED BY <3>2, <4>1, <4>2
    <3>3. CASE pc \in {"stop", "clear"}
      <4>1. CASE motor
        BY <3>3, <4>1 DEF IInv, Paid, extra
      <4>2. CASE ~motor
        BY <3>3, <4>2 DEF IInv, Paid, extra
      <4> QED BY <3>3, <4>1, <4>2
    <3> QED BY <3>1, <3>2, <3>3
  <2>4. InDelay => elapsed <= want + 2 * MotorDelay
    BY <2>1, <2>2, <2>3 DEF InDelay
  <2> QED BY <2>3, <2>4 DEF DelayKept
<1> QED BY ClockInvariant, <1>1, PTL
=============================================================================
