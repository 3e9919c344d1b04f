-------------------------------- MODULE Clock --------------------------------
(***************************************************************************)
(* The two clocks.  TIM3 counts lwip_localtime up, and                     *)
(* lwip_periodic_handle compares its four timers with it.  SysTick serves  *)
(* every delay_ms and delay_us, those of the main loop (udp_demo_test's    *)
(* round, KEY_Scan, the sensor) and the one of Open_Elengine_1, which the  *)
(* receive path calls inside EXTI1 while a delay of the main loop may be   *)
(* half set up or running.  TIM3 and EXTI1 have the same preemption        *)
(* priority: an update during EXTI1 stays pending, the further ones are    *)
(* lost.                                                                   *)
(*                                                                         *)
(* The unit of time is one update of TIM3.  A waiting processor polls      *)
(* often within a unit; all other instructions of one round of the main    *)
(* loop, and of a handler run in it, take at most one unit together.       *)
(***************************************************************************)
EXTENDS Integers, Sequences, FiniteSets

CONSTANTS
  Intervals,    \* TCP_TMR_INTERVAL, ARP_TMR_INTERVAL, ... in units
  Wrap,         \* lwip_localtime is a u32: it wraps here
  Delays,       \* the lengths of delay_ms in the main loop
  MotorDelay,   \* the length of Open_Elengine_1's
  Longest       \* the count of elapsed time stops here

Timers == DOMAIN Intervals

ASSUME ClockAssumption ==
  /\ Wrap \in Nat /\ MotorDelay \in Nat \ {0} /\ Delays \subseteq 1 .. MotorDelay
  /\ Intervals \in Seq(1 .. Wrap - 1) /\ Intervals # << >>
  /\ Longest \in Nat /\ Longest >= 3 * MotorDelay

VARIABLES
  localtime, pend,         \* lwip_localtime; an update waits for EXTI1 to end
  last,                    \* TCPTimer, ARPTimer, DHCPfineTimer, DHCPcoarseTimer
  load, val, enable, flag, \* SysTick: LOAD, VAL, ENABLE and COUNTFLAG of CTRL
  pc, timer, want, after,  \* the main loop: place, timer, delay, where it goes on
  demo,                    \* main is inside udp_demo_test
  motor,                   \* EXTI1 is inside Open_Elengine_1
  elengine_wyx,            \* the next command may turn the motor
  spent,                   \* the unit for this round's instructions is used
  since, elapsed           \* ghosts: time since each timer fired, in this delay

systick == <<load, val, enable, flag>>
main    == <<pc, timer, want, after, demo>>
vars    == <<localtime, pend, last, systick, main, motor, elengine_wyx,
             spent, since, elapsed>>

Capped(n, cap) == IF n < cap THEN n + 1 ELSE cap
-----------------------------------------------------------------------------
Init ==
  /\ localtime = 0 /\ pend = FALSE /\ last = [t \in Timers |-> 0]
  /\ load = 0 /\ val = 0 /\ enable = FALSE /\ flag = FALSE
  /\ pc = "round" /\ timer = 1 /\ want = 0 /\ after = "round" /\ demo = TRUE
  /\ motor = FALSE /\ elengine_wyx = TRUE /\ spent = FALSE
  /\ since = [t \in Timers |-> 0] /\ elapsed = 0

(* Mutant: the polling goes on although the counter was stopped. *)
OverDisabled == flag

(* while((temp&0x01)&&!(temp&(1<<16))) ends. *)
Over == flag \/ ~enable

(* SysTick: from 0 it reloads, and reaching 0 it sets COUNTFLAG. *)
Count ==
  LET n == IF val = 0 THEN load ELSE val
  IN IF enable /\ n > 0
       THEN val' = n - 1 /\ flag' = (flag \/ n = 1) /\ UNCHANGED <<load, enable>>
       ELSE UNCHANGED systick

(* Mutant: lwip_localtime is wider than its u32. *)
UpdateWide(n) == localtime' = localtime + n

(* TIM3_IRQHandler. *)
Update(n) == localtime' = (localtime + n) % Wrap

(* A unit passes: while whoever runs waits, and once a round besides. *)
Pass ==
  /\ ~pend \/ motor
  /\ \/ (motor \/ pc = "wait") /\ ~Over /\ UNCHANGED spent
     \/ ~spent /\ spent' = TRUE
  /\ Count
  /\ IF motor THEN pend' = TRUE /\ UNCHANGED localtime
              ELSE Update(1) /\ UNCHANGED pend
  /\ since' = [t \in Timers |-> Capped(since[t], Intervals[t])]
  /\ elapsed' = Capped(elapsed, Longest)
  /\ UNCHANGED <<last, main, motor, elengine_wyx>>

(* The update that waited for EXTI1. *)
Pended ==
  /\ pend /\ ~motor
  /\ pend' = FALSE /\ Update(1)
  /\ UNCHANGED <<last, systick, main, motor, elengine_wyx, spent, since, elapsed>>
-----------------------------------------------------------------------------
(* A command turns the motor: EXTI1 enters delay_ms, at any place of main.  *)
MotorOn ==
  /\ demo /\ elengine_wyx /\ ~motor /\ ~pend
  /\ motor' = TRUE /\ elengine_wyx' = FALSE
  /\ load' = MotorDelay /\ val' = 0 /\ flag' = FALSE /\ enable' = TRUE
  /\ UNCHANGED <<localtime, pend, last, main, spent, since, elapsed>>

MotorOff ==
  /\ motor /\ Over
  /\ motor' = FALSE /\ enable' = FALSE /\ val' = 0 /\ flag' = FALSE
  /\ UNCHANGED <<localtime, pend, last, main, elengine_wyx, spent, since, elapsed, load>>
-----------------------------------------------------------------------------
MainRuns == ~motor /\ ~pend

(* Where main goes on: delay for d units, and then at place a. *)
Delay(d, a) == pc' = "load" /\ want' = d /\ after' = a

(* The start of a round: in udp_demo_test KEY_Scan may wait and a reply      *)
(* allows the motor again; with WK_UP main leaves it for the loop that does *)
(* not poll, and KEY1 leads back.                                           *)
Round ==
  /\ MainRuns /\ pc = "round" /\ spent' = FALSE
  /\ demo' \in BOOLEAN
  /\ elengine_wyx' \in {elengine_wyx, demo \/ elengine_wyx}
  /\ elapsed' = 0
  /\ IF demo' THEN \/ pc' = "test" /\ UNCHANGED <<want, after>>
                   \/ \E d \in Delays : Delay(d, "test")
              ELSE \E d \in Delays : Delay(d, "round")
  /\ timer' = 1
  /\ UNCHANGED <<localtime, pend, last, systick, motor, since>>

(* Mutant: the time of the next call is compared instead of a difference. *)
DueBySum(t) == localtime >= (last[t] + Intervals[t]) % Wrap

(* Mutant: due at the very millisecond only. *)
DueExactly(t) == (localtime - last[t]) % Wrap = Intervals[t]

(* lwip_localtime - TCPTimer >= TCP_TMR_INTERVAL, in u32. *)
Due(t) == (localtime - last[t]) % Wrap >= Intervals[t]

NextTimer == IF timer = Len(Intervals)
               THEN /\ \E d \in Delays : Delay(d, "round")
                    /\ elapsed' = 0 /\ UNCHANGED timer
               ELSE /\ pc' = "test" /\ timer' = timer + 1
                    /\ UNCHANGED <<want, after, elapsed>>

(* lwip_periodic_handle reads the time twice, to compare and to stamp. *)
TimerTest ==
  /\ MainRuns /\ pc = "test"
  /\ IF Due(timer) THEN pc' = "stamp" /\ UNCHANGED <<timer, want, after, elapsed>>
                   ELSE NextTimer
  /\ UNCHANGED <<localtime, pend, last, systick, demo, motor, elengine_wyx, spent, since>>

TimerStamp ==
  /\ MainRuns /\ pc = "stamp"
  /\ last' = [last EXCEPT ![timer] = localtime]
  /\ since' = [since EXCEPT ![timer] = 0]
  /\ NextTimer
  /\ UNCHANGED <<localtime, pend, systick, demo, motor, elengine_wyx, spent>>

(* delay_ms of the main loop, one register access after the other. *)
DelayStep(from, to) ==
  /\ MainRuns /\ pc = from /\ pc' = to
  /\ UNCHANGED <<localtime, pend, last, timer, want, after, demo, motor,
                 elengine_wyx, spent, since, elapsed>>

SetLoad  == DelayStep("load", "val") /\ load' = want /\ UNCHANGED <<val, enable, flag>>
SetVal   == DelayStep("val", "enable") /\ val' = 0 /\ flag' = FALSE
            /\ UNCHANGED <<load, enable>>
Enable   == DelayStep("enable", "wait") /\ enable' = TRUE /\ flag' = FALSE
            /\ UNCHANGED <<load, val>>
WaitOver == Over /\ DelayStep("wait", "stop") /\ flag' = FALSE
            /\ UNCHANGED <<load, val, enable>>
Stop     == DelayStep("stop", "clear") /\ enable' = FALSE /\ flag' = FALSE
            /\ UNCHANGED <<load, val>>
Clear    == DelayStep("clear", after) /\ val' = 0 /\ flag' = FALSE
            /\ UNCHANGED <<load, enable>>

MainDelay == SetLoad \/ SetVal \/ Enable \/ WaitOver \/ Stop \/ Clear

Main == Round \/ TimerTest \/ TimerStamp \/ MainDelay

Next == Pass \/ Pended \/ MotorOn \/ MotorOff \/ Main

(* Time passes, the processor executes, TIM3's update is served. *)
FairSpec ==
  Init /\ [][Next]_vars
  /\ WF_vars(Pass) /\ WF_vars(Pended) /\ WF_vars(MotorOff) /\ WF_vars(Main)
-----------------------------------------------------------------------------
InDelay == pc \in {"load", "val", "enable", "wait", "stop", "clear"}

TypeOK ==
  /\ localtime \in 0 .. Wrap - 1 /\ last \in [Timers -> 0 .. Wrap - 1]
  /\ load \in 0 .. MotorDelay /\ val \in 0 .. MotorDelay
  /\ pend \in BOOLEAN /\ enable \in BOOLEAN /\ flag \in BOOLEAN
  /\ demo \in BOOLEAN /\ motor \in BOOLEAN
  /\ elengine_wyx \in BOOLEAN /\ spent \in BOOLEAN
  /\ InDelay \/ pc \in {"round", "test", "stamp"}
  /\ since \in [Timers -> Nat] /\ elapsed \in 0 .. Longest
  /\ timer \in Timers /\ want \in Delays \cup {0} /\ after \in {"round", "test"}

(* No timer of lwip_periodic_handle fires before its interval is over, also  *)
(* where lwip_localtime wraps, where updates are lost behind EXTI1 and       *)
(* however long nobody polled.                                               *)
NeverEarly == pc = "stamp" => since[timer] >= Intervals[timer]

(* Wherever EXTI1 takes SysTick away from a delay of the main loop, the      *)
(* delay is not cut short, and it ends: at most a motor's run and once more  *)
(* its length later.                                                         *)
DelayKept ==
  /\ pc \in {"stop", "clear"} => elapsed >= want
  /\ InDelay => elapsed <= want + 2 * MotorDelay

(* What makes them inductive.  The updates counted since a stamp, with the   *)
(* one that is pending, are no more than the units that have passed.         *)
CountsBehind ==
  \A t \in Timers :
    \/ since[t] >= Intervals[t]
    \/ ((localtime - last[t]) % Wrap) + (IF pend THEN 1 ELSE 0) <= since[t]

(* The units SysTick still has to count before the poll ends. *)
Left == IF Over THEN 0 ELSE IF val = 0 THEN load ELSE val

(* Who has set SysTick, and how.                                             *)
SysTickSet ==
  /\ motor => enable /\ load = MotorDelay /\ ~elengine_wyx
  /\ ~motor /\ pc \notin {"wait", "stop"} => ~enable
  /\ pc \in {"val", "enable", "wait"} => load \in {want, MotorDelay}
  /\ pc \in {"val", "enable", "wait"} /\ elengine_wyx => load = want
  /\ pc = "enable" /\ ~motor => val = 0
  /\ InDelay => want \in Delays

(* However far a delay of main has come, what it still takes is bounded.     *)
Paid ==
  LET extra == IF spent THEN 1 ELSE 0
      motors == IF elengine_wyx THEN 0 ELSE MotorDelay
  IN /\ pc \in {"load", "val", "enable"} =>
          (IF motor THEN elapsed + Left ELSE elapsed) <= motors + extra
     /\ pc = "wait" /\ motor  => elapsed + Left <= want + MotorDelay + extra
     /\ pc = "wait" /\ ~motor =>
          elapsed + Left <= (IF elengine_wyx THEN want ELSE 2 * MotorDelay) + extra
     /\ pc = "wait" => elapsed + Left >= want
     /\ pc \in {"stop", "clear"} =>
          /\ elapsed >= want
          /\ (IF motor THEN elapsed + Left ELSE elapsed)
               <= (IF elengine_wyx THEN want ELSE 2 * MotorDelay) + extra

IInv == TypeOK /\ CountsBehind /\ NeverEarly /\ SysTickSet /\ Paid

(* As long as main stays in udp_demo_test, every timer fires again and again.*)
TimersRun == <>[]demo => \A t \in Timers : []<>(since[t] = 0)
=============================================================================
