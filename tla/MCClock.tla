------------------------------ MODULE MCClock ------------------------------
(* Two timers, main delays of one and two units and a motor's run of three:  *)
(* the run is longer than any delay and any interval is crossed by a wrap.   *)
EXTENDS Clock

MCIntervals == <<2, 3>>
=============================================================================
