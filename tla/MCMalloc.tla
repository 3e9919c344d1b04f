------------------------------ MODULE MCMalloc ------------------------------
(* Malloc on a pool of four blocks and requests of one, two and three.  Four *)
(* blocks let the main loop hold a run, look for another and be interrupted  *)
(* by a handler that takes a run of its own out of the blocks just counted.  *)
EXTENDS Malloc

MCSizes == {32, 40, 96}
=============================================================================
