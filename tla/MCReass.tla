------------------------------ MODULE MCReass ------------------------------
(* The build's 10 pbufs, limit of 10 and 5 entries, scaled to 5, 5 and 3:    *)
(* the pool and the limit stay equal, the entries are used up before the     *)
(* pbufs are, and frames of one or of two pbufs share the pool.              *)
EXTENDS Reass
=============================================================================
