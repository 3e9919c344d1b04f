----------------------------- MODULE MCEnc28j60 -----------------------------
(* Six frames for a receive memory of two: enough for two overflows with and *)
(* without a read between them, for a read of an overwritten header and one  *)
(* after it, for a frame left behind by the extra PKTDEC, and for frames     *)
(* that arrive inside every step of the handler.                             *)
EXTENDS Enc28j60
=============================================================================
