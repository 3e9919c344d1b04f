----------------------------- MODULE MCUdpDemo -----------------------------
(* UdpDemo is finite as it stands: every order, every length class and every *)
(* failure is checked.                                                       *)
EXTENDS UdpDemo
=============================================================================
