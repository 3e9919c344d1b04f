------------------------------- MODULE MCDhcp -------------------------------
(* Dhcp with two addresses, so that a later answer may carry another one.    *)
(* Messages and timeouts are not bounded, the tries only by TriesBound.      *)
EXTENDS Dhcp
=============================================================================
