------------------------------- MODULE MCFleet -------------------------------
(* Fleet: two legs, two threads, one refill of one offer, one signal.      *)
EXTENDS Fleet
==============================================================================
