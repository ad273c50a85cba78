---------------------------- MODULE MCSelfHealing ----------------------------
(***************************************************************************)
(* Two request goroutines and two clients, one without an address; a spike *)
(* is three requests of one address in a window of two instants.           *)
(***************************************************************************)
EXTENDS SelfHealing
=============================================================================
