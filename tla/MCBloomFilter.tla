---------------------------- MODULE MCBloomFilter ----------------------------
(***************************************************************************)
(* Three values over a filter of five bits in words of four: the bits of   *)
(* "a" and "b" are all in the first word and one is shared; the first bit  *)
(* of "c" is the only one of the second word, and its second bit, shared   *)
(* with "b", is reached by an overflow of uint64.                          *)
(***************************************************************************)
EXTENDS BloomFilter

MCH1 == [v \in Value |-> CASE v = "a" -> 0 [] v = "b" -> 1 [] OTHER -> 4]
MCH2 == [v \in Value |-> CASE v = "a" -> 1 [] v = "b" -> 2 [] OTHER -> 13]
=============================================================================
