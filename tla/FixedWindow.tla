----------------------------- MODULE FixedWindow -----------------------------
(***************************************************************************)
(* What the rate limiter promises, without Redis, engines or goroutines:   *)
(* for each key a window opens with the first request examined, lasts      *)
(* exactly Window, the instant of its deadline included, grants at most    *)
(* Max requests, and closes.                                               *)
(***************************************************************************)
EXTENDS Integers

CONSTANTS Key, Window, Max

VARIABLES clock,     \* the present instant
          deadline,  \* deadline[k]: when k's window closes; 0 if none is open
          granted    \* granted[k]: requests granted in k's open window

fwVars == <<clock, deadline, granted>>

Init == /\ clock = 1
        /\ deadline = [k \in Key |-> 0]
        /\ granted  = [k \in Key |-> 0]

\* A request for k is examined: it opens the window if none is open and is
\* granted (g = 1) or refused (g = 0).
Examine(k, g) ==
  /\ granted[k] + g <= Max
  /\ deadline' = [deadline EXCEPT ![k] = IF @ = 0 THEN clock + Window ELSE @]
  /\ granted'  = [granted  EXCEPT ![k] = @ + g]
  /\ UNCHANGED clock

\* Time passes; a window whose deadline has passed closes.
Advance ==
  /\ clock' = clock + 1
  /\ deadline' = [k \in Key |-> IF deadline[k] < clock' THEN 0 ELSE deadline[k]]
  /\ granted'  = [k \in Key |-> IF deadline[k] < clock' THEN 0 ELSE granted[k]]

Next == Advance \/ \E k \in Key, g \in {0, 1} : Examine(k, g)

Spec == Init /\ [][Next]_fwVars
=============================================================================
