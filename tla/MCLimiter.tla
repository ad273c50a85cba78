------------------------------ MODULE MCLimiter ------------------------------
(***************************************************************************)
(* Two instances with one request goroutine each share the counter of one  *)
(* key, under either effective limit, while replies of Redis are lost.     *)
(* One of the two clients has no address and is counted by KeyFunc's key.  *)
(***************************************************************************)
EXTENDS MCBase

LimiterCfg      == [BaseCfg EXCEPT !.EffLimits = {1, 2}, !.FailOpen = TRUE]
LimiterRequests == {Good("a"), [Good("") EXCEPT !.key = "a"]}
=============================================================================
