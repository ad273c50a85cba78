------------------------------- MODULE MCBase -------------------------------
(***************************************************************************)
(* Constant values shared by the TLC models of Engine: small durations in  *)
(* clock units, every optional part off.                                   *)
(***************************************************************************)
EXTENDS Engine

BaseCfg ==
  [MaxRequests |-> 2, Window |-> 2, EffLimits |-> {2}, FailOpen |-> FALSE,
   Bloom |-> FALSE, CacheSize |-> 1, Background |-> FALSE, QueueSize |-> 1,
   Reputation |-> FALSE, WarningLevel |-> 2, Threshold |-> 3, ScoreWindow |-> 2,
   PenaltyTTL |-> 2, BackoffWindow |-> 4, BanLevel1 |-> 1, BanLevel2 |-> 2, BanLevel3 |-> 3,
   ScoreThreshold |-> 2, BehPenaltyTTL |-> 2, PenaltyBanTTL |-> 2,
   Adaptive |-> FALSE, ThreatKeyWindow |-> 2, ThreatCountThreshold |-> 2,
   AdaptiveBanTTL |-> 2]

\* A request of address i that passes the penalty checks, and one that does not.
Good(i) == [ip |-> i, key |-> "none", fp |-> "x", ok |-> TRUE]
Bad(i)  == [Good(i) EXCEPT !.ok = FALSE]

\* Goroutines are named after their instance: t1 and w1 belong to e1.
NamedEngineOf == [p \in Proc |-> IF p \in {"t2", "w2"} THEN "e2" ELSE "e1"]
=============================================================================
