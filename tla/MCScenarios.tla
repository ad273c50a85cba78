----------------------------- MODULE MCScenarios -----------------------------
(***************************************************************************)
(* The smaller models of Engine: a configuration and a set of requests for *)
(* each question.                                                          *)
(***************************************************************************)
EXTENDS MCBase

\* Reputation bans alone, of two addresses that compete for the one place of the
\* caches, with FailOpen: three attacks, so that an address banned by the first is
\* judged again after its entry is evicted, cut short, or lost in a restart.
ReputationCfg == [BaseCfg EXCEPT !.Background = TRUE, !.Reputation = TRUE, !.Bloom = TRUE,
                                 !.FailOpen = TRUE, !.QueueSize = 2]
ReputationRequests == {Good("a"), Good("b")}

\* AdaptiveBan alone: four threats of one address, counted by two workers, reach the
\* threshold of two, and reach it again after the first counter has expired.
ThreatsCfg == [BaseCfg EXCEPT !.Background = TRUE, !.Adaptive = TRUE, !.MaxRequests = 4,
                              !.EffLimits = {4}, !.ThreatKeyWindow = 1, !.AdaptiveBanTTL = 1]
ThreatsRequests == {Good("a")}

\* AdaptiveBan alone, for the statement of the documentation.
PermanentBanCfg == [BaseCfg EXCEPT !.Background = TRUE, !.Adaptive = TRUE,
                                   !.ThreatCountThreshold = 1, !.ScoreThreshold = 9]
PermanentBanRequests == {Good("a")}
=============================================================================
