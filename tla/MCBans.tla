------------------------------- MODULE MCBans -------------------------------
(***************************************************************************)
(* Two addresses compete for the one place of the local caches; all three  *)
(* ways of banning are on (reputation script, AdaptiveBan, failed penalty  *)
(* checks), with the bloom filter, a lost reply and a restart.             *)
(***************************************************************************)
EXTENDS MCBase

BansCfg      == [BaseCfg EXCEPT !.Bloom = TRUE, !.Background = TRUE, !.Reputation = TRUE,
                                !.Adaptive = TRUE, !.ThreatCountThreshold = 1]
BansRequests == {Good("a"), Bad("b")}
=============================================================================
