---------------------------- MODULE EngineConfig ----------------------------
(***************************************************************************)
(* config.go and the part of NewEngine that reads the configuration:       *)
(* withDefaults, the condition for background analysis, the conversion of  *)
(* durations for Redis, and what the engine relies on afterwards.          *)
(*                                                                         *)
(* A configuration is [num, on]: its numbers, and which optional parts and *)
(* switches are set.  Durations count half milliseconds, so that one below *)
(* a millisecond exists; factors count tenths.  Strings, callbacks and     *)
(* collectors, which default to fixed values, are left out.                *)
(***************************************************************************)
EXTENDS Integers

Ms     == 2
Second == 1000 * Ms
Minute == 60 * Second
Hour   == 60 * Minute

\* Durations that reach Redis as an integer argument of a script ...
ScriptDuration == {"Window", "ScoreWindow", "PenaltyTTL", "BackoffWindow",
                   "BanLevel1", "BanLevel2", "BanLevel3"}
\* ... through the client's own conversion, or not at all.
OtherDuration == {"DefaultBanTTL", "ThreatKeyWindow", "AdaptiveBanTTL", "SHWindow",
                  "RiskWindow", "BehPenaltyTTL", "PenaltyBanTTL"}
Count == {"MaxRequests", "CacheSize", "ThreatCountThreshold", "QueueSize", "Workers",
          "DenyStatusCode", "BloomBits", "BloomHashes", "MinSamples", "ScoreThreshold",
          "QueryDiversityThreshold", "HeaderDiversityThreshold", "DiversityWeight",
          "WarningLevel", "Threshold"}
Factor == {"CleanTrafficThreshold", "SpikeFactor", "MaxSensitivity", "DecayStep"}

Field   == ScriptDuration \cup OtherDuration \cup Count \cup Factor
Feature == {"FailOpen", "Bloom", "SelfHealing", "AdaptiveBan", "Rules", "Evaluators",
            "Behavioral", "Reputation", "RulesetFile", "DynamicRules", "CompiledRules",
            "AutoReloadOnSIGHUP"}
Config  == [num : [Field -> Int], on : SUBSET Feature]

-----------------------------------------------------------------------------
(* withDefaults *)

Defaults ==
  [Window |-> Second, MaxRequests |-> 1000, CacheSize |-> 4096, DefaultBanTTL |-> Hour,
   ThreatKeyWindow |-> 10 * Minute, ThreatCountThreshold |-> 100, QueueSize |-> 8192,
   DenyStatusCode |-> 429, BloomBits |-> 1048576, BloomHashes |-> 6, SHWindow |-> 30 * Second,
   MinSamples |-> 200, CleanTrafficThreshold |-> 9, SpikeFactor |-> 30, MaxSensitivity |-> 40,
   DecayStep |-> 2, RiskWindow |-> 15 * Minute, ScoreThreshold |-> 100,
   BehPenaltyTTL |-> 30 * Minute, PenaltyBanTTL |-> 24 * Hour, QueryDiversityThreshold |-> 30,
   HeaderDiversityThreshold |-> 20, DiversityWeight |-> 5, WarningLevel |-> 60,
   Threshold |-> 100, ScoreWindow |-> 15 * Minute, PenaltyTTL |-> 30 * Minute,
   BackoffWindow |-> 24 * Hour, BanLevel1 |-> Minute, BanLevel2 |-> 10 * Minute,
   BanLevel3 |-> 24 * Hour]

\* AdaptiveBanTTL and Workers have no default of their own.
Default(f) == IF f \in DOMAIN Defaults THEN Defaults[f] ELSE 0

\* Values up to this are replaced: 0, and 1.0 for MaxSensitivity.
Floor(f) == IF f = "MaxSensitivity" THEN 10 ELSE 0

OrDefault(f, x) == IF x <= Floor(f) THEN Default(f) ELSE x

\* Mutant: BanTTL taken from DefaultBanTTL before that has its default.
DefaultedEarlyBanTTL(num) ==
  [f \in Field |-> IF f = "AdaptiveBanTTL" /\ num[f] <= 0 THEN num["DefaultBanTTL"]
                   ELSE OrDefault(f, num[f])]

\* BanTTL defaults to DefaultBanTTL; Workers stays 0 for NewEngine to resolve.
Defaulted(num) ==
  [f \in Field |-> IF f = "AdaptiveBanTTL" /\ num[f] <= 0
                   THEN OrDefault("DefaultBanTTL", num["DefaultBanTTL"])
                   ELSE OrDefault(f, num[f])]

\* A ruleset turns reloading on, reputation turns the behaviour tracker on.
Switched(on) ==
  on \cup (IF on \cap {"RulesetFile", "DynamicRules"} # {} THEN {"AutoReloadOnSIGHUP"} ELSE {})
     \cup (IF "Reputation" \in on THEN {"Behavioral"} ELSE {})

withDefaults(c) == [num |-> Defaulted(c.num), on |-> Switched(c.on)]

-----------------------------------------------------------------------------
(* NewEngine *)

shouldRunBackground(c) ==
  \/ {"AdaptiveBan", "Rules"} \subseteq c.on
  \/ c.on \cap {"Behavioral", "Reputation", "Evaluators", "RulesetFile", "DynamicRules"} # {}

\* procs is runtime.GOMAXPROCS(0).
Workers(c, procs) == IF c.num["Workers"] <= 0 THEN 2 * procs ELSE c.num["Workers"]

\* Duration.Milliseconds, which rounds down, and the client's formatMs, which sends
\* a duration below a millisecond as one millisecond.
Milliseconds(d) == d \div Ms
FormatMs(d)     == IF d > 0 /\ d < Ms THEN 1 ELSE d \div Ms

\* What Engine knows of the configuration: instants count milliseconds; limits are
\* the effective limits self-healing may compute.
EngineCfg(c, limits) ==
  [MaxRequests |-> c.num["MaxRequests"], Window |-> Milliseconds(c.num["Window"]),
   EffLimits |-> limits, FailOpen |-> "FailOpen" \in c.on, Bloom |-> "Bloom" \in c.on,
   CacheSize |-> c.num["CacheSize"], Background |-> shouldRunBackground(c),
   QueueSize |-> c.num["QueueSize"], Reputation |-> "Reputation" \in c.on,
   WarningLevel |-> c.num["WarningLevel"], Threshold |-> c.num["Threshold"],
   ScoreWindow |-> Milliseconds(c.num["ScoreWindow"]),
   PenaltyTTL |-> Milliseconds(c.num["PenaltyTTL"]),
   BackoffWindow |-> Milliseconds(c.num["BackoffWindow"]),
   BanLevel1 |-> Milliseconds(c.num["BanLevel1"]), BanLevel2 |-> Milliseconds(c.num["BanLevel2"]),
   BanLevel3 |-> Milliseconds(c.num["BanLevel3"]), ScoreThreshold |-> c.num["ScoreThreshold"],
   BehPenaltyTTL |-> FormatMs(c.num["BehPenaltyTTL"]),
   PenaltyBanTTL |-> FormatMs(c.num["PenaltyBanTTL"]), Adaptive |-> "AdaptiveBan" \in c.on,
   ThreatKeyWindow |-> FormatMs(c.num["ThreatKeyWindow"]),
   ThreatCountThreshold |-> c.num["ThreatCountThreshold"],
   AdaptiveBanTTL |-> FormatMs(c.num["AdaptiveBanTTL"])]

\* What the engine relies on.
EngineAssumes(cfg) ==
  /\ cfg.MaxRequests \in Nat \ {0}
  /\ cfg.Window \in Nat \ {0}
  /\ cfg.EffLimits \subseteq 1..cfg.MaxRequests
  /\ {cfg.FailOpen, cfg.Bloom, cfg.Background, cfg.Reputation, cfg.Adaptive} \subseteq BOOLEAN
  /\ {cfg.CacheSize, cfg.QueueSize} \subseteq Nat \ {0}
  /\ {cfg.ScoreWindow, cfg.PenaltyTTL, cfg.BackoffWindow, cfg.BanLevel1, cfg.BanLevel2,
      cfg.BanLevel3, cfg.BehPenaltyTTL, cfg.PenaltyBanTTL, cfg.ThreatKeyWindow,
      cfg.AdaptiveBanTTL} \subseteq Nat \ {0}
  /\ {cfg.WarningLevel, cfg.Threshold, cfg.ScoreThreshold,
      cfg.ThreatCountThreshold} \subseteq Nat

\* The configurations that mean what they say to Redis: a script argument is not a
\* positive duration below a millisecond, which would be sent as 0.
Representable(c) == \A f \in ScriptDuration : c.num[f] <= 0 \/ c.num[f] >= Ms

\* The configuration the engine runs with is complete: every number has a usable
\* value, the engine's assumptions hold, and applying the defaults again (NewEngine
\* on another engine's Config()) changes nothing.
Usable(c) ==
  LET d == withDefaults(c)
  IN  /\ \A f \in Field \ {"Workers"} : d.num[f] > Floor(f)
      /\ EngineAssumes(EngineCfg(d, 1..d.num["MaxRequests"]))
      /\ withDefaults(d) = d
=============================================================================
