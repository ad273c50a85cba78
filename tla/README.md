# GuardGo in TLA+

A verification project for GuardGo, the Redis-backed request guard in this
repository: TLA+ models of its core, TLC configurations that check them on small
instances, and TLAPS proofs of the main safety properties for every size.

`tlc -config X.cfg M` checks a run (the list is in `PROJECT.json`), `tlapm M.tla`
a proof module.

## 1. The system

| Component | State it keeps | Operations | Talks to |
|---|---|---|---|
| `Engine.Process` (`engine_process.go`) | none of its own; reads `now`, address, key and limit once | decides one request | caches, bloom filter, Redis, analysis queue |
| Redis keys (`internal/redislua`) | `:rl:` counters, `:bl:` bans, `:pbox:` penalties, `:ban_attempts:`, `:threat:`, the `:rep` hash | two Lua scripts, `PTTL`, pipelines of `SADD`/`SET`/`INCR` + `PEXPIRE` | shared by all instances |
| Blacklist cache and penalty box (`internal/blacklist`) | LRU of address -> expiry | `IsBlacklisted`, `Blacklist` | request goroutines and workers of one instance |
| Bloom filter (`pkg/bloom`) | words of bits | lock-free `Add`, `Test` | the same |
| Analysis queue, pool, workers (`engine_background.go`, `engine.go`) | channel, `sync.Pool`, `bgStop`, wait group | `tryEnqueue`, `bgWorker`, `Close` | requests -> workers |
| `processSnapshot` (`engine_background.go`, `engine_reputation.go`) | none | scores a snapshot, then penalty, ban, threat count | Redis, both caches, bloom filter |
| `banIP`, `setPenalty`, `isInPenalty` (`engine_penalty.go`) | none | write Redis, then the local copies | as above |
| Self-healing (`self_healing.go`) | window counters, multiplier | `effectiveLimit`, `observe` | every request of one instance |
| Behaviour tracker (`behavior_tracker.go`) | per-address sets of query and header hashes | `observe` | workers |
| Rulesets, matcher, hot reload (`ruleset.go`, `pkg/dfa`, `hotreload_unix.go`, `engine_ruleset.go`) | atomic pointer to compiled automata; `e.compiled` | `Reload` on `SIGHUP`, `FindAll` | workers, signal goroutine |
| Configuration (`config.go`, `NewEngine`) | defaults | `withDefaults` | everything |
| Adapters, metrics, tracing, CLI, agent, rules, examples | none that decides | - | - |

What is hard to test here:

* several instances and all their goroutines share Redis keys; a pipeline is not
  a transaction, and a script's reply may be lost after it ran;
* local copies (cache, penalty box, bloom filter) follow Redis with a delay, are
  bounded, and are empty after a restart;
* one `now` is read at the start of `Process` and used after Redis calls;
* bans are written from three places (reputation script, AdaptiveBan, failed
  penalty checks) with different durations;
* lock-free bit setting, pooled snapshots, non-blocking sends, and `Close` racing
  all of it.

The list with source lines is `hazards` in `PROJECT.json`.

## 2. Modules

| Module | Models | Used by |
|---|---|---|
| `RedisLua` | keys with expiry, the commands used (external), both Lua scripts | `Engine` |
| `FixedWindow` | abstract promise of the rate limiter | refined by `Engine` |
| `Engine` | instances, requests, workers, caches, filter, queue, Redis faults, restarts, time | `MCBase`, `MCLimiter`, `MCBans`, `MCScenarios` |
| `BloomFilter` | `Add` and `Test`, one atomic access per step | `MCBloomFilter` |
| `SelfHealing` | adaptive limit of one instance | `MCSelfHealing` |
| `Lifecycle` | snapshot pool, channel, workers, `Close` | `MCLifecycle` |
| `EngineConfig` | `withDefaults`, the background condition, the rounding of durations | `Lifecycle`, `Engine` |
| `HotReload` | `RulesetManager`, `SIGHUP`, manual reloads, workers that evaluate meanwhile | `MCHotReload` |
| `BehaviorTracker` | risk windows and diversity of one instance | `MCBehaviorTracker` |
| `Matcher` | `CompileRuleset` and the Aho-Corasick automaton | `MCMatcher` |
| `EngineProofs`, `KeyProofs`, `BloomFilterProofs`, `SelfHealingProofs`, `LifecycleProofs`, `HotReloadProofs`, `BehaviorTrackerProofs`, `MatcherProofs` | theorems | - |

How they compose. `EngineConfig` is extended by `Lifecycle`, which starts an engine from
any configuration, and by `Engine`, whose constant `Cfg` is a value of `EngineCfg`; what
`Engine` assumes of it is `EngineAssumes`, and `LifecycleProofs!ConfigAlwaysUsable`
proves that `withDefaults` provides it. `SelfHealing` provides the limits of
`Cfg.EffLimits`, `BloomFilter` the filter `Engine` abstracts; `Matcher` and
`BehaviorTracker` compute parts of the score that `Engine` chooses from `Scores`; a
ruleset of `HotReload` is what `Matcher` compiles.

### Engine

A goroutine is a record `proc[p]` with a program counter and the locals that
survive a step: the request, `now`, the limit, a duration, a number. One action is
one access to something others can touch: a critical section of a cache, a bloom
test, a channel send, a Lua script, one command of a pipeline. Local computation
between accesses is part of the action before it.

Request path: `Arrive` -> `CacheCheck` -> `PboxCheck` -> `PenaltyTTLReply` (or
`PenaltyTTLError`) -> `PenaltyCached` -> `BloomTest` -> `CriticalPathReply` (or
`CriticalPathFault`) -> `CacheRedisBan` -> `BloomAdd`, or `Enqueue`. A request
without address goes straight to the script, as in the code, and is counted under
the key `KeyFunc` gave. Worker path: `Dequeue` -> `ReputationReply` -> `SetPenalty`,
`PenaltyPut` or `ReputationBanCache`, `ReputationBanBloom` -> `ThreatIncr` ->
`ThreatExpire` -> `BanIP_SAdd` -> `BanIP_PExpire` -> `BanIP_Cache` -> `BloomAdd`. The
last four are also where a request that fails the penalty checks ends.

Faults. Every Redis call has a fault action with two flags: `applied` (the server
did or did not execute it) and `retry` (the client library sends it again, or the
call returns an error and the code's error branch runs). A pipeline can fail at
either of its commands. `Restart` is a process that dies at any point and is
started again: its goroutines and local state are lost, Redis keeps its keys.

History variables, read by no action: `granted` (requests the script granted in
a key's present window), `passed` (requests allowed in it without the script's answer:
`fail_open` and negative bloom tests), `known` (what an instance has ever put into its
blacklist cache), `banned` (addresses ever blacklisted in Redis), `answered` (addresses
a worker has banned since their present threat counter began).

Keys. Redis drops a key once its expiry has passed; at the very instant it expires it is
still there and `PTTL` answers 0 (`Expire` and `PTTL` of `RedisLua`). Two branches of the code
see that 0: `newDecisionWithTTL` (`decision.go:64`) announces a whole Window instead, and
`isInPenalty` (`engine_penalty.go:54`) treats the penalty as over.

Abstractions. Instants are natural numbers, milliseconds, and the hosts share one
clock; a TTL is at least one unit (`CfgAssumption`; what becomes of shorter durations
is in `EngineConfig`).
The sum of rules, evaluators, matcher and behaviour tracker is a number from
`Scores`; the header tests of `passesPenaltyChecks` are the field `ok` of a request;
the limit of self-healing is any member of `Cfg.EffLimits`, whose range
`SelfHealingProofs!LimitsInRange` justifies; the bloom filter is the set of added
addresses with arbitrary false positives, which `BloomFilterProofs!NoFalseNegatives`
justifies; an LRU victim is arbitrary, so every recency order is covered. Metrics,
stats, tracing and `OnError` are left out.

### EngineConfig and Lifecycle

A configuration is its numbers and the set of parts that are on. `Defaulted` and
`Switched` are `withDefaults`; durations count half milliseconds so that one below a
millisecond exists, and `Milliseconds` (script arguments, rounds down) and `FormatMs`
(the client's own commands, never below 1) say what Redis is sent. `Usable` is what the
rest of the code relies on: every number usable, `EngineAssumes`, and defaults that do
not change when they are applied again.

`Lifecycle` is one engine from `NewEngine` to `Close`. `Init` applies the defaults to
any of `RawConfigs` and starts the workers the configuration asks for, or none. Objects
move between pool, request goroutine, channel and worker; the channel also carries,
as history, the request a snapshot was sent for.

### BloomFilter and SelfHealing

`BloomFilter`: a word is the set of its 1 bits; load, compare-and-swap and the tests'
loads are steps. The two hashes of a value are constants, 2^64 and 64 are `U` and
`WordBits`, so the overflow of the hash sum and a last partial word are in the model, and
so is that of `bits + 63` in `New` (`WordCount`), which `SizeAssumption` excludes from what
is checked and proved.

`SelfHealing`: the multiplier is counted in units of 1/Trigger with
Trigger = MaxRequests*SpikeFactor, which makes it an integer; float64 rounding is
left out. Both calls take the instant at which the request started, so they arrive
in any order.

### HotReload

A ruleset is the version of the file it was compiled from, and a version parses or
does not. `Write` and `Sighup` are the operator; a signal goes to every registered
channel with room (one place). `Receive`, `Load`, `Store`, `Done` are the reload
goroutine of an engine; `Reload` is a goroutine of the application that runs the same
`Load` and `Store`. A worker takes the rules once (`Capture`, which also writes
`e.compiled`) and matches the four targets with them (`FindAll`). History: `signalled`
(a SIGHUP since the last write) and `undone` (the file's rules were in force and an
older ruleset, read before, was stored over them).

### BehaviorTracker and Matcher

`BehaviorTracker`: `observe` holds the mutex and is one step; it is called with the
instant at which the request was taken (`Take`), in any order. Hashes are injective.
The signature of a header map is the order in which Go happens to iterate it, chosen
anew for each request.

`Matcher`: one action is one iteration of an inner loop: a signature or alternative of
`CompileRuleset` and `New` (`NextSignature`, `SkipToken`, `AddRule`), a byte of a token in
`insert` (`InsertByte`, `InsertEnd`), an edge in `buildFailures` (`RootEdge`, `NodeEdge`,
`Dequeue`), a byte of the text in `FindAll` (`Scan`). `CompileRuleset` first lists the rules of
each target and `New` then inserts a list; the model walks the signatures for one target and
inserts as it goes, in the same order. `word` is history: the bytes that lead to a node. A
pattern is given as its alternatives; trimming of blanks, parentheses and `(?i)` is left out. A byte outside ASCII stands for a letter:
`strings.ToLower` lowers it, the byte loops do not.

## 3. Runs

Bounds: `MaxTime` instants, `MaxIssued` and `MaxTaken` requests, `MaxFaults` failed calls,
`MaxRestarts` restarts, `MaxWrites`, `MaxSignals`, `MaxReloads` of the ruleset file,
`MaxText` bytes scanned. Runs with these bounds say `CHECK_DEADLOCK FALSE`: when they are
used up the model stops; so does `lifecycle`, where an engine without background
analysis has nothing left to do once it is closed. `bloom` has no bounds and is
checked for deadlock.

| Run | Shows | Size and why it is enough |
|---|---|---|
| `limiter` | `WindowBudget`, `CounterExpires`, `HeadersHonest`, `ImplementsFixedWindow` | two instances, limits 1 and 2 for budget 2, four requests, two faults, `FailOpen`: a counter passes its limit, a reply is lost and retried or lets its request through, a request meets the last instant of a counter, a window closes and another opens |
| `bans` | `TypeOK`, `LocalBanBacked`, `KnownStaysInBloom`, `KeysExpire`, `PenaltyBinds` | two addresses and one-entry caches, so every second ban evicts; all ways of banning and penalising; a fault and a restart |
| `reputation` | `BanEscalates`, `BanBinds` | two addresses for one place in the caches, three requests, a lost reply, a restart, `FailOpen`: an address banned by the first request is judged again after its entry was evicted, cut to the grace period, expired or lost and learnt again, or while its script call fails; repeated attacks reach the higher levels. One worker, as the script that decides the ban is atomic and workers share nothing else that it reads |
| `threats` | `ThreatAnswered`, `EveryCallReturns` | two workers, a threshold of two and four requests: increments interleave, the counter stands above the threshold, expires, and reaches it a second time; a queue of one place, which fills up, and a failed call |
| `self_healing` | `StateOK`, `LimitInRange`, `OnlyTightensWithinWindow`, `OneDecayPerWindow` | seven requests of two addresses and of a client without one, two rotations |
| `bloom` | `FilterOK`, `NoFalseNegative`, `BitsNeverCleared`, `CallsReturn` | adds and tests without end by two goroutines, values that share a word and a bit, one whose hash overflows |
| `lifecycle` | `SnapshotIntact`, `OneOwner`, `CloseStopsWorkers`, `ConfigUsable`, `CloseReturns` | every configuration that sets one number (seven values each, around every threshold of the defaults and of rounding) or one part; requests without end, up to two workers, a channel of one place, so it is both full and empty; four snapshots, so that the pool never has to refuse one |
| `hot_reload` | `OneRuleset`, `OnlyParsedRules`, `NoSignalLost`, `SignalReloads`, `ReloaderExits` | two writes, two signals and a manual reload, so that a signal meets a busy reloader and two reloads overlap; an engine with a manager and one without |
| `tracker` | `ScoreJustified`, `BurstNoticed` | four requests over four instants with a window of two and thresholds of two: a burst is split between two windows, an old request is observed in a later one |
| `matcher` | `FindsExactly`, `BreadthFirst`, `Complete` | all pairs of tokens of up to three bytes over two letters and rulesets with alternatives, capitals, several targets, empty tokens and a letter outside ASCII; every text of up to five bytes, longer than any token, so that overlaps and failures of every depth occur |

Every property has a mutant of the code (a dropped guard, a missing reset, an
off-by-one, a swapped order) under which TLC finds it violated: `mutants` in
`PROJECT.json`.

What the properties except, and why:

* `WindowBudget` bounds by MaxRequests what the script grants. A request allowed as `fail_open`
  is let through by a failed call and counted nowhere, so there may be one more for each;
  with a bloom filter, a negative test allows any number without counting them, and nothing
  is claimed of the total.
* `HeadersHonest`: at the last instant of a counter the reset announced is a Window after the
  arrival, later than the counter's expiry (`decision.go:64`).
* `ThreatAnswered` and the second half of `KeysExpire` except behaviours with a failed call
  or a restart, because the code then drops the ban, or leaves the key, by design.
* `PenaltyBinds` excepts failed calls, because an error of `PTTL` counts as "not in penalty",
  and the last instant of the penalty, where a `PTTL` of 0 does.
* `BanBinds` excepts, with the bloom filter on, the bans the instance has not learnt of; and,
  with `FailOpen`, a request in the step in which its own script call fails: `Process` then lets
  it through as `fail_open`, also when its address is banned in Redis and known to be
  (`engine_process.go:95`).

Every one of these exceptions occurs in the runs (restarts in `bans` and `reputation`, failed calls
in all), but for the bloom filter in `WindowBudget`: `limiter` has none.

Fairness. `Engine!FairSpec`: a goroutine in the middle of `Process` or `processSnapshot` is
scheduled and every Redis call returns, because the client has timeouts and a
worker's calls share a context of 250 ms. Nothing is assumed of clients, of time, or of
a worker taking the next snapshot: `EveryCallReturns` holds although nobody empties the
queue. `Lifecycle!FairSpec` also has strong fairness for the `bgStop` case of the
workers' select: the case is ready each time a worker returns to the select, and Go
chooses among ready cases uniformly at random. `HotReload!FairSpec` schedules the
goroutines that reload and lets a file read end; nothing is assumed of the operator, of
`Close` or of the workers. `BloomFilter!FairSpec` schedules the goroutines.

### Where the code differs from what is written about it

Two disagreements are runs that must end in a violation, with a finding in
`PROJECT.json`:

* `doc_permanentban`: `SADD` without its `PEXPIRE` is a ban for ever (`config.go:105`);
* `doc_close`: a second `Close` closes `bgStop` again and panics (`engine.go:132`).

The models also show these, which have no run of their own:

* `MaxRequests` is not "the maximum number of requests allowed per Window" (`config.go:15`): what
  `fail_open` and a negative bloom test allow is not counted. The repository's own test
  `bloom_negative_short_circuits_redis` (`tests/integration/engine_behavior_test.go:275`) expects two
  requests to be allowed where MaxRequests is 1: `CriticalPathFault` and `BloomTest`, and the
  second half of `WindowBudget`;
* a request at the last instant of a counter is told to wait a whole Window from its arrival,
  although the counter is gone a millisecond later: the exception in `HeadersHonest`;
* `CompiledRules`, which `ApplyDefaultSecurityPresets` sets, does not start the background
  workers, so nothing evaluates the presets, the "easiest way to enable baseline protection"
  (`rules/presets.go:42`): `shouldRunBackground`;
* for the last 63 sizes of a uint64, `bits + 63` overflows, `New` makes an empty slice and `Add`
  panics (`pkg/bloom/filter.go:21`): `SizeAssumption`;
* a negative bloom test allows an address that another instance, or this one before a
  restart, banned (`config.go:64`: "definitely not blacklisted"): `BloomTest`, and the
  exception in `BanBinds`;
* a positive `Window` or reputation duration below a millisecond reaches the scripts as
  0, and `PEXPIRE 0` deletes the key: `Milliseconds`, and the premise of `ConfigUsable`;
* with `BanLevel1` above `BanLevel2` bans do not escalate: `withDefaults` orders nothing;
* a `PEXPIRE` that finds its key expired since the `SADD` leaves a ban that only the local
  cache knows: `BanIP_PExpire`;
* of two reloads that overlap the one that read the older file may store last, and the
  new rules are gone until the next signal: `undone` in `HotReload`. With one reloading
  goroutine it cannot happen (`HotReloadProofs!OneReloaderNeverUndone`);
* with `DynamicRules` or `RulesetFile` set, `CompiledRules` is never evaluated, although
  `NewEngine` assigns it: `Capture`;
* one set of headers has several signatures, as Go's maps are iterated in any order, and
  counts as diversity (`config.go:180`): `headerSignature`; the tracker's map is never
  cleaned: `Entry`;
* snapshots that wait longer than a RiskWindow in the queue can be observed in a third
  window, or a later one, so a burst of any size can go unscored: `BurstNoticed` speaks of what is also observed within the RiskWindow;
* a pattern is a list of literal alternatives, not a regular expression; each
  alternative that occurs adds the weight of its signature; `count_threshold` is parsed and
  not used: `Items`. A capital outside ASCII is lowered in tokens and not in texts:
  `Lowered` and `Scan`;
* with AdaptiveBan also on, `processSnapshot` bans twice and the `PEXPIRE` of the
  second ban shortens a third-level reputation ban (`config.go:211`: "ban duration for
  third and next attack"): `ReputationReply` followed by `BanIP_PExpire`;
* with Reputation on, a failed penalty check bans for `BanLevel3` and `PenaltyBanTTL`
  is ignored (`config.go:168`): `PenaltyBan`;
* the attempt counter expires `BackoffWindow` after the first attempt, however recent
  the last (`README.md:158` of the repository: "sliding window"): `ReputationScript`;
* every threat renews the expiry of the whole threat counter, so threats older than
  `ThreatKeyWindow` still count (`config.go:101`): `ThreatExpire`;
* after quiet windows the self-healing multiplier loses one `DecayStep`, not one per
  window (`config.go:152`): `Rotated`.

## 4. Proofs

All theorems hold for every number of instances, goroutines, addresses and keys and
every bound; they assume the named `ASSUME`s of the modules, which TLC evaluates in
each run.

* `EngineProofs!TypeCorrect`: `TypeOK`, one step per action. It is used by all others.
* `EngineProofs!Budget`, `CountersExpire` and the refinement `LimiterRefinement`.
  `WindowBudget` alone is not inductive: nothing ties `granted` to the counter. The
  invariant `LimiterInv` adds that what was granted is at most the counter's value,
  and that a live counter has an expiry in (clock, clock+Window]. The script grants
  only when the counter, just incremented, is within a limit of at most MaxRequests;
  a fault only increments. What is allowed without the script's answer is, where there is no
  bloom filter, at most the number of failed calls, and nothing without FailOpen (`PassedInv`). The mapping takes the window's deadline from the counter's
  expiry; a fault whose script was applied is an examination that grants nothing.
* `EngineProofs`, bans: `BansBacked`, `KnownInBloom` and `BansBind`. `BanInv` strengthens them with
  the goroutines between two steps: one about to cache an address has a ban recorded,
  one that has cached it and not yet added it to the filter is at the step that does;
  every live ban in Redis was recorded; the empty address is never banned, which is why
  `CacheRedisBan` never caches it although the code does not test for it there. `BansBind`
  follows: a request decides only by a bloom test, which is positive for what is in the
  filter, or by the script, which sees the ban, or by the script's failure, the exception.
* `KeyProofs`: what Redis holds and for how long. `EverythingExpires` needs `KeyInv`: a duration
  a goroutine is about to send is a configured, positive one (`SoundInv`), and a key without
  an expiry is between the two commands of somebody's pipeline. `ThreatsAnswered` is
  inductive with it: `ThreatExpire` decides on the value its own `INCR` returned, and the
  `INCR` that reached the threshold belongs to a worker still on its way; when the counter
  expires, so does its claim on an answer. `HonestHeaders`
  combines it with `LimiterInv`: the TTL is read at the script's instant and added to an
  earlier one, or is 0 and replaced by the Window. `PenaltiesBind`: every request past the penalty check that arrived under a
  penalty that still lasts was found in it (`JudgedInv`), as a penalty set later is younger than the
  request. `BansEscalate` assumes `ReputationBansAlone` (no AdaptiveBan, no request that fails
  the penalty checks, ascending levels) and rests on: a ban ends no later than the one of
  the last counted attempt, given now, would. Each part of the hypothesis is needed; section 3
  lists what happens without it.
* `BehaviorTrackerProofs`: `ScoresJustified`, from: what an entry holds was under way in the
  RiskWindow that ends with it. `BurstsNoticed`, from: a burst nobody scored is split in two
  parts below the threshold, the second in the present entry, which outlasts the burst
  if the first part is not empty (`Spread`).
* `BloomFilterProofs`: `NoFalseNegatives`, `NoBitCleared` and `FilterAlwaysOK`, from: the bits
  of an added value are set, the bits a running `Add` has passed are set, and no step
  clears one. `FilterOK` says that the word a goroutine is about to access is in the slice;
  `IndexInRange` shows it of every index, for any hashes and the sizes `SizeAssumption` admits.
* `SelfHealingProofs`: `LimitsInRange`, `TightensWithinWindow`, `DecaysOncePerWindow` and
  `SelfHealingStateOK`.
* `LifecycleProofs`: `SnapshotsOwned`, `AnalysesWhatWasSent` and `ClosedMeansStopped` from `LInv`.
  `SnapshotIntact` speaks of workers only; to keep it, a snapshot must hold its request
  from the copy on, in the channel too (`ContentKept`), and nobody else may have the object
  (`PoolFree`, `QueueFree`, `HoldersApart`, which together are `OneOwner`). `WorkersStarted` ties the
  workers to the configuration. `ConfigAlwaysUsable` rests on lemmas about `withDefaults`: each
  default is a value it would keep (`DefaultKept`), at least a millisecond where it is a
  script argument (`DefaultWhole`), and a second application changes nothing
  (`DefaultsIdempotent`).
* `HotReloadProofs`: `OneRulesetPerRequest`, `ParsedRulesOnly`, `SignalsKept`, and
  `OneReloaderNeverUndone`. `HRInv` adds what goroutines hold between two steps: a ruleset
  about to be stored was parsed, and an evaluation has used only the rules it captured.

* `MatcherProofs`: `ExactMatches`, `QueueBreadthFirst` and `AutomatonComplete` from `MatcherInv`, for
  every ruleset, alphabet, lowering and text. Nodes are the prefixes of the tokens, each
  with its own word and one parent (`TrieInv`). An edge, once it is there, leads to the longest
  suffix of its node's word and its byte that is a node (`EdgesRight`), which `LongestStep`
  carries along a text and `FailureOvertakes` along failure nodes. Levels: what lies above
  the current node is complete, its own level is complete or queued, and so are the
  children found (`LevelInv`, `QueueInv`); hence a failure node is complete when it is used, and no
  node is left when the queue is empty. A node found holds every rule whose token ends
  its word (`FoundInv`), so what `Scan` adds to `seen` is what has just occurred (`OccursAppend`).
  The assumption that what `strings.ToLower` returns has no ASCII capital is needed:
  `insert` lowers tokens a second time.

Only model-checked: liveness (`EveryCallReturns`, `CallsReturn`, `CloseReturns`,
`SignalReloads`, `ReloaderExits`), which is out of the prover's reach.

## 5. Plan and what is not modelled

Done, in this order: the request path with the scripts, the limiter's abstract
specification; bans, penalties and the background pipeline; faults and restarts; the
bloom filter; self-healing; the snapshot life cycle; the configuration; hot reload;
the behaviour tracker; the matcher; the proofs above.

Every invariant and action property that a run checks has a theorem.

Not modelled, because no state of theirs can go wrong:

* rules, evaluators and presets (`rule.go`, `rules/`): pure string predicates; their sum is
  the score;
* adapters and helpers (`middleware_http.go`, `frameworks.go`, `helpers.go`): they turn a
  decision into headers and a status code;
* metrics, stats, tracing: no influence on decisions;
* the agent and the CLI (`cmd/`): they read Redis and print; examples.

Within the modelled parts, left out: the default Redis client and the error returns of
`NewEngine`, which leave no engine; strings, callbacks and collectors of the
configuration; the recency order of the LRU (any victim is allowed); the texts a
request is turned into for matching (`requestAnyText`, `headersText`); float64 rounding.
