------------------------------- MODULE Engine -------------------------------
(***************************************************************************)
(* GuardGo's engine: several engine instances (processes of a deployment)  *)
(* that share one Redis.  Each instance has request goroutines running     *)
(* Process and background workers running processSnapshot; both use the    *)
(* instance's blacklist cache, penalty box, bloom filter and analysis      *)
(* queue.                                                                  *)
(*                                                                         *)
(* One action is one access to state that another goroutine or instance    *)
(* can touch: a critical section of a local cache, a bloom test, a channel *)
(* send, a Lua script, one command of a (non-transactional) pipeline.      *)
(* Every Redis call also has a fault action: the command may or may not    *)
(* have been applied, and the client either retries it or returns an error.*)
(*                                                                         *)
(* Abstracted: an instant is a natural number and hosts share one clock;   *)
(* rule scores are chosen from Scores; the limit computed by self-healing  *)
(* is chosen from Cfg.EffLimits; the bloom filter is the set of added      *)
(* addresses plus arbitrary false positives; an LRU victim is arbitrary.   *)
(***************************************************************************)
EXTENDS RedisLua, EngineConfig, Sequences, FiniteSets

CONSTANTS
  Instance,     \* engine instances
  Thread,       \* request goroutines
  Worker,       \* background workers
  EngineOf,     \* the instance a goroutine belongs to
  IP, NoIP,     \* client addresses; NoIP is the empty string, and may be in IP
  Key, NoKey,   \* counter keys (every IP is one); NoKey: KeyFunc returned ""
  FP,           \* fingerprints
  Request,      \* requests clients send: records [ip, key, fp, ok]
  NoRequest,
  Scores,       \* what the rules, evaluators and trackers may add up to
  Cfg,          \* MiddlewareConfig after withDefaults (EngineCfg)
  CacheGrace,   \* the 2 s for which a Redis ban is cached
  MaxTime, MaxIssued, MaxFaults, MaxRestarts   \* bounds for model checking

Proc == Thread \cup Worker

ASSUME ProcAssumption ==
  /\ Thread \cap Worker = {}
  /\ EngineOf \in [Proc -> Instance]
ASSUME KeyAssumption ==
  /\ IP \subseteq Key
  /\ NoKey \notin Key
ASSUME RequestAssumption ==
  /\ Request \subseteq [ip : IP, key : Key \cup {NoKey}, fp : FP, ok : BOOLEAN]
  /\ NoRequest \notin Request
ASSUME ScoresAssumption == Scores \subseteq Nat
ASSUME CfgAssumption == EngineAssumes(Cfg)
ASSUME BoundAssumption ==
  /\ CacheGrace \in Nat \ {0}
  /\ {MaxTime, MaxIssued, MaxFaults, MaxRestarts} \subseteq Nat

VARIABLES
  clock,
  rl, bl, pen, att, thr, rep,   \* Redis: counters, bans, penalties, attempts, threats, scores
  cache, pbox,                  \* [Instance -> [IP -> expiry]], 0 if not cached
  bloom,                        \* [Instance -> addresses added]
  queue,                        \* [Instance -> analysisCh]
  proc,                         \* control state of every goroutine
  dec,                          \* last decision of every request goroutine
  issued, faults, restarts,     \* what the bounds count
  granted,   \* history: requests the script granted in a key's present window
  passed,    \* history: requests allowed in it without the script's answer
  known,     \* history: addresses an instance has put into its blacklist cache
  banned,    \* history: addresses ever blacklisted in Redis
  answered   \* history: addresses a worker has banned since their threat counter began

redis  == <<rl, bl, pen, att, thr, rep>>
local  == <<cache, pbox, bloom, queue>>
bounds == <<issued, faults, restarts>>
hist   == <<granted, passed, known, banned, answered>>
vars   == <<clock, redis, local, proc, dec, bounds, hist>>

-----------------------------------------------------------------------------
(* Goroutines and decisions *)

Idle == [pc |-> "idle", req |-> NoRequest, now |-> 0, lim |-> 0, ttl |-> 0, n |-> 0]

ThreadPC == {"cache", "pbox", "pttl", "pboxput", "bloom", "lua", "blcache", "enq"}
BanPC    == {"sadd", "pexpire", "bancache", "bloomadd"}
WorkerPC == {"rep", "setpen", "penput", "repcache", "repbloom", "threat", "threxp"}

ProcState == [pc : {"idle"} \cup ThreadPC \cup BanPC \cup WorkerPC,
              req : Request \cup {NoRequest},
              now : Nat, lim : 0..Cfg.MaxRequests, ttl : Nat, n : Nat]

Reason == {"allowed", "rate_limited", "blacklisted", "redis_error", "fail_open",
           "penalty_forbidden"}

NoDecision == [reason |-> "none", lua |-> FALSE, limit |-> 0, remaining |-> 0, resetAt |-> 0]

DecisionType == [reason : Reason \cup {"none"}, lua : BOOLEAN,
                 limit : Nat, remaining : Nat, resetAt : Nat]

\* Mutant: the script's ttl ignored.
DecisionIgnoresTTL(reason, lua, counter, limit, now, ttl) ==
  [reason |-> reason, lua |-> lua, limit |-> limit,
   remaining |-> IF limit > counter THEN limit - counter ELSE 0,
   resetAt |-> now + Cfg.Window]

\* newDecisionWithTTL; lua tells the answers of the critical-path script from
\* those given without it (newDecision).
newDecisionWithTTL(reason, lua, counter, limit, now, ttl) ==
  [reason |-> reason, lua |-> lua, limit |-> limit,
   remaining |-> IF limit > counter THEN limit - counter ELSE 0,
   resetAt |-> now + (IF ttl <= 0 THEN Cfg.Window ELSE ttl)]

newDecision(reason, limit, now) ==
  newDecisionWithTTL(reason, FALSE, 0, limit, now, Cfg.Window)

Goto(p, s)   == proc' = [proc EXCEPT ![p] = s]
Decide(t, d) == dec' = [dec EXCEPT ![t] = d]

\* shouldEnqueueAnalysis: an allowed request is queued, or the call is over.
Enqueueing(s) == IF Cfg.Background THEN [s EXCEPT !.pc = "enq"] ELSE Idle

KeyOf(q) == IF q.key = NoKey THEN q.ip ELSE q.key

-----------------------------------------------------------------------------
(* The local caches: blacklist.Cache over an LRU of CacheSize entries *)

Cached(m) == {ip \in IP : m[ip] # 0}

IsBlacklisted(m, ip, now) == m[ip] > now

\* What is left after a lookup at now: an expired entry is removed.
Looked(m, ip, now) == IF m[ip] <= now THEN [m EXCEPT ![ip] = 0] ELSE m

\* The contents Blacklist(ip, until) may leave: adding an entry to a full
\* cache evicts another.
Blacklist(m, ip, until) ==
  IF m[ip] # 0 \/ Cardinality(Cached(m)) < Cfg.CacheSize
  THEN {[m EXCEPT ![ip] = until]}
  ELSE {[m EXCEPT ![ip] = until, ![v] = 0] : v \in Cached(m)}

CachePut(e, ip, until) ==
  /\ \E m \in Blacklist(cache[e], ip, until) : cache' = [cache EXCEPT ![e] = m]
  /\ known' = [known EXCEPT ![e] = @ \cup {ip}]

PboxPut(e, ip, until) ==
  \E m \in Blacklist(pbox[e], ip, until) : pbox' = [pbox EXCEPT ![e] = m]

-----------------------------------------------------------------------------
(* Init *)

Init ==
  /\ clock = 1
  /\ rl = [k \in Key |-> Absent]
  /\ bl = [i \in IP |-> Absent] /\ pen = [i \in IP |-> Absent]
  /\ att = [i \in IP |-> Absent] /\ thr = [i \in IP |-> Absent]
  /\ rep = [score |-> [f \in IP \X FP |-> 0], exp |-> Never]
  /\ cache = [e \in Instance |-> [i \in IP |-> 0]]
  /\ pbox  = [e \in Instance |-> [i \in IP |-> 0]]
  /\ bloom = [e \in Instance |-> {}]
  /\ queue = [e \in Instance |-> <<>>]
  /\ proc = [p \in Proc |-> Idle]
  /\ dec  = [t \in Thread |-> NoDecision]
  /\ issued = 0 /\ faults = 0 /\ restarts = 0
  /\ granted = [k \in Key |-> 0] /\ passed = [k \in Key |-> 0]
  /\ known = [e \in Instance |-> {}]
  /\ banned = {} /\ answered = {}

-----------------------------------------------------------------------------
(* Process *)

\* After the penalty check: the bloom filter if there is one, else the script.
PastPenalty(s) == [s EXCEPT !.pc = IF Cfg.Bloom THEN "bloom" ELSE "lua"]

\* Mutant: a limit one above the one computed.
ArriveOverLimit(t, q, limit) ==
  /\ proc[t].pc = "idle"
  /\ issued < MaxIssued
  /\ issued' = issued + 1
  /\ Goto(t, [pc |-> IF q.ip = NoIP THEN "lua" ELSE "cache", req |-> q,
              now |-> clock, lim |-> limit + 1, ttl |-> 0, n |-> 0])
  /\ dec' = [dec EXCEPT ![t] = NoDecision]
  /\ UNCHANGED <<clock, redis, local, faults, restarts, hist>>

\* Process starts: the instant, the address, the key and the effective limit
\* are read once and used to the end of the call.
Arrive(t, q, limit) ==
  /\ proc[t].pc = "idle"
  /\ issued < MaxIssued
  /\ issued' = issued + 1
  /\ Goto(t, [pc |-> IF q.ip = NoIP THEN "lua" ELSE "cache", req |-> q,
              now |-> clock, lim |-> limit, ttl |-> 0, n |-> 0])
  /\ dec' = [dec EXCEPT ![t] = NoDecision]
  /\ UNCHANGED <<clock, redis, local, faults, restarts, hist>>

CacheCheck(t) ==
  LET s == proc[t]
      e == EngineOf[t]
  IN  /\ s.pc = "cache"
      /\ IF IsBlacklisted(cache[e], s.req.ip, s.now)
         THEN /\ Decide(t, newDecision("blacklisted", s.lim, s.now))
              /\ Goto(t, Idle)
              /\ UNCHANGED cache
         ELSE /\ Goto(t, [s EXCEPT !.pc = "pbox"])
              /\ cache' = [cache EXCEPT ![e] = Looked(@, s.req.ip, s.now)]
              /\ UNCHANGED dec
      /\ UNCHANGED <<clock, redis, pbox, bloom, queue, bounds, hist>>

\* The ban a request earns that fails the penalty checks.
PenaltyBan == IF Cfg.Reputation THEN Cfg.BanLevel3 ELSE Cfg.PenaltyBanTTL

\* Mutant: the limit of a penalised address left as it is.
InPenaltyKeepsLimit(t, s) ==
  IF s.req.ok
  THEN Goto(t, PastPenalty(s)) /\ UNCHANGED dec
  ELSE /\ Goto(t, [s EXCEPT !.pc = "sadd", !.ttl = PenaltyBan])
       /\ Decide(t, newDecisionWithTTL("penalty_forbidden", FALSE, 0, 1, s.now, PenaltyBan))

\* inPenalty: a request that passes the checks goes on under a limit of 1,
\* one that fails them is forbidden, whatever banIP answers.
InPenalty(t, s) ==
  IF s.req.ok
  THEN Goto(t, PastPenalty([s EXCEPT !.lim = IF @ > 1 THEN 1 ELSE @])) /\ UNCHANGED dec
  ELSE /\ Goto(t, [s EXCEPT !.pc = "sadd", !.ttl = PenaltyBan])
       /\ Decide(t, newDecisionWithTTL("penalty_forbidden", FALSE, 0, 1, s.now, PenaltyBan))

\* isInPenalty, first the local penalty box ...
PboxCheck(t) ==
  LET s == proc[t]
      e == EngineOf[t]
  IN  /\ s.pc = "pbox"
      /\ IF IsBlacklisted(pbox[e], s.req.ip, s.now)
         THEN InPenalty(t, s) /\ UNCHANGED pbox
         ELSE /\ Goto(t, [s EXCEPT !.pc = "pttl"])
              /\ pbox' = [pbox EXCEPT ![e] = Looked(@, s.req.ip, s.now)]
              /\ UNCHANGED dec
      /\ UNCHANGED <<clock, redis, cache, bloom, queue, bounds, hist>>

\* ... then Redis ...
PenaltyTTLReply(t) ==
  LET s == proc[t]
      ttl == PTTL(pen[s.req.ip], clock)
  IN  /\ s.pc = "pttl"
      /\ Goto(t, IF ttl <= 0 THEN PastPenalty(s) ELSE [s EXCEPT !.pc = "pboxput", !.ttl = ttl])
      /\ UNCHANGED <<clock, redis, local, dec, bounds, hist>>

\* ... whose error counts as "not in penalty" ...
PenaltyTTLError(t) ==
  /\ proc[t].pc = "pttl"
  /\ faults < MaxFaults
  /\ faults' = faults + 1
  /\ Goto(t, PastPenalty(proc[t]))
  /\ UNCHANGED <<clock, redis, local, dec, issued, restarts, hist>>

\* ... and whose positive answer is cached, counted from the stale now.
PenaltyCached(t) ==
  LET s == proc[t]
  IN  /\ s.pc = "pboxput"
      /\ PboxPut(EngineOf[t], s.req.ip, s.now + s.ttl)
      /\ InPenalty(t, s)
      /\ UNCHANGED <<clock, redis, cache, bloom, queue, bounds, hist>>

\* Mutant: a filter that forgets.
BloomTestForgetful(t, maybe) ==
  LET s == proc[t]
  IN  /\ s.pc = "bloom" /\ Cfg.Bloom
      /\ IF maybe
         THEN Goto(t, [s EXCEPT !.pc = "lua"]) /\ UNCHANGED <<dec, passed>>
         ELSE /\ Decide(t, newDecision("allowed", s.lim, s.now))
              /\ Goto(t, Enqueueing(s))
              /\ passed' = [passed EXCEPT ![KeyOf(s.req)] = @ + 1]
      /\ UNCHANGED <<clock, redis, local, bounds, granted, known, banned, answered>>

\* A negative test allows the request with no Redis round trip; maybe is the
\* filter's answer, TRUE for every address added and for any other at will.
BloomTest(t, maybe) ==
  LET s == proc[t]
  IN  /\ s.pc = "bloom" /\ Cfg.Bloom
      /\ s.req.ip \in bloom[EngineOf[t]] => maybe
      /\ IF maybe
         THEN Goto(t, [s EXCEPT !.pc = "lua"]) /\ UNCHANGED <<dec, passed>>
         ELSE /\ Decide(t, newDecision("allowed", s.lim, s.now))
              /\ Goto(t, Enqueueing(s))
              /\ passed' = [passed EXCEPT ![KeyOf(s.req)] = @ + 1]
      /\ UNCHANGED <<clock, redis, local, bounds, granted, known, banned, answered>>

ScriptResult(s) ==
  CriticalPathScript(bl[s.req.ip], rl[KeyOf(s.req)], Cfg.Window, s.lim, clock)

CodeReason(code) == CASE code = 2 -> "blacklisted"
                      [] code = 1 -> "rate_limited"
                      [] OTHER    -> "allowed"

\* The script answers 2 (blacklisted), 1 (rate limited) or 0 (allowed).
CriticalPathReply(t) ==
  LET s == proc[t]
      k == KeyOf(s.req)
      r == ScriptResult(s)
  IN  /\ s.pc = "lua"
      /\ rl' = [rl EXCEPT ![k] = r.rl]
      /\ Decide(t, newDecisionWithTTL(CodeReason(r.code), TRUE, r.cur, s.lim, s.now, r.ttl))
      /\ Goto(t, CASE r.code = 2 -> [s EXCEPT !.pc = "blcache"]
                   [] r.code = 1 -> Idle
                   [] OTHER      -> Enqueueing(s))
      /\ granted' = [granted EXCEPT ![k] = IF r.code = 0 THEN @ + 1 ELSE @]
      /\ UNCHANGED <<clock, bl, pen, att, thr, rep, local, bounds, passed, known, banned, answered>>

\* The reply is lost or the call fails (applied: after or before the script
\* ran); the client retries or gives up, and then FailOpen decides.
CriticalPathFault(t, applied, retry) ==
  LET s == proc[t]
      open == Cfg.FailOpen
  IN  /\ s.pc = "lua"
      /\ faults < MaxFaults
      /\ faults' = faults + 1
      /\ rl' = IF applied THEN [rl EXCEPT ![KeyOf(s.req)] = ScriptResult(s).rl] ELSE rl
      /\ IF retry
         THEN UNCHANGED <<proc, dec, passed>>
         ELSE /\ Decide(t, newDecision(IF open THEN "fail_open" ELSE "redis_error",
                                       s.lim, s.now))
              /\ Goto(t, IF open THEN Enqueueing(s) ELSE Idle)
              /\ passed' = [passed EXCEPT ![KeyOf(s.req)] = IF open THEN @ + 1 ELSE @]
      /\ UNCHANGED <<clock, bl, pen, att, thr, rep, local, issued, restarts,
                     granted, known, banned, answered>>

\* Code 2: the ban is cached for CacheGrace from the stale now.
CacheRedisBan(t) ==
  LET s == proc[t]
  IN  /\ s.pc = "blcache"
      /\ CachePut(EngineOf[t], s.req.ip, s.now + CacheGrace)
      /\ Goto(t, IF s.req.ip # NoIP /\ Cfg.Bloom THEN [s EXCEPT !.pc = "bloomadd"] ELSE Idle)
      /\ UNCHANGED <<clock, redis, pbox, bloom, queue, dec, bounds, granted, passed, banned, answered>>

\* Mutant: a send that waits for room.
EnqueueBlocking(t) ==
  LET s == proc[t]
      e == EngineOf[t]
  IN  /\ s.pc = "enq"
      /\ Len(queue[e]) < Cfg.QueueSize
      /\ queue' = [queue EXCEPT ![e] = Append(@, s.req)]
      /\ Goto(t, Idle)
      /\ UNCHANGED <<clock, redis, cache, pbox, bloom, dec, bounds, hist>>

\* tryEnqueue: queued if there is room, else dropped.
Enqueue(t) ==
  LET s == proc[t]
      e == EngineOf[t]
  IN  /\ s.pc = "enq"
      /\ queue' = [queue EXCEPT ![e] = IF Len(@) < Cfg.QueueSize THEN Append(@, s.req) ELSE @]
      /\ Goto(t, Idle)
      /\ UNCHANGED <<clock, redis, cache, pbox, bloom, dec, bounds, hist>>

-----------------------------------------------------------------------------
(* banIP: SADD and PEXPIRE in one pipeline, then the local cache and the  *)
(* bloom filter.  A request goroutine and a worker both end their work    *)
(* with it.                                                                *)

BanIP_SAdd(p) ==
  LET s == proc[p]
  IN  /\ s.pc = "sadd"
      /\ bl' = [bl EXCEPT ![s.req.ip] = SAdd(@)]
      /\ banned' = banned \cup {s.req.ip}
      /\ answered' = IF p \in Worker /\ Live(thr[s.req.ip])
                     THEN answered \cup {s.req.ip} ELSE answered
      /\ Goto(p, [s EXCEPT !.pc = "pexpire"])
      /\ UNCHANGED <<clock, rl, pen, att, thr, rep, local, dec, bounds, granted, passed, known>>

\* Mutant: the expiry left out.
BanIP_NoPExpire(p) ==
  LET s == proc[p]
  IN  /\ s.pc = "pexpire"
      /\ Goto(p, [s EXCEPT !.pc = "bancache"])
      /\ UNCHANGED <<clock, redis, local, dec, bounds, hist>>

BanIP_PExpire(p) ==
  LET s == proc[p]
  IN  /\ s.pc = "pexpire"
      /\ bl' = [bl EXCEPT ![s.req.ip] = PExpire(@, s.ttl, clock)]
      /\ Goto(p, [s EXCEPT !.pc = "bancache"])
      /\ UNCHANGED <<clock, rl, pen, att, thr, rep, local, dec, bounds, hist>>

\* Mutant: the error of the pipeline does not stop the local ban.
BanIP_FaultIgnored(p, applied, retry) ==
  LET s == proc[p]
      k == IF s.pc = "sadd" THEN SAdd(bl[s.req.ip]) ELSE PExpire(bl[s.req.ip], s.ttl, clock)
  IN  /\ s.pc \in {"sadd", "pexpire"}
      /\ faults < MaxFaults
      /\ faults' = faults + 1
      /\ bl' = IF applied THEN [bl EXCEPT ![s.req.ip] = k] ELSE bl
      /\ banned' = IF applied /\ s.pc = "sadd" THEN banned \cup {s.req.ip} ELSE banned
      /\ Goto(p, [s EXCEPT !.pc = IF retry THEN "sadd" ELSE "bancache"])
      /\ UNCHANGED <<clock, rl, pen, att, thr, rep, local, dec, issued, restarts,
                     granted, passed, known, answered>>

\* The pipeline fails at either command.  A retry sends both again; an error
\* returns before anything is done locally.
BanIP_Fault(p, applied, retry) ==
  LET s == proc[p]
      k == IF s.pc = "sadd" THEN SAdd(bl[s.req.ip]) ELSE PExpire(bl[s.req.ip], s.ttl, clock)
  IN  /\ s.pc \in {"sadd", "pexpire"}
      /\ faults < MaxFaults
      /\ faults' = faults + 1
      /\ bl' = IF applied THEN [bl EXCEPT ![s.req.ip] = k] ELSE bl
      /\ banned' = IF applied /\ s.pc = "sadd" THEN banned \cup {s.req.ip} ELSE banned
      /\ Goto(p, IF retry THEN [s EXCEPT !.pc = "sadd"] ELSE Idle)
      /\ UNCHANGED <<clock, rl, pen, att, thr, rep, local, dec, issued, restarts,
                     granted, passed, known, answered>>

\* Mutant: the address left out of the bloom filter.
BanIP_CacheOnly(p) ==
  LET s == proc[p]
  IN  /\ s.pc = "bancache"
      /\ CachePut(EngineOf[p], s.req.ip, clock + s.ttl)
      /\ Goto(p, Idle)
      /\ UNCHANGED <<clock, redis, pbox, bloom, queue, dec, bounds, granted, passed, banned, answered>>

BanIP_Cache(p) ==
  LET s == proc[p]
  IN  /\ s.pc = "bancache"
      /\ CachePut(EngineOf[p], s.req.ip, clock + s.ttl)
      /\ Goto(p, IF Cfg.Bloom THEN [s EXCEPT !.pc = "bloomadd"] ELSE Idle)
      /\ UNCHANGED <<clock, redis, pbox, bloom, queue, dec, bounds, granted, passed, banned, answered>>

\* Also the last step of Process for an address the script found banned.
BloomAdd(p) ==
  LET s == proc[p]
  IN  /\ s.pc = "bloomadd"
      /\ bloom' = [bloom EXCEPT ![EngineOf[p]] = @ \cup {s.req.ip}]
      /\ Goto(p, Idle)
      /\ UNCHANGED <<clock, redis, cache, pbox, queue, dec, bounds, hist>>

-----------------------------------------------------------------------------
(* bgWorker and processSnapshot *)

\* What follows the reputation part: the threat counter of AdaptiveBan.
PastReputation(s) == IF Cfg.Adaptive THEN [s EXCEPT !.pc = "threat"] ELSE Idle

\* A worker takes a snapshot and scores it.
Dequeue(w, score) ==
  LET e == EngineOf[w]
      q == Head(queue[e])
      s == [pc |-> "rep", req |-> q, now |-> 0, lim |-> 0, ttl |-> 0, n |-> score]
  IN  /\ proc[w].pc = "idle"
      /\ queue[e] # <<>>
      /\ queue' = [queue EXCEPT ![e] = Tail(@)]
      /\ Goto(w, IF score <= 0 \/ q.ip = NoIP THEN Idle
                 ELSE IF Cfg.Reputation THEN s
                 ELSE IF score >= Cfg.ScoreThreshold
                      THEN [s EXCEPT !.pc = "setpen", !.ttl = Cfg.BehPenaltyTTL]
                 ELSE PastReputation(s))
      /\ UNCHANGED <<clock, redis, cache, pbox, bloom, dec, bounds, hist>>

RepResult(s) ==
  LET ip == s.req.ip
  IN  ReputationScript([rep |-> rep, pen |-> pen[ip], bl |-> bl[ip], att |-> att[ip]],
                       <<ip, s.req.fp>>, s.n, Cfg, clock)

\* The script's writes.
RepWrites(ip, r) ==
  /\ rep' = r.rep
  /\ pen' = [pen EXCEPT ![ip] = r.pen]
  /\ bl'  = [bl  EXCEPT ![ip] = r.bl]
  /\ att' = [att EXCEPT ![ip] = r.att]
  /\ banned' = IF r.action = 2 THEN banned \cup {ip} ELSE banned

ReputationReply(w) ==
  LET s == proc[w]
      r == RepResult(s)
  IN  /\ s.pc = "rep"
      /\ RepWrites(s.req.ip, r)
      /\ Goto(w, CASE r.action = 1 -> [s EXCEPT !.pc = "setpen", !.ttl = Cfg.PenaltyTTL]
                   [] r.action = 2 -> [s EXCEPT !.pc = "repcache", !.ttl = r.ttl]
                   [] OTHER        -> PastReputation(s))
      /\ UNCHANGED <<clock, rl, thr, local, dec, bounds, granted, passed, known, answered>>

\* The script's reply is lost or the call fails; an error skips to AdaptiveBan.
ReputationFault(w, applied, retry) ==
  LET s == proc[w]
  IN  /\ s.pc = "rep"
      /\ faults < MaxFaults
      /\ faults' = faults + 1
      /\ IF applied THEN RepWrites(s.req.ip, RepResult(s))
                    ELSE UNCHANGED <<rep, pen, bl, att, banned>>
      /\ Goto(w, IF retry THEN s ELSE PastReputation(s))
      /\ UNCHANGED <<clock, rl, thr, local, dec, issued, restarts,
                     granted, passed, known, answered>>

\* setPenalty: Redis ...
SetPenalty(w) ==
  LET s == proc[w]
  IN  /\ s.pc = "setpen"
      /\ pen' = [pen EXCEPT ![s.req.ip] = SetPX(s.ttl, clock)]
      /\ Goto(w, [s EXCEPT !.pc = "penput"])
      /\ UNCHANGED <<clock, rl, bl, att, thr, rep, local, dec, bounds, hist>>

SetPenaltyFault(w, applied, retry) ==
  LET s == proc[w]
  IN  /\ s.pc = "setpen"
      /\ faults < MaxFaults
      /\ faults' = faults + 1
      /\ pen' = IF applied THEN [pen EXCEPT ![s.req.ip] = SetPX(s.ttl, clock)] ELSE pen
      /\ Goto(w, IF retry THEN s ELSE PastReputation(s))
      /\ UNCHANGED <<clock, rl, bl, att, thr, rep, local, dec, issued, restarts, hist>>

\* ... then the local penalty box.
PenaltyPut(w) ==
  LET s == proc[w]
  IN  /\ s.pc = "penput"
      /\ PboxPut(EngineOf[w], s.req.ip, clock + s.ttl)
      /\ Goto(w, PastReputation(s))
      /\ UNCHANGED <<clock, redis, cache, bloom, queue, dec, bounds, hist>>

\* Action 2: the ban the script wrote is repeated locally.
ReputationBanCache(w) ==
  LET s == proc[w]
  IN  /\ s.pc = "repcache"
      /\ CachePut(EngineOf[w], s.req.ip, clock + s.ttl)
      /\ Goto(w, IF Cfg.Bloom THEN [s EXCEPT !.pc = "repbloom"] ELSE PastReputation(s))
      /\ UNCHANGED <<clock, redis, pbox, bloom, queue, dec, bounds, granted, passed, banned, answered>>

ReputationBanBloom(w) ==
  LET s == proc[w]
  IN  /\ s.pc = "repbloom"
      /\ bloom' = [bloom EXCEPT ![EngineOf[w]] = @ \cup {s.req.ip}]
      /\ Goto(w, PastReputation(s))
      /\ UNCHANGED <<clock, redis, cache, pbox, queue, dec, bounds, hist>>

\* AdaptiveBan's pipeline: INCR ...
ThreatIncr(w) ==
  LET s == proc[w]
      k == Incr(thr[s.req.ip])
  IN  /\ s.pc = "threat"
      /\ thr' = [thr EXCEPT ![s.req.ip] = k]
      /\ Goto(w, [s EXCEPT !.pc = "threxp", !.n = k.v])
      /\ UNCHANGED <<clock, rl, bl, pen, att, rep, local, dec, bounds, hist>>

\* Mutant: the ban one threat late.
ThreatExpireLate(w) ==
  LET s == proc[w]
  IN  /\ s.pc = "threxp"
      /\ thr' = [thr EXCEPT ![s.req.ip] = PExpire(@, Cfg.ThreatKeyWindow, clock)]
      /\ Goto(w, IF s.n > Cfg.ThreatCountThreshold
                 THEN [s EXCEPT !.pc = "sadd", !.ttl = Cfg.AdaptiveBanTTL] ELSE Idle)
      /\ UNCHANGED <<clock, rl, bl, pen, att, rep, local, dec, bounds, hist>>

\* ... and PEXPIRE, which every threat renews; then the ban if it is due.
ThreatExpire(w) ==
  LET s == proc[w]
  IN  /\ s.pc = "threxp"
      /\ thr' = [thr EXCEPT ![s.req.ip] = PExpire(@, Cfg.ThreatKeyWindow, clock)]
      /\ Goto(w, IF s.n >= Cfg.ThreatCountThreshold
                 THEN [s EXCEPT !.pc = "sadd", !.ttl = Cfg.AdaptiveBanTTL] ELSE Idle)
      /\ UNCHANGED <<clock, rl, bl, pen, att, rep, local, dec, bounds, hist>>

\* The pipeline fails at either command; an error ends the analysis.
ThreatFault(w, applied, retry) ==
  LET s == proc[w]
      k == IF s.pc = "threat" THEN Incr(thr[s.req.ip])
                              ELSE PExpire(thr[s.req.ip], Cfg.ThreatKeyWindow, clock)
  IN  /\ s.pc \in {"threat", "threxp"}
      /\ faults < MaxFaults
      /\ faults' = faults + 1
      /\ thr' = IF applied THEN [thr EXCEPT ![s.req.ip] = k] ELSE thr
      /\ Goto(w, IF retry THEN [s EXCEPT !.pc = "threat"] ELSE Idle)
      /\ UNCHANGED <<clock, rl, bl, pen, att, rep, local, dec, issued, restarts, hist>>

-----------------------------------------------------------------------------
(* The environment *)

ExpireAll(f, t) == [x \in DOMAIN f |-> Expire(f[x], t)]

\* Time passes and Redis drops the keys whose expiry has passed.
Tick ==
  LET t == clock + 1
  IN  /\ clock < MaxTime
      /\ clock' = t
      /\ rl' = ExpireAll(rl, t) /\ bl' = ExpireAll(bl, t) /\ pen' = ExpireAll(pen, t)
      /\ att' = ExpireAll(att, t) /\ thr' = ExpireAll(thr, t)
      /\ rep' = IF rep.exp # Never /\ rep.exp < t
                THEN [score |-> [f \in DOMAIN rep.score |-> 0], exp |-> Never] ELSE rep
      /\ granted' = [k \in Key |-> IF Live(Expire(rl[k], t)) THEN granted[k] ELSE 0]
      /\ passed'  = [k \in Key |-> IF Live(Expire(rl[k], t)) THEN passed[k] ELSE 0]
      /\ answered' = {i \in answered : Live(Expire(thr[i], t))}
      /\ UNCHANGED <<local, proc, dec, bounds, known, banned>>

\* The process of an instance dies and is started again: NewEngine gives it
\* empty caches, an empty filter and an empty queue; Redis keeps its keys.
Restart(e) ==
  /\ restarts < MaxRestarts
  /\ restarts' = restarts + 1
  /\ cache' = [cache EXCEPT ![e] = [i \in IP |-> 0]]
  /\ pbox'  = [pbox  EXCEPT ![e] = [i \in IP |-> 0]]
  /\ bloom' = [bloom EXCEPT ![e] = {}]
  /\ queue' = [queue EXCEPT ![e] = <<>>]
  /\ known' = [known EXCEPT ![e] = {}]
  /\ proc'  = [p \in Proc |-> IF EngineOf[p] = e THEN Idle ELSE proc[p]]
  /\ UNCHANGED <<clock, redis, dec, issued, faults, granted, passed, banned, answered>>

-----------------------------------------------------------------------------
(* Specification *)

BanStep(p) == \/ BanIP_SAdd(p) \/ BanIP_PExpire(p) \/ BanIP_Cache(p) \/ BloomAdd(p)
              \/ \E applied, retry \in BOOLEAN : BanIP_Fault(p, applied, retry)

\* What a request goroutine does between Process's call and its return.
ThreadStep(t) ==
  \/ CacheCheck(t) \/ PboxCheck(t)
  \/ PenaltyTTLReply(t) \/ PenaltyTTLError(t) \/ PenaltyCached(t)
  \/ \E maybe \in BOOLEAN : BloomTest(t, maybe)
  \/ CriticalPathReply(t) \/ CacheRedisBan(t) \/ Enqueue(t)
  \/ \E applied, retry \in BOOLEAN : CriticalPathFault(t, applied, retry)
  \/ BanStep(t)

WorkerStep(w) ==
  \/ \E score \in Scores : Dequeue(w, score)
  \/ ReputationReply(w) \/ SetPenalty(w) \/ PenaltyPut(w)
  \/ ReputationBanCache(w) \/ ReputationBanBloom(w)
  \/ ThreatIncr(w) \/ ThreatExpire(w)
  \/ \E applied, retry \in BOOLEAN : \/ ReputationFault(w, applied, retry)
                                     \/ SetPenaltyFault(w, applied, retry)
                                     \/ ThreatFault(w, applied, retry)
  \/ BanStep(w)

Next ==
  \/ \E t \in Thread : \/ \E q \in Request, limit \in Cfg.EffLimits : Arrive(t, q, limit)
                       \/ ThreadStep(t)
  \/ \E w \in Worker : WorkerStep(w)
  \/ Tick
  \/ \E e \in Instance : Restart(e)

Spec == Init /\ [][Next]_vars

\* Goroutines that are in the middle of a call are scheduled, and every Redis call
\* returns: the client bounds it by its timeouts, processSnapshot by a context.
\* Nothing is assumed of time, of clients or of a worker taking the next snapshot.
FairSpec ==
  /\ Spec
  /\ \A t \in Thread : WF_vars(ThreadStep(t))
  /\ \A w \in Worker : WF_vars(proc[w].pc # "idle" /\ WorkerStep(w))

-----------------------------------------------------------------------------
(* Properties *)

RedisOK ==
  /\ clock \in Nat
  /\ rl \in [Key -> RedisKey]
  /\ bl \in [IP -> RedisKey] /\ pen \in [IP -> RedisKey]
  /\ att \in [IP -> RedisKey] /\ thr \in [IP -> RedisKey]
  /\ rep \in [score : [IP \X FP -> Nat], exp : Nat]

LocalOK ==
  /\ cache \in [Instance -> [IP -> Nat]] /\ pbox \in [Instance -> [IP -> Nat]]
  /\ bloom \in [Instance -> SUBSET IP]
  /\ queue \in [Instance -> Seq(Request)]

GoroutinesOK ==
  /\ proc \in [Proc -> ProcState]
  /\ \A p \in Proc : proc[p].pc # "idle" => proc[p].req \in Request
  /\ dec \in [Thread -> DecisionType]

HistoryOK ==
  /\ issued \in Nat /\ faults \in Nat /\ restarts \in Nat
  /\ granted \in [Key -> Nat] /\ passed \in [Key -> Nat]
  /\ known \in [Instance -> SUBSET IP]
  /\ banned \in SUBSET IP /\ answered \in SUBSET IP

\* Every variable has its type, a goroutine that is not idle has a request, and
\* no request is judged by a limit above MaxRequests.
TypeOK == RedisOK /\ LocalOK /\ GoroutinesOK /\ HistoryOK

\* The calls of a window that FailOpen lets through, at most.
FailedOpen == IF Cfg.FailOpen THEN faults ELSE 0

\* In one window of a key all instances together grant at most MaxRequests requests
\* by the script's answer, whatever replies are lost, retried or applied twice.  What
\* they allow without that answer comes on top: with FailOpen at most one request for
\* each failed call, and nothing else unless there is a bloom filter, whose negative
\* answers allow any number of requests without counting them.
WindowBudget ==
  \A k \in Key : /\ granted[k] <= Cfg.MaxRequests
                 /\ ~Cfg.Bloom => granted[k] + passed[k] <= Cfg.MaxRequests + FailedOpen

\* A live counter always expires, within one Window from now.
CounterExpires ==
  \A k \in Key : Live(rl[k]) => /\ rl[k].exp # Never
                                /\ rl[k].exp >= clock
                                /\ rl[k].exp <= clock + Cfg.Window

\* The rate-limit headers are honest at the moment the script answers: the reset
\* announced lies after the request's arrival and not after the moment the counter
\* really expires, although it is computed from a stale now; and the remaining
\* requests announced, with those granted, are within the limit.  The one exception
\* is the last instant of a counter: Redis still counts the request, answers a TTL
\* of 0, and a whole Window from the request's arrival is announced.
HeadersHonest ==
  [][\A t \in Thread :
       LET d == dec'[t]
           k == KeyOf(proc[t].req)
       IN  (dec[t] # d /\ d.lua /\ d.reason \in {"allowed", "rate_limited"})
           => /\ d.resetAt > proc[t].now
              /\ \/ d.resetAt <= rl'[k].exp
                 \/ rl'[k].exp = clock /\ d.resetAt = proc[t].now + Cfg.Window
              /\ d.remaining + granted'[k] <= Cfg.MaxRequests]_vars

\* An address is in some instance's blacklist cache only if its ban was
\* written to Redis: a failed banIP leaves no local ban behind.
LocalBanBacked == \A e \in Instance : known[e] \subseteq banned

\* The addresses whose bloom entry instance e is about to make.
AddingToBloom(e) ==
  {proc[p].req.ip : p \in {q \in Proc : EngineOf[q] = e /\ proc[q].pc \in {"bloomadd", "repbloom"}}}

\* Whatever an instance has once cached as banned stays in its bloom filter,
\* so that Redis is still asked after the LRU evicts or expires the entry.
KnownStaysInBloom ==
  Cfg.Bloom => \A e \in Instance : known[e] \subseteq bloom[e] \cup AddingToBloom(e)

\* A request of an address that is banned in Redis and that its instance has learnt
\* of, also when the local entry was evicted, cut to two seconds or has expired, is
\* neither allowed nor counted - unless the very call that would have told of the ban
\* fails and FailOpen lets the request through.
BanBinds ==
  [][\A t \in Thread :
       LET i == proc[t].req.ip
           e == EngineOf[t]
           r == dec'[t].reason
       IN  (dec'[t] # dec[t] /\ r \in {"allowed", "rate_limited", "fail_open"})
           => \/ ~Live(bl[i])
              \/ Cfg.Bloom /\ i \notin known[e] \ AddingToBloom(e)
              \/ r = "fail_open" /\ Cfg.FailOpen /\ faults' = faults + 1]_vars

\* A live key expires, after at most one of the durations in D.
ExpiresWithin(k, D) ==
  Live(k) => k.exp # Never /\ k.exp >= clock /\ \E d \in D : k.exp <= clock + d

BanTTLs == {Cfg.BanLevel1, Cfg.BanLevel2, Cfg.BanLevel3, Cfg.PenaltyBanTTL, Cfg.AdaptiveBanTTL}

\* The one duration penalties are set for: the script's and setPenalty's under
\* reputation, the behaviour tracker's without it.
PenaltyDuration == IF Cfg.Reputation THEN Cfg.PenaltyTTL ELSE Cfg.BehPenaltyTTL

\* Goroutine p is between the two commands of a pipeline on a key of i.
Between(p, pc, i) == proc[p].pc = pc /\ proc[p].req.ip = i

PenaltiesExpire ==
  \A i \in IP : /\ ExpiresWithin(pen[i], {PenaltyDuration})
                /\ ExpiresWithin(att[i], {Cfg.BackoffWindow})

ScoresExpire ==
  /\ rep.exp = Never => \A f \in IP \X FP : rep.score[f] = 0
  /\ rep.exp # Never => rep.exp \in clock..(clock + Cfg.ScoreWindow)

PipelinesExpire ==
  (faults = 0 /\ restarts = 0) => \A i \in IP :
    /\ ExpiresWithin(bl[i], BanTTLs) \/ \E p \in Proc : Between(p, "pexpire", i)
    /\ ExpiresWithin(thr[i], {Cfg.ThreatKeyWindow}) \/ \E p \in Proc : Between(p, "threxp", i)

\* Nothing Redis holds stays for ever or longer than it was configured to: neither
\* penalties, attempts and scores, whatever fails, nor bans and threat counts, unless
\* a call failed or a process died between the commands of a pipeline.
KeysExpire == PenaltiesExpire /\ ScoresExpire /\ PipelinesExpire

\* An address whose threat counter stands at ThreatCountThreshold or above has been
\* banned by a worker since that counter began, or the worker whose increment reached
\* it is on its way to: however the increments of several workers interleave, and
\* again for every counter that follows.  A failed call drops the ban by design.
ThreatAnswered ==
  (faults = 0 /\ restarts = 0) => \A i \in IP :
    (Live(thr[i]) /\ thr[i].v >= Cfg.ThreatCountThreshold) =>
      \/ i \in answered
      \/ \E w \in Worker : \/ Between(w, "sadd", i)
                           \/ Between(w, "threxp", i) /\ proc[w].n >= Cfg.ThreatCountThreshold

\* While an address's attempt counter lives, a further attack never shortens
\* the ban it already has (reputation bans alone).
BanEscalates ==
  [][\A i \in IP : (Live(att[i]) /\ Live(att'[i]) /\ Live(bl[i]) /\ Live(bl'[i]))
                   => bl'[i].exp >= bl[i].exp]_vars

\* The instant at which the penalty of i was last set.
PenalisedSince(i) == pen[i].exp - PenaltyDuration

\* A request that arrives under a penalty already in Redis, and is judged by
\* the script while it has time left, passed the penalty checks and is judged with a
\* limit of 1, on any instance, whatever its local penalty box holds.
PenaltyBinds ==
  [][\A t \in Thread :
       LET s == proc[t]
       IN  (/\ dec[t] # dec'[t] /\ dec'[t].lua /\ faults = 0
            /\ PTTL(pen[s.req.ip], clock) > 0 /\ PenalisedSince(s.req.ip) < s.now)
           => dec'[t].limit = 1 /\ s.req.ok]_vars

\* Process and processSnapshot always return: nobody waits for ever on the analysis
\* queue, on a failing Redis or on another goroutine.
EveryCallReturns == \A p \in Proc : []<>(proc[p].pc = "idle")

\* The engines implement the abstract fixed-window limiter.
FW == INSTANCE FixedWindow WITH Window <- Cfg.Window, Max <- Cfg.MaxRequests,
                                deadline <- [k \in Key |-> rl[k].exp]

ImplementsFixedWindow == FW!Spec

-----------------------------------------------------------------------------
(* What the documentation says and the code does not do *)

\* config.go: "BanTTL is the ban duration once ThreatCountThreshold is reached":
\* no ban is for ever once nobody is writing it.
NoPermanentBan ==
  \A i \in IP : (Live(bl[i]) /\ bl[i].exp = Never)
                => \E p \in Proc : proc[p].pc \in {"sadd", "pexpire"} /\ proc[p].req.ip = i
=============================================================================
