---------------------------- MODULE EngineProofs ----------------------------
(***************************************************************************)
(* Proofs about Engine, for any number of instances, goroutines, addresses *)
(* and keys, any configuration and any bounds.                             *)
(***************************************************************************)
EXTENDS Engine, TLAPS

-----------------------------------------------------------------------------
(* The configuration *)

\* What EngineAssumes says of the configuration, for the provers.
LEMMA CfgTypes ==
  /\ Cfg.MaxRequests \in Nat \ {0} /\ Cfg.Window \in Nat \ {0}
  /\ Cfg.EffLimits \subseteq 1..Cfg.MaxRequests
  /\ {Cfg.FailOpen, Cfg.Bloom, Cfg.Background, Cfg.Reputation, Cfg.Adaptive} \subseteq BOOLEAN
  /\ Cfg.CacheSize \in Nat \ {0} /\ Cfg.QueueSize \in Nat \ {0}
  /\ Cfg.ScoreWindow \in Nat \ {0} /\ Cfg.PenaltyTTL \in Nat \ {0}
  /\ Cfg.BackoffWindow \in Nat \ {0} /\ Cfg.BanLevel1 \in Nat \ {0}
  /\ Cfg.BanLevel2 \in Nat \ {0} /\ Cfg.BanLevel3 \in Nat \ {0}
  /\ Cfg.BehPenaltyTTL \in Nat \ {0} /\ Cfg.PenaltyBanTTL \in Nat \ {0}
  /\ Cfg.ThreatKeyWindow \in Nat \ {0} /\ Cfg.AdaptiveBanTTL \in Nat \ {0}
  /\ Cfg.WarningLevel \in Nat /\ Cfg.Threshold \in Nat
  /\ Cfg.ScoreThreshold \in Nat /\ Cfg.ThreatCountThreshold \in Nat
  BY CfgAssumption DEF EngineAssumes

-----------------------------------------------------------------------------
(* The scripts and the helpers *)

\* The commands keep keys well formed.
LEMMA CommandTypes ==
  ASSUME NEW k \in RedisKey, NEW ttl \in Nat, NEW t \in Nat
  PROVE  /\ Absent \in RedisKey /\ Incr(k) \in RedisKey /\ SAdd(k) \in RedisKey
         /\ PExpire(k, ttl, t) \in RedisKey /\ SetPX(ttl, t) \in RedisKey
         /\ Expire(k, t) \in RedisKey /\ PTTL(k, t) \in Int
<1>1. Absent \in RedisKey /\ SetPX(ttl, t) \in RedisKey
  BY DEF RedisKey, Absent, Never, SetPX
<1>2. Incr(k) \in RedisKey
  BY DEF RedisKey, Incr
<1>3. SAdd(k) \in RedisKey
  BY DEF RedisKey, SAdd
<1>4. PExpire(k, ttl, t) \in RedisKey
  BY DEF RedisKey, PExpire
<1>5. Expire(k, t) \in RedisKey
  BY <1>1 DEF Expire
<1>6. PTTL(k, t) \in Int
  BY DEF RedisKey, PTTL
<1> QED BY <1>1, <1>2, <1>3, <1>4, <1>5, <1>6

\* criticalPathLua: the reply is one of three codes and the counter stays a
\* well-formed key.
LEMMA CriticalPathType ==
  ASSUME NEW b \in RedisKey, NEW k \in RedisKey, NEW w \in Nat, NEW limit \in Nat, NEW t \in Nat
  PROVE  LET r == CriticalPathScript(b, k, w, limit, t)
         IN  /\ r.code \in {0, 1, 2} /\ r.rl \in RedisKey
             /\ r.cur \in Nat /\ r.ttl \in Int
<1>1. /\ Incr(k) \in RedisKey /\ PExpire(Incr(k), w, t) \in RedisKey
  BY CommandTypes
<1>2. \A x \in RedisKey : PTTL(x, t) \in Int
  BY CommandTypes
<1>3. k.v + 1 \in Nat
  BY DEF RedisKey
<1> QED BY <1>1, <1>2, <1>3 DEF CriticalPathScript

\* reputationLua leaves well-formed keys and answers one of three actions.
LEMMA ReputationType ==
  ASSUME NEW r0 \in [score : [IP \X FP -> Nat], exp : Nat],
         NEW p \in RedisKey, NEW b \in RedisKey, NEW a \in RedisKey,
         NEW f \in IP \X FP, NEW delta \in Nat, NEW t \in Nat
  PROVE  LET r == ReputationScript([rep |-> r0, pen |-> p, bl |-> b, att |-> a], f, delta, Cfg, t)
         IN  /\ r.rep \in [score : [IP \X FP -> Nat], exp : Nat]
             /\ r.pen \in RedisKey /\ r.bl \in RedisKey /\ r.att \in RedisKey
             /\ r.action \in {0, 1, 2} /\ r.ttl \in Nat
<1> DEFINE keys == [rep |-> r0, pen |-> p, bl |-> b, att |-> a]
           r == ReputationScript(keys, f, delta, Cfg, t)
<1>0. /\ Cfg.ScoreWindow \in Nat /\ Cfg.PenaltyTTL \in Nat /\ Cfg.BackoffWindow \in Nat
      /\ Cfg.BanLevel1 \in Nat /\ Cfg.BanLevel2 \in Nat /\ Cfg.BanLevel3 \in Nat
      /\ Cfg.Threshold \in Nat /\ Cfg.WarningLevel \in Nat
  BY CfgTypes
<1>1. \A n \in Nat : BackoffTTL(n, Cfg) \in Nat
  BY <1>0 DEF BackoffTTL
<1>2. [score |-> [r0.score EXCEPT ![f] = r0.score[f] + delta], exp |-> t + Cfg.ScoreWindow]
        \in [score : [IP \X FP -> Nat], exp : Nat]
  BY <1>0
<1>3. CASE r0.score[f] + delta >= Cfg.Threshold
  <2>1. a.v + 1 \in Nat
    BY DEF RedisKey
  <2>2. BackoffTTL(a.v + 1, Cfg) \in Nat
    BY <1>1, <2>1
  <2>3. PExpire(SAdd(b), BackoffTTL(a.v + 1, Cfg), t) \in RedisKey
    BY <2>2, CommandTypes
  <2>4. Incr(a) \in RedisKey /\ PExpire(Incr(a), Cfg.BackoffWindow, t) \in RedisKey
    BY <1>0, CommandTypes
  <2>5. Absent \in RedisKey
    BY CommandTypes
  <2> QED BY <1>2, <1>3, <2>2, <2>3, <2>4, <2>5 DEF ReputationScript
<1>4. CASE ~(r0.score[f] + delta >= Cfg.Threshold)
  <2>1. SetPX(Cfg.PenaltyTTL, t) \in RedisKey
    BY <1>0, CommandTypes
  <2> QED BY <1>0, <1>2, <1>4, <2>1 DEF ReputationScript
<1> QED BY <1>3, <1>4

\* A lookup leaves a cache of the same type.
LEMMA LookedType ==
  ASSUME NEW m \in [IP -> Nat], NEW ip \in IP, NEW now \in Nat
  PROVE  Looked(m, ip, now) \in [IP -> Nat]
BY DEF Looked

\* Blacklist leaves a cache of the same type, whichever entry it evicts.
LEMMA BlacklistType ==
  ASSUME NEW m \in [IP -> Nat], NEW ip \in IP, NEW until \in Nat,
         NEW n \in Blacklist(m, ip, until)
  PROVE  n \in [IP -> Nat]
BY DEF Blacklist, Cached

-----------------------------------------------------------------------------
(* Type correctness *)

\* A state a goroutine may be in.
ProcOK(s) == s \in ProcState /\ (s.pc # "idle" => s.req \in Request)

PCs == ThreadPC \cup BanPC \cup WorkerPC

\* What the branches of Process and processSnapshot make of a running goroutine.
LEMMA ProcStates ==
  /\ ProcOK(Idle)
  /\ \A s : (ProcOK(s) /\ s.pc # "idle") =>
       /\ \A x \in PCs : ProcOK([s EXCEPT !.pc = x])
       /\ \A x \in PCs, d \in Nat : ProcOK([s EXCEPT !.pc = x, !.ttl = d])
       /\ \A x \in PCs, d \in Nat : ProcOK([s EXCEPT !.pc = x, !.n = d])
       /\ ProcOK(Enqueueing(s)) /\ ProcOK(PastPenalty(s)) /\ ProcOK(PastReputation(s))
       /\ ProcOK(PastPenalty([s EXCEPT !.lim = IF @ > 1 THEN 1 ELSE @]))
<1> USE CfgTypes DEF ProcOK, ProcState, PCs
<1>1. ProcOK(Idle)
  BY DEF Idle
<1> SUFFICES ASSUME NEW s, ProcOK(s), s.pc # "idle"
             PROVE  /\ \A x \in PCs : ProcOK([s EXCEPT !.pc = x])
                    /\ \A x \in PCs, d \in Nat : ProcOK([s EXCEPT !.pc = x, !.ttl = d])
                    /\ \A x \in PCs, d \in Nat : ProcOK([s EXCEPT !.pc = x, !.n = d])
                    /\ ProcOK(Enqueueing(s)) /\ ProcOK(PastPenalty(s)) /\ ProcOK(PastReputation(s))
                    /\ ProcOK(PastPenalty([s EXCEPT !.lim = IF @ > 1 THEN 1 ELSE @]))
  BY <1>1
<1>2. \A x \in PCs : ProcOK([s EXCEPT !.pc = x])
  OBVIOUS
<1>3. \A x \in PCs, d \in Nat : ProcOK([s EXCEPT !.pc = x, !.ttl = d])
  OBVIOUS
<1>4. \A x \in PCs, d \in Nat : ProcOK([s EXCEPT !.pc = x, !.n = d])
  OBVIOUS
<1>5. {"enq", "bloom", "lua", "threat"} \subseteq PCs
  BY DEF ThreadPC, WorkerPC
<1>6. ProcOK(Enqueueing(s)) /\ ProcOK(PastPenalty(s)) /\ ProcOK(PastReputation(s))
  <2> HIDE DEF ProcOK, PCs
  <2> QED BY <1>1, <1>2, <1>5 DEF Enqueueing, PastPenalty, PastReputation
<1>7. ProcOK(PastPenalty([s EXCEPT !.lim = IF @ > 1 THEN 1 ELSE @]))
  <2> DEFINE u == [s EXCEPT !.lim = IF @ > 1 THEN 1 ELSE @]
  <2>1. ProcOK(u) /\ u.pc # "idle"
    OBVIOUS
  <2>2. \A x \in PCs : ProcOK([u EXCEPT !.pc = x])
    BY <2>1
  <2> HIDE DEF u, ProcOK, PCs
  <2>3. ProcOK(PastPenalty(u))
    BY <2>2, <1>5 DEF PastPenalty
  <2> QED BY <2>3 DEF u
<1> QED BY <1>2, <1>3, <1>4, <1>6, <1>7

\* What TypeOK says of a goroutine that runs.
LEMMA Running ==
  ASSUME TypeOK, NEW p \in Proc, proc[p].pc # "idle"
  PROVE  /\ ProcOK(proc[p]) /\ EngineOf[p] \in Instance
         /\ proc[p].req.ip \in IP /\ proc[p].req.fp \in FP /\ KeyOf(proc[p].req) \in Key
         /\ proc[p].req.ok \in BOOLEAN
         /\ proc[p].now \in Nat /\ proc[p].lim \in Nat /\ proc[p].ttl \in Nat /\ proc[p].n \in Nat
<1>1. ProcOK(proc[p]) /\ proc[p].req \in Request /\ EngineOf[p] \in Instance
  BY ProcAssumption DEF TypeOK, GoroutinesOK, ProcOK
<1>2. proc[p].req \in [ip : IP, key : Key \cup {NoKey}, fp : FP, ok : BOOLEAN]
  BY <1>1, RequestAssumption
<1>3. /\ proc[p].req.ip \in IP /\ proc[p].req.fp \in FP /\ KeyOf(proc[p].req) \in Key
      /\ proc[p].req.ok \in BOOLEAN
  BY <1>2, KeyAssumption DEF KeyOf
<1>4. proc[p].now \in Nat /\ proc[p].lim \in Nat /\ proc[p].ttl \in Nat /\ proc[p].n \in Nat
  BY <1>1, CfgTypes DEF ProcOK, ProcState
<1> QED BY <1>1, <1>3, <1>4

\* A goroutine moves to a good state, the others stay where they are.
LEMMA GotoType ==
  ASSUME TypeOK, NEW p \in Proc, NEW s, ProcOK(s), Goto(p, s),
         dec' \in [Thread -> DecisionType]
  PROVE  GoroutinesOK'
BY DEF TypeOK, GoroutinesOK, ProcOK, Goto

\* dec stays typed when it is not written and when a decision is.
LEMMA DecType ==
  ASSUME TypeOK, \/ UNCHANGED dec
                 \/ \E t \in Thread, d \in DecisionType : Decide(t, d)
  PROVE  dec' \in [Thread -> DecisionType]
BY DEF TypeOK, GoroutinesOK, Decide

\* Both answers to a penalty keep the goroutines typed.
LEMMA InPenaltyType ==
  ASSUME TypeOK, NEW t \in Thread, proc[t].pc # "idle", InPenalty(t, proc[t])
  PROVE  GoroutinesOK'
<1> DEFINE s == proc[t]
<1>1. t \in Proc
  BY DEF Proc
<1>2. ProcOK(s) /\ s.now \in Nat
  BY <1>1, Running
<1>3. PenaltyBan \in Nat
  BY CfgTypes DEF PenaltyBan
<1>4. CASE s.req.ok
  <2> DEFINE u == PastPenalty([s EXCEPT !.lim = IF @ > 1 THEN 1 ELSE @])
  <2>1. ProcOK(u)
    BY <1>2, ProcStates
  <2>2. Goto(t, u) /\ UNCHANGED dec
    BY <1>4 DEF InPenalty
  <2>3. dec' \in [Thread -> DecisionType]
    BY <2>2, DecType
  <2> QED BY <1>1, <2>1, <2>2, <2>3, GotoType
<1>5. CASE ~s.req.ok
  <2> DEFINE u == [s EXCEPT !.pc = "sadd", !.ttl = PenaltyBan]
             d == newDecisionWithTTL("penalty_forbidden", FALSE, 0, 1, s.now, PenaltyBan)
  <2>1. ProcOK(u)
    BY <1>2, <1>3, ProcStates DEF PCs, BanPC
  <2>2. d \in DecisionType
    BY <1>2, <1>3, CfgTypes DEF newDecision, newDecisionWithTTL, DecisionType, Reason
  <2>3. Goto(t, u) /\ Decide(t, d)
    BY <1>5 DEF InPenalty
  <2>4. dec' \in [Thread -> DecisionType]
    BY <2>2, <2>3, DecType
  <2> QED BY <1>1, <2>1, <2>3, <2>4, GotoType
<1> QED BY <1>4, <1>5

\* A local cache stays typed when Blacklist is called on it.
LEMMA PutType ==
  ASSUME TypeOK, NEW e \in Instance, NEW ip \in IP, NEW until \in Nat
  PROVE  /\ CachePut(e, ip, until) => /\ cache' \in [Instance -> [IP -> Nat]]
                                      /\ known' \in [Instance -> SUBSET IP]
         /\ PboxPut(e, ip, until) => pbox' \in [Instance -> [IP -> Nat]]
<1>1. cache[e] \in [IP -> Nat] /\ pbox[e] \in [IP -> Nat]
  BY DEF TypeOK, LocalOK
<1>2. \A m \in Blacklist(cache[e], ip, until) : m \in [IP -> Nat]
  BY <1>1, BlacklistType
<1>3. \A m \in Blacklist(pbox[e], ip, until) : m \in [IP -> Nat]
  BY <1>1, BlacklistType
<1>4. ASSUME CachePut(e, ip, until)
      PROVE  cache' \in [Instance -> [IP -> Nat]] /\ known' \in [Instance -> SUBSET IP]
  <2>1. PICK m \in [IP -> Nat] : cache' = [cache EXCEPT ![e] = m]
    BY <1>2, <1>4 DEF CachePut
  <2> QED BY <1>4, <2>1 DEF CachePut, TypeOK, LocalOK, HistoryOK
<1>5. ASSUME PboxPut(e, ip, until) PROVE pbox' \in [Instance -> [IP -> Nat]]
  <2>1. PICK m \in [IP -> Nat] : pbox' = [pbox EXCEPT ![e] = m]
    BY <1>3, <1>5 DEF PboxPut
  <2> QED BY <2>1 DEF TypeOK, LocalOK
<1> QED BY <1>4, <1>5

\* The result of the reputation script, called for a running goroutine.
LEMMA RepResultType ==
  ASSUME TypeOK, NEW s, s.req.ip \in IP, s.req.fp \in FP, s.n \in Nat
  PROVE  LET r == RepResult(s)
         IN  /\ r.rep \in [score : [IP \X FP -> Nat], exp : Nat]
             /\ r.pen \in RedisKey /\ r.bl \in RedisKey /\ r.att \in RedisKey
             /\ r.action \in {0, 1, 2} /\ r.ttl \in Nat
<1>1. <<s.req.ip, s.req.fp>> \in IP \X FP
  OBVIOUS
<1>2. /\ rep \in [score : [IP \X FP -> Nat], exp : Nat] /\ clock \in Nat
      /\ pen[s.req.ip] \in RedisKey /\ bl[s.req.ip] \in RedisKey /\ att[s.req.ip] \in RedisKey
  BY DEF TypeOK, RedisOK
<1> QED BY <1>1, <1>2, ReputationType DEF RepResult

\* Its writes keep the keys typed.
LEMMA RepWritesType ==
  ASSUME TypeOK, NEW s, s.req.ip \in IP, s.req.fp \in FP, s.n \in Nat,
         RepWrites(s.req.ip, RepResult(s))
  PROVE  /\ rep' \in [score : [IP \X FP -> Nat], exp : Nat]
         /\ pen' \in [IP -> RedisKey] /\ bl' \in [IP -> RedisKey] /\ att' \in [IP -> RedisKey]
         /\ banned' \in SUBSET IP
<1> DEFINE r == RepResult(s)
<1>1. /\ r.rep \in [score : [IP \X FP -> Nat], exp : Nat]
      /\ r.pen \in RedisKey /\ r.bl \in RedisKey /\ r.att \in RedisKey
  BY RepResultType
<1> HIDE DEF r
<1> QED BY <1>1 DEF RepWrites, r, TypeOK, RedisOK, HistoryOK

\* Every step keeps the types.
LEMMA TypeStep == TypeOK /\ [Next]_vars => TypeOK'
<1> SUFFICES ASSUME TypeOK, [Next]_vars PROVE TypeOK'
  OBVIOUS
<1>1. ASSUME NEW t \in Thread, NEW q \in Request, NEW limit \in Cfg.EffLimits, Arrive(t, q, limit)
      PROVE  TypeOK'
  <2> DEFINE s == [pc |-> IF q.ip = NoIP THEN "lua" ELSE "cache", req |-> q,
                   now |-> clock, lim |-> limit, ttl |-> 0, n |-> 0]
  <2>1. t \in Proc /\ ProcOK(s) /\ Goto(t, s)
    BY <1>1, CfgTypes DEF TypeOK, RedisOK, Arrive, Proc, ProcOK, ProcState, ThreadPC
  <2>2. dec' \in [Thread -> DecisionType]
    BY <1>1 DEF Arrive, NoDecision, DecisionType, TypeOK, GoroutinesOK
  <2>3. GoroutinesOK'
    BY <2>1, <2>2, GotoType
  <2> QED BY <1>1, <2>3 DEF TypeOK, RedisOK, LocalOK, HistoryOK, Arrive, redis, local, hist
<1>2. ASSUME NEW t \in Thread, CacheCheck(t) PROVE TypeOK'
  <2> DEFINE s == proc[t]
             e == EngineOf[t]
  <2>1. t \in Proc /\ s.pc # "idle"
    BY <1>2 DEF CacheCheck, Proc
  <2>2. ProcOK(s) /\ e \in Instance /\ s.req.ip \in IP /\ s.now \in Nat /\ s.lim \in Nat
    BY <2>1, Running
  <2>3. ProcOK(Idle) /\ ProcOK([s EXCEPT !.pc = "pbox"])
    BY <2>1, <2>2, ProcStates DEF PCs, ThreadPC
  <2>4. newDecision("blacklisted", s.lim, s.now) \in DecisionType
    BY <2>2, CfgTypes DEF newDecision, newDecisionWithTTL, DecisionType, Reason
  <2>5. dec' \in [Thread -> DecisionType]
    BY <1>2, <2>4, DecType DEF CacheCheck
  <2>6. GoroutinesOK'
    BY <1>2, <2>1, <2>3, <2>5, GotoType DEF CacheCheck
  <2>7. cache' \in [Instance -> [IP -> Nat]]
    <3>1. Looked(cache[e], s.req.ip, s.now) \in [IP -> Nat]
      BY <2>2, LookedType DEF TypeOK, LocalOK
    <3> QED BY <1>2, <2>2, <3>1 DEF CacheCheck, TypeOK, LocalOK
  <2> QED BY <1>2, <2>6, <2>7 DEF TypeOK, RedisOK, LocalOK, HistoryOK, CacheCheck, redis, bounds, hist
<1>3. ASSUME NEW t \in Thread, PboxCheck(t) PROVE TypeOK'
  <2> DEFINE s == proc[t]
             e == EngineOf[t]
  <2>1. t \in Proc /\ s.pc # "idle"
    BY <1>3 DEF PboxCheck, Proc
  <2>2. ProcOK(s) /\ e \in Instance /\ s.req.ip \in IP /\ s.now \in Nat
    BY <2>1, Running
  <2>3. GoroutinesOK'
    <3>1. CASE IsBlacklisted(pbox[e], s.req.ip, s.now)
      BY <1>3, <2>1, <3>1, InPenaltyType DEF PboxCheck
    <3>2. CASE ~IsBlacklisted(pbox[e], s.req.ip, s.now)
      <4>1. ProcOK([s EXCEPT !.pc = "pttl"])
        BY <2>1, <2>2, ProcStates DEF PCs, ThreadPC
      <4>2. Goto(t, [s EXCEPT !.pc = "pttl"]) /\ dec' \in [Thread -> DecisionType]
        BY <1>3, <3>2, DecType DEF PboxCheck
      <4> QED BY <2>1, <4>1, <4>2, GotoType
    <3> QED BY <3>1, <3>2
  <2>4. pbox' \in [Instance -> [IP -> Nat]]
    <3>1. Looked(pbox[e], s.req.ip, s.now) \in [IP -> Nat]
      BY <2>2, LookedType DEF TypeOK, LocalOK
    <3> QED BY <1>3, <2>2, <3>1 DEF PboxCheck, TypeOK, LocalOK
  <2> QED BY <1>3, <2>3, <2>4 DEF TypeOK, RedisOK, LocalOK, HistoryOK, PboxCheck, redis, bounds, hist
<1>4. ASSUME NEW t \in Thread, PenaltyTTLReply(t) \/ PenaltyTTLError(t) PROVE TypeOK'
  <2> DEFINE s == proc[t]
             ttl == PTTL(pen[s.req.ip], clock)
  <2>1. t \in Proc /\ s.pc # "idle"
    BY <1>4 DEF PenaltyTTLReply, PenaltyTTLError, Proc
  <2>2. ProcOK(s) /\ s.req.ip \in IP
    BY <2>1, Running
  <2>3. ttl \in Int
    BY <2>2, CommandTypes DEF TypeOK, RedisOK
  <2>4. /\ ProcOK(PastPenalty(s))
        /\ ~(ttl <= 0) => ProcOK([s EXCEPT !.pc = "pboxput", !.ttl = ttl])
    <3> HIDE DEF ttl
    <3>1. ~(ttl <= 0) => ttl \in Nat
      BY <2>3
    <3> QED BY <2>1, <2>2, <3>1, ProcStates DEF PCs, ThreadPC
  <2>5. dec' \in [Thread -> DecisionType]
    BY <1>4, DecType DEF PenaltyTTLReply, PenaltyTTLError
  <2>6. GoroutinesOK'
    <3> HIDE DEF ttl
    <3>1. CASE PenaltyTTLReply(t)
      BY <2>1, <2>4, <2>5, <3>1, GotoType DEF PenaltyTTLReply, ttl
    <3>2. CASE PenaltyTTLError(t)
      BY <2>1, <2>4, <2>5, <3>2, GotoType DEF PenaltyTTLError
    <3> QED BY <1>4, <3>1, <3>2
  <2> QED BY <1>4, <2>6 DEF TypeOK, RedisOK, LocalOK, HistoryOK, PenaltyTTLReply, PenaltyTTLError, redis, local, bounds, hist
<1>5. ASSUME NEW t \in Thread, PenaltyCached(t) PROVE TypeOK'
  <2>1. t \in Proc /\ proc[t].pc # "idle"
    BY <1>5 DEF PenaltyCached, Proc
  <2>2. /\ EngineOf[t] \in Instance /\ proc[t].req.ip \in IP
        /\ proc[t].now \in Nat /\ proc[t].ttl \in Nat
    BY <2>1, Running
  <2>3. GoroutinesOK'
    BY <1>5, <2>1, InPenaltyType DEF PenaltyCached
  <2>4. proc[t].now + proc[t].ttl \in Nat
    BY <2>2
  <2>5. pbox' \in [Instance -> [IP -> Nat]]
    BY <1>5, <2>2, <2>4, PutType DEF PenaltyCached
  <2> QED BY <1>5, <2>3, <2>5 DEF TypeOK, RedisOK, LocalOK, HistoryOK, PenaltyCached, redis, bounds, hist
<1>6. ASSUME NEW t \in Thread, NEW maybe \in BOOLEAN, BloomTest(t, maybe) PROVE TypeOK'
  <2> DEFINE s == proc[t]
  <2>1. t \in Proc /\ s.pc # "idle"
    BY <1>6 DEF BloomTest, Proc
  <2>2. ProcOK(s) /\ s.now \in Nat /\ s.lim \in Nat
    BY <2>1, Running
  <2>3. ProcOK([s EXCEPT !.pc = "lua"]) /\ ProcOK(Enqueueing(s))
    BY <2>1, <2>2, ProcStates DEF PCs, ThreadPC
  <2>4. newDecision("allowed", s.lim, s.now) \in DecisionType
    BY <2>2, CfgTypes DEF newDecision, newDecisionWithTTL, DecisionType, Reason
  <2>5. dec' \in [Thread -> DecisionType]
    BY <1>6, <2>4, DecType DEF BloomTest
  <2>6. GoroutinesOK'
    BY <1>6, <2>1, <2>3, <2>5, GotoType DEF BloomTest
  <2>7. passed' \in [Key -> Nat]
    <3>1. KeyOf(s.req) \in Key
      BY <2>1, Running
    <3> QED BY <1>6, <3>1 DEF BloomTest, TypeOK, HistoryOK
  <2> QED BY <1>6, <2>6, <2>7 DEF TypeOK, RedisOK, LocalOK, HistoryOK, BloomTest, redis, local, bounds, hist
<1>7. ASSUME NEW t \in Thread, CriticalPathReply(t) PROVE TypeOK'
  <2> DEFINE s == proc[t]
             k == KeyOf(s.req)
             r == ScriptResult(s)
             d == newDecisionWithTTL(CodeReason(r.code), TRUE, r.cur, s.lim, s.now, r.ttl)
  <2>1. t \in Proc /\ s.pc # "idle"
    BY <1>7 DEF CriticalPathReply, Proc
  <2>2. ProcOK(s) /\ s.req.ip \in IP /\ k \in Key /\ s.now \in Nat /\ s.lim \in Nat
    BY <2>1, Running
  <2>3. r.code \in {0, 1, 2} /\ r.rl \in RedisKey /\ r.cur \in Nat /\ r.ttl \in Int
    BY <2>2, CriticalPathType, CfgTypes DEF ScriptResult, TypeOK, RedisOK
  <2> HIDE DEF r
  <2>4. d \in DecisionType
    BY <2>2, <2>3, CfgTypes DEF newDecisionWithTTL, DecisionType, Reason, CodeReason
  <2>5. dec' \in [Thread -> DecisionType]
    BY <1>7, <2>4, DecType DEF CriticalPathReply, r
  <2>6. ProcOK([s EXCEPT !.pc = "blcache"]) /\ ProcOK(Idle) /\ ProcOK(Enqueueing(s))
    BY <2>1, <2>2, ProcStates DEF PCs, ThreadPC
  <2>7. GoroutinesOK'
    <3>1. PICK u : ProcOK(u) /\ Goto(t, u)
      BY <1>7, <2>3, <2>6 DEF CriticalPathReply, r
    <3> QED BY <2>1, <2>5, <3>1, GotoType
  <2>8. rl' \in [Key -> RedisKey] /\ granted' \in [Key -> Nat]
    BY <1>7, <2>2, <2>3 DEF CriticalPathReply, r, TypeOK, RedisOK, HistoryOK
  <2> QED BY <1>7, <2>7, <2>8 DEF TypeOK, RedisOK, LocalOK, HistoryOK, CriticalPathReply, local, bounds
<1>8. ASSUME NEW t \in Thread, NEW applied \in BOOLEAN, NEW retry \in BOOLEAN,
             CriticalPathFault(t, applied, retry)
      PROVE TypeOK'
  <2> DEFINE s == proc[t]
             k == KeyOf(s.req)
             r == ScriptResult(s)
             d == newDecision(IF Cfg.FailOpen THEN "fail_open" ELSE "redis_error", s.lim, s.now)
  <2>1. t \in Proc /\ s.pc # "idle"
    BY <1>8 DEF CriticalPathFault, Proc
  <2>2. ProcOK(s) /\ s.req.ip \in IP /\ k \in Key /\ s.now \in Nat /\ s.lim \in Nat
    BY <2>1, Running
  <2>3. r.rl \in RedisKey
    BY <2>2, CriticalPathType, CfgTypes DEF ScriptResult, TypeOK, RedisOK
  <2> HIDE DEF r
  <2>4. d \in DecisionType
    BY <2>2, CfgTypes DEF newDecision, newDecisionWithTTL, DecisionType, Reason
  <2>5. dec' \in [Thread -> DecisionType]
    BY <1>8, <2>4, DecType DEF CriticalPathFault
  <2>6. ProcOK(Idle) /\ ProcOK(Enqueueing(s))
    BY <2>1, <2>2, ProcStates
  <2>7. GoroutinesOK'
    <3>1. CASE retry
      BY <1>8, <3>1 DEF CriticalPathFault, TypeOK, GoroutinesOK
    <3>2. CASE ~retry
      <4>1. PICK u : ProcOK(u) /\ Goto(t, u)
        BY <1>8, <2>6, <3>2 DEF CriticalPathFault
      <4> QED BY <2>1, <2>5, <4>1, GotoType
    <3> QED BY <3>1, <3>2
  <2>8. rl' \in [Key -> RedisKey]
    BY <1>8, <2>2, <2>3 DEF CriticalPathFault, r, TypeOK, RedisOK
  <2>9. passed' \in [Key -> Nat]
    BY <1>8, <2>2 DEF CriticalPathFault, TypeOK, HistoryOK
  <2> QED BY <1>8, <2>7, <2>8, <2>9 DEF TypeOK, RedisOK, LocalOK, HistoryOK, CriticalPathFault, local, hist
<1>9. ASSUME NEW t \in Thread, CacheRedisBan(t) PROVE TypeOK'
  <2> DEFINE s == proc[t]
  <2>1. t \in Proc /\ s.pc # "idle"
    BY <1>9 DEF CacheRedisBan, Proc
  <2>2. ProcOK(s) /\ EngineOf[t] \in Instance /\ s.req.ip \in IP /\ s.now \in Nat
    BY <2>1, Running
  <2>3. ProcOK([s EXCEPT !.pc = "bloomadd"]) /\ ProcOK(Idle)
    BY <2>1, <2>2, ProcStates DEF PCs, BanPC
  <2>4. dec' \in [Thread -> DecisionType]
    BY <1>9, DecType DEF CacheRedisBan
  <2>5. GoroutinesOK'
    BY <1>9, <2>1, <2>3, <2>4, GotoType DEF CacheRedisBan
  <2>6. s.now + CacheGrace \in Nat
    BY <2>2, BoundAssumption
  <2>7. cache' \in [Instance -> [IP -> Nat]] /\ known' \in [Instance -> SUBSET IP]
    BY <1>9, <2>2, <2>6, PutType DEF CacheRedisBan
  <2> QED BY <1>9, <2>5, <2>7 DEF TypeOK, RedisOK, LocalOK, HistoryOK, CacheRedisBan, redis, bounds
<1>10. ASSUME NEW t \in Thread, Enqueue(t) PROVE TypeOK'
  <2> DEFINE s == proc[t]
             e == EngineOf[t]
  <2>1. t \in Proc /\ s.pc # "idle"
    BY <1>10 DEF Enqueue, Proc
  <2>2. ProcOK(s) /\ e \in Instance /\ s.req \in Request
    BY <2>1, Running DEF ProcOK
  <2>3. dec' \in [Thread -> DecisionType]
    BY <1>10, DecType DEF Enqueue
  <2>4. GoroutinesOK'
    BY <1>10, <2>1, <2>3, GotoType, ProcStates DEF Enqueue
  <2>5. queue[e] \in Seq(Request) /\ Append(queue[e], s.req) \in Seq(Request)
    BY <2>2 DEF TypeOK, LocalOK
  <2>6. queue' \in [Instance -> Seq(Request)]
    BY <1>10, <2>2, <2>5 DEF Enqueue, TypeOK, LocalOK
  <2> QED BY <1>10, <2>4, <2>6 DEF TypeOK, RedisOK, LocalOK, HistoryOK, Enqueue, redis, bounds, hist
<1>11. ASSUME NEW p \in Proc, BanIP_SAdd(p) \/ BanIP_PExpire(p) PROVE TypeOK'
  <2> DEFINE s == proc[p]
             i == s.req.ip
  <2>1. s.pc # "idle"
    BY <1>11 DEF BanIP_SAdd, BanIP_PExpire
  <2>2. ProcOK(s) /\ i \in IP /\ s.ttl \in Nat
    BY <2>1, Running
  <2>3. ProcOK([s EXCEPT !.pc = "pexpire"]) /\ ProcOK([s EXCEPT !.pc = "bancache"])
    BY <2>1, <2>2, ProcStates DEF PCs, BanPC
  <2>4. dec' \in [Thread -> DecisionType]
    BY <1>11, DecType DEF BanIP_SAdd, BanIP_PExpire
  <2>5. GoroutinesOK'
    BY <1>11, <2>3, <2>4, GotoType DEF BanIP_SAdd, BanIP_PExpire
  <2>6. SAdd(bl[i]) \in RedisKey /\ PExpire(bl[i], s.ttl, clock) \in RedisKey
    BY <2>2, CommandTypes DEF TypeOK, RedisOK
  <2>7. bl' \in [IP -> RedisKey] /\ banned' \in SUBSET IP /\ answered' \in SUBSET IP
    <3>1. CASE BanIP_SAdd(p)
      BY <2>2, <2>6, <3>1 DEF BanIP_SAdd, TypeOK, RedisOK, HistoryOK
    <3>2. CASE BanIP_PExpire(p)
      BY <2>2, <2>6, <3>2 DEF BanIP_PExpire, hist, TypeOK, RedisOK, HistoryOK
    <3> QED BY <1>11, <3>1, <3>2
  <2> QED BY <1>11, <2>5, <2>7 DEF TypeOK, RedisOK, LocalOK, HistoryOK, BanIP_SAdd, BanIP_PExpire, local, bounds, hist
<1>12. ASSUME NEW p \in Proc, NEW applied \in BOOLEAN, NEW retry \in BOOLEAN,
             BanIP_Fault(p, applied, retry)
      PROVE TypeOK'
  <2> DEFINE s == proc[p]
             i == s.req.ip
  <2>1. s.pc # "idle"
    BY <1>12 DEF BanIP_Fault
  <2>2. ProcOK(s) /\ i \in IP /\ s.ttl \in Nat
    BY <2>1, Running
  <2>3. ProcOK([s EXCEPT !.pc = "sadd"]) /\ ProcOK(Idle)
    BY <2>1, <2>2, ProcStates DEF PCs, BanPC
  <2>4. dec' \in [Thread -> DecisionType]
    BY <1>12, DecType DEF BanIP_Fault
  <2>5. GoroutinesOK'
    BY <1>12, <2>3, <2>4, GotoType DEF BanIP_Fault
  <2>6. SAdd(bl[i]) \in RedisKey /\ PExpire(bl[i], s.ttl, clock) \in RedisKey
    BY <2>2, CommandTypes DEF TypeOK, RedisOK
  <2>7. bl' \in [IP -> RedisKey] /\ banned' \in SUBSET IP
    BY <1>12, <2>2, <2>6 DEF BanIP_Fault, TypeOK, RedisOK, HistoryOK
  <2> QED BY <1>12, <2>5, <2>7 DEF TypeOK, RedisOK, LocalOK, HistoryOK, BanIP_Fault, local
<1>13. ASSUME NEW p \in Proc, BanIP_Cache(p) PROVE TypeOK'
  <2> DEFINE s == proc[p]
  <2>1. s.pc # "idle"
    BY <1>13 DEF BanIP_Cache
  <2>2. ProcOK(s) /\ EngineOf[p] \in Instance /\ s.req.ip \in IP /\ s.ttl \in Nat
    BY <2>1, Running
  <2>3. ProcOK([s EXCEPT !.pc = "bloomadd"]) /\ ProcOK(Idle)
    BY <2>1, <2>2, ProcStates DEF PCs, BanPC
  <2>4. dec' \in [Thread -> DecisionType]
    BY <1>13, DecType DEF BanIP_Cache
  <2>5. GoroutinesOK'
    BY <1>13, <2>3, <2>4, GotoType DEF BanIP_Cache
  <2>6. clock + s.ttl \in Nat
    BY <2>2 DEF TypeOK, RedisOK
  <2>7. cache' \in [Instance -> [IP -> Nat]] /\ known' \in [Instance -> SUBSET IP]
    BY <1>13, <2>2, <2>6, PutType DEF BanIP_Cache
  <2> QED BY <1>13, <2>5, <2>7 DEF TypeOK, RedisOK, LocalOK, HistoryOK, BanIP_Cache, redis, bounds
<1>14. ASSUME NEW p \in Proc, BloomAdd(p) PROVE TypeOK'
  <2>1. proc[p].pc # "idle"
    BY <1>14 DEF BloomAdd
  <2>2. EngineOf[p] \in Instance /\ proc[p].req.ip \in IP
    BY <2>1, Running
  <2>3. dec' \in [Thread -> DecisionType]
    BY <1>14, DecType DEF BloomAdd
  <2>4. GoroutinesOK'
    BY <1>14, <2>3, GotoType, ProcStates DEF BloomAdd
  <2>5. bloom' \in [Instance -> SUBSET IP]
    BY <1>14, <2>2 DEF BloomAdd, TypeOK, LocalOK
  <2> QED BY <1>14, <2>4, <2>5 DEF TypeOK, RedisOK, LocalOK, HistoryOK, BloomAdd, redis, bounds, hist
<1>15. ASSUME NEW w \in Worker, NEW score \in Scores, Dequeue(w, score) PROVE TypeOK'
  <2> DEFINE e == EngineOf[w]
             q == Head(queue[e])
             s == [pc |-> "rep", req |-> q, now |-> 0, lim |-> 0, ttl |-> 0, n |-> score]
  <2>1. w \in Proc /\ e \in Instance /\ score \in Nat
    BY ProcAssumption, ScoresAssumption DEF Proc
  <2>2. q \in Request /\ Tail(queue[e]) \in Seq(Request)
    BY <1>15, <2>1 DEF Dequeue, TypeOK, LocalOK
  <2> HIDE DEF q
  <2>3. /\ ProcOK(Idle) /\ ProcOK(s) /\ ProcOK(PastReputation(s))
        /\ ProcOK([s EXCEPT !.pc = "setpen", !.ttl = Cfg.BehPenaltyTTL])
    <3>1. ProcOK(s) /\ s.pc # "idle"
      BY <2>1, <2>2, CfgTypes DEF ProcOK, ProcState, WorkerPC
    <3> HIDE DEF s
    <3> QED BY <3>1, ProcStates, CfgTypes DEF PCs, WorkerPC
  <2>4. dec' \in [Thread -> DecisionType]
    BY <1>15, DecType DEF Dequeue
  <2>5. GoroutinesOK'
    <3> HIDE DEF s
    <3>1. PICK u : ProcOK(u) /\ Goto(w, u)
      BY <1>15, <2>3 DEF Dequeue, s, q
    <3> QED BY <2>1, <2>4, <3>1, GotoType
  <2>6. queue' \in [Instance -> Seq(Request)]
    BY <1>15, <2>1, <2>2 DEF Dequeue, TypeOK, LocalOK
  <2> QED BY <1>15, <2>5, <2>6 DEF TypeOK, RedisOK, LocalOK, HistoryOK, Dequeue, redis, bounds, hist
<1>16. ASSUME NEW w \in Worker, ReputationReply(w) PROVE TypeOK'
  <2> DEFINE s == proc[w]
             r == RepResult(s)
  <2>1. w \in Proc /\ s.pc = "rep"
    BY <1>16 DEF ReputationReply, Proc
  <2>2. ProcOK(s) /\ s.req.ip \in IP /\ s.req.fp \in FP /\ s.n \in Nat
    BY <2>1, Running
  <2>3. r.action \in {0, 1, 2} /\ r.ttl \in Nat
    BY <2>2, RepResultType
  <2> HIDE DEF r
  <2>4. /\ ProcOK([s EXCEPT !.pc = "setpen", !.ttl = Cfg.PenaltyTTL])
        /\ ProcOK([s EXCEPT !.pc = "repcache", !.ttl = r.ttl])
        /\ ProcOK(PastReputation(s))
    BY <2>1, <2>2, <2>3, ProcStates, CfgTypes DEF PCs, WorkerPC
  <2>5. dec' \in [Thread -> DecisionType]
    BY <1>16, DecType DEF ReputationReply
  <2>6. GoroutinesOK'
    <3>1. PICK u : ProcOK(u) /\ Goto(w, u)
      BY <1>16, <2>3, <2>4 DEF ReputationReply, r
    <3> QED BY <2>1, <2>5, <3>1, GotoType
  <2>7. RepWrites(s.req.ip, RepResult(s))
    BY <1>16 DEF ReputationReply
  <2>8. /\ rep' \in [score : [IP \X FP -> Nat], exp : Nat]
        /\ pen' \in [IP -> RedisKey] /\ bl' \in [IP -> RedisKey] /\ att' \in [IP -> RedisKey]
        /\ banned' \in SUBSET IP
    BY <2>2, <2>7, RepWritesType
  <2> QED BY <1>16, <2>6, <2>8 DEF TypeOK, RedisOK, LocalOK, HistoryOK, ReputationReply, local, bounds
<1>17. ASSUME NEW w \in Worker, NEW applied \in BOOLEAN, NEW retry \in BOOLEAN,
             ReputationFault(w, applied, retry)
      PROVE TypeOK'
  <2> DEFINE s == proc[w]
  <2>1. w \in Proc /\ s.pc = "rep"
    BY <1>17 DEF ReputationFault, Proc
  <2>2. ProcOK(s) /\ s.req.ip \in IP /\ s.req.fp \in FP /\ s.n \in Nat
    BY <2>1, Running
  <2>3. ProcOK(PastReputation(s))
    BY <2>1, <2>2, ProcStates
  <2>4. dec' \in [Thread -> DecisionType]
    BY <1>17, DecType DEF ReputationFault
  <2>5. GoroutinesOK'
    BY <1>17, <2>1, <2>2, <2>3, <2>4, GotoType DEF ReputationFault
  <2>6. /\ rep' \in [score : [IP \X FP -> Nat], exp : Nat]
        /\ pen' \in [IP -> RedisKey] /\ bl' \in [IP -> RedisKey] /\ att' \in [IP -> RedisKey]
        /\ banned' \in SUBSET IP
    <3>1. CASE applied
      <4>1. RepWrites(s.req.ip, RepResult(s))
        BY <1>17, <3>1 DEF ReputationFault
      <4> QED BY <2>2, <4>1, RepWritesType
    <3>2. CASE ~applied
      BY <1>17, <3>2 DEF ReputationFault, TypeOK, RedisOK, HistoryOK
    <3> QED BY <3>1, <3>2
  <2>7. /\ UNCHANGED <<clock, rl, thr, local, issued, restarts, granted, passed, known, answered>>
        /\ faults' = faults + 1
    BY <1>17 DEF ReputationFault
  <2> QED BY <2>5, <2>6, <2>7 DEF TypeOK, RedisOK, LocalOK, HistoryOK, local
<1>18. ASSUME NEW w \in Worker, SetPenalty(w) PROVE TypeOK'
  <2> DEFINE s == proc[w]
  <2>1. w \in Proc /\ s.pc # "idle"
    BY <1>18 DEF SetPenalty, Proc
  <2>2. ProcOK(s) /\ s.req.ip \in IP /\ s.ttl \in Nat
    BY <2>1, Running
  <2>3. ProcOK([s EXCEPT !.pc = "penput"])
    BY <2>1, <2>2, ProcStates DEF PCs, WorkerPC
  <2>4. dec' \in [Thread -> DecisionType]
    BY <1>18, DecType DEF SetPenalty
  <2>5. GoroutinesOK'
    BY <1>18, <2>1, <2>3, <2>4, GotoType DEF SetPenalty
  <2>6. SetPX(s.ttl, clock) \in RedisKey
    BY <2>2, CommandTypes DEF TypeOK, RedisOK
  <2>7. pen' \in [IP -> RedisKey]
    BY <1>18, <2>2, <2>6 DEF SetPenalty, TypeOK, RedisOK
  <2> QED BY <1>18, <2>5, <2>7 DEF TypeOK, RedisOK, LocalOK, HistoryOK, SetPenalty, local, bounds, hist
<1>19. ASSUME NEW w \in Worker, NEW applied \in BOOLEAN, NEW retry \in BOOLEAN,
             SetPenaltyFault(w, applied, retry)
      PROVE TypeOK'
  <2> DEFINE s == proc[w]
  <2>1. w \in Proc /\ s.pc # "idle"
    BY <1>19 DEF SetPenaltyFault, Proc
  <2>2. ProcOK(s) /\ s.req.ip \in IP /\ s.ttl \in Nat
    BY <2>1, Running
  <2>3. ProcOK(PastReputation(s))
    BY <2>1, <2>2, ProcStates
  <2>4. dec' \in [Thread -> DecisionType]
    BY <1>19, DecType DEF SetPenaltyFault
  <2>5. GoroutinesOK'
    BY <1>19, <2>1, <2>2, <2>3, <2>4, GotoType DEF SetPenaltyFault
  <2>6. SetPX(s.ttl, clock) \in RedisKey
    BY <2>2, CommandTypes DEF TypeOK, RedisOK
  <2>7. pen' \in [IP -> RedisKey]
    BY <1>19, <2>2, <2>6 DEF SetPenaltyFault, TypeOK, RedisOK
  <2> QED BY <1>19, <2>5, <2>7 DEF TypeOK, RedisOK, LocalOK, HistoryOK, SetPenaltyFault, local, hist
<1>20. ASSUME NEW w \in Worker, PenaltyPut(w) PROVE TypeOK'
  <2> DEFINE s == proc[w]
  <2>1. w \in Proc /\ s.pc # "idle"
    BY <1>20 DEF PenaltyPut, Proc
  <2>2. ProcOK(s) /\ EngineOf[w] \in Instance /\ s.req.ip \in IP /\ s.ttl \in Nat
    BY <2>1, Running
  <2>3. ProcOK(PastReputation(s))
    BY <2>1, <2>2, ProcStates
  <2>4. dec' \in [Thread -> DecisionType]
    BY <1>20, DecType DEF PenaltyPut
  <2>5. GoroutinesOK'
    BY <1>20, <2>1, <2>3, <2>4, GotoType DEF PenaltyPut
  <2>6. clock + s.ttl \in Nat
    BY <2>2 DEF TypeOK, RedisOK
  <2>7. pbox' \in [Instance -> [IP -> Nat]]
    BY <1>20, <2>2, <2>6, PutType DEF PenaltyPut
  <2> QED BY <1>20, <2>5, <2>7 DEF TypeOK, RedisOK, LocalOK, HistoryOK, PenaltyPut, redis, bounds, hist
<1>21. ASSUME NEW w \in Worker, ReputationBanCache(w) PROVE TypeOK'
  <2> DEFINE s == proc[w]
  <2>1. w \in Proc /\ s.pc # "idle"
    BY <1>21 DEF ReputationBanCache, Proc
  <2>2. ProcOK(s) /\ EngineOf[w] \in Instance /\ s.req.ip \in IP /\ s.ttl \in Nat
    BY <2>1, Running
  <2>3. ProcOK(PastReputation(s)) /\ ProcOK([s EXCEPT !.pc = "repbloom"])
    BY <2>1, <2>2, ProcStates DEF PCs, WorkerPC
  <2>4. dec' \in [Thread -> DecisionType]
    BY <1>21, DecType DEF ReputationBanCache
  <2>5. GoroutinesOK'
    BY <1>21, <2>1, <2>3, <2>4, GotoType DEF ReputationBanCache
  <2>6. clock + s.ttl \in Nat
    BY <2>2 DEF TypeOK, RedisOK
  <2>7. cache' \in [Instance -> [IP -> Nat]] /\ known' \in [Instance -> SUBSET IP]
    BY <1>21, <2>2, <2>6, PutType DEF ReputationBanCache
  <2> QED BY <1>21, <2>5, <2>7 DEF TypeOK, RedisOK, LocalOK, HistoryOK, ReputationBanCache, redis, bounds
<1>22. ASSUME NEW w \in Worker, ReputationBanBloom(w) PROVE TypeOK'
  <2>1. w \in Proc /\ proc[w].pc # "idle"
    BY <1>22 DEF ReputationBanBloom, Proc
  <2>2. ProcOK(proc[w]) /\ EngineOf[w] \in Instance /\ proc[w].req.ip \in IP
    BY <2>1, Running
  <2>3. ProcOK(PastReputation(proc[w]))
    BY <2>1, <2>2, ProcStates
  <2>4. dec' \in [Thread -> DecisionType]
    BY <1>22, DecType DEF ReputationBanBloom
  <2>5. GoroutinesOK'
    BY <1>22, <2>1, <2>3, <2>4, GotoType DEF ReputationBanBloom
  <2>6. bloom' \in [Instance -> SUBSET IP]
    BY <1>22, <2>2 DEF ReputationBanBloom, TypeOK, LocalOK
  <2> QED BY <1>22, <2>5, <2>6 DEF TypeOK, RedisOK, LocalOK, HistoryOK, ReputationBanBloom, redis, bounds, hist
<1>23. ASSUME NEW w \in Worker, ThreatIncr(w) PROVE TypeOK'
  <2> DEFINE s == proc[w]
             k == Incr(thr[s.req.ip])
  <2>1. w \in Proc /\ s.pc # "idle"
    BY <1>23 DEF ThreatIncr, Proc
  <2>2. ProcOK(s) /\ s.req.ip \in IP
    BY <2>1, Running
  <2>3. k \in RedisKey /\ clock \in Nat
    BY <2>2, CommandTypes DEF TypeOK, RedisOK
  <2> HIDE DEF k
  <2>4. k.v \in Nat
    BY <2>3 DEF RedisKey
  <2>5. ProcOK([s EXCEPT !.pc = "threxp", !.n = k.v])
    BY <2>1, <2>2, <2>4, ProcStates DEF PCs, WorkerPC
  <2>6. dec' \in [Thread -> DecisionType]
    BY <1>23, DecType DEF ThreatIncr
  <2>7. GoroutinesOK'
    BY <1>23, <2>1, <2>5, <2>6, GotoType DEF ThreatIncr, k
  <2>8. thr' \in [IP -> RedisKey]
    BY <1>23, <2>2, <2>3 DEF ThreatIncr, k, TypeOK, RedisOK, HistoryOK
  <2> QED BY <1>23, <2>7, <2>8 DEF TypeOK, RedisOK, LocalOK, HistoryOK, ThreatIncr, local, bounds, hist
<1>24. ASSUME NEW w \in Worker, ThreatExpire(w) PROVE TypeOK'
  <2> DEFINE s == proc[w]
  <2>1. w \in Proc /\ s.pc # "idle"
    BY <1>24 DEF ThreatExpire, Proc
  <2>2. ProcOK(s) /\ s.req.ip \in IP
    BY <2>1, Running
  <2>3. ProcOK(Idle) /\ ProcOK([s EXCEPT !.pc = "sadd", !.ttl = Cfg.AdaptiveBanTTL])
    BY <2>1, <2>2, ProcStates, CfgTypes DEF PCs, BanPC
  <2>4. dec' \in [Thread -> DecisionType]
    BY <1>24, DecType DEF ThreatExpire
  <2>5. GoroutinesOK'
    BY <1>24, <2>1, <2>3, <2>4, GotoType DEF ThreatExpire
  <2>6. PExpire(thr[s.req.ip], Cfg.ThreatKeyWindow, clock) \in RedisKey
    BY <2>2, CommandTypes, CfgTypes DEF TypeOK, RedisOK
  <2>7. thr' \in [IP -> RedisKey]
    BY <1>24, <2>2, <2>6 DEF ThreatExpire, TypeOK, RedisOK
  <2> QED BY <1>24, <2>5, <2>7 DEF TypeOK, RedisOK, LocalOK, HistoryOK, ThreatExpire, local, bounds, hist
<1>25. ASSUME NEW w \in Worker, NEW applied \in BOOLEAN, NEW retry \in BOOLEAN,
             ThreatFault(w, applied, retry)
      PROVE TypeOK'
  <2> DEFINE s == proc[w]
             i == s.req.ip
  <2>1. w \in Proc /\ s.pc # "idle"
    BY <1>25 DEF ThreatFault, Proc
  <2>2. ProcOK(s) /\ i \in IP
    BY <2>1, Running
  <2>3. ProcOK(Idle) /\ ProcOK([s EXCEPT !.pc = "threat"])
    BY <2>1, <2>2, ProcStates DEF PCs, WorkerPC
  <2>4. dec' \in [Thread -> DecisionType]
    BY <1>25, DecType DEF ThreatFault
  <2>5. GoroutinesOK'
    BY <1>25, <2>1, <2>3, <2>4, GotoType DEF ThreatFault
  <2>6. /\ Incr(thr[i]) \in RedisKey /\ clock \in Nat
        /\ PExpire(thr[i], Cfg.ThreatKeyWindow, clock) \in RedisKey
    BY <2>2, CommandTypes, CfgTypes DEF TypeOK, RedisOK
  <2>7. thr' \in [IP -> RedisKey]
    BY <1>25, <2>2, <2>6 DEF ThreatFault, TypeOK, RedisOK, HistoryOK
  <2> QED BY <1>25, <2>5, <2>7 DEF TypeOK, RedisOK, LocalOK, HistoryOK, ThreatFault, local, hist
<1>26. ASSUME Tick PROVE TypeOK'
  <2>1. clock' \in Nat /\ clock' = clock + 1
    BY <1>26 DEF Tick, TypeOK, RedisOK
  <2>2. \A k \in RedisKey : Expire(k, clock + 1) \in RedisKey
    BY <2>1, CommandTypes
  <2>3. /\ rl' \in [Key -> RedisKey]
        /\ bl' \in [IP -> RedisKey] /\ pen' \in [IP -> RedisKey]
        /\ att' \in [IP -> RedisKey] /\ thr' \in [IP -> RedisKey]
    BY <1>26, <2>2 DEF Tick, ExpireAll, TypeOK, RedisOK
  <2>4. rep' \in [score : [IP \X FP -> Nat], exp : Nat]
    BY <1>26 DEF Tick, Never, TypeOK, RedisOK
  <2>5. granted' \in [Key -> Nat] /\ passed' \in [Key -> Nat] /\ answered' \in SUBSET IP
    BY <1>26 DEF Tick, TypeOK, HistoryOK
  <2> QED BY <1>26, <2>1, <2>3, <2>4, <2>5
          DEF TypeOK, RedisOK, LocalOK, HistoryOK, GoroutinesOK, Tick, local, bounds
<1>27. ASSUME NEW e \in Instance, Restart(e) PROVE TypeOK'
  <2>1. GoroutinesOK'
    BY <1>27, ProcStates DEF Restart, ProcOK, TypeOK, GoroutinesOK
  <2>2. LocalOK' /\ known' \in [Instance -> SUBSET IP]
    BY <1>27 DEF Restart, TypeOK, LocalOK, HistoryOK
  <2> QED BY <1>27, <2>1, <2>2 DEF TypeOK, RedisOK, HistoryOK, Restart, redis
<1>28. ASSUME UNCHANGED vars PROVE TypeOK'
  BY <1>28 DEF TypeOK, RedisOK, LocalOK, HistoryOK, GoroutinesOK, vars, redis, local, bounds, hist
<1> QED BY <1>1, <1>2, <1>3, <1>4, <1>5, <1>6, <1>7, <1>8, <1>9, <1>10, <1>11, <1>12, <1>13, <1>14, <1>15, <1>16, <1>17, <1>18, <1>19, <1>20, <1>21, <1>22, <1>23, <1>24, <1>25, <1>26, <1>27, <1>28 DEF Next, ThreadStep, WorkerStep, BanStep, Proc

\* The initial state is typed.
LEMMA TypeInit == Init => TypeOK
<1> SUFFICES ASSUME Init PROVE TypeOK
  OBVIOUS
<1>1. RedisOK
  BY DEF Init, RedisOK, RedisKey, Absent, Never
<1>2. LocalOK
  BY DEF Init, LocalOK
<1>3. GoroutinesOK
  BY ProcStates DEF Init, GoroutinesOK, ProcOK, NoDecision, DecisionType
<1>4. HistoryOK
  BY DEF Init, HistoryOK
<1> QED BY <1>1, <1>2, <1>3, <1>4 DEF TypeOK

\* Spec keeps every variable in its type, for every configuration; in
\* particular no request is ever judged by a limit above MaxRequests.
THEOREM TypeCorrect == Spec => []TypeOK
BY TypeInit, TypeStep, PTL DEF Spec

-----------------------------------------------------------------------------
(***************************************************************************)
(* The rate limiter: its budget, the lifetime of its counters, and that    *)
(* the engines implement FixedWindow, for every number of instances and    *)
(* goroutines, whatever replies of Redis are lost and retried.             *)
(***************************************************************************)

\* A counter has an expiry exactly while it lives, and keeps at most a window.
CounterInv == \A k \in Key : /\ Live(rl[k]) <=> rl[k].exp # Never
                             /\ Live(rl[k]) => rl[k].exp >= clock
                             /\ Live(rl[k]) => rl[k].exp <= clock + Cfg.Window

\* The counter counts at least what was granted; that makes the budget inductive.
BudgetInv == \A k \in Key : granted[k] <= rl[k].v /\ granted[k] <= Cfg.MaxRequests

\* Without a bloom filter, what is allowed without the script's answer was allowed
\* by FailOpen, for a call that failed.
PassedInv == ~Cfg.Bloom => \A k \in Key : passed[k] <= FailedOpen

LimiterInv == TypeOK /\ CounterInv /\ BudgetInv /\ PassedInv

\* What a call of the script with limit at t did to counter k, of window w.
Effect(r, k, w, limit, t) ==
  /\ r.code = 2 => r.rl = k
  /\ r.code # 2 => /\ r.rl.v = k.v + 1
                   /\ r.rl.exp = IF k.v = 0 THEN t + w ELSE k.exp
  /\ r.code = 0 => k.v + 1 <= limit

\* criticalPathLua either leaves the counter alone (blacklisted) or counts one
\* request, setting the expiry only with the first; a grant is within the limit.
LEMMA CriticalPathEffect ==
  ASSUME NEW b \in RedisKey, NEW k \in RedisKey, NEW w \in Nat, NEW limit \in Nat, NEW t \in Nat
  PROVE  Effect(CriticalPathScript(b, k, w, limit, t), k, w, limit, t)
<1>0. k.v \in Nat /\ k.exp \in Nat
  BY DEF RedisKey
<1>1. /\ Incr(k).v = k.v + 1 /\ Incr(k).exp = k.exp
      /\ PExpire(Incr(k), w, t).v = k.v + 1 /\ PExpire(Incr(k), w, t).exp = t + w
  BY <1>0 DEF Incr, PExpire, Live, RedisKey
<1>2. CASE Live(b)
  BY <1>2 DEF CriticalPathScript, Effect
<1>3. CASE ~Live(b)
  BY <1>0, <1>1, <1>3 DEF CriticalPathScript, Effect
<1> QED BY <1>2, <1>3

\* Only these steps touch the clock, a counter or what was granted.
LEMMA LimiterSteps ==
  [Next]_vars => \/ UNCHANGED <<clock, rl, granted>>
                 \/ \E t \in Thread : CriticalPathReply(t)
                 \/ \E t \in Thread, applied, retry \in BOOLEAN : CriticalPathFault(t, applied, retry)
                 \/ Tick
<1> SUFFICES ASSUME [Next]_vars
             PROVE  \/ UNCHANGED <<clock, rl, granted>>
                    \/ \E t \in Thread : CriticalPathReply(t)
                    \/ \E t \in Thread, applied, retry \in BOOLEAN : CriticalPathFault(t, applied, retry)
                    \/ Tick
  OBVIOUS
<1> USE DEF redis, hist
<1>1. ASSUME NEW p, BanStep(p) PROVE UNCHANGED <<clock, rl, granted>>
  BY <1>1 DEF BanStep, BanIP_SAdd, BanIP_PExpire, BanIP_Fault, BanIP_Cache, BloomAdd
<1>2. ASSUME NEW t, NEW q, NEW limit, Arrive(t, q, limit) PROVE UNCHANGED <<clock, rl, granted>>
  BY <1>2 DEF Arrive
<1>3. ASSUME NEW t, CacheCheck(t) \/ PboxCheck(t) \/ PenaltyTTLReply(t) \/ PenaltyTTLError(t)
      PROVE  UNCHANGED <<clock, rl, granted>>
  BY <1>3 DEF CacheCheck, PboxCheck, PenaltyTTLReply, PenaltyTTLError
<1>4. ASSUME NEW t, PenaltyCached(t) \/ CacheRedisBan(t) \/ Enqueue(t)
      PROVE  UNCHANGED <<clock, rl, granted>>
  BY <1>4 DEF PenaltyCached, CacheRedisBan, Enqueue
<1>5. ASSUME NEW t, NEW maybe, BloomTest(t, maybe) PROVE UNCHANGED <<clock, rl, granted>>
  BY <1>5 DEF BloomTest
<1>6. ASSUME NEW w, NEW score, Dequeue(w, score) PROVE UNCHANGED <<clock, rl, granted>>
  BY <1>6 DEF Dequeue
<1>7. ASSUME NEW w, ReputationReply(w) \/ SetPenalty(w) \/ PenaltyPut(w) \/ ThreatIncr(w) \/ ThreatExpire(w)
      PROVE  UNCHANGED <<clock, rl, granted>>
  BY <1>7 DEF ReputationReply, SetPenalty, PenaltyPut, ThreatIncr, ThreatExpire
<1>8. ASSUME NEW w, ReputationBanCache(w) \/ ReputationBanBloom(w)
      PROVE  UNCHANGED <<clock, rl, granted>>
  BY <1>8 DEF ReputationBanCache, ReputationBanBloom
<1>9. ASSUME NEW w, NEW applied, NEW retry, \/ ReputationFault(w, applied, retry)
                                            \/ SetPenaltyFault(w, applied, retry)
                                            \/ ThreatFault(w, applied, retry)
      PROVE  UNCHANGED <<clock, rl, granted>>
  BY <1>9 DEF ReputationFault, SetPenaltyFault, ThreatFault
<1>10. ASSUME NEW e, Restart(e) PROVE UNCHANGED <<clock, rl, granted>>
  BY <1>10 DEF Restart
<1>11. ASSUME UNCHANGED vars PROVE UNCHANGED <<clock, rl, granted>>
  BY <1>11 DEF vars
<1> QED BY <1>1, <1>2, <1>3, <1>4, <1>5, <1>6, <1>7, <1>8, <1>9, <1>10, <1>11
        DEF Next, ThreadStep, WorkerStep

\* What the script does to the counter of one key, with g requests granted.
Counted(k, g) ==
  /\ \/ rl' = rl /\ g = 0
     \/ /\ rl'[k].v = rl[k].v + 1
        /\ rl'[k].exp = IF rl[k].v = 0 THEN clock + Cfg.Window ELSE rl[k].exp
        /\ \A x \in Key \ {k} : rl'[x] = rl[x]
        /\ g = 1 => rl[k].v + 1 <= Cfg.MaxRequests
  /\ granted' = [granted EXCEPT ![k] = @ + g]
  /\ UNCHANGED clock

\* Both a reply of the script and a fault count at most one request.
LEMMA ScriptCounts ==
  ASSUME TypeOK, NEW t \in Thread,
         \/ CriticalPathReply(t)
         \/ \E applied, retry \in BOOLEAN : CriticalPathFault(t, applied, retry)
  PROVE  \E k \in Key, g \in {0, 1} : Counted(k, g)
<1> DEFINE s == proc[t]
           k == KeyOf(s.req)
           r == ScriptResult(s)
<1>1. t \in Proc /\ s.pc # "idle"
  BY DEF Proc, CriticalPathReply, CriticalPathFault
<1>2. k \in Key /\ s.req.ip \in IP /\ s.lim \in Nat
  BY <1>1, Running
<1>3. s.lim <= Cfg.MaxRequests
  BY <1>1, CfgTypes DEF TypeOK, GoroutinesOK, ProcState
<1>4. rl[k] \in RedisKey /\ bl[s.req.ip] \in RedisKey /\ clock \in Nat /\ rl[k].v \in Nat
  BY <1>2 DEF TypeOK, RedisOK, RedisKey
<1>5. /\ r.code = 2 => r.rl = rl[k]
      /\ r.code # 2 => /\ r.rl.v = rl[k].v + 1
                       /\ r.rl.exp = IF rl[k].v = 0 THEN clock + Cfg.Window ELSE rl[k].exp
      /\ r.code = 0 => rl[k].v + 1 <= s.lim
      /\ r.code \in {0, 1, 2}
  <2>1. Cfg.Window \in Nat
    BY CfgTypes
  <2>2. r.code \in {0, 1, 2}
    BY <1>2, <1>4, <2>1, CriticalPathType DEF ScriptResult
  <2>3. Effect(r, rl[k], Cfg.Window, s.lim, clock)
    BY <1>2, <1>4, <2>1, CriticalPathEffect DEF ScriptResult
  <2> HIDE DEF r
  <2> QED BY <2>2, <2>3 DEF Effect
<1> HIDE DEF r
<1>6. rl' = [rl EXCEPT ![k] = r.rl] => (r.code = 2 => rl' = rl)
  BY <1>2, <1>5 DEF TypeOK, RedisOK
<1>7. CASE CriticalPathReply(t)
  <2>1. rl' = [rl EXCEPT ![k] = r.rl] /\ UNCHANGED clock
    BY <1>7 DEF CriticalPathReply, r
  <2>2. granted' = [granted EXCEPT ![k] = @ + (IF r.code = 0 THEN 1 ELSE 0)]
    <3>1. granted' = [granted EXCEPT ![k] = IF r.code = 0 THEN @ + 1 ELSE @]
      BY <1>7 DEF CriticalPathReply, r
    <3>2. granted[k] \in Nat
      BY <1>2 DEF TypeOK, HistoryOK
    <3>3. CASE r.code = 0
      BY <3>1, <3>3
    <3>4. CASE r.code # 0
      <4>1. granted[k] + 0 = granted[k]
        BY <3>2
      <4> QED BY <3>1, <3>4, <4>1
    <3> QED BY <3>3, <3>4
  <2>3. Counted(k, IF r.code = 0 THEN 1 ELSE 0)
    BY <1>2, <1>3, <1>4, <1>5, <1>6, <2>1, <2>2, CfgTypes DEF Counted, TypeOK, RedisOK
  <2> QED BY <1>2, <2>3
<1>8. CASE \E applied, retry \in BOOLEAN : CriticalPathFault(t, applied, retry)
  <2>1. (rl' = rl \/ rl' = [rl EXCEPT ![k] = r.rl]) /\ UNCHANGED <<clock, granted>>
    BY <1>8 DEF CriticalPathFault, r, hist
  <2>2. granted' = [granted EXCEPT ![k] = @ + 0]
    BY <1>2, <2>1 DEF TypeOK, HistoryOK
  <2>3. Counted(k, 0)
    BY <1>2, <1>5, <1>6, <2>1, <2>2 DEF Counted, TypeOK, RedisOK
  <2> QED BY <1>2, <2>3
<1> QED BY <1>7, <1>8

\* Expiry either drops a key or leaves it as it is.
LEMMA TickCounters ==
  ASSUME TypeOK, Tick, NEW k \in Key
  PROVE  /\ clock' = clock + 1
         /\ IF rl[k].exp # Never /\ rl[k].exp < clock + 1
            THEN rl'[k] = Absent /\ granted'[k] = 0
            ELSE /\ rl'[k] = rl[k]
                 /\ granted'[k] = IF Live(rl[k]) THEN granted[k] ELSE 0
BY DEF Tick, ExpireAll, Expire, Absent, Live, TypeOK, RedisOK

\* A step that allows nothing without the script.
NothingPassed == UNCHANGED passed /\ faults' \in {faults, faults + 1}

\* Only a bloom test, a failed call of the script and time change what was allowed
\* without its answer.
LEMMA PassedSteps ==
  [Next]_vars => \/ NothingPassed
                 \/ \E t \in Thread, maybe \in BOOLEAN : BloomTest(t, maybe)
                 \/ \E t \in Thread, applied, retry \in BOOLEAN : CriticalPathFault(t, applied, retry)
                 \/ Tick
<1> SUFFICES ASSUME [Next]_vars
             PROVE  \/ NothingPassed
                    \/ \E t \in Thread, maybe \in BOOLEAN : BloomTest(t, maybe)
                    \/ \E t \in Thread, applied, retry \in BOOLEAN : CriticalPathFault(t, applied, retry)
                    \/ Tick
  OBVIOUS
<1> USE DEF bounds, hist, NothingPassed
<1>1. ASSUME NEW p, BanStep(p) PROVE NothingPassed
  BY <1>1 DEF BanStep, BanIP_SAdd, BanIP_PExpire, BanIP_Fault, BanIP_Cache, BloomAdd
<1>2. ASSUME NEW t, NEW q, NEW limit, Arrive(t, q, limit) PROVE NothingPassed
  BY <1>2 DEF Arrive
<1>3. ASSUME NEW t, CacheCheck(t) \/ PboxCheck(t) \/ PenaltyTTLReply(t) \/ PenaltyTTLError(t)
      PROVE  NothingPassed
  BY <1>3 DEF CacheCheck, PboxCheck, PenaltyTTLReply, PenaltyTTLError
<1>4. ASSUME NEW t, PenaltyCached(t) \/ CacheRedisBan(t) \/ Enqueue(t) \/ CriticalPathReply(t)
      PROVE  NothingPassed
  BY <1>4 DEF PenaltyCached, CacheRedisBan, Enqueue, CriticalPathReply
<1>5. ASSUME NEW w, NEW score, Dequeue(w, score) PROVE NothingPassed
  BY <1>5 DEF Dequeue
<1>6. ASSUME NEW w, ReputationReply(w) \/ SetPenalty(w) \/ PenaltyPut(w) \/ ThreatIncr(w) \/ ThreatExpire(w)
      PROVE  NothingPassed
  BY <1>6 DEF ReputationReply, SetPenalty, PenaltyPut, ThreatIncr, ThreatExpire
<1>7. ASSUME NEW w, ReputationBanCache(w) \/ ReputationBanBloom(w) PROVE NothingPassed
  BY <1>7 DEF ReputationBanCache, ReputationBanBloom
<1>8. ASSUME NEW w, NEW applied, NEW retry, \/ ReputationFault(w, applied, retry)
                                            \/ SetPenaltyFault(w, applied, retry)
                                            \/ ThreatFault(w, applied, retry)
      PROVE  NothingPassed
  BY <1>8 DEF ReputationFault, SetPenaltyFault, ThreatFault
<1>9. ASSUME NEW e, Restart(e) PROVE NothingPassed
  BY <1>9 DEF Restart
<1>10. ASSUME UNCHANGED vars PROVE NothingPassed
  BY <1>10 DEF vars
<1> QED BY <1>1, <1>2, <1>3, <1>4, <1>5, <1>6, <1>7, <1>8, <1>9, <1>10
        DEF Next, ThreadStep, WorkerStep

\* PassedInv is inductive: a failed call counts one fault for the one request it
\* may let through.
LEMMA PassedStep == TypeOK /\ PassedInv /\ [Next]_vars => PassedInv'
<1> SUFFICES ASSUME TypeOK, PassedInv, [Next]_vars, ~Cfg.Bloom, NEW k \in Key
             PROVE  passed'[k] <= FailedOpen'
  BY DEF PassedInv
<1>1. /\ faults \in Nat /\ passed \in [Key -> Nat] /\ Cfg.FailOpen \in BOOLEAN
      /\ passed[k] <= FailedOpen /\ passed[k] \in Nat
  BY CfgTypes DEF TypeOK, HistoryOK, PassedInv
<1>2. CASE NothingPassed
  BY <1>1, <1>2 DEF NothingPassed, FailedOpen
<1>3. ASSUME NEW t \in Thread, NEW maybe \in BOOLEAN, BloomTest(t, maybe) PROVE FALSE
  BY <1>3 DEF BloomTest
<1>4. ASSUME NEW t \in Thread, NEW applied \in BOOLEAN, NEW retry \in BOOLEAN,
             CriticalPathFault(t, applied, retry)
      PROVE  passed'[k] <= FailedOpen'
  <2>1. faults' = faults + 1
    BY <1>4 DEF CriticalPathFault
  <2>2. passed'[k] \in {passed[k], IF Cfg.FailOpen THEN passed[k] + 1 ELSE passed[k]}
    BY <1>1, <1>4 DEF CriticalPathFault
  <2> QED BY <1>1, <2>1, <2>2 DEF FailedOpen
<1>5. CASE Tick
  <2>1. passed'[k] \in {0, passed[k]} /\ faults' = faults
    BY <1>5 DEF Tick, bounds
  <2> QED BY <1>1, <2>1 DEF FailedOpen
<1> QED BY <1>2, <1>3, <1>4, <1>5, PassedSteps

\* Every step keeps the limiter's invariant.
LEMMA LimiterStep == LimiterInv /\ [Next]_vars => LimiterInv'
<1> SUFFICES ASSUME LimiterInv, [Next]_vars PROVE LimiterInv'
  OBVIOUS
<1>1. TypeOK /\ TypeOK' /\ PassedInv'
  BY TypeStep, PassedStep DEF LimiterInv
<1>2. /\ clock \in Nat /\ rl \in [Key -> RedisKey] /\ granted \in [Key -> Nat]
      /\ clock' \in Nat /\ rl' \in [Key -> RedisKey] /\ granted' \in [Key -> Nat]
      /\ Cfg.Window \in Nat \ {0} /\ Cfg.MaxRequests \in Nat
  BY <1>1, CfgTypes DEF TypeOK, RedisOK, HistoryOK
<1>3. CASE UNCHANGED <<clock, rl, granted>>
  BY <1>1, <1>3 DEF LimiterInv, CounterInv, BudgetInv, Live
<1>4. CASE \E k \in Key, g \in {0, 1} : Counted(k, g)
  <2>1. PICK k \in Key, g \in {0, 1} : Counted(k, g)
    BY <1>4
  <2>2. CounterInv'
    BY <1>2, <2>1 DEF LimiterInv, CounterInv, Counted, Live, Never, RedisKey
  <2>3. BudgetInv'
    BY <1>2, <2>1 DEF LimiterInv, BudgetInv, Counted, RedisKey
  <2> QED BY <1>1, <2>2, <2>3 DEF LimiterInv
<1>5. CASE Tick
  <2>1. CounterInv'
    BY <1>1, <1>2, <1>5, TickCounters DEF LimiterInv, CounterInv, Live, Never, Absent, RedisKey
  <2>2. BudgetInv'
    BY <1>1, <1>2, <1>5, TickCounters DEF LimiterInv, CounterInv, BudgetInv, Live, Never, Absent, RedisKey
  <2> QED BY <1>1, <2>1, <2>2 DEF LimiterInv
<1> QED BY <1>1, <1>3, <1>4, <1>5, LimiterSteps, ScriptCounts

\* Init establishes it.
LEMMA LimiterInit == Init => LimiterInv
<1> SUFFICES ASSUME Init PROVE LimiterInv
  OBVIOUS
<1>1. TypeOK
  BY TypeInit
<1>2. /\ \A k \in Key : rl[k] = Absent /\ granted[k] = 0 /\ passed[k] = 0
      /\ faults = 0
  BY DEF Init
<1>3. CounterInv
  BY <1>2 DEF CounterInv, Live, Absent, Never
<1>4. BudgetInv
  BY <1>2, CfgTypes DEF BudgetInv, Absent
<1>5. PassedInv
  BY <1>2 DEF PassedInv, FailedOpen
<1> QED BY <1>1, <1>3, <1>4, <1>5 DEF LimiterInv

THEOREM LimiterInvariant == Spec => []LimiterInv
BY LimiterInit, LimiterStep, PTL DEF Spec

\* In a window of a key the script, called by all instances together, grants at most
\* MaxRequests requests: criticalPathLua's counter is at least what was granted.
\* And all that Process allows in it is bounded, unless there is a bloom filter: by
\* MaxRequests and one request for each failed call under FailOpen.
THEOREM Budget == Spec => []WindowBudget
<1>1. LimiterInv => WindowBudget
  <2> SUFFICES ASSUME LimiterInv, NEW k \in Key
               PROVE  /\ granted[k] <= Cfg.MaxRequests
                      /\ ~Cfg.Bloom => granted[k] + passed[k] <= Cfg.MaxRequests + FailedOpen
    BY DEF WindowBudget
  <2>1. granted[k] \in Nat /\ passed[k] \in Nat /\ Cfg.MaxRequests \in Nat /\ FailedOpen \in Nat
    BY CfgTypes DEF LimiterInv, TypeOK, HistoryOK, FailedOpen
  <2>2. granted[k] <= Cfg.MaxRequests /\ (~Cfg.Bloom => passed[k] <= FailedOpen)
    BY DEF LimiterInv, BudgetInv, PassedInv
  <2> QED BY <2>1, <2>2
<1> QED BY <1>1, LimiterInvariant, PTL

\* No rate-limit counter is left without an expiry or with one later than a
\* window from now, even when the script's reply is lost.
THEOREM CountersExpire == Spec => []CounterExpires
<1>1. LimiterInv => CounterExpires
  BY DEF LimiterInv, CounterInv, CounterExpires
<1> QED BY <1>1, LimiterInvariant, PTL

\* A step that counts a request of k is an Examine step of the abstract limiter.
LEMMA CountedExamines ==
  ASSUME LimiterInv, LimiterInv', NEW k \in Key, NEW g \in {0, 1}, Counted(k, g)
  PROVE  [FW!Next]_(FW!fwVars)
<1> DEFINE dl == [x \in Key |-> rl[x].exp]
<1>1. /\ clock \in Nat /\ rl \in [Key -> RedisKey] /\ granted \in [Key -> Nat]
      /\ rl' \in [Key -> RedisKey] /\ Cfg.MaxRequests \in Nat
  BY CfgTypes DEF LimiterInv, TypeOK, RedisOK, HistoryOK
<1>2. CASE rl' = rl /\ g = 0
  <2>1. granted' = granted
    BY <1>1, <1>2 DEF Counted
  <2> QED BY <1>2, <2>1 DEF FW!fwVars, Counted
<1>3. CASE ~(rl' = rl /\ g = 0)
  <2>1. /\ rl'[k].exp = IF rl[k].v = 0 THEN clock + Cfg.Window ELSE rl[k].exp
        /\ \A x \in Key \ {k} : rl'[x] = rl[x]
        /\ granted' = [granted EXCEPT ![k] = @ + g] /\ clock' = clock
    BY <1>3 DEF Counted
  <2>2. rl[k].v = 0 <=> rl[k].exp = 0
    BY DEF LimiterInv, CounterInv, Live, Never
  <2>3. dl' = [dl EXCEPT ![k] = IF @ = 0 THEN clock + Cfg.Window ELSE @]
    BY <2>1, <2>2
  <2>4. granted[k] + g <= Cfg.MaxRequests
    BY <1>1, <2>1 DEF LimiterInv, BudgetInv
  <2>5. FW!Examine(k, g)
    BY <2>1, <2>3, <2>4 DEF FW!Examine
  <2> QED BY <2>5 DEF FW!Next
<1> QED BY <1>2, <1>3

\* The passing of time is an Advance step.
LEMMA TickAdvances ==
  ASSUME LimiterInv, Tick
  PROVE  FW!Next
<1> DEFINE dl == [x \in Key |-> rl[x].exp]
<1>1. TypeOK /\ clock \in Nat /\ rl \in [Key -> RedisKey] /\ granted \in [Key -> Nat]
  BY DEF LimiterInv, TypeOK, RedisOK, HistoryOK
<1>2. clock' = clock + 1
  BY DEF Tick
<1>3. ASSUME NEW k \in Key
      PROVE  /\ rl'[k].exp = IF rl[k].exp < clock' THEN 0 ELSE rl[k].exp
             /\ granted'[k] = IF rl[k].exp < clock' THEN 0 ELSE granted[k]
  <2>1. rl[k].v \in Nat /\ rl[k].exp \in Nat /\ granted[k] \in Nat /\ granted[k] <= rl[k].v
    BY <1>1 DEF RedisKey, LimiterInv, BudgetInv
  <2>2. rl[k].v = 0 <=> rl[k].exp = 0
    BY DEF LimiterInv, CounterInv, Live, Never
  <2>3. IF rl[k].exp # Never /\ rl[k].exp < clock + 1
        THEN rl'[k] = Absent /\ granted'[k] = 0
        ELSE /\ rl'[k] = rl[k]
             /\ granted'[k] = IF Live(rl[k]) THEN granted[k] ELSE 0
    BY <1>1, TickCounters
  <2> QED BY <1>1, <1>2, <2>1, <2>2, <2>3 DEF Absent, Never, Live
<1>4. dl' = [k \in Key |-> IF dl[k] < clock' THEN 0 ELSE dl[k]]
  BY <1>3
<1>5. granted' = [k \in Key |-> IF dl[k] < clock' THEN 0 ELSE granted[k]]
  <2>1. granted' = [k \in Key |-> granted'[k]]
    BY DEF Tick
  <2> QED BY <1>3, <2>1
<1>6. FW!Advance
  BY <1>2, <1>4, <1>5 DEF FW!Advance
<1> QED BY <1>6 DEF FW!Next

\* The engines, with their lost replies and retries, implement the abstract
\* fixed-window limiter: FixedWindow's deadline is the counter's expiry in Redis.
THEOREM LimiterRefinement == Spec => ImplementsFixedWindow
<1>1. Init => FW!Init
  BY DEF Init, FW!Init, Absent, Never
<1>2. LimiterInv /\ LimiterInv' /\ [Next]_vars => [FW!Next]_(FW!fwVars)
  <2> SUFFICES ASSUME LimiterInv, LimiterInv', [Next]_vars PROVE [FW!Next]_(FW!fwVars)
    OBVIOUS
  <2>1. TypeOK
    BY DEF LimiterInv
  <2>2. CASE UNCHANGED <<clock, rl, granted>>
    BY <2>2 DEF FW!fwVars
  <2>3. CASE \E k \in Key, g \in {0, 1} : Counted(k, g)
    BY <2>3, CountedExamines
  <2>4. CASE Tick
    BY <2>4, TickAdvances
  <2> QED BY <2>1, <2>2, <2>3, <2>4, LimiterSteps, ScriptCounts
<1> QED BY <1>1, <1>2, LimiterInvariant, PTL DEF Spec, ImplementsFixedWindow, FW!Spec

-----------------------------------------------------------------------------
(* Bans: Redis, the local caches and the bloom filters                     *)

\* Where a goroutine may be without an address, and where it must already have
\* written a ban.
Addressless == {"idle", "lua", "enq", "blcache"}
BanWritten  == {"pexpire", "bancache", "blcache", "repcache"}
Adding      == {"bloomadd", "repbloom"}

\* Strengthening of LocalBanBacked: what is live in Redis, what a goroutine is
\* about to cache and what an instance has cached was written as a ban; and the
\* empty address never is.
BackedInv ==
  /\ NoIP \notin banned
  /\ \A i \in IP : Live(bl[i]) => i \in banned
  /\ \A p \in Proc : /\ proc[p].pc \notin Addressless => proc[p].req.ip # NoIP
                     /\ proc[p].pc \in BanWritten => proc[p].req.ip \in banned
  /\ \A e \in Instance : known[e] \subseteq banned

BanInv == TypeOK /\ BackedInv /\ KnownStaysInBloom

\* One goroutine moves; what it may do to the bans without breaking BackedInv.
LEMMA BackedMove ==
  ASSUME TypeOK, BackedInv, NEW p \in Proc, NEW u, Goto(p, u),
         banned \subseteq banned', NoIP \notin banned',
         \A i \in IP : Live(bl'[i]) => i \in banned',
         u.pc \notin Addressless => u.req.ip # NoIP,
         u.pc \in BanWritten => u.req.ip \in banned',
         \A e \in Instance : known'[e] \subseteq banned'
  PROVE  BackedInv'
<1>1. proc' = [proc EXCEPT ![p] = u] /\ proc \in [Proc -> ProcState]
  BY DEF Goto, TypeOK, GoroutinesOK
<1>2. \A q \in Proc : proc'[q] = IF q = p THEN u ELSE proc[q]
  BY <1>1
<1>3. \A q \in Proc : /\ proc'[q].pc \notin Addressless => proc'[q].req.ip # NoIP
                      /\ proc'[q].pc \in BanWritten => proc'[q].req.ip \in banned'
  BY <1>2 DEF BackedInv
<1> QED BY <1>3 DEF BackedInv

\* The same for a move that leaves the bans alone.
LEMMA BackedQuietMove ==
  ASSUME TypeOK, BackedInv, NEW p \in Proc, NEW u, Goto(p, u),
         UNCHANGED <<bl, banned, known>>,
         u.pc \notin Addressless => u.req.ip # NoIP,
         u.pc \in BanWritten => u.req.ip \in banned
  PROVE  BackedInv'
<1>1. /\ banned \subseteq banned' /\ NoIP \notin banned'
      /\ \A i \in IP : Live(bl'[i]) => i \in banned'
      /\ \A e \in Instance : known'[e] \subseteq banned'
  BY DEF BackedInv
<1>2. u.pc \in BanWritten => u.req.ip \in banned'
  OBVIOUS
<1> QED BY <1>1, <1>2, BackedMove

\* One goroutine moves; what it may do to the filters without breaking
\* KnownStaysInBloom: an address it leaves unadded was added, one it newly caches
\* it is about to add.
LEMMA BloomMove ==
  ASSUME TypeOK, KnownStaysInBloom, NEW p \in Proc, NEW u, Goto(p, u),
         \A e \in Instance : bloom[e] \subseteq bloom'[e],
         proc[p].pc \in Adding => proc[p].req.ip \in bloom'[EngineOf[p]],
         Cfg.Bloom => \A e \in Instance : \A i \in known'[e] :
            i \in known[e] \/ (e = EngineOf[p] /\ u.pc \in Adding /\ i = u.req.ip)
  PROVE  KnownStaysInBloom'
<1>1. proc' = [proc EXCEPT ![p] = u] /\ proc \in [Proc -> ProcState]
  BY DEF Goto, TypeOK, GoroutinesOK
<1>2. \A q \in Proc : proc'[q] = IF q = p THEN u ELSE proc[q]
  BY <1>1
<1> SUFFICES ASSUME Cfg.Bloom, NEW e \in Instance, NEW i \in known'[e]
             PROVE  i \in bloom'[e] \cup AddingToBloom(e)'
  BY DEF KnownStaysInBloom
<1>3. \A q \in Proc : (EngineOf[q] = e /\ proc'[q].pc \in Adding /\ proc'[q].req.ip = i)
                      => i \in AddingToBloom(e)'
  BY DEF AddingToBloom, Adding
<1>4. CASE i \in known[e]
  <2>1. i \in bloom[e] \/ \E q \in Proc : EngineOf[q] = e /\ proc[q].pc \in Adding /\ proc[q].req.ip = i
    BY <1>4 DEF KnownStaysInBloom, AddingToBloom, Adding
  <2> QED BY <1>2, <1>3, <2>1
<1>5. CASE e = EngineOf[p] /\ u.pc \in Adding /\ i = u.req.ip
  BY <1>2, <1>3, <1>5
<1> QED BY <1>4, <1>5

\* The same for a move that adds and caches nothing.
LEMMA BloomQuietMove ==
  ASSUME TypeOK, KnownStaysInBloom, NEW p \in Proc, NEW u, Goto(p, u),
         UNCHANGED <<bloom, known>>, proc[p].pc \notin Adding
  PROVE  KnownStaysInBloom'
BY BloomMove

\* Both for the most common move.
LEMMA QuietMove ==
  ASSUME BanInv, TypeOK', NEW p \in Proc, NEW u, Goto(p, u),
         UNCHANGED <<bl, banned, known, bloom>>, proc[p].pc \notin Adding,
         u.pc \notin Addressless => u.req.ip # NoIP,
         u.pc \in BanWritten => u.req.ip \in banned
  PROVE  BanInv'
BY BackedQuietMove, BloomQuietMove DEF BanInv

\* A change of control state keeps the request.
LEMMA SameRequest ==
  ASSUME NEW s \in ProcState
  PROVE  /\ Idle.pc = "idle"
         /\ \A x : [s EXCEPT !.pc = x].pc = x /\ [s EXCEPT !.pc = x].req = s.req
         /\ \A x, d : [s EXCEPT !.pc = x, !.ttl = d].pc = x /\ [s EXCEPT !.pc = x, !.ttl = d].req = s.req
         /\ \A x, d : [s EXCEPT !.pc = x, !.n = d].pc = x /\ [s EXCEPT !.pc = x, !.n = d].req = s.req
BY DEF ProcState, Idle

\* Where the branches lead, with the same request unless they lead to idle.
LEMMA Branches ==
  ASSUME NEW s \in ProcState
  PROVE  /\ Enqueueing(s).pc \in {"idle", "enq"}
         /\ PastPenalty(s).pc \in {"bloom", "lua"} /\ PastPenalty(s).req = s.req
         /\ \/ PastReputation(s).pc = "idle"
            \/ PastReputation(s).pc = "threat" /\ PastReputation(s).req = s.req
BY SameRequest DEF Enqueueing, PastPenalty, PastReputation

\* A request in penalty goes on to the filter or the script, or to banIP.
LEMMA InPenaltyMove ==
  ASSUME TypeOK, NEW t \in Thread, proc[t].pc # "idle", InPenalty(t, proc[t])
  PROVE  \E u : Goto(t, u) /\ u.pc \in {"bloom", "lua", "sadd"} /\ u.req = proc[t].req
<1> DEFINE s == proc[t]
           v == [s EXCEPT !.lim = IF @ > 1 THEN 1 ELSE @]
<1>1. s \in ProcState
  BY DEF TypeOK, GoroutinesOK, Proc
<1>2. v \in ProcState /\ v.req = s.req
  BY <1>1, CfgTypes DEF ProcState
<1>3. PastPenalty(v).pc \in {"bloom", "lua"} /\ PastPenalty(v).req = s.req
  <2> HIDE DEF v
  <2> QED BY <1>2, Branches
<1>4. CASE s.req.ok
  BY <1>3, <1>4 DEF InPenalty
<1>5. CASE ~s.req.ok
  <2> DEFINE u == [s EXCEPT !.pc = "sadd", !.ttl = PenaltyBan]
  <2>1. u.pc = "sadd" /\ u.req = s.req
    BY <1>1, SameRequest
  <2>2. Goto(t, u)
    BY <1>5 DEF InPenalty
  <2> QED BY <2>1, <2>2
<1> QED BY <1>4, <1>5

\* criticalPathLua answers 2 only for an address banned in Redis.
LEMMA CodeTwoBanned ==
  ASSUME NEW b, NEW k, NEW w, NEW limit, NEW t,
         CriticalPathScript(b, k, w, limit, t).code = 2
  PROVE  Live(b)
BY DEF CriticalPathScript

\* reputationLua touches the ban only when it answers "blacklist".
LEMMA RepBansOnlyWithTwo ==
  ASSUME NEW keys, NEW f, NEW delta, NEW c, NEW t,
         ReputationScript(keys, f, delta, c, t).action # 2
  PROVE  ReputationScript(keys, f, delta, c, t).bl = keys.bl
BY DEF ReputationScript

\* So its writes keep every live ban recorded.
LEMMA RepWritesBanned ==
  ASSUME TypeOK, BackedInv, NEW s, s.req.ip \in IP, s.req.ip # NoIP,
         RepWrites(s.req.ip, RepResult(s))
  PROVE  /\ banned \subseteq banned' /\ NoIP \notin banned'
         /\ \A i \in IP : Live(bl'[i]) => i \in banned'
         /\ RepResult(s).action = 2 => s.req.ip \in banned'
<1> DEFINE r == RepResult(s)
           ip == s.req.ip
<1>1. r.action # 2 => r.bl = bl[ip]
  BY RepBansOnlyWithTwo DEF RepResult
<1> HIDE DEF r
<1>2. /\ bl' = [bl EXCEPT ![ip] = r.bl]
      /\ banned' = IF r.action = 2 THEN banned \cup {ip} ELSE banned
  BY DEF RepWrites, r
<1>3. \A i \in IP : bl'[i] = IF i = ip THEN r.bl ELSE bl[i]
  BY <1>2 DEF TypeOK, RedisOK
<1>4. CASE r.action = 2
  BY <1>2, <1>3, <1>4 DEF BackedInv, r
<1>5. CASE r.action # 2
  BY <1>1, <1>2, <1>3, <1>5 DEF BackedInv, r
<1> QED BY <1>4, <1>5

\* A goroutine that caches a ban and goes on to the filter (or has none).
LEMMA CachingMove ==
  ASSUME BanInv, TypeOK', NEW p \in Proc, NEW u, NEW until, Goto(p, u),
         proc[p].req.ip \in IP, proc[p].req.ip \in banned, proc[p].pc \notin Adding,
         CachePut(EngineOf[p], proc[p].req.ip, until),
         UNCHANGED <<bl, banned, bloom>>,
         u.pc \notin Addressless => u.req.ip # NoIP,
         u.pc \notin BanWritten,
         Cfg.Bloom => u.pc \in Adding /\ u.req.ip = proc[p].req.ip
  PROVE  BanInv'
<1> DEFINE ip == proc[p].req.ip
           e0 == EngineOf[p]
<1>1. \A e \in Instance : known'[e] = IF e = e0 THEN known[e] \cup {ip} ELSE known[e]
  BY DEF CachePut, BanInv, TypeOK, HistoryOK
<1>2. BackedInv'
  <2>1. /\ banned \subseteq banned' /\ NoIP \notin banned'
        /\ \A i \in IP : Live(bl'[i]) => i \in banned'
        /\ \A e \in Instance : known'[e] \subseteq banned'
    BY <1>1 DEF BanInv, BackedInv
  <2>2. TypeOK /\ BackedInv
    BY DEF BanInv
  <2> QED BY <2>1, <2>2, BackedMove
<1>3. KnownStaysInBloom'
  <2>1. TypeOK /\ KnownStaysInBloom
    BY DEF BanInv
  <2> QED BY <1>1, <2>1, BloomMove
<1> QED BY <1>2, <1>3 DEF BanInv

\* A move that writes no ban: it ends where no address is needed, or goes on with
\* the address it had, to where no ban need have been written.
Quiet(p) ==
  \E u : /\ Goto(p, u)
         /\ UNCHANGED <<bl, banned, known, bloom>>
         /\ proc[p].pc \notin Adding
         /\ \/ u.pc \in {"idle", "lua", "enq"}
            \/ u.pc \notin BanWritten /\ u.req = proc[p].req /\ proc[p].pc \notin Addressless

\* Such a move keeps BanInv.
LEMMA QuietStep ==
  ASSUME BanInv, TypeOK', NEW p \in Proc, Quiet(p)
  PROVE  BanInv'
<1>1. PICK u : /\ Goto(p, u)
               /\ UNCHANGED <<bl, banned, known, bloom>>
               /\ proc[p].pc \notin Adding
               /\ \/ u.pc \in {"idle", "lua", "enq"}
                  \/ u.pc \notin BanWritten /\ u.req = proc[p].req /\ proc[p].pc \notin Addressless
  BY DEF Quiet
<1>2. u.pc \notin Addressless => u.req.ip # NoIP
  BY <1>1 DEF BanInv, BackedInv, Addressless
<1>3. u.pc \in BanWritten => u.req.ip \in banned
  BY <1>1 DEF BanWritten
<1> QED BY <1>1, <1>2, <1>3, QuietMove

\* Process writes no ban before banIP, except that it may find one.
LEMMA ProcessQuiet ==
  ASSUME TypeOK, NEW t \in Thread,
         \/ CacheCheck(t) \/ PboxCheck(t) \/ PenaltyTTLReply(t) \/ PenaltyTTLError(t)
         \/ PenaltyCached(t) \/ Enqueue(t)
         \/ \E maybe \in BOOLEAN : BloomTest(t, maybe)
  PROVE  Quiet(t)
<1> DEFINE s == proc[t]
<1>0. s \in ProcState
  BY DEF TypeOK, GoroutinesOK, Proc
<1> USE DEF Adding, BanWritten, Addressless, hist, redis, local
<1>1. CASE CacheCheck(t)
  <2> DEFINE u == IF IsBlacklisted(cache[EngineOf[t]], s.req.ip, s.now)
                  THEN Idle ELSE [s EXCEPT !.pc = "pbox"]
  <2>1. Goto(t, u) /\ s.pc = "cache"
    BY <1>1 DEF CacheCheck
  <2>2. u.pc = "idle" \/ (u.pc = "pbox" /\ u.req = s.req)
    BY <1>0, SameRequest
  <2> HIDE DEF u
  <2> QED BY <1>1, <2>1, <2>2 DEF CacheCheck, Quiet
<1>2. CASE PboxCheck(t)
  <2>1. CASE IsBlacklisted(pbox[EngineOf[t]], s.req.ip, s.now)
    <3>1. InPenalty(t, s) /\ s.pc = "pbox"
      BY <1>2, <2>1 DEF PboxCheck
    <3> QED BY <1>2, <3>1, InPenaltyMove DEF PboxCheck, Quiet
  <2>2. CASE ~IsBlacklisted(pbox[EngineOf[t]], s.req.ip, s.now)
    <3> DEFINE u == [s EXCEPT !.pc = "pttl"]
    <3>1. Goto(t, u) /\ s.pc = "pbox"
      BY <1>2, <2>2 DEF PboxCheck
    <3>2. u.pc = "pttl" /\ u.req = s.req
      BY <1>0, SameRequest
    <3> HIDE DEF u
    <3> QED BY <1>2, <3>1, <3>2 DEF PboxCheck, Quiet
  <2> QED BY <2>1, <2>2
<1>3. CASE PenaltyTTLReply(t)
  <2> DEFINE ttl == PTTL(pen[s.req.ip], clock)
             u == IF ttl <= 0 THEN PastPenalty(s) ELSE [s EXCEPT !.pc = "pboxput", !.ttl = ttl]
  <2>1. u.pc \in {"bloom", "lua", "pboxput"} /\ u.req = s.req
    BY <1>0, SameRequest, Branches
  <2>2. Goto(t, u)
    BY <1>3 DEF PenaltyTTLReply
  <2> HIDE DEF u
  <2> QED BY <1>3, <2>1, <2>2 DEF PenaltyTTLReply, Quiet
<1>4. CASE PenaltyTTLError(t)
  BY <1>0, <1>4, Branches DEF PenaltyTTLError, Quiet
<1>5. CASE PenaltyCached(t)
  <2>1. InPenalty(t, s) /\ s.pc = "pboxput"
    BY <1>5 DEF PenaltyCached
  <2> QED BY <1>5, <2>1, InPenaltyMove DEF PenaltyCached, Quiet
<1>6. CASE Enqueue(t)
  BY <1>0, <1>6, SameRequest DEF Enqueue, Quiet
<1>7. ASSUME NEW maybe \in BOOLEAN, BloomTest(t, maybe) PROVE Quiet(t)
  <2>1. CASE maybe
    <3> DEFINE u == [s EXCEPT !.pc = "lua"]
    <3>1. Goto(t, u) /\ s.pc = "bloom"
      BY <1>7, <2>1 DEF BloomTest
    <3>2. u.pc = "lua"
      BY <1>0, SameRequest
    <3> HIDE DEF u
    <3> QED BY <1>7, <3>1, <3>2 DEF BloomTest, Quiet
  <2>2. CASE ~maybe
    BY <1>0, <1>7, <2>2, Branches DEF BloomTest, Quiet
  <2> QED BY <2>1, <2>2
<1> QED BY <1>1, <1>2, <1>3, <1>4, <1>5, <1>6, <1>7

\* So does the background pipeline outside the reputation script and banIP.
LEMMA WorkerQuiet ==
  ASSUME TypeOK, NEW w \in Worker,
         \/ SetPenalty(w) \/ PenaltyPut(w) \/ ThreatIncr(w) \/ ThreatExpire(w)
         \/ \E applied, retry \in BOOLEAN : SetPenaltyFault(w, applied, retry) \/ ThreatFault(w, applied, retry)
  PROVE  Quiet(w)
<1> DEFINE s == proc[w]
<1>0. s \in ProcState
  BY DEF TypeOK, GoroutinesOK, Proc
<1> USE DEF Adding, BanWritten, Addressless, hist, redis, local
<1>1. CASE SetPenalty(w)
  <2> DEFINE u == [s EXCEPT !.pc = "penput"]
  <2>1. Goto(w, u) /\ s.pc = "setpen"
    BY <1>1 DEF SetPenalty
  <2>2. u.pc = "penput" /\ u.req = s.req
    BY <1>0, SameRequest
  <2> HIDE DEF u
  <2> QED BY <1>1, <2>1, <2>2 DEF SetPenalty, Quiet
<1>2. CASE PenaltyPut(w)
  BY <1>0, <1>2, Branches DEF PenaltyPut, Quiet
<1>3. CASE ThreatIncr(w)
  <2> DEFINE u == [s EXCEPT !.pc = "threxp", !.n = Incr(thr[s.req.ip]).v]
  <2>1. u.pc = "threxp" /\ u.req = s.req /\ Goto(w, u)
    BY <1>0, <1>3, SameRequest DEF ThreatIncr
  <2> HIDE DEF u
  <2> QED BY <1>3, <2>1 DEF ThreatIncr, Quiet
<1>4. CASE ThreatExpire(w)
  <2> DEFINE u == IF s.n >= Cfg.ThreatCountThreshold
                  THEN [s EXCEPT !.pc = "sadd", !.ttl = Cfg.AdaptiveBanTTL] ELSE Idle
  <2>1. Goto(w, u) /\ (u.pc = "idle" \/ (u.pc = "sadd" /\ u.req = s.req))
    BY <1>0, <1>4, SameRequest DEF ThreatExpire
  <2> HIDE DEF u
  <2> QED BY <1>4, <2>1 DEF ThreatExpire, Quiet
<1>5. ASSUME NEW applied \in BOOLEAN, NEW retry \in BOOLEAN, SetPenaltyFault(w, applied, retry)
      PROVE  Quiet(w)
  <2> DEFINE u == IF retry THEN s ELSE PastReputation(s)
  <2>1. Goto(w, u) /\ s.pc = "setpen"
    BY <1>5 DEF SetPenaltyFault
  <2>2. u.pc = "idle" \/ (u.pc \in {"threat", "setpen"} /\ u.req = s.req)
    BY <1>0, <2>1, Branches
  <2> HIDE DEF u
  <2> QED BY <1>5, <2>1, <2>2 DEF SetPenaltyFault, Quiet
<1>6. ASSUME NEW applied \in BOOLEAN, NEW retry \in BOOLEAN, ThreatFault(w, applied, retry)
      PROVE  Quiet(w)
  <2> DEFINE u == IF retry THEN [s EXCEPT !.pc = "threat"] ELSE Idle
  <2>1. Goto(w, u) /\ s.pc \in {"threat", "threxp"}
    BY <1>6 DEF ThreatFault
  <2>2. u.pc = "idle" \/ (u.pc = "threat" /\ u.req = s.req)
    BY <1>0, SameRequest
  <2> HIDE DEF u
  <2> QED BY <1>6, <2>1, <2>2 DEF ThreatFault, Quiet
<1> QED BY <1>1, <1>2, <1>3, <1>4, <1>5, <1>6

\* Every step keeps BanInv.
LEMMA BanStepInv == BanInv /\ [Next]_vars => BanInv'
<1> SUFFICES ASSUME BanInv, [Next]_vars PROVE BanInv'
  OBVIOUS
<1>0. TypeOK /\ TypeOK' /\ BackedInv /\ KnownStaysInBloom
  BY TypeStep DEF BanInv
<1>1. ASSUME NEW t \in Thread, NEW q \in Request, NEW limit \in Cfg.EffLimits, Arrive(t, q, limit)
      PROVE  BanInv'
  <2> DEFINE u == [pc |-> IF q.ip = NoIP THEN "lua" ELSE "cache", req |-> q,
                   now |-> clock, lim |-> limit, ttl |-> 0, n |-> 0]
  <2>1. Goto(t, u) /\ proc[t].pc = "idle" /\ UNCHANGED <<bl, banned, known, bloom>>
    BY <1>1 DEF Arrive, redis, local, hist
  <2>2. /\ u.pc \notin Addressless => u.req.ip # NoIP
        /\ u.pc \notin BanWritten /\ proc[t].pc \notin Adding
    BY <2>1 DEF Addressless, BanWritten, Adding
  <2> HIDE DEF u
  <2> QED BY <1>0, <2>1, <2>2, QuietMove DEF Proc
<1>2. ASSUME NEW t \in Thread,
             \/ CacheCheck(t) \/ PboxCheck(t) \/ PenaltyTTLReply(t) \/ PenaltyTTLError(t)
             \/ PenaltyCached(t) \/ Enqueue(t)
             \/ \E maybe \in BOOLEAN : BloomTest(t, maybe)
      PROVE  BanInv'
  BY <1>0, <1>2, ProcessQuiet, QuietStep DEF Proc
<1>3. ASSUME NEW t \in Thread, CriticalPathReply(t) PROVE BanInv'
  <2> DEFINE s == proc[t]
             r == ScriptResult(s)
             u == CASE r.code = 2 -> [s EXCEPT !.pc = "blcache"]
                    [] r.code = 1 -> Idle
                    [] OTHER      -> Enqueueing(s)
  <2>1. t \in Proc /\ s.pc = "lua" /\ Goto(t, u) /\ UNCHANGED <<bl, banned, known, bloom>>
    BY <1>3 DEF CriticalPathReply, Proc, local
  <2>2. s \in ProcState /\ s.req.ip \in IP
    BY <1>0, <2>1, Running DEF ProcOK
  <2>3. r.code = 2 => s.req.ip \in banned
    BY <1>0, <2>2, CodeTwoBanned DEF ScriptResult, BackedInv
  <2> HIDE DEF r
  <2>4. \/ u.pc \in {"idle", "enq"}
        \/ u.pc = "blcache" /\ u.req = s.req /\ r.code = 2
    BY <2>2, SameRequest, Branches
  <2> HIDE DEF u
  <2>5. /\ u.pc \notin Addressless => u.req.ip # NoIP
        /\ u.pc \in BanWritten => u.req.ip \in banned
        /\ s.pc \notin Adding
    BY <2>1, <2>3, <2>4 DEF Addressless, BanWritten, Adding
  <2> QED BY <1>0, <2>1, <2>5, QuietMove
<1>4. ASSUME NEW t \in Thread, NEW applied \in BOOLEAN, NEW retry \in BOOLEAN,
             CriticalPathFault(t, applied, retry)
      PROVE  BanInv'
  <2> DEFINE s == proc[t]
             u == IF retry THEN s ELSE IF Cfg.FailOpen THEN Enqueueing(s) ELSE Idle
  <2>1. t \in Proc /\ s.pc = "lua" /\ UNCHANGED <<bl, banned, known, bloom>>
    BY <1>4 DEF CriticalPathFault, Proc, local, hist
  <2>2. s \in ProcState
    BY <1>0, <2>1 DEF TypeOK, GoroutinesOK
  <2>3. Goto(t, u)
    BY <1>0, <1>4, <2>1 DEF CriticalPathFault, Goto, TypeOK, GoroutinesOK
  <2>4. u.pc \in {"idle", "lua", "enq"}
    BY <2>1, <2>2, SameRequest, Branches
  <2> HIDE DEF u
  <2>5. Quiet(t)
    BY <2>1, <2>3, <2>4 DEF Quiet, Adding
  <2> QED BY <1>0, <2>1, <2>5, QuietStep
<1>5. ASSUME NEW t \in Thread, CacheRedisBan(t) PROVE BanInv'
  <2> DEFINE s == proc[t]
             u == IF s.req.ip # NoIP /\ Cfg.Bloom THEN [s EXCEPT !.pc = "bloomadd"] ELSE Idle
  <2>1. /\ t \in Proc /\ s.pc = "blcache" /\ Goto(t, u) /\ UNCHANGED <<bl, banned, bloom>>
        /\ CachePut(EngineOf[t], s.req.ip, s.now + CacheGrace)
    BY <1>5 DEF CacheRedisBan, Proc, redis
  <2>2. s \in ProcState /\ s.req.ip \in IP
    BY <1>0, <2>1, Running DEF ProcOK
  <2>3. s.req.ip \in banned /\ s.req.ip # NoIP
    BY <1>0, <2>1 DEF BackedInv, BanWritten
  <2>4. /\ u.pc \in {"idle", "bloomadd"}
        /\ u.pc = "bloomadd" => u.req = s.req
        /\ Cfg.Bloom => u.pc = "bloomadd"
    BY <2>2, <2>3, SameRequest
  <2> HIDE DEF u
  <2>5. /\ u.pc \notin Addressless => u.req.ip # NoIP
        /\ u.pc \notin BanWritten /\ s.pc \notin Adding
        /\ Cfg.Bloom => u.pc \in Adding /\ u.req.ip = s.req.ip
    BY <2>1, <2>3, <2>4 DEF Addressless, BanWritten, Adding
  <2> QED BY <1>0, <2>1, <2>2, <2>3, <2>5, CachingMove
<1>6. ASSUME NEW p \in Proc, BanIP_SAdd(p) PROVE BanInv'
  <2> DEFINE s == proc[p]
             u == [s EXCEPT !.pc = "pexpire"]
  <2>1. /\ s.pc = "sadd" /\ Goto(p, u) /\ UNCHANGED <<known, bloom>>
        /\ bl' = [bl EXCEPT ![s.req.ip] = SAdd(@)] /\ banned' = banned \cup {s.req.ip}
    BY <1>6 DEF BanIP_SAdd, local
  <2>2. s \in ProcState /\ s.req.ip # NoIP
    BY <1>0, <2>1 DEF TypeOK, GoroutinesOK, BackedInv, Addressless
  <2>3. u.pc = "pexpire" /\ u.req = s.req
    BY <2>2, SameRequest
  <2> HIDE DEF u
  <2>4. \A i \in IP : i # s.req.ip => bl'[i] = bl[i]
    BY <1>0, <2>1 DEF TypeOK, RedisOK
  <2>5. /\ banned \subseteq banned' /\ NoIP \notin banned'
        /\ \A i \in IP : Live(bl'[i]) => i \in banned'
        /\ \A e \in Instance : known'[e] \subseteq banned'
    BY <1>0, <2>1, <2>2, <2>4 DEF BackedInv
  <2>6. /\ u.req.ip # NoIP /\ u.req.ip \in banned' /\ s.pc \notin Adding
    BY <2>1, <2>2, <2>3 DEF Adding
  <2>7. BackedInv'
    BY <1>0, <2>1, <2>5, <2>6, BackedMove
  <2>8. KnownStaysInBloom'
    BY <1>0, <2>1, <2>6, BloomQuietMove
  <2> QED BY <1>0, <2>7, <2>8 DEF BanInv
<1>7. ASSUME NEW p \in Proc, BanIP_PExpire(p) PROVE BanInv'
  <2> DEFINE s == proc[p]
             u == [s EXCEPT !.pc = "bancache"]
  <2>1. /\ s.pc = "pexpire" /\ Goto(p, u) /\ UNCHANGED <<known, bloom, banned>>
        /\ bl' = [bl EXCEPT ![s.req.ip] = PExpire(@, s.ttl, clock)]
    BY <1>7 DEF BanIP_PExpire, local, hist
  <2>2. s \in ProcState /\ s.req.ip # NoIP /\ s.req.ip \in banned
    BY <1>0, <2>1 DEF TypeOK, GoroutinesOK, BackedInv, Addressless, BanWritten
  <2>3. u.pc = "bancache" /\ u.req = s.req
    BY <2>2, SameRequest
  <2> HIDE DEF u
  <2>4. \A i \in IP : i # s.req.ip => bl'[i] = bl[i]
    BY <1>0, <2>1 DEF TypeOK, RedisOK
  <2>5. /\ banned \subseteq banned' /\ NoIP \notin banned'
        /\ \A i \in IP : Live(bl'[i]) => i \in banned'
        /\ \A e \in Instance : known'[e] \subseteq banned'
    BY <1>0, <2>1, <2>2, <2>4 DEF BackedInv
  <2>6. /\ u.req.ip # NoIP /\ u.req.ip \in banned' /\ s.pc \notin Adding
    BY <2>1, <2>2, <2>3 DEF Adding
  <2>7. BackedInv'
    BY <1>0, <2>1, <2>5, <2>6, BackedMove
  <2>8. KnownStaysInBloom'
    BY <1>0, <2>1, <2>6, BloomQuietMove
  <2> QED BY <1>0, <2>7, <2>8 DEF BanInv
<1>8. ASSUME NEW p \in Proc, NEW applied \in BOOLEAN, NEW retry \in BOOLEAN,
             BanIP_Fault(p, applied, retry)
      PROVE  BanInv'
  <2> DEFINE s == proc[p]
             u == IF retry THEN [s EXCEPT !.pc = "sadd"] ELSE Idle
  <2>1. /\ s.pc \in {"sadd", "pexpire"} /\ Goto(p, u) /\ UNCHANGED <<known, bloom>>
        /\ \/ UNCHANGED bl
           \/ \E k : bl' = [bl EXCEPT ![s.req.ip] = k] /\ (s.pc = "sadd" => s.req.ip \in banned')
        /\ banned' \in {banned, banned \cup {s.req.ip}}
    BY <1>8 DEF BanIP_Fault, local
  <2>2. s \in ProcState /\ s.req.ip # NoIP /\ (s.pc = "pexpire" => s.req.ip \in banned)
    BY <1>0, <2>1 DEF TypeOK, GoroutinesOK, BackedInv, Addressless, BanWritten
  <2>3. u.pc = "idle" \/ (u.pc = "sadd" /\ u.req = s.req)
    BY <2>2, SameRequest
  <2> HIDE DEF u
  <2>4. \A i \in IP : bl'[i] = bl[i] \/ (i = s.req.ip /\ i \in banned')
    BY <1>0, <2>1, <2>2 DEF TypeOK, RedisOK
  <2>5. /\ banned \subseteq banned' /\ NoIP \notin banned'
        /\ \A i \in IP : Live(bl'[i]) => i \in banned'
        /\ \A e \in Instance : known'[e] \subseteq banned'
    BY <1>0, <2>1, <2>2, <2>4 DEF BackedInv
  <2>6. /\ u.pc \notin Addressless => u.req.ip # NoIP
        /\ u.pc \notin BanWritten /\ s.pc \notin Adding
    BY <2>1, <2>2, <2>3 DEF Addressless, BanWritten, Adding
  <2>7. BackedInv'
    BY <1>0, <2>1, <2>5, <2>6, BackedMove
  <2>8. KnownStaysInBloom'
    BY <1>0, <2>1, <2>6, BloomQuietMove
  <2> QED BY <1>0, <2>7, <2>8 DEF BanInv
<1>9. ASSUME NEW p \in Proc, BanIP_Cache(p) PROVE BanInv'
  <2> DEFINE s == proc[p]
             u == IF Cfg.Bloom THEN [s EXCEPT !.pc = "bloomadd"] ELSE Idle
  <2>1. /\ s.pc = "bancache" /\ Goto(p, u) /\ UNCHANGED <<bl, banned, bloom>>
        /\ CachePut(EngineOf[p], s.req.ip, clock + s.ttl)
    BY <1>9 DEF BanIP_Cache, redis
  <2>2. s \in ProcState /\ s.req.ip \in IP
    BY <1>0, <2>1, Running DEF ProcOK
  <2>3. s.req.ip \in banned /\ s.req.ip # NoIP
    BY <1>0, <2>1 DEF BackedInv, BanWritten
  <2>4. /\ u.pc \in {"idle", "bloomadd"}
        /\ u.pc = "bloomadd" => u.req = s.req
        /\ Cfg.Bloom => u.pc = "bloomadd"
    BY <2>2, SameRequest
  <2> HIDE DEF u
  <2>5. /\ u.pc \notin Addressless => u.req.ip # NoIP
        /\ u.pc \notin BanWritten /\ s.pc \notin Adding
        /\ Cfg.Bloom => u.pc \in Adding /\ u.req.ip = s.req.ip
    BY <2>1, <2>3, <2>4 DEF Addressless, BanWritten, Adding
  <2> QED BY <1>0, <2>1, <2>2, <2>3, <2>5, CachingMove
<1>10. ASSUME NEW p \in Proc, BloomAdd(p) PROVE BanInv'
  <2>1. /\ Goto(p, Idle) /\ UNCHANGED <<bl, banned, known>> /\ proc[p].pc = "bloomadd"
        /\ bloom' = [bloom EXCEPT ![EngineOf[p]] = @ \cup {proc[p].req.ip}]
    BY <1>10 DEF BloomAdd, redis, hist
  <2>2. Idle.pc = "idle" /\ EngineOf[p] \in Instance
    BY ProcAssumption DEF Idle
  <2>3. /\ \A e \in Instance : bloom[e] \subseteq bloom'[e]
        /\ proc[p].req.ip \in bloom'[EngineOf[p]]
    BY <1>0, <2>1, <2>2 DEF TypeOK, LocalOK
  <2>4. Idle.pc \in Addressless /\ Idle.pc \notin BanWritten
    BY <2>2 DEF Addressless, BanWritten
  <2>5. BackedInv'
    BY <1>0, <2>1, <2>4, BackedQuietMove
  <2>6. KnownStaysInBloom'
    BY <1>0, <2>1, <2>3, BloomMove
  <2> QED BY <1>0, <2>5, <2>6 DEF BanInv
<1>11. ASSUME NEW w \in Worker, NEW score \in Scores, Dequeue(w, score) PROVE BanInv'
  <2> DEFINE q == Head(queue[EngineOf[w]])
             s == [pc |-> "rep", req |-> q, now |-> 0, lim |-> 0, ttl |-> 0, n |-> score]
             u == IF score <= 0 \/ q.ip = NoIP THEN Idle
                  ELSE IF Cfg.Reputation THEN s
                  ELSE IF score >= Cfg.ScoreThreshold
                       THEN [s EXCEPT !.pc = "setpen", !.ttl = Cfg.BehPenaltyTTL]
                  ELSE PastReputation(s)
  <2>1. /\ w \in Proc /\ proc[w].pc = "idle" /\ Goto(w, u)
        /\ UNCHANGED <<bl, banned, known, bloom>>
    BY <1>11 DEF Dequeue, Proc, redis, hist
  <2>2. \/ u.pc = "idle"
        \/ u.pc \in {"rep", "setpen", "threat"} /\ u.req = q /\ q.ip # NoIP
    BY DEF PastReputation, Idle
  <2> HIDE DEF u
  <2>3. /\ u.pc \notin Addressless => u.req.ip # NoIP
        /\ u.pc \notin BanWritten /\ proc[w].pc \notin Adding
    BY <2>1, <2>2 DEF Addressless, BanWritten, Adding
  <2> QED BY <1>0, <2>1, <2>3, QuietMove
<1>12. ASSUME NEW w \in Worker, ReputationReply(w) PROVE BanInv'
  <2> DEFINE s == proc[w]
             r == RepResult(s)
             u == CASE r.action = 1 -> [s EXCEPT !.pc = "setpen", !.ttl = Cfg.PenaltyTTL]
                    [] r.action = 2 -> [s EXCEPT !.pc = "repcache", !.ttl = r.ttl]
                    [] OTHER        -> PastReputation(s)
  <2>1. /\ w \in Proc /\ s.pc = "rep" /\ Goto(w, u) /\ UNCHANGED <<known, bloom>>
        /\ RepWrites(s.req.ip, RepResult(s))
    BY <1>12 DEF ReputationReply, Proc, local
  <2>2. s \in ProcState /\ s.req.ip \in IP
    BY <1>0, <2>1, Running DEF ProcOK
  <2>3. s.req.ip # NoIP /\ s.pc \notin Adding
    BY <1>0, <2>1 DEF BackedInv, Addressless, Adding
  <2>4. /\ banned \subseteq banned' /\ NoIP \notin banned'
        /\ \A i \in IP : Live(bl'[i]) => i \in banned'
        /\ r.action = 2 => s.req.ip \in banned'
    BY <1>0, <2>1, <2>2, <2>3, RepWritesBanned
  <2> HIDE DEF r
  <2>5. \/ u.pc = "idle"
        \/ u.pc \in {"setpen", "threat"} /\ u.req = s.req
        \/ u.pc = "repcache" /\ u.req = s.req /\ r.action = 2
    BY <2>2, SameRequest, Branches
  <2> HIDE DEF u
  <2>6. /\ u.pc \notin Addressless => u.req.ip # NoIP
        /\ u.pc \in BanWritten => u.req.ip \in banned'
    BY <2>3, <2>4, <2>5 DEF Addressless, BanWritten
  <2>7. \A e \in Instance : known'[e] \subseteq banned'
    BY <1>0, <2>1, <2>4 DEF BackedInv
  <2>8. BackedInv'
    BY <1>0, <2>1, <2>4, <2>6, <2>7, BackedMove
  <2>9. KnownStaysInBloom'
    BY <1>0, <2>1, <2>3, BloomQuietMove
  <2> QED BY <1>0, <2>8, <2>9 DEF BanInv
<1>13. ASSUME NEW w \in Worker, NEW applied \in BOOLEAN, NEW retry \in BOOLEAN,
              ReputationFault(w, applied, retry)
       PROVE  BanInv'
  <2> DEFINE s == proc[w]
             u == IF retry THEN s ELSE PastReputation(s)
  <2>1. /\ w \in Proc /\ s.pc = "rep" /\ Goto(w, u) /\ UNCHANGED <<known, bloom>>
        /\ RepWrites(s.req.ip, RepResult(s)) \/ UNCHANGED <<bl, banned>>
    BY <1>13 DEF ReputationFault, Proc, local
  <2>2. s \in ProcState /\ s.req.ip \in IP
    BY <1>0, <2>1, Running DEF ProcOK
  <2>3. s.req.ip # NoIP /\ s.pc \notin Adding
    BY <1>0, <2>1 DEF BackedInv, Addressless, Adding
  <2>4. /\ banned \subseteq banned' /\ NoIP \notin banned'
        /\ \A i \in IP : Live(bl'[i]) => i \in banned'
    <3>1. CASE RepWrites(s.req.ip, RepResult(s))
      BY <1>0, <2>2, <2>3, <3>1, RepWritesBanned
    <3>2. CASE UNCHANGED <<bl, banned>>
      BY <1>0, <3>2 DEF BackedInv
    <3> QED BY <2>1, <3>1, <3>2
  <2>5. u.pc = "idle" \/ (u.pc \in {"rep", "threat"} /\ u.req = s.req)
    BY <2>1, <2>2, Branches
  <2> HIDE DEF u
  <2>6. /\ u.pc \notin Addressless => u.req.ip # NoIP
        /\ u.pc \notin BanWritten
    BY <2>3, <2>5 DEF Addressless, BanWritten
  <2>7. \A e \in Instance : known'[e] \subseteq banned'
    BY <1>0, <2>1, <2>4 DEF BackedInv
  <2>8. BackedInv'
    BY <1>0, <2>1, <2>4, <2>6, <2>7, BackedMove
  <2>9. KnownStaysInBloom'
    BY <1>0, <2>1, <2>3, BloomQuietMove
  <2> QED BY <1>0, <2>8, <2>9 DEF BanInv
<1>14. ASSUME NEW w \in Worker,
              \/ SetPenalty(w) \/ PenaltyPut(w) \/ ThreatIncr(w) \/ ThreatExpire(w)
              \/ \E applied, retry \in BOOLEAN : SetPenaltyFault(w, applied, retry)
                                                 \/ ThreatFault(w, applied, retry)
       PROVE  BanInv'
  BY <1>0, <1>14, WorkerQuiet, QuietStep DEF Proc
<1>15. ASSUME NEW w \in Worker, ReputationBanCache(w) PROVE BanInv'
  <2> DEFINE s == proc[w]
             u == IF Cfg.Bloom THEN [s EXCEPT !.pc = "repbloom"] ELSE PastReputation(s)
  <2>1. /\ w \in Proc /\ s.pc = "repcache" /\ Goto(w, u) /\ UNCHANGED <<bl, banned, bloom>>
        /\ CachePut(EngineOf[w], s.req.ip, clock + s.ttl)
    BY <1>15 DEF ReputationBanCache, Proc, redis
  <2>2. s \in ProcState /\ s.req.ip \in IP
    BY <1>0, <2>1, Running DEF ProcOK
  <2>3. s.req.ip \in banned /\ s.req.ip # NoIP
    BY <1>0, <2>1 DEF BackedInv, BanWritten
  <2>4. /\ u.pc \in {"idle", "threat", "repbloom"}
        /\ u.pc # "idle" => u.req = s.req
        /\ Cfg.Bloom => u.pc = "repbloom"
    BY <2>2, SameRequest, Branches
  <2> HIDE DEF u
  <2>5. /\ u.pc \notin Addressless => u.req.ip # NoIP
        /\ u.pc \notin BanWritten /\ s.pc \notin Adding
        /\ Cfg.Bloom => u.pc \in Adding /\ u.req.ip = s.req.ip
    BY <2>1, <2>3, <2>4 DEF Addressless, BanWritten, Adding
  <2> QED BY <1>0, <2>1, <2>2, <2>3, <2>5, CachingMove
<1>16. ASSUME NEW w \in Worker, ReputationBanBloom(w) PROVE BanInv'
  <2> DEFINE s == proc[w]
             u == PastReputation(s)
  <2>1. /\ w \in Proc /\ s.pc = "repbloom" /\ Goto(w, u) /\ UNCHANGED <<bl, banned, known>>
        /\ bloom' = [bloom EXCEPT ![EngineOf[w]] = @ \cup {s.req.ip}]
    BY <1>16 DEF ReputationBanBloom, Proc, redis, hist
  <2>2. s \in ProcState /\ EngineOf[w] \in Instance
    BY <1>0, <2>1, Running DEF ProcOK
  <2>3. s.req.ip # NoIP
    BY <1>0, <2>1 DEF BackedInv, Addressless
  <2>4. u.pc = "idle" \/ (u.pc = "threat" /\ u.req = s.req)
    BY <2>2, Branches
  <2> HIDE DEF u
  <2>5. /\ \A e \in Instance : bloom[e] \subseteq bloom'[e]
        /\ s.req.ip \in bloom'[EngineOf[w]]
    BY <1>0, <2>1, <2>2 DEF TypeOK, LocalOK
  <2>6. /\ u.pc \notin Addressless => u.req.ip # NoIP
        /\ u.pc \notin BanWritten
    BY <2>3, <2>4 DEF Addressless, BanWritten
  <2>7. BackedInv'
    BY <1>0, <2>1, <2>6, BackedQuietMove
  <2>8. KnownStaysInBloom'
    BY <1>0, <2>1, <2>5, BloomMove
  <2> QED BY <1>0, <2>7, <2>8 DEF BanInv
<1>17. CASE Tick
  <2>1. bl' = ExpireAll(bl, clock + 1) /\ UNCHANGED <<proc, banned, known, bloom>>
    BY <1>17 DEF Tick, local
  <2>2. \A i \in IP : Live(bl'[i]) => Live(bl[i])
    BY <1>0, <2>1 DEF TypeOK, RedisOK, RedisKey, ExpireAll, Expire, Live, Absent
  <2>3. BackedInv'
    BY <1>0, <2>1, <2>2 DEF BackedInv
  <2>4. KnownStaysInBloom'
    BY <1>0, <2>1 DEF KnownStaysInBloom, AddingToBloom
  <2> QED BY <1>0, <2>3, <2>4 DEF BanInv
<1>18. ASSUME NEW e \in Instance, Restart(e) PROVE BanInv'
  <2>1. /\ known' = [known EXCEPT ![e] = {}] /\ bloom' = [bloom EXCEPT ![e] = {}]
        /\ proc' = [p \in Proc |-> IF EngineOf[p] = e THEN Idle ELSE proc[p]]
        /\ UNCHANGED <<bl, banned>>
    BY <1>18 DEF Restart, redis
  <2>2. /\ \A f \in Instance : known'[f] = IF f = e THEN {} ELSE known[f]
        /\ \A f \in Instance : f # e => bloom'[f] = bloom[f]
        /\ \A p \in Proc : EngineOf[p] # e => proc'[p] = proc[p]
    BY <1>0, <2>1 DEF TypeOK, HistoryOK, LocalOK
  <2>3. \A p \in Proc : /\ proc'[p].pc \notin Addressless => proc'[p].req.ip # NoIP
                        /\ proc'[p].pc \in BanWritten => proc'[p].req.ip \in banned'
    BY <1>0, <2>1 DEF BackedInv, Idle, Addressless, BanWritten
  <2>4. BackedInv'
    BY <1>0, <2>1, <2>2, <2>3 DEF BackedInv
  <2>5. ASSUME Cfg.Bloom, NEW f \in Instance, NEW i \in known'[f]
        PROVE  i \in bloom'[f] \cup AddingToBloom(f)'
    <3>1. f # e /\ i \in known[f]
      BY <2>2, <2>5
    <3>2. i \in bloom[f] \/ \E p \in Proc : EngineOf[p] = f /\ proc[p].pc \in Adding /\ proc[p].req.ip = i
      BY <1>0, <2>5, <3>1 DEF KnownStaysInBloom, AddingToBloom, Adding
    <3>3. i \in bloom'[f] \/ \E p \in Proc : EngineOf[p] = f /\ proc'[p].pc \in Adding /\ proc'[p].req.ip = i
      BY <2>2, <3>1, <3>2
    <3> QED BY <3>3 DEF AddingToBloom, Adding
  <2>6. KnownStaysInBloom'
    BY <2>5 DEF KnownStaysInBloom
  <2> QED BY <1>0, <2>4, <2>6 DEF BanInv
<1>19. CASE UNCHANGED vars
  <2>1. UNCHANGED <<bl, proc, banned, known, bloom>>
    BY <1>19 DEF vars, redis, local, hist
  <2>2. BackedInv' /\ KnownStaysInBloom'
    BY <1>0, <2>1 DEF BackedInv, KnownStaysInBloom, AddingToBloom
  <2> QED BY <1>0, <2>2 DEF BanInv
<1>20. ASSUME NEW p \in Proc, BanStep(p) PROVE BanInv'
  BY <1>6, <1>7, <1>8, <1>9, <1>10, <1>20 DEF BanStep
<1>21. ASSUME NEW t \in Thread, ThreadStep(t) PROVE BanInv'
  BY <1>2, <1>3, <1>4, <1>5, <1>20, <1>21 DEF ThreadStep, Proc
<1>22. ASSUME NEW w \in Worker, WorkerStep(w) PROVE BanInv'
  BY <1>11, <1>12, <1>13, <1>14, <1>15, <1>16, <1>20, <1>22 DEF WorkerStep, Proc
<1> QED
  BY <1>1, <1>17, <1>18, <1>19, <1>21, <1>22 DEF Next

\* At the start nothing is banned, cached or about to be.
LEMMA BanInit == Init => BanInv
<1> SUFFICES ASSUME Init PROVE BanInv
  OBVIOUS
<1>1. TypeOK
  BY TypeInit
<1>2. BackedInv
  BY DEF Init, BackedInv, Live, Absent, Idle, Addressless, BanWritten
<1>3. KnownStaysInBloom
  BY DEF Init, KnownStaysInBloom
<1> QED BY <1>1, <1>2, <1>3 DEF BanInv

\* BanInv is an invariant: every live ban in Redis, every address a goroutine is
\* about to cache and every address cached was blacklisted in Redis (banIP and
\* reputationLua), and is in the bloom filter or about to be.
THEOREM BanInvariant == Spec => []BanInv
<1>1. Init => BanInv
  BY BanInit
<1>2. BanInv /\ [Next]_vars => BanInv'
  BY BanStepInv
<1> QED BY <1>1, <1>2, PTL DEF Spec

\* For every number of instances and goroutines, an address reaches a blacklist
\* cache only after its ban was written to Redis, whatever calls fail.
THEOREM BansBacked == Spec => []LocalBanBacked
<1>1. BanInv => LocalBanBacked
  BY DEF BanInv, BackedInv, LocalBanBacked
<1> QED BY <1>1, BanInvariant, PTL

\* For every number of instances and goroutines, an address once cached as banned
\* stays in its instance's bloom filter: eviction from the LRU cannot let the
\* bloom fast path allow it.
THEOREM KnownInBloom == Spec => []KnownStaysInBloom
<1>1. BanInv => KnownStaysInBloom
  BY DEF BanInv
<1> QED BY <1>1, BanInvariant, PTL

\* A decision that appears in a step is the one of the goroutine that made it.
LEMMA OwnDecision ==
  ASSUME TypeOK, NEW t \in Thread, NEW u \in Thread, NEW d, Decide(u, d), dec'[t] # dec[t]
  PROVE  t = u /\ dec'[t] = d
BY DEF Decide, TypeOK, GoroutinesOK

\* A request of an address that is banned in Redis and known to its instance is
\* neither allowed nor counted, for every number of instances and goroutines: by the
\* filter, which still has it (KnownStaysInBloom), or by the script, which asks Redis -
\* unless that call of the script fails, under FailOpen, in the very step that allows
\* the request.
THEOREM BansBind == Spec => BanBinds
<1> DEFINE Free(t) == dec'[t] # dec[t] /\ dec'[t].reason \in {"allowed", "rate_limited", "fail_open"}
           Unknown(t) == Cfg.Bloom /\ proc[t].req.ip \notin known[EngineOf[t]] \ AddingToBloom(EngineOf[t])
           Failed(t) == dec'[t].reason = "fail_open" /\ Cfg.FailOpen /\ faults' = faults + 1
           A == \A t \in Thread : Free(t) => \/ ~Live(bl[proc[t].req.ip])
                                             \/ Unknown(t)
                                             \/ Failed(t)
<1>1. ASSUME BanInv, Next, NEW t \in Thread, Free(t)
      PROVE  ~Live(bl[proc[t].req.ip]) \/ Unknown(t) \/ Failed(t)
  <2>0. TypeOK /\ KnownStaysInBloom
    BY <1>1 DEF BanInv
  <2>1. ASSUME NEW u \in Thread, NEW q \in Request, NEW limit \in Cfg.EffLimits, Arrive(u, q, limit)
        PROVE  FALSE
    <3>1. Decide(u, NoDecision)
      BY <2>1 DEF Arrive, Decide
    <3> QED BY <1>1, <2>0, <3>1, OwnDecision DEF NoDecision
  <2>2. ASSUME NEW u \in Thread, NEW s, InPenalty(u, s) PROVE FALSE
    <3>1. Decide(u, newDecisionWithTTL("penalty_forbidden", FALSE, 0, 1, s.now, PenaltyBan))
      BY <1>1, <2>2 DEF InPenalty
    <3> QED BY <1>1, <2>0, <3>1, OwnDecision DEF newDecisionWithTTL
  <2>3. ASSUME NEW u \in Thread, CacheCheck(u) PROVE FALSE
    <3>1. Decide(u, newDecision("blacklisted", proc[u].lim, proc[u].now))
      BY <1>1, <2>3 DEF CacheCheck
    <3> QED BY <1>1, <2>0, <3>1, OwnDecision DEF newDecision, newDecisionWithTTL
  <2>4. ASSUME NEW u \in Thread, PboxCheck(u) \/ PenaltyCached(u) PROVE FALSE
    BY <1>1, <2>2, <2>4 DEF PboxCheck, PenaltyCached
  <2>5. ASSUME NEW u \in Thread, NEW maybe \in BOOLEAN, BloomTest(u, maybe) PROVE Unknown(t)
    <3>1. /\ Decide(u, newDecision("allowed", proc[u].lim, proc[u].now))
          /\ Cfg.Bloom /\ ~maybe /\ proc[u].req.ip \notin bloom[EngineOf[u]]
      BY <1>1, <2>5 DEF BloomTest
    <3>2. t = u /\ EngineOf[t] \in Instance
      BY <1>1, <2>0, <3>1, OwnDecision, ProcAssumption DEF Proc
    <3> QED BY <2>0, <3>1, <3>2 DEF KnownStaysInBloom
  <2>6. ASSUME NEW u \in Thread, CriticalPathReply(u) PROVE ~Live(bl[proc[t].req.ip])
    <3> DEFINE s == proc[u]
               r == ScriptResult(s)
    <3>1. /\ Decide(u, newDecisionWithTTL(CodeReason(r.code), TRUE, r.cur, s.lim, s.now, r.ttl))
      BY <2>6 DEF CriticalPathReply
    <3>2. t = u /\ dec'[t].reason = CodeReason(r.code)
      BY <1>1, <2>0, <3>1, OwnDecision DEF newDecisionWithTTL
    <3>3. Live(bl[s.req.ip]) => r.code = 2
      BY DEF ScriptResult, CriticalPathScript
    <3>4. r.code = 2 => CodeReason(r.code) = "blacklisted"
      BY DEF CodeReason
    <3> QED BY <1>1, <3>2, <3>3, <3>4
  <2>7. ASSUME NEW u \in Thread, NEW applied \in BOOLEAN, NEW retry \in BOOLEAN,
               CriticalPathFault(u, applied, retry)
        PROVE  Failed(t)
    <3>1. Decide(u, newDecision(IF Cfg.FailOpen THEN "fail_open" ELSE "redis_error",
                                proc[u].lim, proc[u].now))
      BY <1>1, <2>7 DEF CriticalPathFault
    <3>2. dec'[t].reason = IF Cfg.FailOpen THEN "fail_open" ELSE "redis_error"
      BY <1>1, <2>0, <3>1, OwnDecision DEF newDecision, newDecisionWithTTL
    <3>3. faults' = faults + 1
      BY <2>7 DEF CriticalPathFault
    <3> QED BY <1>1, <3>2, <3>3
  <2>8. ASSUME NEW u \in Thread,
               PenaltyTTLReply(u) \/ PenaltyTTLError(u) \/ CacheRedisBan(u) \/ Enqueue(u)
        PROVE  FALSE
    BY <1>1, <2>8 DEF PenaltyTTLReply, PenaltyTTLError, CacheRedisBan, Enqueue
  <2>9. ASSUME NEW p \in Proc, BanStep(p) PROVE FALSE
    BY <1>1, <2>9 DEF BanStep, BanIP_SAdd, BanIP_PExpire, BanIP_Fault, BanIP_Cache, BloomAdd
  <2>10. ASSUME NEW w \in Worker, WorkerStep(w) PROVE FALSE
    <3>1. CASE BanStep(w)
      BY <2>9, <3>1 DEF Proc
    <3>2. CASE ~BanStep(w)
      BY <1>1, <2>10, <3>2
      DEF WorkerStep, Dequeue, ReputationReply, ReputationFault, SetPenalty, SetPenaltyFault,
          PenaltyPut, ReputationBanCache, ReputationBanBloom, ThreatIncr, ThreatExpire, ThreatFault
    <3> QED BY <3>1, <3>2
  <2>11. ~Tick /\ \A e \in Instance : ~Restart(e)
    BY <1>1 DEF Tick, Restart
  <2>12. ASSUME NEW u \in Thread, ThreadStep(u)
         PROVE  ~Live(bl[proc[t].req.ip]) \/ Unknown(t) \/ Failed(t)
    BY <2>3, <2>4, <2>5, <2>6, <2>7, <2>8, <2>9, <2>12 DEF ThreadStep, Proc
  <2> QED BY <1>1, <2>1, <2>10, <2>11, <2>12 DEF Next
<1>2. BanInv /\ [Next]_vars => [A]_vars
  BY <1>1
<1> QED BY <1>2, BanInvariant, PTL DEF Spec, BanBinds
=============================================================================
