------------------------------ MODULE KeyProofs ------------------------------
(***************************************************************************)
(* The lifetime of what Redis holds: penalties, attempts, scores, bans and *)
(* threat counts expire, a threat count that reached its threshold was     *)
(* answered, a penalty binds and bans escalate.                            *)
(***************************************************************************)
EXTENDS EngineProofs

-----------------------------------------------------------------------------
(* Goroutines carry sound data between their steps *)

\* What a goroutine carries was read before now, a duration it is about to send to
\* Redis is a configured one, only reputation runs its script, and a request is judged by a
\* limit of at least 1.
Sound(s) ==
  /\ s.now <= clock
  /\ s.pc \in {"sadd", "pexpire"} => s.ttl \in BanTTLs
  /\ s.pc = "setpen" => s.ttl = PenaltyDuration
  /\ s.pc = "rep" => Cfg.Reputation
  /\ s.pc \in ThreadPC => s.lim >= 1

SoundInv == \A p \in Proc : Sound(proc[p])

\* The branches of Process and processSnapshot keep a goroutine sound.
LEMMA SoundStates ==
  ASSUME TypeOK, NEW s \in ProcState, Sound(s)
  PROVE  /\ Sound(Idle) /\ Sound(PastReputation(s))
         /\ s.pc \in ThreadPC => Sound(Enqueueing(s)) /\ Sound(PastPenalty(s))
         /\ s.pc \in ThreadPC => \A x \in ThreadPC : Sound([s EXCEPT !.pc = x])
         /\ s.pc \in ThreadPC => \A x \in ThreadPC : \A d : Sound([s EXCEPT !.pc = x, !.ttl = d])
         /\ \A x \in {"bancache", "bloomadd"} \cup (WorkerPC \ {"setpen", "rep"}) :
              \A d : /\ Sound([s EXCEPT !.pc = x])
                     /\ Sound([s EXCEPT !.pc = x, !.ttl = d])
                     /\ Sound([s EXCEPT !.pc = x, !.n = d])
         /\ \A d \in BanTTLs : Sound([s EXCEPT !.pc = "sadd", !.ttl = d])
         /\ s.pc \in {"sadd", "pexpire"} => /\ Sound([s EXCEPT !.pc = "sadd"])
                                            /\ Sound([s EXCEPT !.pc = "pexpire"])
         /\ Sound([s EXCEPT !.pc = "setpen", !.ttl = PenaltyDuration])
<1> USE DEF Sound, ProcState
<1>0. clock \in Nat /\ 0 <= clock /\ s.lim \in Nat
  BY CfgTypes DEF TypeOK, RedisOK
<1>1. Sound(Idle)
  BY <1>0 DEF Idle, ThreadPC
<1>2. s.pc \in ThreadPC => \A x \in ThreadPC : Sound([s EXCEPT !.pc = x])
  BY DEF ThreadPC
<1>3. s.pc \in ThreadPC => \A x \in ThreadPC : \A d : Sound([s EXCEPT !.pc = x, !.ttl = d])
  BY DEF ThreadPC
<1>4. ASSUME NEW x \in {"bancache", "bloomadd"} \cup (WorkerPC \ {"setpen", "rep"}), NEW d
      PROVE  /\ Sound([s EXCEPT !.pc = x])
             /\ Sound([s EXCEPT !.pc = x, !.ttl = d])
             /\ Sound([s EXCEPT !.pc = x, !.n = d])
  BY DEF ThreadPC, WorkerPC
<1>5. \A d \in BanTTLs : Sound([s EXCEPT !.pc = "sadd", !.ttl = d])
  BY DEF ThreadPC
<1>6. s.pc \in {"sadd", "pexpire"} => /\ Sound([s EXCEPT !.pc = "sadd"])
                                      /\ Sound([s EXCEPT !.pc = "pexpire"])
  BY DEF ThreadPC
<1>7. Sound([s EXCEPT !.pc = "setpen", !.ttl = PenaltyDuration])
  BY DEF ThreadPC
<1>8. Sound(PastReputation(s))
  BY <1>1, <1>4 DEF PastReputation, WorkerPC
<1>9. s.pc \in ThreadPC => Sound(Enqueueing(s)) /\ Sound(PastPenalty(s))
  BY <1>1, <1>2 DEF Enqueueing, PastPenalty, ThreadPC
<1> QED BY <1>1, <1>2, <1>3, <1>4, <1>5, <1>6, <1>7, <1>8, <1>9

\* One goroutine moves to a sound state while the clock stands.
LEMMA SoundMove ==
  ASSUME TypeOK, SoundInv, NEW p \in Proc, NEW u, Goto(p, u), Sound(u), UNCHANGED clock
  PROVE  SoundInv'
<1>1. \A q \in Proc : proc'[q] = IF q = p THEN u ELSE proc[q]
  BY DEF Goto, TypeOK, GoroutinesOK
<1> QED BY <1>1 DEF SoundInv, Sound

\* Both answers to a penalty lead to a sound state.
LEMMA InPenaltySound ==
  ASSUME TypeOK, SoundInv, NEW t \in Thread, proc[t].pc \in ThreadPC, InPenalty(t, proc[t])
  PROVE  \E u : Goto(t, u) /\ Sound(u)
<1> DEFINE s == proc[t]
           v == [s EXCEPT !.lim = IF @ > 1 THEN 1 ELSE @]
<1>1. s \in ProcState /\ Sound(s)
  BY DEF TypeOK, GoroutinesOK, Proc, SoundInv
<1>2. v \in ProcState /\ Sound(v) /\ v.pc \in ThreadPC
  BY <1>1, CfgTypes DEF ProcState, Sound, ThreadPC
<1>3. Sound(PastPenalty(v))
  <2> HIDE DEF v
  <2> QED BY <1>2, SoundStates
<1>4. Sound([s EXCEPT !.pc = "sadd", !.ttl = PenaltyBan])
  <2>1. PenaltyBan \in BanTTLs
    BY DEF PenaltyBan, BanTTLs
  <2> QED BY <1>1, <2>1, SoundStates
<1> QED BY <1>3, <1>4 DEF InPenalty

\* Process moves between sound states.
LEMMA ProcessSound ==
  ASSUME TypeOK, SoundInv, NEW t \in Thread,
         \/ CacheCheck(t) \/ PboxCheck(t) \/ PenaltyTTLReply(t) \/ PenaltyTTLError(t)
         \/ PenaltyCached(t) \/ Enqueue(t) \/ CriticalPathReply(t) \/ CacheRedisBan(t)
         \/ \E maybe \in BOOLEAN : BloomTest(t, maybe)
         \/ \E applied, retry \in BOOLEAN : CriticalPathFault(t, applied, retry)
  PROVE  \E u : Goto(t, u) /\ Sound(u)
<1> DEFINE s == proc[t]
<1>0. s \in ProcState /\ Sound(s)
  BY DEF TypeOK, GoroutinesOK, Proc, SoundInv
<1>1. s.pc \in ThreadPC
  BY DEF ThreadPC, CacheCheck, PboxCheck, PenaltyTTLReply, PenaltyTTLError, PenaltyCached,
         Enqueue, CriticalPathReply, CacheRedisBan, BloomTest, CriticalPathFault
<1>2. /\ Sound(Idle) /\ Sound(Enqueueing(s)) /\ Sound(PastPenalty(s))
      /\ \A x \in {"pbox", "pttl", "lua", "blcache"} : Sound([s EXCEPT !.pc = x])
      /\ \A d : Sound([s EXCEPT !.pc = "pboxput", !.ttl = d])
      /\ Sound([s EXCEPT !.pc = "bloomadd"])
  BY <1>0, <1>1, SoundStates DEF ThreadPC
<1>3. CASE CacheCheck(t)
  BY <1>2, <1>3 DEF CacheCheck
<1>4. CASE PboxCheck(t)
  BY <1>1, <1>2, <1>4, InPenaltySound DEF PboxCheck
<1>5. CASE PenaltyTTLReply(t) \/ PenaltyTTLError(t)
  BY <1>2, <1>5 DEF PenaltyTTLReply, PenaltyTTLError
<1>6. CASE PenaltyCached(t)
  BY <1>1, <1>6, InPenaltySound DEF PenaltyCached
<1>7. CASE Enqueue(t) \/ CacheRedisBan(t)
  BY <1>2, <1>7 DEF Enqueue, CacheRedisBan
<1>8. CASE CriticalPathReply(t)
  BY <1>2, <1>8 DEF CriticalPathReply
<1>9. ASSUME NEW maybe \in BOOLEAN, BloomTest(t, maybe) PROVE \E u : Goto(t, u) /\ Sound(u)
  BY <1>2, <1>9 DEF BloomTest
<1>10. ASSUME NEW applied \in BOOLEAN, NEW retry \in BOOLEAN, CriticalPathFault(t, applied, retry)
       PROVE  \E u : Goto(t, u) /\ Sound(u)
  <2>1. CASE retry
    <3>1. Goto(t, s)
      BY <1>10, <2>1 DEF CriticalPathFault, Goto, TypeOK, GoroutinesOK
    <3> QED BY <1>0, <3>1
  <2>2. CASE ~retry
    BY <1>2, <1>10, <2>2 DEF CriticalPathFault
  <2> QED BY <2>1, <2>2
<1> QED BY <1>3, <1>4, <1>5, <1>6, <1>7, <1>8, <1>9, <1>10

\* So do banIP ...
LEMMA BanStepSound ==
  ASSUME TypeOK, SoundInv, NEW p \in Proc, BanStep(p)
  PROVE  \E u : Goto(p, u) /\ Sound(u)
<1> DEFINE s == proc[p]
<1>0. s \in ProcState /\ Sound(s)
  BY DEF TypeOK, GoroutinesOK, SoundInv
<1>1. /\ Sound(Idle)
      /\ Sound([s EXCEPT !.pc = "bancache"]) /\ Sound([s EXCEPT !.pc = "bloomadd"])
      /\ s.pc \in {"sadd", "pexpire"} => /\ Sound([s EXCEPT !.pc = "sadd"])
                                         /\ Sound([s EXCEPT !.pc = "pexpire"])
  BY <1>0, SoundStates
<1>2. CASE BanIP_SAdd(p) \/ BanIP_PExpire(p)
  BY <1>1, <1>2 DEF BanIP_SAdd, BanIP_PExpire
<1>3. CASE BanIP_Cache(p) \/ BloomAdd(p)
  BY <1>1, <1>3 DEF BanIP_Cache, BloomAdd
<1>4. ASSUME NEW applied \in BOOLEAN, NEW retry \in BOOLEAN, BanIP_Fault(p, applied, retry)
      PROVE  \E u : Goto(p, u) /\ Sound(u)
  BY <1>1, <1>4 DEF BanIP_Fault
<1> QED BY <1>2, <1>3, <1>4 DEF BanStep

\* ... and processSnapshot.
LEMMA WorkerSound ==
  ASSUME TypeOK, SoundInv, NEW w \in Worker, WorkerStep(w)
  PROVE  \E u : Goto(w, u) /\ Sound(u)
<1> DEFINE s == proc[w]
<1>0. w \in Proc /\ s \in ProcState /\ Sound(s)
  BY DEF TypeOK, GoroutinesOK, Proc, SoundInv
<1>1. /\ Sound(Idle) /\ Sound(PastReputation(s))
      /\ \A x \in {"penput", "repbloom", "threat"} : Sound([s EXCEPT !.pc = x])
      /\ \A d : Sound([s EXCEPT !.pc = "repcache", !.ttl = d])
      /\ \A d : Sound([s EXCEPT !.pc = "threxp", !.n = d])
      /\ Sound([s EXCEPT !.pc = "setpen", !.ttl = PenaltyDuration])
      /\ Sound([s EXCEPT !.pc = "sadd", !.ttl = Cfg.AdaptiveBanTTL])
  <2>1. Cfg.AdaptiveBanTTL \in BanTTLs
    BY DEF BanTTLs
  <2> QED BY <1>0, <2>1, SoundStates DEF WorkerPC
<1>2. ASSUME NEW score \in Scores, Dequeue(w, score) PROVE \E u : Goto(w, u) /\ Sound(u)
  <2> DEFINE q == Head(queue[EngineOf[w]])
             d == [pc |-> "rep", req |-> q, now |-> 0, lim |-> 0, ttl |-> 0, n |-> score]
  <2>1. EngineOf[w] \in Instance /\ score \in Nat
    BY <1>0, ProcAssumption, ScoresAssumption
  <2>2. q \in Request
    BY <1>2, <2>1 DEF Dequeue, TypeOK, LocalOK
  <2> HIDE DEF q
  <2>3. CASE Cfg.Reputation
    <3>1. Sound(d)
      BY <2>1, <2>3 DEF WorkerPC, ThreadPC, Sound, TypeOK, RedisOK
    <3> HIDE DEF d
    <3>2. Goto(w, Idle) \/ Goto(w, d)
      BY <1>2, <2>3 DEF Dequeue, d, q
    <3> QED BY <1>1, <3>1, <3>2
  <2>4. CASE ~Cfg.Reputation
    <3> DEFINE c == [d EXCEPT !.pc = "threat"]
               b == [d EXCEPT !.pc = "setpen", !.ttl = Cfg.BehPenaltyTTL]
    <3>1. Sound(c) /\ Sound(b)
      BY <2>1, <2>4 DEF ThreadPC, Sound, TypeOK, RedisOK, PenaltyDuration
    <3>2. PastReputation(d) \in {c, Idle}
      BY DEF PastReputation
    <3> HIDE DEF c, b
    <3>3. Goto(w, Idle) \/ Goto(w, b) \/ Goto(w, PastReputation(d))
      BY <1>2, <2>4 DEF Dequeue, q, b
    <3> QED BY <1>1, <3>1, <3>2, <3>3
  <2> QED BY <2>3, <2>4
<1>3. CASE ReputationReply(w)
  <2>1. Sound([s EXCEPT !.pc = "setpen", !.ttl = Cfg.PenaltyTTL])
    BY <1>0, <1>1, <1>3 DEF PenaltyDuration, ReputationReply, Sound
  <2> QED BY <1>1, <1>3, <2>1 DEF ReputationReply
<1>4. CASE SetPenalty(w) \/ PenaltyPut(w)
  BY <1>1, <1>4 DEF SetPenalty, PenaltyPut
<1>5. CASE ReputationBanCache(w) \/ ReputationBanBloom(w)
  BY <1>1, <1>5 DEF ReputationBanCache, ReputationBanBloom
<1>6. CASE ThreatIncr(w)
  BY <1>1, <1>6 DEF ThreatIncr
<1>7. CASE ThreatExpire(w)
  BY <1>1, <1>7 DEF ThreatExpire
<1>8. ASSUME NEW applied \in BOOLEAN, NEW retry \in BOOLEAN,
             \/ ReputationFault(w, applied, retry) \/ SetPenaltyFault(w, applied, retry)
             \/ ThreatFault(w, applied, retry)
      PROVE  \E u : Goto(w, u) /\ Sound(u)
  BY <1>0, <1>1, <1>8 DEF ReputationFault, SetPenaltyFault, ThreatFault
<1>9. CASE BanStep(w)
  BY <1>0, <1>9, BanStepSound
<1> QED BY <1>2, <1>3, <1>4, <1>5, <1>6, <1>7, <1>8, <1>9 DEF WorkerStep

\* Only Tick moves the clock.
LEMMA ClockStands == [Next]_vars /\ ~Tick => UNCHANGED clock
BY LimiterSteps DEF CriticalPathReply, CriticalPathFault

\* Every step keeps the goroutines sound.
LEMMA SoundStep == TypeOK /\ SoundInv /\ [Next]_vars => SoundInv'
<1> SUFFICES ASSUME TypeOK, SoundInv, [Next]_vars PROVE SoundInv'
  OBVIOUS
<1>0. Sound(Idle) /\ clock \in Nat /\ \A p \in Proc : proc[p] \in ProcState
  <2>1. clock \in Nat /\ \A p \in Proc : proc[p] \in ProcState
    BY DEF TypeOK, RedisOK, GoroutinesOK
  <2> QED BY <2>1 DEF Sound, Idle, ThreadPC
<1>1. CASE Tick
  <2>1. clock' = clock + 1 /\ proc' = proc
    BY <1>1 DEF Tick
  <2> QED BY <1>0, <2>1 DEF SoundInv, Sound, ProcState
<1>2. ASSUME NEW e \in Instance, Restart(e) PROVE SoundInv'
  <2>1. clock' = clock /\ \A p \in Proc : proc'[p] = proc[p] \/ proc'[p] = Idle
    BY <1>2 DEF Restart
  <2> QED BY <1>0, <2>1 DEF SoundInv, Sound
<1>3. CASE UNCHANGED vars
  BY <1>3 DEF SoundInv, Sound, vars
<1>4. ASSUME NEW p \in Proc, NEW u, Goto(p, u), Sound(u), ~Tick PROVE SoundInv'
  BY <1>4, ClockStands, SoundMove
<1>5. ASSUME NEW t \in Thread, NEW q \in Request, NEW limit \in Cfg.EffLimits, Arrive(t, q, limit), ~Tick
      PROVE  SoundInv'
  <2> DEFINE u == [pc |-> IF q.ip = NoIP THEN "lua" ELSE "cache", req |-> q,
                   now |-> clock, lim |-> limit, ttl |-> 0, n |-> 0]
  <2>1. Goto(t, u) /\ t \in Proc
    BY <1>5 DEF Arrive, Proc
  <2>2. Sound(u)
    BY <1>0, CfgTypes DEF Sound
  <2> HIDE DEF u
  <2> QED BY <1>4, <1>5, <2>1, <2>2
<1>6. ASSUME NEW t \in Thread, ThreadStep(t), ~Tick PROVE SoundInv'
  <2>1. \E u : Goto(t, u) /\ Sound(u)
    BY <1>6, ProcessSound, BanStepSound DEF ThreadStep, Proc
  <2> QED BY <1>4, <1>6, <2>1 DEF Proc
<1>7. ASSUME NEW w \in Worker, WorkerStep(w), ~Tick PROVE SoundInv'
  BY <1>4, <1>7, WorkerSound DEF Proc
<1> QED BY <1>1, <1>2, <1>3, <1>5, <1>6, <1>7 DEF Next

-----------------------------------------------------------------------------
(* Which steps touch which keys *)

\* Where a goroutine stands before a command that a pipeline's promise rests on.
Writing == {"sadd", "pexpire", "threxp"}

\* A step that leaves these keys alone and moves no goroutine that is Writing.
KeyQuiet ==
  /\ UNCHANGED <<clock, bl, pen, att, thr, rep, banned, answered, restarts>>
  /\ faults' \in {faults, faults + 1}
  /\ \A q \in Proc : proc[q].pc \in Writing => proc'[q] = proc[q]

\* A goroutine that is not Writing moves; the others stay.
LEMMA OthersHeld ==
  ASSUME TypeOK, NEW p \in Proc, NEW u, Goto(p, u), proc[p].pc \notin Writing
  PROVE  \A q \in Proc : proc[q].pc \in Writing => proc'[q] = proc[q]
BY DEF Goto, TypeOK, GoroutinesOK

\* Process before banIP is quiet ...
LEMMA ProcessKeyQuiet ==
  ASSUME TypeOK, SoundInv, NEW t \in Thread,
         \/ CacheCheck(t) \/ PboxCheck(t) \/ PenaltyTTLReply(t) \/ PenaltyTTLError(t)
         \/ PenaltyCached(t) \/ Enqueue(t) \/ CriticalPathReply(t) \/ CacheRedisBan(t)
         \/ \E maybe \in BOOLEAN : BloomTest(t, maybe)
         \/ \E applied, retry \in BOOLEAN : CriticalPathFault(t, applied, retry)
  PROVE  KeyQuiet
<1> USE DEF redis, bounds, hist
<1>1. proc[t].pc \notin Writing
  BY DEF Writing, CacheCheck, PboxCheck, PenaltyTTLReply, PenaltyTTLError, PenaltyCached,
         Enqueue, CriticalPathReply, CacheRedisBan, BloomTest, CriticalPathFault
<1>2. \A q \in Proc : proc[q].pc \in Writing => proc'[q] = proc[q]
  <2>1. PICK u : Goto(t, u)
    BY ProcessSound
  <2> QED BY <1>1, <2>1, OthersHeld DEF Proc
<1>3. CASE CacheCheck(t) \/ PboxCheck(t) \/ PenaltyTTLReply(t) \/ PenaltyTTLError(t)
  BY <1>2, <1>3 DEF KeyQuiet, CacheCheck, PboxCheck, PenaltyTTLReply, PenaltyTTLError
<1>4. CASE PenaltyCached(t) \/ Enqueue(t) \/ CriticalPathReply(t) \/ CacheRedisBan(t)
  BY <1>2, <1>4 DEF KeyQuiet, PenaltyCached, Enqueue, CriticalPathReply, CacheRedisBan
<1>5. ASSUME NEW maybe \in BOOLEAN, BloomTest(t, maybe) PROVE KeyQuiet
  BY <1>2, <1>5 DEF KeyQuiet, BloomTest
<1>6. ASSUME NEW applied \in BOOLEAN, NEW retry \in BOOLEAN, CriticalPathFault(t, applied, retry)
      PROVE  KeyQuiet
  BY <1>2, <1>6 DEF KeyQuiet, CriticalPathFault
<1> QED BY <1>3, <1>4, <1>5, <1>6

\* ... and so is processSnapshot where it sends no command.
LEMMA WorkerKeyQuiet ==
  ASSUME TypeOK, SoundInv, NEW w \in Worker,
         \/ \E score \in Scores : Dequeue(w, score)
         \/ PenaltyPut(w) \/ ReputationBanCache(w) \/ ReputationBanBloom(w)
  PROVE  KeyQuiet
<1> USE DEF redis, bounds, hist
<1>1. proc[w].pc \notin Writing
  BY DEF Writing, Dequeue, PenaltyPut, ReputationBanCache, ReputationBanBloom
<1>2. \A q \in Proc : proc[q].pc \in Writing => proc'[q] = proc[q]
  <2>1. PICK u : Goto(w, u)
    BY WorkerSound DEF WorkerStep
  <2> QED BY <1>1, <2>1, OthersHeld DEF Proc
<1>3. CASE \E score \in Scores : Dequeue(w, score)
  BY <1>2, <1>3 DEF KeyQuiet, Dequeue
<1>4. CASE PenaltyPut(w) \/ ReputationBanCache(w) \/ ReputationBanBloom(w)
  BY <1>2, <1>4 DEF KeyQuiet, PenaltyPut, ReputationBanCache, ReputationBanBloom
<1> QED BY <1>3, <1>4

\* The steps that are not quiet.
LEMMA KeySteps ==
  ASSUME TypeOK, SoundInv, [Next]_vars
  PROVE  \/ KeyQuiet
         \/ \E p \in Proc : BanIP_SAdd(p) \/ BanIP_PExpire(p)
         \/ \E p \in Proc, applied, retry \in BOOLEAN : BanIP_Fault(p, applied, retry)
         \/ \E w \in Worker : \/ ReputationReply(w) \/ SetPenalty(w) \/ ThreatIncr(w) \/ ThreatExpire(w)
                              \/ \E applied, retry \in BOOLEAN : \/ ReputationFault(w, applied, retry)
                                                                 \/ SetPenaltyFault(w, applied, retry)
                                                                 \/ ThreatFault(w, applied, retry)
         \/ Tick
         \/ \E e \in Instance : Restart(e)
<1>1. ASSUME NEW t \in Thread, NEW q \in Request, NEW limit \in Cfg.EffLimits, Arrive(t, q, limit)
      PROVE  KeyQuiet
  <2>1. proc[t].pc \notin Writing /\ \E u : Goto(t, u)
    BY <1>1 DEF Arrive, Writing
  <2>2. \A p \in Proc : proc[p].pc \in Writing => proc'[p] = proc[p]
    BY <2>1, OthersHeld DEF Proc
  <2> QED BY <1>1, <2>2 DEF KeyQuiet, Arrive, redis, hist
<1>2. ASSUME NEW p \in Proc, BanIP_Cache(p) \/ BloomAdd(p) PROVE KeyQuiet
  <2>1. proc[p].pc \notin Writing /\ \E u : Goto(p, u)
    BY <1>2 DEF BanIP_Cache, BloomAdd, Writing
  <2>2. \A q \in Proc : proc[q].pc \in Writing => proc'[q] = proc[q]
    BY <2>1, OthersHeld
  <2> QED BY <1>2, <2>2 DEF KeyQuiet, BanIP_Cache, BloomAdd, redis, bounds, hist
<1>3. ASSUME UNCHANGED vars PROVE KeyQuiet
  BY <1>3 DEF KeyQuiet, vars, redis, bounds, hist
<1> QED BY <1>1, <1>2, <1>3, ProcessKeyQuiet, WorkerKeyQuiet
        DEF Next, ThreadStep, WorkerStep, BanStep, Proc

-----------------------------------------------------------------------------
(* What the commands and the reputation script do to a key *)

\* ExpiresWithin at instant t.
Within(k, t, D) == Live(k) => k.exp # Never /\ k.exp >= t /\ \E d \in D : k.exp <= t + d

\* A key written with a duration of D expires within D; an absent one does too.
LEMMA FreshWithin ==
  ASSUME NEW k \in RedisKey, NEW t \in Nat, NEW D, NEW d \in D, d \in Nat \ {0}
  PROVE  /\ Within(Absent, t, D) /\ Within(SetPX(d, t), t, D)
         /\ Within(PExpire(k, d, t), t, D)
BY DEF Within, Absent, SetPX, PExpire, Live, RedisKey, Never

\* Time passes: a key that is due is dropped, another has come closer to it.
LEMMA ExpireWithin ==
  ASSUME NEW k \in RedisKey, NEW t \in Nat, NEW D \in SUBSET Nat, Within(k, t, D)
  PROVE  Within(Expire(k, t + 1), t + 1, D)
BY DEF Within, Expire, Absent, Live, RedisKey, Never

\* What reputationLua, run for a score of ip, does to the keys.
RepEffect(ip) ==
  /\ rep'.exp = clock + Cfg.ScoreWindow
  /\ \A i \in IP \ {ip} : pen'[i] = pen[i] /\ bl'[i] = bl[i] /\ att'[i] = att[i]
  /\ pen'[ip] \in {pen[ip], Absent, SetPX(Cfg.PenaltyTTL, clock)}
  /\ \/ bl'[ip] = bl[ip] /\ att'[ip] = att[ip] /\ banned' = banned
     \/ /\ bl'[ip].v = 1 /\ bl'[ip].exp = clock + BackoffTTL(att[ip].v + 1, Cfg)
        /\ att'[ip].v = att[ip].v + 1
        /\ att'[ip].exp = IF att[ip].v = 0 THEN clock + Cfg.BackoffWindow ELSE att[ip].exp
        /\ banned' = banned \cup {ip}

\* What a call of the script at t that returned r did to the keys p, b and a.
ScriptDid(r, p, b, a, t) ==
  /\ r.rep.exp = t + Cfg.ScoreWindow
  /\ r.pen \in {p, Absent, SetPX(Cfg.PenaltyTTL, t)}
  /\ \/ r.bl = b /\ r.att = a /\ r.action # 2
     \/ /\ r.bl.v = 1 /\ r.bl.exp = t + BackoffTTL(a.v + 1, Cfg)
        /\ r.att.v = a.v + 1
        /\ r.att.exp = IF a.v = 0 THEN t + Cfg.BackoffWindow ELSE a.exp
        /\ r.action = 2

\* It bans, penalises or does nothing.
LEMMA ScriptEffect ==
  ASSUME NEW r0, NEW p, NEW b \in RedisKey, NEW a \in RedisKey, NEW f, NEW delta, NEW t \in Nat
  PROVE  ScriptDid(ReputationScript([rep |-> r0, pen |-> p, bl |-> b, att |-> a], f, delta, Cfg, t),
                   p, b, a, t)
<1> DEFINE d == BackoffTTL(a.v + 1, Cfg)
<1>1. PExpire(SAdd(b), d, t).v = 1 /\ PExpire(SAdd(b), d, t).exp = t + d
  <2> HIDE DEF d
  <2> QED BY DEF PExpire, SAdd, Live, RedisKey
<1>2. /\ PExpire(Incr(a), Cfg.BackoffWindow, t).v = a.v + 1
      /\ PExpire(Incr(a), Cfg.BackoffWindow, t).exp = t + Cfg.BackoffWindow
      /\ Incr(a).v = a.v + 1 /\ Incr(a).exp = a.exp
  BY DEF PExpire, Incr, Live, RedisKey
<1>3. a.v + 1 = 1 <=> a.v = 0
  BY DEF RedisKey
<1> QED BY <1>1, <1>2, <1>3 DEF ReputationScript, ScriptDid

\* The same of the keys in Redis.
LEMMA RepWritesEffect ==
  ASSUME TypeOK, NEW s, s.req.ip \in IP, RepWrites(s.req.ip, RepResult(s))
  PROVE  RepEffect(s.req.ip)
<1> DEFINE ip == s.req.ip
           r == RepResult(s)
<1>1. ScriptDid(r, pen[ip], bl[ip], att[ip], clock)
  BY ScriptEffect DEF RepResult, TypeOK, RedisOK
<1> HIDE DEF r
<1>2. /\ rep' = r.rep
      /\ pen' = [pen EXCEPT ![ip] = r.pen] /\ bl' = [bl EXCEPT ![ip] = r.bl]
      /\ att' = [att EXCEPT ![ip] = r.att]
      /\ banned' = IF r.action = 2 THEN banned \cup {ip} ELSE banned
  BY DEF RepWrites, r
<1>3. pen'[ip] = r.pen /\ bl'[ip] = r.bl /\ att'[ip] = r.att
  BY <1>2 DEF TypeOK, RedisOK
<1>4. \A i \in IP \ {ip} : pen'[i] = pen[i] /\ bl'[i] = bl[i] /\ att'[i] = att[i]
  BY <1>2 DEF TypeOK, RedisOK
<1> QED BY <1>1, <1>2, <1>3, <1>4 DEF RepEffect, ScriptDid

\* A worker's call of the script, answered or lost, has that effect or none.
LEMMA RepStepEffect ==
  ASSUME TypeOK, NEW w \in Worker,
         \/ ReputationReply(w)
         \/ \E applied, retry \in BOOLEAN : ReputationFault(w, applied, retry)
  PROVE  /\ proc[w].pc = "rep" /\ proc[w].req.ip \in IP
         /\ UNCHANGED <<clock, thr>>
         /\ RepEffect(proc[w].req.ip) \/ UNCHANGED <<rep, pen, bl, att, banned>>
<1>1. w \in Proc /\ proc[w].pc = "rep" /\ UNCHANGED <<clock, thr>>
  BY DEF ReputationReply, ReputationFault, Proc
<1>2. proc[w].req.ip \in IP
  BY <1>1, Running
<1>3. RepWrites(proc[w].req.ip, RepResult(proc[w])) \/ UNCHANGED <<rep, pen, bl, att, banned>>
  BY DEF ReputationReply, ReputationFault
<1> QED BY <1>1, <1>2, <1>3, RepWritesEffect

\* Tick expires every key.
LEMMA TickKeys ==
  ASSUME TypeOK, Tick, NEW i \in IP
  PROVE  /\ clock' = clock + 1
         /\ bl'[i] = Expire(bl[i], clock + 1) /\ pen'[i] = Expire(pen[i], clock + 1)
         /\ att'[i] = Expire(att[i], clock + 1) /\ thr'[i] = Expire(thr[i], clock + 1)
BY DEF Tick, ExpireAll, TypeOK, RedisOK

-----------------------------------------------------------------------------
(* Everything in Redis expires *)

KeyInv == TypeOK /\ SoundInv /\ KeysExpire

\* The durations are positive.
LEMMA Durations ==
  /\ PenaltyDuration \in Nat \ {0} /\ Cfg.BackoffWindow \in Nat \ {0}
  /\ Cfg.ScoreWindow \in Nat \ {0} /\ Cfg.ThreatKeyWindow \in Nat \ {0}
  /\ BanTTLs \subseteq Nat \ {0}
  /\ \A n \in Nat : BackoffTTL(n, Cfg) \in BanTTLs
<1>1. PenaltyDuration \in Nat \ {0}
  BY CfgTypes DEF PenaltyDuration
<1>2. BanTTLs \subseteq Nat \ {0}
  BY CfgTypes DEF BanTTLs
<1>3. \A n \in Nat : BackoffTTL(n, Cfg) \in BanTTLs
  BY DEF BackoffTTL, BanTTLs
<1> QED BY <1>1, <1>2, <1>3, CfgTypes

\* ExpiresWithin is Within at the clock, in this state and in the next.
LEMMA WithinNow ==
  ASSUME NEW D
  PROVE  /\ \A k : ExpiresWithin(k, D) <=> Within(k, clock, D)
         /\ PenaltiesExpire <=> \A i \in IP : /\ Within(pen[i], clock, {PenaltyDuration})
                                              /\ Within(att[i], clock, {Cfg.BackoffWindow})
         /\ PenaltiesExpire' <=> \A i \in IP : /\ Within(pen'[i], clock', {PenaltyDuration})
                                               /\ Within(att'[i], clock', {Cfg.BackoffWindow})
BY DEF PenaltiesExpire, ExpiresWithin, Within

\* Penalties and attempt counters keep expiring, whatever fails.
LEMMA PenaltiesStep ==
  ASSUME TypeOK, SoundInv, PenaltiesExpire, [Next]_vars
  PROVE  PenaltiesExpire'
<1> DEFINE P == {PenaltyDuration}
           A == {Cfg.BackoffWindow}
<1>0. /\ clock \in Nat /\ pen \in [IP -> RedisKey] /\ att \in [IP -> RedisKey]
      /\ PenaltyDuration \in Nat \ {0} /\ Cfg.BackoffWindow \in Nat \ {0}
  BY Durations DEF TypeOK, RedisOK
<1>1. \A i \in IP : Within(pen[i], clock, P) /\ Within(att[i], clock, A)
  BY WithinNow
<1> SUFFICES ASSUME NEW i \in IP PROVE Within(pen'[i], clock', P) /\ Within(att'[i], clock', A)
  BY WithinNow
<1>2. /\ Within(Absent, clock, P) /\ Within(SetPX(PenaltyDuration, clock), clock, P)
      /\ Within(PExpire(pen[i], PenaltyDuration, clock), clock, P)
  <2>1. PenaltyDuration \in P /\ pen[i] \in RedisKey
    BY <1>0
  <2> HIDE DEF P
  <2> QED BY <1>0, <2>1, FreshWithin
<1> HIDE DEF P, A
<1>3. CASE UNCHANGED <<clock, pen, att>>
  BY <1>1, <1>3
<1>4. ASSUME NEW w \in Worker,
             \/ ReputationReply(w)
             \/ \E applied, retry \in BOOLEAN : ReputationFault(w, applied, retry)
      PROVE  Within(pen'[i], clock', P) /\ Within(att'[i], clock', A)
  <2> DEFINE ip == proc[w].req.ip
  <2>1. /\ proc[w].pc = "rep" /\ ip \in IP /\ clock' = clock
        /\ RepEffect(ip) \/ UNCHANGED <<rep, pen, bl, att, banned>>
    BY <1>4, RepStepEffect
  <2>2. Cfg.PenaltyTTL = PenaltyDuration
    BY <2>1 DEF SoundInv, Sound, Proc, PenaltyDuration
  <2>3. CASE RepEffect(ip)
    <3>1. CASE i # ip
      BY <1>1, <2>1, <2>3, <3>1 DEF RepEffect
    <3>2. CASE i = ip
      <4>1. pen'[i] \in {pen[i], Absent, SetPX(PenaltyDuration, clock)}
        BY <2>2, <2>3, <3>2 DEF RepEffect
      <4>2. \/ att'[i] = att[i]
            \/ /\ att'[i].v = att[i].v + 1
               /\ att'[i].exp = IF att[i].v = 0 THEN clock + Cfg.BackoffWindow ELSE att[i].exp
        BY <2>3, <3>2 DEF RepEffect
      <4>3. Within(att'[i], clock, A)
        BY <1>0, <1>1, <4>2, Durations DEF Within, Live, RedisKey, Never, A
      <4> QED BY <1>1, <1>2, <2>1, <4>1, <4>3
    <3> QED BY <3>1, <3>2
  <2>4. CASE UNCHANGED <<rep, pen, bl, att, banned>>
    BY <1>1, <2>1, <2>4
  <2> QED BY <2>1, <2>3, <2>4
<1>5. ASSUME NEW w \in Worker,
             \/ SetPenalty(w)
             \/ \E applied, retry \in BOOLEAN : SetPenaltyFault(w, applied, retry)
      PROVE  Within(pen'[i], clock', P) /\ Within(att'[i], clock', A)
  <2>1. /\ proc[w].pc = "setpen" /\ UNCHANGED <<clock, att>>
        /\ pen' = pen \/ pen' = [pen EXCEPT ![proc[w].req.ip] = SetPX(proc[w].ttl, clock)]
    BY <1>5 DEF SetPenalty, SetPenaltyFault
  <2>2. proc[w].ttl = PenaltyDuration
    BY <2>1 DEF SoundInv, Sound, Proc
  <2>3. pen'[i] = pen[i] \/ pen'[i] = SetPX(PenaltyDuration, clock)
    BY <1>0, <2>1, <2>2
  <2> QED BY <1>1, <1>2, <2>1, <2>3
<1>6. CASE Tick
  <2>1. /\ clock' = clock + 1
        /\ pen'[i] = Expire(pen[i], clock + 1) /\ att'[i] = Expire(att[i], clock + 1)
    BY <1>6, TickKeys
  <2>2. P \in SUBSET Nat /\ A \in SUBSET Nat
    BY <1>0 DEF P, A
  <2> QED BY <1>0, <1>1, <2>1, <2>2, ExpireWithin
<1>7. \/ UNCHANGED <<clock, pen, att>>
      \/ Tick
      \/ \E w \in Worker : \/ ReputationReply(w) \/ SetPenalty(w)
                           \/ \E applied, retry \in BOOLEAN : \/ ReputationFault(w, applied, retry)
                                                              \/ SetPenaltyFault(w, applied, retry)
  <2>1. ASSUME NEW p, \/ BanIP_SAdd(p) \/ BanIP_PExpire(p)
                      \/ \E applied, retry \in BOOLEAN : BanIP_Fault(p, applied, retry)
        PROVE  UNCHANGED <<clock, pen, att>>
    BY <2>1 DEF BanIP_SAdd, BanIP_PExpire, BanIP_Fault
  <2>2. ASSUME NEW w, \/ ThreatIncr(w) \/ ThreatExpire(w)
                      \/ \E applied, retry \in BOOLEAN : ThreatFault(w, applied, retry)
        PROVE  UNCHANGED <<clock, pen, att>>
    BY <2>2 DEF ThreatIncr, ThreatExpire, ThreatFault
  <2>3. ASSUME NEW e, Restart(e) PROVE UNCHANGED <<clock, pen, att>>
    BY <2>3 DEF Restart, redis
  <2> QED BY <2>1, <2>2, <2>3, KeySteps DEF KeyQuiet
<1> QED BY <1>3, <1>4, <1>5, <1>6, <1>7

\* So does the reputation hash.
LEMMA ScoresStep ==
  ASSUME TypeOK, SoundInv, ScoresExpire, [Next]_vars
  PROVE  ScoresExpire'
<1>0. clock \in Nat /\ rep \in [score : [IP \X FP -> Nat], exp : Nat] /\ Cfg.ScoreWindow \in Nat \ {0}
  BY Durations DEF TypeOK, RedisOK
<1>1. CASE UNCHANGED <<clock, rep>>
  BY <1>1 DEF ScoresExpire
<1>2. ASSUME NEW w \in Worker,
             \/ ReputationReply(w)
             \/ \E applied, retry \in BOOLEAN : ReputationFault(w, applied, retry)
      PROVE  ScoresExpire'
  <2>1. clock' = clock /\ (rep'.exp = clock + Cfg.ScoreWindow \/ rep' = rep)
    BY <1>2, RepStepEffect DEF RepEffect
  <2>2. CASE rep' = rep
    BY <2>1, <2>2 DEF ScoresExpire
  <2>3. CASE rep'.exp = clock + Cfg.ScoreWindow
    BY <1>0, <2>1, <2>3 DEF ScoresExpire, Never
  <2> QED BY <2>1, <2>2, <2>3
<1>3. CASE Tick
  <2>1. /\ clock' = clock + 1
        /\ rep' = IF rep.exp # Never /\ rep.exp < clock + 1
                  THEN [score |-> [f \in DOMAIN rep.score |-> 0], exp |-> Never] ELSE rep
    BY <1>3 DEF Tick
  <2> QED BY <1>0, <2>1 DEF ScoresExpire, Never
<1>4. \/ UNCHANGED <<clock, rep>>
      \/ Tick
      \/ \E w \in Worker : \/ ReputationReply(w)
                           \/ \E applied, retry \in BOOLEAN : ReputationFault(w, applied, retry)
  <2>1. ASSUME NEW p, \/ BanIP_SAdd(p) \/ BanIP_PExpire(p)
                      \/ \E applied, retry \in BOOLEAN : BanIP_Fault(p, applied, retry)
        PROVE  UNCHANGED <<clock, rep>>
    BY <2>1 DEF BanIP_SAdd, BanIP_PExpire, BanIP_Fault
  <2>2. ASSUME NEW w, \/ ThreatIncr(w) \/ ThreatExpire(w) \/ SetPenalty(w)
                      \/ \E applied, retry \in BOOLEAN : \/ ThreatFault(w, applied, retry)
                                                         \/ SetPenaltyFault(w, applied, retry)
        PROVE  UNCHANGED <<clock, rep>>
    BY <2>2 DEF ThreatIncr, ThreatExpire, ThreatFault, SetPenalty, SetPenaltyFault
  <2>3. ASSUME NEW e, Restart(e) PROVE UNCHANGED <<clock, rep>>
    BY <2>3 DEF Restart, redis
  <2> QED BY <2>1, <2>2, <2>3, KeySteps DEF KeyQuiet
<1> QED BY <1>1, <1>2, <1>3, <1>4

\* A step after which still nothing has failed was no fault and no restart, and
\* nothing had failed before it.
LEMMA NoFaultSteps ==
  ASSUME TypeOK, SoundInv, [Next]_vars, faults' = 0, restarts' = 0
  PROVE  /\ faults = 0 /\ restarts = 0
         /\ \/ KeyQuiet
            \/ \E p \in Proc : BanIP_SAdd(p) \/ BanIP_PExpire(p)
            \/ \E w \in Worker : \/ ReputationReply(w) \/ SetPenalty(w)
                                 \/ ThreatIncr(w) \/ ThreatExpire(w)
            \/ Tick
<1>0. faults \in Nat /\ restarts \in Nat
  BY DEF TypeOK, HistoryOK
<1>1. ASSUME NEW p, NEW applied, NEW retry, \/ BanIP_Fault(p, applied, retry)
                                            \/ ReputationFault(p, applied, retry)
                                            \/ SetPenaltyFault(p, applied, retry)
                                            \/ ThreatFault(p, applied, retry)
      PROVE  FALSE
  BY <1>0, <1>1 DEF BanIP_Fault, ReputationFault, SetPenaltyFault, ThreatFault
<1>2. ASSUME NEW e, Restart(e) PROVE FALSE
  BY <1>0, <1>2 DEF Restart
<1>3. ASSUME KeyQuiet PROVE faults = 0 /\ restarts = 0
  BY <1>0, <1>3 DEF KeyQuiet
<1>4. ASSUME NEW p, BanIP_SAdd(p) \/ BanIP_PExpire(p) PROVE faults = 0 /\ restarts = 0
  BY <1>4 DEF BanIP_SAdd, BanIP_PExpire, bounds
<1>5. ASSUME NEW w, ReputationReply(w) \/ SetPenalty(w) \/ ThreatIncr(w) \/ ThreatExpire(w)
      PROVE  faults = 0 /\ restarts = 0
  BY <1>5 DEF ReputationReply, SetPenalty, ThreatIncr, ThreatExpire, bounds
<1>6. ASSUME Tick PROVE faults = 0 /\ restarts = 0
  BY <1>6 DEF Tick, bounds
<1> QED BY <1>1, <1>2, <1>3, <1>4, <1>5, <1>6, KeySteps

\* A goroutine that moves leaves every other where it was between two commands.
LEMMA BetweenHeld ==
  ASSUME TypeOK, NEW p \in Proc, NEW u, Goto(p, u), NEW q \in Proc, NEW x, NEW i,
         Between(q, x, i), proc[p].pc # x \/ proc[p].req.ip # i
  PROVE  proc'[q] = proc[q] /\ Between(q, x, i)'
BY DEF Goto, TypeOK, GoroutinesOK, Between

\* Bans expire, or are between SADD and PEXPIRE, as long as nothing fails.
LEMMA BansExpireStep ==
  ASSUME TypeOK, SoundInv, PipelinesExpire, [Next]_vars, faults' = 0, restarts' = 0, NEW i \in IP
  PROVE  Within(bl'[i], clock', BanTTLs) \/ \E q \in Proc : Between(q, "pexpire", i)'
<1> DEFINE Goal == Within(bl'[i], clock', BanTTLs) \/ \E q \in Proc : Between(q, "pexpire", i)'
<1>0. /\ clock \in Nat /\ bl \in [IP -> RedisKey] /\ att \in [IP -> RedisKey]
      /\ BanTTLs \subseteq Nat \ {0}
  BY Durations DEF TypeOK, RedisOK
<1>1. Within(bl[i], clock, BanTTLs) \/ \E q \in Proc : Between(q, "pexpire", i)
  BY NoFaultSteps, WithinNow DEF PipelinesExpire
<1>2. ASSUME bl'[i] = bl[i], clock' = clock,
             \A q \in Proc : Between(q, "pexpire", i) => Between(q, "pexpire", i)'
      PROVE  Goal
  BY <1>1, <1>2
<1>3. CASE KeyQuiet
  BY <1>2, <1>3 DEF KeyQuiet, Writing, Between
<1>4. ASSUME NEW p \in Proc, BanIP_SAdd(p) PROVE Goal
  <2> DEFINE s == proc[p]
             u == [s EXCEPT !.pc = "pexpire"]
  <2>1. s.pc = "sadd" /\ bl' = [bl EXCEPT ![s.req.ip] = SAdd(@)] /\ Goto(p, u) /\ clock' = clock
    BY <1>4 DEF BanIP_SAdd
  <2>2. s \in ProcState
    BY DEF TypeOK, GoroutinesOK
  <2>3. u.pc = "pexpire" /\ u.req = s.req
    BY <2>2, SameRequest
  <2> HIDE DEF u
  <2>4. CASE s.req.ip = i
    <3>1. proc'[p] = u
      BY <2>1 DEF Goto, TypeOK, GoroutinesOK
    <3> QED BY <2>3, <2>4, <3>1 DEF Between
  <2>5. CASE s.req.ip # i
    <3>1. bl'[i] = bl[i]
      BY <1>0, <2>1, <2>5
    <3> QED BY <1>2, <2>1, <2>5, <3>1, BetweenHeld
  <2> QED BY <2>4, <2>5
<1>5. ASSUME NEW p \in Proc, BanIP_PExpire(p) PROVE Goal
  <2> DEFINE s == proc[p]
             u == [s EXCEPT !.pc = "bancache"]
  <2>1. /\ s.pc = "pexpire" /\ bl' = [bl EXCEPT ![s.req.ip] = PExpire(@, s.ttl, clock)]
        /\ Goto(p, u) /\ clock' = clock
    BY <1>5 DEF BanIP_PExpire
  <2> HIDE DEF u
  <2>2. s.ttl \in BanTTLs
    BY <2>1 DEF SoundInv, Sound
  <2>3. CASE s.req.ip = i
    <3>1. bl'[i] = PExpire(bl[i], s.ttl, clock)
      BY <1>0, <2>1, <2>3
    <3> QED BY <1>0, <2>1, <2>2, <3>1, FreshWithin
  <2>4. CASE s.req.ip # i
    <3>1. bl'[i] = bl[i]
      BY <1>0, <2>1, <2>4
    <3> QED BY <1>2, <2>1, <2>4, <3>1, BetweenHeld
  <2> QED BY <2>3, <2>4
<1>6. ASSUME NEW w \in Worker, ReputationReply(w) PROVE Goal
  <2> DEFINE ip == proc[w].req.ip
  <2>1. /\ proc[w].pc = "rep" /\ ip \in IP /\ clock' = clock
        /\ RepEffect(ip) \/ UNCHANGED <<rep, pen, bl, att, banned>>
    BY <1>6, RepStepEffect
  <2>2. \/ bl'[i] = bl[i]
        \/ bl'[i].v = 1 /\ \E n \in Nat : bl'[i].exp = clock + BackoffTTL(n, Cfg)
    <3>1. att[ip].v + 1 \in Nat
      BY <1>0, <2>1 DEF RedisKey
    <3> QED BY <2>1, <3>1 DEF RepEffect
  <2>3. CASE bl'[i] = bl[i]
    <3>1. w \in Proc /\ \E u : Goto(w, u)
      BY <1>6 DEF ReputationReply, Proc
    <3> QED BY <1>2, <2>1, <2>3, <3>1, BetweenHeld
  <2>4. CASE bl'[i].v = 1 /\ \E n \in Nat : bl'[i].exp = clock + BackoffTTL(n, Cfg)
    <3>1. PICK d \in BanTTLs : bl'[i].exp = clock + d
      BY <2>4, Durations
    <3>2. d \in Nat \ {0}
      BY Durations
    <3> QED BY <1>0, <2>1, <2>4, <3>1, <3>2 DEF Within, Never
  <2> QED BY <2>2, <2>3, <2>4
<1>7. ASSUME NEW w \in Worker, SetPenalty(w) \/ ThreatIncr(w) \/ ThreatExpire(w) PROVE Goal
  <2>1. /\ w \in Proc /\ proc[w].pc # "pexpire" /\ UNCHANGED <<bl, clock>>
        /\ \E u : Goto(w, u)
    BY <1>7 DEF SetPenalty, ThreatIncr, ThreatExpire, Proc
  <2> QED BY <1>2, <2>1, BetweenHeld
<1>8. CASE Tick
  <2>1. clock' = clock + 1 /\ bl'[i] = Expire(bl[i], clock + 1) /\ proc' = proc
    BY <1>8, TickKeys DEF Tick
  <2>2. CASE Within(bl[i], clock, BanTTLs)
    BY <1>0, <2>1, <2>2, ExpireWithin
  <2>3. CASE \E q \in Proc : Between(q, "pexpire", i)
    BY <2>1, <2>3 DEF Between
  <2> QED BY <1>1, <2>2, <2>3
<1> QED BY <1>3, <1>4, <1>5, <1>6, <1>7, <1>8, NoFaultSteps

\* Threat counts expire, or are between INCR and PEXPIRE, as long as nothing fails.
LEMMA ThreatsExpireStep ==
  ASSUME TypeOK, SoundInv, PipelinesExpire, [Next]_vars, faults' = 0, restarts' = 0, NEW i \in IP
  PROVE  \/ Within(thr'[i], clock', {Cfg.ThreatKeyWindow})
         \/ \E q \in Proc : Between(q, "threxp", i)'
<1> DEFINE D == {Cfg.ThreatKeyWindow}
           Goal == Within(thr'[i], clock', D) \/ \E q \in Proc : Between(q, "threxp", i)'
<1>0. clock \in Nat /\ thr \in [IP -> RedisKey] /\ D \subseteq Nat \ {0}
  BY Durations DEF TypeOK, RedisOK
<1>1. Within(thr[i], clock, D) \/ \E q \in Proc : Between(q, "threxp", i)
  BY NoFaultSteps, WithinNow DEF PipelinesExpire
<1>2. ASSUME thr'[i] = thr[i], clock' = clock,
             \A q \in Proc : Between(q, "threxp", i) => Between(q, "threxp", i)'
      PROVE  Goal
  BY <1>1, <1>2
<1>3. CASE KeyQuiet
  BY <1>2, <1>3 DEF KeyQuiet, Writing, Between
<1>4. ASSUME NEW p \in Proc, BanIP_SAdd(p) \/ BanIP_PExpire(p) PROVE Goal
  <2>1. proc[p].pc # "threxp" /\ UNCHANGED <<thr, clock>> /\ \E u : Goto(p, u)
    BY <1>4 DEF BanIP_SAdd, BanIP_PExpire
  <2> QED BY <1>2, <2>1, BetweenHeld
<1>5. ASSUME NEW w \in Worker, ReputationReply(w) \/ SetPenalty(w) PROVE Goal
  <2>1. /\ w \in Proc /\ proc[w].pc # "threxp" /\ UNCHANGED <<thr, clock>>
        /\ \E u : Goto(w, u)
    BY <1>5 DEF ReputationReply, SetPenalty, Proc
  <2> QED BY <1>2, <2>1, BetweenHeld
<1>6. ASSUME NEW w \in Worker, ThreatIncr(w) PROVE Goal
  <2> DEFINE s == proc[w]
             k == Incr(thr[s.req.ip])
             u == [s EXCEPT !.pc = "threxp", !.n = k.v]
  <2>1. /\ w \in Proc /\ s.pc = "threat" /\ thr' = [thr EXCEPT ![s.req.ip] = k]
        /\ Goto(w, u) /\ clock' = clock
    BY <1>6 DEF ThreatIncr, Proc
  <2>2. s \in ProcState
    BY <2>1 DEF TypeOK, GoroutinesOK
  <2>3. u.pc = "threxp" /\ u.req = s.req
    BY <2>2, SameRequest
  <2> HIDE DEF u, k
  <2>4. CASE s.req.ip = i
    <3>1. proc'[w] = u
      BY <2>1 DEF Goto, TypeOK, GoroutinesOK
    <3> QED BY <2>1, <2>3, <2>4, <3>1 DEF Between
  <2>5. CASE s.req.ip # i
    <3>1. thr'[i] = thr[i]
      BY <1>0, <2>1, <2>5
    <3> QED BY <1>2, <2>1, <2>5, <3>1, BetweenHeld
  <2> QED BY <2>4, <2>5
<1>7. ASSUME NEW w \in Worker, ThreatExpire(w) PROVE Goal
  <2> DEFINE s == proc[w]
  <2>1. /\ w \in Proc /\ thr' = [thr EXCEPT ![s.req.ip] = PExpire(@, Cfg.ThreatKeyWindow, clock)]
        /\ clock' = clock /\ \E u : Goto(w, u)
    BY <1>7 DEF ThreatExpire, Proc
  <2>2. CASE s.req.ip = i
    <3>1. thr'[i] = PExpire(thr[i], Cfg.ThreatKeyWindow, clock)
      BY <1>0, <2>1, <2>2
    <3>2. Cfg.ThreatKeyWindow \in D
      OBVIOUS
    <3> HIDE DEF D
    <3> QED BY <1>0, <2>1, <3>1, <3>2, FreshWithin
  <2>3. CASE s.req.ip # i
    <3>1. thr'[i] = thr[i]
      BY <1>0, <2>1, <2>3
    <3> QED BY <1>2, <2>1, <2>3, <3>1, BetweenHeld
  <2> QED BY <2>2, <2>3
<1>8. CASE Tick
  <2>1. clock' = clock + 1 /\ thr'[i] = Expire(thr[i], clock + 1) /\ proc' = proc
    BY <1>8, TickKeys DEF Tick
  <2>2. CASE Within(thr[i], clock, D)
    <3>1. D \in SUBSET Nat
      BY <1>0
    <3> HIDE DEF D
    <3>2. Within(Expire(thr[i], clock + 1), clock + 1, D)
      BY <1>0, <2>2, <3>1, ExpireWithin
    <3> QED BY <2>1, <3>2 DEF D
  <2>3. CASE \E q \in Proc : Between(q, "threxp", i)
    BY <2>1, <2>3 DEF Between
  <2> QED BY <1>1, <2>2, <2>3
<1> QED BY <1>3, <1>4, <1>5, <1>6, <1>7, <1>8, NoFaultSteps

\* Every step keeps the keys expiring.
LEMMA KeyStep == KeyInv /\ [Next]_vars => KeyInv'
<1> SUFFICES ASSUME KeyInv, [Next]_vars PROVE KeyInv'
  OBVIOUS
<1>1. TypeOK /\ SoundInv /\ PenaltiesExpire /\ ScoresExpire /\ PipelinesExpire
  BY DEF KeyInv, KeysExpire
<1>2. TypeOK' /\ SoundInv'
  BY <1>1, TypeStep, SoundStep
<1>3. PenaltiesExpire' /\ ScoresExpire'
  BY <1>1, PenaltiesStep, ScoresStep
<1>4. PipelinesExpire'
  <2> SUFFICES ASSUME faults' = 0, restarts' = 0, NEW i \in IP
               PROVE  /\ \/ ExpiresWithin(bl[i], BanTTLs)'
                         \/ \E p \in Proc : Between(p, "pexpire", i)'
                      /\ \/ ExpiresWithin(thr[i], {Cfg.ThreatKeyWindow})'
                         \/ \E p \in Proc : Between(p, "threxp", i)'
    BY DEF PipelinesExpire
  <2>1. /\ ExpiresWithin(bl[i], BanTTLs)' <=> Within(bl'[i], clock', BanTTLs)
        /\ ExpiresWithin(thr[i], {Cfg.ThreatKeyWindow})' <=> Within(thr'[i], clock', {Cfg.ThreatKeyWindow})
    BY DEF ExpiresWithin, Within
  <2> QED BY <1>1, <2>1, BansExpireStep, ThreatsExpireStep
<1> QED BY <1>2, <1>3, <1>4 DEF KeyInv, KeysExpire

\* Init establishes it.
LEMMA KeyInit == Init => KeyInv
<1> SUFFICES ASSUME Init PROVE KeyInv
  OBVIOUS
<1>1. TypeOK
  BY TypeInit
<1>2. SoundInv
  BY DEF Init, SoundInv, Sound, Idle, ThreadPC
<1>3. PenaltiesExpire /\ PipelinesExpire
  BY DEF Init, PenaltiesExpire, PipelinesExpire, ExpiresWithin, Live, Absent
<1>4. ScoresExpire
  BY DEF Init, ScoresExpire
<1> QED BY <1>1, <1>2, <1>3, <1>4 DEF KeyInv, KeysExpire

\* The keys of Redis and what goroutines are about to write into them.
THEOREM KeyInvariant == Spec => []KeyInv
BY KeyInit, KeyStep, PTL DEF Spec

\* Penalties, attempt counters and scores always expire, within the duration they
\* were configured with; bans and threat counts do unless a call of banIP or of the
\* threat pipeline failed, or a process died, between its two commands.
THEOREM EverythingExpires == Spec => []KeysExpire
<1>1. KeyInv => KeysExpire
  BY DEF KeyInv
<1> QED BY <1>1, KeyInvariant, PTL

-----------------------------------------------------------------------------
(* A threat count that reaches the threshold is answered with a ban *)

\* Goroutine p is on its way to ban i.
Banning(p, i) == \/ Between(p, "sadd", i)
                 \/ Between(p, "threxp", i) /\ proc[p].n >= Cfg.ThreatCountThreshold

\* Every step keeps the promise, as long as nothing fails.
LEMMA ThreatStep ==
  ASSUME TypeOK, SoundInv, ThreatAnswered, [Next]_vars
  PROVE  ThreatAnswered'
<1> DEFINE T == Cfg.ThreatCountThreshold
<1> SUFFICES ASSUME faults' = 0, restarts' = 0, NEW i \in IP, thr'[i].v >= T,
                    i \notin answered', Live(thr'[i])
             PROVE  \E q \in Worker : Banning(q, i)'
  BY DEF ThreatAnswered, Live, Banning
<1>0. /\ T \in Nat /\ thr \in [IP -> RedisKey] /\ thr[i].v \in Nat
  BY CfgTypes DEF TypeOK, RedisOK, RedisKey
<1>1. (thr[i].v >= T /\ i \notin answered /\ Live(thr[i])) => \E q \in Worker : Banning(q, i)
  BY NoFaultSteps DEF ThreatAnswered, Banning
<1>2. ASSUME thr'[i] = thr[i], i \in answered => i \in answered',
             \A q \in Worker : Banning(q, i) => Banning(q, i)'
      PROVE  \E q \in Worker : Banning(q, i)'
  BY <1>1, <1>2 DEF Live
<1>3. ASSUME NEW p \in Proc, NEW u, Goto(p, u), thr'[i] = thr[i], answered \subseteq answered',
             \/ proc[p].pc \notin {"sadd", "threxp"}
             \/ proc[p].req.ip # i
             \/ p \notin Worker
      PROVE  \E q \in Worker : Banning(q, i)'
  <2>1. \A q \in Worker : Banning(q, i) => Banning(q, i)'
    BY <1>3 DEF Goto, TypeOK, GoroutinesOK, Proc, Banning, Between
  <2> QED BY <1>2, <1>3, <2>1
<1>4. CASE KeyQuiet
  BY <1>2, <1>4 DEF KeyQuiet, Writing, Banning, Between, Proc
<1>5. ASSUME NEW p \in Proc, BanIP_SAdd(p) \/ BanIP_PExpire(p)
      PROVE  \E q \in Worker : Banning(q, i)'
  <2>1. /\ thr' = thr /\ answered \subseteq answered' /\ \E u : Goto(p, u)
        /\ proc[p].pc \in {"sadd", "pexpire"}
    BY <1>5 DEF BanIP_SAdd, BanIP_PExpire, hist
  <2>2. (proc[p].pc = "sadd" /\ proc[p].req.ip = i) => p \notin Worker
    BY <1>5, <2>1 DEF BanIP_SAdd, BanIP_PExpire
  <2> QED BY <1>3, <2>1, <2>2
<1>6. ASSUME NEW w \in Worker, ReputationReply(w) \/ SetPenalty(w)
      PROVE  \E q \in Worker : Banning(q, i)'
  <2>1. /\ w \in Proc /\ proc[w].pc \in {"rep", "setpen"} /\ UNCHANGED <<thr, answered>>
        /\ \E u : Goto(w, u)
    BY <1>6 DEF ReputationReply, SetPenalty, Proc, hist
  <2> QED BY <1>3, <2>1
<1>7. ASSUME NEW w \in Worker, ThreatIncr(w) PROVE \E q \in Worker : Banning(q, i)'
  <2> DEFINE s == proc[w]
             k == Incr(thr[s.req.ip])
             u == [s EXCEPT !.pc = "threxp", !.n = k.v]
  <2>1. /\ w \in Proc /\ s.pc = "threat" /\ thr' = [thr EXCEPT ![s.req.ip] = k]
        /\ Goto(w, u) /\ answered' = answered
    BY <1>7 DEF ThreatIncr, Proc, hist
  <2>2. s \in ProcState
    BY <2>1 DEF TypeOK, GoroutinesOK
  <2>3. u.pc = "threxp" /\ u.req = s.req /\ u.n = k.v
    BY <2>2 DEF ProcState
  <2> HIDE DEF u, k
  <2>4. CASE s.req.ip = i
    <3>1. thr'[i] = k
      BY <1>0, <2>1, <2>4
    <3>2. proc'[w] = u
      BY <2>1 DEF Goto, TypeOK, GoroutinesOK
    <3> QED BY <2>1, <2>3, <2>4, <3>1, <3>2 DEF Between, Banning
  <2>5. CASE s.req.ip # i
    <3>1. thr'[i] = thr[i]
      BY <1>0, <2>1, <2>5
    <3> QED BY <1>3, <2>1, <2>5, <3>1
  <2> QED BY <2>4, <2>5
<1>8. ASSUME NEW w \in Worker, ThreatExpire(w) PROVE \E q \in Worker : Banning(q, i)'
  <2> DEFINE s == proc[w]
             b == [s EXCEPT !.pc = "sadd", !.ttl = Cfg.AdaptiveBanTTL]
             u == IF s.n >= T THEN b ELSE Idle
  <2>1. /\ w \in Proc /\ thr' = [thr EXCEPT ![s.req.ip] = PExpire(@, Cfg.ThreatKeyWindow, clock)]
        /\ Goto(w, u) /\ answered' = answered
    BY <1>8 DEF ThreatExpire, Proc, hist
  <2>2. s \in ProcState
    BY <2>1 DEF TypeOK, GoroutinesOK
  <2>3. s.n >= T => u.pc = "sadd" /\ u.req = s.req
    BY <2>2, SameRequest
  <2>4. s.pc = "threxp"
    BY <1>8 DEF ThreatExpire
  <2> HIDE DEF u
  <2>5. CASE s.req.ip = i
    <3>1. thr'[i].v = thr[i].v
      BY <1>0, <2>1, <2>5 DEF PExpire, RedisKey
    <3>2. PICK q \in Worker : Banning(q, i)
      BY <1>1, <2>1, <3>1 DEF Live
    <3>3. proc'[w] = u /\ (q # w => proc'[q] = proc[q])
      BY <2>1 DEF Goto, TypeOK, GoroutinesOK, Proc
    <3>4. CASE q = w
      <4>1. s.n >= T
        BY <2>4, <3>2, <3>4 DEF Banning, Between
      <4> QED BY <2>1, <2>3, <2>5, <3>3, <4>1 DEF Banning, Between
    <3>5. CASE q # w
      BY <3>2, <3>3, <3>5 DEF Banning, Between
    <3> QED BY <3>4, <3>5
  <2>6. CASE s.req.ip # i
    <3>1. thr'[i] = thr[i]
      BY <1>0, <2>1, <2>6
    <3> QED BY <1>3, <2>1, <2>6, <3>1
  <2> QED BY <2>5, <2>6
<1>9. CASE Tick
  <2>1. /\ thr'[i] = Expire(thr[i], clock + 1) /\ proc' = proc
        /\ i \in answered /\ Live(thr'[i]) => i \in answered'
    BY <1>9, TickKeys DEF Tick
  <2>2. thr'[i] = thr[i]
    BY <2>1 DEF Expire, Absent, Live
  <2> QED BY <1>2, <2>1, <2>2 DEF Banning, Between
<1> QED BY <1>4, <1>5, <1>6, <1>7, <1>8, <1>9, NoFaultSteps

\* AdaptiveBan: while no call fails and no process dies, an address whose threat
\* count stands at ThreatCountThreshold or above was banned by a worker since that
\* count began, or a worker is on its way to ban it, however the pipelines of several
\* workers interleave and however often the count expires and begins again.
THEOREM ThreatsAnswered == Spec => []ThreatAnswered
<1>1. Init => ThreatAnswered
  BY DEF Init, ThreatAnswered, Live, Absent
<1>2. KeyInv /\ ThreatAnswered /\ [Next]_vars => ThreatAnswered'
  BY ThreatStep DEF KeyInv
<1> QED BY <1>1, <1>2, KeyInvariant, PTL DEF Spec

-----------------------------------------------------------------------------
(* Decisions of the script *)

\* Only the script's reply makes a decision that is marked as the script's.
LEMMA LuaDecision ==
  ASSUME TypeOK, Next, NEW t \in Thread, dec'[t] # dec[t], dec'[t].lua
  PROVE  /\ CriticalPathReply(t)
         /\ LET s == proc[t]
                r == ScriptResult(s)
            IN  dec'[t] = newDecisionWithTTL(CodeReason(r.code), TRUE, r.cur, s.lim, s.now, r.ttl)
<1>1. ASSUME NEW u \in Thread, NEW q \in Request, NEW limit \in Cfg.EffLimits, Arrive(u, q, limit)
      PROVE  FALSE
  <2>1. Decide(u, NoDecision)
    BY <1>1 DEF Arrive, Decide
  <2> QED BY <2>1, OwnDecision DEF NoDecision
<1>2. ASSUME NEW u \in Thread, NEW reason, NEW limit, NEW now, Decide(u, newDecision(reason, limit, now))
      PROVE  FALSE
  BY <1>2, OwnDecision DEF newDecision, newDecisionWithTTL
<1>3. ASSUME NEW u \in Thread, NEW s, InPenalty(u, s) PROVE FALSE
  <2>1. Decide(u, newDecisionWithTTL("penalty_forbidden", FALSE, 0, 1, s.now, PenaltyBan))
    BY <1>3 DEF InPenalty
  <2> QED BY <2>1, OwnDecision DEF newDecisionWithTTL
<1>4. ASSUME NEW u \in Thread, CacheCheck(u) \/ PboxCheck(u) \/ PenaltyCached(u) PROVE FALSE
  BY <1>2, <1>3, <1>4 DEF CacheCheck, PboxCheck, PenaltyCached
<1>5. ASSUME NEW u \in Thread, NEW maybe \in BOOLEAN, BloomTest(u, maybe) PROVE FALSE
  BY <1>2, <1>5 DEF BloomTest
<1>6. ASSUME NEW u \in Thread, NEW applied \in BOOLEAN, NEW retry \in BOOLEAN,
             CriticalPathFault(u, applied, retry)
      PROVE  FALSE
  BY <1>2, <1>6 DEF CriticalPathFault
<1>7. ASSUME NEW u \in Thread,
             PenaltyTTLReply(u) \/ PenaltyTTLError(u) \/ CacheRedisBan(u) \/ Enqueue(u)
      PROVE  FALSE
  BY <1>7 DEF PenaltyTTLReply, PenaltyTTLError, CacheRedisBan, Enqueue
<1>8. ASSUME NEW p \in Proc, BanStep(p) PROVE FALSE
  BY <1>8 DEF BanStep, BanIP_SAdd, BanIP_PExpire, BanIP_Fault, BanIP_Cache, BloomAdd
<1>9. ASSUME NEW w \in Worker, WorkerStep(w) PROVE FALSE
  <2>1. CASE BanStep(w)
    BY <1>8, <2>1 DEF Proc
  <2>2. CASE ~BanStep(w)
    BY <1>9, <2>2
    DEF WorkerStep, Dequeue, ReputationReply, ReputationFault, SetPenalty, SetPenaltyFault,
        PenaltyPut, ReputationBanCache, ReputationBanBloom, ThreatIncr, ThreatExpire, ThreatFault
  <2> QED BY <2>1, <2>2
<1>10. ~Tick /\ \A e \in Instance : ~Restart(e)
  BY DEF Tick, Restart
<1>11. PICK u \in Thread : CriticalPathReply(u)
  <2>1. PICK u \in Thread : ThreadStep(u)
    BY <1>1, <1>9, <1>10 DEF Next
  <2> QED BY <1>4, <1>5, <1>6, <1>7, <1>8, <2>1 DEF ThreadStep, Proc
<1>12. Decide(u, newDecisionWithTTL(CodeReason(ScriptResult(proc[u]).code), TRUE,
                                    ScriptResult(proc[u]).cur, proc[u].lim, proc[u].now,
                                    ScriptResult(proc[u]).ttl))
  BY <1>11 DEF CriticalPathReply
<1> QED BY <1>11, <1>12, OwnDecision

\* A reply that is not "blacklisted" reports the counter as it now stands.
LEMMA ReplyReports ==
  ASSUME NEW b, NEW k \in RedisKey, NEW w, NEW limit, NEW t,
         CriticalPathScript(b, k, w, limit, t).code # 2
  PROVE  LET r == CriticalPathScript(b, k, w, limit, t)
         IN  r.ttl = PTTL(r.rl, t) /\ r.cur = k.v + 1
BY DEF CriticalPathScript

\* When the script answers, the reset it announces lies after the request's arrival
\* and not after the counter's expiry, although Process adds the TTL to a stale now -
\* except at the last instant of a counter, when Redis answers a TTL of 0 and
\* newDecisionWithTTL announces a whole Window from the arrival; and what it says
\* remains, with what was granted, is within MaxRequests.
THEOREM HonestHeaders == Spec => HeadersHonest
<1> DEFINE Said(t) == /\ dec[t] # dec'[t] /\ dec'[t].lua
                      /\ dec'[t].reason \in {"allowed", "rate_limited"}
           Honest(t) == LET d == dec'[t]
                            k == KeyOf(proc[t].req)
                        IN  /\ d.resetAt > proc[t].now
                            /\ \/ d.resetAt <= rl'[k].exp
                               \/ rl'[k].exp = clock /\ d.resetAt = proc[t].now + Cfg.Window
                            /\ d.remaining + granted'[k] <= Cfg.MaxRequests
<1>1. ASSUME TypeOK, SoundInv, LimiterInv', Next, NEW t \in Thread, Said(t) PROVE Honest(t)
  <2> DEFINE s == proc[t]
             k == KeyOf(s.req)
             r == ScriptResult(s)
  <2>1. /\ CriticalPathReply(t)
        /\ dec'[t] = newDecisionWithTTL(CodeReason(r.code), TRUE, r.cur, s.lim, s.now, r.ttl)
    BY <1>1, LuaDecision
  <2>2. t \in Proc /\ s.pc = "lua" /\ rl' = [rl EXCEPT ![k] = r.rl] /\ clock' = clock
    BY <2>1 DEF CriticalPathReply, Proc
  <2>3. /\ k \in Key /\ s.req.ip \in IP /\ s.now \in Nat /\ s.lim \in Nat
        /\ s.lim <= Cfg.MaxRequests /\ s.now <= clock
    <3>1. k \in Key /\ s.req.ip \in IP /\ s.now \in Nat /\ s.lim \in Nat
      BY <1>1, <2>2, Running
    <3>2. s.lim <= Cfg.MaxRequests /\ s.now <= clock
      BY <1>1, <2>2, CfgTypes DEF TypeOK, GoroutinesOK, ProcState, SoundInv, Sound
    <3> QED BY <3>1, <3>2
  <2>4. /\ clock \in Nat /\ Cfg.Window \in Nat \ {0} /\ Cfg.MaxRequests \in Nat
        /\ rl[k] \in RedisKey /\ rl[k].v \in Nat /\ bl[s.req.ip] \in RedisKey
    BY <1>1, <2>3, CfgTypes DEF TypeOK, RedisOK, RedisKey
  <2>5. r.code # 2
    BY <1>1, <2>1 DEF newDecisionWithTTL, CodeReason
  <2>6. r.ttl = PTTL(r.rl, clock) /\ r.cur = rl[k].v + 1
    BY <2>4, <2>5, ReplyReports DEF ScriptResult
  <2>7. r.rl.v = rl[k].v + 1
    <3>1. Effect(r, rl[k], Cfg.Window, s.lim, clock)
      BY <2>3, <2>4, CriticalPathEffect DEF ScriptResult
    <3> HIDE DEF r
    <3> QED BY <2>5, <3>1 DEF Effect
  <2> HIDE DEF r
  <2>8. rl'[k] = r.rl
    BY <1>1, <2>2, <2>3 DEF TypeOK, RedisOK
  <2>9. /\ rl'[k].exp \in Nat /\ rl'[k].exp >= clock /\ rl'[k].exp # Never
        /\ granted'[k] \in Nat /\ granted'[k] <= r.cur /\ granted'[k] <= Cfg.MaxRequests
    <3>1. Live(rl'[k]) /\ rl'[k].v = r.cur
      BY <2>4, <2>6, <2>7, <2>8 DEF Live
    <3>2. rl'[k].exp \in Nat /\ granted'[k] \in Nat
      BY <1>1, <2>3 DEF LimiterInv, TypeOK, RedisOK, HistoryOK, RedisKey
    <3>3. rl'[k].exp >= clock' /\ rl'[k].exp # Never
      BY <1>1, <2>3, <3>1 DEF LimiterInv, CounterInv, Live
    <3>4. granted'[k] <= rl'[k].v /\ granted'[k] <= Cfg.MaxRequests
      BY <1>1, <2>3 DEF LimiterInv, BudgetInv
    <3> QED BY <2>2, <3>1, <3>2, <3>3, <3>4
  <2>10. r.ttl = rl'[k].exp - clock
    BY <2>4, <2>6, <2>7, <2>8, <2>9 DEF PTTL, Live, Never
  <2>11. /\ dec'[t].resetAt = s.now + (IF r.ttl <= 0 THEN Cfg.Window ELSE r.ttl)
         /\ dec'[t].remaining = IF s.lim > r.cur THEN s.lim - r.cur ELSE 0
    BY <2>1 DEF newDecisionWithTTL
  <2>12. IF rl'[k].exp = clock THEN dec'[t].resetAt = s.now + Cfg.Window
                               ELSE dec'[t].resetAt = s.now + (rl'[k].exp - clock)
    BY <2>4, <2>9, <2>10, <2>11
  <2>13. /\ dec'[t].resetAt > s.now
         /\ \/ dec'[t].resetAt <= rl'[k].exp
            \/ rl'[k].exp = clock /\ dec'[t].resetAt = s.now + Cfg.Window
    BY <2>3, <2>4, <2>9, <2>12
  <2>14. dec'[t].remaining + granted'[k] <= Cfg.MaxRequests
    BY <2>3, <2>4, <2>6, <2>9, <2>11
  <2> QED BY <2>13, <2>14
<1> DEFINE A == \A t \in Thread :
                  LET d == dec'[t]
                      k == KeyOf(proc[t].req)
                  IN  (dec[t] # d /\ d.lua /\ d.reason \in {"allowed", "rate_limited"})
                      => /\ d.resetAt > proc[t].now
                         /\ \/ d.resetAt <= rl'[k].exp
                            \/ rl'[k].exp = clock /\ d.resetAt = proc[t].now + Cfg.Window
                         /\ d.remaining + granted'[k] <= Cfg.MaxRequests
<1>2. KeyInv /\ LimiterInv' /\ [Next]_vars => [A]_vars
  BY <1>1 DEF KeyInv
<1> QED BY <1>2, KeyInvariant, LimiterInvariant, PTL DEF Spec, HeadersHonest

-----------------------------------------------------------------------------
(* A penalty binds the requests that arrive under it *)

\* A request that is past the penalty check, and arrived under a penalty that still
\* has time left, was found in it.
JudgedRight(s) ==
  (s.pc \in {"bloom", "lua"} /\ PTTL(pen[s.req.ip], clock) > 0 /\ PenalisedSince(s.req.ip) < s.now)
  => s.lim = 1 /\ s.req.ok

\* So are all of them as long as nothing fails; and the empty address is never penalised.
JudgedInv ==
  /\ NoIP \in IP => ~Live(pen[NoIP])
  /\ faults = 0 => \A t \in Thread : JudgedRight(proc[t])

\* What a step may do to a penalty: nothing, end it, or set it anew.
PenaltyMoves(i) ==
  \/ pen'[i] = pen[i]
  \/ ~Live(pen'[i])
  \/ i # NoIP /\ clock' = clock /\ pen'[i].exp = clock + PenaltyDuration

\* No step does anything else.
LEMMA PenaltySteps ==
  ASSUME TypeOK, BackedInv, SoundInv, [Next]_vars, NEW i \in IP
  PROVE  PenaltyMoves(i)
<1>0. pen \in [IP -> RedisKey]
  BY DEF TypeOK, RedisOK
<1>1. CASE UNCHANGED pen
  BY <1>1 DEF PenaltyMoves
<1>2. ASSUME NEW w \in Worker,
             \/ ReputationReply(w)
             \/ \E applied, retry \in BOOLEAN : ReputationFault(w, applied, retry)
      PROVE  PenaltyMoves(i)
  <2> DEFINE ip == proc[w].req.ip
  <2>1. /\ proc[w].pc = "rep" /\ ip \in IP /\ clock' = clock
        /\ RepEffect(ip) \/ UNCHANGED <<rep, pen, bl, att, banned>>
    BY <1>2, RepStepEffect
  <2>2. Cfg.PenaltyTTL = PenaltyDuration /\ ip # NoIP
    BY <2>1 DEF SoundInv, Sound, Proc, PenaltyDuration, BackedInv, Addressless
  <2>3. pen'[i] = pen[i] \/ (i = ip /\ pen'[i] \in {Absent, SetPX(PenaltyDuration, clock)})
    BY <2>1, <2>2 DEF RepEffect
  <2> QED BY <2>1, <2>2, <2>3 DEF PenaltyMoves, Absent, SetPX, Live
<1>3. ASSUME NEW w \in Worker,
             \/ SetPenalty(w)
             \/ \E applied, retry \in BOOLEAN : SetPenaltyFault(w, applied, retry)
      PROVE  PenaltyMoves(i)
  <2>1. /\ proc[w].pc = "setpen" /\ clock' = clock
        /\ pen' = pen \/ pen' = [pen EXCEPT ![proc[w].req.ip] = SetPX(proc[w].ttl, clock)]
    BY <1>3 DEF SetPenalty, SetPenaltyFault
  <2>2. proc[w].ttl = PenaltyDuration /\ proc[w].req.ip # NoIP
    BY <2>1 DEF SoundInv, Sound, Proc, BackedInv, Addressless
  <2>3. pen'[i] = pen[i] \/ (i # NoIP /\ pen'[i] = SetPX(PenaltyDuration, clock))
    BY <1>0, <2>1, <2>2
  <2> QED BY <2>1, <2>3 DEF PenaltyMoves, SetPX
<1>4. CASE Tick
  BY <1>4, TickKeys DEF PenaltyMoves, Expire, Absent, Live
<1>5. \/ UNCHANGED pen
      \/ Tick
      \/ \E w \in Worker : \/ ReputationReply(w) \/ SetPenalty(w)
                           \/ \E applied, retry \in BOOLEAN : \/ ReputationFault(w, applied, retry)
                                                              \/ SetPenaltyFault(w, applied, retry)
  <2>1. ASSUME NEW p, \/ BanIP_SAdd(p) \/ BanIP_PExpire(p)
                      \/ \E applied, retry \in BOOLEAN : BanIP_Fault(p, applied, retry)
        PROVE  UNCHANGED pen
    BY <2>1 DEF BanIP_SAdd, BanIP_PExpire, BanIP_Fault
  <2>2. ASSUME NEW w, \/ ThreatIncr(w) \/ ThreatExpire(w)
                      \/ \E applied, retry \in BOOLEAN : ThreatFault(w, applied, retry)
        PROVE  UNCHANGED pen
    BY <2>2 DEF ThreatIncr, ThreatExpire, ThreatFault
  <2>3. ASSUME NEW e, Restart(e) PROVE UNCHANGED pen
    BY <2>3 DEF Restart, redis
  <2> QED BY <2>1, <2>2, <2>3, KeySteps DEF KeyQuiet
<1> QED BY <1>1, <1>2, <1>3, <1>4, <1>5

\* A request that stays where it is stays judged right: a penalty set anew is not older
\* than the request.
LEMMA JudgedHeld ==
  ASSUME TypeOK, SoundInv, NEW t \in Thread, JudgedRight(proc[t]), proc'[t] = proc[t],
         clock' \in {clock, clock + 1}, \A i \in IP : PenaltyMoves(i)
  PROVE  JudgedRight(proc[t])'
<1> DEFINE s == proc[t]
<1>0. t \in Proc /\ s.now \in Nat /\ s.now <= clock /\ clock \in Nat /\ PenaltyDuration \in Nat
  BY Durations DEF TypeOK, RedisOK, GoroutinesOK, ProcState, Proc, SoundInv, Sound
<1> SUFFICES ASSUME s.pc \in {"bloom", "lua"}, PTTL(pen'[s.req.ip], clock') > 0,
                    pen'[s.req.ip].exp - PenaltyDuration < s.now
             PROVE  s.lim = 1 /\ s.req.ok
  BY DEF JudgedRight, PenalisedSince
<1>1. s.req.ip \in IP
  BY <1>0, Running
<1>2. pen'[s.req.ip] = pen[s.req.ip]
  BY <1>0, <1>1 DEF PenaltyMoves, PTTL
<1>3. pen[s.req.ip] \in RedisKey
  BY <1>1 DEF TypeOK, RedisOK
<1>4. PTTL(pen[s.req.ip], clock) > 0
  BY <1>0, <1>2, <1>3 DEF PTTL, RedisKey
<1> QED BY <1>2, <1>4 DEF JudgedRight, PenalisedSince

\* Both answers to a penalty judge the request right.
LEMMA InPenaltyJudged ==
  ASSUME TypeOK, SoundInv, NEW t \in Thread, proc[t].pc \in ThreadPC, InPenalty(t, proc[t])
  PROVE  \E u : Goto(t, u) /\ JudgedRight(u)
<1> DEFINE s == proc[t]
           v == [s EXCEPT !.lim = IF @ > 1 THEN 1 ELSE @]
           u == PastPenalty(v)
           b == [s EXCEPT !.pc = "sadd", !.ttl = PenaltyBan]
<1>1. s \in ProcState /\ s.lim \in Nat /\ s.lim >= 1
  BY CfgTypes DEF TypeOK, GoroutinesOK, ProcState, Proc, SoundInv, Sound
<1>2. u.lim = 1 /\ u.req = s.req
  BY <1>1 DEF PastPenalty, ProcState
<1>3. b.pc = "sadd"
  BY <1>1 DEF ProcState
<1>4. (s.req.ok /\ Goto(t, u)) \/ Goto(t, b)
  BY DEF InPenalty
<1> HIDE DEF u, b
<1> QED BY <1>2, <1>3, <1>4 DEF JudgedRight

\* A step of Process that is not a fault leaves the penalties alone and the request
\* judged right.
LEMMA ProcessJudged ==
  ASSUME TypeOK, SoundInv, NEW t \in Thread, JudgedRight(proc[t]), faults' = 0,
         \/ CacheCheck(t) \/ PboxCheck(t) \/ PenaltyTTLReply(t) \/ PenaltyTTLError(t)
         \/ PenaltyCached(t) \/ Enqueue(t) \/ CriticalPathReply(t) \/ CacheRedisBan(t)
         \/ \E maybe \in BOOLEAN : BloomTest(t, maybe)
         \/ \E applied, retry \in BOOLEAN : CriticalPathFault(t, applied, retry)
  PROVE  \E u : Goto(t, u) /\ JudgedRight(u)
<1> DEFINE s == proc[t]
           Good == \E u : Goto(t, u) /\ JudgedRight(u)
<1>0. t \in Proc /\ s \in ProcState /\ faults \in Nat
  BY DEF TypeOK, GoroutinesOK, HistoryOK, Proc
<1>1. /\ JudgedRight(Idle) /\ JudgedRight(Enqueueing(s))
      /\ \A x \in {"pbox", "pttl", "blcache", "bloomadd"} : JudgedRight([s EXCEPT !.pc = x])
      /\ \A d : JudgedRight([s EXCEPT !.pc = "pboxput", !.ttl = d])
  BY <1>0 DEF JudgedRight, Idle, Enqueueing, ProcState
<1>3. CASE CacheCheck(t)
  BY <1>1, <1>3 DEF CacheCheck
<1>4. CASE PboxCheck(t)
  BY <1>1, <1>4, InPenaltyJudged DEF PboxCheck, ThreadPC
<1>5. CASE PenaltyTTLReply(t)
  <2> DEFINE ttl == PTTL(pen[s.req.ip], clock)
             u == PastPenalty(s)
  <2>1. /\ s.pc = "pttl"
        /\ Goto(t, IF ttl <= 0 THEN u ELSE [s EXCEPT !.pc = "pboxput", !.ttl = ttl])
    BY <1>5 DEF PenaltyTTLReply
  <2>2. ttl \in Int
    <3>1. s.req.ip \in IP
      BY <1>0, <2>1, Running
    <3> QED BY <3>1, CommandTypes DEF TypeOK, RedisOK
  <2>3. u.req = s.req
    BY <1>0 DEF PastPenalty, ProcState
  <2> HIDE DEF u
  <2>4. ttl <= 0 => JudgedRight(u)
    BY <2>2, <2>3 DEF JudgedRight
  <2> HIDE DEF ttl
  <2> QED BY <1>1, <2>1, <2>4
<1>6. CASE PenaltyTTLError(t)
  BY <1>0, <1>6 DEF PenaltyTTLError
<1>7. CASE PenaltyCached(t)
  BY <1>7, InPenaltyJudged DEF PenaltyCached, ThreadPC
<1>8. CASE Enqueue(t) \/ CacheRedisBan(t)
  BY <1>1, <1>8 DEF Enqueue, CacheRedisBan
<1>9. CASE CriticalPathReply(t)
  BY <1>1, <1>9 DEF CriticalPathReply
<1>10. ASSUME NEW maybe \in BOOLEAN, BloomTest(t, maybe) PROVE Good
  <2> DEFINE u == [s EXCEPT !.pc = "lua"]
  <2>1. s.pc = "bloom" /\ (Goto(t, u) \/ Goto(t, Enqueueing(s)))
    BY <1>10 DEF BloomTest
  <2>2. u.req = s.req /\ u.now = s.now /\ u.lim = s.lim
    BY <1>0 DEF ProcState
  <2> HIDE DEF u
  <2>3. JudgedRight(u)
    BY <2>1, <2>2 DEF JudgedRight
  <2> QED BY <1>1, <2>1, <2>3
<1>11. ASSUME NEW applied \in BOOLEAN, NEW retry \in BOOLEAN, CriticalPathFault(t, applied, retry)
       PROVE  Good
  BY <1>0, <1>11 DEF CriticalPathFault
<1> QED BY <1>3, <1>4, <1>5, <1>6, <1>7, <1>8, <1>9, <1>10, <1>11

\* One request moves to a state that is judged right while the penalties stand.
LEMMA JudgedMove ==
  ASSUME TypeOK, SoundInv, JudgedInv, faults = 0, NEW t \in Thread, NEW u, Goto(t, u), JudgedRight(u),
         UNCHANGED <<pen, clock>>
  PROVE  \A q \in Thread : JudgedRight(proc[q])'
<1>1. \A q \in Thread : proc'[q] = IF q = t THEN u ELSE proc[q]
  BY DEF Goto, TypeOK, GoroutinesOK, Proc
<1> QED BY <1>1 DEF JudgedInv, JudgedRight, PenalisedSince

\* Faults are never forgotten.
LEMMA FaultsCounted ==
  ASSUME TypeOK, SoundInv, [Next]_vars, faults' = 0
  PROVE  faults = 0
<1>0. faults \in Nat
  BY DEF TypeOK, HistoryOK
<1>1. ASSUME NEW p, NEW applied, NEW retry, \/ BanIP_Fault(p, applied, retry)
                                            \/ ReputationFault(p, applied, retry)
                                            \/ SetPenaltyFault(p, applied, retry)
                                            \/ ThreatFault(p, applied, retry)
      PROVE  faults = 0
  BY <1>0, <1>1 DEF BanIP_Fault, ReputationFault, SetPenaltyFault, ThreatFault
<1>2. ASSUME NEW p, \/ BanIP_SAdd(p) \/ BanIP_PExpire(p) \/ ReputationReply(p) \/ SetPenalty(p)
                    \/ ThreatIncr(p) \/ ThreatExpire(p) \/ Restart(p)
      PROVE  faults = 0
  BY <1>2 DEF BanIP_SAdd, BanIP_PExpire, ReputationReply, SetPenalty, ThreatIncr, ThreatExpire,
              Restart, bounds
<1>3. CASE Tick
  BY <1>3 DEF Tick, bounds
<1>4. CASE KeyQuiet
  BY <1>0, <1>4 DEF KeyQuiet
<1> QED BY <1>1, <1>2, <1>3, <1>4, KeySteps

\* Every step keeps the requests judged right.
LEMMA JudgedStep ==
  ASSUME TypeOK, BackedInv, SoundInv, JudgedInv, [Next]_vars
  PROVE  JudgedInv'
<1>0. \A i \in IP : PenaltyMoves(i)
  BY PenaltySteps
<1>1. NoIP \in IP => ~Live(pen'[NoIP])
  BY <1>0 DEF JudgedInv, PenaltyMoves
<1> SUFFICES ASSUME faults' = 0 PROVE \A q \in Thread : JudgedRight(proc[q])'
  BY <1>1 DEF JudgedInv
<1>2. faults = 0 /\ \A q \in Thread : JudgedRight(proc[q])
  BY FaultsCounted DEF JudgedInv
<1>3. ASSUME NEW t \in Thread, NEW q \in Request, NEW limit \in Cfg.EffLimits, Arrive(t, q, limit)
      PROVE  \A r \in Thread : JudgedRight(proc[r])'
  <2> DEFINE u == [pc |-> IF q.ip = NoIP THEN "lua" ELSE "cache", req |-> q,
                   now |-> clock, lim |-> limit, ttl |-> 0, n |-> 0]
  <2>1. Goto(t, u) /\ UNCHANGED <<pen, clock>>
    BY <1>3 DEF Arrive, redis
  <2>2. q.ip \in IP
    BY RequestAssumption
  <2>3. JudgedRight(u)
    BY <2>2 DEF JudgedRight, JudgedInv, PTTL
  <2> HIDE DEF u
  <2> QED BY <1>2, <2>1, <2>3, JudgedMove
<1>4. ASSUME NEW t \in Thread, ThreadStep(t), ~BanStep(t)
      PROVE  \A q \in Thread : JudgedRight(proc[q])'
  <2>1. KeyQuiet
    BY <1>4, ProcessKeyQuiet DEF ThreadStep
  <2>2. \E u : Goto(t, u) /\ JudgedRight(u)
    BY <1>2, <1>4, ProcessJudged DEF ThreadStep
  <2> QED BY <1>2, <2>1, <2>2, JudgedMove DEF KeyQuiet
<1>5. ASSUME NEW t \in Thread, BanStep(t)
      PROVE  \A q \in Thread : JudgedRight(proc[q])'
  <2>1. UNCHANGED <<pen, clock>>
    BY <1>5 DEF BanStep, BanIP_SAdd, BanIP_PExpire, BanIP_Fault, BanIP_Cache, BloomAdd, redis
  <2>2. t \in Proc /\ proc[t] \in ProcState
    BY DEF TypeOK, GoroutinesOK, Proc
  <2>3. /\ JudgedRight(Idle)
        /\ \A x \in {"sadd", "pexpire", "bancache", "bloomadd"} : JudgedRight([proc[t] EXCEPT !.pc = x])
    BY <2>2 DEF JudgedRight, Idle, ProcState
  <2>4. \E u : Goto(t, u) /\ JudgedRight(u)
    BY <1>5, <2>3 DEF BanStep, BanIP_SAdd, BanIP_PExpire, BanIP_Fault, BanIP_Cache, BloomAdd
  <2> QED BY <1>2, <2>1, <2>4, JudgedMove
<1>6. ASSUME NEW w \in Worker, WorkerStep(w)
      PROVE  \A q \in Thread : JudgedRight(proc[q])'
  <2>1. PICK u : Goto(w, u)
    BY <1>6, WorkerSound
  <2>2. \A q \in Thread : proc'[q] = proc[q]
    BY <2>1, ProcAssumption DEF Goto, TypeOK, GoroutinesOK, Proc
  <2>3. clock' \in {clock, clock + 1}
    BY ClockStands DEF Tick
  <2> QED BY <1>0, <1>2, <2>2, <2>3, JudgedHeld
<1>7. ASSUME Tick \/ UNCHANGED vars
      PROVE  \A q \in Thread : JudgedRight(proc[q])'
  <2>1. proc' = proc /\ clock' \in {clock, clock + 1}
    BY <1>7 DEF Tick, vars
  <2> QED BY <1>0, <1>2, <2>1, JudgedHeld
<1>8. ASSUME NEW e \in Instance, Restart(e)
      PROVE  \A q \in Thread : JudgedRight(proc[q])'
  <2>1. pen' = pen /\ clock' = clock /\ \A q \in Thread : proc'[q] \in {proc[q], Idle}
    BY <1>8 DEF Restart, redis, Proc
  <2> QED BY <1>2, <2>1 DEF JudgedRight, PenalisedSince, Idle
<1> QED BY <1>3, <1>4, <1>5, <1>6, <1>7, <1>8 DEF Next

\* While no call fails, a request that arrives under a penalty and is judged by the
\* script while it has time left passed the penalty checks and is judged with a limit of 1, on
\* every instance, whatever the local penalty boxes hold.
THEOREM PenaltiesBind == Spec => PenaltyBinds
<1> DEFINE A == \A t \in Thread :
                  LET s == proc[t]
                  IN  (/\ dec[t] # dec'[t] /\ dec'[t].lua /\ faults = 0
                       /\ PTTL(pen[s.req.ip], clock) > 0 /\ PenalisedSince(s.req.ip) < s.now)
                      => dec'[t].limit = 1 /\ s.req.ok
<1>1. Init => JudgedInv
  <2> SUFFICES ASSUME Init PROVE JudgedInv
    OBVIOUS
  <2>1. NoIP \in IP => ~Live(pen[NoIP])
    BY DEF Init, Absent, Live
  <2>2. \A t \in Thread : proc[t].pc = "idle"
    BY DEF Init, Idle, Proc
  <2> QED BY <2>1, <2>2 DEF JudgedInv, JudgedRight
<1>2. KeyInv /\ BanInv /\ JudgedInv /\ [Next]_vars => JudgedInv'
  BY JudgedStep DEF KeyInv, KeysExpire, BanInv
<1>3. ASSUME TypeOK, JudgedInv, Next, faults = 0, NEW t \in Thread, dec[t] # dec'[t], dec'[t].lua,
             PTTL(pen[proc[t].req.ip], clock) > 0, PenalisedSince(proc[t].req.ip) < proc[t].now
      PROVE  dec'[t].limit = 1 /\ proc[t].req.ok
  <2>1. proc[t].pc = "lua"
    BY <1>3, LuaDecision DEF CriticalPathReply
  <2> DEFINE r == ScriptResult(proc[t])
  <2>2. dec'[t] = newDecisionWithTTL(CodeReason(r.code), TRUE, r.cur, proc[t].lim, proc[t].now, r.ttl)
    BY <1>3, LuaDecision
  <2>3. dec'[t].limit = proc[t].lim
    BY <2>2 DEF newDecisionWithTTL
  <2> QED BY <1>3, <2>1, <2>3 DEF JudgedInv, JudgedRight
<1>4. KeyInv /\ JudgedInv /\ [Next]_vars => [A]_vars
  BY <1>3 DEF KeyInv
<1> QED BY <1>1, <1>2, <1>4, KeyInvariant, BanInvariant, PTL DEF Spec, PenaltyBinds

-----------------------------------------------------------------------------
(* Bans escalate where reputation is the only one to ban *)

\* Reputation bans alone: AdaptiveBan is off and every request passes the penalty checks, so
\* that banIP is never called; and the levels are configured in ascending order, which
\* withDefaults does not enforce.
ReputationBansAlone ==
  /\ ~Cfg.Adaptive
  /\ \A q \in Request : q.ok
  /\ Cfg.BanLevel1 <= Cfg.BanLevel2 /\ Cfg.BanLevel2 <= Cfg.BanLevel3

\* Goroutine state s is not in banIP nor on the way to it.
NoBanIP(s) == s.pc \notin {"sadd", "pexpire", "threat", "threxp"}

\* Nobody is, and a ban ends no later than one of the attempts counted so far, given now, would.
EscalationInv ==
  /\ \A p \in Proc : NoBanIP(proc[p])
  /\ \A i \in IP : Live(att[i]) /\ Live(bl[i]) => bl[i].exp <= clock + BackoffTTL(att[i].v, Cfg)

\* A later attempt earns no shorter ban.
LEMMA BackoffGrows ==
  ASSUME ReputationBansAlone, NEW n \in Nat, n # 0
  PROVE  /\ BackoffTTL(n, Cfg) \in Nat /\ BackoffTTL(n + 1, Cfg) \in Nat
         /\ BackoffTTL(n, Cfg) <= BackoffTTL(n + 1, Cfg)
<1>1. Cfg.BanLevel1 \in Nat /\ Cfg.BanLevel2 \in Nat /\ Cfg.BanLevel3 \in Nat
  BY CfgTypes
<1>2. CASE n = 1
  BY <1>1, <1>2 DEF ReputationBansAlone, BackoffTTL
<1>3. CASE n = 2
  BY <1>1, <1>3 DEF ReputationBansAlone, BackoffTTL
<1>4. CASE n >= 3
  BY <1>1, <1>4 DEF ReputationBansAlone, BackoffTTL
<1> QED BY <1>2, <1>3, <1>4

\* No step of Process leads to banIP ...
LEMMA ProcessNoBan ==
  ASSUME TypeOK, ReputationBansAlone, EscalationInv, NEW t \in Thread, ThreadStep(t)
  PROVE  \E u : Goto(t, u) /\ NoBanIP(u)
<1> DEFINE s == proc[t]
           Good == \E u : Goto(t, u) /\ NoBanIP(u)
<1>0. t \in Proc /\ s \in ProcState /\ NoBanIP(s)
  BY DEF TypeOK, GoroutinesOK, Proc, EscalationInv
<1>1. /\ NoBanIP(Idle) /\ NoBanIP(Enqueueing(s)) /\ NoBanIP(PastPenalty(s))
      /\ \A x \in {"pbox", "pttl", "lua", "blcache", "bloomadd"} : NoBanIP([s EXCEPT !.pc = x])
      /\ \A d : NoBanIP([s EXCEPT !.pc = "pboxput", !.ttl = d])
  BY <1>0 DEF NoBanIP, Idle, Enqueueing, PastPenalty, ProcState
<1>2. ASSUME InPenalty(t, s), s.pc # "idle" PROVE Good
  <2> DEFINE v == [s EXCEPT !.lim = IF @ > 1 THEN 1 ELSE @]
  <2>1. s.req \in Request
    BY <1>0, <1>2 DEF TypeOK, GoroutinesOK
  <2>2. Goto(t, PastPenalty(v))
    BY <1>2, <2>1 DEF InPenalty, ReputationBansAlone
  <2>3. NoBanIP(PastPenalty(v))
    BY <1>0 DEF NoBanIP, PastPenalty, ProcState
  <2> QED BY <2>2, <2>3
<1>3. CASE CacheCheck(t)
  BY <1>1, <1>3 DEF CacheCheck
<1>4. CASE PboxCheck(t)
  BY <1>1, <1>2, <1>4 DEF PboxCheck
<1>5. CASE PenaltyTTLReply(t) \/ PenaltyTTLError(t)
  BY <1>1, <1>5 DEF PenaltyTTLReply, PenaltyTTLError
<1>6. CASE PenaltyCached(t)
  BY <1>2, <1>6 DEF PenaltyCached
<1>7. CASE Enqueue(t) \/ CacheRedisBan(t)
  BY <1>1, <1>7 DEF Enqueue, CacheRedisBan
<1>8. CASE CriticalPathReply(t)
  BY <1>1, <1>8 DEF CriticalPathReply
<1>9. ASSUME NEW maybe \in BOOLEAN, BloomTest(t, maybe) PROVE Good
  BY <1>1, <1>9 DEF BloomTest
<1>10. ASSUME NEW applied \in BOOLEAN, NEW retry \in BOOLEAN, CriticalPathFault(t, applied, retry)
       PROVE  Good
  <2>1. CASE retry
    <3>1. Goto(t, s)
      BY <1>10, <2>1 DEF CriticalPathFault, Goto, TypeOK, GoroutinesOK
    <3> QED BY <1>0, <3>1
  <2>2. CASE ~retry
    BY <1>1, <1>10, <2>2 DEF CriticalPathFault
  <2> QED BY <2>1, <2>2
<1>11. CASE BanStep(t)
  <2>1. BloomAdd(t) \/ BanIP_Cache(t)
    BY <1>0, <1>11 DEF BanStep, BanIP_SAdd, BanIP_PExpire, BanIP_Fault, NoBanIP
  <2> QED BY <1>1, <2>1 DEF BloomAdd, BanIP_Cache
<1> QED BY <1>3, <1>4, <1>5, <1>6, <1>7, <1>8, <1>9, <1>10, <1>11 DEF ThreadStep

\* ... nor does one of processSnapshot.
LEMMA WorkerNoBan ==
  ASSUME TypeOK, ReputationBansAlone, EscalationInv, NEW w \in Worker, WorkerStep(w)
  PROVE  \E u : Goto(w, u) /\ NoBanIP(u)
<1> DEFINE s == proc[w]
           Good == \E u : Goto(w, u) /\ NoBanIP(u)
<1>0. w \in Proc /\ s \in ProcState /\ NoBanIP(s)
  BY DEF TypeOK, GoroutinesOK, Proc, EscalationInv
<1>1. /\ NoBanIP(Idle)
      /\ \A x \in {"penput", "repbloom", "bloomadd"} : NoBanIP([s EXCEPT !.pc = x])
      /\ \A x \in {"setpen", "repcache"} : \A d : NoBanIP([s EXCEPT !.pc = x, !.ttl = d])
  BY <1>0 DEF NoBanIP, Idle, ProcState
<1>2. \A r : PastReputation(r) = Idle
  BY DEF PastReputation, ReputationBansAlone
<1>3. ASSUME NEW score \in Scores, Dequeue(w, score) PROVE Good
  <2> DEFINE q == Head(queue[EngineOf[w]])
             d == [pc |-> "rep", req |-> q, now |-> 0, lim |-> 0, ttl |-> 0, n |-> score]
             b == [d EXCEPT !.pc = "setpen", !.ttl = Cfg.BehPenaltyTTL]
  <2>1. NoBanIP(d) /\ NoBanIP(b)
    BY DEF NoBanIP
  <2>2. Goto(w, Idle) \/ Goto(w, d) \/ Goto(w, b)
    BY <1>2, <1>3 DEF Dequeue
  <2> HIDE DEF b, d
  <2> QED BY <1>1, <2>1, <2>2
<1>4. CASE ReputationReply(w)
  BY <1>1, <1>2, <1>4 DEF ReputationReply
<1>5. CASE SetPenalty(w) \/ PenaltyPut(w) \/ ReputationBanCache(w) \/ ReputationBanBloom(w)
  BY <1>1, <1>2, <1>5 DEF SetPenalty, PenaltyPut, ReputationBanCache, ReputationBanBloom
<1>6. CASE \/ ThreatIncr(w) \/ ThreatExpire(w)
           \/ \E applied, retry \in BOOLEAN : ThreatFault(w, applied, retry)
  BY <1>0, <1>6 DEF ThreatIncr, ThreatExpire, ThreatFault, NoBanIP
<1>7. ASSUME NEW applied \in BOOLEAN, NEW retry \in BOOLEAN,
             ReputationFault(w, applied, retry) \/ SetPenaltyFault(w, applied, retry)
      PROVE  Good
  BY <1>0, <1>1, <1>2, <1>7 DEF ReputationFault, SetPenaltyFault
<1>8. CASE BanStep(w)
  <2>1. BloomAdd(w) \/ BanIP_Cache(w)
    BY <1>0, <1>8 DEF BanStep, BanIP_SAdd, BanIP_PExpire, BanIP_Fault, NoBanIP
  <2> QED BY <1>1, <2>1 DEF BloomAdd, BanIP_Cache
<1> QED BY <1>3, <1>4, <1>5, <1>6, <1>7, <1>8 DEF WorkerStep

\* What a step may then do to the ban and the attempts of an address: nothing, let them
\* expire, or count one more attempt and ban for it.
EscalationMoves(i) ==
  \/ bl'[i] = bl[i] /\ att'[i] = att[i] /\ clock' = clock
  \/ /\ bl'[i].exp = clock + BackoffTTL(att[i].v + 1, Cfg)
     /\ att'[i].v = att[i].v + 1 /\ clock' = clock
  \/ /\ bl'[i] \in {bl[i], Absent} /\ att'[i] \in {att[i], Absent} /\ clock' = clock + 1

\* No step does anything else.
LEMMA EscalationSteps ==
  ASSUME TypeOK, SoundInv, EscalationInv, [Next]_vars, NEW i \in IP
  PROVE  EscalationMoves(i)
<1>1. ASSUME UNCHANGED <<clock, bl, att>> PROVE EscalationMoves(i)
  BY <1>1 DEF EscalationMoves
<1>2. ASSUME NEW w \in Worker,
             \/ ReputationReply(w)
             \/ \E applied, retry \in BOOLEAN : ReputationFault(w, applied, retry)
      PROVE  EscalationMoves(i)
  <2> DEFINE ip == proc[w].req.ip
  <2>1. /\ ip \in IP /\ clock' = clock
        /\ RepEffect(ip) \/ UNCHANGED <<rep, pen, bl, att, banned>>
    BY <1>2, RepStepEffect
  <2> QED BY <2>1 DEF RepEffect, EscalationMoves
<1>3. ASSUME NEW w \in Worker,
             \/ SetPenalty(w)
             \/ \E applied, retry \in BOOLEAN : SetPenaltyFault(w, applied, retry)
      PROVE  EscalationMoves(i)
  BY <1>1, <1>3 DEF SetPenalty, SetPenaltyFault
<1>4. ASSUME NEW p \in Proc, \/ BanIP_SAdd(p) \/ BanIP_PExpire(p) \/ ThreatIncr(p) \/ ThreatExpire(p)
                             \/ \E applied, retry \in BOOLEAN : \/ BanIP_Fault(p, applied, retry)
                                                                \/ ThreatFault(p, applied, retry)
      PROVE  FALSE
  BY <1>4 DEF BanIP_SAdd, BanIP_PExpire, BanIP_Fault, ThreatIncr, ThreatExpire, ThreatFault,
              EscalationInv, NoBanIP
<1>5. ASSUME NEW e, Restart(e) PROVE EscalationMoves(i)
  BY <1>1, <1>5 DEF Restart, redis
<1>6. CASE Tick
  BY <1>6, TickKeys DEF EscalationMoves, Expire
<1>7. CASE KeyQuiet
  BY <1>1, <1>7 DEF KeyQuiet
<1> QED BY <1>2, <1>3, <1>4, <1>5, <1>6, <1>7, KeySteps DEF Proc

\* Every step keeps the bans within their level.
LEMMA EscalationStep ==
  ASSUME TypeOK, SoundInv, ReputationBansAlone, EscalationInv, [Next]_vars
  PROVE  EscalationInv'
<1>1. ASSUME NEW p \in Proc, NEW u, Goto(p, u), NoBanIP(u)
      PROVE  \A q \in Proc : NoBanIP(proc'[q])
  <2>1. \A q \in Proc : proc'[q] = IF q = p THEN u ELSE proc[q]
    BY <1>1 DEF Goto, TypeOK, GoroutinesOK
  <2> QED BY <1>1, <2>1 DEF EscalationInv
<1>2. \A q \in Proc : NoBanIP(proc'[q])
  <2>1. ASSUME NEW t \in Thread, NEW q \in Request, NEW limit \in Cfg.EffLimits, Arrive(t, q, limit)
        PROVE  \A p \in Proc : NoBanIP(proc'[p])
    <3> DEFINE u == [pc |-> IF q.ip = NoIP THEN "lua" ELSE "cache", req |-> q,
                     now |-> clock, lim |-> limit, ttl |-> 0, n |-> 0]
    <3>1. t \in Proc /\ Goto(t, u) /\ NoBanIP(u)
      BY <2>1 DEF Arrive, Proc, NoBanIP
    <3> HIDE DEF u
    <3> QED BY <1>1, <3>1
  <2>2. ASSUME NEW t \in Thread, ThreadStep(t) PROVE \A p \in Proc : NoBanIP(proc'[p])
    BY <1>1, <2>2, ProcessNoBan DEF Proc
  <2>3. ASSUME NEW w \in Worker, WorkerStep(w) PROVE \A p \in Proc : NoBanIP(proc'[p])
    BY <1>1, <2>3, WorkerNoBan DEF Proc
  <2>4. ASSUME Tick \/ UNCHANGED vars PROVE \A p \in Proc : NoBanIP(proc'[p])
    BY <2>4 DEF Tick, vars, EscalationInv
  <2>5. ASSUME NEW e \in Instance, Restart(e) PROVE \A p \in Proc : NoBanIP(proc'[p])
    <3>1. \A p \in Proc : proc'[p] \in {proc[p], Idle}
      BY <2>5 DEF Restart
    <3> QED BY <3>1 DEF EscalationInv, NoBanIP, Idle
  <2> QED BY <2>1, <2>2, <2>3, <2>4, <2>5 DEF Next
<1>3. ASSUME NEW i \in IP, Live(att'[i]), Live(bl'[i])
      PROVE  bl'[i].exp <= clock' + BackoffTTL(att'[i].v, Cfg)
  <2>1. EscalationMoves(i)
    BY EscalationSteps
  <2>2. /\ clock \in Nat /\ att[i].v \in Nat /\ bl[i].exp \in Nat
        /\ \A n \in Nat : BackoffTTL(n, Cfg) \in Nat
    BY Durations DEF TypeOK, RedisOK, RedisKey
  <2>3. CASE att'[i] = att[i] /\ bl'[i] = bl[i] /\ clock' \in {clock, clock + 1}
    <3>1. bl[i].exp <= clock + BackoffTTL(att[i].v, Cfg) /\ BackoffTTL(att[i].v, Cfg) \in Nat
      BY <1>3, <2>2, <2>3 DEF EscalationInv
    <3> QED BY <2>2, <2>3, <3>1
  <2>4. CASE /\ bl'[i].exp = clock + BackoffTTL(att[i].v + 1, Cfg)
             /\ att'[i].v = att[i].v + 1 /\ clock' = clock
    <3>1. BackoffTTL(att[i].v + 1, Cfg) \in Nat
      BY <2>2
    <3> QED BY <2>2, <2>4, <3>1
  <2> QED BY <1>3, <2>1, <2>3, <2>4 DEF EscalationMoves, Live, Absent
<1> QED BY <1>2, <1>3 DEF EscalationInv

\* Exponential backoff: where reputation is the only one to ban and its levels ascend,
\* no step shortens a ban while the attempts before it are remembered, whatever replies of
\* reputationLua are lost and however the workers of several instances interleave.
THEOREM BansEscalate == ASSUME ReputationBansAlone PROVE Spec => BanEscalates
<1> DEFINE A == \A i \in IP : (Live(att[i]) /\ Live(att'[i]) /\ Live(bl[i]) /\ Live(bl'[i]))
                              => bl'[i].exp >= bl[i].exp
<1>1. Init => EscalationInv
  BY DEF Init, EscalationInv, NoBanIP, Idle, Absent, Live
<1>2. KeyInv /\ EscalationInv /\ [Next]_vars => EscalationInv'
  BY EscalationStep DEF KeyInv
<1>3. ASSUME TypeOK, SoundInv, EscalationInv, [Next]_vars, NEW i \in IP,
             Live(att[i]), Live(att'[i]), Live(bl[i]), Live(bl'[i])
      PROVE  bl'[i].exp >= bl[i].exp
  <2>1. EscalationMoves(i)
    BY <1>3, EscalationSteps
  <2>2. /\ clock \in Nat /\ att[i].v \in Nat /\ bl[i].exp \in Nat /\ att[i].v # 0
        /\ bl[i].exp <= clock + BackoffTTL(att[i].v, Cfg)
    BY <1>3 DEF TypeOK, RedisOK, RedisKey, EscalationInv, Live
  <2>3. CASE bl'[i] = bl[i]
    BY <2>2, <2>3
  <2>4. CASE bl'[i].exp = clock + BackoffTTL(att[i].v + 1, Cfg)
    BY <2>2, <2>4, BackoffGrows
  <2> QED BY <1>3, <2>1, <2>3, <2>4 DEF EscalationMoves, Live, Absent
<1>4. KeyInv /\ EscalationInv /\ [Next]_vars => [A]_vars
  BY <1>3 DEF KeyInv
<1> QED BY <1>1, <1>2, <1>4, KeyInvariant, PTL DEF Spec, BanEscalates
=============================================================================
