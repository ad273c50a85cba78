------------------------ MODULE BehaviorTrackerProofs ------------------------
(***************************************************************************)
(* The behaviour tracker scores no address for nothing and misses no       *)
(* burst, for every window, thresholds, requests and order of observation. *)
(***************************************************************************)
EXTENDS BehaviorTracker, FiniteSetTheorems, TLAPS

-----------------------------------------------------------------------------
(* Types *)

ipBehavior == [expiresAt : Nat, queries : SUBSET {q.query : q \in Request},
               headers : SUBSET UNION {headerSignature(q.hdr) : q \in Request}]

\* No instant is before 1 and nothing carries one after the clock.
TrackerTypes ==
  /\ clock \in 1..MaxTime
  /\ store \in [IP -> ipBehavior]
  /\ \A s \in inflight : s.req \in Request /\ s.ts \in 1..clock
  /\ \A o \in observed : o.ts \in 1..clock /\ o.at \in 1..clock

\* What was observed is finite, and so is everything counted in it.
FiniteInv == IsFiniteSet(Queries(observed)) /\ IsFiniteSet(Signatures(observed))

\* The numbers of the configuration.
LEMMA Numbers ==
  /\ RiskWindow \in Nat /\ RiskWindow >= 1 /\ MaxTime \in Nat /\ MaxTime >= 1
  /\ QueryDiversityThreshold \in Nat /\ QueryDiversityThreshold >= 1
  /\ HeaderDiversityThreshold \in Nat /\ HeaderDiversityThreshold >= 1
  /\ DiversityWeight \in Nat /\ DiversityWeight >= 1
BY TrackerAssumption

\* What observe makes of entry e for a request of instant ts: n, which is e with the
\* request noted, or a new entry with nothing else in it.
NotedIn(e, n, query, sig, ts) ==
  \/ /\ ts > e.expiresAt /\ n.expiresAt = ts + RiskWindow
     /\ n.queries = {query} \ {NoQuery} /\ n.headers = {sig} \ {<<>>}
  \/ /\ ts <= e.expiresAt /\ n.expiresAt = e.expiresAt
     /\ n.queries = e.queries \cup ({query} \ {NoQuery})
     /\ n.headers = e.headers \cup ({sig} \ {<<>>})

\* observe does that.
LEMMA NotedEntry ==
  ASSUME NEW ip, store[ip] \in ipBehavior, NEW ts \in Nat, NEW query, NEW sig
  PROVE  NotedIn(store[ip], Noted(Entry(ip, ts), query, sig), query, sig, ts)
<1> DEFINE e == store[ip]
           f == [expiresAt |-> ts + RiskWindow, queries |-> {}, headers |-> {}]
<1>1. e.expiresAt \in Nat
  BY DEF ipBehavior
<1>2. CASE ts > e.expiresAt
  <2>1. Entry(ip, ts) = f
    BY <1>2 DEF Entry, Absent
  <2>2. Noted(f, query, sig).expiresAt = ts + RiskWindow
    BY DEF Noted
  <2>3. Noted(f, query, sig).queries = {query} \ {NoQuery}
    BY DEF Noted
  <2>4. Noted(f, query, sig).headers = {sig} \ {<<>>}
    BY DEF Noted
  <2> QED BY <1>2, <2>1, <2>2, <2>3, <2>4 DEF NotedIn
<1>3. CASE ts <= e.expiresAt
  <2>1. Entry(ip, ts) = e
    BY <1>1, <1>3 DEF Entry
  <2>2. Noted(e, query, sig).expiresAt = e.expiresAt
    BY DEF Noted, ipBehavior
  <2>3. Noted(e, query, sig).queries = e.queries \cup ({query} \ {NoQuery})
    BY DEF Noted, ipBehavior
  <2>4. Noted(e, query, sig).headers = e.headers \cup ({sig} \ {<<>>})
    BY DEF Noted, ipBehavior
  <2> QED BY <1>3, <2>1, <2>2, <2>3, <2>4 DEF NotedIn
<1> QED BY <1>1, <1>2, <1>3

\* What a call of observe for snapshot s and signature sig did: observation o was added.
Did(s, sig, o) ==
  LET ip == s.req.ip
  IN  /\ observed' = observed \cup {o} /\ clock' = clock /\ inflight' \subseteq inflight
      /\ o.ip = ip /\ o.query = s.req.query /\ o.sig = sig /\ o.ts = s.ts /\ o.at = clock
      /\ ip = NoIP => store' = store /\ o.qscore = 0 /\ o.hscore = 0
      /\ ip # NoIP => /\ ip \in IP /\ \A j \in IP \ {ip} : store'[j] = store[j]
                      /\ NotedIn(store[ip], store'[ip], s.req.query, sig, s.ts)
                      /\ o.qscore = QueryScore(store'[ip])
                      /\ o.hscore = HeaderScore(store'[ip])

\* A call of observe does that.
LEMMA ObserveDid ==
  ASSUME TrackerTypes, NEW s \in inflight, NEW sig, observe(s, sig)
  PROVE  \E o : Did(s, sig, o)
<1> DEFINE ip == s.req.ip
           n == Noted(Entry(ip, s.ts), s.req.query, sig)
           o == [ip |-> ip, query |-> s.req.query, sig |-> sig, ts |-> s.ts, at |-> clock,
                 qscore |-> IF ip = NoIP THEN 0 ELSE QueryScore(n),
                 hscore |-> IF ip = NoIP THEN 0 ELSE HeaderScore(n)]
<1>1. /\ observed' = observed \cup {o} /\ clock' = clock /\ inflight' = inflight \ {s}
      /\ store' = IF ip = NoIP THEN store ELSE [store EXCEPT ![ip] = n]
  BY DEF observe
<1>2. /\ o.ip = ip /\ o.query = s.req.query /\ o.sig = sig /\ o.ts = s.ts /\ o.at = clock
      /\ o.qscore = IF ip = NoIP THEN 0 ELSE QueryScore(n)
      /\ o.hscore = IF ip = NoIP THEN 0 ELSE HeaderScore(n)
  OBVIOUS
<1>3. s.ts \in Nat /\ (ip # NoIP => ip \in IP)
  BY RequestAssumption DEF TrackerTypes
<1>4. ip # NoIP => NotedIn(store[ip], n, s.req.query, sig, s.ts)
  BY <1>3, NotedEntry DEF TrackerTypes
<1> HIDE DEF n, o
<1>5. ip # NoIP => store'[ip] = n /\ \A j \in IP \ {ip} : store'[j] = store[j]
  BY <1>1, <1>3 DEF TrackerTypes
<1>6. Did(s, sig, o)
  BY <1>1, <1>2, <1>3, <1>4, <1>5 DEF Did
<1> QED BY <1>6

\* The types hold in every state.
LEMMA TypesStep == TrackerTypes /\ [Next]_btVars => TrackerTypes'
<1> SUFFICES ASSUME TrackerTypes, [Next]_btVars PROVE TrackerTypes'
  OBVIOUS
<1>0. clock \in Nat /\ MaxTime \in Nat
  BY Numbers DEF TrackerTypes
<1>1. ASSUME NEW q \in Request, Take(q) PROVE TrackerTypes'
  <2>1. /\ inflight' = inflight \cup {[req |-> q, ts |-> clock]}
        /\ UNCHANGED <<clock, store, observed>>
    BY <1>1 DEF Take
  <2> QED BY <2>1 DEF TrackerTypes
<1>2. ASSUME NEW s \in inflight, NEW sig \in headerSignature(s.req.hdr), observe(s, sig)
      PROVE  TrackerTypes'
  <2> DEFINE ip == s.req.ip
             Q == {q.query : q \in Request}
             H == UNION {headerSignature(q.hdr) : q \in Request}
  <2>1. PICK o : Did(s, sig, o)
    BY <1>2, ObserveDid
  <2>2. /\ observed' = observed \cup {o} /\ clock' = clock /\ inflight' \subseteq inflight
        /\ o.ts = s.ts /\ o.at = clock
    BY <2>1 DEF Did
  <2>3. s.req \in Request /\ s.ts \in 1..clock /\ s.ts \in Nat /\ s.req.query \in Q /\ sig \in H
    BY <1>2 DEF TrackerTypes
  <2>4. store' \in [IP -> ipBehavior]
    <3>1. CASE ip = NoIP
      BY <2>1, <3>1 DEF Did, TrackerTypes
    <3>2. CASE ip # NoIP
      <4> DEFINE e == store[ip]
                 n == Noted(Entry(ip, s.ts), s.req.query, sig)
      <4>1. ip \in IP /\ e \in ipBehavior
        BY <2>1, <3>2 DEF Did, TrackerTypes
      <4>2. Entry(ip, s.ts) \in ipBehavior
        BY <2>3, <4>1, Numbers DEF Entry, Absent, ipBehavior
      <4>3. n \in ipBehavior
        <5> HIDE DEF Q, H
        <5>1. ASSUME NEW x \in [expiresAt : Nat, queries : SUBSET Q, headers : SUBSET H]
              PROVE  Noted(x, s.req.query, sig) \in [expiresAt : Nat, queries : SUBSET Q, headers : SUBSET H]
          BY <2>3 DEF Noted
        <5> QED BY <4>2, <5>1 DEF ipBehavior, Q, H
      <4>4. store' = [store EXCEPT ![ip] = n]
        BY <1>2, <3>2 DEF observe
      <4> HIDE DEF n
      <4> QED BY <4>1, <4>3, <4>4 DEF TrackerTypes
    <3> QED BY <3>1, <3>2
  <2>5. /\ \A x \in inflight' : x.req \in Request /\ x.ts \in 1..clock
        /\ \A x \in observed' : x.ts \in 1..clock /\ x.at \in 1..clock
    BY <1>0, <2>2, <2>3 DEF TrackerTypes
  <2> QED BY <2>2, <2>4, <2>5 DEF TrackerTypes
<1>3. CASE Tick
  <2>1. clock' = clock + 1 /\ clock < MaxTime /\ UNCHANGED <<store, inflight, observed>>
    BY <1>3 DEF Tick
  <2> QED BY <1>0, <2>1 DEF TrackerTypes
<1>4. CASE UNCHANGED btVars
  BY <1>4 DEF TrackerTypes, btVars
<1> QED BY <1>1, <1>2, <1>3, <1>4 DEF Next

\* One more observation leaves what was observed finite.
LEMMA FiniteStep == TrackerTypes /\ FiniteInv /\ [Next]_btVars => FiniteInv'
<1> SUFFICES ASSUME TrackerTypes, FiniteInv, [Next]_btVars PROVE FiniteInv'
  OBVIOUS
<1>1. CASE UNCHANGED observed
  BY <1>1 DEF FiniteInv, Queries, Signatures
<1>2. ASSUME NEW s \in inflight, NEW sig, observe(s, sig) PROVE FiniteInv'
  <2>1. PICK o : Did(s, sig, o)
    BY <1>2, ObserveDid
  <2>2. observed' = observed \cup {o}
    BY <2>1 DEF Did
  <2>3. /\ Queries(observed)' \subseteq Queries(observed) \cup {o.query}
        /\ Signatures(observed)' \subseteq Signatures(observed) \cup {o.sig}
    BY <2>2 DEF Queries, Signatures
  <2>4. /\ IsFiniteSet(Queries(observed) \cup {o.query})
        /\ IsFiniteSet(Signatures(observed) \cup {o.sig})
    BY FS_AddElement DEF FiniteInv
  <2> QED BY <2>3, <2>4, FS_Subset DEF FiniteInv
<1> QED BY <1>1, <1>2 DEF Next, Take, Tick, btVars

-----------------------------------------------------------------------------
(* A score is justified *)

\* UnderWay in a given set of observations.
InWindow(obs, i, t) == {p \in obs : p.ip = i /\ p.at >= t /\ p.ts <= t + RiskWindow}

\* What entry e of address i holds was under way in obs during the RiskWindow from t on,
\* that ends with it.
Holds(e, obs, i, t) ==
  /\ e.expiresAt = t + RiskWindow
  /\ e.queries \subseteq Queries(InWindow(obs, i, t))
  /\ e.headers \subseteq Signatures(InWindow(obs, i, t))

\* Entry e is such an entry, or absent.
EntryOK(e, obs, i, now) ==
  \/ e.expiresAt = 0 /\ e.queries = {} /\ e.headers = {}
  \/ \E t \in 1..now : Holds(e, obs, i, t)

\* The scores of observation o were earned by what was under way at its address in obs.
Earned(o, obs) ==
  /\ o.qscore > 0 => \E t \in 1..MaxTime :
       o.ip # NoIP /\ Cardinality(Queries(InWindow(obs, o.ip, t))) >= QueryDiversityThreshold
  /\ o.hscore > 0 => \E t \in 1..MaxTime :
       o.ip # NoIP /\ Cardinality(Signatures(InWindow(obs, o.ip, t))) >= HeaderDiversityThreshold

JustInv == /\ TrackerTypes /\ FiniteInv
           /\ \A i \in IP \ {NoIP} : EntryOK(store[i], observed, i, clock)
           /\ \A o \in observed : Earned(o, observed)

\* What is under way grows with the observations.
LEMMA WindowGrows ==
  ASSUME NEW obs, NEW more, obs \subseteq more, NEW i, NEW t
  PROVE  /\ Queries(InWindow(obs, i, t)) \subseteq Queries(InWindow(more, i, t))
         /\ Signatures(InWindow(obs, i, t)) \subseteq Signatures(InWindow(more, i, t))
BY DEF Queries, Signatures, InWindow

\* It is finite, and counts no less than what it covers.
LEMMA WindowCounts ==
  ASSUME NEW obs, IsFiniteSet(Queries(obs)), IsFiniteSet(Signatures(obs)), NEW i, NEW t,
         NEW N \in Nat, NEW S, Cardinality(S) >= N
  PROVE  /\ S \subseteq Queries(InWindow(obs, i, t)) => Cardinality(Queries(InWindow(obs, i, t))) >= N
         /\ S \subseteq Signatures(InWindow(obs, i, t)) => Cardinality(Signatures(InWindow(obs, i, t))) >= N
<1> DEFINE Q == Queries(InWindow(obs, i, t))
           H == Signatures(InWindow(obs, i, t))
<1>1. Q \subseteq Queries(obs) /\ H \subseteq Signatures(obs)
  BY DEF Queries, Signatures, InWindow
<1>2. IsFiniteSet(Q) /\ IsFiniteSet(H)
  BY <1>1, FS_Subset
<1> HIDE DEF Q, H
<1>3. ASSUME NEW U, IsFiniteSet(U), S \subseteq U PROVE Cardinality(U) >= N
  <2>1. IsFiniteSet(S) /\ Cardinality(S) <= Cardinality(U)
    BY <1>3, FS_Subset
  <2>2. Cardinality(S) \in Nat /\ Cardinality(U) \in Nat
    BY <1>3, <2>1, FS_CardinalityType
  <2> QED BY <2>1, <2>2
<1>4. (S \subseteq Q => Cardinality(Q) >= N) /\ (S \subseteq H => Cardinality(H) >= N)
  BY <1>2, <1>3
<1> QED BY <1>4 DEF Q, H

\* So entries and scores stay right when observations are added and time passes.
LEMMA RightStays ==
  ASSUME NEW obs, NEW more, obs \subseteq more,
         IsFiniteSet(Queries(more)), IsFiniteSet(Signatures(more))
  PROVE  /\ \A e, i, t : Holds(e, obs, i, t) => Holds(e, more, i, t)
         /\ \A o : Earned(o, obs) => Earned(o, more)
<1>1. \A e, i, t : Holds(e, obs, i, t) => Holds(e, more, i, t)
  <2> SUFFICES ASSUME NEW e, NEW i, NEW t, Holds(e, obs, i, t) PROVE Holds(e, more, i, t)
    OBVIOUS
  <2>1. /\ Queries(InWindow(obs, i, t)) \subseteq Queries(InWindow(more, i, t))
        /\ Signatures(InWindow(obs, i, t)) \subseteq Signatures(InWindow(more, i, t))
    BY WindowGrows
  <2> QED BY <2>1 DEF Holds
<1>2. ASSUME NEW i, NEW t, NEW N \in Nat
      PROVE  /\ Cardinality(Queries(InWindow(obs, i, t))) >= N
                => Cardinality(Queries(InWindow(more, i, t))) >= N
             /\ Cardinality(Signatures(InWindow(obs, i, t))) >= N
                => Cardinality(Signatures(InWindow(more, i, t))) >= N
  BY WindowGrows, WindowCounts
<1>3. \A o : Earned(o, obs) => Earned(o, more)
  BY <1>2, Numbers DEF Earned
<1> QED BY <1>1, <1>3

\* The entry an observation leaves holds what was under way in its window.
LEMMA EntryStep ==
  ASSUME TrackerTypes, FiniteInv', NEW s \in inflight, NEW sig, NEW o, Did(s, sig, o), s.req.ip # NoIP,
         EntryOK(store[s.req.ip], observed, s.req.ip, clock)
  PROVE  \E t \in 1..clock : Holds(store'[s.req.ip], observed', s.req.ip, t)
<1> DEFINE i == s.req.ip
           e == store[i]
           n == store'[i]
<1>0. /\ clock \in Nat /\ s.ts \in 1..clock /\ RiskWindow \in Nat /\ e.expiresAt \in Nat
      /\ o.ip = i /\ o.query = s.req.query /\ o.sig = sig /\ o.ts = s.ts /\ o.at = clock
      /\ observed' = observed \cup {o}
      /\ NotedIn(e, n, o.query, o.sig, s.ts)
  BY Numbers DEF Did, TrackerTypes, ipBehavior
<1>1. ASSUME NEW t \in 1..clock, s.ts <= t + RiskWindow
      PROVE  /\ {o.query} \ {NoQuery} \subseteq Queries(InWindow(observed', i, t))
             /\ {o.sig} \ {<<>>} \subseteq Signatures(InWindow(observed', i, t))
  <2>1. o \in InWindow(observed', i, t)
    BY <1>0, <1>1 DEF InWindow
  <2> QED BY <2>1 DEF Queries, Signatures
<1>2. CASE s.ts > e.expiresAt
  <2>1. /\ n.expiresAt = s.ts + RiskWindow
        /\ n.queries = {o.query} \ {NoQuery} /\ n.headers = {o.sig} \ {<<>>}
    BY <1>0, <1>2 DEF NotedIn
  <2>2. s.ts <= s.ts + RiskWindow
    BY <1>0
  <2> QED BY <1>0, <1>1, <2>1, <2>2 DEF Holds
<1>3. CASE s.ts <= e.expiresAt
  <2>1. /\ n.expiresAt = e.expiresAt
        /\ n.queries = e.queries \cup ({o.query} \ {NoQuery})
        /\ n.headers = e.headers \cup ({o.sig} \ {<<>>})
    BY <1>0, <1>3 DEF NotedIn
  <2>2. PICK t \in 1..clock : Holds(e, observed, i, t)
    BY <1>0, <1>3 DEF EntryOK
  <2>3. Holds(e, observed', i, t)
    BY <1>0, <2>2, RightStays DEF FiniteInv
  <2>4. /\ {o.query} \ {NoQuery} \subseteq Queries(InWindow(observed', i, t))
        /\ {o.sig} \ {<<>>} \subseteq Signatures(InWindow(observed', i, t))
    BY <1>1, <1>3, <2>3 DEF Holds
  <2> QED BY <2>1, <2>3, <2>4 DEF Holds
<1> QED BY <1>0, <1>2, <1>3

\* The scores of an observation are those of the entry it leaves.
LEMMA ScoreStep ==
  ASSUME TrackerTypes, FiniteInv', NEW s \in inflight, NEW sig, NEW o, Did(s, sig, o),
         s.req.ip # NoIP => \E t \in 1..clock : Holds(store'[s.req.ip], observed', s.req.ip, t)
  PROVE  Earned(o, observed')
<1> DEFINE i == s.req.ip
           n == store'[i]
<1>1. o.ip = i /\ \A t \in 1..clock : t \in 1..MaxTime
  BY Numbers DEF Did, TrackerTypes
<1>2. CASE i = NoIP
  BY <1>1, <1>2 DEF Did, Earned
<1>3. CASE i # NoIP
  <2>1. PICK t \in 1..clock : Holds(n, observed', i, t)
    BY <1>3
  <2>2. o.qscore = QueryScore(n) /\ o.hscore = HeaderScore(n)
    BY <1>3 DEF Did
  <2>3. /\ o.qscore > 0 => Cardinality(n.queries) >= QueryDiversityThreshold
        /\ o.hscore > 0 => Cardinality(n.headers) >= HeaderDiversityThreshold
    BY <2>2 DEF QueryScore, HeaderScore
  <2>4. /\ o.qscore > 0
           => Cardinality(Queries(InWindow(observed', i, t))) >= QueryDiversityThreshold
        /\ o.hscore > 0
           => Cardinality(Signatures(InWindow(observed', i, t))) >= HeaderDiversityThreshold
    BY <2>1, <2>3, WindowCounts, Numbers DEF FiniteInv, Holds
  <2> QED BY <1>1, <1>3, <2>4 DEF Earned
<1> QED BY <1>2, <1>3

\* Every step keeps the entries within their windows and the scores earned.
LEMMA JustStep == JustInv /\ [Next]_btVars => JustInv'
<1> SUFFICES ASSUME JustInv, [Next]_btVars PROVE JustInv'
  OBVIOUS
<1>0. TrackerTypes /\ FiniteInv /\ TrackerTypes' /\ FiniteInv' /\ clock \in Nat /\ clock' \in Nat
  <2>1. TrackerTypes /\ FiniteInv /\ TrackerTypes' /\ FiniteInv'
    BY TypesStep, FiniteStep DEF JustInv
  <2> QED BY <2>1, Numbers DEF TrackerTypes
<1>1. ASSUME UNCHANGED <<store, observed>>, clock <= clock' PROVE JustInv'
  <2>1. \A t \in 1..clock : t \in 1..clock'
    BY <1>0, <1>1
  <2>2. \A i \in IP \ {NoIP} : EntryOK(store'[i], observed', i, clock')
    BY <1>1, <2>1 DEF JustInv, EntryOK
  <2> QED BY <1>0, <1>1, <2>2 DEF JustInv
<1>2. ASSUME NEW s \in inflight, NEW sig, observe(s, sig) PROVE JustInv'
  <2> DEFINE ip == s.req.ip
  <2>1. PICK o : Did(s, sig, o)
    BY <1>0, <1>2, ObserveDid
  <2>2. observed' = observed \cup {o} /\ clock' = clock
    BY <2>1 DEF Did
  <2>3. /\ \A e, i, t : Holds(e, observed, i, t) => Holds(e, observed', i, t)
        /\ \A p : Earned(p, observed) => Earned(p, observed')
    BY <1>0, <2>2, RightStays DEF FiniteInv
  <2>4. ip # NoIP => \E t \in 1..clock : Holds(store'[ip], observed', ip, t)
    <3>1. ip # NoIP => EntryOK(store[ip], observed, ip, clock)
      BY <2>1 DEF Did, JustInv
    <3> QED BY <1>0, <2>1, <3>1, EntryStep
  <2>5. ASSUME NEW i \in IP \ {NoIP} PROVE EntryOK(store'[i], observed', i, clock')
    <3>1. CASE i = ip
      BY <2>2, <2>4, <3>1 DEF EntryOK
    <3>2. CASE i # ip
      <4>1. store'[i] = store[i]
        BY <2>1, <3>2 DEF Did
      <4>2. EntryOK(store[i], observed, i, clock)
        BY DEF JustInv
      <4> QED BY <2>2, <2>3, <4>1, <4>2 DEF EntryOK
    <3> QED BY <3>1, <3>2
  <2>6. \A p \in observed' : Earned(p, observed')
    <3>1. Earned(o, observed')
      BY <1>0, <2>1, <2>4, ScoreStep
    <3> QED BY <2>2, <2>3, <3>1 DEF JustInv
  <2> QED BY <1>0, <2>5, <2>6 DEF JustInv
<1>3. ASSUME NEW q \in Request, Take(q) PROVE JustInv'
  BY <1>0, <1>1, <1>3 DEF Take
<1>4. CASE Tick
  BY <1>0, <1>1, <1>4 DEF Tick
<1>5. CASE UNCHANGED btVars
  BY <1>0, <1>1, <1>5 DEF btVars
<1> QED BY <1>2, <1>3, <1>4, <1>5 DEF Next

\* Init establishes it.
LEMMA JustInit == Init => JustInv
<1> SUFFICES ASSUME Init PROVE JustInv
  OBVIOUS
<1>1. clock = 1 /\ inflight = {} /\ observed = {} /\ \A i \in IP : store[i] = Absent
  BY DEF Init
<1>2. Absent \in ipBehavior
  BY DEF Absent, ipBehavior
<1>3. TrackerTypes
  BY <1>1, <1>2, Numbers DEF TrackerTypes, Init
<1>4. FiniteInv
  <2>1. Queries(observed) = {} /\ Signatures(observed) = {}
    BY <1>1 DEF Queries, Signatures
  <2> QED BY <2>1, FS_EmptySet DEF FiniteInv
<1>5. \A i \in IP \ {NoIP} : EntryOK(store[i], observed, i, clock)
  BY <1>1 DEF EntryOK, Absent
<1> QED BY <1>1, <1>3, <1>4, <1>5 DEF JustInv

\* The entries and the scores of the tracker are right in every state.
THEOREM TrackerInvariant == Spec => []JustInv
BY JustInit, JustStep, PTL DEF Spec

\* observe adds risk only to an address of which as many distinct queries, or header
\* signatures, as the threshold says were under way during one RiskWindow, for every
\* order and delay in which the workers observe their snapshots.
THEOREM ScoresJustified == Spec => []ScoreJustified
<1>1. \A i, t : InWindow(observed, i, t) = UnderWay(i, t)
  BY DEF InWindow, UnderWay
<1>2. JustInv => ScoreJustified
  BY <1>1 DEF JustInv, Earned, ScoreJustified
<1> QED BY <1>2, TrackerInvariant, PTL

-----------------------------------------------------------------------------
(* A burst is noticed *)

\* Burst in a given set of observations.
BurstIn(obs, i, t) == {o \in obs : o.ip = i /\ o.ts >= t /\ o.at <= t + RiskWindow}

\* Burst B since t, of an address whose entry is now e, is spread thinly: its queries are
\* split into X and the others, both below the threshold.  While the burst may still
\* grow, the others are in e.  X is empty as long as all of the burst is in one entry;
\* else e was opened after the first entry of the burst, so it outlasts the burst.
Spread(e, B, t, now) ==
  \E X \in SUBSET Queries(B) :
    /\ Cardinality(X) <= QueryDiversityThreshold - 1
    /\ Cardinality(Queries(B) \ X) <= QueryDiversityThreshold - 1
    /\ \/ now > t + RiskWindow
       \/ /\ Queries(B) \ X \subseteq e.queries
          /\ \/ e.expiresAt > t + RiskWindow
             \/ X = {} /\ (B = {} \/ e.expiresAt >= t)

\* Every burst has a scored observation or is spread thinly.
BurstInv ==
  \A i \in IP \ {NoIP}, t \in Nat :
    \/ \E o \in BurstIn(observed, i, t) : o.qscore > 0
    \/ Spread(store[i], BurstIn(observed, i, t), t, clock)

\* A thinly spread burst has fewer queries than BurstNoticed asks for.
LEMMA SpreadCounts ==
  ASSUME NEW e, NEW B, NEW t, NEW now, IsFiniteSet(Queries(B)), Spread(e, B, t, now)
  PROVE  Cardinality(Queries(B)) < 2 * QueryDiversityThreshold - 1
<1> DEFINE Q == Queries(B)
<1>1. PICK X \in SUBSET Q : /\ Cardinality(X) <= QueryDiversityThreshold - 1
                            /\ Cardinality(Q \ X) <= QueryDiversityThreshold - 1
  BY DEF Spread
<1> HIDE DEF Q
<1>2. IsFiniteSet(Q)
  BY DEF Q
<1>3. /\ IsFiniteSet(X) /\ IsFiniteSet(Q \ X)
      /\ Cardinality(Q \ X) = Cardinality(Q) - Cardinality(Q \cap X)
  BY <1>2, FS_Subset, FS_Difference
<1>4. Q \cap X = X
  OBVIOUS
<1>5. /\ Cardinality(X) \in Nat /\ Cardinality(Q) \in Nat
      /\ Cardinality(Q \ X) = Cardinality(Q) - Cardinality(X)
  BY <1>2, <1>3, <1>4, FS_CardinalityType
<1>6. Cardinality(Q) < 2 * QueryDiversityThreshold - 1
  BY <1>1, <1>5, Numbers
<1> QED BY <1>6 DEF Q

\* An observation that joins the burst, and is not scored, leaves it spread thinly.
LEMMA SpreadJoin ==
  ASSUME NEW e, NEW n, NEW B, NEW o, NEW t \in Nat, NEW now \in Nat,
         IsFiniteSet(Queries(B)), e.expiresAt \in Nat, o.ts \in Nat,
         NotedIn(e, n, o.query, o.sig, o.ts), t <= o.ts, o.ts <= now, now <= t + RiskWindow,
         IsFiniteSet(n.queries), Cardinality(n.queries) < QueryDiversityThreshold,
         Spread(e, B, t, now)
  PROVE  Spread(n, B \cup {o}, t, now)
<1> DEFINE Q == Queries(B)
           C == Queries(B \cup {o})
<1>0. /\ C = Q \cup ({o.query} \ {NoQuery})
      /\ QueryDiversityThreshold \in Nat /\ QueryDiversityThreshold >= 1 /\ RiskWindow \in Nat
      /\ ~(now > t + RiskWindow)
  BY Numbers DEF Queries
<1>1. PICK X \in SUBSET Q :
        /\ Cardinality(X) <= QueryDiversityThreshold - 1
        /\ Cardinality(Q \ X) <= QueryDiversityThreshold - 1
        /\ Q \ X \subseteq e.queries
        /\ \/ e.expiresAt > t + RiskWindow
           \/ X = {} /\ (B = {} \/ e.expiresAt >= t)
  BY <1>0 DEF Spread
<1>2. ASSUME NEW Y, Y \subseteq n.queries PROVE Cardinality(Y) <= QueryDiversityThreshold - 1
  <2>1. /\ IsFiniteSet(Y) /\ Cardinality(Y) <= Cardinality(n.queries)
    BY <1>2, FS_Subset
  <2>2. Cardinality(Y) \in Nat /\ Cardinality(n.queries) \in Nat
    BY <2>1, FS_CardinalityType
  <2> QED BY <1>0, <2>1, <2>2
<1>3. ASSUME NEW Y \in SUBSET C, Cardinality(Y) <= QueryDiversityThreshold - 1,
             C \ Y \subseteq n.queries,
             n.expiresAt > t + RiskWindow \/ (Y = {} /\ n.expiresAt >= t)
      PROVE  Spread(n, B \cup {o}, t, now)
  <2>1. Cardinality(C \ Y) <= QueryDiversityThreshold - 1
    BY <1>2, <1>3
  <2> QED BY <1>3, <2>1 DEF Spread
<1> HIDE DEF Q, C
<1>4. CASE o.ts <= e.expiresAt
  <2>1. /\ n.expiresAt = e.expiresAt
        /\ n.queries = e.queries \cup ({o.query} \ {NoQuery})
    BY <1>4 DEF NotedIn
  <2>2. X \in SUBSET C /\ C \ X \subseteq n.queries
    BY <1>0, <1>1, <2>1
  <2>3. n.expiresAt > t + RiskWindow \/ (X = {} /\ n.expiresAt >= t)
    BY <1>1, <1>4, <2>1
  <2> QED BY <1>1, <1>3, <2>2, <2>3
<1>5. CASE o.ts > e.expiresAt
  <2>1. n.expiresAt = o.ts + RiskWindow /\ n.queries = {o.query} \ {NoQuery}
    BY <1>5 DEF NotedIn
  <2>2. X = {} /\ (B = {} \/ e.expiresAt >= t)
    BY <1>0, <1>1, <1>5
  <2>3. CASE B = {}
    <3>1. Q = {}
      BY <2>3 DEF Q, Queries
    <3>2. /\ X \in SUBSET C /\ C \ X \subseteq n.queries
          /\ X = {} /\ n.expiresAt >= t
      BY <1>0, <2>1, <2>2, <3>1
    <3> QED BY <1>1, <1>3, <3>2
  <2>4. CASE e.expiresAt >= t
    <3>1. Cardinality(Q) <= QueryDiversityThreshold - 1
      <4>1. Q \ X = Q
        BY <2>2
      <4> QED BY <1>1, <4>1
    <3>2. Q \in SUBSET C /\ C \ Q \subseteq n.queries /\ n.expiresAt > t + RiskWindow
      BY <1>0, <1>5, <2>1, <2>4
    <3> QED BY <1>3, <3>1, <3>2
  <2> QED BY <2>2, <2>3, <2>4
<1> QED BY <1>4, <1>5

\* So does one that does not join it.
LEMMA SpreadPass ==
  ASSUME NEW e, NEW n, NEW B, NEW o, NEW t \in Nat, NEW now \in Nat,
         e.expiresAt \in Nat, o.ts \in Nat,
         NotedIn(e, n, o.query, o.sig, o.ts), o.ts < t \/ now > t + RiskWindow,
         Spread(e, B, t, now)
  PROVE  Spread(n, B, t, now)
<1>1. CASE now > t + RiskWindow
  BY <1>1 DEF Spread
<1>2. CASE o.ts < t /\ ~(now > t + RiskWindow)
  <2>1. PICK X \in SUBSET Queries(B) :
          /\ Cardinality(X) <= QueryDiversityThreshold - 1
          /\ Cardinality(Queries(B) \ X) <= QueryDiversityThreshold - 1
          /\ Queries(B) \ X \subseteq e.queries
          /\ \/ e.expiresAt > t + RiskWindow
             \/ X = {} /\ (B = {} \/ e.expiresAt >= t)
    BY <1>2 DEF Spread
  <2>2. CASE o.ts <= e.expiresAt
    <3>1. n.expiresAt = e.expiresAt /\ e.queries \subseteq n.queries
      BY <2>2 DEF NotedIn
    <3> QED BY <2>1, <3>1 DEF Spread
  <2>3. CASE o.ts > e.expiresAt
    <3>1. X = {} /\ B = {}
      BY <1>2, <2>1, <2>3, Numbers
    <3>2. Queries(B) = {}
      BY <3>1 DEF Queries
    <3> QED BY <2>1, <3>1, <3>2 DEF Spread
  <2> QED BY <2>2, <2>3
<1> QED BY <1>1, <1>2

\* Every step keeps the bursts noticed or spread thinly.
LEMMA BurstStep ==
  ASSUME JustInv, JustInv', BurstInv, [Next]_btVars
  PROVE  BurstInv'
<1>0. TrackerTypes /\ FiniteInv /\ FiniteInv' /\ clock \in Nat /\ clock' \in Nat
  BY Numbers DEF JustInv, TrackerTypes
<1>1. ASSUME UNCHANGED <<store, observed>>, clock <= clock' PROVE BurstInv'
  <2>1. \A t \in Nat : clock > t + RiskWindow => clock' > t + RiskWindow
    BY <1>0, <1>1, Numbers
  <2> QED BY <1>1, <2>1 DEF BurstInv, Spread
<1>2. ASSUME NEW s \in inflight, NEW sig, observe(s, sig) PROVE BurstInv'
  <2> SUFFICES ASSUME NEW i \in IP \ {NoIP}, NEW t \in Nat,
                      ~\E p \in BurstIn(observed', i, t) : p.qscore > 0
               PROVE  Spread(store'[i], BurstIn(observed', i, t), t, clock')
    BY DEF BurstInv
  <2> DEFINE B == BurstIn(observed, i, t)
             C == BurstIn(observed', i, t)
             e == store[i]
             n == store'[i]
  <2>1. PICK o : Did(s, sig, o)
    BY <1>0, <1>2, ObserveDid
  <2>2. /\ observed' = observed \cup {o} /\ clock' = clock
        /\ o.ip = s.req.ip /\ o.ts = s.ts /\ o.at = clock /\ o.query = s.req.query /\ o.sig = sig
        /\ o.ts \in Nat /\ o.ts <= clock
    BY <1>0, <2>1 DEF Did, TrackerTypes
  <2>3. C = IF o.ip = i /\ o.ts >= t /\ o.at <= t + RiskWindow THEN B \cup {o} ELSE B
    BY <2>2 DEF BurstIn
  <2>4. Spread(e, B, t, clock)
    BY <2>2, <2>3 DEF BurstInv
  <2>5. e.expiresAt \in Nat /\ IsFiniteSet(Queries(B))
    <3>1. Queries(B) \subseteq Queries(observed)
      BY DEF Queries, BurstIn
    <3> QED BY <1>0, <3>1, FS_Subset DEF FiniteInv, TrackerTypes, ipBehavior
  <2>6. CASE o.ip # i
    <3>1. n = e /\ C = B
      BY <2>1, <2>2, <2>3, <2>6 DEF Did
    <3> QED BY <2>2, <2>4, <3>1
  <2>7. CASE o.ip = i
    <3>1. NotedIn(e, n, o.query, o.sig, o.ts) /\ o.qscore = QueryScore(n)
      BY <2>1, <2>2, <2>7 DEF Did
    <3>2. CASE o.ts >= t /\ o.at <= t + RiskWindow
      <4>1. IsFiniteSet(n.queries)
        <5>1. EntryOK(n, observed', i, clock')
          BY DEF JustInv
        <5>2. \A u : Queries(InWindow(observed', i, u)) \subseteq Queries(observed')
          BY DEF Queries, InWindow
        <5>3. n.queries \subseteq Queries(observed')
          BY <5>1, <5>2 DEF EntryOK, Holds
        <5> QED BY <1>0, <5>3, FS_Subset DEF FiniteInv
      <4>2. Cardinality(n.queries) < QueryDiversityThreshold
        <5>1. ~(o.qscore > 0)
          BY <2>3, <2>7, <3>2
        <5>2. Cardinality(n.queries) \in Nat
          BY <4>1, FS_CardinalityType
        <5> QED BY <3>1, <5>1, <5>2, Numbers DEF QueryScore
      <4>3. Spread(n, B \cup {o}, t, clock)
        <5> HIDE DEF B, e, n
        <5> QED BY <1>0, <2>2, <2>4, <2>5, <3>1, <3>2, <4>1, <4>2, SpreadJoin
      <4> QED BY <2>2, <2>3, <2>7, <3>2, <4>3
    <3>3. CASE ~(o.ts >= t /\ o.at <= t + RiskWindow)
      <4>1. o.ts < t \/ clock > t + RiskWindow
        BY <1>0, <2>2, <3>3, Numbers
      <4>2. Spread(n, B, t, clock)
        <5> HIDE DEF B, e, n
        <5> QED BY <1>0, <2>2, <2>4, <2>5, <3>1, <4>1, SpreadPass
      <4> QED BY <2>2, <2>3, <3>3, <4>2
    <3> QED BY <3>2, <3>3
  <2> QED BY <2>6, <2>7
<1>3. ASSUME NEW q \in Request, Take(q) PROVE BurstInv'
  BY <1>0, <1>1, <1>3 DEF Take
<1>4. CASE Tick
  BY <1>0, <1>1, <1>4 DEF Tick
<1>5. CASE UNCHANGED btVars
  BY <1>0, <1>1, <1>5 DEF btVars
<1> QED BY <1>2, <1>3, <1>4, <1>5 DEF Next

\* Windows tumble, and still a burst of twice the threshold less one distinct queries,
\* taken and observed within a RiskWindow, has a scored request, for every order in which
\* the workers observe it and everything else they observe in between.
THEOREM BurstsNoticed == Spec => []BurstNoticed
<1>1. Init => BurstInv
  <2> SUFFICES ASSUME Init, NEW i \in IP \ {NoIP}, NEW t \in Nat
               PROVE  Spread(store[i], BurstIn(observed, i, t), t, clock)
    BY DEF BurstInv
  <2>1. BurstIn(observed, i, t) = {} /\ Queries({}) = {} /\ store[i].queries = {}
    BY DEF Init, BurstIn, Queries, Absent
  <2>2. Cardinality({}) <= QueryDiversityThreshold - 1 /\ {} \ {} = {}
    BY FS_EmptySet, Numbers
  <2> QED BY <2>1, <2>2 DEF Spread
<1>2. JustInv /\ JustInv' /\ BurstInv /\ [Next]_btVars => BurstInv'
  BY BurstStep
<1>3. JustInv /\ BurstInv => BurstNoticed
  <2> SUFFICES ASSUME JustInv, BurstInv, NEW i \in IP \ {NoIP}, NEW t \in 1..MaxTime,
                      ~\E o \in Burst(i, t) : o.qscore > 0
               PROVE  ~(Cardinality(Queries(Burst(i, t))) >= 2 * QueryDiversityThreshold - 1)
    BY DEF BurstNoticed
  <2> DEFINE B == BurstIn(observed, i, t)
  <2>1. B = Burst(i, t) /\ t \in Nat
    BY Numbers DEF BurstIn, Burst
  <2>2. Spread(store[i], B, t, clock)
    BY <2>1 DEF BurstInv
  <2>3. IsFiniteSet(Queries(B))
    <3>1. Queries(B) \subseteq Queries(observed)
      BY DEF Queries, BurstIn
    <3> QED BY <3>1, FS_Subset DEF JustInv, FiniteInv
  <2> HIDE DEF B
  <2>4. Cardinality(Queries(B)) < 2 * QueryDiversityThreshold - 1 /\ Cardinality(Queries(B)) \in Nat
    BY <2>2, <2>3, SpreadCounts, FS_CardinalityType
  <2> QED BY <2>1, <2>4, Numbers
<1> QED BY <1>1, <1>2, <1>3, TrackerInvariant, PTL DEF Spec
=============================================================================
