--------------------------- MODULE BehaviorTracker ---------------------------
(***************************************************************************)
(* behavior_tracker.go: per address, the distinct queries and header       *)
(* signatures of a risk window; many of them add to the risk score.        *)
(*                                                                         *)
(* Workers call observe with the instant at which the request was taken,   *)
(* so the calls come late and in any order.  observe holds the mutex and   *)
(* is one step.  Hashes are taken to be injective: a query is its own      *)
(* hash, and the signature of a header map is the order in which the map   *)
(* was iterated (an empty map has none).                                   *)
(***************************************************************************)
EXTENDS Naturals, FiniteSets, SequencesExt

CONSTANTS
  IP, NoIP,           \* client addresses; NoIP is the empty string
  NoQuery,            \* the empty query
  Request,            \* records [ip, query, hdr]; hdr is the set of captured headers
  RiskWindow, QueryDiversityThreshold, HeaderDiversityThreshold, DiversityWeight,
  MaxTime, MaxTaken   \* bounds for model checking

ASSUME TrackerAssumption ==
  /\ {RiskWindow, QueryDiversityThreshold, HeaderDiversityThreshold, DiversityWeight}
       \subseteq Nat \ {0}
  /\ MaxTime \in Nat \ {0} /\ MaxTaken \in Nat
ASSUME RequestAssumption == \A q \in Request : q.ip \in IP \cup {NoIP}

VARIABLES
  clock,
  store,       \* [IP -> ipBehavior]
  inflight,    \* snapshots that wait to be observed
  taken,       \* how many there were
  observed     \* history: [ip, query, sig, ts, at, qscore, hscore] of every call of observe

btVars == <<clock, store, inflight, taken, observed>>

\* An absent entry is one that has expired: no instant is before 1.
Absent == [expiresAt |-> 0, queries |-> {}, headers |-> {}]

Init ==
  /\ clock = 1
  /\ store = [i \in IP |-> Absent]
  /\ inflight = {} /\ taken = 0
  /\ observed = {}

\* A request is allowed and its snapshot taken.
Take(q) ==
  /\ taken < MaxTaken
  /\ taken' = taken + 1
  /\ inflight' = inflight \cup {[req |-> q, ts |-> clock]}
  /\ UNCHANGED <<clock, store, observed>>

-----------------------------------------------------------------------------
(* observe *)

\* Mutant: an entry whose window is over is extended with what it holds.
EntryExtended(ip, now) ==
  IF now > store[ip].expiresAt THEN [store[ip] EXCEPT !.expiresAt = now + RiskWindow]
                               ELSE store[ip]

\* Mutant: the window judged by its start.
EntryFromStart(ip, now) ==
  IF now + RiskWindow > store[ip].expiresAt
  THEN [Absent EXCEPT !.expiresAt = now + RiskWindow] ELSE store[ip]

\* The entry a call works on: a new one when there is none or its window is over.
Entry(ip, now) ==
  IF now > store[ip].expiresAt THEN [Absent EXCEPT !.expiresAt = now + RiskWindow]
                               ELSE store[ip]

\* What the request adds to it; sig is the order of its headers.
Noted(entry, query, sig) ==
  [entry EXCEPT !.queries = IF query = NoQuery THEN @ ELSE @ \cup {query},
                !.headers = IF sig = <<>> THEN @ ELSE @ \cup {sig}]

QueryScore(entry) ==
  IF Cardinality(entry.queries) >= QueryDiversityThreshold THEN DiversityWeight ELSE 0

HeaderScore(entry) ==
  IF Cardinality(entry.headers) >= HeaderDiversityThreshold THEN DiversityWeight ELSE 0

\* headerSignature of one map: iteration takes the keys in any order.
headerSignature(hdr) == SetToSeqs(hdr)

observe(s, sig) ==
  LET ip    == s.req.ip
      entry == Noted(Entry(ip, s.ts), s.req.query, sig)
      skip  == ip = NoIP
  IN  /\ inflight' = inflight \ {s}
      /\ store' = IF skip THEN store ELSE [store EXCEPT ![ip] = entry]
      /\ observed' = observed \cup
           {[ip |-> ip, query |-> s.req.query, sig |-> sig, ts |-> s.ts, at |-> clock,
             qscore |-> IF skip THEN 0 ELSE QueryScore(entry),
             hscore |-> IF skip THEN 0 ELSE HeaderScore(entry)]}
      /\ UNCHANGED <<clock, taken>>

Tick ==
  /\ clock < MaxTime
  /\ clock' = clock + 1
  /\ UNCHANGED <<store, inflight, taken, observed>>

Next == \/ \E q \in Request : Take(q)
        \/ \E s \in inflight : \E sig \in headerSignature(s.req.hdr) : observe(s, sig)
        \/ Tick

Spec == Init /\ [][Next]_btVars

-----------------------------------------------------------------------------
(* Properties *)

Queries(obs) == {o.query : o \in obs} \ {NoQuery}

Signatures(obs) == {o.sig : o \in obs} \ {<<>>}

\* The observations of address i that were under way (taken and not yet observed) at
\* some moment of the RiskWindow from t on.
UnderWay(i, t) == {p \in observed : p.ip = i /\ p.at >= t /\ p.ts <= t + RiskWindow}

\* Risk is added only to an address that had as many distinct queries, or header
\* signatures, of its own under way during one RiskWindow as the threshold says,
\* however late and out of order they were observed.
ScoreJustified ==
  \A o \in observed :
    /\ o.qscore > 0 => \E t \in 1..MaxTime :
         o.ip # NoIP /\ Cardinality(Queries(UnderWay(o.ip, t))) >= QueryDiversityThreshold
    /\ o.hscore > 0 => \E t \in 1..MaxTime :
         o.ip # NoIP /\ Cardinality(Signatures(UnderWay(o.ip, t))) >= HeaderDiversityThreshold

\* The observations of address i taken from t on and made by the end of the RiskWindow.
Burst(i, t) == {o \in observed : o.ip = i /\ o.ts >= t /\ o.at <= t + RiskWindow}

\* Windows tumble, so a burst may be split between two of them, but not more: of
\* twice the threshold less one distinct queries taken and observed within a
\* RiskWindow, in whatever order, some request is scored.  (Snapshots that wait longer
\* than a RiskWindow can end in a third window and none of them be scored.)
BurstNoticed ==
  \A i \in IP \ {NoIP}, t \in 1..MaxTime :
    Cardinality(Queries(Burst(i, t))) >= 2 * QueryDiversityThreshold - 1
      => \E o \in Burst(i, t) : o.qscore > 0
=============================================================================
