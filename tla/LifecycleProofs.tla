-------------------------- MODULE LifecycleProofs --------------------------
(***************************************************************************)
(* The ownership of snapshots, Close, and the configuration the engine     *)
(* runs with, for every configuration and any number of request            *)
(* goroutines, workers and callers of Close.                               *)
(***************************************************************************)
EXTENDS Lifecycle, TLAPS

-----------------------------------------------------------------------------
(* The inductive invariant *)

ThreadPC == {"idle", "fill", "send", "wipe", "put"}
WorkerPC == {"unstarted", "select", "process", "wipe", "put", "exited"}

\* Which goroutines hold an object: a request between getSnapshot and the send or
\* putSnapshot, a worker from the receive to putSnapshot.
TypeOK ==
  /\ pool \in SUBSET Snap
  /\ content \in [Snap -> Request \cup {Zero, Wiped}]
  /\ analysisCh \in Seq([snap : Snap, req : Request])
  /\ bgStop \in BOOLEAN
  /\ thread \in [Thread -> [pc : ThreadPC, snap : Snap \cup {None}, req : Request \cup {Zero}]]
  /\ worker \in [Worker -> [pc : WorkerPC, snap : Snap \cup {None}, req : Request \cup {Zero}]]
  /\ closer \in [Closer -> {"idle", "wait", "panic", "done"}]
  /\ \A t \in Thread : IF thread[t].pc = "idle" THEN thread[t].snap = None
                       ELSE thread[t].snap \in Snap /\ thread[t].req \in Request
  /\ \A w \in Worker : IF worker[w].pc \in {"process", "wipe", "put"}
                       THEN worker[w].snap \in Snap /\ worker[w].req \in Request
                       ELSE worker[w].snap = None

\* OneOwner, place by place.
PoolFree ==
  /\ \A t \in Thread : thread[t].snap \notin pool
  /\ \A w \in Worker : worker[w].snap \notin pool
  /\ \A i \in DOMAIN analysisCh : analysisCh[i].snap \notin pool

QueueFree ==
  /\ \A t \in Thread, i \in DOMAIN analysisCh : thread[t].snap # analysisCh[i].snap
  /\ \A w \in Worker, i \in DOMAIN analysisCh : worker[w].snap # analysisCh[i].snap
  /\ \A i, j \in DOMAIN analysisCh : i # j => analysisCh[i].snap # analysisCh[j].snap

HoldersApart ==
  /\ \A t \in Thread, w \in Worker : thread[t].snap # None => thread[t].snap # worker[w].snap
  /\ \A t, u \in Thread : (t # u /\ thread[t].snap # None) => thread[t].snap # thread[u].snap
  /\ \A w, x \in Worker : (w # x /\ worker[w].snap # None) => worker[w].snap # worker[x].snap

\* From the copy to the end of the analysis an object holds its request.
ContentKept ==
  /\ \A t \in Thread : thread[t].pc = "send" => content[thread[t].snap] = thread[t].req
  /\ \A i \in DOMAIN analysisCh : content[analysisCh[i].snap] = analysisCh[i].req
  /\ \A w \in Worker : worker[w].pc = "process" => content[worker[w].snap] = worker[w].req

\* The workers that run are those startBackground started, until they exit.
WorkersStarted ==
  /\ \A w \in Worker : worker[w].pc = "unstarted" <=> w \notin Started(cfg)
  /\ CloseStopsWorkers

LInv == /\ TypeOK
        /\ PoolFree
        /\ QueueFree
        /\ HoldersApart
        /\ ContentKept
        /\ WorkersStarted

-----------------------------------------------------------------------------
(* Lemmas *)

\* What a receive leaves in the channel.
LEMMA TailElements ==
  ASSUME NEW S, NEW q \in Seq(S), q # <<>>
  PROVE  /\ Tail(q) \in Seq(S)
         /\ Head(q) = q[1] /\ Head(q) \in S
         /\ 1 \in DOMAIN q
         /\ \A i \in DOMAIN Tail(q) : i + 1 \in DOMAIN q /\ i + 1 # 1 /\ Tail(q)[i] = q[i + 1]
         /\ DOMAIN Tail(q) \subseteq Int
OBVIOUS

\* What a send puts there.
LEMMA AppendElements ==
  ASSUME NEW S, NEW q \in Seq(S), NEW e \in S
  PROVE  /\ Append(q, e) \in Seq(S)
         /\ \A i \in DOMAIN Append(q, e) :
              \/ i \in DOMAIN q /\ Append(q, e)[i] = q[i]
              \/ i = Len(q) + 1 /\ Append(q, e)[i] = e
OBVIOUS

\* The channel holds no nil.
LEMMA QueuedNotNil ==
  ASSUME TypeOK
  PROVE  \A i \in DOMAIN analysisCh : analysisCh[i].snap # None
<1> DEFINE Item == [snap : Snap, req : Request]
<1>1. analysisCh \in Seq(Item)
      BY DEF TypeOK
<1>2. \A i \in DOMAIN analysisCh : analysisCh[i] \in Item
  <2> HIDE DEF Item
  <2> QED BY <1>1
<1> QED BY <1>2, LifecycleAssumption

LEMMA LInit == Init => LInv
<1> SUFFICES ASSUME Init PROVE LInv
    OBVIOUS
<1> USE LifecycleAssumption DEF Init, Resting, Selecting, Unstarted
<1>1. TypeOK
  <2>1. worker \in [Worker -> [pc : WorkerPC, snap : Snap \cup {None}, req : Request \cup {Zero}]]
        BY DEF WorkerPC
  <2>2. \A w \in Worker : worker[w].snap = None /\ worker[w].pc \in {"select", "unstarted"}
        OBVIOUS
  <2>3. analysisCh \in Seq([snap : Snap, req : Request])
        OBVIOUS
  <2> QED BY <2>1, <2>2, <2>3 DEF TypeOK, ThreadPC
<1>2. PoolFree /\ QueueFree /\ HoldersApart /\ ContentKept
      BY DEF PoolFree, QueueFree, HoldersApart, ContentKept
<1>3. WorkersStarted
      BY DEF WorkersStarted, CloseStopsWorkers
<1> QED BY <1>1, <1>2, <1>3 DEF LInv

-----------------------------------------------------------------------------
(* Every step keeps the invariant *)

LEMMA LStep ==
  ASSUME LInv, [Next]_lcVars
  PROVE  LInv'
<1> USE LifecycleAssumption
<1> DEFINE Item == [snap : Snap, req : Request]
<1> USE DEF LInv
<1>1. ASSUME NEW t \in Thread, NEW q \in Request, GetSnapshot(t, q) PROVE LInv'
  <2>1. PICK s \in pool \cup (Snap \ InUse) :
          /\ pool' = pool \ {s}
          /\ content' = [content EXCEPT ![s] = Zero]
          /\ thread' = [thread EXCEPT ![t] = [pc |-> "fill", snap |-> s, req |-> q]]
        BY <1>1 DEF GetSnapshot
  <2>2. UNCHANGED <<conf, analysisCh, bgStop, worker, closer>>
        BY <1>1 DEF GetSnapshot
  <2>3. /\ s \in Snap
        /\ \A u \in Thread : thread[u].snap # s
        /\ \A w \in Worker : worker[w].snap # s
        /\ \A i \in DOMAIN analysisCh : analysisCh[i].snap # s
        BY <2>1 DEF TypeOK, PoolFree, InUse, HeldBy, Queued
  <2>4. TypeOK'
        BY <2>1, <2>2, <2>3 DEF TypeOK, ThreadPC
  <2>5. PoolFree'
        BY <2>1, <2>2, <2>3 DEF TypeOK, PoolFree
  <2>6. QueueFree'
        BY <2>1, <2>2, <2>3 DEF TypeOK, QueueFree
  <2>7. HoldersApart'
        BY <2>1, <2>2, <2>3 DEF TypeOK, HoldersApart
  <2>8. ContentKept'
        BY <2>1, <2>2, <2>3 DEF TypeOK, ContentKept
  <2>9. WorkersStarted'
        BY <2>2 DEF WorkersStarted, CloseStopsWorkers, Started, conf
  <2> QED BY <2>4, <2>5, <2>6, <2>7, <2>8, <2>9
<1>2. ASSUME NEW t \in Thread, Fill(t) PROVE LInv'
  <2> USE <1>2 DEF Fill
  <2>1. TypeOK'
        BY DEF TypeOK, ThreadPC
  <2>2. PoolFree' /\ QueueFree' /\ HoldersApart'
        BY DEF TypeOK, PoolFree, QueueFree, HoldersApart
  <2>3. ContentKept'
        BY DEF TypeOK, QueueFree, HoldersApart, ContentKept
  <2>4. WorkersStarted'
        BY DEF WorkersStarted, CloseStopsWorkers, Started, conf
  <2> QED BY <2>1, <2>2, <2>3, <2>4
<1>3. ASSUME NEW t \in Thread, Send(t) PROVE LInv'
  <2> USE <1>3
  <2>a. WorkersStarted'
        BY DEF Send, WorkersStarted, CloseStopsWorkers, Started, conf
  <2>1. CASE Len(analysisCh) < cfg.num["QueueSize"]
    <3> DEFINE e == [snap |-> thread[t].snap, req |-> thread[t].req]
    <3>1. /\ analysisCh' = Append(analysisCh, e)
          /\ thread' = [thread EXCEPT ![t] = Resting]
          /\ UNCHANGED <<conf, pool, content, bgStop, worker, closer>>
          BY <2>1 DEF Send
    <3>2. /\ thread[t].pc = "send"
          /\ e \in Item /\ e.snap = thread[t].snap /\ e.req = thread[t].req
          /\ e.snap # None /\ analysisCh \in Seq(Item)
          BY DEF Send, TypeOK
    <3> HIDE DEF e
    <3>3. /\ analysisCh' \in Seq(Item)
          /\ \A i \in DOMAIN analysisCh' :
               \/ i \in DOMAIN analysisCh /\ analysisCh'[i] = analysisCh[i]
               \/ i = Len(analysisCh) + 1 /\ analysisCh'[i] = e
          BY <3>1, <3>2, AppendElements
    <3>4. TypeOK'
          BY <3>1, <3>2, <3>3 DEF TypeOK, ThreadPC, Resting
    <3>5. PoolFree'
          BY <3>1, <3>2, <3>3 DEF TypeOK, PoolFree, Resting
    <3>6. QueueFree'
      <4>1. \A u \in Thread, i \in DOMAIN analysisCh' : thread'[u].snap # analysisCh'[i].snap
            BY <3>1, <3>2, <3>3, QueuedNotNil DEF TypeOK, QueueFree, HoldersApart, Resting
      <4>2. \A w \in Worker, i \in DOMAIN analysisCh' : worker'[w].snap # analysisCh'[i].snap
            BY <3>1, <3>2, <3>3 DEF QueueFree, HoldersApart
      <4>3. \A i, j \in DOMAIN analysisCh' : i # j => analysisCh'[i].snap # analysisCh'[j].snap
            BY <3>1, <3>2, <3>3 DEF QueueFree
      <4> QED BY <4>1, <4>2, <4>3 DEF QueueFree
    <3>7. HoldersApart'
          BY <3>1, <3>2 DEF TypeOK, HoldersApart, Resting
    <3>8. ContentKept'
          BY <3>1, <3>2, <3>3 DEF TypeOK, ContentKept, Resting
    <3> QED BY <2>a, <3>4, <3>5, <3>6, <3>7, <3>8
  <2>2. CASE ~(Len(analysisCh) < cfg.num["QueueSize"])
    <3>1. /\ thread[t].pc = "send"
          /\ thread' = [thread EXCEPT ![t].pc = "wipe"]
          /\ UNCHANGED <<conf, pool, content, analysisCh, bgStop, worker, closer>>
          BY <2>2 DEF Send
    <3>2. TypeOK'
          BY <3>1 DEF TypeOK, ThreadPC
    <3>3. PoolFree' /\ QueueFree'
          BY <3>1 DEF TypeOK, PoolFree, QueueFree
    <3>4. HoldersApart'
          BY <3>1 DEF TypeOK, HoldersApart
    <3>5. ContentKept'
          BY <3>1 DEF TypeOK, ContentKept
    <3> QED BY <2>a, <3>2, <3>3, <3>4, <3>5
  <2> QED BY <2>1, <2>2
<1>4. ASSUME NEW t \in Thread, Wipe(t) PROVE LInv'
  <2> USE <1>4 DEF Wipe
  <2>1. TypeOK'
        BY DEF TypeOK, ThreadPC
  <2>2. PoolFree' /\ QueueFree' /\ HoldersApart'
        BY DEF TypeOK, PoolFree, QueueFree, HoldersApart
  <2>3. ContentKept'
        BY DEF TypeOK, QueueFree, HoldersApart, ContentKept
  <2>4. WorkersStarted'
        BY DEF WorkersStarted, CloseStopsWorkers, Started, conf
  <2> QED BY <2>1, <2>2, <2>3, <2>4
<1>5. ASSUME NEW t \in Thread, Put(t) PROVE LInv'
  <2> USE <1>5 DEF Put, Resting
  <2>1. TypeOK'
        BY DEF TypeOK, ThreadPC
  <2>2. PoolFree'
        BY DEF TypeOK, PoolFree, QueueFree, HoldersApart
  <2>3. QueueFree'
        BY QueuedNotNil DEF TypeOK, QueueFree
  <2>4. HoldersApart'
        BY DEF TypeOK, HoldersApart
  <2>5. ContentKept'
        BY DEF TypeOK, ContentKept
  <2>6. WorkersStarted'
        BY DEF WorkersStarted, CloseStopsWorkers, Started, conf
  <2> QED BY <2>1, <2>2, <2>3, <2>4, <2>5, <2>6
<1>6. ASSUME NEW w \in Worker, Receive(w) PROVE LInv'
  <2> DEFINE e == Head(analysisCh)
  <2>1. /\ worker[w].pc = "select" /\ analysisCh # <<>>
        /\ analysisCh' = Tail(analysisCh)
        /\ worker' = [worker EXCEPT ![w] = [pc |-> "process", snap |-> e.snap, req |-> e.req]]
        /\ UNCHANGED <<conf, pool, content, bgStop, thread, closer>>
        BY <1>6 DEF Receive
  <2>2. analysisCh \in Seq(Item)
        BY DEF TypeOK
  <2>3. /\ analysisCh' \in Seq(Item)
        /\ e = analysisCh[1] /\ e \in Item /\ 1 \in DOMAIN analysisCh
        /\ \A i \in DOMAIN analysisCh' :
             i + 1 \in DOMAIN analysisCh /\ i + 1 # 1 /\ analysisCh'[i] = analysisCh[i + 1]
        /\ DOMAIN analysisCh' \subseteq Int
    <3> HIDE DEF Item
    <3> QED BY <2>1, <2>2, TailElements
  <2>4. e.snap \in Snap /\ e.req \in Request
        BY <2>3
  <2> HIDE DEF e
  <2>5. TypeOK'
        BY <2>1, <2>3, <2>4 DEF TypeOK, WorkerPC
  <2>6. PoolFree'
        BY <2>1, <2>3, <2>4 DEF TypeOK, PoolFree
  <2>7. QueueFree'
        BY <2>1, <2>3, <2>4 DEF TypeOK, QueueFree
  <2>8. HoldersApart'
        BY <2>1, <2>3, <2>4 DEF TypeOK, QueueFree, HoldersApart
  <2>9. ContentKept'
        BY <2>1, <2>3, <2>4 DEF TypeOK, ContentKept
  <2>10. WorkersStarted'
        BY <2>1 DEF TypeOK, WorkersStarted, CloseStopsWorkers, Started, conf
  <2> QED BY <2>5, <2>6, <2>7, <2>8, <2>9, <2>10
<1>7. ASSUME NEW w \in Worker, Stop(w) \/ Processed(w) PROVE LInv'
  <2>1. PICK p \in {"exited", "wipe"} :
          /\ worker' = [worker EXCEPT ![w].pc = p]
          /\ IF p = "exited" THEN worker[w].pc = "select" ELSE worker[w].pc = "process"
        BY <1>7 DEF Stop, Processed
  <2>2. UNCHANGED <<conf, pool, content, analysisCh, bgStop, thread, closer>>
        BY <1>7 DEF Stop, Processed
  <2>3. TypeOK'
        BY <2>1, <2>2 DEF TypeOK, WorkerPC
  <2>4. PoolFree' /\ QueueFree'
        BY <2>1, <2>2 DEF TypeOK, PoolFree, QueueFree
  <2>5. HoldersApart'
        BY <2>1, <2>2 DEF TypeOK, HoldersApart
  <2>6. ContentKept'
        BY <2>1, <2>2 DEF TypeOK, ContentKept
  <2>7. WorkersStarted'
        BY <2>1, <2>2 DEF TypeOK, WorkersStarted, CloseStopsWorkers, Started, conf
  <2> QED BY <2>3, <2>4, <2>5, <2>6, <2>7
<1>8. ASSUME NEW w \in Worker, WorkerWipe(w) PROVE LInv'
  <2> USE <1>8 DEF WorkerWipe
  <2>1. TypeOK'
        BY DEF TypeOK, WorkerPC
  <2>2. PoolFree' /\ QueueFree' /\ HoldersApart'
        BY DEF TypeOK, PoolFree, QueueFree, HoldersApart
  <2>3. ContentKept'
        BY DEF TypeOK, QueueFree, HoldersApart, ContentKept
  <2>4. WorkersStarted'
        BY DEF TypeOK, WorkersStarted, CloseStopsWorkers, Started, conf
  <2> QED BY <2>1, <2>2, <2>3, <2>4
<1>9. ASSUME NEW w \in Worker, WorkerPut(w) PROVE LInv'
  <2> USE <1>9 DEF WorkerPut, Selecting
  <2>1. TypeOK'
        BY DEF TypeOK, WorkerPC
  <2>2. PoolFree'
        BY DEF TypeOK, PoolFree, QueueFree, HoldersApart
  <2>3. QueueFree'
        BY QueuedNotNil DEF TypeOK, QueueFree
  <2>4. HoldersApart'
        BY DEF TypeOK, HoldersApart
  <2>5. ContentKept'
        BY DEF TypeOK, ContentKept
  <2>6. WorkersStarted'
        BY DEF TypeOK, WorkersStarted, CloseStopsWorkers, Started, conf
  <2> QED BY <2>1, <2>2, <2>3, <2>4, <2>5, <2>6
<1>10. ASSUME NEW c \in Closer, Close(c) \/ CloseWaited(c) PROVE LInv'
  <2>1. UNCHANGED <<conf, pool, content, analysisCh, thread, worker>>
        BY <1>10 DEF Close, CloseWaited
  <2>2. TypeOK'
    <3>1. closer' \in [Closer -> {"idle", "wait", "panic", "done"}]
          BY <1>10 DEF Close, CloseWaited, TypeOK
    <3>2. bgStop' \in BOOLEAN
          BY <1>10 DEF Close, CloseWaited, TypeOK
    <3> QED BY <2>1, <3>1, <3>2 DEF TypeOK
  <2>3. PoolFree' /\ QueueFree' /\ HoldersApart' /\ ContentKept'
        BY <2>1 DEF PoolFree, QueueFree, HoldersApart, ContentKept
  <2>4. WorkersStarted'
    <3>1. CASE Close(c)
          BY <3>1, <2>1 DEF Close, Background, TypeOK, WorkersStarted, CloseStopsWorkers, Started, conf
    <3>2. CASE CloseWaited(c)
          BY <3>2, <2>1 DEF CloseWaited, TypeOK, WorkersStarted, CloseStopsWorkers, Started, conf
    <3> QED BY <1>10, <3>1, <3>2
  <2> QED BY <2>2, <2>3, <2>4
<1>11. CASE UNCHANGED lcVars
       BY <1>11 DEF lcVars, conf, TypeOK, PoolFree, QueueFree, HoldersApart, ContentKept,
                    WorkersStarted, CloseStopsWorkers, Started
<1> QED BY <1>1, <1>2, <1>3, <1>4, <1>5, <1>6, <1>7, <1>8, <1>9, <1>10, <1>11
        DEF Next, ThreadStep, WorkerStep

LEMMA LAlways == Spec => []LInv
<1>1. LInv /\ [Next]_lcVars => LInv'
      BY LStep
<1> QED BY LInit, <1>1, PTL DEF Spec

-----------------------------------------------------------------------------
(* The configuration *)

\* Every default is a value withDefaults keeps.
LEMMA DefaultKept ==
  ASSUME NEW f \in Field \ {"Workers", "AdaptiveBanTTL"}
  PROVE  Default(f) \in Int /\ Default(f) > Floor(f)
<1> USE DEF Default, Defaults, Floor, Ms, Second, Minute, Hour
<1>1. CASE f \in ScriptDuration
      BY <1>1 DEF ScriptDuration
<1>2. CASE f \in OtherDuration
      BY <1>2 DEF OtherDuration
<1>3. CASE f \in Count
      BY <1>3 DEF Count
<1>4. CASE f \in Factor
      BY <1>4 DEF Factor
<1> QED BY <1>1, <1>2, <1>3, <1>4 DEF Field

\* A default sent to a script is at least a millisecond.
LEMMA DefaultWhole ==
  ASSUME NEW f \in ScriptDuration
  PROVE  f \in Field \ {"Workers", "AdaptiveBanTTL"} /\ Floor(f) = 0 /\ Default(f) >= Ms
<1>1. f \in Field \ {"Workers", "AdaptiveBanTTL"} /\ Floor(f) = 0
      BY DEF Field, ScriptDuration, Floor
<1> QED BY <1>1 DEF ScriptDuration, Default, Defaults, Ms, Second, Minute, Hour

\* After withDefaults every number but Workers has a usable value.
LEMMA DefaultedKept ==
  ASSUME NEW num \in [Field -> Int], NEW f \in Field \ {"Workers"}
  PROVE  Defaulted(num)[f] \in Int /\ Defaulted(num)[f] > Floor(f)
<1>1. Floor("AdaptiveBanTTL") = 0 /\ Floor("DefaultBanTTL") = 0 /\ Floor(f) \in Int
      BY DEF Floor
<1>2. "DefaultBanTTL" \in Field \ {"Workers", "AdaptiveBanTTL"}
      BY DEF Field, OtherDuration
<1>3. \A g \in Field \ {"Workers", "AdaptiveBanTTL"} :
        OrDefault(g, num[g]) \in Int /\ OrDefault(g, num[g]) > Floor(g)
      BY DefaultKept DEF OrDefault, Floor
<1>4. CASE f = "AdaptiveBanTTL" /\ num[f] <= 0
      BY <1>1, <1>2, <1>3, <1>4 DEF Defaulted
<1>5. CASE f = "AdaptiveBanTTL" /\ num[f] > 0
      BY <1>1, <1>5 DEF Defaulted, OrDefault
<1>6. CASE f # "AdaptiveBanTTL"
      BY <1>3, <1>6 DEF Defaulted
<1> QED BY <1>4, <1>5, <1>6

\* withDefaults on its own result changes nothing.
LEMMA DefaultsIdempotent ==
  ASSUME NEW c \in Config
  PROVE  withDefaults(withDefaults(c)) = withDefaults(c)
<1> DEFINE num == Defaulted(c.num)
<1>1. c.num \in [Field -> Int]
      BY DEF Config
<1>2. \A f \in Field \ {"Workers"} : num[f] \in Int /\ num[f] > Floor(f)
      BY <1>1, DefaultedKept
<1>3. num["Workers"] = OrDefault("Workers", c.num["Workers"])
      BY DEF Defaulted, Field, Count
<1>4. Default("Workers") = 0 /\ Floor("Workers") = 0 /\ Floor("AdaptiveBanTTL") = 0
      BY DEF Default, Defaults, Floor
<1>5. c.num["Workers"] \in Int
      BY <1>1 DEF Field, Count
<1>6. OrDefault("Workers", num["Workers"]) = num["Workers"]
      BY <1>3, <1>4, <1>5 DEF OrDefault
<1>7. \A f \in Field : Defaulted(num)[f] = num[f]
  <2> TAKE f \in Field
  <2>1. CASE f = "Workers"
        BY <2>1, <1>6 DEF Defaulted
  <2>2. CASE f # "Workers"
    <3>1. num[f] \in Int /\ ~(num[f] <= Floor(f)) /\ Floor(f) \in Int
          BY <1>2, <2>2 DEF Floor
    <3>2. OrDefault(f, num[f]) = num[f]
          BY <3>1 DEF OrDefault
    <3> HIDE DEF num
    <3> QED BY <1>4, <3>1, <3>2 DEF Defaulted
  <2> QED BY <2>1, <2>2
<1>8. Defaulted(num) = num
      BY <1>7 DEF Defaulted
<1>9. Switched(Switched(c.on)) = Switched(c.on)
      BY DEF Switched
<1> HIDE DEF num
<1> QED BY <1>8, <1>9 DEF withDefaults, num

\* Rounding: a whole millisecond or more stays positive in a script argument, and
\* any positive duration does through the client's own conversion.
LEMMA Rounding ==
  ASSUME NEW d \in Int
  PROVE  /\ d >= Ms => Milliseconds(d) \in Nat \ {0}
         /\ d > 0 => FormatMs(d) \in Nat \ {0}
BY DEF Milliseconds, FormatMs, Ms

\* What withDefaults returns is what Engine assumes.
LEMMA DefaultsSuffice ==
  ASSUME NEW c \in Config, Representable(c)
  PROVE  LET d == withDefaults(c)
         IN  EngineAssumes(EngineCfg(d, 1..d.num["MaxRequests"]))
<1> DEFINE d == withDefaults(c)
           num == d.num
<1>1. c.num \in [Field -> Int]
      BY DEF Config
<1>2. num = Defaulted(c.num)
      BY DEF withDefaults
<1>3. \A f \in Field \ {"Workers"} : num[f] \in Int /\ num[f] > Floor(f)
      BY <1>1, <1>2, DefaultedKept
<1>4. \A f \in ScriptDuration : Milliseconds(num[f]) \in Nat \ {0}
  <2> TAKE f \in ScriptDuration
  <2>1. f \in Field \ {"Workers", "AdaptiveBanTTL"} /\ Floor(f) = 0 /\ Default(f) >= Ms
        BY DefaultWhole
  <2>2. num[f] = OrDefault(f, c.num[f])
        BY <1>2, <2>1 DEF Defaulted
  <2>3. c.num[f] <= 0 \/ c.num[f] >= Ms
        BY DEF Representable
  <2>4. num[f] >= Ms /\ num[f] \in Int
        BY <1>1, <1>3, <2>1, <2>2, <2>3 DEF OrDefault
  <2> HIDE DEF num
  <2> QED BY <2>4, Rounding
<1>5. \A f \in OtherDuration : FormatMs(num[f]) \in Nat \ {0}
  <2> TAKE f \in OtherDuration
  <2>1. f \in Field \ {"Workers"} /\ Floor(f) = 0
        BY DEF Field, OtherDuration, Floor
  <2> HIDE DEF num
  <2> QED BY <1>3, <2>1, Rounding
<1>6. \A f \in Count \ {"Workers"} : num[f] \in Nat \ {0}
  <2> TAKE f \in Count \ {"Workers"}
  <2>1. f \in Field \ {"Workers"} /\ Floor(f) = 0
        BY DEF Field, Count, Floor
  <2> HIDE DEF num
  <2> QED BY <1>3, <2>1
<1> DEFINE e == EngineCfg(d, 1..num["MaxRequests"])
<1> HIDE DEF d
<1>7. /\ {e.FailOpen, e.Bloom, e.Background, e.Reputation, e.Adaptive} \subseteq BOOLEAN
  <2>1. shouldRunBackground(d) \in BOOLEAN
        BY DEF shouldRunBackground
  <2> QED BY <2>1 DEF EngineCfg
<1>8. /\ e.MaxRequests \in Nat \ {0} /\ e.EffLimits \subseteq 1..e.MaxRequests
      /\ {e.CacheSize, e.QueueSize} \subseteq Nat \ {0}
      /\ {e.WarningLevel, e.Threshold, e.ScoreThreshold, e.ThreatCountThreshold} \subseteq Nat
  <2>1. {"MaxRequests", "CacheSize", "QueueSize", "WarningLevel", "Threshold", "ScoreThreshold",
         "ThreatCountThreshold"} \subseteq Count \ {"Workers"}
        BY DEF Count
  <2> QED BY <1>6, <2>1 DEF EngineCfg
<1>9. /\ e.Window \in Nat \ {0}
      /\ {e.ScoreWindow, e.PenaltyTTL, e.BackoffWindow, e.BanLevel1, e.BanLevel2, e.BanLevel3}
           \subseteq Nat \ {0}
  <2>1. ScriptDuration = {"Window", "ScoreWindow", "PenaltyTTL", "BackoffWindow",
                          "BanLevel1", "BanLevel2", "BanLevel3"}
        BY DEF ScriptDuration
  <2> QED BY <1>4, <2>1 DEF EngineCfg
<1>10. {e.BehPenaltyTTL, e.PenaltyBanTTL, e.ThreatKeyWindow, e.AdaptiveBanTTL} \subseteq Nat \ {0}
  <2>1. {"BehPenaltyTTL", "PenaltyBanTTL", "ThreatKeyWindow", "AdaptiveBanTTL"} \subseteq OtherDuration
        BY DEF OtherDuration
  <2> QED BY <1>5, <2>1 DEF EngineCfg
<1> HIDE DEF e
<1>11. EngineAssumes(e)
       BY <1>7, <1>8, <1>9, <1>10 DEF EngineAssumes
<1> QED BY <1>11 DEF e, d

LEMMA RepresentableUsable ==
  ASSUME NEW c \in Config, Representable(c)
  PROVE  Usable(c)
<1>1. c.num \in [Field -> Int] /\ withDefaults(c).num = Defaulted(c.num)
      BY DEF Config, withDefaults
<1>2. \A f \in Field \ {"Workers"} : withDefaults(c).num[f] > Floor(f)
      BY <1>1, DefaultedKept
<1> QED BY <1>2, DefaultsSuffice, DefaultsIdempotent DEF Usable
-----------------------------------------------------------------------------
(* Theorems *)

\* A worker analyses the request its snapshot was sent for (processSnapshot), for any
\* number of request goroutines and workers.
THEOREM AnalysesWhatWasSent == Spec => []SnapshotIntact
<1>1. LInv => SnapshotIntact
      BY DEF LInv, ContentKept, SnapshotIntact
<1> QED BY LAlways, <1>1, PTL

\* Every pooled snapshot has one owner (getSnapshot, tryEnqueue, putSnapshot).
THEOREM SnapshotsOwned == Spec => []OneOwner
<1>1. LInv => OneOwner
      BY DEF LInv, TypeOK, PoolFree, QueueFree, HoldersApart, OneOwner, Queued, HeldBy
<1> QED BY LAlways, <1>1, PTL

\* When Close has returned no worker runs, whatever the configuration.
THEOREM ClosedMeansStopped == Spec => []CloseStopsWorkers
<1>1. LInv => CloseStopsWorkers
      BY DEF LInv, WorkersStarted
<1> QED BY LAlways, <1>1, PTL

\* Whatever configuration NewEngine is given, withDefaults makes it complete and what
\* Engine assumes, unless a duration is positive and below a millisecond.
THEOREM ConfigAlwaysUsable == Spec => []ConfigUsable
<1> DEFINE Given == raw \in RawConfigs
<1>1. Init => Given
      BY DEF Init
<1>2. Given /\ [Next]_lcVars => Given'
      BY DEF Next, ThreadStep, WorkerStep, GetSnapshot, Fill, Send, Wipe, Put, Receive, Stop,
             Processed, WorkerWipe, WorkerPut, Close, CloseWaited, lcVars, conf
<1>3. Given => ConfigUsable
      BY LifecycleAssumption, RepresentableUsable DEF ConfigUsable
<1> QED BY <1>1, <1>2, <1>3, PTL DEF Spec
=============================================================================
