------------------------------ MODULE Lifecycle ------------------------------
(***************************************************************************)
(* One engine from NewEngine, which is given some configuration, to Close: *)
(* if the configuration asks for background analysis, request goroutines   *)
(* fill pooled snapshots and send them without blocking, workers analyse   *)
(* and recycle them, and Close stops the workers.                          *)
(*                                                                         *)
(* A snapshot is an object that changes hands; what it holds is the        *)
(* request copied into it.  sync.Pool may hand out any pooled object or a  *)
(* new one.  What the analysis decides is in Engine; here it only lasts.   *)
(***************************************************************************)
EXTENDS EngineConfig, Sequences

CONSTANTS
  Thread,
  Worker,          \* the numbers of the goroutines startBackground may start
  Closer,          \* goroutines that call Close, once each
  Snap, None,      \* snapshot objects, and nil
  Request,
  Zero, Wiped,     \* contents of a snapshot that was reset, or whose headers were deleted
  RawConfigs,      \* configurations NewEngine may be given
  Procs            \* runtime.GOMAXPROCS(0)

ASSUME LifecycleAssumption ==
  /\ RawConfigs \subseteq Config
  /\ Procs \in Nat \ {0} /\ Worker \subseteq Nat \ {0}
  /\ None \notin Snap
  /\ Zero \notin Request /\ Wiped \notin Request

VARIABLES
  raw,        \* history: the configuration NewEngine was given
  cfg,        \* e.cfg
  pool,       \* reqPool
  content,    \* [Snap -> Request, Zero or Wiped]
  analysisCh, \* queue of [snap, req]; req is history: the request it was sent for
  bgStop,     \* closed?
  thread, worker, closer   \* control states

conf   == <<raw, cfg>>
lcVars == <<conf, pool, content, analysisCh, bgStop, thread, worker, closer>>

Resting == [pc |-> "idle", snap |-> None, req |-> Zero]
Selecting == [pc |-> "select", snap |-> None, req |-> Zero]
Unstarted == [pc |-> "unstarted", snap |-> None, req |-> Zero]

\* analysisCh # nil.
Background == shouldRunBackground(cfg)

\* The workers startBackground starts.
Started(c) == {w \in Worker : shouldRunBackground(c) /\ w <= Workers(c, Procs)}

\* NewEngine.
Init ==
  /\ raw \in RawConfigs
  /\ cfg = withDefaults(raw)
  /\ pool = {}
  /\ content = [s \in Snap |-> Zero]
  /\ analysisCh = <<>>
  /\ bgStop = FALSE
  /\ thread = [t \in Thread |-> Resting]
  /\ worker = [w \in Worker |-> IF w \in Started(cfg) THEN Selecting ELSE Unstarted]
  /\ closer = [c \in Closer |-> "idle"]

\* Snapshots some goroutine, the channel or the pool refers to.
Queued == {analysisCh[i].snap : i \in DOMAIN analysisCh}
HeldBy(f) == {f[x].snap : x \in DOMAIN f} \ {None}
InUse  == pool \cup Queued \cup HeldBy(thread) \cup HeldBy(worker)

-----------------------------------------------------------------------------
(* tryEnqueue *)

\* getSnapshot: a pooled object or a new one, reset.
GetSnapshot(t, q) ==
  /\ Background
  /\ thread[t].pc = "idle"
  /\ \E s \in pool \cup (Snap \ InUse) :
       /\ pool' = pool \ {s}
       /\ content' = [content EXCEPT ![s] = Zero]
       /\ thread' = [thread EXCEPT ![t] = [pc |-> "fill", snap |-> s, req |-> q]]
  /\ UNCHANGED <<conf, analysisCh, bgStop, worker, closer>>

\* snapshotFromRequest copies the request.
Fill(t) ==
  /\ thread[t].pc = "fill"
  /\ content' = [content EXCEPT ![thread[t].snap] = thread[t].req]
  /\ thread' = [thread EXCEPT ![t].pc = "send"]
  /\ UNCHANGED <<conf, pool, analysisCh, bgStop, worker, closer>>

\* Mutant: the snapshot recycled whether it was sent or not.
SendAndRecycle(t) ==
  /\ thread[t].pc = "send"
  /\ analysisCh' = IF Len(analysisCh) < cfg.num["QueueSize"]
                   THEN Append(analysisCh, [snap |-> thread[t].snap, req |-> thread[t].req])
                   ELSE analysisCh
  /\ thread' = [thread EXCEPT ![t].pc = "wipe"]
  /\ UNCHANGED <<conf, pool, content, bgStop, worker, closer>>

\* The send, or the default case.
Send(t) ==
  /\ thread[t].pc = "send"
  /\ IF Len(analysisCh) < cfg.num["QueueSize"]
     THEN /\ analysisCh' = Append(analysisCh, [snap |-> thread[t].snap, req |-> thread[t].req])
          /\ thread' = [thread EXCEPT ![t] = Resting]
     ELSE /\ thread' = [thread EXCEPT ![t].pc = "wipe"]
          /\ UNCHANGED analysisCh
  /\ UNCHANGED <<conf, pool, content, bgStop, worker, closer>>

\* putSnapshot deletes the headers ...
Wipe(t) ==
  /\ thread[t].pc = "wipe"
  /\ content' = [content EXCEPT ![thread[t].snap] = Wiped]
  /\ thread' = [thread EXCEPT ![t].pc = "put"]
  /\ UNCHANGED <<conf, pool, analysisCh, bgStop, worker, closer>>

\* ... and returns the object.
Put(t) ==
  /\ thread[t].pc = "put"
  /\ pool' = pool \cup {thread[t].snap}
  /\ thread' = [thread EXCEPT ![t] = Resting]
  /\ UNCHANGED <<conf, content, analysisCh, bgStop, worker, closer>>

-----------------------------------------------------------------------------
(* bgWorker *)

\* Mutant: the headers deleted before the analysis.
ReceiveWiping(w) ==
  /\ worker[w].pc = "select"
  /\ analysisCh # <<>>
  /\ analysisCh' = Tail(analysisCh)
  /\ content' = [content EXCEPT ![Head(analysisCh).snap] = Wiped]
  /\ worker' = [worker EXCEPT ![w] = [pc |-> "process", snap |-> Head(analysisCh).snap,
                                      req |-> Head(analysisCh).req]]
  /\ UNCHANGED <<conf, pool, bgStop, thread, closer>>

\* The two cases of the select; when both are ready either is taken.
Receive(w) ==
  /\ worker[w].pc = "select"
  /\ analysisCh # <<>>
  /\ analysisCh' = Tail(analysisCh)
  /\ worker' = [worker EXCEPT ![w] = [pc |-> "process", snap |-> Head(analysisCh).snap,
                                      req |-> Head(analysisCh).req]]
  /\ UNCHANGED <<conf, pool, content, bgStop, thread, closer>>

\* Mutant: bgStop looked at only when a snapshot arrives.
StopNeedsSnapshot(w) ==
  /\ worker[w].pc = "select"
  /\ bgStop
  /\ analysisCh # <<>>
  /\ worker' = [worker EXCEPT ![w].pc = "exited"]
  /\ UNCHANGED <<conf, pool, content, analysisCh, bgStop, thread, closer>>

Stop(w) ==
  /\ worker[w].pc = "select"
  /\ bgStop
  /\ worker' = [worker EXCEPT ![w].pc = "exited"]
  /\ UNCHANGED <<conf, pool, content, analysisCh, bgStop, thread, closer>>

\* processSnapshot returns: its Redis calls share a context of 250 ms.
Processed(w) ==
  /\ worker[w].pc = "process"
  /\ worker' = [worker EXCEPT ![w].pc = "wipe"]
  /\ UNCHANGED <<conf, pool, content, analysisCh, bgStop, thread, closer>>

WorkerWipe(w) ==
  /\ worker[w].pc = "wipe"
  /\ content' = [content EXCEPT ![worker[w].snap] = Wiped]
  /\ worker' = [worker EXCEPT ![w].pc = "put"]
  /\ UNCHANGED <<conf, pool, analysisCh, bgStop, thread, closer>>

WorkerPut(w) ==
  /\ worker[w].pc = "put"
  /\ pool' = pool \cup {worker[w].snap}
  /\ worker' = [worker EXCEPT ![w] = Selecting]
  /\ UNCHANGED <<conf, content, analysisCh, bgStop, thread, closer>>

-----------------------------------------------------------------------------
(* Close *)

\* Without background analysis Close returns at once; else close(bgStop) panics
\* if the channel is closed already.
Close(c) ==
  /\ closer[c] = "idle"
  /\ closer' = [closer EXCEPT ![c] = IF ~Background THEN "done"
                                     ELSE IF bgStop THEN "panic" ELSE "wait"]
  /\ bgStop' = (bgStop \/ Background)
  /\ UNCHANGED <<conf, pool, content, analysisCh, thread, worker>>

\* Mutant: Close does not wait for the workers.
CloseNoWait(c) ==
  /\ closer[c] = "wait"
  /\ closer' = [closer EXCEPT ![c] = "done"]
  /\ UNCHANGED <<conf, pool, content, analysisCh, bgStop, thread, worker>>

\* bgWg.Wait returns once every worker has.
CloseWaited(c) ==
  /\ closer[c] = "wait"
  /\ \A w \in Started(cfg) : worker[w].pc = "exited"
  /\ closer' = [closer EXCEPT ![c] = "done"]
  /\ UNCHANGED <<conf, pool, content, analysisCh, bgStop, thread, worker>>

-----------------------------------------------------------------------------
(* Specification *)

ThreadStep(t) == Fill(t) \/ Send(t) \/ Wipe(t) \/ Put(t)
WorkerStep(w) == Receive(w) \/ Processed(w) \/ WorkerWipe(w) \/ WorkerPut(w)

Next == \/ \E t \in Thread : ThreadStep(t) \/ \E q \in Request : GetSnapshot(t, q)
        \/ \E w \in Worker : WorkerStep(w) \/ Stop(w)
        \/ \E c \in Closer : Close(c) \/ CloseWaited(c)

Spec == Init /\ [][Next]_lcVars

\* Goroutines are scheduled, processSnapshot is bounded by its context, and a
\* select that finds the same case ready again and again takes it in the end (Go
\* chooses among ready cases uniformly at random).  Requests may go on for ever.
FairSpec == /\ Spec
            /\ \A t \in Thread : WF_lcVars(ThreadStep(t))
            /\ \A w \in Worker : WF_lcVars(WorkerStep(w)) /\ SF_lcVars(Stop(w))
            /\ \A c \in Closer : WF_lcVars(CloseWaited(c))

-----------------------------------------------------------------------------
(* Properties *)

\* A worker analyses the request its snapshot was sent for: while it does, nobody
\* resets, refills or wipes the pooled object under it.
SnapshotIntact ==
  \A w \in Worker : worker[w].pc = "process" => content[worker[w].snap] = worker[w].req

\* An object has one owner: it is in the pool, in the channel once, or held by one
\* goroutine, so that the pool never hands it out twice.
OneOwner ==
  /\ pool \cap (Queued \cup HeldBy(thread) \cup HeldBy(worker)) = {}
  /\ \A i, j \in DOMAIN analysisCh : i # j => analysisCh[i].snap # analysisCh[j].snap
  /\ Queued \cap (HeldBy(thread) \cup HeldBy(worker)) = {}
  /\ HeldBy(thread) \cap HeldBy(worker) = {}
  /\ \A t, u \in Thread : (t # u /\ thread[t].snap # None) => thread[t].snap # thread[u].snap
  /\ \A w, x \in Worker : (w # x /\ worker[w].snap # None) => worker[w].snap # worker[x].snap

\* When Close has returned no worker is left that could still touch Redis.
CloseStopsWorkers ==
  \A c \in Closer : closer[c] = "done" => \A w \in Worker : worker[w].pc \in {"exited", "unstarted"}

\* Close returns even while requests keep filling the channel.
CloseReturns == \A c \in Closer : closer[c] = "wait" ~> closer[c] = "done"

\* Whatever configuration NewEngine is given, the one it runs with is complete and
\* is what Engine assumes, unless a duration is positive and below a millisecond.
ConfigUsable == Representable(raw) => Usable(raw)

-----------------------------------------------------------------------------
(* What the documentation says and the code does not do *)

\* engine.go on Close: "Safe to call multiple times."
CloseNeverPanics == \A c \in Closer : closer[c] # "panic"
=============================================================================
