------------------------------ MODULE HotReload ------------------------------
(***************************************************************************)
(* ruleset.go, hotreload_unix.go, engine_ruleset.go: engines that share a  *)
(* RulesetManager (DynamicRules), the goroutine of each that reloads the   *)
(* file on SIGHUP, callers of Reload, and the workers that evaluate        *)
(* requests against the rules meanwhile.                                   *)
(*                                                                         *)
(* A ruleset is the version of the file it was compiled from; a version    *)
(* parses or it does not.  Half-written contents are versions too.  What   *)
(* matching a target means is in Matcher.                                  *)
(***************************************************************************)
EXTENDS Naturals, FiniteSets

CONSTANTS
  Instance,      \* engines
  Managed,       \* those with a RulesetManager; the others have CompiledRules
  Caller,        \* goroutines that call Reload themselves
  Worker, EngineOf,
  MaxWrites, MaxSignals, MaxReloads   \* bounds for model checking

ASSUME HotReloadAssumption ==
  /\ Managed \subseteq Instance
  /\ Managed \cap Caller = {}
  /\ EngineOf \in [Worker -> Instance]
  /\ {MaxWrites, MaxSignals, MaxReloads} \subseteq Nat

Loader == Managed \cup Caller   \* goroutines that run Reload
Targets == 4                    \* Any, Query, Path and Headers, in this order

VARIABLES
  file, parses,   \* version in the file, and the versions that parse
  cur,            \* RulesetManager.cur
  compiled,       \* [Instance -> e.compiled]
  signal,         \* [Managed -> is a SIGHUP in the channel of one place?]
  open,           \* Managed engines not yet closed
  loader,         \* [Loader -> [pc, rs]]
  worker,         \* [Worker -> [target, rs, used]]
  signals, reloads,   \* what the bounds count
  signalled,      \* history: SIGHUP was sent since the file was last written
  undone          \* history: the file's rules were current and an older ruleset replaced them

hrVars == <<file, parses, cur, compiled, signal, open, loader, worker, signals, reloads,
            signalled, undone>>

Selecting == [pc |-> "select", rs |-> 0]
Resting   == [target |-> 0, rs |-> 0, used |-> {}]

\* NewRulesetManager has loaded version 0 and every engine runs.
Init ==
  /\ file = 0 /\ parses = {0} /\ cur = 0
  /\ compiled = [e \in Instance |-> 0]
  /\ signal = [e \in Managed |-> FALSE]
  /\ open = Managed
  /\ loader = [l \in Loader |-> Selecting]
  /\ worker = [w \in Worker |-> Resting]
  /\ signals = 0 /\ reloads = 0
  /\ signalled = FALSE /\ undone = FALSE

-----------------------------------------------------------------------------
(* The operator *)

Write(ok) ==
  /\ file < MaxWrites
  /\ file' = file + 1
  /\ parses' = IF ok THEN parses \cup {file + 1} ELSE parses
  /\ signalled' = FALSE /\ undone' = FALSE
  /\ UNCHANGED <<cur, compiled, signal, open, loader, worker, signals, reloads>>

\* Mutant: a channel without a place, so that a busy reloader misses the signal.
SighupUnbuffered ==
  /\ signals < MaxSignals
  /\ open # {}
  /\ signals' = signals + 1
  /\ signal' = [e \in Managed |-> signal[e] \/ (e \in open /\ loader[e].pc = "select")]
  /\ signalled' = TRUE
  /\ UNCHANGED <<file, parses, cur, compiled, open, loader, worker, reloads, undone>>

\* The signal goes to every channel that is registered and has room.
Sighup ==
  /\ signals < MaxSignals
  /\ open # {}
  /\ signals' = signals + 1
  /\ signal' = [e \in Managed |-> signal[e] \/ e \in open]
  /\ signalled' = TRUE
  /\ UNCHANGED <<file, parses, cur, compiled, open, loader, worker, reloads, undone>>

-----------------------------------------------------------------------------
(* ReloadOnSignal and Reload *)

\* The two cases of the select; when both are ready either is taken.
Receive(e) ==
  /\ loader[e].pc = "select"
  /\ signal[e]
  /\ signal' = [signal EXCEPT ![e] = FALSE]
  /\ loader' = [loader EXCEPT ![e].pc = "read"]
  /\ UNCHANGED <<file, parses, cur, compiled, open, worker, signals, reloads, signalled, undone>>

\* Mutant: the context looked at only when a signal arrives.
DoneNeedsSignal(e) ==
  /\ loader[e].pc = "select"
  /\ e \notin open
  /\ signal[e]
  /\ loader' = [loader EXCEPT ![e].pc = "exited"]
  /\ UNCHANGED <<file, parses, cur, compiled, signal, open, worker, signals, reloads,
                 signalled, undone>>

Done(e) ==
  /\ loader[e].pc = "select"
  /\ e \notin open
  /\ loader' = [loader EXCEPT ![e].pc = "exited"]
  /\ UNCHANGED <<file, parses, cur, compiled, signal, open, worker, signals, reloads,
                 signalled, undone>>

\* A goroutine of the application calls Reload.
Reload(c) ==
  /\ loader[c].pc = "select"
  /\ reloads < MaxReloads
  /\ reloads' = reloads + 1
  /\ loader' = [loader EXCEPT ![c].pc = "read"]
  /\ UNCHANGED <<file, parses, cur, compiled, signal, open, worker, signals, signalled, undone>>

\* Mutant: the error of LoadRulesetFile ends the goroutine.
LoadGivesUp(l) ==
  /\ loader[l].pc = "read"
  /\ loader' = [loader EXCEPT ![l] = IF file \in parses THEN [pc |-> "store", rs |-> file]
                                     ELSE [pc |-> "exited", rs |-> 0]]
  /\ UNCHANGED <<file, parses, cur, compiled, signal, open, worker, signals, reloads,
                 signalled, undone>>

\* Mutant: the error of LoadRulesetFile ignored.
LoadUnchecked(l) ==
  /\ loader[l].pc = "read"
  /\ loader' = [loader EXCEPT ![l] = [pc |-> "store", rs |-> file]]
  /\ UNCHANGED <<file, parses, cur, compiled, signal, open, worker, signals, reloads,
                 signalled, undone>>

\* LoadRulesetFile: read, parse, compile; an error ends this reload only.
Load(l) ==
  /\ loader[l].pc = "read"
  /\ loader' = [loader EXCEPT ![l] = IF file \in parses THEN [pc |-> "store", rs |-> file]
                                     ELSE Selecting]
  /\ UNCHANGED <<file, parses, cur, compiled, signal, open, worker, signals, reloads,
                 signalled, undone>>

Store(l) ==
  /\ loader[l].pc = "store"
  /\ cur' = loader[l].rs
  /\ undone' = (undone \/ (cur = file /\ loader[l].rs # file))
  /\ loader' = [loader EXCEPT ![l] = Selecting]
  /\ UNCHANGED <<file, parses, compiled, signal, open, worker, signals, reloads, signalled>>

\* hotReloadStop: no more signals, and the context is cancelled.
Close(e) ==
  /\ e \in open
  /\ open' = open \ {e}
  /\ UNCHANGED <<file, parses, cur, compiled, signal, loader, worker, signals, reloads,
                 signalled, undone>>

-----------------------------------------------------------------------------
(* evaluateRuleset *)

\* The manager's present rules, or the engine's own; e.compiled is written by
\* every worker of the engine without a lock.
Capture(w) ==
  LET e  == EngineOf[w]
      rs == IF e \in Managed THEN cur ELSE compiled[e]
  IN  /\ worker[w].target = 0
      /\ worker' = [worker EXCEPT ![w] = [target |-> 1, rs |-> rs, used |-> {}]]
      /\ compiled' = [compiled EXCEPT ![e] = rs]
      /\ UNCHANGED <<file, parses, cur, signal, open, loader, signals, reloads, signalled, undone>>

\* Mutant: the manager asked again for every target.
FindAllCurrent(w) ==
  /\ worker[w].target \in 1..Targets
  /\ worker' = [worker EXCEPT ![w] = [target |-> IF @.target = Targets THEN 0 ELSE @.target + 1,
                                      rs |-> @.rs,
                                      used |-> @.used \cup {IF EngineOf[w] \in Managed THEN cur
                                                            ELSE @.rs}]]
  /\ UNCHANGED <<file, parses, cur, compiled, signal, open, loader, signals, reloads,
                 signalled, undone>>

\* One target is matched, with the rules captured.
FindAll(w) ==
  /\ worker[w].target \in 1..Targets
  /\ worker' = [worker EXCEPT ![w] = [target |-> IF @.target = Targets THEN 0 ELSE @.target + 1,
                                      rs |-> @.rs, used |-> @.used \cup {@.rs}]]
  /\ UNCHANGED <<file, parses, cur, compiled, signal, open, loader, signals, reloads,
                 signalled, undone>>

-----------------------------------------------------------------------------
(* Specification *)

LoaderStep(l) == \/ l \in Managed /\ (Receive(l) \/ Done(l))
                 \/ Load(l) \/ Store(l)

Next == \/ \E ok \in BOOLEAN : Write(ok)
        \/ Sighup
        \/ \E c \in Caller : Reload(c)
        \/ \E l \in Loader : LoaderStep(l)
        \/ \E e \in Managed : Close(e)
        \/ \E w \in Worker : Capture(w) \/ FindAll(w)

Spec == Init /\ [][Next]_hrVars

\* Goroutines that can run are scheduled and reading a file ends.  Nothing is
\* assumed of the operator, of Close or of the workers.
FairSpec == Spec /\ \A l \in Loader : WF_hrVars(LoaderStep(l))

-----------------------------------------------------------------------------
(* Properties *)

TypeOK ==
  /\ file \in Nat /\ parses \in SUBSET Nat /\ cur \in Nat
  /\ compiled \in [Instance -> Nat]
  /\ signal \in [Managed -> BOOLEAN]
  /\ open \in SUBSET Managed
  /\ loader \in [Loader -> [pc : {"select", "read", "store", "exited"}, rs : Nat]]
  /\ worker \in [Worker -> [target : 0..Targets, rs : Nat, used : SUBSET Nat]]
  /\ signals \in Nat /\ reloads \in Nat
  /\ signalled \in BOOLEAN /\ undone \in BOOLEAN

\* A request is judged by one ruleset in all four targets, although reloads and
\* other workers of the engine replace the pointers while it is evaluated.
OneRuleset == \A w \in Worker : \A r, s \in worker[w].used : r = s

\* Only a file that parsed is ever used: a failed reload keeps the rules in force.
OnlyParsedRules == cur \in parses /\ \A e \in Instance : compiled[e] \in parses

\* A reload of the file as it is now lies ahead of engine e.
Pending(e) == \/ signal[e]
              \/ loader[e].pc = "read"
              \/ loader[e].pc = "store" /\ loader[e].rs = file

\* No SIGHUP is lost: once it was sent for a file that parses, the rules in force
\* are the file's or every running engine is still to reload them, also when the
\* signal met a reloader in the middle of a reload.  The exception is a ruleset
\* read before the file was written and stored after the new one (undone).
NoSignalLost ==
  (signalled /\ file \in parses /\ ~undone) => \A e \in open : cur = file \/ Pending(e)

\* A SIGHUP sent for a file that parses brings its rules into force, unless the
\* file changes again, every engine is closed or an older ruleset is stored over
\* them, whatever reloads failed before.
SignalReloads ==
  \A v \in 1..MaxWrites :
    (signalled /\ file = v /\ v \in parses) ~> (cur = v \/ undone \/ file # v \/ open = {})

\* Close ends the reload goroutine.
ReloaderExits == \A e \in Managed : (e \notin open) ~> (loader[e].pc = "exited")
=============================================================================
