--------------------------- MODULE HotReloadProofs ---------------------------
(***************************************************************************)
(* Safety of the reload, for every number of engines, callers and workers: *)
(* only parsed rules are used, a request is judged by one ruleset, and no  *)
(* SIGHUP is lost.                                                         *)
(***************************************************************************)
EXTENDS HotReload, TLAPS

USE HotReloadAssumption DEF Loader, Targets, Selecting, Resting

\* What goroutines hold between two steps was parsed, and an evaluation has only
\* used the rules it captured.
HeldRules ==
  /\ \A l \in Loader : loader[l].pc = "store" => loader[l].rs \in parses
  /\ \A w \in Worker : worker[w].used \subseteq {worker[w].rs}

\* The inductive invariant.
HRInv == TypeOK /\ HeldRules /\ OnlyParsedRules /\ NoSignalLost

LEMMA InitHR == Init => HRInv
<1> SUFFICES ASSUME Init PROVE HRInv
  OBVIOUS
<1> USE DEF Init
<1>1. file \in Nat /\ parses \in SUBSET Nat /\ cur \in Nat /\ open \in SUBSET Managed
  OBVIOUS
<1>2. compiled \in [Instance -> Nat] /\ signal \in [Managed -> BOOLEAN]
  OBVIOUS
<1>3. loader \in [Loader -> [pc : {"select", "read", "store", "exited"}, rs : Nat]]
  OBVIOUS
<1>4. worker \in [Worker -> [target : 0..Targets, rs : Nat, used : SUBSET Nat]]
  <2>1. Resting \in [target : 0..Targets, rs : Nat, used : SUBSET Nat]
    OBVIOUS
  <2> QED
    BY <2>1
<1>5. TypeOK
  BY <1>1, <1>2, <1>3, <1>4 DEF TypeOK
<1>6. HeldRules /\ OnlyParsedRules /\ NoSignalLost
  BY DEF HeldRules, OnlyParsedRules, NoSignalLost
<1> QED
  BY <1>5, <1>6 DEF HRInv

\* Type correctness is preserved by every step.
LEMMA NextType == TypeOK /\ [Next]_hrVars => TypeOK'
<1> SUFFICES ASSUME TypeOK, [Next]_hrVars PROVE TypeOK'
  OBVIOUS
<1> USE DEF TypeOK
<1>1. ASSUME NEW ok \in BOOLEAN, Write(ok) PROVE TypeOK'
  <2>1. parses' \in SUBSET Nat
    BY <1>1 DEF Write
  <2>2. signalled' \in BOOLEAN /\ undone' \in BOOLEAN
    BY <1>1 DEF Write
  <2> QED
    BY <1>1, <2>1, <2>2 DEF Write
<1>2. CASE Sighup
  BY <1>2 DEF Sighup
<1>3. ASSUME NEW l \in Loader, Receive(l) \/ Done(l), l \in Managed PROVE TypeOK'
  <2>1. CASE Receive(l)
    <3>1. signal' \in [Managed -> BOOLEAN]
      BY <1>3, <2>1 DEF Receive
    <3> QED
      BY <1>3, <2>1, <3>1 DEF Receive
  <2>2. CASE Done(l)
    BY <1>3, <2>2 DEF Done
  <2> QED
    BY <1>3, <2>1, <2>2
<1>4. ASSUME NEW c \in Caller, Reload(c) PROVE TypeOK'
  BY <1>4 DEF Reload
<1>5. ASSUME NEW l \in Loader, Load(l) PROVE TypeOK'
  BY <1>5 DEF Load
<1>6. ASSUME NEW l \in Loader, Store(l) PROVE TypeOK'
  BY <1>6 DEF Store
<1>7. ASSUME NEW e \in Managed, Close(e) PROVE TypeOK'
  BY <1>7 DEF Close
<1>8. ASSUME NEW w \in Worker, Capture(w) PROVE TypeOK'
  BY <1>8 DEF Capture
<1>9. ASSUME NEW w \in Worker, FindAll(w) PROVE TypeOK'
  <2> DEFINE t == worker[w].target
             next == [target |-> IF t = Targets THEN 0 ELSE t + 1, rs |-> worker[w].rs,
                      used |-> worker[w].used \cup {worker[w].rs}]
  <2>1. worker[w] \in [target : 0..Targets, rs : Nat, used : SUBSET Nat]
    OBVIOUS
  <2>2. next \in [target : 0..Targets, rs : Nat, used : SUBSET Nat]
    BY <2>1
  <2>3. worker' = [worker EXCEPT ![w] = next]
    BY <1>9, <2>1 DEF FindAll
  <2>4. worker' \in [Worker -> [target : 0..Targets, rs : Nat, used : SUBSET Nat]]
    BY <2>2, <2>3
  <2> QED
    BY <1>9, <2>4 DEF FindAll
<1>10. CASE UNCHANGED hrVars
  BY <1>10 DEF hrVars
<1> QED
  BY <1>1, <1>2, <1>3, <1>4, <1>5, <1>6, <1>7, <1>8, <1>9, <1>10 DEF Next, LoaderStep

\* Every step keeps the held rules parsed and the evaluations consistent.
LEMMA NextHeld ==
  TypeOK /\ HeldRules /\ OnlyParsedRules /\ [Next]_hrVars => HeldRules' /\ OnlyParsedRules'
<1> SUFFICES ASSUME TypeOK, HeldRules, OnlyParsedRules, [Next]_hrVars
             PROVE HeldRules' /\ OnlyParsedRules'
  OBVIOUS
<1> USE DEF TypeOK, HeldRules, OnlyParsedRules
<1>1. ASSUME NEW ok \in BOOLEAN, Write(ok) PROVE HeldRules' /\ OnlyParsedRules'
  BY <1>1 DEF Write
<1>2. CASE Sighup
  BY <1>2 DEF Sighup
<1>3. ASSUME NEW l \in Loader, Receive(l) \/ Done(l), l \in Managed
      PROVE HeldRules' /\ OnlyParsedRules'
  BY <1>3 DEF Receive, Done
<1>4. ASSUME NEW c \in Caller, Reload(c) PROVE HeldRules' /\ OnlyParsedRules'
  BY <1>4 DEF Reload
<1>5. ASSUME NEW l \in Loader, Load(l) PROVE HeldRules' /\ OnlyParsedRules'
  BY <1>5 DEF Load
<1>6. ASSUME NEW l \in Loader, Store(l) PROVE HeldRules' /\ OnlyParsedRules'
  BY <1>6 DEF Store
<1>7. ASSUME NEW e \in Managed, Close(e) PROVE HeldRules' /\ OnlyParsedRules'
  BY <1>7 DEF Close
<1>8. ASSUME NEW w \in Worker, Capture(w) PROVE HeldRules' /\ OnlyParsedRules'
  BY <1>8 DEF Capture
<1>9. ASSUME NEW w \in Worker, FindAll(w) PROVE HeldRules' /\ OnlyParsedRules'
  BY <1>9 DEF FindAll
<1>10. CASE UNCHANGED hrVars
  BY <1>10 DEF hrVars
<1> QED
  BY <1>1, <1>2, <1>3, <1>4, <1>5, <1>6, <1>7, <1>8, <1>9, <1>10 DEF Next, LoaderStep

\* No step loses a signal.
LEMMA NextSignal == TypeOK /\ NoSignalLost /\ [Next]_hrVars => NoSignalLost'
<1> SUFFICES ASSUME TypeOK, NoSignalLost, [Next]_hrVars PROVE NoSignalLost'
  OBVIOUS
<1> USE DEF TypeOK, NoSignalLost, Pending
<1>1. ASSUME NEW ok \in BOOLEAN, Write(ok) PROVE NoSignalLost'
  BY <1>1 DEF Write
<1>2. CASE Sighup
  BY <1>2 DEF Sighup
<1>3. ASSUME NEW l \in Loader, Receive(l), l \in Managed PROVE NoSignalLost'
  BY <1>3 DEF Receive
<1>4. ASSUME NEW l \in Loader, Done(l), l \in Managed PROVE NoSignalLost'
  BY <1>4 DEF Done
<1>5. ASSUME NEW c \in Caller, Reload(c) PROVE NoSignalLost'
  BY <1>5 DEF Reload
<1>6. ASSUME NEW l \in Loader, Load(l) PROVE NoSignalLost'
  BY <1>6 DEF Load
<1>7. ASSUME NEW l \in Loader, Store(l) PROVE NoSignalLost'
  \* Storing the file's rules makes them current; storing older ones over them is
  \* undone; over others it leaves every engine's pending reload as it was.
  <2>1. CASE loader[l].rs = file
    BY <1>7, <2>1 DEF Store
  <2>2. CASE loader[l].rs # file /\ cur = file
    BY <1>7, <2>2 DEF Store
  <2>3. CASE loader[l].rs # file /\ cur # file
    BY <1>7, <2>3 DEF Store
  <2> QED
    BY <2>1, <2>2, <2>3
<1>8. ASSUME NEW e \in Managed, Close(e) PROVE NoSignalLost'
  BY <1>8 DEF Close
<1>9. ASSUME NEW w \in Worker, Capture(w) PROVE NoSignalLost'
  BY <1>9 DEF Capture
<1>10. ASSUME NEW w \in Worker, FindAll(w) PROVE NoSignalLost'
  BY <1>10 DEF FindAll
<1>11. CASE UNCHANGED hrVars
  BY <1>11 DEF hrVars
<1> QED
  BY <1>1, <1>2, <1>3, <1>4, <1>5, <1>6, <1>7, <1>8, <1>9, <1>10, <1>11 DEF Next, LoaderStep

\* HRInv is an invariant of the reload.
LEMMA HRInvariant == Spec => []HRInv
<1>1. HRInv /\ [Next]_hrVars => HRInv'
  BY NextType, NextHeld, NextSignal DEF HRInv
<1> QED
  BY <1>1, InitHR, PTL DEF Spec

\* A SIGHUP sent for a file that parses is never lost, for any number of engines
\* and callers and in whatever state it meets the reload goroutines.
THEOREM SignalsKept == Spec => []NoSignalLost
<1>1. HRInv => NoSignalLost
  BY DEF HRInv
<1> QED
  BY <1>1, HRInvariant, PTL

\* Whatever reloads run meanwhile, one request is judged by one ruleset.
THEOREM OneRulesetPerRequest == Spec => []OneRuleset
<1>1. HRInv => OneRuleset
  BY DEF HRInv, HeldRules, OneRuleset
<1> QED
  BY <1>1, HRInvariant, PTL

\* A file that does not parse never comes into force.
THEOREM ParsedRulesOnly == Spec => []OnlyParsedRules
<1>1. HRInv => OnlyParsedRules
  BY DEF HRInv
<1> QED
  BY <1>1, HRInvariant, PTL

\* Versions only get stored in order when one goroutine reloads.
InOrder ==
  /\ cur <= file
  /\ \A l \in Loader : loader[l].pc = "store" => cur <= loader[l].rs /\ loader[l].rs <= file

\* One goroutine alone stores no older rules over newer ones.
LEMMA NextInOrder ==
  ASSUME \A l, m \in Loader : l = m
  PROVE  HRInv /\ InOrder /\ ~undone /\ [Next]_hrVars => InOrder' /\ ~undone'
<1> SUFFICES ASSUME HRInv, InOrder, ~undone, [Next]_hrVars PROVE InOrder' /\ ~undone'
  OBVIOUS
<1> USE DEF HRInv, TypeOK, InOrder
<1>1. ASSUME NEW ok \in BOOLEAN, Write(ok) PROVE InOrder' /\ ~undone'
  BY <1>1 DEF Write
<1>2. CASE Sighup
  BY <1>2 DEF Sighup
<1>3. ASSUME NEW l \in Loader, Receive(l) \/ Done(l), l \in Managed
      PROVE InOrder' /\ ~undone'
  BY <1>3 DEF Receive, Done
<1>4. ASSUME NEW c \in Caller, Reload(c) PROVE InOrder' /\ ~undone'
  BY <1>4 DEF Reload
<1>5. ASSUME NEW l \in Loader, Load(l) PROVE InOrder' /\ ~undone'
  BY <1>5 DEF Load
<1>6. ASSUME NEW l \in Loader, Store(l) PROVE InOrder' /\ ~undone'
  BY <1>6 DEF Store
<1>7. ASSUME NEW e \in Managed, Close(e) PROVE InOrder' /\ ~undone'
  BY <1>7 DEF Close
<1>8. ASSUME NEW w \in Worker, Capture(w) PROVE InOrder' /\ ~undone'
  BY <1>8 DEF Capture
<1>9. ASSUME NEW w \in Worker, FindAll(w) PROVE InOrder' /\ ~undone'
  BY <1>9 DEF FindAll
<1>10. CASE UNCHANGED hrVars
  BY <1>10 DEF hrVars
<1> QED
  BY <1>1, <1>2, <1>3, <1>4, <1>5, <1>6, <1>7, <1>8, <1>9, <1>10 DEF Next, LoaderStep

\* The exception of NoSignalLost needs two goroutines that reload: an engine with a
\* manager of its own, reloaded by signals alone, never goes back to older rules.
THEOREM OneReloaderNeverUndone ==
  ASSUME \A l, m \in Loader : l = m
  PROVE  Spec => []~undone
<1>1. Init => InOrder /\ ~undone
  BY DEF Init, InOrder
<1>2. HRInv /\ InOrder /\ ~undone /\ [Next]_hrVars => InOrder' /\ ~undone'
  BY NextInOrder
<1> QED
  BY <1>1, <1>2, HRInvariant, PTL DEF Spec
=============================================================================
