----------------------------- MODULE SelfHealing -----------------------------
(***************************************************************************)
(* self_healing.go: the adaptive limit of one engine instance.  A burst of *)
(* one address in otherwise clean traffic raises a multiplier that divides *)
(* everybody's limit; the multiplier decays as windows are rotated.        *)
(*                                                                         *)
(* A request reads the clock, calls effectiveLimit and, when it is         *)
(* decided, observe; both calls hold the mutex and both use the instant    *)
(* read at the start, so they arrive out of order.  Multipliers are        *)
(* counted in units of 1/Trigger, where Trigger = MaxRequests*SpikeFactor: *)
(* Trigger is 1.0 and the multiplier of a spike of n requests is n.        *)
(***************************************************************************)
EXTENDS Integers

CONSTANTS
  Thread,          \* request goroutines
  IP, NoIP,        \* client addresses; NoIP is the empty string
  Base,            \* MaxRequests
  Trigger,         \* max(1, Base * SpikeFactor)
  Window, MinSamples,
  CleanNum, CleanDen,   \* CleanTrafficThreshold = CleanNum / CleanDen
  MaxSensitivity, DecayStep,   \* in units of 1/Trigger
  MaxTime, MaxIssued           \* bounds for model checking

ASSUME SHAssumption ==
  /\ Base \in Nat \ {0} /\ Trigger \in Nat \ {0}
  /\ Window \in Nat \ {0} /\ MinSamples \in Nat \ {0}
  /\ CleanNum \in Nat /\ CleanDen \in Nat \ {0}
  /\ MaxSensitivity \in Nat /\ MaxSensitivity > Trigger
  /\ DecayStep \in Nat \ {0}
  /\ MaxTime \in Nat /\ MaxIssued \in Nat

VARIABLES
  clock,
  windowStart, total, clean, perIP, multiplier,   \* selfHealingState
  req,       \* req[t]: [pc, ip, now, limit] of a request goroutine
  issued     \* requests so far

state  == <<windowStart, total, clean, perIP, multiplier>>
shVars == <<clock, state, req, issued>>

Resting == [pc |-> "idle", ip |-> NoIP, now |-> 0, limit |-> Base]

Init ==
  /\ clock = 1
  /\ windowStart = 1 /\ total = 0 /\ clean = 0
  /\ perIP = [i \in IP |-> 0]
  /\ multiplier = Trigger
  /\ req = [t \in Thread |-> Resting]
  /\ issued = 0

Larger(a, b)  == IF a > b THEN a ELSE b
Smaller(a, b) == IF a < b THEN a ELSE b

-----------------------------------------------------------------------------
(* rotateWindowIfNeeded: the state a call at instant now starts from *)

Stored == [start |-> windowStart, total |-> total, clean |-> clean,
           perIP |-> perIP, mult |-> multiplier]

\* Mutant: the clean requests carried into the next window.
RotatedKeepingClean(now) ==
  IF now - windowStart < Window THEN Stored
  ELSE [start |-> now, total |-> 0, clean |-> clean, perIP |-> [i \in IP |-> 0],
        mult |-> IF multiplier > Trigger THEN Larger(Trigger, multiplier - DecayStep)
                                         ELSE multiplier]

\* Mutant: a step of decay that may lead below 1.0.
RotatedUnclamped(now) ==
  IF now - windowStart < Window THEN Stored
  ELSE [start |-> now, total |-> 0, clean |-> 0, perIP |-> [i \in IP |-> 0],
        mult |-> IF multiplier > Trigger THEN multiplier - DecayStep ELSE multiplier]

\* Mutant: a window one instant short.
RotatedEarly(now) ==
  IF now - windowStart < Window - 1 THEN Stored
  ELSE [start |-> now, total |-> 0, clean |-> 0, perIP |-> [i \in IP |-> 0],
        mult |-> IF multiplier > Trigger THEN Larger(Trigger, multiplier - DecayStep)
                                         ELSE multiplier]

Rotated(now) ==
  IF now - windowStart < Window THEN Stored
  ELSE [start |-> now, total |-> 0, clean |-> 0, perIP |-> [i \in IP |-> 0],
        mult |-> IF multiplier > Trigger THEN Larger(Trigger, multiplier - DecayStep)
                                         ELSE multiplier]

\* Mutant: any spike sets the multiplier, also one smaller than the last.
TightenedAnyway(s, n) ==
  IF /\ s.total >= MinSamples
     /\ s.clean * CleanDen >= CleanNum * Larger(1, s.total)
     /\ n > Trigger
  THEN Smaller(MaxSensitivity, n) ELSE s.mult

\* The multiplier after an address's n-th request of the window.
Tightened(s, n) ==
  IF /\ s.total >= MinSamples
     /\ s.clean * CleanDen >= CleanNum * Larger(1, s.total)
     /\ n > Trigger
     /\ n > s.mult
  THEN Smaller(MaxSensitivity, n) ELSE s.mult

\* int(base / multiplier), at least 1.
LimitFor(mult) == Larger(1, (Base * Trigger) \div mult)

-----------------------------------------------------------------------------
(* Actions *)

Store(s) == /\ windowStart' = s.start
            /\ total' = s.total /\ clean' = s.clean
            /\ perIP' = s.perIP /\ multiplier' = s.mult

\* Process reads the clock.
Arrive(t, ip) ==
  /\ req[t].pc = "idle"
  /\ issued < MaxIssued
  /\ issued' = issued + 1
  /\ req' = [req EXCEPT ![t] = [pc |-> "limit", ip |-> ip, now |-> clock, limit |-> Base]]
  /\ UNCHANGED <<clock, state>>

EffectiveLimit(t) ==
  LET q == req[t]
      s == Rotated(q.now)
      n == s.perIP[q.ip] + 1
      r == IF q.ip = NoIP THEN s
           ELSE [s EXCEPT !.perIP = [s.perIP EXCEPT ![q.ip] = n], !.mult = Tightened(s, n)]
  IN  /\ q.pc = "limit"
      /\ Store(r)
      /\ req' = [req EXCEPT ![t] = [q EXCEPT !.pc = "observe", !.limit = LimitFor(r.mult)]]
      /\ UNCHANGED <<clock, issued>>

\* finishDecision; allowed tells whether the request was (also by FailOpen).
Observe(t, allowed) ==
  LET q == req[t]
      s == Rotated(q.now)
  IN  /\ q.pc = "observe"
      /\ Store([s EXCEPT !.total = s.total + 1, !.clean = IF allowed THEN s.clean + 1 ELSE s.clean])
      /\ req' = [req EXCEPT ![t] = [q EXCEPT !.pc = "idle"]]
      /\ UNCHANGED <<clock, issued>>

Tick ==
  /\ clock < MaxTime
  /\ clock' = clock + 1
  /\ UNCHANGED <<state, req, issued>>

Next ==
  \/ \E t \in Thread : \/ \E ip \in IP : Arrive(t, ip)
                       \/ EffectiveLimit(t)
                       \/ \E allowed \in BOOLEAN : Observe(t, allowed)
  \/ Tick

Spec == Init /\ [][Next]_shVars

-----------------------------------------------------------------------------
(* Properties *)

\* The counters are within what the state can hold, and never more requests are
\* clean than were observed, although observe may run in a later window than
\* effectiveLimit did.
StateOK ==
  /\ clock \in Nat /\ issued \in Nat
  /\ windowStart \in Nat /\ total \in Nat /\ clean \in 0..total
  /\ perIP \in [IP -> Nat]
  /\ multiplier \in Nat
  /\ req \in [Thread -> [pc : {"idle", "limit", "observe"}, ip : IP \cup {NoIP},
                         now : Nat, limit : Int]]
  /\ \A t \in Thread : req[t].pc = "limit" => req[t].ip \in IP

\* The adaptive multiplier stays between 1.0 and MaxSensitivity, and no request is
\* ever given a limit outside 1..MaxRequests: what Engine assumes of EffLimits.
LimitInRange ==
  /\ multiplier \in Trigger..MaxSensitivity
  /\ \A t \in Thread : req[t].limit \in 1..Base

\* Until the window is rotated the limit can only get stricter: requests that are
\* late, or whose address has sent less, do not relax it for the others.
OnlyTightensWithinWindow ==
  [][windowStart' = windowStart => multiplier' >= multiplier]_shVars

\* The limit recovers by one DecayStep at a time and at most once per Window, also
\* when late requests carry instants of an earlier window; and the spike that ended
\* a window cannot renew itself in the step that rotates it.
OneDecayPerWindow ==
  [][windowStart' # windowStart =>
       /\ windowStart' >= windowStart + Window
       /\ multiplier' = Larger(Trigger, multiplier - DecayStep)]_shVars
=============================================================================
