-------------------------- MODULE SelfHealingProofs --------------------------
(***************************************************************************)
(* The adaptive limit stays within 1..MaxRequests for every configuration  *)
(* that withDefaults lets through, and only tightens within a window.      *)
(***************************************************************************)
EXTENDS SelfHealing, TLAPS

\* The conjunction both theorems rest on: LimitInRange needs the types, and the
\* bounds of the multiplier to bound the next limit.
SHInv == StateOK /\ LimitInRange

SHState == [start : Nat, total : Nat, clean : Nat, perIP : [IP -> Nat], mult : Nat]

\* A self-healing state a call may leave behind.
Sound(s) == /\ s \in SHState
            /\ s.clean <= s.total
            /\ s.mult \in Trigger..MaxSensitivity

\* Dividing the base limit by a multiplier of at least 1.0 yields at most the base.
LEMMA LimitForRange ==
  ASSUME NEW mult \in Trigger..MaxSensitivity
  PROVE  LimitFor(mult) \in 1..Base
<1> DEFINE q == (Base * Trigger) \div mult
<1>1. /\ mult \in Nat /\ mult > 0 /\ mult >= Trigger
      /\ Base \in Nat /\ Base > 0 /\ Trigger \in Nat /\ Trigger > 0
  BY SHAssumption
<1>2. Base * Trigger \in Nat
  BY <1>1
<1>3. q \in Int /\ q * mult <= Base * Trigger
  BY <1>1, <1>2
<1>4. Base * Trigger <= Base * mult
  BY <1>1
<1>5. q <= Base
  BY <1>1, <1>3, <1>4
<1> HIDE DEF q
<1> QED BY <1>1, <1>3, <1>5 DEF LimitFor, Larger, q

\* A rotation leaves a sound state.
LEMMA RotatedSound ==
  ASSUME SHInv, NEW now \in Nat
  PROVE  Sound(Rotated(now))
BY SHAssumption DEF SHInv, StateOK, LimitInRange, Sound, SHState, Rotated, Stored, Larger

\* So does a spike.
LEMMA TightenedRange ==
  ASSUME NEW s, Sound(s), NEW n \in Nat
  PROVE  Tightened(s, n) \in Trigger..MaxSensitivity /\ Tightened(s, n) >= s.mult
BY SHAssumption DEF Sound, SHState, Tightened, Smaller

\* Storing a sound state.
LEMMA StoreSound ==
  ASSUME NEW s, Sound(s), Store(s)
  PROVE  /\ windowStart' \in Nat /\ total' \in Nat /\ clean' \in 0..total'
         /\ perIP' \in [IP -> Nat] /\ multiplier' \in Nat
         /\ multiplier' \in Trigger..MaxSensitivity
BY SHAssumption DEF Sound, SHState, Store

\* Every step keeps SHInv.
LEMMA SHStep == SHInv /\ [Next]_shVars => SHInv'
<1> SUFFICES ASSUME SHInv, [Next]_shVars PROVE SHInv'
  OBVIOUS
<1> DEFINE Req == [pc : {"idle", "limit", "observe"}, ip : IP \cup {NoIP}, now : Nat, limit : Int]
<1>0. req \in [Thread -> Req] /\ \A t \in Thread : req[t].limit \in 1..Base
  BY DEF SHInv, StateOK, LimitInRange
<1>a. Base \in Nat /\ 1 <= Base
  BY SHAssumption
<1>1. ASSUME NEW t \in Thread, NEW ip \in IP, Arrive(t, ip) PROVE SHInv'
  <2>1. req' \in [Thread -> Req]
    BY <1>0, <1>1, <1>a DEF Arrive, SHInv, StateOK
  <2>2. \A u \in Thread : req'[u].limit \in 1..Base /\ (req'[u].pc = "limit" => req'[u].ip \in IP)
    BY <1>0, <1>1, <1>a DEF Arrive, SHInv, StateOK
  <2> QED BY <1>1, <2>1, <2>2 DEF SHInv, StateOK, LimitInRange, Arrive, state
<1>2. ASSUME NEW t \in Thread, EffectiveLimit(t) PROVE SHInv'
  <2> DEFINE q == req[t]
             s == Rotated(q.now)
             n == s.perIP[q.ip] + 1
             r == IF q.ip = NoIP THEN s
                  ELSE [s EXCEPT !.perIP = [s.perIP EXCEPT ![q.ip] = n], !.mult = Tightened(s, n)]
             u == [q EXCEPT !.pc = "observe", !.limit = LimitFor(r.mult)]
  <2>1. /\ q \in Req /\ q.now \in Nat /\ q.ip \in IP
        /\ Store(r) /\ req' = [req EXCEPT ![t] = u] /\ UNCHANGED <<clock, issued>>
    BY <1>0, <1>2 DEF EffectiveLimit, SHInv, StateOK
  <2>2. Sound(s)
    BY <2>1, RotatedSound
  <2> HIDE DEF s
  <2>3. n \in Nat
    BY <2>1, <2>2 DEF Sound, SHState
  <2>4. Tightened(s, n) \in Trigger..MaxSensitivity
    BY <2>2, <2>3, TightenedRange
  <2>5. Sound(r)
    <3> DEFINE f == [s.perIP EXCEPT ![q.ip] = n]
               m == Tightened(s, n)
    <3>1. f \in [IP -> Nat] /\ m \in Nat /\ m \in Trigger..MaxSensitivity
      BY <2>1, <2>2, <2>3, <2>4, SHAssumption DEF Sound, SHState
    <3> HIDE DEF f, m
    <3>2. Sound([s EXCEPT !.perIP = f, !.mult = m])
      BY <2>2, <3>1 DEF Sound, SHState
    <3>3. r = IF q.ip = NoIP THEN s ELSE [s EXCEPT !.perIP = f, !.mult = m]
      BY DEF f, m
    <3> QED BY <2>2, <3>2, <3>3
  <2> HIDE DEF r
  <2>6. LimitFor(r.mult) \in 1..Base
    BY <2>5, LimitForRange DEF Sound
  <2>7. u \in Req /\ u.pc = "observe" /\ u.limit \in 1..Base
    <3> DEFINE lim == LimitFor(r.mult)
    <3>1. lim \in 1..Base /\ lim \in Int
      BY <1>a, <2>6
    <3> HIDE DEF lim
    <3>2. u = [q EXCEPT !.pc = "observe", !.limit = lim]
      BY DEF lim
    <3> QED BY <2>1, <3>1, <3>2
  <2> HIDE DEF u
  <2>8. /\ req' \in [Thread -> Req]
        /\ \A v \in Thread : req'[v].limit \in 1..Base /\ (req'[v].pc = "limit" => req'[v].ip \in IP)
    BY <1>0, <2>1, <2>7 DEF SHInv, StateOK
  <2> QED BY <2>1, <2>5, <2>8, StoreSound DEF SHInv, StateOK, LimitInRange
<1>3. ASSUME NEW t \in Thread, NEW allowed \in BOOLEAN, Observe(t, allowed) PROVE SHInv'
  <2> DEFINE q == req[t]
             s == Rotated(q.now)
             r == [s EXCEPT !.total = s.total + 1, !.clean = IF allowed THEN s.clean + 1 ELSE s.clean]
             u == [q EXCEPT !.pc = "idle"]
  <2>1. /\ q \in Req /\ q.now \in Nat
        /\ Store(r) /\ req' = [req EXCEPT ![t] = u] /\ UNCHANGED <<clock, issued>>
    BY <1>0, <1>3 DEF Observe
  <2>2. Sound(s)
    BY <2>1, RotatedSound
  <2> HIDE DEF s
  <2>3. Sound(r)
    <3> DEFINE c == IF allowed THEN s.clean + 1 ELSE s.clean
    <3>1. s \in SHState /\ c \in Nat /\ c <= s.total + 1 /\ s.total + 1 \in Nat
      BY <2>2 DEF Sound, SHState
    <3> HIDE DEF c
    <3>2. r = [s EXCEPT !.total = s.total + 1, !.clean = c]
      BY DEF c
    <3> QED BY <2>2, <3>1, <3>2 DEF Sound, SHState
  <2> HIDE DEF r
  <2>4. u \in Req /\ u.pc = "idle" /\ u.limit \in 1..Base
    BY <1>0, <2>1
  <2> HIDE DEF u
  <2>5. /\ req' \in [Thread -> Req]
        /\ \A v \in Thread : req'[v].limit \in 1..Base /\ (req'[v].pc = "limit" => req'[v].ip \in IP)
    BY <1>0, <2>1, <2>4 DEF SHInv, StateOK
  <2> QED BY <2>1, <2>3, <2>5, StoreSound DEF SHInv, StateOK, LimitInRange
<1>4. CASE Tick
  BY <1>4 DEF SHInv, StateOK, LimitInRange, Tick, state
<1>5. CASE UNCHANGED shVars
  BY <1>5 DEF SHInv, StateOK, LimitInRange, shVars, state
<1> QED BY <1>1, <1>2, <1>3, <1>4, <1>5 DEF Next

\* The state newSelfHealingState builds satisfies SHInv.
LEMMA SHInit == Init => SHInv
BY SHAssumption DEF Init, SHInv, StateOK, LimitInRange, Resting

\* The mutex-protected state stays sound and every limit in range, whatever the
\* order in which the calls of concurrent requests arrive.
THEOREM SHInvariant == Spec => []SHInv
BY SHInit, SHStep, PTL DEF Spec

\* effectiveLimit hands out limits in 1..MaxRequests only, for every
\* MaxSensitivity > 1, SpikeFactor, DecayStep and threshold: the assumption
\* Engine makes of Cfg.EffLimits.
THEOREM LimitsInRange == Spec => []LimitInRange
<1>1. SHInv => LimitInRange
  BY DEF SHInv
<1> QED BY <1>1, SHInvariant, PTL

\* Within a window the multiplier never falls: requests that call late, with an
\* older instant, do not relax the limit.
THEOREM TightensWithinWindow == Spec => OnlyTightensWithinWindow
<1> DEFINE A == windowStart' = windowStart => multiplier' >= multiplier
<1>1. SHInv /\ [Next]_shVars => [A]_shVars
  <2> SUFFICES ASSUME SHInv, [Next]_shVars, windowStart' = windowStart
               PROVE  multiplier' >= multiplier
    OBVIOUS
  <2>0. /\ multiplier \in Nat /\ windowStart \in Nat /\ Window \in Nat \ {0}
        /\ \A t \in Thread : req[t].now \in Nat
    BY SHAssumption DEF SHInv, StateOK
  <2>1. \A now \in Nat : Rotated(now).start = windowStart => Rotated(now).mult = multiplier
    BY <2>0 DEF Rotated, Stored
  <2>2. ASSUME NEW t \in Thread, EffectiveLimit(t) PROVE multiplier' >= multiplier
    <3> DEFINE q == req[t]
               s == Rotated(q.now)
               n == s.perIP[q.ip] + 1
               r == IF q.ip = NoIP THEN s
                    ELSE [s EXCEPT !.perIP = [s.perIP EXCEPT ![q.ip] = n], !.mult = Tightened(s, n)]
    <3>1. q.pc = "limit" /\ q.now \in Nat /\ q.ip \in IP /\ Store(r)
      BY <2>0, <2>2 DEF EffectiveLimit, SHInv, StateOK
    <3>2. Sound(s)
      BY <3>1, RotatedSound
    <3>3. s.start = windowStart => s.mult = multiplier
      BY <2>1, <3>1
    <3> HIDE DEF s
    <3>4. n \in Nat
      BY <3>1, <3>2 DEF Sound, SHState
    <3>5. Tightened(s, n) >= s.mult /\ Tightened(s, n) \in Nat
      BY <3>2, <3>4, TightenedRange, SHAssumption
    <3> HIDE DEF n
    <3>6. r.start = s.start /\ r.mult >= s.mult
      BY <3>2, <3>5 DEF Sound, SHState
    <3> HIDE DEF r
    <3> QED BY <3>1, <3>3, <3>6 DEF Store
  <2>3. ASSUME NEW t \in Thread, NEW allowed \in BOOLEAN, Observe(t, allowed)
        PROVE  multiplier' >= multiplier
    <3> DEFINE s == Rotated(req[t].now)
               r == [s EXCEPT !.total = s.total + 1, !.clean = IF allowed THEN s.clean + 1 ELSE s.clean]
    <3>1. Store(r)
      BY <2>3 DEF Observe
    <3>2. Sound(s) /\ (s.start = windowStart => s.mult = multiplier)
      BY <2>0, <2>1, RotatedSound
    <3> HIDE DEF s
    <3>3. r.start = s.start /\ r.mult = s.mult
      BY <3>2 DEF Sound, SHState
    <3> HIDE DEF r
    <3> QED BY <2>0, <3>1, <3>2, <3>3 DEF Store
  <2> QED BY <2>0, <2>2, <2>3 DEF Next, Arrive, Tick, shVars, state
<1> QED BY <1>1, SHInvariant, PTL DEF Spec, OnlyTightensWithinWindow

\* Rotations are at least a Window apart and each decays the multiplier once, in
\* any order of the calls: MinSamples > 0 keeps a rotated window from tightening.
THEOREM DecaysOncePerWindow == Spec => OneDecayPerWindow
<1> DEFINE A == windowStart' # windowStart =>
                  /\ windowStart' >= windowStart + Window
                  /\ multiplier' = Larger(Trigger, multiplier - DecayStep)
<1>1. SHInv /\ [Next]_shVars => [A]_shVars
  <2> SUFFICES ASSUME SHInv, [Next]_shVars, windowStart' # windowStart
               PROVE  /\ windowStart' >= windowStart + Window
                      /\ multiplier' = Larger(Trigger, multiplier - DecayStep)
    OBVIOUS
  <2>0. /\ multiplier \in Trigger..MaxSensitivity /\ windowStart \in Nat /\ Window \in Nat \ {0}
        /\ Trigger \in Nat /\ MaxSensitivity \in Nat /\ DecayStep \in Nat \ {0}
        /\ MinSamples \in Nat \ {0}
        /\ \A t \in Thread : req[t].now \in Nat
    BY SHAssumption DEF SHInv, StateOK, LimitInRange
  <2>1. \A now \in Nat : Rotated(now).start # windowStart =>
          /\ Rotated(now).start >= windowStart + Window /\ Rotated(now).total = 0
          /\ Rotated(now).mult = Larger(Trigger, multiplier - DecayStep)
    BY <2>0 DEF Rotated, Stored, Larger
  <2>2. ASSUME NEW t \in Thread, EffectiveLimit(t)
        PROVE  /\ windowStart' >= windowStart + Window
               /\ multiplier' = Larger(Trigger, multiplier - DecayStep)
    <3> DEFINE q == req[t]
               s == Rotated(q.now)
               n == s.perIP[q.ip] + 1
               r == IF q.ip = NoIP THEN s
                    ELSE [s EXCEPT !.perIP = [s.perIP EXCEPT ![q.ip] = n], !.mult = Tightened(s, n)]
    <3>1. q.now \in Nat /\ Store(r)
      BY <2>0, <2>2 DEF EffectiveLimit
    <3>2. Sound(s)
      BY <3>1, RotatedSound
    <3>3. s.start # windowStart =>
            /\ s.start >= windowStart + Window /\ s.total = 0
            /\ s.mult = Larger(Trigger, multiplier - DecayStep)
      BY <2>1, <3>1
    <3> HIDE DEF s
    <3>4. s.total = 0 => Tightened(s, n) = s.mult
      BY <2>0 DEF Tightened
    <3> HIDE DEF n
    <3>5. r.start = s.start /\ (s.total = 0 => r.mult = s.mult)
      BY <3>2, <3>4 DEF Sound, SHState
    <3> HIDE DEF r
    <3> QED BY <3>1, <3>3, <3>5 DEF Store
  <2>3. ASSUME NEW t \in Thread, NEW allowed \in BOOLEAN, Observe(t, allowed)
        PROVE  /\ windowStart' >= windowStart + Window
               /\ multiplier' = Larger(Trigger, multiplier - DecayStep)
    <3> DEFINE s == Rotated(req[t].now)
               r == [s EXCEPT !.total = s.total + 1, !.clean = IF allowed THEN s.clean + 1 ELSE s.clean]
    <3>1. Store(r)
      BY <2>3 DEF Observe
    <3>2. /\ Sound(s)
          /\ s.start # windowStart =>
               /\ s.start >= windowStart + Window
               /\ s.mult = Larger(Trigger, multiplier - DecayStep)
      BY <2>0, <2>1, RotatedSound
    <3> HIDE DEF s
    <3>3. r.start = s.start /\ r.mult = s.mult
      BY <3>2 DEF Sound, SHState
    <3> HIDE DEF r
    <3> QED BY <3>1, <3>2, <3>3 DEF Store
  <2> QED BY <2>2, <2>3 DEF Next, Arrive, Tick, shVars, state
<1> QED BY <1>1, SHInvariant, PTL DEF Spec, OneDecayPerWindow

\* Never more requests are counted clean than observed, with every counter in range.
THEOREM SelfHealingStateOK == Spec => []StateOK
<1>1. SHInv => StateOK
  BY DEF SHInv
<1> QED BY <1>1, SHInvariant, PTL
=============================================================================
