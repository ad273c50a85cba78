------------------------------ MODULE RedisLua ------------------------------
(***************************************************************************)
(* The Redis keys GuardGo uses and the two Lua scripts it runs on them.    *)
(*                                                                         *)
(* A key is a record [v, exp]: v = 0 is an absent key, otherwise v is the  *)
(* integer it holds (1 for the one-member blacklist set and for the        *)
(* penalty flag) and exp is the instant it expires, or Never.  A script    *)
(* is a pure operator from the keys it is given to their new values and    *)
(* its reply, because Redis runs a script atomically.                      *)
(*                                                                         *)
(* Redis is not part of this repository: the commands below model only     *)
(* what the scripts and the pipelines of the engine rely on.  A key is     *)
(* dropped once its expiry has passed: at the very instant it expires it   *)
(* is still there, and PTTL answers 0.                                     *)
(***************************************************************************)
EXTENDS Integers

Never  == 0
Absent == [v |-> 0, exp |-> Never]

RedisKey == [v : Nat, exp : Nat]

Live(k) == k.v # 0

(***************************************************************************)
(* Commands (external).  INCR and SADD keep the expiry a key already has;  *)
(* PEXPIRE does nothing to a key that does not exist.                      *)
(***************************************************************************)
Incr(k)            == [k EXCEPT !.v = @ + 1]
SAdd(k)            == [k EXCEPT !.v = 1]
PExpire(k, ttl, t) == IF Live(k) THEN [k EXCEPT !.exp = t + ttl] ELSE k
SetPX(ttl, t)      == [v |-> 1, exp |-> t + ttl]
PTTL(k, t)         == IF ~Live(k) THEN -2 ELSE IF k.exp = Never THEN -1 ELSE k.exp - t
Expire(k, t)       == IF k.exp # Never /\ k.exp < t THEN Absent ELSE k

-----------------------------------------------------------------------------
(***************************************************************************)
(* criticalPathLua: blacklist membership, then the fixed-window counter.   *)
(***************************************************************************)

\* Mutants: the limit compared with >=-off-by-one, the expiry refreshed by
\* every hit, the expiry never set.
CriticalPathOffByOne(blKey, rlKey, window, limit, t) ==
  IF Live(blKey) THEN [code |-> 2, rl |-> rlKey, cur |-> 0, ttl |-> PTTL(blKey, t)]
  ELSE LET cur == rlKey.v + 1
           rl  == IF cur = 1 THEN PExpire(Incr(rlKey), window, t) ELSE Incr(rlKey)
       IN  [code |-> IF cur > limit + 1 THEN 1 ELSE 0,
            rl |-> rl, cur |-> cur, ttl |-> PTTL(rl, t)]

CriticalPathSliding(blKey, rlKey, window, limit, t) ==
  IF Live(blKey) THEN [code |-> 2, rl |-> rlKey, cur |-> 0, ttl |-> PTTL(blKey, t)]
  ELSE LET cur == rlKey.v + 1
           rl  == PExpire(Incr(rlKey), window, t)
       IN  [code |-> IF cur > limit THEN 1 ELSE 0,
            rl |-> rl, cur |-> cur, ttl |-> PTTL(rl, t)]

CriticalPathImmortal(blKey, rlKey, window, limit, t) ==
  IF Live(blKey) THEN [code |-> 2, rl |-> rlKey, cur |-> 0, ttl |-> PTTL(blKey, t)]
  ELSE LET cur == rlKey.v + 1
           rl  == Incr(rlKey)
       IN  [code |-> IF cur > limit THEN 1 ELSE 0,
            rl |-> rl, cur |-> cur, ttl |-> PTTL(rl, t)]

\* Reply codes: 2 blacklisted, 1 rate limited, 0 allowed.
CriticalPathScript(blKey, rlKey, window, limit, t) ==
  IF Live(blKey) THEN [code |-> 2, rl |-> rlKey, cur |-> 0, ttl |-> PTTL(blKey, t)]
  ELSE LET cur == rlKey.v + 1
           rl  == IF cur = 1 THEN PExpire(Incr(rlKey), window, t) ELSE Incr(rlKey)
       IN  [code |-> IF cur > limit THEN 1 ELSE 0,
            rl |-> rl, cur |-> cur, ttl |-> PTTL(rl, t)]

-----------------------------------------------------------------------------
(***************************************************************************)
(* reputationLua: adds score_delta to the actor's field of the one         *)
(* reputation hash, whose expiry every call renews, then bans, penalises   *)
(* or does nothing.  keys is [rep, pen, bl, att]; rep is                   *)
(* [score : [field -> Nat], exp : Nat], a field of score 0 being absent.   *)
(***************************************************************************)

\* Mutant: the second and the third ban level exchanged.
BackoffTTLSwapped(attempts, c) ==
  CASE attempts = 2  -> c.BanLevel3
    [] attempts >= 3 -> c.BanLevel2
    [] OTHER         -> c.BanLevel1

BackoffTTL(attempts, c) ==
  CASE attempts = 2  -> c.BanLevel2
    [] attempts >= 3 -> c.BanLevel3
    [] OTHER         -> c.BanLevel1

\* Replies: action 0 none, 1 penalty, 2 blacklist.
ReputationScript(keys, field, delta, c, t) ==
  LET score    == keys.rep.score[field] + delta
      rep      == [score |-> [keys.rep.score EXCEPT ![field] = score],
                   exp   |-> t + c.ScoreWindow]
      attempts == keys.att.v + 1
      banTTL   == BackoffTTL(attempts, c)
  IN  IF score >= c.Threshold
      THEN [rep |-> rep, pen |-> Absent,
            bl  |-> PExpire(SAdd(keys.bl), banTTL, t),
            att |-> IF attempts = 1 THEN PExpire(Incr(keys.att), c.BackoffWindow, t)
                                    ELSE Incr(keys.att),
            action |-> 2, ttl |-> banTTL, attempts |-> attempts]
      ELSE IF score >= c.WarningLevel
      THEN [rep |-> rep, pen |-> SetPX(c.PenaltyTTL, t), bl |-> keys.bl, att |-> keys.att,
            action |-> 1, ttl |-> 0, attempts |-> 0]
      ELSE [rep |-> rep, pen |-> keys.pen, bl |-> keys.bl, att |-> keys.att,
            action |-> 0, ttl |-> 0, attempts |-> 0]
=============================================================================
