----------------------------- MODULE MCLifecycle -----------------------------
(***************************************************************************)
(* A request goroutine that never stops, one or two workers, a channel of  *)
(* one place: there is a snapshot more than all of them can hold, so the   *)
(* pool can always hand one out.  The configurations are those that ask    *)
(* for analysis in each possible way, and all that set one number, with    *)
(* every part off (their engines analyse nothing).                         *)
(***************************************************************************)
EXTENDS Lifecycle

Unset == [num |-> [f \in Field |-> 0], on |-> {}]

\* Negative and unset, half a millisecond, one, one and a half, two, and more.
OneNumber == {[Unset EXCEPT !.num[f] = x] : f \in Field, x \in {-1, 0, 1, 2, 3, 4, 5000}}

Queued1 == [Unset EXCEPT !.num["QueueSize"] = 1]
Analysing(parts, workers) == [Queued1 EXCEPT !.on = parts, !.num["Workers"] = workers]

AnalysingConfigs ==
  {Analysing({p}, 1) : p \in Feature} \cup {Analysing({"AdaptiveBan", "Rules"}, 0)}

AllConfigs == OneNumber \cup AnalysingConfigs
ReputationOnly == {Analysing({"Reputation"}, 1)}
=============================================================================
