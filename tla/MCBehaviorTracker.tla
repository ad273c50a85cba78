-------------------------- MODULE MCBehaviorTracker --------------------------
(***************************************************************************)
(* Three distinct queries of one address with thresholds of two, requests  *)
(* of another address and of none, and one header pair.                    *)
(***************************************************************************)
EXTENDS BehaviorTracker

Plain(i, q)     == [ip |-> i, query |-> q, hdr |-> {}]
TrackerRequests == {Plain("a", q) : q \in {"q1", "q2", "q3"}}
                     \cup {Plain("b", "q1"), Plain("", "q2"),
                           [Plain("b", "none") EXCEPT !.hdr = {"ua", "lang"}]}
=============================================================================
