------------------------------ MODULE MCMatcher ------------------------------
(***************************************************************************)
(* All pairs of tokens of up to three bytes over a and b, and rulesets     *)
(* with alternatives, capitals, two targets, empty tokens and a letter     *)
(* outside ASCII (x, capital X).                                           *)
(***************************************************************************)
EXTENDS Matcher

A == 0
X == 1
a == 2
b == 3
x == 4

UniLower == [c \in Byte |-> IF c = A THEN a ELSE IF c = X THEN x ELSE c]
AscLower == [c \in Byte |-> IF c = A THEN a ELSE c]

Words == UNION {[1..n -> {a, b}] : n \in 1..3}
Sig(match, pattern) == [match |-> match, pattern |-> pattern, weight |-> Len(pattern) - 1]

Pairs == {<<Sig("any", <<v>>), Sig("query", <<w>>), Sig("any", <<w>>)>> : v, w \in Words}
Mixed == {<<Sig("any", <<<<A, b, a>>, <<>>, <<b, A, b, b>>, <<b, a>>, <<a>>>>)>>,
          <<Sig("cookie", <<<<X, a>>, <<a, x>>>>), Sig("query", <<<<a>>, <<a>>>>)>>,
          <<Sig("query", <<<<>>>>)>>, <<>>}
MCRulesets == Pairs \cup Mixed
=============================================================================
