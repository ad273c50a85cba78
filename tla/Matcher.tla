------------------------------- MODULE Matcher -------------------------------
(***************************************************************************)
(* pkg/dfa/matcher.go and CompileRuleset of ruleset.go: the signatures of  *)
(* one target are compiled into an Aho-Corasick automaton, and a text is   *)
(* scanned byte by byte.                                                   *)
(*                                                                         *)
(* A pattern is the sequence of its alternatives, an alternative the       *)
(* sequence of its bytes; removing blanks, parentheses and the (?i) prefix *)
(* is left out.  A letter outside ASCII is one byte here.  One action is   *)
(* one iteration of an inner loop of New, insert, buildFailures or FindAll.*)
(***************************************************************************)
EXTENDS Integers, Sequences

CONSTANTS
  ByteCount,    \* 256 in the code
  ToLower,      \* strings.ToLower, byte for byte
  AsciiLower,   \* the lowering in insert and FindAll: 'A'..'Z' only
  Rulesets,     \* sequences of signatures [match, pattern, weight]
  Targets,      \* targets with a matcher of their own, and "any"
  MaxText       \* bound for model checking

Byte == 0..(ByteCount - 1)

\* What strings.ToLower returns holds no capital for insert to lower again.
ASSUME MatcherAssumption ==
  /\ ByteCount \in Nat
  /\ ToLower \in [Byte -> Byte] /\ AsciiLower \in [Byte -> Byte]
  /\ \A b \in Byte : AsciiLower[ToLower[b]] = ToLower[b]
  /\ "any" \in Targets
  /\ MaxText \in Nat

ASSUME RulesetsAssumption == \A sigs \in Rulesets :
  /\ sigs \in Seq({sigs[i] : i \in DOMAIN sigs})
  /\ \A i \in DOMAIN sigs : sigs[i].pattern \in Seq(Seq(Byte)) /\ sigs[i].weight \in Int

VARIABLES
  signatures, target,       \* what is compiled, for which target
  pc,                       \* "new", "insert", "fail", "scan"
  sig, alt,                 \* New: the next signature, the next of its alternatives
  rules,                    \* Matcher.rules
  size, next, fail, out,    \* Matcher.nodes: their number, then by node
  word,                     \* by node: the bytes that lead to it (history)
  state, pos, queue,        \* where insert, buildFailures, FindAll are
  text, seen                \* FindAll

ruleVars == <<signatures, target, sig, alt, rules>>
nodeVars == <<size, next, fail, out, word>>
scanVars == <<text, seen>>
mVars    == <<ruleVars, pc, nodeVars, state, pos, queue, scanVars>>

Node == 0..(size - 1)

-----------------------------------------------------------------------------
(* CompileRuleset *)

\* extractPatternTokens: an alternative in lower case.
Token(i, j) == LET alternative == signatures[i].pattern[j]
               IN  [k \in DOMAIN alternative |-> ToLower[alternative[k]]]

\* Signatures of an unknown target are matched against everything.
TargetOf(i) == IF signatures[i].match \in Targets THEN signatures[i].match ELSE "any"

-----------------------------------------------------------------------------
(* New *)

Init ==
  /\ signatures \in Rulesets /\ target \in Targets
  /\ pc = "new" /\ sig = 1 /\ alt = 1
  /\ rules = <<>>
  /\ size = 1
  /\ next = [n \in {0} |-> [b \in Byte |-> -1]]
  /\ fail = [n \in {0} |-> 0]
  /\ out  = [n \in {0} |-> {}]
  /\ word = [n \in {0} |-> <<>>]
  /\ state = 0 /\ pos = 0 /\ queue = <<>>
  /\ text = <<>> /\ seen = {}

\* An alternative of a signature of this target is up for insertion.
AtToken == /\ pc = "new"
           /\ sig <= Len(signatures)
           /\ TargetOf(sig) = target
           /\ alt <= Len(signatures[sig].pattern)

NextSignature ==
  /\ pc = "new" /\ sig <= Len(signatures) /\ ~AtToken
  /\ sig' = sig + 1 /\ alt' = 1
  /\ UNCHANGED <<signatures, target, pc, rules, nodeVars, state, pos, queue, scanVars>>

\* An empty token is skipped.
SkipToken ==
  /\ AtToken
  /\ Token(sig, alt) = <<>>
  /\ alt' = alt + 1
  /\ UNCHANGED <<signatures, target, pc, sig, rules, nodeVars, state, pos, queue, scanVars>>

\* A weight is at least 1.
AddRule ==
  /\ AtToken
  /\ Token(sig, alt) # <<>>
  /\ LET weight == signatures[sig].weight
     IN  rules' = Append(rules, [id |-> sig, alt |-> alt,
                                 weight |-> IF weight <= 0 THEN 1 ELSE weight])
  /\ pc' = "insert"
  /\ UNCHANGED <<signatures, target, sig, alt, nodeVars, state, pos, queue, scanVars>>

\* append(m.nodes, newNode()), one field at a time.
Pushed(f, new) == [n \in 0..size |-> IF n = size THEN new ELSE f[n]]

\* One byte of insert: the edge taken, or a new node.
InsertByte ==
  /\ pc = "insert"
  /\ pos < Len(Token(sig, alt))
  /\ LET b == AsciiLower[Token(sig, alt)[pos + 1]]
     IN  IF next[state][b] # -1
         THEN state' = next[state][b] /\ UNCHANGED nodeVars
         ELSE /\ size' = size + 1
              /\ next' = [Pushed(next, [c \in Byte |-> -1]) EXCEPT ![state][b] = size]
              /\ fail' = Pushed(fail, 0)
              /\ out'  = Pushed(out, {})
              /\ word' = Pushed(word, Append(word[state], b))
              /\ state' = size
  /\ pos' = pos + 1
  /\ UNCHANGED <<ruleVars, pc, queue, scanVars>>

InsertEnd ==
  /\ pc = "insert"
  /\ pos = Len(Token(sig, alt))
  /\ out' = [out EXCEPT ![state] = @ \cup {Len(rules)}]
  /\ pc' = "new" /\ alt' = alt + 1
  /\ state' = 0 /\ pos' = 0
  /\ UNCHANGED <<signatures, target, sig, rules, size, next, fail, word, queue, scanVars>>

Compiled ==
  /\ pc = "new" /\ sig > Len(signatures)
  /\ pc' = "fail"
  /\ UNCHANGED <<ruleVars, nodeVars, state, pos, queue, scanVars>>

-----------------------------------------------------------------------------
(* buildFailures *)

\* Mutant: the missing edges of the root stay missing.
RootEdgeNoLoop ==
  /\ pc = "fail" /\ state = 0 /\ pos < ByteCount
  /\ queue' = IF next[0][pos] = -1 THEN queue ELSE Append(queue, next[0][pos])
  /\ pos' = pos + 1
  /\ UNCHANGED <<ruleVars, pc, nodeVars, state, scanVars>>

\* One edge of the root: a missing one leads back to it, a child fails to it.
RootEdge ==
  LET child == next[0][pos]
  IN  /\ pc = "fail" /\ state = 0 /\ pos < ByteCount
      /\ IF child = -1
         THEN next' = [next EXCEPT ![0][pos] = 0] /\ UNCHANGED <<fail, queue>>
         ELSE /\ fail' = [fail EXCEPT ![child] = 0]
              /\ queue' = Append(queue, child)
              /\ UNCHANGED next
      /\ pos' = pos + 1
      /\ UNCHANGED <<ruleVars, pc, size, out, word, state, scanVars>>

\* Mutant: the edges just completed are followed too.
NodeEdgeRequeues ==
  LET child == next[state][pos]
      over  == next[fail[state]][pos]
  IN  /\ pc = "fail" /\ state # 0 /\ pos < ByteCount
      /\ IF child = -1
         THEN /\ next' = [next EXCEPT ![state][pos] = over]
              /\ queue' = IF over = 0 THEN queue ELSE Append(queue, over)
              /\ UNCHANGED <<fail, out>>
         ELSE /\ fail' = [fail EXCEPT ![child] = over]
              /\ out' = [out EXCEPT ![child] = @ \cup out[over]]
              /\ queue' = Append(queue, child)
              /\ UNCHANGED next
      /\ pos' = pos + 1
      /\ UNCHANGED <<ruleVars, pc, size, word, state, scanVars>>

\* Mutant: the matches of the failure node forgotten.
NodeEdgeNoOut ==
  LET child == next[state][pos]
      over  == next[fail[state]][pos]
  IN  /\ pc = "fail" /\ state # 0 /\ pos < ByteCount
      /\ IF child = -1
         THEN next' = [next EXCEPT ![state][pos] = over] /\ UNCHANGED <<fail, queue>>
         ELSE /\ fail' = [fail EXCEPT ![child] = over]
              /\ queue' = Append(queue, child)
              /\ UNCHANGED next
      /\ pos' = pos + 1
      /\ UNCHANGED <<ruleVars, pc, size, out, word, state, scanVars>>

\* One edge of another node: a missing one goes where the failure node goes; a child
\* fails there, inherits its matches and is queued.
NodeEdge ==
  LET child == next[state][pos]
      over  == next[fail[state]][pos]
  IN  /\ pc = "fail" /\ state # 0 /\ pos < ByteCount
      /\ IF child = -1
         THEN next' = [next EXCEPT ![state][pos] = over] /\ UNCHANGED <<fail, out, queue>>
         ELSE /\ fail' = [fail EXCEPT ![child] = over]
              /\ out' = [out EXCEPT ![child] = @ \cup out[over]]
              /\ queue' = Append(queue, child)
              /\ UNCHANGED next
      /\ pos' = pos + 1
      /\ UNCHANGED <<ruleVars, pc, size, word, state, scanVars>>

Dequeue ==
  /\ pc = "fail" /\ pos = ByteCount
  /\ pos' = 0
  /\ IF queue = <<>>
     THEN pc' = "scan" /\ state' = 0 /\ UNCHANGED queue
     ELSE state' = Head(queue) /\ queue' = Tail(queue) /\ UNCHANGED pc
  /\ UNCHANGED <<ruleVars, nodeVars, scanVars>>

-----------------------------------------------------------------------------
(* FindAll *)

Scan(b) ==
  /\ pc = "scan"
  /\ rules # <<>>
  /\ Len(text) < MaxText
  /\ text' = Append(text, b)
  /\ state' = next[state][AsciiLower[b]]
  /\ seen' = seen \cup out[state']
  /\ UNCHANGED <<ruleVars, pc, nodeVars, pos, queue>>

Next == \/ NextSignature \/ SkipToken \/ AddRule
        \/ InsertByte \/ InsertEnd \/ Compiled
        \/ RootEdge \/ NodeEdge \/ Dequeue
        \/ \E b \in Byte : Scan(b)

Spec == Init /\ [][Next]_mVars

-----------------------------------------------------------------------------
(* Properties *)

Occurs(token, t) == \E k \in 0..(Len(t) - Len(token)) : SubSeq(t, k + 1, k + Len(token)) = token

\* The alternatives of the signatures, as <<signature, alternative>>.
Alternatives == UNION {{i} \X DOMAIN signatures[i].pattern : i \in DOMAIN signatures}

\* The text as FindAll reads it.
Low == [k \in DOMAIN text |-> AsciiLower[text[k]]]

Weight(i) == IF signatures[i].weight > 0 THEN signatures[i].weight ELSE 1

\* Alternatives of this target that are inserted.
Searched(a) == TargetOf(a[1]) = target /\ Token(a[1], a[2]) # <<>>

\* A scan reports exactly the alternatives of the target's signatures that occur in
\* the text so far: overlapping ones, ones inside others and repeated ones too, each
\* with the weight of its signature or 1.
FindsExactly ==
  pc = "scan" =>
    {<<rules[r].id, rules[r].alt, rules[r].weight>> : r \in seen} =
    {<<a[1], a[2], Weight(a[1])>> :
       a \in {a \in Alternatives : Searched(a) /\ Occurs(Token(a[1], a[2]), Low)}}

\* The breadth-first construction queues a node once, so that it ends, and hands a
\* node's matches on only when they are complete: nobody behind it in the queue is
\* its failure node.
BreadthFirst ==
  pc = "fail" => /\ \A i, j \in DOMAIN queue : queue[i] = queue[j] => i = j
                 /\ \A i, j \in DOMAIN queue : i <= j => fail[queue[i]] # queue[j]

\* After the construction no edge of a node is missing: a scan never leaves the array.
Complete == pc = "scan" => \A n \in Node, b \in Byte : next[n][b] \in Node
=============================================================================
