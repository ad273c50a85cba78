---------------------------- MODULE MatcherProofs ----------------------------
(***************************************************************************)
(* The automaton finds exactly the alternatives that occur, for every      *)
(* ruleset, alphabet and text.                                             *)
(***************************************************************************)
EXTENDS Matcher, SequenceTheorems, WellFoundedInduction, TLAPS

\* u ends w.
Suffix(u, w) ==
  /\ Len(u) <= Len(w)
  /\ \A k \in 0..(Len(u) - 1) : u[Len(u) - k] = w[Len(w) - k]

Depth(n) == Len(word[n])

\* Node m stands for the longest suffix of w that is a node.
Longest(m, w) ==
  /\ Suffix(word[m], w)
  /\ \A n \in Node : Suffix(word[n], w) => Suffix(word[n], word[m])

\* fail[n] stands for the longest proper suffix of n that is a node.
FailsRight(n) ==
  /\ Depth(fail[n]) < Depth(n)
  /\ Suffix(word[fail[n]], word[n])
  /\ \A m \in Node : m # n /\ Suffix(word[m], word[n]) => Suffix(word[m], word[fail[n]])

RuleWord(r) == Token(rules[r].id, rules[r].alt)

\* The rules whose token is in the trie.
Inserted == 1..(IF pc = "insert" THEN Len(rules) - 1 ELSE Len(rules))

Queued(n) == \E i \in DOMAIN queue : queue[i] = n

Full(n) == \A b \in Byte : next[n][b] # -1

-----------------------------------------------------------------------------
(* The inductive invariant *)

Positive == Nat \ {0}

TypeInv ==
  /\ signatures \in Rulesets
  /\ pc \in {"new", "insert", "fail", "scan"}
  /\ sig \in Positive /\ alt \in Positive
  /\ rules \in Seq([id : Positive, alt : Positive, weight : Int])
  /\ size \in Positive
  /\ next \in [Node -> [Byte -> Node \cup {-1}]]
  /\ fail \in [Node -> Node]
  /\ out \in [Node -> SUBSET (1..Len(rules))]
  /\ word \in [Node -> Seq(Byte)]
  /\ state \in Node
  /\ pos \in Nat
  /\ queue \in Seq(Node)
  /\ text \in Seq(Byte)
  /\ seen \subseteq 1..Len(rules)
  /\ pc # "scan" => text = <<>> /\ seen = {}

\* The rules are the alternatives of this target's signatures up to the cursor.
RulesInv ==
  /\ \A r \in DOMAIN rules :
       /\ <<rules[r].id, rules[r].alt>> \in Alternatives
       /\ Searched(<<rules[r].id, rules[r].alt>>)
       /\ rules[r].weight = Weight(rules[r].id)
  /\ \A i \in DOMAIN signatures : \A j \in DOMAIN signatures[i].pattern :
       /\ Searched(<<i, j>>)
       /\ i < sig \/ (i = sig /\ j < alt)
       => \E r \in DOMAIN rules : rules[r].id = i /\ rules[r].alt = j
  /\ pc = "insert" => /\ rules # <<>> /\ rules[Len(rules)].id = sig /\ rules[Len(rules)].alt = alt
                      /\ sig <= Len(signatures)
  /\ pc \in {"fail", "scan"} => sig > Len(signatures)

\* The nodes are the prefixes of the tokens, each reached from its parent.
TrieInv ==
  /\ word[0] = <<>>
  /\ \A m, n \in Node : word[m] = word[n] => m = n
  /\ \A n \in Node : n # 0 =>
       \E p \in Node, b \in Byte : p < n /\ word[n] = Append(word[p], b) /\ next[p][b] = n
  /\ \A r \in Inserted : \E n \in Node : word[n] = RuleWord(r)

\* While tokens are inserted an edge leads to a child, and a node holds its own rules.
GrowInv ==
  pc \in {"new", "insert"} =>
    /\ queue = <<>>
    /\ pc = "new" => state = 0 /\ pos = 0
    /\ pc = "insert" => /\ pos <= Len(Token(sig, alt))
                        /\ word[state] = SubSeq(Token(sig, alt), 1, pos)
    /\ \A n \in Node, b \in Byte : next[n][b] # -1 => word[next[n][b]] = Append(word[n], b)
    /\ \A n \in Node : \A r \in 1..Len(rules) :
         r \in out[n] <=> r \in Inserted /\ RuleWord(r) = word[n]

\* An edge, once there, leads to the longest suffix.
EdgesRight ==
  pc \in {"fail", "scan"} =>
    \A n \in Node, b \in Byte : next[n][b] # -1 => Longest(next[n][b], Append(word[n], b))

\* The breadth-first frontier: nodes above the current one are complete, the queue
\* holds the rest of its level and the children found so far.
LevelInv ==
  pc = "fail" =>
    /\ pos <= ByteCount
    /\ \A n \in Node : Depth(n) < Depth(state) => Full(n)
    /\ \A b \in Byte : b < pos => next[state][b] # -1
    /\ \A n \in Node : Depth(n) = Depth(state) => n = state \/ Queued(n) \/ Full(n)
    /\ \A n, p \in Node, b \in Byte :
         /\ word[n] = Append(word[p], b) /\ Depth(p) = Depth(state)
         /\ ~Queued(p) /\ (p = state => b < pos)
         => Queued(n)
    /\ \A n \in Node, b \in Byte :
         /\ next[n][b] # -1
         /\ Queued(n) \/ Depth(n) > Depth(state) \/ (n = state /\ b >= pos)
         => word[next[n][b]] = Append(word[n], b)

QueueInv ==
  pc = "fail" =>
    /\ \A i \in DOMAIN queue : Depth(queue[i]) \in {Depth(state), Depth(state) + 1}
    /\ \A i, j \in DOMAIN queue : i <= j => Depth(queue[i]) <= Depth(queue[j])
    /\ \A i, j \in DOMAIN queue : queue[i] = queue[j] => i = j
    /\ ~Queued(state)
    /\ \A n, p \in Node, b \in Byte :
         Queued(n) /\ word[n] = Append(word[p], b) => ~Queued(p) /\ (p = state => b < pos)

\* Failure nodes and matches of the nodes found so far.
FoundInv ==
  pc = "fail" =>
    /\ \A n \in Node : n # 0 /\ (n = state \/ Queued(n)) => FailsRight(n)
    /\ \A n \in Node : \A r \in 1..Len(rules) :
         r \in out[n] <=> IF Depth(n) <= Depth(state) \/ Queued(n)
                          THEN Suffix(RuleWord(r), word[n]) ELSE RuleWord(r) = word[n]

ScanInv ==
  pc = "scan" =>
    /\ \A n \in Node : Full(n)
    /\ \A n \in Node : \A r \in 1..Len(rules) : r \in out[n] <=> Suffix(RuleWord(r), word[n])
    /\ Longest(state, Low)
    /\ seen = {r \in 1..Len(rules) : Occurs(RuleWord(r), Low)}

MatcherInv ==
  /\ TypeInv /\ RulesInv /\ TrieInv /\ GrowInv
  /\ EdgesRight /\ LevelInv /\ QueueInv /\ FoundInv /\ ScanInv

-----------------------------------------------------------------------------
(* Suffixes *)

\* A sequence ends itself, and the empty one ends every sequence.
LEMMA SuffixReflexive ==
  ASSUME NEW u \in Seq(Byte)
  PROVE  Suffix(u, u) /\ Suffix(<<>>, u)
BY DEF Suffix

\* What ends the end ends the whole.
LEMMA SuffixTransitive ==
  ASSUME NEW u \in Seq(Byte), NEW v \in Seq(Byte), NEW w \in Seq(Byte),
         Suffix(u, v), Suffix(v, w)
  PROVE  Suffix(u, w)
BY DEF Suffix

\* Of two ends of one sequence the shorter ends the longer.
LEMMA SuffixNested ==
  ASSUME NEW u \in Seq(Byte), NEW v \in Seq(Byte), NEW w \in Seq(Byte),
         Suffix(u, w), Suffix(v, w), Len(u) <= Len(v)
  PROVE  Suffix(u, v)
BY DEF Suffix

\* An end as long as the whole is the whole.
LEMMA SuffixWhole ==
  ASSUME NEW u \in Seq(Byte), NEW w \in Seq(Byte), Suffix(u, w), Len(w) <= Len(u)
  PROVE  u = w
<1>1. Len(u) = Len(w) /\ Len(u) \in Nat
  BY DEF Suffix
<1>2. ASSUME NEW k \in 1..Len(u)
      PROVE  u[k] = w[k]
  <2>1. Len(u) - k \in 0..(Len(u) - 1) /\ Len(u) - (Len(u) - k) = k
    BY <1>1
  <2> QED BY <1>1, <2>1 DEF Suffix
<1> QED BY <1>1, <1>2, SeqEqual

\* Sequences longer by one byte end each other when the shorter ones do.
LEMMA SuffixAppend ==
  ASSUME NEW u \in Seq(Byte), NEW w \in Seq(Byte), NEW a \in Byte, NEW b \in Byte
  PROVE  Suffix(Append(u, a), Append(w, b)) <=> a = b /\ Suffix(u, w)
<1> DEFINE x == Append(u, a)
           y == Append(w, b)
<1>1. /\ x \in Seq(Byte) /\ y \in Seq(Byte)
      /\ Len(x) = Len(u) + 1 /\ Len(y) = Len(w) + 1
      /\ x[Len(x)] = a /\ y[Len(y)] = b
      /\ \A k \in 1..Len(u) : x[k] = u[k]
      /\ \A k \in 1..Len(w) : y[k] = w[k]
  BY AppendProperties
<1>2. Len(u) \in Nat /\ Len(w) \in Nat
  OBVIOUS
<1> HIDE DEF x, y
<1>3. ASSUME Suffix(x, y)
      PROVE  a = b /\ Suffix(u, w)
  <2>1. Len(u) <= Len(w) /\ x[Len(x) - 0] = y[Len(y) - 0]
    BY <1>1, <1>2, <1>3 DEF Suffix
  <2>2. ASSUME NEW k \in 0..(Len(u) - 1)
        PROVE  u[Len(u) - k] = w[Len(w) - k]
    <3>1. k + 1 \in 0..(Len(x) - 1)
      BY <1>1, <1>2
    <3>2. x[Len(x) - (k + 1)] = y[Len(y) - (k + 1)]
      BY <1>3, <3>1 DEF Suffix
    <3>3. Len(x) - (k + 1) = Len(u) - k /\ Len(y) - (k + 1) = Len(w) - k
      BY <1>1, <1>2
    <3>4. Len(u) - k \in 1..Len(u) /\ Len(w) - k \in 1..Len(w)
      BY <1>2, <2>1
    <3> QED BY <1>1, <3>2, <3>3, <3>4
  <2> QED BY <1>1, <2>1, <2>2 DEF Suffix
<1>4. ASSUME a = b, Suffix(u, w)
      PROVE  Suffix(x, y)
  <2>1. Len(x) <= Len(y)
    BY <1>1, <1>2, <1>4 DEF Suffix
  <2>2. ASSUME NEW k \in 0..(Len(x) - 1)
        PROVE  x[Len(x) - k] = y[Len(y) - k]
    <3>1. CASE k = 0
      BY <1>1, <1>2, <1>4, <3>1
    <3>2. CASE k # 0
      <4>1. k - 1 \in 0..(Len(u) - 1) /\ Len(u) <= Len(w)
        BY <1>1, <1>2, <1>4, <3>2 DEF Suffix
      <4>2. u[Len(u) - (k - 1)] = w[Len(w) - (k - 1)]
        BY <1>4, <4>1 DEF Suffix
      <4>3. Len(u) - (k - 1) \in 1..Len(u) /\ Len(w) - (k - 1) \in 1..Len(w)
        BY <1>2, <4>1
      <4>4. Len(x) - k = Len(u) - (k - 1) /\ Len(y) - k = Len(w) - (k - 1)
        BY <1>1, <1>2
      <4> QED BY <1>1, <4>2, <4>3, <4>4
    <3> QED BY <3>1, <3>2
  <2> QED BY <2>1, <2>2 DEF Suffix
<1> QED BY <1>3, <1>4 DEF x, y

\* What is appended to determines the whole, and the whole what is appended to.
LEMMA AppendSplits ==
  ASSUME NEW u \in Seq(Byte), NEW w \in Seq(Byte), NEW a \in Byte, NEW b \in Byte,
         Append(u, a) = Append(w, b)
  PROVE  u = w /\ a = b
BY AppendInjective

-----------------------------------------------------------------------------
(* The trie *)

\* What the types say of nodes and edges.
LEMMA NodeTypes ==
  ASSUME TypeInv
  PROVE  /\ size \in Nat /\ size > 0 /\ 0 \in Node /\ -1 \notin Node
         /\ \A n \in Node : n \in Nat /\ n < size /\ word[n] \in Seq(Byte) /\ Depth(n) \in Nat
         /\ \A n \in Node, b \in Byte : next[n][b] # -1 => next[n][b] \in Node
<1>1. size \in Nat /\ size > 0
  BY DEF TypeInv, Positive
<1>2. 0 \in Node /\ -1 \notin Node /\ \A n \in Node : n \in Nat /\ n < size
  BY <1>1 DEF Node
<1>3. \A n \in Node : word[n] \in Seq(Byte) /\ Depth(n) \in Nat
  BY DEF TypeInv, Depth
<1>4. \A n \in Node, b \in Byte : next[n][b] \in Node \cup {-1}
  BY DEF TypeInv
<1> QED BY <1>1, <1>2, <1>3, <1>4

\* A node whose word continues another's is that node's child.
LEMMA ChildEdge ==
  ASSUME TypeInv, TrieInv, NEW m \in Node, NEW n \in Node, NEW b \in Byte,
         word[m] = Append(word[n], b)
  PROVE  next[n][b] = m /\ m # n /\ m # 0 /\ Depth(m) = Depth(n) + 1
<1>1. word[m] \in Seq(Byte) /\ word[n] \in Seq(Byte) /\ 0 \in Node /\ -1 \notin Node
  BY NodeTypes
<1>2. Len(word[m]) = Len(word[n]) + 1 /\ Len(word[n]) \in Nat /\ word[m] # <<>>
  BY <1>1, AppendProperties
<1>3. m # 0 /\ m # n
  BY <1>2 DEF TrieInv
<1>4. PICK p \in Node, c \in Byte : word[m] = Append(word[p], c) /\ next[p][c] = m
  BY <1>3 DEF TrieInv
<1>5. word[p] = word[n] /\ c = b
  <2>1. /\ word[p] \in Seq(Byte) /\ word[n] \in Seq(Byte)
        /\ Append(word[p], c) = Append(word[n], b)
    BY <1>4, NodeTypes
  <2> QED BY ONLY <2>1, AppendSplits, c \in Byte, b \in Byte
<1> QED BY <1>2, <1>3, <1>4, <1>5 DEF TrieInv, Depth

\* A node that ends a longer sequence is the root or a child of a node that ends it
\* without its last byte.
LEMMA EndsChild ==
  ASSUME TypeInv, TrieInv, NEW n \in Node, NEW w \in Seq(Byte), NEW b \in Byte,
         Suffix(word[n], Append(w, b)), n # 0
  PROVE  \E p \in Node : word[n] = Append(word[p], b) /\ Suffix(word[p], w)
<1>1. PICK p \in Node, c \in Byte : word[n] = Append(word[p], c)
  BY DEF TrieInv
<1>2. c = b /\ Suffix(word[p], w)
  BY <1>1, NodeTypes, SuffixAppend
<1> QED BY <1>1, <1>2

\* The longest suffix of a text, led on by a byte, is that of the longer text.
LEMMA LongestStep ==
  ASSUME TypeInv, TrieInv, NEW w \in Seq(Byte), NEW b \in Byte, NEW m \in Node, NEW t \in Node,
         Longest(m, w), Longest(t, Append(word[m], b))
  PROVE  Longest(t, Append(w, b))
<1>1. /\ word[m] \in Seq(Byte) /\ word[t] \in Seq(Byte)
      /\ Append(w, b) \in Seq(Byte) /\ Append(word[m], b) \in Seq(Byte)
  BY NodeTypes, AppendProperties
<1>2. Suffix(word[t], Append(w, b))
  <2>1. Suffix(Append(word[m], b), Append(w, b))
    BY <1>1, SuffixAppend DEF Longest
  <2> QED BY <1>1, <2>1, SuffixTransitive DEF Longest
<1>3. ASSUME NEW n \in Node, Suffix(word[n], Append(w, b))
      PROVE  Suffix(word[n], word[t])
  <2>1. CASE n = 0
    BY <1>1, <2>1, SuffixReflexive DEF TrieInv
  <2>2. CASE n # 0
    <3>1. PICK p \in Node : word[n] = Append(word[p], b) /\ Suffix(word[p], w)
      BY <1>3, <2>2, EndsChild
    <3>2. Suffix(word[p], word[m]) /\ word[p] \in Seq(Byte)
      BY <3>1, NodeTypes DEF Longest
    <3>3. Suffix(word[n], Append(word[m], b))
      BY <1>1, <3>1, <3>2, SuffixAppend
    <3> QED BY <3>3 DEF Longest
  <2> QED BY <2>1, <2>2
<1> QED BY <1>2, <1>3 DEF Longest

\* o stands for the longest suffix of node s led on by b that is a node, that sequence
\* itself set aside.
Overtakes(o, s, b) ==
  /\ o \in Node
  /\ Suffix(word[o], Append(word[s], b))
  /\ Depth(o) <= Depth(s)
  /\ \A n \in Node : Suffix(word[n], Append(word[s], b)) /\ word[n] # Append(word[s], b)
                       => Suffix(word[n], word[o])

\* Where an edge that is missing leads, and where a child fails.
Over == IF state = 0 THEN 0 ELSE next[fail[state]][pos]

\* From the root every byte without a child leads back to it.
LEMMA RootOvertakes ==
  ASSUME TypeInv, TrieInv, NEW b \in Byte
  PROVE  Overtakes(0, 0, b)
<1>1. 0 \in Node /\ word[0] = <<>> /\ <<>> \in Seq(Byte) /\ Depth(0) = 0
  BY NodeTypes DEF TrieInv, Depth
<1>2. Append(word[0], b) \in Seq(Byte)
  BY <1>1, AppendProperties
<1>3. ASSUME NEW n \in Node, Suffix(word[n], Append(word[0], b)), word[n] # Append(word[0], b)
      PROVE  Suffix(word[n], word[0])
  <2>1. CASE n = 0
    BY <1>1, <2>1, SuffixReflexive
  <2>2. CASE n # 0
    <3>1. PICK p \in Node : word[n] = Append(word[p], b) /\ Suffix(word[p], word[0])
      BY <1>1, <1>3, <2>2, EndsChild
    <3>2. word[p] = word[0]
      BY <1>1, <3>1, NodeTypes, SuffixWhole DEF Depth
    <3> QED BY <1>3, <3>1, <3>2
  <2> QED BY <2>1, <2>2
<1>4. Suffix(word[0], Append(word[0], b))
  BY <1>1, <1>2, SuffixReflexive
<1> QED BY <1>1, <1>3, <1>4 DEF Overtakes

\* From another node the edge of the failure node leads to the longest proper suffix.
LEMMA FailureOvertakes ==
  ASSUME TypeInv, TrieInv, NEW s \in Node, NEW b \in Byte, s # 0, FailsRight(s),
         NEW o \in Node, Longest(o, Append(word[fail[s]], b))
  PROVE  Overtakes(o, s, b)
<1> DEFINE f == fail[s]
<1>1. /\ f \in Node /\ word[f] \in Seq(Byte) /\ word[s] \in Seq(Byte) /\ word[o] \in Seq(Byte)
      /\ Append(word[f], b) \in Seq(Byte) /\ Append(word[s], b) \in Seq(Byte)
      /\ Len(Append(word[f], b)) = Len(word[f]) + 1
  BY NodeTypes, AppendProperties DEF TypeInv
<1>2. Suffix(word[o], Append(word[s], b))
  <2>1. Suffix(Append(word[f], b), Append(word[s], b))
    BY <1>1, SuffixAppend DEF FailsRight
  <2> QED BY <1>1, <2>1, SuffixTransitive DEF Longest
<1>3. Depth(o) <= Depth(s)
  <2>1. Len(word[o]) <= Len(word[f]) + 1 /\ Len(word[f]) < Len(word[s])
    BY <1>1 DEF Longest, Suffix, FailsRight, Depth
  <2> QED BY <1>1, <2>1, NodeTypes DEF Depth
<1>4. ASSUME NEW n \in Node, Suffix(word[n], Append(word[s], b)), word[n] # Append(word[s], b)
      PROVE  Suffix(word[n], word[o])
  <2>1. CASE n = 0
    BY <1>1, <2>1, SuffixReflexive DEF TrieInv
  <2>2. CASE n # 0
    <3>1. PICK p \in Node : word[n] = Append(word[p], b) /\ Suffix(word[p], word[s])
      BY <1>1, <1>4, <2>2, EndsChild
    <3>2. p # s
      BY <1>4, <3>1
    <3>3. Suffix(word[p], word[f]) /\ word[p] \in Seq(Byte)
      BY <3>1, <3>2, NodeTypes DEF FailsRight
    <3>4. Suffix(word[n], Append(word[f], b))
      BY <1>1, <3>1, <3>3, SuffixAppend
    <3> QED BY <3>4 DEF Longest
  <2> QED BY <2>1, <2>2
<1> QED BY <1>2, <1>3, <1>4 DEF Overtakes

-----------------------------------------------------------------------------
(* The construction of the failure edges *)

Child == next[state][pos]

\* RootEdge and NodeEdge at once: the root is a node that everything fails to.
EdgeStep ==
  /\ pc = "fail" /\ pos < ByteCount
  /\ IF Child = -1
     THEN next' = [next EXCEPT ![state][pos] = Over] /\ UNCHANGED <<fail, out, queue>>
     ELSE /\ fail' = [fail EXCEPT ![Child] = Over]
          /\ out' = [out EXCEPT ![Child] = @ \cup out[Over]]
          /\ queue' = Append(queue, Child)
          /\ UNCHANGED next
  /\ pos' = pos + 1
  /\ UNCHANGED <<ruleVars, pc, size, word, state, scanVars>>

\* The token of a rule is a sequence of bytes that insert and FindAll lower no further.
LEMMA TokenBytes ==
  ASSUME TypeInv, NEW i \in DOMAIN signatures, NEW j \in DOMAIN signatures[i].pattern
  PROVE  /\ Token(i, j) \in Seq(Byte)
         /\ Len(Token(i, j)) = Len(signatures[i].pattern[j])
         /\ \A k \in 1..Len(Token(i, j)) : AsciiLower[Token(i, j)[k]] = Token(i, j)[k]
<1> DEFINE alternative == signatures[i].pattern[j]
<1>0. signatures[i].pattern \in Seq(Seq(Byte))
  BY RulesetsAssumption DEF TypeInv
<1>1. alternative \in Seq(Byte)
  BY <1>0
<1>2. \A k \in 1..Len(alternative) : alternative[k] \in Byte
  BY <1>1
<1>3. Token(i, j) = [k \in 1..Len(alternative) |-> ToLower[alternative[k]]]
  BY <1>1 DEF Token
<1>4. \A k \in 1..Len(alternative) : /\ ToLower[alternative[k]] \in Byte
                                     /\ AsciiLower[ToLower[alternative[k]]] = ToLower[alternative[k]]
  BY <1>2, MatcherAssumption
<1> HIDE DEF alternative
<1>5. Len(alternative) \in Nat
  BY <1>1
<1>6. Token(i, j) \in Seq(Byte) /\ Len(Token(i, j)) = Len(alternative)
  BY <1>3, <1>4, <1>5, IsASeq
<1> QED BY <1>3, <1>4, <1>6 DEF alternative

LEMMA AlternativesPairs ==
  \A i, j : <<i, j>> \in Alternatives <=> i \in DOMAIN signatures /\ j \in DOMAIN signatures[i].pattern
BY DEF Alternatives

\* The token of a rule is a non-empty one of the signatures'.
LEMMA RuleWords ==
  ASSUME TypeInv, RulesInv, NEW r \in 1..Len(rules)
  PROVE  RuleWord(r) \in Seq(Byte) /\ RuleWord(r) # <<>>
<1>1. r \in DOMAIN rules
  BY DEF TypeInv
<1>2. <<rules[r].id, rules[r].alt>> \in Alternatives /\ Token(rules[r].id, rules[r].alt) # <<>>
  BY <1>1 DEF RulesInv, Searched
<1>3. rules[r].id \in DOMAIN signatures /\ rules[r].alt \in DOMAIN signatures[rules[r].id].pattern
  BY <1>2, AlternativesPairs
<1> QED BY <1>2, <1>3, TokenBytes DEF RuleWord

LEMMA EdgeIsStep ==
  ASSUME MatcherInv, RootEdge \/ NodeEdge
  PROVE  EdgeStep /\ pos \in Byte /\ Overtakes(Over, state, pos)
<1> USE DEF MatcherInv
<1>1. pc = "fail" /\ pos < ByteCount /\ pos \in Byte /\ state \in Node
  BY MatcherAssumption DEF RootEdge, NodeEdge, TypeInv, Byte
<1>2. CASE RootEdge
  <2>1. state = 0 /\ Over = 0
    BY <1>2 DEF RootEdge, Over
  <2>2. out[0] = {} /\ 0 \in Node
    <3>1. \A r \in 1..Len(rules) : ~Suffix(RuleWord(r), <<>>)
      <4> TAKE r \in 1..Len(rules)
      <4>1. RuleWord(r) \in Seq(Byte) /\ RuleWord(r) # <<>>
        BY RuleWords
      <4>2. Len(RuleWord(r)) > 0
        BY <4>1
      <4> QED BY <4>2 DEF Suffix
    <3>2. 0 \in Node /\ word[0] = <<>> /\ out[0] \subseteq 1..Len(rules)
      BY NodeTypes DEF TrieInv, TypeInv
    <3> QED BY <1>1, <2>1, <3>1, <3>2, NodeTypes DEF FoundInv
  <2>3. Child # -1 => [out EXCEPT ![Child] = @ \cup out[0]] = out
    <3>1. out \in [Node -> SUBSET (1..Len(rules))]
      BY DEF TypeInv
    <3> QED BY <2>2, <3>1
  <2> QED BY <1>1, <1>2, <2>1, <2>3, RootOvertakes DEF RootEdge, EdgeStep, Child
<1>3. CASE NodeEdge
  <2>1. state # 0 /\ Over = next[fail[state]][pos]
    BY <1>3 DEF NodeEdge, Over
  <2>2. FailsRight(state) /\ fail[state] \in Node
    BY <1>1, <2>1 DEF FoundInv, TypeInv
  <2>3. Full(fail[state])
    BY <1>1, <2>2 DEF LevelInv, FailsRight
  <2>4. Over \in Node
    BY <1>1, <2>1, <2>2, <2>3, NodeTypes DEF Full
  <2>5. Longest(Over, Append(word[fail[state]], pos))
    BY <1>1, <2>1, <2>2, <2>3 DEF Full, EdgesRight
  <2>6. Overtakes(Over, state, pos)
    BY <1>1, <2>1, <2>2, <2>4, <2>5, FailureOvertakes
  <2> QED BY <1>1, <1>3, <2>1, <2>6 DEF NodeEdge, EdgeStep, Child
<1> QED BY <1>2, <1>3

\* What an edge changes: one missing edge, or a child joins the queue.
LEMMA EdgeFrame ==
  ASSUME MatcherInv, EdgeStep, pos \in Byte, Overtakes(Over, state, pos)
  PROVE  /\ pc = "fail" /\ state \in Node /\ Over \in Node /\ Over # -1
         /\ \A n \in Node, b \in Byte :
              next'[n][b] = IF n = state /\ b = pos /\ Child = -1 THEN Over ELSE next[n][b]
         /\ \A n \in Node : fail'[n] = IF n = Child THEN Over ELSE fail[n]
         /\ \A n \in Node : out'[n] = IF n = Child THEN out[n] \cup out[Over] ELSE out[n]
         /\ \A n \in Node : Queued(n)' <=> Queued(n) \/ n = Child
         /\ Child # -1 => /\ Child \in Node /\ word[Child] = Append(word[state], pos)
                          /\ Child # state /\ Child # 0 /\ Depth(Child) = Depth(state) + 1
                          /\ ~Queued(Child)
         /\ Child = -1 => \A n \in Node : word[n] # Append(word[state], pos)
<1> USE DEF MatcherInv
<1>1. pc = "fail" /\ state \in Node /\ Over \in Node /\ Over # -1 /\ -1 \notin Node
  BY NodeTypes DEF EdgeStep, TypeInv, Overtakes
<1>2. \A n \in Node, b \in Byte :
        next'[n][b] = IF n = state /\ b = pos /\ Child = -1 THEN Over ELSE next[n][b]
  BY <1>1 DEF EdgeStep, TypeInv
<1>3. Child # -1 => Child \in Node
  BY <1>1, NodeTypes DEF Child
<1>4. \A n \in Node : /\ fail'[n] = IF n = Child THEN Over ELSE fail[n]
                      /\ out'[n] = IF n = Child THEN out[n] \cup out[Over] ELSE out[n]
  BY <1>1, <1>3 DEF EdgeStep, TypeInv
<1>5. \A n \in Node : Queued(n)' <=> Queued(n) \/ n = Child
  <2>1. CASE Child = -1
    BY <1>1, <2>1 DEF EdgeStep, Queued
  <2>2. CASE Child # -1
    <3>1. queue' = Append(queue, Child) /\ queue \in Seq(Node) /\ Child \in Node
      BY <1>3, <2>2 DEF EdgeStep, TypeInv
    <3>2. /\ DOMAIN queue = 1..Len(queue) /\ DOMAIN queue' = 1..(Len(queue) + 1)
          /\ queue'[Len(queue) + 1] = Child /\ Len(queue) \in Nat
          /\ \A i \in 1..Len(queue) : queue'[i] = queue[i]
      BY <3>1
    <3> QED BY <3>2 DEF Queued
  <2> QED BY <2>1, <2>2
<1>0. pos \in Nat /\ pos >= pos /\ ~(pos < pos)
  BY DEF TypeInv
<1>6. Child # -1 => word[Child] = Append(word[state], pos)
  BY <1>0, <1>1 DEF LevelInv, Child
<1>7. Child # -1 => /\ Child # state /\ Child # 0 /\ Depth(Child) = Depth(state) + 1
  BY <1>1, <1>3, <1>6, ChildEdge
<1>8. Child # -1 => ~Queued(Child)
  BY <1>0, <1>1, <1>3, <1>6 DEF QueueInv
<1>9. Child = -1 => \A n \in Node : word[n] # Append(word[state], pos)
  BY <1>1, ChildEdge DEF Child
<1> QED BY <1>1, <1>2, <1>3, <1>4, <1>5, <1>6, <1>7, <1>8, <1>9

\* What stays as it is under an edge.
LEMMA EdgeKeeps ==
  ASSUME EdgeStep
  PROVE  /\ pc' = "fail" /\ pos' = pos + 1 /\ state' = state /\ word' = word
         /\ Node' = Node /\ rules' = rules /\ signatures' = signatures
         /\ \A n : Depth(n)' = Depth(n)
         /\ \A r : RuleWord(r)' = RuleWord(r)
BY DEF EdgeStep, ruleVars, Node, Depth, RuleWord, Token

LEMMA EdgeTyped ==
  ASSUME MatcherInv, EdgeStep, pos \in Byte, Overtakes(Over, state, pos)
  PROVE  TypeInv'
<1> USE DEF MatcherInv
<1>1. /\ Over \in Node /\ (Child # -1 => Child \in Node) /\ state \in Node
      /\ next \in [Node -> [Byte -> Node \cup {-1}]] /\ fail \in [Node -> Node]
      /\ out \in [Node -> SUBSET (1..Len(rules))] /\ queue \in Seq(Node)
  BY EdgeFrame DEF TypeInv
<1>2. next' \in [Node -> [Byte -> Node \cup {-1}]]
  <2>1. next' = next \/ next' = [next EXCEPT ![state] = [next[state] EXCEPT ![pos] = Over]]
    BY DEF EdgeStep
  <2>2. [next[state] EXCEPT ![pos] = Over] \in [Byte -> Node \cup {-1}]
    BY <1>1
  <2> QED BY <1>1, <2>1, <2>2
<1>3. fail' \in [Node -> Node] /\ out' \in [Node -> SUBSET (1..Len(rules))]
  <2>1. CASE Child = -1
    BY <1>1, <2>1 DEF EdgeStep
  <2>2. CASE Child # -1
    <3>1. fail' = [fail EXCEPT ![Child] = Over] /\ out' = [out EXCEPT ![Child] = @ \cup out[Over]]
      BY <2>2 DEF EdgeStep
    <3>2. out[Child] \cup out[Over] \in SUBSET (1..Len(rules))
      BY <1>1, <2>2
    <3> QED BY <1>1, <2>2, <3>1, <3>2
  <2> QED BY <2>1, <2>2
<1>4. queue' \in Seq(Node)
  <2>1. queue' = queue \/ (Child \in Node /\ queue' = Append(queue, Child))
    BY <1>1 DEF EdgeStep
  <2> QED BY <1>1, <2>1
<1>5. pos' \in Nat
  BY DEF EdgeStep, TypeInv
<1> QED BY <1>2, <1>3, <1>4, <1>5 DEF EdgeStep, TypeInv, ruleVars, scanVars, Node

LEMMA EdgeTrie ==
  ASSUME MatcherInv, EdgeStep, pos \in Byte, Overtakes(Over, state, pos)
  PROVE  RulesInv' /\ TrieInv' /\ GrowInv' /\ ScanInv'
<1> USE DEF MatcherInv
<1>1. RulesInv'
  BY DEF RulesInv, EdgeStep, ruleVars, Alternatives, Searched, Weight, Token, TargetOf
<1>2. \A n \in Node : n # 0 =>
        \E p \in Node, b \in Byte : p < n /\ word[n] = Append(word[p], b) /\ next'[p][b] = n
  <2> TAKE n \in Node
  <2> HAVE n # 0
  <2>1. PICK p \in Node, b \in Byte : p < n /\ word[n] = Append(word[p], b) /\ next[p][b] = n
    BY DEF TrieInv
  <2>2. n # -1
    BY NodeTypes
  <2>3. next'[p][b] = n
    BY <2>1, <2>2, EdgeFrame DEF Child
  <2> QED BY <2>1, <2>3
<1>3. Inserted' = Inserted
  BY DEF Inserted, EdgeStep, ruleVars
<1>4. TrieInv'
  BY <1>2, <1>3, EdgeKeeps DEF TrieInv
<1> QED BY <1>1, <1>4, EdgeKeeps DEF GrowInv, ScanInv

LEMMA EdgeEdges ==
  ASSUME MatcherInv, EdgeStep, pos \in Byte, Overtakes(Over, state, pos)
  PROVE  EdgesRight'
<1> USE DEF MatcherInv
<1>1. ASSUME NEW n \in Node, NEW b \in Byte, next'[n][b] # -1
      PROVE  Longest(next'[n][b], Append(word[n], b))
  <2>1. CASE n = state /\ b = pos /\ Child = -1
    <3>1. next'[n][b] = Over /\ \A m \in Node : word[m] # Append(word[state], pos)
      BY <2>1, EdgeFrame
    <3> QED BY <2>1, <3>1 DEF Longest, Overtakes
  <2>2. CASE ~(n = state /\ b = pos /\ Child = -1)
    <3>1. next'[n][b] = next[n][b]
      BY <2>2, EdgeFrame
    <3> QED BY <1>1, <3>1, EdgeFrame DEF EdgesRight
  <2> QED BY <2>1, <2>2
<1> QED BY <1>1, EdgeKeeps DEF EdgesRight, Longest

LEMMA EdgeLevel ==
  ASSUME MatcherInv, EdgeStep, pos \in Byte, Overtakes(Over, state, pos)
  PROVE  LevelInv'
<1> USE DEF MatcherInv
<1>0. pc = "fail" /\ state \in Node /\ pos \in Nat /\ Byte \subseteq Nat /\ ByteCount \in Nat
  BY MatcherAssumption DEF EdgeStep, TypeInv, Byte
<1>1. pos' <= ByteCount
  BY <1>0 DEF EdgeStep
<1>2. \A n \in Node : Full(n) => Full(n)'
  BY EdgeFrame DEF Full
<1>3. \A b \in Byte : b < pos' => next'[state][b] # -1
  <2> TAKE b \in Byte
  <2>1. CASE b < pos
    BY <1>0, <2>1, EdgeFrame DEF LevelInv
  <2>2. CASE b = pos
    BY <1>0, <2>2, EdgeFrame DEF Child
  <2>3. b < pos' => b < pos \/ b = pos
    BY <1>0 DEF EdgeStep
  <2> QED BY <2>1, <2>2, <2>3
<1>4. \A n \in Node : Depth(n) = Depth(state) => n = state \/ Queued(n)' \/ Full(n)'
  BY <1>0, <1>2, EdgeFrame DEF LevelInv
<1>5. ASSUME NEW n \in Node, NEW p \in Node, NEW b \in Byte,
             word[n] = Append(word[p], b), Depth(p) = Depth(state),
             ~Queued(p)', p = state => b < pos'
      PROVE  Queued(n)'
  <2>1. ~Queued(p)
    BY <1>5, EdgeFrame
  <2>2. CASE p = state /\ b = pos
    BY <1>5, <2>2, ChildEdge, EdgeFrame DEF Child
  <2>3. CASE p = state => b < pos
    BY <1>0, <1>5, <2>1, <2>3, EdgeFrame DEF LevelInv
  <2>4. p = state => b < pos \/ b = pos
    BY <1>0, <1>5 DEF EdgeStep
  <2> QED BY <2>2, <2>3, <2>4
<1>6. ASSUME NEW n \in Node, NEW b \in Byte, next'[n][b] # -1,
             Queued(n)' \/ Depth(n) > Depth(state) \/ (n = state /\ b >= pos')
      PROVE  word[next'[n][b]] = Append(word[n], b)
  <2>1. Queued(n) \/ Depth(n) > Depth(state) \/ (n = state /\ b >= pos /\ b # pos)
    <3>1. CASE Queued(n)'
      <4>1. CASE n = Child
        <5>1. Depth(n) = Depth(state) + 1 /\ Depth(state) \in Nat
          BY <1>0, <4>1, NodeTypes, EdgeFrame
        <5> QED BY <5>1
      <4> QED BY <3>1, <4>1, EdgeFrame
    <3> QED BY <1>0, <1>6, <3>1 DEF EdgeStep
  <2>2. ~(n = state /\ b = pos)
    BY <1>0, <2>1, NodeTypes DEF QueueInv
  <2>3. next'[n][b] = next[n][b]
    BY <2>2, EdgeFrame
  <2> QED BY <1>0, <1>6, <2>1, <2>3 DEF LevelInv
<1>7. \A n \in Node : Depth(n) < Depth(state) => Full(n)'
  BY <1>0, <1>2 DEF LevelInv
<1> QED BY <1>1, <1>3, <1>4, <1>5, <1>6, <1>7, EdgeKeeps DEF LevelInv

LEMMA EdgeQueue ==
  ASSUME MatcherInv, EdgeStep, pos \in Byte, Overtakes(Over, state, pos)
  PROVE  QueueInv'
<1> USE DEF MatcherInv
<1>0. /\ pc = "fail" /\ state \in Node /\ pos \in Nat /\ Depth(state) \in Nat
      /\ Byte \subseteq Nat /\ pos' = pos + 1
  <2>1. pc = "fail" /\ state \in Node /\ pos \in Nat /\ Byte \subseteq Nat /\ pos' = pos + 1
    BY MatcherAssumption DEF EdgeStep, TypeInv, Byte
  <2> QED BY <2>1, NodeTypes
<1>1. \A p \in Node : p = state => ~Queued(p)'
  <2>1. state # Child
    BY <1>0, NodeTypes, EdgeFrame
  <2>2. ~Queued(state)
    BY <1>0 DEF QueueInv
  <2> QED BY <2>1, <2>2, EdgeFrame
<1>2. ASSUME NEW n \in Node, NEW p \in Node, NEW b \in Byte,
             Queued(n)', word[n] = Append(word[p], b)
      PROVE  ~Queued(p)' /\ (p = state => b < pos')
  <2>0. Depth(n) = Depth(p) + 1 /\ Depth(p) \in Nat
    BY <1>2, ChildEdge, NodeTypes
  <2>1. CASE Queued(n)
    <3>1. ~Queued(p) /\ (p = state => b < pos)
      BY <1>0, <1>2, <2>1 DEF QueueInv
    <3>2. Depth(n) <= Depth(state) + 1
      BY <1>0, <2>1 DEF QueueInv, Queued
    <3>3. p # Child
      BY <1>0, <2>0, <3>2, EdgeFrame, NodeTypes
    <3>4. p = state => b < pos + 1
      BY <1>0, <3>1
    <3> QED BY <1>0, <3>1, <3>3, <3>4, EdgeFrame
  <2>2. CASE n = Child
    <3>1. n # -1 /\ word[n] = Append(word[state], pos)
      BY <2>2, NodeTypes, EdgeFrame
    <3>2. p = state /\ b = pos
      <4>1. word[p] \in Seq(Byte) /\ word[state] \in Seq(Byte)
        BY <1>0, NodeTypes
      <4>2. word[p] = word[state] /\ b = pos
        BY <1>2, <3>1, <4>1, AppendSplits, Zenon
      <4> QED BY <1>0, <4>2 DEF TrieInv
    <3> QED BY <1>0, <1>1, <3>2
  <2> QED BY <1>2, <2>1, <2>2, EdgeFrame
<1>3. CASE Child = -1
  <2>1. queue' = queue
    BY <1>3 DEF EdgeStep
  <2> QED BY <1>0, <1>1, <1>2, <2>1, EdgeKeeps DEF QueueInv
<1>4. CASE Child # -1
  <2>1. queue' = Append(queue, Child) /\ queue \in Seq(Node) /\ Child \in Node
    BY <1>4, EdgeFrame DEF EdgeStep, TypeInv
  <2>2. /\ DOMAIN queue = 1..Len(queue) /\ DOMAIN queue' = 1..(Len(queue) + 1)
        /\ queue'[Len(queue) + 1] = Child /\ Len(queue) \in Nat
        /\ \A i \in 1..Len(queue) : queue'[i] = queue[i]
    BY <2>1
  <2>3. Depth(Child) = Depth(state) + 1 /\ \A i \in 1..Len(queue) : queue[i] # Child
    BY <1>4, <2>2, EdgeFrame DEF Queued
  <2>4. \A i \in DOMAIN queue' : Depth(queue'[i]) \in {Depth(state), Depth(state) + 1}
    <3> TAKE i \in DOMAIN queue'
    <3>1. CASE i = Len(queue) + 1
      BY <2>2, <2>3, <3>1
    <3>2. CASE i \in 1..Len(queue)
      BY <1>0, <2>2, <3>2 DEF QueueInv
    <3> QED BY <2>2, <3>1, <3>2
  <2>5. ASSUME NEW i \in DOMAIN queue', NEW j \in DOMAIN queue'
        PROVE  /\ i <= j => Depth(queue'[i]) <= Depth(queue'[j])
               /\ queue'[i] = queue'[j] => i = j
    <3>1. CASE i \in 1..Len(queue) /\ j \in 1..Len(queue)
      BY <1>0, <2>2, <3>1 DEF QueueInv
    <3>2. CASE j = Len(queue) + 1
      BY <1>0, <2>2, <2>3, <2>4, <3>2
    <3>3. CASE i = Len(queue) + 1 /\ j \in 1..Len(queue)
      BY <2>2, <2>3, <3>3
    <3> QED BY <2>2, <3>1, <3>2, <3>3
  <2> QED BY <1>0, <1>1, <1>2, <2>4, <2>5, EdgeKeeps DEF QueueInv
<1> QED BY <1>3, <1>4

LEMMA EdgeFound ==
  ASSUME MatcherInv, EdgeStep, pos \in Byte, Overtakes(Over, state, pos)
  PROVE  FoundInv'
<1> USE DEF MatcherInv
<1>0. pc = "fail" /\ state \in Node /\ Over \in Node
  BY EdgeFrame
<1>1. CASE Child = -1
  <2>1. /\ fail' = fail /\ out' = out /\ \A n \in Node : Queued(n)' <=> Queued(n)
    BY <1>1, NodeTypes, EdgeFrame DEF EdgeStep
  <2> QED BY <1>0, <2>1, EdgeKeeps DEF FoundInv, FailsRight
<1>2. CASE Child # -1
  <2> DEFINE c == Child
             w == Append(word[state], pos)
  <2>1. /\ c \in Node /\ word[c] = w /\ ~Queued(c) /\ c # 0
        /\ Depth(c) = Depth(state) + 1 /\ Depth(state) \in Nat
        /\ w \in Seq(Byte) /\ word[Over] \in Seq(Byte)
    BY <1>0, <1>2, EdgeFrame, NodeTypes
  <2>2. /\ \A n \in Node : fail'[n] = IF n = c THEN Over ELSE fail[n]
        /\ \A n \in Node : out'[n] = IF n = c THEN out[n] \cup out[Over] ELSE out[n]
        /\ \A n \in Node : Queued(n)' <=> Queued(n) \/ n = c
    BY EdgeFrame
  <2> HIDE DEF c, w
  <2>3. Suffix(word[Over], w) /\ Depth(Over) <= Depth(state)
    BY DEF Overtakes, w
  <2>4. ASSUME NEW m \in Node, m # c, Suffix(word[m], w)
        PROVE  Suffix(word[m], word[Over])
    <3>1. word[m] # w
      BY <2>1, <2>4 DEF TrieInv
    <3> QED BY <2>4, <3>1 DEF Overtakes, w
  <2>5. ASSUME NEW n \in Node, n # 0, n = state \/ Queued(n)'
        PROVE  /\ Depth(fail'[n]) < Depth(n)
               /\ Suffix(word[fail'[n]], word[n])
               /\ \A m \in Node : m # n /\ Suffix(word[m], word[n]) => Suffix(word[m], word[fail'[n]])
    <3>1. CASE n = c
      <4>1. fail'[n] = Over /\ Depth(Over) < Depth(n)
        BY <1>0, <2>1, <2>2, <2>3, <3>1, NodeTypes
      <4> QED BY <2>1, <2>3, <2>4, <3>1, <4>1
    <3>2. CASE n # c
      <4>1. fail'[n] = fail[n] /\ (n = state \/ Queued(n))
        BY <2>2, <2>5, <3>2
      <4> QED BY <1>0, <2>5, <4>1 DEF FoundInv, FailsRight
    <3> QED BY <3>1, <3>2
  <2>6. ASSUME NEW n \in Node, NEW r \in 1..Len(rules)
        PROVE  r \in out'[n] <=> IF Depth(n) <= Depth(state) \/ Queued(n)'
                                 THEN Suffix(RuleWord(r), word[n]) ELSE RuleWord(r) = word[n]
    <3>1. CASE n # c
      BY <1>0, <2>2, <3>1 DEF FoundInv
    <3>2. CASE n = c
      <4>1. r \in out[c] <=> RuleWord(r) = w
        <5>1. ~(Depth(c) <= Depth(state))
          BY <2>1
        <5> QED BY <1>0, <2>1, <5>1 DEF FoundInv
      <4>2. r \in out[Over] <=> Suffix(RuleWord(r), word[Over])
        BY <1>0, <2>3 DEF FoundInv
      <4>3. RuleWord(r) \in Seq(Byte)
        BY RuleWords
      <4>4. PICK m \in Node : word[m] = RuleWord(r)
        BY <1>0 DEF TrieInv, Inserted
      <4>5. Suffix(RuleWord(r), w) => RuleWord(r) = w \/ Suffix(RuleWord(r), word[Over])
        BY <2>1, <2>4, <4>4
      <4>6. RuleWord(r) = w => Suffix(RuleWord(r), w)
        BY <4>3, SuffixReflexive
      <4>7. Suffix(RuleWord(r), word[Over]) => Suffix(RuleWord(r), w)
        BY <2>1, <2>3, <4>3, SuffixTransitive
      <4> QED BY <2>1, <2>2, <3>2, <4>1, <4>2, <4>5, <4>6, <4>7
    <3> QED BY <3>1, <3>2
  <2> QED BY <2>5, <2>6, EdgeKeeps DEF FoundInv, FailsRight
<1> QED BY <1>1, <1>2

\* A level is complete when the queue holds only deeper nodes: the next is all in it.
LEMMA NextLevelQueued ==
  ASSUME MatcherInv, pc = "fail", pos = ByteCount,
         \A n \in Node : Queued(n) => Depth(n) > Depth(state),
         NEW n \in Node, Depth(n) = Depth(state) + 1
  PROVE  Queued(n)
<1> USE DEF MatcherInv
<1>1. n # 0
  BY NodeTypes DEF TrieInv, Depth, TypeInv
<1>2. PICK p \in Node, b \in Byte : word[n] = Append(word[p], b)
  BY <1>1 DEF TrieInv
<1>3. Depth(n) = Depth(p) + 1 /\ Depth(p) \in Nat /\ Depth(state) \in Nat
  BY <1>2, ChildEdge, NodeTypes DEF TypeInv
<1>4. Depth(p) = Depth(state) /\ ~Queued(p) /\ b < pos
  BY <1>3, MatcherAssumption DEF Byte
<1> QED BY <1>2, <1>4 DEF LevelInv

LEMMA CurrentFull ==
  ASSUME MatcherInv, pc = "fail", pos = ByteCount
  PROVE  Full(state)
BY MatcherAssumption DEF MatcherInv, LevelInv, Full, Byte

\* The head of the queue and the rest of it.
LEMMA QueueSplits ==
  ASSUME MatcherInv, pc = "fail", queue # <<>>, queue' = Tail(queue)
  PROVE  /\ Head(queue) \in Node /\ queue' \in Seq(Node)
         /\ 1 \in DOMAIN queue /\ queue[1] = Head(queue)
         /\ \A i \in DOMAIN queue' : i \in Nat /\ i + 1 \in DOMAIN queue /\ queue'[i] = queue[i + 1]
         /\ \A n : Queued(n) <=> n = Head(queue) \/ Queued(n)'
         /\ \A n : n = Head(queue) => ~Queued(n)'
<1> USE DEF MatcherInv
<1>1. queue \in Seq(Node) /\ Len(queue) \in Nat /\ Len(queue) >= 1
  BY DEF TypeInv
<1>2. /\ DOMAIN queue = 1..Len(queue) /\ DOMAIN queue' = 1..(Len(queue) - 1)
      /\ queue' \in Seq(Node) /\ queue[1] = Head(queue) /\ queue[1] \in Node
      /\ \A i \in 1..(Len(queue) - 1) : queue'[i] = queue[i + 1]
  BY <1>1
<1>3. \A n : Queued(n) <=> n = Head(queue) \/ Queued(n)'
  <2> TAKE n
  <2>1. Queued(n) => n = Head(queue) \/ Queued(n)'
    <3> SUFFICES ASSUME NEW i \in DOMAIN queue, queue[i] = n, i # 1
                 PROVE  Queued(n)'
      BY <1>2 DEF Queued
    <3>1. i - 1 \in DOMAIN queue' /\ queue'[i - 1] = n
      BY <1>1, <1>2
    <3> QED BY <3>1 DEF Queued
  <2>2. Queued(n)' => Queued(n)
    <3> SUFFICES ASSUME NEW i \in DOMAIN queue', queue'[i] = n
                 PROVE  Queued(n)
      BY DEF Queued
    <3>1. i + 1 \in DOMAIN queue /\ queue[i + 1] = n
      BY <1>1, <1>2
    <3> QED BY <3>1 DEF Queued
  <2> QED BY <1>1, <1>2, <2>1, <2>2 DEF Queued
<1>4. \A n : n = Head(queue) => ~Queued(n)'
  <2> SUFFICES ASSUME NEW i \in DOMAIN queue', queue'[i] = queue[1]
               PROVE  FALSE
    BY <1>2 DEF Queued
  <2>1. i + 1 \in DOMAIN queue /\ 1 \in DOMAIN queue /\ i + 1 # 1 /\ queue[i + 1] = queue[1]
    BY <1>1, <1>2
  <2> QED BY <2>1 DEF QueueInv
<1> QED BY <1>1, <1>2, <1>3, <1>4

\* The next node is taken from the queue.
LEMMA DequeueNext ==
  ASSUME MatcherInv, Dequeue, queue # <<>>
  PROVE  MatcherInv'
<1> USE DEF MatcherInv
<1> DEFINE h == Head(queue)
<1>0. /\ pc = "fail" /\ pos = ByteCount /\ pos' = 0 /\ pc' = "fail"
      /\ state' = h /\ queue' = Tail(queue)
      /\ UNCHANGED <<ruleVars, nodeVars, scanVars>>
  BY DEF Dequeue
<1>1. /\ h \in Node /\ queue' \in Seq(Node)
      /\ 1 \in DOMAIN queue /\ queue[1] = h
      /\ \A i \in DOMAIN queue' : i \in Nat /\ i + 1 \in DOMAIN queue /\ queue'[i] = queue[i + 1]
      /\ \A n : Queued(n) <=> n = h \/ Queued(n)'
      /\ \A n : n = h => ~Queued(n)'
  BY <1>0, QueueSplits
<1>2. /\ Node' = Node /\ word' = word /\ next' = next /\ fail' = fail /\ out' = out
      /\ rules' = rules /\ signatures' = signatures /\ Inserted' = Inserted
      /\ \A n : Depth(n)' = Depth(n) /\ (Full(n)' <=> Full(n))
      /\ \A r : RuleWord(r)' = RuleWord(r)
  BY <1>0 DEF ruleVars, nodeVars, Node, Depth, RuleWord, Token, Inserted, Full
<1> HIDE DEF h
<1>3. /\ \A n \in Node : Depth(n) \in Nat
      /\ state \in Node /\ Byte \subseteq Nat /\ ByteCount \in Nat /\ Full(state)
  <2>1. Byte \subseteq Nat /\ ByteCount \in Nat /\ state \in Node
    BY MatcherAssumption DEF TypeInv, Byte
  <2> QED BY <1>0, <2>1, NodeTypes, CurrentFull
<1>4. Depth(h) = Depth(state) \/ Depth(h) = Depth(state) + 1
  BY <1>0, <1>1 DEF QueueInv
<1>5. \A n \in Node : Queued(n) => Depth(n) >= Depth(h) /\ Depth(n) <= Depth(state) + 1
  <2> TAKE n \in Node
  <2> HAVE Queued(n)
  <2>1. PICK i \in DOMAIN queue : queue[i] = n
    BY DEF Queued
  <2>2. 1 <= i /\ 1 \in DOMAIN queue
    BY <1>1 DEF TypeInv
  <2>3. Depth(h) <= Depth(n)
    BY <1>0, <1>1, <2>1, <2>2 DEF QueueInv
  <2>4. Depth(n) \in {Depth(state), Depth(state) + 1}
    BY <1>0, <2>1 DEF QueueInv
  <2> QED BY <1>1, <1>3, <2>3, <2>4
<1>6. Depth(h) = Depth(state) + 1 => \A n \in Node : Depth(n) = Depth(h) => Queued(n)
  <2> SUFFICES ASSUME Depth(h) = Depth(state) + 1, NEW n \in Node, Depth(n) = Depth(h)
               PROVE  Queued(n)
    OBVIOUS
  <2>1. \A m \in Node : Queued(m) => Depth(m) > Depth(state)
    BY <1>3, <1>5
  <2> QED BY <1>0, <2>1, NextLevelQueued
<1>7. \A n \in Node : Depth(n) = Depth(h) => n = state \/ Queued(n) \/ Full(n)
  BY <1>0, <1>4, <1>6 DEF LevelInv
<1>8. TypeInv' /\ RulesInv' /\ TrieInv' /\ GrowInv' /\ EdgesRight' /\ ScanInv'
  <2>1. TypeInv'
    BY <1>0, <1>1, <1>2 DEF TypeInv, ruleVars, nodeVars, scanVars
  <2>2. RulesInv'
    BY <1>0, <1>2 DEF RulesInv, ruleVars, Alternatives, Searched, Weight, Token, TargetOf
  <2>3. TrieInv' /\ EdgesRight'
    BY <1>0, <1>2 DEF TrieInv, EdgesRight, Longest
  <2> QED BY <1>0, <2>1, <2>2, <2>3 DEF GrowInv, ScanInv
<1>9. LevelInv'
  <2>1. \A n \in Node : Depth(n) < Depth(h) => Full(n)
    <3> TAKE n \in Node
    <3> HAVE Depth(n) < Depth(h)
    <3>1. CASE Depth(n) < Depth(state)
      BY <1>0, <3>1 DEF LevelInv
    <3>2. CASE Depth(n) = Depth(state)
      BY <1>0, <1>1, <1>3, <1>5, <3>2 DEF LevelInv
    <3> QED BY <1>1, <1>3, <1>4, <3>1, <3>2
  <2>2. \A n \in Node : Depth(n) = Depth(h) => n = h \/ Queued(n)' \/ Full(n)
    BY <1>1, <1>3, <1>7
  <2>3. ASSUME NEW n \in Node, NEW p \in Node, NEW b \in Byte,
               word[n] = Append(word[p], b), Depth(p) = Depth(h), ~Queued(p)', p # h
        PROVE  Queued(n)'
    <3>1. ~Queued(p)
      BY <1>1, <2>3
    <3>2. Depth(p) = Depth(state)
      BY <1>4, <1>6, <2>3, <3>1
    <3>3. Queued(n)
      BY <1>0, <1>3, <2>3, <3>1, <3>2, MatcherAssumption DEF LevelInv, Byte
    <3>4. n # h
      BY <1>1, <1>3, <2>3, ChildEdge
    <3> QED BY <1>1, <3>3, <3>4
  <2>4. ASSUME NEW n \in Node, NEW b \in Byte, next[n][b] # -1,
               Queued(n)' \/ Depth(n) > Depth(h) \/ n = h
        PROVE  word[next[n][b]] = Append(word[n], b)
    <3>1. Queued(n) \/ Depth(n) > Depth(state)
      BY <1>1, <1>3, <1>4, <2>4
    <3> QED BY <1>0, <2>4, <3>1 DEF LevelInv
  <2>5. pos' <= ByteCount /\ \A b \in Byte : ~(b < pos')
    BY <1>0, <1>3
  <2>6. \A n \in Node : Depth(n) < Depth(h) => Full(n)'
    BY <1>2, <2>1
  <2>7. \A n \in Node : Depth(n) = Depth(h) => n = h \/ Queued(n)' \/ Full(n)'
    BY <1>2, <2>2
  <2>8. \A n, p \in Node, b \in Byte :
          /\ word[n] = Append(word[p], b) /\ Depth(p) = Depth(h)
          /\ ~Queued(p)' /\ (p = h => b < pos')
          => Queued(n)'
    BY <2>3, <2>5
  <2>9. \A n \in Node, b \in Byte :
          /\ next[n][b] # -1
          /\ Queued(n)' \/ Depth(n) > Depth(h) \/ (n = h /\ b >= pos')
          => word[next[n][b]] = Append(word[n], b)
    BY <2>4
  <2>10. Depth(state)' = Depth(h)
    BY <1>0, <1>2 DEF Depth
  <2> QED BY <1>0, <1>2, <2>5, <2>6, <2>7, <2>8, <2>9, <2>10 DEF LevelInv
<1>10. QueueInv'
  <2>1. \A i \in DOMAIN queue' : Depth(queue'[i]) \in {Depth(h), Depth(h) + 1}
    <3> TAKE i \in DOMAIN queue'
    <3>1. queue'[i] \in Node /\ Queued(queue'[i])
      BY <1>1 DEF TypeInv, Queued
    <3> QED BY <1>1, <1>3, <1>4, <1>5, <3>1
  <2>2. ASSUME NEW i \in DOMAIN queue', NEW j \in DOMAIN queue'
        PROVE  /\ i <= j => Depth(queue'[i]) <= Depth(queue'[j])
               /\ queue'[i] = queue'[j] => i = j
    <3>1. /\ i \in Nat /\ j \in Nat /\ i + 1 \in DOMAIN queue /\ j + 1 \in DOMAIN queue
          /\ queue'[i] = queue[i + 1] /\ queue'[j] = queue[j + 1]
      BY <1>1
    <3>2. i + 1 <= j + 1 => Depth(queue[i + 1]) <= Depth(queue[j + 1])
      BY <1>0, <3>1 DEF QueueInv
    <3>3. queue[i + 1] = queue[j + 1] => i + 1 = j + 1
      BY <1>0, <3>1 DEF QueueInv
    <3> QED BY <3>1, <3>2, <3>3
  <2>3. ASSUME NEW n \in Node, NEW p \in Node, NEW b \in Byte,
               Queued(n)', word[n] = Append(word[p], b)
        PROVE  ~Queued(p)' /\ p # h
    <3>1. ~Queued(p)
      BY <1>0, <1>1, <2>3 DEF QueueInv
    <3> QED BY <1>1, <3>1
  <2>4. ~Queued(state)'
    BY <1>0, <1>1 DEF Queued
  <2> QED BY <1>0, <1>2, <2>1, <2>2, <2>3, <2>4 DEF QueueInv
<1>11. FoundInv'
  <2>1. \A n \in Node : n # 0 /\ (n = h \/ Queued(n)') => FailsRight(n)
    BY <1>0, <1>1 DEF FoundInv
  <2>2. ASSUME NEW n \in Node
        PROVE  (Depth(n) <= Depth(h) \/ Queued(n)') <=> (Depth(n) <= Depth(state) \/ Queued(n))
    BY <1>1, <1>3, <1>4, <1>6
  <2> QED BY <1>0, <1>2, <2>1, <2>2 DEF FoundInv, FailsRight
<1> QED BY <1>8, <1>9, <1>10, <1>11

-----------------------------------------------------------------------------
(* Occurrences *)

\* token stands in t after its first k bytes.
StandsAt(token, t, k) ==
  k \in 0..(Len(t) - Len(token)) /\ \A i \in 1..Len(token) : t[k + i] = token[i]

LEMMA OccursStands ==
  ASSUME NEW token \in Seq(Byte), NEW t \in Seq(Byte)
  PROVE  Occurs(token, t) <=> \E k \in Nat : StandsAt(token, t, k)
<1>1. Len(token) \in Nat /\ Len(t) \in Nat
  OBVIOUS
<1>2. ASSUME NEW k \in 0..(Len(t) - Len(token))
      PROVE  SubSeq(t, k + 1, k + Len(token)) = token <=> StandsAt(token, t, k)
  <2> DEFINE s == SubSeq(t, k + 1, k + Len(token))
  <2>1. /\ s \in Seq(Byte) /\ Len(s) = Len(token)
        /\ \A i \in 1..Len(token) : s[i] = t[k + i]
    <3>1. \A i \in (k + 1)..(k + Len(token)) : t[i] \in Byte
      BY <1>1
    <3>2. k \in Nat /\ k + 1 \in Int /\ k + Len(token) \in Int
      BY <1>1
    <3>3. /\ s \in Seq(Byte)
          /\ Len(s) = IF k + 1 <= k + Len(token) THEN k + Len(token) - (k + 1) + 1 ELSE 0
          /\ \A i \in 1..(k + Len(token) - (k + 1) + 1) : s[i] = t[k + 1 + i - 1]
      BY <3>1, <3>2, SubSeqProperties
    <3> QED BY <1>1, <3>2, <3>3
  <2> HIDE DEF s
  <2>2. s = token <=> \A i \in 1..Len(token) : s[i] = token[i]
    BY <2>1, SeqEqual
  <2> QED BY <2>1, <2>2 DEF s, StandsAt
<1>3. 0..(Len(t) - Len(token)) \subseteq Nat
  BY <1>1
<1> QED BY <1>2, <1>3 DEF Occurs, StandsAt

\* What ends a sequence stands there at its end.
LEMMA SuffixStands ==
  ASSUME NEW token \in Seq(Byte), NEW t \in Seq(Byte)
  PROVE  Suffix(token, t) <=> StandsAt(token, t, Len(t) - Len(token))
<1>1. Len(token) \in Nat /\ Len(t) \in Nat
  OBVIOUS
<1>2. ASSUME Suffix(token, t)
      PROVE  StandsAt(token, t, Len(t) - Len(token))
  <2>1. ASSUME NEW i \in 1..Len(token)
        PROVE  t[Len(t) - Len(token) + i] = token[i]
    <3>1. /\ Len(token) - i \in 0..(Len(token) - 1)
          /\ Len(token) - (Len(token) - i) = i
          /\ Len(t) - (Len(token) - i) = Len(t) - Len(token) + i
      BY <1>1
    <3> QED BY <1>2, <3>1 DEF Suffix
  <2> QED BY <1>1, <1>2, <2>1 DEF StandsAt, Suffix
<1>3. ASSUME StandsAt(token, t, Len(t) - Len(token))
      PROVE  Suffix(token, t)
  <2>1. ASSUME NEW k \in 0..(Len(token) - 1)
        PROVE  token[Len(token) - k] = t[Len(t) - k]
    <3>1. /\ Len(token) - k \in 1..Len(token)
          /\ Len(t) - Len(token) + (Len(token) - k) = Len(t) - k
      BY <1>1
    <3> QED BY <1>3, <3>1 DEF StandsAt
  <2> QED BY <1>1, <1>3, <2>1 DEF StandsAt, Suffix
<1> QED BY <1>2, <1>3

\* A token occurs in a longer text when it occurred before or ends it.
LEMMA OccursAppend ==
  ASSUME NEW token \in Seq(Byte), NEW t \in Seq(Byte), NEW b \in Byte
  PROVE  Occurs(token, Append(t, b)) <=> Occurs(token, t) \/ Suffix(token, Append(t, b))
<1> DEFINE x == Append(t, b)
<1>1. /\ x \in Seq(Byte) /\ Len(x) = Len(t) + 1
      /\ \A i \in 1..Len(t) : x[i] = t[i]
  BY AppendProperties
<1>2. Len(token) \in Nat /\ Len(t) \in Nat
  OBVIOUS
<1> HIDE DEF x
<1>3. ASSUME NEW k \in Nat
      PROVE  StandsAt(token, x, k) <=>
               StandsAt(token, t, k) \/ (k = Len(x) - Len(token) /\ StandsAt(token, x, k))
  <2>1. k \in 0..(Len(t) - Len(token)) => \A i \in 1..Len(token) : x[k + i] = t[k + i]
    <3> SUFFICES ASSUME k \in 0..(Len(t) - Len(token)), NEW i \in 1..Len(token)
                 PROVE  x[k + i] = t[k + i]
      OBVIOUS
    <3>1. k + i \in 1..Len(t)
      BY <1>2
    <3> QED BY <1>1, <3>1
  <2>2. k \in 0..(Len(x) - Len(token)) <=>
          k \in 0..(Len(t) - Len(token)) \/ (k = Len(x) - Len(token))
    BY <1>1, <1>2
  <2> QED BY <2>1, <2>2 DEF StandsAt
<1>4. Suffix(token, x) <=> StandsAt(token, x, Len(x) - Len(token))
  BY <1>1, SuffixStands
<1>5. StandsAt(token, x, Len(x) - Len(token)) => Len(x) - Len(token) \in Nat
  BY <1>1, <1>2 DEF StandsAt
<1>6. Occurs(token, x) <=> \E k \in Nat : StandsAt(token, x, k)
  BY <1>1, OccursStands
<1>7. Occurs(token, t) <=> \E k \in Nat : StandsAt(token, t, k)
  BY OccursStands
<1> QED BY <1>3, <1>4, <1>5, <1>6, <1>7 DEF x

LEMMA NothingOccurs ==
  ASSUME NEW token \in Seq(Byte), token # <<>>
  PROVE  ~Occurs(token, <<>>)
BY DEF Occurs

\* A set of naturals that is not empty has a least element.
LEMMA LeastNat ==
  ASSUME NEW S, S \subseteq Nat, S # {}
  PROVE  \E n \in S : \A m \in S : n <= m
<1>1. PICK n \in S : \A m \in S : ~(<<m, n>> \in OpToRel(<, Nat))
  BY NatLessThanWellFounded, WFMin
<1>2. \A m \in S : ~(m < n)
  BY <1>1 DEF OpToRel
<1> QED BY <1>2

-----------------------------------------------------------------------------
(* The scan *)

\* No node is left when the queue is empty.
LEMMA AllFull ==
  ASSUME MatcherInv, pc = "fail", pos = ByteCount, queue = <<>>
  PROVE  \A n \in Node : Full(n) /\ Depth(n) <= Depth(state)
<1> USE DEF MatcherInv
<1>1. \A n \in Node : ~Queued(n) /\ Depth(n) \in Nat /\ n \in Nat
  BY NodeTypes DEF Queued
<1>2. Depth(state) \in Nat /\ Full(state)
  BY <1>1, CurrentFull DEF TypeInv
<1>3. \A n \in Node : Depth(n) # Depth(state) + 1
  BY <1>1, NextLevelQueued
<1>4. ASSUME {n \in Node : Depth(n) > Depth(state)} # {}
      PROVE  FALSE
  <2>1. PICK n \in Node : /\ Depth(n) > Depth(state)
                          /\ \A m \in Node : Depth(m) > Depth(state) => n <= m
    <3> DEFINE S == {n \in Node : Depth(n) > Depth(state)}
    <3>1. S \subseteq Nat /\ S # {}
      BY <1>1, <1>4
    <3>2. PICK n \in S : \A m \in S : n <= m
      BY <3>1, LeastNat
    <3> QED BY <3>2
  <2>2. n # 0
    BY <1>2, <2>1, NodeTypes DEF TrieInv, Depth
  <2>3. PICK p \in Node, b \in Byte : p < n /\ word[n] = Append(word[p], b)
    BY <2>2 DEF TrieInv
  <2>4. Depth(n) = Depth(p) + 1
    BY <2>3, ChildEdge
  <2>5. Depth(p) <= Depth(state)
    BY <1>1, <1>2, <2>1, <2>3
  <2> QED BY <1>1, <1>2, <1>3, <2>1, <2>4, <2>5
<1>5. \A n \in Node : Depth(n) <= Depth(state)
  BY <1>1, <1>2, <1>4
<1>6. \A n \in Node : Depth(n) < Depth(state) \/ Depth(n) = Depth(state)
  BY <1>1, <1>2, <1>5
<1> QED BY <1>1, <1>2, <1>5, <1>6 DEF LevelInv

LEMMA DequeueNothing ==
  ASSUME MatcherInv, Dequeue, queue = <<>>
  PROVE  MatcherInv'
<1> USE DEF MatcherInv
<1>0. /\ pc = "fail" /\ pos = ByteCount /\ pos' = 0 /\ pc' = "scan"
      /\ state' = 0 /\ queue' = queue
      /\ UNCHANGED <<ruleVars, nodeVars, scanVars>>
  BY DEF Dequeue
<1>1. /\ Node' = Node /\ word' = word /\ next' = next /\ out' = out
      /\ rules' = rules /\ Inserted' = Inserted /\ text' = <<>> /\ seen' = {}
      /\ \A n : Depth(n)' = Depth(n) /\ (Full(n)' <=> Full(n))
      /\ \A r : RuleWord(r)' = RuleWord(r)
  BY <1>0 DEF ruleVars, nodeVars, scanVars, Node, Depth, RuleWord, Token, Inserted, Full, TypeInv
<1>2. TypeInv'
  BY <1>0, <1>1, NodeTypes DEF TypeInv, ruleVars, nodeVars, scanVars
<1>3. RulesInv'
  BY <1>0, <1>1 DEF RulesInv, ruleVars, Alternatives, Searched, Weight, Token, TargetOf
<1>4. TrieInv' /\ EdgesRight'
  BY <1>0, <1>1 DEF TrieInv, EdgesRight, Longest
<1>5. ScanInv'
  <2>1. \A n \in Node : Full(n)
    BY <1>0, AllFull
  <2>2. \A n \in Node : \A r \in 1..Len(rules) : r \in out[n] <=> Suffix(RuleWord(r), word[n])
    BY <1>0, AllFull DEF FoundInv
  <2>3. Low' = <<>>
    BY <1>1 DEF Low
  <2>4. /\ Suffix(word[0], <<>>)
        /\ \A n \in Node : Suffix(word[n], <<>>) => Suffix(word[n], word[0])
    <3>1. <<>> \in Seq(Byte) /\ word[0] = <<>>
      BY DEF TrieInv
    <3> QED BY <3>1, SuffixReflexive
  <2>5. \A r \in 1..Len(rules) : ~Occurs(RuleWord(r), <<>>)
    BY RuleWords, NothingOccurs
  <2>6. Longest(state, Low)'
    BY <1>0, <1>1, <2>3, <2>4 DEF Longest
  <2>7. {r \in 1..Len(rules) : Occurs(RuleWord(r), <<>>)} = {}
    BY <2>5
  <2> QED BY <1>0, <1>1, <2>1, <2>2, <2>3, <2>6, <2>7 DEF ScanInv
<1> QED
  BY <1>0, <1>2, <1>3, <1>4, <1>5 DEF GrowInv, LevelInv, QueueInv, FoundInv

LEMMA LowBytes ==
  ASSUME NEW t \in Seq(Byte)
  PROVE  LET low == [k \in DOMAIN t |-> AsciiLower[t[k]]]
         IN  low \in Seq(Byte) /\ Len(low) = Len(t) /\ \A k \in 1..Len(t) : low[k] = AsciiLower[t[k]]
<1>1. DOMAIN t = 1..Len(t) /\ Len(t) \in Nat
  OBVIOUS
<1>2. \A k \in 1..Len(t) : AsciiLower[t[k]] \in Byte
  BY MatcherAssumption
<1> QED BY <1>1, <1>2, IsASeq

\* A byte of the text is read.
LEMMA ScanStep ==
  ASSUME MatcherInv, NEW b \in Byte, Scan(b)
  PROVE  MatcherInv'
<1> USE DEF MatcherInv
<1> DEFINE l == AsciiLower[b]
           t == next[state][l]
<1>0. /\ pc = "scan" /\ pc' = "scan" /\ text' = Append(text, b) /\ state' = t
      /\ seen' = seen \cup out[t]
      /\ UNCHANGED <<ruleVars, nodeVars, pos, queue>>
  BY DEF Scan
<1>1. l \in Byte /\ state \in Node /\ text \in Seq(Byte)
  BY MatcherAssumption DEF TypeInv
<1>2. t \in Node
  BY <1>0, <1>1, NodeTypes DEF ScanInv, Full
<1>3. /\ Node' = Node /\ word' = word /\ next' = next /\ out' = out
      /\ rules' = rules /\ Inserted' = Inserted
      /\ \A n : Full(n)' <=> Full(n)
      /\ \A r : RuleWord(r)' = RuleWord(r)
  BY <1>0 DEF ruleVars, nodeVars, Node, RuleWord, Token, Inserted, Full
<1> HIDE DEF l
<1>4. TypeInv'
  <2>1. text' \in Seq(Byte)
    BY <1>0, <1>1
  <2>2. seen' \subseteq 1..Len(rules)
    BY <1>0, <1>2 DEF TypeInv
  <2> QED BY <1>0, <1>2, <1>3, <2>1, <2>2 DEF TypeInv, ruleVars, nodeVars
<1>5. RulesInv'
  BY <1>0 DEF RulesInv, ruleVars, Alternatives, Searched, Weight, Token, TargetOf
<1>6. TrieInv' /\ EdgesRight'
  BY <1>0, <1>3 DEF TrieInv, EdgesRight, Longest
<1>7. Low' = Append(Low, l) /\ Low \in Seq(Byte)
  <2>1. /\ Low' \in Seq(Byte) /\ Len(Low') = Len(text')
        /\ \A k \in 1..Len(text') : Low'[k] = AsciiLower[text'[k]]
    BY <1>4, LowBytes DEF TypeInv, Low
  <2>2. /\ Low \in Seq(Byte) /\ Len(Low) = Len(text) /\ Len(text) \in Nat
        /\ \A k \in 1..Len(text) : Low[k] = AsciiLower[text[k]]
    BY <1>1, LowBytes DEF Low
  <2>3. Len(text') = Len(text) + 1 /\ text'[Len(text) + 1] = b /\ \A k \in 1..Len(text) : text'[k] = text[k]
    BY <1>0, <1>1
  <2>4. /\ Append(Low, l) \in Seq(Byte) /\ Len(Append(Low, l)) = Len(text) + 1
        /\ Append(Low, l)[Len(text) + 1] = l
        /\ \A k \in 1..Len(text) : Append(Low, l)[k] = Low[k]
    BY <1>1, <2>2, AppendProperties
  <2>5. \A k \in 1..(Len(text) + 1) : Low'[k] = Append(Low, l)[k]
    <3> TAKE k \in 1..(Len(text) + 1)
    <3>1. CASE k = Len(text) + 1
      BY <2>1, <2>3, <2>4, <3>1 DEF l
    <3>2. CASE k \in 1..Len(text)
      BY <2>1, <2>2, <2>3, <2>4, <3>2
    <3> QED BY <2>2, <3>1, <3>2
  <2> QED BY <2>1, <2>2, <2>3, <2>4, <2>5, SeqEqual
<1>8. Longest(t, Append(Low, l))
  <2>1. Longest(t, Append(word[state], l))
    BY <1>0, <1>1, <1>2, NodeTypes DEF EdgesRight
  <2> QED BY <1>0, <1>1, <1>2, <1>7, <2>1, LongestStep DEF ScanInv
<1>9. ASSUME NEW r \in 1..Len(rules)
      PROVE  r \in seen' <=> Occurs(RuleWord(r), Low')
  <2>1. RuleWord(r) \in Seq(Byte)
    BY RuleWords
  <2>2. Occurs(RuleWord(r), Low') <=> Occurs(RuleWord(r), Low) \/ Suffix(RuleWord(r), Append(Low, l))
    BY <1>1, <1>7, <2>1, OccursAppend
  <2>3. r \in seen' <=> Occurs(RuleWord(r), Low) \/ Suffix(RuleWord(r), word[t])
    BY <1>0, <1>2 DEF ScanInv
  <2>4. PICK m \in Node : word[m] = RuleWord(r)
    BY <1>0 DEF TrieInv, Inserted
  <2>5. Suffix(RuleWord(r), Append(Low, l)) => Suffix(RuleWord(r), word[t])
    BY <1>8, <2>4 DEF Longest
  <2>6. Suffix(RuleWord(r), word[t]) => Suffix(RuleWord(r), Append(Low, l))
    <3>1. Suffix(word[t], Append(Low, l)) /\ word[t] \in Seq(Byte) /\ Append(Low, l) \in Seq(Byte)
      BY <1>1, <1>2, <1>7, <1>8, NodeTypes DEF Longest
    <3> QED BY <2>1, <3>1, SuffixTransitive
  <2> QED BY <2>2, <2>3, <2>5, <2>6
<1>10. ScanInv'
  <2>1. seen' = {r \in 1..Len(rules) : Occurs(RuleWord(r), Low')}
    <3>1. seen' \subseteq 1..Len(rules)
      BY <1>0, <1>2 DEF TypeInv
    <3> QED BY <1>9, <3>1
  <2>2. Longest(state, Low)'
    BY <1>0, <1>3, <1>7, <1>8 DEF Longest
  <2>3. seen' = {r \in 1..Len(rules) : Occurs(RuleWord(r), Low)}'
    BY <1>3, <2>1
  <2> QED BY <1>0, <1>3, <2>2, <2>3 DEF ScanInv
<1> QED
  BY <1>0, <1>4, <1>5, <1>6, <1>10 DEF GrowInv, LevelInv, QueueInv, FoundInv

-----------------------------------------------------------------------------
(* The insertion of the tokens *)

LEMMA SignatureTypes ==
  ASSUME TypeInv
  PROVE  /\ DOMAIN signatures = 1..Len(signatures) /\ Len(signatures) \in Nat
         /\ \A i \in DOMAIN signatures :
              /\ DOMAIN signatures[i].pattern = 1..Len(signatures[i].pattern)
              /\ Len(signatures[i].pattern) \in Nat
              /\ signatures[i].weight \in Int
<1>1. /\ signatures \in Seq({signatures[i] : i \in DOMAIN signatures})
      /\ \A i \in DOMAIN signatures : signatures[i].pattern \in Seq(Seq(Byte)) /\ signatures[i].weight \in Int
  BY RulesetsAssumption DEF TypeInv
<1> QED BY <1>1

\* A step that moves the cursor only, past nothing that is searched for.
LEMMA CursorStep ==
  ASSUME MatcherInv, pc = "new", pc' \in {"new", "fail"}, sig' \in Positive, alt' \in Positive,
         UNCHANGED <<signatures, target, rules, nodeVars, state, pos, queue, scanVars>>,
         pc' = "fail" => sig' > Len(signatures),
         \A i \in DOMAIN signatures : \A j \in DOMAIN signatures[i].pattern :
                   /\ Searched(<<i, j>>)
                   /\ i < sig' \/ (i = sig' /\ j < alt')
                   => i < sig \/ (i = sig /\ j < alt)
  PROVE  TypeInv' /\ RulesInv' /\ TrieInv' /\ (pc' = "new" => GrowInv') /\ ScanInv'
<1> USE DEF MatcherInv
<1>1. /\ Node' = Node /\ Inserted' = Inserted /\ Alternatives' = Alternatives
      /\ \A r : RuleWord(r)' = RuleWord(r)
      /\ \A a : Searched(a)' <=> Searched(a)
      /\ \A i : Weight(i)' = Weight(i)
  BY DEF nodeVars, Node, RuleWord, Token, Inserted, Alternatives, Searched, TargetOf, Weight
<1>2. TypeInv'
  BY <1>1 DEF TypeInv, nodeVars, scanVars
<1>3. RulesInv'
  BY <1>1 DEF RulesInv
<1>4. TrieInv'
  BY <1>1 DEF TrieInv, nodeVars
<1>5. pc' = "new" => GrowInv'
  BY <1>1 DEF GrowInv, nodeVars
<1> QED BY <1>2, <1>3, <1>4, <1>5 DEF ScanInv

LEMMA CursorKeeps ==
  ASSUME MatcherInv, NextSignature \/ SkipToken
  PROVE  MatcherInv'
<1> USE DEF MatcherInv
<1>0. sig \in Nat /\ sig > 0 /\ alt \in Nat /\ alt > 0 /\ pc = "new" /\ pc' = "new"
  BY DEF TypeInv, Positive, NextSignature, SkipToken, AtToken
<1>1. \A i \in DOMAIN signatures : \A j \in DOMAIN signatures[i].pattern :
                /\ Searched(<<i, j>>)
                /\ i < sig' \/ (i = sig' /\ j < alt')
                => i < sig \/ (i = sig /\ j < alt)
  <2> TAKE i \in DOMAIN signatures
  <2> TAKE j \in DOMAIN signatures[i].pattern
  <2> HAVE /\ Searched(<<i, j>>)
           /\ i < sig' \/ (i = sig' /\ j < alt')
  <2>1. /\ i \in 1..Len(signatures) /\ j \in 1..Len(signatures[i].pattern)
        /\ Len(signatures) \in Nat /\ Len(signatures[i].pattern) \in Nat
    BY SignatureTypes
  <2>2. TargetOf(i) = target /\ Token(i, j) # <<>>
    BY DEF Searched
  <2>3. CASE NextSignature
    <3>1. sig' = sig + 1 /\ alt' = 1 /\ ~AtToken
      BY <2>3 DEF NextSignature
    <3>2. i < sig \/ i = sig
      BY <1>0, <2>1, <3>1
    <3>3. i = sig => j < alt
      BY <1>0, <2>1, <2>2, <3>1 DEF AtToken
    <3> QED BY <3>2, <3>3
  <2>4. CASE SkipToken
    <3>1. sig' = sig /\ alt' = alt + 1 /\ Token(sig, alt) = <<>>
      BY <2>4 DEF SkipToken
    <3>2. ~(i = sig /\ j = alt)
      BY <2>2, <3>1
    <3> QED BY <1>0, <2>1, <3>1, <3>2
  <2> QED BY <2>3, <2>4
<1>2. sig' \in Positive /\ alt' \in Positive
  BY <1>0 DEF NextSignature, SkipToken, Positive
<1>3. UNCHANGED <<signatures, target, rules, nodeVars, state, pos, queue, scanVars>>
  BY DEF NextSignature, SkipToken
<1>4. TypeInv' /\ RulesInv' /\ TrieInv' /\ GrowInv' /\ ScanInv'
  BY <1>0, <1>1, <1>2, <1>3, CursorStep
<1> QED BY <1>0, <1>4 DEF EdgesRight, LevelInv, QueueInv, FoundInv

\* The trie is complete: every edge leads to a child, the root is the first level.
LEMMA CompiledKeeps ==
  ASSUME MatcherInv, Compiled
  PROVE  MatcherInv'
<1> USE DEF MatcherInv
<1>0. /\ pc = "new" /\ pc' = "fail" /\ sig > Len(signatures)
      /\ UNCHANGED <<ruleVars, nodeVars, state, pos, queue, scanVars>>
      /\ state = 0 /\ pos = 0 /\ queue = <<>>
  BY DEF Compiled, GrowInv
<1>1. TypeInv' /\ RulesInv' /\ TrieInv' /\ ScanInv'
  BY <1>0, CursorStep DEF ruleVars, TypeInv
<1>2. /\ Node' = Node /\ word' = word /\ next' = next /\ fail' = fail /\ out' = out
      /\ rules' = rules /\ state' = 0 /\ pos' = 0 /\ queue' = <<>>
      /\ \A n : Depth(n)' = Depth(n) /\ (Full(n)' <=> Full(n)) /\ ~Queued(n)'
      /\ \A r : RuleWord(r)' = RuleWord(r)
  BY <1>0 DEF ruleVars, nodeVars, Node, Depth, RuleWord, Token, Full, Queued
<1>3. \A n \in Node, b \in Byte : next[n][b] # -1 =>
        word[next[n][b]] = Append(word[n], b) /\ Longest(next[n][b], Append(word[n], b))
  <2> TAKE n \in Node, b \in Byte
  <2> HAVE next[n][b] # -1
  <2>1. word[next[n][b]] = Append(word[n], b) /\ next[n][b] \in Node
    BY <1>0, NodeTypes DEF GrowInv
  <2>2. Append(word[n], b) \in Seq(Byte)
    BY <2>1, NodeTypes
  <2> QED BY <2>1, <2>2, SuffixReflexive DEF Longest
<1>4. /\ 0 \in Node /\ Depth(0) = 0 /\ \A n \in Node : Depth(n) \in Nat
      /\ \A n \in Node : Depth(n) = 0 => n = 0
  <2>1. 0 \in Node /\ word[0] = <<>> /\ \A n \in Node : word[n] \in Seq(Byte) /\ Depth(n) \in Nat
    BY NodeTypes DEF TrieInv
  <2>2. \A n \in Node : Depth(n) = 0 => word[n] = <<>>
    BY <2>1 DEF Depth
  <2> QED BY <2>1, <2>2 DEF TrieInv, Depth
<1>5. EdgesRight'
  BY <1>2, <1>3 DEF EdgesRight, Longest
<1>6. LevelInv'
  <2>1. Byte \subseteq Nat /\ ByteCount \in Nat
    BY MatcherAssumption DEF Byte
  <2>2. \A b \in Byte : ~(b < 0)
    BY <2>1
  <2>3. pos' <= ByteCount
    BY <1>2, <2>1
  <2>4. \A n \in Node : ~(Depth(n) < 0)
    BY <1>4
  <2>5. Depth(state)' = 0
    BY <1>2, <1>4
  <2> QED BY <1>2, <1>3, <1>4, <2>2, <2>3, <2>4, <2>5 DEF LevelInv
<1>7. QueueInv'
  BY <1>2 DEF QueueInv
<1>8. FoundInv'
  <2>1. Depth(state)' = 0
    BY <1>2, <1>4
  <2>2. ASSUME NEW n \in Node, NEW r \in 1..Len(rules)
        PROVE  r \in out[n] <=> IF Depth(n) <= 0 THEN Suffix(RuleWord(r), word[n]) ELSE RuleWord(r) = word[n]
    <3>1. r \in out[n] <=> RuleWord(r) = word[n]
      BY <1>0 DEF GrowInv, Inserted
    <3>2. CASE Depth(n) <= 0
      <4>1. n = 0 /\ word[n] = <<>>
        BY <1>4, <3>2 DEF TrieInv
      <4>2. RuleWord(r) \in Seq(Byte) /\ RuleWord(r) # <<>>
        BY RuleWords
      <4>3. Len(RuleWord(r)) > 0
        BY <4>2
      <4> QED BY <3>1, <4>1, <4>2, <4>3 DEF Suffix
    <3> QED BY <3>1, <3>2
  <2> QED BY <1>2, <2>1, <2>2 DEF FoundInv
<1> QED BY <1>0, <1>1, <1>5, <1>6, <1>7, <1>8 DEF GrowInv

\* A rule is added and its token will be walked from the root.
LEMMA AddRuleKeeps ==
  ASSUME MatcherInv, AddRule
  PROVE  MatcherInv'
<1> USE DEF MatcherInv
<1> DEFINE weight == signatures[sig].weight
           rule == [id |-> sig, alt |-> alt, weight |-> IF weight <= 0 THEN 1 ELSE weight]
<1>0. /\ pc = "new" /\ pc' = "insert" /\ AtToken /\ Token(sig, alt) # <<>>
      /\ rules' = Append(rules, rule)
      /\ UNCHANGED <<signatures, target, sig, alt, nodeVars, state, pos, queue, scanVars>>
      /\ state = 0 /\ pos = 0
  BY DEF AddRule, AtToken, GrowInv
<1>1. /\ sig \in DOMAIN signatures /\ alt \in DOMAIN signatures[sig].pattern
      /\ sig \in Positive /\ alt \in Positive /\ weight \in Int
      /\ TargetOf(sig) = target
  BY <1>0, SignatureTypes DEF AtToken, TypeInv, Positive
<1>2. rule \in [id : Positive, alt : Positive, weight : Int] /\ rule.weight = Weight(sig)
  BY <1>1 DEF Weight
<1> HIDE DEF weight, rule
<1>3. /\ rules' \in Seq([id : Positive, alt : Positive, weight : Int])
      /\ Len(rules) \in Nat /\ Len(rules') = Len(rules) + 1
      /\ DOMAIN rules = 1..Len(rules) /\ DOMAIN rules' = 1..(Len(rules) + 1)
      /\ rules'[Len(rules) + 1] = rule
      /\ \A r \in 1..Len(rules) : rules'[r] = rules[r]
  BY <1>0, <1>2 DEF TypeInv
<1>4. rule.id = sig /\ rule.alt = alt
  BY DEF rule
<1>5. /\ Node' = Node /\ Alternatives' = Alternatives
      /\ \A a : Searched(a)' <=> Searched(a)
      /\ \A i : Weight(i)' = Weight(i)
      /\ \A i, j : Token(i, j)' = Token(i, j)
  BY <1>0 DEF nodeVars, Node, Token, Alternatives, Searched, TargetOf, Weight
<1>6. Inserted = 1..Len(rules) /\ Inserted' = 1..Len(rules)
  BY <1>0, <1>3 DEF Inserted
<1>7. \A r \in 1..Len(rules) : RuleWord(r)' = RuleWord(r)
  BY <1>3, <1>5 DEF RuleWord
<1>8. TypeInv'
  <2>1. 1..Len(rules) \subseteq 1..Len(rules')
    BY <1>3
  <2>2. out \in [Node -> SUBSET (1..Len(rules'))] /\ seen \subseteq 1..Len(rules')
    BY <2>1 DEF TypeInv
  <2> QED BY <1>0, <1>3, <1>5, <2>2 DEF TypeInv, nodeVars, scanVars
<1>9. RulesInv'
  <2>1. ASSUME NEW r \in DOMAIN rules'
        PROVE  /\ <<rules'[r].id, rules'[r].alt>> \in Alternatives
               /\ Searched(<<rules'[r].id, rules'[r].alt>>)
               /\ rules'[r].weight = Weight(rules'[r].id)
    <3>1. CASE r \in 1..Len(rules)
      BY <1>3, <3>1 DEF RulesInv
    <3>2. CASE r = Len(rules) + 1
      <4>1. <<sig, alt>> \in Alternatives
        BY <1>1, AlternativesPairs
      <4>2. Searched(<<sig, alt>>)
        BY <1>0, <1>1 DEF Searched
      <4> QED BY <1>2, <1>3, <1>4, <3>2, <4>1, <4>2
    <3> QED BY <1>3, <3>1, <3>2
  <2>2. ASSUME NEW r \in DOMAIN rules
        PROVE  r \in DOMAIN rules' /\ rules'[r] = rules[r]
    BY <1>3
  <2>3. rules' # <<>> /\ rules'[Len(rules')].id = sig /\ rules'[Len(rules')].alt = alt /\ sig <= Len(signatures)
    BY <1>0, <1>3, <1>4 DEF AtToken
  <2>4. ASSUME NEW i \in DOMAIN signatures, NEW j \in DOMAIN signatures[i].pattern,
               Searched(<<i, j>>), i < sig \/ (i = sig /\ j < alt)
        PROVE  \E r \in DOMAIN rules' : rules'[r].id = i /\ rules'[r].alt = j
    <3>1. PICK r \in DOMAIN rules : rules[r].id = i /\ rules[r].alt = j
      BY <2>4 DEF RulesInv
    <3> QED BY <2>2, <3>1
  <2> QED BY <1>0, <1>5, <2>1, <2>3, <2>4 DEF RulesInv
<1>10. TrieInv'
  BY <1>0, <1>5, <1>6, <1>7 DEF TrieInv, nodeVars
<1>11. GrowInv'
  <2>1. pos <= Len(Token(sig, alt)) /\ word[state] = SubSeq(Token(sig, alt), 1, pos)
    <3>1. Token(sig, alt) \in Seq(Byte)
      BY <1>1, TokenBytes
    <3>2. SubSeq(Token(sig, alt), 1, pos) = <<>>
      BY <1>0, SubSeqEmpty
    <3>3. pos <= Len(Token(sig, alt))
      BY <1>0, <3>1
    <3>4. word[state] = <<>>
      BY <1>0 DEF TrieInv
    <3> QED BY <3>2, <3>3, <3>4
  <2>2. ASSUME NEW n \in Node, NEW r \in 1..(Len(rules) + 1)
        PROVE  r \in out[n] <=> r \in 1..Len(rules) /\ RuleWord(r)' = word[n]
    <3>1. CASE r \in 1..Len(rules)
      BY <1>0, <1>6, <1>7, <3>1 DEF GrowInv
    <3>2. CASE r = Len(rules) + 1
      <4>1. r \notin 1..Len(rules)
        BY <1>3, <3>2
      <4> QED BY <4>1 DEF TypeInv
    <3> QED BY <1>3, <3>1, <3>2
  <2> QED BY <1>0, <1>3, <1>5, <1>6, <2>1, <2>2 DEF GrowInv, nodeVars
<1> QED
  BY <1>0, <1>8, <1>9, <1>10, <1>11 DEF EdgesRight, LevelInv, QueueInv, FoundInv, ScanInv

\* The token being walked is the last rule's.
LEMMA WalkedToken ==
  ASSUME MatcherInv, pc = "insert"
  PROVE  /\ Len(rules) \in DOMAIN rules /\ Len(rules) \in Nat /\ Len(rules) > 0
         /\ rules[Len(rules)].id = sig /\ rules[Len(rules)].alt = alt
         /\ RuleWord(Len(rules)) = Token(sig, alt)
         /\ sig \in DOMAIN signatures /\ alt \in DOMAIN signatures[sig].pattern
         /\ Token(sig, alt) \in Seq(Byte)
         /\ \A k \in 1..Len(Token(sig, alt)) : AsciiLower[Token(sig, alt)[k]] = Token(sig, alt)[k]
<1> USE DEF MatcherInv
<1>1. rules # <<>> /\ rules[Len(rules)].id = sig /\ rules[Len(rules)].alt = alt
  BY DEF RulesInv
<1>2. Len(rules) \in DOMAIN rules /\ Len(rules) \in Nat /\ Len(rules) > 0
  BY <1>1 DEF TypeInv
<1>3. <<sig, alt>> \in Alternatives
  BY <1>1, <1>2 DEF RulesInv
<1>4. sig \in DOMAIN signatures /\ alt \in DOMAIN signatures[sig].pattern
  BY <1>3, AlternativesPairs
<1> QED BY <1>1, <1>2, <1>4, TokenBytes DEF RuleWord

\* The node reached holds the rule.
LEMMA InsertEndKeeps ==
  ASSUME MatcherInv, InsertEnd
  PROVE  MatcherInv'
<1> USE DEF MatcherInv
<1>0. /\ pc = "insert" /\ pc' = "new" /\ pos = Len(Token(sig, alt))
      /\ out' = [out EXCEPT ![state] = @ \cup {Len(rules)}]
      /\ alt' = alt + 1 /\ state' = 0 /\ pos' = 0
      /\ UNCHANGED <<signatures, target, sig, rules, size, next, fail, word, queue, scanVars>>
  BY DEF InsertEnd
<1>1. /\ Len(rules) \in DOMAIN rules /\ Len(rules) \in Nat /\ Len(rules) > 0
      /\ rules[Len(rules)].id = sig /\ rules[Len(rules)].alt = alt
      /\ RuleWord(Len(rules)) = Token(sig, alt) /\ Token(sig, alt) \in Seq(Byte)
  BY <1>0, WalkedToken
<1>2. word[state] = RuleWord(Len(rules)) /\ state \in Node
  <2>1. SubSeq(Token(sig, alt), 1, Len(Token(sig, alt))) = Token(sig, alt)
    BY <1>1, SubSeqFull
  <2> QED BY <1>0, <1>1, <2>1 DEF GrowInv, TypeInv
<1>3. /\ Node' = Node /\ Alternatives' = Alternatives
      /\ \A a : Searched(a)' <=> Searched(a)
      /\ \A i : Weight(i)' = Weight(i)
      /\ \A r : RuleWord(r)' = RuleWord(r)
  BY <1>0 DEF Node, Token, RuleWord, Alternatives, Searched, TargetOf, Weight
<1>4. Inserted = 1..(Len(rules) - 1) /\ Inserted' = 1..Len(rules)
  BY <1>0 DEF Inserted
<1>5. out \in [Node -> SUBSET (1..Len(rules))]
  BY DEF TypeInv
<1>6. TypeInv'
  <2>1. out' \in [Node -> SUBSET (1..Len(rules))]
    <3>1. out[state] \cup {Len(rules)} \in SUBSET (1..Len(rules))
      BY <1>1, <1>2, <1>5
    <3> QED BY <1>0, <1>5, <3>1
  <2>2. alt' \in Positive
    BY <1>0 DEF TypeInv, Positive
  <2> QED BY <1>0, <1>3, <2>1, <2>2, NodeTypes DEF TypeInv, scanVars
<1>7. RulesInv'
  <2>1. ASSUME NEW i \in DOMAIN signatures, NEW j \in DOMAIN signatures[i].pattern,
               Searched(<<i, j>>), i < sig \/ (i = sig /\ j < alt')
        PROVE  \E r \in DOMAIN rules : rules[r].id = i /\ rules[r].alt = j
    <3>1. CASE i = sig /\ j = alt
      BY <1>1, <3>1
    <3>2. CASE ~(i = sig /\ j = alt)
      <4>1. j \in Nat /\ alt \in Nat
        BY SignatureTypes DEF TypeInv, Positive
      <4>2. i < sig \/ (i = sig /\ j < alt)
        BY <1>0, <2>1, <3>2, <4>1
      <4> QED BY <2>1, <4>2 DEF RulesInv
    <3> QED BY <3>1, <3>2
  <2> QED BY <1>0, <1>3, <2>1 DEF RulesInv
<1>8. TrieInv'
  <2>1. ASSUME NEW r \in 1..Len(rules)
        PROVE  \E n \in Node : word[n] = RuleWord(r)
    <3>1. CASE r = Len(rules)
      BY <1>2, <3>1
    <3>2. CASE r \in 1..(Len(rules) - 1)
      BY <1>4, <3>2 DEF TrieInv
    <3> QED BY <1>1, <3>1, <3>2
  <2> QED BY <1>0, <1>3, <1>4, <2>1 DEF TrieInv
<1>9. GrowInv'
  <2>1. ASSUME NEW n \in Node, NEW r \in 1..Len(rules)
        PROVE  r \in out'[n] <=> RuleWord(r) = word[n]
    <3>1. r \in out[n] <=> r \in 1..(Len(rules) - 1) /\ RuleWord(r) = word[n]
      BY <1>0, <1>4 DEF GrowInv
    <3>2. r \in out'[n] <=> r \in out[n] \/ (n = state /\ r = Len(rules))
      BY <1>0, <1>2, <1>5
    <3>3. r = Len(rules) \/ r \in 1..(Len(rules) - 1)
      BY <1>1
    <3>4. Len(rules) \notin 1..(Len(rules) - 1)
      BY <1>1
    <3>5. word[n] = word[state] => n = state
      BY <1>2 DEF TrieInv
    <3> QED BY <1>2, <3>1, <3>2, <3>3, <3>4, <3>5
  <2> QED BY <1>0, <1>3, <1>4, <2>1 DEF GrowInv
<1> QED
  BY <1>0, <1>6, <1>7, <1>8, <1>9 DEF EdgesRight, LevelInv, QueueInv, FoundInv, ScanInv

\* One byte of a token is walked.
LEMMA InsertByteKeeps ==
  ASSUME MatcherInv, InsertByte
  PROVE  MatcherInv'
<1> USE DEF MatcherInv
<1> DEFINE token == Token(sig, alt)
           b == token[pos + 1]
<1>1. /\ Len(rules) \in Nat /\ Len(rules) > 0
      /\ RuleWord(Len(rules)) = token /\ token \in Seq(Byte)
      /\ \A k \in 1..Len(token) : AsciiLower[token[k]] = token[k]
  BY WalkedToken DEF InsertByte
<1>2. /\ pc = "insert" /\ pc' = "insert" /\ pos < Len(token) /\ pos \in Nat /\ pos' = pos + 1
      /\ UNCHANGED <<ruleVars, queue, scanVars>> /\ queue = <<>>
      /\ state \in Node /\ word[state] = SubSeq(token, 1, pos)
  BY DEF InsertByte, TypeInv, GrowInv
<1>3. pos + 1 \in 1..Len(token) /\ AsciiLower[b] = b /\ b \in Byte
  BY <1>1, <1>2
<1>4. Append(word[state], b) = SubSeq(token, 1, pos + 1)
  <2>1. SubSeq(token, 1, pos + 1) = SubSeq(token, 1, pos) \o <<b>>
    <3>1. pos + 1 \in 1..Len(token) /\ 1 \in 1..Len(token) /\ pos + 1 \in 1..Len(token) /\ (pos + 1) - 1 = pos
      BY <1>1, <1>2
    <3> QED BY <1>1, <3>1, SubSeqRecursiveSecond
  <2>2. word[state] \in Seq(Byte)
    BY <1>2, NodeTypes
  <2> QED BY <1>2, <1>3, <2>1, <2>2, AppendIsConcat
<1>5. /\ IF next[state][b] # -1
         THEN state' = next[state][b] /\ UNCHANGED nodeVars
         ELSE /\ size' = size + 1
              /\ next' = [Pushed(next, [c \in Byte |-> -1]) EXCEPT ![state][b] = size]
              /\ fail' = Pushed(fail, 0)
              /\ out'  = Pushed(out, {})
              /\ word' = Pushed(word, Append(word[state], b))
              /\ state' = size
  BY <1>3 DEF InsertByte
<1> HIDE DEF token, b
<1>6. /\ token' = token /\ rules' = rules /\ Inserted' = Inserted
      /\ \A r : RuleWord(r)' = RuleWord(r)
      /\ Alternatives' = Alternatives
      /\ \A a : Searched(a)' <=> Searched(a)
      /\ \A i : Weight(i)' = Weight(i)
  BY <1>2 DEF token, ruleVars, Token, RuleWord, Inserted, Alternatives, Searched, TargetOf, Weight
<1>7. RulesInv'
  BY <1>2, <1>6 DEF RulesInv, ruleVars
<1>8. pos' <= Len(token) /\ pos' \in Nat
  BY <1>1, <1>2
<1>9. CASE next[state][b] # -1
  <2>1. /\ state' = next[state][b] /\ UNCHANGED nodeVars /\ Node' = Node
    BY <1>5, <1>9 DEF nodeVars, Node
  <2>2. state' \in Node /\ word[state'] = Append(word[state], b)
    BY <1>2, <1>3, <1>9, <2>1, NodeTypes DEF GrowInv
  <2>3. TypeInv'
    BY <1>2, <1>6, <1>8, <2>1, <2>2 DEF TypeInv, ruleVars, nodeVars, scanVars
  <2>4. TrieInv'
    BY <1>6, <2>1 DEF TrieInv, nodeVars
  <2>5. GrowInv'
    <3>1. word'[state'] = SubSeq(token, 1, pos')
      BY <1>2, <1>4, <2>1, <2>2 DEF nodeVars
    <3> QED BY <1>2, <1>6, <1>8, <2>1, <3>1 DEF GrowInv, nodeVars, token
  <2> QED BY <1>2, <1>7, <2>3, <2>4, <2>5 DEF EdgesRight, LevelInv, QueueInv, FoundInv, ScanInv
<1>10. CASE next[state][b] = -1
  <2> DEFINE w == Append(word[state], b)
  <2>1. /\ size \in Nat /\ size > 0 /\ Node = 0..(size - 1) /\ Node' = 0..size
        /\ size \notin Node /\ Node \subseteq Node' /\ -1 \notin Node'
        /\ \A n \in Node' : n \in Node \/ n = size
        /\ 0 \in Node /\ size \in Node' /\ size' = size + 1 /\ state' = size
    BY <1>5, <1>10, NodeTypes DEF Node
  <2>2. w \in Seq(Byte) /\ w # <<>>
    <3>1. word[state] \in Seq(Byte)
      BY <1>2, NodeTypes
    <3> QED BY <1>3, <3>1, AppendProperties
  <2>3. \A n \in Node : word[n] # w
    <3> SUFFICES ASSUME NEW n \in Node, word[n] = Append(word[state], b)
                 PROVE  FALSE
      OBVIOUS
    <3>1. next[state][b] = n
      BY <1>2, <1>3, ChildEdge
    <3> QED BY <1>10, <3>1, NodeTypes
  <2> HIDE DEF w
  <2>4. /\ word' = [n \in Node' |-> IF n = size THEN w ELSE word[n]]
        /\ out' = [n \in Node' |-> IF n = size THEN {} ELSE out[n]]
        /\ fail' = [n \in Node' |-> IF n = size THEN 0 ELSE fail[n]]
        /\ next' = [[n \in Node' |-> IF n = size THEN [c \in Byte |-> -1] ELSE next[n]]
                      EXCEPT ![state] = [@ EXCEPT ![b] = size]]
    BY <1>5, <1>10, <2>1 DEF Pushed, w
  <2>5. /\ \A n \in Node : word'[n] = word[n] /\ out'[n] = out[n] /\ fail'[n] = fail[n]
        /\ word'[size] = w /\ out'[size] = {}
    BY <2>1, <2>4
  <2>6. /\ \A c \in Byte : next'[size][c] = -1
        /\ \A n \in Node, c \in Byte :
             next'[n][c] = IF n = state /\ c = b THEN size ELSE next[n][c]
    BY <1>2, <1>3, <2>1, <2>4 DEF TypeInv
  <2>7. next' \in [Node' -> [Byte -> Node' \cup {-1}]]
    <3>1. next \in [Node -> [Byte -> Node \cup {-1}]]
      BY DEF TypeInv
    <3> DEFINE f == [n \in Node' |-> IF n = size THEN [c \in Byte |-> -1] ELSE next[n]]
    <3>2. f \in [Node' -> [Byte -> Node' \cup {-1}]]
      BY <2>1, <3>1
    <3>3. next' = [f EXCEPT ![state] = [f[state] EXCEPT ![b] = size]]
      BY <2>4
    <3> HIDE DEF f
    <3>4. [f[state] EXCEPT ![b] = size] \in [Byte -> Node' \cup {-1}]
      BY <1>2, <1>3, <2>1, <3>2
    <3> QED BY <3>2, <3>3, <3>4
  <2>8. TypeInv'
    <3>1. word' \in [Node' -> Seq(Byte)]
      BY <2>1, <2>2, <2>4 DEF TypeInv
    <3>2. out' \in [Node' -> SUBSET (1..Len(rules))]
      BY <2>1, <2>4 DEF TypeInv
    <3>3. fail' \in [Node' -> Node']
      BY <2>1, <2>4 DEF TypeInv
    <3>4. queue' \in Seq(Node') /\ size' \in Positive
      BY <1>2, <2>1 DEF Positive
    <3> QED BY <1>2, <1>6, <1>8, <2>1, <2>7, <3>1, <3>2, <3>3, <3>4 DEF TypeInv, ruleVars, scanVars
  <2>9. TrieInv'
    <3>1. word'[0] = <<>>
      BY <2>1, <2>5 DEF TrieInv
    <3>2. ASSUME NEW m \in Node', NEW n \in Node', word'[m] = word'[n]
          PROVE  m = n
      <4>1. CASE m \in Node /\ n \in Node
        BY <2>5, <3>2, <4>1 DEF TrieInv
      <4>2. CASE m = size \/ n = size
        BY <2>1, <2>3, <2>5, <3>2, <4>2
      <4> QED BY <2>1, <4>1, <4>2
    <3>3. ASSUME NEW n \in Node', n # 0
          PROVE  \E p \in Node', c \in Byte : p < n /\ word'[n] = Append(word'[p], c) /\ next'[p][c] = n
      <4>1. CASE n = size
        <5>1. state < size /\ word'[n] = Append(word'[state], b) /\ next'[state][b] = n
          BY <1>2, <1>3, <2>5, <2>6, <4>1, NodeTypes DEF w
        <5> QED BY <1>2, <1>3, <2>1, <4>1, <5>1
      <4>2. CASE n \in Node
        <5>1. PICK p \in Node, c \in Byte : p < n /\ word[n] = Append(word[p], c) /\ next[p][c] = n
          BY <3>3, <4>2 DEF TrieInv
        <5>2. ~(p = state /\ c = b)
          BY <1>10, <2>1, <4>2, <5>1
        <5>3. next'[p][c] = n /\ word'[n] = Append(word'[p], c)
          BY <2>5, <2>6, <4>2, <5>1, <5>2
        <5> QED BY <2>1, <5>1, <5>3
      <4> QED BY <2>1, <4>1, <4>2
    <3>4. ASSUME NEW r \in Inserted
          PROVE  \E n \in Node' : word'[n] = RuleWord(r)
      <4>1. PICK n \in Node : word[n] = RuleWord(r)
        BY DEF TrieInv
      <4> QED BY <2>1, <2>5, <4>1
    <3> QED BY <1>6, <3>1, <3>2, <3>3, <3>4 DEF TrieInv
  <2>10. GrowInv'
    <3>1. word'[state'] = SubSeq(token, 1, pos')
      BY <1>2, <1>4, <2>1, <2>5 DEF w
    <3>2. ASSUME NEW n \in Node', NEW c \in Byte, next'[n][c] # -1
          PROVE  word'[next'[n][c]] = Append(word'[n], c)
      <4>1. n \in Node
        BY <2>1, <2>6, <3>2
      <4>2. CASE n = state /\ c = b
        BY <1>2, <2>5, <2>6, <4>1, <4>2 DEF w
      <4>3. CASE ~(n = state /\ c = b)
        <5>1. next'[n][c] = next[n][c] /\ next[n][c] \in Node
          BY <2>6, <3>2, <4>1, <4>3, NodeTypes
        <5>2. next[n][c] # -1
          BY <3>2, <5>1
        <5>3. word[next[n][c]] = Append(word[n], c)
          BY <1>2, <4>1, <5>2 DEF GrowInv
        <5>4. word'[next[n][c]] = word[next[n][c]] /\ word'[n] = word[n]
          BY <2>5, <4>1, <5>1
        <5> QED BY <5>1, <5>3, <5>4
      <4> QED BY <4>2, <4>3
    <3>3. ASSUME NEW n \in Node', NEW r \in 1..Len(rules)
          PROVE  r \in out'[n] <=> r \in Inserted /\ RuleWord(r) = word'[n]
      <4>1. CASE n \in Node
        BY <1>2, <2>5, <4>1 DEF GrowInv
      <4>2. CASE n = size
        <5>1. r \in Inserted => RuleWord(r) # w
          BY <2>3 DEF TrieInv
        <5> QED BY <2>5, <4>2, <5>1
      <4> QED BY <2>1, <4>1, <4>2
    <3> QED BY <1>2, <1>6, <1>8, <3>1, <3>2, <3>3 DEF GrowInv, token
  <2> QED BY <1>2, <1>7, <2>8, <2>9, <2>10 DEF EdgesRight, LevelInv, QueueInv, FoundInv, ScanInv
<1> QED BY <1>9, <1>10

-----------------------------------------------------------------------------
(* The theorems *)

LEMMA InitialMatcher ==
  ASSUME Init
  PROVE  MatcherInv
<1> USE DEF Init
<1>1. Node = {0}
  BY DEF Node
<1>2. TypeInv
  BY <1>1 DEF TypeInv, Positive
<1>3. rules = <<>> /\ DOMAIN rules = {} /\ Len(rules) = 0 /\ Inserted = {}
  BY DEF Inserted
<1>4. RulesInv
  <2>1. ASSUME NEW i \in DOMAIN signatures, NEW j \in DOMAIN signatures[i].pattern
        PROVE  ~(i < sig \/ (i = sig /\ j < alt))
    <3>1. i \in Nat /\ i >= 1 /\ j \in Nat /\ j >= 1
      BY <1>2, SignatureTypes
    <3> QED BY <3>1
  <2> QED BY <1>3, <2>1 DEF RulesInv
<1>5. TrieInv
  BY <1>1, <1>3 DEF TrieInv
<1>6. GrowInv
  BY <1>1, <1>3 DEF GrowInv
<1> QED
  BY <1>2, <1>4, <1>5, <1>6
     DEF MatcherInv, EdgesRight, LevelInv, QueueInv, FoundInv, ScanInv

LEMMA EdgeStepKeeps ==
  ASSUME MatcherInv, RootEdge \/ NodeEdge
  PROVE  MatcherInv'
<1>1. EdgeStep /\ pos \in Byte /\ Overtakes(Over, state, pos)
  BY EdgeIsStep
<1>2. TypeInv' /\ EdgesRight' /\ LevelInv' /\ QueueInv' /\ FoundInv'
  BY <1>1, EdgeTyped, EdgeEdges, EdgeLevel, EdgeQueue, EdgeFound
<1> QED BY <1>1, <1>2, EdgeTrie DEF MatcherInv

LEMMA StutterKeeps ==
  ASSUME MatcherInv, UNCHANGED mVars
  PROVE  MatcherInv'
<1> USE DEF MatcherInv, mVars, ruleVars, nodeVars, scanVars
<1>1. /\ Node' = Node /\ Inserted' = Inserted /\ Alternatives' = Alternatives /\ Low' = Low
      /\ \A i, j : Token(i, j)' = Token(i, j)
      /\ \A r : RuleWord(r)' = RuleWord(r)
      /\ \A a : Searched(a)' <=> Searched(a)
      /\ \A i : Weight(i)' = Weight(i)
      /\ \A n : Depth(n)' = Depth(n) /\ (Queued(n)' <=> Queued(n)) /\ (Full(n)' <=> Full(n))
  BY DEF Node, Inserted, Alternatives, Low, Token, RuleWord, Searched, TargetOf, Weight, Depth, Queued, Full
<1>2. TypeInv' /\ RulesInv' /\ TrieInv' /\ GrowInv'
  <2>1. TypeInv'
    BY <1>1 DEF TypeInv
  <2>2. RulesInv'
    BY <1>1 DEF RulesInv
  <2>3. TrieInv' /\ GrowInv'
    BY <1>1 DEF TrieInv, GrowInv
  <2> QED BY <2>1, <2>2, <2>3
<1>3. EdgesRight' /\ ScanInv'
  BY <1>1 DEF EdgesRight, ScanInv, Longest
<1>4. LevelInv' /\ QueueInv' /\ FoundInv'
  BY <1>1 DEF LevelInv, QueueInv, FoundInv, FailsRight
<1> QED BY <1>2, <1>3, <1>4

\* The automaton is that of Aho and Corasick at every step of its construction and
\* every byte of a scan: nodes are the prefixes of the tokens, edges and failure nodes
\* lead to longest suffixes, and a node found holds the rules whose tokens end it.
THEOREM MatcherInvariant == Spec => []MatcherInv
<1>1. Init => MatcherInv
  BY InitialMatcher
<1>2. MatcherInv /\ [Next]_mVars => MatcherInv'
  <2> SUFFICES ASSUME MatcherInv, [Next]_mVars
               PROVE  MatcherInv'
    OBVIOUS
  <2>1. CASE NextSignature \/ SkipToken
    BY <2>1, CursorKeeps
  <2>2. CASE AddRule
    BY <2>2, AddRuleKeeps
  <2>3. CASE InsertByte
    BY <2>3, InsertByteKeeps
  <2>4. CASE InsertEnd
    BY <2>4, InsertEndKeeps
  <2>5. CASE Compiled
    BY <2>5, CompiledKeeps
  <2>6. CASE RootEdge \/ NodeEdge
    BY <2>6, EdgeStepKeeps
  <2>7. CASE Dequeue
    BY <2>7, DequeueNext, DequeueNothing
  <2>8. ASSUME NEW b \in Byte, Scan(b)
        PROVE  MatcherInv'
    BY <2>8, ScanStep
  <2>9. CASE UNCHANGED mVars
    BY <2>9, StutterKeeps
  <2> QED BY <2>1, <2>2, <2>3, <2>4, <2>5, <2>6, <2>7, <2>8, <2>9 DEF Next
<1> QED BY <1>1, <1>2, PTL DEF Spec

\* FindAll reports exactly the alternatives that occur, of every ruleset in every text:
\* the rules seen are those whose token occurs, and the rules are the alternatives of
\* the target, all of them, with their weights.
THEOREM ExactMatches == Spec => []FindsExactly
<1>1. MatcherInv => FindsExactly
  <2> SUFFICES ASSUME MatcherInv, pc = "scan"
               PROVE  {<<rules[r].id, rules[r].alt, rules[r].weight>> : r \in seen} =
                      {<<a[1], a[2], Weight(a[1])>> :
                         a \in {a \in Alternatives : Searched(a) /\ Occurs(Token(a[1], a[2]), Low)}}
    BY DEF FindsExactly
  <2> USE DEF MatcherInv
  <2> DEFINE Found == {a \in Alternatives : Searched(a) /\ Occurs(Token(a[1], a[2]), Low)}
             Reported(r) == <<rules[r].id, rules[r].alt, rules[r].weight>>
             Triple(a) == <<a[1], a[2], Weight(a[1])>>
  <2>1. DOMAIN rules = 1..Len(rules)
    BY DEF TypeInv
  <2>2. ASSUME NEW r \in seen
        PROVE  \E a \in Found : Triple(a) = Reported(r)
    <3> DEFINE a == <<rules[r].id, rules[r].alt>>
    <3>1. r \in DOMAIN rules /\ Occurs(RuleWord(r), Low)
      BY <2>1 DEF ScanInv
    <3>2. a \in Alternatives /\ Searched(a) /\ rules[r].weight = Weight(rules[r].id)
      BY <3>1 DEF RulesInv
    <3>3. a[1] = rules[r].id /\ a[2] = rules[r].alt
      OBVIOUS
    <3>4. a \in Found
      BY <3>1, <3>2, <3>3 DEF RuleWord
    <3> QED BY <3>2, <3>3, <3>4
  <2>3. ASSUME NEW a \in Found
        PROVE  \E r \in seen : Reported(r) = Triple(a)
    <3>1. PICK i, j : i \in DOMAIN signatures /\ j \in DOMAIN signatures[i].pattern /\ a = <<i, j>>
      BY DEF Alternatives
    <3>2. <<i, j>> \in Alternatives /\ Searched(<<i, j>>) /\ Occurs(Token(i, j), Low)
      BY <3>1
    <3>3. i < sig
      <4>1. i \in Nat /\ i <= Len(signatures) /\ Len(signatures) \in Nat
        BY <3>1, SignatureTypes
      <4>2. sig > Len(signatures) /\ sig \in Nat
        BY DEF RulesInv, TypeInv, Positive
      <4> QED BY <4>1, <4>2
    <3>4. PICK r \in DOMAIN rules : rules[r].id = i /\ rules[r].alt = j
      BY <3>1, <3>2, <3>3 DEF RulesInv
    <3>5. r \in seen
      BY <2>1, <3>2, <3>4 DEF ScanInv, RuleWord
    <3>6. rules[r].weight = Weight(i)
      BY <3>4 DEF RulesInv
    <3> QED BY <3>1, <3>4, <3>5, <3>6
  <2> QED BY <2>2, <2>3
<1> QED BY <1>1, MatcherInvariant, PTL

\* The queue of buildFailures never holds a node twice nor the failure node of one
\* before it: it holds two levels at most, in order, and a failure node lies above.
THEOREM QueueBreadthFirst == Spec => []BreadthFirst
<1>1. MatcherInv => BreadthFirst
  <2> SUFFICES ASSUME MatcherInv, pc = "fail"
               PROVE  /\ \A i, j \in DOMAIN queue : queue[i] = queue[j] => i = j
                      /\ \A i, j \in DOMAIN queue : i <= j => fail[queue[i]] # queue[j]
    BY DEF BreadthFirst
  <2> USE DEF MatcherInv
  <2>1. ASSUME NEW i \in DOMAIN queue, NEW j \in DOMAIN queue, i <= j
        PROVE  fail[queue[i]] # queue[j]
    <3>1. queue[i] \in Node /\ queue[j] \in Node /\ Queued(queue[i])
      BY DEF TypeInv, Queued
    <3>2. Depth(queue[i]) <= Depth(queue[j])
      BY <2>1 DEF QueueInv
    <3>3. queue[i] # 0
      <4> SUFFICES ASSUME queue[i] = 0
                   PROVE  FALSE
        OBVIOUS
      <4>1. state \in Node /\ word[state] \in Seq(Byte) /\ 0 \in Node /\ word[0] = <<>>
        BY NodeTypes DEF TypeInv, TrieInv
      <4>2. Depth(0) \in {Depth(state), Depth(state) + 1}
        BY DEF QueueInv
      <4>3. word[state] = <<>>
        BY <4>1, <4>2 DEF Depth
      <4>4. state = 0
        BY <4>1, <4>3 DEF TrieInv
      <4> QED BY <3>1, <4>4 DEF QueueInv
    <3>4. Depth(fail[queue[i]]) < Depth(queue[i]) /\ fail[queue[i]] \in Node
      BY <3>1, <3>3 DEF FoundInv, FailsRight, TypeInv
    <3> QED BY <3>1, <3>2, <3>4, NodeTypes
  <2> QED BY <2>1 DEF QueueInv
<1> QED BY <1>1, MatcherInvariant, PTL

\* A scan never follows a missing edge: when the queue is empty every level has been
\* completed, and the failure node of a node was complete when the node was visited.
THEOREM AutomatonComplete == Spec => []Complete
<1>1. MatcherInv => Complete
  BY NodeTypes DEF MatcherInv, ScanInv, Full, Complete
<1> QED BY <1>1, MatcherInvariant, PTL
=============================================================================
