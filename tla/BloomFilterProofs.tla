-------------------------- MODULE BloomFilterProofs --------------------------
(***************************************************************************)
(* No false negatives and no lost bit, for every number of goroutines,     *)
(* values, hashes and words.                                               *)
(***************************************************************************)
EXTENDS BloomFilter, TLAPS

Hash == 0 .. K - 1

\* Strengthening of NoFalseNegative: the bits of an added value are set, those a
\* running Add has passed are set, and a test that must succeed is testing an
\* added value and has not answered yet.
BloomInv ==
  /\ FilterOK
  /\ \A v \in added : \A j \in Hash : IsSet(words, v, j)
  /\ \A p \in Goroutine :
       /\ g[p].pc \in {"load", "cas"} =>
            (\A j \in Hash : j < g[p].i => IsSet(words, g[p].v, j)) /\ g[p].must = FALSE
       /\ g[p].pc = "test" => (g[p].must => g[p].v \in added) /\ g[p].res = "none"
       /\ g[p].must => g[p].res # "no"

\* What an index computes is within the filter: idx / 64 never leaves the slice
\* New allocates, whatever the hashes are, while bits + 63 does not overflow.
LEMMA IndexInRange ==
  ASSUME NEW v \in Value, NEW j \in Hash
  PROVE  WordIdx(v, j) \in WordIndex /\ Mask(v, j) \in Position
<1> DEFINE x == (H1[v] + j * H2[v]) % U
           b == x % Bits
           w == b \div WordBits
<1>1. /\ Bits \in Nat /\ Bits > 0 /\ WordBits \in Nat /\ WordBits > 0 /\ U \in Nat /\ U > 0
      /\ j \in Nat /\ H1[v] \in Nat /\ H2[v] \in Nat
  BY BloomAssumption DEF Hash
<1>2. H1[v] + j * H2[v] \in Nat
  BY <1>1
<1>3. x \in Nat
  BY <1>1, <1>2
<1> HIDE DEF x
<1>4. b \in 0 .. Bits - 1
  BY <1>1, <1>3
<1> HIDE DEF b
<1>5. w \in Nat /\ w * WordBits <= b
  BY <1>1, <1>4
<1> DEFINE n == Bits + WordBits - 1
<1>6. WordCount \in Int /\ (WordCount + 1) * WordBits > n
  <2>1. n \in Nat /\ n % U = n
    BY <1>1, SizeAssumption
  <2> HIDE DEF n
  <2>2. WordCount = n \div WordBits
    BY <2>1 DEF WordCount, n
  <2> QED BY <1>1, <2>1, <2>2
<1>7. WordCount * WordBits >= Bits
  BY <1>1, <1>6
<1>8. w < WordCount
  BY <1>1, <1>4, <1>5, <1>6, <1>7
<1>9. b % WordBits \in Position
  BY <1>1, <1>4 DEF Position
<1> QED
  BY <1>5, <1>6, <1>8, <1>9 DEF WordIdx, Mask, Idx, WordIndex, b, x

\* A goroutine outside a call.
LEMMA RestingState ==
  /\ Resting \in GState /\ Resting.pc = "idle" /\ Resting.i = 0
  /\ Resting.must = FALSE /\ Resting.res = "none"
BY BloomAssumption DEF Resting, GState

\* One goroutine moves to state u while bits are only added.
LEMMA BloomMove ==
  ASSUME BloomInv, NEW p \in Goroutine, NEW u \in GState,
         g' = [g EXCEPT ![p] = u],
         words' \in [WordIndex -> SUBSET Position],
         \A w \in WordIndex : words[w] \subseteq words'[w],
         added' \subseteq Value, added \subseteq added',
         \A v \in added' : v \in added \/ \A j \in Hash : IsSet(words', v, j),
         u.pc # "idle" => u.v \in Value,
         u.pc \in {"load", "cas"} => (\A j \in Hash : j < u.i => IsSet(words', u.v, j)) /\ u.must = FALSE,
         u.pc = "test" => (u.must => u.v \in added') /\ u.res = "none",
         u.must => u.res # "no"
  PROVE  BloomInv'
<1>1. g \in [Goroutine -> GState] /\ added \subseteq Value /\ words \in [WordIndex -> SUBSET Position]
  BY DEF BloomInv, FilterOK
<1>2. \A q \in Goroutine : g'[q] = IF q = p THEN u ELSE g[q]
  BY <1>1
<1>3. \A v \in Value, j \in Hash : IsSet(words, v, j) => IsSet(words', v, j)
  BY IndexInRange DEF IsSet, WordIdx, Mask, Idx
<1>4. FilterOK'
  <2>1. \A q \in Goroutine : g'[q].pc # "idle" => g'[q].v \in Value /\ g'[q].i \in Hash
    BY <1>1, <1>2 DEF BloomInv, FilterOK, GState, Hash
  <2>2. \A q \in Goroutine : g'[q].pc # "idle" => WordIdx(g'[q].v, g'[q].i) \in DOMAIN words'
    BY <2>1, IndexInRange
  <2>3. g' \in [Goroutine -> GState]
    BY <1>1
  <2>4. FilterOK' <=> /\ words' \in [WordIndex -> SUBSET Position]
                      /\ g' \in [Goroutine -> GState]
                      /\ \A q \in Goroutine : g'[q].pc # "idle" =>
                            g'[q].v \in Value /\ WordIdx(g'[q].v, g'[q].i) \in DOMAIN words'
                      /\ added' \subseteq Value
    BY DEF FilterOK, WordIdx, Idx
  <2> QED BY <2>1, <2>2, <2>3, <2>4
<1>5. \A v \in added' : \A j \in Hash : IsSet(words', v, j)
  BY <1>1, <1>3 DEF BloomInv
<1>6. ASSUME NEW q \in Goroutine
      PROVE  /\ g'[q].pc \in {"load", "cas"} =>
                  (\A j \in Hash : j < g'[q].i => IsSet(words', g'[q].v, j)) /\ g'[q].must = FALSE
             /\ g'[q].pc = "test" => (g'[q].must => g'[q].v \in added') /\ g'[q].res = "none"
             /\ g'[q].must => g'[q].res # "no"
  <2>1. CASE q = p
    BY <1>2, <2>1
  <2>2. CASE q # p
    <3>1. g'[q] = g[q]
      BY <1>2, <2>2
    <3>2. g[q].pc \in {"load", "cas"} => g[q].v \in Value
      BY DEF BloomInv, FilterOK
    <3> QED BY <1>3, <3>1, <3>2 DEF BloomInv
  <2> QED BY <2>1, <2>2
<1> QED BY <1>4, <1>5, <1>6 DEF BloomInv

\* Add's loop goes on or returns: what BloomMove needs of Advance.
LEMMA AdvanceMove ==
  ASSUME BloomInv, NEW p \in Goroutine, g[p].pc \in {"load", "cas"}, Advance(p),
         words' \in [WordIndex -> SUBSET Position],
         \A w \in WordIndex : words[w] \subseteq words'[w],
         IsSet(words', g[p].v, g[p].i)
  PROVE  BloomInv'
<1> DEFINE s == g[p]
           n == s.i + 1
<1>1. s \in GState /\ s.v \in Value /\ s.i \in Hash /\ K \in Nat /\ s.must = FALSE /\ added \subseteq Value
  BY BloomAssumption DEF BloomInv, FilterOK, GState, Hash
<1>2. \A v \in Value, j \in Hash : IsSet(words, v, j) => IsSet(words', v, j)
  BY IndexInRange DEF IsSet
<1>3. \A j \in Hash : j < n => IsSet(words', s.v, j)
  <2>1. \A j \in Hash : j < s.i => IsSet(words', s.v, j)
    BY <1>1, <1>2 DEF BloomInv
  <2>2. \A j \in Hash : j < n => j < s.i \/ j = s.i
    BY <1>1 DEF Hash
  <2> QED BY <2>1, <2>2
<1>4. CASE n < K
  <2> DEFINE u == [s EXCEPT !.pc = "load", !.i = n]
  <2>1. g' = [g EXCEPT ![p] = u] /\ added' = added
    BY <1>4 DEF Advance
  <2>2. n \in Hash
    BY <1>1, <1>4 DEF Hash
  <2>3. u \in GState /\ u.pc = "load" /\ u.v = s.v /\ u.i = n /\ u.must = FALSE
    <3> HIDE DEF n
    <3> QED BY <1>1, <2>2 DEF GState, Hash
  <2> HIDE DEF u, n
  <2> QED BY <1>1, <1>3, <2>1, <2>3, BloomMove
<1>5. CASE ~(n < K)
  <2>1. g' = [g EXCEPT ![p] = Resting] /\ added' = added \cup {s.v}
    BY <1>5 DEF Advance
  <2>2. \A j \in Hash : j < n
    BY <1>1, <1>5 DEF Hash
  <2>3. \A j \in Hash : IsSet(words', s.v, j)
    BY <1>3, <2>2
  <2>4. Resting \in GState /\ Resting.pc = "idle" /\ Resting.must = FALSE
    BY BloomAssumption DEF Resting, GState
  <2> HIDE DEF n
  <2> QED BY <1>1, <2>1, <2>3, <2>4, BloomMove
<1> QED BY <1>4, <1>5

\* Every step keeps BloomInv and clears no bit.
LEMMA BloomStep ==
  BloomInv /\ [Next]_bfVars => BloomInv' /\ \A w \in WordIndex : words[w] \subseteq words'[w]
<1> SUFFICES ASSUME BloomInv, [Next]_bfVars
             PROVE  BloomInv' /\ \A w \in WordIndex : words[w] \subseteq words'[w]
  OBVIOUS
<1>0. /\ words \in [WordIndex -> SUBSET Position] /\ g \in [Goroutine -> GState]
      /\ added \subseteq Value /\ K \in Nat /\ 0 \in Hash
      /\ \A p \in Goroutine : g[p].pc # "idle" => g[p].v \in Value /\ g[p].i \in Hash
  BY BloomAssumption DEF BloomInv, FilterOK, GState, Hash
<1>1. ASSUME NEW p \in Goroutine, NEW v \in Value, StartAdd(p, v)
      PROVE  BloomInv' /\ UNCHANGED words
  <2> DEFINE u == [Resting EXCEPT !.pc = "load", !.v = v]
  <2>1. g' = [g EXCEPT ![p] = u] /\ words' = words /\ added' = added
    BY <1>1 DEF StartAdd
  <2>2. u \in GState /\ u.pc = "load" /\ u.v = v /\ u.i = 0 /\ u.must = FALSE
    BY RestingState DEF GState
  <2>3. \A j \in Hash : ~(j < 0)
    BY DEF Hash
  <2> HIDE DEF u
  <2> QED BY <1>0, <2>1, <2>2, <2>3, BloomMove
<1>2. ASSUME NEW p \in Goroutine, NEW v \in Value, StartTest(p, v)
      PROVE  BloomInv' /\ UNCHANGED words
  <2> DEFINE u == IF v = Empty THEN [Resting EXCEPT !.res = "no"]
                  ELSE [Resting EXCEPT !.pc = "test", !.v = v, !.must = v \in added]
  <2>1. g' = [g EXCEPT ![p] = u] /\ words' = words /\ added' = added
    BY <1>2 DEF StartTest
  <2>2. /\ u \in GState
        /\ \/ u.pc = "idle" /\ u.must = FALSE
           \/ u.pc = "test" /\ u.v = v /\ u.res = "none" /\ (u.must => v \in added)
    <3>1. CASE v = Empty
      BY <3>1, RestingState DEF GState
    <3>2. CASE v # Empty
      <4> DEFINE b == v \in added
      <4>1. b \in BOOLEAN /\ (b => v \in added)
        OBVIOUS
      <4> HIDE DEF b
      <4>2. u = [Resting EXCEPT !.pc = "test", !.v = v, !.must = b]
        BY <3>2 DEF b
      <4> QED BY <4>1, <4>2, RestingState DEF GState
    <3> QED BY <3>1, <3>2
  <2> HIDE DEF u
  <2> QED BY <1>0, <2>1, <2>2, BloomMove
<1>3. ASSUME NEW p \in Goroutine, AddLoad(p) PROVE BloomInv' /\ UNCHANGED words
  <2>0. words' = words /\ g[p].pc = "load"
    BY <1>3 DEF AddLoad
  <2>1. CASE IsSet(words, g[p].v, g[p].i)
    <3>1. Advance(p)
      BY <1>3, <2>1 DEF AddLoad
    <3> QED BY <1>0, <2>0, <2>1, <3>1, AdvanceMove
  <2>2. CASE ~IsSet(words, g[p].v, g[p].i)
    <3> DEFINE w == words[WordIdx(g[p].v, g[p].i)]
               u == [g[p] EXCEPT !.pc = "cas", !.old = w]
    <3>1. g' = [g EXCEPT ![p] = u] /\ added' = added
      BY <1>3, <2>2 DEF AddLoad
    <3>2. w \in SUBSET Position /\ g[p] \in GState
      BY <1>0, <2>0, IndexInRange
    <3> HIDE DEF w
    <3>3. u \in GState /\ u.pc = "cas" /\ u.v = g[p].v /\ u.i = g[p].i /\ u.must = g[p].must
             /\ u.res = g[p].res
      BY <3>2 DEF GState
    <3> HIDE DEF u
    <3>4. /\ \A j \in Hash : j < u.i => IsSet(words', u.v, j)
          /\ u.must = FALSE /\ u.v \in Value
      BY <1>0, <2>0, <3>3 DEF BloomInv
    <3> QED BY <1>0, <2>0, <3>1, <3>3, <3>4, BloomMove
  <2> QED BY <2>0, <2>1, <2>2
<1>4. ASSUME NEW p \in Goroutine, AddCAS(p)
      PROVE  BloomInv' /\ \A w \in WordIndex : words[w] \subseteq words'[w]
  <2> DEFINE s == g[p]
             w == WordIdx(s.v, s.i)
             m == Mask(s.v, s.i)
  <2>0. s.pc = "cas" /\ w \in WordIndex /\ m \in Position
    BY <1>0, <1>4, IndexInRange DEF AddCAS
  <2>1. CASE words[w] = s.old
    <3>1. words' = [words EXCEPT ![w] = s.old \cup {m}] /\ Advance(p)
      BY <1>4, <2>1 DEF AddCAS
    <3>2. IsSet(words', s.v, s.i) <=> m \in words'[w]
      BY DEF IsSet
    <3> HIDE DEF w, m
    <3>3. /\ words' \in [WordIndex -> SUBSET Position]
          /\ \A x \in WordIndex : words[x] \subseteq words'[x]
          /\ m \in words'[w]
      BY <1>0, <2>0, <2>1, <3>1
    <3> QED BY <2>0, <3>1, <3>2, <3>3, AdvanceMove
  <2>2. CASE words[w] # s.old
    <3> DEFINE u == [s EXCEPT !.pc = "load"]
    <3>1. g' = [g EXCEPT ![p] = u] /\ added' = added /\ words' = words
      BY <1>4, <2>2 DEF AddCAS
    <3>2. u \in GState /\ u.pc = "load" /\ u.v = s.v /\ u.i = s.i /\ u.must = s.must /\ u.res = s.res
      BY <1>0 DEF GState
    <3> HIDE DEF u
    <3>3. /\ \A j \in Hash : j < u.i => IsSet(words', u.v, j)
          /\ u.must = FALSE /\ u.v \in Value
      BY <1>0, <2>0, <3>1, <3>2 DEF BloomInv
    <3>4. BloomInv'
      BY <1>0, <3>1, <3>2, <3>3, BloomMove
    <3> QED BY <3>1, <3>4
  <2> QED BY <2>1, <2>2
<1>5. ASSUME NEW p \in Goroutine, TestLoad(p) PROVE BloomInv' /\ UNCHANGED words
  <2> DEFINE s == g[p]
             u == IF ~IsSet(words, s.v, s.i) THEN [s EXCEPT !.pc = "idle", !.i = 0, !.res = "no"]
                  ELSE IF s.i + 1 < K THEN [s EXCEPT !.i = s.i + 1]
                  ELSE [s EXCEPT !.pc = "idle", !.i = 0, !.res = "maybe"]
  <2>1. s.pc = "test" /\ g' = [g EXCEPT ![p] = u] /\ words' = words /\ added' = added
    BY <1>5 DEF TestLoad
  <2>2. /\ s \in GState /\ s.v \in Value /\ s.i \in Hash
        /\ s.must => s.v \in added
        /\ s.res = "none"
    BY <1>0, <2>1 DEF BloomInv
  <2>3. s.must => IsSet(words, s.v, s.i)
    BY <2>2 DEF BloomInv
  <2>4. s.i + 1 < K => s.i + 1 \in 0 .. K - 1
    BY <1>0, <2>2 DEF Hash
  <2>5. 0 \in 0 .. K - 1
    BY <1>0 DEF Hash
  <2>6. /\ u \in GState /\ u.v = s.v /\ u.must = s.must
        /\ \/ u.pc = "idle" /\ (u.must => u.res # "no")
           \/ u.pc = "test" /\ u.res = "none"
    BY <2>1, <2>2, <2>3, <2>4, <2>5 DEF GState
  <2> HIDE DEF u
  <2> QED BY <1>0, <2>1, <2>2, <2>6, BloomMove
<1>6. CASE UNCHANGED bfVars
  BY <1>6 DEF BloomInv, FilterOK, bfVars, IsSet
<1> QED BY <1>1, <1>2, <1>3, <1>4, <1>5, <1>6 DEF Next, Step, bfVars

\* An empty filter satisfies BloomInv.
LEMMA BloomInit == Init => BloomInv
BY BloomAssumption DEF Init, BloomInv, FilterOK, GState, Resting

\* The inductive invariant of the filter under any interleaving of Add and Test.
THEOREM BloomInvariant == Spec => []BloomInv
<1>1. BloomInv /\ [Next]_bfVars => BloomInv'
  BY BloomStep
<1> QED BY <1>1, BloomInit, PTL DEF Spec

\* Filter.Test never denies a value whose Add returned before the test began, for
\* every number of goroutines, hashes and bits: what the bloom fast path of
\* Process relies on.
THEOREM NoFalseNegatives == Spec => []NoFalseNegative
<1>1. BloomInv => NoFalseNegative
  BY DEF BloomInv, NoFalseNegative
<1> QED BY <1>1, BloomInvariant, PTL

\* The compare-and-swap of Filter.Add loses no concurrent update.
THEOREM NoBitCleared == Spec => BitsNeverCleared
<1>1. BloomInv /\ [Next]_bfVars => [\A w \in WordIndex : words[w] \subseteq words'[w]]_bfVars
  BY BloomStep
<1> QED BY <1>1, BloomInvariant, PTL DEF Spec, BitsNeverCleared

\* The word that Add or Test is about to load or to swap is always in the slice New
\* made, for every number of hashes, whatever they are, and every size up to the
\* 2^64 - 64 bits from which filter.go's bits + 63 overflows.
THEOREM FilterAlwaysOK == Spec => []FilterOK
<1>1. BloomInv => FilterOK
  BY DEF BloomInv
<1> QED BY <1>1, BloomInvariant, PTL
=============================================================================
