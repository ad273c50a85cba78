----------------------------- MODULE BloomFilter -----------------------------
(***************************************************************************)
(* pkg/bloom: the lock-free filter behind Engine's bloom test.  Goroutines *)
(* add and test values at the same time; each atomic load and each         *)
(* compare-and-swap of a 64-bit word is a step.  A word is the set of the  *)
(* positions of its 1 bits.  The two hashes of a value are constants: any  *)
(* two numbers, whatever twoHashes makes of the bytes.                     *)
(***************************************************************************)
EXTENDS Integers

CONSTANTS
  Goroutine,
  Value, Empty,   \* what is added and tested; Empty is the empty string
  H1, H2,         \* twoHashes: [Value -> Nat]
  Bits, K,        \* size of the filter and number of hashes, after New's defaults
  WordBits, U     \* 64 and 2^64

ASSUME BloomAssumption ==
  /\ H1 \in [Value -> Nat] /\ H2 \in [Value -> Nat]
  /\ Bits \in Nat \ {0} /\ K \in Nat \ {0}
  /\ WordBits \in Nat \ {0} /\ U \in Nat \ {0}

\* The sum in WordCount does not overflow.  New does not test for it: from 2^64 - 63
\* bits on it makes an empty slice, and the first Add panics.
ASSUME SizeAssumption == Bits + WordBits - 1 < U

VARIABLES
  words,   \* the filter
  g,       \* control state of every goroutine
  added    \* history: values whose Add has returned

bfVars == <<words, g, added>>

\* Mutant: a last, partial word not allocated.
WordCountFloor == (Bits % U) \div WordBits

WordCount == ((Bits + WordBits - 1) % U) \div WordBits
WordIndex == 0 .. WordCount - 1
Position  == 0 .. WordBits - 1

\* Bit i of value v, the word it is in and its position there.
Idx(v, i)     == ((H1[v] + i * H2[v]) % U) % Bits
WordIdx(v, i) == Idx(v, i) \div WordBits
Mask(v, i)    == Idx(v, i) % WordBits

IsSet(ws, v, i) == Mask(v, i) \in ws[WordIdx(v, i)]

\* pc: where the goroutine is; must: the value tested was in the filter when the
\* test began; res: the answer of the last test.
Resting == [pc |-> "idle", v |-> Empty, i |-> 0, old |-> {}, must |-> FALSE, res |-> "none"]

Init == /\ words = [w \in WordIndex |-> {}]
        /\ g = [p \in Goroutine |-> Resting]
        /\ added = {}

-----------------------------------------------------------------------------
(* Add *)

\* Add("") returns at once.
StartAdd(p, v) ==
  /\ g[p].pc = "idle"
  /\ v # Empty
  /\ g' = [g EXCEPT ![p] = [Resting EXCEPT !.pc = "load", !.v = v]]
  /\ UNCHANGED <<words, added>>

\* Mutant: the last hash left out.
AdvanceShort(p) ==
  IF g[p].i + 1 < K - 1
  THEN /\ g' = [g EXCEPT ![p] = [@ EXCEPT !.pc = "load", !.i = g[p].i + 1]]
       /\ UNCHANGED added
  ELSE /\ g' = [g EXCEPT ![p] = Resting]
       /\ added' = added \cup {g[p].v}

\* Bit i is set: the loop goes on with the next one, or Add returns.
Advance(p) ==
  IF g[p].i + 1 < K
  THEN /\ g' = [g EXCEPT ![p] = [@ EXCEPT !.pc = "load", !.i = g[p].i + 1]]
       /\ UNCHANGED added
  ELSE /\ g' = [g EXCEPT ![p] = Resting]
       /\ added' = added \cup {g[p].v}

AddLoad(p) ==
  /\ g[p].pc = "load"
  /\ IF IsSet(words, g[p].v, g[p].i)
     THEN Advance(p)
     ELSE /\ g' = [g EXCEPT ![p] = [@ EXCEPT !.pc = "cas",
                                             !.old = words[WordIdx(g[p].v, g[p].i)]]]
          /\ UNCHANGED added
  /\ UNCHANGED words

\* Mutant: a plain store.
AddStore(p) ==
  LET s == g[p]
      w == WordIdx(s.v, s.i)
  IN  /\ s.pc = "cas"
      /\ words' = [words EXCEPT ![w] = s.old \cup {Mask(s.v, s.i)}]
      /\ Advance(p)

\* Mutant: the word not loaded again after a failed swap.
AddCASNoReload(p) ==
  LET s == g[p]
      w == WordIdx(s.v, s.i)
  IN  /\ s.pc = "cas"
      /\ IF words[w] = s.old
         THEN /\ words' = [words EXCEPT ![w] = s.old \cup {Mask(s.v, s.i)}]
              /\ Advance(p)
         ELSE UNCHANGED <<words, added, g>>

AddCAS(p) ==
  LET s == g[p]
      w == WordIdx(s.v, s.i)
  IN  /\ s.pc = "cas"
      /\ IF words[w] = s.old
         THEN /\ words' = [words EXCEPT ![w] = s.old \cup {Mask(s.v, s.i)}]
              /\ Advance(p)
         ELSE /\ g' = [g EXCEPT ![p] = [@ EXCEPT !.pc = "load"]]
              /\ UNCHANGED <<words, added>>

-----------------------------------------------------------------------------
(* Test *)

\* Test("") is false at once.
StartTest(p, v) ==
  /\ g[p].pc = "idle"
  /\ g' = [g EXCEPT ![p] = IF v = Empty THEN [Resting EXCEPT !.res = "no"]
                           ELSE [Resting EXCEPT !.pc = "test", !.v = v, !.must = v \in added]]
  /\ UNCHANGED <<words, added>>

TestLoad(p) ==
  LET s == g[p]
  IN  /\ s.pc = "test"
      /\ g' = [g EXCEPT ![p] =
                 IF ~IsSet(words, s.v, s.i) THEN [s EXCEPT !.pc = "idle", !.i = 0, !.res = "no"]
                 ELSE IF s.i + 1 < K THEN [s EXCEPT !.i = s.i + 1]
                 ELSE [s EXCEPT !.pc = "idle", !.i = 0, !.res = "maybe"]]
      /\ UNCHANGED <<words, added>>

-----------------------------------------------------------------------------
(* Specification *)

Step(p) == AddLoad(p) \/ AddCAS(p) \/ TestLoad(p)

Next == \E p \in Goroutine : \/ \E v \in Value : StartAdd(p, v) \/ StartTest(p, v)
                             \/ Step(p)

Spec == Init /\ [][Next]_bfVars

\* A goroutine in Add or Test is scheduled.
FairSpec == Spec /\ \A p \in Goroutine : WF_bfVars(Step(p))

-----------------------------------------------------------------------------
(* Properties *)

GState == [pc : {"idle", "load", "cas", "test"}, v : Value \cup {Empty}, i : 0 .. K - 1,
           old : SUBSET Position, must : BOOLEAN, res : {"none", "no", "maybe"}]

\* The types, and that the word a goroutine is about to load or to swap is in the
\* slice New made: an index past it would panic.
FilterOK ==
  /\ words \in [WordIndex -> SUBSET Position]
  /\ g \in [Goroutine -> GState]
  /\ \A p \in Goroutine : g[p].pc # "idle" =>
        g[p].v \in Value /\ WordIdx(g[p].v, g[p].i) \in DOMAIN words
  /\ added \subseteq Value

\* No false negative: a test that began after an Add of its value had returned
\* never answers "definitely not", whatever other goroutines were adding.
NoFalseNegative == \A p \in Goroutine : g[p].must => g[p].res # "no"

\* Concurrent swaps never clear a bit another goroutine has set.
BitsNeverCleared == [][\A w \in WordIndex : words[w] \subseteq words'[w]]_bfVars

\* Every call returns, however often its swaps lose against other goroutines'.
CallsReturn == \A p \in Goroutine : g[p].pc # "idle" ~> g[p].pc = "idle"
=============================================================================
