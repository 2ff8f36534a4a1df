------------------------ MODULE CleanContext_proofs ------------------------
(***************************************************************************)
(* The schedule of an attention layer is a partition for every number of   *)
(* blocks and every parallel size, balanced and with nobody idle if it is  *)
(* dual-ended; and on any layout, with any transport, every row attends    *)
(* exactly its context and its block, each key once, and every gradient    *)
(* comes home once.                                                        *)
(***************************************************************************)
EXTENDS CleanContext, FiniteSetTheorems, SequenceTheorems, TLAPS

-----------------------------------------------------------------------------
(* The block schedule.                                                     *)

\* The owners hold exactly the blocks of B, each of them once.
Holds(owners, S, B) ==
  /\ \A b \in B : \E o \in S : b \in owners[o]
  /\ \A o \in S : owners[o] \subseteq B
  /\ \A o, p \in S : o # p => owners[o] \cap owners[p] = {}

Least(a, b) == IF a < b THEN a ELSE b

\* A loop that deals n tasks to m owners has given owner i's predecessors theirs.
Dealing(n, m) ==
  /\ DivMod(n, m, base, rest)
  /\ i \in 0 .. m
  /\ next = i * base + Least(i, rest)

\* The blocks the active schedule has placed so far.
Placed ==
  CASE phase \in {"start", "raised"} -> {}
    [] phase = "pairs" -> {b \in 0 .. blocks - 1 : b < next \/ b > blocks - 1 - next}
    [] phase = "short" -> i + 1 .. blocks - 1
    [] phase = "shards" -> 0 .. next - 1
    [] OTHER -> 0 .. blocks - 1

\* The blocks the clean K/V has owners for so far.
PlacedKV ==
  CASE phase = "kv" -> 0 .. next - 1
    [] phase = "built" -> 0 .. blocks - 1
    [] OTHER -> {}

ScheduleInv ==
  /\ TypeOK
  /\ phase = "start" => next = 0
  /\ phase = "pairs" => Dealing(Pairs, workers) /\ (\A w \in Workers : w >= i => active[w] = {})
  /\ phase = "short" => i \in -1 .. blocks - 1
  /\ phase = "shards" => Dealing(blocks, workers) /\ (\A w \in Workers : w >= i => active[w] = {})
  /\ phase = "kv" => Dealing(blocks, ranks) /\ (\A c \in ContextRanks : c >= i => kv[c] = {})
  /\ Holds(active, Workers, Placed)
  /\ Holds(kv, ContextRanks, PlacedKV)

\* What is left over when a number is halved.
LEMMA Remainder ==
  ASSUME NEW n \in Int
  PROVE  n % 2 = n - 2 * (n \div 2)
  BY SMTT(30)

\* A natural number is twice its half, and possibly one more.
LEMMA Half ==
  ASSUME NEW n \in Nat
  PROVE  /\ n \div 2 \in Nat
         /\ n % 2 \in {0, 1}
         /\ n = 2 * (n \div 2) + (n % 2)
<1>1. n \div 2 \in Nat /\ n % 2 \in {0, 1}
  OBVIOUS
<1>2. n % 2 = n - 2 * (n \div 2)
  BY Remainder
<1> QED
  BY <1>1, <1>2

\* Products of natural numbers are natural numbers.
LEMMA Product ==
  ASSUME NEW m \in Nat, NEW q \in Nat
  PROVE  m * q \in Nat
  OBVIOUS

\* The two ends of consecutive pairs.
LEMMA PairEnds ==
  ASSUME NEW first \in Nat, NEW count \in Nat, blocks \in Nat, NEW b \in Int
  PROVE  b \in PairsFrom(first, count) <=>
           b \in first .. first + count - 1 \/ blocks - 1 - b \in first .. first + count - 1
<1>1. ASSUME b \in PairsFrom(first, count)
      PROVE  b \in first .. first + count - 1 \/ blocks - 1 - b \in first .. first + count - 1
  <2>1. PICK left \in first .. first + count - 1 : b \in {left, blocks - 1 - left}
    BY <1>1 DEF PairsFrom
  <2>2. CASE b = left
    BY <2>2
  <2>3. CASE b = blocks - 1 - left
    <3>1. blocks - 1 - b = left
      BY <2>3
    <3> QED
      BY <3>1
  <2> QED
    BY <2>1, <2>2, <2>3
<1>2. ASSUME b \in first .. first + count - 1
      PROVE  b \in PairsFrom(first, count)
  BY <1>2 DEF PairsFrom
<1>3. ASSUME blocks - 1 - b \in first .. first + count - 1
      PROVE  b \in PairsFrom(first, count)
  <2> DEFINE left == blocks - 1 - b
  <2>1. b \in {left, blocks - 1 - left}
    BY DEF left
  <2> QED
    BY <1>3, <2>1 DEF PairsFrom
<1> QED
  BY <1>1, <1>2, <1>3

\* The pairs handed out so far and the next ones, end by end.
LEMMA Ends ==
  ASSUME NEW n \in Nat, NEW p \in Nat, p + p <= n,
         NEW x \in Nat, NEW s \in Nat, x + s <= p, NEW b \in Int
  PROVE  (\/ b \in x .. x + s - 1 \/ n - 1 - b \in x .. x + s - 1
          \/ b \in 0 .. n - 1 /\ (b < x \/ b > n - 1 - x))
         <=> b \in 0 .. n - 1 /\ (b < x + s \/ b > n - 1 - (x + s))
  OBVIOUS

\* The next pairs hold none of the blocks handed out so far.
LEMMA EndsApart ==
  ASSUME NEW n \in Nat, NEW p \in Nat, p + p <= n,
         NEW x \in Nat, NEW s \in Nat, x + s <= p, NEW b \in Int
  PROVE  (b \in x .. x + s - 1 \/ n - 1 - b \in x .. x + s - 1)
           => ~ (b < x \/ b > n - 1 - x)
<1>1. CASE b \in x .. x + s - 1
  BY <1>1
<1>2. CASE n - 1 - b \in x .. x + s - 1
  BY <1>2
<1>3. CASE b \notin x .. x + s - 1 /\ n - 1 - b \notin x .. x + s - 1
  BY <1>3
<1> QED
  BY <1>1, <1>2, <1>3

\* Handing new blocks to an owner keeps the owners disjoint.
LEMMA Extend ==
  ASSUME NEW S, NEW f \in [S -> SUBSET Int], NEW B, NEW o \in S, NEW X \in SUBSET Int,
         Holds(f, S, B), X \cap B = {}
  PROVE  Holds([f EXCEPT ![o] = @ \union X], S, B \union X)
  BY DEF Holds

\* One iteration of a dealing loop: the next owner's share fits into the tasks.
LEMMA Deal ==
  ASSUME NEW n \in Nat, NEW m \in Nat, Dealing(n, m), i < m
  PROVE  /\ Share \in Nat
         /\ next + Share <= n
         /\ next + Share = (i + 1) * base + Least(i + 1, rest)
<1> DEFINE left == m - (i + 1)
<1>1. /\ base \in Nat /\ rest \in 0 .. m - 1 /\ n = base * m + rest
      /\ i \in 0 .. m - 1 /\ left \in Nat
  BY DEF Dealing, DivMod
<1>2. left * base \in Nat
  BY <1>1, Product
<1>3. (i + 1) * base = i * base + base
  BY <1>1
<1>4. base * m = (i + 1) * base + left * base
  BY <1>1
<1>5. i * base \in Nat
  BY <1>1, Product
<1>6. next + Share = (i + 1) * base + Least(i + 1, rest)
  BY <1>1, <1>3, <1>5 DEF Dealing, Share, Least
<1> HIDE DEF left
<1>7. next + Share <= n
  BY <1>1, <1>2, <1>3, <1>4, <1>5, <1>6 DEF Least
<1> QED
  BY <1>1, <1>6, <1>7 DEF Share

\* At the end of a dealing loop every task has been handed out.
LEMMA AllDealt ==
  ASSUME NEW n \in Nat, NEW m \in Nat \ {0}, Dealing(n, m), i = m
  PROVE  next = n
<1>1. /\ base \in Nat /\ rest \in 0 .. m - 1 /\ n = base * m + rest
      /\ next = m * base + Least(m, rest)
  BY DEF Dealing, DivMod
<1>2. m * base = base * m
  BY <1>1
<1> QED
  BY <1>1, <1>2 DEF Least

\* A loop starts with nothing handed out.
LEMMA StartDealing ==
  ASSUME NEW name, NEW n \in Nat, NEW m \in Nat \ {0}, Loop(name, 0, n, m)
  PROVE  Dealing(n, m)' /\ next' = 0 /\ base' \in Nat /\ rest' \in Nat
  BY DEF Loop, Dealing, DivMod, Least

\* The schedule invariant holds before the builder starts.
LEMMA InitInv == Init => ScheduleInv
<1> SUFFICES ASSUME Init PROVE ScheduleInv
  OBVIOUS
<1> USE DEF Init
<1>1. TypeOK
  BY CountAssumption DEF TypeOK, Phases
<1>2. Holds(active, Workers, Placed)
  BY DEF Holds, Placed
<1>3. Holds(kv, ContextRanks, PlacedKV)
  BY DEF Holds, PlacedKV
<1> QED
  BY <1>1, <1>2, <1>3 DEF ScheduleInv

\* Every step of build_block_schedule preserves the schedule invariant.
LEMMA StepInv == ScheduleInv /\ [Next]_vars => ScheduleInv'
<1> SUFFICES ASSUME ScheduleInv, [Next]_vars PROVE ScheduleInv'
  OBVIOUS
<1> USE CountAssumption
<1>t. /\ TypeOK /\ blocks \in Nat \ {0} /\ workers \in Nat \ {0} /\ ranks \in Nat \ {0}
      /\ Holds(active, Workers, Placed) /\ Holds(kv, ContextRanks, PlacedKV)
  BY DEF ScheduleInv, TypeOK
<1>p. /\ Pairs \in Nat
      /\ blocks = 2 * Pairs + (IF Odd THEN 1 ELSE 0)
  BY <1>t, Half DEF Pairs, Odd
<1>k. \* every loop over the context ranks starts the same way
  ASSUME Loop("kv", 0, blocks, ranks), UNCHANGED <<inputs, kv>>,
         active' \in [Workers -> SUBSET Int], cost' \in [Workers -> Int],
         phase \notin {"kv", "built"}, Holds(active', Workers, 0 .. blocks - 1)
  PROVE  ScheduleInv'
  <2>1. Dealing(blocks, ranks)' /\ next' = 0 /\ phase' = "kv"
        /\ base' \in Nat /\ rest' \in Nat /\ i' = 0
    BY <1>k, <1>t, StartDealing DEF Loop, inputs
  <2>5. TypeOK'
    BY <1>k, <2>1, <1>t DEF TypeOK, Phases, inputs, Workers, ContextRanks
  <2>2. \A c \in ContextRanks : kv[c] = {}
    BY <1>k, <1>t DEF Holds, PlacedKV
  <2>3. Holds(kv', ContextRanks', PlacedKV')
    BY <1>k, <2>1, <2>2 DEF Holds, PlacedKV, inputs, ContextRanks
  <2>4. Holds(active', Workers', Placed')
    BY <1>k, <2>1 DEF Placed, inputs, Workers
  <2> QED
    BY <1>k, <2>1, <2>2, <2>3, <2>4, <2>5 DEF ScheduleInv, inputs, ContextRanks
<1>1. CASE StartDualEnd
  <2>1. UNCHANGED <<inputs, active, cost, kv>> /\ phase = "start" /\ next = 0
    BY <1>1 DEF StartDualEnd, ScheduleInv
  <2>2. \A w \in Workers : active[w] = {}
    BY <2>1, <1>t DEF Holds, Placed
  <2>3. CASE phase' = "raised" /\ UNCHANGED <<i, next, base, rest>>
    BY <2>1, <2>3, <1>t DEF ScheduleInv, TypeOK, Phases, Placed, PlacedKV, inputs, Workers, ContextRanks
  <2>4. CASE Loop("short", blocks - 1, 0, 1)
    <3>1. phase' = "short" /\ i' = blocks - 1 /\ next' = 0 /\ base' \in Nat /\ rest' \in Nat
      BY <2>4 DEF Loop
    <3>2. Holds(active', Workers', Placed') /\ Holds(kv', ContextRanks', PlacedKV')
      BY <2>1, <3>1, <1>t DEF Holds, Placed, PlacedKV, inputs, Workers, ContextRanks
    <3> QED
      BY <2>1, <3>1, <3>2, <1>t DEF ScheduleInv, TypeOK, Phases, inputs, Workers, ContextRanks
  <2>5. CASE Loop("pairs", 0, Pairs, workers)
    <3>1. Dealing(Pairs, workers)' /\ phase' = "pairs" /\ next' = 0 /\ i' = 0
          /\ base' \in Nat /\ rest' \in Nat
      BY <2>1, <2>5, <1>t, <1>p, StartDealing DEF Loop, inputs, Dealing, Pairs
    <3>2. Holds(active', Workers', Placed') /\ Holds(kv', ContextRanks', PlacedKV')
      BY <2>1, <3>1, <1>t DEF Holds, Placed, PlacedKV, inputs, Workers, ContextRanks
    <3> QED
      BY <2>1, <2>2, <3>1, <3>2, <1>t DEF ScheduleInv, TypeOK, Phases, inputs, Workers, ContextRanks
  <2> QED
    BY <1>1, <2>3, <2>4, <2>5 DEF StartDualEnd
<1>2. CASE StartContiguous
  <2>1. UNCHANGED <<inputs, active, cost, kv>> /\ phase = "start" /\ next = 0
    BY <1>2 DEF StartContiguous, ScheduleInv
  <2>2. \A w \in Workers : active[w] = {}
    BY <2>1, <1>t DEF Holds, Placed
  <2>3. Dealing(blocks, workers)' /\ phase' = "shards" /\ next' = 0 /\ i' = 0
        /\ base' \in Nat /\ rest' \in Nat
    BY <1>2, <2>1, <1>t, StartDealing DEF StartContiguous, Loop, inputs, Dealing
  <2>4. Holds(active', Workers', Placed') /\ Holds(kv', ContextRanks', PlacedKV')
    BY <2>1, <2>3, <1>t DEF Holds, Placed, PlacedKV, inputs, Workers, ContextRanks
  <2> QED
    BY <2>1, <2>2, <2>3, <2>4, <1>t DEF ScheduleInv, TypeOK, Phases, inputs, Workers, ContextRanks
<1>3. CASE DealPairs
  <2>1. /\ phase = "pairs" /\ i \in Workers /\ i < workers /\ Dealing(Pairs, workers)
        /\ active[i] = {} /\ next \in Nat /\ UNCHANGED <<inputs, phase, base, rest, kv>>
    BY <1>3, <1>t DEF DealPairs, ScheduleInv, Dealing, Workers, TypeOK
  <2>2. /\ Share \in Nat /\ next' = next + Share /\ i' = i + 1
        /\ next + Share <= Pairs
        /\ next + Share = (i + 1) * base + Least(i + 1, rest)
    BY <1>3, <2>1, <1>t, <1>p, Deal DEF DealPairs
  <2>3. Dealing(Pairs, workers)'
    BY <2>1, <2>2, <1>t DEF Dealing, DivMod, Pairs, inputs, Workers
  <2> DEFINE X == PairsFrom(next, Share)
  <2>4. X \in SUBSET Int
    BY <2>1, <2>2, <1>t DEF PairsFrom
  <2>5. /\ X \cap Placed = {}
        /\ Placed \union X = {b \in 0 .. blocks - 1 : b < next + Share \/ b > blocks - 1 - (next + Share)}
    <3>2. \A b \in Int : b \in X <=> \/ b \in next .. next + Share - 1
                                     \/ blocks - 1 - b \in next .. next + Share - 1
      BY <2>1, <2>2, <1>t, PairEnds
    <3>3. \A b \in Int : b \in Placed <=> b \in 0 .. blocks - 1 /\ (b < next \/ b > blocks - 1 - next)
      BY <2>1 DEF Placed
    <3>4. Placed \subseteq Int
      BY <2>1 DEF Placed
    <3> HIDE DEF X
    <3>5. X \cap Placed = {}
      <4> SUFFICES ASSUME NEW b \in Int, b \in X, b \in Placed
                   PROVE  FALSE
        BY <3>4
      <4>1. Share \in Nat /\ next \in Nat /\ next + Share <= Pairs /\ Pairs + Pairs <= blocks
            /\ blocks \in Nat /\ Pairs \in Nat
        BY <2>1, <2>2, <1>t, <1>p
      <4>2. \/ b \in next .. next + Share - 1
            \/ blocks - 1 - b \in next .. next + Share - 1
        BY <3>2
      <4>3. b < next \/ b > blocks - 1 - next
        BY <3>3
      <4>4. ~ (b < next \/ b > blocks - 1 - next)
        BY <4>1, <4>2, EndsApart
      <4> QED
        BY <4>3, <4>4
    <3>6. ASSUME NEW b
          PROVE  b \in Placed \union X <=>
                 b \in {c \in 0 .. blocks - 1 : c < next + Share \/ c > blocks - 1 - (next + Share)}
      <4>1. CASE b \notin Int
        <5>1. b \notin Placed /\ b \notin X
          BY <4>1, <3>4, <2>4
        <5>2. 0 .. blocks - 1 \subseteq Int
          OBVIOUS
        <5> QED
          BY <4>1, <5>1, <5>2
      <4>2. CASE b \in Int
        <5>1. Share \in Nat /\ next \in Nat /\ next + Share <= Pairs /\ Pairs + Pairs <= blocks
          BY <2>1, <2>2, <1>t, <1>p
        <5>2. /\ b \in X <=> \/ b \in next .. next + Share - 1
                             \/ blocks - 1 - b \in next .. next + Share - 1
              /\ b \in Placed <=> b \in 0 .. blocks - 1 /\ (b < next \/ b > blocks - 1 - next)
          BY <4>2, <3>2, <3>3
        <5>3. (b \in X \/ b \in Placed) <=>
                b \in 0 .. blocks - 1 /\ (b < next + Share \/ b > blocks - 1 - (next + Share))
          BY <4>2, <5>1, <5>2, <1>t, <1>p, Ends
        <5> QED
          BY <5>3
      <4> QED
        BY <4>1, <4>2
    <3> QED
      BY <3>5, <3>6
  <2>6. active' = [active EXCEPT ![i] = @ \union X]
    BY <1>3, <2>1, <1>t DEF DealPairs, TypeOK
  <2>7. Holds(active', Workers, Placed \union X)
    <3> HIDE DEF X
    <3> QED
      BY <2>1, <2>4, <2>5, <2>6, <1>t, Extend DEF TypeOK
  <2>8. Holds(active', Workers', Placed') /\ Holds(kv', ContextRanks', PlacedKV')
    BY <2>1, <2>2, <2>5, <2>7, <1>t DEF Placed, PlacedKV, inputs, Workers, ContextRanks
  <2>9. TypeOK'
    BY <1>3, <2>1, <2>2, <2>4, <2>6, <1>t DEF DealPairs, TypeOK, inputs, Workers, ContextRanks
  <2>10. \A w \in Workers' : w >= i' => active'[w] = {}
    BY <1>3, <2>1, <2>2, <2>6, <1>t DEF ScheduleInv, inputs, Workers, TypeOK
  <2> QED
    BY <2>1, <2>3, <2>8, <2>9, <2>10 DEF ScheduleInv
<1>4. CASE Middle
  <2>1. phase = "pairs" /\ UNCHANGED <<inputs, kv>> /\ Loop("kv", 0, blocks, ranks)
    BY <1>4 DEF Middle
  <2>2. next = Pairs
    BY <1>4, <1>t, <1>p, AllDealt DEF Middle, ScheduleInv
  <2>3. CASE ~ Odd
    <3>1. Placed = 0 .. blocks - 1
      <4>1. blocks = Pairs + Pairs
        BY <2>3, <1>t, <1>p
      <4>2. Placed = {b \in 0 .. blocks - 1 : b < Pairs \/ b > blocks - 1 - Pairs}
        BY <2>1, <2>2 DEF Placed
      <4> QED
        BY <4>1, <4>2, <1>p
    <3> QED
      BY <1>4, <1>k, <1>t, <2>1, <2>3, <3>1 DEF Middle, TypeOK
  <2>4. CASE Odd
    <3> DEFINE X == {Pairs}
    <3>1. X \in SUBSET Int /\ X \cap Placed = {} /\ Placed \union X = 0 .. blocks - 1
      <4>1. blocks = Pairs + Pairs + 1
        BY <2>4, <1>t, <1>p
      <4>2. Placed = {b \in 0 .. blocks - 1 : b < Pairs \/ b > blocks - 1 - Pairs}
        BY <2>1, <2>2 DEF Placed
      <4>3. Pairs \in Nat
        BY <1>p
      <4>4. Placed \union X \subseteq 0 .. blocks - 1 /\ X \cap Placed = {}
        BY <4>1, <4>2, <4>3, EndsApart
      <4>5. ASSUME NEW b \in 0 .. blocks - 1
            PROVE  b \in Placed \union X
        BY <4>1, <4>2, <4>3, EndsApart
      <4>6. X \in SUBSET Int
        BY <4>3
      <4> QED
        <5> HIDE DEF X
        <5>1. Placed \union X = 0 .. blocks - 1
          BY <4>4, <4>5, Zenon
        <5> QED
          BY <4>4, <4>6, <5>1
    <3>2. PICK w \in Workers : /\ active' = [active EXCEPT ![w] = @ \union X]
                               /\ cost' = [cost EXCEPT ![w] = @ + Pairs]
      BY <1>4, <2>4 DEF Middle, Pairs
    <3>3. Pairs \in Int
      BY <1>p
    <3> HIDE DEF X
    <3>4. Holds(active', Workers, 0 .. blocks - 1)
      <4>1. Holds(active', Workers, Placed \union X)
        BY <3>1, <3>2, <1>t, Extend DEF TypeOK
      <4> QED
        BY <3>1, <4>1
    <3>5. active' \in [Workers -> SUBSET Int] /\ cost' \in [Workers -> Int]
      BY <3>1, <3>2, <3>3, <1>t DEF TypeOK
    <3> QED
      BY <1>k, <2>1, <3>4, <3>5
  <2> QED
    BY <2>3, <2>4
<1>5. CASE PlaceBlock
  <2>1. /\ phase = "short" /\ i \in 0 .. blocks - 1 /\ i' = i - 1
        /\ UNCHANGED <<inputs, phase, next, base, rest, kv>>
    BY <1>5, <1>t DEF PlaceBlock, ScheduleInv
  <2>2. PICK w \in Workers : /\ active' = [active EXCEPT ![w] = @ \union {i}]
                             /\ cost' = [cost EXCEPT ![w] = @ + i]
    BY <1>5 DEF PlaceBlock
  <2> DEFINE X == {i}
  <2>3. X \in SUBSET Int /\ X \cap Placed = {} /\ Placed \union X = i .. blocks - 1
    BY <2>1, <1>t DEF Placed
  <2>4. Holds(active', Workers, i .. blocks - 1)
    <3> HIDE DEF X
    <3>1. active' = [active EXCEPT ![w] = @ \union X]
      BY <2>2 DEF X
    <3>2. Holds(active', Workers, Placed \union X)
      BY <2>3, <3>1, <1>t, Extend DEF TypeOK
    <3> QED
      BY <3>2, <2>3
  <2>5. Holds(active', Workers', Placed') /\ Holds(kv', ContextRanks', PlacedKV')
    BY <2>1, <2>4, <1>t DEF Placed, PlacedKV, inputs, Workers, ContextRanks
  <2>6. TypeOK'
    BY <2>1, <2>2, <1>t DEF TypeOK, inputs, Workers, ContextRanks
  <2> QED
    BY <2>1, <2>5, <2>6, <1>t DEF ScheduleInv, inputs
<1>6. CASE AllPlaced
  <2>1. /\ phase = "short" /\ i = -1
        /\ UNCHANGED <<inputs, active, cost, kv>> /\ Loop("kv", 0, blocks, ranks)
    BY <1>6, <1>t DEF AllPlaced, ScheduleInv
  <2>2. Placed = 0 .. blocks - 1
    BY <2>1, <1>t DEF Placed
  <2> QED
    BY <1>k, <1>t, <2>1, <2>2 DEF TypeOK
<1>7. CASE DealShard
  <2>1. /\ phase = "shards" /\ i \in Workers /\ i < workers /\ Dealing(blocks, workers)
        /\ active[i] = {} /\ next \in Nat /\ UNCHANGED <<inputs, phase, base, rest, cost, kv>>
    BY <1>7, <1>t DEF DealShard, ScheduleInv, Dealing, Workers, TypeOK
  <2>2. /\ Share \in Nat /\ next' = next + Share /\ i' = i + 1
        /\ next + Share <= blocks
        /\ next + Share = (i + 1) * base + Least(i + 1, rest)
    BY <1>7, <2>1, <1>t, Deal DEF DealShard
  <2>3. Dealing(blocks, workers)'
    BY <2>1, <2>2, <1>t DEF Dealing, DivMod, inputs, Workers
  <2> DEFINE X == next .. next + Share - 1
  <2>4. /\ X \in SUBSET Int /\ X \cap Placed = {}
        /\ Placed \union X = 0 .. next + Share - 1
    <3>1. Share \in Nat /\ next \in Nat /\ phase = "shards"
      BY <2>1, <2>2
    <3> QED
      BY <3>1 DEF Placed
  <2>5. active' = [active EXCEPT ![i] = @ \union X]
    BY <1>7, <2>1, <1>t DEF DealShard, TypeOK
  <2> HIDE DEF X
  <2>6. Holds(active', Workers, 0 .. next + Share - 1)
    <3>1. Holds(active', Workers, Placed \union X)
      BY <2>1, <2>4, <2>5, <1>t, Extend DEF TypeOK
    <3> QED
      BY <3>1, <2>4
  <2>7. Holds(active', Workers', Placed') /\ Holds(kv', ContextRanks', PlacedKV')
    BY <2>1, <2>2, <2>6, <1>t DEF Placed, PlacedKV, inputs, Workers, ContextRanks
  <2>8. TypeOK'
    BY <2>1, <2>2, <2>4, <2>5, <1>t DEF TypeOK, inputs, Workers, ContextRanks
  <2>9. \A w \in Workers' : w >= i' => active'[w] = {}
    BY <2>1, <2>2, <2>5, <1>t DEF ScheduleInv, inputs, Workers, TypeOK
  <2> QED
    BY <2>1, <2>3, <2>7, <2>8, <2>9 DEF ScheduleInv
<1>8. CASE ShardsDealt
  <2>1. /\ phase = "shards" /\ UNCHANGED <<inputs, active, cost, kv>> /\ Loop("kv", 0, blocks, ranks)
    BY <1>8 DEF ShardsDealt
  <2>2. next = blocks
    BY <1>8, <1>t, AllDealt DEF ShardsDealt, ScheduleInv
  <2>3. Placed = 0 .. blocks - 1
    BY <2>1, <2>2 DEF Placed
  <2> QED
    BY <1>k, <1>t, <2>1, <2>3 DEF TypeOK
<1>9. CASE DealKV
  <2>1. /\ phase = "kv" /\ i \in ContextRanks /\ i < ranks /\ Dealing(blocks, ranks)
        /\ kv[i] = {} /\ next \in Nat /\ UNCHANGED <<inputs, phase, base, rest, active, cost>>
    BY <1>9, <1>t DEF DealKV, ScheduleInv, Dealing, ContextRanks, TypeOK
  <2>2. /\ Share \in Nat /\ next' = next + Share /\ i' = i + 1
        /\ next + Share <= blocks
        /\ next + Share = (i + 1) * base + Least(i + 1, rest)
    BY <1>9, <2>1, <1>t, Deal DEF DealKV
  <2>3. Dealing(blocks, ranks)'
    BY <2>1, <2>2, <1>t DEF Dealing, DivMod, inputs, ContextRanks
  <2> DEFINE X == next .. next + Share - 1
  <2>4. /\ X \in SUBSET Int /\ X \cap PlacedKV = {}
        /\ PlacedKV \union X = 0 .. next + Share - 1
    <3>1. Share \in Nat /\ next \in Nat /\ phase = "kv"
      BY <2>1, <2>2
    <3> QED
      BY <3>1 DEF PlacedKV
  <2>5. kv' = [kv EXCEPT ![i] = @ \union X]
    BY <1>9, <2>1, <1>t DEF DealKV, TypeOK
  <2> HIDE DEF X
  <2>6. Holds(kv', ContextRanks, 0 .. next + Share - 1)
    <3>1. Holds(kv', ContextRanks, PlacedKV \union X)
      BY <2>1, <2>4, <2>5, <1>t, Extend DEF TypeOK
    <3> QED
      BY <3>1, <2>4
  <2>7. Holds(active', Workers', Placed') /\ Holds(kv', ContextRanks', PlacedKV')
    BY <2>1, <2>2, <2>6, <1>t DEF Placed, PlacedKV, inputs, Workers, ContextRanks
  <2>8. TypeOK'
    BY <2>1, <2>2, <2>4, <2>5, <1>t DEF TypeOK, inputs, Workers, ContextRanks
  <2>9. \A c \in ContextRanks' : c >= i' => kv'[c] = {}
    BY <2>1, <2>2, <2>5, <1>t DEF ScheduleInv, inputs, ContextRanks, TypeOK
  <2> QED
    BY <2>1, <2>3, <2>7, <2>8, <2>9 DEF ScheduleInv
<1>10. CASE Built
  <2>1. /\ phase = "kv" /\ phase' = "built"
        /\ UNCHANGED <<inputs, i, next, base, rest, active, cost, kv>>
    BY <1>10 DEF Built
  <2>2. next = blocks
    BY <1>10, <1>t, AllDealt DEF Built, ScheduleInv
  <2>3. Holds(active', Workers', Placed') /\ Holds(kv', ContextRanks', PlacedKV')
    BY <2>1, <2>2, <1>t DEF Placed, PlacedKV, inputs, Workers, ContextRanks
  <2>4. TypeOK'
    BY <2>1, <1>t DEF TypeOK, Phases, inputs, Workers, ContextRanks
  <2> QED
    BY <2>1, <2>3, <2>4 DEF ScheduleInv
<1>11. CASE UNCHANGED vars
  BY <1>11 DEF vars, inputs, ScheduleInv, TypeOK, Dealing, DivMod, Holds, Placed, PlacedKV,
               Workers, ContextRanks, Pairs
<1> QED
  BY <1>1, <1>2, <1>3, <1>4, <1>5, <1>6, <1>7, <1>8, <1>9, <1>10, <1>11 DEF Next, Returned

\* The schedule invariant holds throughout.
LEMMA InvCorrect == Spec => []ScheduleInv
  BY InitInv, StepInv, PTL DEF Spec

\* Every variable of the builder has its type throughout.
THEOREM TypeCorrect == Spec => []TypeOK
<1>1. ScheduleInv => TypeOK
  BY DEF ScheduleInv
<1> QED
  BY <1>1, InvCorrect, PTL

\* Whatever the policy, the number of blocks and the number of workers, the
\* workers' blocks are a partition: validate_block_schedule never raises on them.
THEOREM EachBlockActiveOnce == Spec => []ActiveBlocksOnce
<1>1. ScheduleInv => ActiveBlocksOnce
  BY DEF ScheduleInv, ActiveBlocksOnce, Partition, Holds, Placed
<1> QED
  BY <1>1, InvCorrect, PTL

\* Every block's clean K/V has exactly one owner among the context ranks.
THEOREM EachBlockOwnedOnce == Spec => []KVBlocksOnce
<1>1. ScheduleInv => KVBlocksOnce
  BY DEF ScheduleInv, KVBlocksOnce, Partition, Holds, PlacedKV
<1> QED
  BY <1>1, InvCorrect, PTL

-----------------------------------------------------------------------------
(* The load of a dual-end schedule.                                        *)

Balanced(load) == \A v, w \in Workers : load[v] - load[w] <= blocks
NobodyIdle == \A w \in Workers : active[w] # {}

\* The pairs that a dealing loop gives worker w.
ShareOf(w) == base + (IF w < rest THEN 1 ELSE 0)

\* Dealing pairs, a worker's cost is that of its share.  Placing single blocks, the first
\* blocks go to one worker after the other: a worker without any is the lightest, since
\* only the last block costs nothing.
LoadInv ==
  /\ phase = "start" => \A w \in Workers : cost[w] = 0
  /\ phase = "pairs" =>
       /\ Pairs + (IF Odd THEN 1 ELSE 0) >= workers
       /\ \A w \in Workers :
            IF w < i THEN /\ cost[w] = ShareOf(w) * (blocks - 1)
                          /\ ShareOf(w) > 0 => active[w] # {}
            ELSE cost[w] = 0
  /\ phase = "short" =>
       /\ blocks >= workers
       /\ \A w \in Workers :
            IF w < blocks - 1 - i THEN active[w] # {} /\ (i >= 0 => cost[w] > 0)
            ELSE cost[w] = 0
       /\ Balanced(cost)
  /\ phase = "shards" => policy = "contiguous"
  /\ phase \in {"kv", "built"} /\ policy = "dual_end" => NobodyIdle /\ Balanced(cost)

\* The lightest worker takes at most a whole prefix: the loads stay balanced.
LEMMA LightestStaysBalanced ==
  ASSUME cost \in [Workers -> Int], blocks \in Nat, Balanced(cost),
         NEW w \in Workers, Lightest(w), NEW x \in 0 .. blocks
  PROVE  Balanced([cost EXCEPT ![w] = @ + x])
<1> DEFINE load == [cost EXCEPT ![w] = @ + x]
<1>1. /\ load[w] = cost[w] + x
      /\ \A v \in Workers : v # w => load[v] = cost[v]
      /\ \A v \in Workers : cost[v] \in Int /\ cost[w] <= cost[v]
  BY DEF Lightest
<1> HIDE DEF load
<1>2. ASSUME NEW u \in Workers, NEW v \in Workers PROVE load[u] - load[v] <= blocks
  <2>1. cost[u] - cost[v] <= blocks /\ cost[u] \in Int /\ cost[v] \in Int /\ cost[w] \in Int
    BY <1>1 DEF Balanced
  <2>2. CASE u = w
    BY <1>1, <2>1, <2>2
  <2>3. CASE u # w
    BY <1>1, <2>1, <2>3
  <2> QED
    BY <2>2, <2>3
<1> QED
  BY <1>2 DEF Balanced, load

\* Shares that differ by a pair at most are balanced.
LEMMA SharesAreBalanced ==
  ASSUME blocks \in Nat \ {0}, base \in Nat, rest \in Nat, cost \in [Workers -> Int],
         \A w \in Workers : cost[w] = ShareOf(w) * (blocks - 1)
  PROVE  Balanced(cost)
<1> DEFINE n == blocks - 1  c == base * (blocks - 1)
<1>1. n \in Nat /\ c \in Int /\ (base + 1) * (blocks - 1) = c + n
  <2>1. base * n \in Nat
    BY Product
  <2>2. (base + 1) * n = base * n + n
    OBVIOUS
  <2> QED
    BY <2>1, <2>2
<1>2. \A w \in Workers : cost[w] = c \/ cost[w] = c + n
  BY <1>1 DEF ShareOf
<1>3. blocks = n + 1
  OBVIOUS
<1> HIDE DEF n, c
<1> QED
  BY <1>1, <1>2, <1>3 DEF Balanced

\* The invariant of the loads holds before the builder starts.
LEMMA LoadInit == Init => LoadInv
  BY DEF Init, LoadInv

\* Every step of build_block_schedule preserves the invariant of the loads.
LEMMA LoadStep ==
  ASSUME ScheduleInv, LoadInv, [Next]_vars
  PROVE  LoadInv'
<1> USE CountAssumption
<1>t. /\ TypeOK /\ blocks \in Nat \ {0} /\ workers \in Nat \ {0} /\ ranks \in Nat \ {0}
      /\ cost \in [Workers -> Int] /\ active \in [Workers -> SUBSET Int]
  BY DEF ScheduleInv, TypeOK
<1>p. /\ Pairs \in Nat
      /\ blocks = 2 * Pairs + (IF Odd THEN 1 ELSE 0)
  BY <1>t, Half DEF Pairs, Odd
<1>1. CASE StartDualEnd
  <2>1. UNCHANGED <<inputs, active, cost, kv>> /\ phase = "start"
    BY <1>1 DEF StartDualEnd
  <2>2. \A w \in Workers : cost[w] = 0
    BY <2>1 DEF LoadInv
  <2>3. CASE phase' = "raised"
    BY <2>3 DEF LoadInv
  <2>4. CASE blocks >= workers /\ Loop("short", blocks - 1, 0, 1)
    <3>1. phase' = "short" /\ i' = blocks - 1
      BY <2>4 DEF Loop
    <3>2. Balanced(cost)
      BY <1>t, <2>2 DEF Balanced
    <3>3. \A w \in Workers : ~(w < blocks - 1 - (blocks - 1))
      BY <1>t DEF Workers
    <3> QED
      BY <2>1, <2>2, <2>4, <3>1, <3>2, <3>3 DEF LoadInv, inputs, Workers, Balanced
  <2>5. CASE Pairs + (IF Odd THEN 1 ELSE 0) >= workers /\ Loop("pairs", 0, Pairs, workers)
    <3>1. phase' = "pairs" /\ i' = 0
      BY <2>5 DEF Loop
    <3>2. \A w \in Workers : ~(w < 0)
      BY <1>t DEF Workers
    <3> QED
      BY <2>1, <2>2, <2>5, <3>1, <3>2 DEF LoadInv, inputs, Workers, Pairs, Odd
  <2>6. Pairs + (IF Odd THEN 1 ELSE 0) < workers \/ Pairs + (IF Odd THEN 1 ELSE 0) >= workers
    BY <1>t, <1>p
  <2> QED
    BY <1>1, <1>t, <2>3, <2>4, <2>5, <2>6 DEF StartDualEnd
<1>2. CASE StartContiguous
  BY <1>2 DEF StartContiguous, Loop, LoadInv, inputs
<1>3. CASE DealPairs
  <2>1. /\ phase = "pairs" /\ i \in Workers /\ Dealing(Pairs, workers)
        /\ next \in Nat /\ UNCHANGED <<inputs, phase, base, rest, kv>> /\ i' = i + 1
        /\ active' = [active EXCEPT ![i] = PairsFrom(next, Share)]
        /\ cost' = [cost EXCEPT ![i] = Share * (blocks - 1)]
    BY <1>3, <1>t DEF DealPairs, ScheduleInv, Dealing, Workers, TypeOK
  <2>2. Share = ShareOf(i) /\ base \in Nat /\ Share \in Nat
    BY <1>t, <2>1 DEF Share, ShareOf, TypeOK
  <2>3. ShareOf(i) > 0 => PairsFrom(next, Share) # {}
    <3>1. ShareOf(i) > 0 => next \in next .. next + Share - 1
      BY <2>1, <2>2
    <3>2. next \in next .. next + Share - 1 => next \in PairsFrom(next, Share)
      BY DEF PairsFrom
    <3> QED
      BY <3>1, <3>2
  <2>4. ASSUME NEW w \in Workers
        PROVE  IF w < i + 1 THEN /\ cost'[w] = ShareOf(w) * (blocks - 1)
                                 /\ ShareOf(w) > 0 => active'[w] # {}
               ELSE cost'[w] = 0
    <3>1. CASE w = i
      <4>1. cost'[i] = ShareOf(i) * (blocks - 1) /\ active'[i] = PairsFrom(next, Share)
        BY <1>t, <2>1, <2>2
      <4>2. i < i + 1
        BY <2>1 DEF Workers
      <4> QED
        BY <2>3, <3>1, <4>1, <4>2
    <3>2. CASE w # i
      <4>1. cost'[w] = cost[w] /\ active'[w] = active[w]
        BY <1>t, <2>1, <3>2
      <4>2. w < i + 1 <=> w < i
        BY <1>t, <2>1, <3>2 DEF Workers
      <4> QED
        BY <2>1, <4>1, <4>2 DEF LoadInv
    <3> QED
      BY <3>1, <3>2
  <2> QED
    BY <2>1, <2>4 DEF LoadInv, inputs, Workers, ShareOf, Pairs, Odd
<1>4. CASE Middle
  <2>1. /\ phase = "pairs" /\ phase' = "kv" /\ UNCHANGED inputs /\ i = workers
        /\ base \in Nat /\ rest \in 0 .. workers - 1 /\ Pairs = base * workers + rest
        /\ Pairs + (IF Odd THEN 1 ELSE 0) >= workers
    BY <1>4 DEF Middle, Loop, ScheduleInv, LoadInv, Dealing, DivMod
  <2>2. \A w \in Workers : /\ cost[w] = ShareOf(w) * (blocks - 1)
                           /\ ShareOf(w) > 0 => active[w] # {}
    <3>1. \A w \in Workers : w < i
      BY <1>t, <2>1 DEF Workers
    <3> QED
      BY <2>1, <3>1 DEF LoadInv
  <2>3. Balanced(cost)
    BY <1>t, <2>1, <2>2, SharesAreBalanced
  <2>4. base > 0 => NobodyIdle
    <3>1. base > 0 => \A w \in Workers : ShareOf(w) > 0
      BY <2>1 DEF ShareOf
    <3> QED
      BY <2>2, <3>1 DEF NobodyIdle
  <2>5. CASE ~ Odd
    <3>1. base > 0
      <4>1. base = 0 => base * workers = 0
        BY <1>t
      <4> QED
        BY <1>t, <1>p, <2>1, <2>5, <4>1
    <3>2. active' = active /\ cost' = cost
      BY <1>4, <2>5 DEF Middle
    <3> QED
      BY <2>1, <2>3, <2>4, <3>1, <3>2 DEF LoadInv, inputs, Workers, NobodyIdle, Balanced
  <2>6. CASE Odd
    <3>1. PICK w \in Workers :
            /\ Lightest(w)
            /\ active' = [active EXCEPT ![w] = @ \union {blocks \div 2}]
            /\ cost' = [cost EXCEPT ![w] = @ + blocks \div 2]
      BY <1>4, <2>6 DEF Middle
    <3>2. blocks \div 2 = Pairs /\ Pairs \in 0 .. blocks /\ blocks = 2 * Pairs + 1
      BY <1>t, <1>p, <2>6 DEF Pairs
    <3>3. Balanced(cost')
      BY <1>t, <2>3, <3>1, <3>2, LightestStaysBalanced
    <3>4. active'[w] # {} /\ \A v \in Workers : active[v] # {} => active'[v] # {}
      BY <1>t, <3>1
    <3>5. \A v \in Workers : active'[v] # {}
      <4>1. CASE base > 0
        BY <2>4, <3>4, <4>1 DEF NobodyIdle
      <4>2. CASE ~(base > 0)
        <5>1. base = 0 /\ base * workers = 0
          BY <1>t, <2>1, <4>2
        <5>2. rest = workers - 1 /\ rest \in Workers /\ Pairs = rest
          BY <1>t, <1>p, <2>1, <5>1 DEF Workers
        <5>3. \A v \in Workers : v # rest => v < rest
          BY <1>t, <5>2 DEF Workers
        <5>4. \A v \in Workers : v # rest => ShareOf(v) = 1 /\ active[v] # {}
          BY <2>2, <5>1, <5>3 DEF ShareOf
        <5>5. w = rest
          <6>1. CASE workers = 1
            BY <5>2, <6>1 DEF Workers
          <6>2. CASE workers # 1
            <7>1. blocks - 1 > 0 /\ blocks - 1 \in Nat
              BY <1>t, <3>2, <5>2, <6>2
            <7>2. cost[rest] = 0
              <8>1. ShareOf(rest) = 0
                BY <1>t, <5>1, <5>2 DEF ShareOf
              <8>2. cost[rest] = 0 * (blocks - 1)
                BY <2>2, <5>2, <8>1
              <8> QED
                BY <7>1, <8>2
            <7>3. \A v \in Workers : v # rest => cost[v] = blocks - 1
              <8>1. 1 * (blocks - 1) = blocks - 1
                BY <7>1
              <8> QED
                BY <2>2, <5>4, <8>1
            <7>4. cost[w] <= cost[rest]
              BY <1>t, <3>1, <5>2 DEF Lightest
            <7> QED
              BY <7>1, <7>2, <7>3, <7>4
          <6> QED
            BY <6>1, <6>2
        <5> QED
          BY <3>4, <5>4, <5>5
      <4> QED
        BY <4>1, <4>2
    <3> QED
      BY <2>1, <3>3, <3>5 DEF LoadInv, inputs, Workers, NobodyIdle, Balanced
  <2> QED
    BY <2>5, <2>6
<1>5. CASE PlaceBlock
  <2>1. /\ phase = "short" /\ phase' = "short" /\ UNCHANGED inputs /\ i' = i - 1
        /\ i \in 0 .. blocks - 1
    BY <1>5, <1>t DEF PlaceBlock, ScheduleInv
  <2>2. PICK w \in Workers :
          /\ Lightest(w)
          /\ active' = [active EXCEPT ![w] = @ \union {i}]
          /\ cost' = [cost EXCEPT ![w] = @ + i]
    BY <1>5 DEF PlaceBlock
  <2> DEFINE placed == blocks - 1 - i
  <2>3. /\ placed \in Nat /\ blocks - 1 - (i - 1) = placed + 1
        /\ blocks >= workers /\ Balanced(cost)
        /\ \A v \in Workers : IF v < placed THEN active[v] # {} /\ cost[v] > 0 ELSE cost[v] = 0
    BY <1>t, <2>1 DEF LoadInv
  <2> HIDE DEF placed
  <2>4. Balanced(cost')
    <3>1. i \in 0 .. blocks
      BY <1>t, <2>1
    <3> QED
      BY <1>t, <2>2, <2>3, <3>1, LightestStaysBalanced
  <2>5. placed \in Workers => w = placed
    <3>1. ASSUME placed \in Workers PROVE w = placed
      <4>1. cost[placed] = 0 /\ (cost[w] < cost[placed] \/ (cost[w] = cost[placed] /\ w <= placed))
        BY <2>2, <2>3, <3>1 DEF Lightest
      <4>2. w \in Nat /\ placed \in Nat
        BY <2>3 DEF Workers
      <4>3. CASE w < placed
        <5>1. cost[w] > 0 /\ cost[w] \in Int
          BY <1>t, <2>3, <4>3
        <5> QED
          BY <4>1, <5>1
      <4>4. CASE ~(w < placed)
        <5>1. cost[w] = 0
          BY <2>3, <4>4
        <5> QED
          BY <4>1, <4>2, <4>4, <5>1
      <4> QED
        BY <4>3, <4>4
    <3> QED
      BY <3>1
  <2>6. ASSUME NEW v \in Workers
        PROVE  IF v < placed + 1 THEN active'[v] # {} /\ (i - 1 >= 0 => cost'[v] > 0)
               ELSE cost'[v] = 0
    <3>1. CASE v = w
      <4>1. active'[w] # {} /\ cost'[w] = cost[w] + i /\ cost[w] >= 0 /\ cost[w] \in Int
        BY <1>t, <2>2, <2>3
      <4>2. w < placed + 1
        <5>1. w \in 0 .. workers - 1
          BY DEF Workers
        <5>2. CASE placed < workers
          <6>1. placed \in Workers
            BY <1>t, <2>3, <5>2 DEF Workers
          <6> QED
            BY <2>3, <2>5, <6>1
        <5>3. CASE ~(placed < workers)
          BY <1>t, <2>3, <5>1, <5>3
        <5> QED
          BY <5>2, <5>3
      <4>3. i - 1 >= 0 => cost[w] + i > 0
        BY <2>1, <4>1
      <4> QED
        BY <3>1, <4>1, <4>2, <4>3
    <3>2. CASE v # w
      <4>1. active'[v] = active[v] /\ cost'[v] = cost[v]
        BY <1>t, <2>2, <3>2
      <4>2. v < placed + 1 <=> v < placed
        <5>1. v # placed
          BY <2>5, <3>2
        <5> QED
          BY <1>t, <2>3, <5>1 DEF Workers
      <4> QED
        BY <2>3, <4>1, <4>2
    <3> QED
      BY <3>1, <3>2
  <2> QED
    BY <2>1, <2>3, <2>4, <2>6 DEF LoadInv, inputs, Workers, Balanced
<1>6. CASE AllPlaced
  <2>1. /\ phase = "short" /\ i = -1 /\ phase' = "kv" /\ UNCHANGED <<inputs, active, cost>>
    BY <1>6, <1>t DEF AllPlaced, Loop, ScheduleInv
  <2>2. \A w \in Workers : w < blocks - 1 - i
    BY <1>t, <2>1 DEF LoadInv, Workers
  <2>3. NobodyIdle /\ Balanced(cost)
    BY <2>1, <2>2 DEF LoadInv, NobodyIdle
  <2> QED
    BY <2>1, <2>3 DEF LoadInv, inputs, Workers, NobodyIdle, Balanced
<1>7. CASE DealShard
  BY <1>7 DEF DealShard, LoadInv, inputs
<1>8. CASE ShardsDealt
  BY <1>8 DEF ShardsDealt, Loop, LoadInv, inputs
<1>9. CASE DealKV
  BY <1>9 DEF DealKV, LoadInv, inputs, Workers, NobodyIdle, Balanced
<1>10. CASE Built
  BY <1>10 DEF Built, LoadInv, inputs, Workers, NobodyIdle, Balanced
<1>11. CASE Returned \/ UNCHANGED vars
  BY <1>11 DEF Returned, vars, inputs, LoadInv, Workers, NobodyIdle, Balanced, ShareOf, Pairs, Odd
<1> QED
  BY <1>1, <1>2, <1>3, <1>4, <1>5, <1>6, <1>7, <1>8, <1>9, <1>10, <1>11 DEF Next

\* The invariant of the loads holds throughout.
LEMMA LoadCorrect == Spec => []LoadInv
<1>1. Init => LoadInv
  BY LoadInit
<1>2. ScheduleInv /\ LoadInv /\ [Next]_vars => LoadInv'
  BY LoadStep
<1> QED
  BY <1>1, <1>2, InvCorrect, PTL DEF Spec

\* With at least as many blocks as workers a dual-end schedule leaves nobody idle,
\* whether it deals pairs, a middle block makes up for a missing pair, or single blocks
\* are placed.
THEOREM NobodyIsIdle == Spec => []EveryWorkerHasABlock
<1>1. LoadInv => EveryWorkerHasABlock
  BY DEF LoadInv, EveryWorkerHasABlock, NobodyIdle
<1> QED
  BY <1>1, LoadCorrect, PTL

\* The prefix costs of two workers never differ by more than a whole prefix, so the
\* builder's own check of its balance never fails.
THEOREM LoadIsBalanced == Spec => []CostIsBalanced
<1>1. LoadInv => CostIsBalanced
  BY DEF LoadInv, CostIsBalanced, Balanced
<1> QED
  BY <1>1, LoadCorrect, PTL

-----------------------------------------------------------------------------
(* Numbers in ascending order.                                             *)

\* The numbers of S below x.
Below(S, x) == {y \in S : y < x}

\* A larger number has more below it.
LEMMA BelowGrows ==
  ASSUME NEW S \in SUBSET Int, IsFiniteSet(S), NEW x \in S, NEW z \in Int, x < z
  PROVE  Cardinality(Below(S, x)) < Cardinality(Below(S, z))
<1>1. Below(S, x) \union {x} \in SUBSET Below(S, z) /\ x \notin Below(S, x)
  <2>1. \A y \in S : y < x => y < z
    OBVIOUS
  <2>2. x \in Int /\ ~ (x < x)
    OBVIOUS
  <2>3. Below(S, x) \union {x} \subseteq Below(S, z)
    BY <2>1 DEF Below
  <2>4. x \notin Below(S, x)
    BY <2>2 DEF Below
  <2> QED
    BY <2>3, <2>4
<1>2. IsFiniteSet(Below(S, z)) /\ IsFiniteSet(Below(S, x))
  BY FS_Subset DEF Below
<1>3. Cardinality(Below(S, x) \union {x}) = Cardinality(Below(S, x)) + 1
  BY <1>1, <1>2, FS_AddElement
<1>4. Cardinality(Below(S, x) \union {x}) <= Cardinality(Below(S, z))
  BY <1>1, <1>2, FS_Subset
<1>5. Cardinality(Below(S, x)) \in Nat /\ Cardinality(Below(S, z)) \in Nat
  BY <1>2, FS_CardinalityType
<1> QED
  BY <1>3, <1>4, <1>5

\* Every place is taken by exactly one number.
LEMMA PlaceTaken ==
  ASSUME NEW S \in SUBSET Int, IsFiniteSet(S)
  PROVE  /\ Cardinality(S) \in Nat
         /\ \A x \in S : Cardinality(Below(S, x)) \in 0 .. Cardinality(S) - 1
         /\ \A x, z \in S : Cardinality(Below(S, x)) = Cardinality(Below(S, z)) => x = z
         /\ \A e \in 1 .. Cardinality(S) : \E x \in S : Cardinality(Below(S, x)) = e - 1
<1>0. Cardinality(S) \in Nat
  BY FS_CardinalityType
<1>1. ASSUME NEW x \in S PROVE Cardinality(Below(S, x)) \in 0 .. Cardinality(S) - 1
  <2>1. Below(S, x) \in SUBSET S /\ x \notin Below(S, x)
    BY DEF Below
  <2>2. Cardinality(Below(S, x)) <= Cardinality(S) /\ IsFiniteSet(Below(S, x))
        /\ Cardinality(Below(S, x)) # Cardinality(S)
    BY <2>1, FS_Subset
  <2>3. Cardinality(Below(S, x)) \in Nat
    BY <2>2, FS_CardinalityType
  <2> QED
    BY <1>0, <2>2, <2>3
<1>2. ASSUME NEW x \in S, NEW z \in S, Cardinality(Below(S, x)) = Cardinality(Below(S, z))
      PROVE  x = z
  <2>1. Cardinality(Below(S, x)) \in Int /\ Cardinality(Below(S, z)) \in Int
    BY <1>1
  <2>2. ~ (x < z) /\ ~ (z < x)
    BY <1>2, <2>1, BelowGrows
  <2> QED
    BY <2>2
<1> DEFINE n == Cardinality(S)
           f == [x \in S |-> Cardinality(Below(S, x))]
<1>3. f \in Injection(S, 0 .. n - 1)
  BY <1>1, <1>2 DEF Injection, IsInjective
<1>4. IsFiniteSet(0 .. n - 1) /\ Cardinality(0 .. n - 1) = n
  BY <1>0, FS_Interval
<1>5. f \in Surjection(S, 0 .. n - 1)
  BY <1>3, <1>4, FS_Injection
<1>6. ASSUME NEW e \in 1 .. n PROVE \E x \in S : Cardinality(Below(S, x)) = e - 1
  <2>1. e - 1 \in 0 .. n - 1
    BY <1>0
  <2> QED
    BY <1>5, <2>1 DEF Surjection
<1> QED
  BY <1>0, <1>1, <1>2, <1>6

\* What Ascending promises: each number of the set once, the e-th with e - 1 below it.
LEMMA AscendingList ==
  ASSUME NEW S \in SUBSET Int, IsFiniteSet(S)
  PROVE  /\ Cardinality(S) \in Nat
         /\ DOMAIN Ascending(S) = 1 .. Cardinality(S)
         /\ Len(Ascending(S)) = Cardinality(S)
         /\ Ascending(S) \in Seq(S)
         /\ \A e \in 1 .. Cardinality(S) :
              Ascending(S)[e] \in S /\ Cardinality(Below(S, Ascending(S)[e])) = e - 1
         /\ \A x \in S : Cardinality(Below(S, x)) + 1 \in 1 .. Cardinality(S)
                         /\ Ascending(S)[Cardinality(Below(S, x)) + 1] = x
<1> DEFINE n == Cardinality(S)
           s == Ascending(S)
<1>0. n \in Nat
  BY PlaceTaken
<1>1. s = [e \in 1 .. n |-> CHOOSE x \in S : Cardinality(Below(S, x)) = e - 1]
  BY DEF Ascending, Below
<1>2. ASSUME NEW e \in 1 .. n
      PROVE  s[e] \in S /\ Cardinality(Below(S, s[e])) = e - 1
  <2>1. \E x \in S : Cardinality(Below(S, x)) = e - 1
    BY PlaceTaken
  <2>2. s[e] = CHOOSE x \in S : Cardinality(Below(S, x)) = e - 1
    BY <1>1
  <2> QED
    BY <2>1, <2>2
<1>3. DOMAIN s = 1 .. n
  BY <1>1
<1>4. s = [e \in 1 .. n |-> s[e]]
  BY <1>1
<1> HIDE DEF s
<1>5. s \in Seq(S) /\ Len(s) = n
  BY <1>0, <1>2, <1>4
<1>6. \A x, z \in S : Cardinality(Below(S, x)) = Cardinality(Below(S, z)) => x = z
  BY PlaceTaken
<1>7. ASSUME NEW x \in S
      PROVE  Cardinality(Below(S, x)) + 1 \in 1 .. n /\ s[Cardinality(Below(S, x)) + 1] = x
  <2> DEFINE e == Cardinality(Below(S, x)) + 1
  <2>1. e \in 1 .. n /\ Cardinality(Below(S, x)) \in Int
    BY <1>0, PlaceTaken
  <2>2. s[e] \in S /\ Cardinality(Below(S, s[e])) = e - 1
    BY <1>2, <2>1
  <2>3. Cardinality(Below(S, s[e])) = Cardinality(Below(S, x))
    BY <2>1, <2>2
  <2>4. s[e] = x
    BY <1>6, <2>2, <2>3
  <2> QED
    BY <2>1, <2>4
<1> QED
  BY <1>0, <1>2, <1>3, <1>5, <1>7 DEF s

\* The list holds the numbers of the set.
\* The least of a set of numbers.
LEMMA LeastOf ==
  ASSUME NEW S, S \in SUBSET Int, IsFiniteSet(S), S # {}
  PROVE  \E x \in S : \A y \in S : x <= y
<1>1. Cardinality(S) # 0 /\ Cardinality(S) \in Nat
  BY FS_EmptySet, FS_CardinalityType
<1>2. PICK x \in S : Cardinality(Below(S, x)) = 1 - 1
  BY <1>1, PlaceTaken
<1>3. Below(S, x) \in SUBSET S /\ IsFiniteSet(Below(S, x))
  BY FS_Subset DEF Below
<1>4. Below(S, x) = {}
  BY <1>2, <1>3, FS_EmptySet
<1>5. \A y \in S : x <= y
  BY <1>4 DEF Below
<1> QED
  BY <1>5

\* What holds at 0 and, with a number, for the next one, holds up to N.
LEMMA UpTo ==
  ASSUME NEW N \in Nat, NEW G, 0 \in G, \A n \in 0 .. N - 1 : n \in G => n + 1 \in G
  PROVE  \A n \in 0 .. N : n \in G
<1> DEFINE Bad == {n \in 0 .. N : n \notin G}
<1>1. ASSUME Bad # {} PROVE FALSE
  <2>1. IsFiniteSet(Bad) /\ Bad \in SUBSET Int
    <3> DEFINE I == 0 .. N
    <3>1. IsFiniteSet(I) /\ I \in SUBSET Int
      BY FS_Interval
    <3>2. Bad \in SUBSET I
      OBVIOUS
    <3> HIDE DEF I, Bad
    <3> QED
      BY <3>1, <3>2, FS_Subset
  <2>2. PICK n \in Bad : \A m \in Bad : n <= m
    <3> HIDE DEF Bad
    <3> QED
      BY <1>1, <2>1, LeastOf
  <2>3. n \in 0 .. N /\ n \notin G /\ n # 0
    OBVIOUS
  <2>4. n - 1 \in 0 .. N - 1 /\ n - 1 \notin Bad
    BY <2>2, <2>3
  <2>5. n - 1 \in G
    BY <2>4
  <2>6. (n - 1) + 1 = n
    BY <2>3
  <2> QED
    BY <2>3, <2>4, <2>5, <2>6
<1> QED
  BY <1>1

\* N steps on values in T, and the values they give one after the other.
Steps(F, N, T) == F \in [1 .. N -> [T -> T]]
Course(g, origin, F, N, T) ==
  g \in [0 .. N -> T] /\ g[0] = origin /\ \A n \in 1 .. N : g[n] = F[n][g[n - 1]]

\* A function that is defined from its value at the number before exists.
LEMMA Recursion ==
  ASSUME NEW T, NEW origin, origin \in T, NEW N, N \in Nat, NEW F, Steps(F, N, T)
  PROVE  \E g : Course(g, origin, F, N, T)
<1>0. F \in [1 .. N -> [T -> T]]
  BY DEF Steps
<1> DEFINE Good(g, n) == g[0] = origin /\ \A e \in 1 .. n : g[e] = F[e][g[e - 1]]
           G == {n \in 0 .. N : \E g \in [0 .. n -> T] : Good(g, n)}
<1>1. 0 \in G
  <2> DEFINE g == [e \in 0 .. 0 |-> origin]
  <2>1. g \in [0 .. 0 -> T] /\ Good(g, 0) /\ 0 \in 0 .. N
    OBVIOUS
  <2> HIDE DEF g, Good
  <2> QED
    BY <2>1
<1>2. ASSUME NEW n \in 0 .. N - 1, n \in G PROVE n + 1 \in G
  <2>1. PICK g \in [0 .. n -> T] : Good(g, n)
    BY <1>2
  <2> DEFINE h == [e \in 0 .. n + 1 |-> IF e = n + 1 THEN F[n + 1][g[n]] ELSE g[e]]
  <2>2. h \in [0 .. n + 1 -> T]
    <3>1. n + 1 \in 1 .. N /\ n \in 0 .. n
      OBVIOUS
    <3>2. F[n + 1][g[n]] \in T
      BY <1>0, <3>1
    <3>3. \A e \in 0 .. n + 1 : e = n + 1 \/ e \in 0 .. n
      OBVIOUS
    <3> QED
      BY <3>2, <3>3
  <2>3. h[0] = origin
    BY <2>1
  <2>4. ASSUME NEW e \in 1 .. n + 1 PROVE h[e] = F[e][h[e - 1]]
    <3>1. CASE e = n + 1
      <4>0. e - 1 = n /\ n \in 0 .. n + 1 /\ n # n + 1 /\ e \in 0 .. n + 1
        BY <3>1
      <4>1. h[e] = F[n + 1][g[n]] /\ h[n] = g[n]
        BY <3>1, <4>0
      <4> HIDE DEF h
      <4> QED
        BY <3>1, <4>0, <4>1
    <3>2. CASE e # n + 1
      <4>1. e \in 1 .. n /\ e - 1 \in 0 .. n /\ e - 1 # n + 1 /\ e \in 0 .. n + 1 /\ e - 1 \in 0 .. n + 1
        BY <3>2
      <4>2. h[e] = g[e] /\ h[e - 1] = g[e - 1]
        BY <3>2, <4>1
      <4> HIDE DEF h
      <4> QED
        BY <2>1, <4>1, <4>2
    <3> QED
      BY <3>1, <3>2
  <2>5. n + 1 \in 0 .. N
    OBVIOUS
  <2> HIDE DEF h
  <2> QED
    BY <2>2, <2>3, <2>4, <2>5
<1>3. N \in G
  <2> HIDE DEF G
  <2>1. \A n \in 0 .. N : n \in G
    BY <1>1, <1>2, UpTo
  <2> QED
    BY <2>1
<1>4. PICK g \in [0 .. N -> T] : Good(g, N)
  BY <1>3
<1> QED
  BY <1>4 DEF Course

\* Two sets one to one.
LEMMA SameCount ==
  ASSUME NEW S, NEW T, IsFiniteSet(S), NEW f \in [S -> T],
         \A x, y \in S : f[x] = f[y] => x = y, \A t \in T : \E x \in S : f[x] = t
  PROVE  IsFiniteSet(T) /\ Cardinality(T) = Cardinality(S)
<1>1. f \in Bijection(S, T)
  BY DEF Bijection, Injection, Surjection, IsInjective
<1> QED
  BY <1>1, FS_Bijection DEF ExistsBijection

\* A list of n members, one of m members, and the one after the other.
TwoLists(X, s, t, n, m) == s \in Seq(X) /\ t \in Seq(X) /\ Len(s) = n /\ Len(t) = m
IsJoined(X, s, t, n, m, both) ==
  /\ both \in Seq(X) /\ Len(both) = n + m
  /\ \A p \in 1 .. n : both[p] = s[p]
  /\ \A j \in 1 .. m : both[n + j] = t[j]

\* Two lists one after the other.
LEMMA Joined ==
  ASSUME NEW X, NEW s, NEW t, NEW n, NEW m, TwoLists(X, s, t, n, m)
  PROVE  IsJoined(X, s, t, n, m, s \o t)
  BY DEF TwoLists, IsJoined

-----------------------------------------------------------------------------
(* Quotients.                                                              *)

\* A number is its quotient and its remainder.
LEMMA Division ==
  ASSUME NEW x \in Int, NEW S \in Nat \ {0}
  PROVE  x = S * (x \div S) + (x % S) /\ x % S \in 0 .. S - 1 /\ x \div S \in Int
<1>1. x \div S \in Int
  OBVIOUS
<1>2. x % S \in 0 .. S - 1
  OBVIOUS
<1>3. x = S * (x \div S) + (x % S)
  OBVIOUS
<1> QED
  BY <1>1, <1>2, <1>3

\* The sum of the first n sizes.
SumOf(sizes, n) ==
  LET sum[m \in 0 .. Len(sizes)] == IF m = 0 THEN 0 ELSE sum[m - 1] + sizes[m]
  IN sum[n]

\* Sums of the first numbers of a list.
LEMMA Sums ==
  ASSUME NEW sizes \in Seq(Nat)
  PROVE  /\ SumOf(sizes, 0) = 0
         /\ \A n \in 0 .. Len(sizes) : SumOf(sizes, n) \in Nat
         /\ \A n \in 1 .. Len(sizes) : SumOf(sizes, n) = SumOf(sizes, n - 1) + sizes[n]
<1> DEFINE N == Len(sizes)
           F == [n \in 1 .. N |-> [t \in Nat |-> t + sizes[n]]]
           Runs(g) == g = [m \in 0 .. N |-> IF m = 0 THEN 0 ELSE g[m - 1] + sizes[m]]
           sum == CHOOSE g : Runs(g)
<1>1. N \in Nat /\ \A n \in 1 .. N : sizes[n] \in Nat
  OBVIOUS
<1>2. \A n : SumOf(sizes, n) = sum[n]
  BY DEF SumOf
<1>3. F \in [1 .. N -> [Nat -> Nat]] /\ \A n \in 1 .. N : \A t \in Nat : F[n][t] = t + sizes[n]
  BY <1>1
<1> HIDE DEF F, N
<1>4. PICK g \in [0 .. N -> Nat] : g[0] = 0 /\ \A n \in 1 .. N : g[n] = F[n][g[n - 1]]
  <2>1. Steps(F, N, Nat) /\ 0 \in Nat
    BY <1>3 DEF Steps
  <2>2. \E g : Course(g, 0, F, N, Nat)
    BY <1>1, <2>1, Recursion
  <2> QED
    BY <2>2 DEF Course
<1>5. \A n \in 0 .. N : n = 0 \/ (n \in 1 .. N /\ n - 1 \in 0 .. N)
  BY <1>1
<1>6. \A n \in 0 .. N : g[n] = IF n = 0 THEN 0 ELSE g[n - 1] + sizes[n]
  BY <1>3, <1>4, <1>5
<1>7. Runs(g)
  BY <1>4, <1>6
<1>8. Runs(sum)
  BY <1>7
<1> HIDE DEF sum
<1>9. 0 \in 0 .. N /\ sum[0] = 0
  BY <1>1, <1>8
<1>10. ASSUME NEW n \in 1 .. N PROVE sum[n] = sum[n - 1] + sizes[n] /\ n - 1 \in 0 .. N
  <2>1. n \in 0 .. N /\ n # 0 /\ n - 1 \in 0 .. N
    BY <1>1
  <2> QED
    BY <1>8, <2>1
<1> DEFINE G == {n \in 0 .. N : sum[n] \in Nat}
<1>11. 0 \in G
  BY <1>9
<1>12. ASSUME NEW n \in 0 .. N - 1, n \in G PROVE n + 1 \in G
  <2>1. n + 1 \in 1 .. N /\ n + 1 \in 0 .. N /\ (n + 1) - 1 = n
    BY <1>1
  <2>2. sum[n + 1] = sum[n] + sizes[n + 1] /\ sizes[n + 1] \in Nat /\ sum[n] \in Nat
    BY <1>1, <1>10, <1>12, <2>1
  <2> QED
    BY <2>1, <2>2
<1> HIDE DEF G
<1>13. \A n \in 0 .. N : n \in G
  BY <1>1, <1>11, <1>12, UpTo
<1>14. \A n \in 0 .. N : sum[n] \in Nat
  BY <1>13 DEF G
<1> QED
  BY <1>2, <1>9, <1>10, <1>14 DEF N

\* They grow.
LEMMA SumsGrow ==
  ASSUME NEW sizes \in Seq(Nat), NEW m \in 0 .. Len(sizes)
  PROVE  \A n \in m .. Len(sizes) : SumOf(sizes, m) <= SumOf(sizes, n)
<1> DEFINE N == Len(sizes)
           S(n) == SumOf(sizes, n)
           G == {n \in 0 .. N - m : S(m) <= S(m + n)}
<1>1. N \in Nat /\ m \in Nat /\ N - m \in Nat /\ \A n \in 1 .. N : sizes[n] \in Nat
  OBVIOUS
<1>2. /\ \A n \in 0 .. N : S(n) \in Nat
      /\ \A n \in 1 .. N : S(n) = S(n - 1) + sizes[n]
  BY Sums
<1> HIDE DEF S, N
<1>3. 0 \in G
  <2>1. m + 0 = m /\ m \in 0 .. N /\ 0 \in 0 .. N - m
    BY <1>1 DEF N
  <2> QED
    BY <1>2, <2>1
<1>4. ASSUME NEW n \in 0 .. N - m - 1, n \in G PROVE n + 1 \in G
  <2>1. m + n \in 0 .. N /\ m + (n + 1) \in 1 .. N /\ m + (n + 1) - 1 = m + n /\ n + 1 \in 0 .. N - m
        /\ m \in 0 .. N
    BY <1>1 DEF N
  <2>2. S(m + (n + 1)) = S(m + n) + sizes[m + (n + 1)]
    BY <1>2, <2>1
  <2>3. S(m + n) \in Nat /\ S(m) \in Nat /\ S(m + (n + 1)) \in Nat
    BY <1>2, <2>1
  <2>4. sizes[m + (n + 1)] \in Nat /\ S(m) <= S(m + n)
    BY <1>1, <1>4, <2>1
  <2>5. S(m) <= S(m + (n + 1))
    BY <2>2, <2>3, <2>4
  <2> QED
    BY <2>1, <2>5
<1> HIDE DEF G
<1>5. \A n \in 0 .. N - m : n \in G
  BY <1>1, <1>3, <1>4, UpTo
<1>6. ASSUME NEW n \in m .. N PROVE S(m) <= S(n)
  <2>1. n - m \in 0 .. N - m /\ m + (n - m) = n
    BY <1>1
  <2>2. n - m \in G
    BY <1>5, <2>1
  <2> QED
    BY <2>1, <2>2 DEF G
<1> QED
  BY <1>6 DEF N, S

\* Every position lies in one of the parts.
LEMMA PartOf ==
  ASSUME NEW sizes \in Seq(Nat), NEW p \in 1 .. SumOf(sizes, Len(sizes))
  PROVE  \E m \in 1 .. Len(sizes) : \E j \in 1 .. sizes[m] : p = SumOf(sizes, m - 1) + j
<1> DEFINE N == Len(sizes)
           S(n) == SumOf(sizes, n)
           Found(n) == \A q \in 1 .. S(n) :
                         \E m \in 1 .. N : \E j \in 1 .. sizes[m] : q = S(m - 1) + j
           G == {n \in 0 .. N : Found(n)}
<1>1. N \in Nat /\ \A n \in 1 .. N : sizes[n] \in Nat
  OBVIOUS
<1>2. /\ S(0) = 0 /\ \A n \in 0 .. N : S(n) \in Nat
      /\ \A n \in 1 .. N : S(n) = S(n - 1) + sizes[n]
  BY Sums
<1> HIDE DEF S, N
<1>3. 0 \in G
  BY <1>1, <1>2
<1>4. ASSUME NEW n \in 0 .. N - 1, n \in G PROVE n + 1 \in G
  <2>1. n \in 0 .. N /\ n + 1 \in 1 .. N /\ n + 1 \in 0 .. N /\ (n + 1) - 1 = n
    BY <1>1
  <2>2. S(n + 1) = S(n) + sizes[n + 1] /\ S(n) \in Nat /\ sizes[n + 1] \in Nat
    BY <1>1, <1>2, <2>1
  <2>3. ASSUME NEW q \in 1 .. S(n + 1)
        PROVE  \E m \in 1 .. N : \E j \in 1 .. sizes[m] : q = S(m - 1) + j
    <3>1. CASE q <= S(n)
      <4>1. q \in 1 .. S(n)
        BY <2>2, <3>1
      <4> QED
        BY <1>4, <4>1
    <3>2. CASE q > S(n)
      <4> DEFINE j == q - S(n)
      <4>1. j \in 1 .. sizes[n + 1] /\ q = S((n + 1) - 1) + j
        BY <2>1, <2>2, <3>2
      <4> QED
        BY <2>1, <4>1
    <3> QED
      BY <2>2, <3>1, <3>2
  <2>4. Found(n + 1)
    BY <2>3
  <2> QED
    BY <2>1, <2>4
<1> HIDE DEF G, Found
<1>5. \A n \in 0 .. N : n \in G
  BY <1>1, <1>3, <1>4, UpTo
<1>6. Found(N)
  BY <1>1, <1>5 DEF G
<1> QED
  BY <1>6 DEF Found, N, S

\* A list of lists as one: as long as all of them, each where the ones before it end.
LEMMA Flattened ==
  ASSUME NEW X, NEW seqs \in Seq(Seq(X)), Len(seqs) # 0,
         NEW sizes \in Seq(Nat), Len(sizes) = Len(seqs),
         \A n \in 1 .. Len(seqs) : sizes[n] = Len(seqs[n])
  PROVE  /\ FlattenSeq(seqs) \in Seq(X)
         /\ Len(FlattenSeq(seqs)) = SumOf(sizes, Len(sizes))
         /\ \A m \in 1 .. Len(sizes) : \A j \in 1 .. sizes[m] :
              FlattenSeq(seqs)[SumOf(sizes, m - 1) + j] = seqs[m][j]
<1> DEFINE N == Len(seqs)
           M == N - 1
           T == Seq(X)
           S(n) == SumOf(sizes, n)
           F == [n \in 1 .. M |-> [t \in T |-> t \o seqs[n + 1]]]
           Runs(g) == g = [e \in 1 .. N |-> IF e = 1 THEN seqs[1] ELSE g[e - 1] \o seqs[e]]
           flatten == CHOOSE g : Runs(g)
<1>1. N \in Nat \ {0} /\ M \in Nat /\ (\A n \in 1 .. N : seqs[n] \in T) /\ 1 \in 1 .. N
  OBVIOUS
<1>2. FlattenSeq(seqs) = flatten[N]
  BY DEF FlattenSeq
<1>3. F \in [1 .. M -> [T -> T]]
  <2>1. ASSUME NEW n \in 1 .. M, NEW t \in T PROVE t \o seqs[n + 1] \in T
    <3>1. n + 1 \in 1 .. N
      BY <1>1
    <3>2. seqs[n + 1] \in Seq(X)
      BY <1>1, <3>1
    <3> QED
      BY <3>2
  <2> QED
    BY <2>1
<1>4. \A n \in 1 .. M : \A t \in T : F[n][t] = t \o seqs[n + 1]
  OBVIOUS
<1>5. PICK h \in [0 .. M -> T] : h[0] = seqs[1] /\ \A n \in 1 .. M : h[n] = F[n][h[n - 1]]
  <2>1. Steps(F, M, T) /\ seqs[1] \in T
    BY <1>1, <1>3 DEF Steps
  <2> HIDE DEF F, M, T
  <2>2. \E h : Course(h, seqs[1], F, M, T)
    BY <1>1, <2>1, Recursion
  <2> QED
    BY <2>2 DEF Course
<1> HIDE DEF F
<1> DEFINE g == [e \in 1 .. N |-> h[e - 1]]
<1>6. ASSUME NEW e \in 1 .. N
      PROVE  g[e] \in T /\ g[e] = IF e = 1 THEN seqs[1] ELSE g[e - 1] \o seqs[e]
  <2>1. e - 1 \in 0 .. M /\ g[e] = h[e - 1]
    BY <1>1
  <2>2. g[e] \in T
    BY <2>1
  <2>3. CASE e = 1
    BY <1>5, <2>1, <2>3
  <2>4. CASE e # 1
    <3> HIDE DEF N, T
    <3>1. e - 1 \in 1 .. M /\ e - 1 \in 1 .. N /\ (e - 1) + 1 = e /\ (e - 1) - 1 \in 0 .. M
      BY <1>1, <2>4
    <3>2. h[e - 1] = F[e - 1][h[(e - 1) - 1]]
      BY <1>5, <3>1
    <3>3. h[(e - 1) - 1] \in T
      BY <3>1
    <3>4. F[e - 1][h[(e - 1) - 1]] = h[(e - 1) - 1] \o seqs[(e - 1) + 1]
      BY <1>4, <3>1, <3>3
    <3>5. g[e - 1] = h[(e - 1) - 1]
      BY <3>1
    <3> QED
      BY <2>1, <2>2, <2>4, <3>1, <3>2, <3>4, <3>5
  <2> QED
    BY <2>2, <2>3, <2>4
<1> HIDE DEF T
<1>7. g = [e \in 1 .. N |-> IF e = 1 THEN seqs[1] ELSE g[e - 1] \o seqs[e]]
  <2>1. g = [e \in 1 .. N |-> g[e]]
    OBVIOUS
  <2> HIDE DEF g
  <2> QED
    BY <1>6, <2>1
<1>8. Runs(flatten)
  <2>1. Runs(g)
    <3> HIDE DEF g
    <3> QED
      BY <1>7
  <2> HIDE DEF g, Runs
  <2> QED
    BY <2>1
<1> HIDE DEF flatten, g
<1>9. ASSUME NEW e \in 1 .. N
      PROVE  flatten[e] = IF e = 1 THEN seqs[1] ELSE flatten[e - 1] \o seqs[e]
  BY <1>8
<1>10. /\ S(0) = 0 /\ \A n \in 0 .. N : S(n) \in Nat
       /\ \A n \in 1 .. N : S(n) = S(n - 1) + sizes[n] /\ sizes[n] \in Nat
  BY Sums
<1>11. \A n \in 1 .. N : seqs[n] \in Seq(X) /\ Len(seqs[n]) = sizes[n]
  BY <1>1 DEF T
<1> HIDE DEF S, N, Runs
<1> DEFINE Flat(n) ==
             /\ flatten[n] \in Seq(X) /\ Len(flatten[n]) = S(n)
             /\ \A m \in 1 .. n : \A j \in 1 .. sizes[m] : flatten[n][S(m - 1) + j] = seqs[m][j]
           G == {n \in 0 .. M : Flat(n + 1)}
<1>12. 0 \in G
  <2>1. flatten[1] = seqs[1] /\ S(1) = sizes[1] /\ sizes[1] \in Nat /\ 0 \in 0 .. M
    <3>1. 1 \in 1 .. N /\ 1 - 1 = 0
      BY <1>1
    <3>2. S(1) = S(0) + sizes[1] /\ sizes[1] \in Nat
      BY <1>10, <3>1
    <3> QED
      BY <1>1, <1>9, <1>10, <3>1, <3>2
  <2>2. \A m \in 1 .. 1 : m = 1 /\ m - 1 = 0
    OBVIOUS
  <2>3. \A j \in 1 .. sizes[1] : S(0) + j = j
    BY <1>10, <2>1
  <2>4. flatten[1] \in Seq(X) /\ Len(flatten[1]) = S(1)
    BY <1>1, <1>11, <2>1
  <2>5. \A m \in 1 .. 1 : \A j \in 1 .. sizes[m] : flatten[1][S(m - 1) + j] = seqs[m][j]
    BY <2>1, <2>2, <2>3
  <2>6. Flat(1) /\ 0 + 1 = 1
    BY <2>4, <2>5
  <2> HIDE DEF Flat
  <2> QED
    BY <2>1, <2>6
<1>13. ASSUME NEW n \in 0 .. M - 1, n \in G PROVE n + 1 \in G
  <2> DEFINE e == n + 1
             k == e + 1
  <2>1. e \in 1 .. N /\ k \in 1 .. N /\ k # 1 /\ k - 1 = e /\ e \in 0 .. M /\ e \in 0 .. N /\ k \in 0 .. N
    BY <1>1
  <2>2. Flat(e)
    BY <1>13
  <2> HIDE DEF e
  <2>3. flatten[k] = flatten[e] \o seqs[k] /\ S(k) = S(e) + sizes[k]
        /\ seqs[k] \in Seq(X) /\ Len(seqs[k]) = sizes[k] /\ S(e) \in Nat /\ sizes[k] \in Nat
    BY <1>9, <1>10, <1>11, <2>1
  <2> DEFINE old == flatten[e]
             part == seqs[k]
             new == flatten[k]
  <2>4. old \in Seq(X) /\ Len(old) = S(e)
    BY <2>2
  <2>5. new = old \o part
    BY <2>3
  <2> HIDE DEF old, part, new
  <2>6. new \in Seq(X) /\ Len(new) = S(e) + sizes[k]
        /\ (\A p \in 1 .. S(e) : new[p] = old[p])
        /\ \A j \in 1 .. sizes[k] : new[S(e) + j] = part[j]
    <3>1. part \in Seq(X) /\ Len(part) = sizes[k]
      BY <2>3 DEF part
    <3> DEFINE n1 == S(e)
               m1 == sizes[k]
    <3>2. TwoLists(X, old, part, n1, m1)
      BY <2>4, <3>1 DEF TwoLists
    <3> HIDE DEF n1, m1
    <3>3. IsJoined(X, old, part, n1, m1, new)
      BY <2>5, <3>2, Joined
    <3> QED
      BY <3>3 DEF IsJoined, n1, m1
  <2>7. ASSUME NEW m \in 1 .. k, NEW j \in 1 .. sizes[m] PROVE new[S(m - 1) + j] = seqs[m][j]
    <3>1. CASE m = k
      <4>1. m - 1 = e /\ j \in 1 .. sizes[k] /\ part = seqs[m]
        BY <2>1, <2>7, <3>1 DEF part
      <4>2. new[S(e) + j] = part[j]
        BY <2>6, <4>1
      <4>3. S(m - 1) = S(e)
        BY <4>1
      <4>4. S(m - 1) + j = S(e) + j
        BY <4>3
      <4> QED
        BY <4>1, <4>2, <4>4
    <3>2. CASE m # k
      <4>1. m \in 1 .. e /\ m \in 0 .. N /\ m \in 1 .. N /\ m - 1 \in 0 .. N /\ e \in m .. N
        BY <1>1, <2>1, <3>2
      <4>2. old[S(m - 1) + j] = seqs[m][j]
        BY <2>2, <2>7, <4>1 DEF old
      <4>3. S(m) <= S(e) /\ S(m) = S(m - 1) + sizes[m] /\ S(m - 1) \in Nat /\ sizes[m] \in Nat
            /\ S(m) \in Nat
        <5>1. Len(sizes) = N
          BY DEF N
        <5>2. S(m) <= S(e)
          BY <4>1, <5>1, SumsGrow DEF S
        <5> QED
          BY <1>10, <4>1, <5>2
      <4>4. S(m - 1) + j \in 1 .. S(e)
        <5> DEFINE a == S(m - 1)
                   b == S(m)
                   c == S(e)
                   d == sizes[m]
        <5>1. a \in Nat /\ b \in Nat /\ c \in Nat /\ d \in Nat /\ b <= c /\ b = a + d /\ j \in 1 .. d
          BY <2>3, <2>7, <4>3
        <5> HIDE DEF a, b, c, d
        <5>2. a + j \in 1 .. c
          BY <5>1
        <5> QED
          BY <5>2 DEF a, c
      <4> QED
        BY <2>6, <4>2, <4>4
    <3> QED
      BY <3>1, <3>2
  <2>8. Flat(k)
    BY <2>3, <2>6, <2>7 DEF new
  <2> HIDE DEF Flat
  <2> QED
    BY <2>1, <2>8 DEF e
<1> HIDE DEF G, Flat
<1>14. \A n \in 0 .. M : n \in G
  BY <1>1, <1>12, <1>13, UpTo
<1>15. Flat(N)
  <2>1. M \in 0 .. M /\ M + 1 = N
    BY <1>1
  <2> HIDE DEF M
  <2> QED
    BY <1>14, <2>1 DEF G
<1>16. Len(sizes) = N
  BY DEF N
<1> QED
  BY <1>2, <1>15, <1>16 DEF Flat, S

-----------------------------------------------------------------------------
(* Lists of sets.                                                          *)

\* s holds the members of S, each at one place.
Lists(s, S) ==
  /\ s \in Seq(S)
  /\ \A x \in S : \E k \in 1 .. Len(s) : s[k] = x
  /\ \A j, k \in 1 .. Len(s) : s[j] = s[k] => j = k

\* A run of numbers.
LEMMA RunLists ==
  ASSUME NEW first \in Int, NEW stop \in Int, first <= stop
  PROVE  /\ Lists(Run(first, stop), first .. stop - 1)
         /\ Len(Run(first, stop)) = stop - first
         /\ \A k \in 1 .. stop - first : Run(first, stop)[k] = first + k - 1
<1> DEFINE s == Run(first, stop)
           n == stop - first
           S == first .. stop - 1
<1>1. n \in Nat /\ s = [k \in 1 .. n |-> first + k - 1]
  BY DEF Run
<1>2. \A k \in 1 .. n : first + k - 1 \in S
  OBVIOUS
<1>3. s \in Seq(S) /\ Len(s) = n /\ \A k \in 1 .. n : s[k] = first + k - 1
  BY <1>1, <1>2
<1>4. ASSUME NEW x \in S PROVE \E k \in 1 .. n : s[k] = x
  <2>1. x - first + 1 \in 1 .. n /\ first + (x - first + 1) - 1 = x
    OBVIOUS
  <2> HIDE DEF s, n
  <2> QED
    BY <1>3, <2>1
<1> HIDE DEF s, n, S
<1>5. \A j, k \in 1 .. n : s[j] = s[k] => j = k
  BY <1>1, <1>3
<1>6. Lists(s, S)
  BY <1>3, <1>4, <1>5 DEF Lists
<1> QED
  BY <1>3, <1>6 DEF s, n, S

\* Where the members of two lists are when one follows the other.
Follows(s, t, both) ==
  /\ Len(both) = Len(s) + Len(t)
  /\ \A k \in 1 .. Len(s) : both[k] = s[k]
  /\ \A k \in 1 .. Len(t) : both[Len(s) + k] = t[k]

\* One list after another, of a set that has nothing in common with it.
Apart(S, T) == S \cap T = {}

\* Lists of sets with nothing in common, one after the other, list their union.
LEMMA JoinLists ==
  ASSUME NEW S, NEW T, NEW s, NEW t, Lists(s, S), Lists(t, T), Apart(S, T)
  PROVE  Lists(s \o t, S \union T) /\ Follows(s, t, s \o t)
<1> DEFINE X == S \union T
           n == Len(s)
           m == Len(t)
           both == s \o t
<1>1. s \in Seq(S) /\ t \in Seq(T) /\ n \in Nat /\ m \in Nat
  BY DEF Lists
<1>2. s \in Seq(X) /\ t \in Seq(X)
  BY <1>1
<1>3. both \in Seq(X) /\ Len(both) = n + m
      /\ (\A k \in 1 .. n : both[k] = s[k]) /\ (\A k \in 1 .. m : both[n + k] = t[k])
  <2>1. TwoLists(X, s, t, n, m)
    BY <1>2 DEF TwoLists
  <2> QED
    BY <2>1, Joined DEF IsJoined
<1>4. (\A k \in 1 .. n : s[k] \in S) /\ (\A k \in 1 .. m : t[k] \in T)
  BY <1>1
<1>5. /\ \A x \in S : \E k \in 1 .. n : s[k] = x
      /\ \A j, k \in 1 .. n : s[j] = s[k] => j = k
      /\ \A x \in T : \E k \in 1 .. m : t[k] = x
      /\ \A j, k \in 1 .. m : t[j] = t[k] => j = k
  BY DEF Lists
<1> HIDE DEF both, n, m
<1>6. \A k \in 1 .. n + m : k \in 1 .. n \/ (k - n \in 1 .. m /\ n + (k - n) = k)
  BY <1>1
<1>7. ASSUME NEW x \in X PROVE \E k \in 1 .. n + m : both[k] = x
  <2>1. CASE x \in S
    <3>1. PICK k \in 1 .. n : s[k] = x
      BY <1>5, <2>1
    <3> QED
      BY <1>1, <1>3, <3>1
  <2>2. CASE x \in T
    <3>1. PICK k \in 1 .. m : t[k] = x
      BY <1>5, <2>2
    <3>2. n + k \in 1 .. n + m
      BY <1>1
    <3> QED
      BY <1>3, <3>1, <3>2
  <2> QED
    BY <2>1, <2>2
<1>8. \A k \in 1 .. n + m : \/ k \in 1 .. n /\ both[k] = s[k] /\ both[k] \in S
                            \/ k - n \in 1 .. m /\ both[k] = t[k - n] /\ both[k] \in T
  BY <1>3, <1>4, <1>6
<1>9. ASSUME NEW j \in 1 .. n + m, NEW k \in 1 .. n + m, both[j] = both[k] PROVE j = k
  <2>1. CASE both[j] \in S
    <3>1. both[j] \notin T
      BY <2>1 DEF Apart
    <3>2. j \in 1 .. n /\ k \in 1 .. n /\ s[j] = s[k]
      BY <1>8, <1>9, <3>1
    <3> QED
      BY <1>5, <3>2
  <2>2. CASE both[j] \in T
    <3>1. both[j] \notin S
      BY <2>2 DEF Apart
    <3>2. j - n \in 1 .. m /\ k - n \in 1 .. m /\ t[j - n] = t[k - n]
      BY <1>8, <1>9, <3>1
    <3>3. j - n = k - n
      BY <1>5, <3>2
    <3> QED
      BY <1>1, <3>3
  <2> QED
    BY <1>8, <2>1, <2>2
<1>10. Lists(both, X)
  BY <1>3, <1>7, <1>9 DEF Lists
<1>11. Follows(s, t, both)
  BY <1>3 DEF Follows, n, m
<1> QED
  BY <1>10, <1>11 DEF both

\* The same list with a number taken off each member.
LEMMA ShiftLists ==
  ASSUME NEW S \in SUBSET Int, NEW s, Lists(s, S), NEW d \in Int
  PROVE  LET t == [k \in DOMAIN s |-> s[k] - d]
         IN /\ Lists(t, {x - d : x \in S})
            /\ Len(t) = Len(s)
            /\ \A k \in 1 .. Len(s) : t[k] = s[k] - d
<1> DEFINE t == [k \in DOMAIN s |-> s[k] - d]
           T == {x - d : x \in S}
           n == Len(s)
<1>1. s \in Seq(S) /\ n \in Nat /\ DOMAIN s = 1 .. n /\ \A k \in 1 .. n : s[k] \in S
  BY DEF Lists
<1>2. t = [k \in 1 .. n |-> s[k] - d]
  BY <1>1
<1>3. \A k \in 1 .. n : s[k] - d \in T
  BY <1>1
<1> HIDE DEF n, T
<1>4. t \in Seq(T) /\ Len(t) = n /\ \A k \in 1 .. n : t[k] = s[k] - d
  BY <1>1, <1>2, <1>3
<1> HIDE DEF t
<1>5. ASSUME NEW y \in T PROVE \E k \in 1 .. n : t[k] = y
  <2>1. PICK x \in S : y = x - d
    BY DEF T
  <2>2. PICK k \in 1 .. n : s[k] = x
    BY DEF Lists, n
  <2> QED
    BY <1>4, <2>1, <2>2
<1>6. ASSUME NEW j \in 1 .. n, NEW k \in 1 .. n, t[j] = t[k] PROVE j = k
  <2>1. s[j] \in Int /\ s[k] \in Int /\ s[j] - d = s[k] - d
    BY <1>1, <1>4, <1>6
  <2>2. s[j] = s[k]
    BY <2>1
  <2> QED
    BY <2>2 DEF Lists, n
<1>7. Lists(t, T)
  BY <1>4, <1>5, <1>6 DEF Lists
<1> QED
  BY <1>4, <1>7 DEF t, T, n

\* A set in ascending order.
LEMMA AscendingLists ==
  ASSUME NEW S \in SUBSET Int, IsFiniteSet(S)
  PROVE  Lists(Ascending(S), S) /\ Len(Ascending(S)) = Cardinality(S)
<1> DEFINE s == Ascending(S)
           n == Cardinality(S)
<1>1. n \in Nat /\ s \in Seq(S) /\ Len(s) = n
      /\ (\A k \in 1 .. n : Cardinality(Below(S, s[k])) = k - 1)
      /\ \A x \in S : Cardinality(Below(S, x)) + 1 \in 1 .. n
                      /\ s[Cardinality(Below(S, x)) + 1] = x
  BY AscendingList
<1> HIDE DEF s, n
<1>2. \A j, k \in 1 .. n : s[j] = s[k] => j = k
  <2> SUFFICES ASSUME NEW j \in 1 .. n, NEW k \in 1 .. n, s[j] = s[k] PROVE j = k
    OBVIOUS
  <2>1. j - 1 = k - 1
    BY <1>1
  <2> QED
    BY <1>1, <2>1
<1>3. \A x \in S : \E k \in 1 .. n : s[k] = x
  BY <1>1
<1> QED
  BY <1>1, <1>2, <1>3 DEF Lists, s, n

\* What a list of S has at its places, and its range.
LEMMA ListFacts ==
  ASSUME NEW S, NEW s, Lists(s, S)
  PROVE  /\ Len(s) \in Nat /\ DOMAIN s = 1 .. Len(s)
         /\ \A k \in 1 .. Len(s) : s[k] \in S
         /\ Range(s) = S
<1>1. s \in Seq(S) /\ \A x \in S : \E k \in 1 .. Len(s) : s[k] = x
  BY DEF Lists
<1>2. Len(s) \in Nat /\ DOMAIN s = 1 .. Len(s) /\ \A k \in 1 .. Len(s) : s[k] \in S
  BY <1>1
<1>3. Range(s) = S
  BY <1>1, <1>2 DEF Range
<1> QED
  BY <1>2, <1>3

-----------------------------------------------------------------------------
(* Chunks of a sequence and their owners.                                  *)

\* The tokens of chunk k of m.
ChunkSet(n, m, k) == Bound(n, m, k) .. Bound(n, m, k + 1) - 1

\* A chunk begins where the one before it ends, the first at 0, and the last
\* ends at n; with at least as many tokens as chunks none is empty.
LEMMA Bounded ==
  ASSUME NEW n \in Nat, NEW m \in Nat \ {0}
  PROVE  /\ Bound(n, m, 0) = 0 /\ Bound(n, m, m) = n
         /\ \A c \in 0 .. m : Bound(n, m, c) \in Nat
         /\ \A c \in 0 .. m - 1 : Bound(n, m, c) <= Bound(n, m, c + 1)
         /\ n >= m => \A c \in 0 .. m - 1 : Bound(n, m, c) < Bound(n, m, c + 1)
         /\ \A c, d \in 0 .. m : c <= d => Bound(n, m, c) <= Bound(n, m, d)
<1> DEFINE q == n \div m
           r == n % m
<1>1. n = m * q + r /\ r \in 0 .. m - 1 /\ q \in Int
  BY Division
<1>2. q >= 0
  <2>1. ASSUME q <= -1 PROVE FALSE
    <3>1. m * q <= m * (-1)
      BY <1>1, <2>1
    <3> QED
      BY <1>1, <3>1
  <2> QED
    BY <1>1, <2>1
<1>3. \A c : Bound(n, m, c) = c * q + Lesser(c, r)
  BY DEF Bound
<1> HIDE DEF q, r
<1>4. Bound(n, m, 0) = 0
  BY <1>1, <1>2, <1>3 DEF Lesser
<1>5. Bound(n, m, m) = n
  BY <1>1, <1>2, <1>3 DEF Lesser
<1>6. ASSUME NEW c \in 0 .. m PROVE Bound(n, m, c) \in Nat
  <2>1. c * q \in Nat
    BY <1>1, <1>2
  <2>2. Lesser(c, r) \in Nat
    BY <1>1 DEF Lesser
  <2> QED
    BY <1>3, <2>1, <2>2
<1>7. ASSUME NEW c \in 0 .. m, NEW d \in 0 .. m, c <= d
      PROVE  Bound(n, m, c) <= Bound(n, m, d)
  <2>1. (d - c) * q >= 0
    BY <1>1, <1>2, <1>7
  <2>2. d * q = c * q + (d - c) * q /\ c * q \in Int /\ (d - c) * q \in Int
    BY <1>1
  <2>3. Lesser(c, r) <= Lesser(d, r) /\ Lesser(c, r) \in Int /\ Lesser(d, r) \in Int
    BY <1>1, <1>7 DEF Lesser
  <2> QED
    BY <1>3, <2>1, <2>2, <2>3
<1>8. ASSUME NEW c \in 0 .. m - 1, n >= m PROVE Bound(n, m, c) < Bound(n, m, c + 1)
  <2>1. q >= 1
    <3>1. ASSUME q = 0 PROVE FALSE
      BY <1>1, <1>8, <3>1
    <3> QED
      BY <1>1, <1>2, <3>1
  <2>2. (c + 1) * q = c * q + q /\ c * q \in Int
    BY <1>1
  <2>3. Lesser(c, r) <= Lesser(c + 1, r) /\ Lesser(c, r) \in Int /\ Lesser(c + 1, r) \in Int
    BY <1>1 DEF Lesser
  <2> QED
    BY <1>1, <1>3, <2>1, <2>2, <2>3
<1>9. \A c \in 0 .. m - 1 : c \in 0 .. m /\ c + 1 \in 0 .. m /\ c <= c + 1
  OBVIOUS
<1> QED
  BY <1>4, <1>5, <1>6, <1>7, <1>8, <1>9

\* Every token is in one chunk.
LEMMA InOneChunk ==
  ASSUME NEW n \in Nat, NEW m \in Nat \ {0}
  PROVE  /\ \A t \in 0 .. n - 1 : \E k \in 0 .. m - 1 : t \in ChunkSet(n, m, k)
         /\ \A j, k \in 0 .. m - 1 : j # k => ChunkSet(n, m, j) \cap ChunkSet(n, m, k) = {}
         /\ \A k \in 0 .. m - 1 : ChunkSet(n, m, k) \subseteq 0 .. n - 1
<1> DEFINE B(c) == Bound(n, m, c)
<1>1. /\ B(0) = 0 /\ B(m) = n /\ \A c \in 0 .. m : B(c) \in Nat
      /\ \A c, d \in 0 .. m : c <= d => B(c) <= B(d)
  BY Bounded
<1>2. \A k : ChunkSet(n, m, k) = B(k) .. B(k + 1) - 1
  BY DEF ChunkSet
<1> HIDE DEF B
<1>3. ASSUME NEW t \in 0 .. n - 1 PROVE \E k \in 0 .. m - 1 : t \in ChunkSet(n, m, k)
  <2> DEFINE G == {k \in 0 .. m : B(k) <= t}
  <2>1. ASSUME \A k \in 0 .. m - 1 : t \notin ChunkSet(n, m, k) PROVE FALSE
    <3>1. 0 \in G
      BY <1>1
    <3>2. ASSUME NEW k \in 0 .. m - 1, k \in G PROVE k + 1 \in G
      <4>0. t \notin ChunkSet(n, m, k) /\ k + 1 \in 0 .. m /\ k \in 0 .. m
        BY <2>1
      <4>1. t \notin B(k) .. B(k + 1) - 1 /\ B(k) <= t /\ k + 1 \in 0 .. m /\ k \in 0 .. m
        BY <1>2, <3>2, <4>0
      <4>2. B(k + 1) \in Int /\ B(k) \in Int
        BY <1>1, <4>1
      <4>3. B(k + 1) <= t
        BY <4>1, <4>2
      <4> QED
        BY <4>1, <4>3
    <3> HIDE DEF G
    <3>3. \A k \in 0 .. m : k \in G
      BY <3>1, <3>2, UpTo
    <3>4. m \in G
      BY <3>3
    <3> QED
      BY <1>1, <3>4 DEF G
  <2> QED
    BY <2>1
<1>4. ASSUME NEW j \in 0 .. m - 1, NEW k \in 0 .. m - 1, j < k
      PROVE  ChunkSet(n, m, j) \cap ChunkSet(n, m, k) = {}
  <2>1. j + 1 \in 0 .. m /\ k \in 0 .. m /\ j + 1 <= k /\ j \in 0 .. m /\ k + 1 \in 0 .. m
    BY <1>4
  <2>2. B(j + 1) <= B(k) /\ B(j + 1) \in Int /\ B(k) \in Int /\ B(j) \in Int /\ B(k + 1) \in Int
    BY <1>1, <2>1
  <2> QED
    BY <1>2, <2>2
<1>5. ASSUME NEW j \in 0 .. m - 1, NEW k \in 0 .. m - 1, j # k
      PROVE  ChunkSet(n, m, j) \cap ChunkSet(n, m, k) = {}
  <2>1. j < k \/ k < j
    BY <1>5
  <2> QED
    BY <1>4, <2>1
<1>6. ASSUME NEW k \in 0 .. m - 1 PROVE ChunkSet(n, m, k) \subseteq 0 .. n - 1
  <2>1. k \in 0 .. m /\ k + 1 \in 0 .. m /\ 0 <= k /\ k + 1 <= m /\ 0 \in 0 .. m /\ m \in 0 .. m
    OBVIOUS
  <2>2. B(k) >= 0 /\ B(k + 1) <= n /\ B(k) \in Int /\ B(k + 1) \in Int
    BY <1>1, <2>1
  <2> QED
    BY <1>2, <2>2
<1> QED
  BY <1>3, <1>5, <1>6

\* The chunks of an owner.
ShardChunks(layout, cp, c) == IF layout = "contiguous" THEN {c} ELSE {c, 2 * cp - 1 - c}
ChunkCount(layout, cp) == IF layout = "contiguous" THEN cp ELSE 2 * cp
ShardSet(layout, cp, n, c) ==
  UNION {ChunkSet(n, ChunkCount(layout, cp), k) : k \in ShardChunks(layout, cp, c)}

\* Every chunk has one owner, hence every token.
LEMMA InOneShard ==
  ASSUME NEW layout, NEW cp \in Nat \ {0}, NEW n \in Nat
  PROVE  /\ \A t \in 0 .. n - 1 : \E c \in 0 .. cp - 1 : t \in ShardSet(layout, cp, n, c)
         /\ \A c, d \in 0 .. cp - 1 :
              c # d => ShardSet(layout, cp, n, c) \cap ShardSet(layout, cp, n, d) = {}
         /\ \A c \in 0 .. cp - 1 : ShardSet(layout, cp, n, c) \subseteq 0 .. n - 1
<1> DEFINE m == ChunkCount(layout, cp)
           S(c) == ShardSet(layout, cp, n, c)
           K(c) == ShardChunks(layout, cp, c)
<1>1. m \in Nat \ {0}
  BY DEF ChunkCount
<1>2. \A c \in 0 .. cp - 1 : K(c) \subseteq 0 .. m - 1
  BY DEF ChunkCount, ShardChunks
<1>3. \A c, d \in 0 .. cp - 1 : c # d => K(c) \cap K(d) = {}
  BY DEF ShardChunks
<1>4. ASSUME NEW k \in 0 .. m - 1 PROVE \E c \in 0 .. cp - 1 : k \in K(c)
  <2>1. CASE k < cp
    <3>1. k \in 0 .. cp - 1 /\ k \in K(k)
      BY <1>1, <2>1 DEF ShardChunks
    <3> QED
      BY <3>1
  <2>2. CASE k >= cp
    <3>1. layout # "contiguous" /\ m = 2 * cp
      BY <1>1, <2>2 DEF ChunkCount
    <3>2. 2 * cp - 1 - k \in 0 .. cp - 1 /\ 2 * cp - 1 - (2 * cp - 1 - k) = k
      BY <1>1, <2>2, <3>1
    <3>3. k \in K(2 * cp - 1 - k)
      BY <3>1, <3>2 DEF ShardChunks
    <3> QED
      BY <3>2, <3>3
  <2> QED
    BY <1>1, <2>1, <2>2
<1>5. \A c : S(c) = UNION {ChunkSet(n, m, k) : k \in K(c)}
  BY DEF ShardSet
<1> HIDE DEF m, S, K
<1>6. /\ \A t \in 0 .. n - 1 : \E k \in 0 .. m - 1 : t \in ChunkSet(n, m, k)
      /\ \A j, k \in 0 .. m - 1 : j # k => ChunkSet(n, m, j) \cap ChunkSet(n, m, k) = {}
      /\ \A k \in 0 .. m - 1 : ChunkSet(n, m, k) \subseteq 0 .. n - 1
  BY <1>1, InOneChunk
<1>7. ASSUME NEW t \in 0 .. n - 1 PROVE \E c \in 0 .. cp - 1 : t \in S(c)
  <2>1. PICK k \in 0 .. m - 1 : t \in ChunkSet(n, m, k)
    BY <1>6
  <2>2. PICK c \in 0 .. cp - 1 : k \in K(c)
    BY <1>4
  <2> QED
    BY <1>5, <2>1, <2>2
<1>8. ASSUME NEW c \in 0 .. cp - 1, NEW d \in 0 .. cp - 1, c # d, NEW t, t \in S(c), t \in S(d)
      PROVE  FALSE
  <2>1. PICK j \in K(c) : t \in ChunkSet(n, m, j)
    BY <1>5, <1>8
  <2>2. PICK k \in K(d) : t \in ChunkSet(n, m, k)
    BY <1>5, <1>8
  <2>3. j # k /\ j \in 0 .. m - 1 /\ k \in 0 .. m - 1
    BY <1>2, <1>3, <1>8, <2>1, <2>2
  <2> QED
    BY <1>6, <2>1, <2>2, <2>3
<1>9. ASSUME NEW c \in 0 .. cp - 1 PROVE S(c) \subseteq 0 .. n - 1
  BY <1>2, <1>5, <1>6
<1>10. /\ \A t \in 0 .. n - 1 : \E c \in 0 .. cp - 1 : t \in S(c)
       /\ \A c, d \in 0 .. cp - 1 : c # d => S(c) \cap S(d) = {}
       /\ \A c \in 0 .. cp - 1 : S(c) \subseteq 0 .. n - 1
  BY <1>7, <1>8, <1>9
<1> QED
  BY <1>10 DEF S

\* s lists S, the tokens of these shards, in order: one run, or one and a later one.
IsShard(s, S, shards) ==
  /\ Lists(s, S)
  /\ \A j, k \in 1 .. Len(s) : j < k => s[j] < s[k]
  /\ Len(s) >= shards[1][2] - shards[1][1]
  /\ \A k \in 1 .. Len(s) :
       s[k] = IF Len(shards) = 1 \/ k <= shards[1][2] - shards[1][1]
              THEN shards[1][1] + k - 1
              ELSE shards[2][1] + k - 1 - (shards[1][2] - shards[1][1])

\* A contiguous owner holds one run of tokens.
LEMMA OneRun ==
  ASSUME NEW a1 \in Nat, NEW b1 \in Nat, a1 <= b1
  PROVE  IsShard(Tokens(<<<<a1, b1>>>>), a1 .. b1 - 1, <<<<a1, b1>>>>)
<1> DEFINE shards == <<<<a1, b1>>>>
           s == Tokens(shards)
           S == a1 .. b1 - 1
<1>1. Len(shards) = 1 /\ shards[1][1] = a1 /\ shards[1][2] = b1
  OBVIOUS
<1>2. s = Run(a1, b1)
  BY <1>1 DEF Tokens
<1> HIDE DEF shards, s
<1>3. Lists(s, S) /\ Len(s) = b1 - a1 /\ \A k \in 1 .. b1 - a1 : s[k] = a1 + k - 1
  <2>1. /\ Lists(Run(a1, b1), a1 .. b1 - 1) /\ Len(Run(a1, b1)) = b1 - a1
        /\ \A k \in 1 .. b1 - a1 : Run(a1, b1)[k] = a1 + k - 1
    BY RunLists
  <2> QED
    BY <1>2, <2>1
<1> HIDE DEF S
<1>4. \A j, k \in 1 .. Len(s) : j < k => s[j] < s[k]
  BY <1>3
<1>5. IsShard(s, S, shards)
  BY <1>1, <1>3, <1>4 DEF IsShard
<1> QED
  BY <1>5 DEF s, S, shards

\* A dual-chunk owner holds two runs, the second behind the first.
LEMMA TwoRuns ==
  ASSUME NEW a1 \in Nat, NEW b1 \in Nat, NEW a2 \in Nat, NEW b2 \in Nat,
         a1 <= b1, b1 <= a2, a2 <= b2
  PROVE  IsShard(Tokens(<<<<a1, b1>>, <<a2, b2>>>>), (a1 .. b1 - 1) \union (a2 .. b2 - 1),
                 <<<<a1, b1>>, <<a2, b2>>>>)
<1> DEFINE shards == <<<<a1, b1>>, <<a2, b2>>>>
           s == Tokens(shards)
           one == Run(a1, b1)
           two == Run(a2, b2)
           P == a1 .. b1 - 1
           Q == a2 .. b2 - 1
<1>1. Len(shards) = 2 /\ shards[1][1] = a1 /\ shards[1][2] = b1
      /\ shards[2][1] = a2 /\ shards[2][2] = b2
  OBVIOUS
<1>2. s = one \o two
  BY <1>1 DEF Tokens
<1>3. Lists(one, P) /\ Len(one) = b1 - a1 /\ \A k \in 1 .. b1 - a1 : one[k] = a1 + k - 1
  BY RunLists
<1>4. Lists(two, Q) /\ Len(two) = b2 - a2 /\ \A k \in 1 .. b2 - a2 : two[k] = a2 + k - 1
  BY RunLists
<1>5. P \cap Q = {}
  OBVIOUS
<1> HIDE DEF shards, s, one, two, P, Q
<1>6. /\ Lists(s, P \union Q) /\ Len(s) = (b1 - a1) + (b2 - a2)
      /\ \A k \in 1 .. b1 - a1 : s[k] = one[k]
      /\ \A k \in 1 .. b2 - a2 : s[(b1 - a1) + k] = two[k]
  <2>1. Lists(one \o two, P \union Q) /\ Follows(one, two, one \o two)
    BY <1>3, <1>4, <1>5, JoinLists DEF Apart
  <2>2. Lists(s, P \union Q) /\ Follows(one, two, s)
    BY <1>2, <2>1
  <2> QED
    BY <1>3, <1>4, <2>2 DEF Follows
<1>7. ASSUME NEW k \in 1 .. Len(s)
      PROVE  s[k] = IF k <= b1 - a1 THEN a1 + k - 1 ELSE a2 + k - 1 - (b1 - a1)
  <2>1. CASE k <= b1 - a1
    <3>1. k \in 1 .. b1 - a1
      BY <1>6, <2>1
    <3> QED
      BY <1>3, <1>6, <2>1, <3>1
  <2>2. CASE ~ (k <= b1 - a1)
    <3> DEFINE j == k - (b1 - a1)
    <3>0. k \in 1 .. (b1 - a1) + (b2 - a2)
      BY <1>6
    <3>1. j \in 1 .. b2 - a2 /\ (b1 - a1) + j = k /\ a2 + j - 1 = a2 + k - 1 - (b1 - a1)
      BY <2>2, <3>0
    <3> HIDE DEF j
    <3>2. s[(b1 - a1) + j] = a2 + j - 1
      BY <1>4, <1>6, <3>1
    <3> QED
      BY <2>2, <3>1, <3>2
  <2> QED
    BY <2>1, <2>2
<1>8. \A j, k \in 1 .. Len(s) : j < k => s[j] < s[k]
  BY <1>6, <1>7
<1>9. Len(s) >= shards[1][2] - shards[1][1]
  BY <1>1, <1>6
<1>10. \A k \in 1 .. Len(s) :
         s[k] = IF Len(shards) = 1 \/ k <= shards[1][2] - shards[1][1]
                THEN shards[1][1] + k - 1
                ELSE shards[2][1] + k - 1 - (shards[1][2] - shards[1][1])
  BY <1>1, <1>7
<1>11. IsShard(s, P \union Q, shards)
  BY <1>6, <1>8, <1>9, <1>10 DEF IsShard
<1> QED
  BY <1>11 DEF s, P, Q, shards

\* What a rank holds of a sequence.
LEMMA ShardLists ==
  ASSUME NEW l, l.cp \in Nat \ {0}, NEW layout, NEW n \in Nat, NEW c \in 0 .. l.cp - 1
  PROVE  IsShard(Tokens(Shards(l, layout, n, c)), ShardSet(layout, l.cp, n, c),
                 Shards(l, layout, n, c))
<1>1. CASE layout = "contiguous"
  <2>1. PICK m \in Nat \ {0} : m = l.cp
    OBVIOUS
  <2>2. c \in 0 .. m /\ c + 1 \in 0 .. m /\ c \in 0 .. m - 1
    BY <2>1
  <2>3. PICK a1, b1 : a1 = Bound(n, m, c) /\ b1 = Bound(n, m, c + 1)
    OBVIOUS
  <2>4. a1 \in Nat /\ b1 \in Nat /\ a1 <= b1
    BY <2>2, <2>3, Bounded
  <2>5. Shards(l, layout, n, c) = <<<<a1, b1>>>>
    BY <1>1, <2>1, <2>3 DEF Shards
  <2>6. ShardSet(layout, l.cp, n, c) = a1 .. b1 - 1
    BY <1>1, <2>1, <2>3 DEF ShardSet, ShardChunks, ChunkSet, ChunkCount
  <2> QED
    BY <2>4, <2>5, <2>6, OneRun
<1>2. CASE layout # "contiguous"
  <2>1. PICK m \in Nat \ {0} : m = 2 * l.cp
    OBVIOUS
  <2>2. PICK d : d = 2 * l.cp - 1 - c
    OBVIOUS
  <2>3. c \in 0 .. m /\ c + 1 \in 0 .. m /\ c \in 0 .. m - 1 /\ d \in 0 .. m /\ d + 1 \in 0 .. m
        /\ d \in 0 .. m - 1 /\ c + 1 <= d
    BY <2>1, <2>2
  <2>4. PICK a1, b1, a2, b2 : a1 = Bound(n, m, c) /\ b1 = Bound(n, m, c + 1)
                              /\ a2 = Bound(n, m, d) /\ b2 = Bound(n, m, d + 1)
    OBVIOUS
  <2>5. a1 \in Nat /\ b1 \in Nat /\ a2 \in Nat /\ b2 \in Nat /\ a1 <= b1 /\ b1 <= a2 /\ a2 <= b2
    BY <2>3, <2>4, Bounded
  <2>6. Shards(l, layout, n, c) = <<<<a1, b1>>, <<a2, b2>>>>
    BY <1>2, <2>1, <2>2, <2>4 DEF Shards
  <2>7. ShardSet(layout, l.cp, n, c) = (a1 .. b1 - 1) \union (a2 .. b2 - 1)
    BY <1>2, <2>1, <2>2, <2>4 DEF ShardSet, ShardChunks, ChunkSet, ChunkCount
  <2> QED
    BY <2>5, <2>6, <2>7, TwoRuns
<1> QED
  BY <1>1, <1>2

-----------------------------------------------------------------------------
(* Blocks and digits.                                                      *)

\* What precedes a multiple of the block size is in an earlier block.
LEMMA BeforeBlock ==
  ASSUME NEW t \in Nat, NEW b \in Nat \ {0}, NEW k \in Int
  PROVE  t \div b \in Nat /\ (t \div b < k <=> t < k * b)
<1> DEFINE q == t \div b
           r == t % b
<1>1. t = b * q + r /\ r \in 0 .. b - 1 /\ q \in Int
  BY Division
<1> HIDE DEF q, r
<1>2. q >= 0
  <2>1. ASSUME q <= -1 PROVE FALSE
    <3>1. b * q <= b * (-1)
      BY <1>1, <2>1
    <3> QED
      BY <1>1, <3>1
  <2> QED
    BY <1>1, <2>1
<1>3. ASSUME q < k PROVE t < k * b
  <2>1. b * (q + 1) <= b * k /\ b * (q + 1) = b * q + b /\ b * q \in Int /\ b * k = k * b
    BY <1>1, <1>3
  <2> QED
    BY <1>1, <2>1
<1>4. ASSUME k <= q PROVE ~ (t < k * b)
  <2>1. b * k <= b * q /\ b * k = k * b /\ b * k \in Int
    BY <1>1, <1>4
  <2> QED
    BY <1>1, <2>1
<1>5. q \in Nat /\ (q < k <=> t < k * b)
  BY <1>1, <1>2, <1>3, <1>4
<1> QED
  BY <1>5 DEF q

\* The only multiple of S between -S and S is zero.
LEMMA NoMultipleBetween ==
  ASSUME NEW S \in Nat \ {0}, NEW k \in Int, S * k < S, -S < S * k
  PROVE  k = 0
<1>1. ASSUME k >= 1 PROVE FALSE
  <2>1. S * k >= S * 1
    BY <1>1
  <2> QED
    BY <2>1
<1>2. ASSUME k <= -1 PROVE FALSE
  <2>1. S * k <= S * (-1)
    BY <1>2
  <2> QED
    BY <2>1
<1> QED
  BY <1>1, <1>2

\* A position among m parts of equal length is a part and a place in it.
LEMMA Digits ==
  ASSUME NEW L \in Nat, NEW m \in Nat
  PROVE  /\ \A c \in 0 .. m - 1, k \in 1 .. L :
              /\ c * L + k \in 1 .. m * L
              /\ ((c * L + k) - 1) \div L = c
              /\ (((c * L + k) - 1) % L) + 1 = k
         /\ \A p \in 1 .. m * L :
              /\ (p - 1) \div L \in 0 .. m - 1
              /\ ((p - 1) % L) + 1 \in 1 .. L
              /\ p = ((p - 1) \div L) * L + (((p - 1) % L) + 1)
<1>1. ASSUME NEW c \in 0 .. m - 1, NEW k \in 1 .. L
      PROVE  /\ c * L + k \in 1 .. m * L
             /\ ((c * L + k) - 1) \div L = c
             /\ (((c * L + k) - 1) % L) + 1 = k
  <2> DEFINE x == (c * L + k) - 1
             q == x \div L
             r == x % L
  <2>0. L \in Nat \ {0} /\ c * L \in Nat
    BY <1>1
  <2>1. x \in Int
    BY <2>0
  <2> HIDE DEF x
  <2>2. x = L * q + r /\ r \in 0 .. L - 1 /\ q \in Int
    BY <2>0, <2>1, Division
  <2> HIDE DEF q, r
  <2>3. c - q \in Int /\ L * (c - q) = r - (k - 1)
    <3>1. L * (c - q) = c * L - L * q /\ c * L \in Int /\ L * q \in Int
      BY <2>0, <2>2
    <3>2. x = (c * L + k) - 1
      BY DEF x
    <3> QED
      BY <2>0, <2>2, <3>1, <3>2
  <2>4. c - q = 0
    <3>1. L * (c - q) < L /\ -L < L * (c - q)
      BY <2>0, <2>2, <2>3
    <3> QED
      BY <2>0, <2>3, <3>1, NoMultipleBetween
  <2>5. q = c /\ r + 1 = k
    BY <2>0, <2>2, <2>3, <2>4
  <2>6. c * L + k \in 1 .. m * L
    <3>1. (c + 1) * L <= m * L /\ (c + 1) * L = c * L + L /\ m * L \in Nat
      BY <2>0
    <3> QED
      BY <2>0, <3>1
  <2> QED
    BY <2>5, <2>6 DEF x, q, r
<1>2. ASSUME NEW p \in 1 .. m * L
      PROVE  /\ (p - 1) \div L \in 0 .. m - 1
             /\ ((p - 1) % L) + 1 \in 1 .. L
             /\ p = ((p - 1) \div L) * L + (((p - 1) % L) + 1)
  <2> DEFINE x == p - 1
             q == x \div L
             r == x % L
  <2>1. L # 0
    <3>1. ASSUME L = 0 PROVE FALSE
      <4>1. m * L = 0
        BY <3>1
      <4> QED
        BY <4>1
    <3> QED
      BY <3>1
  <2>2. L \in Nat \ {0} /\ m * L \in Nat /\ p \in Int
    BY <2>1
  <2>3. x \in Nat /\ x < m * L /\ p = x + 1
    BY <2>2
  <2> HIDE DEF x
  <2>4. x = L * q + r /\ r \in 0 .. L - 1 /\ q \in Int
    BY <2>2, <2>3, Division
  <2>5. q \in Nat /\ q < m
    BY <2>2, <2>3, BeforeBlock
  <2>6. x = q * L + r
    BY <2>2, <2>4
  <2> HIDE DEF q, r
  <2>7. p = q * L + (r + 1) /\ r + 1 \in 1 .. L /\ q \in 0 .. m - 1
    <3>1. q * L \in Int
      BY <2>2, <2>4
    <3> QED
      BY <2>2, <2>3, <2>4, <2>5, <2>6, <3>1
  <2> QED
    BY <2>7 DEF x, q, r
<1> QED
  BY <1>1, <1>2

-----------------------------------------------------------------------------
(* The mask.                                                               *)

\* A layer of LayerAssumption.
IsLayer(l) ==
  /\ l.seq \in Nat /\ l.block \in Nat \ {0} /\ l.seq % l.block = 0
  /\ l.cp \in Nat \ {0, 1} /\ l.bp \in Nat \ {0}
  /\ l.bp = 1 \/ l.bp % l.cp = 0
  /\ l.seq >= 2 * l.cp
  /\ l.layout \in {"dual_chunk", "contiguous"} /\ l.transport \in Transports
  /\ l.pass \in {"packed", "clean", "noisy"}
  /\ l.window \in Nat
  /\ l.start \in 0 .. l.seq - 1
  /\ l.packed \in BOOLEAN
  /\ l.bp = 1 <=> l.transport \in {"pure", "full"}
  /\ l.transport = "pure" => l.block % l.cp = 0
  /\ l.transport = "windowed" => l.layout = "dual_chunk" /\ l.window > 0
  /\ l.pass = "packed" => l.transport # "windowed" /\ l.window = 0 /\ l.start = 0
  /\ l.transport = "full" => l.pass = "packed"

\* The layers looked at are layouts the builders accept.
LEMMA AreLayers ==
  ASSUME NEW l \in Layers \ {NoLayer}
  PROVE  IsLayer(l)
  BY LayerAssumption DEF IsLayer

\* A row of a pass.
IsRow(l, r) ==
  /\ r = [clean |-> r.clean, pos |-> r.pos] /\ r.clean \in BOOLEAN /\ r.pos \in Canvas(l)

\* What a row is meant to attend.
Wanted(l, r) == Context(l, r) \union Neighbours(l, r)

\* The response ends where a block ends.
LEMMA ResponseEnds ==
  ASSUME NEW l, IsLayer(l), ResponsesGathered(l), NEW p \in Canvas(l), NEW q \in Canvas(l),
         p \div l.block = q \div l.block, p < l.seq - l.start
  PROVE  q < l.seq - l.start
<1> DEFINE b == l.block
           n == l.seq
           s == l.start
<1>1. n \in Nat /\ b \in Nat \ {0} /\ n % b = 0 /\ s \in 0 .. n - 1 /\ (s # 0 => s % b = 0)
      /\ p \in 0 .. n - 1 /\ q \in 0 .. n - 1
  BY DEF IsLayer, ResponsesGathered, Canvas
<1>2. p \div b = q \div b /\ p < n - s
  OBVIOUS
<1> HIDE DEF b, n, s
<1>3. n = b * (n \div b) /\ n \div b \in Int
  BY <1>1, Division
<1>4. PICK u \in Int : s = b * u
  <2>1. CASE s = 0
    <3>1. s = b * 0
      BY <1>1, <2>1
    <3> QED
      BY <3>1
  <2>2. CASE s # 0
    <3>1. s = b * (s \div b) /\ s \div b \in Int
      BY <1>1, <2>2, Division
    <3> QED
      BY <3>1
  <2> QED
    BY <2>1, <2>2
<1>5. PICK k \in Int : n - s = k * b
  <2>1. b * (n \div b) - b * u = ((n \div b) - u) * b /\ (n \div b) - u \in Int
    BY <1>1, <1>3, <1>4
  <2> QED
    BY <1>3, <1>4, <2>1
<1>6. p \div b < k
  BY <1>1, <1>2, <1>5, BeforeBlock
<1>7. q < k * b
  BY <1>1, <1>2, <1>6, BeforeBlock
<1>8. q < n - s
  BY <1>5, <1>7
<1> QED
  BY <1>8 DEF n, s

\* Denoised keys: a row is allowed those of its block.
LEMMA MaskActive ==
  ASSUME NEW l, IsLayer(l), ResponsesGathered(l), NEW r, IsRow(l, r), ~Pads(l, r),
         NEW t \in -l.seq .. -1, NEW d \in BOOLEAN
  PROVE  Allowed(l, r, t, d) <=> t \in Wanted(l, r)
<1> DEFINE n == l.seq
           p == t + n
           blk == r.pos \div l.block
           key == Row("noisy", p)
<1>1. n \in Nat /\ r.pos \in 0 .. n - 1 /\ r.clean \in BOOLEAN /\ t \in -n .. -1
  BY DEF IsLayer, IsRow, Canvas
<1>2. t < 0 /\ p \in 0 .. n - 1 /\ p - n = t
  BY <1>1
<1>3. Allowed(l, r, t, d) <=> AllowedActive(l, r, p, d)
  BY <1>2 DEF Allowed
<1>4. t \notin Context(l, r)
  BY <1>2 DEF Context, Canvas
<1>5. t \in Neighbours(l, r) <=> ~r.clean /\ ~Pads(l, key) /\ p \div l.block = blk
  <2>1. \A q \in 0 .. n - 1 : q - n = t => q = p
    BY <1>1
  <2> HIDE DEF p
  <2> QED
    BY <1>2, <2>1 DEF Neighbours, Canvas
<1>6. CASE r.clean
  BY <1>3, <1>4, <1>5, <1>6 DEF AllowedActive, Wanted
<1>7. CASE ~r.clean
  <2>1. key.clean = FALSE /\ key.pos = p
    BY DEF Row
  <2>2. Pads(l, key) <=> p >= n - l.start
    BY <2>1 DEF Pads
  <2>3. r.pos < n - l.start /\ l.start \in 0 .. n - 1
    BY <1>1, <1>7 DEF Pads, IsLayer
  <2>4. p \div l.block = blk => ~Pads(l, key)
    <3>1. r.pos \in Canvas(l) /\ p \in Canvas(l)
      BY <1>1, <1>2 DEF Canvas
    <3>2. ASSUME p \div l.block = blk PROVE p < l.seq - l.start
      BY <2>3, <3>1, <3>2, ResponseEnds
    <3>3. p < n - l.start => ~ (p >= n - l.start)
      BY <1>1, <1>2, <2>3
    <3> QED
      BY <2>2, <3>2, <3>3
  <2>5. QueryBlock(l, r) = blk /\ QueryBlock(l, key) = IF Pads(l, key) THEN -1 ELSE p \div l.block
    BY <2>1 DEF QueryBlock
  <2>6. blk # -1
    <3>1. r.pos \in Nat /\ l.block \in Nat \ {0}
      BY <1>1 DEF IsLayer
    <3>2. blk \in Nat
      BY <3>1, BeforeBlock
    <3> QED
      BY <3>2
  <2>7. AllowedActive(l, r, p, d) <=> IF d THEN blk = p \div l.block ELSE blk = QueryBlock(l, key)
    BY <1>7, <2>5 DEF AllowedActive
  <2> HIDE DEF p, blk, key
  <2>8. AllowedActive(l, r, p, d) <=> ~Pads(l, key) /\ p \div l.block = blk
    BY <2>4, <2>5, <2>6, <2>7
  <2> QED
    BY <1>3, <1>4, <1>5, <1>7, <2>8 DEF Wanted
<1> QED
  BY <1>1, <1>6, <1>7

\* A denoised row of the response: what precedes its block.
LEMMA NoisyContext ==
  ASSUME NEW l, NEW r, ~r.clean, ~ (r.pos >= l.seq - l.start), NEW f,
         f = l.start + (r.pos \div l.block) * l.block
  PROVE  Context(l, r) = {x \in Canvas(l) : x < f /\ (l.window # 0 => f - x < l.window)}
<1> DEFINE g == l.start + (r.pos \div l.block) * l.block
<1>1. /\ ~ (~r.clean /\ r.pos >= l.seq - l.start)
      /\ ~ (r.clean /\ l.pass = "packed") /\ ~ (r.clean /\ l.pass # "packed")
  OBVIOUS
<1>2. Context(l, r) =
        CASE r.clean /\ l.pass = "packed" ->
               {x \in Canvas(l) : x \div l.block <= r.pos \div l.block}
          [] r.clean /\ l.pass # "packed" ->
               {x \in Canvas(l) : x <= r.pos /\ (l.window # 0 => r.pos - x < l.window)}
          [] ~r.clean /\ r.pos >= l.seq - l.start -> {}
          [] OTHER -> {x \in Canvas(l) : x < g /\ (l.window # 0 => g - x < l.window)}
  BY Zenon DEF Context
<1>3. g = f
  OBVIOUS
<1> HIDE DEF g
<1>4. Context(l, r) = {x \in Canvas(l) : x < g /\ (l.window # 0 => g - x < l.window)}
  BY <1>1, <1>2
<1> QED
  BY <1>3, <1>4

\* Clean keys: a row is allowed its context, and no padded row.
LEMMA MaskClean ==
  ASSUME NEW l, IsLayer(l), NEW r, IsRow(l, r), ~Pads(l, r), NEW t \in 0 .. l.seq, NEW d \in BOOLEAN
  PROVE  Allowed(l, r, t, d) <=> t \in Wanted(l, r)
<1> DEFINE n == l.seq
           b == l.block
           blk == r.pos \div b
           w == l.window
           s == l.start
<1>1. n \in Nat /\ b \in Nat \ {0} /\ r.pos \in 0 .. n - 1 /\ r.clean \in BOOLEAN /\ t \in 0 .. n
      /\ w \in Nat /\ s \in 0 .. n - 1 /\ (l.pass = "packed" => w = 0 /\ s = 0)
  BY DEF IsLayer, IsRow, Canvas
<1>2. Allowed(l, r, t, d) <=> AllowedClean(l, r, t)
  BY <1>1 DEF Allowed
<1>3. t \notin Neighbours(l, r)
  BY <1>1 DEF Neighbours, Canvas
<1>4. QueryBlock(l, r) = blk
  BY DEF QueryBlock
<1>5. blk \in Nat /\ t \div b \in Nat
  BY <1>1, BeforeBlock
<1>6. blk * b <= r.pos
  <2>1. ~ (blk < blk) /\ r.pos \in Nat
    BY <1>1, <1>5
  <2>2. ~ (r.pos < blk * b)
    BY <1>1, <1>5, <2>1, BeforeBlock
  <2> QED
    BY <1>1, <1>5, <2>2
<1>7. t \in Wanted(l, r) <=> t \in Context(l, r)
  BY <1>3 DEF Wanted
<1>8. CASE l.pass = "packed"
  <2>1. AllowedClean(l, r, t) <=> blk > t \div b \/ (r.clean /\ blk = t \div b)
    BY <1>4, <1>8 DEF AllowedClean
  <2>2. CASE r.clean
    <3>1. Context(l, r) = {x \in Canvas(l) : x \div b <= blk}
      BY <1>8, <2>2 DEF Context
    <3>2. t \div b <= blk => t < n
      <4>0. n % b = 0
        BY DEF IsLayer
      <4> HIDE DEF n, b
      <4>1. n = b * (n \div b) /\ n \div b \in Int /\ b * (n \div b) = (n \div b) * b
        BY <1>1, <4>0, Division
      <4>2. r.pos < (n \div b) * b /\ r.pos \in Nat
        BY <1>1, <4>1
      <4>3. blk < n \div b
        BY <1>1, <4>1, <4>2, BeforeBlock
      <4>4. ASSUME t \div b <= blk PROVE t < n
        <5>1. t \div b < n \div b
          <6> DEFINE tb == t \div b
                     nb == n \div b
          <6>1. tb \in Int /\ blk \in Int /\ nb \in Int /\ tb <= blk /\ blk < nb
            BY <1>5, <4>1, <4>3, <4>4
          <6> HIDE DEF tb, nb, blk
          <6>2. tb < nb
            BY <6>1
          <6> QED
            BY <6>2 DEF tb, nb
        <5>2. t < (n \div b) * b
          <6>1. t \in Nat /\ b \in Nat \ {0} /\ n \div b \in Int
            BY <1>1, <4>1
          <6> HIDE DEF blk
          <6> QED
            BY <5>1, <6>1, BeforeBlock
        <5> QED
          BY <4>1, <5>2
      <4> QED
        BY <4>4
    <3>3. t \in Context(l, r) <=> t \div b <= blk
      BY <1>1, <3>1, <3>2 DEF Canvas
    <3> HIDE DEF blk
    <3> QED
      BY <1>2, <1>5, <1>7, <2>1, <2>2, <3>3
  <2>3. CASE ~r.clean
    <3>1. ~ (r.pos >= l.seq - l.start)
      BY <2>3 DEF Pads
    <3> DEFINE f == s + blk * b
    <3>2. Context(l, r) = {x \in Canvas(l) : x < f /\ (w # 0 => f - x < w)}
      BY <2>3, <3>1, NoisyContext
    <3>3. t \div b < blk <=> t < blk * b
      BY <1>1, <1>5, BeforeBlock
    <3>4. blk * b \in Int /\ s = 0 /\ w = 0
      BY <1>1, <1>5, <1>8
    <3>5. f = blk * b /\ f < n
      <4>1. r.pos < n /\ r.pos \in Int
        BY <1>1
      <4> HIDE DEF blk
      <4> QED
        BY <1>1, <1>6, <3>4, <4>1
    <3> HIDE DEF f, blk
    <3>6. t \in Context(l, r) <=> t < blk * b
      BY <1>1, <3>2, <3>4, <3>5 DEF Canvas
    <3> QED
      BY <1>2, <1>5, <1>7, <2>1, <2>3, <3>3, <3>6
  <2> QED
    BY <1>1, <2>2, <2>3
<1>9. CASE l.pass # "packed"
  <2>1. AllowedClean(l, r, t) <=> Bounds(l, r)[1] <= t /\ t < Bounds(l, r)[2]
    BY <1>9 DEF AllowedClean
  <2>2. CASE r.clean
    <3>1. Bounds(l, r) = <<IF w = 0 THEN 0 ELSE AtLeastZero(r.pos + 1 - w), r.pos + 1>>
      <4> HIDE DEF n
      <4> QED
        BY <1>1, <2>2 DEF Bounds
    <3>2. Context(l, r) = {x \in Canvas(l) : x <= r.pos /\ (w # 0 => r.pos - x < w)}
      BY <1>9, <2>2, Zenon DEF Context
    <3>3. t \in Context(l, r) <=> t <= r.pos /\ (w # 0 => r.pos - t < w)
      BY <1>1, <3>2 DEF Canvas
    <3>4. AllowedClean(l, r, t) <=> t <= r.pos /\ (w # 0 => r.pos - t < w)
      BY <1>1, <2>1, <3>1 DEF AtLeastZero
    <3> QED
      BY <1>2, <1>7, <3>3, <3>4
  <2>3. CASE ~r.clean
    <3> DEFINE f == s + blk * b
    <3>0. r.pos < n - s /\ ~ (r.pos >= l.seq - l.start)
      BY <1>1, <2>3 DEF Pads
    <3>1. Bounds(l, r) = <<IF w = 0 THEN 0 ELSE AtLeastZero(f - (w - 1)), f>>
      BY <1>4, <1>5, <2>3 DEF Bounds
    <3>2. Context(l, r) = {x \in Canvas(l) : x < f /\ (w # 0 => f - x < w)}
      BY <2>3, <3>0, NoisyContext
    <3>3. f \in Nat /\ f < n
      BY <1>1, <1>5, <1>6, <3>0
    <3> HIDE DEF f
    <3>4. t \in Context(l, r) <=> t < f /\ (w # 0 => f - t < w)
      BY <1>1, <3>2, <3>3 DEF Canvas
    <3>5. AllowedClean(l, r, t) <=> t < f /\ (w # 0 => f - t < w)
      BY <1>1, <2>1, <3>1, <3>3 DEF AtLeastZero
    <3> QED
      BY <1>2, <1>7, <3>4, <3>5
  <2> QED
    BY <1>1, <2>2, <2>3
<1> QED
  BY <1>8, <1>9

\* Padding of a response sees no clean key.
LEMMA MaskPads ==
  ASSUME NEW l, IsLayer(l), NEW r, IsRow(l, r), Pads(l, r), NEW t \in -l.seq .. l.seq,
         NEW d \in BOOLEAN, Allowed(l, r, t, d)
  PROVE  t < 0
<1>1. SUFFICES ASSUME ~ (t < 0) PROVE FALSE
  OBVIOUS
<1>2. l.seq \in Nat /\ t \in 0 .. l.seq /\ l.start \in 0 .. l.seq - 1 /\ l.window \in Nat
  BY <1>1 DEF IsLayer
<1>3. ~r.clean /\ r.pos >= l.seq - l.start /\ r.pos \in 0 .. l.seq - 1
  BY DEF Pads, IsRow, Canvas
<1>4. l.start # 0
  BY <1>2, <1>3
<1>5. l.pass # "packed"
  BY <1>4 DEF IsLayer
<1>6. AllowedClean(l, r, t)
  BY <1>1 DEF Allowed
<1>7. QueryBlock(l, r) = -1
  BY DEF QueryBlock
<1>8. Bounds(l, r)[2] = 0
  BY <1>3, <1>7 DEF Bounds
<1> QED
  BY <1>2, <1>5, <1>6, <1>8 DEF AllowedClean

-----------------------------------------------------------------------------
(* The ranks.                                                              *)

Places(l) == 0 .. l.cp - 1

\* A rank is its group and its place in it.
IsPlaced(l, w) ==
  /\ w \in Int /\ w \div l.cp \in Int /\ ContextRank(l, w) \in Places(l)
  /\ w = (w \div l.cp) * l.cp + ContextRank(l, w)

\* A rank has a place in its group, and its peers have theirs in the same group.
LEMMA Placing ==
  ASSUME NEW l, IsLayer(l), NEW w \in LayerRanks(l)
  PROVE  IsPlaced(l, w)
<1>1. l.cp \in Nat \ {0} /\ w \in Int
  BY DEF IsLayer, LayerRanks
<1> DEFINE n == l.cp
<1> HIDE DEF n
<1>2. n \in Nat \ {0} /\ n = l.cp
  BY <1>1 DEF n
<1>3. w = n * (w \div n) + (w % n) /\ w % n \in 0 .. n - 1 /\ w \div n \in Int
  BY <1>1, <1>2, Division
<1>4. n * (w \div n) = (w \div n) * n
  BY <1>2, <1>3
<1> QED
  BY <1>1, <1>2, <1>3, <1>4 DEF IsPlaced, ContextRank, Places

\* Two of a group with the same place are one.
LEMMA SamePlace ==
  ASSUME NEW l, IsLayer(l), NEW v \in LayerRanks(l), NEW w \in LayerRanks(l),
         v \div l.cp = w \div l.cp, ContextRank(l, v) = ContextRank(l, w)
  PROVE  v = w
  BY Placing DEF IsPlaced

\* Every group has a rank at every place.
LEMMA Peers ==
  ASSUME NEW l, IsLayer(l), NEW g \in Groups(l), NEW c \in Places(l)
  PROVE  /\ g * l.cp + c \in GroupOf(l, g)
         /\ g * l.cp + c \in LayerRanks(l)
         /\ ContextRank(l, g * l.cp + c) = c
<1> DEFINE n == l.cp
           N == IF Pure(l) THEN l.cp ELSE l.bp
           p == g * n + c
<1>1. n \in Nat \ {0} /\ N \in Nat \ {0} /\ N % n = 0 /\ LayerRanks(l) = 0 .. N - 1
  BY DEF IsLayer, Pure, LayerRanks
<1>2. PICK w \in 0 .. N - 1 : g = w \div n
  BY <1>1 DEF Groups
<1>3. c \in 0 .. n - 1
  BY DEF Places
<1> HIDE DEF n, N
<1> DEFINE m == N \div n
<1>4. N = n * m /\ m \in Int
  BY <1>1, Division
<1> HIDE DEF m
<1>5. m \in Nat /\ N = m * n
  <2>1. ASSUME m <= -1 PROVE FALSE
    <3>1. n * m <= n * (-1)
      BY <1>1, <1>4, <2>1
    <3> QED
      BY <1>1, <1>4, <3>1
  <2> QED
    BY <1>1, <1>4, <2>1
<1>6. g \in 0 .. m - 1
  <2>1. w \in Nat /\ w < m * n
    BY <1>1, <1>2, <1>5
  <2> QED
    BY <1>1, <1>2, <1>5, <2>1, BeforeBlock
<1>7. /\ g * n + (c + 1) \in 1 .. m * n
      /\ ((g * n + (c + 1)) - 1) \div n = g
      /\ (((g * n + (c + 1)) - 1) % n) + 1 = c + 1
  <2>1. c + 1 \in 1 .. n /\ n \in Nat
    BY <1>1, <1>3
  <2> QED
    BY <1>5, <1>6, <2>1, Digits
<1>8. g * n \in Int /\ (g * n + (c + 1)) - 1 = p
  BY <1>1, <1>3, <1>6
<1> HIDE DEF p
<1>9. p \in 0 .. N - 1
  <2>1. g * n + (c + 1) \in 1 .. N
    BY <1>5, <1>7
  <2>2. p + 1 = g * n + (c + 1) /\ p \in Int
    BY <1>1, <1>3, <1>8
  <2> QED
    BY <1>1, <2>1, <2>2
<1>10. p \div n = g /\ p % n = c
  <2>1. (p % n) + 1 = c + 1
    BY <1>7, <1>8
  <2>2. p % n \in Int /\ c \in Int
    BY <1>1, <1>3, <1>9
  <2> QED
    BY <1>7, <1>8, <2>1, <2>2
<1> QED
  BY <1>1, <1>9, <1>10 DEF p, n, GroupOf, ContextRank

\* The peers of a rank are the ranks of its group.
LEMMA PeersOf ==
  ASSUME NEW l, IsLayer(l), NEW w \in LayerRanks(l), NEW c \in Places(l)
  PROVE  /\ Peer(l, w, c) \in GroupOf(l, w \div l.cp) /\ Peer(l, w, c) \in LayerRanks(l)
         /\ ContextRank(l, Peer(l, w, c)) = c
         /\ Held(l, Peer(l, w, c)) = Owned(l, c)
<1>1. w \div l.cp \in Groups(l)
  BY DEF Groups
<1>2. Peer(l, w, c) = (w \div l.cp) * l.cp + c
  BY DEF Peer
<1> QED
  BY <1>1, <1>2, Peers DEF Held

-----------------------------------------------------------------------------
(* What the ranks own.                                                     *)

\* The tokens of context rank c, and the first there is: the denoised ones of a
\* full-mask layer are sharded too.
OwnedSet(l, c) ==
  IF l.transport = "full"
  THEN {t - l.seq : t \in ShardSet("dual_chunk", l.cp, 2 * l.seq, c)}
  ELSE ShardSet(RuntimeLayout(l), l.cp, l.seq, c)
First(l) == IF l.transport = "full" THEN -l.seq ELSE 0

\* An owner holds each of its tokens once.
LEMMA OwnedLists ==
  ASSUME NEW l, IsLayer(l), NEW c \in Places(l)
  PROVE  Lists(Owned(l, c), OwnedSet(l, c))
<1>0. l.cp \in Nat \ {0} /\ l.seq \in Nat /\ c \in 0 .. l.cp - 1
  BY DEF IsLayer, Places
<1>1. CASE l.transport = "full"
  <2> DEFINE n == 2 * l.seq
             s == Tokens(Shards(l, "dual_chunk", n, c))
             S == ShardSet("dual_chunk", l.cp, n, c)
  <2>1. n \in Nat
    BY <1>0
  <2>2. Lists(s, S) /\ S \subseteq 0 .. n - 1
    <3> HIDE DEF n
    <3>1. IsShard(s, S, Shards(l, "dual_chunk", n, c))
      BY <1>0, <2>1, ShardLists
    <3>2. S \subseteq 0 .. n - 1
      BY <1>0, <2>1, InOneShard
    <3> QED
      BY <3>1, <3>2 DEF IsShard
  <2>3. S \in SUBSET Int /\ l.seq \in Int
    BY <1>0, <2>1, <2>2
  <2>4. Owned(l, c) = [k \in DOMAIN s |-> s[k] - l.seq]
    BY <1>1 DEF Owned
  <2>5. OwnedSet(l, c) = {t - l.seq : t \in S}
    BY <1>1 DEF OwnedSet
  <2> HIDE DEF s, S
  <2>6. Lists([k \in DOMAIN s |-> s[k] - l.seq], {t - l.seq : t \in S})
    BY <2>2, <2>3, ShiftLists
  <2> QED
    BY <2>4, <2>5, <2>6
<1>2. CASE l.transport # "full"
  <2>1. IsShard(Tokens(Shards(l, RuntimeLayout(l), l.seq, c)),
                ShardSet(RuntimeLayout(l), l.cp, l.seq, c), Shards(l, RuntimeLayout(l), l.seq, c))
    BY <1>0, ShardLists
  <2> QED
    BY <1>2, <2>1 DEF Owned, OwnedSet, OwnerShards, IsShard
<1> QED
  BY <1>1, <1>2

\* Every token has one owner.
LEMMA OwnedOnce ==
  ASSUME NEW l, IsLayer(l)
  PROVE  /\ \A t \in First(l) .. l.seq - 1 : \E c \in Places(l) : t \in OwnedSet(l, c)
         /\ \A c, d \in Places(l) : c # d => Apart(OwnedSet(l, c), OwnedSet(l, d))
         /\ \A c \in Places(l) : OwnedSet(l, c) \subseteq First(l) .. l.seq - 1
<1>0. l.cp \in Nat \ {0} /\ l.seq \in Nat /\ Places(l) = 0 .. l.cp - 1
  BY DEF IsLayer, Places
<1>1. CASE l.transport = "full"
  <2> DEFINE n == 2 * l.seq
             S(c) == ShardSet("dual_chunk", l.cp, n, c)
  <2>1. n \in Nat /\ First(l) = -l.seq
    BY <1>0, <1>1 DEF First
  <2>2. /\ \A t \in 0 .. n - 1 : \E c \in Places(l) : t \in S(c)
        /\ \A c, d \in Places(l) : c # d => S(c) \cap S(d) = {}
        /\ \A c \in Places(l) : S(c) \subseteq 0 .. n - 1
    <3> HIDE DEF n
    <3> QED
      BY <1>0, <2>1, InOneShard
  <2>3. \A c : OwnedSet(l, c) = {t - l.seq : t \in S(c)}
    BY <1>1 DEF OwnedSet
  <2> HIDE DEF S
  <2>4. ASSUME NEW t \in First(l) .. l.seq - 1 PROVE \E c \in Places(l) : t \in OwnedSet(l, c)
    <3>1. t + l.seq \in 0 .. n - 1 /\ (t + l.seq) - l.seq = t
      BY <1>0, <2>1
    <3>2. PICK c \in Places(l) : t + l.seq \in S(c)
      BY <2>2, <3>1
    <3> QED
      BY <2>3, <3>1, <3>2
  <2>5. ASSUME NEW c \in Places(l), NEW d \in Places(l), c # d,
               NEW t \in OwnedSet(l, c), t \in OwnedSet(l, d)
        PROVE  FALSE
    <3>1. PICK x \in S(c) : t = x - l.seq
      BY <2>3
    <3>2. PICK y \in S(d) : t = y - l.seq
      BY <2>3, <2>5
    <3>3. x \in 0 .. n - 1 /\ y \in 0 .. n - 1
      BY <2>2
    <3>4. x = y
      BY <1>0, <2>1, <3>1, <3>2, <3>3
    <3> QED
      BY <2>2, <2>5, <3>4
  <2>6. ASSUME NEW c \in Places(l) PROVE OwnedSet(l, c) \subseteq First(l) .. l.seq - 1
    <3>1. ASSUME NEW x \in S(c) PROVE x - l.seq \in First(l) .. l.seq - 1
      <4>1. x \in 0 .. n - 1
        BY <2>2
      <4> QED
        BY <1>0, <2>1, <4>1
    <3> QED
      BY <2>3, <3>1
  <2> QED
    BY <2>4, <2>5, <2>6 DEF Apart
<1>2. CASE l.transport # "full"
  <2>1. First(l) = 0 /\ \A c : OwnedSet(l, c) = ShardSet(RuntimeLayout(l), l.cp, l.seq, c)
    BY <1>2 DEF First, OwnedSet
  <2>2. /\ \A t \in 0 .. l.seq - 1 :
             \E c \in 0 .. l.cp - 1 : t \in ShardSet(RuntimeLayout(l), l.cp, l.seq, c)
        /\ \A c, d \in 0 .. l.cp - 1 :
              c # d => ShardSet(RuntimeLayout(l), l.cp, l.seq, c) \cap ShardSet(RuntimeLayout(l), l.cp, l.seq, d) = {}
        /\ \A c \in 0 .. l.cp - 1 : ShardSet(RuntimeLayout(l), l.cp, l.seq, c) \subseteq 0 .. l.seq - 1
    BY <1>0, InOneShard
  <2> QED
    BY <1>0, <2>1, <2>2 DEF Apart
<1> QED
  BY <1>1, <1>2

\* The longest of some lists.
LEMMA LongestOf ==
  ASSUME NEW n \in Nat \ {0}, NEW f \in [0 .. n - 1 -> Nat]
  PROVE  \E m \in {f[c] : c \in 0 .. n - 1} : \A c \in 0 .. n - 1 : f[c] <= m
<1> DEFINE G == {k \in 0 .. n - 1 : \E d \in 0 .. k : \A c \in 0 .. k : f[c] <= f[d]}
<1>1. 0 \in G
  <2>1. 0 \in 0 .. n - 1 /\ \A c \in 0 .. 0 : c = 0
    OBVIOUS
  <2>2. f[0] <= f[0]
    BY <2>1
  <2> QED
    BY <2>1, <2>2
<1>2. ASSUME NEW k \in 0 .. n - 2, k \in G PROVE k + 1 \in G
  <2>1. PICK d \in 0 .. k : \A c \in 0 .. k : f[c] <= f[d]
    BY <1>2
  <2>2. k + 1 \in 0 .. n - 1 /\ d \in 0 .. n - 1 /\ f[d] \in Nat /\ f[k + 1] \in Nat
    BY <2>1
  <2>3. CASE f[k + 1] <= f[d]
    <3>1. \A c \in 0 .. k + 1 : f[c] <= f[d]
      BY <2>1, <2>2, <2>3
    <3> QED
      BY <2>1, <2>2, <3>1
  <2>4. CASE f[d] <= f[k + 1]
    <3>1. \A c \in 0 .. k + 1 : c \in 0 .. n - 1 /\ f[c] \in Nat
      BY <2>2
    <3>2. \A c \in 0 .. k + 1 : f[c] <= f[k + 1]
      BY <2>1, <2>2, <2>4, <3>1
    <3> QED
      BY <2>2, <3>2
  <2> QED
    BY <2>2, <2>3, <2>4
<1> HIDE DEF G
<1>3. \A k \in 0 .. n - 1 : k \in G
  <2> DEFINE N == n - 1
  <2>1. N \in Nat /\ \A k \in 0 .. N - 1 : k \in G => k + 1 \in G
    BY <1>2
  <2> HIDE DEF N
  <2>2. \A k \in 0 .. N : k \in G
    BY <1>1, <2>1, UpTo
  <2> QED
    BY <2>2 DEF N
<1>4. n - 1 \in 0 .. n - 1
  OBVIOUS
<1>5. PICK d \in 0 .. n - 1 : \A c \in 0 .. n - 1 : f[c] <= f[d]
  BY <1>3, <1>4 DEF G
<1> QED
  BY <1>5

\* The longest shard is as long as any.
LEMMA LongestFacts ==
  ASSUME NEW l, IsLayer(l)
  PROVE  /\ Longest(l) \in Nat
         /\ \A c \in Places(l) : Len(Owned(l, c)) \in Nat /\ Len(Owned(l, c)) <= Longest(l)
<1> DEFINE n == l.cp
           f == [c \in 0 .. n - 1 |-> Len(Owned(l, c))]
           Most(m) == \A c \in 0 .. n - 1 : f[c] <= m
<1>1. n \in Nat \ {0} /\ Places(l) = 0 .. n - 1
  BY DEF IsLayer, Places
<1>2. \A c \in 0 .. n - 1 : Len(Owned(l, c)) \in Nat
  BY <1>1, OwnedLists, ListFacts
<1>3. f \in [0 .. n - 1 -> Nat] /\ \A c \in 0 .. n - 1 : f[c] = Len(Owned(l, c))
  BY <1>2
<1>4. Longest(l) = CHOOSE m \in {f[c] : c \in 0 .. n - 1} : Most(m)
  <2>1. {f[c] : c \in 0 .. n - 1} = {Len(Owned(l, c)) : c \in 0 .. l.cp - 1}
    OBVIOUS
  <2>2. \A m : Most(m) <=> \A c \in 0 .. l.cp - 1 : Len(Owned(l, c)) <= m
    BY <1>3
  <2> QED
    BY <2>1, <2>2 DEF Longest
<1> HIDE DEF f
<1>5. \E m \in {f[c] : c \in 0 .. n - 1} : Most(m)
  <2> HIDE DEF n
  <2> QED
    BY <1>1, <1>3, LongestOf
<1>6. Longest(l) \in {f[c] : c \in 0 .. n - 1} /\ Most(Longest(l))
  <2> HIDE DEF Most
  <2> QED
    BY <1>4, <1>5
<1> QED
  BY <1>1, <1>2, <1>3, <1>6

\* The gathered list: the shards at equal distances, the rest is padding.
IsGathered(l, s) ==
  /\ DOMAIN s = 1 .. l.cp * Longest(l)
  /\ \A c \in Places(l) : \A k \in 1 .. Len(Owned(l, c)) :
       c * Longest(l) + k \in DOMAIN s /\ s[c * Longest(l) + k] = Owned(l, c)[k]
  /\ \A p \in DOMAIN s :
       \/ s[p] = Padding(l)
       \/ \E c \in Places(l) : \E k \in 1 .. Len(Owned(l, c)) : p = c * Longest(l) + k
  /\ \A p \in DOMAIN s : s[p] \in First(l) .. l.seq
  /\ \A p, q \in DOMAIN s : s[p] = s[q] /\ s[p] # Padding(l) => p = q
  /\ \A t \in First(l) .. l.seq - 1 : \E p \in DOMAIN s : s[p] = t

\* _collective_clean_indices has every token once, at its owner's slots.
LEMMA OwnersGathered ==
  ASSUME NEW l, IsLayer(l)
  PROVE  IsGathered(l, OwnerToLogical(l))
<1> DEFINE L == Longest(l)
           n == l.cp
           s == OwnerToLogical(l)
           At(p) == ((p - 1) % L) + 1
           Of(p) == (p - 1) \div L
<1>1. L \in Nat /\ n \in Nat \ {0} /\ Places(l) = 0 .. n - 1 /\ Padding(l) = l.seq /\ l.seq \in Nat
  BY LongestFacts DEF IsLayer, Places, Padding
<1>2. s = [k \in 1 .. n * L |-> IF At(k) <= Len(Owned(l, Of(k))) THEN Owned(l, Of(k))[At(k)] ELSE Padding(l)]
  BY DEF OwnerToLogical
<1>3. /\ \A c \in 0 .. n - 1, k \in 1 .. L : c * L + k \in 1 .. n * L /\ Of(c * L + k) = c /\ At(c * L + k) = k
      /\ \A p \in 1 .. n * L : Of(p) \in 0 .. n - 1 /\ At(p) \in 1 .. L /\ p = Of(p) * L + At(p)
  <2> HIDE DEF L, n
  <2>1. n \in Nat
    BY <1>1
  <2>2. /\ \A c \in 0 .. n - 1, k \in 1 .. L :
             /\ c * L + k \in 1 .. n * L
             /\ ((c * L + k) - 1) \div L = c
             /\ (((c * L + k) - 1) % L) + 1 = k
        /\ \A p \in 1 .. n * L :
             /\ (p - 1) \div L \in 0 .. n - 1
             /\ ((p - 1) % L) + 1 \in 1 .. L
             /\ p = ((p - 1) \div L) * L + (((p - 1) % L) + 1)
    BY <1>1, <2>1, Digits
  <2>3. ASSUME NEW c \in 0 .. n - 1, NEW k \in 1 .. L
        PROVE  c * L + k \in 1 .. n * L /\ Of(c * L + k) = c /\ At(c * L + k) = k
    BY <2>2
  <2>4. ASSUME NEW p \in 1 .. n * L
        PROVE  Of(p) \in 0 .. n - 1 /\ At(p) \in 1 .. L /\ p = Of(p) * L + At(p)
    BY <2>2
  <2> HIDE DEF At, Of
  <2> QED
    BY <2>3, <2>4, Zenon
<1> HIDE DEF L, n, s, At, Of
<1>4. DOMAIN s = 1 .. n * L
  BY <1>2
<1>5. ASSUME NEW c \in Places(l), NEW k \in 1 .. Len(Owned(l, c))
      PROVE  c * L + k \in DOMAIN s /\ s[c * L + k] = Owned(l, c)[k]
  <2>1. k \in 1 .. L /\ c \in 0 .. n - 1 /\ k <= Len(Owned(l, c))
    BY <1>1, LongestFacts DEF L
  <2>2. c * L + k \in 1 .. n * L /\ Of(c * L + k) = c /\ At(c * L + k) = k
    BY <1>3, <2>1
  <2> QED
    BY <1>2, <1>4, <2>1, <2>2
<1>6. ASSUME NEW p \in DOMAIN s, s[p] # Padding(l)
      PROVE  \E c \in Places(l) : \E k \in 1 .. Len(Owned(l, c)) :
               p = c * L + k /\ s[p] = Owned(l, c)[k]
  <2>1. Of(p) \in 0 .. n - 1 /\ At(p) \in 1 .. L /\ p = Of(p) * L + At(p)
    BY <1>3, <1>4
  <2>2. At(p) <= Len(Owned(l, Of(p))) /\ s[p] = Owned(l, Of(p))[At(p)]
    BY <1>2, <1>4, <1>6
  <2>3. At(p) \in 1 .. Len(Owned(l, Of(p))) /\ Of(p) \in Places(l)
    BY <1>1, <2>1, <2>2, LongestFacts
  <2> QED
    BY <2>1, <2>2, <2>3
<1>7. \A c \in Places(l) : \A k \in 1 .. Len(Owned(l, c)) :
        Owned(l, c)[k] \in OwnedSet(l, c) /\ Owned(l, c)[k] \in First(l) .. l.seq - 1
  BY OwnedLists, OwnedOnce, ListFacts
<1>8. First(l) \in Int /\ First(l) <= l.seq
  BY <1>1 DEF First
<1>9. ASSUME NEW p \in DOMAIN s PROVE s[p] \in First(l) .. l.seq
  <2>1. CASE s[p] = Padding(l)
    BY <1>1, <1>8, <2>1
  <2>2. CASE s[p] # Padding(l)
    BY <1>1, <1>6, <1>7, <1>8, <2>2
  <2> QED
    BY <2>1, <2>2
<1>10. ASSUME NEW p \in DOMAIN s, NEW q \in DOMAIN s, s[p] = s[q], s[p] # Padding(l)
       PROVE  p = q
  <2>1. PICK c \in Places(l) : \E k \in 1 .. Len(Owned(l, c)) : p = c * L + k /\ s[p] = Owned(l, c)[k]
    BY <1>6, <1>10
  <2>1k. PICK k \in 1 .. Len(Owned(l, c)) : p = c * L + k /\ s[p] = Owned(l, c)[k]
    BY <2>1
  <2>2. PICK d \in Places(l) : \E j \in 1 .. Len(Owned(l, d)) : q = d * L + j /\ s[q] = Owned(l, d)[j]
    BY <1>6, <1>10
  <2>2j. PICK j \in 1 .. Len(Owned(l, d)) : q = d * L + j /\ s[q] = Owned(l, d)[j]
    BY <2>2
  <2>3. c = d
    BY <1>7, <1>10, <2>1k, <2>2j, OwnedOnce DEF Apart
  <2>4. k = j
    BY <1>10, <2>1k, <2>2j, <2>3, OwnedLists DEF Lists
  <2> QED
    BY <2>1k, <2>2j, <2>3, <2>4
<1>11. ASSUME NEW t \in First(l) .. l.seq - 1 PROVE \E p \in DOMAIN s : s[p] = t
  <2>1. PICK c \in Places(l) : t \in OwnedSet(l, c)
    BY OwnedOnce
  <2>2. PICK k \in 1 .. Len(Owned(l, c)) : Owned(l, c)[k] = t
    BY <2>1, OwnedLists DEF Lists
  <2> QED
    BY <1>5, <2>1, <2>2
<1> QED
  BY <1>4, <1>5, <1>6, <1>9, <1>10, <1>11 DEF IsGathered, L, n, s

\* What a group gathers is what the mask is told it gathers.
LEMMA GatheredAsTold ==
  ASSUME NEW l, IsLayer(l), NEW g \in Groups(l)
  PROVE  Gathered(l, g) = OwnerToLogical(l)
<1> DEFINE L == Longest(l)
           n == l.cp
           At(p) == ((p - 1) % L) + 1
           Of(p) == (p - 1) \div L
<1>1. L \in Nat /\ n \in Nat \ {0} /\ Places(l) = 0 .. n - 1
  BY LongestFacts DEF IsLayer, Places
<1>2. \A p \in 1 .. n * L : Of(p) \in 0 .. n - 1 /\ At(p) \in 1 .. L
  <2> HIDE DEF L, n
  <2> QED
    BY <1>1, Digits
<1>3. Gathered(l, g) = [k \in 1 .. n * L |-> Padded(l, g * l.cp + Of(k))[At(k)]]
  BY DEF Gathered
<1>4. OwnerToLogical(l)
        = [k \in 1 .. n * L |->
             IF At(k) <= Len(Owned(l, Of(k))) THEN Owned(l, Of(k))[At(k)] ELSE Padding(l)]
  BY DEF OwnerToLogical
<1> HIDE DEF At, Of
<1>5. ASSUME NEW c \in 0 .. n - 1, NEW k \in 1 .. L
      PROVE  Padded(l, g * l.cp + c)[k] = IF k <= Len(Owned(l, c)) THEN Owned(l, c)[k] ELSE Padding(l)
  <2>1. Held(l, g * l.cp + c) = Owned(l, c)
    BY <1>1, Peers DEF Held
  <2> QED
    BY <2>1 DEF Padded
<1>6. \A k \in 1 .. n * L :
        Padded(l, g * l.cp + Of(k))[At(k)]
          = IF At(k) <= Len(Owned(l, Of(k))) THEN Owned(l, Of(k))[At(k)] ELSE Padding(l)
  BY <1>2, <1>5
<1> HIDE DEF L, n
<1> QED
  BY <1>3, <1>4, <1>6

-----------------------------------------------------------------------------
(* Ascending lists.                                                        *)

Climbs(s) == \A j, k \in 1 .. Len(s) : j < k => s[j] < s[k]

\* A set has one ascending list.
LEMMA OneAscending ==
  ASSUME NEW S \in SUBSET Int, IsFiniteSet(S), NEW s, Lists(s, S), Climbs(s)
  PROVE  s = Ascending(S)
<1> DEFINE N == Len(s)
           z == Ascending(S)
<1>1. N \in Nat /\ DOMAIN s = 1 .. N /\ (\A k \in 1 .. N : s[k] \in S /\ s[k] \in Int)
  BY ListFacts
<1>2. ASSUME NEW k \in 1 .. N PROVE Cardinality(Below(S, s[k])) = k - 1
  <2> DEFINE f == [j \in 1 .. k - 1 |-> s[j]]
             D == 1 .. k - 1
  <2>1. \A j \in D : j \in 1 .. N /\ j < k
    BY <1>1
  <2>2. \A j \in D : s[j] \in Below(S, s[k])
    BY <1>1, <2>1 DEF Climbs, Below
  <2>3. f \in [D -> Below(S, s[k])]
    BY <2>2
  <2>4. \A x, y \in D : f[x] = f[y] => x = y
    BY <2>1 DEF Lists
  <2>5. ASSUME NEW t \in Below(S, s[k]) PROVE \E x \in D : f[x] = t
    <3>1. t \in S /\ t < s[k]
      BY DEF Below
    <3>2. PICK j \in 1 .. N : s[j] = t
      BY <3>1 DEF Lists
    <3>3. j < k
      <4>1. CASE j = k
        BY <1>1, <3>1, <3>2, <4>1
      <4>2. CASE k < j
        BY <1>1, <3>1, <3>2, <4>2 DEF Climbs
      <4> QED
        BY <4>1, <4>2
    <3> QED
      BY <1>1, <3>2, <3>3
  <2>6. IsFiniteSet(D) /\ Cardinality(D) = k - 1
    <3>1. 1 \in Int /\ k - 1 \in Int
      BY <1>1
    <3>2. IsFiniteSet(1 .. k - 1) /\ Cardinality(1 .. k - 1) = IF 1 > k - 1 THEN 0 ELSE (k - 1) - 1 + 1
      BY <3>1, FS_Interval
    <3> QED
      BY <1>1, <3>2
  <2> HIDE DEF f, D
  <2>7. Cardinality(Below(S, s[k])) = Cardinality(D)
    BY <2>3, <2>4, <2>5, <2>6, SameCount
  <2> QED
    BY <2>6, <2>7
<1>3. /\ Cardinality(S) \in Nat /\ Len(z) = Cardinality(S) /\ z \in Seq(S)
      /\ \A e \in 1 .. Cardinality(S) : z[e] \in S /\ Cardinality(Below(S, z[e])) = e - 1
  BY AscendingList
<1>4. \A x, y \in S : Cardinality(Below(S, x)) = Cardinality(Below(S, y)) => x = y
  BY PlaceTaken
<1>5. N = Cardinality(S)
  <2>1. s \in [1 .. N -> S] /\ \A x, y \in 1 .. N : s[x] = s[y] => x = y
    BY <1>1 DEF Lists
  <2>2. \A t \in S : \E x \in 1 .. N : s[x] = t
    BY DEF Lists
  <2>3. IsFiniteSet(1 .. N) /\ Cardinality(1 .. N) = N
    <3>1. IsFiniteSet(1 .. N) /\ Cardinality(1 .. N) = IF 1 > N THEN 0 ELSE N - 1 + 1
      BY <1>1, FS_Interval
    <3> QED
      BY <1>1, <3>1
  <2> DEFINE D == 1 .. N
  <2> HIDE DEF N
  <2>4. Cardinality(S) = Cardinality(D)
    <3> HIDE DEF D
    <3> QED
      BY <2>1, <2>2, <2>3, SameCount DEF D
  <2> QED
    BY <2>3, <2>4
<1>6. \A e \in 1 .. N : s[e] = z[e]
  BY <1>1, <1>2, <1>3, <1>4, <1>5
<1>7. s \in Seq(S) /\ z \in Seq(S) /\ Len(z) = N
  BY <1>3, <1>5 DEF Lists
<1> HIDE DEF z
<1> QED
  BY <1>1, <1>6, <1>7 DEF z

\* An ascending list climbs.
LEMMA AscendingClimbs ==
  ASSUME NEW S \in SUBSET Int, IsFiniteSet(S)
  PROVE  Climbs(Ascending(S))
<1> DEFINE s == Ascending(S)
           N == Cardinality(S)
<1>1. /\ N \in Nat /\ Len(s) = N
      /\ \A e \in 1 .. N : s[e] \in S /\ Cardinality(Below(S, s[e])) = e - 1
  BY AscendingList
<1> HIDE DEF s, N
<1>2. ASSUME NEW j \in 1 .. N, NEW k \in 1 .. N, j < k PROVE s[j] < s[k]
  <2>1. s[j] \in S /\ s[k] \in S /\ s[j] \in Int /\ s[k] \in Int
    BY <1>1
  <2>2. CASE s[j] = s[k]
    BY <1>1, <1>2, <2>2
  <2>3. CASE s[k] < s[j]
    <3>1. Cardinality(Below(S, s[k])) < Cardinality(Below(S, s[j]))
      BY <2>1, <2>3, BelowGrows
    <3> QED
      BY <1>1, <1>2, <3>1
  <2> QED
    BY <2>1, <2>2, <2>3
<1> QED
  BY <1>1, <1>2 DEF Climbs, s

-----------------------------------------------------------------------------
(* The slices of a pure-CP rank.                                           *)

\* Every token of a block is in the slice of one rank.
LEMMA Sliced ==
  ASSUME NEW l, IsLayer(l), l.block % l.cp = 0
  PROVE  /\ Slice(l) \in Nat \ {0} /\ l.block = l.cp * Slice(l)
         /\ \A c \in Places(l), j \in 0 .. Slice(l) - 1 : OffsetAt(l, c, j) \in 0 .. l.block - 1
         /\ \A x \in 0 .. l.block - 1 :
              \E c \in Places(l), j \in 0 .. Slice(l) - 1 : OffsetAt(l, c, j) = x
<1> DEFINE n == l.cp
           b == l.block
           S == Slice(l)
           h == S \div 2
<1>1. n \in Nat \ {0} /\ b \in Nat \ {0} /\ b % n = 0 /\ Places(l) = 0 .. n - 1 /\ S = b \div n
  BY DEF IsLayer, Places, Slice
<1>2. \A c, j : OffsetAt(l, c, j) =
        CASE S % 2 = 1 -> c * S + j
          [] S % 2 = 0 /\ j < h -> c * h + j
          [] OTHER -> (b - (c + 1) * h) + (j - h)
  BY DEF OffsetAt
<1> HIDE DEF n, b, S
<1>3. b = n * S /\ S \in Int
  BY <1>1, Division
<1>4. S \in Nat \ {0}
  <2>1. ASSUME S <= 0 PROVE FALSE
    <3>1. n * S <= n * 0
      BY <1>1, <1>3, <2>1
    <3> QED
      BY <1>1, <1>3, <3>1
  <2> QED
    BY <1>3, <2>1
<1>5. CASE S % 2 = 1
  <2>1. \A c, j : OffsetAt(l, c, j) = c * S + j
    BY <1>2, <1>5
  <2>2. /\ \A c \in 0 .. n - 1, k \in 1 .. S : c * S + k \in 1 .. n * S
        /\ \A p \in 1 .. n * S :
             /\ (p - 1) \div S \in 0 .. n - 1
             /\ ((p - 1) % S) + 1 \in 1 .. S
             /\ p = ((p - 1) \div S) * S + (((p - 1) % S) + 1)
    BY <1>1, <1>4, Digits
  <2>3. ASSUME NEW c \in 0 .. n - 1, NEW j \in 0 .. S - 1 PROVE OffsetAt(l, c, j) \in 0 .. b - 1
    <3>1. j + 1 \in 1 .. S /\ c * S \in Int
      BY <1>1, <1>4
    <3>2. c * S + (j + 1) \in 1 .. b
      BY <1>3, <2>2, <3>1
    <3> QED
      BY <1>1, <2>1, <3>1, <3>2
  <2>4. ASSUME NEW x \in 0 .. b - 1
        PROVE  \E c \in 0 .. n - 1, j \in 0 .. S - 1 : OffsetAt(l, c, j) = x
    <3> DEFINE c == ((x + 1) - 1) \div S
               j == ((x + 1) - 1) % S
    <3>1. x + 1 \in 1 .. n * S
      BY <1>1, <1>3
    <3>2. c \in 0 .. n - 1 /\ j + 1 \in 1 .. S /\ x + 1 = c * S + (j + 1)
      BY <2>2, <3>1
    <3>3. j \in Int
      BY <1>1, <1>4
    <3> HIDE DEF c, j
    <3>4. c * S \in Int /\ j \in 0 .. S - 1
      BY <1>1, <1>4, <3>2, <3>3
    <3>5. OffsetAt(l, c, j) = x
      BY <1>1, <2>1, <3>2, <3>4
    <3> QED
      BY <3>2, <3>4, <3>5
  <2> QED
    BY <1>1, <1>3, <1>4, <2>3, <2>4 DEF n, b, S
<1>6. CASE S % 2 # 1
  <2>1. S % 2 = 0 /\ S = 2 * h /\ h \in Nat
    <3>1. S = 2 * (S \div 2) + (S % 2) /\ S % 2 \in 0 .. 1 /\ S \div 2 \in Int
      BY <1>4, Division
    <3>2. S % 2 = 0
      BY <1>6, <3>1
    <3> QED
      BY <1>4, <3>1, <3>2
  <2>2. \A c, j : OffsetAt(l, c, j) = IF j < h THEN c * h + j ELSE (b - (c + 1) * h) + (j - h)
    BY <1>2, <1>6, <2>1
  <2> HIDE DEF h
  <2> DEFINE H == n * h
  <2>3. H \in Nat /\ b = 2 * H /\ h \in Nat \ {0}
    <3>1. n * (2 * h) = 2 * (n * h)
      BY <1>1, <2>1
    <3> QED
      BY <1>1, <1>3, <1>4, <2>1, <3>1
  <2>4. /\ \A c \in 0 .. n - 1, k \in 1 .. h : c * h + k \in 1 .. H
        /\ \A p \in 1 .. H :
             /\ (p - 1) \div h \in 0 .. n - 1
             /\ ((p - 1) % h) + 1 \in 1 .. h
             /\ p = ((p - 1) \div h) * h + (((p - 1) % h) + 1)
    BY <1>1, <2>1, Digits
  <2> HIDE DEF H
  <2>5. ASSUME NEW c \in 0 .. n - 1 PROVE (c + 1) * h = c * h + h /\ c * h \in Int
    BY <1>1, <2>1
  <2>6. ASSUME NEW c \in 0 .. n - 1, NEW j \in 0 .. S - 1 PROVE OffsetAt(l, c, j) \in 0 .. b - 1
    <3>1. CASE j < h
      <4>1. j + 1 \in 1 .. h
        BY <2>1, <3>1
      <4>2. c * h + (j + 1) \in 1 .. H
        BY <2>4, <4>1
      <4> QED
        BY <2>2, <2>3, <2>5, <3>1, <4>2
    <3>2. CASE ~ (j < h)
      <4>1. h \in 1 .. h /\ 1 \in 1 .. h
        BY <2>3
      <4>2. c * h + h \in 1 .. H
        BY <2>4, <4>1
      <4>3. j - h \in 0 .. h - 1 /\ OffsetAt(l, c, j) = (b - (c + 1) * h) + (j - h)
        BY <2>1, <2>2, <3>2
      <4>4. c * h + 1 \in 1 .. H
        BY <2>4, <4>1
      <4> QED
        BY <2>3, <2>5, <4>2, <4>3, <4>4
    <3> QED
      BY <3>1, <3>2
  <2>7. ASSUME NEW x \in 0 .. b - 1
        PROVE  \E c \in 0 .. n - 1, j \in 0 .. S - 1 : OffsetAt(l, c, j) = x
    <3> DEFINE y == IF x < H THEN x ELSE b - 1 - x
    <3>1. y \in 0 .. H - 1
      BY <2>3
    <3> DEFINE c == ((y + 1) - 1) \div h
               j == ((y + 1) - 1) % h
    <3> HIDE DEF y
    <3>2. y + 1 \in 1 .. H
      BY <2>3, <3>1
    <3>3. c \in 0 .. n - 1 /\ j + 1 \in 1 .. h /\ y + 1 = c * h + (j + 1)
      BY <2>4, <3>2
    <3>4. j \in Int
      BY <2>3, <3>1
    <3> HIDE DEF c, j
    <3>5. c * h \in Int /\ j \in 0 .. h - 1 /\ y = c * h + j
      BY <2>3, <2>5, <3>1, <3>3, <3>4
    <3>6. CASE x < H
      <4>1. OffsetAt(l, c, j) = x /\ j \in 0 .. S - 1
        BY <2>1, <2>2, <3>5, <3>6 DEF y
      <4> QED
        BY <3>3, <4>1
    <3>7. CASE ~ (x < H)
      <4> DEFINE m == S - 1 - j
      <4>1. m \in 0 .. S - 1 /\ ~ (m < h) /\ m - h = h - 1 - j
        BY <2>1, <2>3, <3>5
      <4> HIDE DEF m
      <4>2. OffsetAt(l, c, m) = (b - (c + 1) * h) + (m - h)
        BY <2>2, <4>1
      <4>3. y = b - 1 - x /\ x \in Int /\ b \in Int /\ h \in Int
        BY <1>1, <2>3, <3>7 DEF y
      <4>4. OffsetAt(l, c, m) = x
        BY <2>5, <3>3, <3>5, <4>1, <4>2, <4>3
      <4> QED
        BY <3>3, <4>1, <4>4
    <3> QED
      BY <3>6, <3>7
  <2> QED
    BY <1>1, <1>3, <1>4, <2>6, <2>7 DEF n, b, S
<1> QED
  BY <1>5, <1>6

-----------------------------------------------------------------------------
(* The denoised tokens of a rank.                                          *)

\* Nothing.
LEMMA EmptyLists ==
  ASSUME NEW X
  PROVE  <<>> \in Seq(X) /\ Len(<<>>) = 0 /\ DOMAIN <<>> = 1 .. 0 /\ Lists(<<>>, {})
  BY DEF Lists

\* The rows of a rank of a pure-CP layer.
SliceRows(l) == IF l.pass = "clean" THEN 0 ELSE (l.seq \div l.block) * Slice(l)

\* What the ranks of a pure-CP layer denoise: as many tokens each, all of them together.
IsSliced(l, a) ==
  /\ SliceRows(l) \in Nat
  /\ l.pass # "clean" => l.cp * SliceRows(l) = l.seq
  /\ \A c \in Places(l) :
       /\ DOMAIN ActiveShard(l, a, c) = 1 .. SliceRows(l)
       /\ ActiveShard(l, a, c) \in Seq(-l.seq .. -1)
       /\ Len(ActiveShard(l, a, c)) = SliceRows(l)
  /\ l.pass # "clean" =>
       \A t \in -l.seq .. -1 :
         \E c \in Places(l), k \in 1 .. SliceRows(l) : ActiveShard(l, a, c)[k] = t

\* What a slice has at its places.
LEMMA SliceAt ==
  ASSUME NEW l, NEW a, NEW w, l.transport = "pure", l.pass # "clean"
  PROVE  /\ ActivePositions(l, a, w) = [k \in 1 .. (l.seq \div l.block) * Slice(l) |->
            ((k - 1) \div Slice(l)) * l.block + OffsetAt(l, w, (k - 1) % Slice(l))]
         /\ ActiveShard(l, a, w) = [k \in 1 .. SliceRows(l) |-> ActivePositions(l, a, w)[k] - l.seq]
<1>1. ActivePositions(l, a, w) = [k \in 1 .. (l.seq \div l.block) * Slice(l) |->
         ((k - 1) \div Slice(l)) * l.block + OffsetAt(l, w, (k - 1) % Slice(l))]
  BY DEF ActivePositions
<1>2. DOMAIN ActivePositions(l, a, w) = 1 .. SliceRows(l)
  BY <1>1 DEF SliceRows
<1>3. ActiveShard(l, a, w) = [k \in DOMAIN ActivePositions(l, a, w) |-> ActivePositions(l, a, w)[k] - l.seq]
  BY DEF ActiveShard
<1> QED
  BY <1>1, <1>2, <1>3

\* The slices of the pure-CP ranks partition every block.
LEMMA AllSliced ==
  ASSUME NEW l, IsLayer(l), l.transport = "pure", NEW a
  PROVE  IsSliced(l, a)
<1>1. CASE l.pass = "clean"
  <2>1. \A w : ActivePositions(l, a, w) = <<>>
    BY <1>1 DEF ActivePositions
  <2>2. \A w : ActiveShard(l, a, w) = <<>>
    <3>1. \A w : ActiveShard(l, a, w) = [k \in DOMAIN ActivePositions(l, a, w) |-> ActivePositions(l, a, w)[k] - l.seq]
      BY DEF ActiveShard
    <3> QED
      BY <2>1, <3>1
  <2>3. SliceRows(l) = 0
    BY <1>1 DEF SliceRows
  <2>4. \A w : ActiveShard(l, a, w) \in Seq(-l.seq .. -1) /\ Len(ActiveShard(l, a, w)) = 0
               /\ DOMAIN ActiveShard(l, a, w) = 1 .. 0
    <3> DEFINE T == -l.seq .. -1
    <3> HIDE DEF T
    <3>1. <<>> \in Seq(T) /\ Len(<<>>) = 0 /\ DOMAIN <<>> = 1 .. 0
      BY EmptyLists
    <3> QED
      BY <2>2, <3>1 DEF T
  <2> QED
    BY <1>1, <2>3, <2>4 DEF IsSliced
<1>2. CASE l.pass # "clean"
  <2> DEFINE n == l.cp
             b == l.block
             N == l.seq
             S == Slice(l)
             B == N \div b
             R == SliceRows(l)
             Pos(w, k) == ((k - 1) \div S) * b + OffsetAt(l, w, (k - 1) % S)
  <2>1. /\ n \in Nat \ {0} /\ b \in Nat \ {0} /\ N \in Nat /\ N % b = 0 /\ b % n = 0 /\ Places(l) = 0 .. n - 1
        /\ R = B * S
    BY <1>2 DEF IsLayer, Places, SliceRows
  <2>2. /\ S \in Nat \ {0} /\ b = n * S
        /\ \A c \in Places(l), j \in 0 .. S - 1 : OffsetAt(l, c, j) \in 0 .. b - 1
        /\ \A x \in 0 .. b - 1 : \E c \in Places(l), j \in 0 .. S - 1 : OffsetAt(l, c, j) = x
    BY <2>1, Sliced
  <2>3. ASSUME NEW w
        PROVE  /\ \A k \in 1 .. R : ActiveShard(l, a, w)[k] = Pos(w, k) - N
               /\ ActiveShard(l, a, w) = [k \in 1 .. R |-> ActiveShard(l, a, w)[k]]
    <3> DEFINE p == ActivePositions(l, a, w)
               q == ActiveShard(l, a, w)
    <3>1. p = [k \in 1 .. R |-> Pos(w, k)] /\ q = [k \in 1 .. R |-> p[k] - N]
      BY <1>2, <2>1, SliceAt
    <3> HIDE DEF p, q, Pos, R
    <3>2. q = [k \in 1 .. R |-> q[k]] /\ \A k \in 1 .. R : q[k] = Pos(w, k) - N
      BY <3>1
    <3> QED
      BY <3>2 DEF q
  <2>4. \A w : ActiveShard(l, a, w) = [k \in 1 .. R |-> ActiveShard(l, a, w)[k]]
    BY <2>3
  <2> HIDE DEF n, b, N, S, R
  <2>5. B \in Nat /\ N = b * B
    <3>1. N = b * B /\ B \in Int
      BY <2>1, Division
    <3>2. B \in Nat
      BY <2>1, BeforeBlock
    <3> QED
      BY <3>1, <3>2
  <2> HIDE DEF B
  <2>6. R \in Nat /\ n * R = N
    <3>1. n * (B * S) = (n * S) * B
      BY <2>1, <2>2, <2>5
    <3> QED
      BY <2>1, <2>2, <2>5, <3>1
  <2>7. /\ \A c \in 0 .. B - 1, k \in 1 .. S :
             /\ c * S + k \in 1 .. R
             /\ ((c * S + k) - 1) \div S = c
             /\ (((c * S + k) - 1) % S) + 1 = k
        /\ \A p \in 1 .. R :
             /\ (p - 1) \div S \in 0 .. B - 1
             /\ ((p - 1) % S) + 1 \in 1 .. S
    <3>1. /\ \A c \in 0 .. B - 1, k \in 1 .. S :
               /\ c * S + k \in 1 .. B * S
               /\ ((c * S + k) - 1) \div S = c
               /\ (((c * S + k) - 1) % S) + 1 = k
          /\ \A p \in 1 .. B * S :
               /\ (p - 1) \div S \in 0 .. B - 1
               /\ ((p - 1) % S) + 1 \in 1 .. S
      BY <2>2, <2>5, Digits
    <3> QED
      BY <2>1, <3>1
  <2>8. /\ \A c \in 0 .. B - 1, k \in 1 .. b :
             /\ c * b + k \in 1 .. N
        /\ \A p \in 1 .. N :
             /\ (p - 1) \div b \in 0 .. B - 1
             /\ ((p - 1) % b) + 1 \in 1 .. b
             /\ p = ((p - 1) \div b) * b + (((p - 1) % b) + 1)
    <3>1. N = B * b
      BY <2>1, <2>5
    <3> QED
      BY <2>1, <2>5, <3>1, Digits
  <2>9. ASSUME NEW c \in Places(l), NEW k \in 1 .. R PROVE Pos(c, k) \in 0 .. N - 1
    <3> DEFINE e == (k - 1) \div S
               j == (k - 1) % S
    <3>1. e \in 0 .. B - 1 /\ j + 1 \in 1 .. S /\ j \in Int
      BY <2>2, <2>6, <2>7
    <3> HIDE DEF e, j
    <3>2. j \in 0 .. S - 1
      BY <2>2, <3>1
    <3>3. OffsetAt(l, c, j) \in 0 .. b - 1
      BY <2>2, <3>2
    <3> DEFINE x == OffsetAt(l, c, j)
    <3> HIDE DEF x
    <3>4. x + 1 \in 1 .. b /\ e * b \in Int /\ x \in Int
      BY <2>1, <2>5, <3>1, <3>3 DEF x
    <3>5. e * b + (x + 1) \in 1 .. N
      BY <2>8, <3>1, <3>4
    <3>6. e * b + x \in 0 .. N - 1
      BY <2>1, <3>4, <3>5
    <3> QED
      BY <3>6 DEF e, j, x
  <2>10. ASSUME NEW p \in 0 .. N - 1
         PROVE  \E c \in Places(l), k \in 1 .. R : Pos(c, k) = p
    <3> DEFINE e == ((p + 1) - 1) \div b
               x == ((p + 1) - 1) % b
    <3>1. p + 1 \in 1 .. N
      BY <2>1
    <3>2. e \in 0 .. B - 1 /\ x + 1 \in 1 .. b /\ p + 1 = e * b + (x + 1) /\ x \in Int
      BY <2>1, <2>8, <3>1
    <3> HIDE DEF e, x
    <3>3. x \in 0 .. b - 1 /\ e * b \in Int /\ p = e * b + x
      BY <2>1, <2>5, <3>2
    <3>4. PICK c \in Places(l), j \in 0 .. S - 1 : OffsetAt(l, c, j) = x
      BY <2>2, <3>3
    <3> DEFINE k == e * S + (j + 1)
    <3>5. k \in 1 .. R /\ (k - 1) \div S = e /\ ((k - 1) % S) + 1 = j + 1
      <4>1. j + 1 \in 1 .. S
        BY <2>2
      <4> QED
        BY <2>7, <3>2, <4>1
    <3>6. (k - 1) % S = j
      <4> HIDE DEF k
      <4>1. (k - 1) % S \in Int
        BY <2>2, <2>6, <3>5
      <4> QED
        BY <3>5, <4>1
    <3>7. Pos(c, k) = e * b + OffsetAt(l, c, j)
      BY <3>5, <3>6
    <3> HIDE DEF Pos, k
    <3> QED
      BY <3>3, <3>4, <3>5, <3>7
  <2> HIDE DEF Pos
  <2>11. ASSUME NEW c \in Places(l)
         PROVE  ActiveShard(l, a, c) \in Seq(-N .. -1) /\ Len(ActiveShard(l, a, c)) = R
                /\ DOMAIN ActiveShard(l, a, c) = 1 .. R
    <3> DEFINE s == ActiveShard(l, a, c)
    <3> DEFINE T == -N .. -1
    <3>1. \A k \in 1 .. R : s[k] \in T
      BY <2>1, <2>3, <2>9
    <3>2. s = [k \in 1 .. R |-> s[k]]
      BY <2>4
    <3> HIDE DEF s, T
    <3>3. s \in Seq(T) /\ Len(s) = R
      BY <2>6, <3>1, <3>2
    <3>4. DOMAIN s = 1 .. R
      BY <3>2
    <3> QED
      BY <3>3, <3>4 DEF s, T
  <2>12. ASSUME NEW t \in -N .. -1
         PROVE  \E c \in Places(l), k \in 1 .. R : ActiveShard(l, a, c)[k] = t
    <3>1. t + N \in 0 .. N - 1 /\ (t + N) - N = t
      BY <2>1
    <3>2. PICK c \in Places(l), k \in 1 .. R : Pos(c, k) = t + N
      BY <2>10, <3>1
    <3>3. ActiveShard(l, a, c)[k] = t
      BY <2>3, <3>1, <3>2
    <3> QED
      BY <3>3
  <2> QED
    BY <2>6, <2>11, <2>12 DEF IsSliced, n, N, R
<1> QED
  BY <1>1, <1>2

\* The denoised keys of a pure-CP layer, owner after owner: each token once.
IsInTurn(l, a, s) ==
  /\ DOMAIN s = 1 .. l.cp * SliceRows(l)
  /\ \A p \in DOMAIN s : s[p] \in -l.seq .. -1
  /\ \A p, q \in DOMAIN s : s[p] = s[q] => p = q
  /\ l.pass # "clean" =>
       DOMAIN s = 1 .. l.seq /\ \A t \in -l.seq .. -1 : \E p \in DOMAIN s : s[p] = t
  /\ \A c \in Places(l), k \in 1 .. SliceRows(l) :
       c * SliceRows(l) + k \in DOMAIN s /\ s[c * SliceRows(l) + k] = ActiveShard(l, a, c)[k]
  /\ \A p \in DOMAIN s : \E c \in Places(l), k \in 1 .. SliceRows(l) : p = c * SliceRows(l) + k

\* The gathered denoised keys of a pure-CP layer are those of its ranks in turn.
LEMMA InTurn ==
  ASSUME NEW l, IsLayer(l), l.transport = "pure", NEW a
  PROVE  IsInTurn(l, a, OwnerPositions(l, a))
<1> DEFINE n == l.cp
           N == l.seq
           R == SliceRows(l)
           s == OwnerPositions(l, a)
           At(p) == ((p - 1) % R) + 1
           Of(p) == (p - 1) \div R
<1>1. n \in Nat \ {0} /\ N \in Nat /\ R \in Nat /\ Places(l) = 0 .. n - 1 /\ 0 \in Places(l)
  <2>1. R \in Nat
    BY AllSliced, Zenon DEF IsSliced
  <2>2. n \in Nat \ {0} /\ N \in Nat
    BY DEF IsLayer
  <2>3. Places(l) = 0 .. n - 1
    BY DEF Places
  <2> HIDE DEF n, N, R
  <2>4. 0 \in 0 .. n - 1
    BY <2>2
  <2> QED
    BY <2>1, <2>2, <2>3, <2>4
<1>2. s = [k \in 1 .. n * R |-> ActiveShard(l, a, Of(k))[At(k)]]
  <2>1. Len(ActiveShard(l, a, 0)) = R
    BY <1>1, AllSliced DEF IsSliced
  <2> QED
    BY <2>1 DEF OwnerPositions
<1>3. /\ \A c \in 0 .. n - 1, k \in 1 .. R : c * R + k \in 1 .. n * R /\ Of(c * R + k) = c /\ At(c * R + k) = k
      /\ \A p \in 1 .. n * R : Of(p) \in 0 .. n - 1 /\ At(p) \in 1 .. R /\ p = Of(p) * R + At(p)
  <2> HIDE DEF R, n
  <2>1. n \in Nat
    BY <1>1
  <2>2. /\ \A c \in 0 .. n - 1, k \in 1 .. R :
             /\ c * R + k \in 1 .. n * R
             /\ ((c * R + k) - 1) \div R = c
             /\ (((c * R + k) - 1) % R) + 1 = k
        /\ \A p \in 1 .. n * R :
             /\ (p - 1) \div R \in 0 .. n - 1
             /\ ((p - 1) % R) + 1 \in 1 .. R
             /\ p = ((p - 1) \div R) * R + (((p - 1) % R) + 1)
    BY <1>1, <2>1, Digits
  <2>3. ASSUME NEW c \in 0 .. n - 1, NEW k \in 1 .. R
        PROVE  c * R + k \in 1 .. n * R /\ Of(c * R + k) = c /\ At(c * R + k) = k
    BY <2>2
  <2>4. ASSUME NEW p \in 1 .. n * R
        PROVE  Of(p) \in 0 .. n - 1 /\ At(p) \in 1 .. R /\ p = Of(p) * R + At(p)
    BY <2>2
  <2> HIDE DEF At, Of
  <2> QED
    BY <2>3, <2>4, Zenon
<1> HIDE DEF At, Of, s, R, n, N
<1>4. DOMAIN s = 1 .. n * R
  BY <1>2
<1>5. ASSUME NEW c \in 0 .. n - 1, NEW k \in 1 .. R
      PROVE  c * R + k \in DOMAIN s /\ s[c * R + k] = ActiveShard(l, a, c)[k]
  BY <1>2, <1>3, <1>4
<1>6. ASSUME NEW p \in DOMAIN s
      PROVE  Of(p) \in 0 .. n - 1 /\ At(p) \in 1 .. R /\ p = Of(p) * R + At(p)
             /\ s[p] = ActiveShard(l, a, Of(p))[At(p)]
  BY <1>2, <1>3, <1>4
<1>7. \A c \in 0 .. n - 1 : \A k \in 1 .. R : ActiveShard(l, a, c)[k] \in -N .. -1
  <2> DEFINE T == -N .. -1
  <2>1. \A c \in 0 .. n - 1 : ActiveShard(l, a, c) \in Seq(T) /\ Len(ActiveShard(l, a, c)) = R
    BY <1>1, AllSliced DEF IsSliced, R, N
  <2> HIDE DEF T
  <2>2. \A c \in 0 .. n - 1 : \A k \in 1 .. R : ActiveShard(l, a, c)[k] \in T
    BY <2>1
  <2> QED
    BY <2>2 DEF T
<1>8. \A p \in DOMAIN s : s[p] \in -N .. -1
  BY <1>6, <1>7
<1>9. l.pass # "clean" => n * R = N /\ \A t \in -N .. -1 : \E p \in DOMAIN s : s[p] = t
  <2>1. ASSUME l.pass # "clean", NEW t \in -N .. -1 PROVE \E p \in DOMAIN s : s[p] = t
    <3>1. PICK c \in 0 .. n - 1, k \in 1 .. R : ActiveShard(l, a, c)[k] = t
      BY <1>1, <2>1, AllSliced DEF IsSliced, R, N
    <3> QED
      BY <1>5, <3>1
  <2>2. l.pass # "clean" => n * R = N
    BY AllSliced DEF IsSliced, n, R, N
  <2> QED
    BY <2>1, <2>2
<1>10. \A p, q \in DOMAIN s : s[p] = s[q] => p = q
  <2>1. CASE l.pass = "clean"
    <3>1. R = 0
      BY <2>1 DEF SliceRows, R
    <3>2. n * R = 0
      BY <1>1, <3>1
    <3>3. DOMAIN s = {}
      BY <1>4, <3>2
    <3> QED
      BY <3>3
  <2>2. CASE l.pass # "clean"
    <3> DEFINE D == DOMAIN s
               T == -N .. -1
    <3>1. D = 1 .. N
      BY <1>4, <1>9, <2>2
    <3>2. IsFiniteSet(D) /\ Cardinality(D) = N
      <4>1. IsFiniteSet(1 .. N) /\ Cardinality(1 .. N) = IF 1 > N THEN 0 ELSE N - 1 + 1
        BY <1>1, FS_Interval
      <4> QED
        BY <1>1, <3>1, <4>1
    <3>3. Cardinality(T) = N
      <4>1. -N \in Int /\ -1 \in Int
        BY <1>1
      <4>2. Cardinality(-N .. -1) = IF -N > -1 THEN 0 ELSE (-1) - (-N) + 1
        BY <4>1, FS_Interval
      <4> QED
        BY <1>1, <4>2
    <3>4. s \in [D -> T] /\ \A t \in T : \E p \in D : s[p] = t
      <4>1. s = [p \in D |-> s[p]]
        BY <1>2
      <4> QED
        BY <1>8, <1>9, <2>2, <4>1
    <3> HIDE DEF D, T
    <3>5. s \in Surjection(D, T)
      BY <3>4 DEF Surjection
    <3>6. s \in Injection(D, T)
      BY <3>2, <3>3, <3>5, FS_SurjSameCardinalityImpliesInj
    <3>7. \A p, q \in D : s[p] = s[q] => p = q
      BY <3>6 DEF Injection, IsInjective
    <3> QED
      BY <3>7 DEF D
  <2> QED
    BY <2>1, <2>2
<1>11. l.pass # "clean" => DOMAIN s = 1 .. N
  BY <1>4, <1>9
<1>12. \A p \in DOMAIN s : \E c \in 0 .. n - 1, k \in 1 .. R : p = c * R + k
  BY <1>6
<1>13. /\ DOMAIN s = 1 .. l.cp * SliceRows(l)
       /\ \A p \in DOMAIN s : s[p] \in -l.seq .. -1
       /\ l.pass # "clean" =>
            DOMAIN s = 1 .. l.seq /\ \A t \in -l.seq .. -1 : \E p \in DOMAIN s : s[p] = t
  BY <1>4, <1>8, <1>9, <1>11 DEF n, N, R
<1>14. /\ \A c \in Places(l), k \in 1 .. SliceRows(l) :
            c * SliceRows(l) + k \in DOMAIN s /\ s[c * SliceRows(l) + k] = ActiveShard(l, a, c)[k]
       /\ \A p \in DOMAIN s : \E c \in Places(l), k \in 1 .. SliceRows(l) : p = c * SliceRows(l) + k
  BY <1>1, <1>5, <1>12 DEF R
<1>15. IsInTurn(l, a, s)
  BY <1>10, <1>13, <1>14, Zenon DEF IsInTurn
<1> QED
  BY <1>15 DEF s

\* The denoised tokens of rank w.
ActiveSet(l, a, w) == Range(ActiveShard(l, a, w))

\* The schedule of a fused layer deals out its blocks.
Dealt(l, a) == ~Pure(l) => Holds(a, LayerRanks(l), 0 .. (l.seq \div l.block) - 1)

\* The layers whose ranks have denoised tokens of their own.
Denoises(l) == l.pass # "clean" /\ l.transport # "full"

\* Nothing else has denoised tokens.
LEMMA NoActives ==
  ASSUME NEW l, ~Denoises(l), NEW a, NEW w
  PROVE  ActiveShard(l, a, w) = <<>> /\ ActiveSet(l, a, w) = {}
<1>1. ActiveShard(l, a, w) = <<>>
  <2>1. CASE l.transport = "full"
    BY <2>1 DEF ActiveShard
  <2>2. CASE l.transport # "full"
    <3>1. ActivePositions(l, a, w) = <<>>
      BY <2>2 DEF ActivePositions, Denoises
    <3>2. ActiveShard(l, a, w) = [k \in DOMAIN ActivePositions(l, a, w) |-> ActivePositions(l, a, w)[k] - l.seq]
      BY <2>2 DEF ActiveShard
    <3> QED
      BY <3>1, <3>2
  <2> QED
    BY <2>1, <2>2
<1>2. DOMAIN <<>> = {}
  BY EmptyLists
<1> QED
  BY <1>1, <1>2 DEF ActiveSet, Range

\* Each rank lists its denoised tokens, and no two have one in common.
IsActive(l, a) ==
  /\ \A w \in LayerRanks(l) :
       Lists(ActiveShard(l, a, w), ActiveSet(l, a, w)) /\ ActiveSet(l, a, w) \subseteq -l.seq .. -1
  /\ \A v, w \in LayerRanks(l) : v # w => Apart(ActiveSet(l, a, v), ActiveSet(l, a, w))
  /\ Denoises(l) => \A t \in -l.seq .. -1 : \E w \in LayerRanks(l) : t \in ActiveSet(l, a, w)

\* The rows that are denoised are those of the tokens.
AreRows(l, a) ==
  \A w \in LayerRanks(l) :
    /\ NoisyRows(l, a, w) \subseteq Canvas(l)
    /\ \A p \in Canvas(l) : p \in NoisyRows(l, a, w) <=> p - l.seq \in ActiveSet(l, a, w)

\* A rank of a fused layer denoises whole blocks.
WholeBlocks(l, a) ==
  \A w \in LayerRanks(l) : \A t, u \in -l.seq .. -1 :
    t \in ActiveSet(l, a, w) /\ (t + l.seq) \div l.block = (u + l.seq) \div l.block
      => u \in ActiveSet(l, a, w)

\* A rank has a denoised row for each denoised key it computes.
LEMMA RowsOfActives ==
  ASSUME NEW l, IsLayer(l), l.transport # "full", NEW a, NEW w \in LayerRanks(l),
         ActiveSet(l, a, w) \subseteq -l.seq .. -1,
         \A k \in DOMAIN ActivePositions(l, a, w) : ActivePositions(l, a, w)[k] \in Int
  PROVE  /\ NoisyRows(l, a, w) \subseteq Canvas(l)
         /\ \A p \in Canvas(l) : p \in NoisyRows(l, a, w) <=> p - l.seq \in ActiveSet(l, a, w)
<1> DEFINE p == ActivePositions(l, a, w)
           q == ActiveShard(l, a, w)
           n == l.seq
<1>1. n \in Nat
  BY DEF IsLayer
<1>2. q = [k \in DOMAIN p |-> p[k] - n]
  BY DEF ActiveShard
<1>3. NoisyRows(l, a, w) = {p[k] : k \in DOMAIN p}
  BY DEF NoisyRows, Range
<1>4. ActiveSet(l, a, w) = {q[k] : k \in DOMAIN q}
  BY DEF ActiveSet, Range
<1>5. \A k \in DOMAIN p : p[k] \in Int
  OBVIOUS
<1> HIDE DEF p, q, n
<1>6. DOMAIN q = DOMAIN p /\ \A k \in DOMAIN p : q[k] = p[k] - n
  BY <1>2
<1>7. \A k \in DOMAIN p : q[k] \in -n .. -1
  BY <1>4, <1>6 DEF n
<1>8. \A k \in DOMAIN p : p[k] \in 0 .. n - 1
  BY <1>1, <1>5, <1>6, <1>7
<1>9. ASSUME NEW x \in 0 .. n - 1 PROVE x \in NoisyRows(l, a, w) <=> x - n \in ActiveSet(l, a, w)
  <2>1. ASSUME x \in NoisyRows(l, a, w) PROVE x - n \in ActiveSet(l, a, w)
    BY <1>3, <1>4, <1>6, <2>1
  <2>2. ASSUME x - n \in ActiveSet(l, a, w) PROVE x \in NoisyRows(l, a, w)
    <3>1. PICK k \in DOMAIN p : x - n = q[k]
      BY <1>4, <1>6, <2>2
    <3>2. x = p[k]
      BY <1>1, <1>5, <1>6, <3>1
    <3> QED
      BY <1>3, <3>2
  <2> QED
    BY <2>1, <2>2
<1> QED
  BY <1>3, <1>8, <1>9 DEF n, Canvas

\* The slices of a pure-CP layer.
LEMMA PureActives ==
  ASSUME NEW l, IsLayer(l), l.transport = "pure", Denoises(l), NEW a
  PROVE  IsActive(l, a) /\ AreRows(l, a)
<1> DEFINE s == OwnerPositions(l, a)
           n == l.cp
           R == SliceRows(l)
           T == -l.seq .. -1
           q(w) == ActiveShard(l, a, w)
<1>1. n \in Nat \ {0} /\ R \in Nat /\ LayerRanks(l) = 0 .. n - 1 /\ Places(l) = 0 .. n - 1 /\ l.seq \in Nat
  BY AllSliced DEF IsLayer, IsSliced, Pure, LayerRanks, Places
<1>2. /\ \A w \in 0 .. n - 1 : q(w) \in Seq(T) /\ Len(q(w)) = R /\ DOMAIN q(w) = 1 .. R
      /\ \A t \in T : \E w \in 0 .. n - 1, k \in 1 .. R : q(w)[k] = t
  <2>1. IsSliced(l, a) /\ l.pass # "clean"
    BY AllSliced DEF Denoises
  <2>2. /\ \A w \in Places(l) : q(w) \in Seq(T) /\ Len(q(w)) = R /\ DOMAIN q(w) = 1 .. R
        /\ \A t \in T : \E w \in Places(l), k \in 1 .. R : q(w)[k] = t
    BY <2>1, Zenon DEF IsSliced
  <2> HIDE DEF q, T, R
  <2> QED
    BY <1>1, <2>2
<1>3. /\ \A w \in 0 .. n - 1, k \in 1 .. R : w * R + k \in DOMAIN s /\ s[w * R + k] = q(w)[k]
      /\ \A x, y \in DOMAIN s : s[x] = s[y] => x = y
  <2>1. IsInTurn(l, a, s)
    BY InTurn
  <2>2. /\ \A w \in Places(l), k \in 1 .. R : w * R + k \in DOMAIN s /\ s[w * R + k] = q(w)[k]
        /\ \A x, y \in DOMAIN s : s[x] = s[y] => x = y
    BY <2>1, Zenon DEF IsInTurn
  <2> HIDE DEF q, s, R
  <2> QED
    BY <1>1, <2>2
<1>4. \A w \in 0 .. n - 1, k \in 1 .. R : ((w * R + k) - 1) \div R = w /\ (((w * R + k) - 1) % R) + 1 = k
  <2> HIDE DEF n, R
  <2>1. n \in Nat
    BY <1>1
  <2> QED
    BY <1>1, <2>1, Digits
<1>r. \A w : ActiveSet(l, a, w) = {q(w)[k] : k \in DOMAIN q(w)}
  BY DEF ActiveSet, Range
<1> HIDE DEF s, n, R, T, q
<1>5. ASSUME NEW v \in 0 .. n - 1, NEW w \in 0 .. n - 1, NEW j \in 1 .. R, NEW k \in 1 .. R,
             q(v)[j] = q(w)[k]
      PROVE  v = w /\ j = k
  <2>1. v * R + j = w * R + k
    BY <1>3, <1>5
  <2>2. v = ((v * R + j) - 1) \div R /\ w = ((w * R + k) - 1) \div R
        /\ j = (((v * R + j) - 1) % R) + 1 /\ k = (((w * R + k) - 1) % R) + 1
    BY <1>4
  <2> DEFINE x == v * R + j
             y == w * R + k
  <2>3. x = y /\ v = (x - 1) \div R /\ w = (y - 1) \div R /\ j = ((x - 1) % R) + 1 /\ k = ((y - 1) % R) + 1
    BY <2>1, <2>2
  <2> HIDE DEF x, y
  <2> QED
    BY <2>3, Zenon
<1>6. ASSUME NEW w \in 0 .. n - 1
      PROVE  Lists(q(w), ActiveSet(l, a, w)) /\ ActiveSet(l, a, w) \subseteq T
  <2>1. q(w) \in Seq(T) /\ Len(q(w)) = R /\ DOMAIN q(w) = 1 .. R
    BY <1>2
  <2>2. ActiveSet(l, a, w) = {q(w)[k] : k \in 1 .. R}
    BY <1>r, <2>1
  <2>3. ActiveSet(l, a, w) \subseteq T
    BY <2>1, <2>2
  <2>4. q(w) \in Seq(ActiveSet(l, a, w))
    BY <2>1, <2>2
  <2>5. \A x \in ActiveSet(l, a, w) : \E k \in 1 .. Len(q(w)) : q(w)[k] = x
    BY <2>1, <2>2
  <2>6. \A j, k \in 1 .. Len(q(w)) : q(w)[j] = q(w)[k] => j = k
    BY <1>5, <2>1
  <2> QED
    BY <2>3, <2>4, <2>5, <2>6 DEF Lists
<1>7. ASSUME NEW v \in 0 .. n - 1, NEW w \in 0 .. n - 1, v # w
      PROVE  Apart(ActiveSet(l, a, v), ActiveSet(l, a, w))
  <2>1. ASSUME NEW t \in ActiveSet(l, a, v), t \in ActiveSet(l, a, w) PROVE FALSE
    <3>1. PICK j \in 1 .. R : t = q(v)[j]
      BY <1>2, <1>r
    <3>2. PICK k \in 1 .. R : t = q(w)[k]
      BY <1>2, <1>r, <2>1
    <3> QED
      BY <1>5, <1>7, <3>1, <3>2
  <2> QED
    BY <2>1 DEF Apart
<1>8. ASSUME NEW t \in T PROVE \E w \in 0 .. n - 1 : t \in ActiveSet(l, a, w)
  <2>1. PICK w \in 0 .. n - 1, k \in 1 .. R : q(w)[k] = t
    BY <1>2
  <2>2. k \in DOMAIN q(w)
    BY <1>2
  <2> QED
    BY <1>r, <2>1, <2>2
<1>9. IsActive(l, a)
  BY <1>1, <1>6, <1>7, <1>8 DEF IsActive, T, q
<1>10. ASSUME NEW w \in 0 .. n - 1
       PROVE  \A k \in DOMAIN ActivePositions(l, a, w) : ActivePositions(l, a, w)[k] \in Int
  <2> DEFINE N == l.seq
             b == l.block
             S == Slice(l)
             B == N \div b
             p == ActivePositions(l, a, w)
  <2>1. /\ b \in Nat \ {0} /\ N \in Nat /\ b % l.cp = 0 /\ w \in Places(l)
    BY <1>1 DEF IsLayer
  <2>2. /\ S \in Nat \ {0}
        /\ \A j \in 0 .. S - 1 : OffsetAt(l, w, j) \in 0 .. b - 1
    BY <2>1, Sliced
  <2>3. p = [k \in 1 .. B * S |-> ((k - 1) \div S) * b + OffsetAt(l, w, (k - 1) % S)]
    BY SliceAt DEF Denoises
  <2>4. B \in Int
    <3> HIDE DEF N, b
    <3> QED
      BY <2>1, Division
  <2> HIDE DEF N, b, S, B, p
  <2>5. ASSUME NEW k \in 1 .. B * S PROVE p[k] \in Int
    <3> DEFINE e == (k - 1) \div S
               j == (k - 1) % S
    <3>1. k \in Int
      BY <2>2, <2>4
    <3>2. e \in Int /\ j \in 0 .. S - 1
      BY <2>2, <3>1, Division
    <3> HIDE DEF e, j
    <3>3. OffsetAt(l, w, j) \in Int
      BY <2>2, <3>2
    <3>4. e * b + OffsetAt(l, w, j) \in Int
      BY <2>1, <3>2, <3>3
    <3> QED
      BY <2>3, <3>4 DEF e, j
  <2> QED
    BY <2>3, <2>5 DEF p
<1>11. AreRows(l, a)
  <2>1. ASSUME NEW w \in LayerRanks(l)
        PROVE /\ NoisyRows(l, a, w) \subseteq Canvas(l)
              /\ \A p \in Canvas(l) : p \in NoisyRows(l, a, w) <=> p - l.seq \in ActiveSet(l, a, w)
    <3>1. ActiveSet(l, a, w) \subseteq -l.seq .. -1 /\ l.transport # "full"
      BY <1>9 DEF IsActive
    <3>2. \A k \in DOMAIN ActivePositions(l, a, w) : ActivePositions(l, a, w)[k] \in Int
      BY <1>1, <1>10
    <3> QED
      BY <3>1, <3>2, RowsOfActives
  <2> QED
    BY <2>1 DEF AreRows
<1> QED
  BY <1>9, <1>11

\* The blocks of a fused layer.
LEMMA FusedActives ==
  ASSUME NEW l, IsLayer(l), ~Pure(l), Denoises(l), NEW a, Dealt(l, a)
  PROVE  IsActive(l, a) /\ AreRows(l, a) /\ WholeBlocks(l, a)
<1> DEFINE n == l.seq
           b == l.block
           Pos(w) == {p \in Canvas(l) : p \div b \in a[w]}
           p(w) == ActivePositions(l, a, w)
           q(w) == ActiveShard(l, a, w)
<1>0. l.transport # "pure" /\ l.transport # "full" /\ l.pass # "clean"
  BY DEF IsLayer, Pure, Denoises
<1>1. n \in Nat /\ b \in Nat \ {0} /\ Canvas(l) = 0 .. n - 1 /\ Holds(a, LayerRanks(l), 0 .. (n \div b) - 1)
      /\ n % b = 0
  BY DEF IsLayer, Canvas, Dealt
<1>2. \A w : p(w) = Ascending(Pos(w))
  BY <1>0 DEF ActivePositions
<1>3. \A w : q(w) = [k \in DOMAIN p(w) |-> p(w)[k] - n]
  BY <1>0 DEF ActiveShard
<1>4. ASSUME NEW w PROVE Pos(w) \in SUBSET Int /\ IsFiniteSet(Pos(w))
  <2>1. IsFiniteSet(Canvas(l))
    <3>1. 0 \in Int /\ n - 1 \in Int
      BY <1>1
    <3> QED
      BY <1>1, <3>1, FS_Interval
  <2>2. Pos(w) \in SUBSET Canvas(l)
    OBVIOUS
  <2> HIDE DEF Pos
  <2> QED
    BY <1>1, <2>1, <2>2, FS_Subset
<1>5. ASSUME NEW w PROVE Lists(p(w), Pos(w))
  <2> HIDE DEF Pos
  <2> QED
    BY <1>2, <1>4, AscendingLists
<1>6. ASSUME NEW w PROVE Lists(q(w), {x - n : x \in Pos(w)})
  <2> DEFINE S == Pos(w)
             s == p(w)
  <2>1. S \in SUBSET Int /\ Lists(s, S) /\ n \in Int
    BY <1>1, <1>4, <1>5
  <2>2. q(w) = [k \in DOMAIN s |-> s[k] - n]
    BY <1>3
  <2> HIDE DEF S, s, n, q
  <2>3. Lists([k \in DOMAIN s |-> s[k] - n], {x - n : x \in S})
    BY <2>1, ShiftLists
  <2> QED
    BY <2>2, <2>3 DEF S
<1>7. ASSUME NEW w
      PROVE  /\ ActiveSet(l, a, w) = {x - n : x \in Pos(w)} /\ Lists(q(w), ActiveSet(l, a, w))
             /\ ActiveSet(l, a, w) \subseteq -n .. -1
             /\ \A x \in 0 .. n - 1 : x - n \in ActiveSet(l, a, w) <=> x \in Pos(w)
  <2>1. ActiveSet(l, a, w) = {x - n : x \in Pos(w)}
    <3> DEFINE S == {x - n : x \in Pos(w)}
    <3>1. Lists(q(w), S)
      BY <1>6
    <3> HIDE DEF S, q
    <3>2. Range(q(w)) = S
      BY <3>1, ListFacts
    <3> QED
      BY <3>2 DEF ActiveSet, q, S
  <2>2. Pos(w) \subseteq 0 .. n - 1
    BY <1>1
  <2>3. Lists(q(w), ActiveSet(l, a, w))
    BY <1>6, <2>1
  <2> HIDE DEF Pos, n
  <2>4. ActiveSet(l, a, w) \subseteq -n .. -1
    BY <1>1, <2>1, <2>2
  <2>5. ASSUME NEW x \in 0 .. n - 1 PROVE x - n \in ActiveSet(l, a, w) <=> x \in Pos(w)
    <3>1. ASSUME x - n \in ActiveSet(l, a, w) PROVE x \in Pos(w)
      <4>1. PICK y \in Pos(w) : x - n = y - n
        BY <2>1, <3>1
      <4>2. x = y
        BY <1>1, <2>2, <4>1
      <4> QED
        BY <4>2
    <3>2. ASSUME x \in Pos(w) PROVE x - n \in ActiveSet(l, a, w)
      BY <2>1, <3>2
    <3> QED
      BY <3>1, <3>2
  <2> QED
    BY <2>1, <2>3, <2>4, <2>5
<1>8. ASSUME NEW x \in 0 .. n - 1 PROVE x \div b \in 0 .. (n \div b) - 1
  <2> HIDE DEF n, b
  <2>1. n = b * (n \div b) /\ n \div b \in Int
    BY <1>1, Division
  <2>2. x \in Nat /\ x < (n \div b) * b
    BY <1>1, <2>1
  <2>3. x \div b \in Nat /\ x \div b < n \div b
    BY <1>1, <2>1, <2>2, BeforeBlock
  <2> QED
    BY <2>1, <2>3
<1> HIDE DEF n, b, p, q
<1>9. ASSUME NEW v \in LayerRanks(l), NEW w \in LayerRanks(l), v # w
      PROVE  Apart(ActiveSet(l, a, v), ActiveSet(l, a, w))
  <2>1. ASSUME NEW t \in ActiveSet(l, a, v), t \in ActiveSet(l, a, w) PROVE FALSE
    <3>1. PICK x \in Pos(v) : t = x - n
      BY <1>7
    <3>2. x \in 0 .. n - 1
      BY <1>1
    <3>3. x \in Pos(w)
      BY <1>7, <2>1, <3>1, <3>2
    <3>4. x \div b \in a[v] /\ x \div b \in a[w]
      BY <3>1, <3>3
    <3> QED
      BY <1>1, <1>9, <3>4 DEF Holds
  <2> QED
    BY <2>1 DEF Apart
<1>10. ASSUME NEW t \in -n .. -1 PROVE \E w \in LayerRanks(l) : t \in ActiveSet(l, a, w)
  <2>1. t + n \in 0 .. n - 1 /\ (t + n) - n = t
    BY <1>1
  <2>2. PICK w \in LayerRanks(l) : (t + n) \div b \in a[w]
    BY <1>1, <1>8, <2>1 DEF Holds
  <2>3. t + n \in Pos(w)
    BY <1>1, <2>1, <2>2
  <2>4. (t + n) - n \in ActiveSet(l, a, w)
    <3> HIDE DEF Pos
    <3> QED
      BY <1>7, <2>1, <2>3
  <2> QED
    BY <2>1, <2>4
<1>11. IsActive(l, a)
  BY <1>7, <1>9, <1>10 DEF IsActive, q, n
<1>12. AreRows(l, a)
  <2>1. ASSUME NEW w \in LayerRanks(l)
        PROVE /\ NoisyRows(l, a, w) \subseteq Canvas(l)
              /\ \A y \in Canvas(l) : y \in NoisyRows(l, a, w) <=> y - l.seq \in ActiveSet(l, a, w)
    <3>1. ActiveSet(l, a, w) \subseteq -l.seq .. -1 /\ l.transport # "full"
      BY <1>0, <1>11 DEF IsActive
    <3>2. \A k \in DOMAIN ActivePositions(l, a, w) : ActivePositions(l, a, w)[k] \in Int
      <4>1. Lists(p(w), Pos(w)) /\ Pos(w) \in SUBSET Int
        BY <1>4, <1>5
      <4> HIDE DEF Pos
      <4>2. \A k \in DOMAIN p(w) : p(w)[k] \in Int
        BY <4>1, ListFacts
      <4> QED
        BY <4>2 DEF p
    <3> QED
      BY <3>1, <3>2, RowsOfActives
  <2> QED
    BY <2>1 DEF AreRows
<1>13. WholeBlocks(l, a)
  <2>1. ASSUME NEW w \in LayerRanks(l), NEW t \in -n .. -1, NEW u \in -n .. -1,
               t \in ActiveSet(l, a, w), (t + n) \div b = (u + n) \div b
        PROVE  u \in ActiveSet(l, a, w)
    <3>1. t + n \in 0 .. n - 1 /\ (t + n) - n = t /\ u + n \in 0 .. n - 1 /\ (u + n) - n = u
      BY <1>1
    <3>2. t + n \in Pos(w)
      BY <1>7, <2>1, <3>1
    <3>3. u + n \in Pos(w)
      BY <1>1, <2>1, <3>1, <3>2
    <3>4. (u + n) - n \in ActiveSet(l, a, w)
      <4> HIDE DEF Pos
      <4> QED
        BY <1>7, <3>1, <3>3
    <3> QED
      BY <3>1, <3>4
  <2> QED
    BY <2>1 DEF WholeBlocks, n, b
<1> QED
  BY <1>11, <1>12, <1>13

\* The denoised tokens of every layer.
LEMMA Actives ==
  ASSUME NEW l, IsLayer(l), NEW a, Dealt(l, a)
  PROVE  /\ IsActive(l, a)
         /\ l.transport # "full" => AreRows(l, a)
         /\ ~Pure(l) => WholeBlocks(l, a)
<1>1. CASE Denoises(l)
  <2>1. Pure(l) => l.transport = "pure"
    BY <1>1 DEF IsLayer, Pure, Denoises
  <2> QED
    BY <1>1, <2>1, PureActives, FusedActives
<1>2. CASE ~Denoises(l)
  <2>1. \A w : ActiveShard(l, a, w) = <<>> /\ ActiveSet(l, a, w) = {}
    BY <1>2, NoActives
  <2>2. IsActive(l, a)
    BY <1>2, <2>1, EmptyLists DEF IsActive, Apart
  <2>3. WholeBlocks(l, a)
    BY <2>1 DEF WholeBlocks
  <2>4. ASSUME l.transport # "full" PROVE AreRows(l, a)
    <3>1. ASSUME NEW w PROVE NoisyRows(l, a, w) = {}
      <4>1. ActivePositions(l, a, w) = <<>>
        BY <1>2, <2>4 DEF ActivePositions, Denoises
      <4>2. DOMAIN ActivePositions(l, a, w) = {}
        BY <4>1, EmptyLists
      <4> QED
        BY <2>4, <4>2 DEF NoisyRows, Range
    <3> QED
      BY <2>1, <3>1 DEF AreRows
  <2> QED
    BY <2>2, <2>3, <2>4
<1> QED
  BY <1>1, <1>2

-----------------------------------------------------------------------------
(* What a rank attends.                                                    *)

\* The launches of a rank, in order.
Plan(l, a, w) ==
  CASE l.transport = "streaming" ->
         [n \in 1 .. l.cp |-> OwnerChunk(l, a, w, (ContextRank(l, w) + (n - 1)) % l.cp)]
    [] l.transport = "windowed" -> <<WindowChunk(l, a, w)>>
    [] l.transport = "full" -> <<GatheredChunk(l, a, w)>>
    [] OTHER -> <<GatheredChunk(l, a, w), ActiveChunk(l, a, w)>>

\* A launch has the keys of S, each once and where the rank believes it is.
Carries(l, chunk, S) ==
  /\ \A k \in DOMAIN chunk.token :
       chunk.claim[k] = chunk.token[k] /\ chunk.token[k] \in S \union {Padding(l)}
  /\ \A j, k \in DOMAIN chunk.token :
       chunk.token[j] = chunk.token[k] /\ chunk.token[j] # Padding(l) => j = k
  /\ \A t \in S : \E k \in DOMAIN chunk.token : chunk.token[k] = t

\* The launches of a rank have keys of different tokens.
Shared(l, plan, T) ==
  /\ DOMAIN T = DOMAIN plan
  /\ \A c \in DOMAIN plan : Carries(l, plan[c], T[c]) /\ T[c] \subseteq -l.seq .. l.seq - 1
  /\ \A c, d \in DOMAIN plan : c # d => Apart(T[c], T[d])

\* Every key a row is meant to attend is in a launch that computes the row.
Served(l, a, w, plan, T) ==
  /\ \A c \in DOMAIN plan :
       plan[c].forward \subseteq Rows(l, a, w) /\ plan[c].backward \subseteq Rows(l, a, w)
  /\ \A r \in Rows(l, a, w) : ~Pads(l, r) =>
       \A t \in Wanted(l, r) :
         \E c \in DOMAIN plan : t \in T[c] /\ r \in plan[c].forward /\ r \in plan[c].backward

\* The rows of a rank.
LEMMA RowFacts ==
  ASSUME NEW l, IsLayer(l), NEW a, Dealt(l, a), NEW w \in LayerRanks(l), NEW r \in Rows(l, a, w)
  PROVE  /\ IsRow(l, r)
         /\ r.clean => r.pos \in CleanRows(l, w)
         /\ ~r.clean => r.pos \in NoisyRows(l, a, w)
<1>1. NoisyRows(l, a, w) \subseteq Canvas(l)
  <2>1. CASE l.transport = "full"
    BY <2>1 DEF NoisyRows
  <2>2. CASE l.transport # "full"
    BY <2>2, Actives DEF AreRows
  <2> QED
    BY <2>1, <2>2
<1>2. CleanRows(l, w) \subseteq Canvas(l)
  BY DEF CleanRows
<1>3. CASE \E p \in NoisyRows(l, a, w) : r = Row("noisy", p)
  <2>1. PICK p \in NoisyRows(l, a, w) : r = Row("noisy", p)
    BY <1>3
  <2>2. r = [clean |-> FALSE, pos |-> p]
    BY <2>1 DEF Row
  <2> QED
    BY <1>1, <2>2 DEF IsRow
<1>4. CASE \E p \in CleanRows(l, w) : r = Row("clean", p)
  <2>1. PICK p \in CleanRows(l, w) : r = Row("clean", p)
    BY <1>4
  <2>2. r = [clean |-> TRUE, pos |-> p]
    BY <2>1 DEF Row
  <2> QED
    BY <1>2, <2>2 DEF IsRow
<1> QED
  BY <1>3, <1>4 DEF Rows

\* Clean tokens and denoised ones.
LEMMA WantedFacts ==
  ASSUME NEW l, IsLayer(l), NEW r, IsRow(l, r), NEW t \in Wanted(l, r)
  PROVE  /\ t \in -l.seq .. l.seq - 1
         /\ \/ t \in Context(l, r) /\ t \in 0 .. l.seq - 1
            \/ t \in Neighbours(l, r) /\ t \in -l.seq .. -1
<1>1. l.seq \in Nat /\ Canvas(l) = 0 .. l.seq - 1
  BY DEF IsLayer, Canvas
<1>2. CASE t \in Context(l, r)
  <2>1. t \in Canvas(l)
    BY <1>2 DEF Context
  <2> QED
    BY <1>1, <1>2, <2>1
<1>3. CASE t \in Neighbours(l, r)
  <2>1. PICK p \in Canvas(l) : t = p - l.seq
    BY <1>3 DEF Neighbours
  <2> QED
    BY <1>1, <1>3, <2>1
<1> QED
  BY <1>2, <1>3 DEF Wanted

\* The denoised keys a row is meant to attend are there if its rank has whole
\* blocks, and denoised keys are there at all.
LEMMA NeighboursHere ==
  ASSUME NEW l, IsLayer(l), l.transport # "full", NEW a, Dealt(l, a), NEW w \in LayerRanks(l),
         NEW r \in Rows(l, a, w), NEW t \in Neighbours(l, r)
  PROVE  /\ Denoises(l)
         /\ ~Pure(l) => t \in ActiveSet(l, a, w)
<1> DEFINE n == l.seq
<1>1. n \in Nat /\ Canvas(l) = 0 .. n - 1
  BY DEF IsLayer, Canvas
<1>2. PICK p \in Canvas(l) : t = p - n /\ ~r.clean /\ p \div l.block = r.pos \div l.block
  BY DEF Neighbours
<1>3. r.pos \in NoisyRows(l, a, w) /\ r.pos \in Canvas(l)
  BY <1>2, RowFacts DEF IsRow
<1>4. r.pos - n \in ActiveSet(l, a, w)
  BY <1>3, Actives DEF AreRows
<1>5. Denoises(l)
  BY <1>4, NoActives
<1>6. ASSUME ~Pure(l) PROVE t \in ActiveSet(l, a, w)
  <2> HIDE DEF n
  <2>1. t \in -n .. -1 /\ r.pos - n \in -n .. -1 /\ t + n = p /\ (r.pos - n) + n = r.pos
    BY <1>1, <1>2, <1>3
  <2>2. ((r.pos - n) + n) \div l.block = (t + n) \div l.block
    BY <1>2, <2>1
  <2> QED
    BY <1>4, <1>6, <2>1, <2>2, Actives DEF WholeBlocks, n
<1> QED
  BY <1>5, <1>6

\* A later position is in no earlier block.
LEMMA BlocksGrow ==
  ASSUME NEW b \in Nat \ {0}, NEW x \in Nat, NEW y \in Nat, x <= y
  PROVE  x \div b \in Nat /\ y \div b \in Nat /\ x \div b <= y \div b
<1> DEFINE p == x \div b
           q == y \div b
<1>1. p \in Nat /\ q \in Nat
  BY BeforeBlock
<1>2. y < (q + 1) * b
  <2>1. q < q + 1 /\ q + 1 \in Int
    BY <1>1
  <2> QED
    BY <2>1, BeforeBlock
<1>3. x < (q + 1) * b
  <2> DEFINE z == (q + 1) * b
  <2>1. z \in Int
    BY <1>1
  <2> HIDE DEF z
  <2>2. y < z => x < z
    BY <2>1
  <2> QED
    BY <1>2, <2>2 DEF z
<1>4. p < q + 1
  <2>1. q + 1 \in Int
    BY <1>1
  <2> QED
    BY <1>3, <2>1, BeforeBlock
<1> HIDE DEF p, q
<1>5. p <= q
  BY <1>1, <1>4
<1> QED
  BY <1>1, <1>5 DEF p, q

\* The rows that are left out of a launch attend nothing in it.
LEMMA RowsBehind ==
  ASSUME NEW l, IsLayer(l), l.start = 0, NEW a, Dealt(l, a), NEW w \in LayerRanks(l),
         NEW r \in Rows(l, a, w), NEW t \in Context(l, r), NEW s \in Nat, s <= t
  PROVE  r \in RowsFrom(l, a, w, s)
<1> DEFINE b == l.block
           blk == r.pos \div b
           n == l.seq
<1>1. b \in Nat \ {0} /\ n \in Nat /\ r.pos \in 0 .. n - 1 /\ t \in 0 .. n - 1 /\ r.clean \in BOOLEAN
      /\ l.window \in Nat
  <2>1. IsRow(l, r)
    BY RowFacts
  <2>2. t \in Canvas(l)
    BY DEF Context
  <2> QED
    BY <2>1, <2>2 DEF IsLayer, IsRow, Canvas
<1>2. ~Pads(l, r)
  BY <1>1 DEF Pads
<1>3. QueryBlock(l, r) = blk
  BY <1>2 DEF QueryBlock
<1>4. s \div b \in Nat /\ t \div b \in Nat /\ s \div b <= t \div b
  BY <1>1, BlocksGrow
<1>5. blk \in Nat
  BY <1>1, BeforeBlock
<1>6. CASE r.clean
  <2>1. t \div b <= blk
    <3>1. CASE l.pass = "packed"
      <4>1. Context(l, r) = {x \in Canvas(l) : x \div b <= blk}
        BY <1>6, <3>1 DEF Context
      <4> QED
        BY <4>1
    <3>2. CASE l.pass # "packed"
      <4>1. t <= r.pos
        BY <1>6, <3>2, Zenon DEF Context
      <4>2. t \in Nat /\ r.pos \in Nat
        BY <1>1
      <4> QED
        BY <1>1, <4>1, <4>2, BlocksGrow
    <3> QED
      BY <3>1, <3>2
  <2> DEFINE x == s \div b
             y == t \div b
  <2> HIDE DEF x, y, blk
  <2>2. blk > x \/ blk = x
    BY <1>4, <1>5, <2>1 DEF x, y
  <2> QED
    BY <1>3, <1>6, <2>2 DEF RowsFrom, x
<1>7. CASE ~r.clean
  <2> DEFINE f == l.start + blk * b
  <2>1. ~ (r.pos >= l.seq - l.start)
    BY <1>2, <1>7 DEF Pads
  <2>2. Context(l, r) = {x \in Canvas(l) : x < f /\ (l.window # 0 => f - x < l.window)}
    BY <1>7, <2>1, NoisyContext
  <2>3. f = blk * b
    BY <1>1, <1>5
  <2> HIDE DEF f
  <2>4. t < blk * b
    BY <2>2, <2>3
  <2>5. t \div b < blk
    BY <1>1, <1>5, <2>4, BeforeBlock
  <2> DEFINE x == s \div b
             y == t \div b
  <2> HIDE DEF x, y, blk
  <2>6. blk > x
    BY <1>4, <1>5, <2>5 DEF x, y
  <2> QED
    BY <1>3, <2>6 DEF RowsFrom, x
<1> QED
  BY <1>1, <1>6, <1>7

-----------------------------------------------------------------------------
(* Gathered keys.                                                          *)

\* The keys of a gathered list carry all tokens.
LEMMA GatheredCarries ==
  ASSUME NEW l, IsLayer(l), l.transport \in {"collective", "pure"}, NEW a, NEW w \in LayerRanks(l)
  PROVE  Carries(l, GatheredChunk(l, a, w), 0 .. l.seq - 1)
<1> DEFINE s == OwnerToLogical(l)
           g == w \div l.cp
           chunk == GatheredChunk(l, a, w)
<1>1. Gathered(l, g) = s
  <2>1. g \in Groups(l)
    BY DEF Groups
  <2> QED
    BY <2>1, GatheredAsTold
<1>2. chunk.claim = s /\ chunk.token = s
  BY <1>1 DEF GatheredChunk, Chunk
<1>3. IsGathered(l, s)
  BY OwnersGathered
<1>4. First(l) = 0 /\ Padding(l) = l.seq /\ l.seq \in Nat
  BY DEF First, Padding, IsLayer
<1>5. /\ \A k \in DOMAIN s : s[k] \in 0 .. l.seq
      /\ \A j, k \in DOMAIN s : s[j] = s[k] /\ s[j] # Padding(l) => j = k
      /\ \A t \in 0 .. l.seq - 1 : \E k \in DOMAIN s : s[k] = t
  BY <1>3, <1>4 DEF IsGathered
<1> HIDE DEF s, chunk
<1>6. \A k \in DOMAIN s : s[k] \in (0 .. l.seq - 1) \union {Padding(l)}
  BY <1>4, <1>5
<1> QED
  BY <1>2, <1>5, <1>6 DEF Carries, chunk

\* Brought back into logical order.
LEMMA LogicalCarries ==
  ASSUME NEW l, IsLayer(l), l.transport = "full", NEW a, NEW w \in LayerRanks(l)
  PROVE  /\ Carries(l, GatheredChunk(l, a, w), -l.seq .. l.seq - 1)
         /\ GatheredChunk(l, a, w).forward = Rows(l, a, w)
         /\ GatheredChunk(l, a, w).backward = Rows(l, a, w)
         /\ GatheredChunk(l, a, w).token = Run(-l.seq, l.seq)
<1> DEFINE s == OwnerToLogical(l)
           g == w \div l.cp
           chunk == GatheredChunk(l, a, w)
           run == Run(-l.seq, l.seq)
           n == l.seq
<1>1. Gathered(l, g) = s
  <2>1. g \in Groups(l)
    BY DEF Groups
  <2> QED
    BY <2>1, GatheredAsTold
<1>2. chunk = Chunk(run, [k \in DOMAIN run |-> s[LogicalFromOwner(l, run[k])]], Rows(l, a, w), Rows(l, a, w))
  BY <1>1 DEF GatheredChunk
<1>3. n \in Nat /\ Padding(l) = n /\ First(l) = -n
  BY DEF Padding, IsLayer, First
<1>4. \A t \in -n .. n - 1 : \E k \in DOMAIN s : s[k] = t
  BY <1>3, OwnersGathered DEF IsGathered
<1>5. \A t \in -n .. n - 1 : s[LogicalFromOwner(l, t)] = t
  BY <1>4 DEF LogicalFromOwner
<1>6. Lists(run, -n .. n - 1)
  <2>1. -n \in Int /\ n \in Int /\ -n <= n
    BY <1>3
  <2> QED
    BY <2>1, RunLists
<1> HIDE DEF s, run, chunk, n
<1>7. /\ DOMAIN run = 1 .. Len(run) /\ run \in Seq(-n .. n - 1)
      /\ \A k \in DOMAIN run : run[k] \in -n .. n - 1
      /\ \A t \in -n .. n - 1 : \E k \in DOMAIN run : run[k] = t
      /\ \A j, k \in DOMAIN run : run[j] = run[k] => j = k
  <2> DEFINE T == -n .. n - 1
  <2> HIDE DEF T
  <2>1. Lists(run, T)
    BY <1>6 DEF T
  <2>2. DOMAIN run = 1 .. Len(run) /\ \A k \in 1 .. Len(run) : run[k] \in T
    BY <2>1, ListFacts
  <2> QED
    BY <2>1, <2>2 DEF Lists, T
<1>8. [k \in DOMAIN run |-> s[LogicalFromOwner(l, run[k])]] = run
  <2>1. \A k \in DOMAIN run : s[LogicalFromOwner(l, run[k])] = run[k]
    BY <1>5, <1>7
  <2>2. run = [k \in DOMAIN run |-> run[k]]
    <3> DEFINE T == -n .. n - 1
    <3> HIDE DEF T
    <3>1. run \in Seq(T)
      BY <1>7 DEF T
    <3> QED
      BY <3>1
  <2> QED
    BY <2>1, <2>2
<1>9. chunk.claim = run /\ chunk.token = run /\ chunk.forward = Rows(l, a, w) /\ chunk.backward = Rows(l, a, w)
  BY <1>2, <1>8 DEF Chunk
<1>10. Carries(l, chunk, -n .. n - 1)
  BY <1>7, <1>9 DEF Carries
<1> QED
  BY <1>9, <1>10 DEF chunk, n, run

\* A launch with the keys of a list.
LEMMA ListCarries ==
  ASSUME NEW l, NEW chunk, NEW s, NEW S, Lists(s, S), chunk.claim = s, chunk.token = s
  PROVE  Carries(l, chunk, S)
<1>1. DOMAIN s = 1 .. Len(s) /\ (\A k \in 1 .. Len(s) : s[k] \in S)
  BY ListFacts
<1> QED
  BY <1>1 DEF Carries, Lists

\* The keys of a fused rank's own blocks.
LEMMA ActiveCarries ==
  ASSUME NEW l, IsLayer(l), l.transport = "collective", NEW a, Dealt(l, a), NEW w \in LayerRanks(l)
  PROVE  /\ Carries(l, ActiveChunk(l, a, w), ActiveSet(l, a, w))
         /\ ActiveChunk(l, a, w).forward = Rows(l, a, w)
         /\ ActiveChunk(l, a, w).backward = Rows(l, a, w)
<1> DEFINE chunk == ActiveChunk(l, a, w)
           s == ActiveShard(l, a, w)
           S == ActiveSet(l, a, w)
<1>1. chunk.claim = s /\ chunk.token = s /\ chunk.forward = Rows(l, a, w) /\ chunk.backward = Rows(l, a, w)
  BY DEF ActiveChunk, Chunk
<1>2. Lists(s, S)
  BY Actives DEF IsActive
<1> HIDE DEF chunk, s, S
<1>3. Carries(l, chunk, S)
  BY <1>1, <1>2, ListCarries
<1> QED
  BY <1>1, <1>3 DEF chunk, S

\* The two orders of a pure-CP gather: the keys come out in logical order, and
\* their gradients go back to where they came from.
IsOrdered(l, a) ==
  LET s == OwnerPositions(l, a)
  IN /\ DOMAIN LogicalOrder(l, a) = DOMAIN s /\ DOMAIN RankMajorOrder(l, a) = DOMAIN s
     /\ \A p \in DOMAIN s : LogicalOrder(l, a)[p] \in DOMAIN s /\ s[LogicalOrder(l, a)[p]] = p - 1 - l.seq
     /\ \A j \in DOMAIN s : /\ RankMajorOrder(l, a)[j] \in DOMAIN s
                            /\ LogicalOrder(l, a)[RankMajorOrder(l, a)[j]] = j
     /\ \A p \in DOMAIN s : RankMajorOrder(l, a)[LogicalOrder(l, a)[p]] = p

\* The argsort of the pure-CP gather and its inverse are permutations of it.
LEMMA Ordered ==
  ASSUME NEW l, IsLayer(l), l.transport = "pure", NEW a
  PROVE  IsOrdered(l, a)
<1> DEFINE s == OwnerPositions(l, a)
           o == LogicalOrder(l, a)
           m == RankMajorOrder(l, a)
           n == l.seq
           D == DOMAIN s
<1>1. n \in Nat /\ (\A p \in D : s[p] \in -n .. -1) /\ (\A p, q \in D : s[p] = s[q] => p = q)
  BY InTurn DEF IsLayer, IsInTurn
<1>2. \A p \in D : p \in 1 .. n /\ \E k \in D : s[k] = p - 1 - n
  <2>1. CASE l.pass = "clean"
    <3>1. SliceRows(l) = 0 /\ l.cp \in Nat
      BY <2>1 DEF SliceRows, IsLayer
    <3>2. l.cp * SliceRows(l) = 0
      BY <3>1
    <3>3. D = {}
      BY <3>2, InTurn DEF IsInTurn
    <3> QED
      BY <3>3
  <2>2. CASE l.pass # "clean"
    <3>0. IsInTurn(l, a, s)
      BY InTurn
    <3>1. D = 1 .. n /\ \A t \in -n .. -1 : \E p \in D : s[p] = t
      BY <2>2, <3>0 DEF IsInTurn
    <3>2. \A p \in 1 .. n : p - 1 - n \in -n .. -1
      BY <1>1
    <3> QED
      BY <3>1, <3>2
  <2> QED
    BY <2>1, <2>2
<1>3. o = [p \in D |-> CHOOSE k \in D : s[k] = p - 1 - n]
  BY DEF LogicalOrder
<1>4. m = [j \in D |-> CHOOSE p \in D : o[p] = j]
  BY DEF RankMajorOrder
<1> HIDE DEF s, o, m, n, D
<1>5. \A p \in D : o[p] \in D /\ s[o[p]] = p - 1 - n
  BY <1>2, <1>3
<1>6. ASSUME NEW j \in D PROVE \E p \in D : o[p] = j
  <2> DEFINE p == s[j] + 1 + n
  <2>1. p \in 1 .. n /\ p - 1 - n = s[j]
    BY <1>1
  <2>2. p \in D
    <3>1. l.pass # "clean"
      <4>1. ASSUME l.pass = "clean" PROVE FALSE
        <5>1. SliceRows(l) = 0 /\ l.cp \in Nat
          BY <4>1 DEF SliceRows, IsLayer
        <5>2. l.cp * SliceRows(l) = 0
          BY <5>1
        <5>3. D = {}
          BY <5>2, InTurn DEF IsInTurn, D, s
        <5> QED
          BY <5>3
      <4> QED
        BY <4>1
    <3>2. D = 1 .. n
      BY <3>1, InTurn DEF IsInTurn, D, s, n
    <3> QED
      BY <2>1, <3>2
  <2> HIDE DEF p
  <2>3. s[o[p]] = s[j] /\ o[p] \in D
    BY <1>5, <2>1, <2>2
  <2> QED
    BY <1>1, <2>2, <2>3
<1>7. \A j \in D : m[j] \in D /\ o[m[j]] = j
  BY <1>4, <1>6
<1>8. ASSUME NEW p \in D PROVE m[o[p]] = p
  <2> DEFINE q == m[o[p]]
  <2>1. q \in D /\ o[q] = o[p] /\ o[p] \in D
    BY <1>5, <1>7
  <2> HIDE DEF q
  <2>2. q - 1 - n = p - 1 - n
    BY <1>5, <2>1
  <2>3. q = p
    BY <1>1, <1>2, <2>1, <2>2
  <2> QED
    BY <2>3 DEF q
<1>9. DOMAIN o = D /\ DOMAIN m = D
  BY <1>3, <1>4
<1> QED
  BY <1>5, <1>7, <1>8, <1>9 DEF IsOrdered, s, o, m, n, D

\* Where the keys of a launch of slices come from.
LEMMA SliceTokens ==
  ASSUME NEW l, l.transport = "pure", NEW a, NEW w
  PROVE  ActiveChunk(l, a, w).token
           = [p \in DOMAIN OwnerPositions(l, a) |-> OwnerPositions(l, a)[LogicalOrder(l, a)[p]]]
  BY DEF ActiveChunk, Chunk

\* The keys of all slices.
AllActive(l) == IF Denoises(l) THEN -l.seq .. -1 ELSE {}

\* The launch of a pure-CP rank's denoised keys carries every denoised token.
LEMMA SlicesCarry ==
  ASSUME NEW l, IsLayer(l), l.transport = "pure", NEW a, NEW w \in LayerRanks(l)
  PROVE  /\ Carries(l, ActiveChunk(l, a, w), AllActive(l))
         /\ ActiveChunk(l, a, w).forward = Rows(l, a, w)
         /\ ActiveChunk(l, a, w).backward = Rows(l, a, w)
<1> DEFINE s == OwnerPositions(l, a)
           o == LogicalOrder(l, a)
           n == l.seq
           D == DOMAIN s
           chunk == ActiveChunk(l, a, w)
           A == AllActive(l)
<1>1. /\ chunk.claim = [p \in D |-> p - 1 - n] /\ chunk.token = [p \in D |-> s[o[p]]]
      /\ chunk.forward = Rows(l, a, w) /\ chunk.backward = Rows(l, a, w)
  BY DEF ActiveChunk, Chunk
<1>2. \A p \in D : o[p] \in D /\ s[o[p]] = p - 1 - n
  BY Ordered DEF IsOrdered
<1>3. /\ n \in Nat /\ D \subseteq Int
      /\ (A = {} /\ D = {}) \/ (A = -n .. -1 /\ D = 1 .. n)
  <2>1. n \in Nat
    BY DEF IsLayer
  <2>2. CASE l.pass = "clean"
    <3>1. SliceRows(l) = 0 /\ l.cp \in Nat
      BY <2>2 DEF SliceRows, IsLayer
    <3>2. l.cp * SliceRows(l) = 0
      BY <3>1
    <3>3. D = {}
      BY <3>2, InTurn DEF IsInTurn
    <3>4. A = {}
      BY <2>2 DEF AllActive, Denoises
    <3> QED
      BY <2>1, <3>3, <3>4
  <2>3. CASE l.pass # "clean"
    <3>1. D = 1 .. n
      BY <2>3, InTurn DEF IsInTurn
    <3>2. A = -n .. -1
      BY <2>3 DEF AllActive, Denoises
    <3> QED
      BY <2>1, <3>1, <3>2
  <2> QED
    BY <2>2, <2>3
<1> HIDE DEF s, o, n, D, chunk, A
<1>4. DOMAIN chunk.token = D /\ \A p \in D : chunk.claim[p] = p - 1 - n /\ chunk.token[p] = p - 1 - n
  BY <1>1, <1>2
<1>5. \A p \in D : p - 1 - n \in A
  BY <1>3
<1>6. ASSUME NEW t \in A PROVE \E p \in D : p - 1 - n = t
  <2>1. t + 1 + n \in D /\ (t + 1 + n) - 1 - n = t
    BY <1>3
  <2> QED
    BY <2>1
<1>7. \A p, q \in D : p - 1 - n = q - 1 - n => p = q
  BY <1>3
<1>8. Carries(l, chunk, A)
  BY <1>4, <1>5, <1>6, <1>7 DEF Carries
<1> QED
  BY <1>1, <1>8 DEF s, o, n, D, chunk, A

\* A plan of two launches, one of all clean keys and one of denoised keys.
Delivers(l, a, w) ==
  /\ DOMAIN Plan(l, a, w) = 1 .. Turns(l) /\ Len(Plan(l, a, w)) = Turns(l) /\ Turns(l) \in Nat
  /\ \E T : Shared(l, Plan(l, a, w), T) /\ Served(l, a, w, Plan(l, a, w), T)

\* A collective or pure-CP layer delivers each key a row wants in one launch.
LEMMA TwoLaunches ==
  ASSUME NEW l, IsLayer(l), ResponsesGathered(l), l.transport \in {"collective", "pure"},
         NEW a, Dealt(l, a), NEW w \in LayerRanks(l)
  PROVE  Delivers(l, a, w)
<1> DEFINE first == GatheredChunk(l, a, w)
           second == ActiveChunk(l, a, w)
           plan == Plan(l, a, w)
           R == Rows(l, a, w)
           C == 0 .. l.seq - 1
           A == IF l.transport = "pure" THEN AllActive(l) ELSE ActiveSet(l, a, w)
           T == <<C, A>>
<1>1. plan = <<first, second>> /\ Turns(l) = 2
  BY DEF Plan, Turns
<1>2. l.seq \in Nat
  BY DEF IsLayer
<1>3. Carries(l, first, C)
  BY GatheredCarries
<1>4. Carries(l, second, A) /\ second.forward = R /\ second.backward = R
  <2>1. CASE l.transport = "pure"
    <3>1. A = AllActive(l)
      BY <2>1
    <3>2. /\ Carries(l, ActiveChunk(l, a, w), AllActive(l))
          /\ ActiveChunk(l, a, w).forward = Rows(l, a, w)
          /\ ActiveChunk(l, a, w).backward = Rows(l, a, w)
      BY <2>1, SlicesCarry, Zenon
    <3> HIDE DEF A
    <3> QED
      BY <3>1, <3>2
  <2>2. CASE l.transport # "pure"
    BY <2>2, ActiveCarries
  <2> QED
    BY <2>1, <2>2
<1>5. A \subseteq -l.seq .. -1
  <2>1. ActiveSet(l, a, w) \subseteq -l.seq .. -1
    BY Actives DEF IsActive
  <2> QED
    BY <2>1 DEF AllActive
<1>6. first.forward = R /\ (first.backward = R \/ (l.transport = "pure" /\ first.backward = RowsFrom(l, a, w, 0)))
  BY DEF GatheredChunk, Chunk
<1>7. ASSUME NEW r \in R, ~Pads(l, r), NEW t \in Wanted(l, r)
      PROVE  \/ t \in C /\ r \in first.backward
             \/ t \in A
  <2>0. IsRow(l, r)
    BY RowFacts
  <2>1. CASE t \in Context(l, r) /\ t \in C
    <3>1. CASE first.backward = R
      BY <2>1, <3>1
    <3>2. CASE l.transport = "pure" /\ first.backward = RowsFrom(l, a, w, 0)
      <4>1. l.start = 0
        BY <3>2 DEF ResponsesGathered
      <4>2. 0 \in Nat /\ 0 <= t
        BY <2>1
      <4>3. r \in RowsFrom(l, a, w, 0)
        BY <2>1, <4>1, <4>2, RowsBehind
      <4> QED
        BY <2>1, <3>2, <4>3
    <3> QED
      BY <1>6, <3>1, <3>2
  <2>2. CASE t \in Neighbours(l, r) /\ t \in -l.seq .. -1
    <3>1. Denoises(l) /\ (~Pure(l) => t \in ActiveSet(l, a, w))
      BY <2>2, NeighboursHere
    <3>2. l.transport # "pure" => ~Pure(l)
      BY DEF IsLayer, Pure
    <3> QED
      BY <2>2, <3>1, <3>2 DEF AllActive
  <2> QED
    BY <2>0, <2>1, <2>2, WantedFacts
<1>8. RowsFrom(l, a, w, 0) \subseteq R
  BY DEF RowsFrom
<1> HIDE DEF first, second, plan, R, C, A
<1>9. DOMAIN plan = {1, 2} /\ plan[1] = first /\ plan[2] = second /\ T[1] = C /\ T[2] = A /\ DOMAIN T = {1, 2}
      /\ Len(plan) = 2 /\ 1 .. 2 = {1, 2}
  BY <1>1
<1>10. C \subseteq -l.seq .. l.seq - 1 /\ A \subseteq -l.seq .. l.seq - 1 /\ Apart(C, A) /\ Apart(A, C)
  BY <1>2, <1>5 DEF C, Apart
<1> HIDE DEF T
<1>11. Shared(l, plan, T)
  BY <1>3, <1>4, <1>9, <1>10 DEF Shared
<1>12. Served(l, a, w, plan, T)
  <2>1. first.forward = R /\ first.backward \subseteq R
    BY <1>6, <1>8
  <2>2. \A r \in R : ~Pads(l, r) =>
          \A t \in Wanted(l, r) :
            \E c \in {1, 2} : t \in T[c] /\ r \in plan[c].forward /\ r \in plan[c].backward
    BY <1>4, <1>7, <1>9, <2>1
  <2> QED
    BY <1>4, <1>9, <2>1, <2>2 DEF Served, R
<1> QED
  BY <1>1, <1>9, <1>11, <1>12 DEF Delivers, plan

\* One launch of all keys.
LEMMA OneLaunch ==
  ASSUME NEW l, IsLayer(l), l.transport = "full", NEW a, Dealt(l, a), NEW w \in LayerRanks(l)
  PROVE  Delivers(l, a, w)
<1> DEFINE first == GatheredChunk(l, a, w)
           plan == Plan(l, a, w)
           R == Rows(l, a, w)
           C == -l.seq .. l.seq - 1
           T == <<C>>
<1>1. plan = <<first>> /\ Turns(l) = 1
  BY DEF Plan, Turns
<1>2. Carries(l, first, C) /\ first.forward = R /\ first.backward = R
  BY LogicalCarries
<1>3. \A r \in R : \A t \in Wanted(l, r) : t \in C
  BY RowFacts, WantedFacts
<1> HIDE DEF first, plan, R
<1>4. DOMAIN plan = {1} /\ plan[1] = first /\ T[1] = C /\ DOMAIN T = {1} /\ Len(plan) = 1 /\ 1 .. 1 = {1}
  BY <1>1
<1> HIDE DEF T
<1>5. Shared(l, plan, T)
  BY <1>2, <1>4 DEF Shared
<1>6. Served(l, a, w, plan, T)
  BY <1>2, <1>3, <1>4 DEF Served, R
<1> QED
  BY <1>1, <1>4, <1>5, <1>6 DEF Delivers, plan

-----------------------------------------------------------------------------
(* The streaming ring.                                                     *)

\* In n turns, rank r sees every shard once, shard c in turn c - r + n + 1 modulo n.
Turn(n, r, c) == ((c - r + n) % n) + 1

\* Starting with its own, a rank visits every shard in turn.
LEMMA Turning ==
  ASSUME NEW n \in Nat \ {0}, NEW r \in 0 .. n - 1
  PROVE  /\ \A k \in 1 .. n : (r + (k - 1)) % n \in 0 .. n - 1
         /\ \A c \in 0 .. n - 1 : Turn(n, r, c) \in 1 .. n /\ (r + (Turn(n, r, c) - 1)) % n = c
         /\ \A j, k \in 1 .. n : (r + (j - 1)) % n = (r + (k - 1)) % n => j = k
         /\ \A k \in 1 .. n : (r + (k - 1)) % n = r => k = 1
<1>1. ASSUME NEW x \in 0 .. n + n - 1 PROVE x % n = IF x < n THEN x ELSE x - n
  <2>1. x = n * (x \div n) + (x % n) /\ x % n \in 0 .. n - 1 /\ x \div n \in Int
    BY Division
  <2> DEFINE q == x \div n
             m == x % n
             y == IF x < n THEN x ELSE x - n
             u == IF x < n THEN 0 ELSE 1
  <2>2. x = n * u + y /\ y \in 0 .. n - 1 /\ u \in Int
    OBVIOUS
  <2> HIDE DEF q, m, y, u
  <2>3. n * (q - u) = n * q - n * u /\ q - u \in Int /\ n * q \in Int /\ n * u \in Int
    BY <2>1, <2>2 DEF q, m
  <2>4. n * (q - u) = y - m
    BY <2>1, <2>2, <2>3 DEF q, m
  <2>5. n * (q - u) < n /\ -n < n * (q - u)
    BY <2>1, <2>2, <2>4 DEF q, m
  <2>6. q - u = 0
    BY <2>3, <2>5, NoMultipleBetween
  <2>7. y = m
    BY <2>1, <2>2, <2>4, <2>6 DEF m
  <2> QED
    BY <2>7 DEF y, m
<1>2. ASSUME NEW k \in 1 .. n
      PROVE  (r + (k - 1)) % n = IF r + (k - 1) < n THEN r + (k - 1) ELSE r + (k - 1) - n
  <2>1. r + (k - 1) \in 0 .. n + n - 1
    OBVIOUS
  <2> DEFINE x == r + (k - 1)
  <2> HIDE DEF x
  <2>2. x % n = IF x < n THEN x ELSE x - n
    BY <1>1, <2>1 DEF x
  <2>3. x - n = r + (k - 1) - n
    BY DEF x
  <2> QED
    BY <2>2, <2>3 DEF x
<1>3. ASSUME NEW c \in 0 .. n - 1
      PROVE  Turn(n, r, c) = IF c < r THEN c - r + n + 1 ELSE c - r + 1
  <2> DEFINE x == c - r + n
  <2>1. x \in 0 .. n + n - 1
    OBVIOUS
  <2> HIDE DEF x
  <2>2. x % n = IF x < n THEN x ELSE x - n
    BY <1>1, <2>1
  <2>3. x = c - r + n
    BY DEF x
  <2>4. Turn(n, r, c) = (x % n) + 1
    BY DEF Turn, x
  <2> QED
    BY <2>1, <2>2, <2>3, <2>4
<1>4. ASSUME NEW c \in 0 .. n - 1 PROVE Turn(n, r, c) \in 1 .. n
  BY <1>3
<1>5. ASSUME NEW c \in 0 .. n - 1 PROVE (r + (Turn(n, r, c) - 1)) % n = c
  <2> DEFINE k == Turn(n, r, c)
  <2>1. k \in 1 .. n /\ k = IF c < r THEN c - r + n + 1 ELSE c - r + 1
    BY <1>3, <1>4
  <2> HIDE DEF k
  <2>2. (r + (k - 1)) % n = IF r + (k - 1) < n THEN r + (k - 1) ELSE r + (k - 1) - n
    BY <1>2, <2>1
  <2>3. (IF r + (k - 1) < n THEN r + (k - 1) ELSE r + (k - 1) - n) = c
    BY <2>1
  <2> QED
    BY <2>2, <2>3 DEF k
<1>6. ASSUME NEW j \in 1 .. n, NEW k \in 1 .. n, (r + (j - 1)) % n = (r + (k - 1)) % n PROVE j = k
  <2>1. (IF r + (j - 1) < n THEN r + (j - 1) ELSE r + (j - 1) - n)
          = IF r + (k - 1) < n THEN r + (k - 1) ELSE r + (k - 1) - n
    BY <1>2, <1>6
  <2> QED
    BY <2>1
<1>7. ASSUME NEW k \in 1 .. n, (r + (k - 1)) % n = r PROVE k = 1
  <2>1. (IF r + (k - 1) < n THEN r + (k - 1) ELSE r + (k - 1) - n) = r
    BY <1>2, <1>7
  <2> QED
    BY <2>1
<1>8. ASSUME NEW k \in 1 .. n PROVE (r + (k - 1)) % n \in 0 .. n - 1
  <2>1. (IF r + (k - 1) < n THEN r + (k - 1) ELSE r + (k - 1) - n) \in 0 .. n - 1
    OBVIOUS
  <2> QED
    BY <1>2, <2>1
<1> QED
  BY <1>4, <1>5, <1>6, <1>7, <1>8

\* A rank knows where the keys of a shard are and where the shard begins.
LEMMA ShardKnown ==
  ASSUME NEW l, IsLayer(l), l.transport # "full", NEW c \in Places(l)
  PROVE  /\ Owned(l, c) = Tokens(OwnerShards(l, c))
         /\ OwnerClaims(l, c) = Owned(l, c)
         /\ OwnerShards(l, c)[1][1] \in Nat
         /\ \A t \in OwnedSet(l, c) : OwnerShards(l, c)[1][1] <= t
<1>1. Owned(l, c) = Tokens(OwnerShards(l, c))
  BY DEF Owned
<1>2. /\ l.cp \in Nat \ {0} /\ l.seq \in Nat /\ c \in 0 .. l.cp - 1
      /\ OwnedSet(l, c) = ShardSet(RuntimeLayout(l), l.cp, l.seq, c)
  BY DEF IsLayer, Places, OwnedSet
<1>3. IsShard(Owned(l, c), OwnedSet(l, c), OwnerShards(l, c))
  BY <1>1, <1>2, ShardLists DEF OwnerShards
<1>4. OwnerClaims(l, c) = Owned(l, c)
  <2> DEFINE s == Owned(l, c)
             sh == OwnerShards(l, c)
             S == OwnedSet(l, c)
             at(k) == IF Len(sh) = 1 \/ k <= sh[1][2] - sh[1][1] THEN sh[1][1] + k - 1
                      ELSE sh[2][1] + k - 1 - (sh[1][2] - sh[1][1])
  <2>1. OwnerClaims(l, c) = [k \in DOMAIN s |-> at(k)]
    BY DEF OwnerClaims
  <2>2. Lists(s, S) /\ \A k \in 1 .. Len(s) : s[k] = at(k)
    BY <1>3 DEF IsShard
  <2> HIDE DEF s, sh, S, at
  <2>3. DOMAIN s = 1 .. Len(s) /\ s \in Seq(S)
    BY <2>2, ListFacts DEF Lists
  <2>4. s = [k \in DOMAIN s |-> s[k]]
    BY <2>3
  <2>5. \A k \in DOMAIN s : s[k] = at(k)
    BY <2>2, <2>3
  <2> QED
    BY <2>1, <2>4, <2>5 DEF s
<1> DEFINE m == ChunkCount(RuntimeLayout(l), l.cp)
<1>5. m \in Nat \ {0} /\ c \in 0 .. m - 1
  BY <1>2 DEF ChunkCount
<1>6. OwnerShards(l, c)[1][1] = Bound(l.seq, m, c)
  BY DEF OwnerShards, Shards, ChunkCount
<1>7. ASSUME NEW t \in OwnedSet(l, c) PROVE Bound(l.seq, m, c) <= t
  <2>1. PICK k \in ShardChunks(RuntimeLayout(l), l.cp, c) : t \in ChunkSet(l.seq, m, k)
    BY <1>2 DEF ShardSet
  <2>2. k \in 0 .. m - 1 /\ c <= k
    BY <1>2, <2>1 DEF ShardChunks, ChunkCount
  <2>3. t \in Bound(l.seq, m, k) .. Bound(l.seq, m, k + 1) - 1
    BY <2>1 DEF ChunkSet
  <2> HIDE DEF m
  <2>4. c \in 0 .. m /\ k \in 0 .. m /\ k + 1 \in 0 .. m
    BY <1>5, <2>2
  <2>5. /\ Bound(l.seq, m, c) \in Nat /\ Bound(l.seq, m, k) \in Nat /\ Bound(l.seq, m, k + 1) \in Nat
        /\ Bound(l.seq, m, c) <= Bound(l.seq, m, k)
    BY <1>2, <1>5, <2>2, <2>4, Bounded
  <2> QED
    BY <2>3, <2>5
<1>8. Bound(l.seq, m, c) \in Nat
  <2> HIDE DEF m
  <2>1. c \in 0 .. m
    BY <1>5
  <2> QED
    BY <1>2, <1>5, <2>1, Bounded
<1> QED
  BY <1>1, <1>4, <1>6, <1>7, <1>8

\* Clean and denoised tokens of a rank, one list after the other.
LEMMA BothLists ==
  ASSUME NEW l, IsLayer(l), l.transport # "full", NEW a, Dealt(l, a), NEW w \in LayerRanks(l),
         NEW S, S \subseteq 0 .. l.seq - 1, NEW s, Lists(s, S)
  PROVE  /\ Lists(s \o ActiveShard(l, a, w), S \union ActiveSet(l, a, w))
         /\ Follows(s, ActiveShard(l, a, w), s \o ActiveShard(l, a, w))
         /\ S \union ActiveSet(l, a, w) \subseteq -l.seq .. l.seq - 1
<1>1. Lists(ActiveShard(l, a, w), ActiveSet(l, a, w)) /\ ActiveSet(l, a, w) \subseteq -l.seq .. -1
  BY Actives DEF IsActive
<1>2. l.seq \in Nat
  BY DEF IsLayer
<1>3. Apart(S, ActiveSet(l, a, w))
  BY <1>1, <1>2 DEF Apart
<1>4. S \union ActiveSet(l, a, w) \subseteq -l.seq .. l.seq - 1
  <2> DEFINE n == l.seq
             A == ActiveSet(l, a, w)
  <2>1. n \in Nat /\ S \subseteq 0 .. n - 1 /\ A \subseteq -n .. -1
    BY <1>1, <1>2
  <2> HIDE DEF n, A
  <2>2. \A x \in 0 .. n - 1 : x \in -n .. n - 1
    BY <2>1
  <2>3. \A x \in -n .. -1 : x \in -n .. n - 1
    BY <2>1
  <2>4. S \union A \subseteq -n .. n - 1
    BY <2>1, <2>2, <2>3
  <2> QED
    BY <2>4 DEF n, A
<1>5. /\ Lists(s \o ActiveShard(l, a, w), S \union ActiveSet(l, a, w))
      /\ Follows(s, ActiveShard(l, a, w), s \o ActiveShard(l, a, w))
  BY <1>1, <1>3, JoinLists, Zenon
<1> QED
  BY <1>4, <1>5

\* One turn of the ring.
TurnSet(l, a, w, c) == OwnedSet(l, c) \union (IF c = ContextRank(l, w) THEN ActiveSet(l, a, w) ELSE {})

\* What a turn of the streaming ring carries, and for which rows.
LEMMA TurnCarries ==
  ASSUME NEW l, IsLayer(l), l.transport = "streaming", NEW a, Dealt(l, a), NEW w \in LayerRanks(l),
         NEW c \in Places(l)
  PROVE  LET chunk == OwnerChunk(l, a, w, c)
         IN /\ Carries(l, chunk, TurnSet(l, a, w, c))
            /\ TurnSet(l, a, w, c) \subseteq -l.seq .. l.seq - 1
            /\ chunk.backward = chunk.forward
            /\ chunk.forward = Rows(l, a, w)
               \/ chunk.forward = RowsFrom(l, a, w, OwnerShards(l, c)[1][1])
            /\ c = ContextRank(l, w) /\ l.pass # "clean" =>
                 chunk.forward = Rows(l, a, w) /\ chunk.token = Owned(l, c) \o ActiveShard(l, a, w)
            /\ c # ContextRank(l, w) \/ l.pass = "clean" => chunk.token = Owned(l, c)
<1> DEFINE local == c = ContextRank(l, w) /\ l.pass # "clean"
           rows == IF local THEN Rows(l, a, w) ELSE RowsFrom(l, a, w, OwnerShards(l, c)[1][1])
           s == Owned(l, c)
           t == ActiveShard(l, a, w)
           chunk == OwnerChunk(l, a, w, c)
           S == OwnedSet(l, c)
           A == ActiveSet(l, a, w)
           TS == TurnSet(l, a, w, c)
<1>0. l.transport # "full"
  OBVIOUS
<1>1. Held(l, Peer(l, w, c)) = s
  BY PeersOf
<1>2. Tokens(OwnerShards(l, c)) = s /\ OwnerClaims(l, c) = s
  BY <1>0, ShardKnown
<1>3. chunk = LET ch == Chunk(IF local \/ l.pass # "packed" THEN Tokens(OwnerShards(l, c))
                               ELSE OwnerClaims(l, c), Held(l, Peer(l, w, c)), rows, rows)
               IN IF local THEN WithActive(l, a, w, ch) ELSE ch
  BY DEF OwnerChunk
<1>4. chunk = IF local THEN WithActive(l, a, w, Chunk(s, s, rows, rows)) ELSE Chunk(s, s, rows, rows)
  BY <1>1, <1>2, <1>3
<1>5. First(l) = 0 /\ Lists(s, S) /\ S \subseteq 0 .. l.seq - 1
  BY <1>0, OwnedLists, OwnedOnce DEF First
<1>6. Lists(s \o t, S \union A) /\ S \union A \subseteq -l.seq .. l.seq - 1
  BY <1>0, <1>5, BothLists
<1>7. CASE local
  <2>1. chunk.claim = s \o t /\ chunk.token = s \o t /\ chunk.forward = Rows(l, a, w) /\ chunk.backward = Rows(l, a, w)
    BY <1>4, <1>7 DEF WithActive, Chunk
  <2>2. TS = S \union A
    BY <1>7 DEF TurnSet
  <2> DEFINE u == s \o t
             U == S \union A
  <2> HIDE DEF s, t, chunk, S, A, TS, u, U
  <2>3. Carries(l, chunk, U)
    BY <1>6, <2>1, ListCarries DEF u, U
  <2> QED
    BY <1>6, <1>7, <2>1, <2>2, <2>3 DEF s, t, chunk, TS, U
<1>8. CASE ~local
  <2>1. chunk.claim = s /\ chunk.token = s /\ chunk.forward = RowsFrom(l, a, w, OwnerShards(l, c)[1][1])
        /\ chunk.backward = RowsFrom(l, a, w, OwnerShards(l, c)[1][1])
    BY <1>4, <1>8 DEF Chunk
  <2>2. TS = S
    <3>1. CASE c # ContextRank(l, w)
      BY <3>1 DEF TurnSet
    <3>2. CASE l.pass = "clean"
      <4>1. A = {}
        BY <3>2, NoActives DEF Denoises
      <4> QED
        BY <4>1 DEF TurnSet
    <3> QED
      BY <1>8, <3>1, <3>2
  <2> HIDE DEF s, t, chunk, S, A, TS
  <2>3. Carries(l, chunk, S)
    BY <1>5, <2>1, ListCarries
  <2> QED
    BY <1>6, <1>8, <2>1, <2>2, <2>3 DEF s, t, chunk, TS
<1> QED
  BY <1>7, <1>8
\* A streaming layer delivers each key a row wants in one turn.
LEMMA StreamingLaunches ==
  ASSUME NEW l, IsLayer(l), ResponsesGathered(l), l.transport = "streaming",
         NEW a, Dealt(l, a), NEW w \in LayerRanks(l)
  PROVE  Delivers(l, a, w)
<1> DEFINE n == l.cp
           r0 == ContextRank(l, w)
           At(k) == (r0 + (k - 1)) % n
           plan == Plan(l, a, w)
           R == Rows(l, a, w)
           T == [k \in 1 .. n |-> TurnSet(l, a, w, At(k))]
           Start(c) == OwnerShards(l, c)[1][1]
<1>1. n \in Nat \ {0} /\ r0 \in 0 .. n - 1 /\ Places(l) = 0 .. n - 1 /\ l.start = 0 /\ l.seq \in Nat
  <2>1. r0 \in Places(l)
    BY Placing DEF IsPlaced
  <2> QED
    BY <2>1 DEF IsLayer, Places, ResponsesGathered
<1>2. /\ \A k \in 1 .. n : At(k) \in 0 .. n - 1
      /\ \A c \in 0 .. n - 1 : Turn(n, r0, c) \in 1 .. n /\ At(Turn(n, r0, c)) = c
      /\ \A j, k \in 1 .. n : At(j) = At(k) => j = k
  <2> HIDE DEF n, r0
  <2>1. /\ \A k \in 1 .. n : (r0 + (k - 1)) % n \in 0 .. n - 1
        /\ \A c \in 0 .. n - 1 : Turn(n, r0, c) \in 1 .. n /\ (r0 + (Turn(n, r0, c) - 1)) % n = c
        /\ \A j, k \in 1 .. n : (r0 + (j - 1)) % n = (r0 + (k - 1)) % n => j = k
    <3>1. n \in Nat \ {0} /\ r0 \in 0 .. n - 1
      BY <1>1
    <3> QED
      BY <3>1, Turning, Zenon
  <2> QED
    BY <2>1, Zenon
<1>3. plan = [k \in 1 .. n |-> OwnerChunk(l, a, w, At(k))] /\ Turns(l) = n
  BY DEF Plan, Turns
<1> HIDE DEF n, r0, At, plan
<1>4. DOMAIN plan = 1 .. n /\ Len(plan) = n /\ DOMAIN T = 1 .. n
      /\ \A k \in 1 .. n : plan[k] = OwnerChunk(l, a, w, At(k)) /\ T[k] = TurnSet(l, a, w, At(k))
  <2>1. DOMAIN plan = 1 .. n /\ \A k \in 1 .. n : plan[k] = OwnerChunk(l, a, w, At(k))
    BY <1>3
  <2>2. Len(plan) = n
    BY <1>1, <1>3
  <2> QED
    BY <2>1, <2>2
<1> HIDE DEF T
<1>5. ASSUME NEW k \in 1 .. n
      PROVE  /\ Carries(l, plan[k], T[k]) /\ T[k] \subseteq -l.seq .. l.seq - 1
             /\ plan[k].backward = plan[k].forward
             /\ plan[k].forward = R \/ plan[k].forward = RowsFrom(l, a, w, Start(At(k)))
             /\ At(k) = r0 /\ l.pass # "clean" => plan[k].forward = R
  <2>1. At(k) \in Places(l)
    BY <1>1, <1>2
  <2> QED
    BY <1>4, <2>1, TurnCarries DEF r0
<1>6. ASSUME NEW j \in 1 .. n, NEW k \in 1 .. n, j # k
      PROVE  Apart(T[j], T[k])
  <2> DEFINE c == At(j)
             d == At(k)
  <2>1. c \in Places(l) /\ d \in Places(l) /\ c # d
    BY <1>1, <1>2, <1>6
  <2> HIDE DEF c, d
  <2>2. /\ OwnedSet(l, c) \subseteq 0 .. l.seq - 1 /\ OwnedSet(l, d) \subseteq 0 .. l.seq - 1
        /\ OwnedSet(l, c) \cap OwnedSet(l, d) = {}
    BY <2>1, OwnedOnce DEF Apart, First
  <2>3. ActiveSet(l, a, w) \subseteq -l.seq .. -1
    BY Actives DEF IsActive
  <2>4. ActiveSet(l, a, w) \cap (0 .. l.seq - 1) = {}
    BY <1>1, <2>3
  <2>5. TurnSet(l, a, w, c) \cap TurnSet(l, a, w, d) = {}
    BY <2>1, <2>2, <2>4 DEF TurnSet
  <2> QED
    BY <1>4, <2>5 DEF Apart, c, d
<1>7. Shared(l, plan, T)
  BY <1>4, <1>5, <1>6 DEF Shared
<1>8. ASSUME NEW r \in R, ~Pads(l, r), NEW t \in Wanted(l, r)
      PROVE  \E k \in 1 .. n : t \in T[k] /\ r \in plan[k].forward
  <2>0. IsRow(l, r)
    BY RowFacts
  <2>1. CASE t \in Context(l, r) /\ t \in 0 .. l.seq - 1
    <3>1. PICK c \in Places(l) : t \in OwnedSet(l, c)
      BY <2>1, OwnedOnce DEF First
    <3> DEFINE k == Turn(n, r0, c)
    <3>2. k \in 1 .. n /\ At(k) = c
      BY <1>1, <1>2
    <3> HIDE DEF k
    <3>3. t \in T[k]
      BY <1>4, <3>1, <3>2 DEF TurnSet
    <3>4. Start(c) \in Nat /\ Start(c) <= t
      BY <3>1, ShardKnown
    <3> HIDE DEF Start
    <3>5. r \in RowsFrom(l, a, w, Start(c))
      BY <1>1, <2>1, <3>4, RowsBehind
    <3> QED
      BY <1>5, <3>2, <3>3, <3>5
  <2>2. CASE t \in Neighbours(l, r) /\ t \in -l.seq .. -1
    <3>1. ~Pure(l)
      BY DEF IsLayer, Pure
    <3>2. Denoises(l) /\ t \in ActiveSet(l, a, w)
      BY <2>2, <3>1, NeighboursHere
    <3> DEFINE k == Turn(n, r0, r0)
    <3>3. k \in 1 .. n /\ At(k) = r0
      BY <1>1, <1>2
    <3> HIDE DEF k
    <3>4. t \in T[k]
      BY <1>4, <3>2, <3>3 DEF TurnSet, r0
    <3> QED
      BY <1>5, <3>2, <3>3, <3>4 DEF Denoises
  <2> QED
    BY <2>0, <2>1, <2>2, WantedFacts
<1>9. \A k \in 1 .. n : plan[k].forward \subseteq R
  <2>1. \A c : RowsFrom(l, a, w, Start(c)) \subseteq R
    BY DEF RowsFrom
  <2> HIDE DEF Start
  <2> QED
    BY <1>5, <2>1
<1>10. Served(l, a, w, plan, T)
  <2>1. \A k \in 1 .. n : plan[k].backward = plan[k].forward
    BY <1>5
  <2> QED
    BY <1>4, <1>8, <1>9, <2>1 DEF Served, R
<1> QED
  BY <1>1, <1>3, <1>4, <1>7, <1>10 DEF Delivers, plan

-----------------------------------------------------------------------------
(* The windowed exchange.                                                  *)

\* The entries of an ascending list that are in R, in their order.
IsChosen(S, s, R, ind) ==
  /\ S \in SUBSET Int /\ IsFiniteSet(S) /\ Lists(s, S) /\ Climbs(s)
  /\ ind = Ascending({k \in DOMAIN s : s[k] \in R})
IsSelected(S, s, R, ind) ==
  /\ [k \in DOMAIN ind |-> s[ind[k]]] = Ascending(S \cap R)
  /\ Len(ind) = Len(Ascending(S \cap R))
  /\ Lists(ind, {k \in DOMAIN s : s[k] \in R})

\* The offsets of chosen tokens in a climbing list are their places in it.
LEMMA Selected ==
  ASSUME NEW S, NEW s, NEW R, NEW ind, IsChosen(S, s, R, ind)
  PROVE  IsSelected(S, s, R, ind)
<1> DEFINE I == {k \in DOMAIN s : s[k] \in R}
           m == Len(ind)
           t == [k \in DOMAIN ind |-> s[ind[k]]]
           Q == S \cap R
<1>0. /\ S \in SUBSET Int /\ IsFiniteSet(S) /\ Lists(s, S) /\ Climbs(s)
      /\ ind = Ascending({k \in DOMAIN s : s[k] \in R})
  BY DEF IsChosen
<1>1. /\ Len(s) \in Nat /\ DOMAIN s = 1 .. Len(s) /\ (\A k \in 1 .. Len(s) : s[k] \in S)
      /\ (\A x \in S : \E k \in 1 .. Len(s) : s[k] = x)
      /\ (\A j, k \in 1 .. Len(s) : s[j] = s[k] => j = k)
  BY <1>0, ListFacts DEF Lists
<1>2. I \in SUBSET Int /\ IsFiniteSet(I) /\ I \subseteq 1 .. Len(s)
  <2>1. I \subseteq 1 .. Len(s)
    BY <1>1
  <2>2. IsFiniteSet(1 .. Len(s))
    BY <1>1, FS_Interval
  <2>3. 1 .. Len(s) \subseteq Int
    OBVIOUS
  <2> HIDE DEF I
  <2> QED
    BY <2>1, <2>2, <2>3, FS_Subset
<1>3. Lists(ind, I) /\ Climbs(ind)
  <2> HIDE DEF I
  <2>1. ind = Ascending(I)
    BY <1>0 DEF I
  <2> QED
    BY <1>2, <2>1, AscendingLists, AscendingClimbs
<1>4. /\ m \in Nat /\ DOMAIN ind = 1 .. m /\ (\A k \in 1 .. m : ind[k] \in I)
      /\ (\A x \in I : \E k \in 1 .. m : ind[k] = x)
      /\ (\A j, k \in 1 .. m : ind[j] = ind[k] => j = k)
  <2> HIDE DEF I
  <2>1. Len(ind) \in Nat /\ DOMAIN ind = 1 .. Len(ind) /\ \A k \in 1 .. Len(ind) : ind[k] \in I
    BY <1>3, ListFacts
  <2>2. /\ \A x \in I : \E k \in 1 .. Len(ind) : ind[k] = x
        /\ \A j, k \in 1 .. Len(ind) : ind[j] = ind[k] => j = k
    BY <1>3 DEF Lists
  <2> QED
    BY <2>1, <2>2
<1>5. \A k \in 1 .. m : ind[k] \in 1 .. Len(s) /\ s[ind[k]] \in Q
  BY <1>1, <1>4
<1>6. Climbs(t) /\ Len(t) = m /\ t \in Seq(Q)
  <2>1. t \in [1 .. m -> Q]
    BY <1>4, <1>5
  <2>2. t \in Seq(Q) /\ Len(t) = m
    <3> HIDE DEF t, Q, m
    <3> QED
      BY <1>4, <2>1
  <2>3. ASSUME NEW j \in 1 .. m, NEW k \in 1 .. m, j < k PROVE t[j] < t[k]
    <3>1. ind[j] < ind[k]
      BY <1>3, <2>3 DEF Climbs
    <3>2. s[ind[j]] < s[ind[k]]
      BY <1>0, <1>5, <3>1 DEF Climbs
    <3> QED
      BY <1>4, <3>2
  <2> HIDE DEF t
  <2> QED
    BY <2>2, <2>3 DEF Climbs
<1>7. \A k \in 1 .. m : t[k] = s[ind[k]]
  BY <1>4
<1>8. ASSUME NEW x \in Q PROVE \E k \in 1 .. m : t[k] = x
  <2>1. PICK e \in 1 .. Len(s) : s[e] = x
    BY <1>1
  <2>2. e \in I
    BY <1>1, <2>1
  <2>3. PICK k \in 1 .. m : ind[k] = e
    BY <1>4, <2>2
  <2> QED
    BY <1>7, <2>1, <2>3
<1>9. ASSUME NEW j \in 1 .. m, NEW k \in 1 .. m, t[j] = t[k] PROVE j = k
  BY <1>1, <1>4, <1>5, <1>7, <1>9
<1> HIDE DEF t, I, m
<1>10. Q \in SUBSET Int /\ IsFiniteSet(Q)
  <2>1. Q \subseteq S
    OBVIOUS
  <2> HIDE DEF Q
  <2> QED
    BY <1>0, <2>1, FS_Subset
<1> HIDE DEF Q
<1>11. Lists(t, Q)
  BY <1>6, <1>8, <1>9 DEF Lists
<1>12. t = Ascending(Q)
  BY <1>6, <1>10, <1>11, OneAscending
<1> QED
  BY <1>3, <1>6, <1>12 DEF t, Q, I, m, IsSelected

\* Lists of sets that have nothing in common, and all of them as one.
Lengths(seqs) == [n \in DOMAIN seqs |-> Len(seqs[n])]
ArePart(seqs, P, N, X) ==
  /\ seqs = [n \in 1 .. N |-> seqs[n]]
  /\ \A n \in 1 .. N : Lists(seqs[n], P[n]) /\ P[n] \subseteq X
  /\ \A m, n \in 1 .. N : m # n => Apart(P[m], P[n])
IsFlat(s, seqs, N) ==
  /\ Lengths(seqs) \in Seq(Nat) /\ Len(Lengths(seqs)) = N
  /\ Len(s) = SumOf(Lengths(seqs), N)
  /\ \A m \in 1 .. N : \A j \in 1 .. Len(seqs[m]) :
       /\ SumOf(Lengths(seqs), m - 1) + j \in 1 .. Len(s)
       /\ s[SumOf(Lengths(seqs), m - 1) + j] = seqs[m][j]

\* Lists of sets with nothing in common, flattened, list their union.
LEMMA FlattenLists ==
  ASSUME NEW N \in Nat \ {0}, NEW X, NEW seqs, NEW P, ArePart(seqs, P, N, X)
  PROVE  /\ Lists(FlattenSeq(seqs), UNION {P[n] : n \in 1 .. N})
         /\ IsFlat(FlattenSeq(seqs), seqs, N)
<1> DEFINE z == Lengths(seqs)
           s == FlattenSeq(seqs)
           S(n) == SumOf(z, n)
           U == UNION {P[n] : n \in 1 .. N}
<1>1. \A n \in 1 .. N : /\ seqs[n] \in Seq(P[n]) /\ Len(seqs[n]) \in Nat /\ P[n] \subseteq U
                        /\ \A k \in 1 .. Len(seqs[n]) : seqs[n][k] \in P[n]
                        /\ \A x \in P[n] : \E k \in 1 .. Len(seqs[n]) : seqs[n][k] = x
                        /\ \A j, k \in 1 .. Len(seqs[n]) : seqs[n][j] = seqs[n][k] => j = k
  BY ListFacts DEF ArePart, Lists
<1>2. seqs \in Seq(Seq(U)) /\ Len(seqs) = N /\ DOMAIN seqs = 1 .. N
  <2>1. seqs = [n \in 1 .. N |-> seqs[n]]
    BY DEF ArePart
  <2>2. ASSUME NEW n \in 1 .. N PROVE seqs[n] \in Seq(U)
    <3>1. seqs[n] \in Seq(P[n]) /\ P[n] \subseteq U
      BY <1>1
    <3> HIDE DEF U
    <3> QED
      BY <3>1
  <2> DEFINE T == Seq(U)
  <2> HIDE DEF T, U
  <2>3. seqs \in [1 .. N -> T]
    BY <2>1, <2>2 DEF T
  <2>4. seqs \in Seq(T) /\ Len(seqs) = N
    BY <2>3
  <2> QED
    BY <2>3, <2>4 DEF T
<1>3. z \in Seq(Nat) /\ Len(z) = N /\ \A n \in 1 .. N : z[n] = Len(seqs[n])
  <2>1. z = [n \in 1 .. N |-> Len(seqs[n])]
    BY <1>2 DEF Lengths
  <2>2. z \in [1 .. N -> Nat]
    BY <1>1, <2>1
  <2> HIDE DEF z
  <2> QED
    BY <2>1, <2>2
<1> HIDE DEF z, U
<1>4. /\ s \in Seq(U) /\ Len(s) = S(N)
      /\ \A m \in 1 .. N : \A j \in 1 .. z[m] : s[S(m - 1) + j] = seqs[m][j]
  <2> HIDE DEF s
  <2>0. Len(seqs) # 0 /\ (\A n \in 1 .. Len(seqs) : z[n] = Len(seqs[n])) /\ Len(z) = Len(seqs)
    BY <1>2, <1>3
  <2>1. /\ FlattenSeq(seqs) \in Seq(U)
        /\ Len(FlattenSeq(seqs)) = SumOf(z, Len(z))
        /\ \A m \in 1 .. Len(z) : \A j \in 1 .. z[m] :
             FlattenSeq(seqs)[SumOf(z, m - 1) + j] = seqs[m][j]
    BY <1>2, <1>3, <2>0, Flattened
  <2> QED
    BY <1>3, <2>1 DEF s
<1> HIDE DEF s
<1>5. /\ \A n \in 0 .. N : S(n) \in Nat
      /\ \A n \in 1 .. N : S(n) = S(n - 1) + z[n] /\ S(n) <= S(N)
  <2>1. ASSUME NEW n \in 1 .. N PROVE S(n) <= S(N)
    <3>1. n \in 0 .. Len(z) /\ N \in n .. Len(z)
      BY <1>3
    <3> QED
      BY <1>3, <3>1, SumsGrow
  <2> QED
    BY <1>3, <2>1, Sums
<1>6. ASSUME NEW p \in 1 .. S(N)
      PROVE  \E m \in 1 .. N : \E j \in 1 .. z[m] : p = S(m - 1) + j
  BY <1>3, PartOf
<1> HIDE DEF S
<1>7. ASSUME NEW m \in 1 .. N, NEW j \in 1 .. z[m] PROVE S(m - 1) + j \in 1 .. Len(s)
  <2>1. S(m - 1) \in Nat /\ S(m) = S(m - 1) + z[m] /\ S(m) <= S(N) /\ S(N) \in Nat /\ z[m] \in Nat
    BY <1>1, <1>3, <1>5
  <2> QED
    BY <1>4, <2>1
<1>8. ASSUME NEW x \in U PROVE \E k \in 1 .. Len(s) : s[k] = x
  <2>1. PICK n \in 1 .. N : x \in P[n]
    BY DEF U
  <2>2. PICK j \in 1 .. z[n] : seqs[n][j] = x
    BY <1>1, <1>3, <2>1
  <2> QED
    BY <1>4, <1>7, <2>2
<1>9. ASSUME NEW p \in 1 .. Len(s), NEW q \in 1 .. Len(s), s[p] = s[q] PROVE p = q
  <2>1. PICK m \in 1 .. N : \E j \in 1 .. z[m] : p = S(m - 1) + j
    BY <1>4, <1>6
  <2>2. PICK j \in 1 .. z[m] : p = S(m - 1) + j
    BY <2>1
  <2>3. PICK n \in 1 .. N : \E k \in 1 .. z[n] : q = S(n - 1) + k
    BY <1>4, <1>6
  <2>4. PICK k \in 1 .. z[n] : q = S(n - 1) + k
    BY <2>3
  <2>5. s[p] = seqs[m][j] /\ s[q] = seqs[n][k]
    BY <1>4, <2>2, <2>4
  <2>6. seqs[m][j] \in P[m] /\ seqs[n][k] \in P[n]
    BY <1>1, <1>3
  <2>7. m = n
    BY <1>9, <2>5, <2>6 DEF ArePart, Apart
  <2>8. seqs[m][j] = seqs[m][k] /\ j \in 1 .. Len(seqs[m]) /\ k \in 1 .. Len(seqs[m])
    BY <1>3, <1>9, <2>5, <2>7
  <2>9. j = k
    BY <1>1, <2>8
  <2> QED
    BY <2>2, <2>4, <2>7, <2>9
<1>10. Lists(s, U)
  BY <1>4, <1>8, <1>9 DEF Lists
<1>11. IsFlat(s, seqs, N)
  <2>1. \A m \in 1 .. N : \A j \in 1 .. Len(seqs[m]) : S(m - 1) + j \in 1 .. Len(s) /\ s[S(m - 1) + j] = seqs[m][j]
    BY <1>3, <1>4, <1>7
  <2> QED
    BY <1>3, <1>4, <2>1 DEF IsFlat, z, S
<1> QED
  BY <1>10, <1>11 DEF s, U

\* The plan is about the shards the ranks hold.
LEMMA PlannedShards ==
  ASSUME NEW l, IsLayer(l), l.transport = "windowed", NEW c \in Places(l)
  PROVE  /\ PlanShard(l, c) = Owned(l, c) /\ Lists(Owned(l, c), OwnedSet(l, c)) /\ Climbs(Owned(l, c))
         /\ OwnedSet(l, c) \in SUBSET Int /\ IsFiniteSet(OwnedSet(l, c))
         /\ OwnedSet(l, c) \subseteq 0 .. l.seq - 1
         /\ OwnedSet(l, c) = ShardSet("dual_chunk", l.cp, l.seq, c)
         /\ Range(PlanShard(l, c)) = OwnedSet(l, c)
<1>1. RuntimeLayout(l) = "dual_chunk" /\ l.transport # "full" /\ First(l) = 0
  BY DEF IsLayer, RuntimeLayout, Pure, First
<1>2. PlanShard(l, c) = Owned(l, c) /\ Owned(l, c) = Tokens(Shards(l, "dual_chunk", l.seq, c))
      /\ OwnedSet(l, c) = ShardSet("dual_chunk", l.cp, l.seq, c)
  BY <1>1 DEF PlanShard, Owned, OwnerShards, OwnedSet
<1>3. l.cp \in Nat \ {0} /\ l.seq \in Nat /\ c \in 0 .. l.cp - 1
  BY DEF IsLayer, Places
<1>4. IsShard(Owned(l, c), OwnedSet(l, c), Shards(l, "dual_chunk", l.seq, c))
  BY <1>2, <1>3, ShardLists
<1>5. Lists(Owned(l, c), OwnedSet(l, c)) /\ Climbs(Owned(l, c))
  BY <1>4 DEF IsShard, Climbs
<1>6. OwnedSet(l, c) \subseteq 0 .. l.seq - 1
  BY <1>1, OwnedOnce
<1>7. IsFiniteSet(0 .. l.seq - 1) /\ 0 .. l.seq - 1 \subseteq Int
  <2>1. 0 \in Int /\ l.seq - 1 \in Int
    BY <1>3
  <2>2. IsFiniteSet(0 .. l.seq - 1)
    BY <2>1, FS_Interval
  <2> QED
    BY <2>2
<1>8. IsFiniteSet(OwnedSet(l, c)) /\ OwnedSet(l, c) \in SUBSET Int
  BY <1>6, <1>7, FS_Subset
<1>9. Range(PlanShard(l, c)) = OwnedSet(l, c)
  BY <1>2, <1>5, ListFacts
<1> QED
  BY <1>2, <1>5, <1>6, <1>8, <1>9

\* What w needs of the shard of context rank c.
Needed(l, a, w, c) == OwnedSet(l, c) \cap Required(l, a, w)

\* What is sent is what is expected.
LEMMA SentAsExpected ==
  ASSUME NEW l, IsLayer(l), l.transport = "windowed", NEW a, NEW w, NEW v \in LayerRanks(l)
  PROVE  /\ Sent(l, a, v, w) = Expected(l, a, w, ContextRank(l, v))
         /\ Len(SendIndices(l, a, v, w)) = Len(Expected(l, a, w, ContextRank(l, v)))
         /\ Lists(SendIndices(l, a, v, w), {k \in DOMAIN Held(l, v) : Held(l, v)[k] \in Required(l, a, w)})
<1> DEFINE c == ContextRank(l, v)
           s == Owned(l, c)
           S == OwnedSet(l, c)
           R == Required(l, a, w)
           ind == SendIndices(l, a, v, w)
<1>1. c \in Places(l)
  BY Placing DEF IsPlaced
<1>2. PlanShard(l, c) = s /\ Lists(s, S) /\ Climbs(s) /\ S \in SUBSET Int /\ IsFiniteSet(S)
      /\ Range(PlanShard(l, c)) = S
  BY <1>1, PlannedShards
<1>3. ind = Ascending({k \in DOMAIN s : s[k] \in R})
  BY <1>2 DEF SendIndices
<1>4. Held(l, v) = s
  BY DEF Held
<1>5. Sent(l, a, v, w) = [k \in DOMAIN ind |-> s[ind[k]]]
  BY <1>4 DEF Sent
<1>6. Expected(l, a, w, c) = Ascending(S \cap R)
  BY <1>2 DEF Expected
<1> HIDE DEF c, s, S, R, ind
<1>7. IsSelected(S, s, R, ind)
  <2>1. IsChosen(S, s, R, ind)
    BY <1>2, <1>3 DEF IsChosen
  <2> QED
    BY <2>1, Selected
<1> QED
  BY <1>4, <1>5, <1>6, <1>7 DEF c, s, R, ind, IsSelected

\* What a rank expects of an owner is what it needs of it, each token once.
LEMMA ExpectedLists ==
  ASSUME NEW l, IsLayer(l), l.transport = "windowed", NEW a, NEW w, NEW c \in Places(l)
  PROVE  /\ Lists(Expected(l, a, w, c), Needed(l, a, w, c)) /\ Needed(l, a, w, c) \subseteq 0 .. l.seq - 1
         /\ Needed(l, a, w, c) = OwnedSet(l, c) => Expected(l, a, w, c) = Owned(l, c)
<1> DEFINE S == OwnedSet(l, c)
           N == Needed(l, a, w, c)
<1>1. /\ Lists(Owned(l, c), S) /\ Climbs(Owned(l, c)) /\ S \in SUBSET Int /\ IsFiniteSet(S)
      /\ S \subseteq 0 .. l.seq - 1 /\ Range(PlanShard(l, c)) = S
  BY PlannedShards
<1>2. Expected(l, a, w, c) = Ascending(N) /\ N \subseteq S
  BY <1>1 DEF Expected, Needed
<1> HIDE DEF S, N
<1>3. N \in SUBSET Int /\ IsFiniteSet(N)
  BY <1>1, <1>2, FS_Subset
<1>4. Lists(Ascending(N), N)
  BY <1>3, AscendingLists
<1>5. ASSUME N = S PROVE Ascending(N) = Owned(l, c)
  <2>1. Owned(l, c) = Ascending(S)
    BY <1>1, OneAscending
  <2> QED
    BY <1>5, <2>1
<1> QED
  BY <1>1, <1>2, <1>4, <1>5 DEF S, N

\* A rank asks for its own shard, and for what the window of its rows reaches.
LEMMA OwnRequired ==
  ASSUME NEW l, IsLayer(l), l.transport = "windowed", NEW a, NEW w \in LayerRanks(l)
  PROVE  /\ OwnedSet(l, ContextRank(l, w)) \subseteq Required(l, a, w)
         /\ \A p \in OwnedSet(l, ContextRank(l, w)), t \in Nat :
              t <= p /\ p - t < l.window => t \in Required(l, a, w)
<1> DEFINE c == ContextRank(l, w)
           sh == Shards(l, "dual_chunk", l.seq, c)
           h == l.window - 1
           m == 2 * l.cp
<1>0. h \in Nat /\ l.cp \in Nat \ {0} /\ l.seq \in Nat /\ c \in 0 .. l.cp - 1
  <2>1. c \in Places(l)
    BY Placing DEF IsPlaced
  <2> QED
    BY <2>1 DEF IsLayer, Places
<1>1. /\ \A k \in DOMAIN sh : AtLeastZero(sh[k][1] - h) .. sh[k][2] - 1 \subseteq Required(l, a, w)
  BY DEF Required
<1> DEFINE d == 2 * l.cp - 1 - c
<1>2. sh = <<<<Bound(l.seq, m, c), Bound(l.seq, m, c + 1)>>, <<Bound(l.seq, m, d), Bound(l.seq, m, d + 1)>>>>
  BY DEF Shards
<1>3. OwnedSet(l, c) = ChunkSet(l.seq, m, c) \union ChunkSet(l.seq, m, d)
  <2>1. c \in Places(l)
    BY <1>0 DEF Places
  <2>2. OwnedSet(l, c) = ShardSet("dual_chunk", l.cp, l.seq, c)
    BY <2>1, PlannedShards
  <2> QED
    BY <2>2 DEF ShardSet, ShardChunks, ChunkCount
<1>4. m \in Nat \ {0} /\ c \in 0 .. m /\ c + 1 \in 0 .. m /\ d \in 0 .. m /\ d + 1 \in 0 .. m
  BY <1>0
<1> HIDE DEF sh, m, d, h, c
<1>5. /\ Bound(l.seq, m, c) \in Nat /\ Bound(l.seq, m, c + 1) \in Nat
      /\ Bound(l.seq, m, d) \in Nat /\ Bound(l.seq, m, d + 1) \in Nat
  BY <1>0, <1>4, Bounded
<1>6. ASSUME NEW x \in Nat, NEW y \in Nat, AtLeastZero(x - h) .. y - 1 \subseteq Required(l, a, w),
             NEW p \in x .. y - 1, NEW t \in Nat, t <= p, p - t < l.window
      PROVE  t \in Required(l, a, w)
  <2>1. l.window = h + 1
    BY DEF h, IsLayer
  <2>2. t \in AtLeastZero(x - h) .. y - 1
    BY <1>0, <1>6, <2>1 DEF AtLeastZero
  <2> QED
    BY <1>6, <2>2
<1>7. ASSUME NEW p \in OwnedSet(l, c), NEW t \in Nat, t <= p, p - t < l.window
      PROVE  t \in Required(l, a, w)
  <2>1. CASE p \in ChunkSet(l.seq, m, c)
    <3>1. p \in Bound(l.seq, m, c) .. Bound(l.seq, m, c + 1) - 1
      BY <2>1 DEF ChunkSet
    <3>2. AtLeastZero(Bound(l.seq, m, c) - h) .. Bound(l.seq, m, c + 1) - 1 \subseteq Required(l, a, w)
      BY <1>1, <1>2
    <3> QED
      BY <1>5, <1>6, <1>7, <3>1, <3>2
  <2>2. CASE p \in ChunkSet(l.seq, m, d)
    <3>1. p \in Bound(l.seq, m, d) .. Bound(l.seq, m, d + 1) - 1
      BY <2>2 DEF ChunkSet
    <3>2. AtLeastZero(Bound(l.seq, m, d) - h) .. Bound(l.seq, m, d + 1) - 1 \subseteq Required(l, a, w)
      BY <1>1, <1>2
    <3> QED
      BY <1>5, <1>6, <1>7, <3>1, <3>2
  <2> QED
    BY <1>3, <1>7, <2>1, <2>2
<1>8. ASSUME NEW p \in OwnedSet(l, c) PROVE p \in Required(l, a, w)
  <2>1. p \in Nat
    <3>1. c \in Places(l)
      BY <1>0 DEF Places
    <3>2. p \in 0 .. l.seq - 1
      BY <3>1, PlannedShards
    <3> QED
      BY <1>0, <3>2
  <2>2. p <= p /\ p - p < l.window
    BY <1>0, <2>1 DEF h, IsLayer
  <2> QED
    BY <1>7, <2>1, <2>2
<1> QED
  BY <1>7, <1>8 DEF c

\* The rows of a fused rank are in the blocks it denoises.
LEMMA RowBlocks ==
  ASSUME NEW l, IsLayer(l), ~Pure(l), NEW a, NEW w, NEW p \in NoisyRows(l, a, w)
  PROVE  p \in Canvas(l) /\ p \div l.block \in a[w]
<1> DEFINE S == {x \in Canvas(l) : x \div l.block \in a[w]}
<1>1. l.transport # "pure" /\ l.transport # "full"
  BY DEF IsLayer, Pure
<1>2. p \in Range(ActivePositions(l, a, w))
  BY <1>1 DEF NoisyRows
<1>3. l.pass # "clean"
  <2>1. ASSUME l.pass = "clean" PROVE FALSE
    <3>1. ActivePositions(l, a, w) = <<>>
      BY <2>1 DEF ActivePositions
    <3>2. DOMAIN <<>> = {}
      BY EmptyLists
    <3> QED
      BY <1>2, <3>1, <3>2 DEF Range
  <2> QED
    BY <2>1
<1>4. ActivePositions(l, a, w) = Ascending(S)
  BY <1>1, <1>3 DEF ActivePositions
<1>5. S \in SUBSET Int /\ IsFiniteSet(S)
  <2>1. Canvas(l) \subseteq Int /\ IsFiniteSet(Canvas(l))
    <3>1. 0 \in Int /\ l.seq - 1 \in Int
      BY DEF IsLayer
    <3>2. IsFiniteSet(0 .. l.seq - 1)
      BY <3>1, FS_Interval
    <3> QED
      BY <3>2 DEF Canvas
  <2>2. S \subseteq Canvas(l)
    OBVIOUS
  <2> HIDE DEF S
  <2> QED
    BY <2>1, <2>2, FS_Subset
<1>6. p \in S
  <2> HIDE DEF S
  <2>1. Lists(Ascending(S), S)
    BY <1>5, AscendingLists
  <2>2. Range(Ascending(S)) = S
    BY <2>1, ListFacts
  <2> QED
    BY <1>2, <1>4, <2>2
<1> QED
  BY <1>6

\* windowed_clean_exchange_plan asks for every token a row of the rank wants.
LEMMA ContextRequired ==
  ASSUME NEW l, IsLayer(l), ResponsesGathered(l), l.transport = "windowed", NEW a, Dealt(l, a),
         NEW w \in LayerRanks(l), NEW r \in Rows(l, a, w), NEW t \in Context(l, r)
  PROVE  t \in Required(l, a, w)
<1>1. ~Pure(l) /\ l.pass # "packed" /\ l.start = 0 /\ l.window \in Nat \ {0} /\ l.seq \in Nat
      /\ l.block \in Nat \ {0} /\ l.transport # "full"
  BY DEF IsLayer, Pure, ResponsesGathered
<1>2. IsRow(l, r) /\ (r.clean => r.pos \in CleanRows(l, w)) /\ (~r.clean => r.pos \in NoisyRows(l, a, w))
  BY RowFacts
<1>3. t \in Canvas(l) /\ Canvas(l) = 0 .. l.seq - 1 /\ t \in Nat
  <2>1. t \in Canvas(l)
    BY DEF Context
  <2> QED
    BY <1>1, <2>1 DEF Canvas
<1>4. CASE r.clean
  <2>1. t <= r.pos /\ r.pos - t < l.window
    BY <1>1, <1>4, Zenon DEF Context
  <2>2. r.pos \in OwnedSet(l, ContextRank(l, w))
    <3>1. r.pos \in Range(Held(l, w))
      BY <1>2, <1>4 DEF CleanRows
    <3>2. ContextRank(l, w) \in Places(l)
      BY Placing DEF IsPlaced
    <3>3. Range(Owned(l, ContextRank(l, w))) = OwnedSet(l, ContextRank(l, w))
      BY <3>2, OwnedLists, ListFacts
    <3> QED
      BY <3>1, <3>3 DEF Held
  <2> QED
    BY <1>3, <2>1, <2>2, OwnRequired
<1>5. CASE ~r.clean
  <2> DEFINE b == r.pos \div l.block
             x == b * l.block
             h == l.window - 1
  <2>1. b \in a[w] /\ r.pos \in 0 .. l.seq - 1
    BY <1>1, <1>2, <1>3, <1>5, RowBlocks DEF IsRow
  <2>2. ~ (r.pos >= l.seq - l.start)
    BY <1>1, <2>1
  <2>3. b \in Nat
    BY <1>1, <2>1, BeforeBlock
  <2>4. x \in Nat
    BY <1>1, <2>3
  <2> HIDE DEF x, b
  <2>5. Context(l, r) = {y \in Canvas(l) : y < x /\ (l.window # 0 => x - y < l.window)}
    <3>1. x = l.start + (r.pos \div l.block) * l.block
      BY <1>1, <2>4 DEF x, b
    <3> QED
      BY <1>5, <2>2, <3>1, NoisyContext
  <2>6. t < x /\ x - t < l.window
    BY <1>1, <2>5
  <2>7. t \in AtLeastZero(x - h) .. x - 1
    BY <1>1, <1>3, <2>4, <2>6 DEF AtLeastZero
  <2>8. AtLeastZero(x - h) .. x - 1 \subseteq Required(l, a, w)
    BY <2>1 DEF Required, x
  <2> QED
    BY <2>7, <2>8
<1> QED
  BY <1>2, <1>4, <1>5 DEF IsRow

\* What a rank gets from the others, in the order of the context ranks.
RemoteParts(l, a, w) ==
  [n \in 1 .. l.cp |-> IF n - 1 = ContextRank(l, w) THEN <<>> ELSE Expected(l, a, w, n - 1)]
RemoteSets(l, a, w) ==
  [n \in 1 .. l.cp |-> IF n - 1 = ContextRank(l, w) THEN {} ELSE Needed(l, a, w, n - 1)]
RemoteSet(l, a, w) == UNION {RemoteSets(l, a, w)[n] : n \in 1 .. l.cp}

\* What a rank gets from different owners has nothing in common.
LEMMA RemoteArePart ==
  ASSUME NEW l, IsLayer(l), l.transport = "windowed", NEW a, NEW w \in LayerRanks(l)
  PROVE  ArePart(RemoteParts(l, a, w), RemoteSets(l, a, w), l.cp, 0 .. l.seq - 1)
<1> DEFINE n == l.cp
           c0 == ContextRank(l, w)
           s == RemoteParts(l, a, w)
           P == RemoteSets(l, a, w)
           X == 0 .. l.seq - 1
<1>1. n \in Nat \ {0} /\ Places(l) = 0 .. n - 1
  BY DEF IsLayer, Places
<1>2. s = [m \in 1 .. n |-> IF m - 1 = c0 THEN <<>> ELSE Expected(l, a, w, m - 1)]
      /\ P = [m \in 1 .. n |-> IF m - 1 = c0 THEN {} ELSE Needed(l, a, w, m - 1)]
  BY DEF RemoteParts, RemoteSets
<1>3. \A m \in 1 .. n : m - 1 \in Places(l)
  BY <1>1
<1>4. \A c \in Places(l) : Lists(Expected(l, a, w, c), Needed(l, a, w, c)) /\ Needed(l, a, w, c) \subseteq X
  BY ExpectedLists
<1>5. \A c, d \in Places(l) : c # d => Apart(Needed(l, a, w, c), Needed(l, a, w, d))
  <2>1. \A c, d \in Places(l) : c # d => OwnedSet(l, c) \cap OwnedSet(l, d) = {}
    BY OwnedOnce DEF Apart
  <2> QED
    BY <2>1 DEF Needed, Apart
<1> HIDE DEF n, c0, s, P, X
<1>6. s = [m \in 1 .. n |-> s[m]]
  BY <1>2
<1>7. ASSUME NEW m \in 1 .. n PROVE Lists(s[m], P[m]) /\ P[m] \subseteq X
  <2>1. CASE m - 1 = c0
    BY <1>2, <2>1, EmptyLists
  <2>2. CASE m - 1 # c0
    BY <1>2, <1>3, <1>4, <2>2
  <2> QED
    BY <2>1, <2>2
<1>8. ASSUME NEW j \in 1 .. n, NEW m \in 1 .. n, j # m PROVE Apart(P[j], P[m])
  <2>1. CASE j - 1 = c0 \/ m - 1 = c0
    BY <1>2, <2>1 DEF Apart
  <2>2. CASE j - 1 # c0 /\ m - 1 # c0
    <3>1. j - 1 # m - 1
      BY <1>8
    <3> QED
      BY <1>2, <1>3, <1>5, <2>2, <3>1
  <2> QED
    BY <2>1, <2>2
<1> QED
  BY <1>6, <1>7, <1>8 DEF ArePart, n, s, P, X

\* All of the window is there: in the rank's own shard or from another.
IsRemote(l, a, w) ==
  /\ Lists(Remote(l, a, w), RemoteSet(l, a, w))
  /\ IsFlat(Remote(l, a, w), RemoteParts(l, a, w), l.cp)
  /\ RemoteSet(l, a, w) \subseteq 0 .. l.seq - 1
  /\ Apart(OwnedSet(l, ContextRank(l, w)), RemoteSet(l, a, w))
  /\ \A t \in Required(l, a, w) \cap Canvas(l) :
       t \in OwnedSet(l, ContextRank(l, w)) \/ t \in RemoteSet(l, a, w)

\* The remote keys of a rank are listed once, and are what the others send.
LEMMA RemoteLists ==
  ASSUME NEW l, IsLayer(l), l.transport = "windowed", NEW a, NEW w \in LayerRanks(l)
  PROVE  IsRemote(l, a, w)
<1> DEFINE n == l.cp
           c0 == ContextRank(l, w)
           s == RemoteParts(l, a, w)
           P == RemoteSets(l, a, w)
           X == 0 .. l.seq - 1
           U == UNION {P[m] : m \in 1 .. n}
<1>1. n \in Nat \ {0} /\ Places(l) = 0 .. n - 1 /\ c0 \in Places(l)
  BY Placing DEF IsLayer, Places, IsPlaced
<1>2. ArePart(s, P, n, X)
  BY RemoteArePart
<1>3. P = [m \in 1 .. n |-> IF m - 1 = c0 THEN {} ELSE Needed(l, a, w, m - 1)]
  BY DEF RemoteSets
<1>4. Remote(l, a, w) = FlattenSeq(s)
  <2>1. \A m \in 1 .. n : m - 1 \in 0 .. n - 1
    BY <1>1
  <2>2. s = [m \in 1 .. n |-> IF m - 1 = c0 THEN <<>> ELSE [c \in 0 .. n - 1 |-> Expected(l, a, w, c)][m - 1]]
    BY <2>1 DEF RemoteParts
  <2> QED
    BY <2>2 DEF Remote, FromOthers
<1>5. RemoteSet(l, a, w) = U
  BY DEF RemoteSet
<1> HIDE DEF n, c0, s, P, X
<1>6. Lists(FlattenSeq(s), U) /\ IsFlat(FlattenSeq(s), s, n)
  BY <1>1, <1>2, FlattenLists
<1>7. U \subseteq X
  BY <1>2 DEF ArePart
<1>8. Apart(OwnedSet(l, c0), U)
  <2>1. ASSUME NEW t \in U, t \in OwnedSet(l, c0) PROVE FALSE
    <3>1. PICK m \in 1 .. n : t \in P[m]
      OBVIOUS
    <3>2. m - 1 # c0 /\ t \in Needed(l, a, w, m - 1)
      BY <1>3, <3>1
    <3>3. m - 1 \in Places(l) /\ t \in OwnedSet(l, m - 1)
      BY <1>1, <3>2 DEF Needed
    <3> QED
      BY <1>1, <2>1, <3>2, <3>3, OwnedOnce DEF Apart
  <2> HIDE DEF U
  <2> QED
    BY <2>1 DEF Apart
<1>9. ASSUME NEW t \in Required(l, a, w), t \in Canvas(l) PROVE t \in OwnedSet(l, c0) \/ t \in U
  <2>1. t \in First(l) .. l.seq - 1
    BY <1>9 DEF First, Canvas
  <2>2. PICK c \in Places(l) : t \in OwnedSet(l, c)
    BY <2>1, OwnedOnce
  <2>3. CASE c = c0
    BY <2>2, <2>3
  <2>4. CASE c # c0
    <3> DEFINE m == c + 1
    <3>1. m \in 1 .. n /\ m - 1 = c
      BY <1>1
    <3> HIDE DEF m
    <3>2. t \in P[m]
      BY <1>3, <2>2, <2>4, <3>1 DEF Needed
    <3> QED
      BY <3>1, <3>2
  <2> QED
    BY <2>3, <2>4
<1> HIDE DEF U
<1>10. \A t \in Required(l, a, w) \cap Canvas(l) : t \in OwnedSet(l, c0) \/ t \in U
  BY <1>9
<1> QED
  BY <1>4, <1>5, <1>6, <1>7, <1>8, <1>10 DEF IsRemote, n, c0, s, X

\* Every rank gets what it expects.
LEMMA ReceivedAsExpected ==
  ASSUME NEW l, IsLayer(l), l.transport = "windowed", NEW a, NEW w \in LayerRanks(l)
  PROVE  Received(l, a, w) = Remote(l, a, w)
<1>1. ASSUME NEW c \in 0 .. l.cp - 1 PROVE Sent(l, a, Peer(l, w, c), w) = Expected(l, a, w, c)
  <2>1. Peer(l, w, c) \in LayerRanks(l) /\ ContextRank(l, Peer(l, w, c)) = c
    BY PeersOf DEF Places
  <2> QED
    BY <2>1, SentAsExpected
<1>2. [c \in 0 .. l.cp - 1 |-> Sent(l, a, Peer(l, w, c), w)] = [c \in 0 .. l.cp - 1 |-> Expected(l, a, w, c)]
  BY <1>1
<1> QED
  BY <1>2 DEF Received, Remote

\* The keys of the only launch.
LocalSet(l, a, w) == OwnedSet(l, ContextRank(l, w)) \union RemoteSet(l, a, w)
IsWindow(l, a, w, chunk) ==
  /\ chunk.claim = chunk.token
  /\ chunk.token = (Held(l, w) \o Remote(l, a, w)) \o ActiveShard(l, a, w)
  /\ chunk.forward = Rows(l, a, w) /\ chunk.backward = Rows(l, a, w)
  /\ Lists(Held(l, w), OwnedSet(l, ContextRank(l, w)))
  /\ Follows(Held(l, w), Remote(l, a, w), Held(l, w) \o Remote(l, a, w))
  /\ Follows(Held(l, w) \o Remote(l, a, w), ActiveShard(l, a, w), chunk.token)
  /\ Lists(chunk.token, LocalSet(l, a, w) \union ActiveSet(l, a, w))
  /\ LocalSet(l, a, w) \union ActiveSet(l, a, w) \subseteq -l.seq .. l.seq - 1

\* The keys of the only launch of a windowed layer.
LEMMA WindowKeys ==
  ASSUME NEW l, IsLayer(l), l.transport = "windowed", NEW a, Dealt(l, a), NEW w \in LayerRanks(l)
  PROVE  IsWindow(l, a, w, WindowChunk(l, a, w))
<1> DEFINE c0 == ContextRank(l, w)
           s == Held(l, w)
           t == Remote(l, a, w)
           u == ActiveShard(l, a, w)
           chunk == WindowChunk(l, a, w)
           S == OwnedSet(l, c0)
           T == RemoteSet(l, a, w)
           A == ActiveSet(l, a, w)
<1>1. c0 \in Places(l) /\ l.transport # "full" /\ s = Owned(l, c0)
  BY Placing DEF IsPlaced, Held
<1>2. Expected(l, a, w, c0) = s
  <2>1. Needed(l, a, w, c0) = OwnedSet(l, c0)
    BY OwnRequired DEF Needed
  <2> QED
    BY <1>1, <2>1, ExpectedLists
<1>3. Received(l, a, w) = t
  BY ReceivedAsExpected
<1>4. chunk.claim = (s \o t) \o u /\ chunk.token = (s \o t) \o u
      /\ chunk.forward = Rows(l, a, w) /\ chunk.backward = Rows(l, a, w)
  BY <1>2, <1>3 DEF WindowChunk, WithActive, Chunk
<1>5. Lists(s, S) /\ S \subseteq 0 .. l.seq - 1
  BY <1>1, PlannedShards
<1>6. Lists(t, T) /\ T \subseteq 0 .. l.seq - 1 /\ Apart(S, T)
  BY RemoteLists DEF IsRemote
<1> HIDE DEF c0, s, t, u, chunk, S, T, A
<1>7. Lists(s \o t, S \union T) /\ Follows(s, t, s \o t) /\ S \union T \subseteq 0 .. l.seq - 1
  BY <1>5, <1>6, JoinLists
<1> DEFINE st == s \o t
           ST == S \union T
<1>8. Lists(st, ST) /\ ST \subseteq 0 .. l.seq - 1
  BY <1>7
<1> HIDE DEF st, ST
<1>9. /\ Lists(st \o u, ST \union A) /\ Follows(st, u, st \o u) /\ ST \union A \subseteq -l.seq .. l.seq - 1
  BY <1>1, <1>8, BothLists DEF u, A
<1>10. LocalSet(l, a, w) = ST
  BY DEF LocalSet, ST, S, T, c0
<1> QED
  BY <1>4, <1>5, <1>7, <1>9, <1>10 DEF IsWindow, c0, s, t, u, chunk, S, A, st

\* A windowed layer delivers each key a row wants.
LEMMA WindowLaunch ==
  ASSUME NEW l, IsLayer(l), ResponsesGathered(l), l.transport = "windowed",
         NEW a, Dealt(l, a), NEW w \in LayerRanks(l)
  PROVE  Delivers(l, a, w)
<1> DEFINE first == WindowChunk(l, a, w)
           plan == Plan(l, a, w)
           R == Rows(l, a, w)
           C == LocalSet(l, a, w) \union ActiveSet(l, a, w)
           T == <<C>>
<1>1. plan = <<first>> /\ Turns(l) = 1
  BY DEF Plan, Turns
<1>2. IsWindow(l, a, w, first)
  BY WindowKeys
<1>3. ~Pure(l) /\ l.transport # "full"
  BY DEF IsLayer, Pure
<1> HIDE DEF first
<1>4. Carries(l, first, C) /\ first.forward = R /\ first.backward = R /\ C \subseteq -l.seq .. l.seq - 1
  <2>1. Lists(first.token, C) /\ first.claim = first.token
    BY <1>2 DEF IsWindow
  <2> HIDE DEF C
  <2>2. Carries(l, first, C)
    BY <2>1, ListCarries
  <2> QED
    BY <1>2, <2>2 DEF IsWindow, C
<1>5. ASSUME NEW r \in R, NEW t \in Wanted(l, r) PROVE t \in C
  <2>0. IsRow(l, r)
    BY RowFacts
  <2>1. CASE t \in Context(l, r) /\ t \in 0 .. l.seq - 1
    <3>1. t \in Required(l, a, w) \cap Canvas(l)
      BY <2>1, ContextRequired DEF Canvas
    <3>2. t \in LocalSet(l, a, w)
      BY <3>1, RemoteLists DEF IsRemote, LocalSet
    <3> QED
      BY <3>2
  <2>2. CASE t \in Neighbours(l, r) /\ t \in -l.seq .. -1
    <3>1. t \in ActiveSet(l, a, w)
      BY <1>3, <2>2, NeighboursHere
    <3> QED
      BY <3>1
  <2> QED
    BY <2>0, <2>1, <2>2, WantedFacts
<1> HIDE DEF plan, R, C
<1>6. DOMAIN plan = {1} /\ plan[1] = first /\ T[1] = C /\ DOMAIN T = {1} /\ Len(plan) = 1 /\ 1 .. 1 = {1}
  BY <1>1
<1> HIDE DEF T
<1>7. Shared(l, plan, T)
  BY <1>4, <1>6 DEF Shared
<1>8. Served(l, a, w, plan, T)
  BY <1>4, <1>5, <1>6 DEF Served, R
<1> QED
  BY <1>1, <1>6, <1>7, <1>8 DEF Delivers, plan

-----------------------------------------------------------------------------
(* Every transport delivers.                                               *)

\* Whatever the transport, a rank's launches deliver each key a row wants once.
LEMMA AllDeliver ==
  ASSUME NEW l, IsLayer(l), ResponsesGathered(l), NEW a, Dealt(l, a), NEW w \in LayerRanks(l)
  PROVE  Delivers(l, a, w)
<1>1. l.transport \in {"collective", "streaming", "windowed", "pure", "full"}
  BY DEF IsLayer, Transports
<1> QED
  BY <1>1, TwoLaunches, OneLaunch, StreamingLaunches, WindowLaunch

-----------------------------------------------------------------------------
(* What is delivered and allowed is what is wanted.                        *)

\* The mask allows what a row is meant to attend.
LEMMA MaskAllows ==
  ASSUME NEW l, IsLayer(l), ResponsesGathered(l), NEW r, IsRow(l, r),
         NEW t \in -l.seq .. l.seq, NEW d \in BOOLEAN
  PROVE  /\ ~Pads(l, r) => (Allowed(l, r, t, d) <=> t \in Wanted(l, r))
         /\ Pads(l, r) /\ Allowed(l, r, t, d) => t < 0
<1>1. l.seq \in Nat
  BY DEF IsLayer
<1>2. t \in -l.seq .. -1 \/ t \in 0 .. l.seq
  BY <1>1
<1>3. ASSUME ~Pads(l, r) PROVE Allowed(l, r, t, d) <=> t \in Wanted(l, r)
  BY <1>2, <1>3, MaskActive, MaskClean
<1>4. ASSUME Pads(l, r), Allowed(l, r, t, d) PROVE t < 0
  BY <1>4, MaskPads
<1> QED
  BY <1>3, <1>4

\* Keys that are wanted, no two of a token, one of each.
AreWanted(l, r, keys) ==
  IF Pads(l, r) THEN \A key \in keys : key[1] < 0
  ELSE /\ \A key \in keys : key[1] \in Wanted(l, r)
       /\ \A x, y \in keys : x[1] = y[1] => x = y
       /\ \A t \in Wanted(l, r) : \E key \in keys : key[1] = t

\* Keys that are the wanted tokens, each once, are what the row is meant to attend.
LEMMA OnceEach ==
  ASSUME NEW l, IsLayer(l), NEW r, IsRow(l, r), NEW keys, AreWanted(l, r, keys)
  PROVE  ExactlyOnce(l, r, keys)
<1> DEFINE W == Wanted(l, r)
           f == [t \in W |-> CHOOSE key \in keys : key[1] = t]
<1>1. CASE Pads(l, r)
  BY <1>1 DEF AreWanted, ExactlyOnce
<1>2. CASE ~Pads(l, r)
  <2>1. /\ \A key \in keys : key[1] \in W
        /\ \A x, y \in keys : x[1] = y[1] => x = y
        /\ \A t \in W : \E key \in keys : key[1] = t
    BY <1>2 DEF AreWanted
  <2>2. IsFiniteSet(W)
    <3>1. W \subseteq -l.seq .. l.seq - 1
      BY WantedFacts
    <3>2. -l.seq \in Int /\ l.seq - 1 \in Int
      BY DEF IsLayer
    <3>3. IsFiniteSet(-l.seq .. l.seq - 1)
      BY <3>2, FS_Interval
    <3> HIDE DEF W
    <3> QED
      BY <3>1, <3>3, FS_Subset
  <2> HIDE DEF W
  <2>3. \A t \in W : f[t] \in keys /\ f[t][1] = t
    BY <2>1
  <2>4. f \in [W -> keys]
    BY <2>3
  <2> HIDE DEF f
  <2>5. \A x, y \in W : f[x] = f[y] => x = y
    BY <2>3
  <2>6. \A key \in keys : \E t \in W : f[t] = key
    BY <2>1, <2>3
  <2>7. Cardinality(keys) = Cardinality(W)
    BY <2>2, <2>4, <2>5, <2>6, SameCount
  <2>8. {key[1] : key \in keys} = W
    BY <2>1
  <2> QED
    BY <1>2, <2>7, <2>8 DEF ExactlyOnce, W, Wanted
<1> QED
  BY <1>1, <1>2

\* A key of a launch that the mask allows a row.
Seen(l, r, chunk, k, pass) == Allowed(l, r, chunk.claim[k], pass \in chunk.diagonal)

\* The mask over the claimed positions lets a row see the wanted tokens, no other.
LEMMA SeenIsWanted ==
  ASSUME NEW l, IsLayer(l), ResponsesGathered(l), NEW r, IsRow(l, r), NEW chunk, NEW S,
         Carries(l, chunk, S), S \subseteq -l.seq .. l.seq - 1, NEW k \in DOMAIN chunk.token, NEW pass
  PROVE  /\ ~Pads(l, r) => (Seen(l, r, chunk, k, pass) <=> chunk.token[k] \in Wanted(l, r))
         /\ Pads(l, r) /\ Seen(l, r, chunk, k, pass) => chunk.token[k] < 0
         /\ chunk.token[k] \in Wanted(l, r) => chunk.token[k] \in S /\ chunk.token[k] # Padding(l)
<1> DEFINE t == chunk.token[k]
           d == pass \in chunk.diagonal
<1>1. chunk.claim[k] = t /\ t \in S \union {Padding(l)}
  BY DEF Carries
<1>2. l.seq \in Nat /\ Padding(l) = l.seq
  BY DEF IsLayer, Padding
<1>3. t \in -l.seq .. l.seq
  <2> DEFINE n == l.seq
  <2>1. n \in Nat /\ (t = n \/ t \in -n .. n - 1)
    BY <1>1, <1>2
  <2> HIDE DEF t, n
  <2>2. t \in -n .. n
    BY <2>1
  <2> QED
    BY <2>2 DEF n
<1>4. d \in BOOLEAN
  OBVIOUS
<1>5. Seen(l, r, chunk, k, pass) <=> Allowed(l, r, t, d)
  BY <1>1 DEF Seen
<1> HIDE DEF t, d
<1>6. /\ ~Pads(l, r) => (Allowed(l, r, t, d) <=> t \in Wanted(l, r))
      /\ Pads(l, r) /\ Allowed(l, r, t, d) => t < 0
  BY <1>3, <1>4, MaskAllows
<1>7. ASSUME t \in Wanted(l, r) PROVE t \in S /\ t # Padding(l)
  <2>1. t \in -l.seq .. l.seq - 1
    BY <1>7, WantedFacts
  <2>2. t # Padding(l)
    BY <1>2, <2>1
  <2> QED
    BY <1>1, <2>2
<1> QED
  BY <1>5, <1>6, <1>7 DEF t

\* The keys a row attends in some launches.
AttendedIn(l, plan, r) ==
  UNION {LET chunk == plan[c]
         IN {<<chunk.token[k], c, k>> :
               k \in {k \in DOMAIN chunk.token :
                        Allowed(l, r, chunk.claim[k], "forward" \in chunk.diagonal)}}
         : c \in {c \in DOMAIN plan : r \in plan[c].forward}}

\* Launches that deliver what a row wants show it exactly its context.
LEMMA SeesContext ==
  ASSUME NEW l, IsLayer(l), ResponsesGathered(l), NEW a, Dealt(l, a), NEW w \in LayerRanks(l),
         NEW r \in Rows(l, a, w), NEW plan, NEW T, Shared(l, plan, T), Served(l, a, w, plan, T)
  PROVE  ExactlyOnce(l, r, AttendedIn(l, plan, r))
<1> DEFINE keys == AttendedIn(l, plan, r)
           At(c, k) == c \in DOMAIN plan /\ r \in plan[c].forward /\ k \in DOMAIN plan[c].token
                       /\ Seen(l, r, plan[c], k, "forward")
<1>0. IsRow(l, r)
  BY RowFacts
<1>1. ASSUME NEW key \in keys
      PROVE  \E c, k : At(c, k) /\ key = <<plan[c].token[k], c, k>>
  BY DEF AttendedIn, Seen
<1>2. ASSUME NEW c, NEW k, At(c, k) PROVE <<plan[c].token[k], c, k>> \in keys
  BY <1>2 DEF AttendedIn, Seen
<1> HIDE DEF keys
<1>3. ASSUME NEW c, NEW k, At(c, k)
      PROVE  /\ ~Pads(l, r) => plan[c].token[k] \in Wanted(l, r) /\ plan[c].token[k] \in T[c]
                               /\ plan[c].token[k] # Padding(l)
             /\ Pads(l, r) => plan[c].token[k] < 0
  <2>1. Carries(l, plan[c], T[c]) /\ T[c] \subseteq -l.seq .. l.seq - 1
    BY <1>3 DEF Shared
  <2> QED
    BY <1>0, <1>3, <2>1, SeenIsWanted
<1>4. CASE Pads(l, r)
  <2>1. ASSUME NEW key \in keys PROVE key[1] < 0
    <3>1. PICK c, k : At(c, k) /\ key = <<plan[c].token[k], c, k>>
      BY <1>1
    <3> HIDE DEF At
    <3>2. key[1] = plan[c].token[k]
      BY <3>1
    <3> QED
      BY <1>3, <1>4, <3>1, <3>2
  <2>2. AreWanted(l, r, keys)
    BY <1>4, <2>1 DEF AreWanted
  <2> QED
    BY <1>0, <2>2, OnceEach DEF keys
<1>5. CASE ~Pads(l, r)
  <2>1. ASSUME NEW key \in keys PROVE key[1] \in Wanted(l, r)
    <3>1. PICK c, k : At(c, k) /\ key = <<plan[c].token[k], c, k>>
      BY <1>1
    <3> HIDE DEF At
    <3>2. key[1] = plan[c].token[k]
      BY <3>1
    <3> QED
      BY <1>3, <1>5, <3>1, <3>2
  <2>2. ASSUME NEW x \in keys, NEW y \in keys, x[1] = y[1] PROVE x = y
    <3>1. PICK c, k : At(c, k) /\ x = <<plan[c].token[k], c, k>>
      BY <1>1
    <3>2. PICK d, j : At(d, j) /\ y = <<plan[d].token[j], d, j>>
      BY <1>1
    <3>3. plan[c].token[k] = plan[d].token[j]
      <4> HIDE DEF At
      <4>1. x[1] = plan[c].token[k] /\ y[1] = plan[d].token[j]
        BY <3>1, <3>2
      <4> QED
        BY <2>2, <4>1
    <3>4. plan[c].token[k] \in T[c] /\ plan[c].token[k] # Padding(l) /\ plan[d].token[j] \in T[d]
      <4> HIDE DEF At
      <4> QED
        BY <1>3, <1>5, <3>1, <3>2
    <3>5. c = d
      BY <3>1, <3>2, <3>3, <3>4 DEF Shared, Apart
    <3>6. k = j
      <4>1. Carries(l, plan[c], T[c]) /\ k \in DOMAIN plan[c].token /\ j \in DOMAIN plan[c].token
        BY <3>1, <3>2, <3>5 DEF Shared
      <4> QED
        BY <3>3, <3>4, <3>5, <4>1 DEF Carries
    <3> QED
      BY <3>1, <3>2, <3>5, <3>6
  <2>3. ASSUME NEW t \in Wanted(l, r) PROVE \E key \in keys : key[1] = t
    <3>1. PICK c \in DOMAIN plan : t \in T[c] /\ r \in plan[c].forward
      BY <1>5 DEF Served
    <3>2. Carries(l, plan[c], T[c]) /\ T[c] \subseteq -l.seq .. l.seq - 1
      BY <3>1 DEF Shared
    <3>3. PICK k \in DOMAIN plan[c].token : plan[c].token[k] = t
      BY <3>1, <3>2 DEF Carries
    <3>4. Seen(l, r, plan[c], k, "forward")
      BY <1>0, <1>5, <3>2, <3>3, SeenIsWanted
    <3>5. <<plan[c].token[k], c, k>> \in keys
      BY <1>2, <3>1, <3>4
    <3>6. <<plan[c].token[k], c, k>>[1] = t
      BY <3>3
    <3> QED
      BY <3>5, <3>6
  <2>4. AreWanted(l, r, keys)
    BY <1>5, <2>1, <2>2, <2>3 DEF AreWanted
  <2> QED
    BY <1>0, <2>4, OnceEach DEF keys
<1> QED
  BY <1>4, <1>5

-----------------------------------------------------------------------------
(* The gradients.                                                          *)

\* The slot of launch c of rank v is there and has the key of token t.
IsSlot(l, a, v, c, slot, t) ==
  /\ c \in DOMAIN Plan(l, a, v) /\ slot \in DOMAIN Plan(l, a, v)[c].token
  /\ Plan(l, a, v)[c].token[slot] = t

\* Gradients are taken from slots with the owner's token, and from all of them.
CleanReturn(l, a, g) ==
  \A o, v \in GroupOf(l, g) : \A k \in 1 .. Len(Held(l, o)) :
    \A p \in GradientPlaces(l, a, o, v, k) :
      p = <<p[1], p[2]>> /\ IsSlot(l, a, v, p[1], p[2], Held(l, o)[k])
ActiveReturn(l, a, g) ==
  \A o, v \in GroupOf(l, g) : \A k \in 1 .. Len(ActiveShard(l, a, o)) :
    \A p \in ActiveGradientPlaces(l, a, o, v, k) :
      p = <<p[1], p[2]>> /\ IsSlot(l, a, v, p[1], p[2], ActiveShard(l, a, o)[k])
Reached(l, a, g, v, c, slot) ==
  \E o \in GroupOf(l, g) :
    \/ \E k \in 1 .. Len(Held(l, o)) : <<c, slot>> \in GradientPlaces(l, a, o, v, k)
    \/ \E k \in 1 .. Len(ActiveShard(l, a, o)) : <<c, slot>> \in ActiveGradientPlaces(l, a, o, v, k)
AllReached(l, a, g) ==
  \A v \in GroupOf(l, g) : \A c \in DOMAIN Plan(l, a, v) : \A slot \in DOMAIN Plan(l, a, v)[c].token :
    Plan(l, a, v)[c].token[slot] # Padding(l) => Reached(l, a, g, v, c, slot)
Returns(l, a, g) == CleanReturn(l, a, g) /\ ActiveReturn(l, a, g) /\ AllReached(l, a, g)

\* The keys that come from a rank.
KeySet(l, a, o) == OwnedSet(l, ContextRank(l, o)) \union ActiveSet(l, a, o)

\* The keys of a rank are its shard's and its denoised ones, each token once.
LEMMA KeyLists ==
  ASSUME NEW l, IsLayer(l), NEW a, Dealt(l, a), NEW o \in LayerRanks(l)
  PROVE  /\ Lists(Keys(l, a, o), KeySet(l, a, o))
         /\ Follows(Held(l, o), ActiveShard(l, a, o), Keys(l, a, o))
         /\ Len(Held(l, o)) \in Nat /\ Len(ActiveShard(l, a, o)) \in Nat
<1> DEFINE c == ContextRank(l, o)
           S == OwnedSet(l, c)
           A == ActiveSet(l, a, o)
           s == Held(l, o)
           t == ActiveShard(l, a, o)
<1>1. c \in Places(l)
  BY Placing DEF IsPlaced
<1>2. Lists(s, S)
  BY <1>1, OwnedLists DEF Held
<1>3. Lists(t, A) /\ Apart(S, A)
  <2>1. CASE l.transport = "full"
    <3>1. t = <<>> /\ A = {}
      BY <2>1, NoActives DEF Denoises
    <3> QED
      BY <3>1, EmptyLists DEF Apart
  <2>2. CASE l.transport # "full"
    <3>1. Lists(t, A) /\ A \subseteq -l.seq .. -1
      BY <2>2, Actives DEF IsActive
    <3>2. S \subseteq 0 .. l.seq - 1
      BY <1>1, <2>2, OwnedOnce DEF First
    <3>3. l.seq \in Nat
      BY DEF IsLayer
    <3> HIDE DEF S, A
    <3>4. S \cap A = {}
      BY <3>1, <3>2, <3>3
    <3> QED
      BY <3>1, <3>4 DEF Apart
  <2> QED
    BY <2>1, <2>2
<1> HIDE DEF s, t, S, A
<1>4. Lists(s \o t, S \union A) /\ Follows(s, t, s \o t)
  BY <1>2, <1>3, JoinLists
<1>5. Len(s) \in Nat /\ Len(t) \in Nat
  BY <1>2, <1>3, ListFacts
<1> QED
  BY <1>4, <1>5 DEF Keys, KeySet, s, t, S, A, c

\* No two ranks of a group have a key of the same token.
LEMMA KeysApart ==
  ASSUME NEW l, IsLayer(l), NEW a, Dealt(l, a), NEW g, NEW o \in GroupOf(l, g), NEW q \in GroupOf(l, g),
         o # q
  PROVE  Apart(KeySet(l, a, o), KeySet(l, a, q))
<1> DEFINE c == ContextRank(l, o)
           d == ContextRank(l, q)
           A == ActiveSet(l, a, o)
           B == ActiveSet(l, a, q)
<1>1. o \in LayerRanks(l) /\ q \in LayerRanks(l) /\ o \div l.cp = q \div l.cp
  BY DEF GroupOf
<1>2. c \in Places(l) /\ d \in Places(l) /\ c # d
  BY <1>1, Placing, SamePlace DEF IsPlaced
<1>3. OwnedSet(l, c) \cap OwnedSet(l, d) = {}
  BY <1>2, OwnedOnce DEF Apart
<1>4. /\ A \cap B = {}
      /\ A \cap OwnedSet(l, d) = {} /\ B \cap OwnedSet(l, c) = {}
  <2>1. CASE l.transport = "full"
    <3>1. A = {} /\ B = {}
      BY <2>1, NoActives DEF Denoises
    <3> QED
      BY <3>1
  <2>2. CASE l.transport # "full"
    <3>1. A \cap B = {} /\ A \subseteq -l.seq .. -1 /\ B \subseteq -l.seq .. -1
      BY <1>1, <2>2, Actives DEF IsActive, Apart
    <3>2. OwnedSet(l, c) \subseteq 0 .. l.seq - 1 /\ OwnedSet(l, d) \subseteq 0 .. l.seq - 1
      BY <1>2, <2>2, OwnedOnce DEF First
    <3>3. l.seq \in Nat
      BY DEF IsLayer
    <3> HIDE DEF A, B, c, d
    <3> QED
      BY <3>1, <3>2, <3>3
  <2> QED
    BY <2>1, <2>2
<1> QED
  BY <1>3, <1>4 DEF KeySet, Apart

\* What is collected for a key.
GroupAt(l, o) == GroupOf(l, o \div l.cp)
PlacesOf(l, a, o, v, k) ==
  IF k <= Len(Held(l, o)) THEN GradientPlaces(l, a, o, v, k)
  ELSE ActiveGradientPlaces(l, a, o, v, k - Len(Held(l, o)))

\* The slots whose gradients are added up at a key.
LEMMA WhatIsCollected ==
  ASSUME NEW l, NEW a, NEW o
  PROVE  /\ DOMAIN Collected(l, a, o) = DOMAIN Keys(l, a, o)
         /\ \A k \in DOMAIN Keys(l, a, o) :
              Collected(l, a, o)[k]
                = UNION {{<<v, p[1], p[2]>> : p \in PlacesOf(l, a, o, v, k)} : v \in GroupAt(l, o)}
  BY DEF Collected, PlacesOf, GroupAt

\* The collected places are slots with the key's token.
LEMMA CollectedSlots ==
  ASSUME NEW l, IsLayer(l), NEW a, Dealt(l, a), NEW g, Returns(l, a, g),
         NEW o \in GroupOf(l, g), NEW k \in DOMAIN Keys(l, a, o), NEW x \in Collected(l, a, o)[k]
  PROVE  \E v \in GroupOf(l, g) : \E c, slot : x = <<v, c, slot>> /\ IsSlot(l, a, v, c, slot, Keys(l, a, o)[k])
<1> DEFINE n == Len(Held(l, o))
           m == Len(ActiveShard(l, a, o))
           key == Keys(l, a, o)
<1>0. o \in LayerRanks(l) /\ o \div l.cp = g
  BY DEF GroupOf
<1>1. PICK v \in GroupOf(l, g) : x \in {<<v, p[1], p[2]>> : p \in PlacesOf(l, a, o, v, k)}
  BY <1>0, WhatIsCollected DEF GroupAt
<1>2. PICK p \in PlacesOf(l, a, o, v, k) : x = <<v, p[1], p[2]>>
  BY <1>1
<1>3. /\ n \in Nat /\ m \in Nat /\ Len(key) = n + m /\ DOMAIN key = 1 .. n + m
      /\ \A j \in 1 .. n : key[j] = Held(l, o)[j]
      /\ \A j \in 1 .. m : key[n + j] = ActiveShard(l, a, o)[j]
  <2>1. Lists(key, KeySet(l, a, o)) /\ n \in Nat /\ m \in Nat /\ Follows(Held(l, o), ActiveShard(l, a, o), key)
    BY <1>0, KeyLists
  <2>2. DOMAIN key = 1 .. Len(key)
    BY <2>1, ListFacts
  <2> HIDE DEF key
  <2> QED
    BY <2>1, <2>2 DEF Follows
<1>4. CASE k <= n
  <2>1. p \in GradientPlaces(l, a, o, v, k) /\ k \in 1 .. n
    BY <1>2, <1>3, <1>4 DEF PlacesOf
  <2>2. IsSlot(l, a, v, p[1], p[2], Held(l, o)[k])
    BY <1>1, <2>1 DEF Returns, CleanReturn
  <2> QED
    BY <1>1, <1>2, <1>3, <2>1, <2>2
<1>5. CASE ~ (k <= n)
  <2>1. p \in ActiveGradientPlaces(l, a, o, v, k - n)
    BY <1>2, <1>5 DEF PlacesOf
  <2>2. k - n \in 1 .. m /\ n + (k - n) = k
    BY <1>3, <1>5
  <2>3. IsSlot(l, a, v, p[1], p[2], ActiveShard(l, a, o)[k - n])
    BY <1>1, <2>1, <2>2 DEF Returns, ActiveReturn
  <2>4. key[k] = ActiveShard(l, a, o)[k - n]
    <3>1. key[n + (k - n)] = ActiveShard(l, a, o)[k - n]
      BY <1>3, <2>2
    <3> QED
      BY <2>2, <3>1
  <2> QED
    BY <1>1, <1>2, <2>3, <2>4
<1> QED
  BY <1>4, <1>5

\* Every slot that is no padding is collected.
LEMMA SlotsCollected ==
  ASSUME NEW l, IsLayer(l), NEW a, Dealt(l, a), NEW g, Returns(l, a, g),
         NEW v \in GroupOf(l, g), NEW c \in DOMAIN Plan(l, a, v), NEW slot \in DOMAIN Plan(l, a, v)[c].token,
         Plan(l, a, v)[c].token[slot] # Padding(l)
  PROVE  \E o \in GroupOf(l, g) : \E k \in DOMAIN Keys(l, a, o) : <<v, c, slot>> \in Collected(l, a, o)[k]
<1>1. Reached(l, a, g, v, c, slot)
  BY DEF Returns, AllReached
<1>2. PICK o \in GroupOf(l, g) :
        \/ \E k \in 1 .. Len(Held(l, o)) : <<c, slot>> \in GradientPlaces(l, a, o, v, k)
        \/ \E k \in 1 .. Len(ActiveShard(l, a, o)) : <<c, slot>> \in ActiveGradientPlaces(l, a, o, v, k)
  BY <1>1 DEF Reached
<1> DEFINE n == Len(Held(l, o))
           m == Len(ActiveShard(l, a, o))
           key == Keys(l, a, o)
<1>0. o \in LayerRanks(l) /\ o \div l.cp = g
  BY DEF GroupOf
<1>3. n \in Nat /\ m \in Nat /\ DOMAIN key = 1 .. n + m
  <2>1. Lists(key, KeySet(l, a, o)) /\ n \in Nat /\ m \in Nat /\ Follows(Held(l, o), ActiveShard(l, a, o), key)
    BY <1>0, KeyLists
  <2>2. DOMAIN key = 1 .. Len(key)
    BY <2>1, ListFacts
  <2> HIDE DEF key
  <2> QED
    BY <2>1, <2>2 DEF Follows
<1>4. \E k \in 1 .. n + m : <<c, slot>> \in PlacesOf(l, a, o, v, k)
  <2>1. ASSUME NEW k \in 1 .. n, <<c, slot>> \in GradientPlaces(l, a, o, v, k)
        PROVE  k \in 1 .. n + m /\ <<c, slot>> \in PlacesOf(l, a, o, v, k)
    BY <1>3, <2>1 DEF PlacesOf
  <2>2. ASSUME NEW k \in 1 .. m, <<c, slot>> \in ActiveGradientPlaces(l, a, o, v, k)
        PROVE  n + k \in 1 .. n + m /\ <<c, slot>> \in PlacesOf(l, a, o, v, n + k)
    <3>1. n + k \in 1 .. n + m /\ ~ (n + k <= n) /\ (n + k) - n = k
      BY <1>3
    <3> QED
      BY <2>2, <3>1 DEF PlacesOf
  <2> QED
    BY <1>2, <2>1, <2>2
<1>5. PICK k \in 1 .. n + m : <<c, slot>> \in PlacesOf(l, a, o, v, k)
  BY <1>4
<1>6. Collected(l, a, o)[k]
        = UNION {{<<u, p[1], p[2]>> : p \in PlacesOf(l, a, o, u, k)} : u \in GroupOf(l, g)}
  BY <1>0, <1>3, WhatIsCollected DEF GroupAt
<1>7. <<v, c, slot>> \in {<<v, p[1], p[2]>> : p \in PlacesOf(l, a, o, v, k)}
  <2>1. <<c, slot>>[1] = c /\ <<c, slot>>[2] = slot
    OBVIOUS
  <2> QED
    BY <1>5, <2>1
<1> QED
  BY <1>3, <1>6, <1>7

\* What row r adds in group g to the gradients that are collected.
Adds(l, a, r, x) ==
  LET chunk == Plan(l, a, x[1])[x[2]]
  IN /\ r \in chunk.backward
     /\ Allowed(l, r, chunk.claim[x[3]], "backward" \in chunk.diagonal)
ContributedIn(l, a, g, r) ==
  UNION {UNION {{<<Keys(l, a, o)[k], o, x>> : x \in {x \in Collected(l, a, o)[k] : Adds(l, a, r, x)}}
                : k \in DOMAIN Collected(l, a, o)} : o \in GroupOf(l, g)}

\* The slots where a row adds to the gradient of a key.
LEMMA WhatIsContributed ==
  ASSUME NEW l, NEW a, NEW g, NEW r, NEW y
  PROVE  y \in ContributedIn(l, a, g, r)
           <=> \E o \in GroupOf(l, g) : \E k \in DOMAIN Keys(l, a, o) : \E x \in Collected(l, a, o)[k] :
                 Adds(l, a, r, x) /\ y = <<Keys(l, a, o)[k], o, x>>
<1>1. \A o : DOMAIN Collected(l, a, o) = DOMAIN Keys(l, a, o)
  BY WhatIsCollected
<1> QED
  BY <1>1 DEF ContributedIn

\* The launches of a rank have the keys of T and serve its rows.
Works(l, a, v, T) == Shared(l, Plan(l, a, v), T) /\ Served(l, a, v, Plan(l, a, v), T)

\* The launches of a rank work: each wanted key is in exactly one of them.
LEMMA PlansWork ==
  ASSUME NEW l, IsLayer(l), ResponsesGathered(l), NEW a, Dealt(l, a), NEW v \in LayerRanks(l)
  PROVE  \E T : Works(l, a, v, T)
  BY AllDeliver DEF Delivers, Works

\* What adds is a slot of the row's rank with the key's token.
FromItsRank(l, a, g, r, t, x) ==
  \E v \in GroupOf(l, g) : \E c, slot :
    /\ x = <<v, c, slot>> /\ IsSlot(l, a, v, c, slot, t)
    /\ r \in Rows(l, a, v) /\ Seen(l, r, Plan(l, a, v)[c], slot, "backward")

\* A row adds to a gradient only where it is computed, and where it sees the key.
LEMMA AddsInItsRank ==
  ASSUME NEW l, IsLayer(l), ResponsesGathered(l), NEW a, Dealt(l, a), NEW g, Returns(l, a, g),
         NEW r, NEW o \in GroupOf(l, g), NEW k \in DOMAIN Keys(l, a, o),
         NEW x \in Collected(l, a, o)[k], Adds(l, a, r, x)
  PROVE  FromItsRank(l, a, g, r, Keys(l, a, o)[k], x)
<1>1. PICK v \in GroupOf(l, g) : \E c, slot : x = <<v, c, slot>> /\ IsSlot(l, a, v, c, slot, Keys(l, a, o)[k])
  BY CollectedSlots
<1>2. PICK c, slot : x = <<v, c, slot>> /\ IsSlot(l, a, v, c, slot, Keys(l, a, o)[k])
  BY <1>1
<1>3. x[1] = v /\ x[2] = c /\ x[3] = slot
  BY <1>2
<1>4. r \in Plan(l, a, v)[c].backward /\ Seen(l, r, Plan(l, a, v)[c], slot, "backward")
  BY <1>3 DEF Adds, Seen
<1>5. v \in LayerRanks(l) /\ c \in DOMAIN Plan(l, a, v)
  BY <1>2 DEF GroupOf, IsSlot
<1>6. PICK T : Works(l, a, v, T)
  BY <1>5, PlansWork
<1>7. r \in Rows(l, a, v)
  BY <1>4, <1>5, <1>6 DEF Works, Served
<1> QED
  BY <1>2, <1>4, <1>7 DEF FromItsRank

\* The gradients of a row that one rank of the group has.
LEMMA ComesHome ==
  ASSUME NEW l, IsLayer(l), ResponsesGathered(l), NEW a, Dealt(l, a), NEW g, Returns(l, a, g),
         NEW v \in GroupOf(l, g), NEW r \in Rows(l, a, v),
         \A u \in GroupOf(l, g) : r \in Rows(l, a, u) => u = v
  PROVE  ExactlyOnce(l, r, ContributedIn(l, a, g, r))
<1> DEFINE keys == ContributedIn(l, a, g, r)
           plan == Plan(l, a, v)
           Tok(o, k) == Keys(l, a, o)[k]
           Home(o, k, c, slot) ==
             /\ o \in GroupOf(l, g) /\ k \in DOMAIN Keys(l, a, o)
             /\ <<v, c, slot>> \in Collected(l, a, o)[k]
             /\ IsSlot(l, a, v, c, slot, Tok(o, k))
             /\ Seen(l, r, plan[c], slot, "backward")
<1>0. v \in LayerRanks(l)
  BY DEF GroupOf
<1>1. IsRow(l, r)
  BY <1>0, RowFacts
<1>2. PICK T : Works(l, a, v, T)
  BY <1>0, PlansWork
<1>3. ASSUME NEW y \in keys
      PROVE  \E o, k, c, slot : Home(o, k, c, slot) /\ y = <<Tok(o, k), o, <<v, c, slot>>>>
  <2>1. PICK o \in GroupOf(l, g) : \E k \in DOMAIN Keys(l, a, o) : \E x \in Collected(l, a, o)[k] :
          Adds(l, a, r, x) /\ y = <<Keys(l, a, o)[k], o, x>>
    BY WhatIsContributed
  <2>2. PICK k \in DOMAIN Keys(l, a, o) : \E x \in Collected(l, a, o)[k] :
          Adds(l, a, r, x) /\ y = <<Keys(l, a, o)[k], o, x>>
    BY <2>1
  <2>3. PICK x \in Collected(l, a, o)[k] : Adds(l, a, r, x) /\ y = <<Keys(l, a, o)[k], o, x>>
    BY <2>2
  <2>4. PICK u \in GroupOf(l, g) : \E c, slot :
          /\ x = <<u, c, slot>> /\ IsSlot(l, a, u, c, slot, Keys(l, a, o)[k])
          /\ r \in Rows(l, a, u) /\ Seen(l, r, Plan(l, a, u)[c], slot, "backward")
    <3>1. FromItsRank(l, a, g, r, Keys(l, a, o)[k], x)
      BY <2>3, AddsInItsRank
    <3> QED
      BY <3>1 DEF FromItsRank
  <2>5. PICK c, slot :
          /\ x = <<u, c, slot>> /\ IsSlot(l, a, u, c, slot, Keys(l, a, o)[k])
          /\ r \in Rows(l, a, u) /\ Seen(l, r, Plan(l, a, u)[c], slot, "backward")
    BY <2>4
  <2>6. u = v
    BY <2>5
  <2> QED
    BY <2>3, <2>5, <2>6
<1>4. ASSUME NEW c \in DOMAIN plan, NEW slot \in DOMAIN plan[c].token, r \in plan[c].backward,
             plan[c].token[slot] # Padding(l), Seen(l, r, plan[c], slot, "backward")
      PROVE  \E y \in keys : y[1] = plan[c].token[slot]
  <2>1. PICK o \in GroupOf(l, g) : \E k \in DOMAIN Keys(l, a, o) : <<v, c, slot>> \in Collected(l, a, o)[k]
    BY <1>4, SlotsCollected
  <2>2. PICK k \in DOMAIN Keys(l, a, o) : <<v, c, slot>> \in Collected(l, a, o)[k]
    BY <2>1
  <2>3. Adds(l, a, r, <<v, c, slot>>)
    <3>1. <<v, c, slot>>[1] = v /\ <<v, c, slot>>[2] = c /\ <<v, c, slot>>[3] = slot
      OBVIOUS
    <3> QED
      BY <1>4, <3>1 DEF Adds, Seen
  <2>4. <<Tok(o, k), o, <<v, c, slot>>>> \in keys
    BY <2>2, <2>3, WhatIsContributed
  <2>5. Tok(o, k) = plan[c].token[slot]
    <3>1. PICK u \in GroupOf(l, g) : \E d, j : <<v, c, slot>> = <<u, d, j>> /\ IsSlot(l, a, u, d, j, Tok(o, k))
      BY <2>2, CollectedSlots
    <3>2. PICK d, j : <<v, c, slot>> = <<u, d, j>> /\ IsSlot(l, a, u, d, j, Tok(o, k))
      BY <3>1
    <3>3. u = v /\ d = c /\ j = slot
      BY <3>2
    <3> QED
      BY <3>2, <3>3 DEF IsSlot
  <2>6. <<Tok(o, k), o, <<v, c, slot>>>>[1] = Tok(o, k)
    OBVIOUS
  <2> QED
    BY <2>4, <2>5, <2>6
<1>5. ASSUME NEW o, NEW k, NEW c, NEW slot, Home(o, k, c, slot)
      PROVE  /\ c \in DOMAIN plan /\ slot \in DOMAIN plan[c].token /\ plan[c].token[slot] = Tok(o, k)
             /\ ~Pads(l, r) => Tok(o, k) \in Wanted(l, r) /\ Tok(o, k) \in T[c] /\ Tok(o, k) # Padding(l)
             /\ Pads(l, r) => Tok(o, k) < 0
  <2>1. c \in DOMAIN plan /\ slot \in DOMAIN plan[c].token /\ plan[c].token[slot] = Tok(o, k)
        /\ Seen(l, r, plan[c], slot, "backward")
    BY <1>5 DEF IsSlot
  <2>2. Carries(l, plan[c], T[c]) /\ T[c] \subseteq -l.seq .. l.seq - 1
    BY <1>2, <2>1 DEF Works, Shared
  <2> HIDE DEF Home, plan
  <2>3. /\ ~Pads(l, r) => (Seen(l, r, plan[c], slot, "backward") <=> plan[c].token[slot] \in Wanted(l, r))
        /\ Pads(l, r) /\ Seen(l, r, plan[c], slot, "backward") => plan[c].token[slot] < 0
        /\ plan[c].token[slot] \in Wanted(l, r) => plan[c].token[slot] \in T[c] /\ plan[c].token[slot] # Padding(l)
    BY <1>1, <2>1, <2>2, SeenIsWanted
  <2> HIDE DEF Tok
  <2> QED
    BY <2>1, <2>3
<1>6. ASSUME NEW o, NEW k, NEW c, NEW slot, Home(o, k, c, slot)
      PROVE  o \in GroupOf(l, g) /\ Tok(o, k) \in KeySet(l, a, o)
  <2>1. o \in LayerRanks(l) /\ k \in DOMAIN Keys(l, a, o) /\ o \in GroupOf(l, g)
    BY <1>6 DEF GroupOf
  <2>2. Lists(Keys(l, a, o), KeySet(l, a, o))
    BY <2>1, KeyLists
  <2> QED
    BY <2>1, <2>2, ListFacts
<1>7. ASSUME NEW t, t \in Wanted(l, r), ~Pads(l, r) PROVE \E y \in keys : y[1] = t
  <2>1. PICK c \in DOMAIN plan : t \in T[c] /\ r \in plan[c].backward
    BY <1>2, <1>7 DEF Works, Served
  <2>2. Carries(l, plan[c], T[c]) /\ T[c] \subseteq -l.seq .. l.seq - 1
    BY <1>2, <2>1 DEF Works, Shared
  <2>3. PICK slot \in DOMAIN plan[c].token : plan[c].token[slot] = t
    BY <2>1, <2>2 DEF Carries
  <2> HIDE DEF plan
  <2>4. Seen(l, r, plan[c], slot, "backward") /\ plan[c].token[slot] # Padding(l)
    BY <1>1, <1>7, <2>2, <2>3, SeenIsWanted
  <2> QED
    BY <1>4, <2>1, <2>3, <2>4
<1> HIDE DEF keys, plan, Tok, Home
<1>8. \A y \in keys : \E o, k, c, slot : Home(o, k, c, slot) /\ y[1] = Tok(o, k) /\ y = <<Tok(o, k), o, <<v, c, slot>>>>
  <2>1. ASSUME NEW y \in keys
        PROVE  \E o, k, c, slot : Home(o, k, c, slot) /\ y[1] = Tok(o, k) /\ y = <<Tok(o, k), o, <<v, c, slot>>>>
    <3>1. PICK o, k, c, slot : Home(o, k, c, slot) /\ y = <<Tok(o, k), o, <<v, c, slot>>>>
      BY <1>3
    <3>2. y[1] = Tok(o, k)
      BY <3>1
    <3> QED
      BY <3>1, <3>2
  <2> QED
    BY <2>1
<1>9. ASSUME NEW x \in keys, NEW y \in keys, x[1] = y[1], ~Pads(l, r) PROVE x = y
  <2>1. PICK o, k, c, slot : Home(o, k, c, slot) /\ x[1] = Tok(o, k) /\ x = <<Tok(o, k), o, <<v, c, slot>>>>
    BY <1>8
  <2>2. PICK q, h, d, j : Home(q, h, d, j) /\ y[1] = Tok(q, h) /\ y = <<Tok(q, h), q, <<v, d, j>>>>
    BY <1>8
  <2>3. Tok(o, k) = Tok(q, h)
    BY <1>9, <2>1, <2>2
  <2>4. o = q
    BY <1>6, <2>1, <2>2, <2>3, KeysApart DEF Apart
  <2>5. c \in DOMAIN plan /\ d \in DOMAIN plan /\ slot \in DOMAIN plan[c].token /\ j \in DOMAIN plan[d].token
        /\ plan[c].token[slot] = Tok(o, k) /\ plan[d].token[j] = Tok(o, k)
        /\ Tok(o, k) \in T[c] /\ Tok(o, k) \in T[d] /\ Tok(o, k) # Padding(l)
    BY <1>5, <1>9, <2>1, <2>2, <2>3
  <2>6. c = d
    BY <1>2, <2>5 DEF Works, Shared, Apart, plan
  <2>7. Carries(l, plan[c], T[c])
    BY <1>2, <2>5 DEF Works, Shared, plan
  <2>8. slot = j
    BY <2>5, <2>6, <2>7 DEF Carries
  <2> QED
    BY <2>1, <2>2, <2>3, <2>4, <2>6, <2>8
<1>10. AreWanted(l, r, keys)
  <2>1. CASE Pads(l, r)
    <3>1. \A y \in keys : y[1] < 0
      BY <1>5, <1>8, <2>1
    <3> QED
      BY <2>1, <3>1 DEF AreWanted
  <2>2. CASE ~Pads(l, r)
    <3>1. \A y \in keys : y[1] \in Wanted(l, r)
      BY <1>5, <1>8, <2>2
    <3> QED
      BY <1>7, <1>9, <2>2, <3>1 DEF AreWanted
  <2> QED
    BY <2>1, <2>2
<1> QED
  BY <1>1, <1>10, OnceEach DEF keys

\* A row of another group's rank adds nothing here.
LEMMA NothingFromOthers ==
  ASSUME NEW l, IsLayer(l), ResponsesGathered(l), NEW a, Dealt(l, a), NEW g, Returns(l, a, g),
         NEW r, \A u \in GroupOf(l, g) : r \notin Rows(l, a, u)
  PROVE  ContributedIn(l, a, g, r) = {}
<1>1. ASSUME NEW y \in ContributedIn(l, a, g, r) PROVE FALSE
  <2>1. PICK o \in GroupOf(l, g) : \E k \in DOMAIN Keys(l, a, o) : \E x \in Collected(l, a, o)[k] :
          Adds(l, a, r, x) /\ y = <<Keys(l, a, o)[k], o, x>>
    BY WhatIsContributed
  <2>2. PICK k \in DOMAIN Keys(l, a, o) : \E x \in Collected(l, a, o)[k] :
          Adds(l, a, r, x) /\ y = <<Keys(l, a, o)[k], o, x>>
    BY <2>1
  <2>3. PICK x \in Collected(l, a, o)[k] : Adds(l, a, r, x)
    BY <2>2
  <2>4. \E u \in GroupOf(l, g) : r \in Rows(l, a, u)
    BY <2>3, AddsInItsRank DEF FromItsRank
  <2> QED
    BY <2>4
<1> QED
  BY <1>1

\* A number below n is its own remainder.
LEMMA OwnRemainder ==
  ASSUME NEW n \in Nat \ {0}, NEW x \in 0 .. n - 1
  PROVE  x % n = x
<1> DEFINE q == x \div n
           m == x % n
<1>1. x \in Int
  OBVIOUS
<1>2. x = n * q + m /\ m \in 0 .. n - 1 /\ q \in Int
  BY <1>1, Division
<1> HIDE DEF q, m
<1> DEFINE z == n * q
<1>3. z \in Int
  BY <1>2
<1>4. z < n /\ -n < z
  <2>1. x = z + m
    BY <1>2
  <2> HIDE DEF z
  <2> QED
    BY <1>1, <1>2, <1>3, <2>1
<1>5. q = 0
  BY <1>2, <1>4, NoMultipleBetween
<1>6. z = 0
  BY <1>5
<1>7. m = x
  <2>1. x = z + m
    BY <1>2
  <2> HIDE DEF z
  <2> QED
    BY <1>1, <1>2, <1>6, <2>1
<1> QED
  BY <1>7 DEF m

\* A rank of a group.
LEMMA Member ==
  ASSUME NEW l, IsLayer(l), NEW g, NEW v \in GroupOf(l, g)
  PROVE  /\ v \in LayerRanks(l) /\ v \div l.cp = g /\ ContextRank(l, v) \in Places(l) /\ g \in Groups(l)
         /\ \A c \in Places(l) : /\ Peer(l, v, c) \in GroupOf(l, g)
                                   /\ ContextRank(l, Peer(l, v, c)) = c
                                   /\ Held(l, Peer(l, v, c)) = Owned(l, c)
<1>1. v \in LayerRanks(l) /\ v \div l.cp = g
  BY DEF GroupOf
<1>2. ContextRank(l, v) \in Places(l) /\ g \in Groups(l)
  BY <1>1, Placing DEF IsPlaced, Groups
<1> QED
  BY <1>1, <1>2, PeersOf

\* The slots of a gathered launch.
LEMMA GatheredSlots ==
  ASSUME NEW l, IsLayer(l), l.transport \in {"collective", "pure"}, NEW a, NEW v \in LayerRanks(l)
  PROVE  /\ DOMAIN Plan(l, a, v) = {1, 2}
         /\ Plan(l, a, v)[1].token = OwnerToLogical(l)
         /\ Plan(l, a, v)[2] = ActiveChunk(l, a, v)
<1> DEFINE first == GatheredChunk(l, a, v)
           second == ActiveChunk(l, a, v)
<1>1. Plan(l, a, v) = <<first, second>>
  BY DEF Plan
<1>2. Gathered(l, v \div l.cp) = OwnerToLogical(l)
  <2>1. v \div l.cp \in Groups(l)
    BY DEF Groups
  <2> QED
    BY <2>1, GatheredAsTold
<1>3. first.token = OwnerToLogical(l)
  BY <1>2 DEF GatheredChunk, Chunk
<1> HIDE DEF first, second
<1>4. DOMAIN <<first, second>> = {1, 2} /\ <<first, second>>[1] = first /\ <<first, second>>[2] = second
  OBVIOUS
<1> QED
  BY <1>1, <1>3, <1>4 DEF second

\* The reduce-scatter takes the slots of a token to its owner.
LEMMA GatheredCleanReturn ==
  ASSUME NEW l, IsLayer(l), l.transport \in {"collective", "pure"}, NEW a, NEW g
  PROVE  CleanReturn(l, a, g)
<1> SUFFICES ASSUME NEW o \in GroupOf(l, g), NEW v \in GroupOf(l, g), NEW k \in 1 .. Len(Held(l, o)),
                    NEW p \in GradientPlaces(l, a, o, v, k)
             PROVE  p = <<p[1], p[2]>> /\ IsSlot(l, a, v, p[1], p[2], Held(l, o)[k])
  BY DEF CleanReturn
<1> DEFINE c == ContextRank(l, o)
           L == Longest(l)
           s == OwnerToLogical(l)
<1>1. p = <<1, c * L + k>>
  BY DEF GradientPlaces
<1>2. c \in Places(l) /\ v \in LayerRanks(l) /\ Held(l, o) = Owned(l, c)
  BY Member DEF Held
<1>3. c * L + k \in DOMAIN s /\ s[c * L + k] = Held(l, o)[k]
  <2>1. IsGathered(l, s)
    BY OwnersGathered
  <2> HIDE DEF s, c
  <2> QED
    BY <1>2, <2>1 DEF IsGathered
<1>4. DOMAIN Plan(l, a, v) = {1, 2} /\ Plan(l, a, v)[1].token = s
  BY <1>2, GatheredSlots
<1> HIDE DEF s, c, L
<1>5. p[1] = 1 /\ p[2] = c * L + k /\ p = <<p[1], p[2]>>
  BY <1>1
<1> QED
  BY <1>3, <1>4, <1>5 DEF IsSlot

\* The gathered slots come from the owners.
LEMMA GatheredReached ==
  ASSUME NEW l, IsLayer(l), l.transport \in {"collective", "pure"}, NEW a, NEW g,
         NEW v \in GroupOf(l, g), NEW slot \in DOMAIN OwnerToLogical(l), OwnerToLogical(l)[slot] # Padding(l)
  PROVE  Reached(l, a, g, v, 1, slot)
<1> DEFINE L == Longest(l)
           s == OwnerToLogical(l)
<1>1. IsGathered(l, s)
  BY OwnersGathered
<1>2. PICK c \in Places(l) : \E k \in 1 .. Len(Owned(l, c)) : slot = c * L + k
  BY <1>1 DEF IsGathered
<1>3. PICK k \in 1 .. Len(Owned(l, c)) : slot = c * L + k
  BY <1>2
<1> DEFINE o == Peer(l, v, c)
<1>4. o \in GroupOf(l, g) /\ ContextRank(l, o) = c /\ Held(l, o) = Owned(l, c)
  BY Member
<1> HIDE DEF o
<1>5. GradientPlaces(l, a, o, v, k) = {<<1, c * L + k>>}
  BY <1>4 DEF GradientPlaces
<1>6. <<1, slot>> \in GradientPlaces(l, a, o, v, k)
  BY <1>3, <1>5
<1> QED
  BY <1>4, <1>6 DEF Reached

\* All gathered: fused ranks keep their denoised keys to themselves.
LEMMA CollectiveReturns ==
  ASSUME NEW l, IsLayer(l), l.transport = "collective", NEW a, Dealt(l, a), NEW g
  PROVE  Returns(l, a, g)
<1>1. CleanReturn(l, a, g)
  BY GatheredCleanReturn
<1>2. ASSUME NEW v \in GroupOf(l, g)
      PROVE  /\ DOMAIN Plan(l, a, v) = {1, 2} /\ Plan(l, a, v)[1].token = OwnerToLogical(l)
             /\ Plan(l, a, v)[2].token = ActiveShard(l, a, v)
             /\ DOMAIN ActiveShard(l, a, v) = 1 .. Len(ActiveShard(l, a, v))
  <2>1. v \in LayerRanks(l)
    BY Member
  <2>2. ActiveChunk(l, a, v).token = ActiveShard(l, a, v)
    BY DEF ActiveChunk, Chunk
  <2>3. DOMAIN ActiveShard(l, a, v) = 1 .. Len(ActiveShard(l, a, v))
    BY <2>1, Actives, ListFacts DEF IsActive
  <2> QED
    BY <2>1, <2>2, <2>3, GatheredSlots
<1>3. ActiveReturn(l, a, g)
  <2> SUFFICES ASSUME NEW o \in GroupOf(l, g), NEW v \in GroupOf(l, g), NEW k \in 1 .. Len(ActiveShard(l, a, o)),
                      NEW p \in ActiveGradientPlaces(l, a, o, v, k)
               PROVE  p = <<p[1], p[2]>> /\ IsSlot(l, a, v, p[1], p[2], ActiveShard(l, a, o)[k])
    BY DEF ActiveReturn
  <2>1. o = v /\ p = <<2, k>>
    BY DEF ActiveGradientPlaces
  <2>2. p[1] = 2 /\ p[2] = k /\ p = <<p[1], p[2]>>
    BY <2>1
  <2> QED
    BY <1>2, <2>1, <2>2 DEF IsSlot
<1>4. AllReached(l, a, g)
  <2> SUFFICES ASSUME NEW v \in GroupOf(l, g), NEW c \in DOMAIN Plan(l, a, v),
                      NEW slot \in DOMAIN Plan(l, a, v)[c].token, Plan(l, a, v)[c].token[slot] # Padding(l)
               PROVE  Reached(l, a, g, v, c, slot)
    BY DEF AllReached
  <2>1. CASE c = 1
    BY <1>2, <2>1, GatheredReached
  <2>2. CASE c = 2
    <3>1. slot \in 1 .. Len(ActiveShard(l, a, v))
      BY <1>2, <2>2
    <3>2. ActiveGradientPlaces(l, a, v, v, slot) = {<<2, slot>>}
      BY DEF ActiveGradientPlaces
    <3> QED
      BY <2>2, <3>1, <3>2 DEF Reached
  <2> QED
    BY <1>2, <2>1, <2>2
<1> QED
  BY <1>1, <1>3, <1>4 DEF Returns

\* All gathered, denoised slices too.
LEMMA PureReturns ==
  ASSUME NEW l, IsLayer(l), l.transport = "pure", NEW a, NEW g
  PROVE  Returns(l, a, g)
<1> DEFINE s == OwnerPositions(l, a)
           ord == LogicalOrder(l, a)
           maj == RankMajorOrder(l, a)
           R == SliceRows(l)
<1>1. CleanReturn(l, a, g)
  BY GatheredCleanReturn
<1>2. /\ \A p \in DOMAIN s : ord[p] \in DOMAIN s
      /\ \A j \in DOMAIN s : maj[j] \in DOMAIN s /\ ord[maj[j]] = j
      /\ \A p \in DOMAIN s : maj[ord[p]] = p
  BY Ordered DEF IsOrdered
<1>3. ASSUME NEW v \in GroupOf(l, g)
      PROVE  /\ DOMAIN Plan(l, a, v) = {1, 2} /\ Plan(l, a, v)[1].token = OwnerToLogical(l)
             /\ Plan(l, a, v)[2].token = [p \in DOMAIN s |-> s[ord[p]]]
  <2>1. v \in LayerRanks(l)
    BY Member
  <2> QED
    BY <2>1, GatheredSlots, SliceTokens
<1>4. ASSUME NEW o \in GroupOf(l, g)
      PROVE  ContextRank(l, o) = o /\ o \in Places(l) /\ Len(ActiveShard(l, a, o)) = R
  <2>1. o \in 0 .. l.cp - 1 /\ o \in Places(l)
    BY DEF GroupOf, LayerRanks, Pure, Places, IsLayer
  <2>2. l.cp \in Nat \ {0}
    BY DEF IsLayer
  <2> DEFINE n == l.cp
  <2> HIDE DEF n
  <2>3. n \in Nat \ {0} /\ o \in 0 .. n - 1 /\ n = l.cp
    BY <2>1, <2>2 DEF n
  <2>5. o % n = o
    BY <2>3, OwnRemainder
  <2>6. Len(ActiveShard(l, a, o)) = R
    BY <2>1, AllSliced DEF IsSliced
  <2> QED
    BY <2>1, <2>3, <2>5, <2>6 DEF ContextRank
<1>5. IsInTurn(l, a, s)
  BY InTurn
<1> HIDE DEF s, ord, maj
<1>6. ActiveReturn(l, a, g)
  <2> SUFFICES ASSUME NEW o \in GroupOf(l, g), NEW v \in GroupOf(l, g), NEW k \in 1 .. Len(ActiveShard(l, a, o)),
                      NEW p \in ActiveGradientPlaces(l, a, o, v, k)
               PROVE  p = <<p[1], p[2]>> /\ IsSlot(l, a, v, p[1], p[2], ActiveShard(l, a, o)[k])
    BY DEF ActiveReturn
  <2> DEFINE j == o * R + k
  <2>1. p = <<2, maj[j]>>
    BY <1>4 DEF ActiveGradientPlaces, maj
  <2>2. j \in DOMAIN s /\ s[j] = ActiveShard(l, a, o)[k]
    BY <1>4, <1>5 DEF IsInTurn
  <2> HIDE DEF j
  <2>3. p[1] = 2 /\ p[2] = maj[j] /\ p = <<p[1], p[2]>>
    BY <2>1
  <2>4. maj[j] \in DOMAIN s /\ ord[maj[j]] = j
    BY <1>2, <2>2
  <2>5. maj[j] \in DOMAIN Plan(l, a, v)[2].token /\ Plan(l, a, v)[2].token[maj[j]] = s[j] /\ 2 \in DOMAIN Plan(l, a, v)
    <3> DEFINE f == [x \in DOMAIN s |-> s[ord[x]]]
               token == Plan(l, a, v)[2].token
               m == maj[j]
    <3>1. token = f /\ 2 \in DOMAIN Plan(l, a, v)
      BY <1>3
    <3>2. m \in DOMAIN s /\ ord[m] = j
      BY <2>4
    <3> HIDE DEF token, m
    <3>3. m \in DOMAIN token /\ token[m] = s[j]
      BY <3>1, <3>2
    <3> QED
      BY <3>1, <3>3 DEF token, m
  <2>6. IsSlot(l, a, v, 2, maj[j], ActiveShard(l, a, o)[k])
    BY <2>2, <2>5 DEF IsSlot
  <2> QED
    BY <2>3, <2>6
<1>7. AllReached(l, a, g)
  <2> SUFFICES ASSUME NEW v \in GroupOf(l, g), NEW c \in DOMAIN Plan(l, a, v),
                      NEW slot \in DOMAIN Plan(l, a, v)[c].token, Plan(l, a, v)[c].token[slot] # Padding(l)
               PROVE  Reached(l, a, g, v, c, slot)
    BY DEF AllReached
  <2>1. CASE c = 1
    BY <1>3, <2>1, GatheredReached
  <2>2. CASE c = 2
    <3>1. slot \in DOMAIN s
      BY <1>3, <2>2
    <3>2. ord[slot] \in DOMAIN s /\ maj[ord[slot]] = slot
      BY <1>2, <3>1
    <3>3. PICK d \in Places(l), k \in 1 .. R : ord[slot] = d * R + k
      BY <1>5, <3>2 DEF IsInTurn
    <3> DEFINE o == Peer(l, v, d)
    <3>4. o \in GroupOf(l, g) /\ ContextRank(l, o) = d
      BY Member
    <3> HIDE DEF o
    <3>5. o = d /\ Len(ActiveShard(l, a, o)) = R
      BY <1>4, <3>4
    <3>6. ActiveGradientPlaces(l, a, o, v, k) = {<<2, maj[d * R + k]>>}
      BY <3>4, <3>5 DEF ActiveGradientPlaces, maj
    <3>7. <<2, slot>> \in ActiveGradientPlaces(l, a, o, v, k)
      BY <3>2, <3>3, <3>6
    <3>8. k \in 1 .. Len(ActiveShard(l, a, o))
      BY <3>3, <3>5
    <3> QED
      BY <2>2, <3>4, <3>7, <3>8 DEF Reached
  <2> QED
    BY <1>3, <2>1, <2>2
<1> QED
  BY <1>1, <1>6, <1>7 DEF Returns

\* One launch of all keys in logical order.
LEMMA FullReturns ==
  ASSUME NEW l, IsLayer(l), l.transport = "full", NEW a, NEW g
  PROVE  Returns(l, a, g)
<1> DEFINE n == l.seq
           L == Longest(l)
           s == OwnerToLogical(l)
           run == Run(-n, n)
<1>1. n \in Nat /\ First(l) = -n
  BY DEF IsLayer, First
<1>2. ASSUME NEW v \in GroupOf(l, g)
      PROVE  DOMAIN Plan(l, a, v) = {1} /\ Plan(l, a, v)[1].token = run
  <2> DEFINE first == GatheredChunk(l, a, v)
  <2>1. v \in LayerRanks(l)
    BY Member
  <2>2. Plan(l, a, v) = <<first>>
    BY DEF Plan
  <2>3. first.token = run
    BY <2>1, LogicalCarries
  <2> HIDE DEF first, run
  <2>4. DOMAIN <<first>> = {1} /\ <<first>>[1] = first
    OBVIOUS
  <2> QED
    BY <2>2, <2>3, <2>4
<1>3. DOMAIN run = 1 .. n + n /\ \A k \in 1 .. n + n : run[k] = k - 1 - n
  <2>1. n - (-n) = n + n
    BY <1>1
  <2>2. run = [k \in 1 .. n + n |-> -n + k - 1]
    BY <2>1 DEF Run
  <2> HIDE DEF n, run
  <2>3. \A k \in 1 .. n + n : -n + k - 1 = k - 1 - n
    BY <1>1
  <2> QED
    BY <2>2, <2>3
<1>4. ASSUME NEW o \in GroupOf(l, g), NEW v \in GroupOf(l, g), NEW k \in 1 .. Len(Held(l, o))
      PROVE  /\ Held(l, o)[k] \in -n .. n - 1
             /\ GradientPlaces(l, a, o, v, k) = {<<1, Held(l, o)[k] + n + 1>>}
  <2> DEFINE c == ContextRank(l, o)
  <2>1. c \in Places(l) /\ Held(l, o) = Owned(l, c)
    BY Member DEF Held
  <2>2. s[c * L + k] = Held(l, o)[k]
    <3> HIDE DEF c, s
    <3>1. IsGathered(l, s)
      BY OwnersGathered DEF s
    <3> QED
      BY <2>1, <3>1 DEF IsGathered
  <2>3. GradientPlaces(l, a, o, v, k) = {<<1, s[c * L + k] + n + 1>>}
    BY DEF GradientPlaces
  <2>4. Held(l, o)[k] \in First(l) .. l.seq - 1
    <3>1. Lists(Owned(l, c), OwnedSet(l, c)) /\ OwnedSet(l, c) \subseteq First(l) .. l.seq - 1
      BY <2>1, OwnedLists, OwnedOnce
    <3>2. Owned(l, c)[k] \in OwnedSet(l, c)
      BY <2>1, <3>1, ListFacts
    <3> QED
      BY <2>1, <3>1, <3>2
  <2> QED
    BY <1>1, <2>2, <2>3, <2>4
<1> HIDE DEF n, run, s
<1>5. CleanReturn(l, a, g)
  <2> SUFFICES ASSUME NEW o \in GroupOf(l, g), NEW v \in GroupOf(l, g), NEW k \in 1 .. Len(Held(l, o)),
                      NEW p \in GradientPlaces(l, a, o, v, k)
               PROVE  p = <<p[1], p[2]>> /\ IsSlot(l, a, v, p[1], p[2], Held(l, o)[k])
    BY DEF CleanReturn
  <2> DEFINE t == Held(l, o)[k]
  <2>1. t \in -n .. n - 1 /\ p = <<1, t + n + 1>>
    BY <1>4
  <2> HIDE DEF t
  <2>2. p[1] = 1 /\ p[2] = t + n + 1 /\ p = <<p[1], p[2]>>
    BY <2>1
  <2>3. t + n + 1 \in 1 .. n + n /\ (t + n + 1) - 1 - n = t
    BY <1>1, <2>1
  <2>4. run[t + n + 1] = t
    BY <1>3, <2>3
  <2> QED
    BY <1>2, <1>3, <2>2, <2>3, <2>4 DEF IsSlot, t
<1>6. ActiveReturn(l, a, g)
  <2>1. \A o : ActiveShard(l, a, o) = <<>>
    BY NoActives DEF Denoises
  <2>2. Len(<<>>) = 0 /\ 1 .. 0 = {}
    BY EmptyLists
  <2> QED
    BY <2>1, <2>2 DEF ActiveReturn
<1>7. AllReached(l, a, g)
  <2> SUFFICES ASSUME NEW v \in GroupOf(l, g), NEW c \in DOMAIN Plan(l, a, v),
                      NEW slot \in DOMAIN Plan(l, a, v)[c].token, Plan(l, a, v)[c].token[slot] # Padding(l)
               PROVE  Reached(l, a, g, v, c, slot)
    BY DEF AllReached
  <2> DEFINE t == slot - 1 - n
  <2>1. c = 1 /\ slot \in 1 .. n + n
    BY <1>2, <1>3
  <2>2. t \in -n .. n - 1 /\ t + n + 1 = slot
    BY <1>1, <2>1
  <2> HIDE DEF t
  <2>3. PICK d \in Places(l) : t \in OwnedSet(l, d)
    BY <1>1, <2>2, OwnedOnce DEF n
  <2>4. PICK k \in 1 .. Len(Owned(l, d)) : Owned(l, d)[k] = t
    BY <2>3, OwnedLists DEF Lists
  <2> DEFINE o == Peer(l, v, d)
  <2>5. o \in GroupOf(l, g) /\ Held(l, o) = Owned(l, d)
    BY Member
  <2> HIDE DEF o
  <2>6. GradientPlaces(l, a, o, v, k) = {<<1, slot>>}
    BY <1>4, <2>2, <2>4, <2>5
  <2> QED
    BY <2>1, <2>4, <2>5, <2>6 DEF Reached
<1> QED
  BY <1>5, <1>6, <1>7 DEF Returns

\* The slots of a turn: a shard, and behind the rank's own its denoised keys.
IsTurn(l, a, v, c) ==
  LET n == Turn(l.cp, ContextRank(l, v), c)
      s == Owned(l, c)
      u == ActiveShard(l, a, v)
  IN /\ n \in DOMAIN Plan(l, a, v)
     /\ Len(s) \in Nat /\ Len(u) \in Nat
     /\ \A k \in 1 .. Len(s) : k \in DOMAIN Plan(l, a, v)[n].token /\ Plan(l, a, v)[n].token[k] = s[k]
     /\ c = ContextRank(l, v) =>
          /\ n = 1
          /\ \A k \in 1 .. Len(u) : /\ Len(s) + k \in DOMAIN Plan(l, a, v)[n].token
                                    /\ Plan(l, a, v)[n].token[Len(s) + k] = u[k]
     /\ \A slot \in DOMAIN Plan(l, a, v)[n].token :
          \/ slot \in 1 .. Len(s)
          \/ c = ContextRank(l, v) /\ \E k \in 1 .. Len(u) : slot = Len(s) + k

\* The slots of a turn of the streaming ring.
LEMMA StreamingSlots ==
  ASSUME NEW l, IsLayer(l), l.transport = "streaming", NEW a, Dealt(l, a), NEW g, NEW v \in GroupOf(l, g),
         NEW c \in Places(l)
  PROVE  IsTurn(l, a, v, c)
<1> DEFINE m == l.cp
           r0 == ContextRank(l, v)
           n == Turn(m, r0, c)
           s == Owned(l, c)
           u == ActiveShard(l, a, v)
           token == Plan(l, a, v)[n].token
           chunk == OwnerChunk(l, a, v, c)
<1>1. v \in LayerRanks(l) /\ r0 \in Places(l) /\ l.transport # "full"
  BY Member
<1>2. m \in Nat \ {0} /\ Places(l) = 0 .. m - 1
  BY DEF IsLayer, Places
<1>3. n \in 1 .. m /\ (r0 + (n - 1)) % m = c /\ (c = r0 => n = 1)
  <2>1. m \in Nat \ {0} /\ r0 \in 0 .. m - 1 /\ c \in 0 .. m - 1
    BY <1>1, <1>2
  <2> HIDE DEF m, r0
  <2>2. /\ \A x \in 0 .. m - 1 : Turn(m, r0, x) \in 1 .. m /\ (r0 + (Turn(m, r0, x) - 1)) % m = x
        /\ \A k \in 1 .. m : (r0 + (k - 1)) % m = r0 => k = 1
    BY <2>1, Turning
  <2> QED
    BY <2>1, <2>2
<1>4. DOMAIN Plan(l, a, v) = 1 .. m /\ Plan(l, a, v)[n] = chunk
  <2>1. Plan(l, a, v) = [k \in 1 .. m |-> OwnerChunk(l, a, v, (r0 + (k - 1)) % m)]
    BY DEF Plan
  <2> HIDE DEF n, m, r0
  <2> QED
    BY <1>3, <2>1
<1>5. /\ c = r0 /\ l.pass # "clean" => chunk.token = s \o u
      /\ c # r0 \/ l.pass = "clean" => chunk.token = s
  BY <1>1, TurnCarries
<1>6. Lists(s, OwnedSet(l, c)) /\ OwnedSet(l, c) \subseteq 0 .. l.seq - 1
  BY <1>1, OwnedLists, OwnedOnce DEF First
<1>7. Lists(u, ActiveSet(l, a, v))
  BY <1>1, Actives DEF IsActive
<1>8. Lists(s \o u, OwnedSet(l, c) \union ActiveSet(l, a, v)) /\ Follows(s, u, s \o u)
  BY <1>1, <1>6, BothLists
<1>9. l.pass = "clean" => u = <<>>
  BY NoActives DEF Denoises
<1>10. Len(<<>>) = 0
  BY EmptyLists
<1>11. token = chunk.token
  BY <1>4
<1> HIDE DEF m, r0, n, s, u, token, chunk
<1>12. Len(s) \in Nat /\ Len(u) \in Nat /\ DOMAIN s = 1 .. Len(s)
  BY <1>6, <1>7, ListFacts
<1>13. DOMAIN (s \o u) = 1 .. Len(s) + Len(u)
  <2> DEFINE b == s \o u
  <2>1. Lists(b, OwnedSet(l, c) \union ActiveSet(l, a, v)) /\ Follows(s, u, b)
    BY <1>8
  <2> HIDE DEF b
  <2>2. DOMAIN b = 1 .. Len(b) /\ Len(b) = Len(s) + Len(u)
    BY <2>1, ListFacts DEF Follows
  <2> QED
    BY <2>2 DEF b
<1>14. CASE c = r0 /\ l.pass # "clean"
  <2> DEFINE b == s \o u
  <2>1. token = b /\ DOMAIN b = 1 .. Len(s) + Len(u) /\ Follows(s, u, b)
    BY <1>5, <1>8, <1>11, <1>13, <1>14
  <2> HIDE DEF b
  <2>2. \A k \in 1 .. Len(s) : k \in DOMAIN token /\ token[k] = s[k]
    BY <1>12, <2>1 DEF Follows
  <2>3. \A k \in 1 .. Len(u) : Len(s) + k \in DOMAIN token /\ token[Len(s) + k] = u[k]
    BY <1>12, <2>1 DEF Follows
  <2>4. ASSUME NEW slot \in DOMAIN token PROVE slot \in 1 .. Len(s) \/ \E k \in 1 .. Len(u) : slot = Len(s) + k
    <3>1. slot \in 1 .. Len(s) \/ (slot - Len(s) \in 1 .. Len(u) /\ slot = Len(s) + (slot - Len(s)))
      BY <1>12, <2>1
    <3> QED
      BY <3>1
  <2> QED
    BY <1>3, <1>4, <1>12, <1>14, <2>2, <2>3, <2>4 DEF IsTurn, token, n, s, u, r0, m
<1>15. CASE ~ (c = r0 /\ l.pass # "clean")
  <2>1. token = s
    BY <1>5, <1>11, <1>15
  <2>2. c = r0 => 1 .. Len(u) = {}
    BY <1>9, <1>10, <1>15
  <2>3. \A k \in 1 .. Len(s) : k \in DOMAIN token /\ token[k] = s[k]
    BY <1>12, <2>1
  <2>4. \A slot \in DOMAIN token : slot \in 1 .. Len(s)
    BY <1>12, <2>1
  <2> QED
    BY <1>3, <1>4, <1>12, <2>2, <2>3, <2>4 DEF IsTurn, token, n, s, u, r0, m
<1> QED
  BY <1>14, <1>15

\* The ring takes every slot's gradient to the owner of its token, and none is lost.
LEMMA StreamingReturns ==
  ASSUME NEW l, IsLayer(l), l.transport = "streaming", NEW a, Dealt(l, a), NEW g
  PROVE  Returns(l, a, g)
<1> DEFINE m == l.cp
           At(v, c) == Turn(m, ContextRank(l, v), c)
<1>1. ASSUME NEW o \in GroupOf(l, g)
      PROVE  ContextRank(l, o) \in Places(l) /\ Held(l, o) = Owned(l, ContextRank(l, o))
  BY Member DEF Held
<1>2. ASSUME NEW o \in GroupOf(l, g), NEW v \in GroupOf(l, g), NEW k
      PROVE  GradientPlaces(l, a, o, v, k) = {<<At(v, ContextRank(l, o)), k>>}
  BY DEF GradientPlaces, Turn
<1>3. CleanReturn(l, a, g)
  <2> SUFFICES ASSUME NEW o \in GroupOf(l, g), NEW v \in GroupOf(l, g), NEW k \in 1 .. Len(Held(l, o)),
                      NEW p \in GradientPlaces(l, a, o, v, k)
               PROVE  p = <<p[1], p[2]>> /\ IsSlot(l, a, v, p[1], p[2], Held(l, o)[k])
    BY DEF CleanReturn
  <2> DEFINE c == ContextRank(l, o)
             n == At(v, c)
  <2>1. c \in Places(l) /\ Held(l, o) = Owned(l, c) /\ p = <<n, k>>
    BY <1>1, <1>2
  <2>2. n \in DOMAIN Plan(l, a, v) /\ k \in DOMAIN Plan(l, a, v)[n].token /\ Plan(l, a, v)[n].token[k] = Owned(l, c)[k]
    <3>1. IsTurn(l, a, v, c)
      BY <2>1, StreamingSlots
    <3> QED
      BY <2>1, <3>1 DEF IsTurn
  <2> HIDE DEF n, c
  <2>3. p[1] = n /\ p[2] = k /\ p = <<p[1], p[2]>>
    BY <2>1
  <2> QED
    BY <2>1, <2>2, <2>3 DEF IsSlot
<1>4. ActiveReturn(l, a, g)
  <2> SUFFICES ASSUME NEW o \in GroupOf(l, g), NEW v \in GroupOf(l, g), NEW k \in 1 .. Len(ActiveShard(l, a, o)),
                      NEW p \in ActiveGradientPlaces(l, a, o, v, k)
               PROVE  p = <<p[1], p[2]>> /\ IsSlot(l, a, v, p[1], p[2], ActiveShard(l, a, o)[k])
    BY DEF ActiveReturn
  <2> DEFINE c == ContextRank(l, v)
             n == Len(Held(l, v)) + k
  <2>1. o = v /\ p = <<1, n>>
    BY DEF ActiveGradientPlaces
  <2>2. c \in Places(l) /\ Held(l, v) = Owned(l, c)
    BY <1>1
  <2>3. 1 \in DOMAIN Plan(l, a, v) /\ n \in DOMAIN Plan(l, a, v)[1].token
        /\ Plan(l, a, v)[1].token[n] = ActiveShard(l, a, v)[k]
    <3> DEFINE j == Turn(l.cp, ContextRank(l, v), c)
               t == Owned(l, c)
               u == ActiveShard(l, a, v)
    <3>1. /\ j \in DOMAIN Plan(l, a, v)
          /\ c = ContextRank(l, v) =>
               /\ j = 1
               /\ \A x \in 1 .. Len(u) : /\ Len(t) + x \in DOMAIN Plan(l, a, v)[j].token
                                         /\ Plan(l, a, v)[j].token[Len(t) + x] = u[x]
      <4> HIDE DEF c
      <4>1. IsTurn(l, a, v, c)
        BY <2>2, StreamingSlots
      <4> QED
        BY <4>1 DEF IsTurn
    <3>2. j = 1 /\ k \in 1 .. Len(u) /\ n = Len(t) + k
      BY <2>1, <2>2, <3>1
    <3> HIDE DEF j, t, u, n
    <3>3. 1 \in DOMAIN Plan(l, a, v) /\ Len(t) + k \in DOMAIN Plan(l, a, v)[1].token
          /\ Plan(l, a, v)[1].token[Len(t) + k] = u[k]
      BY <3>1, <3>2
    <3> QED
      BY <3>2, <3>3 DEF u
  <2> HIDE DEF n, c
  <2>4. p[1] = 1 /\ p[2] = n /\ p = <<p[1], p[2]>>
    BY <2>1
  <2> QED
    BY <2>1, <2>3, <2>4 DEF IsSlot
<1>5. AllReached(l, a, g)
  <2> SUFFICES ASSUME NEW v \in GroupOf(l, g), NEW n \in DOMAIN Plan(l, a, v),
                      NEW slot \in DOMAIN Plan(l, a, v)[n].token
               PROVE  Reached(l, a, g, v, n, slot)
    BY DEF AllReached
  <2> DEFINE r0 == ContextRank(l, v)
             c == (r0 + (n - 1)) % m
             s == Owned(l, c)
             u == ActiveShard(l, a, v)
  <2>1. m \in Nat \ {0} /\ r0 \in 0 .. m - 1 /\ n \in 1 .. m /\ Places(l) = 0 .. m - 1
    <3>1. DOMAIN Plan(l, a, v) = 1 .. m
      BY DEF Plan
    <3> QED
      BY <1>1, <3>1 DEF IsLayer, Places
  <2>2. c \in Places(l) /\ n = Turn(m, r0, c)
    <3> HIDE DEF m, r0
    <3>1. /\ \A k \in 1 .. m : (r0 + (k - 1)) % m \in 0 .. m - 1
          /\ \A x \in 0 .. m - 1 : Turn(m, r0, x) \in 1 .. m /\ (r0 + (Turn(m, r0, x) - 1)) % m = x
          /\ \A j, k \in 1 .. m : (r0 + (j - 1)) % m = (r0 + (k - 1)) % m => j = k
      <4>1. m \in Nat \ {0} /\ r0 \in 0 .. m - 1
        BY <2>1
      <4> QED
        BY <4>1, Turning, Zenon
    <3>2. c \in 0 .. m - 1 /\ n \in 1 .. m
      BY <2>1, <3>1
    <3> DEFINE j == Turn(m, r0, c)
    <3>3. j \in 1 .. m /\ (r0 + (j - 1)) % m = c
      BY <3>1, <3>2
    <3> HIDE DEF j
    <3>4. j = n
      BY <3>1, <3>2, <3>3
    <3> QED
      BY <2>1, <3>2, <3>4 DEF j
  <2> HIDE DEF c, r0
  <2>3. \/ slot \in 1 .. Len(s)
        \/ c = r0 /\ n = 1 /\ \E k \in 1 .. Len(u) : slot = Len(s) + k
    <3>1. /\ c = ContextRank(l, v) => n = 1
          /\ \A j \in DOMAIN Plan(l, a, v)[n].token :
               \/ j \in 1 .. Len(s)
               \/ c = ContextRank(l, v) /\ \E k \in 1 .. Len(u) : j = Len(s) + k
      BY <2>2, StreamingSlots DEF r0, IsTurn
    <3> QED
      BY <3>1 DEF r0
  <2>4. CASE slot \in 1 .. Len(s)
    <3> DEFINE o == Peer(l, v, c)
    <3>1. o \in GroupOf(l, g) /\ ContextRank(l, o) = c /\ Held(l, o) = s
      BY <2>2, Member
    <3> HIDE DEF o
    <3>2. GradientPlaces(l, a, o, v, slot) = {<<n, slot>>}
      BY <1>2, <2>2, <3>1 DEF r0
    <3> QED
      BY <2>4, <3>1, <3>2 DEF Reached
  <2>5. CASE c = r0 /\ n = 1 /\ \E k \in 1 .. Len(u) : slot = Len(s) + k
    <3>1. PICK k \in 1 .. Len(u) : slot = Len(s) + k
      BY <2>5
    <3>2. Held(l, v) = s
      BY <1>1, <2>5 DEF r0
    <3>3. ActiveGradientPlaces(l, a, v, v, k) = {<<1, Len(Held(l, v)) + k>>}
      BY DEF ActiveGradientPlaces
    <3>4. <<n, slot>> \in ActiveGradientPlaces(l, a, v, v, k)
      BY <2>5, <3>1, <3>2, <3>3
    <3> QED
      BY <3>4 DEF Reached
  <2> QED
    BY <2>3, <2>4, <2>5
<1> QED
  BY <1>3, <1>4, <1>5 DEF Returns

\* Sums of a list whose end is nothing.
IsStart(y, z, c) == \A n \in 1 .. Len(z) : y[n] = IF n <= c THEN z[n] ELSE 0

\* The lengths of the first lists add up to as many keys with the rest left out.
LEMMA SumOfStart ==
  ASSUME NEW z \in Seq(Nat), NEW y \in Seq(Nat), Len(y) = Len(z), NEW c \in 0 .. Len(z),
         IsStart(y, z, c)
  PROVE  SumOf(y, Len(z)) = SumOf(z, c)
<1> DEFINE N == Len(z)
           A(n) == SumOf(y, n)
           B(n) == SumOf(z, n)
           G == {n \in 0 .. N : A(n) = B(IF n < c THEN n ELSE c)}
<1>1. N \in Nat /\ c \in 0 .. N
  OBVIOUS
<1>2. /\ A(0) = 0 /\ B(0) = 0
      /\ \A n \in 0 .. N : A(n) \in Nat /\ B(n) \in Nat
      /\ \A n \in 1 .. N : A(n) = A(n - 1) + y[n] /\ B(n) = B(n - 1) + z[n]
  BY Sums
<1>3. \A n \in 1 .. N : y[n] = IF n <= c THEN z[n] ELSE 0
  BY DEF IsStart
<1> HIDE DEF N, A, B
<1>4. 0 \in G
  <2>1. (IF 0 < c THEN 0 ELSE c) = 0
    BY <1>1
  <2> QED
    BY <1>1, <1>2, <2>1
<1>5. ASSUME NEW n \in 0 .. N - 1, n \in G PROVE n + 1 \in G
  <2> DEFINE k == n + 1
  <2>1. k \in 1 .. N /\ k - 1 = n /\ k \in 0 .. N
    BY <1>1
  <2>2. A(n) = B(IF n < c THEN n ELSE c)
    BY <1>5
  <2>3. A(k) = A(n) + y[k] /\ B(k) = B(n) + z[k]
    BY <1>2, <2>1
  <2>4. CASE n < c
    <3>1. k <= c /\ (IF k < c THEN k ELSE c) = k
      BY <1>1, <2>1, <2>4
    <3>2. y[k] = z[k] /\ A(n) = B(n)
      BY <1>3, <2>1, <2>2, <2>4, <3>1
    <3> QED
      BY <2>1, <2>3, <3>1, <3>2
  <2>5. CASE ~ (n < c)
    <3>1. ~ (k <= c) /\ (IF k < c THEN k ELSE c) = c
      BY <1>1, <2>1, <2>5
    <3>2. y[k] = 0
      BY <1>3, <2>1, <3>1
    <3>4. A(n) = B(c)
      BY <2>2, <2>5
    <3>5. A(n) \in Nat
      <4>1. n \in 0 .. N
        BY <1>1
      <4> QED
        BY <1>2, <4>1
    <3>3. A(k) = B(c)
      BY <2>3, <3>2, <3>4, <3>5
    <3> QED
      BY <2>1, <3>1, <3>3
  <2> QED
    BY <2>4, <2>5
<1> HIDE DEF G
<1>6. N \in G
  <2>1. \A n \in 0 .. N : n \in G
    BY <1>1, <1>4, <1>5, UpTo
  <2> QED
    BY <1>1, <2>1
<1>7. (IF N < c THEN N ELSE c) = c
  BY <1>1
<1> QED
  BY <1>6, <1>7 DEF G, A, B, N

\* The first of some lists that are put one after the other.
LEMMA StartOfFlat ==
  ASSUME NEW N \in Nat \ {0}, NEW X, NEW seqs, NEW P, ArePart(seqs, P, N, X), NEW c \in 0 .. N,
         NEW cut, cut = [n \in 1 .. N |-> IF n <= c THEN seqs[n] ELSE <<>>]
  PROVE  Len(FlattenSeq(cut)) = SumOf(Lengths(seqs), c)
<1> DEFINE Q == [n \in 1 .. N |-> IF n <= c THEN P[n] ELSE {}]
<1>1. /\ seqs = [n \in 1 .. N |-> seqs[n]]
      /\ \A n \in 1 .. N : Lists(seqs[n], P[n]) /\ P[n] \subseteq X
      /\ \A m, n \in 1 .. N : m # n => Apart(P[m], P[n])
  BY DEF ArePart
<1>2. ArePart(cut, Q, N, X)
  <2>1. cut = [n \in 1 .. N |-> cut[n]]
    OBVIOUS
  <2>2. \A n \in 1 .. N : Lists(cut[n], Q[n]) /\ Q[n] \subseteq X
    BY <1>1, EmptyLists
  <2>3. \A m, n \in 1 .. N : m # n => Apart(Q[m], Q[n])
    BY <1>1 DEF Apart
  <2> QED
    BY <2>1, <2>2, <2>3 DEF ArePart
<1> HIDE DEF Q
<1>3. IsFlat(FlattenSeq(seqs), seqs, N) /\ IsFlat(FlattenSeq(cut), cut, N)
  BY <1>2, FlattenLists
<1> DEFINE z == Lengths(seqs)
           y == Lengths(cut)
<1>4. z \in Seq(Nat) /\ Len(z) = N /\ y \in Seq(Nat) /\ Len(y) = N /\ Len(FlattenSeq(cut)) = SumOf(y, N)
  BY <1>3 DEF IsFlat
<1>5. \A n \in 1 .. N : z[n] = Len(seqs[n]) /\ y[n] = Len(cut[n])
  <2>1. DOMAIN seqs = 1 .. N /\ DOMAIN cut = 1 .. N
    BY <1>1
  <2> QED
    BY <2>1 DEF Lengths
<1>6. Len(<<>>) = 0
  BY EmptyLists
<1>7. \A n \in 1 .. N : y[n] = IF n <= c THEN z[n] ELSE 0
  BY <1>5, <1>6
<1> HIDE DEF z, y
<1>8. SumOf(y, Len(z)) = SumOf(z, c)
  <2>1. IsStart(y, z, c)
    BY <1>4, <1>7 DEF IsStart
  <2>2. Len(y) = Len(z) /\ c \in 0 .. Len(z) /\ z \in Seq(Nat) /\ y \in Seq(Nat)
    BY <1>4
  <2> QED
    BY <2>1, <2>2, SumOfStart
<1> QED
  BY <1>4, <1>8 DEF z

\* Where the keys of context rank c are among those of the others.
Before(l, a, v, c) ==
  FromOthers(l, v, [n \in 0 .. l.cp - 1 |-> IF n < c THEN Expected(l, a, v, n) ELSE <<>>])
IsBefore(l, a, v, c) ==
  /\ Len(Before(l, a, v, c)) \in Nat
  /\ \A j \in 1 .. Len(Expected(l, a, v, c)) :
       /\ Len(Before(l, a, v, c)) + j \in 1 .. Len(Remote(l, a, v))
       /\ Remote(l, a, v)[Len(Before(l, a, v, c)) + j] = Expected(l, a, v, c)[j]

\* The keys of an owner follow those of the context ranks before it.
LEMMA KeysBefore ==
  ASSUME NEW l, IsLayer(l), l.transport = "windowed", NEW a, NEW v \in LayerRanks(l), NEW c \in Places(l),
         c # ContextRank(l, v)
  PROVE  IsBefore(l, a, v, c) /\ Len(Before(l, a, v, c)) = SumOf(Lengths(RemoteParts(l, a, v)), c)
<1> DEFINE N == l.cp
           seqs == RemoteParts(l, a, v)
           P == RemoteSets(l, a, v)
           X == 0 .. l.seq - 1
           cut == [n \in 1 .. N |-> IF n <= c THEN seqs[n] ELSE <<>>]
           before == Before(l, a, v, c)
           f == Remote(l, a, v)
           e == Expected(l, a, v, c)
<1>1. N \in Nat \ {0} /\ c \in 0 .. N /\ c + 1 \in 1 .. N /\ (c + 1) - 1 = c /\ c \in Int
  BY DEF IsLayer, Places
<1>2. ArePart(seqs, P, N, X)
  BY RemoteArePart
<1>3. before = FlattenSeq(cut)
  <2> DEFINE part == [n \in 0 .. N - 1 |-> IF n < c THEN Expected(l, a, v, n) ELSE <<>>]
             r0 == ContextRank(l, v)
  <2>1. before = FlattenSeq([n \in 1 .. N |-> IF n - 1 = r0 THEN <<>> ELSE part[n - 1]])
    BY DEF Before, FromOthers
  <2>2. seqs = [n \in 1 .. N |-> IF n - 1 = r0 THEN <<>> ELSE Expected(l, a, v, n - 1)]
    BY DEF RemoteParts
  <2> HIDE DEF r0, N, seqs
  <2>3. ASSUME NEW n \in 1 .. N
        PROVE  (IF n - 1 = r0 THEN <<>> ELSE part[n - 1]) = (IF n <= c THEN seqs[n] ELSE <<>>)
    <3>1. n - 1 \in 0 .. N - 1 /\ (n - 1 < c <=> n <= c)
      BY <1>1
    <3>2. part[n - 1] = IF n <= c THEN Expected(l, a, v, n - 1) ELSE <<>>
      BY <3>1
    <3> HIDE DEF part
    <3> QED
      BY <2>2, <3>2
  <2>4. [n \in 1 .. N |-> IF n - 1 = r0 THEN <<>> ELSE part[n - 1]] = cut
    BY <2>3
  <2> QED
    BY <2>1, <2>4
<1>4. Len(FlattenSeq(cut)) = SumOf(Lengths(seqs), c)
  <2> HIDE DEF N, seqs, P, X
  <2> QED
    BY <1>1, <1>2, StartOfFlat
<1>5. IsFlat(f, seqs, N)
  BY RemoteLists DEF IsRemote
<1>6. seqs[c + 1] = e
  BY <1>1 DEF RemoteParts
<1> HIDE DEF N, seqs, P, X, cut, before, f, e
<1>7. \A j \in 1 .. Len(e) : /\ SumOf(Lengths(seqs), c) + j \in 1 .. Len(f)
                             /\ f[SumOf(Lengths(seqs), c) + j] = e[j]
  BY <1>1, <1>5, <1>6 DEF IsFlat
<1>8. SumOf(Lengths(seqs), c) \in Nat
  <2>1. Lengths(seqs) \in Seq(Nat) /\ Len(Lengths(seqs)) = N
    BY <1>5 DEF IsFlat
  <2> DEFINE z == Lengths(seqs)
  <2> HIDE DEF z
  <2>2. z \in Seq(Nat) /\ c \in 0 .. Len(z)
    BY <1>1, <2>1 DEF z
  <2>3. SumOf(z, c) \in Nat
    BY <2>2, Sums
  <2> QED
    BY <2>3 DEF z
<1> QED
  BY <1>3, <1>4, <1>7, <1>8 DEF IsBefore, before, f, e, seqs

\* Every remote key comes from one of the others.
LEMMA RemoteFrom ==
  ASSUME NEW l, IsLayer(l), l.transport = "windowed", NEW a, NEW v \in LayerRanks(l),
         NEW q \in 1 .. Len(Remote(l, a, v))
  PROVE  \E c \in Places(l) : \E j \in 1 .. Len(Expected(l, a, v, c)) :
           c # ContextRank(l, v) /\ q = Len(Before(l, a, v, c)) + j
<1> DEFINE N == l.cp
           seqs == RemoteParts(l, a, v)
           z == Lengths(seqs)
           f == Remote(l, a, v)
           r0 == ContextRank(l, v)
<1>1. N \in Nat \ {0} /\ Places(l) = 0 .. N - 1
  BY DEF IsLayer, Places
<1>2. IsFlat(f, seqs, N)
  BY RemoteLists DEF IsRemote
<1>3. seqs = [n \in 1 .. N |-> IF n - 1 = r0 THEN <<>> ELSE Expected(l, a, v, n - 1)]
  BY DEF RemoteParts
<1>4. z = [n \in DOMAIN seqs |-> Len(seqs[n])]
  BY DEF Lengths
<1> HIDE DEF N, seqs, f, r0
<1>5. z \in Seq(Nat) /\ Len(z) = N /\ Len(f) = SumOf(z, N)
  BY <1>2 DEF IsFlat
<1>6. \A n \in 1 .. N : z[n] = Len(seqs[n])
  <2>1. DOMAIN seqs = 1 .. N
    BY <1>3
  <2> QED
    BY <1>4, <2>1
<1> HIDE DEF z
<1>7. q \in 1 .. SumOf(z, Len(z))
  BY <1>5 DEF f
<1>8. PICK n \in 1 .. Len(z) : \E j \in 1 .. z[n] : q = SumOf(z, n - 1) + j
  BY <1>5, <1>7, PartOf
<1>9. PICK j \in 1 .. z[n] : q = SumOf(z, n - 1) + j
  BY <1>8
<1> DEFINE c == n - 1
<1>10. n \in 1 .. N /\ c \in Places(l) /\ z[n] = Len(seqs[n])
  BY <1>1, <1>5, <1>6, <1>8
<1>11. c # r0
  <2>1. ASSUME c = r0 PROVE FALSE
    <3>1. seqs[n] = <<>>
      BY <1>3, <1>10, <2>1
    <3>2. z[n] = 0
      BY <1>10, <3>1, EmptyLists
    <3> QED
      BY <1>9, <3>2
  <2> QED
    BY <2>1
<1>12. seqs[n] = Expected(l, a, v, c)
  BY <1>3, <1>10, <1>11
<1> HIDE DEF c
<1>13. Len(Before(l, a, v, c)) = SumOf(z, c)
  BY <1>10, <1>11, KeysBefore DEF z, seqs, r0
<1>14. q = Len(Before(l, a, v, c)) + j
  BY <1>9, <1>13 DEF c
<1> QED
  BY <1>9, <1>10, <1>11, <1>12, <1>14 DEF r0

\* The slots of the window's launch: the rank's own shard, what the others sent,
\* the denoised keys.
IsWindowed(l, a, v) ==
  LET s == Held(l, v)
      f == Remote(l, a, v)
      u == ActiveShard(l, a, v)
      token == Plan(l, a, v)[1].token
  IN /\ DOMAIN Plan(l, a, v) = {1} /\ Len(s) \in Nat /\ Len(f) \in Nat /\ Len(u) \in Nat
     /\ DOMAIN token = 1 .. (Len(s) + Len(f)) + Len(u)
     /\ \A k \in 1 .. Len(s) : token[k] = s[k]
     /\ \A k \in 1 .. Len(f) : token[Len(s) + k] = f[k]
     /\ \A k \in 1 .. Len(u) : token[(Len(s) + Len(f)) + k] = u[k]

\* The slots of the launch of a windowed layer.
LEMMA WindowSlots ==
  ASSUME NEW l, IsLayer(l), l.transport = "windowed", NEW a, Dealt(l, a), NEW v \in LayerRanks(l)
  PROVE  IsWindowed(l, a, v)
<1> DEFINE s == Held(l, v)
           f == Remote(l, a, v)
           u == ActiveShard(l, a, v)
           st == s \o f
           chunk == WindowChunk(l, a, v)
           token == Plan(l, a, v)[1].token
<1>1. Plan(l, a, v) = <<chunk>>
  BY DEF Plan
<1>2. IsWindow(l, a, v, chunk)
  BY WindowKeys
<1> HIDE DEF chunk
<1>3. token = chunk.token /\ DOMAIN Plan(l, a, v) = {1}
  BY <1>1
<1>4. Lists(s, OwnedSet(l, ContextRank(l, v))) /\ Lists(f, RemoteSet(l, a, v))
  BY <1>2, RemoteLists DEF IsWindow, IsRemote
<1>5. Lists(u, ActiveSet(l, a, v))
  BY Actives DEF IsActive
<1>6. Follows(s, f, st) /\ Follows(st, u, token)
      /\ Lists(token, LocalSet(l, a, v) \union ActiveSet(l, a, v))
  BY <1>2, <1>3 DEF IsWindow
<1> HIDE DEF s, f, u, st, token
<1>7. Len(s) \in Nat /\ Len(f) \in Nat /\ Len(u) \in Nat
  BY <1>4, <1>5, ListFacts
<1>8. DOMAIN token = 1 .. Len(token)
  BY <1>6, ListFacts
<1>9. Len(st) = Len(s) + Len(f) /\ Len(token) = Len(st) + Len(u)
  BY <1>6 DEF Follows
<1>10. ASSUME NEW k \in 1 .. Len(s) PROVE token[k] = s[k]
  <2>1. k \in 1 .. Len(st)
    BY <1>7, <1>9
  <2> QED
    BY <1>6, <2>1 DEF Follows
<1>11. ASSUME NEW k \in 1 .. Len(f) PROVE token[Len(s) + k] = f[k]
  <2>1. Len(s) + k \in 1 .. Len(st)
    BY <1>7, <1>9
  <2> QED
    BY <1>6, <2>1 DEF Follows
<1>12. ASSUME NEW k \in 1 .. Len(u) PROVE token[(Len(s) + Len(f)) + k] = u[k]
  BY <1>6, <1>9 DEF Follows
<1>13. DOMAIN token = 1 .. (Len(s) + Len(f)) + Len(u)
  BY <1>8, <1>9
<1> QED
  BY <1>3, <1>7, <1>10, <1>11, <1>12, <1>13 DEF IsWindowed, s, f, u, token

\* Where the keys sent by o are among those of v.
IsSending(l, a, o, v) ==
  LET ind == SendIndices(l, a, o, v)
      x == Len(Before(l, a, v, ContextRank(l, o)))
  IN /\ Len(ind) \in Nat /\ DOMAIN ind = 1 .. Len(ind) /\ x \in Nat
     /\ Len(ind) = Len(Expected(l, a, v, ContextRank(l, o)))
     /\ \A n \in 1 .. Len(ind) :
          /\ ind[n] \in DOMAIN Held(l, o)
          /\ x + n \in 1 .. Len(Remote(l, a, v))
          /\ Remote(l, a, v)[x + n] = Held(l, o)[ind[n]]
     /\ \A k : GradientPlaces(l, a, o, v, k)
                 = {<<1, (Len(Held(l, v)) + x) + n>> : n \in {n \in DOMAIN ind : ind[n] = k}}

\* The offsets an owner sends from are those of the tokens the other expects.
LEMMA Sending ==
  ASSUME NEW l, IsLayer(l), l.transport = "windowed", NEW a, NEW g, NEW o \in GroupOf(l, g),
         NEW v \in GroupOf(l, g), o # v
  PROVE  IsSending(l, a, o, v)
<1> DEFINE c == ContextRank(l, o)
           ind == SendIndices(l, a, o, v)
           x == Len(Before(l, a, v, c))
           e == Expected(l, a, v, c)
           f == Remote(l, a, v)
           I == {k \in DOMAIN Held(l, o) : Held(l, o)[k] \in Required(l, a, v)}
<1>1. o \in LayerRanks(l) /\ v \in LayerRanks(l) /\ o \div l.cp = v \div l.cp /\ c \in Places(l)
  BY Member
<1>2. c # ContextRank(l, v)
  BY <1>1, SamePlace
<1>3. Sent(l, a, o, v) = e /\ Len(ind) = Len(e) /\ Lists(ind, I)
  BY <1>1, SentAsExpected
<1>4. Sent(l, a, o, v) = [n \in DOMAIN ind |-> Held(l, o)[ind[n]]]
  BY DEF Sent
<1>5. IsBefore(l, a, v, c)
  BY <1>1, <1>2, KeysBefore
<1>6. /\ x \in Nat
      /\ \A j \in 1 .. Len(e) : x + j \in 1 .. Len(f) /\ f[x + j] = e[j]
  BY <1>5 DEF IsBefore
<1>7. \A k : GradientPlaces(l, a, o, v, k)
               = {<<1, (Len(Held(l, v)) + x) + n>> : n \in {n \in DOMAIN ind : ind[n] = k}}
  BY DEF GradientPlaces, Before
<1>8. I \subseteq DOMAIN Held(l, o)
  OBVIOUS
<1> HIDE DEF c, ind, x, e, f, I
<1>9. Len(ind) \in Nat /\ DOMAIN ind = 1 .. Len(ind) /\ \A n \in 1 .. Len(ind) : ind[n] \in I
  BY <1>3, ListFacts
<1>10. \A n \in 1 .. Len(ind) : e[n] = Held(l, o)[ind[n]]
  BY <1>3, <1>4, <1>9
<1> QED
  BY <1>3, <1>6, <1>7, <1>8, <1>9, <1>10 DEF IsSending, c, ind, x, e, f

\* The reverse all-to-all takes the slots of a token to its owner.
LEMMA WindowedCleanReturn ==
  ASSUME NEW l, IsLayer(l), l.transport = "windowed", NEW a, Dealt(l, a), NEW g
  PROVE  CleanReturn(l, a, g)
<1> SUFFICES ASSUME NEW o \in GroupOf(l, g), NEW v \in GroupOf(l, g), NEW k \in 1 .. Len(Held(l, o)),
                    NEW p \in GradientPlaces(l, a, o, v, k)
             PROVE  p = <<p[1], p[2]>> /\ IsSlot(l, a, v, p[1], p[2], Held(l, o)[k])
  BY DEF CleanReturn
<1> DEFINE h == Len(Held(l, v))
           m == Len(Remote(l, a, v))
           w == Len(ActiveShard(l, a, v))
           token == Plan(l, a, v)[1].token
<1>1. /\ DOMAIN Plan(l, a, v) = {1} /\ h \in Nat /\ m \in Nat /\ w \in Nat
      /\ DOMAIN token = 1 .. (h + m) + w
      /\ \A j \in 1 .. h : token[j] = Held(l, v)[j]
      /\ \A j \in 1 .. m : token[h + j] = Remote(l, a, v)[j]
  <2>1. v \in LayerRanks(l)
    BY Member
  <2> QED
    BY <2>1, WindowSlots DEF IsWindowed
<1>2. CASE o = v
  <2>1. p = <<1, k>>
    BY <1>2 DEF GradientPlaces
  <2> HIDE DEF h, m, w, token
  <2>2. k \in 1 .. h
    BY <1>2 DEF h
  <2>3. 1 \in DOMAIN Plan(l, a, v) /\ k \in DOMAIN token /\ token[k] = Held(l, o)[k]
    BY <1>1, <1>2, <2>2
  <2>4. p[1] = 1 /\ p[2] = k /\ p = <<p[1], p[2]>>
    BY <2>1
  <2> QED
    BY <2>3, <2>4 DEF IsSlot, token
<1>3. CASE o # v
  <2> DEFINE ind == SendIndices(l, a, o, v)
             x == Len(Before(l, a, v, ContextRank(l, o)))
  <2>1. /\ DOMAIN ind = 1 .. Len(ind) /\ x \in Nat /\ Len(ind) \in Nat
        /\ \A n \in 1 .. Len(ind) :
             /\ x + n \in 1 .. m
             /\ Remote(l, a, v)[x + n] = Held(l, o)[ind[n]]
        /\ GradientPlaces(l, a, o, v, k) = {<<1, (h + x) + n>> : n \in {n \in DOMAIN ind : ind[n] = k}}
    <3>1. IsSending(l, a, o, v)
      BY <1>3, Sending
    <3> QED
      BY <3>1 DEF IsSending
  <2> HIDE DEF h, m, w, token, ind, x
  <2>2. PICK n \in 1 .. Len(ind) : ind[n] = k /\ p = <<1, (h + x) + n>>
    BY <2>1
  <2> DEFINE slot == (h + x) + n
  <2>3. x + n \in 1 .. m /\ Remote(l, a, v)[x + n] = Held(l, o)[k]
    BY <2>1, <2>2
  <2>4. slot = h + (x + n) /\ slot \in 1 .. (h + m) + w
    BY <1>1, <2>1, <2>3
  <2>5. 1 \in DOMAIN Plan(l, a, v) /\ slot \in DOMAIN token /\ token[slot] = Held(l, o)[k]
    BY <1>1, <2>3, <2>4
  <2>6. p = <<1, slot>>
    BY <2>2
  <2> HIDE DEF slot
  <2>7. p[1] = 1 /\ p[2] = slot /\ p = <<p[1], p[2]>>
    BY <2>6
  <2> QED
    BY <2>5, <2>7 DEF IsSlot, token
<1> QED
  BY <1>2, <1>3

\* The denoised keys of a windowed layer stay where they are.
LEMMA WindowedActiveReturn ==
  ASSUME NEW l, IsLayer(l), l.transport = "windowed", NEW a, Dealt(l, a), NEW g
  PROVE  /\ ActiveReturn(l, a, g)
         /\ \A v \in GroupOf(l, g) : \A k : ActiveGradientPlaces(l, a, v, v, k)
              = {<<1, (Len(Held(l, v)) + Len(Remote(l, a, v))) + k>>}
<1>1. ASSUME NEW v \in GroupOf(l, g), NEW k
      PROVE  ActiveGradientPlaces(l, a, v, v, k) = {<<1, (Len(Held(l, v)) + Len(Remote(l, a, v))) + k>>}
  <2>1. v \in LayerRanks(l)
    BY Member
  <2>2. Received(l, a, v) = Remote(l, a, v)
    BY <2>1, ReceivedAsExpected
  <2> QED
    BY <2>2 DEF ActiveGradientPlaces
<1>2. ASSUME NEW o \in GroupOf(l, g), NEW v \in GroupOf(l, g), NEW k \in 1 .. Len(ActiveShard(l, a, o)),
             NEW p \in ActiveGradientPlaces(l, a, o, v, k)
      PROVE  p = <<p[1], p[2]>> /\ IsSlot(l, a, v, p[1], p[2], ActiveShard(l, a, o)[k])
  <2> DEFINE h == Len(Held(l, v))
             m == Len(Remote(l, a, v))
             u == ActiveShard(l, a, v)
             slot == (h + m) + k
             token == Plan(l, a, v)[1].token
  <2>1. o = v
    BY DEF ActiveGradientPlaces
  <2>2. p = <<1, slot>>
    BY <1>1, <1>2, <2>1
  <2>3. /\ DOMAIN Plan(l, a, v) = {1} /\ h \in Nat /\ m \in Nat /\ Len(u) \in Nat
        /\ DOMAIN token = 1 .. (h + m) + Len(u)
        /\ \A j \in 1 .. Len(u) : token[(h + m) + j] = u[j]
    <3>1. v \in LayerRanks(l)
      BY Member
    <3> QED
      BY <3>1, WindowSlots DEF IsWindowed
  <2>4. k \in 1 .. Len(u)
    BY <2>1
  <2> HIDE DEF h, m, u, token
  <2>5. 1 \in DOMAIN Plan(l, a, v) /\ slot \in DOMAIN token /\ token[slot] = u[k]
    BY <2>3, <2>4
  <2> HIDE DEF slot
  <2>6. p[1] = 1 /\ p[2] = slot /\ p = <<p[1], p[2]>>
    BY <2>2
  <2> QED
    BY <2>1, <2>5, <2>6 DEF IsSlot, token, u
<1>3. ActiveReturn(l, a, g)
  BY <1>2 DEF ActiveReturn
<1> QED
  BY <1>1, <1>3

\* No slot of a windowed launch is left out on the way home.
LEMMA WindowedReached ==
  ASSUME NEW l, IsLayer(l), l.transport = "windowed", NEW a, Dealt(l, a), NEW g,
         NEW v \in GroupOf(l, g), NEW slot \in DOMAIN Plan(l, a, v)[1].token
  PROVE  Reached(l, a, g, v, 1, slot)
<1> DEFINE h == Len(Held(l, v))
           m == Len(Remote(l, a, v))
           w == Len(ActiveShard(l, a, v))
<1>0. v \in LayerRanks(l)
  BY Member
<1>1. h \in Nat /\ m \in Nat /\ w \in Nat /\ slot \in 1 .. (h + m) + w
  BY <1>0, WindowSlots DEF IsWindowed
<1>2. CASE slot \in 1 .. h
  <2>1. GradientPlaces(l, a, v, v, slot) = {<<1, slot>>}
    BY DEF GradientPlaces
  <2> QED
    BY <1>2, <2>1 DEF Reached
<1>3. CASE slot \in h + 1 .. h + m
  <2> DEFINE q == slot - h
  <2>1. q \in 1 .. m /\ slot = h + q
    BY <1>1, <1>3
  <2> HIDE DEF q
  <2>2. PICK c \in Places(l) : \E j \in 1 .. Len(Expected(l, a, v, c)) :
          c # ContextRank(l, v) /\ q = Len(Before(l, a, v, c)) + j
    BY <1>0, <2>1, RemoteFrom
  <2>3. PICK j \in 1 .. Len(Expected(l, a, v, c)) :
          c # ContextRank(l, v) /\ q = Len(Before(l, a, v, c)) + j
    BY <2>2
  <2> DEFINE o == Peer(l, v, c)
  <2>4. o \in GroupOf(l, g) /\ ContextRank(l, o) = c
    BY Member
  <2> HIDE DEF o
  <2>5. o # v
    BY <2>3, <2>4
  <2> DEFINE ind == SendIndices(l, a, o, v)
             x == Len(Before(l, a, v, c))
             k == ind[j]
  <2>6. /\ DOMAIN ind = 1 .. Len(ind) /\ x \in Nat
        /\ Len(ind) = Len(Expected(l, a, v, c))
        /\ \A n \in 1 .. Len(ind) : ind[n] \in DOMAIN Held(l, o)
        /\ \A y : GradientPlaces(l, a, o, v, y)
                    = {<<1, (h + x) + n>> : n \in {n \in DOMAIN ind : ind[n] = y}}
    <3>1. IsSending(l, a, o, v)
      BY <2>4, <2>5, Sending
    <3> QED
      BY <2>4, <3>1 DEF IsSending
  <2>7. DOMAIN Held(l, o) = 1 .. Len(Held(l, o))
    <3>1. ContextRank(l, o) \in Places(l)
      BY <2>4
    <3> QED
      BY <3>1, OwnedLists, ListFacts DEF Held
  <2> HIDE DEF ind, x, h, m
  <2>8. j \in DOMAIN ind /\ k \in 1 .. Len(Held(l, o)) /\ j \in Nat
    BY <2>3, <2>6, <2>7
  <2>9. slot = (h + x) + j
    BY <1>1, <2>1, <2>3, <2>6, <2>8 DEF x
  <2>10. <<1, slot>> \in GradientPlaces(l, a, o, v, k)
    BY <2>6, <2>8, <2>9
  <2> QED
    BY <2>4, <2>8, <2>10 DEF Reached
<1>4. CASE slot \in (h + m) + 1 .. (h + m) + w
  <2> DEFINE k == slot - (h + m)
  <2>1. k \in 1 .. w /\ slot = (h + m) + k
    BY <1>1, <1>4
  <2> HIDE DEF k
  <2>2. <<1, slot>> \in ActiveGradientPlaces(l, a, v, v, k)
    BY <2>1, WindowedActiveReturn
  <2> QED
    BY <2>1, <2>2 DEF Reached
<1> HIDE DEF h, m, w
<1>5. slot \in 1 .. h \/ slot \in h + 1 .. h + m \/ slot \in (h + m) + 1 .. (h + m) + w
  BY <1>1
<1> QED
  BY <1>2, <1>3, <1>4, <1>5

\* The reverse all-to-all and index_add_ bring every gradient home, and lose none.
LEMMA WindowedReturns ==
  ASSUME NEW l, IsLayer(l), l.transport = "windowed", NEW a, Dealt(l, a), NEW g
  PROVE  Returns(l, a, g)
<1>1. CleanReturn(l, a, g) /\ ActiveReturn(l, a, g)
  BY WindowedCleanReturn, WindowedActiveReturn
<1>2. AllReached(l, a, g)
  <2> SUFFICES ASSUME NEW v \in GroupOf(l, g), NEW n \in DOMAIN Plan(l, a, v),
                      NEW slot \in DOMAIN Plan(l, a, v)[n].token
               PROVE  Reached(l, a, g, v, n, slot)
    BY DEF AllReached
  <2>1. n = 1
    <3>1. v \in LayerRanks(l)
      BY Member
    <3> QED
      BY <3>1, WindowSlots DEF IsWindowed
  <2> QED
    BY <2>1, WindowedReached
<1> QED
  BY <1>1, <1>2 DEF Returns

-----------------------------------------------------------------------------
(* Every transport returns.                                                *)

\* Whatever the transport, every slot's gradient returns to the owner of its token.
LEMMA AllReturn ==
  ASSUME NEW l, IsLayer(l), NEW a, Dealt(l, a), NEW g
  PROVE  Returns(l, a, g)
<1>1. l.transport \in {"collective", "streaming", "windowed", "pure", "full"}
  BY DEF IsLayer, Transports
<1> QED
  BY <1>1, CollectiveReturns, StreamingReturns, WindowedReturns, PureReturns, FullReturns

\* Whose row it is.
LEMMA RowOf ==
  ASSUME NEW l, NEW a, NEW w, NEW p
  PROVE  /\ Row("clean", p) \in Rows(l, a, w) <=> p \in CleanRows(l, w)
         /\ Row("noisy", p) \in Rows(l, a, w) <=> p \in NoisyRows(l, a, w)
<1>1. \A q : Row("clean", q) = [clean |-> TRUE, pos |-> q] /\ Row("noisy", q) = [clean |-> FALSE, pos |-> q]
  BY DEF Row
<1>2. ASSUME NEW x, NEW y, NEW b, NEW d, [clean |-> b, pos |-> x] = [clean |-> d, pos |-> y]
      PROVE  b = d /\ x = y
  <2>1. [clean |-> b, pos |-> x].clean = b /\ [clean |-> d, pos |-> y].clean = d
        /\ [clean |-> b, pos |-> x].pos = x /\ [clean |-> d, pos |-> y].pos = y
    OBVIOUS
  <2> QED
    BY <1>2, <2>1
<1>3. \A x, y : /\ Row("clean", x) = Row("clean", y) => x = y
                /\ Row("noisy", x) = Row("noisy", y) => x = y
                /\ Row("clean", x) # Row("noisy", y)
  BY <1>1, <1>2
<1> QED
  BY <1>3 DEF Rows

\* Every clean row is in one rank of each group.
OnlyRowOf(l, a, r, v, V) == r \in Rows(l, a, v) /\ \A u \in V : r \in Rows(l, a, u) => u = v

\* In each group one rank computes a clean row.
LEMMA CleanRowOnce ==
  ASSUME NEW l, IsLayer(l), l.pass # "noisy", NEW a, NEW g \in Groups(l), NEW p \in Canvas(l)
  PROVE  \E v \in GroupOf(l, g) : OnlyRowOf(l, a, Row("clean", p), v, GroupOf(l, g))
<1> DEFINE r == Row("clean", p)
<1>1. l.seq \in Nat /\ p \in 0 .. l.seq - 1
  BY DEF IsLayer, Canvas
<1>2. p \in First(l) .. l.seq - 1
  BY <1>1 DEF First
<1>3. PICK c \in Places(l) : p \in OwnedSet(l, c)
  BY <1>2, OwnedOnce
<1> DEFINE v == g * l.cp + c
<1>4. v \in GroupOf(l, g) /\ ContextRank(l, v) = c
  BY Peers
<1> HIDE DEF v
<1>5. ASSUME NEW u \in GroupOf(l, g) PROVE r \in Rows(l, a, u) <=> p \in OwnedSet(l, ContextRank(l, u))
  <2>1. ContextRank(l, u) \in Places(l)
    BY Member
  <2>2. Range(Held(l, u)) = OwnedSet(l, ContextRank(l, u))
    BY <2>1, OwnedLists, ListFacts DEF Held
  <2>3. p \in CleanRows(l, u) <=> p \in OwnedSet(l, ContextRank(l, u))
    BY <2>2 DEF CleanRows
  <2> QED
    BY <2>3, RowOf
<1>6. r \in Rows(l, a, v)
  BY <1>3, <1>4, <1>5
<1>7. ASSUME NEW u \in GroupOf(l, g), r \in Rows(l, a, u) PROVE u = v
  <2>1. p \in OwnedSet(l, ContextRank(l, u))
    BY <1>5, <1>7
  <2>2. ContextRank(l, u) \in Places(l) /\ u \in LayerRanks(l) /\ v \in LayerRanks(l)
        /\ u \div l.cp = v \div l.cp
    BY <1>4, Member
  <2>3. ContextRank(l, u) = c
    BY <1>3, <2>1, <2>2, OwnedOnce DEF Apart
  <2> QED
    BY <1>4, <2>2, <2>3, SamePlace
<1> QED
  BY <1>4, <1>6, <1>7 DEF OnlyRowOf

\* Every denoised row is in one rank.
LEMMA NoisyRowOnce ==
  ASSUME NEW l, IsLayer(l), l.pass # "clean", NEW a, Dealt(l, a), NEW p \in Canvas(l)
  PROVE  \E v \in LayerRanks(l) : OnlyRowOf(l, a, Row("noisy", p), v, LayerRanks(l))
<1> DEFINE r == Row("noisy", p)
           t == p - l.seq
<1>1. l.seq \in Nat /\ p \in 0 .. l.seq - 1 /\ t \in -l.seq .. -1
  BY DEF IsLayer, Canvas
<1>2. CASE l.transport = "full"
  <2>1. LayerRanks(l) = 0 .. l.cp - 1 /\ l.cp \in Nat \ {0} /\ Places(l) = 0 .. l.cp - 1
    BY <1>2 DEF IsLayer, LayerRanks, Pure, Places
  <2>2. \A u \in LayerRanks(l) : ContextRank(l, u) = u
    BY <2>1, OwnRemainder DEF ContextRank
  <2>3. t \in First(l) .. l.seq - 1
    BY <1>1, <1>2 DEF First
  <2>4. PICK v \in Places(l) : t \in OwnedSet(l, v)
    BY <2>3, OwnedOnce
  <2>5. ASSUME NEW u \in LayerRanks(l) PROVE r \in Rows(l, a, u) <=> t \in OwnedSet(l, u)
    <3>1. Range(Held(l, u)) = OwnedSet(l, u)
      BY <2>1, <2>2, OwnedLists, ListFacts DEF Held
    <3>2. p \in NoisyRows(l, a, u) <=> t \in OwnedSet(l, u)
      BY <1>2, <3>1 DEF NoisyRows
    <3> QED
      BY <3>2, RowOf
  <2>6. r \in Rows(l, a, v) /\ v \in LayerRanks(l)
    BY <2>1, <2>4, <2>5
  <2>7. ASSUME NEW u \in LayerRanks(l), r \in Rows(l, a, u) PROVE u = v
    BY <2>1, <2>4, <2>5, <2>7, OwnedOnce DEF Apart
  <2> QED
    BY <2>6, <2>7 DEF OnlyRowOf
<1>3. CASE l.transport # "full"
  <2>1. Denoises(l)
    BY <1>3 DEF Denoises
  <2>2. /\ AreRows(l, a)
        /\ \A v, w \in LayerRanks(l) : v # w => Apart(ActiveSet(l, a, v), ActiveSet(l, a, w))
        /\ \A x \in -l.seq .. -1 : \E w \in LayerRanks(l) : x \in ActiveSet(l, a, w)
    BY <1>3, <2>1, Actives DEF IsActive
  <2>3. PICK v \in LayerRanks(l) : t \in ActiveSet(l, a, v)
    BY <1>1, <2>2
  <2>4. ASSUME NEW u \in LayerRanks(l) PROVE r \in Rows(l, a, u) <=> t \in ActiveSet(l, a, u)
    <3>1. p \in NoisyRows(l, a, u) <=> t \in ActiveSet(l, a, u)
      BY <2>2 DEF AreRows
    <3> QED
      BY <3>1, RowOf
  <2> HIDE DEF r, t
  <2>5. r \in Rows(l, a, v)
    BY <2>3, <2>4
  <2>6. ASSUME NEW u \in LayerRanks(l), r \in Rows(l, a, u) PROVE u = v
    BY <2>2, <2>3, <2>4, <2>6 DEF Apart
  <2> QED
    BY <2>5, <2>6 DEF OnlyRowOf, r
<1> QED
  BY <1>2, <1>3

\* The gradients of all rows come home.
CleanHome(l, a, p) ==
  l.pass # "noisy" =>
    \A g \in Groups(l) : ExactlyOnce(l, Row("clean", p), ContributedIn(l, a, g, Row("clean", p)))
NoisyHome(l, a, p) ==
  l.pass # "clean" =>
    ExactlyOnce(l, Row("noisy", p), UNION {ContributedIn(l, a, g, Row("noisy", p)) : g \in Groups(l)})

\* Gradients that return count every row that attends a key once.
LEMMA AllComeHome ==
  ASSUME NEW l, IsLayer(l), ResponsesGathered(l), NEW a, Dealt(l, a), NEW p \in Canvas(l)
  PROVE  CleanHome(l, a, p) /\ NoisyHome(l, a, p)
<1>1. \A g : Returns(l, a, g)
  BY AllReturn
<1>2. ASSUME l.pass # "noisy", NEW g \in Groups(l)
      PROVE  ExactlyOnce(l, Row("clean", p), ContributedIn(l, a, g, Row("clean", p)))
  <2>1. PICK v \in GroupOf(l, g) : OnlyRowOf(l, a, Row("clean", p), v, GroupOf(l, g))
    BY <1>2, CleanRowOnce
  <2> QED
    BY <1>1, <2>1, ComesHome DEF OnlyRowOf
<1>3. ASSUME l.pass # "clean"
      PROVE  ExactlyOnce(l, Row("noisy", p), UNION {ContributedIn(l, a, g, Row("noisy", p)) : g \in Groups(l)})
  <2> DEFINE r == Row("noisy", p)
             In(g) == ContributedIn(l, a, g, r)
  <2>1. PICK v \in LayerRanks(l) : OnlyRowOf(l, a, r, v, LayerRanks(l))
    BY <1>3, NoisyRowOnce
  <2> DEFINE h == v \div l.cp
  <2>2. h \in Groups(l) /\ v \in GroupOf(l, h)
    BY DEF Groups, GroupOf
  <2>3. r \in Rows(l, a, v) /\ \A u \in LayerRanks(l) : r \in Rows(l, a, u) => u = v
    BY <2>1 DEF OnlyRowOf
  <2> HIDE DEF r
  <2>4. ExactlyOnce(l, r, In(h))
    <3>1. \A u \in GroupOf(l, h) : r \in Rows(l, a, u) => u = v
      BY <2>3 DEF GroupOf
    <3> HIDE DEF h
    <3> QED
      BY <1>1, <2>2, <2>3, <3>1, ComesHome
  <2>5. ASSUME NEW g \in Groups(l), g # h PROVE In(g) = {}
    <3>1. \A u \in GroupOf(l, g) : r \notin Rows(l, a, u)
      BY <2>3, <2>5 DEF GroupOf
    <3> QED
      BY <1>1, <3>1, NothingFromOthers
  <2> HIDE DEF h, In
  <2>6. UNION {In(g) : g \in Groups(l)} = In(h)
    BY <2>2, <2>5
  <2> QED
    BY <2>4, <2>6 DEF In, r
<1> QED
  BY <1>2, <1>3 DEF CleanHome, NoisyHome

-----------------------------------------------------------------------------
(* The steps.                                                              *)

\* A plan is the list of its launches.
LEMMA WholePlan ==
  ASSUME NEW l, IsLayer(l), NEW a, NEW w
  PROVE  /\ Turns(l) \in Nat \ {0}
         /\ Plan(l, a, w) = [n \in 1 .. Turns(l) |-> Plan(l, a, w)[n]]
<1>1. \A x, y : /\ <<x>> = [n \in 1 .. 1 |-> <<x>>[n]]
                /\ <<x, y>> = [n \in 1 .. 2 |-> <<x, y>>[n]]
  OBVIOUS
<1>2. l.cp \in Nat \ {0} /\ l.transport \in {"collective", "streaming", "windowed", "pure", "full"}
  BY DEF IsLayer, Transports
<1>3. CASE l.transport = "streaming"
  BY <1>2, <1>3 DEF Plan, Turns
<1>4. CASE l.transport = "windowed"
  <2>1. Turns(l) = 1 /\ Plan(l, a, w) = <<WindowChunk(l, a, w)>>
    BY <1>4 DEF Plan, Turns
  <2> QED
    BY <1>1, <2>1
<1>5. CASE l.transport = "full"
  <2>1. Turns(l) = 1 /\ Plan(l, a, w) = <<GatheredChunk(l, a, w)>>
    BY <1>5 DEF Plan, Turns
  <2> QED
    BY <1>1, <2>1
<1>6. CASE l.transport \in {"collective", "pure"}
  <2>1. Turns(l) = 2 /\ Plan(l, a, w) = <<GatheredChunk(l, a, w), ActiveChunk(l, a, w)>>
    BY <1>6 DEF Plan, Turns
  <2> QED
    BY <1>1, <2>1
<1> QED
  BY <1>2, <1>3, <1>4, <1>5, <1>6

\* The first launches of a plan.
SoFar(l, a, w, n) == [k \in 1 .. n |-> Plan(l, a, w)[k]]
Begun(l, a, w, done) == \E n \in 0 .. Turns(l) : done = SoFar(l, a, w, n)

\* No launch is the beginning of every plan.
LEMMA NothingSoFar ==
  ASSUME NEW l, IsLayer(l), NEW a, NEW w
  PROVE  Begun(l, a, w, <<>>)
<1>1. SoFar(l, a, w, 0) = <<>>
  BY EmptyLists DEF SoFar
<1>2. 0 \in 0 .. Turns(l)
  BY WholePlan
<1> QED
  BY <1>1, <1>2 DEF Begun

\* A whole plan has as many launches as the transport has turns.
LEMMA AllSoFar ==
  ASSUME NEW l, IsLayer(l), NEW a, NEW w
  PROVE  Begun(l, a, w, Plan(l, a, w)) /\ Len(Plan(l, a, w)) = Turns(l)
<1>1. Turns(l) \in Nat \ {0} /\ Plan(l, a, w) = SoFar(l, a, w, Turns(l))
  BY WholePlan DEF SoFar
<1>2. Turns(l) \in 0 .. Turns(l)
  BY <1>1
<1>3. Len(SoFar(l, a, w, Turns(l))) = Turns(l)
  BY <1>1 DEF SoFar
<1> QED
  BY <1>1, <1>2, <1>3 DEF Begun

\* The next launch of a plan that is not finished.
LEMMA Forward ==
  ASSUME NEW l, IsLayer(l), NEW a, NEW w, NEW done, Begun(l, a, w, done)
  PROVE  /\ Len(done) \in 0 .. Turns(l)
         /\ done = SoFar(l, a, w, Len(done))
         /\ Len(done) = Turns(l) => done = Plan(l, a, w)
         /\ Len(done) # Turns(l) =>
              Begun(l, a, w, Append(done, Plan(l, a, w)[Len(done) + 1]))
<1>1. PICK n \in 0 .. Turns(l) : done = SoFar(l, a, w, n)
  BY DEF Begun
<1>2. Turns(l) \in Nat \ {0} /\ Plan(l, a, w) = [k \in 1 .. Turns(l) |-> Plan(l, a, w)[k]]
  BY WholePlan
<1>3. Len(done) = n
  BY <1>1, <1>2 DEF SoFar
<1>4. n = Turns(l) => done = Plan(l, a, w)
  BY <1>1, <1>2 DEF SoFar
<1>5. ASSUME n # Turns(l)
      PROVE  Begun(l, a, w, Append(done, Plan(l, a, w)[n + 1]))
  <2> DEFINE X == {Plan(l, a, w)[k] : k \in 1 .. Turns(l)}
             P(k) == Plan(l, a, w)[k]
  <2>1. n + 1 \in 1 .. Turns(l) /\ n \in Nat /\ n + 1 \in 0 .. Turns(l)
    BY <1>2, <1>5
  <2>2. done = [k \in 1 .. n |-> P(k)] /\ \A k \in 1 .. Turns(l) : P(k) \in X
    BY <1>1 DEF SoFar
  <2> HIDE DEF P, X
  <2>3. done \in Seq(X) /\ P(n + 1) \in X
    <3>1. \A k \in 1 .. n : P(k) \in X
      <4>1. 1 .. n \subseteq 1 .. Turns(l)
        BY <1>2, <2>1
      <4> QED
        BY <2>2, <4>1
    <3> QED
      BY <2>1, <2>2, <3>1
  <2>4. Append(done, P(n + 1)) = [k \in 1 .. n + 1 |-> P(k)]
    <3>1. /\ Append(done, P(n + 1)) \in Seq(X) /\ Len(Append(done, P(n + 1))) = n + 1
          /\ \A k \in 1 .. n : Append(done, P(n + 1))[k] = done[k]
          /\ Append(done, P(n + 1))[n + 1] = P(n + 1)
      BY <1>3, <2>3
    <3> DEFINE app == Append(done, P(n + 1))
    <3>2. DOMAIN app = 1 .. n + 1 /\ app = [k \in DOMAIN app |-> app[k]]
      BY <2>1, <3>1
    <3>3. \A k \in 1 .. n + 1 : app[k] = P(k)
      BY <2>1, <2>2, <3>1
    <3> HIDE DEF app
    <3> QED
      BY <3>2, <3>3 DEF app
  <2> QED
    BY <2>1, <2>4 DEF Begun, SoFar, P
<1> QED
  BY <1>1, <1>3, <1>4, <1>5

\* What the schedule's steps leave alone.
LEMMA ScheduleSteps ==
  ASSUME Next
  PROVE  UNCHANGED inputs /\ (phase = "built" => UNCHANGED vars)
  BY DEF Next, inputs, vars, StartDualEnd, StartContiguous, DealPairs, Middle, PlaceBlock, AllPlaced,
         DealShard, ShardsDealt, DealKV, Built, Returned

\* The layer's schedule is the one that is built for it, and a rank's launches are
\* the first ones of its plan, until all are there and the gradients return.
Fits(l) ==
  /\ policy = "dual_end" /\ blocks = l.seq \div l.block /\ workers = l.bp /\ ranks = l.cp
  /\ DOMAIN chunks = LayerRanks(l) /\ DOMAIN home = LayerRanks(l)
InOrder(l) ==
  IF phase = "built"
  THEN \A w \in LayerRanks(l) :
         /\ Begun(l, active, w, chunks[w])
         /\ home[w] # <<>> => home[w] = Collected(l, active, w) /\ Len(chunks[w]) = Turns(l)
  ELSE \A w \in LayerRanks(l) : chunks[w] = <<>> /\ home[w] = <<>>
LayerInv ==
  /\ ScheduleInv
  /\ layer \in Layers \union {NoLayer}
  /\ layer # NoLayer => Fits(layer) /\ InOrder(layer)

\* The layer's invariant holds before the schedule is built.
LEMMA LayerStart == LayerInit => LayerInv
<1> SUFFICES ASSUME LayerInit PROVE LayerInv
  OBVIOUS
<1>1. ScheduleInv /\ layer \in Layers \union {NoLayer} /\ phase = "start"
  BY InitInv DEF LayerInit, Init
<1>2. ASSUME layer # NoLayer PROVE Fits(layer) /\ InOrder(layer)
  <2>1. chunks = [w \in LayerRanks(layer) |-> <<>>] /\ home = chunks
    BY <1>2 DEF LayerInit
  <2>2. Fits(layer)
    BY <1>2, <2>1 DEF LayerInit, Fits
  <2>3. InOrder(layer)
    BY <1>1, <2>1 DEF InOrder
  <2> QED
    BY <2>2, <2>3
<1> QED
  BY <1>1, <1>2 DEF LayerInv

\* Chunks that are added to some ranks at once.
LEMMA Collecting ==
  ASSUME NEW l, IsLayer(l), layer = l, Fits(l), InOrder(l), phase = "built", UNCHANGED <<vars, layer, home>>,
         NEW V, \A w \in V : chunks[w] = <<>>,
         chunks' = [w \in LayerRanks(l) |-> IF w \in V THEN Plan(l, active, w) ELSE chunks[w]]
  PROVE  Fits(l)' /\ InOrder(l)'
<1>1. UNCHANGED <<policy, blocks, workers, ranks, phase, active, home, layer>>
  BY DEF vars, inputs
<1>2. Fits(l)'
  BY <1>1 DEF Fits
<1>3. ASSUME NEW w \in LayerRanks(l)
      PROVE  /\ Begun(l, active, w, chunks'[w])
             /\ home[w] # <<>> => home[w] = Collected(l, active, w) /\ Len(chunks'[w]) = Turns(l)
  <2>1. CASE w \in V
    <3>1. chunks'[w] = Plan(l, active, w)
      BY <2>1
    <3>2. home[w] = <<>>
      <4>1. Len(<<>>) = 0 /\ Turns(l) # 0
        BY EmptyLists, WholePlan
      <4> QED
        BY <2>1, <4>1 DEF InOrder
    <3> QED
      BY <3>1, <3>2, AllSoFar
  <2>2. CASE w \notin V
    BY <2>2 DEF InOrder
  <2> QED
    BY <2>1, <2>2
<1>4. InOrder(l)'
  BY <1>1, <1>3 DEF InOrder
<1> QED
  BY <1>2, <1>4

\* A gather launches the whole plan of its group and leaves the others alone.
LEMMA Gathers ==
  ASSUME NEW l, IsLayer(l), layer = l, Fits(l), InOrder(l), phase = "built", NEW g, Gather(g)
  PROVE  Fits(l)' /\ InOrder(l)'
<1> DEFINE V == GroupOf(l, g)
<1>1. \A w : Plan(l, active, w) = IF l.transport = "full" THEN <<GatheredChunk(l, active, w)>>
                                  ELSE <<GatheredChunk(l, active, w), ActiveChunk(l, active, w)>>
  BY DEF Gather, Plan
<1>2. /\ \A w \in V : chunks[w] = <<>> /\ UNCHANGED <<vars, layer, home>>
      /\ chunks' = [w \in LayerRanks(l) |->
           IF w \notin V THEN chunks[w]
           ELSE IF l.transport = "full" THEN <<GatheredChunk(l, active, w)>>
           ELSE <<GatheredChunk(l, active, w), ActiveChunk(l, active, w)>>]
      /\ UNCHANGED <<vars, layer, home>>
  BY DEF Gather
<1> HIDE DEF V
<1>3. chunks' = [w \in LayerRanks(l) |-> IF w \in V THEN Plan(l, active, w) ELSE chunks[w]]
  BY <1>1, <1>2
<1> QED
  BY <1>2, <1>3, Collecting

\* A windowed exchange launches the whole plan of its group.
LEMMA Exchanges ==
  ASSUME NEW l, IsLayer(l), layer = l, Fits(l), InOrder(l), phase = "built", NEW g, Exchange(g)
  PROVE  Fits(l)' /\ InOrder(l)'
<1> DEFINE V == GroupOf(l, g)
<1>1. \A w : Plan(l, active, w) = <<WindowChunk(l, active, w)>>
  BY DEF Exchange, Plan
<1>2. /\ \A w \in V : chunks[w] = <<>>
      /\ chunks' = [w \in LayerRanks(l) |-> IF w \in V THEN <<WindowChunk(l, active, w)>> ELSE chunks[w]]
      /\ UNCHANGED <<vars, layer, home>>
  BY DEF Exchange
<1> HIDE DEF V
<1>3. chunks' = [w \in LayerRanks(l) |-> IF w \in V THEN Plan(l, active, w) ELSE chunks[w]]
  BY <1>1, <1>2
<1> QED
  BY <1>2, <1>3, Collecting

\* A turn of the streaming ring adds the next launch of one rank's plan.
LEMMA Visits ==
  ASSUME NEW l, IsLayer(l), layer = l, Fits(l), InOrder(l), phase = "built", NEW v \in LayerRanks(l), Visit(v)
  PROVE  Fits(l)' /\ InOrder(l)'
<1>1. UNCHANGED <<policy, blocks, workers, ranks, phase, active, home, layer>>
  BY DEF Visit, vars, inputs
<1> DEFINE n == Len(chunks[v])
           turn == OwnerChunk(l, active, v, (ContextRank(l, v) + n) % l.cp)
<1>2. /\ l.transport = "streaming" /\ n # Turns(l)
      /\ chunks' = [chunks EXCEPT ![v] = Append(chunks[v], turn)]
  BY DEF Visit, Forwarded
<1>3. DOMAIN chunks' = DOMAIN chunks /\ chunks'[v] = Append(chunks[v], turn)
      /\ \A w \in LayerRanks(l) : w # v => chunks'[w] = chunks[w]
  BY <1>2 DEF Fits
<1>4. Fits(l)'
  BY <1>1, <1>3 DEF Fits
<1>5. Begun(l, active, v, chunks[v])
  BY DEF InOrder
<1>6. n \in 0 .. Turns(l) /\ Begun(l, active, v, Append(chunks[v], Plan(l, active, v)[n + 1]))
  BY <1>2, <1>5, Forward
<1>7. Plan(l, active, v)[n + 1] = turn
  <2>1. Turns(l) = l.cp /\ l.cp \in Nat
    BY <1>2 DEF Turns, IsLayer
  <2>2. Plan(l, active, v) = [k \in 1 .. l.cp |-> OwnerChunk(l, active, v, (ContextRank(l, v) + (k - 1)) % l.cp)]
    BY <1>2 DEF Plan
  <2> DEFINE j == n + 1
  <2>3. j \in 1 .. l.cp /\ j - 1 = n
    BY <1>2, <1>6, <2>1
  <2> HIDE DEF j, n
  <2>4. Plan(l, active, v)[j] = OwnerChunk(l, active, v, (ContextRank(l, v) + (j - 1)) % l.cp)
    BY <2>2, <2>3
  <2> QED
    BY <2>3, <2>4 DEF j
<1> HIDE DEF turn
<1>8. Begun(l, active, v, chunks'[v])
  BY <1>3, <1>6, <1>7
<1>9. home[v] = <<>>
  BY <1>2 DEF InOrder
<1>10. InOrder(l)'
  <2>1. ASSUME NEW w \in LayerRanks(l)
        PROVE  /\ Begun(l, active, w, chunks'[w])
               /\ home[w] # <<>> => home[w] = Collected(l, active, w) /\ Len(chunks'[w]) = Turns(l)
    <3>1. CASE w = v
      BY <1>8, <1>9, <3>1
    <3>2. CASE w # v
      BY <1>3, <3>2 DEF InOrder
    <3> QED
      BY <3>1, <3>2
  <2> QED
    BY <1>1, <2>1 DEF InOrder
<1> QED
  BY <1>4, <1>10

\* A backward pass collects the gradients of a group that has gone forward.
LEMMA ReturnsHome ==
  ASSUME NEW l, IsLayer(l), layer = l, Fits(l), InOrder(l), phase = "built", NEW g, Return(g)
  PROVE  Fits(l)' /\ InOrder(l)'
<1>1. UNCHANGED <<policy, blocks, workers, ranks, phase, active, chunks, layer>>
  BY DEF Return, vars, inputs
<1>2. /\ \A w \in GroupOf(l, g) : Len(chunks[w]) = Turns(l)
      /\ home' = [o \in LayerRanks(l) |-> IF o \in GroupOf(l, g) THEN Collected(l, active, o) ELSE home[o]]
  BY DEF Return, Forwarded
<1>3. Fits(l)'
  BY <1>1, <1>2 DEF Fits
<1>4. ASSUME NEW w \in LayerRanks(l)
      PROVE  /\ Begun(l, active, w, chunks[w])
             /\ home'[w] # <<>> => home'[w] = Collected(l, active, w) /\ Len(chunks[w]) = Turns(l)
  <2>1. CASE w \in GroupOf(l, g)
    BY <1>2, <2>1 DEF InOrder
  <2>2. CASE w \notin GroupOf(l, g)
    BY <1>2, <2>2 DEF InOrder
  <2> QED
    BY <2>1, <2>2
<1>5. InOrder(l)'
  BY <1>1, <1>4 DEF InOrder
<1> QED
  BY <1>3, <1>5

\* The schedule goes on, and its result stays.
LEMMA Schedules ==
  ASSUME NEW l, IsLayer(l), layer = l, Fits(l), InOrder(l), Next, UNCHANGED layerVars
  PROVE  Fits(l)' /\ InOrder(l)'
<1>1. UNCHANGED <<policy, blocks, workers, ranks, chunks, home, layer>>
  BY ScheduleSteps DEF inputs, layerVars
<1>2. Fits(l)'
  BY <1>1 DEF Fits
<1>3. InOrder(l)'
  <2>1. CASE phase = "built"
    <3>1. UNCHANGED <<phase, active>>
      BY <2>1, ScheduleSteps DEF vars
    <3> QED
      BY <1>1, <3>1 DEF InOrder
  <2>2. CASE phase # "built"
    <3>1. \A w \in LayerRanks(l) : chunks'[w] = <<>> /\ home'[w] = <<>>
      BY <1>1, <2>2 DEF InOrder
    <3>2. \A w : Begun(l, active', w, <<>>)
      BY NothingSoFar
    <3> QED
      BY <3>1, <3>2 DEF InOrder
  <2> QED
    BY <2>1, <2>2
<1> QED
  BY <1>2, <1>3

\* Every step of a layer, or of its schedule, preserves the layer's invariant.
LEMMA LayerStep == LayerInv /\ [LayerNext]_<<vars, layerVars>> => LayerInv'
<1> SUFFICES ASSUME LayerInv, [LayerNext]_<<vars, layerVars>> PROVE LayerInv'
  OBVIOUS
<1>1. [Next]_vars
  BY DEF LayerNext, Schedule, Gather, Exchange, Return, Visit
<1>2. ScheduleInv'
  BY <1>1, StepInv DEF LayerInv
<1>3. UNCHANGED layer
  BY DEF LayerNext, Schedule, Gather, Exchange, Return, Visit, layerVars
<1>4. ASSUME layer # NoLayer PROVE Fits(layer)' /\ InOrder(layer)'
  <2>0. PICK l : l = layer
    OBVIOUS
  <2>1. layer = l /\ IsLayer(l) /\ Fits(l) /\ InOrder(l)
    BY <1>4, <2>0, AreLayers DEF LayerInv
  <2>2. ASSUME Schedule PROVE Fits(l)' /\ InOrder(l)'
    BY <2>1, <2>2, Schedules DEF Schedule
  <2>3. ASSUME Laid, NEW g \in Groups(l), Gather(g) PROVE Fits(l)' /\ InOrder(l)'
    <3>1. phase = "built"
      BY <2>3 DEF Laid
    <3> QED
      BY <2>1, <2>3, <3>1, Gathers
  <2>4. ASSUME Laid, NEW g \in Groups(l), Exchange(g) PROVE Fits(l)' /\ InOrder(l)'
    <3>1. phase = "built"
      BY <2>4 DEF Laid
    <3> QED
      BY <2>1, <2>4, <3>1, Exchanges
  <2>5. ASSUME Laid, NEW g \in Groups(l), Return(g) PROVE Fits(l)' /\ InOrder(l)'
    <3>1. phase = "built"
      BY <2>5 DEF Laid
    <3> QED
      BY <2>1, <2>5, <3>1, ReturnsHome
  <2>6. ASSUME Laid, NEW w \in LayerRanks(l), Visit(w) PROVE Fits(l)' /\ InOrder(l)'
    <3>1. phase = "built"
      BY <2>6 DEF Laid
    <3> QED
      BY <2>1, <2>6, <3>1, Visits
  <2>7. ASSUME UNCHANGED <<vars, layerVars>> PROVE Fits(l)' /\ InOrder(l)'
    BY <2>1, <2>7 DEF Fits, InOrder, vars, inputs, layerVars
  <2>8. Fits(l)' /\ InOrder(l)'
    BY <2>1, <2>2, <2>3, <2>4, <2>5, <2>6, <2>7 DEF LayerNext
  <2>9. layer' = l
    BY <1>3, <2>1
  <2> QED
    BY <2>8, <2>9 DEF Fits, InOrder
<1> QED
  BY <1>2, <1>3, <1>4 DEF LayerInv

\* The hypothesis of RowsSeeTheirContext and GradientsReturn.
ResponsesAreGathered == \A l \in Layers \ {NoLayer} : ResponsesGathered(l)

\* The layer's invariant holds throughout.
LEMMA LayerCorrect == LayerSpec => []LayerInv
  BY LayerStart, LayerStep, PTL DEF LayerSpec

\* What the schedule has dealt out when it is built.
LEMMA BuiltDeals ==
  ASSUME LayerInv, Laid
  PROVE  Dealt(layer, active)
<1>1. Fits(layer) /\ Holds(active, Workers, 0 .. blocks - 1)
  BY DEF LayerInv, ScheduleInv, Placed, Laid
<1>2. ~Pure(layer) => Workers = LayerRanks(layer)
  BY <1>1 DEF Fits, Workers, LayerRanks
<1> QED
  BY <1>1, <1>2 DEF Dealt, Fits

\* With the launches of its plan, every row sees its context.
LEMMA SeesIt ==
  ASSUME ResponsesAreGathered, LayerInv
  PROVE  EveryRowSeesItsContext
<1> SUFFICES ASSUME Laid, NEW w \in LayerRanks(layer), Forwarded(w), NEW r \in Rows(layer, active, w)
             PROVE  ExactlyOnce(layer, r, Attended(w, r))
  BY DEF EveryRowSeesItsContext
<1> DEFINE l == layer
           a == active
<1>1. IsLayer(l) /\ ResponsesGathered(l) /\ InOrder(l) /\ phase = "built"
  BY AreLayers DEF LayerInv, Laid, ResponsesAreGathered
<1>2. Dealt(l, a)
  BY BuiltDeals
<1>3. Begun(l, a, w, chunks[w]) /\ Len(chunks[w]) = Turns(l)
  BY <1>1 DEF InOrder, Forwarded
<1>4. Attended(w, r) = AttendedIn(l, chunks[w], r)
  BY DEF Attended, AttendedIn
<1> HIDE DEF l, a
<1>5. chunks[w] = Plan(l, a, w)
  BY <1>1, <1>3, Forward
<1>6. PICK T : Works(l, a, w, T)
  BY <1>1, <1>2, PlansWork DEF l
<1>7. ExactlyOnce(l, r, AttendedIn(l, Plan(l, a, w), r))
  BY <1>1, <1>2, <1>6, SeesContext DEF l, a, Works
<1> QED
  BY <1>4, <1>5, <1>7 DEF l

\* What is collected comes from ranks of the layer.
LEMMA CollectedFrom ==
  ASSUME NEW l, NEW a, NEW o \in LayerRanks(l), NEW k \in DOMAIN Collected(l, a, o), NEW x \in Collected(l, a, o)[k]
  PROVE  x[1] \in LayerRanks(l)
<1>1. Collected(l, a, o)[k]
        = UNION {{<<v, p[1], p[2]>> : p \in PlacesOf(l, a, o, v, k)} : v \in GroupAt(l, o)}
  BY WhatIsCollected
<1>2. PICK v \in GroupAt(l, o) : x \in {<<v, p[1], p[2]>> : p \in PlacesOf(l, a, o, v, k)}
  BY <1>1
<1>3. x[1] = v
  BY <1>2
<1> QED
  BY <1>2, <1>3 DEF GroupAt, GroupOf

\* With the gradients collected from such launches, every gradient is home.
LEMMA HomeIt ==
  ASSUME ResponsesAreGathered, LayerInv
  PROVE  GradientsComeHome
<1> SUFFICES ASSUME Laid, Finished, NEW p \in Canvas(layer)
             PROVE  /\ layer.pass # "noisy" =>
                         \A g \in Groups(layer) :
                           ExactlyOnce(layer, Row("clean", p), Contributions(g, Row("clean", p)))
                    /\ layer.pass # "clean" =>
                         ExactlyOnce(layer, Row("noisy", p),
                                     UNION {Contributions(g, Row("noisy", p)) : g \in Groups(layer)})
  BY DEF GradientsComeHome
<1> DEFINE l == layer
           a == active
<1>1. IsLayer(l) /\ ResponsesGathered(l) /\ InOrder(l) /\ phase = "built"
  BY AreLayers DEF LayerInv, Laid, ResponsesAreGathered
<1>2. Dealt(l, a)
  BY BuiltDeals
<1>3. ASSUME NEW w \in LayerRanks(l)
      PROVE  chunks[w] = Plan(l, a, w) /\ home[w] = Collected(l, a, w)
  <2>1. home[w] # <<>>
    BY DEF Finished, Laid
  <2>2. home[w] = Collected(l, a, w) /\ Begun(l, a, w, chunks[w]) /\ Len(chunks[w]) = Turns(l)
    BY <1>1, <2>1 DEF InOrder
  <2> HIDE DEF l, a
  <2> QED
    BY <1>1, <2>2, Forward
<1>4. ASSUME NEW g, NEW r PROVE Contributions(g, r) = ContributedIn(l, a, g, r)
  <2> DEFINE Counts(x) == LET chunk == chunks[x[1]][x[2]]
                          IN /\ r \in chunk.backward
                             /\ Allowed(l, r, chunk.claim[x[3]], "backward" \in chunk.diagonal)
             Key(o, k) == Keys(l, a, o)[k]
  <2>1. Contributions(g, r)
          = UNION {UNION {{<<Key(o, k), o, x>> : x \in {x \in home[o][k] : Counts(x)}} : k \in DOMAIN home[o]}
                   : o \in GroupOf(l, g)}
    BY DEF Contributions
  <2>2. ContributedIn(l, a, g, r)
          = UNION {UNION {{<<Key(o, k), o, x>> : x \in {x \in Collected(l, a, o)[k] : Adds(l, a, r, x)}}
                          : k \in DOMAIN Collected(l, a, o)} : o \in GroupOf(l, g)}
    BY DEF ContributedIn
  <2>3. \A o \in GroupOf(l, g) : o \in LayerRanks(l) /\ home[o] = Collected(l, a, o)
    BY <1>3 DEF GroupOf
  <2>4. ASSUME NEW o \in GroupOf(l, g), NEW k \in DOMAIN Collected(l, a, o), NEW x \in Collected(l, a, o)[k]
        PROVE  Counts(x) <=> Adds(l, a, r, x)
    <3>1. x[1] \in LayerRanks(l)
      BY <2>3, CollectedFrom
    <3>2. chunks[x[1]] = Plan(l, a, x[1])
      BY <1>3, <3>1
    <3> QED
      BY <3>2 DEF Adds
  <2> HIDE DEF Counts, Key, l, a
  <2>5. ASSUME NEW o \in GroupOf(l, g), NEW k \in DOMAIN Collected(l, a, o)
        PROVE  {x \in home[o][k] : Counts(x)} = {x \in Collected(l, a, o)[k] : Adds(l, a, r, x)}
    BY <2>3, <2>4
  <2>6. ASSUME NEW o \in GroupOf(l, g)
        PROVE  UNION {{<<Key(o, k), o, x>> : x \in {x \in home[o][k] : Counts(x)}} : k \in DOMAIN home[o]}
                 = UNION {{<<Key(o, k), o, x>> : x \in {x \in Collected(l, a, o)[k] : Adds(l, a, r, x)}}
                          : k \in DOMAIN Collected(l, a, o)}
    BY <2>3, <2>5
  <2> QED
    BY <2>1, <2>2, <2>6
<1>5. CleanHome(l, a, p) /\ NoisyHome(l, a, p)
  BY <1>1, <1>2, AllComeHome
<1> QED
  BY <1>4, <1>5 DEF CleanHome, NoisyHome

-----------------------------------------------------------------------------
(* The layer.                                                              *)

\* A layer takes no step of the schedule that build_block_schedule does not: what
\* is proved of the schedule holds in front of every layer.
THEOREM LayerRunsSchedule == LayerSpec => Spec
<1>1. LayerInit => Init
  BY DEF LayerInit
<1>2. [LayerNext]_<<vars, layerVars>> => [Next]_vars
  BY DEF LayerNext, Schedule, Gather, Exchange, Visit, Return, vars, inputs
<1> QED
  BY <1>1, <1>2, PTL DEF LayerSpec, Spec

\* Whatever moved the keys (the all-gather, the streaming ring, the windowed
\* all-to-all, or the gathers of a pure-CP or a full-mask layer), every row
\* attends exactly the clean tokens of its context and the denoised ones of its
\* block, each once, and never a padded row.
THEOREM RowsSeeTheirContext ==
  ASSUME ResponsesAreGathered
  PROVE  LayerSpec => []EveryRowSeesItsContext
<1>1. LayerInv => EveryRowSeesItsContext
  BY SeesIt
<1> QED
  BY <1>1, LayerCorrect, PTL

\* In the backward pass the gradient of a token's key, added up over the owners'
\* copies, counts every denoised row that attends it once and every clean row
\* once in every copy: the reduce-scatter, the ring and the reverse all-to-all
\* neither lose nor double a row, nor take it to another token.
THEOREM GradientsReturn ==
  ASSUME ResponsesAreGathered
  PROVE  LayerSpec => []GradientsComeHome
<1>1. LayerInv => GradientsComeHome
  BY HomeIt
<1> QED
  BY <1>1, LayerCorrect, PTL

=============================================================================
