------------------------- MODULE IndexedEpochs_proofs -------------------------
(***************************************************************************)
(* Theorems about the indexed source for every dataset, batch size, number *)
(* of replicas and number of restarts.  That all orders of the samples     *)
(* give equally many batches, and that no batch repeats a sample, is an    *)
(* induction over the order in which samples reach the buckets: the lemmas *)
(* UpTo and Recursion carry it out, on a least counterexample.  The        *)
(* cursors are then an arithmetic of the number of steps taken.            *)
(***************************************************************************)
EXTENDS IndexedEpochs, FiniteSetTheorems, SequenceTheorems, TLAPS

-----------------------------------------------------------------------------
(* Numbers in ascending order.                                             *)

\* The numbers of S below x.
Below(S, x) == {y \in S : y < x}

\* A larger number has more below it.
LEMMA BelowGrows ==
  ASSUME NEW S \in SUBSET Int, IsFiniteSet(S), NEW x \in S, NEW z \in Int, x < z
  PROVE  Cardinality(Below(S, x)) < Cardinality(Below(S, z))
<1>1. Below(S, x) \union {x} \in SUBSET Below(S, z) /\ x \notin Below(S, x)
  <2>1. \A y \in S : y < x => y < z
    OBVIOUS
  <2>2. x \in Int /\ ~ (x < x)
    OBVIOUS
  <2>3. Below(S, x) \union {x} \subseteq Below(S, z)
    BY <2>1 DEF Below
  <2>4. x \notin Below(S, x)
    BY <2>2 DEF Below
  <2> QED
    BY <2>3, <2>4
<1>2. IsFiniteSet(Below(S, z)) /\ IsFiniteSet(Below(S, x))
  BY FS_Subset DEF Below
<1>3. Cardinality(Below(S, x) \union {x}) = Cardinality(Below(S, x)) + 1
  BY <1>1, <1>2, FS_AddElement
<1>4. Cardinality(Below(S, x) \union {x}) <= Cardinality(Below(S, z))
  BY <1>1, <1>2, FS_Subset
<1>5. Cardinality(Below(S, x)) \in Nat /\ Cardinality(Below(S, z)) \in Nat
  BY <1>2, FS_CardinalityType
<1> QED
  BY <1>3, <1>4, <1>5

\* Every place is taken by exactly one number.
LEMMA PlaceTaken ==
  ASSUME NEW S \in SUBSET Int, IsFiniteSet(S)
  PROVE  /\ Cardinality(S) \in Nat
         /\ \A x \in S : Cardinality(Below(S, x)) \in 0 .. Cardinality(S) - 1
         /\ \A x, z \in S : Cardinality(Below(S, x)) = Cardinality(Below(S, z)) => x = z
         /\ \A i \in 1 .. Cardinality(S) : \E x \in S : Cardinality(Below(S, x)) = i - 1
<1>0. Cardinality(S) \in Nat
  BY FS_CardinalityType
<1>1. ASSUME NEW x \in S PROVE Cardinality(Below(S, x)) \in 0 .. Cardinality(S) - 1
  <2>1. Below(S, x) \in SUBSET S /\ x \notin Below(S, x)
    BY DEF Below
  <2>2. Cardinality(Below(S, x)) <= Cardinality(S) /\ IsFiniteSet(Below(S, x))
        /\ Cardinality(Below(S, x)) # Cardinality(S)
    BY <2>1, FS_Subset
  <2>3. Cardinality(Below(S, x)) \in Nat
    BY <2>2, FS_CardinalityType
  <2> QED
    BY <1>0, <2>2, <2>3
<1>2. ASSUME NEW x \in S, NEW z \in S, Cardinality(Below(S, x)) = Cardinality(Below(S, z))
      PROVE  x = z
  <2>1. Cardinality(Below(S, x)) \in Int /\ Cardinality(Below(S, z)) \in Int
    BY <1>1
  <2>2. ~ (x < z) /\ ~ (z < x)
    BY <1>2, <2>1, BelowGrows
  <2> QED
    BY <2>2
<1> DEFINE n == Cardinality(S)
           f == [x \in S |-> Cardinality(Below(S, x))]
<1>3. f \in Injection(S, 0 .. n - 1)
  BY <1>1, <1>2 DEF Injection, IsInjective
<1>4. IsFiniteSet(0 .. n - 1) /\ Cardinality(0 .. n - 1) = n
  BY <1>0, FS_Interval
<1>5. f \in Surjection(S, 0 .. n - 1)
  BY <1>3, <1>4, FS_Injection
<1>6. ASSUME NEW i \in 1 .. n PROVE \E x \in S : Cardinality(Below(S, x)) = i - 1
  <2>1. i - 1 \in 0 .. n - 1
    BY <1>0
  <2> QED
    BY <1>5, <2>1 DEF Surjection
<1> QED
  BY <1>0, <1>1, <1>2, <1>6

\* What Ascending promises: each number of the set once, the i-th with i - 1 below it.
LEMMA AscendingList ==
  ASSUME NEW S \in SUBSET Int, IsFiniteSet(S)
  PROVE  /\ Cardinality(S) \in Nat
         /\ DOMAIN Ascending(S) = 1 .. Cardinality(S)
         /\ Len(Ascending(S)) = Cardinality(S)
         /\ Ascending(S) \in Seq(S)
         /\ \A i \in 1 .. Cardinality(S) :
              Ascending(S)[i] \in S /\ Cardinality(Below(S, Ascending(S)[i])) = i - 1
         /\ \A x \in S : Cardinality(Below(S, x)) + 1 \in 1 .. Cardinality(S)
                         /\ Ascending(S)[Cardinality(Below(S, x)) + 1] = x
<1> DEFINE n == Cardinality(S)
           s == Ascending(S)
<1>0. n \in Nat
  BY PlaceTaken
<1>1. s = [i \in 1 .. n |-> CHOOSE x \in S : Cardinality(Below(S, x)) = i - 1]
  BY DEF Ascending, Below
<1>2. ASSUME NEW i \in 1 .. n
      PROVE  s[i] \in S /\ Cardinality(Below(S, s[i])) = i - 1
  <2>1. \E x \in S : Cardinality(Below(S, x)) = i - 1
    BY PlaceTaken
  <2>2. s[i] = CHOOSE x \in S : Cardinality(Below(S, x)) = i - 1
    BY <1>1
  <2> QED
    BY <2>1, <2>2
<1>3. DOMAIN s = 1 .. n
  BY <1>1
<1>4. s = [i \in 1 .. n |-> s[i]]
  BY <1>1
<1> HIDE DEF s
<1>5. s \in Seq(S) /\ Len(s) = n
  BY <1>0, <1>2, <1>4
<1>6. \A x, z \in S : Cardinality(Below(S, x)) = Cardinality(Below(S, z)) => x = z
  BY PlaceTaken
<1>7. ASSUME NEW x \in S
      PROVE  Cardinality(Below(S, x)) + 1 \in 1 .. n /\ s[Cardinality(Below(S, x)) + 1] = x
  <2> DEFINE i == Cardinality(Below(S, x)) + 1
  <2>1. i \in 1 .. n /\ Cardinality(Below(S, x)) \in Int
    BY <1>0, PlaceTaken
  <2>2. s[i] \in S /\ Cardinality(Below(S, s[i])) = i - 1
    BY <1>2, <2>1
  <2>3. Cardinality(Below(S, s[i])) = Cardinality(Below(S, x))
    BY <2>1, <2>2
  <2>4. s[i] = x
    BY <1>6, <2>2, <2>3
  <2> QED
    BY <2>1, <2>4
<1> QED
  BY <1>0, <1>2, <1>3, <1>5, <1>7 DEF s

\* The list holds the numbers of the set.
LEMMA AscendingMembers ==
  ASSUME NEW S \in SUBSET Int, IsFiniteSet(S)
  PROVE  ToSet(Ascending(S)) = S
<1>1. ASSUME NEW x \in ToSet(Ascending(S)) PROVE x \in S
  BY AscendingList DEF ToSet
<1>2. ASSUME NEW x \in S PROVE x \in ToSet(Ascending(S))
  <2>1. Cardinality(Below(S, x)) + 1 \in DOMAIN Ascending(S)
        /\ Ascending(S)[Cardinality(Below(S, x)) + 1] = x
    BY AscendingList
  <2> QED
    BY <2>1 DEF ToSet
<1> QED
  BY <1>1, <1>2

\* The least of a set of numbers.
LEMMA LeastOf ==
  ASSUME NEW S, S \in SUBSET Int, IsFiniteSet(S), S # {}
  PROVE  \E x \in S : \A y \in S : x <= y
<1>1. Cardinality(S) # 0 /\ Cardinality(S) \in Nat
  BY FS_EmptySet, FS_CardinalityType
<1>2. PICK x \in S : Cardinality(Below(S, x)) = 1 - 1
  BY <1>1, PlaceTaken
<1>3. Below(S, x) \in SUBSET S /\ IsFiniteSet(Below(S, x))
  BY FS_Subset DEF Below
<1>4. Below(S, x) = {}
  BY <1>2, <1>3, FS_EmptySet
<1>5. \A y \in S : x <= y
  BY <1>4 DEF Below
<1> QED
  BY <1>5

\* What holds at 0 and, with a number, for the next one, holds up to N.
LEMMA UpTo ==
  ASSUME NEW N \in Nat, NEW G, 0 \in G, \A n \in 0 .. N - 1 : n \in G => n + 1 \in G
  PROVE  \A n \in 0 .. N : n \in G
<1> DEFINE Bad == {n \in 0 .. N : n \notin G}
<1>1. ASSUME Bad # {} PROVE FALSE
  <2>1. IsFiniteSet(Bad) /\ Bad \in SUBSET Int
    <3> DEFINE I == 0 .. N
    <3>1. IsFiniteSet(I) /\ I \in SUBSET Int
      BY FS_Interval
    <3>2. Bad \in SUBSET I
      OBVIOUS
    <3> HIDE DEF I, Bad
    <3> QED
      BY <3>1, <3>2, FS_Subset
  <2>2. PICK n \in Bad : \A m \in Bad : n <= m
    <3> HIDE DEF Bad
    <3> QED
      BY <1>1, <2>1, LeastOf
  <2>3. n \in 0 .. N /\ n \notin G /\ n # 0
    OBVIOUS
  <2>4. n - 1 \in 0 .. N - 1 /\ n - 1 \notin Bad
    BY <2>2, <2>3
  <2>5. n - 1 \in G
    BY <2>4
  <2>6. (n - 1) + 1 = n
    BY <2>3
  <2> QED
    BY <2>3, <2>4, <2>5, <2>6
<1> QED
  BY <1>1

\* N steps on values in T, and the values they give one after the other.
Steps(F, N, T) == F \in [1 .. N -> [T -> T]]
Course(g, base, F, N, T) ==
  g \in [0 .. N -> T] /\ g[0] = base /\ \A n \in 1 .. N : g[n] = F[n][g[n - 1]]

\* A function that is defined from its value at the number before exists.
LEMMA Recursion ==
  ASSUME NEW T, NEW base, base \in T, NEW N, N \in Nat, NEW F, Steps(F, N, T)
  PROVE  \E g : Course(g, base, F, N, T)
<1>0. F \in [1 .. N -> [T -> T]]
  BY DEF Steps
<1> DEFINE Good(g, n) == g[0] = base /\ \A i \in 1 .. n : g[i] = F[i][g[i - 1]]
           G == {n \in 0 .. N : \E g \in [0 .. n -> T] : Good(g, n)}
<1>1. 0 \in G
  <2> DEFINE g == [i \in 0 .. 0 |-> base]
  <2>1. g \in [0 .. 0 -> T] /\ Good(g, 0) /\ 0 \in 0 .. N
    OBVIOUS
  <2> HIDE DEF g, Good
  <2> QED
    BY <2>1
<1>2. ASSUME NEW n \in 0 .. N - 1, n \in G PROVE n + 1 \in G
  <2>1. PICK g \in [0 .. n -> T] : Good(g, n)
    BY <1>2
  <2> DEFINE h == [i \in 0 .. n + 1 |-> IF i = n + 1 THEN F[n + 1][g[n]] ELSE g[i]]
  <2>2. h \in [0 .. n + 1 -> T]
    <3>1. n + 1 \in 1 .. N /\ n \in 0 .. n
      OBVIOUS
    <3>2. F[n + 1][g[n]] \in T
      BY <1>0, <3>1
    <3>3. \A i \in 0 .. n + 1 : i = n + 1 \/ i \in 0 .. n
      OBVIOUS
    <3> QED
      BY <3>2, <3>3
  <2>3. h[0] = base
    BY <2>1
  <2>4. ASSUME NEW i \in 1 .. n + 1 PROVE h[i] = F[i][h[i - 1]]
    <3>1. CASE i = n + 1
      <4>0. i - 1 = n /\ n \in 0 .. n + 1 /\ n # n + 1 /\ i \in 0 .. n + 1
        BY <3>1
      <4>1. h[i] = F[n + 1][g[n]] /\ h[n] = g[n]
        BY <3>1, <4>0
      <4> HIDE DEF h
      <4> QED
        BY <3>1, <4>0, <4>1
    <3>2. CASE i # n + 1
      <4>1. i \in 1 .. n /\ i - 1 \in 0 .. n /\ i - 1 # n + 1 /\ i \in 0 .. n + 1 /\ i - 1 \in 0 .. n + 1
        BY <3>2
      <4>2. h[i] = g[i] /\ h[i - 1] = g[i - 1]
        BY <3>2, <4>1
      <4> HIDE DEF h
      <4> QED
        BY <2>1, <4>1, <4>2
    <3> QED
      BY <3>1, <3>2
  <2>5. n + 1 \in 0 .. N
    OBVIOUS
  <2> HIDE DEF h
  <2> QED
    BY <2>2, <2>3, <2>4, <2>5
<1>3. N \in G
  <2> HIDE DEF G
  <2>1. \A n \in 0 .. N : n \in G
    BY <1>1, <1>2, UpTo
  <2> QED
    BY <2>1
<1>4. PICK g \in [0 .. N -> T] : Good(g, N)
  BY <1>3
<1> QED
  BY <1>4 DEF Course

\* Two sets one to one.
LEMMA SameCount ==
  ASSUME NEW S, NEW T, IsFiniteSet(S), NEW f \in [S -> T],
         \A x, y \in S : f[x] = f[y] => x = y, \A t \in T : \E x \in S : f[x] = t
  PROVE  IsFiniteSet(T) /\ Cardinality(T) = Cardinality(S)
<1>1. f \in Bijection(S, T)
  BY DEF Bijection, Injection, Surjection, IsInjective
<1> QED
  BY <1>1, FS_Bijection DEF ExistsBijection

\* A list of n members, one of m members, and the one after the other.
TwoLists(X, s, t, n, m) == s \in Seq(X) /\ t \in Seq(X) /\ Len(s) = n /\ Len(t) = m
IsJoined(X, s, t, n, m, both) ==
  /\ both \in Seq(X) /\ Len(both) = n + m
  /\ \A p \in 1 .. n : both[p] = s[p]
  /\ \A j \in 1 .. m : both[n + j] = t[j]

\* Two lists one after the other.
LEMMA Joined ==
  ASSUME NEW X, NEW s, NEW t, NEW n, NEW m, TwoLists(X, s, t, n, m)
  PROVE  IsJoined(X, s, t, n, m, s \o t)
  BY DEF TwoLists, IsJoined

-----------------------------------------------------------------------------
(* Quotients.                                                              *)

\* A number is its quotient and its remainder.
LEMMA Division ==
  ASSUME NEW x \in Int, NEW S \in Nat \ {0}
  PROVE  x = S * (x \div S) + (x % S) /\ x % S \in 0 .. S - 1 /\ x \div S \in Int
<1>1. x \div S \in Int
  OBVIOUS
<1>2. x % S \in 0 .. S - 1
  OBVIOUS
<1>3. x = S * (x \div S) + (x % S)
  OBVIOUS
<1> QED
  BY <1>1, <1>2, <1>3

\* The only multiple of S between -S and S is zero.
LEMMA NoMultipleBetween ==
  ASSUME NEW S \in Nat \ {0}, NEW k \in Int, S * k < S, -S < S * k
  PROVE  k = 0
<1>1. ASSUME k >= 1 PROVE FALSE
  <2>1. S * k >= S * 1
    BY <1>1
  <2> QED
    BY <2>1
<1>2. ASSUME k <= -1 PROVE FALSE
  <2>1. S * k <= S * (-1)
    BY <1>2
  <2> QED
    BY <2>1
<1> QED
  BY <1>1, <1>2

-----------------------------------------------------------------------------
(* Filling the buckets.                                                    *)

Keys(s) == {Key(s, i) : i \in Eligible(s)}
States(s) == [batches : Seq(Seq(Eligible(s))), pending : [Keys(s) -> Seq(Eligible(s))]]
Start(s) == [batches |-> <<>>, pending |-> [k \in Keys(s) |-> <<>>]]

\* The numbers of a setup.
LEMMA SetupFacts ==
  ASSUME NEW s \in Setups
  PROVE  /\ s.unit \in {"microbatch", "trajectory"}
         /\ s.batchSize \in Nat \ {0} /\ s.replicas \in Nat \ {0} /\ s.accum \in Nat \ {0}
         /\ s.batchSize * s.replicas \in Nat \ {0}
         /\ s.samples \in Seq([length : Nat, start : Nat, group : Int])
         /\ DOMAIN s.samples = 1 .. Len(s.samples) /\ Len(s.samples) \in Nat
         /\ Eligible(s) \in SUBSET DOMAIN s.samples
         /\ IsFiniteSet(DOMAIN s.samples) /\ IsFiniteSet(Eligible(s))
         /\ Eligible(s) \in SUBSET Int
<1>1. /\ s.unit \in {"microbatch", "trajectory"}
      /\ s.batchSize \in Nat \ {0} /\ s.replicas \in Nat \ {0} /\ s.accum \in Nat \ {0}
      /\ s.samples \in Seq([length : Nat, start : Nat, group : Int])
  BY SetupAssumption
<1>2. s.batchSize * s.replicas \in Nat \ {0}
  <2> DEFINE b == s.batchSize
             r == s.replicas
  <2>1. b \in Nat \ {0} /\ r \in Nat \ {0}
    BY <1>1
  <2> HIDE DEF b, r
  <2>2. b * r \in Nat /\ b * r >= 1 * r
    BY <2>1
  <2>3. b * r \in Nat \ {0}
    BY <2>1, <2>2
  <2> QED
    BY <2>3 DEF b, r
<1>3. DOMAIN s.samples = 1 .. Len(s.samples) /\ Len(s.samples) \in Nat
  BY <1>1
<1>4. Eligible(s) \in SUBSET DOMAIN s.samples
  BY DEF Eligible
<1>5. IsFiniteSet(DOMAIN s.samples)
  <2>1. IsFiniteSet(1 .. Len(s.samples))
    BY <1>3, FS_Interval
  <2> QED
    BY <1>3, <2>1
<1>6. IsFiniteSet(Eligible(s))
  BY <1>4, <1>5, FS_Subset
<1>7. Eligible(s) \in SUBSET Int
  BY <1>3, <1>4
<1> QED
  BY <1>1, <1>2, <1>3, <1>4, <1>5, <1>6, <1>7

\* An arrangement of a finite set has each of its members once.
LEMMA Arrangement ==
  ASSUME NEW S, IsFiniteSet(S), NEW o \in SetToSeqs(S)
  PROVE  /\ Cardinality(S) \in Nat /\ o \in [1 .. Cardinality(S) -> S] /\ o \in Seq(S)
         /\ Len(o) = Cardinality(S) /\ DOMAIN o = 1 .. Cardinality(S)
         /\ \A i, j \in 1 .. Cardinality(S) : o[i] = o[j] => i = j
         /\ \A x \in S : \E i \in 1 .. Cardinality(S) : o[i] = x
<1> DEFINE n == Cardinality(S)
<1>1. n \in Nat
  BY FS_CardinalityType
<1>2. o \in [1 .. n -> S] /\ \A i, j \in 1 .. n : i # j => o[i] # o[j]
  BY DEF SetToSeqs
<1> HIDE DEF n
<1>3. o \in Seq(S) /\ Len(o) = n /\ DOMAIN o = 1 .. n
  BY <1>1, <1>2
<1>4. o \in Injection(1 .. n, S)
  BY <1>2 DEF Injection, IsInjective
<1>5. IsFiniteSet(1 .. n) /\ Cardinality(1 .. n) = n
  BY <1>1, FS_Interval
<1>6. o \in Surjection(1 .. n, S)
  BY <1>4, <1>5, FS_Injection DEF n
<1> QED
  BY <1>1, <1>2, <1>3, <1>6 DEF n, Surjection

\* A sample more keeps buckets and batches what they are.
LEMMA AddType ==
  ASSUME NEW s \in Setups, NEW size, NEW st \in States(s), NEW i \in Eligible(s)
  PROVE  Add(s, size, st, i) \in States(s)
<1> DEFINE E == Eligible(s)
           k == Key(s, i)
           bucket == Append(st.pending[k], i)
           full == Len(bucket) = size
           batches == IF full THEN Append(st.batches, bucket) ELSE st.batches
           pending == [st.pending EXCEPT ![k] = IF full THEN <<>> ELSE bucket]
<1>1. k \in Keys(s) /\ st.batches \in Seq(Seq(E)) /\ st.pending \in [Keys(s) -> Seq(E)]
  BY DEF Keys, States
<1>2. bucket \in Seq(E) /\ <<>> \in Seq(E)
  <2> HIDE DEF k
  <2> QED
    BY <1>1
<1>3. Add(s, size, st, i) = [batches |-> batches, pending |-> pending]
  BY DEF Add
<1> HIDE DEF E, k, bucket, full
<1>4. batches \in Seq(Seq(E))
  BY <1>1, <1>2
<1>5. pending \in [Keys(s) -> Seq(E)]
  BY <1>1, <1>2
<1> HIDE DEF batches, pending
<1> QED
  BY <1>3, <1>4, <1>5 DEF States, E

\* The buckets after each sample of an order.
Fills(s, size, order, f) ==
  f = [n \in 0 .. Len(order) |->
         IF n = 0 THEN Start(s) ELSE Add(s, size, f[n - 1], order[n])]

\* Fill is what is there after the last sample.
LEMMA FillRuns ==
  ASSUME NEW s \in Setups, NEW size, NEW order \in SetToSeqs(Eligible(s))
  PROVE  \E f : /\ Fills(s, size, order, f)
                /\ Fill(s, size, order) = f[Len(order)].batches
                /\ Len(order) = Cardinality(Eligible(s))
<1> DEFINE N == Len(order)
           T == States(s)
           F == [n \in 1 .. N |-> [st \in T |-> Add(s, size, st, order[n])]]
<1>1. N \in Nat /\ N = Cardinality(Eligible(s)) /\ \A n \in 1 .. N : order[n] \in Eligible(s)
  BY SetupFacts, Arrangement
<1>2. Start(s) \in T
  BY DEF Start, States
<1>3. \A st \in T : \A n \in 1 .. N : F[n][st] = Add(s, size, st, order[n]) /\ F[n][st] \in T
  BY <1>1, AddType
<1>f. F = [n \in 1 .. N |-> [st \in T |-> F[n][st]]]
  OBVIOUS
<1> HIDE DEF F, T, N
<1>a. N \in Nat /\ Start(s) \in T /\ F \in [1 .. N -> [T -> T]]
  BY <1>1, <1>2, <1>3, <1>f
<1>b. \E g : Course(g, Start(s), F, N, T)
  BY <1>a, Recursion DEF Steps
<1>4. PICK g \in [0 .. N -> T] : g[0] = Start(s) /\ \A n \in 1 .. N : g[n] = F[n][g[n - 1]]
  BY <1>b DEF Course
<1>5. \A n \in 0 .. N : n = 0 \/ (n \in 1 .. N /\ n - 1 \in 0 .. N)
  BY <1>1
<1>6. \A n \in 0 .. N : g[n] = IF n = 0 THEN Start(s) ELSE Add(s, size, g[n - 1], order[n])
  BY <1>3, <1>4, <1>5
<1>7. Fills(s, size, order, g)
  <2>1. g = [n \in 0 .. N |-> g[n]]
    BY <1>4
  <2> QED
    BY <1>6, <2>1 DEF Fills, N
<1> DEFINE f == CHOOSE f : Fills(s, size, order, f)
<1>8. Fills(s, size, order, f)
  BY <1>7
<1>9. Fill(s, size, order) = f[Len(order)].batches
  BY DEF Fill, Fills, Start, Keys
<1> HIDE DEF f
<1> QED
  BY <1>1, <1>8, <1>9 DEF N

\* Batches: full, of one shape, of samples seen, each of them in one place.
SoundBatches(s, size, seen, batches) ==
  /\ batches \in Seq(Seq(Eligible(s)))
  /\ \A a \in DOMAIN batches : Len(batches[a]) = size
  /\ \A a \in DOMAIN batches : \A j \in 1 .. size : batches[a][j] \in seen
  /\ \A a \in DOMAIN batches : \A j, l \in 1 .. size : Key(s, batches[a][j]) = Key(s, batches[a][l])
  /\ \A a, b \in DOMAIN batches : \A j, l \in 1 .. size :
       batches[a][j] = batches[b][l] => a = b /\ j = l

\* A bucket: not full, of its shape, of samples seen, each of them once.
SoundBucket(s, size, seen, k, bucket) ==
  /\ bucket \in Seq(Eligible(s)) /\ Len(bucket) < size
  /\ \A j \in 1 .. Len(bucket) : bucket[j] \in seen /\ Key(s, bucket[j]) = k
  /\ \A j, l \in 1 .. Len(bucket) : bucket[j] = bucket[l] => j = l

\* No sample of a bucket is in a batch.
Apart(size, batches, bucket) ==
  \A a \in DOMAIN batches : \A j \in 1 .. size : \A l \in 1 .. Len(bucket) :
    batches[a][j] # bucket[l]

Sound(s, size, seen, st) ==
  /\ SoundBatches(s, size, seen, st.batches)
  /\ st.pending \in [Keys(s) -> Seq(Eligible(s))]
  /\ \A k \in Keys(s) : SoundBucket(s, size, seen, k, st.pending[k])
  /\ \A k \in Keys(s) : Apart(size, st.batches, st.pending[k])

\* A batch more, of samples that no batch has.
LEMMA BatchMore ==
  ASSUME NEW s \in Setups, NEW size \in Nat, NEW seen, NEW batches,
         SoundBatches(s, size, seen, batches),
         NEW b \in Seq(Eligible(s)), Len(b) = size,
         \A j \in 1 .. size : b[j] \in seen,
         \A j, l \in 1 .. size : Key(s, b[j]) = Key(s, b[l]),
         \A j, l \in 1 .. size : b[j] = b[l] => j = l,
         Apart(size, batches, b)
  PROVE  SoundBatches(s, size, seen, Append(batches, b))
<1> DEFINE n == Len(batches)
           new == Append(batches, b)
<1>1. batches \in Seq(Seq(Eligible(s))) /\ n \in Nat /\ DOMAIN batches = 1 .. n
  BY DEF SoundBatches
<1>2. /\ new \in Seq(Seq(Eligible(s))) /\ DOMAIN new = 1 .. n + 1
      /\ \A a \in 1 .. n : new[a] = batches[a]
      /\ new[n + 1] = b
  BY <1>1
<1>3. \A a \in 1 .. n + 1 : a \in 1 .. n \/ a = n + 1
  BY <1>1
<1> HIDE DEF n
<1>a. /\ \A a \in 1 .. n : Len(batches[a]) = size
      /\ \A a \in 1 .. n : \A j \in 1 .. size : batches[a][j] \in seen
      /\ \A a \in 1 .. n : \A j, l \in 1 .. size : Key(s, batches[a][j]) = Key(s, batches[a][l])
      /\ \A a, c \in 1 .. n : \A j, l \in 1 .. size :
           batches[a][j] = batches[c][l] => a = c /\ j = l
      /\ \A a \in 1 .. n : \A j \in 1 .. size : \A l \in 1 .. size : batches[a][j] # b[l]
  <2>1. DOMAIN batches = 1 .. n
    BY <1>1
  <2>2. /\ \A a \in 1 .. n : Len(batches[a]) = size
        /\ \A a \in 1 .. n : \A j \in 1 .. size : batches[a][j] \in seen
    BY <2>1 DEF SoundBatches
  <2>3. \A a \in 1 .. n : \A j, l \in 1 .. size : Key(s, batches[a][j]) = Key(s, batches[a][l])
    BY <2>1 DEF SoundBatches
  <2>4. \A a, c \in 1 .. n : \A j, l \in 1 .. size :
           batches[a][j] = batches[c][l] => a = c /\ j = l
    <3>1. \A a, c \in DOMAIN batches : \A j, l \in 1 .. size :
            batches[a][j] = batches[c][l] => a = c /\ j = l
      BY Zenon DEF SoundBatches
    <3> QED
      BY <2>1, <3>1
  <2>5. \A a \in 1 .. n : \A j \in 1 .. size : \A l \in 1 .. size : batches[a][j] # b[l]
    BY <2>1 DEF Apart
  <2> QED
    BY <2>2, <2>3, <2>4, <2>5
<1> HIDE DEF new
<1>4. \A a \in 1 .. n + 1 : Len(new[a]) = size
  BY <1>2, <1>3, <1>a
<1>5. \A a \in 1 .. n + 1 : \A j \in 1 .. size : new[a][j] \in seen
  BY <1>2, <1>3, <1>a
<1>6. ASSUME NEW a \in 1 .. n + 1, NEW j \in 1 .. size, NEW l \in 1 .. size
      PROVE  Key(s, new[a][j]) = Key(s, new[a][l])
  <2>1. CASE a \in 1 .. n
    <3>1. new[a] = batches[a]
      BY <1>2, <2>1
    <3> QED
      BY <1>a, <2>1, <3>1
  <2>2. CASE a = n + 1
    BY <1>2, <2>2
  <2> QED
    BY <1>3, <2>1, <2>2
<1>7. ASSUME NEW a \in 1 .. n + 1, NEW c \in 1 .. n + 1, NEW j \in 1 .. size, NEW l \in 1 .. size,
             new[a][j] = new[c][l]
      PROVE  a = c /\ j = l
  <2>1. CASE a \in 1 .. n /\ c \in 1 .. n
    <3>1. new[a] = batches[a] /\ new[c] = batches[c]
      BY <1>2, <2>1
    <3>2. batches[a][j] = batches[c][l]
      BY <1>7, <3>1
    <3> QED
      BY <1>a, <2>1, <3>2
  <2>2. CASE a \in 1 .. n /\ c = n + 1
    BY <1>2, <1>7, <1>a, <2>2
  <2>3. CASE a = n + 1 /\ c \in 1 .. n
    BY <1>2, <1>7, <1>a, <2>3
  <2>4. CASE a = n + 1 /\ c = n + 1
    BY <1>2, <1>7, <2>4
  <2> QED
    BY <1>3, <2>1, <2>2, <2>3, <2>4
<1>8. SoundBatches(s, size, seen, new)
  <2>1. \A a \in 1 .. n + 1 : \A j, l \in 1 .. size : Key(s, new[a][j]) = Key(s, new[a][l])
    BY <1>6
  <2>2. \A a, c \in 1 .. n + 1 : \A j, l \in 1 .. size : new[a][j] = new[c][l] => a = c /\ j = l
    BY <1>7
  <2> QED
    BY <1>2, <1>4, <1>5, <2>1, <2>2 DEF SoundBatches
<1> QED
  BY <1>8 DEF new

\* What was seen stays seen.
LEMMA SeenMore ==
  ASSUME NEW s \in Setups, NEW size \in Nat, NEW seen, NEW more, seen \subseteq more
  PROVE  /\ \A batches : SoundBatches(s, size, seen, batches) => SoundBatches(s, size, more, batches)
         /\ \A k, bucket : SoundBucket(s, size, seen, k, bucket) => SoundBucket(s, size, more, k, bucket)
<1>1. \A batches : SoundBatches(s, size, seen, batches) => SoundBatches(s, size, more, batches)
  BY DEF SoundBatches
<1>2. \A k, bucket : SoundBucket(s, size, seen, k, bucket) => SoundBucket(s, size, more, k, bucket)
  BY DEF SoundBucket
<1> QED
  BY <1>1, <1>2

\* A sample more.
LEMMA SoundStep ==
  ASSUME NEW s \in Setups, NEW size \in Nat \ {0}, NEW seen, NEW st, Sound(s, size, seen, st),
         NEW i \in Eligible(s), i \notin seen
  PROVE  Sound(s, size, seen \union {i}, Add(s, size, st, i))
<1> DEFINE batches == st.batches
           pending == st.pending
           K == Key(s, i)
           old == pending[K]
           bucket == Append(old, i)
           full == Len(bucket) = size
           more == seen \union {i}
           newB == IF full THEN Append(batches, bucket) ELSE batches
           newP == [pending EXCEPT ![K] = IF full THEN <<>> ELSE bucket]
           E == Eligible(s)
<1>0. Add(s, size, st, i) = [batches |-> newB, pending |-> newP]
  BY DEF Add
<1>1. /\ K \in Keys(s)
      /\ SoundBatches(s, size, seen, batches)
      /\ pending \in [Keys(s) -> Seq(E)]
      /\ \A k \in Keys(s) : SoundBucket(s, size, seen, k, pending[k])
      /\ \A k \in Keys(s) : Apart(size, batches, pending[k])
  BY DEF Sound, Keys
<1>2. /\ SoundBatches(s, size, more, batches)
      /\ \A k \in Keys(s) : SoundBucket(s, size, more, k, pending[k])
  BY <1>1, SeenMore
<1> DEFINE n == Len(old)
<1>3. /\ old \in Seq(E) /\ n \in Nat /\ n < size
      /\ \A j \in 1 .. n : old[j] \in seen /\ Key(s, old[j]) = K
      /\ \A j, l \in 1 .. n : old[j] = old[l] => j = l
      /\ Apart(size, batches, old)
  <2>1. SoundBucket(s, size, seen, K, old) /\ Apart(size, batches, old)
    BY <1>1
  <2> HIDE DEF old
  <2> QED
    BY <2>1 DEF SoundBucket
<1> HIDE DEF old, K, E
<1>4. /\ bucket \in Seq(E) /\ Len(bucket) = n + 1
      /\ \A j \in 1 .. n : bucket[j] = old[j]
      /\ bucket[n + 1] = i
  BY <1>3 DEF E
<1> HIDE DEF bucket, n
<1>5. \A j \in 1 .. n + 1 : j \in 1 .. n \/ j = n + 1
  BY <1>3
<1>6. \A j \in 1 .. n + 1 : bucket[j] \in more /\ Key(s, bucket[j]) = K
  BY <1>3, <1>4, <1>5 DEF K
<1>7. \A j, l \in 1 .. n + 1 : bucket[j] = bucket[l] => j = l
  BY <1>3, <1>4, <1>5
<1>8. Apart(size, batches, bucket)
  <2>1. \A a \in DOMAIN batches : \A j \in 1 .. size : batches[a][j] \in seen
    BY <1>1 DEF SoundBatches
  <2> QED
    BY <1>3, <1>4, <1>5, <2>1 DEF Apart, n
<1>9. CASE full
  <2>1. newB = Append(batches, bucket) /\ newP = [pending EXCEPT ![K] = <<>>] /\ n + 1 = size
    BY <1>4, <1>9
  <2>2. SoundBatches(s, size, more, newB)
    <3>1. \A j, l \in 1 .. size : Key(s, bucket[j]) = Key(s, bucket[l])
      BY <1>6, <2>1
    <3>2. Len(bucket) = size /\ size \in Nat
      BY <1>4, <2>1
    <3>3. SoundBatches(s, size, more, Append(batches, bucket))
      <4> HIDE DEF more, batches
      <4> QED
        BY <1>2, <1>4, <1>6, <1>7, <1>8, <2>1, <3>1, <3>2, BatchMore DEF E
    <3> QED
      BY <2>1, <3>3
  <2> HIDE DEF newB, newP, full, more
  <2>3. newP \in [Keys(s) -> Seq(E)] /\ newP[K] = <<>>
        /\ \A k \in Keys(s) : k # K => newP[k] = pending[k]
    BY <1>1, <2>1
  <2>4. SoundBucket(s, size, more, K, <<>>)
    BY DEF SoundBucket
  <2>5. \A k \in Keys(s) : SoundBucket(s, size, more, k, newP[k])
    BY <1>2, <2>3, <2>4
  <2>6. ASSUME NEW k \in Keys(s) PROVE Apart(size, newB, newP[k])
    <3>1. CASE k = K
      BY <2>3, <3>1 DEF Apart
    <3>2. CASE k # K
      <4> DEFINE p == pending[k]
                 b == Len(batches)
      <4>1. newP[k] = p /\ SoundBucket(s, size, seen, k, p) /\ Apart(size, batches, p)
        BY <1>1, <2>3, <3>2
      <4>2. batches \in Seq(Seq(E)) /\ DOMAIN batches = 1 .. b /\ b \in Nat
        BY <1>1 DEF SoundBatches, E
      <4>3. DOMAIN newB = 1 .. b + 1 /\ newB[b + 1] = bucket /\ \A a \in 1 .. b : newB[a] = batches[a]
        BY <1>4, <2>1, <4>2
      <4>4. \A a \in 1 .. b + 1 : a \in 1 .. b \/ a = b + 1
        BY <4>2
      <4>5. \A j \in 1 .. size : \A l \in 1 .. Len(p) : bucket[j] # p[l]
        BY <1>6, <2>1, <3>2, <4>1 DEF SoundBucket
      <4> HIDE DEF p, b, batches
      <4> QED
        BY <4>1, <4>2, <4>3, <4>4, <4>5, SMTT(30) DEF Apart
    <3> QED
      BY <3>1, <3>2
  <2> DEFINE new == Add(s, size, st, i)
  <2>7. new.batches = newB /\ new.pending = newP
    BY <1>0
  <2> HIDE DEF new
  <2>8. Sound(s, size, more, new)
    BY <2>2, <2>3, <2>5, <2>6, <2>7 DEF Sound, E
  <2> QED
    BY <2>8 DEF new, more
<1>10. CASE ~ full
  <2>1. newB = batches /\ newP = [pending EXCEPT ![K] = bucket] /\ n + 1 < size
    BY <1>3, <1>4, <1>10
  <2> HIDE DEF newB, newP, full, more
  <2>3. newP \in [Keys(s) -> Seq(E)] /\ newP[K] = bucket
        /\ \A k \in Keys(s) : k # K => newP[k] = pending[k]
    BY <1>1, <1>4, <2>1
  <2>4. SoundBucket(s, size, more, K, bucket)
    BY <1>4, <1>6, <1>7, <2>1 DEF SoundBucket, E
  <2>5. \A k \in Keys(s) : SoundBucket(s, size, more, k, newP[k])
    BY <1>2, <2>3, <2>4
  <2>6. \A k \in Keys(s) : Apart(size, newB, newP[k])
    BY <1>1, <1>8, <2>1, <2>3
  <2> DEFINE new == Add(s, size, st, i)
  <2>7. new.batches = newB /\ new.pending = newP
    BY <1>0
  <2> HIDE DEF new
  <2>8. Sound(s, size, more, new)
    BY <1>2, <2>1, <2>3, <2>5, <2>6, <2>7 DEF Sound, E
  <2> QED
    BY <2>8 DEF new, more
<1> QED
  BY <1>9, <1>10

\* The first n samples of an order.
Seen(order, n) == {order[p] : p \in 1 .. n}

\* Every sample of an order is added to what is sound.
LEMMA FillSound ==
  ASSUME NEW s \in Setups, NEW size \in Nat \ {0}, NEW order \in SetToSeqs(Eligible(s)),
         NEW f, Fills(s, size, order, f)
  PROVE  \A n \in 0 .. Len(order) : Sound(s, size, Seen(order, n), f[n])
<1> DEFINE N == Len(order)
           G == {n \in 0 .. N : Sound(s, size, Seen(order, n), f[n])}
<1>1. N \in Nat /\ (\A n \in 1 .. N : order[n] \in Eligible(s))
      /\ \A p, q \in 1 .. N : order[p] = order[q] => p = q
  BY SetupFacts, Arrangement, SMTT(30)
<1>2. \A n \in 0 .. N : f[n] = IF n = 0 THEN Start(s) ELSE Add(s, size, f[n - 1], order[n])
  BY DEF Fills
<1> HIDE DEF N
<1>3. 0 \in G
  <2>1. 0 \in 0 .. N /\ f[0] = Start(s)
    BY <1>1, <1>2
  <2>2. Sound(s, size, {}, Start(s))
    BY DEF Sound, Start, SoundBatches, SoundBucket, Apart
  <2>3. Seen(order, 0) = {}
    BY DEF Seen
  <2> QED
    BY <2>1, <2>2, <2>3
<1>4. ASSUME NEW n \in 0 .. N - 1, n \in G PROVE n + 1 \in G
  <2>1. n + 1 \in 1 .. N /\ n + 1 \in 0 .. N /\ n + 1 # 0 /\ (n + 1) - 1 = n
    BY <1>1
  <2>2. f[n + 1] = Add(s, size, f[n], order[n + 1])
    BY <1>2, <2>1
  <2>3. Seen(order, n + 1) = Seen(order, n) \union {order[n + 1]}
    <3>1. \A p \in 1 .. n + 1 : p \in 1 .. n \/ p = n + 1
      OBVIOUS
    <3>2. \A p \in 1 .. n : p \in 1 .. n + 1
      OBVIOUS
    <3>3. n + 1 \in 1 .. n + 1
      OBVIOUS
    <3> QED
      BY <3>1, <3>2, <3>3 DEF Seen
  <2>4. order[n + 1] \notin Seen(order, n)
    <3>1. \A p \in 1 .. n : p \in 1 .. N /\ p # n + 1
      BY <1>1
    <3> QED
      BY <1>1, <2>1, <3>1 DEF Seen
  <2>5. Sound(s, size, Seen(order, n), f[n])
    BY <1>4
  <2>6. Sound(s, size, Seen(order, n + 1), f[n + 1])
    BY <1>1, <2>1, <2>2, <2>3, <2>4, <2>5, SoundStep
  <2> QED
    BY <2>1, <2>6
<1> HIDE DEF G
<1>5. \A n \in 0 .. N : n \in G
  BY <1>1, <1>3, <1>4, UpTo
<1> QED
  BY <1>5 DEF G, N

-----------------------------------------------------------------------------
(* Counting: no order of the samples gives more batches than another.      *)

\* The places taken in the buckets, and how many of n samples are of a shape.
Slots(s, size, pending) == {x \in Keys(s) \X (1 .. size) : x[2] <= Len(pending[x[1]])}
OfKey(s, order, k, n) == {p \in 1 .. n : Key(s, order[p]) = k}

\* Of n samples some are in full batches, the others in buckets.
Counted(s, size, order, n, st) ==
  /\ Len(st.batches) * size + Cardinality(Slots(s, size, st.pending)) = n
  /\ \A k \in Keys(s) : \E q \in Nat :
       Cardinality(OfKey(s, order, k, n)) = size * q + Len(st.pending[k])

\* The places are finitely many.
LEMMA SlotsFinite ==
  ASSUME NEW s \in Setups, NEW size \in Nat, NEW pending
  PROVE  IsFiniteSet(Slots(s, size, pending)) /\ Cardinality(Slots(s, size, pending)) \in Nat
<1>1. IsFiniteSet(Keys(s))
  <2> DEFINE f == [i \in Eligible(s) |-> Key(s, i)]
  <2>1. f \in Surjection(Eligible(s), Keys(s))
    BY DEF Surjection, Keys
  <2>2. IsFiniteSet(Eligible(s))
    BY SetupFacts
  <2> QED
    BY <2>1, <2>2, FS_Surjection
<1>2. IsFiniteSet(1 .. size)
  BY FS_Interval
<1>3. IsFiniteSet(Keys(s) \X (1 .. size))
  BY <1>1, <1>2, FS_Product
<1>4. Slots(s, size, pending) \in SUBSET (Keys(s) \X (1 .. size))
  BY DEF Slots
<1>5. IsFiniteSet(Slots(s, size, pending))
  BY <1>3, <1>4, FS_Subset
<1> QED
  BY <1>5, FS_CardinalityType

\* A bucket that gains a sample takes a place more.
LEMMA SlotMore ==
  ASSUME NEW s \in Setups, NEW size \in Nat, NEW pending, NEW new, NEW K \in Keys(s),
         NEW m \in Nat, m < size, Len(pending[K]) = m, Len(new[K]) = m + 1,
         \A k \in Keys(s) : k # K => new[k] = pending[k]
  PROVE  Cardinality(Slots(s, size, new)) = Cardinality(Slots(s, size, pending)) + 1
<1>1. m + 1 \in 1 .. size
  OBVIOUS
<1>2. <<K, m + 1>> \notin Slots(s, size, pending)
  BY DEF Slots
<1>3. ASSUME NEW x \in Keys(s) \X (1 .. size)
      PROVE  x \in Slots(s, size, new) <=> x \in Slots(s, size, pending) \/ x = <<K, m + 1>>
  <2>1. PICK k \in Keys(s), j \in 1 .. size : x = <<k, j>>
    OBVIOUS
  <2>2. x \in Slots(s, size, new) <=> j <= Len(new[k])
    BY <2>1 DEF Slots
  <2>3. x \in Slots(s, size, pending) <=> j <= Len(pending[k])
    BY <2>1 DEF Slots
  <2>4. CASE k = K
    BY <2>1, <2>2, <2>3, <2>4
  <2>5. CASE k # K
    BY <2>1, <2>2, <2>3, <2>5
  <2> QED
    BY <2>4, <2>5
<1>4. Slots(s, size, new) = Slots(s, size, pending) \union {<<K, m + 1>>}
  <2>1. <<K, m + 1>> \in Keys(s) \X (1 .. size)
    BY <1>1
  <2>2. /\ Slots(s, size, new) \in SUBSET (Keys(s) \X (1 .. size))
        /\ Slots(s, size, pending) \in SUBSET (Keys(s) \X (1 .. size))
    BY DEF Slots
  <2> QED
    BY <1>3, <2>1, <2>2
<1>5. IsFiniteSet(Slots(s, size, pending))
  BY SlotsFinite
<1> QED
  BY <1>2, <1>4, <1>5, FS_AddElement, ZenonT(60)

\* A bucket that is emptied gives up its places.
LEMMA SlotsFreed ==
  ASSUME NEW s \in Setups, NEW size \in Nat, NEW pending, NEW new, NEW K \in Keys(s),
         NEW m \in Nat, m < size, Len(pending[K]) = m, Len(new[K]) = 0,
         \A k \in Keys(s) : k # K => new[k] = pending[k]
  PROVE  Cardinality(Slots(s, size, pending)) = Cardinality(Slots(s, size, new)) + m
<1> DEFINE W == {<<K, j>> : j \in 1 .. m}
           A == Slots(s, size, new)
<1>1. IsFiniteSet(W) /\ Cardinality(W) = m
  <2> DEFINE I == 1 .. m
             f == [j \in I |-> <<K, j>>]
  <2>1. f \in [I -> W]
    OBVIOUS
  <2>2. (\A x, y \in I : f[x] = f[y] => x = y) /\ \A t \in W : \E x \in I : f[x] = t
    OBVIOUS
  <2>3. IsFiniteSet(I) /\ Cardinality(I) = m
    BY FS_Interval
  <2> HIDE DEF f, W, I
  <2> QED
    BY <2>1, <2>2, <2>3, SameCount
<1>2. ASSUME NEW x \in Keys(s) \X (1 .. size)
      PROVE  /\ x \in Slots(s, size, pending) <=> x \in A \/ x \in W
             /\ ~ (x \in A /\ x \in W)
  <2>1. PICK k \in Keys(s), j \in 1 .. size : x = <<k, j>>
    OBVIOUS
  <2>2. x \in A <=> j <= Len(new[k])
    BY <2>1 DEF Slots
  <2>3. x \in Slots(s, size, pending) <=> j <= Len(pending[k])
    BY <2>1 DEF Slots
  <2>4. x \in W <=> k = K /\ j <= m
    BY <2>1
  <2> HIDE DEF A, W
  <2>5. CASE k = K
    BY <2>1, <2>2, <2>3, <2>4, <2>5
  <2>6. CASE k # K
    BY <2>1, <2>2, <2>3, <2>4, <2>6
  <2> QED
    BY <2>5, <2>6
<1>3. W \in SUBSET (Keys(s) \X (1 .. size))
  OBVIOUS
<1>4. /\ A \in SUBSET (Keys(s) \X (1 .. size))
      /\ Slots(s, size, pending) \in SUBSET (Keys(s) \X (1 .. size))
  BY DEF Slots
<1>5. IsFiniteSet(A) /\ Cardinality(A) \in Nat
  BY SlotsFinite
<1> HIDE DEF A, W
<1>6. Slots(s, size, pending) = A \union W /\ A \cap W = {}
  BY <1>2, <1>3, <1>4
<1>7. Cardinality(A \union W) = Cardinality(A) + Cardinality(W) - Cardinality(A \cap W)
  BY <1>1, <1>5, FS_Union
<1>8. Cardinality(A \cap W) = 0
  BY <1>6, FS_EmptySet
<1> QED
  BY <1>1, <1>5, <1>6, <1>7, <1>8 DEF A

\* A sample more is counted.
LEMMA CountStep ==
  ASSUME NEW s \in Setups, NEW size \in Nat \ {0}, NEW seen, NEW st, Sound(s, size, seen, st),
         NEW order, NEW n \in Nat, order[n + 1] \in Eligible(s),
         Counted(s, size, order, n, st)
  PROVE  Counted(s, size, order, n + 1, Add(s, size, st, order[n + 1]))
<1> DEFINE i == order[n + 1]
           batches == st.batches
           pending == st.pending
           K == Key(s, i)
           old == pending[K]
           bucket == Append(old, i)
           full == Len(bucket) = size
           newB == IF full THEN Append(batches, bucket) ELSE batches
           newP == [pending EXCEPT ![K] = IF full THEN <<>> ELSE bucket]
           m == Len(old)
<1>0. Add(s, size, st, i).batches = newB /\ Add(s, size, st, i).pending = newP
  BY DEF Add
<1>1. /\ K \in Keys(s) /\ pending \in [Keys(s) -> Seq(Eligible(s))]
      /\ batches \in Seq(Seq(Eligible(s)))
      /\ \A k \in Keys(s) : SoundBucket(s, size, seen, k, pending[k])
  BY DEF Sound, Keys, SoundBatches
<1>2. old \in Seq(Eligible(s)) /\ m \in Nat /\ m < size
  <2>1. SoundBucket(s, size, seen, K, old)
    BY <1>1
  <2> HIDE DEF old
  <2> QED
    BY <2>1 DEF SoundBucket
<1>3. Len(bucket) = m + 1 /\ bucket \in Seq(Eligible(s))
  <2> HIDE DEF old
  <2> QED
    BY <1>2
<1>4. /\ newP[K] = IF full THEN <<>> ELSE bucket
      /\ \A k \in Keys(s) : k # K => newP[k] = pending[k]
  BY <1>1
<1>5. Len(newB) = IF full THEN Len(batches) + 1 ELSE Len(batches)
  BY <1>1, <1>3
<1>6. /\ Len(batches) * size + Cardinality(Slots(s, size, pending)) = n
      /\ \A k \in Keys(s) : \E q \in Nat :
           Cardinality(OfKey(s, order, k, n)) = size * q + Len(pending[k])
  BY DEF Counted
<1>7. /\ Cardinality(Slots(s, size, pending)) \in Nat /\ Cardinality(Slots(s, size, newP)) \in Nat
      /\ Len(batches) \in Nat
  BY <1>1, SlotsFinite
<1> DEFINE a == Len(batches)
           c == Cardinality(Slots(s, size, pending))
           d == Cardinality(Slots(s, size, newP))
<1>8. Len(newB) * size + d = n + 1
  <2>1. CASE full
    <3>1. Len(old) = m /\ Len(newP[K]) = 0 /\ m + 1 = size
      BY <1>3, <1>4, <2>1
    <3>2. c = d + m
      <4>1. /\ K \in Keys(s) /\ m \in Nat /\ m < size /\ size \in Nat
            /\ Len(pending[K]) = m /\ Len(newP[K]) = 0
            /\ \A k \in Keys(s) : k # K => newP[k] = pending[k]
        BY <1>1, <1>2, <1>4, <3>1
      <4> HIDE DEF newP, m, pending, K
      <4> QED
        BY <4>1, SlotsFreed
    <3>3. Len(newB) = a + 1
      BY <1>5, <2>1
    <3>4. a * size + c = n /\ a \in Nat /\ c \in Nat /\ d \in Nat
      BY <1>6, <1>7
    <3> HIDE DEF a, c, d, newB, m
    <3>5. (a + 1) * size = a * size + size /\ a * size \in Nat
      BY <3>4
    <3> QED
      BY <1>2, <3>1, <3>2, <3>3, <3>4, <3>5
  <2>2. CASE ~ full
    <3>1. Len(old) = m /\ Len(newP[K]) = m + 1
      BY <1>3, <1>4, <2>2
    <3>2. d = c + 1
      <4> HIDE DEF newP, m, pending, K
      <4> QED
        BY <1>1, <1>2, <1>4, <3>1, SlotMore, ZenonT(30)
    <3>3. Len(newB) = a
      BY <1>5, <2>2
    <3>4. a * size + c = n /\ a \in Nat /\ c \in Nat /\ d \in Nat
      BY <1>6, <1>7
    <3> HIDE DEF a, c, d, newB, m
    <3>5. a * size \in Nat
      BY <3>4
    <3> QED
      BY <3>2, <3>3, <3>4, <3>5
  <2> QED
    BY <2>1, <2>2
<1>9. ASSUME NEW k \in Keys(s)
      PROVE  \E q \in Nat : Cardinality(OfKey(s, order, k, n + 1)) = size * q + Len(newP[k])
  <2>1. PICK q \in Nat : Cardinality(OfKey(s, order, k, n)) = size * q + Len(pending[k])
    BY <1>6
  <2>2. \A p \in 1 .. n + 1 : p \in 1 .. n \/ p = n + 1
    OBVIOUS
  <2>3. \A p \in 1 .. n : p \in 1 .. n + 1
    OBVIOUS
  <2>4. n + 1 \in 1 .. n + 1 /\ n + 1 \notin 1 .. n
    OBVIOUS
  <2>5. CASE k # K
    <3>1. OfKey(s, order, k, n + 1) = OfKey(s, order, k, n)
      <4>1. Key(s, order[n + 1]) # k
        BY <2>5
      <4> QED
        BY <2>2, <2>3, <4>1 DEF OfKey
    <3>2. newP[k] = pending[k]
      BY <1>4, <2>5
    <3> QED
      BY <2>1, <3>1, <3>2
  <2>6. CASE k = K
    <3>1. OfKey(s, order, k, n + 1) = OfKey(s, order, k, n) \union {n + 1}
      <4>1. Key(s, order[n + 1]) = k
        BY <2>6
      <4> QED
        BY <2>2, <2>3, <2>4, <4>1 DEF OfKey
    <3>2. n + 1 \notin OfKey(s, order, k, n)
      BY <2>4 DEF OfKey
    <3>3. IsFiniteSet(OfKey(s, order, k, n))
      <4>1. OfKey(s, order, k, n) \in SUBSET (1 .. n)
        BY DEF OfKey
      <4>2. IsFiniteSet(1 .. n)
        BY FS_Interval
      <4> QED
        BY <4>1, <4>2, FS_Subset
    <3>4. Cardinality(OfKey(s, order, k, n + 1)) = size * q + m + 1
      <4>1. Cardinality(OfKey(s, order, k, n + 1)) = Cardinality(OfKey(s, order, k, n)) + 1
        BY <3>1, <3>2, <3>3, FS_AddElement
      <4>2. Cardinality(OfKey(s, order, k, n)) = size * q + m
        BY <2>1, <2>6
      <4> HIDE DEF m
      <4>3. size * q \in Nat
        OBVIOUS
      <4> QED
        BY <1>2, <4>1, <4>2, <4>3
    <3>5. CASE full
      <4>1. Len(newP[k]) = 0 /\ m + 1 = size
        BY <1>3, <1>4, <2>6, <3>5
      <4>2. size * q + m + 1 = size * (q + 1) + 0
        <5>1. size * (q + 1) = size * q + size /\ size * q \in Nat
          OBVIOUS
        <5> HIDE DEF m
        <5> QED
          BY <1>2, <4>1, <5>1
      <4>3. q + 1 \in Nat
        OBVIOUS
      <4>4. Cardinality(OfKey(s, order, k, n + 1)) = size * (q + 1) + Len(newP[k])
        BY <3>4, <4>1, <4>2
      <4> HIDE DEF newP
      <4> QED
        BY <4>3, <4>4
    <3>6. CASE ~ full
      <4>1. Len(newP[k]) = m + 1
        BY <1>3, <1>4, <2>6, <3>6
      <4>2. Cardinality(OfKey(s, order, k, n + 1)) = size * q + Len(newP[k])
        <5>1. size * q \in Nat
          OBVIOUS
        <5>2. m \in Nat
          BY <1>2
        <5> HIDE DEF m, newP
        <5>3. size * q + m + 1 = size * q + (m + 1)
          BY <5>1, <5>2
        <5> QED
          BY <3>4, <4>1, <5>3
      <4> HIDE DEF newP
      <4> QED
        BY <4>2
    <3> QED
      BY <3>5, <3>6
  <2> QED
    BY <2>5, <2>6
<1> DEFINE new == Add(s, size, st, i)
<1> HIDE DEF newB, newP, new
<1>10. Counted(s, size, order, n + 1, new)
  BY <1>0, <1>8, <1>9 DEF Counted, new
<1> QED
  BY <1>10 DEF new

\* Every sample of an order is counted.
LEMMA FillCounted ==
  ASSUME NEW s \in Setups, NEW size \in Nat \ {0}, NEW order \in SetToSeqs(Eligible(s)),
         NEW f, Fills(s, size, order, f)
  PROVE  \A n \in 0 .. Len(order) : Counted(s, size, order, n, f[n])
<1> DEFINE N == Len(order)
           G == {n \in 0 .. N : Counted(s, size, order, n, f[n])}
<1>1. N \in Nat /\ \A n \in 1 .. N : order[n] \in Eligible(s)
  BY SetupFacts, Arrangement
<1>2. \A n \in 0 .. N : f[n] = IF n = 0 THEN Start(s) ELSE Add(s, size, f[n - 1], order[n])
  BY DEF Fills
<1>3. \A n \in 0 .. N : Sound(s, size, Seen(order, n), f[n])
  BY FillSound
<1> HIDE DEF N
<1>4. 0 \in G
  <2>1. 0 \in 0 .. N /\ f[0] = Start(s)
    BY <1>1, <1>2
  <2>2. Start(s).batches = <<>> /\ \A k \in Keys(s) : Start(s).pending[k] = <<>>
    BY DEF Start
  <2>3. Slots(s, size, Start(s).pending) = {}
    <3>1. \A x \in Keys(s) \X (1 .. size) : ~ (x[2] <= Len(Start(s).pending[x[1]]))
      BY <2>2
    <3> QED
      BY <3>1 DEF Slots
  <2>4. \A k \in Keys(s) : Cardinality(OfKey(s, order, k, 0)) = size * 0 + Len(Start(s).pending[k])
    <3>1. \A k : OfKey(s, order, k, 0) = {}
      BY DEF OfKey
    <3>2. size * 0 + Len(<<>>) = 0
      OBVIOUS
    <3>3. \A k : Cardinality(OfKey(s, order, k, 0)) = 0
      BY <3>1, FS_EmptySet
    <3> QED
      BY <2>2, <3>2, <3>3
  <2>5. Len(Start(s).batches) * size + Cardinality(Slots(s, size, Start(s).pending)) = 0
    <3>1. 0 * size = 0
      OBVIOUS
    <3> QED
      BY <2>2, <2>3, <3>1, FS_EmptySet
  <2>6. 0 \in Nat
    OBVIOUS
  <2>7. Counted(s, size, order, 0, Start(s))
    BY <2>4, <2>5, <2>6 DEF Counted
  <2> QED
    BY <2>1, <2>7
<1>5. ASSUME NEW n \in 0 .. N - 1, n \in G PROVE n + 1 \in G
  <2>1. n \in Nat /\ n \in 0 .. N /\ n + 1 \in 1 .. N /\ n + 1 \in 0 .. N /\ n + 1 # 0 /\ (n + 1) - 1 = n
    BY <1>1
  <2>2. f[n + 1] = Add(s, size, f[n], order[n + 1])
    BY <1>2, <2>1
  <2>3. Sound(s, size, Seen(order, n), f[n]) /\ Counted(s, size, order, n, f[n])
        /\ order[n + 1] \in Eligible(s)
    BY <1>1, <1>3, <1>5, <2>1
  <2>4. Counted(s, size, order, n + 1, f[n + 1])
    BY <2>1, <2>2, <2>3, CountStep
  <2> QED
    BY <2>1, <2>4
<1> HIDE DEF G
<1>6. \A n \in 0 .. N : n \in G
  BY <1>1, <1>4, <1>5, UpTo
<1> QED
  BY <1>6 DEF G, N

\* How many samples of a shape an order has does not depend on the order.
LEMMA ShapeCount ==
  ASSUME NEW s \in Setups, NEW order \in SetToSeqs(Eligible(s)), NEW k
  PROVE  Cardinality(OfKey(s, order, k, Len(order)))
           = Cardinality({i \in Eligible(s) : Key(s, i) = k})
<1> DEFINE N == Len(order)
           A == OfKey(s, order, k, N)
           B == {i \in Eligible(s) : Key(s, i) = k}
           f == [p \in A |-> order[p]]
<1>1. /\ N \in Nat /\ \A n \in 1 .. N : order[n] \in Eligible(s)
      /\ \A p, q \in 1 .. N : order[p] = order[q] => p = q
      /\ \A i \in Eligible(s) : \E p \in 1 .. N : order[p] = i
  <2>1. IsFiniteSet(Eligible(s))
    BY SetupFacts
  <2> QED
    BY <2>1, Arrangement
<1> HIDE DEF N
<1>2. IsFiniteSet(A)
  <2>1. IsFiniteSet(1 .. N)
    BY <1>1, FS_Interval
  <2>2. A \in SUBSET (1 .. N)
    BY DEF OfKey
  <2> HIDE DEF A
  <2> QED
    BY <2>1, <2>2, FS_Subset
<1>3. f \in [A -> B]
  BY <1>1 DEF OfKey
<1>4. \A x, y \in A : f[x] = f[y] => x = y
  BY <1>1 DEF OfKey
<1>5. \A t \in B : \E x \in A : f[x] = t
  <2> SUFFICES ASSUME NEW t \in B PROVE \E x \in A : f[x] = t
    OBVIOUS
  <2>1. PICK p \in 1 .. N : order[p] = t
    BY <1>1
  <2>2. p \in A
    BY <2>1 DEF OfKey
  <2> QED
    BY <2>1, <2>2
<1> HIDE DEF f, A, B
<1>6. Cardinality(B) = Cardinality(A)
  BY <1>2, <1>3, <1>4, <1>5, SameCount
<1> QED
  BY <1>6 DEF A, B, N

\* Every epoch of a run has as many batches, in whatever order the samples come.
LEMMA SameBatchCount ==
  ASSUME NEW s \in Setups, NEW size \in Nat \ {0},
         NEW o \in SetToSeqs(Eligible(s)), NEW u \in SetToSeqs(Eligible(s))
  PROVE  Len(Fill(s, size, o)) = Len(Fill(s, size, u))
<1>1. PICK f : Fills(s, size, o, f) /\ Fill(s, size, o) = f[Len(o)].batches
               /\ Len(o) = Cardinality(Eligible(s))
  BY FillRuns
<1>2. PICK g : Fills(s, size, u, g) /\ Fill(s, size, u) = g[Len(u)].batches
               /\ Len(u) = Cardinality(Eligible(s))
  BY FillRuns
<1> DEFINE N == Cardinality(Eligible(s))
           x == f[N]
           y == g[N]
<1>3. N \in Nat /\ N \in 0 .. N
  <2>1. N \in Nat
    BY SetupFacts, FS_CardinalityType
  <2> QED
    BY <2>1
<1>4. Len(o) = N /\ Len(u) = N
  BY <1>1, <1>2
<1> HIDE DEF N
<1>5. Sound(s, size, Seen(o, N), x) /\ Counted(s, size, o, N, x)
  BY <1>1, <1>3, <1>4, FillSound, FillCounted
<1>6. Sound(s, size, Seen(u, N), y) /\ Counted(s, size, u, N, y)
  BY <1>2, <1>3, <1>4, FillSound, FillCounted
<1> HIDE DEF x, y
<1>7. ASSUME NEW k \in Keys(s) PROVE Len(x.pending[k]) = Len(y.pending[k])
  <2>1. Cardinality(OfKey(s, o, k, N)) = Cardinality(OfKey(s, u, k, N))
    <3>1. Cardinality(OfKey(s, o, k, Len(o))) = Cardinality({i \in Eligible(s) : Key(s, i) = k})
      BY ShapeCount
    <3>2. Cardinality(OfKey(s, u, k, Len(u))) = Cardinality({i \in Eligible(s) : Key(s, i) = k})
      BY ShapeCount
    <3> QED
      BY <1>4, <3>1, <3>2
  <2>2. PICK q \in Nat : Cardinality(OfKey(s, o, k, N)) = size * q + Len(x.pending[k])
    BY <1>5 DEF Counted
  <2>3. PICK r \in Nat : Cardinality(OfKey(s, u, k, N)) = size * r + Len(y.pending[k])
    BY <1>6 DEF Counted
  <2> DEFINE l == Len(x.pending[k])
             m == Len(y.pending[k])
  <2>4. l \in Nat /\ l < size /\ m \in Nat /\ m < size
    <3>1. SoundBucket(s, size, Seen(o, N), k, x.pending[k])
          /\ SoundBucket(s, size, Seen(u, N), k, y.pending[k])
      BY <1>5, <1>6 DEF Sound
    <3> QED
      BY <3>1 DEF SoundBucket
  <2>5. size * q + l = size * r + m
    BY <2>1, <2>2, <2>3
  <2> HIDE DEF l, m
  <2>6. size * (q - r) = m - l
    BY <2>4, <2>5
  <2>7. q - r = 0
    BY <2>4, <2>6, NoMultipleBetween
  <2>8. l = m
    BY <2>4, <2>6, <2>7
  <2> QED
    BY <2>8 DEF l, m
<1>8. Slots(s, size, x.pending) = Slots(s, size, y.pending)
  BY <1>7 DEF Slots
<1> DEFINE a == Len(x.batches)
           b == Len(y.batches)
           c == Cardinality(Slots(s, size, x.pending))
<1>9. a * size + c = b * size + c /\ c \in Nat
  BY <1>5, <1>6, <1>8, SlotsFinite DEF Counted
<1>10. a \in Nat /\ b \in Nat
  BY <1>5, <1>6 DEF Sound, SoundBatches
<1> HIDE DEF a, b, c
<1>11. size * (a - b) = 0
  <2>1. a * size \in Nat /\ b * size \in Nat
    BY <1>10
  <2>2. size * (a - b) = a * size - b * size
    BY <1>10
  <2> QED
    BY <1>9, <2>1, <2>2
<1>12. a - b = 0
  BY <1>10, <1>11, NoMultipleBetween
<1>13. a = b
  BY <1>10, <1>12
<1> QED
  BY <1>1, <1>2, <1>4, <1>13 DEF a, b, x, y

-----------------------------------------------------------------------------
(* Parts one after the other.                                              *)

\* Sums of the first numbers of a list.
LEMMA Sums ==
  ASSUME NEW sizes \in Seq(Nat)
  PROVE  /\ SumOf(sizes, 0) = 0
         /\ \A n \in 0 .. Len(sizes) : SumOf(sizes, n) \in Nat
         /\ \A n \in 1 .. Len(sizes) : SumOf(sizes, n) = SumOf(sizes, n - 1) + sizes[n]
<1> DEFINE N == Len(sizes)
           F == [n \in 1 .. N |-> [t \in Nat |-> t + sizes[n]]]
           Runs(g) == g = [m \in 0 .. N |-> IF m = 0 THEN 0 ELSE g[m - 1] + sizes[m]]
           sum == CHOOSE g : Runs(g)
<1>1. N \in Nat /\ \A n \in 1 .. N : sizes[n] \in Nat
  OBVIOUS
<1>2. \A n : SumOf(sizes, n) = sum[n]
  BY DEF SumOf
<1>3. F \in [1 .. N -> [Nat -> Nat]] /\ \A n \in 1 .. N : \A t \in Nat : F[n][t] = t + sizes[n]
  BY <1>1
<1> HIDE DEF F, N
<1>4. PICK g \in [0 .. N -> Nat] : g[0] = 0 /\ \A n \in 1 .. N : g[n] = F[n][g[n - 1]]
  <2>1. Steps(F, N, Nat) /\ 0 \in Nat
    BY <1>3 DEF Steps
  <2>2. \E g : Course(g, 0, F, N, Nat)
    BY <1>1, <2>1, Recursion
  <2> QED
    BY <2>2 DEF Course
<1>5. \A n \in 0 .. N : n = 0 \/ (n \in 1 .. N /\ n - 1 \in 0 .. N)
  BY <1>1
<1>6. \A n \in 0 .. N : g[n] = IF n = 0 THEN 0 ELSE g[n - 1] + sizes[n]
  BY <1>3, <1>4, <1>5
<1>7. Runs(g)
  BY <1>4, <1>6
<1>8. Runs(sum)
  BY <1>7
<1> HIDE DEF sum
<1>9. 0 \in 0 .. N /\ sum[0] = 0
  BY <1>1, <1>8
<1>10. ASSUME NEW n \in 1 .. N PROVE sum[n] = sum[n - 1] + sizes[n] /\ n - 1 \in 0 .. N
  <2>1. n \in 0 .. N /\ n # 0 /\ n - 1 \in 0 .. N
    BY <1>1
  <2> QED
    BY <1>8, <2>1
<1> DEFINE G == {n \in 0 .. N : sum[n] \in Nat}
<1>11. 0 \in G
  BY <1>9
<1>12. ASSUME NEW n \in 0 .. N - 1, n \in G PROVE n + 1 \in G
  <2>1. n + 1 \in 1 .. N /\ n + 1 \in 0 .. N /\ (n + 1) - 1 = n
    BY <1>1
  <2>2. sum[n + 1] = sum[n] + sizes[n + 1] /\ sizes[n + 1] \in Nat /\ sum[n] \in Nat
    BY <1>1, <1>10, <1>12, <2>1
  <2> QED
    BY <2>1, <2>2
<1> HIDE DEF G
<1>13. \A n \in 0 .. N : n \in G
  BY <1>1, <1>11, <1>12, UpTo
<1>14. \A n \in 0 .. N : sum[n] \in Nat
  BY <1>13 DEF G
<1> QED
  BY <1>2, <1>9, <1>10, <1>14 DEF N

\* They grow.
LEMMA SumsGrow ==
  ASSUME NEW sizes \in Seq(Nat), NEW m \in 0 .. Len(sizes)
  PROVE  \A n \in m .. Len(sizes) : SumOf(sizes, m) <= SumOf(sizes, n)
<1> DEFINE N == Len(sizes)
           S(n) == SumOf(sizes, n)
           G == {n \in 0 .. N - m : S(m) <= S(m + n)}
<1>1. N \in Nat /\ m \in Nat /\ N - m \in Nat /\ \A n \in 1 .. N : sizes[n] \in Nat
  OBVIOUS
<1>2. /\ \A n \in 0 .. N : S(n) \in Nat
      /\ \A n \in 1 .. N : S(n) = S(n - 1) + sizes[n]
  BY Sums
<1> HIDE DEF S, N
<1>3. 0 \in G
  <2>1. m + 0 = m /\ m \in 0 .. N /\ 0 \in 0 .. N - m
    BY <1>1 DEF N
  <2> QED
    BY <1>2, <2>1
<1>4. ASSUME NEW n \in 0 .. N - m - 1, n \in G PROVE n + 1 \in G
  <2>1. m + n \in 0 .. N /\ m + (n + 1) \in 1 .. N /\ m + (n + 1) - 1 = m + n /\ n + 1 \in 0 .. N - m
        /\ m \in 0 .. N
    BY <1>1 DEF N
  <2>2. S(m + (n + 1)) = S(m + n) + sizes[m + (n + 1)]
    BY <1>2, <2>1
  <2>3. S(m + n) \in Nat /\ S(m) \in Nat /\ S(m + (n + 1)) \in Nat
    BY <1>2, <2>1
  <2>4. sizes[m + (n + 1)] \in Nat /\ S(m) <= S(m + n)
    BY <1>1, <1>4, <2>1
  <2>5. S(m) <= S(m + (n + 1))
    BY <2>2, <2>3, <2>4
  <2> QED
    BY <2>1, <2>5
<1> HIDE DEF G
<1>5. \A n \in 0 .. N - m : n \in G
  BY <1>1, <1>3, <1>4, UpTo
<1>6. ASSUME NEW n \in m .. N PROVE S(m) <= S(n)
  <2>1. n - m \in 0 .. N - m /\ m + (n - m) = n
    BY <1>1
  <2>2. n - m \in G
    BY <1>5, <2>1
  <2> QED
    BY <2>1, <2>2 DEF G
<1> QED
  BY <1>6 DEF N, S

\* Every position lies in one of the parts.
LEMMA PartOf ==
  ASSUME NEW sizes \in Seq(Nat), NEW p \in 1 .. SumOf(sizes, Len(sizes))
  PROVE  \E m \in 1 .. Len(sizes) : \E j \in 1 .. sizes[m] : p = SumOf(sizes, m - 1) + j
<1> DEFINE N == Len(sizes)
           S(n) == SumOf(sizes, n)
           Found(n) == \A q \in 1 .. S(n) :
                         \E m \in 1 .. N : \E j \in 1 .. sizes[m] : q = S(m - 1) + j
           G == {n \in 0 .. N : Found(n)}
<1>1. N \in Nat /\ \A n \in 1 .. N : sizes[n] \in Nat
  OBVIOUS
<1>2. /\ S(0) = 0 /\ \A n \in 0 .. N : S(n) \in Nat
      /\ \A n \in 1 .. N : S(n) = S(n - 1) + sizes[n]
  BY Sums
<1> HIDE DEF S, N
<1>3. 0 \in G
  BY <1>1, <1>2
<1>4. ASSUME NEW n \in 0 .. N - 1, n \in G PROVE n + 1 \in G
  <2>1. n \in 0 .. N /\ n + 1 \in 1 .. N /\ n + 1 \in 0 .. N /\ (n + 1) - 1 = n
    BY <1>1
  <2>2. S(n + 1) = S(n) + sizes[n + 1] /\ S(n) \in Nat /\ sizes[n + 1] \in Nat
    BY <1>1, <1>2, <2>1
  <2>3. ASSUME NEW q \in 1 .. S(n + 1)
        PROVE  \E m \in 1 .. N : \E j \in 1 .. sizes[m] : q = S(m - 1) + j
    <3>1. CASE q <= S(n)
      <4>1. q \in 1 .. S(n)
        BY <2>2, <3>1
      <4> QED
        BY <1>4, <4>1
    <3>2. CASE q > S(n)
      <4> DEFINE j == q - S(n)
      <4>1. j \in 1 .. sizes[n + 1] /\ q = S((n + 1) - 1) + j
        BY <2>1, <2>2, <3>2
      <4> QED
        BY <2>1, <4>1
    <3> QED
      BY <2>2, <3>1, <3>2
  <2>4. Found(n + 1)
    BY <2>3
  <2> QED
    BY <2>1, <2>4
<1> HIDE DEF G, Found
<1>5. \A n \in 0 .. N : n \in G
  BY <1>1, <1>3, <1>4, UpTo
<1>6. Found(N)
  BY <1>1, <1>5 DEF G
<1> QED
  BY <1>6 DEF Found, N, S

\* A list of lists as one: as long as all of them, each where the ones before it end.
LEMMA Flattened ==
  ASSUME NEW X, NEW seqs \in Seq(Seq(X)), Len(seqs) # 0,
         NEW sizes \in Seq(Nat), Len(sizes) = Len(seqs),
         \A n \in 1 .. Len(seqs) : sizes[n] = Len(seqs[n])
  PROVE  /\ FlattenSeq(seqs) \in Seq(X)
         /\ Len(FlattenSeq(seqs)) = SumOf(sizes, Len(sizes))
         /\ \A m \in 1 .. Len(sizes) : \A j \in 1 .. sizes[m] :
              FlattenSeq(seqs)[SumOf(sizes, m - 1) + j] = seqs[m][j]
<1> DEFINE N == Len(seqs)
           M == N - 1
           T == Seq(X)
           S(n) == SumOf(sizes, n)
           F == [n \in 1 .. M |-> [t \in T |-> t \o seqs[n + 1]]]
           Runs(g) == g = [i \in 1 .. N |-> IF i = 1 THEN seqs[1] ELSE g[i - 1] \o seqs[i]]
           flatten == CHOOSE g : Runs(g)
<1>1. N \in Nat \ {0} /\ M \in Nat /\ (\A n \in 1 .. N : seqs[n] \in T) /\ 1 \in 1 .. N
  OBVIOUS
<1>2. FlattenSeq(seqs) = flatten[N]
  BY DEF FlattenSeq
<1>3. F \in [1 .. M -> [T -> T]]
  <2>1. ASSUME NEW n \in 1 .. M, NEW t \in T PROVE t \o seqs[n + 1] \in T
    <3>1. n + 1 \in 1 .. N
      BY <1>1
    <3>2. seqs[n + 1] \in Seq(X)
      BY <1>1, <3>1
    <3> QED
      BY <3>2
  <2> QED
    BY <2>1
<1>4. \A n \in 1 .. M : \A t \in T : F[n][t] = t \o seqs[n + 1]
  OBVIOUS
<1>5. PICK h \in [0 .. M -> T] : h[0] = seqs[1] /\ \A n \in 1 .. M : h[n] = F[n][h[n - 1]]
  <2>1. Steps(F, M, T) /\ seqs[1] \in T
    BY <1>1, <1>3 DEF Steps
  <2> HIDE DEF F, M, T
  <2>2. \E h : Course(h, seqs[1], F, M, T)
    BY <1>1, <2>1, Recursion
  <2> QED
    BY <2>2 DEF Course
<1> HIDE DEF F
<1> DEFINE g == [i \in 1 .. N |-> h[i - 1]]
<1>6. ASSUME NEW i \in 1 .. N
      PROVE  g[i] \in T /\ g[i] = IF i = 1 THEN seqs[1] ELSE g[i - 1] \o seqs[i]
  <2>1. i - 1 \in 0 .. M /\ g[i] = h[i - 1]
    BY <1>1
  <2>2. g[i] \in T
    BY <2>1
  <2>3. CASE i = 1
    BY <1>5, <2>1, <2>3
  <2>4. CASE i # 1
    <3>1. i - 1 \in 1 .. M /\ i - 1 \in 1 .. N /\ (i - 1) + 1 = i /\ (i - 1) - 1 \in 0 .. M
      BY <1>1, <2>4
    <3>2. h[i - 1] = F[i - 1][h[(i - 1) - 1]]
      BY <1>5, <3>1
    <3>3. h[(i - 1) - 1] \in T
      BY <3>1
    <3>4. F[i - 1][h[(i - 1) - 1]] = h[(i - 1) - 1] \o seqs[(i - 1) + 1]
      BY <1>4, <3>1, <3>3
    <3>5. g[i - 1] = h[(i - 1) - 1]
      BY <3>1
    <3> QED
      BY <2>1, <2>2, <2>4, <3>1, <3>2, <3>4, <3>5
  <2> QED
    BY <2>2, <2>3, <2>4
<1> HIDE DEF T
<1>7. g = [i \in 1 .. N |-> IF i = 1 THEN seqs[1] ELSE g[i - 1] \o seqs[i]]
  <2>1. g = [i \in 1 .. N |-> g[i]]
    OBVIOUS
  <2> HIDE DEF g
  <2> QED
    BY <1>6, <2>1
<1>8. Runs(flatten)
  <2>1. Runs(g)
    <3> HIDE DEF g
    <3> QED
      BY <1>7
  <2> HIDE DEF g, Runs
  <2> QED
    BY <2>1
<1> HIDE DEF flatten, g
<1>9. ASSUME NEW i \in 1 .. N
      PROVE  flatten[i] = IF i = 1 THEN seqs[1] ELSE flatten[i - 1] \o seqs[i]
  BY <1>8
<1>10. /\ S(0) = 0 /\ \A n \in 0 .. N : S(n) \in Nat
       /\ \A n \in 1 .. N : S(n) = S(n - 1) + sizes[n] /\ sizes[n] \in Nat
  BY Sums
<1>11. \A n \in 1 .. N : seqs[n] \in Seq(X) /\ Len(seqs[n]) = sizes[n]
  BY <1>1 DEF T
<1> HIDE DEF S, N, Runs
<1> DEFINE Laid(n) ==
             /\ flatten[n] \in Seq(X) /\ Len(flatten[n]) = S(n)
             /\ \A m \in 1 .. n : \A j \in 1 .. sizes[m] : flatten[n][S(m - 1) + j] = seqs[m][j]
           G == {n \in 0 .. M : Laid(n + 1)}
<1>12. 0 \in G
  <2>1. flatten[1] = seqs[1] /\ S(1) = sizes[1] /\ sizes[1] \in Nat /\ 0 \in 0 .. M
    <3>1. 1 \in 1 .. N /\ 1 - 1 = 0
      BY <1>1
    <3>2. S(1) = S(0) + sizes[1] /\ sizes[1] \in Nat
      BY <1>10, <3>1
    <3> QED
      BY <1>1, <1>9, <1>10, <3>1, <3>2
  <2>2. \A m \in 1 .. 1 : m = 1 /\ m - 1 = 0
    OBVIOUS
  <2>3. \A j \in 1 .. sizes[1] : S(0) + j = j
    BY <1>10, <2>1
  <2>4. flatten[1] \in Seq(X) /\ Len(flatten[1]) = S(1)
    BY <1>1, <1>11, <2>1
  <2>5. \A m \in 1 .. 1 : \A j \in 1 .. sizes[m] : flatten[1][S(m - 1) + j] = seqs[m][j]
    BY <2>1, <2>2, <2>3
  <2>6. Laid(1) /\ 0 + 1 = 1
    BY <2>4, <2>5
  <2> HIDE DEF Laid
  <2> QED
    BY <2>1, <2>6
<1>13. ASSUME NEW n \in 0 .. M - 1, n \in G PROVE n + 1 \in G
  <2> DEFINE i == n + 1
             k == i + 1
  <2>1. i \in 1 .. N /\ k \in 1 .. N /\ k # 1 /\ k - 1 = i /\ i \in 0 .. M /\ i \in 0 .. N /\ k \in 0 .. N
    BY <1>1
  <2>2. Laid(i)
    BY <1>13
  <2> HIDE DEF i
  <2>3. flatten[k] = flatten[i] \o seqs[k] /\ S(k) = S(i) + sizes[k]
        /\ seqs[k] \in Seq(X) /\ Len(seqs[k]) = sizes[k] /\ S(i) \in Nat /\ sizes[k] \in Nat
    BY <1>9, <1>10, <1>11, <2>1
  <2> DEFINE old == flatten[i]
             part == seqs[k]
             new == flatten[k]
  <2>4. old \in Seq(X) /\ Len(old) = S(i)
    BY <2>2
  <2>5. new = old \o part
    BY <2>3
  <2> HIDE DEF old, part, new
  <2>6. new \in Seq(X) /\ Len(new) = S(i) + sizes[k]
        /\ (\A p \in 1 .. S(i) : new[p] = old[p])
        /\ \A j \in 1 .. sizes[k] : new[S(i) + j] = part[j]
    <3>1. part \in Seq(X) /\ Len(part) = sizes[k]
      BY <2>3 DEF part
    <3> DEFINE n1 == S(i)
               m1 == sizes[k]
    <3>2. TwoLists(X, old, part, n1, m1)
      BY <2>4, <3>1 DEF TwoLists
    <3> HIDE DEF n1, m1
    <3>3. IsJoined(X, old, part, n1, m1, new)
      BY <2>5, <3>2, Joined
    <3> QED
      BY <3>3 DEF IsJoined, n1, m1
  <2>7. ASSUME NEW m \in 1 .. k, NEW j \in 1 .. sizes[m] PROVE new[S(m - 1) + j] = seqs[m][j]
    <3>1. CASE m = k
      <4>1. m - 1 = i /\ j \in 1 .. sizes[k] /\ part = seqs[m]
        BY <2>1, <2>7, <3>1 DEF part
      <4>2. new[S(i) + j] = part[j]
        BY <2>6, <4>1
      <4>3. S(m - 1) = S(i)
        BY <4>1
      <4>4. S(m - 1) + j = S(i) + j
        BY <4>3
      <4> QED
        BY <4>1, <4>2, <4>4
    <3>2. CASE m # k
      <4>1. m \in 1 .. i /\ m \in 0 .. N /\ m \in 1 .. N /\ m - 1 \in 0 .. N /\ i \in m .. N
        BY <1>1, <2>1, <3>2
      <4>2. old[S(m - 1) + j] = seqs[m][j]
        BY <2>2, <2>7, <4>1 DEF old
      <4>3. S(m) <= S(i) /\ S(m) = S(m - 1) + sizes[m] /\ S(m - 1) \in Nat /\ sizes[m] \in Nat
            /\ S(m) \in Nat
        <5>1. Len(sizes) = N
          BY DEF N
        <5>2. S(m) <= S(i)
          BY <4>1, <5>1, SumsGrow DEF S
        <5> QED
          BY <1>10, <4>1, <5>2
      <4>4. S(m - 1) + j \in 1 .. S(i)
        <5> DEFINE a == S(m - 1)
                   b == S(m)
                   c == S(i)
                   d == sizes[m]
        <5>1. a \in Nat /\ b \in Nat /\ c \in Nat /\ d \in Nat /\ b <= c /\ b = a + d /\ j \in 1 .. d
          BY <2>3, <2>7, <4>3
        <5> HIDE DEF a, b, c, d
        <5>2. a + j \in 1 .. c
          BY <5>1
        <5> QED
          BY <5>2 DEF a, c
      <4> QED
        BY <2>6, <4>2, <4>4
    <3> QED
      BY <3>1, <3>2
  <2>8. Laid(k)
    BY <2>3, <2>6, <2>7 DEF new
  <2> HIDE DEF Laid
  <2> QED
    BY <2>1, <2>8 DEF i
<1> HIDE DEF G, Laid
<1>14. \A n \in 0 .. M : n \in G
  BY <1>1, <1>12, <1>13, UpTo
<1>15. Laid(N)
  <2>1. M \in 0 .. M /\ M + 1 = N
    BY <1>1
  <2> HIDE DEF M
  <2> QED
    BY <1>14, <2>1 DEF G
<1>16. Len(sizes) = N
  BY DEF N
<1> QED
  BY <1>2, <1>15, <1>16 DEF Laid, S

-----------------------------------------------------------------------------
(* What an epoch's layout is worth.                                        *)

\* A list of a finite set: every member at one place.
Listed(S, o) ==
  /\ Cardinality(S) \in Nat /\ o \in Seq(S) /\ Len(o) = Cardinality(S)
  /\ \A i \in 1 .. Len(o) : o[i] \in S
  /\ \A i, j \in 1 .. Len(o) : o[i] = o[j] => i = j
  /\ \A x \in S : \E i \in 1 .. Len(o) : o[i] = x

\* The numbers of a set in ascending order, each at one place.
LEMMA AscendingListed ==
  ASSUME NEW S \in SUBSET Int, IsFiniteSet(S)
  PROVE  Listed(S, Ascending(S))
<1> DEFINE o == Ascending(S)
           C == Cardinality(S)
<1>1. /\ C \in Nat /\ Len(o) = C /\ o \in Seq(S)
      /\ \A i \in 1 .. C : o[i] \in S /\ Cardinality(Below(S, o[i])) = i - 1
      /\ \A x \in S : Cardinality(Below(S, x)) + 1 \in 1 .. C
                      /\ o[Cardinality(Below(S, x)) + 1] = x
  BY AscendingList
<1> HIDE DEF o, C
<1>2. ASSUME NEW i \in 1 .. C, NEW j \in 1 .. C, o[i] = o[j] PROVE i = j
  <2>1. i - 1 = j - 1
    BY <1>1, <1>2
  <2> QED
    BY <1>1, <2>1
<1>3. ASSUME NEW x \in S PROVE \E i \in 1 .. C : o[i] = x
  BY <1>1
<1>4. C = Cardinality(S)
  BY DEF C
<1>5. Listed(S, o)
  BY <1>1, <1>2, <1>3, <1>4 DEF Listed
<1> QED
  BY <1>5 DEF o

\* An arrangement of a set, each member at one place.
LEMMA ArrangementListed ==
  ASSUME NEW S, IsFiniteSet(S), NEW o \in SetToSeqs(S)
  PROVE  Listed(S, o)
<1> DEFINE C == Cardinality(S)
<1>1. /\ C \in Nat /\ o \in [1 .. C -> S] /\ o \in Seq(S) /\ Len(o) = C
      /\ \A i, j \in 1 .. C : o[i] = o[j] => i = j
      /\ \A x \in S : \E i \in 1 .. C : o[i] = x
  BY Arrangement
<1> HIDE DEF C
<1>2. C = Cardinality(S)
  BY DEF C
<1> QED
  BY <1>1, <1>2 DEF Listed

\* The groups are finitely many numbers.
LEMMA GroupsFinite ==
  ASSUME NEW s \in Setups
  PROVE  Groups(s) \in SUBSET Int /\ IsFiniteSet(Groups(s))
<1> DEFINE D == DOMAIN s.samples
           f == [i \in D |-> Group(s, i)]
<1>1. /\ s.samples \in Seq([length : Nat, start : Nat, group : Int])
      /\ IsFiniteSet(D)
  BY SetupFacts
<1>2. ASSUME NEW i \in D PROVE Group(s, i) \in Int
  <2> DEFINE R == [length : Nat, start : Nat, group : Int]
  <2>1. s.samples[i] \in R
    <3> HIDE DEF R
    <3>1. s.samples \in Seq(R)
      BY <1>1 DEF R
    <3> QED
      BY <3>1
  <2> QED
    BY <2>1 DEF Group
<1>3. f \in Surjection(D, Groups(s))
  BY DEF Surjection, Groups
<1>4. IsFiniteSet(Groups(s))
  <2> HIDE DEF f, D
  <2> QED
    BY <1>1, <1>3, FS_Surjection
<1> QED
  BY <1>2, <1>4 DEF Groups

\* What an epoch's layout is worth: full batches of one shape that share no
\* sample; with trajectory steps a size per group, all of them together the
\* whole layout, and every eligible sample in it.
Width(s) == s.batchSize * s.replicas
Whole(s, L) ==
  /\ L.sizes \in Seq(Nat) /\ Len(L.sizes) = Cardinality(Groups(s))
  /\ Len(L.batches) = SumOf(L.sizes, Len(L.sizes))
  /\ \A i \in Eligible(s) : \E a \in DOMAIN L.batches : L.batches[a][1] = i
SoundLayout(s, L) ==
  /\ SoundBatches(s, Width(s), Eligible(s), L.batches)
  /\ s.unit = "trajectory" => Whole(s, L)

\* What filling the buckets makes is sound, whatever the order of the samples.
LEMMA FilledSound ==
  ASSUME NEW s \in Setups, NEW size \in Nat \ {0}, NEW order \in SetToSeqs(Eligible(s))
  PROVE  SoundBatches(s, size, Eligible(s), Fill(s, size, order))
<1>1. PICK f : /\ Fills(s, size, order, f)
               /\ Fill(s, size, order) = f[Len(order)].batches
  BY FillRuns
<1>2. Len(order) \in Nat /\ \A p \in 1 .. Len(order) : order[p] \in Eligible(s)
  BY SetupFacts, ArrangementListed DEF Listed
<1>3. Sound(s, size, Seen(order, Len(order)), f[Len(order)])
  <2>1. Len(order) \in 0 .. Len(order)
    BY <1>2
  <2> QED
    BY <1>1, <2>1, FillSound
<1>4. Seen(order, Len(order)) \subseteq Eligible(s)
  BY <1>2 DEF Seen
<1>5. SoundBatches(s, size, Seen(order, Len(order)), f[Len(order)].batches)
  BY <1>3 DEF Sound
<1>6. size \in Nat
  OBVIOUS
<1> QED
  BY <1>1, <1>4, <1>5, <1>6, SeenMore

\* One step per group, every turn of the groups' lists in a batch of its own.
LEMMA TurnsSound ==
  ASSUME NEW s \in Setups, Eligible(s) # {}, Width(s) = 1, NEW order, Listed(Groups(s), order),
         NEW L,
         L.batches = FlattenSeq([n \in DOMAIN order |->
                       [t \in DOMAIN Turns(s, order[n]) |-> <<Turns(s, order[n])[t]>>]]),
         L.sizes = [n \in DOMAIN order |-> Len(Turns(s, order[n]))]
  PROVE  SoundBatches(s, 1, Eligible(s), L.batches) /\ Whole(s, L)
<1> DEFINE E == Eligible(s)
           N == Len(order)
           T(n) == Turns(s, order[n])
           X == Seq(E)
           seqs == [n \in 1 .. N |-> [t \in DOMAIN T(n) |-> <<T(n)[t]>>]]
           sizes == [n \in 1 .. N |-> Len(T(n))]
           S(n) == SumOf(sizes, n)
           B == FlattenSeq(seqs)
<1>1. /\ N \in Nat /\ N = Cardinality(Groups(s)) /\ DOMAIN order = 1 .. N
      /\ \A n \in 1 .. N : order[n] \in Groups(s)
      /\ \A n, m \in 1 .. N : order[n] = order[m] => n = m
      /\ \A g \in Groups(s) : \E n \in 1 .. N : order[n] = g
  BY DEF Listed
<1>2. E \in SUBSET Int /\ IsFiniteSet(E) /\ E \in SUBSET DOMAIN s.samples
  BY SetupFacts
<1>3. ASSUME NEW n \in 1 .. N
      PROVE  /\ T(n) \in Seq(E) /\ Len(T(n)) \in Nat /\ DOMAIN T(n) = 1 .. Len(T(n))
             /\ \A j \in 1 .. Len(T(n)) : T(n)[j] \in E /\ Group(s, T(n)[j]) = order[n]
             /\ \A j, l \in 1 .. Len(T(n)) : T(n)[j] = T(n)[l] => j = l
             /\ \A i \in E : Group(s, i) = order[n] => \E j \in 1 .. Len(T(n)) : T(n)[j] = i
  <2> DEFINE U == {i \in E : Group(s, i) = order[n]}
  <2>1. U \in SUBSET Int /\ IsFiniteSet(U)
    BY <1>2, FS_Subset
  <2>2. T(n) = Ascending(U)
    BY DEF Turns
  <2>3. \A i : i \in U <=> i \in E /\ Group(s, i) = order[n]
    OBVIOUS
  <2> HIDE DEF U, T
  <2>4. Listed(U, T(n))
    BY <2>1, <2>2, AscendingListed
  <2>5. T(n) \in Seq(U)
    BY <2>4 DEF Listed
  <2>6. T(n) \in Seq(E)
    BY <2>3, <2>5
  <2> QED
    BY <2>3, <2>4, <2>6 DEF Listed
<1> HIDE DEF T, E
<1>4. seqs \in Seq(Seq(X)) /\ Len(seqs) = N
  <2>1. ASSUME NEW n \in 1 .. N
        PROVE  [t \in DOMAIN T(n) |-> <<T(n)[t]>>] \in Seq(X)
    <3>1. DOMAIN T(n) = 1 .. Len(T(n)) /\ Len(T(n)) \in Nat
      BY <1>3
    <3>2. \A t \in 1 .. Len(T(n)) : T(n)[t] \in E
      BY <1>3
    <3>3. \A t \in 1 .. Len(T(n)) : <<T(n)[t]>> \in X
      BY <3>2
    <3> HIDE DEF X
    <3> QED
      BY <3>1, <3>3
  <2> HIDE DEF X
  <2> QED
    BY <1>1, <2>1
<1>5. sizes \in Seq(Nat) /\ Len(sizes) = N /\ \A n \in 1 .. N : sizes[n] = Len(T(n))
  BY <1>1, <1>3
<1>6. \A n \in 1 .. N : Len(seqs[n]) = Len(T(n)) /\ \A j \in 1 .. Len(T(n)) : seqs[n][j] = <<T(n)[j]>>
  BY <1>3
<1>7. N # 0
  <2>1. PICK i \in E : TRUE
    BY DEF E
  <2>2. Group(s, i) \in Groups(s)
    BY <1>2, <2>1 DEF Groups
  <2> QED
    BY <1>1, <2>2
<1>8. L.batches = B /\ L.sizes = sizes
  BY <1>1 DEF T
<1> HIDE DEF seqs, sizes, X, N
<1>9. /\ B \in Seq(X) /\ Len(B) = S(Len(sizes))
      /\ \A m \in 1 .. Len(sizes) : \A j \in 1 .. sizes[m] : B[S(m - 1) + j] = seqs[m][j]
  <2>1. seqs \in Seq(Seq(X)) /\ Len(seqs) # 0 /\ sizes \in Seq(Nat) /\ Len(sizes) = Len(seqs)
    BY <1>4, <1>5, <1>7
  <2>2. \A n \in 1 .. Len(seqs) : sizes[n] = Len(seqs[n])
    BY <1>4, <1>5, <1>6
  <2> HIDE DEF S, B
  <2>3. seqs \in Seq(Seq(X)) /\ sizes \in Seq(Nat)
    BY <2>1
  <2>4. /\ FlattenSeq(seqs) \in Seq(X)
        /\ Len(FlattenSeq(seqs)) = SumOf(sizes, Len(sizes))
        /\ \A m \in 1 .. Len(sizes) : \A j \in 1 .. sizes[m] :
             FlattenSeq(seqs)[SumOf(sizes, m - 1) + j] = seqs[m][j]
    BY <2>1, <2>2, <2>3, Flattened
  <2> QED
    BY <2>4 DEF S, B
<1> HIDE DEF B
<1>10. S(N) = Len(B) /\ \A m \in 0 .. N : S(m) \in Nat
  BY <1>5, <1>9, Sums
<1> HIDE DEF S
<1>11. ASSUME NEW p \in 1 .. Len(B)
       PROVE  \E m \in 1 .. N : \E j \in 1 .. Len(T(m)) :
                p = S(m - 1) + j /\ B[p] = <<T(m)[j]>>
  <2>1. p \in 1 .. SumOf(sizes, Len(sizes))
    BY <1>9 DEF S
  <2>2a. PICK m \in 1 .. N : \E j \in 1 .. sizes[m] : p = S(m - 1) + j
    BY <1>5, <2>1, PartOf DEF S
  <2>2. PICK j \in 1 .. sizes[m] : p = S(m - 1) + j
    BY <2>2a
  <2>3. sizes[m] = Len(T(m)) /\ B[S(m - 1) + j] = seqs[m][j]
    BY <1>5, <1>9
  <2>4. seqs[m][j] = <<T(m)[j]>>
    BY <1>6, <2>3
  <2> QED
    BY <2>2, <2>3, <2>4
<1>12. ASSUME NEW p \in 1 .. Len(B) PROVE Len(B[p]) = 1 /\ B[p][1] \in E
  <2>1a. PICK m \in 1 .. N : \E j \in 1 .. Len(T(m)) : p = S(m - 1) + j /\ B[p] = <<T(m)[j]>>
    BY <1>11
  <2>1. PICK j \in 1 .. Len(T(m)) : B[p] = <<T(m)[j]>>
    BY <2>1a
  <2>2. T(m)[j] \in E
    BY <1>3
  <2> QED
    BY <2>1, <2>2
<1>13. ASSUME NEW p \in 1 .. Len(B), NEW q \in 1 .. Len(B), B[p][1] = B[q][1] PROVE p = q
  <2>1a. PICK m \in 1 .. N : \E j \in 1 .. Len(T(m)) : p = S(m - 1) + j /\ B[p] = <<T(m)[j]>>
    BY <1>11
  <2>1. PICK j \in 1 .. Len(T(m)) : p = S(m - 1) + j /\ B[p] = <<T(m)[j]>>
    BY <2>1a
  <2>2a. PICK n \in 1 .. N : \E l \in 1 .. Len(T(n)) : q = S(n - 1) + l /\ B[q] = <<T(n)[l]>>
    BY <1>11
  <2>2. PICK l \in 1 .. Len(T(n)) : q = S(n - 1) + l /\ B[q] = <<T(n)[l]>>
    BY <2>2a
  <2>3. T(m)[j] = T(n)[l]
    BY <1>13, <2>1, <2>2
  <2>4. order[m] = order[n]
    BY <1>3, <2>3
  <2>5. m = n
    BY <1>1, <2>4
  <2>6. T(m)[j] = T(m)[l] /\ l \in 1 .. Len(T(m))
    BY <2>3, <2>5
  <2>7. j = l
    BY <1>3, <2>6
  <2> QED
    BY <2>1, <2>2, <2>5, <2>7
<1>14. ASSUME NEW i \in E PROVE \E a \in 1 .. Len(B) : B[a][1] = i
  <2>1. Group(s, i) \in Groups(s)
    BY <1>2, <1>14 DEF Groups, E
  <2>2. PICK m \in 1 .. N : order[m] = Group(s, i)
    BY <1>1, <2>1
  <2>3. PICK j \in 1 .. Len(T(m)) : T(m)[j] = i
    BY <1>3, <2>2
  <2>4. sizes[m] = Len(T(m)) /\ B[S(m - 1) + j] = seqs[m][j] /\ seqs[m][j] = <<T(m)[j]>>
    BY <1>5, <1>6, <1>9
  <2>5. S(m - 1) \in Nat /\ S(m) \in Nat /\ S(m) = S(m - 1) + sizes[m] /\ S(m) <= S(N)
    <3>1. m - 1 \in 0 .. N /\ m \in 0 .. N /\ N \in m .. N
      BY <1>1
    <3>2. S(m) = S(m - 1) + sizes[m]
      BY <1>5, Sums DEF S
    <3>3. S(m) <= S(N)
      BY <1>5, <3>1, SumsGrow DEF S
    <3> QED
      BY <1>10, <3>1, <3>2, <3>3
  <2>6. S(m - 1) + j \in 1 .. Len(B)
    <3> DEFINE a == S(m - 1)
               b == S(m)
               c == S(N)
               d == sizes[m]
    <3>1. a \in Nat /\ b \in Nat /\ d \in Nat /\ b = a + d /\ b <= c /\ j \in 1 .. d /\ c = Len(B)
          /\ c \in Nat
      <4>1. N \in 0 .. N
        BY <1>1
      <4> QED
        BY <1>3, <1>10, <2>4, <2>5, <4>1
    <3> HIDE DEF a, b, c, d
    <3>2. a + j \in 1 .. Len(B)
      BY <3>1
    <3> QED
      BY <3>2 DEF a
  <2>7. B[S(m - 1) + j][1] = i
    BY <2>3, <2>4
  <2> QED
    BY <2>6, <2>7
<1>15. B \in Seq(Seq(E)) /\ DOMAIN B = 1 .. Len(B)
  BY <1>9 DEF X
<1>16. SoundBatches(s, 1, E, B)
  <2>1. \A j \in 1 .. 1 : j = 1
    OBVIOUS
  <2>2. \A a \in DOMAIN B : \A j \in 1 .. 1 : B[a][j] \in E
    BY <1>12, <1>15, <2>1
  <2>3. \A a \in DOMAIN B : \A j, l \in 1 .. 1 : Key(s, B[a][j]) = Key(s, B[a][l])
    BY <2>1
  <2>4. \A a, b \in DOMAIN B : \A j, l \in 1 .. 1 : B[a][j] = B[b][l] => a = b /\ j = l
    BY <1>13, <1>15, <2>1
  <2> QED
    BY <1>12, <1>15, <2>2, <2>3, <2>4 DEF SoundBatches, E
<1>17. Whole(s, L)
  <2>1. sizes \in Seq(Nat) /\ Len(sizes) = Cardinality(Groups(s)) /\ Len(B) = SumOf(sizes, Len(sizes))
    BY <1>1, <1>5, <1>9 DEF S
  <2>2. \A i \in Eligible(s) : \E a \in DOMAIN B : B[a][1] = i
    BY <1>14, <1>15 DEF E
  <2> QED
    BY <1>8, <2>1, <2>2 DEF Whole
<1> QED
  BY <1>8, <1>16, <1>17 DEF E

\* Every layout of a dataset the constructor accepts is sound.
LEMMA LayoutSound ==
  ASSUME NEW s \in Setups, Accepts(s), NEW L \in EpochLayouts(s)
  PROVE  SoundLayout(s, L) /\ L.batches # <<>>
<1>1. Width(s) \in Nat \ {0} /\ IsFiniteSet(Eligible(s)) /\ Eligible(s) # {} /\ L.batches # <<>>
  BY SetupFacts DEF Accepts, Width
<1>2. CASE s.unit # "trajectory"
  <2>1. PICK order \in Orders(s) :
          L = [batches |-> Fill(s, s.batchSize * s.replicas, order), sizes |-> <<>>]
    BY <1>2 DEF EpochLayouts, BatchLayouts
  <2>2. order \in SetToSeqs(Eligible(s))
    BY DEF Orders
  <2>3. L.batches = Fill(s, Width(s), order)
    BY <2>1 DEF Width
  <2> QED
    BY <1>1, <1>2, <2>2, <2>3, FilledSound DEF SoundLayout
<1>3. CASE s.unit = "trajectory"
  <2>1. Width(s) = 1
    <3>1. s.batchSize = 1 /\ s.replicas = 1
      BY <1>3 DEF Accepts
    <3> QED
      BY <3>1 DEF Width
  <2>2. PICK order \in IF s.shuffle THEN SetToSeqs(Groups(s)) ELSE {Ascending(Groups(s))} :
          L = [batches |-> FlattenSeq([n \in DOMAIN order |->
                             [t \in DOMAIN Turns(s, order[n]) |-> <<Turns(s, order[n])[t]>>]]),
               sizes |-> [n \in DOMAIN order |-> Len(Turns(s, order[n]))]]
    BY <1>3 DEF EpochLayouts, TrajectoryLayouts
  <2>3. Listed(Groups(s), order)
    BY <2>2, GroupsFinite, AscendingListed, ArrangementListed
  <2>4. /\ L.batches = FlattenSeq([n \in DOMAIN order |->
                          [t \in DOMAIN Turns(s, order[n]) |-> <<Turns(s, order[n])[t]>>]])
        /\ L.sizes = [n \in DOMAIN order |-> Len(Turns(s, order[n]))]
    BY <2>2
  <2>5. SoundBatches(s, 1, Eligible(s), L.batches) /\ Whole(s, L)
    BY <1>1, <2>1, <2>3, <2>4, TurnsSound
  <2> QED
    BY <1>1, <2>1, <2>5 DEF SoundLayout
<1> QED
  BY <1>2, <1>3

\* The layouts of all epochs are equally long.
LEMMA SameLength ==
  ASSUME NEW s \in Setups, s.unit # "trajectory",
         NEW L \in EpochLayouts(s), NEW K \in EpochLayouts(s)
  PROVE  Len(L.batches) = Len(K.batches)
<1>1. Width(s) \in Nat \ {0}
  BY SetupFacts DEF Width
<1>2. ASSUME NEW M \in EpochLayouts(s)
      PROVE  \E o \in SetToSeqs(Eligible(s)) : M.batches = Fill(s, Width(s), o)
  BY DEF EpochLayouts, BatchLayouts, Orders, Width
<1>3. PICK o \in SetToSeqs(Eligible(s)) : L.batches = Fill(s, Width(s), o)
  BY <1>2
<1>4. PICK u \in SetToSeqs(Eligible(s)) : K.batches = Fill(s, Width(s), u)
  BY <1>2
<1>5. Len(Fill(s, Width(s), o)) = Len(Fill(s, Width(s), u))
  BY <1>1, SameBatchCount
<1> QED
  BY <1>3, <1>4, <1>5

\* There is a group.
LEMMA SomeGroup ==
  ASSUME NEW s \in Setups, Accepts(s)
  PROVE  Cardinality(Groups(s)) \in Nat \ {0}
<1>1. PICK i \in Eligible(s) : TRUE
  BY DEF Accepts
<1>2. Group(s, i) \in Groups(s)
  BY <1>1, SetupFacts DEF Groups
<1> QED
  BY <1>2, GroupsFinite, FS_EmptySet, FS_CardinalityType

-----------------------------------------------------------------------------
(* Steps of an epoch.                                                      *)

\* The layouts of the first epochs; the steps an epoch holds; where step n of
\* an epoch begins and how many batches it takes, counted from 0.
Made(s, ls) ==
  s \in Setups /\ Accepts(s) /\ ls \in Seq(EpochLayouts(s)) /\ Len(ls) # 0
Fit(s, ls) ==
  IF s.unit = "trajectory" THEN Cardinality(Groups(s)) ELSE Len(ls[1].batches) \div s.accum
FirstOf(s, L, n) == IF s.unit = "trajectory" THEN SumOf(L.sizes, n) ELSE n * s.accum
CountOf(s, L, n) == IF s.unit = "trajectory" THEN L.sizes[n + 1] ELSE s.accum

\* What a step of a rank uses, and what k steps leave in the cursors.
Row(s, r, batch) == SubSeq(batch, r * s.batchSize + 1, (r + 1) * s.batchSize)
StepTaken(s, ls, r, e, n) ==
  [epoch |-> e,
   batches |-> [m \in 1 .. CountOf(s, ls[e + 1], n) |->
                  Row(s, r, ls[e + 1].batches[FirstOf(s, ls[e + 1], n) + m])]]
Taken(s, ls, r, k, x) ==
  \E e \in 0 .. Len(ls) - 1 : \E n \in 0 .. Fit(s, ls) - 1 :
    k = Fit(s, ls) * e + n + 1 /\ x = StepTaken(s, ls, r, e, n)
Reached(s, ls, e, b, c, k, n) ==
  /\ n \in 0 .. Fit(s, ls) /\ (n = 0 => e = 0)
  /\ k = Fit(s, ls) * e + n
  /\ b = FirstOf(s, ls[e + 1], n)
  /\ c = IF s.unit = "trajectory" THEN n ELSE 0
At(s, ls, e, b, c, k) ==
  e \in 0 .. Len(ls) - 1 /\ \E n \in 0 .. Fit(s, ls) : Reached(s, ls, e, b, c, k, n)

\* Full steps of a number of batches.
LEMMA WholeSteps ==
  ASSUME NEW B \in Nat, NEW a \in Nat \ {0}
  PROVE  /\ B \div a \in Nat
         /\ \A n \in Nat : n <= B \div a <=> n * a <= B
<1> DEFINE q == B \div a
           m == B % a
<1>1. B = a * q + m /\ m \in 0 .. a - 1 /\ q \in Int
  BY Division
<1> HIDE DEF q, m
<1>2. q \in Nat
  <2>1. SUFFICES ASSUME q < 0 PROVE FALSE
    BY <1>1
  <2>2. q <= -1
    BY <1>1, <2>1
  <2>3. a * q <= a * (-1)
    BY <1>1, <2>2
  <2> QED
    BY <1>1, <2>3
<1>3. ASSUME NEW n \in Nat, n <= q PROVE n * a <= B
  <2>1. n * a <= q * a
    BY <1>2, <1>3
  <2> QED
    BY <1>1, <1>2, <2>1
<1>4. ASSUME NEW n \in Nat, n > q PROVE n * a > B
  <2>1. n >= q + 1
    BY <1>2, <1>4
  <2>2. n * a >= (q + 1) * a
    BY <1>2, <2>1
  <2>3. (q + 1) * a = a * q + a
    BY <1>2
  <2> QED
    BY <1>1, <1>2, <2>2, <2>3
<1>5. \A n \in Nat : n <= q <=> n * a <= B
  <2> TAKE n \in Nat
  <2>1. CASE n <= q
    BY <1>3, <2>1
  <2>2. CASE ~(n <= q)
    <3>1. n > q
      BY <1>2, <2>2
    <3>2. n * a > B /\ n * a \in Int
      BY <1>4, <3>1
    <3> QED
      BY <2>2, <3>2
  <2> QED
    BY <2>1, <2>2
<1> QED
  BY <1>2, <1>5 DEF q

\* The layouts made are sound, equally long in steps, and their steps follow
\* each other.
LEMMA MadeFacts ==
  ASSUME NEW s, NEW ls, Made(s, ls), NEW e \in 0 .. Len(ls) - 1
  PROVE  /\ s \in Setups /\ Len(ls) \in Nat /\ Fit(s, ls) \in Nat
         /\ SoundLayout(s, ls[e + 1])
         /\ ls[e + 1].batches \in Seq(Seq(Eligible(s))) /\ Len(ls[e + 1].batches) \in Nat
         /\ s.unit = "trajectory" =>
              /\ Fit(s, ls) # 0 /\ Len(ls[e + 1].sizes) = Fit(s, ls)
              /\ Len(ls[e + 1].batches) = FirstOf(s, ls[e + 1], Fit(s, ls))
         /\ s.unit # "trajectory" =>
              \A n \in Nat : n <= Fit(s, ls) <=> n * s.accum <= Len(ls[e + 1].batches)
         /\ FirstOf(s, ls[e + 1], 0) = 0
         /\ \A n \in 0 .. Fit(s, ls) :
              FirstOf(s, ls[e + 1], n) \in Nat /\ FirstOf(s, ls[e + 1], n) <= Len(ls[e + 1].batches)
         /\ \A n \in 0 .. Fit(s, ls) - 1 :
              /\ CountOf(s, ls[e + 1], n) \in Nat
              /\ FirstOf(s, ls[e + 1], n + 1)
                   = FirstOf(s, ls[e + 1], n) + CountOf(s, ls[e + 1], n)
<1> DEFINE L == ls[e + 1]
           S == Fit(s, ls)
           B == Len(L.batches)
<1>1. s \in Setups /\ Accepts(s) /\ ls \in Seq(EpochLayouts(s)) /\ Len(ls) \in Nat \ {0}
  BY DEF Made
<1>2. e + 1 \in 1 .. Len(ls) /\ 1 \in 1 .. Len(ls)
  BY <1>1
<1>3. L \in EpochLayouts(s) /\ ls[1] \in EpochLayouts(s)
  BY <1>1, <1>2
<1>4. SoundLayout(s, L) /\ SoundLayout(s, ls[1])
  BY <1>1, <1>3, LayoutSound
<1>5. /\ L.batches \in Seq(Seq(Eligible(s))) /\ B \in Nat
      /\ Len(ls[1].batches) \in Nat
  BY <1>4 DEF SoundLayout, SoundBatches
<1>6. s.accum \in Nat \ {0}
  BY <1>1, SetupFacts
<1> HIDE DEF L, B
<1>7. CASE s.unit # "trajectory"
  <2>1. B = Len(ls[1].batches)
    BY <1>1, <1>3, <1>7, SameLength DEF B
  <2>2. S = B \div s.accum
    BY <1>7, <2>1 DEF Fit
  <2>3. \A n \in Nat : FirstOf(s, L, n) = n * s.accum /\ CountOf(s, L, n) = s.accum
    BY <1>7 DEF FirstOf, CountOf
  <2> HIDE DEF S
  <2>4. S \in Nat /\ \A n \in Nat : n <= S <=> n * s.accum <= B
    BY <1>5, <1>6, <2>2, WholeSteps
  <2>5. FirstOf(s, L, 0) = 0
    BY <1>6, <2>3
  <2>6. ASSUME NEW n \in 0 .. S PROVE FirstOf(s, L, n) \in Nat /\ FirstOf(s, L, n) <= B
    <3>1. n \in Nat /\ n <= S
      BY <2>4
    <3>2. n * s.accum \in Nat /\ n * s.accum <= B
      BY <1>6, <2>4, <3>1
    <3> QED
      BY <2>3, <3>1, <3>2
  <2>7. ASSUME NEW n \in 0 .. S - 1
        PROVE  CountOf(s, L, n) \in Nat /\ FirstOf(s, L, n + 1) = FirstOf(s, L, n) + CountOf(s, L, n)
    <3>1. n \in Nat /\ n + 1 \in Nat
      BY <2>4
    <3>2. (n + 1) * s.accum = n * s.accum + s.accum
      BY <1>6, <3>1
    <3> QED
      BY <1>6, <2>3, <3>1, <3>2
  <2> QED
    BY <1>1, <1>4, <1>5, <1>7, <2>4, <2>5, <2>6, <2>7 DEF L, B, S
<1>8. CASE s.unit = "trajectory"
  <2>1. S = Cardinality(Groups(s)) /\ S \in Nat \ {0}
    BY <1>1, <1>8, SomeGroup DEF Fit
  <2>2. L.sizes \in Seq(Nat) /\ Len(L.sizes) = S /\ B = SumOf(L.sizes, S)
    BY <1>4, <1>8, <2>1 DEF SoundLayout, Whole, B
  <2>3. \A n : FirstOf(s, L, n) = SumOf(L.sizes, n) /\ CountOf(s, L, n) = L.sizes[n + 1]
    BY <1>8 DEF FirstOf, CountOf
  <2> HIDE DEF S
  <2>4. /\ SumOf(L.sizes, 0) = 0 /\ \A n \in 0 .. S : SumOf(L.sizes, n) \in Nat
        /\ \A n \in 1 .. S : SumOf(L.sizes, n) = SumOf(L.sizes, n - 1) + L.sizes[n]
    BY <2>2, Sums
  <2>5. ASSUME NEW n \in 0 .. S PROVE FirstOf(s, L, n) \in Nat /\ FirstOf(s, L, n) <= B
    <3>1. S \in n .. S
      BY <2>1
    <3>2. SumOf(L.sizes, n) <= SumOf(L.sizes, S)
      BY <2>2, <3>1, SumsGrow
    <3> QED
      BY <2>2, <2>3, <2>4, <3>2
  <2>6. ASSUME NEW n \in 0 .. S - 1
        PROVE  CountOf(s, L, n) \in Nat /\ FirstOf(s, L, n + 1) = FirstOf(s, L, n) + CountOf(s, L, n)
    <3>1. n + 1 \in 1 .. S /\ (n + 1) - 1 = n
      BY <2>1
    <3>2. L.sizes[n + 1] \in Nat
      BY <2>2, <3>1
    <3>3. SumOf(L.sizes, n + 1) = SumOf(L.sizes, n) + L.sizes[n + 1]
      <4>1. SumOf(L.sizes, n + 1) = SumOf(L.sizes, (n + 1) - 1) + L.sizes[n + 1]
        BY <2>4, <3>1
      <4> QED
        BY <3>1, <4>1
    <3> QED
      BY <2>3, <3>2, <3>3
  <2>7. FirstOf(s, L, 0) = 0 /\ FirstOf(s, L, S) = B
    BY <2>2, <2>3, <2>4
  <2> QED
    BY <1>1, <1>4, <1>5, <1>8, <2>1, <2>2, <2>5, <2>6, <2>7 DEF L, B, S
<1> QED
  BY <1>7, <1>8

\* More layouts change nothing about the first ones.
Extends(s, ls, more) ==
  /\ Made(s, ls) /\ Made(s, more) /\ Len(ls) <= Len(more)
  /\ \A i \in 1 .. Len(ls) : more[i] = ls[i]

\* What is known of the first layouts is known when there are more.
LEMMA ExtendedFacts ==
  ASSUME NEW s, NEW ls, NEW more, Extends(s, ls, more)
  PROVE  /\ Fit(s, more) = Fit(s, ls)
         /\ \A e \in 0 .. Len(ls) - 1 : e \in 0 .. Len(more) - 1 /\ more[e + 1] = ls[e + 1]
         /\ \A e, b, c, k : At(s, ls, e, b, c, k) => At(s, more, e, b, c, k)
         /\ \A r, k, x : Taken(s, ls, r, k, x) => Taken(s, more, r, k, x)
<1>1. Len(ls) \in Nat \ {0} /\ Len(more) \in Nat /\ Len(ls) <= Len(more)
  BY DEF Extends, Made
<1>2. ASSUME NEW e \in 0 .. Len(ls) - 1 PROVE e \in 0 .. Len(more) - 1 /\ more[e + 1] = ls[e + 1]
  <2>1. e + 1 \in 1 .. Len(ls)
    BY <1>1
  <2> QED
    BY <1>1, <2>1 DEF Extends
<1>3. Fit(s, more) = Fit(s, ls)
  <2>1. more[1] = ls[1]
    <3>1. 1 \in 1 .. Len(ls)
      BY <1>1
    <3> QED
      BY <3>1 DEF Extends
  <2> QED
    BY <2>1 DEF Fit
<1>4. ASSUME NEW e, NEW b, NEW c, NEW k, At(s, ls, e, b, c, k) PROVE At(s, more, e, b, c, k)
  <2>1. e \in 0 .. Len(ls) - 1
    BY <1>4 DEF At
  <2>2. PICK n \in 0 .. Fit(s, ls) : Reached(s, ls, e, b, c, k, n)
    BY <1>4 DEF At
  <2>3. Reached(s, more, e, b, c, k, n)
    BY <1>2, <1>3, <2>1, <2>2 DEF Reached
  <2> QED
    BY <1>2, <1>3, <2>1, <2>3 DEF At
<1>5. ASSUME NEW r, NEW k, NEW x, Taken(s, ls, r, k, x) PROVE Taken(s, more, r, k, x)
  <2>1. PICK e \in 0 .. Len(ls) - 1 : \E n \in 0 .. Fit(s, ls) - 1 :
          k = Fit(s, ls) * e + n + 1 /\ x = StepTaken(s, ls, r, e, n)
    BY <1>5 DEF Taken
  <2>2. PICK n \in 0 .. Fit(s, ls) - 1 :
          k = Fit(s, ls) * e + n + 1 /\ x = StepTaken(s, ls, r, e, n)
    BY <2>1
  <2>3. StepTaken(s, ls, r, e, n) = StepTaken(s, more, r, e, n)
    BY <1>2, <2>1 DEF StepTaken
  <2> QED
    BY <1>2, <1>3, <2>1, <2>2, <2>3 DEF Taken
<1> QED
  BY <1>2, <1>3, <1>4, <1>5

\* Where step n of epoch e leads, after k steps.
LEMMA Onward ==
  ASSUME NEW s, NEW ls, Made(s, ls), NEW e \in 0 .. Len(ls) - 1, NEW n \in 0 .. Fit(s, ls) - 1,
         NEW k, k = Fit(s, ls) * e + n, NEW r
  PROVE  /\ k \in Nat
         /\ FirstOf(s, ls[e + 1], n) + CountOf(s, ls[e + 1], n) <= Len(ls[e + 1].batches)
         /\ At(s, ls, e, FirstOf(s, ls[e + 1], n) + CountOf(s, ls[e + 1], n),
               IF s.unit = "trajectory" THEN n + 1 ELSE 0, k + 1)
         /\ Taken(s, ls, r, k + 1, StepTaken(s, ls, r, e, n))
<1> DEFINE S == Fit(s, ls)
           L == ls[e + 1]
           a == FirstOf(s, L, n)
           b == CountOf(s, L, n)
<1>1. Len(ls) \in Nat /\ S \in Nat
  BY MadeFacts
<1>2. /\ \A m \in 0 .. S : FirstOf(s, L, m) \in Nat /\ FirstOf(s, L, m) <= Len(L.batches)
      /\ b \in Nat /\ FirstOf(s, L, n + 1) = a + b
  BY MadeFacts
<1> HIDE DEF S, L, a, b
<1>3. e \in Nat /\ n \in Nat /\ n + 1 \in 0 .. S /\ n + 1 # 0
  BY <1>1 DEF S
<1>4. k = S * e + n
  BY DEF S
<1>5. S * e \in Nat
  BY <1>1, <1>3
<1>6. k \in Nat /\ k + 1 = S * e + (n + 1) /\ k + 1 = S * e + n + 1
  BY <1>3, <1>4, <1>5
<1>7. a + b <= Len(L.batches)
  BY <1>2, <1>3
<1>8. Reached(s, ls, e, a + b, IF s.unit = "trajectory" THEN n + 1 ELSE 0, k + 1, n + 1)
  BY <1>2, <1>3, <1>6 DEF Reached, S, L
<1>9. At(s, ls, e, a + b, IF s.unit = "trajectory" THEN n + 1 ELSE 0, k + 1)
  BY <1>3, <1>8 DEF At, S
<1>10. Taken(s, ls, r, k + 1, StepTaken(s, ls, r, e, n))
  BY <1>6 DEF Taken, S
<1> QED
  BY <1>6, <1>7, <1>9, <1>10 DEF a, b, L

\* The number of a step says where it lies.
LEMMA WhereStep ==
  ASSUME NEW S \in Nat, NEW e \in Nat, NEW n \in 0 .. S - 1, NEW k, k = S * e + n + 1
  PROVE  (k - 1) \div S = e /\ (k - 1) % S = n /\ k \in Nat
<1>1. S \in Nat \ {0} /\ S * e \in Nat /\ k - 1 \in Nat /\ k - 1 = S * e + n
  OBVIOUS
<1> DEFINE q == (k - 1) \div S
           m == (k - 1) % S
<1>2. k - 1 = S * q + m /\ m \in 0 .. S - 1 /\ q \in Int
  BY <1>1, Division
<1> HIDE DEF q, m
<1>3. S * (q - e) = S * q - S * e
  BY <1>1, <1>2
<1>4. S * (q - e) = n - m
  BY <1>1, <1>2, <1>3
<1>5. S * (q - e) < S /\ -S < S * (q - e) /\ q - e \in Int
  BY <1>1, <1>2, <1>4
<1>6. q - e = 0
  BY <1>1, <1>5, NoMultipleBetween
<1>7. q = e
  BY <1>2, <1>6
<1>8. m = n
  BY <1>1, <1>2, <1>7
<1> QED
  BY <1>1, <1>7, <1>8 DEF q, m

\* The batches of two steps of one epoch are apart.
LEMMA StepsApart ==
  ASSUME NEW s, NEW ls, Made(s, ls), NEW e \in 0 .. Len(ls) - 1,
         NEW n \in 0 .. Fit(s, ls) - 1, NEW m \in 0 .. Fit(s, ls) - 1,
         NEW i \in 1 .. CountOf(s, ls[e + 1], n), NEW j \in 1 .. CountOf(s, ls[e + 1], m),
         FirstOf(s, ls[e + 1], n) + i = FirstOf(s, ls[e + 1], m) + j
  PROVE  n = m /\ i = j
<1> DEFINE S == Fit(s, ls)
           F(x) == FirstOf(s, ls[e + 1], x)
           C(x) == CountOf(s, ls[e + 1], x)
<1>1. S \in Nat /\ \A x \in 0 .. S : F(x) \in Nat
  BY MadeFacts
<1>2. \A x \in 0 .. S - 1 : C(x) \in Nat /\ F(x + 1) = F(x) + C(x)
  BY MadeFacts
<1>3. F(n) + i = F(m) + j
  OBVIOUS
<1> HIDE DEF F, C, S
<1>4. ASSUME NEW x \in 0 .. S PROVE \A y \in 0 .. S : x <= y => F(x) <= F(y)
  <2> DEFINE G == {d \in 0 .. S - x : F(x) <= F(x + d)}
  <2>1. x \in Nat /\ S - x \in Nat
    BY <1>1
  <2>2. 0 \in G
    <3>1. x + 0 = x
      BY <2>1
    <3> QED
      BY <1>1, <2>1, <3>1
  <2>3. ASSUME NEW d \in 0 .. S - x - 1, d \in G PROVE d + 1 \in G
    <3>1. x + d \in 0 .. S - 1 /\ x + (d + 1) = (x + d) + 1 /\ d + 1 \in 0 .. S - x
          /\ x + d \in 0 .. S /\ (x + d) + 1 \in 0 .. S
      BY <1>1, <2>1
    <3>2. F((x + d) + 1) = F(x + d) + C(x + d) /\ C(x + d) \in Nat
      BY <1>2, <3>1
    <3>3. F(x) <= F(x + d) /\ F(x) \in Nat /\ F(x + d) \in Nat
      BY <1>1, <2>3, <3>1
    <3>4. F(x) <= F((x + d) + 1)
      BY <3>2, <3>3
    <3> QED
      BY <3>1, <3>4
  <2> HIDE DEF G
  <2>4. \A d \in 0 .. S - x : d \in G
    BY <2>1, <2>2, <2>3, UpTo
  <2>5. ASSUME NEW y \in 0 .. S, x <= y PROVE F(x) <= F(y)
    <3>1. y - x \in 0 .. S - x /\ x + (y - x) = y
      BY <1>1, <2>1, <2>5
    <3>2. F(x) <= F(x + (y - x))
      BY <2>4, <3>1 DEF G
    <3> QED
      BY <3>1, <3>2
  <2> QED
    BY <2>5
<1>5. ASSUME NEW x \in 0 .. S - 1, NEW y \in 0 .. S - 1, NEW p \in 1 .. C(x), NEW q \in 1 .. C(y),
             F(x) + p = F(y) + q
      PROVE  ~(x < y)
  <2>1. SUFFICES ASSUME x < y PROVE FALSE
    OBVIOUS
  <2>2. x + 1 \in 0 .. S /\ y \in 0 .. S /\ x \in 0 .. S /\ x + 1 <= y
    BY <1>1, <2>1
  <2>3. F(x + 1) <= F(y)
    BY <1>4, <2>2
  <2>4. F(x + 1) = F(x) + C(x) /\ C(x) \in Nat /\ F(x) \in Nat /\ F(y) \in Nat /\ C(y) \in Nat
    BY <1>1, <1>2, <2>2
  <2> DEFINE a == F(x)
             b == F(y)
             c == C(x)
             d == C(y)
  <2>5. a \in Nat /\ b \in Nat /\ c \in Nat /\ d \in Nat /\ a + c <= b /\ a + p = b + q
        /\ p \in 1 .. c /\ q \in 1 .. d
    BY <1>5, <2>3, <2>4
  <2> HIDE DEF a, b, c, d
  <2> QED
    BY <2>5
<1>6. n \in 0 .. S - 1 /\ m \in 0 .. S - 1 /\ i \in 1 .. C(n) /\ j \in 1 .. C(m)
  BY DEF S, C
<1>7. ~(n < m) /\ ~(m < n)
  BY <1>3, <1>5, <1>6
<1>8. n = m
  BY <1>1, <1>6, <1>7
<1>9. F(n) = F(m) /\ F(n) \in Nat /\ i \in Int /\ j \in Int
  <2>1. n \in 0 .. S /\ C(n) \in Nat /\ C(m) \in Nat
    BY <1>1, <1>2, <1>6
  <2> QED
    BY <1>1, <1>6, <1>8, <2>1
<1>10. i = j
  <2> DEFINE a == F(n)
  <2>1. a + i = a + j /\ a \in Nat /\ i \in Int /\ j \in Int
    BY <1>3, <1>9
  <2> HIDE DEF a
  <2> QED
    BY <2>1
<1> QED
  BY <1>8, <1>10

Uses(s) == [epoch : Nat, batches : Seq(Seq(Eligible(s)))]

\* The rows of a rank.
LEMMA RowFacts ==
  ASSUME NEW s \in Setups, NEW r \in 0 .. s.replicas - 1, NEW X, NEW batch \in Seq(X),
         Len(batch) = Width(s)
  PROVE  /\ Row(s, r, batch) \in Seq(X) /\ Len(Row(s, r, batch)) = s.batchSize
         /\ DOMAIN Row(s, r, batch) = 1 .. s.batchSize
         /\ \A i \in 1 .. s.batchSize :
              r * s.batchSize + i \in 1 .. Width(s) /\ Row(s, r, batch)[i] = batch[r * s.batchSize + i]
<1> DEFINE z == s.batchSize
           a == r * z
           W == Width(s)
<1>1. z \in Nat \ {0} /\ s.replicas \in Nat \ {0} /\ r \in Nat
  BY SetupFacts
<1>2. (r + 1) * z = a + z /\ a \in Nat
  BY <1>1
<1>3. a + z <= W /\ W \in Nat
  <2>1. r + 1 <= s.replicas /\ r + 1 \in Nat
    BY <1>1
  <2>2. (r + 1) * z <= s.replicas * z /\ s.replicas * z = z * s.replicas /\ z * s.replicas \in Nat
    BY <1>1, <2>1
  <2> QED
    BY <1>2, <2>2 DEF Width
<1>4. Row(s, r, batch) = SubSeq(batch, a + 1, a + z)
  BY <1>2 DEF Row
<1>5. Len(batch) = W
  OBVIOUS
<1> HIDE DEF z, a, W
<1>6. /\ SubSeq(batch, a + 1, a + z) \in Seq(X) /\ Len(SubSeq(batch, a + 1, a + z)) = z
      /\ \A i \in 1 .. z : SubSeq(batch, a + 1, a + z)[i] = batch[a + i]
  <2>1. z \in Nat /\ a + 1 \in Int /\ a + z \in Int /\ a + 1 <= a + z
        /\ (a + z) - (a + 1) + 1 = z
    <3>1. z \in Nat \ {0}
      BY <1>1 DEF z
    <3>2. a \in Nat
      BY <1>2
    <3> QED
      BY <3>1, <3>2
  <2>2. \A i \in (a + 1) .. (a + z) : batch[i] \in X
    <3>1. \A i \in (a + 1) .. (a + z) : i \in 1 .. W
      BY <1>2, <1>3, <2>1
    <3> QED
      BY <1>3, <1>5, <3>1
  <2>3. /\ SubSeq(batch, a + 1, a + z) \in Seq(X)
        /\ Len(SubSeq(batch, a + 1, a + z)) = z
        /\ \A i \in 1 .. z : SubSeq(batch, a + 1, a + z)[i] = batch[(a + 1) + i - 1]
    BY <2>1, <2>2, SubSeqProperties
  <2>4. \A i \in 1 .. z : (a + 1) + i - 1 = a + i
    BY <1>2, <2>1
  <2> QED
    BY <2>3, <2>4
<1>7. \A i \in 1 .. z : a + i \in 1 .. W
  BY <1>1, <1>2, <1>3 DEF z
<1>8. DOMAIN SubSeq(batch, a + 1, a + z) = 1 .. z
  BY <1>6
<1> QED
  BY <1>4, <1>6, <1>7, <1>8 DEF a, z, W

\* Step n of epoch e is made of whole rows of that layout's batches.
StepShape(s, r, L, e, n, t) ==
  /\ t \in Uses(s) /\ t.epoch = e
  /\ CountOf(s, L, n) \in Nat /\ Len(t.batches) = CountOf(s, L, n)
  /\ DOMAIN t.batches = 1 .. CountOf(s, L, n)
  /\ \A m \in 1 .. CountOf(s, L, n) :
       /\ FirstOf(s, L, n) + m \in 1 .. Len(L.batches)
       /\ Len(t.batches[m]) = s.batchSize /\ DOMAIN t.batches[m] = 1 .. s.batchSize
       /\ \A i \in 1 .. s.batchSize :
            /\ r * s.batchSize + i \in 1 .. Width(s)
            /\ t.batches[m][i] = L.batches[FirstOf(s, L, n) + m][r * s.batchSize + i]

\* A step that a layout holds is made of batches of it.
LEMMA StepFacts ==
  ASSUME NEW s, NEW ls, Made(s, ls), NEW e \in 0 .. Len(ls) - 1, NEW n \in 0 .. Fit(s, ls) - 1,
         NEW r \in 0 .. s.replicas - 1
  PROVE  StepShape(s, r, ls[e + 1], e, n, StepTaken(s, ls, r, e, n))
<1> DEFINE L == ls[e + 1]
           F == FirstOf(s, L, n)
           C == CountOf(s, L, n)
           B == L.batches
           t == [m \in 1 .. C |-> Row(s, r, B[F + m])]
           X == Eligible(s)
<1>1. /\ s \in Setups /\ Fit(s, ls) \in Nat /\ Len(ls) \in Nat /\ SoundLayout(s, L)
      /\ B \in Seq(Seq(X)) /\ Len(B) \in Nat
      /\ F \in Nat /\ C \in Nat /\ FirstOf(s, L, n + 1) = F + C /\ FirstOf(s, L, n + 1) <= Len(B)
  <2>1. Fit(s, ls) \in Nat
    BY MadeFacts
  <2>2. n \in 0 .. Fit(s, ls) /\ n + 1 \in 0 .. Fit(s, ls)
    BY <2>1
  <2> QED
    BY <2>2, MadeFacts
<1>2. StepTaken(s, ls, r, e, n) = [epoch |-> e, batches |-> t]
  BY DEF StepTaken
<1>3. e \in Nat
  BY <1>1
<1> HIDE DEF L, F, C, X, B
<1>4. ASSUME NEW m \in 1 .. C
      PROVE  F + m \in 1 .. Len(B) /\ B[F + m] \in Seq(X) /\ Len(B[F + m]) = Width(s)
  <2>1. F + m \in 1 .. Len(B)
    BY <1>1
  <2>2. B[F + m] \in Seq(X)
    BY <1>1, <2>1
  <2>3. Len(B[F + m]) = Width(s)
    <3>1. \A a \in DOMAIN B : Len(B[a]) = Width(s)
      BY <1>1 DEF SoundLayout, SoundBatches, B
    <3>2. F + m \in DOMAIN B
      BY <1>1, <2>1
    <3> QED
      BY <3>1, <3>2
  <2> QED
    BY <2>1, <2>2, <2>3
<1>5. ASSUME NEW m \in 1 .. C
      PROVE  /\ Row(s, r, B[F + m]) \in Seq(X) /\ Len(Row(s, r, B[F + m])) = s.batchSize
             /\ DOMAIN Row(s, r, B[F + m]) = 1 .. s.batchSize
             /\ \A i \in 1 .. s.batchSize :
                  /\ r * s.batchSize + i \in 1 .. Width(s)
                  /\ Row(s, r, B[F + m])[i] = B[F + m][r * s.batchSize + i]
  BY <1>1, <1>4, RowFacts
<1>6. t \in Seq(Seq(X)) /\ Len(t) = C /\ DOMAIN t = 1 .. C /\ \A m \in 1 .. C : t[m] = Row(s, r, B[F + m])
  BY <1>1, <1>5
<1> HIDE DEF t
<1>7. StepTaken(s, ls, r, e, n) \in Uses(s)
  BY <1>2, <1>3, <1>6 DEF Uses, X
<1>8. /\ StepTaken(s, ls, r, e, n).epoch = e /\ StepTaken(s, ls, r, e, n).batches = t
  BY <1>2
<1>9. ASSUME NEW m \in 1 .. C
      PROVE  /\ F + m \in 1 .. Len(B)
             /\ Len(t[m]) = s.batchSize /\ DOMAIN t[m] = 1 .. s.batchSize
             /\ \A i \in 1 .. s.batchSize :
                   r * s.batchSize + i \in 1 .. Width(s) /\ t[m][i] = B[F + m][r * s.batchSize + i]
  BY <1>4, <1>5, <1>6
<1> DEFINE u == StepTaken(s, ls, r, e, n)
<1>10. u \in Uses(s) /\ u.epoch = e /\ u.batches = t
  BY <1>7, <1>8
<1> HIDE DEF u
<1>11. F = FirstOf(s, L, n) /\ C = CountOf(s, L, n) /\ B = L.batches
  BY DEF F, C, B
<1>12. StepShape(s, r, L, e, n, u)
  BY <1>1, <1>6, <1>9, <1>10, <1>11 DEF StepShape
<1> QED
  BY <1>12 DEF L, u

-----------------------------------------------------------------------------
(* The invariant.                                                          *)

\* What every step keeps.
TypesInv ==
  /\ Made(setup, layouts)
  /\ epoch \in [DPRanks -> Nat] /\ batchCursor \in [DPRanks -> Nat]
  /\ stepCursor \in [DPRanks -> Nat]
  /\ used \in [DPRanks -> Seq(Uses(setup))]
  /\ error \in [DPRanks -> {"none", "ValueError"}]
  /\ launch \in Nat
RanksInv ==
  \A r \in DPRanks :
    /\ At(setup, layouts, epoch[r], batchCursor[r], stepCursor[r], Len(used[r]))
    /\ \A k \in 1 .. Len(used[r]) : Taken(setup, layouts, r, k, used[r][k])
    /\ error[r] # "none" => Len(used[r]) = 0
SavedInv ==
  /\ saved.epoch \in [DPRanks -> Nat] /\ saved.batch \in [DPRanks -> Nat]
  /\ saved.group \in [DPRanks -> Nat] /\ saved.step \in Nat
  /\ \A r \in DPRanks :
       /\ saved.step <= Len(used[r])
       /\ At(setup, layouts, saved.epoch[r], saved.batch[r], saved.group[r], saved.step)
IndexInv == TypesInv /\ RanksInv /\ SavedInv

\* An epoch is laid out where it is not yet.
LEMMA BuildExtends ==
  ASSUME Made(setup, layouts), NEW e \in 0 .. Len(layouts), Build(e), setup' = setup
  PROVE  Extends(setup, layouts, layouts') /\ e \in 0 .. Len(layouts') - 1
<1>1. /\ setup \in Setups /\ Accepts(setup)
      /\ layouts \in Seq(EpochLayouts(setup)) /\ Len(layouts) \in Nat \ {0}
  BY DEF Made
<1>2. CASE e < Len(layouts)
  <2>1. layouts' = layouts
    BY <1>2 DEF Build
  <2> QED
    BY <1>1, <1>2, <2>1 DEF Extends, Made
<1>3. CASE ~(e < Len(layouts))
  <2>1. PICK layout \in EpochLayouts(setup) : layouts' = Append(layouts, layout)
    BY <1>3 DEF Build
  <2>2. e = Len(layouts)
    BY <1>1, <1>3
  <2>3. /\ layouts' \in Seq(EpochLayouts(setup)) /\ Len(layouts') = Len(layouts) + 1
        /\ \A i \in 1 .. Len(layouts) : layouts'[i] = layouts[i]
    <3> DEFINE X == EpochLayouts(setup)
    <3> HIDE DEF X
    <3>1. layouts \in Seq(X) /\ layout \in X
      BY <1>1 DEF X
    <3>2. /\ Append(layouts, layout) \in Seq(X)
          /\ Len(Append(layouts, layout)) = Len(layouts) + 1
          /\ \A i \in 1 .. Len(layouts) : Append(layouts, layout)[i] = layouts[i]
      BY <3>1
    <3> QED
      BY <2>1, <3>2 DEF X
  <2>4. Len(layouts') # 0 /\ Len(layouts) <= Len(layouts') /\ e \in 0 .. Len(layouts') - 1
    BY <1>1, <2>2, <2>3
  <2>5. Made(setup, layouts')
    BY <1>1, <2>3, <2>4 DEF Made
  <2> QED
    BY <2>3, <2>4, <2>5 DEF Extends
<1> QED
  BY <1>2, <1>3

\* A rank that takes the step of its position.
LEMMA TakeKeeps ==
  ASSUME IndexInv, UNCHANGED <<setup, saved, launch>>, Extends(setup, layouts, layouts'),
         NEW r \in DPRanks, NEW e \in 0 .. Len(layouts') - 1,
         NEW n \in 0 .. Fit(setup, layouts') - 1,
         Len(used[r]) = Fit(setup, layouts') * e + n,
         error[r] = "none",
         NEW at, at = FirstOf(setup, layouts'[e + 1], n),
         NEW count, count = CountOf(setup, layouts'[e + 1], n),
         NEW step, step = IF setup.unit = "trajectory" THEN n + 1 ELSE 0,
         Take(r, e, at, count, step)
  PROVE  IndexInv'
<1> DEFINE s == setup
           ls == layouts'
           L == ls[e + 1]
           k == Len(used[r])
           x == StepTaken(s, ls, r, e, n)
<1>1. /\ Made(s, ls) /\ s \in Setups /\ Len(ls) \in Nat /\ Fit(s, ls) \in Nat
  BY MadeFacts DEF Extends
<1>2. /\ k \in Nat /\ at + count <= Len(L.batches)
      /\ At(s, ls, e, at + count, step, k + 1)
      /\ Taken(s, ls, r, k + 1, x)
  BY <1>1, Onward
<1>3. r \in 0 .. s.replicas - 1 /\ DPRanks' = DPRanks
  BY DEF DPRanks
<1>4. x \in Uses(s)
  BY <1>1, <1>3, StepFacts DEF StepShape
<1>5. at \in Nat /\ count \in Nat /\ e \in Nat /\ step \in Nat /\ at + count \in Nat
  <2>1. at \in Nat /\ count \in Nat
    <3>1. n \in 0 .. Fit(s, ls)
      BY <1>1
    <3> QED
      BY <1>1, <3>1, MadeFacts
  <2>2. e \in Nat /\ step \in Nat
    BY <1>1
  <2> QED
    BY <2>1, <2>2
<1>6. Len(L.batches) \in Nat
  BY <1>1, MadeFacts
<1>7. ~(at + count > Len(L.batches))
  BY <1>2, <1>5, <1>6
<1>8. /\ epoch' = [epoch EXCEPT ![r] = e]
      /\ batchCursor' = [batchCursor EXCEPT ![r] = at + count]
      /\ stepCursor' = [stepCursor EXCEPT ![r] = step]
      /\ used' = [used EXCEPT ![r] = Append(@,
           [epoch |-> e, batches |-> [m \in 1 .. count |-> LocalSlice(r, L.batches[at + m])]])]
      /\ error' = error
  BY <1>7 DEF Take, Moved
<1>9. [epoch |-> e, batches |-> [m \in 1 .. count |-> LocalSlice(r, L.batches[at + m])]] = x
  BY DEF StepTaken, Row, LocalSlice
<1>10. used' = [used EXCEPT ![r] = Append(used[r], x)]
  BY <1>8, <1>9
<1> HIDE DEF x, L, k
<1>11. TypesInv /\ RanksInv /\ SavedInv
  BY DEF IndexInv
<1>12. used \in [DPRanks -> Seq(Uses(s))]
  BY <1>11 DEF TypesInv
<1>13. /\ Append(used[r], x) \in Seq(Uses(s)) /\ Len(Append(used[r], x)) = k + 1
       /\ Append(used[r], x)[k + 1] = x
       /\ \A j \in 1 .. k : Append(used[r], x)[j] = used[r][j]
  <2> DEFINE X == Uses(s)
  <2> HIDE DEF X
  <2>1. used[r] \in Seq(X) /\ x \in X
    BY <1>4, <1>12 DEF X
  <2> QED
    BY <2>1 DEF X, k
<1>14. TypesInv'
  <2>1. used' \in [DPRanks -> Seq(Uses(s))]
    BY <1>10, <1>12, <1>13
  <2>2. epoch' \in [DPRanks -> Nat] /\ batchCursor' \in [DPRanks -> Nat]
        /\ stepCursor' \in [DPRanks -> Nat] /\ error' \in [DPRanks -> {"none", "ValueError"}]
        /\ launch' \in Nat
    BY <1>5, <1>8, <1>11 DEF TypesInv
  <2> QED
    BY <1>1, <1>3, <2>1, <2>2 DEF TypesInv
<1>15. ASSUME NEW q \in DPRanks
       PROVE  /\ At(s, ls, epoch'[q], batchCursor'[q], stepCursor'[q], Len(used'[q]))
              /\ \A j \in 1 .. Len(used'[q]) : Taken(s, ls, q, j, used'[q][j])
              /\ error'[q] # "none" => Len(used'[q]) = 0
              /\ Len(used[q]) <= Len(used'[q])
  <2>1. /\ At(s, layouts, epoch[q], batchCursor[q], stepCursor[q], Len(used[q]))
        /\ \A j \in 1 .. Len(used[q]) : Taken(s, layouts, q, j, used[q][j])
        /\ error[q] # "none" => Len(used[q]) = 0
        /\ Len(used[q]) \in Nat
    BY <1>11, <1>12 DEF RanksInv
  <2>2. CASE q # r
    <3>1. epoch'[q] = epoch[q] /\ batchCursor'[q] = batchCursor[q] /\ stepCursor'[q] = stepCursor[q]
          /\ used'[q] = used[q] /\ error'[q] = error[q]
      BY <1>8, <1>10, <1>11, <2>2 DEF TypesInv
    <3> QED
      BY <2>1, <3>1, ExtendedFacts, SMTT(30)
  <2>3. CASE q = r
    <3>1. epoch'[q] = e /\ batchCursor'[q] = at + count /\ stepCursor'[q] = step
          /\ used'[q] = Append(used[r], x) /\ error'[q] = "none"
      BY <1>8, <1>10, <1>11, <2>3 DEF TypesInv
    <3>2. ASSUME NEW j \in 1 .. k + 1 PROVE Taken(s, ls, r, j, Append(used[r], x)[j])
      <4>1. CASE j = k + 1
        BY <1>2, <1>13, <4>1
      <4>2. CASE j # k + 1
        <5>1. j \in 1 .. k
          BY <1>2, <4>2
        <5>2. Taken(s, layouts, r, j, used[r][j])
          BY <2>1, <2>3, <5>1 DEF k
        <5>3. Taken(s, ls, r, j, used[r][j])
          BY <5>2, ExtendedFacts
        <5> QED
          BY <1>13, <5>1, <5>3
      <4> QED
        BY <4>1, <4>2
    <3>3. Len(used[q]) <= k + 1
      BY <1>2, <2>3 DEF k
    <3> QED
      BY <1>2, <1>13, <2>3, <3>1, <3>2, <3>3
  <2> QED
    BY <2>2, <2>3
<1>16. RanksInv'
  BY <1>3, <1>15 DEF RanksInv
<1>17. SavedInv'
  <2>1. ASSUME NEW q \in DPRanks
        PROVE  /\ saved.step <= Len(used'[q])
               /\ At(s, ls, saved.epoch[q], saved.batch[q], saved.group[q], saved.step)
    <3>1. saved.step <= Len(used[q]) /\ saved.step \in Nat
          /\ At(s, layouts, saved.epoch[q], saved.batch[q], saved.group[q], saved.step)
      BY <1>11 DEF SavedInv
    <3>2. Len(used[q]) \in Nat /\ Len(used'[q]) \in Nat
      BY <1>3, <1>12, <1>14 DEF TypesInv
    <3> QED
      BY <1>15, <3>1, <3>2, ExtendedFacts, SMTT(30)
  <2> QED
    BY <1>3, <1>11, <2>1 DEF SavedInv
<1> QED
  BY <1>14, <1>16, <1>17 DEF IndexInv

\* A rank lies at the end of step n of its epoch.
LEMMA Position ==
  ASSUME IndexInv, NEW r \in DPRanks
  PROVE  /\ Made(setup, layouts) /\ setup \in Setups /\ Len(layouts) \in Nat
         /\ Fit(setup, layouts) \in Nat
         /\ epoch[r] \in 0 .. Len(layouts) - 1
         /\ Len(used[r]) \in Nat /\ batchCursor[r] \in Nat /\ stepCursor[r] \in Nat
         /\ \E n \in 0 .. Fit(setup, layouts) :
              Reached(setup, layouts, epoch[r], batchCursor[r], stepCursor[r], Len(used[r]), n)
<1>1. Made(setup, layouts) /\ At(setup, layouts, epoch[r], batchCursor[r], stepCursor[r], Len(used[r]))
  BY DEF IndexInv, TypesInv, RanksInv
<1>2. epoch[r] \in 0 .. Len(layouts) - 1
  BY <1>1 DEF At
<1>3. used[r] \in Seq(Uses(setup)) /\ batchCursor[r] \in Nat /\ stepCursor[r] \in Nat
  BY DEF IndexInv, TypesInv
<1>4. Len(used[r]) \in Nat
  <2> DEFINE X == Uses(setup)
  <2> HIDE DEF X
  <2>1. used[r] \in Seq(X)
    BY <1>3 DEF X
  <2> QED
    BY <2>1
<1>5. /\ setup \in Setups /\ Len(layouts) \in Nat /\ Fit(setup, layouts) \in Nat
  BY <1>1, <1>2, MadeFacts
<1> QED
  BY <1>1, <1>2, <1>3, <1>4, <1>5 DEF At

\* No layout more.
LEMMA UnchangedExtends ==
  ASSUME Made(setup, layouts), UNCHANGED <<setup, layouts>>
  PROVE  Extends(setup, layouts, layouts')
<1>1. Len(layouts) \in Nat
  BY DEF Made
<1> QED
  BY <1>1 DEF Extends, Made

\* A full epoch is left for the first step of the next.
Exhausted(r) ==
  IF setup.unit = "trajectory" THEN batchCursor[r] = Len(Layout(epoch[r]).batches)
  ELSE Len(Layout(epoch[r]).batches) - batchCursor[r] < setup.accum

\* A step of accum batches: within the epoch, or the first of the next, which a rank
\* enters only when less than a step is left.
LEMMA TakeBatchesKeeps ==
  ASSUME IndexInv, NEW r \in DPRanks, TakeBatches(r)
  PROVE  /\ IndexInv'
         /\ error' = error
         /\ \A q \in DPRanks : epoch'[q] > epoch[q] => Exhausted(q)
<1> DEFINE s == setup
           S == Fit(s, layouts)
           e == epoch[r]
           b == batchCursor[r]
           L == Layout(e)
           B == Len(L.batches)
           k == Len(used[r])
<1>1. /\ Made(s, layouts) /\ s \in Setups /\ Len(layouts) \in Nat /\ S \in Nat
      /\ e \in 0 .. Len(layouts) - 1 /\ k \in Nat /\ b \in Nat
  BY Position
<1>2. PICK n \in 0 .. S : Reached(s, layouts, e, b, stepCursor[r], k, n)
  BY Position
<1>3. s.unit = "microbatch" /\ s.unit # "trajectory" /\ error[r] = "none" /\ s.accum <= B
      /\ UNCHANGED <<setup, saved, launch>>
  BY DEF TakeBatches, MayStep
<1>4. s.accum \in Nat \ {0}
  BY <1>1, SetupFacts
<1>5. /\ n \in Nat /\ k = S * e + n /\ b = n * s.accum /\ b = FirstOf(s, layouts[e + 1], n)
      /\ stepCursor[r] = 0
  BY <1>1, <1>2, <1>3 DEF Reached, FirstOf
<1>6. B \in Nat /\ \A m \in Nat : m <= S <=> m * s.accum <= B
  BY <1>1, <1>3, MadeFacts DEF Layout
<1>7. (n + 1) * s.accum = b + s.accum /\ n + 1 \in Nat
  BY <1>4, <1>5
<1>8. CASE EpochEnds(r)
  <2>1. b + s.accum > B
    BY <1>8 DEF EpochEnds
  <2>2. Build(e + 1) /\ Take(r, e + 1, 0, s.accum, 0)
    BY <1>8 DEF TakeBatches
  <2>3. n = S
    <3>1. ~(n + 1 <= S)
      BY <1>4, <1>5, <1>6, <1>7, <2>1
    <3> QED
      BY <1>1, <3>1
  <2>4. S # 0
    <3>1. 1 * s.accum <= B
      BY <1>3, <1>4
    <3>2. 1 <= S
      BY <1>6, <3>1
    <3> QED
      BY <1>1, <3>2
  <2>5. e + 1 \in 0 .. Len(layouts)
    BY <1>1
  <2>6. Extends(s, layouts, layouts') /\ e + 1 \in 0 .. Len(layouts') - 1
    BY <1>1, <1>3, <2>2, <2>5, BuildExtends
  <2>7. Fit(s, layouts') = S /\ Made(s, layouts')
    BY <2>6, ExtendedFacts DEF Extends
  <2>8. k = Fit(s, layouts') * (e + 1) + 0 /\ 0 \in 0 .. Fit(s, layouts') - 1
    <3>1. e \in Nat
      BY <1>1
    <3> HIDE DEF S, e, k
    <3>2. S * (e + 1) = S * e + S
      BY <1>1, <3>1
    <3> QED
      BY <1>1, <1>5, <2>3, <2>4, <2>7, <3>1, <3>2
  <2>9. 0 = FirstOf(s, layouts'[(e + 1) + 1], 0)
    BY <2>6, <2>7, MadeFacts
  <2>10. s.accum = CountOf(s, layouts'[(e + 1) + 1], 0)
    BY <1>3 DEF CountOf
  <2>11. 0 = IF s.unit = "trajectory" THEN 0 + 1 ELSE 0
    BY <1>3
  <2>12. IndexInv'
    BY <1>3, <2>2, <2>6, <2>8, <2>9, <2>10, <2>11, TakeKeeps
  <2>13. error' = error /\ epoch' = [epoch EXCEPT ![r] = e + 1]
    <3>1. s.accum <= Len(layouts'[(e + 1) + 1].batches)
      <4>1. \A m \in Nat : m <= S <=> m * s.accum <= Len(layouts'[(e + 1) + 1].batches)
        BY <1>3, <2>6, <2>7, MadeFacts
      <4>2. 1 <= S /\ 1 * s.accum = s.accum
        BY <1>1, <1>4, <2>4
      <4> QED
        BY <4>1, <4>2
    <3>2. Len(layouts'[(e + 1) + 1].batches) \in Nat
      BY <2>6, <2>7, MadeFacts
    <3>3. ~(0 + s.accum > Len(layouts'[(e + 1) + 1].batches))
      BY <1>4, <3>1, <3>2
    <3> QED
      BY <2>2, <3>3 DEF Take
  <2>14. Exhausted(r)
    <3>1. B - b < s.accum
      <4> DEFINE a == s.accum
      <4>1. a \in Nat /\ B \in Nat /\ b \in Nat /\ b + a > B
        BY <1>1, <1>4, <1>6, <2>1
      <4> HIDE DEF a, b, B
      <4>2. B - b < a
        BY <4>1
      <4> QED
        BY <4>2 DEF a
    <3> QED
      BY <1>3, <3>1 DEF Exhausted
  <2>15. \A q \in DPRanks : q # r => epoch'[q] = epoch[q] /\ epoch[q] \in Nat
    BY <2>13 DEF IndexInv, TypesInv
  <2> QED
    BY <2>12, <2>13, <2>14, <2>15
<1>9. CASE ~EpochEnds(r)
  <2>1. ~(b + s.accum > B)
    BY <1>9 DEF EpochEnds
  <2>2. layouts' = layouts /\ Take(r, e, b, s.accum, stepCursor[r])
    BY <1>9 DEF TakeBatches
  <2>3. n + 1 <= S
    BY <1>1, <1>4, <1>6, <1>7, <2>1
  <2>4. Extends(s, layouts, layouts')
    BY <1>1, <1>3, <2>2, UnchangedExtends
  <2>5. n \in 0 .. Fit(s, layouts') - 1 /\ k = Fit(s, layouts') * e + n
        /\ e \in 0 .. Len(layouts') - 1
    BY <1>1, <1>5, <2>2, <2>3
  <2>6. b = FirstOf(s, layouts'[e + 1], n) /\ s.accum = CountOf(s, layouts'[e + 1], n)
        /\ stepCursor[r] = IF s.unit = "trajectory" THEN n + 1 ELSE 0
    BY <1>3, <1>5, <2>2 DEF CountOf
  <2>7. IndexInv'
    BY <1>3, <2>2, <2>4, <2>5, <2>6, TakeKeeps
  <2>8. error' = error /\ epoch' = [epoch EXCEPT ![r] = e]
    <3>1. ~(b + s.accum > Len(layouts'[e + 1].batches))
      BY <2>1, <2>2 DEF Layout
    <3> QED
      BY <2>2, <3>1 DEF Take
  <2>9. epoch' = epoch
    BY <2>8 DEF IndexInv, TypesInv
  <2>10. \A q \in DPRanks : epoch[q] \in Nat
    BY DEF IndexInv, TypesInv
  <2> QED
    BY <2>7, <2>8, <2>9, <2>10
<1> QED
  BY <1>8, <1>9

\* The exception of an epoch too short for a step comes before the first step.
LEMMA StepDoesNotFitKeeps ==
  ASSUME IndexInv, NEW r \in DPRanks, StepDoesNotFit(r)
  PROVE  IndexInv' /\ epoch' = epoch
<1> DEFINE s == setup
           S == Fit(s, layouts)
           e == epoch[r]
           B == Len(Layout(e).batches)
           k == Len(used[r])
<1>1. /\ Made(s, layouts) /\ s \in Setups /\ Len(layouts) \in Nat /\ S \in Nat
      /\ e \in 0 .. Len(layouts) - 1 /\ k \in Nat
  BY Position
<1>2. PICK n \in 0 .. S : Reached(s, layouts, e, batchCursor[r], stepCursor[r], k, n)
  BY Position
<1>3. /\ s.unit # "trajectory" /\ s.accum > B
      /\ error' = [error EXCEPT ![r] = "ValueError"]
      /\ UNCHANGED <<setup, layouts, epoch, batchCursor, stepCursor, used, saved, launch>>
  BY DEF StepDoesNotFit, cursors
<1>4. s.accum \in Nat \ {0} /\ B \in Nat /\ \A m \in Nat : m <= S <=> m * s.accum <= B
  BY <1>1, <1>3, SetupFacts, MadeFacts DEF Layout
<1>5. S = 0
  <2>1. ~(1 * s.accum <= B)
    BY <1>3, <1>4
  <2>2. ~(1 <= S)
    BY <1>4, <2>1
  <2> QED
    BY <1>1, <2>2
<1>6. k = 0
  <2>1. k = S * e + n
    BY <1>2 DEF Reached
  <2>2. n = 0 /\ e \in Nat
    BY <1>1, <1>2, <1>5
  <2> HIDE DEF S, e, k
  <2>3. S * e = 0
    BY <1>5, <2>2
  <2> QED
    BY <2>1, <2>2, <2>3
<1>7. DPRanks' = DPRanks
  BY <1>3 DEF DPRanks
<1>8. TypesInv'
  BY <1>3, <1>7 DEF IndexInv, TypesInv
<1>9. RanksInv'
  BY <1>3, <1>6, <1>7 DEF IndexInv, TypesInv, RanksInv
<1>10. SavedInv'
  BY <1>3, <1>7 DEF IndexInv, SavedInv
<1> QED
  BY <1>3, <1>8, <1>9, <1>10 DEF IndexInv

\* A step of one group's turns: within the epoch, or the first of the next, which a
\* rank enters only when no group is left.
LEMMA TakeTrajectoryKeeps ==
  ASSUME IndexInv, NEW r \in DPRanks, TakeTrajectory(r)
  PROVE  /\ IndexInv'
         /\ error' = error
         /\ \A q \in DPRanks : epoch'[q] > epoch[q] => Exhausted(q)
<1> DEFINE s == setup
           S == Fit(s, layouts)
           e == epoch[r]
           b == batchCursor[r]
           k == Len(used[r])
           count(f, m) == layouts'[f + 1].sizes[m + 1]
<1>1. /\ Made(s, layouts) /\ s \in Setups /\ Len(layouts) \in Nat /\ S \in Nat
      /\ e \in 0 .. Len(layouts) - 1 /\ k \in Nat /\ b \in Nat
  BY Position
<1>2. PICK n \in 0 .. S : Reached(s, layouts, e, b, stepCursor[r], k, n)
  BY Position
<1>3. s.unit = "trajectory" /\ error[r] = "none" /\ UNCHANGED <<setup, saved, launch>>
  BY DEF TakeTrajectory, MayStep
<1>4. /\ n \in Nat /\ k = S * e + n /\ b = FirstOf(s, layouts[e + 1], n) /\ stepCursor[r] = n
  BY <1>1, <1>2, <1>3 DEF Reached
<1>5. S # 0 /\ Len(Layout(e).sizes) = S /\ Len(Layout(e).batches) = FirstOf(s, layouts[e + 1], S)
  BY <1>1, <1>3, MadeFacts DEF Layout
<1>6. \A f, m : CountOf(s, layouts'[f + 1], m) = count(f, m)
  BY <1>3 DEF CountOf
<1>7. CASE stepCursor[r] >= Len(Layout(e).sizes)
  <2>1. n = S
    BY <1>1, <1>4, <1>5, <1>7
  <2>2. Build(e + 1) /\ Take(r, e + 1, 0, count(e + 1, 0), 0 + 1)
    BY <1>7 DEF TakeTrajectory
  <2>3. e + 1 \in 0 .. Len(layouts)
    BY <1>1
  <2>4. Extends(s, layouts, layouts') /\ e + 1 \in 0 .. Len(layouts') - 1
    BY <1>1, <1>3, <2>2, <2>3, BuildExtends
  <2>5. Fit(s, layouts') = S /\ Made(s, layouts')
    BY <2>4, ExtendedFacts DEF Extends
  <2>6. k = Fit(s, layouts') * (e + 1) + 0 /\ 0 \in 0 .. Fit(s, layouts') - 1
    <3>1. e \in Nat
      BY <1>1
    <3> HIDE DEF S, e, k
    <3>2. S * (e + 1) = S * e + S
      BY <1>1, <3>1
    <3> QED
      BY <1>1, <1>4, <1>5, <2>1, <2>5, <3>1, <3>2
  <2>7. 0 = FirstOf(s, layouts'[(e + 1) + 1], 0)
    BY <2>4, <2>5, MadeFacts
  <2>8. count(e + 1, 0) = CountOf(s, layouts'[(e + 1) + 1], 0)
    BY <1>6
  <2>9. 0 + 1 = IF s.unit = "trajectory" THEN 0 + 1 ELSE 0
    BY <1>3
  <2>10. IndexInv'
    BY <1>3, <2>2, <2>4, <2>6, <2>7, <2>8, <2>9, TakeKeeps
  <2>11. error' = error /\ epoch' = [epoch EXCEPT ![r] = e + 1]
    <3> DEFINE c == count(e + 1, 0)
               w == Len(layouts'[(e + 1) + 1].batches)
    <3>1. FirstOf(s, layouts'[(e + 1) + 1], 0) + CountOf(s, layouts'[(e + 1) + 1], 0) <= w
          /\ k \in Nat
      BY <2>4, <2>5, <2>6, Onward
    <3>2. w \in Nat /\ c \in Nat
      BY <2>4, <2>5, <2>6, <2>8, MadeFacts
    <3>3. 0 + c <= w
      BY <2>7, <2>8, <3>1
    <3>4. ~(0 + c > w)
      <4> HIDE DEF c, w
      <4> QED
        BY <3>2, <3>3
    <3> QED
      BY <2>2, <3>4 DEF Take
  <2>12. Exhausted(r)
    BY <1>3, <1>4, <1>5, <2>1 DEF Exhausted
  <2>13. \A q \in DPRanks : q # r => epoch'[q] = epoch[q] /\ epoch[q] \in Nat
    BY <2>11 DEF IndexInv, TypesInv
  <2> QED
    BY <2>10, <2>11, <2>12, <2>13
<1>8. CASE ~(stepCursor[r] >= Len(Layout(e).sizes))
  <2>1. n \in 0 .. S - 1
    BY <1>1, <1>4, <1>5, <1>8
  <2>2. layouts' = layouts /\ Take(r, e, b, count(e, n), n + 1)
    BY <1>4, <1>8 DEF TakeTrajectory
  <2>3. Extends(s, layouts, layouts')
    BY <1>1, <1>3, <2>2, UnchangedExtends
  <2>4. n \in 0 .. Fit(s, layouts') - 1 /\ k = Fit(s, layouts') * e + n
        /\ e \in 0 .. Len(layouts') - 1
    BY <1>1, <1>4, <2>1, <2>2
  <2>5. b = FirstOf(s, layouts'[e + 1], n) /\ count(e, n) = CountOf(s, layouts'[e + 1], n)
        /\ n + 1 = IF s.unit = "trajectory" THEN n + 1 ELSE 0
    BY <1>3, <1>4, <1>6, <2>2
  <2>6. IndexInv'
    BY <1>3, <2>2, <2>3, <2>4, <2>5, TakeKeeps
  <2>7. error' = error /\ epoch' = [epoch EXCEPT ![r] = e]
    <3> DEFINE c == count(e, n)
               w == Len(layouts'[e + 1].batches)
    <3>1. FirstOf(s, layouts'[e + 1], n) + CountOf(s, layouts'[e + 1], n) <= w
      BY <1>1, <1>4, <2>1, <2>2, Onward
    <3>2. w \in Nat /\ c \in Nat
      BY <1>1, <2>1, <2>2, <2>5, MadeFacts, SMTT(30)
    <3>3. b + c <= w /\ b \in Nat
      BY <1>1, <2>5, <3>1
    <3>4. ~(b + c > w)
      <4> HIDE DEF b, c, w
      <4> QED
        BY <3>2, <3>3
    <3> QED
      BY <2>2, <3>4 DEF Take
  <2>8. epoch' = epoch
    BY <2>7 DEF IndexInv, TypesInv
  <2>9. \A q \in DPRanks : epoch[q] \in Nat
    BY DEF IndexInv, TypesInv
  <2> QED
    BY <2>6, <2>7, <2>8, <2>9
<1> QED
  BY <1>7, <1>8

\* The cursors of a moment when all ranks have taken equally many steps.
LEMMA SaveKeeps ==
  ASSUME IndexInv, Save
  PROVE  IndexInv' /\ UNCHANGED <<setup, epoch, error>>
<1>1. /\ saved' = [step |-> Len(used[0]), epoch |-> epoch, batch |-> batchCursor, group |-> stepCursor]
      /\ UNCHANGED <<setup, layouts, epoch, batchCursor, stepCursor, used, error, launch>>
      /\ \A r \in DPRanks : Len(used[r]) = Len(used[0])
  BY DEF Save, cursors
<1>2. DPRanks' = DPRanks
  BY <1>1 DEF DPRanks
<1>3. TypesInv' /\ RanksInv'
  BY <1>1, <1>2 DEF IndexInv, TypesInv, RanksInv
<1>4. 0 \in DPRanks
  <2>1. setup \in Setups
    BY DEF IndexInv, TypesInv, Made
  <2> QED
    BY <2>1, SetupFacts DEF DPRanks
<1>5. Len(used[0]) \in Nat
  BY <1>4, Position
<1>6. SavedInv'
  <2>1. ASSUME NEW r \in DPRanks
        PROVE  /\ Len(used[0]) <= Len(used[r])
               /\ At(setup, layouts, epoch[r], batchCursor[r], stepCursor[r], Len(used[0]))
    BY <1>1, <1>5 DEF IndexInv, RanksInv
  <2>2. epoch \in [DPRanks -> Nat] /\ batchCursor \in [DPRanks -> Nat] /\ stepCursor \in [DPRanks -> Nat]
    BY DEF IndexInv, TypesInv
  <2> QED
    BY <1>1, <1>2, <1>5, <2>1, <2>2 DEF SavedInv
<1> QED
  BY <1>1, <1>3, <1>6 DEF IndexInv

\* What was saved lies where load_state_dict accepts it.
LEMMA NeverRefused ==
  ASSUME IndexInv, NEW r \in DPRanks
  PROVE  ~Refused(r)
<1> DEFINE s == setup
           S == Fit(s, layouts)
           e == saved.epoch[r]
           b == saved.batch[r]
           c == saved.group[r]
           L == Layout(e)
<1>1. Made(s, layouts) /\ At(s, layouts, e, b, c, saved.step) /\ b \in Nat /\ c \in Nat
  BY DEF IndexInv, TypesInv, SavedInv
<1>2. e \in 0 .. Len(layouts) - 1
  BY <1>1 DEF At
<1>3. PICK n \in 0 .. S : Reached(s, layouts, e, b, c, saved.step, n)
  BY <1>1 DEF At
<1>4. b = FirstOf(s, L, n) /\ c = IF s.unit = "trajectory" THEN n ELSE 0
  BY <1>3 DEF Reached, Layout
<1>5. /\ S \in Nat /\ Len(L.batches) \in Nat /\ FirstOf(s, L, n) <= Len(L.batches)
      /\ s.unit = "trajectory" => Len(L.sizes) = S
  BY <1>1, <1>2, MadeFacts DEF Layout
<1>6. ~(b > Len(L.batches))
  BY <1>1, <1>4, <1>5
<1>7. s.unit = "trajectory" => ~(c > Len(L.sizes)) /\ b = SumOf(L.sizes, c)
  BY <1>4, <1>5 DEF FirstOf
<1> QED
  BY <1>6, <1>7 DEF Refused

\* A restart goes back to cursors that were a rank's position once.
LEMMA RestartKeeps ==
  ASSUME IndexInv, Restart
  PROVE  IndexInv' /\ launch' # launch
<1>1. /\ launch' = launch + 1
      /\ epoch' = saved.epoch /\ batchCursor' = saved.batch /\ stepCursor' = saved.group
      /\ used' = [r \in DPRanks |-> SubSeq(used[r], 1, saved.step)]
      /\ error' = [r \in DPRanks |-> IF Refused(r) THEN "refused" ELSE "none"]
      /\ UNCHANGED <<setup, layouts, saved>>
  BY DEF Restart
<1>2. DPRanks' = DPRanks
  BY <1>1 DEF DPRanks
<1>3. error' = [r \in DPRanks |-> "none"]
  BY <1>1, NeverRefused
<1>4. saved.step \in Nat
  BY DEF IndexInv, SavedInv
<1>5. ASSUME NEW r \in DPRanks
      PROVE  /\ used'[r] \in Seq(Uses(setup)) /\ Len(used'[r]) = saved.step
             /\ \A k \in 1 .. saved.step : used'[r][k] = used[r][k] /\ k \in 1 .. Len(used[r])
  <2> DEFINE X == Uses(setup)
             u == used[r]
             m == saved.step
  <2>1. u \in Seq(X) /\ Len(u) \in Nat /\ m \in Nat /\ m <= Len(u)
    BY Position DEF IndexInv, TypesInv, SavedInv
  <2>2. used'[r] = SubSeq(u, 1, m)
    BY <1>1
  <2> HIDE DEF X, u, m
  <2>3. \A i \in 1 .. m : u[i] \in X /\ i \in 1 .. Len(u)
    BY <2>1
  <2>4. /\ SubSeq(u, 1, m) \in Seq(X)
        /\ Len(SubSeq(u, 1, m)) = IF 1 <= m THEN m - 1 + 1 ELSE 0
        /\ \A i \in 1 .. m - 1 + 1 : SubSeq(u, 1, m)[i] = u[1 + i - 1]
    BY <2>1, <2>3, SubSeqProperties
  <2>5. Len(SubSeq(u, 1, m)) = m
    BY <2>1, <2>4
  <2>6. \A i \in 1 .. m : SubSeq(u, 1, m)[i] = u[i]
    <3>1. \A i \in 1 .. m : i \in 1 .. m - 1 + 1 /\ 1 + i - 1 = i
      BY <2>1
    <3> QED
      BY <2>4, <3>1
  <2> QED
    BY <2>2, <2>3, <2>4, <2>5, <2>6 DEF X, u, m
<1>6. TypesInv'
  <2>1. used' \in [DPRanks -> Seq(Uses(setup))]
    BY <1>1, <1>5
  <2>2. Made(setup, layouts) /\ saved.epoch \in [DPRanks -> Nat]
        /\ saved.batch \in [DPRanks -> Nat] /\ saved.group \in [DPRanks -> Nat]
    BY DEF IndexInv, TypesInv, SavedInv
  <2> QED
    BY <1>1, <1>2, <1>3, <2>1, <2>2 DEF IndexInv, TypesInv
<1>7. RanksInv'
  <2>1. ASSUME NEW r \in DPRanks
        PROVE  /\ At(setup, layouts, saved.epoch[r], saved.batch[r], saved.group[r], Len(used'[r]))
               /\ \A k \in 1 .. Len(used'[r]) : Taken(setup, layouts, r, k, used'[r][k])
    <3>1. \A k \in 1 .. Len(used[r]) : Taken(setup, layouts, r, k, used[r][k])
      BY DEF IndexInv, RanksInv
    <3>2. At(setup, layouts, saved.epoch[r], saved.batch[r], saved.group[r], saved.step)
      BY DEF IndexInv, SavedInv
    <3> QED
      BY <1>5, <3>1, <3>2
  <2> QED
    BY <1>1, <1>2, <1>3, <2>1 DEF RanksInv
<1>8. SavedInv'
  <2>1. \A r \in DPRanks : saved.step <= Len(used'[r])
    BY <1>4, <1>5
  <2> QED
    BY <1>1, <1>2, <2>1 DEF IndexInv, SavedInv
<1>9. launch' # launch
  BY <1>1 DEF IndexInv, TypesInv
<1> QED
  BY <1>6, <1>7, <1>8, <1>9 DEF IndexInv

-----------------------------------------------------------------------------
(* The theorems.                                                           *)

\* A run begins before the first step of the first epoch.
LEMMA IndexInit ==
  ASSUME Init
  PROVE  IndexInv
<1>1. setup \in Setups /\ Accepts(setup)
  BY DEF Init
<1>2. PICK layout \in EpochLayouts(setup) : layouts = <<layout>>
  BY DEF Init
<1>3. Made(setup, layouts) /\ Len(layouts) = 1
  <2> DEFINE X == EpochLayouts(setup)
  <2> HIDE DEF X
  <2>1. layout \in X
    BY DEF X
  <2>2. layouts \in Seq(X) /\ Len(layouts) = 1
    BY <1>2, <2>1
  <2> QED
    BY <1>1, <2>2 DEF Made, X
<1>4. /\ epoch = [r \in DPRanks |-> 0] /\ batchCursor = [r \in DPRanks |-> 0]
      /\ stepCursor = [r \in DPRanks |-> 0] /\ used = [r \in DPRanks |-> <<>>]
      /\ error = [r \in DPRanks |-> "none"] /\ launch = 1
      /\ saved = [step |-> 0, epoch |-> epoch, batch |-> batchCursor, group |-> stepCursor]
  BY DEF Init
<1>5. At(setup, layouts, 0, 0, 0, 0)
  <2>1. 0 \in 0 .. Len(layouts) - 1
    BY <1>3
  <2>2. Fit(setup, layouts) \in Nat /\ FirstOf(setup, layouts[0 + 1], 0) = 0
    <3>1. \A e \in 0 .. Len(layouts) - 1 :
            Fit(setup, layouts) \in Nat /\ FirstOf(setup, layouts[e + 1], 0) = 0
      BY <1>3, MadeFacts
    <3> QED
      BY <2>1, <3>1
  <2>3. Reached(setup, layouts, 0, 0, 0, 0, 0)
    <3>1. 0 \in 0 .. Fit(setup, layouts) /\ 0 = Fit(setup, layouts) * 0 + 0
      BY <2>2
    <3> QED
      BY <2>2, <3>1 DEF Reached
  <2>4. 0 \in 0 .. Fit(setup, layouts)
    BY <2>2
  <2> QED
    BY <2>1, <2>3, <2>4 DEF At
<1>6. TypesInv
  <2>1. <<>> \in Seq(Uses(setup))
    OBVIOUS
  <2> QED
    BY <1>3, <1>4, <2>1 DEF TypesInv
<1>7. RanksInv
  <2>1. Len(<<>>) = 0 /\ 1 .. 0 = {}
    OBVIOUS
  <2>2. ASSUME NEW r \in DPRanks
        PROVE  epoch[r] = 0 /\ batchCursor[r] = 0 /\ stepCursor[r] = 0 /\ used[r] = <<>> /\ Len(used[r]) = 0
    BY <1>4, <2>1
  <2> QED
    BY <1>5, <2>1, <2>2 DEF RanksInv
<1>8. SavedInv
  <2>1. ASSUME NEW r \in DPRanks
        PROVE  saved.epoch[r] = 0 /\ saved.batch[r] = 0 /\ saved.group[r] = 0 /\ saved.step = 0
               /\ Len(used[r]) = 0
    BY <1>4
  <2>2. saved.epoch \in [DPRanks -> Nat] /\ saved.batch \in [DPRanks -> Nat]
        /\ saved.group \in [DPRanks -> Nat] /\ saved.step = 0
    BY <1>4
  <2> QED
    BY <1>5, <2>1, <2>2 DEF SavedInv
<1> QED
  BY <1>6, <1>7, <1>8 DEF IndexInv

\* What a step may do.
LEMMA IndexStep ==
  ASSUME IndexInv, [Next]_vars
  PROVE  /\ IndexInv'
         /\ launch' = launch => \A r \in DPRanks : epoch'[r] > epoch[r] => Exhausted(r)
<1>0. \A r \in DPRanks : epoch[r] \in Nat
  BY DEF IndexInv, TypesInv
<1>1. ASSUME NEW r \in DPRanks, TakeBatches(r)
      PROVE  IndexInv' /\ \A q \in DPRanks : epoch'[q] > epoch[q] => Exhausted(q)
  BY <1>1, TakeBatchesKeeps
<1>2. ASSUME NEW r \in DPRanks, StepDoesNotFit(r)
      PROVE  IndexInv' /\ \A q \in DPRanks : epoch'[q] > epoch[q] => Exhausted(q)
  BY <1>0, <1>2, StepDoesNotFitKeeps
<1>3. ASSUME NEW r \in DPRanks, TakeTrajectory(r)
      PROVE  IndexInv' /\ \A q \in DPRanks : epoch'[q] > epoch[q] => Exhausted(q)
  BY <1>3, TakeTrajectoryKeeps
<1>4. CASE Save
  BY <1>0, <1>4, SaveKeeps
<1>5. CASE Restart
  BY <1>5, RestartKeeps
<1>6. CASE UNCHANGED vars
  BY <1>0, <1>6 DEF vars, cursors, IndexInv, TypesInv, RanksInv, SavedInv, DPRanks
<1> QED
  BY <1>1, <1>2, <1>3, <1>4, <1>5, <1>6 DEF Next

\* The invariant: a rank's cursors are what the number of its steps makes them, in
\* the layouts of the epochs as they are rebuilt, and so are the cursors saved.
THEOREM IndexAlways == Spec => []IndexInv
<1>1. Init => IndexInv
  BY IndexInit
<1>2. IndexInv /\ [Next]_vars => IndexInv'
  BY IndexStep
<1> QED
  BY <1>1, <1>2, PTL DEF Spec

\* The steps an epoch holds, as the properties and as the invariant count them.
LEMMA EpochZero ==
  ASSUME IndexInv
  PROVE  StepsOf(0) = Fit(setup, layouts)
BY DEF StepsOf, Fit, Layout

\* A step that a rank has taken, and what it used.
LEMMA UsedFacts ==
  ASSUME IndexInv, NEW r \in DPRanks, NEW k \in DOMAIN used[r]
  PROVE  \E e \in 0 .. Len(layouts) - 1 : \E n \in 0 .. Fit(setup, layouts) - 1 :
           /\ k = Fit(setup, layouts) * e + n + 1
           /\ used[r][k] = StepTaken(setup, layouts, r, e, n)
<1>1. used[r] \in Seq(Uses(setup))
  BY DEF IndexInv, TypesInv
<1>2. k \in 1 .. Len(used[r])
  BY <1>1
<1> QED
  BY <1>2 DEF IndexInv, RanksInv, Taken

\* The microbatches a rank uses in step k are the ones that k alone determines: no
\* restart and no end of an epoch skips, repeats or reorders any.
THEOREM StepDeterminesBatchesAlways == Spec => []StepDeterminesBatches
<1>1. ASSUME IndexInv PROVE StepDeterminesBatches
  <2> SUFFICES ASSUME NEW r \in DPRanks, NEW k \in DOMAIN used[r]
               PROVE  /\ used[r][k].epoch = EpochOf(k)
                      /\ used[r][k].batches =
                           [n \in DOMAIN GlobalStep(k) |->
                              [i \in 1 .. setup.batchSize |->
                                 GlobalStep(k)[n][r * setup.batchSize + i]]]
    BY DEF StepDeterminesBatches
  <2> DEFINE S == Fit(setup, layouts)
  <2>1. Made(setup, layouts) /\ Len(layouts) \in Nat /\ S \in Nat
    BY <1>1, Position
  <2>2. PICK e \in 0 .. Len(layouts) - 1 : \E n \in 0 .. S - 1 :
          k = S * e + n + 1 /\ used[r][k] = StepTaken(setup, layouts, r, e, n)
    BY <1>1, UsedFacts
  <2>3. PICK n \in 0 .. S - 1 :
          k = S * e + n + 1 /\ used[r][k] = StepTaken(setup, layouts, r, e, n)
    BY <2>2
  <2>4. e \in Nat
    BY <2>1
  <2>5. (k - 1) \div S = e /\ (k - 1) % S = n
    <3> HIDE DEF S
    <3> QED
      BY <2>1, <2>3, <2>4, WhereStep, ZenonT(30)
  <2>6. EpochOf(k) = e /\ (k - 1) % StepsOf(0) = n
    BY <1>1, <2>5, EpochZero DEF EpochOf
  <2> DEFINE L == layouts[e + 1]
             F == FirstOf(setup, L, n)
             C == CountOf(setup, L, n)
             G == SubSeq(L.batches, F + 1, F + C)
             t == StepTaken(setup, layouts, r, e, n)
             z == setup.batchSize
  <2>7. GlobalStep(k) = G
    <3>1. Layout(e) = L
      BY DEF Layout
    <3> HIDE DEF L
    <3> QED
      BY <2>6, <3>1 DEF GlobalStep, FirstOf, CountOf
  <2>8. r \in 0 .. setup.replicas - 1
    BY DEF DPRanks
  <2>9. /\ t.epoch = e /\ C \in Nat /\ DOMAIN t.batches = 1 .. C /\ t \in Uses(setup)
        /\ \A m \in 1 .. C :
             /\ F + m \in 1 .. Len(L.batches) /\ DOMAIN t.batches[m] = 1 .. z
             /\ Len(t.batches[m]) = z
             /\ \A i \in 1 .. z : t.batches[m][i] = L.batches[F + m][r * z + i]
    <3>1. StepShape(setup, r, layouts[e + 1], e, n, StepTaken(setup, layouts, r, e, n))
      BY <2>1, <2>8, StepFacts
    <3>2. StepShape(setup, r, L, e, n, t)
      BY <3>1
    <3> HIDE DEF L, t
    <3> QED
      BY <3>2 DEF StepShape
  <2>10. /\ F \in Nat /\ L.batches \in Seq(Seq(Eligible(setup))) /\ setup.batchSize \in Nat
    <3>1. n \in 0 .. S
      BY <2>1
    <3> QED
      BY <2>1, <3>1, MadeFacts, SetupFacts
  <2> HIDE DEF L, F, C, t, z
  <2>11. /\ DOMAIN G = 1 .. C
         /\ \A m \in 1 .. C : G[m] = L.batches[F + m]
    <3> DEFINE X == Seq(Eligible(setup))
               B == L.batches
    <3> HIDE DEF X
    <3>1. F + 1 \in Int /\ F + C \in Int /\ (F + C) - (F + 1) + 1 = C
      BY <2>9, <2>10
    <3>2. B \in Seq(X)
      BY <2>10 DEF X
    <3>3. \A i \in (F + 1) .. (F + C) : B[i] \in X
      <4>1. ASSUME NEW i \in (F + 1) .. (F + C) PROVE i \in 1 .. Len(B)
        <5>1. i - F \in 1 .. C /\ F + (i - F) = i
          BY <2>9, <2>10
        <5>2. F + (i - F) \in 1 .. Len(L.batches)
          BY <2>9, <5>1
        <5> QED
          BY <5>1, <5>2
      <4> QED
        BY <3>2, <4>1
    <3> HIDE DEF B
    <3>4. /\ SubSeq(B, F + 1, F + C) \in Seq(X)
          /\ Len(SubSeq(B, F + 1, F + C)) = IF F + 1 <= F + C THEN (F + C) - (F + 1) + 1 ELSE 0
          /\ \A i \in 1 .. (F + C) - (F + 1) + 1 : SubSeq(B, F + 1, F + C)[i] = B[(F + 1) + i - 1]
      BY <3>1, <3>3, SubSeqProperties
    <3>5. Len(SubSeq(B, F + 1, F + C)) = C
      BY <2>9, <2>10, <3>1, <3>4
    <3>6. \A m \in 1 .. C : (F + 1) + m - 1 = F + m
      BY <2>9, <2>10
    <3>7. \A m \in 1 .. C : SubSeq(B, F + 1, F + C)[m] = B[F + m]
      BY <3>1, <3>4, <3>6
    <3>8. DOMAIN SubSeq(B, F + 1, F + C) = 1 .. C
      BY <3>4, <3>5
    <3> QED
      BY <3>7, <3>8 DEF B
  <2> HIDE DEF G
  <2>12. t.batches = [m \in 1 .. C |-> [i \in 1 .. z |-> G[m][r * z + i]]]
    <3> DEFINE b == t.batches
    <3>1. b \in Seq(Seq(Eligible(setup)))
      BY <2>9 DEF Uses
    <3>2. DOMAIN b = 1 .. C
      BY <2>9
    <3> HIDE DEF b
    <3>3. ASSUME NEW m \in 1 .. C PROVE b[m] = [i \in 1 .. z |-> G[m][r * z + i]]
      <4>1. b[m] \in Seq(Eligible(setup))
        <5> DEFINE X == Seq(Eligible(setup))
        <5> HIDE DEF X
        <5>1. b \in Seq(X) /\ m \in DOMAIN b
          BY <3>1, <3>2 DEF X
        <5> QED
          BY <5>1 DEF X
      <4>2. DOMAIN b[m] = 1 .. z /\ \A i \in 1 .. z : b[m][i] = G[m][r * z + i]
        BY <2>9, <2>11 DEF b
      <4>3. b[m] = [i \in DOMAIN b[m] |-> b[m][i]]
        BY <4>1
      <4> QED
        BY <4>2, <4>3
    <3>4. b = [m \in DOMAIN b |-> b[m]]
      BY <3>1
    <3>5. b = [m \in 1 .. C |-> [i \in 1 .. z |-> G[m][r * z + i]]]
      BY <3>2, <3>3, <3>4
    <3> QED
      BY <3>5 DEF b
  <2>13. used[r][k] = t
    BY <2>3 DEF t
  <2> QED
    BY <2>6, <2>7, <2>9, <2>11, <2>12, <2>13 DEF z
<1> QED
  BY <1>1, IndexAlways, PTL

\* The sample that a rank used at a place.
UsedAt(r, k, a, i, e, n) ==
  /\ e \in 0 .. Len(layouts) - 1 /\ n \in 0 .. Fit(setup, layouts) - 1
  /\ k = Fit(setup, layouts) * e + n + 1
  /\ used[r][k].epoch = e
  /\ a \in 1 .. CountOf(setup, layouts[e + 1], n)
  /\ FirstOf(setup, layouts[e + 1], n) + a \in 1 .. Len(layouts[e + 1].batches)
  /\ Len(used[r][k].batches) = CountOf(setup, layouts[e + 1], n)
  /\ Len(used[r][k].batches[a]) = setup.batchSize
  /\ r * setup.batchSize + i \in 1 .. Width(setup)
  /\ used[r][k].batches[a][i]
       = layouts[e + 1].batches[FirstOf(setup, layouts[e + 1], n) + a][r * setup.batchSize + i]

\* Every sample a rank has used is at the place of the layout that its step, its
\* microbatch and its row say.
LEMMA UsedSample ==
  ASSUME IndexInv, NEW r \in DPRanks, NEW k \in DOMAIN used[r],
         NEW a \in DOMAIN used[r][k].batches, NEW i \in 1 .. setup.batchSize
  PROVE  \E e, n : UsedAt(r, k, a, i, e, n)
<1> DEFINE S == Fit(setup, layouts)
<1>1. Made(setup, layouts)
  BY Position
<1>2. PICK e \in 0 .. Len(layouts) - 1 : \E n \in 0 .. S - 1 :
        k = S * e + n + 1 /\ used[r][k] = StepTaken(setup, layouts, r, e, n)
  BY UsedFacts
<1>3. PICK n \in 0 .. S - 1 :
        k = S * e + n + 1 /\ used[r][k] = StepTaken(setup, layouts, r, e, n)
  BY <1>2
<1>4. r \in 0 .. setup.replicas - 1
  BY DEF DPRanks
<1>5. StepShape(setup, r, layouts[e + 1], e, n, used[r][k])
  BY <1>1, <1>3, <1>4, StepFacts
<1> DEFINE L == layouts[e + 1]
           t == used[r][k]
<1>6. /\ t.epoch = e /\ a \in 1 .. CountOf(setup, L, n)
      /\ FirstOf(setup, L, n) + a \in 1 .. Len(L.batches)
      /\ Len(t.batches) = CountOf(setup, L, n) /\ Len(t.batches[a]) = setup.batchSize
      /\ r * setup.batchSize + i \in 1 .. Width(setup)
      /\ t.batches[a][i] = L.batches[FirstOf(setup, L, n) + a][r * setup.batchSize + i]
  <2>1. StepShape(setup, r, L, e, n, t) /\ a \in DOMAIN t.batches
    BY <1>5
  <2> HIDE DEF L, t
  <2> QED
    BY <2>1 DEF StepShape
<1> QED
  BY <1>3, <1>6 DEF UsedAt

\* A sample of a layout is at one place of it.
LEMMA OnePlace ==
  ASSUME NEW s \in Setups, NEW L, SoundLayout(s, L),
         NEW a \in 1 .. Len(L.batches), NEW b \in 1 .. Len(L.batches),
         NEW i \in 1 .. Width(s), NEW j \in 1 .. Width(s)
  PROVE  /\ L.batches[a][i] = L.batches[b][j] => a = b /\ i = j
         /\ Key(s, L.batches[a][i]) = Key(s, L.batches[a][j])
<1> DEFINE B == L.batches
<1>1. SoundBatches(s, Width(s), Eligible(s), B)
  BY DEF SoundLayout
<1> HIDE DEF B
<1>2. a \in DOMAIN B /\ b \in DOMAIN B
  <2> DEFINE X == Seq(Eligible(s))
  <2> HIDE DEF X
  <2>1. B \in Seq(X)
    BY <1>1 DEF SoundBatches, X
  <2>2. a \in 1 .. Len(B) /\ b \in 1 .. Len(B)
    BY DEF B
  <2> QED
    BY <2>1, <2>2
<1>3. (B[a][i] = B[b][j] => a = b /\ i = j) /\ Key(s, B[a][i]) = Key(s, B[a][j])
  BY <1>1, <1>2 DEF SoundBatches
<1> QED
  BY <1>3 DEF B

\* The rows of two ranks are apart.
LEMMA RowsApart ==
  ASSUME NEW z \in Nat \ {0}, NEW r \in Nat, NEW q \in Nat, NEW i \in 1 .. z, NEW j \in 1 .. z,
         r * z + i = q * z + j
  PROVE  r = q /\ i = j
<1> DEFINE k == r * z + i
<1>1. z * r = r * z /\ z * q = q * z /\ r * z \in Nat /\ q * z \in Nat
  OBVIOUS
<1> DEFINE x == i - 1
           y == j - 1
<1>2. k = z * r + x + 1
  BY <1>1
<1>2a. k = z * q + y + 1
  BY <1>1
<1>3. x \in 0 .. z - 1 /\ y \in 0 .. z - 1 /\ z \in Nat /\ i = x + 1 /\ j = y + 1
  OBVIOUS
<1> HIDE DEF k, x, y
<1>4. (k - 1) \div z = r /\ (k - 1) % z = x
  BY <1>2, <1>3, WhereStep
<1>5. (k - 1) \div z = q /\ (k - 1) % z = y
  BY <1>2a, <1>3, WhereStep
<1> QED
  BY <1>3, <1>4, <1>5

\* No sample is used twice in an epoch, by one rank or by two, across restarts.
THEOREM OncePerEpochAlways == Spec => []OncePerEpoch
<1>1. ASSUME IndexInv PROVE OncePerEpoch
  <2> SUFFICES ASSUME NEW r \in DPRanks, NEW q \in DPRanks, NEW p \in Places(r), NEW o \in Places(q),
                      SampleAt(r, p) = SampleAt(q, o),
                      used[r][p[1]].epoch = used[q][o[1]].epoch
               PROVE  r = q /\ p = o
    BY DEF OncePerEpoch
  <2> DEFINE S == Fit(setup, layouts)
             z == setup.batchSize
  <2>1. Made(setup, layouts) /\ setup \in Setups /\ Len(layouts) \in Nat /\ S \in Nat
    BY <1>1, Position
  <2>2. ASSUME NEW x \in DPRanks, NEW w \in Places(x)
        PROVE  /\ w = <<w[1], w[2], w[3]>> /\ w[3] \in 1 .. z
               /\ \E e, n : UsedAt(x, w[1], w[2], w[3], e, n)
    <3>1. /\ w = <<w[1], w[2], w[3]>> /\ w[1] \in 1 .. MaxStep /\ w[2] \in 1 .. Len(setup.samples)
          /\ w[3] \in 1 .. z /\ w[1] <= Len(used[x]) /\ w[2] <= Len(used[x][w[1]].batches)
      BY DEF Places
    <3>2. w[1] \in Nat /\ w[1] >= 1 /\ w[2] \in Nat /\ w[2] >= 1
      <4>1. Len(setup.samples) \in Nat
        BY <2>1, SetupFacts
      <4> QED
        BY <3>1, <4>1, BoundAssumption
    <3>3. used[x] \in Seq(Uses(setup)) /\ Len(used[x]) \in Nat
      BY <1>1, Position DEF IndexInv, TypesInv
    <3> DEFINE X == Uses(setup)
               Y == Seq(Eligible(setup))
    <3>4. w[1] \in DOMAIN used[x] /\ used[x][w[1]] \in X
      <4> HIDE DEF X
      <4>1. used[x] \in Seq(X)
        BY <3>3 DEF X
      <4> QED
        BY <3>1, <3>2, <4>1
    <3>5. used[x][w[1]].batches \in Seq(Y)
      BY <3>4 DEF Uses
    <3>6. w[2] \in DOMAIN used[x][w[1]].batches
      <4> HIDE DEF Y
      <4> QED
        BY <3>1, <3>2, <3>5
    <3> HIDE DEF X, Y
    <3>7. \E e, n : UsedAt(x, w[1], w[2], w[3], e, n)
      BY <1>1, <3>1, <3>4, <3>6, UsedSample
    <3> QED
      BY <3>1, <3>7
  <2>3. PICK e, n : UsedAt(r, p[1], p[2], p[3], e, n)
    BY <2>2
  <2>4. PICK f, m : UsedAt(q, o[1], o[2], o[3], f, m)
    BY <2>2
  <2>5. f = e
    BY <2>3, <2>4 DEF UsedAt
  <2>6. p[3] \in 1 .. z /\ o[3] \in 1 .. z
    BY <2>2
  <2> DEFINE L == layouts[e + 1]
             a == FirstOf(setup, L, n) + p[2]
             b == FirstOf(setup, L, m) + o[2]
             i == r * z + p[3]
             j == q * z + o[3]
  <2>7. /\ a \in 1 .. Len(L.batches) /\ b \in 1 .. Len(L.batches)
        /\ i \in 1 .. Width(setup) /\ j \in 1 .. Width(setup)
        /\ L.batches[a][i] = L.batches[b][j]
        /\ e \in 0 .. Len(layouts) - 1 /\ n \in 0 .. S - 1 /\ m \in 0 .. S - 1
        /\ p[1] = S * e + n + 1 /\ o[1] = S * e + m + 1
        /\ p[2] \in 1 .. CountOf(setup, L, n) /\ o[2] \in 1 .. CountOf(setup, L, m)
    BY <2>3, <2>4, <2>5 DEF UsedAt, SampleAt
  <2>8. a = b /\ i = j
    <3>1. /\ a \in 1 .. Len(L.batches) /\ b \in 1 .. Len(L.batches)
          /\ i \in 1 .. Width(setup) /\ j \in 1 .. Width(setup)
      BY <2>7
    <3>2. SoundLayout(setup, L)
      BY <2>1, <2>7, MadeFacts
    <3>3. L.batches[a][i] = L.batches[b][j]
      BY <2>7
    <3> HIDE DEF a, b, i, j, L
    <3> QED
      BY <2>1, <3>1, <3>2, <3>3, OnePlace
  <2>9. n = m /\ p[2] = o[2]
    <3> DEFINE u == p[2]
               v == o[2]
    <3>1. Made(setup, layouts) /\ e \in 0 .. Len(layouts) - 1
      BY <2>1, <2>7
    <3>2. n \in 0 .. Fit(setup, layouts) - 1 /\ m \in 0 .. Fit(setup, layouts) - 1
      BY <2>7
    <3>3. u \in 1 .. CountOf(setup, layouts[e + 1], n) /\ v \in 1 .. CountOf(setup, layouts[e + 1], m)
      BY <2>7
    <3>4. FirstOf(setup, layouts[e + 1], n) + u = FirstOf(setup, layouts[e + 1], m) + v
      BY <2>8
    <3> HIDE DEF u, v
    <3>5. n = m /\ u = v
      BY <3>1, <3>2, <3>3, <3>4, StepsApart, SMTT(30), ZenonT(60)
    <3> QED
      BY <3>5 DEF u, v
  <2>10. r = q /\ p[3] = o[3]
    <3>1. z \in Nat \ {0} /\ r \in Nat /\ q \in Nat
      BY <2>1, SetupFacts DEF DPRanks
    <3> DEFINE u == p[3]
               v == o[3]
    <3>2. u \in 1 .. z /\ v \in 1 .. z
      BY <2>6
    <3>3. r * z + u = q * z + v
      BY <2>8
    <3> HIDE DEF z, u, v
    <3>4. r = q /\ u = v
      BY <3>1, <3>2, <3>3, RowsApart, SMTT(30), ZenonT(60)
    <3> QED
      BY <3>4 DEF u, v
  <2>11. p[1] = o[1]
    BY <2>7, <2>9
  <2> QED
    BY <2>2, <2>9, <2>10, <2>11
<1> QED
  BY <1>1, IndexAlways, PTL

\* In every step the slices of all ranks are full and of one length.
THEOREM RanksShareShapesAlways == Spec => []RanksShareShapes
<1>1. ASSUME IndexInv PROVE RanksShareShapes
  <2> SUFFICES ASSUME NEW r \in DPRanks, NEW q \in DPRanks,
                      NEW k \in DOMAIN used[r] \cap DOMAIN used[q]
               PROVE  /\ Len(used[r][k].batches) = Len(used[q][k].batches)
                      /\ \A n \in DOMAIN used[r][k].batches :
                           LET mine == used[r][k].batches[n]
                               theirs == used[q][k].batches[n]
                           IN /\ Len(mine) = setup.batchSize /\ Len(theirs) = setup.batchSize
                              /\ \A i, j \in 1 .. setup.batchSize :
                                   setup.samples[mine[i]].length = setup.samples[theirs[j]].length
    BY DEF RanksShareShapes
  <2> DEFINE S == Fit(setup, layouts)
             z == setup.batchSize
  <2>1. Made(setup, layouts) /\ setup \in Setups /\ Len(layouts) \in Nat /\ S \in Nat
    BY <1>1, Position
  <2>2. PICK e \in 0 .. Len(layouts) - 1 : \E n \in 0 .. S - 1 :
          k = S * e + n + 1 /\ used[r][k] = StepTaken(setup, layouts, r, e, n)
    BY <1>1, UsedFacts
  <2>3. PICK n \in 0 .. S - 1 :
          k = S * e + n + 1 /\ used[r][k] = StepTaken(setup, layouts, r, e, n)
    BY <2>2
  <2>4. PICK f \in 0 .. Len(layouts) - 1 : \E m \in 0 .. S - 1 :
          k = S * f + m + 1 /\ used[q][k] = StepTaken(setup, layouts, q, f, m)
    BY <1>1, UsedFacts
  <2>5. PICK m \in 0 .. S - 1 :
          k = S * f + m + 1 /\ used[q][k] = StepTaken(setup, layouts, q, f, m)
    BY <2>4
  <2>6. f = e /\ m = n
    <3>1. e \in Nat /\ f \in Nat
      BY <2>1
    <3> HIDE DEF S
    <3>2. (k - 1) \div S = e /\ (k - 1) % S = n
      BY <2>1, <2>3, <3>1, WhereStep, ZenonT(30)
    <3>3. (k - 1) \div S = f /\ (k - 1) % S = m
      BY <2>1, <2>5, <3>1, WhereStep, ZenonT(30)
    <3> QED
      BY <3>2, <3>3
  <2> DEFINE L == layouts[e + 1]
             mine == used[r][k]
             theirs == used[q][k]
             C == CountOf(setup, L, n)
             F == FirstOf(setup, L, n)
  <2>7. r \in 0 .. setup.replicas - 1 /\ q \in 0 .. setup.replicas - 1
    BY DEF DPRanks
  <2>8. StepShape(setup, r, L, e, n, mine)
    BY <2>1, <2>3, <2>7, StepFacts
  <2>9. StepShape(setup, q, L, e, n, theirs)
    BY <2>1, <2>5, <2>6, <2>7, StepFacts
  <2> HIDE DEF L, mine, theirs
  <2>10. /\ Len(mine.batches) = Len(theirs.batches)
         /\ DOMAIN mine.batches = 1 .. C
         /\ \A a \in 1 .. C :
              /\ F + a \in 1 .. Len(L.batches)
              /\ Len(mine.batches[a]) = z /\ Len(theirs.batches[a]) = z
    BY <2>8, <2>9 DEF StepShape
  <2>11. ASSUME NEW a \in 1 .. C, NEW i \in 1 .. z, NEW j \in 1 .. z
         PROVE  setup.samples[mine.batches[a][i]].length = setup.samples[theirs.batches[a][j]].length
    <3> DEFINE u == mine.batches[a][i]
               v == theirs.batches[a][j]
               x == r * z + i
               y == q * z + j
    <3>1. x \in 1 .. Width(setup) /\ u = L.batches[F + a][x]
      BY <2>8, <2>11 DEF StepShape
    <3>2. y \in 1 .. Width(setup) /\ v = L.batches[F + a][y]
      BY <2>9, <2>11 DEF StepShape
    <3> HIDE DEF x, y, u, v, F
    <3>3. Key(setup, L.batches[F + a][x]) = Key(setup, L.batches[F + a][y])
      <4>1. SoundLayout(setup, L)
        BY <2>1, MadeFacts DEF L
      <4>2. F + a \in 1 .. Len(L.batches)
        BY <2>10 DEF F
      <4> QED
        BY <2>1, <3>1, <3>2, <4>1, <4>2, OnePlace
    <3>4. Key(setup, u) = Key(setup, v)
      BY <3>1, <3>2, <3>3
    <3>5. setup.samples[u].length = setup.samples[v].length
      <4>1. Key(setup, u)[1] = Key(setup, v)[1]
        BY <3>4
      <4>2. Key(setup, u)[1] = setup.samples[u].length /\ Key(setup, v)[1] = setup.samples[v].length
        BY DEF Key
      <4> QED
        BY <4>1, <4>2
    <3> QED
      BY <3>5 DEF u, v
  <2> QED
    BY <2>10, <2>11 DEF mine, theirs
<1> QED
  BY <1>1, IndexAlways, PTL

\* The source fails in its first step or never: no later epoch is too short, no index
\* leaves its layout, and no cursors it saved are refused.
THEOREM ServesForEverAlways == Spec => []ServesForEver
<1>1. ASSUME IndexInv PROVE ServesForEver
  <2> SUFFICES ASSUME NEW r \in DPRanks, error[r] # "none"
               PROVE  error[r] = "ValueError" /\ used[r] = <<>>
    BY DEF ServesForEver
  <2>1. error[r] \in {"none", "ValueError"} /\ used[r] \in Seq(Uses(setup)) /\ Len(used[r]) = 0
    BY <1>1 DEF IndexInv, TypesInv, RanksInv
  <2>2. used[r] = <<>>
    <3> DEFINE X == Uses(setup)
    <3> HIDE DEF X
    <3>1. used[r] \in Seq(X) /\ Len(used[r]) = 0
      BY <2>1 DEF X
    <3> QED
      BY <3>1
  <2> QED
    BY <2>1, <2>2
<1> QED
  BY <1>1, IndexAlways, PTL

\* A rank leaves an epoch only when less than a step of it is left, and with
\* trajectory steps when all that is eligible has been used.
THEOREM EpochIsUsedUpAlways == Spec => EpochIsUsedUp
<1> DEFINE UsedUp ==
      \A r \in DPRanks : epoch'[r] > epoch[r] /\ launch' = launch =>
        /\ Len(Layout(epoch[r]).batches) - batchCursor[r]
             < (IF setup.unit = "trajectory" THEN 1 ELSE setup.accum)
        /\ setup.unit = "trajectory" =>
             UNION {ToSet(Layout(epoch[r]).batches[n]) : n \in 1 .. batchCursor[r]} = Eligible(setup)
<1>1. ASSUME IndexInv, [Next]_vars PROVE [UsedUp]_vars
  <2> SUFFICES ASSUME NEW r \in DPRanks, epoch'[r] > epoch[r], launch' = launch
               PROVE  /\ Len(Layout(epoch[r]).batches) - batchCursor[r]
                           < (IF setup.unit = "trajectory" THEN 1 ELSE setup.accum)
                      /\ setup.unit = "trajectory" =>
                           UNION {ToSet(Layout(epoch[r]).batches[n]) : n \in 1 .. batchCursor[r]}
                             = Eligible(setup)
    OBVIOUS
  <2>1. Exhausted(r)
    BY <1>1, IndexStep
  <2> DEFINE L == Layout(epoch[r])
             B == L.batches
             b == batchCursor[r]
  <2>2. Made(setup, layouts) /\ setup \in Setups /\ epoch[r] \in 0 .. Len(layouts) - 1 /\ b \in Nat
    BY <1>1, Position
  <2>3. SoundLayout(setup, L) /\ B \in Seq(Seq(Eligible(setup))) /\ Len(B) \in Nat
    BY <2>2, MadeFacts DEF Layout
  <2>4. CASE setup.unit # "trajectory"
    BY <2>1, <2>4 DEF Exhausted
  <2>5. CASE setup.unit = "trajectory"
    <3>1. b = Len(B)
      BY <2>1, <2>5 DEF Exhausted
    <3>2. Len(B) - b < 1
      BY <2>3, <3>1
    <3> HIDE DEF L
    <3>3. /\ \A i \in Eligible(setup) : \E a \in DOMAIN B : B[a][1] = i
          /\ \A a \in DOMAIN B : Len(B[a]) = Width(setup)
      BY <2>3, <2>5 DEF SoundLayout, Whole, SoundBatches
    <3>4. Width(setup) \in Nat \ {0}
      BY <2>2, SetupFacts DEF Width
    <3> HIDE DEF B
    <3>5. DOMAIN B = 1 .. b
      BY <2>3, <3>1
    <3>6. ASSUME NEW a \in DOMAIN B
          PROVE  ToSet(B[a]) \subseteq Eligible(setup) /\ B[a][1] \in ToSet(B[a])
      <4> DEFINE E == Eligible(setup)
                 T == Seq(E)
      <4>1. B[a] \in T
        <5> HIDE DEF T
        <5>1. B \in Seq(T)
          BY <2>3 DEF T
        <5> QED
          BY <5>1
      <4> HIDE DEF E
      <4>2. Len(B[a]) = Width(setup)
        BY <3>3
      <4>3. 1 \in DOMAIN B[a] /\ \A i \in DOMAIN B[a] : B[a][i] \in E
        BY <3>4, <4>1, <4>2
      <4> QED
        BY <4>3 DEF ToSet, E
    <3>7. UNION {ToSet(B[n]) : n \in 1 .. b} = Eligible(setup)
      <4>1. \A n \in 1 .. b : ToSet(B[n]) \subseteq Eligible(setup) /\ B[n][1] \in ToSet(B[n])
        BY <3>5, <3>6
      <4>2. \A i \in Eligible(setup) : \E n \in 1 .. b : B[n][1] = i
        BY <3>3, <3>5
      <4>3. \A i \in Eligible(setup) : \E n \in 1 .. b : i \in ToSet(B[n])
        BY <4>1, <4>2
      <4> QED
        BY <4>1, <4>3
    <3> QED
      BY <2>5, <3>2, <3>7 DEF B, L
  <2> QED
    BY <2>4, <2>5
<1> QED
  BY <1>1, IndexAlways, PTL DEF Spec, EpochIsUsedUp
=============================================================================
