------------------------ MODULE GradientSync_proofs ------------------------
(***************************************************************************)
(* What GradientSync promises, for every set of instances that satisfies   *)
(* InstanceAssumption: meshes of any size on nodes of any size.            *)
(*                                                                         *)
(* The plan first: each of the four placements is a permutation of the     *)
(* world, so the loops of the builder find the ranks that differ from a    *)
(* rank along the axes of a group (Peers), and lists of a set in ascending *)
(* order agree (GroupsAgree, RingInOrder, PartitionsAlign).  Groups lie in *)
(* runs of ranks, and a node that ends inside a run cuts one of its groups *)
(* (NodeLocality).                                                         *)
(*                                                                         *)
(* Then the order of collectives.  SyncInv says that the lists of the      *)
(* ranks are aligned from their ends: what a rank still has to go through  *)
(* its partners have, equally far from the end of their lists.  A          *)
(* collective takes the heads of equally long lists, so they stay aligned, *)
(* and the ranks with the longest lists can always go on (NeverStuck).     *)
(*                                                                         *)
(* Last the values.  The last collective of a first-party list is the      *)
(* norm (NormCountsOnce).  How many collectives a rank has to go decides   *)
(* along which axes of the mesh it has yet to be reduced (Pend) and by     *)
(* what its gradient has been divided (Divisor), so what it holds of each  *)
(* contribution is known at each place of the list (Cell), and at its end  *)
(* that is the mean (GradientIsMean).                                      *)
(***************************************************************************)
EXTENDS GradientSync, FiniteSetTheorems, TLAPS

-----------------------------------------------------------------------------
(* Quotients.                                                              *)

\* A number is its quotient and its remainder.
LEMMA Division ==
  ASSUME NEW x \in Int, NEW S \in Nat \ {0}
  PROVE  x = S * (x \div S) + (x % S) /\ x % S \in 0 .. S - 1 /\ x \div S \in Int
<1>1. x \div S \in Int
  OBVIOUS
<1>2. x % S \in 0 .. S - 1
  OBVIOUS
<1>3. x = S * (x \div S) + (x % S)
  OBVIOUS
<1> QED
  BY <1>1, <1>2, <1>3

\* The only multiple of S between -S and S is zero.
LEMMA NoMultipleBetween ==
  ASSUME NEW S \in Nat \ {0}, NEW k \in Int, S * k < S, -S < S * k
  PROVE  k = 0
<1>1. ASSUME k >= 1 PROVE FALSE
  <2>1. S * k >= S * 1
    BY <1>1
  <2> QED
    BY <2>1
<1>2. ASSUME k <= -1 PROVE FALSE
  <2>1. S * k <= S * (-1)
    BY <1>2
  <2> QED
    BY <2>1
<1> QED
  BY <1>1, <1>2

\* Only one number below S is left over.
LEMMA RemainderUnique ==
  ASSUME NEW S \in Nat \ {0}, NEW q \in Int, NEW r \in 0 .. S - 1
  PROVE  (S * q + r) % S = r
<1> DEFINE x == S * q + r
           d == x \div S
           m == x % S
<1>1. x \in Int /\ x = S * q + r
  OBVIOUS
<1>2. x = S * d + m /\ m \in 0 .. S - 1 /\ d \in Int
  BY <1>1, Division
<1> HIDE DEF x, d, m
<1>3. S * (d - q) = r - m
  BY <1>1, <1>2
<1>4. d - q = 0
  BY <1>2, <1>3, NoMultipleBetween
<1>5. m = r
  BY <1>2, <1>3, <1>4
<1> QED
  BY <1>5 DEF m, x

-----------------------------------------------------------------------------
(* Numbers in ascending order.                                             *)

\* The numbers of S below x.
Below(S, x) == {y \in S : y < x}

\* A larger number has more below it.
LEMMA BelowGrows ==
  ASSUME NEW S \in SUBSET Int, IsFiniteSet(S), NEW x \in S, NEW z \in Int, x < z
  PROVE  Cardinality(Below(S, x)) < Cardinality(Below(S, z))
<1>1. Below(S, x) \union {x} \in SUBSET Below(S, z) /\ x \notin Below(S, x)
  <2>1. \A y \in S : y < x => y < z
    OBVIOUS
  <2>2. x \in Int /\ ~ (x < x)
    OBVIOUS
  <2>3. Below(S, x) \union {x} \subseteq Below(S, z)
    BY <2>1 DEF Below
  <2>4. x \notin Below(S, x)
    BY <2>2 DEF Below
  <2> QED
    BY <2>3, <2>4
<1>2. IsFiniteSet(Below(S, z)) /\ IsFiniteSet(Below(S, x))
  BY FS_Subset DEF Below
<1>3. Cardinality(Below(S, x) \union {x}) = Cardinality(Below(S, x)) + 1
  BY <1>1, <1>2, FS_AddElement
<1>4. Cardinality(Below(S, x) \union {x}) <= Cardinality(Below(S, z))
  BY <1>1, <1>2, FS_Subset
<1>5. Cardinality(Below(S, x)) \in Nat /\ Cardinality(Below(S, z)) \in Nat
  BY <1>2, FS_CardinalityType
<1> QED
  BY <1>3, <1>4, <1>5

\* Every place is taken by exactly one number.
LEMMA PlaceTaken ==
  ASSUME NEW S \in SUBSET Int, IsFiniteSet(S)
  PROVE  /\ Cardinality(S) \in Nat
         /\ \A x \in S : Cardinality(Below(S, x)) \in 0 .. Cardinality(S) - 1
         /\ \A x, z \in S : Cardinality(Below(S, x)) = Cardinality(Below(S, z)) => x = z
         /\ \A i \in 1 .. Cardinality(S) : \E x \in S : Cardinality(Below(S, x)) = i - 1
<1>0. Cardinality(S) \in Nat
  BY FS_CardinalityType
<1>1. ASSUME NEW x \in S PROVE Cardinality(Below(S, x)) \in 0 .. Cardinality(S) - 1
  <2>1. Below(S, x) \in SUBSET S /\ x \notin Below(S, x)
    BY DEF Below
  <2>2. Cardinality(Below(S, x)) <= Cardinality(S) /\ IsFiniteSet(Below(S, x))
        /\ Cardinality(Below(S, x)) # Cardinality(S)
    BY <2>1, FS_Subset
  <2>3. Cardinality(Below(S, x)) \in Nat
    BY <2>2, FS_CardinalityType
  <2> QED
    BY <1>0, <2>2, <2>3
<1>2. ASSUME NEW x \in S, NEW z \in S, Cardinality(Below(S, x)) = Cardinality(Below(S, z))
      PROVE  x = z
  <2>1. Cardinality(Below(S, x)) \in Int /\ Cardinality(Below(S, z)) \in Int
    BY <1>1
  <2>2. ~ (x < z) /\ ~ (z < x)
    BY <1>2, <2>1, BelowGrows
  <2> QED
    BY <2>2
<1> DEFINE n == Cardinality(S)
           f == [x \in S |-> Cardinality(Below(S, x))]
<1>3. f \in Injection(S, 0 .. n - 1)
  BY <1>1, <1>2 DEF Injection, IsInjective
<1>4. IsFiniteSet(0 .. n - 1) /\ Cardinality(0 .. n - 1) = n
  BY <1>0, FS_Interval
<1>5. f \in Surjection(S, 0 .. n - 1)
  BY <1>3, <1>4, FS_Injection
<1>6. ASSUME NEW i \in 1 .. n PROVE \E x \in S : Cardinality(Below(S, x)) = i - 1
  <2>1. i - 1 \in 0 .. n - 1
    BY <1>0
  <2> QED
    BY <1>5, <2>1 DEF Surjection
<1> QED
  BY <1>0, <1>1, <1>2, <1>6

\* What Ascending promises: each number of the set once, the i-th with i - 1 below it.
LEMMA AscendingList ==
  ASSUME NEW S \in SUBSET Int, IsFiniteSet(S)
  PROVE  /\ Cardinality(S) \in Nat
         /\ DOMAIN Ascending(S) = 1 .. Cardinality(S)
         /\ Len(Ascending(S)) = Cardinality(S)
         /\ Ascending(S) \in Seq(S)
         /\ \A i \in 1 .. Cardinality(S) :
              Ascending(S)[i] \in S /\ Cardinality(Below(S, Ascending(S)[i])) = i - 1
         /\ \A x \in S : Cardinality(Below(S, x)) + 1 \in 1 .. Cardinality(S)
                         /\ Ascending(S)[Cardinality(Below(S, x)) + 1] = x
<1> DEFINE n == Cardinality(S)
           s == Ascending(S)
<1>0. n \in Nat
  BY PlaceTaken
<1>1. s = [i \in 1 .. n |-> CHOOSE x \in S : Cardinality(Below(S, x)) = i - 1]
  BY DEF Ascending, Below
<1>2. ASSUME NEW i \in 1 .. n
      PROVE  s[i] \in S /\ Cardinality(Below(S, s[i])) = i - 1
  <2>1. \E x \in S : Cardinality(Below(S, x)) = i - 1
    BY PlaceTaken
  <2>2. s[i] = CHOOSE x \in S : Cardinality(Below(S, x)) = i - 1
    BY <1>1
  <2> QED
    BY <2>1, <2>2
<1>3. DOMAIN s = 1 .. n
  BY <1>1
<1>4. s = [i \in 1 .. n |-> s[i]]
  BY <1>1
<1> HIDE DEF s
<1>5. s \in Seq(S) /\ Len(s) = n
  BY <1>0, <1>2, <1>4
<1>6. \A x, z \in S : Cardinality(Below(S, x)) = Cardinality(Below(S, z)) => x = z
  BY PlaceTaken
<1>7. ASSUME NEW x \in S
      PROVE  Cardinality(Below(S, x)) + 1 \in 1 .. n /\ s[Cardinality(Below(S, x)) + 1] = x
  <2> DEFINE i == Cardinality(Below(S, x)) + 1
  <2>1. i \in 1 .. n /\ Cardinality(Below(S, x)) \in Int
    BY <1>0, PlaceTaken
  <2>2. s[i] \in S /\ Cardinality(Below(S, s[i])) = i - 1
    BY <1>2, <2>1
  <2>3. Cardinality(Below(S, s[i])) = Cardinality(Below(S, x))
    BY <2>1, <2>2
  <2>4. s[i] = x
    BY <1>6, <2>2, <2>3
  <2> QED
    BY <2>1, <2>4
<1> QED
  BY <1>0, <1>2, <1>3, <1>5, <1>7 DEF s

\* The list holds the numbers of the set.
LEMMA AscendingMembers ==
  ASSUME NEW S \in SUBSET Int, IsFiniteSet(S)
  PROVE  ToSet(Ascending(S)) = S
<1>1. ASSUME NEW x \in ToSet(Ascending(S)) PROVE x \in S
  BY AscendingList DEF ToSet
<1>2. ASSUME NEW x \in S PROVE x \in ToSet(Ascending(S))
  <2>1. Cardinality(Below(S, x)) + 1 \in DOMAIN Ascending(S)
        /\ Ascending(S)[Cardinality(Below(S, x)) + 1] = x
    BY AscendingList
  <2> QED
    BY <2>1 DEF ToSet
<1> QED
  BY <1>1, <1>2

-----------------------------------------------------------------------------
(* Coordinates.                                                            *)

\* A mesh has at least one rank on every axis.
IsMesh(m) ==
  /\ m.dp \in Nat \ {0} /\ m.pp \in Nat \ {0} /\ m.cp \in Nat \ {0}
  /\ m.bp \in Nat \ {0} /\ m.tp \in Nat \ {0} /\ m.ep \in Nat \ {0}
  /\ m.node \in Nat /\ m.policy \in {"auto", "inter_node_cp"}

\* The coordinates a mesh has room for.
Box(m) ==
  [dp : 0 .. m.dp - 1, pp : 0 .. m.pp - 1, local : 0 .. LocalSize(m) - 1,
   tp : 0 .. m.tp - 1, ep : 0 .. m.ep - 1]

\* A product of sizes is a size.
LEMMA ProductPositive ==
  ASSUME NEW a \in Nat \ {0}, NEW b \in Nat \ {0}
  PROVE  a * b \in Nat \ {0}
<1>1. a * b \in Nat
  OBVIOUS
<1>2. a * b >= 1 * b
  OBVIOUS
<1> QED
  BY <1>1, <1>2

\* Every size of a mesh is at least one.
LEMMA MeshSizes ==
  ASSUME NEW m, IsMesh(m)
  PROVE  /\ m.dp \in Nat \ {0} /\ m.pp \in Nat \ {0} /\ m.tp \in Nat \ {0} /\ m.ep \in Nat \ {0}
         /\ m.cp \in Nat \ {0} /\ m.bp \in Nat \ {0}
         /\ LocalSize(m) \in Nat \ {0} /\ PerLocal(m) \in Nat \ {0}
         /\ PerPipeline(m) \in Nat \ {0} /\ ModelSize(m) \in Nat \ {0}
         /\ WorldSize(m) \in Nat \ {0}
<1>1. /\ m.dp \in Nat \ {0} /\ m.pp \in Nat \ {0} /\ m.tp \in Nat \ {0} /\ m.ep \in Nat \ {0}
      /\ m.cp \in Nat \ {0} /\ m.bp \in Nat \ {0}
  BY DEF IsMesh
<1>2. LocalSize(m) \in Nat \ {0}
  BY <1>1 DEF LocalSize
<1>3. PerLocal(m) \in Nat \ {0}
  BY <1>1, ProductPositive DEF PerLocal
<1>4. PerPipeline(m) \in Nat \ {0}
  BY <1>2, <1>3, ProductPositive DEF PerPipeline
<1>5. ModelSize(m) \in Nat \ {0}
  BY <1>1, <1>4, ProductPositive DEF ModelSize
<1>6. WorldSize(m) \in Nat \ {0}
  BY <1>1, <1>5, ProductPositive DEF WorldSize
<1> QED
  BY <1>1, <1>2, <1>3, <1>4, <1>5, <1>6

\* A number of two digits, the lower one to the base S.
LEMMA TwoDigits ==
  ASSUME NEW B, NEW S, NEW a, NEW r,
         B \in Nat \ {0}, S \in Nat \ {0}, a \in 0 .. B - 1, r \in 0 .. S - 1
  PROVE  a * S + r \in 0 .. B * S - 1 /\ (a * S + r) \div S = a /\ (a * S + r) % S = r
<1> DEFINE x == a * S + r
<1>1. x \in Int /\ a \in Int /\ r \in Int /\ S * a = a * S
  OBVIOUS
<1>2. x % S = r
  BY <1>1, RemainderUnique
<1>3. x = S * (x \div S) + (x % S) /\ x \div S \in Int
  BY <1>1, Division
<1> DEFINE d == x \div S
<1> HIDE DEF d
<1>4. S * (d - a) = 0 /\ d \in Int
  <2>1. S * d = S * a
    BY <1>1, <1>2, <1>3 DEF d
  <2>2. S * (d - a) = S * d - S * a
    BY <1>3 DEF d
  <2>3. S * a \in Int /\ d \in Int
    BY <1>1, <1>3 DEF d
  <2> QED
    BY <2>1, <2>2, <2>3
<1>5. d = a
  <2>1. d - a = 0
    BY <1>4, <1>1, NoMultipleBetween
  <2> QED
    BY <1>1, <1>4, <2>1
<1>6. a * S <= (B - 1) * S
  OBVIOUS
<1>7. (B - 1) * S = B * S - S /\ B * S \in Int /\ a * S \in Int /\ a * S >= 0
  OBVIOUS
<1>8. x \in 0 .. B * S - 1
  BY <1>1, <1>6, <1>7
<1> QED
  BY <1>2, <1>5, <1>8 DEF d

\* The upper digit of a number of two digits.
LEMMA UpperDigit ==
  ASSUME NEW B, NEW S, NEW a, NEW r,
         B \in Nat \ {0}, S \in Nat \ {0}, a \in 0 .. B - 1, r \in 0 .. S - 1
  PROVE  (a * S + r) \div S = a
BY TwoDigits

\* And the lower one.
LEMMA LowerDigit ==
  ASSUME NEW B, NEW S, NEW a, NEW r,
         B \in Nat \ {0}, S \in Nat \ {0}, a \in 0 .. B - 1, r \in 0 .. S - 1
  PROVE  (a * S + r) % S = r
BY TwoDigits

\* A number below B * S is one of two digits.
LEMMA Digits ==
  ASSUME NEW B, NEW S, NEW x, B \in Nat \ {0}, S \in Nat \ {0}, x \in 0 .. B * S - 1
  PROVE  /\ x \div S \in 0 .. B - 1 /\ x % S \in 0 .. S - 1
         /\ x = (x \div S) * S + (x % S)
<1>1. x \in Int /\ B * S \in Int
  OBVIOUS
<1>2. x = S * (x \div S) + (x % S) /\ x % S \in 0 .. S - 1 /\ x \div S \in Int
  BY <1>1, Division
<1> DEFINE d == x \div S
           m == x % S
<1> HIDE DEF d, m
<1>3. d \in Int /\ m \in 0 .. S - 1 /\ x = S * d + m
  BY <1>2 DEF d, m
<1>4. ~ (d <= -1)
  <2> SUFFICES ASSUME d <= -1 PROVE FALSE
    OBVIOUS
  <2>1. S * d <= S * (-1)
    BY <1>3
  <2> QED
    BY <1>1, <1>3, <2>1
<1>5. ~ (d >= B)
  <2> SUFFICES ASSUME d >= B PROVE FALSE
    OBVIOUS
  <2>1. S * d >= S * B
    BY <1>3
  <2>2. S * B = B * S
    OBVIOUS
  <2> QED
    BY <1>1, <1>3, <2>1, <2>2
<1>6. S * d = d * S
  BY <1>3
<1> QED
  BY <1>3, <1>4, <1>5, <1>6 DEF d, m

\* Each logical rank has its own coordinates ...
LEMMA RankHasCoords ==
  ASSUME NEW m, IsMesh(m), NEW l \in World(m)
  PROVE  Coords(m, l) \in Box(m) /\ RankFromCoords(m, Coords(m, l)) = l
<1> DEFINE i == l % ModelSize(m)
           j == i % PerPipeline(m)
           k == j % PerLocal(m)
<1>0. /\ m.dp \in Nat \ {0} /\ m.pp \in Nat \ {0} /\ m.tp \in Nat \ {0} /\ m.ep \in Nat \ {0}
      /\ LocalSize(m) \in Nat \ {0} /\ PerLocal(m) \in Nat \ {0}
      /\ PerPipeline(m) \in Nat \ {0} /\ ModelSize(m) \in Nat \ {0}
  BY MeshSizes
<1>1. /\ l \div ModelSize(m) \in 0 .. m.dp - 1 /\ i \in 0 .. ModelSize(m) - 1
      /\ l = (l \div ModelSize(m)) * ModelSize(m) + i
  BY <1>0, Digits DEF World, WorldSize
<1> HIDE DEF i
<1>2. /\ i \div PerPipeline(m) \in 0 .. m.pp - 1 /\ j \in 0 .. PerPipeline(m) - 1
      /\ i = (i \div PerPipeline(m)) * PerPipeline(m) + j
  BY <1>0, <1>1, Digits DEF ModelSize
<1> HIDE DEF j
<1>3. /\ j \div PerLocal(m) \in 0 .. LocalSize(m) - 1 /\ k \in 0 .. PerLocal(m) - 1
      /\ j = (j \div PerLocal(m)) * PerLocal(m) + k
  BY <1>0, <1>2, Digits DEF PerPipeline
<1> HIDE DEF k
<1>4. /\ k \div m.ep \in 0 .. m.tp - 1 /\ k % m.ep \in 0 .. m.ep - 1
      /\ k = (k \div m.ep) * m.ep + (k % m.ep)
  BY <1>0, <1>3, Digits DEF PerLocal
<1>5. Coords(m, l) =
        [dp |-> l \div ModelSize(m), pp |-> i \div PerPipeline(m),
         local |-> j \div PerLocal(m), tp |-> k \div m.ep, ep |-> k % m.ep]
  BY DEF Coords, i, j, k
<1>6. Coords(m, l) \in Box(m)
  BY <1>1, <1>2, <1>3, <1>4, <1>5 DEF Box
<1>7. RankFromCoords(m, Coords(m, l)) =
        (l \div ModelSize(m)) * ModelSize(m) + (i \div PerPipeline(m)) * PerPipeline(m)
          + (j \div PerLocal(m)) * PerLocal(m) + (k \div m.ep) * m.ep + (k % m.ep)
  BY <1>5 DEF RankFromCoords
<1> DEFINE a == (l \div ModelSize(m)) * ModelSize(m)
           b == (i \div PerPipeline(m)) * PerPipeline(m)
           c == (j \div PerLocal(m)) * PerLocal(m)
           d == (k \div m.ep) * m.ep
           e == k % m.ep
<1>8. a \in Int /\ b \in Int /\ c \in Int /\ d \in Int /\ e \in Int
  <2>1. e \in Int
    BY <1>4
  <2>2. d \in Int
    BY <1>0, <1>4
  <2>3. c \in Int
    BY <1>0, <1>3
  <2>4. b \in Int
    BY <1>0, <1>2
  <2>5. a \in Int
    BY <1>0, <1>1
  <2> QED
    BY <2>1, <2>2, <2>3, <2>4, <2>5
<1> HIDE DEF a, b, c, d, e
<1>9. l = a + i /\ i = b + j /\ j = c + k /\ k = d + e
  BY <1>1, <1>2, <1>3, <1>4 DEF a, b, c, d, e
<1>10. a + b + c + d + e = l
  BY <1>8, <1>9
<1> QED
  BY <1>6, <1>7, <1>10 DEF a, b, c, d, e

\* ... and all coordinates are a rank's.
LEMMA CoordsHaveRank ==
  ASSUME NEW m, IsMesh(m), NEW c \in Box(m)
  PROVE  RankFromCoords(m, c) \in World(m) /\ Coords(m, RankFromCoords(m, c)) = c
<1> DEFINE k == c.tp * m.ep + c.ep
           j == c.local * PerLocal(m) + k
           i == c.pp * PerPipeline(m) + j
           l == c.dp * ModelSize(m) + i
<1>0. /\ m.dp \in Nat \ {0} /\ m.pp \in Nat \ {0} /\ m.tp \in Nat \ {0} /\ m.ep \in Nat \ {0}
      /\ LocalSize(m) \in Nat \ {0} /\ PerLocal(m) \in Nat \ {0}
      /\ PerPipeline(m) \in Nat \ {0} /\ ModelSize(m) \in Nat \ {0}
  BY MeshSizes
<1>1. /\ c.dp \in 0 .. m.dp - 1 /\ c.pp \in 0 .. m.pp - 1 /\ c.local \in 0 .. LocalSize(m) - 1
      /\ c.tp \in 0 .. m.tp - 1 /\ c.ep \in 0 .. m.ep - 1
  BY DEF Box
<1>2. k \in 0 .. PerLocal(m) - 1 /\ k \div m.ep = c.tp /\ k % m.ep = c.ep
  <2>1. /\ m.tp \in Nat \ {0} /\ m.ep \in Nat \ {0}
        /\ c.tp \in 0 .. m.tp - 1 /\ c.ep \in 0 .. m.ep - 1
    BY <1>0, <1>1
  <2>2. c.tp * m.ep + c.ep \in 0 .. m.tp * m.ep - 1
    BY <2>1, TwoDigits
  <2>3. (c.tp * m.ep + c.ep) \div m.ep = c.tp
    BY <2>1, UpperDigit
  <2>4. (c.tp * m.ep + c.ep) % m.ep = c.ep
    BY <2>1, LowerDigit
  <2> QED
    BY <2>2, <2>3, <2>4 DEF PerLocal
<1> HIDE DEF k
<1>3. j \in 0 .. PerPipeline(m) - 1 /\ j \div PerLocal(m) = c.local /\ j % PerLocal(m) = k
  <2>1. /\ LocalSize(m) \in Nat \ {0} /\ PerLocal(m) \in Nat \ {0}
        /\ c.local \in 0 .. LocalSize(m) - 1 /\ k \in 0 .. PerLocal(m) - 1
    BY <1>0, <1>1, <1>2
  <2>2. c.local * PerLocal(m) + k \in 0 .. LocalSize(m) * PerLocal(m) - 1
    BY <2>1, TwoDigits
  <2>3. (c.local * PerLocal(m) + k) \div PerLocal(m) = c.local
    BY <2>1, UpperDigit
  <2>4. (c.local * PerLocal(m) + k) % PerLocal(m) = k
    BY <2>1, LowerDigit
  <2> QED
    BY <2>2, <2>3, <2>4 DEF PerPipeline
<1> HIDE DEF j
<1>4. i \in 0 .. ModelSize(m) - 1 /\ i \div PerPipeline(m) = c.pp /\ i % PerPipeline(m) = j
  <2>1. /\ m.pp \in Nat \ {0} /\ PerPipeline(m) \in Nat \ {0}
        /\ c.pp \in 0 .. m.pp - 1 /\ j \in 0 .. PerPipeline(m) - 1
    BY <1>0, <1>1, <1>3
  <2>2. c.pp * PerPipeline(m) + j \in 0 .. m.pp * PerPipeline(m) - 1
    BY <2>1, TwoDigits
  <2>3. (c.pp * PerPipeline(m) + j) \div PerPipeline(m) = c.pp
    BY <2>1, UpperDigit
  <2>4. (c.pp * PerPipeline(m) + j) % PerPipeline(m) = j
    BY <2>1, LowerDigit
  <2> QED
    BY <2>2, <2>3, <2>4 DEF ModelSize
<1> HIDE DEF i
<1>5. l \in World(m) /\ l \div ModelSize(m) = c.dp /\ l % ModelSize(m) = i
  <2>1. /\ m.dp \in Nat \ {0} /\ ModelSize(m) \in Nat \ {0}
        /\ c.dp \in 0 .. m.dp - 1 /\ i \in 0 .. ModelSize(m) - 1
    BY <1>0, <1>1, <1>4
  <2>2. c.dp * ModelSize(m) + i \in 0 .. m.dp * ModelSize(m) - 1
    BY <2>1, TwoDigits
  <2>3. (c.dp * ModelSize(m) + i) \div ModelSize(m) = c.dp
    BY <2>1, UpperDigit
  <2>4. (c.dp * ModelSize(m) + i) % ModelSize(m) = i
    BY <2>1, LowerDigit
  <2> QED
    BY <2>2, <2>3, <2>4 DEF WorldSize, World
<1> HIDE DEF l
<1>6. RankFromCoords(m, c) = l
  <2>1. c.tp * m.ep \in Int /\ c.ep \in Int /\ c.local * PerLocal(m) \in Int
        /\ c.pp * PerPipeline(m) \in Int /\ c.dp * ModelSize(m) \in Int
    BY <1>0, <1>1
  <2> DEFINE v == c.tp * m.ep
             w == c.local * PerLocal(m)
             x == c.pp * PerPipeline(m)
             y == c.dp * ModelSize(m)
  <2>2. RankFromCoords(m, c) = y + x + w + v + c.ep
    BY DEF RankFromCoords
  <2>3. l = y + i /\ i = x + j /\ j = w + k /\ k = v + c.ep
    BY DEF l, i, j, k
  <2> HIDE DEF v, w, x, y
  <2>4. v \in Int /\ w \in Int /\ x \in Int /\ y \in Int /\ c.ep \in Int
    BY <2>1 DEF v, w, x, y
  <2> QED
    BY <2>2, <2>3, <2>4
<1>7. Coords(m, l) = [dp |-> c.dp, pp |-> c.pp, local |-> c.local, tp |-> c.tp, ep |-> c.ep]
  <2>1. Coords(m, l) =
          [dp |-> l \div ModelSize(m), pp |-> i \div PerPipeline(m),
           local |-> j \div PerLocal(m), tp |-> k \div m.ep, ep |-> k % m.ep]
    BY <1>3, <1>4, <1>5 DEF Coords
  <2> QED
    BY <1>2, <1>3, <1>4, <1>5, <2>1
<1>8. c = [dp |-> c.dp, pp |-> c.pp, local |-> c.local, tp |-> c.tp, ep |-> c.ep]
  BY DEF Box
<1> QED
  BY <1>5, <1>6, <1>7, <1>8

-----------------------------------------------------------------------------
(* Placements.                                                             *)

\* Two numbers of two digits are equal only digit by digit.
LEMMA SameDigits ==
  ASSUME NEW S, NEW a, NEW b, NEW r, NEW s, S \in Nat \ {0}, a \in Int, b \in Int,
         r \in 0 .. S - 1, s \in 0 .. S - 1, a * S + r = b * S + s
  PROVE  a = b /\ r = s
<1>1. S * (a - b) = s - r
  <2>1. S * (a - b) = a * S - b * S
    OBVIOUS
  <2>2. a * S \in Int /\ b * S \in Int
    OBVIOUS
  <2> QED
    BY <2>1, <2>2
<1>2. a - b = 0
  BY <1>1, NoMultipleBetween
<1> QED
  BY <1>1, <1>2

\* A quotient without remainder.
LEMMA Exactly ==
  ASSUME NEW x \in Nat, NEW S \in Nat \ {0}, x % S = 0
  PROVE  x \div S \in Nat /\ x = S * (x \div S)
<1>1. x = S * (x \div S) + (x % S) /\ x \div S \in Int
  BY Division
<1> DEFINE d == x \div S
<1> HIDE DEF d
<1>2. x = S * d /\ d \in Int
  BY <1>1 DEF d
<1>3. ~ (d <= -1)
  <2> SUFFICES ASSUME d <= -1 PROVE FALSE
    OBVIOUS
  <2>1. S * d <= S * (-1)
    BY <1>2
  <2> QED
    BY <1>2, <2>1
<1> QED
  BY <1>2, <1>3 DEF d

\* A multiple divides.
LEMMA QuotientOf ==
  ASSUME NEW S \in Nat \ {0}, NEW a \in Int
  PROVE  (S * a) \div S = a
<1>1. S * a \in Int /\ S * a = S * a + 0 /\ 0 \in 0 .. S - 1
  OBVIOUS
<1>2. (S * a) % S = 0
  BY <1>1, RemainderUnique
<1>3. S * a = S * ((S * a) \div S) + ((S * a) % S) /\ (S * a) \div S \in Int
  BY <1>1, Division
<1> DEFINE d == (S * a) \div S
<1> HIDE DEF d
<1>4. d * S + 0 = a * S + 0 /\ d \in Int
  BY <1>2, <1>3 DEF d
<1> QED
  BY <1>1, <1>4, SameDigits DEF d

\* A placement gives every logical rank a physical rank of its own.
IsPlacement(m, place) ==
  /\ place \in [World(m) -> World(m)]
  /\ \A k, l \in World(m) : place[k] = place[l] => k = l

\* The part of a placement that neither the TP nor the EP coordinate touches.
Base(m, place, U, V, l) == place[l] - Coords(m, l).tp * U - Coords(m, l).ep * V

\* ... and that a step along TP moves by U and a step along EP by V.
IsStrided(m, place, U, V) ==
  \A k, l \in World(m) :
    LET c == Coords(m, k)
        d == Coords(m, l)
    IN c.dp = d.dp /\ c.pp = d.pp /\ c.local = d.local =>
         Base(m, place, U, V, k) = Base(m, place, U, V, l)

\* The coordinates of a rank lie in the mesh.
LEMMA CoordsType ==
  ASSUME NEW m, IsMesh(m), NEW l \in World(m)
  PROVE  /\ Coords(m, l).dp \in 0 .. m.dp - 1 /\ Coords(m, l).pp \in 0 .. m.pp - 1
         /\ Coords(m, l).local \in 0 .. LocalSize(m) - 1
         /\ Coords(m, l).tp \in 0 .. m.tp - 1 /\ Coords(m, l).ep \in 0 .. m.ep - 1
BY RankHasCoords DEF Box

\* Two ranks with the same coordinates are the same.
LEMMA SameCoords ==
  ASSUME NEW m, IsMesh(m), NEW k \in World(m), NEW l \in World(m),
         Coords(m, k).dp = Coords(m, l).dp, Coords(m, k).pp = Coords(m, l).pp,
         Coords(m, k).local = Coords(m, l).local,
         Coords(m, k).tp = Coords(m, l).tp, Coords(m, k).ep = Coords(m, l).ep
  PROVE  k = l
<1>1. RankFromCoords(m, Coords(m, k)) = RankFromCoords(m, Coords(m, l))
  BY DEF RankFromCoords
<1> QED
  BY <1>1, RankHasCoords

\* Without nodes, and where nothing else applies, a rank is where it is numbered.
LEMMA IdentityPlacement ==
  ASSUME NEW m, IsMesh(m)
  PROVE  LET place == [l \in World(m) |-> l]
         IN IsPlacement(m, place) /\ IsStrided(m, place, m.ep, 1)
<1> DEFINE place == [l \in World(m) |-> l]
<1>1. IsPlacement(m, place)
  BY DEF IsPlacement
<1>2. ASSUME NEW k \in World(m), NEW l \in World(m),
             Coords(m, k).dp = Coords(m, l).dp, Coords(m, k).pp = Coords(m, l).pp,
             Coords(m, k).local = Coords(m, l).local
      PROVE  Base(m, place, m.ep, 1, k) = Base(m, place, m.ep, 1, l)
  <2> DEFINE c == Coords(m, k)
             d == Coords(m, l)
             x == c.dp * ModelSize(m) + c.pp * PerPipeline(m) + c.local * PerLocal(m)
  <2>1. c.tp * m.ep \in Int /\ c.ep \in Int /\ d.tp * m.ep \in Int /\ d.ep \in Int
    BY CoordsType, MeshSizes
  <2>2. x \in Int
    <3>1. c.dp \in Int /\ c.pp \in Int /\ c.local \in Int
      BY CoordsType
    <3>2. ModelSize(m) \in Int /\ PerPipeline(m) \in Int /\ PerLocal(m) \in Int
      BY MeshSizes
    <3> HIDE DEF c
    <3> QED
      BY <3>1, <3>2
  <2>3. k = x + c.tp * m.ep + c.ep
    BY RankHasCoords DEF RankFromCoords
  <2>4. l = x + d.tp * m.ep + d.ep
    BY <1>2, RankHasCoords DEF RankFromCoords
  <2>5. Base(m, place, m.ep, 1, k) = k - c.tp * m.ep - c.ep * 1
        /\ Base(m, place, m.ep, 1, l) = l - d.tp * m.ep - d.ep * 1
    BY DEF Base
  <2> DEFINE u == c.tp * m.ep
             v == d.tp * m.ep
  <2> HIDE DEF c, d, x, u, v
  <2>6. /\ k = x + u + c.ep /\ l = x + v + d.ep
        /\ x \in Int /\ u \in Int /\ v \in Int /\ c.ep \in Int /\ d.ep \in Int
        /\ Base(m, place, m.ep, 1, k) = k - u - c.ep * 1
        /\ Base(m, place, m.ep, 1, l) = l - v - d.ep * 1
    BY <2>1, <2>2, <2>3, <2>4, <2>5 DEF u, v
  <2> QED
    BY <2>6
<1>3. IsStrided(m, place, m.ep, 1)
  BY <1>2 DEF IsStrided
<1> QED
  BY <1>1, <1>3

\* The nodes tile the world.
LEMMA NodesTileWorld ==
  ASSUME NEW m, IsMesh(m), m.node # 0, WorldSize(m) % m.node = 0
  PROVE  /\ m.node \in Nat \ {0} /\ NodeCount(m) \in Nat \ {0}
         /\ WorldSize(m) = NodeCount(m) * m.node
<1>1. m.node \in Nat \ {0}
  BY DEF IsMesh
<1>2. WorldSize(m) \in Nat \ {0}
  BY MeshSizes
<1>3. NodeCount(m) \in Nat /\ WorldSize(m) = m.node * NodeCount(m)
  BY <1>1, <1>2, Exactly DEF NodeCount
<1> DEFINE n == NodeCount(m)
           s == m.node
<1> HIDE DEF n, s
<1>4. n # 0 /\ s * n = n * s
  <2>1. n \in Nat /\ s \in Nat \ {0} /\ WorldSize(m) = s * n
    BY <1>1, <1>3 DEF n, s
  <2>2. n = 0 => s * n = 0
    BY <2>1
  <2>3. n # 0
    BY <1>2, <2>1, <2>2
  <2>4. s * n = n * s
    BY <2>1
  <2> QED
    BY <2>3, <2>4
<1> QED
  BY <1>1, <1>3, <1>4 DEF n, s

\* How many local ranks of a replica a node holds, and how many ranks.
PerNode(m) == LocalSize(m) \div NodeCount(m)
Share(m) == ModelSize(m) \div NodeCount(m)

\* How a striped local axis divides over the nodes.
LEMMA StripeSizes ==
  ASSUME NEW m, IsMesh(m), m.node # 0, WorldSize(m) % m.node = 0, CanStripe(m)
  PROVE  /\ PerNode(m) \in Nat \ {0} /\ LocalSize(m) = NodeCount(m) * PerNode(m)
         /\ Share(m) \in Nat \ {0} /\ Share(m) = PerNode(m) * PerLocal(m)
         /\ m.node = m.dp * Share(m)
<1>1. NodeCount(m) \in Nat \ {0}
  BY NodesTileWorld
<1>2. LocalSize(m) \in Nat \ {0} /\ PerLocal(m) \in Nat \ {0}
  BY MeshSizes
<1>3. PerNode(m) \in Nat /\ LocalSize(m) = NodeCount(m) * PerNode(m)
  BY <1>1, <1>2, Exactly DEF CanStripe, PerNode
<1> DEFINE n == NodeCount(m)
           s == PerNode(m)
           q == PerLocal(m)
           t == LocalSize(m)
<1> HIDE DEF n, s, q, t
<1>4. n \in Nat \ {0} /\ s \in Nat /\ q \in Nat \ {0} /\ t \in Nat \ {0} /\ t = n * s
  BY <1>1, <1>2, <1>3 DEF n, s, q, t
<1>5. s # 0
  <2>1. s = 0 => n * s = 0
    BY <1>4
  <2> QED
    BY <1>4, <2>1
<1>6. ModelSize(m) = n * (s * q)
  <2>1. m.pp = 1
    BY DEF CanStripe
  <2>2. ModelSize(m) = 1 * (t * q)
    BY <2>1 DEF ModelSize, PerPipeline, t, q
  <2>3. t * q = (n * s) * q /\ t * q \in Int
    BY <1>4
  <2>4. (n * s) * q = n * (s * q)
    BY <1>4
  <2> QED
    BY <2>2, <2>3, <2>4
<1>7. s * q \in Nat \ {0}
  BY <1>4, <1>5, ProductPositive
<1>8. Share(m) = s * q
  <2>1. Share(m) = (n * (s * q)) \div n
    BY <1>6 DEF Share, n
  <2>2. s * q \in Int
    BY <1>7
  <2> QED
    BY <1>4, <2>1, <2>2, QuotientOf
<1>9. m.node = m.dp * Share(m)
  BY DEF CanStripe, Share
<1> QED
  BY <1>3, <1>5, <1>7, <1>8, <1>9 DEF n, s, q, t

\* The position of a rank inside its node.
InStripe(m, c) == c.dp * Share(m) + ((c.local % PerNode(m)) * PerLocal(m) + (c.tp * m.ep + c.ep))

\* The place of a rank on the node it is striped to.
LEMMA InStripeType ==
  ASSUME NEW m, IsMesh(m), m.node # 0, WorldSize(m) % m.node = 0, CanStripe(m),
         NEW l \in World(m)
  PROVE  LET c == Coords(m, l) IN
         /\ c.tp * m.ep + c.ep \in 0 .. PerLocal(m) - 1
         /\ (c.local % PerNode(m)) * PerLocal(m) + (c.tp * m.ep + c.ep) \in 0 .. Share(m) - 1
         /\ InStripe(m, c) \in 0 .. m.node - 1
         /\ c.local \div PerNode(m) \in 0 .. NodeCount(m) - 1
         /\ c.local % PerNode(m) \in 0 .. PerNode(m) - 1
         /\ c.local = (c.local \div PerNode(m)) * PerNode(m) + (c.local % PerNode(m))
         /\ Striped(m)[l] = (c.local \div PerNode(m)) * m.node + InStripe(m, c)
         /\ Striped(m)[l] \in World(m)
<1> DEFINE c == Coords(m, l)
           k == c.local \div PerNode(m)
           o == c.local % PerNode(m)
           i == c.tp * m.ep + c.ep
           j == o * PerLocal(m) + i
<1>1. /\ c.dp \in 0 .. m.dp - 1 /\ c.local \in 0 .. LocalSize(m) - 1
      /\ c.tp \in 0 .. m.tp - 1 /\ c.ep \in 0 .. m.ep - 1
  BY CoordsType
<1>2. /\ m.dp \in Nat \ {0} /\ m.tp \in Nat \ {0} /\ m.ep \in Nat \ {0}
      /\ PerLocal(m) \in Nat \ {0} /\ LocalSize(m) \in Nat \ {0}
  BY MeshSizes
<1>3. /\ NodeCount(m) \in Nat \ {0} /\ PerNode(m) \in Nat \ {0} /\ Share(m) \in Nat \ {0}
      /\ m.node \in Nat \ {0}
  BY StripeSizes, NodesTileWorld
<1> HIDE DEF c
<1>4. i \in 0 .. PerLocal(m) - 1
  <2>1. c.tp * m.ep + c.ep \in 0 .. m.tp * m.ep - 1
    BY <1>1, <1>2, TwoDigits
  <2> QED
    BY <2>1 DEF PerLocal
<1>5. /\ k \in 0 .. NodeCount(m) - 1 /\ o \in 0 .. PerNode(m) - 1
      /\ c.local = k * PerNode(m) + o
  <2>1. c.local \in 0 .. NodeCount(m) * PerNode(m) - 1
    BY <1>1, StripeSizes
  <2> QED
    BY <1>3, <2>1, Digits
<1> HIDE DEF i, k, o
<1>6. j \in 0 .. Share(m) - 1
  <2>1. o * PerLocal(m) + i \in 0 .. PerNode(m) * PerLocal(m) - 1
    BY <1>2, <1>3, <1>4, <1>5, TwoDigits
  <2> QED
    BY <2>1, StripeSizes
<1> HIDE DEF j
<1>7. c.dp * Share(m) + j \in 0 .. m.node - 1
  <2>1. c.dp * Share(m) + j \in 0 .. m.dp * Share(m) - 1
    BY <1>1, <1>2, <1>3, <1>6, TwoDigits
  <2> QED
    BY <2>1, StripeSizes
<1>8. InStripe(m, c) = c.dp * Share(m) + j
  BY DEF InStripe, j, o, i
<1>9. Striped(m)[l] = k * m.node + InStripe(m, c)
  <2>1. Striped(m)[l] = k * m.node + c.dp * Share(m) + o * PerLocal(m) + c.tp * m.ep + c.ep
    BY DEF Striped, PerNode, Share, c, k, o
  <2> DEFINE a == k * m.node
             b == c.dp * Share(m)
             d == o * PerLocal(m)
             e == c.tp * m.ep
             f == c.ep
  <2>2. a \in Int
    BY <1>3, <1>5
  <2>3. b \in Int
    BY <1>1, <1>3
  <2>4. d \in Int
    BY <1>2, <1>5
  <2>5. e \in Int
    BY <1>1, <1>2
  <2>6. f \in Int
    BY <1>1
  <2>7. InStripe(m, c) = b + (d + (e + f))
    BY DEF InStripe, o
  <2>8. Striped(m)[l] = a + b + d + e + f
    BY <2>1
  <2>9. k * m.node = a
    OBVIOUS
  <2> HIDE DEF a, b, d, e, f
  <2> QED
    BY <2>2, <2>3, <2>4, <2>5, <2>6, <2>7, <2>8, <2>9
<1>10. Striped(m)[l] \in World(m)
  <2>1. k * m.node + InStripe(m, c) \in 0 .. NodeCount(m) * m.node - 1
    <3>1. InStripe(m, c) \in 0 .. m.node - 1
      BY <1>7, <1>8
    <3> QED
      BY <1>3, <1>5, <3>1, TwoDigits
  <2> QED
    BY <1>9, <2>1, NodesTileWorld DEF World
<1> QED
  BY <1>4, <1>5, <1>6, <1>7, <1>8, <1>9, <1>10 DEF c, i, j, k, o

\* Striping the local axis puts one rank at each place.
LEMMA StripedPlacement ==
  ASSUME NEW m, IsMesh(m), m.node # 0, WorldSize(m) % m.node = 0, CanStripe(m)
  PROVE  IsPlacement(m, Striped(m)) /\ IsStrided(m, Striped(m), m.ep, 1)
<1> DEFINE C(l) == Coords(m, l)
           k(l) == C(l).local \div PerNode(m)
           o(l) == C(l).local % PerNode(m)
           i(l) == C(l).tp * m.ep + C(l).ep
           j(l) == o(l) * PerLocal(m) + i(l)
           p(l) == Striped(m)[l]
           x(l) == InStripe(m, C(l))
<1>1. /\ m.dp \in Nat \ {0} /\ m.tp \in Nat \ {0} /\ m.ep \in Nat \ {0} /\ m.pp = 1
      /\ PerLocal(m) \in Nat \ {0} /\ LocalSize(m) \in Nat \ {0}
  BY MeshSizes DEF CanStripe
<1>2. /\ NodeCount(m) \in Nat \ {0} /\ PerNode(m) \in Nat \ {0} /\ Share(m) \in Nat \ {0}
      /\ m.node \in Nat \ {0}
  BY StripeSizes, NodesTileWorld
<1>3. ASSUME NEW l \in World(m)
      PROVE  /\ i(l) \in 0 .. PerLocal(m) - 1 /\ j(l) \in 0 .. Share(m) - 1
             /\ x(l) \in 0 .. m.node - 1 /\ k(l) \in 0 .. NodeCount(m) - 1
             /\ o(l) \in 0 .. PerNode(m) - 1 /\ C(l).local = k(l) * PerNode(m) + o(l)
             /\ p(l) = k(l) * m.node + x(l) /\ p(l) \in World(m)
             /\ x(l) = C(l).dp * Share(m) + j(l)
             /\ C(l).dp \in 0 .. m.dp - 1 /\ C(l).pp = 0
             /\ C(l).tp \in 0 .. m.tp - 1 /\ C(l).ep \in 0 .. m.ep - 1
  <2>1. C(l).dp \in 0 .. m.dp - 1 /\ C(l).pp \in 0 .. 0
        /\ C(l).tp \in 0 .. m.tp - 1 /\ C(l).ep \in 0 .. m.ep - 1
    BY <1>1, CoordsType
  <2>2. C(l).pp = 0
    BY <2>1
  <2>3. x(l) = C(l).dp * Share(m) + j(l)
    BY DEF InStripe
  <2> HIDE DEF i, j, k, o, p, x, C
  <2>4. /\ i(l) \in 0 .. PerLocal(m) - 1 /\ j(l) \in 0 .. Share(m) - 1
        /\ x(l) \in 0 .. m.node - 1 /\ k(l) \in 0 .. NodeCount(m) - 1
        /\ o(l) \in 0 .. PerNode(m) - 1 /\ C(l).local = k(l) * PerNode(m) + o(l)
        /\ p(l) = k(l) * m.node + x(l) /\ p(l) \in World(m)
    BY InStripeType DEF i, j, k, o, p, x, C
  <2> QED
    BY <2>1, <2>2, <2>3, <2>4
<1> HIDE DEF p, x, k
<1>4. ASSUME NEW a \in World(m), NEW b \in World(m), p(a) = p(b)
      PROVE  a = b
  <2>1. k(a) * m.node + x(a) = k(b) * m.node + x(b)
    BY <1>3, <1>4
  <2>2. k(a) \in Int /\ k(b) \in Int
    BY <1>3
  <2>3. k(a) = k(b) /\ x(a) = x(b)
    BY <1>2, <1>3, <2>1, <2>2, SameDigits
  <2> HIDE DEF C, j
  <2>4. C(a).dp * Share(m) + j(a) = C(b).dp * Share(m) + j(b)
    BY <1>3, <2>3
  <2>5. C(a).dp \in Int /\ C(b).dp \in Int
    BY <1>3
  <2>6. C(a).dp = C(b).dp /\ j(a) = j(b)
    BY <1>2, <1>3, <2>4, <2>5, SameDigits
  <2> HIDE DEF i, o
  <2>7. o(a) * PerLocal(m) + i(a) = o(b) * PerLocal(m) + i(b)
    BY <2>6 DEF j
  <2>8. o(a) \in Int /\ o(b) \in Int
    BY <1>3
  <2>9. o(a) = o(b) /\ i(a) = i(b)
    BY <1>1, <1>3, <2>7, <2>8, SameDigits
  <2>10. C(a).tp * m.ep + C(a).ep = C(b).tp * m.ep + C(b).ep
    BY <2>9 DEF i
  <2>11. C(a).tp \in Int /\ C(b).tp \in Int
    BY <1>3
  <2>12. C(a).tp = C(b).tp /\ C(a).ep = C(b).ep
    BY <1>1, <1>3, <2>10, <2>11, SameDigits
  <2>13. C(a).local = C(b).local
    BY <1>3, <2>3, <2>9
  <2>14. C(a).pp = C(b).pp
    BY <1>3
  <2> QED
    BY <2>6, <2>12, <2>13, <2>14, SameCoords DEF C
<1>5. Striped(m) = [l \in World(m) |-> p(l)]
  BY DEF p, Striped
<1>6. IsPlacement(m, Striped(m))
  <2>1. Striped(m) \in [World(m) -> World(m)]
    BY <1>3, <1>5
  <2> QED
    BY <1>4, <2>1 DEF IsPlacement, p
<1>7. ASSUME NEW a \in World(m), NEW b \in World(m), C(a).dp = C(b).dp, C(a).local = C(b).local
      PROVE  Base(m, Striped(m), m.ep, 1, a) = Base(m, Striped(m), m.ep, 1, b)
  <2> DEFINE y(l) == k(l) * m.node + (C(l).dp * Share(m) + o(l) * PerLocal(m))
             u(l) == C(l).tp * m.ep
  <2>1. ASSUME NEW l \in World(m)
        PROVE  Base(m, Striped(m), m.ep, 1, l) = y(l) /\ y(l) \in Int
    <3>1. p(l) = k(l) * m.node + (C(l).dp * Share(m) + (o(l) * PerLocal(m) + (u(l) + C(l).ep)))
      <4>1. p(l) = k(l) * m.node + x(l) /\ x(l) = C(l).dp * Share(m) + j(l)
        BY <1>3
      <4> QED
        BY <4>1
    <3>2. Base(m, Striped(m), m.ep, 1, l) = p(l) - u(l) - C(l).ep * 1
      BY DEF Base, p
    <3> HIDE DEF C, o
    <3>3. u(l) \in Int /\ C(l).ep \in Int
      <4>1. C(l).tp \in Int /\ C(l).ep \in Int
        BY <1>3
      <4> QED
        BY <1>1, <4>1
    <3>4. k(l) * m.node \in Int
      <4>1. k(l) \in Int
        BY <1>3
      <4> QED
        BY <1>2, <4>1
    <3>5. C(l).dp * Share(m) \in Int
      <4>1. C(l).dp \in Int
        BY <1>3
      <4> QED
        BY <1>2, <4>1
    <3>6. o(l) * PerLocal(m) \in Int
      <4>1. o(l) \in Int
        BY <1>3
      <4> QED
        BY <1>1, <4>1
    <3> DEFINE a1 == k(l) * m.node
               a2 == C(l).dp * Share(m)
               a3 == o(l) * PerLocal(m)
    <3>7. y(l) = a1 + (a2 + a3)
      OBVIOUS
    <3>8. p(l) = a1 + (a2 + (a3 + (u(l) + C(l).ep)))
      BY <3>1
    <3> HIDE DEF a1, a2, a3, u, y
    <3> QED
      BY <3>2, <3>3, <3>4, <3>5, <3>6, <3>7, <3>8 DEF a1, a2, a3
  <2>2. k(a) = k(b) /\ o(a) = o(b)
    BY <1>7 DEF k
  <2>3. y(a) = y(b)
    BY <1>7, <2>2
  <2> HIDE DEF y
  <2> QED
    BY <2>1, <2>3
<1>8. IsStrided(m, Striped(m), m.ep, 1)
  BY <1>7 DEF IsStrided
<1> QED
  BY <1>6, <1>8

\* With experts across nodes a node holds one local axis of TP groups.
LEMMA ExpertSizes ==
  ASSUME NEW m, IsMesh(m), m.node # 0, WorldSize(m) % m.node = 0, ExpertsAcrossNodes(m)
  PROVE  m.node = LocalSize(m) * m.tp /\ WorldSize(m) = (m.dp * m.ep) * m.node
<1>1. /\ m.dp \in Nat \ {0} /\ m.tp \in Nat \ {0} /\ m.ep \in Nat \ {0}
      /\ LocalSize(m) \in Nat \ {0}
  BY MeshSizes
<1>2. m.pp = 1 /\ m.node = LocalSize(m) * m.tp
  BY DEF ExpertsAcrossNodes
<1> DEFINE d == m.dp
           t == m.tp
           e == m.ep
           s == LocalSize(m)
<1>3. WorldSize(m) = d * (1 * (s * (t * e)))
  BY <1>2 DEF WorldSize, ModelSize, PerPipeline, PerLocal
<1> HIDE DEF d, t, e, s
<1>4. d \in Int /\ t \in Int /\ e \in Int /\ s \in Int
  BY <1>1 DEF d, t, e, s
<1>5. d * (1 * (s * (t * e))) = (d * e) * (s * t)
  <2>1. s * (t * e) = e * (s * t)
    BY <1>4
  <2>2. d * (e * (s * t)) = (d * e) * (s * t)
    BY <1>4
  <2>3. e * (s * t) \in Int
    BY <1>4
  <2> QED
    BY <2>1, <2>2, <2>3
<1> QED
  BY <1>2, <1>3, <1>5 DEF d, t, e, s

\* The node of a rank there, and its place on it.
LEMMA ExpertAt ==
  ASSUME NEW m, IsMesh(m), m.node # 0, WorldSize(m) % m.node = 0, ExpertsAcrossNodes(m),
         NEW l \in World(m)
  PROVE  LET c == Coords(m, l) IN
         /\ c.dp * m.ep + c.ep \in 0 .. m.dp * m.ep - 1
         /\ c.local * m.tp + c.tp \in 0 .. m.node - 1
         /\ ExpertPlacement(m)[l] = (c.dp * m.ep + c.ep) * m.node + (c.local * m.tp + c.tp)
         /\ ExpertPlacement(m)[l] \in World(m)
<1> DEFINE c == Coords(m, l)
           n == c.dp * m.ep + c.ep
           i == c.local * m.tp + c.tp
<1>1. /\ c.dp \in 0 .. m.dp - 1 /\ c.local \in 0 .. LocalSize(m) - 1
      /\ c.tp \in 0 .. m.tp - 1 /\ c.ep \in 0 .. m.ep - 1
  BY CoordsType
<1>2. /\ m.dp \in Nat \ {0} /\ m.tp \in Nat \ {0} /\ m.ep \in Nat \ {0}
      /\ LocalSize(m) \in Nat \ {0} /\ m.node \in Nat \ {0}
  BY MeshSizes, NodesTileWorld
<1> HIDE DEF c
<1>3. n \in 0 .. m.dp * m.ep - 1
  BY <1>1, <1>2, TwoDigits
<1>4. i \in 0 .. m.node - 1
  <2>1. c.local * m.tp + c.tp \in 0 .. LocalSize(m) * m.tp - 1
    BY <1>1, <1>2, TwoDigits
  <2> QED
    BY <2>1, ExpertSizes
<1>5. ExpertPlacement(m)[l] = n * m.node + i
  <2>1. ExpertPlacement(m)[l] = n * m.node + c.local * m.tp + c.tp
    BY DEF ExpertPlacement, c
  <2> DEFINE a == n * m.node
             b == c.local * m.tp
             d == c.tp
  <2>2. a \in Int
    <3> HIDE DEF n
    <3>1. n \in Int
      BY <1>3
    <3> QED
      BY <1>2, <3>1
  <2>3. b \in Int /\ d \in Int
    BY <1>1, <1>2
  <2>4. ExpertPlacement(m)[l] = a + b + d
    BY <2>1
  <2>5. n * m.node + i = a + (b + d)
    OBVIOUS
  <2> HIDE DEF a, b, d
  <2> QED
    BY <2>2, <2>3, <2>4, <2>5
<1> HIDE DEF n, i
<1>6. ExpertPlacement(m)[l] \in World(m)
  <2>1. m.dp * m.ep \in Nat \ {0}
    BY <1>2, ProductPositive
  <2>2. n * m.node + i \in 0 .. (m.dp * m.ep) * m.node - 1
    BY <1>2, <1>3, <1>4, <2>1, TwoDigits
  <2> QED
    BY <1>5, <2>2, ExpertSizes DEF World
<1> QED
  BY <1>3, <1>4, <1>5, <1>6 DEF n, i, c

\* Spreading experts across nodes puts one rank at each place.
LEMMA ExpertsPlaced ==
  ASSUME NEW m, IsMesh(m), m.node # 0, WorldSize(m) % m.node = 0, ExpertsAcrossNodes(m)
  PROVE  IsPlacement(m, ExpertPlacement(m)) /\ IsStrided(m, ExpertPlacement(m), 1, m.node)
<1> DEFINE C(l) == Coords(m, l)
           n(l) == C(l).dp * m.ep + C(l).ep
           i(l) == C(l).local * m.tp + C(l).tp
           p(l) == ExpertPlacement(m)[l]
<1>1. /\ m.dp \in Nat \ {0} /\ m.tp \in Nat \ {0} /\ m.ep \in Nat \ {0} /\ m.pp = 1
      /\ LocalSize(m) \in Nat \ {0} /\ m.node \in Nat \ {0}
  BY MeshSizes, NodesTileWorld DEF ExpertsAcrossNodes
<1>2. ASSUME NEW l \in World(m)
      PROVE  /\ C(l).dp \in 0 .. m.dp - 1 /\ C(l).pp = 0 /\ C(l).local \in 0 .. LocalSize(m) - 1
             /\ C(l).tp \in 0 .. m.tp - 1 /\ C(l).ep \in 0 .. m.ep - 1
             /\ n(l) \in Int /\ i(l) \in 0 .. m.node - 1
             /\ p(l) = n(l) * m.node + i(l) /\ p(l) \in World(m)
  <2>1. C(l).dp \in 0 .. m.dp - 1 /\ C(l).pp \in 0 .. 0 /\ C(l).local \in 0 .. LocalSize(m) - 1
        /\ C(l).tp \in 0 .. m.tp - 1 /\ C(l).ep \in 0 .. m.ep - 1
    BY <1>1, CoordsType
  <2> HIDE DEF C, n, i, p
  <2>2. n(l) \in 0 .. m.dp * m.ep - 1 /\ i(l) \in 0 .. m.node - 1
        /\ p(l) = n(l) * m.node + i(l) /\ p(l) \in World(m)
    BY ExpertAt DEF C, n, i, p
  <2> QED
    BY <2>1, <2>2
<1> HIDE DEF p, C
<1>3. ASSUME NEW a \in World(m), NEW b \in World(m), p(a) = p(b)
      PROVE  a = b
  <2> HIDE DEF n, i
  <2>1. n(a) * m.node + i(a) = n(b) * m.node + i(b)
    BY <1>2, <1>3
  <2>2. n(a) = n(b) /\ i(a) = i(b)
    BY <1>1, <1>2, <2>1, SameDigits
  <2>3. C(a).dp * m.ep + C(a).ep = C(b).dp * m.ep + C(b).ep
    BY <2>2 DEF n
  <2>4. C(a).dp \in Int /\ C(b).dp \in Int /\ C(a).local \in Int /\ C(b).local \in Int
    BY <1>2
  <2>5. C(a).dp = C(b).dp /\ C(a).ep = C(b).ep
    BY <1>1, <1>2, <2>3, <2>4, SameDigits
  <2>6. C(a).local * m.tp + C(a).tp = C(b).local * m.tp + C(b).tp
    BY <2>2 DEF i
  <2>7. C(a).local = C(b).local /\ C(a).tp = C(b).tp
    BY <1>1, <1>2, <2>4, <2>6, SameDigits
  <2>8. C(a).pp = C(b).pp
    BY <1>2
  <2> QED
    BY <2>5, <2>7, <2>8, SameCoords DEF C
<1>4. ExpertPlacement(m) = [l \in World(m) |-> p(l)]
  BY DEF p, ExpertPlacement
<1>5. IsPlacement(m, ExpertPlacement(m))
  <2>1. ExpertPlacement(m) \in [World(m) -> World(m)]
    BY <1>2, <1>4
  <2> QED
    BY <1>3, <2>1 DEF IsPlacement, p
<1>6. ASSUME NEW a \in World(m), NEW b \in World(m), C(a).dp = C(b).dp, C(a).local = C(b).local
      PROVE  Base(m, ExpertPlacement(m), 1, m.node, a) = Base(m, ExpertPlacement(m), 1, m.node, b)
  <2> DEFINE y(l) == (C(l).dp * m.ep) * m.node + C(l).local * m.tp
  <2>1. ASSUME NEW l \in World(m)
        PROVE  Base(m, ExpertPlacement(m), 1, m.node, l) = y(l)
    <3> DEFINE u == C(l).dp * m.ep
               v == C(l).local * m.tp
               t == C(l).tp
               e == C(l).ep
               s == m.node
    <3>1. u \in Int /\ v \in Int /\ t \in Int /\ e \in Int /\ s \in Int
      <4>1. C(l).dp \in Int /\ C(l).local \in Int /\ t \in Int /\ e \in Int
        BY <1>2
      <4> QED
        BY <1>1, <4>1
    <3>2. Base(m, ExpertPlacement(m), 1, m.node, l) = p(l) - t * 1 - e * s
      BY DEF Base, p, C
    <3>3. p(l) = (u + e) * s + (v + t)
      BY <1>2
    <3>4. y(l) = u * s + v
      OBVIOUS
    <3> HIDE DEF u, v, t, e, s, y
    <3>5. (u + e) * s = u * s + e * s
      BY <3>1
    <3> DEFINE us == u * s
               es == e * s
    <3>6. us \in Int /\ es \in Int
      BY <3>1
    <3>7. p(l) = (us + es) + (v + t) /\ y(l) = us + v
          /\ Base(m, ExpertPlacement(m), 1, m.node, l) = p(l) - t * 1 - es
      BY <3>2, <3>3, <3>4, <3>5
    <3> HIDE DEF us, es
    <3> QED
      BY <3>1, <3>6, <3>7
  <2>2. y(a) = y(b)
    BY <1>6
  <2> HIDE DEF y
  <2> QED
    BY <2>1, <2>2
<1>7. IsStrided(m, ExpertPlacement(m), 1, m.node)
  BY <1>6 DEF IsStrided, C
<1> QED
  BY <1>5, <1>7

\* How many replicas tile a node.
LEMMA ReplicaSizes ==
  ASSUME NEW m, IsMesh(m), m.node # 0, WorldSize(m) % m.node = 0, m.node % ModelSize(m) = 0
  PROVE  /\ m.node \div ModelSize(m) \in Nat \ {0}
         /\ m.node = (m.node \div ModelSize(m)) * ModelSize(m)
         /\ m.dp = (m.node \div ModelSize(m)) * NodeCount(m)
<1> DEFINE f == m.node \div ModelSize(m)
           s == ModelSize(m)
           n == NodeCount(m)
           w == m.node
           d == m.dp
<1>1. s \in Nat \ {0} /\ d \in Nat \ {0}
  BY MeshSizes
<1>2. w \in Nat \ {0} /\ n \in Nat \ {0} /\ WorldSize(m) = n * w
  BY NodesTileWorld
<1>3. f \in Nat /\ w = s * f
  BY <1>1, <1>2, Exactly
<1>4. WorldSize(m) = d * s
  BY DEF WorldSize
<1> HIDE DEF f, s, n, w, d
<1>5. f # 0
  <2>1. f = 0 => s * f = 0
    BY <1>1, <1>3
  <2> QED
    BY <1>2, <1>3, <2>1
<1>6. s * f = f * s
  BY <1>1, <1>3
<1>7. d * s = (f * n) * s
  <2>1. n * (s * f) = (f * n) * s
    BY <1>1, <1>2, <1>3
  <2> QED
    BY <1>2, <1>3, <1>4, <2>1
<1>8. d = f * n
  <2>1. f * n \in Int /\ d \in Int /\ 0 \in 0 .. s - 1
    BY <1>1, <1>2, <1>3
  <2>2. d * s + 0 = d * s /\ (f * n) * s + 0 = (f * n) * s
    <3>1. d * s \in Int
      BY <1>1
    <3>2. (f * n) * s \in Int
      BY <1>7, <3>1
    <3> QED
      BY <3>1, <3>2
  <2>3. d * s + 0 = (f * n) * s + 0
    BY <1>7, <2>2
  <2> HIDE DEF d
  <2> QED
    BY <1>1, <2>1, <2>3, SameDigits
<1> QED
  BY <1>3, <1>5, <1>6, <1>8 DEF f, s, n, w, d

\* The node of a replica that is dealt out, and its place on it.
LEMMA RoundRobinAt ==
  ASSUME NEW m, IsMesh(m), m.node # 0, WorldSize(m) % m.node = 0, m.node % ModelSize(m) = 0,
         NEW l \in World(m)
  PROVE  LET d == l \div ModelSize(m) IN
         /\ d \in 0 .. m.dp - 1 /\ d = Coords(m, l).dp
         /\ l % ModelSize(m) \in 0 .. ModelSize(m) - 1
         /\ l = d * ModelSize(m) + (l % ModelSize(m))
         /\ d % NodeCount(m) \in 0 .. NodeCount(m) - 1
         /\ d = (d \div NodeCount(m)) * NodeCount(m) + (d % NodeCount(m))
         /\ d \div NodeCount(m) \in Int
         /\ (d \div NodeCount(m)) * ModelSize(m) + (l % ModelSize(m)) \in 0 .. m.node - 1
         /\ RoundRobin(m)[l] = (d % NodeCount(m)) * m.node
                                 + ((d \div NodeCount(m)) * ModelSize(m) + (l % ModelSize(m)))
         /\ RoundRobin(m)[l] \in World(m)
<1> DEFINE d == l \div ModelSize(m)
           i == l % ModelSize(m)
           k == d % NodeCount(m)
           o == d \div NodeCount(m)
           f == m.node \div ModelSize(m)
<1>1. /\ m.dp \in Nat \ {0} /\ ModelSize(m) \in Nat \ {0}
      /\ m.node \in Nat \ {0} /\ NodeCount(m) \in Nat \ {0}
  BY MeshSizes, NodesTileWorld
<1>2. f \in Nat \ {0} /\ m.node = f * ModelSize(m) /\ m.dp = f * NodeCount(m)
  BY ReplicaSizes
<1>3. d \in 0 .. m.dp - 1 /\ i \in 0 .. ModelSize(m) - 1 /\ l = d * ModelSize(m) + i
  <2>1. l \in 0 .. m.dp * ModelSize(m) - 1
    BY DEF World, WorldSize
  <2> QED
    BY <1>1, <2>1, Digits
<1>4. d = Coords(m, l).dp
  BY DEF Coords
<1>5. RoundRobin(m)[l] = k * m.node + o * ModelSize(m) + i
  BY DEF RoundRobin
<1> HIDE DEF d, i, f
<1>6. o \in 0 .. f - 1 /\ k \in 0 .. NodeCount(m) - 1 /\ d = o * NodeCount(m) + k
  <2>1. d \in 0 .. f * NodeCount(m) - 1
    BY <1>2, <1>3
  <2> QED
    BY <1>1, <1>2, <2>1, Digits
<1> HIDE DEF k, o
<1>7. o * ModelSize(m) + i \in 0 .. m.node - 1
  <2>1. o * ModelSize(m) + i \in 0 .. f * ModelSize(m) - 1
    BY <1>1, <1>2, <1>3, <1>6, TwoDigits
  <2> QED
    BY <1>2, <2>1
<1>8. k * m.node + o * ModelSize(m) + i = k * m.node + (o * ModelSize(m) + i)
  <2>1. k * m.node \in Int
    BY <1>1, <1>6
  <2>2. o * ModelSize(m) \in Int
    BY <1>1, <1>6
  <2>3. i \in Int
    BY <1>3
  <2> DEFINE a == k * m.node
             b == o * ModelSize(m)
  <2> HIDE DEF a, b
  <2>4. a + b + i = a + (b + i)
    BY <2>1, <2>2, <2>3 DEF a, b
  <2> QED
    BY <2>4 DEF a, b
<1>9. RoundRobin(m)[l] \in World(m)
  <2> DEFINE x == o * ModelSize(m) + i
  <2>1. x \in 0 .. m.node - 1
    BY <1>7
  <2> HIDE DEF x
  <2>2. k * m.node + x \in 0 .. NodeCount(m) * m.node - 1
    BY <1>1, <1>6, <2>1, TwoDigits
  <2>3. RoundRobin(m)[l] = k * m.node + x
    BY <1>5, <1>8 DEF x
  <2> QED
    BY <2>2, <2>3, NodesTileWorld DEF World
<1>10. o \in Int
  BY <1>6
<1> QED
  BY <1>3, <1>4, <1>5, <1>6, <1>7, <1>8, <1>9, <1>10 DEF d, i, k, o

\* Dealing out replicas puts one rank at each place.
LEMMA RoundRobinPlacement ==
  ASSUME NEW m, IsMesh(m), m.node # 0, WorldSize(m) % m.node = 0, m.node % ModelSize(m) = 0
  PROVE  IsPlacement(m, RoundRobin(m)) /\ IsStrided(m, RoundRobin(m), m.ep, 1)
<1> DEFINE d(l) == l \div ModelSize(m)
           i(l) == l % ModelSize(m)
           k(l) == d(l) % NodeCount(m)
           o(l) == d(l) \div NodeCount(m)
           x(l) == o(l) * ModelSize(m) + i(l)
           p(l) == RoundRobin(m)[l]
<1>1. /\ m.dp \in Nat \ {0} /\ ModelSize(m) \in Nat \ {0}
      /\ m.node \in Nat \ {0} /\ NodeCount(m) \in Nat \ {0}
  BY MeshSizes, NodesTileWorld
<1>2. ASSUME NEW l \in World(m)
      PROVE  /\ d(l) \in Int /\ d(l) = Coords(m, l).dp /\ i(l) \in 0 .. ModelSize(m) - 1
             /\ l = d(l) * ModelSize(m) + i(l) /\ k(l) \in Int /\ o(l) \in Int
             /\ d(l) = o(l) * NodeCount(m) + k(l)
             /\ x(l) \in 0 .. m.node - 1 /\ p(l) = k(l) * m.node + x(l) /\ p(l) \in World(m)
  <2> HIDE DEF d, i, k, o, x, p
  <2>1. d(l) \in 0 .. m.dp - 1 /\ k(l) \in 0 .. NodeCount(m) - 1 /\ o(l) \in Int
    BY RoundRobinAt DEF d, k, o
  <2>2. d(l) = Coords(m, l).dp
    BY RoundRobinAt DEF d
  <2>3. l = d(l) * ModelSize(m) + i(l)
    BY RoundRobinAt DEF d, i
  <2>4. d(l) = o(l) * NodeCount(m) + k(l)
    BY RoundRobinAt DEF d, k, o
  <2>5. i(l) \in 0 .. ModelSize(m) - 1 /\ x(l) \in 0 .. m.node - 1
    BY RoundRobinAt DEF d, i, o, x
  <2>6. p(l) = k(l) * m.node + x(l) /\ p(l) \in World(m)
    BY RoundRobinAt DEF d, i, k, o, x, p
  <2> QED
    BY <2>1, <2>2, <2>3, <2>4, <2>5, <2>6
<1> HIDE DEF d, i, k, o, p
<1>3. ASSUME NEW a \in World(m), NEW b \in World(m), p(a) = p(b)
      PROVE  a = b
  <2> HIDE DEF x
  <2>1. k(a) * m.node + x(a) = k(b) * m.node + x(b)
    BY <1>2, <1>3
  <2>2. k(a) = k(b) /\ x(a) = x(b)
    BY <1>1, <1>2, <2>1, SameDigits
  <2>3. o(a) * ModelSize(m) + i(a) = o(b) * ModelSize(m) + i(b)
    BY <2>2 DEF x
  <2>4. o(a) = o(b) /\ i(a) = i(b)
    BY <1>1, <1>2, <2>3, SameDigits
  <2>5. d(a) = d(b)
    BY <1>2, <2>2, <2>4
  <2> QED
    BY <1>2, <2>4, <2>5
<1>4. RoundRobin(m) = [l \in World(m) |-> p(l)]
  BY DEF p, RoundRobin
<1>5. IsPlacement(m, RoundRobin(m))
  <2>1. RoundRobin(m) \in [World(m) -> World(m)]
    BY <1>2, <1>4
  <2> QED
    BY <1>3, <2>1 DEF IsPlacement, p
<1>6. ASSUME NEW a \in World(m), NEW b \in World(m),
             Coords(m, a).dp = Coords(m, b).dp, Coords(m, a).pp = Coords(m, b).pp,
             Coords(m, a).local = Coords(m, b).local
      PROVE  Base(m, RoundRobin(m), m.ep, 1, a) = Base(m, RoundRobin(m), m.ep, 1, b)
  <2> DEFINE id == [l \in World(m) |-> l]
             y(l) == k(l) * m.node + o(l) * ModelSize(m) - d(l) * ModelSize(m)
  <2>1. Base(m, id, m.ep, 1, a) = Base(m, id, m.ep, 1, b)
    BY <1>6, IdentityPlacement DEF IsStrided
  <2>2. ASSUME NEW l \in World(m)
        PROVE  Base(m, RoundRobin(m), m.ep, 1, l) = Base(m, id, m.ep, 1, l) + y(l)
    <3> DEFINE u == Coords(m, l).tp * m.ep
               v == Coords(m, l).ep * 1
               km == k(l) * m.node
               om == o(l) * ModelSize(m)
               dm == d(l) * ModelSize(m)
    <3>1. u \in Int /\ v \in Int
      <4>1. Coords(m, l).tp \in Int /\ Coords(m, l).ep \in Int /\ m.ep \in Int
        BY CoordsType, MeshSizes
      <4> QED
        BY <4>1
    <3>2. km \in Int
      BY <1>1, <1>2
    <3>3. om \in Int
      BY <1>1, <1>2
    <3>4. dm \in Int
      BY <1>1, <1>2
    <3>5. Base(m, RoundRobin(m), m.ep, 1, l) = p(l) - u - v
      BY DEF Base, p
    <3>6. Base(m, id, m.ep, 1, l) = l - u - v
      BY DEF Base
    <3>7. p(l) = km + (om + i(l)) /\ l = dm + i(l) /\ i(l) \in Int
      BY <1>2
    <3>8. y(l) = km + om - dm
      OBVIOUS
    <3> HIDE DEF u, v, km, om, dm, y
    <3> DEFINE r == Base(m, RoundRobin(m), m.ep, 1, l)
               s == Base(m, id, m.ep, 1, l)
               j == i(l)
               q == p(l)
               z == y(l)
    <3>9. r = q - u - v /\ s = l - u - v /\ q = km + (om + j) /\ l = dm + j /\ j \in Int /\ z = km + om - dm
      BY <3>5, <3>6, <3>7, <3>8
    <3> HIDE DEF r, s, j, q, z
    <3>10. r = s + z
      BY <3>1, <3>2, <3>3, <3>4, <3>9
    <3> QED
      BY <3>10 DEF r, s, z
  <2>3. d(a) = d(b)
    BY <1>2, <1>6
  <2>4. y(a) = y(b)
    BY <2>3 DEF k, o
  <2> HIDE DEF y, id
  <2> QED
    BY <2>1, <2>2, <2>4
<1>7. IsStrided(m, RoundRobin(m), m.ep, 1)
  BY <1>6 DEF IsStrided
<1> QED
  BY <1>5, <1>7

\* Whatever the nodes and the policy, the builder places every rank once, and the
\* TP and the EP coordinate move a rank by fixed strides.
LEMMA PhysicalPlacement ==
  ASSUME NEW m, IsMesh(m), Accepted(m)
  PROVE  /\ IsPlacement(m, Physical(m))
         /\ \E U, V \in Nat : IsStrided(m, Physical(m), U, V)
<1> DEFINE id == [l \in World(m) |-> l]
<1>0. m.ep \in Nat /\ m.node \in Nat /\ 1 \in Nat
  BY DEF IsMesh
<1>1. IsPlacement(m, id) /\ IsStrided(m, id, m.ep, 1)
  BY IdentityPlacement
<1>2. m.node = 0 => Physical(m) = id
  BY DEF Physical
<1>3. ASSUME m.node # 0
      PROVE  \/ CanStripe(m) /\ Physical(m) = Striped(m)
             \/ ExpertsAcrossNodes(m) /\ Physical(m) = ExpertPlacement(m)
             \/ m.node % ModelSize(m) = 0 /\ Physical(m) = RoundRobin(m)
             \/ Physical(m) = id
  <2>1. CASE m.policy = "inter_node_cp"
    BY <1>3, <2>1 DEF Physical, Accepted
  <2>2. CASE m.policy = "auto" /\ ExpertsAcrossNodes(m)
    BY <1>3, <2>2 DEF Physical
  <2>3. CASE m.policy = "auto" /\ ~ ExpertsAcrossNodes(m)
    <3>1. Physical(m) = IF ReplicasFitNodes(m) THEN RoundRobin(m) ELSE id
      BY <1>3, <2>3 DEF Physical
    <3> QED
      BY <3>1 DEF ReplicasFitNodes
  <2> QED
    BY <2>1, <2>2, <2>3 DEF IsMesh
<1>4. m.node # 0 => WorldSize(m) % m.node = 0
  BY DEF Accepted
<1> HIDE DEF id
<1>5. \/ IsPlacement(m, Physical(m)) /\ IsStrided(m, Physical(m), m.ep, 1)
      \/ IsPlacement(m, Physical(m)) /\ IsStrided(m, Physical(m), 1, m.node)
  BY <1>1, <1>2, <1>3, <1>4, StripedPlacement, ExpertsPlaced, RoundRobinPlacement
<1> QED
  BY <1>0, <1>5

-----------------------------------------------------------------------------
(* The groups of a plan.                                                   *)

AttributeNames ==
  {"data", "model", "model_input", "context_block", "clean_replica", "tensor", "pipeline", "expert"}

\* The names of the groups, as a set.
LEMMA AttributesAre == ToSet(Attributes) = AttributeNames
<1>1. ASSUME NEW a \in ToSet(Attributes) PROVE a \in AttributeNames
  BY DEF ToSet, Attributes, AttributeNames
<1>2. ASSUME NEW a \in AttributeNames PROVE a \in ToSet(Attributes)
  <2>1. /\ DOMAIN Attributes = 1 .. 8
        /\ Attributes[1] = "data" /\ Attributes[2] = "model" /\ Attributes[3] = "model_input"
        /\ Attributes[4] = "context_block" /\ Attributes[5] = "clean_replica"
        /\ Attributes[6] = "tensor" /\ Attributes[7] = "pipeline" /\ Attributes[8] = "expert"
    BY DEF Attributes
  <2>2. 1 \in DOMAIN Attributes /\ 2 \in DOMAIN Attributes /\ 3 \in DOMAIN Attributes
        /\ 4 \in DOMAIN Attributes /\ 5 \in DOMAIN Attributes /\ 6 \in DOMAIN Attributes
        /\ 7 \in DOMAIN Attributes /\ 8 \in DOMAIN Attributes
    BY <2>1
  <2> QED
    BY <2>1, <2>2 DEF ToSet, AttributeNames
<1> QED
  BY <1>1, <1>2

\* Ranks with coordinates c and d are in one group of kind a.
Alike(m, a, c, d) ==
  /\ a # "data" => c.dp = d.dp
  /\ a \notin {"pipeline", "model"} => c.pp = d.pp
  /\ a \notin {"context_block", "clean_replica", "model_input", "model"} => c.local = d.local
  /\ a = "context_block" => d.local \in RingLocals(m, c.local)
  /\ a = "clean_replica" => d.local \in ReplicaLocals(m, c.local)
  /\ a \notin {"tensor", "model_input", "model"} => c.tp = d.tp
  /\ a \notin {"expert", "model"} => c.ep = d.ep

Peers(m, a, l) == {k \in World(m) : Alike(m, a, Coords(m, l), Coords(m, k))}

\* Rings and replicas divide the local axis: each local rank is in its own, and
\* its members come to the same.
LEMMA RingLocalsAgree ==
  ASSUME NEW m, IsMesh(m), NEW i \in 0 .. LocalSize(m) - 1
  PROVE  /\ i \in RingLocals(m, i) /\ i \in ReplicaLocals(m, i)
         /\ RingLocals(m, i) \subseteq 0 .. LocalSize(m) - 1
         /\ ReplicaLocals(m, i) \subseteq 0 .. LocalSize(m) - 1
         /\ \A j \in RingLocals(m, i) : RingLocals(m, j) = RingLocals(m, i)
         /\ \A j \in ReplicaLocals(m, i) : ReplicaLocals(m, j) = ReplicaLocals(m, i)
<1>1. CASE m.cp = 1 \/ m.bp = 1
  BY <1>1 DEF RingLocals, ReplicaLocals
<1>2. CASE ~ (m.cp = 1 \/ m.bp = 1)
  BY <1>2 DEF RingLocals, ReplicaLocals
<1> QED
  BY <1>1, <1>2

\* To be in one group is an equivalence.
LEMMA PeersAgree ==
  ASSUME NEW m, IsMesh(m), NEW a \in AttributeNames, NEW l \in World(m)
  PROVE  /\ l \in Peers(m, a, l)
         /\ Peers(m, a, l) \in SUBSET World(m)
         /\ \A k \in Peers(m, a, l) : Peers(m, a, k) = Peers(m, a, l)
<1>1. \A k \in World(m) : Coords(m, k).local \in 0 .. LocalSize(m) - 1
  BY CoordsType
<1>2. l \in Peers(m, a, l)
  BY <1>1, RingLocalsAgree DEF Peers, Alike
<1>3. ASSUME NEW k \in Peers(m, a, l)
      PROVE  Peers(m, a, k) = Peers(m, a, l)
  <2> DEFINE c == Coords(m, l)
             d == Coords(m, k)
  <2>1. Alike(m, a, c, d) /\ c.local \in 0 .. LocalSize(m) - 1
    BY <1>1, <1>3 DEF Peers
  <2>2. /\ a = "context_block" => RingLocals(m, d.local) = RingLocals(m, c.local)
        /\ a = "clean_replica" => ReplicaLocals(m, d.local) = ReplicaLocals(m, c.local)
    BY <2>1, RingLocalsAgree DEF Alike
  <2> HIDE DEF c, d
  <2>3. ASSUME NEW e PROVE Alike(m, a, c, e) <=> Alike(m, a, d, e)
    BY <2>1, <2>2 DEF Alike
  <2> QED
    BY <2>3 DEF Peers, c, d
<1> QED
  BY <1>2, <1>3 DEF Peers

\* The coordinates of a rank with one of them replaced.
LEMMA MovedAlong ==
  ASSUME NEW m, IsMesh(m), NEW c \in Box(m)
  PROVE  /\ c = [dp |-> c.dp, pp |-> c.pp, local |-> c.local, tp |-> c.tp, ep |-> c.ep]
         /\ \A x \in 0 .. m.dp - 1 : [c EXCEPT !.dp = x] \in Box(m)
         /\ \A x \in 0 .. m.pp - 1 : [c EXCEPT !.pp = x] \in Box(m)
         /\ \A x \in 0 .. LocalSize(m) - 1 : [c EXCEPT !.local = x] \in Box(m)
         /\ \A x \in 0 .. m.tp - 1 : [c EXCEPT !.tp = x] \in Box(m)
         /\ \A x \in 0 .. m.ep - 1 : [c EXCEPT !.ep = x] \in Box(m)
BY DEF Box

\* A comprehension over moves of c gives the ranks that are alike.
LEMMA MovesArePeers ==
  ASSUME NEW m, IsMesh(m), NEW a, NEW l \in World(m), NEW D \in SUBSET Box(m),
         \A d \in Box(m) : d \in D <=> Alike(m, a, Coords(m, l), d)
  PROVE  {RankFromCoords(m, d) : d \in D} = Peers(m, a, l)
<1>1. ASSUME NEW d \in D PROVE RankFromCoords(m, d) \in Peers(m, a, l)
  BY CoordsHaveRank DEF Peers
<1>2. ASSUME NEW k \in Peers(m, a, l) PROVE k \in {RankFromCoords(m, d) : d \in D}
  <2>1. Coords(m, k) \in Box(m) /\ RankFromCoords(m, Coords(m, k)) = k
    BY RankHasCoords DEF Peers
  <2>2. Coords(m, k) \in D
    BY <2>1 DEF Peers
  <2> QED
    BY <2>1, <2>2
<1> QED
  BY <1>1, <1>2

\* The loops of the builder go over the ranks that are alike.
LEMMA LoopCoords ==
  ASSUME NEW m, IsMesh(m), NEW l \in World(m), NEW c, c = Coords(m, l)
  PROVE  /\ c.dp \in 0 .. m.dp - 1 /\ c.pp \in 0 .. m.pp - 1 /\ c.local \in 0 .. LocalSize(m) - 1
         /\ c.tp \in 0 .. m.tp - 1 /\ c.ep \in 0 .. m.ep - 1
         /\ c = [dp |-> c.dp, pp |-> c.pp, local |-> c.local, tp |-> c.tp, ep |-> c.ep]
         /\ RingLocals(m, c.local) \subseteq 0 .. LocalSize(m) - 1
         /\ ReplicaLocals(m, c.local) \subseteq 0 .. LocalSize(m) - 1
<1>1. c \in Box(m)
  BY RankHasCoords
<1>2. /\ c.dp \in 0 .. m.dp - 1 /\ c.pp \in 0 .. m.pp - 1 /\ c.local \in 0 .. LocalSize(m) - 1
      /\ c.tp \in 0 .. m.tp - 1 /\ c.ep \in 0 .. m.ep - 1
  BY CoordsType
<1>3. c = [dp |-> c.dp, pp |-> c.pp, local |-> c.local, tp |-> c.tp, ep |-> c.ep]
  BY <1>1, MovedAlong
<1>4. RingLocals(m, c.local) \subseteq 0 .. LocalSize(m) - 1
      /\ ReplicaLocals(m, c.local) \subseteq 0 .. LocalSize(m) - 1
  BY <1>2, RingLocalsAgree
<1> QED
  BY <1>2, <1>3, <1>4

\* The loop of the builder over data replicas finds the peers of a rank.
LEMMA DataLoop ==
  ASSUME NEW m, IsMesh(m), NEW l \in World(m), NEW c, c = Coords(m, l)
  PROVE  {RankFromCoords(m, [c EXCEPT !.dp = d]) : d \in 0 .. m.dp - 1}
           = Peers(m, "data", l)
<1> DEFINE D == [dp : 0 .. m.dp - 1, pp : {c.pp}, local : {c.local}, tp : {c.tp}, ep : {c.ep}]
           Y == {RankFromCoords(m, [c EXCEPT !.dp = d]) : d \in 0 .. m.dp - 1}
<1>0. /\ c.dp \in 0 .. m.dp - 1 /\ c.pp \in 0 .. m.pp - 1 /\ c.local \in 0 .. LocalSize(m) - 1
      /\ c.tp \in 0 .. m.tp - 1 /\ c.ep \in 0 .. m.ep - 1
      /\ c = [dp |-> c.dp, pp |-> c.pp, local |-> c.local, tp |-> c.tp, ep |-> c.ep]
      /\ RingLocals(m, c.local) \subseteq 0 .. LocalSize(m) - 1
      /\ ReplicaLocals(m, c.local) \subseteq 0 .. LocalSize(m) - 1
  BY LoopCoords
<1>1. D \in SUBSET Box(m)
  BY <1>0 DEF Box
<1>2. ASSUME NEW z \in Box(m)
      PROVE  z \in D <=> Alike(m, "data", c, z)
  <2>1. z = [dp |-> z.dp, pp |-> z.pp, local |-> z.local, tp |-> z.tp, ep |-> z.ep]
        /\ z.dp \in 0 .. m.dp - 1 /\ z.pp \in 0 .. m.pp - 1 /\ z.local \in 0 .. LocalSize(m) - 1
        /\ z.tp \in 0 .. m.tp - 1 /\ z.ep \in 0 .. m.ep - 1
    BY DEF Box
  <2> QED
    BY <2>1 DEF Alike
<1>4. ASSUME NEW d \in 0 .. m.dp - 1
      PROVE  [c EXCEPT !.dp = d] \in D
  <2>1. [c EXCEPT !.dp = d] = [dp |-> d, pp |-> c.pp, local |-> c.local, tp |-> c.tp, ep |-> c.ep]
    BY <1>0
  <2> QED
    BY <2>1
<1>5. ASSUME NEW z \in D
      PROVE  z = [c EXCEPT !.dp = z.dp] /\ z.dp \in 0 .. m.dp - 1
  BY <1>0
<1> HIDE DEF D
<1>6. {RankFromCoords(m, z) : z \in D} = Peers(m, "data", l)
  BY <1>1, <1>2, MovesArePeers
<1>7. ASSUME NEW x \in Y PROVE x \in {RankFromCoords(m, z) : z \in D}
  BY <1>4
<1>8. ASSUME NEW x \in {RankFromCoords(m, z) : z \in D} PROVE x \in Y
  <2>1. PICK z \in D : x = RankFromCoords(m, z)
    OBVIOUS
  <2> QED
    BY <1>5, <2>1
<1> QED
  BY <1>6, <1>7, <1>8

\* The loop over TP ranks does.
LEMMA TensorLoop ==
  ASSUME NEW m, IsMesh(m), NEW l \in World(m), NEW c, c = Coords(m, l)
  PROVE  {RankFromCoords(m, [c EXCEPT !.tp = t]) : t \in 0 .. m.tp - 1}
           = Peers(m, "tensor", l)
<1> DEFINE D == [dp : {c.dp}, pp : {c.pp}, local : {c.local}, tp : 0 .. m.tp - 1, ep : {c.ep}]
           Y == {RankFromCoords(m, [c EXCEPT !.tp = t]) : t \in 0 .. m.tp - 1}
<1>0. /\ c.dp \in 0 .. m.dp - 1 /\ c.pp \in 0 .. m.pp - 1 /\ c.local \in 0 .. LocalSize(m) - 1
      /\ c.tp \in 0 .. m.tp - 1 /\ c.ep \in 0 .. m.ep - 1
      /\ c = [dp |-> c.dp, pp |-> c.pp, local |-> c.local, tp |-> c.tp, ep |-> c.ep]
      /\ RingLocals(m, c.local) \subseteq 0 .. LocalSize(m) - 1
      /\ ReplicaLocals(m, c.local) \subseteq 0 .. LocalSize(m) - 1
  BY LoopCoords
<1>1. D \in SUBSET Box(m)
  BY <1>0 DEF Box
<1>2. ASSUME NEW z \in Box(m)
      PROVE  z \in D <=> Alike(m, "tensor", c, z)
  <2>1. z = [dp |-> z.dp, pp |-> z.pp, local |-> z.local, tp |-> z.tp, ep |-> z.ep]
        /\ z.dp \in 0 .. m.dp - 1 /\ z.pp \in 0 .. m.pp - 1 /\ z.local \in 0 .. LocalSize(m) - 1
        /\ z.tp \in 0 .. m.tp - 1 /\ z.ep \in 0 .. m.ep - 1
    BY DEF Box
  <2> QED
    BY <2>1 DEF Alike
<1>4. ASSUME NEW t \in 0 .. m.tp - 1
      PROVE  [c EXCEPT !.tp = t] \in D
  <2>1. [c EXCEPT !.tp = t] = [dp |-> c.dp, pp |-> c.pp, local |-> c.local, tp |-> t, ep |-> c.ep]
    BY <1>0
  <2> QED
    BY <2>1
<1>5. ASSUME NEW z \in D
      PROVE  z = [c EXCEPT !.tp = z.tp] /\ z.tp \in 0 .. m.tp - 1
  BY <1>0
<1> HIDE DEF D
<1>6. {RankFromCoords(m, z) : z \in D} = Peers(m, "tensor", l)
  BY <1>1, <1>2, MovesArePeers
<1>7. ASSUME NEW x \in Y PROVE x \in {RankFromCoords(m, z) : z \in D}
  BY <1>4
<1>8. ASSUME NEW x \in {RankFromCoords(m, z) : z \in D} PROVE x \in Y
  <2>1. PICK z \in D : x = RankFromCoords(m, z)
    OBVIOUS
  <2> QED
    BY <1>5, <2>1
<1> QED
  BY <1>6, <1>7, <1>8

\* The loop over pipeline stages does.
LEMMA PipelineLoop ==
  ASSUME NEW m, IsMesh(m), NEW l \in World(m), NEW c, c = Coords(m, l)
  PROVE  {RankFromCoords(m, [c EXCEPT !.pp = p]) : p \in 0 .. m.pp - 1}
           = Peers(m, "pipeline", l)
<1> DEFINE D == [dp : {c.dp}, pp : 0 .. m.pp - 1, local : {c.local}, tp : {c.tp}, ep : {c.ep}]
           Y == {RankFromCoords(m, [c EXCEPT !.pp = p]) : p \in 0 .. m.pp - 1}
<1>0. /\ c.dp \in 0 .. m.dp - 1 /\ c.pp \in 0 .. m.pp - 1 /\ c.local \in 0 .. LocalSize(m) - 1
      /\ c.tp \in 0 .. m.tp - 1 /\ c.ep \in 0 .. m.ep - 1
      /\ c = [dp |-> c.dp, pp |-> c.pp, local |-> c.local, tp |-> c.tp, ep |-> c.ep]
      /\ RingLocals(m, c.local) \subseteq 0 .. LocalSize(m) - 1
      /\ ReplicaLocals(m, c.local) \subseteq 0 .. LocalSize(m) - 1
  BY LoopCoords
<1>1. D \in SUBSET Box(m)
  BY <1>0 DEF Box
<1>2. ASSUME NEW z \in Box(m)
      PROVE  z \in D <=> Alike(m, "pipeline", c, z)
  <2>1. z = [dp |-> z.dp, pp |-> z.pp, local |-> z.local, tp |-> z.tp, ep |-> z.ep]
        /\ z.dp \in 0 .. m.dp - 1 /\ z.pp \in 0 .. m.pp - 1 /\ z.local \in 0 .. LocalSize(m) - 1
        /\ z.tp \in 0 .. m.tp - 1 /\ z.ep \in 0 .. m.ep - 1
    BY DEF Box
  <2> QED
    BY <2>1 DEF Alike
<1>4. ASSUME NEW p \in 0 .. m.pp - 1
      PROVE  [c EXCEPT !.pp = p] \in D
  <2>1. [c EXCEPT !.pp = p] = [dp |-> c.dp, pp |-> p, local |-> c.local, tp |-> c.tp, ep |-> c.ep]
    BY <1>0
  <2> QED
    BY <2>1
<1>5. ASSUME NEW z \in D
      PROVE  z = [c EXCEPT !.pp = z.pp] /\ z.pp \in 0 .. m.pp - 1
  BY <1>0
<1> HIDE DEF D
<1>6. {RankFromCoords(m, z) : z \in D} = Peers(m, "pipeline", l)
  BY <1>1, <1>2, MovesArePeers
<1>7. ASSUME NEW x \in Y PROVE x \in {RankFromCoords(m, z) : z \in D}
  BY <1>4
<1>8. ASSUME NEW x \in {RankFromCoords(m, z) : z \in D} PROVE x \in Y
  <2>1. PICK z \in D : x = RankFromCoords(m, z)
    OBVIOUS
  <2> QED
    BY <1>5, <2>1
<1> QED
  BY <1>6, <1>7, <1>8

\* The loop over EP ranks does.
LEMMA ExpertLoop ==
  ASSUME NEW m, IsMesh(m), NEW l \in World(m), NEW c, c = Coords(m, l)
  PROVE  {RankFromCoords(m, [c EXCEPT !.ep = e]) : e \in 0 .. m.ep - 1}
           = Peers(m, "expert", l)
<1> DEFINE D == [dp : {c.dp}, pp : {c.pp}, local : {c.local}, tp : {c.tp}, ep : 0 .. m.ep - 1]
           Y == {RankFromCoords(m, [c EXCEPT !.ep = e]) : e \in 0 .. m.ep - 1}
<1>0. /\ c.dp \in 0 .. m.dp - 1 /\ c.pp \in 0 .. m.pp - 1 /\ c.local \in 0 .. LocalSize(m) - 1
      /\ c.tp \in 0 .. m.tp - 1 /\ c.ep \in 0 .. m.ep - 1
      /\ c = [dp |-> c.dp, pp |-> c.pp, local |-> c.local, tp |-> c.tp, ep |-> c.ep]
      /\ RingLocals(m, c.local) \subseteq 0 .. LocalSize(m) - 1
      /\ ReplicaLocals(m, c.local) \subseteq 0 .. LocalSize(m) - 1
  BY LoopCoords
<1>1. D \in SUBSET Box(m)
  BY <1>0 DEF Box
<1>2. ASSUME NEW z \in Box(m)
      PROVE  z \in D <=> Alike(m, "expert", c, z)
  <2>1. z = [dp |-> z.dp, pp |-> z.pp, local |-> z.local, tp |-> z.tp, ep |-> z.ep]
        /\ z.dp \in 0 .. m.dp - 1 /\ z.pp \in 0 .. m.pp - 1 /\ z.local \in 0 .. LocalSize(m) - 1
        /\ z.tp \in 0 .. m.tp - 1 /\ z.ep \in 0 .. m.ep - 1
    BY DEF Box
  <2> QED
    BY <2>1 DEF Alike
<1>4. ASSUME NEW e \in 0 .. m.ep - 1
      PROVE  [c EXCEPT !.ep = e] \in D
  <2>1. [c EXCEPT !.ep = e] = [dp |-> c.dp, pp |-> c.pp, local |-> c.local, tp |-> c.tp, ep |-> e]
    BY <1>0
  <2> QED
    BY <2>1
<1>5. ASSUME NEW z \in D
      PROVE  z = [c EXCEPT !.ep = z.ep] /\ z.ep \in 0 .. m.ep - 1
  BY <1>0
<1> HIDE DEF D
<1>6. {RankFromCoords(m, z) : z \in D} = Peers(m, "expert", l)
  BY <1>1, <1>2, MovesArePeers
<1>7. ASSUME NEW x \in Y PROVE x \in {RankFromCoords(m, z) : z \in D}
  BY <1>4
<1>8. ASSUME NEW x \in {RankFromCoords(m, z) : z \in D} PROVE x \in Y
  <2>1. PICK z \in D : x = RankFromCoords(m, z)
    OBVIOUS
  <2> QED
    BY <1>5, <2>1
<1> QED
  BY <1>6, <1>7, <1>8

\* The loop over a CP ring does.
LEMMA ContextLoop ==
  ASSUME NEW m, IsMesh(m), NEW l \in World(m), NEW c, c = Coords(m, l)
  PROVE  {RankFromCoords(m, [c EXCEPT !.local = k]) : k \in RingLocals(m, c.local)}
           = Peers(m, "context_block", l)
<1> DEFINE D == [dp : {c.dp}, pp : {c.pp}, local : RingLocals(m, c.local), tp : {c.tp}, ep : {c.ep}]
           Y == {RankFromCoords(m, [c EXCEPT !.local = k]) : k \in RingLocals(m, c.local)}
<1>0. /\ c.dp \in 0 .. m.dp - 1 /\ c.pp \in 0 .. m.pp - 1 /\ c.local \in 0 .. LocalSize(m) - 1
      /\ c.tp \in 0 .. m.tp - 1 /\ c.ep \in 0 .. m.ep - 1
      /\ c = [dp |-> c.dp, pp |-> c.pp, local |-> c.local, tp |-> c.tp, ep |-> c.ep]
      /\ RingLocals(m, c.local) \subseteq 0 .. LocalSize(m) - 1
      /\ ReplicaLocals(m, c.local) \subseteq 0 .. LocalSize(m) - 1
  BY LoopCoords
<1>1. D \in SUBSET Box(m)
  BY <1>0 DEF Box
<1>2. ASSUME NEW z \in Box(m)
      PROVE  z \in D <=> Alike(m, "context_block", c, z)
  <2>1. z = [dp |-> z.dp, pp |-> z.pp, local |-> z.local, tp |-> z.tp, ep |-> z.ep]
        /\ z.dp \in 0 .. m.dp - 1 /\ z.pp \in 0 .. m.pp - 1 /\ z.local \in 0 .. LocalSize(m) - 1
        /\ z.tp \in 0 .. m.tp - 1 /\ z.ep \in 0 .. m.ep - 1
    BY DEF Box
  <2> QED
    BY <2>1 DEF Alike
<1>4. ASSUME NEW k \in RingLocals(m, c.local)
      PROVE  [c EXCEPT !.local = k] \in D
  <2>1. [c EXCEPT !.local = k] = [dp |-> c.dp, pp |-> c.pp, local |-> k, tp |-> c.tp, ep |-> c.ep]
    BY <1>0
  <2> QED
    BY <2>1
<1>5. ASSUME NEW z \in D
      PROVE  z = [c EXCEPT !.local = z.local] /\ z.local \in RingLocals(m, c.local)
  BY <1>0
<1> HIDE DEF D
<1>6. {RankFromCoords(m, z) : z \in D} = Peers(m, "context_block", l)
  BY <1>1, <1>2, MovesArePeers
<1>7. ASSUME NEW x \in Y PROVE x \in {RankFromCoords(m, z) : z \in D}
  BY <1>4
<1>8. ASSUME NEW x \in {RankFromCoords(m, z) : z \in D} PROVE x \in Y
  <2>1. PICK z \in D : x = RankFromCoords(m, z)
    OBVIOUS
  <2> QED
    BY <1>5, <2>1
<1> QED
  BY <1>6, <1>7, <1>8

\* The loop over the replicas of a clean shard does.
LEMMA ReplicaLoop ==
  ASSUME NEW m, IsMesh(m), NEW l \in World(m), NEW c, c = Coords(m, l)
  PROVE  {RankFromCoords(m, [c EXCEPT !.local = k]) : k \in ReplicaLocals(m, c.local)}
           = Peers(m, "clean_replica", l)
<1> DEFINE D == [dp : {c.dp}, pp : {c.pp}, local : ReplicaLocals(m, c.local), tp : {c.tp}, ep : {c.ep}]
           Y == {RankFromCoords(m, [c EXCEPT !.local = k]) : k \in ReplicaLocals(m, c.local)}
<1>0. /\ c.dp \in 0 .. m.dp - 1 /\ c.pp \in 0 .. m.pp - 1 /\ c.local \in 0 .. LocalSize(m) - 1
      /\ c.tp \in 0 .. m.tp - 1 /\ c.ep \in 0 .. m.ep - 1
      /\ c = [dp |-> c.dp, pp |-> c.pp, local |-> c.local, tp |-> c.tp, ep |-> c.ep]
      /\ RingLocals(m, c.local) \subseteq 0 .. LocalSize(m) - 1
      /\ ReplicaLocals(m, c.local) \subseteq 0 .. LocalSize(m) - 1
  BY LoopCoords
<1>1. D \in SUBSET Box(m)
  BY <1>0 DEF Box
<1>2. ASSUME NEW z \in Box(m)
      PROVE  z \in D <=> Alike(m, "clean_replica", c, z)
  <2>1. z = [dp |-> z.dp, pp |-> z.pp, local |-> z.local, tp |-> z.tp, ep |-> z.ep]
        /\ z.dp \in 0 .. m.dp - 1 /\ z.pp \in 0 .. m.pp - 1 /\ z.local \in 0 .. LocalSize(m) - 1
        /\ z.tp \in 0 .. m.tp - 1 /\ z.ep \in 0 .. m.ep - 1
    BY DEF Box
  <2> QED
    BY <2>1 DEF Alike
<1>4. ASSUME NEW k \in ReplicaLocals(m, c.local)
      PROVE  [c EXCEPT !.local = k] \in D
  <2>1. [c EXCEPT !.local = k] = [dp |-> c.dp, pp |-> c.pp, local |-> k, tp |-> c.tp, ep |-> c.ep]
    BY <1>0
  <2> QED
    BY <2>1
<1>5. ASSUME NEW z \in D
      PROVE  z = [c EXCEPT !.local = z.local] /\ z.local \in ReplicaLocals(m, c.local)
  BY <1>0
<1> HIDE DEF D
<1>6. {RankFromCoords(m, z) : z \in D} = Peers(m, "clean_replica", l)
  BY <1>1, <1>2, MovesArePeers
<1>7. ASSUME NEW x \in Y PROVE x \in {RankFromCoords(m, z) : z \in D}
  BY <1>4
<1>8. ASSUME NEW x \in {RankFromCoords(m, z) : z \in D} PROVE x \in Y
  <2>1. PICK z \in D : x = RankFromCoords(m, z)
    OBVIOUS
  <2> QED
    BY <1>5, <2>1
<1> QED
  BY <1>6, <1>7, <1>8

\* The loops over the ranks that share an input do.
LEMMA InputLoop ==
  ASSUME NEW m, IsMesh(m), NEW l \in World(m), NEW c, c = Coords(m, l)
  PROVE  {RankFromCoords(m, [c EXCEPT !.local = p[1], !.tp = p[2]]) :
             p \in (0 .. LocalSize(m) - 1) \X (0 .. m.tp - 1)}
           = Peers(m, "model_input", l)
<1> DEFINE D == [dp : {c.dp}, pp : {c.pp}, local : 0 .. LocalSize(m) - 1, tp : 0 .. m.tp - 1, ep : {c.ep}]
           X(p) == [c EXCEPT !.local = p[1], !.tp = p[2]]
           A == (0 .. LocalSize(m) - 1) \X (0 .. m.tp - 1)
           Y == {RankFromCoords(m, X(p)) : p \in A}
<1>0. /\ c.dp \in 0 .. m.dp - 1 /\ c.pp \in 0 .. m.pp - 1 /\ c.local \in 0 .. LocalSize(m) - 1
      /\ c.tp \in 0 .. m.tp - 1 /\ c.ep \in 0 .. m.ep - 1
      /\ c = [dp |-> c.dp, pp |-> c.pp, local |-> c.local, tp |-> c.tp, ep |-> c.ep]
  BY LoopCoords
<1>1. D \in SUBSET Box(m)
  BY <1>0 DEF Box
<1>2. ASSUME NEW z \in Box(m)
      PROVE  z \in D <=> Alike(m, "model_input", c, z)
  <2>1. z = [dp |-> z.dp, pp |-> z.pp, local |-> z.local, tp |-> z.tp, ep |-> z.ep]
        /\ z.dp \in 0 .. m.dp - 1 /\ z.pp \in 0 .. m.pp - 1 /\ z.local \in 0 .. LocalSize(m) - 1
        /\ z.tp \in 0 .. m.tp - 1 /\ z.ep \in 0 .. m.ep - 1
    BY DEF Box
  <2> QED
    BY <2>1 DEF Alike
<1>3. ASSUME NEW p \in A
      PROVE  X(p) = [dp |-> c.dp, pp |-> c.pp, local |-> p[1], tp |-> p[2], ep |-> c.ep]
  <2> DEFINE b == [c EXCEPT !.local = p[1]]
  <2>1. b = [dp |-> c.dp, pp |-> c.pp, local |-> p[1], tp |-> c.tp, ep |-> c.ep]
    BY <1>0
  <2>2. X(p) = [b EXCEPT !.tp = p[2]]
    OBVIOUS
  <2> HIDE DEF b, X
  <2> QED
    BY <2>1, <2>2
<1>4. ASSUME NEW p \in A PROVE X(p) \in D
  BY <1>3
<1>5. ASSUME NEW z \in D
      PROVE  z = X(<<z.local, z.tp>>) /\ <<z.local, z.tp>> \in A
  <2>1. z = [dp |-> c.dp, pp |-> c.pp, local |-> z.local, tp |-> z.tp, ep |-> c.ep]
    OBVIOUS
  <2>2. <<z.local, z.tp>> \in A
    OBVIOUS
  <2> HIDE DEF X
  <2>3. X(<<z.local, z.tp>>) = [dp |-> c.dp, pp |-> c.pp, local |-> z.local, tp |-> z.tp, ep |-> c.ep]
    BY <1>3, <2>2
  <2> QED
    BY <2>1, <2>2, <2>3
<1> HIDE DEF D, X, A
<1>6. {RankFromCoords(m, z) : z \in D} = Peers(m, "model_input", l)
  BY <1>1, <1>2, MovesArePeers
<1>7. ASSUME NEW x \in Y PROVE x \in {RankFromCoords(m, z) : z \in D}
  BY <1>4
<1>8. ASSUME NEW x \in {RankFromCoords(m, z) : z \in D} PROVE x \in Y
  <2>1. PICK z \in D : x = RankFromCoords(m, z)
    OBVIOUS
  <2> QED
    BY <1>5, <2>1
<1>9. Y = Peers(m, "model_input", l)
  BY <1>6, <1>7, <1>8
<1> QED
  BY <1>9 DEF X, A

\* All ranks of a replica.
LEMMA ReplicaIsInterval ==
  ASSUME NEW m, IsMesh(m), NEW l \in World(m)
  PROVE  Coords(m, l).dp * ModelSize(m) .. (Coords(m, l).dp + 1) * ModelSize(m) - 1
           = Peers(m, "model", l)
<1> DEFINE s == ModelSize(m)
           x == Coords(m, l).dp
<1>2. s \in Nat \ {0} /\ x \in 0 .. m.dp - 1 /\ m.dp \in Nat \ {0}
  BY CoordsType, MeshSizes
<1>3. ASSUME NEW k \in World(m)
      PROVE  /\ Coords(m, k).dp \in Int /\ k % s \in 0 .. s - 1
             /\ k = Coords(m, k).dp * s + (k % s)
  <2>1. k \in 0 .. m.dp * s - 1
    BY DEF World, WorldSize
  <2>2. /\ k \div s \in 0 .. m.dp - 1 /\ k % s \in 0 .. s - 1
        /\ k = (k \div s) * s + (k % s)
    BY <1>2, <2>1, Digits
  <2>3. Coords(m, k).dp = k \div s
    BY DEF Coords
  <2> QED
    BY <2>2, <2>3
<1> HIDE DEF s, x
<1>4. (x + 1) * s = x * s + s /\ x * s \in Int /\ x * s >= 0
  <2>1. x \in Nat
    BY <1>2
  <2> QED
    BY <1>2, <2>1
<1>5. ASSUME NEW k \in x * s .. (x + 1) * s - 1
      PROVE  k \in Peers(m, "model", l)
  <2> DEFINE r == k - x * s
  <2>1. k \in Int /\ r \in 0 .. s - 1 /\ k = x * s + r
    BY <1>2, <1>4
  <2> HIDE DEF r
  <2>2. x * s + r \in 0 .. m.dp * s - 1
    BY <1>2, <2>1, TwoDigits
  <2>3. k \in World(m)
    BY <2>1, <2>2 DEF World, WorldSize, s
  <2>4. Coords(m, k).dp * s + (k % s) = x * s + r /\ x \in Int
    BY <1>2, <1>3, <2>1, <2>3
  <2>5. Coords(m, k).dp = x
    BY <1>2, <1>3, <2>1, <2>3, <2>4, SameDigits
  <2> QED
    BY <2>3, <2>5 DEF Peers, Alike, x
<1>6. ASSUME NEW k \in Peers(m, "model", l)
      PROVE  k \in x * s .. (x + 1) * s - 1
  <2>1. k \in World(m) /\ Coords(m, k).dp = x
    BY DEF Peers, Alike, x
  <2>2. k % s \in 0 .. s - 1 /\ k = x * s + (k % s)
    BY <1>3, <2>1
  <2> QED
    BY <1>2, <1>4, <2>2
<1>7. x * s .. (x + 1) * s - 1 = Peers(m, "model", l)
  BY <1>5, <1>6
<1> QED
  BY <1>7 DEF x, s

\* Each group of an assignment lists the physical ranks of the peers.
LEMMA GroupsArePeers ==
  ASSUME NEW m, IsMesh(m), NEW l \in World(m), NEW place, NEW a \in AttributeNames
  PROVE  Assignment(m, place, l).groups[a] = Listed(place, Peers(m, a, l))
<1> DEFINE c == Coords(m, l)
           y1 == {RankFromCoords(m, [c EXCEPT !.dp = d]) : d \in 0 .. m.dp - 1}
           y2 == {RankFromCoords(m, [c EXCEPT !.dp = p[1], !.ep = p[2]]) :
                    p \in (0 .. m.dp - 1) \X (0 .. m.ep - 1)}
           y3 == {RankFromCoords(m, [c EXCEPT !.local = k]) : k \in RingLocals(m, c.local)}
           y4 == {RankFromCoords(m, [c EXCEPT !.local = k]) : k \in ReplicaLocals(m, c.local)}
           y5 == {RankFromCoords(m, [c EXCEPT !.tp = t]) : t \in 0 .. m.tp - 1}
           y6 == {RankFromCoords(m, [c EXCEPT !.pp = p]) : p \in 0 .. m.pp - 1}
           y7 == {RankFromCoords(m, [c EXCEPT !.ep = e]) : e \in 0 .. m.ep - 1}
           y8 == {RankFromCoords(m, [c EXCEPT !.local = p[1], !.tp = p[2]]) :
                    p \in (0 .. LocalSize(m) - 1) \X (0 .. m.tp - 1)}
           y9 == c.dp * ModelSize(m) .. (c.dp + 1) * ModelSize(m) - 1
           g == Assignment(m, place, l).groups
           L(y) == Listed(place, y)
<1>1. Assignment(m, place, l) =
       [at |-> c, context |-> ContextRank(m, c.local), block |-> BlockRank(m, c.local),
        groups |-> [data |-> L(y1), dense_data |-> L(y2), context_block |-> L(y3),
                    clean_replica |-> L(y4), tensor |-> L(y5), pipeline |-> L(y6),
                    expert |-> L(y7), model_input |-> L(y8), model |-> L(y9)]]
  BY DEF Assignment
<1>2. y1 = Peers(m, "data", l)
  BY DataLoop
<1>3. y3 = Peers(m, "context_block", l)
  BY ContextLoop
<1>4. y4 = Peers(m, "clean_replica", l)
  BY ReplicaLoop
<1>5. y5 = Peers(m, "tensor", l)
  BY TensorLoop
<1>6. y6 = Peers(m, "pipeline", l)
  BY PipelineLoop
<1>7. y7 = Peers(m, "expert", l)
  BY ExpertLoop
<1>8. y8 = Peers(m, "model_input", l)
  BY InputLoop
<1>9. y9 = Peers(m, "model", l)
  BY ReplicaIsInterval
<1> HIDE DEF y1, y2, y3, y4, y5, y6, y7, y8, y9, c, L
<1>10. g = [data |-> L(y1), dense_data |-> L(y2), context_block |-> L(y3),
            clean_replica |-> L(y4), tensor |-> L(y5), pipeline |-> L(y6),
            expert |-> L(y7), model_input |-> L(y8), model |-> L(y9)]
  BY <1>1
<1> HIDE DEF g
<1>11. g[a] = L(Peers(m, a, l))
  <2>1. /\ g.data = L(y1) /\ g.context_block = L(y3) /\ g.clean_replica = L(y4)
        /\ g.tensor = L(y5) /\ g.pipeline = L(y6) /\ g.expert = L(y7)
        /\ g.model_input = L(y8) /\ g.model = L(y9)
    BY <1>10
  <2> QED
    BY <1>2, <1>3, <1>4, <1>5, <1>6, <1>7, <1>8, <1>9, <2>1 DEF AttributeNames
<1> QED
  BY <1>11 DEF g, L

-----------------------------------------------------------------------------
(* The plan by physical rank.                                              *)

\* The logical rank a physical rank plays.
LogicalOf(m, r) == CHOOSE l \in World(m) : Physical(m)[l] = r

\* The world is finite.
LEMMA WorldFinite ==
  ASSUME NEW m, IsMesh(m)
  PROVE  /\ IsFiniteSet(World(m)) /\ Cardinality(World(m)) = WorldSize(m)
         /\ World(m) \in SUBSET Int
         /\ \A S \in SUBSET World(m) : IsFiniteSet(S) /\ S \in SUBSET Int
<1>1. WorldSize(m) \in Nat \ {0}
  BY MeshSizes
<1>2. IsFiniteSet(World(m)) /\ Cardinality(World(m)) = WorldSize(m)
  BY <1>1, FS_Interval DEF World
<1>3. World(m) \in SUBSET Int
  BY DEF World
<1>4. \A S \in SUBSET World(m) : IsFiniteSet(S)
  BY <1>2, FS_Subset
<1> QED
  BY <1>2, <1>3, <1>4

\* Every physical rank plays exactly one logical rank.
LEMMA LogicalRank ==
  ASSUME NEW m, IsMesh(m), Accepted(m)
  PROVE  /\ \A r \in World(m) : LogicalOf(m, r) \in World(m) /\ Physical(m)[LogicalOf(m, r)] = r
         /\ \A l \in World(m) : Physical(m)[l] \in World(m) /\ LogicalOf(m, Physical(m)[l]) = l
<1> DEFINE p == Physical(m)
           W == World(m)
<1>1. p \in [W -> W] /\ \A k, l \in W : p[k] = p[l] => k = l
  BY PhysicalPlacement DEF IsPlacement
<1>2. IsFiniteSet(W)
  BY WorldFinite
<1> HIDE DEF p, W
<1>3. p \in Injection(W, W)
  BY <1>1 DEF Injection, IsInjective
<1>4. p \in Surjection(W, W)
  BY <1>2, <1>3, FS_Injection
<1>5. \A r \in W : \E l \in W : p[l] = r
  BY <1>4 DEF Surjection
<1>6. ASSUME NEW r \in W
      PROVE  LogicalOf(m, r) \in W /\ p[LogicalOf(m, r)] = r
  <2>1. \E l \in World(m) : Physical(m)[l] = r
    BY <1>5 DEF p, W
  <2> QED
    BY <2>1 DEF LogicalOf, p, W
<1>7. ASSUME NEW l \in W
      PROVE  p[l] \in W /\ LogicalOf(m, p[l]) = l
  <2>1. p[l] \in W
    BY <1>1
  <2>2. LogicalOf(m, p[l]) \in W /\ p[LogicalOf(m, p[l])] = p[l]
    BY <1>6, <2>1
  <2> QED
    BY <1>1, <2>1, <2>2
<1> QED
  BY <1>6, <1>7 DEF p, W

\* A physical rank is assigned what its logical rank is.
LEMMA PlanByLogicalRank ==
  ASSUME NEW m, IsMesh(m), Accepted(m), NEW r \in World(m)
  PROVE  Plan(m)[r] = Assignment(m, Physical(m), LogicalOf(m, r))
<1> DEFINE place == Physical(m)
           Logical(p) == {l \in World(m) : place[l] = p}
           Inverse1(p) == IF Logical(p) = {} THEN 0
                          ELSE CHOOSE l \in Logical(p) : \A k \in Logical(p) : k <= l
           i == LogicalOf(m, r)
<1>1. Plan(m)[r] = Assignment(m, place, Inverse1(r))
  BY DEF Plan
<1>2. i \in World(m) /\ place[i] = r /\ \A l \in World(m) : place[l] = r => l = i
  BY LogicalRank
<1> HIDE DEF i, place
<1>3. Logical(r) = {i}
  BY <1>2
<1>4. i <= i
  BY <1>2 DEF World
<1>5. Inverse1(r) = i
  <2> HIDE DEF Logical
  <2>1. \E l \in Logical(r) : \A k \in Logical(r) : k <= l
    BY <1>3, <1>4
  <2>2. (CHOOSE l \in Logical(r) : \A k \in Logical(r) : k <= l) \in Logical(r)
    BY <2>1
  <2> QED
    BY <1>3, <2>2
<1> QED
  BY <1>1, <1>5 DEF i, place

\* The plan of a mesh, as the initial state has it.
Built(m) ==
  [r \in World(m) |->
     [at |-> Plan(m)[r].at, context |-> Plan(m)[r].context, block |-> Plan(m)[r].block,
      groups |-> Plan(m)[r].groups, optimizer |-> OptimizerGroup(Plan(m), r)]]

\* The ranks in a group of kind a with r.
Mates(m, a, r) == {q \in World(m) : LogicalOf(m, q) \in Peers(m, a, LogicalOf(m, r))}

\* The ranks that hold the same weights as r.
Holders(m, r) ==
  {q \in World(m) : LET c == Coords(m, LogicalOf(m, r))
                        d == Coords(m, LogicalOf(m, q))
                    IN c.pp = d.pp /\ c.tp = d.tp /\ c.ep = d.ep}

\* The optimizer group lists the ranks that hold the same shard.
LEMMA OptimizerHolders ==
  ASSUME NEW m, IsMesh(m), Accepted(m), NEW r \in World(m)
  PROVE  OptimizerGroup(Plan(m), r) = Ascending(Holders(m, r))
<1>1. ASSUME NEW q \in World(m)
      PROVE  Plan(m)[q].at = Coords(m, LogicalOf(m, q))
  <2>1. Plan(m)[q] = Assignment(m, Physical(m), LogicalOf(m, q))
    BY PlanByLogicalRank
  <2>2. Assignment(m, Physical(m), LogicalOf(m, q)).at = Coords(m, LogicalOf(m, q))
    BY DEF Assignment
  <2> QED
    BY <2>1, <2>2
<1>2. DOMAIN Plan(m) = World(m)
  BY DEF Plan
<1> DEFINE H == {q \in DOMAIN Plan(m) : \A a \in {"pp", "tp", "ep"} :
                   Plan(m)[q].at[a] = Plan(m)[r].at[a]}
<1>3. H = Holders(m, r)
  BY <1>1, <1>2 DEF Holders
<1> HIDE DEF H
<1>4. OptimizerGroup(Plan(m), r) = Ascending(H)
  BY DEF OptimizerGroup, H
<1> QED
  BY <1>3, <1>4

\* What rank r of a built plan has.
LEMMA BuiltRank ==
  ASSUME NEW m, IsMesh(m), Accepted(m), NEW r \in World(m)
  PROVE  /\ DOMAIN Built(m) = World(m)
         /\ Built(m)[r].at = Coords(m, LogicalOf(m, r))
         /\ Built(m)[r].context = ContextRank(m, Coords(m, LogicalOf(m, r)).local)
         /\ \A a \in AttributeNames :
              Built(m)[r].groups[a] = Listed(Physical(m), Peers(m, a, LogicalOf(m, r)))
         /\ Built(m)[r].optimizer = Ascending(Holders(m, r))
<1> DEFINE l == LogicalOf(m, r)
<1>1. Plan(m)[r] = Assignment(m, Physical(m), l)
  BY PlanByLogicalRank
<1>2. l \in World(m)
  BY LogicalRank
<1>3. Built(m)[r] = [at |-> Plan(m)[r].at, context |-> Plan(m)[r].context, block |-> Plan(m)[r].block,
                     groups |-> Plan(m)[r].groups, optimizer |-> OptimizerGroup(Plan(m), r)]
  BY DEF Built
<1>4. Built(m)[r].at = Plan(m)[r].at /\ Built(m)[r].context = Plan(m)[r].context
      /\ Built(m)[r].groups = Plan(m)[r].groups /\ Built(m)[r].optimizer = OptimizerGroup(Plan(m), r)
  BY <1>3
<1>5. Assignment(m, Physical(m), l).at = Coords(m, l)
      /\ Assignment(m, Physical(m), l).context = ContextRank(m, Coords(m, l).local)
  BY DEF Assignment
<1>6. \A a \in AttributeNames : Plan(m)[r].groups[a] = Listed(Physical(m), Peers(m, a, l))
  <2> SUFFICES ASSUME NEW a \in AttributeNames
               PROVE  Plan(m)[r].groups[a] = Listed(Physical(m), Peers(m, a, l))
    OBVIOUS
  <2> HIDE DEF l
  <2> QED
    BY <1>1, <1>2, GroupsArePeers
<1>7. DOMAIN Built(m) = World(m)
  BY DEF Built
<1>8. Built(m)[r].optimizer = Ascending(Holders(m, r))
  BY <1>4, OptimizerHolders
<1> QED
  BY <1>1, <1>4, <1>5, <1>6, <1>7, <1>8

\* A list holds the physical ranks of its logical ranks, in their order.
LEMMA ListedRanks ==
  ASSUME NEW m, IsMesh(m), Accepted(m), NEW S \in SUBSET World(m)
  PROVE  /\ Listed(Physical(m), S) \in Seq(World(m))
         /\ Len(Listed(Physical(m), S)) = Cardinality(S) /\ Cardinality(S) \in Nat
         /\ DOMAIN Listed(Physical(m), S) = 1 .. Cardinality(S)
         /\ ToSet(Listed(Physical(m), S)) = {q \in World(m) : LogicalOf(m, q) \in S}
         /\ \A l \in S : /\ Cardinality(Below(S, l)) + 1 \in 1 .. Cardinality(S)
                         /\ Listed(Physical(m), S)[Cardinality(Below(S, l)) + 1] = Physical(m)[l]
<1> DEFINE p == Physical(m)
           s == Ascending(S)
           g == Listed(p, S)
           n == Cardinality(S)
<1>1. S \in SUBSET Int /\ IsFiniteSet(S)
  BY WorldFinite
<1>2. /\ n \in Nat /\ DOMAIN s = 1 .. n /\ \A i \in 1 .. n : s[i] \in S
      /\ \A x \in S : Cardinality(Below(S, x)) + 1 \in 1 .. n /\ s[Cardinality(Below(S, x)) + 1] = x
  BY <1>1, AscendingList
<1>3. g = [i \in DOMAIN s |-> p[s[i]]]
  BY DEF Listed
<1>4. \A l \in World(m) : p[l] \in World(m) /\ LogicalOf(m, p[l]) = l
  BY LogicalRank
<1>5. \A q \in World(m) : LogicalOf(m, q) \in World(m) /\ p[LogicalOf(m, q)] = q
  BY LogicalRank
<1> HIDE DEF p, s, g, n
<1>6. g \in Seq(World(m)) /\ Len(g) = n /\ DOMAIN g = 1 .. n
  <2>1. \A i \in 1 .. n : g[i] \in World(m)
    BY <1>2, <1>3, <1>4
  <2>2. DOMAIN g = 1 .. n /\ g = [i \in 1 .. n |-> g[i]]
    BY <1>2, <1>3
  <2>3. g \in [1 .. n -> World(m)]
    BY <2>1, <2>2
  <2> QED
    BY <1>2, <2>2, <2>3
<1>7. \A l \in S : Cardinality(Below(S, l)) + 1 \in 1 .. n /\ g[Cardinality(Below(S, l)) + 1] = p[l]
  BY <1>2, <1>3
<1>8. ToSet(g) = {q \in World(m) : LogicalOf(m, q) \in S}
  <2>1. ASSUME NEW q \in ToSet(g) PROVE q \in World(m) /\ LogicalOf(m, q) \in S
    <3>1. PICK i \in 1 .. n : q = p[s[i]]
      BY <1>2, <1>3 DEF ToSet
    <3> QED
      BY <1>2, <1>4, <3>1
  <2>2. ASSUME NEW q \in World(m), LogicalOf(m, q) \in S PROVE q \in ToSet(g)
    <3> DEFINE i == Cardinality(Below(S, LogicalOf(m, q))) + 1
    <3>1. i \in 1 .. n /\ g[i] = p[LogicalOf(m, q)]
      BY <1>7, <2>2
    <3>2. g[i] = q
      BY <1>5, <3>1
    <3> QED
      BY <1>6, <3>1, <3>2 DEF ToSet
  <2> QED
    BY <2>1, <2>2
<1> QED
  BY <1>2, <1>6, <1>7, <1>8 DEF p, g, n

\* What a reader of a plan needs of its groups.
LEMMA BuiltGroup ==
  ASSUME NEW m, IsMesh(m), Accepted(m), NEW r \in World(m), NEW a \in AttributeNames
  PROVE  /\ ToSet(Built(m)[r].groups[a]) = Mates(m, a, r)
         /\ r \in Mates(m, a, r) /\ Mates(m, a, r) \in SUBSET World(m)
         /\ Built(m)[r].groups[a] \in Seq(World(m))
         /\ Len(Built(m)[r].groups[a]) = Cardinality(Peers(m, a, LogicalOf(m, r)))
         /\ \A q \in Mates(m, a, r) : /\ Built(m)[q].groups[a] = Built(m)[r].groups[a]
                                      /\ Mates(m, a, q) = Mates(m, a, r)
<1> DEFINE l == LogicalOf(m, r)
           S == Peers(m, a, l)
<1>1. l \in World(m)
  BY LogicalRank
<1>2. l \in S /\ S \in SUBSET World(m) /\ \A k \in S : Peers(m, a, k) = S
  BY <1>1, PeersAgree
<1>3. Built(m)[r].groups[a] = Listed(Physical(m), S)
  BY BuiltRank
<1>4. /\ Listed(Physical(m), S) \in Seq(World(m))
      /\ Len(Listed(Physical(m), S)) = Cardinality(S)
      /\ ToSet(Listed(Physical(m), S)) = {q \in World(m) : LogicalOf(m, q) \in S}
  BY <1>2, ListedRanks
<1>5. ASSUME NEW q \in Mates(m, a, r)
      PROVE  Built(m)[q].groups[a] = Built(m)[r].groups[a] /\ Mates(m, a, q) = Mates(m, a, r)
  <2>1. q \in World(m) /\ LogicalOf(m, q) \in S
    BY DEF Mates
  <2>2. Peers(m, a, LogicalOf(m, q)) = S
    BY <1>2, <2>1
  <2>3. Built(m)[q].groups[a] = Listed(Physical(m), Peers(m, a, LogicalOf(m, q)))
    BY <2>1, BuiltRank
  <2> QED
    BY <1>3, <2>2, <2>3 DEF Mates
<1> QED
  BY <1>2, <1>3, <1>4, <1>5 DEF Mates

-----------------------------------------------------------------------------
(* The plan does not change.                                               *)

\* The run is one of the instances, under the plan of its mesh.
PlanMade ==
  /\ \E i \in Instances : mesh = i.mesh /\ backend = i.backend /\ sp = i.sp
  /\ plan = Built(mesh)

\* What is known of the run from how it was set up.
LEMMA PlanMadeFacts ==
  ASSUME PlanMade
  PROVE  /\ IsMesh(mesh) /\ Accepted(mesh) /\ Ranks = World(mesh)
         /\ sp \in BOOLEAN /\ (sp => mesh.tp > 1)
         /\ backend \in {"deepspeed_zero2", "torch_adamw", "torch_distributed_adamw"}
<1>1. PICK i \in Instances : mesh = i.mesh /\ backend = i.backend /\ sp = i.sp
  BY DEF PlanMade
<1>2. /\ i.backend \in {"deepspeed_zero2", "torch_adamw", "torch_distributed_adamw"}
      /\ {i.mesh.dp, i.mesh.pp, i.mesh.cp, i.mesh.bp, i.mesh.tp, i.mesh.ep} \subseteq Nat \ {0}
      /\ i.mesh.node \in Nat /\ i.mesh.policy \in {"auto", "inter_node_cp"}
      /\ Accepted(i.mesh) /\ i.sp \in BOOLEAN /\ (i.sp => i.mesh.tp > 1)
  BY InstanceAssumption
<1>3. IsMesh(mesh)
  BY <1>1, <1>2 DEF IsMesh
<1>4. Ranks = World(mesh)
  BY DEF PlanMade, Ranks, Built
<1> QED
  BY <1>1, <1>2, <1>3, <1>4

\* A run starts with the plan of its mesh.
LEMMA PlanMadeInit == Init => PlanMade
<1> SUFFICES ASSUME Init PROVE PlanMade
  OBVIOUS
<1>1. \E i \in Instances : mesh = i.mesh /\ backend = i.backend /\ sp = i.sp
  BY DEF Init
<1>2. plan = Built(mesh)
  BY DEF Init, Built
<1> QED
  BY <1>1, <1>2 DEF PlanMade

\* No step changes the mesh, the backend or the plan.
LEMMA InputsKept == [Next]_vars => UNCHANGED inputs
<1> SUFFICES ASSUME [Next]_vars PROVE UNCHANGED inputs
  OBVIOUS
<1>1. CASE UNCHANGED vars
  BY <1>1 DEF vars, inputs
<1>2. ASSUME NEW r \in Ranks, NewGroup(Current(r)) \/ AllReduce(Current(r))
                                \/ SyncExperts(Current(r)) \/ ClipNorm(Current(r))
      PROVE  UNCHANGED inputs
  BY <1>2 DEF NewGroup, AllReduce, SyncExperts, ClipNorm, Enter
<1>3. CASE StartStep
  BY <1>3 DEF StartStep
<1>4. CASE Stop
  BY <1>4 DEF Stop, vars, inputs
<1> QED
  BY <1>1, <1>2, <1>3, <1>4 DEF Next

\* The plan a run starts with is the one it ends with.
THEOREM PlanStays == Spec => []PlanMade
<1>1. PlanMade /\ [Next]_vars => PlanMade'
  <2> SUFFICES ASSUME PlanMade, [Next]_vars PROVE PlanMade'
    OBVIOUS
  <2>1. UNCHANGED inputs
    BY InputsKept
  <2> QED
    BY <2>1 DEF PlanMade, inputs
<1> QED
  BY <1>1, PlanMadeInit, PTL DEF Spec

\* Members of a group come to the same list, each on its own.
THEOREM GroupsAgreeAlways == Spec => []GroupsAgree
<1>1. PlanMade => GroupsAgree
  <2> SUFFICES ASSUME PlanMade, NEW r \in Ranks, NEW a \in ToSet(Attributes)
               PROVE  /\ r \in ToSet(plan[r].groups[a])
                      /\ \A q \in ToSet(plan[r].groups[a]) : plan[q].groups[a] = plan[r].groups[a]
    BY DEF GroupsAgree
  <2>1. a \in AttributeNames /\ r \in World(mesh) /\ IsMesh(mesh) /\ Accepted(mesh)
    BY AttributesAre, PlanMadeFacts
  <2>2. plan = Built(mesh)
    BY DEF PlanMade
  <2> QED
    BY <2>1, <2>2, BuiltGroup
<1> QED
  BY <1>1, PlanStays, PTL

-----------------------------------------------------------------------------
(* Rings.                                                                  *)

\* Two sets one to one.
LEMMA SameCount ==
  ASSUME NEW S, NEW T, IsFiniteSet(S), NEW f \in [S -> T],
         \A x, y \in S : f[x] = f[y] => x = y, \A t \in T : \E x \in S : f[x] = t
  PROVE  IsFiniteSet(T) /\ Cardinality(T) = Cardinality(S)
<1>1. f \in Bijection(S, T)
  BY DEF Bijection, Injection, Surjection, IsInjective
<1> QED
  BY <1>1, FS_Bijection DEF ExistsBijection

\* A step along the local axis moves the logical rank by PerLocal.
LEMMA AlongLocal ==
  ASSUME NEW m, IsMesh(m), NEW c \in Box(m), NEW x \in 0 .. LocalSize(m) - 1
  PROVE  LET d == [c EXCEPT !.local = x] IN
         /\ d \in Box(m) /\ RankFromCoords(m, d) \in World(m) /\ Coords(m, RankFromCoords(m, d)) = d
         /\ d.dp = c.dp /\ d.pp = c.pp /\ d.local = x /\ d.tp = c.tp /\ d.ep = c.ep
         /\ RankFromCoords(m, d) = RankFromCoords(m, [c EXCEPT !.local = 0]) + x * PerLocal(m)
<1> DEFINE d == [c EXCEPT !.local = x]
           e == [c EXCEPT !.local = 0]
<1>1. d \in Box(m) /\ d.dp = c.dp /\ d.pp = c.pp /\ d.local = x /\ d.tp = c.tp /\ d.ep = c.ep
  BY DEF Box
<1>2. RankFromCoords(m, d) \in World(m) /\ Coords(m, RankFromCoords(m, d)) = d
  BY <1>1, CoordsHaveRank
<1>3. e.dp = c.dp /\ e.pp = c.pp /\ e.local = 0 /\ e.tp = c.tp /\ e.ep = c.ep
  BY DEF Box
<1> HIDE DEF d, e
<1>4. RankFromCoords(m, d) = RankFromCoords(m, e) + x * PerLocal(m)
  <2> DEFINE a == c.dp * ModelSize(m)
             b == c.pp * PerPipeline(m)
             t == c.tp * m.ep
             u == x * PerLocal(m)
             v == 0 * PerLocal(m)
  <2>1. RankFromCoords(m, d) = a + b + u + t + c.ep
    BY <1>1 DEF RankFromCoords
  <2>2. RankFromCoords(m, e) = a + b + v + t + c.ep
    BY <1>3 DEF RankFromCoords
  <2>3. c.dp \in Int /\ c.pp \in Int /\ c.tp \in Int /\ c.ep \in Int
    BY DEF Box
  <2>4. ModelSize(m) \in Int /\ PerPipeline(m) \in Int /\ PerLocal(m) \in Int /\ m.ep \in Int
    BY MeshSizes
  <2>5. a \in Int /\ b \in Int /\ t \in Int /\ u \in Int /\ v = 0
    BY <2>3, <2>4
  <2> HIDE DEF a, b, t, u, v
  <2>6. a + b + u + t + c.ep = (a + b + v + t + c.ep) + u
    BY <2>3, <2>5
  <2> QED
    BY <2>1, <2>2, <2>6 DEF u
<1> QED
  BY <1>1, <1>2, <1>4 DEF d, e

\* With context parallelism the local axis is tiled by rings of cp ranks.
LEMMA RingsTile ==
  ASSUME NEW m, IsMesh(m), SupportedLocalLayout(m), m.cp > 1, NEW i \in 0 .. LocalSize(m) - 1
  PROVE  /\ RingLocals(m, i) = i - (i % m.cp) .. i - (i % m.cp) + m.cp - 1
         /\ ContextRank(m, i) = i % m.cp /\ i % m.cp \in 0 .. m.cp - 1
         /\ RingLocals(m, i) = {k \in 0 .. LocalSize(m) - 1 : k \div m.cp = i \div m.cp}
         /\ LocalSize(m) % m.cp = 0
<1> DEFINE s == m.cp
           n == LocalSize(m)
           r == i % s
           d == i \div s
<1>0. s \in Nat \ {0} /\ n \in Nat \ {0} /\ m.bp \in Nat \ {0}
  BY MeshSizes
<1>1. n % s = 0 /\ (m.bp = 1 => n = s)
  <2>1. CASE m.bp = 1
    <3>1. n = s
      BY <2>1 DEF LocalSize
    <3>2. s % s = 0
      <4>1. s * 1 + 0 = s /\ 0 \in 0 .. s - 1
        BY <1>0
      <4>2. (s * 1 + 0) % s = 0
        BY <1>0, <4>1, RemainderUnique
      <4> QED
        BY <4>1, <4>2
    <3> QED
      BY <3>1, <3>2
  <2>2. CASE m.bp # 1
    <3>1. m.bp % s = 0
      BY <2>2 DEF SupportedLocalLayout
    <3>2. m.bp = s * (m.bp \div s) /\ m.bp \div s \in Nat
      BY <1>0, <3>1, Exactly
    <3> DEFINE f == m.bp \div s
               b == m.bp
    <3> HIDE DEF f, b
    <3>3. b = s * f /\ f \in Nat /\ b \in Nat \ {0}
      BY <1>0, <3>2 DEF f, b
    <3>4. b >= s
      <4>1. f # 0
        <5>1. f = 0 => s * f = 0
          BY <1>0
        <5> QED
          BY <3>3, <5>1
      <4>2. s * f >= s * 1
        BY <1>0, <3>3, <4>1
      <4> QED
        BY <1>0, <3>3, <4>2
    <3>5. n = m.bp
      BY <1>0, <3>4 DEF LocalSize, b
    <3> QED
      BY <2>2, <3>1, <3>5
  <2> QED
    BY <2>1, <2>2
<1>2. n \div s \in Nat /\ n = s * (n \div s)
  BY <1>0, <1>1, Exactly
<1>3. d \in Int /\ r \in 0 .. s - 1 /\ i = s * d + r
  <2>1. i \in Int
    BY <1>0
  <2> QED
    BY <1>0, <2>1, Division
<1>4. RingLocals(m, i) = {k \in 0 .. n - 1 : k \div s = d}
  <2>1. CASE m.bp = 1
    <3>1. ASSUME NEW k \in 0 .. n - 1 PROVE k \div s = 0
      <4>1. k \in 0 .. 1 * s - 1 /\ 1 \in Nat \ {0}
        BY <1>0, <1>1, <2>1
      <4>2. k \div s \in 0 .. 1 - 1
        BY <1>0, <4>1, Digits
      <4> QED
        BY <4>2
    <3>2. d = 0
      BY <3>1
    <3>3. RingLocals(m, i) = 0 .. n - 1
      BY <2>1 DEF RingLocals
    <3> HIDE DEF d
    <3> QED
      BY <3>1, <3>2, <3>3
  <2>2. CASE m.bp # 1
    BY <2>2 DEF RingLocals
  <2> QED
    BY <2>1, <2>2
<1> DEFINE q == n \div s
<1> HIDE DEF s, n, r, d, q
<1>5. s * d + s <= n /\ s * d >= 0
  <2>1. n = s * q /\ q \in Int /\ i \in 0 .. n - 1
    BY <1>2 DEF n, q, s
  <2>2. ~ (d >= q)
    <3> SUFFICES ASSUME d >= q PROVE FALSE
      OBVIOUS
    <3>1. s * d >= s * q
      BY <1>0, <1>3, <2>1
    <3> QED
      BY <1>0, <1>3, <2>1, <3>1
  <2>3. s * (d + 1) <= s * q
    BY <1>0, <1>3, <2>1, <2>2
  <2>4. s * (d + 1) = s * d + s
    BY <1>0, <1>3
  <2>5. ~ (d <= -1)
    <3> SUFFICES ASSUME d <= -1 PROVE FALSE
      OBVIOUS
    <3>1. s * d <= s * (-1)
      BY <1>0, <1>3
    <3> QED
      BY <1>0, <1>3, <2>1, <3>1
  <2>6. s * d >= s * 0
    BY <1>0, <1>3, <2>5
  <2> QED
    BY <1>0, <2>1, <2>3, <2>4, <2>6
<1>6. i - r = s * d
  <2>1. s * d \in Int
    BY <1>0, <1>3
  <2>2. r \in Int
    BY <1>0, <1>3
  <2> DEFINE z == s * d
  <2> HIDE DEF z
  <2>3. i = z + r /\ z \in Int
    BY <1>3, <2>1 DEF z
  <2>4. i - r = z
    BY <2>2, <2>3
  <2> QED
    BY <2>4 DEF z
<1>7. ASSUME NEW k \in i - r .. i - r + s - 1
      PROVE  k \in 0 .. n - 1 /\ k \div s = d
  <2> DEFINE e == k - s * d
  <2>1. s * d \in Int /\ e \in 0 .. s - 1 /\ k = s * d + e /\ k \in Int
    BY <1>0, <1>3, <1>6
  <2> HIDE DEF e
  <2>2. k \in 0 .. n - 1
    BY <1>0, <1>5, <2>1
  <2>3. k = s * (k \div s) + (k % s) /\ k % s \in 0 .. s - 1 /\ k \div s \in Int
    BY <1>0, <2>1, Division
  <2> DEFINE f == k \div s
             g == k % s
  <2> HIDE DEF f, g
  <2>4. f * s + g = d * s + e /\ f \in Int /\ g \in 0 .. s - 1
    <3>1. s * f = f * s /\ s * d = d * s
      BY <1>0, <1>3, <2>3 DEF f
    <3> QED
      BY <2>1, <2>3, <3>1 DEF f, g
  <2>5. f = d
    BY <1>0, <1>3, <2>1, <2>4, SameDigits
  <2> QED
    BY <2>2, <2>5 DEF f
<1>8. ASSUME NEW k \in 0 .. n - 1, k \div s = d
      PROVE  k \in i - r .. i - r + s - 1
  <2>1. k \in Int
    BY <1>0
  <2>2. k = s * (k \div s) + (k % s) /\ k % s \in 0 .. s - 1
    BY <1>0, <2>1, Division
  <2>3. k = s * d + (k % s) /\ s * d \in Int
    BY <1>0, <1>3, <1>8, <2>2
  <2> QED
    BY <1>0, <1>6, <2>1, <2>2, <2>3
<1>9. RingLocals(m, i) = i - r .. i - r + s - 1
  BY <1>4, <1>7, <1>8
<1>10. ContextRank(m, i) = r
  BY DEF ContextRank, r, s
<1> QED
  BY <1>1, <1>3, <1>4, <1>9, <1>10 DEF r, s, n, d

\* The ring of a rank, and those of it that come before the rank.
LEMMA RingPeers ==
  ASSUME NEW m, IsMesh(m), SupportedLocalLayout(m), m.cp > 1, NEW l \in World(m)
  PROVE  LET S == Peers(m, "context_block", l) IN
         /\ Cardinality(S) = m.cp
         /\ Cardinality(Below(S, l)) = ContextRank(m, Coords(m, l).local)
<1> DEFINE c == Coords(m, l)
           i == c.local
           S == Peers(m, "context_block", l)
           r == i % m.cp
           b == i - r
           At(x) == RankFromCoords(m, [c EXCEPT !.local = x])
           z == At(0)
           w == PerLocal(m)
<1>1. c \in Box(m) /\ RankFromCoords(m, c) = l /\ i \in 0 .. LocalSize(m) - 1
  BY RankHasCoords, CoordsType
<1>2. /\ RingLocals(m, i) = b .. b + m.cp - 1 /\ ContextRank(m, i) = r /\ r \in 0 .. m.cp - 1
      /\ RingLocals(m, i) \subseteq 0 .. LocalSize(m) - 1
  BY <1>1, RingsTile, RingLocalsAgree
<1>3. m.cp \in Nat \ {0} /\ w \in Nat \ {0} /\ i \in Int /\ b \in Int
  <2>1. m.cp \in Nat \ {0} /\ w \in Nat \ {0} /\ LocalSize(m) \in Nat
    BY MeshSizes
  <2> HIDE DEF c, w
  <2>2. i \in Int
    BY <1>1, <2>1
  <2>3. r \in Int
    BY <1>2, <2>1
  <2> QED
    BY <2>1, <2>2, <2>3
<1>4. S = {At(k) : k \in RingLocals(m, i)}
  BY ContextLoop
<1>5. ASSUME NEW x \in b .. b + m.cp - 1
      PROVE  At(x) \in World(m) /\ At(x) = z + x * w /\ At(x) \in S
  BY <1>1, <1>2, <1>4, AlongLocal
<1>6. z \in Int
  <2>1. 0 \in 0 .. LocalSize(m) - 1
    BY MeshSizes
  <2>2. z \in World(m)
    BY <1>1, <2>1, AlongLocal
  <2> QED
    BY <2>2, WorldFinite
<1>7. At(i) = l
  <2>1. [c EXCEPT !.local = i] = c
    BY <1>1 DEF Box
  <2> QED
    BY <1>1, <2>1
<1> HIDE DEF At, z, w, S, c
<1>8. ASSUME NEW x \in b .. b + m.cp - 1, NEW y \in b .. b + m.cp - 1
      PROVE  At(x) < At(y) <=> x < y
  <2>1. x \in Int /\ y \in Int
    BY <1>3
  <2>2. At(x) = z + x * w /\ At(y) = z + y * w /\ x * w \in Int /\ y * w \in Int
    BY <1>3, <1>5, <2>1
  <2>3. x < y => x * w < y * w
    <3> SUFFICES ASSUME x < y PROVE x * w < y * w
      OBVIOUS
    <3>1. y * w >= (x + 1) * w
      BY <1>3, <2>1
    <3>2. (x + 1) * w = x * w + w
      BY <1>3, <2>1
    <3> QED
      BY <1>3, <2>2, <3>1, <3>2
  <2>4. ~ (x < y) => x * w >= y * w
    BY <1>3, <2>1
  <2> QED
    BY <1>6, <2>2, <2>3, <2>4
<1>9. ASSUME NEW x \in b .. b + m.cp - 1, NEW y \in b .. b + m.cp - 1, At(x) = At(y)
      PROVE  x = y
  <2>1. x \in Int /\ y \in Int /\ At(x) \in Int
    BY <1>3, <1>5, WorldFinite
  <2>2. ~ (At(x) < At(y)) /\ ~ (At(y) < At(x))
    BY <1>9, <2>1
  <2> QED
    BY <1>8, <2>1, <2>2
<1>10. Cardinality(S) = m.cp
  <2> DEFINE D == b .. b + m.cp - 1
             f == [x \in D |-> At(x)]
  <2>1. IsFiniteSet(D) /\ Cardinality(D) = m.cp
    <3> DEFINE e == b + m.cp - 1
    <3>1. e \in Int /\ (IF b > e THEN 0 ELSE e - b + 1) = m.cp
      BY <1>3
    <3> HIDE DEF b, e
    <3>2. IsFiniteSet(b .. e) /\ Cardinality(b .. e) = m.cp
      BY <1>3, <3>1, FS_Interval
    <3> QED
      BY <3>2 DEF e
  <2>2. f \in [D -> S]
    BY <1>5
  <2>3. \A x, y \in D : f[x] = f[y] => x = y
    BY <1>9
  <2>4. \A t \in S : \E x \in D : f[x] = t
    BY <1>2, <1>4
  <2> HIDE DEF f, D
  <2> QED
    BY <2>1, <2>2, <2>3, <2>4, SameCount
<1>11. Cardinality(Below(S, l)) = r
  <2> DEFINE D == b .. i - 1
             f == [x \in D |-> At(x)]
             B == Below(S, l)
  <2>0. /\ i \in b .. b + m.cp - 1 /\ r \in Int /\ r >= 0 /\ i - 1 < b + m.cp - 1 /\ r = i - b
        /\ b .. i - 1 \subseteq b .. b + m.cp - 1
    BY <1>2, <1>3
  <2>1. IsFiniteSet(b .. i - 1) /\ Cardinality(b .. i - 1) = r
    <3>1. i - 1 \in Int /\ (IF b > i - 1 THEN 0 ELSE i - 1 - b + 1) = r
      BY <1>3, <2>0
    <3> QED
      BY <1>3, <3>1, FS_Interval
  <2>2. ASSUME NEW x \in b .. i - 1
        PROVE  At(x) \in B
    <3>1. x \in b .. b + m.cp - 1 /\ x < i
      BY <1>3, <2>0
    <3>2. At(x) < At(i)
      BY <1>8, <2>0, <3>1
    <3> QED
      BY <1>5, <1>7, <3>1, <3>2 DEF Below
  <2>3. ASSUME NEW t \in B
        PROVE  \E x \in b .. i - 1 : At(x) = t
    <3>1. PICK x \in b .. b + m.cp - 1 : At(x) = t
      BY <1>2, <1>4 DEF Below
    <3>2. At(x) < At(i)
      BY <1>7, <3>1 DEF Below
    <3>3. x < i
      BY <1>8, <2>0, <3>2
    <3>4. x \in b .. i - 1
      BY <1>3, <3>3
    <3> QED
      BY <3>1, <3>4
  <2>4. f \in [D -> B]
    BY <2>2
  <2>5. \A x, y \in D : f[x] = f[y] => x = y
    BY <1>9, <2>0
  <2>6. \A t \in B : \E x \in D : f[x] = t
    BY <2>3
  <2>8. IsFiniteSet(D) /\ Cardinality(D) = r
    BY <2>1
  <2> HIDE DEF f, B, D
  <2>7. Cardinality(B) = r
    BY <2>8, <2>4, <2>5, <2>6, SameCount
  <2> QED
    BY <2>7 DEF B
<1> QED
  BY <1>2, <1>10, <1>11 DEF S, c

\* A rank's position in its ring is its context rank.
THEOREM RingInOrderAlways == Spec => []RingInOrder
<1>1. PlanMade => RingInOrder
  <2> SUFFICES ASSUME PlanMade, mesh.cp > 1, NEW r \in Ranks
               PROVE  /\ Len(plan[r].groups.context_block) = mesh.cp
                      /\ plan[r].groups.context_block[plan[r].context + 1] = r
    BY DEF RingInOrder
  <2>1. r \in World(mesh) /\ IsMesh(mesh) /\ Accepted(mesh) /\ SupportedLocalLayout(mesh)
    BY PlanMadeFacts DEF Accepted
  <2>2. plan = Built(mesh)
    BY DEF PlanMade
  <2> DEFINE l == LogicalOf(mesh, r)
             S == Peers(mesh, "context_block", l)
             g == Built(mesh)[r].groups.context_block
  <2>3. l \in World(mesh) /\ Physical(mesh)[l] = r
    BY <2>1, LogicalRank
  <2>4. S \in SUBSET World(mesh) /\ l \in S
    BY <2>1, <2>3, PeersAgree DEF AttributeNames
  <2>5. g = Listed(Physical(mesh), S)
    BY <2>1, BuiltRank DEF AttributeNames
  <2>6. Built(mesh)[r].context = ContextRank(mesh, Coords(mesh, l).local)
    BY <2>1, BuiltRank
  <2>7. Cardinality(S) = mesh.cp
        /\ Cardinality(Below(S, l)) = ContextRank(mesh, Coords(mesh, l).local)
    BY <2>1, <2>3, RingPeers
  <2>8. Len(Listed(Physical(mesh), S)) = Cardinality(S)
        /\ Listed(Physical(mesh), S)[Cardinality(Below(S, l)) + 1] = Physical(mesh)[l]
    BY <2>1, <2>4, ListedRanks
  <2> QED
    BY <2>2, <2>3, <2>5, <2>6, <2>7, <2>8
<1> QED
  BY <1>1, PlanStays, PTL

-----------------------------------------------------------------------------
(* Partitions.                                                             *)

\* Moving a set keeps the position of each of its numbers.
LEMMA MovedSet ==
  ASSUME NEW S, NEW T, NEW r, NEW q, S \in SUBSET Int, T \in SUBSET Int, IsFiniteSet(S),
         r \in S, q \in Int, \A x \in S : x + (q - r) \in T, \A y \in T : y - (q - r) \in S
  PROVE  Cardinality(T) = Cardinality(S) /\ Cardinality(Below(T, q)) = Cardinality(Below(S, r))
<1> DEFINE d == q - r
<1>0. /\ d \in Int /\ q = r + d
      /\ \A x \in S : x + d \in T /\ x \in Int
      /\ \A y \in T : y - d \in S /\ y \in Int
  <2>1. r \in Int
    OBVIOUS
  <2> QED
    BY <2>1
<1> HIDE DEF d
<1>1. Cardinality(T) = Cardinality(S)
  <2> DEFINE f == [x \in S |-> x + d]
  <2>1. f \in [S -> T]
    BY <1>0
  <2>2. ASSUME NEW x \in S, NEW y \in S, f[x] = f[y] PROVE x = y
    <3>1. x \in Int /\ y \in Int /\ x + d = y + d
      BY <1>0, <2>2
    <3> QED
      BY <1>0, <3>1
  <2>3. ASSUME NEW t \in T PROVE \E x \in S : f[x] = t
    <3>1. t - d \in S /\ t \in Int
      BY <1>0
    <3>2. f[t - d] = t - d + d
      BY <3>1
    <3>3. t - d + d = t
      BY <1>0, <3>1
    <3> QED
      BY <3>1, <3>2, <3>3
  <2> HIDE DEF f
  <2> QED
    BY <2>1, <2>2, <2>3, SameCount
<1>2. Cardinality(Below(T, q)) = Cardinality(Below(S, r))
  <2> DEFINE A == Below(S, r)
             B == Below(T, q)
             f == [x \in A |-> x + d]
  <2>0. IsFiniteSet(A) /\ A \in SUBSET S
    BY FS_Subset DEF Below
  <2>1. ASSUME NEW x \in A PROVE x + d \in B
    <3>1. x \in S /\ x < r /\ x \in Int /\ r \in Int
      BY <1>0 DEF Below
    <3>2. x + d \in T /\ x + d < q
      BY <1>0, <3>1
    <3> QED
      BY <3>2 DEF Below
  <2>2. ASSUME NEW x \in A, NEW y \in A, x + d = y + d PROVE x = y
    <3>1. x \in Int /\ y \in Int
      BY <2>0
    <3> QED
      BY <1>0, <2>2, <3>1
  <2>3. ASSUME NEW t \in B PROVE t - d \in A /\ (t - d) + d = t
    <3>1. t \in T /\ t < q /\ t \in Int /\ r \in Int
      BY <1>0 DEF Below
    <3>2. t - d \in S /\ t - d < r /\ (t - d) + d = t
      BY <1>0, <3>1
    <3> QED
      BY <3>2 DEF Below
  <2> HIDE DEF A, B
  <2>4. f \in [A -> B]
    BY <2>1
  <2>5. \A x, y \in A : f[x] = f[y] => x = y
    BY <2>2
  <2>6. \A t \in B : \E x \in A : f[x] = t
    BY <2>3
  <2> HIDE DEF f
  <2>7. Cardinality(B) = Cardinality(A)
    BY <2>0, <2>4, <2>5, <2>6, SameCount
  <2> QED
    BY <2>7 DEF A, B
<1> QED
  BY <1>1, <1>2

\* Along TP and EP a placement moves all holders of the weights alike.
LEMMA HoldersMove ==
  ASSUME NEW m, IsMesh(m), Accepted(m), NEW U \in Nat, NEW V \in Nat,
         IsStrided(m, Physical(m), U, V), NEW r \in World(m), NEW q \in World(m),
         LET c == Coords(m, LogicalOf(m, r))
             d == Coords(m, LogicalOf(m, q))
         IN c.dp = d.dp /\ c.pp = d.pp /\ c.local = d.local,
         NEW w, w = (Coords(m, LogicalOf(m, q)).tp - Coords(m, LogicalOf(m, r)).tp) * U
                      + (Coords(m, LogicalOf(m, q)).ep - Coords(m, LogicalOf(m, r)).ep) * V
  PROVE  w \in Int /\ q = r + w /\ \A x \in Holders(m, r) : x + w \in Holders(m, q)
<1> DEFINE L(x) == LogicalOf(m, x)
           C(x) == Coords(m, L(x))
           t == C(q).tp
           e == C(q).ep
           B(l) == Base(m, Physical(m), U, V, l)
<1>1. ASSUME NEW x \in World(m)
      PROVE  /\ L(x) \in World(m) /\ Physical(m)[L(x)] = x /\ C(x) \in Box(m)
             /\ C(x).tp \in Int /\ C(x).ep \in Int /\ x \in Int
  <2>1. L(x) \in World(m) /\ Physical(m)[L(x)] = x
    BY LogicalRank
  <2>2. C(x) \in Box(m)
    BY <2>1, RankHasCoords
  <2>3. C(x).tp \in Int /\ C(x).ep \in Int
    BY <2>1, CoordsType
  <2> QED
    BY <2>1, <2>2, <2>3, WorldFinite
\* Two ranks that differ along TP and EP only.
<1>2. ASSUME NEW x \in World(m), NEW y \in World(m),
             C(x).dp = C(y).dp, C(x).pp = C(y).pp, C(x).local = C(y).local
      PROVE  y = x + ((C(y).tp - C(x).tp) * U + (C(y).ep - C(x).ep) * V)
  <2>1. B(L(x)) = B(L(y))
    <3>1. L(x) \in World(m) /\ L(y) \in World(m)
      BY <1>1
    <3> QED
      BY <1>2, <3>1 DEF IsStrided
  <2>2. B(L(x)) = x - C(x).tp * U - C(x).ep * V /\ B(L(y)) = y - C(y).tp * U - C(y).ep * V
    BY <1>1 DEF Base
  <2> DEFINE a1 == C(x).tp
             a2 == C(y).tp
             b1 == C(x).ep
             b2 == C(y).ep
  <2>3. a1 \in Int /\ a2 \in Int /\ b1 \in Int /\ b2 \in Int /\ x \in Int /\ y \in Int
    BY <1>1
  <2>4. x - a1 * U - b1 * V = y - a2 * U - b2 * V
    BY <2>1, <2>2
  <2> HIDE DEF a1, a2, b1, b2
  <2>5. (a2 - a1) * U = a2 * U - a1 * U /\ (b2 - b1) * V = b2 * V - b1 * V
        /\ a1 * U \in Int /\ a2 * U \in Int /\ b1 * V \in Int /\ b2 * V \in Int
    BY <2>3
  <2>6. y = x + ((a2 - a1) * U + (b2 - b1) * V)
    BY <2>3, <2>4, <2>5
  <2> QED
    BY <2>6 DEF a1, a2, b1, b2
<1>3. w \in Int
  <2>1. t \in Int /\ e \in Int /\ C(r).tp \in Int /\ C(r).ep \in Int
    BY <1>1
  <2>2. w = (t - C(r).tp) * U + (e - C(r).ep) * V
    OBVIOUS
  <2> HIDE DEF t, e, C
  <2> QED
    BY <2>1, <2>2
<1>4. q = r + w
  BY <1>2
<1>5. ASSUME NEW x \in Holders(m, r)
      PROVE  x + w \in Holders(m, q)
  <2> DEFINE c == C(x)
             d == [dp |-> c.dp, pp |-> C(q).pp, local |-> c.local, tp |-> t, ep |-> e]
             k == RankFromCoords(m, d)
             y == Physical(m)[k]
  <2>1. x \in World(m) /\ C(r).pp = c.pp /\ C(r).tp = c.tp /\ C(r).ep = c.ep
    BY DEF Holders
  <2>2. d \in Box(m) /\ c.pp = C(q).pp
    <3>1. c \in Box(m) /\ C(q) \in Box(m)
      BY <1>1, <2>1
    <3>2. C(r).pp = C(q).pp
      OBVIOUS
    <3> HIDE DEF C
    <3> QED
      BY <2>1, <3>1, <3>2 DEF Box
  <2>3. k \in World(m) /\ Coords(m, k) = d
    BY <2>2, CoordsHaveRank
  <2>4. y \in World(m) /\ L(y) = k
    BY <2>3, LogicalRank
  <2>5. C(y) = d
    BY <2>3, <2>4
  <2> HIDE DEF y, k
  <2>6. C(x).dp = C(y).dp /\ C(x).pp = C(y).pp /\ C(x).local = C(y).local
        /\ C(y).pp = C(q).pp /\ C(y).tp = t /\ C(y).ep = e
    BY <2>2, <2>5
  <2>7. y = x + ((C(y).tp - C(x).tp) * U + (C(y).ep - C(x).ep) * V)
    BY <1>2, <2>1, <2>4, <2>6
  <2>8. y = x + w
    BY <2>1, <2>6, <2>7
  <2>9. y \in Holders(m, q)
    BY <2>4, <2>6 DEF Holders
  <2> QED
    BY <2>8, <2>9
<1> QED
  BY <1>3, <1>4, <1>5

\* TP and EP peers have the same place in their optimizer groups.
LEMMA SamePlace ==
  ASSUME NEW m, IsMesh(m), Accepted(m), NEW r \in World(m), NEW q \in World(m),
         LET c == Coords(m, LogicalOf(m, r))
             d == Coords(m, LogicalOf(m, q))
         IN c.dp = d.dp /\ c.pp = d.pp /\ c.local = d.local
  PROVE  /\ Cardinality(Holders(m, q)) = Cardinality(Holders(m, r))
         /\ Cardinality(Below(Holders(m, q), q)) = Cardinality(Below(Holders(m, r), r))
<1>1. PICK U \in Nat, V \in Nat : IsStrided(m, Physical(m), U, V)
  BY PhysicalPlacement
<1> DEFINE C(x) == Coords(m, LogicalOf(m, x))
           w == (C(q).tp - C(r).tp) * U + (C(q).ep - C(r).ep) * V
           v == (C(r).tp - C(q).tp) * U + (C(r).ep - C(q).ep) * V
           S == Holders(m, r)
           T == Holders(m, q)
<1>2. w \in Int /\ q = r + w /\ \A x \in S : x + w \in T
  BY <1>1, HoldersMove
<1>3. v \in Int /\ r = q + v /\ \A x \in T : x + v \in S
  BY <1>1, HoldersMove
<1>4. S \in SUBSET World(m) /\ T \in SUBSET World(m) /\ r \in S
  BY DEF Holders
<1>5. S \in SUBSET Int /\ T \in SUBSET Int /\ IsFiniteSet(S)
  BY <1>4, WorldFinite
<1> HIDE DEF w, v, S, T
<1>6. r \in Int /\ q \in Int
  BY WorldFinite
<1>7. v = -w
  BY <1>2, <1>3, <1>6
<1>8. ASSUME NEW x \in T PROVE x - w \in S
  <2>1. x + v \in S /\ x \in Int
    BY <1>3, <1>5
  <2>2. x + v = x - w
    BY <1>2, <1>7, <2>1
  <2> QED
    BY <2>1, <2>2
<1>9. Cardinality(T) = Cardinality(S) /\ Cardinality(Below(T, q)) = Cardinality(Below(S, r))
  <2>0. w = q - r
    BY <1>2, <1>6
  <2>1. (\A x \in S : x + (q - r) \in T) /\ (\A y \in T : y - (q - r) \in S) /\ r \in S /\ q \in Int
    BY <1>2, <1>4, <1>6, <1>8, <2>0
  <2> QED
    BY <1>5, <2>1, MovedSet
<1> QED
  BY <1>2, <1>9 DEF S, T

\* Partitions that TP and EP ranks reduce into one another are the same partition.
THEOREM PartitionsAlignAlways == Spec => []PartitionsAlign
<1>1. PlanMade => PartitionsAlign
  <2> SUFFICES ASSUME PlanMade, NEW r \in Ranks,
                      NEW q \in ToSet(plan[r].groups.tensor) \union ToSet(plan[r].groups.expert),
                      NEW i \in DOMAIN plan[r].optimizer, plan[r].optimizer[i] = r
               PROVE  i \in DOMAIN plan[q].optimizer /\ plan[q].optimizer[i] = q
    BY DEF PartitionsAlign
  <2>1. r \in World(mesh) /\ IsMesh(mesh) /\ Accepted(mesh)
    BY PlanMadeFacts
  <2>2. plan = Built(mesh)
    BY DEF PlanMade
  <2>3. q \in Mates(mesh, "tensor", r) \union Mates(mesh, "expert", r)
    BY <2>1, <2>2, BuiltGroup DEF AttributeNames
  <2>4. q \in World(mesh)
    BY <2>3 DEF Mates
  <2> DEFINE c == Coords(mesh, LogicalOf(mesh, r))
             d == Coords(mesh, LogicalOf(mesh, q))
             S == Holders(mesh, r)
             T == Holders(mesh, q)
  <2>5. c.dp = d.dp /\ c.pp = d.pp /\ c.local = d.local
    BY <2>3 DEF Mates, Peers, Alike
  <2>6. Cardinality(T) = Cardinality(S) /\ Cardinality(Below(T, q)) = Cardinality(Below(S, r))
    BY <2>1, <2>4, <2>5, SamePlace
  <2>7. S \in SUBSET World(mesh) /\ T \in SUBSET World(mesh) /\ q \in T
    BY <2>4 DEF Holders
  <2>8. S \in SUBSET Int /\ T \in SUBSET Int /\ IsFiniteSet(S) /\ IsFiniteSet(T)
    BY <2>1, <2>7, WorldFinite
  <2>9. plan[r].optimizer = Ascending(S) /\ plan[q].optimizer = Ascending(T)
    BY <2>1, <2>2, <2>4, BuiltRank
  <2> HIDE DEF S, T
  <2>10. /\ Cardinality(S) \in Nat /\ DOMAIN Ascending(S) = 1 .. Cardinality(S)
         /\ \A j \in 1 .. Cardinality(S) : Cardinality(Below(S, Ascending(S)[j])) = j - 1
    BY <2>8, AscendingList
  <2>11. i \in 1 .. Cardinality(S) /\ Cardinality(Below(S, r)) = i - 1
    BY <2>9, <2>10
  <2>12. Cardinality(Below(T, q)) + 1 = i
    <3>1. i \in Int
      BY <2>10, <2>11
    <3> QED
      BY <2>6, <2>11, <3>1
  <2>13. DOMAIN Ascending(T) = 1 .. Cardinality(T) /\ Ascending(T)[Cardinality(Below(T, q)) + 1] = q
    BY <2>7, <2>8, AscendingList
  <2> QED
    BY <2>6, <2>9, <2>11, <2>12, <2>13
<1> QED
  BY <1>1, PlanStays, PTL

-----------------------------------------------------------------------------
(* Placement names.                                                        *)

\* Members of a group by their coordinates.
LEMMA MateAlike ==
  ASSUME NEW m, IsMesh(m), Accepted(m), NEW a \in AttributeNames, NEW r \in World(m),
         NEW q \in Mates(m, a, r)
  PROVE  /\ q \in World(m) /\ LogicalOf(m, q) \in World(m) /\ LogicalOf(m, r) \in World(m)
         /\ Physical(m)[LogicalOf(m, q)] = q /\ Physical(m)[LogicalOf(m, r)] = r
         /\ Alike(m, a, Coords(m, LogicalOf(m, r)), Coords(m, LogicalOf(m, q)))
BY LogicalRank DEF Mates, Peers

\* EP ranks have nodes of their own.
LEMMA ExpertNodes ==
  ASSUME NEW m, IsMesh(m), m.node # 0, WorldSize(m) % m.node = 0, ExpertsAcrossNodes(m),
         NEW l \in World(m)
  PROVE  ExpertPlacement(m)[l] \div m.node = Coords(m, l).dp * m.ep + Coords(m, l).ep
<1> DEFINE n == Coords(m, l).dp * m.ep + Coords(m, l).ep
           i == Coords(m, l).local * m.tp + Coords(m, l).tp
           B == m.dp * m.ep
           S == m.node
<1>1. n \in 0 .. B - 1 /\ i \in 0 .. S - 1 /\ ExpertPlacement(m)[l] = n * S + i
  BY ExpertAt
<1>2. B \in Nat \ {0} /\ S \in Nat \ {0}
  BY MeshSizes, ProductPositive, NodesTileWorld
<1> HIDE DEF n, i, B, S
<1>3. (n * S + i) \div S = n
  BY <1>1, <1>2, UpperDigit
<1> QED
  BY <1>1, <1>3 DEF n, S

\* The nodes are filled with consecutive local ranks.
LEMMA StripedNodes ==
  ASSUME NEW m, IsMesh(m), m.node # 0, WorldSize(m) % m.node = 0, CanStripe(m),
         NEW l \in World(m)
  PROVE  Striped(m)[l] \div m.node = Coords(m, l).local \div PerNode(m)
<1> DEFINE n == Coords(m, l).local \div PerNode(m)
           i == InStripe(m, Coords(m, l))
           B == NodeCount(m)
           S == m.node
<1>1. n \in 0 .. B - 1 /\ i \in 0 .. S - 1 /\ Striped(m)[l] = n * S + i
  BY InStripeType
<1>2. B \in Nat \ {0} /\ S \in Nat \ {0}
  BY NodesTileWorld
<1> HIDE DEF n, i, B, S
<1>3. (n * S + i) \div S = n
  BY <1>1, <1>2, UpperDigit
<1> QED
  BY <1>1, <1>3 DEF n, S

\* A replica is dealt to one node.
LEMMA RoundRobinNodes ==
  ASSUME NEW m, IsMesh(m), m.node # 0, WorldSize(m) % m.node = 0, m.node % ModelSize(m) = 0,
         NEW l \in World(m)
  PROVE  RoundRobin(m)[l] \div m.node = Coords(m, l).dp % NodeCount(m)
<1> DEFINE d == l \div ModelSize(m)
           n == d % NodeCount(m)
           i == (d \div NodeCount(m)) * ModelSize(m) + (l % ModelSize(m))
           B == NodeCount(m)
           S == m.node
<1>1. n \in 0 .. B - 1 /\ i \in 0 .. S - 1 /\ RoundRobin(m)[l] = n * S + i /\ d = Coords(m, l).dp
  BY RoundRobinAt
<1>2. B \in Nat \ {0} /\ S \in Nat \ {0}
  BY NodesTileWorld
<1>3. n = Coords(m, l).dp % NodeCount(m)
  BY <1>1
<1> HIDE DEF n, i, B, S, d
<1>4. (n * S + i) \div S = n
  BY <1>1, <1>2, UpperDigit
<1> QED
  BY <1>1, <1>3, <1>4 DEF S

\* inter_node_cp: the context group spans the local axis, an equal share per node.
LEMMA StripedShares ==
  ASSUME NEW m, IsMesh(m), Accepted(m), m.policy = "inter_node_cp", NEW r \in World(m),
         NEW n \in 0 .. NodeCount(m) - 1
  PROVE  /\ Len(Built(m)[r].groups.context_block) = LocalSize(m)
         /\ Cardinality({q \in Mates(m, "context_block", r) : q \div m.node = n})
              = LocalSize(m) \div NodeCount(m)
<1> DEFINE l == LogicalOf(m, r)
           c == Coords(m, l)
           At(x) == RankFromCoords(m, [c EXCEPT !.local = x])
           S == Peers(m, "context_block", l)
           s == PerNode(m)
           D == n * s .. n * s + s - 1
           Q == {q \in Mates(m, "context_block", r) : q \div m.node = n}
<1>0. /\ m.cp > 1 /\ m.node # 0 /\ CanStripe(m) /\ WorldSize(m) % m.node = 0
      /\ SupportedLocalLayout(m) /\ m.bp \in {1, m.cp} /\ Physical(m) = Striped(m)
  BY DEF Accepted, Physical
<1>1. LocalSize(m) = m.cp
  BY <1>0, MeshSizes DEF LocalSize
<1>2. l \in World(m) /\ c \in Box(m) /\ c.local \in 0 .. LocalSize(m) - 1
  BY LogicalRank, RankHasCoords, CoordsType
<1>3. /\ NodeCount(m) \in Nat \ {0} /\ s \in Nat \ {0} /\ LocalSize(m) = NodeCount(m) * s
      /\ LocalSize(m) \in Nat \ {0}
  BY <1>0, NodesTileWorld, StripeSizes, MeshSizes
<1>4. RingLocals(m, c.local) = 0 .. LocalSize(m) - 1
  <2>1. RingLocals(m, c.local) = c.local - (c.local % m.cp) .. c.local - (c.local % m.cp) + m.cp - 1
    BY <1>0, <1>2, RingsTile
  <2>2. c.local % m.cp = c.local
    <3>1. m.cp \in Nat \ {0} /\ c.local \in 0 .. m.cp - 1
      BY <1>1, <1>2, <1>3
    <3>2. m.cp * 0 + c.local = c.local /\ 0 \in Int
      BY <3>1
    <3>3. (m.cp * 0 + c.local) % m.cp = c.local
      BY <3>1, <3>2, RemainderUnique
    <3> QED
      BY <3>2, <3>3
  <2>3. c.local - c.local = 0 /\ 0 + m.cp - 1 = m.cp - 1
    BY <1>1, <1>2, <1>3
  <2> QED
    BY <1>1, <2>1, <2>2, <2>3
<1>5. S = {At(x) : x \in 0 .. LocalSize(m) - 1}
  BY <1>2, <1>4, ContextLoop
<1>6. Len(Built(m)[r].groups.context_block) = LocalSize(m)
  <2>1. Cardinality(S) = m.cp
    BY <1>0, <1>2, RingPeers
  <2>2. Len(Built(m)[r].groups.context_block) = Cardinality(S)
    BY BuiltGroup DEF AttributeNames
  <2> QED
    BY <1>1, <2>1, <2>2
<1>7. ASSUME NEW x \in 0 .. LocalSize(m) - 1
      PROVE  /\ At(x) \in World(m) /\ Coords(m, At(x)).local = x /\ At(x) \in S
             /\ Striped(m)[At(x)] \div m.node = x \div s
  <2>0. l \in World(m) /\ c = Coords(m, l) /\ At(x) = RankFromCoords(m, [c EXCEPT !.local = x])
    BY <1>2
  <2>1. c \in Box(m) /\ [c EXCEPT !.local = x] \in Box(m)
    BY <1>2, MovedAlong
  <2>6. At(x) \in World(m)
    BY <2>0, <2>1, CoordsHaveRank
  <2>2. Coords(m, At(x)).local = x
    <3>2. Coords(m, At(x)) = [c EXCEPT !.local = x]
      BY <2>0, <2>1, CoordsHaveRank
    <3>3. [c EXCEPT !.local = x].local = x
      BY <2>1 DEF Box
    <3> QED
      BY <3>2, <3>3
  <2>3. At(x) \in S
    BY <1>5
  <2> HIDE DEF At
  <2>4. Striped(m)[At(x)] \div m.node = Coords(m, At(x)).local \div s
    BY <1>0, <2>6, StripedNodes
  <2> QED
    BY <2>2, <2>3, <2>4, <2>6
<1>8. ASSUME NEW x \in 0 .. LocalSize(m) - 1
      PROVE  x \div s = n <=> x \in D
  <2>1. x \in 0 .. NodeCount(m) * s - 1
    BY <1>3
  <2>2. x \div s \in 0 .. NodeCount(m) - 1 /\ x % s \in 0 .. s - 1 /\ x = (x \div s) * s + (x % s)
    BY <1>3, <2>1, Digits
  <2> HIDE DEF s
  <2>3. ASSUME x \div s = n PROVE x \in D
    <3>1. x = n * s + (x % s) /\ n * s \in Int /\ x \in Int
      BY <1>3, <2>2, <2>3
    <3> QED
      BY <1>3, <2>2, <3>1
  <2>4. ASSUME x \in D PROVE x \div s = n
    <3> DEFINE e == x - n * s
    <3>1. n * s \in Int /\ x \in Int /\ n \in Int
      BY <1>3
    <3>2. e \in 0 .. s - 1 /\ x = n * s + e
      BY <1>3, <2>4, <3>1
    <3> HIDE DEF e
    <3>3. n \in 0 .. NodeCount(m) - 1
      OBVIOUS
    <3>4. (n * s + e) \div s = n
      BY <1>3, <3>2, <3>3, UpperDigit
    <3> QED
      BY <3>2, <3>4
  <2> QED
    BY <2>3, <2>4
<1>9. D \subseteq 0 .. LocalSize(m) - 1 /\ IsFiniteSet(D) /\ Cardinality(D) = s
  <2> DEFINE a == n * s
             b == a + s - 1
  <2>0. n \in Int /\ n >= 0 /\ n <= NodeCount(m) - 1
    BY <1>3
  <2>1. a \in Int /\ a >= 0 /\ a + s <= LocalSize(m)
    <3> HIDE DEF s
    <3>1. n * s <= (NodeCount(m) - 1) * s
      BY <1>3, <2>0
    <3>2. (NodeCount(m) - 1) * s = NodeCount(m) * s - s /\ NodeCount(m) * s \in Int
      BY <1>3
    <3>3. n * s \in Int /\ n * s >= 0
      BY <1>3, <2>0
    <3> QED
      BY <1>3, <3>1, <3>2, <3>3
  <2> HIDE DEF a, s
  <2>2. b \in Int /\ (IF a > b THEN 0 ELSE b - a + 1) = s
    BY <1>3, <2>1
  <2>3. a .. b \subseteq 0 .. LocalSize(m) - 1
    BY <1>3, <2>1
  <2> HIDE DEF b
  <2>4. IsFiniteSet(a .. b) /\ Cardinality(a .. b) = s
    BY <2>1, <2>2, FS_Interval
  <2> QED
    BY <2>3, <2>4 DEF a, b
<1> DEFINE f == [x \in D |-> Physical(m)[At(x)]]
<1> HIDE DEF D, s, S, At, c
<1>10. ASSUME NEW x \in D PROVE f[x] \in Q
  <2>1. At(x) \in World(m) /\ At(x) \in S /\ Striped(m)[At(x)] \div m.node = n
    BY <1>7, <1>8, <1>9
  <2>2. Physical(m)[At(x)] \in World(m) /\ LogicalOf(m, Physical(m)[At(x)]) = At(x)
    BY <2>1, LogicalRank
  <2>3. Physical(m)[At(x)] \in Mates(m, "context_block", r)
    BY <2>1, <2>2 DEF Mates, S
  <2>4. Physical(m)[At(x)] \div m.node = n
    BY <1>0, <2>1
  <2> QED
    BY <2>3, <2>4
<1>11. ASSUME NEW x \in D, NEW y \in D, f[x] = f[y] PROVE x = y
  <2>1. At(x) \in World(m) /\ At(y) \in World(m) /\ Physical(m)[At(x)] = Physical(m)[At(y)]
    BY <1>7, <1>9, <1>11
  <2>2. At(x) = At(y)
    BY <2>1, LogicalRank
  <2> QED
    BY <1>7, <1>9, <2>2
<1>12. ASSUME NEW q \in Q PROVE \E x \in D : f[x] = q
  <2>1. q \in World(m) /\ LogicalOf(m, q) \in S /\ q \div m.node = n
    BY DEF Mates, S
  <2>2. PICK x \in 0 .. LocalSize(m) - 1 : LogicalOf(m, q) = At(x)
    BY <1>5, <2>1
  <2>3. Physical(m)[At(x)] = q
    BY <2>1, <2>2, LogicalRank
  <2>4. x \div s = n
    BY <1>0, <1>7, <2>1, <2>3
  <2>5. x \in D
    BY <1>8, <2>4
  <2> QED
    BY <2>3, <2>5
<1>13. f \in [D -> Q]
  <2>1. f = [x \in D |-> f[x]]
    OBVIOUS
  <2> HIDE DEF f, Q
  <2> QED
    BY <1>10, <2>1
<1> HIDE DEF f, Q
<1>14. Cardinality(Q) = s
  BY <1>9, <1>11, <1>12, <1>13, SameCount
<1>15. LocalSize(m) \div NodeCount(m) = s
  BY DEF s, PerNode
<1> QED
  BY <1>6, <1>14, <1>15 DEF Q

-----------------------------------------------------------------------------
(* Runs of consecutive ranks and the nodes.                                *)

\* What a quotient is.
LEMMA QuotientUnique ==
  ASSUME NEW S, S \in Nat \ {0}, NEW q, q \in Int, NEW s, s \in 0 .. S - 1, NEW x, x = q * S + s
  PROVE  x \div S = q
<1>1. q * S \in Int /\ x \in Int
  OBVIOUS
<1>2. x = S * (x \div S) + (x % S) /\ x % S \in 0 .. S - 1 /\ x \div S \in Int
  BY <1>1, Division
<1> DEFINE d == x \div S
           m == x % S
<1> HIDE DEF d, m
<1>3. d * S + m = q * S + s /\ d \in Int /\ m \in 0 .. S - 1
  <2>1. S * d = d * S
    BY <1>2 DEF d
  <2> QED
    BY <1>2, <2>1 DEF d, m
<1> QED
  BY <1>3, SameDigits DEF d

\* c is the product of two sizes.
IsProduct(c, a, b) == a \in Nat \ {0} /\ b \in Nat \ {0} /\ c = a * b

\* Quotients and remainders of x by c are those by a and then by b.
Nested(x, c, a, b) ==
  /\ x \div c = (x \div a) \div b /\ (x % c) \div a = (x \div a) % b
  /\ (x % c) % a = x % a /\ x \div c \in Int

\* Quotients and remainders by a product, one factor after the other.
LEMMA DivDiv ==
  ASSUME NEW a, NEW b, NEW c, NEW x, IsProduct(c, a, b), x \in Int
  PROVE  Nested(x, c, a, b)
<1>0. a \in Nat \ {0} /\ b \in Nat \ {0} /\ c = a * b
  BY DEF IsProduct
<1> DEFINE d == x \div a
           e == x % a
           f == d \div b
           g == d % b
           y == g * a + e
<1>1. x = a * d + e /\ e \in 0 .. a - 1 /\ d \in Int
  BY <1>0, Division
<1> HIDE DEF d, e
<1>2. d = b * f + g /\ g \in 0 .. b - 1 /\ f \in Int
  BY <1>0, <1>1, Division
<1> HIDE DEF f, g
<1>3. y \in 0 .. b * a - 1 /\ y \div a = g /\ y % a = e
  BY <1>0, <1>1, <1>2, TwoDigits
<1>4. x = c * f + y
  <2>1. a * d = a * (b * f + g)
    BY <1>2
  <2>2. a * (b * f + g) = (a * b) * f + g * a
    BY <1>0, <1>2
  <2>3. (a * b) * f \in Int /\ g * a \in Int
    BY <1>0, <1>2
  <2> QED
    BY <1>0, <1>1, <2>1, <2>2, <2>3
<1>5. c \in Nat \ {0} /\ y \in 0 .. c - 1
  <2>1. a * b = b * a
    BY <1>0
  <2> QED
    BY <1>0, <1>3, <2>1, ProductPositive
<1> HIDE DEF y
<1>6. x % c = y
  BY <1>2, <1>4, <1>5, RemainderUnique
<1>7. x \div c = f
  <2>1. c * f = f * c
    BY <1>2, <1>5
  <2> QED
    BY <1>2, <1>4, <1>5, <2>1, QuotientUnique
<1> QED
  BY <1>2, <1>3, <1>6, <1>7 DEF d, e, f, g, Nested

\* The coordinates of a rank by quotients of the rank itself.
LEMMA FlatCoords ==
  ASSUME NEW m, IsMesh(m), NEW l \in World(m)
  PROVE  /\ Coords(m, l).dp = l \div ModelSize(m)
         /\ l \div PerPipeline(m) = m.pp * (l \div ModelSize(m)) + Coords(m, l).pp
         /\ l \div PerLocal(m) = LocalSize(m) * (l \div PerPipeline(m)) + Coords(m, l).local
         /\ Coords(m, l).tp = (l % PerLocal(m)) \div m.ep
         /\ Coords(m, l).ep = l % m.ep /\ (l % PerLocal(m)) % m.ep = l % m.ep
<1> DEFINE i == l % ModelSize(m)
           j == i % PerPipeline(m)
           k == j % PerLocal(m)
<1>0. /\ m.pp \in Nat \ {0} /\ m.tp \in Nat \ {0} /\ m.ep \in Nat \ {0}
      /\ LocalSize(m) \in Nat \ {0} /\ PerLocal(m) \in Nat \ {0}
      /\ PerPipeline(m) \in Nat \ {0} /\ ModelSize(m) \in Nat \ {0} /\ l \in Nat /\ l \in Int
  BY MeshSizes DEF World
<1>1. /\ Coords(m, l).dp = l \div ModelSize(m) /\ Coords(m, l).pp = i \div PerPipeline(m)
      /\ Coords(m, l).local = j \div PerLocal(m)
      /\ Coords(m, l).tp = k \div m.ep /\ Coords(m, l).ep = k % m.ep
  BY DEF Coords
<1>2. /\ IsProduct(ModelSize(m), PerPipeline(m), m.pp)
      /\ IsProduct(PerPipeline(m), PerLocal(m), LocalSize(m))
      /\ IsProduct(PerLocal(m), m.ep, m.tp)
  <2>1. \A x, y \in Nat : x * y = y * x
    OBVIOUS
  <2> QED
    BY <1>0, <2>1 DEF ModelSize, PerPipeline, PerLocal, IsProduct
<1>3. /\ l \div ModelSize(m) = (l \div PerPipeline(m)) \div m.pp
      /\ i \div PerPipeline(m) = (l \div PerPipeline(m)) % m.pp
      /\ j = l % PerPipeline(m)
  <2>1. Nested(l, ModelSize(m), PerPipeline(m), m.pp)
    BY <1>0, <1>2, DivDiv
  <2> QED
    BY <2>1 DEF Nested
<1> HIDE DEF i, j
<1>4. /\ l \div PerPipeline(m) = (l \div PerLocal(m)) \div LocalSize(m)
      /\ j \div PerLocal(m) = (l \div PerLocal(m)) % LocalSize(m)
      /\ k = l % PerLocal(m)
  <2>1. Nested(l, PerPipeline(m), PerLocal(m), LocalSize(m))
    BY <1>0, <1>2, DivDiv
  <2> QED
    BY <1>3, <2>1 DEF Nested
<1> HIDE DEF k
<1>5. /\ l \div PerLocal(m) = (l \div m.ep) \div m.tp
      /\ k \div m.ep = (l \div m.ep) % m.tp /\ k % m.ep = l % m.ep
  <2>1. Nested(l, PerLocal(m), m.ep, m.tp)
    BY <1>0, <1>2, DivDiv
  <2> QED
    BY <1>4, <2>1 DEF Nested
<1>6. /\ l \div PerPipeline(m) = m.pp * ((l \div PerPipeline(m)) \div m.pp)
                                   + ((l \div PerPipeline(m)) % m.pp)
      /\ l \div PerLocal(m) = LocalSize(m) * ((l \div PerLocal(m)) \div LocalSize(m))
                                + ((l \div PerLocal(m)) % LocalSize(m))
  <2>1. l \div PerPipeline(m) \in Int /\ l \div PerLocal(m) \in Int
    BY <1>0, Division
  <2> QED
    BY <1>0, <2>1, Division
<1> QED
  BY <1>0, <1>1, <1>3, <1>4, <1>5, <1>6

\* A run of B consecutive ranks is cut by the end of a node: two ranks of it, a
\* multiple of P apart, lie before and after the first node that does not end
\* with a run.
LEMMA CutRun ==
  ASSUME NEW n \in Nat \ {0}, NEW P, NEW k, NEW B, IsProduct(B, P, k), k >= 2,
         n % B # 0
  PROVE  \E u, v \in Nat :
           /\ u < n /\ n <= v
           /\ u \div B = n \div B /\ v \div B = n \div B /\ u % P = v % P
<1> DEFINE b == n \div B
           y == n % B
           j == y \div P
           x == y % P
<1>0. B \in Nat \ {0} /\ k \in Nat \ {0} /\ P \in Nat \ {0} /\ n \in Int
  BY ProductPositive DEF IsProduct
<1>a. B = P * k /\ B = k * P
  BY <1>0 DEF IsProduct
<1>1. n = B * b + y /\ y \in 0 .. B - 1 /\ b \in Int /\ y # 0
  BY <1>0, Division
<1>2. b >= 0
  <2> HIDE DEF b, y
  <2> SUFFICES ASSUME b <= -1 PROVE FALSE
    BY <1>1
  <2>1. B * b <= B * (-1)
    BY <1>0, <1>1
  <2>2. B * b \in Int
    BY <1>0, <1>1
  <2> QED
    BY <1>0, <1>1, <2>1, <2>2
<1>3. B * b \in Nat
  <2> HIDE DEF b
  <2> QED
    BY <1>0, <1>1, <1>2
<1> HIDE DEF b, y
<1>4. y \in 0 .. k * P - 1
  BY <1>1, <1>a
<1>5. j \in 0 .. k - 1 /\ x \in 0 .. P - 1 /\ y = j * P + x
  BY <1>0, <1>4, Digits
<1> HIDE DEF j, x
<1>6. ASSUME NEW i \in 0 .. k - 1, NEW z \in 0 .. P - 1
      PROVE  /\ B * b + (i * P + z) \in Nat /\ i * P + z \in 0 .. B - 1
             /\ (B * b + (i * P + z)) \div B = b /\ (B * b + (i * P + z)) % P = z
  <2> DEFINE w == i * P + z
             t == B * b + w
  <2>1. w \in 0 .. B - 1
    BY <1>0, <1>a, TwoDigits
  <2>2. t \div B = b
    <3> HIDE DEF w
    <3> QED
      <4>1. B * b = b * B
        BY <1>0, <1>1
      <4> QED
        BY <1>0, <1>1, <2>1, <4>1, QuotientUnique
  <2>3. t % P = z
    <3>1. t = P * (k * b + i) + z /\ k * b + i \in Int
      <4>1. B * b = P * (k * b)
        BY <1>0, <1>1, <1>a
      <4>2. P * (k * b + i) = P * (k * b) + i * P
        BY <1>0, <1>1
      <4>3. k * b \in Int /\ P * (k * b) \in Int /\ i * P \in Int
        BY <1>0, <1>1
      <4> QED
        BY <4>1, <4>2, <4>3
    <3> HIDE DEF t, w
    <3> QED
      BY <1>0, <3>1, RemainderUnique
  <2> QED
    BY <1>3, <2>1, <2>2, <2>3
<1>7. CASE j >= 1
  <2> DEFINE u == B * b + (0 * P + x)
  <2>1. /\ u \in Nat /\ u \div B = b /\ u % P = x
    BY <1>0, <1>5, <1>6
  <2>2. n = B * b + (j * P + x) /\ n % P = x
    BY <1>1, <1>5, <1>6
  <2>3. j * P >= 1
    BY <1>0, <1>5, <1>7
  <2>4. u < n
    <3>1. u = B * b + x /\ B * b \in Int /\ x \in Int /\ j * P \in Int
      BY <1>0, <1>3, <1>5
    <3>2. n = B * b + (j * P + x)
      BY <2>2
    <3> DEFINE t == B * b
               w == j * P
    <3>3. u = t + x /\ n = t + (w + x) /\ t \in Int /\ x \in Int /\ w \in Int /\ w >= 1
      BY <2>3, <3>1, <3>2
    <3> HIDE DEF t, w, u
    <3> QED
      BY <3>3
  <2> QED
    BY <2>1, <2>2, <2>4 DEF b
<1>8. CASE j = 0
  <2> DEFINE z == x - 1
             u == B * b + (0 * P + z)
             v == B * b + (1 * P + z)
  <2>1. z \in 0 .. P - 1 /\ y = x
    <3>1. y = 0 * P + x /\ x \in 0 .. P - 1 /\ y # 0
      BY <1>1, <1>5, <1>8
    <3>2. 0 * P + x = x
      BY <1>0, <3>1
    <3> QED
      BY <1>0, <3>1, <3>2
  <2>2. /\ u \in Nat /\ u \div B = b /\ u % P = z
        /\ v \in Nat /\ v \div B = b /\ v % P = z
    <3>1. 0 \in 0 .. k - 1 /\ 1 \in 0 .. k - 1
      BY <1>0
    <3> HIDE DEF z
    <3> QED
      BY <1>0, <2>1, <3>1, <1>6
  <2>3. u < n /\ n <= v
    <3> DEFINE t == B * b
    <3>1. n = t + y /\ t \in Int /\ y \in Int
      BY <1>1, <1>3
    <3>2. u = t + (y - 1) /\ v = t + (P + (y - 1))
      <4>1. 0 * P = 0 /\ 1 * P = P
        BY <1>0
      <4>2. z = y - 1 /\ z \in Int
        BY <2>1, <3>1
      <4> HIDE DEF z
      <4> QED
        BY <1>0, <3>1, <4>1, <4>2
    <3> HIDE DEF t, u, v
    <3> QED
      BY <1>0, <3>1, <3>2
  <2> QED
    BY <2>2, <2>3 DEF b
<1> QED
  BY <1>5, <1>7, <1>8

\* x is a number of two digits, the lower one to the base S.
TwoDigit(x, S, a, r) == S \in Nat \ {0} /\ a \in Int /\ r \in 0 .. S - 1 /\ x = S * a + r

\* Two such numbers are equal if both digits are.
LEMMA SameNumbers ==
  ASSUME NEW x, NEW y, NEW S, NEW a, NEW b, NEW r, NEW s, TwoDigit(x, S, a, r), TwoDigit(y, S, b, s)
  PROVE  x = y <=> a = b /\ r = s
<1>0. S \in Nat \ {0} /\ a \in Int /\ r \in 0 .. S - 1 /\ b \in Int /\ s \in 0 .. S - 1
      /\ x = S * a + r /\ y = S * b + s
  BY DEF TwoDigit
<1>1. S * a = a * S /\ S * b = b * S
  BY <1>0
<1>2. ASSUME x = y PROVE a = b /\ r = s
  <2>1. a * S + r = b * S + s
    BY <1>0, <1>1, <1>2
  <2> QED
    BY <1>0, <2>1, SameDigits
<1> QED
  BY <1>0, <1>2

\* Ranks of one pipeline stage, and of one local rank, by quotients.
LEMMA SameStage ==
  ASSUME NEW m, IsMesh(m), NEW k \in World(m), NEW l \in World(m)
  PROVE  /\ k \div PerPipeline(m) = l \div PerPipeline(m) <=>
              Coords(m, k).dp = Coords(m, l).dp /\ Coords(m, k).pp = Coords(m, l).pp
         /\ k \div PerLocal(m) = l \div PerLocal(m) <=>
              k \div PerPipeline(m) = l \div PerPipeline(m) /\ Coords(m, k).local = Coords(m, l).local
<1>0. m.pp \in Nat \ {0} /\ LocalSize(m) \in Nat \ {0} /\ ModelSize(m) \in Nat \ {0}
      /\ PerPipeline(m) \in Nat \ {0} /\ k \in Int /\ l \in Int
  BY MeshSizes DEF World
<1>1. /\ k \div ModelSize(m) \in Int /\ l \div ModelSize(m) \in Int
      /\ k \div PerPipeline(m) \in Int /\ l \div PerPipeline(m) \in Int
  BY <1>0, Division
<1>2. /\ Coords(m, k).pp \in 0 .. m.pp - 1 /\ Coords(m, k).local \in 0 .. LocalSize(m) - 1
      /\ Coords(m, l).pp \in 0 .. m.pp - 1 /\ Coords(m, l).local \in 0 .. LocalSize(m) - 1
  BY CoordsType
<1>3. /\ Coords(m, k).dp = k \div ModelSize(m) /\ Coords(m, l).dp = l \div ModelSize(m)
      /\ k \div PerPipeline(m) = m.pp * (k \div ModelSize(m)) + Coords(m, k).pp
      /\ l \div PerPipeline(m) = m.pp * (l \div ModelSize(m)) + Coords(m, l).pp
      /\ k \div PerLocal(m) = LocalSize(m) * (k \div PerPipeline(m)) + Coords(m, k).local
      /\ l \div PerLocal(m) = LocalSize(m) * (l \div PerPipeline(m)) + Coords(m, l).local
  BY FlatCoords
<1>4. k \div PerPipeline(m) = l \div PerPipeline(m) <=>
        k \div ModelSize(m) = l \div ModelSize(m) /\ Coords(m, k).pp = Coords(m, l).pp
  <2>1. /\ TwoDigit(k \div PerPipeline(m), m.pp, k \div ModelSize(m), Coords(m, k).pp)
        /\ TwoDigit(l \div PerPipeline(m), m.pp, l \div ModelSize(m), Coords(m, l).pp)
    BY <1>0, <1>1, <1>2, <1>3 DEF TwoDigit
  <2> QED
    BY <2>1, SameNumbers
<1>5. k \div PerLocal(m) = l \div PerLocal(m) <=>
        k \div PerPipeline(m) = l \div PerPipeline(m) /\ Coords(m, k).local = Coords(m, l).local
  <2>1. /\ TwoDigit(k \div PerLocal(m), LocalSize(m), k \div PerPipeline(m), Coords(m, k).local)
        /\ TwoDigit(l \div PerLocal(m), LocalSize(m), l \div PerPipeline(m), Coords(m, l).local)
    BY <1>0, <1>1, <1>2, <1>3 DEF TwoDigit
  <2> QED
    BY <2>1, SameNumbers
<1> QED
  BY <1>3, <1>4, <1>5

\* How many CP rings the local axis holds.
Rings(m) == LocalSize(m) \div m.cp

LEMMA RingsType ==
  ASSUME NEW m, IsMesh(m), SupportedLocalLayout(m), m.cp > 1
  PROVE  Rings(m) \in Nat \ {0} /\ LocalSize(m) = m.cp * Rings(m)
<1>1. LocalSize(m) \in Nat \ {0} /\ m.cp \in Nat \ {0} /\ 0 \in 0 .. LocalSize(m) - 1
  BY MeshSizes
<1>2. LocalSize(m) % m.cp = 0
  BY <1>1, RingsTile
<1>3. Rings(m) \in Nat /\ LocalSize(m) = m.cp * Rings(m)
  BY <1>1, <1>2, Exactly DEF Rings
<1>4. Rings(m) # 0
  BY <1>1, <1>3
<1> QED
  BY <1>3, <1>4

\* Ranks of one ring, by quotients.
LEMMA SameRing ==
  ASSUME NEW m, IsMesh(m), SupportedLocalLayout(m), m.cp > 1, NEW k \in World(m), NEW l \in World(m)
  PROVE  k \div (m.cp * PerLocal(m)) = l \div (m.cp * PerLocal(m)) <=>
           /\ k \div PerPipeline(m) = l \div PerPipeline(m)
           /\ Coords(m, k).local \div m.cp = Coords(m, l).local \div m.cp
<1> DEFINE h == Rings(m)
           B == m.cp * PerLocal(m)
<1>0. h \in Nat \ {0} /\ LocalSize(m) = m.cp * h /\ LocalSize(m) = h * m.cp
      /\ m.cp \in Nat \ {0} /\ PerLocal(m) \in Nat \ {0} /\ PerPipeline(m) \in Nat \ {0}
  <2>1. h \in Nat \ {0} /\ LocalSize(m) = m.cp * h /\ m.cp \in Nat \ {0}
    BY RingsType, MeshSizes
  <2> HIDE DEF h
  <2>2. m.cp * h = h * m.cp
    BY <2>1
  <2> QED
    BY <2>1, <2>2, MeshSizes
<1>1. IsProduct(B, PerLocal(m), m.cp)
  <2>1. m.cp * PerLocal(m) = PerLocal(m) * m.cp
    BY <1>0
  <2> QED
    BY <1>0, <2>1 DEF IsProduct
<1> HIDE DEF h, B
<1>2. ASSUME NEW x \in World(m)
      PROVE  /\ x \div B = h * (x \div PerPipeline(m)) + (Coords(m, x).local \div m.cp)
             /\ Coords(m, x).local \div m.cp \in 0 .. h - 1 /\ x \div PerPipeline(m) \in Int
  <2> DEFINE i == Coords(m, x).local
             p == x \div PerPipeline(m)
             d == i \div m.cp
             e == i % m.cp
  <2>0. x \in Int
    BY DEF World
  <2>1. x \in Int /\ p \in Int
    BY <1>0, <2>0, Division
  <2>2. i \in 0 .. h * m.cp - 1
    BY <1>0, CoordsType
  <2>3. x \div PerLocal(m) = (m.cp * h) * p + i
    BY <1>0, FlatCoords
  <2>4. x \div B = (x \div PerLocal(m)) \div m.cp
    <3>1. Nested(x, B, PerLocal(m), m.cp)
      BY <1>1, <2>1, DivDiv
    <3> QED
      BY <3>1 DEF Nested
  <2> HIDE DEF i, p
  <2>5. d \in 0 .. h - 1 /\ e \in 0 .. m.cp - 1 /\ i = d * m.cp + e
    BY <1>0, <2>2, Digits
  <2> HIDE DEF d, e
  <2>6. (m.cp * h) * p + i = m.cp * (h * p + d) + e /\ h * p + d \in Int
    <3>1. (m.cp * h) * p = m.cp * (h * p) /\ h * p \in Int /\ m.cp * (h * p) \in Int
      BY <1>0, <2>1
    <3>2. m.cp * (h * p + d) = m.cp * (h * p) + d * m.cp /\ d * m.cp \in Int
      BY <1>0, <2>5, <3>1
    <3> QED
      BY <1>0, <2>5, <3>1, <3>2
  <2>7. (x \div PerLocal(m)) \div m.cp = h * p + d
    <3> DEFINE z == h * p + d
    <3>1. z \in Int /\ x \div PerLocal(m) = m.cp * z + e
      BY <2>3, <2>6
    <3> HIDE DEF z
    <3>2. m.cp * z = z * m.cp
      BY <1>0, <3>1
    <3>3. (x \div PerLocal(m)) \div m.cp = z
      BY <1>0, <2>5, <3>1, <3>2, QuotientUnique
    <3> QED
      BY <3>3 DEF z
  <2> QED
    BY <2>1, <2>4, <2>5, <2>7 DEF i, p, d
<1>3. k \div B = l \div B <=>
        /\ k \div PerPipeline(m) = l \div PerPipeline(m)
        /\ Coords(m, k).local \div m.cp = Coords(m, l).local \div m.cp
  <2>1. /\ TwoDigit(k \div B, h, k \div PerPipeline(m), Coords(m, k).local \div m.cp)
        /\ TwoDigit(l \div B, h, l \div PerPipeline(m), Coords(m, l).local \div m.cp)
    BY <1>0, <1>2 DEF TwoDigit
  <2> QED
    BY <2>1, SameNumbers
<1> QED
  BY <1>3 DEF B

\* The ranks of a replica, of a CP ring and of a TP group lie in runs of
\* consecutive ranks, a stride apart.
RunOf(m, a) ==
  CASE a = "model" -> ModelSize(m)
    [] a = "context_block" -> m.cp * PerLocal(m)
    [] a = "tensor" -> PerLocal(m)

StrideOf(m, a) ==
  CASE a = "model" -> 1
    [] a = "context_block" -> PerLocal(m)
    [] a = "tensor" -> m.ep

\* A group of kind a is one of these, and not a rank alone.
HasRuns(m, a) ==
  /\ a \in {"model", "context_block", "tensor"}
  /\ a = "context_block" => m.cp > 1
  /\ a = "tensor" => m.tp > 1

\* Runs tile the replicas, and strides tile the runs.
LEMMA RunSizes ==
  ASSUME NEW m, IsMesh(m), SupportedLocalLayout(m), NEW a, HasRuns(m, a)
  PROVE  /\ \E k : IsProduct(RunOf(m, a), StrideOf(m, a), k)
                   /\ (a \in {"context_block", "tensor"} => k >= 2)
         /\ \E h : IsProduct(ModelSize(m), RunOf(m, a), h)
         /\ (a = "model" => StrideOf(m, a) = 1)
<1>0. /\ m.pp \in Nat \ {0} /\ m.tp \in Nat \ {0} /\ m.ep \in Nat \ {0} /\ m.cp \in Nat \ {0}
      /\ LocalSize(m) \in Nat \ {0} /\ PerLocal(m) \in Nat \ {0} /\ ModelSize(m) \in Nat \ {0}
  BY MeshSizes
<1>1. ModelSize(m) = m.pp * (LocalSize(m) * PerLocal(m)) /\ PerLocal(m) = m.tp * m.ep
  BY DEF ModelSize, PerPipeline, PerLocal
<1>2. CASE a = "model"
  <2>1. RunOf(m, a) = ModelSize(m) /\ StrideOf(m, a) = 1
    BY <1>2 DEF RunOf, StrideOf
  <2>2. IsProduct(ModelSize(m), 1, ModelSize(m)) /\ IsProduct(ModelSize(m), ModelSize(m), 1)
    BY <1>0 DEF IsProduct
  <2> QED
    BY <1>2, <2>1, <2>2
<1>3. CASE a = "context_block"
  <2>1. RunOf(m, a) = m.cp * PerLocal(m) /\ StrideOf(m, a) = PerLocal(m) /\ m.cp > 1
    BY <1>3 DEF RunOf, StrideOf, HasRuns
  <2>2. IsProduct(m.cp * PerLocal(m), PerLocal(m), m.cp)
    <3>1. m.cp * PerLocal(m) = PerLocal(m) * m.cp
      BY <1>0
    <3> QED
      BY <1>0, <3>1 DEF IsProduct
  <2> DEFINE h == Rings(m)
             P == PerLocal(m)
             c == m.cp
             p == m.pp
  <2>3. h \in Nat \ {0} /\ LocalSize(m) = c * h
    BY <2>1, RingsType
  <2>4. ModelSize(m) = p * ((c * h) * P)
    BY <1>1, <2>3
  <2>5. c \in Nat \ {0} /\ p \in Nat \ {0} /\ P \in Nat \ {0}
    BY <1>0
  <2>6. IsProduct(ModelSize(m), c * P, p * h)
    <3> HIDE DEF h, P, c, p
    <3>1. p * ((c * h) * P) = (c * P) * (p * h)
      BY <2>3, <2>5
    <3>2. c * P \in Nat \ {0} /\ p * h \in Nat \ {0}
      BY <2>3, <2>5, ProductPositive
    <3> QED
      BY <2>4, <3>1, <3>2 DEF IsProduct
  <2>7. m.cp >= 2
    BY <1>0, <2>1
  <2> QED
    BY <1>3, <2>1, <2>2, <2>6, <2>7
<1>4. CASE a = "tensor"
  <2>1. RunOf(m, a) = PerLocal(m) /\ StrideOf(m, a) = m.ep /\ m.tp > 1
    BY <1>4 DEF RunOf, StrideOf, HasRuns
  <2>2. IsProduct(PerLocal(m), m.ep, m.tp)
    <3>1. m.tp * m.ep = m.ep * m.tp
      BY <1>0
    <3> QED
      BY <1>0, <1>1, <3>1 DEF IsProduct
  <2>3. IsProduct(ModelSize(m), PerLocal(m), m.pp * LocalSize(m))
    <3> DEFINE P == PerLocal(m)
               L == LocalSize(m)
               p == m.pp
    <3>1. ModelSize(m) = p * (L * P) /\ p \in Nat \ {0} /\ L \in Nat \ {0} /\ P \in Nat \ {0}
      BY <1>0, <1>1
    <3> HIDE DEF P, L, p
    <3>2. p * (L * P) = P * (p * L) /\ p * L \in Nat \ {0}
      BY <3>1, ProductPositive
    <3>3. IsProduct(ModelSize(m), P, p * L)
      BY <3>1, <3>2 DEF IsProduct
    <3> QED
      BY <3>3 DEF P, L, p
  <2>4. m.tp >= 2
    BY <1>0, <2>1
  <2> QED
    BY <1>4, <2>1, <2>2, <2>3, <2>4
<1> QED
  BY <1>2, <1>3, <1>4 DEF HasRuns

\* A group stays in its run, and holds every rank of it at its own stride.
LEMMA GroupsInRuns ==
  ASSUME NEW m, IsMesh(m), SupportedLocalLayout(m), NEW a, HasRuns(m, a),
         NEW k \in World(m), NEW l \in World(m)
  PROVE  /\ Alike(m, a, Coords(m, l), Coords(m, k)) => k \div RunOf(m, a) = l \div RunOf(m, a)
         /\ k \div RunOf(m, a) = l \div RunOf(m, a) /\ k % StrideOf(m, a) = l % StrideOf(m, a)
              => Alike(m, a, Coords(m, l), Coords(m, k))
<1> DEFINE c == Coords(m, l)
           d == Coords(m, k)
<1>1. /\ k \div PerPipeline(m) = l \div PerPipeline(m) <=> d.dp = c.dp /\ d.pp = c.pp
      /\ k \div PerLocal(m) = l \div PerLocal(m) <=>
           k \div PerPipeline(m) = l \div PerPipeline(m) /\ d.local = c.local
  BY SameStage
<1>2. /\ c.dp = l \div ModelSize(m) /\ d.dp = k \div ModelSize(m)
      /\ c.ep = l % m.ep /\ d.ep = k % m.ep
      /\ c.tp = (l % PerLocal(m)) \div m.ep /\ d.tp = (k % PerLocal(m)) \div m.ep
      /\ (l % PerLocal(m)) % m.ep = l % m.ep /\ (k % PerLocal(m)) % m.ep = k % m.ep
  BY FlatCoords
<1>3. CASE a = "model"
  <2>1. Alike(m, a, c, d) <=> c.dp = d.dp
    BY <1>3 DEF Alike
  <2>2. RunOf(m, a) = ModelSize(m)
    BY <1>3 DEF RunOf
  <2> QED
    BY <1>2, <2>1, <2>2
<1>4. CASE a = "tensor"
  <2>1. Alike(m, a, c, d) <=> c.dp = d.dp /\ c.pp = d.pp /\ c.local = d.local /\ c.ep = d.ep
    BY <1>4 DEF Alike
  <2>2. RunOf(m, a) = PerLocal(m) /\ StrideOf(m, a) = m.ep
    BY <1>4 DEF RunOf, StrideOf
  <2> QED
    BY <1>1, <1>2, <2>1, <2>2
<1>5. CASE a = "context_block"
  <2>1. Alike(m, a, c, d) <=> /\ c.dp = d.dp /\ c.pp = d.pp /\ d.local \in RingLocals(m, c.local)
                              /\ c.tp = d.tp /\ c.ep = d.ep
    BY <1>5 DEF Alike
  <2>2. RunOf(m, a) = m.cp * PerLocal(m) /\ StrideOf(m, a) = PerLocal(m) /\ m.cp > 1
    BY <1>5 DEF RunOf, StrideOf, HasRuns
  <2>3. k \div (m.cp * PerLocal(m)) = l \div (m.cp * PerLocal(m)) <=>
          k \div PerPipeline(m) = l \div PerPipeline(m) /\ d.local \div m.cp = c.local \div m.cp
    BY <2>2, SameRing
  <2>4. c.local \in 0 .. LocalSize(m) - 1 /\ d.local \in 0 .. LocalSize(m) - 1
    BY CoordsType
  <2>5. d.local \in RingLocals(m, c.local) <=> d.local \div m.cp = c.local \div m.cp
    <3>1. RingLocals(m, c.local) = {x \in 0 .. LocalSize(m) - 1 : x \div m.cp = c.local \div m.cp}
      BY <2>2, <2>4, RingsTile
    <3> QED
      BY <2>4, <3>1
  <2> QED
    BY <1>1, <1>2, <2>1, <2>2, <2>3, <2>5
<1> QED
  BY <1>3, <1>4, <1>5 DEF HasRuns

\* Where ranks sit as they are numbered, on more than one node, the groups of a
\* kind stay on a node exactly if their runs tile the nodes.
LEMMA NumberedLocality ==
  ASSUME PlanMade, mesh.node # 0, NodeCount(mesh) > 1,
         Physical(mesh) = [l \in World(mesh) |-> l], NEW a, HasRuns(mesh, a)
  PROVE  NodeLocal(a) <=> mesh.node % RunOf(mesh, a) = 0
<1> DEFINE m == mesh
           B == RunOf(m, a)
           n == m.node
<1>1. IsMesh(m) /\ Accepted(m) /\ Ranks = World(m) /\ WorldSize(m) % n = 0 /\ SupportedLocalLayout(m)
  BY PlanMadeFacts DEF Accepted
<1>2. /\ n \in Nat \ {0} /\ NodeCount(m) \in Nat \ {0} /\ WorldSize(m) = NodeCount(m) * n
      /\ WorldSize(m) \in Nat \ {0}
  BY <1>1, NodesTileWorld, MeshSizes
<1>3. PICK h : IsProduct(ModelSize(m), B, h)
  BY <1>1, RunSizes
<1>4. B \in Nat \ {0} /\ h \in Nat \ {0} /\ ModelSize(m) = B * h /\ m.dp \in Nat \ {0}
  BY <1>1, <1>3, MeshSizes DEF IsProduct
<1>5. ASSUME NEW r \in World(m), NEW q \in World(m)
      PROVE  q \in ToSet(plan[r].groups[a]) <=> Alike(m, a, Coords(m, r), Coords(m, q))
  <2>1. a \in AttributeNames
    BY DEF HasRuns, AttributeNames
  <2>2. ToSet(plan[r].groups[a]) = Mates(m, a, r)
    BY <1>1, <2>1, BuiltGroup DEF PlanMade
  <2>3. LogicalOf(m, r) = r /\ LogicalOf(m, q) = q
    BY <1>1, LogicalRank
  <2> QED
    BY <2>2, <2>3 DEF Mates, Peers
<1>6. ASSUME NEW r \in World(m) PROVE ToSet(plan[r].groups[a]) \subseteq World(m)
  <2>1. a \in AttributeNames
    BY DEF HasRuns, AttributeNames
  <2> QED
    BY <1>1, <2>1, BuiltGroup DEF PlanMade
<1>7. ASSUME n % B = 0 PROVE NodeLocal(a)
  <2> DEFINE e == n \div B
  <2>1. e \in Nat /\ n = B * e
    BY <1>2, <1>4, <1>7, Exactly
  <2>2. IsProduct(n, B, e)
    BY <1>2, <1>4, <2>1 DEF IsProduct
  <2>3. ASSUME NEW r \in World(m), NEW q \in ToSet(plan[r].groups[a])
        PROVE  Node(q) = Node(r)
    <3>1. q \in World(m) /\ q \in Int /\ r \in Int
      BY <1>6, <2>3 DEF World
    <3>2. q \div B = r \div B
      BY <1>1, <1>5, <3>1, <2>3, GroupsInRuns
    <3>3. Nested(q, n, B, e) /\ Nested(r, n, B, e)
      BY <2>2, <3>1, DivDiv
    <3>4. q \div n = (q \div B) \div e /\ r \div n = (r \div B) \div e
      BY <3>3 DEF Nested
    <3> QED
      BY <3>2, <3>4 DEF Node
  <2> QED
    BY <1>1, <2>3 DEF NodeLocal, SameNode
<1>8. ASSUME n % B # 0 PROVE ~ NodeLocal(a)
  <2>1. PICK k : IsProduct(B, StrideOf(m, a), k) /\ (a \in {"context_block", "tensor"} => k >= 2)
    BY <1>1, RunSizes
  <2>2. k >= 2
    <3>1. CASE a = "model"
      <4>1. B = 1 * k /\ k \in Nat \ {0}
        BY <1>1, <2>1, <3>1, RunSizes DEF IsProduct
      <4>2. k # 1
        <5> SUFFICES ASSUME k = 1 PROVE FALSE
          OBVIOUS
        <5>1. B = 1 /\ n = 1 * n + 0 /\ 0 \in 0 .. 1 - 1 /\ n \in Int
          BY <1>2, <4>1
        <5>2. (1 * n + 0) % 1 = 0
          BY <5>1, RemainderUnique
        <5> QED
          BY <1>8, <5>1, <5>2
      <4> QED
        BY <4>1, <4>2
    <3> QED
      BY <2>1, <3>1 DEF HasRuns
  <2>3. PICK u \in Nat, v \in Nat :
           /\ u < n /\ n <= v
           /\ u \div B = n \div B /\ v \div B = n \div B
           /\ u % StrideOf(m, a) = v % StrideOf(m, a)
    BY <1>2, <1>8, <2>1, <2>2, CutRun
  <2>4. u \in World(m) /\ v \in World(m)
    <3> DEFINE z == m.dp * h
               d == v \div B
               f == v % B
    <3>1. WorldSize(m) = z * B /\ z \in Nat \ {0}
      <4>1. m.dp * (B * h) = (m.dp * h) * B
        BY <1>4
      <4> QED
        BY <1>4, <4>1, ProductPositive DEF WorldSize
    <3>2. n < WorldSize(m)
      <4>1. NodeCount(m) * n >= 2 * n
        BY <1>2
      <4> QED
        BY <1>2, <4>1
    <3>3. n \div B \in 0 .. z - 1
      <4>1. n \in 0 .. z * B - 1
        BY <1>2, <3>1, <3>2
      <4> HIDE DEF z
      <4> QED
        BY <1>4, <3>1, <4>1, Digits
    <3>4. v = B * d + f /\ f \in 0 .. B - 1 /\ d \in 0 .. z - 1
      <4>1. v \in Int /\ B \in Nat \ {0} /\ v \div B = n \div B
        BY <1>4, <2>3
      <4>2. v \div B \in 0 .. z - 1
        BY <3>3, <4>1
      <4> HIDE DEF B, z
      <4>3. v = B * (v \div B) + (v % B) /\ v % B \in 0 .. B - 1
        BY <4>1, Division
      <4> QED
        BY <4>2, <4>3
    <3> HIDE DEF z, d, f, B, n
    <3>5. d * B + f \in 0 .. z * B - 1
      BY <1>4, <3>1, <3>4, TwoDigits
    <3>6. v \in 0 .. WorldSize(m) - 1
      <4>1. d * B = B * d
        BY <1>4, <3>4
      <4> QED
        BY <3>1, <3>4, <3>5, <4>1
    <3>7. u \in 0 .. WorldSize(m) - 1
      BY <1>2, <2>3, <3>2
    <3> QED
      BY <3>6, <3>7 DEF World
  <2>5. v \in ToSet(plan[u].groups[a]) /\ u \in ToSet(plan[u].groups[a])
    <3>1. v \div B = u \div B
      BY <2>3
    <3>2. Alike(m, a, Coords(m, u), Coords(m, v))
      BY <1>1, <2>3, <2>4, <3>1, GroupsInRuns
    <3>3. Alike(m, a, Coords(m, u), Coords(m, u))
      BY <1>1, <2>4, GroupsInRuns
    <3> QED
      BY <1>5, <2>4, <3>2, <3>3
  <2>6. Node(u) # Node(v)
    <3>1. u \in 0 .. 1 * n - 1
      BY <1>2, <2>3
    <3>2. u \div n \in 0 .. 1 - 1
      BY <1>2, <3>1, Digits
    <3>3. v = n * (v \div n) + (v % n) /\ v % n \in 0 .. n - 1
      <4>1. v \in Int /\ n \in Nat \ {0}
        BY <1>2, <2>3
      <4> HIDE DEF n
      <4> QED
        BY <4>1, Division
    <3>4. v \div n # 0
      <4> SUFFICES ASSUME v \div n = 0 PROVE FALSE
        OBVIOUS
      <4>1. v = n * 0 + (v % n)
        BY <3>3
      <4> DEFINE f == v % n
      <4>2. v = n * 0 + f /\ f \in 0 .. n - 1
        BY <3>3, <4>1
      <4> HIDE DEF f
      <4> QED
        BY <1>2, <2>3, <4>2
    <3> QED
      BY <3>2, <3>4 DEF Node
  <2> QED
    BY <1>1, <2>4, <2>5, <2>6 DEF NodeLocal, SameNode
<1> QED
  BY <1>7, <1>8

-----------------------------------------------------------------------------
(* The names of the placements.                                            *)

\* Groups whose ranks are all on one node, by the logical ranks of the members.
LEMMA LocalByNode ==
  ASSUME PlanMade, NEW a \in AttributeNames,
         \A r \in World(mesh) : \A q \in Mates(mesh, a, r) : Node(q) = Node(r)
  PROVE  NodeLocal(a)
<1>1. IsMesh(mesh) /\ Accepted(mesh) /\ Ranks = World(mesh)
  BY PlanMadeFacts
<1>2. ASSUME NEW r \in Ranks PROVE ToSet(plan[r].groups[a]) = Mates(mesh, a, r)
  BY <1>1, BuiltGroup DEF PlanMade
<1>3. ASSUME NEW r \in Ranks, NEW p \in ToSet(plan[r].groups[a]), NEW q \in ToSet(plan[r].groups[a])
      PROVE  Node(p) = Node(q)
  <2>1. p \in Mates(mesh, a, r) /\ q \in Mates(mesh, a, r)
    BY <1>2
  <2>2. Node(p) = Node(r) /\ Node(q) = Node(r)
    BY <1>1, <2>1
  <2> QED
    BY <2>2
<1> QED
  BY <1>3 DEF NodeLocal, SameNode

\* What a member of a group has in common with a rank.
LEMMA MatesOnNode ==
  ASSUME NEW m, IsMesh(m), Accepted(m), NEW a \in AttributeNames, NEW r \in World(m),
         NEW q \in Mates(m, a, r)
  PROVE  /\ q \in World(m) /\ LogicalOf(m, q) \in World(m) /\ LogicalOf(m, r) \in World(m)
         /\ Physical(m)[LogicalOf(m, q)] = q /\ Physical(m)[LogicalOf(m, r)] = r
         /\ a # "data" => Coords(m, LogicalOf(m, q)).dp = Coords(m, LogicalOf(m, r)).dp
         /\ a \in {"tensor", "context_block"} =>
              Coords(m, LogicalOf(m, q)).ep = Coords(m, LogicalOf(m, r)).ep
         /\ a = "tensor" => Coords(m, LogicalOf(m, q)).local = Coords(m, LogicalOf(m, r)).local
BY MateAlike DEF Alike

\* tp_intra_node_ep_inter_node is what it says.
LEMMA ExpertsPlacedApart ==
  ASSUME PlanMade, mesh.node # 0, PlacementName(mesh) = "tp_intra_node_ep_inter_node"
  PROVE  ExpertsApart
<1> DEFINE m == mesh
           C(q) == Coords(m, LogicalOf(m, q))
<1>1. Ranks = World(m) /\ IsMesh(m) /\ Accepted(m) /\ WorldSize(m) % m.node = 0
  BY PlanMadeFacts DEF Accepted
<1>2. ExpertsAcrossNodes(m) /\ Physical(m) = ExpertPlacement(m)
  <2>1. m.policy \in {"auto", "inter_node_cp"}
    BY <1>1 DEF IsMesh
  <2>2. ExpertsAcrossNodes(m) /\ m.policy = "auto"
    BY <2>1 DEF PlacementName
  <2> QED
    BY <2>2 DEF Physical
<1>3. ASSUME NEW q \in World(m)
      PROVE  Node(q) = C(q).dp * m.ep + C(q).ep
  BY <1>1, <1>2, LogicalRank, ExpertNodes DEF Node
<1>4. ASSUME NEW a \in {"tensor", "context_block"} PROVE NodeLocal(a)
  <2>1. a \in AttributeNames /\ a # "data"
    BY DEF AttributeNames
  <2>2. ASSUME NEW r \in World(m), NEW q \in Mates(m, a, r) PROVE Node(q) = Node(r)
    <3>1. q \in World(m) /\ C(q).dp = C(r).dp /\ C(q).ep = C(r).ep
      BY <1>1, <2>1, MatesOnNode
    <3> QED
      BY <1>3, <3>1
  <2> QED
    BY <2>1, <2>2, LocalByNode
<1>5. ASSUME NEW r \in World(m), NEW q \in ToSet(plan[r].groups.expert),
             NEW s \in ToSet(plan[r].groups.expert), Node(q) = Node(s)
      PROVE  q = s
  <2>1. q \in Mates(m, "expert", r) /\ s \in Mates(m, "expert", r) /\ "expert" \in AttributeNames
    BY <1>1, BuiltGroup DEF PlanMade, AttributeNames
  <2>2. Alike(m, "expert", C(r), C(q)) /\ Alike(m, "expert", C(r), C(s))
        /\ LogicalOf(m, q) \in World(m) /\ LogicalOf(m, s) \in World(m)
        /\ Physical(m)[LogicalOf(m, q)] = q /\ Physical(m)[LogicalOf(m, s)] = s
        /\ q \in World(m) /\ s \in World(m)
    BY <1>1, <2>1, MateAlike
  <2>3. /\ C(q).dp = C(s).dp /\ C(q).pp = C(s).pp /\ C(q).local = C(s).local /\ C(q).tp = C(s).tp
    BY <2>2 DEF Alike
  <2>4. C(q).ep \in 0 .. m.ep - 1 /\ C(s).ep \in 0 .. m.ep - 1 /\ m.ep \in Nat \ {0}
        /\ C(q).dp \in Int /\ C(s).dp \in Int
        /\ C(q).dp * m.ep + C(q).ep = C(s).dp * m.ep + C(s).ep
    BY <1>1, <1>3, <1>5, <2>2, CoordsType, MeshSizes
  <2>5. C(q).ep = C(s).ep
    BY <2>4, SameDigits
  <2>6. LogicalOf(m, q) = LogicalOf(m, s)
    BY <1>1, <2>2, <2>3, <2>5, SameCoords
  <2> QED
    BY <2>2, <2>6
<1> QED
  BY <1>1, <1>4, <1>5 DEF ExpertsApart

\* And so is inter_node_cp_tp_inner.
LEMMA RingsPlacedOverNodes ==
  ASSUME PlanMade, mesh.node # 0, PlacementName(mesh) = "inter_node_cp_tp_inner"
  PROVE  RingsOverNodes
<1> DEFINE m == mesh
<1>1. /\ Ranks = World(m) /\ IsMesh(m) /\ Accepted(m) /\ WorldSize(m) % m.node = 0
      /\ (m.policy = "inter_node_cp" => CanStripe(m))
  BY PlanMadeFacts DEF Accepted
<1>2. m.policy = "inter_node_cp"
  <2>1. m.policy \in {"auto", "inter_node_cp"}
    BY <1>1 DEF IsMesh
  <2> QED
    BY <2>1 DEF PlacementName
<1>3. Physical(m) = Striped(m) /\ CanStripe(m)
  BY <1>1, <1>2 DEF Physical
<1>4. NodeLocal("tensor")
  <2>1. "tensor" \in AttributeNames
    BY DEF AttributeNames
  <2>2. ASSUME NEW r \in World(m), NEW q \in Mates(m, "tensor", r) PROVE Node(q) = Node(r)
    <3>1. /\ LogicalOf(m, q) \in World(m) /\ LogicalOf(m, r) \in World(m)
          /\ Physical(m)[LogicalOf(m, q)] = q /\ Physical(m)[LogicalOf(m, r)] = r
          /\ Coords(m, LogicalOf(m, q)).local = Coords(m, LogicalOf(m, r)).local
      BY <1>1, <2>1, MatesOnNode
    <3>2. /\ q \div m.node = Coords(m, LogicalOf(m, q)).local \div PerNode(m)
          /\ r \div m.node = Coords(m, LogicalOf(m, r)).local \div PerNode(m)
      BY <1>1, <1>3, <3>1, StripedNodes
    <3> QED
      BY <3>1, <3>2 DEF Node
  <2> QED
    BY <2>1, <2>2, LocalByNode
<1>5. ASSUME NEW r \in World(m), NEW n \in 0 .. NodeCount(m) - 1
      PROVE  LET ring == plan[r].groups.context_block IN
               Cardinality({q \in ToSet(ring) : Node(q) = n}) = Len(ring) \div NodeCount(m)
  <2>1. /\ Len(plan[r].groups.context_block) = LocalSize(m)
        /\ Cardinality({q \in Mates(m, "context_block", r) : q \div m.node = n})
             = LocalSize(m) \div NodeCount(m)
    BY <1>1, <1>2, StripedShares DEF PlanMade
  <2>2. ToSet(plan[r].groups.context_block) = Mates(m, "context_block", r)
    BY <1>1, BuiltGroup DEF PlanMade, AttributeNames
  <2> QED
    BY <2>1, <2>2 DEF Node
<1> QED
  BY <1>1, <1>4, <1>5 DEF RingsOverNodes

\* A divisor is not larger, and its divisors divide too.
LEMMA Divides ==
  ASSUME NEW n \in Nat \ {0}, NEW B \in Nat \ {0}, n % B = 0
  PROVE  /\ B <= n
         /\ \A A, h : IsProduct(B, A, h) => n % A = 0
<1> DEFINE e == n \div B
<1>1. n = B * e /\ e \in Nat
  BY Exactly
<1> HIDE DEF e
<1>2. B <= n
  <2>1. e >= 1
    <3>1. e = 0 => B * e = 0
      OBVIOUS
    <3> QED
      BY <1>1, <3>1
  <2>2. B * e >= B * 1
    BY <1>1, <2>1
  <2> QED
    BY <1>1, <2>2
<1>3. ASSUME NEW A, NEW h, IsProduct(B, A, h) PROVE n % A = 0
  <2>1. A \in Nat \ {0} /\ h \in Nat \ {0} /\ B = A * h
    BY <1>3 DEF IsProduct
  <2>2. n = A * (h * e) + 0 /\ h * e \in Int /\ 0 \in 0 .. A - 1
    <3>1. (A * h) * e = A * (h * e) /\ h * e \in Int /\ A * (h * e) \in Int
      BY <1>1, <2>1
    <3> QED
      BY <1>1, <2>1, <3>1
  <2>3. (A * (h * e) + 0) % A = 0
    BY <2>1, <2>2, RemainderUnique
  <2> QED
    BY <2>2, <2>3
<1> QED
  BY <1>2, <1>3

\* The kinds of groups that lie in runs.
RunKinds == {"model", "context_block", "tensor"}

\* Where all ranks of a replica share a node, they are on it, and every run fits.
LEMMA ReplicasOnNodes ==
  ASSUME PlanMade, mesh.node # 0, mesh.policy = "auto", ~ ExpertsAcrossNodes(mesh),
         NodeCount(mesh) = 1 \/ ReplicasFitNodes(mesh)
  PROVE  /\ \A a \in RunKinds : NodeLocal(a)
         /\ \A a : HasRuns(mesh, a) => TilesNodes(RunOf(mesh, a))
         /\ ModelSize(mesh) <= mesh.node
<1> DEFINE m == mesh
<1>1. Ranks = World(m) /\ IsMesh(m) /\ Accepted(m) /\ WorldSize(m) % m.node = 0 /\ SupportedLocalLayout(m)
  BY PlanMadeFacts DEF Accepted
<1>2. /\ m.node \in Nat \ {0} /\ NodeCount(m) \in Nat \ {0} /\ WorldSize(m) = NodeCount(m) * m.node
      /\ ModelSize(m) \in Nat \ {0} /\ m.dp \in Nat \ {0} /\ WorldSize(m) = m.dp * ModelSize(m)
  BY <1>1, NodesTileWorld, MeshSizes DEF WorldSize
<1>3. RunKinds \subseteq AttributeNames \ {"data"}
  BY DEF AttributeNames, RunKinds
<1>4. CASE NodeCount(m) = 1
  <2>1. ASSUME NEW q \in World(m) PROVE Node(q) = 0
    <3>1. q \in 0 .. 1 * m.node - 1 /\ 1 \in Nat \ {0}
      BY <1>2, <1>4 DEF World
    <3>2. q \div m.node \in 0 .. 1 - 1
      BY <1>2, <3>1, Digits
    <3> QED
      BY <3>2 DEF Node
  <2>2. ASSUME NEW a \in RunKinds PROVE NodeLocal(a)
    <3>1. \A r \in World(m) : \A q \in Mates(m, a, r) : Node(q) = Node(r)
      BY <2>1 DEF Mates
    <3> QED
      BY <1>3, <3>1, LocalByNode
  <2>3. ModelSize(m) <= m.node
    <3>1. m.dp * ModelSize(m) >= 1 * ModelSize(m)
      BY <1>2
    <3> QED
      BY <1>2, <1>4, <3>1
  <2> QED
    BY <1>4, <2>2, <2>3 DEF TilesNodes
<1>5. CASE ReplicasFitNodes(m)
  <2>1. Physical(m) = RoundRobin(m) /\ m.node % ModelSize(m) = 0 /\ ModelSize(m) <= m.node
    BY <1>5 DEF Physical, ReplicasFitNodes
  <2>2. ASSUME NEW a \in RunKinds PROVE NodeLocal(a)
    <3>1. ASSUME NEW r \in World(m), NEW q \in Mates(m, a, r) PROVE Node(q) = Node(r)
      <4>1. /\ LogicalOf(m, q) \in World(m) /\ LogicalOf(m, r) \in World(m)
            /\ Physical(m)[LogicalOf(m, q)] = q /\ Physical(m)[LogicalOf(m, r)] = r
            /\ Coords(m, LogicalOf(m, q)).dp = Coords(m, LogicalOf(m, r)).dp
        BY <1>1, <1>3, MatesOnNode
      <4>2. /\ q \div m.node = Coords(m, LogicalOf(m, q)).dp % NodeCount(m)
            /\ r \div m.node = Coords(m, LogicalOf(m, r)).dp % NodeCount(m)
        BY <1>1, <2>1, <4>1, RoundRobinNodes
      <4> QED
        BY <4>1, <4>2 DEF Node
    <3> QED
      BY <1>3, <3>1, LocalByNode
  <2>3. ASSUME NEW a, HasRuns(m, a) PROVE TilesNodes(RunOf(m, a))
    <3>1. PICK h : IsProduct(ModelSize(m), RunOf(m, a), h)
      BY <1>1, <2>3, RunSizes
    <3>2. m.node % RunOf(m, a) = 0
      BY <1>2, <2>1, <3>1, Divides
    <3> QED
      BY <3>2 DEF TilesNodes
  <2> QED
    BY <2>1, <2>2, <2>3
<1> QED
  BY <1>4, <1>5

\* The other names: what they promise is so exactly if the runs tile the nodes.
LEMMA RunsPlacedOnNodes ==
  ASSUME PlanMade, mesh.node # 0,
         PlacementName(mesh) \notin {"tp_intra_node_ep_inter_node", "inter_node_cp_tp_inner"}
  PROVE  RunsOnNodes
<1> DEFINE m == mesh
           name == PlacementName(m)
           M == ModelSize(m)
           n == m.node
<1>1. Ranks = World(m) /\ IsMesh(m) /\ Accepted(m) /\ WorldSize(m) % n = 0
  BY PlanMadeFacts DEF Accepted
<1>2. /\ n \in Nat \ {0} /\ NodeCount(m) \in Nat \ {0} /\ M \in Nat \ {0}
      /\ m.cp \in Nat \ {0} /\ m.tp \in Nat \ {0} /\ m.ep \in Nat \ {0} /\ PerLocal(m) \in Nat \ {0}
  BY <1>1, NodesTileWorld, MeshSizes
<1>3. /\ m.policy = "auto" /\ ~ ExpertsAcrossNodes(m)
      /\ name = IF M <= n THEN "node_local_model_parallel_tp_inner"
                ELSE IF m.cp * m.tp <= n THEN "multi_node_model_parallel_node_local_cp_tp_inner"
                ELSE "multi_node_model_parallel_tp_inner"
  <2>1. m.policy \in {"auto", "inter_node_cp"}
    BY <1>1 DEF IsMesh
  <2>2. m.policy = "auto" /\ ~ ExpertsAcrossNodes(m)
    BY <2>1 DEF PlacementName
  <2> QED
    BY <2>2 DEF PlacementName
<1>4. /\ name = "node_local_model_parallel_tp_inner" <=> M <= n
      /\ name # "multi_node_model_parallel_tp_inner" <=> M <= n \/ m.cp * m.tp <= n
  BY <1>3
<1>5. /\ HasRuns(m, "model") /\ RunOf(m, "model") = M
      /\ m.cp > 1 => HasRuns(m, "context_block")
      /\ RunOf(m, "context_block") = m.cp * PerLocal(m)
      /\ m.tp > 1 => HasRuns(m, "tensor")
      /\ RunOf(m, "tensor") = PerLocal(m)
  BY DEF HasRuns, RunOf
<1>6. CASE NodeCount(m) = 1 \/ ReplicasFitNodes(m)
  <2>1. /\ NodeLocal("model") /\ NodeLocal("context_block") /\ NodeLocal("tensor") /\ M <= n
        /\ \A a : HasRuns(m, a) => TilesNodes(RunOf(m, a))
    BY <1>3, <1>6, ReplicasOnNodes DEF RunKinds
  <2> QED
    BY <1>4, <1>5, <2>1 DEF RunsOnNodes
<1>7. CASE ~ (NodeCount(m) = 1 \/ ReplicasFitNodes(m))
  <2>1. NodeCount(m) > 1 /\ Physical(m) = [l \in World(m) |-> l]
    <3>1. NodeCount(m) > 1
      BY <1>2, <1>7
    <3> QED
      BY <1>3, <1>7, <3>1 DEF Physical
  <2>2. ASSUME NEW a, HasRuns(m, a)
        PROVE  NodeLocal(a) <=> n % RunOf(m, a) = 0
    BY <2>1, <2>2, NumberedLocality
  <2>3. ASSUME NEW size PROVE TilesNodes(size) <=> n % size = 0
    BY <1>7 DEF TilesNodes
  <2>4. n % M = 0 => M <= n
    BY <1>2, Divides
  <2>5. n % (m.cp * PerLocal(m)) = 0 => m.cp * m.tp <= n
    <3> DEFINE B == m.cp * PerLocal(m)
               A == m.cp * m.tp
    <3>1. B = A * m.ep /\ A \in Nat \ {0} /\ B \in Nat \ {0}
      <4>1. m.cp * (m.tp * m.ep) = (m.cp * m.tp) * m.ep
        BY <1>2
      <4> QED
        BY <1>2, <4>1, ProductPositive DEF PerLocal
    <3> HIDE DEF A, B
    <3>2. A * m.ep >= A * 1
      BY <1>2, <3>1
    <3>3. n % B = 0 => B <= n
      BY <1>2, <3>1, Divides
    <3> QED
      BY <1>2, <3>1, <3>2, <3>3 DEF A, B
  <2>6. NodeLocal("model") <=> name = "node_local_model_parallel_tp_inner" /\ TilesNodes(M)
    BY <1>4, <1>5, <2>2, <2>3, <2>4
  <2>7. m.cp > 1 => (NodeLocal("context_block") <=>
                       name # "multi_node_model_parallel_tp_inner" /\ TilesNodes(m.cp * PerLocal(m)))
    BY <1>4, <1>5, <2>2, <2>3, <2>5
  <2>8. m.tp > 1 => (NodeLocal("tensor") <=> TilesNodes(PerLocal(m)))
    BY <1>5, <2>2, <2>3
  <2> QED
    BY <2>6, <2>7, <2>8 DEF RunsOnNodes
<1> QED
  BY <1>6, <1>7

\* Each name holds exactly where its groups are on the nodes it puts them on.
THEOREM NodeLocalityAlways == Spec => []NodeLocality
<1>1. PlanMade => NodeLocality
  <2> SUFFICES ASSUME PlanMade, mesh.node # 0
               PROVE  CASE PlacementName(mesh) = "tp_intra_node_ep_inter_node" -> ExpertsApart
                        [] PlacementName(mesh) = "inter_node_cp_tp_inner" -> RingsOverNodes
                        [] OTHER -> RunsOnNodes
    BY DEF NodeLocality
  <2> QED
    BY ExpertsPlacedApart, RingsPlacedOverNodes, RunsPlacedOnNodes
<1> QED
  BY <1>1, PlanStays, PTL

-----------------------------------------------------------------------------
(* The groups by the coordinates of their members.                         *)

Names == AttributeNames \union {"optimizer"}

\* The list rank r computes for a group of kind a.
Own(r, a) == IF a = "optimizer" THEN plan[r].optimizer ELSE plan[r].groups[a]

\* Ranks with coordinates c and d are in one group of kind a.
Near(a, c, d) ==
  IF a = "optimizer" THEN c.pp = d.pp /\ c.tp = d.tp /\ c.ep = d.ep ELSE Alike(mesh, a, c, d)

\* Each place of the mesh is taken by one rank.
LEMMA AtCoords ==
  ASSUME PlanMade
  PROVE  /\ \A r \in Ranks : plan[r].at \in Box(mesh)
                             /\ plan[r].at = Coords(mesh, LogicalOf(mesh, r))
         /\ \A r, q \in Ranks : plan[r].at = plan[q].at => r = q
         /\ \A c \in Box(mesh) : \E r \in Ranks : plan[r].at = c
<1>1. IsMesh(mesh) /\ Accepted(mesh) /\ Ranks = World(mesh) /\ plan = Built(mesh)
  BY PlanMadeFacts DEF PlanMade
<1>2. ASSUME NEW r \in Ranks
      PROVE  /\ plan[r].at \in Box(mesh) /\ plan[r].at = Coords(mesh, LogicalOf(mesh, r))
             /\ LogicalOf(mesh, r) \in World(mesh)
             /\ Physical(mesh)[LogicalOf(mesh, r)] = r
             /\ RankFromCoords(mesh, plan[r].at) = LogicalOf(mesh, r)
  <2>1. Built(mesh)[r].at = Coords(mesh, LogicalOf(mesh, r))
    BY <1>1, BuiltRank
  <2>2. LogicalOf(mesh, r) \in World(mesh) /\ Physical(mesh)[LogicalOf(mesh, r)] = r
    BY <1>1, LogicalRank
  <2>3. Coords(mesh, LogicalOf(mesh, r)) \in Box(mesh)
        /\ RankFromCoords(mesh, Coords(mesh, LogicalOf(mesh, r))) = LogicalOf(mesh, r)
    BY <1>1, <2>2, RankHasCoords
  <2> QED
    BY <1>1, <2>1, <2>2, <2>3
<1>3. ASSUME NEW r \in Ranks, NEW q \in Ranks, plan[r].at = plan[q].at PROVE r = q
  <2>1. LogicalOf(mesh, r) = LogicalOf(mesh, q)
    BY <1>2, <1>3
  <2> QED
    BY <1>2, <2>1
<1>4. ASSUME NEW c \in Box(mesh) PROVE \E r \in Ranks : plan[r].at = c
  <2> DEFINE l == RankFromCoords(mesh, c)
             r == Physical(mesh)[l]
  <2>1. l \in World(mesh) /\ Coords(mesh, l) = c
    BY <1>1, CoordsHaveRank
  <2>2. r \in World(mesh) /\ LogicalOf(mesh, r) = l
    BY <1>1, <2>1, LogicalRank
  <2> HIDE DEF l, r
  <2>3. plan[r].at = c
    BY <1>1, <1>2, <2>1, <2>2
  <2> QED
    BY <1>1, <2>2, <2>3
<1> QED
  BY <1>2, <1>3, <1>4

\* A group: its members, by coordinates, and what they hold of it.
LEMMA OwnMembers ==
  ASSUME PlanMade, NEW r \in Ranks, NEW a \in Names
  PROVE  /\ Own(r, a) \in Seq(Ranks)
         /\ ToSet(Own(r, a)) = {q \in Ranks : Near(a, plan[r].at, plan[q].at)}
         /\ Len(Own(r, a)) = Cardinality(ToSet(Own(r, a))) /\ IsFiniteSet(ToSet(Own(r, a)))
         /\ r \in ToSet(Own(r, a)) /\ \A q \in ToSet(Own(r, a)) : Own(q, a) = Own(r, a)
<1>1. IsMesh(mesh) /\ Accepted(mesh) /\ Ranks = World(mesh) /\ plan = Built(mesh)
  BY PlanMadeFacts DEF PlanMade
<1>2. \A q \in Ranks : plan[q].at = Coords(mesh, LogicalOf(mesh, q)) /\ LogicalOf(mesh, q) \in World(mesh)
  BY <1>1, AtCoords, LogicalRank
<1>3. ASSUME NEW S, S \in SUBSET Ranks PROVE IsFiniteSet(S) /\ S \in SUBSET Int
  BY <1>1, <1>3, WorldFinite
<1>4. CASE a # "optimizer"
  <2>1. a \in AttributeNames /\ Own(r, a) = Built(mesh)[r].groups[a]
        /\ \A q \in Ranks : Own(q, a) = Built(mesh)[q].groups[a]
    BY <1>1, <1>4 DEF Own, Names
  <2> DEFINE S == Peers(mesh, a, LogicalOf(mesh, r))
             T == Mates(mesh, a, r)
             f == [l \in S |-> Physical(mesh)[l]]
  <2>2. /\ ToSet(Own(r, a)) = T /\ r \in T /\ T \in SUBSET World(mesh)
        /\ Own(r, a) \in Seq(Ranks) /\ Len(Own(r, a)) = Cardinality(S)
        /\ \A q \in T : Own(q, a) = Own(r, a)
    <3>1. /\ ToSet(Built(mesh)[r].groups[a]) = T
          /\ r \in T /\ T \in SUBSET World(mesh)
          /\ Built(mesh)[r].groups[a] \in Seq(World(mesh))
          /\ Len(Built(mesh)[r].groups[a]) = Cardinality(S)
          /\ \A q \in T : Built(mesh)[q].groups[a] = Built(mesh)[r].groups[a]
      BY <1>1, <2>1, BuiltGroup
    <3>2. \A q \in T : q \in Ranks
      BY <1>1, <3>1
    <3> HIDE DEF S, T
    <3> QED
      BY <1>1, <2>1, <3>1, <3>2
  <2>3. T = {q \in Ranks : Near(a, plan[r].at, plan[q].at)}
    BY <1>1, <1>2, <1>4 DEF Mates, Peers, Near
  <2>4. S \in SUBSET World(mesh) /\ IsFiniteSet(S)
    BY <1>1, WorldFinite DEF Peers
  <2>5. \A l \in World(mesh) : Physical(mesh)[l] \in World(mesh) /\ LogicalOf(mesh, Physical(mesh)[l]) = l
    BY <1>1, LogicalRank
  <2>6. \A q \in World(mesh) : Physical(mesh)[LogicalOf(mesh, q)] = q
    BY <1>1, LogicalRank
  <2>7. \A l \in S : Physical(mesh)[l] \in T
    BY <2>4, <2>5 DEF Mates
  <2>8. f \in [S -> T]
    BY <2>7
  <2>9. \A x, y \in S : f[x] = f[y] => x = y
    BY <2>4, <2>5
  <2>10. \A t \in T : \E x \in S : f[x] = t
    BY <2>6 DEF Mates
  <2> HIDE DEF S, T, f
  <2>11. IsFiniteSet(T) /\ Cardinality(T) = Cardinality(S)
    BY <2>4, <2>8, <2>9, <2>10, SameCount
  <2> QED
    BY <2>2, <2>3, <2>11
<1>5. CASE a = "optimizer"
  <2> DEFINE H(x) == Holders(mesh, x)
  <2>1. \A q \in Ranks : Own(q, a) = Ascending(H(q))
    BY <1>1, <1>5, BuiltRank DEF Own
  <2>2. H(r) \in SUBSET Ranks /\ r \in H(r)
    BY <1>1 DEF Holders
  <2>3. H(r) = {q \in Ranks : Near(a, plan[r].at, plan[q].at)}
    BY <1>1, <1>2, <1>5 DEF Holders, Near
  <2>4. \A q \in H(r) : q \in Ranks /\ H(q) = H(r)
    BY <1>1 DEF Holders
  <2> HIDE DEF H
  <2>5. IsFiniteSet(H(r)) /\ H(r) \in SUBSET Int
    BY <1>3, <2>2
  <2>6. /\ Len(Ascending(H(r))) = Cardinality(H(r)) /\ Ascending(H(r)) \in Seq(H(r))
        /\ ToSet(Ascending(H(r))) = H(r)
    BY <2>5, AscendingList, AscendingMembers
  <2>7. Ascending(H(r)) \in Seq(Ranks)
    BY <2>2, <2>6
  <2> QED
    BY <2>1, <2>2, <2>3, <2>4, <2>5, <2>6, <2>7
<1> QED
  BY <1>4, <1>5

\* The ranks with coordinates in D, counted by a set one to one with D.
LEMMA CountAt ==
  ASSUME PlanMade, NEW D, D \in SUBSET Box(mesh), NEW S, IsFiniteSet(S), NEW f \in [S -> D],
         \A x, y \in S : f[x] = f[y] => x = y, \A d \in D : \E x \in S : f[x] = d
  PROVE  Cardinality({q \in Ranks : plan[q].at \in D}) = Cardinality(S)
<1> DEFINE T == {q \in Ranks : plan[q].at \in D}
           g == [q \in T |-> plan[q].at]
<1>1. IsFiniteSet(D) /\ Cardinality(D) = Cardinality(S)
  BY SameCount
<1>2. IsFiniteSet(T)
  BY PlanMadeFacts, WorldFinite
<1>3. g \in [T -> D]
  OBVIOUS
<1>4. \A x, y \in T : g[x] = g[y] => x = y
  BY AtCoords
<1>5. \A d \in D : \E q \in T : g[q] = d
  BY AtCoords
<1> HIDE DEF T, g
<1>6. Cardinality(D) = Cardinality(T)
  BY <1>2, <1>3, <1>4, <1>5, SameCount
<1> QED
  BY <1>1, <1>6 DEF T

\* The size of each kind of group is one for all ranks.
GroupSize(a) ==
  CASE a = "data" -> mesh.dp
    [] a = "tensor" -> mesh.tp
    [] a = "expert" -> mesh.ep
    [] a = "model" -> ModelSize(mesh)
    [] a = "context_block" -> IF mesh.cp > 1 THEN mesh.cp ELSE LocalSize(mesh)
    [] a = "optimizer" -> mesh.dp * LocalSize(mesh)

SizedNames == {"data", "tensor", "expert", "model", "context_block", "optimizer"}

\* The number of coordinates in a box.
LEMMA BoxCount ==
  ASSUME PlanMade, NEW A, NEW B, NEW C, NEW E, NEW F,
         IsFiniteSet(A), IsFiniteSet(B), IsFiniteSet(C), IsFiniteSet(E), IsFiniteSet(F),
         [dp : A, pp : B, local : C, tp : E, ep : F] \in SUBSET Box(mesh)
  PROVE  Cardinality({q \in Ranks : plan[q].at \in [dp : A, pp : B, local : C, tp : E, ep : F]})
           = Cardinality(A) * (Cardinality(B) * (Cardinality(C) * (Cardinality(E) * Cardinality(F))))
<1> DEFINE D == [dp : A, pp : B, local : C, tp : E, ep : F]
           P4 == E \X F
           P3 == C \X P4
           P2 == B \X P3
           P1 == A \X P2
           R(p) == [dp |-> p[1], pp |-> p[2][1], local |-> p[2][2][1],
                    tp |-> p[2][2][2][1], ep |-> p[2][2][2][2]]
           f == [p \in P1 |-> R(p)]
<1>1. IsFiniteSet(P4) /\ Cardinality(P4) = Cardinality(E) * Cardinality(F)
  BY FS_Product
<1>2. IsFiniteSet(P3) /\ Cardinality(P3) = Cardinality(C) * Cardinality(P4)
  BY <1>1, FS_Product
<1>3. IsFiniteSet(P2) /\ Cardinality(P2) = Cardinality(B) * Cardinality(P3)
  BY <1>2, FS_Product
<1>4. IsFiniteSet(P1) /\ Cardinality(P1) = Cardinality(A) * Cardinality(P2)
  <2> HIDE DEF P2
  <2> QED
    BY <1>3, FS_Product
<1>5. ASSUME NEW p \in P1
      PROVE  /\ p[1] \in A /\ p[2] \in P2 /\ p[2][1] \in B /\ p[2][2] \in P3 /\ p[2][2][1] \in C
             /\ p[2][2][2] \in P4 /\ p[2][2][2][1] \in E /\ p[2][2][2][2] \in F
  <2>1. p[1] \in A /\ p[2] \in P2
    OBVIOUS
  <2>2. p[2][1] \in B /\ p[2][2] \in P3
    BY <2>1
  <2>3. p[2][2][1] \in C /\ p[2][2][2] \in P4
    BY <2>2
  <2>4. p[2][2][2][1] \in E /\ p[2][2][2][2] \in F
    BY <2>3
  <2> QED
    BY <2>1, <2>2, <2>3, <2>4
<1>6. f \in [P1 -> D]
  <2>1. \A p \in P1 : R(p) \in D
    BY <1>5
  <2> HIDE DEF R, D, P1
  <2> QED
    BY <2>1
<1>7. ASSUME NEW p \in P1, NEW q \in P1, R(p) = R(q) PROVE p = q
  <2>1. p[1] = q[1] /\ p[2][1] = q[2][1] /\ p[2][2][1] = q[2][2][1]
        /\ p[2][2][2][1] = q[2][2][2][1] /\ p[2][2][2][2] = q[2][2][2][2]
    BY <1>7
  <2>2. p[2][2][2] = q[2][2][2]
    <3>1. p[2][2][2] \in E \X F /\ q[2][2][2] \in E \X F
      BY <1>5
    <3> QED
      BY <2>1, <3>1
  <2>3. p[2][2] = q[2][2]
    <3>1. p[2][2] \in C \X P4 /\ q[2][2] \in C \X P4
      BY <1>5
    <3> HIDE DEF P4
    <3> QED
      BY <2>1, <2>2, <3>1
  <2>4. p[2] = q[2]
    <3>1. p[2] \in B \X P3 /\ q[2] \in B \X P3
      BY <1>5
    <3> HIDE DEF P3
    <3> QED
      BY <2>1, <2>3, <3>1
  <2>5. p \in A \X P2 /\ q \in A \X P2
    OBVIOUS
  <2> HIDE DEF P2
  <2> QED
    BY <2>1, <2>4, <2>5
<1>8. ASSUME NEW d \in D PROVE \E p \in P1 : R(p) = d
  <2> DEFINE p == <<d.dp, <<d.pp, <<d.local, <<d.tp, d.ep>>>>>>>>
  <2>1. <<d.tp, d.ep>> \in P4
    OBVIOUS
  <2>2. <<d.local, <<d.tp, d.ep>>>> \in P3
    BY <2>1
  <2>3. <<d.pp, <<d.local, <<d.tp, d.ep>>>>>> \in P2
    BY <2>2
  <2>4. p \in P1
    BY <2>3
  <2>5. /\ p[1] = d.dp /\ p[2][1] = d.pp /\ p[2][2][1] = d.local /\ p[2][2][2][1] = d.tp
        /\ p[2][2][2][2] = d.ep
    OBVIOUS
  <2>6. d = [dp |-> d.dp, pp |-> d.pp, local |-> d.local, tp |-> d.tp, ep |-> d.ep]
    OBVIOUS
  <2> HIDE DEF p
  <2>7. R(p) = d
    BY <2>5, <2>6
  <2> QED
    BY <2>4, <2>7
<1>9. \A x, y \in P1 : f[x] = f[y] => x = y
  <2> HIDE DEF P1, R
  <2> QED
    BY <1>7
<1>10. \A d \in D : \E x \in P1 : f[x] = d
  <2> HIDE DEF P1, R, D
  <2> QED
    BY <1>8
<1> HIDE DEF P1, f
<1>11. Cardinality({q \in Ranks : plan[q].at \in D}) = Cardinality(P1)
  <2>1. D \in SUBSET Box(mesh)
    OBVIOUS
  <2>2. IsFiniteSet(P1)
    BY <1>4
  <2> HIDE DEF D
  <2> QED
    BY <1>6, <1>9, <1>10, <2>1, <2>2, CountAt
<1> QED
  BY <1>1, <1>2, <1>3, <1>4, <1>11

\* The coordinates alike to c along one or more axes, as a box.
LEMMA NearBox ==
  ASSUME PlanMade, NEW c \in Box(mesh), NEW d \in Box(mesh)
  PROVE  /\ Near("data", c, d)
              <=> d \in [dp : 0 .. mesh.dp - 1, pp : {c.pp}, local : {c.local}, tp : {c.tp}, ep : {c.ep}]
         /\ Near("tensor", c, d)
              <=> d \in [dp : {c.dp}, pp : {c.pp}, local : {c.local}, tp : 0 .. mesh.tp - 1, ep : {c.ep}]
         /\ Near("expert", c, d)
              <=> d \in [dp : {c.dp}, pp : {c.pp}, local : {c.local}, tp : {c.tp}, ep : 0 .. mesh.ep - 1]
         /\ Near("optimizer", c, d)
              <=> d \in [dp : 0 .. mesh.dp - 1, pp : {c.pp}, local : 0 .. LocalSize(mesh) - 1,
                         tp : {c.tp}, ep : {c.ep}]
         /\ Near("model", c, d)
              <=> d \in [dp : {c.dp}, pp : 0 .. mesh.pp - 1, local : 0 .. LocalSize(mesh) - 1,
                         tp : 0 .. mesh.tp - 1, ep : 0 .. mesh.ep - 1]
         /\ Near("context_block", c, d)
              <=> d \in [dp : {c.dp}, pp : {c.pp}, local : RingLocals(mesh, c.local),
                         tp : {c.tp}, ep : {c.ep}]
<1>1. /\ d.dp \in 0 .. mesh.dp - 1 /\ d.pp \in 0 .. mesh.pp - 1 /\ d.local \in 0 .. LocalSize(mesh) - 1
      /\ d.tp \in 0 .. mesh.tp - 1 /\ d.ep \in 0 .. mesh.ep - 1
      /\ d = [dp |-> d.dp, pp |-> d.pp, local |-> d.local, tp |-> d.tp, ep |-> d.ep]
  BY DEF Box
<1>2. Near("data", c, d)
        <=> c.pp = d.pp /\ c.local = d.local /\ c.tp = d.tp /\ c.ep = d.ep
  BY DEF Near, Alike
<1>3. Near("tensor", c, d)
        <=> c.dp = d.dp /\ c.pp = d.pp /\ c.local = d.local /\ c.ep = d.ep
  BY DEF Near, Alike
<1>4. Near("expert", c, d)
        <=> c.dp = d.dp /\ c.pp = d.pp /\ c.local = d.local /\ c.tp = d.tp
  BY DEF Near, Alike
<1>5. Near("optimizer", c, d) <=> c.pp = d.pp /\ c.tp = d.tp /\ c.ep = d.ep
  BY DEF Near
<1>6. Near("model", c, d) <=> c.dp = d.dp
  BY DEF Near, Alike
<1>7. Near("context_block", c, d)
        <=> c.dp = d.dp /\ c.pp = d.pp /\ d.local \in RingLocals(mesh, c.local)
            /\ c.tp = d.tp /\ c.ep = d.ep
  BY DEF Near, Alike
<1>8. ASSUME NEW A, NEW B, NEW C, NEW E, NEW F
      PROVE  d \in [dp : A, pp : B, local : C, tp : E, ep : F]
               <=> d.dp \in A /\ d.pp \in B /\ d.local \in C /\ d.tp \in E /\ d.ep \in F
  BY <1>1
<1> QED
  BY <1>1, <1>2, <1>3, <1>4, <1>5, <1>6, <1>7, <1>8

\* The sizes of an interval and of a singleton.
LEMMA Counts ==
  ASSUME NEW n \in Nat, NEW x
  PROVE  /\ IsFiniteSet(0 .. n - 1) /\ Cardinality(0 .. n - 1) = n
         /\ IsFiniteSet({x}) /\ Cardinality({x}) = 1
<1>1. IsFiniteSet(0 .. n - 1) /\ Cardinality(0 .. n - 1) = IF 0 > n - 1 THEN 0 ELSE n - 1 - 0 + 1
  BY FS_Interval
<1>2. IsFiniteSet({x}) /\ Cardinality({x}) = 1
  BY FS_Singleton
<1> QED
  BY <1>1, <1>2

\* The members of a group, as a box around a rank's own coordinates.
LEMMA OwnBox ==
  ASSUME PlanMade, NEW r \in Ranks, NEW a \in Names, NEW D,
         \A d \in Box(mesh) : Near(a, plan[r].at, d) <=> d \in D
  PROVE  Len(Own(r, a)) = Cardinality({q \in Ranks : plan[q].at \in D})
<1>1. \A q \in Ranks : plan[q].at \in Box(mesh)
  BY AtCoords
<1>2. ToSet(Own(r, a)) = {q \in Ranks : Near(a, plan[r].at, plan[q].at)}
      /\ Len(Own(r, a)) = Cardinality(ToSet(Own(r, a)))
  BY OwnMembers
<1>3. {q \in Ranks : Near(a, plan[r].at, plan[q].at)} = {q \in Ranks : plan[q].at \in D}
  BY <1>1
<1> QED
  BY <1>2, <1>3

\* The size of a group is the same for all ranks.
LEMMA GroupSizes ==
  ASSUME PlanMade, NEW r \in Ranks, NEW a \in SizedNames
  PROVE  Len(Own(r, a)) = GroupSize(a) /\ GroupSize(a) \in Nat \ {0}
<1> DEFINE c == plan[r].at
           L == LocalSize(mesh)
           Size(A, B, C, E, F) ==
             Cardinality(A) * (Cardinality(B) * (Cardinality(C) * (Cardinality(E) * Cardinality(F))))
<1>1. c \in Box(mesh)
  BY AtCoords
<1>2. IsMesh(mesh) /\ Accepted(mesh) /\ Ranks = World(mesh) /\ plan = Built(mesh)
  BY PlanMadeFacts DEF PlanMade
<1>3. /\ mesh.dp \in Nat \ {0} /\ mesh.pp \in Nat \ {0} /\ mesh.tp \in Nat \ {0}
      /\ mesh.ep \in Nat \ {0} /\ L \in Nat \ {0} /\ mesh.cp \in Nat \ {0}
      /\ ModelSize(mesh) \in Nat \ {0}
  BY <1>2, MeshSizes
<1>4. /\ c.dp \in 0 .. mesh.dp - 1 /\ c.pp \in 0 .. mesh.pp - 1 /\ c.local \in 0 .. L - 1
      /\ c.tp \in 0 .. mesh.tp - 1 /\ c.ep \in 0 .. mesh.ep - 1
  BY <1>1 DEF Box
<1>5. a \in Names
  BY DEF SizedNames, Names, AttributeNames
<1> HIDE DEF c, L
<1>6. ASSUME NEW A, NEW B, NEW C, NEW E, NEW F,
             A = {c.dp} \/ A = 0 .. mesh.dp - 1, B = {c.pp} \/ B = 0 .. mesh.pp - 1,
             C = {c.local} \/ C = 0 .. L - 1, E = {c.tp} \/ E = 0 .. mesh.tp - 1,
             F = {c.ep} \/ F = 0 .. mesh.ep - 1,
             \A d \in Box(mesh) : Near(a, c, d) <=> d \in [dp : A, pp : B, local : C, tp : E, ep : F]
      PROVE  Len(Own(r, a)) = Size(A, B, C, E, F)
  <2>1. IsFiniteSet(A) /\ IsFiniteSet(B) /\ IsFiniteSet(C) /\ IsFiniteSet(E) /\ IsFiniteSet(F)
    BY <1>3, <1>6, Counts
  <2>2. /\ A \subseteq 0 .. mesh.dp - 1 /\ B \subseteq 0 .. mesh.pp - 1 /\ C \subseteq 0 .. L - 1
        /\ E \subseteq 0 .. mesh.tp - 1 /\ F \subseteq 0 .. mesh.ep - 1
    BY <1>4, <1>6
  <2>3. [dp : A, pp : B, local : C, tp : E, ep : F] \in SUBSET Box(mesh)
    BY <2>2 DEF Box, L
  <2> DEFINE D == [dp : A, pp : B, local : C, tp : E, ep : F]
  <2>4. Cardinality({q \in Ranks : plan[q].at \in D})
           = Cardinality(A) * (Cardinality(B) * (Cardinality(C) * (Cardinality(E) * Cardinality(F))))
    BY <2>1, <2>3, BoxCount
  <2>5. \A d \in Box(mesh) : Near(a, plan[r].at, d) <=> d \in D
    BY <1>6 DEF c
  <2> HIDE DEF D
  <2>6. Len(Own(r, a)) = Cardinality({q \in Ranks : plan[q].at \in D})
    BY <1>5, <2>5, OwnBox
  <2> QED
    BY <2>4, <2>6
<1>7. /\ Cardinality({c.dp}) = 1 /\ Cardinality({c.pp}) = 1 /\ Cardinality({c.local}) = 1
      /\ Cardinality({c.tp}) = 1 /\ Cardinality({c.ep}) = 1
      /\ Cardinality(0 .. mesh.dp - 1) = mesh.dp /\ Cardinality(0 .. mesh.pp - 1) = mesh.pp
      /\ Cardinality(0 .. L - 1) = L /\ Cardinality(0 .. mesh.tp - 1) = mesh.tp
      /\ Cardinality(0 .. mesh.ep - 1) = mesh.ep
  BY <1>3, Counts
<1> HIDE DEF Size
<1>8. CASE a = "data"
  <2>1. \A d \in Box(mesh) :
          Near(a, c, d)
            <=> d \in [dp : 0 .. mesh.dp - 1, pp : {c.pp}, local : {c.local}, tp : {c.tp}, ep : {c.ep}]
    BY <1>1, <1>8, NearBox DEF L
  <2> DEFINE A == 0 .. mesh.dp - 1
             B == {c.pp}
             C == {c.local}
             E == {c.tp}
             F == {c.ep}
  <2>6. /\ A = {c.dp} \/ A = 0 .. mesh.dp - 1
        /\ B = {c.pp} \/ B = 0 .. mesh.pp - 1
        /\ C = {c.local} \/ C = 0 .. L - 1
        /\ E = {c.tp} \/ E = 0 .. mesh.tp - 1
        /\ F = {c.ep} \/ F = 0 .. mesh.ep - 1
    OBVIOUS
  <2>7. /\ Cardinality(A) = mesh.dp /\ Cardinality(B) = 1 /\ Cardinality(C) = 1
        /\ Cardinality(E) = 1 /\ Cardinality(F) = 1
    BY <1>7
  <2>8. \A d \in Box(mesh) : Near(a, c, d) <=> d \in [dp : A, pp : B, local : C, tp : E, ep : F]
    BY <2>1
  <2> HIDE DEF A, B, C, E, F
  <2>9. Len(Own(r, a)) = Size(A, B, C, E, F)
    BY <1>6, <2>6, <2>8
  <2>2. Len(Own(r, a)) = mesh.dp * (1 * (1 * (1 * 1)))
    BY <2>7, <2>9 DEF Size
  <2> QED
    BY <1>3, <1>8, <2>2 DEF GroupSize
<1>9. CASE a = "tensor"
  <2>1. \A d \in Box(mesh) :
          Near(a, c, d)
            <=> d \in [dp : {c.dp}, pp : {c.pp}, local : {c.local}, tp : 0 .. mesh.tp - 1, ep : {c.ep}]
    BY <1>1, <1>9, NearBox DEF L
  <2> DEFINE A == {c.dp}
             B == {c.pp}
             C == {c.local}
             E == 0 .. mesh.tp - 1
             F == {c.ep}
  <2>6. /\ A = {c.dp} \/ A = 0 .. mesh.dp - 1
        /\ B = {c.pp} \/ B = 0 .. mesh.pp - 1
        /\ C = {c.local} \/ C = 0 .. L - 1
        /\ E = {c.tp} \/ E = 0 .. mesh.tp - 1
        /\ F = {c.ep} \/ F = 0 .. mesh.ep - 1
    OBVIOUS
  <2>7. /\ Cardinality(A) = 1 /\ Cardinality(B) = 1 /\ Cardinality(C) = 1
        /\ Cardinality(E) = mesh.tp /\ Cardinality(F) = 1
    BY <1>7
  <2>8. \A d \in Box(mesh) : Near(a, c, d) <=> d \in [dp : A, pp : B, local : C, tp : E, ep : F]
    BY <2>1
  <2> HIDE DEF A, B, C, E, F
  <2>9. Len(Own(r, a)) = Size(A, B, C, E, F)
    BY <1>6, <2>6, <2>8
  <2>2. Len(Own(r, a)) = 1 * (1 * (1 * (mesh.tp * 1)))
    BY <2>7, <2>9 DEF Size
  <2> QED
    BY <1>3, <1>9, <2>2 DEF GroupSize
<1>10. CASE a = "expert"
  <2>1. \A d \in Box(mesh) :
          Near(a, c, d)
            <=> d \in [dp : {c.dp}, pp : {c.pp}, local : {c.local}, tp : {c.tp}, ep : 0 .. mesh.ep - 1]
    BY <1>1, <1>10, NearBox DEF L
  <2> DEFINE A == {c.dp}
             B == {c.pp}
             C == {c.local}
             E == {c.tp}
             F == 0 .. mesh.ep - 1
  <2>6. /\ A = {c.dp} \/ A = 0 .. mesh.dp - 1
        /\ B = {c.pp} \/ B = 0 .. mesh.pp - 1
        /\ C = {c.local} \/ C = 0 .. L - 1
        /\ E = {c.tp} \/ E = 0 .. mesh.tp - 1
        /\ F = {c.ep} \/ F = 0 .. mesh.ep - 1
    OBVIOUS
  <2>7. /\ Cardinality(A) = 1 /\ Cardinality(B) = 1 /\ Cardinality(C) = 1
        /\ Cardinality(E) = 1 /\ Cardinality(F) = mesh.ep
    BY <1>7
  <2>8. \A d \in Box(mesh) : Near(a, c, d) <=> d \in [dp : A, pp : B, local : C, tp : E, ep : F]
    BY <2>1
  <2> HIDE DEF A, B, C, E, F
  <2>9. Len(Own(r, a)) = Size(A, B, C, E, F)
    BY <1>6, <2>6, <2>8
  <2>2. Len(Own(r, a)) = 1 * (1 * (1 * (1 * mesh.ep)))
    BY <2>7, <2>9 DEF Size
  <2> QED
    BY <1>3, <1>10, <2>2 DEF GroupSize
<1>11. CASE a = "optimizer"
  <2>1. \A d \in Box(mesh) :
          Near(a, c, d)
            <=> d \in [dp : 0 .. mesh.dp - 1, pp : {c.pp}, local : 0 .. L - 1, tp : {c.tp}, ep : {c.ep}]
    BY <1>1, <1>11, NearBox DEF L
  <2> DEFINE A == 0 .. mesh.dp - 1
             B == {c.pp}
             C == 0 .. L - 1
             E == {c.tp}
             F == {c.ep}
  <2>6. /\ A = {c.dp} \/ A = 0 .. mesh.dp - 1
        /\ B = {c.pp} \/ B = 0 .. mesh.pp - 1
        /\ C = {c.local} \/ C = 0 .. L - 1
        /\ E = {c.tp} \/ E = 0 .. mesh.tp - 1
        /\ F = {c.ep} \/ F = 0 .. mesh.ep - 1
    OBVIOUS
  <2>7. /\ Cardinality(A) = mesh.dp /\ Cardinality(B) = 1 /\ Cardinality(C) = L
        /\ Cardinality(E) = 1 /\ Cardinality(F) = 1
    BY <1>7
  <2>8. \A d \in Box(mesh) : Near(a, c, d) <=> d \in [dp : A, pp : B, local : C, tp : E, ep : F]
    BY <2>1
  <2> HIDE DEF A, B, C, E, F
  <2>9. Len(Own(r, a)) = Size(A, B, C, E, F)
    BY <1>6, <2>6, <2>8
  <2>2. Len(Own(r, a)) = mesh.dp * (1 * (L * (1 * 1)))
    BY <2>7, <2>9 DEF Size
  <2>3. mesh.dp * (1 * (L * (1 * 1))) = mesh.dp * L
    BY <1>3
  <2>4. mesh.dp * L \in Nat \ {0}
    BY <1>3, ProductPositive
  <2> QED
    BY <1>3, <1>11, <2>2, <2>3, <2>4 DEF GroupSize, L
<1>12. CASE a = "model"
  <2>1. \A d \in Box(mesh) :
          Near(a, c, d)
            <=> d \in [dp : {c.dp}, pp : 0 .. mesh.pp - 1, local : 0 .. L - 1, tp : 0 .. mesh.tp - 1, ep : 0 .. mesh.ep - 1]
    BY <1>1, <1>12, NearBox DEF L
  <2> DEFINE A == {c.dp}
             B == 0 .. mesh.pp - 1
             C == 0 .. L - 1
             E == 0 .. mesh.tp - 1
             F == 0 .. mesh.ep - 1
  <2>6. /\ A = {c.dp} \/ A = 0 .. mesh.dp - 1
        /\ B = {c.pp} \/ B = 0 .. mesh.pp - 1
        /\ C = {c.local} \/ C = 0 .. L - 1
        /\ E = {c.tp} \/ E = 0 .. mesh.tp - 1
        /\ F = {c.ep} \/ F = 0 .. mesh.ep - 1
    OBVIOUS
  <2>7. /\ Cardinality(A) = 1 /\ Cardinality(B) = mesh.pp /\ Cardinality(C) = L
        /\ Cardinality(E) = mesh.tp /\ Cardinality(F) = mesh.ep
    BY <1>7
  <2>8. \A d \in Box(mesh) : Near(a, c, d) <=> d \in [dp : A, pp : B, local : C, tp : E, ep : F]
    BY <2>1
  <2> HIDE DEF A, B, C, E, F
  <2>9. Len(Own(r, a)) = Size(A, B, C, E, F)
    BY <1>6, <2>6, <2>8
  <2>2. Len(Own(r, a)) = 1 * (mesh.pp * (L * (mesh.tp * mesh.ep)))
    BY <2>7, <2>9 DEF Size
  <2>3. mesh.pp * (L * (mesh.tp * mesh.ep)) = ModelSize(mesh)
    BY DEF ModelSize, PerPipeline, PerLocal, L
  <2>4. L * (mesh.tp * mesh.ep) \in Nat /\ ModelSize(mesh) \in Nat
    BY <1>3, <2>3
  <2> QED
    BY <1>3, <1>12, <2>2, <2>3, <2>4 DEF GroupSize
<1>13. CASE a = "context_block"
  <2>1. CASE mesh.cp > 1
    <3>1. LogicalOf(mesh, r) \in World(mesh) /\ SupportedLocalLayout(mesh)
      BY <1>2, LogicalRank DEF Accepted
    <3>2. Cardinality(Peers(mesh, "context_block", LogicalOf(mesh, r))) = mesh.cp
      BY <1>2, <2>1, <3>1, RingPeers
    <3>3. Len(Built(mesh)[r].groups[a]) = Cardinality(Peers(mesh, a, LogicalOf(mesh, r)))
      BY <1>2, <1>13, BuiltGroup DEF AttributeNames
    <3>4. Own(r, a) = Built(mesh)[r].groups[a]
      BY <1>2, <1>13 DEF Own
    <3> QED
      BY <1>3, <1>13, <2>1, <3>2, <3>3, <3>4 DEF GroupSize
  <2>2. CASE ~ (mesh.cp > 1)
    <3>0. mesh.cp = 1
      BY <1>3, <2>2
    <3>1. RingLocals(mesh, c.local) = 0 .. L - 1
      BY <3>0 DEF RingLocals, L
    <3>2. \A d \in Box(mesh) :
          Near(a, c, d)
            <=> d \in [dp : {c.dp}, pp : {c.pp}, local : 0 .. L - 1, tp : {c.tp}, ep : {c.ep}]
      BY <1>1, <1>13, <3>1, NearBox
    <3> DEFINE A == {c.dp}
               B == {c.pp}
               C == 0 .. L - 1
               E == {c.tp}
               F == {c.ep}
    <3>6. /\ A = {c.dp} \/ A = 0 .. mesh.dp - 1
          /\ B = {c.pp} \/ B = 0 .. mesh.pp - 1
          /\ C = {c.local} \/ C = 0 .. L - 1
          /\ E = {c.tp} \/ E = 0 .. mesh.tp - 1
          /\ F = {c.ep} \/ F = 0 .. mesh.ep - 1
      OBVIOUS
    <3>7. /\ Cardinality(A) = 1 /\ Cardinality(B) = 1 /\ Cardinality(C) = L
          /\ Cardinality(E) = 1 /\ Cardinality(F) = 1
      BY <1>7
    <3>8. \A d \in Box(mesh) : Near(a, c, d) <=> d \in [dp : A, pp : B, local : C, tp : E, ep : F]
      BY <3>2
    <3> HIDE DEF A, B, C, E, F
    <3>9. Len(Own(r, a)) = Size(A, B, C, E, F)
      BY <1>6, <3>6, <3>8
    <3>3. Len(Own(r, a)) = 1 * (1 * (L * (1 * 1)))
      BY <3>7, <3>9 DEF Size
    <3> QED
      BY <1>3, <1>13, <2>2, <3>3 DEF GroupSize, L
  <2> QED
    BY <2>1, <2>2
<1> QED
  BY <1>8, <1>9, <1>10, <1>11, <1>12, <1>13 DEF SizedNames

-----------------------------------------------------------------------------
(* Lists of collectives, counted from their ends.                          *)

Calls ==
  [op : {"new", "mean", "sum", "experts", "norm"}, over : Seq(Ranks),
   kinds : Names \union SUBSET Kinds]

FromEnd(s, i) == s[Len(s) + 1 - i]

\* What a rank has still to go through, its other ranks have, as far from their ends.
Aligned(f) ==
  \A r \in Ranks : \A i \in 1 .. Len(f[r]) :
    /\ r \in Callers(FromEnd(f[r], i))
    /\ \A q \in Callers(FromEnd(f[r], i)) :
         q \in Ranks /\ i <= Len(f[q]) /\ FromEnd(f[q], i) = FromEnd(f[r], i)

EvenlyLong(f) == \A r, q \in Ranks : Len(f[r]) = Len(f[q])

\* Two lists one after the other, seen from the end.
LEMMA FromEndOfJoin ==
  ASSUME NEW S, NEW s \in Seq(S), NEW t \in Seq(S), NEW i \in 1 .. Len(s \o t)
  PROVE  /\ Len(s \o t) = Len(s) + Len(t) /\ Len(s) \in Nat /\ Len(t) \in Nat
         /\ i <= Len(t) => FromEnd(s \o t, i) = FromEnd(t, i) /\ i \in 1 .. Len(t)
         /\ ~ (i <= Len(t)) => FromEnd(s \o t, i) = FromEnd(s, i - Len(t)) /\ i - Len(t) \in 1 .. Len(s)
<1>1. Len(s \o t) = Len(s) + Len(t) /\ Len(s) \in Nat /\ Len(t) \in Nat
  OBVIOUS
<1>2. ASSUME i <= Len(t) PROVE FromEnd(s \o t, i) = FromEnd(t, i) /\ i \in 1 .. Len(t)
  <2>1. Len(s) + Len(t) + 1 - i \in Len(s) + 1 .. Len(s) + Len(t)
        /\ Len(s) + Len(t) + 1 - i - Len(s) = Len(t) + 1 - i
    BY <1>1, <1>2
  <2>2. (s \o t)[Len(s) + Len(t) + 1 - i] = t[Len(s) + Len(t) + 1 - i - Len(s)]
    BY <1>1, <2>1
  <2> QED
    BY <1>1, <1>2, <2>1, <2>2 DEF FromEnd
<1>3. ASSUME ~ (i <= Len(t))
      PROVE  FromEnd(s \o t, i) = FromEnd(s, i - Len(t)) /\ i - Len(t) \in 1 .. Len(s)
  <2>1. Len(s) + Len(t) + 1 - i \in 1 .. Len(s)
        /\ Len(s) + 1 - (i - Len(t)) = Len(s) + Len(t) + 1 - i /\ i - Len(t) \in 1 .. Len(s)
    BY <1>1, <1>3
  <2>2. (s \o t)[Len(s) + Len(t) + 1 - i] = s[Len(s) + Len(t) + 1 - i]
    BY <1>1, <2>1
  <2> QED
    BY <1>1, <2>1, <2>2 DEF FromEnd
<1> QED
  BY <1>1, <1>2, <1>3

\* Aligned lists stay aligned when aligned lists of one length come after them.
LEMMA AlignedJoin ==
  ASSUME NEW f, NEW g, f \in [Ranks -> Seq(Calls)], g \in [Ranks -> Seq(Calls)],
         Aligned(f), Aligned(g), EvenlyLong(f), EvenlyLong(g),
         NEW h, h = [r \in Ranks |-> f[r] \o g[r]]
  PROVE  h \in [Ranks -> Seq(Calls)] /\ Aligned(h) /\ EvenlyLong(h)
<1>0. \A r \in Ranks : /\ f[r] \in Seq(Calls) /\ g[r] \in Seq(Calls) /\ h[r] = f[r] \o g[r]
                       /\ h[r] \in Seq(Calls)
  OBVIOUS
<1>1. h \in [Ranks -> Seq(Calls)]
  BY <1>0
<1>2. \A r \in Ranks : Len(h[r]) = Len(f[r]) + Len(g[r]) /\ Len(f[r]) \in Nat /\ Len(g[r]) \in Nat
  BY <1>0
<1>3. EvenlyLong(h)
  BY <1>2 DEF EvenlyLong
<1>4. ASSUME NEW r \in Ranks, NEW i \in 1 .. Len(h[r])
      PROVE  /\ r \in Callers(FromEnd(h[r], i))
             /\ \A q \in Callers(FromEnd(h[r], i)) :
                  q \in Ranks /\ i <= Len(h[q]) /\ FromEnd(h[q], i) = FromEnd(h[r], i)
  <2>1. \A q \in Ranks : i \in 1 .. Len(h[q]) /\ Len(h[q]) = Len(h[r]) /\ Len(g[q]) = Len(g[r])
                         /\ i <= Len(h[q])
    BY <1>2, <1>3 DEF EvenlyLong
  <2>2. \A q \in Ranks :
          /\ i <= Len(g[q]) => FromEnd(h[q], i) = FromEnd(g[q], i) /\ i \in 1 .. Len(g[q])
          /\ ~ (i <= Len(g[q])) => FromEnd(h[q], i) = FromEnd(f[q], i - Len(g[q]))
                                   /\ i - Len(g[q]) \in 1 .. Len(f[q])
    <3> SUFFICES ASSUME NEW q \in Ranks
                 PROVE  /\ i <= Len(g[q]) => FromEnd(h[q], i) = FromEnd(g[q], i) /\ i \in 1 .. Len(g[q])
                        /\ ~ (i <= Len(g[q])) => FromEnd(h[q], i) = FromEnd(f[q], i - Len(g[q]))
                                   /\ i - Len(g[q]) \in 1 .. Len(f[q])
      OBVIOUS
    <3>1. i \in 1 .. Len(f[q] \o g[q]) /\ f[q] \in Seq(Calls) /\ g[q] \in Seq(Calls)
          /\ h[q] = f[q] \o g[q]
      BY <1>0, <2>1
    <3> QED
      BY <3>1, FromEndOfJoin
  <2>3. CASE i <= Len(g[r])
    <3>1. \A q \in Ranks : FromEnd(h[q], i) = FromEnd(g[q], i)
      BY <2>1, <2>2, <2>3
    <3>2. i \in 1 .. Len(g[r])
      BY <2>2, <2>3
    <3>3. /\ r \in Callers(FromEnd(g[r], i))
          /\ \A q \in Callers(FromEnd(g[r], i)) : q \in Ranks /\ FromEnd(g[q], i) = FromEnd(g[r], i)
      BY <3>2 DEF Aligned
    <3> QED
      BY <2>1, <3>1, <3>3
  <2>4. CASE ~ (i <= Len(g[r]))
    <3> DEFINE j == i - Len(g[r])
    <3>1. \A q \in Ranks : FromEnd(h[q], i) = FromEnd(f[q], j)
      BY <2>1, <2>2, <2>4
    <3>2. j \in 1 .. Len(f[r])
      BY <2>2, <2>4
    <3> HIDE DEF j
    <3>3. /\ r \in Callers(FromEnd(f[r], j))
          /\ \A q \in Callers(FromEnd(f[r], j)) : q \in Ranks /\ FromEnd(f[q], j) = FromEnd(f[r], j)
      BY <3>2 DEF Aligned
    <3> QED
      BY <2>1, <3>1, <3>3
  <2> QED
    BY <2>3, <2>4
<1>5. Aligned(h)
  BY <1>4 DEF Aligned
<1> QED
  BY <1>1, <1>3, <1>5

\* Empty lists are aligned.
LEMMA AlignedNothing ==
  ASSUME NEW f, f = [r \in Ranks |-> <<>>]
  PROVE  f \in [Ranks -> Seq(Calls)] /\ Aligned(f) /\ EvenlyLong(f)
<1>1. \A r \in Ranks : f[r] = <<>> /\ Len(f[r]) = 0
  OBVIOUS
<1>2. Aligned(f)
  <2>1. \A r \in Ranks : 1 .. Len(f[r]) = {}
    BY <1>1
  <2> QED
    BY <2>1 DEF Aligned
<1>3. <<>> \in Seq(Calls)
  OBVIOUS
<1> QED
  BY <1>1, <1>2, <1>3 DEF EvenlyLong

\* The list of every rank is one collective over its group G[r], or nothing.
OverGroups(f, op, G, K) == f = [r \in Ranks |-> f[r]] /\ \A r \in Ranks : f[r] = Over(op, G[r], K)

\* One collective over groups whose members agree on them.
LEMMA AlignedOver ==
  ASSUME NEW op \in {"mean", "sum", "experts", "norm"}, NEW G, G \in [Ranks -> Seq(Ranks)], NEW K,
         \A r \in Ranks : Len(G[r]) > 1 =>
           r \in ToSet(G[r]) /\ \A q \in ToSet(G[r]) : q \in Ranks /\ G[q] = G[r],
         \A r, q \in Ranks : Len(G[r]) > 1 <=> Len(G[q]) > 1,
         NEW f, OverGroups(f, op, G, K)
  PROVE  f \in [Ranks -> Seq(Calls)] /\ Aligned(f) /\ EvenlyLong(f)
<1> DEFINE C(r) == Collective(op, G[r], K \cap Kinds)
<1>0. f = [r \in Ranks |-> f[r]] /\ \A r \in Ranks : f[r] = Over(op, G[r], K)
  BY DEF OverGroups
<1>1. \A r \in Ranks : C(r) \in Calls /\ C(r).op = op /\ C(r).over = G[r]
  BY DEF Collective, Calls
<1>2. \A r \in Ranks : Callers(C(r)) = ToSet(G[r])
  BY <1>1 DEF Callers
<1>3. CASE K \cap Kinds # {} /\ \A r \in Ranks : Len(G[r]) > 1
  <2>1. \A r \in Ranks : f[r] = <<C(r)>>
    BY <1>0, <1>3 DEF Over
  <2> HIDE DEF C
  <2>2. \A r \in Ranks : f[r] \in Seq(Calls) /\ Len(f[r]) = 1 /\ f[r][1] = C(r)
    <3> SUFFICES ASSUME NEW r \in Ranks
                 PROVE  f[r] \in Seq(Calls) /\ Len(f[r]) = 1 /\ f[r][1] = C(r)
      OBVIOUS
    <3> DEFINE e == C(r)
    <3>1. e \in Calls /\ f[r] = <<e>>
      BY <1>1, <2>1
    <3> HIDE DEF e
    <3>2. <<e>> \in Seq(Calls) /\ Len(<<e>>) = 1 /\ <<e>>[1] = e
      BY <3>1
    <3> QED
      BY <3>1, <3>2 DEF e
  <2>3. \A r \in Ranks : FromEnd(f[r], 1) = C(r)
    BY <2>2 DEF FromEnd
  <2>4. EvenlyLong(f)
    BY <2>2 DEF EvenlyLong
  <2>5. \A r \in Ranks : r \in ToSet(G[r]) /\ \A q \in ToSet(G[r]) : q \in Ranks /\ C(q) = C(r)
    BY <1>3 DEF C
  <2>6. ASSUME NEW r \in Ranks, NEW i \in 1 .. Len(f[r])
        PROVE  /\ r \in Callers(FromEnd(f[r], i))
               /\ \A q \in Callers(FromEnd(f[r], i)) :
                    q \in Ranks /\ i <= Len(f[q]) /\ FromEnd(f[q], i) = FromEnd(f[r], i)
    <3>1. i = 1
      <4>1. Len(f[r]) = 1
        BY <2>2
      <4>2. i \in 1 .. 1
        BY <4>1, Zenon
      <4> QED
        BY <4>2
    <3> QED
      BY <1>2, <2>2, <2>3, <2>5, <3>1
  <2>7. Aligned(f)
    BY <2>6 DEF Aligned
  <2> QED
    BY <1>0, <2>2, <2>4, <2>7
<1>4. CASE ~ (K \cap Kinds # {} /\ \A r \in Ranks : Len(G[r]) > 1)
  <2>1. \A r \in Ranks : f[r] = <<>>
    BY <1>0, <1>4 DEF Over
  <2>2. f = [r \in Ranks |-> <<>>]
    BY <1>0, <2>1
  <2> QED
    BY <2>2, AlignedNothing
<1> QED
  BY <1>3, <1>4

-----------------------------------------------------------------------------
(* The creation of the groups.                                             *)

\* The members of two lists one after the other.
LEMMA ToSetJoin ==
  ASSUME NEW S, NEW s \in Seq(S), NEW t \in Seq(S)
  PROVE  s \o t \in Seq(S) /\ ToSet(s \o t) = ToSet(s) \union ToSet(t)
<1> DEFINE u == s \o t
<1>1. /\ u \in Seq(S) /\ Len(u) = Len(s) + Len(t) /\ Len(s) \in Nat /\ Len(t) \in Nat
      /\ DOMAIN u = 1 .. Len(u) /\ DOMAIN s = 1 .. Len(s) /\ DOMAIN t = 1 .. Len(t)
  OBVIOUS
<1>2. \A i \in 1 .. Len(s) : u[i] = s[i]
  OBVIOUS
<1>3. \A i \in 1 .. Len(t) : u[Len(s) + i] = t[i]
  <2> SUFFICES ASSUME NEW i \in 1 .. Len(t) PROVE u[Len(s) + i] = t[i]
    OBVIOUS
  <2>1. Len(s) + i \in Len(s) + 1 .. Len(s) + Len(t) /\ Len(s) + i - Len(s) = i
    BY <1>1
  <2>2. (s \o t)[Len(s) + i] = t[Len(s) + i - Len(s)]
    BY <1>1, <2>1
  <2> QED
    BY <2>1, <2>2
<1> HIDE DEF u
<1>4. ASSUME NEW x \in ToSet(u) PROVE x \in ToSet(s) \union ToSet(t)
  <2>1. PICK i \in 1 .. Len(u) : x = u[i]
    BY <1>1 DEF ToSet
  <2>2. CASE i <= Len(s)
    <3>1. i \in 1 .. Len(s)
      BY <1>1, <2>2
    <3> QED
      BY <1>1, <1>2, <2>1, <3>1 DEF ToSet
  <2>3. CASE ~ (i <= Len(s))
    <3> DEFINE j == i - Len(s)
    <3>1. j \in 1 .. Len(t) /\ Len(s) + j = i
      BY <1>1, <2>3
    <3> HIDE DEF j
    <3>2. x = t[j]
      BY <1>3, <2>1, <3>1
    <3> QED
      BY <1>1, <3>1, <3>2 DEF ToSet
  <2> QED
    BY <2>2, <2>3
<1>5. ASSUME NEW x \in ToSet(s) PROVE x \in ToSet(u)
  <2>1. PICK i \in 1 .. Len(s) : x = s[i]
    BY <1>1 DEF ToSet
  <2>2. i \in 1 .. Len(u) /\ u[i] = x
    BY <1>1, <1>2, <2>1
  <2> QED
    BY <1>1, <2>2 DEF ToSet
<1>6. ASSUME NEW x \in ToSet(t) PROVE x \in ToSet(u)
  <2>1. PICK i \in 1 .. Len(t) : x = t[i]
    BY <1>1 DEF ToSet
  <2>2. Len(s) + i \in 1 .. Len(u) /\ u[Len(s) + i] = x
    BY <1>1, <1>3, <2>1
  <2> QED
    BY <1>1, <2>2 DEF ToSet
<1>7. ToSet(u) = ToSet(s) \union ToSet(t)
  BY <1>4, <1>5, <1>6
<1> QED
  BY <1>1, <1>7 DEF u

\* The least of a set of numbers.
LEMMA LeastOf ==
  ASSUME NEW S, S \in SUBSET Int, IsFiniteSet(S), S # {}
  PROVE  \E x \in S : \A y \in S : x <= y
<1>1. Cardinality(S) # 0 /\ Cardinality(S) \in Nat
  BY FS_EmptySet, FS_CardinalityType
<1>2. PICK x \in S : Cardinality(Below(S, x)) = 1 - 1
  BY <1>1, PlaceTaken
<1>3. Below(S, x) \in SUBSET S /\ IsFiniteSet(Below(S, x))
  BY FS_Subset DEF Below
<1>4. Below(S, x) = {}
  BY <1>2, <1>3, FS_EmptySet
<1>5. \A y \in S : x <= y
  BY <1>4 DEF Below
<1> QED
  BY <1>5

\* The world as a list.
LEMMA EveryoneList ==
  ASSUME PlanMade
  PROVE  /\ Everyone \in Seq(Ranks) /\ Len(Everyone) = WorldSize(mesh) /\ WorldSize(mesh) \in Nat \ {0}
         /\ DOMAIN Everyone = 1 .. WorldSize(mesh) /\ ToSet(Everyone) = Ranks
         /\ Ranks = 0 .. WorldSize(mesh) - 1
<1> DEFINE W == WorldSize(mesh)
<1>1. Ranks = 0 .. W - 1 /\ W \in Nat \ {0} /\ Cardinality(Ranks) = W
  BY PlanMadeFacts, WorldFinite, MeshSizes DEF World
<1> HIDE DEF W
<1>2. Everyone = [i \in 1 .. W |-> i - 1]
  BY <1>1 DEF Everyone
<1>3. \A i \in 1 .. W : Everyone[i] = i - 1 /\ Everyone[i] \in Ranks
  BY <1>1, <1>2
<1>4. DOMAIN Everyone = 1 .. W /\ Everyone \in [1 .. W -> Ranks]
  <2>1. \A i \in 1 .. W : i - 1 \in Ranks
    BY <1>1
  <2> QED
    BY <1>2, <2>1
<1>5. Everyone \in Seq(Ranks) /\ Len(Everyone) = W
  BY <1>1, <1>4
<1>6. ToSet(Everyone) = Ranks
  <2>1. \A x \in ToSet(Everyone) : x \in Ranks
    BY <1>3, <1>4 DEF ToSet
  <2>2. ASSUME NEW x \in Ranks PROVE x \in ToSet(Everyone)
    <3>1. x + 1 \in 1 .. W /\ Everyone[x + 1] = x + 1 - 1 /\ x + 1 - 1 = x
      BY <1>1, <1>3
    <3> QED
      BY <1>4, <3>1 DEF ToSet
  <2> QED
    BY <2>1, <2>2
<1> QED
  BY <1>1, <1>4, <1>5, <1>6 DEF W

\* The lists that are created for one kind of group: each list of more than one
\* rank that some rank holds, for all ranks in the same order.
LEMMA NewGroupsList ==
  ASSUME PlanMade, NEW a \in Names, NEW r \in Ranks
  PROVE  /\ NewGroups(r, a) \in Seq(Calls)
         /\ \A q \in Ranks : NewGroups(q, a) = NewGroups(r, a)
         /\ \A c \in ToSet(NewGroups(r, a)) : \E q \in Ranks :
              c = Collective("new", Own(q, a), a) /\ Len(Own(q, a)) > 1
         /\ \A q \in Ranks : Len(Own(q, a)) > 1 =>
              Collective("new", Own(q, a), a) \in ToSet(NewGroups(r, a))
<1> DEFINE W == WorldSize(mesh)
           lists == [i \in DOMAIN Everyone |->
                       IF a = "optimizer" THEN plan[i - 1].optimizer ELSE plan[i - 1].groups[a]]
           S == {i \in DOMAIN lists : Len(lists[i]) > 1 /\ \A j \in 1 .. i - 1 : lists[j] # lists[i]}
           places == FirstPlaces(lists)
           C(q) == Collective("new", Own(q, a), a)
           u == NewGroups(r, a)
<1>1. DOMAIN Everyone = 1 .. W /\ W \in Nat \ {0} /\ Ranks = 0 .. W - 1
  BY EveryoneList
<1>2. DOMAIN lists = 1 .. W /\ \A i \in 1 .. W : lists[i] = Own(i - 1, a) /\ i - 1 \in Ranks
  BY <1>1 DEF Own
<1>3. \A q \in Ranks : q + 1 \in 1 .. W /\ lists[q + 1] = Own(q, a)
  <2> SUFFICES ASSUME NEW q \in Ranks PROVE q + 1 \in 1 .. W /\ lists[q + 1] = Own(q, a)
    OBVIOUS
  <2> DEFINE i == q + 1
  <2>1. i \in 1 .. W /\ i - 1 = q
    BY <1>1
  <2> HIDE DEF lists, i
  <2>2. lists[i] = Own(i - 1, a)
    BY <1>2, <2>1
  <2>3. lists[i] = Own(q, a)
    BY <2>1, <2>2
  <2> QED
    BY <2>1, <2>3 DEF i
<1>4. \A q \in Ranks : NewGroups(q, a) = [n \in DOMAIN places |-> Collective("new", lists[places[n]], a)]
  BY DEF NewGroups
<1>5. places = Ascending(S)
  BY DEF FirstPlaces
<1> HIDE DEF lists, places
<1>6. S \in SUBSET (1 .. W) /\ IsFiniteSet(S) /\ S \in SUBSET Int
  <2>1. S \in SUBSET (1 .. W)
    BY <1>2
  <2>2. IsFiniteSet(1 .. W) /\ (1 .. W) \in SUBSET Int
    BY <1>1, FS_Interval
  <2> HIDE DEF S
  <2>3. IsFiniteSet(S)
    BY <2>1, <2>2, FS_Subset
  <2> QED
    BY <2>1, <2>2, <2>3
<1>7. /\ Cardinality(S) \in Nat /\ DOMAIN places = 1 .. Cardinality(S)
      /\ \A n \in 1 .. Cardinality(S) : places[n] \in S
      /\ \A i \in S : \E n \in 1 .. Cardinality(S) : places[n] = i
  <2>1. Cardinality(S) \in Nat /\ DOMAIN places = 1 .. Cardinality(S)
        /\ \A n \in 1 .. Cardinality(S) : places[n] \in S
    BY <1>5, <1>6, AscendingList
  <2>2. \A i \in S : Cardinality(Below(S, i)) + 1 \in 1 .. Cardinality(S)
                     /\ places[Cardinality(Below(S, i)) + 1] = i
    BY <1>5, <1>6, AscendingList
  <2> QED
    BY <2>1, <2>2
<1>8. \A i \in S : i \in 1 .. W /\ lists[i] = Own(i - 1, a) /\ i - 1 \in Ranks /\ Len(Own(i - 1, a)) > 1
  BY <1>2, <1>6
<1>9. \A q \in Ranks : C(q) \in Calls
  <2>1. \A q \in Ranks : Own(q, a) \in Seq(Ranks)
    BY OwnMembers
  <2> QED
    BY <2>1 DEF Collective, Calls
<1>10. /\ DOMAIN u = 1 .. Cardinality(S)
       /\ \A n \in 1 .. Cardinality(S) : u[n] = C(places[n] - 1)
  <2>1. u = [n \in DOMAIN places |-> Collective("new", lists[places[n]], a)]
    BY <1>4
  <2> HIDE DEF u
  <2>2. \A n \in 1 .. Cardinality(S) : places[n] \in S /\ u[n] = Collective("new", lists[places[n]], a)
    BY <1>7, <2>1
  <2>3. \A i \in S : lists[i] = Own(i - 1, a)
    BY <1>8
  <2> HIDE DEF S
  <2> QED
    BY <1>7, <2>1, <2>2, <2>3
<1>11. \A n \in 1 .. Cardinality(S) : u[n] \in Calls
  <2> SUFFICES ASSUME NEW n \in 1 .. Cardinality(S) PROVE u[n] \in Calls
    OBVIOUS
  <2>1. u[n] = C(places[n] - 1) /\ places[n] - 1 \in Ranks
    BY <1>7, <1>8, <1>10
  <2> QED
    BY <1>9, <2>1
<1>12. u = [n \in 1 .. Cardinality(S) |-> u[n]]
  <2>1. u = [n \in DOMAIN places |-> Collective("new", lists[places[n]], a)]
    BY <1>4
  <2> HIDE DEF u
  <2> QED
    BY <1>7, <2>1
<1>13. u \in Seq(Calls)
  <2> HIDE DEF u, S
  <2>1. u \in [1 .. Cardinality(S) -> Calls]
    BY <1>11, <1>12
  <2> QED
    BY <1>7, <2>1
<1>14. ASSUME NEW c \in ToSet(u)
       PROVE  \E q \in Ranks : c = C(q) /\ Len(Own(q, a)) > 1
  <2>1. PICK n \in 1 .. Cardinality(S) : c = u[n]
    BY <1>10 DEF ToSet
  <2>2. c = C(places[n] - 1) /\ places[n] - 1 \in Ranks /\ Len(Own(places[n] - 1, a)) > 1
    BY <1>7, <1>8, <1>10, <2>1
  <2> QED
    BY <2>2
<1>15. ASSUME NEW q \in Ranks, Len(Own(q, a)) > 1
       PROVE  C(q) \in ToSet(u)
  <2> DEFINE X == {i \in 1 .. W : lists[i] = Own(q, a)}
  <2>1. X \in SUBSET Int /\ IsFiniteSet(X) /\ X # {}
    <3>1. q + 1 \in X
      BY <1>3
    <3>2. IsFiniteSet(1 .. W)
      BY <1>1, FS_Interval
    <3>3. X \in SUBSET (1 .. W)
      OBVIOUS
    <3>4. (1 .. W) \in SUBSET Int
      BY <1>1
    <3> HIDE DEF X
    <3>5. IsFiniteSet(X)
      BY <3>2, <3>3, FS_Subset
    <3> QED
      BY <3>1, <3>3, <3>4, <3>5
  <2> HIDE DEF X
  <2>2. PICK i \in X : \A j \in X : i <= j
    BY <2>1, LeastOf
  <2>3. i \in 1 .. W /\ lists[i] = Own(q, a)
    BY DEF X
  <2>4. ASSUME NEW j \in 1 .. i - 1 PROVE lists[j] # lists[i]
    <3>1. j \in 1 .. W /\ ~ (i <= j)
      BY <1>1, <2>3
    <3>2. j \notin X
      BY <2>2, <3>1
    <3> QED
      BY <2>3, <3>1, <3>2 DEF X
  <2>5. i \in S
    BY <1>2, <1>15, <2>3, <2>4
  <2>6. PICK n \in 1 .. Cardinality(S) : places[n] = i
    BY <1>7, <2>5
  <2>7. u[n] = C(i - 1) /\ Own(i - 1, a) = Own(q, a)
    BY <1>2, <1>10, <2>3, <2>6
  <2>8. u[n] = C(q)
    BY <2>7
  <2> QED
    BY <1>10, <2>8 DEF ToSet
<1> QED
  BY <1>4, <1>13, <1>14, <1>15

\* Whether the model-input group is the model group is one for all ranks.
LEMMA InputGroupShared ==
  ASSUME PlanMade, NEW r \in Ranks
  PROVE  /\ SharesInputGroup(r) <=> Own(r, "model_input") = Own(r, "model")
         /\ SharesInputGroup(r) <=> mesh.pp = 1 /\ mesh.ep = 1
<1> DEFINE c == plan[r].at
           l == LogicalOf(mesh, r)
<1>1. IsMesh(mesh) /\ Accepted(mesh) /\ Ranks = World(mesh) /\ plan = Built(mesh)
  BY PlanMadeFacts DEF PlanMade
<1>2. /\ mesh.pp \in Nat \ {0} /\ mesh.ep \in Nat \ {0}
  BY <1>1, MeshSizes
<1>3. "model_input" \in Names /\ "model" \in Names /\ "model_input" \in AttributeNames
      /\ "model" \in AttributeNames
  BY DEF Names, AttributeNames
<1>4. SharesInputGroup(r) <=> Own(r, "model_input") = Own(r, "model")
  BY DEF SharesInputGroup, Own
<1>5. c \in Box(mesh)
  BY AtCoords
<1>6. ASSUME NEW d \in Box(mesh)
      PROVE  /\ Near("model_input", c, d) <=> c.dp = d.dp /\ c.pp = d.pp /\ c.ep = d.ep
             /\ Near("model", c, d) <=> c.dp = d.dp
  BY DEF Near, Alike
<1>7. ASSUME mesh.pp = 1, mesh.ep = 1 PROVE Own(r, "model_input") = Own(r, "model")
  <2>1. l \in World(mesh)
    BY <1>1, LogicalRank
  <2>2. ASSUME NEW k \in World(mesh)
        PROVE  Alike(mesh, "model_input", Coords(mesh, l), Coords(mesh, k))
                 <=> Alike(mesh, "model", Coords(mesh, l), Coords(mesh, k))
    <3>1. /\ Coords(mesh, l).pp \in 0 .. 0 /\ Coords(mesh, k).pp \in 0 .. 0
          /\ Coords(mesh, l).ep \in 0 .. 0 /\ Coords(mesh, k).ep \in 0 .. 0
      <4>1. /\ Coords(mesh, l).pp \in 0 .. mesh.pp - 1 /\ Coords(mesh, k).pp \in 0 .. mesh.pp - 1
            /\ Coords(mesh, l).ep \in 0 .. mesh.ep - 1 /\ Coords(mesh, k).ep \in 0 .. mesh.ep - 1
        BY <1>1, <2>1, CoordsType
      <4> QED
        BY <1>7, <4>1
    <3>2. Coords(mesh, l).pp = Coords(mesh, k).pp /\ Coords(mesh, l).ep = Coords(mesh, k).ep
      BY <3>1
    <3> QED
      BY <3>2 DEF Alike
  <2>3. Peers(mesh, "model_input", l) = Peers(mesh, "model", l)
    BY <2>2 DEF Peers
  <2>4. /\ Built(mesh)[r].groups["model_input"] = Listed(Physical(mesh), Peers(mesh, "model_input", l))
        /\ Built(mesh)[r].groups["model"] = Listed(Physical(mesh), Peers(mesh, "model", l))
    BY <1>1, <1>3, BuiltRank
  <2> QED
    BY <1>1, <2>3, <2>4 DEF Own
<1>8. ASSUME Own(r, "model_input") = Own(r, "model") PROVE mesh.pp = 1 /\ mesh.ep = 1
  <2>0. {q \in Ranks : Near("model_input", c, plan[q].at)} = {q \in Ranks : Near("model", c, plan[q].at)}
    BY <1>3, <1>8, OwnMembers
  <2>1. ASSUME NEW d \in Box(mesh), c.dp = d.dp
        PROVE  c.pp = d.pp /\ c.ep = d.ep
    <3>1. PICK q \in Ranks : plan[q].at = d
      BY AtCoords
    <3>2. Near("model", c, plan[q].at)
      BY <1>6, <2>1, <3>1
    <3>3. Near("model_input", c, plan[q].at)
      BY <2>0, <3>2
    <3> QED
      BY <1>6, <3>1, <3>3
  <2>2. /\ \A x \in 0 .. mesh.pp - 1 : [c EXCEPT !.pp = x] \in Box(mesh)
        /\ \A x \in 0 .. mesh.ep - 1 : [c EXCEPT !.ep = x] \in Box(mesh)
        /\ c = [dp |-> c.dp, pp |-> c.pp, local |-> c.local, tp |-> c.tp, ep |-> c.ep]
    BY <1>1, <1>5, MovedAlong
  <2> HIDE DEF c
  <2>3. \A x \in 0 .. mesh.pp - 1 : c.pp = x
    <3> SUFFICES ASSUME NEW x \in 0 .. mesh.pp - 1 PROVE c.pp = x
      OBVIOUS
    <3> DEFINE d == [c EXCEPT !.pp = x]
    <3>1. d \in Box(mesh) /\ c.dp = d.dp /\ d.pp = x
      BY <2>2
    <3> HIDE DEF d
    <3> QED
      BY <2>1, <3>1
  <2>4. \A x \in 0 .. mesh.ep - 1 : c.ep = x
    <3> SUFFICES ASSUME NEW x \in 0 .. mesh.ep - 1 PROVE c.ep = x
      OBVIOUS
    <3> DEFINE d == [c EXCEPT !.ep = x]
    <3>1. d \in Box(mesh) /\ c.dp = d.dp /\ d.ep = x
      BY <2>2
    <3> HIDE DEF d
    <3> QED
      BY <2>1, <3>1
  <2>5. c.pp = 0 /\ c.pp = mesh.pp - 1 /\ c.ep = 0 /\ c.ep = mesh.ep - 1
    <3>1. 0 \in 0 .. mesh.pp - 1 /\ mesh.pp - 1 \in 0 .. mesh.pp - 1
          /\ 0 \in 0 .. mesh.ep - 1 /\ mesh.ep - 1 \in 0 .. mesh.ep - 1
      BY <1>2
    <3> QED
      BY <2>3, <2>4, <3>1
  <2> QED
    BY <1>2, <2>5
<1> QED
  BY <1>4, <1>7, <1>8

\* The name under which the list of rank r for a is created.
CreatedAs(r, a) == IF a = "model_input" /\ SharesInputGroup(r) THEN "model" ELSE a

\* Every rank goes through the same creations, and every group of more than one
\* rank is among them.
LEMMA CreationList ==
  ASSUME PlanMade, NEW r \in Ranks
  PROVE  /\ Creation(r) \in Seq(Calls)
         /\ \A q \in Ranks : Creation(q) = Creation(r)
         /\ \A c \in ToSet(Creation(r)) : \E q \in Ranks, a \in Names :
              c = Collective("new", Own(q, a), a) /\ Len(Own(q, a)) > 1
         /\ \A a \in Names : Len(Own(r, a)) > 1 =>
              Collective("new", Own(r, a), CreatedAs(r, a)) \in ToSet(Creation(r))
<1> DEFINE N(x, a) == NewGroups(x, a)
           I(x) == IF SharesInputGroup(x) THEN <<>> ELSE N(x, "model_input")
           Fine(s) == /\ s \in Seq(Calls)
                      /\ \A c \in ToSet(s) : \E q \in Ranks, a \in Names :
                           c = Collective("new", Own(q, a), a) /\ Len(Own(q, a)) > 1
<1>1. ASSUME NEW a \in Names PROVE Fine(N(r, a)) /\ \A q \in Ranks : N(q, a) = N(r, a)
  BY NewGroupsList
<1>2. ASSUME NEW s, NEW t, Fine(s), Fine(t) PROVE Fine(s \o t) /\ ToSet(s \o t) = ToSet(s) \union ToSet(t)
  <2>1. s \in Seq(Calls) /\ t \in Seq(Calls)
    BY <1>2
  <2>2. s \o t \in Seq(Calls) /\ ToSet(s \o t) = ToSet(s) \union ToSet(t)
    BY <2>1, ToSetJoin
  <2> QED
    BY <1>2, <2>2
<1>3. /\ "optimizer" \in Names /\ "data" \in Names /\ "model" \in Names /\ "model_input" \in Names
      /\ "context_block" \in Names /\ "clean_replica" \in Names /\ "tensor" \in Names
      /\ "pipeline" \in Names /\ "expert" \in Names
  BY DEF Names, AttributeNames
<1>4. Fine(I(r)) /\ \A q \in Ranks : I(q) = I(r)
  <2>1. Fine(<<>>)
    <3>1. <<>> \in Seq(Calls) /\ ToSet(<<>>) = {}
      BY DEF ToSet
    <3> QED
      BY <3>1
  <2>2. \A q \in Ranks : SharesInputGroup(q) <=> SharesInputGroup(r)
    BY InputGroupShared
  <2> HIDE DEF Fine, N
  <2> QED
    BY <1>1, <1>3, <2>1, <2>2
<1>5. ASSUME NEW q \in Ranks
      PROVE  Creation(q) =
        N(q, "optimizer") \o N(q, "data") \o N(q, "model") \o I(q) \o N(q, "context_block")
          \o N(q, "clean_replica") \o N(q, "tensor") \o N(q, "pipeline") \o N(q, "expert")
  BY DEF Creation
<1>6. ASSUME NEW q \in Ranks PROVE Creation(q) = Creation(r)
  <2>1. /\ N(q, "optimizer") = N(r, "optimizer") /\ N(q, "data") = N(r, "data")
        /\ N(q, "model") = N(r, "model") /\ I(q) = I(r) /\ N(q, "context_block") = N(r, "context_block")
        /\ N(q, "clean_replica") = N(r, "clean_replica") /\ N(q, "tensor") = N(r, "tensor")
        /\ N(q, "pipeline") = N(r, "pipeline") /\ N(q, "expert") = N(r, "expert")
    BY <1>1, <1>3, <1>4
  <2> HIDE DEF N, I
  <2> QED
    BY <1>5, <2>1
<1> DEFINE s1 == N(r, "optimizer")
           s2 == s1 \o N(r, "data")
           s3 == s2 \o N(r, "model")
           s4 == s3 \o I(r)
           s5 == s4 \o N(r, "context_block")
           s6 == s5 \o N(r, "clean_replica")
           s7 == s6 \o N(r, "tensor")
           s8 == s7 \o N(r, "pipeline")
           s9 == s8 \o N(r, "expert")
<1>7. Creation(r) = s9
  BY <1>5
<1> HIDE DEF N, I, Fine
<1>10. Fine(s1)
  BY <1>1, <1>3
<1>11. Fine(s2) /\ ToSet(s2) = ToSet(s1) \union ToSet(N(r, "data"))
  BY <1>1, <1>2, <1>3, <1>10
<1> HIDE DEF s1, s2
<1>12. Fine(s3) /\ ToSet(s3) = ToSet(s2) \union ToSet(N(r, "model"))
  BY <1>1, <1>2, <1>3, <1>11
<1> HIDE DEF s3
<1>13. Fine(s4) /\ ToSet(s4) = ToSet(s3) \union ToSet(I(r))
  BY <1>2, <1>4, <1>12
<1> HIDE DEF s4
<1>14. Fine(s5) /\ ToSet(s5) = ToSet(s4) \union ToSet(N(r, "context_block"))
  BY <1>1, <1>2, <1>3, <1>13
<1> HIDE DEF s5
<1>15. Fine(s6) /\ ToSet(s6) = ToSet(s5) \union ToSet(N(r, "clean_replica"))
  BY <1>1, <1>2, <1>3, <1>14
<1> HIDE DEF s6
<1>16. Fine(s7) /\ ToSet(s7) = ToSet(s6) \union ToSet(N(r, "tensor"))
  BY <1>1, <1>2, <1>3, <1>15
<1> HIDE DEF s7
<1>17. Fine(s8) /\ ToSet(s8) = ToSet(s7) \union ToSet(N(r, "pipeline"))
  BY <1>1, <1>2, <1>3, <1>16
<1> HIDE DEF s8
<1>18. Fine(s9) /\ ToSet(s9) = ToSet(s8) \union ToSet(N(r, "expert"))
  BY <1>1, <1>2, <1>3, <1>17
<1> HIDE DEF s9
<1>19. ASSUME NEW a \in Names, a = "model_input" => ~ SharesInputGroup(r)
       PROVE  ToSet(N(r, a)) \in SUBSET ToSet(s9)
  <2>1. I(r) = N(r, "model_input") \/ SharesInputGroup(r)
    BY DEF I
  <2>2. /\ ToSet(s1) \subseteq ToSet(s2) /\ ToSet(s2) \subseteq ToSet(s3) /\ ToSet(s3) \subseteq ToSet(s4)
        /\ ToSet(s4) \subseteq ToSet(s5) /\ ToSet(s5) \subseteq ToSet(s6) /\ ToSet(s6) \subseteq ToSet(s7)
        /\ ToSet(s7) \subseteq ToSet(s8) /\ ToSet(s8) \subseteq ToSet(s9)
    BY <1>11, <1>12, <1>13, <1>14, <1>15, <1>16, <1>17, <1>18
  <2>3. CASE a = "optimizer"
    BY <2>2, <2>3 DEF s1
  <2>4. CASE a = "data"
    BY <1>11, <2>2, <2>4
  <2>5. CASE a = "model"
    BY <1>12, <2>2, <2>5
  <2>6. CASE a = "model_input"
    BY <1>13, <1>19, <2>1, <2>2, <2>6
  <2>7. CASE a = "context_block"
    BY <1>14, <2>2, <2>7
  <2>8. CASE a = "clean_replica"
    BY <1>15, <2>2, <2>8
  <2>9. CASE a = "tensor"
    BY <1>16, <2>2, <2>9
  <2>10. CASE a = "pipeline"
    BY <1>17, <2>2, <2>10
  <2>11. CASE a = "expert"
    BY <1>18, <2>11
  <2> QED
    BY <2>3, <2>4, <2>5, <2>6, <2>7, <2>8, <2>9, <2>10, <2>11 DEF Names, AttributeNames
<1>20. ASSUME NEW a \in Names, Len(Own(r, a)) > 1
       PROVE  Collective("new", Own(r, a), CreatedAs(r, a)) \in ToSet(s9)
  <2> DEFINE b == CreatedAs(r, a)
  <2>1. b \in Names /\ Own(r, b) = Own(r, a) /\ (b = "model_input" => ~ SharesInputGroup(r))
    BY <1>3, InputGroupShared DEF CreatedAs
  <2> HIDE DEF b
  <2>2. Collective("new", Own(r, b), b) \in ToSet(N(r, b))
    BY <1>20, <2>1, NewGroupsList DEF N
  <2> QED
    BY <1>19, <2>1, <2>2 DEF b
<1> QED
  BY <1>6, <1>7, <1>18, <1>20 DEF Fine

-----------------------------------------------------------------------------
(* The collectives of the optimizer step.                                  *)

\* The communicators a rank holds are those of its own groups ...
HandlesOwn(h) ==
  \A r \in Ranks : \A a \in Names :
    h[r][a] = <<>> \/ (h[r][a] = Own(r, a) /\ (a = "optimizer" \/ Len(Own(r, a)) > 1))

\* ... and it holds all of them.
HandlesAll(h) == \A r \in Ranks : \A a \in Names : Len(Own(r, a)) > 1 => h[r][a] = Own(r, a)

\* The list of an optimizer step by the groups of the plan.
SumList(r) == IF sp THEN Over("sum", Own(r, "tensor"), {"norm"}) ELSE <<>>

ZeroList(r) ==
  Over("mean", Own(r, "optimizer"), Kinds) \o SumList(r) \o Over("experts", Own(r, "expert"), Kinds)

ModelList(r) ==
  IF mesh.tp > 1
  THEN Over("mean", Own(r, "context_block"), {"tensor"})
         \o Over("mean", Own(r, "model"), {"dense", "norm"})
  ELSE Over("mean", Own(r, "context_block"), {"dense", "norm", "tensor"})

DataGroup(r) ==
  IF backend = "torch_distributed_adamw" /\ mesh.dp = 1 THEN Everyone ELSE Own(r, "data")

FirstPartyList(r) ==
  SumList(r) \o ModelList(r) \o Over("mean", DataGroup(r), Kinds) \o Over("norm", Own(r, "model"), Kinds)

StepList(r) == IF Zero THEN ZeroList(r) ELSE FirstPartyList(r)

\* A collective over a communicator is one over the group of the plan.
LEMMA OverOwn ==
  ASSUME PlanMade, HandlesOwn(handle), HandlesAll(handle), NEW r \in Ranks, NEW a \in Names, NEW op, NEW K
  PROVE  Over(op, handle[r][a], K) = Over(op, Own(r, a), K)
<1>1. CASE Len(Own(r, a)) > 1
  BY <1>1 DEF HandlesAll
<1>2. CASE ~ (Len(Own(r, a)) > 1)
  <2>1. Over(op, Own(r, a), K) = <<>>
    BY <1>2 DEF Over
  <2>2. handle[r][a] = <<>> \/ handle[r][a] = Own(r, a)
    BY DEF HandlesOwn
  <2>3. ~ (Len(handle[r][a]) > 1)
    <3>1. Len(<<>>) = 0
      OBVIOUS
    <3> QED
      BY <1>2, <2>2, <3>1
  <2>4. Over(op, handle[r][a], K) = <<>>
    BY <2>3 DEF Over
  <2> QED
    BY <2>1, <2>4
<1> QED
  BY <1>1, <1>2

\* DeepSpeed never has to go over the local axis a second time: with more than
\* one local rank its optimizer group is not the data group, and with one there
\* is nobody on that axis.
LEMMA NoSecondLocalSync ==
  ASSUME PlanMade, NEW r \in Ranks, plan[r].optimizer = plan[r].groups.data
  PROVE  ~ (Len(plan[r].groups.clean_replica) > 1) /\ ~ (Len(Own(r, "context_block")) > 1)
<1> DEFINE L == LocalSize(mesh)
<1>0. /\ IsMesh(mesh) /\ mesh.dp \in Nat \ {0} /\ L \in Nat \ {0} /\ mesh.cp \in Nat \ {0}
      /\ mesh.bp \in Nat \ {0}
  BY PlanMadeFacts, MeshSizes
<1>1. Own(r, "optimizer") = Own(r, "data")
  BY DEF Own
<1>2. mesh.dp * L = mesh.dp
  <2>1. Len(Own(r, "optimizer")) = mesh.dp * L
    BY GroupSizes DEF SizedNames, GroupSize
  <2>2. Len(Own(r, "data")) = mesh.dp
    BY GroupSizes DEF SizedNames, GroupSize
  <2> QED
    BY <1>1, <2>1, <2>2
<1>3. L = 1
  <2> HIDE DEF L
  <2>1. ASSUME L >= 2 PROVE FALSE
    <3>1. mesh.dp * L >= mesh.dp * 2
      BY <1>0, <2>1
    <3> QED
      BY <1>0, <1>2, <3>1
  <2> QED
    BY <1>0, <2>1
<1>4. mesh.cp = 1
  BY <1>0, <1>3 DEF LocalSize
<1>5. Len(Own(r, "context_block")) = 1
  BY <1>3, <1>4, GroupSizes DEF SizedNames, GroupSize
<1>6. Len(Own(r, "clean_replica")) = 1
  <2>1. "clean_replica" \in Names
    BY DEF Names, AttributeNames
  <2>2. /\ Len(Own(r, "clean_replica")) = Cardinality(ToSet(Own(r, "clean_replica")))
        /\ ToSet(Own(r, "clean_replica"))
             = {q \in Ranks : Near("clean_replica", plan[r].at, plan[q].at)}
        /\ r \in ToSet(Own(r, "clean_replica"))
    BY <2>1, OwnMembers
  <2>3. ASSUME NEW q \in Ranks, Near("clean_replica", plan[r].at, plan[q].at) PROVE q = r
    <3> DEFINE c == plan[r].at
               d == plan[q].at
    <3>1. c \in Box(mesh) /\ d \in Box(mesh)
      BY AtCoords
    <3>2. c.dp = d.dp /\ c.pp = d.pp /\ c.tp = d.tp /\ c.ep = d.ep
      BY <2>3 DEF Near, Alike
    <3>3. c.local \in 0 .. L - 1 /\ d.local \in 0 .. L - 1
      BY <3>1 DEF Box
    <3>4. c.local = d.local
      BY <1>3, <3>3
    <3> HIDE DEF c, d
    <3>5. c = d
      BY <3>1, <3>2, <3>4 DEF Box
    <3> QED
      BY <3>5, AtCoords DEF c, d
  <2>4. ToSet(Own(r, "clean_replica")) = {r}
    BY <2>2, <2>3
  <2> QED
    BY <2>2, <2>4, FS_Singleton
<1>7. Own(r, "clean_replica") = plan[r].groups.clean_replica
  BY DEF Own
<1>8. Len(plan[r].groups.clean_replica) = 1
  BY <1>6, <1>7
<1>9. ~ (1 > 1)
  OBVIOUS
<1> HIDE DEF L
<1> QED
  BY <1>5, <1>8, <1>9

\* The list of a step follows from the plan once all communicators are there.
LEMMA StepListIs ==
  ASSUME PlanMade, HandlesOwn(handle), HandlesAll(handle), NEW r \in Ranks
  PROVE  (IF Zero THEN ZeroSync(r) ELSE FirstPartySync(r)) = StepList(r)
<1>0. /\ "optimizer" \in Names /\ "data" \in Names /\ "model" \in Names /\ "context_block" \in Names
      /\ "tensor" \in Names /\ "expert" \in Names
  BY DEF Names, AttributeNames
<1>1. SequenceParallelSync(r) = SumList(r)
  BY <1>0, OverOwn DEF SequenceParallelSync, SumList
<1>2. ZeroSync(r) = ZeroList(r)
  <2> DEFINE A == Over("mean", Own(r, "optimizer"), Kinds)
             S == SumList(r)
             X == Over("experts", Own(r, "expert"), Kinds)
             B == IF plan[r].optimizer # plan[r].groups.data THEN <<>>
                  ELSE Over("mean",
                         IF mesh.tp = 1 /\ Len(plan[r].groups.clean_replica) > 1
                         THEN handle[r].model ELSE handle[r].context_block, Kinds)
  <2>1. ZeroSync(r) = A \o B \o S \o X
    <3>1. Over("mean", handle[r].optimizer, Kinds) = A /\ Over("experts", handle[r].expert, Kinds) = X
      BY <1>0, OverOwn
    <3>2. ZeroSync(r) = Over("mean", handle[r].optimizer, Kinds) \o B \o SequenceParallelSync(r)
                          \o Over("experts", handle[r].expert, Kinds)
      BY DEF ZeroSync
    <3> HIDE DEF A, B, S, X
    <3>3. SequenceParallelSync(r) = S
      BY <1>1 DEF S
    <3> QED
      BY <3>1, <3>2, <3>3
  <2>2. B = <<>>
    <3>1. CASE plan[r].optimizer # plan[r].groups.data
      BY <3>1
    <3>2. CASE plan[r].optimizer = plan[r].groups.data
      <4>1. ~ (Len(plan[r].groups.clean_replica) > 1) /\ ~ (Len(Own(r, "context_block")) > 1)
        BY <3>2, NoSecondLocalSync
      <4>2. B = Over("mean", handle[r].context_block, Kinds)
        BY <3>2, <4>1
      <4>3. Over("mean", handle[r].context_block, Kinds) = Over("mean", Own(r, "context_block"), Kinds)
        BY <1>0, OverOwn
      <4>4. Over("mean", Own(r, "context_block"), Kinds) = <<>>
        BY <4>1 DEF Over
      <4> QED
        BY <4>2, <4>3, <4>4
    <3> QED
      BY <3>1, <3>2
  <2>3. A \in Seq(Calls)
    <3>1. Own(r, "optimizer") \in Seq(Ranks)
      BY <1>0, OwnMembers
    <3>2. Collective("mean", Own(r, "optimizer"), Kinds \cap Kinds) \in Calls
      BY <3>1 DEF Collective, Calls
    <3> DEFINE e == Collective("mean", Own(r, "optimizer"), Kinds \cap Kinds)
    <3>3. A = <<e>> \/ A = <<>>
      BY DEF Over
    <3>4. e \in Calls
      BY <3>2
    <3> HIDE DEF A, e
    <3>5. <<e>> \in Seq(Calls) /\ <<>> \in Seq(Calls)
      BY <3>4
    <3> QED
      BY <3>3, <3>5
  <2> HIDE DEF A, B, S, X
  <2>4. A \o B = A
    BY <2>2, <2>3
  <2>5. ZeroList(r) = A \o S \o X
    BY DEF ZeroList, A, S, X
  <2> QED
    BY <2>1, <2>4, <2>5
<1>3. ModelParallelSync(r) = ModelList(r)
  BY <1>0, OverOwn DEF ModelParallelSync, ModelList
<1>4. (IF backend = "torch_distributed_adamw" THEN AdamWSync(r)
       ELSE Over("mean", handle[r].data, Kinds)) = Over("mean", DataGroup(r), Kinds)
  <2>0. Over("mean", handle[r].data, Kinds) = Over("mean", Own(r, "data"), Kinds)
    BY <1>0, OverOwn
  <2>1. Len(Own(r, "data")) = mesh.dp /\ mesh.dp \in Nat \ {0}
    BY GroupSizes DEF SizedNames, GroupSize
  <2>2. CASE backend # "torch_distributed_adamw"
    BY <2>0, <2>2 DEF DataGroup
  <2>3. CASE backend = "torch_distributed_adamw" /\ mesh.dp = 1
    <3>1. handle[r].data = <<>>
      <4>1. ~ (Len(Own(r, "data")) > 1)
        <5>1. Len(Own(r, "data")) = 1
          BY <2>1, <2>3
        <5>2. ~ (1 > 1)
          OBVIOUS
        <5> QED
          BY <5>1, <5>2, Zenon
      <4> QED
        BY <1>0, <4>1 DEF HandlesOwn
    <3> QED
      BY <2>3, <3>1 DEF AdamWSync, DataGroup
  <2>4. CASE backend = "torch_distributed_adamw" /\ mesh.dp # 1
    <3>1. handle[r].data = Own(r, "data")
      <4>1. Len(Own(r, "data")) > 1
        BY <2>1, <2>4
      <4> QED
        BY <1>0, <4>1 DEF HandlesAll
    <3>2. handle[r].data # <<>>
      <4>1. Len(<<>>) = 0
        OBVIOUS
      <4> QED
        BY <2>1, <3>1, <4>1
    <3> QED
      BY <2>0, <2>4, <3>1, <3>2 DEF AdamWSync, DataGroup
  <2> QED
    BY <2>2, <2>3, <2>4
<1>5. Over("norm", handle[r].model, Kinds) = Over("norm", Own(r, "model"), Kinds)
  BY <1>0, OverOwn
<1>6. FirstPartySync(r) = FirstPartyList(r)
  BY <1>1, <1>3, <1>4, <1>5 DEF FirstPartySync, FirstPartyList
<1> QED
  BY <1>2, <1>6 DEF StepList

\* A collective is one call, or none when there is nobody else.
LEMMA OverList ==
  ASSUME PlanMade, NEW g \in Seq(Ranks), NEW op \in {"mean", "sum", "experts", "norm"}, NEW K
  PROVE  /\ Over(op, g, K) \in Seq(Calls)
         /\ Len(g) > 1 /\ K \cap Kinds # {} =>
              /\ Over(op, g, K) = <<Collective(op, g, K \cap Kinds)>>
              /\ ToSet(Over(op, g, K)) = {Collective(op, g, K \cap Kinds)}
         /\ ~ (Len(g) > 1 /\ K \cap Kinds # {}) => Over(op, g, K) = <<>> /\ ToSet(Over(op, g, K)) = {}
<1> DEFINE e == Collective(op, g, K \cap Kinds)
<1>1. e \in Calls
  BY DEF Collective, Calls
<1>2. CASE Len(g) > 1 /\ K \cap Kinds # {}
  <2>1. Over(op, g, K) = <<e>>
    BY <1>2 DEF Over
  <2> HIDE DEF e
  <2>2. <<e>> \in Seq(Calls) /\ DOMAIN <<e>> = {1} /\ <<e>>[1] = e
    BY <1>1
  <2>3. ToSet(<<e>>) = {e}
    BY <2>2 DEF ToSet
  <2> QED
    BY <1>2, <2>1, <2>2, <2>3 DEF e
<1>3. CASE ~ (Len(g) > 1 /\ K \cap Kinds # {})
  <2>1. Over(op, g, K) = <<>>
    BY <1>3 DEF Over
  <2>2. <<>> \in Seq(Calls) /\ ToSet(<<>>) = {}
    BY DEF ToSet
  <2> QED
    BY <1>3, <2>1, <2>2
<1> QED
  BY <1>2, <1>3

\* One collective over one kind of group of every rank.
LEMMA OwnAligned ==
  ASSUME PlanMade, NEW a \in SizedNames, NEW op \in {"mean", "sum", "experts", "norm"}, NEW K,
         NEW f, f = [r \in Ranks |-> Over(op, Own(r, a), K)]
  PROVE  f \in [Ranks -> Seq(Calls)] /\ Aligned(f) /\ EvenlyLong(f)
<1> DEFINE G == [r \in Ranks |-> Own(r, a)]
<1>1. a \in Names
  BY DEF SizedNames, Names, AttributeNames
<1>2. \A r \in Ranks : G[r] = Own(r, a) /\ Own(r, a) \in Seq(Ranks) /\ ToSet(Own(r, a)) \subseteq Ranks
                       /\ r \in ToSet(Own(r, a)) /\ \A q \in ToSet(Own(r, a)) : Own(q, a) = Own(r, a)
  BY <1>1, OwnMembers
<1>3. \A r, q \in Ranks : Len(Own(r, a)) > 1 <=> Len(Own(q, a)) > 1
  BY GroupSizes
<1>4. G \in [Ranks -> Seq(Ranks)]
  BY <1>2
<1> HIDE DEF G
<1>5. OverGroups(f, op, G, K)
  BY <1>2 DEF OverGroups
<1>6. \A r \in Ranks : r \in ToSet(G[r]) /\ \A q \in ToSet(G[r]) : q \in Ranks /\ G[q] = G[r]
  BY <1>2
<1>7. \A r, q \in Ranks : Len(G[r]) > 1 <=> Len(G[q]) > 1
  BY <1>2, <1>3
<1> QED
  BY <1>4, <1>5, <1>6, <1>7, AlignedOver

\* A collective of everybody is aligned.
LEMMA EveryoneAligned ==
  ASSUME PlanMade, NEW op \in {"mean", "sum", "experts", "norm"}, NEW K,
         NEW f, f = [r \in Ranks |-> Over(op, Everyone, K)]
  PROVE  f \in [Ranks -> Seq(Calls)] /\ Aligned(f) /\ EvenlyLong(f)
<1> DEFINE G == [r \in Ranks |-> Everyone]
<1>1. Everyone \in Seq(Ranks) /\ ToSet(Everyone) = Ranks
  BY EveryoneList
<1>2. G \in [Ranks -> Seq(Ranks)] /\ \A r \in Ranks : G[r] = Everyone
  BY <1>1
<1> HIDE DEF G
<1>3. OverGroups(f, op, G, K)
  BY <1>2 DEF OverGroups
<1>4. \A r \in Ranks : r \in ToSet(G[r]) /\ \A q \in ToSet(G[r]) : q \in Ranks /\ G[q] = G[r]
  BY <1>1, <1>2
<1>5. \A r, q \in Ranks : Len(G[r]) > 1 <=> Len(G[q]) > 1
  BY <1>2
<1> QED
  BY <1>2, <1>3, <1>4, <1>5, AlignedOver

\* The collectives of a step line up: whoever takes part has them in its list,
\* as far from its end.
LEMMA StepListsAligned ==
  ASSUME PlanMade, NEW T, T = [r \in Ranks |-> StepList(r)]
  PROVE  T \in [Ranks -> Seq(Calls)] /\ Aligned(T) /\ EvenlyLong(T)
<1> DEFINE Good(f) == f \in [Ranks -> Seq(Calls)] /\ Aligned(f) /\ EvenlyLong(f)
<1>0. /\ "optimizer" \in SizedNames /\ "data" \in SizedNames /\ "model" \in SizedNames
      /\ "context_block" \in SizedNames /\ "tensor" \in SizedNames /\ "expert" \in SizedNames
  BY DEF SizedNames
<1>1. ASSUME NEW a \in SizedNames, NEW op \in {"mean", "sum", "experts", "norm"}, NEW K
      PROVE  Good([r \in Ranks |-> Over(op, Own(r, a), K)])
  BY OwnAligned
<1>2. ASSUME NEW f, NEW g, Good(f), Good(g) PROVE Good([r \in Ranks |-> f[r] \o g[r]])
  BY <1>2, AlignedJoin
<1> DEFINE S == [r \in Ranks |-> SumList(r)]
<1>3. Good(S)
  <2>1. CASE sp
    <3>1. S = [r \in Ranks |-> Over("sum", Own(r, "tensor"), {"norm"})]
      BY <2>1 DEF SumList
    <3> HIDE DEF S, Good
    <3> QED
      BY <1>0, <1>1, <3>1
  <2>2. CASE ~ sp
    <3>1. S = [r \in Ranks |-> <<>>]
      BY <2>2 DEF SumList
    <3> QED
      BY <3>1, AlignedNothing
  <2> QED
    BY <2>1, <2>2
<1> DEFINE A == [r \in Ranks |-> Over("mean", Own(r, "optimizer"), Kinds)]
           X == [r \in Ranks |-> Over("experts", Own(r, "expert"), Kinds)]
           AS == [r \in Ranks |-> A[r] \o S[r]]
           Z == [r \in Ranks |-> AS[r] \o X[r]]
<1>4. CASE Zero
  <2>1. Good(A) /\ Good(X)
    <3> HIDE DEF Good
    <3> QED
      BY <1>0, <1>1
  <2> HIDE DEF Good
  <2>2. \A r \in Ranks : Z[r] = StepList(r)
    BY <1>4 DEF StepList, ZeroList
  <2> HIDE DEF A, S, X
  <2>3. Good(AS)
    BY <1>2, <1>3, <2>1
  <2> HIDE DEF AS
  <2>4. Good(Z)
    BY <1>2, <2>1, <2>3
  <2>5. T = Z
    BY <2>2
  <2> QED
    BY <2>4, <2>5 DEF Good
<1> DEFINE M1 == [r \in Ranks |-> Over("mean", Own(r, "context_block"), {"tensor"})]
           M2 == [r \in Ranks |-> Over("mean", Own(r, "model"), {"dense", "norm"})]
           M3 == [r \in Ranks |-> Over("mean", Own(r, "context_block"), {"dense", "norm", "tensor"})]
           M4 == [r \in Ranks |-> M1[r] \o M2[r]]
           M == [r \in Ranks |-> ModelList(r)]
           D == [r \in Ranks |-> Over("mean", DataGroup(r), Kinds)]
           N == [r \in Ranks |-> Over("norm", Own(r, "model"), Kinds)]
           SM == [r \in Ranks |-> S[r] \o M[r]]
           SMD == [r \in Ranks |-> SM[r] \o D[r]]
           Y == [r \in Ranks |-> SMD[r] \o N[r]]
<1>5. CASE ~ Zero
  <2>1. Good(M1) /\ Good(M2) /\ Good(M3) /\ Good(N)
    <3> HIDE DEF Good
    <3> QED
      BY <1>0, <1>1
  <2>2. Good(D)
    <3>1. CASE backend = "torch_distributed_adamw" /\ mesh.dp = 1
      <4>1. D = [r \in Ranks |-> Over("mean", Everyone, Kinds)]
        BY <3>1 DEF DataGroup
      <4> HIDE DEF D
      <4> QED
        BY <4>1, EveryoneAligned
    <3>2. CASE ~ (backend = "torch_distributed_adamw" /\ mesh.dp = 1)
      <4>1. D = [r \in Ranks |-> Over("mean", Own(r, "data"), Kinds)]
        BY <3>2 DEF DataGroup
      <4> HIDE DEF Good, D
      <4> QED
        BY <1>0, <1>1, <4>1
    <3> QED
      BY <3>1, <3>2
  <2> HIDE DEF Good
  <2>3. Good(M)
    <3>1. CASE mesh.tp > 1
      <4>1. M = M4
        BY <3>1 DEF ModelList
      <4> HIDE DEF M, M1, M2
      <4>2. Good(M4)
        BY <1>2, <2>1
      <4> QED
        BY <4>1, <4>2
    <3>2. CASE ~ (mesh.tp > 1)
      <4>1. M = M3
        BY <3>2 DEF ModelList
      <4> QED
        BY <2>1, <4>1
    <3> QED
      BY <3>1, <3>2
  <2>4. \A r \in Ranks : Y[r] = StepList(r)
    BY <1>5 DEF StepList, FirstPartyList
  <2> HIDE DEF S, M, D, N
  <2>5. Good(SM)
    BY <1>2, <1>3, <2>3
  <2> HIDE DEF SM
  <2>6. Good(SMD)
    BY <1>2, <2>2, <2>5
  <2> HIDE DEF SMD
  <2>7. Good(Y)
    BY <1>2, <2>1, <2>6
  <2>8. T = Y
    BY <2>4
  <2> QED
    BY <2>7, <2>8 DEF Good
<1> QED
  BY <1>4, <1>5

\* What is in the list of a step.
LEMMA StepListMembers ==
  ASSUME PlanMade, NEW r \in Ranks
  PROVE  /\ StepList(r) \in Seq(Calls)
         /\ \A c \in ToSet(StepList(r)) :
              c.op \in {"mean", "sum", "experts", "norm"} /\ (c.op = "norm" => c.over = Own(r, "model"))
         /\ ~ Zero /\ ModelSize(mesh) > 1 => \E c \in ToSet(StepList(r)) : c.op = "norm"
<1> DEFINE Fine(s) ==
      /\ s \in Seq(Calls)
      /\ \A c \in ToSet(s) :
           c.op \in {"mean", "sum", "experts", "norm"} /\ (c.op = "norm" => c.over = Own(r, "model"))
<1>0. /\ "optimizer" \in Names /\ "data" \in Names /\ "model" \in Names /\ "context_block" \in Names
      /\ "tensor" \in Names /\ "expert" \in Names
  BY DEF Names, AttributeNames
<1>1. ASSUME NEW op \in {"mean", "sum", "experts"}, NEW g \in Seq(Ranks), NEW K
      PROVE  Fine(Over(op, g, K))
  <2> DEFINE e == Collective(op, g, K \cap Kinds)
  <2>1. e.op = op
    BY DEF Collective
  <2>2. Over(op, g, K) \in Seq(Calls) /\ \A c \in ToSet(Over(op, g, K)) : c = e
    <3>0. op \in {"mean", "sum", "experts", "norm"}
      OBVIOUS
    <3>1. Over(op, g, K) \in Seq(Calls)
          /\ (ToSet(Over(op, g, K)) = {e} \/ ToSet(Over(op, g, K)) = {})
      <4>1. CASE Len(g) > 1 /\ K \cap Kinds # {}
        <5>1. Over(op, g, K) \in Seq(Calls)
          BY <3>0, OverList
        <5>2. ToSet(Over(op, g, K)) = {Collective(op, g, K \cap Kinds)}
          BY <3>0, <4>1, OverList
        <5> QED
          BY <5>1, <5>2
      <4>2. CASE ~ (Len(g) > 1 /\ K \cap Kinds # {})
        BY <3>0, <4>2, OverList
      <4> QED
        BY <4>1, <4>2
    <3> HIDE DEF e
    <3> QED
      BY <3>1
  <2> HIDE DEF e
  <2> QED
    BY <2>1, <2>2
<1>2. Fine(Over("norm", Own(r, "model"), Kinds))
  <2> DEFINE e == Collective("norm", Own(r, "model"), Kinds \cap Kinds)
  <2>1. e.op = "norm" /\ e.over = Own(r, "model")
    BY DEF Collective
  <2>2. Own(r, "model") \in Seq(Ranks)
    BY <1>0, OwnMembers
  <2>3. Over("norm", Own(r, "model"), Kinds) \in Seq(Calls)
        /\ \A c \in ToSet(Over("norm", Own(r, "model"), Kinds)) : c = e
    BY <2>2, OverList
  <2> HIDE DEF e
  <2> QED
    BY <2>1, <2>3
<1>3. Fine(<<>>)
  BY DEF ToSet
<1>4. ASSUME NEW s, NEW t, Fine(s), Fine(t)
      PROVE  Fine(s \o t) /\ ToSet(t) \in SUBSET ToSet(s \o t)
  <2>1. s \o t \in Seq(Calls) /\ ToSet(s \o t) = ToSet(s) \union ToSet(t)
    BY <1>4, ToSetJoin
  <2> QED
    BY <1>4, <2>1
<1>5. \A a \in Names : Own(r, a) \in Seq(Ranks)
  BY OwnMembers
<1>6. Everyone \in Seq(Ranks)
  BY EveryoneList
<1>7. DataGroup(r) \in Seq(Ranks)
  BY <1>0, <1>5, <1>6 DEF DataGroup
<1> HIDE DEF Fine
<1>8. Fine(SumList(r))
  BY <1>0, <1>1, <1>3, <1>5 DEF SumList
<1>9. Fine(ModelList(r))
  <2>1. CASE mesh.tp > 1
    BY <1>0, <1>1, <1>4, <1>5, <2>1 DEF ModelList
  <2>2. CASE ~ (mesh.tp > 1)
    BY <1>0, <1>1, <1>5, <2>2 DEF ModelList
  <2> QED
    BY <2>1, <2>2
<1>10. CASE Zero
  <2>1. Fine(Over("mean", Own(r, "optimizer"), Kinds)) /\ Fine(Over("experts", Own(r, "expert"), Kinds))
    BY <1>0, <1>1, <1>5
  <2>2. Fine(ZeroList(r))
    <3>1. Fine(Over("mean", Own(r, "optimizer"), Kinds) \o SumList(r))
      BY <1>4, <1>8, <2>1
    <3> QED
      BY <1>4, <2>1, <3>1 DEF ZeroList
  <2> QED
    BY <1>10, <2>2 DEF StepList, Fine
<1>11. CASE ~ Zero
  <2> DEFINE s == SumList(r) \o ModelList(r) \o Over("mean", DataGroup(r), Kinds)
             t == Over("norm", Own(r, "model"), Kinds)
  <2>1. Fine(s)
    <3>1. Fine(SumList(r) \o ModelList(r)) /\ Fine(Over("mean", DataGroup(r), Kinds))
      BY <1>1, <1>4, <1>7, <1>8, <1>9
    <3> QED
      BY <1>4, <3>1
  <2>2. StepList(r) = s \o t
    BY <1>11 DEF StepList, FirstPartyList
  <2> HIDE DEF s
  <2>3. Fine(StepList(r)) /\ ToSet(t) \in SUBSET ToSet(StepList(r))
    BY <1>2, <1>4, <2>1, <2>2
  <2>4. ASSUME ModelSize(mesh) > 1 PROVE \E c \in ToSet(StepList(r)) : c.op = "norm"
    <3> DEFINE e == Collective("norm", Own(r, "model"), Kinds \cap Kinds)
    <3>1. Len(Own(r, "model")) > 1
      <4>1. Len(Own(r, "model")) = ModelSize(mesh)
        BY GroupSizes DEF SizedNames, GroupSize
      <4> QED
        BY <2>4, <4>1
    <3>2. Kinds \cap Kinds # {}
      BY DEF Kinds
    <3>3. ToSet(t) = {e}
      BY <1>0, <1>5, <3>1, <3>2, OverList
    <3>4. e.op = "norm"
      BY DEF Collective
    <3> HIDE DEF e
    <3> QED
      BY <2>3, <3>3, <3>4
  <2> QED
    BY <2>3, <2>4 DEF Fine
<1> QED
  BY <1>10, <1>11

-----------------------------------------------------------------------------
(* The collectives in step.                                                *)

\* The first of a list and the rest of it, seen from the end.
LEMMA HeadAndTail ==
  ASSUME NEW S, NEW s \in Seq(S), s # <<>>
  PROVE  /\ Head(s) \in S /\ Tail(s) \in Seq(S) /\ Len(s) \in Nat \ {0} /\ Len(Tail(s)) = Len(s) - 1
         /\ ToSet(s) = {Head(s)} \union ToSet(Tail(s)) /\ FromEnd(s, Len(s)) = Head(s)
         /\ \A i \in 1 .. Len(s) - 1 : FromEnd(Tail(s), i) = FromEnd(s, i)
<1> DEFINE t == Tail(s)
           n == Len(s)
<1>1. /\ Head(s) \in S /\ t \in Seq(S) /\ n \in Nat \ {0} /\ Len(t) = n - 1 /\ Head(s) = s[1]
      /\ DOMAIN s = 1 .. n /\ DOMAIN t = 1 .. n - 1 /\ \A i \in 1 .. n - 1 : t[i] = s[i + 1]
  OBVIOUS
<1> HIDE DEF t, n
<1>2. FromEnd(s, n) = Head(s)
  <2>1. n + 1 - n = 1
    BY <1>1
  <2> QED
    BY <1>1, <2>1 DEF FromEnd, n
<1>3. ASSUME NEW i \in 1 .. n - 1 PROVE FromEnd(t, i) = FromEnd(s, i)
  <2>1. Len(t) + 1 - i \in 1 .. n - 1 /\ Len(t) + 1 - i + 1 = n + 1 - i
    BY <1>1
  <2>2. t[Len(t) + 1 - i] = s[n + 1 - i]
    BY <1>1, <2>1
  <2> QED
    BY <2>2 DEF FromEnd, n
<1>4. ToSet(s) = {Head(s)} \union ToSet(t)
  <2>1. ASSUME NEW x \in ToSet(s) PROVE x = Head(s) \/ x \in ToSet(t)
    <3>1. PICK i \in 1 .. n : x = s[i]
      BY <1>1 DEF ToSet
    <3>2. CASE i = 1
      BY <1>1, <3>1, <3>2
    <3>3. CASE i # 1
      <4>1. i - 1 \in 1 .. n - 1 /\ t[i - 1] = s[i]
        <5>1. i - 1 \in 1 .. n - 1 /\ i - 1 + 1 = i
          BY <1>1, <3>3
        <5> QED
          BY <1>1, <5>1
      <4> QED
        BY <1>1, <3>1, <4>1 DEF ToSet
    <3> QED
      BY <3>2, <3>3
  <2>2. Head(s) \in ToSet(s)
    <3>1. 1 \in 1 .. n
      BY <1>1
    <3> QED
      BY <1>1, <3>1 DEF ToSet
  <2>3. ASSUME NEW x \in ToSet(t) PROVE x \in ToSet(s)
    <3>1. PICK i \in 1 .. n - 1 : x = t[i]
      BY <1>1 DEF ToSet
    <3>2. i + 1 \in 1 .. n /\ x = s[i + 1]
      BY <1>1, <3>1
    <3> QED
      BY <1>1, <3>2 DEF ToSet
  <2> QED
    BY <2>1, <2>2, <2>3
<1> QED
  BY <1>1, <1>2, <1>3, <1>4 DEF t, n

\* What is left of a list.
Behind(s, t) == Len(s) <= Len(t) /\ \A i \in 1 .. Len(s) : FromEnd(s, i) = FromEnd(t, i)

\* A collective takes the same number of remaining calls from all of its ranks,
\* and leaves the lists aligned.
LEMMA EnterTogether ==
  ASSUME PlanMade, todo \in [Ranks -> Seq(Calls)], Aligned(todo),
         NEW r \in Ranks, Waiting(r), NEW c, c = Current(r), Enter(c)
  PROVE  /\ c \in Calls /\ r \in Callers(c) /\ Callers(c) \subseteq Ranks
         /\ \A q \in Callers(c) : /\ Waiting(q) /\ Current(q) = c /\ Len(todo[q]) = Len(todo[r])
                                  /\ todo'[q] = Tail(todo[q])
                                  /\ ToSet(todo[q]) = {c} \union ToSet(todo'[q])
         /\ \A q \in Ranks : q \notin Callers(c) => todo'[q] = todo[q]
         /\ todo' \in [Ranks -> Seq(Calls)] /\ Aligned(todo')
         /\ \A q \in Ranks : Behind(todo'[q], todo[q])
<1> DEFINE n == Len(todo[r])
<1>1. \A q \in Ranks : todo[q] \in Seq(Calls)
  OBVIOUS
<1>2. ASSUME NEW q \in Ranks, Waiting(q)
      PROVE  /\ Current(q) \in Calls /\ Tail(todo[q]) \in Seq(Calls) /\ Len(todo[q]) \in Nat \ {0}
             /\ Len(Tail(todo[q])) = Len(todo[q]) - 1
             /\ FromEnd(todo[q], Len(todo[q])) = Current(q)
             /\ \A i \in 1 .. Len(todo[q]) - 1 : FromEnd(Tail(todo[q]), i) = FromEnd(todo[q], i)
  <2>1. todo[q] \in Seq(Calls) /\ todo[q] # <<>>
    BY <1>1, <1>2 DEF Waiting
  <2> QED
    BY <2>1, HeadAndTail DEF Current
<1>3. c \in Calls /\ n \in Nat \ {0} /\ FromEnd(todo[r], n) = c
  BY <1>2
<1>4. n \in 1 .. Len(todo[r])
  BY <1>3
<1>5. /\ r \in Callers(c)
      /\ \A q \in Callers(c) : q \in Ranks /\ n <= Len(todo[q]) /\ FromEnd(todo[q], n) = c
  BY <1>3, <1>4 DEF Aligned
<1>6. \A q \in Callers(c) : Waiting(q) /\ Current(q) = c
  BY DEF Enter, Met
<1> HIDE DEF n
<1>7. ASSUME NEW q \in Callers(c) PROVE Len(todo[q]) = n
  <2>1. q \in Ranks /\ Waiting(q) /\ Current(q) = c
    BY <1>5, <1>6
  <2>2. Len(todo[q]) \in Nat \ {0} /\ FromEnd(todo[q], Len(todo[q])) = c
    BY <1>2, <2>1
  <2>3. Len(todo[q]) \in 1 .. Len(todo[q])
    BY <2>2
  <2>4. Len(todo[q]) <= Len(todo[r])
    BY <1>5, <2>1, <2>2, <2>3 DEF Aligned
  <2>5. n <= Len(todo[q])
    BY <1>5
  <2> QED
    BY <1>3, <2>2, <2>4, <2>5 DEF n
<1>8. \A q \in Ranks : todo'[q] = IF q \in Callers(c) THEN Tail(todo[q]) ELSE todo[q]
  BY DEF Enter
<1>9. todo' \in [Ranks -> Seq(Calls)]
  <2>1. \A q \in Ranks : todo'[q] \in Seq(Calls)
    BY <1>1, <1>2, <1>6, <1>8
  <2>2. todo' = [q \in Ranks |-> todo'[q]]
    BY DEF Enter
  <2> QED
    BY <2>1, <2>2
<1>10. ASSUME NEW q \in Ranks
       PROVE  /\ Len(todo'[q]) \in Nat
              /\ q \in Callers(c) => Len(todo'[q]) = n - 1
              /\ Len(todo'[q]) <= Len(todo[q]) /\ Len(todo[q]) \in Nat
              /\ \A i \in 1 .. Len(todo'[q]) : FromEnd(todo'[q], i) = FromEnd(todo[q], i)
  <2>0. Len(todo[q]) \in Nat
    BY <1>1
  <2>1. CASE q \in Callers(c)
    <3>1. Len(Tail(todo[q])) = n - 1 /\ Len(todo[q]) = n /\ todo'[q] = Tail(todo[q])
          /\ \A i \in 1 .. n - 1 : FromEnd(Tail(todo[q]), i) = FromEnd(todo[q], i)
      BY <1>2, <1>6, <1>7, <1>8, <2>1
    <3> QED
      BY <1>3, <2>0, <3>1
  <2>2. CASE q \notin Callers(c)
    BY <1>8, <2>0, <2>2
  <2> QED
    BY <2>1, <2>2
<1>11. ASSUME NEW p \in Ranks, NEW i \in 1 .. Len(todo'[p])
       PROVE  /\ p \in Callers(FromEnd(todo'[p], i))
              /\ \A q \in Callers(FromEnd(todo'[p], i)) :
                   q \in Ranks /\ i <= Len(todo'[q]) /\ FromEnd(todo'[q], i) = FromEnd(todo'[p], i)
  <2> DEFINE e == FromEnd(todo[p], i)
  <2>1. FromEnd(todo'[p], i) = e /\ i \in 1 .. Len(todo[p]) /\ i \in Nat \ {0} /\ i <= Len(todo'[p])
    BY <1>10
  <2>2. /\ p \in Callers(e)
        /\ \A q \in Callers(e) : q \in Ranks /\ i <= Len(todo[q]) /\ FromEnd(todo[q], i) = e
    BY <2>1 DEF Aligned
  <2> HIDE DEF e
  <2>3. ASSUME NEW q \in Callers(e) PROVE i <= Len(todo'[q])
    <3>1. CASE q \notin Callers(c)
      BY <1>8, <2>2, <3>1
    <3>2. CASE q \in Callers(c) /\ i # n
      <4>1. i <= n
        BY <1>7, <2>2, <3>2
      <4>2. Len(todo'[q]) = n - 1
        BY <1>10, <2>2, <3>2
      <4> QED
        BY <1>3, <2>1, <3>2, <4>1, <4>2
    <3>3. CASE q \in Callers(c) /\ i = n
      <4>1. FromEnd(todo[q], n) = c
        BY <1>5, <3>3
      <4>2. e = c
        BY <2>2, <3>3, <4>1
      <4>3. p \in Callers(c)
        BY <2>2, <4>2
      <4>4. Len(todo'[p]) = n - 1
        BY <1>10, <4>3
      <4> QED
        BY <1>3, <2>1, <3>3, <4>4
    <3> QED
      BY <3>1, <3>2, <3>3
  <2>4. ASSUME NEW q \in Callers(e)
        PROVE  q \in Ranks /\ i <= Len(todo'[q]) /\ FromEnd(todo'[q], i) = e
    <3>1. q \in Ranks /\ FromEnd(todo[q], i) = e
      BY <2>2
    <3>2. i \in 1 .. Len(todo'[q])
      BY <1>10, <2>1, <2>3, <3>1
    <3> QED
      BY <1>10, <2>3, <3>1, <3>2
  <2> QED
    BY <2>1, <2>2, <2>4
<1>12. Aligned(todo')
  BY <1>11 DEF Aligned
<1>13. \A q \in Ranks : Behind(todo'[q], todo[q])
  BY <1>10 DEF Behind
<1>14. ASSUME NEW q \in Callers(c) PROVE ToSet(todo[q]) = {c} \union ToSet(todo'[q])
  <2>1. todo[q] \in Seq(Calls) /\ todo[q] # <<>> /\ c = Head(todo[q]) /\ todo'[q] = Tail(todo[q])
    BY <1>1, <1>5, <1>6, <1>8 DEF Waiting, Current
  <2> QED
    BY <2>1, HeadAndTail
<1> QED
  BY <1>3, <1>5, <1>6, <1>7, <1>8, <1>9, <1>12, <1>13, <1>14 DEF n

\* While lists are aligned somebody can go on.
LEMMA AlignedGoesOn ==
  ASSUME PlanMade, todo \in [Ranks -> Seq(Calls)], Aligned(todo)
  PROVE  NeverStuck
<1> SUFFICES ASSUME NEW p \in Ranks, Waiting(p)
             PROVE  \E r \in Ranks : Waiting(r) /\ Met(Current(r))
  BY DEF NeverStuck
<1>1. \A q \in Ranks : todo[q] \in Seq(Calls) /\ Len(todo[q]) \in Nat
  OBVIOUS
<1> DEFINE X == {-Len(todo[q]) : q \in Ranks}
           f == [q \in Ranks |-> -Len(todo[q])]
<1>2. X \in SUBSET Int /\ X # {}
  BY <1>1
<1>3. IsFiniteSet(X)
  <2>1. IsFiniteSet(Ranks)
    BY PlanMadeFacts, WorldFinite
  <2>2. f \in Surjection(Ranks, X)
    BY DEF Surjection
  <2> HIDE DEF X, f
  <2> QED
    BY <2>1, <2>2, FS_Surjection
<1> HIDE DEF X
<1>4. PICK x \in X : \A y \in X : x <= y
  BY <1>2, <1>3, LeastOf
<1>5. PICK r \in Ranks : x = -Len(todo[r])
  BY DEF X
<1>6. \A q \in Ranks : Len(todo[q]) <= Len(todo[r])
  <2> SUFFICES ASSUME NEW q \in Ranks PROVE Len(todo[q]) <= Len(todo[r])
    OBVIOUS
  <2>1. -Len(todo[q]) \in X
    BY DEF X
  <2>2. -Len(todo[r]) <= -Len(todo[q])
    BY <1>4, <1>5, <2>1
  <2> QED
    BY <1>1, <2>2
<1>7. \A q \in Ranks : Waiting(q) => Len(todo[q]) \in Nat \ {0}
                                     /\ FromEnd(todo[q], Len(todo[q])) = Current(q)
  BY <1>1, HeadAndTail DEF Waiting, Current
<1>8. Waiting(r) /\ Len(todo[r]) \in Nat \ {0}
  <2>1. Len(todo[p]) \in Nat \ {0}
    BY <1>7
  <2>2. Len(todo[r]) \in Nat \ {0}
    BY <1>1, <1>6, <2>1
  <2>3. todo[r] # <<>>
    BY <2>2
  <2> QED
    BY <2>2, <2>3 DEF Waiting
<1> DEFINE n == Len(todo[r])
           c == Current(r)
<1>9. n \in 1 .. Len(todo[r]) /\ FromEnd(todo[r], n) = c
  BY <1>7, <1>8
<1>10. \A q \in Callers(c) : q \in Ranks /\ n <= Len(todo[q]) /\ FromEnd(todo[q], n) = c
  BY <1>9 DEF Aligned
<1> HIDE DEF c
<1>11. ASSUME NEW q \in Callers(c) PROVE Waiting(q) /\ Current(q) = c
  <2>1. Len(todo[q]) = n /\ q \in Ranks
    BY <1>1, <1>6, <1>10
  <2>2. todo[q] # <<>>
    BY <1>8, <2>1
  <2>3. Waiting(q)
    BY <2>2 DEF Waiting
  <2> QED
    BY <1>7, <1>10, <2>1, <2>3
<1>12. Met(c)
  BY <1>11 DEF Met
<1> QED
  BY <1>8, <1>12 DEF c

-----------------------------------------------------------------------------
(* What holds between the lists and the communicators.                     *)

\* While groups are made: only groups of the plan are still to be made, and a
\* group whose communicator a rank lacks is among those.
SetupOK(h, t) ==
  \A r \in Ranks :
    /\ \A c \in ToSet(t[r]) : \E q \in Ranks, a \in Names :
         c = Collective("new", Own(q, a), a) /\ Len(Own(q, a)) > 1
    /\ \A a \in Names : Len(Own(r, a)) > 1 /\ h[r][a] # Own(r, a) =>
         Collective("new", Own(r, a), CreatedAs(r, a)) \in ToSet(t[r])

\* In the step: there is one pipeline stage, all communicators are there, and a
\* rank has the end of its list to go.
StepOK(h, t) == mesh.pp = 1 /\ HandlesAll(h) /\ \A r \in Ranks : Behind(t[r], StepList(r))

SyncOK(ph, h, t) ==
  /\ ph \in {"setup", "step"}
  /\ h \in [Ranks -> [Names -> Seq(Ranks)]] /\ HandlesOwn(h)
  /\ t \in [Ranks -> Seq(Calls)] /\ Aligned(t)
  /\ ph = "setup" => SetupOK(h, t)
  /\ ph = "step" => StepOK(h, t)

\* The inductive invariant of the collectives.
SyncInv == PlanMade /\ SyncOK(phase, handle, todo)

\* The plan is fixed, so the next state is judged by the same one.
LEMMA SyncNext ==
  ASSUME UNCHANGED inputs, SyncOK(phase', handle', todo')
  PROVE  SyncOK(phase, handle, todo)'
<1>1. mesh' = mesh /\ backend' = backend /\ sp' = sp /\ plan' = plan
  BY DEF inputs
<1>2. Ranks' = Ranks /\ Kinds' = Kinds /\ Calls' = Calls
  BY <1>1 DEF Ranks, Kinds, Calls
<1>3. /\ phase' \in {"setup", "step"}
      /\ handle' \in [Ranks -> [Names -> Seq(Ranks)]] /\ todo' \in [Ranks -> Seq(Calls)]
  BY DEF SyncOK
<1>4. HandlesOwn(handle)'
  BY <1>1 DEF SyncOK, HandlesOwn, Own, Ranks
<1>5. Aligned(todo)'
  BY <1>1 DEF SyncOK, Aligned, Callers, Ranks
<1>6. phase' = "setup" => SetupOK(handle, todo)'
  <2> SUFFICES ASSUME phase' = "setup" PROVE SetupOK(handle, todo)'
    OBVIOUS
  <2>1. SetupOK(handle', todo')
    BY DEF SyncOK
  <2> QED
    BY <1>1, <2>1 DEF SetupOK, CreatedAs, SharesInputGroup, Own, Ranks
<1>7. phase' = "step" => StepOK(handle, todo)'
  <2> SUFFICES ASSUME phase' = "step" PROVE StepOK(handle, todo)'
    OBVIOUS
  <2>1. StepOK(handle', todo')
    BY DEF SyncOK
  <2>2. HandlesAll(handle)'
    BY <1>1, <2>1 DEF StepOK, HandlesAll, Own, Ranks
  <2>3. ASSUME NEW r \in Ranks PROVE StepList(r)' = StepList(r)
    BY <1>1 DEF StepList, ZeroList, FirstPartyList, ModelList, SumList, DataGroup, Over, Everyone,
         Zero, Own, Kinds, Ranks
  <2>4. ASSUME NEW r \in Ranks PROVE Behind(todo[r], StepList(r))'
    <3>1. Behind(todo'[r], StepList(r))
      BY <2>1 DEF StepOK
    <3> QED
      BY <2>3, <3>1 DEF Behind
  <2>5. mesh.pp' = 1
    BY <1>1, <2>1 DEF StepOK
  <2> QED
    BY <1>2, <2>2, <2>4, <2>5 DEF StepOK
<1> QED
  BY <1>2, <1>3, <1>4, <1>5, <1>6, <1>7 DEF SyncOK

\* All ranks start with the same list of creations, and no communicator but the
\* ones nobody else is needed for.
LEMMA SyncInit == Init => SyncInv
<1> SUFFICES ASSUME Init PROVE SyncInv
  OBVIOUS
<1>1. PlanMade
  BY PlanMadeInit
<1>2. /\ handle = [r \in Ranks |-> [a \in Names |->
           IF a = "optimizer" /\ Len(plan[r].optimizer) = 1 THEN plan[r].optimizer ELSE <<>>]]
      /\ phase = "setup" /\ todo = [r \in Ranks |-> Creation(r)]
  <2>1. {"optimizer"} \union ToSet(Attributes) = Names
    BY AttributesAre DEF Names
  <2> QED
    BY <2>1 DEF Init
<1>3. ASSUME NEW r \in Ranks, NEW a \in Names
      PROVE  /\ handle[r][a] = IF a = "optimizer" /\ Len(Own(r, a)) = 1 THEN Own(r, a) ELSE <<>>
             /\ handle[r][a] \in Seq(Ranks)
  <2>1. handle[r][a] = IF a = "optimizer" /\ Len(Own(r, a)) = 1 THEN Own(r, a) ELSE <<>>
    BY <1>2 DEF Own
  <2>2. Own(r, a) \in Seq(Ranks) /\ <<>> \in Seq(Ranks)
    BY <1>1, OwnMembers
  <2> QED
    BY <2>1, <2>2
<1>4. handle \in [Ranks -> [Names -> Seq(Ranks)]]
  <2>1. \A r \in Ranks : handle[r] \in [Names -> Seq(Ranks)]
    BY <1>2, <1>3
  <2>2. handle = [r \in Ranks |-> handle[r]]
    BY <1>2
  <2> QED
    BY <2>1, <2>2
<1>5. HandlesOwn(handle)
  BY <1>3 DEF HandlesOwn
<1>6. ASSUME NEW r \in Ranks
      PROVE  /\ todo[r] = Creation(r) /\ todo[r] \in Seq(Calls)
             /\ \A q \in Ranks : todo[q] = todo[r]
             /\ \A c \in ToSet(todo[r]) : \E q \in Ranks, a \in Names :
                  c = Collective("new", Own(q, a), a) /\ Len(Own(q, a)) > 1
             /\ \A a \in Names : Len(Own(r, a)) > 1 =>
                  Collective("new", Own(r, a), CreatedAs(r, a)) \in ToSet(todo[r])
  <2>1. \A q \in Ranks : todo[q] = Creation(q)
    BY <1>2
  <2> QED
    BY <1>1, <2>1, CreationList
<1>7. todo \in [Ranks -> Seq(Calls)]
  BY <1>2, <1>6
<1>8. Aligned(todo)
  <2> SUFFICES ASSUME NEW r \in Ranks, NEW i \in 1 .. Len(todo[r])
               PROVE  /\ r \in Callers(FromEnd(todo[r], i))
                      /\ \A q \in Callers(FromEnd(todo[r], i)) :
                           /\ q \in Ranks /\ i <= Len(todo[q])
                           /\ FromEnd(todo[q], i) = FromEnd(todo[r], i)
    BY DEF Aligned
  <2> DEFINE c == FromEnd(todo[r], i)
  <2>1. c \in ToSet(todo[r])
    <3>1. Len(todo[r]) \in Nat /\ DOMAIN todo[r] = 1 .. Len(todo[r])
      BY <1>6
    <3>2. Len(todo[r]) + 1 - i \in 1 .. Len(todo[r])
      BY <3>1
    <3> QED
      BY <3>1, <3>2 DEF FromEnd, ToSet
  <2> HIDE DEF c
  <2>2. c.op = "new"
    <3>1. PICK q \in Ranks, a \in Names : c = Collective("new", Own(q, a), a)
      BY <1>6, <2>1
    <3> QED
      BY <3>1 DEF Collective
  <2>3. Callers(c) = Ranks
    BY <2>2 DEF Callers
  <2>4. i <= Len(todo[r])
    BY <1>6
  <2> QED
    BY <1>6, <2>3, <2>4 DEF c
<1>9. SetupOK(handle, todo)
  BY <1>6 DEF SetupOK
<1> QED
  BY <1>1, <1>2, <1>4, <1>5, <1>7, <1>8, <1>9 DEF SyncInv, SyncOK

\* Groups are made in the setup only.
LEMMA NewInSetup ==
  ASSUME SyncInv, NEW r \in Ranks, Waiting(r), NEW c, c = Current(r), c.op = "new"
  PROVE  phase = "setup"
<1>1. PlanMade /\ SyncOK(phase, handle, todo)
  BY DEF SyncInv
<1> SUFFICES ASSUME phase = "step" PROVE FALSE
  BY <1>1 DEF SyncOK
<1>2. Behind(todo[r], StepList(r)) /\ StepList(r) \in Seq(Calls)
  BY <1>1, StepListMembers DEF SyncOK, StepOK
<1>3. todo[r] \in Seq(Calls) /\ todo[r] # <<>> /\ c = Head(todo[r])
  BY <1>1 DEF SyncOK, Waiting, Current
<1>4. Len(todo[r]) \in Nat \ {0} /\ FromEnd(todo[r], Len(todo[r])) = c
  BY <1>3, HeadAndTail
<1> DEFINE n == Len(todo[r])
           s == StepList(r)
<1>5. n \in 1 .. n /\ n <= Len(s)
  BY <1>2, <1>4 DEF Behind
<1>6. FromEnd(s, n) = c
  BY <1>2, <1>4, <1>5 DEF Behind
<1> HIDE DEF n, s
<1>7. Len(s) + 1 - n \in 1 .. Len(s) /\ DOMAIN s = 1 .. Len(s)
  BY <1>2, <1>4, <1>5 DEF s, n
<1>8. c \in ToSet(s)
  BY <1>6, <1>7 DEF FromEnd, ToSet
<1>9. c.op \in {"mean", "sum", "experts", "norm"}
  BY <1>1, <1>8, StepListMembers DEF s
<1> QED
  BY <1>9

\* The creation of a group gives its members their own communicator.
LEMMA NewGroupSync ==
  ASSUME SyncInv, NEW r \in Ranks, Waiting(r), NEW c, c = Current(r), NewGroup(c)
  PROVE  SyncOK(phase', handle', todo')
<1>1. PlanMade /\ SyncOK(phase, handle, todo) /\ c.op = "new" /\ Enter(c)
  BY DEF SyncInv, NewGroup
<1>2. /\ todo \in [Ranks -> Seq(Calls)] /\ Aligned(todo) /\ HandlesOwn(handle)
      /\ handle \in [Ranks -> [Names -> Seq(Ranks)]]
  BY <1>1 DEF SyncOK
<1>3. /\ c \in Calls /\ r \in Callers(c) /\ Callers(c) \subseteq Ranks
      /\ \A q \in Callers(c) : /\ Waiting(q) /\ Current(q) = c /\ ToSet(todo[q]) = {c} \union ToSet(todo'[q])
      /\ todo' \in [Ranks -> Seq(Calls)] /\ Aligned(todo')
  BY <1>1, <1>2, EnterTogether
<1>4. Callers(c) = Ranks
  BY <1>1 DEF Callers
<1>5. c \in ToSet(todo[r])
  BY <1>3
<1>6. phase = "setup"
  BY <1>1, NewInSetup
<1>7. SetupOK(handle, todo)
  BY <1>1, <1>6 DEF SyncOK
<1>8. PICK p \in Ranks, b \in Names : c = Collective("new", Own(p, b), b) /\ Len(Own(p, b)) > 1
  BY <1>5, <1>7 DEF SetupOK
<1>9. c.over = Own(p, b) /\ c.kinds = b
  BY <1>8 DEF Collective
<1>10. ASSUME NEW q \in ToSet(Own(p, b)) PROVE Own(q, b) = Own(p, b) /\ q \in Ranks
  BY <1>1, OwnMembers
<1>11. Own(p, b) \in Seq(Ranks)
  BY <1>1, OwnMembers
<1>12. "model" \in Names /\ "model_input" \in Names
  BY DEF Names, AttributeNames
\* Which communicators a rank gets.
<1> DEFINE G(q) == q \in ToSet(Own(p, b))
           M(q) == b = "model" /\ SharesInputGroup(q)
<1>13. ASSUME NEW q \in Ranks, NEW a \in Names
       PROVE  handle'[q][a] =
                IF G(q) /\ (a = b \/ (M(q) /\ a = "model_input")) THEN Own(p, b) ELSE handle[q][a]
  <2>1. handle'[q] =
          IF q \notin ToSet(c.over) THEN handle[q]
          ELSE IF c.kinds = "model" /\ SharesInputGroup(q)
               THEN [handle[q] EXCEPT !.model = c.over, !.model_input = c.over]
               ELSE [handle[q] EXCEPT ![c.kinds] = c.over]
    BY DEF NewGroup
  <2>2. handle[q] \in [Names -> Seq(Ranks)]
    BY <1>2
  <2>3. CASE ~ G(q)
    BY <1>9, <2>1, <2>3
  <2>4. CASE G(q) /\ M(q)
    <3>1. handle'[q] = [handle[q] EXCEPT !.model = Own(p, b), !.model_input = Own(p, b)]
      BY <1>9, <2>1, <2>4
    <3> QED
      BY <1>12, <2>2, <2>4, <3>1
  <2>5. CASE G(q) /\ ~ M(q)
    <3>1. handle'[q] = [handle[q] EXCEPT ![b] = Own(p, b)]
      BY <1>9, <2>1, <2>5
    <3> QED
      BY <2>2, <2>5, <3>1
  <2> QED
    BY <2>3, <2>4, <2>5
<1>14. handle' \in [Ranks -> [Names -> Seq(Ranks)]]
  <2>1. handle' = [q \in Ranks |-> handle'[q]]
    BY DEF NewGroup
  <2>2. ASSUME NEW q \in Ranks PROVE handle'[q] \in [Names -> Seq(Ranks)]
    <3>1. handle'[q] = [a \in Names |-> handle'[q][a]]
      <4>1. handle'[q] =
              IF q \notin ToSet(c.over) THEN handle[q]
              ELSE IF c.kinds = "model" /\ SharesInputGroup(q)
                   THEN [handle[q] EXCEPT !.model = c.over, !.model_input = c.over]
                   ELSE [handle[q] EXCEPT ![c.kinds] = c.over]
        BY DEF NewGroup
      <4>2. handle[q] \in [Names -> Seq(Ranks)]
        BY <1>2
      <4> QED
        BY <4>1, <4>2
    <3>2. \A a \in Names : handle[q][a] \in Seq(Ranks)
      BY <1>2
    <3>3. \A a \in Names : handle'[q][a] \in Seq(Ranks)
      BY <1>11, <1>13, <3>2
    <3> QED
      BY <3>1, <3>3
  <2> QED
    BY <2>1, <2>2
<1> HIDE DEF G, M
<1>15. ASSUME NEW q \in Ranks, NEW a \in Names
       PROVE  \/ handle'[q][a] = handle[q][a] /\ ~ (G(q) /\ (a = b \/ (M(q) /\ a = "model_input")))
              \/ /\ handle'[q][a] = Own(q, a) /\ Len(Own(q, a)) > 1
                 /\ G(q) /\ (a = b \/ (M(q) /\ a = "model_input"))
  <2>1. CASE ~ (G(q) /\ (a = b \/ (M(q) /\ a = "model_input")))
    BY <1>13, <2>1
  <2>2. CASE G(q) /\ (a = b \/ (M(q) /\ a = "model_input"))
    <3>1. handle'[q][a] = Own(p, b)
      BY <1>13, <2>2
    <3>2. Own(q, b) = Own(p, b)
      BY <1>10, <2>2 DEF G
    <3>3. Own(q, a) = Own(q, b)
      BY <1>1, <2>2, InputGroupShared DEF M
    <3> QED
      BY <1>8, <2>2, <3>1, <3>2, <3>3
  <2> QED
    BY <2>1, <2>2
<1>16. HandlesOwn(handle')
  <2> SUFFICES ASSUME NEW q \in Ranks, NEW a \in Names
               PROVE  \/ handle'[q][a] = <<>>
                      \/ handle'[q][a] = Own(q, a) /\ (a = "optimizer" \/ Len(Own(q, a)) > 1)
    BY DEF HandlesOwn
  <2> QED
    BY <1>2, <1>15 DEF HandlesOwn
<1>17. SetupOK(handle', todo')
  <2> SUFFICES ASSUME NEW q \in Ranks
               PROVE  /\ \A d \in ToSet(todo'[q]) : \E x \in Ranks, a \in Names :
                           d = Collective("new", Own(x, a), a) /\ Len(Own(x, a)) > 1
                      /\ \A a \in Names : Len(Own(q, a)) > 1 /\ handle'[q][a] # Own(q, a) =>
                           Collective("new", Own(q, a), CreatedAs(q, a)) \in ToSet(todo'[q])
    BY DEF SetupOK
  <2>1. ToSet(todo[q]) = {c} \union ToSet(todo'[q])
    BY <1>3, <1>4
  <2>2. \A d \in ToSet(todo'[q]) : \E x \in Ranks, a \in Names :
          d = Collective("new", Own(x, a), a) /\ Len(Own(x, a)) > 1
    BY <1>7, <2>1 DEF SetupOK
  <2>3. ASSUME NEW a \in Names, Len(Own(q, a)) > 1, handle'[q][a] # Own(q, a)
        PROVE  Collective("new", Own(q, a), CreatedAs(q, a)) \in ToSet(todo'[q])
    <3> DEFINE d == Collective("new", Own(q, a), CreatedAs(q, a))
    <3>1. handle'[q][a] = handle[q][a] /\ ~ (G(q) /\ (a = b \/ (M(q) /\ a = "model_input")))
      BY <1>15, <2>3
    <3>2. d \in ToSet(todo[q])
      BY <1>7, <2>3, <3>1 DEF SetupOK
    <3>3. d # c
      <4> SUFFICES ASSUME d = c PROVE FALSE
        OBVIOUS
      <4>1. d.over = c.over /\ d.kinds = c.kinds
        OBVIOUS
      <4>2. Own(q, a) = Own(p, b) /\ CreatedAs(q, a) = b
        BY <1>9, <4>1 DEF Collective
      <4>3. G(q)
        BY <1>1, <4>2, OwnMembers DEF G
      <4>4. a = b \/ (a = "model_input" /\ SharesInputGroup(q) /\ b = "model")
        BY <4>2 DEF CreatedAs
      <4> QED
        BY <3>1, <4>3, <4>4 DEF M
    <3> HIDE DEF d
    <3>4. d \in ToSet(todo'[q])
      BY <2>1, <3>2, <3>3
    <3> QED
      BY <3>4 DEF d
  <2> QED
    BY <2>2, <2>3
<1>18. phase' = "setup"
  BY <1>1, <1>6 DEF Enter
<1> QED
  BY <1>3, <1>14, <1>16, <1>17, <1>18 DEF SyncOK

\* What is left of what is left of a list.
LEMMA BehindChain ==
  ASSUME NEW s, NEW t, NEW u, Behind(s, t), Behind(t, u),
         Len(s) \in Nat, Len(t) \in Nat, Len(u) \in Nat
  PROVE  Behind(s, u)
<1>1. Len(s) <= Len(u)
  BY DEF Behind
<1>2. ASSUME NEW i \in 1 .. Len(s) PROVE FromEnd(s, i) = FromEnd(u, i)
  <2>1. i \in 1 .. Len(t)
    BY DEF Behind
  <2> QED
    BY <2>1 DEF Behind
<1> QED
  BY <1>1, <1>2 DEF Behind

\* A collective that somebody is at is one of the list of the phase.
LEMMA CurrentCall ==
  ASSUME SyncInv, NEW r \in Ranks, Waiting(r), NEW c, c = Current(r), c.op # "new"
  PROVE  /\ phase = "step" /\ StepList(r) \in Seq(Calls) /\ c \in ToSet(StepList(r))
         /\ Len(todo[r]) \in 1 .. Len(StepList(r)) /\ FromEnd(StepList(r), Len(todo[r])) = c
<1>1. PlanMade /\ SyncOK(phase, handle, todo)
  BY DEF SyncInv
<1>2. todo[r] \in Seq(Calls) /\ todo[r] # <<>> /\ c = Head(todo[r])
  BY <1>1 DEF SyncOK, Waiting, Current
<1>3. /\ Len(todo[r]) \in Nat \ {0} /\ FromEnd(todo[r], Len(todo[r])) = c
      /\ c \in ToSet(todo[r])
  BY <1>2, HeadAndTail
<1>4. phase = "step"
  <2> SUFFICES ASSUME phase = "setup" PROVE FALSE
    BY <1>1 DEF SyncOK
  <2>1. SetupOK(handle, todo)
    BY <1>1 DEF SyncOK
  <2>2. PICK q \in Ranks, a \in Names : c = Collective("new", Own(q, a), a)
    BY <1>3, <2>1 DEF SetupOK
  <2> QED
    BY <2>2 DEF Collective
<1>5. Behind(todo[r], StepList(r)) /\ StepList(r) \in Seq(Calls)
  BY <1>1, <1>4, StepListMembers DEF SyncOK, StepOK
<1> DEFINE n == Len(todo[r])
           s == StepList(r)
<1>6. n \in 1 .. n /\ n <= Len(s) /\ Len(s) \in Nat
  BY <1>3, <1>5 DEF Behind
<1>7. FromEnd(s, n) = c
  BY <1>3, <1>5, <1>6 DEF Behind
<1>8. c \in ToSet(s)
  <2> HIDE DEF n, s
  <2>1. Len(s) + 1 - n \in 1 .. Len(s) /\ DOMAIN s = 1 .. Len(s)
    BY <1>3, <1>5, <1>6 DEF s
  <2> QED
    BY <1>7, <2>1 DEF FromEnd, ToSet
<1> QED
  BY <1>3, <1>4, <1>5, <1>6, <1>7, <1>8

\* A collective of the step takes the next call from the lists of its ranks.
LEMMA CallSync ==
  ASSUME SyncInv, NEW r \in Ranks, Waiting(r), NEW c, c = Current(r), c.op # "new",
         Enter(c), handle' = handle
  PROVE  SyncOK(phase', handle', todo')
<1>1. PlanMade /\ SyncOK(phase, handle, todo) /\ phase = "step" /\ phase' = phase
  BY CurrentCall DEF SyncInv, Enter
<1>2. StepOK(handle, todo) /\ todo \in [Ranks -> Seq(Calls)] /\ Aligned(todo)
  BY <1>1 DEF SyncOK
<1>3. /\ todo' \in [Ranks -> Seq(Calls)] /\ Aligned(todo')
      /\ \A q \in Ranks : Behind(todo'[q], todo[q])
  BY <1>1, <1>2, EnterTogether
<1>4. ASSUME NEW q \in Ranks PROVE Behind(todo'[q], StepList(q))
  <2>1. todo[q] \in Seq(Calls) /\ todo'[q] \in Seq(Calls) /\ StepList(q) \in Seq(Calls)
    BY <1>1, <1>2, <1>3, StepListMembers
  <2>2. Behind(todo'[q], todo[q]) /\ Behind(todo[q], StepList(q))
    BY <1>2, <1>3 DEF StepOK
  <2>3. Len(todo[q]) \in Nat /\ Len(todo'[q]) \in Nat /\ Len(StepList(q)) \in Nat
    BY <2>1
  <2> QED
    BY <2>2, <2>3, BehindChain
<1>5. StepOK(handle', todo')
  BY <1>2, <1>4 DEF StepOK
<1> QED
  BY <1>1, <1>3, <1>5 DEF SyncOK

\* The step starts when all communicators are there.
LEMMA StartSync ==
  ASSUME SyncInv, StartStep
  PROVE  SyncOK(phase', handle', todo')
<1>1. PlanMade /\ SyncOK(phase, handle, todo) /\ phase = "setup" /\ mesh.pp = 1
      /\ phase' = "step" /\ handle' = handle
      /\ todo' = [r \in Ranks |-> IF Zero THEN ZeroSync(r) ELSE FirstPartySync(r)]
  BY DEF SyncInv, StartStep
<1>2. HandlesOwn(handle) /\ SetupOK(handle, todo)
  BY <1>1 DEF SyncOK
<1>3. HandlesAll(handle)
  <2>1. \A r \in Ranks : ToSet(todo[r]) = {}
    BY DEF StartStep, Waiting, ToSet
  <2> QED
    BY <1>2, <2>1 DEF SetupOK, HandlesAll
<1>4. todo' = [r \in Ranks |-> StepList(r)]
  BY <1>1, <1>2, <1>3, StepListIs
<1>5. todo' \in [Ranks -> Seq(Calls)] /\ Aligned(todo')
  BY <1>1, <1>4, StepListsAligned
<1>6. \A r \in Ranks : Behind(todo'[r], StepList(r))
  <2> SUFFICES ASSUME NEW r \in Ranks PROVE Behind(todo'[r], StepList(r))
    OBVIOUS
  <2>1. todo'[r] = StepList(r) /\ Len(StepList(r)) \in Nat
    BY <1>1, <1>4, StepListMembers
  <2> QED
    BY <2>1 DEF Behind
<1>7. StepOK(handle', todo')
  BY <1>1, <1>3, <1>6 DEF StepOK
<1> QED
  BY <1>1, <1>2, <1>5, <1>7 DEF SyncOK

\* No step takes the lists of the ranks apart.
LEMMA SyncStep == SyncInv /\ [Next]_vars => SyncInv'
<1> SUFFICES ASSUME SyncInv, [Next]_vars PROVE SyncInv'
  OBVIOUS
<1>0. UNCHANGED inputs /\ PlanMade /\ SyncOK(phase, handle, todo)
  BY InputsKept DEF SyncInv
<1>1. PlanMade'
  BY <1>0 DEF PlanMade, inputs
<1>2. SyncOK(phase', handle', todo')
  <2>1. ASSUME NEW r \in Ranks, Waiting(r), NewGroup(Current(r)) PROVE SyncOK(phase', handle', todo')
    BY <2>1, NewGroupSync
  <2>2. ASSUME NEW r \in Ranks, Waiting(r), AllReduce(Current(r)) PROVE SyncOK(phase', handle', todo')
    <3>1. Current(r).op # "new" /\ Enter(Current(r)) /\ handle' = handle
      BY <2>2 DEF AllReduce
    <3> QED
      BY <2>2, <3>1, CallSync
  <2>3. ASSUME NEW r \in Ranks, Waiting(r), SyncExperts(Current(r)) PROVE SyncOK(phase', handle', todo')
    <3>1. Current(r).op # "new" /\ Enter(Current(r)) /\ handle' = handle
      BY <2>3 DEF SyncExperts
    <3> QED
      BY <2>3, <3>1, CallSync
  <2>4. ASSUME NEW r \in Ranks, Waiting(r), ClipNorm(Current(r)) PROVE SyncOK(phase', handle', todo')
    <3>1. Current(r).op # "new" /\ Enter(Current(r)) /\ handle' = handle
      BY <2>4 DEF ClipNorm
    <3> QED
      BY <2>4, <3>1, CallSync
  <2>5. CASE StartStep
    BY <2>5, StartSync
  <2>6. CASE Stop
    BY <1>0, <2>6 DEF Stop, vars
  <2>7. CASE UNCHANGED vars
    BY <1>0, <2>7 DEF vars
  <2> QED
    BY <2>1, <2>2, <2>3, <2>4, <2>5, <2>6, <2>7 DEF Next
<1> QED
  BY <1>0, <1>1, <1>2, SyncNext DEF SyncInv

\* The lists of the ranks never come apart.
THEOREM SyncAlways == Spec => []SyncInv
BY SyncInit, SyncStep, PTL DEF Spec

\* Nobody is left waiting for a collective that the others have passed, skipped
\* or reordered.
THEOREM NeverStuckAlways == Spec => []NeverStuck
<1>1. SyncInv => NeverStuck
  BY AlignedGoesOn DEF SyncInv, SyncOK
<1> QED
  BY <1>1, SyncAlways, PTL

-----------------------------------------------------------------------------
(* The norm.                                                               *)

\* The norm of a first-party optimizer is the last collective of its list.
LEMMA NormComesLast ==
  ASSUME PlanMade, ~ Zero, ModelSize(mesh) > 1, NEW r \in Ranks
  PROVE  /\ Len(StepList(r)) \in Nat \ {0}
         /\ FromEnd(StepList(r), 1) = Collective("norm", Own(r, "model"), Kinds \cap Kinds)
<1> DEFINE s == SumList(r) \o ModelList(r) \o Over("mean", DataGroup(r), Kinds)
           t == Over("norm", Own(r, "model"), Kinds)
           e == Collective("norm", Own(r, "model"), Kinds \cap Kinds)
<1>1. StepList(r) = s \o t /\ StepList(r) \in Seq(Calls)
  BY StepListMembers DEF StepList, FirstPartyList
<1>2. Own(r, "model") \in Seq(Ranks) /\ Len(Own(r, "model")) > 1
  <2>1. Len(Own(r, "model")) = ModelSize(mesh)
    BY GroupSizes DEF SizedNames, GroupSize
  <2>2. "model" \in Names
    BY DEF Names, AttributeNames
  <2> QED
    BY <2>1, <2>2, OwnMembers
<1>3. Kinds \cap Kinds # {}
  BY DEF Kinds
<1>4. t = <<e>>
  BY <1>2, <1>3, OverList
<1>4a. t \in Seq(Calls)
  BY <1>2, OverList
<1>5. s \in Seq(Calls)
  <2>1. \A a \in Names : Own(r, a) \in Seq(Ranks)
    BY OwnMembers
  <2>2. Everyone \in Seq(Ranks)
    BY EveryoneList
  <2>3. "data" \in Names /\ "tensor" \in Names /\ "model" \in Names /\ "context_block" \in Names
    BY DEF Names, AttributeNames
  <2>4. DataGroup(r) \in Seq(Ranks)
    BY <2>1, <2>2, <2>3 DEF DataGroup
  <2>5. ASSUME NEW g \in Seq(Ranks), NEW op \in {"mean", "sum"}, NEW K
        PROVE  Over(op, g, K) \in Seq(Calls)
    <3>1. op \in {"mean", "sum", "experts", "norm"}
      OBVIOUS
    <3> QED
      BY <3>1, OverList
  <2>6. SumList(r) \in Seq(Calls)
    <3>1. <<>> \in Seq(Calls)
      OBVIOUS
    <3> QED
      BY <2>1, <2>3, <2>5, <3>1 DEF SumList
  <2>7. ModelList(r) \in Seq(Calls)
    <3>1. ASSUME NEW x \in Seq(Calls), NEW y \in Seq(Calls) PROVE x \o y \in Seq(Calls)
      OBVIOUS
    <3> QED
      BY <2>1, <2>3, <2>5, <3>1 DEF ModelList
  <2>8. Over("mean", DataGroup(r), Kinds) \in Seq(Calls)
    BY <2>4, <2>5
  <2> QED
    BY <2>6, <2>7, <2>8
<1> HIDE DEF s, t, e
<1>6. Len(t) = 1 /\ t[1] = e
  BY <1>4
<1>7. Len(s \o t) = Len(s) + Len(t) /\ Len(s) \in Nat
  BY <1>4a, <1>5
<1>8. 1 \in 1 .. Len(s \o t) /\ Len(s \o t) \in Nat \ {0}
  BY <1>6, <1>7
<1>9. FromEnd(s \o t, 1) = FromEnd(t, 1)
  <2>1. \A i \in 1 .. Len(s \o t) : i <= Len(t) => FromEnd(s \o t, i) = FromEnd(t, i)
    BY <1>4a, <1>5, FromEndOfJoin
  <2>2. 1 <= Len(t)
    BY <1>6
  <2> QED
    BY <1>8, <2>1, <2>2
<1>10. FromEnd(t, 1) = e
  <2>1. Len(t) + 1 - 1 = 1
    BY <1>6
  <2> QED
    BY <1>6, <2>1 DEF FromEnd
<1> QED
  BY <1>1, <1>8, <1>9, <1>10 DEF e

\* Within a replica of one stage exactly one rank counts a shard of a kind.
LEMMA ShardCounted ==
  ASSUME PlanMade, mesh.pp = 1, NEW r \in Ranks, NEW k \in Kinds, NEW s \in Shards(k)
  PROVE  Cardinality({q \in ToSet(Own(r, "model")) : OwnsNorm(k, q) /\ Shard(k, q) = s}) = 1
<1> DEFINE S == {q \in ToSet(Own(r, "model")) : OwnsNorm(k, q) /\ Shard(k, q) = s}
           d == [dp |-> plan[r].at.dp, pp |-> 0, local |-> 0,
                 tp |-> IF k = "tensor" THEN s ELSE 0, ep |-> IF k = "expert" THEN s ELSE 0]
<1>1. IsMesh(mesh)
  BY PlanMadeFacts
<1>2. /\ mesh.dp \in Nat \ {0} /\ mesh.tp \in Nat \ {0} /\ mesh.ep \in Nat \ {0}
      /\ LocalSize(mesh) \in Nat \ {0}
  BY <1>1, MeshSizes
<1>3. \A q \in Ranks : plan[q].at \in Box(mesh)
  BY AtCoords
<1>4. k \in {"dense", "norm", "tensor", "expert"}
  BY DEF Kinds
<1>5. /\ k = "tensor" => s \in 0 .. mesh.tp - 1
      /\ k = "expert" => s \in 0 .. mesh.ep - 1
      /\ k \in {"dense", "norm"} => s = 0
  <2>1. PICK p \in Ranks : s = Shard(k, p)
    BY DEF Shards
  <2>2. plan[p].at.tp \in 0 .. mesh.tp - 1 /\ plan[p].at.ep \in 0 .. mesh.ep - 1
    BY <1>3 DEF Box
  <2> QED
    BY <2>1, <2>2 DEF Shard
<1>6. d \in Box(mesh)
  <2>1. 0 \in 0 .. mesh.pp - 1 /\ 0 \in 0 .. LocalSize(mesh) - 1 /\ 0 \in 0 .. mesh.tp - 1
        /\ 0 \in 0 .. mesh.ep - 1
    BY <1>2
  <2>2. plan[r].at.dp \in 0 .. mesh.dp - 1
    BY <1>3 DEF Box
  <2>3. d.tp \in 0 .. mesh.tp - 1 /\ d.ep \in 0 .. mesh.ep - 1
    BY <1>5, <2>1
  <2> QED
    BY <2>1, <2>2, <2>3 DEF Box
<1>7. PICK x \in Ranks : plan[x].at = d
  BY <1>6, AtCoords
<1>8. ToSet(Own(r, "model")) = {q \in Ranks : plan[r].at.dp = plan[q].at.dp}
  <2>1. "model" \in Names
    BY DEF Names, AttributeNames
  <2>2. \A q \in Ranks : Near("model", plan[r].at, plan[q].at) <=> plan[r].at.dp = plan[q].at.dp
    BY DEF Near, Alike
  <2> QED
    BY <2>1, <2>2, OwnMembers
<1>9. ASSUME NEW q \in Ranks
      PROVE  q \in S <=> plan[q].at = d
  <2> DEFINE c == plan[q].at
  <2>1. c \in Box(mesh)
    BY <1>3
  <2>2. c.pp = 0
    <3>1. c.pp \in 0 .. mesh.pp - 1
      BY <2>1 DEF Box
    <3>2. c.pp \in 0 .. 0
      BY <3>1
    <3> QED
      BY <3>2
  <2>3. c = [dp |-> c.dp, pp |-> c.pp, local |-> c.local, tp |-> c.tp, ep |-> c.ep]
    BY <2>1 DEF Box
  <2>4. Shard(k, q) = IF k = "tensor" THEN c.tp ELSE IF k = "expert" THEN c.ep ELSE 0
    BY <1>4 DEF Shard
  <2>5. OwnsNorm(k, q) <=> c.local = 0 /\ (k = "tensor" \/ c.tp = 0) /\ (k = "expert" \/ c.ep = 0)
    BY DEF OwnsNorm
  <2>6. q \in S <=> plan[r].at.dp = c.dp /\ OwnsNorm(k, q) /\ Shard(k, q) = s
    BY <1>8
  <2>7. c = d <=> /\ c.dp = plan[r].at.dp /\ c.local = 0
                  /\ c.tp = (IF k = "tensor" THEN s ELSE 0) /\ c.ep = (IF k = "expert" THEN s ELSE 0)
    BY <2>2, <2>3
  <2> HIDE DEF S, c, d
  <2>8. q \in S <=> c = d
    <3>1. CASE k = "tensor"
      BY <2>4, <2>5, <2>6, <2>7, <3>1
    <3>2. CASE k = "expert"
      BY <2>4, <2>5, <2>6, <2>7, <3>2
    <3>3. CASE k \in {"dense", "norm"}
      BY <1>5, <2>4, <2>5, <2>6, <2>7, <3>3
    <3> QED
      BY <1>4, <3>1, <3>2, <3>3
  <2> QED
    BY <2>8 DEF c
<1>10. S \in SUBSET Ranks
  BY <1>8
<1> HIDE DEF S, d
<1>11. S = {x}
  <2>1. x \in S
    BY <1>7, <1>9
  <2>2. ASSUME NEW q \in S PROVE q = x
    BY <1>7, <1>9, <1>10, AtCoords
  <2> QED
    BY <2>1, <2>2
<1>12. Cardinality({x}) = 1
  BY FS_Singleton
<1> QED
  BY <1>11, <1>12 DEF S

\* Every shard once, as far as a rank is done: what the norm comes to.
NormOK(ph, t, n) ==
  ph = "step" /\ ~ Zero /\ ModelSize(mesh) > 1 =>
    \A r \in Ranks : t[r] = <<>> => \A k \in Kinds : \A s \in Shards(k) : n[r][k][s] = 1

\* What the norm comes to follows from the inputs, which do not change.
LEMMA NormNext ==
  ASSUME UNCHANGED inputs, NormOK(phase', todo', norm')
  PROVE  NormCountsOnce'
<1>1. mesh' = mesh /\ backend' = backend /\ sp' = sp /\ plan' = plan
  BY DEF inputs
<1>2. Kinds' = Kinds /\ Ranks' = Ranks /\ Zero' = Zero
  BY <1>1 DEF Kinds, Ranks, Zero
<1> SUFFICES ASSUME phase' = "step", ~ Zero, ModelSize(mesh) > 1,
                    NEW r \in Ranks, todo'[r] = <<>>, NEW k \in Kinds, NEW s \in Shards(k)'
             PROVE  norm'[r][k][s] = 1
  BY <1>1, <1>2 DEF NormCountsOnce, Waiting
<1>3. Shards(k)' = Shards(k)
  BY <1>1, <1>2 DEF Shards, Shard
<1> QED
  BY <1>3 DEF NormOK

\* A collective leaves a rank with an empty list only after the norm.
LEMMA NormStep == SyncInv /\ NormCountsOnce /\ [Next]_vars => NormCountsOnce'
<1> SUFFICES ASSUME SyncInv, NormCountsOnce, [Next]_vars PROVE NormCountsOnce'
  OBVIOUS
<1>0. UNCHANGED inputs /\ PlanMade /\ SyncOK(phase, handle, todo)
  BY InputsKept DEF SyncInv
<1>1. todo \in [Ranks -> Seq(Calls)] /\ Aligned(todo)
  BY <1>0 DEF SyncOK
<1>2. NormOK(phase, todo, norm)
  BY DEF NormCountsOnce, NormOK, Waiting
\* One collective of the step.
<1>3. ASSUME NEW p \in Ranks, Waiting(p), NEW c, c = Current(p), Enter(c), c.op # "new",
             \/ c.op # "norm" /\ norm' = norm
             \/ ClipNorm(c)
      PROVE  NormOK(phase', todo', norm')
  <2> SUFFICES ASSUME phase = "step", ~ Zero, ModelSize(mesh) > 1, NEW r \in Ranks, todo'[r] = <<>>,
                      NEW k \in Kinds, NEW s \in Shards(k)
               PROVE  norm'[r][k][s] = 1
    BY <1>3 DEF NormOK, Enter
  <2>1. mesh.pp = 1 /\ \A q \in Ranks : Behind(todo[q], StepList(q))
    BY <1>0 DEF SyncOK, StepOK
  <2>2. /\ Callers(c) \subseteq Ranks
        /\ \A q \in Callers(c) : Waiting(q) /\ Current(q) = c /\ todo'[q] = Tail(todo[q])
        /\ \A q \in Ranks : q \notin Callers(c) => todo'[q] = todo[q]
    BY <1>0, <1>1, <1>3, EnterTogether
  <2>3. Callers(c) = ToSet(c.over)
    BY <1>3 DEF Callers
  <2>4. CASE r \notin Callers(c)
    <3>1. todo[r] = <<>>
      BY <2>2, <2>4
    <3>2. norm[r][k][s] = 1
      BY <1>2, <3>1 DEF NormOK
    <3>3. norm'[r] = norm[r]
      BY <1>3, <2>3, <2>4 DEF ClipNorm
    <3> QED
      BY <3>2, <3>3
  <2>5. CASE r \in Callers(c)
    <3>1. todo[r] \in Seq(Calls) /\ todo[r] # <<>> /\ Tail(todo[r]) = <<>> /\ c = Head(todo[r])
      BY <1>1, <2>2, <2>5 DEF Waiting, Current
    <3>2. Len(todo[r]) = 1
      <4>1. Len(Tail(todo[r])) = Len(todo[r]) - 1 /\ Len(todo[r]) \in Nat
        BY <3>1, HeadAndTail
      <4>2. Len(Tail(todo[r])) = 0
        <5>1. Len(<<>>) = 0
          OBVIOUS
        <5> QED
          BY <3>1, <5>1, Zenon
      <4> QED
        BY <4>1, <4>2
    <3>3. FromEnd(todo[r], 1) = c
      <4>1. FromEnd(todo[r], Len(todo[r])) = c
        BY <3>1, HeadAndTail
      <4> QED
        BY <3>2, <4>1
    <3>4. FromEnd(StepList(r), 1) = c
      <4>1. 1 \in 1 .. Len(todo[r])
        BY <3>2
      <4> QED
        BY <2>1, <3>3, <4>1 DEF Behind
    <3>5. c = Collective("norm", Own(r, "model"), Kinds \cap Kinds)
      BY <1>0, <3>4, NormComesLast
    <3>6. c.op = "norm" /\ c.over = Own(r, "model")
      BY <3>5 DEF Collective
    <3>7. norm'[r][k][s] =
            Cardinality({q \in ToSet(Own(r, "model")) : OwnsNorm(k, q) /\ Shard(k, q) = s})
      BY <1>3, <2>3, <2>5, <3>6 DEF ClipNorm
    <3> QED
      BY <1>0, <2>1, <3>7, ShardCounted
  <2> QED
    BY <2>4, <2>5
<1>4. NormOK(phase', todo', norm')
  <2>1. ASSUME NEW p \in Ranks, Waiting(p), NewGroup(Current(p)) PROVE NormOK(phase', todo', norm')
    <3>1. Current(p).op = "new" /\ phase' = phase
      BY <2>1 DEF NewGroup, Enter
    <3>2. phase = "setup"
      BY <2>1, <3>1, NewInSetup
    <3> QED
      BY <3>1, <3>2 DEF NormOK
  <2>2. ASSUME NEW p \in Ranks, Waiting(p), AllReduce(Current(p)) PROVE NormOK(phase', todo', norm')
    <3>1. Current(p).op \notin {"new", "norm"} /\ Enter(Current(p)) /\ norm' = norm
      BY <2>2 DEF AllReduce
    <3> QED
      BY <1>3, <2>2, <3>1
  <2>3. ASSUME NEW p \in Ranks, Waiting(p), SyncExperts(Current(p)) PROVE NormOK(phase', todo', norm')
    <3>1. Current(p).op \notin {"new", "norm"} /\ Enter(Current(p)) /\ norm' = norm
      BY <2>3 DEF SyncExperts
    <3> QED
      BY <1>3, <2>3, <3>1
  <2>4. ASSUME NEW p \in Ranks, Waiting(p), ClipNorm(Current(p)) PROVE NormOK(phase', todo', norm')
    <3>1. Current(p).op # "new" /\ Enter(Current(p))
      BY <2>4 DEF ClipNorm
    <3> QED
      BY <1>3, <2>4, <3>1
  <2>5. CASE StartStep
    <3> SUFFICES ASSUME ~ Zero, ModelSize(mesh) > 1, NEW r \in Ranks PROVE todo'[r] # <<>>
      BY DEF NormOK
    <3>1. todo'[r] = StepList(r)
      <4>1. HandlesOwn(handle) /\ SetupOK(handle, todo)
        BY <1>0, <2>5 DEF SyncOK, StartStep
      <4>2. HandlesAll(handle)
        <5>1. \A q \in Ranks : ToSet(todo[q]) = {}
          BY <2>5 DEF StartStep, Waiting, ToSet
        <5> QED
          BY <4>1, <5>1 DEF SetupOK, HandlesAll
      <4>3. todo'[r] = IF Zero THEN ZeroSync(r) ELSE FirstPartySync(r)
        BY <2>5 DEF StartStep
      <4> QED
        BY <1>0, <4>1, <4>2, <4>3, StepListIs
    <3>2. Len(StepList(r)) # 0
      BY <1>0, NormComesLast
    <3> QED
      BY <3>1, <3>2
  <2>6. CASE Stop
    BY <1>2, <2>6 DEF Stop, vars
  <2>7. CASE UNCHANGED vars
    BY <1>2, <2>7 DEF vars
  <2> QED
    BY <2>1, <2>2, <2>3, <2>4, <2>5, <2>6, <2>7 DEF Next
<1> QED
  BY <1>0, <1>4, NormNext

\* "Count every logical parameter shard exactly once across model parallelism."
THEOREM NormCountsOnceAlways == Spec => []NormCountsOnce
<1>1. Init => NormCountsOnce
  BY DEF Init, NormCountsOnce
<1> QED
  BY <1>1, NormStep, SyncAlways, PTL DEF Spec

-----------------------------------------------------------------------------
(* Sums of equal values.                                                   *)

\* What defines the sums of f over the subsets of S.
SumStep(f, S, g) ==
  g = [s \in SUBSET S |-> IF s = {} THEN 0
                          ELSE f[CHOOSE x \in s : TRUE] + g[s \ {CHOOSE x \in s : TRUE}]]

\* Only one function can be that, so it is what a sum over a set unfolds to.
LEMMA SumUnfolded ==
  ASSUME NEW f, NEW S, IsFiniteSet(S), NEW h, SumStep(f, S, h)
  PROVE  SumFunctionOnSet(f, S) = h[S]
<1>1. ASSUME NEW g, SumStep(f, S, g) PROVE g = h
  <2> DEFINE Differ == {T \in SUBSET S : g[T] # h[T]}
             Bad == {n \in 0 .. Cardinality(S) : \E T \in Differ : Cardinality(T) = n}
             e(T) == CHOOSE x \in T : TRUE
  <2>1. ASSUME NEW T \in SUBSET S
        PROVE  /\ g[T] = IF T = {} THEN 0 ELSE f[e(T)] + g[T \ {e(T)}]
               /\ h[T] = IF T = {} THEN 0 ELSE f[e(T)] + h[T \ {e(T)}]
    BY <1>1 DEF SumStep
  <2>2. \A T : T # {} => e(T) \in T
    OBVIOUS
  <2>3. Cardinality(S) \in Nat
    BY FS_CardinalityType
  <2>4. \A T \in SUBSET S : IsFiniteSet(T) /\ Cardinality(T) \in Nat /\ Cardinality(T) \in 0 .. Cardinality(S)
    <3> SUFFICES ASSUME NEW T \in SUBSET S
                 PROVE  IsFiniteSet(T) /\ Cardinality(T) \in Nat /\ Cardinality(T) \in 0 .. Cardinality(S)
      OBVIOUS
    <3>1. IsFiniteSet(T) /\ Cardinality(T) <= Cardinality(S)
      BY FS_Subset
    <3>2. Cardinality(T) \in Nat
      BY <3>1, FS_CardinalityType
    <3> QED
      BY <2>3, <3>1, <3>2
  <2> HIDE DEF e
  <2>5. Bad = {}
    <3> SUFFICES ASSUME Bad # {} PROVE FALSE
      OBVIOUS
    <3>1. Bad \in SUBSET Int /\ IsFiniteSet(Bad)
      <4> DEFINE I == 0 .. Cardinality(S)
      <4>1. IsFiniteSet(I) /\ I \in SUBSET Int
        BY <2>3, FS_Interval
      <4>2. Bad \in SUBSET I
        OBVIOUS
      <4> HIDE DEF I, Bad
      <4> QED
        BY <4>1, <4>2, FS_Subset
    <3>2. PICK n \in Bad : \A m \in Bad : n <= m
      <4> HIDE DEF Bad
      <4> QED
        BY <3>1, LeastOf
    <3>3. PICK T \in Differ : Cardinality(T) = n
      OBVIOUS
    <3> DEFINE U == T \ {e(T)}
    <3>4. T \in SUBSET S /\ g[T] # h[T]
      OBVIOUS
    <3>5. T # {} /\ e(T) \in T
      BY <2>1, <2>2, <3>4
    <3>6. g[T] = f[e(T)] + g[U] /\ h[T] = f[e(T)] + h[U]
      BY <2>1, <3>4, <3>5
    <3>7. U \in SUBSET S /\ Cardinality(U) = n - 1
      BY <2>4, <3>3, <3>4, <3>5, FS_RemoveElement
    <3>8. U \in Differ
      BY <3>4, <3>6, <3>7
    <3> HIDE DEF U, Differ
    <3>9. Cardinality(U) \in Bad
      BY <2>4, <3>7, <3>8
    <3>10. n <= n - 1
      BY <3>2, <3>7, <3>9
    <3> QED
      BY <2>3, <3>2, <3>10
  <2>6. \A T \in SUBSET S : g[T] = h[T]
    BY <2>4, <2>5
  <2>7. g = [T \in SUBSET S |-> g[T]] /\ h = [T \in SUBSET S |-> h[T]]
    BY <1>1 DEF SumStep
  <2> QED
    BY <2>6, <2>7
<1> DEFINE it == CHOOSE g : SumStep(f, S, g)
<1>2. SumStep(f, S, it)
  OBVIOUS
<1>3. SumFunctionOnSet(f, S) = it[S]
  BY DEF SumFunctionOnSet, FoldFunctionOnSet, MapThenFoldSet, SumStep
<1> HIDE DEF it
<1>4. it = h
  BY <1>1, <1>2
<1> QED
  BY <1>3, <1>4

\* A sum in which some terms have one value and the others are nothing.
LEMMA SumOfEqual ==
  ASSUME NEW S, IsFiniteSet(S), NEW M, M \in SUBSET S, NEW V, V \in Nat,
         NEW f, \A x \in S : f[x] = IF x \in M THEN V ELSE 0
  PROVE  SumFunctionOnSet(f, S) = V * Cardinality(M) /\ Cardinality(M) \in Nat
<1> DEFINE C(s) == Cardinality(s \cap M)
           h == [s \in SUBSET S |-> V * C(s)]
           e(s) == CHOOSE x \in s : TRUE
<1>1. ASSUME NEW s \in SUBSET S PROVE IsFiniteSet(s \cap M) /\ C(s) \in Nat
  BY FS_Subset, FS_CardinalityType
<1>2. ASSUME NEW s \in SUBSET S
      PROVE  V * C(s) = IF s = {} THEN 0 ELSE f[e(s)] + V * C(s \ {e(s)})
  <2>1. CASE s = {}
    <3>1. C(s) = 0
      BY <2>1, FS_EmptySet
    <3> QED
      BY <2>1, <3>1
  <2>2. CASE s # {}
    <3>1. e(s) \in s /\ e(s) \in S
      BY <2>2
    <3> HIDE DEF e
    <3>2. CASE e(s) \in M
      <4> DEFINE A == s \cap M
      <4>1. IsFiniteSet(A) /\ Cardinality(A) \in Nat /\ e(s) \in A /\ (s \ {e(s)}) \cap M = A \ {e(s)}
        BY <1>1, <3>1, <3>2
      <4> HIDE DEF A
      <4>2. Cardinality(A \ {e(s)}) = Cardinality(A) - 1
        BY <4>1, FS_RemoveElement
      <4>3. C(s) = Cardinality(A) /\ C(s \ {e(s)}) = Cardinality(A) - 1
        BY <4>1, <4>2 DEF A
      <4>4. V * Cardinality(A) = V + V * (Cardinality(A) - 1)
        BY <4>1
      <4>5. f[e(s)] = V
        BY <3>1, <3>2
      <4> HIDE DEF C
      <4> QED
        BY <2>2, <4>3, <4>4, <4>5
    <3>3. CASE e(s) \notin M
      <4>1. (s \ {e(s)}) \cap M = s \cap M
        BY <3>3
      <4>2. C(s \ {e(s)}) = C(s)
        BY <4>1
      <4>3. f[e(s)] = 0
        BY <3>1, <3>3
      <4>4. C(s) \in Nat
        BY <1>1
      <4> HIDE DEF C
      <4> QED
        BY <2>2, <4>2, <4>3, <4>4
    <3> QED
      BY <3>2, <3>3
  <2> QED
    BY <2>1, <2>2
<1>3. SumStep(f, S, h)
  <2>1. \A s \in SUBSET S : h[s] = V * C(s)
    OBVIOUS
  <2>2. \A s \in SUBSET S : s \ {e(s)} \in SUBSET S
    OBVIOUS
  <2>3. \A s \in SUBSET S :
          V * C(s) = IF s = {} THEN 0 ELSE f[e(s)] + h[s \ {e(s)}]
    <3> HIDE DEF C, h, e
    <3> QED
      BY <1>2, <2>1, <2>2
  <2>4. h = [s \in SUBSET S |-> IF s = {} THEN 0 ELSE f[e(s)] + h[s \ {e(s)}]]
    BY <2>3
  <2> QED
    BY <2>4 DEF SumStep
<1>4. h[S] = V * C(S) /\ S \cap M = M /\ C(S) \in Nat
  BY <1>1
<1> HIDE DEF h
<1>5. SumFunctionOnSet(f, S) = h[S]
  BY <1>3, SumUnfolded
<1> QED
  BY <1>4, <1>5

-----------------------------------------------------------------------------
(* Ranks that agree along axes of the mesh, of one pipeline stage.         *)

Axes == {"dp", "local", "tp", "ep"}

Same(X, c, f) ==
  /\ "dp" \in X => c.dp = f.dp
  /\ "local" \in X => c.local = f.local
  /\ "tp" \in X => c.tp = f.tp
  /\ "ep" \in X => c.ep = f.ep

\* The number of ranks along the axes of Z.
Many(Z) ==
  (IF "dp" \in Z THEN mesh.dp ELSE 1) * ((IF "local" \in Z THEN LocalSize(mesh) ELSE 1)
    * ((IF "tp" \in Z THEN mesh.tp ELSE 1) * (IF "ep" \in Z THEN mesh.ep ELSE 1)))

\* The ranks that differ from c at most along Y, and those of them that agree
\* with f along X.
Around(Y, c) == {q \in Ranks : Same(Axes \ Y, c, plan[q].at)}
Agreeing(X, Y, c, f) == {q \in Around(Y, c) : Same(X, plan[q].at, f)}

\* Of the ranks that differ from c at most along Y, those that agree with f
\* along X.
LEMMA CountSame ==
  ASSUME PlanMade, mesh.pp = 1, NEW c, c \in Box(mesh), NEW f, f \in Box(mesh),
         NEW X, X \in SUBSET Axes, NEW Y, Y \in SUBSET Axes
  PROVE  Cardinality(Agreeing(X, Y, c, f)) = IF Same(X \ Y, c, f) THEN Many(Y \ X) ELSE 0
<1> DEFINE S == {q \in Ranks : Same(Axes \ Y, c, plan[q].at) /\ Same(X, plan[q].at, f)}
           A == IF "dp" \in Y THEN IF "dp" \in X THEN {f.dp} ELSE 0 .. mesh.dp - 1 ELSE {c.dp}
           B == 0 .. 1 - 1
           C == IF "local" \in Y THEN IF "local" \in X THEN {f.local} ELSE 0 .. LocalSize(mesh) - 1
                ELSE {c.local}
           E == IF "tp" \in Y THEN IF "tp" \in X THEN {f.tp} ELSE 0 .. mesh.tp - 1 ELSE {c.tp}
           F == IF "ep" \in Y THEN IF "ep" \in X THEN {f.ep} ELSE 0 .. mesh.ep - 1 ELSE {c.ep}
           D == [dp : A, pp : B, local : C, tp : E, ep : F]
<1>0. S = Agreeing(X, Y, c, f)
  BY DEF Agreeing, Around
<1>1. /\ mesh.dp \in Nat \ {0} /\ mesh.tp \in Nat \ {0} /\ mesh.ep \in Nat \ {0}
      /\ LocalSize(mesh) \in Nat \ {0}
  BY PlanMadeFacts, MeshSizes
<1>2. ASSUME NEW d \in Box(mesh)
      PROVE  /\ d.dp \in 0 .. mesh.dp - 1 /\ d.pp \in B /\ d.local \in 0 .. LocalSize(mesh) - 1
             /\ d.tp \in 0 .. mesh.tp - 1 /\ d.ep \in 0 .. mesh.ep - 1
             /\ d = [dp |-> d.dp, pp |-> d.pp, local |-> d.local, tp |-> d.tp, ep |-> d.ep]
  BY DEF Box
<1>3. /\ A \in SUBSET (0 .. mesh.dp - 1) /\ C \in SUBSET (0 .. LocalSize(mesh) - 1)
      /\ E \in SUBSET (0 .. mesh.tp - 1) /\ F \in SUBSET (0 .. mesh.ep - 1)
  BY <1>2
<1>4. D \in SUBSET Box(mesh)
  <2> HIDE DEF A, C, E, F
  <2> QED
    BY <1>3 DEF Box
<1>5. /\ IsFiniteSet(A) /\ Cardinality(A) = IF "dp" \in Y \ X THEN mesh.dp ELSE 1
      /\ IsFiniteSet(B) /\ Cardinality(B) = 1
      /\ IsFiniteSet(C) /\ Cardinality(C) = IF "local" \in Y \ X THEN LocalSize(mesh) ELSE 1
      /\ IsFiniteSet(E) /\ Cardinality(E) = IF "tp" \in Y \ X THEN mesh.tp ELSE 1
      /\ IsFiniteSet(F) /\ Cardinality(F) = IF "ep" \in Y \ X THEN mesh.ep ELSE 1
  <2>1. /\ IsFiniteSet(0 .. mesh.dp - 1) /\ Cardinality(0 .. mesh.dp - 1) = mesh.dp
        /\ IsFiniteSet(0 .. 1 - 1) /\ Cardinality(0 .. 1 - 1) = 1
        /\ IsFiniteSet(0 .. LocalSize(mesh) - 1) /\ Cardinality(0 .. LocalSize(mesh) - 1) = LocalSize(mesh)
        /\ IsFiniteSet(0 .. mesh.tp - 1) /\ Cardinality(0 .. mesh.tp - 1) = mesh.tp
        /\ IsFiniteSet(0 .. mesh.ep - 1) /\ Cardinality(0 .. mesh.ep - 1) = mesh.ep
    <3>1. \A n : n \in Nat => IsFiniteSet(0 .. n - 1) /\ Cardinality(0 .. n - 1) = n
      BY Counts
    <3>2. 1 \in Nat
      OBVIOUS
    <3> QED
      BY <1>1, <3>1, <3>2
  <2>2. \A x : IsFiniteSet({x}) /\ Cardinality({x}) = 1
    BY FS_Singleton
  <2> QED
    BY <2>1, <2>2
<1>6. CASE ~ Same(X \ Y, c, f)
  <2>1. S = {}
    BY <1>6 DEF Same, Axes
  <2> HIDE DEF S
  <2>2. Cardinality(S) = 0
    BY <2>1, FS_EmptySet
  <2> QED
    BY <1>0, <1>6, <2>2
<1>7. CASE Same(X \ Y, c, f)
  <2>1. ASSUME NEW q \in Ranks PROVE q \in S <=> plan[q].at \in D
    <3> DEFINE d == plan[q].at
    <3>1. d \in Box(mesh)
      BY AtCoords
    <3>2. q \in S <=> Same(Axes \ Y, c, d) /\ Same(X, d, f)
      OBVIOUS
    <3>3. d \in D <=> d.dp \in A /\ d.local \in C /\ d.tp \in E /\ d.ep \in F
      <4> HIDE DEF A, B, C, E, F, d
      <4> QED
        BY <1>2, <3>1
    <3>4. /\ d.dp \in A <=> ("dp" \notin Y => c.dp = d.dp) /\ ("dp" \in X => d.dp = f.dp)
          /\ d.local \in C <=> ("local" \notin Y => c.local = d.local) /\ ("local" \in X => d.local = f.local)
          /\ d.tp \in E <=> ("tp" \notin Y => c.tp = d.tp) /\ ("tp" \in X => d.tp = f.tp)
          /\ d.ep \in F <=> ("ep" \notin Y => c.ep = d.ep) /\ ("ep" \in X => d.ep = f.ep)
      <4>1. /\ d.dp \in 0 .. mesh.dp - 1 /\ d.local \in 0 .. LocalSize(mesh) - 1
            /\ d.tp \in 0 .. mesh.tp - 1 /\ d.ep \in 0 .. mesh.ep - 1
        BY <1>2, <3>1
      <4>2. /\ "dp" \in X /\ "dp" \notin Y => c.dp = f.dp
            /\ "local" \in X /\ "local" \notin Y => c.local = f.local
            /\ "tp" \in X /\ "tp" \notin Y => c.tp = f.tp
            /\ "ep" \in X /\ "ep" \notin Y => c.ep = f.ep
        BY <1>7 DEF Same
      <4> HIDE DEF d
      <4> QED
        BY <4>1, <4>2
    <3> HIDE DEF A, C, E, F, D, S, d
    <3>5. Same(Axes \ Y, c, d)
            <=> /\ "dp" \notin Y => c.dp = d.dp
                /\ "local" \notin Y => c.local = d.local
                /\ "tp" \notin Y => c.tp = d.tp
                /\ "ep" \notin Y => c.ep = d.ep
      BY DEF Same, Axes
    <3>6. Same(X, d, f)
            <=> /\ "dp" \in X => d.dp = f.dp
                /\ "local" \in X => d.local = f.local
                /\ "tp" \in X => d.tp = f.tp
                /\ "ep" \in X => d.ep = f.ep
      BY DEF Same
    <3>7. q \in S <=> d \in D
      BY <3>2, <3>3, <3>4, <3>5, <3>6
    <3> QED
      BY <3>7 DEF d
  <2>2. S = {q \in Ranks : plan[q].at \in D}
    <3>1. S \in SUBSET Ranks
      OBVIOUS
    <3> HIDE DEF S, D
    <3> QED
      BY <2>1, <3>1
  <2> HIDE DEF S, A, B, C, E, F
  <2>3. Cardinality({q \in Ranks : plan[q].at \in D})
          = Cardinality(A) * (Cardinality(B) * (Cardinality(C) * (Cardinality(E) * Cardinality(F))))
    <3>1. IsFiniteSet(A) /\ IsFiniteSet(B) /\ IsFiniteSet(C) /\ IsFiniteSet(E) /\ IsFiniteSet(F)
      BY <1>5
    <3> QED
      BY <1>4, <3>1, BoxCount
  <2> DEFINE a == Cardinality(A)
             l == Cardinality(C)
             t == Cardinality(E)
             e == Cardinality(F)
  <2>4. a \in Nat /\ l \in Nat /\ t \in Nat /\ e \in Nat
    BY <1>5, FS_CardinalityType
  <2>5. Many(Y \ X) = a * (l * (t * e))
    BY <1>5 DEF Many
  <2>6. a * (1 * (l * (t * e))) = a * (l * (t * e))
    <3> HIDE DEF a, l, t, e
    <3> QED
      BY <2>4
  <2>7. Cardinality(S) = a * (l * (t * e))
    BY <1>5, <2>2, <2>3, <2>6
  <2> QED
    BY <1>0, <1>7, <2>5, <2>7
<1> QED
  BY <1>6, <1>7

\* Those of the ranks S that agree with f along X have V, the others nothing.
Valued(v, S, X, f, V) == \A q \in S : v[q] = IF Same(X, plan[q].at, f) THEN V ELSE 0

\* The sum over ranks that differ at most along Y, when those that agree with f
\* along X have V and the others nothing.
LEMMA SumSame ==
  ASSUME PlanMade, mesh.pp = 1, NEW c, c \in Box(mesh), NEW f, f \in Box(mesh),
         NEW X, X \in SUBSET Axes, NEW Y, Y \in SUBSET Axes, NEW V, V \in Nat,
         NEW v, Valued(v, Around(Y, c), X, f, V)
  PROVE  SumFunctionOnSet(v, Around(Y, c)) = IF Same(X \ Y, c, f) THEN V * Many(Y \ X) ELSE 0
<1> DEFINE G == Around(Y, c)
           M == Agreeing(X, Y, c, f)
<1>1. IsFiniteSet(G) /\ M \in SUBSET G
  BY PlanMadeFacts, WorldFinite DEF Around, Agreeing
<1>2. \A q \in G : v[q] = IF q \in M THEN V ELSE 0
  BY DEF Agreeing, Valued
<1>3. Cardinality(M) = IF Same(X \ Y, c, f) THEN Many(Y \ X) ELSE 0
  BY CountSame
<1> HIDE DEF M, G
<1>4. SumFunctionOnSet(v, G) = V * Cardinality(M)
  BY <1>1, <1>2, SumOfEqual
<1>5. V * 0 = 0
  OBVIOUS
<1> QED
  BY <1>3, <1>4, <1>5 DEF G

\* The axes along which the members of a group of kind a differ.
SpanOf(a) ==
  CASE a = "data" -> {"dp"}
    [] a = "tensor" -> {"tp"}
    [] a = "expert" -> {"ep"}
    [] a = "context_block" -> {"local"}
    [] a = "model" -> {"local", "tp", "ep"}
    [] a = "optimizer" -> {"dp", "local"}

\* A CP ring is the whole local axis when there is only one.
LEMMA RingIsAxis ==
  ASSUME PlanMade, OneRing(mesh), NEW l, l \in 0 .. LocalSize(mesh) - 1
  PROVE  RingLocals(mesh, l) = 0 .. LocalSize(mesh) - 1
<1>1. mesh.cp \in Nat \ {0} /\ mesh.bp \in Nat \ {0} /\ LocalSize(mesh) \in Nat \ {0}
  BY PlanMadeFacts, MeshSizes
<1>2. CASE mesh.cp = 1 \/ mesh.bp = 1
  BY <1>2 DEF RingLocals
<1>3. CASE ~ (mesh.cp = 1 \/ mesh.bp = 1)
  <2>1. LocalSize(mesh) = mesh.cp
    BY <1>1, <1>3 DEF OneRing, LocalSize
  <2>2. ASSUME NEW k, k \in 0 .. LocalSize(mesh) - 1 PROVE k \div mesh.cp = 0
    <3>1. k \in Nat /\ k < mesh.cp
      BY <1>1, <2>1, <2>2
    <3> QED
      BY <1>1, <3>1
  <2>3. RingLocals(mesh, l) = {k \in 0 .. LocalSize(mesh) - 1 : k \div mesh.cp = l \div mesh.cp}
    BY <1>3 DEF RingLocals
  <2> QED
    BY <2>2, <2>3
<1> QED
  BY <1>2, <1>3

\* A group is what differs along its axes.
LEMMA OwnAround ==
  ASSUME PlanMade, mesh.pp = 1, NEW r \in Ranks, NEW a \in SizedNames,
         a = "context_block" => OneRing(mesh)
  PROVE  ToSet(Own(r, a)) = Around(SpanOf(a), plan[r].at)
<1> DEFINE c == plan[r].at
<1>1. c \in Box(mesh) /\ \A q \in Ranks : plan[q].at \in Box(mesh)
  BY AtCoords
<1>2. a \in Names
  BY DEF SizedNames, Names, AttributeNames
<1>3. ToSet(Own(r, a)) = {q \in Ranks : Near(a, c, plan[q].at)}
  BY <1>2, OwnMembers
<1>4. ASSUME NEW d, d \in Box(mesh)
      PROVE  Near(a, c, d) <=> Same(Axes \ SpanOf(a), c, d)
  <2>1. c.pp = d.pp
    <3>1. c.pp \in 0 .. mesh.pp - 1 /\ d.pp \in 0 .. mesh.pp - 1
      BY <1>1, <1>4 DEF Box
    <3>2. c.pp \in 0 .. 0 /\ d.pp \in 0 .. 0
      BY <3>1
    <3> QED
      BY <3>2
  <2>2. c.local \in 0 .. LocalSize(mesh) - 1 /\ d.local \in 0 .. LocalSize(mesh) - 1
    BY <1>1, <1>4 DEF Box
  <2> HIDE DEF c
  <2>3. CASE a = "data"
    BY <2>1, <2>3 DEF Near, Alike, Same, SpanOf, Axes
  <2>4. CASE a = "tensor"
    BY <2>1, <2>4 DEF Near, Alike, Same, SpanOf, Axes
  <2>5. CASE a = "expert"
    BY <2>1, <2>5 DEF Near, Alike, Same, SpanOf, Axes
  <2>6. CASE a = "context_block"
    <3>1. d.local \in RingLocals(mesh, c.local)
      BY <2>2, <2>6, RingIsAxis
    <3> QED
      BY <2>1, <2>6, <3>1 DEF Near, Alike, Same, SpanOf, Axes
  <2>7. CASE a = "model"
    BY <2>1, <2>7 DEF Near, Alike, Same, SpanOf, Axes
  <2>8. CASE a = "optimizer"
    BY <2>1, <2>8 DEF Near, Same, SpanOf, Axes
  <2> QED
    BY <2>3, <2>4, <2>5, <2>6, <2>7, <2>8 DEF SizedNames
<1>5. \A q \in Ranks : Near(a, c, plan[q].at) <=> Same(Axes \ SpanOf(a), c, plan[q].at)
  BY <1>1, <1>4
<1> QED
  BY <1>3, <1>5 DEF Around

\* Everybody differs at most along all axes.
LEMMA EveryoneAround ==
  ASSUME PlanMade, NEW c
  PROVE  ToSet(Everyone) = Around(Axes, c)
BY EveryoneList DEF Around, Same, Axes

\* Dividing by one group after another is dividing by their product.
LEMMA DivideTwice ==
  ASSUME NEW a, a \in Nat, NEW b, b \in Nat \ {0}, NEW c, c \in Nat \ {0}
  PROVE  (a \div b) \div c = a \div (b * c)
<1>0. a = b * (a \div b) + (a % b) /\ a % b \in 0 .. b - 1 /\ a \div b \in Int
  BY Division
<1> DEFINE q == a \div b
           s == a % b
<1> HIDE DEF q, s
<1>1. a = b * q + s /\ s \in 0 .. b - 1 /\ q \in Int
  BY <1>0 DEF q, s
<1>2. q = c * (q \div c) + (q % c) /\ q % c \in 0 .. c - 1 /\ q \div c \in Int
  BY <1>1, Division
<1> DEFINE p == q \div c
           t == q % c
<1> HIDE DEF p, t
<1>3. q = c * p + t /\ t \in 0 .. c - 1 /\ p \in Int
  BY <1>2 DEF p, t
<1>4. t * b + s \in 0 .. c * b - 1
  BY <1>1, <1>3, TwoDigits
<1>5. a = p * (b * c) + (t * b + s)
  <2>1. b * (c * p + t) = p * (b * c) + t * b
    BY <1>3
  <2>2. t * b \in Int /\ p * (b * c) \in Int
    BY <1>3
  <2> QED
    BY <1>1, <1>3, <2>1, <2>2
<1>6. b * c \in Nat \ {0} /\ c * b = b * c
  BY ProductPositive
<1> DEFINE n == b * c
           u == t * b + s
<1>7. a = p * n + u /\ u \in 0 .. n - 1 /\ n \in Nat \ {0}
  BY <1>4, <1>5, <1>6
<1> HIDE DEF n, u
<1>8. a \div n = p
  BY <1>3, <1>7, QuotientUnique
<1> QED
  BY <1>8 DEF n, p, q

\* Summing c equal values and dividing by c as well changes nothing.
LEMMA DivideCommon ==
  ASSUME NEW a, a \in Nat, NEW b, b \in Nat \ {0}, NEW c, c \in Nat \ {0}
  PROVE  (a * c) \div (b * c) = a \div b
<1>0. a = b * (a \div b) + (a % b) /\ a % b \in 0 .. b - 1 /\ a \div b \in Int
  BY Division
<1> DEFINE q == a \div b
           s == a % b
<1> HIDE DEF q, s
<1>1. a = b * q + s /\ s \in 0 .. b - 1 /\ q \in Int
  BY <1>0 DEF q, s
<1>2. s * c + 0 \in 0 .. b * c - 1
  <2>1. 0 \in 0 .. c - 1
    OBVIOUS
  <2> QED
    BY <1>1, <2>1, TwoDigits
<1>3. a * c = q * (b * c) + (s * c + 0)
  <2>1. (b * q + s) * c = q * (b * c) + s * c
    BY <1>1
  <2>2. s * c \in Int
    BY <1>1
  <2> QED
    BY <1>1, <2>1, <2>2
<1>4. b * c \in Nat \ {0}
  BY ProductPositive
<1> DEFINE n == b * c
           x == a * c
           u == s * c + 0
<1>5. x = q * n + u /\ u \in 0 .. n - 1 /\ n \in Nat \ {0}
  BY <1>2, <1>3, <1>4
<1> HIDE DEF n, x, u
<1>6. x \div n = q
  BY <1>1, <1>5, QuotientUnique
<1> QED
  BY <1>6 DEF n, x, q

-----------------------------------------------------------------------------
(* The shape of the list of a step.                                        *)

\* How many collectives of each sort a list has: one or none.
NumExperts == IF mesh.ep > 1 THEN 1 ELSE 0
NumSum == IF sp THEN 1 ELSE 0
NumOptimizer == IF mesh.dp * LocalSize(mesh) > 1 THEN 1 ELSE 0
NumContext == IF LocalSize(mesh) > 1 THEN 1 ELSE 0
NumModel == IF mesh.tp > 1 THEN 1 ELSE 0
DataSize == IF backend = "torch_distributed_adamw" /\ mesh.dp = 1 THEN WorldSize(mesh) ELSE mesh.dp
NumData == IF DataSize > 1 THEN 1 ELSE 0
NumNorm == IF ModelSize(mesh) > 1 THEN 1 ELSE 0

\* What the local axis is reduced for together with a context group.
ContextKinds == IF mesh.tp > 1 THEN {"tensor"} ELSE {"dense", "norm", "tensor"}

\* A list has at most one collective of each sort.
LEMMA NumbersAre ==
  /\ NumExperts \in {0, 1} /\ NumSum \in {0, 1} /\ NumOptimizer \in {0, 1} /\ NumContext \in {0, 1}
  /\ NumModel \in {0, 1} /\ NumData \in {0, 1} /\ NumNorm \in {0, 1}
BY DEF NumExperts, NumSum, NumOptimizer, NumContext, NumModel, NumData, NumNorm

\* At most one collective.
LEMMA OneOver ==
  ASSUME PlanMade, NEW op \in {"mean", "sum", "experts", "norm"}, NEW g, g \in Seq(Ranks), NEW K,
         K \cap Kinds # {}
  PROVE  /\ Over(op, g, K) \in Seq(Calls)
         /\ Len(Over(op, g, K)) = IF Len(g) > 1 THEN 1 ELSE 0
         /\ \A i \in 1 .. Len(Over(op, g, K)) :
              FromEnd(Over(op, g, K), i) = Collective(op, g, K \cap Kinds)
<1> DEFINE s == Over(op, g, K)
           e == Collective(op, g, K \cap Kinds)
<1>1. s \in Seq(Calls)
  BY OverList
<1>2. CASE Len(g) > 1
  <2>1. s = <<e>>
    BY <1>2 DEF Over
  <2> HIDE DEF s, e
  <2>2. Len(s) = 1 /\ s[1] = e
    BY <2>1
  <2>3. ASSUME NEW i \in 1 .. Len(s) PROVE FromEnd(s, i) = e
    <3>1. i \in 1 .. 1
      BY <2>2, Zenon
    <3>2. i = 1 /\ Len(s) + 1 - i = 1
      BY <2>2, <3>1
    <3> QED
      BY <2>2, <3>2 DEF FromEnd
  <2> QED
    BY <1>1, <1>2, <2>2, <2>3 DEF s, e
<1>3. CASE ~ (Len(g) > 1)
  <2>1. s = <<>>
    BY <1>3 DEF Over
  <2> HIDE DEF s, e
  <2>2. Len(s) = 0
    BY <2>1
  <2>3. 1 .. Len(s) = {}
    BY <2>2
  <2> QED
    BY <1>1, <1>3, <2>2, <2>3 DEF s, e
<1> QED
  BY <1>2, <1>3

\* Lists one after the other, from the end.
LEMMA JoinShape ==
  ASSUME NEW s, s \in Seq(Calls), NEW t, t \in Seq(Calls)
  PROVE  /\ s \o t \in Seq(Calls) /\ Len(s \o t) = Len(s) + Len(t)
         /\ Len(s) \in Nat /\ Len(t) \in Nat
         /\ \A j \in 1 .. Len(s \o t) :
              /\ j <= Len(t) => FromEnd(s \o t, j) = FromEnd(t, j) /\ j \in 1 .. Len(t)
              /\ ~ (j <= Len(t)) => FromEnd(s \o t, j) = FromEnd(s, j - Len(t)) /\ j - Len(t) \in 1 .. Len(s)
<1>1. s \o t \in Seq(Calls) /\ Len(s \o t) = Len(s) + Len(t) /\ Len(s) \in Nat /\ Len(t) \in Nat
  OBVIOUS
<1> QED
  BY <1>1, FromEndOfJoin

\* The sum of sequence-parallel replicas.
LEMMA SumShape ==
  ASSUME PlanMade, NEW r \in Ranks
  PROVE  /\ SumList(r) \in Seq(Calls) /\ Len(SumList(r)) = NumSum
         /\ \A i \in 1 .. Len(SumList(r)) :
              FromEnd(SumList(r), i) = Collective("sum", Own(r, "tensor"), {"norm"} \cap Kinds)
<1>1. CASE sp
  <2>1. mesh.tp > 1 /\ {"norm"} \cap Kinds # {}
    BY <1>1, PlanMadeFacts DEF Kinds
  <2>2. Own(r, "tensor") \in Seq(Ranks) /\ Len(Own(r, "tensor")) = mesh.tp
    <3>1. "tensor" \in Names /\ "tensor" \in SizedNames /\ GroupSize("tensor") = mesh.tp
      BY DEF Names, AttributeNames, SizedNames, GroupSize
    <3> QED
      BY <3>1, OwnMembers, GroupSizes
  <2>3. SumList(r) = Over("sum", Own(r, "tensor"), {"norm"})
    BY <1>1 DEF SumList
  <2>4. Len(Own(r, "tensor")) > 1
    <3>1. mesh.tp \in Nat \ {0}
      BY PlanMadeFacts, MeshSizes
    <3> QED
      BY <2>1, <2>2, <3>1
  <2> DEFINE g == Own(r, "tensor")
  <2>5. g \in Seq(Ranks) /\ Len(g) > 1
    BY <2>2, <2>4
  <2> HIDE DEF g
  <2>6. /\ Over("sum", g, {"norm"}) \in Seq(Calls)
        /\ Len(Over("sum", g, {"norm"})) = 1
        /\ \A i \in 1 .. Len(Over("sum", g, {"norm"})) :
              FromEnd(Over("sum", g, {"norm"}), i) = Collective("sum", g, {"norm"} \cap Kinds)
    <3>1. "sum" \in {"mean", "sum", "experts", "norm"}
      OBVIOUS
    <3> QED
      BY <2>1, <2>5, <3>1, OneOver
  <2> QED
    BY <1>1, <2>3, <2>6 DEF NumSum, g
<1>2. CASE ~ sp
  <2>1. SumList(r) = <<>>
    BY <1>2 DEF SumList
  <2>2. Len(SumList(r)) = 0 /\ <<>> \in Seq(Calls)
    BY <2>1
  <2>3. 1 .. Len(SumList(r)) = {}
    BY <2>2
  <2> QED
    BY <1>2, <2>1, <2>2, <2>3 DEF NumSum
<1> QED
  BY <1>1, <1>2

\* DeepSpeed: optimizer group, sum, experts.
LEMMA ZeroShape ==
  ASSUME PlanMade, Zero, NEW r \in Ranks
  PROVE  /\ Len(StepList(r)) = NumOptimizer + NumSum + NumExperts
         /\ \A j \in 1 .. Len(StepList(r)) :
              /\ j <= NumExperts =>
                   FromEnd(StepList(r), j) = Collective("experts", Own(r, "expert"), Kinds \cap Kinds)
              /\ j > NumExperts /\ j <= NumExperts + NumSum =>
                   FromEnd(StepList(r), j) = Collective("sum", Own(r, "tensor"), {"norm"} \cap Kinds)
              /\ j > NumExperts + NumSum =>
                   FromEnd(StepList(r), j) = Collective("mean", Own(r, "optimizer"), Kinds \cap Kinds)
<1> DEFINE A == Over("mean", Own(r, "optimizer"), Kinds)
           S == SumList(r)
           X == Over("experts", Own(r, "expert"), Kinds)
           u == A \o S
           w == u \o X
           cA == Collective("mean", Own(r, "optimizer"), Kinds \cap Kinds)
           cS == Collective("sum", Own(r, "tensor"), {"norm"} \cap Kinds)
           cX == Collective("experts", Own(r, "expert"), Kinds \cap Kinds)
<1>1. Kinds \cap Kinds # {}
  BY DEF Kinds
<1>2. /\ Own(r, "optimizer") \in Seq(Ranks) /\ Len(Own(r, "optimizer")) = mesh.dp * LocalSize(mesh)
      /\ Own(r, "expert") \in Seq(Ranks) /\ Len(Own(r, "expert")) = mesh.ep
  <2>1. /\ "optimizer" \in Names /\ "optimizer" \in SizedNames
        /\ GroupSize("optimizer") = mesh.dp * LocalSize(mesh)
        /\ "expert" \in Names /\ "expert" \in SizedNames /\ GroupSize("expert") = mesh.ep
    BY DEF Names, AttributeNames, SizedNames, GroupSize
  <2> QED
    BY <2>1, OwnMembers, GroupSizes
<1>3. A \in Seq(Calls) /\ Len(A) = NumOptimizer /\ \A i \in 1 .. Len(A) : FromEnd(A, i) = cA
  BY <1>1, <1>2, OneOver DEF NumOptimizer
<1>4. X \in Seq(Calls) /\ Len(X) = NumExperts /\ \A i \in 1 .. Len(X) : FromEnd(X, i) = cX
  BY <1>1, <1>2, OneOver DEF NumExperts
<1>5. S \in Seq(Calls) /\ Len(S) = NumSum /\ \A i \in 1 .. Len(S) : FromEnd(S, i) = cS
  BY SumShape
<1>6. StepList(r) = w
  BY DEF StepList, ZeroList
<1> HIDE DEF A, S, X, cA, cS, cX
<1>7. /\ u \in Seq(Calls) /\ Len(u) = Len(A) + Len(S)
      /\ \A j \in 1 .. Len(u) : /\ j <= Len(S) => FromEnd(u, j) = FromEnd(S, j) /\ j \in 1 .. Len(S)
                                /\ ~ (j <= Len(S)) => FromEnd(u, j) = FromEnd(A, j - Len(S))
                                                      /\ j - Len(S) \in 1 .. Len(A)
  BY <1>3, <1>5, JoinShape
<1> HIDE DEF u
<1>8. /\ Len(w) = Len(u) + Len(X)
      /\ \A j \in 1 .. Len(w) : /\ j <= Len(X) => FromEnd(w, j) = FromEnd(X, j) /\ j \in 1 .. Len(X)
                                /\ ~ (j <= Len(X)) => FromEnd(w, j) = FromEnd(u, j - Len(X))
                                                      /\ j - Len(X) \in 1 .. Len(u)
  BY <1>4, <1>7, JoinShape
<1> HIDE DEF w
<1>9. NumOptimizer \in Nat /\ NumSum \in Nat /\ NumExperts \in Nat
  BY NumbersAre
<1>10. Len(w) = NumOptimizer + NumSum + NumExperts
  BY <1>3, <1>4, <1>5, <1>7, <1>8
<1>11. ASSUME NEW j \in 1 .. Len(w)
       PROVE  /\ j <= NumExperts => FromEnd(w, j) = cX
              /\ j > NumExperts /\ j <= NumExperts + NumSum => FromEnd(w, j) = cS
              /\ j > NumExperts + NumSum => FromEnd(w, j) = cA
  <2>0. j \in Nat
    OBVIOUS
  <2>1. j <= NumExperts => FromEnd(w, j) = cX
    BY <1>4, <1>8
  <2>2. ASSUME j > NumExperts
        PROVE  FromEnd(w, j) = FromEnd(u, j - NumExperts) /\ j - NumExperts \in 1 .. Len(u)
    <3>1. ~ (j <= NumExperts)
      BY <1>9, <2>0, <2>2
    <3> QED
      BY <1>4, <1>8, <3>1
  <2> DEFINE i == j - NumExperts
  <2>3. ASSUME j > NumExperts, j <= NumExperts + NumSum PROVE FromEnd(w, j) = cS
    <3>1. i <= NumSum /\ FromEnd(w, j) = FromEnd(u, i) /\ i \in 1 .. Len(u)
      BY <1>9, <2>0, <2>2, <2>3
    <3> HIDE DEF i
    <3> QED
      BY <1>5, <1>7, <3>1
  <2>4. ASSUME j > NumExperts + NumSum PROVE FromEnd(w, j) = cA
    <3>1. j > NumExperts /\ ~ (i <= NumSum)
      BY <1>9, <2>0, <2>4
    <3>2. FromEnd(w, j) = FromEnd(u, i) /\ i \in 1 .. Len(u)
      BY <2>2, <3>1
    <3> HIDE DEF i
    <3> QED
      BY <1>3, <1>5, <1>7, <3>1, <3>2
  <2> QED
    BY <2>1, <2>3, <2>4
<1> QED
  BY <1>6, <1>10, <1>11 DEF cA, cS, cX

\* A product of sizes is no smaller than either.
LEMMA ProductGrows ==
  ASSUME NEW a, a \in Nat \ {0}, NEW b, b \in Nat \ {0}
  PROVE  a * b >= a /\ a * b >= b
<1>1. a * b = a + a * (b - 1) /\ a * b = b + b * (a - 1)
  OBVIOUS
<1>2. a * (b - 1) >= 0 /\ b * (a - 1) >= 0
  OBVIOUS
<1> QED
  BY <1>1, <1>2

\* The sync of a model replica: the context group, then all of the replica for
\* what is replicated over TP.
LEMMA ModelShape ==
  ASSUME PlanMade, OneRing(mesh), NEW r \in Ranks
  PROVE  /\ ModelList(r) \in Seq(Calls) /\ Len(ModelList(r)) = NumContext + NumModel
         /\ \A j \in 1 .. Len(ModelList(r)) :
              /\ j <= NumModel =>
                   FromEnd(ModelList(r), j) = Collective("mean", Own(r, "model"), {"dense", "norm"} \cap Kinds)
              /\ j > NumModel =>
                   FromEnd(ModelList(r), j)
                     = Collective("mean", Own(r, "context_block"), ContextKinds \cap Kinds)
<1> DEFINE g == Own(r, "context_block")
           h == Own(r, "model")
           cC == Collective("mean", g, ContextKinds \cap Kinds)
           cM == Collective("mean", h, {"dense", "norm"} \cap Kinds)
           A == Over("mean", g, ContextKinds)
           M == Over("mean", h, {"dense", "norm"})
           w == A \o M
<1>1. /\ mesh.tp \in Nat \ {0} /\ LocalSize(mesh) \in Nat \ {0} /\ ModelSize(mesh) \in Nat \ {0}
      /\ PerPipeline(mesh) \in Nat \ {0} /\ PerLocal(mesh) \in Nat \ {0}
      /\ mesh.ep \in Nat \ {0} /\ mesh.pp \in Nat \ {0} /\ mesh.cp \in Nat \ {0} /\ mesh.bp \in Nat \ {0}
  BY PlanMadeFacts, MeshSizes
<1>2. ContextKinds \cap Kinds # {} /\ {"dense", "norm"} \cap Kinds # {}
  BY DEF ContextKinds, Kinds
<1>3. g \in Seq(Ranks) /\ Len(g) = LocalSize(mesh) /\ h \in Seq(Ranks) /\ Len(h) = ModelSize(mesh)
  <2>1. /\ "context_block" \in Names /\ "context_block" \in SizedNames
        /\ GroupSize("context_block") = IF mesh.cp > 1 THEN mesh.cp ELSE LocalSize(mesh)
        /\ "model" \in Names /\ "model" \in SizedNames /\ GroupSize("model") = ModelSize(mesh)
    BY DEF Names, AttributeNames, SizedNames, GroupSize
  <2>2. mesh.cp > 1 => mesh.cp = LocalSize(mesh)
    BY <1>1 DEF OneRing, LocalSize
  <2> QED
    BY <2>1, <2>2, OwnMembers, GroupSizes
<1>4. A \in Seq(Calls) /\ Len(A) = NumContext /\ \A i \in 1 .. Len(A) : FromEnd(A, i) = cC
  <2> HIDE DEF g, h
  <2>1. "mean" \in {"mean", "sum", "experts", "norm"}
    OBVIOUS
  <2> QED
    BY <1>2, <1>3, <2>1, OneOver DEF NumContext
<1>5. CASE mesh.tp > 1
  <2>1. ModelSize(mesh) > 1
    <3>1. mesh.tp * mesh.ep > 1
      <4>1. mesh.ep = 1 \/ mesh.ep > 1
        BY <1>1
      <4>2. CASE mesh.ep = 1
        BY <1>1, <1>5, <4>2
      <4>3. CASE mesh.ep > 1
        <5>1. mesh.tp * mesh.ep >= mesh.tp
          BY <1>1, <4>3, ProductGrows
        <5> QED
          BY <1>1, <1>5, <5>1
      <4> QED
        BY <4>1, <4>2, <4>3
    <3>2. PerPipeline(mesh) >= PerLocal(mesh)
      BY <1>1, ProductGrows DEF PerPipeline
    <3>3. ModelSize(mesh) >= PerPipeline(mesh)
      BY <1>1, ProductGrows DEF ModelSize
    <3> QED
      BY <1>1, <3>1, <3>2, <3>3 DEF PerLocal
  <2>2. M \in Seq(Calls) /\ Len(M) = NumModel /\ \A i \in 1 .. Len(M) : FromEnd(M, i) = cM
    <3> HIDE DEF g, h
    <3>1. "mean" \in {"mean", "sum", "experts", "norm"}
      OBVIOUS
    <3> QED
      BY <1>2, <1>3, <1>5, <2>1, <3>1, OneOver DEF NumModel
  <2>3. ModelList(r) = w
    BY <1>5 DEF ModelList, ContextKinds
  <2> HIDE DEF A, M, cC, cM
  <2>4. /\ w \in Seq(Calls) /\ Len(w) = Len(A) + Len(M)
        /\ \A j \in 1 .. Len(w) : /\ j <= Len(M) => FromEnd(w, j) = FromEnd(M, j) /\ j \in 1 .. Len(M)
                                  /\ ~ (j <= Len(M)) => FromEnd(w, j) = FromEnd(A, j - Len(M))
                                                        /\ j - Len(M) \in 1 .. Len(A)
    BY <1>4, <2>2, JoinShape
  <2> HIDE DEF w
  <2>5. ASSUME NEW j \in 1 .. Len(w)
        PROVE  (j <= NumModel => FromEnd(w, j) = cM) /\ (j > NumModel => FromEnd(w, j) = cC)
    <3>1. j \in Nat /\ NumModel \in Nat
      BY NumbersAre
    <3>2. j > NumModel => ~ (j <= Len(M))
      BY <2>2, <3>1
    <3> QED
      BY <1>4, <2>2, <2>4, <3>2
  <2>6. Len(w) = NumContext + NumModel
    BY <1>4, <2>2, <2>4
  <2> QED
    BY <2>3, <2>4, <2>5, <2>6 DEF cC, cM
<1>6. CASE ~ (mesh.tp > 1)
  <2>1. ModelList(r) = A
    BY <1>6 DEF ModelList, ContextKinds
  <2>2. NumModel = 0
    BY <1>6 DEF NumModel
  <2> HIDE DEF A, cC, cM
  <2>3. NumContext + NumModel = NumContext
    BY <2>2, NumbersAre
  <2>4. ASSUME NEW j \in 1 .. Len(A) PROVE ~ (j <= NumModel)
    BY <2>2
  <2> QED
    BY <1>4, <2>1, <2>3, <2>4 DEF cC, cM
<1> QED
  BY <1>5, <1>6

\* The mean over the data group, or over everybody.
LEMMA DataShape ==
  ASSUME PlanMade, NEW r \in Ranks
  PROVE  /\ Over("mean", DataGroup(r), Kinds) \in Seq(Calls)
         /\ Len(Over("mean", DataGroup(r), Kinds)) = NumData
         /\ DataGroup(r) \in Seq(Ranks) /\ Len(DataGroup(r)) = DataSize
         /\ \A j \in 1 .. Len(Over("mean", DataGroup(r), Kinds)) :
              FromEnd(Over("mean", DataGroup(r), Kinds), j)
                = Collective("mean", DataGroup(r), Kinds \cap Kinds)
<1> DEFINE g == DataGroup(r)
<1>1. Kinds \cap Kinds # {}
  BY DEF Kinds
<1>2. g \in Seq(Ranks) /\ Len(g) = DataSize
  <2>1. "data" \in Names /\ "data" \in SizedNames /\ GroupSize("data") = mesh.dp
    BY DEF Names, AttributeNames, SizedNames, GroupSize
  <2>2. Own(r, "data") \in Seq(Ranks) /\ Len(Own(r, "data")) = mesh.dp
    BY <2>1, OwnMembers, GroupSizes
  <2> QED
    BY <2>2, EveryoneList DEF DataGroup, DataSize
<1> HIDE DEF g
<1>3. "mean" \in {"mean", "sum", "experts", "norm"}
  OBVIOUS
<1>4. /\ Over("mean", g, Kinds) \in Seq(Calls)
      /\ Len(Over("mean", g, Kinds)) = NumData
      /\ \A j \in 1 .. Len(Over("mean", g, Kinds)) :
            FromEnd(Over("mean", g, Kinds), j) = Collective("mean", g, Kinds \cap Kinds)
  BY <1>1, <1>2, <1>3, OneOver DEF NumData
<1> QED
  BY <1>2, <1>4 DEF g

\* The norm, over the model replica.
LEMMA NormShape ==
  ASSUME PlanMade, NEW r \in Ranks
  PROVE  /\ Over("norm", Own(r, "model"), Kinds) \in Seq(Calls)
         /\ Len(Over("norm", Own(r, "model"), Kinds)) = NumNorm
         /\ \A j \in 1 .. Len(Over("norm", Own(r, "model"), Kinds)) :
              FromEnd(Over("norm", Own(r, "model"), Kinds), j)
                = Collective("norm", Own(r, "model"), Kinds \cap Kinds)
<1> DEFINE g == Own(r, "model")
<1>1. Kinds \cap Kinds # {}
  BY DEF Kinds
<1>2. g \in Seq(Ranks) /\ Len(g) = ModelSize(mesh)
  <2>1. "model" \in Names /\ "model" \in SizedNames /\ GroupSize("model") = ModelSize(mesh)
    BY DEF Names, AttributeNames, SizedNames, GroupSize
  <2> QED
    BY <2>1, OwnMembers, GroupSizes
<1> HIDE DEF g
<1>3. "norm" \in {"mean", "sum", "experts", "norm"}
  OBVIOUS
<1>4. /\ Over("norm", g, Kinds) \in Seq(Calls)
      /\ Len(Over("norm", g, Kinds)) = NumNorm
      /\ \A j \in 1 .. Len(Over("norm", g, Kinds)) :
            FromEnd(Over("norm", g, Kinds), j) = Collective("norm", g, Kinds \cap Kinds)
  BY <1>1, <1>2, <1>3, OneOver DEF NumNorm
<1> QED
  BY <1>4 DEF g

\* A first-party optimizer: sum, context group, replica, data group, norm.
LEMMA FirstPartyShape ==
  ASSUME PlanMade, ~ Zero, OneRing(mesh), NEW r \in Ranks
  PROVE  /\ Len(StepList(r)) = NumSum + NumContext + NumModel + NumData + NumNorm
         /\ \A j \in 1 .. Len(StepList(r)) :
              /\ j <= NumNorm =>
                   FromEnd(StepList(r), j) = Collective("norm", Own(r, "model"), Kinds \cap Kinds)
              /\ j > NumNorm /\ j <= NumData + NumNorm =>
                   FromEnd(StepList(r), j) = Collective("mean", DataGroup(r), Kinds \cap Kinds)
              /\ j > NumData + NumNorm /\ j <= NumModel + NumData + NumNorm =>
                   FromEnd(StepList(r), j)
                     = Collective("mean", Own(r, "model"), {"dense", "norm"} \cap Kinds)
              /\ j > NumModel + NumData + NumNorm /\ j <= NumContext + NumModel + NumData + NumNorm =>
                   FromEnd(StepList(r), j)
                     = Collective("mean", Own(r, "context_block"), ContextKinds \cap Kinds)
              /\ j > NumContext + NumModel + NumData + NumNorm =>
                   FromEnd(StepList(r), j) = Collective("sum", Own(r, "tensor"), {"norm"} \cap Kinds)
<1> DEFINE S == SumList(r)
           M == ModelList(r)
           D == Over("mean", DataGroup(r), Kinds)
           N == Over("norm", Own(r, "model"), Kinds)
           u == S \o M
           v == u \o D
           w == v \o N
           cS == Collective("sum", Own(r, "tensor"), {"norm"} \cap Kinds)
           cC == Collective("mean", Own(r, "context_block"), ContextKinds \cap Kinds)
           cM == Collective("mean", Own(r, "model"), {"dense", "norm"} \cap Kinds)
           cD == Collective("mean", DataGroup(r), Kinds \cap Kinds)
           cN == Collective("norm", Own(r, "model"), Kinds \cap Kinds)
<1>1. S \in Seq(Calls) /\ Len(S) = NumSum /\ \A i \in 1 .. Len(S) : FromEnd(S, i) = cS
  BY SumShape
<1>2. /\ M \in Seq(Calls) /\ Len(M) = NumContext + NumModel
      /\ \A i \in 1 .. Len(M) : (i <= NumModel => FromEnd(M, i) = cM)
                                /\ (i > NumModel => FromEnd(M, i) = cC)
  BY ModelShape
<1>3. D \in Seq(Calls) /\ Len(D) = NumData /\ \A i \in 1 .. Len(D) : FromEnd(D, i) = cD
  BY DataShape
<1>4. N \in Seq(Calls) /\ Len(N) = NumNorm /\ \A i \in 1 .. Len(N) : FromEnd(N, i) = cN
  BY NormShape
<1>5. StepList(r) = w
  BY DEF StepList, FirstPartyList
<1> HIDE DEF S, M, D, N, cS, cC, cM, cD, cN
<1>6. /\ u \in Seq(Calls) /\ Len(u) = Len(S) + Len(M)
      /\ \A j \in 1 .. Len(u) : /\ j <= Len(M) => FromEnd(u, j) = FromEnd(M, j) /\ j \in 1 .. Len(M)
                                /\ ~ (j <= Len(M)) => FromEnd(u, j) = FromEnd(S, j - Len(M))
                                                      /\ j - Len(M) \in 1 .. Len(S)
  BY <1>1, <1>2, JoinShape
<1> HIDE DEF u
<1>7. /\ v \in Seq(Calls) /\ Len(v) = Len(u) + Len(D)
      /\ \A j \in 1 .. Len(v) : /\ j <= Len(D) => FromEnd(v, j) = FromEnd(D, j) /\ j \in 1 .. Len(D)
                                /\ ~ (j <= Len(D)) => FromEnd(v, j) = FromEnd(u, j - Len(D))
                                                      /\ j - Len(D) \in 1 .. Len(u)
  BY <1>3, <1>6, JoinShape
<1> HIDE DEF v
<1>8. /\ w \in Seq(Calls) /\ Len(w) = Len(v) + Len(N)
      /\ \A j \in 1 .. Len(w) : /\ j <= Len(N) => FromEnd(w, j) = FromEnd(N, j) /\ j \in 1 .. Len(N)
                                /\ ~ (j <= Len(N)) => FromEnd(w, j) = FromEnd(v, j - Len(N))
                                                      /\ j - Len(N) \in 1 .. Len(v)
  BY <1>4, <1>7, JoinShape
<1> HIDE DEF w
<1>9. NumSum \in Nat /\ NumContext \in Nat /\ NumModel \in Nat /\ NumData \in Nat /\ NumNorm \in Nat
  BY NumbersAre
<1>10. Len(w) = NumSum + NumContext + NumModel + NumData + NumNorm
  BY <1>1, <1>2, <1>3, <1>4, <1>6, <1>7, <1>8, <1>9
<1>11. ASSUME NEW j \in 1 .. Len(w)
       PROVE  /\ j <= NumNorm => FromEnd(w, j) = cN
              /\ j > NumNorm /\ j <= NumData + NumNorm => FromEnd(w, j) = cD
              /\ j > NumData + NumNorm /\ j <= NumModel + NumData + NumNorm => FromEnd(w, j) = cM
              /\ j > NumModel + NumData + NumNorm /\ j <= NumContext + NumModel + NumData + NumNorm =>
                   FromEnd(w, j) = cC
              /\ j > NumContext + NumModel + NumData + NumNorm => FromEnd(w, j) = cS
  <2>0. j \in Nat
    OBVIOUS
  <2>1. j <= NumNorm => FromEnd(w, j) = cN
    BY <1>4, <1>8
  <2>2. ASSUME j > NumNorm
        PROVE  /\ j <= NumData + NumNorm => FromEnd(w, j) = cD
               /\ j > NumData + NumNorm /\ j <= NumModel + NumData + NumNorm => FromEnd(w, j) = cM
               /\ j > NumModel + NumData + NumNorm /\ j <= NumContext + NumModel + NumData + NumNorm =>
                    FromEnd(w, j) = cC
               /\ j > NumContext + NumModel + NumData + NumNorm => FromEnd(w, j) = cS
    <3> DEFINE i == j - NumNorm
    <3>1. FromEnd(w, j) = FromEnd(v, i) /\ i \in 1 .. Len(v)
      <4>1. ~ (j <= Len(N))
        BY <1>4, <1>9, <2>0, <2>2
      <4> QED
        BY <1>4, <1>8, <4>1
    <3>2. i <= NumData => FromEnd(w, j) = cD
      <4> HIDE DEF i
      <4> QED
        BY <1>3, <1>7, <3>1
    <3>3. ASSUME i > NumData
          PROVE  /\ i <= NumModel + NumData => FromEnd(w, j) = cM
                 /\ i > NumModel + NumData /\ i <= NumContext + NumModel + NumData => FromEnd(w, j) = cC
                 /\ i > NumContext + NumModel + NumData => FromEnd(w, j) = cS
      <4> HIDE DEF i
      <4>0. i \in Nat
        BY <3>1
      <4> DEFINE h == i - NumData
      <4>1. FromEnd(v, i) = FromEnd(u, h) /\ h \in 1 .. Len(u)
        <5>1. ~ (i <= Len(D))
          BY <1>3, <1>9, <3>3, <4>0
        <5> QED
          BY <1>3, <1>7, <3>1, <5>1
      <4>2. ASSUME h <= NumModel PROVE FromEnd(w, j) = cM
        <5> HIDE DEF h
        <5>1. h \in Nat
          BY <4>1
        <5>2. h <= Len(M)
          BY <1>2, <1>9, <4>2, <5>1
        <5> QED
          BY <1>2, <1>6, <3>1, <4>1, <4>2, <5>2
      <4>3. ASSUME h > NumModel, h <= NumContext + NumModel PROVE FromEnd(w, j) = cC
        <5> HIDE DEF h
        <5> QED
          BY <1>2, <1>6, <3>1, <4>1, <4>3
      <4>4. ASSUME h > NumContext + NumModel PROVE FromEnd(w, j) = cS
        <5> HIDE DEF h
        <5>1. ~ (h <= Len(M))
          BY <1>2, <1>9, <4>1, <4>4
        <5> QED
          BY <1>1, <1>6, <3>1, <4>1, <5>1
      <4>5. /\ i <= NumModel + NumData => h <= NumModel
            /\ i > NumModel + NumData => h > NumModel
            /\ i <= NumContext + NumModel + NumData => h <= NumContext + NumModel
            /\ i > NumContext + NumModel + NumData => h > NumContext + NumModel
        BY <1>9, <4>0
      <4> HIDE DEF h
      <4> QED
        BY <4>2, <4>3, <4>4, <4>5
    <3>4. /\ j <= NumData + NumNorm => i <= NumData
          /\ j > NumData + NumNorm => i > NumData
          /\ j <= NumModel + NumData + NumNorm => i <= NumModel + NumData
          /\ j > NumModel + NumData + NumNorm => i > NumModel + NumData
          /\ j <= NumContext + NumModel + NumData + NumNorm => i <= NumContext + NumModel + NumData
          /\ j > NumContext + NumModel + NumData + NumNorm => i > NumContext + NumModel + NumData
          /\ j > NumModel + NumData + NumNorm => i > NumData
          /\ j > NumContext + NumModel + NumData + NumNorm => i > NumData
      BY <1>9, <2>0
    <3> HIDE DEF i
    <3> QED
      BY <3>2, <3>3, <3>4
  <2>3. /\ j > NumData + NumNorm => j > NumNorm
        /\ j > NumModel + NumData + NumNorm => j > NumNorm
        /\ j > NumContext + NumModel + NumData + NumNorm => j > NumNorm
    BY <1>9, <2>0
  <2> QED
    BY <2>1, <2>2, <2>3
<1> QED
  BY <1>5, <1>10, <1>11 DEF cS, cC, cM, cD, cN

-----------------------------------------------------------------------------
(* The gradient a rank holds when it still has j collectives to go.        *)

\* What a first-party optimizer needs of the mesh: its groups cover it.  The
\* context group is the whole local axis, there are no experts, and the world
\* in place of a data group has no tensor-parallel shards in it.
MeshCovered(m, b) ==
  b # "deepspeed_zero2" =>
    OneRing(m) /\ m.ep = 1 /\ (b = "torch_distributed_adamw" => m.dp > 1 \/ m.tp = 1)

Covered == MeshCovered(mesh, backend)

\* How much of the list is left after the sum, after the reduction along the
\* local axis, and after the one over data replicas.
AfterSum == IF Zero THEN NumExperts ELSE NumContext + NumModel + NumData + NumNorm
AfterLocal(k) ==
  IF Zero THEN NumSum + NumExperts
  ELSE IF k = "tensor" THEN NumModel + NumData + NumNorm ELSE NumData + NumNorm
AfterDp == IF Zero THEN NumSum + NumExperts ELSE NumNorm

\* The axes along which ranks still hold different gradients for kind k.
Pend(k, j) ==
  {x \in Axes :
     \/ x = "dp" /\ mesh.dp > 1 /\ j > AfterDp
     \/ x = "local" /\ LocalSize(mesh) > 1 /\ j > AfterLocal(k)
     \/ x = "tp" /\ (k = "tensor" \/ (k = "norm" /\ j > AfterSum))
     \/ x = "ep" /\ (k = "expert" \/ (mesh.ep > 1 /\ j > 0))}

\* The axes it has been averaged along, and what it has been divided by.
Spread(k, j) ==
  {x \in Axes : \/ x \in {"dp", "local"} /\ x \notin Pend(k, j)
                \/ x = "ep" /\ mesh.ep > 1 /\ j = 0}
Divisor(k, j) == Many(Spread(k, j))

Weight(k, j) == Unit \div Divisor(k, j)

\* A reduction along the axes of Y that divides by d does the step from j to
\* j - 1 for kind k; or nothing has to be done.
Reduces(k, j, Y, d) ==
  /\ Pend(k, j - 1) = Pend(k, j) \ Y
  /\ Weight(k, j - 1) = (Weight(k, j) * Many(Y \ Pend(k, j))) \div d
Keeps(k, j) == Pend(k, j - 1) = Pend(k, j) /\ Weight(k, j - 1) = Weight(k, j)

\* The sizes a weight is divided by.
LEMMA Sizes ==
  ASSUME PlanMade
  PROVE  /\ mesh.dp \in Nat \ {0} /\ mesh.tp \in Nat \ {0} /\ mesh.ep \in Nat \ {0}
         /\ LocalSize(mesh) \in Nat \ {0} /\ Unit \in Nat
         /\ Zero => NumExperts \in {0, 1}
<1>1. WorldSize(mesh) \in Nat \ {0}
  BY PlanMadeFacts, MeshSizes
<1>2. Unit \in Nat
  <2>1. WorldSize(mesh) * WorldSize(mesh) \in Nat
    BY <1>1
  <2> QED
    BY <1>1, <2>1 DEF Unit
<1> QED
  BY <1>2, PlanMadeFacts, MeshSizes, NumbersAre

\* Along the axes of two sets.
LEMMA ManyIs ==
  ASSUME PlanMade, NEW A, NEW B
  PROVE  /\ Many(A) \in Nat \ {0} /\ Many(B) \in Nat \ {0}
         /\ A \cap B = {} => Many(A \union B) = Many(A) * Many(B)
         /\ Many({}) = 1
<1> DEFINE n(x, S, d) == IF x \in S THEN d ELSE 1
           M(S) == n("dp", S, mesh.dp) * (n("local", S, LocalSize(mesh))
                     * (n("tp", S, mesh.tp) * n("ep", S, mesh.ep)))
<1>0. /\ mesh.dp \in Nat \ {0} /\ mesh.tp \in Nat \ {0} /\ mesh.ep \in Nat \ {0}
      /\ LocalSize(mesh) \in Nat \ {0}
  BY Sizes
<1>1. \A S : Many(S) = M(S)
  BY DEF Many
<1>2. ASSUME NEW a, NEW b, NEW c, NEW d, a \in Nat \ {0}, b \in Nat \ {0}, c \in Nat \ {0}, d \in Nat \ {0}
      PROVE  a * (b * (c * d)) \in Nat \ {0}
  <2>1. c * d \in Nat \ {0}
    BY <1>2, ProductPositive
  <2>2. b * (c * d) \in Nat \ {0}
    BY <1>2, <2>1, ProductPositive
  <2> QED
    BY <1>2, <2>2, ProductPositive
<1>3. ASSUME NEW S PROVE M(S) \in Nat \ {0}
  <2>1. /\ n("dp", S, mesh.dp) \in Nat \ {0} /\ n("local", S, LocalSize(mesh)) \in Nat \ {0}
        /\ n("tp", S, mesh.tp) \in Nat \ {0} /\ n("ep", S, mesh.ep) \in Nat \ {0}
    BY <1>0
  <2> HIDE DEF n
  <2> QED
    BY <1>2, <2>1
<1>4. ASSUME A \cap B = {} PROVE M(A \union B) = M(A) * M(B)
  <2>1. ASSUME NEW x, NEW d, d \in Nat \ {0}
        PROVE  /\ n(x, A \union B, d) = n(x, A, d) * n(x, B, d)
               /\ n(x, A, d) \in Nat /\ n(x, B, d) \in Nat
    <3>1. CASE x \in A
      BY <1>4, <2>1, <3>1
    <3>2. CASE x \in B
      BY <1>4, <2>1, <3>2
    <3>3. CASE x \notin A /\ x \notin B
      BY <2>1, <3>3
    <3> QED
      BY <3>1, <3>2, <3>3
  <2> HIDE DEF n
  <2> DEFINE a1 == n("dp", A, mesh.dp)
             a2 == n("local", A, LocalSize(mesh))
             a3 == n("tp", A, mesh.tp)
             a4 == n("ep", A, mesh.ep)
             b1 == n("dp", B, mesh.dp)
             b2 == n("local", B, LocalSize(mesh))
             b3 == n("tp", B, mesh.tp)
             b4 == n("ep", B, mesh.ep)
  <2>2. /\ a1 \in Nat /\ a2 \in Nat /\ a3 \in Nat /\ a4 \in Nat
        /\ b1 \in Nat /\ b2 \in Nat /\ b3 \in Nat /\ b4 \in Nat
    BY <1>0, <2>1
  <2>3. M(A \union B) = (a1 * b1) * ((a2 * b2) * ((a3 * b3) * (a4 * b4)))
    BY <1>0, <2>1
  <2> HIDE DEF a1, a2, a3, a4, b1, b2, b3, b4
  <2>4. (a1 * b1) * ((a2 * b2) * ((a3 * b3) * (a4 * b4)))
          = (a1 * (a2 * (a3 * a4))) * (b1 * (b2 * (b3 * b4)))
    BY <2>2
  <2> QED
    BY <2>3, <2>4 DEF a1, a2, a3, a4, b1, b2, b3, b4
<1>5. M({}) = 1
  OBVIOUS
<1> HIDE DEF M
<1> QED
  BY <1>1, <1>3, <1>4, <1>5

\* Divisors and weights are numbers.
LEMMA WeightNumbers ==
  ASSUME PlanMade, NEW k, NEW j
  PROVE  Divisor(k, j) \in Nat \ {0} /\ Weight(k, j) \in Nat
<1> DEFINE d == Divisor(k, j)
<1>1. d \in Nat \ {0}
  BY ManyIs DEF Divisor
<1>2. Weight(k, j) = Unit \div d
  BY DEF Weight
<1>3. Unit \in Nat
  BY Sizes
<1> HIDE DEF d
<1>4. Unit \div d \in Nat
  BY <1>1, <1>3
<1> QED
  BY <1>1, <1>2, <1>4 DEF d

\* A sum of m equal values divided by e * m divides by e.
LEMMA DividedAgain ==
  \A u \in Nat : \A n, e, m \in Nat \ {0} : ((u \div n) * m) \div (e * m) = u \div (n * e)
<1> SUFFICES ASSUME NEW u \in Nat, NEW n \in Nat \ {0}, NEW e \in Nat \ {0}, NEW m \in Nat \ {0}
             PROVE  ((u \div n) * m) \div (e * m) = u \div (n * e)
  OBVIOUS
<1> DEFINE w == u \div n
<1>1. w \in Nat
  OBVIOUS
<1>2. w \div e = u \div (n * e)
  BY DivideTwice
<1> HIDE DEF w
<1>3. (w * m) \div (e * m) = w \div e
  BY <1>1, DivideCommon
<1> QED
  BY <1>2, <1>3 DEF w

\* A reduction that leaves the axes of Y behind and divides by what it should.
LEMMA ReducesBy ==
  ASSUME PlanMade, NEW k, NEW j, NEW Y, NEW e, e \in Nat \ {0}, NEW d,
         Pend(k, j - 1) = Pend(k, j) \ Y, Divisor(k, j - 1) = Divisor(k, j) * e,
         Many(Y \ Pend(k, j)) \in Nat \ {0}, d = e * Many(Y \ Pend(k, j))
  PROVE  Reduces(k, j, Y, d)
<1>1. Divisor(k, j) \in Nat \ {0} /\ Unit \in Nat
  BY WeightNumbers, Sizes
<1> DEFINE N == Divisor(k, j)
           m == Many(Y \ Pend(k, j))
           w == Weight(k, j)
<1>2. N \in Nat \ {0} /\ m \in Nat \ {0} /\ w = Unit \div N /\ d = e * m
  BY <1>1 DEF Weight
<1>3. Weight(k, j - 1) = Unit \div (N * e)
  BY DEF Weight
<1> HIDE DEF N, m, w
<1>4. ((Unit \div N) * m) \div (e * m) = Unit \div (N * e)
  BY <1>1, <1>2, DividedAgain
<1>5. Weight(k, j - 1) = (w * m) \div d
  BY <1>2, <1>3, <1>4
<1> QED
  BY <1>5 DEF Reduces, m, w

\* With the same axes and the same divisor nothing changes.
LEMMA KeepsBy ==
  ASSUME NEW k, NEW j, Pend(k, j - 1) = Pend(k, j), Divisor(k, j - 1) = Divisor(k, j)
  PROVE  Keeps(k, j)
BY DEF Keeps, Weight

\* Which axes are pending.
LEMMA PendIs ==
  ASSUME NEW k, NEW j
  PROVE  /\ "dp" \in Pend(k, j) <=> mesh.dp > 1 /\ j > AfterDp
         /\ "local" \in Pend(k, j) <=> LocalSize(mesh) > 1 /\ j > AfterLocal(k)
         /\ "tp" \in Pend(k, j) <=> k = "tensor" \/ (k = "norm" /\ j > AfterSum)
         /\ "ep" \in Pend(k, j) <=> k = "expert" \/ (mesh.ep > 1 /\ j > 0)
         /\ Pend(k, j) \in SUBSET Axes
BY DEF Pend, Axes

\* The axes that are left are told one by one.
LEMMA PendWithout ==
  ASSUME NEW k, NEW j, NEW i, NEW Y,
         "dp" \in Pend(k, i) <=> "dp" \in Pend(k, j) /\ "dp" \notin Y,
         "local" \in Pend(k, i) <=> "local" \in Pend(k, j) /\ "local" \notin Y,
         "tp" \in Pend(k, i) <=> "tp" \in Pend(k, j) /\ "tp" \notin Y,
         "ep" \in Pend(k, i) <=> "ep" \in Pend(k, j) /\ "ep" \notin Y
  PROVE  Pend(k, i) = Pend(k, j) \ Y
<1>1. Pend(k, i) \in SUBSET {"dp", "local", "tp", "ep"} /\ Pend(k, j) \in SUBSET {"dp", "local", "tp", "ep"}
  BY PendIs DEF Axes
<1> QED
  BY <1>1

\* Which kinds there are.
LEMMA KindsAre ==
  ASSUME PlanMade, NEW k, k \in Kinds
  PROVE  /\ k \in {"dense", "norm", "tensor", "expert"}
         /\ k = "norm" => NumSum = 1 /\ mesh.tp > 1
         /\ k = "tensor" => mesh.tp > 1
         /\ k = "expert" => mesh.ep > 1
         /\ Kinds \cap Kinds = Kinds
BY PlanMadeFacts DEF Kinds, NumSum

\* A mean along axes of which none is sharded.
LEMMA MeanReduces ==
  ASSUME PlanMade, NEW k, NEW j, j \in Nat \ {0}, NEW Y, Y \in SUBSET Axes,
         Pend(k, j - 1) = Pend(k, j) \ Y, "tp" \notin Y \cap Pend(k, j),
         "ep" \in Y \cap Pend(k, j) <=> mesh.ep > 1 /\ j = 1
  PROVE  Reduces(k, j, Y, Many(Y))
<1> DEFINE X == Pend(k, j)
           i == j - 1
<1>1. i = 0 <=> j = 1
  OBVIOUS
<1>2. i = 0 => j # 0
  OBVIOUS
<1>3. j # 0
  OBVIOUS
<1>4. Pend(k, i) = X \ Y /\ X \in SUBSET Axes
  BY PendIs
<1> HIDE DEF i
<1>5. Spread(k, i) = Spread(k, j) \union (Y \cap X)
  BY <1>1, <1>3, <1>4 DEF Spread, Axes
<1>6. Spread(k, j) \cap (Y \cap X) = {}
  BY <1>3 DEF Spread, Axes
<1>7. Divisor(k, i) = Divisor(k, j) * Many(Y \cap X)
  BY <1>5, <1>6, ManyIs DEF Divisor
<1>8. Y = (Y \cap X) \union (Y \ X) /\ (Y \cap X) \cap (Y \ X) = {}
  OBVIOUS
<1> DEFINE A == Y \cap X
           B == Y \ X
<1>9. Many(Y) = Many(A) * Many(B) /\ Many(A) \in Nat \ {0} /\ Many(B) \in Nat \ {0}
  <2>1. Y = A \union B /\ A \cap B = {}
    OBVIOUS
  <2> HIDE DEF A, B
  <2>2. Many(A \union B) = Many(A) * Many(B) /\ Many(A) \in Nat \ {0} /\ Many(B) \in Nat \ {0}
    BY <2>1, ManyIs
  <2> QED
    BY <2>1, <2>2
<1>10. Divisor(k, j - 1) = Divisor(k, j) * Many(A)
  BY <1>7 DEF i
<1> QED
  BY <1>9, <1>10, ReducesBy

\* While the axes stay, so does the weight.
LEMMA KeepsSame ==
  ASSUME NEW k, NEW j, j \in Nat \ {0}, mesh.ep > 1 => j # 1, Pend(k, j - 1) = Pend(k, j)
  PROVE  Keeps(k, j)
<1> DEFINE i == j - 1
<1>1. (mesh.ep > 1 => i # 0) /\ j # 0
  OBVIOUS
<1>2. Pend(k, i) = Pend(k, j)
  OBVIOUS
<1> HIDE DEF i
<1>3. Spread(k, i) = Spread(k, j)
  BY <1>1, <1>2 DEF Spread
<1>4. Divisor(k, i) = Divisor(k, j)
  BY <1>3 DEF Divisor
<1> QED
  BY <1>4, KeepsBy DEF i

\* What is needed along an axis is in the list.
LEMMA ListHasIt ==
  ASSUME PlanMade
  PROVE  /\ NumExperts \in {0, 1} /\ NumSum \in {0, 1} /\ NumOptimizer \in {0, 1}
         /\ NumContext \in {0, 1} /\ NumModel \in {0, 1} /\ NumData \in {0, 1} /\ NumNorm \in {0, 1}
         /\ mesh.ep > 1 <=> NumExperts = 1
         /\ LocalSize(mesh) > 1 => NumContext = 1 /\ NumOptimizer = 1
         /\ mesh.dp > 1 => NumData = 1 /\ NumOptimizer = 1
         /\ mesh.tp > 1 <=> NumModel = 1
<1>1. mesh.dp \in Nat \ {0} /\ LocalSize(mesh) \in Nat \ {0}
  BY Sizes
<1>2. ASSUME LocalSize(mesh) > 1 \/ mesh.dp > 1 PROVE NumOptimizer = 1
  <2> DEFINE d == mesh.dp
             l == LocalSize(mesh)
  <2>1. d * l >= d /\ d * l >= l /\ d * l \in Nat
    <3> HIDE DEF d, l
    <3>1. d \in Nat \ {0} /\ l \in Nat \ {0}
      BY <1>1 DEF d, l
    <3>2. d * l \in Nat \ {0}
      BY <3>1, ProductPositive
    <3> QED
      BY <3>1, <3>2, ProductGrows
  <2>2. d * l > 1
    <3>1. l > 1 \/ d > 1
      BY <1>2
    <3> HIDE DEF d, l
    <3>2. d \in Nat /\ l \in Nat
      BY <1>1 DEF d, l
    <3> DEFINE p == d * l
    <3>3. p \in Nat /\ p >= d /\ p >= l
      BY <2>1
    <3> HIDE DEF p
    <3>4. p > 1
      BY <3>1, <3>2, <3>3
    <3> QED
      BY <3>4 DEF p
  <2> QED
    BY <2>2 DEF NumOptimizer
<1>3. mesh.dp > 1 => NumData = 1
  BY <1>1 DEF NumData, DataSize
<1> QED
  BY <1>2, <1>3, NumbersAre DEF NumExperts, NumContext, NumModel

\* DeepSpeed: the mean over the optimizer group.
LEMMA ZeroMean ==
  ASSUME PlanMade, Zero, NEW k, k \in Kinds, NEW j, j = 1 + NumSum + NumExperts
  PROVE  Reduces(k, j, {"dp", "local"}, Many({"dp", "local"}))
<1> DEFINE Y == {"dp", "local"}
<1>1. /\ NumSum \in {0, 1} /\ NumExperts \in {0, 1} /\ (mesh.ep > 1 => NumExperts = 1)
      /\ k = "norm" => NumSum = 1
  BY ListHasIt, KindsAre
<1>2. /\ AfterDp = NumSum + NumExperts /\ AfterLocal(k) = NumSum + NumExperts /\ AfterSum = NumExperts
  BY DEF AfterDp, AfterLocal, AfterSum
<1>3. /\ ~ (j - 1 > AfterDp) /\ ~ (j - 1 > AfterLocal(k)) /\ j \in Nat \ {0}
      /\ k = "norm" => j > AfterSum /\ j - 1 > AfterSum
      /\ mesh.ep > 1 => j > 0 /\ j - 1 > 0 /\ j # 1
  BY <1>1, <1>2
<1>4. Pend(k, j - 1) = Pend(k, j) \ Y
  <2> DEFINE i == j - 1
  <2>1. /\ "dp" \in Pend(k, i) <=> "dp" \in Pend(k, j) /\ "dp" \notin Y
        /\ "local" \in Pend(k, i) <=> "local" \in Pend(k, j) /\ "local" \notin Y
        /\ "tp" \in Pend(k, i) <=> "tp" \in Pend(k, j) /\ "tp" \notin Y
        /\ "ep" \in Pend(k, i) <=> "ep" \in Pend(k, j) /\ "ep" \notin Y
    BY <1>1, <1>3, PendIs
  <2> HIDE DEF i, Y
  <2>2. Pend(k, i) = Pend(k, j) \ Y
    BY <2>1, PendWithout
  <2> QED
    BY <2>2 DEF i
<1>5. Y \in SUBSET Axes /\ "tp" \notin Y \cap Pend(k, j) /\ "ep" \notin Y
  BY DEF Axes
<1> HIDE DEF Y
<1>6. Reduces(k, j, Y, Many(Y))
  BY <1>3, <1>4, <1>5, MeanReduces
<1> QED
  BY <1>6 DEF Y

\* DeepSpeed: the mean over the expert group, which is for experts a division.
LEMMA ZeroExperts ==
  ASSUME PlanMade, Zero, NEW k, k \in Kinds, NumExperts = 1
  PROVE  /\ k # "expert" => Reduces(k, 1, {"ep"}, Many({"ep"}))
         /\ k = "expert" => Pend(k, 0) = Pend(k, 1) /\ Weight(k, 0) = Weight(k, 1) \div mesh.ep
         /\ Many({"ep"}) = mesh.ep
<1>0. Many({"ep"}) = mesh.ep
  <2>1. Many({"ep"}) = 1 * (1 * (1 * mesh.ep))
    BY DEF Many
  <2> QED
    BY <2>1, Sizes
<1>1. NumSum \in {0, 1} /\ mesh.ep > 1 /\ 1 - 1 = 0 /\ 1 \in Nat \ {0}
  BY ListHasIt
<1>2. /\ AfterDp = NumSum + 1 /\ AfterLocal(k) = NumSum + 1 /\ AfterSum = 1
  BY DEF AfterDp, AfterLocal, AfterSum
<1>3. /\ ~ (1 > AfterDp) /\ ~ (0 > AfterDp) /\ ~ (1 > AfterLocal(k)) /\ ~ (0 > AfterLocal(k))
      /\ ~ (1 > AfterSum) /\ ~ (0 > AfterSum) /\ 1 > 0 /\ ~ (0 > 0)
  BY <1>1, <1>2
<1>4. CASE k # "expert"
  <2> DEFINE Y == {"ep"}
  <2>1. Pend(k, 1 - 1) = Pend(k, 1) \ Y
    <3> DEFINE i == 1 - 1
    <3>1. /\ "dp" \in Pend(k, i) <=> "dp" \in Pend(k, 1) /\ "dp" \notin Y
          /\ "local" \in Pend(k, i) <=> "local" \in Pend(k, 1) /\ "local" \notin Y
          /\ "tp" \in Pend(k, i) <=> "tp" \in Pend(k, 1) /\ "tp" \notin Y
          /\ "ep" \in Pend(k, i) <=> "ep" \in Pend(k, 1) /\ "ep" \notin Y
      BY <1>1, <1>3, <1>4, PendIs
    <3> HIDE DEF i, Y
    <3>2. Pend(k, i) = Pend(k, 1) \ Y
      BY <3>1, PendWithout
    <3> QED
      BY <3>2 DEF i
  <2>2. Y \in SUBSET Axes /\ "tp" \notin Y \cap Pend(k, 1) /\ "ep" \in Y \cap Pend(k, 1)
    BY <1>1, <1>3, PendIs DEF Axes
  <2> HIDE DEF Y
  <2>3. Reduces(k, 1, Y, Many(Y))
    BY <1>1, <2>1, <2>2, MeanReduces
  <2> QED
    BY <1>0, <1>4, <2>3 DEF Y
<1>5. CASE k = "expert"
  <2> DEFINE Y == {}
  <2>1. Pend(k, 1 - 1) = Pend(k, 1) \ Y
    <3> DEFINE i == 1 - 1
    <3>1. /\ "dp" \in Pend(k, i) <=> "dp" \in Pend(k, 1) /\ "dp" \notin Y
          /\ "local" \in Pend(k, i) <=> "local" \in Pend(k, 1) /\ "local" \notin Y
          /\ "tp" \in Pend(k, i) <=> "tp" \in Pend(k, 1) /\ "tp" \notin Y
          /\ "ep" \in Pend(k, i) <=> "ep" \in Pend(k, 1) /\ "ep" \notin Y
      BY <1>1, <1>3, <1>5, PendIs
    <3> HIDE DEF i, Y
    <3>2. Pend(k, i) = Pend(k, 1) \ Y
      BY <3>1, PendWithout
    <3> QED
      BY <3>2 DEF i
  <2>2. Pend(k, 0) = Pend(k, 1)
    BY <1>1, <2>1
  <2>3. Spread(k, 0) = Spread(k, 1) \union {"ep"} /\ Spread(k, 1) \cap {"ep"} = {}
    BY <1>1, <2>2 DEF Spread, Axes
  <2>4. Divisor(k, 0) = Divisor(k, 1) * mesh.ep
    BY <1>0, <2>3, ManyIs DEF Divisor
  <2>5. Divisor(k, 1) \in Nat \ {0} /\ mesh.ep \in Nat \ {0} /\ Unit \in Nat
    BY Sizes, WeightNumbers
  <2> DEFINE n == Divisor(k, 1)
             e == mesh.ep
             u == Unit
  <2>6. Weight(k, 1) = u \div n /\ Weight(k, 0) = u \div (n * e)
    BY <2>4 DEF Weight
  <2>7. n \in Nat \ {0} /\ e \in Nat \ {0} /\ u \in Nat
    BY <2>5
  <2> HIDE DEF n, e, u
  <2>8. (u \div n) \div e = u \div (n * e)
    BY <2>7, DivideTwice
  <2>9. Weight(k, 0) = Weight(k, 1) \div e
    BY <2>6, <2>8
  <2> QED
    BY <1>0, <1>5, <2>2, <2>9 DEF e
<1> QED
  BY <1>4, <1>5

\* The sum of the rows of a sequence-parallel replica.
LEMMA RowsSummed ==
  ASSUME PlanMade, Covered, NEW k, k \in Kinds, NEW j, j = 1 + AfterSum, NumSum = 1
  PROVE  /\ k = "norm" => Reduces(k, j, {"tp"}, 1)
         /\ k # "norm" => Keeps(k, j)
<1>1. /\ NumExperts \in {0, 1} /\ NumContext \in {0, 1} /\ NumModel \in {0, 1} /\ NumData \in {0, 1}
      /\ NumNorm \in {0, 1} /\ (mesh.ep > 1 <=> NumExperts = 1)
      /\ LocalSize(mesh) > 1 => NumContext = 1
      /\ mesh.dp > 1 => NumData = 1
      /\ ~ Zero => mesh.ep = 1
  BY ListHasIt DEF Covered, MeshCovered, Zero
<1>2. /\ j \in Nat \ {0} /\ j > AfterSum /\ ~ (j - 1 > AfterSum)
      /\ mesh.ep > 1 => Zero /\ j > 0 /\ j - 1 > 0 /\ j # 1
  BY <1>1 DEF AfterSum
<1>3. mesh.dp > 1 => (j > AfterDp <=> j - 1 > AfterDp)
  BY <1>1 DEF AfterDp, AfterSum
<1>4. LocalSize(mesh) > 1 => (j > AfterLocal(k) <=> j - 1 > AfterLocal(k))
  BY <1>1 DEF AfterLocal, AfterSum
<1> DEFINE i == j - 1
           X == Pend(k, j)
<1>5. /\ "dp" \in Pend(k, i) <=> "dp" \in X
      /\ "local" \in Pend(k, i) <=> "local" \in X
      /\ "ep" \in Pend(k, i) <=> "ep" \in X
      /\ "tp" \in X <=> k \in {"norm", "tensor"}
      /\ "tp" \in Pend(k, i) <=> k = "tensor"
  BY <1>2, <1>3, <1>4, PendIs
<1>6. Pend(k, i) \in SUBSET {"dp", "local", "tp", "ep"} /\ X \in SUBSET {"dp", "local", "tp", "ep"}
  BY PendIs DEF Axes
<1>7. (mesh.ep > 1 => i # 0) /\ j # 0
  BY <1>2
<1>8. CASE k # "norm"
  <2>1. Pend(k, j - 1) = Pend(k, j)
    <3> HIDE DEF i, X
    <3>1. "tp" \in Pend(k, i) <=> "tp" \in X
      BY <1>5, <1>8
    <3>2. \A x : x \in Pend(k, i) <=> x \in X
      BY <1>5, <1>6, <3>1
    <3>3. Pend(k, i) = X
      BY <3>2
    <3> QED
      BY <3>3 DEF i, X
  <2> QED
    BY <1>2, <1>8, <2>1, KeepsSame
<1>9. CASE k = "norm"
  <2> DEFINE Y == {"tp"}
  <2> HIDE DEF i, X
  <2>1. Pend(k, i) = X \ Y /\ Y \ X = {}
    <3>1. "tp" \in X /\ "tp" \notin Pend(k, i)
      BY <1>5, <1>9
    <3> QED
      BY <1>5, <1>6, <3>1
  <2>2. Many(Y \ X) = 1
    BY <2>1, ManyIs
  <2>3. Spread(k, i) = Spread(k, j)
    <3>1. "dp" \in Pend(k, i) <=> "dp" \in Pend(k, j)
      BY <1>5 DEF X
    <3>2. "local" \in Pend(k, i) <=> "local" \in Pend(k, j)
      BY <1>5 DEF X
    <3> QED
      BY <1>7, <3>1, <3>2 DEF Spread
  <2>4. Divisor(k, i) = Divisor(k, j) * 1
    <3>1. Divisor(k, i) = Divisor(k, j)
      BY <2>3 DEF Divisor
    <3>2. Divisor(k, j) \in Nat
      BY WeightNumbers
    <3> QED
      BY <3>1, <3>2
  <2>5. 1 = 1 * Many(Y \ X) /\ Many(Y \ X) \in Nat \ {0} /\ 1 \in Nat \ {0}
    BY <2>2
  <2> HIDE DEF Y
  <2>6. Reduces(k, j, Y, 1)
    BY <2>1, <2>4, <2>5, ReducesBy DEF i, X
  <2> QED
    BY <1>9, <2>6 DEF Y
<1> QED
  BY <1>8, <1>9

\* What is known of the list of a first-party optimizer.
LEMMA FirstPartyFacts ==
  ASSUME PlanMade, Covered, ~ Zero, NEW k, k \in Kinds
  PROVE  /\ NumContext \in {0, 1} /\ NumModel \in {0, 1} /\ NumData \in {0, 1} /\ NumNorm \in {0, 1}
         /\ mesh.ep = 1 /\ ~ (mesh.ep > 1) /\ k \in {"dense", "norm", "tensor"}
         /\ LocalSize(mesh) > 1 => NumContext = 1
         /\ mesh.dp > 1 => NumData = 1
         /\ k = "tensor" => NumModel = 1 /\ AfterLocal(k) = NumModel + NumData + NumNorm
         /\ k # "tensor" => AfterLocal(k) = NumData + NumNorm
         /\ k = "norm" => NumModel = 1
         /\ AfterDp = NumNorm /\ AfterSum = NumContext + NumModel + NumData + NumNorm
<1>1. mesh.ep = 1 /\ ~ (mesh.ep > 1)
  <2>1. mesh.ep = 1
    BY DEF Covered, MeshCovered, Zero
  <2>2. ~ (1 > 1)
    OBVIOUS
  <2> QED
    BY <2>1, <2>2, Zenon
<1>2. k \in {"dense", "norm", "tensor"}
  BY <1>1, KindsAre
<1>3. k \in {"norm", "tensor"} => NumModel = 1
  BY KindsAre DEF NumModel
<1> QED
  BY <1>1, <1>2, <1>3, ListHasIt DEF AfterLocal, AfterDp, AfterSum

\* First-party: the mean over the context group.
LEMMA ContextMean ==
  ASSUME PlanMade, Covered, ~ Zero, NEW k, k \in Kinds,
         NEW j, j = 1 + NumModel + NumData + NumNorm, NumContext = 1
  PROVE  /\ k \in ContextKinds => Reduces(k, j, {"local"}, Many({"local"}))
         /\ k \notin ContextKinds => Keeps(k, j)
<1> DEFINE i == j - 1
           X == Pend(k, j)
           Y == {"local"}
<1>1. /\ NumModel \in {0, 1} /\ NumData \in {0, 1} /\ NumNorm \in {0, 1}
      /\ ~ (mesh.ep > 1) /\ k \in {"dense", "norm", "tensor"}
      /\ mesh.dp > 1 => NumData = 1
      /\ k = "tensor" => NumModel = 1 /\ AfterLocal(k) = NumModel + NumData + NumNorm
      /\ k # "tensor" => AfterLocal(k) = NumData + NumNorm
      /\ AfterDp = NumNorm /\ AfterSum = 1 + NumModel + NumData + NumNorm
  BY FirstPartyFacts
<1>2. /\ k \in ContextKinds => k = "tensor" \/ NumModel = 0
      /\ k \notin ContextKinds => k # "tensor" /\ NumModel = 1
  BY <1>1 DEF ContextKinds, NumModel
<1>3. /\ j \in Nat \ {0} /\ ~ (j > AfterSum) /\ ~ (i > AfterSum)
      /\ mesh.dp > 1 => j > AfterDp /\ i > AfterDp
      /\ k \in ContextKinds => ~ (i > AfterLocal(k))
      /\ k \notin ContextKinds => j > AfterLocal(k) /\ i > AfterLocal(k)
  BY <1>1, <1>2
<1>4. /\ "dp" \in Pend(k, i) <=> "dp" \in X
      /\ "tp" \in Pend(k, i) <=> "tp" \in X
      /\ "ep" \in Pend(k, i) <=> "ep" \in X
      /\ k \in ContextKinds => "local" \notin Pend(k, i)
      /\ k \notin ContextKinds => ("local" \in Pend(k, i) <=> "local" \in X)
      /\ "ep" \notin X
  BY <1>1, <1>3, PendIs
<1>5. Pend(k, i) \in SUBSET {"dp", "local", "tp", "ep"} /\ X \in SUBSET {"dp", "local", "tp", "ep"}
  BY PendIs DEF Axes
<1>6. CASE k \in ContextKinds
  <2> HIDE DEF i
  <2>1. /\ "dp" \in Pend(k, i) <=> "dp" \in X /\ "dp" \notin Y
        /\ "local" \in Pend(k, i) <=> "local" \in X /\ "local" \notin Y
        /\ "tp" \in Pend(k, i) <=> "tp" \in X /\ "tp" \notin Y
        /\ "ep" \in Pend(k, i) <=> "ep" \in X /\ "ep" \notin Y
    BY <1>4, <1>6
  <2>2. Y \in SUBSET Axes /\ "tp" \notin Y \cap Pend(k, j) /\ "ep" \notin Y
    BY DEF Axes
  <2> HIDE DEF Y, X
  <2>3. Pend(k, j - 1) = Pend(k, j) \ Y
    <3>1. \A x : x \in Pend(k, i) <=> x \in X \ Y
      BY <1>5, <2>1
    <3>2. Pend(k, i) = X \ Y
      BY <3>1
    <3> QED
      BY <3>2 DEF i, X
  <2>4. Reduces(k, j, Y, Many(Y))
    BY <1>1, <1>3, <2>2, <2>3, MeanReduces
  <2> QED
    BY <1>6, <2>4 DEF Y
<1>7. CASE k \notin ContextKinds
  <2> HIDE DEF i, X
  <2>1. \A x : x \in Pend(k, i) <=> x \in X
    BY <1>4, <1>5, <1>7
  <2>2. Pend(k, i) = X
    BY <2>1
  <2> QED
    BY <1>1, <1>3, <1>7, <2>2, KeepsSame DEF i, X
<1> QED
  BY <1>6, <1>7

\* First-party: the mean over the model replica.
LEMMA ModelMean ==
  ASSUME PlanMade, Covered, ~ Zero, NEW k, k \in Kinds,
         NEW j, j = 1 + NumData + NumNorm, NumModel = 1
  PROVE  /\ k \in {"dense", "norm"} => Reduces(k, j, {"local", "tp", "ep"}, Many({"local", "tp", "ep"}))
         /\ k \notin {"dense", "norm"} => Keeps(k, j)
<1> DEFINE i == j - 1
           X == Pend(k, j)
           Y == {"local", "tp", "ep"}
<1>1. /\ NumContext \in {0, 1} /\ NumData \in {0, 1} /\ NumNorm \in {0, 1}
      /\ ~ (mesh.ep > 1) /\ k \in {"dense", "norm", "tensor"}
      /\ mesh.dp > 1 => NumData = 1
      /\ k = "tensor" => AfterLocal(k) = 1 + NumData + NumNorm
      /\ k # "tensor" => AfterLocal(k) = NumData + NumNorm
      /\ AfterDp = NumNorm /\ AfterSum = NumContext + 1 + NumData + NumNorm
  BY FirstPartyFacts
<1>3. /\ j \in Nat \ {0} /\ ~ (j > AfterSum) /\ ~ (i > AfterSum)
      /\ mesh.dp > 1 => j > AfterDp /\ i > AfterDp
      /\ ~ (i > AfterLocal(k))
      /\ k = "tensor" => ~ (j > AfterLocal(k))
  BY <1>1
<1>4. /\ "dp" \in Pend(k, i) <=> "dp" \in X
      /\ "tp" \in Pend(k, i) <=> k = "tensor"
      /\ "tp" \in X <=> k = "tensor"
      /\ "local" \notin Pend(k, i)
      /\ k = "tensor" => "local" \notin X
      /\ "ep" \notin Pend(k, i) /\ "ep" \notin X
  BY <1>1, <1>3, PendIs
<1>5. Pend(k, i) \in SUBSET {"dp", "local", "tp", "ep"} /\ X \in SUBSET {"dp", "local", "tp", "ep"}
  BY PendIs DEF Axes
<1>6. CASE k \in {"dense", "norm"}
  <2> HIDE DEF i
  <2>0. k # "tensor"
    BY <1>6
  <2>1. /\ "dp" \in Pend(k, i) <=> "dp" \in Pend(k, j) /\ "dp" \notin Y
        /\ "local" \in Pend(k, i) <=> "local" \in Pend(k, j) /\ "local" \notin Y
        /\ "tp" \in Pend(k, i) <=> "tp" \in Pend(k, j) /\ "tp" \notin Y
        /\ "ep" \in Pend(k, i) <=> "ep" \in Pend(k, j) /\ "ep" \notin Y
    BY <1>4, <2>0
  <2>2. Y \in SUBSET Axes /\ "tp" \notin Y \cap Pend(k, j) /\ "ep" \notin Y \cap Pend(k, j)
    BY <1>4, <2>0 DEF Axes
  <2> HIDE DEF Y, X
  <2>3. Pend(k, j - 1) = Pend(k, j) \ Y
    <3>1. Pend(k, i) = Pend(k, j) \ Y
      BY <2>1, PendWithout
    <3> QED
      BY <3>1 DEF i
  <2>4. Reduces(k, j, Y, Many(Y))
    BY <1>1, <1>3, <2>2, <2>3, MeanReduces
  <2> QED
    BY <1>6, <2>4 DEF Y
<1>7. CASE k \notin {"dense", "norm"}
  <2> HIDE DEF i, X
  <2>0. k = "tensor"
    BY <1>1, <1>7
  <2>1. \A x : x \in Pend(k, i) <=> x \in X
    BY <1>4, <1>5, <2>0
  <2>2. Pend(k, i) = X
    BY <2>1
  <2> QED
    BY <1>1, <1>3, <1>7, <2>2, KeepsSame DEF i, X
<1> QED
  BY <1>6, <1>7

\* The axes of the data group.
DataSpan == IF backend = "torch_distributed_adamw" /\ mesh.dp = 1 THEN Axes ELSE {"dp"}

\* First-party: the mean over the data group, or over everybody.
LEMMA DataMean ==
  ASSUME PlanMade, Covered, ~ Zero, NEW k, k \in Kinds, NEW j, j = 1 + NumNorm, NumData = 1
  PROVE  Reduces(k, j, DataSpan, Many(DataSpan))
<1> DEFINE i == j - 1
           Y == DataSpan
<1>1. /\ NumContext \in {0, 1} /\ NumModel \in {0, 1} /\ NumNorm \in {0, 1}
      /\ ~ (mesh.ep > 1) /\ k \in {"dense", "norm", "tensor"}
      /\ k = "tensor" => AfterLocal(k) = NumModel + 1 + NumNorm
      /\ k # "tensor" => AfterLocal(k) = 1 + NumNorm
      /\ AfterDp = NumNorm /\ AfterSum = NumContext + NumModel + 1 + NumNorm
      /\ k \in {"norm", "tensor"} => NumModel = 1
  BY FirstPartyFacts
<1>2. /\ j \in Nat \ {0} /\ ~ (j > AfterSum) /\ ~ (i > AfterSum)
      /\ ~ (i > AfterDp) /\ ~ (i > AfterLocal(k)) /\ ~ (j > AfterLocal(k))
  BY <1>1
<1>3. /\ "dp" \notin Pend(k, i) /\ "local" \notin Pend(k, i) /\ "local" \notin Pend(k, j)
      /\ "tp" \in Pend(k, i) <=> k = "tensor"
      /\ "tp" \in Pend(k, j) <=> k = "tensor"
      /\ "ep" \notin Pend(k, i) /\ "ep" \notin Pend(k, j)
      /\ "dp" \in Pend(k, j) => mesh.dp > 1
  BY <1>1, <1>2, PendIs
<1>4. /\ Y \in SUBSET Axes /\ "dp" \in Y
      /\ "tp" \in Y => k # "tensor"
  <2>1. CASE backend = "torch_distributed_adamw" /\ mesh.dp = 1
    <3>1. mesh.tp = 1
      <4>1. ~ (1 > 1)
        OBVIOUS
      <4>2. ~ (mesh.dp > 1)
        BY <2>1, <4>1, Zenon
      <4> QED
        BY <2>1, <4>2 DEF Covered, MeshCovered
    <3>2. ~ (mesh.tp > 1)
      <4>1. ~ (1 > 1)
        OBVIOUS
      <4> QED
        BY <3>1, <4>1, Zenon
    <3>3. k # "tensor"
      BY <3>2, KindsAre
    <3> QED
      BY <2>1, <3>3 DEF DataSpan, Axes
  <2>2. CASE ~ (backend = "torch_distributed_adamw" /\ mesh.dp = 1)
    BY <2>2 DEF DataSpan, Axes
  <2> QED
    BY <2>1, <2>2
<1> HIDE DEF i, Y
<1>5. /\ "dp" \in Pend(k, i) <=> "dp" \in Pend(k, j) /\ "dp" \notin Y
      /\ "local" \in Pend(k, i) <=> "local" \in Pend(k, j) /\ "local" \notin Y
      /\ "tp" \in Pend(k, i) <=> "tp" \in Pend(k, j) /\ "tp" \notin Y
      /\ "ep" \in Pend(k, i) <=> "ep" \in Pend(k, j) /\ "ep" \notin Y
  BY <1>3, <1>4
<1>6. "tp" \notin Y \cap Pend(k, j) /\ "ep" \notin Y \cap Pend(k, j)
  BY <1>3, <1>4
<1>7. Pend(k, j - 1) = Pend(k, j) \ Y
  <2>1. Pend(k, i) = Pend(k, j) \ Y
    BY <1>5, PendWithout
  <2> QED
    BY <2>1 DEF i
<1>8. Reduces(k, j, Y, Many(Y))
  BY <1>1, <1>2, <1>4, <1>6, <1>7, MeanReduces
<1> QED
  BY <1>8 DEF Y

\* First-party: the norm leaves the gradients alone.
LEMMA NormKeeps ==
  ASSUME PlanMade, Covered, ~ Zero, NEW k, k \in Kinds, NumNorm = 1
  PROVE  Keeps(k, 1)
<1> DEFINE i == 1 - 1
           X == Pend(k, 1)
<1>1. /\ NumContext \in {0, 1} /\ NumModel \in {0, 1} /\ NumData \in {0, 1}
      /\ ~ (mesh.ep > 1) /\ k \in {"dense", "norm", "tensor"}
      /\ k = "tensor" => AfterLocal(k) = NumModel + NumData + 1
      /\ k # "tensor" => AfterLocal(k) = NumData + 1
      /\ AfterDp = 1 /\ AfterSum = NumContext + NumModel + NumData + 1
  BY FirstPartyFacts
<1>2. /\ ~ (1 > AfterSum) /\ ~ (i > AfterSum) /\ ~ (1 > AfterDp) /\ ~ (i > AfterDp)
      /\ ~ (1 > AfterLocal(k)) /\ ~ (i > AfterLocal(k)) /\ 1 \in Nat \ {0}
  BY <1>1
<1>3. /\ "dp" \in Pend(k, i) <=> "dp" \in X
      /\ "tp" \in Pend(k, i) <=> "tp" \in X
      /\ "ep" \in Pend(k, i) <=> "ep" \in X
      /\ "local" \in Pend(k, i) <=> "local" \in X
  BY <1>1, <1>2, PendIs
<1>4. Pend(k, i) \in SUBSET {"dp", "local", "tp", "ep"} /\ X \in SUBSET {"dp", "local", "tp", "ep"}
  BY PendIs DEF Axes
<1> HIDE DEF i, X
<1>5. \A x : x \in Pend(k, i) <=> x \in X
  BY <1>3, <1>4
<1>6. Pend(k, i) = X
  BY <1>5
<1> QED
  BY <1>1, <1>2, <1>6, KeepsSame DEF i, X

\* The weight of one contribution, whose place is f, at the rank with
\* coordinates c.
Cell(k, j, c, f) == IF Same(Pend(k, j), c, f) THEN Weight(k, j) ELSE 0

\* The ranks S hold v for the contribution whose place is f.
Celled(v, S, k, j, f) == \A q \in S : v[q] = Cell(k, j, plan[q].at, f)

\* A reduction turns the weights of its ranks into those of the next place.
LEMMA CellReduced ==
  ASSUME PlanMade, mesh.pp = 1, NEW k, NEW j, NEW i, i = j - 1, NEW Y, Y \in SUBSET Axes,
         NEW d, d \in Nat \ {0}, Reduces(k, j, Y, d),
         NEW c, c \in Box(mesh), NEW f, f \in Box(mesh),
         NEW v, Celled(v, Around(Y, c), k, j, f)
  PROVE  SumFunctionOnSet(v, Around(Y, c)) \div d = Cell(k, i, c, f)
<1> DEFINE X == Pend(k, j)
           V == Weight(k, j)
<1>1. X \in SUBSET Axes /\ V \in Nat
  BY PendIs, WeightNumbers
<1>2. Valued(v, Around(Y, c), X, f, V)
  BY DEF Celled, Cell, Valued
<1>3. Pend(k, i) = X \ Y /\ Weight(k, i) = (V * Many(Y \ X)) \div d
  BY DEF Reduces
<1> HIDE DEF X, V
<1>4. SumFunctionOnSet(v, Around(Y, c)) = IF Same(X \ Y, c, f) THEN V * Many(Y \ X) ELSE 0
  BY <1>1, <1>2, SumSame
<1>5. 0 \div d = 0
  OBVIOUS
<1> QED
  BY <1>3, <1>4, <1>5 DEF Cell

-----------------------------------------------------------------------------
(* Where a contribution comes from.                                        *)

\* The input of a rank is numbered by its data and expert coordinates.
LEMMA InputIs ==
  ASSUME PlanMade, NEW r \in Ranks
  PROVE  Input(r) = plan[r].at.dp * mesh.ep + plan[r].at.ep
<1> DEFINE g == Own(r, "model_input")
           h == Head(g)
<1>1. "model_input" \in Names
  BY DEF Names, AttributeNames
<1>2. /\ g \in Seq(Ranks) /\ r \in ToSet(g)
      /\ ToSet(g) = {q \in Ranks : Near("model_input", plan[r].at, plan[q].at)}
  BY <1>1, OwnMembers
<1>3. h \in ToSet(g)
  <2>1. g # <<>>
    <3>1. ToSet(<<>>) = {}
      BY DEF ToSet
    <3> QED
      BY <1>2, <3>1
  <2> HIDE DEF g
  <2>2. ToSet(g) = {Head(g)} \union ToSet(Tail(g))
    BY <1>2, <2>1, HeadAndTail
  <2> QED
    BY <2>2
<1>4. plan[r].at.dp = plan[h].at.dp /\ plan[r].at.ep = plan[h].at.ep
  <2>1. Near("model_input", plan[r].at, plan[h].at)
    BY <1>2, <1>3
  <2> QED
    BY <2>1 DEF Near, Alike
<1>5. Input(r) = plan[h].at.dp * mesh.ep + plan[h].at.ep
  BY DEF Input, SampleRank, Own
<1> QED
  BY <1>4, <1>5

\* The coordinates of a contribution.
PlaceOf(k, a) ==
  [dp |-> a.sample \div mesh.ep, pp |-> 0, local |-> a.local,
   tp |-> IF k = "norm" THEN a.rows ELSE IF k = "tensor" THEN a.shard ELSE 0,
   ep |-> IF k = "expert" THEN a.shard ELSE a.sample % mesh.ep]

\* The axes along which the backward passes compute different things.
FirstAxes(k) == {x \in Axes : x \in {"dp", "local", "ep"} \/ k \in {"norm", "tensor"}}

\* What a rank computes tells where it is.
LEMMA ComputedHere ==
  ASSUME PlanMade, NEW k, k \in Kinds, NEW r \in Ranks, NEW a, a \in Computed(k, r)
  PROVE  /\ a = [sample |-> a.sample, local |-> a.local, rows |-> a.rows, shard |-> a.shard]
         /\ a.sample \in 0 .. mesh.dp * mesh.ep - 1
         /\ a.sample \div mesh.ep = plan[r].at.dp /\ a.sample % mesh.ep \in 0 .. mesh.ep - 1
         /\ k # "expert" => a.sample % mesh.ep = plan[r].at.ep
         /\ a.local = plan[r].at.local /\ a.shard = Shard(k, r)
         /\ a.rows = IF k = "norm" THEN plan[r].at.tp ELSE 0
<1>1. mesh.dp \in Nat \ {0} /\ mesh.ep \in Nat \ {0}
  BY Sizes
<1>2. PICK q \in IF k = "expert" THEN ToSet(plan[r].groups.expert) ELSE {r} :
        a = [sample |-> Input(q), local |-> plan[r].at.local,
             rows |-> IF k = "norm" THEN plan[r].at.tp ELSE 0, shard |-> Shard(k, r)]
  BY DEF Computed
<1>3. q \in Ranks /\ plan[q].at.dp = plan[r].at.dp /\ (k # "expert" => q = r)
  <2>1. CASE k # "expert"
    BY <1>2, <2>1
  <2>2. CASE k = "expert"
    <3>1. "expert" \in Names /\ Own(r, "expert") = plan[r].groups.expert
      BY DEF Names, AttributeNames, Own
    <3>2. ToSet(Own(r, "expert")) = {p \in Ranks : Near("expert", plan[r].at, plan[p].at)}
      BY <3>1, OwnMembers
    <3>3. q \in Ranks /\ Near("expert", plan[r].at, plan[q].at)
      BY <1>2, <2>2, <3>1, <3>2
    <3> QED
      BY <2>2, <3>3 DEF Near, Alike
  <2> QED
    BY <2>1, <2>2
<1>4. plan[q].at.dp \in 0 .. mesh.dp - 1 /\ plan[q].at.ep \in 0 .. mesh.ep - 1
  BY <1>3, AtCoords DEF Box
<1>5. Input(q) = plan[q].at.dp * mesh.ep + plan[q].at.ep
  BY <1>3, InputIs
<1> DEFINE d == plan[q].at.dp
           e == plan[q].at.ep
           D == mesh.dp
           E == mesh.ep
<1>6. d \in 0 .. D - 1 /\ e \in 0 .. E - 1 /\ D \in Nat \ {0} /\ E \in Nat \ {0}
  BY <1>1, <1>4
<1> HIDE DEF d, e, D, E
<1>7. d * E + e \in 0 .. D * E - 1 /\ (d * E + e) \div E = d /\ (d * E + e) % E = e
  BY <1>6, TwoDigits
<1>8. a.sample = d * E + e
  BY <1>2, <1>5 DEF d, e, E
<1>9. /\ a.sample \in 0 .. D * E - 1 /\ a.sample \div E = d /\ a.sample % E = e
      /\ a.sample % E \in 0 .. E - 1
  BY <1>6, <1>7, <1>8
<1> QED
  BY <1>2, <1>3, <1>9 DEF d, e, D, E

\* The place of a contribution is one of the mesh, and the ranks that computed
\* it are those that agree with it.
LEMMA PlaceIs ==
  ASSUME PlanMade, mesh.pp = 1, NEW k, k \in Kinds, NEW a, a \in Contributions(k)
  PROVE  /\ PlaceOf(k, a) \in Box(mesh)
         /\ \A r \in Ranks : a \in Computed(k, r) <=> Same(FirstAxes(k), plan[r].at, PlaceOf(k, a))
<1> DEFINE f == PlaceOf(k, a)
<1>1. PICK q \in Ranks : a \in Computed(k, q)
  BY DEF Contributions
<1>2. /\ a = [sample |-> a.sample, local |-> a.local, rows |-> a.rows, shard |-> a.shard]
      /\ a.sample \in 0 .. mesh.dp * mesh.ep - 1
      /\ a.sample \div mesh.ep = plan[q].at.dp /\ a.sample % mesh.ep \in 0 .. mesh.ep - 1
      /\ a.local = plan[q].at.local /\ a.shard = Shard(k, q)
      /\ a.rows = IF k = "norm" THEN plan[q].at.tp ELSE 0
  BY <1>1, ComputedHere
<1>3. k \in {"dense", "norm", "tensor", "expert"}
  BY KindsAre
<1>4. f \in Box(mesh)
  <2>1. /\ plan[q].at.dp \in 0 .. mesh.dp - 1 /\ plan[q].at.local \in 0 .. LocalSize(mesh) - 1
        /\ plan[q].at.tp \in 0 .. mesh.tp - 1 /\ plan[q].at.ep \in 0 .. mesh.ep - 1
    BY AtCoords DEF Box
  <2>2. 0 \in 0 .. mesh.pp - 1 /\ 0 \in 0 .. mesh.tp - 1
    BY Sizes
  <2>3. k = "tensor" => a.shard \in 0 .. mesh.tp - 1
    BY <1>2, <2>1 DEF Shard
  <2>4. k = "expert" => a.shard \in 0 .. mesh.ep - 1
    BY <1>2, <2>1 DEF Shard
  <2>5. /\ f.dp \in 0 .. mesh.dp - 1 /\ f.local \in 0 .. LocalSize(mesh) - 1 /\ f.pp \in 0 .. mesh.pp - 1
    BY <1>2, <2>1, <2>2 DEF PlaceOf
  <2>6. f.tp \in 0 .. mesh.tp - 1
    BY <1>2, <2>1, <2>2, <2>3 DEF PlaceOf
  <2>7. f.ep \in 0 .. mesh.ep - 1
    BY <1>2, <2>4 DEF PlaceOf
  <2>8. f = [dp |-> f.dp, pp |-> f.pp, local |-> f.local, tp |-> f.tp, ep |-> f.ep]
    BY DEF PlaceOf
  <2> HIDE DEF f
  <2> QED
    BY <2>5, <2>6, <2>7, <2>8 DEF Box
<1>5. ASSUME NEW r \in Ranks, a \in Computed(k, r)
      PROVE  Same(FirstAxes(k), plan[r].at, f)
  <2>1. /\ a.sample \div mesh.ep = plan[r].at.dp
        /\ k # "expert" => a.sample % mesh.ep = plan[r].at.ep
        /\ a.local = plan[r].at.local /\ a.shard = Shard(k, r)
        /\ a.rows = IF k = "norm" THEN plan[r].at.tp ELSE 0
    BY <1>5, ComputedHere
  <2>2. plan[r].at.dp = f.dp /\ plan[r].at.local = f.local
    BY <2>1 DEF PlaceOf
  <2>3. k \in {"norm", "tensor"} => plan[r].at.tp = f.tp
    BY <2>1 DEF PlaceOf, Shard
  <2>4. plan[r].at.ep = f.ep
    BY <2>1 DEF PlaceOf, Shard
  <2> HIDE DEF f
  <2> QED
    BY <2>2, <2>3, <2>4 DEF Same, FirstAxes
<1>6. ASSUME NEW r \in Ranks, Same(FirstAxes(k), plan[r].at, f)
      PROVE  a \in Computed(k, r)
  <2>1. /\ plan[r].at.dp = f.dp /\ plan[r].at.local = f.local /\ plan[r].at.ep = f.ep
        /\ k \in {"norm", "tensor"} => plan[r].at.tp = f.tp
    <3> HIDE DEF f
    <3> QED
      BY <1>6 DEF Same, FirstAxes, Axes
  <2>2. /\ plan[r].at.dp = a.sample \div mesh.ep /\ plan[r].at.local = a.local
        /\ k = "norm" => plan[r].at.tp = a.rows
        /\ k = "tensor" => plan[r].at.tp = a.shard
        /\ k = "expert" => plan[r].at.ep = a.shard
        /\ k # "expert" => plan[r].at.ep = a.sample % mesh.ep
    BY <2>1 DEF PlaceOf
  <2>3. a.rows = IF k = "norm" THEN plan[r].at.tp ELSE 0
    BY <1>2, <2>2
  <2>4. a.shard = Shard(k, r)
    BY <1>2, <1>3, <2>2 DEF Shard
  <2>5. a.sample = (a.sample \div mesh.ep) * mesh.ep + (a.sample % mesh.ep)
    <3> DEFINE x == a.sample
               D == mesh.dp
               E == mesh.ep
    <3>1. D \in Nat \ {0} /\ E \in Nat \ {0} /\ x \in 0 .. D * E - 1
      BY <1>2, Sizes
    <3> HIDE DEF x, D, E
    <3>2. x = (x \div E) * E + (x % E)
      BY <3>1, Digits
    <3> QED
      BY <3>2 DEF x, E
  <2>6. ASSUME NEW p \in Ranks, plan[p].at.dp = plan[r].at.dp, plan[p].at.ep = a.sample % mesh.ep,
               p \in IF k = "expert" THEN ToSet(plan[r].groups.expert) ELSE {r}
        PROVE  a \in Computed(k, r)
    <3>1. Input(p) = a.sample
      <4>1. Input(p) = plan[p].at.dp * mesh.ep + plan[p].at.ep
        BY InputIs
      <4>2. plan[p].at.dp = a.sample \div mesh.ep
        BY <2>2, <2>6
      <4> QED
        BY <2>5, <2>6, <4>1, <4>2
    <3>2. a = [sample |-> Input(p), local |-> plan[r].at.local,
               rows |-> IF k = "norm" THEN plan[r].at.tp ELSE 0, shard |-> Shard(k, r)]
      BY <1>2, <2>2, <2>3, <2>4, <3>1
    <3> QED
      BY <2>6, <3>2 DEF Computed
  <2>7. CASE k # "expert"
    BY <2>2, <2>6, <2>7
  <2>8. CASE k = "expert"
    <3> DEFINE c == plan[r].at
               e == a.sample % mesh.ep
               d == [c EXCEPT !.ep = e]
    <3>1. c \in Box(mesh) /\ IsMesh(mesh) /\ e \in 0 .. mesh.ep - 1
      BY <1>2, AtCoords, PlanMadeFacts
    <3> HIDE DEF c, e
    <3>2. d \in Box(mesh)
      BY <3>1, MovedAlong
    <3>3. d.dp = c.dp /\ d.pp = c.pp /\ d.local = c.local /\ d.tp = c.tp /\ d.ep = e
      BY <3>1 DEF Box
    <3> HIDE DEF d
    <3>4. PICK p \in Ranks : plan[p].at = d
      BY <3>2, AtCoords
    <3>5. "expert" \in Names /\ Own(r, "expert") = plan[r].groups.expert
      BY DEF Names, AttributeNames, Own
    <3>6. ToSet(Own(r, "expert")) = {q1 \in Ranks : Near("expert", plan[r].at, plan[q1].at)}
      BY <3>5, OwnMembers
    <3>7. Near("expert", plan[r].at, plan[p].at)
      BY <3>3, <3>4 DEF Near, Alike, c
    <3>8. p \in ToSet(plan[r].groups.expert)
      BY <3>5, <3>6, <3>7
    <3>9. plan[p].at.dp = plan[r].at.dp /\ plan[p].at.ep = a.sample % mesh.ep
      BY <3>3, <3>4 DEF c, e
    <3> QED
      BY <2>6, <2>8, <3>8, <3>9
  <2> QED
    BY <2>7, <2>8
<1> QED
  BY <1>4, <1>5, <1>6

\* Along axes of one rank each there is one rank.
LEMMA ManyOnes ==
  ASSUME NEW S, "dp" \in S => mesh.dp = 1, "local" \in S => LocalSize(mesh) = 1,
         "tp" \in S => mesh.tp = 1, "ep" \in S => mesh.ep = 1
  PROVE  Many(S) = 1
<1> DEFINE n1 == IF "dp" \in S THEN mesh.dp ELSE 1
           n2 == IF "local" \in S THEN LocalSize(mesh) ELSE 1
           n3 == IF "tp" \in S THEN mesh.tp ELSE 1
           n4 == IF "ep" \in S THEN mesh.ep ELSE 1
<1>1. n1 = 1 /\ n2 = 1 /\ n3 = 1 /\ n4 = 1
  OBVIOUS
<1>2. Many(S) = n1 * (n2 * (n3 * n4))
  BY DEF Many
<1> HIDE DEF n1, n2, n3, n4
<1> QED
  BY <1>1, <1>2

\* With the whole list to go a rank has what its backward pass computed.
LEMMA StartCell ==
  ASSUME PlanMade, Covered, mesh.pp = 1, NEW k, k \in Kinds, NEW a, a \in Contributions(k), NEW r \in Ranks
  PROVE  Backward(k, r)[a] = Cell(k, Len(StepList(r)), plan[r].at, PlaceOf(k, a))
<1> DEFINE j == Len(StepList(r))
           c == plan[r].at
           f == PlaceOf(k, a)
<1>1. /\ NumExperts \in {0, 1} /\ NumSum \in {0, 1} /\ NumOptimizer \in {0, 1}
      /\ NumContext \in {0, 1} /\ NumModel \in {0, 1} /\ NumData \in {0, 1} /\ NumNorm \in {0, 1}
      /\ mesh.ep > 1 => NumExperts = 1
      /\ LocalSize(mesh) > 1 => NumContext = 1 /\ NumOptimizer = 1
      /\ mesh.dp > 1 => NumData = 1 /\ NumOptimizer = 1
      /\ k = "norm" => NumSum = 1
      /\ k = "expert" => mesh.ep > 1
      /\ ~ Zero => mesh.ep = 1
      /\ ~ Zero => OneRing(mesh)
  BY ListHasIt, KindsAre DEF Covered, MeshCovered, Zero
<1>2. /\ j = IF Zero THEN NumOptimizer + NumSum + NumExperts
             ELSE NumSum + NumContext + NumModel + NumData + NumNorm
  BY <1>1, ZeroShape, FirstPartyShape
<1>3. /\ mesh.dp > 1 => j > AfterDp
      /\ LocalSize(mesh) > 1 => j > AfterLocal(k)
      /\ k = "norm" => j > AfterSum
      /\ mesh.ep > 1 => j > 0
  <2> HIDE DEF j
  <2>1. CASE Zero
    BY <1>1, <1>2, <2>1 DEF AfterDp, AfterLocal, AfterSum
  <2>2. CASE ~ Zero
    <3>1. ~ (mesh.ep > 1)
      BY <1>1, <2>2
    <3> QED
      BY <1>1, <1>2, <2>2, <3>1 DEF AfterDp, AfterLocal, AfterSum
  <2> QED
    BY <2>1, <2>2
<1> HIDE DEF j
<1>4. /\ mesh.dp \in Nat \ {0} /\ LocalSize(mesh) \in Nat \ {0} /\ mesh.ep \in Nat \ {0}
  BY Sizes
<1>5. c \in Box(mesh) /\ f \in Box(mesh)
  BY AtCoords, PlaceIs
<1> HIDE DEF f, c
<1>6. /\ "dp" \in Pend(k, j) <=> mesh.dp > 1
      /\ "local" \in Pend(k, j) <=> LocalSize(mesh) > 1
      /\ "tp" \in Pend(k, j) <=> k \in {"norm", "tensor"}
      /\ "ep" \in Pend(k, j) <=> mesh.ep > 1
  BY <1>1, <1>3, PendIs
<1>7. Weight(k, j) = Unit
  <2>1. /\ "dp" \in Spread(k, j) => mesh.dp = 1
        /\ "local" \in Spread(k, j) => LocalSize(mesh) = 1
        /\ "tp" \notin Spread(k, j)
        /\ "ep" \notin Spread(k, j)
    <3>1. j = 0 => ~ (mesh.ep > 1)
      BY <1>3
    <3> QED
      BY <1>4, <1>6, <3>1 DEF Spread
  <2>2. Divisor(k, j) = 1
    BY <2>1, ManyOnes DEF Divisor
  <2>3. Unit \div 1 = Unit
    BY Sizes
  <2> QED
    BY <2>2, <2>3 DEF Weight
<1>8. Same(Pend(k, j), c, f) <=> Same(FirstAxes(k), c, f)
  <2>1. /\ c.dp \in 0 .. mesh.dp - 1 /\ f.dp \in 0 .. mesh.dp - 1
        /\ c.local \in 0 .. LocalSize(mesh) - 1 /\ f.local \in 0 .. LocalSize(mesh) - 1
        /\ c.ep \in 0 .. mesh.ep - 1 /\ f.ep \in 0 .. mesh.ep - 1
    BY <1>5 DEF Box
  <2>2. /\ ~ (mesh.dp > 1) => c.dp = f.dp
        /\ ~ (LocalSize(mesh) > 1) => c.local = f.local
        /\ ~ (mesh.ep > 1) => c.ep = f.ep
    BY <1>4, <2>1
  <2>3. /\ "dp" \in FirstAxes(k) /\ "local" \in FirstAxes(k) /\ "ep" \in FirstAxes(k)
        /\ "tp" \in FirstAxes(k) <=> k \in {"norm", "tensor"}
    BY DEF FirstAxes, Axes
  <2> QED
    BY <1>6, <2>2, <2>3 DEF Same
<1>9. a \in Computed(k, r) <=> Same(FirstAxes(k), c, f)
  BY PlaceIs DEF c, f
<1>10. Backward(k, r)[a] = IF a \in Computed(k, r) THEN Unit ELSE 0
  BY DEF Backward
<1> QED
  BY <1>7, <1>8, <1>9, <1>10 DEF Cell, j, c, f

\* With nothing to go a rank has the mean over samples and local ranks, for its
\* own shard.
LEMMA LastCell ==
  ASSUME PlanMade, mesh.pp = 1, NEW k, k \in Kinds, NEW a, a \in Contributions(k), NEW r \in Ranks
  PROVE  Cell(k, 0, plan[r].at, PlaceOf(k, a))
           = IF a.shard = Shard(k, r) THEN Unit \div (mesh.dp * mesh.ep * LocalSize(mesh)) ELSE 0
<1> DEFINE c == plan[r].at
           f == PlaceOf(k, a)
<1>1. PICK q \in Ranks : a.shard = Shard(k, q)
  <2>1. PICK q \in Ranks : a \in Computed(k, q)
    BY DEF Contributions
  <2>2. a.shard = Shard(k, q)
    BY <2>1, ComputedHere
  <2> QED
    BY <2>2
<1>2. k \in {"dense", "norm", "tensor", "expert"}
  BY KindsAre
<1>3. /\ NumExperts \in {0, 1} /\ NumSum \in {0, 1} /\ NumContext \in {0, 1} /\ NumModel \in {0, 1}
      /\ NumData \in {0, 1} /\ NumNorm \in {0, 1}
  BY NumbersAre
<1>4. ~ (0 > AfterDp) /\ ~ (0 > AfterLocal(k)) /\ ~ (0 > AfterSum) /\ ~ (0 > 0)
  BY <1>3 DEF AfterDp, AfterLocal, AfterSum
<1>5. /\ "dp" \notin Pend(k, 0) /\ "local" \notin Pend(k, 0)
      /\ "tp" \in Pend(k, 0) <=> k = "tensor"
      /\ "ep" \in Pend(k, 0) <=> k = "expert"
  BY <1>4, PendIs
<1>6. Same(Pend(k, 0), c, f) <=> a.shard = Shard(k, r)
  <2>1. Same(Pend(k, 0), c, f) <=> (k = "tensor" => c.tp = f.tp) /\ (k = "expert" => c.ep = f.ep)
    <3> HIDE DEF c, f
    <3> QED
      BY <1>5 DEF Same
  <2>2. (k = "tensor" => f.tp = a.shard) /\ (k = "expert" => f.ep = a.shard)
    BY DEF PlaceOf
  <2>3. (k = "tensor" => Shard(k, r) = c.tp) /\ (k = "expert" => Shard(k, r) = c.ep)
    BY DEF Shard
  <2>4. k \in {"dense", "norm"} => a.shard = 0 /\ Shard(k, r) = 0
    BY <1>1 DEF Shard
  <2> HIDE DEF c, f
  <2> QED
    BY <1>2, <2>1, <2>2, <2>3, <2>4
<1>7. Weight(k, 0) = Unit \div (mesh.dp * mesh.ep * LocalSize(mesh))
  <2>0. /\ mesh.dp \in Nat \ {0} /\ mesh.ep \in Nat \ {0} /\ LocalSize(mesh) \in Nat \ {0}
    BY Sizes
  <2>1. /\ "dp" \in Spread(k, 0) /\ "local" \in Spread(k, 0) /\ "tp" \notin Spread(k, 0)
        /\ "ep" \in Spread(k, 0) <=> mesh.ep > 1
    BY <1>5 DEF Spread, Axes
  <2> DEFINE d == mesh.dp
             e == mesh.ep
             l == LocalSize(mesh)
  <2>2. Divisor(k, 0) = d * (l * (1 * (IF e > 1 THEN e ELSE 1)))
    BY <2>1 DEF Divisor, Many
  <2>3. (IF e > 1 THEN e ELSE 1) = e
    BY <2>0
  <2>4. Divisor(k, 0) = d * (l * (1 * e))
    BY <2>2, <2>3
  <2> HIDE DEF d, e, l
  <2>5. d * (l * (1 * e)) = d * e * l
    <3>1. d \in Nat /\ e \in Nat /\ l \in Nat
      BY <2>0 DEF d, e, l
    <3> QED
      BY <3>1
  <2>6. Divisor(k, 0) = d * e * l
    BY <2>4, <2>5
  <2> QED
    BY <2>6 DEF Weight, d, e, l
<1> QED
  BY <1>6, <1>7 DEF Cell

\* The samples are numbered without gaps, one for each model-input group.
LEMMA SamplesAre ==
  ASSUME PlanMade, mesh.pp = 1, NEW k, k \in Kinds
  PROVE  {a.sample : a \in Contributions(k)} = 0 .. mesh.dp * mesh.ep - 1
<1>0. /\ mesh.dp \in Nat \ {0} /\ mesh.ep \in Nat \ {0} /\ mesh.tp \in Nat \ {0}
      /\ LocalSize(mesh) \in Nat \ {0}
  BY Sizes
<1>1. ASSUME NEW a \in Contributions(k) PROVE a.sample \in 0 .. mesh.dp * mesh.ep - 1
  <2>1. PICK q \in Ranks : a \in Computed(k, q)
    BY DEF Contributions
  <2> QED
    BY <2>1, ComputedHere
<1>2. ASSUME NEW x, x \in 0 .. mesh.dp * mesh.ep - 1 PROVE \E a \in Contributions(k) : a.sample = x
  <2> DEFINE D == mesh.dp
             E == mesh.ep
             d == [dp |-> x \div E, pp |-> 0, local |-> 0, tp |-> 0, ep |-> x % E]
  <2>1. x \div E \in 0 .. D - 1 /\ x % E \in 0 .. E - 1 /\ x = (x \div E) * E + (x % E)
    <3>1. D \in Nat \ {0} /\ E \in Nat \ {0} /\ x \in 0 .. D * E - 1
      BY <1>0, <1>2
    <3> HIDE DEF D, E
    <3> QED
      BY <3>1, Digits
  <2>2. d \in Box(mesh)
    <3>1. 0 \in 0 .. mesh.pp - 1 /\ 0 \in 0 .. LocalSize(mesh) - 1 /\ 0 \in 0 .. mesh.tp - 1
      BY <1>0
    <3> QED
      BY <2>1, <3>1 DEF Box
  <2>3. PICK p \in Ranks : plan[p].at = d
    BY <2>2, AtCoords
  <2>4. Input(p) = x
    <3>1. Input(p) = plan[p].at.dp * mesh.ep + plan[p].at.ep
      BY InputIs
    <3> QED
      BY <2>1, <2>3, <3>1
  <2>5. p \in IF k = "expert" THEN ToSet(plan[p].groups.expert) ELSE {p}
    <3>1. "expert" \in Names /\ Own(p, "expert") = plan[p].groups.expert
      BY DEF Names, AttributeNames, Own
    <3>2. p \in ToSet(Own(p, "expert"))
      BY <3>1, OwnMembers
    <3> QED
      BY <3>1, <3>2
  <2> DEFINE a == [sample |-> Input(p), local |-> plan[p].at.local,
                   rows |-> IF k = "norm" THEN plan[p].at.tp ELSE 0, shard |-> Shard(k, p)]
  <2>6. a \in Computed(k, p) /\ a.sample = x
    BY <2>4, <2>5 DEF Computed
  <2> QED
    BY <2>6 DEF Contributions
<1> DEFINE S == {a.sample : a \in Contributions(k)}
           I == 0 .. mesh.dp * mesh.ep - 1
<1>3. \A x : x \in S <=> x \in I
  BY <1>1, <1>2
<1> HIDE DEF S, I
<1>4. S = I
  BY <1>3
<1> QED
  BY <1>4 DEF S, I

\* Around is an equivalence.
LEMMA AroundSame ==
  ASSUME NEW Y, NEW p \in Ranks, NEW r, r \in Around(Y, plan[p].at)
  PROVE  r \in Ranks /\ Around(Y, plan[r].at) = Around(Y, plan[p].at)
<1>1. r \in Ranks /\ Same(Axes \ Y, plan[p].at, plan[r].at)
  BY DEF Around
<1>2. ASSUME NEW q \in Ranks
      PROVE  Same(Axes \ Y, plan[p].at, plan[q].at) <=> Same(Axes \ Y, plan[r].at, plan[q].at)
  BY <1>1 DEF Same
<1> QED
  BY <1>1, <1>2 DEF Around

\* The gradient of kind k that a rank has when j collectives are to go.
CellsAt(g, k, r, j) ==
  /\ DOMAIN g = Contributions(k)
  /\ \A a \in Contributions(k) : g[a] = Cell(k, j, plan[r].at, PlaceOf(k, a))

\* Until the step the gradients are those of the backward pass; then each is
\* known from what the rank still has to go through.
GradOK(ph, t, g) ==
  \A r \in Ranks, k \in Kinds :
    /\ ph = "setup" => g[r][k] = Backward(k, r)
    /\ ph = "step" => CellsAt(g[r][k], k, r, Len(t[r]))

\* What the next collective does to each kind.
Doing(j, K, Y, d) ==
  \A k \in Kinds : (k \in K => Reduces(k, j, Y, d)) /\ (k \notin K => Keeps(k, j))

AllCells(S, k, j) == \A q \in S : CellsAt(grad[q][k], k, q, j)

\* The sum of what the ranks around one of them hold, divided.
LEMMA TotalCells ==
  ASSUME PlanMade, mesh.pp = 1, NEW k, k \in Kinds, NEW j, NEW i, i = j - 1, NEW Y, Y \in SUBSET Axes,
         NEW d, d \in Nat \ {0}, Reduces(k, j, Y, d),
         NEW p \in Ranks, NEW c, ToSet(c.over) = Around(Y, plan[p].at),
         NEW r, r \in Around(Y, plan[p].at),
         AllCells(Around(Y, plan[p].at), k, j)
  PROVE  CellsAt(Total(c, k, d), k, r, i)
<1> DEFINE G == Around(Y, plan[p].at)
           cr == plan[r].at
<1>1. r \in Ranks /\ Around(Y, cr) = G
  BY AroundSame
<1>2. cr \in Box(mesh)
  BY <1>1, AtCoords
<1>3. ASSUME NEW a \in Contributions(k)
      PROVE  Total(c, k, d)[a] = Cell(k, i, cr, PlaceOf(k, a))
  <2> DEFINE f == PlaceOf(k, a)
             v == [q \in G |-> grad[q][k][a]]
  <2>1. Total(c, k, d)[a] = SumFunctionOnSet(v, G) \div d
    BY DEF Total
  <2>2. f \in Box(mesh)
    BY PlaceIs
  <2>3. Celled(v, G, k, j, f)
    BY DEF AllCells, CellsAt, Celled
  <2> HIDE DEF v, f, G, cr
  <2>4. Celled(v, Around(Y, cr), k, j, f)
    BY <1>1, <2>3
  <2>5. SumFunctionOnSet(v, Around(Y, cr)) \div d = Cell(k, i, cr, f)
    BY <1>2, <2>2, <2>4, CellReduced
  <2>6. Total(c, k, d)[a] = Cell(k, i, cr, f)
    BY <1>1, <2>1, <2>5
  <2> QED
    BY <2>6 DEF f
<1>4. DOMAIN Total(c, k, d) = Contributions(k)
  BY DEF Total
<1> QED
  BY <1>3, <1>4 DEF CellsAt

\* A gradient that nothing is to be done about is right for the next place too.
LEMMA KeepsCells ==
  ASSUME NEW k, NEW j, NEW i, i = j - 1, Keeps(k, j), NEW r, NEW g, CellsAt(g, k, r, j)
  PROVE  CellsAt(g, k, r, i)
BY DEF CellsAt, Keeps, Cell

\* A call of the step is taken by its ranks, at the same place of their lists.
LEMMA CallTaken ==
  ASSUME SyncInv, NEW p \in Ranks, Waiting(p), NEW c, c = Current(p), c.op # "new", Enter(c)
  PROVE  /\ phase = "step" /\ phase' = "step" /\ mesh.pp = 1 /\ PlanMade
         /\ Callers(c) = ToSet(c.over)
         /\ Len(todo[p]) \in 1 .. Len(StepList(p)) /\ FromEnd(StepList(p), Len(todo[p])) = c
         /\ \A q \in Ranks : q \in Callers(c) => Len(todo[q]) = Len(todo[p])
                                                 /\ Len(todo'[q]) = Len(todo[p]) - 1
         /\ \A q \in Ranks : q \notin Callers(c) => todo'[q] = todo[q]
<1>1. PlanMade /\ SyncOK(phase, handle, todo)
  BY DEF SyncInv
<1>2. todo \in [Ranks -> Seq(Calls)] /\ Aligned(todo)
  BY <1>1 DEF SyncOK
<1>3. /\ phase = "step"
      /\ Len(todo[p]) \in 1 .. Len(StepList(p)) /\ FromEnd(StepList(p), Len(todo[p])) = c
  BY CurrentCall
<1>4. mesh.pp = 1
  BY <1>1, <1>3 DEF SyncOK, StepOK
<1>5. phase' = "step"
  BY <1>3 DEF Enter
<1>6. /\ \A q \in Callers(c) : /\ Waiting(q) /\ Len(todo[q]) = Len(todo[p]) /\ todo'[q] = Tail(todo[q])
      /\ \A q \in Ranks : q \notin Callers(c) => todo'[q] = todo[q]
  BY <1>1, <1>2, EnterTogether
<1>7. ASSUME NEW q \in Ranks, q \in Callers(c)
      PROVE  Len(todo[q]) = Len(todo[p]) /\ Len(todo'[q]) = Len(todo[p]) - 1
  <2>1. todo[q] \in Seq(Calls) /\ todo[q] # <<>> /\ todo'[q] = Tail(todo[q])
    BY <1>2, <1>6, <1>7 DEF Waiting
  <2>2. Len(Tail(todo[q])) = Len(todo[q]) - 1
    BY <2>1, HeadAndTail
  <2> QED
    BY <1>6, <1>7, <2>1, <2>2
<1> QED
  BY <1>1, <1>3, <1>4, <1>5, <1>6, <1>7 DEF Callers

\* A collective that gives each of its ranks, for each kind, what it should hold
\* with one call less to go keeps the gradients what they should be.
LEMMA CallKeepsGrad ==
  ASSUME SyncInv, GradOK(phase, todo, grad),
         NEW p \in Ranks, Waiting(p), NEW c, c = Current(p), c.op # "new", Enter(c),
         \A q \in Ranks, k \in Kinds :
           /\ q \in ToSet(c.over) => CellsAt(grad'[q][k], k, q, Len(todo[p]) - 1)
           /\ q \notin ToSet(c.over) => grad'[q][k] = grad[q][k]
  PROVE  GradOK(phase', todo', grad')
<1>1. /\ phase = "step" /\ phase' = "step" /\ Callers(c) = ToSet(c.over)
      /\ \A q \in Ranks : q \in Callers(c) => Len(todo'[q]) = Len(todo[p]) - 1
      /\ \A q \in Ranks : q \notin Callers(c) => todo'[q] = todo[q]
  BY CallTaken
<1> SUFFICES ASSUME NEW q \in Ranks, NEW k \in Kinds
             PROVE  CellsAt(grad'[q][k], k, q, Len(todo'[q]))
  BY <1>1 DEF GradOK
<1>2. CASE q \in ToSet(c.over)
  BY <1>1, <1>2
<1>3. CASE q \notin ToSet(c.over)
  BY <1>1, <1>3 DEF GradOK
<1> QED
  BY <1>2, <1>3

\* A reduction along the axes that are next.
LEMMA ReduceStep ==
  ASSUME SyncInv, GradOK(phase, todo, grad),
         NEW p \in Ranks, Waiting(p), NEW c, c = Current(p), AllReduce(c),
         NEW Y, Y \in SUBSET Axes, ToSet(c.over) = Around(Y, plan[p].at),
         NEW d, d \in Nat \ {0}, d = IF c.op = "sum" THEN 1 ELSE Len(c.over),
         Doing(Len(todo[p]), c.kinds, Y, d)
  PROVE  GradOK(phase', todo', grad')
<1>1. c.op # "new" /\ Enter(c)
  BY DEF AllReduce
<1>2. /\ phase = "step" /\ PlanMade /\ mesh.pp = 1 /\ Callers(c) = ToSet(c.over)
      /\ \A q \in Ranks : q \in Callers(c) => Len(todo[q]) = Len(todo[p])
  BY <1>1, CallTaken
<1> DEFINE j == Len(todo[p])
           i == j - 1
           G == Around(Y, plan[p].at)
<1>3. ASSUME NEW q \in Ranks, NEW k \in Kinds, q \in G
      PROVE  CellsAt(grad'[q][k], k, q, i)
  <2>0. \A x \in G : x \in Ranks
    BY DEF Around
  <2>1. AllCells(G, k, j)
    BY <1>2, <2>0 DEF GradOK, AllCells
  <2>2. grad'[q][k] = IF k \in c.kinds THEN Total(c, k, d) ELSE grad[q][k]
    BY <1>3 DEF AllReduce
  <2>3. CASE k \in c.kinds
    <3>1. Reduces(k, j, Y, d)
      BY <2>3 DEF Doing
    <3>2. CellsAt(Total(c, k, d), k, q, i)
      <4> i = j - 1
        OBVIOUS
      <4> HIDE DEF i, j
      <4> QED
        BY <1>2, <1>3, <2>1, <3>1, TotalCells
    <3> QED
      BY <2>2, <2>3, <3>2
  <2>4. CASE k \notin c.kinds
    <3>1. Keeps(k, j) /\ CellsAt(grad[q][k], k, q, j)
      BY <1>3, <2>1, <2>4 DEF Doing, AllCells
    <3>2. CellsAt(grad[q][k], k, q, i)
      BY <3>1, KeepsCells
    <3> QED
      BY <2>2, <2>4, <3>2
  <2> QED
    BY <2>3, <2>4
<1>4. ASSUME NEW q \in Ranks, NEW k \in Kinds, q \notin G
      PROVE  grad'[q][k] = grad[q][k]
  BY <1>4 DEF AllReduce
<1> QED
  BY <1>1, <1>3, <1>4, CallKeepsGrad

\* A collective over the ranks around p along Y, which divides by d, is what the
\* gradients need next.
Ready(c, p, j, Y, d) ==
  /\ Y \in SUBSET Axes /\ ToSet(c.over) = Around(Y, plan[p].at)
  /\ d \in Nat \ {0} /\ d = IF c.op = "sum" THEN 1 ELSE Len(c.over)
  /\ Doing(j, c.kinds, Y, d)

\* A group of the plan and the axes it spans.
LEMMA GroupSpans ==
  ASSUME PlanMade, mesh.pp = 1, NEW p \in Ranks, NEW a, a \in SizedNames,
         a = "context_block" => OneRing(mesh), NEW n, n = GroupSize(a)
  PROVE  /\ ToSet(Own(p, a)) = Around(SpanOf(a), plan[p].at)
         /\ Len(Own(p, a)) = n /\ n \in Nat \ {0}
BY OwnAround, GroupSizes

\* The sum over TP, of sequence-parallel replicas.
LEMMA SumReady ==
  ASSUME PlanMade, Covered, mesh.pp = 1, NEW p \in Ranks, NumSum = 1, NEW j, j = 1 + AfterSum,
         NEW c, c = Collective("sum", Own(p, "tensor"), {"norm"} \cap Kinds)
  PROVE  Ready(c, p, j, {"tp"}, 1)
<1>1. ToSet(Own(p, "tensor")) = Around({"tp"}, plan[p].at)
  BY GroupSpans DEF SizedNames, SpanOf
<1>2. c.op = "sum" /\ c.over = Own(p, "tensor") /\ c.kinds = {"norm"} \cap Kinds
  BY DEF Collective
<1>3. Doing(j, c.kinds, {"tp"}, 1)
  <2> SUFFICES ASSUME NEW k \in Kinds
               PROVE  (k \in c.kinds => Reduces(k, j, {"tp"}, 1)) /\ (k \notin c.kinds => Keeps(k, j))
    BY DEF Doing
  <2>1. k \in c.kinds <=> k = "norm"
    BY <1>2
  <2>2. /\ k = "norm" => Reduces(k, j, {"tp"}, 1)
        /\ k # "norm" => Keeps(k, j)
    BY RowsSummed
  <2> QED
    BY <2>1, <2>2
<1>4. {"tp"} \in SUBSET Axes /\ 1 \in Nat \ {0}
  BY DEF Axes
<1> QED
  BY <1>1, <1>2, <1>3, <1>4 DEF Ready

\* The mean over the optimizer group of DeepSpeed.
LEMMA OptimizerReady ==
  ASSUME PlanMade, Zero, mesh.pp = 1, NEW p \in Ranks, NEW j, j = 1 + NumSum + NumExperts,
         NEW c, c = Collective("mean", Own(p, "optimizer"), Kinds \cap Kinds)
  PROVE  Ready(c, p, j, {"dp", "local"}, Many({"dp", "local"}))
<1> DEFINE Y == {"dp", "local"}
<1>1. /\ ToSet(Own(p, "optimizer")) = Around(Y, plan[p].at)
      /\ Len(Own(p, "optimizer")) = mesh.dp * LocalSize(mesh)
  BY GroupSpans DEF SizedNames, SpanOf, GroupSize
<1>2. c.op = "mean" /\ c.over = Own(p, "optimizer") /\ c.kinds = Kinds
  BY DEF Collective
<1>3. Doing(j, c.kinds, Y, Many(Y))
  <2> SUFFICES ASSUME NEW k \in Kinds PROVE Reduces(k, j, Y, Many(Y))
    BY <1>2 DEF Doing
  <2> QED
    BY ZeroMean
<1>4. Many(Y) = mesh.dp * LocalSize(mesh)
  <2>1. Many(Y) = mesh.dp * (LocalSize(mesh) * (1 * 1))
    BY DEF Many
  <2>2. LocalSize(mesh) \in Nat
    BY Sizes
  <2>3. LocalSize(mesh) * (1 * 1) = LocalSize(mesh)
    BY <2>2
  <2> QED
    BY <2>1, <2>3
<1>5. Y \in SUBSET Axes
  BY DEF Axes
<1>6. Many(Y) \in Nat \ {0}
  BY ManyIs
<1> HIDE DEF Y
<1>7. Ready(c, p, j, Y, Many(Y))
  <2>1. Many(Y) = IF c.op = "sum" THEN 1 ELSE Len(c.over)
    BY <1>1, <1>2, <1>4
  <2>2. ToSet(c.over) = Around(Y, plan[p].at)
    BY <1>1, <1>2
  <2> QED
    BY <1>3, <1>5, <1>6, <2>1, <2>2 DEF Ready
<1> QED
  BY <1>7 DEF Y

\* The mean over the context group of a first-party optimizer.
LEMMA ContextReady ==
  ASSUME PlanMade, Covered, ~ Zero, mesh.pp = 1, NEW p \in Ranks,
         NumContext = 1, NEW j, j = 1 + NumModel + NumData + NumNorm,
         NEW c, c = Collective("mean", Own(p, "context_block"), ContextKinds \cap Kinds)
  PROVE  Ready(c, p, j, {"local"}, Many({"local"}))
<1> DEFINE Y == {"local"}
<1>0. OneRing(mesh)
  BY DEF Covered, MeshCovered, Zero
<1>1. /\ ToSet(Own(p, "context_block")) = Around(Y, plan[p].at)
      /\ Len(Own(p, "context_block")) = LocalSize(mesh)
  <2>1. GroupSize("context_block") = LocalSize(mesh)
    <3>1. GroupSize("context_block") = IF mesh.cp > 1 THEN mesh.cp ELSE LocalSize(mesh)
      BY DEF GroupSize
    <3>2. mesh.cp \in Nat \ {0} /\ mesh.bp \in Nat \ {0}
      BY PlanMadeFacts, MeshSizes
    <3>3. mesh.cp > 1 => LocalSize(mesh) = mesh.cp
      <4>1. CASE mesh.bp = 1
        BY <3>2, <4>1 DEF LocalSize
      <4>2. CASE mesh.bp = mesh.cp
        BY <3>2, <4>2 DEF LocalSize
      <4>3. CASE mesh.cp = 1
        BY <3>2, <4>3
      <4> QED
        BY <1>0, <4>1, <4>2, <4>3 DEF OneRing
    <3> QED
      BY <3>1, <3>3
  <2> QED
    BY <1>0, <2>1, GroupSpans DEF SizedNames, SpanOf
<1>2. c.op = "mean" /\ c.over = Own(p, "context_block") /\ c.kinds = ContextKinds \cap Kinds
  BY DEF Collective
<1>3. Doing(j, c.kinds, Y, Many(Y))
  <2> SUFFICES ASSUME NEW k \in Kinds
               PROVE  (k \in c.kinds => Reduces(k, j, Y, Many(Y))) /\ (k \notin c.kinds => Keeps(k, j))
    BY DEF Doing
  <2>1. k \in c.kinds <=> k \in ContextKinds
    BY <1>2
  <2>2. /\ k \in ContextKinds => Reduces(k, j, Y, Many(Y))
        /\ k \notin ContextKinds => Keeps(k, j)
    BY ContextMean
  <2> QED
    BY <2>1, <2>2
<1>4. Many(Y) = LocalSize(mesh)
  <2>1. Many(Y) = 1 * (LocalSize(mesh) * (1 * 1))
    BY DEF Many
  <2> QED
    BY <2>1, Sizes
<1>5. Y \in SUBSET Axes
  BY DEF Axes
<1>6. Many(Y) \in Nat \ {0}
  BY ManyIs
<1> HIDE DEF Y
<1>7. Ready(c, p, j, Y, Many(Y))
  <2>1. Many(Y) = IF c.op = "sum" THEN 1 ELSE Len(c.over)
    BY <1>1, <1>2, <1>4
  <2>2. ToSet(c.over) = Around(Y, plan[p].at)
    BY <1>1, <1>2
  <2> QED
    BY <1>3, <1>5, <1>6, <2>1, <2>2 DEF Ready
<1> QED
  BY <1>7 DEF Y

\* The mean over its model replica.
LEMMA ModelReady ==
  ASSUME PlanMade, Covered, ~ Zero, mesh.pp = 1, NEW p \in Ranks,
         NumModel = 1, NEW j, j = 1 + NumData + NumNorm,
         NEW c, c = Collective("mean", Own(p, "model"), {"dense", "norm"} \cap Kinds)
  PROVE  Ready(c, p, j, {"local", "tp", "ep"}, Many({"local", "tp", "ep"}))
<1> DEFINE Y == {"local", "tp", "ep"}
<1>1. /\ ToSet(Own(p, "model")) = Around(Y, plan[p].at)
      /\ Len(Own(p, "model")) = ModelSize(mesh)
  BY GroupSpans DEF SizedNames, SpanOf, GroupSize
<1>2. c.op = "mean" /\ c.over = Own(p, "model") /\ c.kinds = {"dense", "norm"} \cap Kinds
  BY DEF Collective
<1>3. Doing(j, c.kinds, Y, Many(Y))
  <2> SUFFICES ASSUME NEW k \in Kinds
               PROVE  (k \in c.kinds => Reduces(k, j, Y, Many(Y))) /\ (k \notin c.kinds => Keeps(k, j))
    BY DEF Doing
  <2>1. k \in c.kinds <=> k \in {"dense", "norm"}
    BY <1>2
  <2>2. /\ k \in {"dense", "norm"} => Reduces(k, j, Y, Many(Y))
        /\ k \notin {"dense", "norm"} => Keeps(k, j)
    BY ModelMean
  <2> QED
    BY <2>1, <2>2
<1>4. Many(Y) = ModelSize(mesh)
  <2> DEFINE l == LocalSize(mesh)
             t == mesh.tp
             e == mesh.ep
  <2>1. Many(Y) = 1 * (l * (t * e))
    BY DEF Many
  <2>2. l \in Nat /\ t \in Nat /\ e \in Nat
    BY Sizes
  <2>3. ModelSize(mesh) = 1 * (l * (t * e))
    BY <2>2 DEF ModelSize, PerPipeline, PerLocal
  <2> QED
    BY <2>1, <2>3
<1>5. Y \in SUBSET Axes
  BY DEF Axes
<1>6. Many(Y) \in Nat \ {0}
  BY ManyIs
<1> HIDE DEF Y
<1>7. Ready(c, p, j, Y, Many(Y))
  <2>1. Many(Y) = IF c.op = "sum" THEN 1 ELSE Len(c.over)
    BY <1>1, <1>2, <1>4
  <2>2. ToSet(c.over) = Around(Y, plan[p].at)
    BY <1>1, <1>2
  <2> QED
    BY <1>3, <1>5, <1>6, <2>1, <2>2 DEF Ready
<1> QED
  BY <1>7 DEF Y

\* The mean over its data group, or over everybody.
LEMMA DataReady ==
  ASSUME PlanMade, Covered, ~ Zero, mesh.pp = 1, NEW p \in Ranks, NumData = 1, NEW j, j = 1 + NumNorm,
         NEW c, c = Collective("mean", DataGroup(p), Kinds \cap Kinds)
  PROVE  Ready(c, p, j, DataSpan, Many(DataSpan))
<1> DEFINE Y == DataSpan
<1>1. ToSet(DataGroup(p)) = Around(Y, plan[p].at) /\ Len(DataGroup(p)) = DataSize
  <2>1. Len(DataGroup(p)) = DataSize
    BY DataShape
  <2>2. ToSet(Own(p, "data")) = Around({"dp"}, plan[p].at)
    BY GroupSpans DEF SizedNames, SpanOf
  <2>3. ToSet(Everyone) = Around(Axes, plan[p].at)
    BY EveryoneAround
  <2> QED
    BY <2>1, <2>2, <2>3 DEF DataGroup, DataSpan
<1>2. c.op = "mean" /\ c.over = DataGroup(p) /\ c.kinds = Kinds
  BY DEF Collective
<1>3. Doing(j, c.kinds, Y, Many(Y))
  <2> SUFFICES ASSUME NEW k \in Kinds PROVE Reduces(k, j, Y, Many(Y))
    BY <1>2 DEF Doing
  <2> QED
    BY DataMean
<1>4. Many(Y) = DataSize
  <2> DEFINE d == mesh.dp
             l == LocalSize(mesh)
             t == mesh.tp
             e == mesh.ep
  <2>1. d \in Nat /\ l \in Nat /\ t \in Nat /\ e \in Nat
    BY Sizes
  <2>2. Many(Axes) = d * (l * (t * e)) /\ Many({"dp"}) = d * (1 * (1 * 1))
    BY DEF Many, Axes
  <2>3. WorldSize(mesh) = d * (1 * (l * (t * e)))
    BY <2>1 DEF WorldSize, ModelSize, PerPipeline, PerLocal
  <2>4. d * (1 * (1 * 1)) = d /\ d * (1 * (l * (t * e))) = d * (l * (t * e))
    BY <2>1
  <2> HIDE DEF d, l, t, e
  <2>5. Many(Axes) = WorldSize(mesh) /\ Many({"dp"}) = d
    BY <2>2, <2>3, <2>4
  <2> QED
    BY <2>5 DEF DataSpan, DataSize, d
<1>5. Y \in SUBSET Axes
  BY DEF Axes, DataSpan
<1>6. Many(Y) \in Nat \ {0}
  BY ManyIs
<1> HIDE DEF Y
<1>7. Ready(c, p, j, Y, Many(Y))
  <2>1. Many(Y) = IF c.op = "sum" THEN 1 ELSE Len(c.over)
    BY <1>1, <1>2, <1>4
  <2>2. ToSet(c.over) = Around(Y, plan[p].at)
    BY <1>1, <1>2
  <2> QED
    BY <1>3, <1>5, <1>6, <2>1, <2>2 DEF Ready
<1> QED
  BY <1>7 DEF Y

\* Each mean or sum that a rank comes to is what the gradients need next.
LEMMA NextReady ==
  ASSUME PlanMade, Covered, mesh.pp = 1, NEW p \in Ranks,
         NEW j, j \in 1 .. Len(StepList(p)), NEW c, c = FromEnd(StepList(p), j), c.op \in {"mean", "sum"}
  PROVE  \E Y, d : Ready(c, p, j, Y, d)
<1>0. /\ NumExperts \in {0, 1} /\ NumSum \in {0, 1} /\ NumOptimizer \in {0, 1} /\ NumContext \in {0, 1}
      /\ NumModel \in {0, 1} /\ NumData \in {0, 1} /\ NumNorm \in {0, 1} /\ j \in Nat \ {0}
  BY NumbersAre
<1>1. CASE Zero
  <2>1. /\ Len(StepList(p)) = NumOptimizer + NumSum + NumExperts
        /\ j <= NumExperts => c = Collective("experts", Own(p, "expert"), Kinds \cap Kinds)
        /\ j > NumExperts /\ j <= NumExperts + NumSum =>
             c = Collective("sum", Own(p, "tensor"), {"norm"} \cap Kinds)
        /\ j > NumExperts + NumSum => c = Collective("mean", Own(p, "optimizer"), Kinds \cap Kinds)
    BY <1>1, ZeroShape
  <2>2. ~ (j <= NumExperts)
    <3> SUFFICES ASSUME j <= NumExperts PROVE FALSE
      OBVIOUS
    <3>1. c.op = "experts"
      BY <2>1 DEF Collective
    <3> QED
      BY <3>1
  <2>3. CASE j <= NumExperts + NumSum
    <3>1. NumSum = 1 /\ j = 1 + NumExperts /\ j > NumExperts
      BY <1>0, <2>2, <2>3
    <3>2. j = 1 + AfterSum
      BY <1>1, <3>1 DEF AfterSum
    <3>3. c = Collective("sum", Own(p, "tensor"), {"norm"} \cap Kinds)
      BY <2>1, <2>3, <3>1
    <3> QED
      BY <3>1, <3>2, <3>3, SumReady
  <2>4. CASE j > NumExperts + NumSum
    <3>1. j = 1 + NumSum + NumExperts
      BY <1>0, <2>1, <2>4
    <3>2. c = Collective("mean", Own(p, "optimizer"), Kinds \cap Kinds)
      BY <2>1, <2>4
    <3> QED
      BY <1>1, <3>1, <3>2, OptimizerReady
  <2> QED
    BY <1>0, <2>3, <2>4
<1>2. CASE ~ Zero
  <2>0. OneRing(mesh)
    BY <1>2 DEF Covered, MeshCovered, Zero
  <2>1. /\ Len(StepList(p)) = NumSum + NumContext + NumModel + NumData + NumNorm
        /\ j <= NumNorm => c = Collective("norm", Own(p, "model"), Kinds \cap Kinds)
        /\ j > NumNorm /\ j <= NumData + NumNorm =>
             c = Collective("mean", DataGroup(p), Kinds \cap Kinds)
        /\ j > NumData + NumNorm /\ j <= NumModel + NumData + NumNorm =>
             c = Collective("mean", Own(p, "model"), {"dense", "norm"} \cap Kinds)
        /\ j > NumModel + NumData + NumNorm /\ j <= NumContext + NumModel + NumData + NumNorm =>
             c = Collective("mean", Own(p, "context_block"), ContextKinds \cap Kinds)
        /\ j > NumContext + NumModel + NumData + NumNorm =>
             c = Collective("sum", Own(p, "tensor"), {"norm"} \cap Kinds)
    BY <1>2, <2>0, FirstPartyShape
  <2>2. ~ (j <= NumNorm)
    <3> SUFFICES ASSUME j <= NumNorm PROVE FALSE
      OBVIOUS
    <3>1. c.op = "norm"
      BY <2>1 DEF Collective
    <3> QED
      BY <3>1
  <2>3. CASE j > NumNorm /\ j <= NumData + NumNorm
    <3>1. NumData = 1 /\ j = 1 + NumNorm
      BY <1>0, <2>3
    <3>2. c = Collective("mean", DataGroup(p), Kinds \cap Kinds)
      BY <2>1, <2>3
    <3> QED
      BY <1>2, <3>1, <3>2, DataReady
  <2>4. CASE j > NumData + NumNorm /\ j <= NumModel + NumData + NumNorm
    <3>1. NumModel = 1 /\ j = 1 + NumData + NumNorm
      BY <1>0, <2>4
    <3>2. c = Collective("mean", Own(p, "model"), {"dense", "norm"} \cap Kinds)
      BY <2>1, <2>4
    <3> QED
      BY <1>2, <3>1, <3>2, ModelReady
  <2>5. CASE j > NumModel + NumData + NumNorm /\ j <= NumContext + NumModel + NumData + NumNorm
    <3>1. NumContext = 1 /\ j = 1 + NumModel + NumData + NumNorm
      BY <1>0, <2>5
    <3>2. c = Collective("mean", Own(p, "context_block"), ContextKinds \cap Kinds)
      BY <2>1, <2>5
    <3> QED
      BY <1>2, <3>1, <3>2, ContextReady
  <2>6. CASE j > NumContext + NumModel + NumData + NumNorm
    <3>1. NumSum = 1 /\ j = 1 + NumContext + NumModel + NumData + NumNorm
      BY <1>0, <2>1, <2>6
    <3>2. j = 1 + AfterSum
      <4>1. AfterSum = NumContext + NumModel + NumData + NumNorm
        BY <1>2 DEF AfterSum
      <4> QED
        BY <1>0, <3>1, <4>1
    <3>3. c = Collective("sum", Own(p, "tensor"), {"norm"} \cap Kinds)
      BY <2>1, <2>6
    <3> QED
      BY <3>1, <3>2, <3>3, SumReady
  <2> QED
    BY <1>0, <2>2, <2>3, <2>4, <2>5, <2>6
<1> QED
  BY <1>1, <1>2

\* The expert collective is the last of its list, and the norm as well.
LEMMA LastCalls ==
  ASSUME PlanMade, Covered, mesh.pp = 1, NEW p \in Ranks,
         NEW j, j \in 1 .. Len(StepList(p)), NEW c, c = FromEnd(StepList(p), j)
  PROVE  /\ c.op = "experts" => /\ Zero /\ NumExperts = 1 /\ j = 1
                                /\ c = Collective("experts", Own(p, "expert"), Kinds \cap Kinds)
         /\ c.op = "norm" => ~ Zero /\ NumNorm = 1 /\ j = 1
<1>0. /\ NumExperts \in {0, 1} /\ NumSum \in {0, 1} /\ NumOptimizer \in {0, 1} /\ NumContext \in {0, 1}
      /\ NumModel \in {0, 1} /\ NumData \in {0, 1} /\ NumNorm \in {0, 1} /\ j \in Nat \ {0}
  BY NumbersAre
<1>1. CASE Zero
  <2>1. /\ j <= NumExperts => c = Collective("experts", Own(p, "expert"), Kinds \cap Kinds)
        /\ j > NumExperts /\ j <= NumExperts + NumSum =>
             c = Collective("sum", Own(p, "tensor"), {"norm"} \cap Kinds)
        /\ j > NumExperts + NumSum => c = Collective("mean", Own(p, "optimizer"), Kinds \cap Kinds)
    BY <1>1, ZeroShape
  <2>2. ~ (j <= NumExperts) => c.op \in {"mean", "sum"}
    <3> SUFFICES ASSUME ~ (j <= NumExperts) PROVE c.op \in {"mean", "sum"}
      OBVIOUS
    <3>1. j > NumExperts /\ (j <= NumExperts + NumSum \/ j > NumExperts + NumSum)
      BY <1>0
    <3> QED
      BY <2>1, <3>1 DEF Collective
  <2>3. j <= NumExperts => /\ NumExperts = 1 /\ j = 1 /\ c.op = "experts"
                           /\ c = Collective("experts", Own(p, "expert"), Kinds \cap Kinds)
    <3> SUFFICES ASSUME j <= NumExperts PROVE NumExperts = 1 /\ j = 1 /\ c.op = "experts"
      BY <2>1
    <3>1. c.op = "experts"
      BY <2>1 DEF Collective
    <3> QED
      BY <1>0, <3>1
  <2> QED
    BY <1>1, <2>2, <2>3
<1>2. CASE ~ Zero
  <2>0. OneRing(mesh)
    BY <1>2 DEF Covered, MeshCovered, Zero
  <2>1. /\ j <= NumNorm => c = Collective("norm", Own(p, "model"), Kinds \cap Kinds)
        /\ j > NumNorm /\ j <= NumData + NumNorm =>
             c = Collective("mean", DataGroup(p), Kinds \cap Kinds)
        /\ j > NumData + NumNorm /\ j <= NumModel + NumData + NumNorm =>
             c = Collective("mean", Own(p, "model"), {"dense", "norm"} \cap Kinds)
        /\ j > NumModel + NumData + NumNorm /\ j <= NumContext + NumModel + NumData + NumNorm =>
             c = Collective("mean", Own(p, "context_block"), ContextKinds \cap Kinds)
        /\ j > NumContext + NumModel + NumData + NumNorm =>
             c = Collective("sum", Own(p, "tensor"), {"norm"} \cap Kinds)
    BY <1>2, <2>0, FirstPartyShape
  <2>2. ~ (j <= NumNorm) => c.op \in {"mean", "sum"}
    <3> SUFFICES ASSUME ~ (j <= NumNorm) PROVE c.op \in {"mean", "sum"}
      OBVIOUS
    <3>1. \/ j > NumNorm /\ j <= NumData + NumNorm
          \/ j > NumData + NumNorm /\ j <= NumModel + NumData + NumNorm
          \/ j > NumModel + NumData + NumNorm /\ j <= NumContext + NumModel + NumData + NumNorm
          \/ j > NumContext + NumModel + NumData + NumNorm
      BY <1>0
    <3> QED
      BY <2>1, <3>1 DEF Collective
  <2>3. j <= NumNorm => NumNorm = 1 /\ j = 1 /\ c.op = "norm"
    <3> SUFFICES ASSUME j <= NumNorm PROVE NumNorm = 1 /\ j = 1 /\ c.op = "norm"
      OBVIOUS
    <3>1. c.op = "norm"
      BY <2>1 DEF Collective
    <3> QED
      BY <1>0, <3>1
  <2> QED
    BY <1>2, <2>2, <2>3
<1> QED
  BY <1>1, <1>2

\* The mean over the expert group; what experts hold is a sum over it already.
LEMMA ExpertsStep ==
  ASSUME SyncInv, Covered, GradOK(phase, todo, grad),
         NEW p \in Ranks, Waiting(p), NEW c, c = Current(p), SyncExperts(c)
  PROVE  GradOK(phase', todo', grad')
<1>1. c.op = "experts" /\ Enter(c)
  BY DEF SyncExperts
<1>2. /\ phase = "step" /\ PlanMade /\ mesh.pp = 1 /\ Callers(c) = ToSet(c.over)
      /\ Len(todo[p]) \in 1 .. Len(StepList(p)) /\ FromEnd(StepList(p), Len(todo[p])) = c
      /\ \A q \in Ranks : q \in Callers(c) => Len(todo[q]) = Len(todo[p])
  BY <1>1, CallTaken
<1>3. Zero /\ NumExperts = 1 /\ Len(todo[p]) = 1 /\ c = Collective("experts", Own(p, "expert"), Kinds \cap Kinds)
  BY <1>1, <1>2, LastCalls
<1> DEFINE Y == {"ep"}
           G == Around(Y, plan[p].at)
<1>4. ToSet(c.over) = G
  <2>1. ToSet(Own(p, "expert")) = G
    BY <1>2, GroupSpans DEF SizedNames, SpanOf
  <2> QED
    BY <1>3, <2>1 DEF Collective
<1>5. mesh.ep \in Nat \ {0} /\ Y \in SUBSET Axes /\ 1 - 1 = 0
  BY <1>2, Sizes DEF Axes
<1>6. \A x \in G : x \in Ranks
  BY DEF Around
<1>7. ASSUME NEW q \in Ranks, NEW k \in Kinds, q \in G
      PROVE  CellsAt(grad'[q][k], k, q, 1 - 1)
  <2>1. AllCells(G, k, 1)
    <3>1. \A x \in G : Len(todo[x]) = 1
      BY <1>2, <1>3, <1>4, <1>6
    <3> HIDE DEF G
    <3> QED
      BY <1>2, <1>6, <3>1 DEF GradOK, AllCells
  <2>2. grad'[q][k] = IF k = "expert" THEN [a \in DOMAIN grad[q][k] |-> grad[q][k][a] \div mesh.ep]
                      ELSE Total(c, k, mesh.ep)
    BY <1>4, <1>7 DEF SyncExperts
  <2>3. CASE k # "expert"
    <3>1. Reduces(k, 1, Y, mesh.ep)
      BY <1>2, <1>3, <2>3, ZeroExperts
    <3> HIDE DEF Y
    <3>2. CellsAt(Total(c, k, mesh.ep), k, q, 1 - 1)
      BY <1>2, <1>4, <1>5, <1>7, <2>1, <3>1, TotalCells
    <3> QED
      BY <2>2, <2>3, <3>2
  <2>4. CASE k = "expert"
    <3>1. Pend(k, 0) = Pend(k, 1) /\ Weight(k, 0) = Weight(k, 1) \div mesh.ep
      BY <1>2, <1>3, <2>4, ZeroExperts
    <3>2. CellsAt(grad[q][k], k, q, 1)
      BY <1>7, <2>1 DEF AllCells
    <3> DEFINE g == grad[q][k]
               h == [a \in DOMAIN g |-> g[a] \div mesh.ep]
    <3>3. 0 \div mesh.ep = 0
      BY <1>5
    <3>4. ASSUME NEW a \in Contributions(k)
          PROVE  h[a] = Cell(k, 0, plan[q].at, PlaceOf(k, a))
      <4>1. h[a] = g[a] \div mesh.ep /\ g[a] = Cell(k, 1, plan[q].at, PlaceOf(k, a))
        BY <3>2 DEF CellsAt
      <4> HIDE DEF g, h
      <4> QED
        BY <3>1, <3>3, <4>1 DEF Cell
    <3>5. DOMAIN h = Contributions(k)
      BY <3>2 DEF CellsAt
    <3>6. grad'[q][k] = h
      BY <2>2, <2>4
    <3> HIDE DEF g, h
    <3>7. CellsAt(h, k, q, 0)
      BY <3>4, <3>5 DEF CellsAt
    <3> QED
      BY <1>5, <3>6, <3>7
  <2> QED
    BY <2>3, <2>4
<1>8. ASSUME NEW q \in Ranks, NEW k \in Kinds, q \notin G
      PROVE  grad'[q][k] = grad[q][k]
  BY <1>4, <1>8 DEF SyncExperts
<1>9. c.op # "new"
  BY <1>1
<1> HIDE DEF G
<1>10. \A q \in Ranks, k \in Kinds :
         /\ q \in ToSet(c.over) => CellsAt(grad'[q][k], k, q, Len(todo[p]) - 1)
         /\ q \notin ToSet(c.over) => grad'[q][k] = grad[q][k]
  BY <1>3, <1>4, <1>7, <1>8
<1> QED
  BY <1>1, <1>9, <1>10, CallKeepsGrad

\* The norm leaves the gradients alone.
LEMMA NormGrad ==
  ASSUME SyncInv, Covered, GradOK(phase, todo, grad),
         NEW p \in Ranks, Waiting(p), NEW c, c = Current(p), ClipNorm(c)
  PROVE  GradOK(phase', todo', grad')
<1>1. c.op = "norm" /\ Enter(c) /\ grad' = grad
  BY DEF ClipNorm
<1>2. /\ phase = "step" /\ PlanMade /\ mesh.pp = 1 /\ Callers(c) = ToSet(c.over)
      /\ Len(todo[p]) \in 1 .. Len(StepList(p)) /\ FromEnd(StepList(p), Len(todo[p])) = c
      /\ \A q \in Ranks : q \in Callers(c) => Len(todo[q]) = Len(todo[p])
  BY <1>1, CallTaken
<1>3. ~ Zero /\ NumNorm = 1 /\ Len(todo[p]) = 1
  BY <1>1, <1>2, LastCalls
<1>4. ASSUME NEW q \in Ranks, NEW k \in Kinds, q \in ToSet(c.over)
      PROVE  CellsAt(grad'[q][k], k, q, Len(todo[p]) - 1)
  <2> DEFINE j == Len(todo[p])
             i == j - 1
             g == grad[q][k]
  <2>1. CellsAt(g, k, q, j)
    BY <1>2, <1>4 DEF GradOK
  <2>2. Keeps(k, j)
    BY <1>2, <1>3, NormKeeps
  <2>3. i = j - 1
    OBVIOUS
  <2> HIDE DEF i, j, g
  <2>4. CellsAt(g, k, q, i)
    BY <2>1, <2>2, <2>3, KeepsCells
  <2> QED
    BY <1>1, <2>4 DEF g, i, j
<1>5. \A q \in Ranks, k \in Kinds :
         /\ q \in ToSet(c.over) => CellsAt(grad'[q][k], k, q, Len(todo[p]) - 1)
         /\ q \notin ToSet(c.over) => grad'[q][k] = grad[q][k]
  BY <1>1, <1>4
<1>6. c.op # "new"
  BY <1>1
<1> QED
  BY <1>1, <1>5, <1>6, CallKeepsGrad

\* The step starts from the backward passes, with the whole list to go.
LEMMA StartGrad ==
  ASSUME SyncInv, Covered, GradOK(phase, todo, grad), StartStep
  PROVE  GradOK(phase', todo', grad')
<1>0. PlanMade /\ SyncOK(phase, handle, todo)
  BY DEF SyncInv
<1>1. /\ phase = "setup" /\ phase' = "step" /\ mesh.pp = 1 /\ grad' = grad
      /\ \A q \in Ranks : todo[q] = <<>>
  BY DEF StartStep, Waiting
<1>2. ASSUME NEW r \in Ranks PROVE todo'[r] = StepList(r)
  <2>1. HandlesOwn(handle) /\ SetupOK(handle, todo)
    BY <1>0, <1>1 DEF SyncOK
  <2>2. HandlesAll(handle)
    <3>1. \A q \in Ranks : ToSet(todo[q]) = {}
      BY <1>1 DEF ToSet
    <3> QED
      BY <2>1, <3>1 DEF SetupOK, HandlesAll
  <2>3. todo'[r] = IF Zero THEN ZeroSync(r) ELSE FirstPartySync(r)
    BY DEF StartStep
  <2> QED
    BY <1>0, <2>1, <2>2, <2>3, StepListIs
<1>3. ASSUME NEW r \in Ranks, NEW k \in Kinds
      PROVE  CellsAt(grad'[r][k], k, r, Len(todo'[r]))
  <2>1. grad'[r][k] = Backward(k, r)
    BY <1>1 DEF GradOK
  <2>2. DOMAIN Backward(k, r) = Contributions(k)
    BY DEF Backward
  <2>3. \A a \in Contributions(k) :
          Backward(k, r)[a] = Cell(k, Len(StepList(r)), plan[r].at, PlaceOf(k, a))
    BY <1>0, <1>1, StartCell
  <2> QED
    BY <1>2, <2>1, <2>2, <2>3 DEF CellsAt
<1> QED
  BY <1>1, <1>3 DEF GradOK

\* Every step keeps the gradients what they should be.
LEMMA GradStep ==
  ASSUME SyncInv, Covered, GradOK(phase, todo, grad), [Next]_vars
  PROVE  GradOK(phase', todo', grad')
<1>0. PlanMade
  BY DEF SyncInv
<1>1. ASSUME NEW p \in Ranks, Waiting(p), NewGroup(Current(p)) PROVE GradOK(phase', todo', grad')
  <2>1. Current(p).op = "new" /\ phase' = phase /\ grad' = grad
    BY <1>1 DEF NewGroup, Enter
  <2>2. phase = "setup"
    BY <1>1, <2>1, NewInSetup
  <2> QED
    BY <2>1, <2>2 DEF GradOK
<1>2. ASSUME NEW p \in Ranks, Waiting(p), AllReduce(Current(p)) PROVE GradOK(phase', todo', grad')
  <2> DEFINE c == Current(p)
             j == Len(todo[p])
  <2>1. c.op \in {"mean", "sum"} /\ c.op # "new" /\ Enter(c)
    BY <1>2 DEF AllReduce
  <2>2. mesh.pp = 1 /\ j \in 1 .. Len(StepList(p)) /\ FromEnd(StepList(p), j) = c
    BY <1>2, <2>1, CallTaken
  <2> HIDE DEF c, j
  <2>3. PICK Y, d : Ready(c, p, j, Y, d)
    BY <1>0, <2>1, <2>2, NextReady
  <2>4. /\ Y \in SUBSET Axes /\ ToSet(c.over) = Around(Y, plan[p].at)
        /\ d \in Nat \ {0} /\ d = IF c.op = "sum" THEN 1 ELSE Len(c.over)
        /\ Doing(j, c.kinds, Y, d)
    BY <2>3 DEF Ready
  <2>5. AllReduce(c) /\ c = Current(p) /\ Doing(Len(todo[p]), c.kinds, Y, d)
    BY <1>2, <2>4 DEF c, j
  <2> QED
    BY <1>2, <2>4, <2>5, ReduceStep
<1>3. ASSUME NEW p \in Ranks, Waiting(p), SyncExperts(Current(p)) PROVE GradOK(phase', todo', grad')
  BY <1>3, ExpertsStep
<1>4. ASSUME NEW p \in Ranks, Waiting(p), ClipNorm(Current(p)) PROVE GradOK(phase', todo', grad')
  BY <1>4, NormGrad
<1>5. CASE StartStep
  BY <1>5, StartGrad
<1>6. CASE Stop
  BY <1>6 DEF Stop, vars
<1>7. CASE UNCHANGED vars
  BY <1>7 DEF vars
<1> QED
  BY <1>1, <1>2, <1>3, <1>4, <1>5, <1>6, <1>7 DEF Next

\* The inductive invariant of the gradients.
GradInv == Covered => GradOK(phase, todo, grad)

\* What a gradient should be follows from the inputs, which do not change.
LEMMA CellsNext ==
  ASSUME UNCHANGED inputs, NEW k, NEW r
  PROVE  /\ Backward(k, r)' = Backward(k, r) /\ Contributions(k)' = Contributions(k)
         /\ \A j, c, a : Cell(k, j, c, PlaceOf(k, a))' = Cell(k, j, c, PlaceOf(k, a))
<1>1. mesh' = mesh /\ backend' = backend /\ sp' = sp /\ plan' = plan
  BY DEF inputs
<1>2. ASSUME NEW q PROVE Computed(k, q)' = Computed(k, q)
  BY <1>1 DEF Computed, Input, Shard
<1>3. Contributions(k)' = Contributions(k)
  BY <1>1, <1>2 DEF Contributions, Ranks
<1>4. Unit' = Unit
  BY <1>1 DEF Unit
<1>5. Backward(k, r)' = Backward(k, r)
  BY <1>2, <1>3, <1>4 DEF Backward
<1>6. /\ NumExperts' = NumExperts /\ NumSum' = NumSum /\ NumContext' = NumContext
      /\ NumModel' = NumModel /\ NumData' = NumData /\ NumNorm' = NumNorm /\ Zero' = Zero
  BY <1>1 DEF NumExperts, NumSum, NumContext, NumModel, NumData, NumNorm, DataSize, Zero
<1>7. ASSUME NEW j PROVE Pend(k, j)' = Pend(k, j)
  <2>1. AfterDp' = AfterDp /\ AfterSum' = AfterSum /\ AfterLocal(k)' = AfterLocal(k)
    BY <1>6 DEF AfterDp, AfterSum, AfterLocal
  <2> QED
    BY <1>1, <2>1 DEF Pend
<1>8. ASSUME NEW j PROVE Weight(k, j)' = Weight(k, j)
  <2>1. Spread(k, j)' = Spread(k, j)
    BY <1>1, <1>7 DEF Spread
  <2>2. ASSUME NEW S PROVE Many(S)' = Many(S)
    BY <1>1 DEF Many
  <2>3. Divisor(k, j)' = Divisor(k, j)
    BY <2>1, <2>2, <1>1 DEF Divisor, Many
  <2> QED
    BY <1>4, <2>3 DEF Weight
<1>9. ASSUME NEW j, NEW c, NEW a
      PROVE  Cell(k, j, c, PlaceOf(k, a))' = Cell(k, j, c, PlaceOf(k, a))
  <2>1. PlaceOf(k, a)' = PlaceOf(k, a)
    BY <1>1 DEF PlaceOf
  <2>2. Pend(k, j)' = Pend(k, j) /\ Weight(k, j)' = Weight(k, j)
    BY <1>7, <1>8
  <2> QED
    BY <2>1, <2>2 DEF Cell, Same
<1> QED
  BY <1>3, <1>5, <1>9

\* The next state is judged by the same inputs.
LEMMA GradNext ==
  ASSUME UNCHANGED inputs, Covered => GradOK(phase', todo', grad')
  PROVE  GradInv'
<1>1. mesh' = mesh /\ backend' = backend /\ sp' = sp /\ plan' = plan
  BY DEF inputs
<1>2. Ranks' = Ranks /\ Kinds' = Kinds /\ Covered' = Covered
  BY <1>1 DEF Ranks, Kinds, Covered
<1> SUFFICES ASSUME Covered PROVE GradOK(phase, todo, grad)'
  BY <1>2 DEF GradInv
<1> SUFFICES ASSUME NEW r \in Ranks, NEW k \in Kinds
             PROVE  /\ phase' = "setup" => grad'[r][k] = Backward(k, r)'
                    /\ phase' = "step" => CellsAt(grad[r][k], k, r, Len(todo[r]))'
  BY <1>2 DEF GradOK
<1>3. /\ Backward(k, r)' = Backward(k, r) /\ Contributions(k)' = Contributions(k)
      /\ \A j, c, a : Cell(k, j, c, PlaceOf(k, a))' = Cell(k, j, c, PlaceOf(k, a))
  BY CellsNext
<1>4. phase' = "setup" => grad'[r][k] = Backward(k, r)'
  BY <1>3 DEF GradOK
<1>5. CASE phase' = "step"
  <2>1. CellsAt(grad'[r][k], k, r, Len(todo'[r]))
    BY <1>5 DEF GradOK
  <2> QED
    BY <1>1, <1>3, <1>4, <2>1 DEF CellsAt
<1> QED
  BY <1>4, <1>5

\* Nothing has been reduced at the start.
LEMMA GradInit == Init => GradInv
<1> SUFFICES ASSUME Init PROVE GradOK(phase, todo, grad)
  BY DEF GradInv
<1>1. phase = "setup" /\ grad = [r \in Ranks |-> [k \in Kinds |-> Backward(k, r)]]
  BY DEF Init
<1> QED
  BY <1>1 DEF GradOK

\* A rank with nothing to go has the mean.
LEMMA GradDone == SyncInv /\ GradInv => (Covered => GradientIsMean)
<1> SUFFICES ASSUME SyncInv, GradInv, Covered, phase = "step",
                    NEW r \in Ranks, ~ Waiting(r), NEW k \in Kinds
             PROVE  /\ {a.sample : a \in Contributions(k)} = 0 .. mesh.dp * mesh.ep - 1
                    /\ \A a \in Contributions(k) :
                         grad[r][k][a] = IF a.shard = Shard(k, r)
                                         THEN Unit \div (mesh.dp * mesh.ep * LocalSize(mesh)) ELSE 0
  BY DEF GradientIsMean
<1>1. PlanMade /\ SyncOK(phase, handle, todo)
  BY DEF SyncInv
<1>2. mesh.pp = 1
  BY <1>1 DEF SyncOK, StepOK
<1>3. Len(todo[r]) = 0
  <2>1. todo[r] = <<>>
    BY DEF Waiting
  <2>2. Len(<<>>) = 0
    OBVIOUS
  <2> QED
    BY <2>1, <2>2, Zenon
<1>4. CellsAt(grad[r][k], k, r, 0)
  BY <1>3 DEF GradInv, GradOK
<1>5. ASSUME NEW a \in Contributions(k)
      PROVE  grad[r][k][a] = IF a.shard = Shard(k, r)
                             THEN Unit \div (mesh.dp * mesh.ep * LocalSize(mesh)) ELSE 0
  <2>1. grad[r][k][a] = Cell(k, 0, plan[r].at, PlaceOf(k, a))
    BY <1>4 DEF CellsAt
  <2>2. Cell(k, 0, plan[r].at, PlaceOf(k, a))
          = IF a.shard = Shard(k, r) THEN Unit \div (mesh.dp * mesh.ep * LocalSize(mesh)) ELSE 0
    BY <1>1, <1>2, LastCell
  <2> QED
    BY <2>1, <2>2
<1>6. {a.sample : a \in Contributions(k)} = 0 .. mesh.dp * mesh.ep - 1
  BY <1>1, <1>2, SamplesAre
<1> QED
  BY <1>5, <1>6

\* Whatever the mesh and the optimizer backend, as long as the groups of the
\* backend cover the mesh, a rank that is done holds the mean.
THEOREM CoveredGradientIsMean == Spec => [](Covered => GradientIsMean)
<1>1. SyncInv /\ GradInv /\ [Next]_vars => GradInv'
  <2> SUFFICES ASSUME SyncInv, GradInv, [Next]_vars PROVE GradInv'
    OBVIOUS
  <2>1. UNCHANGED inputs
    BY InputsKept
  <2>2. Covered => GradOK(phase', todo', grad')
    BY GradStep DEF GradInv
  <2> QED
    BY <2>1, <2>2, GradNext
<1> QED
  BY <1>1, GradInit, GradDone, SyncAlways, PTL DEF Spec

\* So it does in every run, when the instances are ones that are covered.
THEOREM GradientIsMeanAlways ==
  Spec /\ (\A i \in Instances : MeshCovered(i.mesh, i.backend)) => []GradientIsMean
<1>1. Init /\ (\A i \in Instances : MeshCovered(i.mesh, i.backend)) => Covered
  BY DEF Init, Covered
<1>2. Covered /\ [Next]_vars => Covered'
  <2> SUFFICES ASSUME Covered, [Next]_vars PROVE Covered'
    OBVIOUS
  <2>1. UNCHANGED inputs
    BY InputsKept
  <2> QED
    BY <2>1 DEF inputs, Covered
<1> QED
  BY <1>1, <1>2, CoveredGradientIsMean, PTL DEF Spec
=============================================================================
