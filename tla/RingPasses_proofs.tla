--------------------------- MODULE RingPasses_proofs ---------------------------
(***************************************************************************)
(* Theorems about the ring passes for every number of ranks, every         *)
(* sequence of passes, and transfers that are buffered or not: a rank       *)
(* computes on the shard it means to, a packet is the exchange its receiver *)
(* posted, and the sums that come home are complete.                       *)
(***************************************************************************)
EXTENDS RingPasses, TLAPS

-----------------------------------------------------------------------------
(* Queues, and places in a ring.                                           *)

\* What is queued, and the head of it.
LEMMA QueueDomain ==
  ASSUME NEW S, NEW q \in Seq(S)
  PROVE  /\ Len(q) \in Nat /\ DOMAIN q = 1 .. Len(q)
         /\ \A i \in DOMAIN q : q[i] \in S
         /\ q # <<>> => 1 \in DOMAIN q /\ Head(q) = q[1]
  OBVIOUS

\* Every operation of a queue updated in place.
LEMMA QueueMap ==
  ASSUME NEW S, NEW q \in Seq(S), NEW f, f = [i \in DOMAIN q |-> f[i]],
         \A i \in DOMAIN q : f[i] \in S
  PROVE  f \in Seq(S) /\ Len(f) = Len(q)
  OBVIOUS

\* A number is its quotient and its remainder.
LEMMA Division ==
  ASSUME NEW x \in Int, NEW S \in Nat \ {0}
  PROVE  x = S * (x \div S) + (x % S) /\ x % S \in 0 .. S - 1 /\ x \div S \in Int
<1>1. x \div S \in Int
  OBVIOUS
<1>2. x % S \in 0 .. S - 1
  OBVIOUS
<1>3. x = S * (x \div S) + (x % S)
  OBVIOUS
<1> QED
  BY <1>1, <1>2, <1>3

\* The only multiple of S between -S and S is zero.
LEMMA NoMultipleBetween ==
  ASSUME NEW S \in Nat \ {0}, NEW k \in Int, S * k < S, -S < S * k
  PROVE  k = 0
<1>1. ASSUME k >= 1 PROVE FALSE
  <2>1. S * k >= S * 1
    BY <1>1
  <2> QED
    BY <2>1
<1>2. ASSUME k <= -1 PROVE FALSE
  <2>1. S * k <= S * (-1)
    BY <1>2
  <2> QED
    BY <2>1
<1> QED
  BY <1>1, <1>2

\* Only one number below S is left over.
LEMMA RemainderUnique ==
  ASSUME NEW S \in Nat \ {0}, NEW q \in Int, NEW r \in 0 .. S - 1
  PROVE  (S * q + r) % S = r
<1> DEFINE x == S * q + r
           d == x \div S
           m == x % S
<1>1. x \in Int /\ x = S * q + r
  OBVIOUS
<1>2. x = S * d + m /\ m \in 0 .. S - 1 /\ d \in Int
  BY <1>1, Division
<1> HIDE DEF x, d, m
<1>3. S * (d - q) = r - m
  BY <1>1, <1>2
<1>4. d - q = 0
  BY <1>2, <1>3, NoMultipleBetween
<1>5. m = r
  BY <1>2, <1>3, <1>4
<1> QED
  BY <1>5 DEF m, x

-----------------------------------------------------------------------------
(* The invariant.  Its parts take the state they speak of as arguments.    *)

\* The rank j places to the right of r in a ring of n.
Shift(n, r, j) == IF r + j < n THEN r + j ELSE r + j - n
LeftOf(n, r) == IF r = 0 THEN n - 1 ELSE r - 1

\* r and the k - 1 ranks to its right have contributed once.
Distance(n, r, q) == IF q >= r THEN q - r ELSE q - r + n
Arc(n, r, k) == [q \in 0 .. n - 1 |-> IF Distance(n, r, q) < k THEN 1 ELSE 0]
RowsOf(n, o) == Tensor(o, [q \in 0 .. n - 1 |-> 0])

\* The buffers of step k of the forward and the query pass.
ShardBuffer(k) ==
  IF k = 0 THEN <<"initial", 0>>
  ELSE IF k = 1 THEN <<"start", 0>>
  ELSE IF k % 2 = 0 THEN <<"initial", 0>> ELSE <<"scratch", 0>>
PacketBuffer(k) == IF k = 0 THEN <<"packet", 0>> ELSE <<"receive", (k - 1) % 2>>

\* What the buffers m of rank r hold in step k, g: received, c: computed.
InForward(n, m, r, k, g) ==
  /\ m[ShardBuffer(k)] = RowsOf(n, Shift(n, r, k))
  /\ g => m[ShardBuffer(k + 1)] = RowsOf(n, Shift(n, r, k + 1))
  /\ k > 0 \/ g => m[<<"start", 0>>] = RowsOf(n, Shift(n, r, 1))

InBackward(n, m, r, k, g, c) ==
  /\ m[<<"kv", k % 2>>] = RowsOf(n, Shift(n, r, k + 1))
  /\ g /\ k < n - 1 => m[<<"kv", (k + 1) % 2>>] = RowsOf(n, Shift(n, r, k + 2))
  /\ k > 0 => m[<<"grad", k % 2>>] = Tensor(Shift(n, r, k), Arc(n, r, k))
  /\ g /\ k > 0 =>
       m[<<"grad", (k + 1) % 2>>] = Tensor(Shift(n, r, k + 1), Arc(n, Shift(n, r, 1), k))
  /\ c => m[<<"local", 0>>] = Tensor(Shift(n, r, k + 1), Arc(n, r, 1))

InQuery(n, m, r, k, g, c) ==
  /\ m[PacketBuffer(k)] = RowsOf(n, Shift(n, r, k))
  /\ g => m[PacketBuffer(k + 1)] = RowsOf(n, Shift(n, r, k + 1))
  /\ \A j \in 0 .. n - 1 : j < k \/ (j = k /\ c) =>
       m[<<"chunk", Shift(n, r, j)>>] = Tensor(Shift(n, r, j), Arc(n, r, 1))

InReduce(n, m, r, k, g) ==
  /\ m[<<"chunk", Shift(n, r, k + 1)>>] = Tensor(Shift(n, r, k + 1), Arc(n, r, k + 1))
  /\ \A j \in k + 2 .. n :
       m[<<"chunk", Shift(n, r, j)>>] = Tensor(Shift(n, r, j), Arc(n, r, 1))
  /\ g => m[<<"recv", 0>>] = Tensor(Shift(n, r, k + 2), Arc(n, Shift(n, r, 1), k + 1))

\* What the pass p leaves behind.
After(n, m, p, r) ==
  /\ p = "forward" => m[<<"start", 0>>] = RowsOf(n, Shift(n, r, 1))
  /\ p = "query" => \A j \in 0 .. n - 1 :
       m[<<"chunk", Shift(n, r, j)>>] = Tensor(Shift(n, r, j), Arc(n, r, 1))
  /\ p = "backward" => m[<<"grad", n % 2>>] = Tensor(r, Arc(n, r, n))
  /\ p = "reduce" => m[<<"chunk", r>>] = Tensor(r, Arc(n, r, n))

Holds(n, m, p, r, k, g, c) ==
  /\ p = "forward" => InForward(n, m, r, k, g)
  /\ p = "backward" => InBackward(n, m, r, k, g, c)
  /\ p = "query" => InQuery(n, m, r, k, g, c)
  /\ p = "reduce" => InReduce(n, m, r, k, g)

\* The steps of a pass that exchange, and the step of the iteration whose exchange
\* is next, before or after the one of step k of pass i is posted.
Count(n, p) == IF p = "backward" THEN n ELSE n - 1
Following(n, ps, i, k) == IF k + 1 < Count(n, ps[i]) THEN <<i, k + 1>> ELSE <<i + 1, 0>>
Cursor(n, ps, i, k, posted) ==
  IF i > Len(ps) THEN <<i, 0>>
  ELSE IF k >= Count(n, ps[i]) THEN <<i + 1, 0>>
  ELSE IF posted THEN Following(n, ps, i, k) ELSE <<i, k>>

\* What rank r sends in step k of a pass.
Carries(n, packet, p, r, k) ==
  /\ Len(packet) = IF p = "backward" /\ 0 < k /\ k < n - 1 THEN 2 ELSE 1
  /\ p \in {"forward", "query"} => packet[1] = RowsOf(n, Shift(n, r, k))
  /\ p = "backward" /\ k < n - 1 => packet[1] = RowsOf(n, Shift(n, r, k + 1))
  /\ p = "backward" /\ 0 < k => packet[Len(packet)] = Tensor(Shift(n, r, k), Arc(n, r, k))
  /\ p = "reduce" => packet[1] = Tensor(Shift(n, r, k + 1), Arc(n, r, k + 1))

\* The packets on a channel are the exchanges from one cursor to another, in order.
Between(n, ps, packets, r, from, to) ==
  \E trail \in [1 .. Len(packets) + 1 -> (1 .. Len(ps) + 1) \X (0 .. n - 1)] :
    /\ trail[1] = from /\ trail[Len(packets) + 1] = to
    /\ \A x \in 1 .. Len(packets) :
         /\ trail[x][1] \in 1 .. Len(ps)
         /\ Carries(n, packets[x], ps[trail[x][1]], r, trail[x][2])
         /\ trail[x + 1] = Following(n, ps, trail[x][1], trail[x][2])

\* A rank is inside a pass, or done with all of them.
StepInv ==
  \A r \in Ranks :
    /\ pass[r] <= Len(passes) => step[r] < Steps(passes[pass[r]])
    /\ pass[r] > Len(passes) => step[r] = 0

BufferInv ==
  \A r \in Ranks :
    /\ pass[r] <= Len(passes) =>
         Holds(N, mem[r], passes[pass[r]], r, step[r], got[r], computed[r])
    /\ pass[r] > Len(passes) => After(N, mem[r], passes[Len(passes)], r)

ChannelInv ==
  \A r \in Ranks :
    LET l == LeftOf(N, r)
    IN Between(N, passes, chan[r], r, Cursor(N, passes, pass[l], step[l], got[l]),
                                      Cursor(N, passes, pass[r], step[r], sent[r]))

-----------------------------------------------------------------------------
(* Going round the ring.                                                   *)

LEMMA RingSize ==
  ASSUME N \in RingSizes
  PROVE  /\ N \in Nat /\ N >= 2 /\ N \in Nat \ {0} /\ Ranks = 0 .. N - 1
         /\ \A r \in Ranks : r \in AllRanks
  BY RingAssumption DEF Ranks, AllRanks

LEMMA OnceRound ==
  ASSUME NEW n \in Nat \ {0}, NEW r \in 0 .. n - 1, NEW j \in 0 .. n
  PROVE  (r + j) % n = Shift(n, r, j)
<1>1. CASE r + j < n
  <2>1. (n * 0 + (r + j)) % n = r + j
    <3>1. r + j \in 0 .. n - 1 /\ 0 \in Int
      BY <1>1
    <3> QED
      BY <3>1, RemainderUnique
  <2>2. n * 0 + (r + j) = r + j
    OBVIOUS
  <2> QED
    BY <1>1, <2>1, <2>2 DEF Shift
<1>2. CASE ~(r + j < n)
  <2>1. (n * 1 + (r + j - n)) % n = r + j - n
    <3>1. r + j - n \in 0 .. n - 1 /\ 1 \in Int
      BY <1>2
    <3> QED
      BY <3>1, RemainderUnique
  <2>2. n * 1 + (r + j - n) = r + j
    OBVIOUS
  <2> QED
    BY <1>2, <2>1, <2>2 DEF Shift
<1> QED
  BY <1>1, <1>2

LEMMA Shifts ==
  ASSUME NEW n \in Nat \ {0}, NEW r \in 0 .. n - 1
  PROVE  /\ Shift(n, r, 0) = r /\ Shift(n, r, n) = r
         /\ \A j \in 0 .. n : Shift(n, r, j) \in 0 .. n - 1
         /\ \A j \in 0 .. n - 1 : Shift(n, Shift(n, r, 1), j) = Shift(n, r, j + 1)
         /\ \A i, j \in 1 .. n : Shift(n, r, i) = Shift(n, r, j) => i = j
         /\ \A i, j \in 0 .. n - 1 : Shift(n, r, i) = Shift(n, r, j) => i = j
         /\ LeftOf(n, r) \in 0 .. n - 1
         /\ Shift(n, LeftOf(n, r), 1) = r /\ LeftOf(n, Shift(n, r, 1)) = r
  BY DEF Shift, LeftOf

LEMMA Neighbours ==
  ASSUME N \in RingSizes, NEW r \in Ranks
  PROVE  /\ Right(r) = Shift(N, r, 1) /\ Right(r) \in Ranks
         /\ Left(r) = LeftOf(N, r) /\ Left(r) \in Ranks
         /\ LeftOf(N, Right(r)) = r
<1>1. N \in Nat \ {0} /\ N >= 2 /\ r \in 0 .. N - 1 /\ 1 \in 0 .. N /\ Ranks = 0 .. N - 1
  BY RingSize
<1>2. Right(r) = Shift(N, r, 1)
  BY <1>1, OnceRound DEF Right
<1>3. Left(r) = LeftOf(N, r)
  <2>1. CASE r = 0
    <3>1. (N * (-1) + (N - 1)) % N = N - 1
      <4>1. N - 1 \in 0 .. N - 1 /\ -1 \in Int
        BY <1>1
      <4> QED
        BY <1>1, <4>1, RemainderUnique
    <3>2. N * (-1) + (N - 1) = r - 1
      BY <1>1, <2>1
    <3> QED
      BY <2>1, <3>1, <3>2 DEF Left, LeftOf
  <2>2. CASE r # 0
    <3>1. (N * 0 + (r - 1)) % N = r - 1
      <4>1. r - 1 \in 0 .. N - 1 /\ 0 \in Int
        BY <1>1, <2>2
      <4> QED
        BY <1>1, <4>1, RemainderUnique
    <3>2. N * 0 + (r - 1) = r - 1
      BY <1>1
    <3> QED
      BY <2>2, <3>1, <3>2 DEF Left, LeftOf
  <2> QED
    BY <2>1, <2>2
<1> QED
  BY <1>1, <1>2, <1>3, Shifts

LEMMA Owners ==
  ASSUME N \in RingSizes, NEW r \in Ranks, NEW k \in 0 .. N - 1
  PROVE  /\ \A p \in {"forward", "query"} : /\ Owner(p, r, k) = Shift(N, r, k)
                                            /\ Owner(p, r, k + 1) = Shift(N, r, k + 1)
         /\ \A p \in {"backward", "reduce"} :
              /\ Owner(p, r, k) = Shift(N, r, k + 1)
              /\ k < N - 1 => Owner(p, r, k + 1) = Shift(N, r, k + 2)
<1>1. N \in Nat \ {0} /\ r \in 0 .. N - 1 /\ k \in 0 .. N /\ k + 1 \in 0 .. N
      /\ r + (k + 1) = r + k + 1 /\ r + k + 0 = r + k /\ r + (k + 1) + 0 = r + (k + 1)
  BY RingSize
<1>2. (r + k) % N = Shift(N, r, k) /\ (r + (k + 1)) % N = Shift(N, r, k + 1)
  BY <1>1, OnceRound
<1>3. k < N - 1 => (r + (k + 2)) % N = Shift(N, r, k + 2) /\ r + (k + 2) = r + (k + 1) + 1
  <2>1. k < N - 1 => k + 2 \in 0 .. N
    BY <1>1
  <2> QED
    BY <1>1, <2>1, OnceRound
<1> QED
  BY <1>1, <1>2, <1>3 DEF Owner

-----------------------------------------------------------------------------
(* Sums over the ring.                                                     *)

LEMMA Arcs ==
  ASSUME NEW n \in Nat, n >= 2, NEW r \in 0 .. n - 1
  PROVE  /\ Arc(n, r, 1) = [q \in 0 .. n - 1 |-> IF q = r THEN 1 ELSE 0]
         /\ Arc(n, r, n) = [q \in 0 .. n - 1 |-> 1]
         /\ \A k \in 1 .. n - 1 :
              [q \in 0 .. n - 1 |-> Arc(n, Shift(n, r, 1), k)[q] + Arc(n, r, 1)[q]] = Arc(n, r, k + 1)
<1>1. \A q \in 0 .. n - 1 : (Distance(n, r, q) < 1) <=> (q = r)
  BY DEF Distance
<1>2. \A q \in 0 .. n - 1 : Distance(n, r, q) < n
  BY DEF Distance
<1>3. ASSUME NEW k \in 1 .. n - 1, NEW q \in 0 .. n - 1
      PROVE  (IF Distance(n, Shift(n, r, 1), q) < k THEN 1 ELSE 0)
               + (IF Distance(n, r, q) < 1 THEN 1 ELSE 0)
             = IF Distance(n, r, q) < k + 1 THEN 1 ELSE 0
  BY DEF Distance, Shift
<1>4. Arc(n, r, 1) = [q \in 0 .. n - 1 |-> IF q = r THEN 1 ELSE 0]
  BY <1>1 DEF Arc
<1>5. Arc(n, r, n) = [q \in 0 .. n - 1 |-> 1]
  BY <1>2 DEF Arc
<1>6. ASSUME NEW k \in 1 .. n - 1
      PROVE  [q \in 0 .. n - 1 |-> Arc(n, Shift(n, r, 1), k)[q] + Arc(n, r, 1)[q]] = Arc(n, r, k + 1)
  <2>1. \A q \in 0 .. n - 1 :
          Arc(n, Shift(n, r, 1), k)[q] + Arc(n, r, 1)[q]
            = IF Distance(n, r, q) < k + 1 THEN 1 ELSE 0
    BY <1>3 DEF Arc
  <2> QED
    BY <2>1 DEF Arc
<1> QED
  BY <1>4, <1>5, <1>6

\* The model's tensors as the invariant names them.
LEMMA Sums ==
  ASSUME N \in RingSizes, NEW r \in Ranks
  PROVE  /\ Only(r) = Arc(N, r, 1) /\ Everyone = Arc(N, r, N)
         /\ \A o : Rows(o) = RowsOf(N, o)
         /\ \A o, x : \A k \in 1 .. N - 1 :
              Plus(Tensor(o, Arc(N, Shift(N, r, 1), k)), Tensor(x, Arc(N, r, 1)))
                = Tensor(o, Arc(N, r, k + 1))
         /\ \A o, x : \A k \in 1 .. N - 1 :
              Plus(Tensor(x, Arc(N, r, 1)), Tensor(o, Arc(N, Shift(N, r, 1), k)))
                = Tensor(x, Arc(N, r, k + 1))
<1>1. N \in Nat /\ N >= 2 /\ r \in 0 .. N - 1 /\ Ranks = 0 .. N - 1
  BY RingSize
<1>2. Only(r) = Arc(N, r, 1) /\ Everyone = Arc(N, r, N)
  BY <1>1, Arcs DEF Only, Everyone
<1>3. \A o : Rows(o) = RowsOf(N, o)
  BY <1>1 DEF Rows, RowsOf, Nothing
<1>4. ASSUME NEW o, NEW x, NEW k \in 1 .. N - 1
      PROVE  Plus(Tensor(o, Arc(N, Shift(N, r, 1), k)), Tensor(x, Arc(N, r, 1)))
               = Tensor(o, Arc(N, r, k + 1))
  <2>1. [q \in Ranks |-> Arc(N, Shift(N, r, 1), k)[q] + Arc(N, r, 1)[q]] = Arc(N, r, k + 1)
    BY <1>1, Arcs
  <2> QED
    BY <2>1 DEF Plus, Tensor
<1>5. ASSUME NEW o, NEW x, NEW k \in 1 .. N - 1
      PROVE  Plus(Tensor(x, Arc(N, r, 1)), Tensor(o, Arc(N, Shift(N, r, 1), k)))
               = Tensor(x, Arc(N, r, k + 1))
  <2>1. [q \in Ranks |-> Arc(N, Shift(N, r, 1), k)[q] + Arc(N, r, 1)[q]] = Arc(N, r, k + 1)
    BY <1>1, Arcs
  <2>2. \A q \in Ranks : Arc(N, r, 1)[q] + Arc(N, Shift(N, r, 1), k)[q]
                           = Arc(N, Shift(N, r, 1), k)[q] + Arc(N, r, 1)[q]
    BY <1>1 DEF Arc
  <2>3. [q \in Ranks |-> Arc(N, r, 1)[q] + Arc(N, Shift(N, r, 1), k)[q]] = Arc(N, r, k + 1)
    BY <2>1, <2>2
  <2> QED
    BY <2>3 DEF Plus, Tensor
<1> QED
  BY <1>2, <1>3, <1>4, <1>5

LEMMA TensorTypes ==
  ASSUME N \in RingSizes, NEW r \in Ranks
  PROVE  /\ \A k : Arc(N, r, k) \in [Ranks -> Nat]
         /\ RowsOf(N, r) \in Tensors /\ Uninitialized \in Tensors
         /\ \A o \in Ranks : \A k : Tensor(o, Arc(N, r, k)) \in Tensors
         /\ \A a, b \in Tensors : Plus(a, b) \in Tensors
<1>1. N \in Nat /\ N >= 2 /\ r \in 0 .. N - 1 /\ Ranks = 0 .. N - 1
  BY RingSize
<1>2. \A k : Arc(N, r, k) \in [Ranks -> Nat]
  BY <1>1 DEF Arc
<1>3. RowsOf(N, r) \in Tensors /\ Uninitialized \in Tensors
  BY <1>1 DEF RowsOf, Uninitialized, Tensors, Tensor, Nothing
<1>4. \A o \in Ranks : \A k : Tensor(o, Arc(N, r, k)) \in Tensors
  BY <1>1, <1>2 DEF Tensors, Tensor
<1>5. ASSUME NEW a \in Tensors, NEW b \in Tensors PROVE Plus(a, b) \in Tensors
  <2>1. a.owner \in 0 .. N /\ a.sum \in [Ranks -> Nat] /\ b.sum \in [Ranks -> Nat]
    BY DEF Tensors
  <2>2. [q \in Ranks |-> a.sum[q] + b.sum[q]] \in [Ranks -> Nat]
    BY <2>1
  <2> QED
    BY <2>1, <2>2 DEF Plus, Tensor, Tensors
<1> QED
  BY <1>2, <1>3, <1>4, <1>5

-----------------------------------------------------------------------------
(* Buffers.                                                                *)

LEMMA Parity ==
  ASSUME NEW k \in Nat
  PROVE  /\ k % 2 \in {0, 1} /\ (k + 1) % 2 = 1 - (k % 2)
         /\ (k + 2) % 2 = k % 2
  OBVIOUS

\* Where the steps of a pass send from and receive into.
LEMMA Buffers ==
  ASSUME N \in RingSizes, NEW r \in Ranks, NEW k \in 0 .. N - 1
  PROVE  /\ SendFrom("forward", r, k) = <<ShardBuffer(k)>>
         /\ ReceiveInto("forward", r, k) = <<ShardBuffer(k + 1)>>
         /\ SendFrom("query", r, k) = <<PacketBuffer(k)>>
         /\ ReceiveInto("query", r, k) = <<PacketBuffer(k + 1)>>
         /\ SendFrom("reduce", r, k) = << <<"chunk", Shift(N, r, k + 1)>> >>
         /\ ReceiveInto("reduce", r, k) = << <<"recv", 0>> >>
         /\ SendFrom("backward", r, k) =
              IF k = 0 THEN << <<"kv", k % 2>> >>
              ELSE IF k = N - 1 THEN << <<"grad", k % 2>> >>
              ELSE << <<"kv", k % 2>>, <<"grad", k % 2>> >>
         /\ ReceiveInto("backward", r, k) =
              IF k = 0 THEN << <<"kv", (k + 1) % 2>> >>
              ELSE IF k = N - 1 THEN << <<"grad", (k + 1) % 2>> >>
              ELSE << <<"kv", (k + 1) % 2>>, <<"grad", (k + 1) % 2>> >>
<1>1. N \in Nat /\ N >= 2 /\ k \in Nat /\ k + 1 \in Nat /\ k + 1 # 0
  BY RingSize
<1>2. \A j \in Nat : j # 0 => (j % 2 = 1) <=> ((j + 1) % 2 = 0)
  BY Parity
<1>3. ReceiveInto("forward", r, k) = <<ShardBuffer(k + 1)>>
  <2>1. k # 0 => ((k % 2 = 1) <=> ((k + 1) % 2 = 0)) /\ k + 1 # 1
    BY <1>1, <1>2
  <2>2. k = 0 => k + 1 = 1
    OBVIOUS
  <2> QED
    BY <1>1, <2>1, <2>2 DEF ReceiveInto, ShardBuffer
<1>4. SendFrom("forward", r, k) = <<ShardBuffer(k)>>
  <2>1. CASE k = 0
    BY <2>1 DEF SendFrom, ShardBuffer
  <2>2. CASE k # 0
    <3>1. k - 1 \in Nat /\ (k - 1) + 1 = k /\ (k - 1 = 0 <=> k = 1)
      BY <1>1, <2>2
    <3>2. k - 1 # 0 => ((k - 1) % 2 = 1 <=> k % 2 = 0)
      BY <1>2, <3>1
    <3>3. SendFrom("forward", r, k) = ReceiveInto("forward", r, k - 1)
      BY <2>2 DEF SendFrom
    <3> QED
      BY <2>2, <3>1, <3>2, <3>3 DEF ReceiveInto, ShardBuffer
  <2> QED
    BY <2>1, <2>2
<1>5. ReceiveInto("query", r, k) = <<PacketBuffer(k + 1)>>
  <2>1. (k + 1) - 1 = k
    BY <1>1
  <2> QED
    BY <1>1, <2>1 DEF ReceiveInto, PacketBuffer
<1>6. SendFrom("query", r, k) = <<PacketBuffer(k)>>
  BY DEF SendFrom, ReceiveInto, PacketBuffer
<1>7. /\ SendFrom("reduce", r, k) = << <<"chunk", Shift(N, r, k + 1)>> >>
      /\ ReceiveInto("reduce", r, k) = << <<"recv", 0>> >>
  BY Owners DEF SendFrom, ReceiveInto
<1>8. SendFrom("backward", r, k) =
        IF k = 0 THEN << <<"kv", k % 2>> >>
        ELSE IF k = N - 1 THEN << <<"grad", k % 2>> >>
        ELSE << <<"kv", k % 2>>, <<"grad", k % 2>> >>
  <2>1. k = 0 => k % 2 = 0
    OBVIOUS
  <2> QED
    BY <1>1, <2>1 DEF SendFrom
<1>9. ReceiveInto("backward", r, k) =
        IF k = 0 THEN << <<"kv", (k + 1) % 2>> >>
        ELSE IF k = N - 1 THEN << <<"grad", (k + 1) % 2>> >>
        ELSE << <<"kv", (k + 1) % 2>>, <<"grad", (k + 1) % 2>> >>
  <2>1. k = 0 => (k + 1) % 2 = 1
    OBVIOUS
  <2>2. k = N - 1 => k + 1 = N
    BY <1>1
  <2> QED
    BY <1>1, <2>1, <2>2 DEF ReceiveInto
<1> QED
  BY <1>3, <1>4, <1>5, <1>6, <1>7, <1>8, <1>9

LEMMA Addresses ==
  ASSUME N \in RingSizes
  PROVE  /\ \A k \in Nat : /\ ShardBuffer(k) \in Places /\ PacketBuffer(k) \in Places
                           /\ <<"kv", k % 2>> \in Places /\ <<"grad", k % 2>> \in Places
                           /\ ShardBuffer(k + 1) # ShardBuffer(k)
                           /\ PacketBuffer(k + 1) # PacketBuffer(k)
                           /\ k > 0 => ShardBuffer(k + 1) # <<"start", 0>>
                           /\ (k + 1) % 2 # k % 2 /\ (k + 2) % 2 = k % 2
         /\ <<"initial", 0>> \in Places /\ <<"start", 0>> \in Places /\ <<"packet", 0>> \in Places
         /\ <<"local", 0>> \in Places /\ <<"recv", 0>> \in Places
         /\ \A q \in Ranks : <<"chunk", q>> \in Places
         /\ ShardBuffer(0) = <<"initial", 0>> /\ ShardBuffer(1) = <<"start", 0>>
         /\ PacketBuffer(0) = <<"packet", 0>>
         /\ \A k \in Nat : \A q : PacketBuffer(k) # <<"chunk", q>>
<1>1. \A k \in Nat : k % 2 \in {0, 1} /\ (k + 1) % 2 = 1 - (k % 2) /\ (k + 2) % 2 = k % 2
  BY Parity
<1>2. \A q \in Ranks : <<"chunk", q>> \in Places
  BY RingSize DEF Places
<1>3. /\ <<"initial", 0>> \in Places /\ <<"start", 0>> \in Places /\ <<"packet", 0>> \in Places
      /\ <<"local", 0>> \in Places /\ <<"recv", 0>> \in Places /\ <<"scratch", 0>> \in Places
  BY DEF Places
<1>4. \A k \in Nat : /\ <<"kv", k % 2>> \in Places /\ <<"grad", k % 2>> \in Places
                     /\ <<"receive", k % 2>> \in Places
  BY <1>1 DEF Places
<1>5. \A k \in Nat : ShardBuffer(k) \in Places
  BY <1>3 DEF ShardBuffer
<1>6. \A k \in Nat : PacketBuffer(k) \in Places
  <2> SUFFICES ASSUME NEW k \in Nat, k # 0 PROVE <<"receive", (k - 1) % 2>> \in Places
    BY <1>3 DEF PacketBuffer
  <2>1. k - 1 \in Nat
    OBVIOUS
  <2> QED
    BY <1>4, <2>1
<1>7. ASSUME NEW k \in Nat
      PROVE  /\ ShardBuffer(k + 1) # ShardBuffer(k)
             /\ k > 0 => ShardBuffer(k + 1) # <<"start", 0>>
  <2>1. k + 1 # 0 /\ (k + 1 = 1 <=> k = 0) /\ (k > 0 <=> k # 0)
    OBVIOUS
  <2>2. (k + 1) % 2 = 0 => k % 2 # 0
    BY <1>1
  <2>3. (k + 1) % 2 # 0 => k % 2 = 0
    BY <1>1
  <2> QED
    BY <2>1, <2>2, <2>3 DEF ShardBuffer
<1>8. ASSUME NEW k \in Nat PROVE PacketBuffer(k + 1) # PacketBuffer(k)
  <2>1. CASE k = 0
    BY <2>1 DEF PacketBuffer
  <2>2. CASE k # 0
    <3>1. (k + 1) - 1 = k /\ k + 1 # 0 /\ k - 1 \in Nat /\ (k - 1) + 1 = k
      BY <2>2
    <3>2. k % 2 # (k - 1) % 2
      BY <1>1, <3>1
    <3> QED
      BY <2>2, <3>1, <3>2 DEF PacketBuffer
  <2> QED
    BY <2>1, <2>2
<1>9. \A k \in Nat : (k + 1) % 2 # k % 2 /\ (k + 2) % 2 = k % 2
  BY <1>1
<1>10. /\ ShardBuffer(0) = <<"initial", 0>> /\ ShardBuffer(1) = <<"start", 0>>
       /\ PacketBuffer(0) = <<"packet", 0>>
       /\ \A k \in Nat : \A q : PacketBuffer(k) # <<"chunk", q>>
  BY DEF ShardBuffer, PacketBuffer
<1> QED
  BY <1>2, <1>3, <1>4, <1>5, <1>6, <1>7, <1>8, <1>9, <1>10

\* A packet as Send makes it up from the buffers m, and as Receive stores it in them.
Packed(m, from) == [i \in DOMAIN from |-> m[from[i]]]
Stored(m, into, packet) ==
  [b \in Places |-> IF \E i \in DOMAIN into \cap DOMAIN packet : into[i] = b
                    THEN packet[CHOOSE i \in DOMAIN into : into[i] = b] ELSE m[b]]

LEMMA PackAll ==
  ASSUME NEW T, NEW m \in [Places -> T], NEW from \in Seq(Places)
  PROVE  /\ Packed(m, from) \in Seq(T) /\ Len(Packed(m, from)) = Len(from)
         /\ \A i \in DOMAIN from : Packed(m, from)[i] = m[from[i]]
<1> DEFINE f == Packed(m, from)
<1>1. f = [i \in DOMAIN from |-> f[i]] /\ \A i \in DOMAIN from : f[i] = m[from[i]]
  BY DEF Packed
<1>2. \A i \in DOMAIN from : from[i] \in Places
  BY QueueDomain
<1>3. \A i \in DOMAIN from : f[i] \in T
  BY <1>1, <1>2
<1> HIDE DEF f
<1>4. f \in Seq(T) /\ Len(f) = Len(from)
  BY <1>1, <1>3, QueueMap
<1> QED
  BY <1>1, <1>4 DEF f

LEMMA PackOne ==
  ASSUME NEW T, NEW m \in [Places -> T], NEW a \in Places, NEW from, from = <<a>>
  PROVE  /\ Packed(m, from) \in Seq(T) /\ Len(Packed(m, from)) = 1
         /\ Packed(m, from)[1] = m[a]
<1>1. from \in Seq(Places) /\ Len(from) = 1 /\ 1 \in DOMAIN from /\ from[1] = a
  OBVIOUS
<1> QED
  BY <1>1, PackAll

\* The same for the buffers of a rank.
LEMMA PackedOne ==
  ASSUME NEW m \in [Places -> Tensors], NEW a, NEW from, from = <<a>> /\ a \in Places
  PROVE  LET packet == Packed(m, from)
         IN packet \in Seq(Tensors) /\ Len(packet) = 1 /\ packet[1] = m[a]
<1>1. Packed(m, from) \in Seq(Tensors)
  BY PackOne
<1>2. Len(Packed(m, from)) = 1
  BY PackOne
<1>3. Packed(m, from)[1] = m[a]
  BY PackOne
<1> QED
  BY <1>1, <1>2, <1>3

LEMMA PackedTwo ==
  ASSUME NEW m \in [Places -> Tensors], NEW a, NEW b, NEW from, from = <<a, b>>,
         a \in Places /\ b \in Places
  PROVE  LET packet == Packed(m, from)
         IN packet \in Seq(Tensors) /\ Len(packet) = 2 /\ packet[1] = m[a] /\ packet[2] = m[b]
<1>1. /\ from \in Seq(Places) /\ Len(from) = 2
      /\ 1 \in DOMAIN from /\ 2 \in DOMAIN from /\ from[1] = a /\ from[2] = b
  OBVIOUS
<1>2. /\ Packed(m, from) \in Seq(Tensors) /\ Len(Packed(m, from)) = Len(from)
      /\ \A i \in DOMAIN from : Packed(m, from)[i] = m[from[i]]
  BY <1>1, PackAll
<1>3. Packed(m, from)[1] = m[from[1]] /\ Packed(m, from)[2] = m[from[2]]
  BY <1>1, <1>2
<1> QED
  BY <1>1, <1>2, <1>3

LEMMA StoreOne ==
  ASSUME NEW T, NEW m \in [Places -> T], NEW a \in Places, NEW packet \in Seq(T), Len(packet) = 1,
         NEW into, into = <<a>>
  PROVE  /\ Stored(m, into, packet) \in [Places -> T]
         /\ Stored(m, into, packet)[a] = packet[1]
         /\ \A b \in Places : b # a => Stored(m, into, packet)[b] = m[b]
<1>1. DOMAIN into = {1} /\ DOMAIN packet = {1} /\ into[1] = a /\ packet[1] \in T
  <2>1. DOMAIN packet = 1 .. 1 /\ \A i \in DOMAIN packet : packet[i] \in T
    BY QueueDomain
  <2>2. DOMAIN into = 1 .. 1 /\ into[1] = a
    OBVIOUS
  <2>3. 1 .. 1 = {1}
    OBVIOUS
  <2> QED
    BY <2>1, <2>2, <2>3
<1>2. \A b : (\E i \in DOMAIN into \cap DOMAIN packet : into[i] = b) <=> b = a
  BY <1>1
<1>3. (CHOOSE i \in DOMAIN into : into[i] = a) = 1
  <2> DEFINE c == CHOOSE i \in DOMAIN into : into[i] = a
  <2>1. 1 \in DOMAIN into /\ into[1] = a
    BY <1>1
  <2>2. c \in DOMAIN into
    BY <2>1, Zenon
  <2> HIDE DEF c
  <2>3. c = 1
    BY <1>1, <2>2
  <2> QED
    BY <2>3 DEF c
<1>4. Stored(m, into, packet) = [b \in Places |-> IF b = a THEN packet[1] ELSE m[b]]
  BY <1>2, <1>3 DEF Stored
<1> QED
  BY <1>1, <1>4

LEMMA StoreTwo ==
  ASSUME NEW T, NEW m \in [Places -> T], NEW a \in Places, NEW b \in Places, a # b,
         NEW packet \in Seq(T), Len(packet) = 2, NEW into, into = <<a, b>>
  PROVE  /\ Stored(m, into, packet) \in [Places -> T]
         /\ Stored(m, into, packet)[a] = packet[1]
         /\ Stored(m, into, packet)[b] = packet[2]
         /\ \A c \in Places : c # a /\ c # b => Stored(m, into, packet)[c] = m[c]
<1>1. /\ DOMAIN into = {1, 2} /\ DOMAIN packet = {1, 2} /\ into[1] = a /\ into[2] = b
      /\ packet[1] \in T /\ packet[2] \in T
  <2>1. DOMAIN packet = 1 .. 2 /\ \A i \in DOMAIN packet : packet[i] \in T
    BY QueueDomain
  <2>2. DOMAIN into = 1 .. 2 /\ into[1] = a /\ into[2] = b
    OBVIOUS
  <2>3. 1 .. 2 = {1, 2}
    OBVIOUS
  <2> QED
    BY <2>1, <2>2, <2>3
<1>2. \A c : (\E i \in DOMAIN into \cap DOMAIN packet : into[i] = c) <=> c = a \/ c = b
  BY <1>1
<1>3. (CHOOSE i \in DOMAIN into : into[i] = a) = 1
  <2> DEFINE x == CHOOSE i \in DOMAIN into : into[i] = a
  <2>1. 1 \in DOMAIN into /\ into[1] = a
    BY <1>1
  <2>2. x \in DOMAIN into /\ into[x] = a
    BY <2>1, Zenon
  <2> HIDE DEF x
  <2>3. x = 1
    BY <1>1, <2>2
  <2> QED
    BY <2>3 DEF x
<1>4. (CHOOSE i \in DOMAIN into : into[i] = b) = 2
  <2> DEFINE x == CHOOSE i \in DOMAIN into : into[i] = b
  <2>1. 2 \in DOMAIN into /\ into[2] = b
    BY <1>1
  <2>2. x \in DOMAIN into /\ into[x] = b
    BY <2>1, Zenon
  <2> HIDE DEF x
  <2>3. x = 2
    BY <1>1, <2>2
  <2> QED
    BY <2>3 DEF x
<1>5. Stored(m, into, packet)
        = [c \in Places |-> IF c = a THEN packet[1] ELSE IF c = b THEN packet[2] ELSE m[c]]
  <2> DEFINE hit(c) == \E i \in DOMAIN into \cap DOMAIN packet : into[i] = c
             pick(c) == CHOOSE i \in DOMAIN into : into[i] = c
  <2>1. Stored(m, into, packet) = [c \in Places |-> IF hit(c) THEN packet[pick(c)] ELSE m[c]]
    BY DEF Stored
  <2>2. pick(a) = 1 /\ pick(b) = 2 /\ \A c : hit(c) <=> c = a \/ c = b
    BY <1>2, <1>3, <1>4
  <2> HIDE DEF hit, pick
  <2>3. \A c \in Places : (IF hit(c) THEN packet[pick(c)] ELSE m[c])
                          = IF c = a THEN packet[1] ELSE IF c = b THEN packet[2] ELSE m[c]
    BY <2>2
  <2> QED
    BY <2>1, <2>3
<1>6. Stored(m, into, packet) \in [Places -> T]
  BY <1>1, <1>5
<1>7. Stored(m, into, packet)[a] = packet[1]
  BY <1>5
<1>8. Stored(m, into, packet)[b] = packet[2]
  BY <1>5
<1>9. \A c \in Places : c # a /\ c # b => Stored(m, into, packet)[c] = m[c]
  BY <1>5
<1> QED
  BY <1>6, <1>7, <1>8, <1>9

-----------------------------------------------------------------------------
(* Where a rank is.                                                        *)

PassNames == {"forward", "backward", "query", "reduce"}

LEMMA PassTypes ==
  ASSUME TypeOK
  PROVE  /\ N \in RingSizes /\ N \in Nat \ {0} /\ N >= 2 /\ Ranks = 0 .. N - 1
         /\ passes \in Iterations /\ Len(passes) \in Nat \ {0} /\ DOMAIN passes = 1 .. Len(passes)
         /\ \A i \in 1 .. Len(passes) : passes[i] \in PassNames
         /\ \A r \in Ranks : /\ pass[r] \in 1 .. Len(passes) + 1 /\ step[r] \in 0 .. N - 1
                             /\ pass[r] \in Nat /\ step[r] \in Nat
                             /\ mem[r] \in [Places -> Tensors] /\ chan[r] \in Seq(Seq(Tensors))
                             /\ sent[r] \in BOOLEAN /\ got[r] \in BOOLEAN /\ computed[r] \in BOOLEAN
<1>1. N \in RingSizes /\ passes \in Iterations
  BY DEF TypeOK
<1>2. N \in Nat \ {0} /\ N >= 2 /\ Ranks = 0 .. N - 1
  BY <1>1, RingSize
<1>3. passes \in Seq(PassNames) /\ passes # <<>>
  BY <1>1, PassAssumption DEF PassNames
<1>4. Len(passes) \in Nat /\ DOMAIN passes = 1 .. Len(passes) /\ Len(passes) # 0
      /\ \A i \in DOMAIN passes : passes[i] \in PassNames
  BY <1>3
<1>5. \A r \in Ranks : /\ pass[r] \in 1 .. Len(passes) + 1 /\ step[r] \in 0 .. N - 1
                       /\ mem[r] \in [Places -> Tensors] /\ chan[r] \in Seq(Seq(Tensors))
                       /\ sent[r] \in BOOLEAN /\ got[r] \in BOOLEAN /\ computed[r] \in BOOLEAN
  BY DEF TypeOK
<1> QED
  BY <1>1, <1>2, <1>4, <1>5

\* A rank that is not done is in a step of one of its passes.
LEMMA Inside ==
  ASSUME TypeOK, StepInv, NEW r \in Ranks
  PROVE  /\ At(r) # "done" <=> pass[r] <= Len(passes)
         /\ At(r) # "done" =>
              /\ At(r) = passes[pass[r]] /\ At(r) \in PassNames
              /\ pass[r] \in 1 .. Len(passes) /\ step[r] < Steps(At(r))
              /\ Exchanges(At(r), r, step[r]) <=> step[r] < Count(N, At(r))
         /\ At(r) = "done" => pass[r] = Len(passes) + 1 /\ step[r] = 0
<1>1. /\ pass[r] \in 1 .. Len(passes) + 1 /\ Len(passes) \in Nat /\ step[r] \in 0 .. N - 1
      /\ \A i \in 1 .. Len(passes) : passes[i] \in PassNames
      /\ N \in Nat
  BY PassTypes
<1>2. At(r) # "done" <=> pass[r] <= Len(passes)
  BY <1>1 DEF At, PassNames
<1>3. At(r) # "done" => /\ At(r) = passes[pass[r]] /\ At(r) \in PassNames
                        /\ pass[r] \in 1 .. Len(passes) /\ step[r] < Steps(At(r))
  BY <1>1, <1>2 DEF At, StepInv
<1>4. At(r) # "done" => (Exchanges(At(r), r, step[r]) <=> step[r] < Count(N, At(r)))
  BY <1>1, <1>3 DEF Exchanges, Count, Steps, PassNames
<1>5. At(r) = "done" => pass[r] = Len(passes) + 1 /\ step[r] = 0
  BY <1>1, <1>2 DEF StepInv
<1> QED
  BY <1>2, <1>3, <1>4, <1>5

LEMMA SettingStays ==
  ASSUME [Next]_vars
  PROVE  N' = N /\ passes' = passes /\ rendezvous' = rendezvous
         /\ Ranks' = Ranks /\ Tensors' = Tensors
<1>1. N' = N /\ passes' = passes /\ rendezvous' = rendezvous
  BY DEF Next, Move, Send, Receive, Compute, EndStep, Finished, vars, setting
<1> QED
  BY <1>1 DEF Ranks, Tensors

-----------------------------------------------------------------------------
(* The packets on a channel.                                               *)

Points(n, ps) == (1 .. Len(ps) + 1) \X (0 .. n - 1)

LEMMA FollowingPoint ==
  ASSUME NEW n \in Nat, n >= 2, NEW ps, Len(ps) \in Nat,
         NEW i \in 1 .. Len(ps), NEW k \in 0 .. n - 1
  PROVE  Following(n, ps, i, k) \in Points(n, ps)
<1>1. Count(n, ps[i]) \in {n - 1, n}
  BY DEF Count
<1>2. k + 1 < Count(n, ps[i]) => k + 1 \in 0 .. n - 1
  BY <1>1
<1>3. i \in 1 .. Len(ps) + 1 /\ i + 1 \in 1 .. Len(ps) + 1 /\ 0 \in 0 .. n - 1
  OBVIOUS
<1> QED
  BY <1>2, <1>3 DEF Following, Points

LEMMA BetweenNothing ==
  ASSUME NEW n, NEW ps, NEW r, NEW from \in Points(n, ps)
  PROVE  Between(n, ps, <<>>, r, from, from)
<1> DEFINE trail == [x \in 1 .. 1 |-> from]
<1>1. /\ Len(<<>>) = 0 /\ Len(<<>>) + 1 = 1 /\ 1 .. Len(<<>>) = {}
  OBVIOUS
<1>2. trail \in [1 .. 1 -> (1 .. Len(ps) + 1) \X (0 .. n - 1)] /\ trail[1] = from
  BY DEF Points
<1> HIDE DEF trail
<1> QED
  BY <1>1, <1>2 DEF Between

LEMMA BetweenTail ==
  ASSUME NEW n, NEW ps, NEW S, NEW c \in Seq(S), c # <<>>, NEW r, NEW i, NEW k, NEW to,
         Between(n, ps, c, r, <<i, k>>, to)
  PROVE  /\ i \in 1 .. Len(ps) /\ k \in 0 .. n - 1
         /\ Carries(n, Head(c), ps[i], r, k)
         /\ Between(n, ps, Tail(c), r, Following(n, ps, i, k), to)
<1> DEFINE P == (1 .. Len(ps) + 1) \X (0 .. n - 1)
<1>1. /\ Len(c) \in Nat \ {0} /\ Tail(c) \in Seq(S) /\ Len(Tail(c)) = Len(c) - 1
      /\ Head(c) = c[1] /\ 1 \in 1 .. Len(c)
      /\ \A x \in 1 .. Len(c) - 1 : Tail(c)[x] = c[x + 1]
  OBVIOUS
<1>2. PICK trail \in [1 .. Len(c) + 1 -> P] :
        /\ trail[1] = <<i, k>> /\ trail[Len(c) + 1] = to
        /\ \A x \in 1 .. Len(c) :
             /\ trail[x][1] \in 1 .. Len(ps)
             /\ Carries(n, c[x], ps[trail[x][1]], r, trail[x][2])
             /\ trail[x + 1] = Following(n, ps, trail[x][1], trail[x][2])
  BY DEF Between
<1>3. /\ i \in 1 .. Len(ps) /\ Carries(n, Head(c), ps[i], r, k)
      /\ trail[2] = Following(n, ps, i, k)
  BY <1>1, <1>2
<1>4. k \in 0 .. n - 1
  <2>1. trail[1] \in P
    BY <1>1, <1>2
  <2> QED
    BY <1>2, <2>1
<1> HIDE DEF P
<1> DEFINE rest == [x \in 1 .. (Len(c) - 1) + 1 |-> trail[x + 1]]
<1>5. rest \in [1 .. (Len(c) - 1) + 1 -> P]
  <2>1. \A x \in 1 .. (Len(c) - 1) + 1 : x + 1 \in 1 .. Len(c) + 1
    BY <1>1
  <2>2. \A x \in 1 .. (Len(c) - 1) + 1 : trail[x + 1] \in P
    BY <1>2, <2>1
  <2> QED
    BY <2>2
<1>6. rest[1] = trail[2] /\ rest[(Len(c) - 1) + 1] = to
  BY <1>1, <1>2
<1>7. \A x \in 1 .. Len(c) - 1 :
        /\ rest[x][1] \in 1 .. Len(ps)
        /\ Carries(n, Tail(c)[x], ps[rest[x][1]], r, rest[x][2])
        /\ rest[x + 1] = Following(n, ps, rest[x][1], rest[x][2])
  <2> SUFFICES ASSUME NEW x \in 1 .. Len(c) - 1
               PROVE  /\ rest[x][1] \in 1 .. Len(ps)
                      /\ Carries(n, Tail(c)[x], ps[rest[x][1]], r, rest[x][2])
                      /\ rest[x + 1] = Following(n, ps, rest[x][1], rest[x][2])
    OBVIOUS
  <2>1. x + 1 \in 1 .. Len(c) /\ x \in 1 .. (Len(c) - 1) + 1 /\ x + 1 \in 1 .. (Len(c) - 1) + 1
    BY <1>1
  <2>2. rest[x] = trail[x + 1] /\ rest[x + 1] = trail[(x + 1) + 1] /\ Tail(c)[x] = c[x + 1]
    BY <1>1, <2>1
  <2> HIDE DEF rest
  <2> QED
    BY <1>2, <2>1, <2>2
<1> HIDE DEF rest
<1> QED
  BY <1>1, <1>3, <1>4, <1>5, <1>6, <1>7 DEF Between, P

LEMMA BetweenAppend ==
  ASSUME NEW n \in Nat, n >= 2, NEW ps, Len(ps) \in Nat, NEW S, NEW c \in Seq(S), NEW e \in S,
         NEW r, NEW from, NEW i \in 1 .. Len(ps), NEW k \in 0 .. n - 1,
         Between(n, ps, c, r, from, <<i, k>>), Carries(n, e, ps[i], r, k)
  PROVE  Between(n, ps, Append(c, e), r, from, Following(n, ps, i, k))
<1> DEFINE P == (1 .. Len(ps) + 1) \X (0 .. n - 1)
           d == Append(c, e)
           next == Following(n, ps, i, k)
<1>1. /\ Len(c) \in Nat /\ Len(d) = Len(c) + 1 /\ d[Len(c) + 1] = e
      /\ \A x \in 1 .. Len(c) : d[x] = c[x]
  OBVIOUS
<1>2. PICK trail \in [1 .. Len(c) + 1 -> P] :
        /\ trail[1] = from /\ trail[Len(c) + 1] = <<i, k>>
        /\ \A x \in 1 .. Len(c) :
             /\ trail[x][1] \in 1 .. Len(ps)
             /\ Carries(n, c[x], ps[trail[x][1]], r, trail[x][2])
             /\ trail[x + 1] = Following(n, ps, trail[x][1], trail[x][2])
  BY DEF Between
<1>3. next \in P
  BY FollowingPoint DEF Points
<1> HIDE DEF P, d, next
<1> DEFINE more == [x \in 1 .. (Len(c) + 1) + 1 |-> IF x = Len(c) + 2 THEN next ELSE trail[x]]
<1>4. more \in [1 .. (Len(c) + 1) + 1 -> P]
  <2>1. \A x \in 1 .. (Len(c) + 1) + 1 : x # Len(c) + 2 => x \in 1 .. Len(c) + 1
    BY <1>1
  <2>2. \A x \in 1 .. (Len(c) + 1) + 1 : (IF x = Len(c) + 2 THEN next ELSE trail[x]) \in P
    BY <1>2, <1>3, <2>1
  <2> QED
    BY <2>2
<1>5. /\ more[1] = from /\ more[(Len(c) + 1) + 1] = next
      /\ \A x \in 1 .. Len(c) + 1 : more[x] = trail[x]
  BY <1>1, <1>2
<1> HIDE DEF more
<1>6. ASSUME NEW x \in 1 .. Len(c) + 1
      PROVE  /\ more[x][1] \in 1 .. Len(ps)
             /\ Carries(n, d[x], ps[more[x][1]], r, more[x][2])
             /\ more[x + 1] = Following(n, ps, more[x][1], more[x][2])
  <2>1. CASE x = Len(c) + 1
    BY <1>1, <1>2, <1>5, <2>1 DEF next
  <2>2. CASE x # Len(c) + 1
    <3>1. x \in 1 .. Len(c) /\ x + 1 \in 1 .. Len(c) + 1
      BY <1>1, <2>2
    <3> QED
      BY <1>1, <1>2, <1>5, <3>1
  <2> QED
    BY <2>1, <2>2
<1> QED
  BY <1>1, <1>4, <1>5, <1>6 DEF Between, P, d, next

\* The cursor moves when an exchange is posted and at no other time.
LEMMA CursorMoves ==
  ASSUME TypeOK, NEW i \in 1 .. Len(passes), NEW k \in 0 .. N - 1
  PROVE  LET count == Count(N, passes[i])
             steps == Steps(passes[i])
         IN /\ k < count => /\ Cursor(N, passes, i, k, FALSE) = <<i, k>>
                            /\ Cursor(N, passes, i, k, TRUE) = Following(N, passes, i, k)
            /\ \A posted \in BOOLEAN : (k < count => posted) /\ k < steps =>
                 /\ k + 1 < steps =>
                      Cursor(N, passes, i, k + 1, FALSE) = Cursor(N, passes, i, k, posted)
                 /\ k + 1 >= steps =>
                      Cursor(N, passes, i + 1, 0, FALSE) = Cursor(N, passes, i, k, posted)
<1>1. N \in Nat /\ N >= 2 /\ Len(passes) \in Nat /\ passes[i] \in PassNames
      /\ \A j \in 1 .. Len(passes) : passes[j] \in PassNames
  BY PassTypes
<1>2. /\ Count(N, passes[i]) \in Nat /\ Count(N, passes[i]) <= Steps(passes[i])
      /\ Steps(passes[i]) \in Nat /\ Steps(passes[i]) <= Count(N, passes[i]) + 1
      /\ \A j \in 1 .. Len(passes) : Count(N, passes[j]) >= 1 /\ Count(N, passes[j]) \in Nat
  BY <1>1 DEF Count, Steps, PassNames
<1>3. ~(i > Len(passes)) /\ i \in Nat
  BY <1>1
<1>4. k < Count(N, passes[i]) => /\ Cursor(N, passes, i, k, FALSE) = <<i, k>>
                                 /\ Cursor(N, passes, i, k, TRUE) = Following(N, passes, i, k)
  BY <1>2, <1>3 DEF Cursor
<1>5. Cursor(N, passes, i + 1, 0, FALSE) = <<i + 1, 0>>
  <2>1. CASE i + 1 > Len(passes)
    BY <2>1 DEF Cursor
  <2>2. CASE ~(i + 1 > Len(passes))
    <3>1. i + 1 \in 1 .. Len(passes)
      BY <1>1, <1>3, <2>2
    <3>2. ~(0 >= Count(N, passes[i + 1]))
      BY <1>2, <3>1
    <3> QED
      BY <2>2, <3>2 DEF Cursor
  <2> QED
    BY <2>1, <2>2
<1>6. ASSUME NEW posted \in BOOLEAN, k < Count(N, passes[i]) => posted, k < Steps(passes[i])
      PROVE  /\ k + 1 < Steps(passes[i]) =>
                  Cursor(N, passes, i, k + 1, FALSE) = Cursor(N, passes, i, k, posted)
             /\ k + 1 >= Steps(passes[i]) =>
                  Cursor(N, passes, i + 1, 0, FALSE) = Cursor(N, passes, i, k, posted)
  <2>1. CASE k >= Count(N, passes[i])
    <3>1. Cursor(N, passes, i, k, posted) = <<i + 1, 0>>
      BY <1>3, <2>1 DEF Cursor
    <3>2. k + 1 >= Steps(passes[i])
      BY <1>2, <2>1
    <3>3. ~(k + 1 < Steps(passes[i]))
      BY <1>2, <3>2
    <3> QED
      BY <1>5, <3>1, <3>3
  <2>2. CASE ~(k >= Count(N, passes[i]))
    <3>1. posted = TRUE /\ k < Count(N, passes[i])
      BY <1>2, <1>6, <2>2
    <3>2. Cursor(N, passes, i, k, posted) = Following(N, passes, i, k)
      BY <1>4, <3>1
    <3>3. CASE k + 1 < Count(N, passes[i])
      <4>1. Cursor(N, passes, i, k + 1, FALSE) = <<i, k + 1>>
        <5>1. ~(k + 1 >= Count(N, passes[i]))
          BY <1>2, <3>3
        <5> QED
          BY <1>3, <5>1 DEF Cursor
      <4>2. k + 1 < Steps(passes[i])
        BY <1>2, <3>3
      <4>3. ~(k + 1 >= Steps(passes[i]))
        BY <1>2, <4>2
      <4> QED
        BY <3>2, <3>3, <4>1, <4>3 DEF Following
    <3>4. CASE ~(k + 1 < Count(N, passes[i]))
      <4>1. Following(N, passes, i, k) = <<i + 1, 0>>
        BY <3>4 DEF Following
      <4>2. Cursor(N, passes, i, k + 1, FALSE) = <<i + 1, 0>>
        <5>1. k + 1 >= Count(N, passes[i])
          BY <1>2, <3>4
        <5> QED
          BY <1>3, <5>1 DEF Cursor
      <4> QED
        BY <1>5, <3>2, <4>1, <4>2
    <3> QED
      BY <3>3, <3>4
  <2> QED
    BY <2>1, <2>2
<1> QED
  BY <1>4, <1>6

-----------------------------------------------------------------------------
(* One step of one rank, seen from its buffers.                            *)

\* Starting a pass after one that left what it needs.
LEMMA PrologueHolds ==
  ASSUME N \in RingSizes, NEW r \in Ranks, NEW m \in [Places -> Tensors], NEW p \in PassNames,
         p = "backward" => m[<<"start", 0>>] = RowsOf(N, Shift(N, r, 1)),
         p = "reduce" => After(N, m, "query", r)
  PROVE  /\ Prologue(p, r, m) \in [Places -> Tensors]
         /\ Holds(N, Prologue(p, r, m), p, r, 0, FALSE, FALSE)
<1>1. /\ N \in Nat \ {0} /\ N >= 2 /\ r \in 0 .. N - 1 /\ Ranks = 0 .. N - 1
      /\ Shift(N, r, 0) = r /\ Rows(r) = RowsOf(N, r) /\ RowsOf(N, r) \in Tensors
      /\ Shift(N, r, N) = r
  BY RingSize, Shifts, Sums, TensorTypes
<1>2. CASE p = "forward"
  <2>1. <<"initial", 0>> \in Places /\ ShardBuffer(0) = <<"initial", 0>>
    BY Addresses
  <2>2. Prologue(p, r, m) = [m EXCEPT ![<<"initial", 0>>] = RowsOf(N, r)]
    BY <1>1, <1>2 DEF Prologue
  <2>3. Prologue(p, r, m)[ShardBuffer(0)] = RowsOf(N, Shift(N, r, 0))
    BY <1>1, <2>1, <2>2
  <2>4. InForward(N, Prologue(p, r, m), r, 0, FALSE)
    BY <2>3 DEF InForward
  <2> QED
    BY <1>1, <1>2, <2>1, <2>2, <2>4 DEF Holds
<1>3. CASE p = "query"
  <2>1. <<"packet", 0>> \in Places /\ PacketBuffer(0) = <<"packet", 0>>
    BY Addresses
  <2>2. Prologue(p, r, m) = [m EXCEPT ![<<"packet", 0>>] = RowsOf(N, r)]
    BY <1>1, <1>3 DEF Prologue
  <2>3. Prologue(p, r, m)[PacketBuffer(0)] = RowsOf(N, Shift(N, r, 0))
    BY <1>1, <2>1, <2>2
  <2>4. \A j \in 0 .. N - 1 : ~(j < 0)
    BY <1>1
  <2>5. InQuery(N, Prologue(p, r, m), r, 0, FALSE, FALSE)
    BY <2>3, <2>4 DEF InQuery
  <2> QED
    BY <1>1, <1>3, <2>1, <2>2, <2>5 DEF Holds
<1>4. CASE p = "backward"
  <2>1. <<"kv", 0>> \in Places /\ <<"start", 0>> \in Places /\ 0 % 2 = 0
    BY DEF Places
  <2>2. Prologue(p, r, m) = [m EXCEPT ![<<"kv", 0>>] = m[<<"start", 0>>]]
    BY <1>4 DEF Prologue
  <2>3. Prologue(p, r, m)[<<"kv", 0 % 2>>] = RowsOf(N, Shift(N, r, 0 + 1))
    BY <1>4, <2>1, <2>2
  <2>4. InBackward(N, Prologue(p, r, m), r, 0, FALSE, FALSE)
    BY <2>3 DEF InBackward
  <2> QED
    BY <1>4, <2>1, <2>2, <2>4 DEF Holds
<1>5. CASE p = "reduce"
  <2>1. Prologue(p, r, m) = m
    BY <1>5 DEF Prologue
  <2>2. \A j \in 0 .. N - 1 :
          m[<<"chunk", Shift(N, r, j)>>] = Tensor(Shift(N, r, j), Arc(N, r, 1))
    BY <1>5 DEF After
  <2>3. m[<<"chunk", Shift(N, r, 0 + 1)>>] = Tensor(Shift(N, r, 0 + 1), Arc(N, r, 0 + 1))
    BY <1>1, <2>2
  <2>4. ASSUME NEW j \in 0 + 2 .. N
        PROVE  m[<<"chunk", Shift(N, r, j)>>] = Tensor(Shift(N, r, j), Arc(N, r, 1))
    <3>1. CASE j = N
      <4>1. Shift(N, r, j) = Shift(N, r, 0) /\ 0 \in 0 .. N - 1
        BY <1>1, <3>1
      <4> QED
        BY <2>2, <4>1
    <3>2. CASE j # N
      <4>1. j \in 0 .. N - 1
        BY <1>1, <3>2
      <4> QED
        BY <2>2, <4>1
    <3> QED
      BY <3>1, <3>2
  <2>5. InReduce(N, m, r, 0, FALSE)
    BY <2>3, <2>4 DEF InReduce
  <2> QED
    BY <1>5, <2>1, <2>5 DEF Holds
<1> QED
  BY <1>2, <1>3, <1>4, <1>5 DEF PassNames

\* What a rank posts is the exchange of its step.
LEMMA SendCarries ==
  ASSUME N \in RingSizes, NEW r \in Ranks, NEW m \in [Places -> Tensors], NEW p \in PassNames,
         NEW k \in 0 .. N - 1, k < Count(N, p), NEW g, NEW c, Holds(N, m, p, r, k, g, c)
  PROVE  /\ Packed(m, SendFrom(p, r, k)) \in Seq(Tensors)
         /\ Carries(N, Packed(m, SendFrom(p, r, k)), p, r, k)
<1>1. N \in Nat \ {0} /\ N >= 2 /\ k \in Nat /\ Ranks = 0 .. N - 1
  BY RingSize
<1> DEFINE packet == Packed(m, SendFrom(p, r, k))
<1>2. CASE p = "forward"
  <2>1. SendFrom(p, r, k) = <<ShardBuffer(k)>> /\ ShardBuffer(k) \in Places
    BY <1>1, <1>2, Buffers, Addresses
  <2>2. packet \in Seq(Tensors) /\ Len(packet) = 1 /\ packet[1] = m[ShardBuffer(k)]
    BY <2>1, PackedOne
  <2> HIDE DEF packet
  <2>3. m[ShardBuffer(k)] = RowsOf(N, Shift(N, r, k))
    BY <1>2 DEF Holds, InForward
  <2>4. Carries(N, packet, p, r, k)
    BY <1>2, <2>2, <2>3 DEF Carries
  <2> QED
    BY <2>2, <2>4 DEF packet
<1>3. CASE p = "query"
  <2>1. SendFrom(p, r, k) = <<PacketBuffer(k)>> /\ PacketBuffer(k) \in Places
    BY <1>1, <1>3, Buffers, Addresses
  <2>2. packet \in Seq(Tensors) /\ Len(packet) = 1 /\ packet[1] = m[PacketBuffer(k)]
    BY <2>1, PackedOne
  <2> HIDE DEF packet
  <2>3. m[PacketBuffer(k)] = RowsOf(N, Shift(N, r, k))
    BY <1>3 DEF Holds, InQuery
  <2>4. Carries(N, packet, p, r, k)
    BY <1>3, <2>2, <2>3 DEF Carries
  <2> QED
    BY <2>2, <2>4 DEF packet
<1>4. CASE p = "reduce"
  <2>1. /\ SendFrom(p, r, k) = << <<"chunk", Shift(N, r, k + 1)>> >>
        /\ <<"chunk", Shift(N, r, k + 1)>> \in Places
    <3>1. k + 1 \in 0 .. N /\ r \in 0 .. N - 1
      BY <1>1
    <3>2. Shift(N, r, k + 1) \in Ranks
      BY <1>1, <3>1, Shifts
    <3> QED
      BY <1>4, <3>2, Buffers, Addresses
  <2>2. /\ packet \in Seq(Tensors) /\ Len(packet) = 1
        /\ packet[1] = m[<<"chunk", Shift(N, r, k + 1)>>]
    BY <2>1, PackedOne
  <2> HIDE DEF packet
  <2>3. m[<<"chunk", Shift(N, r, k + 1)>>] = Tensor(Shift(N, r, k + 1), Arc(N, r, k + 1))
    BY <1>4 DEF Holds, InReduce
  <2>4. Carries(N, packet, p, r, k)
    BY <1>4, <2>2, <2>3 DEF Carries
  <2> QED
    BY <2>2, <2>4 DEF packet
<1>5. CASE p = "backward"
  <2>0. /\ <<"kv", k % 2>> \in Places /\ <<"grad", k % 2>> \in Places
        /\ m[<<"kv", k % 2>>] = RowsOf(N, Shift(N, r, k + 1))
        /\ k > 0 => m[<<"grad", k % 2>>] = Tensor(Shift(N, r, k), Arc(N, r, k))
    BY <1>1, <1>5, Addresses DEF Holds, InBackward
  <2>1. CASE k = 0
    <3>1. SendFrom(p, r, k) = << <<"kv", k % 2>> >>
      BY <1>5, <2>1, Buffers
    <3>2. packet \in Seq(Tensors) /\ Len(packet) = 1 /\ packet[1] = m[<<"kv", k % 2>>]
      BY <2>0, <3>1, PackedOne
    <3> HIDE DEF packet
    <3>3. Carries(N, packet, p, r, k)
      BY <1>5, <2>0, <2>1, <3>2 DEF Carries
    <3> QED
      BY <3>2, <3>3 DEF packet
  <2>2. CASE k # 0 /\ k = N - 1
    <3>1. SendFrom(p, r, k) = << <<"grad", k % 2>> >>
      BY <1>5, <2>2, Buffers
    <3>2. packet \in Seq(Tensors) /\ Len(packet) = 1 /\ packet[1] = m[<<"grad", k % 2>>]
      BY <2>0, <3>1, PackedOne
    <3> HIDE DEF packet
    <3>3. k > 0 /\ ~(k < N - 1)
      BY <1>1, <2>2
    <3>4. Carries(N, packet, p, r, k)
      BY <1>5, <2>0, <3>2, <3>3 DEF Carries
    <3> QED
      BY <3>2, <3>4 DEF packet
  <2>3. CASE k # 0 /\ k # N - 1
    <3>1. SendFrom(p, r, k) = << <<"kv", k % 2>>, <<"grad", k % 2>> >>
      BY <1>5, <2>3, Buffers
    <3>2. /\ packet \in Seq(Tensors) /\ Len(packet) = 2
          /\ packet[1] = m[<<"kv", k % 2>>] /\ packet[2] = m[<<"grad", k % 2>>]
      <4> DEFINE a == <<"kv", k % 2>>  b == <<"grad", k % 2>>  from == SendFrom(p, r, k)
      <4>1. from = <<a, b>> /\ a \in Places /\ b \in Places
        BY <2>0, <3>1
      <4> HIDE DEF a, b, from
      <4>2. /\ Packed(m, from) \in Seq(Tensors) /\ Len(Packed(m, from)) = 2
            /\ Packed(m, from)[1] = m[a] /\ Packed(m, from)[2] = m[b]
        BY <4>1, PackedTwo
      <4> QED
        BY <4>2 DEF a, b, from
    <3> HIDE DEF packet
    <3>3. k > 0 /\ 0 < k /\ k < N - 1
      BY <1>1, <2>3
    <3>4. Carries(N, packet, p, r, k)
      BY <1>5, <2>0, <3>2, <3>3 DEF Carries
    <3> QED
      BY <3>2, <3>4 DEF packet
  <2> QED
    BY <2>1, <2>2, <2>3
<1> QED
  BY <1>2, <1>3, <1>4, <1>5 DEF PassNames

\* The exchange of a step is of as many tensors for the rank that receives it.
LEMMA ReceiveLength ==
  ASSUME N \in RingSizes, NEW r \in Ranks, NEW x, NEW p \in PassNames, NEW k \in 0 .. N - 1,
         k < Count(N, p), NEW packet, Carries(N, packet, p, x, k)
  PROVE  Len(packet) = Len(ReceiveInto(p, r, k))
<1>1. N \in Nat /\ N >= 2 /\ Len(packet) = IF p = "backward" /\ 0 < k /\ k < N - 1 THEN 2 ELSE 1
  BY RingSize DEF Carries
<1>2. CASE p \in {"forward", "query", "reduce"}
  <2>1. \E b : ReceiveInto(p, r, k) = <<b>>
    BY <1>2, Buffers
  <2>2. Len(ReceiveInto(p, r, k)) = 1
    BY <2>1
  <2> QED
    BY <1>1, <1>2, <2>2
<1>3. CASE p = "backward"
  <2>1. CASE 0 < k /\ k < N - 1
    <3>1. \E a, b : ReceiveInto(p, r, k) = <<a, b>>
      BY <1>3, <2>1, Buffers
    <3>2. Len(ReceiveInto(p, r, k)) = 2
      BY <3>1
    <3> QED
      BY <1>1, <1>3, <2>1, <3>2
  <2>2. CASE ~(0 < k /\ k < N - 1)
    <3>1. k = 0 \/ k = N - 1
      BY <1>1, <2>2
    <3>2. \E b : ReceiveInto(p, r, k) = <<b>>
      BY <1>3, <3>1, Buffers
    <3>3. Len(ReceiveInto(p, r, k)) = 1
      BY <3>2
    <3> QED
      BY <1>1, <2>2, <3>3
  <2> QED
    BY <2>1, <2>2
<1> QED
  BY <1>2, <1>3 DEF PassNames

\* Receiving the exchange that the right neighbour posted for the same step.
LEMMA ReceiveHolds ==
  ASSUME N \in RingSizes, NEW r \in Ranks, NEW m \in [Places -> Tensors], NEW p \in PassNames,
         NEW k \in 0 .. N - 1, k < Count(N, p), NEW c, Holds(N, m, p, r, k, FALSE, c),
         NEW packet \in Seq(Tensors), Carries(N, packet, p, Right(r), k)
  PROVE  /\ Stored(m, ReceiveInto(p, r, k), packet) \in [Places -> Tensors]
         /\ Holds(N, Stored(m, ReceiveInto(p, r, k), packet), p, r, k, TRUE, c)
<1> DEFINE q == Shift(N, r, 1)
           new == Stored(m, ReceiveInto(p, r, k), packet)
<1>1. /\ N \in Nat \ {0} /\ N >= 2 /\ k \in Nat /\ Ranks = 0 .. N - 1 /\ r \in 0 .. N - 1
      /\ Right(r) = q
  BY RingSize, Neighbours
<1>2. Shift(N, q, k) = Shift(N, r, k + 1) /\ (k < N - 1 => Shift(N, q, k + 1) = Shift(N, r, k + 2))
  <2>1. k \in 0 .. N - 1 /\ (k < N - 1 => k + 1 \in 0 .. N - 1) /\ (k + 1) + 1 = k + 2
    BY <1>1
  <2> QED
    BY <1>1, <2>1, Shifts
<1>3. CASE p = "forward"
  <2>1. /\ ReceiveInto(p, r, k) = <<ShardBuffer(k + 1)>> /\ ShardBuffer(k + 1) \in Places
        /\ ShardBuffer(k) \in Places /\ ShardBuffer(k) # ShardBuffer(k + 1)
        /\ <<"start", 0>> \in Places /\ (k > 0 => ShardBuffer(k + 1) # <<"start", 0>>)
        /\ ShardBuffer(1) = <<"start", 0>>
    <3>1. ReceiveInto(p, r, k) = <<ShardBuffer(k + 1)>>
      BY <1>3, Buffers
    <3>2. k + 1 \in Nat
      BY <1>1
    <3>3. ShardBuffer(k + 1) \in Places /\ ShardBuffer(k) \in Places
      BY <1>1, <3>2, Addresses
    <3>4. ShardBuffer(k) # ShardBuffer(k + 1) /\ (k > 0 => ShardBuffer(k + 1) # <<"start", 0>>)
      BY <1>1, Addresses
    <3>5. <<"start", 0>> \in Places /\ ShardBuffer(1) = <<"start", 0>>
      BY Addresses
    <3> QED
      BY <3>1, <3>3, <3>4, <3>5
  <2>2. Len(packet) = 1 /\ packet[1] = RowsOf(N, Shift(N, r, k + 1))
    BY <1>1, <1>2, <1>3 DEF Carries
  <2>3. /\ new \in [Places -> Tensors] /\ new[ShardBuffer(k + 1)] = packet[1]
        /\ \A b \in Places : b # ShardBuffer(k + 1) => new[b] = m[b]
    BY <2>1, <2>2, StoreOne
  <2> HIDE DEF new, q
  <2>4. /\ m[ShardBuffer(k)] = RowsOf(N, Shift(N, r, k))
        /\ k > 0 => m[<<"start", 0>>] = RowsOf(N, Shift(N, r, 1))
    BY <1>3 DEF Holds, InForward
  <2>5. new[<<"start", 0>>] = RowsOf(N, Shift(N, r, 1))
    <3>1. CASE k = 0
      BY <2>1, <2>2, <2>3, <3>1
    <3>2. CASE k > 0
      BY <2>1, <2>3, <2>4, <3>2
    <3> QED
      BY <1>1, <3>1, <3>2
  <2>6. InForward(N, new, r, k, TRUE)
    BY <2>1, <2>2, <2>3, <2>4, <2>5 DEF InForward
  <2> QED
    BY <1>3, <2>3, <2>6 DEF Holds, new
<1>4. CASE p = "query"
  <2>1. /\ ReceiveInto(p, r, k) = <<PacketBuffer(k + 1)>> /\ PacketBuffer(k + 1) \in Places
        /\ PacketBuffer(k) \in Places /\ PacketBuffer(k) # PacketBuffer(k + 1)
        /\ \A x : PacketBuffer(k + 1) # <<"chunk", x>>
        /\ \A x \in Ranks : <<"chunk", x>> \in Places
    <3>1. ReceiveInto(p, r, k) = <<PacketBuffer(k + 1)>>
      BY <1>4, Buffers
    <3>2. k + 1 \in Nat
      BY <1>1
    <3>3. PacketBuffer(k + 1) \in Places /\ PacketBuffer(k) \in Places
      BY <1>1, <3>2, Addresses
    <3>4. PacketBuffer(k) # PacketBuffer(k + 1)
      BY <1>1, Addresses
    <3>5. \A x : PacketBuffer(k + 1) # <<"chunk", x>>
      BY <3>2, Addresses
    <3>6. \A x \in Ranks : <<"chunk", x>> \in Places
      BY Addresses
    <3> QED
      BY <3>1, <3>3, <3>4, <3>5, <3>6
  <2>2. Len(packet) = 1 /\ packet[1] = RowsOf(N, Shift(N, r, k + 1))
    BY <1>1, <1>2, <1>4 DEF Carries
  <2>3. /\ new \in [Places -> Tensors] /\ new[PacketBuffer(k + 1)] = packet[1]
        /\ \A b \in Places : b # PacketBuffer(k + 1) => new[b] = m[b]
    BY <2>1, <2>2, StoreOne
  <2> HIDE DEF new, q
  <2>4. /\ m[PacketBuffer(k)] = RowsOf(N, Shift(N, r, k))
        /\ \A j \in 0 .. N - 1 : j < k \/ (j = k /\ c) =>
             m[<<"chunk", Shift(N, r, j)>>] = Tensor(Shift(N, r, j), Arc(N, r, 1))
    BY <1>4 DEF Holds, InQuery
  <2>5. \A j \in 0 .. N - 1 : new[<<"chunk", Shift(N, r, j)>>] = m[<<"chunk", Shift(N, r, j)>>]
    <3>0. \A j \in 0 .. N - 1 : j \in 0 .. N
      BY <1>1
    <3>1. \A j \in 0 .. N - 1 : Shift(N, r, j) \in Ranks
      BY <1>1, <3>0, Shifts
    <3> QED
      BY <2>1, <2>3, <3>1
  <2>6. InQuery(N, new, r, k, TRUE, c)
    BY <2>1, <2>2, <2>3, <2>4, <2>5 DEF InQuery
  <2> QED
    BY <1>4, <2>3, <2>6 DEF Holds, new
<1>5. CASE p = "reduce"
  <2>0. k < N - 1
    BY <1>1, <1>5 DEF Count
  <2>1. /\ ReceiveInto(p, r, k) = << <<"recv", 0>> >> /\ <<"recv", 0>> \in Places
        /\ \A x \in Ranks : <<"chunk", x>> \in Places
    BY <1>1, <1>5, Buffers, Addresses
  <2>2. Len(packet) = 1 /\ packet[1] = Tensor(Shift(N, r, k + 2), Arc(N, q, k + 1))
    BY <1>1, <1>2, <1>5, <2>0 DEF Carries
  <2>3. /\ new \in [Places -> Tensors] /\ new[<<"recv", 0>>] = packet[1]
        /\ \A b \in Places : b # <<"recv", 0>> => new[b] = m[b]
    BY <2>1, <2>2, StoreOne
  <2> HIDE DEF new
  <2>4. /\ m[<<"chunk", Shift(N, r, k + 1)>>] = Tensor(Shift(N, r, k + 1), Arc(N, r, k + 1))
        /\ \A j \in k + 2 .. N :
             m[<<"chunk", Shift(N, r, j)>>] = Tensor(Shift(N, r, j), Arc(N, r, 1))
    BY <1>5 DEF Holds, InReduce
  <2>5. \A j \in 0 .. N : new[<<"chunk", Shift(N, r, j)>>] = m[<<"chunk", Shift(N, r, j)>>]
    <3>1. \A j \in 0 .. N : Shift(N, r, j) \in Ranks
      BY <1>1, Shifts
    <3>2. \A x : <<"chunk", x>> # <<"recv", 0>>
      OBVIOUS
    <3> QED
      BY <2>1, <2>3, <3>1, <3>2
  <2>6. k + 1 \in 0 .. N /\ \A j \in k + 2 .. N : j \in 0 .. N
    BY <1>1, <2>0
  <2>7. InReduce(N, new, r, k, TRUE)
    BY <2>2, <2>3, <2>4, <2>5, <2>6 DEF InReduce
  <2> QED
    BY <1>5, <2>3, <2>7 DEF Holds, new
<1>6. CASE p = "backward"
  <2> DEFINE kv == <<"kv", k % 2>>  kvNext == <<"kv", (k + 1) % 2>>
             grad == <<"grad", k % 2>>  gradNext == <<"grad", (k + 1) % 2>>
             local == <<"local", 0>>
  <2>0. /\ kv \in Places /\ grad \in Places /\ local \in Places
        /\ kvNext \in Places /\ gradNext \in Places
        /\ kv # kvNext /\ grad # gradNext /\ kv # gradNext /\ grad # kvNext /\ kvNext # gradNext
        /\ local # kvNext /\ local # gradNext
    BY <1>1, Addresses
  <2>1. /\ m[kv] = RowsOf(N, Shift(N, r, k + 1))
        /\ k > 0 => m[grad] = Tensor(Shift(N, r, k), Arc(N, r, k))
        /\ c => m[local] = Tensor(Shift(N, r, k + 1), Arc(N, r, 1))
    BY <1>6 DEF Holds, InBackward
  <2>2. ReceiveInto(p, r, k) =
          IF k = 0 THEN <<kvNext>> ELSE IF k = N - 1 THEN <<gradNext>> ELSE <<kvNext, gradNext>>
    BY <1>6, Buffers
  <2>3. ASSUME /\ new \in [Places -> Tensors]
               /\ k < N - 1 => new[kvNext] = RowsOf(N, Shift(N, r, k + 2))
               /\ k > 0 => new[gradNext] = Tensor(Shift(N, r, k + 1), Arc(N, q, k))
               /\ \A b \in Places : b # kvNext /\ b # gradNext => new[b] = m[b]
        PROVE  Holds(N, new, p, r, k, TRUE, c)
    <3> HIDE DEF kv, kvNext, grad, gradNext, local, new
    <3>1. new[kv] = m[kv] /\ new[grad] = m[grad] /\ new[local] = m[local]
      BY <2>0, <2>3
    <3>2. InBackward(N, new, r, k, TRUE, c)
      BY <2>1, <2>3, <3>1 DEF InBackward, kv, kvNext, grad, gradNext, local
    <3> QED
      BY <1>6, <3>2 DEF Holds
  <2>4. CASE k = 0
    <3>1. ReceiveInto(p, r, k) = <<kvNext>> /\ k < N - 1 /\ ~(k > 0)
      BY <1>1, <2>2, <2>4
    <3>2. Len(packet) = 1 /\ packet[1] = RowsOf(N, Shift(N, r, k + 2))
      BY <1>1, <1>2, <1>6, <2>4, <3>1 DEF Carries
    <3> HIDE DEF kv, kvNext, grad, gradNext, local
    <3>3. /\ new \in [Places -> Tensors] /\ new[kvNext] = packet[1]
          /\ \A b \in Places : b # kvNext => new[b] = m[b]
      BY <2>0, <3>1, <3>2, StoreOne
    <3> HIDE DEF new
    <3>4. Holds(N, new, p, r, k, TRUE, c)
      BY <2>3, <3>1, <3>2, <3>3
    <3> QED
      BY <3>3, <3>4 DEF new
  <2>5. CASE k # 0 /\ k = N - 1
    <3>1. ReceiveInto(p, r, k) = <<gradNext>> /\ k > 0 /\ ~(k < N - 1)
      BY <1>1, <2>2, <2>5
    <3>2. Len(packet) = 1 /\ packet[1] = Tensor(Shift(N, r, k + 1), Arc(N, q, k))
      BY <1>1, <1>2, <1>6, <3>1 DEF Carries
    <3> HIDE DEF kv, kvNext, grad, gradNext, local
    <3>3. /\ new \in [Places -> Tensors] /\ new[gradNext] = packet[1]
          /\ \A b \in Places : b # gradNext => new[b] = m[b]
      BY <2>0, <3>1, <3>2, StoreOne
    <3> HIDE DEF new
    <3>4. Holds(N, new, p, r, k, TRUE, c)
      BY <2>3, <3>1, <3>2, <3>3
    <3> QED
      BY <3>3, <3>4 DEF new
  <2>6. CASE k # 0 /\ k # N - 1
    <3>1. ReceiveInto(p, r, k) = <<kvNext, gradNext>> /\ k > 0 /\ 0 < k /\ k < N - 1
      BY <1>1, <2>2, <2>6
    <3>2. /\ Len(packet) = 2 /\ packet[1] = RowsOf(N, Shift(N, r, k + 2))
          /\ packet[2] = Tensor(Shift(N, r, k + 1), Arc(N, q, k))
      BY <1>1, <1>2, <1>6, <3>1 DEF Carries
    <3> HIDE DEF kv, kvNext, grad, gradNext, local
    <3>3. /\ new \in [Places -> Tensors] /\ new[kvNext] = packet[1] /\ new[gradNext] = packet[2]
          /\ \A b \in Places : b # kvNext /\ b # gradNext => new[b] = m[b]
      BY <2>0, <3>1, <3>2, StoreTwo
    <3> HIDE DEF new
    <3>4. Holds(N, new, p, r, k, TRUE, c)
      BY <2>3, <3>1, <3>2, <3>3
    <3> QED
      BY <3>3, <3>4 DEF new
  <2> QED
    BY <2>4, <2>5, <2>6
<1> QED
  BY <1>3, <1>4, <1>5, <1>6 DEF PassNames

\* The rows a step computes on are those of its shard.
LEMMA CurrentHolds ==
  ASSUME N \in RingSizes, NEW r \in Ranks, NEW m \in [Places -> Tensors],
         NEW p \in {"forward", "backward", "query"}, NEW k \in 0 .. N - 1, NEW g, NEW c,
         Holds(N, m, p, r, k, g, c)
  PROVE  m[Current(p, r, k)] = RowsOf(N, Owner(p, r, k))
<1>1. CASE p = "forward"
  <2>1. Current(p, r, k) = ShardBuffer(k)
    BY <1>1, Buffers DEF Current
  <2> QED
    BY <1>1, <2>1, Owners DEF Holds, InForward
<1>2. CASE p = "query"
  <2>1. Current(p, r, k) = PacketBuffer(k)
    BY <1>2, Buffers DEF Current
  <2> QED
    BY <1>2, <2>1, Owners DEF Holds, InQuery
<1>3. CASE p = "backward"
  BY <1>3, Owners DEF Holds, InBackward, Current
<1> QED
  BY <1>1, <1>2, <1>3

\* What a computation leaves in the buffers m.
Worked(p, r, k, m) ==
  CASE p = "backward" -> [m EXCEPT ![<<"local", 0>>] = Tensor(m[Current(p, r, k)].owner, Only(r))]
    [] p = "query" ->
         [m EXCEPT ![<<"chunk", Owner(p, r, k)>>] = Tensor(m[Current(p, r, k)].owner, Only(r))]
    [] OTHER -> m

LEMMA ComputeHolds ==
  ASSUME N \in RingSizes, NEW r \in Ranks, NEW m \in [Places -> Tensors], NEW p \in PassNames,
         NEW k \in 0 .. N - 1, NEW g, Holds(N, m, p, r, k, g, FALSE)
  PROVE  /\ Worked(p, r, k, m) \in [Places -> Tensors]
         /\ Holds(N, Worked(p, r, k, m), p, r, k, g, TRUE)
<1> DEFINE new == Worked(p, r, k, m)
<1>1. /\ N \in Nat \ {0} /\ N >= 2 /\ k \in Nat /\ Ranks = 0 .. N - 1 /\ r \in 0 .. N - 1
      /\ \A j \in 0 .. N - 1 : j \in 0 .. N
  BY RingSize
<1>2. ASSUME NEW o \in Ranks
      PROVE  /\ Tensor(RowsOf(N, o).owner, Only(r)) = Tensor(o, Arc(N, r, 1))
             /\ Tensor(o, Arc(N, r, 1)) \in Tensors
  <2>1. RowsOf(N, o).owner = o /\ Only(r) = Arc(N, r, 1)
    BY Sums DEF RowsOf, Tensor
  <2> QED
    BY <2>1, TensorTypes
<1>3. CASE p = "forward" \/ p = "reduce"
  <2>1. new = m
    BY <1>3 DEF Worked
  <2> QED
    BY <1>3, <2>1 DEF Holds, InForward, InReduce
<1>4. CASE p = "backward"
  <2> DEFINE local == <<"local", 0>>  o == Shift(N, r, k + 1)
  <2>1. o \in Ranks /\ Owner(p, r, k) = o
    <3>1. k + 1 \in 0 .. N
      BY <1>1
    <3>2. o \in Ranks
      BY <1>1, <3>1, Shifts
    <3>3. Owner(p, r, k) = o
      BY <1>4, Owners
    <3> QED
      BY <3>2, <3>3
  <2>2. m[Current(p, r, k)] = RowsOf(N, o)
    BY <1>4, <2>1, CurrentHolds
  <2>3. new = [m EXCEPT ![local] = Tensor(RowsOf(N, o).owner, Only(r))]
    BY <1>4, <2>2 DEF Worked
  <2>4. local \in Places
    BY Addresses
  <2>5. /\ local # <<"kv", k % 2>> /\ local # <<"kv", (k + 1) % 2>>
        /\ local # <<"grad", k % 2>> /\ local # <<"grad", (k + 1) % 2>>
    OBVIOUS
  <2> HIDE DEF local, new, o
  <2>6. /\ new \in [Places -> Tensors] /\ new[local] = Tensor(o, Arc(N, r, 1))
        /\ \A b : b # local => new[b] = m[b]
    BY <1>2, <2>1, <2>3, <2>4
  <2>7. InBackward(N, m, r, k, g, FALSE)
    BY <1>4 DEF Holds
  <2>8. InBackward(N, new, r, k, g, TRUE)
    <3>1. /\ new[<<"kv", k % 2>>] = m[<<"kv", k % 2>>]
          /\ new[<<"kv", (k + 1) % 2>>] = m[<<"kv", (k + 1) % 2>>]
          /\ new[<<"grad", k % 2>>] = m[<<"grad", k % 2>>]
          /\ new[<<"grad", (k + 1) % 2>>] = m[<<"grad", (k + 1) % 2>>]
      BY <2>5, <2>6
    <3>2. new[<<"local", 0>>] = Tensor(Shift(N, r, k + 1), Arc(N, r, 1))
      BY <2>6 DEF local, o
    <3> QED
      BY <2>7, <3>1, <3>2 DEF InBackward
  <2> QED
    BY <1>4, <2>6, <2>8 DEF Holds, new
<1>5. CASE p = "query"
  <2> DEFINE o == Shift(N, r, k)  chunk == <<"chunk", o>>
  <2>1. o \in Ranks /\ Owner(p, r, k) = o
    <3>1. o \in Ranks
      BY <1>1, Shifts
    <3>2. Owner(p, r, k) = o
      BY <1>5, Owners
    <3> QED
      BY <3>1, <3>2
  <2>2. m[Current(p, r, k)] = RowsOf(N, o)
    BY <1>5, <2>1, CurrentHolds
  <2>3. new = [m EXCEPT ![chunk] = Tensor(RowsOf(N, o).owner, Only(r))]
    BY <1>5, <2>1, <2>2 DEF Worked
  <2>4. chunk \in Places
    BY <2>1, Addresses
  <2>5. \A j \in 0 .. N - 1 : j # k => <<"chunk", Shift(N, r, j)>> # chunk
    <3>1. \A j \in 0 .. N - 1 : Shift(N, r, j) = o => j = k
      BY <1>1, Shifts
    <3> QED
      BY <3>1
  <2>6. PacketBuffer(k) # chunk /\ PacketBuffer(k + 1) # chunk
    <3>1. k + 1 \in Nat
      BY <1>1
    <3> QED
      BY <1>1, <3>1, Addresses
  <2> HIDE DEF chunk, new, o
  <2>7. /\ new \in [Places -> Tensors] /\ new[chunk] = Tensor(o, Arc(N, r, 1))
        /\ \A b : b # chunk => new[b] = m[b]
    BY <1>2, <2>1, <2>3, <2>4
  <2>8. InQuery(N, m, r, k, g, FALSE)
    BY <1>5 DEF Holds
  <2>9. ASSUME NEW j \in 0 .. N - 1, j < k \/ (j = k /\ TRUE)
        PROVE  new[<<"chunk", Shift(N, r, j)>>] = Tensor(Shift(N, r, j), Arc(N, r, 1))
    <3>1. CASE j = k
      BY <2>7, <3>1 DEF chunk, o
    <3>2. CASE j # k
      <4>1. m[<<"chunk", Shift(N, r, j)>>] = Tensor(Shift(N, r, j), Arc(N, r, 1))
        BY <2>8, <2>9, <3>2 DEF InQuery
      <4> QED
        BY <2>5, <2>7, <3>2, <4>1
    <3> QED
      BY <3>1, <3>2
  <2>10. InQuery(N, new, r, k, g, TRUE)
    <3>1. new[PacketBuffer(k)] = m[PacketBuffer(k)] /\ new[PacketBuffer(k + 1)] = m[PacketBuffer(k + 1)]
      BY <2>6, <2>7
    <3> QED
      BY <2>8, <2>9, <3>1 DEF InQuery
  <2> QED
    BY <1>5, <2>7, <2>10 DEF Holds, new
<1> QED
  BY <1>3, <1>4, <1>5 DEF PassNames

\* The end of a step makes the buffers ready for the next one, and the end of the last
\* step leaves what the pass is for.
LEMMA MergeHolds ==
  ASSUME N \in RingSizes, NEW r \in Ranks, NEW m \in [Places -> Tensors], NEW p \in PassNames,
         NEW k \in 0 .. N - 1, k < Steps(p), NEW g \in BOOLEAN, k < Count(N, p) => g,
         Holds(N, m, p, r, k, g, TRUE)
  PROVE  /\ Merge(p, r, k, m) \in [Places -> Tensors]
         /\ k + 1 < Steps(p) => Holds(N, Merge(p, r, k, m), p, r, k + 1, FALSE, FALSE)
         /\ ~(k + 1 < Steps(p)) => After(N, Merge(p, r, k, m), p, r)
<1> DEFINE new == Merge(p, r, k, m)  q == Shift(N, r, 1)
<1>1. /\ N \in Nat \ {0} /\ N >= 2 /\ k \in Nat /\ Ranks = 0 .. N - 1 /\ r \in 0 .. N - 1
      /\ k + 1 \in 0 .. N /\ (k + 1) + 1 = k + 2
  BY RingSize
<1>2. Shift(N, r, N) = r /\ Shift(N, r, k + 1) \in Ranks
  BY <1>1, Shifts
<1>3. CASE p = "forward"
  <2>1. new = m
    BY <1>3 DEF Merge
  <2>2. InForward(N, m, r, k, g) /\ Steps(p) = N /\ Count(N, p) = N - 1
    BY <1>3 DEF Holds, Steps, Count
  <2>3. k > 0 \/ g
    BY <1>1, <2>2
  <2>4. m[<<"start", 0>>] = RowsOf(N, Shift(N, r, 1))
    BY <2>2, <2>3 DEF InForward
  <2>5. ASSUME k + 1 < N PROVE Holds(N, new, p, r, k + 1, FALSE, FALSE)
    <3>1. g
      BY <1>1, <2>2, <2>5
    <3>2. m[ShardBuffer(k + 1)] = RowsOf(N, Shift(N, r, k + 1))
      BY <2>2, <3>1 DEF InForward
    <3>3. InForward(N, m, r, k + 1, FALSE)
      BY <2>4, <3>2 DEF InForward
    <3> QED
      BY <1>3, <2>1, <3>3 DEF Holds
  <2>6. After(N, new, p, r)
    BY <1>3, <2>1, <2>4 DEF After
  <2> QED
    BY <2>1, <2>2, <2>5, <2>6
<1>4. CASE p = "query"
  <2>1. new = m
    BY <1>4 DEF Merge
  <2>2. InQuery(N, m, r, k, g, TRUE) /\ Steps(p) = N /\ Count(N, p) = N - 1
    BY <1>4 DEF Holds, Steps, Count
  <2>3. ASSUME NEW j \in 0 .. N - 1, j < k + 1
        PROVE  m[<<"chunk", Shift(N, r, j)>>] = Tensor(Shift(N, r, j), Arc(N, r, 1))
    <3>1. j < k \/ (j = k /\ TRUE)
      BY <1>1, <2>3
    <3> QED
      BY <2>2, <3>1 DEF InQuery
  <2>4. ASSUME k + 1 < N PROVE Holds(N, new, p, r, k + 1, FALSE, FALSE)
    <3>1. g
      BY <1>1, <2>2, <2>4
    <3>2. m[PacketBuffer(k + 1)] = RowsOf(N, Shift(N, r, k + 1))
      BY <2>2, <3>1 DEF InQuery
    <3>3. InQuery(N, m, r, k + 1, FALSE, FALSE)
      BY <2>3, <3>2 DEF InQuery
    <3> QED
      BY <1>4, <2>1, <3>3 DEF Holds
  <2>5. ASSUME ~(k + 1 < N) PROVE After(N, new, p, r)
    <3>1. \A j \in 0 .. N - 1 : j < k + 1
      BY <1>1, <2>5
    <3> QED
      BY <1>4, <2>1, <2>3, <3>1 DEF After
  <2> QED
    BY <2>1, <2>2, <2>4, <2>5
<1>5. CASE p = "backward"
  <2> DEFINE next == (k + 1) % 2  grad == <<"grad", (k + 1) % 2>>  local == <<"local", 0>>
             sum == Tensor(Shift(N, r, k + 1), Arc(N, r, k + 1))
  <2>1. InBackward(N, m, r, k, g, TRUE) /\ Steps(p) = N /\ g
    <3>1. Steps(p) = N /\ Count(N, p) = N
      BY <1>5 DEF Steps, Count
    <3> QED
      BY <1>1, <1>5, <3>1 DEF Holds
  <2>2. m[local] = Tensor(Shift(N, r, k + 1), Arc(N, r, 1)) /\ local \in Places
    BY <2>1, Addresses DEF InBackward
  <2>3. grad \in Places /\ sum \in Tensors
    <3>1. k + 1 \in Nat
      BY <1>1
    <3>2. grad \in Places
      BY <3>1, Addresses
    <3> QED
      BY <1>2, <3>2, TensorTypes
  <2>4. new = [m EXCEPT ![grad] = sum]
    <3>1. CASE k = 0
      <4>1. (k + 1) % 2 = 1 /\ k + 1 = 1
        BY <3>1
      <4>2. new = [m EXCEPT ![<<"grad", 1>>] = m[local]]
        BY <1>5, <3>1 DEF Merge
      <4> QED
        BY <2>2, <4>1, <4>2
    <3>2. CASE k # 0
      <4>1. k > 0 /\ k \in 1 .. N - 1
        BY <1>1, <3>2
      <4>2. new = [m EXCEPT ![grad] = Plus(m[grad], m[local])]
        BY <1>5, <4>1 DEF Merge
      <4>3. m[grad] = Tensor(Shift(N, r, k + 1), Arc(N, q, k))
        BY <2>1, <4>1 DEF InBackward
      <4>4. Plus(Tensor(Shift(N, r, k + 1), Arc(N, q, k)), Tensor(Shift(N, r, k + 1), Arc(N, r, 1))) = sum
        BY <4>1, Sums
      <4> QED
        BY <2>2, <4>2, <4>3, <4>4
    <3> QED
      BY <3>1, <3>2
  <2>5. \A i : <<"kv", i>> # grad
    OBVIOUS
  <2> HIDE DEF new, grad, sum
  <2>6. new \in [Places -> Tensors] /\ new[grad] = sum /\ \A b : b # grad => new[b] = m[b]
    BY <2>3, <2>4
  <2>7. ASSUME k + 1 < N PROVE Holds(N, new, p, r, k + 1, FALSE, FALSE)
    <3>1. k < N - 1
      BY <1>1, <2>7
    <3>2. m[<<"kv", (k + 1) % 2>>] = RowsOf(N, Shift(N, r, k + 2))
      BY <2>1, <3>1 DEF InBackward
    <3>3. new[<<"kv", (k + 1) % 2>>] = RowsOf(N, Shift(N, r, (k + 1) + 1))
      BY <1>1, <2>5, <2>6, <3>2
    <3>4. new[<<"grad", (k + 1) % 2>>] = Tensor(Shift(N, r, k + 1), Arc(N, r, k + 1))
      BY <2>6 DEF grad, sum
    <3>5. InBackward(N, new, r, k + 1, FALSE, FALSE)
      BY <3>3, <3>4 DEF InBackward
    <3> QED
      BY <1>5, <3>5 DEF Holds
  <2>8. ASSUME ~(k + 1 < N) PROVE After(N, new, p, r)
    <3>1. k + 1 = N
      BY <1>1, <2>8
    <3>2. new[<<"grad", N % 2>>] = Tensor(r, Arc(N, r, N))
      BY <1>2, <2>6, <3>1 DEF grad, sum
    <3> QED
      BY <1>5, <3>2 DEF After
  <2> QED
    BY <2>1, <2>6, <2>7, <2>8 DEF new
<1>6. CASE p = "reduce"
  <2> DEFINE o == Shift(N, r, k + 2)  chunk == <<"chunk", o>>  sum == Tensor(o, Arc(N, r, k + 2))
  <2>1. InReduce(N, m, r, k, g) /\ Steps(p) = N - 1 /\ g /\ k < N - 1
    <3>1. Steps(p) = N - 1 /\ Count(N, p) = N - 1
      BY <1>6 DEF Steps, Count
    <3> QED
      BY <1>1, <1>6, <3>1 DEF Holds
  <2>2. k + 2 \in 1 .. N /\ k + 2 \in k + 2 .. N /\ k + 1 \in 1 .. N - 1 /\ k + 2 \in 0 .. N
    BY <1>1, <2>1
  <2>3. o \in Ranks /\ chunk \in Places /\ sum \in Tensors
    <3>1. o \in Ranks
      BY <1>1, <2>2, Shifts
    <3> QED
      BY <3>1, Addresses, TensorTypes
  <2>4. Owner(p, r, k + 1) = o
    BY <1>6, <2>1, Owners
  <2>5. new = [m EXCEPT ![chunk] = sum]
    <3>1. new = [m EXCEPT ![chunk] = Plus(m[chunk], m[<<"recv", 0>>])]
      BY <1>6, <2>4 DEF Merge
    <3>2. m[chunk] = Tensor(o, Arc(N, r, 1))
      BY <2>1, <2>2 DEF InReduce
    <3>3. m[<<"recv", 0>>] = Tensor(o, Arc(N, q, k + 1))
      BY <2>1 DEF InReduce
    <3>4. Plus(Tensor(o, Arc(N, r, 1)), Tensor(o, Arc(N, q, k + 1))) = Tensor(o, Arc(N, r, (k + 1) + 1))
      BY <2>2, Sums
    <3> QED
      BY <1>1, <3>1, <3>2, <3>3, <3>4
  <2>6. \A j \in k + 3 .. N : <<"chunk", Shift(N, r, j)>> # chunk
    <3>1. ASSUME NEW j \in k + 3 .. N PROVE Shift(N, r, j) # o
      <4>1. j \in 1 .. N /\ j # k + 2
        BY <1>1
      <4> QED
        BY <1>1, <2>2, <4>1, Shifts
    <3> QED
      BY <3>1
  <2> HIDE DEF new, chunk, sum, o
  <2>7. new \in [Places -> Tensors] /\ new[chunk] = sum /\ \A b : b # chunk => new[b] = m[b]
    BY <2>3, <2>5
  <2>8. ASSUME k + 1 < N - 1 PROVE Holds(N, new, p, r, k + 1, FALSE, FALSE)
    <3>1. new[<<"chunk", Shift(N, r, (k + 1) + 1)>>] = Tensor(Shift(N, r, (k + 1) + 1), Arc(N, r, (k + 1) + 1))
      BY <1>1, <2>7 DEF chunk, sum, o
    <3>2. ASSUME NEW j \in (k + 1) + 2 .. N
          PROVE  new[<<"chunk", Shift(N, r, j)>>] = Tensor(Shift(N, r, j), Arc(N, r, 1))
      <4>1. j \in k + 3 .. N /\ j \in k + 2 .. N
        BY <1>1
      <4>2. m[<<"chunk", Shift(N, r, j)>>] = Tensor(Shift(N, r, j), Arc(N, r, 1))
        BY <2>1, <4>1 DEF InReduce
      <4> QED
        BY <2>6, <2>7, <4>1, <4>2
    <3>3. InReduce(N, new, r, k + 1, FALSE)
      BY <3>1, <3>2 DEF InReduce
    <3> QED
      BY <1>6, <3>3 DEF Holds
  <2>9. ASSUME ~(k + 1 < N - 1) PROVE After(N, new, p, r)
    <3>1. k + 2 = N
      BY <1>1, <2>1, <2>9
    <3>2. new[<<"chunk", r>>] = Tensor(r, Arc(N, r, N))
      BY <1>2, <2>7, <3>1 DEF chunk, sum, o
    <3> QED
      BY <1>6, <3>2 DEF After
  <2> QED
    BY <2>1, <2>7, <2>8, <2>9 DEF new
<1> QED
  BY <1>3, <1>4, <1>5, <1>6 DEF PassNames

-----------------------------------------------------------------------------
(* The invariant holds at first and is kept.                               *)

Inv == TypeOK /\ StepInv /\ BufferInv /\ ChannelInv

\* What lies first on the channel to a rank that still waits for its exchange.
LEMMA HeadPacket ==
  ASSUME Inv, NEW r \in Ranks, At(r) # "done", Exchanges(At(r), r, step[r]), ~got[r],
         chan[Right(r)] # <<>>
  PROVE  LET c == chan[Right(r)]
             l == Right(r)
         IN /\ Head(c) \in Seq(Tensors) /\ Tail(c) \in Seq(Seq(Tensors))
            /\ Carries(N, Head(c), At(r), l, step[r])
            /\ Between(N, passes, Tail(c), l, Cursor(N, passes, pass[r], step[r], TRUE),
                                              Cursor(N, passes, pass[l], step[l], sent[l]))
<1> DEFINE l == Right(r)  c == chan[l]  to == Cursor(N, passes, pass[l], step[l], sent[l])
<1>1. /\ N \in RingSizes /\ pass[r] \in 1 .. Len(passes) /\ step[r] \in 0 .. N - 1
      /\ At(r) = passes[pass[r]] /\ step[r] < Count(N, At(r))
  BY PassTypes, Inside DEF Inv
<1>2. l \in Ranks /\ LeftOf(N, l) = r
  BY <1>1, Neighbours
<1>3. c \in Seq(Seq(Tensors)) /\ c # <<>>
  BY <1>2, PassTypes DEF Inv
<1>4. got[r] = FALSE
  BY PassTypes DEF Inv
<1>5. /\ Cursor(N, passes, pass[r], step[r], FALSE) = <<pass[r], step[r]>>
      /\ Cursor(N, passes, pass[r], step[r], TRUE) = Following(N, passes, pass[r], step[r])
  BY <1>1, CursorMoves DEF Inv
<1>6. Between(N, passes, c, l, <<pass[r], step[r]>>, to)
  BY <1>2, <1>4, <1>5 DEF Inv, ChannelInv
<1>7. Head(c) \in Seq(Tensors) /\ Tail(c) \in Seq(Seq(Tensors))
  BY <1>3
<1> HIDE DEF l, c, to
<1>8. /\ Carries(N, Head(c), passes[pass[r]], l, step[r])
      /\ Between(N, passes, Tail(c), l, Following(N, passes, pass[r], step[r]), to)
  BY <1>3, <1>6, BetweenTail
<1> QED
  BY <1>1, <1>5, <1>7, <1>8 DEF l, c, to

LEMMA InitInv ==
  ASSUME Init
  PROVE  Inv
<1> DEFINE blank == [b \in Places |-> Uninitialized]
<1>1. /\ N \in RingSizes /\ passes \in Iterations /\ rendezvous \in BOOLEAN
      /\ N \in Nat /\ N >= 2 /\ Ranks = 0 .. N - 1
  BY RingSize DEF Init
<1>2. /\ Len(passes) \in Nat /\ 1 <= Len(passes) /\ passes[1] \in PassNames
      /\ passes[1] # "backward" /\ passes[1] # "reduce"
  <2>1. passes \in Seq(PassNames) /\ passes # <<>>
    BY <1>1, PassAssumption DEF PassNames
  <2>2. 1 \in DOMAIN passes /\ ~(1 > 1) /\ Len(passes) \in Nat /\ 1 <= Len(passes)
    BY <2>1
  <2> QED
    BY <1>1, <2>1, <2>2, LayerAssumption
<1>3. ASSUME NEW r \in Ranks
      PROVE  /\ Prologue(passes[1], r, blank) \in [Places -> Tensors]
             /\ Holds(N, Prologue(passes[1], r, blank), passes[1], r, 0, FALSE, FALSE)
  <2>1. blank \in [Places -> Tensors]
    BY <1>1, TensorTypes
  <2> HIDE DEF blank
  <2> QED
    BY <1>1, <1>2, <2>1, PrologueHolds
<1>4. \A r \in Ranks : /\ pass[r] = 1 /\ step[r] = 0 /\ sent[r] = FALSE /\ got[r] = FALSE
                       /\ computed[r] = FALSE /\ mem[r] = Prologue(passes[1], r, blank)
                       /\ chan[r] = <<>>
  BY DEF Init
<1> HIDE DEF blank
<1>5. TypeOK
  <2>1. pass \in [Ranks -> 1 .. Len(passes) + 1] /\ step \in [Ranks -> 0 .. N - 1]
    BY <1>1, <1>2 DEF Init
  <2>2. /\ sent \in [Ranks -> BOOLEAN] /\ got \in [Ranks -> BOOLEAN]
        /\ computed \in [Ranks -> BOOLEAN]
    BY DEF Init
  <2>3. mem \in [Ranks -> [Places -> Tensors]]
    BY <1>3 DEF Init, blank
  <2>4. chan \in [Ranks -> Seq(Seq(Tensors))]
    BY DEF Init
  <2> QED
    BY <1>1, <2>1, <2>2, <2>3, <2>4 DEF TypeOK
<1>6. StepInv
  <2>1. 0 < Steps(passes[1]) /\ ~(1 > Len(passes))
    BY <1>1, <1>2 DEF Steps
  <2>2. ASSUME NEW r \in Ranks
        PROVE  /\ pass[r] <= Len(passes) => step[r] < Steps(passes[pass[r]])
               /\ pass[r] > Len(passes) => step[r] = 0
    <3>1. pass[r] = 1 /\ step[r] = 0
      BY <1>4
    <3> QED
      BY <2>1, <3>1
  <2> QED
    BY <2>2 DEF StepInv
<1>7. BufferInv
  <2>1. ASSUME NEW r \in Ranks
        PROVE  /\ pass[r] <= Len(passes) =>
                    Holds(N, mem[r], passes[pass[r]], r, step[r], got[r], computed[r])
               /\ pass[r] > Len(passes) => After(N, mem[r], passes[Len(passes)], r)
    <3>1. /\ pass[r] = 1 /\ step[r] = 0 /\ got[r] = FALSE /\ computed[r] = FALSE
          /\ mem[r] = Prologue(passes[1], r, blank) /\ ~(1 > Len(passes))
      BY <1>2, <1>4
    <3>2. Holds(N, mem[r], passes[1], r, 0, FALSE, FALSE)
      BY <1>3, <3>1
    <3> QED
      BY <3>1, <3>2
  <2> QED
    BY <2>1 DEF BufferInv
<1>8. ChannelInv
  <2>1. Cursor(N, passes, 1, 0, FALSE) = <<1, 0>>
    <3>1. ~(1 > Len(passes)) /\ ~(0 >= Count(N, passes[1]))
      BY <1>1, <1>2 DEF Count
    <3> QED
      BY <3>1 DEF Cursor
  <2>2. <<1, 0>> \in Points(N, passes)
    BY <1>1, <1>2 DEF Points
  <2>3. ASSUME NEW r \in Ranks
        PROVE  Between(N, passes, chan[r], r,
                 Cursor(N, passes, pass[LeftOf(N, r)], step[LeftOf(N, r)], got[LeftOf(N, r)]),
                 Cursor(N, passes, pass[r], step[r], sent[r]))
    <3>1. LeftOf(N, r) \in Ranks
      BY <1>1, Neighbours
    <3> QED
      BY <1>4, <2>1, <2>2, <3>1, BetweenNothing
  <2> QED
    BY <2>3 DEF ChannelInv
<1> QED
  BY <1>5, <1>6, <1>7, <1>8 DEF Inv

LEMMA SendInv ==
  ASSUME Inv, NEW r \in Ranks, Send(r)
  PROVE  Inv'
<1> DEFINE packet == Packed(mem[r], SendFrom(At(r), r, step[r]))
<1>1. /\ N' = N /\ passes' = passes /\ rendezvous' = rendezvous
      /\ Ranks' = Ranks /\ Tensors' = Tensors
  BY SettingStays DEF Next, Move
<1>2. /\ At(r) # "done" /\ Exchanges(At(r), r, step[r]) /\ ~sent[r]
      /\ chan' = [chan EXCEPT ![r] = Append(@, packet)]
      /\ sent' = [sent EXCEPT ![r] = TRUE]
      /\ pass' = pass /\ step' = step /\ got' = got /\ computed' = computed /\ mem' = mem
  BY DEF Send, Packed
<1>3. TypeOK /\ StepInv /\ BufferInv /\ ChannelInv
  BY DEF Inv
<1>4. /\ N \in RingSizes /\ N \in Nat /\ N >= 2 /\ Len(passes) \in Nat
      /\ pass[r] \in 1 .. Len(passes) /\ step[r] \in 0 .. N - 1
      /\ At(r) = passes[pass[r]] /\ At(r) \in PassNames /\ step[r] < Count(N, At(r))
      /\ mem[r] \in [Places -> Tensors] /\ chan[r] \in Seq(Seq(Tensors)) /\ sent[r] = FALSE
      /\ pass[r] <= Len(passes)
  BY <1>2, <1>3, PassTypes, Inside
<1>5. packet \in Seq(Tensors) /\ Carries(N, packet, passes[pass[r]], r, step[r])
  <2>1. Holds(N, mem[r], passes[pass[r]], r, step[r], got[r], computed[r])
    BY <1>3, <1>4 DEF BufferInv
  <2> QED
    BY <1>4, <2>1, SendCarries
<1> HIDE DEF packet
<1>6. TypeOK'
  <2>1. chan' \in [Ranks -> Seq(Seq(Tensors))]
    <3>1. Append(chan[r], packet) \in Seq(Seq(Tensors))
      BY <1>4, <1>5
    <3> QED
      BY <1>2, <1>3, <3>1 DEF TypeOK
  <2>2. sent' \in [Ranks -> BOOLEAN]
    BY <1>2, <1>3 DEF TypeOK
  <2> QED
    BY <1>1, <1>2, <1>3, <2>1, <2>2 DEF TypeOK
<1>7. StepInv'
  BY <1>1, <1>2, <1>3 DEF StepInv, Steps
<1>8. BufferInv'
  BY <1>1, <1>2, <1>3 DEF BufferInv
<1>9. ChannelInv'
  <2> SUFFICES ASSUME NEW x \in Ranks
               PROVE  Between(N, passes, chan'[x], x,
                        Cursor(N, passes, pass[LeftOf(N, x)], step[LeftOf(N, x)], got[LeftOf(N, x)]),
                        Cursor(N, passes, pass[x], step[x], sent'[x]))
    BY <1>1, <1>2 DEF ChannelInv
  <2> DEFINE from == Cursor(N, passes, pass[LeftOf(N, x)], step[LeftOf(N, x)], got[LeftOf(N, x)])
  <2>1. Between(N, passes, chan[x], x, from, Cursor(N, passes, pass[x], step[x], sent[x]))
    BY <1>3 DEF ChannelInv
  <2>2. CASE x = r
    <3>1. /\ Cursor(N, passes, pass[r], step[r], FALSE) = <<pass[r], step[r]>>
          /\ Cursor(N, passes, pass[r], step[r], TRUE) = Following(N, passes, pass[r], step[r])
      BY <1>3, <1>4, CursorMoves
    <3>2. chan'[r] = Append(chan[r], packet) /\ sent'[r] = TRUE
      BY <1>2, <1>3 DEF TypeOK
    <3> HIDE DEF from
    <3>3. Between(N, passes, chan[r], r, from, <<pass[r], step[r]>>)
      BY <1>4, <2>1, <2>2, <3>1
    <3>4. Between(N, passes, Append(chan[r], packet), r, from, Following(N, passes, pass[r], step[r]))
      BY <1>4, <1>5, <3>3, BetweenAppend
    <3> QED
      BY <2>2, <3>1, <3>2, <3>4 DEF from
  <2>3. CASE x # r
    <3>1. chan'[x] = chan[x] /\ sent'[x] = sent[x]
      BY <1>2, <1>3, <2>3 DEF TypeOK
    <3> QED
      BY <2>1, <3>1
  <2> QED
    BY <2>2, <2>3
<1> QED
  BY <1>6, <1>7, <1>8, <1>9 DEF Inv

LEMMA ReceiveInv ==
  ASSUME Inv, NEW r \in Ranks, Receive(r)
  PROVE  Inv'
<1> DEFINE l == Right(r)  packet == Head(chan[l])
           new == Stored(mem[r], ReceiveInto(At(r), r, step[r]), packet)
<1>1. /\ N' = N /\ passes' = passes /\ rendezvous' = rendezvous
      /\ Ranks' = Ranks /\ Tensors' = Tensors
  BY SettingStays DEF Next, Move
<1>2. /\ At(r) # "done" /\ Exchanges(At(r), r, step[r]) /\ ~got[r] /\ chan[l] # <<>>
      /\ mem' = [mem EXCEPT ![r] = new]
      /\ chan' = [chan EXCEPT ![l] = Tail(@)]
      /\ got' = [got EXCEPT ![r] = TRUE]
      /\ pass' = pass /\ step' = step /\ sent' = sent /\ computed' = computed
  BY DEF Receive, Stored
<1>3. TypeOK /\ StepInv /\ BufferInv /\ ChannelInv
  BY DEF Inv
<1>4. /\ N \in RingSizes /\ N \in Nat \ {0} /\ Ranks = 0 .. N - 1
      /\ At(r) = passes[pass[r]] /\ At(r) \in PassNames /\ step[r] < Count(N, At(r))
      /\ step[r] \in 0 .. N - 1 /\ mem[r] \in [Places -> Tensors] /\ got[r] = FALSE
      /\ pass[r] <= Len(passes)
  BY <1>2, <1>3, PassTypes, Inside
<1>5. l \in Ranks /\ LeftOf(N, l) = r /\ l = Shift(N, r, 1)
  BY <1>4, Neighbours
<1>6. /\ packet \in Seq(Tensors) /\ Tail(chan[l]) \in Seq(Seq(Tensors))
      /\ Carries(N, packet, At(r), l, step[r])
      /\ Between(N, passes, Tail(chan[l]), l, Cursor(N, passes, pass[r], step[r], TRUE),
                                              Cursor(N, passes, pass[l], step[l], sent[l]))
  BY <1>2, HeadPacket
<1>7. /\ new \in [Places -> Tensors]
      /\ Holds(N, new, At(r), r, step[r], TRUE, computed[r])
  <2>1. Holds(N, mem[r], At(r), r, step[r], FALSE, computed[r])
    BY <1>3, <1>4 DEF BufferInv
  <2> QED
    BY <1>4, <1>6, <2>1, ReceiveHolds
<1> HIDE DEF new, packet
<1>8. /\ mem'[r] = new /\ got'[r] = TRUE
      /\ \A x \in Ranks : x # r => mem'[x] = mem[x] /\ got'[x] = got[x]
  BY <1>2, <1>3 DEF TypeOK
<1>9. TypeOK'
  <2>1. mem' \in [Ranks -> [Places -> Tensors]]
    BY <1>2, <1>3, <1>7 DEF TypeOK
  <2>2. chan' \in [Ranks -> Seq(Seq(Tensors))]
    BY <1>2, <1>3, <1>6 DEF TypeOK
  <2>3. got' \in [Ranks -> BOOLEAN]
    BY <1>2, <1>3 DEF TypeOK
  <2> QED
    BY <1>1, <1>2, <1>3, <2>1, <2>2, <2>3 DEF TypeOK
<1>10. StepInv'
  BY <1>1, <1>2, <1>3 DEF StepInv, Steps
<1>11. BufferInv'
  <2> SUFFICES ASSUME NEW x \in Ranks
               PROVE  /\ pass[x] <= Len(passes) =>
                           Holds(N, mem'[x], passes[pass[x]], x, step[x], got'[x], computed[x])
                      /\ pass[x] > Len(passes) => After(N, mem'[x], passes[Len(passes)], x)
    BY <1>1, <1>2 DEF BufferInv
  <2>1. CASE x = r
    <3>1. ~(pass[r] > Len(passes))
      BY <1>2, <1>3, <1>4, PassTypes
    <3> QED
      BY <1>4, <1>7, <1>8, <2>1, <3>1
  <2>2. CASE x # r
    BY <1>3, <1>8, <2>2 DEF BufferInv
  <2> QED
    BY <2>1, <2>2
<1>12. ChannelInv'
  <2> SUFFICES ASSUME NEW x \in Ranks
               PROVE  Between(N, passes, chan'[x], x,
                        Cursor(N, passes, pass[LeftOf(N, x)], step[LeftOf(N, x)], got'[LeftOf(N, x)]),
                        Cursor(N, passes, pass[x], step[x], sent[x]))
    BY <1>1, <1>2 DEF ChannelInv
  <2>1. CASE x = l
    <3>1. chan'[l] = Tail(chan[l])
      BY <1>2, <1>3, <1>5 DEF TypeOK
    <3> QED
      BY <1>5, <1>6, <1>8, <2>1, <3>1
  <2>2. CASE x # l
    <3>1. chan'[x] = chan[x]
      BY <1>2, <1>3, <2>2 DEF TypeOK
    <3>2. LeftOf(N, x) # r /\ LeftOf(N, x) \in Ranks
      <4>1. Shift(N, LeftOf(N, x), 1) = x
        BY <1>4, Shifts
      <4>2. LeftOf(N, x) \in Ranks
        BY <1>4, Shifts
      <4> QED
        BY <1>5, <2>2, <4>1, <4>2
    <3>3. got'[LeftOf(N, x)] = got[LeftOf(N, x)]
      BY <1>8, <3>2
    <3> QED
      BY <1>3, <3>1, <3>3 DEF ChannelInv
  <2> QED
    BY <2>1, <2>2
<1> QED
  BY <1>9, <1>10, <1>11, <1>12 DEF Inv

LEMMA ComputeInv ==
  ASSUME Inv, NEW r \in Ranks, Compute(r)
  PROVE  Inv'
<1> DEFINE new == Worked(At(r), r, step[r], mem[r])
<1>1. /\ N' = N /\ passes' = passes /\ rendezvous' = rendezvous
      /\ Ranks' = Ranks /\ Tensors' = Tensors
  BY SettingStays DEF Next, Move
<1>2. TypeOK /\ StepInv /\ BufferInv /\ ChannelInv
  BY DEF Inv
<1>3. /\ At(r) # "done" /\ ~computed[r]
      /\ computed' = [computed EXCEPT ![r] = TRUE]
      /\ pass' = pass /\ step' = step /\ sent' = sent /\ got' = got /\ chan' = chan
  BY DEF Compute
<1>4. /\ N \in RingSizes /\ At(r) = passes[pass[r]] /\ At(r) \in PassNames
      /\ step[r] \in 0 .. N - 1 /\ mem[r] \in [Places -> Tensors] /\ computed[r] = FALSE
      /\ pass[r] <= Len(passes) /\ pass[r] \in Nat /\ Len(passes) \in Nat
  BY <1>2, <1>3, PassTypes, Inside
<1>5. mem' = [mem EXCEPT ![r] = new]
  <2> DEFINE p == At(r)  done == Tensor(mem[r][Current(p, r, step[r])].owner, Only(r))
             chunk == <<"chunk", Owner(p, r, step[r])>>
  <2>1. CASE p = "backward"
    <3>1. mem' = [mem EXCEPT ![r][<<"local", 0>>] = done]
      BY <2>1 DEF Compute
    <3>2. new = [mem[r] EXCEPT ![<<"local", 0>>] = done]
      BY <2>1 DEF Worked
    <3> HIDE DEF done, new
    <3> QED
      BY <3>1, <3>2
  <2>2. CASE p = "query"
    <3>1. mem' = [mem EXCEPT ![r][chunk] = done]
      BY <2>2 DEF Compute
    <3>2. new = [mem[r] EXCEPT ![chunk] = done]
      BY <2>2 DEF Worked
    <3> HIDE DEF done, new, chunk
    <3> QED
      BY <3>1, <3>2
  <2>3. CASE p # "backward" /\ p # "query"
    <3>1. mem' = mem /\ new = mem[r]
      BY <2>3 DEF Compute, Worked
    <3> HIDE DEF new
    <3> QED
      BY <1>2, <3>1 DEF TypeOK
  <2> QED
    BY <2>1, <2>2, <2>3
<1>6. /\ new \in [Places -> Tensors]
      /\ Holds(N, new, passes[pass[r]], r, step[r], got[r], TRUE)
  <2>1. Holds(N, mem[r], At(r), r, step[r], got[r], FALSE)
    BY <1>2, <1>4 DEF BufferInv
  <2> QED
    BY <1>4, <2>1, ComputeHolds
<1> HIDE DEF new
<1>7. /\ mem'[r] = new /\ computed'[r] = TRUE
      /\ \A x \in Ranks : x # r => mem'[x] = mem[x] /\ computed'[x] = computed[x]
  BY <1>2, <1>3, <1>5 DEF TypeOK
<1>8. TypeOK'
  <2>1. mem' \in [Ranks -> [Places -> Tensors]]
    BY <1>2, <1>5, <1>6 DEF TypeOK
  <2>2. computed' \in [Ranks -> BOOLEAN]
    BY <1>2, <1>3 DEF TypeOK
  <2> QED
    BY <1>1, <1>2, <1>3, <2>1, <2>2 DEF TypeOK
<1>9. StepInv'
  BY <1>1, <1>2, <1>3 DEF StepInv, Steps
<1>10. BufferInv'
  <2> SUFFICES ASSUME NEW x \in Ranks
               PROVE  /\ pass[x] <= Len(passes) =>
                           Holds(N, mem'[x], passes[pass[x]], x, step[x], got[x], computed'[x])
                      /\ pass[x] > Len(passes) => After(N, mem'[x], passes[Len(passes)], x)
    BY <1>1, <1>3 DEF BufferInv
  <2>1. CASE x = r
    <3>1. ~(pass[r] > Len(passes))
      BY <1>4
    <3> QED
      BY <1>6, <1>7, <2>1, <3>1
  <2>2. CASE x # r
    BY <1>2, <1>7, <2>2 DEF BufferInv
  <2> QED
    BY <2>1, <2>2
<1>11. ChannelInv'
  BY <1>1, <1>2, <1>3 DEF ChannelInv
<1> QED
  BY <1>8, <1>9, <1>10, <1>11 DEF Inv

LEMMA EndStepInv ==
  ASSUME Inv, NEW r \in Ranks, EndStep(r)
  PROVE  Inv'
<1> DEFINE p == At(r)  k == step[r]  merged == Merge(p, r, k, mem[r])
           new == IF pass[r] = Len(passes) THEN merged ELSE Prologue(passes[pass[r] + 1], r, merged)
<1>1. /\ N' = N /\ passes' = passes /\ rendezvous' = rendezvous
      /\ Ranks' = Ranks /\ Tensors' = Tensors
  BY SettingStays DEF Next, Move
<1>2. TypeOK /\ StepInv /\ BufferInv /\ ChannelInv
  BY DEF Inv
<1>3. /\ p # "done" /\ computed[r] /\ (Exchanges(p, r, k) => sent[r] /\ got[r])
      /\ sent' = [sent EXCEPT ![r] = FALSE] /\ got' = [got EXCEPT ![r] = FALSE]
      /\ computed' = [computed EXCEPT ![r] = FALSE] /\ chan' = chan
  BY DEF EndStep
<1>4. /\ k + 1 < Steps(p) => /\ step' = [step EXCEPT ![r] = k + 1] /\ pass' = pass
                             /\ mem' = [mem EXCEPT ![r] = merged]
      /\ ~(k + 1 < Steps(p)) => /\ step' = [step EXCEPT ![r] = 0]
                                /\ pass' = [pass EXCEPT ![r] = pass[r] + 1]
                                /\ mem' = [mem EXCEPT ![r] = new]
  BY DEF EndStep
<1>5. /\ N \in RingSizes /\ N \in Nat /\ N >= 2 /\ p = passes[pass[r]] /\ p \in PassNames
      /\ k \in 0 .. N - 1 /\ k < Steps(p) /\ (k < Count(N, p) => sent[r] /\ got[r])
      /\ mem[r] \in [Places -> Tensors] /\ computed[r] = TRUE
      /\ sent[r] \in BOOLEAN /\ got[r] \in BOOLEAN
      /\ pass[r] \in 1 .. Len(passes) /\ Len(passes) \in Nat
  BY <1>2, <1>3, PassTypes, Inside
<1>6. /\ merged \in [Places -> Tensors]
      /\ k + 1 < Steps(p) => Holds(N, merged, p, r, k + 1, FALSE, FALSE)
      /\ ~(k + 1 < Steps(p)) => After(N, merged, p, r)
  <2>1. Holds(N, mem[r], passes[pass[r]], r, k, got[r], computed[r])
    <3>1. pass[r] <= Len(passes)
      BY <1>5
    <3> QED
      BY <1>2, <3>1 DEF BufferInv
  <2>2. Holds(N, mem[r], p, r, k, got[r], TRUE)
    BY <1>5, <2>1
  <2> QED
    BY <1>5, <2>2, MergeHolds
<1>7. Steps(p) \in Nat /\ Steps(p) <= N /\ \A x : 0 < Steps(x)
  BY <1>5 DEF Steps
\* A pass that starts finds what the one before it left.
<1>8. ASSUME ~(k + 1 < Steps(p))
      PROVE  /\ new \in [Places -> Tensors]
             /\ pass[r] = Len(passes) => After(N, new, passes[Len(passes)], r)
             /\ pass[r] # Len(passes) => Holds(N, new, passes[pass[r] + 1], r, 0, FALSE, FALSE)
  <2>1. CASE pass[r] = Len(passes)
    BY <1>5, <1>6, <1>8, <2>1
  <2>2. CASE pass[r] # Len(passes)
    <3> DEFINE i == pass[r] + 1  q == passes[i]
    <3>1. i \in 1 .. Len(passes) /\ i - 1 = pass[r]
      BY <1>5, <2>2
    <3>2. passes \in Iterations /\ i \in DOMAIN passes /\ q \in PassNames
      BY <1>2, <3>1, PassTypes
    <3>3. (q = "backward" => p = "forward") /\ (q = "reduce" => p = "query")
      BY <1>5, <3>1, <3>2, LayerAssumption
    <3>4. /\ q = "backward" => merged[<<"start", 0>>] = RowsOf(N, Shift(N, r, 1))
          /\ q = "reduce" => After(N, merged, "query", r)
      <4>1. After(N, merged, p, r)
        BY <1>6, <1>8
      <4> HIDE DEF q, merged, p
      <4>2. ASSUME q = "backward" PROVE merged[<<"start", 0>>] = RowsOf(N, Shift(N, r, 1))
        BY <3>3, <4>1, <4>2 DEF After
      <4>3. ASSUME q = "reduce" PROVE After(N, merged, "query", r)
        BY <3>3, <4>1, <4>3
      <4> QED
        BY <4>2, <4>3
    <3> HIDE DEF merged, q
    <3>5. /\ Prologue(q, r, merged) \in [Places -> Tensors]
          /\ Holds(N, Prologue(q, r, merged), q, r, 0, FALSE, FALSE)
      BY <1>5, <1>6, <3>2, <3>4, PrologueHolds
    <3> QED
      BY <2>2, <3>5 DEF q
  <2> QED
    BY <2>1, <2>2
<1> HIDE DEF merged, new
<1>9. /\ sent'[r] = FALSE /\ got'[r] = FALSE /\ computed'[r] = FALSE
      /\ k + 1 < Steps(p) => pass'[r] = pass[r] /\ step'[r] = k + 1 /\ mem'[r] = merged
      /\ ~(k + 1 < Steps(p)) => pass'[r] = pass[r] + 1 /\ step'[r] = 0 /\ mem'[r] = new
  BY <1>2, <1>3, <1>4 DEF TypeOK
<1>10. ASSUME NEW x \in Ranks, x # r
       PROVE  /\ pass'[x] = pass[x] /\ step'[x] = step[x] /\ sent'[x] = sent[x]
              /\ got'[x] = got[x] /\ computed'[x] = computed[x] /\ mem'[x] = mem[x]
  <2>1. sent'[x] = sent[x] /\ got'[x] = got[x] /\ computed'[x] = computed[x]
    BY <1>2, <1>3, <1>10 DEF TypeOK
  <2>2. pass'[x] = pass[x] /\ step'[x] = step[x] /\ mem'[x] = mem[x]
    BY <1>2, <1>4, <1>10 DEF TypeOK
  <2> QED
    BY <2>1, <2>2
<1>11. TypeOK'
  <2>1. mem' \in [Ranks -> [Places -> Tensors]]
    BY <1>2, <1>4, <1>6, <1>8 DEF TypeOK
  <2>2. /\ sent' \in [Ranks -> BOOLEAN] /\ got' \in [Ranks -> BOOLEAN]
        /\ computed' \in [Ranks -> BOOLEAN]
    BY <1>2, <1>3 DEF TypeOK
  <2>3. step' \in [Ranks -> 0 .. N - 1]
    <3>1. (k + 1 < Steps(p) => k + 1 \in 0 .. N - 1) /\ 0 \in 0 .. N - 1
      BY <1>5, <1>7
    <3> QED
      BY <1>2, <1>4, <3>1 DEF TypeOK
  <2>4. pass' \in [Ranks -> 1 .. Len(passes) + 1]
    <3>1. pass[r] + 1 \in 1 .. Len(passes) + 1
      BY <1>5
    <3> QED
      BY <1>2, <1>4, <3>1 DEF TypeOK
  <2> QED
    BY <1>1, <1>2, <1>3, <2>1, <2>2, <2>3, <2>4 DEF TypeOK
<1>12. StepInv'
  <2> SUFFICES ASSUME NEW x \in Ranks
               PROVE  /\ pass'[x] <= Len(passes) => step'[x] < Steps(passes[pass'[x]])
                      /\ pass'[x] > Len(passes) => step'[x] = 0
    BY <1>1 DEF StepInv, Steps
  <2>1. CASE x # r
    BY <1>2, <1>10, <2>1 DEF StepInv
  <2>2. CASE x = r /\ k + 1 < Steps(p)
    <3>1. ~(pass[r] > Len(passes))
      BY <1>5
    <3> QED
      BY <1>5, <1>9, <2>2, <3>1
  <2>3. CASE x = r /\ ~(k + 1 < Steps(p))
    BY <1>7, <1>9, <2>3
  <2> QED
    BY <2>1, <2>2, <2>3
<1>13. BufferInv'
  <2> SUFFICES ASSUME NEW x \in Ranks
               PROVE  /\ pass'[x] <= Len(passes) =>
                           Holds(N, mem'[x], passes[pass'[x]], x, step'[x], got'[x], computed'[x])
                      /\ pass'[x] > Len(passes) => After(N, mem'[x], passes[Len(passes)], x)
    BY <1>1 DEF BufferInv
  <2>1. CASE x # r
    BY <1>2, <1>10, <2>1 DEF BufferInv
  <2>2. CASE x = r /\ k + 1 < Steps(p)
    <3>1. ~(pass[r] > Len(passes))
      BY <1>5
    <3> QED
      BY <1>5, <1>6, <1>9, <2>2, <3>1
  <2>3. CASE x = r /\ ~(k + 1 < Steps(p))
    <3>1. /\ pass[r] + 1 > Len(passes) => pass[r] = Len(passes)
          /\ pass[r] + 1 <= Len(passes) => pass[r] # Len(passes)
      BY <1>5
    <3> QED
      BY <1>8, <1>9, <2>3, <3>1
  <2> QED
    BY <2>1, <2>2, <2>3
<1>14. ChannelInv'
  <2>1. ASSUME NEW posted \in BOOLEAN, k < Count(N, p) => posted
        PROVE  Cursor(N, passes, pass'[r], step'[r], FALSE) = Cursor(N, passes, pass[r], k, posted)
    <3>1. /\ pass[r] \in 1 .. Len(passes) /\ k \in 0 .. N - 1
          /\ k < Count(N, passes[pass[r]]) => posted
          /\ k < Steps(passes[pass[r]])
      BY <1>5, <2>1
    <3>2. /\ k + 1 < Steps(passes[pass[r]]) =>
               Cursor(N, passes, pass[r], k + 1, FALSE) = Cursor(N, passes, pass[r], k, posted)
          /\ k + 1 >= Steps(passes[pass[r]]) =>
               Cursor(N, passes, pass[r] + 1, 0, FALSE) = Cursor(N, passes, pass[r], k, posted)
      BY <1>2, <3>1, CursorMoves
    <3>3. CASE k + 1 < Steps(p)
      BY <1>5, <1>9, <3>2, <3>3
    <3>4. CASE ~(k + 1 < Steps(p))
      <4>1. k + 1 >= Steps(passes[pass[r]])
        BY <1>5, <1>7, <3>4
      <4> QED
        BY <1>9, <3>2, <3>4, <4>1
    <3> QED
      BY <3>3, <3>4
  <2>2. ASSUME NEW x \in Ranks
        PROVE  /\ Cursor(N, passes, pass'[x], step'[x], sent'[x])
                    = Cursor(N, passes, pass[x], step[x], sent[x])
               /\ Cursor(N, passes, pass'[x], step'[x], got'[x])
                    = Cursor(N, passes, pass[x], step[x], got[x])
    <3>1. CASE x # r
      BY <1>10, <3>1
    <3>2. CASE x = r
      BY <1>5, <1>9, <2>1, <3>2
    <3> QED
      BY <3>1, <3>2
  <2> SUFFICES ASSUME NEW x \in Ranks
               PROVE  Between(N, passes, chan[x], x,
                        Cursor(N, passes, pass'[LeftOf(N, x)], step'[LeftOf(N, x)], got'[LeftOf(N, x)]),
                        Cursor(N, passes, pass'[x], step'[x], sent'[x]))
    BY <1>1, <1>3 DEF ChannelInv
  <2>3. LeftOf(N, x) \in Ranks
    BY <1>5, Neighbours
  <2> QED
    BY <1>2, <2>2, <2>3 DEF ChannelInv
<1> QED
  BY <1>11, <1>12, <1>13, <1>14 DEF Inv

LEMMA StepKeepsInv ==
  ASSUME Inv, [Next]_vars
  PROVE  Inv'
<1>1. ASSUME NEW r \in Ranks, Move(r) PROVE Inv'
  BY <1>1, SendInv, ReceiveInv, ComputeInv, EndStepInv DEF Move
<1>2. CASE UNCHANGED vars
  <2>1. /\ N' = N /\ passes' = passes /\ pass' = pass /\ step' = step /\ sent' = sent
        /\ got' = got /\ computed' = computed /\ mem' = mem /\ chan' = chan
        /\ rendezvous' = rendezvous /\ Ranks' = Ranks /\ Tensors' = Tensors
    BY <1>2, SettingStays DEF vars, flags
  <2> QED
    BY <2>1 DEF Inv, TypeOK, StepInv, BufferInv, ChannelInv, Steps
<1> QED
  BY <1>1, <1>2 DEF Next, Finished

-----------------------------------------------------------------------------
(* The theorems.                                                           *)

LEMMA InvHolds == Spec => []Inv
<1>1. Init => Inv
  BY InitInv
<1>2. Inv /\ [Next]_vars => Inv'
  BY StepKeepsInv
<1> QED
  BY <1>1, <1>2, PTL DEF Spec

\* Every variable keeps its type: no rank runs past the last step of a pass, and no
\* buffer ever holds anything but a tensor of an owner in the ring.
THEOREM TypeCorrect == Spec => []TypeOK
<1>1. Inv => TypeOK
  BY DEF Inv
<1> QED
  BY <1>1, InvHolds, PTL

\* For every ring size and every sequence of passes, a step computes on the rows of the
\* owner it takes its mask from, however far its neighbours have gone.
THEOREM ShardsAreTheirOwners == Spec => []ComputesOnItsOwner
<1>1. Inv => ComputesOnItsOwner
  <2> SUFFICES ASSUME Inv, NEW r \in Ranks, At(r) \in {"forward", "backward", "query"}
               PROVE  mem[r][Current(At(r), r, step[r])] = Rows(Owner(At(r), r, step[r]))
    BY DEF ComputesOnItsOwner
  <2>1. At(r) # "done"
    OBVIOUS
  <2>2. /\ N \in RingSizes /\ mem[r] \in [Places -> Tensors] /\ step[r] \in 0 .. N - 1
        /\ At(r) = passes[pass[r]] /\ pass[r] <= Len(passes)
    BY <2>1, PassTypes, Inside DEF Inv
  <2>3. Holds(N, mem[r], At(r), r, step[r], got[r], computed[r])
    BY <2>2 DEF Inv, BufferInv
  <2>4. mem[r][Current(At(r), r, step[r])] = RowsOf(N, Owner(At(r), r, step[r]))
    BY <2>2, <2>3, CurrentHolds
  <2> QED
    BY <2>2, <2>4, Sums
<1> QED
  BY <1>1, InvHolds, PTL

\* For every ring size and every sequence of passes, the packet a rank takes is the
\* exchange it posted, whichever of both sides posted first.
THEOREM ExchangesMatch == Spec => []PacketsMatch
<1>1. Inv => PacketsMatch
  <2> SUFFICES ASSUME Inv, NEW r \in Ranks, At(r) # "done", Exchanges(At(r), r, step[r]), ~got[r],
                      chan[Right(r)] # <<>>
               PROVE  /\ Len(Head(chan[Right(r)])) = Len(ReceiveInto(At(r), r, step[r]))
                      /\ Head(chan[Right(r)])[1].owner
                           = IF At(r) = "backward" /\ step[r] = N - 1 THEN r
                             ELSE Owner(At(r), r, step[r] + 1)
    BY DEF PacketsMatch
  <2> DEFINE p == At(r)  k == step[r]  q == Shift(N, r, 1)  packet == Head(chan[Right(r)])
  <2>1. /\ N \in RingSizes /\ N \in Nat \ {0} /\ N >= 2 /\ Ranks = 0 .. N - 1
        /\ mem[r] \in [Places -> Tensors] /\ k \in 0 .. N - 1 /\ k < Count(N, p)
        /\ p = passes[pass[r]] /\ p \in PassNames /\ pass[r] <= Len(passes)
        /\ got[r] = FALSE
    BY PassTypes, Inside DEF Inv
  <2>2. packet \in Seq(Tensors) /\ Carries(N, packet, p, Right(r), k)
    BY HeadPacket
  <2>3. Holds(N, mem[r], p, r, k, FALSE, computed[r])
    <3>1. Holds(N, mem[r], passes[pass[r]], r, step[r], got[r], computed[r])
      BY <2>1 DEF Inv, BufferInv
    <3> QED
      BY <2>1, <3>1
  <2> HIDE DEF p, k, packet
  <2>4. Len(packet) = Len(ReceiveInto(p, r, k))
    BY <2>1, <2>2, ReceiveLength
  <2>5. Carries(N, packet, p, q, k)
    BY <2>1, <2>2, Neighbours
  <2>6. Shift(N, q, k) = Shift(N, r, k + 1) /\ (k < N - 1 => Shift(N, q, k + 1) = Shift(N, r, k + 2))
    <3>1. k \in 0 .. N - 1 /\ (k < N - 1 => k + 1 \in 0 .. N - 1) /\ (k + 1) + 1 = k + 2
      BY <2>1
    <3> QED
      BY <2>1, <3>1, Shifts
  <2>7. \A o, s : Tensor(o, s).owner = o /\ RowsOf(N, o).owner = o
    BY DEF Tensor, RowsOf
  <2>8. packet[1].owner = IF p = "backward" /\ k = N - 1 THEN r ELSE Owner(p, r, k + 1)
    <3>1. CASE p \in {"forward", "query"}
      <4>1. Owner(p, r, k + 1) = Shift(N, r, k + 1)
        BY <2>1, <3>1, Owners
      <4>2. packet[1] = RowsOf(N, Shift(N, r, k + 1))
        BY <2>5, <2>6, <3>1 DEF Carries
      <4> QED
        BY <2>7, <3>1, <4>1, <4>2
    <3>2. CASE p = "reduce"
      <4>1. k < N - 1
        BY <2>1, <3>2 DEF Count
      <4>2. Owner(p, r, k + 1) = Shift(N, r, k + 2)
        BY <2>1, <3>2, <4>1, Owners
      <4>3. packet[1] = Tensor(Shift(N, r, k + 2), Arc(N, q, k + 1))
        BY <2>5, <2>6, <3>2, <4>1 DEF Carries
      <4> QED
        BY <2>7, <3>2, <4>2, <4>3
    <3>3. CASE p = "backward" /\ k < N - 1
      <4>1. Owner(p, r, k + 1) = Shift(N, r, k + 2)
        BY <2>1, <3>3, Owners
      <4>2. packet[1] = RowsOf(N, Shift(N, r, k + 2))
        BY <2>5, <2>6, <3>3 DEF Carries
      <4> QED
        BY <2>1, <2>7, <3>3, <4>1, <4>2
    <3>4. CASE p = "backward" /\ ~(k < N - 1)
      <4>1. k = N - 1 /\ 0 < k /\ k + 1 = N
        BY <2>1, <3>4
      <4>2. Len(packet) = 1 /\ packet[Len(packet)] = Tensor(Shift(N, q, k), Arc(N, q, k))
        BY <2>5, <3>4, <4>1 DEF Carries
      <4>3. Shift(N, q, k) = r
        <5>1. Shift(N, r, N) = r
          BY <2>1, Shifts
        <5> QED
          BY <2>6, <4>1, <5>1
      <4> QED
        BY <2>7, <3>4, <4>1, <4>2, <4>3
    <3> QED
      BY <2>1, <3>1, <3>2, <3>3, <3>4 DEF PassNames
  <2> QED
    BY <2>4, <2>8 DEF p, k, packet
<1> QED
  BY <1>1, InvHolds, PTL

\* For every ring size, an iteration that ends with a pass home leaves every rank its own
\* sum, with the contribution of every rank counted once.
THEOREM SumsComeHome ==
  ASSUME \A p \in Iterations : p[Len(p)] \in {"backward", "reduce"}
  PROVE  Spec => []OwnersHoldFullSum
<1>1. Inv => OwnersHoldFullSum
  <2> SUFFICES ASSUME Inv, NEW r \in Ranks, At(r) = "done"
               PROVE  Result(r) = Tensor(r, Everyone)
    BY DEF OwnersHoldFullSum
  <2>1. /\ N \in RingSizes /\ passes \in Iterations /\ pass[r] = Len(passes) + 1
        /\ Len(passes) \in Nat
    BY PassTypes, Inside DEF Inv
  <2>2. After(N, mem[r], passes[Len(passes)], r)
    <3>1. pass[r] > Len(passes)
      BY <2>1
    <3> QED
      BY <3>1 DEF Inv, BufferInv
  <2>3. passes[Len(passes)] \in {"backward", "reduce"}
    BY <2>1
  <2>4. Everyone = Arc(N, r, N)
    BY <2>1, Sums
  <2>5. CASE passes[Len(passes)] = "backward"
    BY <2>2, <2>4, <2>5 DEF After, Result
  <2>6. CASE passes[Len(passes)] = "reduce"
    BY <2>2, <2>4, <2>6 DEF After, Result
  <2> QED
    BY <2>3, <2>5, <2>6
<1> QED
  BY <1>1, InvHolds, PTL
=============================================================================
