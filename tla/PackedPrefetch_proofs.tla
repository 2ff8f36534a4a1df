------------------------ MODULE PackedPrefetch_proofs ------------------------
(***************************************************************************)
(* Theorems about PackedPrefetch when every batch is used before the next  *)
(* one is fetched (Accum = 1), for every stream, batch, number of replicas *)
(* and of launches, with a consumer that synchronises or one that does not. *)
(***************************************************************************)
EXTENDS PackedPrefetch, TLAPS

-----------------------------------------------------------------------------
(* Queues.                                                                 *)

\* What is queued, and the head of it.
LEMMA QueueDomain ==
  ASSUME NEW S, NEW q \in Seq(S)
  PROVE  /\ Len(q) \in Nat /\ DOMAIN q = 1 .. Len(q)
         /\ \A i \in DOMAIN q : q[i] \in S
         /\ q # <<>> => 1 \in DOMAIN q /\ Head(q) = q[1]
  OBVIOUS

\* What remains when the operation at the head has run.
LEMMA QueueTail ==
  ASSUME NEW S, NEW q \in Seq(S), q # <<>>
  PROVE  /\ Tail(q) \in Seq(S) /\ DOMAIN Tail(q) = 1 .. Len(q) - 1
         /\ \A i \in DOMAIN Tail(q) : i + 1 \in DOMAIN q /\ Tail(q)[i] = q[i + 1]
  OBVIOUS

\* What is enqueued goes behind the rest.
LEMMA QueueAppend ==
  ASSUME NEW S, NEW q \in Seq(S), NEW e \in S
  PROVE  /\ Append(q, e) \in Seq(S) /\ Len(Append(q, e)) = Len(q) + 1
         /\ DOMAIN Append(q, e) = DOMAIN q \union {Len(q) + 1}
         /\ \A i \in DOMAIN q : Append(q, e)[i] = q[i]
         /\ Append(q, e)[Len(q) + 1] = e
  OBVIOUS

\* Two at once, one after the other.
LEMMA QueueAppendTwo ==
  ASSUME NEW S, NEW q \in Seq(S), NEW d \in S, NEW e \in S
  PROVE  q \o <<d, e>> = Append(Append(q, d), e)
  OBVIOUS

-----------------------------------------------------------------------------
(* Positions modulo the length of the stream.                              *)

\* A number is its quotient and its remainder.
LEMMA Division ==
  ASSUME NEW x \in Int, NEW S \in Nat \ {0}
  PROVE  x = S * (x \div S) + (x % S) /\ x % S \in 0 .. S - 1 /\ x \div S \in Int
<1>1. x \div S \in Int
  OBVIOUS
<1>2. x % S \in 0 .. S - 1
  OBVIOUS
<1>3. x = S * (x \div S) + (x % S)
  OBVIOUS
<1> QED
  BY <1>1, <1>2, <1>3

\* The only multiple of S between -S and S is zero.
LEMMA NoMultipleBetween ==
  ASSUME NEW S \in Nat \ {0}, NEW k \in Int, S * k < S, -S < S * k
  PROVE  k = 0
<1>1. ASSUME k >= 1 PROVE FALSE
  <2>1. S * k >= S * 1
    BY <1>1
  <2> QED
    BY <2>1
<1>2. ASSUME k <= -1 PROVE FALSE
  <2>1. S * k <= S * (-1)
    BY <1>2
  <2> QED
    BY <2>1
<1> QED
  BY <1>1, <1>2

\* Only one number below S is left over.
LEMMA RemainderUnique ==
  ASSUME NEW S \in Nat \ {0}, NEW q \in Int, NEW r \in 0 .. S - 1
  PROVE  (S * q + r) % S = r
<1> DEFINE x == S * q + r
           d == x \div S
           m == x % S
<1>1. x \in Int /\ x = S * q + r
  OBVIOUS
<1>2. x = S * d + m /\ m \in 0 .. S - 1 /\ d \in Int
  BY <1>1, Division
<1> HIDE DEF x, d, m
<1>3. S * (d - q) = r - m
  BY <1>1, <1>2
<1>4. d - q = 0
  BY <1>2, <1>3, NoMultipleBetween
<1>5. m = r
  BY <1>2, <1>3, <1>4
<1> QED
  BY <1>5 DEF m, x

\* Going round the dataset changes nothing.
LEMMA RoundAndRound ==
  ASSUME NEW S \in Nat \ {0}, NEW q \in Int, NEW x \in Int
  PROVE  (x + S * q) % S = x % S
<1> DEFINE d == x \div S
           m == x % S
<1>1. x = S * d + m /\ m \in 0 .. S - 1 /\ d \in Int
  BY Division
<1> HIDE DEF d, m
<1>2. x + S * q = S * (d + q) + m
  BY <1>1
<1>3. (S * (d + q) + m) % S = m
  BY <1>1, RemainderUnique
<1> QED
  BY <1>2, <1>3 DEF m

\* A position may be reduced before it is scaled and moved.
LEMMA ReduceFirst ==
  ASSUME NEW S \in Nat \ {0}, NEW x \in Int, NEW f \in Int, NEW y \in Int
  PROVE  ((x % S) * f + y) % S = (x * f + y) % S
<1> DEFINE d == x \div S
           m == x % S
<1>1. x = S * d + m /\ m \in Int /\ d \in Int
  BY Division
<1> HIDE DEF d, m
<1>2. x * f + y = (m * f + y) + S * (d * f)
  <2>1. x * f = (S * d + m) * f
    BY <1>1
  <2>2. (S * d + m) * f = S * (d * f) + m * f
    BY <1>1
  <2>3. S * (d * f) \in Int /\ m * f \in Int
    BY <1>1
  <2> QED
    BY <2>1, <2>2, <2>3
<1>3. d * f \in Int /\ m * f + y \in Int
  BY <1>1
<1>4. ((m * f + y) + S * (d * f)) % S = (m * f + y) % S
  BY <1>3, RoundAndRound
<1> QED
  BY <1>2, <1>4 DEF m

\* The position after batch k, read off the position of batch k.
LEMMA NextPosition ==
  ASSUME NEW S \in Nat \ {0}, NEW k \in Nat, NEW b \in Nat
  PROVE  (((k * b) % S) + b) % S = ((k + 1) * b) % S
<1> DEFINE x == k * b
           d == x \div S
           m == x % S
<1>1. (k + 1) * b = x + b /\ x \in Int
  OBVIOUS
<1>2. x = S * d + m /\ m \in Int /\ d \in Int
  BY <1>1, Division
<1> HIDE DEF x, d, m
<1> DEFINE y == m + b
<1>3. x + b = y + S * d /\ y \in Int /\ b \in Int
  BY <1>2
<1> HIDE DEF y
<1>4. (y + S * d) % S = y % S
  BY <1>2, <1>3, RoundAndRound
<1>5. y % S = ((k + 1) * b) % S
  BY <1>1, <1>3, <1>4
<1> QED
  BY <1>5 DEF m, x, y

-----------------------------------------------------------------------------
(* The invariant.                                                          *)

Rows == [0 .. Needed - 1 -> Positions]

BatchOf(s, k) ==
  [i \in 0 .. s.needed - 1 |-> ((k * s.replicas + s.replica) * s.needed + i) % s.length]

TransferOps ==
  [kind : {"copy"}, of : Slots, n : {0}]
    \union [kind : {"record"}, of : {Ready(s) : s \in Slots}, n : {0}]
    \union [kind : {"wait"}, of : {Consumed(s) : s \in Slots}, n : Nat]

ComputeOps ==
  [kind : {"read"}, of : Slots, n : Nat]
    \union [kind : {"record"}, of : {Consumed(s) : s \in Slots}, n : {0}]
    \union [kind : {"wait"}, of : {Ready(s) : s \in Slots}, n : Nat]

Types ==
  /\ setup \in Setups
  /\ consumed \in Nat /\ saved.consumed \in Nat
  /\ nextSlot \in Slots /\ returned \in Slots \union {None}
  /\ primed \in BOOLEAN /\ slotInit \in [Slots -> BOOLEAN]
  /\ host \in [Slots -> Rows] /\ device \in [Slots -> Rows]
  /\ recorded \in [Events -> Nat] /\ reached \in [Events -> Nat]
  /\ transfer \in Seq(TransferOps) /\ compute \in Seq(ComputeOps)
  /\ pc \in {"fetch", "launch", "use", "stepEnd", "done"}

PositionInv ==
  /\ cursor = (consumed * Needed) % StreamLength
  /\ saved.cursor = (saved.consumed * Needed) % StreamLength

\* The host: which batch is in which pinned buffer, and which view is held when.
HostInv ==
  /\ pc \in {"fetch", "stepEnd", "done"} => views = <<>>
  /\ pc = "launch" => primed /\ views = <<[slot |-> nextSlot, batch |-> consumed]>>
  /\ pc = "use" => views = <<[slot |-> 1 - nextSlot, batch |-> consumed - 1]>>
  /\ pc \in {"use", "stepEnd"} => returned # None
  /\ returned # None => /\ primed /\ returned = 1 - nextSlot /\ consumed >= 1
                        /\ slotInit[returned] /\ host[returned] = BatchOf(setup, consumed - 1)
  /\ primed => slotInit[nextSlot] /\ host[nextSlot] = BatchOf(setup, consumed)
  /\ returned = None => ~slotInit[1 - nextSlot]
  /\ ~primed => \A s \in Slots : ~slotInit[s]

\* The m-th operation of the queue is of this kind on this slot or event.
At(queue, m, kind, of) ==
  m \in DOMAIN queue /\ queue[m].kind = kind /\ queue[m].of = of

\* A copy to the slot is enqueued.
Pending(copies, s) == \E t \in DOMAIN copies : At(copies, t, "copy", s)

\* A copy to the slot still waits for the kernels before a record of Consumed(s).
Held(copies, executed, s) ==
  \E t \in DOMAIN copies : /\ At(copies, t, "wait", Consumed(s))
                           /\ copies[t].n > executed[Consumed(s)]

\* Whatever is the m-th operation on the compute stream comes after the copy.
After(copies, uses, issued, s, m) ==
  Pending(copies, s) =>
    \E j \in DOMAIN uses : /\ At(uses, j, "wait", Ready(s))
                           /\ j < m /\ uses[j].n >= issued[Ready(s)]

\* One copy per slot, behind its wait and before its record.
TransferInv ==
  \A s \in Slots :
    /\ \A t \in DOMAIN transfer :
         /\ At(transfer, t, "copy", s) => At(transfer, t + 1, "record", Ready(s))
         /\ At(transfer, t, "wait", Consumed(s)) => At(transfer, t + 1, "copy", s)
         /\ At(transfer, t, "record", Ready(s)) => reached[Ready(s)] < recorded[Ready(s)]
    /\ \A t, u \in DOMAIN transfer :
         At(transfer, t, "record", Ready(s)) /\ At(transfer, u, "record", Ready(s)) => t = u
    /\ ~slotInit[s] => recorded[Ready(s)] = reached[Ready(s)]
    /\ slotInit[s] /\ ~Pending(transfer, s) => device[s] = host[s]

\* A record of Consumed that is still enqueued holds a copy back, or is the one that
\* the trainer's last call of next_batch enqueued, behind every read of the slot.
ConsumedInv ==
  \A s \in Slots :
    /\ reached[Consumed(s)] <= recorded[Consumed(s)]
    /\ \A m \in DOMAIN compute : At(compute, m, "record", Consumed(s)) =>
         /\ reached[Consumed(s)] < recorded[Consumed(s)]
         /\ \/ Held(transfer, reached, s)
            \/ /\ pc = "launch" /\ s = returned
               /\ \A r \in DOMAIN compute : At(compute, r, "read", s) => r < m
    /\ \A l, m \in DOMAIN compute :
         l < m /\ At(compute, l, "record", Consumed(s)) /\ At(compute, m, "record", Consumed(s)) =>
           /\ reached[Consumed(s)] + 2 <= recorded[Consumed(s)]
           /\ Held(transfer, reached, s) /\ pc = "launch" /\ s = returned
           /\ \A r \in DOMAIN compute : At(compute, r, "read", s) => r < m
           /\ \A k \in DOMAIN compute : At(compute, k, "record", Consumed(s)) => k \in {l, m}
    /\ pc = "launch" /\ s = returned =>
         \A r \in DOMAIN compute : At(compute, r, "read", s) =>
           \E m \in DOMAIN compute : r < m /\ At(compute, m, "record", Consumed(s))

\* A read finds its batch on the host and comes after its copy, or finds it on the
\* device, where the next copy waits for a record behind the read.
ReadInv ==
  \A s \in Slots, m \in DOMAIN compute : At(compute, m, "read", s) =>
    /\ returned # None
    /\ \/ /\ host[s] = BatchOf(setup, compute[m].n)
          /\ After(transfer, compute, recorded, s, m)
       \/ /\ device[s] = BatchOf(setup, compute[m].n)
          /\ Held(transfer, reached, s)
          /\ \A l \in DOMAIN compute : At(compute, l, "record", Consumed(s)) => m < l

\* The view the trainer holds comes after its copy, too.
ViewInv ==
  /\ pc = "launch" => After(transfer, compute, recorded, nextSlot, Len(compute) + 1)
  /\ pc = "use" => After(transfer, compute, recorded, 1 - nextSlot, Len(compute) + 1)

StreamInv == TransferInv /\ ConsumedInv /\ ReadInv /\ ViewInv

-----------------------------------------------------------------------------
(* The slices of the stream.                                               *)

LEMMA SetupType ==
  ASSUME setup \in Setups
  PROVE  /\ setup.length \in Nat \ {0} /\ setup.needed \in Nat \ {0}
         /\ setup.replicas \in Nat \ {0} /\ setup.replica \in Nat
         /\ setup.stepSync \in BOOLEAN
  BY SetupAssumption

\* Copied up to the end of the stream and then round it, a slice is the batch.
LEMMA SliceIsBatch ==
  ASSUME setup \in Setups, NEW k \in Nat
  PROVE  Slice((k * Needed) % StreamLength) = BatchOf(setup, k) /\ BatchOf(setup, k) \in Rows
<1> DEFINE L == setup.length  N == setup.needed  R == setup.replicas  r == setup.replica
           at == (k * N) % L
           offset == (at * R + r * N) % L
           first == IF N < L - offset THEN N ELSE L - offset
           start == (k * R + r) * N
           d == start \div L
<1>1. L \in Nat \ {0} /\ N \in Nat \ {0} /\ R \in Nat \ {0} /\ r \in Nat
  BY SetupType
<1>2. /\ Slice((k * Needed) % StreamLength)
           = [i \in 0 .. N - 1 |-> IF i < first THEN offset + i ELSE (i - first) % L]
      /\ BatchOf(setup, k) = [i \in 0 .. N - 1 |-> (start + i) % L]
      /\ Rows = [0 .. N - 1 -> 0 .. L - 1]
  BY DEF Slice, Needed, StreamLength, BatchOf, Rows, Positions
<1> HIDE DEF L, N, R, r
<1>3. /\ k * N \in Int /\ r * N \in Int /\ start \in Int
      /\ (k * N) * R + r * N = start
  BY <1>1
<1>4. offset = start % L
  <2> DEFINE x == k * N  y == r * N
  <2>1. x \in Int /\ y \in Int /\ R \in Int /\ x * R + y = start
    BY <1>1, <1>3
  <2>2. offset = ((x % L) * R + y) % L
    OBVIOUS
  <2> HIDE DEF x, y, offset, start
  <2>3. ((x % L) * R + y) % L = (x * R + y) % L
    BY <1>1, <2>1, ReduceFirst
  <2> QED
    BY <2>1, <2>2, <2>3
<1>5. first = IF N < L - offset THEN N ELSE L - offset
  OBVIOUS
<1> HIDE DEF at, first, start
<1>6. d \in Int /\ start = L * d + offset /\ offset \in 0 .. L - 1
  BY <1>1, <1>3, <1>4, Division
<1> HIDE DEF offset, d
<1>7. ASSUME NEW i \in 0 .. N - 1
      PROVE  /\ (start + i) % L = IF i < first THEN offset + i ELSE (i - first) % L
             /\ (start + i) % L \in 0 .. L - 1
  <2>1. CASE i < first
    <3>1. offset + i \in 0 .. L - 1
      BY <1>1, <1>5, <1>6, <2>1
    <3>2. start + i = L * d + (offset + i)
      <4> DEFINE p == L * d
      <4>1. p \in Int
        BY <1>1, <1>6
      <4>2. start = p + offset
        BY <1>6
      <4> HIDE DEF p
      <4>3. start + i = p + (offset + i)
        BY <1>6, <4>1, <4>2
      <4> QED
        BY <4>3 DEF p
    <3>3. (L * d + (offset + i)) % L = offset + i
      BY <1>1, <1>6, <3>1, RemainderUnique
    <3> QED
      BY <2>1, <3>1, <3>2, <3>3
  <2>2. CASE ~(i < first)
    <3>1. first = L - offset /\ i - first \in Int
      BY <1>1, <1>5, <1>6, <2>2
    <3>2. start + i = (i - first) + L * (d + 1)
      <4>1. L * (d + 1) = L * d + L
        BY <1>1, <1>6
      <4> DEFINE p == L * d
      <4>2. p \in Int
        BY <1>1, <1>6
      <4>3. start = p + offset /\ L * (d + 1) = p + L
        BY <1>6, <4>1
      <4> DEFINE w == L * (d + 1)
      <4> HIDE DEF p
      <4>4. w = p + L
        BY <4>3
      <4> HIDE DEF w
      <4>5. start + i = (i - first) + w
        BY <1>1, <1>6, <3>1, <4>2, <4>3, <4>4
      <4> QED
        BY <4>5 DEF w
    <3>3. ((i - first) + L * (d + 1)) % L = (i - first) % L
      <4>1. d + 1 \in Int
        BY <1>6
      <4> QED
        BY <1>1, <3>1, <4>1, RoundAndRound
    <3>4. (i - first) % L \in 0 .. L - 1
      BY <1>1, <3>1
    <3> QED
      BY <2>2, <3>2, <3>3, <3>4
  <2> QED
    BY <2>1, <2>2
<1>8. [i \in 0 .. N - 1 |-> IF i < first THEN offset + i ELSE (i - first) % L]
        = [i \in 0 .. N - 1 |-> (start + i) % L]
  BY <1>7, Zenon
<1>9. [i \in 0 .. N - 1 |-> (start + i) % L] \in [0 .. N - 1 -> 0 .. L - 1]
  BY <1>7, Zenon
<1> QED
  BY <1>2, <1>8, <1>9, Zenon

-----------------------------------------------------------------------------
(* Positions in the queues and names of the events.                        *)

LEMMA AtAppend ==
  ASSUME NEW S, NEW q \in Seq(S), NEW e \in S
  PROVE  /\ Append(q, e) \in Seq(S)
         /\ Len(Append(q, e)) = Len(q) + 1 /\ Len(q) \in Nat /\ DOMAIN q = 1 .. Len(q)
         /\ DOMAIN Append(q, e) = DOMAIN q \union {Len(q) + 1}
         /\ \A t \in DOMAIN q : Append(q, e)[t] = q[t] /\ t \in Nat /\ t < Len(q) + 1
         /\ Append(q, e)[Len(q) + 1] = e
         /\ \A t, kind, of : At(Append(q, e), t, kind, of) <=>
              \/ At(q, t, kind, of)
              \/ t = Len(q) + 1 /\ e.kind = kind /\ e.of = of
<1>1. /\ Append(q, e) \in Seq(S)
      /\ Len(Append(q, e)) = Len(q) + 1 /\ Len(q) \in Nat /\ DOMAIN q = 1 .. Len(q)
      /\ DOMAIN Append(q, e) = DOMAIN q \union {Len(q) + 1}
      /\ \A t \in DOMAIN q : Append(q, e)[t] = q[t]
      /\ Append(q, e)[Len(q) + 1] = e
  BY QueueAppend, QueueDomain
<1>2. \A t \in DOMAIN q : t \in Nat /\ t < Len(q) + 1
  BY <1>1
<1> QED
  BY <1>1, <1>2 DEF At

LEMMA AtTail ==
  ASSUME NEW S, NEW q \in Seq(S), q # <<>>
  PROVE  /\ Tail(q) \in Seq(S) /\ Len(Tail(q)) = Len(q) - 1 /\ Len(q) \in Nat \ {0}
         /\ Head(q) = q[1] /\ 1 \in DOMAIN q /\ Head(q) \in S /\ DOMAIN q = 1 .. Len(q)
         /\ \A t \in DOMAIN Tail(q) : /\ t \in Nat /\ t >= 1 /\ t + 1 \in DOMAIN q
                                      /\ Tail(q)[t] = q[t + 1]
         /\ \A t \in DOMAIN q : t # 1 => t - 1 \in DOMAIN Tail(q) /\ (t - 1) + 1 = t
         /\ \A t \in DOMAIN Tail(q) : \A kind, of : At(Tail(q), t, kind, of) <=> At(q, t + 1, kind, of)
<1>1. /\ Tail(q) \in Seq(S) /\ Len(Tail(q)) = Len(q) - 1 /\ Len(q) \in Nat \ {0}
      /\ Head(q) = q[1] /\ 1 \in DOMAIN q /\ Head(q) \in S /\ DOMAIN q = 1 .. Len(q)
      /\ DOMAIN Tail(q) = 1 .. Len(q) - 1
  BY QueueDomain, QueueTail
<1>2. \A t \in DOMAIN Tail(q) : t \in Nat /\ t >= 1 /\ t + 1 \in DOMAIN q /\ Tail(q)[t] = q[t + 1]
  BY <1>1, QueueTail
<1>3. \A t \in DOMAIN q : t # 1 => t - 1 \in DOMAIN Tail(q) /\ (t - 1) + 1 = t
  BY <1>1
<1> QED
  BY <1>1, <1>2, <1>3 DEF At

LEMMA EventNames ==
  /\ \A s \in Slots : Ready(s) \in Events /\ Consumed(s) \in Events
  /\ \A s, u \in Slots : /\ Ready(s) # Consumed(u)
                         /\ Ready(s) = Ready(u) => s = u
                         /\ Consumed(s) = Consumed(u) => s = u
  /\ Slots \subseteq Nat /\ None \notin Slots
  /\ \A s \in Slots : 1 - s \in Slots /\ 1 - s # s /\ \A u \in Slots : u = s \/ u = 1 - s
  BY DEF Ready, Consumed, Events, Slots, None

LEMMA SetupStays ==
  ASSUME Types, [Next]_vars
  PROVE  /\ setup' = setup /\ setup \in Setups
         /\ Needed' = Needed /\ StreamLength' = StreamLength /\ Rows' = Rows
         /\ StreamLength \in Nat \ {0} /\ Needed \in Nat \ {0}
<1>1. setup' = setup
  BY DEF Next, Host, TransferStream, ComputeStream, Prime, HandOut, Launch, Use, EndStep, Save,
         Copy, TransferEvent, ReadBatch, ComputeEvent, Restart, Finished, vars
<1>2. setup \in Setups /\ setup.length \in Nat \ {0} /\ setup.needed \in Nat \ {0}
  BY SetupType DEF Types
<1> QED
  BY <1>1, <1>2 DEF Needed, StreamLength, Rows, Positions

LEMMA PositionStep == Types /\ PositionInv /\ [Next]_vars => PositionInv'
<1> SUFFICES ASSUME Types, PositionInv, [Next]_vars PROVE PositionInv'
  OBVIOUS
<1> USE DEF runtime, buffers, events, streams, disk
<1>0. /\ Needed' = Needed /\ StreamLength' = StreamLength
      /\ StreamLength \in Nat \ {0} /\ Needed \in Nat \ {0}
      /\ consumed \in Nat /\ saved.consumed \in Nat
  BY SetupStays DEF Types
<1>1. CASE \/ Prime \/ HandOut \/ Use \/ EndStep \/ TransferStream \/ ComputeStream \/ Finished
           \/ UNCHANGED vars
  <2>1. UNCHANGED <<cursor, consumed, saved>>
    BY <1>1 DEF Prime, HandOut, Use, EndStep, TransferStream, ComputeStream, Copy, TransferEvent,
                ReadBatch, ComputeEvent, Finished, vars
  <2> QED
    BY <1>0, <2>1 DEF PositionInv
<1>2. CASE Launch
  <2>1. cursor' = (cursor + Needed) % StreamLength /\ consumed' = consumed + 1 /\ saved' = saved
    BY <1>2 DEF Launch, Advance
  <2>2. (((consumed * Needed) % StreamLength) + Needed) % StreamLength
          = ((consumed + 1) * Needed) % StreamLength
    BY <1>0, NextPosition
  <2> QED
    BY <1>0, <2>1, <2>2 DEF PositionInv
<1>3. CASE Save
  <2>1. saved' = [cursor |-> cursor, consumed |-> consumed] /\ UNCHANGED <<cursor, consumed>>
    BY <1>3 DEF Save
  <2> QED
    BY <1>0, <2>1 DEF PositionInv
<1>4. CASE Restart
  <2>1. cursor' = saved.cursor % StreamLength /\ consumed' = saved.consumed /\ saved' = saved
    BY <1>4 DEF Restart
  <2>2. saved.consumed * Needed \in Int
    BY <1>0
  <2>3. \A x \in Int : (x % StreamLength) % StreamLength = x % StreamLength
    BY <1>0
  <2> QED
    BY <1>0, <2>1, <2>2, <2>3 DEF PositionInv
<1> QED
  BY <1>1, <1>2, <1>3, <1>4 DEF Next, Host

-----------------------------------------------------------------------------
(* What the host enqueues.                                                 *)

LEMMA QueueAppendOne ==
  ASSUME NEW S, NEW q \in Seq(S), NEW e \in S
  PROVE  q \o <<e>> = Append(q, e) /\ q \o <<>> = q
  OBVIOUS

LEMMA OpTypes ==
  ASSUME Types
  PROVE  /\ \A s \in Slots : /\ Op("copy", s) \in TransferOps
                             /\ Op("record", Ready(s)) \in TransferOps
                             /\ WaitFor(Consumed(s)) \in TransferOps
                             /\ Op("record", Consumed(s)) \in ComputeOps
                             /\ WaitFor(Ready(s)) \in ComputeOps
         /\ \A s \in Slots, k \in Nat : Read([slot |-> s, batch |-> k]) \in ComputeOps
<1>1. \A s \in Slots : recorded[Ready(s)] \in Nat /\ recorded[Consumed(s)] \in Nat
  BY EventNames DEF Types
<1> QED
  BY <1>1 DEF Op, WaitFor, Read, TransferOps, ComputeOps

LEMMA PrimeQueue ==
  ASSUME Types, Prime
  PROVE  transfer' = Append(Append(transfer, Op("copy", nextSlot)), Op("record", Ready(nextSlot)))
<1>1. /\ transfer \in Seq(TransferOps) /\ nextSlot \in Slots
      /\ transfer' = transfer \o <<Op("copy", nextSlot), Op("record", Ready(nextSlot))>>
  BY DEF Types, Prime
<1> QED
  BY <1>1, OpTypes, QueueAppendTwo

LEMMA LaunchQueue ==
  ASSUME Types, Launch
  PROVE  LET slot == 1 - nextSlot
             behind == IF returned = None THEN transfer
                       ELSE Append(transfer, WaitFor(Consumed(returned)))
         IN transfer' = Append(Append(behind, Op("copy", slot)), Op("record", Ready(slot)))
<1> DEFINE slot == 1 - nextSlot
           behind == IF returned = None THEN transfer
                     ELSE Append(transfer, WaitFor(Consumed(returned)))
           wait == IF returned = None THEN <<>> ELSE <<WaitFor(Consumed(returned))>>
<1>1. /\ transfer \in Seq(TransferOps) /\ nextSlot \in Slots /\ slot \in Slots
      /\ returned \in Slots \/ returned = None
  BY EventNames DEF Types
<1>2. transfer' = transfer \o wait \o <<Op("copy", slot), Op("record", Ready(slot))>>
  BY DEF Launch
<1>3. transfer \o wait = behind /\ behind \in Seq(TransferOps)
  <2>1. CASE returned = None
    BY <1>1, <2>1, OpTypes, QueueAppendOne
  <2>2. CASE returned # None
    <3>1. WaitFor(Consumed(returned)) \in TransferOps
      BY <1>1, <2>2, OpTypes
    <3>2. transfer \o <<WaitFor(Consumed(returned))>> = Append(transfer, WaitFor(Consumed(returned)))
      BY <1>1, <3>1, QueueAppendOne
    <3>3. Append(transfer, WaitFor(Consumed(returned))) \in Seq(TransferOps)
      BY <1>1, <3>1, QueueAppend
    <3> QED
      BY <2>2, <3>2, <3>3
  <2> QED
    BY <2>1, <2>2
<1>4. Op("copy", slot) \in TransferOps /\ Op("record", Ready(slot)) \in TransferOps
  BY <1>1, OpTypes
<1> HIDE DEF behind, wait, slot
<1>5. transfer' = Append(Append(behind, Op("copy", slot)), Op("record", Ready(slot)))
  BY <1>2, <1>3, <1>4, QueueAppendTwo
<1> QED
  BY <1>5 DEF behind, slot

LEMMA HandOutQueue ==
  ASSUME Types, HandOut
  PROVE  compute' = Append(IF returned = None THEN compute
                           ELSE Append(compute, Op("record", Consumed(returned))),
                           WaitFor(Ready(nextSlot)))
<1> DEFINE marked == IF returned = None THEN compute
                     ELSE Append(compute, Op("record", Consumed(returned)))
           mark == IF returned = None THEN <<>> ELSE <<Op("record", Consumed(returned))>>
<1>1. /\ compute \in Seq(ComputeOps) /\ nextSlot \in Slots
      /\ returned \in Slots \/ returned = None
  BY DEF Types
<1>2. compute' = compute \o mark \o <<WaitFor(Ready(nextSlot))>>
  BY DEF HandOut
<1>3. compute \o mark = marked /\ marked \in Seq(ComputeOps)
  <2>1. CASE returned = None
    BY <1>1, <2>1, OpTypes, QueueAppendOne
  <2>2. CASE returned # None
    <3>1. Op("record", Consumed(returned)) \in ComputeOps
      BY <1>1, <2>2, OpTypes
    <3>2. compute \o <<Op("record", Consumed(returned))>> = Append(compute, Op("record", Consumed(returned)))
      BY <1>1, <3>1, QueueAppendOne
    <3>3. Append(compute, Op("record", Consumed(returned))) \in Seq(ComputeOps)
      BY <1>1, <3>1, QueueAppend
    <3> QED
      BY <2>2, <3>2, <3>3
  <2> QED
    BY <2>1, <2>2
<1>4. WaitFor(Ready(nextSlot)) \in ComputeOps
  BY <1>1, OpTypes
<1> HIDE DEF marked, mark
<1>5. compute' = Append(marked, WaitFor(Ready(nextSlot)))
  BY <1>2, <1>3, <1>4, QueueAppendOne
<1> QED
  BY <1>5 DEF marked

LEMMA UseQueue ==
  ASSUME Types, HostInv, Use
  PROVE  LET read == [kind |-> "read", of |-> returned, n |-> consumed - 1]
         IN /\ compute' = Append(compute, read) /\ read \in ComputeOps
            /\ returned = 1 - nextSlot /\ returned # None /\ returned \in Slots
            /\ host[returned] = BatchOf(setup, consumed - 1)
            /\ views' = <<>> /\ pc' = "stepEnd"
            /\ UNCHANGED <<setup, runtime, buffers, events, transfer, disk>>
<1>1. /\ returned = 1 - nextSlot /\ returned # None /\ consumed - 1 \in Nat
      /\ views = <<[slot |-> returned, batch |-> consumed - 1]>>
      /\ host[returned] = BatchOf(setup, consumed - 1)
      /\ returned \in Slots
  BY DEF Use, HostInv, Types
<1>2. Head(views) = [slot |-> returned, batch |-> consumed - 1] /\ Tail(views) = <<>> /\ Len(views) = 1
  BY <1>1
<1>3. Read(Head(views)) = [kind |-> "read", of |-> returned, n |-> consumed - 1]
  BY <1>2 DEF Read
<1> QED
  BY <1>1, <1>2, <1>3 DEF Use, ComputeOps

-----------------------------------------------------------------------------
(* Types and the host.                                                     *)

LEMMA FreshBuffers ==
  ASSUME setup \in Setups
  PROVE  [s \in Slots |-> Fresh] \in [Slots -> Rows]
<1>1. 0 \in Positions
  BY SetupType DEF Positions, StreamLength
<1>2. Fresh \in Rows
  BY <1>1 DEF Fresh, Rows
<1> QED
  BY <1>2

LEMMA InitInv == Init => Types /\ PositionInv /\ HostInv /\ StreamInv
<1> SUFFICES ASSUME Init PROVE Types /\ PositionInv /\ HostInv /\ StreamInv
  OBVIOUS
<1>1. /\ setup \in Setups /\ consumed = 0 /\ saved.consumed = 0 /\ cursor = 0 /\ saved.cursor = 0
      /\ nextSlot = 0 /\ returned = None /\ primed = FALSE /\ slotInit = [s \in Slots |-> FALSE]
      /\ host = [s \in Slots |-> Fresh] /\ device = [s \in Slots |-> Fresh]
      /\ recorded = [e \in Events |-> 0] /\ reached = [e \in Events |-> 0]
      /\ transfer = <<>> /\ compute = <<>> /\ pc = "fetch" /\ views = <<>>
  BY DEF Init
<1>2. Types
  <2>1. host \in [Slots -> Rows] /\ device \in [Slots -> Rows]
    BY <1>1, FreshBuffers
  <2>2. transfer \in Seq(TransferOps) /\ compute \in Seq(ComputeOps)
    BY <1>1
  <2>3. recorded \in [Events -> Nat] /\ reached \in [Events -> Nat] /\ slotInit \in [Slots -> BOOLEAN]
    BY <1>1
  <2>4. nextSlot \in Slots
    BY <1>1 DEF Slots
  <2> QED
    BY <1>1, <2>1, <2>2, <2>3, <2>4 DEF Types
<1>3. PositionInv
  <2>1. StreamLength \in Nat \ {0} /\ Needed \in Nat \ {0}
    BY <1>1, SetupType DEF StreamLength, Needed
  <2>2. 0 * Needed = 0 /\ 0 % StreamLength = 0
    BY <2>1
  <2> QED
    BY <1>1, <2>2 DEF PositionInv
<1>4. HostInv
  BY <1>1 DEF HostInv, Slots
<1>5. StreamInv
  <2>1. DOMAIN transfer = {} /\ DOMAIN compute = {}
    BY <1>1
  <2>2. \A s \in Slots : /\ recorded[Ready(s)] = reached[Ready(s)] /\ ~slotInit[s]
                         /\ reached[Consumed(s)] <= recorded[Consumed(s)]
    BY <1>1, EventNames
  <2> QED
    BY <1>1, <2>1, <2>2 DEF StreamInv, TransferInv, ConsumedInv, ReadInv, ViewInv
<1> QED
  BY <1>2, <1>3, <1>4, <1>5

LEMMA TypesStep == Types /\ PositionInv /\ HostInv /\ [Next]_vars => Types'
<1> SUFFICES ASSUME Types, PositionInv, HostInv, [Next]_vars PROVE Types'
  OBVIOUS
<1> USE DEF runtime, buffers, events, streams, disk
<1>0. /\ setup' = setup /\ setup \in Setups /\ Rows' = Rows /\ StreamLength \in Nat \ {0}
      /\ nextSlot \in Slots /\ consumed \in Nat
      /\ TransferOps' = TransferOps /\ ComputeOps' = ComputeOps
  BY SetupStays DEF Types, TransferOps, ComputeOps
<1>00. Slice(cursor) \in Rows
  BY <1>0, SliceIsBatch DEF PositionInv
<1>1. CASE Prime
  <2>1. host' = [host EXCEPT ![nextSlot] = Slice(cursor)]
        /\ recorded' = [recorded EXCEPT ![Ready(nextSlot)] = @ + 1]
        /\ slotInit' = [slotInit EXCEPT ![nextSlot] = TRUE] /\ primed' = TRUE
        /\ UNCHANGED <<setup, consumed, nextSlot, returned, device, reached, compute, pc, saved>>
    BY <1>1 DEF Prime
  <2>2. host' \in [Slots -> Rows] /\ slotInit' \in [Slots -> BOOLEAN]
    BY <1>0, <1>00, <2>1 DEF Types
  <2>3. recorded' \in [Events -> Nat]
    BY <1>0, <2>1, EventNames DEF Types
  <2>4. transfer' \in Seq(TransferOps)
    <3>1. Op("copy", nextSlot) \in TransferOps /\ Op("record", Ready(nextSlot)) \in TransferOps
          /\ transfer \in Seq(TransferOps)
      BY <1>0, OpTypes DEF Types
    <3>2. transfer' = Append(Append(transfer, Op("copy", nextSlot)), Op("record", Ready(nextSlot)))
      BY <1>1, PrimeQueue
    <3> QED
      BY <3>1, <3>2, QueueAppend
  <2> QED
    BY <1>0, <2>1, <2>2, <2>3, <2>4 DEF Types
<1>2. CASE HandOut
  <2>1. recorded' = [e \in Events |->
                       recorded[e] + (IF e[1] = "consumed" /\ e[2] = returned THEN 1 ELSE 0)]
        /\ pc' = "launch"
        /\ UNCHANGED <<setup, consumed, nextSlot, returned, primed, slotInit, host, device, reached,
                       transfer, saved>>
    BY <1>2 DEF HandOut
  <2>2. recorded' \in [Events -> Nat]
    BY <2>1 DEF Types
  <2>3. compute' \in Seq(ComputeOps)
    <3>1. /\ WaitFor(Ready(nextSlot)) \in ComputeOps /\ compute \in Seq(ComputeOps)
          /\ returned # None => Op("record", Consumed(returned)) \in ComputeOps
      BY <1>0, OpTypes DEF Types
    <3>2. CASE returned = None
      <4>1. compute' = Append(compute, WaitFor(Ready(nextSlot)))
        BY <1>2, <3>2, HandOutQueue
      <4> QED
        BY <3>1, <4>1, QueueAppend
    <3>3. CASE returned # None
      <4>1. compute' = Append(Append(compute, Op("record", Consumed(returned))), WaitFor(Ready(nextSlot)))
        BY <1>2, <3>3, HandOutQueue
      <4>2. Append(compute, Op("record", Consumed(returned))) \in Seq(ComputeOps)
        BY <3>1, <3>3, QueueAppend
      <4> QED
        BY <3>1, <4>1, <4>2, QueueAppend
    <3> QED
      BY <3>2, <3>3
  <2> QED
    BY <1>0, <2>1, <2>2, <2>3 DEF Types
<1>3. CASE Launch
  <2> DEFINE slot == 1 - nextSlot
  <2>1. /\ slot \in Slots
        /\ host' = [host EXCEPT ![slot] = Slice(Advance(cursor))]
        /\ recorded' = [recorded EXCEPT ![Ready(slot)] = @ + 1]
        /\ slotInit' = [slotInit EXCEPT ![slot] = TRUE]
        /\ returned' = nextSlot /\ nextSlot' = slot /\ consumed' = consumed + 1
        /\ pc' \in {"fetch", "use"}
        /\ UNCHANGED <<setup, primed, device, reached, compute, saved>>
    BY <1>0, <1>3, EventNames DEF Launch, AfterFetch
  <2>2. Slice(Advance(cursor)) \in Rows
    <3>1. Advance(cursor) = ((consumed + 1) * Needed) % StreamLength
      BY <1>0, SetupStays, NextPosition DEF Advance, PositionInv
    <3>2. consumed + 1 \in Nat
      BY <1>0
    <3> QED
      BY <1>0, <3>1, <3>2, SliceIsBatch
  <2> HIDE DEF slot
  <2>3. host' \in [Slots -> Rows] /\ slotInit' \in [Slots -> BOOLEAN]
    BY <1>0, <2>1, <2>2 DEF Types
  <2>4. recorded' \in [Events -> Nat]
    <3>1. Ready(slot) \in Events
      BY <2>1, EventNames
    <3> QED
      BY <2>1, <3>1 DEF Types
  <2>5. transfer' \in Seq(TransferOps)
    <3> DEFINE behind == IF returned = None THEN transfer
                         ELSE Append(transfer, WaitFor(Consumed(returned)))
               c == Op("copy", slot)
               r == Op("record", Ready(slot))
    <3>1. c \in TransferOps /\ r \in TransferOps
      BY <2>1, OpTypes
    <3>2. behind \in Seq(TransferOps)
      <4>1. transfer \in Seq(TransferOps) /\ (returned = None \/ returned \in Slots)
        BY DEF Types
      <4>2. CASE returned = None
        BY <4>1, <4>2
      <4>3. CASE returned # None
        <5>1. WaitFor(Consumed(returned)) \in TransferOps
          BY <4>1, <4>3, OpTypes
        <5>2. Append(transfer, WaitFor(Consumed(returned))) \in Seq(TransferOps)
          BY <4>1, <5>1, QueueAppend
        <5> QED
          BY <4>3, <5>2
      <4> QED
        BY <4>2, <4>3
    <3>3. transfer' = Append(Append(behind, c), r)
      BY <1>3, LaunchQueue DEF slot
    <3> HIDE DEF behind, c, r
    <3>4. Append(behind, c) \in Seq(TransferOps)
      BY <3>1, <3>2, QueueAppend
    <3> QED
      BY <3>1, <3>3, <3>4, QueueAppend
  <2> QED
    BY <1>0, <2>1, <2>3, <2>4, <2>5 DEF Types
<1>4. CASE Use
  <2>1. /\ compute' = Append(compute, [kind |-> "read", of |-> returned, n |-> consumed - 1])
        /\ [kind |-> "read", of |-> returned, n |-> consumed - 1] \in ComputeOps
        /\ pc' = "stepEnd"
        /\ UNCHANGED <<setup, runtime, buffers, events, transfer, disk>>
    BY <1>4, UseQueue
  <2>2. compute' \in Seq(ComputeOps)
    BY <2>1, QueueAppend DEF Types
  <2> QED
    BY <1>0, <2>1, <2>2 DEF Types
<1>5. CASE Save \/ EndStep \/ Finished \/ UNCHANGED vars
  <2>1. /\ UNCHANGED <<setup, runtime, buffers, events, streams>>
        /\ saved'.consumed \in Nat /\ pc' \in {"fetch", "launch", "use", "stepEnd", "done"}
    BY <1>5 DEF Save, EndStep, Finished, vars, Types
  <2> QED
    BY <1>0, <2>1 DEF Types
<1>6. CASE TransferStream
  <2>1. transfer # <<>> /\ transfer' = Tail(transfer)
        /\ UNCHANGED <<setup, runtime, host, recorded, compute, pc, saved>>
    BY <1>6 DEF TransferStream, Copy, TransferEvent, Runs
  <2>2. transfer' \in Seq(TransferOps) /\ Head(transfer) \in TransferOps
    BY <2>1, QueueTail, QueueDomain DEF Types
  <2>3. device' \in [Slots -> Rows] /\ reached' \in [Events -> Nat]
    <3>1. CASE Copy
      <4>1. Head(transfer).of \in Slots
        BY <2>2, <3>1 DEF Copy, Runs, TransferOps
      <4> QED
        BY <3>1, <4>1 DEF Copy, Types
    <3>2. CASE TransferEvent
      <4>1. Head(transfer).kind # "wait" => Head(transfer).of \in Events
        BY <2>2, <3>2, EventNames DEF TransferEvent, Runs, TransferOps
      <4>2. \/ reached' = reached /\ device' = device
            \/ /\ Head(transfer).kind # "wait" /\ device' = device
               /\ reached' = [reached EXCEPT ![Head(transfer).of] = @ + 1]
        BY <3>2 DEF TransferEvent
      <4> QED
        BY <4>1, <4>2 DEF Types
    <3> QED
      BY <1>6, <3>1, <3>2 DEF TransferStream
  <2> QED
    BY <1>0, <2>1, <2>2, <2>3 DEF Types
<1>7. CASE ComputeStream
  <2>1. compute # <<>> /\ compute' = Tail(compute)
        /\ UNCHANGED <<setup, runtime, host, device, recorded, transfer, pc, saved>>
    BY <1>7 DEF ComputeStream, ReadBatch, ComputeEvent, Runs
  <2>2. compute' \in Seq(ComputeOps) /\ Head(compute) \in ComputeOps
    BY <2>1, QueueTail, QueueDomain DEF Types
  <2>3. reached' \in [Events -> Nat]
    <3>1. CASE ReadBatch
      BY <3>1 DEF ReadBatch, Types
    <3>2. CASE ComputeEvent
      <4>1. Head(compute).kind # "wait" => Head(compute).of \in Events
        BY <2>2, <3>2, EventNames DEF ComputeEvent, Runs, ComputeOps
      <4>2. \/ reached' = reached
            \/ /\ Head(compute).kind # "wait"
               /\ reached' = [reached EXCEPT ![Head(compute).of] = @ + 1]
        BY <3>2 DEF ComputeEvent
      <4> QED
        BY <4>1, <4>2 DEF Types
    <3> QED
      BY <1>7, <3>1, <3>2 DEF ComputeStream
  <2> QED
    BY <1>0, <2>1, <2>2, <2>3 DEF Types
<1>8. CASE Restart
  <2>1. /\ consumed' = saved.consumed /\ saved' = saved /\ nextSlot' = 0 /\ returned' = None
        /\ primed' = FALSE /\ slotInit' = [s \in Slots |-> FALSE]
        /\ host' = [s \in Slots |-> Fresh] /\ device' = [s \in Slots |-> Fresh]
        /\ recorded' = [e \in Events |-> 0] /\ reached' = [e \in Events |-> 0]
        /\ transfer' = <<>> /\ compute' = <<>> /\ pc' \in {"fetch", "done"}
    BY <1>8 DEF Restart
  <2>2. host' \in [Slots -> Rows] /\ device' \in [Slots -> Rows]
    BY <1>0, <2>1, FreshBuffers
  <2>3. transfer' \in Seq(TransferOps) /\ compute' \in Seq(ComputeOps)
    BY <2>1
  <2>4. recorded' \in [Events -> Nat] /\ reached' \in [Events -> Nat] /\ slotInit' \in [Slots -> BOOLEAN]
    BY <2>1
  <2> QED
    BY <1>0, <2>1, <2>2, <2>3, <2>4 DEF Types, Slots
<1> QED
  BY <1>1, <1>2, <1>3, <1>4, <1>5, <1>6, <1>7, <1>8 DEF Next, Host

LEMMA HostStep == Accum = 1 /\ Types /\ PositionInv /\ HostInv /\ [Next]_vars => HostInv'
<1> SUFFICES ASSUME Accum = 1, Types, PositionInv, HostInv, [Next]_vars PROVE HostInv'
  OBVIOUS
<1> USE DEF runtime, buffers, events, streams, disk
<1>0. /\ setup' = setup /\ setup \in Setups /\ nextSlot \in Slots /\ consumed \in Nat
      /\ 1 - nextSlot \in Slots /\ 1 - nextSlot # nextSlot /\ 1 - (1 - nextSlot) = nextSlot
      /\ nextSlot # None
  BY SetupStays, EventNames DEF Types, Slots
<1>1. CASE Prime
  <2>1. host' = [host EXCEPT ![nextSlot] = Slice(cursor)]
        /\ slotInit' = [slotInit EXCEPT ![nextSlot] = TRUE] /\ primed' = TRUE /\ ~primed
        /\ pc = "fetch"
        /\ UNCHANGED <<setup, consumed, nextSlot, returned, pc, views>>
    BY <1>1 DEF Prime
  <2>2. Slice(cursor) = BatchOf(setup, consumed)
    BY <1>0, SliceIsBatch DEF PositionInv
  <2>3. host'[nextSlot] = BatchOf(setup, consumed) /\ slotInit'[nextSlot] /\ ~slotInit'[1 - nextSlot]
    BY <1>0, <2>1, <2>2 DEF Types, HostInv
  <2> QED
    BY <1>0, <2>1, <2>3 DEF HostInv
<1>2. CASE HandOut
  <2>1. /\ views = <<>> /\ views' = Append(views, [slot |-> nextSlot, batch |-> consumed])
        /\ pc' = "launch" /\ primed
        /\ UNCHANGED <<setup, consumed, nextSlot, returned, primed, slotInit, host>>
    BY <1>2 DEF HandOut, HostInv
  <2>2. views' = <<[slot |-> nextSlot, batch |-> consumed]>>
    BY <2>1
  <2> QED
    BY <2>1, <2>2 DEF HostInv
<1>3. CASE Launch
  <2>1. /\ host' = [host EXCEPT ![1 - nextSlot] = Slice(Advance(cursor))]
        /\ slotInit' = [slotInit EXCEPT ![1 - nextSlot] = TRUE]
        /\ returned' = nextSlot /\ nextSlot' = 1 - nextSlot /\ consumed' = consumed + 1
        /\ pc = "launch" /\ pc' = AfterFetch(views)
        /\ UNCHANGED <<setup, primed, views>>
    BY <1>3 DEF Launch
  <2>2. /\ primed /\ slotInit[nextSlot] /\ host[nextSlot] = BatchOf(setup, consumed)
        /\ views = <<[slot |-> nextSlot, batch |-> consumed]>>
    BY <2>1 DEF HostInv
  <2>3. pc' = "use"
    BY <2>1, <2>2 DEF AfterFetch
  <2>4. Slice(Advance(cursor)) = BatchOf(setup, consumed + 1)
    <3>1. Advance(cursor) = ((consumed + 1) * Needed) % StreamLength
      BY <1>0, SetupStays, NextPosition DEF Advance, PositionInv
    <3>2. consumed + 1 \in Nat
      BY <1>0
    <3> QED
      BY <1>0, <3>1, <3>2, SliceIsBatch
  <2>5. /\ host'[nextSlot] = BatchOf(setup, consumed) /\ host'[1 - nextSlot] = BatchOf(setup, consumed + 1)
        /\ slotInit'[nextSlot] /\ slotInit'[1 - nextSlot]
    BY <1>0, <2>1, <2>2, <2>4 DEF Types
  <2>6. (consumed + 1) - 1 = consumed /\ consumed + 1 >= 1
    BY <1>0
  <2> QED
    BY <1>0, <2>1, <2>2, <2>3, <2>5, <2>6 DEF HostInv
<1>4. CASE Use
  <2>1. /\ pc' = "stepEnd" /\ views' = <<>> /\ returned # None
        /\ UNCHANGED <<setup, consumed, nextSlot, returned, primed, slotInit, host>>
    BY <1>4, UseQueue
  <2> QED
    BY <2>1 DEF HostInv
<1>5. CASE Save \/ EndStep \/ Finished \/ TransferStream \/ ComputeStream \/ UNCHANGED vars
  <2>1. /\ UNCHANGED <<setup, consumed, nextSlot, returned, primed, slotInit, host, views>>
        /\ pc' = pc \/ (pc = "stepEnd" /\ pc' \in {"fetch", "done"})
    BY <1>5 DEF Save, EndStep, Finished, vars, TransferStream, ComputeStream, Copy, TransferEvent,
                ReadBatch, ComputeEvent
  <2> QED
    BY <1>0, <2>1 DEF HostInv
<1>6. CASE Restart
  <2>1. /\ pc' \in {"fetch", "done"} /\ views' = <<>> /\ returned' = None /\ primed' = FALSE
        /\ nextSlot' = 0 /\ slotInit' = [s \in Slots |-> FALSE]
    BY <1>6 DEF Restart
  <2>2. \A s \in Slots : ~slotInit'[s]
    BY <2>1
  <2>3. 1 - nextSlot' \in Slots
    BY <2>1 DEF Slots
  <2> QED
    BY <2>1, <2>2, <2>3 DEF HostInv
<1> QED
  BY <1>1, <1>2, <1>3, <1>4, <1>5, <1>6 DEF Next, Host

-----------------------------------------------------------------------------
(* The queues grow and shrink.                                             *)

LEMMA PendingAppend ==
  ASSUME NEW S, NEW q \in Seq(S), NEW e \in S
  PROVE  /\ \A s : Pending(Append(q, e), s) <=> Pending(q, s) \/ (e.kind = "copy" /\ e.of = s)
         /\ \A x, s : Held(Append(q, e), x, s) <=>
              Held(q, x, s) \/ (e.kind = "wait" /\ e.of = Consumed(s) /\ e.n > x[Consumed(s)])
<1>1. /\ DOMAIN Append(q, e) = DOMAIN q \union {Len(q) + 1}
      /\ \A t \in DOMAIN q : Append(q, e)[t] = q[t]
      /\ Append(q, e)[Len(q) + 1] = e
  BY AtAppend
<1>2. \A s : Pending(Append(q, e), s) <=> Pending(q, s) \/ (e.kind = "copy" /\ e.of = s)
  BY <1>1 DEF Pending, At
<1>3. \A x, s : Held(Append(q, e), x, s) <=>
        Held(q, x, s) \/ (e.kind = "wait" /\ e.of = Consumed(s) /\ e.n > x[Consumed(s)])
  BY <1>1 DEF Held, At
<1> QED
  BY <1>2, <1>3

LEMMA PendingTail ==
  ASSUME NEW S, NEW q \in Seq(S), q # <<>>
  PROVE  /\ \A s : Pending(q, s) <=>
              Pending(Tail(q), s) \/ (Head(q).kind = "copy" /\ Head(q).of = s)
         /\ \A x, s : Held(q, x, s) <=>
              \/ Held(Tail(q), x, s)
              \/ Head(q).kind = "wait" /\ Head(q).of = Consumed(s) /\ Head(q).n > x[Consumed(s)]
<1>1. /\ Head(q) = q[1] /\ 1 \in DOMAIN q
      /\ \A t \in DOMAIN Tail(q) : t + 1 \in DOMAIN q /\ Tail(q)[t] = q[t + 1]
      /\ \A t \in DOMAIN q : t # 1 => t - 1 \in DOMAIN Tail(q) /\ (t - 1) + 1 = t
  BY AtTail
<1>2. \A t \in DOMAIN q : t = 1 \/ \E u \in DOMAIN Tail(q) : Tail(q)[u] = q[t]
  BY <1>1
<1>3. \A s : Pending(q, s) <=> Pending(Tail(q), s) \/ (Head(q).kind = "copy" /\ Head(q).of = s)
  BY <1>1, <1>2 DEF Pending, At
<1>4. \A x, s : Held(q, x, s) <=>
        \/ Held(Tail(q), x, s)
        \/ Head(q).kind = "wait" /\ Head(q).of = Consumed(s) /\ Head(q).n > x[Consumed(s)]
  BY <1>1, <1>2 DEF Held, At
<1> QED
  BY <1>3, <1>4

LEMMA AfterAppend ==
  ASSUME NEW S, NEW q \in Seq(S), NEW e \in S, NEW copies, NEW issued, NEW s,
         NEW m \in Nat, NEW k \in Nat, m <= k, After(copies, q, issued, s, m)
  PROVE  After(copies, Append(q, e), issued, s, k)
<1>1. /\ DOMAIN Append(q, e) = DOMAIN q \union {Len(q) + 1}
      /\ \A t \in DOMAIN q : Append(q, e)[t] = q[t] /\ t \in Nat
  BY AtAppend
<1> QED
  BY <1>1 DEF After, At

LEMMA AfterTail ==
  ASSUME NEW S, NEW q \in Seq(S), q # <<>>, NEW copies, NEW issued, NEW s, NEW m \in Nat,
         After(copies, q, issued, s, m + 1),
         Pending(copies, s) =>
           ~(Head(q).kind = "wait" /\ Head(q).of = Ready(s) /\ Head(q).n >= issued[Ready(s)])
  PROVE  After(copies, Tail(q), issued, s, m)
<1>1. /\ Head(q) = q[1] /\ 1 \in DOMAIN q
      /\ \A t \in DOMAIN Tail(q) : Tail(q)[t] = q[t + 1]
      /\ \A t \in DOMAIN q : t \in Nat
      /\ \A t \in DOMAIN q : t # 1 => t - 1 \in DOMAIN Tail(q) /\ (t - 1) + 1 = t
  <2>1. DOMAIN q = 1 .. Len(q)
    BY AtTail
  <2>2. \A t \in DOMAIN q : t \in Nat
    BY <2>1
  <2> QED
    BY <2>2, AtTail
<1>2. SUFFICES ASSUME Pending(copies, s)
               PROVE  \E j \in DOMAIN Tail(q) : /\ At(Tail(q), j, "wait", Ready(s))
                                                /\ j < m /\ Tail(q)[j].n >= issued[Ready(s)]
  BY DEF After
<1>3. PICK j \in DOMAIN q : /\ At(q, j, "wait", Ready(s))
                            /\ j < m + 1 /\ q[j].n >= issued[Ready(s)]
  BY <1>2 DEF After
<1>4. j # 1
  BY <1>1, <1>2, <1>3 DEF At
<1>5. j - 1 \in DOMAIN Tail(q) /\ Tail(q)[j - 1] = q[j] /\ j - 1 < m
  BY <1>1, <1>3, <1>4
<1> QED
  BY <1>3, <1>5 DEF At

-----------------------------------------------------------------------------
(* The transfer stream.                                                    *)

\* What Prime and Launch do to the slot they copy to.
EnqueuesCopy(s, behind) ==
  /\ s \in Slots
  /\ recorded[Ready(s)] = reached[Ready(s)]
  /\ recorded' = [recorded EXCEPT ![Ready(s)] = @ + 1]
  /\ slotInit' = [slotInit EXCEPT ![s] = TRUE]
  /\ \A u \in Slots : u # s => host'[u] = host[u]
  /\ behind \in Seq(TransferOps)
  /\ behind = transfer \/ behind = Append(transfer, WaitFor(Consumed(s)))
  /\ transfer' = Append(Append(behind, Op("copy", s)), Op("record", Ready(s)))
  /\ UNCHANGED <<device, reached, compute>>

LEMMA PrimeEnqueues == ASSUME Types, HostInv, TransferInv, Prime PROVE EnqueuesCopy(nextSlot, transfer)
<1>1. nextSlot \in Slots /\ transfer \in Seq(TransferOps) /\ host \in [Slots -> Rows]
  BY DEF Types
<1>2. recorded[Ready(nextSlot)] = reached[Ready(nextSlot)]
  BY <1>1 DEF Prime, HostInv, TransferInv
<1>3. transfer' = Append(Append(transfer, Op("copy", nextSlot)), Op("record", Ready(nextSlot)))
  BY PrimeQueue
<1> QED
  BY <1>1, <1>2, <1>3 DEF Prime, EnqueuesCopy

LEMMA LaunchEnqueues ==
  ASSUME Types, HostInv, TransferInv, Launch
  PROVE  LET behind == IF returned = None THEN transfer
                       ELSE Append(transfer, WaitFor(Consumed(returned)))
         IN EnqueuesCopy(1 - nextSlot, behind)
<1> DEFINE slot == 1 - nextSlot
           behind == IF returned = None THEN transfer
                     ELSE Append(transfer, WaitFor(Consumed(returned)))
<1>1. slot \in Slots /\ transfer \in Seq(TransferOps) /\ host \in [Slots -> Rows]
  BY EventNames DEF Types
<1>2. recorded[Ready(slot)] = reached[Ready(slot)]
  BY <1>1 DEF Launch, TransferInv
<1>3. transfer' = Append(Append(behind, Op("copy", slot)), Op("record", Ready(slot)))
  BY LaunchQueue
<1>4. returned # None => returned = slot
  BY DEF HostInv
<1>5. behind \in Seq(TransferOps) /\ (behind = transfer \/ behind = Append(transfer, WaitFor(Consumed(slot))))
  <2>1. CASE returned = None
    BY <1>1, <2>1
  <2>2. CASE returned # None
    <3>1. WaitFor(Consumed(slot)) \in TransferOps
      BY <1>1, OpTypes
    <3>2. Append(transfer, WaitFor(Consumed(slot))) \in Seq(TransferOps)
      BY <1>1, <3>1, QueueAppend
    <3> QED
      BY <1>4, <2>2, <3>2
  <2> QED
    BY <2>1, <2>2
<1>6. /\ recorded' = [recorded EXCEPT ![Ready(slot)] = @ + 1]
      /\ slotInit' = [slotInit EXCEPT ![slot] = TRUE]
      /\ host' = [host EXCEPT ![slot] = Slice(Advance(cursor))]
      /\ UNCHANGED <<device, reached, compute>>
  BY DEF Launch
<1> HIDE DEF slot, behind
<1>7. EnqueuesCopy(slot, behind)
  BY <1>1, <1>2, <1>3, <1>5, <1>6 DEF EnqueuesCopy
<1> QED
  BY <1>7 DEF slot, behind

\* Who is in the queue after that.
LEMMA EnqueuesAt ==
  ASSUME Types, NEW s, NEW behind, EnqueuesCopy(s, behind)
  PROVE  LET n == Len(transfer)
             c == Len(behind) + 1
         IN /\ n \in Nat /\ c \in Nat /\ DOMAIN transfer = 1 .. n
            /\ behind # transfer => c = n + 2
            /\ \A t, kind, of : At(transfer', t, kind, of) <=>
                 \/ At(transfer, t, kind, of)
                 \/ behind # transfer /\ t = n + 1 /\ kind = "wait" /\ of = Consumed(s)
                 \/ t = c /\ kind = "copy" /\ of = s
                 \/ t = c + 1 /\ kind = "record" /\ of = Ready(s)
            /\ \A u : Pending(transfer', u) <=> Pending(transfer, u) \/ u = s
            /\ \A x, u : Held(transfer, x, u) => Held(transfer', x, u)
            /\ behind # transfer =>
                 \A x : recorded[Consumed(s)] > x[Consumed(s)] => Held(transfer', x, s)
<1> DEFINE w == WaitFor(Consumed(s))
           e == Op("copy", s)
           r == Op("record", Ready(s))
           mid == Append(behind, e)
           n == Len(transfer)
           c == Len(behind) + 1
<1>1. /\ w \in TransferOps /\ e \in TransferOps /\ r \in TransferOps
      /\ transfer \in Seq(TransferOps) /\ behind \in Seq(TransferOps)
  BY OpTypes DEF Types, EnqueuesCopy
<1>2. /\ w.kind = "wait" /\ w.of = Consumed(s) /\ w.n = recorded[Consumed(s)]
      /\ e.kind = "copy" /\ e.of = s /\ r.kind = "record" /\ r.of = Ready(s)
  BY DEF WaitFor, Op
<1>3. /\ behind = transfer \/ behind = Append(transfer, w)
      /\ transfer' = Append(mid, r)
  BY DEF EnqueuesCopy
<1> HIDE DEF w, e, r
<1>4. /\ n \in Nat /\ c \in Nat /\ DOMAIN transfer = 1 .. n
      /\ behind # transfer => c = n + 2
      /\ \A t, kind, of : At(behind, t, kind, of) <=>
           \/ At(transfer, t, kind, of)
           \/ behind # transfer /\ t = n + 1 /\ kind = "wait" /\ of = Consumed(s)
      /\ \A u : Pending(behind, u) <=> Pending(transfer, u)
      /\ \A x, u : Held(transfer, x, u) => Held(behind, x, u)
      /\ behind # transfer => \A x : recorded[Consumed(s)] > x[Consumed(s)] => Held(behind, x, s)
  <2>1. n \in Nat /\ Len(behind) \in Nat /\ DOMAIN transfer = 1 .. n
    BY <1>1, QueueDomain
  <2>2. CASE behind = transfer
    BY <2>1, <2>2
  <2>3. CASE behind # transfer
    <3>1. behind = Append(transfer, w)
      BY <1>3, <2>3
    <3>2. Len(behind) = n + 1
      BY <1>1, <3>1, AtAppend
    <3>3. \A t, kind, of : At(behind, t, kind, of) <=>
            At(transfer, t, kind, of) \/ (t = n + 1 /\ kind = "wait" /\ of = Consumed(s))
      BY <1>1, <1>2, <3>1, AtAppend
    <3>4. \A u : Pending(behind, u) <=> Pending(transfer, u)
      BY <1>1, <1>2, <3>1, PendingAppend
    <3>5. \A x, u : Held(transfer, x, u) => Held(behind, x, u)
      BY <1>1, <3>1, PendingAppend
    <3>6. \A x : recorded[Consumed(s)] > x[Consumed(s)] => Held(behind, x, s)
      BY <1>1, <1>2, <3>1, PendingAppend
    <3> QED
      BY <2>1, <2>3, <3>2, <3>3, <3>4, <3>5, <3>6
  <2> QED
    BY <2>2, <2>3
<1>5. /\ mid \in Seq(TransferOps) /\ Len(mid) = c
      /\ \A t, kind, of : At(mid, t, kind, of) <=>
           At(behind, t, kind, of) \/ (t = c /\ kind = "copy" /\ of = s)
      /\ \A u : Pending(mid, u) <=> Pending(behind, u) \/ u = s
      /\ \A x, u : Held(behind, x, u) => Held(mid, x, u)
  <2>1. /\ mid \in Seq(TransferOps) /\ Len(mid) = c
        /\ \A t, kind, of : At(mid, t, kind, of) <=>
             At(behind, t, kind, of) \/ (t = c /\ kind = "copy" /\ of = s)
    BY <1>1, <1>2, AtAppend
  <2>2. \A u : Pending(mid, u) <=> Pending(behind, u) \/ u = s
    BY <1>1, <1>2, PendingAppend
  <2>3. \A x, u : Held(behind, x, u) => Held(mid, x, u)
    BY <1>1, PendingAppend
  <2> QED
    BY <2>1, <2>2, <2>3
<1> HIDE DEF mid
<1>6. /\ \A t, kind, of : At(transfer', t, kind, of) <=>
           At(mid, t, kind, of) \/ (t = c + 1 /\ kind = "record" /\ of = Ready(s))
      /\ \A u : Pending(transfer', u) <=> Pending(mid, u)
      /\ \A x, u : Held(mid, x, u) => Held(transfer', x, u)
  <2>1. \A t, kind, of : At(transfer', t, kind, of) <=>
           At(mid, t, kind, of) \/ (t = c + 1 /\ kind = "record" /\ of = Ready(s))
    BY <1>1, <1>2, <1>3, <1>5, AtAppend
  <2>2. \A u : Pending(transfer', u) <=> Pending(mid, u)
    BY <1>1, <1>2, <1>3, <1>5, PendingAppend
  <2>3. \A x, u : Held(mid, x, u) => Held(transfer', x, u)
    BY <1>1, <1>3, <1>5, PendingAppend
  <2> QED
    BY <2>1, <2>2, <2>3
<1> HIDE DEF n, c
<1>7. \A t, kind, of : At(transfer', t, kind, of) <=>
        \/ At(transfer, t, kind, of)
        \/ behind # transfer /\ t = n + 1 /\ kind = "wait" /\ of = Consumed(s)
        \/ t = c /\ kind = "copy" /\ of = s
        \/ t = c + 1 /\ kind = "record" /\ of = Ready(s)
  BY <1>4, <1>5, <1>6
<1>8. \A u : Pending(transfer', u) <=> Pending(transfer, u) \/ u = s
  BY <1>4, <1>5, <1>6
<1>9. /\ \A x, u : Held(transfer, x, u) => Held(transfer', x, u)
      /\ behind # transfer => \A x : recorded[Consumed(s)] > x[Consumed(s)] => Held(transfer', x, s)
  BY <1>4, <1>5, <1>6
<1> QED
  BY <1>4, <1>7, <1>8, <1>9 DEF n, c

\* What holds whenever a copy is enqueued.
LEMMA PendingCopy ==
  ASSUME Types, TransferInv, NEW s \in Slots
  PROVE  /\ Pending(transfer, s) => reached[Ready(s)] < recorded[Ready(s)] /\ slotInit[s]
         /\ Held(transfer, reached, s) => Pending(transfer, s)
         /\ Held(transfer, reached, s) =>
              /\ transfer # <<>>
              /\ ~(Head(transfer).kind = "copy" /\ Head(transfer).of = s)
<1>0. /\ transfer \in Seq(TransferOps) /\ DOMAIN transfer = 1 .. Len(transfer) /\ Len(transfer) \in Nat
      /\ reached[Ready(s)] \in Nat /\ recorded[Ready(s)] \in Nat
  BY QueueDomain, EventNames DEF Types
<1>1. Pending(transfer, s) => reached[Ready(s)] < recorded[Ready(s)] /\ slotInit[s]
  <2> SUFFICES ASSUME NEW t \in DOMAIN transfer, At(transfer, t, "copy", s)
               PROVE  reached[Ready(s)] < recorded[Ready(s)] /\ slotInit[s]
    BY DEF Pending
  <2>1. At(transfer, t + 1, "record", Ready(s)) /\ t + 1 \in DOMAIN transfer
    BY DEF TransferInv, At
  <2>2. reached[Ready(s)] < recorded[Ready(s)]
    BY <2>1 DEF TransferInv
  <2> QED
    BY <1>0, <2>2 DEF TransferInv
<1>2. Held(transfer, reached, s) => Pending(transfer, s)
  BY DEF Held, Pending, TransferInv, At
<1>3. ASSUME Held(transfer, reached, s)
      PROVE  /\ transfer # <<>> /\ ~(Head(transfer).kind = "copy" /\ Head(transfer).of = s)
  <2>1. PICK t \in DOMAIN transfer : At(transfer, t, "wait", Consumed(s))
    BY <1>3 DEF Held
  <2>2. At(transfer, t + 1, "copy", s) /\ t + 1 \in DOMAIN transfer
    BY <2>1 DEF TransferInv, At
  <2>3. At(transfer, (t + 1) + 1, "record", Ready(s)) /\ (t + 1) + 1 \in DOMAIN transfer
    BY <2>2 DEF TransferInv, At
  <2>4. transfer # <<>>
    BY <2>1
  <2>5. ASSUME Head(transfer).kind = "copy", Head(transfer).of = s PROVE FALSE
    <3>1. At(transfer, 1, "copy", s) /\ 1 \in DOMAIN transfer
      BY <1>0, <2>4, <2>5, QueueDomain DEF At
    <3>2. At(transfer, 1 + 1, "record", Ready(s)) /\ 1 + 1 \in DOMAIN transfer
      BY <3>1 DEF TransferInv, At
    <3>3. 1 + 1 = (t + 1) + 1
      BY <2>3, <3>2 DEF TransferInv
    <3> QED
      BY <1>0, <2>1, <3>3
  <2> QED
    BY <2>4, <2>5
<1> QED
  BY <1>1, <1>2, <1>3

LEMMA TransferStep ==
  ASSUME Types, Types', HostInv, StreamInv, [Next]_vars
  PROVE  TransferInv'
<1> USE DEF runtime, buffers, events, streams, disk
<1>0. TransferInv
  BY DEF StreamInv
<1>00. /\ transfer \in Seq(TransferOps) /\ DOMAIN transfer = 1 .. Len(transfer) /\ Len(transfer) \in Nat
       /\ \A s \in Slots : /\ reached[Ready(s)] \in Nat /\ recorded[Ready(s)] \in Nat
                           /\ reached'[Ready(s)] \in Nat /\ recorded'[Ready(s)] \in Nat
  BY QueueDomain, EventNames DEF Types
\* Steps that leave the transfer stream alone.
<1>1. ASSUME UNCHANGED <<transfer, slotInit, host, device>>,
             \A s \in Slots : reached'[Ready(s)] = reached[Ready(s)] /\ recorded'[Ready(s)] = recorded[Ready(s)]
      PROVE  TransferInv'
  BY <1>0, <1>1 DEF TransferInv
<1>2. CASE Use \/ Save \/ EndStep \/ Finished \/ ReadBatch \/ UNCHANGED vars
  BY <1>1, <1>2 DEF Use, Save, EndStep, Finished, ReadBatch, vars
<1>3. CASE HandOut
  <2>1. \A s \in Slots : recorded'[Ready(s)] = recorded[Ready(s)]
    <3>1. \A s \in Slots : Ready(s) \in Events /\ Ready(s)[1] # "consumed"
      BY EventNames DEF Ready
    <3>2. recorded' = [e \in Events |->
                         recorded[e] + (IF e[1] = "consumed" /\ e[2] = returned THEN 1 ELSE 0)]
      BY <1>3 DEF HandOut
    <3>3. \A s \in Slots : recorded'[Ready(s)] = recorded[Ready(s)] + 0
      BY <3>1, <3>2
    <3> QED
      BY <1>00, <3>3
  <2> QED
    BY <1>1, <1>3, <2>1 DEF HandOut
<1>4. CASE ComputeEvent
  <2>1. compute # <<>> /\ Head(compute) \in ComputeOps
    BY <1>4, QueueDomain DEF ComputeEvent, Runs, Types
  <2>2. Head(compute).kind # "wait" => \E u \in Slots : Head(compute).of = Consumed(u)
    BY <1>4, <2>1 DEF ComputeOps, ComputeEvent, Runs
  <2>3. \A s \in Slots : reached'[Ready(s)] = reached[Ready(s)]
    <3>1. CASE Head(compute).kind = "wait"
      BY <1>4, <3>1 DEF ComputeEvent
    <3>2. CASE Head(compute).kind # "wait"
      <4>1. PICK u \in Slots : Head(compute).of = Consumed(u)
        BY <2>2, <3>2
      <4>2. reached' = [reached EXCEPT ![Consumed(u)] = @ + 1]
        BY <1>4, <3>2, <4>1 DEF ComputeEvent
      <4> QED
        BY <4>1, <4>2, EventNames DEF Types
    <3> QED
      BY <3>1, <3>2
  <2> QED
    BY <1>1, <1>4, <2>3 DEF ComputeEvent
<1>5. ASSUME NEW s, NEW behind, EnqueuesCopy(s, behind) PROVE TransferInv'
  <2> DEFINE n == Len(transfer)
             c == Len(behind) + 1
  <2>1. /\ n \in Nat /\ c \in Nat /\ DOMAIN transfer = 1 .. n
        /\ behind # transfer => c = n + 2
        /\ \A t, kind, of : At(transfer', t, kind, of) <=>
             \/ At(transfer, t, kind, of)
             \/ behind # transfer /\ t = n + 1 /\ kind = "wait" /\ of = Consumed(s)
             \/ t = c /\ kind = "copy" /\ of = s
             \/ t = c + 1 /\ kind = "record" /\ of = Ready(s)
        /\ \A u : Pending(transfer', u) <=> Pending(transfer, u) \/ u = s
    BY <1>5, EnqueuesAt
  <2> HIDE DEF n, c
  <2>2. /\ s \in Slots /\ recorded[Ready(s)] = reached[Ready(s)]
        /\ recorded' = [recorded EXCEPT ![Ready(s)] = @ + 1]
        /\ slotInit' = [slotInit EXCEPT ![s] = TRUE]
        /\ \A u \in Slots : u # s => host'[u] = host[u]
        /\ UNCHANGED <<device, reached>>
    BY <1>5 DEF EnqueuesCopy
  <2>3. /\ recorded'[Ready(s)] = recorded[Ready(s)] + 1
        /\ \A u \in Slots : u # s => recorded'[Ready(u)] = recorded[Ready(u)] /\ slotInit'[u] = slotInit[u]
        /\ slotInit'[s] = TRUE
    BY <2>2, EventNames DEF Types
  <2>4. \A t : ~At(transfer, t, "record", Ready(s))
    <3> SUFFICES ASSUME NEW t, At(transfer, t, "record", Ready(s)) PROVE FALSE
      OBVIOUS
    <3>1. t \in DOMAIN transfer
      BY DEF At
    <3>2. reached[Ready(s)] < recorded[Ready(s)]
      BY <1>0, <2>2, <3>1 DEF TransferInv
    <3> QED
      BY <1>00, <2>2, <3>2
  <2>5. ASSUME NEW u \in Slots, NEW t
        PROVE  /\ At(transfer', t, "copy", u) => At(transfer', t + 1, "record", Ready(u))
               /\ At(transfer', t, "wait", Consumed(u)) => At(transfer', t + 1, "copy", u)
               /\ At(transfer', t, "record", Ready(u)) => reached'[Ready(u)] < recorded'[Ready(u)]
    <3>1. ASSUME At(transfer', t, "copy", u) PROVE At(transfer', t + 1, "record", Ready(u))
      <4>1. CASE At(transfer, t, "copy", u)
        <5>1. t \in DOMAIN transfer
          BY <4>1 DEF At
        <5>2. At(transfer, t + 1, "record", Ready(u))
          BY <1>0, <4>1, <5>1 DEF TransferInv
        <5> QED
          BY <2>1, <5>2
      <4>2. CASE t = c /\ u = s
        BY <2>1, <4>2
      <4> QED
        BY <2>1, <3>1, <4>1, <4>2
    <3>2. ASSUME At(transfer', t, "wait", Consumed(u)) PROVE At(transfer', t + 1, "copy", u)
      <4>1. CASE At(transfer, t, "wait", Consumed(u))
        <5>1. t \in DOMAIN transfer
          BY <4>1 DEF At
        <5>2. At(transfer, t + 1, "copy", u)
          BY <1>0, <4>1, <5>1 DEF TransferInv
        <5> QED
          BY <2>1, <5>2
      <4>2. CASE behind # transfer /\ t = n + 1 /\ u = s
        <5>1. t + 1 = c
          BY <2>1, <4>2
        <5> QED
          BY <2>1, <4>2, <5>1
      <4> QED
        BY <2>1, <2>2, <3>2, <4>1, <4>2, EventNames
    <3>3. ASSUME At(transfer', t, "record", Ready(u)) PROVE reached'[Ready(u)] < recorded'[Ready(u)]
      <4>1. CASE At(transfer, t, "record", Ready(u))
        <5>1. u # s /\ reached[Ready(u)] < recorded[Ready(u)]
          BY <1>0, <2>4, <4>1 DEF TransferInv, At
        <5> QED
          BY <2>2, <2>3, <5>1
      <4>2. CASE u = s
        BY <1>00, <2>2, <2>3, <4>2
      <4> QED
        BY <2>1, <2>2, <3>3, <4>1, <4>2, EventNames
    <3> QED
      BY <3>1, <3>2, <3>3
  <2>6. ASSUME NEW u \in Slots, NEW t, NEW v,
               At(transfer', t, "record", Ready(u)), At(transfer', v, "record", Ready(u))
        PROVE  t = v
    <3>1. CASE u = s
      BY <2>1, <2>4, <2>6, <3>1
    <3>2. CASE u # s
      <4>1. \A x : At(transfer', x, "record", Ready(u)) => At(transfer, x, "record", Ready(u))
        <5>1. Ready(u) # Ready(s)
          BY <2>2, <3>2, EventNames
        <5> QED
          BY <2>1, <5>1
      <4>2. /\ At(transfer, t, "record", Ready(u)) /\ At(transfer, v, "record", Ready(u))
            /\ t \in DOMAIN transfer /\ v \in DOMAIN transfer
        BY <2>6, <4>1 DEF At
      <4> QED
        BY <1>0, <4>2 DEF TransferInv
    <3> QED
      BY <3>1, <3>2
  <2>7. ASSUME NEW u \in Slots
        PROVE  /\ ~slotInit'[u] => recorded'[Ready(u)] = reached'[Ready(u)]
               /\ slotInit'[u] /\ ~Pending(transfer', u) => device'[u] = host'[u]
    <3>1. CASE u = s
      BY <2>1, <2>3, <3>1
    <3>2. CASE u # s
      BY <1>0, <2>1, <2>2, <2>3, <3>2 DEF TransferInv
    <3> QED
      BY <3>1, <3>2
  <2> QED
    BY <2>5, <2>6, <2>7 DEF TransferInv
<1>6. CASE Prime
  BY <1>0, <1>5, <1>6, PrimeEnqueues
<1>7. CASE Launch
  BY <1>0, <1>5, <1>7, LaunchEnqueues
\* The operation at the head of the stream.
<1>8. CASE TransferStream
  <2>1. transfer # <<>> /\ transfer' = Tail(transfer) /\ UNCHANGED <<slotInit, host, recorded>>
    BY <1>8 DEF TransferStream, Copy, TransferEvent, Runs
  <2>2. /\ Head(transfer) = transfer[1] /\ 1 \in DOMAIN transfer /\ Head(transfer) \in TransferOps
        /\ \A t \in DOMAIN transfer' : t \in Nat /\ t >= 1 /\ t + 1 \in DOMAIN transfer
        /\ \A t \in DOMAIN transfer : t # 1 => t - 1 \in DOMAIN transfer' /\ (t - 1) + 1 = t
        /\ \A t \in DOMAIN transfer' : \A kind, of : At(transfer', t, kind, of) <=> At(transfer, t + 1, kind, of)
    BY <1>00, <2>1, AtTail
  <2>3. \A s : Pending(transfer, s) <=>
          Pending(transfer', s) \/ (Head(transfer).kind = "copy" /\ Head(transfer).of = s)
    BY <1>00, <2>1, PendingTail
  <2>4. ASSUME NEW s \in Slots, NEW t \in DOMAIN transfer'
        PROVE  /\ At(transfer', t, "copy", s) => At(transfer', t + 1, "record", Ready(s))
               /\ At(transfer', t, "wait", Consumed(s)) => At(transfer', t + 1, "copy", s)
    <3>1. t \in Nat /\ t + 1 \in DOMAIN transfer /\ t + 1 # 1
          /\ (t + 1) + 1 # 1 /\ ((t + 1) + 1) - 1 = t + 1
      BY <2>2
    <3>2. (t + 1) + 1 \in DOMAIN transfer => t + 1 \in DOMAIN transfer'
      BY <2>2, <3>1
    <3>3. ASSUME At(transfer', t, "copy", s) PROVE At(transfer', t + 1, "record", Ready(s))
      <4>1. At(transfer, (t + 1) + 1, "record", Ready(s)) /\ (t + 1) + 1 \in DOMAIN transfer
        BY <1>0, <2>2, <3>1, <3>3 DEF TransferInv, At
      <4> QED
        BY <2>2, <3>2, <4>1
    <3>4. ASSUME At(transfer', t, "wait", Consumed(s)) PROVE At(transfer', t + 1, "copy", s)
      <4>1. At(transfer, (t + 1) + 1, "copy", s) /\ (t + 1) + 1 \in DOMAIN transfer
        BY <1>0, <2>2, <3>1, <3>4 DEF TransferInv, At
      <4> QED
        BY <2>2, <3>2, <4>1
    <3> QED
      BY <3>3, <3>4
  <2>5. ASSUME NEW s \in Slots, NEW t \in DOMAIN transfer', NEW u \in DOMAIN transfer',
               At(transfer', t, "record", Ready(s)), At(transfer', u, "record", Ready(s))
        PROVE  t = u
    <3>1. t + 1 = u + 1
      BY <1>0, <2>2, <2>5 DEF TransferInv
    <3> QED
      BY <2>2, <3>1
  <2>6. CASE Copy
    <3> DEFINE d == Head(transfer).of
    <3>1. d \in Slots /\ device' = [device EXCEPT ![d] = host[d]] /\ reached' = reached
      BY <2>2, <2>6 DEF Copy, Runs, TransferOps
    <3>2. device'[d] = host[d] /\ \A u \in Slots : u # d => device'[u] = device[u]
      BY <3>1 DEF Types
    <3>3. \A u : u # d => (Pending(transfer', u) <=> Pending(transfer, u))
      BY <2>3
    <3> HIDE DEF d
    <3>4. ASSUME NEW s \in Slots, slotInit'[s], ~Pending(transfer', s) PROVE device'[s] = host'[s]
      <4>1. CASE s = d
        BY <2>1, <3>2, <4>1
      <4>2. CASE s # d
        BY <1>0, <2>1, <3>2, <3>3, <3>4, <4>2 DEF TransferInv
      <4> QED
        BY <4>1, <4>2
    <3>5. ASSUME NEW s \in Slots, NEW t \in DOMAIN transfer', At(transfer', t, "record", Ready(s))
          PROVE  reached'[Ready(s)] < recorded'[Ready(s)]
      BY <1>0, <2>1, <2>2, <3>1, <3>5 DEF TransferInv
    <3>6. \A s \in Slots : ~slotInit'[s] => recorded'[Ready(s)] = reached'[Ready(s)]
      BY <1>0, <2>1, <3>1 DEF TransferInv
    <3> QED
      BY <2>4, <2>5, <3>4, <3>5, <3>6 DEF TransferInv
  <2>7. CASE TransferEvent
    <3>1. device' = device /\ \A u : Pending(transfer', u) <=> Pending(transfer, u)
      BY <2>3, <2>7 DEF TransferEvent, Runs
    <3>2. \A s \in Slots : slotInit'[s] /\ ~Pending(transfer', s) => device'[s] = host'[s]
      BY <1>0, <2>1, <3>1 DEF TransferInv
    <3>3. CASE Head(transfer).kind = "wait"
      <4>1. reached' = reached
        BY <2>7, <3>3 DEF TransferEvent
      <4>2. ASSUME NEW s \in Slots, NEW t \in DOMAIN transfer', At(transfer', t, "record", Ready(s))
            PROVE  reached'[Ready(s)] < recorded'[Ready(s)]
        BY <1>0, <2>1, <2>2, <4>1, <4>2 DEF TransferInv
      <4>3. \A s \in Slots : ~slotInit'[s] => recorded'[Ready(s)] = reached'[Ready(s)]
        BY <1>0, <2>1, <4>1 DEF TransferInv
      <4> QED
        BY <2>4, <2>5, <3>2, <4>2, <4>3 DEF TransferInv
    <3>4. CASE Head(transfer).kind # "wait"
      <4>1. PICK d \in Slots : Head(transfer).of = Ready(d)
        BY <2>2, <2>7, <3>4 DEF TransferEvent, Runs, TransferOps
      <4>2. At(transfer, 1, "record", Ready(d))
        BY <2>2, <2>7, <3>4, <4>1 DEF TransferEvent, Runs, At
      <4>3. reached' = [reached EXCEPT ![Ready(d)] = @ + 1]
        BY <2>7, <3>4, <4>1 DEF TransferEvent
      <4>4. \A u \in Slots : u # d => reached'[Ready(u)] = reached[Ready(u)]
        BY <4>1, <4>3, EventNames DEF Types
      <4>5. slotInit[d]
        BY <1>0, <1>00, <2>2, <4>2 DEF TransferInv
      <4>6. ASSUME NEW s \in Slots, NEW t \in DOMAIN transfer', At(transfer', t, "record", Ready(s))
            PROVE  reached'[Ready(s)] < recorded'[Ready(s)]
        <5>1. s # d
          <6>1. ASSUME s = d PROVE FALSE
            <7>1. At(transfer, t + 1, "record", Ready(d)) /\ t + 1 \in DOMAIN transfer /\ t + 1 # 1
              BY <2>2, <4>6, <6>1
            <7> QED
              BY <1>0, <2>2, <4>2, <7>1 DEF TransferInv
          <6> QED
            BY <6>1
        <5> QED
          BY <1>0, <2>1, <2>2, <4>4, <4>6, <5>1 DEF TransferInv
      <4>7. \A s \in Slots : ~slotInit'[s] => recorded'[Ready(s)] = reached'[Ready(s)]
        BY <1>0, <2>1, <4>4, <4>5 DEF TransferInv
      <4> QED
        BY <2>4, <2>5, <3>2, <4>6, <4>7 DEF TransferInv
    <3> QED
      BY <3>3, <3>4
  <2> QED
    BY <1>8, <2>6, <2>7 DEF TransferStream
<1>9. CASE Restart
  <2>1. transfer' = <<>> /\ slotInit' = [s \in Slots |-> FALSE]
        /\ recorded' = [e \in Events |-> 0] /\ reached' = [e \in Events |-> 0]
    BY <1>9 DEF Restart
  <2>2. \A s \in Slots : recorded'[Ready(s)] = reached'[Ready(s)] /\ ~slotInit'[s]
    BY <2>1, EventNames
  <2> QED
    BY <2>1, <2>2 DEF TransferInv
<1> QED
  BY <1>2, <1>3, <1>4, <1>6, <1>7, <1>8, <1>9 DEF Next, Host, ComputeStream

-----------------------------------------------------------------------------
(* The compute stream.                                                     *)

\* What the transfer stream leaves to the compute stream.
LEMMA TransferLeaves ==
  ASSUME Types, TransferInv, TransferStream
  PROVE  /\ UNCHANGED <<setup, runtime, host, recorded, compute, pc>>
         /\ \A s \in Slots : /\ Held(transfer', reached', s) <=> Held(transfer, reached, s)
                             /\ Pending(transfer', s) => Pending(transfer, s)
                             /\ reached'[Consumed(s)] = reached[Consumed(s)]
                             /\ Held(transfer, reached, s) => device'[s] = device[s]
<1> USE DEF runtime, buffers, events, streams, disk
<1>0. /\ transfer \in Seq(TransferOps) /\ transfer # <<>> /\ transfer' = Tail(transfer)
      /\ UNCHANGED <<setup, runtime, host, recorded, compute, pc>>
  BY DEF Types, TransferStream, Copy, TransferEvent, Runs
<1>1. Head(transfer) \in TransferOps
  BY <1>0, QueueDomain
<1>2. \A s : Pending(transfer', s) => Pending(transfer, s)
  BY <1>0, PendingTail
<1>3. \A x, s : Held(transfer, x, s) <=>
        \/ Held(transfer', x, s)
        \/ Head(transfer).kind = "wait" /\ Head(transfer).of = Consumed(s)
           /\ Head(transfer).n > x[Consumed(s)]
  BY <1>0, PendingTail
<1>4. \A s \in Slots : reached'[Consumed(s)] = reached[Consumed(s)]
  <2>1. CASE Copy
    BY <2>1 DEF Copy, events
  <2>2. CASE TransferEvent /\ Head(transfer).kind = "wait"
    BY <2>2 DEF TransferEvent
  <2>3. CASE TransferEvent /\ Head(transfer).kind # "wait"
    <3>1. PICK u \in Slots : Head(transfer).of = Ready(u)
      BY <1>1, <2>3 DEF TransferEvent, Runs, TransferOps
    <3>2. reached' = [reached EXCEPT ![Ready(u)] = @ + 1]
      BY <2>3, <3>1 DEF TransferEvent
    <3> QED
      BY <3>1, <3>2, EventNames DEF Types
  <2> QED
    BY <2>1, <2>2, <2>3 DEF TransferStream
<1>5. ASSUME NEW s \in Slots PROVE Held(transfer', reached', s) <=> Held(transfer, reached, s)
  <2>1. ~(Head(transfer).kind = "wait" /\ Head(transfer).of = Consumed(s)
            /\ Head(transfer).n > reached[Consumed(s)])
    <3> SUFFICES ASSUME Head(transfer).kind = "wait", Head(transfer).of = Consumed(s)
                 PROVE  ~(Head(transfer).n > reached[Consumed(s)])
      OBVIOUS
    <3>1. reached[Consumed(s)] >= Head(transfer).n
      BY DEF TransferStream, TransferEvent, Copy, Runs
    <3>2. reached[Consumed(s)] \in Nat /\ Head(transfer).n \in Nat
      BY <1>1, EventNames DEF Types, TransferOps
    <3> QED
      BY <3>1, <3>2
  <2>2. Held(transfer', reached', s) <=> Held(transfer', reached, s)
    BY <1>4 DEF Held
  <2> QED
    BY <1>3, <2>1, <2>2
<1>6. ASSUME NEW s \in Slots, Held(transfer, reached, s) PROVE device'[s] = device[s]
  <2>1. CASE Copy
    <3>1. Head(transfer).of # s
      BY <1>6, <2>1, PendingCopy DEF Copy, Runs
    <3> QED
      BY <2>1, <3>1 DEF Copy, Types
  <2>2. CASE TransferEvent
    BY <2>2 DEF TransferEvent
  <2> QED
    BY <2>1, <2>2 DEF TransferStream
<1> QED
  BY <1>0, <1>2, <1>4, <1>5, <1>6

\* What HandOut enqueues: a record for the slot handed out before, and a wait.
LEMMA HandOutAt ==
  ASSUME Types, HandOut
  PROVE  LET n == Len(compute)
             w == Len(compute')
         IN /\ n \in Nat /\ w \in Nat /\ DOMAIN compute = 1 .. n /\ w > n
            /\ returned # None => w = n + 2
            /\ \A m, kind, of : At(compute', m, kind, of) <=>
                 \/ At(compute, m, kind, of)
                 \/ returned # None /\ m = n + 1 /\ kind = "record" /\ of = Consumed(returned)
                 \/ m = w /\ kind = "wait" /\ of = Ready(nextSlot)
            /\ \A m \in DOMAIN compute : compute'[m] = compute[m]
            /\ compute'[w].n = recorded[Ready(nextSlot)]
            /\ \A s \in Slots :
                 /\ recorded'[Ready(s)] = recorded[Ready(s)]
                 /\ recorded'[Consumed(s)] = recorded[Consumed(s)] + (IF s = returned THEN 1 ELSE 0)
            /\ \A copies, s : \A m \in Nat :
                 After(copies, compute, recorded, s, m) => After(copies, compute', recorded, s, m)
<1> DEFINE r == Op("record", Consumed(returned))
           e == WaitFor(Ready(nextSlot))
           mid == IF returned = None THEN compute ELSE Append(compute, r)
           n == Len(compute)
           w == Len(compute')
<1>1. /\ compute \in Seq(ComputeOps) /\ nextSlot \in Slots /\ (returned = None \/ returned \in Slots)
      /\ e \in ComputeOps /\ (returned # None => r \in ComputeOps)
  BY OpTypes DEF Types
<1>2. /\ e.kind = "wait" /\ e.of = Ready(nextSlot) /\ e.n = recorded[Ready(nextSlot)]
      /\ r.kind = "record" /\ r.of = Consumed(returned)
  BY DEF WaitFor, Op
<1>3. compute' = Append(mid, e)
  BY HandOutQueue
<1>4. /\ n \in Nat /\ DOMAIN compute = 1 .. n
      /\ \A s \in Slots :
           /\ recorded'[Ready(s)] = recorded[Ready(s)]
           /\ recorded'[Consumed(s)] = recorded[Consumed(s)] + (IF s = returned THEN 1 ELSE 0)
  <2>1. n \in Nat /\ DOMAIN compute = 1 .. n
    BY <1>1, QueueDomain
  <2>2. recorded' = [a \in Events |->
                       recorded[a] + (IF a[1] = "consumed" /\ a[2] = returned THEN 1 ELSE 0)]
    BY DEF HandOut
  <2>3. \A s \in Slots : /\ Ready(s)[1] # "consumed"
                         /\ Consumed(s)[1] = "consumed" /\ Consumed(s)[2] = s
    BY DEF Ready, Consumed
  <2>4. \A s \in Slots : /\ recorded'[Ready(s)] = recorded[Ready(s)] + 0
                         /\ recorded'[Consumed(s)] = recorded[Consumed(s)] + (IF s = returned THEN 1 ELSE 0)
    BY <2>2, <2>3, EventNames
  <2>5. \A s \in Slots : recorded[Ready(s)] \in Nat
    BY EventNames DEF Types
  <2> QED
    BY <2>1, <2>4, <2>5
<1> HIDE DEF r, e
<1>5. /\ mid \in Seq(ComputeOps)
      /\ Len(mid) = IF returned = None THEN n ELSE n + 1
      /\ \A m, kind, of : At(mid, m, kind, of) <=>
           \/ At(compute, m, kind, of)
           \/ returned # None /\ m = n + 1 /\ kind = "record" /\ of = Consumed(returned)
      /\ \A m \in DOMAIN compute : m \in DOMAIN mid /\ mid[m] = compute[m]
      /\ \A copies, s : \A m \in Nat :
           After(copies, compute, recorded, s, m) => After(copies, mid, recorded, s, m)
  <2>1. CASE returned = None
    BY <1>1, <2>1
  <2>2. CASE returned # None
    <3>1. mid = Append(compute, r) /\ r \in ComputeOps
      BY <1>1, <2>2
    <3>2. /\ mid \in Seq(ComputeOps) /\ Len(mid) = n + 1
          /\ DOMAIN mid = DOMAIN compute \union {n + 1}
          /\ \A m \in DOMAIN compute : mid[m] = compute[m]
      BY <1>1, <3>1, AtAppend
    <3>3. \A m, kind, of : At(mid, m, kind, of) <=>
            At(compute, m, kind, of) \/ (m = n + 1 /\ kind = "record" /\ of = Consumed(returned))
      BY <1>1, <1>2, <3>1, AtAppend
    <3>4. ASSUME NEW copies, NEW s, NEW m \in Nat, After(copies, compute, recorded, s, m)
          PROVE  After(copies, mid, recorded, s, m)
      <4>1. m <= m
        OBVIOUS
      <4> QED
        BY <1>1, <3>1, <3>4, <4>1, AfterAppend
    <3> QED
      BY <2>2, <3>2, <3>3, <3>4
  <2> QED
    BY <2>1, <2>2
<1> HIDE DEF mid
<1>6. /\ w = Len(mid) + 1 /\ Len(mid) \in Nat /\ compute'[w] = e
      /\ \A m \in DOMAIN mid : compute'[m] = mid[m]
      /\ \A m, kind, of : At(compute', m, kind, of) <=>
           At(mid, m, kind, of) \/ (m = w /\ kind = "wait" /\ of = Ready(nextSlot))
  <2>1. /\ w = Len(mid) + 1 /\ Len(mid) \in Nat /\ compute'[Len(mid) + 1] = e
        /\ \A m \in DOMAIN mid : compute'[m] = mid[m]
    BY <1>1, <1>3, <1>5, AtAppend
  <2>2. \A m, kind, of : At(compute', m, kind, of) <=>
          At(mid, m, kind, of) \/ (m = Len(mid) + 1 /\ kind = "wait" /\ of = Ready(nextSlot))
    BY <1>1, <1>2, <1>3, <1>5, AtAppend
  <2> QED
    BY <2>1, <2>2
<1>7. ASSUME NEW copies, NEW s, NEW m \in Nat, After(copies, compute, recorded, s, m)
      PROVE  After(copies, compute', recorded, s, m)
  <2>1. After(copies, mid, recorded, s, m) /\ m <= m
    BY <1>5, <1>7
  <2> QED
    BY <1>1, <1>3, <1>5, <2>1, AfterAppend
<1>8. w \in Nat /\ w > n /\ (returned # None => w = n + 2)
  BY <1>4, <1>5, <1>6
<1>9. \A m, kind, of : At(compute', m, kind, of) <=>
        \/ At(compute, m, kind, of)
        \/ returned # None /\ m = n + 1 /\ kind = "record" /\ of = Consumed(returned)
        \/ m = w /\ kind = "wait" /\ of = Ready(nextSlot)
  BY <1>5, <1>6
<1>10. \A m \in DOMAIN compute : compute'[m] = compute[m]
  BY <1>5, <1>6
<1>11. compute'[w].n = recorded[Ready(nextSlot)]
  BY <1>2, <1>6
<1> HIDE DEF n, w
<1>12. \A copies, s : \A m \in Nat :
         After(copies, compute, recorded, s, m) => After(copies, compute', recorded, s, m)
  BY <1>7
<1> QED
  BY <1>4, <1>8, <1>9, <1>10, <1>11, <1>12 DEF n, w

LEMMA ConsumedStep ==
  ASSUME Accum = 1, Types, Types', HostInv, StreamInv, [Next]_vars
  PROVE  ConsumedInv'
<1> USE DEF runtime, buffers, events, streams, disk
<1>0. TransferInv /\ ConsumedInv /\ ReadInv /\ ViewInv
  BY DEF StreamInv
<1>00. /\ compute \in Seq(ComputeOps) /\ DOMAIN compute = 1 .. Len(compute) /\ Len(compute) \in Nat
       /\ \A s \in Slots : /\ reached[Consumed(s)] \in Nat /\ recorded[Consumed(s)] \in Nat
                           /\ reached'[Consumed(s)] \in Nat /\ recorded'[Consumed(s)] \in Nat
  BY QueueDomain, EventNames DEF Types
\* Steps that leave the compute stream alone.
<1>1. ASSUME compute' = compute,
             pc' = "launch" => pc = "launch" /\ returned' = returned,
             \A s \in Slots : /\ reached'[Consumed(s)] = reached[Consumed(s)]
                              /\ recorded'[Consumed(s)] = recorded[Consumed(s)]
                              /\ Held(transfer, reached, s) => Held(transfer', reached', s),
             pc = "launch" => pc' = "launch" /\ returned' = returned
      PROVE  ConsumedInv'
  BY <1>0, <1>1 DEF ConsumedInv
<1>2. CASE Save \/ EndStep \/ Finished \/ UNCHANGED vars
  BY <1>1, <1>2 DEF Save, EndStep, Finished, vars
<1>3. CASE TransferStream
  BY <1>0, <1>1, <1>3, TransferLeaves
<1>4. CASE Prime
  <2>1. EnqueuesCopy(nextSlot, transfer) /\ nextSlot \in Slots
    BY <1>0, <1>4, PrimeEnqueues DEF Types
  <2>2. \A s \in Slots : recorded'[Consumed(s)] = recorded[Consumed(s)]
    BY <2>1, EventNames DEF EnqueuesCopy, Types
  <2>3. \A s : Held(transfer, reached, s) => Held(transfer', reached', s)
    BY <2>1, EnqueuesAt DEF EnqueuesCopy
  <2> QED
    BY <1>1, <1>4, <2>1, <2>2, <2>3 DEF Prime, EnqueuesCopy
<1>5. CASE Launch
  <2> DEFINE slot == 1 - nextSlot
             behind == IF returned = None THEN transfer
                       ELSE Append(transfer, WaitFor(Consumed(returned)))
  <2>1. /\ EnqueuesCopy(slot, behind) /\ pc = "launch" /\ slot \in Slots
        /\ slotInit[slot] => reached[Ready(slot)] = recorded[Ready(slot)]
        /\ returned = None \/ returned = slot
    BY <1>0, <1>5, LaunchEnqueues, EventNames DEF Launch, HostInv, Types
  <2>2. \A s \in Slots : recorded'[Consumed(s)] = recorded[Consumed(s)] /\ reached' = reached
                         /\ compute' = compute
    BY <2>1, EventNames DEF EnqueuesCopy, Types
  <2>3. /\ \A x, u : Held(transfer, x, u) => Held(transfer', x, u)
        /\ behind # transfer =>
             \A x : recorded[Consumed(slot)] > x[Consumed(slot)] => Held(transfer', x, slot)
    BY <2>1, EnqueuesAt
  <2>4. returned # None => behind # transfer
    <3>1. ASSUME returned # None PROVE Len(behind) # Len(transfer)
      <4>1. transfer \in Seq(TransferOps) /\ WaitFor(Consumed(returned)) \in TransferOps
        BY <2>1, <3>1, OpTypes DEF Types
      <4> QED
        BY <3>1, <4>1
    <3> QED
      BY <3>1
  <2> HIDE DEF behind
  <2>5. ~Held(transfer, reached, slot)
    <3>1. Held(transfer, reached, slot) => reached[Ready(slot)] < recorded[Ready(slot)] /\ slotInit[slot]
      BY <1>0, <2>1, PendingCopy
    <3>2. reached[Ready(slot)] \in Nat /\ recorded[Ready(slot)] \in Nat
      BY <2>1, EventNames DEF Types
    <3> QED
      BY <2>1, <3>1, <3>2
  <2>6. pc' = "use"
    <3>1. Len(views) = 1
      BY <2>1 DEF HostInv
    <3> QED
      BY <1>5, <3>1 DEF Launch, AfterFetch
  <2> HIDE DEF slot
  <2>7. ASSUME NEW s \in Slots, NEW m \in DOMAIN compute, At(compute, m, "record", Consumed(s))
        PROVE  Held(transfer', reached, s) /\ reached[Consumed(s)] < recorded[Consumed(s)]
    <3>1. reached[Consumed(s)] < recorded[Consumed(s)] /\ (Held(transfer, reached, s) \/ s = returned)
      BY <1>0, <2>7 DEF ConsumedInv
    <3>2. CASE Held(transfer, reached, s)
      BY <2>3, <3>1, <3>2
    <3>3. CASE s = returned
      <4>1. s = slot /\ returned # None
        BY <2>1, <3>3, EventNames
      <4> QED
        BY <1>00, <2>3, <2>4, <3>1, <4>1
    <3> QED
      BY <3>1, <3>2, <3>3
  <2>8. ASSUME NEW s \in Slots, NEW l \in DOMAIN compute, NEW m \in DOMAIN compute, l < m,
               At(compute, l, "record", Consumed(s)), At(compute, m, "record", Consumed(s))
        PROVE  FALSE
    <3>1. Held(transfer, reached, s) /\ s = returned
      BY <1>0, <2>8 DEF ConsumedInv
    <3>2. s = slot
      BY <2>1, <2>8, <3>1, EventNames
    <3> QED
      BY <2>5, <3>1, <3>2
  <2>9. \A s \in Slots : reached[Consumed(s)] <= recorded[Consumed(s)]
    BY <1>0 DEF ConsumedInv
  <2> QED
    BY <2>2, <2>6, <2>7, <2>8, <2>9 DEF ConsumedInv
<1>6. CASE HandOut
  <2> DEFINE n == Len(compute)
  <2>1. /\ n \in Nat /\ DOMAIN compute = 1 .. n
        /\ \A m, of : At(compute', m, "record", of) <=>
             At(compute, m, "record", of) \/ (returned # None /\ m = n + 1 /\ of = Consumed(returned))
        /\ \A m, of : At(compute', m, "read", of) <=> At(compute, m, "read", of)
        /\ \A s \in Slots :
             recorded'[Consumed(s)] = recorded[Consumed(s)] + (IF s = returned THEN 1 ELSE 0)
    BY <1>6, HandOutAt
  <2> HIDE DEF n
  <2>2. pc = "fetch" /\ pc' = "launch" /\ UNCHANGED <<returned, transfer, reached>>
    BY <1>6 DEF HandOut
  <2>3. \A m, kind, of : At(compute, m, kind, of) => m \in DOMAIN compute /\ m \in Nat /\ m < n + 1
    BY <2>1 DEF At
  <2>4. ASSUME NEW s \in Slots, NEW m, At(compute, m, "record", Consumed(s))
        PROVE  /\ Held(transfer, reached, s) /\ reached[Consumed(s)] < recorded[Consumed(s)]
               /\ \A l : At(compute, l, "record", Consumed(s)) => l = m
    <3>1. m \in DOMAIN compute
      BY <2>3, <2>4
    <3>2. Held(transfer, reached, s) /\ reached[Consumed(s)] < recorded[Consumed(s)]
      BY <1>0, <2>2, <2>4, <3>1 DEF ConsumedInv
    <3>3. ASSUME NEW l, At(compute, l, "record", Consumed(s)) PROVE l = m
      <4>1. l \in DOMAIN compute /\ l \in Nat /\ m \in Nat
        BY <2>3, <2>4, <3>3
      <4>2. ~(l < m) /\ ~(m < l)
        BY <1>0, <2>2, <2>4, <3>1, <3>3, <4>1 DEF ConsumedInv
      <4> QED
        BY <4>1, <4>2
    <3> QED
      BY <3>2, <3>3
  <2>5. \A s \in Slots : \A m : At(compute', m, "record", Consumed(s)) =>
          At(compute, m, "record", Consumed(s)) \/ (s = returned /\ returned # None /\ m = n + 1)
    BY <2>1, EventNames DEF Types
  <2>6. \A s \in Slots : reached[Consumed(s)] <= recorded[Consumed(s)]
    BY <1>0 DEF ConsumedInv
  <2>7. ASSUME NEW s \in Slots, NEW m, At(compute', m, "record", Consumed(s))
        PROVE  /\ reached'[Consumed(s)] < recorded'[Consumed(s)]
               /\ \/ Held(transfer', reached', s)
                  \/ /\ pc' = "launch" /\ s = returned'
                     /\ \A r : At(compute', r, "read", s) => r < m
    <3>1. CASE At(compute, m, "record", Consumed(s))
      BY <1>00, <2>1, <2>2, <2>4, <3>1
    <3>2. CASE s = returned /\ m = n + 1
      <4>1. \A r : At(compute', r, "read", s) => r < m
        BY <2>1, <2>3, <3>2
      <4>2. reached'[Consumed(s)] < recorded'[Consumed(s)]
        BY <1>00, <2>1, <2>2, <2>6, <3>2
      <4> QED
        BY <2>2, <3>2, <4>1, <4>2
    <3> QED
      BY <2>5, <2>7, <3>1, <3>2
  <2>8. ASSUME NEW s \in Slots, NEW l, NEW m, l < m,
               At(compute', l, "record", Consumed(s)), At(compute', m, "record", Consumed(s))
        PROVE  /\ reached'[Consumed(s)] + 2 <= recorded'[Consumed(s)]
               /\ Held(transfer', reached', s) /\ pc' = "launch" /\ s = returned'
               /\ \A r : At(compute', r, "read", s) => r < m
               /\ \A k : At(compute', k, "record", Consumed(s)) => k \in {l, m}
    <3>1. At(compute, l, "record", Consumed(s)) /\ s = returned /\ m = n + 1
      <4>1. CASE At(compute, l, "record", Consumed(s)) /\ At(compute, m, "record", Consumed(s))
        <5>1. l = m /\ l \in Nat
          BY <2>3, <2>4, <4>1
        <5> QED
          BY <2>8, <5>1
      <4>2. CASE l = n + 1
        <5>1. m <= n + 1 /\ m \in Nat
          BY <2>1, <2>3, <2>5, <2>8
        <5> QED
          BY <2>1, <2>8, <4>2, <5>1
      <4> QED
        BY <2>5, <2>8, <4>1, <4>2
    <3>2. Held(transfer, reached, s) /\ reached[Consumed(s)] < recorded[Consumed(s)]
      BY <2>4, <3>1
    <3>3. reached'[Consumed(s)] + 2 <= recorded'[Consumed(s)]
      BY <1>00, <2>1, <2>2, <3>1, <3>2
    <3>4. \A r : At(compute', r, "read", s) => r < m
      BY <2>1, <2>3, <3>1
    <3>5. \A k : At(compute', k, "record", Consumed(s)) => k \in {l, m}
      BY <2>4, <2>5, <3>1
    <3> QED
      BY <2>2, <3>1, <3>2, <3>3, <3>4, <3>5
  <2>9. ASSUME NEW s \in Slots, s = returned', NEW r, At(compute', r, "read", s)
        PROVE  \E m \in DOMAIN compute' : r < m /\ At(compute', m, "record", Consumed(s))
    <3>1. r < n + 1 /\ returned # None
      BY <2>1, <2>2, <2>3, <2>9, EventNames
    <3>2. At(compute', n + 1, "record", Consumed(s))
      BY <2>1, <2>2, <2>9, <3>1
    <3> QED
      BY <3>1, <3>2 DEF At
  <2>10. \A s \in Slots : reached'[Consumed(s)] <= recorded'[Consumed(s)]
    BY <1>00, <2>1, <2>2, <2>6
  <2> QED
    BY <2>7, <2>8, <2>9, <2>10 DEF ConsumedInv
<1>7. CASE Use
  <2> DEFINE read == [kind |-> "read", of |-> returned, n |-> consumed - 1]
             n == Len(compute)
  <2>1. /\ compute' = Append(compute, read) /\ read \in ComputeOps /\ read.kind = "read"
        /\ pc = "use" /\ pc' = "stepEnd" /\ UNCHANGED <<events, transfer>>
    BY <1>7, UseQueue DEF Use
  <2> HIDE DEF read
  <2>2. \A m, of : At(compute', m, "record", of) <=> At(compute, m, "record", of)
    BY <1>00, <2>1, AtAppend
  <2>3. ASSUME NEW s \in Slots, NEW m, At(compute, m, "record", Consumed(s))
        PROVE  Held(transfer, reached, s) /\ reached[Consumed(s)] < recorded[Consumed(s)]
    <3>1. m \in DOMAIN compute
      BY <2>3 DEF At
    <3> QED
      BY <1>0, <2>1, <2>3, <3>1 DEF ConsumedInv
  <2>4. ASSUME NEW s \in Slots, NEW l, NEW m, l < m,
               At(compute, l, "record", Consumed(s)), At(compute, m, "record", Consumed(s))
        PROVE  FALSE
    <3>1. l \in DOMAIN compute /\ m \in DOMAIN compute
      BY <2>4 DEF At
    <3> QED
      BY <1>0, <2>1, <2>4, <3>1 DEF ConsumedInv
  <2>5. \A s \in Slots : reached[Consumed(s)] <= recorded[Consumed(s)]
    BY <1>0 DEF ConsumedInv
  <2> QED
    BY <2>1, <2>2, <2>3, <2>4, <2>5 DEF ConsumedInv
<1>8. CASE ComputeStream
  <2>1. compute # <<>> /\ compute' = Tail(compute) /\ UNCHANGED <<recorded, transfer, pc, returned>>
    BY <1>8 DEF ComputeStream, ReadBatch, ComputeEvent, Runs
  <2>2. /\ Head(compute) = compute[1] /\ 1 \in DOMAIN compute /\ Head(compute) \in ComputeOps
        /\ \A m \in DOMAIN compute' : m \in Nat /\ m >= 1 /\ m + 1 \in DOMAIN compute
        /\ \A m \in DOMAIN compute : m # 1 => m - 1 \in DOMAIN compute' /\ (m - 1) + 1 = m
        /\ \A m \in DOMAIN compute' : \A kind, of : At(compute', m, kind, of) <=> At(compute, m + 1, kind, of)
    BY <1>00, <2>1, AtTail
  <2>3. ASSUME NEW s \in Slots, pc' = "launch", s = returned',
               NEW r \in DOMAIN compute', At(compute', r, "read", s)
        PROVE  \E m \in DOMAIN compute' : r < m /\ At(compute', m, "record", Consumed(s))
    <3>1. At(compute, r + 1, "read", s) /\ r + 1 \in DOMAIN compute /\ r \in Nat /\ r >= 1
      BY <2>2, <2>3
    <3>2. PICK m \in DOMAIN compute : r + 1 < m /\ At(compute, m, "record", Consumed(s))
      BY <1>0, <2>1, <2>3, <3>1 DEF ConsumedInv
    <3>3. m \in Nat /\ m # 1
      BY <1>00, <3>1, <3>2
    <3>4. m - 1 \in DOMAIN compute' /\ (m - 1) + 1 = m /\ r < m - 1
      BY <2>2, <3>1, <3>2, <3>3
    <3>5. At(compute', m - 1, "record", Consumed(s))
      BY <2>2, <3>2, <3>4
    <3> QED
      BY <3>4, <3>5
  \* A slot whose record of Consumed is not the one that runs.
  <2>4. ASSUME NEW s \in Slots, reached'[Consumed(s)] = reached[Consumed(s)]
        PROVE  /\ Held(transfer', reached', s) <=> Held(transfer, reached, s)
               /\ reached'[Consumed(s)] <= recorded'[Consumed(s)]
               /\ \A m \in DOMAIN compute' : At(compute', m, "record", Consumed(s)) =>
                    /\ reached'[Consumed(s)] < recorded'[Consumed(s)]
                    /\ \/ Held(transfer', reached', s)
                       \/ /\ pc' = "launch" /\ s = returned'
                          /\ \A r \in DOMAIN compute' : At(compute', r, "read", s) => r < m
               /\ \A l, m \in DOMAIN compute' :
                    l < m /\ At(compute', l, "record", Consumed(s)) /\ At(compute', m, "record", Consumed(s)) =>
                      /\ reached'[Consumed(s)] + 2 <= recorded'[Consumed(s)]
                      /\ Held(transfer', reached', s) /\ pc' = "launch" /\ s = returned'
                      /\ \A r \in DOMAIN compute' : At(compute', r, "read", s) => r < m
                      /\ \A k \in DOMAIN compute' : At(compute', k, "record", Consumed(s)) => k \in {l, m}
    <3>1. Held(transfer', reached', s) <=> Held(transfer, reached, s)
      BY <2>1, <2>4 DEF Held
    <3>2. reached'[Consumed(s)] <= recorded'[Consumed(s)]
      BY <1>0, <2>1, <2>4 DEF ConsumedInv
    <3>3. ASSUME NEW m \in DOMAIN compute', At(compute', m, "record", Consumed(s))
          PROVE  /\ reached'[Consumed(s)] < recorded'[Consumed(s)]
                 /\ \/ Held(transfer', reached', s)
                    \/ /\ pc' = "launch" /\ s = returned'
                       /\ \A r \in DOMAIN compute' : At(compute', r, "read", s) => r < m
      <4>1. At(compute, m + 1, "record", Consumed(s)) /\ m + 1 \in DOMAIN compute
        BY <2>2, <3>3
      <4>2. /\ reached[Consumed(s)] < recorded[Consumed(s)]
            /\ \/ Held(transfer, reached, s)
               \/ /\ pc = "launch" /\ s = returned
                  /\ \A r \in DOMAIN compute : At(compute, r, "read", s) => r < m + 1
        BY <1>0, <4>1 DEF ConsumedInv
      <4>3. ASSUME \A r \in DOMAIN compute : At(compute, r, "read", s) => r < m + 1
            PROVE  \A r \in DOMAIN compute' : At(compute', r, "read", s) => r < m
        <5>1. ASSUME NEW r \in DOMAIN compute', At(compute', r, "read", s) PROVE r < m
          <6>1. r + 1 < m + 1
            BY <2>2, <4>3, <5>1
          <6> QED
            BY <2>2, <3>3, <5>1, <6>1
        <5> QED
          BY <5>1
      <4> QED
        BY <2>1, <2>4, <3>1, <4>2, <4>3
    <3>4. ASSUME NEW l \in DOMAIN compute', NEW m \in DOMAIN compute', l < m,
                 At(compute', l, "record", Consumed(s)), At(compute', m, "record", Consumed(s))
          PROVE  /\ reached'[Consumed(s)] + 2 <= recorded'[Consumed(s)]
                 /\ Held(transfer', reached', s) /\ pc' = "launch" /\ s = returned'
                 /\ \A r \in DOMAIN compute' : At(compute', r, "read", s) => r < m
                 /\ \A k \in DOMAIN compute' : At(compute', k, "record", Consumed(s)) => k \in {l, m}
      <4>1. /\ At(compute, l + 1, "record", Consumed(s)) /\ l + 1 \in DOMAIN compute
            /\ At(compute, m + 1, "record", Consumed(s)) /\ m + 1 \in DOMAIN compute
            /\ l + 1 < m + 1 /\ l \in Nat /\ m \in Nat
        BY <2>2, <3>4
      <4>2. /\ reached[Consumed(s)] + 2 <= recorded[Consumed(s)]
            /\ Held(transfer, reached, s) /\ pc = "launch" /\ s = returned
            /\ \A r \in DOMAIN compute : At(compute, r, "read", s) => r < m + 1
            /\ \A k \in DOMAIN compute : At(compute, k, "record", Consumed(s)) => k \in {l + 1, m + 1}
        BY <1>0, <4>1 DEF ConsumedInv
      <4>3. ASSUME NEW r \in DOMAIN compute', At(compute', r, "read", s) PROVE r < m
        <5>1. r + 1 < m + 1 /\ r \in Nat
          BY <2>2, <4>2, <4>3
        <5> QED
          BY <4>1, <5>1
      <4>4. ASSUME NEW k \in DOMAIN compute', At(compute', k, "record", Consumed(s)) PROVE k \in {l, m}
        <5>1. k + 1 \in {l + 1, m + 1} /\ k \in Nat
          BY <2>2, <4>2, <4>4
        <5> QED
          BY <4>1, <5>1
      <4> QED
        BY <2>1, <2>4, <3>1, <4>2, <4>3, <4>4
    <3> QED
      BY <3>1, <3>2, <3>3, <3>4
  <2>5. CASE \A s \in Slots : reached'[Consumed(s)] = reached[Consumed(s)]
    BY <2>3, <2>4, <2>5 DEF ConsumedInv
  <2>6. ASSUME NEW d \in Slots, At(compute, 1, "record", Consumed(d)),
               reached' = [reached EXCEPT ![Consumed(d)] = @ + 1]
        PROVE  ConsumedInv'
    <3>1. reached'[Consumed(d)] = reached[Consumed(d)] + 1
          /\ \A s \in Slots : s # d => reached'[Consumed(s)] = reached[Consumed(s)]
      BY <2>6, EventNames DEF Types
    <3>2. reached[Consumed(d)] < recorded[Consumed(d)]
      BY <1>0, <2>2, <2>6 DEF ConsumedInv
    <3>3. reached'[Consumed(d)] <= recorded'[Consumed(d)]
      BY <1>00, <2>1, <3>1, <3>2
    <3>4. ASSUME NEW m \in DOMAIN compute', At(compute', m, "record", Consumed(d))
          PROVE  /\ reached'[Consumed(d)] < recorded'[Consumed(d)]
                 /\ pc' = "launch" /\ d = returned'
                 /\ \A r \in DOMAIN compute' : At(compute', r, "read", d) => r < m
                 /\ \A k \in DOMAIN compute' : At(compute', k, "record", Consumed(d)) => k = m
      <4>1. At(compute, m + 1, "record", Consumed(d)) /\ m + 1 \in DOMAIN compute /\ 1 < m + 1 /\ m \in Nat
        BY <2>2, <3>4
      <4>2. /\ reached[Consumed(d)] + 2 <= recorded[Consumed(d)]
            /\ pc = "launch" /\ d = returned
            /\ \A r \in DOMAIN compute : At(compute, r, "read", d) => r < m + 1
            /\ \A k \in DOMAIN compute : At(compute, k, "record", Consumed(d)) => k \in {1, m + 1}
        BY <1>0, <2>2, <2>6, <4>1 DEF ConsumedInv
      <4>3. reached'[Consumed(d)] < recorded'[Consumed(d)]
        BY <1>00, <2>1, <3>1, <4>2
      <4>4. ASSUME NEW r \in DOMAIN compute', At(compute', r, "read", d) PROVE r < m
        <5>1. r + 1 < m + 1 /\ r \in Nat
          BY <2>2, <4>2, <4>4
        <5> QED
          BY <4>1, <5>1
      <4>5. ASSUME NEW k \in DOMAIN compute', At(compute', k, "record", Consumed(d)) PROVE k = m
        <5>1. k + 1 \in {1, m + 1} /\ k \in Nat /\ k >= 1
          BY <2>2, <4>2, <4>5
        <5> QED
          BY <4>1, <5>1
      <4> QED
        BY <2>1, <4>2, <4>3, <4>4, <4>5
    <3>5. \A l, m \in DOMAIN compute' :
            ~(l < m /\ At(compute', l, "record", Consumed(d)) /\ At(compute', m, "record", Consumed(d)))
      <4>1. \A l, m \in DOMAIN compute' :
              At(compute', l, "record", Consumed(d)) /\ At(compute', m, "record", Consumed(d)) => l = m
        BY <3>4
      <4> QED
        BY <2>2, <4>1
    <3> QED
      BY <2>3, <2>4, <3>1, <3>3, <3>4, <3>5 DEF ConsumedInv
  <2> QED
    <3>1. CASE ReadBatch \/ (ComputeEvent /\ Head(compute).kind = "wait")
      BY <2>5, <3>1 DEF ReadBatch, ComputeEvent
    <3>2. CASE ComputeEvent /\ Head(compute).kind # "wait"
      <4>1. PICK d \in Slots : Head(compute).of = Consumed(d)
        BY <2>2, <3>2 DEF ComputeEvent, Runs, ComputeOps
      <4>2. At(compute, 1, "record", Consumed(d))
        BY <2>2, <3>2, <4>1 DEF ComputeEvent, Runs, At
      <4>3. reached' = [reached EXCEPT ![Consumed(d)] = @ + 1]
        BY <3>2, <4>1 DEF ComputeEvent
      <4> QED
        BY <2>6, <4>2, <4>3
    <3> QED
      BY <1>8, <3>1, <3>2 DEF ComputeStream
<1>9. CASE Restart
  <2>1. /\ compute' = <<>> /\ recorded' = [e \in Events |-> 0] /\ reached' = [e \in Events |-> 0]
    BY <1>9 DEF Restart
  <2>2. \A s \in Slots : reached'[Consumed(s)] <= recorded'[Consumed(s)]
    BY <2>1, EventNames
  <2> QED
    BY <2>1, <2>2 DEF ConsumedInv
<1> QED
  BY <1>2, <1>3, <1>4, <1>5, <1>6, <1>7, <1>8, <1>9 DEF Next, Host

\* Whatever came after the copy still does when nothing new is copied to the slot
\* and the operation at the head of the compute stream has run.
LEMMA AfterRuns ==
  ASSUME Types, TransferInv, ComputeStream, NEW s \in Slots, NEW m \in Nat,
         After(transfer, compute, recorded, s, m + 1)
  PROVE  After(transfer', compute', recorded', s, m)
<1> USE DEF runtime, buffers, events, streams, disk
<1>1. /\ compute \in Seq(ComputeOps) /\ compute # <<>> /\ compute' = Tail(compute)
      /\ UNCHANGED <<recorded, transfer>>
  BY DEF Types, ComputeStream, ReadBatch, ComputeEvent, Runs
<1>2. Pending(transfer, s) =>
        ~(Head(compute).kind = "wait" /\ Head(compute).of = Ready(s)
            /\ Head(compute).n >= recorded[Ready(s)])
  <2> SUFFICES ASSUME Pending(transfer, s), Head(compute).kind = "wait",
                      Head(compute).of = Ready(s)
               PROVE  ~(Head(compute).n >= recorded[Ready(s)])
    OBVIOUS
  <2>1. reached[Ready(s)] < recorded[Ready(s)]
    BY PendingCopy
  <2>2. reached[Ready(s)] >= Head(compute).n
    BY DEF ComputeStream, ReadBatch, ComputeEvent, Runs
  <2>3. Head(compute) \in ComputeOps
    BY <1>1, QueueDomain
  <2>4. reached[Ready(s)] \in Nat /\ recorded[Ready(s)] \in Nat /\ Head(compute).n \in Nat
    BY <2>3, EventNames DEF Types, ComputeOps
  <2> QED
    BY <2>1, <2>2, <2>4
<1>3. After(transfer, Tail(compute), recorded, s, m)
  BY <1>1, <1>2, AfterTail
<1> QED
  BY <1>1, <1>3

LEMMA ReadStep ==
  ASSUME Types, Types', HostInv, StreamInv, [Next]_vars
  PROVE  ReadInv'
<1> USE DEF runtime, buffers, events, streams, disk
<1>0. TransferInv /\ ConsumedInv /\ ReadInv /\ ViewInv
  BY DEF StreamInv
<1>00. /\ compute \in Seq(ComputeOps) /\ DOMAIN compute = 1 .. Len(compute) /\ Len(compute) \in Nat
       /\ \A m \in DOMAIN compute : m \in Nat
  <2>1. compute \in Seq(ComputeOps)
    BY DEF Types
  <2>2. DOMAIN compute = 1 .. Len(compute) /\ Len(compute) \in Nat
    BY <2>1, QueueDomain
  <2> QED
    BY <2>1, <2>2
\* Steps that enqueue nothing.
<1>1. ASSUME compute' = compute, returned # None => returned' # None,
             \A s \in Slots : /\ host'[s] = host[s]
                              /\ recorded'[Ready(s)] = recorded[Ready(s)]
                              /\ Pending(transfer', s) => Pending(transfer, s)
                              /\ Held(transfer, reached, s) => /\ Held(transfer', reached', s)
                                                               /\ device'[s] = device[s]
      PROVE  ReadInv'
  <2> SUFFICES ASSUME NEW s \in Slots, NEW m \in DOMAIN compute', At(compute', m, "read", s),
                      setup' = setup
               PROVE  /\ returned' # None
                      /\ \/ /\ host'[s] = BatchOf(setup', compute'[m].n)
                            /\ After(transfer', compute', recorded', s, m)
                         \/ /\ device'[s] = BatchOf(setup', compute'[m].n)
                            /\ Held(transfer', reached', s)
                            /\ \A l \in DOMAIN compute' : At(compute', l, "record", Consumed(s)) => m < l
    <3>1. setup' = setup
      BY SetupStays
    <3> QED
      BY <3>1 DEF ReadInv
  <2>1. At(compute, m, "read", s) /\ m \in DOMAIN compute
    BY <1>1
  <2>2. returned # None
    BY <1>0, <2>1 DEF ReadInv
  <2>3. CASE host[s] = BatchOf(setup, compute[m].n) /\ After(transfer, compute, recorded, s, m)
    <3>1. After(transfer', compute', recorded', s, m)
      BY <1>1, <2>3 DEF After
    <3> QED
      BY <1>1, <2>2, <2>3, <3>1
  <2>4. CASE /\ device[s] = BatchOf(setup, compute[m].n)
             /\ Held(transfer, reached, s)
             /\ \A l \in DOMAIN compute : At(compute, l, "record", Consumed(s)) => m < l
    BY <1>1, <2>2, <2>4
  <2> QED
    BY <1>0, <2>1, <2>3, <2>4 DEF ReadInv
<1>2. CASE Save \/ EndStep \/ Finished \/ UNCHANGED vars
  BY <1>1, <1>2 DEF Save, EndStep, Finished, vars
<1>3. CASE TransferStream
  BY <1>0, <1>1, <1>3, TransferLeaves
<1>4. CASE Prime
  <2>1. returned = None /\ compute' = compute
    BY <1>4 DEF Prime, HostInv
  <2> QED
    BY <1>0, <2>1 DEF ReadInv
<1>5. CASE Launch
  <2> DEFINE slot == 1 - nextSlot
             behind == IF returned = None THEN transfer
                       ELSE Append(transfer, WaitFor(Consumed(returned)))
  <2>1. /\ EnqueuesCopy(slot, behind) /\ pc = "launch" /\ slot \in Slots
        /\ slotInit[slot] => reached[Ready(slot)] = recorded[Ready(slot)]
        /\ returned # None => returned = slot /\ slotInit[slot] /\ returned \in Slots
        /\ returned' = nextSlot /\ nextSlot \in Slots /\ None \notin Slots
    BY <1>0, <1>5, LaunchEnqueues, EventNames DEF Launch, HostInv, Types
  <2>2. /\ UNCHANGED <<device, reached, compute, setup>>
        /\ \A u \in Slots : u # slot => /\ host'[u] = host[u]
                                        /\ recorded'[Ready(u)] = recorded[Ready(u)]
        /\ \A u \in Slots : recorded'[Consumed(u)] = recorded[Consumed(u)]
    <3> HIDE DEF slot, behind
    <3>1. UNCHANGED <<device, reached, compute, setup>>
      BY <2>1, SetupStays DEF EnqueuesCopy
    <3>2. recorded' = [recorded EXCEPT ![Ready(slot)] = @ + 1] /\ recorded \in [Events -> Nat]
      BY <2>1 DEF EnqueuesCopy, Types
    <3>3. /\ \A u \in Slots : u # slot => recorded'[Ready(u)] = recorded[Ready(u)]
          /\ \A u \in Slots : recorded'[Consumed(u)] = recorded[Consumed(u)]
      BY <2>1, <3>2, EventNames
    <3>4. \A u \in Slots : u # slot => host'[u] = host[u]
      BY <2>1 DEF EnqueuesCopy
    <3> QED
      BY <3>1, <3>3, <3>4
  <2>3. /\ \A x, u : Held(transfer, x, u) => Held(transfer', x, u)
        /\ \A u : Pending(transfer', u) <=> Pending(transfer, u) \/ u = slot
        /\ behind # transfer =>
             \A x : recorded[Consumed(slot)] > x[Consumed(slot)] => Held(transfer', x, slot)
    BY <2>1, EnqueuesAt
  <2>4. returned # None => behind # transfer
    <3>1. ASSUME returned # None PROVE Len(behind) # Len(transfer)
      <4>1. transfer \in Seq(TransferOps) /\ WaitFor(Consumed(returned)) \in TransferOps
        BY <2>1, <3>1, OpTypes DEF Types
      <4> QED
        BY <3>1, <4>1
    <3> QED
      BY <3>1
  <2> HIDE DEF behind
  <2>5. ~Pending(transfer, slot) /\ ~Held(transfer, reached, slot)
    <3>1. /\ Held(transfer, reached, slot) => Pending(transfer, slot)
          /\ Pending(transfer, slot) => reached[Ready(slot)] < recorded[Ready(slot)] /\ slotInit[slot]
      BY <1>0, <2>1, PendingCopy
    <3>2. reached[Ready(slot)] \in Nat /\ recorded[Ready(slot)] \in Nat
      BY <2>1, EventNames DEF Types
    <3> QED
      BY <2>1, <3>1, <3>2
  <2> HIDE DEF slot
  <2> SUFFICES ASSUME NEW s \in Slots, NEW m \in DOMAIN compute, At(compute, m, "read", s)
               PROVE  \/ /\ host'[s] = BatchOf(setup, compute[m].n)
                         /\ After(transfer', compute', recorded', s, m)
                      \/ /\ device[s] = BatchOf(setup, compute[m].n)
                         /\ Held(transfer', reached, s)
                         /\ \A l \in DOMAIN compute : At(compute, l, "record", Consumed(s)) => m < l
    BY <2>1, <2>2 DEF ReadInv
  <2>6. /\ returned # None
        /\ \/ /\ host[s] = BatchOf(setup, compute[m].n)
              /\ After(transfer, compute, recorded, s, m)
           \/ /\ device[s] = BatchOf(setup, compute[m].n)
              /\ Held(transfer, reached, s)
              /\ \A l \in DOMAIN compute : At(compute, l, "record", Consumed(s)) => m < l
    BY <1>0 DEF ReadInv
  <2>7. CASE s # slot
    <3>1. CASE /\ host[s] = BatchOf(setup, compute[m].n)
               /\ After(transfer, compute, recorded, s, m)
      <4>1. After(transfer', compute', recorded', s, m)
        BY <2>2, <2>3, <2>7, <3>1 DEF After
      <4> QED
        BY <2>2, <2>7, <3>1, <4>1
    <3> QED
      BY <2>3, <2>6, <3>1
  <2>8. CASE s = slot
    <3>1. /\ host[s] = BatchOf(setup, compute[m].n) /\ returned # None /\ returned = s
      BY <2>1, <2>5, <2>6, <2>8
    <3>2. device[s] = host[s]
      BY <1>0, <2>1, <2>5, <2>8, <3>1 DEF TransferInv
    <3>3. PICK k \in DOMAIN compute : m < k /\ At(compute, k, "record", Consumed(s))
      BY <1>0, <2>1, <3>1 DEF ConsumedInv
    <3>4. Held(transfer', reached, s)
      <4>1. reached[Consumed(s)] < recorded[Consumed(s)]
        BY <1>0, <3>3 DEF ConsumedInv
      <4>2. reached[Consumed(s)] \in Nat /\ recorded[Consumed(s)] \in Nat
        BY EventNames DEF Types
      <4>3. recorded[Consumed(slot)] > reached[Consumed(slot)]
        BY <2>8, <4>1, <4>2
      <4> QED
        BY <2>3, <2>4, <2>8, <3>1, <4>3
    <3>5. \A l \in DOMAIN compute : At(compute, l, "record", Consumed(s)) => m < l
      <4> SUFFICES ASSUME NEW l \in DOMAIN compute, At(compute, l, "record", Consumed(s))
                   PROVE  m < l
        OBVIOUS
      <4>1. \A r \in DOMAIN compute : At(compute, r, "read", s) => r < l
        BY <1>0, <2>5, <2>8 DEF ConsumedInv
      <4> QED
        BY <4>1
    <3> QED
      BY <3>1, <3>2, <3>4, <3>5
  <2> QED
    BY <2>7, <2>8
<1>6. CASE HandOut
  <2> DEFINE n == Len(compute)
             w == Len(compute')
  <2>1. /\ n \in Nat /\ w \in Nat /\ DOMAIN compute = 1 .. n
        /\ \A m, of : At(compute', m, "read", of) <=> At(compute, m, "read", of)
        /\ \A m, of : At(compute', m, "record", of) =>
             At(compute, m, "record", of) \/ m = n + 1
        /\ \A m \in DOMAIN compute : compute'[m] = compute[m]
        /\ \A s \in Slots : recorded'[Ready(s)] = recorded[Ready(s)]
        /\ \A copies, s : \A m \in Nat :
             After(copies, compute, recorded, s, m) => After(copies, compute', recorded, s, m)
    BY <1>6, HandOutAt
  <2> HIDE DEF n, w
  <2>2. UNCHANGED <<returned, transfer, reached, host, device, setup>>
    BY <1>6 DEF HandOut
  <2> SUFFICES ASSUME NEW s \in Slots, NEW m, At(compute, m, "read", s)
               PROVE  /\ returned # None
                      /\ \/ /\ host[s] = BatchOf(setup, compute'[m].n)
                            /\ After(transfer, compute', recorded', s, m)
                         \/ /\ device[s] = BatchOf(setup, compute'[m].n)
                            /\ Held(transfer, reached, s)
                            /\ \A l \in DOMAIN compute' : At(compute', l, "record", Consumed(s)) => m < l
    BY <2>1, <2>2 DEF ReadInv
  <2>3. m \in DOMAIN compute /\ m \in Nat /\ m < n + 1 /\ compute'[m] = compute[m]
    BY <2>1 DEF At
  <2>4. /\ returned # None
        /\ \/ /\ host[s] = BatchOf(setup, compute[m].n)
              /\ After(transfer, compute, recorded, s, m)
           \/ /\ device[s] = BatchOf(setup, compute[m].n)
              /\ Held(transfer, reached, s)
              /\ \A l \in DOMAIN compute : At(compute, l, "record", Consumed(s)) => m < l
    BY <1>0, <2>3 DEF ReadInv
  <2>5. After(transfer, compute, recorded, s, m) => After(transfer, compute', recorded', s, m)
    <3>1. After(transfer, compute, recorded, s, m) => After(transfer, compute', recorded, s, m)
      BY <2>1, <2>3
    <3>2. After(transfer, compute', recorded, s, m) => After(transfer, compute', recorded', s, m)
      BY <2>1 DEF After
    <3> QED
      BY <3>1, <3>2
  <2>6. ASSUME \A l \in DOMAIN compute : At(compute, l, "record", Consumed(s)) => m < l
        PROVE  \A l \in DOMAIN compute' : At(compute', l, "record", Consumed(s)) => m < l
    <3>1. \A l : At(compute, l, "record", Consumed(s)) => l \in DOMAIN compute
      BY DEF At
    <3> QED
      BY <2>1, <2>3, <2>6, <3>1
  <2> QED
    BY <2>3, <2>4, <2>5, <2>6
<1>7. CASE Use
  <2> DEFINE read == [kind |-> "read", of |-> returned, n |-> consumed - 1]
             n == Len(compute)
  <2>1. /\ compute' = Append(compute, read) /\ read \in ComputeOps
        /\ read.kind = "read" /\ read.of = returned /\ read.n = consumed - 1
        /\ pc = "use" /\ returned = 1 - nextSlot /\ returned # None
        /\ host[returned] = BatchOf(setup, consumed - 1)
        /\ UNCHANGED <<setup, returned, host, device, events, transfer>>
    BY <1>7, UseQueue DEF Use
  <2> HIDE DEF read
  <2>2. /\ n \in Nat /\ DOMAIN compute' = DOMAIN compute \union {n + 1}
        /\ \A m \in DOMAIN compute : compute'[m] = compute[m]
        /\ compute'[n + 1] = read
        /\ \A m, kind, of : At(compute', m, kind, of) <=>
             At(compute, m, kind, of) \/ (m = n + 1 /\ read.kind = kind /\ read.of = of)
    BY <1>00, <2>1, AtAppend
  <2>3. After(transfer, compute, recorded, returned, n + 1)
    BY <1>0, <2>1 DEF ViewInv
  <2> HIDE DEF n
  <2>4. ASSUME NEW s, NEW m \in Nat, After(transfer, compute, recorded, s, m)
        PROVE  After(transfer', compute', recorded', s, m)
    <3>1. m <= m
      OBVIOUS
    <3>2. After(transfer, compute', recorded, s, m)
      BY <1>00, <2>1, <2>4, <3>1, AfterAppend
    <3> QED
      BY <2>1, <3>2
  <2>5. \A l, s : At(compute', l, "record", Consumed(s)) => At(compute, l, "record", Consumed(s))
                                                            /\ l \in DOMAIN compute
    BY <2>1, <2>2 DEF At
  <2>6. ASSUME NEW s \in Slots, NEW m \in DOMAIN compute, At(compute, m, "read", s)
        PROVE  \/ /\ host'[s] = BatchOf(setup', compute'[m].n)
                  /\ After(transfer', compute', recorded', s, m)
               \/ /\ device'[s] = BatchOf(setup', compute'[m].n)
                  /\ Held(transfer', reached', s)
                  /\ \A l \in DOMAIN compute' : At(compute', l, "record", Consumed(s)) => m < l
    <3>1. \/ /\ host[s] = BatchOf(setup, compute[m].n)
             /\ After(transfer, compute, recorded, s, m)
          \/ /\ device[s] = BatchOf(setup, compute[m].n)
             /\ Held(transfer, reached, s)
             /\ \A l \in DOMAIN compute : At(compute, l, "record", Consumed(s)) => m < l
      BY <1>0, <2>6 DEF ReadInv
    <3>2. compute'[m] = compute[m] /\ m \in Nat
      BY <1>00, <2>2
    <3> QED
      BY <2>1, <2>4, <2>5, <3>1, <3>2
  <2>7. /\ host'[returned] = BatchOf(setup', compute'[n + 1].n)
        /\ After(transfer', compute', recorded', returned, n + 1)
    BY <2>1, <2>2, <2>3, <2>4
  <2>8. \A s \in Slots, m \in DOMAIN compute' : At(compute', m, "read", s) =>
          (m \in DOMAIN compute /\ At(compute, m, "read", s)) \/ (m = n + 1 /\ s = returned)
    BY <2>1, <2>2 DEF At
  <2> QED
    BY <2>1, <2>6, <2>7, <2>8 DEF ReadInv
<1>8. CASE ComputeStream
  <2>1. /\ compute # <<>> /\ compute' = Tail(compute)
        /\ UNCHANGED <<setup, returned, host, device, recorded, transfer>>
    BY <1>8 DEF ComputeStream, ReadBatch, ComputeEvent, Runs
  <2>2. /\ Head(compute) = compute[1] /\ 1 \in DOMAIN compute /\ Head(compute) \in ComputeOps
        /\ \A m \in DOMAIN compute' : /\ m \in Nat /\ m >= 1 /\ m + 1 \in DOMAIN compute
                                      /\ compute'[m] = compute[m + 1]
        /\ \A m \in DOMAIN compute' : \A kind, of : At(compute', m, kind, of) <=> At(compute, m + 1, kind, of)
    BY <1>00, <2>1, AtTail
  <2> SUFFICES ASSUME NEW s \in Slots, NEW m \in DOMAIN compute', At(compute', m, "read", s)
               PROVE  /\ returned # None
                      /\ \/ /\ host[s] = BatchOf(setup, compute'[m].n)
                            /\ After(transfer', compute', recorded', s, m)
                         \/ /\ device[s] = BatchOf(setup, compute'[m].n)
                            /\ Held(transfer, reached', s)
                            /\ \A l \in DOMAIN compute' : At(compute', l, "record", Consumed(s)) => m < l
    BY <2>1 DEF ReadInv
  <2>3. At(compute, m + 1, "read", s) /\ m + 1 \in DOMAIN compute /\ m \in Nat /\ m >= 1
        /\ compute'[m] = compute[m + 1]
    BY <2>2
  <2>4. /\ returned # None
        /\ \/ /\ host[s] = BatchOf(setup, compute[m + 1].n)
              /\ After(transfer, compute, recorded, s, m + 1)
           \/ /\ device[s] = BatchOf(setup, compute[m + 1].n)
              /\ Held(transfer, reached, s)
              /\ \A l \in DOMAIN compute : At(compute, l, "record", Consumed(s)) => m + 1 < l
    BY <1>0, <2>3 DEF ReadInv
  <2>5. CASE /\ host[s] = BatchOf(setup, compute[m + 1].n)
             /\ After(transfer, compute, recorded, s, m + 1)
    <3>1. After(transfer', compute', recorded', s, m)
      BY <1>0, <1>8, <2>3, <2>5, AfterRuns
    <3> QED
      BY <2>3, <2>4, <2>5, <3>1
  <2>6. CASE /\ device[s] = BatchOf(setup, compute[m + 1].n)
             /\ Held(transfer, reached, s)
             /\ \A l \in DOMAIN compute : At(compute, l, "record", Consumed(s)) => m + 1 < l
    <3>1. ~At(compute, 1, "record", Consumed(s))
      BY <2>2, <2>3, <2>6
    <3>2. reached'[Consumed(s)] = reached[Consumed(s)]
      <4>1. CASE ReadBatch \/ (ComputeEvent /\ Head(compute).kind = "wait")
        BY <4>1 DEF ReadBatch, ComputeEvent
      <4>2. CASE ComputeEvent /\ Head(compute).kind # "wait"
        <5>1. PICK d \in Slots : Head(compute).of = Consumed(d)
          BY <2>2, <4>2 DEF ComputeEvent, Runs, ComputeOps
        <5>2. At(compute, 1, "record", Consumed(d))
          BY <2>2, <4>2, <5>1 DEF ComputeEvent, Runs, At
        <5>3. reached' = [reached EXCEPT ![Consumed(d)] = @ + 1]
          BY <4>2, <5>1 DEF ComputeEvent
        <5> QED
          BY <3>1, <5>2, <5>3, EventNames DEF Types
      <4> QED
        BY <1>8, <4>1, <4>2 DEF ComputeStream
    <3>3. Held(transfer, reached', s)
      BY <2>6, <3>2 DEF Held
    <3>4. ASSUME NEW l \in DOMAIN compute', At(compute', l, "record", Consumed(s)) PROVE m < l
      <4>1. m + 1 < l + 1 /\ l \in Nat
        BY <2>2, <2>6, <3>4
      <4> QED
        BY <2>3, <4>1
    <3> QED
      BY <2>3, <2>4, <2>6, <3>3, <3>4
  <2> QED
    BY <2>4, <2>5, <2>6
<1>9. CASE Restart
  <2>1. compute' = <<>>
    BY <1>9 DEF Restart
  <2> QED
    BY <2>1 DEF ReadInv
<1> QED
  BY <1>2, <1>3, <1>4, <1>5, <1>6, <1>7, <1>8, <1>9 DEF Next, Host

LEMMA ViewStep ==
  ASSUME Accum = 1, Types, HostInv, StreamInv, [Next]_vars
  PROVE  ViewInv'
<1> USE DEF runtime, buffers, events, streams, disk
<1>0. TransferInv /\ ViewInv
  BY DEF StreamInv
<1>00. /\ compute \in Seq(ComputeOps) /\ Len(compute) \in Nat
       /\ nextSlot \in Slots /\ 1 - nextSlot \in Slots /\ 1 - (1 - nextSlot) = nextSlot
  BY QueueDomain, EventNames DEF Types, Slots
<1>1. CASE Prime \/ Save \/ EndStep \/ Use \/ Restart
  <2>1. pc' \in {"fetch", "stepEnd", "done"}
    <3>1. CASE Use
      BY <3>1, UseQueue
    <3>2. CASE Prime \/ Save \/ EndStep \/ Restart
      BY <3>2 DEF Prime, Save, EndStep, Restart
    <3> QED
      BY <1>1, <3>1, <3>2
  <2> QED
    BY <2>1 DEF ViewInv
<1>2. CASE Finished \/ UNCHANGED vars
  <2>1. UNCHANGED vars
    BY <1>2 DEF Finished
  <2> QED
    BY <1>0, <2>1 DEF ViewInv, vars
<1>3. CASE TransferStream
  <2>1. /\ UNCHANGED <<pc, nextSlot, compute, recorded>>
        /\ \A s \in Slots : Pending(transfer', s) => Pending(transfer, s)
    BY <1>0, <1>3, TransferLeaves
  <2>2. ASSUME NEW s \in Slots, NEW m, After(transfer, compute, recorded, s, m)
        PROVE  After(transfer', compute', recorded', s, m)
    BY <2>1, <2>2 DEF After
  <2> QED
    BY <1>0, <1>00, <2>1, <2>2 DEF ViewInv
<1>4. CASE ComputeStream
  <2>1. compute # <<>> /\ compute' = Tail(compute) /\ UNCHANGED <<pc, nextSlot>>
    BY <1>4 DEF ComputeStream, ReadBatch, ComputeEvent, Runs
  <2>2. (Len(compute') + 1) + 1 = Len(compute) + 1 /\ Len(compute') + 1 \in Nat
    <3>1. Len(Tail(compute)) = Len(compute) - 1 /\ Len(compute) \in Nat \ {0}
      BY <1>00, <2>1, AtTail
    <3> QED
      BY <2>1, <3>1
  <2> DEFINE m == Len(compute') + 1
  <2>3. m \in Nat /\ m + 1 = Len(compute) + 1
    BY <2>2
  <2> HIDE DEF m
  <2>4. \A s \in Slots : After(transfer, compute, recorded, s, Len(compute) + 1)
                            => After(transfer', compute', recorded', s, m)
    BY <1>0, <1>4, <2>3, AfterRuns
  <2>5. \A s \in Slots : After(transfer, compute, recorded, s, Len(compute) + 1)
                            => After(transfer', compute', recorded', s, Len(compute') + 1)
    BY <2>4 DEF m
  <2> QED
    BY <1>0, <1>00, <2>1, <2>5 DEF ViewInv
<1>5. CASE HandOut
  <2> DEFINE w == Len(compute')
  <2>1. /\ w \in Nat /\ At(compute', w, "wait", Ready(nextSlot))
        /\ compute'[w].n = recorded[Ready(nextSlot)]
        /\ recorded'[Ready(nextSlot)] = recorded[Ready(nextSlot)]
    BY <1>00, <1>5, HandOutAt
  <2>2. pc' = "launch" /\ nextSlot' = nextSlot
    BY <1>5 DEF HandOut
  <2>3. recorded[Ready(nextSlot)] \in Nat
    BY <1>00, EventNames DEF Types
  <2> HIDE DEF w
  <2>4. w < w + 1 /\ compute'[w].n >= recorded'[Ready(nextSlot)] /\ w \in DOMAIN compute'
    BY <2>1, <2>3 DEF At
  <2>5. After(transfer', compute', recorded', nextSlot, w + 1)
    BY <2>1, <2>4 DEF After
  <2> QED
    BY <2>2, <2>5 DEF ViewInv, w
<1>6. CASE Launch
  <2> DEFINE slot == 1 - nextSlot
             behind == IF returned = None THEN transfer
                       ELSE Append(transfer, WaitFor(Consumed(returned)))
  <2>1. EnqueuesCopy(slot, behind)
    BY <1>0, <1>6, LaunchEnqueues
  <2>2. pc' = "use" /\ nextSlot' = slot /\ compute' = compute /\ pc = "launch"
    <3>1. Len(views) = 1
      BY <1>6 DEF HostInv, Launch
    <3> QED
      BY <1>6, <3>1 DEF Launch, AfterFetch
  <2>3. \A u : Pending(transfer', u) <=> Pending(transfer, u) \/ u = slot
    BY <2>1, EnqueuesAt
  <2>4. recorded' = [recorded EXCEPT ![Ready(slot)] = @ + 1] /\ recorded \in [Events -> Nat]
    BY <2>1 DEF EnqueuesCopy, Types
  <2>5. slot \in Slots /\ nextSlot # slot /\ 1 - slot = nextSlot
    BY <1>00, EventNames
  <2> HIDE DEF slot, behind
  <2>6. recorded'[Ready(nextSlot)] = recorded[Ready(nextSlot)]
    BY <1>00, <2>4, <2>5, EventNames
  <2>7. After(transfer, compute, recorded, nextSlot, Len(compute) + 1)
    BY <1>0, <2>2 DEF ViewInv
  <2>8. After(transfer', compute', recorded', nextSlot, Len(compute') + 1)
    BY <2>2, <2>3, <2>5, <2>6, <2>7 DEF After
  <2> QED
    BY <2>2, <2>5, <2>8 DEF ViewInv
<1> QED
  BY <1>1, <1>2, <1>3, <1>4, <1>5, <1>6 DEF Next, Host

-----------------------------------------------------------------------------
(* The theorems.                                                           *)

Inv == Types /\ PositionInv /\ HostInv /\ StreamInv

LEMMA Invariance ==
  ASSUME Accum = 1
  PROVE  Spec => []Inv
<1>1. Init => Inv
  BY InitInv DEF Inv
<1>2. Inv /\ [Next]_vars => Inv'
  <2> SUFFICES ASSUME Inv, [Next]_vars PROVE Inv'
    OBVIOUS
  <2>1. Types /\ PositionInv /\ HostInv /\ StreamInv
    BY DEF Inv
  <2>2. Types' /\ PositionInv' /\ HostInv'
    BY <2>1, TypesStep, PositionStep, HostStep
  <2>3. TransferInv'
    BY <2>1, <2>2, TransferStep
  <2>4. ConsumedInv'
    BY <2>1, <2>2, ConsumedStep
  <2>5. ReadInv'
    BY <2>1, <2>2, ReadStep
  <2>6. ViewInv'
    BY <2>1, ViewStep
  <2> QED
    BY <2>2, <2>3, <2>4, <2>5, <2>6 DEF Inv, StreamInv
<1> QED
  BY <1>1, <1>2, PTL DEF Spec

\* With every batch used before the next is fetched, the copy that may run is never
\* into the buffer whose read may run: _launch_prefetch puts the transfer behind the
\* event that the next call records on the compute stream after the batch's last read.
THEOREM BufferReuseIsSafe == Accum = 1 => (Spec => []NeverOverwritesARead)
<1> SUFFICES ASSUME Accum = 1 PROVE Spec => []NeverOverwritesARead
  OBVIOUS
<1>1. Spec => []Inv
  BY Invariance
<1>2. Inv => NeverOverwritesARead
  <2> SUFFICES ASSUME Inv, Runs(compute, "read"), Runs(transfer, "copy"),
                      Head(compute).of = Head(transfer).of
               PROVE  FALSE
    BY DEF NeverOverwritesARead
  <2> DEFINE s == Head(compute).of
  <2>1. /\ Types /\ TransferInv /\ ReadInv
        /\ compute \in Seq(ComputeOps) /\ compute # <<>>
        /\ transfer \in Seq(TransferOps) /\ transfer # <<>>
    BY DEF Inv, StreamInv, Types, Runs
  <2>2. /\ 1 \in DOMAIN compute /\ Head(compute) = compute[1] /\ Head(compute) \in ComputeOps
        /\ DOMAIN compute = 1 .. Len(compute)
        /\ 1 \in DOMAIN transfer /\ Head(transfer) = transfer[1]
    BY <2>1, QueueDomain
  <2>3. s \in Slots
    BY <2>2 DEF Runs, ComputeOps
  <2>4. At(compute, 1, "read", s) /\ At(transfer, 1, "copy", s)
    BY <2>2 DEF At, Runs
  <2> HIDE DEF s
  <2>5. Pending(transfer, s)
    BY <2>2, <2>4 DEF Pending
  <2>6. ~Held(transfer, reached, s)
    BY <2>1, <2>2, <2>3, <2>4, PendingCopy DEF At
  <2>7. ~After(transfer, compute, recorded, s, 1)
    BY <2>2, <2>5 DEF After
  <2> QED
    BY <2>1, <2>2, <2>3, <2>4, <2>6, <2>7 DEF ReadInv
<1> QED
  BY <1>1, <1>2, PTL

\* With every batch used before the next is fetched, the device buffer that the compute
\* stream reads holds the batch that next_batch counted, in every launch, whichever of
\* the three of them is ahead and whether or not a step synchronises.
THEOREM KernelsReadTheirBatch == Accum = 1 => (Spec => []ReadsItsBatch)
<1> SUFFICES ASSUME Accum = 1 PROVE Spec => []ReadsItsBatch
  OBVIOUS
<1>1. Spec => []Inv
  BY Invariance
<1>2. Inv => ReadsItsBatch
  <2> SUFFICES ASSUME Inv, Runs(compute, "read")
               PROVE  device[Head(compute).of] = Batch(Head(compute).n)
    BY DEF ReadsItsBatch
  <2> DEFINE s == Head(compute).of
             k == Head(compute).n
  <2>1. /\ Types /\ TransferInv /\ HostInv /\ ReadInv
        /\ compute \in Seq(ComputeOps) /\ compute # <<>>
    BY DEF Inv, StreamInv, Types, Runs
  <2>2. /\ 1 \in DOMAIN compute /\ Head(compute) = compute[1] /\ Head(compute) \in ComputeOps
        /\ DOMAIN compute = 1 .. Len(compute)
    BY <2>1, QueueDomain
  <2>3. s \in Slots /\ At(compute, 1, "read", s)
    BY <2>2 DEF At, Runs, ComputeOps
  <2>4. BatchOf(setup, k) = Batch(k)
    BY DEF BatchOf, Batch, Needed, StreamLength
  <2>5. compute[1].n = k
    BY <2>2
  <2> HIDE DEF s, k
  <2>6. returned # None
    BY <2>1, <2>2, <2>3 DEF ReadInv
  <2>7. slotInit[s]
    <3>1. s = nextSlot \/ s = 1 - nextSlot
      BY <2>1, <2>3, EventNames DEF Types
    <3> QED
      BY <2>1, <2>6, <3>1 DEF HostInv
  <2>8. CASE host[s] = BatchOf(setup, k) /\ After(transfer, compute, recorded, s, 1)
    <3>1. ~Pending(transfer, s)
      BY <2>2, <2>8 DEF After
    <3>2. device[s] = host[s]
      BY <2>1, <2>3, <2>7, <3>1 DEF TransferInv
    <3> QED
      BY <2>4, <2>8, <3>2 DEF s, k
  <2>9. CASE device[s] = BatchOf(setup, k)
    BY <2>4, <2>9 DEF s, k
  <2> QED
    BY <2>1, <2>2, <2>3, <2>5, <2>8, <2>9 DEF ReadInv
<1> QED
  BY <1>1, <1>2, PTL
=============================================================================
