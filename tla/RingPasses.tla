----------------------------- MODULE RingPasses -----------------------------
(***************************************************************************)
(* The ring passes of context-parallel attention.  Every rank sends to its *)
(* left neighbour and receives from its right one while it computes on the *)
(* packet it already holds:                                                *)
(*   forward   K/V shards travel round the ring, three buffers per rank;   *)
(*   backward  K/V and the gradient accumulated for it travel together,    *)
(*             in two buffer pairs, until the gradient reaches its owner;  *)
(*   query     (DFlash) queries travel instead, past resident K/V;         *)
(*   reduce    the per-owner payloads are summed while they travel home.   *)
(*                                                                         *)
(* A step posts its exchange on the communication stream, which first      *)
(* waits for everything the compute stream did before; the transfer out,   *)
(* the transfer in and the computation then run in any order, and the step *)
(* ends when all three are done.  A pair of ranks matches its sends and    *)
(* receives in the order they were posted.                                 *)
(***************************************************************************)
EXTENDS Integers, Sequences

CONSTANTS
  RingSizes,  \* how many ranks a context ring may have
  Iterations  \* the sequences of passes an iteration may run

ASSUME RingAssumption == RingSizes \subseteq Nat \ {0, 1}
ASSUME PassAssumption ==
  \A p \in Iterations :
    p \in Seq({"forward", "backward", "query", "reduce"}) /\ p # <<>>
\* An iteration is one layer: going back follows the forward pass that retained its
\* shards, and what is summed on its way home is what the query pass before it
\* computed.  Several layers, all forward before any goes back, are left out.
ASSUME LayerAssumption ==
  \A p \in Iterations : \A i \in DOMAIN p :
    /\ p[i] = "backward" => i > 1 /\ p[i - 1] = "forward"
    /\ p[i] = "reduce" => i > 1 /\ p[i - 1] = "query"

VARIABLES
  N,                    \* ranks of this ring
  passes,               \* the passes of this iteration, in order
  rendezvous,           \* a transfer starts only when both sides have posted it
  pass, step,           \* where each rank is
  sent, got, computed,  \* what is done of its current step
  mem,                  \* its buffers
  chan                  \* chan[r]: packets on their way from r to Left(r)

setting == <<N, passes, rendezvous>>
flags == <<sent, got, computed>>
vars == <<setting, pass, step, flags, mem, chan>>

AllRanks == UNION {0 .. n - 1 : n \in RingSizes}
Ranks == 0 .. N - 1
Left(r) == (r - 1) % N
Right(r) == (r + 1) % N

At(r) == IF pass[r] <= Len(passes) THEN passes[pass[r]] ELSE "done"

-----------------------------------------------------------------------------
(* Buffers.  A buffer holds a tensor of some owner: its rows, or a sum to  *)
(* which every rank has contributed so many times.                         *)

Nothing == [r \in Ranks |-> 0]
Only(r) == [q \in Ranks |-> IF q = r THEN 1 ELSE 0]
Everyone == [r \in Ranks |-> 1]
Tensor(owner, sum) == [owner |-> owner, sum |-> sum]
Uninitialized == Tensor(N, Nothing)
Rows(owner) == Tensor(owner, Nothing)
Plus(a, b) == Tensor(a.owner, [r \in Ranks |-> a.sum[r] + b.sum[r]])

Places == ({"initial", "start", "scratch", "packet", "recv", "local"} \X {0})
  \union ({"kv", "grad", "receive"} \X {0, 1})
  \union ({"chunk"} \X AllRanks)

\* The exchanges or shards of a pass.
Steps(p) == IF p = "reduce" THEN N - 1 ELSE N

\* The shard a rank works on in step k: its own first going forward, its right
\* neighbour's first going back, since that is what the forward pass retained.
Owner(p, r, k) ==
  (r + k + (IF p \in {"forward", "query"} THEN 0 ELSE 1)) % N

\* Mutant: a rank skips the exchange after which it would hold shard 0.
ExchangeUnlessZero(p, r, k) ==
  p \in {"forward", "query"} => Owner(p, r, k + 1) # 0

\* The forward passes need nothing more after the last shard.
Exchanges(p, r, k) == p \in {"forward", "query"} => k # N - 1

\* Mutant: the packet is received over the one that is being sent.
ReceiveInPlace(p, r, k) ==
  CASE p = "forward" -> << <<IF k = 0 THEN "start" ELSE "initial", 0>> >>
    [] p = "query" -> << <<"receive", 0>> >>
    [] p = "reduce" -> << <<"recv", 0>> >>
    [] p = "backward" /\ k = 0 -> << <<"kv", 1>> >>
    [] p = "backward" /\ k = N - 1 -> << <<"grad", N % 2>> >>
    [] OTHER -> << <<"kv", (k + 1) % 2>>, <<"grad", (k + 1) % 2>> >>

\* The buffers a step receives into.
ReceiveInto(p, r, k) ==
  CASE p = "forward" -> << <<IF k = 0 THEN "start"
                             ELSE IF k % 2 = 1 THEN "initial" ELSE "scratch", 0>> >>
    [] p = "query" -> << <<"receive", k % 2>> >>
    [] p = "reduce" -> << <<"recv", 0>> >>
    [] p = "backward" /\ k = 0 -> << <<"kv", 1>> >>
    [] p = "backward" /\ k = N - 1 -> << <<"grad", N % 2>> >>
    [] OTHER -> << <<"kv", (k + 1) % 2>>, <<"grad", (k + 1) % 2>> >>

\* The buffers a step sends; going forward, the packet it also computes on.
SendFrom(p, r, k) ==
  CASE p = "forward" -> IF k = 0 THEN << <<"initial", 0>> >> ELSE ReceiveInto(p, r, k - 1)
    [] p = "query" -> IF k = 0 THEN << <<"packet", 0>> >> ELSE ReceiveInto(p, r, k - 1)
    [] p = "reduce" -> << <<"chunk", Owner(p, r, k)>> >>
    [] p = "backward" /\ k = 0 -> << <<"kv", 0>> >>
    [] p = "backward" /\ k = N - 1 -> << <<"grad", (N - 1) % 2>> >>
    [] OTHER -> << <<"kv", k % 2>>, <<"grad", k % 2>> >>

\* The shard or packet a step computes on.
Current(p, r, k) ==
  IF p = "backward" THEN <<"kv", k % 2>> ELSE SendFrom(p, r, k)[1]

\* What a rank copies into its buffers when it starts a pass.
Prologue(p, r, m) ==
  CASE p = "forward" -> [m EXCEPT ![<<"initial", 0>>] = Rows(r)]
    [] p = "backward" -> [m EXCEPT ![<<"kv", 0>>] = m[<<"start", 0>>]]
    [] p = "query" -> [m EXCEPT ![<<"packet", 0>>] = Rows(r)]
    [] OTHER -> m

-----------------------------------------------------------------------------
(* One step of one rank.                                                   *)

Send(r) ==
  /\ At(r) # "done" /\ Exchanges(At(r), r, step[r]) /\ ~sent[r]
  /\ rendezvous =>
       /\ chan[r] = <<>> /\ ~got[Left(r)]
       /\ pass[Left(r)] = pass[r] /\ step[Left(r)] = step[r]
  /\ LET from == SendFrom(At(r), r, step[r])
     IN chan' = [chan EXCEPT ![r] = Append(@, [i \in DOMAIN from |-> mem[r][from[i]]])]
  /\ sent' = [sent EXCEPT ![r] = TRUE]
  /\ UNCHANGED <<setting, pass, step, got, computed, mem>>

Receive(r) ==
  /\ At(r) # "done" /\ Exchanges(At(r), r, step[r]) /\ ~got[r]
  /\ chan[Right(r)] # <<>>
  /\ LET into == ReceiveInto(At(r), r, step[r])
         packet == Head(chan[Right(r)])
     IN mem' = [mem EXCEPT ![r] = [b \in Places |->
                  IF \E i \in DOMAIN into \cap DOMAIN packet : into[i] = b
                  THEN packet[CHOOSE i \in DOMAIN into : into[i] = b] ELSE mem[r][b]]]
  /\ chan' = [chan EXCEPT ![Right(r)] = Tail(@)]
  /\ got' = [got EXCEPT ![r] = TRUE]
  /\ UNCHANGED <<setting, pass, step, sent, computed>>

\* Attention of the local queries (or of the visiting ones) over a shard: going
\* forward it joins the running softmax, going back it yields the gradient of
\* that shard, and a query packet yields a state that belongs to its origin.
Compute(r) ==
  LET p == At(r) k == step[r]
      rows == mem[r][Current(p, r, k)]
  IN /\ p # "done" /\ ~computed[r]
     /\ mem' = CASE p = "backward" ->
                      [mem EXCEPT ![r][<<"local", 0>>] = Tensor(rows.owner, Only(r))]
                 [] p = "query" ->
                      [mem EXCEPT ![r][<<"chunk", Owner(p, r, k)>>] = Tensor(rows.owner, Only(r))]
                 [] OTHER -> mem
     /\ computed' = [computed EXCEPT ![r] = TRUE]
     /\ UNCHANGED <<setting, pass, step, sent, got, chan>>

\* Mutant: the received payload is added to the chunk just sent.
MergeIntoSent(p, r, k, m) ==
  CASE p = "backward" /\ k = 0 -> [m EXCEPT ![<<"grad", 1>>] = m[<<"local", 0>>]]
    [] p = "backward" /\ k > 0 ->
         [m EXCEPT ![<<"grad", (k + 1) % 2>>] = Plus(@, m[<<"local", 0>>])]
    [] p = "reduce" ->
         [m EXCEPT ![<<"chunk", Owner(p, r, k)>>] = Plus(@, m[<<"recv", 0>>])]
    [] OTHER -> m

\* After the waits, the received sum takes in what this rank computed.
Merge(p, r, k, m) ==
  CASE p = "backward" /\ k = 0 -> [m EXCEPT ![<<"grad", 1>>] = m[<<"local", 0>>]]
    [] p = "backward" /\ k > 0 ->
         [m EXCEPT ![<<"grad", (k + 1) % 2>>] = Plus(@, m[<<"local", 0>>])]
    [] p = "reduce" ->
         [m EXCEPT ![<<"chunk", Owner(p, r, k + 1)>>] = Plus(@, m[<<"recv", 0>>])]
    [] OTHER -> m

\* The end of a step: both requests and the computation are waited for.
EndStep(r) ==
  LET p == At(r) k == step[r]
      merged == Merge(p, r, k, mem[r])
  IN /\ p # "done" /\ computed[r]
     /\ Exchanges(p, r, k) => sent[r] /\ got[r]
     /\ IF k + 1 < Steps(p)
        THEN /\ step' = [step EXCEPT ![r] = k + 1]
             /\ mem' = [mem EXCEPT ![r] = merged]
             /\ UNCHANGED pass
        ELSE /\ step' = [step EXCEPT ![r] = 0]
             /\ pass' = [pass EXCEPT ![r] = @ + 1]
             /\ mem' = [mem EXCEPT ![r] =
                  IF pass[r] = Len(passes) THEN merged
                  ELSE Prologue(passes[pass[r] + 1], r, merged)]
     /\ sent' = [sent EXCEPT ![r] = FALSE]
     /\ got' = [got EXCEPT ![r] = FALSE]
     /\ computed' = [computed EXCEPT ![r] = FALSE]
     /\ UNCHANGED <<setting, chan>>

Finished == (\A r \in Ranks : At(r) = "done") /\ UNCHANGED vars

Init ==
  /\ N \in RingSizes
  /\ passes \in Iterations /\ rendezvous \in BOOLEAN
  /\ pass = [r \in Ranks |-> 1] /\ step = [r \in Ranks |-> 0]
  /\ sent = [r \in Ranks |-> FALSE] /\ got = [r \in Ranks |-> FALSE]
  /\ computed = [r \in Ranks |-> FALSE]
  /\ mem = [r \in Ranks |-> Prologue(passes[1], r, [b \in Places |-> Uninitialized])]
  /\ chan = [r \in Ranks |-> <<>>]

Move(r) == Send(r) \/ Receive(r) \/ Compute(r) \/ EndStep(r)
Next == (\E r \in Ranks : Move(r)) \/ Finished

Spec == Init /\ [][Next]_vars

\* A transfer or a computation that may run on some device is run in the end.
FairSpec == Spec /\ WF_vars(\E r \in Ranks : Move(r))

-----------------------------------------------------------------------------
Tensors == [owner : 0 .. N, sum : [Ranks -> Nat]]

\* Every variable has its type: no rank runs past the last step of a pass.
TypeOK ==
  /\ N \in RingSizes
  /\ passes \in Iterations /\ rendezvous \in BOOLEAN
  /\ pass \in [Ranks -> 1 .. Len(passes) + 1] /\ step \in [Ranks -> 0 .. N - 1]
  /\ sent \in [Ranks -> BOOLEAN] /\ got \in [Ranks -> BOOLEAN]
  /\ computed \in [Ranks -> BOOLEAN]
  /\ mem \in [Ranks -> [Places -> Tensors]]
  /\ chan \in [Ranks -> Seq(Seq(Tensors))]

\* As long as a step may still read its shard, the buffer holds the rows of the
\* owner whose mask and intervals the loop computes with, whatever the
\* neighbours have already sent.
ComputesOnItsOwner ==
  \A r \in Ranks :
    At(r) \in {"forward", "backward", "query"} /\ ~computed[r] =>
      mem[r][Current(At(r), r, step[r])] = Rows(Owner(At(r), r, step[r]))

\* What a neighbour takes from the channel is the exchange it posted: as many
\* tensors, of the owner the receiver's next step computes on, and in the last backward step
\* the receiver's own gradient.
PacketsMatch ==
  \A r \in Ranks :
    At(r) # "done" /\ Exchanges(At(r), r, step[r]) /\ ~got[r] /\ chan[Right(r)] # <<>> =>
      LET packet == Head(chan[Right(r)])
      IN /\ Len(packet) = Len(ReceiveInto(At(r), r, step[r]))
         /\ packet[1].owner = IF At(r) = "backward" /\ step[r] = N - 1 THEN r
                              ELSE Owner(At(r), r, step[r] + 1)

\* Where a rank finds its own sum after the last pass.
Result(r) ==
  mem[r][IF passes[Len(passes)] = "backward" THEN <<"grad", N % 2>> ELSE <<"chunk", r>>]

\* Every rank ends with its own sum, to which every rank contributed once.
OwnersHoldFullSum ==
  \A r \in Ranks : At(r) = "done" => Result(r) = Tensor(r, Everyone)

\* No rank waits for ever, with or without buffered transfers.
AllFinish == <>(\A r \in Ranks : At(r) = "done")
=============================================================================
