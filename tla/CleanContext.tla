---------------------------- MODULE CleanContext ----------------------------
(***************************************************************************)
(* One attention layer of a block-diffusion model whose clean K/V are      *)
(* sharded over the context ranks: the schedule of BlockSchedule says who  *)
(* denoises which block, and then every rank collects the clean keys its   *)
(* rows attend (all at once, owner by owner, or just the window's), adds   *)
(* the keys of the blocks its denoised rows are in, applies the mask to the*)
(* positions it believes they have, and sends their gradients home.  A row *)
(* is a query: a denoised token or a clean one.  Among keys, the denoised  *)
(* token at position p is the number p - seq, a clean one is its position. *)
(***************************************************************************)
EXTENDS BlockSchedule, SequencesExt

CONSTANTS
  Layers,   \* the layers and layouts looked at, see LayerAssumption
  NoLayer   \* the schedule alone

\* The numbers of a set in ascending order.
Ascending(S) ==
  [n \in 1 .. Cardinality(S) |-> CHOOSE x \in S : Cardinality({y \in S : y < x}) = n - 1]

Transports == {"collective", "streaming", "windowed", "pure", "full"}

ASSUME LayerAssumption ==
  \A l \in Layers \ {NoLayer} :
    /\ l.seq \in Nat /\ l.block \in Nat \ {0} /\ l.seq % l.block = 0
    /\ l.cp \in Nat \ {0, 1} /\ l.bp \in Nat \ {0}
    /\ l.bp = 1 \/ l.bp % l.cp = 0          \* pure or fused context parallelism
    /\ l.seq >= 2 * l.cp
    /\ l.layout \in {"dual_chunk", "contiguous"} /\ l.transport \in Transports
    \* "packed": denoised and clean rows together; a model whose clean stream
    \* is causal has a pass of its own for each.
    /\ l.pass \in {"packed", "clean", "noisy"}
    /\ l.window \in Nat                     \* 0: no sliding window
    /\ l.start \in 0 .. l.seq - 1           \* decoder_response_start
    /\ l.packed \in BOOLEAN                 \* heads of 256: see ActiveChunk
    /\ l.bp = 1 <=> l.transport \in {"pure", "full"}
    \* What the builders of layouts and plans raise on, and the layout that the
    \* exchange plan assumes (the run specification allows no other).
    /\ l.transport = "pure" => l.block % l.cp = 0
    /\ l.transport = "windowed" => l.layout = "dual_chunk" /\ l.window > 0
    \* The packed mask knows neither a window nor a response.
    /\ l.pass = "packed" => l.transport # "windowed" /\ l.window = 0 /\ l.start = 0
    /\ l.transport = "full" => l.pass = "packed"

VARIABLES
  layer,    \* the layer, or NoLayer
  chunks,   \* what each rank has attended so far, see Chunk
  home      \* the gradients added up at each token of a rank's shard

layerVars == <<layer, chunks, home>>

Pure(l) == l.bp = 1
LayerRanks(l) == 0 .. (IF Pure(l) THEN l.cp ELSE l.bp) - 1
ContextRank(l, w) == w % l.cp
Groups(l) == {w \div l.cp : w \in LayerRanks(l)}
GroupOf(l, g) == {w \in LayerRanks(l) : w \div l.cp = g}
Peer(l, w, c) == (w \div l.cp) * l.cp + c   \* the rank of context rank c
Canvas(l) == 0 .. l.seq - 1
Padding(l) == l.seq   \* global_seq_len: the position of a padded row

-----------------------------------------------------------------------------
(* Who owns which clean token.                                             *)

Lesser(m, n) == IF m < n THEN m ELSE n
AtLeastZero(n) == IF n < 0 THEN 0 ELSE n

\* balanced_bounds: where shard c of m begins; it ends where the next begins.
Bound(n, m, c) == c * (n \div m) + Lesser(c, n % m)

\* clean_shards_for_rank: one chunk, or one from the head and one from the tail.
Shards(l, layout, n, c) ==
  LET chunk(m, k) == <<Bound(n, m, k), Bound(n, m, k + 1)>>
  IN IF layout = "contiguous" THEN <<chunk(l.cp, c)>>
     ELSE <<chunk(2 * l.cp, c), chunk(2 * l.cp, 2 * l.cp - 1 - c)>>

Run(first, stop) == [k \in 1 .. stop - first |-> first + k - 1]
Tokens(shards) ==
  LET first == Run(shards[1][1], shards[1][2])
  IN IF Len(shards) = 1 THEN first ELSE first \o Run(shards[2][1], shards[2][2])

RuntimeLayout(l) == IF Pure(l) THEN "contiguous" ELSE l.layout
OwnerShards(l, c) == Shards(l, RuntimeLayout(l), l.seq, c)

\* The tokens of context rank c in the order it holds them.  A full-mask layer
\* shards [noisy; clean], so its denoised tokens come out as negative numbers.
Owned(l, c) ==
  IF l.transport = "full"
  THEN LET own == Tokens(Shards(l, "dual_chunk", 2 * l.seq, c))
       IN [k \in DOMAIN own |-> own[k] - l.seq]
  ELSE Tokens(OwnerShards(l, c))
Held(l, w) == Owned(l, ContextRank(l, w))

Longest(l) == CHOOSE m \in {Len(Owned(l, c)) : c \in 0 .. l.cp - 1} :
                \A c \in 0 .. l.cp - 1 : Len(Owned(l, c)) <= m

-----------------------------------------------------------------------------
(* The rows of a rank, and what its mask lets them see.                    *)

\* active_query_offsets_for_context_rank: a slice of every block, two-ended if
\* it has an even number of tokens.
Slice(l) == l.block \div l.cp
OffsetAt(l, c, j) ==
  LET half == Slice(l) \div 2
      tail == l.block - (c + 1) * half
  IN CASE Slice(l) % 2 = 1 -> c * Slice(l) + j
       [] Slice(l) % 2 = 0 /\ j < half -> c * half + j
       [] OTHER -> tail + j - half

\* _native_stream_positions: the denoised positions of a rank in the order it
\* holds them, the slices of a pure-CP rank or whole blocks.
ActivePositions(l, a, w) ==
  CASE l.pass = "clean" -> <<>>
    [] l.pass # "clean" /\ l.transport = "pure" ->
         [k \in 1 .. (l.seq \div l.block) * Slice(l) |->
            ((k - 1) \div Slice(l)) * l.block + OffsetAt(l, w, (k - 1) % Slice(l))]
    [] OTHER -> Ascending({p \in Canvas(l) : p \div l.block \in a[w]})

NoisyRows(l, a, w) ==
  IF l.transport = "full" THEN {p \in Canvas(l) : p - l.seq \in Range(Held(l, w))}
  ELSE Range(ActivePositions(l, a, w))
CleanRows(l, w) == IF l.pass = "noisy" THEN {} ELSE Range(Held(l, w)) \cap Canvas(l)

Row(kind, pos) == [clean |-> kind = "clean", pos |-> pos]
Rows(l, a, w) ==
  {Row("noisy", p) : p \in NoisyRows(l, a, w)} \union {Row("clean", p) : p \in CleanRows(l, w)}

\* A denoised row behind the end of the response.
Pads(l, r) == ~r.clean /\ r.pos >= l.seq - l.start

\* query_blocks: the blocks of a response count from its start, and what lies
\* behind its end belongs to none.
QueryBlock(l, r) == IF Pads(l, r) THEN -1 ELSE r.pos \div l.block

\* _clean_attention_bounds: a clean row is in its own window, a denoised row
\* reads a cache of one state less.
Bounds(l, r) ==
  LET stop == IF r.clean THEN r.pos + 1
              ELSE IF QueryBlock(l, r) < 0 THEN 0
              ELSE l.start + QueryBlock(l, r) * l.block
      history == IF r.clean THEN l.window ELSE l.window - 1
  IN <<IF l.window = 0 THEN 0 ELSE AtLeastZero(stop - history), stop>>

AllowedClean(l, r, claim) ==
  IF l.pass = "packed"
  THEN QueryBlock(l, r) > claim \div l.block
       \/ (r.clean /\ QueryBlock(l, r) = claim \div l.block)
  ELSE Bounds(l, r)[1] <= claim /\ claim < Bounds(l, r)[2]

\* Denoised tokens attend each other within a block: the one they are laid out
\* in if the launch is block-diagonal, the one of query_blocks otherwise.
AllowedActive(l, r, pos, diagonal) ==
  /\ ~r.clean
  /\ IF diagonal THEN r.pos \div l.block = pos \div l.block
     ELSE QueryBlock(l, r) = QueryBlock(l, Row("noisy", pos))

\* _block_denoising_mask_spec_allowed, for a key at the position the rank
\* believes it has.
Allowed(l, r, claim, diagonal) ==
  IF claim < 0 THEN AllowedActive(l, r, claim + l.seq, diagonal) ELSE AllowedClean(l, r, claim)

\* _owner_query_indices: rows that precede a shard are not computed at all.
RowsFrom(l, a, w, start) ==
  {r \in Rows(l, a, w) : QueryBlock(l, r) > start \div l.block
                         \/ (r.clean /\ QueryBlock(l, r) = start \div l.block)}

\* Keys attended in one kernel launch: the positions the mask is given and the
\* tokens really there, the rows of the forward and of the backward launch, and
\* which of the two goes block by block instead of by the mask.
Chunk(claims, tokens, forward, backward) ==
  [claim |-> claims, token |-> tokens, forward |-> forward, backward |-> backward,
   diagonal |-> {}]

-----------------------------------------------------------------------------
(* The denoised keys.                                                      *)

\* The denoised tokens whose keys a rank computes, in the order it holds them.
ActiveShard(l, a, w) ==
  IF l.transport = "full" THEN <<>>
  ELSE LET own == ActivePositions(l, a, w) IN [k \in DOMAIN own |-> own[k] - l.seq]

\* indices_by_rank, owner after owner, and the two orders argsort makes of it:
\* one for the keys, its inverse for their gradients.
OwnerPositions(l, a) ==
  LET rows == Len(ActiveShard(l, a, 0))
  IN [k \in 1 .. l.cp * rows |-> ActiveShard(l, a, (k - 1) \div rows)[((k - 1) % rows) + 1]]
LogicalOrder(l, a) ==
  [p \in DOMAIN OwnerPositions(l, a) |->
     CHOOSE k \in DOMAIN OwnerPositions(l, a) : OwnerPositions(l, a)[k] = p - 1 - l.seq]
\* Mutant: the gradients are put in the order that served the keys.
RankMajorOrderNotInverted(l, a) == LogicalOrder(l, a)

RankMajorOrder(l, a) ==
  [j \in DOMAIN OwnerPositions(l, a) |->
     CHOOSE p \in DOMAIN OwnerPositions(l, a) : LogicalOrder(l, a)[p] = j]

\* The denoised keys in a launch of their own: every block for the slices of a
\* pure-CP rank, the rank's own blocks otherwise.  Heads of 256 have one packed
\* backward launch with the mask for all keys.
ActiveChunk(l, a, w) ==
  LET keys == IF l.transport = "pure"
              THEN [p \in DOMAIN OwnerPositions(l, a) |->
                      OwnerPositions(l, a)[LogicalOrder(l, a)[p]]]
              ELSE ActiveShard(l, a, w)
      claims == IF l.transport = "pure"
                THEN [p \in DOMAIN OwnerPositions(l, a) |-> p - 1 - l.seq]
                ELSE ActiveShard(l, a, w)
  IN [Chunk(claims, keys, Rows(l, a, w), Rows(l, a, w)) EXCEPT
        !.diagonal = IF l.packed THEN {"forward"} ELSE {"forward", "backward"}]

\* The denoised keys in the launch of clean keys.  The code puts them in front;
\* here and in the places their gradients come from they are at the end.
WithActive(l, a, w, chunk) ==
  [chunk EXCEPT !.claim = @ \o ActiveShard(l, a, w), !.token = @ \o ActiveShard(l, a, w)]

-----------------------------------------------------------------------------
(* The clean keys a rank collects.                                         *)

\* _collective_clean_indices: the shards one after the other, each padded to
\* the longest.
OwnerToLogical(l) ==
  [k \in 1 .. l.cp * Longest(l) |->
     LET own == Owned(l, (k - 1) \div Longest(l)) at == ((k - 1) % Longest(l)) + 1
     IN IF at <= Len(own) THEN own[at] ELSE Padding(l)]
LogicalFromOwner(l, t) == CHOOSE k \in DOMAIN OwnerToLogical(l) : OwnerToLogical(l)[k] = t

\* _pad_kv_shard_bshd and the all-gather.
Padded(l, w) ==
  [k \in 1 .. Longest(l) |-> IF k <= Len(Held(l, w)) THEN Held(l, w)[k] ELSE Padding(l)]
Gathered(l, g) ==
  [k \in 1 .. l.cp * Longest(l) |->
     Padded(l, g * l.cp + ((k - 1) \div Longest(l)))[((k - 1) % Longest(l)) + 1]]

\* A full-mask layer brings the keys back into logical order; the others
\* describe the order of the owners to the mask.
GatheredChunk(l, a, w) ==
  LET all == Gathered(l, w \div l.cp)
  IN CASE l.transport = "full" ->
            LET logical == Run(-l.seq, l.seq)
            IN Chunk(logical, [k \in DOMAIN logical |-> all[LogicalFromOwner(l, logical[k])]],
                     Rows(l, a, w), Rows(l, a, w))
       [] l.transport = "pure" ->
            Chunk(OwnerToLogical(l), all, Rows(l, a, w),
                  IF l.packed THEN Rows(l, a, w) ELSE RowsFrom(l, a, w, 0))
       [] OTHER -> Chunk(OwnerToLogical(l), all, Rows(l, a, w), Rows(l, a, w))

\* The positions _packed_clean_owner_mask derives from key_start,
\* first_key_length and second_key_start when the mask has no exact bounds.
OwnerClaims(l, c) ==
  LET first == OwnerShards(l, c)[1]
  IN [k \in DOMAIN Owned(l, c) |->
        IF Len(OwnerShards(l, c)) = 1 \/ k <= first[2] - first[1] THEN first[1] + k - 1
        ELSE OwnerShards(l, c)[2][1] + k - 1 - (first[2] - first[1])]

\* One turn of the streaming ring: the rank's own shard with its active keys,
\* or another's, for the rows behind its start.
OwnerChunk(l, a, w, c) ==
  LET local == c = ContextRank(l, w) /\ l.pass # "clean"
      rows == IF local THEN Rows(l, a, w) ELSE RowsFrom(l, a, w, OwnerShards(l, c)[1][1])
      chunk == Chunk(IF local \/ l.pass # "packed" THEN Tokens(OwnerShards(l, c))
                     ELSE OwnerClaims(l, c), Held(l, Peer(l, w, c)), rows, rows)
  IN IF local THEN WithActive(l, a, w, chunk) ELSE chunk

-----------------------------------------------------------------------------
(* windowed_clean_exchange_plan, which every rank computes for itself.     *)

PlanShard(l, c) == Tokens(Shards(l, "dual_chunk", l.seq, c))

\* Mutant: the window of a denoised block reaches back a token less.
RequiredShort(l, a, w) ==
  LET shards == Shards(l, "dual_chunk", l.seq, ContextRank(l, w))
      history == l.window - 1
  IN UNION ({AtLeastZero(shards[k][1] - history) .. shards[k][2] - 1 : k \in DOMAIN shards}
            \union {AtLeastZero(b * l.block - history + 1) .. b * l.block - 1 : b \in a[w]})

\* _windowed_required_clean_intervals: the own shard and the blocks denoised
\* here, each with the history its window reaches back to.
Required(l, a, w) ==
  LET shards == Shards(l, "dual_chunk", l.seq, ContextRank(l, w))
      history == l.window - 1
  IN UNION ({AtLeastZero(shards[k][1] - history) .. shards[k][2] - 1 : k \in DOMAIN shards}
            \union {AtLeastZero(b * l.block - history) .. b * l.block - 1 : b \in a[w]})

\* receive_logical_intervals_by_rank: what w expects of context rank c.
Expected(l, a, w, c) == Ascending(Range(PlanShard(l, c)) \cap Required(l, a, w))

\* send_local_intervals_by_rank: what v sends to w, as offsets into its shard.
SendIndices(l, a, v, w) ==
  LET own == PlanShard(l, ContextRank(l, v))
  IN Ascending({k \in DOMAIN own : own[k] \in Required(l, a, w)})

\* The remote part of w's keys, in the order of the context ranks.
FromOthers(l, w, part) ==
  FlattenSeq([n \in 1 .. l.cp |-> IF n - 1 = ContextRank(l, w) THEN <<>> ELSE part[n - 1]])
Sent(l, a, v, w) ==
  LET indices == SendIndices(l, a, v, w) IN [k \in DOMAIN indices |-> Held(l, v)[indices[k]]]
Remote(l, a, w) == FromOthers(l, w, [c \in 0 .. l.cp - 1 |-> Expected(l, a, w, c)])
Received(l, a, w) == FromOthers(l, w, [c \in 0 .. l.cp - 1 |-> Sent(l, a, Peer(l, w, c), w)])

WindowChunk(l, a, w) ==
  WithActive(l, a, w,
    Chunk(Expected(l, a, w, ContextRank(l, w)) \o Remote(l, a, w),
          Held(l, w) \o Received(l, a, w), Rows(l, a, w), Rows(l, a, w)))

\* The checks of the forward pass, and the split sizes the all-to-all needs.
CountsAgree(l, a, g) ==
  \A v, w \in GroupOf(l, g) :
    /\ Len(Expected(l, a, w, ContextRank(l, w))) = Len(Held(l, w))
    /\ Len(SendIndices(l, a, v, w)) = Len(Expected(l, a, w, ContextRank(l, v)))

-----------------------------------------------------------------------------
(* Steps.                                                                  *)

Laid == phase = "built" /\ layer # NoLayer
Turns(l) ==
  CASE l.transport = "streaming" -> l.cp
    [] l.transport \in {"windowed", "full"} -> 1
    [] OTHER -> 2
Forwarded(w) == Len(chunks[w]) = Turns(layer)
Finished == layer # NoLayer => \A w \in LayerRanks(layer) : home[w] # <<>>

Gather(g) ==
  /\ layer.transport \in {"collective", "pure", "full"}
  /\ \A w \in GroupOf(layer, g) : chunks[w] = <<>>
  /\ chunks' = [w \in LayerRanks(layer) |->
       IF w \notin GroupOf(layer, g) THEN chunks[w]
       ELSE IF layer.transport = "full" THEN <<GatheredChunk(layer, active, w)>>
       ELSE <<GatheredChunk(layer, active, w), ActiveChunk(layer, active, w)>>]
  /\ UNCHANGED <<vars, layer, home>>

Exchange(g) ==
  /\ layer.transport = "windowed" /\ CountsAgree(layer, active, g)
  /\ \A w \in GroupOf(layer, g) : chunks[w] = <<>>
  /\ chunks' = [w \in LayerRanks(layer) |->
       IF w \in GroupOf(layer, g) THEN <<WindowChunk(layer, active, w)>> ELSE chunks[w]]
  /\ UNCHANGED <<vars, layer, home>>

\* The shards pass by starting with the rank's own; RingPasses shows that each
\* arrives in time.
Visit(w) ==
  /\ layer.transport = "streaming" /\ ~Forwarded(w)
  /\ chunks' = [chunks EXCEPT ![w] =
                  Append(@, OwnerChunk(layer, active, w,
                                       (ContextRank(layer, w) + Len(@)) % layer.cp))]
  /\ UNCHANGED <<vars, layer, home>>

\* The denoised keys stay where they are, or go back through the reduce-scatter
\* of the pure-CP gather.
ActiveGradientPlaces(l, a, o, v, k) ==
  CASE l.transport = "pure" ->
         {<<2, RankMajorOrder(l, a)[ContextRank(l, o) * Len(ActiveShard(l, a, o)) + k]>>}
    [] l.transport = "collective" /\ o = v -> {<<2, k>>}
    [] l.transport = "windowed" /\ o = v ->
         {<<1, Len(Held(l, v)) + Len(Received(l, a, v)) + k>>}
    [] l.transport = "streaming" /\ o = v -> {<<1, Len(Held(l, v)) + k>>}
    [] OTHER -> {}

\* Where the gradient of token k of rank o's shard is among the keys of rank v:
\* the chunk and the place in it.  None: v sends no gradient for it.
GradientPlaces(l, a, o, v, k) ==
  LET c == ContextRank(l, o)
      before == FromOthers(l, v, [n \in 0 .. l.cp - 1 |->
                                    IF n < c THEN Expected(l, a, v, n) ELSE <<>>])
  IN CASE l.transport = "streaming" ->
            {<<((c - ContextRank(l, v) + l.cp) % l.cp) + 1, k>>}
       [] l.transport = "windowed" /\ o = v -> {<<1, k>>}
       [] l.transport = "windowed" /\ o # v ->
            {<<1, Len(Held(l, v)) + Len(before) + n>> :
               n \in {n \in DOMAIN SendIndices(l, a, o, v) : SendIndices(l, a, o, v)[n] = k}}
       [] l.transport = "full" ->
            {<<1, OwnerToLogical(l)[c * Longest(l) + k] + l.seq + 1>>}
       [] OTHER -> {<<1, c * Longest(l) + k>>}

\* The tokens whose keys come from rank w.
Keys(l, a, w) == Held(l, w) \o ActiveShard(l, a, w)

\* The gradients added up at each key of rank o in the backward pass: the reverse
\* all-to-all and index_add_, the reduce-scatter to the owners, or the ring's
\* accumulated shards.
Collected(l, a, o) ==
  LET clean == Len(Held(l, o))
      places(v, k) == IF k <= clean THEN GradientPlaces(l, a, o, v, k)
                      ELSE ActiveGradientPlaces(l, a, o, v, k - clean)
  IN [k \in DOMAIN Keys(l, a, o) |->
        UNION {{<<v, p[1], p[2]>> : p \in places(v, k)} : v \in GroupOf(l, o \div l.cp)}]

Return(g) ==
  /\ \A w \in GroupOf(layer, g) : Forwarded(w) /\ home[w] = <<>>
  /\ home' = [o \in LayerRanks(layer) |->
       IF o \in GroupOf(layer, g) THEN Collected(layer, active, o) ELSE home[o]]
  /\ UNCHANGED <<vars, layer, chunks>>

Schedule == (phase = "built" => Finished) /\ Next /\ UNCHANGED layerVars

LayerInit ==
  /\ Init /\ layer \in Layers \union {NoLayer}
  /\ layer # NoLayer =>
       policy = "dual_end" /\ blocks = layer.seq \div layer.block
       /\ workers = layer.bp /\ ranks = layer.cp
  /\ chunks = (IF layer = NoLayer THEN <<>> ELSE [w \in LayerRanks(layer) |-> <<>>])
  /\ home = chunks

LayerNext ==
  \/ Schedule
  \/ Laid /\ \E g \in Groups(layer) : Gather(g) \/ Exchange(g) \/ Return(g)
  \/ Laid /\ \E w \in LayerRanks(layer) : Visit(w)

LayerSpec == LayerInit /\ [][LayerNext]_<<vars, layerVars>>

-----------------------------------------------------------------------------
\* The layers of a response that the two properties below hold for: its keys are
\* gathered collectively, and it begins where a block does.
ResponsesGathered(l) ==
  l.start # 0 => l.start % l.block = 0 /\ l.transport = "collective"

\* The clean tokens a row is meant to attend, whoever owns them.  A clean row of
\* a causal stream: itself and what precedes it, as far as the window goes; of a
\* packed layer: up to the end of its block.  A denoised row: what precedes its
\* block, a window reaching one token less far.  What pads a response: nothing.
Context(l, r) ==
  LET first == l.start + (r.pos \div l.block) * l.block
  IN CASE r.clean /\ l.pass = "packed" ->
            {t \in Canvas(l) : t \div l.block <= r.pos \div l.block}
       [] r.clean /\ l.pass # "packed" ->
            {t \in Canvas(l) : t <= r.pos /\ (l.window # 0 => r.pos - t < l.window)}
       [] ~r.clean /\ r.pos >= l.seq - l.start -> {}
       [] OTHER ->
            {t \in Canvas(l) : t < first /\ (l.window # 0 => first - t < l.window)}

\* The denoised tokens a denoised row is meant to attend: its block, as far as
\* the response goes.
Neighbours(l, r) ==
  {p - l.seq : p \in {p \in Canvas(l) : /\ ~r.clean /\ ~Pads(l, Row("noisy", p))
                                        /\ p \div l.block = r.pos \div l.block}}

\* The keys of row r, each a tuple that begins with its token, are those it is
\* meant to attend, each once.  What pads a response may attend other padding:
\* nothing reads it.
ExactlyOnce(l, r, keys) ==
  IF Pads(l, r) THEN \A key \in keys : key[1] < 0
  ELSE /\ {key[1] : key \in keys} = Context(l, r) \union Neighbours(l, r)
       /\ Cardinality(keys) = Cardinality(Context(l, r) \union Neighbours(l, r))

\* The keys that row r of rank w attends.
Attended(w, r) ==
  UNION {LET chunk == chunks[w][c]
         IN {<<chunk.token[k], c, k>> :
               k \in {k \in DOMAIN chunk.token :
                        Allowed(layer, r, chunk.claim[k], "forward" \in chunk.diagonal)}}
         : c \in {c \in DOMAIN chunks[w] : r \in chunks[w][c].forward}}

\* Whatever moved the keys, every row attends exactly the clean tokens of its
\* context and the denoised ones of its block, each once, and never a padded row.
EveryRowSeesItsContext ==
  Laid => \A w \in LayerRanks(layer) : Forwarded(w) =>
    \A r \in Rows(layer, active, w) : ExactlyOnce(layer, r, Attended(w, r))

\* What row r, computed in group g, adds to the gradients of the keys' owners.
Contributions(g, r) ==
  UNION {UNION {{<<Keys(layer, active, o)[k], o, p>> :
                   p \in {p \in home[o][k] :
                     LET chunk == chunks[p[1]][p[2]]
                     IN /\ r \in chunk.backward
                        /\ Allowed(layer, r, chunk.claim[p[3]], "backward" \in chunk.diagonal)}}
                : k \in DOMAIN home[o]} : o \in GroupOf(layer, g)}

\* Summed over the owners' copies, the gradient of a token's key counts each
\* denoised row that attends it once, and each clean row once in every copy: no
\* row is computed twice, left out, or sent to another token.
GradientsComeHome ==
  Laid /\ Finished => \A p \in Canvas(layer) :
    /\ layer.pass # "noisy" =>
         LET r == Row("clean", p)
         IN \A g \in Groups(layer) : ExactlyOnce(layer, r, Contributions(g, r))
    /\ layer.pass # "clean" =>
         LET r == Row("noisy", p)
         IN ExactlyOnce(layer, r, UNION {Contributions(g, r) : g \in Groups(layer)})
=============================================================================
