------------------------------ MODULE AttnBlockTkg ------------------------------
(****************************************************************************)
(* The attention block that the gpt-oss and the Qwen3-MoE megakernels call  *)
(* once per layer: a launch normalises, projects and rotates the new tokens *)
(* tile by tile, attends over the cache with the new tokens laid over its   *)
(* last lines, and only then writes keys and values in place, on one core   *)
(* or one cache per core.  Around it are the masks and tables the two       *)
(* megakernels build and the requests they serve.                           *)
(*                                                                          *)
(* An element says of which token, head and dimension it is, by which       *)
(* weight it was normed and by which angle rotated; the attention itself is *)
(* the set of lines it keeps (FlashTkg has its inside).                     *)
(****************************************************************************)
EXTENDS Integers, Sequences, FiniteSets, FiniteSetsExt

CONSTANTS
    Launches,   \* the configurations a behaviour may run under
    PMax,       \* partitions
    HeadDim,    \* d_head
    Window,     \* SLIDING_WIN, the slots of a sliding layer's cache
    BatchLimit, \* the batch above which a transposed cache is written at once
    Tag,        \* what tells apart two tokens at one position
    Stale       \* what an earlier request left

SizeAssumption ==
    /\ PMax \in Nat \ {0} /\ HeadDim \in Nat \ {0} /\ HeadDim % 2 = 0
    /\ Window \in Nat /\ Window > 1 /\ BatchLimit \in Nat

VARIABLES
    cfg,    \* the configuration
    hist,   \* tags of the tokens each sequence has in the caches
    kc,     \* key cache: cell to element
    vc,     \* value cache: row to vector
    block,  \* the launch: the tag of its tokens and the sequences it serves
    pc,     \* where each core is
    tile,   \* the next tile of each core
    sb,     \* each core's queries, keys and, after a single tile, values
    hbm,    \* the values of the launch, shared by the cores
    att     \* each core's attention output

vars == <<cfg, hist, kc, vc, block, pc, tile, sb, hbm, att>>

Half == HeadDim \div 2
Dims == 0 .. HeadDim - 1
Core == 0 .. cfg.cores - 1
Batch == 0 .. cfg.batch - 1
S == cfg.s
Steps == 0 .. S - 1
Rows == cfg.batch * S
KHead == cfg.heads
VHead == cfg.heads + 1

Pos(b) == Len(hist[b])
Tok(b, s) == <<b, Pos(b) + s, block.tag>>

\* Even layers of gpt-oss slide.
Sliding == cfg.model = "gpt" /\ cfg.layer % 2 = 0

\* _validate_and_extract_config: tiles of whole sequences, and what a sequence
\* can see.
BxsTile == Min({Rows, (PMax \div S) * S})
NTiles == (Rows + BxsTile - 1) \div BxsTile
SCtx == IF cfg.layout = "block" THEN Len(cfg.table[1]) * cfg.blockLen ELSE cfg.slots

-----------------------------------------------------------------------------
(* What the megakernels hand over.                                            *)

\* Position p of a sequence in the cache: a sliding layer wraps, one short of
\* its slots.
RingSlot(p) == p % (Window - 1)
Slot(p) == IF Sliding THEN RingSlot(p) ELSE p
\* The row of the table of blocks.
Paged(b, p) == cfg.table[b + 1][(p \div cfg.blockLen) + 1] * cfg.blockLen + (p % cfg.blockLen)

\* kv_cache_update_idx: where the launch's first token of a sequence goes.
Skip == -1
UpdateIdx(b) ==
    IF cfg.layout # "block" THEN Slot(Pos(b))
    ELSE IF b \in block.live THEN Paged(b, Pos(b)) ELSE Skip

\* _build_full_mask_hbm of gpt-oss: one token, laid over the last line.
FullMask(j, b) == j < Pos(b) \/ j = SCtx - 1
\* _build_swa_mask_hbm: the ring as far as it is filled, and the last line.
SwaMask(j, b) == j < Min({Pos(b), Window - 1}) \/ j = SCtx - 1
\* _build_full_mask_hbm of Qwen3-MoE: the prior tokens and the causal triangle
\* of the last S lines.
SpecMask(j, b, s) == j < Pos(b) \/ (SCtx - S <= j /\ j <= SCtx - S + s)
Mask(j, b, s) ==
    CASE Sliding -> SwaMask(j, b)
      [] cfg.model = "gpt" /\ ~Sliding -> FullMask(j, b)
      [] cfg.model # "gpt" -> SpecMask(j, b, s)

\* The table of angles as the model computes it, [B, S, width] flattened: the
\* second half of a full row repeats the first.
Width == IF cfg.model = "gpt" THEN Half ELSE HeadDim
RopeFlat(x) ==
    LET row == x \div Width
    IN  [pos |-> Pos(row \div S) + (row % S), freq |-> (x % Width) % Half]
\* _build_permuted_rope_hbm: [half, B, S] of half rows.
PermutedRope(p, b, s) == RopeFlat(p + (b * S + s) * Half)
\* _build_permuted_rope_hbm_from_pos: of full rows.
PermutedRopeFromPos(p, b, s) == RopeFlat(p + b * S * HeadDim + s * HeadDim)
Rope(p, b, s) ==
    IF cfg.model = "gpt" THEN PermutedRope(p, b, s) ELSE PermutedRopeFromPos(p, b, s)

-----------------------------------------------------------------------------
(* The kernel's arithmetic on elements.                                       *)

Raw(tok, head, d) ==
    [tok |-> tok, head |-> head, dim |-> d, gamma |-> "none", angle |-> <<>>, mate |-> -1]

\* Row r and column x of the projection; a row is the heads one after another.
Qkv(r, x) == Raw(Tok(r \div S, r % S), x \div HeadDim, x % HeadDim)

\* RoPE_sbuf on the halves of a head.
Mate(d) == IF d < Half THEN d + Half ELSE d - Half
Turned(x, angle) == [x EXCEPT !.angle = angle, !.mate = Mate(x.dim)]
\* _rms_norm_inplace with the weight of q or k.
Normed(x, gamma) == IF cfg.norm THEN [x EXCEPT !.gamma = gamma] ELSE x

\* _process_head_group: n heads from column offset of the sequences first ..
\* first + tb - 1, transposed to [d, B * n * S], normed, rotated.
HeadGroup(first, tb, offset, n, gamma) ==
    [d \in Dims |-> [col \in 0 .. tb * n * S - 1 |->
        LET b == col \div (n * S)
            h == (col \div S) % n
            s == col % S
            x == Qkv((first + b) * S + s, offset + h * HeadDim + d)
        IN  Turned(Normed(x, gamma), Rope(d % Half, first + b, s))]]

\* Lines of core c: with two cores each has half of the context.
Lines(c) == {j \in 0 .. SCtx - 1 : cfg.cores = 1 \/ j \div (SCtx \div 2) = c}

\* Where a cache has position j of sequence b.
KCell(b, j, d) ==
    CASE cfg.layout = "block" -> Paged(b, j) * HeadDim + d
      [] cfg.layout = "transposed" -> (b * HeadDim + d) * cfg.slots + j
      [] cfg.layout = "flat" -> (b * cfg.slots + j) * HeadDim + d
VRow(b, j) == IF cfg.layout = "block" THEN Paged(b, j) ELSE b * cfg.slots + j

\* attention_tkg: the new tokens are laid over the last S lines.
KeyLine(c, b, j) ==
    IF j < SCtx - S THEN [d \in Dims |-> kc[KCell(b, j, d)]]
    ELSE [d \in Dims |-> sb[c].k[d][b * S + j - (SCtx - S)]]
ValueLine(b, j) == IF j < SCtx - S THEN vc[VRow(b, j)] ELSE hbm[b * S + j - (SCtx - S)]

Attention(c, col) ==
    LET b == col \div (cfg.heads * S)
        kept == {j \in Lines(c) : Mask(j, b, col % S)}
    IN  [query |-> [d \in Dims |-> sb[c].q[d][col]],
         keys |-> {<<j, KeyLine(c, b, j)>> : j \in kept},
         vals |-> {<<j, ValueLine(b, j)>> : j \in kept}]

-----------------------------------------------------------------------------
(* Cache update: where each token goes and what is taken for it.              *)

\* _kv_cache_update: one indirect transfer for a tile of sequences, or one
\* transfer for each sequence.
Batched ==
    /\ S = 1
    /\ \/ cfg.layout = "block"
       \/ cfg.batch > 1 /\ (cfg.layout # "transposed" \/ cfg.batch > BatchLimit)

\* The first sequence of the transfer that carries sequence b.
BatchStart(b) == (b \div PMax) * PMax

\* idx_tile of a paged cache: rows of all its blocks.
BlockRow(b, s) == UpdateIdx(b) + s
\* token_indices: iota from the transfer's start plus the index.
BatchedRow(b, s) ==
    UpdateIdx(b) + BatchStart(b) * cfg.slots + (b - BatchStart(b)) * cfg.slots + s
\* start_position in the cache of the sequence.
ScalarRow(b, s) == b * cfg.slots + UpdateIdx(b) + s
RowOf(b, s) ==
    CASE cfg.layout = "block" -> BlockRow(b, s)
      [] cfg.layout # "block" /\ Batched -> BatchedRow(b, s)
      [] cfg.layout # "block" /\ ~Batched -> ScalarRow(b, s)

\* k_token_indices, strided over the dimensions of a transposed cache.
BatchedCell(b, s, d) ==
    LET start == BatchStart(b)
        stride == HeadDim * cfg.slots
    IN  UpdateIdx(b) + start * stride + (b - start) * stride + d * cfg.slots + s
\* The last dimension of the sequence's transposed cache.
ScalarCell(b, s, d) == (b * HeadDim + d) * cfg.slots + UpdateIdx(b) + s
CellOf(b, s, d) ==
    CASE cfg.layout # "transposed" -> RowOf(b, s) * HeadDim + d
      [] cfg.layout = "transposed" /\ Batched -> BatchedCell(b, s, d)
      [] cfg.layout = "transposed" /\ ~Batched -> ScalarCell(b, s, d)
\* oob_mode.skip: an index of uint32_max writes nothing.
Written == {<<b, s>> \in Batch \X Steps : UpdateIdx(b) # Skip}

\* _tiled_k_transpose and _get_k_transposed_slice: tiles of whole sequences.
KTransposed(c) ==
    [p \in 0 .. BxsTile - 1 |-> [n \in 0 .. NTiles - 1 |->
        IF n * BxsTile + p < Rows THEN [d \in Dims |-> sb[c].k[d][n * BxsTile + p]] ELSE Stale]]
KSlice(c, b, s) == KTransposed(c)[((b * S) % BxsTile) + s][(b * S) \div BxsTile]

KeySource(c, b, s) ==
    IF Batched \/ cfg.layout = "transposed" THEN [d \in Dims |-> sb[c].k[d][b * S + s]]
    ELSE KSlice(c, b, s)
\* The values are taken from the core's copy after a single tile, else from hbm.
ValueSource(c, b, s) == IF sb[c].v # <<>> THEN sb[c].v[b * S + s] ELSE hbm[b * S + s]

NewKeys(c) ==
    [x \in DOMAIN kc |->
        IF \E w \in Written, d \in Dims : CellOf(w[1], w[2], d) = x
        THEN LET w == CHOOSE w \in Written : \E d \in Dims : CellOf(w[1], w[2], d) = x
                 d == CHOOSE d \in Dims : CellOf(w[1], w[2], d) = x
             IN  KeySource(c, w[1], w[2])[d]
        ELSE kc[x]]
NewValues(c) ==
    [x \in DOMAIN vc |->
        IF \E w \in Written : RowOf(w[1], w[2]) = x
        THEN LET w == CHOOSE w \in Written : RowOf(w[1], w[2]) = x
             IN  ValueSource(c, w[1], w[2])
        ELSE vc[x]]

-----------------------------------------------------------------------------
(* What the block should compute.                                             *)

\* The tokens of a sequence the cache still has.
Kept(b) == (IF Sliding THEN Max({0, Pos(b) - (Window - 1)}) ELSE 0) .. Pos(b) - 1
TokenAt(b, j) == IF j < Pos(b) THEN <<b, j, hist[b][j + 1]>> ELSE Tok(b, j - Pos(b))
HeadOf(tok, head, gamma) ==
    [d \in Dims |-> Turned(Normed(Raw(tok, head, d), gamma),
                           [pos |-> tok[2], freq |-> d % Half])]
KeyOf(tok) == HeadOf(tok, KHead, "k")
ValueOf(tok) == [d \in Dims |-> Raw(tok, VHead, d)]
\* The tokens query s attends to.
Seen(b, s) == (IF Sliding THEN Max({0, Pos(b) + 1 - Window}) ELSE 0) .. Pos(b) + s

-----------------------------------------------------------------------------

\* The tag of every token of a prompt.
PromptTag == CHOOSE tag \in Tag : TRUE

\* Requests of some length with their prompts in the caches, in front of what
\* earlier ones left.
Init ==
    \E k \in Launches, tag \in {PromptTag} :
        /\ cfg = k
        /\ \E len \in [0 .. k.batch - 1 -> 1 .. k.prompt] :
            hist = [b \in 0 .. k.batch - 1 |-> [i \in 1 .. len[b] |-> tag]]
        /\ kc = [x \in 0 .. k.rows * HeadDim - 1 |->
                    IF \E b \in Batch : \E j \in Kept(b), d \in Dims : KCell(b, Slot(j), d) = x
                    THEN LET b == CHOOSE b \in Batch :
                                    \E j \in Kept(b), d \in Dims : KCell(b, Slot(j), d) = x
                             j == CHOOSE j \in Kept(b) : \E d \in Dims : KCell(b, Slot(j), d) = x
                             d == CHOOSE d \in Dims : KCell(b, Slot(j), d) = x
                         IN  KeyOf(TokenAt(b, j))[d]
                    ELSE Stale]
        /\ vc = [x \in 0 .. k.rows - 1 |->
                    IF \E b \in Batch : \E j \in Kept(b) : VRow(b, Slot(j)) = x
                    THEN LET b == CHOOSE b \in Batch : \E j \in Kept(b) : VRow(b, Slot(j)) = x
                         IN  ValueOf(TokenAt(b, CHOOSE j \in Kept(b) : VRow(b, Slot(j)) = x))
                    ELSE Stale]
        /\ block = <<>>
        /\ pc = [c \in Core |-> "idle"] /\ tile = [c \in Core |-> 0]
        /\ sb = [c \in Core |-> <<>>] /\ hbm = <<>> /\ att = [c \in Core |-> <<>>]

\* A sequence takes S more tokens: there is room in front of the last S lines
\* (a ring always has room), and a block of tokens stays inside a block.
Room(b) ==
    /\ Pos(b) + S <= cfg.max
    /\ ~Sliding => Pos(b) <= SCtx - S
    /\ cfg.layout = "block" => (Pos(b) % cfg.blockLen) + S <= cfg.blockLen

\* Only a paged cache leaves sequences out.
Launch ==
    /\ block = <<>>
    /\ \E live \in IF cfg.layout = "block" THEN SUBSET Batch \ {{}} ELSE {Batch}, tag \in Tag :
        /\ \A b \in live : Room(b)
        /\ block' = [tag |-> tag, live |-> live]
    /\ pc' = [c \in Core |-> "qkv"]
    /\ tile' = [c \in Core |-> 0]
    /\ sb' = [c \in Core |-> [q |-> [d \in Dims |-> [col \in 0 .. Rows * cfg.heads - 1 |-> Stale]],
                              k |-> [d \in Dims |-> [col \in 0 .. Rows - 1 |-> Stale]],
                              v |-> <<>>]]
    /\ hbm' = [r \in 0 .. Rows - 1 |-> Stale]
    /\ UNCHANGED <<cfg, hist, kc, vc, att>>

\* _QKV_processing: one tile, scattered into the full buffers.  Both cores
\* write every tile of the values.
ProcessTile(c) ==
    /\ pc[c] = "qkv"
    /\ LET start == tile[c] * BxsTile
           size == Min({BxsTile, Rows - start})
           first == start \div S
           tb == size \div S
           q == HeadGroup(first, tb, 0, cfg.heads, "q")
           k == HeadGroup(first, tb, cfg.heads * HeadDim, 1, "k")
           v == [r \in 0 .. size - 1 |-> [d \in Dims |->
                    Qkv(start + r, HeadDim * (cfg.heads + 1) + d)]]
           n == cfg.heads * S
       IN  /\ sb' = [sb EXCEPT
                ![c].q = [d \in Dims |-> [col \in DOMAIN @[d] |->
                            IF col \div n \in first .. first + tb - 1
                            THEN q[d][col - first * n] ELSE @[d][col]]],
                ![c].k = [d \in Dims |-> [col \in DOMAIN @[d] |->
                            IF col \in start .. start + size - 1
                            THEN k[d][col - start] ELSE @[d][col]]],
                ![c].v = IF NTiles = 1 THEN v ELSE <<>>]
           /\ hbm' = [r \in DOMAIN hbm |->
                        IF r \in start .. start + size - 1 THEN v[r - start] ELSE hbm[r]]
    /\ tile' = [tile EXCEPT ![c] = @ + 1]
    /\ pc' = [pc EXCEPT ![c] = IF tile[c] + 1 = NTiles THEN "attend" ELSE "qkv"]
    /\ UNCHANGED <<cfg, hist, kc, vc, block, att>>

\* This core's lines.
Attend(c) ==
    /\ pc[c] = "attend"
    /\ att' = [att EXCEPT ![c] = [col \in 0 .. Rows * cfg.heads - 1 |-> Attention(c, col)]]
    /\ pc' = [pc EXCEPT ![c] = IF cfg.cores = 1 THEN "write" ELSE "merge"]
    /\ UNCHANGED <<cfg, hist, kc, vc, block, tile, sb, hbm>>

\* Two cores exchange maxima, sums and outputs.
Merge ==
    /\ \A c \in Core : pc[c] = "merge"
    /\ pc' = [c \in Core |-> "write"]
    /\ att' = [c \in Core |-> [col \in DOMAIN att[c] |->
                [query |-> att[c][col].query,
                 keys |-> UNION {att[x][col].keys : x \in Core},
                 vals |-> UNION {att[x][col].vals : x \in Core}]]]
    /\ UNCHANGED <<cfg, hist, kc, vc, block, tile, sb, hbm>>

\* One core writes both caches; of two, core 0 the values and core 1 the keys.
Update(c) ==
    /\ pc[c] = "write"
    /\ vc' = IF cfg.cores = 1 \/ c = 0 THEN NewValues(c) ELSE vc
    /\ kc' = IF cfg.cores = 1 \/ c = 1 THEN NewKeys(c) ELSE kc
    /\ pc' = [pc EXCEPT ![c] = "done"]
    /\ UNCHANGED <<cfg, hist, block, tile, sb, hbm, att>>

\* The launch is over: each sequence it served keeps its first token and as many
\* of the drafted ones as are accepted.
Finish ==
    /\ \A c \in Core : pc[c] = "done"
    /\ \E n \in [block.live -> 1 .. S] :
        hist' = [b \in Batch |-> IF b \in block.live
                                 THEN hist[b] \o [i \in 1 .. n[b] |-> block.tag] ELSE hist[b]]
    /\ block' = <<>>
    /\ pc' = [c \in Core |-> "idle"] /\ tile' = [c \in Core |-> 0]
    /\ sb' = [c \in Core |-> <<>>] /\ hbm' = <<>> /\ att' = [c \in Core |-> <<>>]
    /\ UNCHANGED <<cfg, kc, vc>>

Work == Merge \/ Finish \/ \E c \in Core : ProcessTile(c) \/ Attend(c) \/ Update(c)
Next == Launch \/ Work

-----------------------------------------------------------------------------

TypeOK ==
    /\ cfg \in Launches
    /\ hist \in [Batch -> Seq(Tag)] /\ \A b \in Batch : Pos(b) <= cfg.max
    /\ block = <<>> \/ (block.tag \in Tag /\ block.live \in SUBSET Batch \ {{}})
    /\ pc \in [Core -> {"idle", "qkv", "attend", "merge", "write", "done"}]
    /\ tile \in [Core -> 0 .. NTiles]
    /\ DOMAIN kc = 0 .. cfg.rows * HeadDim - 1 /\ DOMAIN vc = 0 .. cfg.rows - 1

\* Between launches every sequence finds at its own places the keys, normed and
\* rotated to their own position, and the values of the tokens a later query may
\* ask for: of the last W - 1 in a ring, of all of them elsewhere; also the
\* sequences the launch left out and the neighbours of what it wrote.
CachesHoldHistory ==
    (block = <<>>) =>
        \A b \in Batch : \A j \in Kept(b) :
            /\ \A d \in Dims : kc[KCell(b, Slot(j), d)] = KeyOf(TokenAt(b, j))[d]
            /\ vc[VRow(b, Slot(j))] = ValueOf(TokenAt(b, j))

\* A query attends once to each token it may see, the last W of a sliding layer
\* and all up to itself elsewhere, although its own keys and values reach the
\* caches after the attention and a ring still holds the token it will replace.
QueriesReadHistory ==
    \A c \in Core : pc[c] = "write" =>
        \A b \in block.live, h \in 0 .. cfg.heads - 1, s \in Steps :
            LET a == att[c][(b * cfg.heads + h) * S + s]
                seen == {TokenAt(b, j) : j \in Seen(b, s)}
            IN  /\ a.query = HeadOf(Tok(b, s), h, "q")
                /\ {x[2] : x \in a.keys} = {KeyOf(k) : k \in seen}
                /\ {x[2] : x \in a.vals} = {ValueOf(k) : k \in seen}
                /\ Cardinality(a.keys) = Cardinality(seen)
                /\ Cardinality(a.vals) = Cardinality(seen)
=============================================================================
