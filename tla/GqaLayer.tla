-------------------------------- MODULE GqaLayer --------------------------------
(***************************************************************************)
(* One GQA layer of token generation as its fused kernel runs it on the two *)
(* cores of a launch, and the request around it.  Each core projects with   *)
(* its half of the hidden dimension, meets the other to sum, norms, rotates *)
(* and transposes its copy, attends over its half of the cache, meets again *)
(* to merge, writes one of the two caches in place and multiplies with its  *)
(* half of the output projection's columns.                                 *)
(*                                                                          *)
(* Numbers are replaced by where they come from: an element says of which   *)
(* token, head and dimension it is and what was done to it, so that a wrong *)
(* offset, mask or order shows as a wrong element.                          *)
(***************************************************************************)
EXTENDS Integers, Sequences, FiniteSets

CONSTANTS
    SeqLen,     \* slots of the caches
    PMax,       \* partitions: the head dimension is tiled by it
    DTiles,     \* tiles of a head
    RopeDim,    \* leading dimensions that are rotated
    QHeads,     \* query heads of the rank; one key and one value head
    Tag,        \* what tells apart two tokens at one position
    Stale,      \* the tag of what an earlier request left in the caches
    MinPrompt,  \* bound: tokens of the shortest prompt
    MaxBlock    \* bound: tokens of a launch

HeadDim == PMax * DTiles
NumHeads == QHeads + 2
KHead == QHeads
VHead == QHeads + 1
RopeHeads == QHeads + 1
Slots == 0 .. SeqLen - 1
Dims == 0 .. HeadDim - 1
Core == 0 .. 1

SizeAssumption ==
    /\ PMax \in Nat \ {0} /\ DTiles \in Nat \ {0} /\ QHeads \in Nat \ {0}
    /\ RopeDim \in Nat /\ RopeDim % 2 = 0 /\ RopeDim <= HeadDim
    /\ SeqLen \in Nat \ {0} /\ SeqLen % 2 = 0
    /\ MaxBlock \in Nat \ {0} /\ MinPrompt \in 1 .. SeqLen
TagAssumption == Tag # {} /\ Stale \notin Tag

VARIABLES
    hist,   \* tags of the tokens the request has in the caches
    kc, vc, \* key and value cache: slot to vector
    block,  \* tags of the tokens of the launch, <<>> between launches
    way,    \* "scatter": the kernel writes the caches; "return": the caller does
    pc,     \* where each core is
    tile,   \* each core's rows of the qkv and of the gate projection
    sb,     \* each core's transposed query, key, value and gate tiles
    att,    \* each core's attention output
    out     \* each core's rows of the output projection

vars == <<hist, kc, vc, block, way, pc, tile, sb, att, out>>

T == Len(block)
Tokens == 0 .. T - 1
Pos == Len(hist)
Id(t) == <<Pos + t, block[t + 1]>>

-----------------------------------------------------------------------------
(* The kernel's arithmetic on elements.                                      *)

\* An element of a projection, summed over the given halves of the hidden.
Raw(w, tok, n, d, halves) ==
    [of |-> w, tok |-> tok, head |-> n, dim |-> d, halves |-> halves,
     gamma |-> "none", angle |-> -1, mate |-> -1, sign |-> 0, scaled |-> FALSE]

\* rms_norm_over_free on every head but the value's.
QkNorm(x, n) ==
    IF n < QHeads THEN [x EXCEPT !.gamma = "q"]
    ELSE IF n = KHead THEN [x EXCEPT !.gamma = "k"] ELSE x

Half == RopeDim \div 2

\* Dimension d of a head rotated by row t of the tables.
RotateHalf(row, t, d) ==
    IF d < Half THEN [row[d] EXCEPT !.angle = Pos + t, !.mate = row[d + Half].dim, !.sign = -1]
    ELSE [row[d] EXCEPT !.angle = Pos + t, !.mate = row[d - Half].dim, !.sign = 1]

RopePartial(row, t, n, d) ==
    IF n < RopeHeads /\ d < RopeDim THEN RotateHalf(row, t, d) ELSE row[d]

\* heads_free_to_partition: column h * T + t of tile dt holds head base + h of
\* token t.
ToPartition(rows, base, n) ==
    [i \in 0 .. PMax - 1 |-> [dt \in 0 .. DTiles - 1 |-> [col \in 0 .. n * T - 1 |->
        rows[col % T][base + col \div T][dt * PMax + i]]]]
Scaled(x) == [x EXCEPT !.scaled = TRUE]
Scale(m) == [i \in DOMAIN m |-> [dt \in DOMAIN m[i] |-> [col \in DOMAIN m[i][dt] |->
                Scaled(m[i][dt][col])]]]
\* One column of a transposed tile as a vector.
Column(m, col) == [d \in Dims |-> m[d % PMax][d \div PMax][col]]

-----------------------------------------------------------------------------
(* The mask.                                                                  *)

\* Slots the library's prior mask keeps: those the request has filled.
Prior(j) == j < Pos
\* _build_kernel_mask: line j for query t.  The first L - T lines are slots,
\* the last T lines are the block itself.
\* Mutant: the block's lines are not causal.
OpenBlock(j, t) == IF j < SeqLen - T THEN Prior(j) ELSE TRUE
Mask(j, t) == IF j < SeqLen - T THEN Prior(j) ELSE t >= j - (SeqLen - T)

\* What core c sees: its half of the lines, with the block in the last T.
Lines(c) == {j \in Slots : j \div (SeqLen \div 2) = c}
KeyLine(c, j) == IF j < SeqLen - T THEN kc[j] ELSE Column(sb[c].k, j - (SeqLen - T))
ValueLine(c, j) == IF j < SeqLen - T THEN vc[j] ELSE sb[c].v[j - (SeqLen - T)]

\* Attention of query column col over the lines of core c.
Attention(c, col) ==
    LET kept == {j \in Lines(c) : Mask(j, col % T)}
    IN  [query |-> Column(sb[c].q, col),
         keys |-> {<<j, KeyLine(c, j)>> : j \in kept},
         vals |-> {<<j, ValueLine(c, j)>> : j \in kept}]

-----------------------------------------------------------------------------
(* What the layer should compute.                                             *)

OwnToken(j) == <<j, IF j < Pos THEN hist[j + 1] ELSE block[j - Pos + 1]>>
Rotated(x, pos) ==
    IF x.dim >= RopeDim THEN x
    ELSE IF x.dim < Half THEN [x EXCEPT !.angle = pos, !.mate = x.dim + Half, !.sign = -1]
    ELSE [x EXCEPT !.angle = pos, !.mate = x.dim - Half, !.sign = 1]
Full(w, tok, n, d, g) == [Raw(w, tok, n, d, Core) EXCEPT !.gamma = g]
KeyOf(tok) == [d \in Dims |-> Rotated(Full("qkv", tok, KHead, d, "k"), tok[1])]
ValueOf(tok) == [d \in Dims |-> Full("qkv", tok, VHead, d, "none")]
QueryOf(tok, h) == [d \in Dims |-> Scaled(Rotated(Full("qkv", tok, h, d, "q"), tok[1]))]
GateOf(tok, h, d) == Full("gate", tok, h, d, "none")

-----------------------------------------------------------------------------

\* A request with its prompt in the caches, in front of what an earlier one left.
Init ==
    \E n \in MinPrompt .. SeqLen : \E tag \in Tag :
        /\ hist = [i \in 1 .. n |-> tag]
        /\ kc = [j \in Slots |-> KeyOf(<<j, IF j < n THEN tag ELSE Stale>>)]
        /\ vc = [j \in Slots |-> ValueOf(<<j, IF j < n THEN tag ELSE Stale>>)]
        /\ block = <<>> /\ way = "scatter"
        /\ pc = [c \in Core |-> "idle"]
        /\ tile = [c \in Core |-> <<>>] /\ sb = [c \in Core |-> <<>>]
        /\ att = [c \in Core |-> <<>>] /\ out = [c \in Core |-> <<>>]

At(c, here, there) == pc[c] = here /\ pc' = [pc EXCEPT ![c] = there]
\* Both cores meet.
Both(here, there) == /\ \A c \in Core : pc[c] = here
                     /\ pc' = [c \in Core |-> there]

\* The block has slots.
\* Mutant: the last slot is not counted.
FitsOneMore(n) == Pos + n <= SeqLen + 1
Fits(n) == Pos + n <= SeqLen

\* The host launches on the committed token, or on it and drafted ones, while
\* the block has slots.
Launch ==
    /\ Both("idle", "project")
    /\ \E b \in UNION {[1 .. n -> Tag] : n \in 1 .. MaxBlock} :
        Fits(Len(b)) /\ block' = b
    /\ way' \in {"scatter", "return"}
    /\ UNCHANGED <<hist, kc, vc, tile, sb, att, out>>

\* The two projections, each over this core's half of the hidden dimension.
Project(c) ==
    /\ At(c, "project", "sum")
    /\ tile' = [tile EXCEPT ![c] =
        [qkv |-> [t \in Tokens |-> [n \in 0 .. NumHeads - 1 |-> [d \in Dims |->
                    Raw("qkv", Id(t), n, d, {c})]]],
         gate |-> [t \in Tokens |-> [n \in 0 .. QHeads - 1 |-> [d \in Dims |->
                    Raw("gate", Id(t), n, d, {c})]]]]]
    /\ UNCHANGED <<hist, kc, vc, block, way, sb, att, out>>

SumOf(a, b) ==
    [t \in DOMAIN a |-> [n \in DOMAIN a[t] |-> [d \in Dims |->
        [a[t][n][d] EXCEPT !.halves = @ \cup b[t][n][d].halves]]]]

\* The exchange inside qkv_tkg: both cores hold the sums.
Sum ==
    /\ Both("sum", "prepare")
    /\ tile' = [c \in Core |-> [qkv |-> SumOf(tile[c].qkv, tile[1 - c].qkv),
                                gate |-> SumOf(tile[c].gate, tile[1 - c].gate)]]
    /\ UNCHANGED <<hist, kc, vc, block, way, sb, att, out>>

\* Norm, rotation and transposition of the core's copy.
Prepare(c) ==
    /\ At(c, "prepare", "attend")
    /\ LET normed == [t \in Tokens |-> [n \in 0 .. NumHeads - 1 |-> [d \in Dims |->
                        QkNorm(tile[c].qkv[t][n][d], n)]]]
           roped == [t \in Tokens |-> [n \in 0 .. NumHeads - 1 |-> [d \in Dims |->
                        RopePartial(normed[t][n], t, n, d)]]]
       IN  sb' = [sb EXCEPT ![c] =
                [q |-> Scale(ToPartition(roped, 0, QHeads)),
                 k |-> ToPartition(roped, KHead, 1),
                 v |-> [t \in Tokens |-> roped[t][VHead]],
                 gate |-> ToPartition(tile[c].gate, 0, QHeads)]]
    /\ UNCHANGED <<hist, kc, vc, block, way, tile, att, out>>

\* This core's half of the attention.
Attend(c) ==
    /\ At(c, "attend", "merge")
    /\ att' = [att EXCEPT ![c] = [col \in 0 .. QHeads * T - 1 |-> Attention(c, col)]]
    /\ UNCHANGED <<hist, kc, vc, block, way, tile, sb, out>>

\* The cores exchange maxima, sums and outputs: both hold the whole.
Merge ==
    /\ Both("merge", "write")
    /\ att' = [c \in Core |-> [col \in DOMAIN att[c] |->
                [query |-> att[c][col].query,
                 keys |-> UNION {att[x][col].keys : x \in Core},
                 vals |-> UNION {att[x][col].vals : x \in Core}]]]
    /\ UNCHANGED <<hist, kc, vc, block, way, tile, sb, out>>

\* Slot of token t.
\* Mutant: the block is written behind the token it starts with.
NextSlot(t) == Pos + t + 1
SlotOf(t) == Pos + t
Scattered(cache, vec(_)) ==
    [j \in Slots |-> IF \E t \in Tokens : SlotOf(t) = j
                     THEN vec(CHOOSE t \in Tokens : SlotOf(t) = j) ELSE cache[j]]

\* scatter_kv_cache_inplace: core 0 writes the values, core 1 the keys.
Write(c) ==
    /\ At(c, "write", "output")
    /\ vc' = IF way = "scatter" /\ c = 0 THEN Scattered(vc, LAMBDA t : sb[c].v[t]) ELSE vc
    /\ kc' = IF way = "scatter" /\ c = 1
             THEN Scattered(kc, LAMBDA t : Column(sb[c].k, t)) ELSE kc
    /\ UNCHANGED <<hist, block, way, tile, sb, att, out>>

\* Sub-head n of the output projection is tile n % DTiles of query head
\* n \div DTiles, gated.
SubHead(c, n, t, i) ==
    LET h == n \div DTiles
        dt == n % DTiles
        col == h * T + t
    IN  [att |-> att[c][col], dim |-> dt * PMax + i, gate |-> sb[c].gate[i][dt][col]]

\* Row r of the weight meets partition r % PMax of sub-head r \div PMax, for
\* each core's half of the columns.
Output(c) ==
    /\ At(c, "output", "done")
    /\ out' = [out EXCEPT ![c] = [t \in Tokens |-> [r \in 0 .. QHeads * HeadDim - 1 |->
                SubHead(c, r \div PMax, t, r % PMax)]]]
    /\ UNCHANGED <<hist, kc, vc, block, way, tile, sb, att>>

\* The launch is over.  The caller writes the returned keys and values unless
\* the kernel did, and keeps a non-empty prefix of the block.
Finish ==
    /\ Both("done", "idle")
    /\ \E n \in 1 .. T : hist' = hist \o SubSeq(block, 1, n)
    /\ kc' = IF way = "return" THEN Scattered(kc, LAMBDA t : Column(sb[1].k, t)) ELSE kc
    /\ vc' = IF way = "return" THEN Scattered(vc, LAMBDA t : sb[0].v[t]) ELSE vc
    /\ block' = <<>>
    /\ tile' = [c \in Core |-> <<>>] /\ sb' = [c \in Core |-> <<>>]
    /\ att' = [c \in Core |-> <<>>] /\ out' = [c \in Core |-> <<>>]
    /\ UNCHANGED way

CoreStep(c) == Project(c) \/ Prepare(c) \/ Attend(c) \/ Write(c) \/ Output(c)
Work == Sum \/ Merge \/ Finish \/ \E c \in Core : CoreStep(c)
Next == Launch \/ Work

\* A launched kernel does not stop while a core can go on, nor does its caller.
Spec == Init /\ [][Next]_vars /\ WF_vars(Work)

-----------------------------------------------------------------------------

TypeOK ==
    /\ hist \in Seq(Tag) /\ Pos <= SeqLen
    /\ block \in Seq(Tag) /\ Pos + T <= SeqLen
    /\ way \in {"scatter", "return"}
    /\ pc \in [Core -> {"idle", "project", "sum", "prepare", "attend", "merge",
                        "write", "output", "done"}]
    /\ DOMAIN kc = Slots /\ DOMAIN vc = Slots

\* Whatever was drafted and rejected before, between launches the slots of the
\* request hold its own tokens' keys, normed with the key's weight and rotated
\* to their own position, and their values as projected: the two caches, written
\* by two cores or by the caller, never differ on which token a slot is.
CachesHoldHistory ==
    (\A c \in Core : pc[c] = "idle") =>
        \A j \in 0 .. Pos - 1 : kc[j] = KeyOf(OwnToken(j)) /\ vc[j] = ValueOf(OwnToken(j))

\* A query of a block attends to every token of the request before it and to
\* the block up to itself, each once, and to nothing that is stale, rejected
\* or ahead, also when the block fills the last slots of the cache.
QueriesReadHistory ==
    \A c \in Core : pc[c] \in {"write", "output"} =>
        \A h \in 0 .. QHeads - 1, t \in Tokens :
            LET a == att[c][h * T + t]
                upto == {OwnToken(j) : j \in 0 .. Pos + t}
            IN  /\ a.query = QueryOf(Id(t), h)
                /\ {x[2] : x \in a.keys} = {KeyOf(k) : k \in upto}
                /\ {x[2] : x \in a.vals} = {ValueOf(k) : k \in upto}
                /\ Cardinality(a.keys) = Pos + t + 1 /\ Cardinality(a.vals) = Pos + t + 1

\* On both halves of the output's columns, every row of the output weight meets
\* its own head and dimension, gated by the gate of that head, dimension and token.
OutputRowsMeet ==
    \A c \in Core : pc[c] = "done" =>
        \A t \in Tokens, r \in 0 .. QHeads * HeadDim - 1 :
            LET x == out[c][t][r]
                h == r \div HeadDim
            IN  /\ x.att.query = QueryOf(Id(t), h)
                /\ x.dim = r % HeadDim
                /\ x.gate = GateOf(Id(t), h, r % HeadDim)

\* A launch ends: no core waits for the other at a meeting the other skips.
LaunchEnds == (block # <<>>) ~> (block = <<>>)
=============================================================================
