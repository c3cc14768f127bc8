----------------------------- MODULE ResidualLayout -----------------------------
(***************************************************************************)
(* The residual of the megakernels and everything that moves it: the token  *)
(* embedding, the draft's eh_proj front end, the two gathers that bring a    *)
(* layer's partial results back, the hand-over from the verify pass to the  *)
(* replay and the store to memory.  A round is followed from the carried    *)
(* hidden to the replay's residual, as one launch or as three.              *)
(*                                                                          *)
(* An element of a tile says which position, token and hidden index it is   *)
(* and what has been added to it; two cores keep a replica of the residual, *)
(* with the hidden index split as s * (H0 * H2) + h0 * H2 + h2 over         *)
(* partition h0 and free index t * H1 + s * H2 + h2.                        *)
(***************************************************************************)
EXTENDS Integers, Sequences, FiniteSets

CONSTANTS
    H0,     \* partitions
    H2,     \* hidden columns of one partition and one core
    TP,     \* ranks: each holds a block of the embedding's columns
    Vocab,  \* token ids
    Layers, \* layers of the trunk; the draft has one
    Junk    \* what uninitialised device memory holds

Core == 0 .. 1
H1 == 2 * H2
H == H0 * H1
HRank == H \div TP

SizeAssumption ==
    /\ H0 \in Nat \ {0} /\ H2 \in Nat \ {0} /\ TP \in Nat \ {0}
    /\ H % TP = 0 /\ Layers \in Nat \ {0} /\ Vocab # {}

VARIABLES
    way,        \* "one": the round is one launch; "three": a launch per stage
    stage,      \* draft, verify, replay
    step,       \* what the stage does next
    layer,      \* layers of the stage that are done
    ids,        \* the stage's token ids, from position first
    first,      \* position of ids[1]; the carried hidden is of position 0
    prev,       \* token-major hidden the draft is conditioned on
    residual,   \* each core's tile [H0, T * H1]
    part,       \* each core's partial result of the layer
    hbm,        \* hidden stored to memory
    cand        \* the drafted token

vars == <<way, stage, step, layer, ids, first, prev, residual, part, hbm, cand>>

T == Len(ids)

-----------------------------------------------------------------------------
(* Layouts.                                                                   *)

\* A token-major tile of T rows and n * H0 columns as a tile of n columns a token.
NaturalToTp(nat, rows, n) ==
    LET w == n \div 2
    IN  [h0 \in 0 .. H0 - 1 |-> [f \in 0 .. rows * n - 1 |->
            LET s == (f % n) \div w
            IN  nat[f \div n][s * (H0 * w) + h0 * w + (f % w)]]]

TpToNatural(tile, rows) ==
    [t \in 0 .. rows - 1 |-> [h \in 0 .. H - 1 |->
        LET s == h \div (H0 * H2)
            h0 == (h % (H0 * H2)) \div H2
        IN  tile[h0][t * H1 + s * H2 + (h % H2)]]]

\* The DMA views between memory and tile.
LoadResidual(mem, rows) == NaturalToTp(mem, rows, H1)
StoreResidual(tile, rows) ==
    [t \in 0 .. rows - 1 |-> [h \in 0 .. H - 1 |->
        tile[(h \div H2) % H0][t * H1 + (h \div (H0 * H2)) * H2 + (h % H2)]]]

-----------------------------------------------------------------------------
(* Seeds.                                                                     *)

Elem(at, seed, plus) == [at |-> at, seed |-> seed, plus |-> plus]
Embedded(at, id, h) == Elem(at, <<"emb", id, h>>, <<>>)

\* A rank's slice of the rows of the ids, and the slices side by side.
GatherRows(rank) ==
    [t \in 0 .. T - 1 |-> [k \in 0 .. HRank - 1 |-> Embedded(first + t, ids[t + 1], rank * HRank + k)]]
AllGatherH(slice, rows) ==
    [t \in 0 .. rows - 1 |-> [h \in 0 .. H - 1 |-> slice[h \div HRank][t][h % HRank]]]

EmbedCompose == NaturalToTp(AllGatherH([r \in 0 .. TP - 1 |-> GatherRows(r)], T), T, H1)

\* The normed embedding and the normed hidden side by side.
Concat(nat) ==
    [t \in 0 .. T - 1 |-> [j \in 0 .. 2 * H - 1 |->
        IF j < H THEN <<"embed_norm", nat[t][j]>> ELSE <<"hidden_norm", prev[t][j - H]>>]]

\* qkv_tkg on the tile: core s contracts the rows of its shard with its half of
\* each token's columns, and the two sums are added.
Contract(tile, t) ==
    LET w == 2 * H2
    IN  {<<s * (H0 * w) + h0 * w + h2, tile[h0][t * 2 * w + s * w + h2]>> :
            s \in Core, h0 \in 0 .. H0 - 1, h2 \in 0 .. w - 1}

\* The draft's front end: token ids and hidden to the residual's seed.
EhProjCompose ==
    LET concat == NaturalToTp(Concat(AllGatherH([r \in 0 .. TP - 1 |-> GatherRows(r)], T)), T, 2 * H1)
        met == [t \in 0 .. T - 1 |-> Contract(concat, t)]
        slice == [r \in 0 .. TP - 1 |-> [t \in 0 .. T - 1 |-> [k \in 0 .. HRank - 1 |->
                    Elem(first + t, <<"eh", r * HRank + k, met[t]>>, <<>>)]]]
    IN  NaturalToTp(AllGatherH(slice, T), T, H1)

-----------------------------------------------------------------------------
(* What each element should be.                                               *)

\* The token at a position of the round.
IdAt(p) == IF stage = "verify" \/ way = "three" THEN ids[p - first + 1]
           ELSE ids[1]
Adds(n, p, h) == [i \in 1 .. 2 * n |-> <<IF i % 2 = 1 THEN "attn" ELSE "moe", (i + 1) \div 2, p, h>>]

\* The hidden of position p: the carry, or the trunk's over its token.
HiddenRef(p, h) ==
    IF p = 0 THEN Elem(0, <<"carry", 0, h>>, <<>>)
    ELSE Elem(p, <<"emb", hbm.ids[p], h>>, Adds(Layers, p, h))
SeedRef(p, h) ==
    IF stage = "verify" THEN <<"emb", IdAt(p), h>>
    ELSE <<"eh", h, {<<j, <<"embed_norm", Embedded(p, IdAt(p), j)>>>> : j \in 0 .. H - 1}
                    \cup {<<H + j, <<"hidden_norm", HiddenRef(p - 1, j)>>>> : j \in 0 .. H - 1}>>
Sums == 2 * layer + (IF step \in {"moe", "gather_moe"} THEN 1 ELSE 0)
ResidualRef(p, h) == Elem(p, SeedRef(p, h), SubSeq(Adds(Layers, p, h), 1, Sums))

-----------------------------------------------------------------------------

NoTile == [c \in Core |-> Junk]
\* A round starts from the committed token and the hidden of the one before it.
Init ==
    /\ way \in {"one", "three"}
    /\ stage = "draft" /\ step = "seed" /\ layer = 0
    /\ \E v \in Vocab : ids = <<v>>
    /\ first = 1
    /\ cand = Junk
    /\ hbm = Junk
    /\ prev = [t \in {0} |-> [h \in 0 .. H - 1 |-> Elem(0, <<"carry", 0, h>>, <<>>)]]
    /\ residual = NoTile /\ part = NoTile

\* The residual's seed, on both cores alike.
Seed ==
    /\ step = "seed" /\ step' = "attn"
    /\ residual' = [c \in Core |->
         IF stage # "verify" THEN EhProjCompose
         ELSE IF way = "one" THEN EmbedCompose
         ELSE LoadResidual(AllGatherH([r \in 0 .. TP - 1 |-> GatherRows(r)], T), T)]
    /\ UNCHANGED <<way, stage, layer, ids, first, prev, part, hbm, cand>>

\* An output projection leaves core c the columns of its shard, [H0, H2 * T].
Attn ==
    /\ step = "attn" /\ step' = "gather_attn"
    /\ part' = [c \in Core |-> [h0 \in 0 .. H0 - 1 |-> [f \in 0 .. H2 * T - 1 |->
            <<"attn", layer + 1, first + (f % T), c * (H0 * H2) + h0 * H2 + f \div T>>]]]
    /\ UNCHANGED <<way, stage, layer, ids, first, prev, residual, hbm, cand>>

\* The tile core c assembles from its own shard and its peer's.
Gathered(c) ==
    [h0 \in 0 .. H0 - 1 |-> [f \in 0 .. H1 * T - 1 |->
        part[IF f \div (T * H2) = c THEN c ELSE 1 - c][h0][f % (T * H2)]]]
FreeIndex(g, h0, f) == g[h0][(f % H1) * T + f \div H1]
Added(x, y) == [x EXCEPT !.plus = Append(@, y)]

GatherAttn ==
    /\ step = "gather_attn" /\ step' = "moe"
    /\ residual' = [c \in Core |->
         LET g == Gathered(c)
         IN  [h0 \in 0 .. H0 - 1 |-> [f \in 0 .. T * H1 - 1 |->
                Added(residual[c][h0][f], FreeIndex(g, h0, f))]]]
    /\ part' = NoTile
    /\ UNCHANGED <<way, stage, layer, ids, first, prev, hbm, cand>>

\* The free block of the MoE's output that is valid on core c: its token when
\* tokens are split, its half of the columns of the only token otherwise.
BlockOf(c) == IF T > 1 THEN <<c * H1, H1>> ELSE <<c * H2, H2>>
\* Hidden index of a cell of the tile.
HiddenOf(h0, f) == ((f % H1) \div H2) * (H0 * H2) + h0 * H2 + (f % H2)

Moe ==
    /\ step = "moe" /\ step' = "gather_moe"
    /\ part' = [c \in Core |-> [h0 \in 0 .. H0 - 1 |-> [f \in 0 .. T * H1 - 1 |->
            IF f >= BlockOf(c)[1] /\ f < BlockOf(c)[1] + BlockOf(c)[2]
            THEN <<"moe", layer + 1, first + f \div H1, HiddenOf(h0, f)>> ELSE <<>>]]]
    /\ UNCHANGED <<way, stage, layer, ids, first, prev, residual, hbm, cand>>

\* The peer's block starts at the tile's front or behind this core's.
PeerOffset(c) == IF c = 1 THEN 0 ELSE BlockOf(c)[1] + BlockOf(c)[2]
FreeBlocks(c) ==
    [h0 \in 0 .. H0 - 1 |-> [f \in 0 .. T * H1 - 1 |->
        IF f >= BlockOf(c)[1] /\ f < BlockOf(c)[1] + BlockOf(c)[2] THEN part[c][h0][f]
        ELSE part[1 - c][h0][BlockOf(1 - c)[1] + f - PeerOffset(c)]]]

GatherMoe ==
    /\ step = "gather_moe"
    /\ residual' = [c \in Core |->
         LET g == FreeBlocks(c)
         IN  [h0 \in 0 .. H0 - 1 |-> [f \in 0 .. T * H1 - 1 |->
                Added(residual[c][h0][f], g[h0][f])]]]
    /\ part' = NoTile
    /\ layer' = layer + 1
    /\ step' = IF stage = "verify" /\ layer' < Layers THEN "attn" ELSE "end"
    /\ UNCHANGED <<way, stage, ids, first, prev, hbm, cand>>

Reset == step' = "seed" /\ layer' = 0 /\ residual' = NoTile /\ UNCHANGED <<way, part>>

VerifyBlock(v) == <<ids[1], v>>
\* The draft's head picks the candidate; the verify block is the committed
\* token and the candidate.
Drafted ==
    /\ stage = "draft" /\ step = "end" /\ Reset
    /\ \E v \in Vocab : cand' = v /\ ids' = VerifyBlock(v)
    /\ stage' = "verify"
    /\ UNCHANGED <<first, prev, hbm>>

\* Rows of hidden the replay starts from.
\* Mutant: the replay takes the candidate's own hidden.
LastRow(hidden) == [t \in {0} |-> hidden[1]]
HandedOn(hidden) == [t \in {0} |-> hidden[0]]

\* The verify pass stores its hidden.  In one launch the replay then builds the
\* candidate's slot from the tile of the committed token; as a launch of its
\* own it runs both tokens, from the carry and the stored hidden.
Verified ==
    /\ stage = "verify" /\ step = "end" /\ Reset
    /\ stage' = "replay"
    /\ hbm' = [ids |-> ids, hidden |-> StoreResidual(residual[0], T)]
    /\ IF way = "one"
       THEN /\ ids' = <<cand>> /\ first' = 2
            /\ prev' = HandedOn(TpToNatural(residual[0], T))
       ELSE /\ UNCHANGED <<ids, first>>
            /\ prev' = [t \in 0 .. 1 |-> IF t = 0 THEN prev[0] ELSE hbm'.hidden[0]]
    /\ UNCHANGED cand

Replayed == stage = "replay" /\ step = "end" /\ UNCHANGED vars

Next == Seed \/ Attn \/ GatherAttn \/ Moe \/ GatherMoe \/ Drafted \/ Verified \/ Replayed
Spec == Init /\ [][Next]_vars

-----------------------------------------------------------------------------

TypeOK ==
    /\ way \in {"one", "three"}
    /\ stage \in {"draft", "verify", "replay"}
    /\ step \in {"seed", "attn", "gather_attn", "moe", "gather_moe", "end"}
    /\ layer \in 0 .. Layers
    /\ ids \in Seq(Vocab) /\ Len(ids) \in 1 .. 2
    /\ DOMAIN prev \subseteq 0 .. 1
    /\ cand \in Vocab \cup {Junk}

\* On both cores every cell of the residual is its token's and its hidden
\* index's: its seed, in the draft the contraction of eh_proj's rows with the
\* token's embedding and with the hidden of the position before it, and every
\* output added so far, whichever way the cores split it.
ResidualIsReference ==
    \A c \in Core : residual[c] # Junk =>
        \A t \in 0 .. T - 1, h0 \in 0 .. H0 - 1, s \in Core, h2 \in 0 .. H2 - 1 :
            residual[c][h0][t * H1 + s * H2 + h2]
                = ResidualRef(first + t, s * (H0 * H2) + h0 * H2 + h2)

\* What the host reads is the trunk's hidden in its natural order, row by row
\* of the verify block.
StoredIsNatural ==
    hbm # Junk => \A t \in 0 .. 1, h \in 0 .. H - 1 : hbm.hidden[t][h] = HiddenRef(t + 1, h)
=============================================================================
