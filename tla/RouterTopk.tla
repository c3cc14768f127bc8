------------------------------- MODULE RouterTopk -------------------------------
(****************************************************************************)
(* The router of an MoE layer (router_topk) on one core or two: logits from *)
(* tiles of the hidden, an activation before or after the choice of the top *)
(* K experts, their weights normed, scattered to their experts by a one-hot *)
(* mask or an indirect store, and the outputs in HBM or, exchanged between  *)
(* the cores, in each core's own memory.                                    *)
(*                                                                          *)
(* A logit is exact once its sum is whole.  A weight is the exponent of its *)
(* numerator and the set of those in its denominator.                       *)
(****************************************************************************)
EXTENDS Integers, Sequences, FiniteSets, FiniteSetsExt

CONSTANTS
    P,              \* partitions, tokens of a tile, hidden rows of a tile
    Experts,        \* E
    K,              \* experts of a token
    Logit(_, _),    \* the logit of a token and an expert, bias aside
    Bias(_),        \* the bias of an expert
    Launches,       \* the configurations a behaviour may run under
    Junk            \* what a buffer holds before it is written

SizeAssumption ==
    P \in Nat \ {0} /\ P % 4 = 0 /\ Experts \in Nat \ {0} /\ K \in 1 .. Experts
\* Exact ties are outside: the first of two equal experts would be found twice.
LogitAssumption ==
    \A l \in Launches : \A t \in 0 .. l.T - 1 : \A e, f \in 0 .. Experts - 1 :
        /\ Logit(t, e) \in Nat /\ Bias(e) \in Nat
        /\ e # f => Logit(t, e) # Logit(t, f) /\ Logit(t, e) + Bias(e) # Logit(t, f) + Bias(f)
\* What the kernel asserts, or fails to compile with.
LaunchAssumption ==
    \A l \in Launches :
        /\ l.T \in Nat \ {0} /\ l.ht \in Nat \ {0} /\ l.cores \in {1, 2}
        /\ l.x \in {"sb", "TH", "HT"} /\ l.layout \in 0 .. 2
        /\ l.act \in {"softmax", "sigmoid"}
        /\ {l.bias, l.columns, l.pre, l.norm, l.indirect, l.eager, l.shard, l.affSb, l.idxSb}
               \subseteq BOOLEAN
        \* the hidden is reshaped in halves
        /\ l.layout = 1 => l.ht % 2 = 0
        /\ l.shard => l.cores = 2 /\ l.T > 1
        /\ l.act = "sigmoid" => l.indirect \/ l.pre
        /\ l.indirect =>
            /\ ~l.affSb /\ ~l.idxSb
            /\ \A n \in IF l.shard THEN {l.T \div 2, l.T - l.T \div 2} ELSE {l.T} :
                n <= P \/ n % P = 0
        \* the kernel asks for whole tiles, but each core needs whole tiles
        /\ l.shard /\ l.idxSb /\ l.T > P => l.T % (2 * P) = 0
        /\ ~l.indirect /\ ~l.affSb /\ (l.pre => l.norm) => l.cores = 2
        /\ (l.affSb \/ l.eager) => l.T <= P
        /\ l.pre /\ ~l.norm => ~l.eager /\ ~l.affSb

VARIABLES
    shape,  \* the launch
    pc,     \* where each core is
    tile,   \* the next tile of an indirect store, by core
    sb,     \* each core's intermediates by local token
    out,    \* the outputs in each core's own memory
    hbm     \* the outputs in HBM

vars == <<shape, pc, tile, sb, out, hbm>>

Expert == 0 .. Experts - 1
Core == 0 .. 1
Cores == 0 .. shape.cores - 1
T == shape.T
HTiles == shape.ht
HTile == 0 .. HTiles - 1
Partition == 0 .. P - 1

\* The tokens of a core.
TFirst == T \div 2
TLocal(c) == IF ~shape.shard THEN T ELSE IF c = 0 THEN TFirst ELSE T - TFirst
TOffset(c) == IF shape.shard /\ c = 1 THEN TFirst ELSE 0
Local(c) == 0 .. TLocal(c) - 1
CeilDiv(a, b) == (a + b - 1) \div b
NumTTiles(c) == CeilDiv(TLocal(c), P)
TP(c) == IF NumTTiles(c) = 1 THEN TLocal(c) ELSE P
TileOf(i) == i \div P
RowOf(i) == i % P
TileLen(c, t) == Min({P, TLocal(c) - t * P})

------------------------------------------------------------------------------
(* The logits.                                                                *)

\* The hidden index at partition p, tile f of each layout of x.
Tp102(p, f) == p * HTiles + f
Tp2013(p, f) ==
    LET half == HTiles \div 2
    IN  (f \div half) * P * half + p * half + (f % half)
Tp201(p, f) == f * P + p
Columns(p, f) == f * P + p

\* An x in HBM is loaded in a layout of the kernel's choice.
Layout == CASE shape.x = "HT" -> 3 [] shape.x = "TH" -> 0 [] OTHER -> shape.layout
XHidden(p, f) ==
    CASE Layout = 0 -> Tp102(p, f) [] Layout = 1 -> Tp2013(p, f)
      [] Layout = 2 -> Tp201(p, f) [] Layout = 3 -> Columns(p, f)

\* The rows of w are loaded to meet them (router_topk_input_w_load).
WTp102(p, f) == p * HTiles + f
WTp2013(p, f) ==
    LET half == HTiles \div 2
    IN  (f \div half) * P * half + p * half + (f % half)
WTiles(p, f) == f * P + p
WHidden(p, f) ==
    CASE Layout = 0 -> WTp102(p, f) [] Layout = 1 -> WTp2013(p, f) [] OTHER -> WTiles(p, f)

\* Tokens a column tile of the array is wide: the array is cut in four or in two
\* when the core's tokens fit.
ColumnSize(c) ==
    IF ~shape.columns THEN P
    ELSE CASE TLocal(c) <= P \div 4 -> P \div 4
           [] TLocal(c) > P \div 4 /\ TLocal(c) <= P \div 2 -> P \div 2
           [] OTHER -> P
ColumnTiles(c) == P \div ColumnSize(c)
ColumnOffset(c, f) == (f % ColumnTiles(c)) * ColumnSize(c)

\* What the matmuls leave in one row of a tile's PSUM.
Psum(c, t, row) ==
    {w \in (0 .. TileLen(c, t) - 1) \X HTile \X Partition : ColumnOffset(c, w[2]) + w[1] = row}

\* The rows that are added up for row r: a slot no matmul wrote must not be.
ActiveTiles(c) == Min({HTiles, ColumnTiles(c)})
Merged(c, t, r) ==
    UNION {Psum(c, t, j * ColumnSize(c) + r) : j \in 0 .. ActiveTiles(c) - 1}

\* A sum over its own token and over every hidden index once, x and w alike.
Whole(c, t, r) ==
    /\ \A j \in 0 .. ActiveTiles(c) - 1 : Psum(c, t, j * ColumnSize(c) + r) # {}
    /\ Merged(c, t, r) = {r} \X HTile \X Partition
    /\ \A f \in HTile, p \in Partition : XHidden(p, f) = WHidden(p, f)
    /\ {XHidden(p, f) : p \in Partition, f \in HTile} = 0 .. P * HTiles - 1

\* The token at which a tile's slice of x starts.
StartT(c, t) == TOffset(c) + t * (IF TLocal(c) < P THEN TLocal(c) ELSE P)

\* Numbers that are no token's logits.
NoRow == [e \in Expert |-> -1 - e]
LogitRow(c, i) ==
    IF Whole(c, TileOf(i), RowOf(i))
    THEN LET t == StartT(c, TileOf(i)) + RowOf(i)
         IN  [e \in Expert |-> Logit(t, e) + (IF shape.bias THEN Bias(e) ELSE 0)]
    ELSE NoRow

\* Where a core's token goes in HBM: whole tiles and a remainder behind them.
HbmRow(c, i) == TOffset(c) + TileOf(i) * TP(c) + RowOf(i)
Stored(c, old, rows) ==
    [t \in DOMAIN old |-> IF \E i \in Local(c) : HbmRow(c, i) = t
                          THEN rows[CHOOSE i \in Local(c) : HbmRow(c, i) = t] ELSE old[t]]

------------------------------------------------------------------------------
(* The weights.                                                               *)

\* compute_activation over the values of a set of experts.
Activated(l, values) ==
    IF shape.act = "sigmoid" THEN [n |-> l, d |-> {}]
    ELSE [n |-> l - Max(values), d |-> {v - Max(values) : v \in values}]

Values(row, chosen) == {row[e] : e \in chosen}
Full(row) == LET all == Values(row, Expert) IN [e \in Expert |-> Activated(row[e], all)]

\* max8 and nc_find_index8: the K largest values in falling order, each at the
\* first expert that has it.
TopIndex(value) ==
    [k \in 1 .. K |-> Min({e \in Expert :
        /\ Cardinality({f \in Expert : value[f] > value[e]}) < k
        /\ Cardinality({f \in Expert : value[f] >= value[e]}) >= k})]

\* The numbers the choice is made on.
Choosing(c, i) == IF shape.pre THEN [e \in Expert |-> sb[c].act[i][e].n] ELSE sb[c].logits[i]
Chosen(c, i) == {sb[c].index[i][k] : k \in 1 .. K}
Scatters == ~shape.pre \/ shape.norm

\* The numerators the weights of the chosen are divided by the sum of.
Denominator(c, i) == {sb[c].act[i][e].n : e \in Chosen(c, i)}

\* The weights of the chosen experts themselves, in their order.
Eager(c, i) ==
    [k \in 1 .. K |->
        LET e == sb[c].index[i][k]
        IN  IF ~shape.pre THEN Activated(sb[c].logits[i][e], Values(sb[c].logits[i], Chosen(c, i)))
            ELSE [n |-> sb[c].act[i][e].n, d |-> Denominator(c, i)]]

Zero == [n |-> 0, d |-> {0, 1}]

\* The weights of all experts are taken with the maximum and the denominator of
\* the chosen ones, and the mask lets those of the chosen through.
OneHot(c, i) ==
    LET best == Max(Values(sb[c].logits[i], Chosen(c, i)))
        top == {v - best : v \in Values(sb[c].logits[i], Chosen(c, i))}
    IN  [e \in Expert |->
            CASE e \notin Chosen(c, i) -> Zero
              [] e \in Chosen(c, i) /\ ~shape.pre -> [n |-> sb[c].logits[i][e] - best, d |-> top]
              [] OTHER -> [n |-> sb[c].act[i][e].n, d |-> Denominator(c, i)]]

------------------------------------------------------------------------------
(* The steps of a core.                                                       *)

NoOut == [idx |-> <<>>, aff |-> <<>>, eager |-> <<>>]
NoSb == [logits |-> <<>>, act |-> <<>>, index |-> <<>>, eager |-> <<>>, hot |-> <<>>]

Init ==
    /\ shape \in Launches
    /\ pc = [c \in Core |-> IF c < shape.cores THEN "logits" ELSE "done"]
    /\ tile = [c \in Core |-> 0]
    /\ sb = [c \in Core |-> NoSb]
    /\ out = [c \in Core |-> NoOut]
    /\ hbm = [logits |-> [t \in 0 .. T - 1 |-> NoRow],
              idx |-> [t \in 0 .. T - 1 |-> <<>>],
              aff |-> [x \in 0 .. T * Experts - 1 |-> Junk]]

Go(c, here, there) == pc[c] = here /\ pc' = [pc EXCEPT ![c] = there]
Meet(here, there) ==
    /\ \A c \in Core : pc[c] = here
    /\ pc' = [c \in Core |-> there]

\* Affinities are kept flat, as the indirect store sees them.
FlatStored(c, rows) ==
    [x \in DOMAIN hbm.aff |->
        IF \E i \in Local(c) : HbmRow(c, i) = x \div Experts
        THEN rows[CHOOSE i \in Local(c) : HbmRow(c, i) = x \div Experts][x % Experts]
        ELSE hbm.aff[x]]

Logits(c) ==
    /\ Go(c, "logits", IF shape.pre THEN "act1" ELSE "topk")
    /\ sb' = [sb EXCEPT ![c].logits = [i \in Local(c) |-> LogitRow(c, i)]]
    /\ hbm' = [hbm EXCEPT !.logits = Stored(c, hbm.logits, sb'[c].logits)]
    /\ UNCHANGED <<shape, tile, out>>

\* Without a scatter the weights of all experts are the output.
Activate(c) ==
    /\ Go(c, "act1", IF ~Scatters /\ shape.cores = 2 THEN "fullmeet" ELSE "topk")
    /\ sb' = [sb EXCEPT ![c].act = [i \in Local(c) |-> Full(sb[c].logits[i])]]
    /\ hbm' = IF Scatters THEN hbm ELSE [hbm EXCEPT !.aff = FlatStored(c, sb'[c].act)]
    /\ UNCHANGED <<shape, tile, out>>

AfterIndex == IF Scatters THEN "weigh" ELSE "eager"

TopK(c) ==
    /\ Go(c, "topk", IF shape.idxSb /\ shape.shard THEN "swapidx" ELSE AfterIndex)
    /\ sb' = [sb EXCEPT ![c].index = [i \in Local(c) |-> TopIndex(Choosing(c, i))]]
    /\ out' = IF shape.idxSb /\ ~shape.shard
              THEN [out EXCEPT ![c].idx = sb'[c].index] ELSE out
    /\ hbm' = IF shape.idxSb THEN hbm
              ELSE [hbm EXCEPT !.idx = Stored(c, hbm.idx, sb'[c].index)]
    /\ UNCHANGED <<shape, tile>>

\* Both cores' rows of an output in local memory: the own and the received ones.
Place(c, mine, received) ==
    [t \in 0 .. T - 1 |->
        IF t >= TOffset(c) /\ t < TOffset(c) + TLocal(c) THEN mine[t - TOffset(c)]
        ELSE received[t - TOffset(1 - c)]]

\* Up to a tile of tokens the cores exchange rows, above it they exchange tiles.
TilesTotal == CeilDiv(T, P)
FirstTile(c) == IF c = 0 THEN 0 ELSE TilesTotal - NumTTiles(c)
TilePlace(t) ==
    LET owner == CHOOSE c \in Core : TileOf(t) \in FirstTile(c) .. FirstTile(c) + NumTTiles(c) - 1
    IN  sb[owner].index[(TileOf(t) - FirstTile(owner)) * P + RowOf(t)]
SwapIndex ==
    /\ Meet("swapidx", AfterIndex)
    /\ out' = [c \in Core |-> [out[c] EXCEPT
                 !.idx = IF T <= P THEN Place(c, sb[c].index, sb[1 - c].index)
                         ELSE [t \in 0 .. T - 1 |-> TilePlace(t)]]]
    /\ UNCHANGED <<shape, tile, sb, hbm>>

\* The weights of the chosen, and in the one-hot scatter those of all experts,
\* to HBM, to the other core or to the caller.
Weigh(c) ==
    /\ Go(c, "weigh", CASE shape.indirect -> "zero"
                        [] ~shape.indirect /\ ~shape.affSb -> "affmeet"
                        [] shape.affSb /\ shape.shard -> "swapaff" [] OTHER -> "eager")
    /\ sb' = [sb EXCEPT ![c].eager = [i \in Local(c) |-> Eager(c, i)],
                        ![c].hot = IF shape.indirect THEN <<>>
                                   ELSE [i \in Local(c) |-> OneHot(c, i)]]
    /\ hbm' = IF shape.affSb \/ shape.indirect THEN hbm
              ELSE [hbm EXCEPT !.aff = FlatStored(c, sb'[c].hot)]
    /\ out' = IF shape.affSb /\ ~shape.shard
              THEN [out EXCEPT ![c].aff = sb'[c].hot] ELSE out
    /\ UNCHANGED <<shape, tile>>

\* Indirect: a tile of zeros, over it one expert of each of its tokens at a time.
ZeroTile(c) ==
    /\ Go(c, "zero", "indirect")
    /\ LET from == TOffset(c) + tile[c] * TP(c)
       IN  hbm' = [hbm EXCEPT !.aff = [x \in DOMAIN hbm.aff |->
                     IF x \div Experts \in from .. from + TP(c) - 1 THEN Zero ELSE hbm.aff[x]]]
    /\ UNCHANGED <<shape, tile, sb, out>>

FlatIndex(c, r, k) ==
    (TOffset(c) + tile[c] * TP(c)) * Experts + r * Experts
        + sb[c].index[tile[c] * P + r][k]
ScatterIndirect(c) ==
    LET writes(x) == {w \in (0 .. TP(c) - 1) \X (1 .. K) : FlatIndex(c, w[1], w[2]) = x}
        more == tile[c] + 1 < NumTTiles(c)
    IN  /\ Go(c, "indirect", IF more THEN "zero" ELSE "eager")
        /\ tile' = [tile EXCEPT ![c] = tile[c] + 1]
        /\ hbm' = [hbm EXCEPT !.aff = [x \in DOMAIN hbm.aff |->
                IF writes(x) = {} THEN hbm.aff[x]
                ELSE LET w == CHOOSE w \in writes(x) : TRUE
                     IN  sb[c].eager[tile[c] * P + w[1]][w[2]]]]
        /\ UNCHANGED <<shape, sb, out>>

\* The barriers on the affinities in HBM.
Barrier ==
    /\ Meet("fullmeet", "topk") \/ Meet("affmeet", "eager")
    /\ UNCHANGED <<shape, tile, sb, out, hbm>>

SwapAffinities ==
    /\ Meet("swapaff", "eager")
    /\ out' = [c \in Core |-> [out[c] EXCEPT !.aff = Place(c, sb[c].hot, sb[1 - c].hot)]]
    /\ UNCHANGED <<shape, tile, sb, hbm>>

ReturnEager(c) ==
    /\ Go(c, "eager", IF shape.eager /\ shape.shard THEN "swapeager" ELSE "done")
    /\ out' = IF shape.eager /\ ~shape.shard
              THEN [out EXCEPT ![c].eager = sb[c].eager] ELSE out
    /\ UNCHANGED <<shape, tile, sb, hbm>>
SwapEager ==
    /\ Meet("swapeager", "done")
    /\ out' = [c \in Core |-> [out[c] EXCEPT !.eager = Place(c, sb[c].eager, sb[1 - c].eager)]]
    /\ UNCHANGED <<shape, tile, sb, hbm>>

CoreStep(c) ==
    \/ Logits(c) \/ Activate(c) \/ TopK(c) \/ Weigh(c)
    \/ ZeroTile(c) \/ ScatterIndirect(c) \/ ReturnEager(c)

AllDone == \A c \in Core : pc[c] = "done"
Work == (\E c \in Core : CoreStep(c)) \/ SwapIndex \/ Barrier \/ SwapAffinities \/ SwapEager
Next == Work \/ (AllDone /\ UNCHANGED vars)

------------------------------------------------------------------------------
(* Properties.                                                                *)

TypeOK ==
    /\ shape \in Launches
    /\ pc \in [Core -> {"logits", "act1", "fullmeet", "topk", "swapidx", "weigh", "affmeet",
                        "swapaff", "zero", "indirect", "eager", "swapeager", "done"}]
    /\ \A c \in Core : tile[c] \in 0 .. NumTTiles(c)
    /\ \A c \in Core : sb[c].index = <<>> \/ sb[c].index \in [Local(c) -> [1 .. K -> Expert]]

\* What a token's logits are, and the experts with the K largest of them.
RefLogit(t, e) == Logit(t, e) + (IF shape.bias THEN Bias(e) ELSE 0)
RefRank(t, e) == Cardinality({f \in Expert : RefLogit(t, f) > RefLogit(t, e)}) + 1
RefTop(t) == {e \in Expert : RefRank(t, e) <= K}

\* The weight of an expert: among all experts, or among the chosen alone.
RefWeight(t, e) ==
    LET among == IF Scatters THEN RefTop(t) ELSE Expert
        best == Max({RefLogit(t, f) : f \in Expert})
    IN  IF shape.act = "sigmoid"
        THEN [n |-> RefLogit(t, e),
              d |-> IF shape.pre /\ shape.norm THEN {RefLogit(t, f) : f \in RefTop(t)} ELSE {}]
        ELSE [n |-> RefLogit(t, e) - best, d |-> {RefLogit(t, f) - best : f \in among}]

IndexRight(idx) ==
    /\ DOMAIN idx = 0 .. T - 1
    /\ \A t \in 0 .. T - 1 : Len(idx[t]) = K /\ \A k \in 1 .. K : RefRank(t, idx[t][k]) = k
WeightRight(t, e, w) ==
    w = IF ~Scatters \/ e \in RefTop(t) THEN RefWeight(t, e) ELSE Zero
FlatRight == \A x \in DOMAIN hbm.aff : WeightRight(x \div Experts, x % Experts, hbm.aff[x])

\* When the cores are done, every output, in HBM or on each core, has for every
\* token its logits, its K best experts in order, their softmax (or sigmoid,
\* normed or not) at their own places, zeros elsewhere, and the same weights in
\* the order of the experts: router_topk's pseudo code, computed without tiles.
RoutesAsReference ==
    AllDone =>
        /\ \A t \in 0 .. T - 1, e \in Expert : hbm.logits[t][e] = RefLogit(t, e)
        /\ ~shape.idxSb => IndexRight(hbm.idx)
        /\ ~shape.affSb => FlatRight
        /\ \A c \in Cores :
            /\ shape.idxSb => IndexRight(out[c].idx)
            /\ shape.affSb =>
                /\ DOMAIN out[c].aff = 0 .. T - 1
                /\ \A t \in 0 .. T - 1, e \in Expert : WeightRight(t, e, out[c].aff[t][e])
            /\ shape.eager =>
                /\ DOMAIN out[c].eager = 0 .. T - 1
                /\ \A t \in 0 .. T - 1, k \in 1 .. K :
                    \A e \in Expert : RefRank(t, e) = k => out[c].eager[t][k] = RefWeight(t, e)

\* Past the barrier a core finds the affinities of both in HBM.
CompleteBehindBarrier ==
    \A c \in Cores :
        \/ ~Scatters /\ shape.cores = 2 /\ pc[c] \notin {"logits", "act1", "fullmeet"}
        \/ Scatters /\ ~shape.indirect /\ ~shape.affSb /\ pc[c] \in {"eager", "swapeager", "done"}
        => FlatRight
=============================================================================
