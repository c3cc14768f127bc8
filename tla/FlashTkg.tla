-------------------------------- MODULE FlashTkg --------------------------------
(***************************************************************************)
(* Token-generation attention over one head of keys (attention_tkg): the    *)
(* cores of a launch share the context or the batch, walk the batch in      *)
(* tiles and the context in flash tiles, keep a running maximum, sum and    *)
(* output, and meet to merge what they found.                               *)
(*                                                                          *)
(* A weight is exp(score - maximum), kept as its exponent, and a sum as the *)
(* set of the weights in it; minus infinity is a number below all scores.   *)
(* A score is of a key and a query, a summand of the output names the key   *)
(* it was weighted by and the value it took, so that a slot whose key,      *)
(* value and mask disagree shows.                                           *)
(***************************************************************************)
EXTENDS GenMask, Sequences

CONSTANTS
    Score(_, _, _, _),  \* the score of a batch, head, query and token
    SinkOf(_),          \* the sink of a head
    Configs,            \* the launches the instance compiles
    Freq                \* bound: the one inverse frequency, in eighths of a turn

Inf == 1000
NegInf == -Inf
Act == 100              \* active token k is Act + k
Junk == 777             \* what a buffer holds before it is written
Sink == -1              \* the key of the sink's weight
Hbm == 2                \* the place of the output in HBM, beside the cores' own

VARIABLES
    cfg,    \* what the launch was compiled for
    pos,    \* per batch row, the tokens its cache holds
    start,  \* per batch row, where its window starts
    pc, bt, ft,     \* per core: its step, batch tile and flash tile
    qk,     \* per core: slot and row to score, later to exponent
    buf,    \* per core: cells of tile maxima, local, received and sink
    mx,     \* per core: cells of the maximum, negated when it says so
    corr,   \* per core: cells of the correction's exponent
    sum,    \* per core: row to the weights of the tile's sum
    acc,    \* per core: row to the running sum and output
    nan,    \* per core: rows whose numbers are not numbers
    kout,   \* rotated active keys handed back, and by whom
    out     \* row of the launch to its result, <<>> before

vars == <<cfg, pos, start, pc, bt, ft, qk, buf, mx, corr, sum, acc, nan,
          kout, out>>

---------------------------------------------------------------------------
(* Sharding and tiles *)

Cores == IF cfg.shard = "none" THEN {0} ELSE {0, 1}
PriorPrgs == IF cfg.shard = "prior" THEN 2 ELSE 1
PriorId(c) == IF cfg.shard = "prior" THEN c ELSE 0
BsPrgs == IF cfg.shard = "batch" THEN 2 ELSE 1
BsId(c) == IF cfg.shard = "batch" THEN c ELSE 0

SA == cfg.sa
PriorOf(k) == k.prior \div (IF k.shard = "prior" THEN 2 ELSE 1)

\* Flash tiles are used when a core's context is longer than one.
Flash(k) == k.fa > 0 /\ PriorOf(k) > k.fa
UseFa == Flash(cfg)
SPrior == PriorOf(cfg)
BsPerNc == cfg.bs \div BsPrgs
QHeads == cfg.heads
QS == QHeads * SA

\* What the kernel asserts of a configuration.
TileParams(k) ==
    /\ PriorOf(k) % P = 0
    /\ k.fuse => k.shard # "batch" /\ k.bs * k.heads * k.sa <= P
    /\ Flash(k) => LET rest == PriorOf(k) % k.fa
                   IN (IF rest = 0 THEN k.fa ELSE rest) >= k.sa

\* What it asserts of a block cache.
BlockParams(k) ==
    k.bl > 0 => /\ ~k.strided /\ k.len % k.bl = 0
                /\ PriorOf(k) % (k.bl * P) = 0
                /\ Flash(k) => k.fa % (k.bl * P) = 0

FaTiles == IF UseFa THEN CeilDiv(SPrior, cfg.fa) ELSE 1
TileOff(t) == IF UseFa THEN t * cfg.fa ELSE 0
TileLen(t) == IF UseFa THEN Min({cfg.fa, SPrior - TileOff(t)}) ELSE SPrior
TileN(t) == CeilDiv(TileLen(t), P)

IsLast(t) == t = FaTiles - 1

BatchTiles == CeilDiv(BsPerNc, cfg.bt)
TileBs(c) == Min({cfg.bt, BsPerNc - (bt[c] * cfg.bt)})
GlobalOff(c) == (BsId(c) * BsPerNc) + (bt[c] * cfg.bt)

\* Rows of a batch tile: batch, head, query; cells: the rows in columns of P.
Rows(c) == 0 .. (TileBs(c) * QS) - 1
BatchOf(r) == r \div QS
HeadOf(r) == (r % QS) \div SA
QueryOf(r) == r % SA
CellTile(c) == IF CeilDiv(TileBs(c) * QS, P) > 1 THEN P ELSE TileBs(c) * QS
NBsq(c) == CeilDiv(TileBs(c) * QS, P)
CellRow(c, cell) == (cell[2] * CellTile(c)) + cell[1]
CellOf(c, r) == <<r % CellTile(c), r \div CellTile(c)>>
Cells(c) == (0 .. CellTile(c) - 1) \X (0 .. NBsq(c) - 1)

\* The core that holds the end of the context takes the active tokens, in its last tile.
Owner(c) == PriorId(c) = PriorPrgs - 1
ActiveHere(c) == Owner(c) /\ IsLast(ft[c])

---------------------------------------------------------------------------
(* The cache as it is loaded *)

Blocks == cfg.prior \div cfg.len
Table(b, i) == (b * Blocks) + (Blocks - 1 - i)

\* The fold of the batch row's whole context a fold of the tile is.
Fold(c, rel) ==
    (PriorId(c) * (SPrior \div (cfg.bl * P))) + (TileOff(ft[c]) \div (cfg.bl * P))
        + rel

\* The block table as resized and spread over the partitions.
TableSb(c, b, p, rel) ==
    LET factor == cfg.len \div cfg.bl
        j == (Fold(c, rel) * P) + p
    IN (Table(b, j \div factor) * factor) + (j % factor)

\* The token a row of a (resized) physical block holds.
Cached(sub, row) ==
    LET factor == cfg.len \div cfg.bl
        phys == sub \div factor
        i == Blocks - 1 - (phys % Blocks)
    IN <<phys \div Blocks, (i * cfg.len) + ((sub % factor) * cfg.bl) + row>>

\* The active token that overwrites a row of a block: the last blocks of the last
\* fold, the first of them from `extra' on.
ActiveRow(rel, p, row, folds) ==
    LET cover == CeilDiv(SA, cfg.bl)
        extra == (cover * cfg.bl) - SA
        k == ((p - (P - cover)) * cfg.bl) + row - extra
    IN IF rel = folds - 1 /\ p >= P - cover /\ k >= 0 THEN k ELSE NoSlot

\* Keys of a block cache: transposed, a block's rows P columns apart.
BlockKey(c, b, p, f) ==
    LET rel == f \div cfg.bl
        row == f % cfg.bl
        k == ActiveRow(rel, p, row, TileN(ft[c]) \div cfg.bl)
    IN IF ActiveHere(c) /\ k # NoSlot THEN <<b, Act + k>>
       ELSE Cached(TableSb(c, b, p, rel), row)

\* Keys of a flat cache: one run of columns, its last SA replaced.
FlatKey(c, b, col) ==
    LET len == TileLen(ft[c])
    IN IF ActiveHere(c) /\ col >= len - SA THEN <<b, Act + (col - (len - SA))>>
       ELSE <<b, (PriorId(c) * SPrior) + TileOff(ft[c]) + col>>

\* The key column a slot's score is taken from.
KeyAt(c, b, p, f) ==
    IF cfg.bl > 0 THEN BlockKey(c, b, p, f)
    ELSE FlatKey(c, b, IF cfg.strided THEN (p * TileN(ft[c])) + f ELSE (f * P) + p)

\* Values of a block cache: a block's rows side by side in its partition.
BlockValue(c, b, p, f) ==
    LET rel == f \div cfg.bl
        row == f % cfg.bl
        k == ActiveRow(rel, p, row, TileN(ft[c]) \div cfg.bl)
    IN IF ActiveHere(c) /\ k # NoSlot THEN <<b, Act + k>>
       ELSE Cached(TableSb(c, b, p, rel), row)

\* Active values of a strided cache: a part of a partition, then whole ones.
StridedActive(p, f, n) ==
    LET load1 == SA % n
        load2 == SA - load1
        p2 == P - (load2 \div n)
    IN CASE p >= p2 -> load1 + ((p - p2) * n) + f
         [] load1 > 0 /\ p = p2 - 1 /\ f >= n - load1 -> f - (n - load1)
         [] OTHER -> NoSlot

\* Values of a flat cache: sequential when the keys are strided, strided otherwise.
FlatValue(c, b, p, f) ==
    LET n == TileN(ft[c])
        base == (PriorId(c) * SPrior) + TileOff(ft[c])
        k == IF cfg.strided THEN StridedActive(p, f, n)
             ELSE IF p >= P - SA /\ f = n - 1 THEN p - (P - SA) ELSE NoSlot
    IN IF ActiveHere(c) /\ k # NoSlot THEN <<b, Act + k>>
       ELSE <<b, base + (IF cfg.strided THEN (p * n) + f ELSE (f * P) + p)>>

ValueAt(c, b, p, f) ==
    IF cfg.bl > 0 THEN BlockValue(c, b, p, f) ELSE FlatValue(c, b, p, f)

\* The mask of a slot: made in the launch, or loaded from the one made before it.
MaskAt(c, i, q, p, f) ==
    LET b == GlobalOff(c) + i
        n == TileN(ft[c])
        g == [n |-> n, perShard |-> SPrior, prg |-> PriorId(c),
              off |-> TileOff(ft[c]), bl |-> cfg.bl, strided |-> cfg.strided,
              total |-> 0, sa |-> SA]
        row == (PriorId(c) * SPrior) + TileOff(ft[c])
                 + (IF cfg.strided /\ cfg.bl = 0 THEN (p * n) + f ELSE (f * P) + p)
    IN IF cfg.given
       THEN HbmMask(cfg.prior, PriorPrgs, SA, cfg.bl, cfg.budget, start[b], pos[b],
                    q, row)
       ELSE TileMask(g, ActiveHere(c), start[b], pos[b], q, p, f)

---------------------------------------------------------------------------
(* Rotation *)

\* The angle wrapped into half a turn either way; a tie of the rounding goes to even.
Wrapped(x) ==
    LET y == x + 4
        q == IF y % 8 = 0 /\ (y \div 8) % 2 = 1 THEN (y \div 8) - 1 ELSE y \div 8
    IN (y - (q * 8)) - 4

Angle(b, k) == Wrapped(Freq * (pos[b] + k))

\* The cores that turn active keys: the one that will use them, all of them when the
\* keys are handed back in each core's own memory.
PerformRope(c) ==
    /\ pc[c] = "rope"
    /\ kout' = kout \cup
                {<<IF cfg.sb THEN c ELSE Hbm, x, Angle(x[1], x[2])>> :
                    x \in IF cfg.fuse /\ (cfg.sb \/ Owner(c))
                          THEN (0 .. cfg.bs - 1) \X (0 .. SA - 1) ELSE {}}
    /\ pc' = [pc EXCEPT ![c] = "scores"]
    /\ UNCHANGED <<cfg, pos, start, bt, ft, qk, buf, mx, corr, sum, acc, nan, out>>

---------------------------------------------------------------------------
(* Keys times queries *)

\* Score of a row's query and a key.
ScoreOf(row, key) == Score(key[1], HeadOf(row), QueryOf(row), key[2])

Slots(c) == (0 .. P - 1) \X (0 .. TileN(ft[c]) - 1)

\* Scores are copied where the mask says so onto minus infinity.
QkMatmul(c) ==
    /\ pc[c] = "scores"
    /\ qk' = [qk EXCEPT ![c] =
                [x \in Slots(c) \X Rows(c) |->
                    LET r == x[2]
                        i == BatchOf(r)
                        key == KeyAt(c, GlobalOff(c) + i, x[1][1], x[1][2])
                    IN IF MaskAt(c, i, QueryOf(r), x[1][1], x[1][2])
                       THEN ScoreOf(r, key)
                       ELSE NegInf]]
    /\ pc' = [pc EXCEPT ![c] = "max"]
    /\ UNCHANGED <<cfg, pos, start, bt, ft, buf, mx, corr, sum, acc, nan,
                   kout, out>>

---------------------------------------------------------------------------
(* The maximum *)

\* Whether the cores merge at every tile, at the last one, or never.
SyncPerTile == ~UseFa \/ PriorPrgs = 1
SyncAtEnd(t) == PriorPrgs > 1 /\ UseFa /\ IsLast(t)

\* The tile whose reduction the sink joins.
PrepSink(t) == cfg.sink /\ IF SyncPerTile THEN t = 0 ELSE IsLast(t)

SwapsTile == PriorPrgs > 1 /\ SyncPerTile
Length(t) == 1 + (IF PriorPrgs > 1 /\ ~UseFa THEN 1 ELSE 0)
               + (IF PrepSink(t) THEN 1 ELSE 0)
SinkIdx(t) == Length(t) - 1

\* Whether the maximum is kept negated; tiles after the sink's must agree with it.
Negated(t) == (Length(t) > 1 /\ SyncPerTile)
                \/ (cfg.sink /\ UseFa /\ PriorPrgs = 1)

Signed(t, x) == IF Negated(t) THEN -x ELSE x
Largest(S) == Max(S \cup {NegInf})

\* The sink of a row's head, repeated for its queries and for each batch row.
TileSink(r) == SinkOf(HeadOf(r))

\* The tile's maxima, transposed to cells, and the sinks beside them.
MaxOfTile(c) ==
    [x \in Cells(c) \X (0 .. Length(ft[c]) - 1) |->
        LET r == CellRow(c, x[1])
        IN IF r \notin Rows(c) THEN Junk
           ELSE IF x[2] = 0 THEN Largest({qk[c][s, r] : s \in Slots(c)})
           ELSE IF PrepSink(ft[c]) /\ x[2] = SinkIdx(ft[c]) THEN TileSink(r)
           ELSE Junk]

MaxReduce(c) ==
    /\ pc[c] = "max"
    /\ buf' = [buf EXCEPT ![c] = MaxOfTile(c)]
    /\ pc' = [pc EXCEPT ![c] = IF SwapsTile THEN "swapmax" ELSE "running"]
    /\ UNCHANGED <<cfg, pos, start, bt, ft, qk, mx, corr, sum, acc, nan, kout, out>>

Received(x, c) == [y \in DOMAIN x |-> IF y[2] = 1 THEN buf[1 - c][y[1], 0] ELSE x[y]]

\* Both cores send their maxima and take the other's.
SwapMax ==
    /\ \A c \in Cores : pc[c] = "swapmax"
    /\ buf' = [c \in Cores |-> Received(buf[c], c)]
    /\ pc' = [c \in Cores |-> "running"]
    /\ UNCHANGED <<cfg, pos, start, bt, ft, qk, mx, corr, sum, acc, nan, kout, out>>

\* The final reduction of the cells: 2 or 3 entries to one.
TileMax(c, cell) ==
    Signed(ft[c],
           IF SyncPerTile
           THEN Max({buf[c][cell, i] : i \in 0 .. Length(ft[c]) - 1})
           ELSE buf[c][cell, 0])

\* Mutant: the running maximum of negated values is still their maximum.
AlwaysMax(t, S) == Max(S)

Extreme(t, S) == IF Negated(t) THEN Min(S) ELSE Max(S)

\* The exponent of exp(previous - current), both with their sign.
Correction(t, prev, cur) == IF Negated(t) THEN cur - prev ELSE prev - cur

\* An exponent that is not a number: infinity minus infinity.
Undefined(prev, cur) == prev = cur /\ prev \in {Inf, NegInf}

NextStep(c) == IF SyncAtEnd(ft[c]) THEN "swaprun" ELSE "exp"

\* The running maximum after the tile; a first tile copies, a later one corrects.
RunningMax(c) ==
    LET t == ft[c]
        cur == [cell \in Cells(c) |->
                    IF t = 0 \/ ~UseFa THEN TileMax(c, cell)
                    ELSE Extreme(t, {mx[c][cell], TileMax(c, cell)})]
    IN /\ pc[c] = "running"
       /\ mx' = [mx EXCEPT ![c] = cur]
       /\ IF t = 0
          THEN /\ corr' = [corr EXCEPT ![c] = [cell \in Cells(c) |-> 0]]
               /\ pc' = [pc EXCEPT ![c] = "exp"]
               /\ UNCHANGED nan
          ELSE /\ IF SyncAtEnd(t)
                  THEN corr' = [corr EXCEPT ![c] = mx[c]] /\ UNCHANGED nan
                  ELSE /\ corr' = [corr EXCEPT ![c] =
                            [cell \in Cells(c) |-> Correction(t, mx[c][cell], cur[cell])]]
                       /\ nan' = [nan EXCEPT ![c] = @ \cup
                            {r \in Rows(c) : LET cell == CellOf(c, r)
                                             IN Undefined(mx[c][cell], cur[cell])}]
               /\ pc' = [pc EXCEPT ![c] = NextStep(c)]
       /\ UNCHANGED <<cfg, pos, start, bt, ft, qk, buf, sum, acc, kout, out>>

\* What a core sends: its running maximum and, where it prepared one, the sink.
WithSink(c, cell) ==
    IF PrepSink(ft[c]) THEN Max({mx[c][cell], buf[c][cell, SinkIdx(ft[c])]})
    ELSE mx[c][cell]

\* On the last tile both cores take the larger of their running maxima; `corr' held
\* the maximum before this tile.
SwapRunning ==
    LET all == [c \in Cores |-> [cell \in Cells(c) |->
                  Max({WithSink(c, cell), WithSink(1 - c, cell)})]]
    IN /\ \A c \in Cores : pc[c] = "swaprun"
       /\ mx' = all
       /\ corr' = [c \in Cores |-> [cell \in Cells(c) |->
                      Correction(ft[c], corr[c][cell], all[c][cell])]]
       /\ nan' = [c \in Cores |-> nan[c] \cup
                    {r \in Rows(c) : LET cell == CellOf(c, r)
                                     IN Undefined(corr[c][cell], all[c][cell])}]
       /\ pc' = [c \in Cores |-> "exp"]
       /\ UNCHANGED <<cfg, pos, start, bt, ft, qk, buf, sum, acc, kout, out>>

---------------------------------------------------------------------------
(* Exponentials and their sum *)

\* Minus infinity clamped to a number.
Clamped(m) == IF m = NegInf THEN 0 ELSE m

\* The maximum a row subtracts: the running one.
RowMax(c, r) == Clamped(Signed(ft[c], mx[c][CellOf(c, r)]))

ExpQk(c) ==
    /\ pc[c] = "exp"
    /\ nan' = [nan EXCEPT ![c] = @ \cup {r \in Rows(c) : RowMax(c, r) = NegInf}]
    /\ qk' = [qk EXCEPT ![c] =
                [x \in DOMAIN qk[c] |-> IF qk[c][x] = NegInf THEN NegInf
                                        ELSE qk[c][x] - RowMax(c, x[2])]]
    /\ pc' = [pc EXCEPT ![c] = "sum"]
    /\ UNCHANGED <<cfg, pos, start, bt, ft, buf, mx, corr, sum, acc, kout, out>>

\* The weights a row has in the tile.
Weights(c, r) ==
    {[key |-> KeyAt(c, GlobalOff(c) + BatchOf(r), s[1], s[2]), exp |-> qk[c][s, r]] :
        s \in {s \in Slots(c) : qk[c][s, r] # NegInf}}

SinkWeight(c, r) ==
    [key |-> <<Sink, HeadOf(r)>>, exp |-> SinkOf(HeadOf(r)) - RowMax(c, r)]

SumReduce(c) ==
    /\ pc[c] = "sum"
    /\ sum' = [sum EXCEPT ![c] = [r \in Rows(c) |-> Weights(c, r)]]
    /\ pc' = [pc EXCEPT ![c] = IF SwapsTile THEN "swapsum" ELSE "accsum"]
    /\ UNCHANGED <<cfg, pos, start, bt, ft, qk, buf, mx, corr, acc, nan, kout, out>>

\* Both cores send the tile's sums and add what they receive.
SwapSum ==
    /\ \A c \in Cores : pc[c] = "swapsum"
    /\ sum' = [c \in Cores |-> [r \in Rows(c) |-> sum[c][r] \cup sum[1 - c][r]]]
    /\ pc' = [c \in Cores |-> "accsum"]
    /\ UNCHANGED <<cfg, pos, start, bt, ft, qk, buf, mx, corr, acc, nan, kout, out>>

\* The sum with the sink, on the tile it joins when the cores merge per tile.
TileSum(c, r) ==
    IF cfg.sink /\ SyncPerTile /\ ft[c] = 0
    THEN sum[c][r] \cup {SinkWeight(c, r)} ELSE sum[c][r]

\* Weights times exp(e); a factor of zero leaves none.
Scaled(S, e) ==
    IF e <= NegInf \div 2 THEN {} ELSE {[w EXCEPT !.exp = @ + e] : w \in S}

AccSum(c) ==
    /\ pc[c] = "accsum"
    /\ acc' = [acc EXCEPT ![c] =
                [r \in Rows(c) |->
                    [num |-> IF ft[c] = 0 THEN {} ELSE acc[c][r].num,
                     den |-> TileSum(c, r) \cup
                             (IF ft[c] = 0 THEN {}
                              ELSE Scaled(acc[c][r].den, corr[c][CellOf(c, r)]))]]]
    /\ pc' = [pc EXCEPT ![c] = IF SyncAtEnd(ft[c]) /\ ft[c] > 0 THEN "swaptotal"
                               ELSE "values"]
    /\ UNCHANGED <<cfg, pos, start, bt, ft, qk, buf, mx, corr, sum, nan, kout, out>>

\* On the last tile the cores add their running sums and then, each, the sink.
SwapTotal ==
    /\ \A c \in Cores : pc[c] = "swaptotal"
    /\ acc' = [c \in Cores |-> [r \in Rows(c) |->
                [acc[c][r] EXCEPT !.den =
                    acc[c][r].den \cup acc[1 - c][r].den \cup
                    (IF PrepSink(ft[c]) THEN {SinkWeight(c, r)} ELSE {})]]]
    /\ nan' = [c \in Cores |-> nan[0] \cup nan[1]]
    /\ pc' = [c \in Cores |-> "values"]
    /\ UNCHANGED <<cfg, pos, start, bt, ft, qk, buf, mx, corr, sum, kout, out>>

---------------------------------------------------------------------------
(* Values and output *)

\* The weighted values of a row in the tile.
Weighted(c, r) ==
    LET b == GlobalOff(c) + BatchOf(r)
    IN {[key |-> KeyAt(c, b, s[1], s[2]), val |-> ValueAt(c, b, s[1], s[2]),
         exp |-> qk[c][s, r]] : s \in {s \in Slots(c) : qk[c][s, r] # NegInf}}

PvMatmul(c) ==
    /\ pc[c] = "values"
    /\ acc' = [acc EXCEPT ![c] =
                [r \in Rows(c) |->
                    [acc[c][r] EXCEPT !.num =
                        Weighted(c, r) \cup
                        (IF ft[c] = 0 THEN {} ELSE Scaled(@, corr[c][CellOf(c, r)]))]]]
    /\ IF IsLast(ft[c])
       THEN /\ pc' = [pc EXCEPT ![c] = IF PriorPrgs > 1 THEN "swapout" ELSE "store"]
            /\ UNCHANGED ft
       ELSE /\ pc' = [pc EXCEPT ![c] = "scores"]
            /\ ft' = [ft EXCEPT ![c] = @ + 1]
    /\ UNCHANGED <<cfg, pos, start, bt, qk, buf, mx, corr, sum, nan, kout, out>>

\* Both cores divide by their sums and send; core 0, or both, adds what it receives.
SwapOut ==
    /\ \A c \in Cores : pc[c] = "swapout"
    /\ acc' = [c \in Cores |-> [r \in Rows(c) |->
                IF cfg.sb \/ c = 0
                THEN [acc[c][r] EXCEPT !.num = @ \cup acc[1 - c][r].num]
                ELSE acc[c][r]]]
    /\ pc' = [c \in Cores |-> "store"]
    /\ UNCHANGED <<cfg, pos, start, bt, ft, qk, buf, mx, corr, sum, nan, kout, out>>

\* The row of the launch a row of the batch tile is.
OutRow(c, r) == (GlobalOff(c) * QS) + r

\* The places that get a core's rows: the HBM output from core 0 of a shared context,
\* every core's own SBUF copy, and the other's when the batch is shared.
Places(c) ==
    CASE ~cfg.sb -> IF PriorId(c) = 0 THEN {Hbm} ELSE {}
      [] cfg.sb /\ cfg.shard = "batch" -> {0, 1}
      [] OTHER -> {c}

\* Mutant: the batch tile is not counted on.
SameBatchTile(c) ==
    /\ ft' = [ft EXCEPT ![c] = 0]
    /\ pc' = [pc EXCEPT ![c] = IF bt[c] + 1 < BatchTiles THEN "scores" ELSE "done"]
    /\ UNCHANGED bt

\* The next batch tile, or the end.
GoOn(c) ==
    IF bt[c] + 1 < BatchTiles
    THEN /\ bt' = [bt EXCEPT ![c] = @ + 1]
         /\ ft' = [ft EXCEPT ![c] = 0]
         /\ pc' = [pc EXCEPT ![c] = "scores"]
    ELSE pc' = [pc EXCEPT ![c] = "done"] /\ UNCHANGED <<bt, ft>>

StoreOutput(c) ==
    /\ pc[c] = "store"
    /\ out' = out \cup {[at |-> p, row |-> OutRow(c, r), nan |-> r \in nan[c],
                         num |-> acc[c][r].num, den |-> acc[c][r].den] :
                         p \in Places(c), r \in Rows(c)}
    /\ nan' = [nan EXCEPT ![c] = {}]
    /\ GoOn(c)
    /\ UNCHANGED <<cfg, pos, start, qk, buf, mx, corr, sum, acc, kout>>

---------------------------------------------------------------------------
(* The launch *)

Init ==
    /\ cfg \in {k \in Configs : TileParams(k) /\ BlockParams(k)}
    /\ pos \in [0 .. cfg.bs - 1 -> 1 .. cfg.prior - SA]
    /\ start \in {[b \in 0 .. cfg.bs - 1 |-> w] : w \in cfg.windows}
    /\ pc = [c \in Cores |-> "rope"]
    /\ bt = [c \in Cores |-> 0]
    /\ ft = [c \in Cores |-> 0]
    /\ qk = [c \in Cores |-> <<>>]
    /\ buf = [c \in Cores |-> <<>>]
    /\ mx = [c \in Cores |-> <<>>]
    /\ corr = [c \in Cores |-> <<>>]
    /\ sum = [c \in Cores |-> <<>>]
    /\ acc = [c \in Cores |-> <<>>]
    /\ nan = [c \in Cores |-> {}]
    /\ kout = {}
    /\ out = {}

CoreStep(c) ==
    \/ PerformRope(c) \/ QkMatmul(c) \/ MaxReduce(c) \/ RunningMax(c) \/ ExpQk(c)
    \/ SumReduce(c) \/ AccSum(c) \/ PvMatmul(c) \/ StoreOutput(c)

Meet == SwapMax \/ SwapRunning \/ SwapSum \/ SwapTotal \/ SwapOut

Finished == (\A c \in Cores : pc[c] = "done") /\ UNCHANGED vars

Next == (\E c \in Cores : CoreStep(c)) \/ Meet \/ Finished

Spec == Init /\ [][Next]_vars /\ WF_vars(Meet)
          /\ \A c \in {0, 1} : WF_vars(c \in Cores /\ CoreStep(c))

---------------------------------------------------------------------------
(* What the launch promises *)

Steps == {"rope", "scores", "max", "swapmax", "running", "swaprun", "exp", "sum",
          "swapsum", "accsum", "swaptotal", "values", "swapout", "store", "done"}

\* Every index stays in its tiles.
TypeOK ==
    /\ cfg \in Configs
    /\ \A c \in Cores : /\ pc[c] \in Steps
                        /\ bt[c] \in 0 .. BatchTiles - 1 /\ ft[c] \in 0 .. FaTiles - 1
                        /\ nan[c] \subseteq Rows(c)
    /\ \A o \in out : o.row \in 0 .. (cfg.bs * QS) - 1

\* What a row of the launch should be: every cached token its query sees and every
\* active token up to its own, and the sink in the sum.
Seen(b, q) ==
    {<<b, t>> : t \in {t \in 0 .. cfg.prior - SA - 1 : Prior(t, start[b], pos[b])}}
        \cup {<<b, Act + k>> : k \in 0 .. q}

Peak(row) ==
    Max({ScoreOf(row, key) : key \in Seen(BatchOf(row), QueryOf(row))}
         \cup (IF cfg.sink THEN {SinkOf(HeadOf(row))} ELSE {}))

\* A result written is softmax attention over exactly the tokens the query sees: each
\* value once, under its own key's weight, and one maximum for all, whatever the
\* sharding, the tiles, the cache's layout and the sink.
AttentionIsExact ==
    \A o \in out :
        LET seen == Seen(BatchOf(o.row), QueryOf(o.row))
            m == Peak(o.row)
        IN /\ o.num = {[key |-> k, val |-> k, exp |-> ScoreOf(o.row, k) - m] : k \in seen}
           /\ o.den = {[key |-> k, exp |-> ScoreOf(o.row, k) - m] : k \in seen} \cup
                (IF cfg.sink
                 THEN {[key |-> <<Sink, HeadOf(o.row)>>,
                        exp |-> SinkOf(HeadOf(o.row)) - m]} ELSE {})

\* No result is NaN: a comment of the kernel clamps the maximum of a tile in which
\* everything is masked so that minus infinity is not taken from itself.
NeverNaN == \A o \in out : ~o.nan

\* At the end every place that should hold the output has each row once.
Written(at) == {o.row : o \in {o \in out : o.at = at}}

OutputComplete ==
    (\A c \in Cores : pc[c] = "done") =>
        /\ \A at \in IF cfg.sb THEN Cores ELSE {Hbm} :
            Written(at) = 0 .. (cfg.bs * QS) - 1
        /\ \A o1, o2 \in out : o1.at = o2.at /\ o1.row = o2.row => o1 = o2

\* Fused rotation hands every active key back once in each place, turned by its own
\* position's angle and within half a turn, where the sine is defined.
KeysTurned ==
    /\ \A x, y \in kout : x[1] = y[1] /\ x[2] = y[2] => x = y
    /\ \A x \in kout : /\ x[3] \in -4 .. 4
                       /\ (x[3] - (Freq * (pos[x[2][1]] + x[2][2]))) % 8 = 0
    /\ cfg.fuse /\ (\A c \in Cores : pc[c] # "rope") =>
        {x[1] : x \in kout} = IF cfg.sb THEN Cores ELSE {Hbm}

\* Both cores come through every exchange and the launch ends.
LaunchEnds == <>(\A c \in Cores : pc[c] = "done")
=============================================================================
