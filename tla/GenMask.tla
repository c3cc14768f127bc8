-------------------------------- MODULE GenMask ---------------------------------
(***************************************************************************)
(* The attention mask of token generation, as gen_mask_tkg builds it in the *)
(* launch and as gen_mask_tkg_hbm builds it ahead of it.                    *)
(*                                                                          *)
(* A request is a record: n columns of P slots to fill, of a core's         *)
(* `perShard' slots from `off' on, for shard `prg', in blocks of `bl' (0: a *)
(* flat cache), strided or not; `total' counts the columns of all tiles     *)
(* when the caller walks them itself (0: it does not); `sa' active tokens   *)
(* lie at the end of the context.  A slot is a partition and a column.      *)
(***************************************************************************)
EXTENDS Integers, FiniteSets, FiniteSetsExt

CONSTANT P  \* partitions of a tile

PartitionAssumption == P \in Nat \ {0}

NoSlot == -1
NoStart == -1
CeilDiv(a, b) == (a + b - 1) \div b

\* Where a slot of a block cache lies in the context.
BlockIota(g, p, f) ==
    (g.prg * g.perShard) + g.off + ((f \div g.bl) * P * g.bl)
        + (p * g.bl) + (f % g.bl)

\* Where a slot of a flat cache lies: strided slots step over the partitions first.
StrideIota(g, p, f) ==
    CASE ~g.strided -> (g.prg * g.perShard) + g.off + (f * P) + p
      [] g.strided /\ g.total = 0 ->
            (g.prg * g.perShard) + g.off + f + (p * g.n)
      [] OTHER ->
            (g.prg * (g.perShard \div P)) + (g.off \div P) + f + (p * g.total)

Iota(g, p, f) == IF g.bl > 0 THEN BlockIota(g, p, f) ELSE StrideIota(g, p, f)

\* The cached tokens a query sees without a window.
Before(i, pos) == i < pos

\* The cached tokens a query sees through a window, which wraps when it starts
\* after it ends: normal + is_wrap * (wrap - normal).
Band(i, start, end) ==
    LET ge == IF i >= start THEN 1 ELSE 0
        lt == IF i < end THEN 1 ELSE 0
        isWrap == IF start > end THEN 1 ELSE 0
    IN (ge * lt) + (isWrap * (Max({ge, lt}) - (ge * lt))) = 1

Prior(i, start, pos) ==
    IF start = NoStart THEN Before(i, pos) ELSE Band(i, start, pos)

\* The active token at a slot of a block cache.
ActiveOfBlock(g, p, f) ==
    LET at == g.off + ((f \div g.bl) * P * g.bl) + (p * g.bl) + (f % g.bl)
        first == g.perShard - g.sa
    IN IF at >= first /\ at < g.perShard THEN at - first ELSE NoSlot

\* The active token at a slot of a strided cache.
ActiveOfStride(g, p, f) ==
    LET n == IF g.total > 0 THEN g.total ELSE g.n
        column == IF g.total > 0 THEN f + (g.off \div P) ELSE f
        first == (n * P) - g.sa
        at == (p * n) + column
    IN IF at >= first THEN at - first ELSE NoSlot

\* The active token at a slot of any cache.
ActiveSlot(g, p, f) ==
    IF g.bl > 0 THEN ActiveOfBlock(g, p, f)
    ELSE IF g.strided THEN ActiveOfStride(g, p, f)
    ELSE IF f = g.n - 1 /\ p >= P - g.sa THEN p - (P - g.sa) ELSE NoSlot

\* Whether a tile reaches the active tokens at all.
Reaches(g) == g.off + (g.n * P) > g.perShard - g.sa

\* What the active mask says of query q and active token k: the caller's is causal.
ActiveMask(k, q) == k <= q

\* The mask of one slot and query; `active' says whether the active mask was passed.
TileMask(g, active, start, pos, q, p, f) ==
    IF active /\ Reaches(g) /\ ActiveSlot(g, p, f) # NoSlot
    THEN ActiveMask(ActiveSlot(g, p, f), q)
    ELSE Prior(Iota(g, p, f), start, pos)

---------------------------------------------------------------------------
(* The mask built ahead of the launch *)

\* Columns of a tile the budget allows, at least one fold of a block cache, evened
\* so that all tiles of a shard are alike.
EvenTiles(columns, bl, budget) ==
    LET least == IF bl > 0 THEN bl ELSE 1
        most == Min({columns, Max({least, budget})})
        fits == {t \in least .. most :
                    columns % t = 0 /\ (bl = 0 \/ t % bl = 0)}
    IN IF fits = {} THEN least ELSE Max(fits)

\* The active token at a strided slot of the wrapper's tile, counted over all shards.
ActiveOfHbm(g, shards, p, f) ==
    LET base == (IF shards > 1 THEN g.prg * (g.perShard \div P) ELSE 0)
                    + (g.off \div P)
        at == (p * g.total) + base + f
        first == (shards * g.perShard) - g.sa
    IN IF at >= first THEN at - first ELSE NoSlot

\* The active token at a slot of the wrapper's tile: blocks go through the launch's
\* own loader, on the last shard alone.
ActiveInHbm(g, shards, p, f) ==
    IF g.strided /\ g.bl = 0 THEN ActiveOfHbm(g, shards, p, f)
    ELSE IF g.prg = shards - 1 THEN ActiveSlot([g EXCEPT !.total = 0], p, f)
    ELSE NoSlot

\* One row of the mask the wrapper leaves in HBM, columns before partitions.
HbmMask(prior, shards, sa, bl, budget, start, pos, q, row) ==
    LET strided == bl = 0
        perShard == prior \div shards
        columns == perShard \div P
        n == EvenTiles(columns, bl, budget)
        column == row \div P
        shard == column \div columns
        tile == (column % columns) \div n
        f == (column % columns) % n
        p == row % P
        g == [n |-> n, perShard |-> perShard, prg |-> shard,
              off |-> tile * n * P, bl |-> bl, strided |-> strided,
              total |-> IF strided THEN prior \div P ELSE 0, sa |-> sa]
        k == ActiveInHbm(g, shards, p, f)
    IN IF Reaches(g) /\ k # NoSlot THEN ActiveMask(k, q)
       ELSE Prior(Iota(g, p, f), start, pos)
=============================================================================
