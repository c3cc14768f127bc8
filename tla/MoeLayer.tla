------------------------------ MODULE MoeLayer ------------------------------
(***************************************************************************)
(* One MoE layer of a megakernel: the cores of a rank split the work by     *)
(* token or by hidden block, stream the selected experts through a          *)
(* two-slot ring of weights, add the shared expert, sum over the TP ranks   *)
(* and gather each other's part, so that both cores hold the whole tile.    *)
(*                                                                          *)
(* A selected expert is <<token, choice>>.  A partial product is the set of *)
(* <<hidden block, token, weights>> it contracted; a cell of the tile, one  *)
(* token in one hidden block, is the list of products added into it.        *)
(***************************************************************************)
EXTENDS Integers, Sequences

CONSTANTS
    TpDegree,   \* ranks of the replica group
    Shapes,     \* launches considered: T tokens, K experts each, prgs cores, big
    Junk        \* contents of a cell that was never written

TpDegreeAssumption == TpDegree \in Nat \ {0}
ShapesAssumption ==
    Shapes \subseteq [T : Nat \ {0}, K : Nat \ {0}, prgs : {1, 2}, big : BOOLEAN]
\* Split by hidden block, several tokens would leave a core no contiguous block:
\* moe_output_free_block expects that at T = 1 alone.
BlocksAssumption == \A s \in Shapes : s.prgs > 1 /\ s.big => s.T = 1

\* What was never written is no cell of a tile.
CellValue == Seq((Nat \X Nat) \X SUBSET (Nat \X Nat \X (Nat \X Nat))) \X SUBSET (Nat \X Nat)
JunkAssumption == Junk \notin CellValue

PREFETCH_SLOTS == 2

VARIABLES
    shape,      \* the running launch
    pc,         \* routed, reduce, gather, done, by core
    loaded,     \* selected experts whose weights have landed
    computed,   \* selected experts contracted and accumulated
    slots,      \* the weights in each slot of the ring
    part,       \* the partial product waiting for the peer's half
    acc,        \* running sum of every token of the core
    tile,       \* the core's own part of the layer's output
    reduced,    \* its free block, summed over the ranks
    out         \* the gathered tile

vars == <<shape, pc, loaded, computed, slots, part, acc, tile, reduced, out>>

Ranks == 0 .. TpDegree - 1
Cores == Ranks \X (0 .. 1)
Prg(p) == p[2]
Running(p) == Prg(p) < shape.prgs
Peer(p) == <<p[1], 1 - Prg(p)>>

(***************************************************************************)
(* Who does what: moe_token_shard, moe_h_shard, moe_output_free_block.      *)
(***************************************************************************)
HBlocks == 0 .. shape.prgs - 1

ShardOnT == shape.prgs > 1 /\ shape.T > 1 /\ ~shape.big
TFirst == shape.T \div shape.prgs
TOffset(p) == IF ShardOnT /\ Prg(p) # 0 THEN TFirst ELSE 0
TLen(p) ==
    IF ~ShardOnT THEN shape.T ELSE IF Prg(p) = 0 THEN TFirst ELSE shape.T - TFirst

\* The fallback whenever the token shard does not engage.
ShardOnH == shape.prgs > 1 /\ ~ShardOnT
Owned(p) == IF ShardOnH THEN {Prg(p)} ELSE HBlocks
Tokens(p) == TOffset(p) .. TOffset(p) + TLen(p) - 1

\* The core's valid block of the flat tile, <<offset, length>>; cell f holds
\* token f \div prgs, hidden block f % prgs.
FreeBlock(p) ==
    IF ShardOnT THEN <<TOffset(p) * shape.prgs, TLen(p) * shape.prgs>>
    ELSE IF ShardOnH THEN <<Prg(p), 1>> ELSE <<0, shape.T * shape.prgs>>

Cells == 0 .. shape.T * shape.prgs - 1
CellToken(f) == f \div shape.prgs
CellBlock(f) == f % shape.prgs

(***************************************************************************)
(* The expert loop: selected expert e of a core, counted over its tokens.   *)
(***************************************************************************)
Experts(p) == TLen(p) * shape.K
Selected(p, e) == <<TOffset(p) + (e \div shape.K), e % shape.K>>

ComputeSlot(e) == (e % shape.K) % PREFETCH_SLOTS

\* Slot 0 is primed with a token's first expert, expert k + 1 goes to the slot
\* after k's.
PrefetchSlot(e) == (e % shape.K) % PREFETCH_SLOTS

\* The load of e is issued before the expert before it is computed, or, for the
\* first expert of a token, after.
IssuedBefore(e, m) == m >= e \/ (m = e - 1 /\ e % shape.K # 0)

Init ==
    /\ shape \in Shapes
    /\ pc = [p \in Cores |-> IF Running(p) THEN "routed" ELSE "done"]
    /\ loaded = [p \in Cores |-> 0]
    /\ computed = [p \in Cores |-> 0]
    /\ slots = [p \in Cores |-> [i \in 0 .. PREFETCH_SLOTS - 1 |-> Junk]]
    /\ part = [p \in Cores |-> {}]
    /\ acc = [p \in Cores |-> [t \in 0 .. shape.T - 1 |-> Junk]]
    /\ tile = [p \in Cores |-> [f \in Cells |-> Junk]]
    /\ reduced = [p \in Cores |-> <<>>]
    /\ out = [p \in Cores |-> [f \in Cells |-> Junk]]

\* The DMA queue runs ahead of the tensor engine: a load waits only for the
\* earlier instructions that read its slot.
Load(p) ==
    LET e == loaded[p]
    IN  /\ pc[p] = "routed" /\ e < Experts(p)
        /\ \A m \in computed[p] .. Experts(p) - 1 :
              ComputeSlot(m) = PrefetchSlot(e) => IssuedBefore(e, m)
        /\ slots' = [slots EXCEPT ![p][PrefetchSlot(e)] = Selected(p, e)]
        /\ loaded' = [loaded EXCEPT ![p] = e + 1]
        /\ UNCHANGED <<shape, pc, computed, part, acc, tile, reduced, out>>

\* A contraction waits for the earlier loads of its slot.
Ready(p) ==
    LET m == computed[p]
    IN  /\ pc[p] = "routed" /\ m < Experts(p) /\ part[p] = {}
        /\ \A e \in loaded[p] .. Experts(p) - 1 :
              PrefetchSlot(e) = ComputeSlot(m) => ~IssuedBefore(e, m)

Weights(p) == slots[p][ComputeSlot(computed[p])]

\* What a core contracts of its current expert.
HalfProduct(p) ==
    {<<s, Selected(p, computed[p])[1], Weights(p)>> : s \in Owned(p)}

\* The first expert of a token overwrites, the others add.
Accumulated(p, product) ==
    IF computed[p] % shape.K = 0
    THEN <<product>> ELSE Append(acc[p][Selected(p, computed[p])[1]], product)

\* Mutant: the loop does not move on.
SameExpert(p) == computed[p]
NextExpert(p) == computed[p] + 1

\* One expert on a core that contracts the whole hidden dimension.
Compute(p) ==
    /\ Ready(p) /\ ~ShardOnH
    /\ acc' = [acc EXCEPT ![p][Selected(p, computed[p])[1]] =
                    Accumulated(p, <<Weights(p), HalfProduct(p)>>)]
    /\ computed' = [computed EXCEPT ![p] = NextExpert(p)]
    /\ UNCHANGED <<shape, pc, loaded, slots, part, tile, reduced, out>>

\* One expert when each core contracts its half: the halves are exchanged and
\* added before the activation.
ContractHalf(p) ==
    /\ Ready(p) /\ ShardOnH
    /\ part' = [part EXCEPT ![p] = HalfProduct(p)]
    /\ UNCHANGED <<shape, pc, loaded, computed, slots, acc, tile, reduced, out>>

ExchangeHalves(r) ==
    LET pair == {<<r, 0>>, <<r, 1>>}
    IN  /\ \A p \in pair : pc[p] = "routed" /\ part[p] # {}
        /\ acc' = [p \in Cores |->
                      IF p \in pair
                      THEN [acc[p] EXCEPT ![Selected(p, computed[p])[1]] =
                               Accumulated(p, <<Weights(p), part[p] \cup part[Peer(p)]>>)]
                      ELSE acc[p]]
        /\ computed' = [p \in Cores |-> IF p \in pair THEN NextExpert(p) ELSE computed[p]]
        /\ part' = [p \in Cores |-> IF p \in pair THEN {} ELSE part[p]]
        /\ UNCHANGED <<shape, pc, loaded, slots, tile, reduced, out>>

(***************************************************************************)
(* The shared expert and the gated sum.                                     *)
(***************************************************************************)
SharedHalf(p) == {<<s, t>> : s \in Owned(p), t \in Tokens(p)}

\* The tokens of the core, the hidden blocks it owns.
Combined(p, product) ==
    [f \in Cells |->
        IF CellToken(f) \in Tokens(p) /\ CellBlock(f) \in Owned(p)
        THEN <<acc[p][CellToken(f)], {x \in product : x[2] = CellToken(f)}>>
        ELSE Junk]

RoutedDone(p) == pc[p] = "routed" /\ computed[p] = Experts(p)

SharedExpert(p) ==
    /\ RoutedDone(p) /\ ~ShardOnH
    /\ tile' = [tile EXCEPT ![p] = Combined(p, SharedHalf(p))]
    /\ pc' = [pc EXCEPT ![p] = "reduce"]
    /\ UNCHANGED <<shape, loaded, computed, slots, part, acc, reduced, out>>

\* One exchange for all tokens of the shared expert.
ExchangeShared(r) ==
    LET pair == {<<r, 0>>, <<r, 1>>}
    IN  /\ ShardOnH /\ \A p \in pair : RoutedDone(p)
        /\ tile' = [p \in Cores |->
                       IF p \in pair
                       THEN Combined(p, SharedHalf(p) \cup SharedHalf(Peer(p))) ELSE tile[p]]
        /\ pc' = [p \in Cores |-> IF p \in pair THEN "reduce" ELSE pc[p]]
        /\ UNCHANGED <<shape, loaded, computed, slots, part, acc, reduced, out>>

(***************************************************************************)
(* all_reduce_gather_free_block                                             *)
(***************************************************************************)
\* Cores with the same place in their ranks sum their blocks.
AllReduce(c) ==
    LET group == {p \in Cores : Prg(p) = c}
    IN  /\ \A p \in group : pc[p] = "reduce"
        /\ reduced' = [p \in Cores |->
              IF p \in group
              THEN [i \in 1 .. FreeBlock(p)[2] |->
                       {<<q[1], tile[q][FreeBlock(p)[1] + i - 1]>> : q \in group}]
              ELSE reduced[p]]
        /\ pc' = [p \in Cores |-> IF p \in group THEN "gather" ELSE pc[p]]
        /\ UNCHANGED <<shape, loaded, computed, slots, part, acc, tile, out>>

\* Mutant: the peer's block goes where the tile starts, on either core.
OtherAtStart(p) == 0

\* Where the peer's block goes.
OtherOffset(p) == IF Prg(p) = 1 THEN 0 ELSE FreeBlock(p)[1] + FreeBlock(p)[2]

\* The tile with the own block, and the peer's in the rest.
Gathered(p) ==
    LET block == FreeBlock(p)
        other == OtherOffset(p)
        rest == shape.T * shape.prgs - block[2]
        from == reduced[Peer(p)]
    IN  [f \in Cells |->
            IF shape.prgs > 1 /\ f >= other /\ f < other + rest
            THEN IF f - other + 1 \in DOMAIN from THEN from[f - other + 1] ELSE Junk
            ELSE IF f >= block[1] /\ f < block[1] + block[2]
                 THEN reduced[p][f - block[1] + 1] ELSE Junk]

GatherPeers(r) ==
    LET running == {p \in Cores : p[1] = r /\ Running(p)}
    IN  /\ \A p \in running : pc[p] = "gather"
        /\ out' = [p \in Cores |-> IF p \in running THEN Gathered(p) ELSE out[p]]
        /\ pc' = [p \in Cores |-> IF p \in running THEN "done" ELSE pc[p]]
        /\ UNCHANGED <<shape, loaded, computed, slots, part, acc, tile, reduced>>

AllDone == \A p \in Cores : pc[p] = "done"
Finished == AllDone /\ UNCHANGED vars

Step ==
    \/ \E p \in Cores : Load(p) \/ Compute(p) \/ ContractHalf(p) \/ SharedExpert(p)
    \/ \E r \in Ranks : ExchangeHalves(r) \/ ExchangeShared(r) \/ GatherPeers(r)
    \/ \E c \in 0 .. 1 : AllReduce(c)

Next == Step \/ Finished

Spec == Init /\ [][Next]_vars /\ WF_vars(Step)

(***************************************************************************)
(* Properties.                                                              *)
(***************************************************************************)
\* Types of the state.
TypeOK ==
    /\ shape \in Shapes
    /\ \A p \in Cores :
          /\ pc[p] \in {"routed", "reduce", "gather", "done"}
          /\ loaded[p] \in 0 .. Experts(p)
          /\ computed[p] \in 0 .. loaded[p]
          /\ DOMAIN slots[p] = 0 .. PREFETCH_SLOTS - 1
          /\ \A t \in 0 .. shape.T - 1 : acc[p][t] = Junk \/ Len(acc[p][t]) <= shape.K
          /\ Len(reduced[p]) \in {0, FreeBlock(p)[2]}

\* Weights that landed ahead of their expert's turn are still in the ring when
\* it comes, however far the loads run ahead.
RingKeepsUnread ==
    \A p \in Cores : \A e \in computed[p] .. loaded[p] - 1 :
        slots[p][ComputeSlot(e)] = Selected(p, e)

\* What the layer should compute: for every token its K selected experts once
\* each and in order, and the shared expert, all contracted over the whole
\* hidden dimension, from every rank.
Expert(t, k) == <<<<t, k>>, {<<s, t, <<t, k>>>> : s \in HBlocks}>>
Cell(f) ==
    <<[k \in 1 .. shape.K |-> Expert(CellToken(f), k - 1)],
      {<<s, CellToken(f)>> : s \in HBlocks}>>
Sum(f) == {<<r, Cell(f)>> : r \in Ranks}

\* Every core of every rank ends with the whole tile, each cell summed over all
\* ranks and none of them stale, missing or counted twice.
TileIsSum ==
    \A p \in Cores : pc[p] = "done" /\ Running(p) => \A f \in Cells : out[p][f] = Sum(f)

\* Whichever way the work is split, exactly one contiguous free block of the
\* flat tile is valid on a core: the one it reduces and sends.
OneValidBlock ==
    \A p \in Cores : pc[p] = "reduce" =>
        {f \in Cells : tile[p][f] # Junk} =
            FreeBlock(p)[1] .. FreeBlock(p)[1] + FreeBlock(p)[2] - 1

=============================================================================
