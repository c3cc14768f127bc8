------------------------------- MODULE MCMixers -------------------------------
(****************************************************************************)
(* The token mixers: the state a DeltaNet layer carries from call to call,  *)
(* and the launches of the DeltaNet layer, the attention layer of the       *)
(* megakernels, the attention block of the gpt-oss and the Qwen3-MoE        *)
(* megakernels, and the attention kernel of the other graphs.  The parts    *)
(* share no state; a behaviour runs one of them, and variables of the same  *)
(* name stand for the part's own.                                           *)
(****************************************************************************)
EXTENDS DeltaNetState, FiniteSets

CONSTANTS
    Parts,      \* the parts to run
    Configs,    \* the launches of FlashTkg
    Unwritten,  \* what uninitialised device memory holds
    Stale,      \* what an earlier request left in the caches
    Off         \* a variable of a part that does not run

\* Beside those of DeltaNetState, two of which, stage and block, are a launch's
\* too.
VARIABLES
    running,                                                    \* the part
    live, entry, pc, tiles, bufs, token, attn, full, hbm, writes, launches, \* DeltaTkg
    hist, kc, vc, way, tile, sb, att, out,                      \* GqaLayer, AttnBlockTkg
    cfg, pos, start, bt, ft, qk, buf, mx, corr, sum, acc, nan, kout  \* FlashTkg

stateOnly == <<build, text, pending, plen, conv, rec, cand>>
deltaOnly == <<live, entry, tiles, bufs, token, attn, full, writes, launches>>
caches == <<hist, kc, vc, tile, sb, att>>
flashOnly == <<pos, start, bt, ft, qk, buf, mx, corr, sum, acc, nan, kout>>
shared == <<stage, pc, block, way, hbm, cfg, out>>
mixersVars == <<running, stateOnly, deltaOnly, caches, flashOnly, shared>>

----
(* The parts.                                                               *)

\* Every build of the carried state, and prompts shorter than the window, as
\* long, longer, and as long as the bucket.
AllBuilds == [graph : {"plain", "chunked", "spec"}, decode : {"torch", "tkg"}]
StatePrompts == {<<1>>, <<1, 0>>, <<1, 0, 1>>, <<0, 1, 1, 0>>, <<1, 1, 0, 1, 1>>}

\* Four key heads and eight value heads, as a rank has them, a window of four,
\* lanes modulo 101, blocks of one to three rows, two launches.
Lane(x) == x % 101
DeltaAct(x) == Lane(x * x + 3 * x + 1)
DeltaNorm(x) == Lane(7 * x * x + x)
DeltaDecay(a, h) == Lane(5 * a + 11 * h + 2)
DeltaWeight(ch, j) == Lane(13 * ch + 29 * j + 1)
DeltaOutWeight(h, col) == Lane(17 * h + 31 * col + 3)
DeltaRow(s) == [i \in 0 .. 39 |-> Lane(i * i * s + 3 * i + s)]
DeltaBlocks == {<<DeltaRow(4)>>, <<DeltaRow(9), DeltaRow(4)>>,
                <<DeltaRow(4), DeltaRow(9), DeltaRow(9)>>}

Delta == INSTANCE DeltaTkg WITH
    Prime <- 101, Hk <- 4, Hv <- 8, Taps <- 4, Hidden <- 2, Act <- DeltaAct,
    Norm <- DeltaNorm, DecayOf <- DeltaDecay, Weight <- DeltaWeight,
    OutWeight <- DeltaOutWeight, Blocks <- DeltaBlocks, MaxBlock <- 3, MaxLaunches <- 2,
    Junk <- Unwritten

\* Eight slots, two heads of two tiles of two; prompts that leave room for three
\* tokens at most, in blocks of one or two.
Gqa == INSTANCE GqaLayer WITH
    SeqLen <- 8, PMax <- 2, DTiles <- 2, RopeDim <- 2, QHeads <- 2, Tag <- {"a", "b"},
    MinPrompt <- 5, MaxBlock <- 2

\* Three partitions, so that a tile of two-token sequences is not full; heads of
\* two dimensions; a ring of three in a cache of four.
AttnLaunch(model, layer, layout, batch, s, cores, heads, slots, prompt, max) ==
    [model |-> model, layer |-> layer, layout |-> layout, batch |-> batch, s |-> s,
     cores |-> cores, heads |-> heads, norm |-> model = "qwen", slots |-> slots,
     rows |-> batch * slots, prompt |-> prompt, max |-> max, blockLen |-> 0, table |-> <<>>]

AttnPaged(s, cores, max, blockLen, table) ==
    [AttnLaunch("other", 1, "block", 2, s, cores, 1, 0, s, max) EXCEPT
        !.blockLen = blockLen, !.rows = 6 * blockLen, !.table = table]

AttnLaunches ==
    { AttnLaunch("gpt", 0, "flat", 1, 1, 1, 2, 4, 6, 8),
      AttnLaunch("gpt", 1, "flat", 1, 1, 1, 2, 6, 4, 6),
      AttnLaunch("qwen", 1, "flat", 1, 2, 2, 2, 6, 4, 6),
      AttnLaunch("qwen", 1, "flat", 1, 3, 2, 1, 6, 3, 6),
      AttnLaunch("other", 1, "flat", 4, 1, 2, 1, 4, 2, 3),
      AttnLaunch("other", 1, "flat", 3, 2, 1, 1, 4, 1, 4),
      AttnLaunch("other", 1, "transposed", 2, 2, 2, 1, 4, 1, 4),
      AttnLaunch("other", 1, "transposed", 4, 1, 2, 1, 4, 2, 3),
      AttnPaged(1, 2, 3, 2, <<<<5, 0, 3>>, <<1, 4, 2>>>>),
      AttnPaged(2, 1, 5, 3, <<<<3, 0>>, <<1, 2>>>>) }

Attn == INSTANCE AttnBlockTkg WITH
    Launches <- AttnLaunches, PMax <- 3, HeadDim <- 2, Window <- 4, BatchLimit <- 2,
    Tag <- {"a", "b"}

\* Two partitions.
FlashScore(b, h, q, t) == ((t * 3) + (5 * h) + (2 * q) + b) % 5
FlashSink(h) == 2 + h

Flash == INSTANCE FlashTkg WITH P <- 2, Score <- FlashScore, SinkOf <- FlashSink, Freq <- 3

FlashLaunch(shard, heads, bs, batchTile, sa, prior, fa, strided) ==
    [shard |-> shard, heads |-> heads, bs |-> bs, bt |-> batchTile, sa |-> sa, prior |-> prior,
     fa |-> fa, strided |-> strided, bl |-> 0, len |-> 1, sink |-> FALSE,
     fuse |-> FALSE, given |-> FALSE, budget |-> 8, sb |-> FALSE,
     windows |-> {-1}]  \* NoStart

FlashBlocks(k, bl, len) == [k EXCEPT !.bl = bl, !.len = len]

FlashConfigs ==
    { [FlashLaunch("none", 2, 1, 1, 1, 6, 4, FALSE) EXCEPT !.sink = TRUE, !.fuse = TRUE],
      [FlashLaunch("prior", 1, 1, 1, 2, 8, 4, FALSE) EXCEPT !.fuse = TRUE, !.sb = TRUE],
      FlashLaunch("none", 3, 2, 1, 2, 4, 0, TRUE),
      [FlashLaunch("none", 3, 1, 1, 1, 10, 4, TRUE) EXCEPT !.sink = TRUE],
      [FlashLaunch("prior", 3, 1, 1, 1, 8, 0, TRUE) EXCEPT !.sink = TRUE],
      [FlashLaunch("prior", 2, 1, 1, 2, 12, 4, FALSE) EXCEPT !.sink = TRUE, !.sb = TRUE],
      [FlashLaunch("batch", 2, 2, 1, 1, 4, 2, FALSE) EXCEPT !.sb = TRUE],
      FlashLaunch("batch", 1, 4, 1, 1, 2, 0, FALSE),
      [FlashLaunch("none", 2, 1, 1, 2, 6, 0, FALSE) EXCEPT !.windows = {1, 3, 5}],
      FlashBlocks(FlashLaunch("prior", 1, 1, 1, 3, 16, 4, FALSE), 2, 4),
      FlashBlocks(FlashLaunch("none", 1, 1, 1, 1, 8, 4, FALSE), 2, 2),
      [FlashBlocks(FlashLaunch("prior", 1, 1, 1, 2, 8, 0, FALSE), 2, 2) EXCEPT !.given = TRUE] }

\* A cache so much longer than the context that a whole tile is masked.
LongCache == {FlashLaunch("prior", 1, 1, 1, 1, 24, 4, FALSE)}

ASSUME DeltaAssumption ==
    Delta!HeadsAssumption /\ Delta!SizeAssumption /\ Delta!BlocksAssumption /\ Delta!JunkAssumption
ASSUME GqaAssumption == Gqa!SizeAssumption /\ Gqa!TagAssumption
ASSUME AttnAssumption == Attn!SizeAssumption
ASSUME FlashAssumption == Flash!PartitionAssumption

----

Run(p) == running = p

StateOff == /\ build = CHOOSE b \in Builds : TRUE
            /\ text = <<>> /\ pending = <<>> /\ plen = 0
            /\ conv = NoColumns /\ rec = <<>> /\ cand = <<>>
DeltaOff == /\ live = Off /\ entry = Off /\ tiles = Off /\ bufs = Off
            /\ token = Off /\ attn = Off /\ full = Off /\ writes = Off
            /\ launches = Off
CachesOff == /\ hist = Off /\ kc = Off /\ vc = Off /\ tile = Off /\ sb = Off
             /\ att = Off
FlashOff == /\ pos = Off /\ start = Off /\ bt = Off /\ ft = Off /\ qk = Off
            /\ buf = Off /\ mx = Off /\ corr = Off /\ sum = Off /\ acc = Off
            /\ nan = Off /\ kout = Off

\* No launch runs while the carried state goes through its calls.
LaunchesOff == /\ DeltaOff /\ CachesOff /\ FlashOff
               /\ pc = Off /\ way = Off /\ hbm = Off /\ cfg = Off /\ out = Off

MixersInit ==
    /\ running \in Parts
    /\ \/ Run("state") /\ Init /\ LaunchesOff
       \/ /\ Run("delta") /\ Delta!Init /\ CachesOff /\ FlashOff
          /\ StateOff /\ way = Off /\ cfg = Off /\ out = Off
       \/ /\ Run("gqa") /\ Gqa!Init /\ DeltaOff /\ FlashOff
          /\ StateOff /\ stage = Off /\ hbm = Off /\ cfg = Off
       \/ /\ Run("attn") /\ Attn!Init /\ DeltaOff /\ FlashOff
          /\ StateOff /\ stage = Off /\ way = Off /\ out = Off
       \/ /\ Run("flash") /\ Flash!Init /\ DeltaOff /\ CachesOff
          /\ StateOff /\ stage = Off /\ block = Off /\ way = Off /\ hbm = Off

DeltaUnchanged == UNCHANGED <<running, stateOnly, caches, flashOnly, way, cfg, out>>
GqaUnchanged == UNCHANGED <<running, stateOnly, deltaOnly, flashOnly, stage, hbm, cfg>>
AttnUnchanged == UNCHANGED <<running, stateOnly, deltaOnly, flashOnly, stage, way, out>>

StateNext == /\ Run("state") /\ Next
             /\ UNCHANGED <<running, deltaOnly, caches, flashOnly, pc, way, hbm, cfg, out>>
FlashNext == /\ Run("flash") /\ Flash!Next
             /\ UNCHANGED <<running, stateOnly, deltaOnly, caches, stage, block, way, hbm>>

MixersNext ==
    \/ StateNext
    \/ Run("delta") /\ Delta!Next /\ DeltaUnchanged
    \/ Run("gqa") /\ Gqa!Next /\ GqaUnchanged
    \/ Run("attn") /\ Attn!Next /\ AttnUnchanged
    \/ FlashNext

\* A launch under way does not stop while one of its cores can go on.
MixersSpec ==
    /\ MixersInit /\ [][MixersNext]_mixersVars
    /\ WF_mixersVars(Run("delta") /\ Delta!Work /\ DeltaUnchanged)
    /\ WF_mixersVars(Run("gqa") /\ Gqa!Work /\ GqaUnchanged)
    /\ WF_mixersVars(Run("attn") /\ Attn!Work /\ AttnUnchanged)
    /\ WF_mixersVars(FlashNext)

----
(* Properties.                                                              *)

\* The state of every part is of its types.
MixersTypeOK ==
    /\ Run("state") => TypeOK
    /\ Run("delta") => Delta!TypeOK
    /\ Run("gqa") => Gqa!TypeOK
    /\ Run("attn") => Attn!TypeOK
    /\ Run("flash") => Flash!TypeOK

\* A finished DeltaNet launch leaves in every output what the layer computes on
\* the rows one after the other, each cell written once, whatever the relative
\* speed of the two cores.
LaunchIsLayer == Run("delta") => Delta!LaunchIsLayer /\ Delta!WrittenOnce

\* Between attention launches the two caches, written by two cores, by one or by
\* the caller, hold each request's own keys and values at every place it still
\* reads, whatever was drafted and rejected before, where a ring wraps and in
\* every layout and way of writing; no write reaches a neighbour's place.
CachesHoldHistory ==
    /\ Run("gqa") => Gqa!CachesHoldHistory
    /\ Run("attn") => Attn!CachesHoldHistory

\* A query attends once to every token up to its own (the last of the window in
\* a sliding layer) and to nothing stale, rejected or ahead, and every row of
\* the output weight meets its own head, dimension and gate.
QueriesReadHistory ==
    /\ Run("gqa") => Gqa!QueriesReadHistory /\ Gqa!OutputRowsMeet
    /\ Run("attn") => Attn!QueriesReadHistory

\* Every result of the attention kernel is softmax attention over exactly the
\* tokens its query sees, complete and never NaN, whatever the sharding, tiles,
\* cache layout, window and sink; the keys it hands back are rotated in place.
AttentionIsExact ==
    Run("flash") =>
        Flash!AttentionIsExact /\ Flash!NeverNaN /\ Flash!OutputComplete /\ Flash!KeysTurned

\* The comment at the clamp of the maximum (attention_tkg.py:2304): clamped, a
\* tile in which everything is masked gives no NaN.  The correction between tiles
\* (_fa_update_correction_factor, 1074, called at 1175) takes the maxima unclamped.
NeverNaN == Run("flash") => Flash!NeverNaN

\* No core waits for ever at a meeting its peer skips: a launch under way ends.
Busy ==
    \/ Run("delta") /\ stage = "running"
    \/ (Run("gqa") \/ Run("attn")) /\ block # <<>>
    \/ Run("flash") /\ \E c \in DOMAIN pc : pc[c] # "done"
LaunchEnds == Busy ~> ~Busy
=============================================================================
