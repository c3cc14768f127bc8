# A verification project for nki-moe-megakernel

The repository serves Qwen3.6-35B-A3B (and, in the older parts, Qwen3-30B-A3B
and gpt-oss) on Trainium, with the decode step, and finally a whole round of
speculative decoding, fused into hand-written NKI kernels.  What is modelled
here is the control around the arithmetic: which token a cache slot or a
recurrent state has consumed, in which order launches and cores write, which
candidate is committed, who owns which part of a tile, which position of a flat
list a tensor travels at, which files a restarted driver trusts.  A
floating-point value is replaced by its origin: the tokens, columns, windows or
products it was computed from.  Where layout and algebra meet (the delta rule)
the arithmetic is kept, exact, over the integers modulo a small prime.  Rounding
is outside.

Paths below are relative to `src/`; M stands for
`megakernels/qwen3_6_moe/modeling_qwen36_a3b.py`, I for
`megakernels/qwen3_6_moe/inference_qwen36_a3b.py`, K for `nki_kernels`.

## 1. The system

### Components

| Component | State it keeps | Operations | Model |
|---|---|---|---|
| Driver (I) | artifact directories, the request's flags | parse, `maybe_compile`, `load_model`, `generate` | `CompiledArtifacts`; `generate` in `SpecRound` |
| Speculation round (`Qwen36FusedSpecModel`, M 4667-5000; K/`megakernel/qwen36_round_megakernel.py`) | trunk KV, MTP KV, DeltaNet states, rolling hidden | context encoding, draft (D1), verify (V), replay (D2), accept, commit; in torch, in three launches, in one | `SpecRound`, `GreedyDecode` |
| DeltaNet layer state (`NeuronGatedDeltaNet`, M 286-1575) | convolution window, recurrent state | context encoding, chunked prefill, decode, verify block, commit | `DeltaNetState` |
| DeltaNet kernels (K/`deltanet`) | tiles, pending windows | chunked rule of prefill; conv, recurrence, norm and projection of a decode launch | `DeltaRule`, `DeltaTkg` |
| GQA attention kernels (K/`gqa`) | KV slots in place, tiles | project, norm, rotate, attend, scatter, gate, project out, on two cores | `GqaLayer` |
| MoE layer (K/`moe`, K/`megakernel/collectives.py`) | ring of expert weights, accumulator, free block of the tile | work split, load, contract, exchange halves, shared expert, all-reduce, gather | `MoeLayer` |
| LM head and greedy argmax (K/`lm_head`, `collectives.py`) | per-core tiles, exchanged pairs | chunked search, `sendrecv` between cores, all-gather over ranks | `LmHead` |
| Residual, embedding, `eh_proj` (K/`megakernel`) | the residual's two replicas, stored hidden | permutations, sharded gathers, hand-over from verify to replay | `ResidualLayout` |
| Draft, verify and round megakernels | the flat argument list, compiled wrappers | flatten, bind, loop over layers, return handles | `LaunchSignature` |
| Hybrid cache (`HybridDeltaNetCacheManager`, M 2627-2957) and host dispatch (`_get_model_outputs`, M 5157-5396) | batch rows of KV and DeltaNet state; a request's rows | group, fill, select, run, scatter, trim | `HybridCache` |
| Input wrapper and traced forward (M 2961-3390, 3860-4026) | the tensors of a call | dummies, padding, embedding, images, rotary, last token | `TracedInputs` |
| Aliasing of states (`...ModelInstance.get`, M 3835-3858, 5011-5033, 5113-5140) | the aliased buffers | flat positions in the outputs of five graphs; the CPU copy | `AliasLayout` |
| Layer dispatch over the flags (M 1577-2600, I) | flags, stage of a configuration | who norms, sums, writes and reads what in a layer | `LayerPaths` |
| Weight converter (M 3412-3830, 5078-5097, 5418-5433) | one dictionary of tensors, edited in place | strip, shift norms, convert layers, head and MTP head, filter for the draft | `WeightConversion`, `WeightsAsRead` |
| Attention block of the older megakernels (K/`_legacy/attention/attention_block_tkg.py`) with the gpt-oss and Qwen3-MoE megakernels around it | caches in five layouts | project and rotate tile by tile, attend, write back; masks, ring, rotary tables | `AttnBlockTkg` |
| Router of the older megakernels (K/`_legacy/moe/router_topk.py`; its twin in `moe/vendored` is the router of the A3B layer) | logits, chosen experts, weights, on each core and in HBM | project, activate, choose, norm, scatter, exchange | `RouterTopk` |
| Token-generation attention (K/`_legacy/attention/attention_tkg.py`, `gen_mask_tkg.py`) | tiles, running maximum, sum, output | mask, shard, tile, merge | `GenMask`, `FlashTkg` |
| `main.py`, `test.py` | none between runs | benchmark, accuracy check, score | not modelled |
| Other retired kernels, `_hf_reference`, `*/vendored`, tests, docs | | | not modelled |

### How they interact

The driver traces a model once, into a directory, and every later process loads
it; before, the converter has rewritten the checkpoint into what the modules
read.  A request is cut into rows, padded and dispatched by the host: context
encoding fills the trunk's KV cache, the DeltaNet states and the MTP cache, and
leaves the last hidden in a rolling buffer.  Then each round drafts one token
from the MTP head, verifies a block of two through the trunk, replays the block
through the MTP head, and commits.  The trunk is forty layers of DeltaNet or GQA
attention followed by an MoE layer, and ends in the LM head; in the megakernels
each of these runs on two cores of each of the tensor-parallel ranks, which
exchange through `sendrecv`, all-gather and all-reduce.  State crosses launches
only in aliased buffers: KV slots are scattered in place; DeltaNet candidates
are emitted, and the host's graph installs the one the accept count selects.

### What is hard

- A rejected draft leaves its KV slots and its candidate states behind.  Nothing
  rolls them back: they are masked by length and overwritten before being read.
- With separate launches the draft's in-place write may land before or after the
  replay's write to the same slot.
- The DeltaNet layers have no attention mask: a pad, a rejected token, a late or
  early window corrupts everything after it, and silently.
- Buffers are not cleared between requests, and the rows that fill a batch write
  too.
- No core sees the whole logits row, the whole weights or the whole tile, and on
  a tie every core must still pick the same token.
- Within a launch two cores meet at points that depend on flags and shapes; a
  core that meets once too often stops the device.
- A KV cache is read and written by the same launch, by two cores, through masks
  that say which of its lines are the new tokens.
- Weights of the next expert are loaded over those of the one before the
  current, in a ring of two slots.
- Hundreds of tensors of equal shapes are told apart by counting.
- The chunked forms of the delta rule divide by decays that may be zero.
- A compile takes twenty minutes and may be killed anywhere in its tail.
- Weights are packed per rank by one piece of code and cut apart by others; a
  head that meets the wrong rows still multiplies.

`PROJECT.json` lists these hazards at their lines, with the properties that
watch them.

## 2. Modules

Proofs of a module are in `<module>Proofs`; those about `WeightConversion` and
`WeightsAsRead` are in `WeightsProofs`, those about `AliasLayout` and `LayerPaths`
in `HostProofs`.  `MC<module>` gives a module its constants.  Four modules
compose several; `MCArithmetic` and `MCHost` configure two of them, and `MCMixers`
and `MCOffline` hold their own constants, since nothing is proved about them:

| Composite | Parts (`running`) |
|---|---|
| `Arithmetic` | `head` and `onecore` (`LmHead` on two cores and on one), `moe` (`MoeLayer`), `router` (`RouterTopk`), `trunk` (`ResidualLayout`), `rule` (`DeltaRule`) |
| `MCOffline` | `weights` (`WeightConversion`, `WeightsAsRead`), `files` (`CompiledArtifacts`) |
| `MCMixers` | `state` (`DeltaNetState`), `delta` (`DeltaTkg`), `gqa` (`GqaLayer`), `attn` (`AttnBlockTkg`), `flash` (`FlashTkg`, `GenMask`) |
| `Host` | `chunks` and `whole` (`HybridCache`), `inputs` (`TracedInputs`), `aliases` (`AliasLayout`), `launches` (`LaunchSignature`), `paths` (`LayerPaths`) |

The parts of a composite share no state.  A behaviour picks one (`running`) and
runs it to the end; the variables of the other parts hold `Off` or their initial
value, and a variable that several parts declare is the running part's own.  A property of a composite
is the conjunction of its parts' properties of that subject, each under the
guard that its part runs; the parts state them one by one, with the code they
are about.  So a composite checks no interaction between its parts.  The seams
between components are modelled inside the modules: the GQA layer together with
the caches it writes, the hybrid cache with the host that fills its rows, the
round with the states its launches leave.

No module declares a RECURSIVE operator; recursion is written as recursive
functions, so that every module can be proved about.

### GreedyDecode, the promise

A request is served by appending one or two tokens at a time, each the greedy
choice of the trunk after all before it.  Nothing else is visible.

### SpecRound

Variables: `kv`, `mtp` (slots of the two KV caches), `dn` (all DeltaNet states
together), `hid` (rolling buffer), `cand`, `rows`, `tgt` (locals of a round),
`late` (the in-place write of a separate draft launch until it lands), `out`,
`plen`, `limit` (the host's view) and `mode` (the build: torch `xla`, `launch3`,
`launch1`).  A value is the history it was computed from, or `Junk` when it is
not one coherent history.  `Target` and `DraftHead` are arbitrary functions from
histories to tokens, so nothing is assumed of either model.

| Action | Code |
|---|---|
| `Prefill` | `_eagle_context_encoding_forward`, `resolve_max_new_tokens` |
| `Draft` | `Qwen36MTPDraft.forward`, D1 of the round kernel |
| `LandDraftWrite` | the aliased write of the separate draft launch |
| `Verify` | `Qwen36SpecTarget._verify_forward`, V of the round kernel |
| `Replay` | the final draft run of `_eagle_token_gen_forward`; D2 of the round kernel |
| `Commit` | `_round_epilogue`, `_commit_deltanet`, the host's accepted tokens |
| `Finish` | the stopping criteria of the host |

A read of a slot whose history does not fit the block makes the result
arbitrary (any token) or `Junk`, so a stale read shows up as a wrong stream and
not as a blocked model.  `Attended` models what the kernels' mask keeps of the
prior window: the last T columns belong to the active tokens.

### DeltaNetState

One layer, its two buffers, in the three kinds of graph (plain, chunked prefill,
speculative) and with the decode step in torch or in the TKG kernel.  The
convolution window is three columns; the recurrent state is the sequence of
four-column windows it consumed.  `ContextEncode`, `BeginChunks`,
`PrefillChunk`, `DecodeChunk`, `Decode`, `VerifyBlock`, `CommitBlock` follow the
branches of `NeuronGatedDeltaNet.forward` and of the fused model; `EndRequest`
leaves the buffers as they are, so the next request meets them.

### DeltaRule

The recurrence of one value head (`Begin` and `Consume`, the reference) beside
the three chunked forms that recompute it: `SubstituteRow` and `AddIdentity`
are torch's forward substitution, `SolveRow` and `MergeBlocks` the chunk-step
kernel's solve of two blocks and their merge, `Square` the fused kernel's Neumann
product.  `LoadChunk` pads and forms decays, `Apply` gives the chunk's outputs
and the next state.  Numbers are integers modulo 5; `exp` is a power of a unit,
and above `MaxExp` it is `Overflow`, which no later operation recovers from.

### DeltaTkg

One decode launch of a layer on two cores, from its three entry points (`fused`,
`inproj`, `layer`).  `Conv` convolves a core's segments and leaves the windows
in the pending list, `Drain` stores them (before or after the recurrence, as the
entry point does), `Seed` and `StepToken` run the recurrence over a block with its
two alternating state buffers, `Exchange` is the meeting of the cores, `Project`
the output projection, `Commit` the host's choice of a candidate for the next
launch.  `LayerAfter` is the same layer written row by row without cores.

### GqaLayer

The fused attention layer of a decode launch: `Project` (half of the hidden
dimension per core), `Sum` (the first meeting), `Prepare` (norm, partial rotary,
transposes), `Attend` (a half of the cache per core), `Merge` (the second
meeting), `Write` (values by core 0, keys by core 1, or returned to the caller),
`Output`, `Finish` (how many of the block's tokens are kept).  `Launch` prefills
a request over whatever the last one left, or starts the next block.  An element
names token, head and dimension and what was done to it.

### ResidualLayout

The residual of a round, cell by cell: `Seed` (embedding, `eh_proj` front end),
`Attn` and `GatherAttn` (column-major by core), `Moe` and `GatherMoe`
(contiguous blocks), per layer; `Drafted`, `Verified`, `Replayed` end the stages
and hand over, inside the launch or through memory.  `ResidualRef` says what a
token's hidden index should have been added to.

### LmHead

Ranks of two cores, each with a shard of the vocabulary.  `ReduceChunk` and
`FindChunk` are the two loops of `staged_argmax` over chunks no wider than one
instruction can reduce; `Send` and `Receive` the exchange of
`combine_across_cores`; `Gather` is `all_gather_argmax`.  The tile of the best
index starts with arbitrary content, and the index reported for a chunk that
does not hold the value looked for is arbitrary.

### MoeLayer

Cores of ranks with a launch shape: T tokens, K experts per token, one or two
cores, and whether the configuration is too big to split by token.  `Load`
brings the weights of a selected expert into its slot of the ring as early as
the program order and the reads of the slot allow; `Compute` and
`ContractHalf` / `ExchangeHalves` contract them whole, or by halves that meet in
a `sendrecv`; `SharedExpert` / `ExchangeShared`, `AllReduce` and `GatherPeers`
end the layer.  A cell of the tile is the list of the products that were added
into it, so a product added twice, or none, is visible.

### LaunchSignature

`Launch` flattens a pattern's tensors as the host does (`FlattenVerify`,
`FlattenRound`, `FlattenDraft`), binds them through a wrapper (`Wrapper`,
compiled once per `CacheKey`) to the body's parameters; `DraftStage`, `Replay`,
`GqaLayer` and `DnLayer` read by how many layers of the type have passed;
`Return` cuts the returned handles apart (`SplitVerify`, `SplitRound`,
`SplitDraft`).  A read is kept as the pair of the tensor meant and the tensor
found.

### HybridCache

Batched requests over the manager.  `BeginPrefill` and `NewRequest` start calls;
`EncodeGroup` is one launch of `CtxBatch` rows: the grouping and filling of
`_get_model_outputs` (`LaunchRows`, `PadSeq`), the selection and scatter of rows
by `seq_ids`, the chunked update (`LocalKeys`, with its pads), the reset of
states at position zero (`Seed`) and the trimming of outputs (`Returned`).
`Decode` is the step over all rows.  Where two launch rows scatter to one cache
row, or two columns to one position, either may win.  The library gives pads a
position (`PadPosition`); where that is a position of the row's own tokens, pad
and token meet, and the ghost variable `spoilt` remembers the sequence.

### TracedInputs

`Host` builds the tensors of a call (rotary positions, dummy or real vision
tensors), `Pad` is the input wrapper, `Forward` the traced graph: embedding,
zeroing, injection of images, rotation with its three sections, the column whose
hidden is returned.  `CompiledWidths` are the widths the graphs were traced at.

### AliasLayout

A graph returns a list of values, `PlainOutputs`, `DraftOutputs`,
`VerifyOutputs`, `PrefillTail` and `RoundTail` build it as the five functions of
the model do; `PlainAliases` and `FusedAliases` are the positions the two `get`
methods write down.  `PlainCall`, `PrefillCall` and `RoundCall` store by alias;
`CpuCall` is `_copy_past_key_values`.  The library's own positions for the
key/value caches are external.

### LayerPaths

A call is a list of items (`Items`), `Embed`, `Attention`, `Moe`, `VocabHead`
and `Store` work it off under a build of the six flags and count: norms and sums
over the ranks per sublayer, writes per cache with their layout, weights read.
`Declared` are the weights a layer has under the flags.

### AttnBlockTkg

The block that gpt-oss and Qwen3-MoE call once per layer, on one or two cores,
with the request around it.  `ProcessTile` norms, projects and rotates a tile of
(sequence, token) rows and leaves keys on the core, values in HBM; `Attend` lays
the new tokens over the last lines of the cache and keeps what the mask
(`SwaMask`, `FullMask`, `SpecMask`) keeps; `Merge` is the cores' meeting;
`Update` writes the caches after the attention, by `BatchedRow`, `ScalarRow`,
`BatchedCell` or `ScalarCell` (flat, transposed and paged caches, one core or
one cache per core); `Finish` keeps the accepted tokens.  Rotary tables and
`kv_cache_update_idx` are those of the two megakernels.

### GenMask, FlashTkg

`GenMask` is the mask of token generation as functions of partition and column,
built in the launch (`TileMask`) and ahead of it (`HbmMask`).  `FlashTkg` walks
batch tiles and flash tiles per core: `QkMatmul`, `MaxReduce`, `SwapMax`,
`RunningMax`, `SwapRunning`, `ExpQk`, `SumReduce`, `SwapSum`, `AccSum`,
`SwapTotal`, `PerformRope`, `PvMatmul`, `SwapOut`, `StoreOutput`.  Keys, values and mask each
have their own layout function, so a slot where they disagree shows; weights are
exponents, sums are sets of weights.

### RouterTopk

`Logits` contracts tiles of x and w, each loaded in a layout of its own
(`XHidden`, `WHidden`), in slots of the array as wide as the core's tokens allow
(`Psum`, `Merged`); `Activate`, `TopK` and `Weigh` are the pipeline of
activation, choice, second activation or norm, and one-hot scatter; `ZeroTile`
and `ScatterIndirect` the other scatter, tile by tile; `SwapIndex`,
`SwapAffinities`, `SwapEager` and `Barrier` the meetings of the cores.  A logit
is a number once its sum is whole; a weight is the exponent of its numerator and
the set of those in its denominator.

### CompiledArtifacts

Directories with `model.pt` and one shard per rank; an invocation resolves its
flags to a build (`Implied`) and its directory (`PathOf`), and goes through
`MaybeCompile`, `Trace` and `SaveGraphs`, `OpenShard` and `WriteShard` rank by rank,
`Load`.  A file that has been opened and not yet written to its end is `Torn`;
`_presharded_weights_complete` and the test for `model.pt` ask for existence and
take it for a whole one, `Load` fails on it.  `Kill` may end a process between any
two steps, inside a write too, and `DeleteWeights` is the operator's, as the
docstring of `maybe_compile` suggests.

### WeightConversion, WeightsAsRead

`WeightConversion` is the converter as it edits the dictionary: `Strip`,
`ShiftNorms`, one `ConvertLayer` per turn of the loop, `ConvertHead`,
`ConvertMtp` or `DropMtp`, `KeepDraft` for the draft holder, `Raise` where head
counts do not divide.  A tensor is the sequence of the checkpoint's rows along
its sharded axis, with what the order of the edits can get wrong: how often 1.0
was added, whether it is stored transposed, and which allocation it lives in.
`WeightsAsRead` is written from the other side: the parameters the modules
declare under each flag, which of them are multiplied contraction first, and the
offsets at which `_project_inputs`, the split of the convolved channels and the
fused attention kernel cut a rank's shard.  Its properties join the two.

## 3. Runs

| Run | Question | Size and bounds |
|---|---|---|
| `spec_round` | Are the three builds lossless, with the caches right between rounds, over several requests? | 3 tokens, window of 8; prompts of three tokens and prompts that leave room for 3, 2 and 1 tokens; every budget; a drafter that is right two times in three |
| `offline` | Is what a model is loaded from what its modules and its user ask for? | the two parts below |
| `arithmetic` | Do the kernels around the token mixers compute what they replace? | the six parts below |
| `mixers` | Does the carried state of a DeltaNet layer hold the request's tokens on every path, and do the mixers of a decode launch compute their layer, in every interleaving of the cores? | the five parts below |
| `host` | Does a request reach the layers, and what they return the caller? | the six parts below |
| `default_path`, `torn_shard`, `fused_clamp`, `flash_masked`, `chunk_rotary`, `chunk_pads`, `images_dropped` | Statements of comments and docstrings that do not hold (section 6) | of the modules above; `chunk_pads` with one sequence, chunks of 3 columns and a cache of 6 |

Parts of the composites:

| Part | Size and bounds |
|---|---|
| `weights` | two layers of either kind; every combination of flags, model and draft holder; 1, 2 and 4 ranks, with as many k/v heads as ranks, fewer and more; 3 ranks, which raise |
| `files` | 3 directories, 2 ranks; each directory used for one build; any number of kills, inside the writes of files too |
| `state` | 2 tokens, one of them the pad; bucket of 5 columns; requests up to 7 tokens; prompts shorter than, as long as and longer than the window, and as long as the bucket; all six builds |
| `head`, `onecore` | 2 ranks of 2 cores, 3 columns each in chunks of 2 and 1; rows with ties within a chunk, between chunks, cores and ranks. One core: every row over two values |
| `moe` | 2 ranks; 1 token split by hidden block, 2 and 3 tokens split by token (unevenly for 3), one core; 2, 3 and 4 experts per token, so that the ring wraps with either parity |
| `router` | a tile of 4 tokens, 4 experts, 2 chosen; 1 to 11 tokens in 12 launches that take every layout, width of a column tile, pipeline and exchange, and the three callers' own settings |
| `trunk` | 2 partitions, 2 blocks per partition, 2 ranks, a vocabulary of 3, 2 layers; one launch and three |
| `rule` | integers modulo 5; chunks of 3 (torch) and 4 (kernels); up to 5 tokens of 3 kinds from two starting states |
| `delta` | 4 key and 8 value heads, 4 taps, lanes modulo 101; blocks of 1 to 3 rows; two launches, with every choice of candidate between them; three entry points |
| `gqa` | cache of 8 slots in tiles of 2, two query heads, rotation of half a head; blocks of 1 and 2; requests one after the other over what is left |
| `attn` | 10 launches: sliding, full and speculative masks, one core and two, flat, transposed and paged caches by all five ways of writing them; window of 4, 3 rows in a tile, batches of 1 to 4, blocks of 1 to 3 |
| `flash` | tiles of 2 partitions; 12 launches over shardings, layouts, sink, fused rotation, block table; every length of the cache |
| `chunks`, `whole` | batch of 3 with 1 pad row, launches of 2 rows; chunks of 2 up to 4 tokens, whole prompts of 1 to 4 tokens in a bucket of 4 and sequences of up to 6; pads at position 1; two requests per row |
| `inputs` | bucket of 5, prompts from 3, two new tokens, rotary sections 3, 3, 2, blocks of 3 |
| `aliases` | four layers of alternating type; every graph and combination of extra outputs; four calls |
| `launches` | three patterns of three layers; three launches |
| `paths` | one layer of each type and the MTP layer; all 64 combinations of flags; three calls |

Why the bounds are enough.  `SpecRound`: a round touches two slots of the trunk
and two of the MTP cache; a window of eight lets four rounds run after the
shortest prompt, so that a rejected slot is attended to, overwritten and left
behind, and the longest prompts start at the edge.  `DeltaNetState`: the window
is three columns, so four tokens after a wrong one push it out; bucket and
prompts put the end of a prompt before, at and after both edges.  `LmHead`: one
full and one short chunk, two of everything else, and ties in every place.
`MoeLayer`: the ring has two slots, and three experts over two tokens make it
change parity.  `WeightConversion`: layers are converted independently of each
other, so one of each kind and one more owner (the MTP layer) stand for forty;
what depends on sizes is the arithmetic of heads over ranks, and key and value
heads differ in number and in width so that no two offsets coincide.
`DeltaRule`: a chunk of four is two blocks of two, the least that is merged, and
five tokens leave a padded chunk; decays lie on both sides of the range of `exp`.
`DeltaTkg`: with two value heads per key head and four key heads a core's
segments begin inside a tile.  `HybridCache`: two rows per launch for three
requests leave one launch with a filler row.  `GqaLayer`, `AttnBlockTkg` and
`FlashTkg`: block, tile and cache are chosen so that new tokens end a tile, start
one and straddle two, and so that tiles with no visible token occur.
`RouterTopk`: tokens fill a quarter, a half and all of a tile, leave a remainder
(11 over two cores: 5 and 6), and split evenly and not.  `AliasLayout`,
`LaunchSignature`: two layers of each type are needed to see a shift by one, and
no two tensors are alike in the model.

Each run that passes ends with its state space exhausted.  Deadlock is checked in
`spec_round`, `offline` and `arithmetic`, where a module that ends has an explicit
stuttering step at its end.  In `mixers` and `host` a behaviour ends when its bound of
launches or calls is used up, so deadlock is not checked there; `LaunchEnds`
states that no launch of the mixers hangs before.

### Properties

- `spec_round`: `GreedyOutput` (lossless), `TrunkStateCommitted`,
  `DraftStateCommitted`, `LateWriteBenign`, `StreamGrowsByCommit`, `RequestEnds`,
  `RoundInv` (the inductive invariant, which holds among others
  `DraftUsesCommitted`: a stale MTP entry would only lower acceptance, so no
  comparison of outputs shows it) and `ImplementsGreedyDecode` (refinement, with
  `busy <- (stage # "idle")`).
- `offline`, of the files: `LoadFindsShards` (a file for every shard),
  `ServedAsRequested`, `FilesInv` (the inductive invariant), `KillsAreOvercome`: kills
  that end lose nothing for good, as long as no torn file is counted whole.  That
  one may be is `torn_shard`.
- `offline`, of the weights: `LoadsExactly`, `NormsShiftedOnce`, `StoredAsRead`,
  `NoSharedStorage`, `HeadsGrouped` (a value head's rows of eight tensors meet
  at one index of one rank with their own key head; query heads with theirs).
- `arithmetic`: `TokenIsArgmax`, `MoeAsReference` (of `MoeLayer`: `TileIsSum`,
  `RingKeepsUnread`, `OneValidBlock`; of `RouterTopk`: `RoutesAsReference`,
  `CompleteBehindBarrier`), `ResidualIsReference`, `ChunksAreRecurrence` (with the
  inverse and the range of the decays), `EveryCoreAnswers`.
- `mixers`: `LaunchIsLayer` (a DeltaNet launch is the layer row by row, and the
  windows it stores are the last columns), `CachesHoldHistory`,
  `QueriesReadHistory` (what a query attends to is its sequence up to itself, or
  its window of it), `AttentionIsExact`, `LaunchEnds`; of the carried state
  `ConvIsHistory`, `RecIsHistory`, `ConvHeals` (a misplaced window after a short
  prompt lasts three tokens), `CandidatesAreDecodeSteps`.
- `host`: `OutputsAreSequences` (a row's output and caches are its own
  sequence's, unless its pads met a token of it), `RequestReachesLayers`, `BuffersHoldTheirOwn`,
  `ReadsItsOwnTensors`, `OncePerSublayer`.

A property of a composite run names what its parts state under names of their
own; the comment above it says which.  Every property has a mutant in
`PROJECT.json`: a changed definition, as a plausible slip in the code would
change it, under which the run reports the property violated.

### Fairness

- `SpecRound`: weak fairness of a round's steps and of `Finish` together.  The
  host loops until its criteria stop it, launches end, and their writes land;
  the arrival of requests is not fair.
- `LmHead`, `MoeLayer`, `RouterTopk` (in `Arithmetic`) and `DeltaTkg`,
  `GqaLayer`, `AttnBlockTkg`, `FlashTkg` (in `MCMixers`): weak fairness of the
  launch as a whole, that is, a launched kernel does not stop while any core can
  go on.  Waiting is explicit in the guards of the exchanges, so a meeting that
  one core misses is a hang and not a step that fairness would force.  Whether a
  next launch comes is not fair.
- `CompiledArtifacts`: weak fairness of the running process.  Nobody has to
  start one; `KillsAreOvercome` assumes that they keep being started, that kills
  stop some day, and that from then on no process finds a torn file that is
  counted whole (the operator deletes `weights/` where a shard is, and gives up a
  directory whose `model.pt` is).
- The other modules have no liveness property and no fairness: what they model is
  sequential host code, and a fairness assumption would say all of it.

## 4. Proofs

Checked by TLAPS, for every value of the constants.

| Property | Theorem | Module |
|---|---|---|
| `GreedyOutput`, `TrunkStateCommitted`, `DraftStateCommitted`, `LateWriteBenign` | `Lossless`, `TrunkCommitted`, `DrafterCommitted`, `AnyWriteOrder` | `SpecRoundProofs` |
| `BlockFitsWindow`, `StreamGrowsByCommit` | `WindowSuffices`, `StreamOnlyGrows` | `SpecRoundProofs` |
| the safety part of `ImplementsGreedyDecode` | `RefinesGreedyDecode` | `SpecRoundProofs` |
| `ConvIsHistory`, `RecIsHistory`, `ConvHeals`, `CandidatesAreDecodeSteps` | `ConvWindowExact`, `RecurrentStateExact`, `WindowHeals`, `CandidatesSequential` | `DeltaNetStateProofs` |
| `GqaLayer`'s part of `CachesHoldHistory` and of `QueriesReadHistory` | `OwnHistory`, `QueriesSeeHistory`, `RowsOfOutput` | `DeltaNetStateProofs` |
| `FilesInv`, `LoadFindsShards`, `ServedAsRequested` | `FilesInvariant`, `NothingMissing`, `ServesTheRequest` | `CompiledArtifactsProofs` |
| `LoadsExactly`, `NormsShiftedOnce`, `StoredAsRead`, `NoSharedStorage` | `ConversionLoads`, `NormsAreShifted`, `OrientationsMatch`, `StorageIsOwn` | `WeightsProofs` |
| `HeadsGrouped` | `HeadsKept` | `WeightsProofs` |
| `ResidualIsReference`, `MoeAsReference` | `RoundKeepsResidual`, `LaunchesAreReference` | `ArithmeticProofs` |
| `TokenIsArgmax` | `HeadIsArgmax` | `ArithmeticProofs`, from `LmHeadProofs` |
| `OutputsAreSequences` | `BatchesAreSequences` | `HostProofs`, from `HybridCacheProofs` |
| `OncePerSublayer`, `BuffersHoldTheirOwn`, `RequestReachesLayers` | `PathsKeepCount`, `AliasesKeepOwn`, `InputsArrive` | `HostProofs` |
| `ReadsItsOwnTensors` | `TensorsAreOwn` | `HostProofs` |

`SpecRoundProofs`.  The invariant is `RoundInv`.  `GreedyOutput` alone is not
inductive: a commit is right because the block was computed from accepted
tokens, which holds because of what every cache slot below the block holds in
every stage (`CachesInv`), and because of what the stages left in the locals
(`StagesInv`); that slots exist needs `LengthsInv`.  `RefinesGreedyDecode` shows
that initial states map to initial states and each step to a step of
`GreedyDecode` or a stutter.  Assumptions: prompts of at least `MinPrompt` tokens
that leave room for one, and the types of the constants.  The vocabulary, the
window, both heads, the set of prompts and the end-of-sequence tokens are
arbitrary.

`DeltaNetStateProofs`.  The invariant (`Inv`, in that module) adds to the two
exactness properties what holds in the cases they exclude: lengths, the shape of
the window after a short prompt, the candidates of a running block, the rest of
a chunked prompt.  That a wrong window heals follows from its shape: the columns
that a short prompt misplaced are the oldest, and each token pushes one out.
For every bucket of at least three columns, every length and every schedule of
chunks.  The second part is about `GqaLayer` (`Gqa`).  Its invariant, `AttnInv`,
says of each core what its tiles hold at its place: the two halves of every
projection once both have passed the first meeting, the normed, rotated and
transposed rows (`Ready`), attention over its lines or, past the second meeting,
over all (`Answers`).  It says of the caches that the slots below the position
are the request's own (`OwnSlots`) and that a core which has passed `Write` has
left the block's in its cache (`BlockWritten`).  The mask
keeps nothing of what an earlier request or a rejected block left in the cache
(`KeptLines`), and a write reaches no slot below the position (`TokenOfSlot`).
Without its meetings a core would go on with half a projection or half a context,
against `Ready` and `Answers`.  That a query sees each token once is a bijection between
the lines the mask keeps and the tokens up to its own (`PairsOfTokens`).  For every
even number of slots, every head size, split of it in tiles, rotated width and
number of query heads, every prompt and block and every order of the cores.

`CompiledArtifactsProofs`.  The invariant is `FilesInv`: a file that is whole was
written for an accepted request that names its directory, and what a process has
passed is on disk.  `NothingMissing` and `ServesTheRequest` hold under
`OneBuildPerPath`, which is the discipline the default directories leave to the
user and which `default_path` shows to be needed.  `NothingMissing` is about files
that exist; what is served is whole because `Load` reads it to its end.

`WeightsProofs`.  Each phase of the converter edits one part of the dictionary,
and the properties speak of the end only.  The invariant, `WeightsInv`, says per
phase what part is converted already and what part is still the checkpoint's:
the backbone up to the layer the loop has reached (`Backbone`), the MTP layer
(`MtpBefore`, `MtpAfter`), the head a draft keeps.  Converted means that key,
offset of the norm, orientation and storage are final.  From it all properties but
`HeadsGrouped` follow, for every list of layer types, every combination of flags and
all widths and head counts that divide as `ConfigsAssumption` says.  The invariant
quantifies over sequences of any length (`Typed`), which TLC cannot enumerate; TLC
checks what follows from it at the end.  What the converter's flattened lists of
rows contain is a fact about a recursive function of the library, proved by
taking a least counterexample.

`HeadsGrouped` needs to know which rows of the checkpoint a tensor has, in which
order, and that is an invariant of its own, `RowsInv`: the layers the loop has
passed hold the packed rows of their own projections (`DeltaNetDone`, `GqaDone`),
the others and the MTP layer still hold the checkpoint's (`Turning`), and a step
either converts a layer or keeps its rows (`Keeps`).  At the end the tensors are
known up to arithmetic (`DeltaNetPacked`, `GqaPacked`).  The rest is where rows
stand: row j of block i of a flattened list, a rank's share of it, and the cuts the
readers make, for head sizes and head counts that are variables.  Both groupings
come down to a quotient: local head j of rank r is head r * n + j, and dividing it
by the size of a group gives the same on a rank as in the whole model because a
rank holds whole groups (`DeltaNetOnRank`) or a group spans whole ranks
(`AttentionOnRank`).  For the other shapes the converters raise, and a run that
raises reaches no end.  `RowsInv` was checked by TLC on the configurations of `offline`.

`LmHeadProofs`, `ArithmeticProofs`.  The invariant, `ArgmaxInv`, says of every core
what it has seen of its slice after each chunk (`SearchInv`) and what it may
conclude from what its peer and the other ranks have published (`ResultInv`): the
greatest value and the lowest index that has it.  Then no core needs the row: the
lowest among the lowest of those that tie is the row's.  Proved for every number
of ranks, one core or two, every width of a slice and of a chunk, every row, and
every interleaving.  It needs `LoserAssumption`: the offset that bars a loser from
the final minimum is above every vocabulary id, as the comment in the code says
of its 2^30.  `ArithmeticProofs` carries the result over to the two heads of
`Arithmetic`.

`ArithmeticProofs` on `ResidualLayout`.  The invariant, `TrunkInv`, says per step
what the tiles hold: where the round is (`TrunkProgress`), what was handed over
and what a stage starts from (`TrunkConditioned`), the reference's residual for
the tokens and layers passed (`TrunkSeeded`), and, between a sublayer and its
gather, the part of the sublayer each core has computed (`TrunkWaiting`).  The
lemmas about division say that the column-major parts of attention and the
contiguous blocks of the MoE layer each cover every cell once.  For every hidden
size the layouts divide, every number of layers, ranks and tokens.

`ArithmeticProofs` on `MoeLayer`.  The invariant, `MoeInv`, says of every core what
its ring slots hold (`RingIs`: the expert whose turn is next, and the one loaded
ahead), what the sums hold after the experts computed so far (`AccIs`), which half
waits for the peer (`PartIs`), and what its stage has made of the tile (`StageIs`);
split by hidden half, the two cores of a rank are at the same expert.  From it
`RingKeepsUnread`, `OneValidBlock` and `TileIsSum` follow for every shape, number of
ranks and interleaving.  `BlocksAssumption` says that a launch whose
cores split the hidden dimension has one token, as the code that gathers their
blocks expects (section 6); `JunkAssumption` that what uninitialised memory holds is
no cell's value.

`ArithmeticProofs` on `RouterTopk`.  The invariant, `RouterInv`, says of every core
what it has of its own tokens at each step, in its memory, in its outputs and in
HBM (`MemIs`, `OutIs`, `HbmIs`), that no core is past a barrier the other has not
come to (`BarrierIs`), and of the indirect store that a flat cell a core has
reached holds its weight, or a zero of a core that is still on its tile
(`IndirectIs`: two cores' tiles may overlap).  It rests on three groups of lemmas:
that every token's sum is whole, in every layout of x and w and every cut of
the array (`LogitsAre`); that the k-th expert found is the one with k - 1 above
it, by counting (`RankTaken`, `TopIs`), before and after an activation that keeps
the order; and that tiles, rows and remainders put every token at its place
(`TilesFill`, `TilesMeet`, `WrittenIs`).  For every launch that `LaunchAssumption`
admits; two experts' logits are never equal (`LogitAssumption`).

`HybridCacheProofs`, `HostProofs`.  The invariant, `CacheInv`, says that every row
of the cache holds its own sequence, as far as the launch in progress has come,
and that the outputs so far are those of the sequences so far.  A launch writes
pads and filler rows as well.  Filler rows do no harm because the row they are
sent to is nobody's; pads do none as long as their position is no token's of
their own row.  Nothing is assumed of that position: a sequence whose pads met a
token is in `spoilt` until the next request, and only its own keys, and its own
output, are excepted (its DeltaNet state is right all the same).  In `Host` the
position is 1, as the library pads.  Then whole prompts of three or more tokens
are never spoilt, and neither is a chunk that fills its columns or a first chunk
of one token.  Any other partial chunk spoils its sequence: in a first chunk the
pads meet the token at 1, and in a later one the attention reads their key there
(`chunk_pads`).  Proved for every batch, launch size, number of filler rows and
position of the pads that `SizeAssumption` and `PadAssumption` allow.

`HostProofs` on `LayerPaths`.  The invariant, `PathsInv`, says of each layer where
it stands by what is still ahead of it in the call: before its embedding or
projection, between the halves of a sublayer, before the store of its cache, or
done with the call.  Each norm was then applied once and each partial sum was
added once whenever something is read, whichever flags fuse, split or skip the
steps (`OncePerSublayer`), for every list of layer types.

`HostProofs` on `AliasLayout`.  The invariant, `AliasInv`, says that every live
buffer holds its own value of the last call.  It is kept because the position
that an alias names counts as many outputs before it as the graph returns: the
lemmas about `Position` and `Outputs` compare the two lists piece by piece, for
every list of layer types, every graph and every extra output.

`HostProofs` on `TracedInputs`.  The invariant, `InputsInv`, says per phase of a call
what the tensors were computed from: the padded prompt after the wrapper, the
embedding with the images put in, the rotary table, the position of the last
token.  Two steps need more than substitution.  The column that reads a prompt's
last token is found by the greatest position, and a pad's position is 1: it is
the token's for every prompt of three or more (`PromptAssumption`; a prompt of one
token ties with its pads).  And an axis of the rotary table gets as many
frequencies as its section says only if its stripe fits into half a head
(`SectionAssumption`); the lemmas count a stripe by a bijection with an interval.
For every bucket, prompt, image and choice of sections.

`HostProofs` on `LaunchSignature`.  The invariant, `LaunchInv`, says of the compiled
wrappers that each was built for a pattern its key stands for, and of the launch
under way that every parameter of its body holds the tensors of its name, that the
running index of a type counts the layers of that type passed so far, and that
the handles computed so far are those of the first layers of each type, two or
four apart.  A read is then right because every name a wrapper asks for has a
place in the flat order, the tuples a wrapper passes stand in the order in which
its body declares its parameters (`ArgsAreParams`), and the running index is the
layer's place among its type (`LayersListed`).  A cached wrapper may have been
built for another pattern only where the kind has no trunk and asks for no
layer list.  For every set of patterns and every sequence of launches.

### Only model-checked

Liveness everywhere (`RequestEnds`, `EveryCoreAnswers`, `LaunchEnds`,
`KillsAreOvercome`): temporal reasoning under fairness is beyond the prover.
What the sums and products of `DeltaRule` and `FlashTkg` compute
(`ChunksAreRecurrence`, `AttentionIsExact`) needs induction over data.  The rest is
within reach and not proved: `LaunchIsLayer` of `DeltaTkg`, and what
`CachesHoldHistory` and `QueriesReadHistory` say of `AttnBlockTkg`.  The types of
`Arithmetic`, `Host` and `MCMixers` are conjunctions over all their parts and are checked with them.

## 5. Abstractions

- Arithmetic: projections, norms, rotary embedding, softmax and gates stand as
  what they are computed from.  `DeltaRule` and `DeltaTkg` keep theirs, exact,
  modulo a prime; `FlashTkg` and `RouterTopk` keep weights as exponents.
- Batch size one, as the driver builds it, except in `HybridCache`,
  `AttnBlockTkg` and `FlashTkg`.
- `DeltaNetState` takes the state of a decode step to be written in place; the
  emission of candidates and the commit are two steps.
- External code (NxDI's assisted decoding loop, position padding, key/value
  aliases, cache indices, the tracing and loading of graphs, the compiler's
  dependency tracking, the instructions of `nisa`) is modelled from how the
  repository uses it, and marked external in `PROJECT.json`.
- The stages inside the single launch are sequential in `SpecRound`.
- `HybridCache`: batches are static.  The position of a pad is the library's, 1, as
  in `TracedInputs`; `pad_inputs` of the repository leaves it alone (M 3917-4014).
- `CompiledArtifacts`: a torn file is one that its reader rejects; a file is torn
  from its opening on, and deleting a `model.pt` that is torn is left out.
- `LaunchSignature` keeps the caches of wrappers and leaves the registration of
  their sources in `linecache` out, under a name made of two counts
  (K `megakernel/qwen36_verify_megakernel.py` 482, `qwen36_round_megakernel.py` 476): two
  layer patterns with the same counts share a name, and when the front end reads
  a source back by it is not in the repository.
- `AliasLayout` claims the fused graphs' buffers only without `output_logits`
  (section 6).
- `AttnBlockTkg`: the tokens of a prompt carry one tag; context encoding and the
  acceptance of drafted tokens are the surrounding program's; a paged block is
  written inside one physical block (`Room`, section 6).
- `FlashTkg`: the caller's mask over the new tokens is causal; which sharding and
  whether flash tiles are used is given; one key head.
- `RouterTopk`: no two experts of a token are equal, before or after the bias
  (`LogitAssumption`; section 6).
- `WeightConversion` starts from a complete checkpoint (the `if key in sd` of the
  code are all taken), keeps the rows of the sharded axis only, and leaves the
  values out.  How NxDI shards its own q, k, v and expert weights is external.
  A head is at least two wide (`hd > 1`): a rotary rotates its halves.

## 6. Where code and comments disagree

Shown by a run:

- `default_path`: the default artifact directory depends on `--mtp-spec-decode`
  only (I 537), and an existing `model.pt` is loaded whatever the kernel flags.
  The assertion meant to exclude a silent benchmark of the fallback (I 555-556)
  looks at the new configuration, not at the graphs that are loaded.
- `torn_shard`: `_presharded_weights_complete` (I 215) asks whether a rank's file exists.
  Killed inside the write of the last missing shard, a process leaves a file that
  counts and cannot be read, so the docstring's "an interrupted shard ... is
  recovered by re-sharding alone" (I 226) does not hold: every later process loads
  the torn file and fails, until `weights/` is deleted.  A torn `model.pt` is taken
  for a compiled one in the same way (I 231).
- `fused_clamp`: the fused prefill kernel multiplies by `exp(-gc)` (K
  `deltanet/prefill/chunked_fused.py` 302), which overflows under strong decay;
  the comment at its call (M 1005) says that no clamp is needed.
- `flash_masked`: the correction between flash tiles is taken from running maxima
  that are not clamped, so two tiles in a row that are masked entirely give
  `exp(-inf - -inf)`; the clamp that a comment of the same file explains is
  applied to a copy (`attention_tkg.py` 1078 and 2304).
- `chunk_rotary`: the host rebuilds the rotary positions of every chunk from zero
  (M 5230), while the layer's comment takes them to be absolute (M 1966).
- `chunk_pads`: a chunk shorter than its bucket is padded by the library with position
  1.  In a first chunk the pads' write-back of stale values (M 2877-2889) meets the
  token at position 1, and the stale key may stay; in a later one the attention
  reads the pads' key at slot 1 (M 1975-1978).  The docstring says "Exact chunked
  CTE over the full decode cache" (M 1962).
- `offline` (it passes): the converter stores `eh_proj` and, through the model's head,
  `mtp_lm_head` transposed (M 3773, 3793, 3823), as the modules read them
  (`StoredAsRead`); its tests
  (`megakernels/qwen3_6_moe/tests/test_a3b_weight_conversion.py` 387-389 and 446-450)
  assert the checkpoint's orientation.
- `images_dropped`: vision tensors padded to the bucket have the shape of the
  dummy, and the traced forward skips them (M 3104, against 3031).

Seen while modelling, without a run:

- Context encoding gathers the convolution window at `clamp(num_valid - 3, 0)`
  (M 1334).  A prompt of one or two tokens leaves pads behind its tokens where
  zeros before them were meant, so the seed of the verify block is not "the
  window feeding the first block token" (M 687).  `ConvHeals` bounds the damage to
  three tokens.
- The pad id is set to the end-of-sequence id (I 137), and the torch decode step
  masks its input when it equals the pad.  A decoded end-of-sequence token passes
  the recurrence by, whereas the verify block consumes it; the comment at M 658
  says the two match bit for bit.
- In the big configuration of the MoE layer several tokens are split by hidden
  block, and what a core owns is not the "one contiguous free block" that
  `all_reduce_gather_free_block` relies on (`collectives.py` 87).  The dimensions
  of the A3B model stay below that threshold.
- `_copy_past_key_values` (M 5123) starts behind one output, and behind two only
  with on-device sampling; with `output_logits` and without on-device sampling
  the graph returns two (M 3374).
- The prefill aliases of the fused model (M 4960) count one output before the
  states, with `output_logits` there are two, although the comment at M 4993
  calls the layout that of the token-generation path.
- `attention_tkg.py` loads the mask of a flat cache with strided keys as
  partitions before tiles, `gen_mask_tkg_hbm` stores tiles before partitions
  (docstring `gen_mask_tkg.py` 27).  No caller combines the two.
- The docstring of `attention_block_tkg.py` (about line 202) lets an index of
  `uint32_max` skip a write; the flat caches do not skip.  With several tokens and
  a paged cache of batch one, a block that straddles two blocks of the cache is
  written on into the next physical one.
- `gpt_oss_with_megakernel.py` 570 says that sliding layers have
  `max_len = sliding_window - 1`; the kernel asserts a context of 128.
- Two experts with equal values are both found at the first one's place
  (`nc_find_index8`), and the one-hot mask counts it twice, so the eager weight is
  not the scattered one, as the comment at K `moe/components/routed_experts.py`
  163 has it.
- `router_topk.py`: sharded indices in SBUF beyond one tile are only asserted to
  be whole tiles of T, but each core needs whole tiles (T = 384 gives each 192);
  the eager weights of the pipeline without norm are returned unwritten; the
  one-hot store ends in a barrier of two cores also when there is one.  No caller
  reaches these.

## Not modelled

- `main.py`, `test.py`: sequential scripts around external calls; the report of
  latencies.
- Retired kernels that tile a matrix product and keep no state between tiles:
  `qkv_tkg`, `output_projection_tkg`, the MLP projections, the norms; with them the
  experts and the residual of the gpt-oss and Qwen3-MoE megakernels, their
  single-token variants, and KVDP, quantization and the output projection of the
  attention block.
- The order of the draft's, the verify pass's and the replay's stages on two
  cores inside the single launch: `SpecRound` runs them one after the other, and
  `ResidualLayout` models what they hand over.
- Weight values, rounding, number formats, memory allocation.
- `_hf_reference`, `*/vendored` (but for the twin of the router), tests, docs,
  scripts.

## 7. Plan

Modelled: every component of the A3B program and of the older megakernels whose
state outlives a tile.  Proved: section 4.  What is left, in this order:

1. `CachesHoldHistory` and `QueriesReadHistory` of `AttnBlockTkg`, along the proof
   of `GqaLayer`'s.
2. `LaunchIsLayer` of `DeltaTkg`.
