------------------------------- MODULE LayerPaths -------------------------------
(***************************************************************************)
(* Every build of the model runs the same layers, but who norms a           *)
(* sublayer's input, who sums its output over the ranks, who writes the     *)
(* caches and which copies of the weights are read depends on the flags, on *)
(* the call and on the layer.  The module follows a request through its     *)
(* calls under every combination of flags and keeps count.                  *)
(*                                                                          *)
(* The owner of a layer is the trunk or the draft ("mtp", one full layer).  *)
(* Chunked prefill and the hybrid cache are HybridCache's.                  *)
(***************************************************************************)
EXTENDS Integers, SequencesExt

CONSTANTS
    LayerTypes,     \* layer_types of the trunk: "linear" or "full"
    MaxSteps        \* bound: decode steps or rounds of a request

LayerAssumption == LayerTypes \in Seq({"linear", "full"}) /\ LayerTypes # <<>>

Mtp == Len(LayerTypes) + 1
Layer == 1 .. Mtp
IsLinear(l) == l # Mtp /\ LayerTypes[l] = "linear"
Trunk == 1 .. Len(LayerTypes)
Layers(owner) == IF owner = "mtp" THEN {Mtp} ELSE Trunk

Arguments == [spec : BOOLEAN, tkg : BOOLEAN, moe : BOOLEAN,
              verify : BOOLEAN, draft : BOOLEAN, round : BOOLEAN]

VARIABLES
    build,      \* the flags of the configurations
    mtpStage,   \* is_prefill_stage of the draft's configuration while decoding
    call,       \* the call under way
    rest,       \* what is left of it, in order
    steps,      \* decode steps or rounds so far
    terms,      \* what has been added to the residual since it was embedded
    pending,    \* keys and values returned but not stored: layer to layout
    kv,         \* layout of what each layer's cache holds
    wrote,      \* how often each layer's cache was written since its stage began
    seen,       \* pairs of a layout found in a cache and the one expected
    touched,    \* weights read so far
    handed      \* final norms applied to the hidden that is handed on

vars == <<build, mtpStage, call, rest, steps, terms, pending, kv, wrote, seen, touched, handed>>

-----------------------------------------------------------------------------
(* Configuration and weights.                                                 *)

\* build_inference_config: what the flags imply.
Implied(a) ==
    LET v == a.verify \/ a.round
        d == a.draft \/ a.round
    IN  [a EXCEPT !.verify = v, !.draft = d,
                  !.tkg = a.tkg \/ v \/ d, !.moe = a.moe \/ v \/ d]

Transposed == build.tkg     \* k_cache_transposed
CacheLayout == IF Transposed THEN "BHDS" ELSE "BHSD"

AttentionWeights == {"q_proj", "k_proj", "v_proj", "o_proj", "output_gate_proj"}
KernelAttention == {"gqa_qkv_w", "gqa_gate_w", "gqa_o_proj_w"}
LinearWeights == {"in_proj_fused", "conv1d_weight", "A_log_weight", "dt_bias_weight", "out_proj"}
SharedLayout == IF build.moe THEN "shared [in, out]" ELSE "shared [out, in]"
MoeWeights == {"router", "experts", "shared_expert_gate"}
KernelMoe == {"moe_router_w_t", "moe_sigma_gate_t"}

\* The parameters a layer declares.
Declared(l) ==
    (IF IsLinear(l) THEN LinearWeights
     ELSE AttentionWeights \union (IF build.tkg THEN KernelAttention ELSE {}))
    \union MoeWeights \union {SharedLayout} \union (IF build.moe THEN KernelMoe ELSE {})

-----------------------------------------------------------------------------
(* Which path a sublayer takes in a call.                                     *)

Prefilling == call \in {"prefill", "mtp_prefill"}
Stage(l) == IF Prefilling THEN "true" ELSE IF l = Mtp THEN mtpStage ELSE "false"

\* The whole stage runs in a megakernel.
InMegakernel ==
    \/ call = "round"
    \/ call = "verify" /\ build.verify
    \/ call \in {"draft", "replay"} /\ build.draft

UsesTkgKernel == build.tkg /\ ~Prefilling
GqaKernel(l) == ~IsLinear(l) /\ UsesTkgKernel

\* The decoder layer norms the input itself unless the sublayer will.
LayerNorms(l) == ~(GqaKernel(l) \/ (call = "verify" /\ IsLinear(l)))

\* verify_block and the kernels norm their input with the layer's weight.
SublayerNorms(l) == InMegakernel \/ GqaKernel(l) \/ (call = "verify" /\ IsLinear(l))

Times(b) == IF b THEN 1 ELSE 0
AttentionNorms(l) == Times(~InMegakernel /\ LayerNorms(l)) + Times(SublayerNorms(l))

\* The projection sums its own output: the library's row-parallel layer or
\* _output_project.
ProjectionSums(l) ==
    ~InMegakernel /\ ~GqaKernel(l) /\ ~(IsLinear(l) /\ call = "verify" /\ build.tkg)

\* The host sums a kernel's partial.
HostSums(l) ==
    ~InMegakernel /\ (GqaKernel(l) \/ (IsLinear(l) /\ call = "verify" /\ build.tkg))

AttentionSums(l) == Times(ProjectionSums(l)) + Times(HostSums(l)) + Times(InMegakernel)

AttentionReads(l) ==
    IF IsLinear(l) THEN LinearWeights
    ELSE IF InMegakernel \/ GqaKernel(l) THEN KernelAttention ELSE AttentionWeights

\* The fused MoE is taken where the stage is known not to be prefill.
MoeKernel(l) == InMegakernel \/ (build.moe /\ Stage(l) = "false")

\* The layer norms a torch MoE's input; the kernel is given the weight.
MoeNorms(l) == Times(~MoeKernel(l)) + Times(MoeKernel(l))

\* Sums the library's MoE applies to the routed output: deferred.
RoutedSums(l) == 0

\* Routed and shared output are each summed with their gated sum, once.
MoeSums(l) == [routed |-> RoutedSums(l) + 1, shared |-> 1]

MoeReads(l) ==
    IF MoeKernel(l) THEN KernelMoe \union {"experts", "shared [in, out]"}
    ELSE MoeWeights \union {SharedLayout}

\* The draft's torch loop lets the fused attention write its cache in place.
DraftInPlace == ~Prefilling /\ build.tkg

\* Keys and values are written by the launch instead of being returned.
InPlace(l) ==
    \/ call = "round" /\ ~IsLinear(l)
    \/ l = Mtp /\ (IF InMegakernel THEN TRUE ELSE DraftInPlace)

\* Mutant: keys leave the torch attention as they come.
NeverPermuted(l) == "BHSD"
\* Layout of the keys a layer returns; a DeltaNet layer returns placeholders.
ReturnedLayout(l) == CacheLayout
WrittenLayout(l) == IF InMegakernel \/ GqaKernel(l) THEN "BHDS" ELSE ReturnedLayout(l)

\* A layer that attends over its cache expects this layout of it.
ExpectedLayout(l) == IF InMegakernel \/ GqaKernel(l) THEN "BHDS" ELSE CacheLayout

-----------------------------------------------------------------------------
(* The calls of a request.                                                    *)

Blocks(l) == << <<"attn", l>>, <<"moe", l>> >>
Stages(owner, head) ==
    << <<"embed", owner>> >>
    \o (IF owner = "mtp" THEN Blocks(Mtp) ELSE FlattenSeq([l \in Trunk |-> Blocks(l)]))
    \o (IF head THEN << <<"head", owner>> >> ELSE <<>>)
    \o << <<"store", owner>> >>

\* What a call runs; a replay in a megakernel has no head.
Items(c, b) ==
    CASE c \in {"prefill", "decode", "verify"} -> Stages("trunk", TRUE)
      [] c \in {"mtp_prefill", "draft"} -> Stages("mtp", TRUE)
      [] c = "replay" -> Stages("mtp", ~b.draft)
      [] c = "round" -> Stages("mtp", TRUE) \o Stages("trunk", TRUE) \o Stages("mtp", FALSE)
      [] OTHER -> <<>>

\* The call after c.
FollowUp(c) ==
    CASE c = "none" -> "prefill"
      [] c = "prefill" -> IF build.spec THEN "mtp_prefill" ELSE "decode"
      [] c = "decode" -> "decode"
      [] c = "draft" -> "verify"
      [] c = "verify" -> "replay"
      [] OTHER -> IF build.round THEN "round" ELSE "draft"

Init ==
    /\ \E a \in Arguments : build = Implied(a)
    /\ mtpStage \in {"none", "false"}
    /\ call = "none" /\ rest = <<>> /\ steps = 0 /\ terms = <<>>
    /\ pending = [l \in Layer |-> "none"] /\ kv = [l \in Layer |-> "none"]
    /\ wrote = [l \in Layer |-> 0] /\ seen = {} /\ touched = {} /\ handed = 0

Begin ==
    /\ rest = <<>>
    /\ LET c == FollowUp(call)
           step == c \in {"decode", "draft", "round"}
       IN  /\ step => steps < MaxSteps
           /\ call' = c /\ rest' = Items(c, build) /\ steps' = steps + Times(step)
    /\ UNCHANGED <<build, mtpStage, terms, pending, kv, wrote, seen, touched, handed>>

Item(kind) == rest # <<>> /\ rest[1][1] = kind
Advance == rest' = Tail(rest) /\ UNCHANGED <<build, mtpStage, call, steps>>

Embed ==
    /\ Item("embed") /\ Advance
    /\ terms' = <<>>
    /\ wrote' = [l \in Layer |-> IF l \in Layers(rest[1][2]) THEN 0 ELSE wrote[l]]
    /\ UNCHANGED <<pending, kv, seen, touched, handed>>

Write(f, l) == [f EXCEPT ![l] = @ + 1]

Attention ==
    /\ Item("attn") /\ Advance
    /\ LET l == rest[1][2]
       IN  /\ terms' = Append(terms, [sub |-> "attn", norms |-> AttentionNorms(l), sums |-> AttentionSums(l)])
           /\ seen' = IF Prefilling \/ IsLinear(l) THEN seen
                      ELSE seen \union {<<kv[l], ExpectedLayout(l)>>}
           /\ touched' = touched \union {<<l, w>> : w \in AttentionReads(l)}
           /\ IF InPlace(l)
                THEN /\ kv' = [kv EXCEPT ![l] = WrittenLayout(l)] /\ wrote' = Write(wrote, l)
                     /\ UNCHANGED pending
                ELSE /\ pending' = [pending EXCEPT ![l] = WrittenLayout(l)]
                     /\ UNCHANGED <<kv, wrote>>
    /\ UNCHANGED handed

Moe ==
    /\ Item("moe") /\ Advance
    /\ LET l == rest[1][2]
       IN  /\ terms' = terms \o << [sub |-> "routed", norms |-> MoeNorms(l), sums |-> MoeSums(l).routed],
                                   [sub |-> "shared", norms |-> MoeNorms(l), sums |-> MoeSums(l).shared] >>
           /\ touched' = touched \union {<<l, w>> : w \in MoeReads(l)}
    /\ UNCHANGED <<pending, kv, wrote, seen, handed>>

\* Final norms of the hidden the next stage is given: the norm's input is
\* captured, kept or returned, not its output.
BeforeNorm == 0

VocabHead ==
    /\ Item("head") /\ Advance
    /\ handed' = BeforeNorm
    /\ terms' = Append(terms, [sub |-> "head", norms |-> 1, sums |-> 1])
    /\ UNCHANGED <<pending, kv, wrote, seen, touched>>

\* Layers whose keys and values the host scatters into their cache.
Returned(l) == pending[l] # "none"

Store ==
    /\ Item("store") /\ Advance
    /\ LET stored == {l \in Layers(rest[1][2]) : Returned(l)}
       IN  /\ kv' = [l \in Layer |-> IF l \in stored THEN pending[l] ELSE kv[l]]
           /\ wrote' = [l \in Layer |-> IF l \in stored THEN wrote[l] + 1 ELSE wrote[l]]
           /\ pending' = [l \in Layer |-> IF l \in stored THEN "none" ELSE pending[l]]
    /\ UNCHANGED <<terms, seen, touched, handed>>

Next == Begin \/ Embed \/ Attention \/ Moe \/ VocabHead \/ Store

Spec == Init /\ [][Next]_vars

-----------------------------------------------------------------------------

Layouts == {"none", "BHDS", "BHSD"}

TypeOK ==
    /\ build \in Arguments /\ mtpStage \in {"none", "false"}
    /\ call \in {"none", "prefill", "mtp_prefill", "decode", "draft", "verify", "replay", "round"}
    /\ steps \in 0 .. MaxSteps
    /\ pending \in [Layer -> Layouts] /\ kv \in [Layer -> Layouts]
    /\ wrote \in [Layer -> 0 .. 1] /\ handed \in 0 .. 1

\* Whatever the flags and the call, every sublayer's input is normed exactly
\* once, by the layer or by the sublayer, and the output of each is summed over
\* the ranks exactly once; the hidden handed to the next stage is unnormed.
OncePerSublayer ==
    /\ \A i \in DOMAIN terms : terms[i].norms = 1 /\ terms[i].sums = 1
    /\ handed = 0

\* When a stage is over, the cache of each of its layers has been written
\* exactly once, by the launch or by the host, and nothing waits to be stored.
CachesWrittenOnce ==
    \A owner \in {"trunk", "mtp"} :
        (rest = <<>> /\ call \in (IF owner = "mtp" THEN {"mtp_prefill", "draft", "replay", "round"}
                                  ELSE {"prefill", "decode", "verify", "round"})) =>
            \A l \in Layers(owner) : wrote[l] = 1 /\ pending[l] = "none"

\* A cache is only ever attended over in the layout it was written in, and
\* never before prefill has filled it.
LayoutsAgree == \A p \in seen : p[1] = p[2]

\* A path reads only parameters that the flags made its layer declare.
ReadsDeclared == \A t \in touched : t[2] \in Declared(t[1])
=============================================================================
