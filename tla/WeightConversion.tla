-------------------------- MODULE WeightConversion --------------------------
(***************************************************************************)
(* The conversion of a Hugging Face checkpoint into the parameters the      *)
(* model loads, an edit in place of one dictionary: strip the VL wrapper,   *)
(* shift the RMSNorm weights, convert every layer, then the LM head and     *)
(* the MTP head (convert_qwen36_a3b_hf_to_neuron_state_dict), and for the   *)
(* draft holder keep the draft's parameters only.                           *)
(*                                                                          *)
(* A tensor keeps the rows of its sharded axis, each a row <<key, i>> of    *)
(* the checkpoint; the other axes, and the values, are left out.  `plus`    *)
(* counts the 1.0 added to it, `trans` says whether it is stored transposed,*)
(* `store` names the allocation it lives in.                                *)
(***************************************************************************)
EXTENDS Integers, Sequences, FiniteSets, Functions, TLC, SequencesExt

CONSTANT Configs  \* the configurations a checkpoint is converted for

ASSUME ConfigsAssumption ==
    \A c \in Configs :
        /\ {c.tp, c.nk, c.nv, c.kd, c.vd, c.nq, c.nkv, c.hd} \subseteq Nat \ {0}
        /\ c.types \in Seq({"linear_attention", "full_attention"})
        /\ {c.mtp, c.draft, c.attn, c.moe, c.fusedQkv} \subseteq BOOLEAN
        /\ c.nv % c.nk = 0 /\ c.nq % c.nkv = 0 /\ c.nq % c.tp = 0
        /\ c.hd > 1  \* a rotary rotates the halves of a head
        /\ c.draft => c.mtp

VARIABLES
    cfg,   \* the configuration of this conversion
    sd,    \* neuron_state_dict
    pc,    \* the next part of the conversion
    layer  \* the loop variable l, from 1

vars == <<cfg, sd, pc, layer>>

\* The owners of parameters; a key is an owner and a name.
Top == <<>>
Layer(l) == <<"layers", l>>
Mtp == <<"mtp">>
MtpLayer == <<"mtp", "layers.0">>
MtpHead == <<"mtp_head">>
MtpHeadLayer == <<"mtp_head", "decoder_layer">>
Visual == <<"visual">>

Layers(c) == 1 .. Len(c.types)
Linear(c, l) == c.types[l] = "linear_attention"
KeyDim(c) == c.nk * c.kd
ValueDim(c) == c.nv * c.vd
ConvDim(c) == 2 * KeyDim(c) + ValueDim(c)

(***************************************************************************)
(* The checkpoint: names and rows per owner.                                *)
(***************************************************************************)
\* f, and g where f says nothing: TLC's @@, which the provers do not know.
Over(f, g) == [x \in DOMAIN f \cup DOMAIN g |-> IF x \in DOMAIN f THEN f[x] ELSE g[x]]

MlpRows ==
    [n \in {"gate", "experts.gate_up_proj", "experts.down_proj", "shared.gate_proj",
            "shared.up_proj", "shared.down_proj", "shared_expert_gate"} |->
        IF n = "shared_expert_gate" THEN 1 ELSE 2]

NormRows == [n \in {"input_layernorm", "post_attention_layernorm"} |-> 1]

LinearRows(c) ==
    [in_proj_qkv |-> ConvDim(c), in_proj_z |-> ValueDim(c), in_proj_a |-> c.nv,
     in_proj_b |-> c.nv, conv1d |-> ConvDim(c), A_log |-> c.nv, dt_bias |-> c.nv,
     gated_norm |-> 1, out_proj |-> ValueDim(c)]

FullRows(c) ==
    [q_proj |-> 2 * c.nq * c.hd, k_proj |-> c.nkv * c.hd, v_proj |-> c.nkv * c.hd,
     o_proj |-> c.nq * c.hd, q_norm |-> 1, k_norm |-> 1]

LayerRows(c, linear) ==
    Over(IF linear THEN LinearRows(c) ELSE FullRows(c), Over(NormRows, MlpRows))

OwnerRows(c) ==
    [o \in {Top, Visual, Mtp, MtpLayer} \cup {Layer(l) : l \in Layers(c)} |->
        CASE o = Top -> [embed_tokens |-> 2, lm_head |-> 2, norm |-> 1]
          [] o = Visual -> [blocks |-> 2]
          [] o = Mtp -> [fc |-> 2, pre_fc_norm_embedding |-> 1, pre_fc_norm_hidden |-> 1, norm |-> 1]
          [] o = MtpLayer -> LayerRows(c, FALSE)
          [] OTHER -> LayerRows(c, Linear(c, o[2]))]

Tensor(k, rows) == [rows |-> rows, plus |-> 0, trans |-> FALSE, store |-> k]

Checkpoint(c) ==
    LET rows == OwnerRows(c)
        keys == UNION {{<<o, n>> : n \in DOMAIN rows[o]} : o \in DOMAIN rows}
    IN  [k \in keys |-> Tensor(k, [i \in 1 .. rows[k[1]][k[2]] |-> <<k, i - 1>>])]

(***************************************************************************)
(* Edits of the dictionary.                                                 *)
(***************************************************************************)
Drop(d, keys) == Restrict(d, DOMAIN d \ keys)
Put(d, k, t) == [m \in DOMAIN d \cup {k} |-> IF m = k THEN t ELSE d[m]]

\* detach().clone(), cat, + 1.0: a new allocation.
Clone(t, k) == [t EXCEPT !.store = k]

\* .t().contiguous() copies, except a single row, which is contiguous already.
Transposed(t, k) ==
    [t EXCEPT !.trans = ~@, !.store = IF Len(t.rows) = 1 THEN @ ELSE k]

Rename(d, old, new) ==
    IF old \in DOMAIN d THEN Put(Drop(d, {old}), new, Clone(d[old], new)) ELSE d

\* The slice s[a:b] of Python.
Slice(s, a, b) == SubSeq(s, a + 1, b)

\* The r-th of the c.tp equal shards of the rows s; ranks count from 0.
Shard(c, s, r) == LET n == Len(s) \div c.tp IN Slice(s, r * n, (r + 1) * n)

PerRank(c, Block(_)) == FlattenSeq([i \in 1 .. c.tp |-> Block(i - 1)])

\* Mutant: the qkv rows left as the checkpoint has them.
Unpacked(c, s) == s

\* reorder_deltanet_qkv_for_tp: [Q_all | K_all | V_all] into per-rank Q/K/V.
ReorderQkv(c, s) ==
    LET q == Slice(s, 0, KeyDim(c))
        k == Slice(s, KeyDim(c), 2 * KeyDim(c))
        v == Slice(s, 2 * KeyDim(c), ConvDim(c))
    IN  PerRank(c, LAMBDA r : Shard(c, q, r) \o Shard(c, k, r) \o Shard(c, v, r))

\* build_deltanet_in_proj_fused: every rank's [qkv | z | a | b].
InProjFused(c, qkv, z, a, b) ==
    PerRank(c, LAMBDA r : Shard(c, qkv, r) \o Shard(c, z, r) \o Shard(c, a, r) \o Shard(c, b, r))

\* The head of k or v that repeat_interleave puts at place r.
ReplicatedHead(c, s, r) ==
    LET h == r \div (c.tp \div c.nkv) IN Slice(s, h * c.hd, (h + 1) * c.hd)

\* build_gqa_qkv_fused: every rank's query heads, then its k and v head.
GqaQkvFused(c, q, k, v) ==
    PerRank(c, LAMBDA r : Shard(c, q, r) \o ReplicatedHead(c, k, r) \o ReplicatedHead(c, v, r))

\* Half 0 (query) or 1 (output gate) of every head of the doubled q_proj.
HeadHalf(c, s, half) ==
    FlattenSeq([h \in 1 .. c.nq |->
        Slice(s, (2 * (h - 1) + half) * c.hd, (2 * (h - 1) + half + 1) * c.hd)])

(***************************************************************************)
(* The converters of one layer, on the keys of its owner o.                 *)
(***************************************************************************)
\* The parts of a full-attention layer: rank_util and the norms' names, ...
NamedAttention(d, o) ==
    LET r == <<o, "rank_util">>
    IN  Rename(Rename(Put(d, r, Tensor(r, << <<r, 0>> >>)),
                      <<o, "q_norm">>, <<o, "q_layernorm">>),
               <<o, "k_norm">>, <<o, "k_layernorm">>)

\* ... the query and the output gate out of the doubled q_proj, ...
SplitGate(d, o, c) ==
    LET q == <<o, "q_proj">>
        g == <<o, "output_gate_proj">>
    IN  Put(Put(d, q, Tensor(q, HeadHalf(c, d[q].rows, 0))),
            g, Tensor(g, HeadHalf(c, d[q].rows, 1)))

\* ... the copies the fused kernel reads, ...
KernelCopies(d, o, c) ==
    LET w == <<o, "gqa_qkv_w">>
        g == <<o, "gqa_gate_w">>
        p == <<o, "gqa_o_proj_w">>
        Rows(n) == d[<<o, n>>].rows
        qkv == GqaQkvFused(c, Rows("q_proj"), Rows("k_proj"), Rows("v_proj"))
    IN  Put(Put(Put(d, w, Transposed(Tensor(w, qkv), w)),
                g, Transposed(d[<<o, "output_gate_proj">>], g)),
            p, Transposed(d[<<o, "o_proj">>], p))

\* ... and NxDI's fused projection in place of q, k and v.
FusedQkv(d, o) ==
    LET w == <<o, "Wqkv">>
        qkv == {<<o, n>> : n \in {"q_proj", "k_proj", "v_proj"}}
        Rows(n) == d[<<o, n>>].rows
    IN  Put(Drop(d, qkv), w, Tensor(w, Rows("q_proj") \o Rows("k_proj") \o Rows("v_proj")))

ConvertAttention(d, o, c) ==
    LET split == SplitGate(NamedAttention(d, o), o, c)
        copied == IF c.attn THEN KernelCopies(split, o, c) ELSE split
    IN  IF c.fusedQkv THEN FusedQkv(copied, o) ELSE copied

\* Mutant: the .clone() of the one-row copy dropped.
Uncloned(t, k) == Transposed(t, k)

\* The sigma gate's copy is cloned: transposing its one row copies nothing.
SigmaCopy(t, k) == Clone(Transposed(t, k), k)

\* Mutant: the down projection forgotten.
GateAndUp(o) == {<<o, n>> : n \in {"shared.gate_proj", "shared.up_proj"}}

SharedProjections(o) == {<<o, n>> : n \in {"shared.gate_proj", "shared.up_proj", "shared.down_proj"}}

ConvertMoe(d, o, c) ==
    LET renamed == Rename(Rename(Rename(d, <<o, "gate">>, <<o, "moe.router">>),
                       <<o, "experts.gate_up_proj">>, <<o, "moe.gate_up_proj">>),
                       <<o, "experts.down_proj">>, <<o, "moe.down_proj">>)
        flipped == {<<o, "moe.gate_up_proj">>, <<o, "moe.down_proj">>}
                   \cup IF c.moe THEN SharedProjections(o) ELSE {}
        stored == [k \in DOMAIN renamed |->
                    IF k \in flipped THEN Transposed(renamed[k], k) ELSE renamed[k]]
        router == <<o, "moe_router_w_t">>
        sigma == <<o, "moe_sigma_gate_t">>
    IN  IF c.moe
        THEN Put(Put(stored,
                     router, Clone(Transposed(stored[<<o, "moe.router">>], router), router)),
                 sigma, SigmaCopy(stored[<<o, "shared_expert_gate">>], sigma))
        ELSE stored

ConvertDeltaNet(d, o, c) ==
    LET Rows(n) == d[<<o, n>>].rows
        Repacked(n) == IF c.tp > 1 THEN ReorderQkv(c, Rows(n)) ELSE Rows(n)
        fused == <<o, "in_proj_fused">>
        out == <<o, "out_proj">>
        conv == <<o, "conv1d_weight">>
        popped == {<<o, n>> : n \in {"in_proj_qkv", "in_proj_z", "in_proj_a", "in_proj_b", "conv1d"}}
        proj == InProjFused(c, Repacked("in_proj_qkv"), Rows("in_proj_z"),
                            Rows("in_proj_a"), Rows("in_proj_b"))
        packed == Put(Put(Put(Drop(d, popped), fused, Transposed(Tensor(fused, proj), fused)),
                          out, Transposed(d[out], out)),
                      conv, Tensor(conv, Repacked("conv1d")))
    IN  Rename(Rename(packed, <<o, "A_log">>, <<o, "A_log_weight">>),
               <<o, "dt_bias">>, <<o, "dt_bias_weight">>)

\* The keys of norms among d's that hold w where NxDI wants 1 + w.
Shifted(d, keys) ==
    [k \in DOMAIN d |-> IF k \in keys THEN [d[k] EXCEPT !.plus = @ + 1, !.store = k] ELSE d[k]]

NormsOf(c) ==
    {<<Top, "norm">>}
    \cup {<<Layer(l), n>> : l \in Layers(c), n \in {"input_layernorm", "post_attention_layernorm"}}
    \cup {<<Layer(l), n>> : l \in {m \in Layers(c) : ~Linear(c, m)}, n \in {"q_norm", "k_norm"}}

MtpNorms ==
    {<<MtpHead, n>> : n \in {"embed_norm", "hidden_norm", "final_norm"}}
    \cup {<<MtpHeadLayer, n>> : n \in {"input_layernorm", "post_attention_layernorm", "q_norm", "k_norm"}}

\* The MTP keys under the names of the head, its projection transposed.
RenamedMtp(d) ==
    LET eh == <<MtpHead, "eh_proj">>
        top == Rename(Rename(Rename(Rename(d, <<Mtp, "fc">>, eh),
                  <<Mtp, "pre_fc_norm_embedding">>, <<MtpHead, "embed_norm">>),
                  <<Mtp, "pre_fc_norm_hidden">>, <<MtpHead, "hidden_norm">>),
                  <<Mtp, "norm">>, <<MtpHead, "final_norm">>)
        moved == {k \in DOMAIN d : k[1] = MtpLayer}
        layer0 == [k \in {<<MtpHeadLayer, m[2]>> : m \in moved} |-> Clone(d[<<MtpLayer, k[2]>>], k)]
    IN  Drop(Over(layer0, Put(top, eh, Transposed(top[eh], eh))),
             {k \in DOMAIN top : k[1] \in {Mtp, MtpLayer}})

\* The draft's LM head is a copy of the model's.
TiedHead(d) ==
    LET k == <<MtpHead, "mtp_lm_head">> IN Put(d, k, Clone(d[<<Top, "lm_head">>], k))

\* Mutant: the norms shifted after their names changed.
ShiftedLate(d, c) ==
    TiedHead(Shifted(ConvertMoe(ConvertAttention(RenamedMtp(d), MtpHeadLayer, c),
                                MtpHeadLayer, c), MtpNorms))

ConvertedMtp(d, c) ==
    TiedHead(ConvertMoe(ConvertAttention(Shifted(RenamedMtp(d), MtpNorms), MtpHeadLayer, c),
                        MtpHeadLayer, c))

(***************************************************************************)
(* What the converters raise on: heads that do not divide by the TP degree, *)
(* and a rank whose k head the replication did not make (k[r]).             *)
(***************************************************************************)
DeltaNetRaises(c) == c.tp > 1 /\ (c.nk % c.tp # 0 \/ c.nv % c.tp # 0)
AttentionRaises(c) == c.attn /\ c.nkv * (c.tp \div c.nkv) < c.tp

----------------------------------------------------------------------------
Init ==
    /\ cfg \in Configs
    /\ sd = Checkpoint(cfg)
    /\ pc = "strip"
    /\ layer = 1

\* Strip the prefixes of the VL wrapper, drop the vision encoder.
Strip ==
    /\ pc = "strip"
    /\ sd' = Drop(sd, {k \in DOMAIN sd : k[1] = Visual})
    /\ pc' = "norms"
    /\ UNCHANGED <<cfg, layer>>

\* The model's rank_util, and 1 + w in every norm of the backbone.
ShiftNorms ==
    /\ pc = "norms"
    /\ LET r == <<Top, "rank_util">>
       IN  sd' = Put(Shifted(sd, NormsOf(cfg)), r, Tensor(r, << <<r, 0>> >>))
    /\ pc' = "layers"
    /\ UNCHANGED <<cfg, layer>>

ConvertLayer ==
    /\ pc = "layers" /\ layer \in Layers(cfg)
    /\ IF Linear(cfg, layer) THEN ~DeltaNetRaises(cfg) ELSE ~AttentionRaises(cfg)
    /\ LET o == Layer(layer)
           mixed == IF Linear(cfg, layer)
                    THEN ConvertDeltaNet(sd, o, cfg)
                    ELSE ConvertAttention(sd, o, cfg)
       IN  sd' = ConvertMoe(mixed, o, cfg)
    /\ layer' = layer + 1
    /\ UNCHANGED <<cfg, pc>>

\* The model's head is stored transposed before the draft's is copied from it.
ConvertHead ==
    /\ pc = "layers" /\ layer \notin Layers(cfg)
    /\ LET k == <<Top, "lm_head">> IN sd' = Put(sd, k, Transposed(sd[k], k))
    /\ pc' = "mtp"
    /\ UNCHANGED <<cfg, layer>>

ConvertMtp ==
    /\ pc = "mtp" /\ cfg.mtp /\ ~AttentionRaises(cfg)
    /\ sd' = ConvertedMtp(sd, cfg)
    /\ pc' = IF cfg.draft THEN "filter" ELSE "done"
    /\ UNCHANGED <<cfg, layer>>

DropMtp ==
    /\ pc = "mtp" /\ ~cfg.mtp
    /\ sd' = Drop(sd, {k \in DOMAIN sd : k[1] \in {Mtp, MtpLayer}})
    /\ pc' = "done"
    /\ UNCHANGED <<cfg, layer>>

\* Mutant: the model's rank_util dropped with the backbone.
KeepHeadOnly ==
    /\ pc = "filter"
    /\ sd' = Restrict(sd, {k \in DOMAIN sd :
                k[1] \in {MtpHead, MtpHeadLayer} \/ k = <<Top, "embed_tokens">>})
    /\ pc' = "done"
    /\ UNCHANGED <<cfg, layer>>

\* The draft holder keeps the embedding, the head and the model's rank_util.
KeepDraft ==
    /\ pc = "filter"
    /\ sd' = Restrict(sd, {k \in DOMAIN sd :
                \/ k[1] \in {MtpHead, MtpHeadLayer}
                \/ k \in {<<Top, "embed_tokens">>, <<Top, "rank_util">>}})
    /\ pc' = "done"
    /\ UNCHANGED <<cfg, layer>>

Raise ==
    /\ \/ pc = "layers" /\ layer \in Layers(cfg)
          /\ IF Linear(cfg, layer) THEN DeltaNetRaises(cfg) ELSE AttentionRaises(cfg)
       \/ pc = "mtp" /\ cfg.mtp /\ AttentionRaises(cfg)
    /\ pc' = "raised"
    /\ UNCHANGED <<cfg, sd, layer>>

Ended == pc \in {"done", "raised"} /\ UNCHANGED vars

Next ==
    \/ Strip \/ ShiftNorms \/ ConvertLayer \/ ConvertHead
    \/ ConvertMtp \/ DropMtp \/ KeepDraft \/ Raise \/ Ended

Spec == Init /\ [][Next]_vars
=============================================================================
