---------------------------- MODULE WeightsAsRead ----------------------------
(***************************************************************************)
(* The other side of the conversion: the parameters the modules declare,    *)
(* how each is stored, and the rows a rank finds at the offsets its forward *)
(* pass and its kernels read.  The properties say that what                 *)
(* WeightConversion writes is what is read here.                            *)
(***************************************************************************)
EXTENDS WeightConversion

Done == pc = "done"

(***************************************************************************)
(* The declared parameters.                                                 *)
(***************************************************************************)
MlpParams(c) ==
    {"moe.router", "moe.gate_up_proj", "moe.down_proj", "shared.gate_proj", "shared.up_proj",
     "shared.down_proj", "shared_expert_gate"}
    \cup IF c.moe THEN {"moe_router_w_t", "moe_sigma_gate_t"} ELSE {}

DeltaNetParams ==
    {"conv1d_weight", "in_proj_fused", "dt_bias_weight", "A_log_weight", "gated_norm", "out_proj"}

AttentionParams(c) ==
    {"rank_util", "q_layernorm", "k_layernorm", "output_gate_proj", "o_proj"}
    \cup (IF c.fusedQkv THEN {"Wqkv"} ELSE {"q_proj", "k_proj", "v_proj"})
    \cup (IF c.attn THEN {"gqa_qkv_w", "gqa_gate_w", "gqa_o_proj_w"} ELSE {})

LayerParams(c, linear) ==
    {"input_layernorm", "post_attention_layernorm"} \cup MlpParams(c)
    \cup IF linear THEN DeltaNetParams ELSE AttentionParams(c)

Owned(o, names) == {<<o, n>> : n \in names}

MtpParams(c) ==
    Owned(MtpHead, {"embed_norm", "hidden_norm", "eh_proj", "final_norm", "mtp_lm_head"})
    \cup Owned(MtpHeadLayer, LayerParams(c, FALSE))

ModelParams(c) ==
    Owned(Top, {"embed_tokens", "norm", "lm_head", "rank_util"})
    \cup (UNION {Owned(Layer(l), LayerParams(c, Linear(c, l))) : l \in Layers(c)})
    \cup IF c.mtp THEN MtpParams(c) ELSE {}

DraftParams(c) == Owned(Top, {"embed_tokens", "rank_util"}) \cup MtpParams(c)

Declared(c) == IF c.draft THEN DraftParams(c) ELSE ModelParams(c)

(***************************************************************************)
(* How a parameter is read.                                                 *)
(***************************************************************************)
\* Weights the modules and kernels multiply contraction first.
ContractionFirst(c) ==
    {"lm_head", "mtp_lm_head", "eh_proj", "in_proj_fused", "out_proj", "gqa_qkv_w", "gqa_gate_w",
     "gqa_o_proj_w", "moe.gate_up_proj", "moe.down_proj", "moe_router_w_t", "moe_sigma_gate_t"}
    \cup IF c.moe THEN {"shared.gate_proj", "shared.up_proj", "shared.down_proj"} ELSE {}

\* RMSNorms that multiply by their weight, where the checkpoint's multiply by
\* 1 + weight; the gated norm of DeltaNet multiplies by it in both.
ScaledNorms ==
    {"norm", "input_layernorm", "post_attention_layernorm", "q_layernorm", "k_layernorm",
     "embed_norm", "hidden_norm", "final_norm"}

\* The shard of parameter n of owner o that NxD loads on rank r.
OnRank(o, n, r) == Shard(cfg, sd[<<o, n>>].rows, r)

\* Row i of head h of a block of rows with dim rows per head.
HeadRow(s, h, dim, i) == s[h * dim + i + 1]

\* _project_inputs: a rank's fused projection cut into qkv, z, a and b.
ProjectInputs(o, r) ==
    LET s == OnRank(o, "in_proj_fused", r)
        z == ConvDim(cfg) \div cfg.tp
        a == z + ValueDim(cfg) \div cfg.tp
        b == a + cfg.nv \div cfg.tp
    IN  [qkv |-> Slice(s, 0, z), z |-> Slice(s, z, a),
         a |-> Slice(s, a, b), b |-> Slice(s, b, Len(s))]

\* The split of a rank's qkv channels into query, key and value.
SplitQkv(s) ==
    LET k == KeyDim(cfg) \div cfg.tp
    IN  [query |-> Slice(s, 0, k), key |-> Slice(s, k, 2 * k), value |-> Slice(s, 2 * k, Len(s))]

\* Value head j of a rank reads key head j \div rep.
KeyHeadOf(j) == j \div ((cfg.nv \div cfg.tp) \div (cfg.nk \div cfg.tp))

\* The fused kernel's cut of a rank's head-major block: query heads, k, v.
GqaHeads(o, r) ==
    LET s == OnRank(o, "gqa_qkv_w", r)
        q == (cfg.nq \div cfg.tp) * cfg.hd
    IN  [q |-> Slice(s, 0, q), k |-> Slice(s, q, q + cfg.hd), v |-> Slice(s, q + cfg.hd, Len(s))]

----------------------------------------------------------------------------
(***************************************************************************)
(* Properties.                                                              *)
(***************************************************************************)
\* Type: every tensor is a sequence of checkpoint rows (or of rank_util's
\* own row), shifted at most once.
TypeOK ==
    /\ cfg \in Configs /\ layer \in 1 .. Len(cfg.types) + 1
    /\ pc \in {"strip", "norms", "layers", "mtp", "filter", "done", "raised"}
    /\ \A k \in DOMAIN sd :
        /\ sd[k].plus \in {0, 1} /\ sd[k].trans \in BOOLEAN
        /\ sd[k].rows # <<>>
        /\ \A i \in DOMAIN sd[k].rows :
            LET row == sd[k].rows[i]
            IN  row[1][2] = "rank_util" \/ row[2] < OwnerRows(cfg)[row[1][1]][row[1][2]]

\* The converted dictionary has a tensor for every parameter the model
\* declares under these flags and no stray key: load_state_dict finds all, each
\* of rows the checkpoint has and shifted once at most.
LoadsExactly == TypeOK /\ (Done => DOMAIN sd = Declared(cfg))

\* Every RMSNorm of the checkpoint's 1 + w form is shifted exactly once,
\* under whichever name it had at that moment, and nothing else is.
NormsShiftedOnce ==
    Done => \A k \in DOMAIN sd : sd[k].plus = IF k[2] \in ScaledNorms THEN 1 ELSE 0

\* Every tensor is stored in the orientation its reader multiplies it in.
StoredAsRead == Done => \A k \in DOMAIN sd : sd[k].trans = (k[2] \in ContractionFirst(cfg))

\* The safetensors writer refuses tensors that share storage: no two do.
NoSharedStorage == Done => \A k, m \in DOMAIN sd : sd[k].store = sd[m].store => k = m

\* On every rank, DeltaNet's local value head j is one head of the whole
\* model in v, z, a, b, A_log, dt_bias and out_proj, it reads the query and
\* key head that is its own there, and each qkv channel meets its own conv.
DeltaNetHeads ==
    Done /\ ~cfg.draft => \A l \in {m \in Layers(cfg) : Linear(cfg, m)}, r \in 0 .. cfg.tp - 1 :
        LET o == Layer(l)
            in == ProjectInputs(o, r)
            qkv == SplitQkv(in.qkv)
            conv == OnRank(o, "conv1d_weight", r)
            Src(n, i) == <<<<o, n>>, i>>
        IN  /\ Len(conv) = Len(in.qkv)
            /\ \A i \in DOMAIN conv : conv[i] = Src("conv1d", in.qkv[i][2])
            /\ \A j \in 0 .. cfg.nv \div cfg.tp - 1 :
                LET h == r * (cfg.nv \div cfg.tp) + j
                    g == h \div (cfg.nv \div cfg.nk)
                IN  /\ in.a[j + 1] = Src("in_proj_a", h) /\ in.b[j + 1] = Src("in_proj_b", h)
                    /\ OnRank(o, "A_log_weight", r)[j + 1] = Src("A_log", h)
                    /\ OnRank(o, "dt_bias_weight", r)[j + 1] = Src("dt_bias", h)
                    /\ \A i \in 0 .. cfg.vd - 1 :
                        /\ HeadRow(qkv.value, j, cfg.vd, i)
                             = Src("in_proj_qkv", 2 * KeyDim(cfg) + h * cfg.vd + i)
                        /\ HeadRow(in.z, j, cfg.vd, i) = Src("in_proj_z", h * cfg.vd + i)
                        /\ HeadRow(OnRank(o, "out_proj", r), j, cfg.vd, i)
                             = Src("out_proj", h * cfg.vd + i)
                    /\ \A i \in 0 .. cfg.kd - 1 :
                        /\ HeadRow(qkv.query, KeyHeadOf(j), cfg.kd, i)
                             = Src("in_proj_qkv", g * cfg.kd + i)
                        /\ HeadRow(qkv.key, KeyHeadOf(j), cfg.kd, i)
                             = Src("in_proj_qkv", KeyDim(cfg) + g * cfg.kd + i)

\* On every rank, the fused attention's local query head j, its output gate
\* and its o_proj rows are one head of the whole model, attending with the
\* k and v head of that head's group.
GqaGroups ==
    Done /\ cfg.attn =>
        \A o \in {k[1] : k \in {m \in DOMAIN sd : m[2] = "gqa_qkv_w"}}, r \in 0 .. cfg.tp - 1 :
            LET heads == GqaHeads(o, r)
                from == IF o = MtpHeadLayer THEN MtpLayer ELSE o
            IN  \A j \in 0 .. cfg.nq \div cfg.tp - 1, i \in 0 .. cfg.hd - 1 :
                LET h == r * (cfg.nq \div cfg.tp) + j
                    g == h \div (cfg.nq \div cfg.nkv)
                    gate == HeadRow(OnRank(o, "gqa_gate_w", r), j, cfg.hd, i)
                    out == HeadRow(OnRank(o, "gqa_o_proj_w", r), j, cfg.hd, i)
                IN  /\ HeadRow(heads.q, j, cfg.hd, i) = <<<<from, "q_proj">>, 2 * h * cfg.hd + i>>
                    /\ heads.k[i + 1] = <<<<from, "k_proj">>, g * cfg.hd + i>>
                    /\ heads.v[i + 1] = <<<<from, "v_proj">>, g * cfg.hd + i>>
                    /\ gate = <<<<from, "q_proj">>, (2 * h + 1) * cfg.hd + i>>
                    /\ out = <<<<from, "o_proj">>, h * cfg.hd + i>>


\* On every rank, the heads of the DeltaNet and of the attention layers are
\* grouped as in the whole model.
HeadsGrouped == DeltaNetHeads /\ GqaGroups
=============================================================================
