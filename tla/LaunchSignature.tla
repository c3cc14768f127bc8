--------------------------- MODULE LaunchSignature ---------------------------
(***************************************************************************)
(* One launch of a megakernel takes hundreds of tensors, each a positional   *)
(* argument of its own: the front end does not bind a tuple.  The host       *)
(* flattens its per-field lists, a wrapper generated for the pattern of      *)
(* layer types cuts the flat list into tuples again, the body takes those by *)
(* position, and the loop over the layers indexes them by how many layers of *)
(* the type it has passed.  The handles that come back are cut by counting,  *)
(* too.  The weights have equal shapes from layer to layer, so one position  *)
(* off computes with another layer's weights and says nothing.               *)
(*                                                                          *)
(* A tensor is a record of the layer and the field it belongs to; layers are *)
(* numbered from 1, and numbers below stand for the draft head, its two       *)
(* stages and what belongs to the launch as a whole.                         *)
(***************************************************************************)
EXTENDS Integers, Sequences, FiniteSets, SequencesExt

CONSTANTS
    Patterns,    \* layer patterns met by one process: sequences of "dn", "gqa"
    MaxLaunches  \* bound: launches of one process

PatternsAssumption == Patterns \subseteq Seq({"dn", "gqa"})
LaunchesAssumption == MaxLaunches \in Nat \ {0}

Kinds == {"verify", "round", "draft", "replay"}
HasTrunk(kind) == kind \in {"verify", "round"}

Call == 0
Mtp == -1
Stage(group) == IF group = "d1" THEN -2 ELSE -3
Tensor(layer, field) == [layer |-> layer, field |-> field]

DnFields == << "proj_w", "in_gamma", "conv_state", "conv_weight", "A_log",
               "dt_bias", "init_state", "out_w", "z_gamma" >>
GqaFields == << "qkv_w", "gate_w", "gamma_q", "gamma_k", "in_gamma",
                "o_proj_w", "k_cache", "v_cache" >>
DraftGqaFields == << "in_gamma", "qkv_w", "gate_w", "gamma_q", "gamma_k",
                     "o_proj_w", "k_cache", "v_cache" >>
MoeFields == << "gamma", "router_w", "gate_up_w", "down_w", "sigma_gate_w",
                "shared_gate_w", "shared_up_w", "shared_down_w" >>
FrontFields == << "embed_w", "gamma_e", "gamma_h", "eh_w" >>
HeadFields == << "final_gamma", "lm_head_w" >>
StageFields == << "kv_write_idx", "cos", "sin", "mask" >>

\* The layers of a type, in order: what a per-layer list is a list of.
Passes(pattern, type, i) == Cardinality({ k \in 1..i : pattern[k] = type })
LayersOf(pattern, type) ==
    [j \in 1..Passes(pattern, type, Len(pattern)) |->
        CHOOSE i \in DOMAIN pattern : pattern[i] = type /\ Passes(pattern, type, i) = j]

-----------------------------------------------------------------------------
(* The flat order, as the names <<group, field, place>> of the arguments: the *)
(* parameters the wrapper is generated with, and what the host fills in.      *)

Name(group, field, j) == <<group, field, j>>

Fields(group, fields) == [x \in DOMAIN fields |-> Name(group, fields[x], 1)]

Lists(group, fields, count) ==
    FlattenSeq([x \in DOMAIN fields |-> [j \in 1..count |-> Name(group, fields[x], j)]])

Top(fields) == Fields("top", fields)

\* flatten_megakernel_args
FlattenVerify(nDn, nGqa) ==
    Top(<< "X" >>)
        \o Lists("dn", DnFields, nDn)
        \o Lists("gqa", GqaFields, nGqa)
        \o Top(<< "cos", "sin", "gqa_mask" >>)
        \o Lists("moe", MoeFields, nDn + nGqa)
        \o Top(HeadFields)
        \o Top(<< "key_dim", "eps", "replica_groups" >>)

\* flatten_round_args
FlattenRound(nDn, nGqa) ==
    Top(<< "input_ids", "prev_hidden" >>)
        \o Fields("mtp", FrontFields \o DraftGqaFields)
        \o Fields("mtp_moe", MoeFields)
        \o Fields("mtp", HeadFields)
        \o Fields("d1", StageFields)
        \o Fields("d2", StageFields)
        \o Lists("dn", DnFields, nDn)
        \o Lists("gqa", GqaFields, nGqa)
        \o Top(<< "cos", "sin", "gqa_mask", "v_kv_write_idx" >>)
        \o Lists("moe", MoeFields, nDn + nGqa)
        \o Top(HeadFields)
        \o Top(<< "key_dim", "eps", "replica_groups" >>)

\* flatten_draft_args; the replay is built without a head.
FlattenDraft(head) ==
    Top(<< "input_ids", "prev_hidden" >>)
        \o Fields("d1", StageFields)
        \o Fields("mtp", FrontFields \o DraftGqaFields)
        \o Fields("mtp_moe", MoeFields)
        \o (IF head THEN Fields("mtp", HeadFields) ELSE << >>)
        \o Top(<< "eps", "replica_groups" >>)

Flatten(kind, nDn, nGqa) ==
    CASE kind = "verify" -> FlattenVerify(nDn, nGqa)
      [] kind = "round"  -> FlattenRound(nDn, nGqa)
      [] OTHER           -> FlattenDraft(kind = "draft")

Count(pattern, type) == Len(LayersOf(pattern, type))

\* _collect_verify_weights and _collect_mtp_weights: the tensor of a name.
HostTensor(pattern, group, field, j) ==
    CASE group \in {"dn", "gqa"}     -> Tensor(LayersOf(pattern, group)[j], field)
      [] group = "moe"               -> Tensor(j, field)
      [] group \in {"mtp", "mtp_moe"} -> Tensor(Mtp, field)
      [] group \in {"d1", "d2"}      -> Tensor(Stage(group), field)
      [] OTHER                       -> Tensor(Call, field)

-----------------------------------------------------------------------------
(* The generated wrapper.                                                    *)

Pairs(group, fields) == [x \in DOMAIN fields |-> <<group, fields[x]>>]

\* What the wrapper passes to the body, by position: one tuple per field of a
\* list group.
BodyArgs(kind) ==
    CASE kind = "verify" ->
            Pairs("top", << "X" >>)
                \o Pairs("dn", DnFields) \o Pairs("gqa", GqaFields)
                \o Pairs("top", << "cos", "sin", "gqa_mask" >>)
                \o Pairs("moe", MoeFields) \o Pairs("top", HeadFields)
      [] kind = "round" ->
            Pairs("top", << "input_ids", "prev_hidden" >>)
                \o Pairs("mtp", FrontFields \o DraftGqaFields)
                \o Pairs("mtp_moe", MoeFields) \o Pairs("mtp", HeadFields)
                \o Pairs("d1", StageFields) \o Pairs("d2", StageFields)
                \o Pairs("dn", DnFields) \o Pairs("gqa", GqaFields)
                \o Pairs("top", << "cos", "sin", "gqa_mask", "v_kv_write_idx" >>)
                \o Pairs("moe", MoeFields) \o Pairs("top", HeadFields)
      [] OTHER ->
            Pairs("top", << "input_ids", "prev_hidden" >>)
                \o Pairs("d1", StageFields)
                \o Pairs("mtp", FrontFields \o DraftGqaFields)
                \o Pairs("mtp_moe", MoeFields)
                \o (IF kind = "draft" THEN Pairs("mtp", HeadFields) ELSE << >>)

\* The attention, DeltaNet and expert parameters of a trunk, as the signatures
\* of qwen36_verify_megakernel and verify_trunk_compose declare them.
TrunkParams ==
    Pairs("dn", << "proj_w", "in_gamma", "conv_state", "conv_weight", "A_log",
                   "dt_bias", "init_state", "out_w", "z_gamma" >>)
        \o Pairs("gqa", << "qkv_w", "gate_w", "gamma_q", "gamma_k", "in_gamma",
                           "o_proj_w", "k_cache", "v_cache" >>)

ExpertParams(group) ==
    Pairs(group, << "gamma", "router_w", "gate_up_w", "down_w", "sigma_gate_w",
                    "shared_gate_w", "shared_up_w", "shared_down_w" >>)

\* The front end and the one attention layer of the draft.
DraftParams ==
    Pairs("mtp", << "embed_w", "gamma_e", "gamma_h", "eh_w", "in_gamma", "qkv_w",
                    "gate_w", "gamma_q", "gamma_k", "o_proj_w", "k_cache",
                    "v_cache" >>)

VerifyParams ==
    Pairs("top", << "X" >>) \o TrunkParams
        \o Pairs("top", << "cos", "sin", "gqa_mask" >>)
        \o ExpertParams("moe") \o Pairs("top", << "final_gamma", "lm_head_w" >>)

RoundParams ==
    Pairs("top", << "input_ids", "prev_hidden" >>)
        \o DraftParams \o ExpertParams("mtp_moe")
        \o Pairs("mtp", << "final_gamma", "lm_head_w" >>)
        \o Pairs("d1", << "kv_write_idx", "cos", "sin", "mask" >>)
        \o Pairs("d2", << "kv_write_idx", "cos", "sin", "mask" >>)
        \o TrunkParams
        \o Pairs("top", << "cos", "sin", "gqa_mask", "v_kv_write_idx" >>)
        \o ExpertParams("moe") \o Pairs("top", << "final_gamma", "lm_head_w" >>)

\* Without a head its two parameters are None.
DraftStepParams(kind) ==
    Pairs("top", << "input_ids", "prev_hidden" >>)
        \o Pairs("d1", << "kv_write_idx", "cos", "sin", "mask" >>)
        \o DraftParams \o ExpertParams("mtp_moe")
        \o (IF kind = "draft"
            THEN Pairs("mtp", << "final_gamma", "lm_head_w" >>) ELSE << >>)

Params(kind) ==
    CASE kind = "verify" -> VerifyParams
      [] kind = "round"  -> RoundParams
      [] OTHER           -> DraftStepParams(kind)

\* A wrapper: the names of its flat parameters, the lengths of the tuples it
\* cuts, the pattern burnt into its body.
Wrapper(kind, pattern) ==
    [ kind    |-> kind,
      names   |-> Flatten(kind, Count(pattern, "dn"), Count(pattern, "gqa")),
      pattern |-> pattern ]

TupleLength(wrapper, group) ==
    CASE group = "dn"  -> Count(wrapper.pattern, "dn")
      [] group = "gqa" -> Count(wrapper.pattern, "gqa")
      [] group = "moe" -> Len(wrapper.pattern)
      [] OTHER         -> 1

\* The tensors a call of the wrapper gives its body, per parameter.
Bound(wrapper, flat) ==
    LET args   == BodyArgs(wrapper.kind)
        params == Params(wrapper.kind)
        At(group, field, j) ==
            flat[CHOOSE x \in DOMAIN wrapper.names :
                     wrapper.names[x] = Name(group, field, j)]
        Tuple(arg) ==
            [j \in 1..TupleLength(wrapper, arg[1]) |-> At(arg[1], arg[2], j)]
    IN  [p \in ToSet(params) |->
            Tuple(args[CHOOSE x \in DOMAIN params : params[x] = p])]

-----------------------------------------------------------------------------
VARIABLES
    built,     \* wrappers compiled so far, by kind and key
    launches,  \* launches so far
    body,      \* the launch under way, or NoBody
    reads,     \* what it read: pairs of the tensor meant and the tensor read
    given      \* what the host gave each layer: <<layer, place, handle>>

vars == <<built, launches, body, reads, given>>

NoBody == [kind |-> "none"]

\* Mutant: the key holds how many layers there are of a type, as the name of
\* the generated file does.
CountKey(kind, pattern) ==
    IF HasTrunk(kind)
    THEN <<kind, <<Len(pattern), Count(pattern, "gqa")>>>> ELSE <<kind, << >>>>

\* The key of the compiled wrappers.  The draft's depends on its head alone.
CacheKey(kind, pattern) ==
    IF HasTrunk(kind) THEN <<kind, pattern>> ELSE <<kind, << >>>>

Init ==
    /\ built = << >>
    /\ launches = 0
    /\ body = NoBody
    /\ reads = {}
    /\ given = {}

\* build_*_megakernel, then the call with the tensors of this model's layers.
Launch(kind, pattern) ==
    LET key     == CacheKey(kind, pattern)
        wrapper == IF key \in DOMAIN built THEN built[key] ELSE Wrapper(kind, pattern)
        names   == Flatten(kind, Count(pattern, "dn"), Count(pattern, "gqa"))
        flat    == [x \in DOMAIN names |->
                       HostTensor(pattern, names[x][1], names[x][2], names[x][3])]
    IN  /\ body = NoBody
        /\ launches < MaxLaunches
        /\ launches' = launches + 1
        /\ built' = [k \in DOMAIN built \cup {key} |-> IF k = key THEN wrapper ELSE built[k]]
        /\ body' = [ kind    |-> kind,
                     caller  |-> pattern,
                     pattern |-> wrapper.pattern,
                     env     |-> Bound(wrapper, flat),
                     stage   |-> IF kind = "verify" THEN "trunk" ELSE "d1",
                     dn      |-> 0,
                     gqa     |-> 0,
                     gqaOut  |-> << >>,
                     dnOut   |-> << >> ]
        /\ reads' = {}
        /\ given' = {}

Read(group, field, j, meant) == <<meant, body.env[<<group, field>>][j]>>

\* draft_stage_compose: the draft's weights and the rope, mask and slot of its
\* stage; the headless stage reads no head.
DraftReads(stage) ==
    { Read("mtp", f, 1, Tensor(Mtp, f)) :
          f \in ToSet(FrontFields \o DraftGqaFields) }
        \cup { Read("mtp_moe", f, 1, Tensor(Mtp, f)) : f \in ToSet(MoeFields) }
        \cup { Read(stage, f, 1, Tensor(Stage(stage), f)) : f \in ToSet(StageFields) }
        \cup (IF stage = "d1" /\ body.kind # "replay"
              THEN { Read("mtp", f, 1, Tensor(Mtp, f)) : f \in ToSet(HeadFields) }
              ELSE {})

DraftStage ==
    /\ body # NoBody
    /\ body.stage = "d1"
    /\ reads' = reads \cup DraftReads("d1")
    /\ body' = [body EXCEPT !.stage = IF body.kind = "round" THEN "trunk" ELSE "end"]
    /\ UNCHANGED <<built, launches, given>>

Replay ==
    /\ body # NoBody
    /\ body.stage = "d2"
    /\ reads' = reads \cup DraftReads("d2")
    /\ body' = [body EXCEPT !.stage = "end"]
    /\ UNCHANGED <<built, launches, given>>

InTrunk == body # NoBody /\ body.stage = "trunk"
Passed == body.dn + body.gqa
LayerReads(type, fields, at) ==
    LET i == Passed + 1
    IN  { Read(type, f, at, Tensor(i, f)) : f \in ToSet(fields) }
            \cup { Read("moe", f, i, Tensor(i, f)) : f \in ToSet(MoeFields) }

\* An attention layer: writing in place it hands its caches back in front of
\* the active keys and values.
GqaLayer ==
    LET at == body.gqa + 1
        i  == Passed + 1
        caches == IF body.kind = "round"
                  THEN << Tensor(i, "k_cache"), Tensor(i, "v_cache") >> ELSE << >>
    IN  /\ InTrunk /\ Passed < Len(body.pattern) /\ body.pattern[i] = "gqa"
        /\ reads' = reads \cup LayerReads("gqa", GqaFields, at)
        /\ body' = [body EXCEPT
                       !.gqa = at,
                       !.gqaOut = @ \o caches
                                    \o << Tensor(i, "active_k"), Tensor(i, "active_v") >>]
        /\ UNCHANGED <<built, launches, given>>

DnLayer ==
    LET at == body.dn + 1
        i  == Passed + 1
    IN  /\ InTrunk /\ Passed < Len(body.pattern) /\ body.pattern[i] = "dn"
        /\ reads' = reads \cup LayerReads("dn", DnFields, at)
        /\ body' = [body EXCEPT
                       !.dn = at,
                       !.dnOut = @ \o << Tensor(i, "cand_state"), Tensor(i, "conv_cand") >>]
        /\ UNCHANGED <<built, launches, given>>

TrunkDone ==
    /\ InTrunk /\ Passed = Len(body.pattern)
    /\ body' = [body EXCEPT !.stage = IF body.kind = "round" THEN "d2" ELSE "end"]
    /\ UNCHANGED <<built, launches, reads, given>>

\* The handles a launch returns behind its tokens and hidden state.
Returned ==
    LET out(f) == Tensor(Call, f)
    IN  CASE body.kind = "verify" ->
                << out("tokens"), out("hidden") >> \o body.gqaOut \o body.dnOut
          [] body.kind = "round" ->
                << out("cand_token"), out("tokens"), out("hidden") >>
                    \o body.gqaOut \o body.dnOut
                    \o << Tensor(Mtp, "k_cache"), Tensor(Mtp, "v_cache"),
                          Tensor(Stage("d1"), "active_k"), Tensor(Stage("d1"), "active_v"),
                          Tensor(Stage("d2"), "active_k"), Tensor(Stage("d2"), "active_v") >>
          [] OTHER ->
                (IF body.kind = "draft" THEN << out("tokens") >> ELSE << >>)
                    \o << out("hidden"), Tensor(Mtp, "k_cache"), Tensor(Mtp, "v_cache"),
                          Tensor(Stage("d1"), "active_k"), Tensor(Stage("d1"), "active_v") >>

\* What the host hands on: to the j-th attention layer two handles from a
\* stride of its own, to the j-th DeltaNet layer its candidates.
Handed(rets, front, stride, pattern) ==
    LET gqa == LayersOf(pattern, "gqa")
        dn  == LayersOf(pattern, "dn")
        dnFrom == front + stride * Len(gqa)
    IN  { <<gqa[j], k, rets[front + stride * (j - 1) + k]>> :
              j \in DOMAIN gqa, k \in {1, 2} }
            \cup { <<dn[j], k, rets[dnFrom + 2 * (j - 1) + k]>> :
                      j \in DOMAIN dn, k \in {1, 2} }

\* split_megakernel_returns
SplitVerify(rets, pattern) == Handed(rets, 2, 2, pattern)

\* split_round_returns
SplitRound(rets, pattern) ==
    LET mtpFrom == 3 + 4 * Count(pattern, "gqa") + 2 * Count(pattern, "dn")
    IN  Handed(rets, 3, 4, pattern)
            \cup { <<Mtp, k, rets[mtpFrom + k]>> : k \in {1, 2} }

\* _forward_draft_megakernel: the caches stand behind the hidden state.
SplitDraft(rets, head) ==
    LET front == IF head THEN 2 ELSE 1
    IN  { <<Mtp, k, rets[front + k]>> : k \in {1, 2} }

Return ==
    /\ body # NoBody
    /\ body.stage = "end"
    /\ given' = CASE body.kind = "verify" -> SplitVerify(Returned, body.caller)
                  [] body.kind = "round"  -> SplitRound(Returned, body.caller)
                  [] OTHER -> SplitDraft(Returned, body.kind = "draft")
    /\ body' = NoBody
    /\ UNCHANGED <<built, launches, reads>>

Next ==
    \/ \E kind \in Kinds, pattern \in Patterns : Launch(kind, pattern)
    \/ DraftStage
    \/ Replay
    \/ GqaLayer
    \/ DnLayer
    \/ TrunkDone
    \/ Return

Spec == Init /\ [][Next]_vars

-----------------------------------------------------------------------------

\* The wrappers are keyed as built, the loop stays inside the pattern, and what
\* was read is a tensor of the launch.
TypeOK ==
    /\ \A key \in DOMAIN built : built[key].kind = key[1] /\ built[key].kind \in Kinds
    /\ launches \in 0..MaxLaunches
    /\ body # NoBody =>
          /\ body.stage \in {"d1", "trunk", "d2", "end"}
          /\ body.dn <= Count(body.pattern, "dn")
          /\ body.gqa <= Count(body.pattern, "gqa")
          /\ DOMAIN body.env = ToSet(Params(body.kind))
    /\ \A r \in reads : DOMAIN r[2] = {"layer", "field"}

\* Every stage and every layer of a launch computes with its own tensors: from
\* the host's lists through the flat order, the wrapper, the body's parameters
\* and the running index of its type, whatever patterns the process launched
\* before.
ReadsItsOwnTensors == \A r \in reads : r[1] = r[2]

\* The candidates and caches that come back reach the layer they were computed
\* by, in the order the host unpacks them; every layer of the trunk gets some.
HandlesReachTheirLayer ==
    /\ \A g \in given : g[3].layer = g[1]
    /\ LET layers == { g[1] : g \in given } \ {Mtp}
       IN  /\ layers \in {{}} \cup { DOMAIN pattern : pattern \in Patterns }
           /\ (layers \X {1, 2}) \subseteq { <<g[1], g[2]>> : g \in given }
    /\ \A g \in given :
          g[3].field \in (IF g[2] = 1 THEN {"k_cache", "active_k", "cand_state"}
                          ELSE {"v_cache", "active_v", "conv_cand"})
=============================================================================
