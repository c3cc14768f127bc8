----------------------------- MODULE AliasLayout -----------------------------
(***************************************************************************)
(* A compiled graph is a pure function.  What survives a call, the caches   *)
(* and the DeltaNet states, survives because an output of the graph is      *)
(* aliased to the buffer that is its input: DecoderModelInstance.get says   *)
(* which one by a flat position in the outputs.  Nothing but counting ties  *)
(* the position to the list the forward pass returns: the list is built in  *)
(* five functions of the model, once per graph, and the position in two     *)
(* `get` methods and, on the CPU, in _copy_past_key_values.                 *)
(*                                                                          *)
(* A value is a record of the buffer it was computed for and the call that  *)
(* computed it.  Layers are numbered from 1; the MTP draft has one          *)
(* attention layer, Draft.                                                  *)
(***************************************************************************)
EXTENDS Integers, Sequences, SequencesExt

CONSTANTS
    LayerTypes,      \* the trunk: a sequence of "linear" and "full"
    MaxCalls         \* bound: calls of one run

LayersAssumption ==
    LayerTypes \in Seq({"linear", "full"}) /\ LayerTypes # << >>
CallsAssumption == MaxCalls \in Nat \ {0}

VARIABLES
    config,   \* the flags the layout depends on
    buf,      \* device: one set of buffers all graphs alias; the value of each
    cpu,      \* CPU: the parameters of the context and the decode module
    calls     \* calls so far

vars == <<config, buf, cpu, calls>>

Layers == DOMAIN LayerTypes
IsLinear(i) == LayerTypes[i] = "linear"
Draft == 0

Buffer(kind, i) == <<kind, i>>
Hidden == Buffer("hidden", Draft)

\* An output that no buffer is meant for: tokens, logits, acceptance.
Result == Buffer("result", Draft)
Value(b, call) == [of |-> b, call |-> call]
\* What an alias beyond the last output leaves in its buffer.
Missing == Value(Buffer("missing", Draft), 0)

\* Concatenation of F(1), ..., F(n): the layers of the trunk in order.
PerLayer(F(_)) == FlattenSeq([i \in Layers |-> F(i)])

-----------------------------------------------------------------------------
(* What a forward pass returns.                                             *)

KvOf(i, call) ==
    << Value(Buffer("k", i), call), Value(Buffer("v", i), call) >>

\* The layer's new recurrent state and convolution window, in this order.
LayerStates(i, call) ==
    << Value(Buffer("rec", i), call), Value(Buffer("conv", i), call) >>

\* Qwen36A3BDecoderLayer.forward: keys and values of every layer (a DeltaNet
\* layer returns dummies, or under the hybrid manager its two states).
LayerCache(i, call) ==
    IF IsLinear(i) /\ config.hybrid THEN LayerStates(i, call) ELSE KvOf(i, call)

\* get_model_output: the states are collected in layer order; under the hybrid
\* manager the layer returned none.
CollectedStates(call) ==
    PerLayer(LAMBDA i : IF IsLinear(i) /\ ~config.hybrid
                        THEN LayerStates(i, call) ELSE << >>)

TrunkCache(call) == PerLayer(LAMBDA i : LayerCache(i, call))

Results(n, call) == [j \in 1..n |-> Value(Result, call)]

\* NeuronQwen36A3BModel.forward
PlainOutputs(call) ==
    Results(IF config.logits THEN 2 ELSE 1, call)
        \o TrunkCache(call)
        \o CollectedStates(call)

\* Qwen36MTPDraft's forward: the token, its cache, the hidden state.
DraftOutputs(call) ==
    Results(1, call) \o KvOf(Draft, call) \o << Value(Hidden, call) >>

Inner(s) == SubSeq(s, 2, Len(s) - 1)

\* The verify pass: keys and values of all layers between tokens and hidden.
VerifyOutputs(call) ==
    Results(1, call)
        \o PerLayer(LAMBDA i : KvOf(i, call))
        \o << Value(Hidden, call) >>

\* _commit_deltanet: per candidate pair the selected state, then the window.
Committed(call) ==
    PerLayer(LAMBDA i : IF IsLinear(i) THEN LayerStates(i, call) ELSE << >>)

NumKv == 2 * Len(LayerTypes)
NumDraftKv == 2

\* The parent's forward puts the round's results in front of the tail: its own
\* outputs and the fused acceptance, twice.
NumResults == (IF config.logits THEN 2 ELSE 1) + config.capture
FusedPrefix(call) == Results(2 * (NumResults + 1), call)

\* _eagle_token_gen_forward behind its candidates and target tokens
RoundTail(call) ==
    Inner(DraftOutputs(call))
        \o Inner(VerifyOutputs(call))
        \o Committed(call)
        \o << Value(Hidden, call) >>

\* _eagle_context_encoding_forward: the target's own outputs are cut into cache
\* and states by counting from one.
PrefillTail(call) ==
    LET target == PlainOutputs(call)
    IN  Inner(DraftOutputs(call))
            \o SubSeq(target, 2, 1 + NumKv)
            \o SubSeq(target, 2 + NumKv, Len(target))
            \o << Value(Hidden, call) >>

-----------------------------------------------------------------------------
(* Where the outputs go.  An alias is a pair of a buffer and a position,    *)
(* counted from zero as in the code.                                        *)

\* The cache manager's parameters, two per layer.
CacheParams ==
    PerLayer(LAMBDA i : IF IsLinear(i) /\ config.hybrid
                        THEN << Buffer("rec", i), Buffer("conv", i) >>
                        ELSE << Buffer("k", i), Buffer("v", i) >>)

\* _deltanet_state_params
StateParams ==
    PerLayer(LAMBDA i : IF IsLinear(i)
                        THEN << Buffer("rec", i), Buffer("conv", i) >>
                        ELSE << >>)

DraftParams == << Buffer("k", Draft), Buffer("v", Draft) >>

At(params, base) == { <<params[i], base + i - 1>> : i \in DOMAIN params }

\* The library's part of `get`: the cache behind the results.
CacheAliases == At(CacheParams, IF config.logits THEN 2 ELSE 1)

\* Qwen36A3BDecoderModelInstance.get
PlainAliases ==
    CacheAliases \cup
    (IF config.hybrid THEN {}
     ELSE At(StateParams, (IF config.logits THEN 2 ELSE 1) + NumKv))

\* The library's part of the fused `get`.
FusedCacheAliases ==
    LET front == 2 * (NumResults + 1)
    IN  At(DraftParams, front) \cup At(CacheParams, front + NumDraftKv)

\* Mutant: the hidden keeps the position the library gives it.
HiddenUnshifted ==
    LET base == 2 * (NumResults + 1) + NumDraftKv + NumKv
    IN  FusedCacheAliases \cup At(StateParams, base) \cup At(<< Hidden >>, base)

\* Qwen36FusedSpecModelInstance.get: the states at the base, the rolling hidden
\* moved behind them.
FusedAliases ==
    LET base == 2 * (NumResults + 1) + NumDraftKv + NumKv
    IN  FusedCacheAliases
            \cup At(StateParams, base)
            \cup At(<< Hidden >>, base + Len(StateParams))

\* The buffers after a call: an aliased one holds the output at its position,
\* the others what they held.
Store(old, aliases, outputs) ==
    [b \in DOMAIN old |->
        IF \E a \in aliases : a[1] = b
        THEN LET at == (CHOOSE a \in aliases : a[1] = b)[2] + 1
             IN  IF at \in DOMAIN outputs THEN outputs[at] ELSE Missing
        ELSE old[b]]

-----------------------------------------------------------------------------
(* The CPU path.  There are no aliases: the host copies the outputs into the *)
(* parameters of both modules.                                              *)

\* _copy_past_key_values: where it takes the first state to be.
CpuStart == (IF config.logits /\ config.sampling THEN 2 ELSE 1) + NumKv

CpuCopy(call) ==
    LET outputs == PlainOutputs(call)
        aliases == At(StateParams, CpuStart)
    IN  IF StateParams # << >> /\ CpuStart + Len(StateParams) <= Len(outputs)
        THEN [decode  |-> Store(cpu.decode, aliases, outputs),
              context |-> Store(cpu.context, aliases, outputs)]
        ELSE cpu

-----------------------------------------------------------------------------
TrunkBuffers ==
    { Buffer(kind, i) : kind \in {"k", "v", "rec", "conv"}, i \in Layers }
DraftBuffers == { Buffer("k", Draft), Buffer("v", Draft), Hidden }
StateBuffers == { StateParams[i] : i \in DOMAIN StateParams }

Fresh(buffers) == [b \in buffers |-> Value(b, 0)]

Init ==
    /\ config \in [fused : BOOLEAN, hybrid : BOOLEAN, logits : BOOLEAN,
                   sampling : BOOLEAN, host : BOOLEAN, capture : 0..1]
    \* _validate_hybrid_config: no speculation under the hybrid manager.
    /\ config.fused => ~config.hybrid
    \* Aliased positions count captured tensors in the fused graphs only; the
    \* CPU path runs the plain model.
    /\ config.capture = 1 => config.fused
    /\ config.host => ~config.fused
    /\ buf = Fresh(TrunkBuffers \cup DraftBuffers)
    /\ cpu = [decode |-> Fresh(StateBuffers), context |-> Fresh(StateBuffers)]
    /\ calls = 0

\* One call of a graph on the device.
Launch(aliases, Outputs(_)) ==
    /\ ~config.host
    /\ calls < MaxCalls
    /\ calls' = calls + 1
    /\ buf' = Store(buf, aliases, Outputs(calls'))
    /\ UNCHANGED <<config, cpu>>

\* The prompt's or the decode graph of the plain model: one layout.
PlainCall == ~config.fused /\ Launch(PlainAliases, PlainOutputs)

\* The prompt's graph of the fused model.
PrefillCall ==
    config.fused /\ Launch(FusedAliases, LAMBDA c : FusedPrefix(c) \o PrefillTail(c))

\* One round of the fused model.
RoundCall ==
    config.fused /\ Launch(FusedAliases, LAMBDA c : FusedPrefix(c) \o RoundTail(c))

\* One call on the CPU and the copy behind it.
CpuCall ==
    /\ config.host /\ ~config.hybrid
    /\ calls < MaxCalls
    /\ calls' = calls + 1
    /\ cpu' = CpuCopy(calls')
    /\ UNCHANGED <<config, buf>>

Next == PlainCall \/ PrefillCall \/ RoundCall \/ CpuCall

Spec == Init /\ [][Next]_vars

-----------------------------------------------------------------------------
(* The buffers a configuration keeps alive.                                 *)

LiveBuffers ==
    { CacheParams[i] : i \in DOMAIN CacheParams }
        \cup (IF config.hybrid THEN {} ELSE StateBuffers)
        \cup (IF config.fused THEN DraftBuffers ELSE {})

\* The cut of the target's outputs in the fused prefill counts one result, so
\* the claims below are about fused graphs without output_logits.
Counted == config.fused => ~config.logits

\* Every buffer holds a value one of the graphs returns, of a call made so far:
\* no alias points beyond the outputs of its graph.
TypeOK ==
    /\ calls \in 0..MaxCalls
    /\ \A b \in DOMAIN buf :
            buf[b].of \in DOMAIN buf \cup {Result} /\ buf[b].call \in 0..calls
    /\ \A m \in {"decode", "context"} : DOMAIN cpu[m] = StateBuffers

\* After any sequence of calls every buffer holds a value computed for it: no
\* layer's cache takes another's, no recurrent state a window, and the rolling
\* hidden is the hidden, whatever the graph that ran last.
BuffersHoldTheirOwn ==
    Counted => \A b \in LiveBuffers : buf[b].of = b

\* Nothing a call computes for the next one is lost: every live buffer holds
\* the value of the last call.
NothingLeftBehind ==
    (Counted /\ ~config.host) => \A b \in LiveBuffers : buf[b].call = calls

\* The two modules of the CPU path agree on every state, and the state is the
\* last call's, where logits are only returned next to sampled tokens.
CpuModulesAgree ==
    (config.host /\ ~config.hybrid /\ (config.logits => config.sampling)) =>
        \A b \in StateBuffers :
            cpu.context[b] = Value(b, calls) /\ cpu.decode[b] = Value(b, calls)
=============================================================================
