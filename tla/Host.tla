--------------------------------- MODULE Host ---------------------------------
(****************************************************************************)
(* What stands around a launch: the batches of the hybrid cache manager,    *)
(* the inputs of the traced graphs, the buffers their outputs are aliased   *)
(* to, the arguments of the megakernels and the paths through a layer.  The *)
(* parts share no state; a behaviour runs one of them, and variables of the *)
(* same name stand for the part's own.                                      *)
(****************************************************************************)
EXTENDS Integers, Sequences, FiniteSets

CONSTANTS
    Parts,                                  \* the parts to run
    Off,                                    \* a variable of a part that does not run
    Batch, PadRows, CtxBatch, MaxRequests,  \* HybridCache
    ChunkWidth, ChunkMaxLen,                \* its chunked launches
    PromptWidth, PromptMaxLen,              \* its launches of whole prompts
    Width, MinPrompt, MaxNew, Section, SpecLength, \* TracedInputs
    AliasTypes, MaxCalls,                   \* AliasLayout
    Patterns, MaxLaunches,                  \* LaunchSignature
    PathTypes, MaxSteps                     \* LayerPaths

VARIABLES
    running,                                             \* the part
    keys, rec, request, rows, len, call, next, outs, spoilt, \* HybridCache
    prompt, llava, phase, args, emb, rope, last,         \* TracedInputs
    config, buf, cpu, calls,                             \* AliasLayout
    built, launches, body, reads, given,                 \* LaunchSignature
    build, mtpStage, rest, steps, terms, pending, kv, wrote, seen, touched, handed  \* LayerPaths

cacheOnly == <<keys, rec, request, rows, next, outs, spoilt>>
inputsOnly == <<prompt, llava, phase, args, emb, rope, last>>
aliasOnly == <<config, buf, cpu, calls>>
launchOnly == <<built, launches, body, reads, given>>
pathsOnly == <<build, mtpStage, rest, steps, terms, pending, kv, wrote, seen, touched, handed>>

----
(* The parts.                                                               *)

\* The library fills position_ids with 1, in chunks and in whole prompts.
One(col, first) == 1
Chunks == INSTANCE HybridCache WITH
    Width <- ChunkWidth, MaxLen <- ChunkMaxLen, Chunked <- TRUE, PadPosition <- One
Whole == INSTANCE HybridCache WITH
    Width <- PromptWidth, MaxLen <- PromptMaxLen, Chunked <- FALSE, PadPosition <- One

Inputs == INSTANCE TracedInputs
Aliases == INSTANCE AliasLayout WITH LayerTypes <- AliasTypes
Launches == INSTANCE LaunchSignature
Paths == INSTANCE LayerPaths WITH LayerTypes <- PathTypes

ASSUME CacheAssumption ==
    /\ Chunks!SizeAssumption /\ Chunks!PadAssumption
    /\ Whole!SizeAssumption /\ Whole!PadAssumption
ASSUME InputsAssumption ==
    /\ Inputs!SizeAssumption /\ Inputs!PromptAssumption /\ Inputs!SpecAssumption
    /\ Inputs!SectionAssumption
ASSUME AliasAssumption == Aliases!LayersAssumption /\ Aliases!CallsAssumption
ASSUME LaunchAssumption == Launches!PatternsAssumption /\ Launches!LaunchesAssumption
ASSUME PathsAssumption == Paths!LayerAssumption

----

Run(p) == running = p

CacheOff == /\ keys = Off /\ rec = Off /\ request = Off /\ rows = Off
            /\ next = Off /\ outs = Off /\ spoilt = Off
InputsOff == /\ prompt = Off /\ llava = Off /\ phase = Off /\ args = Off /\ emb = Off
             /\ rope = Off /\ last = Off
AliasOff == /\ config = Off /\ buf = Off /\ cpu = Off /\ calls = Off
LaunchOff == /\ built = Off /\ launches = Off /\ body = Off /\ reads = Off /\ given = Off
PathsOff == /\ build = Off /\ mtpStage = Off /\ rest = Off /\ steps = Off /\ terms = Off
            /\ pending = Off /\ kv = Off /\ wrote = Off /\ seen = Off /\ touched = Off
            /\ handed = Off

Init ==
    /\ running \in Parts
    /\ \/ Run("chunks") /\ Chunks!Init /\ InputsOff /\ AliasOff /\ LaunchOff /\ PathsOff
       \/ Run("whole") /\ Whole!Init /\ InputsOff /\ AliasOff /\ LaunchOff /\ PathsOff
       \/ /\ Run("inputs") /\ Inputs!Init /\ call = Off
          /\ CacheOff /\ AliasOff /\ LaunchOff /\ PathsOff
       \/ /\ Run("aliases") /\ Aliases!Init /\ len = Off /\ call = Off
          /\ CacheOff /\ InputsOff /\ LaunchOff /\ PathsOff
       \/ /\ Run("launches") /\ Launches!Init /\ len = Off /\ call = Off
          /\ CacheOff /\ InputsOff /\ AliasOff /\ PathsOff
       \/ /\ Run("paths") /\ Paths!Init /\ len = Off
          /\ CacheOff /\ InputsOff /\ AliasOff /\ LaunchOff

Next ==
    /\ UNCHANGED running
    /\ \/ /\ (Run("chunks") /\ Chunks!Next) \/ (Run("whole") /\ Whole!Next)
          /\ UNCHANGED <<inputsOnly, aliasOnly, launchOnly, pathsOnly>>
       \/ /\ Run("inputs") /\ Inputs!Next
          /\ UNCHANGED <<call, cacheOnly, aliasOnly, launchOnly, pathsOnly>>
       \/ /\ Run("aliases") /\ Aliases!Next
          /\ UNCHANGED <<len, call, cacheOnly, inputsOnly, launchOnly, pathsOnly>>
       \/ /\ Run("launches") /\ Launches!Next
          /\ UNCHANGED <<len, call, cacheOnly, inputsOnly, aliasOnly, pathsOnly>>
       \/ /\ Run("paths") /\ Paths!Next
          /\ UNCHANGED <<len, cacheOnly, inputsOnly, aliasOnly, launchOnly>>

vars == <<running, cacheOnly, len, call, inputsOnly, aliasOnly, launchOnly, pathsOnly>>

Spec == Init /\ [][Next]_vars

----
(* Properties.                                                              *)

\* The state of every part is of its types.
TypeOK ==
    /\ Run("chunks") => Chunks!TypeOK
    /\ Run("whole") => Whole!TypeOK
    /\ Run("inputs") => Inputs!TypeOK
    /\ Run("aliases") => Aliases!TypeOK
    /\ Run("launches") => Launches!TypeOK
    /\ Run("paths") => Paths!TypeOK

\* Between calls the cache rows and DeltaNet states of every sequence hold its
\* own tokens and none of a filling row's or an earlier request's; a finished
\* call returns one output per sequence, in order, of that sequence's past.
\* Outputs, and the keys of chunks, where the library's pads met no token.
OutputsAreSequences ==
    /\ Run("chunks") => Chunks!RowsHoldTheirSequence /\ Chunks!OutputsAreSequences
    /\ Run("whole") =>
          Whole!RowsHoldTheirSequence /\ Whole!OutputsAreSequences /\ Whole!KeysRotatedInPlace

\* A padded call fits a graph that was compiled, a text request's tokens reach
\* the layers untouched by the dummies and in front of zeros, each is rotated
\* by its own position, and the hidden state returned is the last token's.
RequestReachesLayers ==
    Run("inputs") =>
        /\ Inputs!RunsCompiled /\ Inputs!TextReachesLayers
        /\ Inputs!RotaryIsPosition /\ Inputs!LastTokenRead

\* After any sequence of calls of any graphs every aliased buffer holds the last
\* value computed for it, and the CPU path's two modules agree.
BuffersHoldTheirOwn ==
    Run("aliases") =>
        Aliases!BuffersHoldTheirOwn /\ Aliases!NothingLeftBehind /\ Aliases!CpuModulesAgree

\* Every stage and layer of a megakernel computes with its own tensors, and what
\* it returns reaches its layer, whatever was launched before.
ReadsItsOwnTensors ==
    Run("launches") => Launches!ReadsItsOwnTensors /\ Launches!HandlesReachTheirLayer

\* Whatever the flags, every sublayer is normed and summed over the ranks once,
\* every cache is written once, in the layout it is read in, and only declared
\* weights are read.
OncePerSublayer ==
    Run("paths") =>
        /\ Paths!OncePerSublayer /\ Paths!CachesWrittenOnce
        /\ Paths!LayoutsAgree /\ Paths!ReadsDeclared

\* perform_qwen_chunked_prefill: "This keeps full-attention layers correct when
\* model-local chunked prefill feeds context in multiple CTE-bucket calls": every
\* cached key was rotated by the position it is stored at.
KeysRotatedInPlace == Run("chunks") => Chunks!KeysRotatedInPlace

\* perform_qwen_chunked_prefill: "Exact chunked CTE over the full decode cache":
\* the attention of a chunk reads the keys of its sequence's whole past.
ChunkedIsExact == Run("chunks") => Chunks!ReadsItsPast

\* encode_vision_to_input: "Scatter vision embeddings into text input embeddings
\* at image token positions."
ImagesInPlace == Run("inputs") => Inputs!ImagesInPlace
=============================================================================
