---------------------------- MODULE DeltaNetState ----------------------------
(***************************************************************************)
(* The carried state of one DeltaNet layer (NeuronGatedDeltaNet): the       *)
(* causal-convolution window and the recurrent state, through context       *)
(* encoding, chunked prefill, single-token decode, and the verify block of  *)
(* the speculative graph with the commit of one of its candidates.          *)
(*                                                                          *)
(* A column is the convolution input of one token, <<its place, the token>>.*)
(* The recurrent state is the sequence of four-column windows it consumed:  *)
(* two states are equal when they consumed the same convolution outputs in  *)
(* the same order.                                                          *)
(***************************************************************************)
EXTENDS Integers, Sequences

CONSTANTS
    Token,          \* the vocabulary
    PadToken,       \* config.pad_token_id: the end-of-sequence token itself
    Bucket,         \* width a context-encoding launch is padded to
    MaxLen,         \* bound: tokens of a request
    Prompts,        \* the prompts a request may start from
    Builds,         \* the builds considered, see build
    Zero, PadColumn \* a zeroed column, the column of a pad

Taps == 4           \* linear_conv_kernel_dim
StateLen == Taps - 1

ASSUME TokenAssumption == PadToken \in Token
ASSUME BucketAssumption == Bucket \in Nat /\ Bucket >= StateLen
ASSUME MaxLenAssumption == MaxLen \in Nat /\ MaxLen >= 1
ASSUME PromptsAssumption ==
    Prompts \subseteq UNION {[1 .. n -> Token] : n \in 1 .. MaxLen}
ASSUME BuildsAssumption ==
    Builds \subseteq [graph : {"plain", "chunked", "spec"}, decode : {"torch", "tkg"}]

Column == ((1 .. MaxLen) \X Token) \cup {Zero, PadColumn}

VARIABLES
    build,      \* graph: what is traced; decode: torch or the TKG kernel
    stage,      \* idle, prefill, ready, verified
    text,       \* tokens of the request whose columns the state should hold
    pending,    \* rest of a prompt that is prefilled in chunks
    plen,       \* length of the prompt
    conv,       \* conv_state_buffer: StateLen columns
    rec,        \* recurrent_state_buffer
    block,      \* the two tokens of a running verify block
    cand        \* its candidate states, one after each token

vars == <<build, stage, text, pending, plen, conv, rec, block, cand>>

Copies(n, x) == [i \in 1 .. n |-> x]
NoColumns == Copies(StateLen, Zero)

\* Projected columns of tokens that follow the first n tokens of a request.
Columns(n, tokens) == [i \in 1 .. Len(tokens) |-> <<n + i, tokens[i]>>]

\* The windows a convolution over `input` produces for its first n outputs.
Windows(input, n) == [i \in 1 .. n |-> SubSeq(input, i, i + StateLen)]

Init ==
    /\ build \in Builds
    /\ stage = "idle"
    /\ text = <<>> /\ pending = <<>> /\ plen = 0
    /\ conv = NoColumns /\ rec = <<>>
    /\ block = <<>> /\ cand = <<>>

\* Mutant: the window starts one column late.
GatherLate(prompt) ==
    LET base == IF Len(prompt) < StateLen THEN 0 ELSE Len(prompt) - StateLen
    IN  SubSeq(Columns(0, prompt) \o Copies(Bucket, PadColumn), base + 2, base + 1 + StateLen)

\* The window context encoding keeps: three columns of the padded input from
\* num_valid - 3 on, clamped at the first column.
GatheredWindow(prompt) ==
    LET mixed == Columns(0, prompt) \o Copies(Bucket - Len(prompt), PadColumn)
        base == IF Len(prompt) < StateLen THEN 0 ELSE Len(prompt) - StateLen
    IN  SubSeq(mixed, base + 1, base + StateLen)

\* Context encoding of a prompt padded to the bucket.  The padding mask zeroes
\* the decay gate, beta and the convolution output of every pad, so only the
\* windows of the prompt are consumed; the old state is not read.
ContextEncode(prompt) ==
    /\ stage = "idle" /\ build.graph # "chunked" /\ Len(prompt) <= Bucket
    /\ stage' = "ready"
    /\ text' = prompt /\ plen' = Len(prompt)
    /\ conv' = GatheredWindow(prompt)
    /\ rec' = Windows(NoColumns \o Columns(0, prompt), Len(prompt))
    /\ UNCHANGED <<build, pending, block, cand>>

BeginChunks(prompt) ==
    /\ stage = "idle" /\ build.graph = "chunked"
    /\ stage' = "prefill"
    /\ text' = <<>> /\ pending' = prompt /\ plen' = Len(prompt)
    /\ UNCHANGED <<build, conv, rec, block, cand>>

\* Mutant: no reset at position 0.
KeptRec == rec

\* A chunk at position 0 starts from a zeroed state.
SeedConv == IF text = <<>> THEN NoColumns ELSE conv
SeedRec == IF text = <<>> THEN <<>> ELSE rec

Single(tokens) == Len(tokens) = 1 /\ text # <<>>

\* A chunk through the context-encoding graph, padded to the bucket.  The
\* convolution runs over carried window \o chunk, and the new window is
\* gathered from num_valid on.
PrefillChunk(n) ==
    LET tokens == SubSeq(pending, 1, n)
        input == SeedConv \o Columns(Len(text), tokens) \o Copies(Bucket - n, PadColumn)
    IN  /\ stage = "prefill" /\ n <= Len(pending) /\ n <= Bucket
        /\ ~Single(tokens)
        /\ conv' = SubSeq(input, n + 1, n + StateLen)
        /\ rec' = SeedRec \o Windows(input, n)
        /\ text' = text \o tokens
        /\ pending' = SubSeq(pending, n + 1, Len(pending))
        /\ stage' = IF n = Len(pending) THEN "ready" ELSE "prefill"
        /\ UNCHANGED <<build, plen, block, cand>>

\* The torch decode branch applies the padding mask to the token it is fed:
\* the column enters the window but the recurrence passes it by.
Masked(t) == build.decode = "torch" /\ t = PadToken

StuckStep(state, col, masked) ==
    [conv |-> SubSeq(state.conv, 1, StateLen - 1) \o <<col>>,
     rec |-> IF masked THEN state.rec ELSE Append(state.rec, Append(state.conv, col))]

\* One decode step on a state.
DecodeStep(state, col, masked) ==
    [conv |-> Append(Tail(state.conv), col),
     rec |-> IF masked THEN state.rec ELSE Append(state.rec, Append(state.conv, col))]

Live == [conv |-> conv, rec |-> rec]
Install(state) == conv' = state.conv /\ rec' = state.rec
NextColumn(t) == <<Len(text) + 1, t>>

Decode(t) ==
    /\ stage = "ready" /\ build.graph # "spec" /\ Len(text) < MaxLen
    /\ Install(DecodeStep(Live, NextColumn(t), Masked(t)))
    /\ text' = Append(text, t)
    /\ UNCHANGED <<build, stage, pending, plen, block, cand>>

\* A one-token chunk past position 0 is no prefill for the host's dispatch: it
\* runs through the decode graph.
DecodeChunk ==
    LET tokens == SubSeq(pending, 1, 1)
    IN  /\ stage = "prefill" /\ pending # <<>> /\ Single(tokens)
        /\ Install(DecodeStep(Live, NextColumn(pending[1]), Masked(pending[1])))
        /\ text' = text \o tokens
        /\ pending' = Tail(pending)
        /\ stage' = IF Len(pending) = 1 THEN "ready" ELSE "prefill"
        /\ UNCHANGED <<build, plen, block, cand>>

\* Mutant: the candidate windows of the kernel are off by one column.
EarlyCandidate(tokens, i) ==
    LET input == conv \o Columns(Len(text), tokens)
    IN  [conv |-> SubSeq(input, i, i + StateLen - 1), rec |-> rec \o Windows(input, i)]

\* State after token i of a verify block: window and recurrence candidates.
Candidate(tokens, i) ==
    LET input == conv \o Columns(Len(text), tokens)
    IN  [conv |-> SubSeq(input, i + 1, i + StateLen), rec |-> rec \o Windows(input, i)]

\* The verify graph reads the live state and writes none of it.
VerifyBlock(t1, t2) ==
    /\ stage = "ready" /\ build.graph = "spec" /\ Len(text) + 2 <= MaxLen
    /\ stage' = "verified"
    /\ block' = <<t1, t2>>
    /\ cand' = [i \in 1 .. 2 |-> Candidate(<<t1, t2>>, i)]
    /\ UNCHANGED <<build, text, pending, plen, conv, rec>>

CommitCandidate(index) == IF index = 1 THEN cand[2] ELSE cand[1]

\* The commit selects by accept count: index + 1 tokens of the block stay.
CommitBlock(index) ==
    /\ stage = "verified"
    /\ stage' = "ready"
    /\ Install(CommitCandidate(index))
    /\ text' = text \o SubSeq(block, 1, index + 1)
    /\ block' = <<>> /\ cand' = <<>>
    /\ UNCHANGED <<build, pending, plen>>

\* The host ends a request whenever it likes; the buffers keep their contents.
EndRequest ==
    /\ stage = "ready"
    /\ stage' = "idle"
    /\ UNCHANGED <<build, text, pending, plen, conv, rec, block, cand>>

Next ==
    \/ \E prompt \in Prompts : ContextEncode(prompt) \/ BeginChunks(prompt)
    \/ \E n \in 1 .. Bucket : PrefillChunk(n)
    \/ DecodeChunk
    \/ \E t \in Token : Decode(t)
    \/ \E t1, t2 \in Token : VerifyBlock(t1, t2)
    \/ \E index \in 0 .. 1 : CommitBlock(index)
    \/ EndRequest

Spec == Init /\ [][Next]_vars

(***************************************************************************)
(* Reference: what token-by-token processing of a history leaves.           *)
(***************************************************************************)
ColumnAt(h, i) == IF i <= 0 THEN Zero ELSE <<i, h[i]>>
RefConv(h) == [j \in 1 .. StateLen |-> ColumnAt(h, Len(h) - StateLen + j)]
RefWindow(h, i) == [j \in 1 .. Taps |-> ColumnAt(h, i - Taps + j)]
RefRec(h) == [i \in 1 .. Len(h) |-> RefWindow(h, i)]

\* Prompts the context-encoding gather handles; tokens the decode mask skips.
LongPrompt == build.graph = "chunked" \/ plen >= StateLen
MayBeDecoded(i) == i > plen \/ (build.graph = "chunked" /\ i > 1)
NothingSkipped ==
    build.graph = "spec" \/ \A i \in 1 .. Len(text) : MayBeDecoded(i) => ~Masked(text[i])

\* Types of the state.
TypeOK ==
    /\ build \in Builds
    /\ stage \in {"idle", "prefill", "ready", "verified"}
    /\ text \in Seq(Token) /\ Len(text) <= MaxLen
    /\ pending \in Seq(Token)
    /\ plen \in 0 .. MaxLen
    /\ conv \in [1 .. StateLen -> Column]
    /\ \A i \in DOMAIN rec : rec[i] \in [1 .. Taps -> Column]
    /\ Len(block) = Len(cand) /\ Len(block) \in {0, 2}

\* Between launches the convolution window holds the last three columns of the
\* request, zeros before its first token, however it was prefilled, chunked,
\* decoded or committed, and whatever the previous request left.
ConvIsHistory ==
    stage # "idle" /\ text # <<>> /\ LongPrompt => conv = RefConv(text)

\* A short prompt's window is wrong only until three more tokens pushed the
\* misplaced columns out.
ConvHeals ==
    stage # "idle" /\ Len(text) >= plen + StateLen => conv = RefConv(text)

\* The recurrent state consumed the window of every token of the request, in
\* order, and of nothing else: no pad, no rejected token, nothing from before.
RecIsHistory ==
    stage # "idle" /\ text # <<>> /\ LongPrompt /\ NothingSkipped => rec = RefRec(text)

\* The candidates of a verify block are the states sequential decoding of its
\* tokens goes through, wherever decoding does not mask a token.
CandidatesAreDecodeSteps ==
    stage = "verified" /\ (\A i \in 1 .. 2 : ~Masked(block[i])) =>
        LET first == DecodeStep(Live, <<Len(text) + 1, block[1]>>, FALSE)
        IN  cand = <<first, DecodeStep(first, <<Len(text) + 2, block[2]>>, FALSE)>>
=============================================================================
