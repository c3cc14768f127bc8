------------------------------ MODULE TracedInputs ------------------------------
(***************************************************************************)
(* What becomes of a prompt on its way into a compiled graph: the host adds *)
(* rotary positions and vision tensors, dummies for text, the wrapper pads  *)
(* all of them to the bucket, and the traced forward embeds, zeroes pads,   *)
(* may inject images, rotates and picks the last token.  One row; whole     *)
(* prompts and single decode steps.  Rows and chunks are HybridCache's.     *)
(*                                                                          *)
(* A tensor is a sequence over its columns, <<>> where the graph is given   *)
(* an empty one; an embedding is named by the token or image it is of.      *)
(***************************************************************************)
EXTENDS Integers, Sequences, FiniteSets

CONSTANTS
    Width,      \* the bucket of the context-encoding graph
    MinPrompt,  \* tokens of the shortest prompt
    MaxNew,     \* bound: decode steps
    Section,    \* mrope_section: frequencies of the T, H and W axis
    SpecLength  \* speculation_length of the graphs

SizeAssumption ==
    Width \in Nat \ {0, 1} /\ MinPrompt \in 1 .. Width /\ MaxNew \in Nat
\* A bucket as wide as a speculation would be taken for decoding.
SpecAssumption == SpecLength # Width
\* The library pads positions with 1, below the last one of every prompt.
PromptAssumption == MinPrompt > 2

Half == Section[1] + Section[2] + Section[3]
\* Every third frequency is H's, and W's, as far as their sections go.
SectionAssumption ==
    /\ Section \in [1 .. 3 -> Nat \ {0}]
    /\ 3 * Section[2] - 2 < Half /\ 3 * Section[3] - 1 < Half
Line == 0 .. Half - 1
Kind == {"txt", "img", "pad"}   \* ids of a prompt; "pad": the pad token's id
Axes(n) == [t |-> n, h |-> n, w |-> n]
Nothing == <<"zero", 0>>

VARIABLES
    prompt,     \* ids of the request
    len,        \* tokens of the request so far
    llava,      \* llava_args: "none", "two" or "three" tensors
    phase,      \* "idle", "host", "args", "padded" or "ran"
    args,       \* the tensors of the call
    emb,        \* column to what its embedding is made of
    rope,       \* column and frequency to the position it is rotated by
    last        \* column whose hidden state is returned, -1: all of them

vars == <<prompt, len, llava, phase, args, emb, rope, last>>

NoCall == [ids |-> <<>>, mask |-> <<>>, pos |-> <<>>, mrope |-> <<>>, vis |-> <<>>, at |-> <<>>]
Images == Cardinality({i \in DOMAIN prompt : prompt[i] = "img"})

\* Columns of the image tokens, in order, as the vision tower's caller lists
\* them, and the positions it computes: time stands still inside an image.
ImageColumns(ids) == SelectSeq([i \in DOMAIN ids |-> i - 1], LAMBDA c : ids[c + 1] = "img")
GivenRope == [i \in DOMAIN prompt |->
                IF prompt[i] = "img" THEN [t |-> 0, h |-> i, w |-> 2 * i] ELSE Axes(i - 1)]

-----------------------------------------------------------------------------
(* The host: _get_model_outputs.                                              *)

IsPrefill == len = Len(prompt)

\* The column every dummy entry of n names.
DummyPlace(n) == n - 1

\* Vision tensors of a call: the caller's, who passes them with the prompt only,
\* dummies as wide as the prompt, or empty ones.
HostVision(n) ==
    IF IsPrefill /\ llava # "none"
      THEN [vis |-> [k \in 1 .. Images |-> <<"vis", k>>], at |-> ImageColumns(prompt)]
    ELSE IF IsPrefill
      THEN [vis |-> [k \in 1 .. n |-> Nothing], at |-> [k \in 1 .. n |-> DummyPlace(n)]]
    ELSE [vis |-> <<>>, at |-> <<>>]

HostRope(n) ==
    IF ~IsPrefill THEN <<>>
    ELSE IF llava = "three" THEN GivenRope ELSE [i \in 1 .. n |-> Axes(i - 1)]

\* The next token of a decode step is a text token.
HostArgs ==
    LET ids == IF IsPrefill THEN prompt ELSE <<"txt">>
        n == Len(ids)
        v == HostVision(n)
    IN  [ids |-> ids, mask |-> [i \in 1 .. n |-> 1],
         pos |-> IF IsPrefill THEN [i \in 1 .. n |-> i - 1] ELSE <<len - 1>>,
         mrope |-> HostRope(n), vis |-> v.vis, at |-> v.at]

-----------------------------------------------------------------------------
(* The wrapper: input_generator and pad_inputs.                               *)

PadWith(s, n, x(_)) == [i \in 1 .. n |-> IF i <= Len(s) THEN s[i] ELSE x(i)]

\* The library's own padding of ids, mask and position ids.
LibraryPadded(a, n) ==
    [a EXCEPT !.ids = PadWith(@, n, LAMBDA i : "pad"),
              !.mask = PadWith(@, n, LAMBDA i : 0),
              !.pos = PadWith(@, n, LAMBDA i : 1)]

\* Rotary positions count on past the last one, on every axis.
PadRope(s, n) ==
    LET end == s[Len(s)]
        by(i) == i - Len(s)
    IN  PadWith(s, n, LAMBDA i : [t |-> end.t + by(i), h |-> end.h + by(i), w |-> end.w + by(i)])

\* Vision embeddings are filled with zeros, or cut, to the bucket.
PadVision(s, n) == IF Len(s) < n THEN PadWith(s, n, LAMBDA i : Nothing) ELSE SubSeq(s, 1, n)
PadPlaces(s, n) == IF Len(s) < n THEN PadWith(s, n, LAMBDA i : n - 1) ELSE SubSeq(s, 1, n)
Clamped(s, n) == [i \in DOMAIN s |-> IF s[i] > n - 1 THEN n - 1 ELSE s[i]]

PadInputs(a, n) ==
    LET base == LibraryPadded(a, n)
    IN  IF n = 1 THEN base
        ELSE [base EXCEPT !.mrope = PadRope(a.mrope, n),
                          !.vis = PadVision(a.vis, n),
                          !.at = Clamped(PadPlaces(a.at, n), n)]

\* Columns of each input a graph of n tokens was compiled with.
CompiledWidths(n) ==
    LET extra == IF n > 1 THEN n ELSE 0
    IN  [ids |-> n, mask |-> n, pos |-> n, mrope |-> extra, vis |-> extra, at |-> extra]

-----------------------------------------------------------------------------
(* The traced forward.                                                        *)

ContextEncoding(a) == Len(a.pos) # 1 /\ Len(a.pos) # SpecLength

\* A vision tensor counts as real if it is not as wide as the ids.
RealVision(a) == a.vis # <<>> /\ Len(a.vis) # Len(a.ids)

\* encode_vision_to_input: image k overwrites the column it is listed for; of
\* several the last one does.
EncodeVision(e, a) ==
    [c \in DOMAIN e |->
        LET hits == {k \in DOMAIN a.at : a.at[k] = c}
        IN  IF hits = {} THEN e[c]
            ELSE a.vis[CHOOSE k \in hits : \A j \in hits : j <= k]]

\* Columns that keep their embedding in context encoding.
KeepsEmbedding(a, c) == a.mask[c + 1] = 1

\* Embeddings as the layers get them.
Embedded(a) ==
    LET zeroed == [c \in 0 .. Len(a.ids) - 1 |->
                      IF ContextEncoding(a) /\ ~KeepsEmbedding(a, c) THEN Nothing
                      ELSE <<a.ids[c + 1], a.pos[c + 1]>>]
    IN  IF ContextEncoding(a) /\ RealVision(a) THEN EncodeVision(zeroed, a) ELSE zeroed

\* Mutant: the width's frequencies are spliced from offset one on, too.
SameOffset(i) ==
    IF i % 3 = 1 /\ i < 3 * Section[3] THEN "w" ELSE IF i % 3 = 1 /\ i < 3 * Section[2] THEN "h" ELSE "t"
\* Axis of frequency i once those of H and W are spliced into those of T.
AxisOf(i) ==
    IF i % 3 = 2 /\ i < 3 * Section[3] THEN "w"
    ELSE IF i % 3 = 1 /\ i < 3 * Section[2] THEN "h" ELSE "t"

\* Position each frequency of a column is rotated by: the given ones, or where
\* none are given the position ids on every axis.
Rotated(a) ==
    [c \in 0 .. Len(a.ids) - 1 |-> [i \in Line |->
        (IF a.mrope # <<>> THEN a.mrope[c + 1] ELSE Axes(a.pos[c + 1]))[AxisOf(i)]]]

\* A column with the largest position id.
LastIndex(a) ==
    CHOOSE c \in 0 .. Len(a.pos) - 1 : \A d \in 0 .. Len(a.pos) - 1 : a.pos[d + 1] <= a.pos[c + 1]

-----------------------------------------------------------------------------

Init ==
    /\ prompt = <<>> /\ len = 0 /\ llava = "none" /\ phase = "idle"
    /\ args = NoCall /\ emb = <<>> /\ rope = <<>> /\ last = -1

\* A request starts; a caller with images passes llava_args.
Request(ids, with) ==
    /\ phase = "idle"
    /\ with # "none" => \E i \in DOMAIN ids : ids[i] = "img"
    /\ prompt' = ids /\ len' = Len(ids) /\ llava' = with /\ phase' = "host"
    /\ UNCHANGED <<args, emb, rope, last>>

Host ==
    /\ phase = "host"
    /\ args' = HostArgs /\ phase' = "args"
    /\ UNCHANGED <<prompt, len, llava, emb, rope, last>>

Pad ==
    /\ phase = "args"
    /\ args' = PadInputs(args, IF IsPrefill THEN Width ELSE 1)
    /\ phase' = "padded"
    /\ UNCHANGED <<prompt, len, llava, emb, rope, last>>

Forward ==
    /\ phase = "padded"
    /\ emb' = Embedded(args) /\ rope' = Rotated(args)
    /\ last' = IF ContextEncoding(args) THEN LastIndex(args) ELSE 0
    /\ phase' = "ran"
    /\ UNCHANGED <<prompt, len, llava, args>>

\* The returned token is appended and decoded next.
NextToken ==
    /\ phase = "ran" /\ len < Len(prompt) + MaxNew
    /\ len' = len + 1 /\ phase' = "host"
    /\ UNCHANGED <<prompt, llava, args, emb, rope, last>>

Next ==
    \/ \E n \in MinPrompt .. Width : \E ids \in [1 .. n -> Kind], with \in {"none", "two", "three"} :
            Request(ids, with)
    \/ Host \/ Pad \/ Forward \/ NextToken

Spec == Init /\ [][Next]_vars

-----------------------------------------------------------------------------

TypeOK ==
    /\ len \in 0 .. Width + MaxNew /\ llava \in {"none", "two", "three"}
    /\ phase \in {"idle", "host", "args", "padded", "ran"}
    /\ last \in -1 .. Width - 1
    /\ \A k \in DOMAIN args.at : args.at[k] \in 0 .. Width - 1
    /\ phase = "ran" => DOMAIN emb = 0 .. Len(args.ids) - 1 /\ DOMAIN rope = DOMAIN emb

\* Whatever the request, a padded call has the widths its graph was compiled
\* with (pad_inputs against input_generator).
RunsCompiled ==
    phase = "padded" =>
        [f \in DOMAIN args |-> Len(args[f])] = CompiledWidths(Len(args.ids))

\* A text request's tokens reach the layers as they are, one whose id is the
\* pad's too, the dummies touch none of them, and a pad is zero, since the
\* DeltaNet layers have no mask.
TextReachesLayers ==
    (phase = "ran" /\ llava = "none") =>
        \A c \in DOMAIN emb :
            IF ~IsPrefill THEN emb[c] = <<"txt", len - 1>>
            ELSE emb[c] = IF c < Len(prompt) THEN <<prompt[c + 1], c>> ELSE Nothing

\* Column c is rotated by r: a token by its own position, an image by its axes'.
RotatedAt(r, c) ==
    IF IsPrefill /\ llava = "three" /\ prompt[c + 1] = "img"
      THEN /\ Cardinality({i \in Line : r[i] = 0}) = Section[1]
           /\ Cardinality({i \in Line : r[i] = c + 1}) = Section[2]
           /\ Cardinality({i \in Line : r[i] = 2 * (c + 1)}) = Section[3]
      ELSE \A i \in Line : r[i] = IF IsPrefill THEN c ELSE len - 1

\* The frequencies are shared out to the axes by their sections, and without
\* an image every one of a token's is rotated by its own position, in prefill
\* as in decode.
RotaryIsPosition ==
    phase = "ran" =>
        \A c \in DOMAIN rope : (~IsPrefill \/ c < Len(prompt)) => RotatedAt(rope[c], c)

\* The hidden state a prompt returns is its last token's.
LastTokenRead ==
    (phase = "ran" /\ IsPrefill) => last = Len(prompt) - 1

\* The images of a request stand in its image tokens' columns.
\* (encode_vision_to_input: "Scatter vision embeddings into text input
\* embeddings at image token positions.")
ImagesInPlace ==
    (phase = "ran" /\ IsPrefill /\ llava # "none") =>
        \A k \in 1 .. Images : emb[ImageColumns(prompt)[k]] = <<"vis", k>>
=============================================================================
