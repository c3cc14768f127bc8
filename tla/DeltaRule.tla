------------------------------- MODULE DeltaRule -------------------------------
(***************************************************************************)
(* The gated delta rule of one value head, and the chunked forms of it that *)
(* context encoding may run: forward substitution (torch), the block solve  *)
(* of the chunk-step kernel, the Neumann doubling of the fused kernel.      *)
(*                                                                          *)
(* The arithmetic is exact, over the integers modulo a prime: an identity   *)
(* between the forms that holds over the reals holds there.  A log-decay is *)
(* an integer of at most 0 and exp is a power of a unit, so exp(a + b) is   *)
(* exp(a) * exp(b).  A float's range is kept too: exp past MaxExp is a value*)
(* no arithmetic recovers from, as 0 times infinity is none.                *)
(***************************************************************************)
EXTENDS Integers, Sequences

CONSTANTS
    Prime, Unit,    \* the field and the unit whose powers stand for exp
    MaxExp,         \* largest exponent whose exp is finite
    CpuChunk,       \* chunk_size of _chunk_forward: 64
    NkiChunk,       \* chunk_size of the kernels: 128
    Rounds,         \* squarings in the fused kernel's Neumann product: 6
    Kinds,          \* the tokens considered
    Starts,         \* the initial states considered
    MaxLen          \* bound: tokens of a sequence

Overflow == Prime
Field == 0 .. Prime - 1
Vector(n) == [1 .. n -> Field]
KDim == 2
VDim == 1
Tokens == [q : Vector(KDim), k : Vector(KDim), v : Vector(VDim), b : Field, g : Int]
Zero(m, n) == [i \in 1 .. m |-> [j \in 1 .. n |-> 0]]
ZeroState == Zero(KDim, VDim)

FieldAssumption == Prime \in Nat /\ Prime > 2 /\ Unit \in 2 .. Prime - 1
ChunkAssumption ==
    CpuChunk \in Nat \ {0} /\ NkiChunk \in Nat /\ NkiChunk % 2 = 0 /\ NkiChunk > 0
RoundsAssumption == Rounds \in Nat /\ 2 ^ (Rounds + 1) = NkiChunk
BoundAssumption == MaxLen \in Nat /\ MaxExp \in Nat
KindsAssumption == Kinds \subseteq Tokens /\ \A x \in Kinds : x.g <= 0
StartsAssumption ==
    ZeroState \in Starts /\ Starts \subseteq [1 .. KDim -> Vector(VDim)]

VARIABLES
    toks,       \* tokens consumed by the recurrence
    states,     \* its recurrent state before them and after each
    outs,       \* its outputs
    form,       \* the chunked form that recomputes them: none, cpu, nki, fused
    stage,      \* load, solve, merge, apply, done
    chunk,      \* the chunk being worked on, counted from 1
    row,        \* rows solved, or squarings made
    pair,       \* decay from token to token, on and below the diagonal
    A,          \* strictly lower correction matrix of the chunk
    N,          \* (I - A)^-1, as far as it is computed
    pow,        \* the last square of A
    S,          \* state carried into the chunk
    out         \* outputs of the chunks before

reference == <<toks, states, outs>>
local == <<pair, A, N, pow>>
vars == <<reference, form, stage, chunk, row, local, S, out>>

-----------------------------------------------------------------------------
(* Arithmetic *)

Add(a, b) == IF Overflow \in {a, b} THEN Overflow ELSE (a + b) % Prime
Mul(a, b) == IF Overflow \in {a, b} THEN Overflow ELSE (a * b) % Prime
Exp(n) == IF n > MaxExp THEN Overflow ELSE Unit ^ (n % (Prime - 1)) % Prime

Sum(n, f(_)) == LET s[i \in 0 .. n] == IF i = 0 THEN 0 ELSE Add(s[i - 1], f(i)) IN s[n]

Matrix(m, n, f(_, _)) == [i \in 1 .. m |-> [j \in 1 .. n |-> f(i, j)]]
Width(B) == Len(B[1])
Product(B, C) ==
    Matrix(Len(B), Width(C), LAMBDA i, j : Sum(Len(C), LAMBDA l : Mul(B[i][l], C[l][j])))
Transposed(B) == Matrix(Width(B), Len(B), LAMBDA i, j : B[j][i])
Pointwise(B, C, f(_, _)) == Matrix(Len(B), Width(B), LAMBDA i, j : f(B[i][j], C[i][j]))
Plus(B, C) == Pointwise(B, C, Add)
Minus(B, C) == Pointwise(B, C, LAMBDA x, y : Add(x, Mul(Prime - 1, y)))
Rows(d, B) == Matrix(Len(B), Width(B), LAMBDA i, j : Mul(d[i], B[i][j]))
Identity(n) == Matrix(n, n, LAMBDA i, j : IF i = j THEN 1 ELSE 0)
Column(x) == [i \in DOMAIN x |-> <<x[i]>>]

-----------------------------------------------------------------------------
(* The recurrence *)

\* One token: decay the state, read it with the key, write the gated
\* difference back, read it with the query.
RecurrentStep(before, x) ==
    LET decayed == Rows([i \in 1 .. KDim |-> Exp(x.g)], before)
        delta == Rows(<<x.b>>, Minus(<<x.v>>, Product(<<x.k>>, decayed)))
        next == Plus(decayed, Product(Column(x.k), delta))
    IN  [state |-> next, out |-> Product(<<x.q>>, next)[1]]

-----------------------------------------------------------------------------
(* Chunks *)

PadTok == [q |-> <<0, 0>>, k |-> <<0, 0>>, v |-> <<0>>, b |-> 0, g |-> 0]

Part(c, f) == [i \in DOMAIN c |-> c[i][f]]

\* Cumulative log-decay within a chunk.
Cumulative(c) ==
    LET s[i \in 1 .. Len(c)] == IF i = 1 THEN c[1].g ELSE s[i - 1] + c[i].g IN s

Keep(i, j, strict) == IF j < i \/ (~strict /\ j = i) THEN 1 ELSE 0

Size == IF form = "cpu" THEN CpuChunk ELSE NkiChunk

\* Zero tokens up to a multiple of the chunk.
Padded == toks \o [i \in 1 .. ((Size - (Len(toks) % Size)) % Size) |-> PadTok]
C == SubSeq(Padded, (chunk - 1) * Size + 1, chunk * Size)
Gc == Cumulative(C)

\* Decay from token j to token i >= j.  The difference is masked before exp is
\* taken, and again after: above the diagonal it is positive.
PairDecay(strict) ==
    Matrix(Size, Size, LAMBDA i, j :
        Mul(Keep(i, j, strict), Exp(Keep(i, j, strict) * (Gc[i] - Gc[j]))))

\* The fused kernel scales the masked rows by exp(gc), the columns by exp(-gc).
SplitDecay(strict) ==
    Matrix(Size, Size, LAMBDA i, j :
        Mul(Mul(Keep(i, j, strict), Exp(Gc[i])), Exp(-Gc[j])))

Decay(strict) == IF form = "fused" THEN SplitDecay(strict) ELSE PairDecay(strict)

-----------------------------------------------------------------------------

Init ==
    /\ toks = <<>> /\ outs = <<>>
    /\ \E S0 \in Starts : states = <<S0>>
    /\ form = "none" /\ stage = "load" /\ chunk = 0 /\ row = 0
    /\ pair = <<>> /\ A = <<>> /\ N = <<>> /\ pow = <<>>
    /\ S = ZeroState /\ out = <<>>

\* One iteration of the recurrence's loop over the sequence.
Consume(x) ==
    LET r == RecurrentStep(states[Len(states)], x)
    IN  /\ form = "none" /\ Len(toks) < MaxLen
        /\ toks' = Append(toks, x)
        /\ states' = Append(states, r.state)
        /\ outs' = Append(outs, r.out)
        /\ UNCHANGED <<form, stage, chunk, row, local, S, out>>

\* A chunked form starts on the same sequence; the fused kernel has no
\* argument for an initial state.
Begin(f) ==
    /\ form = "none" /\ toks # <<>>
    /\ f = "fused" => states[1] = ZeroState
    /\ form' = f /\ chunk' = 1
    /\ S' = states[1]
    /\ UNCHANGED <<reference, stage, row, local, out>>

\* Cumulative decay, pairwise decay and the correction matrix of a chunk.
LoadChunk ==
    LET kb == Rows(Part(C, "b"), Part(C, "k"))
        corr == Rows([i \in 1 .. Size |-> Prime - 1],
                     Pointwise(Product(kb, Transposed(Part(C, "k"))), Decay(TRUE), Mul))
    IN  /\ form # "none" /\ stage = "load"
        /\ pair' = Decay(FALSE)
        /\ A' = corr
        /\ N' = CASE form = "cpu" -> corr
                  [] form = "nki" -> Zero(Size, Size)
                  [] form = "fused" -> Plus(Identity(Size), corr)
        /\ pow' = IF form = "fused" THEN corr ELSE <<>>
        /\ row' = 0 /\ stage' = "solve"
        /\ UNCHANGED <<reference, form, chunk, S, out>>

\* attn[i, :i] += attn[i, :i] @ attn[:i, :i], from the second row on.
SubstituteRow ==
    LET i == row + 2
        new(j) == Add(N[i][j], Sum(i - 1, LAMBDA l : Mul(N[i][l], N[l][j])))
    IN  /\ form = "cpu" /\ stage = "solve" /\ i <= Size
        /\ N' = [N EXCEPT ![i] = [j \in 1 .. Size |-> IF j < i THEN new(j) ELSE N[i][j]]]
        /\ row' = row + 1
        /\ UNCHANGED <<reference, form, stage, chunk, pair, A, pow, S, out>>

AddIdentity ==
    /\ form = "cpu" /\ stage = "solve" /\ row + 2 > Size
    /\ N' = Plus(N, Identity(Size))
    /\ stage' = "apply"
    /\ UNCHANGED <<reference, form, chunk, row, pair, A, pow, S, out>>

Half == Size \div 2
Block(i) == IF i <= Half THEN 1 .. Half ELSE Half + 1 .. Size

\* Row i of A @ N + identity, masked to the columns of the row's own block.
SolveRow ==
    LET i == row + 1
        new(j) == Add(Sum(Size, LAMBDA l : Mul(A[i][l], N[l][j])), IF i = j THEN 1 ELSE 0)
    IN  /\ form = "nki" /\ stage = "solve" /\ i <= Size
        /\ N' = [N EXCEPT ![i] =
                    [j \in 1 .. Size |-> Add(N[i][j], IF j \in Block(i) THEN new(j) ELSE 0)]]
        /\ row' = i
        /\ UNCHANGED <<reference, form, stage, chunk, pair, A, pow, S, out>>

\* Mutant: the lower-left block is merged with the right columns.
SwappedMerge(i, j) == i > Half /\ j > Half

LowerLeft(i, j) == i > Half /\ j <= Half

\* The lower-left block of N @ A @ N joins the two diagonal blocks.
MergeBlocks ==
    LET merged == Product(Product(N, A), N)
    IN  /\ form = "nki" /\ stage = "solve" /\ row = Size
        /\ N' = Matrix(Size, Size, LAMBDA i, j :
                    Add(N[i][j], IF LowerLeft(i, j) THEN merged[i][j] ELSE 0))
        /\ stage' = "apply"
        /\ UNCHANGED <<reference, form, chunk, row, pair, A, pow, S, out>>

\* One more factor I + A^(2^r) of the Neumann product.
Square ==
    /\ form = "fused" /\ stage = "solve" /\ row < Rounds
    /\ pow' = Product(pow, pow)
    /\ N' = Product(Plus(Identity(Size), Product(pow, pow)), N)
    /\ row' = row + 1
    /\ stage' = IF row' = Rounds THEN "apply" ELSE "solve"
    /\ UNCHANGED <<reference, form, chunk, pair, A, S, out>>

\* exp(g_last - gc), never above 1; the fused kernel multiplies two exps.
TailDecay ==
    [i \in 1 .. Size |->
        IF form = "fused" THEN Mul(Exp(Gc[Size]), Exp(-Gc[i])) ELSE Exp(Gc[Size] - Gc[i])]

LastChunk == chunk * Size >= Len(toks)

Decayed(M) == Rows([i \in 1 .. Size |-> Exp(Gc[i])], M)

\* Corrected values less what the carried state already holds for their keys.
NewValues ==
    LET kb == Rows(Part(C, "b"), Part(C, "k"))
        vb == Rows(Part(C, "b"), Part(C, "v"))
    IN  Minus(Product(N, vb), Product(Product(N, Decayed(kb)), S))

\* Queries read the carried state and the new values of tokens up to their own.
Output(new) ==
    LET qk == Product(Part(C, "q"), Transposed(Part(C, "k")))
    IN  Plus(Product(Decayed(Part(C, "q")), S), Product(Pointwise(qk, pair, Mul), new))

NextState(new) ==
    Plus(Rows([i \in 1 .. KDim |-> Exp(Gc[Size])], S),
         Product(Transposed(Rows(TailDecay, Part(C, "k"))), new))

\* The chunk's outputs and the state at its end; outputs of pads are cut.
Apply ==
    /\ stage = "apply"
    /\ S' = NextState(NewValues)
    /\ out' = SubSeq(out \o Output(NewValues), 1,
                     IF LastChunk THEN Len(toks) ELSE chunk * Size)
    /\ stage' = IF LastChunk THEN "done" ELSE "load"
    /\ chunk' = IF LastChunk THEN chunk ELSE chunk + 1
    /\ row' = 0 /\ pair' = <<>> /\ A' = <<>> /\ N' = <<>> /\ pow' = <<>>
    /\ UNCHANGED <<reference, form>>

Next ==
    \/ \E x \in Kinds : Consume(x)
    \/ \E f \in {"cpu", "nki", "fused"} : Begin(f)
    \/ LoadChunk
    \/ SubstituteRow \/ AddIdentity
    \/ SolveRow \/ MergeBlocks
    \/ Square
    \/ Apply

Spec == Init /\ [][Next]_vars

-----------------------------------------------------------------------------
(* Properties *)

Within(M) == \A i \in DOMAIN M : \A j \in DOMAIN M[i] : M[i][j] \in Field

TypeOK ==
    /\ toks \in Seq(Kinds) /\ Len(toks) <= MaxLen
    /\ Len(states) = Len(toks) + 1 /\ Len(outs) = Len(toks)
    /\ \A i \in DOMAIN states : states[i] \in [1 .. KDim -> Vector(VDim)]
    /\ \A i \in DOMAIN outs : outs[i] \in Vector(VDim)
    /\ form \in {"none", "cpu", "nki", "fused"}
    /\ stage \in {"load", "solve", "apply", "done"}
    /\ row \in 0 .. Size

\* Tokens the chunks before the current one hold.
Before == IF stage = "done" \/ (chunk - 1) * Size > Len(toks) THEN Len(toks)
          ELSE (chunk - 1) * Size

\* exp(-gc) is finite in every chunk: the decay from its start is at least
\* exp(-MaxExp).
InRange ==
    \A i \in DOMAIN toks, j \in DOMAIN toks :
        i <= j /\ (i - 1) % Size = 0 /\ (i - 1) \div Size = (j - 1) \div Size
          => Cumulative(SubSeq(toks, i, j))[j - i + 1] >= -MaxExp

\* The factors of torch's form and of the chunk-step kernel never overflow,
\* however strong the decay: no exponent above 0 reaches exp.
NeverOverflows ==
    form \in {"cpu", "nki"} => Within(pair) /\ Within(A) /\ Within(N) /\ Within(S) /\ Within(out)

\* Row by row, by two blocks and a merge, or by squaring: what is applied is
\* the inverse of the whole correction.
InverseExact ==
    stage = "apply" /\ Within(A) =>
        Product(N, Minus(Identity(Size), A)) = Identity(Size)

\* Between chunks the carried state is the one the recurrence has after the
\* same tokens, and the outputs are its outputs; at the end the pads have left
\* no trace.  The fused kernel only while exp(-gc) is finite.
ChunksAreRecurrence ==
    form # "none" /\ stage \in {"load", "done"} /\ (form = "fused" => InRange) =>
        /\ S = states[Before + 1]
        /\ out = SubSeq(outs, 1, Before)

\* The comment at the fused kernel's call (modeling_qwen36_a3b.py:1005): decay
\* is formed as exp(cumsum(g)_i - cumsum(g)_j), so g needs no clamp.
FusedNeedsNoClamp ==
    form = "fused" /\ stage = "done" => S = states[Len(states)] /\ out = outs
=============================================================================
