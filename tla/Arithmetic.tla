------------------------------ MODULE Arithmetic ------------------------------
(****************************************************************************)
(* What the kernels of a launch compute besides the token mixers: the LM    *)
(* head's argmax, the MoE layer, the router of the older megakernels, the   *)
(* residual, and the chunked forms of the delta rule.  The parts share no   *)
(* state; a behaviour runs one of them, and variables of the same name      *)
(* stand for the part's own.                                                *)
(****************************************************************************)
EXTENDS Integers, Sequences, FiniteSets

CONSTANTS
    Parts,                                      \* the parts to run
    Junk,                                       \* what uninitialised device memory holds
    Off,                                        \* a variable of a part that does not run
    TpDegree,                                   \* ranks
    VCore, MaxReduceWidth,                      \* LmHead
    TwoCoreRows, OneCoreRows,                   \* its rows on two cores and on one
    Shapes,                                     \* MoeLayer
    H0, H2, TrunkVocab, Layers,                 \* ResidualLayout
    Prime, Unit, MaxExp, CpuChunk, NkiChunk,    \* DeltaRule
    Rounds, Kinds, Starts, MaxLen,
    P, K, RouterExperts, RouterLogit(_, _),     \* RouterTopk
    Bias(_),
    Launches

VARIABLES
    running,                                                  \* the part
    row, chunk, chunkMax, bestR, core, sent, rank, token, pc, \* LmHead
    shape, loaded, computed, slots, part, acc, tile, reduced, out,  \* MoeLayer
    way, stage, step, layer, ids, first, prev, residual, hbm, cand, \* ResidualLayout
    toks, states, outs, form, pair, A, N, pow, S,             \* DeltaRule
    sb                                                        \* RouterTopk

headOnly == <<chunkMax, bestR, core, sent, rank, token>>
moeOnly == <<loaded, computed, slots, acc, reduced>>
trunkOnly == <<way, step, layer, ids, first, prev, residual, cand>>
ruleOnly == <<toks, states, outs, form, pair, A, N, pow, S>>
shared == <<row, chunk, pc, part, out, stage, shape, tile, hbm>>
vars == <<running, headOnly, moeOnly, trunkOnly, ruleOnly, sb, shared>>

----
(* The parts.                                                               *)

Argmax == INSTANCE LmHead WITH NPrgs <- 2, Rows <- TwoCoreRows
OneCore == INSTANCE LmHead WITH NPrgs <- 1, Rows <- OneCoreRows

Moe == INSTANCE MoeLayer
Trunk == INSTANCE ResidualLayout WITH TP <- TpDegree, Vocab <- TrunkVocab
Rule == INSTANCE DeltaRule
Router == INSTANCE RouterTopk WITH Experts <- RouterExperts, Logit <- RouterLogit

ASSUME HeadAssumption ==
    /\ Argmax!TpDegreeAssumption /\ Argmax!NPrgsAssumption /\ Argmax!VCoreAssumption
    /\ Argmax!WidthAssumption /\ Argmax!RowsAssumption /\ Argmax!LoserAssumption
    /\ OneCore!NPrgsAssumption /\ OneCore!RowsAssumption /\ OneCore!LoserAssumption
ASSUME MoeAssumption ==
    /\ Moe!TpDegreeAssumption /\ Moe!ShapesAssumption /\ Moe!BlocksAssumption
    /\ Moe!JunkAssumption
ASSUME TrunkAssumption == Trunk!SizeAssumption
ASSUME RuleAssumption ==
    /\ Rule!FieldAssumption /\ Rule!ChunkAssumption /\ Rule!RoundsAssumption
    /\ Rule!BoundAssumption /\ Rule!KindsAssumption /\ Rule!StartsAssumption
ASSUME RouterAssumption ==
    Router!SizeAssumption /\ Router!LogitAssumption /\ Router!LaunchAssumption

----

Run(p) == running = p

HeadOff == /\ chunkMax = Off /\ bestR = Off /\ core = Off /\ sent = Off
           /\ rank = Off /\ token = Off
MoeOff == /\ loaded = Off /\ computed = Off /\ slots = Off /\ acc = Off /\ reduced = Off
TrunkOff == /\ way = Off /\ step = Off /\ layer = Off /\ ids = Off /\ first = Off
            /\ prev = Off /\ residual = Off /\ cand = Off
RuleOff == /\ toks = Off /\ states = Off /\ outs = Off /\ form = Off /\ pair = Off
           /\ A = Off /\ N = Off /\ pow = Off /\ S = Off
RowOff == row = Off /\ chunk = Off
TileOff == shape = Off /\ tile = Off

Init ==
    /\ running \in Parts
    /\ \/ /\ Run("head") \/ Run("onecore")
          /\ IF Run("head") THEN Argmax!Init ELSE OneCore!Init
          /\ part = Off /\ out = Off /\ stage = Off /\ hbm = Off /\ TileOff
          /\ MoeOff /\ TrunkOff /\ RuleOff /\ sb = Off
       \/ /\ Run("moe") /\ Moe!Init
          /\ RowOff /\ stage = Off /\ hbm = Off /\ HeadOff /\ TrunkOff /\ RuleOff /\ sb = Off
       \/ /\ Run("trunk") /\ Trunk!Init
          /\ RowOff /\ pc = Off /\ out = Off /\ TileOff /\ HeadOff /\ MoeOff /\ RuleOff /\ sb = Off
       \/ /\ Run("rule") /\ Rule!Init
          /\ pc = Off /\ part = Off /\ hbm = Off /\ TileOff
          /\ HeadOff /\ MoeOff /\ TrunkOff /\ sb = Off
       \/ /\ Run("router") /\ Router!Init
          /\ RowOff /\ part = Off /\ stage = Off /\ HeadOff /\ MoeOff /\ TrunkOff /\ RuleOff

HeadNext ==
    /\ \/ Run("head") /\ Argmax!Next
       \/ Run("onecore") /\ OneCore!Next
    /\ UNCHANGED <<running, part, out, stage, hbm, shape, tile, moeOnly, trunkOnly, ruleOnly, sb>>
MoeNext ==
    /\ Run("moe") /\ Moe!Next
    /\ UNCHANGED <<running, row, chunk, stage, hbm, headOnly, trunkOnly, ruleOnly, sb>>
TrunkNext ==
    /\ Run("trunk") /\ Trunk!Next
    /\ UNCHANGED <<running, row, chunk, pc, out, shape, tile, headOnly, moeOnly, ruleOnly, sb>>
RuleNext ==
    /\ Run("rule") /\ Rule!Next
    /\ UNCHANGED <<running, pc, part, hbm, shape, tile, headOnly, moeOnly, trunkOnly, sb>>
RouterNext ==
    /\ Run("router") /\ Router!Next
    /\ UNCHANGED <<running, row, chunk, part, stage, headOnly, moeOnly, trunkOnly, ruleOnly>>
\* All tokens are given and one form has recomputed them.
RuleOver == Run("rule") /\ stage = "done" /\ UNCHANGED vars

Next == HeadNext \/ MoeNext \/ TrunkNext \/ RuleNext \/ RuleOver \/ RouterNext

Spec ==
    Init /\ [][Next]_vars /\ WF_vars(HeadNext) /\ WF_vars(MoeNext) /\ WF_vars(RouterNext)

----
(* Properties.                                                              *)

\* The state of every part is of its types.
TypeOK ==
    /\ Run("head") => Argmax!TypeOK
    /\ Run("onecore") => OneCore!TypeOK
    /\ Run("moe") => Moe!TypeOK
    /\ Run("trunk") => Trunk!TypeOK
    /\ Run("rule") => Rule!TypeOK
    /\ Run("router") => Router!TypeOK

\* Every core of every rank ends with the token torch.argmax would return for
\* the row that no core ever sees whole, and on the way there its pair is the
\* lowest peak of the core's and then of the rank's columns (staged_argmax).
TokenIsArgmax ==
    /\ Run("head") => Argmax!CoreWinnerLowest /\ Argmax!RankWinnerLowest /\ Argmax!TokenIsArgmax
    /\ Run("onecore") => OneCore!CoreWinnerLowest /\ OneCore!TokenIsArgmax

\* Every core of every rank ends the MoE layer with the whole tile summed over
\* experts, halves and ranks; weights prefetched into the ring outlive their
\* use, and the block a core sends is the one it computed.  Every output of the
\* router, wherever it is stored and however the cores split the tokens, gives
\* each token its best experts in order and their weights.
MoeAsReference ==
    /\ Run("moe") => Moe!RingKeepsUnread /\ Moe!OneValidBlock /\ Moe!TileIsSum
    /\ Run("router") => Router!RoutesAsReference /\ Router!CompleteBehindBarrier

\* Both cores carry the reference's residual through draft, verify and replay,
\* in one launch or three, and what the host reads is in natural order.
ResidualIsReference == Run("trunk") => Trunk!ResidualIsReference /\ Trunk!StoredIsNatural

\* All three chunked forms of the delta rule, with the inverse they solve for
\* and their decay factors in range, give the recurrence's states and outputs.
ChunksAreRecurrence ==
    Run("rule") => Rule!NeverOverflows /\ Rule!InverseExact /\ Rule!ChunksAreRecurrence

\* The comment at the fused kernel's call (modeling_qwen36_a3b.py:1005): decay is
\* formed so that no clamp is needed, however strong it is.
FusedNeedsNoClamp == Run("rule") => Rule!FusedNeedsNoClamp

\* No core of the LM head, of the MoE layer or of the router waits for ever for
\* its peer or for the other ranks.
EveryCoreAnswers ==
    <>(/\ Run("head") => Argmax!AllDone
       /\ Run("onecore") => OneCore!AllDone
       /\ Run("moe") => Moe!AllDone
       /\ Run("router") => Router!AllDone)
=============================================================================
