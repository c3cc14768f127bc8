------------------------------- MODULE LmHead -------------------------------
(***************************************************************************)
(* The greedy token of the LM head: the vocabulary is split over the TP     *)
(* ranks and again over the two cores of a rank.  Every core searches its   *)
(* columns chunk by chunk (staged_argmax), the cores of a rank exchange     *)
(* their winners (combine_across_cores), and the ranks gather theirs        *)
(* (all_gather_argmax).  Rows of a launch are independent: this is one row. *)
(*                                                                          *)
(* Token ids and columns count from 0, as in the code.                      *)
(***************************************************************************)
EXTENDS Integers, FiniteSets

CONSTANTS
    TpDegree,       \* ranks of the replica group
    NPrgs,          \* LNC cores of a rank: 1 or 2
    VCore,          \* columns of one core
    MaxReduceWidth, \* columns one DVE instruction can reduce
    Rows            \* the rows of logits considered, functions on Vocab

TpDegreeAssumption == TpDegree \in Nat \ {0}
NPrgsAssumption == NPrgs \in {1, 2}
VCoreAssumption == VCore \in Nat \ {0}
WidthAssumption == MaxReduceWidth \in Nat \ {0}

VRank == NPrgs * VCore
Vocab == 0 .. TpDegree * VRank - 1

RowsAssumption == Rows \subseteq [Vocab -> Int]

\* One core of one rank.
Cores == (0 .. TpDegree - 1) \X (0 .. NPrgs - 1)
Rank(p) == p[1]
Prg(p) == p[2]
Peer(p) == <<Rank(p), 1 - Prg(p)>>

VARIABLES
    row,        \* the logits
    pc,         \* reduce, find, exchange, gather, done, by core
    chunk,      \* the chunk the running loop is at
    chunkMax,   \* maxima of the chunks reduced so far
    bestR,      \* largest reversed index found; uninitialised until find starts
    core,       \* <<max, index in the rank>> of the core's own columns
    sent,       \* what the core has put on the pipe to its peer
    rank,       \* <<max, index in the rank>> of the rank
    token       \* the global greedy id

vars == <<row, pc, chunk, chunkMax, bestR, core, sent, rank, token>>

DivCeil(a, b) == (a + b - 1) \div b
Larger(a, b) == IF a >= b THEN a ELSE b
MaxOf(S) == CHOOSE x \in S : \A y \in S : y <= x
MinOf(S) == CHOOSE x \in S : \A y \in S : x <= y

NChunks == DivCeil(VCore, MaxReduceWidth)
ChunkWidth == DivCeil(VCore, NChunks)
Chunk(c) == {g \in 0 .. VCore - 1 : c * ChunkWidth <= g /\ g < (c + 1) * ChunkWidth}

\* First column of a rank, and of a core within its rank.
RankBase(p) == Rank(p) * VRank
ShardBase(p) == Prg(p) * VCore

\* The core's own logits.
Logit(p, g) == row[RankBase(p) + ShardBase(p) + g]

Nothing == <<>>

Init ==
    /\ row \in Rows
    /\ pc = [p \in Cores |-> "reduce"]
    /\ chunk = [p \in Cores |-> 0]
    /\ chunkMax = [p \in Cores |-> [c \in {} |-> 0]]
    /\ \E junk \in 0 .. VCore : bestR = [p \in Cores |-> junk]
    /\ core = [p \in Cores |-> Nothing]
    /\ sent = [p \in Cores |-> Nothing]
    /\ rank = [p \in Cores |-> Nothing]
    /\ token = [p \in Cores |-> Nothing]

(***************************************************************************)
(* staged_argmax                                                            *)
(***************************************************************************)

\* The next chunk of the running loop, or the next phase.
Advance(p, next) ==
    IF chunk[p] + 1 < NChunks
    THEN chunk' = [chunk EXCEPT ![p] = @ + 1] /\ pc' = pc
    ELSE chunk' = [chunk EXCEPT ![p] = 0] /\ pc' = [pc EXCEPT ![p] = next]

\* The memset between the two loops.
ClearedBest(p) ==
    IF chunk[p] + 1 < NChunks THEN bestR ELSE [bestR EXCEPT ![p] = 0]

\* First loop: the maximum of a chunk.
ReduceChunk(p) ==
    /\ pc[p] = "reduce"
    /\ chunkMax' = [chunkMax EXCEPT ![p] =
                        [c \in DOMAIN @ \cup {chunk[p]} |->
                            IF c = chunk[p] THEN MaxOf({Logit(p, g) : g \in Chunk(c)}) ELSE @[c]]]
    /\ bestR' = ClearedBest(p)
    /\ Advance(p, "find")
    /\ UNCHANGED <<row, core, sent, rank, token>>

CoreMax(p) == MaxOf({chunkMax[p][c] : c \in DOMAIN chunkMax[p]})

\* What nc_find_index8 may report first for a value in a chunk: the first match
\* and, when there is none, anything.
FindIndex(p, c, value) ==
    LET matches == {g - c * ChunkWidth : g \in {x \in Chunk(c) : Logit(p, x) = value}}
    IN  IF matches # {} THEN {MinOf(matches)} ELSE 0 .. ChunkWidth

\* r = V_core - (c*C + ind), gated to 0 when this chunk does not hold the peak.
Reversed(p, ind) ==
    IF chunkMax[p][chunk[p]] = CoreMax(p) THEN VCore - (chunk[p] * ChunkWidth + ind) ELSE 0

\* Mutant: the last chunk searched wins.
LastChunk(p, r) == r

Best(p, r) == Larger(bestR[p], r)
CoreIndex(p, best) == ShardBase(p) + VCore - best

\* Second loop: the lowest column of the peak, as the largest reversed index.
FindChunk(p) ==
    /\ pc[p] = "find"
    /\ \E ind \in FindIndex(p, chunk[p], CoreMax(p)) :
          LET best == Best(p, Reversed(p, ind))
          IN  /\ bestR' = [bestR EXCEPT ![p] = best]
              /\ core' = [core EXCEPT ![p] = <<CoreMax(p), CoreIndex(p, best)>>]
    /\ Advance(p, IF NPrgs = 1 THEN "copy" ELSE "send")
    /\ UNCHANGED <<row, chunkMax, sent, rank, token>>

(***************************************************************************)
(* combine_across_cores                                                     *)
(***************************************************************************)
CopyWinner(p) ==
    /\ pc[p] = "copy"
    /\ rank' = [rank EXCEPT ![p] = core[p]]
    /\ pc' = [pc EXCEPT ![p] = "gather"]
    /\ UNCHANGED <<row, chunk, chunkMax, bestR, core, sent, token>>

\* sendrecv: a core sends its pair and waits for its peer's.
Send(p) ==
    /\ pc[p] = "send"
    /\ sent' = [sent EXCEPT ![p] = core[p]]
    /\ pc' = [pc EXCEPT ![p] = "receive"]
    /\ UNCHANGED <<row, chunk, chunkMax, bestR, core, rank, token>>

\* Mutant: a tie goes to this core, whichever of the two it is.
OwnTie(mine, theirs) == IF mine[1] >= theirs[1] THEN mine ELSE theirs

\* The winner of two pairs, by reversed index within the rank.
Winner(mine, theirs) ==
    LET peak == Larger(mine[1], theirs[1])
        r(pair) == IF pair[1] = peak THEN VRank - pair[2] ELSE 0
    IN  <<peak, VRank - Larger(r(mine), r(theirs))>>

Receive(p) ==
    /\ pc[p] = "receive" /\ sent[Peer(p)] # Nothing
    /\ rank' = [rank EXCEPT ![p] = Winner(core[p], sent[Peer(p)])]
    /\ pc' = [pc EXCEPT ![p] = "gather"]
    /\ UNCHANGED <<row, chunk, chunkMax, bestR, core, sent, token>>

(***************************************************************************)
(* all_gather_argmax                                                        *)
(***************************************************************************)
\* Cores with the same place in their ranks gather together.
Group(p) == {q \in Cores : Prg(q) = Prg(p)}

GlobalId(q) == RankBase(q) + rank[q][2]

\* Columns without the peak are lifted past every real id, then the minimum.
Loser == 2 ^ 30
LoserAssumption == TpDegree * VRank <= Loser
GatherArgmax(p) ==
    LET peak == MaxOf({rank[q][1] : q \in Group(p)})
    IN  MinOf({GlobalId(q) + (IF rank[q][1] = peak THEN 0 ELSE Loser) : q \in Group(p)})

Gather(p) ==
    /\ pc[p] = "gather" /\ \A q \in Group(p) : rank[q] # Nothing
    /\ token' = [token EXCEPT ![p] = <<GatherArgmax(p)>>]
    /\ pc' = [pc EXCEPT ![p] = "done"]
    /\ UNCHANGED <<row, chunk, chunkMax, bestR, core, sent, rank>>

AllDone == \A p \in Cores : pc[p] = "done"

\* The launch is over.
Finished == AllDone /\ UNCHANGED vars

CoreStep(p) ==
    ReduceChunk(p) \/ FindChunk(p) \/ CopyWinner(p) \/ Send(p) \/ Receive(p) \/ Gather(p)

Next == (\E p \in Cores : CoreStep(p)) \/ Finished

Spec == Init /\ [][Next]_vars /\ \A p \in Cores : WF_vars(CoreStep(p))

(***************************************************************************)
(* Properties.                                                              *)
(***************************************************************************)

\* The lowest id with the largest logit, as torch.argmax breaks ties.
Greedy(ids) ==
    MinOf({i \in ids : \A j \in ids : row[j] <= row[i]})

\* Types of the state.
TypeOK ==
    /\ row \in Rows
    /\ \A p \in Cores :
          /\ pc[p] \in {"reduce", "find", "copy", "send", "receive", "gather", "done"}
          /\ chunk[p] \in 0 .. NChunks - 1
          /\ DOMAIN chunkMax[p] \subseteq 0 .. NChunks - 1
          /\ bestR[p] \in 0 .. VCore
          /\ core[p] # Nothing => core[p][2] \in 0 .. VRank
          /\ rank[p] # Nothing => rank[p][2] \in 0 .. VRank - 1

RankIds(p) == RankBase(p) .. RankBase(p) + VRank - 1
CoreIds(p) == {RankBase(p) + ShardBase(p) + g : g \in 0 .. VCore - 1}

\* When a core leaves its search, its pair is the lowest column of its own
\* largest logit: neither an uninitialised tile nor a chunk that does not hold
\* the peak has had a say.
CoreWinnerLowest ==
    \A p \in Cores : pc[p] \notin {"reduce", "find"} =>
        LET g == Greedy(CoreIds(p))
        IN  core[p] = <<row[g], g - RankBase(p)>>

\* Both cores of a rank hold the same winner, the lowest of the rank's columns,
\* though neither is told which of them is the lower one.
RankWinnerLowest ==
    \A p \in Cores : rank[p] # Nothing =>
        LET g == Greedy(RankIds(p))
        IN  rank[p] = <<row[g], g - RankBase(p)>>

\* Every core of every rank ends with the same token, the one torch.argmax
\* would return for the row that no core ever sees whole.
TokenIsArgmax ==
    \A p \in Cores : token[p] # Nothing => token[p] = <<Greedy(Vocab)>>

\* No core waits for ever for its peer or for the other ranks.
EveryCoreAnswers == <>AllDone
=============================================================================
