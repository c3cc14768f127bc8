------------------------------ MODULE SpecRound ------------------------------
(***************************************************************************)
(* Greedy EAGLE speculation with the Qwen3.6 MTP head as drafter            *)
(* (Qwen36FusedSpecModel, spec_len = 2): one context-encoding step per      *)
(* request, then rounds of draft (D1), verify (V), replay and commit.       *)
(*                                                                          *)
(* Data are abstracted to histories.  A KV slot, a DeltaNet state or a      *)
(* trunk hidden is the sequence of tokens it was computed from, and Junk    *)
(* once it was computed from anything that is not one coherent history.     *)
(* Positions and slots count from 0, tokens of a sequence from 1: slot j    *)
(* of the trunk holds the history of length j+1, slot j of the MTP head     *)
(* the pair (x_{j+1}, h_j), that is the history of length j+2.              *)
(***************************************************************************)
EXTENDS Integers, Sequences

CONSTANTS
    Token,          \* the vocabulary
    Eos,            \* tokens on which the host stops (empty in the benchmark)
    SeqLen,         \* neuron_config.seq_len: slots of every KV cache
    Modes,          \* the builds considered, see mode
    Prompts,        \* the prompts a request may start from
    Junk,           \* a value computed from pads or from mixed histories
    Target(_),      \* greedy next token of the trunk after a history
    DraftHead(_)    \* greedy next token of the MTP head after a history

SpecLen == 2        \* speculation_length; _commit_deltanet only knows two states

Slots == 0 .. SeqLen - 1

\* The shortest prompt considered: the convolution window that context encoding
\* gathers is misaligned below three tokens (DeltaNetState, ConvHeals).
MinPrompt == 3

\* The histories a run can build: the last round may end one past the window.
History == UNION {[1 .. n -> Token] : n \in 1 .. SeqLen + 1}

ASSUME TokenAssumption == Token # {} /\ Eos \subseteq Token
ASSUME SeqLenAssumption == SeqLen \in Nat \ {0}
ASSUME PromptsAssumption ==
    Prompts \subseteq UNION {[1 .. n -> Token] : n \in MinPrompt .. SeqLen - 1}
ASSUME ModesAssumption == Modes \subseteq {"xla", "launch3", "launch1"}
ASSUME JunkAssumption == Junk \notin History
ASSUME TargetAssumption == \A h \in History : Target(h) \in Token
ASSUME DraftHeadAssumption == \A h \in History : DraftHead(h) \in Token

VARIABLES
    mode,       \* "xla" (torch), "launch3" (a kernel per stage), "launch1" (one kernel)
    stage,      \* where the request is: idle, ready, drafted, verified, replayed
    out,        \* prompt and tokens the host has received
    plen,       \* length of the prompt
    limit,      \* length at which the host stops asking for rounds
    kv,         \* trunk GQA cache
    mtp,        \* KV cache of the MTP layer
    dn,         \* live DeltaNet state (recurrent and convolution)
    hid,        \* rolling buffer: pre-norm hidden of the last token in the caches
    cand,       \* the drafted token
    rows,       \* verify block: hidden, S and conv candidates after each token
    tgt,        \* target tokens of the block
    late        \* D1's in-place cache write while it has not landed (<<>>: none)

vars == <<mode, stage, out, plen, limit, kv, mtp, dn, hid, cand, rows, tgt, late>>
host == <<mode, out, plen, limit>>

\* What the locals of a round hold while no round runs.
NoToken == CHOOSE t \in Token : TRUE

Min2(a, b) == IF a < b THEN a ELSE b

(***************************************************************************)
(* Masks and what a launch computes.                                        *)
(***************************************************************************)

\* Slots a block of T tokens at position pos attends to besides itself.  The
\* kernel mask keeps only the first SeqLen - T slots of the prior window: the
\* last T lines of the mask belong to the active tokens.
Attended(pos, T) ==
    LET window == IF mode = "xla" THEN SeqLen ELSE SeqLen - T
    IN  {j \in Slots : j < pos /\ j < window}

\* The prior a block reads is history h and nothing else; slot j of cache
\* holds the first j + off tokens.
Coherent(cache, h, pos, T, off) ==
    /\ h # Junk
    /\ Attended(pos, T) = 0 .. pos - 1
    /\ \A j \in 0 .. pos - 1 : cache[j] = SubSeq(h, 1, j + off)

\* History h after one more token.
Extend(h, t) == IF h = Junk THEN Junk ELSE Append(h, t)

\* Position of the last received token: the one no cache holds yet.
Pos == Len(out) - 1
LastToken == out[Len(out)]

\* An in-place scatter of two consecutive slots.
Scatter2(cache, pos, a, b) ==
    [j \in Slots |-> IF j = pos THEN a ELSE IF j = pos + 1 THEN b ELSE cache[j]]

(***************************************************************************)
(* Requests.                                                                *)
(***************************************************************************)
Init ==
    /\ mode \in Modes
    /\ stage = "idle"
    /\ out = <<>> /\ plen = 0 /\ limit = 0
    /\ kv = [j \in Slots |-> Junk]
    /\ mtp = [j \in Slots |-> Junk]
    /\ dn = Junk /\ hid = Junk
    /\ cand = NoToken
    /\ rows = <<Junk, Junk>>
    /\ tgt = <<NoToken, NoToken>>
    /\ late = <<>>

\* New-token budget of a request, capped to the room the window leaves.
ResolveMaxNewTokens(promptLen, requested) == Min2(requested, SeqLen - promptLen)

\* Caches after context encoding of a prompt padded to the whole window: the
\* trunk fills slot i from x_0..x_i; the draft runs one behind the target, so
\* the last valid position only gets a pad.
PrefilledTrunk(prompt) ==
    [j \in Slots |-> IF j < Len(prompt) THEN SubSeq(prompt, 1, j + 1) ELSE Junk]
\* Mutant: the MTP head is fed x_i next to h_i, without the shift by one.
UnshiftedMtp(prompt) ==
    [j \in Slots |-> IF j < Len(prompt) - 1 THEN SubSeq(prompt, 1, j + 1) ELSE Junk]

PrefilledMtp(prompt) ==
    [j \in Slots |-> IF j < Len(prompt) - 1 THEN SubSeq(prompt, 1, j + 2) ELSE Junk]

\* Context encoding: exact trunk state, first token, hidden of the last valid
\* position into the rolling buffer.
Prefill(prompt, requested) ==
    /\ stage = "idle"
    /\ stage' = "ready"
    /\ out' = Append(prompt, Target(prompt))
    /\ plen' = Len(prompt)
    /\ limit' = Len(prompt) + ResolveMaxNewTokens(Len(prompt), requested)
    /\ kv' = PrefilledTrunk(prompt)
    /\ mtp' = PrefilledMtp(prompt)
    /\ dn' = prompt
    /\ hid' = prompt
    /\ UNCHANGED <<mode, cand, rows, tgt, late>>

\* The host stops at the budget or on an end-of-sequence token.
Stopped ==
    \/ Len(out) >= limit
    \/ \E i \in plen + 1 .. Len(out) : out[i] \in Eos

Finish ==
    /\ stage = "ready" /\ Stopped
    /\ stage' = "idle"
    /\ UNCHANGED <<host, kv, mtp, dn, hid, cand, rows, tgt, late>>

(***************************************************************************)
(* A round.                                                                 *)
(***************************************************************************)

\* D1: the MTP head reads its own cache below Pos - 1 and the rolling hidden,
\* and drafts from the last received token.  The torch build throws the new
\* cache away; the kernels scatter slot Pos - 1 in place, at once when the
\* same launch reads it back, whenever the scheduler likes otherwise.
DraftEntry == Extend(hid, LastToken)

Draft ==
    /\ stage = "ready" /\ ~Stopped
    /\ stage' = "drafted"
    /\ \E t \in Token :
          /\ Coherent(mtp, DraftEntry, Pos - 1, 1, 2) => t = DraftHead(DraftEntry)
          /\ cand' = t
    /\ mtp' = IF mode = "launch1" THEN [mtp EXCEPT ![Pos - 1] = DraftEntry] ELSE mtp
    /\ late' = IF mode = "launch3" THEN <<DraftEntry>> ELSE <<>>
    /\ UNCHANGED <<host, kv, dn, hid, rows, tgt>>

\* The scatter of a separate draft launch reaches memory.
LandDraftWrite ==
    /\ late # <<>>
    /\ mtp' = [mtp EXCEPT ![Pos - 1] = late[1]]
    /\ late' = <<>>
    /\ UNCHANGED <<host, stage, kv, dn, hid, cand, rows, tgt>>

\* V: the block [LastToken, cand] at Pos, Pos + 1 over the live KV and the DeltaNet
\* state, which is only read: the state after each token is a candidate.
VerifyRows ==
    LET seed == IF Coherent(kv, dn, Pos, SpecLen, 1) /\ Len(dn) = Pos
                THEN dn ELSE Junk
    IN  <<Extend(seed, LastToken), Extend(Extend(seed, LastToken), cand)>>

Verify ==
    /\ stage = "drafted"
    /\ stage' = "verified"
    /\ rows' = VerifyRows
    /\ \E t1, t2 \in Token :
          /\ VerifyRows[1] # Junk => t1 = Target(VerifyRows[1])
          /\ VerifyRows[2] # Junk => t2 = Target(VerifyRows[2])
          /\ tgt' = <<t1, t2>>
    /\ kv' = Scatter2(kv, Pos, VerifyRows[1], VerifyRows[2])
    /\ UNCHANGED <<host, mtp, dn, hid, cand, late>>

\* Mutant: both replayed positions take the verify hidden.
ReplayVerifyHidden ==
    Scatter2(mtp, Pos - 1, Extend(rows[1], LastToken), Extend(rows[1], cand))

\* Replay of three launches: T = 2 at [Pos - 1, Pos] with hiddens
\* [rolling, verify_hidden[0]], rewriting the slot D1 wrote.
ReplayBlock == Scatter2(mtp, Pos - 1, DraftEntry, Extend(rows[1], cand))

\* Mutant: D2 writes the slot of D1 instead of the next one.
ReplayOverDraft == [mtp EXCEPT ![Pos - 1] = Extend(rows[1], cand)]

\* D2 of the single launch: T = 1 at Pos only.
ReplayOne == [mtp EXCEPT ![Pos] = Extend(rows[1], cand)]

Replay ==
    /\ stage = "verified"
    /\ stage' = "replayed"
    /\ mtp' = IF mode = "launch1" THEN ReplayOne ELSE ReplayBlock
    /\ UNCHANGED <<host, kv, dn, hid, cand, rows, tgt, late>>

\* Mutant: every draft is accepted.
IndexAlwaysAccepts == 1

\* Accept count: candidates up to the first mismatch with the target.
Index == IF cand = tgt[1] THEN 1 ELSE 0

\* Mutants: the state after the whole block is kept whatever was accepted; the
\* host takes the accepted tokens without the bonus token; it takes the
\* candidate twice.
CommitLastState == rows[2]
CommitNoBonus == SubSeq(tgt, 1, Index)
CommitCandAgain == <<cand>> \o SubSeq(tgt, 1, Index + 1)

\* _commit_deltanet selects with index == 1, the rolling hidden is gathered
\* at index; the host takes the target tokens up to and including index.
CommitState == IF Index = 1 THEN rows[2] ELSE rows[1]
CommitHidden == rows[Index + 1]
CommitTokens == SubSeq(tgt, 1, Index + 1)

Commit ==
    /\ stage = "replayed" /\ late = <<>>
    /\ stage' = "ready"
    /\ out' = out \o CommitTokens
    /\ dn' = CommitState
    /\ hid' = CommitHidden
    /\ cand' = NoToken
    /\ rows' = <<Junk, Junk>>
    /\ tgt' = <<NoToken, NoToken>>
    /\ UNCHANGED <<mode, plen, limit, kv, mtp, late>>

(***************************************************************************)
(* The specification.                                                       *)
(***************************************************************************)
NewRequest ==
    \E prompt \in Prompts, requested \in 1 .. SeqLen : Prefill(prompt, requested)

Round == Draft \/ LandDraftWrite \/ Verify \/ Replay \/ Commit

Next == NewRequest \/ Round \/ Finish

\* Requests come as they please; the host drives a started one to its end.
Fairness == WF_vars(Round \/ Finish)

Spec == Init /\ [][Next]_vars /\ Fairness

(***************************************************************************)
(* Properties.                                                              *)
(***************************************************************************)

\* Types of the state.
TypeOK ==
    /\ mode \in Modes
    /\ stage \in {"idle", "ready", "drafted", "verified", "replayed"}
    /\ out \in Seq(Token)
    /\ plen \in Nat /\ limit \in Nat
    /\ kv \in [Slots -> History \cup {Junk}]
    /\ mtp \in [Slots -> History \cup {Junk}]
    /\ dn \in History \cup {Junk}
    /\ hid \in History \cup {Junk}
    /\ cand \in Token
    /\ rows \in (History \cup {Junk}) \X (History \cup {Junk})
    /\ tgt \in Token \X Token
    /\ late = <<>> \/ late \in {<<h>> : h \in History \cup {Junk}}

\* Speculation is lossless: every generated token is the trunk's greedy
\* choice after all tokens before it, whatever the drafter proposed.
GreedyOutput ==
    \A i \in plen + 1 .. Len(out) : out[i] = Target(SubSeq(out, 1, i - 1))

\* Between rounds the trunk is where sequential decoding would have left it:
\* the DeltaNet state has consumed exactly the tokens below Pos, and every
\* GQA slot the next block attends to was computed from the accepted tokens.
TrunkStateCommitted ==
    stage = "ready" =>
        /\ dn = SubSeq(out, 1, Pos)
        /\ \A j \in Slots : j < Pos => kv[j] = SubSeq(out, 1, j + 1)

\* The self-cleaning invariant of the MTP cache: rejected entries stay behind
\* but every slot the next D1 attends to pairs an accepted token with the
\* trunk hidden before it, and so does the rolling buffer.
DraftStateCommitted ==
    stage = "ready" =>
        /\ hid = SubSeq(out, 1, Pos)
        /\ \A j \in Slots : j < Pos - 1 => mtp[j] = SubSeq(out, 1, j + 2)

\* The drafter never loses accuracy to a stale cache: its token is the MTP
\* head's greedy choice for the tokens the host has received.
DraftUsesCommitted ==
    stage \in {"drafted", "verified", "replayed"} => cand = DraftHead(out)

\* The two launches that write MTP slot t may land in either order: once the
\* replay ran, a D1 write still in flight carries the payload already there.
LateWriteBenign ==
    stage = "replayed" /\ late # <<>> => mtp[Pos - 1] = late[1]

\* The window suffices: a block is only launched when both its slots exist
\* and the mask of the kernels hides no slot of its prior.
BlockFitsWindow ==
    stage = "drafted" =>
        /\ Pos + 1 \in Slots
        /\ Attended(Pos, SpecLen) = 0 .. Pos - 1

\* What the host received is never taken back: only a commit changes the
\* stream of a running request, by one token or two after the old ones.
StreamGrowsByCommit ==
    [][ out' # out /\ stage # "idle" =>
          /\ stage = "replayed"
          /\ Len(out') - Len(out) \in 1 .. SpecLen
          /\ SubSeq(out', 1, Len(out)) = out ]_vars

\* The rounds implement plain greedy decoding: hide everything but the stream.
Promise == INSTANCE GreedyDecode WITH busy <- (stage # "idle")
ImplementsGreedyDecode == Promise!Spec

\* A started request ends: every round delivers, so the budget is reached.
RequestEnds == (stage # "idle") ~> (stage = "idle")

(***************************************************************************)
(* The inductive invariant behind these properties.                         *)
(***************************************************************************)
InRound == stage \in {"drafted", "verified", "replayed"}

\* Lengths: the answer is inside the budget while a round runs, the budget is
\* inside the window, and a commit overshoots it by one token at most.
LengthsInv ==
    stage # "idle" =>
        /\ plen \in 1 .. SeqLen - 1
        /\ limit \in plen + 1 .. SeqLen
        /\ plen < Len(out) /\ Len(out) <= SeqLen + 1
        /\ InRound => Len(out) < limit

\* In every stage, what the next round will read below its own slots.
CachesInv ==
    stage # "idle" =>
        /\ dn = SubSeq(out, 1, Pos) /\ hid = SubSeq(out, 1, Pos)
        /\ \A j \in Slots : j < Pos => kv[j] = SubSeq(out, 1, j + 1)
        /\ \A j \in Slots : j < Pos - 1 => mtp[j] = SubSeq(out, 1, j + 2)

\* What the stages of the running round have left behind so far.
StagesInv ==
    /\ ~InRound => late = <<>>
    /\ InRound =>
          /\ cand = DraftHead(out)
          /\ late = <<>> \/ late = <<out>>
          /\ mode = "launch1" => late = <<>> /\ mtp[Pos - 1] = out
    /\ stage \in {"verified", "replayed"} =>
          /\ rows = <<out, Append(out, cand)>>
          /\ tgt = <<Target(out), Target(Append(out, cand))>>
          /\ kv[Pos] = out /\ kv[Pos + 1] = Append(out, cand)
    /\ stage = "replayed" => mtp[Pos - 1] = out /\ mtp[Pos] = Append(out, cand)

RoundInv == TypeOK /\ LengthsInv /\ GreedyOutput /\ CachesInv /\ StagesInv
=============================================================================
