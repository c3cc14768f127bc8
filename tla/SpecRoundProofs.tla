--------------------------- MODULE SpecRoundProofs ---------------------------
(***************************************************************************)
(* The safety of the speculation round for every vocabulary, window, set of *)
(* prompts, trunk and drafter.                                              *)
(***************************************************************************)
EXTENDS SpecRound, SequenceTheorems, TLAPS

(***************************************************************************)
(* Histories as sequences.                                                  *)
(***************************************************************************)

\* Every history is a sequence of tokens of a length the window allows, and
\* every such sequence is a history.
LEMMA HistoryIsSeq ==
    \A h : h \in History <=> h \in Seq(Token) /\ Len(h) \in 1 .. SeqLen + 1
<1>1. ASSUME NEW h \in History
      PROVE  h \in Seq(Token) /\ Len(h) \in 1 .. SeqLen + 1
    <2>1. PICK n \in 1 .. SeqLen + 1 : h \in [1 .. n -> Token]
        BY DEF History
    <2>2. n \in Nat /\ n >= 1
        BY SeqLenAssumption
    <2>3. h \in Seq(Token) /\ Len(h) = n
        BY <2>1, <2>2
    <2> QED BY <2>1, <2>3
<1>2. ASSUME NEW h \in Seq(Token), Len(h) \in 1 .. SeqLen + 1
      PROVE  h \in History
    <2>1. h \in [1 .. Len(h) -> Token]
        BY <1>2
    <2> QED BY <1>2, <2>1 DEF History
<1> QED BY <1>1, <1>2

\* A nonempty prefix of a stream is a history.
LEMMA PrefixIsHistory ==
    ASSUME NEW s \in Seq(Token), NEW n \in 1 .. Len(s), n <= SeqLen + 1
    PROVE  /\ SubSeq(s, 1, n) \in History
           /\ SubSeq(s, 1, n) \in Seq(Token)
           /\ Len(SubSeq(s, 1, n)) = n
<1>1. \A i \in 1 .. n : s[i] \in Token
    BY ElementOfSeq
<1>2. SubSeq(s, 1, n) \in Seq(Token) /\ Len(SubSeq(s, 1, n)) = n
    BY <1>1, SubSeqProperties
<1>3. n \in 1 .. SeqLen + 1
    BY SeqLenAssumption
<1> QED BY <1>2, <1>3, HistoryIsSeq

\* Appending its last token to a stream without it gives the stream back.
LEMMA LastCompletes ==
    ASSUME NEW s \in Seq(Token), Len(s) > 0
    PROVE  Append(SubSeq(s, 1, Len(s) - 1), s[Len(s)]) = s
<1> DEFINE front == SubSeq(s, 1, Len(s) - 1)
<1>1. Len(s) \in Nat /\ s[Len(s)] \in Token
    BY ElementOfSeq
<1>2. front \in Seq(Token) /\ Len(front) = Len(s) - 1
      /\ \A i \in 1 .. Len(s) - 1 : front[i] = s[i]
    <2>1. \A i \in 1 .. Len(s) - 1 : s[i] \in Token
        BY ElementOfSeq
    <2>2. PICK n \in Nat : n = Len(s) - 1
        BY <1>1
    <2>3. /\ SubSeq(s, 1, n) \in Seq(Token)
          /\ Len(SubSeq(s, 1, n)) = IF 1 <= n THEN n - 1 + 1 ELSE 0
          /\ \A i \in 1 .. n - 1 + 1 : SubSeq(s, 1, n)[i] = s[1 + i - 1]
        BY <2>1, <2>2, SubSeqProperties
    <2>4. n - 1 + 1 = n /\ \A i \in 1 .. n : 1 + i - 1 = i
        BY <2>2
    <2> QED BY <2>2, <2>3, <2>4
<1>3. Append(front, s[Len(s)]) \in Seq(Token)
      /\ Len(Append(front, s[Len(s)])) = Len(s)
      /\ \A i \in 1 .. Len(s) : Append(front, s[Len(s)])[i] = s[i]
    BY <1>1, <1>2, AppendProperties
<1> HIDE DEF front
<1> QED BY <1>1, <1>3, SeqEqual DEF front

\* A prefix of a stream is still its prefix after the stream has grown.
LEMMA PrefixSurvives ==
    ASSUME NEW s \in Seq(Token), NEW t \in Seq(Token), NEW n \in 1 .. Len(s)
    PROVE  SubSeq(s \o t, 1, n) = SubSeq(s, 1, n)
BY SubSeqOfConcat1

(***************************************************************************)
(* Facts of a running request that every action below uses.                 *)
(***************************************************************************)

\* While a round can start or runs, the stream is a history, the rolling
\* hidden extended by the last token is the stream itself, and the block at
\* Pos, Pos + 1 lies inside the window.
LEMMA RunningFacts ==
    ASSUME RoundInv, stage # "idle", Len(out) < limit
    PROVE  /\ out \in Seq(Token) /\ out \in History /\ out # Junk
           /\ Len(out) \in 2 .. SeqLen - 1
           /\ Pos \in Slots /\ Pos + 1 \in Slots /\ Pos - 1 \in Slots
           /\ dn \in History /\ dn # Junk /\ Len(dn) = Pos
           /\ DraftEntry = out
           /\ Extend(dn, LastToken) = out
           /\ LastToken \in Token
           /\ \A t \in Token : Append(out, t) \in History /\ Append(out, t) # Junk
<1> USE SeqLenAssumption, JunkAssumption
<1>1. out \in Seq(Token) /\ Len(out) \in Nat /\ Len(out) \in 2 .. SeqLen - 1
    BY LenProperties DEF RoundInv, TypeOK, LengthsInv
<1>2. out \in History
    BY <1>1, HistoryIsSeq
<1>3. dn = SubSeq(out, 1, Len(out) - 1) /\ hid = SubSeq(out, 1, Len(out) - 1)
    BY DEF RoundInv, CachesInv, Pos
<1>4. dn \in History /\ Len(dn) = Len(out) - 1
    BY <1>1, <1>3, PrefixIsHistory
<1>5. Append(dn, out[Len(out)]) = out /\ out[Len(out)] \in Token
    BY <1>1, <1>3, LastCompletes, ElementOfSeq
<1>6. ASSUME NEW t \in Token
      PROVE  Append(out, t) \in History
    <2> DEFINE longer == Append(out, t)
    <2>1. longer \in Seq(Token) /\ Len(longer) = Len(out) + 1
        BY <1>1, AppendProperties
    <2> HIDE DEF longer
    <2>2. longer \in History
        BY <1>1, <2>1, HistoryIsSeq
    <2> QED BY <2>2 DEF longer
<1>7. Extend(dn, LastToken) = out /\ DraftEntry = out
    BY <1>3, <1>4, <1>5 DEF Extend, DraftEntry, LastToken
<1>8. Pos \in Slots /\ Pos + 1 \in Slots /\ Pos - 1 \in Slots /\ Len(dn) = Pos
    BY <1>1, <1>4 DEF Pos, Slots
<1>9. LastToken \in Token
    BY <1>5 DEF LastToken
<1> QED BY <1>1, <1>2, <1>4, <1>6, <1>7, <1>8, <1>9

\* The mask keeps the whole prior of a draft step, which is committed: the
\* drafter's choice is the MTP head's for the stream.
LEMMA DraftCoherent ==
    ASSUME RoundInv, stage = "ready", Len(out) < limit
    PROVE  Coherent(mtp, DraftEntry, Pos - 1, 1, 2)
<1> USE SeqLenAssumption
<1>1. /\ out \in Seq(Token) /\ Len(out) \in 2 .. SeqLen - 1
      /\ DraftEntry = out /\ out # Junk
    BY RunningFacts
<1>2. Attended(Pos - 1, 1) = 0 .. Pos - 2
    BY <1>1 DEF Attended, Pos, Slots
<1>3. \A j \in 0 .. Pos - 2 : mtp[j] = SubSeq(out, 1, j + 2)
    BY <1>1 DEF RoundInv, CachesInv, Pos, Slots
<1> QED BY <1>1, <1>2, <1>3 DEF Coherent, Pos

\* The same for the verify block: it reads the committed prior, seeds the
\* DeltaNet with the committed state, and so extends the stream.
LEMMA VerifyCoherent ==
    ASSUME RoundInv, stage = "drafted"
    PROVE  VerifyRows = <<out, Append(out, cand)>>
<1> USE SeqLenAssumption
<1>0. Len(out) < limit /\ cand \in Token
    BY DEF RoundInv, LengthsInv, InRound, TypeOK
<1>1. /\ out \in Seq(Token) /\ Len(out) \in 2 .. SeqLen - 1 /\ out # Junk
      /\ Len(dn) = Pos /\ dn # Junk /\ Extend(dn, LastToken) = out
    BY <1>0, RunningFacts
<1>2. Attended(Pos, SpecLen) = 0 .. Pos - 1
    BY <1>1 DEF Attended, Pos, Slots, SpecLen
<1>3. ASSUME NEW j \in 0 .. Pos - 1
      PROVE  kv[j] = SubSeq(dn, 1, j + 1)
    <2>1. j \in Slots /\ j < Pos /\ j + 1 \in 1 .. Pos /\ Pos \in 1 .. Len(out)
        BY <1>1 DEF Pos, Slots
    <2>2. kv[j] = SubSeq(out, 1, j + 1) /\ dn = SubSeq(out, 1, Pos)
        BY <2>1 DEF RoundInv, CachesInv
    <2>3. SubSeq(SubSeq(out, 1, Pos), 1, j + 1) = SubSeq(out, 1, j + 1)
        BY <1>1, <2>1, SubSeqOfSubSeq
    <2> QED BY <2>2, <2>3
<1>4. Coherent(kv, dn, Pos, SpecLen, 1)
    BY <1>1, <1>2, <1>3 DEF Coherent
<1> QED BY <1>1, <1>4 DEF VerifyRows, Extend

(***************************************************************************)
(* The initial state and each action keep the inductive invariant.          *)
(***************************************************************************)

\* The invariant holds before the first request.
LEMMA InitEstablishes == Init => RoundInv
<1> SUFFICES ASSUME Init PROVE RoundInv
    OBVIOUS
<1>1. NoToken \in Token
    BY TokenAssumption DEF NoToken
<1>2. <<>> \in Seq(Token) /\ Len(<<>>) = 0
    BY EmptySeq
<1>3. TypeOK
    BY <1>1, <1>2 DEF Init, TypeOK
<1>4. LengthsInv /\ CachesInv /\ StagesInv
    BY DEF Init, LengthsInv, CachesInv, StagesInv, InRound
<1>5. GreedyOutput
    BY <1>2 DEF Init, GreedyOutput
<1> QED BY <1>3, <1>4, <1>5 DEF RoundInv

\* Context encoding starts a request whose caches hold its prompt.
LEMMA PrefillKeeps ==
    ASSUME RoundInv, NEW prompt \in Prompts, NEW requested \in 1 .. SeqLen,
           Prefill(prompt, requested)
    PROVE  RoundInv'
<1> USE SeqLenAssumption
<1> DEFINE n == Len(prompt)
           next == Target(prompt)
<1>1. prompt \in Seq(Token) /\ n \in Nat /\ n \in 1 .. SeqLen - 1
    <2>1. PICK k \in MinPrompt .. SeqLen - 1 : prompt \in [1 .. k -> Token]
        BY PromptsAssumption
    <2>2. k \in Nat /\ k \in 1 .. SeqLen - 1
        BY DEF MinPrompt
    <2>3. prompt \in Seq(Token) /\ Len(prompt) = k
        BY <2>1, <2>2
    <2> QED BY <2>2, <2>3
<1>2. prompt \in History /\ next \in Token
    BY <1>1, HistoryIsSeq, TargetAssumption
<1>3. out' = prompt \o <<next>> /\ <<next>> \in Seq(Token) /\ Len(<<next>>) = 1
    BY <1>1, <1>2, AppendIsConcat DEF Prefill
<1>4. /\ out' \in Seq(Token) /\ Len(out') = n + 1
      /\ out'[n + 1] = next
    BY <1>1, <1>2, AppendProperties DEF Prefill
<1>5. ASSUME NEW k \in 1 .. n
      PROVE  SubSeq(out', 1, k) = SubSeq(prompt, 1, k)
             /\ SubSeq(prompt, 1, k) \in History
    BY <1>1, <1>3, PrefixSurvives, PrefixIsHistory
<1>6. SubSeq(out', 1, n) = prompt
    BY <1>1, <1>5, SubSeqFull
<1>7. limit' \in n + 1 .. SeqLen /\ plen' = n
    BY <1>1 DEF Prefill, ResolveMaxNewTokens, Min2
<1> HIDE DEF n, next
<1>8. TypeOK'
    <2>1. kv' \in [Slots -> History \cup {Junk}]
        BY <1>1, <1>5 DEF Prefill, PrefilledTrunk, Slots, n
    <2>2. mtp' \in [Slots -> History \cup {Junk}]
        BY <1>1, <1>5 DEF Prefill, PrefilledMtp, Slots, n
    <2>3. dn' \in History /\ hid' \in History /\ plen' \in Nat /\ limit' \in Nat
        BY <1>1, <1>2, <1>7 DEF Prefill
    <2> QED BY <1>4, <2>1, <2>2, <2>3 DEF Prefill, RoundInv, TypeOK
<1>9. LengthsInv'
    BY <1>1, <1>4, <1>7 DEF Prefill, LengthsInv, InRound
<1>10. GreedyOutput'
    <2>1. ASSUME NEW i \in plen' + 1 .. Len(out')
          PROVE  out'[i] = Target(SubSeq(out', 1, i - 1))
        <3>1. i = n + 1 /\ i - 1 = n
            BY <1>1, <1>4, <1>7
        <3> QED BY <1>4, <1>6, <3>1 DEF next
    <2> QED BY <2>1 DEF GreedyOutput
<1>11. CachesInv'
    <2>1. Pos' = n
        BY <1>1, <1>4 DEF Pos
    <2>2. dn' = SubSeq(out', 1, Pos') /\ hid' = SubSeq(out', 1, Pos')
        BY <1>6, <2>1 DEF Prefill
    <2>3. ASSUME NEW j \in Slots, j < Pos'
          PROVE  kv'[j] = SubSeq(out', 1, j + 1)
        BY <1>1, <1>5, <2>1, <2>3 DEF Prefill, PrefilledTrunk, Slots, n
    <2>4. ASSUME NEW j \in Slots, j < Pos' - 1
          PROVE  mtp'[j] = SubSeq(out', 1, j + 2)
        BY <1>1, <1>5, <2>1, <2>4 DEF Prefill, PrefilledMtp, Slots, n
    <2> QED BY <2>2, <2>3, <2>4 DEF CachesInv
<1>12. StagesInv'
    <2>1. stage' = "ready" /\ late' = <<>>
        BY DEF Prefill, RoundInv, StagesInv, InRound
    <2> QED BY <2>1 DEF StagesInv, InRound
<1> QED BY <1>8, <1>9, <1>10, <1>11, <1>12 DEF RoundInv

\* D1 drafts from committed state and at most writes the slot below Pos.
LEMMA DraftKeeps == ASSUME RoundInv, Draft PROVE RoundInv'
<1> USE SeqLenAssumption
<1>1. stage = "ready" /\ stage' = "drafted" /\ Len(out) < limit
    BY DEF Draft, Stopped, RoundInv, TypeOK, LengthsInv
<1>2. /\ out \in Seq(Token) /\ out \in History /\ DraftEntry = out
      /\ Len(out) \in 2 .. SeqLen - 1 /\ Pos - 1 \in Slots
    BY <1>1, RunningFacts
<1>3. cand' = DraftHead(out) /\ cand' \in Token
    BY <1>1, <1>2, DraftCoherent DEF Draft
<1>4. /\ late' = <<>> \/ late' = <<out>>
      /\ mode = "launch1" => late' = <<>> /\ mtp'[Pos - 1] = out
      /\ mtp' \in [Slots -> History \cup {Junk}]
      /\ \A j \in Slots : j < Pos - 1 => mtp'[j] = mtp[j]
    BY <1>2 DEF Draft, RoundInv, TypeOK, Pos
<1>5. TypeOK'
    BY <1>1, <1>2, <1>3, <1>4 DEF Draft, host, RoundInv, TypeOK
<1>6. LengthsInv' /\ GreedyOutput'
    BY <1>1 DEF Draft, host, RoundInv, LengthsInv, GreedyOutput, InRound
<1>7. CachesInv'
    BY <1>1, <1>4 DEF Draft, host, RoundInv, CachesInv, Pos
<1>8. StagesInv'
    BY <1>1, <1>3, <1>4 DEF Draft, host, StagesInv, InRound, Pos
<1> QED BY <1>5, <1>6, <1>7, <1>8 DEF RoundInv

\* A D1 write that lands late stores the stream, which changes no slot the
\* invariant speaks of except the one it makes right.
LEMMA LandKeeps == ASSUME RoundInv, LandDraftWrite PROVE RoundInv'
<1> USE SeqLenAssumption
<1>1. InRound /\ late = <<out>> /\ mode # "launch1" /\ stage' = stage
    BY DEF LandDraftWrite, RoundInv, StagesInv
<1>2. stage # "idle" /\ Len(out) < limit
    BY <1>1 DEF InRound, RoundInv, LengthsInv
<1>3. out \in History /\ Len(out) \in 2 .. SeqLen - 1 /\ Pos - 1 \in Slots
    BY <1>2, RunningFacts
<1>4. /\ mtp' = [mtp EXCEPT ![Pos - 1] = out]
      /\ mtp \in [Slots -> History \cup {Junk}]
    BY <1>1 DEF LandDraftWrite, RoundInv, TypeOK
<1>5. /\ mtp' \in [Slots -> History \cup {Junk}]
      /\ mtp'[Pos - 1] = out
      /\ \A j \in Slots : j # Pos - 1 => mtp'[j] = mtp[j]
    BY <1>3, <1>4
<1>6. TypeOK'
    BY <1>5 DEF LandDraftWrite, host, RoundInv, TypeOK
<1>7. LengthsInv' /\ GreedyOutput'
    BY DEF LandDraftWrite, host, RoundInv, LengthsInv, GreedyOutput, InRound
<1>8. CachesInv'
    BY <1>3, <1>5 DEF LandDraftWrite, host, RoundInv, CachesInv, Pos
<1>9. StagesInv'
    <2>1. stage = "replayed" => mtp'[Pos] = mtp[Pos]
        BY <1>2, <1>5, RunningFacts DEF Pos
    <2> QED BY <1>1, <1>5, <2>1 DEF LandDraftWrite, host, RoundInv, StagesInv, InRound, Pos
<1> QED BY <1>6, <1>7, <1>8, <1>9 DEF RoundInv

\* The verify block fills the two slots at and after Pos from the stream.
LEMMA VerifyKeeps == ASSUME RoundInv, Verify PROVE RoundInv'
<1> USE SeqLenAssumption
<1>1. stage = "drafted" /\ stage' = "verified" /\ InRound /\ Len(out) < limit
    BY DEF Verify, InRound, RoundInv, LengthsInv
<1>2. /\ out \in History /\ out # Junk /\ Len(out) \in 2 .. SeqLen - 1
      /\ Pos \in Slots /\ Pos + 1 \in Slots
      /\ Append(out, cand) \in History /\ Append(out, cand) # Junk
    BY <1>1, RunningFacts DEF RoundInv, TypeOK
<1>3. VerifyRows = <<out, Append(out, cand)>>
    BY <1>1, VerifyCoherent
<1>4. rows' = <<out, Append(out, cand)>>
    BY <1>3 DEF Verify
<1>5. /\ tgt' = <<Target(out), Target(Append(out, cand))>>
      /\ tgt' \in Token \X Token
    BY <1>2, <1>3, TargetAssumption DEF Verify
<1>6. kv' = Scatter2(kv, Pos, out, Append(out, cand))
    BY <1>3 DEF Verify
<1>7. /\ kv' \in [Slots -> History \cup {Junk}]
      /\ kv'[Pos] = out /\ kv'[Pos + 1] = Append(out, cand)
      /\ \A j \in Slots : j < Pos => kv'[j] = kv[j]
    <2>1. Pos \in Int
        BY <1>2 DEF Pos
    <2> QED BY <1>2, <1>6, <2>1 DEF Scatter2, RoundInv, TypeOK, Slots
<1>8. TypeOK'
    <2>1. rows' \in (History \cup {Junk}) \X (History \cup {Junk})
        BY <1>2, <1>4
    <2> QED BY <1>1, <1>5, <1>7, <2>1 DEF Verify, host, RoundInv, TypeOK
<1>9. LengthsInv' /\ GreedyOutput'
    BY <1>1 DEF Verify, host, RoundInv, LengthsInv, GreedyOutput, InRound
<1>10. CachesInv'
    BY <1>1, <1>7 DEF Verify, host, RoundInv, CachesInv, Pos
<1>11. StagesInv'
    <2>1. out' = out /\ cand' = cand /\ Pos' = Pos /\ mtp' = mtp /\ late' = late /\ mode' = mode
        BY DEF Verify, host, Pos
    <2> QED BY <1>1, <1>4, <1>5, <1>7, <2>1 DEF RoundInv, StagesInv, InRound
<1> QED BY <1>8, <1>9, <1>10, <1>11 DEF RoundInv

\* Either replay leaves the stream below Pos and the drafted pair at Pos.
LEMMA ReplayKeeps == ASSUME RoundInv, Replay PROVE RoundInv'
<1> USE SeqLenAssumption
<1>1. stage = "verified" /\ stage' = "replayed" /\ InRound /\ Len(out) < limit
    BY DEF Replay, InRound, RoundInv, LengthsInv
<1>2. /\ out \in History /\ out # Junk /\ Len(out) \in 2 .. SeqLen - 1
      /\ Pos \in Slots /\ Pos - 1 \in Slots /\ DraftEntry = out
      /\ Append(out, cand) \in History
    BY <1>1, RunningFacts DEF RoundInv, TypeOK
<1>3. Extend(rows[1], cand) = Append(out, cand)
    BY <1>1, <1>2 DEF RoundInv, StagesInv, Extend
<1>4. /\ mtp' \in [Slots -> History \cup {Junk}]
      /\ mtp'[Pos - 1] = out /\ mtp'[Pos] = Append(out, cand)
      /\ \A j \in Slots : j < Pos - 1 => mtp'[j] = mtp[j]
    <2>1. Pos \in Int /\ mtp \in [Slots -> History \cup {Junk}]
        BY <1>2 DEF Pos, RoundInv, TypeOK
    <2>2. CASE mode = "launch1"
        <3>1. mtp' = [mtp EXCEPT ![Pos] = Append(out, cand)] /\ mtp[Pos - 1] = out
            BY <1>1, <1>3, <2>2 DEF Replay, ReplayOne, RoundInv, StagesInv
        <3> QED BY <1>2, <2>1, <3>1 DEF Slots
    <2>3. CASE mode # "launch1"
        <3>1. mtp' = Scatter2(mtp, Pos - 1, out, Append(out, cand))
            BY <1>2, <1>3, <2>3 DEF Replay, ReplayBlock
        <3> QED BY <1>2, <2>1, <3>1 DEF Scatter2, Slots
    <2> QED BY <2>2, <2>3
<1>5. TypeOK'
    BY <1>4 DEF Replay, host, RoundInv, TypeOK
<1>6. LengthsInv' /\ GreedyOutput'
    BY <1>1 DEF Replay, host, RoundInv, LengthsInv, GreedyOutput, InRound
<1>7. CachesInv'
    BY <1>1, <1>4 DEF Replay, host, RoundInv, CachesInv, Pos
<1>8. StagesInv'
    <2>1. /\ out' = out /\ cand' = cand /\ Pos' = Pos /\ rows' = rows /\ tgt' = tgt
          /\ kv' = kv /\ late' = late /\ mode' = mode
        BY DEF Replay, host, Pos
    <2> QED BY <1>1, <1>4, <2>1 DEF RoundInv, StagesInv, InRound
<1> QED BY <1>5, <1>6, <1>7, <1>8 DEF RoundInv

\* A place of a longer sequence that is not its last is one of the shorter.
LEMMA NotLast ==
    ASSUME NEW n \in Nat, NEW from \in Nat, 0 < from,
           NEW i \in from + 1 .. n + 1, i # n + 1
    PROVE  i \in from + 1 .. n /\ i \in 1 .. n /\ i - 1 \in 1 .. n
OBVIOUS

\* Greedy continuation: appending the target token of a stream, or of the
\* stream and an accepted candidate, keeps every generated token greedy.
LEMMA GreedyGrows ==
    ASSUME NEW s \in Seq(Token), NEW t \in Token, NEW from \in Nat,
           \A i \in from + 1 .. Len(s) : s[i] = Target(SubSeq(s, 1, i - 1)),
           0 < from, from < Len(s),
           t = Target(s)
    PROVE  \A i \in from + 1 .. Len(Append(s, t)) :
               Append(s, t)[i] = Target(SubSeq(Append(s, t), 1, i - 1))
<1> DEFINE r == Append(s, t)
<1>1. /\ r \in Seq(Token) /\ Len(r) = Len(s) + 1 /\ Len(s) \in Nat
      /\ \A i \in 1 .. Len(s) : r[i] = s[i]
      /\ r[Len(s) + 1] = t
    BY AppendProperties, LenProperties
<1>2. r = s \o <<t>> /\ <<t>> \in Seq(Token)
    BY AppendIsConcat
<1>3. \A k \in 1 .. Len(s) : SubSeq(r, 1, k) = SubSeq(s, 1, k)
    BY <1>2, PrefixSurvives
<1>4. SubSeq(r, 1, Len(s)) = s
    BY <1>1, <1>3, SubSeqFull
<1> HIDE DEF r
<1>len. Len(r) = Len(s) + 1 /\ Len(s) \in Nat
    BY <1>1
<1>5. ASSUME NEW i \in from + 1 .. Len(r)
      PROVE  r[i] = Target(SubSeq(r, 1, i - 1))
    <2>1. CASE i = Len(s) + 1
        <3>1. i - 1 = Len(s)
            BY <1>1, <2>1
        <3> QED BY <1>1, <1>4, <2>1, <3>1
    <2>2. CASE i # Len(s) + 1
        <3>1. i \in from + 1 .. Len(s) + 1
            BY <1>len, Zenon
        <3>2. i \in from + 1 .. Len(s) /\ i \in 1 .. Len(s) /\ i - 1 \in 1 .. Len(s)
            BY <1>len, <2>2, <3>1, NotLast
        <3> QED BY <1>1, <1>3, <3>2
    <2> QED BY <2>1, <2>2
<1> QED BY <1>5 DEF r

\* What a commit appends: the target token of the stream, and after an
\* accepted candidate the target token behind it.
LEMMA CommitExtends ==
    ASSUME RoundInv, Commit
    PROVE  \/ /\ Index = 0
              /\ out' = Append(out, Target(out))
              /\ dn' = out /\ hid' = out
           \/ /\ Index = 1 /\ cand = Target(out)
              /\ out' = Append(Append(out, cand), Target(Append(out, cand)))
              /\ dn' = Append(out, cand) /\ hid' = Append(out, cand)
<1>1. /\ stage = "replayed" /\ Len(out) < limit /\ cand \in Token
      /\ rows = <<out, Append(out, cand)>>
      /\ tgt = <<Target(out), Target(Append(out, cand))>>
    BY DEF Commit, RoundInv, StagesInv, LengthsInv, InRound, TypeOK
<1>2. /\ out \in Seq(Token) /\ out \in History
      /\ Append(out, cand) \in History /\ Append(out, cand) \in Seq(Token)
    BY <1>1, RunningFacts, AppendProperties
<1>3. Target(out) \in Token /\ Target(Append(out, cand)) \in Token
    BY <1>2, TargetAssumption
<1>4. CASE cand = tgt[1]
    <2>1. CommitTokens = <<Target(out), Target(Append(out, cand))>>
        <3>1. tgt \in Seq(Token) /\ Len(tgt) = 2 /\ Index + 1 = 2
            BY <1>1, <1>3, <1>4 DEF Index
        <3>2. SubSeq(tgt, 1, 2) = tgt
            BY <3>1, SubSeqFull
        <3> QED BY <1>1, <3>1, <3>2 DEF CommitTokens
    <2>2. <<Target(out), Target(Append(out, cand))>>
             = <<Target(out)>> \o <<Target(Append(out, cand))>>
        BY <1>3
    <2>3. out \o (<<Target(out)>> \o <<Target(Append(out, cand))>>)
             = (out \o <<Target(out)>>) \o <<Target(Append(out, cand))>>
        <3>1. <<Target(out)>> \in Seq(Token) /\ <<Target(Append(out, cand))>> \in Seq(Token)
            BY <1>3
        <3> QED BY <1>2, <3>1, ConcatAssociative
    <2>4. out' = Append(Append(out, cand), Target(Append(out, cand)))
        <3>1. out \o <<Target(out)>> = Append(out, cand)
            BY <1>1, <1>2, <1>4, AppendIsConcat
        <3>2. Append(out, cand) \o <<Target(Append(out, cand))>>
                = Append(Append(out, cand), Target(Append(out, cand)))
            BY <1>2, <1>3, AppendIsConcat
        <3> QED BY <2>1, <2>2, <2>3, <3>1, <3>2 DEF Commit
    <2> QED BY <1>1, <1>4, <2>4 DEF Commit, Index, CommitState, CommitHidden
<1>5. CASE cand # tgt[1]
    <2>1. CommitTokens = <<Target(out)>>
        <3>1. tgt \in Seq(Token) /\ Len(tgt) = 2 /\ Index + 1 = 1
            BY <1>1, <1>3, <1>5 DEF Index
        <3>2. \A i \in 1 .. 1 : tgt[i] \in Token
            BY <1>1, <1>3
        <3>3. /\ SubSeq(tgt, 1, 1) \in Seq(Token) /\ Len(SubSeq(tgt, 1, 1)) = 1
              /\ SubSeq(tgt, 1, 1)[1] = tgt[1]
            BY <3>2, SubSeqProperties
        <3>4. \A i \in 1 .. Len(SubSeq(tgt, 1, 1)) : SubSeq(tgt, 1, 1)[i] = <<tgt[1]>>[i]
            BY <3>3
        <3>5. <<tgt[1]>> \in Seq(Token) /\ Len(<<tgt[1]>>) = 1
            BY <3>2
        <3>6. SubSeq(tgt, 1, 1) = <<tgt[1]>>
            BY <3>3, <3>4, <3>5, SeqEqual
        <3> QED BY <1>1, <3>1, <3>6 DEF CommitTokens
    <2>2. out' = Append(out, Target(out))
        BY <1>2, <1>3, <2>1, AppendIsConcat DEF Commit
    <2> QED BY <1>1, <1>5, <2>2 DEF Commit, Index, CommitState, CommitHidden
<1> QED BY <1>4, <1>5

\* A commit moves the stream past the accepted tokens, and the caches already
\* hold what the new prior is.
LEMMA CommitKeeps == ASSUME RoundInv, Commit PROVE RoundInv'
<1> USE SeqLenAssumption
<1> DEFINE L == Len(out)
           first == Target(out)
           once == Append(out, first)
           second == Target(once)
           twice == Append(once, second)
<1>1. /\ stage = "replayed" /\ stage' = "ready" /\ late' = <<>> /\ L < limit
      /\ kv[Pos] = out /\ kv[Pos + 1] = Append(out, cand)
      /\ mtp[Pos - 1] = out /\ mtp[Pos] = Append(out, cand)
      /\ plen \in 1 .. SeqLen - 1 /\ plen < L /\ limit <= SeqLen
      /\ limit \in plen + 1 .. SeqLen
      /\ GreedyOutput /\ CachesInv /\ TypeOK
    BY DEF Commit, RoundInv, StagesInv, LengthsInv, InRound
<1>2. /\ out \in Seq(Token) /\ out \in History /\ L \in 2 .. SeqLen - 1
      /\ \A t \in Token : Append(out, t) \in History
    BY <1>1, RunningFacts
<1>3. first \in Token /\ once \in History /\ once \in Seq(Token)
      /\ second \in Token /\ twice \in Seq(Token)
      /\ Len(once) = L + 1 /\ Len(twice) = L + 2
    BY <1>2, TargetAssumption, AppendProperties
<1>4. \A i \in plen + 1 .. Len(once) : once[i] = Target(SubSeq(once, 1, i - 1))
    <2>1. \A i \in plen + 1 .. Len(out) : out[i] = Target(SubSeq(out, 1, i - 1))
        BY <1>1 DEF GreedyOutput
    <2>2. plen \in Nat /\ 0 < plen /\ plen < Len(out)
        BY <1>1
    <2> QED BY <1>2, <1>3, <2>1, <2>2, GreedyGrows
<1>5. \A i \in plen + 1 .. Len(twice) : twice[i] = Target(SubSeq(twice, 1, i - 1))
    <2>1. plen \in Nat /\ 0 < plen /\ plen < Len(once)
        BY <1>1, <1>2, <1>3
    <2>2. second = Target(once)
        OBVIOUS
    <2> HIDE DEF once, second
    <2> QED BY <1>3, <1>4, <2>1, <2>2, GreedyGrows DEF twice
<1>6. /\ \A k \in 1 .. L : SubSeq(once, 1, k) = SubSeq(out, 1, k)
      /\ \A k \in 1 .. L + 1 : SubSeq(twice, 1, k) = SubSeq(once, 1, k)
      /\ SubSeq(once, 1, L) = out /\ SubSeq(twice, 1, L + 1) = once
    <2>1. once = out \o <<first>> /\ twice = once \o <<second>>
          /\ <<first>> \in Seq(Token) /\ <<second>> \in Seq(Token)
        BY <1>2, <1>3, AppendIsConcat
    <2>2. SubSeq(out, 1, L) = out /\ SubSeq(once, 1, L + 1) = once
        BY <1>2, <1>3, SubSeqFull
    <2>3. /\ \A k \in 1 .. L : SubSeq(once, 1, k) = SubSeq(out, 1, k)
          /\ \A k \in 1 .. L + 1 : SubSeq(twice, 1, k) = SubSeq(once, 1, k)
        BY <1>2, <1>3, <2>1, PrefixSurvives
    <2> QED BY <1>2, <2>2, <2>3
<1>7. /\ \A j \in Slots : j < L - 1 => kv'[j] = SubSeq(out, 1, j + 1)
      /\ \A j \in Slots : j < L - 2 => mtp'[j] = SubSeq(out, 1, j + 2)
      /\ kv'[L - 1] = out /\ kv'[L] = Append(out, cand)
      /\ mtp'[L - 2] = out /\ mtp'[L - 1] = Append(out, cand)
    BY <1>1, <1>2 DEF Commit, CachesInv, Pos
<1> HIDE DEF L, first, once, second, twice
<1>8. \/ out' = once /\ dn' = out /\ hid' = out
      \/ out' = twice /\ dn' = once /\ hid' = once /\ Append(out, cand) = once
    BY CommitExtends DEF first, once, second, twice
<1>9. TypeOK'
    <2>1. NoToken \in Token
        BY TokenAssumption DEF NoToken
    <2> QED BY <1>1, <1>2, <1>3, <1>8, <2>1 DEF Commit, TypeOK
<1>10. LengthsInv' /\ StagesInv' /\ GreedyOutput'
    <2>1. plen' = plen /\ limit' = limit
        BY DEF Commit
    <2>2. LengthsInv' /\ StagesInv'
        BY <1>1, <1>2, <1>3, <1>8, <2>1 DEF LengthsInv, StagesInv, InRound
    <2>3. GreedyOutput'
        BY <1>4, <1>5, <1>8, <2>1 DEF GreedyOutput
    <2> QED BY <2>2, <2>3
<1>11. CachesInv'
    <2>1. CASE out' = once /\ dn' = out /\ hid' = out
        <3>1. Pos' = L /\ SubSeq(out', 1, Pos') = out
            BY <1>2, <1>3, <1>6, <2>1 DEF Pos
        <3>2. ASSUME NEW j \in Slots, j < Pos' PROVE kv'[j] = SubSeq(out', 1, j + 1)
            BY <1>2, <1>6, <1>7, <2>1, <3>1, <3>2 DEF Slots
        <3>3. ASSUME NEW j \in Slots, j < Pos' - 1 PROVE mtp'[j] = SubSeq(out', 1, j + 2)
            BY <1>2, <1>6, <1>7, <2>1, <3>1, <3>3 DEF Slots
        <3> QED BY <2>1, <3>1, <3>2, <3>3 DEF CachesInv
    <2>2. CASE out' = twice /\ dn' = once /\ hid' = once /\ Append(out, cand) = once
        <3>1. Pos' = L + 1 /\ SubSeq(out', 1, Pos') = once
            BY <1>2, <1>3, <1>6, <2>2 DEF Pos
        <3>2. ASSUME NEW j \in Slots, j < Pos' PROVE kv'[j] = SubSeq(out', 1, j + 1)
            <4>1. CASE j = L
                BY <1>2, <1>6, <1>7, <2>2, <4>1
            <4>2. CASE j < L
                BY <1>2, <1>6, <1>7, <2>2, <4>2 DEF Slots
            <4> QED BY <1>2, <3>1, <3>2, <4>1, <4>2 DEF Slots
        <3>3. ASSUME NEW j \in Slots, j < Pos' - 1 PROVE mtp'[j] = SubSeq(out', 1, j + 2)
            <4>1. CASE j = L - 1
                BY <1>2, <1>6, <1>7, <2>2, <4>1
            <4>2. CASE j < L - 1
                BY <1>2, <1>6, <1>7, <2>2, <4>2 DEF Slots
            <4> QED BY <1>2, <3>1, <3>3, <4>1, <4>2 DEF Slots
        <3> QED BY <2>2, <3>1, <3>2, <3>3 DEF CachesInv
    <2> QED BY <1>8, <2>1, <2>2
<1> QED BY <1>9, <1>10, <1>11 DEF RoundInv

\* Ending a request leaves every cache as it is.
LEMMA FinishKeeps == ASSUME RoundInv, Finish PROVE RoundInv'
<1>1. stage = "ready" /\ stage' = "idle" /\ late' = <<>>
    BY DEF Finish, RoundInv, StagesInv, InRound
<1>2. TypeOK' /\ GreedyOutput'
    BY <1>1 DEF Finish, host, RoundInv, TypeOK, GreedyOutput
<1>3. LengthsInv' /\ CachesInv' /\ StagesInv'
    BY <1>1 DEF LengthsInv, CachesInv, StagesInv, InRound
<1> QED BY <1>2, <1>3 DEF RoundInv

\* Every step keeps the inductive invariant.
LEMMA StepKeeps == RoundInv /\ [Next]_vars => RoundInv'
<1> SUFFICES ASSUME RoundInv, [Next]_vars PROVE RoundInv'
    OBVIOUS
<1>1. CASE NewRequest
    BY <1>1, PrefillKeeps DEF NewRequest
<1>2. CASE Draft
    BY <1>2, DraftKeeps
<1>3. CASE LandDraftWrite
    BY <1>3, LandKeeps
<1>4. CASE Verify
    BY <1>4, VerifyKeeps
<1>5. CASE Replay
    BY <1>5, ReplayKeeps
<1>6. CASE Commit
    BY <1>6, CommitKeeps
<1>7. CASE Finish
    BY <1>7, FinishKeeps
<1>8. CASE UNCHANGED vars
    BY <1>8 DEF vars, RoundInv, TypeOK, LengthsInv, GreedyOutput, CachesInv,
        StagesInv, InRound, Pos
<1> QED BY <1>1, <1>2, <1>3, <1>4, <1>5, <1>6, <1>7, <1>8 DEF Next, Round

(***************************************************************************)
(* The theorems.                                                            *)
(***************************************************************************)

\* The inductive invariant is an invariant.
THEOREM RoundInvariant == Spec => []RoundInv
<1> QED BY InitEstablishes, StepKeeps, PTL DEF Spec

\* Type correctness.
THEOREM TypeCorrect == Spec => []TypeOK
<1>1. RoundInv => TypeOK
    BY DEF RoundInv
<1> QED BY <1>1, RoundInvariant, PTL

\* Speculation is lossless (_round_epilogue's accept, _commit_deltanet): the
\* stream is the trunk's greedy decoding for every trunk and every drafter.
THEOREM Lossless == Spec => []GreedyOutput
<1>1. RoundInv => GreedyOutput
    BY DEF RoundInv
<1> QED BY <1>1, RoundInvariant, PTL

\* Between rounds the DeltaNet state and the KV cache of the trunk are those
\* of the accepted tokens: the commit keeps exactly the candidate it accepted.
THEOREM TrunkCommitted == Spec => []TrunkStateCommitted
<1>1. RoundInv => TrunkStateCommitted
    BY DEF RoundInv, CachesInv, TrunkStateCommitted
<1> QED BY <1>1, RoundInvariant, PTL

\* Between rounds the drafter's state is that of the accepted tokens, so its
\* proposals are never made from a stale entry.
THEOREM DrafterCommitted == Spec => [](DraftStateCommitted /\ DraftUsesCommitted)
<1>1. RoundInv => DraftStateCommitted
    BY DEF RoundInv, CachesInv, DraftStateCommitted
<1>2. RoundInv => DraftUsesCommitted
    BY DEF RoundInv, StagesInv, InRound, DraftUsesCommitted
<1> QED BY <1>1, <1>2, RoundInvariant, PTL

\* The order of the two in-place writes to an MTP slot does not matter.
THEOREM AnyWriteOrder == Spec => []LateWriteBenign
<1>1. RoundInv => LateWriteBenign
    BY DEF RoundInv, StagesInv, InRound, LateWriteBenign
<1> QED BY <1>1, RoundInvariant, PTL

\* The budget of resolve_max_new_tokens keeps every block inside the window
\* and inside the prior the kernel mask leaves.
THEOREM WindowSuffices == Spec => []BlockFitsWindow
<1>1. RoundInv => BlockFitsWindow
    <2> SUFFICES ASSUME RoundInv, stage = "drafted"
                 PROVE  Pos + 1 \in Slots /\ Attended(Pos, SpecLen) = 0 .. Pos - 1
        BY DEF BlockFitsWindow
    <2>1. Len(out) < limit
        BY DEF RoundInv, LengthsInv, InRound
    <2>2. Len(out) \in 2 .. SeqLen - 1 /\ Pos + 1 \in Slots
        BY <2>1, RunningFacts
    <2>3. Attended(Pos, SpecLen) = 0 .. Pos - 1
        BY <2>2, SeqLenAssumption DEF Attended, Pos, Slots, SpecLen
    <2> QED BY <2>2, <2>3
<1> QED BY <1>1, RoundInvariant, PTL

\* One more greedy token, or two, on a received stream.
LEMMA CommitDelivers ==
    ASSUME RoundInv, Commit
    PROVE  /\ Len(out) \in Nat /\ Len(out') - Len(out) \in 1 .. SpecLen
           /\ SubSeq(out', 1, Len(out)) = out
           /\ \A i \in Len(out) + 1 .. Len(out') : out'[i] = Target(SubSeq(out', 1, i - 1))
<1>1. /\ out \in Seq(Token) /\ Len(out) \in Nat /\ cand \in Token
      /\ plen \in Nat /\ 0 < plen /\ plen < Len(out) /\ plen' = plen
    <2>1. stage = "replayed" /\ plen \in Nat /\ 0 < plen /\ plen < Len(out) /\ plen' = plen
        BY DEF Commit, RoundInv, LengthsInv
    <2> QED BY <2>1, RunningFacts DEF RoundInv, TypeOK
<1>2. RoundInv'
    BY CommitKeeps
<1>3. \A i \in plen + 1 .. Len(out') : out'[i] = Target(SubSeq(out', 1, i - 1))
    BY <1>1, <1>2 DEF RoundInv, GreedyOutput
<1>4. PICK s \in Seq(Token) : out' = out \o s /\ Len(s) \in 1 .. SpecLen
    <2>1. tgt \in Token \X Token /\ Index \in 0 .. 1
        BY DEF RoundInv, TypeOK, Index
    <2>2. \A i \in 1 .. Index + 1 : tgt[i] \in Token
        BY <2>1
    <2>3. CommitTokens \in Seq(Token) /\ Len(CommitTokens) = Index + 1
        <3> DEFINE k == Index + 1
        <3>1. 1 \in Int /\ k \in Int /\ 1 <= k + 1 /\ k - 1 + 1 = k
            BY <2>1
        <3> QED BY <2>1, <2>2, <3>1, SubSeqProperties DEF CommitTokens
    <2>4. Len(CommitTokens) \in 1 .. SpecLen /\ out' = out \o CommitTokens
        BY <2>1, <2>3 DEF SpecLen, Commit
    <2> QED BY <2>3, <2>4
<1>5. Len(out') = Len(out) + Len(s) /\ SubSeq(out', 1, Len(out)) = out
    <2>1. Len(out') = Len(out) + Len(s)
        BY <1>1, <1>4, ConcatProperties
    <2>2. SubSeq(out', 1, Len(out)) = SubSeq(out, 1, Len(out))
        BY <1>1, <1>4, PrefixSurvives
    <2> QED BY <1>1, <2>1, <2>2, SubSeqFull
<1> QED BY <1>1, <1>3, <1>4, <1>5 DEF SpecLen

\* No step but a commit touches the stream of a running request, and no step
\* but a request's start and end changes whether one runs.
LEMMA RoundStutters ==
    ASSUME Draft \/ LandDraftWrite \/ Verify \/ Replay, RoundInv
    PROVE  out' = out /\ stage # "idle" /\ stage' # "idle"
BY DEF Draft, LandDraftWrite, Verify, Replay, host, RoundInv, StagesInv, InRound

\* The stream only grows, by commits of one token or two.
THEOREM StreamOnlyGrows == Spec => StreamGrowsByCommit
<1>1. RoundInv /\ [Next]_vars =>
          [ out' # out /\ stage # "idle" =>
              /\ stage = "replayed"
              /\ Len(out') - Len(out) \in 1 .. SpecLen
              /\ SubSeq(out', 1, Len(out)) = out ]_vars
    <2> SUFFICES ASSUME RoundInv, Next, out' # out, stage # "idle"
                 PROVE  /\ stage = "replayed"
                        /\ Len(out') - Len(out) \in 1 .. SpecLen
                        /\ SubSeq(out', 1, Len(out)) = out
        OBVIOUS
    <2>1. CASE Commit
        BY <2>1, CommitDelivers DEF Commit
    <2>2. ~NewRequest /\ ~Finish
        BY DEF NewRequest, Prefill, Finish, host
    <2> QED BY <2>1, <2>2, RoundStutters DEF Next, Round
<1> QED BY <1>1, RoundInvariant, PTL DEF Spec, StreamGrowsByCommit

\* Rounds implement greedy decoding (safety half of ImplementsGreedyDecode):
\* initial states map to initial states, every step to a step or a stutter.
THEOREM RefinesGreedyDecode == Spec => Promise!Safety
<1>1. Init => Promise!Init
    BY DEF Init, Promise!Init
<1>2. RoundInv /\ [Next]_vars => [Promise!Next]_<<stage # "idle", out>>
    <2> SUFFICES ASSUME RoundInv, [Next]_vars
                 PROVE  Promise!Next \/ (out' = out /\ (stage' # "idle") = (stage # "idle"))
        OBVIOUS
    <2>1. CASE NewRequest
        <3>1. PICK prompt \in Prompts, requested \in 1 .. SeqLen : Prefill(prompt, requested)
            BY <2>1 DEF NewRequest
        <3>2. stage = "idle" /\ stage' = "ready" /\ out' = Append(prompt, Target(prompt))
            BY <3>1 DEF Prefill
        <3> QED BY <3>2 DEF Promise!Next, Promise!Begin
    <2>2. CASE Commit
        <3>1. stage = "replayed" /\ stage' = "ready"
            BY <2>2 DEF Commit
        <3>2. PICK k \in 1 .. SpecLen : Promise!Continues(k)
            <4>1. Len(out) \in Nat /\ Len(out') - Len(out) \in 1 .. SpecLen
                BY <2>2, CommitDelivers
            <4>2. Len(out') \in Nat
                BY <2>2, CommitKeeps, LenProperties DEF RoundInv, TypeOK
            <4>3. Len(out') = Len(out) + (Len(out') - Len(out))
                BY <4>1, <4>2
            <4> QED BY <2>2, <4>1, <4>3, CommitDelivers DEF Promise!Continues
        <3> QED BY <3>1, <3>2 DEF Promise!Next, Promise!Emit
    <2>3. CASE Finish
        BY <2>3 DEF Finish, host, Promise!Next, Promise!End
    <2>4. CASE UNCHANGED vars
        BY <2>4 DEF vars
    <2> QED BY <2>1, <2>2, <2>3, <2>4, RoundStutters DEF Next, Round
<1> QED BY <1>1, <1>2, RoundInvariant, PTL DEF Spec, Promise!Safety
=============================================================================
