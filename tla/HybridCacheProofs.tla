--------------------------- MODULE HybridCacheProofs ---------------------------
(***************************************************************************)
(* Between calls the row of every sequence holds its own tokens, and a call *)
(* returns one output per sequence, made from that sequence's whole past:   *)
(* for every batch size, launch size, width, cache length and number of     *)
(* padding rows, whichever of two writes that meet wins, and wherever the   *)
(* library puts the pads.  Of a sequence whose pads meet a token of its own *)
(* nothing is claimed but its state, and its keys if prompts are whole; the *)
(* other sequences of its batch are as they should be.                      *)
(***************************************************************************)
EXTENDS HybridCache, SequenceTheorems, TLAPS

Constants == SizeAssumption /\ PadPositionAssumption

(***************************************************************************)
(* The invariant.                                                           *)
(***************************************************************************)

\* The first n tokens of a sequence, and what a call that ends there returns.
Hist(s, n) == [p \in 1 .. n |-> Tok(s, p - 1)]
Result(s, n) == [last |-> Tok(s, n - 1), keys |-> Hist(s, n), state |-> Hist(s, n)]

\* Row s holds the first n tokens of its sequence, those of a whole prompt and
\* behind it rotated by their own positions; in chunks, if no pad met a token.
KeysHold(k, s, n) ==
    \A p \in 1 .. n : k[p - 1].tok = Tok(s, p - 1) /\ (~Chunked => k[p - 1].rot = p - 1)
Clean(s) == s \notin spoilt \/ ~Chunked
Holds(s, n) ==
    /\ n > 0 => rec[s] = Hist(s, n)
    /\ Clean(s) => KeysHold(keys[s], s, n)

\* Tokens of a sequence once the prefill under way has reached it, and those its
\* row holds by now.
Reached(s) == len[s] + call[s]
Held(s) == IF call # NoCall /\ s < next THEN Reached(s) ELSE len[s]

Shapes ==
    /\ DOMAIN keys = Row /\ DOMAIN rec = Row
    /\ \A r \in Row : DOMAIN keys[r] = Position
    /\ request \in Nat /\ rows \in 0 .. Batch /\ next \in 0 .. Batch
    /\ len \in [0 .. Batch - 1 -> 0 .. MaxLen]
    /\ \A s \in 0 .. rows - 1 : len[s] = 0 <=> len[0] = 0

\* A prefill under way fits every sequence, and a whole prompt starts at zero.
CallInv ==
    IF call = NoCall THEN next = 0
    ELSE /\ rows > 0 /\ next < rows
         /\ call \in [0 .. rows - 1 -> 1 .. Width]
         /\ \A s \in 0 .. rows - 1 :
                /\ len[s] + Width <= MaxLen
                /\ ~Chunked => len[s] = 0
                /\ s \notin spoilt => ~PadsMeet(s, call[s])

\* The outputs so far are those of the sequences so far.
OutsInv ==
    IF call = NoCall
    THEN outs # <<>> =>
            /\ outs = [i \in 1 .. rows |-> outs[i]]
            /\ \A i \in 1 .. rows : i - 1 \notin spoilt => outs[i] = Result(i - 1, len[i - 1])
    ELSE /\ outs = [i \in 1 .. next |-> outs[i]]
         /\ \A i \in 1 .. next : i - 1 \notin spoilt => outs[i] = Result(i - 1, Reached(i - 1))

CacheInv ==
    /\ Shapes /\ CallInv /\ OutsInv
    /\ \A s \in 0 .. rows - 1 : Holds(s, Held(s))

(***************************************************************************)
(* Positions, and where two of them meet.                                   *)
(***************************************************************************)

\* The least of two, and the least and greatest of one.
LEMMA LeastOfTwo ==
    ASSUME NEW a \in Int, NEW b \in Int
    PROVE  Min({a, b}) = IF a <= b THEN a ELSE b
<1> DEFINE m == IF a <= b THEN a ELSE b
<1>1. m \in {a, b} /\ \A y \in {a, b} : m <= y
    OBVIOUS
<1>2. \A x \in {a, b} : (\A y \in {a, b} : x <= y) => x = m
    OBVIOUS
<1> HIDE DEF m
<1>3. Min({a, b}) = m
    BY <1>1, <1>2 DEF Min
<1> QED BY <1>3 DEF m

\* Whichever wins, there is only one.
LEMMA PickOne ==
    ASSUME NEW x \in Int, NEW low
    PROVE  Pick({x}, low) = x
BY DEF Pick, Min, Max

\* Two sequences put one behind the other.
LEMMA Joined ==
    ASSUME NEW n \in Nat, NEW m \in Nat, NEW a, NEW b,
           a = [i \in 1 .. n |-> a[i]], b = [i \in 1 .. m |-> b[i]]
    PROVE  a \o b = [i \in 1 .. n + m |-> IF i <= n THEN a[i] ELSE b[i - n]]
<1> DEFINE S == {a[i] : i \in 1 .. n} \cup {b[i] : i \in 1 .. m}
<1>1. a \in Seq(S) /\ Len(a) = n
    OBVIOUS
<1>2. b \in Seq(S) /\ Len(b) = m
    OBVIOUS
<1> HIDE DEF S
<1>3. /\ a \o b \in Seq(S) /\ Len(a \o b) = n + m
      /\ \A i \in 1 .. n + m : (a \o b)[i] = IF i <= n THEN a[i] ELSE b[i - n]
    BY <1>1, <1>2, ConcatProperties
<1>4. a \o b = [i \in 1 .. n + m |-> (a \o b)[i]]
    BY <1>3
<1> QED BY <1>3, <1>4

\* The sizes that the code's configuration gives.
LEMMA Sizes ==
    ASSUME Constants
    PROVE  /\ Batch \in Nat \ {0} /\ PadRows \in Nat /\ CtxBatch \in Nat \ {0}
           /\ Width \in Nat \ {0} /\ MaxLen \in Nat /\ Width <= MaxLen
           /\ Chunked \in BOOLEAN
BY DEF Constants, SizeAssumption

\* The positions of a sequence's columns in a prefill under way: the pads stay
\* behind its tokens in a chunk, and below the last one in a whole prompt, if
\* they meet none.
LEMMA Positions ==
    ASSUME Constants, Shapes, CallInv, call # NoCall, NEW s \in 0 .. rows - 1
    PROVE  /\ len[s] \in Nat /\ call[s] \in 1 .. Width /\ len[s] + Width <= MaxLen
           /\ \A c \in Column : c < call[s] => Pos(s, c) = len[s] + c
           /\ s \notin spoilt /\ Chunked =>
                \A c \in Column : c >= call[s] => Pos(s, c) \in Nat /\ Pos(s, c) >= len[s] + call[s]
           /\ ~Chunked => len[s] = 0
           /\ s \notin spoilt /\ ~Chunked =>
                \A c \in Column : c >= call[s] => Pos(s, c) \in Nat /\ Pos(s, c) < call[s] - 1
<1>1. s \in 0 .. Batch - 1 /\ rows \in Nat
    BY Sizes DEF Shapes
<1>2. len[s] \in Nat /\ call[s] \in 1 .. Width /\ len[s] + Width <= MaxLen /\ Width \in Nat
    <2>1. len[s] \in 0 .. MaxLen
        BY <1>1 DEF Shapes
    <2> QED BY <2>1, Sizes DEF CallInv
<1>3. len[s] \in Position
    BY <1>2, Sizes DEF Position
<1>4. \A c \in Column : c < call[s] => Pos(s, c) = len[s] + c
    BY DEF Pos
<1>5. ASSUME s \notin spoilt, NEW c \in Column, c >= call[s]
      PROVE  /\ Pos(s, c) \in Nat
             /\ IF Chunked THEN Pos(s, c) >= len[s] + call[s] ELSE Pos(s, c) < call[s] - 1
    <2>1. Pos(s, c) = PadPosition(c, len[s]) /\ c \in call[s] .. Width - 1
        BY <1>2, <1>5 DEF Pos, Column
    <2>2. Pos(s, c) \in Nat
        BY <1>3, <2>1 DEF Constants, PadPositionAssumption
    <2>3. ~PadsMeet(s, call[s])
        BY <1>5 DEF CallInv
    <2> QED BY <1>2, <2>1, <2>2, <2>3 DEF PadsMeet
<1>6. ~Chunked => len[s] = 0
    BY DEF CallInv
<1> QED BY <1>2, <1>4, <1>5, <1>6

\* Where no pad meets a token, a chunk's tokens fall on positions of their own,
\* behind the row's.
LEMMA ScatterIs ==
    ASSUME Constants, Shapes, CallInv, call # NoCall, NEW s \in (0 .. rows - 1) \ spoilt, Chunked,
           NEW old, NEW new, NEW low, NEW p \in Position, p < len[s] + call[s]
    PROVE  Scatter(s, old, new, low)[p] = IF p < len[s] THEN old[p] ELSE new[p - len[s]]
<1> DEFINE Hits == {c \in Column : Pos(s, c) = p}
<1>1. /\ len[s] \in Nat /\ Width \in Nat /\ p \in Nat /\ call[s] \in 1 .. Width
      /\ \A c \in Column : c < call[s] => Pos(s, c) = len[s] + c
      /\ \A c \in Column : c >= call[s] => Pos(s, c) \in Nat /\ Pos(s, c) >= len[s] + call[s]
    BY Positions, Sizes DEF Position
<1>2. Scatter(s, old, new, low)[p] = IF Hits = {} THEN old[p] ELSE new[Pick(Hits, low)]
    BY DEF Scatter
<1>3. \A c \in Column : Pos(s, c) = p => c < call[s] /\ p = len[s] + c
    BY <1>1 DEF Column
<1>4. ASSUME p >= len[s]
      PROVE  Hits = {p - len[s]} /\ p - len[s] \in Int
    <2>1. PICK d \in Column : d = p - len[s] /\ d < call[s]
        BY <1>1, <1>4 DEF Column
    <2>2. Pos(s, d) = p
        BY <1>1, <2>1
    <2>3. \A c \in Column : Pos(s, c) = p => c = d
        BY <1>1, <1>3, <2>1 DEF Column
    <2>4. Hits = {d}
        BY <2>2, <2>3, Zenon
    <2> QED BY <1>1, <2>1, <2>4
<1>5. ASSUME p < len[s]
      PROVE  Hits = {}
    BY <1>1, <1>3, <1>5 DEF Column
<1> HIDE DEF Hits
<1> QED BY <1>1, <1>2, <1>4, <1>5, PickOne

(***************************************************************************)
(* What a launch computes for one sequence.                                 *)
(***************************************************************************)

\* The keys a launch leaves in a row, and those its attention reads, are those
\* of the row's tokens and the launch's.
LEMMA KeysReached ==
    ASSUME Constants, Shapes, CallInv, call # NoCall, NEW s \in 0 .. rows - 1,
           NEW old, NEW low, Clean(s), KeysHold(old, s, len[s])
    PROVE  /\ DOMAIN KeptKeys(s, old, low) = Position
           /\ KeysHold(KeptKeys(s, old, low), s, Reached(s))
           /\ Chunked => KeysHold(LocalKeys(s, old, low), s, Reached(s))
<1> DEFINE kept == [c \in Column |->
                       IF c < call[s] THEN NewKey(s, c) ELSE old[Pos(s, c)]]
           local == [c \in Column |-> NewKey(s, c)]
<1>1. /\ len[s] \in Nat /\ call[s] \in 1 .. Width /\ len[s] + Width <= MaxLen
      /\ Width \in Nat /\ MaxLen \in Nat
    BY Positions, Sizes
<1>2. DOMAIN KeptKeys(s, old, low) = Position
    BY DEF KeptKeys, Scatter
<1>3. \A c \in Column : c < call[s] => NewKey(s, c).tok = Tok(s, len[s] + c)
    BY DEF NewKey, Given
<1>4. ASSUME NEW p \in 1 .. Reached(s), Chunked
      PROVE  /\ KeptKeys(s, old, low)[p - 1].tok = Tok(s, p - 1)
             /\ LocalKeys(s, old, low)[p - 1].tok = Tok(s, p - 1)
    <2>1. p - 1 \in Position /\ p - 1 < len[s] + call[s] /\ s \notin spoilt
        BY <1>1, <1>4 DEF Reached, Position, Clean
    <2>2. CASE p - 1 < len[s]
        <3>1. p \in 1 .. len[s]
            BY <1>1, <2>2
        <3>2. Scatter(s, old, kept, low)[p - 1] = old[p - 1]
              /\ Scatter(s, old, local, low)[p - 1] = old[p - 1]
            BY <1>4, <2>1, <2>2, ScatterIs
        <3> QED BY <1>4, <3>1, <3>2 DEF KeptKeys, LocalKeys, KeysHold
    <2>3. CASE p - 1 >= len[s]
        <3>1. PICK c \in Column : c = p - 1 - len[s] /\ c < call[s] /\ len[s] + c = p - 1
            BY <1>1, <2>1, <2>3 DEF Column
        <3>2. ~(p - 1 < len[s])
            BY <1>1, <2>3
        <3>3. Scatter(s, old, kept, low)[p - 1] = kept[c]
              /\ Scatter(s, old, local, low)[p - 1] = local[c]
            BY <1>4, <2>1, <3>1, <3>2, ScatterIs
        <3>4. kept[c] = NewKey(s, c) /\ local[c] = NewKey(s, c)
            BY <3>1
        <3> QED BY <1>3, <1>4, <3>1, <3>3, <3>4 DEF KeptKeys, LocalKeys
    <2> QED BY <1>1, <2>2, <2>3
<1>5. ASSUME NEW p \in 1 .. Reached(s), ~Chunked
      PROVE  /\ KeptKeys(s, old, low)[p - 1].tok = Tok(s, p - 1)
             /\ KeptKeys(s, old, low)[p - 1].rot = p - 1
    <2>1. len[s] = 0
        BY <1>5, Positions
    <2>2. p - 1 \in Position /\ p - 1 \in Column /\ p - 1 < call[s]
        BY <1>1, <2>1 DEF Reached, Position, Column
    <2>3. KeptKeys(s, old, low)[p - 1] = NewKey(s, p - 1)
        BY <1>5, <2>2 DEF KeptKeys
    <2>4. len[s] + (p - 1) = p - 1
        BY <2>1
    <2>5. NewKey(s, p - 1).rot = p - 1
        BY DEF NewKey, Rotary
    <2> QED BY <1>3, <2>2, <2>3, <2>4, <2>5
<1> QED BY <1>2, <1>4, <1>5, Sizes DEF KeysHold

\* The state a launch leaves has consumed the row's tokens and the launch's.
LEMMA StateReached ==
    ASSUME Constants, Shapes, CallInv, call # NoCall, NEW s \in 0 .. rows - 1,
           NEW old, len[s] > 0 => old = Hist(s, len[s])
    PROVE  Stepped(s, old) = Hist(s, Reached(s))
<1>1. PICK n \in Nat : n = len[s]
    BY Positions
<1>2. PICK m \in Nat : m = call[s] /\ m <= Width /\ m > 0
    BY Positions, Sizes
<1>3. 0 \in Column /\ Pos(s, 0) = n
    BY <1>1, <1>2, Positions, Sizes DEF Column
<1>4. \A c \in 1 .. m : Given(s, c - 1) = Tok(s, n + (c - 1))
    BY <1>1, <1>2 DEF Given
<1>5. ~Chunked => n = 0
    BY <1>1, Positions
<1>6. Seed(s, old) = Hist(s, n)
    <2>1. CASE n = 0
        <3>1. Seed(s, old) = <<>>
            BY <1>3, <2>1 DEF Seed
        <3>2. Hist(s, n) = <<>>
            BY <2>1 DEF Hist
        <3> QED BY <3>1, <3>2
    <2>2. CASE n > 0
        <3>1. Seed(s, old) = old
            BY <1>1, <1>3, <1>5, <2>2, Sizes DEF Seed
        <3> QED BY <1>1, <2>2, <3>1
    <2> QED BY <1>1, <2>1, <2>2
<1>7. [c \in 1 .. call[s] |-> Given(s, c - 1)] = [c \in 1 .. m |-> Tok(s, n + (c - 1))]
    BY <1>2, <1>4
<1>8. Hist(s, n) \o [c \in 1 .. m |-> Tok(s, n + (c - 1))] = Hist(s, n + m)
    <2> DEFINE more == [c \in 1 .. m |-> Tok(s, n + (c - 1))]
    <2>1. /\ Hist(s, n) = [i \in 1 .. n |-> Hist(s, n)[i]]
          /\ \A i \in 1 .. n : Hist(s, n)[i] = Tok(s, i - 1)
        BY DEF Hist
    <2>2. /\ more = [i \in 1 .. m |-> more[i]]
          /\ \A i \in 1 .. m : more[i] = Tok(s, n + (i - 1))
        OBVIOUS
    <2> HIDE DEF more
    <2>3. Hist(s, n) \o more =
              [i \in 1 .. n + m |-> IF i <= n THEN Hist(s, n)[i] ELSE more[i - n]]
        BY <2>1, <2>2, Joined
    <2>4. \A i \in 1 .. n + m : (IF i <= n THEN Hist(s, n)[i] ELSE more[i - n]) = Tok(s, i - 1)
        <3> SUFFICES ASSUME NEW i \in 1 .. n + m
                     PROVE  (IF i <= n THEN Hist(s, n)[i] ELSE more[i - n]) = Tok(s, i - 1)
            OBVIOUS
        <3>1. CASE i <= n
            BY <2>1, <3>1
        <3>2. CASE i > n
            <4>1. i - n \in 1 .. m /\ n + (i - n - 1) = i - 1
                BY <3>2
            <4> QED BY <2>2, <3>2, <4>1
        <3> QED BY <3>1, <3>2
    <2> QED BY <2>3, <2>4 DEF Hist, more
<1> QED BY <1>1, <1>2, <1>6, <1>7, <1>8 DEF Stepped, Reached

\* The column whose hidden state is returned is the last token's.
LEMMA LastIsLast ==
    ASSUME Constants, Shapes, CallInv, call # NoCall, NEW s \in (0 .. rows - 1) \ spoilt,
           NEW col \in Column, col \in LastIndex(s)
    PROVE  col = call[s] - 1
<1>1. call[s] \in 1 .. Width /\ Width \in Nat
    BY Positions, Sizes
<1>2. CASE Chunked
    BY <1>2 DEF LastIndex
<1>3. CASE ~Chunked
    <2>1. /\ \A c \in Column : c >= call[s] => Pos(s, c) \in Nat /\ Pos(s, c) < call[s] - 1
          /\ \A c \in Column : c < call[s] => Pos(s, c) = c
        <3>1. /\ len[s] = 0
              /\ \A c \in Column : c >= call[s] => Pos(s, c) \in Nat /\ Pos(s, c) < call[s] - 1
              /\ \A c \in Column : c < call[s] => Pos(s, c) = len[s] + c
            BY <1>3, Positions
        <3> QED BY <3>1 DEF Column
    <2>2. PICK d \in Column : d = call[s] - 1
        BY <1>1 DEF Column
    <2>3. Pos(s, d) = d /\ Pos(s, d) <= Pos(s, col)
        <3>1. Pos(s, d) = d
            BY <1>1, <2>1, <2>2
        <3>2. \A x \in Column : Pos(s, x) <= Pos(s, col)
            BY <1>3 DEF LastIndex
        <3> QED BY <3>1, <3>2
    <2>4. CASE col >= call[s]
        <3>1. Pos(s, col) \in Nat /\ Pos(s, col) < call[s] - 1
            BY <2>1, <2>4
        <3> QED BY <1>1, <2>2, <2>3, <3>1
    <2>5. CASE col < call[s]
        <3>1. Pos(s, col) = col
            BY <2>1, <2>5
        <3> QED BY <1>1, <2>2, <2>3, <2>5, <3>1 DEF Column
    <2> QED BY <1>1, <2>4, <2>5 DEF Column
<1> QED BY <1>2, <1>3

\* What a row returns is made from all of the sequence's tokens.
LEMMA OutputReached ==
    ASSUME Constants, Shapes, CallInv, call # NoCall, NEW s \in (0 .. rows - 1) \ spoilt,
           Holds(s, len[s]), NEW col \in Column, col \in LastIndex(s), NEW low
    PROVE  Output(s, s, col, low) = Result(s, Reached(s))
<1>1. len[s] \in Nat /\ call[s] \in 1 .. Width /\ Width \in Nat
    BY Positions, Sizes
<1>2. PICK n \in Nat : n = Reached(s) /\ n = len[s] + call[s] /\ n > 0
    BY <1>1 DEF Reached
<1>3. Pos(s, col) = n - 1 /\ Given(s, col) = Tok(s, n - 1)
    <2>1. col = call[s] - 1
        BY LastIsLast
    <2>2. Pos(s, col) = len[s] + col
        BY <1>1, <2>1, Positions
    <2>3. Given(s, col) = Tok(s, len[s] + col)
        BY <1>1, <2>1 DEF Given
    <2>4. len[s] + col = n - 1
        BY <1>1, <1>2, <2>1
    <2> QED BY <2>2, <2>3, <2>4
<1>4. Stepped(s, rec[s]) = Hist(s, n)
    BY <1>2, StateReached DEF Holds
<1>5. KeysHold(SeenKeys(s, s, low), s, n)
    BY <1>2, KeysReached DEF Holds, SeenKeys, Clean
<1>6. [p \in 1 .. Pos(s, col) + 1 |-> SeenKeys(s, s, low)[p - 1].tok] = Hist(s, n)
    <2>1. Pos(s, col) + 1 = n
        BY <1>3
    <2> QED BY <1>5, <2>1 DEF Hist, KeysHold
<1> QED BY <1>2, <1>3, <1>4, <1>6 DEF Output, Result

(***************************************************************************)
(* The rows of a launch.                                                    *)
(***************************************************************************)

\* A launch has a row for each of the next sequences; the rows that fill it are
\* sent where no sequence of the request is.
LEMMA LaunchedRows ==
    ASSUME Constants, Shapes, CallInv, call # NoCall,
           NEW n, n = Min({CtxBatch, rows - next})
    PROVE  /\ n \in 1 .. CtxBatch /\ next + n <= rows /\ next \in Nat /\ rows \in 0 .. Batch
           /\ \A i \in 0 .. CtxBatch - 1 :
                IF i < n THEN LaunchRows(next)[i] = [of |-> next + i, row |-> next + i]
                ELSE LaunchRows(next)[i].row \notin 0 .. rows - 1
<1>1. /\ next \in Nat /\ rows \in 0 .. Batch /\ next < rows /\ Batch \in Nat /\ PadRows \in Nat
      /\ CtxBatch \in Nat \ {0} /\ rows \in Nat
    BY Sizes DEF Shapes, CallInv
<1>2. n = IF CtxBatch <= rows - next THEN CtxBatch ELSE rows - next
    BY <1>1, LeastOfTwo
<1>3. n \in 1 .. CtxBatch /\ next + n <= rows
    BY <1>1, <1>2
<1>4. ASSUME NEW i \in 0 .. CtxBatch - 1, i < n
      PROVE  LaunchRows(next)[i] = [of |-> next + i, row |-> next + i]
    <2>1. ~(next + i >= Batch)
        BY <1>1, <1>3, <1>4
    <2> QED BY <1>4, <2>1 DEF LaunchRows, CacheIndex
<1>5. ASSUME NEW i \in 0 .. CtxBatch - 1, ~(i < n)
      PROVE  LaunchRows(next)[i].row \notin 0 .. rows - 1
    <2>1. LaunchRows(next)[i].row = CacheIndex(PadSeq(i, n))
        BY <1>5 DEF LaunchRows
    <2>2. PadSeq(i, n) \in Nat /\ PadSeq(i, n) >= rows
        BY <1>1, <1>3, <1>5 DEF PadSeq
    <2>3. CacheIndex(PadSeq(i, n)) >= rows
        BY <1>1, <2>2 DEF CacheIndex
    <2> QED BY <1>1, <2>1, <2>3
<1> QED BY <1>1, <1>3, <1>4, <1>5

\* A launch leaves the rows of its sequences stepped and those of all others as
\* they were.
LEMMA RowsAfter ==
    ASSUME Constants, Shapes, CallInv, call # NoCall,
           NEW n, n = Min({CtxBatch, rows - next}), NEW r \in 0 .. rows - 1,
           NEW low, NEW lowRow
    PROVE  LET lr == LaunchRows(next)
               mine == next <= r /\ r < next + n
           IN  /\ KeysAfter(lr, low, lowRow)[r] =
                      IF mine THEN KeptKeys(r, keys[r], low) ELSE keys[r]
               /\ StatesAfter(lr, lowRow)[r] = IF mine THEN Stepped(r, rec[r]) ELSE rec[r]
<1> DEFINE lr == LaunchRows(next)
           mine == next <= r /\ r < next + n
<1>1. /\ n \in 1 .. CtxBatch /\ next + n <= rows /\ next \in Nat /\ rows \in 0 .. Batch
      /\ CtxBatch \in Nat /\ Batch \in Nat /\ PadRows \in Nat
      /\ \A i \in 0 .. CtxBatch - 1 :
            IF i < n THEN lr[i] = [of |-> next + i, row |-> next + i]
            ELSE lr[i].row \notin 0 .. rows - 1
    BY LaunchedRows, Sizes
<1>2. r \in Row
    BY <1>1 DEF Row
<1> HIDE DEF lr
<1>3. ASSUME mine
      PROVE  /\ Senders(lr, r) = {r - next} /\ r - next \in Int /\ lr[r - next].of = r
    <2>1. PICK k \in 0 .. CtxBatch - 1 : k = r - next /\ k < n /\ next + k = r
        BY <1>1, <1>3
    <2>2. lr[k] = [of |-> r, row |-> r]
        BY <1>1, <2>1
    <2>3. \A i \in 0 .. CtxBatch - 1 : lr[i].row = r => i = k
        <3> SUFFICES ASSUME NEW i \in 0 .. CtxBatch - 1, lr[i].row = r PROVE i = k
            OBVIOUS
        <3>1. i < n
            BY <1>1
        <3>2. lr[i] = [of |-> next + i, row |-> next + i]
            BY <1>1, <3>1
        <3>3. lr[i].row = next + i
            BY <3>2
        <3> QED BY <1>1, <2>1, <3>3
    <2> QED BY <2>1, <2>2, <2>3 DEF Senders
<1>4. ASSUME ~mine
      PROVE  Senders(lr, r) = {}
    <2> SUFFICES ASSUME NEW i \in 0 .. CtxBatch - 1, lr[i].row = r PROVE FALSE
        BY DEF Senders
    <2>1. i < n
        BY <1>1
    <2>2. lr[i] = [of |-> next + i, row |-> next + i]
        BY <1>1, <2>1
    <2>3. lr[i].row = next + i
        BY <2>2
    <2> QED BY <1>1, <1>4, <2>1, <2>3
<1>5. /\ KeysAfter(lr, low, lowRow)[r] = IF mine THEN KeptKeys(r, keys[r], low) ELSE keys[r]
      /\ StatesAfter(lr, lowRow)[r] = IF mine THEN Stepped(r, rec[r]) ELSE rec[r]
    <2>1. CASE mine
        <3>1. Pick(Senders(lr, r), lowRow) = r - next /\ Senders(lr, r) # {}
            BY <1>3, <2>1, PickOne
        <3> QED BY <1>2, <1>3, <2>1, <3>1 DEF KeysAfter, StatesAfter
    <2>2. CASE ~mine
        BY <1>2, <1>4, <2>2 DEF KeysAfter, StatesAfter
    <2> QED BY <2>1, <2>2
<1> QED BY <1>5 DEF lr

(***************************************************************************)
(* The steps.                                                               *)
(***************************************************************************)

\* The initial state.
LEMMA CacheInit == ASSUME Constants, Init PROVE CacheInv
<1>1. Shapes /\ CallInv /\ OutsInv
    BY Sizes DEF Init, Shapes, CallInv, OutsInv, NoCall
<1>2. 0 .. rows - 1 = {}
    BY DEF Init
<1> QED BY <1>1, <1>2 DEF CacheInv

\* A new request has no tokens yet, so that what the rows hold is nobody's.
LEMMA NewRequestKeeps ==
    ASSUME Constants, CacheInv, NEW n \in 1 .. Batch, NewRequest(n)
    PROVE  CacheInv'
<1>1. /\ request' = request + 1 /\ rows' = n /\ outs' = <<>> /\ call = NoCall /\ call' = NoCall
      /\ len' = [s \in 0 .. Batch - 1 |-> 0]
      /\ keys' = keys /\ rec' = rec /\ next' = next /\ spoilt' = {}
    BY DEF NewRequest
<1>2. Shapes' /\ CallInv' /\ OutsInv'
    BY <1>1, Sizes DEF CacheInv, Shapes, CallInv, OutsInv
<1>3. ASSUME NEW s \in 0 .. n - 1
      PROVE  Holds(s, Held(s))'
    <2>1. Held(s)' = 0
        BY <1>1, Sizes DEF Held
    <2> QED BY <2>1 DEF Holds, KeysHold
<1> QED BY <1>1, <1>2, <1>3 DEF CacheInv

\* A call begins where the tokens end.
LEMMA BeginKeeps ==
    ASSUME Constants, CacheInv, NEW valid \in [0 .. rows - 1 -> 1 .. Width], BeginPrefill(valid)
    PROVE  CacheInv'
<1>1. /\ call = NoCall /\ rows > 0 /\ rows \in Nat
      /\ call' = valid /\ next' = 0 /\ outs' = <<>>
      /\ keys' = keys /\ rec' = rec /\ request' = request /\ rows' = rows /\ len' = len
      /\ spoilt' = spoilt \cup {s \in 0 .. rows - 1 : PadsMeet(s, valid[s])}
    BY Sizes DEF BeginPrefill, CacheInv, Shapes
<1>2. valid # NoCall
    <2>1. 0 \in DOMAIN valid
        BY <1>1
    <2>2. 0 \notin DOMAIN <<>>
        OBVIOUS
    <2> QED BY <2>1, <2>2 DEF NoCall
<1>3. Shapes'
    BY <1>1, Sizes DEF CacheInv, Shapes
<1>4. CallInv'
    <2>1. ASSUME NEW s \in 0 .. rows - 1
          PROVE  /\ len[s] + Width <= MaxLen
                 /\ ~Chunked => len[s] = 0
                 /\ s \notin spoilt' => ~PadsMeet(s, valid[s])
        BY <1>1 DEF BeginPrefill, CacheInv, Shapes
    <2>2. \A s : PadsMeet(s, call[s])' <=> PadsMeet(s, valid[s])
        BY <1>1 DEF PadsMeet
    <2> QED BY <1>1, <1>2, <2>1, <2>2 DEF CallInv
<1>5. OutsInv'
    <2>1. outs' = [i \in 1 .. 0 |-> outs'[i]]
        BY <1>1
    <2> QED BY <1>1, <1>2, <2>1 DEF OutsInv
<1>6. ASSUME NEW s \in 0 .. rows - 1
      PROVE  Holds(s, Held(s))'
    <2>1. Held(s)' = Held(s)
        BY <1>1 DEF Held
    <2>2. Holds(s, Held(s)) /\ (Clean(s)' => Clean(s))
        BY <1>1 DEF CacheInv, Clean
    <2> QED BY <1>1, <2>1, <2>2 DEF Holds, KeysHold, Hist, Tok
<1> QED BY <1>1, <1>3, <1>4, <1>5, <1>6 DEF CacheInv

\* A launch brings its rows to the end of the call, and the last one ends it.
LEMMA EncodeKeeps ==
    ASSUME Constants, CacheInv, EncodeGroup
    PROVE  CacheInv'
<1> DEFINE lr == LaunchRows(next)
<1>1. PICK n : n = Min({CtxBatch, rows - next})
    OBVIOUS
<1>2. PICK low \in BOOLEAN, lowRow \in BOOLEAN, col \in [0 .. n - 1 -> Column] :
        /\ keys' = KeysAfter(lr, low, lowRow)
        /\ rec' = StatesAfter(lr, lowRow)
        /\ \A i \in 0 .. n - 1 : col[i] \in LastIndex(lr[i].of)
        /\ outs' = outs \o [i \in 1 .. n |-> Output(lr[i - 1].of, lr[i - 1].row, col[i - 1], low)]
    BY <1>1 DEF EncodeGroup, Returned
<1>3. /\ call # NoCall /\ Shapes /\ CallInv /\ OutsInv /\ request' = request /\ rows' = rows
      /\ spoilt' = spoilt
      /\ IF next + n < rows
           THEN next' = next + n /\ call' = call /\ len' = len
           ELSE /\ next' = 0 /\ call' = NoCall
                /\ len' = [s \in 0 .. Batch - 1 |->
                              IF s < rows THEN len[s] + call[s] ELSE len[s]]
    BY <1>1 DEF EncodeGroup, CacheInv
<1>4. /\ n \in 1 .. CtxBatch /\ next + n <= rows /\ next \in Nat /\ rows \in 0 .. Batch
      /\ CtxBatch \in Nat /\ Batch \in Nat /\ PadRows \in Nat
      /\ \A i \in 0 .. CtxBatch - 1 : i < n => lr[i] = [of |-> next + i, row |-> next + i]
    BY <1>1, <1>3, LaunchedRows, Sizes
<1>5. ASSUME NEW s \in 0 .. rows - 1
      PROVE  len[s] \in Nat /\ call[s] \in 1 .. Width /\ Reached(s) \in Nat \ {0}
             /\ Reached(s) <= MaxLen /\ s \in 0 .. Batch - 1
    BY <1>3, <1>4, Positions, Sizes DEF Reached
<1>6. ASSUME NEW s \in 0 .. rows - 1
      PROVE  LET m == IF s < next + n THEN Reached(s) ELSE len[s]
             IN  (m > 0 => rec'[s] = Hist(s, m)) /\ (Clean(s) => KeysHold(keys'[s], s, m))
    <2>1. /\ keys'[s] = IF next <= s /\ s < next + n THEN KeptKeys(s, keys[s], low) ELSE keys[s]
          /\ rec'[s] = IF next <= s /\ s < next + n THEN Stepped(s, rec[s]) ELSE rec[s]
        <3>1. /\ KeysAfter(lr, low, lowRow)[s] =
                    IF next <= s /\ s < next + n THEN KeptKeys(s, keys[s], low) ELSE keys[s]
              /\ StatesAfter(lr, lowRow)[s] =
                    IF next <= s /\ s < next + n THEN Stepped(s, rec[s]) ELSE rec[s]
            <4>1. call # NoCall /\ Shapes /\ CallInv
                BY <1>3
            <4> QED BY ONLY Constants, <4>1, <1>1, s \in 0 .. rows - 1, RowsAfter, Zenon
        <3> QED BY <1>2, <3>1
    <2>2. Holds(s, Held(s))
        BY DEF CacheInv
    <2>3. CASE s < next
        BY <1>3, <1>4, <2>1, <2>2, <2>3 DEF Held, Holds
    <2>4. CASE next <= s /\ s < next + n
        <3>1. Holds(s, len[s])
            BY <1>3, <1>4, <2>2, <2>4 DEF Held
        <3>2. Stepped(s, rec[s]) = Hist(s, Reached(s))
            BY <1>3, <3>1, StateReached DEF Holds
        <3>3. Clean(s) => KeysHold(KeptKeys(s, keys[s], low), s, Reached(s))
            BY <1>3, <3>1, KeysReached DEF Holds
        <3> QED BY <2>1, <2>4, <3>2, <3>3
    <2>5. CASE next + n <= s
        BY <1>3, <1>4, <2>1, <2>2, <2>5 DEF Held, Holds
    <2> QED BY <1>4, <2>3, <2>4, <2>5
<1>7. /\ outs' = [i \in 1 .. next + n |-> outs'[i]]
      /\ \A i \in 1 .. next + n : i - 1 \notin spoilt => outs'[i] = Result(i - 1, Reached(i - 1))
    <2> DEFINE new == [i \in 1 .. n |-> Output(lr[i - 1].of, lr[i - 1].row, col[i - 1], low)]
    <2>1. ASSUME NEW i \in 1 .. n, next + i - 1 \notin spoilt
          PROVE  new[i] = Result(next + i - 1, Reached(next + i - 1))
        <3>1. PICK s \in (0 .. rows - 1) \ spoilt : s = next + i - 1 /\ next <= s
            BY <1>4, <2>1
        <3>2. i - 1 \in 0 .. CtxBatch - 1 /\ i - 1 < n /\ next + (i - 1) = s
            BY <1>4, <3>1
        <3>3. lr[i - 1] = [of |-> s, row |-> s]
            BY <1>4, <3>2
        <3>4. new[i] = Output(s, s, col[i - 1], low)
            BY <3>3
        <3>5. col[i - 1] \in Column /\ col[i - 1] \in LastIndex(s)
            BY <1>2, <1>4, <3>2, <3>3
        <3>6. Holds(s, len[s])
            <4>1. Held(s) = len[s]
                BY <1>4, <3>1 DEF Held
            <4> QED BY <4>1 DEF CacheInv
        <3>7. Output(s, s, col[i - 1], low) = Result(s, Reached(s))
            BY <1>3, <3>5, <3>6, OutputReached
        <3> QED BY <3>1, <3>4, <3>7
    <2>2. outs = [i \in 1 .. next |-> outs[i]] /\ new = [i \in 1 .. n |-> new[i]]
        BY <1>3 DEF OutsInv
    <2>3. outs' = outs \o new
        BY <1>2
    <2> HIDE DEF new
    <2>4. outs' = [i \in 1 .. next + n |-> IF i <= next THEN outs[i] ELSE new[i - next]]
        BY <1>4, <2>2, <2>3, Joined
    <2>5. ASSUME NEW i \in 1 .. next + n, i - 1 \notin spoilt
          PROVE  (IF i <= next THEN outs[i] ELSE new[i - next]) = Result(i - 1, Reached(i - 1))
        <3>1. CASE i <= next
            BY <1>3, <1>4, <2>5, <3>1 DEF OutsInv
        <3>2. CASE i > next
            <4>1. i - next \in 1 .. n /\ next + (i - next) - 1 = i - 1
                BY <1>4, <3>2
            <4> QED BY <1>4, <2>1, <2>5, <3>2, <4>1
        <3> QED BY <1>4, <3>1, <3>2
    <2> QED BY <2>4, <2>5
<1>8. /\ DOMAIN keys' = Row /\ DOMAIN rec' = Row
      /\ \A r \in Row : DOMAIN keys'[r] = Position
    <2>1. ASSUME NEW r \in Row PROVE DOMAIN keys'[r] = Position
        <3>1. \A s : DOMAIN KeptKeys(s, keys[r], low) = Position
            BY DEF KeptKeys, Scatter
        <3> QED BY <1>2, <1>3, <3>1 DEF KeysAfter, Shapes
    <2> QED BY <1>2, <2>1 DEF KeysAfter, StatesAfter
<1>9. CASE next + n < rows
    <2>1. next' = next + n /\ call' = call /\ len' = len /\ rows' = rows /\ request' = request
        BY <1>3, <1>9
    <2>2. Shapes'
        BY <1>3, <1>4, <1>8, <1>9, <2>1 DEF Shapes
    <2>3. CallInv'
        BY <1>3, <1>9, <2>1 DEF CallInv, PadsMeet
    <2>4. OutsInv'
        BY <1>3, <1>7, <2>1 DEF OutsInv, Result, Reached, Hist, Tok
    <2>5. ASSUME NEW s \in 0 .. rows - 1
          PROVE  Holds(s, Held(s))'
        <3>1. Held(s)' = IF s < next + n THEN Reached(s) ELSE len[s]
            BY <1>3, <2>1 DEF Held, Reached
        <3>2. Clean(s)' = Clean(s)
            BY <1>3 DEF Clean
        <3> QED BY <1>6, <2>1, <3>1, <3>2 DEF Holds, KeysHold, Hist, Tok
    <2> QED BY <2>1, <2>2, <2>3, <2>4, <2>5 DEF CacheInv
<1>10. CASE ~(next + n < rows)
    <2>1. /\ next + n = rows /\ next' = 0 /\ call' = NoCall /\ rows' = rows /\ request' = request
          /\ DOMAIN len' = 0 .. Batch - 1
          /\ \A s \in 0 .. rows - 1 : len'[s] = Reached(s)
          /\ \A s \in 0 .. Batch - 1 : s >= rows => len'[s] = len[s]
        <3>1. next + n = rows /\ rows \in Nat
            BY <1>4, <1>10
        <3>2. len' = [s \in 0 .. Batch - 1 |-> IF s < rows THEN len[s] + call[s] ELSE len[s]]
            BY <1>3, <1>10
        <3>3. \A s \in 0 .. rows - 1 : s \in 0 .. Batch - 1 /\ s < rows
            BY <1>4
        <3>4. \A s \in 0 .. rows - 1 : len'[s] = Reached(s)
            BY <3>2, <3>3 DEF Reached
        <3>5. \A s \in 0 .. Batch - 1 : s >= rows => len'[s] = len[s]
            BY <1>4, <3>1, <3>2
        <3> QED BY <1>3, <1>10, <3>1, <3>2, <3>4, <3>5
    <2>2. Shapes'
        <3>1. ASSUME NEW s \in 0 .. Batch - 1 PROVE len'[s] \in 0 .. MaxLen
            <4>1. CASE s < rows
                <5>1. s \in 0 .. rows - 1
                    BY <1>4, <4>1
                <5>2. len'[s] = Reached(s) /\ Reached(s) \in 0 .. MaxLen
                    BY <1>5, <2>1, <5>1, Sizes
                <5> QED BY <5>2
            <4>2. CASE s >= rows
                BY <1>3, <2>1, <4>2 DEF Shapes
            <4> QED BY <1>4, <4>1, <4>2
        <3>2. \A s \in 0 .. rows - 1 : len'[s] # 0 /\ len'[0] # 0
            <4>1. \A s \in 0 .. rows - 1 : len'[s] # 0
                BY <1>5, <2>1
            <4>2. \A s \in 0 .. rows - 1 : 0 \in 0 .. rows - 1
                BY <1>4
            <4> QED BY <4>1, <4>2
        <3>3. len' \in [0 .. Batch - 1 -> 0 .. MaxLen]
            <4>1. len' = [s \in 0 .. Batch - 1 |-> len'[s]]
                BY <1>3, <1>10
            <4> QED BY <3>1, <4>1
        <3> QED BY <1>3, <1>4, <1>8, <2>1, <3>2, <3>3 DEF Shapes
    <2>3. CallInv'
        BY <2>1 DEF CallInv
    <2>4. OutsInv'
        <3>1. /\ outs' = [i \in 1 .. rows |-> outs'[i]]
              /\ \A i \in 1 .. rows : i - 1 \notin spoilt => outs'[i] = Result(i - 1, Reached(i - 1))
            BY <1>7, <2>1
        <3>2. \A i \in 1 .. rows : Reached(i - 1) = len'[i - 1]
            BY <1>4, <2>1
        <3>3. \A i \in 1 .. rows : i - 1 \notin spoilt => outs'[i] = Result(i - 1, len'[i - 1])
            BY <3>1, <3>2
        <3> QED BY <1>3, <2>1, <3>1, <3>3 DEF OutsInv, Result, Hist, Tok
    <2>5. ASSUME NEW s \in 0 .. rows - 1
          PROVE  Holds(s, Held(s))'
        <3>1. Held(s)' = Reached(s) /\ s < next + n
            BY <1>4, <2>1 DEF Held
        <3>2. Clean(s)' = Clean(s)
            BY <1>3 DEF Clean
        <3> QED BY <1>6, <2>1, <3>1, <3>2 DEF Holds, KeysHold, Hist, Tok
    <2> QED BY <2>1, <2>2, <2>3, <2>4, <2>5 DEF CacheInv
<1> QED BY <1>9, <1>10

\* A decode step adds one token to every sequence.
LEMMA DecodeKeeps ==
    ASSUME Constants, CacheInv, Decode
    PROVE  CacheInv'
<1>1. /\ call = NoCall /\ rows > 0 /\ rows \in 0 .. Batch /\ Batch \in Nat /\ PadRows \in Nat
      /\ request' = request /\ rows' = rows /\ call' = call /\ next' = next /\ spoilt' = spoilt
      /\ Shapes /\ CallInv /\ OutsInv
      /\ \A s \in 0 .. rows - 1 : len[s] \in 1 .. MaxLen - 1 /\ s \in Row /\ s \in 0 .. Batch - 1
    <2>1. /\ call = NoCall /\ rows > 0 /\ Shapes /\ CallInv /\ OutsInv
          /\ request' = request /\ rows' = rows /\ call' = call /\ next' = next
          /\ spoilt' = spoilt
          /\ \A s \in 0 .. rows - 1 : len[s] \in 1 .. MaxLen - 1
        BY DEF Decode, CacheInv
    <2>2. rows \in 0 .. Batch /\ Batch \in Nat /\ PadRows \in Nat
        BY <2>1, Sizes DEF Shapes
    <2> QED BY <2>1, <2>2 DEF Row
<1>2. /\ DOMAIN keys' = Row /\ DOMAIN rec' = Row
      /\ \A r \in Row : DOMAIN keys'[r] = Position
      /\ \A r \in 0 .. rows - 1 :
            /\ keys'[r] = [keys[r] EXCEPT ![len[r]] = [tok |-> Tok(r, len[r]), rot |-> len[r]]]
            /\ rec'[r] = Append(rec[r], Tok(r, len[r]))
            /\ len'[r] = len[r] + 1
      /\ len' = [s \in 0 .. Batch - 1 |-> IF s < rows THEN len[s] + 1 ELSE len[s]]
    <2>1. \A r \in 0 .. rows - 1 : r < rows
        BY <1>1
    <2> QED BY <1>1, <2>1 DEF Decode, Shapes
<1>3. ASSUME NEW s \in 0 .. rows - 1
      PROVE  rec'[s] = Hist(s, len[s] + 1) /\ (Clean(s) => KeysHold(keys'[s], s, len[s] + 1))
    <2>1. PICK n \in Nat : n = len[s] /\ n > 0 /\ n < MaxLen
        BY <1>1, Sizes
    <2>2. Holds(s, n)
        BY <1>1, <2>1 DEF CacheInv, Held
    <2>3. Append(Hist(s, n), Tok(s, n)) = Hist(s, n + 1)
        BY DEF Hist
    <2>4. keys'[s] = [keys[s] EXCEPT ![n] = [tok |-> Tok(s, n), rot |-> n]]
          /\ n \in DOMAIN keys[s] /\ DOMAIN keys[s] = Position
        <3>1. keys'[s] = [keys[s] EXCEPT ![n] = [tok |-> Tok(s, n), rot |-> n]]
            BY <1>2, <2>1
        <3>2. DOMAIN keys[s] = Position
            BY <1>1 DEF Shapes
        <3>3. n \in Position
            BY <2>1, Sizes DEF Position
        <3> QED BY <3>1, <3>2, <3>3
    <2>5. ASSUME Clean(s), NEW p \in 1 .. n + 1
          PROVE  /\ keys'[s][p - 1].tok = Tok(s, p - 1)
                 /\ ~Chunked => keys'[s][p - 1].rot = p - 1
        <3>1. CASE p = n + 1
            <4>1. p - 1 = n
                BY <3>1
            <4> QED BY <2>4, <4>1
        <3>2. CASE p \in 1 .. n
            <4>1. p - 1 # n /\ p - 1 \in Position
                BY <2>1, <3>2, Sizes DEF Position
            <4>2. keys'[s][p - 1] = keys[s][p - 1]
                BY <2>4, <4>1
            <4> QED BY <2>2, <2>5, <3>2, <4>2 DEF Holds, KeysHold
        <3> QED BY <3>1, <3>2
    <2> QED BY <1>2, <2>1, <2>2, <2>3, <2>5 DEF Holds, KeysHold
<1>4. Shapes'
    <2>1. len' \in [0 .. Batch - 1 -> 0 .. MaxLen]
        <3>1. ASSUME NEW s \in 0 .. Batch - 1 PROVE len'[s] \in 0 .. MaxLen
            <4>1. len[s] \in 0 .. MaxLen /\ (s < rows => len[s] \in 1 .. MaxLen - 1)
                BY <1>1 DEF Shapes
            <4> QED BY <1>2, <4>1, Sizes
        <3> QED BY <1>2, <3>1
    <2>2. \A s \in 0 .. rows - 1 : len'[s] # 0 /\ len'[0] # 0
        BY <1>1, <1>2, Sizes
    <2> QED BY <1>1, <1>2, <2>1, <2>2 DEF Shapes
<1>5. CallInv'
    BY <1>1 DEF CallInv
<1>6. OutsInv'
    <2>1. outs' = [i \in 1 .. rows |->
                [last |-> Tok(i - 1, len[i - 1]),
                 keys |-> [p \in 1 .. len[i - 1] + 1 |-> keys'[i - 1][p - 1].tok],
                 state |-> rec'[i - 1]]]
        BY DEF Decode
    <2>2. ASSUME NEW i \in 1 .. rows, i - 1 \notin spoilt
          PROVE  [last |-> Tok(i - 1, len[i - 1]),
                  keys |-> [p \in 1 .. len[i - 1] + 1 |-> keys'[i - 1][p - 1].tok],
                  state |-> rec'[i - 1]] = Result(i - 1, len'[i - 1])
        <3>1. PICK s \in 0 .. rows - 1 : s = i - 1 /\ s \notin spoilt
            BY <1>1, <2>2
        <3>2. PICK n \in Nat : n = len[s]
            BY <1>1
        <3>3. len'[s] = n + 1
            BY <1>2, <3>2
        <3>4. [p \in 1 .. n + 1 |-> keys'[s][p - 1].tok] = Hist(s, n + 1) /\ rec'[s] = Hist(s, n + 1)
            BY <1>3, <3>1, <3>2 DEF KeysHold, Hist, Clean
        <3>5. Result(s, n + 1) =
                [last |-> Tok(s, n), keys |-> Hist(s, n + 1), state |-> Hist(s, n + 1)]
            <4>1. n + 1 - 1 = n
                OBVIOUS
            <4> QED BY <4>1 DEF Result
        <3> QED BY <3>1, <3>2, <3>3, <3>4, <3>5
    <2>3. /\ outs' = [i \in 1 .. rows |-> outs'[i]]
          /\ \A i \in 1 .. rows : i - 1 \notin spoilt => outs'[i] = Result(i - 1, len'[i - 1])
        BY <2>1, <2>2
    <2> QED BY <1>1, <2>3 DEF OutsInv, Result, Hist, Tok
<1>7. ASSUME NEW s \in 0 .. rows - 1
      PROVE  Holds(s, Held(s))'
    <2>1. Held(s)' = len[s] + 1 /\ Clean(s)' = Clean(s)
        BY <1>1, <1>2 DEF Held, Clean
    <2> QED BY <1>1, <1>3, <2>1 DEF Holds, KeysHold, Hist, Tok
<1> QED BY <1>1, <1>4, <1>5, <1>6, <1>7 DEF CacheInv

\* Every step.
LEMMA CacheStep ==
    ASSUME Constants, CacheInv, [Next]_vars
    PROVE  CacheInv'
<1>1. CASE \E n \in 1 .. Batch : NewRequest(n)
    BY <1>1, NewRequestKeeps
<1>2. CASE \E valid \in [0 .. rows - 1 -> 1 .. Width] : BeginPrefill(valid)
    BY <1>2, BeginKeeps
<1>3. CASE EncodeGroup
    BY <1>3, EncodeKeeps
<1>4. CASE Decode
    BY <1>4, DecodeKeeps
<1>5. CASE UNCHANGED vars
    <2>1. /\ keys' = keys /\ rec' = rec /\ request' = request /\ rows' = rows /\ len' = len
          /\ call' = call /\ next' = next /\ outs' = outs /\ spoilt' = spoilt
        BY <1>5 DEF vars
    <2>2. Shapes' /\ CallInv'
        BY <2>1 DEF CacheInv, Shapes, CallInv, PadsMeet
    <2>3. OutsInv'
        BY <2>1 DEF CacheInv, OutsInv, Result, Reached, Hist, Tok
    <2>4. ASSUME NEW s \in 0 .. rows - 1 PROVE Holds(s, Held(s))'
        <3>1. Held(s)' = Held(s) /\ Clean(s)' = Clean(s)
            BY <2>1 DEF Held, Reached, Clean
        <3> QED BY <2>1, <3>1 DEF CacheInv, Holds, KeysHold, Hist, Tok
    <2> QED BY <2>1, <2>2, <2>3, <2>4 DEF CacheInv
<1> QED BY <1>1, <1>2, <1>3, <1>4, <1>5 DEF Next

(***************************************************************************)
(* The theorems.                                                            *)
(***************************************************************************)

\* In every reachable state the rows hold what their sequences have reached and
\* the outputs are those of the sequences so far, whatever position the library
\* gives a pad: what its meeting a token can spoil is that sequence's.
THEOREM CacheInvariant == ASSUME Constants PROVE Spec => []CacheInv
<1>1. Init => CacheInv
    BY CacheInit
<1>2. CacheInv /\ [Next]_vars => CacheInv'
    BY CacheStep
<1> QED BY <1>1, <1>2, PTL DEF Spec

\* The invariant is what the properties say, and more.
LEMMA CacheInvImplies ==
    ASSUME Constants, CacheInv
    PROVE  RowsHoldTheirSequence /\ OutputsAreSequences /\ (~Chunked => KeysRotatedInPlace)
<1>1. RowsHoldTheirSequence
    BY DEF CacheInv, RowsHoldTheirSequence, Held, Holds, KeysHold, Hist, History, Clean
<1>2. OutputsAreSequences
    <2> SUFFICES ASSUME call = NoCall, outs # <<>>
                 PROVE  /\ Len(outs) = rows
                        /\ \A s \in (0 .. rows - 1) \ spoilt :
                             outs[s + 1] = [last |-> Tok(s, len[s] - 1), keys |-> History(s),
                                            state |-> History(s)]
        BY DEF OutputsAreSequences
    <2>1. /\ outs = [i \in 1 .. rows |-> outs[i]] /\ rows \in Nat
          /\ \A i \in 1 .. rows : i - 1 \notin spoilt => outs[i] = Result(i - 1, len[i - 1])
        BY Sizes DEF CacheInv, OutsInv, Shapes
    <2>2. Len(outs) = rows
        BY <2>1
    <2>3. ASSUME NEW s \in (0 .. rows - 1) \ spoilt PROVE outs[s + 1] = Result(s, len[s])
        <3>1. s + 1 \in 1 .. rows /\ s + 1 - 1 = s
            BY <2>1
        <3> QED BY <2>1, <3>1
    <2> QED BY <2>2, <2>3 DEF Result, Hist, History
<1>3. ~Chunked => KeysRotatedInPlace
    BY DEF CacheInv, KeysRotatedInPlace, Held, Holds, KeysHold, Clean
<1> QED BY <1>1, <1>2, <1>3
================================================================================
