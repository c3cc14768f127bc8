------------------------------ MODULE HybridCache ------------------------------
(***************************************************************************)
(* Batched requests over the hybrid cache manager: every sequence owns one  *)
(* row of the key/value caches and of the DeltaNet states.  The host cuts a *)
(* request into launches of CtxBatch rows and fills the last one; a launch  *)
(* selects its rows by seq_ids, runs, and scatters them back.               *)
(*                                                                          *)
(* A token is named by request, sequence and position; a cached key is the  *)
(* token with the rotary position it was rotated at; a DeltaNet state is the*)
(* sequence of tokens it has consumed, which its window is a suffix of.     *)
(* Where the library's pads carry a position that belongs to a token of     *)
(* their row, the two meet: `spoilt` remembers whom that befell.            *)
(***************************************************************************)
EXTENDS Integers, Sequences, FiniteSetsExt

CONSTANTS
    Batch,          \* kv_cache_batch_size
    PadRows,        \* kv_cache_padding_size
    CtxBatch,       \* rows of a context-encoding launch
    Width,          \* columns of a context-encoding launch
    MaxLen,         \* bound: positions of the cache
    MaxRequests,    \* bound: requests
    Chunked,        \* use_qwen_hybrid_chunked_prefill
    PadPosition(_, _)  \* position id the library gives a pad column, of its
                       \* column and of the position of the row's first column

SizeAssumption ==
    /\ Batch \in Nat \ {0} /\ PadRows \in Nat /\ CtxBatch \in 1 .. Batch
    /\ Width \in Nat \ {0} /\ MaxLen \in Nat /\ Width <= MaxLen
    /\ MaxRequests \in Nat /\ Chunked \in BOOLEAN
\* The rows that fill a launch exist.
PadAssumption == PadRows > 0 \/ Batch % CtxBatch = 0

Row == 0 .. Batch + PadRows - 1
Position == 0 .. MaxLen - 1
Column == 0 .. Width - 1
PadPositionAssumption == \A c \in Column : \A first \in Position : PadPosition(c, first) \in Nat
Empty == [tok |-> <<>>, rot |-> 0]

VARIABLES
    keys,       \* row -> position -> cached key
    rec,        \* row -> tokens its DeltaNet state has consumed
    request,    \* number of the current request
    rows,       \* how many sequences it has, numbered from 0
    len,        \* tokens of each sequence so far
    call,       \* valid columns of each sequence in the prefill under way
    next,       \* first sequence of its next launch
    outs,       \* what the call returned, in order
    spoilt      \* sequences whose pads have met a token of theirs, for the properties

vars == <<keys, rec, request, rows, len, call, next, outs, spoilt>>

NoCall == <<>>
Tok(s, p) == <<request, s, p>>
Pad == <<0, 0, 0>>

-----------------------------------------------------------------------------

Init ==
    /\ keys = [r \in Row |-> [p \in Position |-> Empty]]
    /\ rec = [r \in Row |-> <<>>]
    /\ request = 0 /\ rows = 0 /\ len = [s \in 0 .. Batch - 1 |-> 0]
    /\ call = NoCall /\ next = 0 /\ outs = <<>> /\ spoilt = {}

\* A new static batch of sequences 0 .. n - 1; rows keep what they held.
NewRequest(n) ==
    /\ call = NoCall /\ request < MaxRequests
    /\ request' = request + 1 /\ rows' = n
    /\ len' = [s \in 0 .. Batch - 1 |-> 0]
    /\ outs' = <<>> /\ spoilt' = {}
    /\ UNCHANGED <<keys, rec, call, next>>

\* A pad of a sequence given so many tokens meets one: in a chunk it is written
\* at a position up to the last token's, in a whole prompt it is taken for the
\* last token.
PadsMeet(s, valid) ==
    \E c \in valid .. Width - 1 :
        IF Chunked THEN PadPosition(c, len[s]) < len[s] + valid
                   ELSE PadPosition(c, len[s]) >= valid - 1

\* The host is given the next columns of every sequence, right-padded.
BeginPrefill(valid) ==
    /\ call = NoCall /\ rows > 0
    /\ IF Chunked THEN TRUE ELSE len[0] = 0
    /\ \A s \in 0 .. rows - 1 : len[s] + Width <= MaxLen
    /\ call' = valid /\ next' = 0 /\ outs' = <<>>
    /\ spoilt' = spoilt \cup {s \in 0 .. rows - 1 : PadsMeet(s, valid[s])}
    /\ UNCHANGED <<keys, rec, request, rows, len>>

\* Row of a sequence; one that is out of range falls on the last padding row.
CacheIndex(s) == IF s >= Batch /\ PadRows > 0 THEN Batch + PadRows - 1 ELSE s

\* Mutant: the filling rows are numbered from zero.
ZeroPadSeq(i, actual) == i - actual

\* Sequence number of a row that only fills the launch.
PadSeq(i, actual) == rows + (i - actual)

\* Rows of the launch that starts at sequence cb: whose columns each one holds
\* and which row of the cache it is sent to.  Filling rows copy the first.
LaunchRows(cb) ==
    LET actual == Min({CtxBatch, rows - cb})
    IN  [i \in 0 .. CtxBatch - 1 |->
            IF i < actual THEN [of |-> cb + i, row |-> CacheIndex(cb + i)]
                          ELSE [of |-> cb, row |-> CacheIndex(PadSeq(i, actual))]]

\* Position ids of a sequence's columns.
Pos(s, c) == IF c < call[s] THEN len[s] + c ELSE PadPosition(c, len[s])

\* What a column carries: a token of its sequence, or the pad.
Given(s, c) == IF c < call[s] THEN Tok(s, len[s] + c) ELSE Pad

\* Text-only calls rotate by arange(0, seq_len), whatever the position.
Rotary(c) == c
NewKey(s, c) == [tok |-> Given(s, c), rot |-> Rotary(c)]

Pick(S, low) == IF low THEN Min(S) ELSE Max(S)

\* A row's columns written to their positions; where two meet, either may win.
Scatter(s, old, new, low) ==
    [p \in Position |->
        LET hits == {c \in Column : Pos(s, c) = p}
        IN  IF hits = {} THEN old[p] ELSE new[Pick(hits, low)]]

\* The caches as a chunk's attention reads them: its keys over the row's old
\* ones, pads too.
LocalKeys(s, old, low) == Scatter(s, old, [c \in Column |-> NewKey(s, c)], low)

\* The caches as a launch leaves them: a pad column of a chunk writes back what
\* its position held; a whole prompt fills the prefix, pads too.
KeptKeys(s, old, low) ==
    IF Chunked
      THEN Scatter(s, old, [c \in Column |->
                       IF c < call[s] THEN NewKey(s, c) ELSE old[Pos(s, c)]], low)
      ELSE [p \in Position |-> IF p \in Column THEN NewKey(s, p) ELSE old[p]]

\* State a launch starts from: none for a whole prompt, and for a chunk the
\* row's own unless its first column is position zero.
Seed(s, old) == IF Chunked /\ Pos(s, 0) # 0 THEN old ELSE <<>>

\* DeltaNet steps over the columns; pads pass the state through.
Stepped(s, old) == Seed(s, old) \o [c \in 1 .. call[s] |-> Given(s, c - 1)]

\* Column whose hidden state is returned: the last one the mask counts, or one
\* with the largest position.
LastIndex(s) ==
    IF Chunked THEN {call[s] - 1}
               ELSE {c \in Column : \A d \in Column : Pos(s, d) <= Pos(s, c)}

\* Keys the column's attention reads: a chunk the row's cache with itself in
\* it, a whole prompt only its own columns.
SeenKeys(s, row, low) ==
    IF Chunked THEN LocalKeys(s, keys[row], low) ELSE KeptKeys(s, keys[row], low)

Output(s, row, col, low) ==
    [last |-> Given(s, col),
     keys |-> [p \in 1 .. Pos(s, col) + 1 |-> SeenKeys(s, row, low)[p - 1].tok],
     state |-> Stepped(s, rec[row])]

\* Mutant: the filling rows are returned too.
AllRows(actual) == CtxBatch

\* Rows of a launch that are returned.
Returned(actual) == actual

\* Rows of a launch that are scattered to cache row r.
Senders(lr, r) == {i \in 0 .. CtxBatch - 1 : lr[i].row = r}

\* The caches after a launch: the rows it was sent scattered over the old ones.
KeysAfter(lr, low, lowRow) ==
    [r \in Row |-> IF Senders(lr, r) = {} THEN keys[r]
                   ELSE KeptKeys(lr[Pick(Senders(lr, r), lowRow)].of, keys[r], low)]

\* The states after a launch, in the same way.
StatesAfter(lr, lowRow) ==
    [r \in Row |-> IF Senders(lr, r) = {} THEN rec[r]
                   ELSE Stepped(lr[Pick(Senders(lr, r), lowRow)].of, rec[r])]

\* One launch: the rows selected by seq_ids, stepped and scattered back, for
\* every outcome of positions (low) and of rows (lowRow) that meet.
EncodeGroup ==
    LET lr == LaunchRows(next)
        actual == Min({CtxBatch, rows - next})
    IN  /\ call # NoCall
        /\ \E low \in BOOLEAN, lowRow \in BOOLEAN :
            /\ keys' = KeysAfter(lr, low, lowRow)
            /\ rec' = StatesAfter(lr, lowRow)
            /\ \E col \in [0 .. Returned(actual) - 1 -> Column] :
                /\ \A i \in DOMAIN col : col[i] \in LastIndex(lr[i].of)
                /\ outs' = outs \o [i \in 1 .. Returned(actual) |->
                        Output(lr[i - 1].of, lr[i - 1].row, col[i - 1], low)]
        /\ IF next + actual < rows
             THEN next' = next + actual /\ UNCHANGED <<call, len>>
             ELSE /\ next' = 0 /\ call' = NoCall
                  /\ len' = [s \in 0 .. Batch - 1 |->
                                IF s < rows THEN len[s] + call[s] ELSE len[s]]
        /\ UNCHANGED <<request, rows, spoilt>>

\* Token generation: one launch for all sequences; the empty mrope positions
\* make the graph rotate by position_ids.
Decode ==
    /\ call = NoCall /\ rows > 0
    /\ \A s \in 0 .. rows - 1 : len[s] \in 1 .. MaxLen - 1
    /\ keys' = [r \in Row |->
            IF r < rows THEN [keys[r] EXCEPT ![len[r]] = [tok |-> Tok(r, len[r]), rot |-> len[r]]]
                        ELSE keys[r]]
    /\ rec' = [r \in Row |-> IF r < rows THEN Append(rec[r], Tok(r, len[r])) ELSE rec[r]]
    /\ outs' = [i \in 1 .. rows |->
            [last |-> Tok(i - 1, len[i - 1]),
             keys |-> [p \in 1 .. len[i - 1] + 1 |-> keys'[i - 1][p - 1].tok],
             state |-> rec'[i - 1]]]
    /\ len' = [s \in 0 .. Batch - 1 |-> IF s < rows THEN len[s] + 1 ELSE len[s]]
    /\ UNCHANGED <<request, rows, call, next, spoilt>>

Next ==
    \/ \E n \in 1 .. Batch : NewRequest(n)
    \/ \E valid \in [0 .. rows - 1 -> 1 .. Width] : BeginPrefill(valid)
    \/ EncodeGroup
    \/ Decode

Spec == Init /\ [][Next]_vars

-----------------------------------------------------------------------------
(* Properties *)

TypeOK ==
    /\ DOMAIN keys = Row /\ DOMAIN rec = Row
    /\ \A r \in Row : DOMAIN keys[r] = Position
    /\ request \in 0 .. MaxRequests /\ rows \in 0 .. Batch
    /\ len \in [0 .. Batch - 1 -> 0 .. MaxLen]
    /\ next \in 0 .. Batch - 1 /\ Len(outs) <= rows /\ spoilt \subseteq 0 .. rows - 1

\* What sequence s has been given.
History(s) == [p \in 1 .. len[s] |-> Tok(s, p - 1)]

\* Between calls the row of every sequence holds its own tokens and no other:
\* neither those of a row that filled a launch, nor those of an earlier request.
\* Chunks leave the keys so only where no pad met a token.
RowsHoldTheirSequence ==
    call = NoCall => \A s \in 0 .. rows - 1 :
        /\ len[s] > 0 => rec[s] = History(s)
        /\ s \notin spoilt \/ ~Chunked =>
              \A p \in 1 .. len[s] : keys[s][p - 1].tok = Tok(s, p - 1)

\* A finished call returns one output per sequence, in their order, each the
\* last token's, computed from that sequence's whole past, where no pad met a
\* token of it.
OutputsAreSequences ==
    call = NoCall /\ outs # <<>> =>
        /\ Len(outs) = rows
        /\ \A s \in (0 .. rows - 1) \ spoilt :
            outs[s + 1] = [last |-> Tok(s, len[s] - 1), keys |-> History(s), state |-> History(s)]

\* The attention of a finished call read the keys of its sequence's whole past,
\* whatever the pads carried.
ReadsItsPast ==
    call = NoCall /\ outs # <<>> => \A s \in 0 .. rows - 1 : outs[s + 1].keys = History(s)

\* Every cached key was rotated by the position it is stored at.
KeysRotatedInPlace ==
    call = NoCall => \A s \in 0 .. rows - 1 : \A p \in 1 .. len[s] : keys[s][p - 1].rot = p - 1
=============================================================================
