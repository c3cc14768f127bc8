-------------------------------- MODULE DeltaTkg --------------------------------
(***************************************************************************)
(* One DeltaNet layer of token generation as its kernel runs it: the input  *)
(* projection's row, the causal convolution, the gated delta rule, the gated*)
(* norm and the output projection, on the two cores of a launch.  A core    *)
(* owns a slice of the value heads and of the key heads they read; it meets *)
(* the other core once, to exchange heads before the output projection.     *)
(*                                                                          *)
(* Every 128-wide head is one lane of integers modulo a prime, so that the  *)
(* layouts, offsets and buffers are exact and the arithmetic is too; the    *)
(* pointwise functions are parameters.                                      *)
(***************************************************************************)
EXTENDS Integers, Sequences

CONSTANTS
    Prime,          \* lanes are integers modulo Prime
    Hk, Hv,         \* key heads and value heads of the rank
    Taps,           \* width of the convolution
    Hidden,         \* columns of the output
    Act(_),         \* silu, sigmoid
    Norm(_),        \* l2norm of a key or query, RMS norm of an output
    DecayOf(_, _),  \* exp(-exp(A_log_h) * softplus(a + dt_bias_h)) of a and h
    Weight(_, _),   \* convolution weight of a channel and a tap
    OutWeight(_, _),\* output projection of a head and a column
    Blocks,         \* the blocks of projected rows considered
    MaxBlock,       \* bound: tokens of a block
    MaxLaunches,    \* bound: launches
    Junk            \* what uninitialised device memory holds

Core == 0 .. 1
Lane == 0 .. Prime - 1
Channels == 2 * Hk + Hv
StateW == Taps - 1

HeadsAssumption ==
    /\ Hk \in Nat \ {0} /\ Hv \in Nat \ {0}
    /\ Hk % 2 = 0 /\ Hv % Hk = 0
SizeAssumption ==
    /\ Taps \in Nat \ {0, 1} /\ Hidden \in Nat \ {0} /\ Hidden % 2 = 0
    /\ MaxBlock \in Nat \ {0} /\ MaxLaunches \in Nat
\* Segments of a projected row: convolution channels, then z, a and b of each head.
RowLen == Channels + 3 * Hv
ZOff == Channels
AOff == Channels + Hv
BOff == AOff + Hv
BlocksAssumption ==
    \A b \in Blocks : b # <<>> /\ Len(b) <= MaxBlock /\ \A t \in DOMAIN b : b[t] \in [0 .. RowLen - 1 -> Lane]
JunkAssumption == Junk \notin Int

VARIABLES
    live,       \* the layer's conv window per channel and state per head
    stage,      \* idle, running, finished
    block,      \* projected rows of the launch
    entry,      \* fused, inproj or layer: how much of the layer the launch does
    pc,         \* where each core is
    tiles,      \* each core's q, k, v tiles and windows, set by its convolution
    bufs,       \* each core's two state tiles
    token,      \* each core's next token
    attn,       \* each core's rows of gated output
    full,       \* each core's rows of all heads
    hbm,        \* outputs of the launch
    writes,     \* how often each was written
    launches

vars == <<live, stage, block, entry, pc, tiles, bufs, token, attn, full,
          hbm, writes, launches>>

-----------------------------------------------------------------------------

Add(x, y) == (x + y) % Prime
Mul(x, y) == (x * y) % Prime
Sub(x, y) == (x - y) % Prime
Sum(n, f(_)) == LET s[i \in 0 .. n] == IF i = 0 THEN 0 ELSE Add(s[i - 1], f(i - 1)) IN s[n]

\* The convolution of one window of a channel.
ConvOut(ch, win) == Act(Sum(Taps, LAMBDA j : Mul(Weight(ch, j), win[j + 1])))

-----------------------------------------------------------------------------
(* The layer on one row, without cores: what torch's decode step computes *)

Rep == Hv \div Hk

LayerStep(s, row) ==
    LET win(ch) == Append(s.conv[ch], row[ch])
        y(ch) == ConvOut(ch, win(ch))
        q(h) == Norm(y(h \div Rep))
        k(h) == Norm(y(Hk + (h \div Rep)))
        decayed(h) == Mul(s.rec[h], DecayOf(row[AOff + h], h))
        delta(h) == Mul(Sub(y(2 * Hk + h), Mul(k(h), decayed(h))), Act(row[BOff + h]))
        rec == [h \in 0 .. Hv - 1 |-> Add(decayed(h), Mul(k(h), delta(h)))]
        gated == [h \in 0 .. Hv - 1 |-> Mul(Norm(Mul(q(h), rec[h])), Act(row[ZOff + h]))]
    IN  [conv |-> [ch \in 0 .. Channels - 1 |-> Tail(win(ch))],
         rec |-> rec,
         raw |-> [h \in 0 .. Hv - 1 |-> Mul(q(h), rec[h])],
         attn |-> gated,
         out |-> [col \in 0 .. Hidden - 1 |->
                    Sum(Hv, LAMBDA h : Mul(gated[h], OutWeight(h, col)))]]

\* The layer after the first n rows of a block.
LayerAfter(n) ==
    LET s[i \in 0 .. n] == IF i = 0 THEN live ELSE LayerStep(s[i - 1], block[i]) IN s[n]

-----------------------------------------------------------------------------
(* The kernel *)

T == Len(block)
HkLoc == Hk \div 2
HvLoc == Hv \div 2

\* First value head of a core.
VhOff(c) == c * HvLoc

\* The channel segments a core owns: its q, k and v heads.
ShardSegments(c) ==
    <<[first |-> c * HkLoc, n |-> HkLoc],
      [first |-> Hk + c * HkLoc, n |-> HkLoc],
      [first |-> 2 * Hk + VhOff(c), n |-> HvLoc]>>

\* Carried window, then the block's columns, for each channel of a segment.
Window(seg) ==
    [i \in 0 .. seg.n - 1 |->
        live.conv[seg.first + i] \o [t \in 1 .. T |-> block[t][seg.first + i]]]

\* Rows i * T + t of a segment's output tile.
Tile(seg) ==
    [r \in 0 .. seg.n * T - 1 |->
        LET i == r \div T
            t == r % T
        IN  ConvOut(seg.first + i, SubSeq(Window(seg)[i], t + 1, t + Taps))]

\* Outputs of a launch: window and state after every token of the block (a
\* decode launch is a block of one), and the layer's output or the head's rows.
Cells ==
    ({"conv"} \X (0 .. T - 1) \X (0 .. Channels - 1))
      \cup ({"rec"} \X (0 .. T - 1) \X (0 .. Hv - 1))
      \cup (IF entry = "layer" THEN {"out"} \X (0 .. T - 1) \X (0 .. Hidden - 1)
                               ELSE {"attn"} \X (0 .. T - 1) \X (0 .. Hv - 1))

\* The cells of a store get their values.
Write(values) ==
    /\ hbm' = [x \in DOMAIN hbm |-> IF x \in DOMAIN values THEN values[x] ELSE hbm[x]]
    /\ writes' = [x \in DOMAIN writes |->
                    IF x \in DOMAIN values THEN writes[x] + 1 ELSE writes[x]]

Init ==
    /\ live = [conv |-> [ch \in 0 .. Channels - 1 |-> [i \in 1 .. StateW |-> 0]],
               rec |-> [h \in 0 .. Hv - 1 |-> 0]]
    /\ stage = "idle" /\ block = <<>>
    /\ entry = "none"
    /\ pc = [c \in Core |-> "off"] /\ tiles = [c \in Core |-> <<>>]
    /\ bufs = [c \in Core |-> <<>>] /\ token = [c \in Core |-> 0]
    /\ attn = [c \in Core |-> <<>>] /\ full = [c \in Core |-> <<>>]
    /\ hbm = <<>> /\ writes = <<>> /\ launches = 0

\* A launch of one entry point on a block of rows.  Outputs and state tiles
\* start as whatever the memory holds.
Launch(rows, v) ==
    /\ stage = "idle" /\ launches < MaxLaunches
    /\ block' = rows /\ entry' = v
    /\ stage' = "running" /\ launches' = launches + 1
    /\ pc' = [c \in Core |-> "conv"]
    /\ token' = [c \in Core |-> 0]
    /\ tiles' = [c \in Core |-> <<>>]
    /\ bufs' = [c \in Core |-> <<>>]
    /\ attn' = [c \in Core |-> <<>>] /\ full' = [c \in Core |-> <<>>]
    /\ hbm' = [x \in Cells' |-> Junk] /\ writes' = [x \in Cells' |-> 0]
    /\ UNCHANGED live

\* The fused entry points store the windows before the recurrence, those that
\* also project their input after it.
AfterConv == IF entry = "fused" THEN "drain" ELSE "seed"
AfterTokens == IF entry = "fused" THEN "done" ELSE "drain"
AfterDrain == CASE entry = "fused" -> "seed" [] entry = "inproj" -> "done"
                [] entry = "layer" -> "exchange"

\* A core's convolution: its three output tiles; the windows wait to be stored.
Conv(c) ==
    /\ pc[c] = "conv"
    /\ tiles' = [tiles EXCEPT ![c] =
            [q |-> Tile(ShardSegments(c)[1]), k |-> Tile(ShardSegments(c)[2]),
             v |-> Tile(ShardSegments(c)[3]), pending |-> ShardSegments(c)]]
    /\ pc' = [pc EXCEPT ![c] = AfterConv]
    /\ UNCHANGED <<live, stage, block, entry, bufs, token, attn, full, hbm, writes, launches>>

\* Mutant: the candidate window still holds the column before the token's own.
EarlyWindow(win, t) == SubSeq(win, t + 1, t + StateW)

\* The window after token t of the block.
Candidate(win, t) == SubSeq(win, t + 2, t + 1 + StateW)

\* The windows of one pending segment are stored, one after every token.
Drain(c) ==
    LET seg == Head(tiles[c].pending)
    IN  /\ pc[c] = "drain"
        /\ Write([x \in {"conv"} \X (0 .. T - 1) \X (seg.first .. seg.first + seg.n - 1) |->
                    Candidate(Window(seg)[x[3] - seg.first], x[2])])
        /\ tiles' = [tiles EXCEPT ![c].pending = Tail(@)]
        /\ pc' = [pc EXCEPT ![c] = IF tiles'[c].pending = <<>> THEN AfterDrain ELSE "drain"]
        /\ UNCHANGED <<live, stage, block, entry, bufs, token, attn, full, launches>>

\* The first state tile is loaded with the core's heads.
Seed(c) ==
    /\ pc[c] = "seed"
    /\ bufs' = [bufs EXCEPT ![c] =
            [b \in 0 .. 1 |-> [h \in 0 .. HvLoc - 1 |->
                IF b = 0 THEN live.rec[VhOff(c) + h] ELSE Junk]]]
    /\ pc' = [pc EXCEPT ![c] = "token"]
    /\ UNCHANGED <<live, stage, block, entry, tiles, token, attn, full, hbm, writes, launches>>

\* The key head a value head of the same core reads.
Group(h) == h \div Rep

\* The tile token t reads; it writes the other one.
SrcBuf(t) == t % 2

\* Gates of a core's head, from the columns of its own heads in the row.
DecayGate(c, row, h) == DecayOf(row[AOff + VhOff(c) + h], VhOff(c) + h)
Beta(c, row, h) == Act(row[BOff + VhOff(c) + h])

\* Query or key of a head at token t: l2-normed row of the convolution's tile.
NormedHead(tile, h, t) == Norm(tile[Group(h) * T + t])

\* Norm and gate of an output, for the entries that have them.
NormGate(c, row, h, o) == Mul(Norm(o), Act(row[ZOff + VhOff(c) + h]))

\* One token: decay the tile into the other one, read it with key and query in
\* one pass, add the gated difference, and form the output from the two reads:
\* q.S + beta (q.k) delta.  The fused entry leaves norm and gate to the host.
StepToken(c) ==
    LET t == token[c]
        row == block[t + 1]
        q(h) == NormedHead(tiles[c].q, h, t)
        k(h) == NormedHead(tiles[c].k, h, t)
        beta(h) == Beta(c, row, h)
        decayed(h) == Mul(bufs[c][SrcBuf(t)][h], DecayGate(c, row, h))
        delta(h) == Sub(tiles[c].v[h * T + t], Mul(k(h), decayed(h)))
        next == [h \in 0 .. HvLoc - 1 |-> Add(decayed(h), Mul(Mul(k(h), beta(h)), delta(h)))]
        o(h) == Add(Mul(q(h), decayed(h)), Mul(Mul(beta(h), Mul(q(h), k(h))), delta(h)))
        outRow == [h \in 0 .. HvLoc - 1 |->
            IF entry = "fused" THEN o(h) ELSE NormGate(c, row, h, o(h))]
        mine == VhOff(c) .. VhOff(c) + HvLoc - 1
    IN  /\ pc[c] = "token"
        /\ bufs' = [bufs EXCEPT ![c][1 - SrcBuf(t)] = next]
        /\ attn' = [attn EXCEPT ![c] = Append(@, outRow)]
        /\ Write([x \in (IF entry = "layer" THEN {"rec"} ELSE {"rec", "attn"}) \X {t} \X mine |->
                    (IF x[1] = "attn" THEN outRow ELSE next)[x[3] - VhOff(c)]])
        /\ token' = [token EXCEPT ![c] = t + 1]
        /\ pc' = [pc EXCEPT ![c] = IF t + 1 = T THEN AfterTokens ELSE "token"]
        /\ UNCHANGED <<live, stage, block, entry, tiles, full, launches>>

Meeting == \A c \in Core : pc[c] = "exchange"

\* sendrecv: each core receives the other's heads into their global places.
Exchange ==
    /\ stage = "running" /\ Meeting
    /\ full' = [c \in Core |->
            [t \in 1 .. T |-> [h \in 0 .. Hv - 1 |->
                LET owner == h \div HvLoc IN attn[owner][t][h - VhOff(owner)]]]]
    /\ pc' = [c \in Core |-> "project"]
    /\ UNCHANGED <<live, stage, block, entry, tiles, bufs, token, attn, hbm, writes, launches>>

\* The output projection over all heads, for the core's half of the columns.
Project(c) ==
    LET cols == c * (Hidden \div 2) .. (c + 1) * (Hidden \div 2) - 1
    IN  /\ pc[c] = "project"
        /\ Write([x \in {"out"} \X (0 .. T - 1) \X cols |->
                    Sum(Hv, LAMBDA h : Mul(full[c][x[2] + 1][h], OutWeight(h, x[3])))])
        /\ pc' = [pc EXCEPT ![c] = "done"]
        /\ UNCHANGED <<live, stage, block, entry, tiles, bufs, token, attn, full, launches>>

Finish ==
    /\ stage = "running" /\ \A c \in Core : pc[c] = "done"
    /\ stage' = "finished"
    /\ UNCHANGED <<live, block, entry, pc, tiles, bufs, token, attn, full, hbm, writes, launches>>

\* The candidate the host accepts becomes the live state.
Commit(slot) ==
    /\ stage = "finished" /\ slot \in 0 .. T - 1
    /\ live' = [conv |-> [ch \in 0 .. Channels - 1 |-> hbm[<<"conv", slot, ch>>]],
                rec |-> [h \in 0 .. Hv - 1 |-> hbm[<<"rec", slot, h>>]]]
    /\ stage' = "idle" /\ block' = <<>>
    /\ entry' = "none"
    /\ pc' = [c \in Core |-> "off"] /\ token' = [c \in Core |-> 0]
    /\ tiles' = [c \in Core |-> <<>>] /\ bufs' = [c \in Core |-> <<>>]
    /\ attn' = [c \in Core |-> <<>>] /\ full' = [c \in Core |-> <<>>]
    /\ hbm' = <<>> /\ writes' = <<>>
    /\ UNCHANGED launches

Step(c) == Conv(c) \/ Drain(c) \/ Seed(c) \/ StepToken(c) \/ Project(c)

Work == (\E c \in Core : Step(c)) \/ Exchange \/ Finish

Next ==
    \/ \E rows \in Blocks, v \in {"fused", "inproj", "layer"} : Launch(rows, v)
    \/ Work
    \/ \E slot \in 0 .. MaxBlock - 1 : Commit(slot)

\* The queues of a launch run to their end.
Spec == Init /\ [][Next]_vars /\ WF_vars(Work)

-----------------------------------------------------------------------------
(* Properties *)

TypeOK ==
    /\ stage \in {"idle", "running", "finished"}
    /\ live.conv \in [0 .. Channels - 1 -> [1 .. StateW -> Lane]]
    /\ live.rec \in [0 .. Hv - 1 -> Lane]
    /\ pc \in [Core -> {"off", "conv", "drain", "seed", "token", "exchange", "project", "done"}]
    /\ token \in [Core -> 0 .. MaxBlock]
    /\ launches \in 0 .. MaxLaunches
    /\ \A x \in DOMAIN hbm : hbm[x] # Junk =>
            hbm[x] \in IF x[1] = "conv" THEN [1 .. StateW -> Lane] ELSE Lane

Expected(x) ==
    LET after == LayerAfter(x[2] + 1)
    IN  CASE x[1] = "conv" -> after.conv[x[3]]
          [] x[1] = "rec" -> after.rec[x[3]]
          [] x[1] = "attn" -> IF entry = "fused" THEN after.raw[x[3]] ELSE after.attn[x[3]]
          [] x[1] = "out" -> after.out[x[3]]

\* A finished launch leaves in every output what the layer computes on the
\* rows one after the other: no cell is left unwritten, whatever the cores'
\* relative speed, and the candidate of each token is the state after it.
LaunchIsLayer == stage = "finished" => \A x \in DOMAIN hbm : hbm[x] = Expected(x)

\* The cores' shares of the outputs are disjoint: nothing is written twice.
WrittenOnce == \A x \in DOMAIN writes : writes[x] <= 1

\* The cores meet: a launch always ends.
LaunchEnds == stage = "running" ~> stage = "finished"
=============================================================================
