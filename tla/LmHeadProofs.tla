---------------------------- MODULE LmHeadProofs ----------------------------
(***************************************************************************)
(* Every core of every rank ends the LM head with torch.argmax of the row   *)
(* that none of them ever sees whole: for every number of ranks, one core   *)
(* or two, every width of a core and of an instruction, every row, and      *)
(* every order in which the cores run.                                      *)
(***************************************************************************)
EXTENDS LmHead, WellFoundedInduction, TLAPS

\* The assumptions of LmHead; the last is what the code says of its constant, that
\* it is above any real global vocab id.
Constants ==
    /\ TpDegreeAssumption /\ NPrgsAssumption /\ VCoreAssumption
    /\ WidthAssumption /\ RowsAssumption /\ LoserAssumption

(***************************************************************************)
(* Least and greatest.                                                      *)
(***************************************************************************)

\* A nonempty set of naturals has a least element.
LEMMA LeastNat ==
    ASSUME NEW S \in SUBSET Nat, S # {}
    PROVE  \E m \in S : \A k \in S : m <= k
<1>1. PICK m \in S : \A k \in S : ~(<<k, m>> \in OpToRel(<, Nat))
    BY NatLessThanWellFounded, WFMin
<1>2. \A k \in S : ~(k < m)
    BY <1>1 DEF OpToRel
<1> QED BY <1>2

\* MinOf and MaxOf are what their names say, whenever there is such an element.
LEMMA MinIs ==
    ASSUME NEW S \in SUBSET Int, NEW x \in S, \A y \in S : x <= y
    PROVE  MinOf(S) = x
<1>1. \A z \in S : (\A y \in S : z <= y) => z = x
    OBVIOUS
<1> QED BY <1>1 DEF MinOf

\* The greatest, likewise.
LEMMA MaxIs ==
    ASSUME NEW S \in SUBSET Int, NEW x \in S, \A y \in S : y <= x
    PROVE  MaxOf(S) = x
<1>1. \A z \in S : (\A y \in S : y <= z) => z = x
    OBVIOUS
<1> QED BY <1>1 DEF MaxOf

\* i is the lowest of the columns ids that hold their largest logit.
IsGreedy(ids, i) ==
    /\ i \in ids
    /\ \A j \in ids : row[j] <= row[i] /\ (row[j] = row[i] => i <= j)

\* The columns below a bound have a largest logit: the bound is lowered to 0
\* while the best column from it on is kept.
LEMMA PeakExists ==
    ASSUME NEW ids \in SUBSET Vocab, ids # {}, NEW n \in Nat, Vocab = 0 .. n - 1,
           row \in [Vocab -> Int]
    PROVE  \E i \in ids : \A j \in ids : row[j] <= row[i]
<1> DEFINE From(k) == \E i \in ids : \A j \in ids : j >= k => row[j] <= row[i]
<1> HIDE DEF From
<1> DEFINE S == {k \in 0 .. n : From(k)}
<1>1. \A i \in ids : i \in 0 .. n - 1 /\ i \in Int /\ row[i] \in Int
    OBVIOUS
<1>2. From(n)
    <2>1. PICK i \in ids : TRUE
        OBVIOUS
    <2>2. \A j \in ids : ~(j >= n)
        BY <1>1
    <2> QED BY <2>1, <2>2 DEF From
<1>3. PICK k \in 0 .. n : From(k) /\ \A m \in 0 .. n : From(m) => k <= m
    <2>1. S \in SUBSET Nat
        OBVIOUS
    <2>2. n \in S
        BY <1>2
    <2>3. PICK k \in S : \A m \in S : k <= m
        <3> HIDE DEF S
        <3> QED BY <2>1, <2>2, LeastNat
    <2> QED BY <2>3
<1>4. PICK i \in ids : \A j \in ids : j >= k => row[j] <= row[i]
    BY <1>3 DEF From
<1>5. CASE k = 0
    BY <1>1, <1>4, <1>5
<1>6. CASE k # 0
    <2>1. k - 1 \in 0 .. n /\ ~(k <= k - 1)
        BY <1>6
    <2>2. \A j \in ids : j >= k - 1 => j >= k \/ j = k - 1
        BY <1>1
    <2>3. CASE k - 1 \in ids /\ row[k - 1] > row[i]
        <3>1. \A j \in ids : j >= k - 1 => row[j] <= row[k - 1]
            BY <1>1, <1>4, <2>2, <2>3
        <3> QED BY <1>3, <2>1, <2>3, <3>1 DEF From
    <2>4. CASE ~(k - 1 \in ids /\ row[k - 1] > row[i])
        <3>1. \A j \in ids : j >= k - 1 => row[j] <= row[i]
            BY <1>1, <1>4, <2>2, <2>4
        <3> QED BY <1>3, <2>1, <3>1 DEF From
    <2> QED BY <2>3, <2>4
<1> QED BY <1>5, <1>6

\* torch.argmax of a nonempty set of columns exists, and is the only one.
LEMMA GreedyExists ==
    ASSUME NEW ids \in SUBSET Vocab, ids # {}, NEW n \in Nat, Vocab = 0 .. n - 1,
           row \in [Vocab -> Int]
    PROVE  IsGreedy(ids, Greedy(ids))
<1> DEFINE Top(i) == \A j \in ids : row[j] <= row[i]
<1> HIDE DEF Top
<1> DEFINE S == {i \in ids : Top(i)}
<1>1. \A i \in ids : i \in Nat /\ row[i] \in Int
    OBVIOUS
<1>2. S # {}
    BY PeakExists DEF Top
<1>3. S \in SUBSET Nat /\ S \in SUBSET Int
    <2>1. \A i \in S : i \in Nat
        BY <1>1
    <2> HIDE DEF S
    <2> QED BY <2>1
<1>4. PICK m \in S : \A k \in S : m <= k
    <2> HIDE DEF S
    <2> QED BY <1>2, <1>3, LeastNat
<1>5. MinOf(S) = m
    <2> HIDE DEF S
    <2> QED BY <1>3, <1>4, MinIs
<1>6. IsGreedy(ids, m)
    <2>1. m \in ids /\ \A j \in ids : row[j] <= row[m]
        BY <1>4 DEF Top
    <2>2. ASSUME NEW j \in ids, row[j] = row[m]
          PROVE  m <= j
        <3>1. j \in S
            BY <2>1, <2>2 DEF Top
        <3> QED BY <1>4, <3>1
    <2> QED BY <2>1, <2>2 DEF IsGreedy
<1>7. Greedy(ids) = m
    BY <1>5 DEF Greedy, Top
<1> QED BY <1>6, <1>7

\* Greedy is the one column there is with that description.
LEMMA GreedyUnique ==
    ASSUME NEW ids \in SUBSET Vocab, NEW n \in Nat, Vocab = 0 .. n - 1,
           row \in [Vocab -> Int], NEW i, IsGreedy(ids, i)
    PROVE  Greedy(ids) = i
<1>1. \A j \in ids : j \in Nat /\ row[j] \in Int
    OBVIOUS
<1>2. PICK g : g = Greedy(ids)
    OBVIOUS
<1>3. IsGreedy(ids, g)
    BY <1>2, GreedyExists DEF IsGreedy
<1>4. g \in ids /\ i \in ids
    BY <1>3 DEF IsGreedy
<1>5. row[g] <= row[i] /\ row[i] <= row[g]
    BY <1>3, <1>4 DEF IsGreedy
<1>6. row[g] = row[i]
    BY <1>1, <1>4, <1>5
<1>7. g <= i /\ i <= g
    BY <1>3, <1>4, <1>6 DEF IsGreedy
<1> QED BY <1>1, <1>2, <1>4, <1>7

(***************************************************************************)
(* The columns of chunks, cores and ranks.                                  *)
(***************************************************************************)

\* The sizes of the launch.
LEMMA Sizes ==
    ASSUME Constants
    PROVE  /\ TpDegree \in Nat \ {0} /\ NPrgs \in {1, 2} /\ VCore \in Nat \ {0}
           /\ VRank \in Nat \ {0} /\ VRank = NPrgs * VCore
           /\ TpDegree * VRank \in Nat \ {0} /\ Vocab = 0 .. TpDegree * VRank - 1
           /\ NChunks \in Nat \ {0} /\ ChunkWidth \in Nat \ {0}
<1>1. /\ TpDegree \in Nat \ {0} /\ NPrgs \in {1, 2} /\ VCore \in Nat \ {0}
      /\ MaxReduceWidth \in Nat \ {0}
    BY DEF Constants, TpDegreeAssumption, NPrgsAssumption, VCoreAssumption, WidthAssumption
<1>2. VRank \in Nat \ {0} /\ VRank = NPrgs * VCore
    BY <1>1 DEF VRank
<1>3. TpDegree * VRank \in Nat \ {0}
    BY <1>1, <1>2
<1>4. \A a, b \in Nat \ {0} : DivCeil(a, b) \in Nat \ {0}
    BY DEF DivCeil
<1>5. NChunks \in Nat \ {0}
    BY <1>1, <1>4 DEF NChunks
<1>6. ChunkWidth \in Nat \ {0}
    BY <1>1, <1>4, <1>5 DEF ChunkWidth
<1> QED BY <1>1, <1>2, <1>3, <1>5, <1>6 DEF Vocab

\* The chunks of staged_argmax cover a core's columns, none of them is empty,
\* and none is wider than one instruction can reduce.
LEMMA ChunksCover ==
    ASSUME Constants
    PROVE  /\ NChunks * ChunkWidth >= VCore
           /\ ChunkWidth <= MaxReduceWidth
           /\ \A c \in 0 .. NChunks - 1 : c * ChunkWidth < VCore
<1>1. /\ VCore \in Nat \ {0} /\ MaxReduceWidth \in Nat \ {0}
      /\ NChunks \in Nat \ {0} /\ ChunkWidth \in Nat \ {0}
    BY Sizes DEF Constants, WidthAssumption
<1>2. \A a, b \in Nat \ {0} : b * DivCeil(a, b) >= a /\ b * (DivCeil(a, b) - 1) < a
    BY DEF DivCeil
<1>3. MaxReduceWidth * NChunks >= VCore /\ MaxReduceWidth * (NChunks - 1) < VCore
    BY <1>1, <1>2 DEF NChunks
<1>4. NChunks * ChunkWidth >= VCore /\ NChunks * (ChunkWidth - 1) < VCore
    BY <1>1, <1>2 DEF ChunkWidth
<1>5. ChunkWidth <= MaxReduceWidth
    <2>1. SUFFICES ASSUME MaxReduceWidth <= ChunkWidth - 1 PROVE FALSE
        BY <1>1
    <2>2. NChunks * MaxReduceWidth <= NChunks * (ChunkWidth - 1)
        BY <1>1, <2>1
    <2> QED BY <1>1, <1>3, <1>4, <2>2
<1>6. ASSUME NEW c \in 0 .. NChunks - 1
      PROVE  c * ChunkWidth < VCore
    <2>1. c * ChunkWidth <= (NChunks - 1) * ChunkWidth
        BY <1>1
    <2>2. (NChunks - 1) * ChunkWidth <= (NChunks - 1) * MaxReduceWidth
        BY <1>1, <1>5
    <2> QED BY <1>1, <1>3, <2>1, <2>2
<1> QED BY <1>4, <1>5, <1>6

\* Products of naturals.
LEMMA Times ==
    \A a, b, c \in Nat : a * c \in Nat /\ (a <= b => a * c <= b * c)
OBVIOUS

\* A number below m * n lies in one of m blocks of n.
LEMMA BlockOf ==
    ASSUME NEW n \in Nat \ {0}, NEW m \in Nat, NEW g \in Nat, g < m * n
    PROVE  \E b \in 0 .. m - 1 : b * n <= g /\ g < (b + 1) * n
<1> DEFINE S == {b \in Nat : g < (b + 1) * n}
<1>1. m \in Nat \ {0} /\ m - 1 \in S
    <2>1. m # 0
        OBVIOUS
    <2>2. m - 1 \in Nat /\ (m - 1) + 1 = m
        BY <2>1
    <2> QED BY <2>1, <2>2
<1>2. PICK b \in S : \A k \in S : b <= k
    <2>1. S \in SUBSET Nat
        OBVIOUS
    <2>2. S # {}
        BY <1>1
    <2> HIDE DEF S
    <2> QED BY <2>1, <2>2, LeastNat
<1>3. b * n <= g
    <2>1. CASE b = 0
        BY <2>1
    <2>2. CASE b # 0
        <3>1. b - 1 \in Nat /\ b - 1 \notin S /\ (b - 1) + 1 = b
            BY <1>2, <2>2
        <3> QED BY <3>1
    <2> QED BY <2>1, <2>2
<1>4. b \in 0 .. m - 1 /\ g < (b + 1) * n
    BY <1>1, <1>2
<1> QED BY <1>3, <1>4

\* The winner of a core's own columns and its place among them.
Top(p) == Greedy(CoreIds(p))
Place(p) == Top(p) - RankBase(p) - ShardBase(p)

\* Where the columns of a rank and of a core lie.
LEMMA Columns ==
    ASSUME Constants, row \in Rows, NEW p \in Cores
    PROVE  /\ row \in [Vocab -> Int]
           /\ RankBase(p) \in Nat /\ RankBase(p) + VRank <= TpDegree * VRank
           /\ ShardBase(p) \in Nat /\ ShardBase(p) + VCore <= VRank
           /\ \A g \in 0 .. VCore - 1 :
                 RankBase(p) + ShardBase(p) + g \in Vocab /\ Logit(p, g) \in Int
           /\ CoreIds(p) \in SUBSET RankIds(p) /\ CoreIds(p) # {}
           /\ RankIds(p) \in SUBSET Vocab
<1>1. row \in [Vocab -> Int]
    BY DEF Constants, RowsAssumption
<1>2. /\ TpDegree \in Nat \ {0} /\ NPrgs \in {1, 2} /\ VCore \in Nat \ {0}
      /\ VRank \in Nat \ {0} /\ VRank = NPrgs * VCore /\ Vocab = 0 .. TpDegree * VRank - 1
      /\ TpDegree * VRank \in Nat
    BY Sizes
<1>3. p[1] \in 0 .. TpDegree - 1 /\ p[2] \in 0 .. NPrgs - 1
    BY DEF Cores
<1>4. RankBase(p) \in Nat /\ RankBase(p) + VRank <= TpDegree * VRank
    <2>1. p[1] * VRank \in Nat /\ p[1] * VRank <= (TpDegree - 1) * VRank
        <3>1. p[1] \in Nat /\ TpDegree - 1 \in Nat /\ p[1] <= TpDegree - 1 /\ VRank \in Nat
            BY <1>2, <1>3
        <3> QED BY <3>1, Times
    <2>2. (TpDegree - 1) * VRank + VRank = TpDegree * VRank
        BY <1>2
    <2> QED BY <1>2, <2>1, <2>2 DEF RankBase, Rank
<1>5. ShardBase(p) \in Nat /\ ShardBase(p) + VCore <= VRank
    <2>1. CASE NPrgs = 1
        <3>1. p[2] = 0 /\ VRank = VCore
            BY <1>2, <1>3, <2>1
        <3> QED BY <1>2, <3>1 DEF ShardBase, Prg
    <2>2. CASE NPrgs = 2
        <3>1. (p[2] = 0 \/ p[2] = 1) /\ VRank = 2 * VCore
            BY <1>2, <1>3, <2>2
        <3> QED BY <1>2, <3>1 DEF ShardBase, Prg
    <2> QED BY <1>2, <2>1, <2>2
<1>6. ASSUME NEW g \in 0 .. VCore - 1
      PROVE  /\ RankBase(p) + ShardBase(p) + g \in RankBase(p) .. RankBase(p) + VRank - 1
             /\ RankBase(p) + ShardBase(p) + g \in Vocab /\ Logit(p, g) \in Int
    <2>1. RankBase(p) + ShardBase(p) + g \in RankBase(p) .. RankBase(p) + VRank - 1
          /\ RankBase(p) + ShardBase(p) + g \in Vocab
        BY <1>2, <1>4, <1>5
    <2> QED BY <1>1, <2>1 DEF Logit
<1>7. CoreIds(p) \in SUBSET RankIds(p)
    BY <1>6 DEF CoreIds, RankIds
<1>8. RankBase(p) + ShardBase(p) + 0 \in CoreIds(p)
    BY <1>2 DEF CoreIds
<1>9. RankIds(p) \in SUBSET Vocab
    BY <1>2, <1>4 DEF RankIds
<1> QED BY <1>1, <1>4, <1>5, <1>6, <1>7, <1>8, <1>9

\* The winner of a core, as a column of the core.
LEMMA CorePeak ==
    ASSUME Constants, row \in Rows, NEW p \in Cores
    PROVE  /\ Place(p) \in 0 .. VCore - 1 /\ Top(p) = RankBase(p) + ShardBase(p) + Place(p)
           /\ row[Top(p)] = Logit(p, Place(p))
           /\ \A g \in 0 .. VCore - 1 :
                 /\ Logit(p, g) <= Logit(p, Place(p))
                 /\ Logit(p, g) = Logit(p, Place(p)) => Place(p) <= g
<1>1. /\ row \in [Vocab -> Int]
      /\ RankBase(p) \in Nat /\ ShardBase(p) \in Nat
      /\ CoreIds(p) \in SUBSET Vocab /\ CoreIds(p) # {}
    BY Columns
<1>2. PICK n \in Nat : n = TpDegree * VRank /\ Vocab = 0 .. n - 1
    BY Sizes
<1>3. IsGreedy(CoreIds(p), Top(p))
    BY <1>1, <1>2, GreedyExists DEF Top
<1>4. PICK g \in 0 .. VCore - 1 : Top(p) = RankBase(p) + ShardBase(p) + g
    BY <1>3 DEF IsGreedy, CoreIds
<1>5. VCore \in Nat
    BY Sizes
<1>6. Place(p) = g
    BY <1>1, <1>4, <1>5 DEF Place
<1>7. ASSUME NEW x \in 0 .. VCore - 1
      PROVE  /\ Logit(p, x) <= Logit(p, g)
             /\ Logit(p, x) = Logit(p, g) => g <= x
    <2>1. RankBase(p) + ShardBase(p) + x \in CoreIds(p)
        BY DEF CoreIds
    <2>2. /\ Logit(p, x) <= Logit(p, g)
          /\ Logit(p, x) = Logit(p, g) => Top(p) <= RankBase(p) + ShardBase(p) + x
        BY <1>3, <1>4, <2>1 DEF IsGreedy, Logit
    <2> QED BY <1>1, <1>4, <1>5, <2>2
<1>8. row[Top(p)] = Logit(p, g)
    BY <1>4 DEF Logit
<1> QED BY <1>4, <1>6, <1>7, <1>8

\* m is the largest logit of a chunk of a core.
ChunkPeak(p, c, m) ==
    (\E g \in Chunk(c) : m = Logit(p, g)) /\ \A g \in Chunk(c) : Logit(p, g) <= m

\* What the first loop of staged_argmax finds in a chunk.
LEMMA ChunkMaximum ==
    ASSUME Constants, row \in Rows, NEW p \in Cores, NEW c \in 0 .. NChunks - 1
    PROVE  ChunkPeak(p, c, MaxOf({Logit(p, g) : g \in Chunk(c)}))
<1> DEFINE base == RankBase(p) + ShardBase(p)
           ids == {base + g : g \in Chunk(c)}
<1>1. /\ row \in [Vocab -> Int] /\ base \in Nat
      /\ \A g \in 0 .. VCore - 1 : base + g \in Vocab /\ Logit(p, g) \in Int
    BY Columns
<1>2. PICK n \in Nat : n = TpDegree * VRank /\ Vocab = 0 .. n - 1
    BY Sizes
<1>3. Chunk(c) \in SUBSET (0 .. VCore - 1)
    BY DEF Chunk
<1>4. c * ChunkWidth \in Chunk(c)
    <2>1. c \in Nat /\ VCore \in Nat /\ ChunkWidth \in Nat \ {0} /\ c * ChunkWidth < VCore
        BY Sizes, ChunksCover
    <2>2. c * ChunkWidth \in 0 .. VCore - 1 /\ c * ChunkWidth < (c + 1) * ChunkWidth
        BY <2>1
    <2> QED BY <2>1, <2>2 DEF Chunk
<1>5. PICK i \in ids : \A j \in ids : row[j] <= row[i]
    <2>1. ids \in SUBSET Vocab /\ ids # {}
        BY <1>1, <1>3, <1>4
    <2> HIDE DEF ids
    <2> QED BY <1>1, <1>2, <2>1, PeakExists
<1>6. PICK g \in Chunk(c) : i = base + g
    BY <1>5
<1>7. \A x \in Chunk(c) : Logit(p, x) <= Logit(p, g)
    BY <1>5, <1>6 DEF Logit
<1>8. MaxOf({Logit(p, x) : x \in Chunk(c)}) = Logit(p, g)
    <2> DEFINE S == {Logit(p, x) : x \in Chunk(c)}
    <2>1. S \in SUBSET Int /\ Logit(p, g) \in S /\ \A y \in S : y <= Logit(p, g)
        BY <1>1, <1>3, <1>6, <1>7
    <2> HIDE DEF S
    <2>2. MaxOf(S) = Logit(p, g)
        BY <2>1, MaxIs
    <2> QED BY <2>2 DEF S
<1> QED BY <1>6, <1>7, <1>8 DEF ChunkPeak

(***************************************************************************)
(* The inductive invariant.                                                 *)
(***************************************************************************)
Phases == {"reduce", "find", "copy", "send", "receive", "gather", "done"}

\* Every core has its own entry in every array.
Arrays ==
    /\ row \in Rows
    /\ pc \in [Cores -> Phases]
    /\ chunk \in [Cores -> 0 .. NChunks - 1]
    /\ bestR \in [Cores -> 0 .. VCore]
    /\ DOMAIN chunkMax = Cores /\ DOMAIN core = Cores /\ DOMAIN sent = Cores
    /\ DOMAIN rank = Cores /\ DOMAIN token = Cores

CoreWinner(p) == <<row[Top(p)], Top(p) - RankBase(p)>>
RankWinner(p) == <<row[Greedy(RankIds(p))], Greedy(RankIds(p)) - RankBase(p)>>

\* The running best of the second loop, before chunk c: the reversed index of
\* the winner once its chunk was searched, 0 before.
BestBefore(p, c) == IF Place(p) < c * ChunkWidth THEN VCore - Place(p) ELSE 0

\* Chunks reduced and the best found, by the loops of staged_argmax.
SearchInv(p) ==
    /\ DOMAIN chunkMax[p] = IF pc[p] = "reduce" THEN 0 .. chunk[p] - 1 ELSE 0 .. NChunks - 1
    /\ \A c \in DOMAIN chunkMax[p] : ChunkPeak(p, c, chunkMax[p][c])
    /\ pc[p] = "find" => bestR[p] = BestBefore(p, chunk[p])

\* Whatever has left a core is right.
ResultInv(p) ==
    /\ pc[p] \notin {"reduce", "find"} => core[p] = CoreWinner(p)
    /\ core[p] # Nothing => core[p][2] \in 0 .. VRank
    /\ sent[p] # Nothing => sent[p] = CoreWinner(p)
    /\ rank[p] # Nothing => rank[p] = RankWinner(p)
    /\ token[p] # Nothing => token[p] = <<Greedy(Vocab)>>
    /\ pc[p] = "copy" => NPrgs = 1
    /\ pc[p] \in {"send", "receive"} => NPrgs = 2

ArgmaxInv == Arrays /\ \A p \in Cores : SearchInv(p) /\ ResultInv(p)

\* The row of a launch does not change, nor does what is said of it.
LEMMA SameRow ==
    ASSUME row' = row, NEW p
    PROVE  /\ Top(p)' = Top(p) /\ Place(p)' = Place(p)
           /\ Greedy(RankIds(p))' = Greedy(RankIds(p)) /\ Greedy(Vocab)' = Greedy(Vocab)
           /\ CoreWinner(p)' = CoreWinner(p) /\ RankWinner(p)' = RankWinner(p)
           /\ \A c, m : ChunkPeak(p, c, m)' = ChunkPeak(p, c, m)
           /\ \A c : BestBefore(p, c)' = BestBefore(p, c)
<1>1. \A ids : Greedy(ids)' = Greedy(ids)
    BY DEF Greedy
<1>2. Top(p)' = Top(p) /\ Greedy(RankIds(p))' = Greedy(RankIds(p)) /\ Greedy(Vocab)' = Greedy(Vocab)
    BY <1>1 DEF Top, CoreIds, RankIds, Vocab
<1>3. Place(p)' = Place(p)
    BY <1>2 DEF Place
<1>4. \A c : BestBefore(p, c)' = BestBefore(p, c)
    BY <1>3 DEF BestBefore
<1>5. CoreWinner(p)' = CoreWinner(p) /\ RankWinner(p)' = RankWinner(p)
    BY <1>2 DEF CoreWinner, RankWinner
<1>6. \A c, m : ChunkPeak(p, c, m)' = ChunkPeak(p, c, m)
    BY DEF ChunkPeak, Logit
<1> QED BY <1>2, <1>3, <1>4, <1>5, <1>6

\* A step of another core leaves what is said of this one.
LEMMA OtherCore ==
    ASSUME row' = row, NEW p, SearchInv(p), ResultInv(p),
           pc'[p] = pc[p], chunk'[p] = chunk[p], chunkMax'[p] = chunkMax[p],
           bestR'[p] = bestR[p], core'[p] = core[p], sent'[p] = sent[p],
           rank'[p] = rank[p], token'[p] = token[p]
    PROVE  SearchInv(p)' /\ ResultInv(p)'
<1>1. SearchInv(p)'
    <2>1. \A c \in DOMAIN chunkMax[p] : ChunkPeak(p, c, chunkMax[p][c])'
        BY DEF SearchInv, ChunkPeak, Logit
    <2>2. (pc[p] = "find" => bestR[p] = BestBefore(p, chunk[p]))'
        BY SameRow DEF SearchInv, BestBefore
    <2> QED BY <2>1, <2>2 DEF SearchInv
<1>2. ResultInv(p)'
    BY SameRow DEF ResultInv, Nothing
<1> QED BY <1>1, <1>2

\* The initial states.
LEMMA ArgmaxInit == ASSUME Constants, Init PROVE ArgmaxInv
<1>1. VCore \in Nat \ {0} /\ NChunks \in Nat \ {0}
    BY Sizes
<1>2. Arrays
    BY <1>1 DEF Init, Arrays, Phases
<1>3. ASSUME NEW p \in Cores
      PROVE  SearchInv(p) /\ ResultInv(p)
    <2>1. /\ pc[p] = "reduce" /\ chunk[p] = 0 /\ DOMAIN chunkMax[p] = {}
          /\ core[p] = Nothing /\ sent[p] = Nothing /\ rank[p] = Nothing /\ token[p] = Nothing
        BY DEF Init
    <2>2. 0 .. 0 - 1 = {}
        OBVIOUS
    <2> QED BY <2>1, <2>2 DEF SearchInv, ResultInv
<1> QED BY <1>2, <1>3 DEF ArgmaxInv

(***************************************************************************)
(* staged_argmax                                                            *)
(***************************************************************************)

\* A chunk further, or the next phase from chunk 0.
LEMMA Advances ==
    ASSUME Constants, Arrays, NEW p \in Cores, NEW next \in Phases, Advance(p, next)
    PROVE  /\ pc' \in [Cores -> Phases] /\ chunk' \in [Cores -> 0 .. NChunks - 1]
           /\ \A q \in Cores : q # p => pc'[q] = pc[q] /\ chunk'[q] = chunk[q]
           /\ \/ chunk[p] + 1 < NChunks /\ chunk'[p] = chunk[p] + 1 /\ pc'[p] = pc[p]
              \/ chunk[p] + 1 = NChunks /\ chunk'[p] = 0 /\ pc'[p] = next
<1>1. NChunks \in Nat \ {0} /\ chunk[p] \in 0 .. NChunks - 1 /\ pc[p] \in Phases
    BY Sizes DEF Arrays
<1>2. pc \in [Cores -> Phases] /\ chunk \in [Cores -> 0 .. NChunks - 1]
    BY DEF Arrays
<1>3. CASE chunk[p] + 1 < NChunks
    <2>1. chunk' = [chunk EXCEPT ![p] = chunk[p] + 1] /\ pc' = pc
        BY <1>3 DEF Advance
    <2>2. chunk[p] + 1 \in 0 .. NChunks - 1
        BY <1>1, <1>3
    <2> QED BY <1>2, <1>3, <2>1, <2>2
<1>4. CASE ~(chunk[p] + 1 < NChunks)
    <2>1. chunk' = [chunk EXCEPT ![p] = 0] /\ pc' = [pc EXCEPT ![p] = next]
        BY <1>4 DEF Advance
    <2>2. chunk[p] + 1 = NChunks /\ 0 \in 0 .. NChunks - 1
        BY <1>1, <1>4
    <2> QED BY <1>2, <2>1, <2>2
<1> QED BY <1>3, <1>4

\* First loop: one chunk more is reduced, and the running best is cleared
\* before the second loop reads it.
LEMMA ReduceKeeps ==
    ASSUME Constants, ArgmaxInv, NEW p \in Cores, ReduceChunk(p)
    PROVE  ArgmaxInv'
<1>1. Arrays /\ SearchInv(p) /\ ResultInv(p)
    BY DEF ArgmaxInv
<1>2. /\ pc[p] = "reduce" /\ row' = row
      /\ core' = core /\ sent' = sent /\ rank' = rank /\ token' = token
      /\ bestR' = ClearedBest(p) /\ Advance(p, "find")
    BY DEF ReduceChunk
<1>3. /\ pc' \in [Cores -> Phases] /\ chunk' \in [Cores -> 0 .. NChunks - 1]
      /\ \A q \in Cores : q # p => pc'[q] = pc[q] /\ chunk'[q] = chunk[q]
      /\ \/ chunk[p] + 1 < NChunks /\ chunk'[p] = chunk[p] + 1 /\ pc'[p] = pc[p]
         \/ chunk[p] + 1 = NChunks /\ chunk'[p] = 0 /\ pc'[p] = "find"
    <2>1. "find" \in Phases
        BY DEF Phases
    <2> QED BY <1>1, <1>2, <2>1, Advances
<1>4. PICK c \in 0 .. NChunks - 1 : c = chunk[p]
    BY <1>1 DEF Arrays
<1>5. PICK m : m = MaxOf({Logit(p, g) : g \in Chunk(c)}) /\ ChunkPeak(p, c, m)
    BY <1>1, ChunkMaximum DEF Arrays
<1>6. chunkMax' = [chunkMax EXCEPT ![p] =
                      [x \in DOMAIN chunkMax[p] \cup {c} |->
                          IF x = c THEN m ELSE chunkMax[p][x]]]
    BY <1>4, <1>5 DEF ReduceChunk
<1>7. /\ DOMAIN chunkMax' = Cores
      /\ \A q \in Cores : q # p => chunkMax'[q] = chunkMax[q]
      /\ chunkMax'[p] = [x \in DOMAIN chunkMax[p] \cup {c} |->
                            IF x = c THEN m ELSE chunkMax[p][x]]
    BY <1>1, <1>6 DEF Arrays
<1>8. NChunks \in Nat \ {0} /\ VCore \in Nat \ {0} /\ ChunkWidth \in Nat \ {0}
    BY Sizes
<1>9. DOMAIN chunkMax'[p] = 0 .. c
    <2>1. DOMAIN chunkMax[p] = 0 .. c - 1
        BY <1>1, <1>2, <1>4 DEF SearchInv
    <2>2. (0 .. c - 1) \cup {c} = 0 .. c
        BY <1>8
    <2> QED BY <1>7, <2>1, <2>2
<1>10. \A x \in DOMAIN chunkMax'[p] : ChunkPeak(p, x, chunkMax'[p][x])
    BY <1>1, <1>5, <1>7 DEF SearchInv
<1>11. /\ bestR' \in [Cores -> 0 .. VCore]
       /\ \A q \in Cores : q # p => bestR'[q] = bestR[q]
       /\ chunk[p] + 1 = NChunks => bestR'[p] = 0
    <2>1. bestR \in [Cores -> 0 .. VCore] /\ 0 \in 0 .. VCore
        BY <1>1, <1>8 DEF Arrays
    <2>2. bestR' = bestR \/ bestR' = [bestR EXCEPT ![p] = 0]
        BY <1>2 DEF ClearedBest
    <2>3. chunk[p] + 1 = NChunks => bestR' = [bestR EXCEPT ![p] = 0]
        <3>1. chunk[p] + 1 = NChunks => ~(chunk[p] + 1 < NChunks)
            BY <1>8
        <3> QED BY <1>2, <3>1 DEF ClearedBest
    <2> QED BY <2>1, <2>2, <2>3
<1>12. Arrays'
    BY <1>1, <1>2, <1>3, <1>7, <1>11 DEF Arrays
<1>13. SearchInv(p)'
    <2>1. (\A x \in DOMAIN chunkMax[p] : ChunkPeak(p, x, chunkMax[p][x]))'
        BY <1>2, <1>10 DEF ChunkPeak, Logit
    <2>2. DOMAIN chunkMax'[p] = IF pc'[p] = "reduce" THEN 0 .. chunk'[p] - 1 ELSE 0 .. NChunks - 1
        <3>1. CASE chunk[p] + 1 < NChunks
            <4>1. chunk'[p] - 1 = c /\ pc'[p] = "reduce"
                BY <1>2, <1>3, <1>4, <1>8, <3>1
            <4> QED BY <1>9, <4>1
        <3>2. CASE chunk[p] + 1 = NChunks
            <4>1. NChunks - 1 = c /\ pc'[p] = "find"
                BY <1>3, <1>4, <1>8, <3>2
            <4> QED BY <1>9, <4>1
        <3> QED BY <1>3, <3>1, <3>2
    <2>3. (pc[p] = "find" => bestR[p] = BestBefore(p, chunk[p]))'
        <3>1. SUFFICES ASSUME pc'[p] = "find"
                       PROVE  bestR'[p] = IF Place(p)' < chunk'[p] * ChunkWidth
                                          THEN VCore - Place(p)' ELSE 0
            BY DEF BestBefore
        <3>2. chunk'[p] = 0 /\ bestR'[p] = 0
            BY <1>2, <1>3, <1>11, <3>1
        <3>3. Place(p)' = Place(p) /\ Place(p) \in 0 .. VCore - 1
            BY <1>1, <1>2, SameRow, CorePeak DEF Arrays
        <3>4. ~(Place(p)' < 0 * ChunkWidth)
            BY <1>8, <3>3
        <3> QED BY <3>2, <3>4
    <2> QED BY <2>1, <2>2, <2>3 DEF SearchInv
<1>14. ResultInv(p)'
    <2>1. pc'[p] \in {"reduce", "find"}
        BY <1>2, <1>3
    <2> QED BY <1>1, <1>2, <2>1, SameRow DEF ResultInv, Nothing
<1>15. ASSUME NEW q \in Cores, q # p
       PROVE  SearchInv(q)' /\ ResultInv(q)'
    BY <1>2, <1>3, <1>7, <1>11, <1>15, OtherCore DEF ArgmaxInv
<1> QED BY <1>12, <1>13, <1>14, <1>15 DEF ArgmaxInv

\* Once every chunk is reduced, the peak of the core is known.
LEMMA CoreMaxIs ==
    ASSUME Constants, Arrays, NEW p \in Cores, SearchInv(p), pc[p] = "find"
    PROVE  CoreMax(p) = Logit(p, Place(p))
<1>1. /\ Place(p) \in 0 .. VCore - 1
      /\ \A g \in 0 .. VCore - 1 : Logit(p, g) <= Logit(p, Place(p)) /\ Logit(p, g) \in Int
    BY CorePeak, Columns DEF Arrays
<1>2. DOMAIN chunkMax[p] = 0 .. NChunks - 1
      /\ \A c \in 0 .. NChunks - 1 : ChunkPeak(p, c, chunkMax[p][c])
    BY DEF SearchInv
<1>3. PICK b \in 0 .. NChunks - 1 : Place(p) \in Chunk(b)
    <2>1. /\ Place(p) \in Nat /\ NChunks \in Nat /\ ChunkWidth \in Nat \ {0}
          /\ Place(p) < NChunks * ChunkWidth
        BY <1>1, Sizes, ChunksCover
    <2>2. PICK b \in 0 .. NChunks - 1 : b * ChunkWidth <= Place(p) /\ Place(p) < (b + 1) * ChunkWidth
        BY <2>1, BlockOf
    <2> QED BY <1>1, <2>2 DEF Chunk
<1>4. \A c : Chunk(c) \subseteq 0 .. VCore - 1
    BY DEF Chunk
<1>5. \A c \in 0 .. NChunks - 1 : chunkMax[p][c] \in Int /\ chunkMax[p][c] <= Logit(p, Place(p))
    BY <1>1, <1>2, <1>4 DEF ChunkPeak
<1>6. chunkMax[p][b] = Logit(p, Place(p))
    <2>1. Logit(p, Place(p)) <= chunkMax[p][b]
        BY <1>2, <1>3 DEF ChunkPeak
    <2> QED BY <1>1, <1>5, <2>1
<1> DEFINE S == {chunkMax[p][c] : c \in 0 .. NChunks - 1}
<1>7. S \in SUBSET Int /\ Logit(p, Place(p)) \in S /\ \A y \in S : y <= Logit(p, Place(p))
    BY <1>5, <1>6
<1>8. MaxOf(S) = Logit(p, Place(p))
    <2> HIDE DEF S
    <2> QED BY <1>7, MaxIs
<1> QED BY <1>2, <1>8 DEF CoreMax

\* After a chunk the running best is that of the columns up to its end, whatever
\* nc_find_index8 reports for a chunk without the peak.
LEMMA BestAfter ==
    ASSUME Constants, Arrays, NEW p \in Cores, SearchInv(p), pc[p] = "find",
           NEW ind \in FindIndex(p, chunk[p], CoreMax(p))
    PROVE  /\ Best(p, Reversed(p, ind)) = BestBefore(p, chunk[p] + 1)
           /\ BestBefore(p, chunk[p] + 1) \in 0 .. VCore
<1>1. PICK c \in 0 .. NChunks - 1 : c = chunk[p]
    BY DEF Arrays
<1>2. PICK f \in 0 .. VCore - 1 : f = Place(p) /\ CoreMax(p) = Logit(p, f)
          /\ \A g \in 0 .. VCore - 1 : Logit(p, g) = Logit(p, f) => f <= g
    BY CorePeak, CoreMaxIs DEF Arrays
<1>3. /\ NChunks \in Nat \ {0} /\ VCore \in Nat \ {0} /\ ChunkWidth \in Nat \ {0}
      /\ c \in Nat
    BY Sizes
<1>4. PICK lo \in Nat, hi \in Nat :
          lo = c * ChunkWidth /\ hi = (c + 1) * ChunkWidth /\ hi = lo + ChunkWidth
    BY <1>3
<1>5. Chunk(c) = {g \in 0 .. VCore - 1 : lo <= g /\ g < hi}
    BY <1>4 DEF Chunk
<1>6. ChunkPeak(p, c, chunkMax[p][c])
    BY <1>1 DEF SearchInv
<1>7. bestR[p] = IF f < lo THEN VCore - f ELSE 0
    BY <1>1, <1>2, <1>4 DEF SearchInv, BestBefore
<1>8. BestBefore(p, c + 1) = IF f < hi THEN VCore - f ELSE 0
    BY <1>2, <1>4 DEF BestBefore
<1>9. BestBefore(p, c + 1) \in 0 .. VCore
    BY <1>3, <1>8
<1>10. CASE chunkMax[p][c] = CoreMax(p)
    <2> DEFINE matches == {g - lo : g \in {x \in Chunk(c) : Logit(p, x) = CoreMax(p)}}
    <2>1. \A x \in Chunk(c) : x \in Nat /\ x - lo \in Nat
        BY <1>5
    <2>2. matches \in SUBSET Nat
        BY <2>1
    <2>3. matches # {}
        BY <1>6, <1>10 DEF ChunkPeak
    <2>4. PICK m \in matches : \A k \in matches : m <= k
        <3> HIDE DEF matches
        <3> QED BY <2>2, <2>3, LeastNat
    <2>5. MinOf(matches) = m
        <3> HIDE DEF matches
        <3>1. matches \in SUBSET Int
            BY <2>2
        <3> QED BY <2>4, <3>1, MinIs
    <2>6. ind = m
        <3>1. FindIndex(p, c, CoreMax(p)) = {MinOf(matches)}
            BY <1>4, <2>3 DEF FindIndex
        <3> QED BY <1>1, <2>5, <3>1
    <2>7. PICK g \in Chunk(c) : m = g - lo /\ Logit(p, g) = CoreMax(p)
        OBVIOUS
    <2>8. g \in 0 .. VCore - 1 /\ lo <= g /\ g < hi /\ f <= g
        BY <1>2, <1>5, <2>7
    <2>9. Reversed(p, ind) = VCore - g
        <3>1. lo + m = g
            BY <2>1, <2>7, <2>8
        <3> QED BY <1>1, <1>4, <1>10, <2>6, <3>1 DEF Reversed
    <2>10. CASE f < lo
        BY <1>1, <1>3, <1>7, <1>8, <1>9, <2>8, <2>9, <2>10 DEF Best, Larger
    <2>11. CASE ~(f < lo)
        <3>1. f \in Chunk(c)
            BY <1>5, <2>8, <2>11
        <3>2. f - lo \in matches
            BY <1>2, <3>1
        <3>3. g = f
            BY <2>4, <2>7, <2>8, <3>2
        <3> QED BY <1>1, <1>3, <1>7, <1>8, <1>9, <2>8, <2>9, <2>11, <3>3 DEF Best, Larger
    <2> QED BY <2>10, <2>11
<1>11. CASE chunkMax[p][c] # CoreMax(p)
    <2>1. Reversed(p, ind) = 0
        BY <1>1, <1>11 DEF Reversed
    <2>2. f \notin Chunk(c)
        <3>1. SUFFICES ASSUME f \in Chunk(c) PROVE FALSE
            OBVIOUS
        <3>2. PICK g \in Chunk(c) : chunkMax[p][c] = Logit(p, g)
            BY <1>6 DEF ChunkPeak
        <3>3. Logit(p, f) <= Logit(p, g)
            BY <1>6, <3>1, <3>2 DEF ChunkPeak
        <3>4. g \in 0 .. VCore - 1
            BY <1>5
        <3>5. Logit(p, g) <= Logit(p, f) /\ Logit(p, g) \in Int /\ Logit(p, f) \in Int
            BY <1>2, <3>4, CorePeak, Columns DEF Arrays
        <3> QED BY <1>2, <1>11, <3>2, <3>3, <3>5
    <2>3. f < lo \/ ~(f < hi)
        BY <1>5, <2>2
    <2> QED BY <1>1, <1>3, <1>4, <1>7, <1>8, <1>9, <2>1, <2>3 DEF Best, Larger
<1> QED BY <1>10, <1>11

\* Second loop: when it ends the core holds its winner.
LEMMA FindKeeps ==
    ASSUME Constants, ArgmaxInv, NEW p \in Cores, FindChunk(p)
    PROVE  ArgmaxInv'
<1>1. Arrays /\ SearchInv(p) /\ ResultInv(p)
    BY DEF ArgmaxInv
<1>2. PICK next \in Phases : next = IF NPrgs = 1 THEN "copy" ELSE "send"
    BY DEF Phases
<1>3. /\ pc[p] = "find" /\ row' = row /\ chunkMax' = chunkMax
      /\ sent' = sent /\ rank' = rank /\ token' = token
      /\ Advance(p, next)
    BY <1>2 DEF FindChunk
<1>4. /\ pc' \in [Cores -> Phases] /\ chunk' \in [Cores -> 0 .. NChunks - 1]
      /\ \A q \in Cores : q # p => pc'[q] = pc[q] /\ chunk'[q] = chunk[q]
      /\ \/ chunk[p] + 1 < NChunks /\ chunk'[p] = chunk[p] + 1 /\ pc'[p] = "find"
         \/ chunk[p] + 1 = NChunks /\ chunk'[p] = 0 /\ pc'[p] = next
    BY <1>1, <1>3, Advances
<1>5. PICK best \in 0 .. VCore :
          /\ best = BestBefore(p, chunk[p] + 1)
          /\ bestR' = [bestR EXCEPT ![p] = best]
          /\ core' = [core EXCEPT ![p] = <<CoreMax(p), CoreIndex(p, best)>>]
    BY <1>1, <1>3, BestAfter DEF FindChunk
<1>6. /\ bestR' \in [Cores -> 0 .. VCore] /\ DOMAIN core' = Cores
      /\ bestR'[p] = best /\ core'[p] = <<CoreMax(p), CoreIndex(p, best)>>
      /\ \A q \in Cores : q # p => bestR'[q] = bestR[q] /\ core'[q] = core[q]
    BY <1>1, <1>5 DEF Arrays
<1>7. /\ VCore \in Nat \ {0} /\ VRank \in Nat /\ NChunks \in Nat \ {0} /\ ChunkWidth \in Nat \ {0}
      /\ RankBase(p) \in Nat /\ ShardBase(p) \in Nat /\ ShardBase(p) + VCore <= VRank
    BY <1>1, Sizes, Columns DEF Arrays
<1>8. /\ Place(p) \in 0 .. VCore - 1 /\ Top(p) = RankBase(p) + ShardBase(p) + Place(p)
      /\ row[Top(p)] = CoreMax(p)
    BY <1>1, <1>3, CorePeak, CoreMaxIs DEF Arrays
<1>9. Arrays'
    BY <1>1, <1>3, <1>4, <1>6 DEF Arrays
<1>10. SearchInv(p)'
    <2>1. (\A c \in DOMAIN chunkMax[p] : ChunkPeak(p, c, chunkMax[p][c]))'
        BY <1>1, <1>3 DEF SearchInv, ChunkPeak, Logit
    <2>2. next # "reduce" /\ next # "find"
        BY <1>2
    <2>3. DOMAIN chunkMax'[p] = IF pc'[p] = "reduce" THEN 0 .. chunk'[p] - 1 ELSE 0 .. NChunks - 1
        BY <1>1, <1>3, <1>4, <2>2 DEF SearchInv
    <2>4. (pc[p] = "find" => bestR[p] = BestBefore(p, chunk[p]))'
        <3>1. SUFFICES ASSUME pc'[p] = "find"
                       PROVE  bestR'[p] = IF Place(p)' < chunk'[p] * ChunkWidth
                                          THEN VCore - Place(p)' ELSE 0
            BY DEF BestBefore
        <3>2. chunk'[p] = chunk[p] + 1
            BY <1>4, <2>2, <3>1
        <3>3. Place(p)' = Place(p)
            BY <1>3, SameRow
        <3> QED BY <1>5, <1>6, <3>2, <3>3 DEF BestBefore
    <2> QED BY <2>1, <2>3, <2>4 DEF SearchInv
<1>11. ResultInv(p)'
    <2>1. CoreWinner(p)' = CoreWinner(p) /\ RankWinner(p)' = RankWinner(p)
          /\ Greedy(Vocab)' = Greedy(Vocab)
        BY <1>3, SameRow
    <2>2. CASE chunk[p] + 1 < NChunks /\ pc'[p] = "find"
        <3>1. core'[p][2] \in 0 .. VRank
            BY <1>6, <1>7 DEF CoreIndex
        <3> QED BY <1>1, <1>3, <2>1, <2>2, <3>1 DEF ResultInv, Nothing
    <2>3. CASE chunk[p] + 1 = NChunks /\ pc'[p] = next
        <3>1. best = VCore - Place(p)
            <4>1. Place(p) < (chunk[p] + 1) * ChunkWidth
                BY <1>7, <1>8, <2>3, ChunksCover
            <4> QED BY <1>5, <4>1 DEF BestBefore
        <3>2. CoreIndex(p, best) = Top(p) - RankBase(p) /\ CoreIndex(p, best) \in 0 .. VRank
            BY <1>7, <1>8, <3>1 DEF CoreIndex
        <3>3. core'[p] = CoreWinner(p) /\ core'[p][2] \in 0 .. VRank
            BY <1>6, <1>8, <3>2 DEF CoreWinner
        <3>4. NPrgs = 1 \/ NPrgs = 2
            BY Sizes
        <3>5. (pc'[p] = "copy" => NPrgs = 1) /\ (pc'[p] \in {"send", "receive"} => NPrgs = 2)
            BY <1>2, <2>3, <3>4
        <3> QED BY <1>1, <1>3, <2>1, <3>3, <3>5 DEF ResultInv, Nothing
    <2> QED BY <1>4, <2>2, <2>3
<1>12. ASSUME NEW q \in Cores, q # p
       PROVE  SearchInv(q)' /\ ResultInv(q)'
    BY <1>3, <1>4, <1>6, <1>12, OtherCore DEF ArgmaxInv
<1> QED BY <1>9, <1>10, <1>11, <1>12 DEF ArgmaxInv

(***************************************************************************)
(* combine_across_cores                                                     *)
(***************************************************************************)

\* A step of a core past its search that leaves the search's arrays alone.
LEMMA LaterStep ==
    ASSUME Constants, ArgmaxInv, NEW p \in Cores, NEW next \in Phases,
           pc[p] \notin {"reduce", "find"}, next \notin {"reduce", "find"},
           pc' = [pc EXCEPT ![p] = next], row' = row, chunk' = chunk, chunkMax' = chunkMax,
           bestR' = bestR, core' = core,
           DOMAIN sent' = Cores, DOMAIN rank' = Cores, DOMAIN token' = Cores,
           \A q \in Cores : q # p => sent'[q] = sent[q] /\ rank'[q] = rank[q] /\ token'[q] = token[q],
           sent'[p] # Nothing => sent'[p] = CoreWinner(p),
           rank'[p] # Nothing => rank'[p] = RankWinner(p),
           token'[p] # Nothing => token'[p] = <<Greedy(Vocab)>>,
           next = "copy" => NPrgs = 1, next \in {"send", "receive"} => NPrgs = 2
    PROVE  ArgmaxInv'
<1>1. Arrays /\ SearchInv(p) /\ ResultInv(p)
    BY DEF ArgmaxInv
<1>2. /\ pc' \in [Cores -> Phases] /\ pc'[p] = next
      /\ \A q \in Cores : q # p => pc'[q] = pc[q]
    BY <1>1 DEF Arrays
<1>3. Arrays'
    BY <1>1, <1>2 DEF Arrays
<1>4. SearchInv(p)'
    <2>1. (\A c \in DOMAIN chunkMax[p] : ChunkPeak(p, c, chunkMax[p][c]))'
        BY <1>1 DEF SearchInv, ChunkPeak, Logit
    <2> QED BY <1>1, <1>2, <2>1 DEF SearchInv
<1>5. ResultInv(p)'
    <2>1. CoreWinner(p)' = CoreWinner(p) /\ RankWinner(p)' = RankWinner(p)
          /\ Greedy(Vocab)' = Greedy(Vocab)
        BY SameRow
    <2> QED BY <1>1, <1>2, <2>1 DEF ResultInv, Nothing
<1>6. ASSUME NEW q \in Cores, q # p
      PROVE  SearchInv(q)' /\ ResultInv(q)'
    BY <1>2, <1>6, OtherCore DEF ArgmaxInv
<1> QED BY <1>3, <1>4, <1>5, <1>6 DEF ArgmaxInv

\* On one core the core's winner is the rank's.
LEMMA CopyKeeps ==
    ASSUME Constants, ArgmaxInv, NEW p \in Cores, CopyWinner(p)
    PROVE  ArgmaxInv'
<1>1. Arrays /\ ResultInv(p)
    BY DEF ArgmaxInv
<1>2. /\ pc[p] = "copy" /\ rank' = [rank EXCEPT ![p] = core[p]]
      /\ pc' = [pc EXCEPT ![p] = "gather"]
      /\ UNCHANGED <<row, chunk, chunkMax, bestR, core, sent, token>>
    BY DEF CopyWinner
<1>3. NPrgs = 1 /\ core[p] = CoreWinner(p)
    BY <1>1, <1>2 DEF ResultInv
<1>4. CoreIds(p) = RankIds(p)
    <2>1. p[2] \in 0 .. NPrgs - 1 /\ VCore \in Nat \ {0}
          /\ VRank = NPrgs * VCore /\ RankBase(p) \in Nat
        BY <1>1, Sizes, Columns DEF Cores, Arrays
    <2>2. p[2] = 0 /\ VRank = VCore
        BY <1>3, <2>1
    <2>3. ShardBase(p) = 0
        BY <2>1, <2>2 DEF ShardBase, Prg
    <2>4. \A i \in RankIds(p) : i - RankBase(p) \in 0 .. VCore - 1
                                /\ RankBase(p) + ShardBase(p) + (i - RankBase(p)) = i
        BY <2>1, <2>2, <2>3 DEF RankIds
    <2>5. RankIds(p) \subseteq CoreIds(p)
        BY <2>4 DEF CoreIds
    <2> QED BY <1>1, <2>5, Columns DEF Arrays
<1>5. CoreWinner(p) = RankWinner(p)
    BY <1>4 DEF CoreWinner, RankWinner, Top
<1>6. /\ DOMAIN rank' = Cores /\ rank'[p] = RankWinner(p)
      /\ \A q \in Cores : q # p => rank'[q] = rank[q]
    BY <1>1, <1>2, <1>3, <1>5 DEF Arrays
<1>7. "gather" \in Phases /\ "gather" \notin {"reduce", "find", "copy", "send", "receive"}
    BY DEF Phases
<1>8. /\ DOMAIN sent' = Cores /\ DOMAIN token' = Cores
      /\ sent'[p] # Nothing => sent'[p] = CoreWinner(p)
      /\ token'[p] # Nothing => token'[p] = <<Greedy(Vocab)>>
      /\ \A q \in Cores : sent'[q] = sent[q] /\ token'[q] = token[q]
    BY <1>1, <1>2 DEF Arrays, ResultInv
<1> QED BY <1>2, <1>6, <1>7, <1>8, LaterStep

\* A core sends its own winner.
LEMMA SendKeeps ==
    ASSUME Constants, ArgmaxInv, NEW p \in Cores, Send(p)
    PROVE  ArgmaxInv'
<1>1. Arrays /\ ResultInv(p)
    BY DEF ArgmaxInv
<1>2. /\ pc[p] = "send" /\ sent' = [sent EXCEPT ![p] = core[p]]
      /\ pc' = [pc EXCEPT ![p] = "receive"]
      /\ UNCHANGED <<row, chunk, chunkMax, bestR, core, rank, token>>
    BY DEF Send
<1>3. NPrgs = 2 /\ core[p] = CoreWinner(p)
    BY <1>1, <1>2 DEF ResultInv
<1>4. /\ DOMAIN sent' = Cores /\ sent'[p] = CoreWinner(p)
      /\ \A q \in Cores : q # p => sent'[q] = sent[q]
    BY <1>1, <1>2, <1>3 DEF Arrays
<1>5. "receive" \in Phases /\ "receive" \notin {"reduce", "find", "copy"}
    BY DEF Phases
<1>6. /\ DOMAIN rank' = Cores /\ DOMAIN token' = Cores
      /\ rank'[p] # Nothing => rank'[p] = RankWinner(p)
      /\ token'[p] # Nothing => token'[p] = <<Greedy(Vocab)>>
      /\ \A q \in Cores : rank'[q] = rank[q] /\ token'[q] = token[q]
    BY <1>1, <1>2 DEF Arrays, ResultInv
<1> QED BY <1>2, <1>3, <1>4, <1>5, <1>6, LaterStep

\* The reversed index picks the lower of two winners that hold the peak, in
\* whichever order a core sees them.
LEMMA WinnerIsLower ==
    ASSUME NEW a \in Int, NEW b \in Int, NEW n \in Nat, NEW i \in 0 .. n - 1, NEW j \in 0 .. n - 1,
           VRank = n
    PROVE  Winner(<<a, i>>, <<b, j>>) =
               IF a > b THEN <<a, i>> ELSE IF b > a THEN <<b, j>>
               ELSE <<a, IF i <= j THEN i ELSE j>>
<1>1. Winner(<<a, i>>, <<b, j>>) =
          LET peak == Larger(a, b)
          IN  <<peak, n - Larger(IF a = peak THEN n - i ELSE 0, IF b = peak THEN n - j ELSE 0)>>
    BY DEF Winner
<1>2. CASE a > b
    BY <1>1, <1>2 DEF Larger
<1>3. CASE b > a
    BY <1>1, <1>3 DEF Larger
<1>4. CASE a = b /\ i <= j
    BY <1>1, <1>4 DEF Larger
<1>5. CASE a = b /\ ~(i <= j)
    BY <1>1, <1>5 DEF Larger
<1> QED BY <1>2, <1>3, <1>4, <1>5

\* The winner of a rank is the lower of those of its two cores.
LEMMA RankOfCores ==
    ASSUME Constants, row \in Rows, NEW p \in Cores, NPrgs = 2
    PROVE  Peer(p) \in Cores /\ RankWinner(p) = Winner(CoreWinner(p), CoreWinner(Peer(p)))
<1>1. PICK q : q = Peer(p)
    OBVIOUS
<1>2. /\ q \in Cores /\ RankBase(q) = RankBase(p) /\ RankIds(q) = RankIds(p)
      /\ q[2] = 1 - p[2] /\ p[2] \in 0 .. 1
    BY <1>1 DEF Peer, Cores, Rank, Prg, RankBase, RankIds
<1>3. PICK n \in Nat : n = TpDegree * VRank /\ Vocab = 0 .. n - 1
    BY Sizes
<1>4. /\ row \in [Vocab -> Int] /\ RankBase(p) \in Nat
      /\ CoreIds(p) \in SUBSET RankIds(p) /\ CoreIds(p) # {}
      /\ CoreIds(q) \in SUBSET RankIds(p) /\ CoreIds(q) # {}
      /\ RankIds(p) \in SUBSET Vocab
    BY <1>2, Columns
<1>5. IsGreedy(CoreIds(p), Top(p)) /\ IsGreedy(CoreIds(q), Top(q))
    BY <1>3, <1>4, GreedyExists DEF Top
<1>6. PICK i \in RankIds(p), j \in RankIds(p) :
          i = Top(p) /\ j = Top(q) /\ i \in CoreIds(p) /\ j \in CoreIds(q)
    BY <1>4, <1>5 DEF IsGreedy
<1>7. VCore \in Nat \ {0} /\ VRank \in Nat \ {0} /\ VRank = 2 * VCore
    BY Sizes
<1>8. \A x \in RankIds(p) : x \in Vocab /\ x \in Int /\ row[x] \in Int
                            /\ x - RankBase(p) \in 0 .. VRank - 1
    BY <1>3, <1>4, <1>7 DEF RankIds
<1>9. \A x \in RankIds(p) : x \in CoreIds(p) \/ x \in CoreIds(q)
    <2> SUFFICES ASSUME NEW x \in RankIds(p), NEW y \in 0 .. VRank - 1, y = x - RankBase(p)
                 PROVE  x \in CoreIds(p) \/ x \in CoreIds(q)
        BY <1>8
    <2>1. \A c \in Cores, z \in 0 .. VCore - 1 :
              RankBase(c) = RankBase(p) /\ y = ShardBase(c) + z => x \in CoreIds(c)
        <3> SUFFICES ASSUME NEW c \in Cores, NEW z \in 0 .. VCore - 1,
                            RankBase(c) = RankBase(p), y = ShardBase(c) + z
                     PROVE  x \in CoreIds(c)
            OBVIOUS
        <3>1. ShardBase(c) \in Nat
            BY Columns
        <3>2. x = RankBase(c) + ShardBase(c) + z
            BY <1>4, <1>7, <1>8, <3>1
        <3> QED BY <3>2 DEF CoreIds
    <2>2. \A c \in Cores : ShardBase(c) = c[2] * VCore
        BY DEF ShardBase, Prg
    <2>3. CASE y < VCore
        <3>1. y \in 0 .. VCore - 1 /\ y = 0 + y
            BY <1>7, <2>3
        <3>2. p[2] = 0 \/ q[2] = 0
            BY <1>2
        <3>3. \A c \in Cores : c[2] = 0 => ShardBase(c) = 0
            BY <1>7, <2>2
        <3> QED BY <1>2, <2>1, <3>1, <3>2, <3>3
    <2>4. CASE ~(y < VCore)
        <3>1. y - VCore \in 0 .. VCore - 1 /\ y = VCore + (y - VCore)
            BY <1>7, <2>4
        <3>2. p[2] = 1 \/ q[2] = 1
            BY <1>2
        <3>3. \A c \in Cores : c[2] = 1 => ShardBase(c) = VCore
            BY <1>7, <2>2
        <3> QED BY <1>2, <2>1, <3>1, <3>2, <3>3
    <2> QED BY <2>3, <2>4
<1>10. PICK k \in RankIds(p) :
           k = IF row[i] > row[j] THEN i ELSE IF row[j] > row[i] THEN j
               ELSE IF i <= j THEN i ELSE j
    OBVIOUS
<1>11. IsGreedy(RankIds(p), k)
    <2>1. ASSUME NEW x \in RankIds(p)
          PROVE  row[x] <= row[k] /\ (row[x] = row[k] => k <= x)
        <3>1. row[x] \in Int /\ row[i] \in Int /\ row[j] \in Int
              /\ x \in Int /\ i \in Int /\ j \in Int
            BY <1>8
        <3>2. CASE x \in CoreIds(p)
            <4>1. row[x] <= row[i] /\ (row[x] = row[i] => i <= x)
                BY <1>5, <1>6, <3>2 DEF IsGreedy
            <4> QED BY <1>10, <3>1, <4>1
        <3>3. CASE x \in CoreIds(q)
            <4>1. row[x] <= row[j] /\ (row[x] = row[j] => j <= x)
                BY <1>5, <1>6, <3>3 DEF IsGreedy
            <4> QED BY <1>10, <3>1, <4>1
        <3> QED BY <1>9, <3>2, <3>3
    <2> QED BY <2>1 DEF IsGreedy
<1>12. Greedy(RankIds(p)) = k
    BY <1>3, <1>4, <1>11, GreedyUnique
<1>13. PICK di \in 0 .. VRank - 1, dj \in 0 .. VRank - 1 :
           di = i - RankBase(p) /\ dj = j - RankBase(p)
    BY <1>8
<1>14. CoreWinner(p) = <<row[i], di>> /\ CoreWinner(q) = <<row[j], dj>>
    BY <1>2, <1>6, <1>13 DEF CoreWinner
<1>15. row[i] \in Int /\ row[j] \in Int /\ VRank \in Nat
    BY <1>7, <1>8
<1>16. Winner(CoreWinner(p), CoreWinner(q)) =
           IF row[i] > row[j] THEN <<row[i], di>> ELSE IF row[j] > row[i] THEN <<row[j], dj>>
           ELSE <<row[i], IF di <= dj THEN di ELSE dj>>
    BY <1>14, <1>15, WinnerIsLower
<1>17. di <= dj <=> i <= j
    BY <1>4, <1>8, <1>13
<1>18. Winner(CoreWinner(p), CoreWinner(q)) = <<row[k], k - RankBase(p)>>
    <2>1. CASE row[i] > row[j]
        BY <1>10, <1>13, <1>16, <2>1
    <2>2. CASE row[j] > row[i]
        BY <1>10, <1>13, <1>15, <1>16, <2>2
    <2>3. CASE row[i] = row[j]
        BY <1>10, <1>13, <1>15, <1>16, <1>17, <2>3
    <2> QED BY <1>15, <2>1, <2>2, <2>3
<1> QED BY <1>1, <1>2, <1>12, <1>18 DEF RankWinner

\* Both cores of a rank keep the rank's winner.
LEMMA ReceiveKeeps ==
    ASSUME Constants, ArgmaxInv, NEW p \in Cores, Receive(p)
    PROVE  ArgmaxInv'
<1>1. Arrays /\ ResultInv(p) /\ row \in Rows
    BY DEF ArgmaxInv, Arrays
<1>2. /\ pc[p] = "receive" /\ sent[Peer(p)] # Nothing
      /\ rank' = [rank EXCEPT ![p] = Winner(core[p], sent[Peer(p)])]
      /\ pc' = [pc EXCEPT ![p] = "gather"]
      /\ UNCHANGED <<row, chunk, chunkMax, bestR, core, sent, token>>
    BY DEF Receive
<1>3. NPrgs = 2 /\ core[p] = CoreWinner(p)
    BY <1>1, <1>2 DEF ResultInv
<1>4. Peer(p) \in Cores /\ RankWinner(p) = Winner(CoreWinner(p), CoreWinner(Peer(p)))
    BY <1>1, <1>3, RankOfCores
<1>5. sent[Peer(p)] = CoreWinner(Peer(p))
    BY <1>2, <1>4 DEF ArgmaxInv, ResultInv
<1>6. /\ DOMAIN rank' = Cores /\ rank'[p] = RankWinner(p)
      /\ \A q \in Cores : q # p => rank'[q] = rank[q]
    BY <1>1, <1>2, <1>3, <1>4, <1>5 DEF Arrays
<1>7. "gather" \in Phases /\ "gather" \notin {"reduce", "find", "copy", "send", "receive"}
    BY DEF Phases
<1>8. /\ DOMAIN sent' = Cores /\ DOMAIN token' = Cores
      /\ sent'[p] # Nothing => sent'[p] = CoreWinner(p)
      /\ token'[p] # Nothing => token'[p] = <<Greedy(Vocab)>>
      /\ \A q \in Cores : sent'[q] = sent[q] /\ token'[q] = token[q]
    BY <1>1, <1>2 DEF Arrays, ResultInv
<1> QED BY <1>2, <1>6, <1>7, <1>8, LaterStep

(***************************************************************************)
(* all_gather_argmax                                                        *)
(***************************************************************************)

\* The ranks' winners, gathered: the columns without the peak are lifted past
\* every id, and the lowest of the others is the whole row's winner.
LEMMA GatheredIsGreedy ==
    ASSUME Constants, row \in Rows, NEW p \in Cores,
           \A q \in Group(p) : rank[q] = RankWinner(q)
    PROVE  GatherArgmax(p) = Greedy(Vocab)
<1>1. PICK n \in Nat : n = TpDegree * VRank /\ Vocab = 0 .. n - 1 /\ n # 0
    BY Sizes
<1>2. row \in [Vocab -> Int]
    BY Columns
<1>3. TpDegree \in Nat \ {0} /\ VRank \in Nat \ {0} /\ Loser \in Nat /\ n <= Loser
    BY <1>1, Sizes DEF Constants, LoserAssumption, Loser
<1>4. PICK z \in Vocab : z = Greedy(Vocab) /\ IsGreedy(Vocab, z)
    <2>1. Vocab \in SUBSET Vocab /\ Vocab # {}
        <3>1. 0 \in Vocab
            BY <1>1
        <3> QED BY <3>1
    <2> QED BY <1>1, <1>2, <2>1, GreedyExists DEF IsGreedy
<1>5. ASSUME NEW q \in Group(p)
      PROVE  /\ q \in Cores /\ RankBase(q) \in Nat
             /\ RankIds(q) \in SUBSET Vocab
             /\ \E i \in RankIds(q) :
                   /\ IsGreedy(RankIds(q), i)
                   /\ rank[q][1] = row[i] /\ GlobalId(q) = i
                   /\ row[i] <= row[z] /\ (row[i] = row[z] => z <= i)
    <2>1. q \in Cores
        BY DEF Group
    <2>2. RankBase(q) \in Nat /\ RankIds(q) \in SUBSET Vocab /\ RankIds(q) # {}
        BY <2>1, Columns
    <2>3. PICK i \in RankIds(q) : i = Greedy(RankIds(q)) /\ IsGreedy(RankIds(q), i)
        BY <1>1, <1>2, <2>2, GreedyExists DEF IsGreedy
    <2>4. rank[q] = <<row[i], i - RankBase(q)>>
        BY <2>3 DEF RankWinner
    <2>5. i \in Int /\ i \in Vocab
        BY <1>1, <2>2
    <2>6. GlobalId(q) = i
        BY <2>2, <2>4, <2>5 DEF GlobalId
    <2>7. row[i] <= row[z] /\ (row[i] = row[z] => z <= i)
        BY <1>4, <2>5 DEF IsGreedy
    <2> QED BY <2>1, <2>2, <2>3, <2>4, <2>6, <2>7
<1>6. PICK o \in Group(p) : z \in RankIds(o)
    <2>1. z \in Nat /\ z < TpDegree * VRank
        BY <1>1
    <2>2. PICK b \in 0 .. TpDegree - 1 : b * VRank <= z /\ z < (b + 1) * VRank
        BY <1>3, <2>1, BlockOf
    <2>3. (b + 1) * VRank = b * VRank + VRank /\ b * VRank \in Nat
        BY <1>3
    <2>4. <<b, p[2]>> \in Group(p) /\ RankBase(<<b, p[2]>>) = b * VRank
        BY DEF Group, Cores, Prg, RankBase, Rank
    <2>5. z \in RankIds(<<b, p[2]>>)
        BY <1>3, <2>1, <2>2, <2>3, <2>4 DEF RankIds
    <2> QED BY <2>4, <2>5
<1>7. rank[o][1] = row[z] /\ GlobalId(o) = z
    <2>1. PICK i \in RankIds(o) :
              /\ IsGreedy(RankIds(o), i)
              /\ rank[o][1] = row[i] /\ GlobalId(o) = i
              /\ row[i] <= row[z] /\ (row[i] = row[z] => z <= i)
              /\ i \in Vocab
        BY <1>5
    <2>2. row[z] <= row[i] /\ (row[z] = row[i] => i <= z)
        BY <1>6, <2>1 DEF IsGreedy
    <2>3. row[i] \in Int /\ row[z] \in Int /\ i \in Int /\ z \in Int
        BY <1>1, <1>2, <2>1
    <2> QED BY <2>1, <2>2, <2>3
<1>8. ASSUME NEW q \in Group(p)
      PROVE  /\ rank[q][1] \in Int /\ GlobalId(q) \in Nat /\ rank[q][1] <= row[z]
             /\ rank[q][1] = row[z] => z <= GlobalId(q)
    <2>1. PICK i \in RankIds(q) :
              /\ rank[q][1] = row[i] /\ GlobalId(q) = i
              /\ row[i] <= row[z] /\ (row[i] = row[z] => z <= i)
              /\ i \in Vocab
        BY <1>5
    <2> QED BY <1>1, <1>2, <2>1
<1> DEFINE maxima == {rank[q][1] : q \in Group(p)}
<1>9. MaxOf(maxima) = row[z]
    <2>1. maxima \in SUBSET Int /\ row[z] \in maxima /\ \A y \in maxima : y <= row[z]
        BY <1>6, <1>7, <1>8
    <2> HIDE DEF maxima
    <2> QED BY <2>1, MaxIs
<1> DEFINE lifted(q) == GlobalId(q) + (IF rank[q][1] = row[z] THEN 0 ELSE Loser)
           ids == {lifted(q) : q \in Group(p)}
<1>10. MinOf(ids) = z
    <2>1. ASSUME NEW q \in Group(p)
          PROVE  lifted(q) \in Int /\ z <= lifted(q)
        <3>1. z \in Nat /\ z < n
            BY <1>1
        <3> QED BY <1>3, <1>8, <3>1
    <2>2. lifted(o) = z
        <3>1. z \in Nat
            BY <1>1
        <3> QED BY <1>7, <3>1
    <2> HIDE DEF lifted
    <2>3. ids \in SUBSET Int /\ z \in ids /\ \A y \in ids : z <= y
        BY <1>6, <2>1, <2>2
    <2> HIDE DEF ids
    <2> QED BY <2>3, MinIs
<1>11. GatherArgmax(p) = MinOf(ids)
    BY <1>9 DEF GatherArgmax
<1> QED BY <1>4, <1>10, <1>11

\* Every core delivers the whole row's winner.
LEMMA GatherKeeps ==
    ASSUME Constants, ArgmaxInv, NEW p \in Cores, Gather(p)
    PROVE  ArgmaxInv'
<1>1. Arrays /\ ResultInv(p) /\ row \in Rows
    BY DEF ArgmaxInv, Arrays
<1>2. /\ pc[p] = "gather" /\ \A q \in Group(p) : rank[q] # Nothing
      /\ token' = [token EXCEPT ![p] = <<GatherArgmax(p)>>]
      /\ pc' = [pc EXCEPT ![p] = "done"]
      /\ UNCHANGED <<row, chunk, chunkMax, bestR, core, sent, rank>>
    BY DEF Gather
<1>3. \A q \in Group(p) : rank[q] = RankWinner(q)
    BY <1>2 DEF ArgmaxInv, ResultInv, Group
<1>4. GatherArgmax(p) = Greedy(Vocab)
    BY <1>1, <1>3, GatheredIsGreedy
<1>5. /\ DOMAIN token' = Cores /\ token'[p] = <<Greedy(Vocab)>>
      /\ \A q \in Cores : q # p => token'[q] = token[q]
    BY <1>1, <1>2, <1>4 DEF Arrays
<1>6. "done" \in Phases /\ "done" \notin {"reduce", "find", "copy", "send", "receive"}
    BY DEF Phases
<1>7. /\ DOMAIN sent' = Cores /\ DOMAIN rank' = Cores
      /\ sent'[p] # Nothing => sent'[p] = CoreWinner(p)
      /\ rank'[p] # Nothing => rank'[p] = RankWinner(p)
      /\ \A q \in Cores : sent'[q] = sent[q] /\ rank'[q] = rank[q]
    BY <1>1, <1>2 DEF Arrays, ResultInv
<1> QED BY <1>2, <1>5, <1>6, <1>7, LaterStep

\* Every step of every core keeps the invariant.
LEMMA ArgmaxStep ==
    ASSUME Constants, ArgmaxInv, [Next]_vars
    PROVE  ArgmaxInv'
<1>1. ASSUME NEW p \in Cores, CoreStep(p) PROVE ArgmaxInv'
    BY <1>1, ReduceKeeps, FindKeeps, CopyKeeps, SendKeeps, ReceiveKeeps, GatherKeeps DEF CoreStep
<1>2. CASE UNCHANGED vars
    <2>1. /\ row' = row /\ pc' = pc /\ chunk' = chunk /\ chunkMax' = chunkMax /\ bestR' = bestR
          /\ core' = core /\ sent' = sent /\ rank' = rank /\ token' = token
        BY <1>2 DEF vars
    <2>2. Arrays'
        BY <2>1 DEF ArgmaxInv, Arrays
    <2>3. \A q \in Cores : SearchInv(q)' /\ ResultInv(q)'
        BY <2>1, OtherCore DEF ArgmaxInv
    <2> QED BY <2>2, <2>3 DEF ArgmaxInv
<1> QED BY <1>1, <1>2 DEF Next, Finished

(***************************************************************************)
(* The theorems.                                                            *)
(***************************************************************************)

\* What a chunk reduces, a core finds, a rank agrees on and the ranks gather is
\* right in every reachable state.
THEOREM ArgmaxInvariant == ASSUME Constants PROVE Spec => []ArgmaxInv
<1>1. Init => ArgmaxInv
    BY ArgmaxInit
<1>2. ArgmaxInv /\ [Next]_vars => ArgmaxInv'
    BY ArgmaxStep
<1> QED BY <1>1, <1>2, PTL DEF Spec

\* The invariant is what the properties say, and more.
LEMMA ArgmaxInvImplies ==
    ASSUME Constants, ArgmaxInv
    PROVE  TypeOK /\ CoreWinnerLowest /\ RankWinnerLowest /\ TokenIsArgmax
<1>1. CoreWinnerLowest
    BY DEF ArgmaxInv, ResultInv, CoreWinnerLowest, CoreWinner, Top
<1>2. RankWinnerLowest
    BY DEF ArgmaxInv, ResultInv, RankWinnerLowest, RankWinner
<1>3. TokenIsArgmax
    BY DEF ArgmaxInv, ResultInv, TokenIsArgmax
<1>4. TypeOK
    <2> SUFFICES ASSUME NEW p \in Cores
                 PROVE  /\ pc[p] \in Phases /\ chunk[p] \in 0 .. NChunks - 1
                        /\ DOMAIN chunkMax[p] \subseteq 0 .. NChunks - 1
                        /\ bestR[p] \in 0 .. VCore
                        /\ core[p] # Nothing => core[p][2] \in 0 .. VRank
                        /\ rank[p] # Nothing => rank[p][2] \in 0 .. VRank - 1
        BY DEF TypeOK, ArgmaxInv, Arrays, Phases
    <2>1. Arrays /\ SearchInv(p) /\ ResultInv(p)
        BY DEF ArgmaxInv
    <2>2. pc[p] \in Phases /\ chunk[p] \in 0 .. NChunks - 1 /\ bestR[p] \in 0 .. VCore
        BY <2>1 DEF Arrays
    <2>3. DOMAIN chunkMax[p] \subseteq 0 .. NChunks - 1
        BY <2>1, <2>2, Sizes DEF SearchInv
    <2>4. rank[p] # Nothing => rank[p][2] \in 0 .. VRank - 1
        <3>1. PICK n \in Nat : n = TpDegree * VRank /\ Vocab = 0 .. n - 1
            BY Sizes
        <3>2. /\ row \in [Vocab -> Int] /\ RankBase(p) \in Nat
              /\ RankIds(p) \in SUBSET Vocab /\ RankIds(p) # {}
            BY <2>1, Columns DEF Arrays
        <3>3. Greedy(RankIds(p)) \in RankIds(p)
            BY <3>1, <3>2, GreedyExists DEF IsGreedy
        <3>4. Greedy(RankIds(p)) - RankBase(p) \in 0 .. VRank - 1
            BY <3>2, <3>3, Sizes DEF RankIds
        <3> QED BY <2>1, <3>4 DEF ResultInv, RankWinner
    <2> QED BY <2>1, <2>2, <2>3, <2>4 DEF ResultInv
<1> QED BY <1>1, <1>2, <1>3, <1>4
=============================================================================
