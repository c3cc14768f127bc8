--------------------------- MODULE WeightsProofs ---------------------------

(***************************************************************************)
(* Proofs about the conversion of a checkpoint, for every configuration:    *)
(* the dictionary it leaves holds the parameters the modules declare and no *)
(* other, every one of rows of the checkpoint, shifted and transposed as    *)
(* its reader takes it, in storage of its own.                              *)
(***************************************************************************)
EXTENDS WeightsAsRead, SequenceTheorems, NaturalsInduction, WellFoundedInduction, TLAPS

(***************************************************************************)
(* Sequences of sequences, as the parts flatten them.                       *)
(***************************************************************************)
\* flat[i] is the concatenation of the first i of the sequences.
Flat(flat, n, seqs) ==
    flat = [i \in 1 .. n |-> IF i = 1 THEN seqs[i] ELSE flat[i - 1] \o seqs[i]]

\* A set of naturals has a least element.
LEMMA LeastNat ==
    ASSUME NEW S \in SUBSET Nat, S # {}
    PROVE  \E m \in S : \A k \in Nat : k < m => k \notin S
<1>1. PICK m \in S : \A x \in S : ~(<<x, m>> \in OpToRel(<, Nat))
    <2>1. IsWellFoundedOn(OpToRel(<, Nat), Nat)
        BY NatLessThanWellFounded
    <2> QED BY <2>1, WFMin
<1> QED BY <1>1 DEF OpToRel

\* There is such a function: if not, for a least n, which its n - 1 extends to.
LEMMA FlatExists ==
    ASSUME NEW seqs, NEW n \in Nat
    PROVE  \E flat : Flat(flat, n, seqs)
<1> DEFINE Bad == {m \in Nat : ~ \E flat : Flat(flat, m, seqs)}
<1> SUFFICES ASSUME n \in Bad PROVE FALSE
    OBVIOUS
<1>1. PICK m \in Bad : \A k \in Nat : k < m => k \notin Bad
    <2> HIDE DEF Bad
    <2>1. Bad \in SUBSET Nat BY DEF Bad
    <2> QED BY <2>1, LeastNat
<1>2. CASE m = 0
    <2>1. Flat([i \in 1 .. 0 |-> i], 0, seqs)
        BY DEF Flat
    <2> QED BY <2>1, <1>2
<1>3. CASE m # 0
    <2>1. m - 1 \in Nat /\ m - 1 < m
        BY <1>3
    <2>2. m - 1 \notin Bad
        BY <1>1, <2>1
    <2>3. PICK flat : Flat(flat, m - 1, seqs)
        BY <2>1, <2>2
    <2> DEFINE longer == [i \in 1 .. m |-> IF i = 1 THEN seqs[i] ELSE flat[i - 1] \o seqs[i]]
    <2>4. \A i \in 1 .. m - 1 : longer[i] = flat[i]
        <3> SUFFICES ASSUME NEW i \in 1 .. m - 1 PROVE longer[i] = flat[i]
            OBVIOUS
        <3>1. i \in 1 .. m
            BY <1>3
        <3>2. longer[i] = IF i = 1 THEN seqs[i] ELSE flat[i - 1] \o seqs[i]
            BY <3>1
        <3>3. flat[i] = IF i = 1 THEN seqs[i] ELSE flat[i - 1] \o seqs[i]
            BY ONLY <2>3, i \in 1 .. m - 1, Zenon DEF Flat
        <3> QED BY <3>2, <3>3
    <2>5. Flat(longer, m, seqs)
        <3>1. \A i \in 1 .. m : i # 1 => i - 1 \in 1 .. m - 1
            BY <1>3
        <3> QED BY <2>4, <3>1, Zenon DEF Flat
    <2> HIDE DEF longer
    <2> QED BY <2>5
<1> QED BY <1>2, <1>3

\* FlattenSeq, by the sequences it is built up from.
LEMMA FlattenSeqIsFlat ==
    ASSUME NEW seqs, Len(seqs) \in Nat \ {0}
    PROVE  \E flat : /\ Flat(flat, Len(seqs), seqs)
                     /\ FlattenSeq(seqs) = flat[Len(seqs)]
<1> DEFINE flat == CHOOSE f : f = [i \in 1 .. Len(seqs) |->
                                     IF i = 1 THEN seqs[i] ELSE f[i - 1] \o seqs[i]]
<1>1. FlattenSeq(seqs) = flat[Len(seqs)]
    BY DEF FlattenSeq
<1>2. \E f : f = [i \in 1 .. Len(seqs) |-> IF i = 1 THEN seqs[i] ELSE f[i - 1] \o seqs[i]]
    BY FlatExists DEF Flat
<1>3. Flat(flat, Len(seqs), seqs)
    BY <1>2 DEF Flat
<1> QED BY <1>1, <1>3

\* The first of the sequences stands alone, every other is appended.
LEMMA FlatStep ==
    ASSUME NEW seqs, NEW n \in Nat, NEW flat, Flat(flat, n, seqs)
    PROVE  \A i \in 1 .. n : flat[i] = IF i = 1 THEN seqs[i] ELSE flat[i - 1] \o seqs[i]
<1> TAKE i \in 1 .. n
<1>1. flat[i] = IF i = 1 THEN seqs[i] ELSE flat[i - 1] \o seqs[i]
    BY ONLY Flat(flat, n, seqs), i \in 1 .. n, Zenon DEF Flat
<1> QED BY <1>1

\* Parts that have a row each, the first of them m, have n - 1 more rows than
\* m behind one another.
LEMMA FlatRows ==
    ASSUME NEW R, NEW seqs, Len(seqs) \in Nat, NEW m \in Nat, NEW flat, Flat(flat, Len(seqs), seqs),
           \A i \in 1 .. Len(seqs) : seqs[i] \in Seq(R) /\ Len(seqs[i]) >= 1,
           Len(seqs[1]) >= m
    PROVE  \A i \in 1 .. Len(seqs) : flat[i] \in Seq(R) /\ Len(flat[i]) >= m + i - 1
<1> DEFINE Good(i) == flat[i] \in Seq(R) /\ Len(flat[i]) >= m + i - 1
           Bad == {i \in 1 .. Len(seqs) : ~Good(i)}
<1>0. /\ Len(seqs) \in Nat
      /\ \A i \in 1 .. Len(seqs) : seqs[i] \in Seq(R) /\ Len(seqs[i]) >= 1
      /\ Len(seqs[1]) >= m
    OBVIOUS
<1>1. \A i \in 1 .. Len(seqs) : flat[i] = IF i = 1 THEN seqs[i] ELSE flat[i - 1] \o seqs[i]
    BY <1>0, FlatStep
<1> SUFFICES ASSUME Bad # {} PROVE FALSE
    OBVIOUS
<1>2. PICK i \in Bad : \A k \in Nat : k < i => k \notin Bad
    <2>1. Bad \in SUBSET Nat BY <1>0
    <2> HIDE DEF Bad
    <2> QED BY <2>1, LeastNat
<1>3. i \in 1 .. Len(seqs) /\ i \in Int /\ ~Good(i)
    BY <1>0, <1>2
<1>4. CASE i = 1
    <2>1. flat[i] = seqs[i]
        BY <1>1, <1>3, <1>4
    <2> QED BY <2>1, <1>0, <1>3, <1>4
<1>5. CASE i # 1
    <2>1. i - 1 \in Nat /\ i - 1 < i /\ i - 1 \in 1 .. Len(seqs)
        BY <1>0, <1>3, <1>5
    <2>2. i - 1 \notin Bad
        BY <1>2, <2>1
    <2>3. Good(i - 1)
        BY <2>1, <2>2
    <2>4. flat[i] = flat[i - 1] \o seqs[i]
        BY <1>1, <1>3, <1>5
    <2>5. seqs[i] \in Seq(R) /\ Len(seqs[i]) >= 1
        BY <1>0, <1>3
    <2>6. flat[i] \in Seq(R) /\ Len(flat[i]) = Len(flat[i - 1]) + Len(seqs[i])
        <3> HIDE DEF Good
        <3>1. flat[i - 1] \in Seq(R)
            BY <2>3 DEF Good
        <3> QED BY <3>1, <2>4, <2>5, ConcatProperties
    <2>7. Len(seqs[i]) \in Nat /\ Len(flat[i - 1]) \in Nat
        BY <2>3, <2>5
    <2>8. PICK b \in Nat, e \in Nat : b = Len(flat[i - 1]) /\ e = Len(seqs[i])
        BY <2>7
    <2>9. b >= m + (i - 1) - 1 /\ e >= 1 /\ Len(flat[i]) = b + e
        BY <2>3, <2>5, <2>6, <2>8
    <2>10. Len(flat[i]) >= m + i - 1
        BY ONLY <2>9, b \in Nat, e \in Nat, m \in Nat, i \in Int, <1>3
    <2> QED BY <2>6, <2>10, <1>3
<1> QED BY <1>4, <1>5

\* And so has FlattenSeq.
LEMMA FlattenRows ==
    ASSUME NEW R, NEW seqs, Len(seqs) \in Nat \ {0}, NEW m \in Nat,
           \A i \in 1 .. Len(seqs) : seqs[i] \in Seq(R) /\ Len(seqs[i]) >= 1,
           Len(seqs[1]) >= m
    PROVE  FlattenSeq(seqs) \in Seq(R) /\ Len(FlattenSeq(seqs)) >= m + Len(seqs) - 1
<1>1. PICK flat : Flat(flat, Len(seqs), seqs) /\ FlattenSeq(seqs) = flat[Len(seqs)]
    BY FlattenSeqIsFlat
<1>2. \A i \in 1 .. Len(seqs) : flat[i] \in Seq(R) /\ Len(flat[i]) >= m + i - 1
    BY <1>1, FlatRows
<1>3. Len(seqs) \in 1 .. Len(seqs)
    OBVIOUS
<1> QED BY <1>1, <1>2, <1>3

\* A slice within a sequence.
LEMMA Slices ==
    ASSUME NEW R, NEW s \in Seq(R), NEW a \in Nat, NEW b \in Nat, a <= b, b <= Len(s)
    PROVE  Slice(s, a, b) \in Seq(R) /\ Len(Slice(s, a, b)) = b - a
<1>1. a + 1 \in Int /\ b \in Int /\ \A i \in a + 1 .. b : s[i] \in R
    OBVIOUS
<1>2. SubSeq(s, a + 1, b) \in Seq(R) /\ Len(SubSeq(s, a + 1, b))
                                           = IF a + 1 <= b THEN b - (a + 1) + 1 ELSE 0
    BY <1>1, SubSeqProperties
<1> QED BY <1>2 DEF Slice

\* A concatenation is as long as its first part.
LEMMA Appended ==
    ASSUME NEW R, NEW a \in Seq(R), NEW b \in Seq(R)
    PROVE  a \o b \in Seq(R) /\ Len(a \o b) \in Nat /\ Len(a \o b) >= Len(a)
<1>1. a \o b \in Seq(R) /\ Len(a \o b) = Len(a) + Len(b)
    BY ConcatProperties
<1>2. Len(a) \in Nat /\ Len(b) \in Nat
    OBVIOUS
<1> QED BY <1>1, <1>2

\* A quotient, by its bounds.
LEMMA Quotient ==
    ASSUME NEW n \in Nat, NEW d \in Nat \ {0}
    PROVE  n \div d \in Nat /\ d * (n \div d) <= n /\ n < d * ((n \div d) + 1)
OBVIOUS

\* A product grows with its factors.
LEMMA Grows ==
    ASSUME NEW a \in Nat, NEW b \in Nat, NEW k \in Nat, a <= b
    PROVE  /\ a * k \in Nat /\ b * k \in Nat /\ a * k <= b * k
           /\ k * a \in Nat /\ k * b \in Nat /\ k * a <= k * b
<1>1. PICK e \in Nat : b = a + e
    <2>1. b - a \in Nat /\ b = a + (b - a)
        OBVIOUS
    <2> QED BY <2>1
<1>2. e * k \in Nat /\ a * k \in Nat
    OBVIOUS
<1>3. b * k = a * k + e * k
    BY <1>1
<1>4. k * a = a * k /\ k * b = b * k
    OBVIOUS
<1> QED BY <1>2, <1>3, <1>4

\* A shard has the rows of one rank.
LEMMA Shards ==
    ASSUME NEW R, NEW s \in Seq(R), NEW c, c.tp \in Nat \ {0}, NEW r \in 0 .. c.tp - 1
    PROVE  Shard(c, s, r) \in Seq(R) /\ (Len(s) >= c.tp => Len(Shard(c, s, r)) >= 1)
<1> DEFINE n == Len(s) \div c.tp
<1>1. PICK t \in Nat \ {0} : t = c.tp
    OBVIOUS
<1>2. n \in Nat /\ t * n <= Len(s) /\ Len(s) < t * (n + 1) /\ Len(s) \in Nat
    <2>1. PICK len \in Nat : len = Len(s)
        OBVIOUS
    <2>2. len \div t \in Nat /\ t * (len \div t) <= len /\ len < t * ((len \div t) + 1)
        BY Quotient
    <2>3. n = len \div t
        BY <1>1, <2>1, Zenon DEF n
    <2> HIDE DEF n
    <2> QED BY <2>1, <2>2, <2>3
<1>3. r \in Nat /\ r + 1 \in Nat /\ r + 1 <= t
    BY <1>1
<1> HIDE DEF n
<1>4. r * n \in Nat /\ (r + 1) * n \in Nat /\ (r + 1) * n <= t * n /\ (r + 1) * n = r * n + n
    <2>1. (r + 1) * n = r * n + n
        BY <1>2, <1>3
    <2> QED BY <1>2, <1>3, <2>1, Grows
<1>5. Shard(c, s, r) \in Seq(R) /\ Len(Shard(c, s, r)) = (r + 1) * n - r * n
    <2>1. r * n <= (r + 1) * n /\ (r + 1) * n <= Len(s)
        <3>1. t * n \in Nat
            BY <1>1, <1>2
        <3> QED BY <1>2, <1>4, <3>1
    <2>2. Shard(c, s, r) = Slice(s, r * n, (r + 1) * n)
        BY Zenon DEF Shard, n
    <2>3. PICK a \in Nat, b \in Nat : a = r * n /\ b = (r + 1) * n
        BY <1>4
    <2>4. Slice(s, a, b) \in Seq(R) /\ Len(Slice(s, a, b)) = b - a
        BY <2>1, <2>3, Slices
    <2> QED BY <2>2, <2>3, <2>4
<1>6. Len(s) >= t => n >= 1
    <2>1. n = 0 => t * (n + 1) = t
        OBVIOUS
    <2> QED BY <1>2, <2>1
<1> QED BY <1>1, <1>2, <1>4, <1>5, <1>6

(***************************************************************************)
(* The sizes of a configuration, and the rows its packings have.            *)
(***************************************************************************)
\* What ConfigsAssumption says of one configuration.
LEMMA ConfigFields ==
    ASSUME NEW c \in Configs
    PROVE  /\ c.tp \in Nat \ {0} /\ c.nk \in Nat \ {0} /\ c.nv \in Nat \ {0}
           /\ c.kd \in Nat \ {0} /\ c.vd \in Nat \ {0} /\ c.nq \in Nat \ {0}
           /\ c.nkv \in Nat \ {0} /\ c.hd \in Nat /\ c.hd > 1
           /\ Len(c.types) \in Nat
           /\ c.mtp \in BOOLEAN /\ c.draft \in BOOLEAN /\ c.attn \in BOOLEAN
           /\ c.moe \in BOOLEAN /\ c.fusedQkv \in BOOLEAN
           /\ c.nq % c.tp = 0 /\ (c.draft => c.mtp)
<1>1. /\ {c.tp, c.nk, c.nv, c.kd, c.vd, c.nq, c.nkv, c.hd} \subseteq Nat \ {0}
      /\ c.types \in Seq({"linear_attention", "full_attention"})
      /\ {c.mtp, c.draft, c.attn, c.moe, c.fusedQkv} \subseteq BOOLEAN
      /\ c.nq % c.tp = 0 /\ c.hd > 1 /\ (c.draft => c.mtp)
    BY ConfigsAssumption
<1>2. Len(c.types) \in Nat
    BY <1>1
<1> QED BY <1>1, <1>2

\* A positive product is as large as its factors.
LEMMA ProductBounds ==
    ASSUME NEW a \in Nat \ {0}, NEW b \in Nat \ {0}
    PROVE  a * b \in Nat \ {0} /\ a * b >= a /\ a * b >= b
<1>1. 1 * b <= a * b /\ a * b \in Nat
    BY Grows
<1>2. a * 1 <= a * b
    BY Grows
<1> QED BY <1>1, <1>2

\* What divides a positive number is no larger.
LEMMA DividesBounds ==
    ASSUME NEW a \in Nat \ {0}, NEW b \in Nat \ {0}, a % b = 0
    PROVE  b <= a
BY SMTT(30)

\* The dimensions of the heads are positive, and multiples of the TP degree.
LEMMA Dims ==
    ASSUME NEW c \in Configs
    PROVE  /\ KeyDim(c) \in Nat \ {0} /\ KeyDim(c) >= c.nk
           /\ ValueDim(c) \in Nat \ {0} /\ ValueDim(c) >= c.nv
           /\ ConvDim(c) \in Nat \ {0} /\ ConvDim(c) = 2 * KeyDim(c) + ValueDim(c)
<1>1. KeyDim(c) \in Nat \ {0} /\ KeyDim(c) >= c.nk
    BY ConfigFields, ProductBounds DEF KeyDim
<1>2. ValueDim(c) \in Nat \ {0} /\ ValueDim(c) >= c.nv
    BY ConfigFields, ProductBounds DEF ValueDim
<1> QED BY <1>1, <1>2 DEF ConvDim

\* The reordered qkv has a row for every rank.
LEMMA ReorderRows ==
    ASSUME NEW R, NEW c \in Configs, NEW s \in Seq(R), Len(s) = ConvDim(c),
           c.tp > 1, ~DeltaNetRaises(c)
    PROVE  ReorderQkv(c, s) \in Seq(R) /\ Len(ReorderQkv(c, s)) >= c.tp
<1> DEFINE q == Slice(s, 0, KeyDim(c))
           k == Slice(s, KeyDim(c), 2 * KeyDim(c))
           v == Slice(s, 2 * KeyDim(c), ConvDim(c))
           parts == [i \in 1 .. c.tp |->
                        Shard(c, q, i - 1) \o Shard(c, k, i - 1) \o Shard(c, v, i - 1)]
<1>1. c.tp \in Nat \ {0}
    BY ConfigFields
<1>2. ReorderQkv(c, s) = FlattenSeq(parts)
    BY Zenon DEF ReorderQkv, PerRank
<1>3. q \in Seq(R) /\ Len(q) = KeyDim(c) /\ k \in Seq(R) /\ v \in Seq(R)
    <2>1. PICK key \in Nat, val \in Nat : key = KeyDim(c) /\ val = ValueDim(c)
            /\ ConvDim(c) = 2 * key + val
        BY Dims
    <2>2. Slice(s, 0, key) \in Seq(R) /\ Len(Slice(s, 0, key)) = key
        <3>1. Slice(s, 0, key) \in Seq(R) /\ Len(Slice(s, 0, key)) = key - 0
            <4>1. 0 <= key /\ key <= Len(s) /\ 0 \in Nat
                BY <2>1
            <4> QED BY <4>1, Slices, Zenon
        <3> QED BY <3>1
    <2>3. Slice(s, key, 2 * key) \in Seq(R)
        BY <2>1, Slices
    <2>4. Slice(s, 2 * key, 2 * key + val) \in Seq(R)
        BY <2>1, Slices
    <2> QED BY <2>1, <2>2, <2>3, <2>4
<1>4. Len(q) >= c.tp
    <2>1. c.tp <= c.nk
        BY ConfigFields, DividesBounds DEF DeltaNetRaises
    <2> QED BY <1>1, <1>3, <2>1, Dims, ConfigFields
<1> HIDE DEF q, k, v
<1>5. \A i \in 1 .. c.tp : parts[i] \in Seq(R) /\ Len(parts[i]) >= 1
    <2> TAKE i \in 1 .. c.tp
    <2>1. i - 1 \in 0 .. c.tp - 1
        BY <1>1
    <2>2. /\ Shard(c, q, i - 1) \in Seq(R) /\ Len(Shard(c, q, i - 1)) >= 1
          /\ Shard(c, k, i - 1) \in Seq(R) /\ Shard(c, v, i - 1) \in Seq(R)
        BY <1>1, <1>3, <1>4, <2>1, Shards
    <2>3. PICK a \in Seq(R), b \in Seq(R), e \in Seq(R) :
            /\ a = Shard(c, q, i - 1) /\ b = Shard(c, k, i - 1) /\ e = Shard(c, v, i - 1)
        BY <2>2
    <2>4. a \o b \o e \in Seq(R) /\ Len(a \o b \o e) >= Len(a)
        <3>1. a \o b \in Seq(R) /\ Len(a \o b) >= Len(a)
            BY Appended
        <3>2. a \o b \o e \in Seq(R) /\ Len(a \o b \o e) >= Len(a \o b)
            BY <3>1, Appended
        <3> QED BY <3>1, <3>2
    <2>5. parts[i] = a \o b \o e
        BY <2>3
    <2> QED BY <2>2, <2>3, <2>4, <2>5
<1>6. Len(parts) = c.tp
    BY <1>1
<1> HIDE DEF parts
<1>7. FlattenSeq(parts) \in Seq(R) /\ Len(FlattenSeq(parts)) >= 1 + c.tp - 1
    <2>1. \A i \in 1 .. Len(parts) : parts[i] \in Seq(R) /\ Len(parts[i]) >= 1
        BY <1>5, <1>6
    <2>2. Len(parts[1]) >= 1
        BY <1>1, <1>6, <2>1
    <2>3. FlattenSeq(parts) \in Seq(R) /\ Len(FlattenSeq(parts)) >= 1 + Len(parts) - 1
        BY <1>1, <1>6, <2>1, <2>2, FlattenRows
    <2> QED BY <2>3, <1>6
<1> QED BY <1>1, <1>2, <1>7

\* Every rank's block of the fused projection begins with its share of qkv.
LEMMA InProjRows ==
    ASSUME NEW R, NEW c \in Configs, NEW qkv \in Seq(R), NEW z \in Seq(R), NEW a \in Seq(R),
           NEW b \in Seq(R), Len(qkv) >= c.tp
    PROVE  InProjFused(c, qkv, z, a, b) \in Seq(R) /\ Len(InProjFused(c, qkv, z, a, b)) >= 1
<1> DEFINE parts == [i \in 1 .. c.tp |-> Shard(c, qkv, i - 1) \o Shard(c, z, i - 1)
                                             \o Shard(c, a, i - 1) \o Shard(c, b, i - 1)]
<1>1. c.tp \in Nat \ {0}
    BY ConfigFields
<1>2. InProjFused(c, qkv, z, a, b) = FlattenSeq(parts)
    BY Zenon DEF InProjFused, PerRank
<1>3. \A i \in 1 .. c.tp : parts[i] \in Seq(R) /\ Len(parts[i]) >= 1
    <2> TAKE i \in 1 .. c.tp
    <2>1. i - 1 \in 0 .. c.tp - 1
        BY <1>1
    <2>2. /\ Shard(c, qkv, i - 1) \in Seq(R) /\ Len(Shard(c, qkv, i - 1)) >= 1
          /\ Shard(c, z, i - 1) \in Seq(R) /\ Shard(c, a, i - 1) \in Seq(R)
          /\ Shard(c, b, i - 1) \in Seq(R)
        BY <1>1, <2>1, Shards
    <2>3. PICK s1 \in Seq(R), s2 \in Seq(R), s3 \in Seq(R), s4 \in Seq(R) :
            /\ s1 = Shard(c, qkv, i - 1) /\ s2 = Shard(c, z, i - 1)
            /\ s3 = Shard(c, a, i - 1) /\ s4 = Shard(c, b, i - 1)
        BY <2>2
    <2>4. s1 \o s2 \in Seq(R) /\ Len(s1 \o s2) >= Len(s1)
        BY Appended
    <2>5. s1 \o s2 \o s3 \in Seq(R) /\ Len(s1 \o s2 \o s3) >= Len(s1 \o s2)
        BY <2>4, Appended
    <2>6. s1 \o s2 \o s3 \o s4 \in Seq(R) /\ Len(s1 \o s2 \o s3 \o s4) >= Len(s1 \o s2 \o s3)
        BY <2>5, Appended
    <2>7. parts[i] = s1 \o s2 \o s3 \o s4
        BY <2>3
    <2> QED BY <2>2, <2>3, <2>4, <2>5, <2>6, <2>7
<1>4. Len(parts) = c.tp
    BY <1>1
<1> HIDE DEF parts
<1>5. \A i \in 1 .. Len(parts) : parts[i] \in Seq(R) /\ Len(parts[i]) >= 1
    BY <1>3, <1>4
<1>6. FlattenSeq(parts) \in Seq(R) /\ Len(FlattenSeq(parts)) >= 1 + Len(parts) - 1
    <2>1. Len(parts[1]) >= 1
        BY <1>1, <1>4, <1>5
    <2> QED BY <1>1, <1>4, <1>5, <2>1, FlattenRows
<1> QED BY <1>1, <1>2, <1>4, <1>6

\* The halves of the heads: rows of the doubled q_proj, hd of every head.
LEMMA HalfRows ==
    ASSUME NEW R, NEW c \in Configs, NEW s \in Seq(R), Len(s) = 2 * c.nq * c.hd,
           NEW half \in {0, 1}
    PROVE  /\ HeadHalf(c, s, half) \in Seq(R)
           /\ Len(HeadHalf(c, s, half)) >= c.hd + c.nq - 1
<1> DEFINE parts == [h \in 1 .. c.nq |-> Slice(s, (2 * (h - 1) + half) * c.hd,
                                               (2 * (h - 1) + half + 1) * c.hd)]
<1>1. PICK n \in Nat \ {0}, w \in Nat \ {0} : n = c.nq /\ w = c.hd /\ w > 1
    BY ConfigFields
<1>2. HeadHalf(c, s, half) = FlattenSeq(parts)
    BY Zenon DEF HeadHalf
<1>3. \A h \in 1 .. n : parts[h] \in Seq(R) /\ Len(parts[h]) = w
    <2> TAKE h \in 1 .. n
    <2>1. PICK i \in Nat : i = 2 * (h - 1) + half /\ i + 1 <= 2 * n
        <3>1. 2 * (h - 1) + half \in Nat /\ 2 * (h - 1) + half + 1 <= 2 * n
            OBVIOUS
        <3> QED BY <3>1
    <2>2. (i + 1) * w = i * w + w
        OBVIOUS
    <2>3. PICK a \in Nat, b \in Nat : a = i * w /\ b = (i + 1) * w /\ b = a + w /\ b <= 2 * n * w
        <3>1. i * w \in Nat /\ (i + 1) * w \in Nat
            OBVIOUS
        <3>2. (i + 1) * w <= (2 * n) * w
            BY <2>1, Grows
        <3> QED BY <2>2, <3>1, <3>2
    <2>4. Slice(s, a, b) \in Seq(R) /\ Len(Slice(s, a, b)) = b - a
        <3>1. a <= b /\ b <= Len(s)
            BY <1>1, <2>3
        <3> QED BY <3>1, Slices, Zenon
    <2>5. parts[h] = Slice(s, a, b)
        BY <1>1, <2>1, <2>3
    <2> QED BY <2>3, <2>4, <2>5
<1>4. Len(parts) = n
    BY <1>1
<1> HIDE DEF parts
<1>5. \A i \in 1 .. Len(parts) : parts[i] \in Seq(R) /\ Len(parts[i]) >= 1
    BY <1>3, <1>4
<1>6. Len(parts[1]) >= w
    BY <1>3, <1>4
<1>7. FlattenSeq(parts) \in Seq(R) /\ Len(FlattenSeq(parts)) >= w + Len(parts) - 1
    BY <1>4, <1>5, <1>6, FlattenRows
<1> QED BY <1>1, <1>2, <1>4, <1>7

\* Every rank's block of the fused attention weight begins with its query heads.
LEMMA GqaRows ==
    ASSUME NEW R, NEW c \in Configs, NEW q \in Seq(R), NEW k \in Seq(R), NEW v \in Seq(R),
           Len(q) >= c.nq, Len(k) = c.nkv * c.hd, Len(v) = c.nkv * c.hd,
           c.attn, ~AttentionRaises(c)
    PROVE  GqaQkvFused(c, q, k, v) \in Seq(R) /\ Len(GqaQkvFused(c, q, k, v)) >= 1
<1> DEFINE parts == [i \in 1 .. c.tp |-> Shard(c, q, i - 1) \o ReplicatedHead(c, k, i - 1)
                                             \o ReplicatedHead(c, v, i - 1)]
<1>1. PICK t \in Nat \ {0}, n \in Nat \ {0}, w \in Nat \ {0} : t = c.tp /\ n = c.nkv /\ w = c.hd
    <2>1. c.tp \in Nat \ {0} /\ c.nkv \in Nat \ {0} /\ c.hd \in Nat \ {0}
        BY ConfigFields
    <2> QED BY <2>1
<1>2. GqaQkvFused(c, q, k, v) = FlattenSeq(parts)
    BY Zenon DEF GqaQkvFused, PerRank
<1>3. \A r \in 0 .. t - 1, s \in {k, v} : ReplicatedHead(c, s, r) \in Seq(R)
    <2> TAKE r \in 0 .. t - 1, s \in {k, v}
    <2>1. PICK g \in Nat : g = t \div n /\ n * g >= t
        <3>1. t \div n \in Nat
            OBVIOUS
        <3>2. n * (t \div n) \in Nat /\ ~(n * (t \div n) < t)
            BY <1>1, <3>1 DEF AttentionRaises
        <3> QED BY <3>1, <3>2
    <2>2. g \in Nat \ {0}
        <3>1. g = 0 => n * g = 0
            OBVIOUS
        <3> QED BY <2>1, <3>1
    <2>3. PICK h \in Nat : h = r \div g /\ g * h <= r
        <3>1. r \div g \in Nat /\ g * (r \div g) <= r
            BY <2>2, Quotient
        <3> QED BY <3>1
    <2>4. h + 1 <= n
        <3>1. SUFFICES ASSUME n <= h PROVE FALSE
            BY <2>3
        <3>2. g * n <= g * h /\ g * h \in Nat /\ g * n \in Nat
            BY <2>2, <2>3, <3>1, Grows
        <3>3. g * n = n * g
            BY <2>2
        <3> QED BY <2>1, <2>3, <3>2, <3>3
    <2>5. (h + 1) * w = h * w + w
        BY <2>3
    <2>6. PICK a \in Nat, b \in Nat : a = h * w /\ b = (h + 1) * w /\ b = a + w /\ b <= n * w
        <3>1. h * w \in Nat /\ (h + 1) * w \in Nat
            BY <2>3
        <3>2. (h + 1) * w <= n * w
            <4>1. h + 1 \in Nat /\ n \in Nat /\ w \in Nat
                BY <2>3
            <4> QED BY <4>1, <2>4, Grows, Zenon
        <3> QED BY <2>5, <3>1, <3>2
    <2>7. s \in Seq(R) /\ Len(s) = n * w
        BY <1>1
    <2>8. Slice(s, a, b) \in Seq(R)
        <3>1. a <= b /\ b <= Len(s)
            BY <2>6, <2>7
        <3> QED BY <2>7, <3>1, Slices, Zenon
    <2>9. ReplicatedHead(c, s, r) = Slice(s, h * w, (h + 1) * w)
        BY <1>1, <2>1, <2>3, Zenon DEF ReplicatedHead
    <2> QED BY <2>6, <2>8, <2>9
<1>4. Len(q) >= c.tp
    <2>1. c.nq \in Nat \ {0} /\ c.tp \in Nat \ {0} /\ c.nq % c.tp = 0
        BY ConfigFields
    <2>2. c.tp <= c.nq
        BY <2>1, DividesBounds
    <2> QED BY <2>1, <2>2
<1>5. \A i \in 1 .. c.tp : parts[i] \in Seq(R) /\ Len(parts[i]) >= 1
    <2> TAKE i \in 1 .. c.tp
    <2>1. i - 1 \in 0 .. c.tp - 1 /\ i - 1 \in 0 .. t - 1 /\ c.tp \in Nat \ {0}
        BY <1>1
    <2>2. Shard(c, q, i - 1) \in Seq(R) /\ Len(Shard(c, q, i - 1)) >= 1
        BY <2>1, <1>4, Shards
    <2>3. ReplicatedHead(c, k, i - 1) \in Seq(R) /\ ReplicatedHead(c, v, i - 1) \in Seq(R)
        BY <1>3, <2>1
    <2>4. PICK s1 \in Seq(R), s2 \in Seq(R), s3 \in Seq(R) :
            /\ s1 = Shard(c, q, i - 1) /\ s2 = ReplicatedHead(c, k, i - 1)
            /\ s3 = ReplicatedHead(c, v, i - 1)
        BY <2>2, <2>3
    <2>5. s1 \o s2 \in Seq(R) /\ Len(s1 \o s2) >= Len(s1)
        BY Appended
    <2>6. s1 \o s2 \o s3 \in Seq(R) /\ Len(s1 \o s2 \o s3) >= Len(s1 \o s2)
        BY <2>5, Appended
    <2>7. parts[i] = s1 \o s2 \o s3
        BY <2>4
    <2> QED BY <2>2, <2>4, <2>5, <2>6, <2>7
<1>6. Len(parts) = c.tp
    BY <1>1
<1> HIDE DEF parts
<1>7. \A i \in 1 .. Len(parts) : parts[i] \in Seq(R) /\ Len(parts[i]) >= 1
    BY <1>5, <1>6
<1>8. FlattenSeq(parts) \in Seq(R) /\ Len(FlattenSeq(parts)) >= 1 + Len(parts) - 1
    <2>1. Len(parts[1]) >= 1
        BY <1>1, <1>6, <1>7
    <2> QED BY <1>1, <1>6, <1>7, <2>1, FlattenRows
<1> QED BY <1>1, <1>2, <1>6, <1>8

(***************************************************************************)
(* Tensors of a dictionary: R is the set of the rows they may have, P the   *)
(* names that are shifted and T those that are stored transposed.           *)
(***************************************************************************)
\* A tensor, field by field.
Record(rows, plus, trans, store) ==
    [rows |-> rows, plus |-> plus, trans |-> trans, store |-> store]

\* The tensor of key <<o, n>>.
IsTensor(R, t, o, n, P, T) ==
    \E rows \in Seq(R) :
        /\ Len(rows) >= 1
        /\ t = Record(rows, IF n \in P THEN 1 ELSE 0, IF n \in T THEN TRUE ELSE FALSE, <<o, n>>)

\* Of the names U, the owner o has N in d.
Part(R, d, o, U, N, P, T) ==
    /\ N \subseteq U
    /\ \A n \in U : <<o, n>> \in DOMAIN d <=> n \in N
    /\ \A n \in N : IsTensor(R, d[<<o, n>>], o, n, P, T)

\* d and e differ in the keys K at most.
Same(d, e, K) ==
    \A k : k \notin K => /\ k \in DOMAIN d <=> k \in DOMAIN e
                         /\ k \in DOMAIN d => e[k] = d[k]

\* A new tensor is neither shifted nor transposed.
LEMMA NewTensor ==
    ASSUME NEW R, NEW o, NEW n, NEW rows \in Seq(R), Len(rows) >= 1, NEW P, NEW T, n \notin P,
           n \notin T
    PROVE  IsTensor(R, Tensor(<<o, n>>, rows), o, n, P, T)
BY DEF IsTensor, Tensor, Record

\* Only the marks of its own name matter.
LEMMA Remarked ==
    ASSUME NEW R, NEW t, NEW o, NEW n, NEW P, NEW T, NEW P2, NEW T2, IsTensor(R, t, o, n, P, T),
           n \in P <=> n \in P2, n \in T <=> n \in T2
    PROVE  IsTensor(R, t, o, n, P2, T2)
BY DEF IsTensor

\* A clone of a tensor of any marks, under another name.
LEMMA CloneTensor ==
    ASSUME NEW R, NEW t, NEW o, NEW n, NEW P, NEW T, IsTensor(R, t, o, n, P, T),
           NEW q, NEW m, NEW P2, NEW T2, n \in P <=> m \in P2, n \in T <=> m \in T2
    PROVE  IsTensor(R, Clone(t, <<q, m>>), q, m, P2, T2)
<1>1. PICK rows \in Seq(R) : /\ Len(rows) >= 1
                             /\ t = Record(rows, IF n \in P THEN 1 ELSE 0,
                                           IF n \in T THEN TRUE ELSE FALSE, <<o, n>>)
    BY DEF IsTensor
<1>2. Clone(t, <<q, m>>) = Record(rows, IF n \in P THEN 1 ELSE 0,
                                  IF n \in T THEN TRUE ELSE FALSE, <<q, m>>)
    <2>1. PICK plus, trans : /\ plus = IF n \in P THEN 1 ELSE 0
                             /\ trans = IF n \in T THEN TRUE ELSE FALSE
        BY Zenon
    <2>2. t = Record(rows, plus, trans, <<o, n>>)
        BY <1>1, <2>1, Zenon
    <2>3. PICK old : old = <<o, n>>
        OBVIOUS
    <2>4. t = Record(rows, plus, trans, old)
        BY <2>2, <2>3, Zenon
    <2>5. \A k : Clone(t, k) = Record(rows, plus, trans, k)
        BY ONLY <2>4 DEF Clone, Record
    <2> QED BY <2>1, <2>5, Zenon
<1>3. (IF n \in P THEN 1 ELSE 0) = IF m \in P2 THEN 1 ELSE 0
    OBVIOUS
<1>4. (IF n \in T THEN TRUE ELSE FALSE) = IF m \in T2 THEN TRUE ELSE FALSE
    BY Zenon
<1> QED BY <1>1, <1>2, <1>3, <1>4, Zenon DEF IsTensor

\* u is a transpose of t for key k, which one row does not move to.
TransposeOf(R, u, t, o, n, P, k) ==
    \E rows \in Seq(R) :
        /\ Len(rows) >= 1 /\ rows = t.rows
        /\ u = Record(rows, IF n \in P THEN 1 ELSE 0, TRUE, IF Len(rows) = 1 THEN <<o, n>> ELSE k)

\* What is not transposed, transposed.
LEMMA Transpose ==
    ASSUME NEW R, NEW t, NEW o, NEW n, NEW P, NEW T, IsTensor(R, t, o, n, P, T), n \notin T, NEW k
    PROVE  TransposeOf(R, Transposed(t, k), t, o, n, P, k)
<1>1. PICK rows \in Seq(R) : /\ Len(rows) >= 1
                             /\ t = Record(rows, IF n \in P THEN 1 ELSE 0,
                                           IF n \in T THEN TRUE ELSE FALSE, <<o, n>>)
    BY DEF IsTensor
<1>2. PICK plus : plus = IF n \in P THEN 1 ELSE 0
    OBVIOUS
<1>3. t = Record(rows, plus, FALSE, <<o, n>>)
    BY <1>1, <1>2, Zenon
<1>4. t.rows = rows /\ t.store = <<o, n>> /\ t.trans = FALSE
    BY ONLY <1>3 DEF Record
<1>5. [t EXCEPT !.trans = ~@] = Record(rows, plus, TRUE, <<o, n>>)
    <2>1. (~t.trans) = TRUE
        BY <1>4, Zenon
    <2>2. \A b : [t EXCEPT !.trans = b] = Record(rows, plus, b, <<o, n>>)
        BY ONLY <1>3 DEF Record
    <2> QED BY <2>1, <2>2, Zenon
<1>6. Transposed(t, k) = [[t EXCEPT !.trans = ~@]
                             EXCEPT !.store = IF Len(rows) = 1 THEN <<o, n>> ELSE k]
    <2>1. [t EXCEPT !.trans = ~@].store = <<o, n>>
        BY ONLY <1>5 DEF Record
    <2> QED BY <1>4, <2>1, Zenon DEF Transposed
<1>7. Transposed(t, k) = Record(rows, plus, TRUE, IF Len(rows) = 1 THEN <<o, n>> ELSE k)
    <2>1. PICK u, b, store : /\ u = [t EXCEPT !.trans = ~@] /\ b = TRUE
                             /\ store = IF Len(rows) = 1 THEN <<o, n>> ELSE k
        BY Zenon
    <2>2. u = Record(rows, plus, b, <<o, n>>)
        BY <1>5, <2>1, Zenon
    <2>3. [u EXCEPT !.store = store] = Record(rows, plus, b, store)
        BY ONLY <2>2 DEF Record
    <2> QED BY <1>6, <2>1, <2>3, Zenon
<1> QED BY <1>1, <1>2, <1>4, <1>7, Zenon DEF TransposeOf

\* A transpose in place, or a copy, of more rows than one.
LEMMA TransposeTensor ==
    ASSUME NEW R, NEW t, NEW o, NEW n, NEW P, NEW T, IsTensor(R, t, o, n, P, T), n \notin T,
           NEW m, NEW P2, NEW T2, n \in P <=> m \in P2, m \in T2, m = n \/ Len(t.rows) # 1
    PROVE  IsTensor(R, Transposed(t, <<o, m>>), o, m, P2, T2)
<1>1. PICK rows \in Seq(R) :
        /\ Len(rows) >= 1 /\ rows = t.rows
        /\ Transposed(t, <<o, m>>) = Record(rows, IF n \in P THEN 1 ELSE 0, TRUE,
                                            IF Len(rows) = 1 THEN <<o, n>> ELSE <<o, m>>)
    <2>1. TransposeOf(R, Transposed(t, <<o, m>>), t, o, n, P, <<o, m>>)
        BY Transpose, Zenon
    <2> QED BY <2>1, Zenon DEF TransposeOf
<1>2. (IF Len(rows) = 1 THEN <<o, n>> ELSE <<o, m>>) = <<o, m>>
    BY <1>1, Zenon
<1>3. (IF n \in P THEN 1 ELSE 0) = IF m \in P2 THEN 1 ELSE 0
    BY Zenon
<1>4. (IF m \in T2 THEN TRUE ELSE FALSE) = TRUE
    BY Zenon
<1> QED BY <1>1, <1>2, <1>3, <1>4, Zenon DEF IsTensor

\* A clone of a transpose.
LEMMA TransposedClone ==
    ASSUME NEW R, NEW t, NEW o, NEW n, NEW P, NEW T, IsTensor(R, t, o, n, P, T), n \notin T,
           NEW m, NEW P2, NEW T2, n \in P <=> m \in P2, m \in T2
    PROVE  IsTensor(R, Clone(Transposed(t, <<o, m>>), <<o, m>>), o, m, P2, T2)
<1>1. PICK rows \in Seq(R) :
        /\ Len(rows) >= 1 /\ rows = t.rows
        /\ Transposed(t, <<o, m>>) = Record(rows, IF n \in P THEN 1 ELSE 0, TRUE,
                                            IF Len(rows) = 1 THEN <<o, n>> ELSE <<o, m>>)
    <2>1. TransposeOf(R, Transposed(t, <<o, m>>), t, o, n, P, <<o, m>>)
        BY Transpose, Zenon
    <2> QED BY <2>1, Zenon DEF TransposeOf
<1>2. Clone(Transposed(t, <<o, m>>), <<o, m>>)
        = Record(rows, IF n \in P THEN 1 ELSE 0, TRUE, <<o, m>>)
    <2>1. PICK u, plus, b, store : /\ u = Transposed(t, <<o, m>>) /\ b = TRUE
                                   /\ plus = IF n \in P THEN 1 ELSE 0
                                   /\ store = IF Len(rows) = 1 THEN <<o, n>> ELSE <<o, m>>
        BY Zenon
    <2>2. u = Record(rows, plus, b, store)
        BY <1>1, <2>1, Zenon
    <2>3. \A k : Clone(u, k) = Record(rows, plus, b, k)
        BY ONLY <2>2 DEF Clone, Record
    <2> QED BY <2>1, <2>3, Zenon
<1>3. (IF n \in P THEN 1 ELSE 0) = IF m \in P2 THEN 1 ELSE 0
    BY Zenon
<1>4. (IF m \in T2 THEN TRUE ELSE FALSE) = TRUE
    BY Zenon
<1> QED BY <1>1, <1>2, <1>3, <1>4, Zenon DEF IsTensor

\* A shift.
LEMMA ShiftTensor ==
    ASSUME NEW R, NEW t, NEW o, NEW n, NEW P, NEW T, IsTensor(R, t, o, n, P, T),
           n \notin P, NEW P2, n \in P2
    PROVE  IsTensor(R, [t EXCEPT !.plus = @ + 1, !.store = <<o, n>>], o, n, P2, T)
<1>1. PICK rows \in Seq(R) : /\ Len(rows) >= 1
                             /\ t = Record(rows, IF n \in P THEN 1 ELSE 0,
                                           IF n \in T THEN TRUE ELSE FALSE, <<o, n>>)
    BY DEF IsTensor
<1>2. PICK trans : trans = IF n \in T THEN TRUE ELSE FALSE
    BY Zenon
<1>3. t = Record(rows, 0, trans, <<o, n>>)
    BY <1>1, <1>2, Zenon
<1>4. t.plus + 1 = 1
    BY ONLY <1>3 DEF Record
<1>5. [t EXCEPT !.plus = @ + 1] = Record(rows, 1, trans, <<o, n>>)
    <2>1. [t EXCEPT !.plus = 1] = Record(rows, 1, trans, <<o, n>>)
        BY ONLY <1>3 DEF Record
    <2> QED BY <1>4, <2>1, Zenon
<1>6. [t EXCEPT !.plus = @ + 1, !.store = <<o, n>>] = Record(rows, 1, trans, <<o, n>>)
    <2>1. PICK u : u = [t EXCEPT !.plus = @ + 1]
        BY Zenon
    <2>2. u = Record(rows, 1, trans, <<o, n>>)
        BY <1>5, <2>1, Zenon
    <2>3. PICK k : k = <<o, n>>
        OBVIOUS
    <2>4. u = Record(rows, 1, trans, k)
        BY <2>2, <2>3, Zenon
    <2>5. [u EXCEPT !.store = k] = Record(rows, 1, trans, k)
        BY ONLY <2>4 DEF Record
    <2> QED BY <2>1, <2>3, <2>5, Zenon
<1>7. (IF n \in P2 THEN 1 ELSE 0) = 1
    BY Zenon
<1> QED BY <1>1, <1>2, <1>6, <1>7, Zenon DEF IsTensor

\* What two dictionaries share, a third shares with both.
LEMMA SameTrans ==
    ASSUME NEW d, NEW e, NEW f, NEW K, NEW L, Same(d, e, K), Same(e, f, L)
    PROVE  Same(d, f, K \cup L)
BY Zenon DEF Same

\* Within the same keys, twice.
LEMMA SameTwice ==
    ASSUME NEW d, NEW e, NEW f, NEW K, Same(d, e, K), Same(e, f, K)
    PROVE  Same(d, f, K)
BY Zenon DEF Same

\* More keys may differ.
LEMMA SameWeaker ==
    ASSUME NEW d, NEW e, NEW K, NEW L, Same(d, e, K), K \subseteq L
    PROVE  Same(d, e, L)
BY Zenon DEF Same

\* Put, Drop and Rename, key by key.
LEMMA PutKeys ==
    ASSUME NEW d, NEW k, NEW t
    PROVE  /\ DOMAIN Put(d, k, t) = DOMAIN d \cup {k}
           /\ Put(d, k, t)[k] = t
           /\ \A m \in DOMAIN d : m # k => Put(d, k, t)[m] = d[m]
           /\ Same(d, Put(d, k, t), {k})
<1>1. /\ DOMAIN Put(d, k, t) = DOMAIN d \cup {k}
      /\ Put(d, k, t)[k] = t
      /\ \A m \in DOMAIN d : m # k => Put(d, k, t)[m] = d[m]
    BY DEF Put
<1> QED BY <1>1, Zenon DEF Same

\* Drop.
LEMMA DropKeys ==
    ASSUME NEW d, NEW K
    PROVE  /\ DOMAIN Drop(d, K) = DOMAIN d \ K
           /\ \A m \in DOMAIN d \ K : Drop(d, K)[m] = d[m]
           /\ Same(d, Drop(d, K), K)
<1>1. /\ DOMAIN Drop(d, K) = DOMAIN d \ K
      /\ \A m \in DOMAIN d \ K : Drop(d, K)[m] = d[m]
    BY DEF Drop, Restrict
<1> QED BY <1>1, Zenon DEF Same

\* Rename.
LEMMA RenameKeys ==
    ASSUME NEW d, NEW a \in DOMAIN d, NEW b, a # b
    PROVE  /\ DOMAIN Rename(d, a, b) = (DOMAIN d \ {a}) \cup {b}
           /\ Rename(d, a, b)[b] = Clone(d[a], b)
           /\ \A m \in DOMAIN d \ {a, b} : Rename(d, a, b)[m] = d[m]
           /\ Same(d, Rename(d, a, b), {a, b})
<1> DEFINE rest == Drop(d, {a})
           new == Clone(d[a], b)
<1>1. Rename(d, a, b) = Put(rest, b, new)
    BY DEF Rename
<1>2. DOMAIN rest = DOMAIN d \ {a} /\ \A m \in DOMAIN d \ {a} : rest[m] = d[m]
    BY DropKeys
<1> HIDE DEF rest, new
<1>3. /\ DOMAIN Put(rest, b, new) = DOMAIN rest \cup {b}
      /\ Put(rest, b, new)[b] = new
      /\ \A m \in DOMAIN rest : m # b => Put(rest, b, new)[m] = rest[m]
    BY DEF Put
<1>4. /\ DOMAIN Rename(d, a, b) = (DOMAIN d \ {a}) \cup {b}
      /\ Rename(d, a, b)[b] = new
      /\ \A m \in DOMAIN d \ {a, b} : Rename(d, a, b)[m] = d[m]
    BY <1>1, <1>2, <1>3
<1> QED BY <1>4, Zenon DEF Same, new

\* The same, name by name of an owner.
LEMMA PutPart ==
    ASSUME NEW R, NEW d, NEW o, NEW U, NEW N, NEW P, NEW T, Part(R, d, o, U, N, P, T),
           NEW n \in U, NEW t, NEW T2, IsTensor(R, t, o, n, P, T2),
           \A m \in N : m # n => (m \in T <=> m \in T2)
    PROVE  Part(R, Put(d, <<o, n>>, t), o, U, N \cup {n}, P, T2)
<1> DEFINE e == Put(d, <<o, n>>, t)
<1>1. /\ DOMAIN e = DOMAIN d \cup {<<o, n>>}
      /\ e[<<o, n>>] = t
      /\ \A m \in DOMAIN d : m # <<o, n>> => e[m] = d[m]
    BY DEF Put
<1> HIDE DEF e
<1>2. \A m : <<o, m>> = <<o, n>> <=> m = n
    OBVIOUS
<1>3. \A m \in U : <<o, m>> \in DOMAIN e <=> m \in N \cup {n}
    BY <1>1, <1>2 DEF Part
<1>4. ASSUME NEW m \in N \cup {n} PROVE IsTensor(R, e[<<o, m>>], o, m, P, T2)
    <2>1. CASE m = n
        BY <1>1, <2>1
    <2>2. CASE m # n
        <3>1. m \in N /\ <<o, m>> \in DOMAIN d /\ IsTensor(R, d[<<o, m>>], o, m, P, T)
            BY <2>2 DEF Part
        <3>2. e[<<o, m>>] = d[<<o, m>>]
            BY <3>1, <2>2, <1>1, <1>2
        <3> QED BY <2>2, <3>1, <3>2, Remarked
    <2> QED BY <2>1, <2>2
<1>5. N \cup {n} \subseteq U
    BY DEF Part
<1> QED BY <1>3, <1>4, <1>5 DEF Part, e

\* The marks of the others stay.
LEMMA PutPlain ==
    ASSUME NEW R, NEW d, NEW o, NEW U, NEW N, NEW P, NEW T, Part(R, d, o, U, N, P, T),
           NEW n \in U, NEW t, IsTensor(R, t, o, n, P, T)
    PROVE  /\ Part(R, Put(d, <<o, n>>, t), o, U, N \cup {n}, P, T)
           /\ Same(d, Put(d, <<o, n>>, t), {<<o, n>>})
           /\ Put(d, <<o, n>>, t)[<<o, n>>] = t
<1>1. \A m \in N : m # n => (m \in T <=> m \in T)
    OBVIOUS
<1>2. Part(R, Put(d, <<o, n>>, t), o, U, N \cup {n}, P, T)
    BY <1>1, PutPart
<1>3. Same(d, Put(d, <<o, n>>, t), {<<o, n>>})
    BY PutKeys, Zenon
<1>4. Put(d, <<o, n>>, t)[<<o, n>>] = t
    BY DEF Put
<1> QED BY <1>2, <1>3, <1>4

\* Names of the part dropped.
LEMMA DropPart ==
    ASSUME NEW R, NEW d, NEW o, NEW U, NEW N, NEW P, NEW T, Part(R, d, o, U, N, P, T), NEW D
    PROVE  Part(R, Drop(d, Owned(o, D)), o, U, N \ D, P, T)
<1> DEFINE e == Drop(d, Owned(o, D))
<1>1. /\ DOMAIN e = DOMAIN d \ Owned(o, D)
      /\ \A m \in DOMAIN d \ Owned(o, D) : e[m] = d[m]
    BY DropKeys
<1> HIDE DEF e
<1>2. \A m : <<o, m>> \in Owned(o, D) <=> m \in D
    BY DEF Owned
<1>3. \A m \in U : <<o, m>> \in DOMAIN e <=> m \in N \ D
    BY <1>1, <1>2 DEF Part
<1>4. ASSUME NEW m \in N \ D PROVE IsTensor(R, e[<<o, m>>], o, m, P, T)
    <2>1. <<o, m>> \in DOMAIN d \ Owned(o, D) /\ IsTensor(R, d[<<o, m>>], o, m, P, T)
        BY <1>2 DEF Part
    <2>2. e[<<o, m>>] = d[<<o, m>>]
        BY <1>1, <2>1
    <2> QED BY <2>1, <2>2
<1>5. N \ D \subseteq U
    BY DEF Part
<1> QED BY <1>3, <1>4, <1>5 DEF Part, e

\* A name of the part changed, its marks kept.
LEMMA RenamePart ==
    ASSUME NEW R, NEW d, NEW o, NEW U, NEW N, NEW P, NEW T, Part(R, d, o, U, N, P, T),
           NEW a \in N, NEW b \in U \ N, a \in P <=> b \in P, a \in T <=> b \in T
    PROVE  /\ Part(R, Rename(d, <<o, a>>, <<o, b>>), o, U, (N \ {a}) \cup {b}, P, T)
           /\ Same(d, Rename(d, <<o, a>>, <<o, b>>), {<<o, a>>, <<o, b>>})
<1> DEFINE e == Rename(d, <<o, a>>, <<o, b>>)
<1>0. <<o, a>> \in DOMAIN d /\ a # b /\ \A m, n : <<o, m>> = <<o, n>> <=> m = n
    BY DEF Part
<1>1. /\ DOMAIN e = (DOMAIN d \ {<<o, a>>}) \cup {<<o, b>>}
      /\ e[<<o, b>>] = Clone(d[<<o, a>>], <<o, b>>)
      /\ \A m \in DOMAIN d \ {<<o, a>>, <<o, b>>} : e[m] = d[m]
      /\ Same(d, e, {<<o, a>>, <<o, b>>})
    <2>1. <<o, a>> # <<o, b>>
        BY <1>0
    <2> QED BY <1>0, <2>1, RenameKeys
<1> HIDE DEF e
<1>2. \A m \in U : <<o, m>> \in DOMAIN e <=> m \in (N \ {a}) \cup {b}
    BY <1>0, <1>1 DEF Part
<1>3. ASSUME NEW m \in (N \ {a}) \cup {b} PROVE IsTensor(R, e[<<o, m>>], o, m, P, T)
    <2>1. CASE m = b
        <3>1. IsTensor(R, d[<<o, a>>], o, a, P, T)
            BY DEF Part
        <3> QED BY <3>1, <2>1, <1>1, CloneTensor
    <2>2. CASE m # b
        <3>1. m \in N /\ m # a /\ <<o, m>> \in DOMAIN d /\ IsTensor(R, d[<<o, m>>], o, m, P, T)
            BY <2>2 DEF Part
        <3>2. <<o, m>> \in DOMAIN d \ {<<o, a>>, <<o, b>>}
            BY <1>0, <2>2, <3>1
        <3>3. e[<<o, m>>] = d[<<o, m>>]
            BY <3>2, <1>1
        <3> QED BY <3>1, <3>3
    <2> QED BY <2>1, <2>2
<1>4. (N \ {a}) \cup {b} \subseteq U
    BY DEF Part
<1> QED BY <1>1, <1>2, <1>3, <1>4 DEF Part, e

\* What is the same in d and e for the names of U.
LEMMA SamePart ==
    ASSUME NEW R, NEW d, NEW e, NEW o, NEW U, NEW N, NEW P, NEW T, Part(R, d, o, U, N, P, T),
           NEW K, Same(d, e, K), \A n \in U : <<o, n>> \notin K
    PROVE  Part(R, e, o, U, N, P, T)
<1>1. \A n \in U : <<o, n>> \in DOMAIN e <=> n \in N
    BY Zenon DEF Part, Same
<1>2. \A n \in N : n \in U /\ <<o, n>> \in DOMAIN d /\ IsTensor(R, d[<<o, n>>], o, n, P, T)
    BY Zenon DEF Part
<1>3. \A n \in N : e[<<o, n>>] = d[<<o, n>>]
    BY <1>2, Zenon DEF Same
<1> QED BY <1>1, <1>2, <1>3, Zenon DEF Part

\* Some names of a part; two parts; a part under other marks.
LEMMA SubPart ==
    ASSUME NEW R, NEW d, NEW o, NEW U, NEW N, NEW P, NEW T, Part(R, d, o, U, N, P, T),
           NEW V \in SUBSET U
    PROVE  Part(R, d, o, V, N \cap V, P, T)
BY Zenon DEF Part

\* Two parts of an owner, of different names.
LEMMA JoinParts ==
    ASSUME NEW R, NEW d, NEW o, NEW P, NEW T, NEW U, NEW N, Part(R, d, o, U, N, P, T),
           NEW V, NEW M, Part(R, d, o, V, M, P, T), U \cap V = {}
    PROVE  Part(R, d, o, U \cup V, N \cup M, P, T)
<1>1. N \subseteq U /\ M \subseteq V /\ \A n \in U : n \notin V
    BY DEF Part
<1>2. \A n \in U \cup V : <<o, n>> \in DOMAIN d <=> n \in N \cup M
    BY <1>1, Zenon DEF Part
<1>3. \A n \in N \cup M : IsTensor(R, d[<<o, n>>], o, n, P, T)
    BY Zenon DEF Part
<1> QED BY <1>1, <1>2, <1>3, Zenon DEF Part

\* A part under marks that agree on its names.
LEMMA RemarkedPart ==
    ASSUME NEW R, NEW d, NEW o, NEW U, NEW N, NEW P, NEW T, Part(R, d, o, U, N, P, T),
           NEW P2, NEW T2, \A n \in N : (n \in P <=> n \in P2) /\ (n \in T <=> n \in T2)
    PROVE  Part(R, d, o, U, N, P2, T2)
<1>1. ASSUME NEW n \in N PROVE IsTensor(R, d[<<o, n>>], o, n, P2, T2)
    <2>1. IsTensor(R, d[<<o, n>>], o, n, P, T)
        BY DEF Part
    <2> QED BY <2>1, Remarked
<1> QED BY <1>1, Zenon DEF Part

(***************************************************************************)
(* The converters, on the names they read and write.                        *)
(***************************************************************************)
\* The names of the MLP and of the mixers, before and after.
MlpNames ==
    {"gate", "experts.gate_up_proj", "experts.down_proj", "shared.gate_proj", "shared.up_proj",
     "shared.down_proj", "shared_expert_gate", "moe.router", "moe.gate_up_proj", "moe.down_proj",
     "moe_router_w_t", "moe_sigma_gate_t"}

LayerNorms == {"input_layernorm", "post_attention_layernorm"}

MixerNames ==
    {"in_proj_qkv", "in_proj_z", "in_proj_a", "in_proj_b", "conv1d", "A_log", "dt_bias",
     "gated_norm", "out_proj"}
    \cup DeltaNetParams
    \cup {"q_proj", "k_proj", "v_proj", "o_proj", "q_norm", "k_norm"}
    \cup {"rank_util", "q_layernorm", "k_layernorm", "output_gate_proj", "Wqkv"}
    \cup {"gqa_qkv_w", "gqa_gate_w", "gqa_o_proj_w"}
    \cup LayerNorms

\* The norms that are shifted, under the names they have before and after.
ShiftedNames == ScaledNorms \cup {"q_norm", "k_norm"}

\* Some tensors of an owner transposed in place.
LEMMA FlipPart ==
    ASSUME NEW R, NEW d, NEW o, NEW U, NEW N, NEW P, NEW Z, Part(R, d, o, U, N, P, Z),
           \A n \in N : n \notin Z,
           NEW F, NEW T, \A n \in N : n \in T <=> n \in F,
           NEW K, \A n : <<o, n>> \in K <=> n \in F, NEW e,
           e = [k \in DOMAIN d |-> IF k \in K THEN Transposed(d[k], k) ELSE d[k]]
    PROVE  Part(R, e, o, U, N, P, T) /\ Same(d, e, K)
<1>1. \A n : <<o, n>> \in K <=> n \in F
    OBVIOUS
<1>2. DOMAIN e = DOMAIN d
    OBVIOUS
<1>3. \A k \in DOMAIN d : e[k] = IF k \in K THEN Transposed(d[k], k) ELSE d[k]
    OBVIOUS
<1>4. ASSUME NEW n \in N PROVE IsTensor(R, e[<<o, n>>], o, n, P, T)
    <2>1. <<o, n>> \in DOMAIN d /\ IsTensor(R, d[<<o, n>>], o, n, P, Z)
        BY DEF Part
    <2>2. CASE n \in F
        <3>1. e[<<o, n>>] = Transposed(d[<<o, n>>], <<o, n>>)
            BY <1>1, <1>3, <2>1, <2>2
        <3>2. n \notin Z /\ n \in T
            BY <2>2
        <3>3. IsTensor(R, Transposed(d[<<o, n>>], <<o, n>>), o, n, P, T)
            BY <2>1, <3>2, TransposeTensor, Zenon
        <3> QED BY <3>1, <3>3, Zenon
    <2>3. CASE n \notin F
        <3>1. e[<<o, n>>] = d[<<o, n>>]
            BY <1>1, <1>3, <2>1, <2>3
        <3>2. n \in Z <=> n \in T
            BY <2>3
        <3>3. n \in P <=> n \in P
            OBVIOUS
        <3>4. IsTensor(R, d[<<o, n>>], o, n, P, T)
            BY <2>1, <3>2, <3>3, Remarked, Zenon
        <3> QED BY <3>1, <3>4, Zenon
    <2> QED BY <2>2, <2>3
<1>5. Same(d, e, K)
    BY <1>2, <1>3, Zenon DEF Same
<1> QED BY <1>2, <1>4, <1>5, Zenon DEF Part

\* _convert_moe_block: the names the MoE block declares, the experts' weights
\* and what the megakernel reads transposed, the copies in storage of their own.
LEMMA MoeConverted ==
    ASSUME NEW R, NEW c \in Configs, NEW o, NEW d,
           Part(R, d, o, MlpNames, DOMAIN MlpRows, ShiftedNames, {})
    PROVE  /\ Part(R, ConvertMoe(d, o, c), o, MlpNames, MlpParams(c), ShiftedNames,
                   ContractionFirst(c))
           /\ Same(d, ConvertMoe(d, o, c), Owned(o, MlpNames))
<1> DEFINE d1 == Rename(d, <<o, "gate">>, <<o, "moe.router">>)
           d2 == Rename(d1, <<o, "experts.gate_up_proj">>, <<o, "moe.gate_up_proj">>)
           d3 == Rename(d2, <<o, "experts.down_proj">>, <<o, "moe.down_proj">>)
           shared == {"shared.gate_proj", "shared.up_proj", "shared.down_proj"}
           F == {"moe.gate_up_proj", "moe.down_proj"} \cup IF c.moe THEN shared ELSE {}
           flipped == {<<o, "moe.gate_up_proj">>, <<o, "moe.down_proj">>}
                      \cup IF c.moe THEN SharedProjections(o) ELSE {}
           d4 == [k \in DOMAIN d3 |-> IF k \in flipped THEN Transposed(d3[k], k) ELSE d3[k]]
           router == <<o, "moe_router_w_t">>
           sigma == <<o, "moe_sigma_gate_t">>
           d5 == Put(d4, router, Clone(Transposed(d4[<<o, "moe.router">>], router), router))
           d6 == Put(d5, sigma, Clone(Transposed(d4[<<o, "shared_expert_gate">>], sigma), sigma))
           T == ContractionFirst(c)
           N1 == {"moe.router", "experts.gate_up_proj", "experts.down_proj", "shared.gate_proj",
                  "shared.up_proj", "shared.down_proj", "shared_expert_gate"}
           N2 == {"moe.router", "moe.gate_up_proj", "experts.down_proj", "shared.gate_proj",
                  "shared.up_proj", "shared.down_proj", "shared_expert_gate"}
           N3 == {"moe.router", "moe.gate_up_proj", "moe.down_proj", "shared.gate_proj",
                  "shared.up_proj", "shared.down_proj", "shared_expert_gate"}
<1>0. ConvertMoe(d, o, c) = IF c.moe THEN d6 ELSE d4
    BY Zenon DEF ConvertMoe, SigmaCopy
<1>1. \A n \in MlpNames : n \notin ShiftedNames
    BY DEF MlpNames, ShiftedNames, ScaledNorms
<1>2. Part(R, d1, o, MlpNames, N1, ShiftedNames, {}) /\ Same(d, d1, Owned(o, MlpNames))
    <2> DEFINE N0 == {"gate", "experts.gate_up_proj", "experts.down_proj", "shared.gate_proj",
                      "shared.up_proj", "shared.down_proj", "shared_expert_gate"}
    <2>1. Part(R, d, o, MlpNames, N0, ShiftedNames, {})
        <3>1. DOMAIN MlpRows = N0
            BY DEF MlpRows
        <3> QED BY <3>1, Zenon
    <2>2. "gate" \in N0 /\ "moe.router" \in MlpNames \ N0
        BY DEF MlpNames
    <2>3. (N0 \ {"gate"}) \cup {"moe.router"} = N1
        OBVIOUS
    <2>4. "gate" \in MlpNames
        BY DEF MlpNames
    <2> HIDE DEF N0, N1, d1
    <2>5. /\ Part(R, d1, o, MlpNames, (N0 \ {"gate"}) \cup {"moe.router"}, ShiftedNames, {})
          /\ Same(d, d1, {<<o, "gate">>, <<o, "moe.router">>})
        BY <1>1, <2>1, <2>2, <2>4, RenamePart DEF d1
    <2>6. {<<o, "gate">>, <<o, "moe.router">>} \subseteq Owned(o, MlpNames)
        BY <2>2, <2>4 DEF Owned
    <2> QED BY <2>3, <2>5, <2>6, SameWeaker
<1>3. Part(R, d2, o, MlpNames, N2, ShiftedNames, {}) /\ Same(d1, d2, Owned(o, MlpNames))
    <2>2. "experts.gate_up_proj" \in N1 /\ "moe.gate_up_proj" \in MlpNames \ N1
        BY DEF MlpNames
    <2>3. (N1 \ {"experts.gate_up_proj"}) \cup {"moe.gate_up_proj"} = N2
        OBVIOUS
    <2>4. "experts.gate_up_proj" \in MlpNames
        BY DEF MlpNames
    <2> HIDE DEF N1, N2, d1, d2
    <2>5. /\ Part(R, d2, o, MlpNames, (N1 \ {"experts.gate_up_proj"}) \cup {"moe.gate_up_proj"},
                  ShiftedNames, {})
          /\ Same(d1, d2, {<<o, "experts.gate_up_proj">>, <<o, "moe.gate_up_proj">>})
        BY <1>1, <1>2, <2>2, <2>4, RenamePart DEF d2
    <2>6. {<<o, "experts.gate_up_proj">>, <<o, "moe.gate_up_proj">>} \subseteq Owned(o, MlpNames)
        BY <2>2, <2>4 DEF Owned
    <2> QED BY <2>3, <2>5, <2>6, SameWeaker
<1>4. Part(R, d3, o, MlpNames, N3, ShiftedNames, {}) /\ Same(d2, d3, Owned(o, MlpNames))
    <2>2. "experts.down_proj" \in N2 /\ "moe.down_proj" \in MlpNames \ N2
        BY DEF MlpNames
    <2>3. (N2 \ {"experts.down_proj"}) \cup {"moe.down_proj"} = N3
        OBVIOUS
    <2>4. "experts.down_proj" \in MlpNames
        BY DEF MlpNames
    <2> HIDE DEF N2, N3, d2, d3
    <2>5. /\ Part(R, d3, o, MlpNames, (N2 \ {"experts.down_proj"}) \cup {"moe.down_proj"},
                  ShiftedNames, {})
          /\ Same(d2, d3, {<<o, "experts.down_proj">>, <<o, "moe.down_proj">>})
        BY <1>1, <1>3, <2>2, <2>4, RenamePart DEF d3
    <2>6. {<<o, "experts.down_proj">>, <<o, "moe.down_proj">>} \subseteq Owned(o, MlpNames)
        BY <2>2, <2>4 DEF Owned
    <2> QED BY <2>3, <2>5, <2>6, SameWeaker
<1>5. Part(R, d4, o, MlpNames, N3, ShiftedNames, T) /\ Same(d3, d4, Owned(o, MlpNames))
    <2>1. \A n \in N3 : n \in T <=> n \in F
        BY DEF ContractionFirst
    <2>2. flipped \subseteq Owned(o, MlpNames)
        BY DEF Owned, MlpNames, SharedProjections
    <2>4. \A n : <<o, n>> \in flipped <=> n \in F
        BY DEF SharedProjections
    <2> HIDE DEF N3, F, T, d3, flipped
    <2>3. Part(R, d4, o, MlpNames, N3, ShiftedNames, T) /\ Same(d3, d4, flipped)
        <3>1. PICK Z : Z = {}
            OBVIOUS
        <3>2. Part(R, d3, o, MlpNames, N3, ShiftedNames, Z) /\ \A n \in N3 : n \notin Z
            BY <1>4, <3>1
        <3> QED BY <2>1, <2>4, <3>2, FlipPart, Zenon
    <2> HIDE DEF d4
    <2> QED BY <2>2, <2>3, SameWeaker
<1> HIDE DEF d1, d2, d3, d4
<1>6. Same(d, d4, Owned(o, MlpNames))
    <2>1. Same(d, d2, Owned(o, MlpNames))
        BY <1>2, <1>3, SameTwice
    <2>2. Same(d, d3, Owned(o, MlpNames))
        BY <1>4, <2>1, SameTwice
    <2> QED BY <1>5, <2>2, SameTwice
<1>7. CASE ~c.moe
    <2>1. MlpParams(c) = N3
        BY <1>7 DEF MlpParams
    <2> QED BY <1>0, <1>5, <1>6, <1>7, <2>1
<1>8. CASE c.moe
    <2>1. /\ "moe.router" \in N3 /\ "shared_expert_gate" \in N3
          /\ "moe.router" \notin ShiftedNames /\ "shared_expert_gate" \notin ShiftedNames
          /\ "moe_router_w_t" \notin ShiftedNames /\ "moe_sigma_gate_t" \notin ShiftedNames
          /\ "moe_router_w_t" \in MlpNames /\ "moe_sigma_gate_t" \in MlpNames
          /\ "moe.router" \notin T /\ "shared_expert_gate" \notin T
          /\ "moe_router_w_t" \in T /\ "moe_sigma_gate_t" \in T
        BY <1>8 DEF ShiftedNames, ScaledNorms, MlpNames, ContractionFirst
    <2>2. MlpParams(c) = (N3 \cup {"moe_router_w_t"}) \cup {"moe_sigma_gate_t"}
        BY <1>8 DEF MlpParams
    <2>3. router \in Owned(o, MlpNames) /\ sigma \in Owned(o, MlpNames)
        BY <2>1 DEF Owned
    <2> HIDE DEF N3, T
    <2>4. IsTensor(R, d4[<<o, "moe.router">>], o, "moe.router", ShiftedNames, T)
        BY <1>5, <2>1, Zenon DEF Part
    <2>5. IsTensor(R, d4[<<o, "shared_expert_gate">>], o, "shared_expert_gate", ShiftedNames, T)
        BY <1>5, <2>1, Zenon DEF Part
    <2>6. IsTensor(R, Clone(Transposed(d4[<<o, "moe.router">>], router), router),
                   o, "moe_router_w_t", ShiftedNames, T)
        BY <2>1, <2>4, TransposedClone, Zenon
    <2>7. IsTensor(R, Clone(Transposed(d4[<<o, "shared_expert_gate">>], sigma), sigma),
                   o, "moe_sigma_gate_t", ShiftedNames, T)
        BY <2>1, <2>5, TransposedClone, Zenon
    <2>8. Part(R, d5, o, MlpNames, N3 \cup {"moe_router_w_t"}, ShiftedNames, T)
            /\ Same(d4, d5, {router})
        BY <1>5, <2>1, <2>6, PutPart, PutKeys, Zenon
    <2> HIDE DEF d5
    <2>9. /\ Part(R, d6, o, MlpNames, (N3 \cup {"moe_router_w_t"}) \cup {"moe_sigma_gate_t"},
                  ShiftedNames, T)
          /\ Same(d5, d6, {sigma})
        BY <2>8, <2>1, <2>7, PutPart, PutKeys, Zenon
    <2> HIDE DEF d6, router, sigma
    <2>10. Same(d, d6, (Owned(o, MlpNames) \cup {router}) \cup {sigma})
        <3>1. Same(d, d5, Owned(o, MlpNames) \cup {router})
            BY <1>6, <2>8, SameTrans, Zenon
        <3> QED BY <3>1, <2>9, SameTrans, Zenon
    <2>11. (Owned(o, MlpNames) \cup {router}) \cup {sigma} = Owned(o, MlpNames)
        BY <2>3
    <2> QED BY <1>0, <1>8, <2>2, <2>9, <2>10, <2>11 DEF T
<1> QED BY <1>7, <1>8

\* The rows of a tensor.
LEMMA TensorRows ==
    ASSUME NEW R, NEW t, NEW o, NEW n, NEW P, NEW T, IsTensor(R, t, o, n, P, T)
    PROVE  t.rows \in Seq(R) /\ Len(t.rows) >= 1
BY DEF IsTensor, Record

\* The names of a DeltaNet layer but the MLP's, before the conversion.
DeltaNetBefore ==
    {"in_proj_qkv", "in_proj_z", "in_proj_a", "in_proj_b", "conv1d", "A_log", "dt_bias",
     "gated_norm", "out_proj"} \cup LayerNorms

\* Which names a DeltaNet layer has on the way, and their marks.
LEMMA DeltaNetNames ==
    /\ DeltaNetBefore \subseteq MixerNames
    /\ \A n \in {"in_proj_fused", "conv1d_weight", "A_log_weight",
         "dt_bias_weight"} : n \in MixerNames
<1>1. DeltaNetBefore \subseteq MixerNames
    BY DEF DeltaNetBefore, MixerNames
<1> QED BY <1>1 DEF MixerNames, DeltaNetParams

\* The DeltaNet branch of the layers' loop: the five inputs packed into one
\* projection and one convolution, the output projection transposed.
LEMMA DeltaNetConverted ==
    ASSUME NEW R, NEW c \in Configs, NEW o, NEW d, ~DeltaNetRaises(c),
           Part(R, d, o, MixerNames, DeltaNetBefore, ShiftedNames, {}),
           Len(d[<<o, "in_proj_qkv">>].rows) = ConvDim(c), Len(d[<<o, "conv1d">>].rows) = ConvDim(c)
    PROVE  /\ Part(R, ConvertDeltaNet(d, o, c), o, MixerNames, DeltaNetParams \cup LayerNorms,
                   ShiftedNames, ContractionFirst(c))
           /\ Same(d, ConvertDeltaNet(d, o, c), Owned(o, MixerNames))
<1> DEFINE Rows(n) == d[<<o, n>>].rows
           Repacked(n) == IF c.tp > 1 THEN ReorderQkv(c, Rows(n)) ELSE Rows(n)
           fused == <<o, "in_proj_fused">>
           out == <<o, "out_proj">>
           conv == <<o, "conv1d_weight">>
           inputs == {"in_proj_qkv", "in_proj_z", "in_proj_a", "in_proj_b", "conv1d"}
           proj == InProjFused(c, Repacked("in_proj_qkv"), Rows("in_proj_z"),
                               Rows("in_proj_a"), Rows("in_proj_b"))
           d1 == Drop(d, Owned(o, inputs))
           d2 == Put(d1, fused, Transposed(Tensor(fused, proj), fused))
           d3 == Put(d2, out, Transposed(d[out], out))
           d4 == Put(d3, conv, Tensor(conv, Repacked("conv1d")))
           d5 == Rename(d4, <<o, "A_log">>, <<o, "A_log_weight">>)
           d6 == Rename(d5, <<o, "dt_bias">>, <<o, "dt_bias_weight">>)
           P == ShiftedNames
           T == ContractionFirst(c)
           T1 == {"in_proj_fused"}
           N1 == {"A_log", "dt_bias", "gated_norm", "out_proj"} \cup LayerNorms
           N4 == {"A_log", "dt_bias", "gated_norm", "out_proj", "in_proj_fused", "conv1d_weight"}
                 \cup LayerNorms
           N5 == {"A_log_weight", "dt_bias", "gated_norm", "out_proj", "in_proj_fused",
                  "conv1d_weight"} \cup LayerNorms
           K == Owned(o, MixerNames)
<1>0. ConvertDeltaNet(d, o, c) = d6
    BY Zenon DEF ConvertDeltaNet, Owned
<1>1. PICK Z : Z = {}
    OBVIOUS
<1>2. Part(R, d, o, MixerNames, DeltaNetBefore, P, Z)
    BY <1>1
<1>3. /\ DeltaNetBefore \subseteq MixerNames
      /\ "in_proj_fused" \in MixerNames /\ "conv1d_weight" \in MixerNames
      /\ "A_log_weight" \in MixerNames /\ "dt_bias_weight" \in MixerNames
    BY DeltaNetNames
<1>4. \A n \in {"in_proj_fused", "out_proj", "conv1d_weight", "A_log", "A_log_weight", "dt_bias",
                "dt_bias_weight"} : n \notin P
    BY DEF ShiftedNames, ScaledNorms
<1>5. \A n \in inputs \cup {"out_proj"} : IsTensor(R, d[<<o, n>>], o, n, P, Z)
    <2>1. inputs \cup {"out_proj"} \subseteq DeltaNetBefore
        BY DEF DeltaNetBefore
    <2> HIDE DEF inputs, P
    <2> QED BY <1>2, <2>1, Zenon DEF Part
<1>6. \A n \in inputs : Rows(n) \in Seq(R) /\ Len(Rows(n)) >= 1
    <2> TAKE n \in inputs
    <2>1. IsTensor(R, d[<<o, n>>], o, n, P, Z)
        BY <1>5
    <2> HIDE DEF P
    <2> QED BY <2>1, TensorRows
<1>7. \A n \in {"in_proj_qkv", "conv1d"} : Repacked(n) \in Seq(R) /\ Len(Repacked(n)) >= c.tp
    <2> TAKE n \in {"in_proj_qkv", "conv1d"}
    <2>1. n \in inputs /\ Len(Rows(n)) = ConvDim(c)
        OBVIOUS
    <2>2. Rows(n) \in Seq(R)
        BY <1>6, <2>1
    <2>3. CASE c.tp > 1
        <3>1. ReorderQkv(c, Rows(n)) \in Seq(R) /\ Len(ReorderQkv(c, Rows(n))) >= c.tp
            <4> HIDE DEF Rows
            <4> QED BY <2>1, <2>2, <2>3, ReorderRows
        <3> QED BY <2>3, <3>1
    <2>4. CASE ~(c.tp > 1)
        <3>1. c.tp = 1 /\ ConvDim(c) >= 1
            BY <2>4, ConfigFields, Dims
        <3> QED BY <2>1, <2>2, <3>1
    <2> QED BY <2>3, <2>4
<1>8. proj \in Seq(R) /\ Len(proj) >= 1
    <2>1. /\ Repacked("in_proj_qkv") \in Seq(R) /\ Len(Repacked("in_proj_qkv")) >= c.tp
          /\ Rows("in_proj_z") \in Seq(R) /\ Rows("in_proj_a") \in Seq(R)
               /\ Rows("in_proj_b") \in Seq(R)
        BY <1>6, <1>7
    <2> HIDE DEF Repacked, Rows
    <2> QED BY <2>1, InProjRows
<1>9. Repacked("conv1d") \in Seq(R) /\ Len(Repacked("conv1d")) >= 1
    <2>1. Repacked("conv1d") \in Seq(R) /\ Len(Repacked("conv1d")) >= c.tp
        BY <1>7
    <2> HIDE DEF Repacked
    <2>2. Len(Repacked("conv1d")) \in Nat
        BY <2>1
    <2> QED BY <2>1, <2>2, ConfigFields
<1>10. /\ "in_proj_fused" \in T /\ "out_proj" \in T
       /\ \A n \in DeltaNetBefore \cup {"conv1d_weight", "A_log_weight", "dt_bias_weight"} :
            n # "out_proj" => n \notin T
    BY DEF ContractionFirst, DeltaNetBefore, LayerNorms
<1> HIDE DEF proj, Repacked, Rows
<1>11. IsTensor(R, Transposed(Tensor(fused, proj), fused), o, "in_proj_fused", P, T1)
    <2>1. "in_proj_fused" \notin P /\ "in_proj_fused" \notin Z
        BY <1>1, <1>4
    <2>2. "in_proj_fused" \in T1
        OBVIOUS
    <2> HIDE DEF P, T1
    <2>3. IsTensor(R, Tensor(fused, proj), o, "in_proj_fused", P, Z)
        BY <1>8, <2>1, NewTensor, Zenon
    <2> QED BY <2>1, <2>2, <2>3, TransposeTensor, Zenon
<1>12. IsTensor(R, Transposed(d[out], out), o, "out_proj", P, T)
    <2>1. "out_proj" \notin Z /\ "out_proj" \in inputs \cup {"out_proj"}
        BY <1>1
    <2> HIDE DEF P, T, inputs
    <2>2. IsTensor(R, d[out], o, "out_proj", P, Z)
        BY <1>5, <2>1, Zenon
    <2> QED BY <1>10, <2>1, <2>2, TransposeTensor, Zenon
<1>13. IsTensor(R, Tensor(conv, Repacked("conv1d")), o, "conv1d_weight", P, T)
    <2>1. "conv1d_weight" \notin P /\ "conv1d_weight" \notin T
        BY <1>4, <1>10
    <2> HIDE DEF P, T
    <2> QED BY <1>9, <2>1, NewTensor, Zenon
<1>14. Part(R, d1, o, MixerNames, N1, P, Z) /\ Same(d, d1, Owned(o, inputs))
    <2>1. DeltaNetBefore \ inputs = N1
        BY DEF DeltaNetBefore, LayerNorms
    <2>2. Part(R, d1, o, MixerNames, DeltaNetBefore \ inputs, P, Z)
        <3> HIDE DEF inputs, P
        <3> QED BY <1>2, DropPart, Zenon
    <2>3. Same(d, d1, Owned(o, inputs))
        BY DropKeys, Zenon
    <2> QED BY <2>1, <2>2, <2>3
<1> HIDE DEF d1
<1>15. Part(R, d2, o, MixerNames, N1 \cup {"in_proj_fused"}, P, T1) /\ Same(d1, d2, {fused})
    <2>1. \A m \in N1 : m # "in_proj_fused" => (m \in Z <=> m \in T1)
        BY <1>1
    <2> HIDE DEF N1, P, T1
    <2> QED BY <1>3, <1>11, <1>14, <2>1, PutPart, PutKeys, Zenon
<1> HIDE DEF d2
<1>16. /\ Part(R, d3, o, MixerNames, (N1 \cup {"in_proj_fused"}) \cup {"out_proj"}, P, T)
       /\ Same(d2, d3, {out})
    <2>1. \A m \in N1 \cup {"in_proj_fused"} : m # "out_proj" => (m \in T1 <=> m \in T)
        BY <1>10 DEF DeltaNetBefore
    <2>2. "out_proj" \in MixerNames
        BY <1>3 DEF DeltaNetBefore
    <2> DEFINE N2 == N1 \cup {"in_proj_fused"}
    <2>3. /\ Part(R, d2, o, MixerNames, N2, P, T1)
          /\ \A m \in N2 : m # "out_proj" => (m \in T1 <=> m \in T)
        BY <1>15, <2>1
    <2> HIDE DEF N1, N2, P, T, T1
    <2>4. Part(R, d3, o, MixerNames, N2 \cup {"out_proj"}, P, T) /\ Same(d2, d3, {out})
        BY <1>12, <2>2, <2>3, PutPart, PutKeys, Zenon
    <2> QED BY <2>4 DEF N2
<1> HIDE DEF d3
<1>17. Part(R, d4, o, MixerNames, N4, P, T) /\ Same(d3, d4, {conv})
    <2> DEFINE N3 == (N1 \cup {"in_proj_fused"}) \cup {"out_proj"}
    <2>1. N3 \cup {"conv1d_weight"} = N4
        OBVIOUS
    <2>2. Part(R, d3, o, MixerNames, N3, P, T)
        BY <1>16
    <2> HIDE DEF N3, N4, P, T
    <2>3. Part(R, d4, o, MixerNames, N3 \cup {"conv1d_weight"}, P, T) /\ Same(d3, d4, {conv})
        BY <1>3, <1>13, <2>2, PutPart, PutKeys, Zenon
    <2> QED BY <2>1, <2>3
<1> HIDE DEF d4
<1>18. Part(R, d5, o, MixerNames, N5, P, T) /\ Same(d4, d5, {<<o, "A_log">>, <<o, "A_log_weight">>})
    <2>1. "A_log" \in N4 /\ "A_log_weight" \in MixerNames \ N4
        BY <1>3 DEF LayerNorms
    <2>2. (N4 \ {"A_log"}) \cup {"A_log_weight"} = N5
        BY DEF LayerNorms
    <2>3. /\ ("A_log" \in P <=> "A_log_weight" \in P) /\ ("A_log" \in T <=> "A_log_weight" \in T)
        BY <1>4, <1>10 DEF DeltaNetBefore
    <2> HIDE DEF N4, N5, P, T
    <2>4. /\ Part(R, d5, o, MixerNames, (N4 \ {"A_log"}) \cup {"A_log_weight"}, P, T)
          /\ Same(d4, d5, {<<o, "A_log">>, <<o, "A_log_weight">>})
        BY <1>17, <2>1, <2>3, RenamePart
    <2> QED BY <2>2, <2>4
<1> HIDE DEF d5
<1>19. /\ Part(R, d6, o, MixerNames, DeltaNetParams \cup LayerNorms, P, T)
       /\ Same(d5, d6, {<<o, "dt_bias">>, <<o, "dt_bias_weight">>})
    <2>1. "dt_bias" \in N5 /\ "dt_bias_weight" \in MixerNames \ N5
        BY <1>3 DEF LayerNorms
    <2>2. (N5 \ {"dt_bias"}) \cup {"dt_bias_weight"} = DeltaNetParams \cup LayerNorms
        BY DEF LayerNorms, DeltaNetParams
    <2>3. /\ ("dt_bias" \in P <=> "dt_bias_weight" \in P)
               /\ ("dt_bias" \in T <=> "dt_bias_weight" \in T)
        BY <1>4, <1>10 DEF DeltaNetBefore
    <2> HIDE DEF N5, P, T
    <2>4. /\ Part(R, d6, o, MixerNames, (N5 \ {"dt_bias"}) \cup {"dt_bias_weight"}, P, T)
          /\ Same(d5, d6, {<<o, "dt_bias">>, <<o, "dt_bias_weight">>})
        BY <1>18, <2>1, <2>3, RenamePart
    <2> QED BY <2>2, <2>4
<1> HIDE DEF d6
<1>20. Same(d, d6, K)
    <2>1. /\ Owned(o, inputs) \subseteq K /\ fused \in K /\ out \in K /\ conv \in K
          /\ <<o, "A_log">> \in K /\ <<o, "A_log_weight">> \in K
          /\ <<o, "dt_bias">> \in K /\ <<o, "dt_bias_weight">> \in K
        BY <1>3 DEF Owned, DeltaNetBefore
    <2> HIDE DEF K, fused, out, conv
    <2>3. Same(d, d1, K)
        BY <1>14, <2>1, SameWeaker
    <2>4. Same(d1, d2, K)
        BY <1>15, <2>1, SameWeaker
    <2>5. Same(d2, d3, K)
        BY <1>16, <2>1, SameWeaker
    <2>6. Same(d3, d4, K)
        BY <1>17, <2>1, SameWeaker
    <2>7. Same(d4, d5, K)
        <3>1. {<<o, "A_log">>, <<o, "A_log_weight">>} \subseteq K
            BY <2>1
        <3> QED BY <1>18, <3>1, SameWeaker
    <2>8. Same(d5, d6, K)
        <3>1. {<<o, "dt_bias">>, <<o, "dt_bias_weight">>} \subseteq K
            BY <2>1
        <3> QED BY <1>19, <3>1, SameWeaker
    <2>9. Same(d, d2, K)
        BY <2>3, <2>4, SameTwice
    <2>10. Same(d, d3, K)
        BY <2>5, <2>9, SameTwice
    <2>11. Same(d, d4, K)
        BY <2>6, <2>10, SameTwice
    <2>12. Same(d, d5, K)
        BY <2>7, <2>11, SameTwice
    <2> QED BY <2>8, <2>12, SameTwice
<1> QED BY <1>0, <1>19, <1>20

\* The names of an attention layer but the MLP's, before, once its own are
\* given and once the gate is split from the query.
AttentionBefore ==
    {"q_proj", "k_proj", "v_proj", "o_proj", "q_norm", "k_norm"} \cup LayerNorms

AttentionNamed ==
    {"q_proj", "k_proj", "v_proj", "o_proj", "rank_util", "q_layernorm", "k_layernorm"}
    \cup LayerNorms

AttentionSplit == AttentionNamed \cup {"output_gate_proj"}

\* What the names of an attention layer have to do with the marks.
LEMMA AttentionNames ==
    ASSUME NEW c
    PROVE  /\ AttentionBefore \subseteq MixerNames /\ AttentionSplit \subseteq MixerNames
           /\ \A n \in {"q_layernorm", "k_layernorm", "gqa_qkv_w", "gqa_gate_w", "gqa_o_proj_w",
                "Wqkv"} :
                n \in MixerNames
           /\ \A n \in {"q_proj", "k_proj", "v_proj", "o_proj", "rank_util", "output_gate_proj",
                        "gqa_qkv_w", "gqa_gate_w", "gqa_o_proj_w", "Wqkv"} : n \notin ShiftedNames
           /\ "q_norm" \in ShiftedNames /\ "q_layernorm" \in ShiftedNames
           /\ "k_norm" \in ShiftedNames /\ "k_layernorm" \in ShiftedNames
           /\ \A n \in AttentionSplit \cup {"Wqkv"} : n \notin ContractionFirst(c)
           /\ \A n \in {"gqa_qkv_w", "gqa_gate_w", "gqa_o_proj_w"} : n \in ContractionFirst(c)
<1>1. AttentionBefore \subseteq MixerNames /\ AttentionSplit \subseteq MixerNames
    BY DEF AttentionBefore, AttentionSplit, AttentionNamed, MixerNames
<1>2. \A n \in {"q_layernorm", "k_layernorm", "gqa_qkv_w", "gqa_gate_w", "gqa_o_proj_w", "Wqkv"} :
        n \in MixerNames
    BY DEF MixerNames
<1>3. \A n \in {"q_proj", "k_proj", "v_proj", "o_proj", "rank_util", "output_gate_proj",
                "gqa_qkv_w", "gqa_gate_w", "gqa_o_proj_w", "Wqkv"} : n \notin ShiftedNames
    BY DEF ShiftedNames, ScaledNorms
<1>4. /\ "q_norm" \in ShiftedNames /\ "q_layernorm" \in ShiftedNames
      /\ "k_norm" \in ShiftedNames /\ "k_layernorm" \in ShiftedNames
    BY DEF ShiftedNames, ScaledNorms
<1>5. \A n \in AttentionSplit \cup {"Wqkv"} : n \notin ContractionFirst(c)
    BY DEF AttentionSplit, AttentionNamed, LayerNorms, ContractionFirst
<1>6. \A n \in {"gqa_qkv_w", "gqa_gate_w", "gqa_o_proj_w"} : n \in ContractionFirst(c)
    BY DEF ContractionFirst
<1> QED BY <1>1, <1>2, <1>3, <1>4, <1>5, <1>6, Zenon

\* rank_util, and the norms under the names the attention declares.
LEMMA AttentionIsNamed ==
    ASSUME NEW R, NEW o, NEW d, NEW Z, Z = {},
           Part(R, d, o, MixerNames, AttentionBefore, ShiftedNames, Z),
           <<<<o, "rank_util">>, 0>> \in R
    PROVE  /\ Part(R, NamedAttention(d, o), o, MixerNames, AttentionNamed, ShiftedNames, Z)
           /\ Same(d, NamedAttention(d, o),
                   Owned(o, {"rank_util", "q_norm", "q_layernorm", "k_norm", "k_layernorm"}))
<1> DEFINE r == <<o, "rank_util">>
           rows == << <<r, 0>> >>
           d1 == Put(d, r, Tensor(r, rows))
           d2 == Rename(d1, <<o, "q_norm">>, <<o, "q_layernorm">>)
           d3 == Rename(d2, <<o, "k_norm">>, <<o, "k_layernorm">>)
           N1 == AttentionBefore \cup {"rank_util"}
           N2 == (N1 \ {"q_norm"}) \cup {"q_layernorm"}
           K == Owned(o, {"rank_util", "q_norm", "q_layernorm", "k_norm", "k_layernorm"})
           P == ShiftedNames
<1>0. NamedAttention(d, o) = d3
    BY Zenon DEF NamedAttention
<1>1. rows \in Seq(R) /\ Len(rows) >= 1
    OBVIOUS
<1>2. IsTensor(R, Tensor(r, rows), o, "rank_util", P, Z)
    <2>1. "rank_util" \notin P /\ "rank_util" \notin Z
        BY AttentionNames
    <2> HIDE DEF P, rows
    <2> QED BY <1>1, <2>1, NewTensor, Zenon
<1>3. /\ "rank_util" \in MixerNames
      /\ "q_norm" \in N1 /\ "q_layernorm" \in MixerNames \ N1
      /\ "k_norm" \in N2 /\ "k_layernorm" \in MixerNames \ N2
    <2>1. "rank_util" \in AttentionSplit
        BY DEF AttentionSplit, AttentionNamed
    <2>2. "q_norm" \in N1 /\ "q_layernorm" \notin N1 /\ "k_norm" \in N2 /\ "k_layernorm" \notin N2
        BY DEF AttentionBefore, LayerNorms
    <2> HIDE DEF N1, N2
    <2> QED BY <2>1, <2>2, AttentionNames
<1>4. Part(R, d1, o, MixerNames, N1, P, Z) /\ Same(d, d1, {r})
    <2>1. Part(R, d, o, MixerNames, AttentionBefore, P, Z)
        OBVIOUS
    <2> HIDE DEF P, rows
    <2> QED BY <1>2, <1>3, <2>1, PutPlain, Zenon
<1> HIDE DEF d1
<1>5. Part(R, d2, o, MixerNames, N2, P, Z) /\ Same(d1, d2, {<<o, "q_norm">>, <<o, "q_layernorm">>})
    <2>1. ("q_norm" \in P <=> "q_layernorm" \in P) /\ ("q_norm" \in Z <=> "q_layernorm" \in Z)
        BY AttentionNames
    <2> HIDE DEF N1, P
    <2> QED BY <1>3, <1>4, <2>1, RenamePart
<1> HIDE DEF d2
<1>6. /\ Part(R, d3, o, MixerNames, (N2 \ {"k_norm"}) \cup {"k_layernorm"}, P, Z)
      /\ Same(d2, d3, {<<o, "k_norm">>, <<o, "k_layernorm">>})
    <2>1. ("k_norm" \in P <=> "k_layernorm" \in P) /\ ("k_norm" \in Z <=> "k_layernorm" \in Z)
        BY AttentionNames
    <2> HIDE DEF N2, P
    <2> QED BY <1>3, <1>5, <2>1, RenamePart
<1> HIDE DEF d3
<1>7. (N2 \ {"k_norm"}) \cup {"k_layernorm"} = AttentionNamed
    BY DEF AttentionBefore, AttentionNamed, LayerNorms
<1>8. Same(d, d3, K)
    <2>1. /\ {r} \subseteq K /\ {<<o, "q_norm">>, <<o, "q_layernorm">>} \subseteq K
          /\ {<<o, "k_norm">>, <<o, "k_layernorm">>} \subseteq K
        BY DEF Owned
    <2> HIDE DEF K, r
    <2>2. Same(d, d1, K)
        BY <1>4, <2>1, SameWeaker
    <2>3. Same(d1, d2, K)
        BY <1>5, <2>1, SameWeaker
    <2>4. Same(d2, d3, K)
        BY <1>6, <2>1, SameWeaker
    <2>5. Same(d, d2, K)
        BY <2>2, <2>3, SameTwice
    <2> QED BY <2>4, <2>5, SameTwice
<1> QED BY <1>0, <1>6, <1>7, <1>8

\* The query and the output gate, each a part of a head of the doubled q_proj.
LEMMA GateIsSplit ==
    ASSUME NEW R, NEW c \in Configs, NEW o, NEW d, NEW Z, Z = {},
           Part(R, d, o, MixerNames, AttentionNamed, ShiftedNames, Z),
           Len(d[<<o, "q_proj">>].rows) = 2 * c.nq * c.hd
    PROVE  /\ Part(R, SplitGate(d, o, c), o, MixerNames, AttentionSplit, ShiftedNames, Z)
           /\ Same(d, SplitGate(d, o, c), Owned(o, {"q_proj", "output_gate_proj"}))
           /\ Len(SplitGate(d, o, c)[<<o, "q_proj">>].rows) >= c.nq
           /\ Len(SplitGate(d, o, c)[<<o, "output_gate_proj">>].rows) >= 2
<1> DEFINE q == <<o, "q_proj">>
           g == <<o, "output_gate_proj">>
           query == HeadHalf(c, d[q].rows, 0)
           gate == HeadHalf(c, d[q].rows, 1)
           d1 == Put(d, q, Tensor(q, query))
           d2 == Put(d1, g, Tensor(g, gate))
           K == Owned(o, {"q_proj", "output_gate_proj"})
           P == ShiftedNames
<1>0. SplitGate(d, o, c) = d2
    BY Zenon DEF SplitGate
<1>1. /\ "q_proj" \in AttentionNamed /\ "q_proj" \in MixerNames /\ "output_gate_proj" \in MixerNames
      /\ "q_proj" \notin P /\ "output_gate_proj" \notin P
      /\ "q_proj" \notin Z /\ "output_gate_proj" \notin Z
    <2>1. "q_proj" \in AttentionNamed /\ "q_proj" \in AttentionSplit
            /\ "output_gate_proj" \in AttentionSplit
        BY DEF AttentionNamed, AttentionSplit
    <2> QED BY <2>1, AttentionNames
<1>2. d[q].rows \in Seq(R)
    <2>1. IsTensor(R, d[q], o, "q_proj", P, Z)
        BY <1>1, Zenon DEF Part
    <2> HIDE DEF P
    <2> QED BY <2>1, TensorRows
<1>3. /\ query \in Seq(R) /\ Len(query) >= c.hd + c.nq - 1
      /\ gate \in Seq(R) /\ Len(gate) >= c.hd + c.nq - 1
    <2>1. 0 \in {0, 1} /\ 1 \in {0, 1}
        OBVIOUS
    <2> QED BY <1>2, <2>1, HalfRows
<1>4. Len(query) >= 1 /\ Len(gate) >= 1 /\ Len(query) >= c.nq /\ Len(gate) >= 2
    <2> HIDE DEF query, gate
    <2>1. Len(query) \in Nat /\ Len(gate) \in Nat
        BY <1>3
    <2> QED BY <1>3, <2>1, ConfigFields
<1> HIDE DEF query, gate
<1>5. /\ Part(R, d1, o, MixerNames, AttentionNamed \cup {"q_proj"}, P, Z) /\ Same(d, d1, {q})
      /\ d1[q] = Tensor(q, query)
    <2>1. Part(R, d, o, MixerNames, AttentionNamed, P, Z)
        OBVIOUS
    <2> HIDE DEF P
    <2>2. IsTensor(R, Tensor(q, query), o, "q_proj", P, Z)
        BY <1>1, <1>3, <1>4, NewTensor, Zenon
    <2>3. PICK t : t = Tensor(q, query)
        OBVIOUS
    <2>4. IsTensor(R, t, o, "q_proj", P, Z) /\ "q_proj" \in MixerNames
        BY <1>1, <2>2, <2>3
    <2>5. /\ Part(R, Put(d, q, t), o, MixerNames, AttentionNamed \cup {"q_proj"}, P, Z)
          /\ Same(d, Put(d, q, t), {q}) /\ Put(d, q, t)[q] = t
        BY ONLY <2>1, <2>4, PutPlain
    <2> QED BY <2>3, <2>5
<1> HIDE DEF d1
<1>6. /\ Part(R, d2, o, MixerNames, AttentionSplit, P, Z) /\ Same(d1, d2, {g})
      /\ d2[g] = Tensor(g, gate)
    <2>1. AttentionNamed \cup {"q_proj"} = AttentionNamed
        BY <1>1
    <2>2. Part(R, d1, o, MixerNames, AttentionNamed, P, Z)
        BY <1>5, <2>1
    <2> HIDE DEF P
    <2>3. IsTensor(R, Tensor(g, gate), o, "output_gate_proj", P, Z)
        BY <1>1, <1>3, <1>4, NewTensor, Zenon
    <2>4. /\ Part(R, d2, o, MixerNames, AttentionNamed \cup {"output_gate_proj"}, P, Z)
          /\ Same(d1, d2, {g}) /\ d2[g] = Tensor(g, gate)
        <3>1. PICK t : t = Tensor(g, gate)
            OBVIOUS
        <3>2. IsTensor(R, t, o, "output_gate_proj", P, Z) /\ "output_gate_proj" \in MixerNames
            BY <1>1, <2>3, <3>1
        <3>3. /\ Part(R, Put(d1, g, t), o, MixerNames, AttentionNamed \cup {"output_gate_proj"},
                   P, Z)
              /\ Same(d1, Put(d1, g, t), {g}) /\ Put(d1, g, t)[g] = t
            BY ONLY <2>2, <3>2, PutPlain
        <3> QED BY <3>1, <3>3
    <2> QED BY <2>4, Zenon DEF AttentionSplit
<1> HIDE DEF d2
<1>7. d2[q] = Tensor(q, query)
    <2>1. q # g /\ q \in DOMAIN d1
        <3>1. "q_proj" # "output_gate_proj"
            OBVIOUS
        <3>2. q # g
            BY <3>1
        <3> HIDE DEF P
        <3>3. q \in DOMAIN d1
            BY <1>1, <1>5, Zenon DEF Part
        <3> QED BY <3>2, <3>3
    <2> QED BY <1>5, <1>6, <2>1 DEF Same
<1>8. Same(d, d2, K)
    <2>1. {q} \subseteq K /\ {g} \subseteq K
        BY DEF Owned
    <2> HIDE DEF K, q, g
    <2>2. Same(d, d1, K)
        BY <1>5, <2>1, SameWeaker
    <2>3. Same(d1, d2, K)
        BY <1>6, <2>1, SameWeaker
    <2> QED BY <2>2, <2>3, SameTwice
<1>9. Len(d2[q].rows) >= c.nq /\ Len(d2[g].rows) >= 2
    <2>1. Tensor(q, query).rows = query /\ Tensor(g, gate).rows = gate
        BY DEF Tensor
    <2> QED BY <1>4, <1>6, <1>7, <2>1
<1> QED BY <1>0, <1>6, <1>8, <1>9

\* The copies the fused kernel reads, each in storage of its own: the gate
\* and o_proj have more rows than one.
LEMMA KernelIsCopied ==
    ASSUME NEW R, NEW c \in Configs, NEW o, NEW d, NEW Z, Z = {}, c.attn, ~AttentionRaises(c),
           Part(R, d, o, MixerNames, AttentionSplit, ShiftedNames, Z),
           Len(d[<<o, "q_proj">>].rows) >= c.nq,
           Len(d[<<o, "k_proj">>].rows) = c.nkv * c.hd, Len(d[<<o, "v_proj">>].rows) = c.nkv * c.hd,
           Len(d[<<o, "output_gate_proj">>].rows) # 1, Len(d[<<o, "o_proj">>].rows) # 1
    PROVE  /\ Part(R, KernelCopies(d, o, c), o, MixerNames,
                   AttentionSplit \cup {"gqa_qkv_w", "gqa_gate_w", "gqa_o_proj_w"},
                   ShiftedNames, ContractionFirst(c))
           /\ Same(d, KernelCopies(d, o, c), Owned(o, {"gqa_qkv_w", "gqa_gate_w", "gqa_o_proj_w"}))
<1> DEFINE w == <<o, "gqa_qkv_w">>
           g == <<o, "gqa_gate_w">>
           p == <<o, "gqa_o_proj_w">>
           qkv == GqaQkvFused(c, d[<<o, "q_proj">>].rows, d[<<o, "k_proj">>].rows,
             d[<<o, "v_proj">>].rows)
           tw == Transposed(Tensor(w, qkv), w)
           tg == Transposed(d[<<o, "output_gate_proj">>], g)
           tp == Transposed(d[<<o, "o_proj">>], p)
           d1 == Put(d, w, tw)
           d2 == Put(d1, g, tg)
           d3 == Put(d2, p, tp)
           K == Owned(o, {"gqa_qkv_w", "gqa_gate_w", "gqa_o_proj_w"})
           P == ShiftedNames
           T == ContractionFirst(c)
           T1 == {"gqa_qkv_w", "gqa_gate_w", "gqa_o_proj_w"}
           N1 == AttentionSplit \cup {"gqa_qkv_w"}
           N2 == N1 \cup {"gqa_gate_w"}
<1>0. KernelCopies(d, o, c) = d3
    BY Zenon DEF KernelCopies
<1>1. /\ {"q_proj", "k_proj", "v_proj", "o_proj", "output_gate_proj"} \subseteq AttentionSplit
      /\ "gqa_qkv_w" \in MixerNames /\ "gqa_gate_w" \in MixerNames /\ "gqa_o_proj_w" \in MixerNames
      /\ "gqa_qkv_w" \notin P /\ "gqa_gate_w" \notin P /\ "gqa_o_proj_w" \notin P
      /\ "output_gate_proj" \notin P /\ "o_proj" \notin P
      /\ "gqa_qkv_w" \in T /\ "gqa_gate_w" \in T /\ "gqa_o_proj_w" \in T
      /\ \A n \in AttentionSplit : n \notin T
    <2>1. {"q_proj", "k_proj", "v_proj", "o_proj", "output_gate_proj"} \subseteq AttentionSplit
        BY DEF AttentionSplit, AttentionNamed
    <2> HIDE DEF P, T
    <2> QED BY <2>1, AttentionNames DEF P, T
<1>2. Part(R, d, o, MixerNames, AttentionSplit, P, Z)
    OBVIOUS
<1>3. \A n \in {"q_proj", "k_proj", "v_proj", "o_proj", "output_gate_proj"} :
        /\ IsTensor(R, d[<<o, n>>], o, n, P, Z)
        /\ d[<<o, n>>].rows \in Seq(R)
    <2> HIDE DEF P
    <2> TAKE n \in {"q_proj", "k_proj", "v_proj", "o_proj", "output_gate_proj"}
    <2>1. IsTensor(R, d[<<o, n>>], o, n, P, Z)
        BY <1>1, <1>2, Zenon DEF Part
    <2> QED BY <2>1, TensorRows
<1>4. qkv \in Seq(R) /\ Len(qkv) >= 1
    <2>1. PICK q \in Seq(R), k \in Seq(R), v \in Seq(R) :
            q = d[<<o, "q_proj">>].rows /\ k = d[<<o, "k_proj">>].rows
              /\ v = d[<<o, "v_proj">>].rows
        BY <1>3
    <2>2. GqaQkvFused(c, q, k, v) \in Seq(R) /\ Len(GqaQkvFused(c, q, k, v)) >= 1
        BY <2>1, GqaRows
    <2> QED BY <2>1, <2>2
<1> HIDE DEF qkv
<1>5. IsTensor(R, tw, o, "gqa_qkv_w", P, T)
    <2>1. "gqa_qkv_w" \notin Z /\ "gqa_qkv_w" \notin P /\ "gqa_qkv_w" \in T
        BY <1>1
    <2> HIDE DEF P, T
    <2>2. IsTensor(R, Tensor(w, qkv), o, "gqa_qkv_w", P, Z)
        BY <1>4, <2>1, NewTensor, Zenon
    <2> QED BY <2>1, <2>2, TransposeTensor, Zenon
<1>6. IsTensor(R, tg, o, "gqa_gate_w", P, T)
    <2>1. /\ "output_gate_proj" \notin Z /\ "gqa_gate_w" \in T
          /\ ("output_gate_proj" \in P <=> "gqa_gate_w" \in P)
          /\ Len(d[<<o, "output_gate_proj">>].rows) # 1
        BY <1>1
    <2>2. IsTensor(R, d[<<o, "output_gate_proj">>], o, "output_gate_proj", P, Z)
        BY <1>3
    <2> HIDE DEF P, T
    <2> QED BY ONLY <2>1, <2>2, TransposeTensor, Zenon
<1>7. IsTensor(R, tp, o, "gqa_o_proj_w", P, T)
    <2>1. /\ "o_proj" \notin Z /\ "gqa_o_proj_w" \in T
          /\ ("o_proj" \in P <=> "gqa_o_proj_w" \in P)
          /\ Len(d[<<o, "o_proj">>].rows) # 1
        BY <1>1
    <2>2. IsTensor(R, d[<<o, "o_proj">>], o, "o_proj", P, Z)
        BY <1>3
    <2> HIDE DEF P, T
    <2> QED BY ONLY <2>1, <2>2, TransposeTensor, Zenon
<1> HIDE DEF tw, tg, tp
<1>8. Part(R, d1, o, MixerNames, N1, P, T) /\ Same(d, d1, {w})
    <2>1. \A m \in AttentionSplit : m # "gqa_qkv_w" => (m \in Z <=> m \in T)
        BY <1>1
    <2> HIDE DEF P, T
    <2>2. Part(R, d1, o, MixerNames, N1, P, T)
        BY ONLY <1>1, <1>2, <1>5, <2>1, PutPart
    <2>3. Same(d, d1, {w})
        BY PutKeys, Zenon
    <2> QED BY <2>2, <2>3
<1> HIDE DEF d1
<1>9. Part(R, d2, o, MixerNames, N2, P, T) /\ Same(d1, d2, {g})
    <2> HIDE DEF P, T, N1
    <2> QED BY ONLY <1>1, <1>6, <1>8, PutPlain
<1> HIDE DEF d2
<1>10. Part(R, d3, o, MixerNames, N2 \cup {"gqa_o_proj_w"}, P, T) /\ Same(d2, d3, {p})
    <2> HIDE DEF P, T, N2
    <2> QED BY ONLY <1>1, <1>7, <1>9, PutPlain
<1> HIDE DEF d3
<1>11. N2 \cup {"gqa_o_proj_w"} = AttentionSplit \cup {"gqa_qkv_w", "gqa_gate_w", "gqa_o_proj_w"}
    OBVIOUS
<1>12. Same(d, d3, K)
    <2>1. {w} \subseteq K /\ {g} \subseteq K /\ {p} \subseteq K
        BY DEF Owned
    <2> HIDE DEF K, w, g, p
    <2>2. Same(d, d1, K)
        BY <1>8, <2>1, SameWeaker
    <2>3. Same(d1, d2, K)
        BY <1>9, <2>1, SameWeaker
    <2>4. Same(d2, d3, K)
        BY <1>10, <2>1, SameWeaker
    <2>5. Same(d, d2, K)
        BY <2>2, <2>3, SameTwice
    <2> QED BY <2>4, <2>5, SameTwice
<1> QED BY <1>0, <1>10, <1>11, <1>12

\* NxDI's fused projection in place of q, k and v.
LEMMA QkvIsFused ==
    ASSUME NEW R, NEW c, NEW o, NEW d, NEW N, NEW T, Part(R, d, o, MixerNames, N, ShiftedNames, T),
           {"q_proj", "k_proj", "v_proj"} \subseteq N, "Wqkv" \notin T
    PROVE  /\ Part(R, FusedQkv(d, o), o, MixerNames,
                (N \ {"q_proj", "k_proj", "v_proj"}) \cup {"Wqkv"},
                   ShiftedNames, T)
           /\ Same(d, FusedQkv(d, o), Owned(o, {"q_proj", "k_proj", "v_proj", "Wqkv"}))
<1> DEFINE w == <<o, "Wqkv">>
           qkv == {"q_proj", "k_proj", "v_proj"}
           rows == d[<<o, "q_proj">>].rows \o d[<<o, "k_proj">>].rows \o d[<<o, "v_proj">>].rows
           d1 == Drop(d, Owned(o, qkv))
           d2 == Put(d1, w, Tensor(w, rows))
           K == Owned(o, {"q_proj", "k_proj", "v_proj", "Wqkv"})
           P == ShiftedNames
<1>0. FusedQkv(d, o) = d2
    BY Zenon DEF FusedQkv, Owned
<1>1. rows \in Seq(R) /\ Len(rows) >= 1
    <2>1. ASSUME NEW n \in qkv PROVE d[<<o, n>>].rows \in Seq(R) /\ Len(d[<<o, n>>].rows) >= 1
        <3>1. IsTensor(R, d[<<o, n>>], o, n, P, T)
            BY Zenon DEF Part
        <3> HIDE DEF P
        <3> QED BY <3>1, TensorRows
    <2>2. PICK q \in Seq(R), k \in Seq(R), v \in Seq(R) :
            /\ q = d[<<o, "q_proj">>].rows /\ k = d[<<o, "k_proj">>].rows
                 /\ v = d[<<o, "v_proj">>].rows
            /\ Len(q) >= 1
        BY <2>1
    <2>3. q \o k \in Seq(R) /\ Len(q \o k) >= Len(q)
        BY Appended
    <2>4. q \o k \o v \in Seq(R) /\ Len(q \o k \o v) >= Len(q \o k)
        BY <2>3, Appended
    <2>5. rows = (q \o k) \o v
        BY <2>2
    <2>6. PICK s \in Seq(R) : s = q \o k
        BY <2>3
    <2>7. PICK t \in Seq(R) : t = s \o v
        BY <2>4, <2>6
    <2>8. Len(t) \in Nat /\ Len(s) \in Nat /\ Len(q) \in Nat
        BY <2>2
    <2>9. Len(s) >= Len(q) /\ Len(t) >= Len(s)
        BY <2>3, <2>4, <2>6, <2>7
    <2>10. rows = t
        BY <2>5, <2>6, <2>7, Zenon
    <2>11. Len(t) >= 1
        BY ONLY <2>2, <2>8, <2>9
    <2> QED BY <2>10, <2>11, Zenon
<1>2. "Wqkv" \in MixerNames /\ "Wqkv" \notin P
    BY AttentionNames
<1> HIDE DEF rows
<1>3. Part(R, d1, o, MixerNames, N \ qkv, P, T) /\ Same(d, d1, Owned(o, qkv))
    <2>1. Part(R, d, o, MixerNames, N, P, T)
        OBVIOUS
    <2> HIDE DEF qkv, P
    <2>2. Part(R, d1, o, MixerNames, N \ qkv, P, T)
        BY ONLY <2>1, DropPart
    <2>3. Same(d, d1, Owned(o, qkv))
        BY DropKeys, Zenon
    <2> QED BY <2>2, <2>3
<1> HIDE DEF d1
<1>4. Part(R, d2, o, MixerNames, (N \ qkv) \cup {"Wqkv"}, P, T) /\ Same(d1, d2, {w})
    <2> HIDE DEF qkv, P
    <2>1. PICK t : t = Tensor(w, rows)
        OBVIOUS
    <2>2. IsTensor(R, Tensor(w, rows), o, "Wqkv", P, T)
        BY <1>1, <1>2, NewTensor, Zenon
    <2>3. "Wqkv" \in MixerNames /\ IsTensor(R, t, o, "Wqkv", P, T)
        BY <1>2, <2>1, <2>2
    <2>4. /\ Part(R, Put(d1, w, t), o, MixerNames, (N \ qkv) \cup {"Wqkv"}, P, T)
          /\ Same(d1, Put(d1, w, t), {w})
        BY ONLY <1>3, <2>3, PutPlain
    <2> QED BY <2>1, <2>4
<1> HIDE DEF d2
<1>5. Same(d, d2, K)
    <2>1. Owned(o, qkv) \subseteq K /\ {w} \subseteq K
        BY DEF Owned
    <2> HIDE DEF K, w, qkv
    <2>2. Same(d, d1, K)
        BY <1>3, <2>1, SameWeaker
    <2>3. Same(d1, d2, K)
        BY <1>4, <2>1, SameWeaker
    <2> QED BY <2>2, <2>3, SameTwice
<1> QED BY <1>0, <1>4, <1>5

\* _convert_full_attention_block: the names the attention declares under these
\* flags, of either owner of such a layer.
LEMMA AttentionConverted ==
    ASSUME NEW R, NEW c \in Configs, NEW o, NEW d, ~AttentionRaises(c),
           Part(R, d, o, MixerNames, AttentionBefore, ShiftedNames, {}),
           <<<<o, "rank_util">>, 0>> \in R,
           Len(d[<<o, "q_proj">>].rows) = 2 * c.nq * c.hd,
           Len(d[<<o, "k_proj">>].rows) = c.nkv * c.hd, Len(d[<<o, "v_proj">>].rows) = c.nkv * c.hd,
           Len(d[<<o, "o_proj">>].rows) = c.nq * c.hd
    PROVE  /\ Part(R, ConvertAttention(d, o, c), o, MixerNames, AttentionParams(c) \cup LayerNorms,
                   ShiftedNames, ContractionFirst(c))
           /\ Same(d, ConvertAttention(d, o, c), Owned(o, MixerNames))
<1> DEFINE d1 == NamedAttention(d, o)
           d2 == SplitGate(d1, o, c)
           d3 == IF c.attn THEN KernelCopies(d2, o, c) ELSE d2
           d4 == IF c.fusedQkv THEN FusedQkv(d3, o) ELSE d3
           copies == {"gqa_qkv_w", "gqa_gate_w", "gqa_o_proj_w"}
           N3 == AttentionSplit \cup IF c.attn THEN copies ELSE {}
           P == ShiftedNames
           T == ContractionFirst(c)
           K == Owned(o, MixerNames)
<1>0. ConvertAttention(d, o, c) = d4
    BY Zenon DEF ConvertAttention
<1>1. PICK Z : Z = {}
    OBVIOUS
<1>2. /\ Part(R, d1, o, MixerNames, AttentionNamed, P, Z)
      /\ Same(d, d1, Owned(o, {"rank_util", "q_norm", "q_layernorm", "k_norm", "k_layernorm"}))
    BY <1>1, AttentionIsNamed
<1> HIDE DEF d1
<1>3. \A n \in {"q_proj", "k_proj", "v_proj", "o_proj"} : d1[<<o, n>>] = d[<<o, n>>]
    <2> TAKE n \in {"q_proj", "k_proj", "v_proj", "o_proj"}
    <2>1. n \in AttentionBefore /\ n \in MixerNames
        BY AttentionNames DEF AttentionBefore
    <2>2. <<o, n>> \in DOMAIN d
        BY <2>1, Zenon DEF Part
    <2>3. <<o, n>> \notin Owned(o, {"rank_util", "q_norm", "q_layernorm", "k_norm", "k_layernorm"})
        BY DEF Owned
    <2> QED BY <1>2, <2>2, <2>3, Zenon DEF Same
<1>4. /\ Part(R, d2, o, MixerNames, AttentionSplit, P, Z)
      /\ Same(d1, d2, Owned(o, {"q_proj", "output_gate_proj"}))
      /\ Len(d2[<<o, "q_proj">>].rows) >= c.nq
      /\ Len(d2[<<o, "output_gate_proj">>].rows) >= 2
    <2>1. Len(d1[<<o, "q_proj">>].rows) = 2 * c.nq * c.hd
        BY <1>3
    <2> QED BY <1>1, <1>2, <2>1, GateIsSplit
<1> HIDE DEF d2
<1>5. \A n \in {"k_proj", "v_proj", "o_proj"} : d2[<<o, n>>] = d[<<o, n>>]
    <2> TAKE n \in {"k_proj", "v_proj", "o_proj"}
    <2>1. n \in AttentionNamed /\ n \in MixerNames
        BY AttentionNames DEF AttentionNamed, AttentionSplit
    <2>2. <<o, n>> \in DOMAIN d1
        BY <1>2, <2>1, Zenon DEF Part
    <2>3. <<o, n>> \notin Owned(o, {"q_proj", "output_gate_proj"})
        BY DEF Owned
    <2>4. d2[<<o, n>>] = d1[<<o, n>>]
        BY <1>4, <2>2, <2>3, Zenon DEF Same
    <2> QED BY <1>3, <2>4
<1>6. Part(R, d3, o, MixerNames, N3, P, T) /\ Same(d2, d3, K)
    <2>1. CASE c.attn
        <3>1. /\ Len(d2[<<o, "k_proj">>].rows) = c.nkv * c.hd
              /\ Len(d2[<<o, "v_proj">>].rows) = c.nkv * c.hd
              /\ Len(d2[<<o, "o_proj">>].rows) = c.nq * c.hd
            BY <1>5
        <3>2. c.nq * c.hd # 1
            <4>1. c.nq \in Nat \ {0} /\ c.hd \in Nat \ {0} /\ c.hd > 1
                BY ConfigFields
            <4> QED BY <4>1, ProductBounds
        <3>3. Len(d2[<<o, "output_gate_proj">>].rows) # 1
            <4>1. "output_gate_proj" \in AttentionSplit
                BY DEF AttentionSplit
            <4> HIDE DEF P
            <4>2. IsTensor(R, d2[<<o, "output_gate_proj">>], o, "output_gate_proj", P, Z)
                BY <1>4, <4>1, Zenon DEF Part
            <4>3. PICK rows \in Seq(R) : rows = d2[<<o, "output_gate_proj">>].rows
                BY <4>2, TensorRows
            <4>4. Len(rows) \in Nat /\ Len(rows) >= 2
                BY <1>4, <4>3
            <4> QED BY <4>3, <4>4
        <3>4. /\ Part(R, KernelCopies(d2, o, c), o, MixerNames, AttentionSplit \cup copies, P, T)
              /\ Same(d2, KernelCopies(d2, o, c), Owned(o, copies))
            BY <1>1, <1>4, <2>1, <3>1, <3>2, <3>3, KernelIsCopied
        <3>5. Owned(o, copies) \subseteq K
            BY AttentionNames DEF Owned
        <3>6. Same(d2, KernelCopies(d2, o, c), K)
            <4> HIDE DEF K, copies
            <4> QED BY <3>4, <3>5, SameWeaker
        <3> QED BY <2>1, <3>4, <3>6
    <2>2. CASE ~c.attn
        <3>1. Part(R, d2, o, MixerNames, AttentionSplit, P, T)
            <4>1. \A n \in AttentionSplit : (n \in P <=> n \in P) /\ (n \in Z <=> n \in T)
                BY <1>1, AttentionNames
            <4> HIDE DEF P, T
            <4> QED BY ONLY <1>4, <4>1, RemarkedPart
        <3>2. Same(d2, d2, K)
            BY Zenon DEF Same
        <3> QED BY <2>2, <3>1, <3>2
    <2> QED BY <2>1, <2>2
<1> HIDE DEF d3
<1>7. Part(R, d4, o, MixerNames, AttentionParams(c) \cup LayerNorms, P, T) /\ Same(d3, d4, K)
    <2>1. CASE c.fusedQkv
        <3>1. {"q_proj", "k_proj", "v_proj"} \subseteq N3 /\ "Wqkv" \notin T
            BY AttentionNames DEF AttentionSplit, AttentionNamed
        <3>2. /\ Part(R, FusedQkv(d3, o), o, MixerNames,
                      (N3 \ {"q_proj", "k_proj", "v_proj"}) \cup {"Wqkv"}, P, T)
              /\ Same(d3, FusedQkv(d3, o), Owned(o, {"q_proj", "k_proj", "v_proj", "Wqkv"}))
            <4> HIDE DEF N3, T
            <4> QED BY <1>6, <3>1, QkvIsFused
        <3>3. (N3 \ {"q_proj", "k_proj", "v_proj"}) \cup {"Wqkv"} = AttentionParams(c)
                \cup LayerNorms
            BY <2>1 DEF AttentionSplit, AttentionNamed, AttentionParams, LayerNorms
        <3>4. Owned(o, {"q_proj", "k_proj", "v_proj", "Wqkv"}) \subseteq K
            BY DEF Owned, MixerNames
        <3>5. Same(d3, FusedQkv(d3, o), K)
            <4> HIDE DEF K
            <4> QED BY <3>2, <3>4, SameWeaker
        <3> QED BY <2>1, <3>2, <3>3, <3>5
    <2>2. CASE ~c.fusedQkv
        <3>1. N3 = AttentionParams(c) \cup LayerNorms
            BY <2>2 DEF AttentionSplit, AttentionNamed, AttentionParams, LayerNorms
        <3>2. Same(d3, d3, K)
            BY Zenon DEF Same
        <3> QED BY <1>6, <2>2, <3>1, <3>2
    <2> QED BY <2>1, <2>2
<1> HIDE DEF d4
<1>8. Same(d, d4, K)
    <2>1. Owned(o, {"rank_util", "q_norm", "q_layernorm", "k_norm", "k_layernorm"}) \subseteq K
        BY DEF Owned, MixerNames
    <2>2. Owned(o, {"q_proj", "output_gate_proj"}) \subseteq K
        BY DEF Owned, MixerNames
    <2> HIDE DEF K
    <2>3. Same(d, d1, K)
        BY <1>2, <2>1, SameWeaker
    <2>4. Same(d1, d2, K)
        BY <1>4, <2>2, SameWeaker
    <2>5. Same(d, d2, K)
        BY <2>3, <2>4, SameTwice
    <2>6. Same(d, d3, K)
        BY <1>6, <2>5, SameTwice
    <2> QED BY <1>7, <2>6, SameTwice
<1> QED BY <1>0, <1>7, <1>8

(***************************************************************************)
(* A layer of either kind.                                                  *)
(***************************************************************************)
LayerNames == MixerNames \cup MlpNames

LayerBefore(linear) == (IF linear THEN DeltaNetBefore ELSE AttentionBefore) \cup DOMAIN MlpRows

\* The rows of its inputs that the conversion cuts.
Lens(c, d, o, linear) ==
    IF linear
    THEN /\ Len(d[<<o, "in_proj_qkv">>].rows) = ConvDim(c)
         /\ Len(d[<<o, "conv1d">>].rows) = ConvDim(c)
    ELSE /\ Len(d[<<o, "q_proj">>].rows) = 2 * c.nq * c.hd
         /\ Len(d[<<o, "k_proj">>].rows) = c.nkv * c.hd
         /\ Len(d[<<o, "v_proj">>].rows) = c.nkv * c.hd
         /\ Len(d[<<o, "o_proj">>].rows) = c.nq * c.hd

\* The layer of o as the checkpoint has it, its norms marked P, and converted.
Before(R, c, d, o, linear, P) ==
    /\ Part(R, d, o, LayerNames, LayerBefore(linear), P, {})
    /\ Lens(c, d, o, linear)

After(R, c, d, o, linear) ==
    Part(R, d, o, LayerNames, LayerParams(c, linear), ShiftedNames, ContractionFirst(c))

\* The names of the mixer and of the MLP of a layer.
LEMMA LayerSplit ==
    ASSUME NEW linear \in BOOLEAN, NEW c
    PROVE  /\ MixerNames \cap MlpNames = {}
           /\ LayerBefore(linear) \cap MixerNames
                = IF linear THEN DeltaNetBefore ELSE AttentionBefore
           /\ LayerBefore(linear) \cap MlpNames = DOMAIN MlpRows
           /\ LayerBefore(linear) \subseteq LayerNames
           /\ LayerParams(c, linear) = ((IF linear THEN DeltaNetParams ELSE AttentionParams(c))
                                          \cup LayerNorms) \cup MlpParams(c)
<1>1. MixerNames \cap MlpNames = {}
    BY DEF MixerNames, MlpNames, DeltaNetParams, LayerNorms
<1>2. DeltaNetBefore \subseteq MixerNames /\ AttentionBefore \subseteq MixerNames
    BY DEF MixerNames, DeltaNetBefore, AttentionBefore
<1>3. DOMAIN MlpRows \subseteq MlpNames
    BY DEF MlpRows, MlpNames
<1>4. LayerParams(c, linear) = ((IF linear THEN DeltaNetParams ELSE AttentionParams(c))
                                  \cup LayerNorms) \cup MlpParams(c)
    BY Zenon DEF LayerParams, LayerNorms
<1> QED BY <1>1, <1>2, <1>3, <1>4 DEF LayerBefore, LayerNames

\* One turn of the layers' loop, on the keys of its layer.
LEMMA LayerConverted ==
    ASSUME NEW R, NEW c \in Configs, NEW o, NEW d, NEW linear \in BOOLEAN,
           IF linear THEN ~DeltaNetRaises(c) ELSE ~AttentionRaises(c),
           Before(R, c, d, o, linear, ShiftedNames), <<<<o, "rank_util">>, 0>> \in R,
           NEW m, m = IF linear THEN ConvertDeltaNet(d, o, c) ELSE ConvertAttention(d, o, c)
    PROVE  /\ After(R, c, ConvertMoe(m, o, c), o, linear)
           /\ Same(d, ConvertMoe(m, o, c), Owned(o, LayerNames))
<1> DEFINE e == ConvertMoe(m, o, c)
           P == ShiftedNames
           T == ContractionFirst(c)
           M == (IF linear THEN DeltaNetParams ELSE AttentionParams(c)) \cup LayerNorms
           L == IF linear THEN DeltaNetBefore ELSE AttentionBefore
<1>1. PICK Z : Z = {}
    OBVIOUS
<1>2. Part(R, d, o, LayerNames, LayerBefore(linear), P, Z) /\ Lens(c, d, o, linear)
    BY <1>1 DEF Before
<1>3. MixerNames \in SUBSET LayerNames /\ MlpNames \in SUBSET LayerNames
    BY DEF LayerNames
<1>4. Part(R, d, o, MixerNames, L, P, Z)
    <2>1. Part(R, d, o, MixerNames, LayerBefore(linear) \cap MixerNames, P, Z)
        <3> HIDE DEF P
        <3> QED BY ONLY <1>2, <1>3, SubPart DEF Part
    <2> QED BY <2>1, LayerSplit
<1>5. Part(R, d, o, MlpNames, DOMAIN MlpRows, P, Z)
    <2>1. Part(R, d, o, MlpNames, LayerBefore(linear) \cap MlpNames, P, Z)
        <3> HIDE DEF P
        <3> QED BY ONLY <1>2, <1>3, SubPart DEF Part
    <2> QED BY <2>1, LayerSplit
<1>6. Part(R, m, o, MixerNames, M, P, T) /\ Same(d, m, Owned(o, MixerNames))
    <2>1. CASE linear
        <3>1. ~DeltaNetRaises(c) /\ Part(R, d, o, MixerNames, DeltaNetBefore, ShiftedNames, {})
            BY <1>1, <1>4, <2>1
        <3>2. /\ Len(d[<<o, "in_proj_qkv">>].rows) = ConvDim(c)
              /\ Len(d[<<o, "conv1d">>].rows) = ConvDim(c)
            BY <1>2, <2>1 DEF Lens
        <3> QED BY <2>1, <3>1, <3>2, DeltaNetConverted
    <2>2. CASE ~linear
        <3>1. ~AttentionRaises(c) /\ Part(R, d, o, MixerNames, AttentionBefore, ShiftedNames, {})
            BY <1>1, <1>4, <2>2
        <3>2. /\ Len(d[<<o, "q_proj">>].rows) = 2 * c.nq * c.hd
              /\ Len(d[<<o, "k_proj">>].rows) = c.nkv * c.hd
              /\ Len(d[<<o, "v_proj">>].rows) = c.nkv * c.hd
              /\ Len(d[<<o, "o_proj">>].rows) = c.nq * c.hd
            BY <1>2, <2>2 DEF Lens
        <3> QED BY <2>2, <3>1, <3>2, AttentionConverted
    <2> QED BY <2>1, <2>2
<1>7. Part(R, m, o, MlpNames, DOMAIN MlpRows, P, Z)
    <2>1. \A n \in MlpNames : <<o, n>> \notin Owned(o, MixerNames)
        BY LayerSplit DEF Owned
    <2> HIDE DEF P
    <2> QED BY ONLY <1>5, <1>6, <2>1, SamePart
<1>8. Part(R, e, o, MlpNames, MlpParams(c), P, T) /\ Same(m, e, Owned(o, MlpNames))
    BY <1>1, <1>7, MoeConverted
<1> HIDE DEF e
<1>9. Part(R, e, o, MixerNames, M, P, T)
    <2>1. \A n \in MixerNames : <<o, n>> \notin Owned(o, MlpNames)
        BY LayerSplit DEF Owned
    <2> HIDE DEF P, T, M
    <2> QED BY ONLY <1>6, <1>8, <2>1, SamePart
<1>10. Part(R, e, o, LayerNames, LayerParams(c, linear), P, T)
    <2>1. LayerParams(c, linear) = M \cup MlpParams(c) /\ MixerNames \cap MlpNames = {}
        BY LayerSplit
    <2> HIDE DEF P, T, M
    <2>2. Part(R, e, o, MixerNames \cup MlpNames, M \cup MlpParams(c), P, T)
        BY <1>8, <1>9, <2>1, JoinParts
    <2> QED BY <2>1, <2>2 DEF LayerNames
<1>11. Same(d, e, Owned(o, LayerNames))
    <2>1. Owned(o, MixerNames) \subseteq Owned(o, LayerNames)
            /\ Owned(o, MlpNames) \subseteq Owned(o, LayerNames)
        BY DEF Owned, LayerNames
    <2>2. Same(d, m, Owned(o, LayerNames)) /\ Same(m, e, Owned(o, LayerNames))
        BY <1>6, <1>8, <2>1, SameWeaker
    <2> QED BY <2>2, SameTwice
<1> QED BY <1>10, <1>11 DEF After, e

(***************************************************************************)
(* The checkpoint: its keys, its rows, and how many a layer's inputs have.   *)
(***************************************************************************)
\* The rows there are: the checkpoint's, and every rank_util's own.
Row(c) ==
    {<<<<o, "rank_util">>, 0>> : o \in {Top, MtpHeadLayer} \cup {Layer(l) : l \in Layers(c)}}
    \cup UNION {{<<k, i - 1>> : i \in 1 .. OwnerRows(c)[k[1]][k[2]]} : k \in DOMAIN Checkpoint(c)}

\* The owners are different tuples.
LEMMA OwnersDiffer ==
    /\ Top # Visual /\ Top # Mtp /\ Top # MtpLayer /\ Top # MtpHead /\ Top # MtpHeadLayer
    /\ Visual # Mtp /\ Visual # MtpLayer /\ Visual # MtpHead /\ Visual # MtpHeadLayer
    /\ Mtp # MtpLayer /\ Mtp # MtpHead /\ Mtp # MtpHeadLayer
    /\ MtpLayer # MtpHead /\ MtpLayer # MtpHeadLayer /\ MtpHead # MtpHeadLayer
    /\ \A l \in Nat : /\ Layer(l) # Top /\ Layer(l) # Visual /\ Layer(l) # Mtp
                      /\ Layer(l) # MtpLayer /\ Layer(l) # MtpHead /\ Layer(l) # MtpHeadLayer
                      /\ Layer(l)[2] = l
                      /\ \A m \in Nat : Layer(l) = Layer(m) => l = m
BY DEF Top, Visual, Mtp, MtpLayer, MtpHead, MtpHeadLayer, Layer

\* The layers are naturals, linear or not.
LEMMA LayersAreNat ==
    ASSUME NEW c \in Configs
    PROVE  Layers(c) \subseteq Nat /\ \A l \in Layers(c) : Linear(c, l) \in BOOLEAN
BY ConfigFields DEF Layers, Linear

\* Two functions, the one behind the other.
LEMMA OverKeys ==
    ASSUME NEW f, NEW g
    PROVE  /\ DOMAIN Over(f, g) = DOMAIN f \cup DOMAIN g
           /\ \A x \in DOMAIN f : Over(f, g)[x] = f[x]
           /\ \A x \in DOMAIN g \ DOMAIN f : Over(f, g)[x] = g[x]
BY DEF Over

\* Products of two and of three factors are positive.
LEMMA Positive ==
    ASSUME NEW c \in Configs
    PROVE  /\ 2 * c.nq * c.hd \in Nat \ {0} /\ c.nkv * c.hd \in Nat \ {0}
                /\ c.nq * c.hd \in Nat \ {0}
<1>1. c.nq \in Nat \ {0} /\ c.nkv \in Nat \ {0} /\ c.hd \in Nat \ {0}
    BY ConfigFields
<1>2. c.nkv * c.hd \in Nat \ {0} /\ c.nq * c.hd \in Nat \ {0}
    BY <1>1, ProductBounds
<1>3. 2 * c.nq \in Nat \ {0}
    BY <1>1
<1>4. (2 * c.nq) * c.hd \in Nat \ {0}
    BY <1>1, <1>3, ProductBounds
<1> QED BY <1>2, <1>4

\* The rows of a layer of the checkpoint.
LEMMA LayerHasRows ==
    ASSUME NEW c \in Configs, NEW linear \in BOOLEAN
    PROVE  /\ DOMAIN LayerRows(c, linear) = LayerBefore(linear)
           /\ \A n \in LayerBefore(linear) : LayerRows(c, linear)[n] \in Nat \ {0}
           /\ linear => /\ LayerRows(c, linear)["in_proj_qkv"] = ConvDim(c)
                        /\ LayerRows(c, linear)["conv1d"] = ConvDim(c)
           /\ ~linear => /\ LayerRows(c, linear)["q_proj"] = 2 * c.nq * c.hd
                         /\ LayerRows(c, linear)["k_proj"] = c.nkv * c.hd
                         /\ LayerRows(c, linear)["v_proj"] = c.nkv * c.hd
                         /\ LayerRows(c, linear)["o_proj"] = c.nq * c.hd
<1> DEFINE f == IF linear THEN LinearRows(c) ELSE FullRows(c)
           g == Over(NormRows, MlpRows)
<1>1. /\ DOMAIN LinearRows(c) = {"in_proj_qkv", "in_proj_z", "in_proj_a", "in_proj_b", "conv1d",
                                 "A_log", "dt_bias", "gated_norm", "out_proj"}
      /\ DOMAIN FullRows(c) = {"q_proj", "k_proj", "v_proj", "o_proj", "q_norm", "k_norm"}
      /\ DOMAIN NormRows = LayerNorms
    BY DEF LinearRows, FullRows, NormRows, LayerNorms
<1>2. \A n \in DOMAIN LinearRows(c) : LinearRows(c)[n] \in Nat \ {0}
    <2>1. /\ ConvDim(c) \in Nat \ {0} /\ ValueDim(c) \in Nat \ {0} /\ c.nv \in Nat \ {0}
        BY ConfigFields, Dims
    <2> QED BY <1>1, <2>1 DEF LinearRows
<1>3. \A n \in DOMAIN FullRows(c) : FullRows(c)[n] \in Nat \ {0}
    <2>1. PICK x, y, z : x = 2 * c.nq * c.hd /\ y = c.nkv * c.hd /\ z = c.nq * c.hd
        OBVIOUS
    <2>2. x \in Nat \ {0} /\ y \in Nat \ {0} /\ z \in Nat \ {0}
        BY <2>1, Positive
    <2>3. FullRows(c) = [q_proj |-> x, k_proj |-> y, v_proj |-> y, o_proj |-> z,
                         q_norm |-> 1, k_norm |-> 1]
        BY <2>1, Zenon DEF FullRows
    <2> QED BY <1>1, <2>2, <2>3
<1>4. /\ DOMAIN g = LayerNorms \cup DOMAIN MlpRows
      /\ \A n \in DOMAIN g : g[n] \in Nat \ {0}
    <2>1. \A n \in DOMAIN NormRows : NormRows[n] \in Nat \ {0}
        BY DEF NormRows
    <2>2. \A n \in DOMAIN MlpRows : MlpRows[n] \in Nat \ {0}
        BY DEF MlpRows
    <2>3. /\ DOMAIN g = DOMAIN NormRows \cup DOMAIN MlpRows
          /\ \A x \in DOMAIN NormRows : g[x] = NormRows[x]
          /\ \A x \in DOMAIN MlpRows \ DOMAIN NormRows : g[x] = MlpRows[x]
        BY OverKeys
    <2> HIDE DEF g
    <2> QED BY <1>1, <2>1, <2>2, <2>3
<1>5. LayerRows(c, linear) = Over(f, g)
    BY Zenon DEF LayerRows
<1>6. DOMAIN f = (IF linear THEN DeltaNetBefore ELSE AttentionBefore) \ LayerNorms
    BY <1>1 DEF DeltaNetBefore, AttentionBefore, LayerNorms
<1>7. \A n \in DOMAIN f : f[n] \in Nat \ {0}
    BY <1>2, <1>3
<1>8. DOMAIN Over(f, g) = LayerBefore(linear)
    <2>1. LayerNorms \subseteq DeltaNetBefore /\ LayerNorms \subseteq AttentionBefore
        BY DEF DeltaNetBefore, AttentionBefore
    <2>2. DOMAIN Over(f, g) = DOMAIN f \cup DOMAIN g
        BY OverKeys
    <2> HIDE DEF f, g
    <2> QED BY <1>4, <1>6, <2>1, <2>2 DEF LayerBefore
<1>9. \A n \in LayerBefore(linear) : Over(f, g)[n] \in Nat \ {0}
    <2> HIDE DEF f, g
    <2>1. /\ DOMAIN Over(f, g) = DOMAIN f \cup DOMAIN g
          /\ \A x \in DOMAIN f : Over(f, g)[x] = f[x]
          /\ \A x \in DOMAIN g \ DOMAIN f : Over(f, g)[x] = g[x]
        BY OverKeys
    <2> QED BY <1>4, <1>7, <1>8, <2>1
<1>10. \A n \in DOMAIN f : Over(f, g)[n] = f[n]
    <2> HIDE DEF f, g
    <2> QED BY OverKeys
<1>11. linear => LinearRows(c)["in_proj_qkv"] = ConvDim(c) /\ LinearRows(c)["conv1d"] = ConvDim(c)
    BY DEF LinearRows
<1>12. /\ FullRows(c)["q_proj"] = 2 * c.nq * c.hd /\ FullRows(c)["k_proj"] = c.nkv * c.hd
       /\ FullRows(c)["v_proj"] = c.nkv * c.hd /\ FullRows(c)["o_proj"] = c.nq * c.hd
    BY DEF FullRows
<1> QED BY <1>1, <1>5, <1>8, <1>9, <1>10, <1>11, <1>12

\* The rows of every owner.
LEMMA OwnersHaveRows ==
    ASSUME NEW c \in Configs
    PROVE  /\ DOMAIN OwnerRows(c) = {Top, Visual, Mtp, MtpLayer} \cup {Layer(l) : l \in Layers(c)}
           /\ OwnerRows(c)[Top] = [embed_tokens |-> 2, lm_head |-> 2, norm |-> 1]
           /\ OwnerRows(c)[Visual] = [blocks |-> 2]
           /\ OwnerRows(c)[Mtp] = [fc |-> 2, pre_fc_norm_embedding |-> 1, pre_fc_norm_hidden |-> 1,
                                   norm |-> 1]
           /\ OwnerRows(c)[MtpLayer] = LayerRows(c, FALSE)
           /\ \A l \in Layers(c) : OwnerRows(c)[Layer(l)] = LayerRows(c, Linear(c, l))
<1> DEFINE O == {Top, Visual, Mtp, MtpLayer} \cup {Layer(l) : l \in Layers(c)}
           Of(o) == CASE o = Top -> [embed_tokens |-> 2, lm_head |-> 2, norm |-> 1]
                      [] o = Visual -> [blocks |-> 2]
                      [] o = Mtp -> [fc |-> 2, pre_fc_norm_embedding |-> 1,
                                     pre_fc_norm_hidden |-> 1, norm |-> 1]
                      [] o = MtpLayer -> LayerRows(c, FALSE)
                      [] OTHER -> LayerRows(c, Linear(c, o[2]))
<1>1. OwnerRows(c) = [o \in O |-> Of(o)]
    BY Zenon DEF OwnerRows
<1>2. Of(Top) = [embed_tokens |-> 2, lm_head |-> 2, norm |-> 1]
    BY OwnersDiffer
<1>3. Of(Visual) = [blocks |-> 2]
    BY OwnersDiffer
<1>4. Of(Mtp) = [fc |-> 2, pre_fc_norm_embedding |-> 1, pre_fc_norm_hidden |-> 1, norm |-> 1]
    BY OwnersDiffer
<1>5. Of(MtpLayer) = LayerRows(c, FALSE)
    BY OwnersDiffer
<1>6. \A l \in Layers(c) : Of(Layer(l)) = LayerRows(c, Linear(c, l))
    <2> TAKE l \in Layers(c)
    <2>1. /\ Layer(l) # Top /\ Layer(l) # Visual /\ Layer(l) # Mtp /\ Layer(l) # MtpLayer
          /\ Layer(l)[2] = l
        BY OwnersDiffer, LayersAreNat
    <2> QED BY <2>1
<1> HIDE DEF Of
<1>7. DOMAIN OwnerRows(c) = O
    BY <1>1
<1>8. \A o \in O : OwnerRows(c)[o] = Of(o)
    BY <1>1
<1> QED BY <1>2, <1>3, <1>4, <1>5, <1>6, <1>7, <1>8

\* The number of rows of a key of the checkpoint is positive.
LEMMA RowsArePositive ==
    ASSUME NEW c \in Configs, NEW o \in DOMAIN OwnerRows(c), NEW n \in DOMAIN OwnerRows(c)[o]
    PROVE  OwnerRows(c)[o][n] \in Nat \ {0}
<1>1. CASE o = Top
    <2>1. OwnerRows(c)[o] = [embed_tokens |-> 2, lm_head |-> 2, norm |-> 1]
        BY <1>1, OwnersHaveRows
    <2> QED BY <2>1
<1>2. CASE o = Visual
    <2>1. OwnerRows(c)[o] = [blocks |-> 2]
        BY <1>2, OwnersHaveRows
    <2> QED BY <2>1
<1>3. CASE o = Mtp
    <2>1. OwnerRows(c)[o] = [fc |-> 2, pre_fc_norm_embedding |-> 1, pre_fc_norm_hidden |-> 1,
                             norm |-> 1]
        BY <1>3, OwnersHaveRows
    <2> QED BY <2>1
<1>4. CASE o = MtpLayer
    <2>1. OwnerRows(c)[o] = LayerRows(c, FALSE)
        BY <1>4, OwnersHaveRows
    <2>2. FALSE \in BOOLEAN
        OBVIOUS
    <2> QED BY <2>1, <2>2, LayerHasRows
<1>5. CASE \E l \in Layers(c) : o = Layer(l)
    <2>1. PICK l \in Layers(c) : o = Layer(l)
        BY <1>5
    <2>2. OwnerRows(c)[o] = LayerRows(c, Linear(c, l)) /\ Linear(c, l) \in BOOLEAN
        BY <2>1, OwnersHaveRows, LayersAreNat
    <2> QED BY <2>2, LayerHasRows
<1> QED BY <1>1, <1>2, <1>3, <1>4, <1>5, OwnersHaveRows

\* The keys of the checkpoint, and the rows of a key.
LEMMA CheckpointKeys ==
    ASSUME NEW c \in Configs
    PROVE  /\ \A o, n : <<o, n>> \in DOMAIN Checkpoint(c)
                          <=> o \in DOMAIN OwnerRows(c) /\ n \in DOMAIN OwnerRows(c)[o]
           /\ \A k \in DOMAIN Checkpoint(c) : k = <<k[1], k[2]>>
           /\ \A k \in DOMAIN Checkpoint(c) :
                Checkpoint(c)[k] = Tensor(k, [i \in 1 .. OwnerRows(c)[k[1]][k[2]] |-> <<k, i - 1>>])
<1> DEFINE rows == OwnerRows(c)
           keys == UNION {{<<o, n>> : n \in DOMAIN rows[o]} : o \in DOMAIN rows}
<1>1. Checkpoint(c) = [k \in keys |-> Tensor(k, [i \in 1 .. rows[k[1]][k[2]] |-> <<k, i - 1>>])]
    BY Zenon DEF Checkpoint
<1>2. \A k : k \in keys <=> \E o \in DOMAIN rows : \E n \in DOMAIN rows[o] : k = <<o, n>>
    OBVIOUS
<1>3. \A k \in keys : k = <<k[1], k[2]>>
    BY <1>2
<1>4. \A o, n : <<o, n>> \in keys <=> o \in DOMAIN rows /\ n \in DOMAIN rows[o]
    BY <1>2
<1> HIDE DEF keys
<1>5. /\ DOMAIN Checkpoint(c) = keys
      /\ \A k \in keys : Checkpoint(c)[k]
           = Tensor(k, [i \in 1 .. rows[k[1]][k[2]] |-> <<k, i - 1>>])
    BY <1>1, Zenon
<1> QED BY <1>3, <1>4, <1>5, Zenon

\* Its tensors.
LEMMA CheckpointTensors ==
    ASSUME NEW c \in Configs, NEW o, NEW n, <<o, n>> \in DOMAIN Checkpoint(c), NEW P, NEW T,
           n \notin P, n \notin T
    PROVE  /\ IsTensor(Row(c), Checkpoint(c)[<<o, n>>], o, n, P, T)
           /\ Len(Checkpoint(c)[<<o, n>>].rows) = OwnerRows(c)[o][n]
<1> DEFINE m == OwnerRows(c)[o][n]
           s == [i \in 1 .. m |-> <<<<o, n>>, i - 1>>]
<1>1. PICK k : k = <<o, n>>
    OBVIOUS
<1>2. k \in DOMAIN Checkpoint(c) /\ k[1] = o /\ k[2] = n
    BY <1>1
<1>3. Checkpoint(c)[<<o, n>>] = Tensor(<<o, n>>, s)
    BY <1>1, <1>2, CheckpointKeys, Zenon
<1>4. m \in Nat \ {0}
    BY CheckpointKeys, RowsArePositive
<1>5. \A i \in 1 .. m : <<k, i - 1>> \in Row(c)
    <2> TAKE i \in 1 .. m
    <2>1. OwnerRows(c)[k[1]][k[2]] = m
        BY <1>2
    <2> HIDE DEF m
    <2>2. <<k, i - 1>> \in {<<k, j - 1>> : j \in 1 .. m}
        OBVIOUS
    <2>3. <<k, i - 1>> \in {<<k, j - 1>> : j \in 1 .. OwnerRows(c)[k[1]][k[2]]}
        BY <2>1, <2>2, Zenon
    <2> QED BY <1>2, <2>3, Zenon DEF Row
<1> HIDE DEF m
<1>6. s \in Seq(Row(c)) /\ Len(s) = m
    BY <1>1, <1>4, <1>5
<1>7. Len(s) >= 1
    BY <1>4, <1>6
<1> HIDE DEF s
<1>8. IsTensor(Row(c), Tensor(<<o, n>>, s), o, n, P, T)
    BY <1>6, <1>7, NewTensor
<1>9. Tensor(<<o, n>>, s).rows = s
    BY DEF Tensor
<1> QED BY <1>3, <1>6, <1>8, <1>9 DEF m

\* What a row is.
LEMMA RowsAreRows ==
    ASSUME NEW c \in Configs, NEW row \in Row(c)
    PROVE  row[1][2] = "rank_util" \/ row[2] < OwnerRows(c)[row[1][1]][row[1][2]]
<1> DEFINE ranks == {<<<<o, "rank_util">>, 0>> : o \in {Top, MtpHeadLayer}
                                                      \cup {Layer(l) : l \in Layers(c)}}
           read == UNION {{<<k, i - 1>> : i \in 1 .. OwnerRows(c)[k[1]][k[2]]} :
                            k \in DOMAIN Checkpoint(c)}
<1>0. Row(c) = ranks \cup read
    BY Zenon DEF Row
<1>1. CASE row \in ranks
    BY <1>1
<1>2. CASE row \in read
    <2>1. PICK k \in DOMAIN Checkpoint(c) :
            row \in {<<k, i - 1>> : i \in 1 .. OwnerRows(c)[k[1]][k[2]]}
        BY <1>2
    <2>2. PICK i \in 1 .. OwnerRows(c)[k[1]][k[2]] : row = <<k, i - 1>>
        BY <2>1, Zenon
    <2>3. k = <<k[1], k[2]>>
        BY CheckpointKeys, Zenon
    <2>4. k[1] \in DOMAIN OwnerRows(c) /\ k[2] \in DOMAIN OwnerRows(c)[k[1]]
        <3>1. PICK o, n : o = k[1] /\ n = k[2]
            OBVIOUS
        <3>2. <<o, n>> \in DOMAIN Checkpoint(c)
            BY <2>3, <3>1, Zenon
        <3>3. o \in DOMAIN OwnerRows(c) /\ n \in DOMAIN OwnerRows(c)[o]
            BY <3>2, CheckpointKeys, Zenon
        <3> QED BY <3>1, <3>3, Zenon
    <2>5. OwnerRows(c)[k[1]][k[2]] \in Nat \ {0}
        BY <2>4, RowsArePositive
    <2>6. PICK x : x = OwnerRows(c)[k[1]][k[2]]
        OBVIOUS
    <2>7. x \in Nat /\ i \in 1 .. x
        BY <2>5, <2>6
    <2>8. i - 1 < x
        BY ONLY <2>7
    <2>9. row[1] = k /\ row[2] = i - 1
        BY <2>2
    <2>10. row[2] < x /\ OwnerRows(c)[row[1][1]][row[1][2]] = x
        BY <2>6, <2>8, <2>9
    <2> QED BY <2>10
<1> HIDE DEF ranks, read
<1>3. row \in ranks \/ row \in read
    BY <1>0
<1> QED BY <1>1, <1>2, <1>3

(***************************************************************************)
(* The dictionary between two parts of the conversion.                      *)
(***************************************************************************)
TopNames == {"embed_tokens", "lm_head", "norm", "rank_util"}
TopBefore == {"embed_tokens", "lm_head", "norm"}
MtpNames == {"fc", "pre_fc_norm_embedding", "pre_fc_norm_hidden", "norm"}
HeadBefore == {"embed_norm", "hidden_norm", "eh_proj", "final_norm"}
HeadNames == HeadBefore \cup {"mtp_lm_head"}

\* The keys of the backbone, of the MTP part, and of the draft's head.
BackboneKeys(c) == Owned(Top, TopNames) \cup (UNION {Owned(Layer(l), LayerNames) : l \in Layers(c)})
MtpKeys == Owned(Mtp, MtpNames) \cup Owned(MtpLayer, LayerNames)
HeadKeys == Owned(MtpHead, HeadNames) \cup Owned(MtpHeadLayer, LayerNames)

\* The backbone's norms are shifted and its first l - 1 layers converted; of
\* its own tensors those of T are transposed.
Backbone(c, d, l, T) ==
    /\ Part(Row(c), d, Top, TopNames, TopNames, ShiftedNames, T)
    /\ \A m \in Layers(c) :
        /\ m < l => After(Row(c), c, d, Layer(m), Linear(c, m))
        /\ m >= l => Before(Row(c), c, d, Layer(m), Linear(c, m), ShiftedNames)

\* The MTP part is as the checkpoint has it.
MtpBefore(c, d) ==
    /\ Part(Row(c), d, Mtp, MtpNames, MtpNames, {}, {})
    /\ Before(Row(c), c, d, MtpLayer, FALSE, {})

\* The draft's head is converted.
MtpAfter(c, d) ==
    /\ Part(Row(c), d, MtpHead, HeadNames, HeadNames, ShiftedNames, ContractionFirst(c))
    /\ After(Row(c), c, d, MtpHeadLayer, FALSE)

\* A tensor of some marks; every tensor is one.
TypedAt(c, d, k) == \E o, n, P, T : k = <<o, n>> /\ IsTensor(Row(c), d[k], o, n, P, T)

Typed(c, d) == \A k \in DOMAIN d : TypedAt(c, d, k)

\* The keys of an owner.
LEMMA OwnedKeys ==
    ASSUME NEW o, NEW U
    PROVE  /\ \A k \in Owned(o, U) : k[1] = o /\ k[2] \in U /\ k = <<o, k[2]>>
           /\ \A p, n : <<p, n>> \in Owned(o, U) <=> p = o /\ n \in U
BY DEF Owned

\* What leaves the keys of an owner alone.
LEMMA OtherPart ==
    ASSUME NEW R, NEW d, NEW e, NEW o, NEW U, NEW N, NEW P, NEW T, Part(R, d, o, U, N, P, T),
           NEW K, Same(d, e, K), \A k \in K : k[1] # o
    PROVE  Part(R, e, o, U, N, P, T)
<1>1. \A n \in U : <<o, n>> \notin K
    <2> TAKE n \in U
    <2>1. PICK k : k = <<o, n>>
        OBVIOUS
    <2>2. k[1] = o
        BY <2>1
    <2> QED BY <2>1, <2>2, Zenon
<1> QED BY <1>1, SamePart, Zenon

\* The tensors of o in d have the rows of those of q in e.
SameRows(d, o, e, q, names) == \A n \in names : e[<<q, n>>].rows = d[<<o, n>>].rows

\* The rows that are cut are as many.
LEMMA LensSame ==
    ASSUME NEW c, NEW d, NEW e, NEW o, NEW q, NEW linear \in BOOLEAN, Lens(c, d, o, linear),
           SameRows(d, o, e, q, LayerBefore(linear) \ ShiftedNames)
    PROVE  Lens(c, e, q, linear)
<1>0. \A n \in {"in_proj_qkv", "conv1d", "q_proj", "k_proj", "v_proj",
        "o_proj"} : n \notin ShiftedNames
    BY DEF ShiftedNames, ScaledNorms
<1>1. CASE linear
    <2>1. "in_proj_qkv" \in LayerBefore(linear) /\ "conv1d" \in LayerBefore(linear)
        BY <1>1 DEF LayerBefore, DeltaNetBefore
    <2> QED BY <1>0, <1>1, <2>1, Zenon DEF Lens, SameRows
<1>2. CASE ~linear
    <2>1. \A n \in {"q_proj", "k_proj", "v_proj", "o_proj"} : n \in LayerBefore(linear)
        BY <1>2 DEF LayerBefore, AttentionBefore
    <2>2. \A n \in {"q_proj", "k_proj", "v_proj", "o_proj"} : e[<<q, n>>].rows = d[<<o, n>>].rows
        BY <1>0, <2>1 DEF SameRows
    <2> QED BY <1>2, <2>2 DEF Lens
<1> QED BY <1>1, <1>2

\* A layer of the checkpoint, where its keys are left alone, ...
LEMMA OtherBefore ==
    ASSUME NEW R, NEW c, NEW d, NEW e, NEW o, NEW linear \in BOOLEAN, NEW P,
           Before(R, c, d, o, linear, P), NEW K, Same(d, e, K), \A k \in K : k[1] # o
    PROVE  Before(R, c, e, o, linear, P)
<1>1. PICK Z : Z = {}
    OBVIOUS
<1>2. Part(R, d, o, LayerNames, LayerBefore(linear), P, Z) /\ Lens(c, d, o, linear)
    BY <1>1 DEF Before
<1>3. Part(R, e, o, LayerNames, LayerBefore(linear), P, Z)
    BY ONLY <1>2, Same(d, e, K), \A k \in K : k[1] # o, OtherPart
<1>4. \A n \in LayerBefore(linear) : e[<<o, n>>] = d[<<o, n>>]
    <2> TAKE n \in LayerBefore(linear)
    <2>1. PICK k : k = <<o, n>>
        OBVIOUS
    <2>2. k[1] = o
        BY <2>1
    <2>3. k \in DOMAIN d
        <3>1. n \in LayerNames
            BY <1>2, Zenon DEF Part
        <3> QED BY <1>2, <2>1, <3>1, Zenon DEF Part
    <2> QED BY <2>1, <2>2, <2>3, Zenon DEF Same
<1>5. Lens(c, e, o, linear)
    <2>1. SameRows(d, o, e, o, LayerBefore(linear) \ ShiftedNames)
        BY <1>4, Zenon DEF SameRows
    <2> QED BY ONLY <1>2, <2>1, linear \in BOOLEAN, LensSame
<1> QED BY <1>1, <1>3, <1>5 DEF Before

\* ... and a converted one.
LEMMA OtherAfter ==
    ASSUME NEW R, NEW c, NEW d, NEW e, NEW o, NEW linear, After(R, c, d, o, linear),
           NEW K, Same(d, e, K), \A k \in K : k[1] # o
    PROVE  After(R, c, e, o, linear)
BY OtherPart DEF After

\* No key of e outside S, when d and e differ within S.
LEMMA WithinSame ==
    ASSUME NEW d, NEW e, NEW K, NEW S, Same(d, e, K), DOMAIN d \subseteq S, K \subseteq S
    PROVE  DOMAIN e \subseteq S
BY Zenon DEF Same

\* The tensors of a part.
LEMMA PartTyped ==
    ASSUME NEW c, NEW d, NEW o, NEW U, NEW N, NEW P, NEW T, Part(Row(c), d, o, U, N, P, T),
           NEW k \in DOMAIN d, k \in Owned(o, U)
    PROVE  /\ TypedAt(c, d, k)
           /\ k[2] \in N /\ IsTensor(Row(c), d[k], o, k[2], P, T) /\ k = <<o, k[2]>>
<1>1. PICK n \in U : k = <<o, n>>
    BY DEF Owned
<1>2. n \in N /\ k[2] = n
    BY <1>1 DEF Part
<1>3. IsTensor(Row(c), d[k], o, n, P, T)
    BY <1>1, <1>2, Zenon DEF Part
<1>4. TypedAt(c, d, k)
    BY <1>1, <1>3, Zenon DEF TypedAt
<1> QED BY <1>1, <1>2, <1>3, <1>4, Zenon

\* The checkpoint without the vision encoder.
Stripped(c) == Drop(Checkpoint(c), {k \in DOMAIN Checkpoint(c) : k[1] = Visual})

\* An owner's tensors, after the strip.
LEMMA StrippedPart ==
    ASSUME NEW c \in Configs, NEW o \in DOMAIN OwnerRows(c), o # Visual, NEW U,
           DOMAIN OwnerRows(c)[o] \subseteq U, NEW Z, Z = {}
    PROVE  /\ Part(Row(c), Stripped(c), o, U, DOMAIN OwnerRows(c)[o], Z, Z)
           /\ \A n \in DOMAIN OwnerRows(c)[o] :
                Len(Stripped(c)[<<o, n>>].rows) = OwnerRows(c)[o][n]
<1> DEFINE N == DOMAIN OwnerRows(c)[o]
           K == {k \in DOMAIN Checkpoint(c) : k[1] = Visual}
<1>1. \A n : <<o, n>> \notin K
    <2> TAKE n
    <2>1. PICK k : k = <<o, n>>
        OBVIOUS
    <2>2. k[1] = o
        BY <2>1
    <2> QED BY <2>1, <2>2, Zenon
<1>2. /\ DOMAIN Stripped(c) = DOMAIN Checkpoint(c) \ K
      /\ \A k \in DOMAIN Checkpoint(c) \ K : Stripped(c)[k] = Checkpoint(c)[k]
    BY DropKeys, Zenon DEF Stripped
<1>3. \A n : <<o, n>> \in DOMAIN Checkpoint(c) <=> n \in N
    BY CheckpointKeys, Zenon
<1> HIDE DEF K, N
<1>4. \A n : <<o, n>> \in DOMAIN Stripped(c) <=> n \in N
    BY <1>1, <1>2, <1>3
<1>5. ASSUME NEW n \in N
      PROVE  /\ IsTensor(Row(c), Stripped(c)[<<o, n>>], o, n, Z, Z)
             /\ Len(Stripped(c)[<<o, n>>].rows) = OwnerRows(c)[o][n]
    <2>1. <<o, n>> \in DOMAIN Checkpoint(c) /\ n \notin Z
        BY <1>3
    <2>2. Stripped(c)[<<o, n>>] = Checkpoint(c)[<<o, n>>]
        BY <1>1, <1>2, <2>1
    <2>3. /\ IsTensor(Row(c), Checkpoint(c)[<<o, n>>], o, n, Z, Z)
          /\ Len(Checkpoint(c)[<<o, n>>].rows) = OwnerRows(c)[o][n]
        BY <2>1, CheckpointTensors
    <2> QED BY <2>2, <2>3
<1>6. N \subseteq U
    BY DEF N
<1> QED BY <1>4, <1>5, <1>6, Zenon DEF Part, N

\* A layer of the checkpoint.
LEMMA StrippedLayer ==
    ASSUME NEW c \in Configs, NEW o \in DOMAIN OwnerRows(c), o # Visual, NEW linear \in BOOLEAN,
           OwnerRows(c)[o] = LayerRows(c, linear)
    PROVE  Before(Row(c), c, Stripped(c), o, linear, {})
<1>1. PICK Z : Z = {}
    OBVIOUS
<1>2. /\ DOMAIN OwnerRows(c)[o] = LayerBefore(linear) /\ LayerBefore(linear) \subseteq LayerNames
    BY LayerHasRows, LayerSplit
<1>3. /\ Part(Row(c), Stripped(c), o, LayerNames, LayerBefore(linear), Z, Z)
      /\ \A n \in LayerBefore(linear) : Len(Stripped(c)[<<o, n>>].rows) = LayerRows(c, linear)[n]
    BY <1>1, <1>2, StrippedPart
<1>4. Lens(c, Stripped(c), o, linear)
    <2>1. CASE linear
        <3>1. "in_proj_qkv" \in LayerBefore(linear) /\ "conv1d" \in LayerBefore(linear)
            BY <2>1 DEF LayerBefore, DeltaNetBefore
        <3> QED BY <1>3, <2>1, <3>1, LayerHasRows DEF Lens
    <2>2. CASE ~linear
        <3>1. \A n \in {"q_proj", "k_proj", "v_proj", "o_proj"} : n \in LayerBefore(linear)
            BY <2>2 DEF LayerBefore, AttentionBefore
        <3> QED BY <1>3, <2>2, <3>1, LayerHasRows DEF Lens
    <2> QED BY <2>1, <2>2
<1> QED BY <1>1, <1>3, <1>4 DEF Before

\* The parts of the dictionary, after the strip.
LEMMA StrippedParts ==
    ASSUME NEW c \in Configs, NEW Z, Z = {}
    PROVE  /\ Part(Row(c), Stripped(c), Top, TopNames, TopBefore, Z, Z)
           /\ \A l \in Layers(c) : Before(Row(c), c, Stripped(c), Layer(l), Linear(c, l), Z)
           /\ MtpBefore(c, Stripped(c))
           /\ DOMAIN Stripped(c) \subseteq BackboneKeys(c) \cup MtpKeys
<1>1. /\ DOMAIN OwnerRows(c)[Top] = TopBefore /\ TopBefore \subseteq TopNames
      /\ DOMAIN OwnerRows(c)[Mtp] = MtpNames
    <2>1. OwnerRows(c)[Top] = [embed_tokens |-> 2, lm_head |-> 2, norm |-> 1]
        BY OwnersHaveRows
    <2>2. OwnerRows(c)[Mtp]
            = [fc |-> 2, pre_fc_norm_embedding |-> 1, pre_fc_norm_hidden |-> 1, norm |-> 1]
        BY OwnersHaveRows
    <2> QED BY <2>1, <2>2 DEF TopNames, TopBefore, MtpNames
<1>2. Part(Row(c), Stripped(c), Top, TopNames, TopBefore, Z, Z)
    <2>1. Top \in DOMAIN OwnerRows(c) /\ Top # Visual
        BY OwnersHaveRows, OwnersDiffer
    <2> QED BY <1>1, <2>1, StrippedPart
<1>3. ASSUME NEW l \in Layers(c)
      PROVE  Before(Row(c), c, Stripped(c), Layer(l), Linear(c, l), Z)
    <2>1. Layer(l) \in DOMAIN OwnerRows(c) /\ Layer(l) # Visual /\ Linear(c, l) \in BOOLEAN
        BY OwnersHaveRows, OwnersDiffer, LayersAreNat
    <2>2. OwnerRows(c)[Layer(l)] = LayerRows(c, Linear(c, l))
        BY OwnersHaveRows
    <2> QED BY <2>1, <2>2, StrippedLayer
<1>4. MtpBefore(c, Stripped(c))
    <2>1. Mtp \in DOMAIN OwnerRows(c) /\ Mtp # Visual /\ MtpLayer \in DOMAIN OwnerRows(c)
            /\ MtpLayer # Visual
        BY OwnersHaveRows, OwnersDiffer
    <2>2. OwnerRows(c)[MtpLayer] = LayerRows(c, FALSE) /\ FALSE \in BOOLEAN
        BY OwnersHaveRows
    <2>3. Before(Row(c), c, Stripped(c), MtpLayer, FALSE, {})
        BY <2>1, <2>2, StrippedLayer
    <2>4. Part(Row(c), Stripped(c), Mtp, MtpNames, MtpNames, Z, Z)
        BY <1>1, <2>1, StrippedPart
    <2> QED BY <2>3, <2>4 DEF MtpBefore
<1>5. ASSUME NEW k \in DOMAIN Stripped(c) PROVE k \in BackboneKeys(c) \cup MtpKeys
    <2>1. k \in DOMAIN Checkpoint(c) /\ k[1] # Visual
        <3> DEFINE K == {m \in DOMAIN Checkpoint(c) : m[1] = Visual}
        <3>1. DOMAIN Stripped(c) = DOMAIN Checkpoint(c) \ K
            BY DropKeys, Zenon DEF Stripped
        <3> QED BY <3>1
    <2>2. PICK o, n : o = k[1] /\ n = k[2]
        OBVIOUS
    <2>3. k = <<o, n>>
        <3>1. k = <<k[1], k[2]>>
            BY <2>1, CheckpointKeys, Zenon
        <3> QED BY <2>2, <3>1, Zenon
    <2>4. o \in DOMAIN OwnerRows(c) /\ n \in DOMAIN OwnerRows(c)[o] /\ o # Visual
        <3>1. <<o, n>> \in DOMAIN Checkpoint(c)
            BY <2>1, <2>3, Zenon
        <3> QED BY <2>1, <2>2, <3>1, CheckpointKeys, Zenon
    <2>5. CASE o = Top
        BY <1>1, <2>3, <2>4, <2>5 DEF BackboneKeys, Owned
    <2>6. CASE o = Mtp
        <3>1. k \in Owned(Mtp, MtpNames)
            BY <1>1, <2>3, <2>4, <2>6 DEF Owned
        <3> QED BY <3>1 DEF MtpKeys
    <2>7. CASE o = MtpLayer
        <3>1. DOMAIN OwnerRows(c)[o] = LayerBefore(FALSE) /\ LayerBefore(FALSE) \subseteq LayerNames
            BY <2>7, OwnersHaveRows, LayerHasRows, LayerSplit
        <3> QED BY <2>3, <2>4, <2>7, <3>1 DEF MtpKeys, Owned
    <2>8. CASE \E l \in Layers(c) : o = Layer(l)
        <3>1. PICK l \in Layers(c) : o = Layer(l)
            BY <2>8
        <3>2. Linear(c, l) \in BOOLEAN
            BY LayersAreNat
        <3>3. /\ DOMAIN OwnerRows(c)[o] = LayerBefore(Linear(c, l))
              /\ LayerBefore(Linear(c, l)) \subseteq LayerNames
            BY <3>1, <3>2, OwnersHaveRows, LayerHasRows, LayerSplit
        <3>4. k \in Owned(Layer(l), LayerNames)
            BY <2>3, <2>4, <3>1, <3>3 DEF Owned
        <3> QED BY <3>4, Zenon DEF BackboneKeys
    <2> QED BY <2>4, <2>5, <2>6, <2>7, <2>8, OwnersHaveRows
<1> QED BY <1>2, <1>3, <1>4, <1>5

\* The shift of the keys K, on the keys of an owner and on the others.
LEMMA ShiftPart ==
    ASSUME NEW R, NEW d, NEW o, NEW U, NEW N, NEW Z, NEW T, Part(R, d, o, U, N, Z, T),
           \A n \in N : n \notin Z,
           NEW K, NEW P, \A n \in N : n \in P <=> <<o, n>> \in K
    PROVE  /\ Part(R, Shifted(d, K), o, U, N, P, T)
           /\ SameRows(d, o, Shifted(d, K), o, N \ P)
<1> DEFINE e == Shifted(d, K)
<1>1. /\ DOMAIN e = DOMAIN d
      /\ \A k \in DOMAIN d : e[k] = IF k \in K THEN [d[k] EXCEPT !.plus = @ + 1, !.store = k]
           ELSE d[k]
    BY DEF Shifted
<1> HIDE DEF e
<1>2. ASSUME NEW n \in N
      PROVE  IsTensor(R, e[<<o, n>>], o, n, P, T) /\ (n \notin P => e[<<o, n>>] = d[<<o, n>>])
    <2>1. n \in U /\ <<o, n>> \in DOMAIN d /\ IsTensor(R, d[<<o, n>>], o, n, Z, T) /\ n \notin Z
        BY DEF Part
    <2>2. CASE n \in P
        <3>1. e[<<o, n>>] = [d[<<o, n>>] EXCEPT !.plus = @ + 1, !.store = <<o, n>>]
            BY <1>1, <2>1, <2>2
        <3>2. IsTensor(R, [d[<<o, n>>] EXCEPT !.plus = @ + 1, !.store = <<o, n>>], o, n, P, T)
            BY <2>1, <2>2, ShiftTensor, Zenon
        <3> QED BY <2>2, <3>1, <3>2, Zenon
    <2>3. CASE n \notin P
        <3>1. e[<<o, n>>] = d[<<o, n>>]
            BY <1>1, <2>1, <2>3
        <3>2. (n \in Z <=> n \in P) /\ (n \in T <=> n \in T)
            BY <2>1, <2>3
        <3>3. IsTensor(R, d[<<o, n>>], o, n, P, T)
            BY <2>1, <3>2, Remarked, Zenon
        <3> QED BY <3>1, <3>3, Zenon
    <2> QED BY <2>2, <2>3
<1>3. Part(R, e, o, U, N, P, T)
    BY <1>1, <1>2, Zenon DEF Part
<1>4. SameRows(d, o, e, o, N \ P)
    BY <1>2 DEF SameRows
<1> QED BY <1>3, <1>4 DEF e

\* A layer's norms shifted.
LEMMA ShiftLayer ==
    ASSUME NEW R, NEW c, NEW d, NEW o, NEW linear \in BOOLEAN, Before(R, c, d, o, linear, {}),
           NEW K, \A n \in LayerBefore(linear) : n \in ShiftedNames <=> <<o, n>> \in K
    PROVE  Before(R, c, Shifted(d, K), o, linear, ShiftedNames)
<1>1. PICK Z : Z = {}
    OBVIOUS
<1> DEFINE N == LayerBefore(linear)
           P == ShiftedNames
<1>2. Part(R, d, o, LayerNames, N, Z, Z) /\ Lens(c, d, o, linear)
    BY <1>1 DEF Before
<1>3. /\ \A n \in N : n \notin Z
      /\ \A n \in N : n \in P <=> <<o, n>> \in K
    BY <1>1
<1> HIDE DEF N, P
<1>4. /\ Part(R, Shifted(d, K), o, LayerNames, N, P, Z)
      /\ SameRows(d, o, Shifted(d, K), o, N \ P)
    BY ONLY <1>2, <1>3, ShiftPart
<1>5. Lens(c, Shifted(d, K), o, linear)
    BY <1>2, <1>4, LensSame DEF N, P
<1> QED BY <1>1, <1>4, <1>5 DEF Before, N, P

\* The shift is of the keys K alone.
LEMMA ShiftKeys ==
    ASSUME NEW d, NEW K
    PROVE  Same(d, Shifted(d, K), K)
BY Zenon DEF Same, Shifted

\* NormsOf names the norms of the backbone.
LEMMA NormKeys ==
    ASSUME NEW c \in Configs
    PROVE  /\ \A n \in TopBefore : n \in ShiftedNames <=> <<Top, n>> \in NormsOf(c)
           /\ \A l \in Layers(c) : \A n \in LayerBefore(Linear(c, l)) :
                n \in ShiftedNames <=> <<Layer(l), n>> \in NormsOf(c)
           /\ \A k \in NormsOf(c) : k[1] # Mtp /\ k[1] # MtpLayer
<1> DEFINE A == {<<Layer(l), n>> : l \in Layers(c),
             n \in {"input_layernorm", "post_attention_layernorm"}}
           B == {<<Layer(l), n>> : l \in {m \in Layers(c) : ~Linear(c, m)},
             n \in {"q_norm", "k_norm"}}
<1>1. NormsOf(c) = {<<Top, "norm">>} \cup A \cup B
    BY DEF NormsOf
<1>2. \A k \in NormsOf(c) : \/ k = <<Top, "norm">>
                            \/ \E l \in Layers(c) : k[1] = Layer(l)
    <2>1. \A k \in A : \E l \in Layers(c) : k[1] = Layer(l)
        OBVIOUS
    <2>2. \A k \in B : \E l \in Layers(c) : k[1] = Layer(l)
        OBVIOUS
    <2> HIDE DEF A, B
    <2> QED BY <1>1, <2>1, <2>2
<1>3. \A n : <<Top, n>> \in NormsOf(c) <=> n = "norm"
    <2> TAKE n
    <2>1. ASSUME <<Top, n>> \in NormsOf(c) PROVE n = "norm"
        <3>1. PICK k : k = <<Top, n>>
            OBVIOUS
        <3>2. k[1] = Top /\ k[2] = n
            BY <3>1
        <3>3. \A l \in Layers(c) : Layer(l) # Top
            BY OwnersDiffer, LayersAreNat
        <3>4. k = <<Top, "norm">>
            BY <1>2, <2>1, <3>1, <3>2, <3>3, Zenon
        <3> QED BY <3>2, <3>4
    <2> HIDE DEF A, B
    <2> QED BY <1>1, <2>1
<1>4. \A l \in Layers(c) : \A n :
        <<Layer(l), n>> \in NormsOf(c) <=> \/ n \in LayerNorms
                                           \/ ~Linear(c, l) /\ n \in {"q_norm", "k_norm"}
    <2> TAKE l \in Layers(c)
    <2> TAKE n
    <2>1. Layer(l) # Top /\ \A m \in Layers(c) : Layer(l) = Layer(m) => l = m
        BY OwnersDiffer, LayersAreNat
    <2>2. <<Layer(l), n>> \in A <=> n \in LayerNorms
        <3> HIDE DEF A
        <3>1. \A m \in Layers(c) : \A q \in LayerNorms : <<Layer(m), q>> \in A
            BY DEF A, LayerNorms
        <3>2. \A k \in A : \E m \in Layers(c) : \E q \in LayerNorms : k = <<Layer(m), q>>
            BY DEF A, LayerNorms
        <3>3. \A m, q : <<Layer(l), n>> = <<Layer(m), q>> => n = q
            OBVIOUS
        <3> QED BY <3>1, <3>2, <3>3, Zenon
    <2>3. <<Layer(l), n>> \in B <=> ~Linear(c, l) /\ n \in {"q_norm", "k_norm"}
        <3> HIDE DEF B
        <3> DEFINE Q == {"q_norm", "k_norm"}
        <3>1. \A m \in Layers(c) : ~Linear(c, m) => \A q \in Q : <<Layer(m), q>> \in B
            BY DEF B
        <3>2. \A k \in B : \E m \in Layers(c) : ~Linear(c, m) /\ \E q \in Q : k = <<Layer(m), q>>
            BY DEF B
        <3>3. \A m, q : <<Layer(l), n>> = <<Layer(m), q>> => Layer(l) = Layer(m) /\ n = q
            OBVIOUS
        <3> HIDE DEF Q
        <3>4. <<Layer(l), n>> \in B <=> ~Linear(c, l) /\ n \in Q
            BY <2>1, <3>1, <3>2, <3>3, Zenon
        <3> QED BY <3>4 DEF Q
    <2>4. <<Layer(l), n>> # <<Top, "norm">>
        BY <2>1
    <2> HIDE DEF A, B
    <2> QED BY <1>1, <2>2, <2>3, <2>4
<1> HIDE DEF A, B
<1>5. \A n \in TopBefore : n \in ShiftedNames <=> n = "norm"
    BY DEF TopBefore, ShiftedNames, ScaledNorms
<1>6. \A n \in DeltaNetBefore \cup DOMAIN MlpRows : n \in ShiftedNames <=> n \in LayerNorms
    BY DEF DeltaNetBefore, MlpRows, LayerNorms, ShiftedNames, ScaledNorms
<1>7. \A n \in AttentionBefore \cup DOMAIN MlpRows :
        n \in ShiftedNames <=> n \in LayerNorms \/ n \in {"q_norm", "k_norm"}
    BY DEF AttentionBefore, MlpRows, LayerNorms, ShiftedNames, ScaledNorms
<1>8. \A n \in DeltaNetBefore \cup DOMAIN MlpRows : n \notin {"q_norm", "k_norm"}
    BY DEF DeltaNetBefore, MlpRows, LayerNorms
<1>9. ASSUME NEW l \in Layers(c), NEW n \in LayerBefore(Linear(c, l))
      PROVE  n \in ShiftedNames <=> <<Layer(l), n>> \in NormsOf(c)
    <2>1. CASE Linear(c, l)
        BY <1>4, <1>6, <1>8, <2>1 DEF LayerBefore
    <2>2. CASE ~Linear(c, l)
        BY <1>4, <1>7, <2>2 DEF LayerBefore
    <2> QED BY <2>1, <2>2
<1>10. ASSUME NEW k \in NormsOf(c) PROVE k[1] # Mtp /\ k[1] # MtpLayer
    <2>1. CASE k = <<Top, "norm">>
        <3>1. k[1] = Top
            BY <2>1
        <3> QED BY <3>1, OwnersDiffer
    <2>2. CASE \E l \in Layers(c) : k[1] = Layer(l)
        BY <2>2, OwnersDiffer, LayersAreNat
    <2> QED BY <1>2, <2>1, <2>2
<1>11. \A n \in TopBefore : n \in ShiftedNames <=> <<Top, n>> \in NormsOf(c)
    BY <1>3, <1>5
<1> QED BY <1>9, <1>10, <1>11

\* The MTP part and the backbone, where neither is touched.
LEMMA OtherMtp ==
    ASSUME NEW c, NEW d, NEW e, MtpBefore(c, d), NEW K, Same(d, e, K),
           \A k \in K : k[1] # Mtp /\ k[1] # MtpLayer
    PROVE  MtpBefore(c, e)
<1>1. PICK Z : Z = {}
    OBVIOUS
<1>2. Part(Row(c), d, Mtp, MtpNames, MtpNames, Z, Z) /\ Before(Row(c), c, d, MtpLayer, FALSE, Z)
    BY <1>1 DEF MtpBefore
<1>3. (\A k \in K : k[1] # Mtp) /\ (\A k \in K : k[1] # MtpLayer) /\ FALSE \in BOOLEAN
    OBVIOUS
<1>4. Part(Row(c), e, Mtp, MtpNames, MtpNames, Z, Z)
    BY <1>2, <1>3, OtherPart
<1>5. Before(Row(c), c, e, MtpLayer, FALSE, Z)
    BY <1>2, <1>3, OtherBefore
<1> QED BY <1>1, <1>4, <1>5 DEF MtpBefore

\* The backbone, where its keys are left alone.
LEMMA OtherBackbone ==
    ASSUME NEW c \in Configs, NEW d, NEW e, NEW l, NEW T, Backbone(c, d, l, T), NEW K,
           Same(d, e, K),
           \A k \in K : k[1] # Top /\ \A m \in Layers(c) : k[1] # Layer(m)
    PROVE  Backbone(c, e, l, T)
<1>1. Part(Row(c), e, Top, TopNames, TopNames, ShiftedNames, T)
    <2>1. Part(Row(c), d, Top, TopNames, TopNames, ShiftedNames, T) /\ \A k \in K : k[1] # Top
        BY DEF Backbone
    <2> QED BY <2>1, OtherPart
<1>2. ASSUME NEW m \in Layers(c)
      PROVE  /\ m < l => After(Row(c), c, e, Layer(m), Linear(c, m))
             /\ m >= l => Before(Row(c), c, e, Layer(m), Linear(c, m), ShiftedNames)
    <2>1. /\ m < l => After(Row(c), c, d, Layer(m), Linear(c, m))
          /\ m >= l => Before(Row(c), c, d, Layer(m), Linear(c, m), ShiftedNames)
        BY DEF Backbone
    <2>2. (\A k \in K : k[1] # Layer(m)) /\ Linear(c, m) \in BOOLEAN
        BY LayersAreNat
    <2> QED BY <2>1, <2>2, OtherAfter, OtherBefore
<1> QED BY <1>1, <1>2 DEF Backbone

\* Owners of keys.
LEMMA KeysOfOwner ==
    ASSUME NEW o, NEW n
    PROVE  <<o, n>>[1] = o /\ <<o, n>>[2] = n
OBVIOUS

\* The norms of the backbone shifted, and rank_util put.
LEMMA NormsShifted ==
    ASSUME NEW c \in Configs, NEW e,
           e = Put(Shifted(Stripped(c), NormsOf(c)), <<Top, "rank_util">>,
                   Tensor(<<Top, "rank_util">>, << <<<<Top, "rank_util">>, 0>> >>))
    PROVE  /\ Backbone(c, e, 1, {}) /\ MtpBefore(c, e)
           /\ DOMAIN e \subseteq BackboneKeys(c) \cup MtpKeys
<1> DEFINE d == Stripped(c)
           K == NormsOf(c)
           f == Shifted(d, K)
           r == <<Top, "rank_util">>
           t == Tensor(r, << <<r, 0>> >>)
<1>0. e = Put(f, r, t)
    OBVIOUS
<1>1. PICK Z : Z = {}
    OBVIOUS
<1>2. /\ Part(Row(c), d, Top, TopNames, TopBefore, Z, Z)
      /\ \A l \in Layers(c) : Before(Row(c), c, d, Layer(l), Linear(c, l), Z)
      /\ MtpBefore(c, d)
      /\ DOMAIN d \subseteq BackboneKeys(c) \cup MtpKeys
    BY <1>1, StrippedParts
<1> HIDE DEF d
<1>3. Part(Row(c), f, Top, TopNames, TopBefore, ShiftedNames, Z)
    <2>1. /\ \A n \in TopBefore : n \notin Z
          /\ \A n \in TopBefore : n \in ShiftedNames <=> <<Top, n>> \in K
        BY <1>1, NormKeys
    <2> HIDE DEF K
    <2> QED BY ONLY <1>2, <2>1, ShiftPart
<1>4. \A l \in Layers(c) : Before(Row(c), c, f, Layer(l), Linear(c, l), ShiftedNames)
    <2> TAKE l \in Layers(c)
    <2>1. /\ Linear(c, l) \in BOOLEAN
          /\ \A n \in LayerBefore(Linear(c, l)) : n \in ShiftedNames <=> <<Layer(l), n>> \in K
        BY LayersAreNat, NormKeys
    <2>2. Before(Row(c), c, d, Layer(l), Linear(c, l), {})
        BY <1>1, <1>2
    <2> HIDE DEF K
    <2> QED BY <2>1, <2>2, ShiftLayer
<1>5. Same(d, f, K) /\ DOMAIN f = DOMAIN d
    BY ShiftKeys DEF Shifted
<1>6. MtpBefore(c, f)
    <2>1. \A k \in K : k[1] # Mtp /\ k[1] # MtpLayer
        BY NormKeys
    <2> HIDE DEF f, K
    <2> QED BY <1>2, <1>5, <2>1, OtherMtp
<1> HIDE DEF f
<1>7. Same(f, e, {r}) /\ DOMAIN e = DOMAIN f \cup {r}
    <2> HIDE DEF r, t
    <2>1. Same(f, Put(f, r, t), {r}) /\ DOMAIN Put(f, r, t) = DOMAIN f \cup {r}
        BY PutKeys, Zenon
    <2> QED BY <1>0, <2>1
<1>8. Part(Row(c), e, Top, TopNames, TopNames, ShiftedNames, Z)
    <2>1. IsTensor(Row(c), t, Top, "rank_util", ShiftedNames, Z)
        <3>1. <<r, 0>> \in Row(c)
            BY DEF Row
        <3> DEFINE s == << <<r, 0>> >>
        <3>2. s \in Seq(Row(c)) /\ Len(s) >= 1
            <4>1. PICK x : x = <<r, 0>>
                OBVIOUS
            <4>2. x \in Row(c) /\ s = <<x>>
                BY <3>1, <4>1
            <4> HIDE DEF s, r
            <4> QED BY <4>2
        <3>3. "rank_util" \notin ShiftedNames /\ "rank_util" \notin Z
            BY <1>1 DEF ShiftedNames, ScaledNorms
        <3> HIDE DEF s
        <3>4. IsTensor(Row(c), Tensor(<<Top, "rank_util">>, s), Top, "rank_util", ShiftedNames, Z)
            BY <3>2, <3>3, NewTensor
        <3> QED BY <3>4 DEF s
    <2>2. "rank_util" \in TopNames /\ TopBefore \cup {"rank_util"} = TopNames
        BY DEF TopNames, TopBefore
    <2> HIDE DEF t
    <2>3. Part(Row(c), Put(f, r, t), Top, TopNames, TopBefore \cup {"rank_util"}, ShiftedNames, Z)
        BY ONLY <1>3, <2>1, <2>2, PutPlain
    <2> QED BY <1>0, <2>2, <2>3
<1>9. \A k \in {r} : k[1] = Top
    BY KeysOfOwner
<1>10. \A l \in Layers(c) : Before(Row(c), c, e, Layer(l), Linear(c, l), ShiftedNames)
    <2> TAKE l \in Layers(c)
    <2>1. Linear(c, l) \in BOOLEAN /\ \A k \in {r} : k[1] # Layer(l)
        BY <1>9, LayersAreNat, OwnersDiffer
    <2>2. PICK M : M = {r}
        OBVIOUS
    <2> HIDE DEF r
    <2> QED BY <1>4, <1>7, <2>1, <2>2, OtherBefore
<1>11. Backbone(c, e, 1, {})
    <2>1. \A m \in Layers(c) : ~(m < 1)
        BY ConfigFields DEF Layers
    <2> QED BY <1>1, <1>8, <1>10, <2>1 DEF Backbone
<1>12. MtpBefore(c, e)
    <2>1. \A k \in {r} : k[1] # Mtp /\ k[1] # MtpLayer
        BY <1>9, OwnersDiffer
    <2>2. PICK M : M = {r}
        OBVIOUS
    <2> HIDE DEF r
    <2> QED BY <1>6, <1>7, <2>1, <2>2, OtherMtp
<1>13. DOMAIN e \subseteq BackboneKeys(c) \cup MtpKeys
    <2>1. r \in BackboneKeys(c)
        BY DEF BackboneKeys, Owned, TopNames
    <2> HIDE DEF r
    <2> QED BY <1>2, <1>5, <1>7, <2>1
<1> QED BY <1>11, <1>12, <1>13

\* A turn of the layers' loop.
LEMMA LayerTurn ==
    ASSUME NEW c \in Configs, NEW d, NEW l \in Layers(c), Backbone(c, d, l, {}), MtpBefore(c, d),
           DOMAIN d \subseteq BackboneKeys(c) \cup MtpKeys,
           IF Linear(c, l) THEN ~DeltaNetRaises(c) ELSE ~AttentionRaises(c),
           NEW e,
           e = ConvertMoe(IF Linear(c, l) THEN ConvertDeltaNet(d, Layer(l), c)
                                          ELSE ConvertAttention(d, Layer(l), c), Layer(l), c)
    PROVE  /\ Backbone(c, e, l + 1, {}) /\ MtpBefore(c, e)
           /\ DOMAIN e \subseteq BackboneKeys(c) \cup MtpKeys
<1> DEFINE K == Owned(Layer(l), LayerNames)
<1>1. PICK Z : Z = {}
    OBVIOUS
<1>2. /\ Part(Row(c), d, Top, TopNames, TopNames, ShiftedNames, Z)
      /\ \A m \in Layers(c) :
            /\ m < l => After(Row(c), c, d, Layer(m), Linear(c, m))
            /\ m >= l => Before(Row(c), c, d, Layer(m), Linear(c, m), ShiftedNames)
    BY <1>1 DEF Backbone
<1>3. l \in Nat /\ Linear(c, l) \in BOOLEAN
    BY LayersAreNat
<1>4. After(Row(c), c, e, Layer(l), Linear(c, l)) /\ Same(d, e, K)
    <2>1. Before(Row(c), c, d, Layer(l), Linear(c, l), ShiftedNames)
        BY <1>2, <1>3
    <2>2. <<<<Layer(l), "rank_util">>, 0>> \in Row(c)
        BY DEF Row
    <2>3. PICK m : m = IF Linear(c, l) THEN ConvertDeltaNet(d, Layer(l), c)
                                       ELSE ConvertAttention(d, Layer(l), c)
        OBVIOUS
    <2>4. /\ After(Row(c), c, ConvertMoe(m, Layer(l), c), Layer(l), Linear(c, l))
          /\ Same(d, ConvertMoe(m, Layer(l), c), Owned(Layer(l), LayerNames))
        BY <1>3, <2>1, <2>2, <2>3, LayerConverted
    <2> QED BY <2>3, <2>4, Zenon
<1>5. \A k \in K : k[1] = Layer(l)
    BY OwnedKeys, Zenon
<1> HIDE DEF K
<1>6. Part(Row(c), e, Top, TopNames, TopNames, ShiftedNames, Z)
    <2>1. \A k \in K : k[1] # Top
        BY <1>3, <1>5, OwnersDiffer
    <2> QED BY <1>2, <1>4, <2>1, OtherPart
<1>7. ASSUME NEW m \in Layers(c)
      PROVE  /\ m < l + 1 => After(Row(c), c, e, Layer(m), Linear(c, m))
             /\ m >= l + 1 => Before(Row(c), c, e, Layer(m), Linear(c, m), ShiftedNames)
    <2>1. m \in Nat /\ Linear(c, m) \in BOOLEAN
        BY LayersAreNat
    <2>2. CASE m = l
        BY <1>3, <1>4, <2>1, <2>2
    <2>3. CASE m # l
        <3>1. \A k \in K : k[1] # Layer(m)
            BY <1>3, <1>5, <2>1, <2>3, OwnersDiffer
        <3>2. (m < l + 1 => m < l) /\ (m >= l + 1 => m >= l)
            BY <1>3, <2>1, <2>3
        <3> QED BY <1>2, <1>4, <2>1, <3>1, <3>2, OtherAfter, OtherBefore
    <2> QED BY <2>2, <2>3
<1>8. Backbone(c, e, l + 1, {})
    BY <1>1, <1>6, <1>7 DEF Backbone
<1>9. MtpBefore(c, e)
    <2>1. \A k \in K : k[1] # Mtp /\ k[1] # MtpLayer
        BY <1>3, <1>5, OwnersDiffer
    <2> QED BY <1>4, <2>1, OtherMtp
<1>10. DOMAIN e \subseteq BackboneKeys(c) \cup MtpKeys
    <2>1. K \subseteq BackboneKeys(c) \cup MtpKeys
        BY DEF BackboneKeys, K
    <2> QED BY <1>4, <2>1, WithinSame
<1> QED BY <1>8, <1>9, <1>10

\* The model's head transposed, after the last layer.
LEMMA HeadTurn ==
    ASSUME NEW c \in Configs, NEW d, NEW l \in Nat, Backbone(c, d, l, {}), MtpBefore(c, d),
           DOMAIN d \subseteq BackboneKeys(c) \cup MtpKeys,
           NEW e,
           e = Put(d, <<Top, "lm_head">>, Transposed(d[<<Top, "lm_head">>], <<Top, "lm_head">>))
    PROVE  /\ Backbone(c, e, l, ContractionFirst(c)) /\ MtpBefore(c, e)
           /\ DOMAIN e \subseteq BackboneKeys(c) \cup MtpKeys
<1> DEFINE k == <<Top, "lm_head">>
           t == Transposed(d[k], k)
           P == ShiftedNames
           T == ContractionFirst(c)
<1>0. e = Put(d, k, t)
    OBVIOUS
<1>1. PICK Z : Z = {}
    OBVIOUS
<1>2. /\ Part(Row(c), d, Top, TopNames, TopNames, P, Z)
      /\ \A m \in Layers(c) :
            /\ m < l => After(Row(c), c, d, Layer(m), Linear(c, m))
            /\ m >= l => Before(Row(c), c, d, Layer(m), Linear(c, m), P)
    BY <1>1 DEF Backbone
<1>3. /\ "lm_head" \in TopNames /\ "lm_head" \in T /\ TopNames \cup {"lm_head"} = TopNames
      /\ "lm_head" \notin Z /\ \A n \in TopNames : n # "lm_head" => (n \in Z <=> n \in T)
    BY <1>1 DEF TopNames, ContractionFirst
<1> HIDE DEF P, T
<1>4. IsTensor(Row(c), d[k], Top, "lm_head", P, Z)
    BY <1>2, <1>3, Zenon DEF Part
<1>5. IsTensor(Row(c), t, Top, "lm_head", P, T)
    BY <1>3, <1>4, TransposeTensor, Zenon
<1> HIDE DEF t
<1>6. Part(Row(c), Put(d, k, t), Top, TopNames, TopNames \cup {"lm_head"}, P, T)
    BY ONLY <1>2, <1>3, <1>5, PutPart
<1>7. Same(d, e, {k})
    <2> HIDE DEF k
    <2>1. Same(d, Put(d, k, t), {k})
        BY PutKeys, Zenon
    <2> QED BY <1>0, <2>1
<1>8. Part(Row(c), e, Top, TopNames, TopNames, P, T)
    BY <1>0, <1>3, <1>6
<1>9. PICK K : K = {k}
    OBVIOUS
<1>10. Same(d, e, K) /\ \A m \in K : m[1] = Top
    BY <1>7, <1>9, KeysOfOwner
<1>11. ASSUME NEW m \in Layers(c)
       PROVE  /\ m < l => After(Row(c), c, e, Layer(m), Linear(c, m))
              /\ m >= l => Before(Row(c), c, e, Layer(m), Linear(c, m), P)
    <2>1. Linear(c, m) \in BOOLEAN /\ \A q \in K : q[1] # Layer(m)
        BY <1>10, LayersAreNat, OwnersDiffer
    <2> QED BY <1>2, <1>10, <2>1, OtherAfter, OtherBefore
<1>12. Backbone(c, e, l, T)
    BY <1>8, <1>11 DEF Backbone, P
<1>13. MtpBefore(c, e)
    <2>1. \A m \in K : m[1] # Mtp /\ m[1] # MtpLayer
        BY <1>10, OwnersDiffer
    <2> QED BY <1>10, <2>1, OtherMtp
<1>14. DOMAIN e \subseteq BackboneKeys(c) \cup MtpKeys
    <2>1. K \subseteq BackboneKeys(c) \cup MtpKeys
        BY <1>9 DEF BackboneKeys, Owned, TopNames
    <2> QED BY <1>10, <2>1, WithinSame
<1> QED BY <1>12, <1>13, <1>14 DEF T

(***************************************************************************)
(* The MTP part under the names of the draft's head.                        *)
(***************************************************************************)
\* A name moved from an owner to another.
LEMMA MovePart ==
    ASSUME NEW R, NEW d, NEW p, NEW U, NEW N, NEW P, NEW T, Part(R, d, p, U, N, P, T), NEW a \in N,
           NEW o, NEW V, NEW M, NEW P2, NEW T2, Part(R, d, o, V, M, P2, T2), NEW b \in V,
           p # o, a \in P <=> b \in P2, a \in T <=> b \in T2,
           NEW e, e = Rename(d, <<p, a>>, <<o, b>>)
    PROVE  /\ Part(R, e, p, U, N \ {a}, P, T)
           /\ Part(R, e, o, V, M \cup {b}, P2, T2)
           /\ Same(d, e, {<<p, a>>, <<o, b>>})
<1>0. /\ <<p, a>> \in DOMAIN d /\ <<p, a>> # <<o, b>>
      /\ \A m, n : <<p, m>> = <<p, n>> <=> m = n
      /\ \A m, n : <<o, m>> = <<o, n>> <=> m = n
      /\ \A m, n : <<p, m>> # <<o, n>>
    BY DEF Part
<1>1. /\ DOMAIN e = (DOMAIN d \ {<<p, a>>}) \cup {<<o, b>>}
      /\ e[<<o, b>>] = Clone(d[<<p, a>>], <<o, b>>)
      /\ \A m \in DOMAIN d \ {<<p, a>>, <<o, b>>} : e[m] = d[m]
      /\ Same(d, e, {<<p, a>>, <<o, b>>})
    <2>1. PICK k, m : k \in DOMAIN d /\ k = <<p, a>> /\ m = <<o, b>>
        BY <1>0
    <2>2. k \in DOMAIN d /\ k # m /\ e = Rename(d, k, m)
        BY <1>0, <2>1, Zenon
    <2>3. /\ DOMAIN Rename(d, k, m) = (DOMAIN d \ {k}) \cup {m}
          /\ Rename(d, k, m)[m] = Clone(d[k], m)
          /\ \A x \in DOMAIN d \ {k, m} : Rename(d, k, m)[x] = d[x]
          /\ Same(d, Rename(d, k, m), {k, m})
        BY ONLY <2>2, RenameKeys
    <2> QED BY <2>1, <2>2, <2>3
<1>2. \A m \in U : <<p, m>> \in DOMAIN e <=> m \in N \ {a}
    BY <1>0, <1>1 DEF Part
<1>3. ASSUME NEW m \in N \ {a} PROVE IsTensor(R, e[<<p, m>>], p, m, P, T)
    <2>1. <<p, m>> \in DOMAIN d /\ IsTensor(R, d[<<p, m>>], p, m, P, T)
        BY DEF Part
    <2>2. e[<<p, m>>] = d[<<p, m>>]
        BY <1>0, <1>1, <2>1
    <2> QED BY <2>1, <2>2
<1>4. \A m \in V : <<o, m>> \in DOMAIN e <=> m \in M \cup {b}
    BY <1>0, <1>1 DEF Part
<1>5. ASSUME NEW m \in M \cup {b} PROVE IsTensor(R, e[<<o, m>>], o, m, P2, T2)
    <2>1. CASE m = b
        <3>1. IsTensor(R, d[<<p, a>>], p, a, P, T)
            BY DEF Part
        <3>2. IsTensor(R, Clone(d[<<p, a>>], <<o, b>>), o, b, P2, T2)
            BY <3>1, CloneTensor, Zenon
        <3> QED BY <1>1, <2>1, <3>2, Zenon
    <2>2. CASE m # b
        <3>1. m \in M /\ <<o, m>> \in DOMAIN d /\ IsTensor(R, d[<<o, m>>], o, m, P2, T2)
            BY <2>2 DEF Part
        <3>2. e[<<o, m>>] = d[<<o, m>>]
            BY <1>0, <1>1, <2>2, <3>1
        <3> QED BY <3>1, <3>2
    <2> QED BY <2>1, <2>2
<1>6. N \ {a} \subseteq U /\ M \cup {b} \subseteq V
    BY DEF Part
<1> QED BY <1>1, <1>2, <1>3, <1>4, <1>5, <1>6, Zenon DEF Part

\* A name of the MTP part moved to the draft's head.
LEMMA MoveMtp ==
    ASSUME NEW R, NEW d, NEW Z, \A n : n \notin Z, NEW N, NEW M,
           Part(R, d, Mtp, MtpNames, N, Z, Z), Part(R, d, MtpHead, HeadNames, M, Z, Z),
           NEW a \in N, NEW b \in HeadNames, NEW K, {<<Mtp, a>>, <<MtpHead, b>>} \subseteq K
    PROVE  /\ Part(R, Rename(d, <<Mtp, a>>, <<MtpHead, b>>), Mtp, MtpNames, N \ {a}, Z, Z)
           /\ Part(R, Rename(d, <<Mtp, a>>, <<MtpHead, b>>), MtpHead, HeadNames, M \cup {b}, Z, Z)
           /\ Same(d, Rename(d, <<Mtp, a>>, <<MtpHead, b>>), K)
<1>1. PICK e : e = Rename(d, <<Mtp, a>>, <<MtpHead, b>>)
    OBVIOUS
<1>2. PICK o, q : o = Mtp /\ q = MtpHead /\ o # q
    BY OwnersDiffer
<1>3. /\ Part(R, e, Mtp, MtpNames, N \ {a}, Z, Z)
      /\ Part(R, e, MtpHead, HeadNames, M \cup {b}, Z, Z)
      /\ Same(d, e, {<<Mtp, a>>, <<MtpHead, b>>})
    <2>1. Part(R, d, o, MtpNames, N, Z, Z) /\ Part(R, d, q, HeadNames, M, Z, Z)
        BY <1>2
    <2>2. /\ e = Rename(d, <<o, a>>, <<q, b>>)
          /\ a \in N /\ b \in HeadNames /\ o # q /\ (a \in Z <=> b \in Z)
        BY <1>1, <1>2
    <2>3. /\ Part(R, e, o, MtpNames, N \ {a}, Z, Z)
          /\ Part(R, e, q, HeadNames, M \cup {b}, Z, Z)
          /\ Same(d, e, {<<o, a>>, <<q, b>>})
        BY ONLY <2>1, <2>2, MovePart
    <2> QED BY <1>2, <2>3
<1>4. Same(d, e, K)
    BY <1>3, SameWeaker
<1> QED BY <1>1, <1>3, <1>4, Zenon

\* fc, its two norms and the last norm, one after the other.
LEMMA MtpMoved ==
    ASSUME NEW R, NEW d, NEW Z, Z = {}, Part(R, d, Mtp, MtpNames, MtpNames, Z, Z),
           Part(R, d, MtpHead, HeadNames, Z, Z, Z),
           NEW e, e = Rename(Rename(Rename(Rename(d, <<Mtp, "fc">>, <<MtpHead, "eh_proj">>),
                        <<Mtp, "pre_fc_norm_embedding">>, <<MtpHead, "embed_norm">>),
                        <<Mtp, "pre_fc_norm_hidden">>, <<MtpHead, "hidden_norm">>),
                        <<Mtp, "norm">>, <<MtpHead, "final_norm">>)
    PROVE  /\ Part(R, e, MtpHead, HeadNames, HeadBefore, Z, Z)
           /\ Same(d, e, Owned(Mtp, MtpNames) \cup Owned(MtpHead, HeadNames))
<1> DEFINE d1 == Rename(d, <<Mtp, "fc">>, <<MtpHead, "eh_proj">>)
           d2 == Rename(d1, <<Mtp, "pre_fc_norm_embedding">>, <<MtpHead, "embed_norm">>)
           d3 == Rename(d2, <<Mtp, "pre_fc_norm_hidden">>, <<MtpHead, "hidden_norm">>)
           d4 == Rename(d3, <<Mtp, "norm">>, <<MtpHead, "final_norm">>)
           K == Owned(Mtp, MtpNames) \cup Owned(MtpHead, HeadNames)
           N1 == {"pre_fc_norm_embedding", "pre_fc_norm_hidden", "norm"}
           N2 == {"pre_fc_norm_hidden", "norm"}
           N3 == {"norm"}
           M1 == {"eh_proj"}
           M2 == {"eh_proj", "embed_norm"}
           M3 == {"eh_proj", "embed_norm", "hidden_norm"}
<1>0. e = d4
    OBVIOUS
<1>1. /\ "fc" \in MtpNames /\ MtpNames \ {"fc"} = N1 /\ "eh_proj" \in HeadNames
      /\ N1 \ {"pre_fc_norm_embedding"} = N2 /\ "embed_norm" \in HeadNames
      /\ N2 \ {"pre_fc_norm_hidden"} = N3 /\ "hidden_norm" \in HeadNames
           /\ "final_norm" \in HeadNames
      /\ Z \cup {"eh_proj"} = M1 /\ M1 \cup {"embed_norm"} = M2 /\ M2 \cup {"hidden_norm"} = M3
      /\ M3 \cup {"final_norm"} = HeadBefore
      /\ "pre_fc_norm_embedding" \in N1 /\ "pre_fc_norm_hidden" \in N2 /\ "norm" \in N3
    BY DEF MtpNames, HeadNames, HeadBefore
<1>2. Mtp # MtpHead /\ \A n : n \notin Z
    BY OwnersDiffer
<1>3. /\ {<<Mtp, "fc">>, <<MtpHead, "eh_proj">>} \subseteq K
      /\ {<<Mtp, "pre_fc_norm_embedding">>, <<MtpHead, "embed_norm">>} \subseteq K
      /\ {<<Mtp, "pre_fc_norm_hidden">>, <<MtpHead, "hidden_norm">>} \subseteq K
      /\ {<<Mtp, "norm">>, <<MtpHead, "final_norm">>} \subseteq K
    BY DEF Owned, MtpNames, HeadNames, HeadBefore
<1> HIDE DEF K, N1, N2, N3, M1, M2, M3
<1>4. Part(R, d1, Mtp, MtpNames, N1, Z, Z) /\ Part(R, d1, MtpHead, HeadNames, M1, Z, Z)
        /\ Same(d, d1, K)
    <2>1. /\ Part(R, d1, Mtp, MtpNames, MtpNames \ {"fc"}, Z, Z)
          /\ Part(R, d1, MtpHead, HeadNames, Z \cup {"eh_proj"}, Z, Z)
          /\ Same(d, d1, K)
        <3>1. "fc" \in MtpNames /\ "eh_proj" \in HeadNames
                /\ {<<Mtp, "fc">>, <<MtpHead, "eh_proj">>} \subseteq K
            BY <1>1, <1>3
        <3>2. Part(R, d, Mtp, MtpNames, MtpNames, Z, Z) /\ Part(R, d, MtpHead, HeadNames, Z, Z, Z)
            OBVIOUS
        <3> QED BY ONLY <1>2, <3>1, <3>2, MoveMtp
    <2> QED BY <1>1, <2>1
<1> HIDE DEF d1
<1>5. Part(R, d2, Mtp, MtpNames, N2, Z, Z) /\ Part(R, d2, MtpHead, HeadNames, M2, Z, Z)
        /\ Same(d1, d2, K)
    <2>1. /\ Part(R, d2, Mtp, MtpNames, N1 \ {"pre_fc_norm_embedding"}, Z, Z)
          /\ Part(R, d2, MtpHead, HeadNames, M1 \cup {"embed_norm"}, Z, Z)
          /\ Same(d1, d2, K)
        <3>1. "pre_fc_norm_embedding" \in N1 /\ "embed_norm" \in HeadNames
                /\ {<<Mtp, "pre_fc_norm_embedding">>, <<MtpHead, "embed_norm">>} \subseteq K
            BY <1>1, <1>3
        <3>2. Part(R, d1, Mtp, MtpNames, N1, Z, Z) /\ Part(R, d1, MtpHead, HeadNames, M1, Z, Z)
            BY <1>4
        <3> QED BY ONLY <1>2, <3>1, <3>2, MoveMtp
    <2> QED BY <1>1, <2>1
<1> HIDE DEF d2
<1>6. Part(R, d3, Mtp, MtpNames, N3, Z, Z) /\ Part(R, d3, MtpHead, HeadNames, M3, Z, Z)
        /\ Same(d2, d3, K)
    <2>1. /\ Part(R, d3, Mtp, MtpNames, N2 \ {"pre_fc_norm_hidden"}, Z, Z)
          /\ Part(R, d3, MtpHead, HeadNames, M2 \cup {"hidden_norm"}, Z, Z)
          /\ Same(d2, d3, K)
        <3>1. "pre_fc_norm_hidden" \in N2 /\ "hidden_norm" \in HeadNames
                /\ {<<Mtp, "pre_fc_norm_hidden">>, <<MtpHead, "hidden_norm">>} \subseteq K
            BY <1>1, <1>3
        <3>2. Part(R, d2, Mtp, MtpNames, N2, Z, Z) /\ Part(R, d2, MtpHead, HeadNames, M2, Z, Z)
            BY <1>5
        <3> QED BY ONLY <1>2, <3>1, <3>2, MoveMtp
    <2> QED BY <1>1, <2>1
<1> HIDE DEF d3
<1>7. Part(R, d4, MtpHead, HeadNames, HeadBefore, Z, Z) /\ Same(d3, d4, K)
    <2>1. /\ Part(R, d4, Mtp, MtpNames, N3 \ {"norm"}, Z, Z)
          /\ Part(R, d4, MtpHead, HeadNames, M3 \cup {"final_norm"}, Z, Z)
          /\ Same(d3, d4, K)
        <3>1. "norm" \in N3 /\ "final_norm" \in HeadNames
                /\ {<<Mtp, "norm">>, <<MtpHead, "final_norm">>} \subseteq K
            BY <1>1, <1>3
        <3>2. Part(R, d3, Mtp, MtpNames, N3, Z, Z) /\ Part(R, d3, MtpHead, HeadNames, M3, Z, Z)
            BY <1>6
        <3> QED BY ONLY <1>2, <3>1, <3>2, MoveMtp
    <2> QED BY <1>1, <2>1
<1> HIDE DEF d4
<1>8. Same(d, d4, K)
    <2>1. Same(d, d2, K)
        BY <1>4, <1>5, SameTwice
    <2>2. Same(d, d3, K)
        BY <1>6, <2>1, SameTwice
    <2> QED BY <1>7, <2>2, SameTwice
<1> QED BY <1>0, <1>7, <1>8 DEF K

\* A clone has its tensor's rows.
LEMMA CloneRows ==
    ASSUME NEW R, NEW t, NEW o, NEW n, NEW P, NEW T, IsTensor(R, t, o, n, P, T), NEW k
    PROVE  Clone(t, k).rows = t.rows
<1>1. PICK rows, plus, trans, store : t = Record(rows, plus, trans, store)
    BY Zenon DEF IsTensor
<1> QED BY ONLY <1>1 DEF Clone, Record

\* Whose keys those of the backbone, of the MTP part and of the head are.
LEMMA GroupsOfKeys ==
    ASSUME NEW c \in Configs
    PROVE  /\ \A k \in BackboneKeys(c) : /\ k[1] # Mtp /\ k[1] # MtpLayer
                                         /\ k[1] # MtpHead /\ k[1] # MtpHeadLayer
           /\ \A k \in MtpKeys : /\ k[1] \in {Mtp, MtpLayer} /\ k[1] # Top
                                 /\ k[1] # MtpHead /\ k[1] # MtpHeadLayer
                                 /\ \A l \in Layers(c) : k[1] # Layer(l)
           /\ \A k \in HeadKeys : /\ k[1] \in {MtpHead, MtpHeadLayer} /\ k[1] # Top
                                  /\ k[1] # Mtp /\ k[1] # MtpLayer
                                  /\ \A l \in Layers(c) : k[1] # Layer(l)
<1>1. \A k \in BackboneKeys(c) : k[1] = Top \/ \E l \in Layers(c) : k[1] = Layer(l)
    <2> TAKE k \in BackboneKeys(c)
    <2>1. CASE k \in Owned(Top, TopNames)
        BY <2>1, OwnedKeys, Zenon
    <2>2. CASE k \in UNION {Owned(Layer(l), LayerNames) : l \in Layers(c)}
        <3>1. PICK l \in Layers(c) : k \in Owned(Layer(l), LayerNames)
            BY <2>2
        <3>2. k[1] = Layer(l)
            BY <3>1, OwnedKeys
        <3> QED BY <3>2
    <2> QED BY <2>1, <2>2, Zenon DEF BackboneKeys
<1>2. \A k \in MtpKeys : k[1] = Mtp \/ k[1] = MtpLayer
    BY OwnedKeys, Zenon DEF MtpKeys
<1>3. \A k \in HeadKeys : k[1] = MtpHead \/ k[1] = MtpHeadLayer
    BY OwnedKeys, Zenon DEF HeadKeys
<1>4. \A l \in Layers(c) : /\ Layer(l) # Top /\ Layer(l) # Mtp
                           /\ Layer(l) # MtpLayer /\ Layer(l) # MtpHead /\ Layer(l) # MtpHeadLayer
    BY OwnersDiffer, LayersAreNat
<1>5. /\ Top # Mtp /\ Top # MtpLayer /\ Top # MtpHead /\ Top # MtpHeadLayer
      /\ Mtp # MtpLayer /\ Mtp # MtpHead /\ Mtp # MtpHeadLayer
      /\ MtpLayer # MtpHead /\ MtpLayer # MtpHeadLayer /\ MtpHead # MtpHeadLayer
    BY OwnersDiffer
<1>6. ASSUME NEW k \in BackboneKeys(c)
      PROVE  k[1] # Mtp /\ k[1] # MtpLayer /\ k[1] # MtpHead /\ k[1] # MtpHeadLayer
    BY <1>1, <1>4, <1>5, Zenon
<1>7. ASSUME NEW k \in MtpKeys
      PROVE  /\ k[1] \in {Mtp, MtpLayer} /\ k[1] # Top /\ k[1] # MtpHead /\ k[1] # MtpHeadLayer
             /\ \A l \in Layers(c) : k[1] # Layer(l)
    BY <1>2, <1>4, <1>5, Zenon
<1>8. ASSUME NEW k \in HeadKeys
      PROVE  /\ k[1] \in {MtpHead, MtpHeadLayer} /\ k[1] # Top /\ k[1] # Mtp /\ k[1] # MtpLayer
             /\ \A l \in Layers(c) : k[1] # Layer(l)
    BY <1>3, <1>4, <1>5, Zenon
<1> QED BY <1>6, <1>7, <1>8

\* The keys of the MTP part under the names of the head.
LEMMA MtpRenamed ==
    ASSUME NEW c \in Configs, NEW d, MtpBefore(c, d),
           DOMAIN d \subseteq BackboneKeys(c) \cup MtpKeys,
           NEW e, e = RenamedMtp(d)
    PROVE  /\ Part(Row(c), e, MtpHead, HeadNames, HeadBefore, {}, ContractionFirst(c))
           /\ Before(Row(c), c, e, MtpHeadLayer, FALSE, {})
           /\ Same(d, e, MtpKeys \cup HeadKeys)
           /\ DOMAIN e \subseteq BackboneKeys(c) \cup HeadKeys
<1> DEFINE R == Row(c)
           T == ContractionFirst(c)
           N == LayerBefore(FALSE)
           eh == <<MtpHead, "eh_proj">>
           top == Rename(Rename(Rename(Rename(d, <<Mtp, "fc">>, <<MtpHead, "eh_proj">>),
                     <<Mtp, "pre_fc_norm_embedding">>, <<MtpHead, "embed_norm">>),
                     <<Mtp, "pre_fc_norm_hidden">>, <<MtpHead, "hidden_norm">>),
                     <<Mtp, "norm">>, <<MtpHead, "final_norm">>)
           turned == Put(top, eh, Transposed(top[eh], eh))
           moved == {k \in DOMAIN d : k[1] = MtpLayer}
           layer0 == [k \in {<<MtpHeadLayer, m[2]>> : m \in moved} |->
                        Clone(d[<<MtpLayer, k[2]>>], k)]
           X == {k \in DOMAIN top : k[1] \in {Mtp, MtpLayer}}
           both == Over(layer0, turned)
<1>0. e = Drop(both, X)
    BY Zenon DEF RenamedMtp
<1>1. PICK Z : Z = {}
    OBVIOUS
<1>2. /\ Part(R, d, Mtp, MtpNames, MtpNames, Z, Z)
      /\ Part(R, d, MtpLayer, LayerNames, N, Z, Z)
      /\ Lens(c, d, MtpLayer, FALSE)
    BY <1>1 DEF MtpBefore, Before
<1>3. \A k \in DOMAIN d : k[1] # MtpHead /\ k[1] # MtpHeadLayer
    BY GroupsOfKeys
<1>4. \A n : <<MtpHead, n>> \notin DOMAIN d /\ <<MtpHeadLayer, n>> \notin DOMAIN d
    <2> TAKE n
    <2>1. PICK k, m : k = <<MtpHead, n>> /\ m = <<MtpHeadLayer, n>>
        OBVIOUS
    <2>2. k[1] = MtpHead /\ m[1] = MtpHeadLayer
        BY <2>1
    <2> QED BY <1>3, <2>1, <2>2, Zenon
<1>5. Part(R, d, MtpHead, HeadNames, Z, Z, Z)
    BY <1>1, <1>4 DEF Part
<1>6. /\ Part(R, top, MtpHead, HeadNames, HeadBefore, Z, Z)
      /\ Same(d, top, Owned(Mtp, MtpNames) \cup Owned(MtpHead, HeadNames))
    <2> HIDE DEF R
    <2>1. PICK t : t = top
        OBVIOUS
    <2>2. /\ Part(R, t, MtpHead, HeadNames, HeadBefore, Z, Z)
          /\ Same(d, t, Owned(Mtp, MtpNames) \cup Owned(MtpHead, HeadNames))
        BY <1>1, <1>2, <1>5, <2>1, MtpMoved
    <2> QED BY <2>1, <2>2
<1> HIDE DEF top, R, T, N
<1>7. Part(R, turned, MtpHead, HeadNames, HeadBefore, Z, T) /\ Same(top, turned, {eh})
        /\ eh \in DOMAIN top
    <2>1. /\ "eh_proj" \in HeadBefore /\ "eh_proj" \in HeadNames /\ "eh_proj" \in T
          /\ HeadBefore \cup {"eh_proj"} = HeadBefore /\ "eh_proj" \notin Z
          /\ \A m \in HeadBefore : m # "eh_proj" => (m \in Z <=> m \in T)
        BY <1>1 DEF HeadBefore, HeadNames, ContractionFirst, T
    <2>2. IsTensor(R, top[eh], MtpHead, "eh_proj", Z, Z) /\ eh \in DOMAIN top
        BY <1>6, <2>1, Zenon DEF Part
    <2>3. PICK t : t = Transposed(top[eh], eh)
        OBVIOUS
    <2>4. IsTensor(R, Transposed(top[eh], eh), MtpHead, "eh_proj", Z, T)
        BY <2>1, <2>2, TransposeTensor, Zenon
    <2>5. IsTensor(R, t, MtpHead, "eh_proj", Z, T)
        BY <2>3, <2>4
    <2>6. Part(R, Put(top, eh, t), MtpHead, HeadNames, HeadBefore \cup {"eh_proj"}, Z, T)
        BY ONLY <1>6, <2>1, <2>5, PutPart
    <2>7. Same(top, Put(top, eh, t), {eh})
        <3> HIDE DEF eh
        <3> QED BY PutKeys, Zenon
    <2> QED BY <2>1, <2>2, <2>3, <2>6, <2>7
<1>8. DOMAIN turned = DOMAIN top
    <2>1. DOMAIN turned = DOMAIN top \cup {eh}
        BY DEF Put
    <2> QED BY <1>7, <2>1
<1> HIDE DEF turned
<1>9. /\ \A n \in LayerNames : <<MtpHeadLayer, n>> \in DOMAIN layer0 <=> n \in N
      /\ \A n \in N : layer0[<<MtpHeadLayer, n>>] = Clone(d[<<MtpLayer, n>>], <<MtpHeadLayer, n>>)
      /\ \A k \in DOMAIN layer0 : k \in Owned(MtpHeadLayer, LayerNames)
    <2>1. \A m \in moved : m \in Owned(MtpLayer, LayerNames)
        <3> TAKE m \in moved
        <3>1. m \in BackboneKeys(c) \cup MtpKeys /\ m[1] = MtpLayer
            OBVIOUS
        <3>2. m \in Owned(Mtp, MtpNames) \/ m \in Owned(MtpLayer, LayerNames)
            BY <3>1, GroupsOfKeys DEF MtpKeys
        <3>3. m \in Owned(Mtp, MtpNames) => m[1] = Mtp
            BY OwnedKeys, Zenon
        <3> QED BY <3>1, <3>2, <3>3, OwnersDiffer
    <2>2. \A m \in moved : m[2] \in LayerNames /\ m = <<MtpLayer, m[2]>>
        BY <2>1, OwnedKeys, Zenon
    <2>3. \A m \in moved : m[2] \in N
        <3> TAKE m \in moved
        <3>1. PICK n : n = m[2]
            OBVIOUS
        <3>2. n \in LayerNames /\ <<MtpLayer, n>> \in DOMAIN d
            BY <2>2, <3>1, Zenon
        <3>3. n \in N
            BY <1>2, <3>2, Zenon DEF Part
        <3> QED BY <3>1, <3>3
    <2>4. \A n \in N : n \in LayerNames /\ \E m \in moved : m[2] = n
        <3> TAKE n \in N
        <3>1. n \in LayerNames /\ <<MtpLayer, n>> \in DOMAIN d
            BY <1>2, Zenon DEF Part
        <3>2. PICK m : m = <<MtpLayer, n>>
            OBVIOUS
        <3>3. m[1] = MtpLayer /\ m[2] = n
            BY <3>2
        <3>4. m \in moved
            BY <3>1, <3>2, <3>3
        <3> QED BY <3>1, <3>3, <3>4, Zenon
    <2> DEFINE Y == {<<MtpHeadLayer, m[2]>> : m \in moved}
    <2>5. \A n : <<MtpHeadLayer, n>> \in Y <=> n \in N
        <3>1. \A n : <<MtpHeadLayer, n>> \in Y
                <=> \E m \in moved : <<MtpHeadLayer, n>> = <<MtpHeadLayer, m[2]>>
            BY Zenon
        <3>2. \A n, q : <<MtpHeadLayer, n>> = <<MtpHeadLayer, q>> <=> n = q
            OBVIOUS
        <3> HIDE DEF moved, Y
        <3> QED BY <2>3, <2>4, <3>1, <3>2, Zenon
    <2>6. \A k \in Y : k[2] \in LayerNames /\ k = <<MtpHeadLayer, k[2]>>
        <3> TAKE k \in Y
        <3>1. PICK m \in moved : k = <<MtpHeadLayer, m[2]>>
            BY Zenon
        <3>2. k[2] = m[2]
            BY <3>1
        <3> QED BY <2>2, <3>1, <3>2, Zenon
    <2>7. DOMAIN layer0 = Y /\ \A k \in Y : layer0[k] = Clone(d[<<MtpLayer, k[2]>>], k)
        BY Zenon
    <2> HIDE DEF Y, moved, layer0
    <2>8. \A n \in N : layer0[<<MtpHeadLayer, n>>] = Clone(d[<<MtpLayer, n>>], <<MtpHeadLayer, n>>)
        <3> TAKE n \in N
        <3>1. PICK k : k = <<MtpHeadLayer, n>>
            OBVIOUS
        <3>2. k \in Y /\ k[2] = n
            BY <2>5, <3>1
        <3>3. layer0[k] = Clone(d[<<MtpLayer, n>>], k)
            BY <2>7, <3>2, Zenon
        <3> QED BY <3>1, <3>3, Zenon
    <2>9. \A k \in Y : k \in Owned(MtpHeadLayer, LayerNames)
        <3> TAKE k \in Y
        <3>1. PICK n : n = k[2]
            OBVIOUS
        <3>2. n \in LayerNames /\ k = <<MtpHeadLayer, n>>
            BY <2>6, <3>1, Zenon
        <3> QED BY <3>2, OwnedKeys
    <2> QED BY <2>4, <2>5, <2>7, <2>8, <2>9
<1> HIDE DEF layer0
<1>10. /\ DOMAIN both = DOMAIN layer0 \cup DOMAIN turned
       /\ \A k \in DOMAIN layer0 : both[k] = layer0[k]
       /\ \A k \in DOMAIN turned \ DOMAIN layer0 : both[k] = turned[k]
    BY OverKeys
<1> HIDE DEF both
<1>11. /\ DOMAIN e = DOMAIN both \ X
       /\ \A k \in DOMAIN both \ X : e[k] = both[k]
    <2>1. PICK x : x = X
        OBVIOUS
    <2>2. /\ DOMAIN Drop(both, x) = DOMAIN both \ x
          /\ \A k \in DOMAIN both \ x : Drop(both, x)[k] = both[k]
        BY DropKeys, Zenon
    <2> HIDE DEF X
    <2> QED BY <1>0, <2>1, <2>2
<1>12. \A k \in X : k[1] \in {Mtp, MtpLayer} /\ k \in DOMAIN top
    OBVIOUS
<1>13. \A k \in DOMAIN top : k[1] \in {Mtp, MtpLayer} => k \in X
    OBVIOUS
<1> HIDE DEF X
<1>14. \A n : /\ <<MtpHead, n>> \notin X /\ <<MtpHead, n>> \notin DOMAIN layer0
              /\ <<MtpHeadLayer, n>> \notin X
    <2> TAKE n
    <2>1. PICK k, m : k = <<MtpHead, n>> /\ m = <<MtpHeadLayer, n>>
        OBVIOUS
    <2>2. k[1] = MtpHead /\ m[1] = MtpHeadLayer
        BY <2>1
    <2>3. k \notin X /\ m \notin X
        BY <1>12, <2>2, OwnersDiffer
    <2>4. k \notin DOMAIN layer0
        <3>1. k \in DOMAIN layer0 => k[1] = MtpHeadLayer
            BY <1>9, OwnedKeys, Zenon
        <3> QED BY <2>2, <3>1, OwnersDiffer
    <2> QED BY <2>1, <2>3, <2>4, Zenon
<1>15. Part(R, e, MtpHead, HeadNames, HeadBefore, Z, T)
    <2>1. \A n \in HeadNames : <<MtpHead, n>> \in DOMAIN e <=> n \in HeadBefore
        BY <1>7, <1>10, <1>11, <1>14 DEF Part
    <2>2. \A n \in HeadBefore : <<MtpHead, n>> \in DOMAIN turned
            /\ IsTensor(R, turned[<<MtpHead, n>>], MtpHead, n, Z, T)
        BY <1>7, Zenon DEF Part
    <2>3. \A n \in HeadBefore : e[<<MtpHead, n>>] = turned[<<MtpHead, n>>]
        BY <1>10, <1>11, <1>14, <2>2
    <2>4. HeadBefore \subseteq HeadNames
        BY DEF HeadNames
    <2> QED BY <2>1, <2>2, <2>3, <2>4, Zenon DEF Part
<1>16. \A n : <<MtpHeadLayer, n>> \notin DOMAIN turned
    <2> TAKE n
    <2>1. PICK k : k = <<MtpHeadLayer, n>>
        OBVIOUS
    <2>2. k[1] = MtpHeadLayer /\ k \notin DOMAIN d
        BY <1>4, <2>1
    <2>3. k \notin Owned(Mtp, MtpNames) \cup Owned(MtpHead, HeadNames)
        <3>1. \A m \in Owned(Mtp, MtpNames) : m[1] = Mtp
            BY OwnedKeys, Zenon
        <3>2. \A m \in Owned(MtpHead, HeadNames) : m[1] = MtpHead
            BY OwnedKeys, Zenon
        <3> QED BY <2>2, <3>1, <3>2, OwnersDiffer
    <2>4. k \notin DOMAIN top
        BY <1>6, <2>2, <2>3, Zenon DEF Same
    <2> QED BY <1>8, <2>1, <2>4
<1>17. /\ Part(R, e, MtpHeadLayer, LayerNames, N, Z, Z)
       /\ SameRows(d, MtpLayer, e, MtpHeadLayer, N \ ShiftedNames)
    <2>1. \A n \in LayerNames : <<MtpHeadLayer, n>> \in DOMAIN e <=> n \in N
        BY <1>9, <1>10, <1>11, <1>14, <1>16
    <2>2. \A n \in N : n \in LayerNames /\ IsTensor(R, d[<<MtpLayer, n>>], MtpLayer, n, Z, Z)
        BY <1>2, Zenon DEF Part
    <2>3. \A n \in N : e[<<MtpHeadLayer, n>>] = Clone(d[<<MtpLayer, n>>], <<MtpHeadLayer, n>>)
        BY <1>9, <1>10, <1>11, <1>14, <2>2
    <2>4. ASSUME NEW n \in N
          PROVE  /\ IsTensor(R, e[<<MtpHeadLayer, n>>], MtpHeadLayer, n, Z, Z)
                 /\ e[<<MtpHeadLayer, n>>].rows = d[<<MtpLayer, n>>].rows
        <3>1. IsTensor(R, Clone(d[<<MtpLayer, n>>], <<MtpHeadLayer, n>>), MtpHeadLayer, n, Z, Z)
            BY <2>2, CloneTensor, Zenon
        <3>2. Clone(d[<<MtpLayer, n>>], <<MtpHeadLayer, n>>).rows = d[<<MtpLayer, n>>].rows
            BY <2>2, CloneRows, Zenon
        <3> QED BY <2>3, <3>1, <3>2, Zenon
    <2>5. N \subseteq LayerNames
        BY <2>2
    <2> QED BY <2>1, <2>4, <2>5, Zenon DEF Part, SameRows
<1>18. Before(R, c, e, MtpHeadLayer, FALSE, {})
    <2>1. FALSE \in BOOLEAN
            /\ SameRows(d, MtpLayer, e, MtpHeadLayer, LayerBefore(FALSE) \ ShiftedNames)
        BY <1>17 DEF N
    <2>2. Lens(c, e, MtpHeadLayer, FALSE)
        BY ONLY <1>2, <2>1, LensSame
    <2> QED BY <1>1, <1>17, <2>2 DEF Before, N
<1>19. /\ \A k \in DOMAIN top : k \in DOMAIN d \/ k \in MtpKeys \cup HeadKeys
       /\ eh \in HeadKeys
    <2>1. Owned(Mtp, MtpNames) \cup Owned(MtpHead, HeadNames) \subseteq MtpKeys \cup HeadKeys
        BY DEF MtpKeys, HeadKeys
    <2>2. eh \in HeadKeys
        BY DEF HeadKeys, HeadNames, HeadBefore, Owned
    <2>3. \A k \in DOMAIN top : k \in DOMAIN d \/ k \in MtpKeys \cup HeadKeys
        BY <1>6, <2>1, Zenon DEF Same
    <2> QED BY <2>2, <2>3
<1>20. \A k \in DOMAIN layer0 : k \in HeadKeys
    BY <1>9 DEF HeadKeys
<1>21. X \subseteq MtpKeys
    <2> SUFFICES ASSUME NEW k \in X PROVE k \in MtpKeys
        OBVIOUS
    <2>1. k[1] \in {Mtp, MtpLayer} /\ k \in DOMAIN top
        BY <1>12
    <2>2. k \in BackboneKeys(c) \cup MtpKeys \cup HeadKeys
        BY <1>19, <2>1
    <2> QED BY <2>1, <2>2, GroupsOfKeys
<1>22. Same(d, e, MtpKeys \cup HeadKeys)
    <2>1. ASSUME NEW k, k \notin MtpKeys \cup HeadKeys
          PROVE  /\ k \in DOMAIN d <=> k \in DOMAIN e
                 /\ k \in DOMAIN d => e[k] = d[k]
        <3>1. k \notin DOMAIN layer0 /\ k \notin X /\ k # eh
            BY <1>19, <1>20, <1>21, <2>1
        <3>2. k \notin Owned(Mtp, MtpNames) \cup Owned(MtpHead, HeadNames)
            BY <2>1 DEF MtpKeys, HeadKeys
        <3>3. (k \in DOMAIN d <=> k \in DOMAIN top) /\ (k \in DOMAIN d => top[k] = d[k])
            BY <1>6, <3>2, Zenon DEF Same
        <3>4. k \in DOMAIN top => turned[k] = top[k]
            BY <1>7, <3>1 DEF Same
        <3>5. (k \in DOMAIN e <=> k \in DOMAIN turned) /\ (k \in DOMAIN turned => e[k] = turned[k])
            BY <1>10, <1>11, <3>1
        <3> QED BY <1>8, <3>3, <3>4, <3>5
    <2> QED BY <2>1, Zenon DEF Same
<1>23. DOMAIN e \subseteq BackboneKeys(c) \cup HeadKeys
    <2> SUFFICES ASSUME NEW k \in DOMAIN e PROVE k \in BackboneKeys(c) \cup HeadKeys
        OBVIOUS
    <2>1. k \notin X /\ (k \in DOMAIN layer0 \/ k \in DOMAIN top)
        BY <1>8, <1>10, <1>11
    <2>2. CASE k \in DOMAIN layer0
        BY <1>20, <2>2
    <2>3. CASE k \in DOMAIN top
        <3>1. k[1] \notin {Mtp, MtpLayer}
            BY <1>13, <2>1, <2>3
        <3>2. k \in BackboneKeys(c) \cup MtpKeys \cup HeadKeys
            BY <1>19, <2>3
        <3> QED BY <3>1, <3>2, GroupsOfKeys
    <2> QED BY <2>1, <2>2, <2>3
<1> QED BY <1>1, <1>15, <1>18, <1>22, <1>23 DEF R, T

\* MtpNorms names the norms of the head.
LEMMA MtpNormKeys ==
    /\ \A n \in HeadBefore : n \in ShiftedNames <=> <<MtpHead, n>> \in MtpNorms
    /\ \A n \in LayerBefore(FALSE) : n \in ShiftedNames <=> <<MtpHeadLayer, n>> \in MtpNorms
    /\ MtpNorms \subseteq HeadKeys
<1> DEFINE A == {"embed_norm", "hidden_norm", "final_norm"}
           B == {"input_layernorm", "post_attention_layernorm", "q_norm", "k_norm"}
<1>1. MtpNorms = Owned(MtpHead, A) \cup Owned(MtpHeadLayer, B)
    BY Zenon DEF MtpNorms, Owned
<1>2. \A n : /\ <<MtpHead, n>> \in MtpNorms <=> n \in A
             /\ <<MtpHeadLayer, n>> \in MtpNorms <=> n \in B
    <2> HIDE DEF A, B
    <2> QED BY <1>1, OwnedKeys, OwnersDiffer
<1>3. \A n \in HeadBefore : n \in ShiftedNames <=> n \in A
    BY DEF HeadBefore, ShiftedNames, ScaledNorms
<1>4. \A n \in LayerBefore(FALSE) : n \in ShiftedNames <=> n \in B
    BY DEF LayerBefore, AttentionBefore, MlpRows, LayerNorms, ShiftedNames, ScaledNorms
<1>5. A \subseteq HeadNames /\ B \subseteq LayerNames
    BY DEF HeadNames, HeadBefore, LayerNames, MixerNames, LayerNorms
<1>6. MtpNorms \subseteq HeadKeys
    <2> HIDE DEF A, B
    <2> QED BY <1>1, <1>5 DEF HeadKeys, Owned
<1> QED BY <1>2, <1>3, <1>4, <1>6

\* convert_mtp: renamed, shifted, converted as an attention layer, its LM head
\* copied from the model's.
LEMMA MtpTurn ==
    ASSUME NEW c \in Configs, NEW d, NEW l, Backbone(c, d, l, ContractionFirst(c)), MtpBefore(c, d),
           DOMAIN d \subseteq BackboneKeys(c) \cup MtpKeys, ~AttentionRaises(c),
           NEW e, e = ConvertedMtp(d, c)
    PROVE  /\ Backbone(c, e, l, ContractionFirst(c)) /\ MtpAfter(c, e)
           /\ DOMAIN e \subseteq BackboneKeys(c) \cup HeadKeys
<1> DEFINE R == Row(c)
           P == ShiftedNames
           T == ContractionFirst(c)
           K == MtpKeys \cup HeadKeys
           h == <<MtpHead, "mtp_lm_head">>
           t == <<Top, "lm_head">>
<1>1. PICK Z : Z = {}
    OBVIOUS
<1>2. PICK d1, d2, m, d3 : /\ d1 = RenamedMtp(d) /\ d2 = Shifted(d1, MtpNorms)
                           /\ m = ConvertAttention(d2, MtpHeadLayer, c)
                           /\ d3 = ConvertMoe(m, MtpHeadLayer, c)
    OBVIOUS
<1>3. e = Put(d3, h, Clone(d3[t], h))
    BY <1>2, Zenon DEF ConvertedMtp, TiedHead
<1>4. /\ Part(R, d1, MtpHead, HeadNames, HeadBefore, Z, T)
      /\ Before(R, c, d1, MtpHeadLayer, FALSE, {})
      /\ Same(d, d1, K)
      /\ DOMAIN d1 \subseteq BackboneKeys(c) \cup HeadKeys
    BY <1>1, <1>2, MtpRenamed
<1>5. Part(R, d2, MtpHead, HeadNames, HeadBefore, P, T)
    <2>1. /\ \A n \in HeadBefore : n \notin Z
          /\ \A n \in HeadBefore : n \in P <=> <<MtpHead, n>> \in MtpNorms
        BY <1>1, MtpNormKeys
    <2> HIDE DEF P, T
    <2>2. Part(R, Shifted(d1, MtpNorms), MtpHead, HeadNames, HeadBefore, P, T)
        BY ONLY <1>4, <2>1, ShiftPart
    <2> QED BY <1>2, <2>2
<1>6. Before(R, c, d2, MtpHeadLayer, FALSE, ShiftedNames)
    <2>1. FALSE \in BOOLEAN
            /\ \A n \in LayerBefore(FALSE) : n \in ShiftedNames <=> <<MtpHeadLayer, n>> \in MtpNorms
        BY MtpNormKeys
    <2>2. Before(R, c, Shifted(d1, MtpNorms), MtpHeadLayer, FALSE, ShiftedNames)
        BY <1>4, <2>1, ShiftLayer
    <2> QED BY <1>2, <2>2
<1>7. Same(d1, d2, HeadKeys)
    <2>1. Same(d1, Shifted(d1, MtpNorms), MtpNorms)
        BY ShiftKeys
    <2> QED BY <1>2, <2>1, MtpNormKeys, SameWeaker
<1>8. After(R, c, d3, MtpHeadLayer, FALSE) /\ Same(d2, d3, Owned(MtpHeadLayer, LayerNames))
    <2>1. FALSE \in BOOLEAN /\ m = IF FALSE THEN ConvertDeltaNet(d2, MtpHeadLayer, c)
                                            ELSE ConvertAttention(d2, MtpHeadLayer, c)
        BY <1>2
    <2>2. <<<<MtpHeadLayer, "rank_util">>, 0>> \in R
        BY DEF Row
    <2>3. IF FALSE THEN ~DeltaNetRaises(c) ELSE ~AttentionRaises(c)
        OBVIOUS
    <2> HIDE DEF R
    <2>4. /\ After(R, c, ConvertMoe(m, MtpHeadLayer, c), MtpHeadLayer, FALSE)
          /\ Same(d2, ConvertMoe(m, MtpHeadLayer, c), Owned(MtpHeadLayer, LayerNames))
        BY <1>6, <2>1, <2>2, <2>3, LayerConverted
    <2> QED BY <1>2, <2>4
<1>9. Part(R, d3, MtpHead, HeadNames, HeadBefore, P, T)
    <2>1. \A k \in Owned(MtpHeadLayer, LayerNames) : k[1] # MtpHead
        BY OwnedKeys, OwnersDiffer
    <2> HIDE DEF P, T, R
    <2> QED BY <1>5, <1>8, <2>1, OtherPart
<1>10. Same(d2, d3, HeadKeys)
    <2>1. Owned(MtpHeadLayer, LayerNames) \subseteq HeadKeys
        BY DEF HeadKeys
    <2> QED BY <1>8, <2>1, SameWeaker
<1>11. Same(d, d3, K)
    <2>1. HeadKeys \subseteq K
        OBVIOUS
    <2> HIDE DEF K
    <2>2. Same(d1, d2, K) /\ Same(d2, d3, K)
        BY <1>7, <1>10, <2>1, SameWeaker
    <2>3. Same(d, d2, K)
        BY <1>4, <2>2, SameTwice
    <2> QED BY <2>2, <2>3, SameTwice
<1>12. \A k \in K : k[1] # Top /\ \A q \in Layers(c) : k[1] # Layer(q)
    BY GroupsOfKeys
<1>13. Backbone(c, d3, l, T)
    <2> HIDE DEF K, T
    <2>1. Backbone(c, d, l, T)
        BY DEF T
    <2> QED BY <1>11, <1>12, <2>1, OtherBackbone
<1>14. IsTensor(R, Clone(d3[t], h), MtpHead, "mtp_lm_head", P, T)
    <2>1. /\ "lm_head" \in TopNames
          /\ "lm_head" \in P <=> "mtp_lm_head" \in P
          /\ "lm_head" \in T <=> "mtp_lm_head" \in T
        BY DEF TopNames, ShiftedNames, ScaledNorms, ContractionFirst
    <2>2. Part(R, d3, Top, TopNames, TopNames, P, T)
        BY <1>13 DEF Backbone
    <2> HIDE DEF P, T
    <2>3. IsTensor(R, d3[t], Top, "lm_head", P, T)
        BY <2>1, <2>2, Zenon DEF Part
    <2> QED BY <2>1, <2>3, CloneTensor, Zenon
<1>15. Part(R, e, MtpHead, HeadNames, HeadNames, P, T) /\ Same(d3, e, {h})
    <2>1. "mtp_lm_head" \in HeadNames /\ HeadBefore \cup {"mtp_lm_head"} = HeadNames
        BY DEF HeadNames
    <2>2. PICK x : x = Clone(d3[t], h)
        OBVIOUS
    <2>3. IsTensor(R, x, MtpHead, "mtp_lm_head", P, T)
        BY <1>14, <2>2
    <2> HIDE DEF P, T, R
    <2>4. /\ Part(R, Put(d3, h, x), MtpHead, HeadNames, HeadBefore \cup {"mtp_lm_head"}, P, T)
          /\ Same(d3, Put(d3, h, x), {h})
        BY ONLY <1>9, <2>1, <2>3, PutPlain
    <2> QED BY <1>3, <2>1, <2>2, <2>4
<1>16. PICK H : H = {h}
    OBVIOUS
<1>17. Same(d3, e, H) /\ H \subseteq HeadKeys /\ \A k \in H : k[1] = MtpHead
    <2>1. h \in HeadKeys
        BY DEF HeadKeys, HeadNames, Owned
    <2> QED BY <1>15, <1>16, <2>1, KeysOfOwner
<1>18. MtpAfter(c, e)
    <2>1. \A k \in H : k[1] # MtpHeadLayer
        BY <1>17, OwnersDiffer
    <2>2. After(R, c, e, MtpHeadLayer, FALSE)
        BY <1>8, <1>17, <2>1, OtherAfter
    <2> QED BY <1>15, <2>2 DEF MtpAfter
<1>19. Backbone(c, e, l, T)
    <2>1. \A k \in H : k[1] # Top /\ \A q \in Layers(c) : k[1] # Layer(q)
        BY <1>17, GroupsOfKeys
    <2> HIDE DEF T
    <2> QED BY <1>13, <1>17, <2>1, OtherBackbone
<1>20. DOMAIN e \subseteq BackboneKeys(c) \cup HeadKeys
    <2> DEFINE S == BackboneKeys(c) \cup HeadKeys
    <2>1. HeadKeys \subseteq S /\ Owned(MtpHeadLayer, LayerNames) \subseteq S /\ H \subseteq S
        BY <1>17 DEF HeadKeys
    <2>2. DOMAIN d1 \subseteq S
        BY <1>4
    <2> HIDE DEF S
    <2>3. DOMAIN d2 \subseteq S
        BY <1>7, <2>1, <2>2, WithinSame
    <2>4. DOMAIN d3 \subseteq S
        BY <1>8, <2>1, <2>3, WithinSame
    <2>5. DOMAIN e \subseteq S
        BY <1>17, <2>1, <2>4, WithinSame
    <2> QED BY <2>5 DEF S
<1> QED BY <1>18, <1>19, <1>20

(***************************************************************************)
(* The tensors of every part of the dictionary, on the way and at the end.  *)
(***************************************************************************)
\* Whatever the backbone's progress, its tensors are tensors.
LEMMA BackboneTyped ==
    ASSUME NEW c \in Configs, NEW d, NEW l \in Nat, NEW T, Backbone(c, d, l, T),
           NEW k \in DOMAIN d, k \in BackboneKeys(c)
    PROVE  TypedAt(c, d, k)
<1>1. CASE k \in Owned(Top, TopNames)
    <2>1. Part(Row(c), d, Top, TopNames, TopNames, ShiftedNames, T)
        BY DEF Backbone
    <2> QED BY <1>1, <2>1, PartTyped
<1>2. CASE k \in UNION {Owned(Layer(m), LayerNames) : m \in Layers(c)}
    <2>1. PICK m \in Layers(c) : k \in Owned(Layer(m), LayerNames)
        BY <1>2
    <2>2. m \in Nat
        BY LayersAreNat
    <2>3. CASE m < l
        <3>1. After(Row(c), c, d, Layer(m), Linear(c, m))
            BY <2>3 DEF Backbone
        <3>2. PICK N, P, Z : Part(Row(c), d, Layer(m), LayerNames, N, P, Z)
            BY <3>1 DEF After
        <3> QED BY <2>1, <3>2, PartTyped
    <2>4. CASE m >= l
        <3>1. Before(Row(c), c, d, Layer(m), Linear(c, m), ShiftedNames)
            BY <2>4 DEF Backbone
        <3>2. PICK N, P, Z : Part(Row(c), d, Layer(m), LayerNames, N, P, Z)
            BY <3>1 DEF Before
        <3> QED BY <2>1, <3>2, PartTyped
    <2> QED BY <2>2, <2>3, <2>4
<1> QED BY <1>1, <1>2 DEF BackboneKeys

\* So are those of the MTP part, ...
LEMMA MtpTyped ==
    ASSUME NEW c, NEW d, MtpBefore(c, d), NEW k \in DOMAIN d, k \in MtpKeys
    PROVE  TypedAt(c, d, k)
<1>1. CASE k \in Owned(Mtp, MtpNames)
    <2>1. PICK N, P, Z : Part(Row(c), d, Mtp, MtpNames, N, P, Z)
        BY DEF MtpBefore
    <2> QED BY <1>1, <2>1, PartTyped
<1>2. CASE k \in Owned(MtpLayer, LayerNames)
    <2>1. PICK N, P, Z : Part(Row(c), d, MtpLayer, LayerNames, N, P, Z)
        BY DEF MtpBefore, Before
    <2> QED BY <1>2, <2>1, PartTyped
<1> QED BY <1>1, <1>2 DEF MtpKeys

\* ... and those of the draft's head.
LEMMA HeadTyped ==
    ASSUME NEW c, NEW d, MtpAfter(c, d), NEW k \in DOMAIN d, k \in HeadKeys
    PROVE  TypedAt(c, d, k)
<1>1. CASE k \in Owned(MtpHead, HeadNames)
    <2>1. PICK N, P, Z : Part(Row(c), d, MtpHead, HeadNames, N, P, Z)
        BY DEF MtpAfter
    <2> QED BY <1>1, <2>1, PartTyped
<1>2. CASE k \in Owned(MtpHeadLayer, LayerNames)
    <2>1. PICK N, P, Z : Part(Row(c), d, MtpHeadLayer, LayerNames, N, P, Z)
        BY DEF MtpAfter, After
    <2> QED BY <1>2, <2>1, PartTyped
<1> QED BY <1>1, <1>2 DEF HeadKeys

\* A tensor as its reader takes it.
FinalAt(c, d, k) ==
    \E o, n : k = <<o, n>> /\ IsTensor(Row(c), d[k], o, n, ScaledNorms, ContractionFirst(c))

\* The end: the declared parameters, each as its reader takes it.
Final(c, d) == DOMAIN d = Declared(c) /\ \A k \in DOMAIN d : FinalAt(c, d, k)

\* A converted part has its names, each as its reader takes it.
LEMMA PartFinal ==
    ASSUME NEW c, NEW d, NEW o, NEW U, NEW N,
           Part(Row(c), d, o, U, N, ShiftedNames, ContractionFirst(c)),
           "q_norm" \notin N, "k_norm" \notin N, NEW k \in Owned(o, U)
    PROVE  /\ k \in DOMAIN d <=> k \in Owned(o, N)
           /\ k \in DOMAIN d => FinalAt(c, d, k)
<1> DEFINE P == ShiftedNames
           T == ContractionFirst(c)
<1>1. PICK n \in U : k = <<o, n>>
    BY DEF Owned
<1>2. Part(Row(c), d, o, U, N, P, T)
    OBVIOUS
<1>3. ASSUME n \in N PROVE (n \in P <=> n \in ScaledNorms) /\ (n \in T <=> n \in T)
    BY <1>3 DEF ShiftedNames
<1> HIDE DEF P, T
<1>4. k \in DOMAIN d <=> n \in N
    BY <1>1, <1>2, Zenon DEF Part
<1>5. n \in N <=> k \in Owned(o, N)
    BY <1>1, OwnedKeys, Zenon
<1>6. ASSUME n \in N PROVE FinalAt(c, d, k)
    <2>1. IsTensor(Row(c), d[k], o, n, P, T)
        BY <1>1, <1>2, <1>6, Zenon DEF Part
    <2>2. IsTensor(Row(c), d[k], o, n, ScaledNorms, T)
        BY <1>3, <1>6, <2>1, Remarked, Zenon
    <2> QED BY <1>1, <2>2, Zenon DEF FinalAt, T
<1> QED BY <1>4, <1>5, <1>6, Zenon

\* No declared name is one the norms had before.
LEMMA NoOldNames ==
    ASSUME NEW c, NEW linear \in BOOLEAN
    PROVE  /\ \A n \in {"q_norm", "k_norm"} : n \notin LayerParams(c, linear)
           /\ \A n \in {"q_norm", "k_norm"} : n \notin TopNames /\ n \notin HeadNames
<1>1. \A n \in {"q_norm", "k_norm"} :
        n \notin MlpParams(c) /\ n \notin DeltaNetParams /\ n \notin AttentionParams(c)
    BY DEF MlpParams, DeltaNetParams, AttentionParams
<1>2. \A n \in {"q_norm", "k_norm"} : n \notin {"input_layernorm", "post_attention_layernorm"}
    OBVIOUS
<1>3. \A n \in {"q_norm", "k_norm"} : n \notin TopNames /\ n \notin HeadNames
    BY DEF TopNames, HeadNames, HeadBefore
<1>4. \A n \in {"q_norm", "k_norm"} : n \notin LayerParams(c, linear)
    BY <1>1, <1>2 DEF LayerParams
<1> QED BY <1>3, <1>4

\* The backbone's declared parameters.
BackboneParams(c) ==
    Owned(Top, {"embed_tokens", "norm", "lm_head", "rank_util"})
    \cup (UNION {Owned(Layer(l), LayerParams(c, Linear(c, l))) : l \in Layers(c)})

\* Every layer converted and the head turned.
LEMMA BackboneFinal ==
    ASSUME NEW c \in Configs, NEW d, NEW l \in Nat, \A m \in Layers(c) : m < l,
           Backbone(c, d, l, ContractionFirst(c)), NEW k \in BackboneKeys(c)
    PROVE  /\ k \in DOMAIN d <=> k \in BackboneParams(c)
           /\ k \in DOMAIN d => FinalAt(c, d, k)
<1> DEFINE Turned == UNION {Owned(Layer(m), LayerParams(c, Linear(c, m))) : m \in Layers(c)}
<1>0. /\ BackboneParams(c) = Owned(Top, TopNames) \cup Turned
      /\ \A m \in Layers(c) : Owned(Layer(m), LayerParams(c, Linear(c, m))) \subseteq Turned
      /\ \A q \in Turned : \E m \in Layers(c) : q \in Owned(Layer(m), LayerParams(c, Linear(c, m)))
    <2>1. TopNames = {"embed_tokens", "norm", "lm_head", "rank_util"}
        BY DEF TopNames
    <2>2. BackboneParams(c) = Owned(Top, TopNames) \cup Turned
        BY <2>1, Zenon DEF BackboneParams
    <2> QED BY <2>2
<1> HIDE DEF Turned
<1>2. \A m \in Layers(c) : Layer(m) # Top /\ \A q \in Layers(c) : Layer(q) = Layer(m) => q = m
    BY OwnersDiffer, LayersAreNat
<1>3. CASE k \in Owned(Top, TopNames)
    <2>1. Part(Row(c), d, Top, TopNames, TopNames, ShiftedNames, ContractionFirst(c))
        BY DEF Backbone
    <2>2. "q_norm" \notin TopNames /\ "k_norm" \notin TopNames
        BY DEF TopNames
    <2>3. /\ k \in DOMAIN d <=> k \in Owned(Top, TopNames)
          /\ k \in DOMAIN d => FinalAt(c, d, k)
        BY <1>3, <2>1, <2>2, PartFinal
    <2> QED BY <1>0, <1>3, <2>3
<1>4. CASE k \in UNION {Owned(Layer(m), LayerNames) : m \in Layers(c)}
    <2>1. PICK m \in Layers(c) : k \in Owned(Layer(m), LayerNames)
        BY <1>4
    <2>2. PICK N : N = LayerParams(c, Linear(c, m))
        OBVIOUS
    <2>3. Part(Row(c), d, Layer(m), LayerNames, N, ShiftedNames, ContractionFirst(c))
        BY <2>2 DEF Backbone, After
    <2>4. "q_norm" \notin N /\ "k_norm" \notin N
        BY <2>2, LayersAreNat, NoOldNames
    <2>5. /\ k \in DOMAIN d <=> k \in Owned(Layer(m), N)
          /\ k \in DOMAIN d => FinalAt(c, d, k)
        BY <2>1, <2>3, <2>4, PartFinal
    <2>6. k[1] = Layer(m)
        BY <2>1, OwnedKeys, Zenon
    <2>7. k \in BackboneParams(c) <=> k \in Owned(Layer(m), N)
        <3>1. k \notin Owned(Top, TopNames)
            <4>1. k \in Owned(Top, TopNames) => k[1] = Top
                BY OwnedKeys, Zenon
            <4> QED BY <1>2, <2>6, <4>1, Zenon
        <3>2. ASSUME k \in Turned PROVE k \in Owned(Layer(m), N)
            <4>1. PICK q \in Layers(c) : k \in Owned(Layer(q), LayerParams(c, Linear(c, q)))
                BY <1>0, <3>2, Zenon
            <4>2. k[1] = Layer(q)
                BY <4>1, OwnedKeys, Zenon
            <4>3. q = m
                BY <1>2, <2>6, <4>2, Zenon
            <4> QED BY <2>2, <4>1, <4>3, Zenon
        <3> QED BY <1>0, <2>2, <3>1, <3>2
    <2> QED BY <2>5, <2>7
<1> QED BY <1>3, <1>4 DEF BackboneKeys

\* The head converted.
LEMMA HeadFinal ==
    ASSUME NEW c \in Configs, NEW d, MtpAfter(c, d), NEW k \in HeadKeys
    PROVE  /\ k \in DOMAIN d <=> k \in MtpParams(c)
           /\ k \in DOMAIN d => FinalAt(c, d, k)
<1> DEFINE L == LayerParams(c, FALSE)
<1>0. MtpParams(c) = Owned(MtpHead, HeadNames) \cup Owned(MtpHeadLayer, L)
    <2>1. HeadNames = {"embed_norm", "hidden_norm", "eh_proj", "final_norm", "mtp_lm_head"}
        BY DEF HeadNames, HeadBefore
    <2> QED BY <2>1, Zenon DEF MtpParams
<1>1. "q_norm" \notin L /\ "k_norm" \notin L /\ "q_norm" \notin HeadNames
        /\ "k_norm" \notin HeadNames
    <2>1. FALSE \in BOOLEAN
        OBVIOUS
    <2> HIDE DEF L
    <2> QED BY <2>1, NoOldNames DEF L
<1> HIDE DEF L
<1>2. MtpHead # MtpHeadLayer
    BY OwnersDiffer
<1>3. CASE k \in Owned(MtpHead, HeadNames)
    <2>1. Part(Row(c), d, MtpHead, HeadNames, HeadNames, ShiftedNames, ContractionFirst(c))
        BY DEF MtpAfter
    <2>2. /\ k \in DOMAIN d <=> k \in Owned(MtpHead, HeadNames)
          /\ k \in DOMAIN d => FinalAt(c, d, k)
        BY <1>1, <1>3, <2>1, PartFinal
    <2> QED BY <1>0, <1>3, <2>2
<1>4. CASE k \in Owned(MtpHeadLayer, LayerNames)
    <2>1. Part(Row(c), d, MtpHeadLayer, LayerNames, L, ShiftedNames, ContractionFirst(c))
        BY DEF MtpAfter, After, L
    <2>2. /\ k \in DOMAIN d <=> k \in Owned(MtpHeadLayer, L)
          /\ k \in DOMAIN d => FinalAt(c, d, k)
        BY <1>1, <1>4, <2>1, PartFinal
    <2>3. k \notin Owned(MtpHead, HeadNames)
        <3>1. k \in Owned(MtpHead, HeadNames) => k[1] = MtpHead
            BY OwnedKeys, Zenon
        <3>2. k[1] = MtpHeadLayer
            BY <1>4, OwnedKeys, Zenon
        <3> QED BY <1>2, <3>1, <3>2, Zenon
    <2> QED BY <1>0, <2>2, <2>3
<1> QED BY <1>3, <1>4 DEF HeadKeys

\* The declared parameters are among the keys of the parts.
LEMMA DeclaredKeys ==
    ASSUME NEW c \in Configs
    PROVE  /\ BackboneParams(c) \subseteq BackboneKeys(c)
           /\ MtpParams(c) \subseteq HeadKeys
           /\ ModelParams(c) = BackboneParams(c) \cup IF c.mtp THEN MtpParams(c) ELSE {}
<1>1. MlpParams(c) \subseteq MlpNames /\ DeltaNetParams \subseteq MixerNames
        /\ AttentionParams(c) \subseteq MixerNames
    BY DEF MlpParams, MlpNames, MixerNames, AttentionParams
<1>2. \A linear \in BOOLEAN : LayerParams(c, linear) \subseteq LayerNames
    <2> TAKE linear \in BOOLEAN
    <2>1. LayerNorms \subseteq MixerNames
        BY DEF MixerNames
    <2>2. LayerParams(c, linear) = ((IF linear THEN DeltaNetParams ELSE AttentionParams(c))
                                      \cup LayerNorms) \cup MlpParams(c)
        BY LayerSplit
    <2> QED BY <1>1, <2>1, <2>2 DEF LayerNames
<1>3. TopNames = {"embed_tokens", "norm", "lm_head", "rank_util"}
    BY DEF TopNames
<1>4. \A m \in Layers(c) :
        Owned(Layer(m), LayerParams(c, Linear(c, m))) \subseteq Owned(Layer(m), LayerNames)
    BY <1>2, LayersAreNat DEF Owned
<1>5. BackboneParams(c) \subseteq BackboneKeys(c)
    BY <1>3, <1>4 DEF BackboneParams, BackboneKeys
<1>6. MtpParams(c) \subseteq HeadKeys
    <2>1. HeadNames = {"embed_norm", "hidden_norm", "eh_proj", "final_norm", "mtp_lm_head"}
        BY DEF HeadNames, HeadBefore
    <2>2. Owned(MtpHeadLayer, LayerParams(c, FALSE)) \subseteq Owned(MtpHeadLayer, LayerNames)
        BY <1>2 DEF Owned
    <2> QED BY <2>1, <2>2 DEF MtpParams, HeadKeys
<1>7. ModelParams(c) = BackboneParams(c) \cup IF c.mtp THEN MtpParams(c) ELSE {}
    BY Zenon DEF ModelParams, BackboneParams
<1> QED BY <1>5, <1>6, <1>7

\* Without the draft's head, the MTP part is dropped.
LEMMA MtpDropped ==
    ASSUME NEW c \in Configs, NEW d, NEW l \in Nat, \A m \in Layers(c) : m < l,
           Backbone(c, d, l, ContractionFirst(c)), DOMAIN d \subseteq BackboneKeys(c) \cup MtpKeys,
           ~c.mtp, NEW e, e = Drop(d, {k \in DOMAIN d : k[1] \in {Mtp, MtpLayer}})
    PROVE  Final(c, e)
<1> DEFINE K == {k \in DOMAIN d : k[1] \in {Mtp, MtpLayer}}
           T == ContractionFirst(c)
<1>1. DOMAIN e = DOMAIN d \ K /\ Same(d, e, K)
    <2>1. e = Drop(d, K)
        OBVIOUS
    <2> HIDE DEF K
    <2>2. DOMAIN Drop(d, K) = DOMAIN d \ K /\ Same(d, Drop(d, K), K)
        BY DropKeys, Zenon
    <2> QED BY <2>1, <2>2
<1>2. /\ \A k \in K : k[1] # Top /\ \A m \in Layers(c) : k[1] # Layer(m)
      /\ DOMAIN e \subseteq BackboneKeys(c)
    <2>1. \A k \in DOMAIN d : k \in K <=> k \in MtpKeys
        <3> TAKE k \in DOMAIN d
        <3>1. k \in BackboneKeys(c) => k[1] # Mtp /\ k[1] # MtpLayer
            BY GroupsOfKeys
        <3>2. k \in MtpKeys => k[1] \in {Mtp, MtpLayer}
            BY GroupsOfKeys
        <3> QED BY <3>1, <3>2
    <2>2. \A k \in MtpKeys : k[1] # Top /\ \A m \in Layers(c) : k[1] # Layer(m)
        BY GroupsOfKeys
    <2>3. K \subseteq DOMAIN d
        OBVIOUS
    <2> HIDE DEF K
    <2> QED BY <1>1, <2>1, <2>2, <2>3
<1> HIDE DEF K
<1>3. Backbone(c, e, l, T)
    <2>1. Backbone(c, d, l, T)
        OBVIOUS
    <2> HIDE DEF T
    <2> QED BY <1>1, <1>2, <2>1, OtherBackbone
<1>4. \A k \in BackboneKeys(c) : /\ k \in DOMAIN e <=> k \in BackboneParams(c)
                                 /\ k \in DOMAIN e => FinalAt(c, e, k)
    BY <1>3, BackboneFinal
<1>5. Declared(c) = BackboneParams(c)
    <2>1. ~c.draft
        BY ConfigsAssumption
    <2> QED BY <2>1, DeclaredKeys DEF Declared
<1>6. BackboneParams(c) \subseteq BackboneKeys(c)
    BY DeclaredKeys
<1> QED BY <1>2, <1>4, <1>5, <1>6 DEF Final

\* With it, the model has the parameters of both.
LEMMA MtpConverted ==
    ASSUME NEW c \in Configs, NEW d, NEW l \in Nat, \A m \in Layers(c) : m < l,
           Backbone(c, d, l, ContractionFirst(c)), MtpAfter(c, d),
           DOMAIN d \subseteq BackboneKeys(c) \cup HeadKeys, c.mtp, ~c.draft
    PROVE  Final(c, d)
<1>1. \A k \in BackboneKeys(c) : /\ k \in DOMAIN d <=> k \in BackboneParams(c)
                                 /\ k \in DOMAIN d => FinalAt(c, d, k)
    BY BackboneFinal
<1>2. \A k \in HeadKeys : /\ k \in DOMAIN d <=> k \in MtpParams(c)
                          /\ k \in DOMAIN d => FinalAt(c, d, k)
    BY HeadFinal
<1>3. Declared(c) = BackboneParams(c) \cup MtpParams(c)
    BY DeclaredKeys DEF Declared
<1>4. BackboneParams(c) \subseteq BackboneKeys(c) /\ MtpParams(c) \subseteq HeadKeys
    BY DeclaredKeys
<1> QED BY <1>1, <1>2, <1>3, <1>4 DEF Final

\* The draft holder keeps the head, the embedding and the model's rank_util.
LEMMA DraftKept ==
    ASSUME NEW c \in Configs, NEW d, NEW l \in Nat, \A m \in Layers(c) : m < l,
           Backbone(c, d, l, ContractionFirst(c)), MtpAfter(c, d),
           DOMAIN d \subseteq BackboneKeys(c) \cup HeadKeys, c.draft, NEW e,
           e = Restrict(d, {k \in DOMAIN d :
                 \/ k[1] \in {MtpHead, MtpHeadLayer}
                 \/ k \in {<<Top, "embed_tokens">>, <<Top, "rank_util">>}})
    PROVE  Final(c, e)
<1> DEFINE two == {<<Top, "embed_tokens">>, <<Top, "rank_util">>}
           K == {k \in DOMAIN d : k[1] \in {MtpHead, MtpHeadLayer} \/ k \in two}
<1>1. DOMAIN e = K /\ \A k \in K : e[k] = d[k]
    BY DEF Restrict
<1>2. /\ two \subseteq BackboneParams(c)
      /\ two = Owned(Top, {"embed_tokens", "rank_util"})
    BY DEF BackboneParams, Owned
<1> HIDE DEF two
<1>3. \A k \in DOMAIN d : k \in K <=> k \in HeadKeys \/ k \in two
    <2> TAKE k \in DOMAIN d
    <2>1. k \in BackboneKeys(c) => k[1] # MtpHead /\ k[1] # MtpHeadLayer
        BY GroupsOfKeys
    <2>2. k \in HeadKeys => k[1] \in {MtpHead, MtpHeadLayer}
        BY GroupsOfKeys
    <2> QED BY <2>1, <2>2
<1>4. K \subseteq DOMAIN d
    OBVIOUS
<1> HIDE DEF K
<1>5. \A k \in BackboneKeys(c) : /\ k \in DOMAIN d <=> k \in BackboneParams(c)
                                 /\ k \in DOMAIN d => FinalAt(c, d, k)
    BY BackboneFinal
<1>6. \A k \in HeadKeys : /\ k \in DOMAIN d <=> k \in MtpParams(c)
                          /\ k \in DOMAIN d => FinalAt(c, d, k)
    BY HeadFinal
<1>7. Declared(c) = two \cup MtpParams(c)
    BY <1>2 DEF Declared, DraftParams
<1>8. BackboneParams(c) \subseteq BackboneKeys(c) /\ MtpParams(c) \subseteq HeadKeys
    BY DeclaredKeys
<1>9. DOMAIN e = Declared(c)
    BY <1>1, <1>2, <1>3, <1>4, <1>5, <1>6, <1>7, <1>8
<1>10. \A k \in DOMAIN e : FinalAt(c, e, k)
    <2> TAKE k \in DOMAIN e
    <2>1. k \in DOMAIN d /\ e[k] = d[k]
        BY <1>1, <1>4
    <2>2. FinalAt(c, d, k)
        BY <2>1, <1>5, <1>6
    <2> QED BY <2>1, <2>2 DEF FinalAt
<1> QED BY <1>9, <1>10 DEF Final

\* What the type invariant asks of a tensor.
TensorOK(c, t) ==
    /\ t.plus \in {0, 1} /\ t.trans \in BOOLEAN /\ t.rows # <<>>
    /\ \A i \in DOMAIN t.rows :
        LET row == t.rows[i]
        IN  row[1][2] = "rank_util" \/ row[2] < OwnerRows(c)[row[1][1]][row[1][2]]

\* A tensor is one.
LEMMA TensorIsOK ==
    ASSUME NEW c \in Configs, NEW d, NEW k, TypedAt(c, d, k)
    PROVE  TensorOK(c, d[k])
<1>1. PICK o, n, P, T : IsTensor(Row(c), d[k], o, n, P, T)
    BY DEF TypedAt
<1>2. PICK rows, plus, trans, store :
        /\ rows \in Seq(Row(c)) /\ plus \in {0, 1} /\ trans \in BOOLEAN
        /\ Len(rows) >= 1 /\ d[k] = Record(rows, plus, trans, store)
    <2>1. (IF n \in P THEN 1 ELSE 0) \in {0, 1} /\ (IF n \in T THEN TRUE ELSE FALSE) \in BOOLEAN
        BY Zenon
    <2> QED BY <1>1, <2>1, Zenon DEF IsTensor
<1>3. PICK t : t = d[k]
    OBVIOUS
<1>4. t.rows = rows /\ t.plus = plus /\ t.trans = trans
    BY <1>2, <1>3 DEF Record
<1>5. rows # <<>> /\ \A i \in DOMAIN rows : rows[i] \in Row(c)
    BY <1>2
<1>6. \A i \in DOMAIN t.rows :
        LET row == t.rows[i]
        IN  row[1][2] = "rank_util" \/ row[2] < OwnerRows(c)[row[1][1]][row[1][2]]
    <2> TAKE i \in DOMAIN t.rows
    <2>1. PICK row : row = t.rows[i]
        OBVIOUS
    <2>2. row \in Row(c)
        BY <1>4, <1>5, <2>1
    <2> QED BY <2>1, <2>2, RowsAreRows, Zenon
<1>7. t.plus \in {0, 1} /\ t.trans \in BOOLEAN /\ t.rows # <<>>
    BY <1>2, <1>4, <1>5
<1> QED BY <1>3, <1>6, <1>7, Zenon DEF TensorOK

\* What a tensor as its reader takes it is.
LEMMA FinalMarks ==
    ASSUME NEW c, NEW d, NEW k, FinalAt(c, d, k)
    PROVE  /\ d[k].plus = IF k[2] \in ScaledNorms THEN 1 ELSE 0
           /\ d[k].trans = (k[2] \in ContractionFirst(c))
           /\ d[k].store = k
           /\ TypedAt(c, d, k)
<1>1. PICK o, n : k = <<o, n>> /\ IsTensor(Row(c), d[k], o, n, ScaledNorms, ContractionFirst(c))
    BY DEF FinalAt
<1>2. k[2] = n
    BY <1>1
<1>3. PICK S, T : S = ScaledNorms /\ T = ContractionFirst(c)
    OBVIOUS
<1>4. PICK rows : d[k] = Record(rows, IF n \in S THEN 1 ELSE 0, IF n \in T THEN TRUE ELSE FALSE, k)
    BY <1>1, <1>3, Zenon DEF IsTensor
<1>5. PICK plus, trans : /\ plus = IF n \in S THEN 1 ELSE 0
                         /\ trans = IF n \in T THEN TRUE ELSE FALSE
    BY Zenon
<1>6. PICK t : t = d[k] /\ t = Record(rows, plus, trans, k)
    BY <1>4, <1>5, Zenon
<1>7. t.plus = plus /\ t.trans = trans /\ t.store = k
    BY ONLY <1>6 DEF Record
<1>8. t.trans = (n \in T)
    <2>1. CASE n \in T
        <3>1. t.trans = TRUE /\ (n \in T) = TRUE
            BY <1>5, <1>7, <2>1, Zenon
        <3> QED BY <3>1, Zenon
    <2>2. CASE n \notin T
        <3>1. t.trans = FALSE
            BY <1>5, <1>7, <2>2, Zenon
        <3>2. (n \in T) <=> FALSE
            BY <2>2
        <3>3. (n \in T) = FALSE
            BY <3>2
        <3> QED BY <3>1, <3>3, Zenon
    <2> QED BY <2>1, <2>2
<1>9. TypedAt(c, d, k)
    BY <1>1, Zenon DEF TypedAt
<1> QED BY <1>2, <1>3, <1>5, <1>6, <1>7, <1>8, <1>9, Zenon

\* The checkpoint's tensors are tensors, and stripping leaves them alone.
LEMMA CheckpointTyped ==
    ASSUME NEW c \in Configs
    PROVE  Typed(c, Checkpoint(c)) /\ Typed(c, Stripped(c))
<1>1. ASSUME NEW k \in DOMAIN Checkpoint(c) PROVE TypedAt(c, Checkpoint(c), k)
    <2>1. PICK Z : Z = {}
        OBVIOUS
    <2>2. PICK o, n : o = k[1] /\ n = k[2]
        OBVIOUS
    <2>3. k = <<o, n>>
        <3>1. k = <<k[1], k[2]>>
            BY CheckpointKeys, Zenon
        <3> QED BY <2>2, <3>1, Zenon
    <2>4. <<o, n>> \in DOMAIN Checkpoint(c) /\ n \notin Z
        BY <2>1, <2>3, Zenon
    <2>5. IsTensor(Row(c), Checkpoint(c)[<<o, n>>], o, n, Z, Z)
        BY <2>4, CheckpointTensors
    <2> QED BY <2>3, <2>5, Zenon DEF TypedAt
<1>2. ASSUME NEW k \in DOMAIN Stripped(c) PROVE TypedAt(c, Stripped(c), k)
    <2> DEFINE K == {m \in DOMAIN Checkpoint(c) : m[1] = Visual}
    <2>1. /\ DOMAIN Stripped(c) = DOMAIN Checkpoint(c) \ K
          /\ \A m \in DOMAIN Checkpoint(c) \ K : Stripped(c)[m] = Checkpoint(c)[m]
        BY DropKeys, Zenon DEF Stripped
    <2> HIDE DEF K
    <2>2. k \in DOMAIN Checkpoint(c) /\ Stripped(c)[k] = Checkpoint(c)[k]
        BY <2>1
    <2> QED BY <1>1, <2>2 DEF TypedAt
<1> QED BY <1>1, <1>2 DEF Typed

(***************************************************************************)
(* The invariant, and the theorems.                                         *)
(***************************************************************************)
\* Where each part of the conversion leaves the dictionary d of c.
Stage(c, d, p, l) ==
    /\ p = "strip" => d = Checkpoint(c) /\ l = 1
    /\ p = "norms" => d = Stripped(c) /\ l = 1
    /\ p = "layers" => /\ Backbone(c, d, l, {}) /\ MtpBefore(c, d)
                       /\ DOMAIN d \subseteq BackboneKeys(c) \cup MtpKeys
    /\ p = "mtp" => /\ l \notin Layers(c)
                    /\ Backbone(c, d, l, ContractionFirst(c)) /\ MtpBefore(c, d)
                    /\ DOMAIN d \subseteq BackboneKeys(c) \cup MtpKeys
    /\ p = "filter" => /\ l \notin Layers(c) /\ c.mtp /\ c.draft
                       /\ Backbone(c, d, l, ContractionFirst(c)) /\ MtpAfter(c, d)
                       /\ DOMAIN d \subseteq BackboneKeys(c) \cup HeadKeys
    /\ p = "done" => Final(c, d)

WeightsInv ==
    /\ cfg \in Configs /\ layer \in 1 .. Len(cfg.types) + 1
    /\ pc \in {"strip", "norms", "layers", "mtp", "filter", "done", "raised"}
    /\ Typed(cfg, sd)
    /\ Stage(cfg, sd, pc, layer)

\* The invariant has all the properties.
LEMMA InvImplies ==
    ASSUME WeightsInv
    PROVE  LoadsExactly /\ NormsShiftedOnce /\ StoredAsRead /\ NoSharedStorage
<1>1. cfg \in Configs /\ \A k \in DOMAIN sd : TensorOK(cfg, sd[k])
    BY TensorIsOK DEF WeightsInv, Typed
<1>2. TypeOK
    BY <1>1, Zenon DEF TypeOK, TensorOK, WeightsInv
<1>3. ASSUME Done
      PROVE  /\ DOMAIN sd = Declared(cfg)
             /\ \A k \in DOMAIN sd : /\ sd[k].plus = IF k[2] \in ScaledNorms THEN 1 ELSE 0
                                     /\ sd[k].trans = (k[2] \in ContractionFirst(cfg))
                                     /\ sd[k].store = k
    <2>1. Final(cfg, sd)
        BY <1>3 DEF Done, WeightsInv, Stage
    <2>2. DOMAIN sd = Declared(cfg) /\ \A k \in DOMAIN sd : FinalAt(cfg, sd, k)
        BY <2>1, Zenon DEF Final
    <2>3. ASSUME NEW k \in DOMAIN sd
          PROVE  /\ sd[k].plus = IF k[2] \in ScaledNorms THEN 1 ELSE 0
                 /\ sd[k].trans = (k[2] \in ContractionFirst(cfg))
                 /\ sd[k].store = k
        <3>1. FinalAt(cfg, sd, k)
            BY <2>2, Zenon
        <3> HIDE DEF FinalAt
        <3> QED BY ONLY <3>1, FinalMarks
    <2> QED BY <2>2, <2>3, Zenon
<1>4. LoadsExactly
    BY <1>2, <1>3, Zenon DEF LoadsExactly
<1>5. NormsShiftedOnce
    BY <1>3, Zenon DEF NormsShiftedOnce
<1>6. StoredAsRead
    BY <1>3, Zenon DEF StoredAsRead
<1>7. NoSharedStorage
    BY <1>3, Zenon DEF NoSharedStorage
<1> QED BY <1>4, <1>5, <1>6, <1>7

\* Every tensor of the dictionary is one, at every stage that has keys.
LEMMA StageTyped ==
    ASSUME NEW c \in Configs, NEW d, NEW l \in Nat, NEW T, Backbone(c, d, l, T)
    PROVE  /\ MtpBefore(c, d) /\ DOMAIN d \subseteq BackboneKeys(c) \cup MtpKeys => Typed(c, d)
           /\ MtpAfter(c, d) /\ DOMAIN d \subseteq BackboneKeys(c) \cup HeadKeys => Typed(c, d)
<1>1. \A k \in DOMAIN d : k \in BackboneKeys(c) => TypedAt(c, d, k)
    BY BackboneTyped
<1>2. MtpBefore(c, d) => \A k \in DOMAIN d : k \in MtpKeys => TypedAt(c, d, k)
    BY MtpTyped
<1>3. MtpAfter(c, d) => \A k \in DOMAIN d : k \in HeadKeys => TypedAt(c, d, k)
    BY HeadTyped
<1> QED BY <1>1, <1>2, <1>3 DEF Typed

\* A finished dictionary's tensors are tensors.
LEMMA FinalTyped ==
    ASSUME NEW c, NEW d, Final(c, d)
    PROVE  Typed(c, d)
<1>1. ASSUME NEW k \in DOMAIN d PROVE TypedAt(c, d, k)
    <2>1. FinalAt(c, d, k)
        BY DEF Final
    <2> HIDE DEF FinalAt
    <2> QED BY ONLY <2>1, FinalMarks
<1> QED BY <1>1 DEF Typed

\* The checkpoint is where the conversion starts.
LEMMA WeightsInit ==
    ASSUME Init
    PROVE  WeightsInv
<1>1. cfg \in Configs /\ sd = Checkpoint(cfg) /\ pc = "strip" /\ layer = 1
    BY DEF Init
<1>2. Len(cfg.types) \in Nat
    BY <1>1, ConfigFields
<1>3. Typed(cfg, sd)
    BY <1>1, CheckpointTyped
<1>4. Stage(cfg, sd, pc, layer)
    BY <1>1 DEF Stage
<1>5. layer \in 1 .. Len(cfg.types) + 1
    BY <1>1, <1>2
<1> QED BY <1>1, <1>3, <1>4, <1>5 DEF WeightsInv

\* Every part of the conversion leaves the dictionary as its stage says.
LEMMA WeightsStep ==
    ASSUME WeightsInv, [Next]_vars
    PROVE  WeightsInv'
<1> PICK c, d, e, l, m : c = cfg /\ d = sd /\ e = sd' /\ l = layer /\ m = layer'
    OBVIOUS
<1>1. /\ c \in Configs /\ l \in 1 .. Len(c.types) + 1 /\ Typed(c, d) /\ Stage(c, d, pc, l)
      /\ pc \in {"strip", "norms", "layers", "mtp", "filter", "done", "raised"}
    BY DEF WeightsInv
<1>2. Len(c.types) \in Nat /\ Layers(c) = 1 .. Len(c.types) /\ l \in Nat
    BY <1>1, ConfigFields DEF Layers
<1>3. l \notin Layers(c) => \A q \in Layers(c) : q < l
    BY <1>1, <1>2
<1>4. ASSUME cfg' = c, m \in 1 .. Len(c.types) + 1, Typed(c, e), Stage(c, e, pc', m),
             pc' \in {"strip", "norms", "layers", "mtp", "filter", "done", "raised"}
      PROVE  WeightsInv'
    BY <1>4 DEF WeightsInv
<1>5. CASE Strip
    <2>1. pc = "strip" /\ pc' = "norms" /\ cfg' = c /\ m = l
        BY <1>5 DEF Strip
    <2>2. d = Checkpoint(c) /\ l = 1
        BY <1>1, <2>1 DEF Stage
    <2>3. e = Stripped(c)
        <3>1. e = Drop(d, {k \in DOMAIN d : k[1] = Visual})
            BY <1>5 DEF Strip
        <3> QED BY <2>2, <3>1, Zenon DEF Stripped
    <2>4. Typed(c, e) /\ Stage(c, e, pc', m)
        BY <1>1, <2>1, <2>2, <2>3, CheckpointTyped DEF Stage
    <2> QED BY <1>1, <1>4, <2>1, <2>4
<1>6. CASE ShiftNorms
    <2>1. pc = "norms" /\ pc' = "layers" /\ cfg' = c /\ m = l
        BY <1>6 DEF ShiftNorms
    <2>2. d = Stripped(c) /\ l = 1
        BY <1>1, <2>1 DEF Stage
    <2>3. e = Put(Shifted(d, NormsOf(c)), <<Top, "rank_util">>,
                  Tensor(<<Top, "rank_util">>, << <<<<Top, "rank_util">>, 0>> >>))
        BY <1>6, Zenon DEF ShiftNorms
    <2>4. /\ Backbone(c, e, 1, {}) /\ MtpBefore(c, e)
          /\ DOMAIN e \subseteq BackboneKeys(c) \cup MtpKeys
        BY <1>1, <2>2, <2>3, NormsShifted
    <2>5. Typed(c, e)
        BY <1>1, <2>4, StageTyped
    <2>6. Stage(c, e, pc', m)
        BY <2>1, <2>2, <2>4 DEF Stage
    <2> QED BY <1>1, <1>4, <2>1, <2>5, <2>6
<1>7. CASE ConvertLayer
    <2>1. /\ pc = "layers" /\ pc' = pc /\ cfg' = c /\ m = l + 1 /\ l \in Layers(c)
          /\ IF Linear(c, l) THEN ~DeltaNetRaises(c) ELSE ~AttentionRaises(c)
        BY <1>7 DEF ConvertLayer
    <2>2. e = ConvertMoe(IF Linear(c, l) THEN ConvertDeltaNet(d, Layer(l), c)
                                         ELSE ConvertAttention(d, Layer(l), c), Layer(l), c)
        BY <1>7, Zenon DEF ConvertLayer
    <2>3. /\ Backbone(c, d, l, {}) /\ MtpBefore(c, d)
          /\ DOMAIN d \subseteq BackboneKeys(c) \cup MtpKeys
        BY <1>1, <2>1 DEF Stage
    <2>4. /\ Backbone(c, e, l + 1, {}) /\ MtpBefore(c, e)
          /\ DOMAIN e \subseteq BackboneKeys(c) \cup MtpKeys
        BY <1>1, <2>1, <2>2, <2>3, LayerTurn
    <2>5. m \in Nat /\ m \in 1 .. Len(c.types) + 1
        BY <1>2, <2>1
    <2>6. Typed(c, e)
        BY <1>1, <2>1, <2>4, <2>5, StageTyped
    <2>7. Stage(c, e, pc', m)
        BY <2>1, <2>4 DEF Stage
    <2> QED BY <1>1, <1>4, <2>1, <2>5, <2>6, <2>7
<1>8. CASE ConvertHead
    <2>1. pc = "layers" /\ pc' = "mtp" /\ cfg' = c /\ m = l /\ l \notin Layers(c)
        BY <1>8 DEF ConvertHead
    <2>2. e = Put(d, <<Top, "lm_head">>, Transposed(d[<<Top, "lm_head">>], <<Top, "lm_head">>))
        BY <1>8, Zenon DEF ConvertHead
    <2>3. /\ Backbone(c, d, l, {}) /\ MtpBefore(c, d)
          /\ DOMAIN d \subseteq BackboneKeys(c) \cup MtpKeys
        BY <1>1, <2>1 DEF Stage
    <2>4. /\ Backbone(c, e, l, ContractionFirst(c)) /\ MtpBefore(c, e)
          /\ DOMAIN e \subseteq BackboneKeys(c) \cup MtpKeys
        BY <1>1, <1>2, <2>2, <2>3, HeadTurn
    <2>5. Typed(c, e)
        BY <1>1, <1>2, <2>4, StageTyped
    <2>6. Stage(c, e, pc', m)
        BY <2>1, <2>4 DEF Stage
    <2> QED BY <1>1, <1>4, <2>1, <2>5, <2>6
<1>9. CASE ConvertMtp
    <2>1. /\ pc = "mtp" /\ c.mtp /\ ~AttentionRaises(c) /\ cfg' = c /\ m = l
          /\ pc' = IF c.draft THEN "filter" ELSE "done"
        BY <1>9 DEF ConvertMtp
    <2>2. e = ConvertedMtp(d, c)
        BY <1>9, Zenon DEF ConvertMtp
    <2>3. /\ l \notin Layers(c) /\ Backbone(c, d, l, ContractionFirst(c)) /\ MtpBefore(c, d)
          /\ DOMAIN d \subseteq BackboneKeys(c) \cup MtpKeys
        BY <1>1, <2>1 DEF Stage
    <2>4. /\ Backbone(c, e, l, ContractionFirst(c)) /\ MtpAfter(c, e)
          /\ DOMAIN e \subseteq BackboneKeys(c) \cup HeadKeys
        BY <1>1, <2>1, <2>2, <2>3, MtpTurn
    <2>5. Typed(c, e)
        BY <1>1, <1>2, <2>4, StageTyped
    <2>6. Stage(c, e, pc', m)
        <3>1. CASE c.draft
            BY <2>1, <2>3, <2>4, <3>1 DEF Stage
        <3>2. CASE ~c.draft
            <4>1. Final(c, e)
                BY <1>1, <1>2, <1>3, <2>1, <2>3, <2>4, <3>2, MtpConverted
            <4> QED BY <2>1, <3>2, <4>1 DEF Stage
        <3> QED BY <3>1, <3>2
    <2>7. pc' \in {"filter", "done"}
        BY <2>1
    <2> QED BY <1>1, <1>4, <2>1, <2>5, <2>6, <2>7
<1>10. CASE DropMtp
    <2>1. pc = "mtp" /\ ~c.mtp /\ pc' = "done" /\ cfg' = c /\ m = l
        BY <1>10 DEF DropMtp
    <2>2. e = Drop(d, {k \in DOMAIN d : k[1] \in {Mtp, MtpLayer}})
        BY <1>10, Zenon DEF DropMtp
    <2>3. /\ l \notin Layers(c) /\ Backbone(c, d, l, ContractionFirst(c))
          /\ DOMAIN d \subseteq BackboneKeys(c) \cup MtpKeys
        BY <1>1, <2>1 DEF Stage
    <2>4. Final(c, e)
        BY <1>1, <1>2, <1>3, <2>1, <2>2, <2>3, MtpDropped
    <2>5. Stage(c, e, pc', m)
        BY <2>1, <2>4 DEF Stage
    <2> QED BY <1>1, <1>4, <2>1, <2>4, <2>5, FinalTyped
<1>11. CASE KeepDraft
    <2>1. pc = "filter" /\ pc' = "done" /\ cfg' = c /\ m = l
        BY <1>11 DEF KeepDraft
    <2>2. e = Restrict(d, {k \in DOMAIN d :
                \/ k[1] \in {MtpHead, MtpHeadLayer}
                \/ k \in {<<Top, "embed_tokens">>, <<Top, "rank_util">>}})
        BY <1>11, Zenon DEF KeepDraft
    <2>3. /\ l \notin Layers(c) /\ c.draft /\ Backbone(c, d, l, ContractionFirst(c))
          /\ MtpAfter(c, d) /\ DOMAIN d \subseteq BackboneKeys(c) \cup HeadKeys
        BY <1>1, <2>1 DEF Stage
    <2>4. Final(c, e)
        BY <1>1, <1>2, <1>3, <2>2, <2>3, DraftKept
    <2>5. Stage(c, e, pc', m)
        BY <2>1, <2>4 DEF Stage
    <2> QED BY <1>1, <1>4, <2>1, <2>4, <2>5, FinalTyped
<1>12. CASE Raise
    <2>1. pc' = "raised" /\ cfg' = c /\ m = l /\ e = d
        BY <1>12 DEF Raise
    <2>2. Stage(c, e, pc', m)
        BY <2>1 DEF Stage
    <2> QED BY <1>1, <1>4, <2>1, <2>2
<1>13. CASE UNCHANGED vars
    <2>1. pc' = pc /\ cfg' = c /\ m = l /\ e = d
        BY <1>13 DEF vars
    <2> QED BY <1>1, <1>4, <2>1
<1>14. Ended => UNCHANGED vars
    BY DEF Ended
<1> QED BY <1>5, <1>6, <1>7, <1>8, <1>9, <1>10, <1>11, <1>12, <1>13, <1>14 DEF Next

\* The invariant holds of every conversion.
LEMMA WeightsInvariant == Spec => []WeightsInv
BY WeightsInit, WeightsStep, PTL DEF Spec

\* convert_qwen36_a3b_hf_to_neuron_state_dict leaves exactly the parameters the
\* modules declare under its flags, each of rows of the checkpoint.
THEOREM ConversionLoads == Spec => []LoadsExactly
BY WeightsInvariant, InvImplies, PTL

\* Every RMSNorm of the checkpoint's 1 + w form is shifted once, nothing else is.
THEOREM NormsAreShifted == Spec => []NormsShiftedOnce
BY WeightsInvariant, InvImplies, PTL

\* Every tensor is stored in the orientation its reader multiplies it in.
THEOREM OrientationsMatch == Spec => []StoredAsRead
BY WeightsInvariant, InvImplies, PTL

\* No two tensors of the dictionary the writer gets share storage.
THEOREM StorageIsOwn == Spec => []NoSharedStorage
BY WeightsInvariant, InvImplies, PTL

(***************************************************************************)
(* Where the rows stand: which row of the checkpoint is at which place.     *)
(***************************************************************************)
\* n sequences of m rows each, and s behind one another.
Blocks(R, seqs, n, m) == Len(seqs) = n /\ \A i \in 1 .. n : seqs[i] \in Seq(R) /\ Len(seqs[i]) = m

\* s is these blocks, flattened.
Joined(R, s, seqs, n, m) ==
    /\ s \in Seq(R) /\ Len(s) = n * m
    /\ \A i \in 1 .. n, j \in 1 .. m : s[(i - 1) * m + j] = seqs[i][j]

\* Row j of the i-th of the flattened blocks is row (i - 1) * m + j.
LEMMA FlatBlocks ==
    ASSUME NEW R, NEW seqs, NEW n \in Nat \ {0}, NEW m \in Nat, Blocks(R, seqs, n, m)
    PROVE  Joined(R, FlattenSeq(seqs), seqs, n, m)
<1>0. Len(seqs) = n
    BY DEF Blocks
<1>1. PICK flat : Flat(flat, n, seqs) /\ FlattenSeq(seqs) = flat[n]
    BY <1>0, FlattenSeqIsFlat
<1> DEFINE Good(i) == /\ flat[i] \in Seq(R) /\ Len(flat[i]) = i * m
                      /\ \A k \in 1 .. i, j \in 1 .. m : flat[i][(k - 1) * m + j] = seqs[k][j]
           Bad == {i \in 1 .. n : ~Good(i)}
<1>2. /\ n \in Nat \ {0} /\ m \in Nat
      /\ \A i \in 1 .. n : seqs[i] \in Seq(R) /\ Len(seqs[i]) = m
    BY DEF Blocks
<1>3. \A i \in 1 .. n : flat[i] = IF i = 1 THEN seqs[i] ELSE flat[i - 1] \o seqs[i]
    BY <1>1, FlatStep
<1>4. Bad = {}
    <2> SUFFICES ASSUME Bad # {} PROVE FALSE
        OBVIOUS
    <2>1. PICK i \in Bad : \A k \in Nat : k < i => k \notin Bad
        <3>1. Bad \in SUBSET Nat BY <1>2
        <3> HIDE DEF Bad
        <3> QED BY <3>1, LeastNat
    <2>2. i \in 1 .. n /\ i \in Nat /\ ~Good(i)
        BY <1>2, <2>1
    <2>3. CASE i = 1
        <3>1. flat[i] = seqs[i] /\ flat[i] \in Seq(R) /\ Len(flat[i]) = m
            BY <1>2, <1>3, <2>2, <2>3
        <3>2. \A k \in 1 .. i, j \in 1 .. m : flat[i][(k - 1) * m + j] = seqs[k][j]
            <4> TAKE k \in 1 .. i, j \in 1 .. m
            <4>1. k = 1 /\ (k - 1) * m + j = j
                BY <1>2, <2>3
            <4> QED BY <3>1, <4>1, <2>3
        <3>3. i * m = m
            BY <2>3, <1>2
        <3> QED BY <2>2, <3>1, <3>2, <3>3
    <2>4. CASE i # 1
        <3>1. i - 1 \in Nat /\ i - 1 < i /\ i - 1 \in 1 .. n
            BY <1>2, <2>2, <2>4
        <3>2. Good(i - 1)
            <4>1. i - 1 \notin Bad
                BY <2>1, <3>1
            <4> QED BY <3>1, <4>1
        <3>3. flat[i] = flat[i - 1] \o seqs[i] /\ seqs[i] \in Seq(R) /\ Len(seqs[i]) = m
            BY <1>2, <1>3, <2>2, <2>4
        <3>4. PICK b \in Nat : b = (i - 1) * m /\ b + m = i * m
            <4>1. (i - 1) * m \in Nat /\ (i - 1) * m + m = i * m
                BY <1>2, <3>1, <2>2
            <4> QED BY <4>1
        <3>5. PICK s \in Seq(R), t \in Seq(R) : /\ s = flat[i - 1] /\ t = seqs[i]
                                                /\ Len(s) = b /\ Len(t) = m /\ flat[i] = s \o t
            BY <3>2, <3>3, <3>4
        <3>6. /\ s \o t \in Seq(R) /\ Len(s \o t) = b + m
              /\ \A x \in 1 .. b + m : (s \o t)[x] = IF x <= b THEN s[x] ELSE t[x - b]
            <4>1. /\ s \o t \in Seq(R) /\ Len(s \o t) = Len(s) + Len(t)
                  /\ \A x \in 1 .. Len(s) + Len(t) :
                        (s \o t)[x] = IF x <= Len(s) THEN s[x] ELSE t[x - Len(s)]
                BY ConcatProperties
            <4>2. Len(s) = b /\ Len(t) = m
                BY <3>5
            <4> QED BY <4>1, <4>2, Zenon
        <3>7. \A k \in 1 .. i, j \in 1 .. m : flat[i][(k - 1) * m + j] = seqs[k][j]
            <4> TAKE k \in 1 .. i, j \in 1 .. m
            <4>1. PICK a \in Nat : a = (k - 1) * m /\ a + m = k * m
                <5>1. (k - 1) * m \in Nat /\ (k - 1) * m + m = k * m
                    BY <1>2, <2>2
                <5> QED BY <5>1
            <4>2. CASE k = i
                <5>1. a = b /\ a + j \in 1 .. b + m /\ ~(a + j <= b) /\ (a + j) - b = j
                    <6>1. a = b
                        BY <3>4, <4>1, <4>2
                    <6> QED BY ONLY <6>1, a \in Nat, b \in Nat, m \in Nat, j \in 1 .. m
                <5>2. (s \o t)[a + j] = t[j]
                    BY <3>6, <5>1
                <5> QED BY <3>5, <4>1, <4>2, <5>2
            <4>3. CASE k # i
                <5>1. k \in 1 .. i - 1 /\ k \in Nat
                    <6> QED BY ONLY i \in Nat, k \in 1 .. i, <4>3
                <5>2. k * m <= (i - 1) * m
                    BY <3>1, <5>1, Grows
                <5>3. a + j \in 1 .. b + m /\ a + j <= b
                    <6>1. a + m <= b
                        BY <3>4, <4>1, <5>2
                    <6> QED BY ONLY <6>1, a \in Nat, b \in Nat, m \in Nat, j \in 1 .. m
                <5>4. (s \o t)[a + j] = s[a + j]
                    BY <3>6, <5>3
                <5>5. flat[i - 1][(k - 1) * m + j] = seqs[k][j]
                    BY <3>2, <5>1
                <5> QED BY <3>5, <4>1, <5>4, <5>5
            <4> QED BY <4>2, <4>3
        <3>8. flat[i] \in Seq(R) /\ Len(flat[i]) = i * m
            BY <3>4, <3>5, <3>6
        <3> QED BY <2>2, <3>7, <3>8
    <2> QED BY <2>3, <2>4
<1>5. Good(n)
    <2> HIDE DEF Good
    <2>1. n \in 1 .. n /\ n \notin Bad
        BY <1>2, <1>4
    <2> QED BY <2>1 DEF Bad
<1> HIDE DEF Good
<1>6. /\ flat[n] \in Seq(R) /\ Len(flat[n]) = n * m
      /\ \A k \in 1 .. n, j \in 1 .. m : flat[n][(k - 1) * m + j] = seqs[k][j]
    BY <1>5 DEF Good
<1> QED BY <1>1, <1>6, Zenon DEF Joined

\* w is n rows of s, from the a-th on.
Cut(R, w, s, a, n) == w \in Seq(R) /\ Len(w) = n /\ \A i \in 1 .. n : w[i] = s[a + i]

\* A slice.
LEMMA SliceAt ==
    ASSUME NEW R, NEW s \in Seq(R), NEW a \in Nat, NEW b \in Nat, a <= b, b <= Len(s)
    PROVE  Cut(R, Slice(s, a, b), s, a, b - a)
<1>1. a + 1 \in Int /\ b \in Int /\ \A i \in a + 1 .. b : s[i] \in R
    OBVIOUS
<1>2. \A i \in 1 .. b - (a + 1) + 1 : SubSeq(s, a + 1, b)[i] = s[(a + 1) + i - 1]
    BY <1>1, SubSeqProperties
<1>3. \A i \in 1 .. b - a : Slice(s, a, b)[i] = s[a + i]
    <2> TAKE i \in 1 .. b - a
    <2>1. i \in 1 .. b - (a + 1) + 1 /\ (a + 1) + i - 1 = a + i
        OBVIOUS
    <2> QED BY <1>2, <2>1 DEF Slice
<1> QED BY <1>3, Slices DEF Cut

\* A cut of a cut.
LEMMA CutTwice ==
    ASSUME NEW R, NEW s, NEW w, NEW a \in Nat, NEW n \in Nat, Cut(R, w, s, a, n),
           NEW u, NEW b \in Nat, NEW m \in Nat, b + m <= n, Cut(R, u, w, b, m)
    PROVE  Cut(R, u, s, a + b, m)
<1>1. ASSUME NEW i \in 1 .. m PROVE u[i] = s[(a + b) + i]
    <2>1. b + i \in 1 .. n /\ a + (b + i) = (a + b) + i
        OBVIOUS
    <2>2. u[i] = w[b + i]
        BY DEF Cut
    <2>3. w[b + i] = s[a + (b + i)]
        BY <2>1 DEF Cut
    <2> QED BY <2>1, <2>2, <2>3
<1> QED BY <1>1 DEF Cut

\* A multiple divided.
LEMMA Multiple ==
    ASSUME NEW t \in Nat \ {0}, NEW n \in Nat
    PROVE  (t * n) \div t = n /\ (n * t) \div t = n
<1>1. PICK p \in Nat : p = t * n
    <2>1. t * n \in Nat
        OBVIOUS
    <2> QED BY <2>1
<1>2. PICK k \in Nat : k = p \div t /\ t * k <= p /\ p < t * (k + 1)
    BY Quotient
<1>3. k = n
    <2>1. CASE k < n
        <3>1. (k + 1) * t <= n * t
            BY <2>1, Grows
        <3> QED BY <1>1, <1>2, <3>1
    <2>2. CASE n < k
        <3>1. (n + 1) * t <= k * t
            BY <2>2, Grows
        <3>2. (n + 1) * t = n * t + t
            OBVIOUS
        <3> QED BY <1>1, <1>2, <3>1, <3>2
    <2> QED BY <2>1, <2>2
<1>4. n * t = t * n
    OBVIOUS
<1> QED BY <1>1, <1>2, <1>3, <1>4

\* A shard of a sequence that the ranks divide.
LEMMA ShardAt ==
    ASSUME NEW R, NEW s \in Seq(R), NEW c, c.tp \in Nat \ {0}, NEW n \in Nat, Len(s) = c.tp * n,
           NEW r \in 0 .. c.tp - 1
    PROVE  /\ Cut(R, Shard(c, s, r), s, r * n, n)
           /\ r * n \in Nat /\ r * n + n <= c.tp * n
<1>1. PICK t \in Nat \ {0} : t = c.tp
    OBVIOUS
<1>2. Len(s) \div c.tp = n
    BY <1>1, Multiple
<1>3. Shard(c, s, r) = Slice(s, r * n, (r + 1) * n)
    BY <1>2 DEF Shard
<1>4. PICK a \in Nat, b \in Nat : a = r * n /\ b = (r + 1) * n /\ b = a + n /\ b <= Len(s)
    <2>1. r \in Nat /\ r + 1 \in Nat /\ r + 1 <= t
        BY <1>1
    <2>2. (r + 1) * n <= t * n
        BY <2>1, Grows
    <2>3. (r + 1) * n = r * n + n /\ r * n \in Nat /\ (r + 1) * n \in Nat
        BY <2>1
    <2> QED BY <1>1, <2>2, <2>3
<1>5. Cut(R, Slice(s, a, b), s, a, b - a) /\ b - a = n
    <2>1. a <= b /\ b - a = n
        BY <1>4
    <2> QED BY <1>4, <2>1, SliceAt
<1>6. Cut(R, Slice(s, a, b), s, a, n)
    BY <1>5
<1>7. Shard(c, s, r) = Slice(s, a, b)
    BY <1>3, <1>4
<1> QED BY <1>1, <1>4, <1>6, <1>7

\* What a rank finds in rows packed rank by rank: its own block.
LEMMA RankBlock ==
    ASSUME NEW R, NEW parts, NEW c, c.tp \in Nat \ {0}, NEW m \in Nat, Blocks(R, parts, c.tp, m),
           NEW r \in 0 .. c.tp - 1
    PROVE  Cut(R, Shard(c, FlattenSeq(parts), r), parts[r + 1], 0, m)
<1>1. PICK s : s = FlattenSeq(parts)
    OBVIOUS
<1>2. /\ s \in Seq(R) /\ Len(s) = c.tp * m
      /\ \A i \in 1 .. c.tp, j \in 1 .. m : s[(i - 1) * m + j] = parts[i][j]
    <2>1. Joined(R, FlattenSeq(parts), parts, c.tp, m)
        BY FlatBlocks
    <2> QED BY <1>1, <2>1, Zenon DEF Joined
<1>3. Cut(R, Shard(c, s, r), s, r * m, m)
    BY <1>2, ShardAt
<1>4. r + 1 \in 1 .. c.tp /\ (r + 1) - 1 = r
    OBVIOUS
<1>5. ASSUME NEW i \in 1 .. m PROVE s[r * m + i] = parts[r + 1][0 + i]
    <2>1. s[((r + 1) - 1) * m + i] = parts[r + 1][i]
        BY <1>2, <1>4
    <2> QED BY <1>4, <2>1
<1> QED BY <1>1, <1>3, <1>5 DEF Cut

\* Two sequences behind one another, ...
LEMMA Two ==
    ASSUME NEW R, NEW a \in Seq(R), NEW b \in Seq(R)
    PROVE  /\ a \o b \in Seq(R) /\ Len(a \o b) = Len(a) + Len(b)
           /\ Cut(R, a, a \o b, 0, Len(a)) /\ Cut(R, b, a \o b, Len(a), Len(b))
<1>1. PICK x \in Nat, y \in Nat : x = Len(a) /\ y = Len(b)
    OBVIOUS
<1>2. PICK f \in Seq(R) : f = a \o b /\ Len(f) = x + y
            /\ \A i \in 1 .. x + y : f[i] = IF i <= x THEN a[i] ELSE b[i - x]
    <2>1. /\ a \o b \in Seq(R) /\ Len(a \o b) = Len(a) + Len(b)
          /\ \A i \in 1 .. Len(a) + Len(b) :
                (a \o b)[i] = IF i <= Len(a) THEN a[i] ELSE b[i - Len(a)]
        BY ConcatProperties
    <2> QED BY <1>1, <2>1, Zenon
<1>3. \A i \in 1 .. x : a[i] = f[0 + i]
    BY <1>2
<1>4. \A i \in 1 .. y : b[i] = f[x + i]
    <2> TAKE i \in 1 .. y
    <2>1. x + i \in 1 .. x + y /\ ~(x + i <= x) /\ (x + i) - x = i
        OBVIOUS
    <2> QED BY <1>2, <2>1
<1>5. Cut(R, a, f, 0, x) /\ Cut(R, b, f, x, y)
    BY <1>1, <1>3, <1>4 DEF Cut
<1> QED BY <1>1, <1>2, <1>5

\* a, b and e behind one another are g.
Triple(R, g, a, b, e, x, y, z) ==
    /\ g \in Seq(R) /\ Len(g) = (x + y) + z
    /\ Cut(R, a, g, 0, x) /\ Cut(R, b, g, x, y) /\ Cut(R, e, g, x + y, z)

\* ... three, ...
LEMMA Three ==
    ASSUME NEW R, NEW a \in Seq(R), NEW b \in Seq(R), NEW e \in Seq(R),
           NEW x \in Nat, NEW y \in Nat, NEW z \in Nat, Len(a) = x, Len(b) = y, Len(e) = z,
           NEW g, g = a \o b \o e
    PROVE  Triple(R, g, a, b, e, x, y, z)
<1>1. PICK f \in Seq(R) : f = a \o b /\ Len(f) = x + y /\ Cut(R, a, f, 0, x) /\ Cut(R, b, f, x, y)
    <2>1. /\ a \o b \in Seq(R) /\ Len(a \o b) = Len(a) + Len(b)
          /\ Cut(R, a, a \o b, 0, Len(a)) /\ Cut(R, b, a \o b, Len(a), Len(b))
        BY Two
    <2> QED BY <2>1
<1>2. g = f \o e
    BY <1>1
<1>3. /\ g \in Seq(R) /\ Len(g) = Len(f) + Len(e)
      /\ Cut(R, f, g, 0, Len(f)) /\ Cut(R, e, g, Len(f), Len(e))
    BY <1>2, Two
<1>4. Cut(R, f, g, 0, x + y) /\ Cut(R, e, g, x + y, z) /\ Len(g) = (x + y) + z
    BY <1>1, <1>3
<1>5. 0 + x <= x + y /\ x + y <= x + y /\ x + y \in Nat /\ 0 + 0 = 0 /\ 0 + x = x /\ 0 \in Nat
    OBVIOUS
<1>6. Cut(R, a, g, 0 + 0, x)
    BY ONLY <1>1, <1>4, <1>5, x \in Nat, CutTwice
<1>7. Cut(R, b, g, 0 + x, y)
    BY ONLY <1>1, <1>4, <1>5, x \in Nat, y \in Nat, CutTwice
<1> QED BY <1>3, <1>4, <1>5, <1>6, <1>7 DEF Triple

\* a, b, e and h behind one another are g.
Quadruple(R, g, a, b, e, h, x, y, z, w) ==
    /\ g \in Seq(R) /\ Len(g) = ((x + y) + z) + w
    /\ Cut(R, a, g, 0, x) /\ Cut(R, b, g, x, y) /\ Cut(R, e, g, x + y, z)
    /\ Cut(R, h, g, (x + y) + z, w)

\* ... and four.
LEMMA Four ==
    ASSUME NEW R, NEW a \in Seq(R), NEW b \in Seq(R), NEW e \in Seq(R), NEW h \in Seq(R),
           NEW x \in Nat, NEW y \in Nat, NEW z \in Nat, NEW w \in Nat, Len(a) = x, Len(b) = y,
           Len(e) = z, Len(h) = w, NEW g, g = a \o b \o e \o h
    PROVE  Quadruple(R, g, a, b, e, h, x, y, z, w)
<1>1. PICK f : f = a \o b \o e
    OBVIOUS
<1>2. /\ f \in Seq(R) /\ Len(f) = (x + y) + z
      /\ Cut(R, a, f, 0, x) /\ Cut(R, b, f, x, y) /\ Cut(R, e, f, x + y, z)
    <2>1. Triple(R, f, a, b, e, x, y, z)
        BY <1>1, Three
    <2> QED BY <2>1, Zenon DEF Triple
<1>3. g = f \o h
    BY <1>1
<1>4. /\ g \in Seq(R) /\ Len(g) = Len(f) + Len(h)
      /\ Cut(R, f, g, 0, Len(f)) /\ Cut(R, h, g, Len(f), Len(h))
    <2>1. f \in Seq(R) /\ g = f \o h
        BY <1>2, <1>3
    <2>2. /\ f \o h \in Seq(R) /\ Len(f \o h) = Len(f) + Len(h)
          /\ Cut(R, f, f \o h, 0, Len(f)) /\ Cut(R, h, f \o h, Len(f), Len(h))
        BY ONLY <2>1, h \in Seq(R), Two
    <2> QED BY <2>1, <2>2
<1>5. PICK n \in Nat : /\ n = (x + y) + z /\ x <= n /\ x + y <= n /\ (x + y) + z <= n
                       /\ x + y \in Nat
    <2>1. /\ (x + y) + z \in Nat /\ x <= (x + y) + z /\ x + y <= (x + y) + z
          /\ x + y \in Nat
        OBVIOUS
    <2> QED BY <2>1
<1>6. Cut(R, f, g, 0, n) /\ Cut(R, h, g, n, w) /\ Len(g) = n + w
    BY <1>2, <1>4, <1>5
<1>7. Cut(R, a, g, 0 + 0, x)
    <2>1. 0 + x <= n /\ 0 \in Nat
        BY <1>5
    <2> QED BY ONLY <1>2, <1>6, <2>1, n \in Nat, x \in Nat, CutTwice
<1>8. Cut(R, b, g, 0 + x, y)
    <2>1. x + y <= n /\ 0 \in Nat
        BY <1>5
    <2> QED BY ONLY <1>2, <1>6, <2>1, n \in Nat, x \in Nat, y \in Nat, CutTwice
<1>9. Cut(R, e, g, 0 + (x + y), z)
    <2>1. (x + y) + z <= n /\ 0 \in Nat /\ x + y \in Nat
        BY <1>5
    <2> QED BY ONLY <1>2, <1>6, <2>1, n \in Nat, z \in Nat, CutTwice
<1>10. 0 + 0 = 0 /\ 0 + x = x /\ 0 + (x + y) = x + y
    OBVIOUS
<1> QED BY <1>4, <1>5, <1>6, <1>7, <1>8, <1>9, <1>10 DEF Quadruple

(***************************************************************************)
(* Whole heads on every rank.                                               *)
(***************************************************************************)
\* What divides without a remainder.
LEMMA Whole ==
    ASSUME NEW a \in Nat, NEW b \in Nat \ {0}, a % b = 0
    PROVE  a \div b \in Nat /\ a = b * (a \div b) /\ (a # 0 => a \div b # 0)
<1>1. PICK k \in Nat : k = a \div b
    BY Quotient
<1>2. a = b * (a \div b) + (a % b)
    BY SMTT(30)
<1>3. a = b * k
    BY <1>1, <1>2
<1>4. k = 0 => b * k = 0
    OBVIOUS
<1> QED BY <1>1, <1>3, <1>4

\* A quotient, by the multiples it lies between.
LEMMA Between ==
    ASSUME NEW t \in Nat \ {0}, NEW n \in Nat, NEW j \in 0 .. t - 1
    PROVE  (t * n + j) \div t = n
<1>1. PICK p \in Nat : p = t * n + j
    <2>1. t * n + j \in Nat
        OBVIOUS
    <2> QED BY <2>1
<1>2. PICK k \in Nat : k = p \div t /\ t * k <= p /\ p < t * (k + 1)
    BY Quotient
<1>3. k = n
    <2>1. CASE k < n
        <3>1. t * (k + 1) <= t * n
            BY <2>1, Grows
        <3> QED BY <1>1, <1>2, <3>1
    <2>2. CASE n < k
        <3>1. t * (n + 1) <= t * k
            BY <2>2, Grows
        <3>2. t * (n + 1) = t * n + t
            OBVIOUS
        <3> QED BY <1>1, <1>2, <3>1, <3>2
    <2> QED BY <2>1, <2>2
<1> QED BY <1>1, <1>2, <1>3

\* The heads of a rank: key heads and value heads of t, p value heads a key head.
Heads(c, t, k, v, p) ==
    /\ t = c.tp /\ c.nk = t * k /\ c.nv = t * v /\ v = k * p
    /\ c.nk \div t = k /\ c.nv \div t = v /\ c.nv \div c.nk = p /\ v \div k = p

\* Equal factors cancel.
LEMMA Cancel ==
    ASSUME NEW t \in Nat \ {0}, NEW a \in Nat, NEW b \in Nat, t * a = t * b
    PROVE  a = b
BY Multiple

\* DeltaNet's heads divide by the ranks, and the value heads by the key heads.
LEMMA DeltaNetDivides ==
    ASSUME NEW c \in Configs, ~DeltaNetRaises(c)
    PROVE  \E t, k, v, p \in Nat \ {0} : Heads(c, t, k, v, p)
<1>1. PICK t \in Nat \ {0}, nk \in Nat \ {0}, nv \in Nat \ {0} : t = c.tp /\ nk = c.nk /\ nv = c.nv
    BY ConfigFields
<1>2. nk % t = 0 /\ nv % t = 0 /\ nv % nk = 0
    <2>1. nv % nk = 0
        BY <1>1, ConfigsAssumption
    <2>2. CASE t > 1
        BY <1>1, <2>1, <2>2 DEF DeltaNetRaises
    <2>3. CASE ~(t > 1)
        <3>1. t = 1
            BY <2>3
        <3> QED BY <2>1, <3>1
    <2> QED BY <2>2, <2>3
<1>3. PICK k \in Nat \ {0}, v \in Nat \ {0}, p \in Nat \ {0} :
        /\ k = nk \div t /\ v = nv \div t /\ p = nv \div nk
        /\ nk = t * k /\ nv = t * v /\ nv = nk * p
    <2>1. nk \div t \in Nat \ {0} /\ nk = t * (nk \div t)
        BY <1>2, Whole
    <2>2. nv \div t \in Nat \ {0} /\ nv = t * (nv \div t)
        BY <1>2, Whole
    <2>3. nv \div nk \in Nat \ {0} /\ nv = nk * (nv \div nk)
        BY <1>2, Whole
    <2> QED BY <2>1, <2>2, <2>3, Zenon
<1>4. v = k * p
    <2>1. k * p \in Nat /\ (t * k) * p = t * (k * p)
        OBVIOUS
    <2>2. t * v = t * (k * p)
        BY <1>3, <2>1
    <2> QED BY <2>1, <2>2, Cancel
<1>5. v \div k = p
    BY <1>4, Multiple
<1> QED BY <1>1, <1>3, <1>4, <1>5 DEF Heads

\* The dimensions of a rank: x key rows, y value rows.
RankDims(c, x, y) ==
    /\ KeyDim(c) = c.tp * x /\ KeyDim(c) \div c.tp = x
    /\ ValueDim(c) = c.tp * y /\ ValueDim(c) \div c.tp = y
    /\ ConvDim(c) = c.tp * ((x + x) + y) /\ ConvDim(c) \div c.tp = (x + x) + y

\* Every rank has them: k key heads of kd rows, v value heads of vd.
LEMMA RankDimensions ==
    ASSUME NEW c \in Configs, NEW t \in Nat \ {0}, NEW k \in Nat \ {0}, NEW v \in Nat \ {0},
           NEW p \in Nat \ {0}, Heads(c, t, k, v, p)
    PROVE  RankDims(c, k * c.kd, v * c.vd)
<1>1. PICK a \in Nat \ {0}, b \in Nat \ {0} : a = c.kd /\ b = c.vd
    BY ConfigFields
<1>2. PICK x \in Nat, y \in Nat : x = k * a /\ y = v * b
    <2>1. k * a \in Nat /\ v * b \in Nat
        OBVIOUS
    <2> QED BY <2>1
<1>3. KeyDim(c) = t * x
    <2>1. (t * k) * a = t * (k * a)
        OBVIOUS
    <2> QED BY <1>1, <1>2, <2>1 DEF KeyDim, Heads
<1>4. ValueDim(c) = t * y
    <2>1. (t * v) * b = t * (v * b)
        OBVIOUS
    <2> QED BY <1>1, <1>2, <2>1 DEF ValueDim, Heads
<1>5. ConvDim(c) = t * ((x + x) + y)
    <2>1. 2 * (t * x) + t * y = t * ((x + x) + y)
        <3>1. t * ((x + x) + y) = t * (x + x) + t * y /\ t * (x + x) = t * x + t * x
            OBVIOUS
        <3>2. PICK tx \in Nat, ty \in Nat : tx = t * x /\ ty = t * y
            <4>1. t * x \in Nat /\ t * y \in Nat
                OBVIOUS
            <4> QED BY <4>1
        <3> QED BY <3>1, <3>2
    <2> QED BY <1>3, <1>4, <2>1 DEF ConvDim
<1>6. (x + x) + y \in Nat /\ t = c.tp
    BY DEF Heads
<1>7. (t * x) \div t = x /\ (t * y) \div t = y /\ (t * ((x + x) + y)) \div t = (x + x) + y
    BY <1>6, Multiple
<1>8. RankDims(c, x, y)
    BY <1>3, <1>4, <1>5, <1>6, <1>7, Zenon DEF RankDims
<1> QED BY <1>1, <1>2, <1>8

\* Where the checkpoint has row i of rank r's query, key and value rows.
QkvPlace(c, x, y, r, i) ==
    IF i <= x THEN r * x + i
    ELSE IF i <= x + x THEN KeyDim(c) + (r * x + (i - x))
    ELSE 2 * KeyDim(c) + (r * y + (i - (x + x)))

\* The qkv rows as the converter leaves them.
Repack(c, s) == IF c.tp > 1 THEN ReorderQkv(c, s) ELSE s

\* A rank's qkv rows: its share of the queries, of the keys and of the values.
RankQkv(R, c, w, s, x, y, r) ==
    /\ w \in Seq(R) /\ Len(w) = (x + x) + y
    /\ \A i \in 1 .. (x + x) + y : w[i] = s[QkvPlace(c, x, y, r, i)]

\* The rows of a rank's share.
LEMMA RankShare ==
    ASSUME NEW R, NEW c, c.tp \in Nat \ {0}, NEW s, NEW q, NEW a \in Nat, NEW n \in Nat,
           Cut(R, q, s, a, c.tp * n), NEW r \in 0 .. c.tp - 1
    PROVE  Cut(R, Shard(c, q, r), s, a + r * n, n)
<1>1. q \in Seq(R) /\ Len(q) = c.tp * n
    BY DEF Cut
<1>2. /\ Cut(R, Shard(c, q, r), q, r * n, n)
      /\ r * n \in Nat /\ r * n + n <= c.tp * n
    BY <1>1, ShardAt
<1>3. PICK rn \in Nat, m \in Nat : rn = r * n /\ m = c.tp * n /\ rn + n <= m
    <2>1. c.tp * n \in Nat
        OBVIOUS
    <2> QED BY <1>2, <2>1
<1>4. Cut(R, q, s, a, m) /\ Cut(R, Shard(c, q, r), q, rn, n)
    BY <1>2, <1>3
<1>5. PICK w : w = Shard(c, q, r)
    OBVIOUS
<1>6. Cut(R, w, q, rn, n)
    BY <1>4, <1>5
<1>7. Cut(R, w, s, a + rn, n)
    BY ONLY <1>3, <1>4, <1>6, a \in Nat, n \in Nat, CutTwice
<1> QED BY <1>3, <1>5, <1>7

\* Row by row, three cuts of s behind one another.
ThreeCuts(g, s, A, B, E, x, y, z) ==
    \A i \in 1 .. (x + y) + z :
        g[i] = s[IF i <= x THEN A + i ELSE IF i <= x + y THEN B + (i - x) ELSE E + (i - (x + y))]

\* They are that.
LEMMA TripleRows ==
    ASSUME NEW R, NEW g, NEW a, NEW b, NEW e, NEW x \in Nat, NEW y \in Nat, NEW z \in Nat,
           Triple(R, g, a, b, e, x, y, z), NEW s, NEW A \in Nat, NEW B \in Nat, NEW E \in Nat,
           Cut(R, a, s, A, x), Cut(R, b, s, B, y), Cut(R, e, s, E, z)
    PROVE  ThreeCuts(g, s, A, B, E, x, y, z)
<1>1. /\ \A i \in 1 .. x : a[i] = g[0 + i] /\ a[i] = s[A + i]
      /\ \A i \in 1 .. y : b[i] = g[x + i] /\ b[i] = s[B + i]
      /\ \A i \in 1 .. z : e[i] = g[(x + y) + i] /\ e[i] = s[E + i]
    BY DEF Triple, Cut
<1> SUFFICES ASSUME NEW i \in 1 .. (x + y) + z
             PROVE  g[i] = s[IF i <= x THEN A + i ELSE IF i <= x + y THEN B + (i - x)
                             ELSE E + (i - (x + y))]
    BY DEF ThreeCuts
<1>2. CASE i <= x
    <2>1. i \in 1 .. x /\ 0 + i = i
        BY <1>2
    <2>2. g[i] = s[A + i]
        BY <1>1, <2>1
    <2> QED BY <1>2, <2>2
<1>3. CASE ~(i <= x) /\ i <= x + y
    <2>1. PICK j \in 1 .. y : j = i - x /\ x + j = i
        <3>1. i - x \in 1 .. y /\ x + (i - x) = i
            BY <1>3
        <3> QED BY <3>1
    <2>2. g[i] = s[B + j]
        BY <1>1, <2>1
    <2> QED BY <1>3, <2>1, <2>2
<1>4. CASE ~(i <= x) /\ ~(i <= x + y)
    <2>1. PICK j \in 1 .. z : j = i - (x + y) /\ (x + y) + j = i
        <3>1. i - (x + y) \in 1 .. z /\ (x + y) + (i - (x + y)) = i
            BY <1>4
        <3> QED BY <3>1
    <2>2. g[i] = s[E + j]
        BY <1>1, <2>1
    <2> QED BY <1>4, <2>1, <2>2
<1> QED BY <1>2, <1>3, <1>4

\* The block that reorder_deltanet_qkv_for_tp makes of rank r.
LEMMA QkvBlock ==
    ASSUME NEW R, NEW c, c.tp \in Nat \ {0}, NEW x \in Nat, NEW y \in Nat, RankDims(c, x, y),
           NEW s \in Seq(R), Len(s) = ConvDim(c), NEW r \in 0 .. c.tp - 1,
           NEW q, q = Slice(s, 0, KeyDim(c)), NEW k, k = Slice(s, KeyDim(c), 2 * KeyDim(c)),
           NEW v, v = Slice(s, 2 * KeyDim(c), ConvDim(c)),
           NEW b, b = Shard(c, q, r) \o Shard(c, k, r) \o Shard(c, v, r)
    PROVE  RankQkv(R, c, b, s, x, y, r)
<1>1. PICK key \in Nat, val \in Nat : /\ key = KeyDim(c) /\ val = ValueDim(c)
                                      /\ key = c.tp * x /\ val = c.tp * y
    <2>1. PICK t \in Nat \ {0} : t = c.tp
        OBVIOUS
    <2>2. t * x \in Nat /\ t * y \in Nat
        OBVIOUS
    <2>3. KeyDim(c) = t * x /\ ValueDim(c) = t * y
        BY <2>1 DEF RankDims
    <2> QED BY <2>1, <2>2, <2>3
<1>2. PICK two \in Nat, all \in Nat : two = 2 * key /\ two = key + key /\ all = two + val
    <2>1. 2 * key \in Nat /\ 2 * key = key + key /\ 2 * key + val \in Nat
        OBVIOUS
    <2> QED BY <2>1
<1>3. two = 2 * KeyDim(c) /\ all = ConvDim(c) /\ Len(s) = all
    BY ONLY <1>1, <1>2, Len(s) = ConvDim(c) DEF ConvDim
<1>4. /\ Cut(R, q, s, 0, c.tp * x) /\ Cut(R, k, s, key, c.tp * x)
      /\ Cut(R, v, s, two, c.tp * y)
    <2>1. /\ 0 <= key /\ key <= Len(s) /\ key - 0 = key /\ key <= two /\ two <= Len(s)
          /\ two - key = key /\ two <= all /\ all <= Len(s) /\ all - two = val
        BY <1>2, <1>3
    <2>2. q = Slice(s, 0, key) /\ k = Slice(s, key, two) /\ v = Slice(s, two, all)
        BY <1>1, <1>3
    <2>3. Cut(R, Slice(s, 0, key), s, 0, key - 0)
        BY ONLY <2>1, s \in Seq(R), key \in Nat, 0 \in Nat, SliceAt
    <2>4. Cut(R, Slice(s, key, two), s, key, two - key)
        BY ONLY <2>1, s \in Seq(R), key \in Nat, two \in Nat, SliceAt
    <2>5. Cut(R, Slice(s, two, all), s, two, all - two)
        BY ONLY <2>1, s \in Seq(R), two \in Nat, all \in Nat, SliceAt
    <2>6. Cut(R, q, s, 0, key) /\ Cut(R, k, s, key, key) /\ Cut(R, v, s, two, val)
        BY <2>1, <2>2, <2>3, <2>4, <2>5
    <2> QED BY <1>1, <2>6
<1>5. PICK qr, kr, vr : qr = Shard(c, q, r) /\ kr = Shard(c, k, r) /\ vr = Shard(c, v, r)
    OBVIOUS
<1>6. PICK rx \in Nat, ry \in Nat : rx = r * x /\ ry = r * y
    <2>1. r * x \in Nat /\ r * y \in Nat
        OBVIOUS
    <2> QED BY <2>1
<1>7. Cut(R, qr, s, 0 + rx, x) /\ Cut(R, kr, s, key + rx, x) /\ Cut(R, vr, s, two + ry, y)
    <2>1. Cut(R, Shard(c, q, r), s, 0 + r * x, x)
        BY ONLY <1>4, c.tp \in Nat \ {0}, x \in Nat, r \in 0 .. c.tp - 1, 0 \in Nat, RankShare
    <2>2. Cut(R, Shard(c, k, r), s, key + r * x, x)
        BY ONLY <1>4, c.tp \in Nat \ {0}, x \in Nat, r \in 0 .. c.tp - 1, key \in Nat, RankShare
    <2>3. Cut(R, Shard(c, v, r), s, two + r * y, y)
        BY ONLY <1>4, c.tp \in Nat \ {0}, y \in Nat, r \in 0 .. c.tp - 1, two \in Nat, RankShare
    <2> QED BY <1>5, <1>6, <2>1, <2>2, <2>3
<1>8. Triple(R, b, qr, kr, vr, x, x, y)
    <2>1. /\ qr \in Seq(R) /\ kr \in Seq(R) /\ vr \in Seq(R)
          /\ Len(qr) = x /\ Len(kr) = x /\ Len(vr) = y
        BY <1>7 DEF Cut
    <2>2. b = qr \o kr \o vr
        BY <1>5
    <2> QED BY <2>1, <2>2, Three
<1>9. ASSUME NEW i \in 1 .. (x + x) + y
      PROVE  b[i] = s[QkvPlace(c, x, y, r, i)]
    <2>1. PICK A \in Nat, B \in Nat, E \in Nat : A = 0 + rx /\ B = key + rx /\ E = two + ry
        <3>1. 0 + rx \in Nat /\ key + rx \in Nat /\ two + ry \in Nat
            OBVIOUS
        <3> QED BY <3>1
    <2>2. Cut(R, qr, s, A, x) /\ Cut(R, kr, s, B, x) /\ Cut(R, vr, s, E, y)
        BY <1>7, <2>1
    <2>3. ThreeCuts(b, s, A, B, E, x, x, y)
        BY ONLY <1>8, <2>2, x \in Nat, y \in Nat, A \in Nat, B \in Nat, E \in Nat, TripleRows
    <2>4. QkvPlace(c, x, y, r, i) = IF i <= x THEN rx + i
                                    ELSE IF i <= x + x THEN key + (rx + (i - x))
                                    ELSE two + (ry + (i - (x + x)))
        BY <1>1, <1>3, <1>6, Zenon DEF QkvPlace
    <2>5. (IF i <= x THEN A + i ELSE IF i <= x + x THEN B + (i - x) ELSE E + (i - (x + x)))
            = IF i <= x THEN rx + i ELSE IF i <= x + x THEN key + (rx + (i - x))
              ELSE two + (ry + (i - (x + x)))
        BY <2>1
    <2> QED BY <2>3, <2>4, <2>5 DEF ThreeCuts
<1> QED BY <1>8, <1>9 DEF RankQkv, Triple

\* Two cuts of the same rows are the same.
LEMMA SameCuts ==
    ASSUME NEW R, NEW s, NEW a, NEW n \in Nat, NEW w, Cut(R, w, s, a, n), NEW u, Cut(R, u, s, a, n)
    PROVE  w = u
<1>1. w \in Seq(R) /\ u \in Seq(R) /\ Len(w) = n /\ Len(u) = n
    BY DEF Cut
<1>2. \A i \in 1 .. n : w[i] = u[i]
    BY DEF Cut
<1>3. w = [i \in 1 .. n |-> w[i]] /\ u = [i \in 1 .. n |-> u[i]]
    BY <1>1
<1>4. [i \in 1 .. n |-> w[i]] = [i \in 1 .. n |-> u[i]]
    BY <1>2
<1> QED BY <1>3, <1>4

\* A sequence is a cut of itself.
LEMMA WholeCut ==
    ASSUME NEW R, NEW s \in Seq(R), NEW n \in Nat, Len(s) = n
    PROVE  Cut(R, s, s, 0, n)
BY DEF Cut

\* What a rank finds in rows packed rank by rank is its own block.
LEMMA RankIs ==
    ASSUME NEW R, NEW parts, NEW c, c.tp \in Nat \ {0}, NEW m \in Nat, Blocks(R, parts, c.tp, m),
           NEW r \in 0 .. c.tp - 1
    PROVE  Shard(c, FlattenSeq(parts), r) = parts[r + 1]
<1>1. Cut(R, Shard(c, FlattenSeq(parts), r), parts[r + 1], 0, m)
    BY RankBlock
<1>2. r + 1 \in 1 .. c.tp
    OBVIOUS
<1>3. parts[r + 1] \in Seq(R) /\ Len(parts[r + 1]) = m
    BY <1>2 DEF Blocks
<1>4. Cut(R, parts[r + 1], parts[r + 1], 0, m)
    BY <1>3, WholeCut
<1> QED BY <1>1, <1>4, SameCuts

\* Whatever the number of ranks, a rank's shard of the repacked rows is its
\* share of the queries, of the keys and of the values.
LEMMA RepackedShard ==
    ASSUME NEW R, NEW c, c.tp \in Nat \ {0}, NEW x \in Nat, NEW y \in Nat, RankDims(c, x, y),
           NEW s \in Seq(R), Len(s) = ConvDim(c), NEW r \in 0 .. c.tp - 1
    PROVE  RankQkv(R, c, Shard(c, Repack(c, s), r), s, x, y, r)
<1>1. CASE c.tp > 1
    <2> DEFINE q == Slice(s, 0, KeyDim(c))
               k == Slice(s, KeyDim(c), 2 * KeyDim(c))
               v == Slice(s, 2 * KeyDim(c), ConvDim(c))
               parts == [i \in 1 .. c.tp |->
                            Shard(c, q, i - 1) \o Shard(c, k, i - 1) \o Shard(c, v, i - 1)]
    <2>1. Repack(c, s) = FlattenSeq(parts)
        BY <1>1, Zenon DEF Repack, ReorderQkv, PerRank
    <2>2. ASSUME NEW i \in 1 .. c.tp PROVE RankQkv(R, c, parts[i], s, x, y, i - 1)
        <3>1. i - 1 \in 0 .. c.tp - 1
            OBVIOUS
        <3>2. parts[i] = Shard(c, q, i - 1) \o Shard(c, k, i - 1) \o Shard(c, v, i - 1)
            OBVIOUS
        <3>3. PICK b : b = parts[i]
            OBVIOUS
        <3>4. RankQkv(R, c, b, s, x, y, i - 1)
            BY <3>1, <3>2, <3>3, QkvBlock
        <3> QED BY <3>3, <3>4
    <2>3. Len(parts) = c.tp
        OBVIOUS
    <2> HIDE DEF parts
    <2>4. PICK m \in Nat : m = (x + x) + y
        OBVIOUS
    <2>5. Blocks(R, parts, c.tp, m)
        BY <2>2, <2>3, <2>4 DEF Blocks, RankQkv
    <2>6. Shard(c, FlattenSeq(parts), r) = parts[r + 1]
        BY ONLY <2>5, c.tp \in Nat \ {0}, r \in 0 .. c.tp - 1, m \in Nat, RankIs
    <2>7. r + 1 \in 1 .. c.tp /\ (r + 1) - 1 = r
        OBVIOUS
    <2>8. RankQkv(R, c, parts[r + 1], s, x, y, (r + 1) - 1)
        BY <2>2, <2>7
    <2> QED BY <2>1, <2>6, <2>7, <2>8
<1>2. CASE ~(c.tp > 1)
    <2>1. c.tp = 1 /\ r = 0
        BY <1>2
    <2>2. PICK m \in Nat : m = (x + x) + y
        OBVIOUS
    <2>3. KeyDim(c) = x /\ Len(s) = 1 * m
        BY <2>1, <2>2 DEF RankDims
    <2>4. Cut(R, Shard(c, s, r), s, r * m, m)
        BY <2>1, <2>3, ShardAt
    <2>5. r * m = 0 /\ r * x = 0 /\ r * y = 0
        BY <2>1
    <2>6. ASSUME NEW i \in 1 .. m PROVE QkvPlace(c, x, y, r, i) = 0 + i
        BY <2>2, <2>3, <2>5 DEF QkvPlace
    <2>7. Repack(c, s) = s
        BY <1>2 DEF Repack
    <2> QED BY <2>2, <2>4, <2>5, <2>6, <2>7 DEF RankQkv, Cut
<1> QED BY <1>1, <1>2

\* Four parts behind one another, sliced.
Sliced(g, a, b, e, h, x, y, z) ==
    /\ Slice(g, 0, x) = a /\ Slice(g, x, x + y) = b
    /\ Slice(g, x + y, (x + y) + z) = e /\ Slice(g, (x + y) + z, Len(g)) = h

\* They are the parts.
LEMMA FourSlices ==
    ASSUME NEW R, NEW a \in Seq(R), NEW b \in Seq(R), NEW e \in Seq(R), NEW h \in Seq(R),
           NEW x \in Nat, NEW y \in Nat, NEW z \in Nat, NEW w \in Nat, Len(a) = x, Len(b) = y,
           Len(e) = z, Len(h) = w, NEW g, g = a \o b \o e \o h
    PROVE  Sliced(g, a, b, e, h, x, y, z)
<1>1. /\ g \in Seq(R) /\ Len(g) = ((x + y) + z) + w
      /\ Cut(R, a, g, 0, x) /\ Cut(R, b, g, x, y) /\ Cut(R, e, g, x + y, z)
      /\ Cut(R, h, g, (x + y) + z, w)
    <2>1. Quadruple(R, g, a, b, e, h, x, y, z, w)
        BY Four
    <2> QED BY <2>1, Zenon DEF Quadruple
<1>2. PICK p \in Nat, q \in Nat, n \in Nat :
        p = x + y /\ q = (x + y) + z /\ n = Len(g) /\ n = ((x + y) + z) + w
    <2>1. x + y \in Nat /\ (x + y) + z \in Nat /\ ((x + y) + z) + w \in Nat
        OBVIOUS
    <2> QED BY <1>1, <2>1
<1>3. /\ 0 <= x /\ x <= p /\ p <= q /\ q <= n /\ x <= n /\ p <= n /\ n <= Len(g)
      /\ x - 0 = x /\ p - x = y /\ q - p = z /\ n - q = w
    BY <1>2
<1>4. Cut(R, Slice(g, 0, x), g, 0, x) /\ Cut(R, Slice(g, x, p), g, x, y)
    <2>1. x <= Len(g) /\ p <= Len(g)
        BY <1>2, <1>3
    <2>2. Cut(R, Slice(g, 0, x), g, 0, x - 0)
        BY ONLY <1>1, <1>3, <2>1, x \in Nat, 0 \in Nat, SliceAt
    <2>3. Cut(R, Slice(g, x, p), g, x, p - x)
        BY ONLY <1>1, <1>3, <2>1, x \in Nat, p \in Nat, SliceAt
    <2> QED BY <1>3, <2>2, <2>3
<1>5. Cut(R, Slice(g, p, q), g, p, z) /\ Cut(R, Slice(g, q, n), g, q, w)
    <2>1. q <= Len(g)
        BY <1>2, <1>3
    <2>2. Cut(R, Slice(g, p, q), g, p, q - p)
        BY ONLY <1>1, <1>3, <2>1, p \in Nat, q \in Nat, SliceAt
    <2>3. Cut(R, Slice(g, q, n), g, q, n - q)
        BY ONLY <1>1, <1>3, q \in Nat, n \in Nat, SliceAt
    <2> QED BY <1>3, <2>2, <2>3
<1>6. Cut(R, b, g, x, y) /\ Cut(R, e, g, p, z) /\ Cut(R, h, g, q, w)
    BY <1>1, <1>2
<1>7. Slice(g, 0, x) = a
    BY <1>1, <1>4, SameCuts
<1>8. Slice(g, x, p) = b
    BY <1>4, <1>6, SameCuts
<1>9. Slice(g, p, q) = e
    BY <1>5, <1>6, SameCuts
<1>10. Slice(g, q, n) = h
    BY <1>5, <1>6, SameCuts
<1> QED BY <1>2, <1>7, <1>8, <1>9, <1>10 DEF Sliced

\* g cut at x and at x + y is a, b and e.
Thirds(g, a, b, e, x, y) ==
    Slice(g, 0, x) = a /\ Slice(g, x, x + y) = b /\ Slice(g, x + y, Len(g)) = e

\* Three parts behind one another, sliced.
LEMMA ThreeSlices ==
    ASSUME NEW R, NEW a \in Seq(R), NEW b \in Seq(R), NEW e \in Seq(R),
           NEW x \in Nat, NEW y \in Nat, NEW z \in Nat, Len(a) = x, Len(b) = y, Len(e) = z,
           NEW g, g = a \o b \o e
    PROVE  Thirds(g, a, b, e, x, y)
<1>1. /\ g \in Seq(R) /\ Len(g) = (x + y) + z
      /\ Cut(R, a, g, 0, x) /\ Cut(R, b, g, x, y) /\ Cut(R, e, g, x + y, z)
    <2>1. Triple(R, g, a, b, e, x, y, z)
        BY Three
    <2> QED BY <2>1, Zenon DEF Triple
<1>2. PICK p \in Nat, n \in Nat : p = x + y /\ n = Len(g) /\ n = (x + y) + z
    <2>1. x + y \in Nat /\ (x + y) + z \in Nat
        OBVIOUS
    <2> QED BY <1>1, <2>1
<1>3. /\ 0 <= x /\ x <= p /\ p <= n /\ x <= Len(g) /\ p <= Len(g) /\ n <= Len(g)
      /\ x - 0 = x /\ p - x = y /\ n - p = z
    BY <1>2
<1>4. Cut(R, Slice(g, 0, x), g, 0, x) /\ Cut(R, Slice(g, x, p), g, x, y)
    <2>1. Cut(R, Slice(g, 0, x), g, 0, x - 0)
        BY ONLY <1>1, <1>3, x \in Nat, 0 \in Nat, SliceAt
    <2>2. Cut(R, Slice(g, x, p), g, x, p - x)
        BY ONLY <1>1, <1>3, x \in Nat, p \in Nat, SliceAt
    <2> QED BY <1>3, <2>1, <2>2
<1>5. Cut(R, Slice(g, p, n), g, p, z)
    <2>1. Cut(R, Slice(g, p, n), g, p, n - p)
        BY ONLY <1>1, <1>3, p \in Nat, n \in Nat, SliceAt
    <2> QED BY <1>3, <2>1
<1>6. Cut(R, b, g, x, y) /\ Cut(R, e, g, p, z)
    BY <1>1, <1>2
<1>7. Slice(g, 0, x) = a
    BY <1>1, <1>4, SameCuts
<1>8. Slice(g, x, p) = b
    BY <1>4, <1>6, SameCuts
<1>9. Slice(g, p, n) = e
    BY <1>5, <1>6, SameCuts
<1> QED BY <1>2, <1>7, <1>8, <1>9 DEF Thirds

\* A rank's fused projection, sliced as _project_inputs slices it, is its
\* shards of the four inputs.
FusedSlices(c, w, u, z, a, b, n, y, v, r) ==
    /\ Slice(w, 0, n) = Shard(c, u, r) /\ Slice(w, n, n + y) = Shard(c, z, r)
    /\ Slice(w, n + y, (n + y) + v) = Shard(c, a, r)
    /\ Slice(w, (n + y) + v, Len(w)) = Shard(c, b, r)

\* Every rank's shard has n rows.
HasShards(R, c, u, n) ==
    \A q \in 0 .. c.tp - 1 : Shard(c, u, q) \in Seq(R) /\ Len(Shard(c, u, q)) = n

\* As it has when the ranks divide the rows.
LEMMA DividedShards ==
    ASSUME NEW R, NEW c, c.tp \in Nat \ {0}, NEW n \in Nat, NEW s \in Seq(R), Len(s) = c.tp * n
    PROVE  HasShards(R, c, s, n)
<1>1. ASSUME NEW q \in 0 .. c.tp - 1 PROVE Shard(c, s, q) \in Seq(R) /\ Len(Shard(c, s, q)) = n
    <2>1. Cut(R, Shard(c, s, q), s, q * n, n)
        BY ShardAt
    <2> QED BY <2>1 DEF Cut
<1> QED BY <1>1 DEF HasShards

\* build_deltanet_in_proj_fused, and what a rank finds of it.
LEMMA FusedShard ==
    ASSUME NEW R, NEW c, c.tp \in Nat \ {0}, NEW n \in Nat, NEW y \in Nat, NEW v \in Nat,
           NEW u, HasShards(R, c, u, n), NEW z, HasShards(R, c, z, y),
           NEW a, HasShards(R, c, a, v), NEW b, HasShards(R, c, b, v), NEW r \in 0 .. c.tp - 1
    PROVE  FusedSlices(c, Shard(c, InProjFused(c, u, z, a, b), r), u, z, a, b, n, y, v, r)
<1> DEFINE parts == [i \in 1 .. c.tp |-> Shard(c, u, i - 1) \o Shard(c, z, i - 1)
                                             \o Shard(c, a, i - 1) \o Shard(c, b, i - 1)]
<1>1. InProjFused(c, u, z, a, b) = FlattenSeq(parts)
    BY Zenon DEF InProjFused, PerRank
<1>2. PICK m \in Nat : m = ((n + y) + v) + v
    OBVIOUS
<1>3. ASSUME NEW q \in 0 .. c.tp - 1, NEW g,
             g = Shard(c, u, q) \o Shard(c, z, q) \o Shard(c, a, q) \o Shard(c, b, q)
      PROVE  g \in Seq(R) /\ Len(g) = m /\ FusedSlices(c, g, u, z, a, b, n, y, v, q)
    <2>1. PICK s1 \in Seq(R), s2 \in Seq(R), s3 \in Seq(R), s4 \in Seq(R) :
            /\ s1 = Shard(c, u, q) /\ s2 = Shard(c, z, q) /\ s3 = Shard(c, a, q)
            /\ s4 = Shard(c, b, q)
            /\ Len(s1) = n /\ Len(s2) = y /\ Len(s3) = v /\ Len(s4) = v
        BY DEF HasShards
    <2>2. g = s1 \o s2 \o s3 \o s4
        BY <1>3, <2>1
    <2>3. Quadruple(R, g, s1, s2, s3, s4, n, y, v, v)
        BY <2>1, <2>2, Four
    <2>4. Sliced(g, s1, s2, s3, s4, n, y, v)
        BY <2>1, <2>2, FourSlices
    <2>5. g \in Seq(R) /\ Len(g) = m
        BY <1>2, <2>3 DEF Quadruple
    <2>6. FusedSlices(c, g, u, z, a, b, n, y, v, q)
        BY <2>1, <2>4, Zenon DEF Sliced, FusedSlices
    <2> QED BY <2>5, <2>6
<1>4. Blocks(R, parts, c.tp, m)
    <2>1. ASSUME NEW i \in 1 .. c.tp PROVE parts[i] \in Seq(R) /\ Len(parts[i]) = m
        <3>1. i - 1 \in 0 .. c.tp - 1
            OBVIOUS
        <3>2. PICK g : g = parts[i]
            OBVIOUS
        <3>3. g = Shard(c, u, i - 1) \o Shard(c, z, i - 1) \o Shard(c, a, i - 1)
                    \o Shard(c, b, i - 1)
            BY <3>2
        <3>4. PICK q \in 0 .. c.tp - 1 : q = i - 1
            BY <3>1
        <3>5. g = Shard(c, u, q) \o Shard(c, z, q) \o Shard(c, a, q) \o Shard(c, b, q)
            BY <3>3, <3>4
        <3>6. g \in Seq(R) /\ Len(g) = m
            BY <1>3, <3>5, Zenon
        <3> QED BY <3>2, <3>6
    <2>2. Len(parts) = c.tp
        OBVIOUS
    <2> HIDE DEF parts
    <2> QED BY <2>1, <2>2 DEF Blocks
<1>5. parts[r + 1] = Shard(c, u, r) \o Shard(c, z, r) \o Shard(c, a, r) \o Shard(c, b, r)
    <2>1. r + 1 \in 1 .. c.tp /\ (r + 1) - 1 = r
        OBVIOUS
    <2> QED BY <2>1
<1> HIDE DEF parts
<1>6. PICK g : g = parts[r + 1]
    OBVIOUS
<1>7. Shard(c, FlattenSeq(parts), r) = g
    BY <1>4, <1>6, RankIs
<1>8. FusedSlices(c, g, u, z, a, b, n, y, v, r)
    <2>1. g = Shard(c, u, r) \o Shard(c, z, r) \o Shard(c, a, r) \o Shard(c, b, r)
        BY <1>5, <1>6
    <2> QED BY <1>3, <2>1
<1> QED BY <1>1, <1>7, <1>8

(***************************************************************************)
(* The rows of the checkpoint: row i of name n of owner q is <<<<q, n>>, i>>. *)
(***************************************************************************)
\* The rows of a parameter of size rows.
RawRows(q, n, size) == [i \in 1 .. size |-> <<<<q, n>>, i - 1>>]

\* R has every row there could be of name n of owner q.
HasRows(R, q, n) == \A i \in Nat : <<<<q, n>>, i>> \in R

\* Such rows there are, for any names.
LEMMA RowsExist ==
    ASSUME NEW q, NEW names
    PROVE  \E R : \A n \in names : HasRows(R, q, n)
<1>1. PICK R : R = {<<<<q, x[1]>>, x[2]>> : x \in names \X Nat}
    OBVIOUS
<1>2. ASSUME NEW n \in names PROVE HasRows(R, q, n)
    <2>1. ASSUME NEW i \in Nat PROVE <<<<q, n>>, i>> \in R
        <3>1. PICK x : x = <<n, i>>
            OBVIOUS
        <3>2. x \in names \X Nat /\ x[1] = n /\ x[2] = i
            BY <3>1
        <3>3. <<<<q, x[1]>>, x[2]>> \in R
            BY <1>1, <3>2
        <3> QED BY <3>2, <3>3
    <2> QED BY <2>1 DEF HasRows
<1> QED BY <1>2, Zenon

\* They are a sequence.
LEMMA RawSequence ==
    ASSUME NEW q, NEW n, NEW size \in Nat, NEW R, HasRows(R, q, n)
    PROVE  /\ RawRows(q, n, size) \in Seq(R) /\ Len(RawRows(q, n, size)) = size
           /\ \A i \in 1 .. size : RawRows(q, n, size)[i] = <<<<q, n>>, i - 1>>
<1> DEFINE s == [i \in 1 .. size |-> <<<<q, n>>, i - 1>>]
<1>1. PICK k : k = <<q, n>>
    OBVIOUS
<1>2. ASSUME NEW i \in 1 .. size PROVE <<k, i - 1>> \in R
    <2>1. PICK j \in Nat : j = i - 1
        OBVIOUS
    <2>2. <<<<q, n>>, j>> \in R
        BY DEF HasRows
    <2> QED BY <1>1, <2>1, <2>2
<1>3. s = [i \in 1 .. size |-> <<k, i - 1>>]
    BY <1>1
<1> HIDE DEF s
<1>4. s \in Seq(R) /\ Len(s) = size /\ \A i \in 1 .. size : s[i] = <<k, i - 1>>
    BY <1>2, <1>3
<1> QED BY <1>1, <1>4 DEF RawRows, s

\* w is rank r's share, of m rows, of the rows named n of owner o.
ShareRows(w, o, n, m, r) == \A j \in 0 .. m - 1 : w[j + 1] = <<<<o, n>>, r * m + j>>

\* A rank's share of them.
LEMMA RawShard ==
    ASSUME NEW q, NEW n, NEW c, c.tp \in Nat \ {0}, NEW m \in Nat, NEW r \in 0 .. c.tp - 1,
           NEW size, size = c.tp * m
    PROVE  ShareRows(Shard(c, RawRows(q, n, size), r), q, n, m, r)
<1>1. PICK R : HasRows(R, q, n)
    <2>1. PICK R : \A x \in {n} : HasRows(R, q, x)
        BY RowsExist
    <2> QED BY <2>1
<1>2. PICK N \in Nat : N = size /\ N = c.tp * m
    <2>1. c.tp * m \in Nat
        OBVIOUS
    <2> QED BY <2>1
<1>6. PICK s \in Seq(R) :
        s = RawRows(q, n, size) /\ Len(s) = N /\ \A i \in 1 .. N : s[i] = <<<<q, n>>, i - 1>>
    <2>1. /\ RawRows(q, n, N) \in Seq(R) /\ Len(RawRows(q, n, N)) = N
          /\ \A i \in 1 .. N : RawRows(q, n, N)[i] = <<<<q, n>>, i - 1>>
        BY <1>1, RawSequence
    <2> QED BY <1>2, <2>1
<1>3. /\ Cut(R, Shard(c, s, r), s, r * m, m)
      /\ r * m \in Nat /\ r * m + m <= c.tp * m
    BY <1>2, <1>6, ShardAt
<1>4. PICK a \in Nat : a = r * m /\ a + m <= N
    BY <1>2, <1>3
<1>5. ASSUME NEW j \in 0 .. m - 1
      PROVE  Shard(c, s, r)[j + 1] = <<<<q, n>>, a + j>>
    <2>1. j + 1 \in 1 .. m
        OBVIOUS
    <2>2. Shard(c, s, r)[j + 1] = s[a + (j + 1)]
        BY <1>3, <1>4, <2>1 DEF Cut
    <2>3. a + (j + 1) \in 1 .. N /\ (a + (j + 1)) - 1 = a + j
        BY <1>4
    <2> QED BY <1>6, <2>2, <2>3
<1> QED BY <1>2, <1>6, <1>4, <1>5 DEF ShareRows

\* The rows of the other parameters of a DeltaNet layer, and of its name.
LEMMA DeltaNetSizes ==
    ASSUME NEW c
    PROVE  /\ LayerRows(c, TRUE)["in_proj_z"] = ValueDim(c)
           /\ LayerRows(c, TRUE)["in_proj_a"] = c.nv /\ LayerRows(c, TRUE)["in_proj_b"] = c.nv
           /\ LayerRows(c, TRUE)["A_log"] = c.nv /\ LayerRows(c, TRUE)["dt_bias"] = c.nv
           /\ LayerRows(c, TRUE)["out_proj"] = ValueDim(c)
<1> DEFINE f == LinearRows(c)
           g == Over(NormRows, MlpRows)
<1>1. LayerRows(c, TRUE) = Over(f, g)
    BY DEF LayerRows
<1>2. PICK x, y, z : x = ConvDim(c) /\ y = ValueDim(c) /\ z = c.nv
    OBVIOUS
<1>3. f = [in_proj_qkv |-> x, in_proj_z |-> y, in_proj_a |-> z, in_proj_b |-> z, conv1d |-> x,
           A_log |-> z, dt_bias |-> z, gated_norm |-> 1, out_proj |-> y]
    BY <1>2, Zenon DEF LinearRows
<1> HIDE DEF f, g
<1>4. /\ {"in_proj_z", "in_proj_a", "in_proj_b", "A_log", "dt_bias", "out_proj"} \subseteq DOMAIN f
      /\ f["in_proj_z"] = y /\ f["in_proj_a"] = z /\ f["in_proj_b"] = z
      /\ f["A_log"] = z /\ f["dt_bias"] = z /\ f["out_proj"] = y
    BY ONLY <1>3
<1>5. \A n \in DOMAIN f : Over(f, g)[n] = f[n]
    BY OverKeys
<1> QED BY <1>1, <1>2, <1>4, <1>5

\* A rank's qkv rows are rows of name n of o, at the places of its share.
RankRows(c, w, o, n, x, y, r) ==
    /\ Len(w) = (x + x) + y
    /\ \A i \in 1 .. (x + x) + y : w[i] = <<<<o, n>>, QkvPlace(c, x, y, r, i) - 1>>

\* A rank's share is within the rows.
LEMMA PlaceWithin ==
    ASSUME NEW c, c.tp \in Nat \ {0}, NEW x \in Nat, NEW y \in Nat, RankDims(c, x, y),
           NEW r \in 0 .. c.tp - 1, NEW i \in 1 .. (x + x) + y
    PROVE  QkvPlace(c, x, y, r, i) \in 1 .. ConvDim(c)
<1>1. PICK t \in Nat \ {0} : t = c.tp
    OBVIOUS
<1>2. PICK rx \in Nat, ry \in Nat, tx \in Nat, ty \in Nat :
        /\ rx = r * x /\ ry = r * y /\ tx = t * x /\ ty = t * y
        /\ rx + x <= tx /\ ry + y <= ty
    <2>1. r + 1 \in Nat /\ r \in Nat /\ r + 1 <= t
        BY <1>1
    <2>2. (r + 1) * x <= t * x /\ (r + 1) * y <= t * y
        BY <2>1, Grows
    <2>3. /\ (r + 1) * x = r * x + x /\ (r + 1) * y = r * y + y
          /\ r * x \in Nat /\ r * y \in Nat /\ t * x \in Nat /\ t * y \in Nat
        BY <2>1
    <2> QED BY <2>2, <2>3
<1>3. KeyDim(c) = tx /\ ConvDim(c) = 2 * tx + ty
    BY <1>1, <1>2 DEF RankDims, ConvDim
<1>4. QkvPlace(c, x, y, r, i) = IF i <= x THEN rx + i
                                ELSE IF i <= x + x THEN tx + (rx + (i - x))
                                ELSE 2 * tx + (ry + (i - (x + x)))
    BY <1>2, <1>3, Zenon DEF QkvPlace
<1> QED BY <1>2, <1>3, <1>4

\* The repacked rows of the checkpoint.
LEMMA RepackedRows ==
    ASSUME NEW R, NEW c, c.tp \in Nat \ {0}, NEW x \in Nat, NEW y \in Nat, RankDims(c, x, y),
           NEW o, NEW n, HasRows(R, o, n), NEW r \in 0 .. c.tp - 1, ConvDim(c) \in Nat
    PROVE  /\ Shard(c, Repack(c, RawRows(o, n, ConvDim(c))), r) \in Seq(R)
           /\ RankRows(c, Shard(c, Repack(c, RawRows(o, n, ConvDim(c))), r), o, n, x, y, r)
<1>1. PICK s \in Seq(R) :
        /\ s = RawRows(o, n, ConvDim(c)) /\ Len(s) = ConvDim(c)
        /\ \A i \in 1 .. ConvDim(c) : s[i] = <<<<o, n>>, i - 1>>
    BY RawSequence
<1>2. RankQkv(R, c, Shard(c, Repack(c, s), r), s, x, y, r)
    BY <1>1, RepackedShard
<1>3. PICK w : w = Shard(c, Repack(c, s), r)
    OBVIOUS
<1>4. /\ w \in Seq(R) /\ Len(w) = (x + x) + y
      /\ \A i \in 1 .. (x + x) + y : w[i] = s[QkvPlace(c, x, y, r, i)]
    BY <1>2, <1>3, Zenon DEF RankQkv
<1>5. ASSUME NEW i \in 1 .. (x + x) + y
      PROVE  w[i] = <<<<o, n>>, QkvPlace(c, x, y, r, i) - 1>>
    <2>1. PICK j \in 1 .. ConvDim(c) : j = QkvPlace(c, x, y, r, i)
        BY PlaceWithin
    <2> QED BY <1>1, <1>4, <2>1
<1>6. RankRows(c, w, o, n, x, y, r)
    BY <1>4, <1>5 DEF RankRows
<1> QED BY <1>1, <1>3, <1>4, <1>6

\* The query, the key and the value rows of a rank.
SplitRows(c, q, k, v, o, n, x, y, r) ==
    /\ \A i \in 0 .. x - 1 : /\ q[i + 1] = <<<<o, n>>, r * x + i>>
                             /\ k[i + 1] = <<<<o, n>>, KeyDim(c) + (r * x + i)>>
    /\ \A i \in 0 .. y - 1 : v[i + 1] = <<<<o, n>>, 2 * KeyDim(c) + (r * y + i)>>

\* They are what SplitQkv cuts a rank's qkv rows into.
LEMMA SplitQkvRows ==
    ASSUME NEW R, NEW c, KeyDim(c) \in Nat, NEW x \in Nat, NEW y \in Nat, NEW o, NEW n,
           NEW w \in Seq(R),
           NEW r \in Nat, RankRows(c, w, o, n, x, y, r)
    PROVE  SplitRows(c, Slice(w, 0, x), Slice(w, x, 2 * x), Slice(w, 2 * x, Len(w)), o, n, x, y, r)
<1>1. PICK two \in Nat, all \in Nat : /\ two = 2 * x /\ two = x + x /\ all = two + y
                                      /\ all = (x + x) + y
    <2>1. 2 * x \in Nat /\ 2 * x = x + x /\ (x + x) + y \in Nat
        OBVIOUS
    <2> QED BY <2>1
<1>2. Len(w) = all /\ \A i \in 1 .. all : w[i] = <<<<o, n>>, QkvPlace(c, x, y, r, i) - 1>>
    BY <1>1 DEF RankRows
<1>3. PICK q, k, v : q = Slice(w, 0, x) /\ k = Slice(w, x, two) /\ v = Slice(w, two, all)
    OBVIOUS
<1>4. /\ 0 <= x /\ x <= Len(w) /\ x - 0 = x /\ x <= two /\ two <= Len(w) /\ two - x = x
      /\ two <= all /\ all <= Len(w) /\ all - two = y
    BY <1>1, <1>2
<1>5. Cut(R, Slice(w, 0, x), w, 0, x - 0)
    BY ONLY <1>4, w \in Seq(R), x \in Nat, 0 \in Nat, SliceAt
<1>6. Cut(R, Slice(w, x, two), w, x, two - x)
    BY ONLY <1>4, w \in Seq(R), x \in Nat, two \in Nat, SliceAt
<1>7. Cut(R, Slice(w, two, all), w, two, all - two)
    BY ONLY <1>4, w \in Seq(R), two \in Nat, all \in Nat, SliceAt
<1>8. Cut(R, q, w, 0, x) /\ Cut(R, k, w, x, x) /\ Cut(R, v, w, two, y)
    BY <1>3, <1>4, <1>5, <1>6, <1>7
<1>9. PICK rx \in Nat, ry \in Nat, key \in Nat : rx = r * x /\ ry = r * y /\ key = KeyDim(c)
    <2>1. r * x \in Nat /\ r * y \in Nat
        OBVIOUS
    <2> QED BY <2>1
<1>10. \A i : QkvPlace(c, x, y, r, i) = IF i <= x THEN rx + i
                                        ELSE IF i <= x + x THEN key + (rx + (i - x))
                                        ELSE 2 * key + (ry + (i - (x + x)))
    BY <1>9, Zenon DEF QkvPlace
<1>11. ASSUME NEW i \in 0 .. x - 1
       PROVE  q[i + 1] = <<<<o, n>>, rx + i>> /\ k[i + 1] = <<<<o, n>>, key + (rx + i)>>
    <2>1. i + 1 \in 1 .. x
        OBVIOUS
    <2>2. q[i + 1] = w[0 + (i + 1)] /\ k[i + 1] = w[x + (i + 1)]
        BY <1>8, <2>1 DEF Cut
    <2>3. PICK a \in 1 .. all, b \in 1 .. all : a = 0 + (i + 1) /\ b = x + (i + 1)
        BY <1>1
    <2>4. QkvPlace(c, x, y, r, a) - 1 = rx + i
        <3>1. QkvPlace(c, x, y, r, a) = IF a <= x THEN rx + a
                                        ELSE IF a <= x + x THEN key + (rx + (a - x))
                                        ELSE 2 * key + (ry + (a - (x + x)))
            BY <1>10
        <3> QED BY <2>3, <3>1
    <2>5. QkvPlace(c, x, y, r, b) - 1 = key + (rx + i)
        <3>1. QkvPlace(c, x, y, r, b) = IF b <= x THEN rx + b
                                        ELSE IF b <= x + x THEN key + (rx + (b - x))
                                        ELSE 2 * key + (ry + (b - (x + x)))
            BY <1>10
        <3> QED BY <2>3, <3>1
    <2> QED BY <1>2, <2>2, <2>3, <2>4, <2>5
<1>12. ASSUME NEW i \in 0 .. y - 1
       PROVE  v[i + 1] = <<<<o, n>>, 2 * key + (ry + i)>>
    <2>1. i + 1 \in 1 .. y
        OBVIOUS
    <2>2. v[i + 1] = w[two + (i + 1)]
        BY <1>8, <2>1 DEF Cut
    <2>3. PICK a \in 1 .. all : a = two + (i + 1)
        BY <1>1
    <2>4. QkvPlace(c, x, y, r, a) - 1 = 2 * key + (ry + i)
        <3>1. QkvPlace(c, x, y, r, a) = IF a <= x THEN rx + a
                                        ELSE IF a <= x + x THEN key + (rx + (a - x))
                                        ELSE 2 * key + (ry + (a - (x + x)))
            BY <1>10
        <3> QED BY <1>1, <2>3, <3>1
    <2> QED BY <1>2, <2>2, <2>3, <2>4
<1> QED BY <1>1, <1>2, <1>3, <1>9, <1>11, <1>12 DEF SplitRows

\* Row i of head j of a rank that has n heads of d rows each, in its rows and
\* in the whole.
LEMMA HeadPlace ==
    ASSUME NEW r \in Nat, NEW n \in Nat, NEW d \in Nat, NEW j \in 0 .. n - 1, NEW i \in 0 .. d - 1
    PROVE  /\ j * d + i \in 0 .. n * d - 1
           /\ r * (n * d) + (j * d + i) = (r * n + j) * d + i
<1>1. (j + 1) * d <= n * d /\ (j + 1) * d = j * d + d /\ j * d \in Nat /\ n * d \in Nat
    <2>1. j + 1 \in Nat /\ j + 1 <= n
        OBVIOUS
    <2>2. (j + 1) * d <= n * d
        BY <2>1, Grows
    <2> QED BY <2>2
<1>2. PICK a \in Nat, b \in Nat : a = j * d /\ b = n * d /\ a + d <= b
    BY <1>1
<1>3. a + i \in 0 .. b - 1
    BY <1>2
<1>4. r * (n * d) = (r * n) * d
    OBVIOUS
<1>5. (r * n + j) * d = (r * n) * d + j * d
    <2>1. PICK m \in Nat : m = r * n
        <3>1. r * n \in Nat
            OBVIOUS
        <3> QED BY <3>1
    <2>2. (m + j) * d = m * d + j * d
        OBVIOUS
    <2> QED BY <2>1, <2>2
<1>6. PICK e \in Nat : e = (r * n) * d
    <2>1. r * n \in Nat
        OBVIOUS
    <2>2. (r * n) * d \in Nat
        BY <2>1
    <2> QED BY <2>2
<1> QED BY <1>2, <1>3, <1>4, <1>5, <1>6

\* Value head j of a rank's v = k * p reads one of its k key heads, the one the
\* whole model's value head reads.
KeyHead(r, k, p, v, j) == j \div p \in 0 .. k - 1 /\ (r * v + j) \div p = r * k + (j \div p)

\* The key head of value head j of rank r, there and in the whole.
LEMMA KeyHeads ==
    ASSUME NEW r \in Nat, NEW k \in Nat \ {0}, NEW p \in Nat \ {0}, NEW v, v = k * p,
           NEW j \in 0 .. v - 1
    PROVE  KeyHead(r, k, p, v, j)
<1>1. v \in Nat /\ j \in Nat
    BY SMT
<1>2. PICK q \in Nat : q = j \div p /\ p * q <= j /\ j < p * (q + 1)
    BY <1>1, Quotient
<1>3. q < k
    <2>1. CASE k <= q
        <3>1. p * k <= p * q
            BY <2>1, Grows
        <3>2. p * k = k * p
            OBVIOUS
        <3> QED BY <1>1, <1>2, <3>1, <3>2
    <2> QED BY <2>1
<1>4. PICK m \in Nat : m = r * k + q
    <2>1. r * k \in Nat
        OBVIOUS
    <2> QED BY <2>1
<1>5. PICK e \in 0 .. p - 1 : j = p * q + e
    <2>1. PICK a \in Nat : a = p * q /\ p * (q + 1) = a + p
        <3>1. p * q \in Nat /\ p * (q + 1) = p * q + p
            OBVIOUS
        <3> QED BY <3>1
    <2>2. j - a \in 0 .. p - 1 /\ j = a + (j - a)
        BY <1>1, <1>2, <2>1
    <2> QED BY <2>1, <2>2
<1>6. r * v + j = p * m + e
    <2>1. r * (k * p) = p * (r * k)
        OBVIOUS
    <2>2. PICK b \in Nat, a \in Nat : b = r * k /\ a = p * q /\ p * b \in Nat
        <3>1. r * k \in Nat /\ p * q \in Nat /\ p * (r * k) \in Nat
            OBVIOUS
        <3> QED BY <3>1
    <2>3. p * (b + q) = p * b + p * q
        OBVIOUS
    <2>4. r * v = p * b
        BY <2>1, <2>2
    <2>5. p * m = p * b + a
        BY <1>4, <2>2, <2>3
    <2>6. PICK f \in Nat : f = p * b /\ r * v = f /\ p * m = f + a /\ j = a + e
        BY <1>5, <2>2, <2>4, <2>5
    <2>7. f + (a + e) = (f + a) + e
        OBVIOUS
    <2> QED BY ONLY <2>6, <2>7, Zenon
<1>7. (p * m + e) \div p = m
    BY Between
<1>8. q \in 0 .. k - 1
    BY <1>3
<1>9. (r * v + j) \div p = m
    BY <1>6, <1>7, Zenon
<1>10. r * k + (j \div p) = m
    BY <1>2, <1>4, Zenon
<1>11. j \div p \in 0 .. k - 1
    BY <1>2, <1>8, Zenon
<1> QED BY <1>9, <1>10, <1>11, Zenon DEF KeyHead

(***************************************************************************)
(* What a converted layer holds: the checkpoint's rows, packed.             *)
(***************************************************************************)
\* The DeltaNet tensors of owner o, out of the rows of the checkpoint.
DeltaNetPacked(c, d, o) ==
    LET Raw(n) == RawRows(o, n, LayerRows(c, TRUE)[n])
    IN  /\ d[<<o, "in_proj_fused">>].rows
             = InProjFused(c, Repack(c, Raw("in_proj_qkv")), Raw("in_proj_z"), Raw("in_proj_a"),
                           Raw("in_proj_b"))
        /\ d[<<o, "conv1d_weight">>].rows = Repack(c, Raw("conv1d"))
        /\ d[<<o, "A_log_weight">>].rows = Raw("A_log")
        /\ d[<<o, "dt_bias_weight">>].rows = Raw("dt_bias")
        /\ d[<<o, "out_proj">>].rows = Raw("out_proj")

\* DeltaNetHeads of one owner, rank and value head, ...
DeltaNetHead(o, r, in, qkv, j) ==
    LET h == r * (cfg.nv \div cfg.tp) + j
        g == h \div (cfg.nv \div cfg.nk)
        Src(n, i) == <<<<o, n>>, i>>
    IN  /\ in.a[j + 1] = Src("in_proj_a", h) /\ in.b[j + 1] = Src("in_proj_b", h)
        /\ OnRank(o, "A_log_weight", r)[j + 1] = Src("A_log", h)
        /\ OnRank(o, "dt_bias_weight", r)[j + 1] = Src("dt_bias", h)
        /\ \A i \in 0 .. cfg.vd - 1 :
            /\ HeadRow(qkv.value, j, cfg.vd, i)
                 = Src("in_proj_qkv", 2 * KeyDim(cfg) + h * cfg.vd + i)
            /\ HeadRow(in.z, j, cfg.vd, i) = Src("in_proj_z", h * cfg.vd + i)
            /\ HeadRow(OnRank(o, "out_proj", r), j, cfg.vd, i) = Src("out_proj", h * cfg.vd + i)
        /\ \A i \in 0 .. cfg.kd - 1 :
            /\ HeadRow(qkv.query, KeyHeadOf(j), cfg.kd, i) = Src("in_proj_qkv", g * cfg.kd + i)
            /\ HeadRow(qkv.key, KeyHeadOf(j), cfg.kd, i)
                 = Src("in_proj_qkv", KeyDim(cfg) + g * cfg.kd + i)

\* ... and of one owner and rank.
DeltaNetRank(o, r) ==
    LET in == ProjectInputs(o, r)
        conv == OnRank(o, "conv1d_weight", r)
    IN  /\ Len(conv) = Len(in.qkv)
        /\ \A i \in DOMAIN conv : conv[i] = <<<<o, "conv1d">>, in.qkv[i][2]>>
        /\ \A j \in 0 .. cfg.nv \div cfg.tp - 1 : DeltaNetHead(o, r, in, SplitQkv(in.qkv), j)

\* A rank's fused projection, cut.
LEMMA ProjectedInputs ==
    ASSUME NEW R, cfg \in Configs, NEW t \in Nat \ {0}, NEW k \in Nat \ {0}, NEW v \in Nat \ {0},
           NEW p \in Nat \ {0}, Heads(cfg, t, k, v, p), NEW x \in Nat, NEW y \in Nat,
           RankDims(cfg, x, y), NEW o, DeltaNetPacked(cfg, sd, o), NEW r \in 0 .. cfg.tp - 1,
           \A n \in {"in_proj_qkv", "in_proj_z", "in_proj_a", "in_proj_b"} : HasRows(R, o, n)
    PROVE  ProjectInputs(o, r) =
             [qkv |-> Shard(cfg, Repack(cfg, RawRows(o, "in_proj_qkv", ConvDim(cfg))), r),
              z |-> Shard(cfg, RawRows(o, "in_proj_z", ValueDim(cfg)), r),
              a |-> Shard(cfg, RawRows(o, "in_proj_a", cfg.nv), r),
              b |-> Shard(cfg, RawRows(o, "in_proj_b", cfg.nv), r)]
<1>1. PICK c : c = cfg
    OBVIOUS
<1>2. /\ c \in Configs /\ c.tp \in Nat \ {0} /\ c.tp = t /\ c.nv = t * v
      /\ c.nv \div c.tp = v /\ c.nv \in Nat
    BY <1>1, ConfigFields DEF Heads
<1>3. PICK N \in Nat : N = (x + x) + y
    OBVIOUS
<1>4. /\ ConvDim(c) \in Nat /\ ConvDim(c) \div c.tp = N
      /\ ValueDim(c) = c.tp * y /\ ValueDim(c) \div c.tp = y /\ ValueDim(c) \in Nat
    BY <1>1, <1>2, <1>3, Dims DEF RankDims
<1>5. PICK u, z, a, b : /\ u = Repack(c, RawRows(o, "in_proj_qkv", ConvDim(c)))
                        /\ z = RawRows(o, "in_proj_z", ValueDim(c))
                        /\ a = RawRows(o, "in_proj_a", c.nv) /\ b = RawRows(o, "in_proj_b", c.nv)
    OBVIOUS
<1>6. PICK w : w = Shard(c, InProjFused(c, u, z, a, b), r)
    OBVIOUS
<1>7. OnRank(o, "in_proj_fused", r) = w
    <2>1. /\ LayerRows(c, TRUE)["in_proj_qkv"] = ConvDim(c)
          /\ LayerRows(c, TRUE)["in_proj_z"] = ValueDim(c)
          /\ LayerRows(c, TRUE)["in_proj_a"] = c.nv /\ LayerRows(c, TRUE)["in_proj_b"] = c.nv
        BY <1>2, LayerHasRows, DeltaNetSizes
    <2>2. sd[<<o, "in_proj_fused">>].rows = InProjFused(c, u, z, a, b)
        BY <1>1, <1>5, <2>1, Zenon DEF DeltaNetPacked
    <2> QED BY <1>1, <1>6, <2>2, Zenon DEF OnRank
<1>8. HasShards(R, c, u, N)
    <2>1. ASSUME NEW q \in 0 .. c.tp - 1
          PROVE  Shard(c, u, q) \in Seq(R) /\ Len(Shard(c, u, q)) = N
        <3>1. HasRows(R, o, "in_proj_qkv") /\ RankDims(c, x, y) /\ q \in 0 .. c.tp - 1
            BY <1>1
        <3>2. /\ Shard(c, Repack(c, RawRows(o, "in_proj_qkv", ConvDim(c))), q) \in Seq(R)
              /\ RankRows(c, Shard(c, Repack(c, RawRows(o, "in_proj_qkv", ConvDim(c))), q), o,
                          "in_proj_qkv", x, y, q)
            BY <1>2, <1>4, <3>1, RepackedRows
        <3> QED BY <1>3, <1>5, <3>2 DEF RankRows
    <2> QED BY <2>1 DEF HasShards
<1>9. HasShards(R, c, z, y)
    <2>1. HasRows(R, o, "in_proj_z")
        OBVIOUS
    <2>2. z \in Seq(R) /\ Len(z) = ValueDim(c)
        BY <1>4, <1>5, <2>1, RawSequence
    <2> QED BY <1>2, <1>4, <2>2, DividedShards
<1>10. HasShards(R, c, a, v) /\ HasShards(R, c, b, v)
    <2>1. HasRows(R, o, "in_proj_a") /\ HasRows(R, o, "in_proj_b")
        OBVIOUS
    <2>2. a \in Seq(R) /\ Len(a) = c.nv /\ b \in Seq(R) /\ Len(b) = c.nv
        BY <1>2, <1>5, <2>1, RawSequence
    <2>3. c.nv = c.tp * v
        BY <1>2
    <2> QED BY <1>2, <2>2, <2>3, DividedShards
<1>11. FusedSlices(c, w, u, z, a, b, N, y, v, r)
    <2>1. r \in 0 .. c.tp - 1
        BY <1>1
    <2>2. FusedSlices(c, Shard(c, InProjFused(c, u, z, a, b), r), u, z, a, b, N, y, v, r)
        BY ONLY <1>2, <1>8, <1>9, <1>10, <2>1, N \in Nat, y \in Nat, v \in Nat \ {0}, FusedShard
    <2> QED BY <1>6, <2>2
<1>12. ProjectInputs(o, r) = [qkv |-> Slice(w, 0, N), z |-> Slice(w, N, N + y),
                              a |-> Slice(w, N + y, (N + y) + v),
                              b |-> Slice(w, (N + y) + v, Len(w))]
    BY <1>1, <1>2, <1>4, <1>7, Zenon DEF ProjectInputs
<1> QED BY <1>1, <1>5, <1>11, <1>12, Zenon DEF FusedSlices

\* A rank's head is one head of the whole, with its own key head.
LEMMA DeltaNetOnRank ==
    ASSUME cfg \in Configs, ~DeltaNetRaises(cfg), NEW o, DeltaNetPacked(cfg, sd, o),
           NEW r \in 0 .. cfg.tp - 1
    PROVE  DeltaNetRank(o, r)
<1>1. PICK c : c = cfg
    OBVIOUS
<1>2. PICK t \in Nat \ {0}, k \in Nat \ {0}, v \in Nat \ {0}, p \in Nat \ {0} : Heads(c, t, k, v, p)
    BY <1>1, DeltaNetDivides
<1>3. PICK kd \in Nat \ {0}, vd \in Nat \ {0} : kd = c.kd /\ vd = c.vd
    BY <1>1, ConfigFields
<1>4. PICK x \in Nat, y \in Nat : x = k * kd /\ y = v * vd
    <2>1. k * kd \in Nat /\ v * vd \in Nat
        OBVIOUS
    <2> QED BY <2>1
<1>5. RankDims(c, x, y)
    BY <1>1, <1>2, <1>3, <1>4, RankDimensions
<1>6. PICK R : \A n \in {"in_proj_qkv", "in_proj_z", "in_proj_a", "in_proj_b", "conv1d"} :
                    HasRows(R, o, n)
    BY RowsExist
<1>7. /\ c \in Configs /\ c.tp \in Nat \ {0} /\ c.tp = t /\ r \in 0 .. c.tp - 1 /\ r \in Nat
      /\ c.nv = c.tp * v /\ c.nv \div c.tp = v /\ c.nv \div c.nk = p /\ v = k * p
      /\ (c.nv \div c.tp) \div (c.nk \div c.tp) = p
    BY <1>1, <1>2, ConfigFields DEF Heads
<1>8. /\ KeyDim(c) \in Nat /\ ConvDim(c) \in Nat /\ ValueDim(c) = c.tp * y
      /\ KeyDim(c) \div c.tp = x
    BY <1>5, <1>7, Dims DEF RankDims
<1>9. PICK in, qkv :
        /\ in = ProjectInputs(o, r) /\ qkv = in.qkv
        /\ qkv = Shard(c, Repack(c, RawRows(o, "in_proj_qkv", ConvDim(c))), r)
        /\ in.z = Shard(c, RawRows(o, "in_proj_z", ValueDim(c)), r)
        /\ in.a = Shard(c, RawRows(o, "in_proj_a", c.nv), r)
        /\ in.b = Shard(c, RawRows(o, "in_proj_b", c.nv), r)
    <2>1. \A n \in {"in_proj_qkv", "in_proj_z", "in_proj_a", "in_proj_b"} : HasRows(R, o, n)
        BY <1>6
    <2>2. ProjectInputs(o, r) =
             [qkv |-> Shard(c, Repack(c, RawRows(o, "in_proj_qkv", ConvDim(c))), r),
              z |-> Shard(c, RawRows(o, "in_proj_z", ValueDim(c)), r),
              a |-> Shard(c, RawRows(o, "in_proj_a", c.nv), r),
              b |-> Shard(c, RawRows(o, "in_proj_b", c.nv), r)]
        BY <1>1, <1>2, <1>5, <1>7, <2>1, ProjectedInputs
    <2> QED BY <2>2
<1>10. qkv \in Seq(R) /\ RankRows(c, qkv, o, "in_proj_qkv", x, y, r)
    <2>1. HasRows(R, o, "in_proj_qkv")
        BY <1>6
    <2>2. PICK w : w = Shard(c, Repack(c, RawRows(o, "in_proj_qkv", ConvDim(c))), r)
        OBVIOUS
    <2>3. w \in Seq(R) /\ RankRows(c, w, o, "in_proj_qkv", x, y, r)
        BY <1>5, <1>7, <1>8, <2>1, <2>2, RepackedRows
    <2>4. w = qkv
        BY <1>9, <2>2, Zenon
    <2> QED BY <2>3, <2>4
<1>11. PICK conv \in Seq(R) :
        conv = OnRank(o, "conv1d_weight", r) /\ RankRows(c, conv, o, "conv1d", x, y, r)
    <2>1. HasRows(R, o, "conv1d")
        BY <1>6
    <2>2. sd[<<o, "conv1d_weight">>].rows = Repack(c, RawRows(o, "conv1d", ConvDim(c)))
        <3>1. LayerRows(c, TRUE)["conv1d"] = ConvDim(c)
            BY <1>7, LayerHasRows
        <3> QED BY <1>1, <3>1, Zenon DEF DeltaNetPacked
    <2>3. OnRank(o, "conv1d_weight", r) = Shard(c, Repack(c, RawRows(o, "conv1d", ConvDim(c))), r)
        BY <1>1, <2>2, Zenon DEF OnRank
    <2>4. PICK w : w = Shard(c, Repack(c, RawRows(o, "conv1d", ConvDim(c))), r)
        OBVIOUS
    <2>5. w \in Seq(R) /\ RankRows(c, w, o, "conv1d", x, y, r)
        BY <1>5, <1>7, <1>8, <2>1, <2>4, RepackedRows
    <2> QED BY <2>3, <2>4, <2>5
<1>12. Len(conv) = Len(qkv) /\ \A i \in DOMAIN conv : conv[i] = <<<<o, "conv1d">>, qkv[i][2]>>
    <2>1. PICK N \in Nat : N = (x + x) + y
        OBVIOUS
    <2>2. /\ Len(conv) = N /\ Len(qkv) = N /\ DOMAIN conv = 1 .. N
          /\ \A i \in 1 .. N : /\ conv[i] = <<<<o, "conv1d">>, QkvPlace(c, x, y, r, i) - 1>>
                               /\ qkv[i] = <<<<o, "in_proj_qkv">>, QkvPlace(c, x, y, r, i) - 1>>
        BY <1>10, <1>11, <2>1 DEF RankRows
    <2>3. ASSUME NEW i \in 1 .. N PROVE conv[i] = <<<<o, "conv1d">>, qkv[i][2]>>
        <3>1. PICK j, a, b : /\ j = QkvPlace(c, x, y, r, i) - 1 /\ a = <<o, "conv1d">>
                             /\ b = <<o, "in_proj_qkv">>
            OBVIOUS
        <3>2. conv[i] = <<a, j>> /\ qkv[i] = <<b, j>>
            BY <2>2, <3>1
        <3>3. qkv[i][2] = j
            BY <3>2
        <3> QED BY <3>1, <3>2, <3>3
    <2> QED BY <2>2, <2>3
<1>13. PICK query, key, value :
        /\ SplitQkv(qkv) = [query |-> query, key |-> key, value |-> value]
        /\ SplitRows(c, query, key, value, o, "in_proj_qkv", x, y, r)
    <2>1. SplitQkv(qkv) = [query |-> Slice(qkv, 0, x), key |-> Slice(qkv, x, 2 * x),
                           value |-> Slice(qkv, 2 * x, Len(qkv))]
        BY <1>1, <1>8, Zenon DEF SplitQkv
    <2>2. SplitRows(c, Slice(qkv, 0, x), Slice(qkv, x, 2 * x), Slice(qkv, 2 * x, Len(qkv)),
                    o, "in_proj_qkv", x, y, r)
        BY <1>7, <1>8, <1>10, SplitQkvRows
    <2> QED BY <2>1, <2>2
<1>14. /\ \A j \in 0 .. y - 1 : in.z[j + 1] = <<<<o, "in_proj_z">>, r * y + j>>
       /\ \A j \in 0 .. v - 1 : /\ in.a[j + 1] = <<<<o, "in_proj_a">>, r * v + j>>
                                /\ in.b[j + 1] = <<<<o, "in_proj_b">>, r * v + j>>
    <2>1. PICK s1, s2 : s1 = ValueDim(c) /\ s2 = c.nv /\ s1 = c.tp * y /\ s2 = c.tp * v
        BY <1>7, <1>8
    <2>2. ShareRows(Shard(c, RawRows(o, "in_proj_z", s1), r), o, "in_proj_z", y, r)
        BY <1>7, <2>1, RawShard
    <2>3. ShareRows(Shard(c, RawRows(o, "in_proj_a", s2), r), o, "in_proj_a", v, r)
        BY <1>7, <2>1, RawShard
    <2>4. ShareRows(Shard(c, RawRows(o, "in_proj_b", s2), r), o, "in_proj_b", v, r)
        BY <1>7, <2>1, RawShard
    <2> QED BY <1>9, <2>1, <2>2, <2>3, <2>4 DEF ShareRows
<1>15. /\ \A j \in 0 .. y - 1 :
            OnRank(o, "out_proj", r)[j + 1] = <<<<o, "out_proj">>, r * y + j>>
       /\ \A j \in 0 .. v - 1 :
            /\ OnRank(o, "A_log_weight", r)[j + 1] = <<<<o, "A_log">>, r * v + j>>
            /\ OnRank(o, "dt_bias_weight", r)[j + 1] = <<<<o, "dt_bias">>, r * v + j>>
    <2>1. /\ OnRank(o, "out_proj", r) = Shard(c, RawRows(o, "out_proj", ValueDim(c)), r)
          /\ OnRank(o, "A_log_weight", r) = Shard(c, RawRows(o, "A_log", c.nv), r)
          /\ OnRank(o, "dt_bias_weight", r) = Shard(c, RawRows(o, "dt_bias", c.nv), r)
        BY <1>1, DeltaNetSizes, Zenon DEF DeltaNetPacked, OnRank
    <2>2. PICK s1, s2 : s1 = ValueDim(c) /\ s2 = c.nv /\ s1 = c.tp * y /\ s2 = c.tp * v
        BY <1>7, <1>8
    <2>3. ShareRows(Shard(c, RawRows(o, "out_proj", s1), r), o, "out_proj", y, r)
        BY <1>7, <2>2, RawShard
    <2>4. ShareRows(Shard(c, RawRows(o, "A_log", s2), r), o, "A_log", v, r)
        BY <1>7, <2>2, RawShard
    <2>5. ShareRows(Shard(c, RawRows(o, "dt_bias", s2), r), o, "dt_bias", v, r)
        BY <1>7, <2>2, RawShard
    <2> QED BY <2>1, <2>2, <2>3, <2>4, <2>5 DEF ShareRows
<1>16. ASSUME NEW j \in 0 .. v - 1
       PROVE  DeltaNetHead(o, r, in, SplitQkv(qkv), j)
    <2>1. PICK h \in Nat, g \in Nat, q \in 0 .. k - 1 :
            /\ h = r * v + j /\ g = r * k + q /\ q = j \div p /\ h \div p = g
        <3>1. j \div p \in 0 .. k - 1 /\ (r * v + j) \div p = r * k + (j \div p)
            <4>1. KeyHead(r, k, p, v, j)
                BY <1>7, KeyHeads
            <4> QED BY <4>1 DEF KeyHead
        <3>2. \A b \in 0 .. k - 1 : r * v + j \in Nat /\ r * k + b \in Nat
            BY <1>7
        <3> QED BY <3>1, <3>2
    <2>2. KeyHeadOf(j) = q
        BY <1>1, <1>7, <2>1, Zenon DEF KeyHeadOf
    <2>3. ASSUME NEW i \in 0 .. vd - 1
          PROVE  /\ HeadRow(value, j, vd, i) = <<<<o, "in_proj_qkv">>, 2 * KeyDim(c) + h * vd + i>>
                 /\ HeadRow(in.z, j, vd, i) = <<<<o, "in_proj_z">>, h * vd + i>>
                 /\ HeadRow(OnRank(o, "out_proj", r), j, vd, i) = <<<<o, "out_proj">>, h * vd + i>>
        <3>1. PICK e \in 0 .. y - 1 : e = j * vd + i /\ r * y + e = h * vd + i
            <4>1. /\ j * vd + i \in 0 .. v * vd - 1
                  /\ r * (v * vd) + (j * vd + i) = (r * v + j) * vd + i
                BY <1>7, HeadPlace
            <4> QED BY <1>4, <2>1, <4>1
        <3>2. \A s : HeadRow(s, j, vd, i) = s[e + 1]
            BY <3>1, Zenon DEF HeadRow
        <3>3. value[e + 1] = <<<<o, "in_proj_qkv">>, 2 * KeyDim(c) + (r * y + e)>>
            BY <1>13, Zenon DEF SplitRows
        <3>4. 2 * KeyDim(c) + (h * vd + i) = 2 * KeyDim(c) + h * vd + i
            <4>1. PICK a \in Nat, b \in Nat : a = 2 * KeyDim(c) /\ b = h * vd
                <5>1. 2 * KeyDim(c) \in Nat /\ h * vd \in Nat
                    BY <1>8
                <5> QED BY <5>1
            <4>2. a + (b + i) = a + b + i
                OBVIOUS
            <4> QED BY <4>1, <4>2, Zenon
        <3>5. HeadRow(value, j, vd, i) = <<<<o, "in_proj_qkv">>, 2 * KeyDim(c) + h * vd + i>>
            BY <3>1, <3>2, <3>3, <3>4, Zenon
        <3>6. HeadRow(in.z, j, vd, i) = <<<<o, "in_proj_z">>, h * vd + i>>
            BY <1>14, <3>1, <3>2, Zenon
        <3>7. HeadRow(OnRank(o, "out_proj", r), j, vd, i) = <<<<o, "out_proj">>, h * vd + i>>
            BY <1>15, <3>1, <3>2, Zenon
        <3> QED BY <3>5, <3>6, <3>7
    <2>4. ASSUME NEW i \in 0 .. kd - 1
          PROVE  /\ HeadRow(query, q, kd, i) = <<<<o, "in_proj_qkv">>, g * kd + i>>
                 /\ HeadRow(key, q, kd, i) = <<<<o, "in_proj_qkv">>, KeyDim(c) + g * kd + i>>
        <3>1. PICK e \in 0 .. x - 1 : e = q * kd + i /\ r * x + e = g * kd + i
            <4>1. /\ q * kd + i \in 0 .. k * kd - 1
                  /\ r * (k * kd) + (q * kd + i) = (r * k + q) * kd + i
                BY <1>7, HeadPlace
            <4> QED BY <1>4, <2>1, <4>1
        <3>2. \A s : HeadRow(s, q, kd, i) = s[e + 1]
            BY <3>1, Zenon DEF HeadRow
        <3>3. /\ query[e + 1] = <<<<o, "in_proj_qkv">>, r * x + e>>
              /\ key[e + 1] = <<<<o, "in_proj_qkv">>, KeyDim(c) + (r * x + e)>>
            BY <1>13, Zenon DEF SplitRows
        <3>4. KeyDim(c) + (g * kd + i) = KeyDim(c) + g * kd + i
            <4>1. PICK a \in Nat, b \in Nat : a = KeyDim(c) /\ b = g * kd
                <5>1. g * kd \in Nat
                    OBVIOUS
                <5> QED BY <1>8, <5>1
            <4>2. a + (b + i) = a + b + i
                OBVIOUS
            <4> QED BY <4>1, <4>2, Zenon
        <3> QED BY <3>1, <3>2, <3>3, <3>4, Zenon
    <2>5. /\ in.a[j + 1] = <<<<o, "in_proj_a">>, h>> /\ in.b[j + 1] = <<<<o, "in_proj_b">>, h>>
          /\ OnRank(o, "A_log_weight", r)[j + 1] = <<<<o, "A_log">>, h>>
          /\ OnRank(o, "dt_bias_weight", r)[j + 1] = <<<<o, "dt_bias">>, h>>
        BY <1>14, <1>15, <2>1, Zenon
    <2>6. PICK parts : parts = SplitQkv(qkv) /\ parts.query = query /\ parts.key = key
                       /\ parts.value = value
        BY <1>13
    <2>7. /\ r * (cfg.nv \div cfg.tp) + j = h /\ h \div (cfg.nv \div cfg.nk) = g
          /\ cfg.vd = vd /\ cfg.kd = kd /\ KeyDim(cfg) = KeyDim(c)
        BY <1>1, <1>3, <1>7, <2>1, Zenon
    <2>8. \A i \in 0 .. cfg.vd - 1 :
            /\ HeadRow(parts.value, j, cfg.vd, i)
                 = <<<<o, "in_proj_qkv">>, 2 * KeyDim(cfg) + h * cfg.vd + i>>
            /\ HeadRow(in.z, j, cfg.vd, i) = <<<<o, "in_proj_z">>, h * cfg.vd + i>>
            /\ HeadRow(OnRank(o, "out_proj", r), j, cfg.vd, i)
                 = <<<<o, "out_proj">>, h * cfg.vd + i>>
        BY <2>3, <2>6, <2>7, Zenon
    <2>9. \A i \in 0 .. cfg.kd - 1 :
            /\ HeadRow(parts.query, KeyHeadOf(j), cfg.kd, i)
                 = <<<<o, "in_proj_qkv">>, g * cfg.kd + i>>
            /\ HeadRow(parts.key, KeyHeadOf(j), cfg.kd, i)
                 = <<<<o, "in_proj_qkv">>, KeyDim(cfg) + g * cfg.kd + i>>
        BY <2>2, <2>4, <2>6, <2>7, Zenon
    <2> QED BY <2>5, <2>6, <2>7, <2>8, <2>9, Zenon DEF DeltaNetHead
<1>17. 0 .. cfg.nv \div cfg.tp - 1 = 0 .. v - 1
    BY <1>1, <1>7
<1> QED BY <1>9, <1>11, <1>12, <1>16, <1>17, Zenon DEF DeltaNetRank

(***************************************************************************)
(* The same of the fused attention: query heads, their gates, k and v.      *)
(***************************************************************************)
\* The head counts of a configuration the attention converters do not raise
\* on: G ranks share a k and v head, and every rank has Q query heads.
Groups(c, G, Q) ==
    /\ c.tp = c.nkv * G /\ c.tp \div c.nkv = G
    /\ c.nq = c.tp * Q /\ c.nq \div c.tp = Q /\ c.nq \div c.nkv = G * Q

\* A converter that does not raise gave every rank the k and v head it asked for.
LEMMA AttentionDivides ==
    ASSUME NEW c \in Configs, c.attn, ~AttentionRaises(c)
    PROVE  \E G, Q \in Nat \ {0} : Groups(c, G, Q)
<1>1. PICK t \in Nat \ {0}, n \in Nat \ {0}, q \in Nat \ {0} :
        t = c.tp /\ n = c.nkv /\ q = c.nq /\ q % t = 0
    <2>1. c.tp \in Nat \ {0} /\ c.nkv \in Nat \ {0} /\ c.nq \in Nat \ {0} /\ c.nq % c.tp = 0
        BY ConfigFields
    <2> QED BY <2>1
<1>2. PICK G \in Nat : G = t \div n /\ n * G = t
    <2>1. t \div n \in Nat /\ n * (t \div n) <= t
        BY Quotient
    <2>2. n * (t \div n) \in Nat /\ ~(n * (t \div n) < t)
        BY <1>1, <2>1 DEF AttentionRaises
    <2> QED BY <2>1, <2>2
<1>3. G \in Nat \ {0}
    <2>1. G = 0 => n * G = 0
        OBVIOUS
    <2> QED BY <1>2, <2>1
<1>4. PICK Q \in Nat \ {0} : Q = q \div t /\ q = t * Q
    <2>1. q \div t \in Nat /\ q = t * (q \div t) /\ q \div t # 0
        BY <1>1, Whole
    <2> QED BY <2>1
<1>5. q \div n = G * Q
    <2>1. PICK m \in Nat : m = G * Q
        <3>1. G * Q \in Nat
            OBVIOUS
        <3> QED BY <3>1
    <2>2. (n * G) * Q = n * (G * Q)
        OBVIOUS
    <2>3. q = n * m
        BY <1>2, <1>4, <2>1, <2>2
    <2>4. (n * m) \div n = m
        BY Multiple
    <2> QED BY <2>1, <2>3, <2>4
<1>6. c.tp = c.nkv * G /\ c.tp \div c.nkv = G /\ c.nq = c.tp * Q /\ c.nq \div c.tp = Q
      /\ c.nq \div c.nkv = G * Q
    BY <1>1, <1>2, <1>4, <1>5
<1> QED BY <1>3, <1>4, <1>6 DEF Groups

\* Query head j of rank r is of group r \div G in the whole model too.
GroupOf(r, G, Q, j) == (r * Q + j) \div (G * Q) = r \div G

\* G ranks of Q query heads each share a group.
LEMMA GroupHeads ==
    ASSUME NEW r \in Nat, NEW G \in Nat \ {0}, NEW Q \in Nat \ {0}, NEW j \in 0 .. Q - 1
    PROVE  GroupOf(r, G, Q, j)
<1>1. PICK e \in Nat : e = r \div G /\ G * e <= r /\ r < G * (e + 1)
    <2>1. r \div G \in Nat /\ G * (r \div G) <= r /\ r < G * ((r \div G) + 1)
        BY Quotient
    <2> QED BY <2>1
<1>2. PICK f \in 0 .. G - 1 : r = e * G + f
    <2>1. PICK a \in Nat : a = G * e /\ a = e * G /\ G * (e + 1) = a + G
        <3>1. G * e \in Nat /\ G * e = e * G /\ G * (e + 1) = G * e + G
            OBVIOUS
        <3> QED BY <3>1
    <2>2. r - a \in 0 .. G - 1 /\ r = a + (r - a)
        BY <1>1, <2>1
    <2> QED BY <2>1, <2>2
<1>3. PICK m \in Nat \ {0}, p \in Int : m = G * Q /\ p = f * Q + j
    <2>1. G * Q \in Nat \ {0}
        BY ProductBounds
    <2> QED BY <2>1
<1>4. p \in 0 .. m - 1 /\ e * m + p = (e * G + f) * Q + j
    <2>1. f * Q + j \in 0 .. G * Q - 1 /\ e * (G * Q) + (f * Q + j) = (e * G + f) * Q + j
        <3>1. G \in Nat /\ Q \in Nat
            OBVIOUS
        <3> QED BY <3>1, HeadPlace
    <2> QED BY <1>3, <2>1
<1>5. (m * e + p) \div m = e
    BY <1>4, Between
<1>6. m * e = e * m
    OBVIOUS
<1>7. r * Q + j = m * e + p
    BY <1>2, <1>4, <1>6, Zenon
<1> QED BY <1>1, <1>3, <1>5, <1>7, Zenon DEF GroupOf

\* w is one half of the n heads of the doubled q_proj's rows s, d rows a head.
HalfOf(R, w, s, half, n, d) ==
    /\ w \in Seq(R) /\ Len(w) = n * d
    /\ \A h \in 0 .. n - 1, i \in 0 .. d - 1 :
            w[h * d + i + 1] = s[(2 * h + half) * d + i + 1]

\* HeadHalf takes that half of every head.
LEMMA HeadHalves ==
    ASSUME NEW R, NEW c, NEW n \in Nat \ {0}, NEW d \in Nat, n = c.nq, d = c.hd, NEW s \in Seq(R),
           Len(s) = (2 * n) * d, NEW half \in {0, 1}
    PROVE  HalfOf(R, HeadHalf(c, s, half), s, half, n, d)
<1> DEFINE parts == [h \in 1 .. c.nq |-> Slice(s, (2 * (h - 1) + half) * c.hd,
                                               (2 * (h - 1) + half + 1) * c.hd)]
<1>1. HeadHalf(c, s, half) = FlattenSeq(parts)
    BY Zenon DEF HeadHalf
<1>2. \A h \in 1 .. n : Cut(R, parts[h], s, (2 * (h - 1) + half) * d, d)
    <2> TAKE h \in 1 .. n
    <2>1. PICK i \in Nat : i = 2 * (h - 1) + half /\ i + 1 <= 2 * n
        <3>1. 2 * (h - 1) + half \in Nat /\ 2 * (h - 1) + half + 1 <= 2 * n
            BY ONLY n \in Nat, h \in 1 .. n, half \in {0, 1}
        <3> QED BY <3>1
    <2>2. (i + 1) * d = i * d + d
        BY ONLY i \in Nat, d \in Nat
    <2>3. PICK a \in Nat, b \in Nat : a = i * d /\ b = (i + 1) * d /\ b = a + d /\ b <= (2 * n) * d
        <3>1. i * d \in Nat /\ (i + 1) * d \in Nat
            BY ONLY i \in Nat, d \in Nat
        <3>2. (i + 1) * d <= (2 * n) * d
            BY <2>1, Grows
        <3> QED BY <2>2, <3>1, <3>2
    <2>4. Cut(R, Slice(s, a, b), s, a, b - a)
        <3>1. a <= b /\ b <= Len(s)
            BY <2>3
        <3> QED BY <3>1, SliceAt, Zenon
    <2>5. parts[h] = Slice(s, a, b)
        <3>1. parts[h] = Slice(s, (2 * (h - 1) + half) * c.hd, (2 * (h - 1) + half + 1) * c.hd)
            <4>1. h \in 1 .. c.nq
                OBVIOUS
            <4> QED BY <4>1, Zenon
        <3> QED BY <2>1, <2>3, <3>1, Zenon
    <2>6. b - a = d
        BY ONLY <2>3, a \in Nat, d \in Nat
    <2> QED BY <2>1, <2>3, <2>4, <2>5, <2>6, Zenon
<1>3. Len(parts) = n
    OBVIOUS
<1> HIDE DEF parts
<1>4. Blocks(R, parts, n, d)
    BY <1>2, <1>3 DEF Blocks, Cut
<1>5. Joined(R, FlattenSeq(parts), parts, n, d)
    BY <1>4, FlatBlocks
<1>6. PICK w : w = FlattenSeq(parts)
    OBVIOUS
<1>7. /\ w \in Seq(R) /\ Len(w) = n * d
      /\ \A i \in 1 .. n, j \in 1 .. d : w[(i - 1) * d + j] = parts[i][j]
    BY <1>5, <1>6, Zenon DEF Joined
<1>8. ASSUME NEW h \in 0 .. n - 1, NEW i \in 0 .. d - 1
      PROVE  w[h * d + i + 1] = s[(2 * h + half) * d + i + 1]
    <2>1. PICK k \in 1 .. n, j \in 1 .. d : k = h + 1 /\ j = i + 1 /\ k - 1 = h
        <3>1. h + 1 \in 1 .. n /\ i + 1 \in 1 .. d /\ (h + 1) - 1 = h
            BY ONLY n \in Nat, d \in Nat, h \in 0 .. n - 1, i \in 0 .. d - 1
        <3> QED BY <3>1, Zenon
    <2>2. w[h * d + j] = parts[k][j]
        <3>1. w[(k - 1) * d + j] = parts[k][j]
            BY <1>7, Zenon
        <3> QED BY <2>1, <3>1, Zenon
    <2>3. parts[k][j] = s[(2 * h + half) * d + j]
        <3>1. Cut(R, parts[k], s, (2 * h + half) * d, d)
            BY <1>2, <2>1, Zenon
        <3> QED BY <2>1, <3>1, Zenon DEF Cut
    <2>4. h * d + j = h * d + i + 1 /\ (2 * h + half) * d + j = (2 * h + half) * d + i + 1
        <3>1. PICK a \in Nat, b \in Nat : a = h * d /\ b = (2 * h + half) * d
            <4>1. PICK k2 \in Nat : k2 = 2 * h + half /\ h \in Nat
                <5>1. 2 * h + half \in Nat /\ h \in Nat
                    BY ONLY n \in Nat, h \in 0 .. n - 1, half \in {0, 1}
                <5> QED BY <5>1
            <4>2. h * d \in Nat /\ k2 * d \in Nat
                BY ONLY h \in Nat, k2 \in Nat, d \in Nat, <4>1
            <4> QED BY <4>1, <4>2
        <3>2. a + j = a + i + 1 /\ b + j = b + i + 1
            BY ONLY a \in Nat, b \in Nat, d \in Nat, i \in 0 .. d - 1, <2>1
        <3> QED BY <3>1, <3>2, Zenon
    <2> QED BY <2>2, <2>3, <2>4, Zenon
<1>9. \A h \in 0 .. n - 1, i \in 0 .. d - 1 : w[h * d + i + 1] = s[(2 * h + half) * d + i + 1]
    BY <1>8, Zenon
<1>10. HalfOf(R, w, s, half, n, d)
    BY <1>7, <1>9, Zenon DEF HalfOf
<1>11. HeadHalf(c, s, half) = w
    BY <1>1, <1>6, Zenon
<1> QED BY <1>10, <1>11, Zenon

\* A rank's share w of one half: row i of its query head j, of Q heads of d rows,
\* is row i of that half of head r * Q + j of the doubled q_proj of owner q.
HalfHeads(w, q, half, r, Q, d) ==
    \A j \in 0 .. Q - 1, i \in 0 .. d - 1 :
        HeadRow(w, j, d, i) = <<<<q, "q_proj">>, (2 * (r * Q + j) + half) * d + i>>

\* Head r * Q + j of the n heads, and where its rows are in the doubled ones.
LEMMA HalfPlace ==
    ASSUME NEW t \in Nat \ {0}, NEW Q \in Nat, NEW n \in Nat, n = t * Q, NEW d \in Nat,
           NEW r \in 0 .. t - 1, NEW j \in 0 .. Q - 1, NEW i \in 0 .. d - 1, NEW half \in {0, 1}
    PROVE  /\ r * Q + j \in 0 .. n - 1
           /\ (2 * (r * Q + j) + half) * d + i \in 0 .. (2 * n) * d - 1
<1>1. PICK h \in Nat : h = r * Q + j /\ h < n
    <2>1. PICK a \in Nat : a = r * Q /\ (r + 1) * Q = a + Q
        <3>1. r \in Nat
            OBVIOUS
        <3>2. r * Q \in Nat /\ (r + 1) * Q = r * Q + Q
            BY ONLY <3>1, Q \in Nat
        <3> QED BY <3>2
    <2>2. (r + 1) * Q <= t * Q
        <3>1. r + 1 \in Nat /\ r + 1 <= t /\ t \in Nat
            OBVIOUS
        <3> QED BY ONLY <3>1, Q \in Nat, Grows
    <2>3. a + Q <= n
        BY <2>1, <2>2
    <2>4. a + j \in Nat /\ a + j < n
        BY ONLY <2>3, a \in Nat, Q \in Nat, n \in Nat, j \in 0 .. Q - 1
    <2> QED BY <2>1, <2>4
<1>2. PICK k \in Nat : k = 2 * h + half /\ k + 1 <= 2 * n
    <2>1. 2 * h + half \in Nat /\ 2 * h + half + 1 <= 2 * n
        BY ONLY <1>1, h \in Nat, n \in Nat, half \in {0, 1}
    <2> QED BY <2>1
<1>3. PICK b \in Nat, e \in Nat : b = k * d /\ e = (2 * n) * d /\ b + d <= e
    <2>1. k * d \in Nat /\ (k + 1) * d = k * d + d
        BY ONLY k \in Nat, d \in Nat
    <2>2. /\ (k + 1) * d \in Nat /\ (2 * n) * d \in Nat /\ (k + 1) * d <= (2 * n) * d
        <3>1. k + 1 \in Nat /\ 2 * n \in Nat
            OBVIOUS
        <3> QED BY ONLY <3>1, <1>2, d \in Nat, Grows
    <2> QED BY ONLY <2>1, <2>2
<1>4. h \in 0 .. n - 1
    BY ONLY <1>1, h \in Nat, n \in Nat
<1>5. b + i \in 0 .. e - 1
    BY ONLY <1>3, b \in Nat, e \in Nat, d \in Nat, i \in 0 .. d - 1
<1> QED BY <1>1, <1>2, <1>3, <1>4, <1>5, Zenon

\* The halves a rank has of the checkpoint's doubled q_proj.
LEMMA HalfShard ==
    ASSUME NEW R, NEW c, c.tp \in Nat \ {0}, NEW Q \in Nat \ {0}, NEW n \in Nat \ {0}, n = c.nq,
           n = c.tp * Q, NEW d \in Nat, d = c.hd, NEW q, HasRows(R, q, "q_proj"),
           NEW half \in {0, 1}, NEW size, size = (2 * n) * d,
           NEW w, w = HeadHalf(c, RawRows(q, "q_proj", size), half)
    PROVE  /\ HasShards(R, c, w, Q * d)
           /\ \A r \in 0 .. c.tp - 1 : HalfHeads(Shard(c, w, r), q, half, r, Q, d)
<1>1. PICK N \in Nat : N = size
    <2>1. (2 * n) * d \in Nat
        BY ONLY n \in Nat, d \in Nat
    <2> QED BY <2>1
<1>2. PICK s \in Seq(R) :
        /\ s = RawRows(q, "q_proj", size) /\ Len(s) = N
        /\ \A i \in 1 .. N : s[i] = <<<<q, "q_proj">>, i - 1>>
    <2>1. /\ RawRows(q, "q_proj", N) \in Seq(R) /\ Len(RawRows(q, "q_proj", N)) = N
          /\ \A i \in 1 .. N : RawRows(q, "q_proj", N)[i] = <<<<q, "q_proj">>, i - 1>>
        BY RawSequence
    <2> QED BY <1>1, <2>1
<1>3. HalfOf(R, w, s, half, n, d)
    <2>1. HalfOf(R, HeadHalf(c, s, half), s, half, n, d)
        BY <1>1, <1>2, HeadHalves
    <2> QED BY <1>2, <2>1, Zenon
<1>4. PICK m \in Nat : m = Q * d
    <2>1. Q * d \in Nat
        BY ONLY Q \in Nat, d \in Nat
    <2> QED BY <2>1
<1>5. w \in Seq(R) /\ Len(w) = c.tp * m
    <2>1. PICK t \in Nat : t = c.tp
        OBVIOUS
    <2>2. (t * Q) * d = t * (Q * d)
        BY ONLY t \in Nat, Q \in Nat, d \in Nat
    <2>3. w \in Seq(R) /\ Len(w) = n * d
        BY <1>3 DEF HalfOf
    <2> QED BY <1>4, <2>1, <2>2, <2>3, Zenon
<1>6. HasShards(R, c, w, m)
    BY <1>5, DividedShards
<1>7. ASSUME NEW r \in 0 .. c.tp - 1, NEW j \in 0 .. Q - 1, NEW i \in 0 .. d - 1
      PROVE  HeadRow(Shard(c, w, r), j, d, i)
                = <<<<q, "q_proj">>, (2 * (r * Q + j) + half) * d + i>>
    <2>1. /\ Cut(R, Shard(c, w, r), w, r * m, m)
          /\ r * m \in Nat
        BY <1>5, ShardAt
    <2>2. PICK h \in 0 .. n - 1, b \in 0 .. N - 1 :
            /\ h = r * Q + j /\ b = (2 * h + half) * d + i
        <3>1. r * Q + j \in 0 .. n - 1 /\ (2 * (r * Q + j) + half) * d + i \in 0 .. (2 * n) * d - 1
            BY HalfPlace
        <3>2. (2 * n) * d = N
            BY <1>1, Zenon
        <3> QED BY <3>1, <3>2, Zenon
    <2>3. PICK e \in 0 .. m - 1 : e = j * d + i /\ r * m + e = h * d + i
        <3>1. j * d + i \in 0 .. Q * d - 1 /\ r * (Q * d) + (j * d + i) = (r * Q + j) * d + i
            <4>1. r \in Nat /\ Q \in Nat
                OBVIOUS
            <4> QED BY ONLY <4>1, d \in Nat, j \in 0 .. Q - 1, i \in 0 .. d - 1, HeadPlace
        <3> QED BY <1>4, <2>2, <3>1
    <2>4. HeadRow(Shard(c, w, r), j, d, i) = Shard(c, w, r)[e + 1]
        BY <2>3, Zenon DEF HeadRow
    <2>5. Shard(c, w, r)[e + 1] = w[r * m + (e + 1)]
        <3>1. e + 1 \in 1 .. m
            OBVIOUS
        <3> QED BY <2>1, <3>1, Zenon DEF Cut
    <2>6. r * m + (e + 1) = h * d + i + 1
        <3>1. PICK a \in Nat : a = r * m
            BY <2>1
        <3>2. a + (e + 1) = (a + e) + 1
            BY ONLY a \in Nat, m \in Nat, e \in 0 .. m - 1
        <3> QED BY <2>3, <3>1, <3>2, Zenon
    <2>7. w[h * d + i + 1] = s[(2 * h + half) * d + i + 1]
        BY <1>3, Zenon DEF HalfOf
    <2>8. s[b + 1] = <<<<q, "q_proj">>, b>>
        <3>1. b + 1 \in 1 .. N /\ (b + 1) - 1 = b
            OBVIOUS
        <3> QED BY <1>2, <3>1
    <2>9. s[(2 * h + half) * d + i + 1] = <<<<q, "q_proj">>, b>>
        BY <2>2, <2>8, Zenon
    <2>10. HeadRow(Shard(c, w, r), j, d, i) = <<<<q, "q_proj">>, b>>
        BY <2>4, <2>5, <2>6, <2>7, <2>9, Zenon
    <2> QED BY <2>2, <2>10, Zenon
<1>8. \A r \in 0 .. c.tp - 1 : HalfHeads(Shard(c, w, r), q, half, r, Q, d)
    BY <1>7, Zenon DEF HalfHeads
<1> QED BY <1>4, <1>6, <1>8, Zenon

\* w is the head of k or v that the group of a rank has: head g of owner q.
GroupHead(R, w, q, n, g, d) ==
    /\ w \in Seq(R) /\ Len(w) = d
    /\ \A i \in 0 .. d - 1 : w[i + 1] = <<<<q, n>>, g * d + i>>

\* Every rank gets the head of its group.
LEMMA ReplicatedRows ==
    ASSUME NEW R, NEW c, NEW k \in Nat \ {0}, k = c.nkv, NEW G \in Nat \ {0}, c.tp = k * G,
           c.tp \div c.nkv = G, NEW d \in Nat, d = c.hd, NEW q, NEW n, HasRows(R, q, n),
           NEW size, size = k * d, NEW r \in 0 .. c.tp - 1
    PROVE  GroupHead(R, ReplicatedHead(c, RawRows(q, n, size), r), q, n, r \div G, d)
<1>1. PICK N \in Nat : N = size
    <2>1. k * d \in Nat
        BY ONLY k \in Nat, d \in Nat
    <2> QED BY <2>1
<1>2. PICK s \in Seq(R) :
        s = RawRows(q, n, size) /\ Len(s) = N /\ \A i \in 1 .. N : s[i] = <<<<q, n>>, i - 1>>
    <2>1. /\ RawRows(q, n, N) \in Seq(R) /\ Len(RawRows(q, n, N)) = N
          /\ \A i \in 1 .. N : RawRows(q, n, N)[i] = <<<<q, n>>, i - 1>>
        BY RawSequence
    <2> QED BY <1>1, <2>1
<1>3. PICK t \in Nat : t = c.tp /\ t = k * G /\ r \in 0 .. t - 1 /\ r \in Nat
    <2>1. k * G \in Nat
        BY ONLY k \in Nat, G \in Nat
    <2>2. r \in Nat
        OBVIOUS
    <2> QED BY <2>1, <2>2
<1>4. PICK g \in Nat : g = r \div G /\ g + 1 <= k
    <2>1. r \div G \in Nat /\ G * (r \div G) <= r
        BY <1>3, Quotient
    <2>2. PICK g \in Nat : g = r \div G /\ G * g <= r
        BY <2>1
    <2>3. CASE k <= g
        <3>1. G * k <= G * g
            BY <2>3, Grows
        <3>2. G * k = k * G
            BY ONLY G \in Nat, k \in Nat
        <3>3. t <= G * g /\ G * g \in Nat
            BY ONLY <1>3, <3>1, <3>2, G \in Nat, g \in Nat
        <3> QED BY ONLY <1>3, <2>2, <3>3, t \in Nat
    <2> QED BY <2>2, <2>3
<1>5. PICK a \in Nat, b \in Nat : a = g * d /\ b = (g + 1) * d /\ b = a + d /\ b <= N
    <2>1. g * d \in Nat /\ (g + 1) * d \in Nat /\ (g + 1) * d = g * d + d
        BY ONLY g \in Nat, d \in Nat
    <2>2. (g + 1) * d <= k * d
        <3>1. g + 1 \in Nat /\ k \in Nat
            OBVIOUS
        <3> QED BY ONLY <1>4, <3>1, d \in Nat, Grows
    <2> QED BY <1>1, <2>1, <2>2
<1>6. PICK w : w = Slice(s, a, b)
    OBVIOUS
<1>7. Cut(R, w, s, a, d)
    <2>1. a <= b /\ b <= Len(s) /\ b - a = d
        BY ONLY <1>2, <1>5, a \in Nat, b \in Nat, d \in Nat, N \in Nat
    <2>2. Cut(R, Slice(s, a, b), s, a, b - a)
        BY <2>1, SliceAt
    <2> QED BY <1>6, <2>1, <2>2, Zenon
<1>8. ReplicatedHead(c, RawRows(q, n, size), r) = w
    BY <1>2, <1>4, <1>5, <1>6, Zenon DEF ReplicatedHead
<1>9. ASSUME NEW i \in 0 .. d - 1 PROVE w[i + 1] = <<<<q, n>>, g * d + i>>
    <2>1. i + 1 \in 1 .. d /\ a + (i + 1) \in 1 .. N /\ (a + (i + 1)) - 1 = a + i
        BY ONLY <1>5, a \in Nat, b \in Nat, d \in Nat, N \in Nat, i \in 0 .. d - 1
    <2>2. w[i + 1] = s[a + (i + 1)]
        BY <1>7, <2>1, Zenon DEF Cut
    <2>3. s[a + (i + 1)] = <<<<q, n>>, a + i>>
        BY <1>2, <2>1, Zenon
    <2> QED BY <1>5, <2>2, <2>3, Zenon
<1>10. GroupHead(R, w, q, n, g, d)
    BY <1>7, <1>9, Zenon DEF GroupHead, Cut
<1> QED BY <1>4, <1>8, <1>10, Zenon

\* Every rank's head of k or of v is d rows.
HasHeads(R, c, s, d) ==
    \A q \in 0 .. c.tp - 1 : ReplicatedHead(c, s, q) \in Seq(R) /\ Len(ReplicatedHead(c, s, q)) = d

\* The kernel's cut of a rank's block w: its m rows of query heads, its k and v head.
HeadSlices(c, w, u, k, v, m, d, r) ==
    /\ Slice(w, 0, m) = Shard(c, u, r) /\ Slice(w, m, m + d) = ReplicatedHead(c, k, r)
    /\ Slice(w, m + d, Len(w)) = ReplicatedHead(c, v, r)

\* The kernel cuts a rank's block of the fused weight where the converter joined it.
LEMMA GqaShard ==
    ASSUME NEW R, NEW c, c.tp \in Nat \ {0}, NEW m \in Nat, NEW d \in Nat, NEW u,
           HasShards(R, c, u, m), NEW k, HasHeads(R, c, k, d), NEW v, HasHeads(R, c, v, d),
           NEW r \in 0 .. c.tp - 1
    PROVE  HeadSlices(c, Shard(c, GqaQkvFused(c, u, k, v), r), u, k, v, m, d, r)
<1> DEFINE parts == [i \in 1 .. c.tp |-> Shard(c, u, i - 1) \o ReplicatedHead(c, k, i - 1)
                                             \o ReplicatedHead(c, v, i - 1)]
<1>1. GqaQkvFused(c, u, k, v) = FlattenSeq(parts)
    BY Zenon DEF GqaQkvFused, PerRank
<1>2. PICK n \in Nat : n = (m + d) + d
    OBVIOUS
<1>3. ASSUME NEW q \in 0 .. c.tp - 1, NEW g,
             g = Shard(c, u, q) \o ReplicatedHead(c, k, q) \o ReplicatedHead(c, v, q)
      PROVE  g \in Seq(R) /\ Len(g) = n /\ HeadSlices(c, g, u, k, v, m, d, q)
    <2>1. PICK s1 \in Seq(R), s2 \in Seq(R), s3 \in Seq(R) :
            /\ s1 = Shard(c, u, q) /\ s2 = ReplicatedHead(c, k, q) /\ s3 = ReplicatedHead(c, v, q)
            /\ Len(s1) = m /\ Len(s2) = d /\ Len(s3) = d
        BY DEF HasShards, HasHeads
    <2>2. g = s1 \o s2 \o s3
        BY <1>3, <2>1
    <2>3. Triple(R, g, s1, s2, s3, m, d, d)
        BY <2>1, <2>2, Three
    <2>4. Thirds(g, s1, s2, s3, m, d)
        BY <2>1, <2>2, ThreeSlices
    <2>5. g \in Seq(R) /\ Len(g) = n
        BY <1>2, <2>3 DEF Triple
    <2>6. HeadSlices(c, g, u, k, v, m, d, q)
        BY <2>1, <2>4, Zenon DEF HeadSlices, Thirds
    <2> QED BY <2>5, <2>6
<1>4. Blocks(R, parts, c.tp, n)
    <2>1. ASSUME NEW i \in 1 .. c.tp PROVE parts[i] \in Seq(R) /\ Len(parts[i]) = n
        <3>1. i - 1 \in 0 .. c.tp - 1
            OBVIOUS
        <3>2. PICK g : g = parts[i]
            OBVIOUS
        <3>3. g = Shard(c, u, i - 1) \o ReplicatedHead(c, k, i - 1) \o ReplicatedHead(c, v, i - 1)
            BY <3>2
        <3>4. PICK q \in 0 .. c.tp - 1 : q = i - 1
            BY <3>1
        <3>5. g = Shard(c, u, q) \o ReplicatedHead(c, k, q) \o ReplicatedHead(c, v, q)
            BY <3>3, <3>4
        <3>6. g \in Seq(R) /\ Len(g) = n
            BY <1>3, <3>5, Zenon
        <3> QED BY <3>2, <3>6
    <2>2. Len(parts) = c.tp
        OBVIOUS
    <2> HIDE DEF parts
    <2> QED BY <2>1, <2>2 DEF Blocks
<1>5. parts[r + 1] = Shard(c, u, r) \o ReplicatedHead(c, k, r) \o ReplicatedHead(c, v, r)
    <2>1. r + 1 \in 1 .. c.tp /\ (r + 1) - 1 = r
        OBVIOUS
    <2> QED BY <2>1
<1> HIDE DEF parts
<1>6. PICK g : g = parts[r + 1]
    OBVIOUS
<1>7. Shard(c, FlattenSeq(parts), r) = g
    BY <1>4, <1>6, RankIs
<1>8. HeadSlices(c, g, u, k, v, m, d, r)
    <2>1. g = Shard(c, u, r) \o ReplicatedHead(c, k, r) \o ReplicatedHead(c, v, r)
        BY <1>5, <1>6
    <2> QED BY <1>3, <2>1
<1> QED BY <1>1, <1>7, <1>8

\* The tensors of the fused attention of owner o, out of the checkpoint's rows of
\* owner q: the MTP layer's have been renamed.
GqaPacked(c, d, o, q) ==
    LET Raw(n) == RawRows(q, n, LayerRows(c, FALSE)[n])
    IN  /\ d[<<o, "gqa_qkv_w">>].rows
             = GqaQkvFused(c, HeadHalf(c, Raw("q_proj"), 0), Raw("k_proj"), Raw("v_proj"))
        /\ d[<<o, "gqa_gate_w">>].rows = HeadHalf(c, Raw("q_proj"), 1)
        /\ d[<<o, "gqa_o_proj_w">>].rows = Raw("o_proj")

\* Row i of query head j of rank r, as GqaGroups has it.
GqaHead(o, from, r, heads, j, i) ==
    LET h == r * (cfg.nq \div cfg.tp) + j
        g == h \div (cfg.nq \div cfg.nkv)
        gate == HeadRow(OnRank(o, "gqa_gate_w", r), j, cfg.hd, i)
        out == HeadRow(OnRank(o, "gqa_o_proj_w", r), j, cfg.hd, i)
    IN  /\ HeadRow(heads.q, j, cfg.hd, i) = <<<<from, "q_proj">>, 2 * h * cfg.hd + i>>
        /\ heads.k[i + 1] = <<<<from, "k_proj">>, g * cfg.hd + i>>
        /\ heads.v[i + 1] = <<<<from, "v_proj">>, g * cfg.hd + i>>
        /\ gate = <<<<from, "q_proj">>, (2 * h + 1) * cfg.hd + i>>
        /\ out = <<<<from, "o_proj">>, h * cfg.hd + i>>

\* The rows of rank r are the whole model's.
GqaRank(o, from, r) ==
    \A j \in 0 .. cfg.nq \div cfg.tp - 1, i \in 0 .. cfg.hd - 1 :
        GqaHead(o, from, r, GqaHeads(o, r), j, i)

\* What the kernel cuts out of a rank's block.
LEMMA CutHeads ==
    ASSUME NEW R, cfg \in Configs, NEW c, c = cfg, NEW G \in Nat \ {0}, NEW Q \in Nat \ {0},
           Groups(c, G, Q), NEW d \in Nat, d = c.hd, NEW o, NEW q, GqaPacked(c, sd, o, q),
           \A n \in {"q_proj", "k_proj", "v_proj"} : HasRows(R, q, n), NEW r \in 0 .. c.tp - 1,
           NEW u, u = HeadHalf(c, RawRows(q, "q_proj", 2 * c.nq * c.hd), 0)
    PROVE  GqaHeads(o, r) = [q |-> Shard(c, u, r),
                             k |-> ReplicatedHead(c, RawRows(q, "k_proj", c.nkv * c.hd), r),
                             v |-> ReplicatedHead(c, RawRows(q, "v_proj", c.nkv * c.hd), r)]
<1>1. /\ c \in Configs /\ c.tp \in Nat \ {0} /\ c.nq \in Nat \ {0} /\ c.nkv \in Nat \ {0}
    BY ConfigFields
<1>2. PICK n \in Nat \ {0}, k \in Nat \ {0}, m \in Nat :
        n = c.nq /\ k = c.nkv /\ m = Q * d /\ n = c.tp * Q
    <2>1. Q * d \in Nat
        BY ONLY Q \in Nat, d \in Nat
    <2>2. c.nq = c.tp * Q
        BY DEF Groups
    <2> QED BY <1>1, <2>1, <2>2
<1>3. PICK s, x, y : /\ s = 2 * c.nq * c.hd /\ x = RawRows(q, "k_proj", c.nkv * c.hd)
                     /\ y = RawRows(q, "v_proj", c.nkv * c.hd)
    OBVIOUS
<1>4. HasShards(R, c, u, m)
    <2>1. HasRows(R, q, "q_proj")
        OBVIOUS
    <2>2. s = (2 * n) * d /\ u = HeadHalf(c, RawRows(q, "q_proj", s), 0)
        BY <1>2, <1>3, Zenon
    <2>3. HasShards(R, c, u, Q * d)
        BY <1>1, <1>2, <2>1, <2>2, HalfShard
    <2> QED BY <1>2, <2>3
<1>5. HasHeads(R, c, x, d) /\ HasHeads(R, c, y, d)
    <2>1. ASSUME NEW p \in {"k_proj", "v_proj"}, NEW z, z = RawRows(q, p, k * d)
          PROVE  HasHeads(R, c, z, d)
        <3>1. HasRows(R, q, p)
            OBVIOUS
        <3>2. PICK S : S = k * d
            OBVIOUS
        <3>3. c.tp = k * G /\ c.tp \div c.nkv = G
            BY <1>2 DEF Groups
        <3>4. ASSUME NEW a \in 0 .. c.tp - 1
              PROVE  GroupHead(R, ReplicatedHead(c, z, a), q, p, a \div G, d)
            <4>1. GroupHead(R, ReplicatedHead(c, RawRows(q, p, S), a), q, p, a \div G, d)
                BY <1>2, <3>1, <3>2, <3>3, ReplicatedRows
            <4> QED BY <2>1, <3>2, <4>1, Zenon
        <3> QED BY <3>4, Zenon DEF HasHeads, GroupHead
    <2>2. x = RawRows(q, "k_proj", k * d) /\ y = RawRows(q, "v_proj", k * d)
        BY <1>2, <1>3, Zenon
    <2> QED BY <2>1, <2>2
<1>6. PICK w : w = OnRank(o, "gqa_qkv_w", r) /\ w = Shard(c, GqaQkvFused(c, u, x, y), r)
    <2>1. /\ LayerRows(c, FALSE)["q_proj"] = 2 * c.nq * c.hd
          /\ LayerRows(c, FALSE)["k_proj"] = c.nkv * c.hd
          /\ LayerRows(c, FALSE)["v_proj"] = c.nkv * c.hd
        BY <1>1, LayerHasRows
    <2>2. sd[<<o, "gqa_qkv_w">>].rows = GqaQkvFused(c, u, x, y)
        BY <1>3, <2>1, Zenon DEF GqaPacked
    <2> QED BY <2>2, Zenon DEF OnRank
<1>7. HeadSlices(c, w, u, x, y, m, d, r)
    <2>1. HeadSlices(c, Shard(c, GqaQkvFused(c, u, x, y), r), u, x, y, m, d, r)
        BY <1>1, <1>4, <1>5, GqaShard
    <2> QED BY <1>6, <2>1, Zenon
<1>8. (cfg.nq \div cfg.tp) * cfg.hd = m /\ cfg.hd = d
    BY <1>2, Zenon DEF Groups
<1>9. GqaHeads(o, r) =
        [q |-> Slice(w, 0, m), k |-> Slice(w, m, m + d), v |-> Slice(w, m + d, Len(w))]
    BY <1>6, <1>8, Zenon DEF GqaHeads
<1> QED BY <1>3, <1>7, <1>9, Zenon DEF HeadSlices

\* On a rank, the heads of a packed attention layer are those of the whole model.
LEMMA AttentionOnRank ==
    ASSUME cfg \in Configs, cfg.attn, ~AttentionRaises(cfg), NEW o, NEW q,
           GqaPacked(cfg, sd, o, q), NEW r \in 0 .. cfg.tp - 1
    PROVE  GqaRank(o, q, r)
<1>1. PICK c : c = cfg
    OBVIOUS
<1>2. PICK G \in Nat \ {0}, Q \in Nat \ {0} : Groups(c, G, Q)
    BY <1>1, AttentionDivides
<1>3. /\ c \in Configs /\ c.tp \in Nat \ {0} /\ c.nq \in Nat \ {0} /\ c.nkv \in Nat \ {0}
      /\ r \in 0 .. c.tp - 1 /\ r \in Nat
    BY <1>1, ConfigFields
<1>4. PICK d \in Nat, n \in Nat \ {0}, k \in Nat \ {0}, m \in Nat :
        d = c.hd /\ n = c.nq /\ k = c.nkv /\ m = Q * d /\ n = c.tp * Q
    <2>1. c.hd \in Nat
        BY <1>3, ConfigFields
    <2>2. Q * c.hd \in Nat
        BY ONLY <2>1, Q \in Nat
    <2>3. c.nq = c.tp * Q
        BY <1>2 DEF Groups
    <2> QED BY <1>3, <2>1, <2>2, <2>3
<1>5. PICK R : \A p \in {"q_proj", "k_proj", "v_proj", "o_proj"} : HasRows(R, q, p)
    BY RowsExist
<1>6. PICK s, S, z : s = 2 * c.nq * c.hd /\ s = (2 * n) * d /\ S = k * d /\ z = c.tp * m
    BY <1>4, Zenon
<1>7. PICK u, v : u = HeadHalf(c, RawRows(q, "q_proj", s), 0)
                  /\ v = HeadHalf(c, RawRows(q, "q_proj", s), 1)
    OBVIOUS
<1>8. PICK x, y : x = ReplicatedHead(c, RawRows(q, "k_proj", S), r)
                  /\ y = ReplicatedHead(c, RawRows(q, "v_proj", S), r)
    OBVIOUS
<1>9. PICK heads : heads = GqaHeads(o, r) /\ heads = [q |-> Shard(c, u, r), k |-> x, v |-> y]
    <2>1. \A p \in {"q_proj", "k_proj", "v_proj"} : HasRows(R, q, p)
        BY <1>5
    <2>2. GqaPacked(c, sd, o, q)
        BY <1>1, Zenon
    <2>3. u = HeadHalf(c, RawRows(q, "q_proj", 2 * c.nq * c.hd), 0)
        BY <1>6, <1>7, Zenon
    <2>4. GqaHeads(o, r) = [q |-> Shard(c, u, r),
                            k |-> ReplicatedHead(c, RawRows(q, "k_proj", c.nkv * c.hd), r),
                            v |-> ReplicatedHead(c, RawRows(q, "v_proj", c.nkv * c.hd), r)]
        BY <1>1, <1>2, <1>3, <1>4, <2>1, <2>2, <2>3, CutHeads
    <2>5. c.nkv * c.hd = S
        BY <1>4, <1>6, Zenon
    <2> QED BY <1>8, <2>4, <2>5, Zenon
<1>10. HalfHeads(Shard(c, u, r), q, 0, r, Q, d) /\ HalfHeads(Shard(c, v, r), q, 1, r, Q, d)
    <2>1. HasRows(R, q, "q_proj") /\ 0 \in {0, 1} /\ 1 \in {0, 1}
        BY <1>5
    <2>2. \A a \in 0 .. c.tp - 1 : HalfHeads(Shard(c, u, a), q, 0, a, Q, d)
        BY <1>3, <1>4, <1>6, <1>7, <2>1, HalfShard
    <2>3. \A a \in 0 .. c.tp - 1 : HalfHeads(Shard(c, v, a), q, 1, a, Q, d)
        BY <1>3, <1>4, <1>6, <1>7, <2>1, HalfShard
    <2> QED BY <1>3, <2>2, <2>3
<1>11. GroupHead(R, x, q, "k_proj", r \div G, d) /\ GroupHead(R, y, q, "v_proj", r \div G, d)
    <2>1. HasRows(R, q, "k_proj") /\ HasRows(R, q, "v_proj")
        BY <1>5
    <2>2. c.tp = k * G /\ c.tp \div c.nkv = G
        BY <1>2, <1>4 DEF Groups
    <2>3. GroupHead(R, ReplicatedHead(c, RawRows(q, "k_proj", S), r), q, "k_proj", r \div G, d)
        BY <1>3, <1>4, <1>6, <2>1, <2>2, ReplicatedRows
    <2>4. GroupHead(R, ReplicatedHead(c, RawRows(q, "v_proj", S), r), q, "v_proj", r \div G, d)
        BY <1>3, <1>4, <1>6, <2>1, <2>2, ReplicatedRows
    <2> QED BY <1>8, <2>3, <2>4, Zenon
<1>12. OnRank(o, "gqa_gate_w", r) = Shard(c, v, r)
    <2>1. LayerRows(c, FALSE)["q_proj"] = s
        BY <1>3, <1>6, LayerHasRows
    <2>2. sd[<<o, "gqa_gate_w">>].rows = v
        BY <1>1, <1>7, <2>1, Zenon DEF GqaPacked
    <2> QED BY <1>1, <2>2, Zenon DEF OnRank
<1>13. ShareRows(OnRank(o, "gqa_o_proj_w", r), q, "o_proj", m, r)
    <2>1. PICK t \in Nat \ {0} : t = c.tp
        BY <1>3
    <2>2. (t * Q) * d = t * (Q * d)
        BY ONLY t \in Nat, Q \in Nat, d \in Nat
    <2>3. c.nq * c.hd = z
        BY <1>4, <1>6, <2>1, <2>2, Zenon
    <2>4. LayerRows(c, FALSE)["o_proj"] = z
        BY <1>3, <2>3, LayerHasRows
    <2>5. sd[<<o, "gqa_o_proj_w">>].rows = RawRows(q, "o_proj", z)
        BY <1>1, <2>4, Zenon DEF GqaPacked
    <2>6. OnRank(o, "gqa_o_proj_w", r) = Shard(c, RawRows(q, "o_proj", z), r)
        BY <1>1, <2>5, Zenon DEF OnRank
    <2>7. ShareRows(Shard(c, RawRows(q, "o_proj", z), r), q, "o_proj", m, r)
        BY <1>3, <1>4, <1>6, RawShard
    <2> QED BY <2>6, <2>7, Zenon
<1>14. ASSUME NEW j \in 0 .. Q - 1, NEW i \in 0 .. d - 1
       PROVE  GqaHead(o, q, r, heads, j, i)
    <2>1. PICK h \in Nat, g \in Nat : h = r * Q + j /\ g = r \div G /\ h \div (G * Q) = g
        <3>1. GroupOf(r, G, Q, j)
            BY <1>3, GroupHeads
        <3>2. r * Q + j \in Nat
            BY ONLY <1>3, Q \in Nat, j \in 0 .. Q - 1
        <3>3. r \div G \in Nat
            BY <1>3, Quotient
        <3> QED BY <3>1, <3>2, <3>3 DEF GroupOf
    <2>2. HeadRow(Shard(c, u, r), j, d, i) = <<<<q, "q_proj">>, (2 * h + 0) * d + i>>
        BY <1>10, <2>1, Zenon DEF HalfHeads
    <2>3. HeadRow(Shard(c, v, r), j, d, i) = <<<<q, "q_proj">>, (2 * h + 1) * d + i>>
        BY <1>10, <2>1, Zenon DEF HalfHeads
    <2>4. x[i + 1] = <<<<q, "k_proj">>, g * d + i>> /\ y[i + 1] = <<<<q, "v_proj">>, g * d + i>>
        BY <1>11, <2>1, Zenon DEF GroupHead
    <2>5. HeadRow(OnRank(o, "gqa_o_proj_w", r), j, d, i) = <<<<q, "o_proj">>, h * d + i>>
        <3>1. PICK e \in 0 .. m - 1 : e = j * d + i /\ r * m + e = h * d + i
            <4>1. j * d + i \in 0 .. Q * d - 1 /\ r * (Q * d) + (j * d + i) = (r * Q + j) * d + i
                <5>1. Q \in Nat
                    OBVIOUS
                <5> QED BY ONLY <1>3, <5>1, d \in Nat, j \in 0 .. Q - 1, i \in 0 .. d - 1, HeadPlace
            <4> QED BY <1>4, <2>1, <4>1
        <3>2. HeadRow(OnRank(o, "gqa_o_proj_w", r), j, d, i) = OnRank(o, "gqa_o_proj_w", r)[e + 1]
            BY <3>1, Zenon DEF HeadRow
        <3>3. OnRank(o, "gqa_o_proj_w", r)[e + 1] = <<<<q, "o_proj">>, r * m + e>>
            BY <1>13, Zenon DEF ShareRows
        <3> QED BY <3>1, <3>2, <3>3, Zenon
    <2>6. 2 * h + 0 = 2 * h
        OBVIOUS
    <2>7. /\ r * (cfg.nq \div cfg.tp) + j = h /\ h \div (cfg.nq \div cfg.nkv) = g /\ cfg.hd = d
        BY <1>1, <1>2, <1>4, <2>1, Zenon DEF Groups
    <2>8. heads.q = Shard(c, u, r) /\ heads.k = x /\ heads.v = y
        BY <1>9
    <2>9. HeadRow(heads.q, j, cfg.hd, i) = <<<<q, "q_proj">>, 2 * h * cfg.hd + i>>
        BY <2>2, <2>6, <2>7, <2>8, Zenon
    <2>10. /\ heads.k[i + 1] = <<<<q, "k_proj">>, g * cfg.hd + i>>
           /\ heads.v[i + 1] = <<<<q, "v_proj">>, g * cfg.hd + i>>
        BY <2>4, <2>7, <2>8, Zenon
    <2>11. HeadRow(OnRank(o, "gqa_gate_w", r), j, cfg.hd, i)
             = <<<<q, "q_proj">>, (2 * h + 1) * cfg.hd + i>>
        BY <1>12, <2>3, <2>7, Zenon
    <2>12. HeadRow(OnRank(o, "gqa_o_proj_w", r), j, cfg.hd, i)
             = <<<<q, "o_proj">>, h * cfg.hd + i>>
        BY <2>5, <2>7, Zenon
    <2> QED BY <2>7, <2>9, <2>10, <2>11, <2>12, Zenon DEF GqaHead
<1>15. cfg.nq \div cfg.tp = Q /\ cfg.hd = d
    BY <1>1, <1>2, <1>4, Zenon DEF Groups
<1> QED BY <1>9, <1>14, <1>15, Zenon DEF GqaRank

(***************************************************************************)
(* Which rows the dictionary holds under which key, at every stage.         *)
(***************************************************************************)
\* t is a tensor of the rows.
IsRows(t, rows) ==
    \E plus, store : \E trans \in BOOLEAN : t = Record(rows, plus, trans, store)

\* The tensor of d at parameter n of owner o is one of the rows.
Holds(d, o, n, rows) == <<o, n>> \in DOMAIN d /\ IsRows(d[<<o, n>>], rows)

\* A tensor of the rows has the rows.
LEMMA RowsOf ==
    ASSUME NEW t, NEW rows, IsRows(t, rows)
    PROVE  t.rows = rows
BY DEF IsRows, Record

\* A new tensor has the rows it is made of.
LEMMA NewRows ==
    ASSUME NEW k, NEW rows
    PROVE  IsRows(Tensor(k, rows), rows)
<1>1. PICK b \in BOOLEAN : b = FALSE
    OBVIOUS
<1>2. Tensor(k, rows) = Record(rows, 0, b, k)
    BY <1>1, Zenon DEF Tensor, Record
<1> QED BY <1>2, Zenon DEF IsRows

\* A copy and a transposed tensor have the rows of the tensor.
LEMMA KeptRows ==
    ASSUME NEW t, NEW rows, IsRows(t, rows), NEW k
    PROVE  IsRows(Clone(t, k), rows) /\ IsRows(Transposed(t, k), rows)
<1>1. PICK plus, store : \E trans \in BOOLEAN : t = Record(rows, plus, trans, store)
    BY Zenon DEF IsRows
<1> PICK trans \in BOOLEAN : t = Record(rows, plus, trans, store)
    BY <1>1
<1>2. t = Record(rows, plus, trans, store)
    OBVIOUS
<1>3. Clone(t, k) = Record(rows, plus, trans, k)
    BY <1>2 DEF Clone, Record
<1>4. PICK u \in BOOLEAN : u = ~t.trans
    OBVIOUS
<1>5. [t EXCEPT !.trans = ~@] = Record(rows, plus, u, store)
    <2>1. \A b : [t EXCEPT !.trans = b] = Record(rows, plus, b, store)
        BY ONLY <1>2 DEF Record
    <2> QED BY <1>4, <2>1, Zenon
<1>6. Transposed(t, k) = Record(rows, plus, u, IF Len(rows) = 1 THEN store ELSE k)
    <2>1. PICK v : v = [t EXCEPT !.trans = ~@]
        OBVIOUS
    <2>2. v = Record(rows, plus, u, store) /\ t.rows = rows
        BY <1>5, <1>2, <2>1 DEF Record
    <2>3. v.store = store /\ \A s : [v EXCEPT !.store = s] = Record(rows, plus, u, s)
        BY ONLY <2>2 DEF Record
    <2>4. Transposed(t, k) = [v EXCEPT !.store = IF Len(rows) = 1 THEN store ELSE k]
        BY <2>1, <2>2, <2>3, Zenon DEF Transposed
    <2> QED BY <2>3, <2>4, Zenon
<1>7. IsRows(Clone(t, k), rows)
    BY <1>3, Zenon DEF IsRows
<1>8. IsRows(Transposed(t, k), rows)
    BY <1>6, Zenon DEF IsRows
<1> QED BY <1>7, <1>8

\* What a step leaves alone still holds its rows.
LEMMA SameHolds ==
    ASSUME NEW d, NEW e, NEW K, Same(d, e, K), NEW o, NEW n, <<o, n>> \notin K,
           NEW rows, Holds(d, o, n, rows)
    PROVE  Holds(e, o, n, rows)
<1>1. <<o, n>> \in DOMAIN e /\ e[<<o, n>>] = d[<<o, n>>]
    BY Zenon DEF Same, Holds
<1> QED BY <1>1, Zenon DEF Holds

\* The key a tensor is put under holds its rows.
LEMMA PutHolds ==
    ASSUME NEW d, NEW o, NEW n, NEW t, NEW rows, IsRows(t, rows)
    PROVE  Holds(Put(d, <<o, n>>, t), o, n, rows)
<1>1. /\ <<o, n>> \in DOMAIN Put(d, <<o, n>>, t)
      /\ Put(d, <<o, n>>, t)[<<o, n>>] = t
    BY DEF Put
<1> QED BY <1>1, Zenon DEF Holds

\* Rename touches the two names only.
LEMMA RenameSame ==
    ASSUME NEW d, NEW a, NEW b
    PROVE  Same(d, Rename(d, a, b), {a, b})
<1>1. CASE a \in DOMAIN d
    <2>1. Rename(d, a, b) = Put(Drop(d, {a}), b, Clone(d[a], b))
        BY <1>1, Zenon DEF Rename
    <2>2. PICK x, t : x = Drop(d, {a}) /\ t = Clone(d[a], b)
        OBVIOUS
    <2>3. Same(d, x, {a})
        BY <2>2, DropKeys, Zenon
    <2>4. Same(x, Put(x, b, t), {b})
        BY PutKeys, Zenon
    <2>5. Same(d, Put(x, b, t), {a} \cup {b})
        BY <2>3, <2>4, SameTrans, Zenon
    <2>6. {a} \cup {b} = {a, b}
        OBVIOUS
    <2> QED BY <2>1, <2>2, <2>5, <2>6, Zenon
<1>2. CASE a \notin DOMAIN d
    <2>1. Rename(d, a, b) = d
        BY <1>2, Zenon DEF Rename
    <2> QED BY <2>1, Zenon DEF Same
<1> QED BY <1>1, <1>2

\* The new name holds the rows of the old one.
LEMMA RenameHolds ==
    ASSUME NEW d, NEW o, NEW n, NEW rows, Holds(d, o, n, rows), NEW p, NEW m
    PROVE  Holds(Rename(d, <<o, n>>, <<p, m>>), p, m, rows)
<1>1. PICK t, x : t = Clone(d[<<o, n>>], <<p, m>>) /\ x = Drop(d, {<<o, n>>})
    OBVIOUS
<1>2. IsRows(t, rows)
    BY <1>1, KeptRows, Zenon DEF Holds
<1>3. Rename(d, <<o, n>>, <<p, m>>) = Put(x, <<p, m>>, t)
    BY <1>1, Zenon DEF Rename, Holds
<1> QED BY <1>2, <1>3, PutHolds, Zenon

\* From d to e the parameters names of owner o keep their rows.
Keeps(d, e, o, names) ==
    \A n \in names : \A rows : Holds(d, o, n, rows) => Holds(e, o, n, rows)

\* Two edits that keep the rows keep them together.
LEMMA KeepsTwice ==
    ASSUME NEW d, NEW e, NEW f, NEW o, NEW names, Keeps(d, e, o, names), Keeps(e, f, o, names)
    PROVE  Keeps(d, f, o, names)
BY Zenon DEF Keeps

\* An edit outside the parameters' keys keeps their rows.
LEMMA SameKeeps ==
    ASSUME NEW d, NEW e, NEW K, Same(d, e, K), NEW o, NEW names, \A n \in names : <<o, n>> \notin K
    PROVE  Keeps(d, e, o, names)
<1>1. ASSUME NEW n \in names, NEW rows, Holds(d, o, n, rows)
      PROVE  Holds(e, o, n, rows)
    BY <1>1, SameHolds
<1> QED BY <1>1, Zenon DEF Keeps

\* Putting, dropping and renaming parameters of an owner keep its others.
LEMMA EditKeeps ==
    ASSUME NEW d, NEW o, NEW names
    PROVE  /\ \A n, t : n \notin names => Keeps(d, Put(d, <<o, n>>, t), o, names)
           /\ \A D : D \cap names = {} => Keeps(d, Drop(d, Owned(o, D)), o, names)
           /\ \A a, b : a \notin names /\ b \notin names =>
                Keeps(d, Rename(d, <<o, a>>, <<o, b>>), o, names)
<1>1. ASSUME NEW n, NEW t, n \notin names
      PROVE  Keeps(d, Put(d, <<o, n>>, t), o, names)
    <2>1. \A m \in names : <<o, m>> \notin {<<o, n>>}
        BY <1>1
    <2>2. Same(d, Put(d, <<o, n>>, t), {<<o, n>>})
        BY PutKeys, Zenon
    <2> QED BY <2>1, <2>2, SameKeeps
<1>2. ASSUME NEW D, D \cap names = {}
      PROVE  Keeps(d, Drop(d, Owned(o, D)), o, names)
    <2>1. \A m \in names : <<o, m>> \notin Owned(o, D)
        BY <1>2, OwnedKeys
    <2>2. Same(d, Drop(d, Owned(o, D)), Owned(o, D))
        BY DropKeys, Zenon
    <2> QED BY <2>1, <2>2, SameKeeps
<1>3. ASSUME NEW a, NEW b, a \notin names, b \notin names
      PROVE  Keeps(d, Rename(d, <<o, a>>, <<o, b>>), o, names)
    <2>1. \A m \in names : <<o, m>> \notin {<<o, a>>, <<o, b>>}
        BY <1>3
    <2>2. Same(d, Rename(d, <<o, a>>, <<o, b>>), {<<o, a>>, <<o, b>>})
        BY RenameSame, Zenon
    <2> QED BY <2>1, <2>2, SameKeeps
<1> QED BY <1>1, <1>2, <1>3

\* The projections and per-head vectors a layer's heads are cut from.
Projections(linear) ==
    IF linear
    THEN {"in_proj_qkv", "in_proj_z", "in_proj_a", "in_proj_b", "conv1d", "A_log", "dt_bias",
          "out_proj"}
    ELSE {"q_proj", "k_proj", "v_proj", "o_proj"}

\* The layer of owner o has the rows the checkpoint has for the layer q.
LayerRaw(c, d, o, q, linear) ==
    \A n \in Projections(linear) : Holds(d, o, n, RawRows(q, n, LayerRows(c, linear)[n]))

\* What ConvertDeltaNet makes of them.
DeltaNetDone(c, d, o) ==
    LET Raw(n) == RawRows(o, n, LayerRows(c, TRUE)[n])
    IN  /\ Holds(d, o, "in_proj_fused",
                 InProjFused(c, Repack(c, Raw("in_proj_qkv")), Raw("in_proj_z"), Raw("in_proj_a"),
                             Raw("in_proj_b")))
        /\ Holds(d, o, "conv1d_weight", Repack(c, Raw("conv1d")))
        /\ Holds(d, o, "A_log_weight", Raw("A_log"))
        /\ Holds(d, o, "dt_bias_weight", Raw("dt_bias"))
        /\ Holds(d, o, "out_proj", Raw("out_proj"))

\* The keys of a converted DeltaNet layer hold the rows packed by rank.
LEMMA DeltaNetPacks ==
    ASSUME NEW c, NEW d, NEW o, LayerRaw(c, d, o, o, TRUE)
    PROVE  DeltaNetDone(c, ConvertDeltaNet(d, o, c), o)
<1> DEFINE Raw(n) == RawRows(o, n, LayerRows(c, TRUE)[n])
           Rows(n) == d[<<o, n>>].rows
           Repacked(n) == IF c.tp > 1 THEN ReorderQkv(c, Rows(n)) ELSE Rows(n)
           fused == <<o, "in_proj_fused">>
           out == <<o, "out_proj">>
           conv == <<o, "conv1d_weight">>
           inputs == {"in_proj_qkv", "in_proj_z", "in_proj_a", "in_proj_b", "conv1d"}
           proj == InProjFused(c, Repacked("in_proj_qkv"), Rows("in_proj_z"),
                               Rows("in_proj_a"), Rows("in_proj_b"))
           X == InProjFused(c, Repack(c, Raw("in_proj_qkv")), Raw("in_proj_z"), Raw("in_proj_a"),
                            Raw("in_proj_b"))
           Y == Repack(c, Raw("conv1d"))
           d1 == Drop(d, Owned(o, inputs))
           d2 == Put(d1, fused, Transposed(Tensor(fused, proj), fused))
           d3 == Put(d2, out, Transposed(d[out], out))
           d4 == Put(d3, conv, Tensor(conv, Repacked("conv1d")))
           d5 == Rename(d4, <<o, "A_log">>, <<o, "A_log_weight">>)
           d6 == Rename(d5, <<o, "dt_bias">>, <<o, "dt_bias_weight">>)
<1>0. ConvertDeltaNet(d, o, c) = d6
    BY Zenon DEF ConvertDeltaNet, Owned
<1>1. \A n \in Projections(TRUE) : Holds(d, o, n, Raw(n))
    BY DEF LayerRaw
<1>2. \A n \in Projections(TRUE) : IsRows(d[<<o, n>>], Raw(n)) /\ Rows(n) = Raw(n)
    BY <1>1, RowsOf, Zenon DEF Holds
<1>3. /\ "in_proj_qkv" \in Projections(TRUE) /\ "in_proj_z" \in Projections(TRUE)
      /\ "in_proj_a" \in Projections(TRUE) /\ "in_proj_b" \in Projections(TRUE)
      /\ "conv1d" \in Projections(TRUE) /\ "A_log" \in Projections(TRUE)
      /\ "dt_bias" \in Projections(TRUE) /\ "out_proj" \in Projections(TRUE)
    BY DEF Projections
<1>4. proj = X /\ Repacked("conv1d") = Y
    <2> HIDE DEF Raw, Rows
    <2> QED BY <1>2, <1>3, Zenon DEF Repack
<1> HIDE DEF proj, Repacked, Rows, Raw
<1>5. IsRows(Transposed(Tensor(fused, proj), fused), X)
    <2>1. IsRows(Tensor(fused, proj), X)
        BY <1>4, NewRows, Zenon
    <2> QED BY <2>1, KeptRows
<1>6. IsRows(Transposed(d[out], out), Raw("out_proj"))
    BY <1>2, <1>3, KeptRows
<1>7. IsRows(Tensor(conv, Repacked("conv1d")), Y)
    BY <1>4, NewRows, Zenon
<1> HIDE DEF X, Y, inputs
<1>8. Keeps(d, d1, o, {"A_log", "dt_bias"})
    <2>1. inputs \cap {"A_log", "dt_bias"} = {}
        BY DEF inputs
    <2> QED BY <2>1, EditKeeps
<1> HIDE DEF d1
<1>9. Holds(d2, o, "in_proj_fused", X) /\ Keeps(d1, d2, o, {"A_log", "dt_bias"})
    BY <1>5, PutHolds, EditKeeps
<1> HIDE DEF d2
<1>10. /\ Holds(d3, o, "out_proj", Raw("out_proj"))
       /\ Keeps(d2, d3, o, {"A_log", "dt_bias", "in_proj_fused"})
    BY <1>6, PutHolds, EditKeeps
<1> HIDE DEF d3
<1>11. /\ Holds(d4, o, "conv1d_weight", Y)
       /\ Keeps(d3, d4, o, {"A_log", "dt_bias", "in_proj_fused", "out_proj"})
    BY <1>7, PutHolds, EditKeeps
<1> HIDE DEF d4
<1>12. /\ Holds(d4, o, "A_log", Raw("A_log")) /\ Holds(d4, o, "dt_bias", Raw("dt_bias"))
       /\ Holds(d4, o, "in_proj_fused", X) /\ Holds(d4, o, "out_proj", Raw("out_proj"))
    <2>1. Holds(d3, o, "in_proj_fused", X)
        BY <1>9, <1>10 DEF Keeps
    <2>2. \A n \in {"A_log", "dt_bias"} : Holds(d3, o, n, Raw(n))
        <3> TAKE n \in {"A_log", "dt_bias"}
        <3>1. Holds(d, o, n, Raw(n))
            BY <1>1, <1>3
        <3>2. Holds(d1, o, n, Raw(n))
            BY <1>8, <3>1, Zenon DEF Keeps
        <3>3. Holds(d2, o, n, Raw(n))
            BY <1>9, <3>2, Zenon DEF Keeps
        <3> QED BY <1>10, <3>3 DEF Keeps
    <2> QED BY <1>10, <1>11, <2>1, <2>2 DEF Keeps
<1>13. /\ Holds(d5, o, "A_log_weight", Raw("A_log"))
       /\ Keeps(d4, d5, o, {"dt_bias", "in_proj_fused", "out_proj", "conv1d_weight"})
    BY <1>12, RenameHolds, EditKeeps
<1> HIDE DEF d5
<1>14. /\ Holds(d5, o, "dt_bias", Raw("dt_bias")) /\ Holds(d5, o, "in_proj_fused", X)
       /\ Holds(d5, o, "out_proj", Raw("out_proj")) /\ Holds(d5, o, "conv1d_weight", Y)
    BY <1>11, <1>12, <1>13 DEF Keeps
<1>15. /\ Holds(d6, o, "dt_bias_weight", Raw("dt_bias"))
       /\ Keeps(d5, d6, o, {"A_log_weight", "in_proj_fused", "out_proj", "conv1d_weight"})
    BY <1>14, RenameHolds, EditKeeps
<1> HIDE DEF d6
<1>16. /\ Holds(d6, o, "A_log_weight", Raw("A_log")) /\ Holds(d6, o, "in_proj_fused", X)
       /\ Holds(d6, o, "out_proj", Raw("out_proj")) /\ Holds(d6, o, "conv1d_weight", Y)
    BY <1>13, <1>14, <1>15 DEF Keeps
<1>17. DeltaNetDone(c, d6, o)
    BY <1>15, <1>16, Zenon DEF DeltaNetDone, X, Y, Raw
<1> QED BY <1>0, <1>17

\* What the fused attention kernel reads, where the converters make it.
GqaDone(c, d, o, q) ==
    LET Raw(n) == RawRows(q, n, LayerRows(c, FALSE)[n])
    IN  /\ Holds(d, o, "gqa_qkv_w",
                 GqaQkvFused(c, HeadHalf(c, Raw("q_proj"), 0), Raw("k_proj"), Raw("v_proj")))
        /\ Holds(d, o, "gqa_gate_w", HeadHalf(c, Raw("q_proj"), 1))
        /\ Holds(d, o, "gqa_o_proj_w", Raw("o_proj"))

\* The new names of the norms and rank_util leave the projections alone.
LEMMA NamedKeeps ==
    ASSUME NEW d, NEW o
    PROVE  Keeps(d, NamedAttention(d, o), o, {"q_proj", "k_proj", "v_proj", "o_proj"})
<1> DEFINE r == <<o, "rank_util">>
           N == {"q_proj", "k_proj", "v_proj", "o_proj"}
           d1 == Put(d, r, Tensor(r, << <<r, 0>> >>))
           d2 == Rename(d1, <<o, "q_norm">>, <<o, "q_layernorm">>)
           d3 == Rename(d2, <<o, "k_norm">>, <<o, "k_layernorm">>)
<1>0. NamedAttention(d, o) = d3
    BY Zenon DEF NamedAttention
<1>1. Keeps(d, d1, o, N)
    BY EditKeeps
<1> HIDE DEF d1
<1>2. Keeps(d1, d2, o, N)
    BY EditKeeps
<1> HIDE DEF d2
<1>3. Keeps(d2, d3, o, N)
    BY EditKeeps
<1> HIDE DEF d3
<1>4. Keeps(d, d2, o, N)
    BY <1>1, <1>2, KeepsTwice
<1> QED BY <1>0, <1>3, <1>4, KeepsTwice

\* Splitting the gate off q_proj leaves its halves, and k, v and o.
LEMMA SplitHolds ==
    ASSUME NEW c, NEW d, NEW o, NEW rows, Holds(d, o, "q_proj", rows)
    PROVE  /\ Holds(SplitGate(d, o, c), o, "q_proj", HeadHalf(c, rows, 0))
           /\ Holds(SplitGate(d, o, c), o, "output_gate_proj", HeadHalf(c, rows, 1))
           /\ Keeps(d, SplitGate(d, o, c), o, {"k_proj", "v_proj", "o_proj"})
<1> DEFINE q == <<o, "q_proj">>
           g == <<o, "output_gate_proj">>
           N == {"k_proj", "v_proj", "o_proj"}
           query == HeadHalf(c, d[q].rows, 0)
           gate == HeadHalf(c, d[q].rows, 1)
           d1 == Put(d, q, Tensor(q, query))
           d2 == Put(d1, g, Tensor(g, gate))
<1>0. SplitGate(d, o, c) = d2
    BY Zenon DEF SplitGate
<1>1. d[q].rows = rows
    BY RowsOf, Zenon DEF Holds
<1>2. /\ IsRows(Tensor(q, query), HeadHalf(c, rows, 0))
      /\ IsRows(Tensor(g, gate), HeadHalf(c, rows, 1))
    BY <1>1, NewRows, Zenon
<1> HIDE DEF query, gate
<1>3. Holds(d1, o, "q_proj", HeadHalf(c, rows, 0)) /\ Keeps(d, d1, o, N)
    BY <1>2, PutHolds, EditKeeps
<1> HIDE DEF d1
<1>4. /\ Holds(d2, o, "output_gate_proj", HeadHalf(c, rows, 1)) /\ Keeps(d1, d2, o, N)
      /\ Keeps(d1, d2, o, {"q_proj"})
    BY <1>2, PutHolds, EditKeeps
<1> HIDE DEF d2
<1>5. Keeps(d, d2, o, N)
    BY <1>3, <1>4, KeepsTwice
<1>6. Holds(d2, o, "q_proj", HeadHalf(c, rows, 0))
    BY <1>3, <1>4 DEF Keeps
<1> QED BY <1>0, <1>4, <1>5, <1>6

\* The copies hold the fused rows, the gate's and o_proj's.
LEMMA CopiesHold ==
    ASSUME NEW c, NEW d, NEW o, NEW q, NEW k, NEW v, NEW g, NEW p, Holds(d, o, "q_proj", q),
           Holds(d, o, "k_proj", k), Holds(d, o, "v_proj", v), Holds(d, o, "output_gate_proj", g),
           Holds(d, o, "o_proj", p)
    PROVE  /\ Holds(KernelCopies(d, o, c), o, "gqa_qkv_w", GqaQkvFused(c, q, k, v))
           /\ Holds(KernelCopies(d, o, c), o, "gqa_gate_w", g)
           /\ Holds(KernelCopies(d, o, c), o, "gqa_o_proj_w", p)
<1> DEFINE kw == <<o, "gqa_qkv_w">>
           kg == <<o, "gqa_gate_w">>
           kp == <<o, "gqa_o_proj_w">>
           qkv == GqaQkvFused(c, d[<<o, "q_proj">>].rows, d[<<o, "k_proj">>].rows,
                              d[<<o, "v_proj">>].rows)
           tw == Transposed(Tensor(kw, qkv), kw)
           tg == Transposed(d[<<o, "output_gate_proj">>], kg)
           tp == Transposed(d[<<o, "o_proj">>], kp)
           d1 == Put(d, kw, tw)
           d2 == Put(d1, kg, tg)
           d3 == Put(d2, kp, tp)
<1>0. KernelCopies(d, o, c) = d3
    BY Zenon DEF KernelCopies
<1>1. qkv = GqaQkvFused(c, q, k, v)
    <2>1. d[<<o, "q_proj">>].rows = q /\ d[<<o, "k_proj">>].rows = k /\ d[<<o, "v_proj">>].rows = v
        BY RowsOf, Zenon DEF Holds
    <2> QED BY <2>1, Zenon
<1> HIDE DEF qkv
<1>2. IsRows(tw, GqaQkvFused(c, q, k, v))
    <2>1. IsRows(Tensor(kw, qkv), GqaQkvFused(c, q, k, v))
        BY <1>1, NewRows, Zenon
    <2> QED BY <2>1, KeptRows
<1>3. IsRows(tg, g) /\ IsRows(tp, p)
    <2>1. IsRows(d[<<o, "output_gate_proj">>], g) /\ IsRows(d[<<o, "o_proj">>], p)
        BY Zenon DEF Holds
    <2> QED BY <2>1, KeptRows
<1> HIDE DEF tw, tg, tp
<1>4. Holds(d1, o, "gqa_qkv_w", GqaQkvFused(c, q, k, v))
    BY <1>2, PutHolds
<1> HIDE DEF d1
<1>5. Holds(d2, o, "gqa_gate_w", g) /\ Keeps(d1, d2, o, {"gqa_qkv_w"})
    BY <1>3, PutHolds, EditKeeps
<1> HIDE DEF d2
<1>6. Holds(d3, o, "gqa_o_proj_w", p) /\ Keeps(d2, d3, o, {"gqa_qkv_w", "gqa_gate_w"})
    BY <1>3, PutHolds, EditKeeps
<1> HIDE DEF d3
<1>7. Holds(d2, o, "gqa_qkv_w", GqaQkvFused(c, q, k, v))
    BY <1>4, <1>5 DEF Keeps
<1>8. Holds(d3, o, "gqa_qkv_w", GqaQkvFused(c, q, k, v)) /\ Holds(d3, o, "gqa_gate_w", g)
    BY <1>5, <1>6, <1>7 DEF Keeps
<1> QED BY <1>0, <1>6, <1>8

\* NxDI's fused projection takes the place of q, k and v only.
LEMMA FusedKeeps ==
    ASSUME NEW d, NEW o, NEW names, names \cap {"q_proj", "k_proj", "v_proj", "Wqkv"} = {}
    PROVE  Keeps(d, FusedQkv(d, o), o, names)
<1> DEFINE w == <<o, "Wqkv">>
           qkv == {"q_proj", "k_proj", "v_proj"}
           t == Tensor(w, d[<<o, "q_proj">>].rows \o d[<<o, "k_proj">>].rows
                            \o d[<<o, "v_proj">>].rows)
           d1 == Drop(d, Owned(o, qkv))
           d2 == Put(d1, w, t)
<1>0. FusedQkv(d, o) = d2
    BY Zenon DEF FusedQkv, Owned
<1> HIDE DEF t
<1>1. Keeps(d, d1, o, names)
    <2>1. qkv \cap names = {}
        OBVIOUS
    <2> HIDE DEF qkv
    <2> QED BY <2>1, EditKeeps
<1> HIDE DEF d1
<1>2. Keeps(d1, d2, o, names)
    <2>1. "Wqkv" \notin names
        OBVIOUS
    <2> QED BY <2>1, EditKeeps
<1> QED BY <1>0, <1>1, <1>2, KeepsTwice

\* The keys of the fused attention kernel hold the rows packed by rank.
LEMMA AttentionPacks ==
    ASSUME NEW c, NEW d, NEW o, NEW q, LayerRaw(c, d, o, q, FALSE), c.attn
    PROVE  GqaDone(c, ConvertAttention(d, o, c), o, q)
<1> DEFINE Raw(n) == RawRows(q, n, LayerRows(c, FALSE)[n])
           X == GqaQkvFused(c, HeadHalf(c, Raw("q_proj"), 0), Raw("k_proj"), Raw("v_proj"))
           d1 == NamedAttention(d, o)
           d2 == SplitGate(d1, o, c)
           d3 == KernelCopies(d2, o, c)
           d4 == IF c.fusedQkv THEN FusedQkv(d3, o) ELSE d3
           copies == {"gqa_qkv_w", "gqa_gate_w", "gqa_o_proj_w"}
<1>0. ConvertAttention(d, o, c) = d4
    BY Zenon DEF ConvertAttention
<1>1. \A n \in {"q_proj", "k_proj", "v_proj", "o_proj"} : Holds(d1, o, n, Raw(n))
    <2>1. \A n \in {"q_proj", "k_proj", "v_proj", "o_proj"} : Holds(d, o, n, Raw(n))
        BY DEF LayerRaw, Projections
    <2> HIDE DEF Raw, d1
    <2> QED BY <2>1, NamedKeeps DEF d1, Keeps
<1> HIDE DEF Raw, d1
<1>2. /\ Holds(d2, o, "q_proj", HeadHalf(c, Raw("q_proj"), 0))
      /\ Holds(d2, o, "output_gate_proj", HeadHalf(c, Raw("q_proj"), 1))
      /\ Keeps(d1, d2, o, {"k_proj", "v_proj", "o_proj"})
    BY <1>1, SplitHolds
<1> HIDE DEF d2
<1>3. /\ Holds(d2, o, "k_proj", Raw("k_proj")) /\ Holds(d2, o, "v_proj", Raw("v_proj"))
      /\ Holds(d2, o, "o_proj", Raw("o_proj"))
    BY <1>1, <1>2 DEF Keeps
<1>4. /\ Holds(d3, o, "gqa_qkv_w", X) /\ Holds(d3, o, "gqa_o_proj_w", Raw("o_proj"))
      /\ Holds(d3, o, "gqa_gate_w", HeadHalf(c, Raw("q_proj"), 1))
    BY <1>2, <1>3, CopiesHold
<1> HIDE DEF d3, X
<1>5. Keeps(d3, d4, o, copies)
    <2>1. copies \cap {"q_proj", "k_proj", "v_proj", "Wqkv"} = {}
        OBVIOUS
    <2> HIDE DEF copies
    <2>2. Keeps(d3, FusedQkv(d3, o), o, copies) /\ Keeps(d3, d3, o, copies)
        BY <2>1, FusedKeeps DEF Keeps
    <2> QED BY <2>2, Zenon
<1> HIDE DEF d4
<1>6. /\ Holds(d4, o, "gqa_qkv_w", X) /\ Holds(d4, o, "gqa_o_proj_w", Raw("o_proj"))
      /\ Holds(d4, o, "gqa_gate_w", HeadHalf(c, Raw("q_proj"), 1))
    BY <1>4, <1>5 DEF Keeps
<1> QED BY <1>0, <1>6, Zenon DEF GqaDone, X, Raw

\* ConvertMoe edits the MLP's keys only.
LEMMA MoeSame ==
    ASSUME NEW c, NEW d, NEW o
    PROVE  Same(d, ConvertMoe(d, o, c), Owned(o, MlpNames))
<1> DEFINE K == Owned(o, MlpNames)
           d1 == Rename(d, <<o, "gate">>, <<o, "moe.router">>)
           d2 == Rename(d1, <<o, "experts.gate_up_proj">>, <<o, "moe.gate_up_proj">>)
           d3 == Rename(d2, <<o, "experts.down_proj">>, <<o, "moe.down_proj">>)
           flipped == {<<o, "moe.gate_up_proj">>, <<o, "moe.down_proj">>}
                      \cup IF c.moe THEN SharedProjections(o) ELSE {}
           d4 == [k \in DOMAIN d3 |-> IF k \in flipped THEN Transposed(d3[k], k) ELSE d3[k]]
           router == <<o, "moe_router_w_t">>
           sigma == <<o, "moe_sigma_gate_t">>
           t5 == Clone(Transposed(d4[<<o, "moe.router">>], router), router)
           t6 == Clone(Transposed(d4[<<o, "shared_expert_gate">>], sigma), sigma)
           d5 == Put(d4, router, t5)
           d6 == Put(d5, sigma, t6)
<1>0. ConvertMoe(d, o, c) = IF c.moe THEN d6 ELSE d4
    BY Zenon DEF ConvertMoe, SigmaCopy
<1>1. /\ {<<o, "gate">>, <<o, "moe.router">>} \subseteq K
      /\ {<<o, "experts.gate_up_proj">>, <<o, "moe.gate_up_proj">>} \subseteq K
      /\ {<<o, "experts.down_proj">>, <<o, "moe.down_proj">>} \subseteq K
      /\ flipped \subseteq K /\ {router} \subseteq K /\ {sigma} \subseteq K
    BY DEF Owned, MlpNames, SharedProjections
<1> HIDE DEF K, flipped, t5, t6
<1>2. Same(d, d1, K)
    <2>1. Same(d, d1, {<<o, "gate">>, <<o, "moe.router">>})
        BY RenameSame, Zenon
    <2> QED BY <1>1, <2>1, SameWeaker
<1> HIDE DEF d1
<1>3. Same(d1, d2, K)
    <2>1. Same(d1, d2, {<<o, "experts.gate_up_proj">>, <<o, "moe.gate_up_proj">>})
        BY RenameSame, Zenon
    <2> QED BY <1>1, <2>1, SameWeaker
<1> HIDE DEF d2
<1>4. Same(d2, d3, K)
    <2>1. Same(d2, d3, {<<o, "experts.down_proj">>, <<o, "moe.down_proj">>})
        BY RenameSame, Zenon
    <2> QED BY <1>1, <2>1, SameWeaker
<1> HIDE DEF d3
<1>5. Same(d3, d4, K)
    BY <1>1 DEF Same
<1> HIDE DEF d4, router, sigma
<1>6. Same(d4, d5, K)
    <2>1. Same(d4, Put(d4, router, t5), {router})
        BY PutKeys, Zenon
    <2> QED BY <1>1, <2>1, SameWeaker
<1> HIDE DEF d5
<1>7. Same(d5, d6, K)
    <2>1. Same(d5, Put(d5, sigma, t6), {sigma})
        BY PutKeys, Zenon
    <2> QED BY <1>1, <2>1, SameWeaker
<1> HIDE DEF d6
<1>8. Same(d, d3, K)
    <2>1. Same(d, d2, K)
        BY <1>2, <1>3, SameTwice
    <2> QED BY <1>4, <2>1, SameTwice
<1>9. Same(d, d4, K)
    BY <1>5, <1>8, SameTwice
<1>10. Same(d, d5, K)
    BY <1>6, <1>9, SameTwice
<1>11. Same(d, d6, K)
    BY <1>7, <1>10, SameTwice
<1> QED BY <1>0, <1>9, <1>11, Zenon DEF K

\* The parameters whose rows a layer's heads are cut from, before and after.
RowNames ==
    Projections(TRUE) \cup Projections(FALSE)
    \cup {"in_proj_fused", "conv1d_weight", "A_log_weight", "dt_bias_weight"}
    \cup {"gqa_qkv_w", "gqa_gate_w", "gqa_o_proj_w"}

\* They are the mixer's, and no norms.
LEMMA RowsAreMixers ==
    /\ RowNames \subseteq MixerNames /\ RowNames \subseteq LayerNames
    /\ \A n \in RowNames : n \notin MlpNames /\ n \notin ShiftedNames
<1>1. RowNames \subseteq MixerNames
    BY DEF RowNames, Projections, MixerNames, DeltaNetParams
<1>2. \A n \in RowNames : n \notin MlpNames
    BY DEF RowNames, Projections, MlpNames
<1>3. \A n \in RowNames : n \notin ShiftedNames
    BY DEF RowNames, Projections, ShiftedNames, ScaledNorms
<1> QED BY <1>1, <1>2, <1>3 DEF LayerNames

\* The layer of owner o, of the checkpoint's layer q, is converted: its heads
\* divide by the TP degree and its kernels' parameters hold the packed rows.
LayerDone(c, d, o, q, linear) ==
    IF linear
    THEN ~DeltaNetRaises(c) /\ DeltaNetDone(c, d, o)
    ELSE ~AttentionRaises(c) /\ (c.attn => GqaDone(c, d, o, q))

\* A step that keeps those rows keeps a layer raw, or done.
LEMMA LayerKept ==
    ASSUME NEW c, NEW d, NEW e, NEW o, NEW q, NEW linear \in BOOLEAN, Keeps(d, e, o, RowNames)
    PROVE  /\ LayerRaw(c, d, o, q, linear) => LayerRaw(c, e, o, q, linear)
           /\ LayerDone(c, d, o, q, linear) => LayerDone(c, e, o, q, linear)
<1>1. \A n \in RowNames : \A rows : Holds(d, o, n, rows) => Holds(e, o, n, rows)
    BY Zenon DEF Keeps
<1>2. Projections(linear) \subseteq RowNames
    BY DEF RowNames
<1>3. LayerRaw(c, d, o, q, linear) => LayerRaw(c, e, o, q, linear)
    BY <1>1, <1>2 DEF LayerRaw
<1>4. /\ "in_proj_fused" \in RowNames /\ "conv1d_weight" \in RowNames
      /\ "A_log_weight" \in RowNames /\ "dt_bias_weight" \in RowNames /\ "out_proj" \in RowNames
      /\ "gqa_qkv_w" \in RowNames /\ "gqa_gate_w" \in RowNames /\ "gqa_o_proj_w" \in RowNames
    BY DEF RowNames, Projections
<1>5. DeltaNetDone(c, d, o) => DeltaNetDone(c, e, o)
    BY <1>1, <1>4, Zenon DEF DeltaNetDone
<1>6. GqaDone(c, d, o, q) => GqaDone(c, e, o, q)
    BY <1>1, <1>4, Zenon DEF GqaDone
<1> QED BY <1>3, <1>5, <1>6 DEF LayerDone

\* The converters of one layer leave it done.
LEMMA LayerPacks ==
    ASSUME NEW c, NEW d, NEW o, NEW q, NEW linear \in BOOLEAN, LayerRaw(c, d, o, q, linear),
           linear => q = o,
           IF linear THEN ~DeltaNetRaises(c) ELSE ~AttentionRaises(c),
           NEW m, m = IF linear THEN ConvertDeltaNet(d, o, c) ELSE ConvertAttention(d, o, c)
    PROVE  LayerDone(c, ConvertMoe(m, o, c), o, q, linear)
<1>1. LayerDone(c, m, o, q, linear)
    <2>1. CASE linear
        <3>1. m = ConvertDeltaNet(d, o, c) /\ LayerRaw(c, d, o, o, TRUE)
            BY <2>1
        <3> QED BY <2>1, <3>1, DeltaNetPacks DEF LayerDone
    <2>2. CASE ~linear
        <3>1. m = ConvertAttention(d, o, c) /\ LayerRaw(c, d, o, q, FALSE)
            BY <2>2
        <3> QED BY <2>2, <3>1, AttentionPacks DEF LayerDone
    <2> QED BY <2>1, <2>2
<1>2. Keeps(m, ConvertMoe(m, o, c), o, RowNames)
    <2>1. \A n \in RowNames : <<o, n>> \notin Owned(o, MlpNames)
        BY RowsAreMixers, OwnedKeys
    <2> QED BY <2>1, MoeSame, SameKeeps
<1> QED BY <1>1, <1>2, LayerKept

\* From d to e nothing changes but what the owners have.
Edits(d, e, owners) ==
    \A k : k[1] \notin owners => /\ k \in DOMAIN d <=> k \in DOMAIN e
                                 /\ k \in DOMAIN d => e[k] = d[k]

\* An edit of keys of the owners, and one such edit after another.
LEMMA SameEdits ==
    ASSUME NEW owners, NEW d, NEW e, Edits(d, e, owners), NEW f, NEW K, Same(e, f, K),
           \A k \in K : k[1] \in owners
    PROVE  Edits(d, f, owners)
<1>1. \A k : k[1] \notin owners => k \notin K
    BY Zenon
<1> QED BY <1>1, Zenon DEF Edits, Same

\* Putting, renaming and dropping the owners' parameters are such edits.
LEMMA OwnerEdits ==
    ASSUME NEW owners, NEW d, NEW e, Edits(d, e, owners), NEW o \in owners
    PROVE  /\ \A n, t : Edits(d, Put(e, <<o, n>>, t), owners)
           /\ \A p \in owners : \A a, b : Edits(d, Rename(e, <<o, a>>, <<p, b>>), owners)
           /\ \A D : Edits(d, Drop(e, Owned(o, D)), owners)
<1>1. ASSUME NEW n, NEW t
      PROVE  Edits(d, Put(e, <<o, n>>, t), owners)
    <2>1. PICK k : k = <<o, n>>
        OBVIOUS
    <2>2. \A m \in {k} : m[1] \in owners
        BY <2>1, KeysOfOwner
    <2>3. Same(e, Put(e, k, t), {k})
        BY PutKeys, Zenon
    <2>4. Edits(d, Put(e, k, t), owners)
        BY <2>2, <2>3, SameEdits
    <2> QED BY <2>1, <2>4
<1>2. ASSUME NEW p \in owners, NEW a, NEW b
      PROVE  Edits(d, Rename(e, <<o, a>>, <<p, b>>), owners)
    <2>1. PICK k, m : k = <<o, a>> /\ m = <<p, b>>
        OBVIOUS
    <2>2. \A x \in {k, m} : x[1] \in owners
        BY <2>1, KeysOfOwner
    <2>3. Same(e, Rename(e, k, m), {k, m})
        BY RenameSame, Zenon
    <2>4. Edits(d, Rename(e, k, m), owners)
        BY <2>2, <2>3, SameEdits
    <2> QED BY <2>1, <2>4
<1>3. ASSUME NEW D
      PROVE  Edits(d, Drop(e, Owned(o, D)), owners)
    <2>1. \A k \in Owned(o, D) : k[1] \in owners
        BY OwnedKeys
    <2>2. Same(e, Drop(e, Owned(o, D)), Owned(o, D))
        BY DropKeys, Zenon
    <2> QED BY <2>1, <2>2, SameEdits
<1> QED BY <1>1, <1>2, <1>3

\* Other owners' parameters keep their rows.
LEMMA EditsKeep ==
    ASSUME NEW owners, NEW d, NEW e, Edits(d, e, owners), NEW o, o \notin owners, NEW names
    PROVE  Keeps(d, e, o, names)
<1>1. ASSUME NEW n \in names, NEW rows, Holds(d, o, n, rows)
      PROVE  Holds(e, o, n, rows)
    <2>1. <<o, n>>[1] \notin owners
        BY KeysOfOwner
    <2>2. <<o, n>> \in DOMAIN e /\ e[<<o, n>>] = d[<<o, n>>]
        BY <1>1, <2>1, Zenon DEF Edits, Holds
    <2> QED BY <1>1, <2>2, Zenon DEF Holds
<1> QED BY <1>1, Zenon DEF Keeps

\* ConvertDeltaNet edits its owner only.
LEMMA DeltaNetEdits ==
    ASSUME NEW c, NEW d, NEW o
    PROVE  Edits(d, ConvertDeltaNet(d, o, c), {o})
<1> DEFINE Rows(n) == d[<<o, n>>].rows
           Repacked(n) == IF c.tp > 1 THEN ReorderQkv(c, Rows(n)) ELSE Rows(n)
           fused == <<o, "in_proj_fused">>
           out == <<o, "out_proj">>
           conv == <<o, "conv1d_weight">>
           inputs == {"in_proj_qkv", "in_proj_z", "in_proj_a", "in_proj_b", "conv1d"}
           proj == InProjFused(c, Repacked("in_proj_qkv"), Rows("in_proj_z"),
                               Rows("in_proj_a"), Rows("in_proj_b"))
           t2 == Transposed(Tensor(fused, proj), fused)
           t3 == Transposed(d[out], out)
           t4 == Tensor(conv, Repacked("conv1d"))
           d1 == Drop(d, Owned(o, inputs))
           d2 == Put(d1, fused, t2)
           d3 == Put(d2, out, t3)
           d4 == Put(d3, conv, t4)
           d5 == Rename(d4, <<o, "A_log">>, <<o, "A_log_weight">>)
           d6 == Rename(d5, <<o, "dt_bias">>, <<o, "dt_bias_weight">>)
<1>0. ConvertDeltaNet(d, o, c) = d6
    BY Zenon DEF ConvertDeltaNet, Owned
<1> HIDE DEF t2, t3, t4, inputs
<1>1. PICK S : S = {o}
    OBVIOUS
<1>2. o \in S /\ Edits(d, d, S)
    BY <1>1 DEF Edits
<1>3. Edits(d, d1, S)
    BY <1>2, OwnerEdits
<1> HIDE DEF d1
<1>4. Edits(d, d2, S)
    BY <1>2, <1>3, OwnerEdits
<1> HIDE DEF d2
<1>5. Edits(d, d3, S)
    BY <1>2, <1>4, OwnerEdits
<1> HIDE DEF d3
<1>6. Edits(d, d4, S)
    BY <1>2, <1>5, OwnerEdits
<1> HIDE DEF d4
<1>7. Edits(d, d5, S)
    BY <1>2, <1>6, OwnerEdits
<1> HIDE DEF d5
<1>8. Edits(d, d6, S)
    BY <1>2, <1>7, OwnerEdits
<1> QED BY <1>0, <1>1, <1>8

\* ConvertAttention edits its owner only.
LEMMA AttentionEdits ==
    ASSUME NEW c, NEW d, NEW o
    PROVE  Edits(d, ConvertAttention(d, o, c), {o})
<1>1. PICK S : S = {o}
    OBVIOUS
<1>2. o \in S /\ Edits(d, d, S)
    BY <1>1 DEF Edits
<1>3. ASSUME NEW e, Edits(d, e, S)
      PROVE  Edits(d, NamedAttention(e, o), S)
    <2> DEFINE r == <<o, "rank_util">>
               t == Tensor(r, << <<r, 0>> >>)
               e1 == Put(e, r, t)
               e2 == Rename(e1, <<o, "q_norm">>, <<o, "q_layernorm">>)
               e3 == Rename(e2, <<o, "k_norm">>, <<o, "k_layernorm">>)
    <2>0. NamedAttention(e, o) = e3
        BY Zenon DEF NamedAttention
    <2> HIDE DEF t
    <2>1. Edits(d, e1, S)
        BY <1>2, <1>3, OwnerEdits
    <2> HIDE DEF e1
    <2>2. Edits(d, e2, S)
        BY <1>2, <2>1, OwnerEdits
    <2> HIDE DEF e2
    <2>3. Edits(d, e3, S)
        BY <1>2, <2>2, OwnerEdits
    <2> QED BY <2>0, <2>3
<1>4. ASSUME NEW e, Edits(d, e, S)
      PROVE  Edits(d, SplitGate(e, o, c), S)
    <2> DEFINE q == <<o, "q_proj">>
               g == <<o, "output_gate_proj">>
               t1 == Tensor(q, HeadHalf(c, e[q].rows, 0))
               t2 == Tensor(g, HeadHalf(c, e[q].rows, 1))
               e1 == Put(e, q, t1)
               e2 == Put(e1, g, t2)
    <2>0. SplitGate(e, o, c) = e2
        BY Zenon DEF SplitGate
    <2> HIDE DEF t1, t2
    <2>1. Edits(d, e1, S)
        BY <1>2, <1>4, OwnerEdits
    <2> HIDE DEF e1
    <2>2. Edits(d, e2, S)
        BY <1>2, <2>1, OwnerEdits
    <2> QED BY <2>0, <2>2
<1>5. ASSUME NEW e, Edits(d, e, S)
      PROVE  Edits(d, KernelCopies(e, o, c), S)
    <2> DEFINE w == <<o, "gqa_qkv_w">>
               g == <<o, "gqa_gate_w">>
               p == <<o, "gqa_o_proj_w">>
               qkv == GqaQkvFused(c, e[<<o, "q_proj">>].rows, e[<<o, "k_proj">>].rows,
                                  e[<<o, "v_proj">>].rows)
               t1 == Transposed(Tensor(w, qkv), w)
               t2 == Transposed(e[<<o, "output_gate_proj">>], g)
               t3 == Transposed(e[<<o, "o_proj">>], p)
               e1 == Put(e, w, t1)
               e2 == Put(e1, g, t2)
               e3 == Put(e2, p, t3)
    <2>0. KernelCopies(e, o, c) = e3
        BY Zenon DEF KernelCopies
    <2> HIDE DEF t1, t2, t3
    <2>1. Edits(d, e1, S)
        BY <1>2, <1>5, OwnerEdits
    <2> HIDE DEF e1
    <2>2. Edits(d, e2, S)
        BY <1>2, <2>1, OwnerEdits
    <2> HIDE DEF e2
    <2>3. Edits(d, e3, S)
        BY <1>2, <2>2, OwnerEdits
    <2> QED BY <2>0, <2>3
<1>6. ASSUME NEW e, Edits(d, e, S)
      PROVE  Edits(d, FusedQkv(e, o), S)
    <2> DEFINE w == <<o, "Wqkv">>
               qkv == {"q_proj", "k_proj", "v_proj"}
               t == Tensor(w, e[<<o, "q_proj">>].rows \o e[<<o, "k_proj">>].rows
                                \o e[<<o, "v_proj">>].rows)
               e1 == Drop(e, Owned(o, qkv))
               e2 == Put(e1, w, t)
    <2>0. FusedQkv(e, o) = e2
        BY Zenon DEF FusedQkv, Owned
    <2> HIDE DEF t, qkv
    <2>1. Edits(d, e1, S)
        BY <1>2, <1>6, OwnerEdits
    <2> HIDE DEF e1
    <2>2. Edits(d, e2, S)
        BY <1>2, <2>1, OwnerEdits
    <2> QED BY <2>0, <2>2
<1>7. PICK split : split = SplitGate(NamedAttention(d, o), o, c)
    OBVIOUS
<1>8. Edits(d, split, S)
    BY <1>2, <1>3, <1>4, <1>7
<1>9. PICK copied : copied = IF c.attn THEN KernelCopies(split, o, c) ELSE split
    OBVIOUS
<1>10. Edits(d, copied, S)
    BY <1>5, <1>8, <1>9
<1>11. ConvertAttention(d, o, c) = IF c.fusedQkv THEN FusedQkv(copied, o) ELSE copied
    BY <1>7, <1>9, Zenon DEF ConvertAttention
<1> QED BY <1>1, <1>6, <1>10, <1>11

\* So do the converters of one layer.
LEMMA LayerEdits ==
    ASSUME NEW c, NEW d, NEW o, NEW linear,
           NEW m, m = IF linear THEN ConvertDeltaNet(d, o, c) ELSE ConvertAttention(d, o, c)
    PROVE  Edits(d, ConvertMoe(m, o, c), {o})
<1>1. Edits(d, m, {o})
    BY DeltaNetEdits, AttentionEdits
<1>2. \A k \in Owned(o, MlpNames) : k[1] \in {o}
    BY OwnedKeys, Zenon
<1> QED BY <1>1, <1>2, MoeSame, SameEdits

\* The owners of the MTP head's parameters, before and after they are renamed.
MtpOwners == {Mtp, MtpLayer, MtpHead, MtpHeadLayer}

\* The norms' keys have an owner, and names that are no projection's.
LEMMA NormsAreNorms ==
    ASSUME NEW c
    PROVE  /\ \A k \in NormsOf(c) : k[2] \in ShiftedNames
           /\ \A k \in MtpNorms : k[1] \in MtpOwners /\ k[2] \in ShiftedNames
<1>1. \A o, n : <<o, n>>[1] = o /\ <<o, n>>[2] = n
    BY KeysOfOwner
<1>2. \A n \in {"norm", "input_layernorm", "post_attention_layernorm", "q_norm", "k_norm",
                "embed_norm", "hidden_norm", "final_norm"} : n \in ShiftedNames
    BY DEF ShiftedNames, ScaledNorms
<1>3. \A k \in NormsOf(c) : \E o : \E n \in {"norm", "input_layernorm", "post_attention_layernorm",
                                             "q_norm", "k_norm"} : k = <<o, n>>
    BY DEF NormsOf
<1>4. \A k \in MtpNorms : \E o \in MtpOwners :
        \E n \in {"input_layernorm", "post_attention_layernorm", "q_norm", "k_norm",
                  "embed_norm", "hidden_norm", "final_norm"} : k = <<o, n>>
    BY DEF MtpNorms, MtpOwners
<1>5. \A k \in NormsOf(c) : k[2] \in ShiftedNames
    <2> TAKE k \in NormsOf(c)
    <2>1. PICK o, n \in {"norm", "input_layernorm", "post_attention_layernorm",
                         "q_norm", "k_norm"} : k[2] = n
        BY <1>1, <1>3
    <2> QED BY <1>2, <2>1
<1>6. \A k \in MtpNorms : k[1] \in MtpOwners /\ k[2] \in ShiftedNames
    <2> TAKE k \in MtpNorms
    <2>1. PICK o \in MtpOwners : \E n \in {"input_layernorm", "post_attention_layernorm", "q_norm",
                                           "k_norm", "embed_norm", "hidden_norm", "final_norm"} :
                                   k = <<o, n>>
        BY <1>4
    <2>2. PICK n \in {"input_layernorm", "post_attention_layernorm", "q_norm",
                      "k_norm", "embed_norm", "hidden_norm", "final_norm"} : k = <<o, n>>
        BY <2>1
    <2> QED BY <1>1, <1>2, <2>2
<1> QED BY <1>5, <1>6

\* The shift of norms keeps the projections of every layer.
LEMMA ShiftKeeps ==
    ASSUME NEW d, NEW K, \A k \in K : k[2] \in ShiftedNames, NEW o
    PROVE  Keeps(d, Shifted(d, K), o, RowNames)
<1>1. \A n \in RowNames : <<o, n>> \notin K
    BY RowsAreMixers, KeysOfOwner
<1> QED BY <1>1, ShiftKeys, SameKeeps

\* The head's layer has the rows of the MTP layer it is renamed from, and no
\* other owner's key changes.
LEMMA MtpRows ==
    ASSUME NEW d
    PROVE  /\ \A n, rows : Holds(d, MtpLayer, n, rows) =>
                Holds(RenamedMtp(d), MtpHeadLayer, n, rows)
           /\ Edits(d, RenamedMtp(d), MtpOwners)
<1> DEFINE eh == <<MtpHead, "eh_proj">>
           t1 == Rename(d, <<Mtp, "fc">>, <<MtpHead, "eh_proj">>)
           t2 == Rename(t1, <<Mtp, "pre_fc_norm_embedding">>, <<MtpHead, "embed_norm">>)
           t3 == Rename(t2, <<Mtp, "pre_fc_norm_hidden">>, <<MtpHead, "hidden_norm">>)
           top == Rename(t3, <<Mtp, "norm">>, <<MtpHead, "final_norm">>)
           turn == Transposed(top[eh], eh)
           turned == Put(top, eh, turn)
           moved == {k \in DOMAIN d : k[1] = MtpLayer}
           layer0 == [k \in {<<MtpHeadLayer, m[2]>> : m \in moved} |->
                        Clone(d[<<MtpLayer, k[2]>>], k)]
           X == {k \in DOMAIN top : k[1] \in {Mtp, MtpLayer}}
           both == Over(layer0, turned)
<1>0. RenamedMtp(d) = Drop(both, X)
    BY Zenon DEF RenamedMtp
<1>1. PICK S : S = MtpOwners
    OBVIOUS
<1>2. /\ Mtp \in S /\ MtpLayer \in S /\ MtpHead \in S /\ MtpHeadLayer \in S
      /\ Edits(d, d, S)
    BY <1>1 DEF MtpOwners, Edits
<1>3. Edits(d, t1, S)
    BY <1>2, OwnerEdits
<1> HIDE DEF t1
<1>4. Edits(d, t2, S)
    BY <1>2, <1>3, OwnerEdits
<1> HIDE DEF t2
<1>5. Edits(d, t3, S)
    BY <1>2, <1>4, OwnerEdits
<1> HIDE DEF t3
<1>6. Edits(d, top, S)
    BY <1>2, <1>5, OwnerEdits
<1> HIDE DEF top, turn
<1>7. Edits(d, turned, S)
    BY <1>2, <1>6, OwnerEdits
<1>8. \A k \in X : k[1] \in S /\ k[1] \in {Mtp, MtpLayer}
    BY <1>2
<1> HIDE DEF turned, X
<1>9. /\ DOMAIN layer0 = {<<MtpHeadLayer, m[2]>> : m \in moved}
      /\ \A k \in DOMAIN layer0 : layer0[k] = Clone(d[<<MtpLayer, k[2]>>], k)
    OBVIOUS
<1>10. \A k \in DOMAIN layer0 : k[1] \in S
    <2> TAKE k \in DOMAIN layer0
    <2>1. PICK m \in moved : k = <<MtpHeadLayer, m[2]>>
        BY <1>9
    <2> QED BY <1>2, <2>1, KeysOfOwner
<1>11. /\ DOMAIN both = DOMAIN layer0 \cup DOMAIN turned
       /\ \A k \in DOMAIN layer0 : both[k] = layer0[k]
       /\ \A k \in DOMAIN turned \ DOMAIN layer0 : both[k] = turned[k]
    <2> HIDE DEF layer0
    <2> QED BY OverKeys, Zenon
<1>12. \A n : <<MtpLayer, n>> \in DOMAIN d => /\ <<MtpHeadLayer, n>> \in DOMAIN layer0
                                              /\ layer0[<<MtpHeadLayer, n>>]
                                                   = Clone(d[<<MtpLayer, n>>], <<MtpHeadLayer, n>>)
    <2> TAKE n
    <2> HAVE <<MtpLayer, n>> \in DOMAIN d
    <2>1. PICK m \in DOMAIN d : m = <<MtpLayer, n>>
        OBVIOUS
    <2>2. m \in moved /\ m[2] = n
        BY <2>1, KeysOfOwner
    <2>3. <<MtpHeadLayer, n>> \in DOMAIN layer0
        BY <1>9, <2>2
    <2>4. PICK k \in DOMAIN layer0 : k = <<MtpHeadLayer, n>>
        BY <2>3
    <2>5. k[2] = n
        BY <2>4, KeysOfOwner
    <2>6. layer0[k] = Clone(d[<<MtpLayer, n>>], k)
        BY <1>9, <2>5, Zenon
    <2> QED BY <2>4, <2>6, Zenon
<1> HIDE DEF layer0, both
<1>13. /\ DOMAIN Drop(both, X) = DOMAIN both \ X
       /\ \A k \in DOMAIN both \ X : Drop(both, X)[k] = both[k]
    BY DropKeys, Zenon
<1>14. ASSUME NEW n, NEW rows, Holds(d, MtpLayer, n, rows)
       PROVE  Holds(Drop(both, X), MtpHeadLayer, n, rows)
    <2>1. PICK k : k = <<MtpHeadLayer, n>>
        OBVIOUS
    <2>2. <<MtpLayer, n>> \in DOMAIN d /\ IsRows(d[<<MtpLayer, n>>], rows)
        BY <1>14, Zenon DEF Holds
    <2>3. k \in DOMAIN layer0 /\ layer0[k] = Clone(d[<<MtpLayer, n>>], k)
        BY <1>12, <2>1, <2>2, Zenon
    <2>4. k \notin X
        BY <1>8, <2>1, KeysOfOwner, OwnersDiffer
    <2>5. k \in DOMAIN Drop(both, X) /\ Drop(both, X)[k] = layer0[k]
        BY <1>11, <1>13, <2>3, <2>4
    <2>6. IsRows(layer0[k], rows)
        BY <2>2, <2>3, KeptRows
    <2> QED BY <2>1, <2>5, <2>6, Zenon DEF Holds
<1>15. Edits(d, Drop(both, X), S)
    <2>1. ASSUME NEW k, k[1] \notin S
          PROVE  /\ k \in DOMAIN d <=> k \in DOMAIN Drop(both, X)
                 /\ k \in DOMAIN d => Drop(both, X)[k] = d[k]
        <3>1. (k \in DOMAIN d <=> k \in DOMAIN turned) /\ (k \in DOMAIN d => turned[k] = d[k])
            BY <1>7, <2>1, Zenon DEF Edits
        <3>2. k \notin X /\ k \notin DOMAIN layer0
            BY <1>8, <1>10, <2>1
        <3> QED BY <1>11, <1>13, <3>1, <3>2
    <2> QED BY <2>1, Zenon DEF Edits
<1> QED BY <1>0, <1>1, <1>14, <1>15

\* The conversion of the MTP head leaves its layer done and the backbone alone.
LEMMA MtpPacks ==
    ASSUME NEW c, NEW d, LayerRaw(c, d, MtpLayer, MtpLayer, FALSE), ~AttentionRaises(c),
           NEW e, e = ConvertedMtp(d, c)
    PROVE  /\ LayerDone(c, e, MtpHeadLayer, MtpLayer, FALSE)
           /\ Edits(d, e, MtpOwners)
<1> DEFINE h == <<MtpHead, "mtp_lm_head">>
           t == <<Top, "lm_head">>
<1>1. PICK d1, d2, m, d3 : /\ d1 = RenamedMtp(d) /\ d2 = Shifted(d1, MtpNorms)
                           /\ m = ConvertAttention(d2, MtpHeadLayer, c)
                           /\ d3 = ConvertMoe(m, MtpHeadLayer, c)
    OBVIOUS
<1>2. PICK x : x = Clone(d3[t], h) /\ e = Put(d3, h, x)
    BY <1>1, Zenon DEF ConvertedMtp, TiedHead
<1>3. LayerRaw(c, d1, MtpHeadLayer, MtpLayer, FALSE)
    BY <1>1, MtpRows DEF LayerRaw
<1>4. LayerRaw(c, d2, MtpHeadLayer, MtpLayer, FALSE)
    <2>1. Keeps(d1, d2, MtpHeadLayer, RowNames)
        BY <1>1, NormsAreNorms, ShiftKeeps
    <2> QED BY <1>3, <2>1, LayerKept
<1>5. LayerDone(c, d3, MtpHeadLayer, MtpLayer, FALSE)
    <2>1. FALSE \in BOOLEAN /\ m = IF FALSE THEN ConvertDeltaNet(d2, MtpHeadLayer, c)
                                            ELSE ConvertAttention(d2, MtpHeadLayer, c)
        BY <1>1
    <2>2. LayerDone(c, ConvertMoe(m, MtpHeadLayer, c), MtpHeadLayer, MtpLayer, FALSE)
        BY <1>4, <2>1, LayerPacks
    <2> QED BY <1>1, <2>2
<1>6. PICK S : S = MtpOwners
    OBVIOUS
<1>7. MtpHead \in S /\ MtpHeadLayer \in S
    BY <1>6 DEF MtpOwners
<1>8. Edits(d, d1, S)
    BY <1>1, <1>6, MtpRows
<1>9. Edits(d, d2, S)
    <2>1. Same(d1, d2, MtpNorms) /\ \A k \in MtpNorms : k[1] \in S
        BY <1>1, <1>6, ShiftKeys, NormsAreNorms
    <2> QED BY <1>8, <2>1, SameEdits
<1>10. Edits(d2, d3, {MtpHeadLayer})
    <2>1. m = IF FALSE THEN ConvertDeltaNet(d2, MtpHeadLayer, c)
                       ELSE ConvertAttention(d2, MtpHeadLayer, c)
        BY <1>1
    <2>2. Edits(d2, ConvertMoe(m, MtpHeadLayer, c), {MtpHeadLayer})
        BY <2>1, LayerEdits
    <2> QED BY <1>1, <2>2
<1>11. Edits(d, d3, S)
    BY <1>7, <1>9, <1>10 DEF Edits
<1>12. Edits(d, e, S)
    BY <1>2, <1>7, <1>11, OwnerEdits
<1>13. Keeps(d3, e, MtpHeadLayer, RowNames)
    <2>1. Edits(d3, d3, {MtpHead}) /\ MtpHead \in {MtpHead}
        BY DEF Edits
    <2>2. Edits(d3, e, {MtpHead})
        BY <1>2, <2>1, OwnerEdits
    <2>3. MtpHeadLayer \notin {MtpHead}
        BY OwnersDiffer
    <2> QED BY <2>2, <2>3, EditsKeep
<1>14. LayerDone(c, e, MtpHeadLayer, MtpLayer, FALSE)
    BY <1>5, <1>13, LayerKept
<1> QED BY <1>6, <1>12, <1>14

\* Before the MTP head's turn: the layers before l are done, the rest are raw.
Turning(c, d, l) ==
    /\ \A m \in Layers(c) :
        /\ m < l => LayerDone(c, d, Layer(m), Layer(m), Linear(c, m))
        /\ m >= l => LayerRaw(c, d, Layer(m), Layer(m), Linear(c, m))
    /\ LayerRaw(c, d, MtpLayer, MtpLayer, FALSE)

\* What the layers hold after every part of the conversion.
RowsStage(c, d, p, l) ==
    /\ p \in {"strip", "norms", "layers", "mtp"} => Turning(c, d, l)
    /\ p = "mtp" => l \notin Layers(c)
    /\ p = "filter" => c.draft /\ LayerDone(c, d, MtpHeadLayer, MtpLayer, FALSE)
    /\ p = "done" =>
        /\ ~c.draft => \A m \in Layers(c) : LayerDone(c, d, Layer(m), Layer(m), Linear(c, m))
        /\ c.mtp => LayerDone(c, d, MtpHeadLayer, MtpLayer, FALSE)

\* The invariant the grouping of heads follows from.
RowsInv == cfg \in Configs /\ layer \in Nat \ {0} /\ RowsStage(cfg, sd, pc, layer)

\* A layer of the checkpoint has its own rows.
LEMMA CheckpointRaw ==
    ASSUME NEW c \in Configs, NEW o \in DOMAIN OwnerRows(c), NEW linear \in BOOLEAN,
           OwnerRows(c)[o] = LayerRows(c, linear)
    PROVE  LayerRaw(c, Checkpoint(c), o, o, linear)
<1>1. ASSUME NEW n \in Projections(linear)
      PROVE  Holds(Checkpoint(c), o, n, RawRows(o, n, LayerRows(c, linear)[n]))
    <2>1. Projections(linear) \subseteq LayerBefore(linear)
        BY DEF Projections, LayerBefore, DeltaNetBefore, AttentionBefore
    <2>2. DOMAIN LayerRows(c, linear) = LayerBefore(linear)
        BY LayerHasRows
    <2>3. n \in DOMAIN OwnerRows(c)[o]
        BY <2>1, <2>2
    <2>4. PICK k : k = <<o, n>>
        OBVIOUS
    <2>5. k[1] = o /\ k[2] = n
        BY <2>4
    <2>6. k \in DOMAIN Checkpoint(c)
        BY <2>3, <2>4, <2>5, CheckpointKeys, Zenon
    <2>7. Checkpoint(c)[k] = Tensor(k, [i \in 1 .. OwnerRows(c)[k[1]][k[2]] |-> <<k, i - 1>>])
        BY <2>6, CheckpointKeys, Zenon
    <2>8. Checkpoint(c)[k] = Tensor(k, RawRows(o, n, LayerRows(c, linear)[n]))
        BY <2>4, <2>5, <2>7, Zenon DEF RawRows
    <2> QED BY <2>4, <2>6, <2>8, NewRows, Zenon DEF Holds
<1> QED BY <1>1 DEF LayerRaw

\* A step that keeps the layers' rows keeps the backbone's turn.
LEMMA TurningKept ==
    ASSUME NEW c \in Configs, NEW d, NEW e, NEW l, Turning(c, d, l),
           \A m \in Layers(c) : Keeps(d, e, Layer(m), RowNames),
           Keeps(d, e, MtpLayer, RowNames)
    PROVE  Turning(c, e, l)
<1>1. ASSUME NEW m \in Layers(c)
      PROVE  /\ m < l => LayerDone(c, e, Layer(m), Layer(m), Linear(c, m))
             /\ m >= l => LayerRaw(c, e, Layer(m), Layer(m), Linear(c, m))
    <2>1. Linear(c, m) \in BOOLEAN /\ Keeps(d, e, Layer(m), RowNames)
        BY LayersAreNat
    <2> QED BY <2>1, LayerKept DEF Turning
<1>2. LayerRaw(c, e, MtpLayer, MtpLayer, FALSE)
    BY LayerKept DEF Turning
<1> QED BY <1>1, <1>2 DEF Turning

\* An edit of other owners' keys does.
LEMMA EditsTurn ==
    ASSUME NEW c \in Configs, NEW d, NEW e, NEW l, Turning(c, d, l), NEW owners,
           Edits(d, e, owners), MtpLayer \notin owners, \A m \in Layers(c) : Layer(m) \notin owners
    PROVE  Turning(c, e, l)
BY EditsKeep, TurningKept

\* The checkpoint starts it.
LEMMA CheckpointTurn ==
    ASSUME NEW c \in Configs
    PROVE  Turning(c, Checkpoint(c), 1)
<1>1. ASSUME NEW m \in Layers(c)
      PROVE  ~(m < 1) /\ LayerRaw(c, Checkpoint(c), Layer(m), Layer(m), Linear(c, m))
    <2>1. /\ Linear(c, m) \in BOOLEAN /\ Layer(m) \in DOMAIN OwnerRows(c)
          /\ OwnerRows(c)[Layer(m)] = LayerRows(c, Linear(c, m))
        BY LayersAreNat, OwnersHaveRows
    <2>2. ~(m < 1)
        BY ConfigFields DEF Layers
    <2> QED BY <2>1, <2>2, CheckpointRaw
<1>2. LayerRaw(c, Checkpoint(c), MtpLayer, MtpLayer, FALSE)
    BY OwnersHaveRows, CheckpointRaw
<1> QED BY <1>1, <1>2 DEF Turning

\* ConvertLayer moves it on by one layer.
LEMMA LayerRowsTurn ==
    ASSUME NEW c \in Configs, NEW d, NEW l \in Layers(c), Turning(c, d, l),
           IF Linear(c, l) THEN ~DeltaNetRaises(c) ELSE ~AttentionRaises(c),
           NEW e,
           e = ConvertMoe(IF Linear(c, l) THEN ConvertDeltaNet(d, Layer(l), c)
                                          ELSE ConvertAttention(d, Layer(l), c), Layer(l), c)
    PROVE  Turning(c, e, l + 1)
<1>1. PICK o : o = Layer(l)
    OBVIOUS
<1>2. PICK x : x = IF Linear(c, l) THEN ConvertDeltaNet(d, o, c) ELSE ConvertAttention(d, o, c)
    OBVIOUS
<1>3. e = ConvertMoe(x, o, c)
    BY <1>1, <1>2, Zenon
<1>4. l \in Nat /\ Linear(c, l) \in BOOLEAN
    BY LayersAreNat
<1>5. LayerDone(c, e, o, o, Linear(c, l))
    <2>1. LayerRaw(c, d, o, o, Linear(c, l))
        BY <1>1, <1>4 DEF Turning
    <2>2. LayerDone(c, ConvertMoe(x, o, c), o, o, Linear(c, l))
        BY <1>2, <1>4, <2>1, LayerPacks
    <2> QED BY <1>3, <2>2
<1>6. Edits(d, e, {o})
    <2>1. Edits(d, ConvertMoe(x, o, c), {o})
        BY <1>2, LayerEdits
    <2> QED BY <1>3, <2>1
<1>7. ASSUME NEW m \in Layers(c)
      PROVE  /\ m < l + 1 => LayerDone(c, e, Layer(m), Layer(m), Linear(c, m))
             /\ m >= l + 1 => LayerRaw(c, e, Layer(m), Layer(m), Linear(c, m))
    <2>1. m \in Nat /\ Linear(c, m) \in BOOLEAN
        BY LayersAreNat
    <2>2. CASE m = l
        BY <1>1, <1>4, <1>5, <2>1, <2>2
    <2>3. CASE m # l
        <3>1. Layer(m) \notin {o}
            BY <1>1, <1>4, <2>1, <2>3, OwnersDiffer
        <3>2. Keeps(d, e, Layer(m), RowNames)
            BY <1>6, <3>1, EditsKeep
        <3>3. /\ m < l => LayerDone(c, e, Layer(m), Layer(m), Linear(c, m))
              /\ m >= l => LayerRaw(c, e, Layer(m), Layer(m), Linear(c, m))
            BY <2>1, <3>2, LayerKept DEF Turning
        <3>4. (m < l + 1 => m < l) /\ (m >= l + 1 => m >= l)
            BY <1>4, <2>1, <2>3
        <3> QED BY <3>3, <3>4, Zenon
    <2> QED BY <2>2, <2>3
<1>8. LayerRaw(c, e, MtpLayer, MtpLayer, FALSE)
    <2>1. MtpLayer \notin {o}
        BY <1>1, <1>4, OwnersDiffer
    <2>2. Keeps(d, e, MtpLayer, RowNames)
        BY <1>6, <2>1, EditsKeep
    <2> QED BY <2>2, LayerKept DEF Turning
<1> QED BY <1>7, <1>8 DEF Turning

\* Dropping keys of some owners edits those owners only.
LEMMA DropEdits ==
    ASSUME NEW d, NEW K, NEW owners, \A k \in K : k[1] \in owners
    PROVE  Edits(d, Drop(d, K), owners)
<1>1. Edits(d, d, owners)
    BY DEF Edits
<1>2. Same(d, Drop(d, K), K)
    BY DropKeys, Zenon
<1> QED BY <1>1, <1>2, SameEdits

\* The draft's filter keeps the head's layer.
LEMMA DraftKeeps ==
    ASSUME NEW d, NEW e,
           e = Restrict(d, {k \in DOMAIN d :
                 \/ k[1] \in {MtpHead, MtpHeadLayer}
                 \/ k \in {<<Top, "embed_tokens">>, <<Top, "rank_util">>}})
    PROVE  Keeps(d, e, MtpHeadLayer, RowNames)
<1> DEFINE S == {k \in DOMAIN d :
                   \/ k[1] \in {MtpHead, MtpHeadLayer}
                   \/ k \in {<<Top, "embed_tokens">>, <<Top, "rank_util">>}}
<1>1. DOMAIN e = S /\ \A k \in S : e[k] = d[k]
    BY DEF Restrict
<1>2. ASSUME NEW n, NEW rows, Holds(d, MtpHeadLayer, n, rows)
      PROVE  Holds(e, MtpHeadLayer, n, rows)
    <2>1. PICK k : k = <<MtpHeadLayer, n>>
        OBVIOUS
    <2>2. k[1] = MtpHeadLayer /\ k \in DOMAIN d
        BY <1>2, <2>1, KeysOfOwner DEF Holds
    <2>3. k \in S
        BY <2>2
    <2> HIDE DEF S
    <2>4. k \in DOMAIN e /\ e[k] = d[k]
        BY <1>1, <2>3
    <2> QED BY <1>2, <2>1, <2>4, Zenon DEF Holds
<1> QED BY <1>2, Zenon DEF Keeps

\* The checkpoint starts the invariant.
LEMMA RowsInit ==
    ASSUME Init
    PROVE  RowsInv
<1>1. cfg \in Configs /\ sd = Checkpoint(cfg) /\ pc = "strip" /\ layer = 1
    BY DEF Init
<1>2. Turning(cfg, sd, layer)
    BY <1>1, CheckpointTurn
<1>3. RowsStage(cfg, sd, pc, layer)
    BY <1>1, <1>2 DEF RowsStage
<1> QED BY <1>1, <1>3 DEF RowsInv

\* Every part of the conversion keeps it.
LEMMA RowsStep ==
    ASSUME RowsInv, [Next]_vars
    PROVE  RowsInv'
<1> PICK c, d, e, l, m : c = cfg /\ d = sd /\ e = sd' /\ l = layer /\ m = layer'
    OBVIOUS
<1>1. c \in Configs /\ l \in Nat \ {0} /\ RowsStage(c, d, pc, l)
    BY DEF RowsInv
<1>2. ASSUME cfg' = c, m \in Nat \ {0}, RowsStage(c, e, pc', m)
      PROVE  RowsInv'
    BY <1>2 DEF RowsInv
<1>3. /\ pc \in {"strip", "norms", "layers", "mtp"} => Turning(c, d, l)
      /\ pc = "mtp" => l \notin Layers(c)
      /\ pc = "filter" => c.draft /\ LayerDone(c, d, MtpHeadLayer, MtpLayer, FALSE)
    BY <1>1, Zenon DEF RowsStage
<1>4. Layers(c) \subseteq Nat /\ Layers(c) = 1 .. Len(c.types) /\ Len(c.types) \in Nat
    BY <1>1, LayersAreNat, ConfigFields DEF Layers
<1>5. /\ \A q \in Layers(c) : Layer(q) \notin MtpOwners /\ Layer(q) \notin {Top}
                              /\ Layer(q) \notin {Visual} /\ Layer(q) \notin {Mtp, MtpLayer}
      /\ MtpLayer \notin {Top} /\ MtpLayer \notin {Visual}
    BY <1>4, OwnersDiffer DEF MtpOwners
<1>6. ASSUME Turning(c, d, l), l \notin Layers(c)
      PROVE  \A q \in Layers(c) : LayerDone(c, d, Layer(q), Layer(q), Linear(c, q))
    <2> TAKE q \in Layers(c)
    <2>1. q < l
        BY <1>1, <1>4, <1>6
    <2> QED BY <1>6, <2>1 DEF Turning
<1>7. CASE Strip
    <2>1. pc = "strip" /\ pc' = "norms" /\ cfg' = c /\ m = l
        BY <1>7 DEF Strip
    <2>2. e = Drop(d, {k \in DOMAIN d : k[1] = Visual})
        BY <1>7 DEF Strip
    <2>3. Edits(d, e, {Visual})
        BY <2>2, DropEdits
    <2>4. Turning(c, e, l)
        BY <1>1, <1>3, <1>5, <2>1, <2>3, EditsTurn
    <2>5. RowsStage(c, e, pc', m)
        BY <2>1, <2>4 DEF RowsStage
    <2> QED BY <1>1, <1>2, <2>1, <2>5
<1>8. CASE ShiftNorms
    <2>1. pc = "norms" /\ pc' = "layers" /\ cfg' = c /\ m = l
        BY <1>8 DEF ShiftNorms
    <2>2. PICK f, t : f = Shifted(d, NormsOf(c)) /\ e = Put(f, <<Top, "rank_util">>, t)
        BY <1>8, Zenon DEF ShiftNorms
    <2>3. \A o : Keeps(d, f, o, RowNames)
        BY <2>2, NormsAreNorms, ShiftKeeps
    <2>4. Turning(c, f, l)
        BY <1>1, <1>3, <2>1, <2>3, TurningKept
    <2>5. Edits(f, e, {Top})
        <3>1. Edits(f, f, {Top}) /\ Top \in {Top}
            BY DEF Edits
        <3> QED BY <2>2, <3>1, OwnerEdits
    <2>6. Turning(c, e, l)
        BY <1>1, <1>5, <2>4, <2>5, EditsTurn
    <2>7. RowsStage(c, e, pc', m)
        BY <2>1, <2>6 DEF RowsStage
    <2> QED BY <1>1, <1>2, <2>1, <2>7
<1>9. CASE ConvertLayer
    <2>1. /\ pc = "layers" /\ pc' = pc /\ cfg' = c /\ m = l + 1 /\ l \in Layers(c)
          /\ IF Linear(c, l) THEN ~DeltaNetRaises(c) ELSE ~AttentionRaises(c)
        BY <1>9 DEF ConvertLayer
    <2>2. e = ConvertMoe(IF Linear(c, l) THEN ConvertDeltaNet(d, Layer(l), c)
                                         ELSE ConvertAttention(d, Layer(l), c), Layer(l), c)
        BY <1>9, Zenon DEF ConvertLayer
    <2>3. Turning(c, e, m)
        BY <1>1, <1>3, <2>1, <2>2, LayerRowsTurn
    <2>4. RowsStage(c, e, pc', m)
        BY <2>1, <2>3 DEF RowsStage
    <2>5. m \in Nat \ {0}
        BY <1>1, <2>1
    <2> QED BY <1>2, <2>1, <2>4, <2>5
<1>10. CASE ConvertHead
    <2>1. pc = "layers" /\ pc' = "mtp" /\ cfg' = c /\ m = l /\ l \notin Layers(c)
        BY <1>10 DEF ConvertHead
    <2>2. PICK t : e = Put(d, <<Top, "lm_head">>, t)
        BY <1>10, Zenon DEF ConvertHead
    <2>3. Edits(d, e, {Top})
        <3>1. Edits(d, d, {Top}) /\ Top \in {Top}
            BY DEF Edits
        <3> QED BY <2>2, <3>1, OwnerEdits
    <2>4. Turning(c, e, l)
        BY <1>1, <1>3, <1>5, <2>1, <2>3, EditsTurn
    <2>5. RowsStage(c, e, pc', m)
        BY <2>1, <2>4 DEF RowsStage
    <2> QED BY <1>1, <1>2, <2>1, <2>5
<1>11. CASE ConvertMtp
    <2>1. /\ pc = "mtp" /\ c.mtp /\ ~AttentionRaises(c) /\ cfg' = c /\ m = l
          /\ pc' = IF c.draft THEN "filter" ELSE "done"
        BY <1>11 DEF ConvertMtp
    <2>2. e = ConvertedMtp(d, c)
        BY <1>11, Zenon DEF ConvertMtp
    <2>3. Turning(c, d, l) /\ l \notin Layers(c)
        BY <1>3, <2>1
    <2>4. LayerDone(c, e, MtpHeadLayer, MtpLayer, FALSE) /\ Edits(d, e, MtpOwners)
        BY <2>1, <2>2, <2>3, MtpPacks DEF Turning
    <2>5. \A q \in Layers(c) : LayerDone(c, e, Layer(q), Layer(q), Linear(c, q))
        <3> TAKE q \in Layers(c)
        <3>1. Keeps(d, e, Layer(q), RowNames)
            BY <1>5, <2>4, EditsKeep
        <3> QED BY <1>1, <1>6, <2>3, <3>1, LayersAreNat, LayerKept
    <2>6. RowsStage(c, e, pc', m)
        BY <2>1, <2>4, <2>5 DEF RowsStage
    <2> QED BY <1>1, <1>2, <2>1, <2>6
<1>12. CASE DropMtp
    <2>1. pc = "mtp" /\ ~c.mtp /\ pc' = "done" /\ cfg' = c /\ m = l
        BY <1>12 DEF DropMtp
    <2>2. e = Drop(d, {k \in DOMAIN d : k[1] \in {Mtp, MtpLayer}})
        BY <1>12, Zenon DEF DropMtp
    <2>3. Edits(d, e, {Mtp, MtpLayer})
        BY <2>2, DropEdits
    <2>4. \A q \in Layers(c) : LayerDone(c, e, Layer(q), Layer(q), Linear(c, q))
        <3> TAKE q \in Layers(c)
        <3>1. Keeps(d, e, Layer(q), RowNames)
            BY <1>5, <2>3, EditsKeep
        <3> QED BY <1>1, <1>3, <1>6, <2>1, <3>1, LayersAreNat, LayerKept
    <2>5. RowsStage(c, e, pc', m)
        BY <2>1, <2>4 DEF RowsStage
    <2> QED BY <1>1, <1>2, <2>1, <2>5
<1>13. CASE KeepDraft
    <2>1. pc = "filter" /\ pc' = "done" /\ cfg' = c /\ m = l
        BY <1>13 DEF KeepDraft
    <2>2. e = Restrict(d, {k \in DOMAIN d :
                \/ k[1] \in {MtpHead, MtpHeadLayer}
                \/ k \in {<<Top, "embed_tokens">>, <<Top, "rank_util">>}})
        BY <1>13, Zenon DEF KeepDraft
    <2>3. Keeps(d, e, MtpHeadLayer, RowNames)
        BY <2>2, DraftKeeps
    <2>4. LayerDone(c, e, MtpHeadLayer, MtpLayer, FALSE)
        BY <1>3, <2>1, <2>3, LayerKept
    <2>5. RowsStage(c, e, pc', m)
        BY <1>3, <2>1, <2>4 DEF RowsStage
    <2> QED BY <1>1, <1>2, <2>1, <2>5
<1>14. CASE Raise
    <2>1. pc' = "raised" /\ cfg' = c /\ m = l
        BY <1>14 DEF Raise
    <2>2. RowsStage(c, e, pc', m)
        BY <2>1 DEF RowsStage
    <2> QED BY <1>1, <1>2, <2>1, <2>2
<1>15. CASE UNCHANGED vars
    <2>1. pc' = pc /\ cfg' = c /\ m = l /\ e = d
        BY <1>15 DEF vars
    <2> QED BY <1>1, <1>2, <2>1
<1>16. Ended => UNCHANGED vars
    BY DEF Ended
<1> QED BY <1>7, <1>8, <1>9, <1>10, <1>11, <1>12, <1>13, <1>14, <1>15, <1>16 DEF Next

\* It holds of every conversion.
LEMMA RowsInvariant == Spec => []RowsInv
BY RowsInit, RowsStep, PTL DEF Spec

\* A done layer has the tensors the arithmetic of a rank starts from.
LEMMA DoneIsPacked ==
    ASSUME NEW c, NEW d, NEW o, NEW q
    PROVE  /\ DeltaNetDone(c, d, o) => DeltaNetPacked(c, d, o)
           /\ GqaDone(c, d, o, q) => GqaPacked(c, d, o, q)
<1>1. \A n, rows : Holds(d, o, n, rows) => d[<<o, n>>].rows = rows
    BY RowsOf, Zenon DEF Holds
<1>2. DeltaNetDone(c, d, o) => DeltaNetPacked(c, d, o)
    BY <1>1, Zenon DEF DeltaNetDone, DeltaNetPacked
<1>3. GqaDone(c, d, o, q) => GqaPacked(c, d, o, q)
    BY <1>1, Zenon DEF GqaDone, GqaPacked
<1> QED BY <1>2, <1>3

\* DeltaNetHeads, owner by owner and rank by rank.
LEMMA DeltaNetByRank ==
    ASSUME Done /\ ~cfg.draft =>
               \A l \in {m \in Layers(cfg) : Linear(cfg, m)} :
                   \A r \in 0 .. cfg.tp - 1 : DeltaNetRank(Layer(l), r)
    PROVE  DeltaNetHeads
BY Zenon DEF DeltaNetHeads, DeltaNetRank, DeltaNetHead

\* GqaGroups, owner by owner and rank by rank.
LEMMA GroupsByRank ==
    ASSUME Done /\ cfg.attn =>
               \A o \in {k[1] : k \in {m \in DOMAIN sd : m[2] = "gqa_qkv_w"}} :
                   \A r \in 0 .. cfg.tp - 1 :
                       GqaRank(o, IF o = MtpHeadLayer THEN MtpLayer ELSE o, r)
    PROVE  GqaGroups
BY Zenon DEF GqaGroups, GqaRank, GqaHead

\* The parameters named gqa_qkv_w are those of the attention layers.
LEMMA GqaOwners ==
    ASSUME NEW c \in Configs, NEW k \in Declared(c), k[2] = "gqa_qkv_w"
    PROVE  \/ /\ c.mtp
              /\ k[1] = MtpHeadLayer
           \/ /\ ~c.draft
              /\ \E l \in Layers(c) : k[1] = Layer(l) /\ ~Linear(c, l)
<1>1. /\ c.draft \in BOOLEAN /\ c.mtp \in BOOLEAN /\ (c.draft => c.mtp)
    BY ConfigFields
<1>2. "gqa_qkv_w" \notin LayerParams(c, TRUE)
    BY DEF LayerParams, MlpParams, DeltaNetParams
<1>3. ASSUME NEW o, NEW names, k \in Owned(o, names)
      PROVE  k[1] = o /\ "gqa_qkv_w" \in names
    <2>1. PICK n \in names : k = <<o, n>>
        BY <1>3 DEF Owned
    <2> QED BY <2>1
<1>4. /\ "gqa_qkv_w" \notin {"embed_tokens", "rank_util"}
      /\ "gqa_qkv_w" \notin {"embed_tokens", "norm", "lm_head", "rank_util"}
      /\ "gqa_qkv_w" \notin {"embed_norm", "hidden_norm", "eh_proj", "final_norm", "mtp_lm_head"}
    OBVIOUS
<1>5. /\ k \notin Owned(Top, {"embed_tokens", "rank_util"})
      /\ k \notin Owned(Top, {"embed_tokens", "norm", "lm_head", "rank_util"})
    BY ONLY <1>3, <1>4, Zenon
<1>6. k \in MtpParams(c) => k[1] = MtpHeadLayer
    BY ONLY <1>3, <1>4, Zenon DEF MtpParams
<1>7. CASE c.draft
    <2>1. k \in MtpParams(c)
        BY <1>5, <1>7 DEF Declared, DraftParams
    <2> QED BY <1>1, <1>6, <1>7, <2>1
<1>8. CASE ~c.draft
    <2>1. CASE c.mtp /\ k \in MtpParams(c)
        BY <1>6, <2>1
    <2>2. CASE k \in UNION {Owned(Layer(l), LayerParams(c, Linear(c, l))) : l \in Layers(c)}
        <3>1. PICK l \in Layers(c) : k \in Owned(Layer(l), LayerParams(c, Linear(c, l)))
            BY <2>2
        <3>2. k[1] = Layer(l) /\ "gqa_qkv_w" \in LayerParams(c, Linear(c, l))
            BY <1>3, <3>1
        <3>3. ~Linear(c, l)
            BY <1>2, <3>2, LayersAreNat
        <3> QED BY <1>8, <3>2, <3>3
    <2>3. k \in ModelParams(c)
        BY <1>8 DEF Declared
    <2> QED BY <1>5, <2>1, <2>2, <2>3 DEF ModelParams
<1> QED BY <1>1, <1>7, <1>8

\* The layers' rows and the declared parameters give the grouping of heads.
LEMMA HeadsFollow ==
    ASSUME RowsInv, LoadsExactly
    PROVE  HeadsGrouped
<1>1. PICK c \in Configs : c = cfg
    BY DEF RowsInv
<1>2. Done => RowsStage(c, sd, "done", layer)
    BY <1>1 DEF RowsInv, Done
<1>3. ASSUME Done, ~c.draft, NEW l \in Layers(c)
      PROVE  LayerDone(c, sd, Layer(l), Layer(l), Linear(c, l))
    BY <1>2, <1>3 DEF RowsStage
<1>4. ASSUME Done, c.mtp
      PROVE  LayerDone(c, sd, MtpHeadLayer, MtpLayer, FALSE)
    BY <1>2, <1>4 DEF RowsStage
<1>5. ASSUME Done, ~c.draft, NEW l \in Layers(c), Linear(c, l), NEW r \in 0 .. c.tp - 1
      PROVE  DeltaNetRank(Layer(l), r)
    <2>1. ~DeltaNetRaises(c) /\ DeltaNetPacked(c, sd, Layer(l))
        BY <1>3, <1>5, DoneIsPacked DEF LayerDone
    <2> QED BY <1>1, <1>5, <2>1, DeltaNetOnRank
<1>6. DeltaNetHeads
    BY <1>1, <1>5, DeltaNetByRank, Zenon
<1>7. ASSUME c.attn, NEW o, NEW q, LayerDone(c, sd, o, q, FALSE), NEW r \in 0 .. c.tp - 1
      PROVE  GqaRank(o, q, r)
    <2>1. ~AttentionRaises(c) /\ GqaPacked(c, sd, o, q)
        BY <1>7, DoneIsPacked DEF LayerDone
    <2> QED BY <1>1, <1>7, <2>1, AttentionOnRank
<1>8. ASSUME Done, c.attn, NEW k \in DOMAIN sd, k[2] = "gqa_qkv_w", NEW r \in 0 .. c.tp - 1
      PROVE  GqaRank(k[1], IF k[1] = MtpHeadLayer THEN MtpLayer ELSE k[1], r)
    <2>1. k \in Declared(c)
        BY <1>1, <1>8 DEF LoadsExactly
    <2>2. CASE c.mtp /\ k[1] = MtpHeadLayer
        <3>1. LayerDone(c, sd, MtpHeadLayer, MtpLayer, FALSE)
            BY <1>4, <1>8, <2>2
        <3>2. GqaRank(MtpHeadLayer, MtpLayer, r)
            BY <1>7, <1>8, <3>1
        <3> QED BY <2>2, <3>2, Zenon
    <2>3. CASE ~c.draft /\ \E l \in Layers(c) : k[1] = Layer(l) /\ ~Linear(c, l)
        <3>1. PICK l \in Layers(c) : k[1] = Layer(l) /\ ~Linear(c, l)
            BY <2>3
        <3>2. LayerDone(c, sd, Layer(l), Layer(l), FALSE)
            <4>1. LayerDone(c, sd, Layer(l), Layer(l), Linear(c, l))
                BY <1>3, <1>8, <2>3
            <4>2. Linear(c, l) = FALSE
                BY <3>1, LayersAreNat
            <4> QED BY <4>1, <4>2, Zenon
        <3>3. GqaRank(Layer(l), Layer(l), r)
            BY <1>7, <1>8, <3>2
        <3>4. Layer(l) # MtpHeadLayer
            BY LayersAreNat, OwnersDiffer
        <3> QED BY <3>1, <3>3, <3>4, Zenon
    <2> QED BY <1>8, <2>1, <2>2, <2>3, GqaOwners
<1>9. GqaGroups
    BY <1>1, <1>8, GroupsByRank, Zenon
<1> QED BY <1>6, <1>9 DEF HeadsGrouped

\* Whatever configuration is converted, every rank finds its DeltaNet heads and
\* its attention heads grouped as in the whole model.
THEOREM HeadsKept == Spec => []HeadsGrouped
BY RowsInvariant, ConversionLoads, HeadsFollow, PTL
=============================================================================
