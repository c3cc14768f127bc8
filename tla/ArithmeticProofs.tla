--------------------------- MODULE ArithmeticProofs ---------------------------
(***************************************************************************)
(* The theorems about the parts of Arithmetic: the residual, the MoE layer, *)
(* the router, and, with those of LmHeadProofs, the LM head on two cores of *)
(* a rank and on one.                                                       *)
(***************************************************************************)
EXTENDS Arithmetic, FiniteSetTheorems, TLAPS

(***************************************************************************)
(* Division and remainders.                                                 *)
(***************************************************************************)
\* The quotient and the remainder of a by b.
Splits(a, b, q, r) ==
    a \in Nat /\ b \in Nat \ {0} /\ q \in Nat /\ r \in 0 .. b - 1 /\ a = q * b + r

\* Division gives them.
LEMMA DivModIs ==
    ASSUME NEW a \in Nat, NEW b \in Nat \ {0}
    PROVE  Splits(a, b, a \div b, a % b)
BY SMT DEF Splits

\* And they are the only ones.
LEMMA DivModUnique ==
    ASSUME NEW a, NEW b, NEW q, NEW r, Splits(a, b, q, r)
    PROVE  a \div b = q /\ a % b = r
<1> DEFINE d == a \div b
           m == a % b
<1> USE DEF Splits
<1>1. d \in Nat /\ m \in 0 .. b - 1 /\ a = d * b + m
    BY DivModIs
<1>2. (q - d) * b = m - r
    BY <1>1, SMT
<1>3. q - d = 0
    BY <1>1, <1>2, SMT
<1> QED BY <1>1, <1>2, <1>3, SMT

\* The quotient of a number below q times the divisor is below q.
LEMMA DivLess ==
    ASSUME NEW a, NEW b, NEW d, NEW r, Splits(a, b, d, r), NEW q \in Nat, a < q * b
    PROVE  d \in 0 .. q - 1
<1> USE DEF Splits
<1>1. ASSUME d >= q PROVE FALSE
    <2>1. d * b >= q * b
        BY <1>1, SMT
    <2> QED BY <2>1, SMT
<1> QED BY <1>1, SMT

\* A number below q * b from its parts.
LEMMA Packed ==
    ASSUME NEW q \in Nat, NEW b \in Nat \ {0}, NEW d \in 0 .. q - 1, NEW r \in 0 .. b - 1
    PROVE  d * b + r \in 0 .. q * b - 1
<1>1. (d + 1) * b <= q * b
    BY SMT
<1>2. (d + 1) * b = d * b + b
    BY SMT
<1> QED BY <1>1, <1>2, SMT

\* The free index of token t of n, core s and column r of w.
AtCell(f, n, w, t, s, r) ==
    /\ n \in Nat /\ w \in Nat \ {0} /\ t \in 0 .. n - 1 /\ s \in Trunk!Core /\ r \in 0 .. w - 1
    /\ f = t * (2 * w) + s * w + r

\* Its parts.
LEMMA CellOf ==
    ASSUME NEW f, NEW n, NEW w, NEW t, NEW s, NEW r, AtCell(f, n, w, t, s, r)
    PROVE  /\ f \in 0 .. n * (2 * w) - 1
           /\ f \div (2 * w) = t /\ f % (2 * w) = s * w + r
           /\ (f % (2 * w)) \div w = s /\ f % w = r
<1> USE DEF AtCell
<1> DEFINE i == s * w + r
<1>1. i \in 0 .. 2 * w - 1
    BY Packed DEF Trunk!Core
<1>2. f = t * (2 * w) + i /\ 2 * w \in Nat \ {0} /\ t \in Nat /\ s \in Nat
    BY DEF Trunk!Core
<1>3. f \div (2 * w) = t /\ f % (2 * w) = i
    <2>1. Splits(f, 2 * w, t, i)
        BY <1>1, <1>2 DEF Splits
    <2> QED BY <2>1, DivModUnique
<1>4. i \div w = s
    <2>1. Splits(i, w, s, r)
        BY <1>2 DEF Splits
    <2> QED BY <2>1, DivModUnique
<1>5. f = (2 * t + s) * w + r /\ 2 * t + s \in Nat
    BY <1>2
<1>6. f % w = r
    <2>1. Splits(f, w, 2 * t + s, r)
        BY <1>5 DEF Splits
    <2> QED BY <2>1, DivModUnique
<1>7. f \in 0 .. n * (2 * w) - 1
    BY <1>1, <1>2, Packed
<1> QED BY <1>3, <1>4, <1>6, <1>7

\* And every free index is one.
LEMMA CellParts ==
    ASSUME NEW n \in Nat, NEW w \in Nat \ {0}, NEW f \in 0 .. n * (2 * w) - 1
    PROVE  \E t \in 0 .. n - 1, s \in Trunk!Core, r \in 0 .. w - 1 : f = t * (2 * w) + s * w + r
<1>1. f \in Nat /\ 2 * w \in Nat \ {0} /\ f < n * (2 * w)
    BY SMT
<1> PICK t, i : Splits(f, 2 * w, t, i)
    BY <1>1, DivModIs
<1>2. t \in 0 .. n - 1
    BY <1>1, DivLess
<1>3. i \in Nat /\ i < 2 * w
    BY <1>1 DEF Splits
<1> PICK s, r : Splits(i, w, s, r)
    BY <1>3, DivModIs
<1>4. s \in 0 .. 2 - 1
    BY ONLY Splits(i, w, s, r), <1>3, DivLess
<1>5. s \in Trunk!Core /\ r \in 0 .. w - 1
    BY <1>4 DEF Trunk!Core, Splits
<1>6. f = t * (2 * w) + i /\ i = s * w + r
    BY DEF Splits
<1>7. t * (2 * w) \in Nat /\ s * w \in Nat /\ r \in Nat
    BY <1>1, <1>2, <1>5 DEF Trunk!Core
<1>8. f = t * (2 * w) + s * w + r
    BY <1>6, <1>7
<1> QED BY <1>2, <1>5, <1>8

\* The hidden index of core s, partition h0 and column r of w.
LEMMA HiddenIs ==
    ASSUME Trunk!SizeAssumption, NEW w \in Nat \ {0},
           NEW s \in Trunk!Core, NEW h0 \in 0 .. H0 - 1, NEW r \in 0 .. w - 1
    PROVE  LET h == s * (H0 * w) + h0 * w + r
           IN  /\ h \in 0 .. 2 * (H0 * w) - 1
               /\ h \div (H0 * w) = s /\ h % (H0 * w) = h0 * w + r
               /\ (h % (H0 * w)) \div w = h0 /\ (h \div w) % H0 = h0 /\ h % w = r
<1> DEFINE i == h0 * w + r
           h == s * (H0 * w) + h0 * w + r
<1>1. H0 \in Nat \ {0} /\ H0 * w \in Nat \ {0}
    BY DEF Trunk!SizeAssumption
<1>2. i \in 0 .. H0 * w - 1
    BY <1>1, Packed
<1>3. s \in Nat /\ h0 \in Nat /\ s \in 0 .. 2 - 1 /\ 2 \in Nat
    BY <1>1 DEF Trunk!Core
<1>4. h = s * (H0 * w) + i
    BY <1>1, <1>3
<1>5. h \in 0 .. 2 * (H0 * w) - 1
    BY <1>1, <1>2, <1>3, <1>4, Packed
<1>6. h \div (H0 * w) = s /\ h % (H0 * w) = i
    <2>1. Splits(h, H0 * w, s, i)
        BY <1>1, <1>2, <1>3, <1>4 DEF Splits
    <2> QED BY <2>1, DivModUnique
<1>7. i \div w = h0
    <2>1. Splits(i, w, h0, r)
        BY <1>3 DEF Splits
    <2> QED BY <2>1, DivModUnique
<1>8. h = (s * H0 + h0) * w + r /\ s * H0 + h0 \in Nat
    BY <1>1, <1>3
<1>9. h \div w = s * H0 + h0 /\ h % w = r
    <2>1. Splits(h, w, s * H0 + h0, r)
        BY <1>8 DEF Splits
    <2> QED BY <2>1, DivModUnique
<1>10. (s * H0 + h0) % H0 = h0
    <2>1. Splits(s * H0 + h0, H0, s, h0)
        BY <1>1, <1>3 DEF Splits
    <2> QED BY <2>1, DivModUnique
<1> QED BY <1>5, <1>6, <1>7, <1>9, <1>10

\* And every hidden index is one.
LEMMA HiddenParts ==
    ASSUME Trunk!SizeAssumption, NEW w \in Nat \ {0}, NEW h \in 0 .. 2 * (H0 * w) - 1
    PROVE  \E s \in Trunk!Core, h0 \in 0 .. H0 - 1, r \in 0 .. w - 1 : h = s * (H0 * w) + h0 * w + r
<1>1. H0 \in Nat \ {0} /\ H0 * w \in Nat \ {0} /\ h \in Nat /\ h < 2 * (H0 * w)
    BY DEF Trunk!SizeAssumption
<1> PICK s, i : Splits(h, H0 * w, s, i)
    BY <1>1, DivModIs
<1>2. s \in 0 .. 2 - 1
    BY <1>1, DivLess
<1>3. i \in Nat /\ i < H0 * w
    BY <1>1 DEF Splits
<1> PICK h0, r : Splits(i, w, h0, r)
    BY <1>3, DivModIs
<1>4. h0 \in 0 .. H0 - 1
    BY <1>1, <1>3, DivLess
<1>5. s \in Trunk!Core /\ r \in 0 .. w - 1
    BY <1>2 DEF Trunk!Core, Splits
<1>6. h = s * (H0 * w) + i /\ i = h0 * w + r
    BY DEF Splits
<1>7. s * (H0 * w) \in Nat /\ h0 * w \in Nat /\ r \in Nat
    BY <1>1, <1>4, <1>5 DEF Trunk!Core
<1>8. h = s * (H0 * w) + h0 * w + r
    BY <1>6, <1>7
<1> QED BY <1>4, <1>5, <1>8

\* A rank's share of the hidden.
LEMMA RankParts ==
    ASSUME Trunk!SizeAssumption, NEW h \in 0 .. Trunk!H - 1
    PROVE  /\ h \div Trunk!HRank \in 0 .. TpDegree - 1 /\ h % Trunk!HRank \in 0 .. Trunk!HRank - 1
           /\ (h \div Trunk!HRank) * Trunk!HRank + (h % Trunk!HRank) = h
<1>1. Trunk!H \in Nat \ {0} /\ TpDegree \in Nat \ {0} /\ Trunk!H % TpDegree = 0
    BY DEF Trunk!SizeAssumption, Trunk!H, Trunk!H1
<1>2. Splits(Trunk!H, TpDegree, Trunk!HRank, 0)
    BY <1>1, DivModIs DEF Trunk!HRank
<1>3. Trunk!HRank \in Nat \ {0} /\ h < TpDegree * Trunk!HRank /\ h \in Nat
    BY <1>1, <1>2 DEF Splits
<1>4. Splits(h, Trunk!HRank, h \div Trunk!HRank, h % Trunk!HRank)
    BY <1>3, DivModIs
<1>5. h \div Trunk!HRank \in 0 .. TpDegree - 1
    BY <1>1, <1>3, <1>4, DivLess
<1> QED BY <1>4, <1>5 DEF Splits

(***************************************************************************)
(* Layouts.                                                                 *)
(***************************************************************************)

\* Sizes are positive.
LEMMA TrunkSizes ==
    ASSUME Trunk!SizeAssumption
    PROVE  /\ H0 \in Nat \ {0} /\ H2 \in Nat \ {0} /\ Trunk!H1 \in Nat \ {0}
                /\ Trunk!H \in Nat \ {0}
           /\ Trunk!H1 = 2 * H2 /\ Trunk!H = 2 * (H0 * H2) /\ Trunk!H = H0 * Trunk!H1
BY DEF Trunk!SizeAssumption, Trunk!H, Trunk!H1

\* The tile of a token-major array has, of token t, core s, partition h0 and
\* column r, the hidden index s * (H0 * w) + h0 * w + r.
LEMMA NaturalAt ==
    ASSUME Trunk!SizeAssumption, NEW w \in Nat \ {0}, NEW n \in Nat, NEW nat,
           NEW t \in 0 .. n - 1, NEW s \in Trunk!Core, NEW h0 \in 0 .. H0 - 1, NEW r \in 0 .. w - 1
    PROVE  Trunk!NaturalToTp(nat, n, 2 * w)[h0][t * (2 * w) + s * w + r]
               = nat[t][s * (H0 * w) + h0 * w + r]
<1> DEFINE f == t * (2 * w) + s * w + r
           v == (2 * w) \div 2
           line == [g \in 0 .. n * (2 * w) - 1 |->
                      nat[g \div (2 * w)][((g % (2 * w)) \div v) * (H0 * v) + h0 * v + (g % v)]]
<1>1. v = w
    BY SMT
<1>2. /\ f \in 0 .. n * (2 * w) - 1
      /\ f \div (2 * w) = t /\ (f % (2 * w)) \div w = s /\ f % w = r
    <2>1. AtCell(f, n, w, t, s, r)
        BY DEF AtCell
    <2> QED BY <2>1, CellOf
<1>3. Trunk!NaturalToTp(nat, n, 2 * w)[h0] = line
    BY DEF Trunk!NaturalToTp
<1>4. line[f] = nat[f \div (2 * w)][((f % (2 * w)) \div v) * (H0 * v) + h0 * v + (f % v)]
    BY <1>2
<1> HIDE DEF f, v, line
<1>5. line[f] = nat[t][s * (H0 * w) + h0 * w + r]
    BY <1>1, <1>2, <1>4
<1> QED BY <1>3, <1>5 DEF f

\* The gathered slices are the embeddings of the stage's tokens.
LEMMA EmbeddedAt ==
    ASSUME Trunk!SizeAssumption, NEW t \in 0 .. Trunk!T - 1, NEW h \in 0 .. Trunk!H - 1
    PROVE  Trunk!AllGatherH([r \in 0 .. TpDegree - 1 |-> Trunk!GatherRows(r)], Trunk!T)[t][h]
               = Trunk!Embedded(first + t, ids[t + 1], h)
<1>1. /\ h \div Trunk!HRank \in 0 .. TpDegree - 1 /\ h % Trunk!HRank \in 0 .. Trunk!HRank - 1
      /\ (h \div Trunk!HRank) * Trunk!HRank + (h % Trunk!HRank) = h
    BY RankParts
<1> DEFINE q == h \div Trunk!HRank
           k == h % Trunk!HRank
<1>2. Trunk!AllGatherH([r \in 0 .. TpDegree - 1 |-> Trunk!GatherRows(r)], Trunk!T)[t][h]
        = Trunk!GatherRows(q)[t][k]
    BY <1>1 DEF Trunk!AllGatherH
<1>3. Trunk!GatherRows(q)[t][k] = Trunk!Embedded(first + t, ids[t + 1], q * Trunk!HRank + k)
    BY <1>1 DEF Trunk!GatherRows
<1> QED BY <1>1, <1>2, <1>3

\* What core s contracts of both halves is every row of eh_proj once.
LEMMA ContractIs ==
    ASSUME Trunk!SizeAssumption, NEW n \in Nat, NEW nat, NEW t \in 0 .. n - 1
    PROVE  Trunk!Contract(Trunk!NaturalToTp(nat, n, 2 * Trunk!H1), t)
             = {<<j, nat[t][j]>> : j \in 0 .. 2 * Trunk!H - 1}
<1> USE TrunkSizes
<1> DEFINE grid == Trunk!NaturalToTp(nat, n, 2 * Trunk!H1)
           rows == {<<j, nat[t][j]>> : j \in 0 .. 2 * Trunk!H - 1}
<1>1. Trunk!H1 \in Nat \ {0} /\ 2 * Trunk!H = 2 * (H0 * Trunk!H1)
    OBVIOUS
<1>2. \A s \in Trunk!Core, h0 \in 0 .. H0 - 1, r \in 0 .. Trunk!H1 - 1 :
        grid[h0][t * (2 * Trunk!H1) + s * Trunk!H1 + r]
          = nat[t][s * (H0 * Trunk!H1) + h0 * Trunk!H1 + r]
    BY <1>1, NaturalAt
<1>3. \A s \in Trunk!Core, h0 \in 0 .. H0 - 1, r \in 0 .. Trunk!H1 - 1 :
        s * (H0 * Trunk!H1) + h0 * Trunk!H1 + r \in 0 .. 2 * Trunk!H - 1
    BY <1>1, HiddenIs
<1>4. \A j \in 0 .. 2 * Trunk!H - 1 : \E s \in Trunk!Core, h0 \in 0 .. H0 - 1,
        r \in 0 .. Trunk!H1 - 1 :
        j = s * (H0 * Trunk!H1) + h0 * Trunk!H1 + r
    BY <1>1, HiddenParts
<1>5. 2 * H2 = Trunk!H1 /\ t * 2 * (2 * H2) = t * (2 * Trunk!H1)
    OBVIOUS
<1> HIDE DEF grid
<1>6. Trunk!Contract(grid, t) =
        {<<s * (H0 * Trunk!H1) + h0 * Trunk!H1 + r,
          grid[h0][t * (2 * Trunk!H1) + s * Trunk!H1 + r]>> :
            s \in Trunk!Core, h0 \in 0 .. H0 - 1, r \in 0 .. Trunk!H1 - 1}
    BY ONLY <1>5 DEF Trunk!Contract
<1>7. ASSUME NEW x \in Trunk!Contract(grid, t) PROVE x \in rows
    <2>1. PICK s \in Trunk!Core, h0 \in 0 .. H0 - 1, r \in 0 .. Trunk!H1 - 1 :
            x = <<s * (H0 * Trunk!H1) + h0 * Trunk!H1 + r,
              grid[h0][t * (2 * Trunk!H1) + s * Trunk!H1 + r]>>
        BY ONLY <1>6, <1>7
    <2>2. PICK j \in 0 .. 2 * Trunk!H - 1 : j = s * (H0 * Trunk!H1) + h0 * Trunk!H1 + r
        BY ONLY <1>3
    <2>3. grid[h0][t * (2 * Trunk!H1) + s * Trunk!H1 + r] = nat[t][j]
        BY ONLY <1>2, <2>2
    <2>4. x = <<j, nat[t][j]>>
        BY ONLY <2>1, <2>2, <2>3
    <2> QED BY ONLY <2>4
<1>8. ASSUME NEW x \in rows PROVE x \in Trunk!Contract(grid, t)
    <2>1. PICK j \in 0 .. 2 * Trunk!H - 1 : x = <<j, nat[t][j]>>
        BY ONLY <1>8
    <2>2. PICK s \in Trunk!Core, h0 \in 0 .. H0 - 1, r \in 0 .. Trunk!H1 - 1 :
            j = s * (H0 * Trunk!H1) + h0 * Trunk!H1 + r
        BY ONLY <1>4
    <2>3. grid[h0][t * (2 * Trunk!H1) + s * Trunk!H1 + r] = nat[t][j]
        BY ONLY <1>2, <2>2
    <2>4. x = <<s * (H0 * Trunk!H1) + h0 * Trunk!H1 + r,
            grid[h0][t * (2 * Trunk!H1) + s * Trunk!H1 + r]>>
        BY ONLY <2>1, <2>2, <2>3
    <2> QED BY ONLY <1>6, <2>4
<1> QED BY <1>7, <1>8 DEF grid

(***************************************************************************)
(* What has been added.                                                     *)
(***************************************************************************)

\* A list with its first n entries, and with one more.
LEMMA OneMore ==
    ASSUME NEW m \in Nat, NEW list, list = [i \in 1 .. m |-> list[i]], NEW n \in 0 .. m - 1
    PROVE  Append(SubSeq(list, 1, n), list[n + 1]) = SubSeq(list, 1, n + 1)
<1> DEFINE X == {list[i] : i \in 1 .. m}
<1>1. list \in Seq(X) /\ Len(list) = m
    OBVIOUS
<1> QED BY <1>1

\* And with all of them.
LEMMA AllOfThem ==
    ASSUME NEW m \in Nat, NEW list, list = [i \in 1 .. m |-> list[i]]
    PROVE  SubSeq(list, 1, m) = list
<1> DEFINE X == {list[i] : i \in 1 .. m}
<1>1. list \in Seq(X) /\ Len(list) = m
    OBVIOUS
<1> QED BY <1>1

\* All additions of the layers, as a list.
LEMMA AddsIs ==
    ASSUME NEW n \in Nat, NEW p, NEW h
    PROVE  /\ Trunk!Adds(n, p, h) = [i \in 1 .. 2 * n |-> Trunk!Adds(n, p, h)[i]] /\ 2 * n \in Nat
           /\ SubSeq(Trunk!Adds(n, p, h), 1, 2 * n) = Trunk!Adds(n, p, h)
           /\ SubSeq(Trunk!Adds(n, p, h), 1, 0) = <<>>
<1>1. Trunk!Adds(n, p, h) = [i \in 1 .. 2 * n |-> Trunk!Adds(n, p, h)[i]] /\ 2 * n \in Nat
    BY DEF Trunk!Adds
<1>2. SubSeq(Trunk!Adds(n, p, h), 1, 2 * n) = Trunk!Adds(n, p, h)
    BY <1>1, AllOfThem
<1>3. SubSeq(Trunk!Adds(n, p, h), 1, 0) = <<>>
    BY DEF Trunk!Adds
<1> QED BY <1>1, <1>2, <1>3

\* The next one.
LEMMA AddsNext ==
    ASSUME NEW n \in Nat, NEW p, NEW h, NEW l \in 0 .. n - 1
    PROVE  /\ Append(SubSeq(Trunk!Adds(n, p, h), 1, 2 * l), <<"attn", l + 1, p, h>>)
                = SubSeq(Trunk!Adds(n, p, h), 1, 2 * l + 1)
           /\ Append(SubSeq(Trunk!Adds(n, p, h), 1, 2 * l + 1), <<"moe", l + 1, p, h>>)
                = SubSeq(Trunk!Adds(n, p, h), 1, 2 * (l + 1))
<1> DEFINE list == Trunk!Adds(n, p, h)
<1>1. list[2 * l + 1] = <<"attn", l + 1, p, h>>
    <2>1. 2 * l + 1 \in 1 .. 2 * n /\ (2 * l + 1) % 2 = 1 /\ (2 * l + 1 + 1) \div 2 = l + 1
        OBVIOUS
    <2> QED BY <2>1 DEF Trunk!Adds
<1>2. list[2 * l + 2] = <<"moe", l + 1, p, h>>
    <2>1. 2 * l + 2 \in 1 .. 2 * n /\ (2 * l + 2) % 2 # 1 /\ (2 * l + 2 + 1) \div 2 = l + 1
        OBVIOUS
    <2> QED BY <2>1 DEF Trunk!Adds
<1>3. list = [i \in 1 .. 2 * n |-> list[i]] /\ 2 * n \in Nat
    BY AddsIs
<1>4. 2 * l \in 0 .. 2 * n - 1 /\ 2 * l + 1 \in 0 .. 2 * n - 1
    OBVIOUS
<1> HIDE DEF list
<1>5. Append(SubSeq(list, 1, 2 * l), list[2 * l + 1]) = SubSeq(list, 1, 2 * l + 1)
    BY <1>3, <1>4, OneMore
<1>6. Append(SubSeq(list, 1, 2 * l + 1), list[2 * l + 2]) = SubSeq(list, 1, 2 * l + 2)
    <2>1. 2 * l + 1 + 1 = 2 * l + 2
        OBVIOUS
    <2> QED BY <1>3, <1>4, <2>1, OneMore
<1>7. 2 * l + 2 = 2 * (l + 1)
    OBVIOUS
<1> QED BY <1>1, <1>2, <1>5, <1>6, <1>7 DEF list

(***************************************************************************)
(* The invariant.                                                           *)
(***************************************************************************)

\* How far the round is: its stages, the tokens of each, the layers.
TrunkProgress ==
    /\ way \in {"one", "three"} /\ stage \in {"draft", "verify", "replay"}
    /\ step \in {"seed", "attn", "gather_attn", "moe", "gather_moe", "end"}
    /\ ids \in Seq(TrunkVocab) /\ Trunk!T \in {1, 2} /\ first \in {1, 2}
    /\ cand \in TrunkVocab \cup {Junk} /\ DOMAIN prev \subseteq 0 .. 1
    /\ stage = "draft" => Trunk!T = 1 /\ first = 1 /\ hbm = Junk
    /\ stage = "verify" => Trunk!T = 2 /\ first = 1 /\ hbm = Junk /\ cand = ids[2]
    /\ stage = "replay" => IF way = "one" THEN Trunk!T = 1 ELSE Trunk!T = 2 /\ first = 1
    /\ layer \in 0 .. Layers
    /\ step # "end" => layer < Layers
    /\ step = "seed" => layer = 0
    /\ stage = "verify" /\ step = "end" => layer = Layers

\* The hidden the draft is conditioned on and the one the verify pass stored.
TrunkConditioned ==
    /\ stage # "verify" =>
        \A t \in 0 .. Trunk!T - 1,
          h \in 0 .. Trunk!H - 1 : prev[t][h] = Trunk!HiddenRef(first + t - 1, h)
    /\ stage # "replay" => \A h \in 0 .. Trunk!H - 1 : prev[0][h] = Trunk!HiddenRef(0, h)
    /\ stage = "replay" =>
        \A t \in 0 .. 1, h \in 0 .. Trunk!H - 1 : hbm.hidden[t][h] = Trunk!HiddenRef(t + 1, h)

\* A tile that holds at every cell what it should.
TrunkTile(x) ==
    \A t \in 0 .. Trunk!T - 1, h0 \in 0 .. H0 - 1, s \in Trunk!Core, h2 \in 0 .. H2 - 1 :
        x[h0][t * Trunk!H1 + s * H2 + h2]
          = Trunk!ResidualRef(first + t, s * (H0 * H2) + h0 * H2 + h2)

TrunkSeeded == IF step = "seed" THEN residual = Trunk!NoTile
  ELSE \A c \in Trunk!Core : TrunkTile(residual[c])

\* The partial results that wait to be gathered.
TrunkAttnPart ==
    [c \in Trunk!Core |-> [h0 \in 0 .. H0 - 1 |-> [f \in 0 .. H2 * Trunk!T - 1 |->
        <<"attn", layer + 1, first + (f % Trunk!T), c * (H0 * H2) + h0 * H2 + f \div Trunk!T>>]]]
TrunkMoePart ==
    [c \in Trunk!Core |-> [h0 \in 0 .. H0 - 1 |-> [f \in 0 .. Trunk!T * Trunk!H1 - 1 |->
        IF f >= Trunk!BlockOf(c)[1] /\ f < Trunk!BlockOf(c)[1] + Trunk!BlockOf(c)[2]
        THEN <<"moe", layer + 1, first + f \div Trunk!H1, Trunk!HiddenOf(h0, f)>> ELSE <<>>]]]
TrunkWaiting ==
    /\ step = "gather_attn" => part = TrunkAttnPart
    /\ step = "gather_moe" => part = TrunkMoePart

TrunkInv == TrunkProgress /\ TrunkConditioned /\ TrunkSeeded /\ TrunkWaiting

\* It says what the properties say.
LEMMA TrunkInvImplies ==
    ASSUME TrunkInv
    PROVE  Trunk!TypeOK /\ Trunk!ResidualIsReference /\ Trunk!StoredIsNatural
<1> USE DEF TrunkInv
<1>1. Trunk!TypeOK
    BY DEF Trunk!TypeOK, TrunkProgress, Trunk!T
<1>2. Trunk!ResidualIsReference
    BY DEF Trunk!ResidualIsReference, TrunkSeeded, TrunkTile, Trunk!NoTile
<1>3. Trunk!StoredIsNatural
    BY DEF Trunk!StoredIsNatural, TrunkConditioned, TrunkProgress
<1> QED BY <1>1, <1>2, <1>3

\* A round starts in it.
LEMMA TrunkInit == ASSUME Trunk!SizeAssumption, Trunk!Init PROVE TrunkInv
<1> USE DEF Trunk!Init
<1>1. TrunkProgress
    BY DEF TrunkProgress, Trunk!SizeAssumption, Trunk!T
<1>2. TrunkConditioned
    <2>1. Trunk!T = 1 /\ first = 1 /\ stage = "draft"
        BY DEF Trunk!T
    <2>2. \A h \in 0 .. Trunk!H - 1 : prev[0][h] = Trunk!HiddenRef(0, h)
        BY DEF Trunk!HiddenRef
    <2>3. \A t \in 0 .. Trunk!T - 1 : t = 0 /\ first + t - 1 = 0
        BY <2>1
    <2> QED BY <2>1, <2>2, <2>3 DEF TrunkConditioned
<1>3. TrunkSeeded /\ TrunkWaiting
    BY DEF TrunkSeeded, TrunkWaiting
<1> QED BY <1>1, <1>2, <1>3 DEF TrunkInv

\* The token at a position of the stage.
LEMMA IdIs == ASSUME TrunkProgress, NEW t \in 0 .. Trunk!T - 1
  PROVE Trunk!IdAt(first + t) = ids[t + 1]
<1>1. Trunk!T \in {1, 2} /\ first \in {1, 2}
    BY DEF TrunkProgress
<1>2. CASE stage = "verify" \/ way = "three"
    <2>1. first + t - first + 1 = t + 1
        BY <1>1
    <2> QED BY <1>1, <1>2, <2>1 DEF Trunk!IdAt
<1>3. CASE ~(stage = "verify" \/ way = "three")
    <2>1. Trunk!T = 1
        BY <1>3 DEF TrunkProgress
    <2>2. t = 0
        BY <2>1
    <2> QED BY <1>3, <2>2 DEF Trunk!IdAt
<1> QED BY <1>2, <1>3

(***************************************************************************)
(* The seeds.                                                               *)
(***************************************************************************)

\* What the front end concatenates for a token, by rows of eh_proj.
LEMMA ConcatIs ==
    ASSUME Trunk!SizeAssumption, TrunkProgress, TrunkConditioned, stage # "verify",
             NEW t \in 0 .. Trunk!T - 1,
           NEW nat,
             \A h \in 0 .. Trunk!H - 1 : nat[t][h] = Trunk!Embedded(first + t, ids[t + 1], h),
           NEW h
    PROVE  Trunk!Elem(first + t, <<"eh", h,
             {<<j, Trunk!Concat(nat)[t][j]>> : j \in 0 .. 2 * Trunk!H - 1}>>, <<>>)
               = Trunk!Elem(first + t, Trunk!SeedRef(first + t, h), <<>>)
<1> DEFINE p == first + t
           rows == {<<j, Trunk!Concat(nat)[t][j]>> : j \in 0 .. 2 * Trunk!H - 1}
           lower == {<<j, <<"embed_norm",
             Trunk!Embedded(p, Trunk!IdAt(p), j)>>>> : j \in 0 .. Trunk!H - 1}
           upper == {<<Trunk!H + j, <<"hidden_norm",
             Trunk!HiddenRef(p - 1, j)>>>> : j \in 0 .. Trunk!H - 1}
<1>1. Trunk!H \in Nat \ {0}
    BY TrunkSizes
<1>2. Trunk!IdAt(p) = ids[t + 1]
    BY IdIs
<1>3. \A j \in 0 .. Trunk!H - 1 : Trunk!Concat(nat)[t][j] = <<"embed_norm",
        Trunk!Embedded(p, Trunk!IdAt(p), j)>>
    BY <1>1, <1>2 DEF Trunk!Concat
<1>4. \A j \in 0 .. Trunk!H - 1 : Trunk!Concat(nat)[t][Trunk!H + j] = <<"hidden_norm",
        Trunk!HiddenRef(p - 1, j)>>
    <2> SUFFICES ASSUME NEW j \in 0 .. Trunk!H - 1
                 PROVE  Trunk!Concat(nat)[t][Trunk!H + j] = <<"hidden_norm",
                          Trunk!HiddenRef(p - 1, j)>>
        OBVIOUS
    <2>1. PICK i \in 0 .. 2 * Trunk!H - 1 : i = Trunk!H + j /\ ~(i < Trunk!H) /\ i - Trunk!H = j
        BY <1>1
    <2>2. Trunk!Concat(nat)[t][i] = <<"hidden_norm", prev[t][i - Trunk!H]>>
        BY <2>1 DEF Trunk!Concat
    <2>3. prev[t][j] = Trunk!HiddenRef(first + t - 1, j)
        BY Zenon DEF TrunkConditioned
    <2>4. first + t - 1 = p - 1
        BY DEF TrunkProgress
    <2> HIDE DEF p
    <2> QED BY ONLY <2>1, <2>2, <2>3, <2>4
<1>5. \A j \in 0 .. 2 * Trunk!H - 1 : j \in 0 .. Trunk!H - 1
        \/ (j - Trunk!H \in 0 .. Trunk!H - 1 /\ j = Trunk!H + (j - Trunk!H))
    BY <1>1
<1>6. \A j \in 0 .. Trunk!H - 1 : j \in 0 .. 2 * Trunk!H - 1 /\ Trunk!H + j \in 0 .. 2 * Trunk!H - 1
    BY <1>1
<1> HIDE DEF p
<1>7. ASSUME NEW x \in rows PROVE x \in lower \cup upper
    <2>1. PICK j \in 0 .. 2 * Trunk!H - 1 : x = <<j, Trunk!Concat(nat)[t][j]>>
        BY ONLY <1>7
    <2>2. CASE j \in 0 .. Trunk!H - 1
        BY ONLY <1>3, <2>1, <2>2
    <2>3. CASE j - Trunk!H \in 0 .. Trunk!H - 1 /\ j = Trunk!H + (j - Trunk!H)
        <3>1. PICK i \in 0 .. Trunk!H - 1 : j = Trunk!H + i
            BY ONLY <2>3
        <3>2. x = <<Trunk!H + i, <<"hidden_norm", Trunk!HiddenRef(p - 1, i)>>>>
            BY ONLY <1>4, <2>1, <3>1
        <3> QED BY ONLY <3>2
    <2> QED BY ONLY <1>5, <2>2, <2>3
<1>8. ASSUME NEW x \in lower \cup upper PROVE x \in rows
    <2>1. CASE x \in lower
        BY ONLY <1>3, <1>6, <2>1
    <2>2. CASE x \in upper
        <3>1. PICK j \in 0 .. Trunk!H - 1 : x = <<Trunk!H + j, <<"hidden_norm",
                Trunk!HiddenRef(p - 1, j)>>>>
            BY ONLY <2>2
        <3>2. PICK i \in 0 .. 2 * Trunk!H - 1 : i = Trunk!H + j
            BY ONLY <1>6
        <3>3. x = <<i, Trunk!Concat(nat)[t][i]>>
            BY ONLY <1>4, <3>1, <3>2
        <3> QED BY ONLY <3>3
    <2> QED BY ONLY <1>8, <2>1, <2>2
<1>9. rows = lower \cup upper
    BY <1>7, <1>8
<1>10. Trunk!SeedRef(p, h) = <<"eh", h, lower \cup upper>>
    BY DEF Trunk!SeedRef
<1> HIDE DEF rows, lower, upper
<1>11. Trunk!Elem(p, <<"eh", h, rows>>, <<>>) = Trunk!Elem(p, Trunk!SeedRef(p, h), <<>>)
    BY <1>9, <1>10
<1> QED BY <1>11 DEF rows, p

\* The draft's front end seeds the residual.
LEMMA EhProjSeeds ==
    ASSUME Trunk!SizeAssumption, TrunkProgress, TrunkConditioned, stage # "verify",
           NEW t \in 0 .. Trunk!T - 1, NEW h0 \in 0 .. H0 - 1, NEW s \in Trunk!Core,
             NEW h2 \in 0 .. H2 - 1
    PROVE  Trunk!EhProjCompose[h0][t * Trunk!H1 + s * H2 + h2]
               = Trunk!Elem(first + t, Trunk!SeedRef(first + t, s * (H0 * H2) + h0 * H2 + h2), <<>>)
<1> USE TrunkSizes
<1> DEFINE nat == Trunk!AllGatherH([r \in 0 .. TpDegree - 1 |-> Trunk!GatherRows(r)], Trunk!T)
           concat == Trunk!NaturalToTp(Trunk!Concat(nat), Trunk!T, 2 * Trunk!H1)
           met == [u \in 0 .. Trunk!T - 1 |-> Trunk!Contract(concat, u)]
           slice == [r \in 0 .. TpDegree - 1 |->
                     [u \in 0 .. Trunk!T - 1 |-> [k \in 0 .. Trunk!HRank - 1 |->
                        Trunk!Elem(first + u, <<"eh", r * Trunk!HRank + k, met[u]>>, <<>>)]]]
           h == s * (H0 * H2) + h0 * H2 + h2
<1>1. Trunk!T \in Nat /\ Trunk!H1 = 2 * H2 /\ H2 \in Nat \ {0} /\ Trunk!H = 2 * (H0 * H2)
    BY DEF TrunkProgress
<1>2. h \in 0 .. Trunk!H - 1
    BY <1>1, HiddenIs
<1>3. Trunk!EhProjCompose = Trunk!NaturalToTp(Trunk!AllGatherH(slice, Trunk!T), Trunk!T, Trunk!H1)
    BY DEF Trunk!EhProjCompose
<1>4. Trunk!EhProjCompose[h0][t * Trunk!H1 + s * H2 + h2] = Trunk!AllGatherH(slice, Trunk!T)[t][h]
    BY ONLY <1>1, <1>3, NaturalAt, Trunk!SizeAssumption, t \in 0 .. Trunk!T - 1,
        h0 \in 0 .. H0 - 1, s \in Trunk!Core, h2 \in 0 .. H2 - 1
<1>5. Trunk!AllGatherH(slice, Trunk!T)[t][h] = Trunk!Elem(first + t, <<"eh", h, met[t]>>, <<>>)
    <2>1. /\ h \div Trunk!HRank \in 0 .. TpDegree - 1 /\ h % Trunk!HRank \in 0 .. Trunk!HRank - 1
          /\ (h \div Trunk!HRank) * Trunk!HRank + (h % Trunk!HRank) = h
        BY <1>2, RankParts
    <2> HIDE DEF h, met
    <2> DEFINE q == h \div Trunk!HRank
               k == h % Trunk!HRank
    <2>2. Trunk!AllGatherH(slice, Trunk!T)[t][h] = slice[q][t][k]
        BY <1>2 DEF Trunk!AllGatherH
    <2>3. slice[q][t][k] = Trunk!Elem(first + t, <<"eh", q * Trunk!HRank + k, met[t]>>, <<>>)
        BY <2>1
    <2> QED BY <2>1, <2>2, <2>3
<1>6. met[t] = {<<j, Trunk!Concat(nat)[t][j]>> : j \in 0 .. 2 * Trunk!H - 1}
    <2>1. met[t] = Trunk!Contract(concat, t)
        OBVIOUS
    <2> HIDE DEF nat, met
    <2>2. Trunk!Contract(concat, t) = {<<j, Trunk!Concat(nat)[t][j]>> : j \in 0 .. 2 * Trunk!H - 1}
        BY <1>1, ContractIs
    <2> QED BY <2>1, <2>2
<1>7. \A g \in 0 .. Trunk!H - 1 : nat[t][g] = Trunk!Embedded(first + t, ids[t + 1], g)
    BY EmbeddedAt
<1> HIDE DEF nat, met, h
<1>8. Trunk!Elem(first + t, <<"eh", h, met[t]>>, <<>>)
        = Trunk!Elem(first + t, Trunk!SeedRef(first + t, h), <<>>)
    BY <1>6, <1>7, ConcatIs
<1> QED BY <1>4, <1>5, <1>8 DEF h

\* The verify block's embedding seeds it, loaded from memory or not.
LEMMA EmbeddingSeeds ==
    ASSUME Trunk!SizeAssumption, TrunkProgress, stage = "verify",
           NEW t \in 0 .. Trunk!T - 1, NEW h0 \in 0 .. H0 - 1, NEW s \in Trunk!Core,
             NEW h2 \in 0 .. H2 - 1
    PROVE  Trunk!NaturalToTp(Trunk!AllGatherH([r \in 0 .. TpDegree - 1 |-> Trunk!GatherRows(r)],
             Trunk!T), Trunk!T, Trunk!H1)
                    [h0][t * Trunk!H1 + s * H2 + h2]
               = Trunk!Elem(first + t, Trunk!SeedRef(first + t, s * (H0 * H2) + h0 * H2 + h2), <<>>)
<1> USE TrunkSizes
<1> DEFINE nat == Trunk!AllGatherH([r \in 0 .. TpDegree - 1 |-> Trunk!GatherRows(r)], Trunk!T)
           h == s * (H0 * H2) + h0 * H2 + h2
<1>1. Trunk!T \in Nat /\ Trunk!H1 = 2 * H2 /\ H2 \in Nat \ {0} /\ Trunk!H = 2 * (H0 * H2)
    BY DEF TrunkProgress
<1>2. h \in 0 .. Trunk!H - 1
    BY <1>1, HiddenIs
<1>3. nat[t][h] = Trunk!Embedded(first + t, ids[t + 1], h)
    BY <1>2, EmbeddedAt
<1> HIDE DEF nat
<1>4. Trunk!NaturalToTp(nat, Trunk!T, Trunk!H1)[h0][t * Trunk!H1 + s * H2 + h2] = nat[t][h]
    BY ONLY <1>1, NaturalAt, Trunk!SizeAssumption, t \in 0 .. Trunk!T - 1, h0 \in 0 .. H0 - 1,
        s \in Trunk!Core, h2 \in 0 .. H2 - 1
<1>5. Trunk!Embedded(first + t, ids[t + 1], h)
        = Trunk!Elem(first + t, Trunk!SeedRef(first + t, h), <<>>)
    BY IdIs DEF Trunk!Embedded, Trunk!SeedRef
<1> QED BY <1>3, <1>4, <1>5 DEF nat

\* The residual's seed, on both cores alike.
LEMMA TrunkSeedStep == ASSUME Trunk!SizeAssumption, TrunkInv, Trunk!Seed PROVE TrunkInv'
<1> USE DEF Trunk!Seed
<1>1. TrunkProgress /\ TrunkConditioned /\ step = "seed" /\ layer = 0
    BY DEF TrunkInv, TrunkProgress
<1>2. TrunkProgress'
    BY <1>1 DEF TrunkProgress, Trunk!T
<1>3. TrunkConditioned'
    BY <1>1 DEF TrunkConditioned, Trunk!HiddenRef, Trunk!T
<1>4. \A t \in 0 .. Trunk!T - 1, h0 \in 0 .. H0 - 1, s \in Trunk!Core, h2 \in 0 .. H2 - 1,
        c \in Trunk!Core :
        residual'[c][h0][t * Trunk!H1 + s * H2 + h2]
            = Trunk!Elem(first + t, Trunk!SeedRef(first + t, s * (H0 * H2) + h0 * H2 + h2), <<>>)
    <2> SUFFICES ASSUME NEW t \in 0 .. Trunk!T - 1, NEW h0 \in 0 .. H0 - 1, NEW s \in Trunk!Core,
                        NEW h2 \in 0 .. H2 - 1, NEW c \in Trunk!Core
                 PROVE  residual'[c][h0][t * Trunk!H1 + s * H2 + h2]
            = Trunk!Elem(first + t, Trunk!SeedRef(first + t, s * (H0 * H2) + h0 * H2 + h2), <<>>)
        OBVIOUS
    <2>1. CASE stage # "verify"
        <3>1. residual'[c] = Trunk!EhProjCompose
            BY <2>1
        <3> QED BY <1>1, <2>1, <3>1, EhProjSeeds
    <2>2. CASE stage = "verify"
        <3>1. residual'[c]
                = Trunk!NaturalToTp(
                    Trunk!AllGatherH([r \in 0 .. TpDegree - 1 |-> Trunk!GatherRows(r)], Trunk!T),
                    Trunk!T, Trunk!H1)
            BY <2>2 DEF Trunk!EmbedCompose, Trunk!LoadResidual
        <3> QED BY <1>1, <2>2, <3>1, EmbeddingSeeds
    <2> QED BY <2>1, <2>2
<1>5. Trunk!Sums' = 0 /\ Trunk!T' = Trunk!T
    BY <1>1 DEF Trunk!Sums, Trunk!T
<1>6. \A p, h : Trunk!SeedRef(p, h)' = Trunk!SeedRef(p, h)
    BY DEF Trunk!SeedRef, Trunk!IdAt, Trunk!HiddenRef
<1>7. \A p, h : Trunk!ResidualRef(p, h)' = Trunk!Elem(p, Trunk!SeedRef(p, h), <<>>)
    <2>1. Layers \in Nat
        BY DEF Trunk!SizeAssumption
    <2>2. \A p, h : SubSeq(Trunk!Adds(Layers, p, h), 1, 0) = <<>>
        BY <2>1, AddsIs
    <2> QED BY <1>5, <1>6, <2>2 DEF Trunk!ResidualRef
<1>8. TrunkSeeded'
    BY <1>4, <1>5, <1>7 DEF TrunkSeeded, TrunkTile
<1>9. TrunkWaiting'
    BY DEF TrunkWaiting
<1> QED BY <1>2, <1>3, <1>8, <1>9 DEF TrunkInv

(***************************************************************************)
(* A layer.                                                                 *)
(***************************************************************************)

\* Cells and their hidden indices.
LEMMA TrunkCells ==
    ASSUME Trunk!SizeAssumption, TrunkProgress,
           NEW t \in 0 .. Trunk!T - 1, NEW h0 \in 0 .. H0 - 1, NEW s \in Trunk!Core,
             NEW h2 \in 0 .. H2 - 1,
           NEW f, f = t * Trunk!H1 + s * H2 + h2
    PROVE  /\ f \in 0 .. Trunk!T * Trunk!H1 - 1 /\ f \div Trunk!H1 = t /\ f % Trunk!H1 = s * H2 + h2
           /\ Trunk!HiddenOf(h0, f) = s * (H0 * H2) + h0 * H2 + h2
<1>1. Trunk!T \in Nat /\ Trunk!H1 = 2 * H2 /\ H2 \in Nat \ {0}
    BY TrunkSizes DEF TrunkProgress
<1>2. /\ f \in 0 .. Trunk!T * Trunk!H1 - 1 /\ f \div Trunk!H1 = t /\ f % Trunk!H1 = s * H2 + h2
      /\ (f % Trunk!H1) \div H2 = s /\ f % H2 = h2
    <2>1. AtCell(f, Trunk!T, H2, t, s, h2)
        BY <1>1 DEF AtCell
    <2>2. /\ f \in 0 .. Trunk!T * (2 * H2) - 1 /\ f \div (2 * H2) = t /\ f % (2 * H2) = s * H2 + h2
          /\ (f % (2 * H2)) \div H2 = s /\ f % H2 = h2
        BY <2>1, CellOf
    <2> QED BY ONLY <1>1, <2>2
<1> QED BY <1>2 DEF Trunk!HiddenOf

\* An output projection leaves each core the columns of its shard.
LEMMA TrunkAttnStep == ASSUME TrunkInv, Trunk!Attn PROVE TrunkInv'
<1> USE DEF Trunk!Attn
<1>1. TrunkProgress'
    BY DEF TrunkInv, TrunkProgress, Trunk!T
<1>2. TrunkConditioned'
    BY DEF TrunkInv, TrunkConditioned, Trunk!HiddenRef, Trunk!T
<1>3. TrunkSeeded'
    <2>1. Trunk!Sums' = Trunk!Sums
        BY DEF Trunk!Sums
    <2>2. \A p, h : Trunk!ResidualRef(p, h)' = Trunk!ResidualRef(p, h)
        BY <2>1 DEF Trunk!ResidualRef, Trunk!SeedRef, Trunk!IdAt, Trunk!HiddenRef
    <2> QED BY <2>2 DEF TrunkInv, TrunkSeeded, TrunkTile, Trunk!T
<1>4. TrunkWaiting'
    BY DEF TrunkWaiting, TrunkAttnPart, Trunk!T
<1> QED BY <1>1, <1>2, <1>3, <1>4 DEF TrunkInv

\* The MoE leaves each core its block.
LEMMA TrunkMoeStep == ASSUME TrunkInv, Trunk!Moe PROVE TrunkInv'
<1> USE DEF Trunk!Moe
<1>1. TrunkProgress'
    BY DEF TrunkInv, TrunkProgress, Trunk!T
<1>2. TrunkConditioned'
    BY DEF TrunkInv, TrunkConditioned, Trunk!HiddenRef, Trunk!T
<1>3. TrunkSeeded'
    <2>1. Trunk!Sums' = Trunk!Sums
        BY DEF Trunk!Sums
    <2>2. \A p, h : Trunk!ResidualRef(p, h)' = Trunk!ResidualRef(p, h)
        BY <2>1 DEF Trunk!ResidualRef, Trunk!SeedRef, Trunk!IdAt, Trunk!HiddenRef
    <2> QED BY <2>2 DEF TrunkInv, TrunkSeeded, TrunkTile, Trunk!T
<1>4. TrunkWaiting'
    BY DEF TrunkWaiting, TrunkMoePart, Trunk!T, Trunk!BlockOf
<1> QED BY <1>1, <1>2, <1>3, <1>4 DEF TrunkInv

\* Whichever core asks, a cell is gathered from the core that computed it.
LEMMA AttnGathered ==
    ASSUME Trunk!SizeAssumption, TrunkProgress, part = TrunkAttnPart, NEW c \in Trunk!Core,
           NEW t \in 0 .. Trunk!T - 1, NEW h0 \in 0 .. H0 - 1, NEW s \in Trunk!Core,
             NEW h2 \in 0 .. H2 - 1,
           NEW f, f = t * Trunk!H1 + s * H2 + h2
    PROVE  Trunk!FreeIndex(Trunk!Gathered(c), h0, f)
               = <<"attn", layer + 1, first + t, s * (H0 * H2) + h0 * H2 + h2>>
<1> DEFINE i == h2 * Trunk!T + t
           j == s * (Trunk!T * H2) + i
<1>1. Trunk!T \in Nat \ {0} /\ Trunk!H1 = 2 * H2 /\ H2 \in Nat \ {0} /\ H2 * Trunk!T = Trunk!T * H2
        /\ Trunk!T * H2 \in Nat \ {0}
    <2>1. Trunk!T \in {1, 2} /\ Trunk!H1 = 2 * H2 /\ H2 \in Nat \ {0}
        BY TrunkSizes DEF TrunkProgress
    <2> QED BY ONLY <2>1
<1>2. i \in 0 .. Trunk!T * H2 - 1 /\ i \in 0 .. H2 * Trunk!T - 1
    <2>1. H2 \in Nat /\ Trunk!T \in Nat \ {0} /\ h2 \in 0 .. H2 - 1 /\ t \in 0 .. Trunk!T - 1
        BY <1>1
    <2>2. i \in 0 .. H2 * Trunk!T - 1
        BY ONLY <2>1, Packed
    <2> QED BY <1>1, <2>2
<1>3. j \in 0 .. 2 * (Trunk!T * H2) - 1
    <2>1. 2 \in Nat /\ s \in 0 .. 2 - 1 /\ Trunk!T * H2 \in Nat \ {0} /\ i \in 0 .. Trunk!T * H2 - 1
        BY <1>1, <1>2 DEF Trunk!Core
    <2> HIDE DEF i
    <2> QED BY ONLY <2>1, Packed
<1>4. i \div Trunk!T = h2 /\ i % Trunk!T = t
    <2>1. Splits(i, Trunk!T, h2, t)
        BY <1>1, <1>2 DEF Splits
    <2> QED BY <2>1, DivModUnique
<1>5. j \div (Trunk!T * H2) = s /\ j % (Trunk!T * H2) = i
    <2>1. Splits(j, Trunk!T * H2, s, i)
        BY <1>1, <1>2, <1>3 DEF Splits, Trunk!Core
    <2> QED BY <2>1, DivModUnique
<1>6. (f % Trunk!H1) * Trunk!T + f \div Trunk!H1 = j
    <2>1. f \div Trunk!H1 = t /\ f % Trunk!H1 = s * H2 + h2
        BY TrunkCells
    <2>2. (s * H2 + h2) * Trunk!T + t = j
        BY <1>1 DEF Trunk!Core
    <2> QED BY <2>1, <2>2
<1>7. 2 * (Trunk!T * H2) = Trunk!H1 * Trunk!T
    BY <1>1
<1> HIDE DEF i, j
<1>8. Trunk!FreeIndex(Trunk!Gathered(c), h0, f) = Trunk!Gathered(c)[h0][j]
    BY <1>6 DEF Trunk!FreeIndex
<1>9. Trunk!Gathered(c)[h0][j] = part[IF s = c THEN c ELSE 1 - c][h0][i]
    BY <1>3, <1>5, <1>7 DEF Trunk!Gathered
<1>10. (IF s = c THEN c ELSE 1 - c) = s
    BY DEF Trunk!Core
<1>11. part[s][h0][i] = <<"attn", layer + 1, first + (i % Trunk!T),
         s * (H0 * H2) + h0 * H2 + i \div Trunk!T>>
    BY <1>2 DEF TrunkAttnPart
<1> QED BY <1>4, <1>8, <1>9, <1>10, <1>11

\* A cell of the tile is in the free block of one of the cores.
LEMMA MoeGathered ==
    ASSUME Trunk!SizeAssumption, TrunkProgress, part = TrunkMoePart, NEW c \in Trunk!Core,
           NEW t \in 0 .. Trunk!T - 1, NEW h0 \in 0 .. H0 - 1, NEW s \in Trunk!Core,
             NEW h2 \in 0 .. H2 - 1,
           NEW f, f = t * Trunk!H1 + s * H2 + h2
    PROVE  Trunk!FreeBlocks(c)[h0][f]
               = <<"moe", layer + 1, first + t, s * (H0 * H2) + h0 * H2 + h2>>
<1> DEFINE In(d) == f >= Trunk!BlockOf(d)[1] /\ f < Trunk!BlockOf(d)[1] + Trunk!BlockOf(d)[2]
<1>1. Trunk!T \in {1, 2} /\ Trunk!H1 = 2 * H2 /\ H2 \in Nat \ {0}
    BY TrunkSizes DEF TrunkProgress
<1>2. /\ f \in 0 .. Trunk!T * Trunk!H1 - 1 /\ f \div Trunk!H1 = t
      /\ Trunk!HiddenOf(h0, f) = s * (H0 * H2) + h0 * H2 + h2
    BY TrunkCells
<1>3. c \in {0, 1} /\ 1 - c \in {0, 1} /\ 1 - c \in Trunk!Core
    BY DEF Trunk!Core
<1>4. In(c) \/ In(1 - c)
    BY <1>1, <1>2, <1>3 DEF Trunk!BlockOf
<1>5. ~In(c) => Trunk!BlockOf(1 - c)[1] + f - Trunk!PeerOffset(c) = f
    BY <1>1, <1>2, <1>3 DEF Trunk!BlockOf, Trunk!PeerOffset
<1>6. \A d \in Trunk!Core : In(d) =>
        part[d][h0][f] = <<"moe", layer + 1, first + f \div Trunk!H1, Trunk!HiddenOf(h0, f)>>
    BY <1>2 DEF TrunkMoePart
<1> HIDE DEF In
<1>7. Trunk!FreeBlocks(c)[h0][f] =
        IF In(c) THEN part[c][h0][f]
          ELSE part[1 - c][h0][Trunk!BlockOf(1 - c)[1] + f - Trunk!PeerOffset(c)]
    BY <1>2 DEF Trunk!FreeBlocks, In
<1> QED BY <1>2, <1>3, <1>4, <1>5, <1>6, <1>7

\* One more output on an element.
LEMMA AddedIs ==
    ASSUME NEW p, NEW seed, NEW plus, NEW y
    PROVE  Trunk!Added(Trunk!Elem(p, seed, plus), y) = Trunk!Elem(p, seed, Append(plus, y))
BY DEF Trunk!Added, Trunk!Elem

\* The attention's output is added to the residual of both cores.
LEMMA TrunkGatherAttn == ASSUME Trunk!SizeAssumption, TrunkInv, Trunk!GatherAttn PROVE TrunkInv'
<1> USE DEF Trunk!GatherAttn
<1>1. TrunkProgress /\ TrunkConditioned /\ (\A c \in Trunk!Core : TrunkTile(residual[c]))
        /\ part = TrunkAttnPart
    BY DEF TrunkInv, TrunkSeeded, TrunkWaiting
<1>2. TrunkProgress'
    BY <1>1 DEF TrunkProgress, Trunk!T
<1>3. TrunkConditioned'
    BY <1>1 DEF TrunkConditioned, Trunk!HiddenRef, Trunk!T
<1>4. Layers \in Nat /\ layer \in 0 .. Layers - 1 /\ Trunk!Sums = 2 * layer
        /\ Trunk!Sums' = 2 * layer + 1
    BY <1>1 DEF TrunkProgress, Trunk!SizeAssumption, Trunk!Sums
<1>5. \A p, h : Trunk!SeedRef(p, h)' = Trunk!SeedRef(p, h)
    BY DEF Trunk!SeedRef, Trunk!IdAt, Trunk!HiddenRef
<1>6. \A p,
        h : Trunk!ResidualRef(p, h)'
          = Trunk!Added(Trunk!ResidualRef(p, h), <<"attn", layer + 1, p, h>>)
    <2> SUFFICES ASSUME NEW p, NEW h
                 PROVE  Trunk!ResidualRef(p, h)'
                          = Trunk!Added(Trunk!ResidualRef(p, h), <<"attn", layer + 1, p, h>>)
        OBVIOUS
    <2>1. Append(SubSeq(Trunk!Adds(Layers, p, h), 1, 2 * layer), <<"attn", layer + 1, p, h>>)
            = SubSeq(Trunk!Adds(Layers, p, h), 1, 2 * layer + 1)
        BY <1>4, AddsNext
    <2> DEFINE before == SubSeq(Trunk!Adds(Layers, p, h), 1, 2 * layer)
               after == SubSeq(Trunk!Adds(Layers, p, h), 1, 2 * layer + 1)
    <2>2. Trunk!ResidualRef(p, h) = Trunk!Elem(p, Trunk!SeedRef(p, h), before)
        BY <1>4 DEF Trunk!ResidualRef
    <2>3. Trunk!ResidualRef(p, h)' = Trunk!Elem(p, Trunk!SeedRef(p, h), after)
        BY <1>4, <1>5 DEF Trunk!ResidualRef
    <2> HIDE DEF before, after
    <2>4. Trunk!Added(Trunk!Elem(p, Trunk!SeedRef(p, h), before), <<"attn", layer + 1, p, h>>)
            = Trunk!Elem(p, Trunk!SeedRef(p, h), Append(before, <<"attn", layer + 1, p, h>>))
        BY AddedIs
    <2> QED BY <2>1, <2>2, <2>3, <2>4 DEF before, after
<1>7. \A c \in Trunk!Core : TrunkTile(residual[c])'
    <2> SUFFICES ASSUME NEW c \in Trunk!Core, NEW t \in 0 .. Trunk!T - 1, NEW h0 \in 0 .. H0 - 1,
                        NEW s \in Trunk!Core, NEW h2 \in 0 .. H2 - 1
                 PROVE  residual'[c][h0][t * Trunk!H1 + s * H2 + h2]
                            = Trunk!ResidualRef(first + t, s * (H0 * H2) + h0 * H2 + h2)'
        BY DEF TrunkTile, Trunk!T
    <2> DEFINE f == t * Trunk!H1 + s * H2 + h2
               h == s * (H0 * H2) + h0 * H2 + h2
    <2>1. f \in 0 .. Trunk!T * Trunk!H1 - 1
        BY <1>1, TrunkCells
    <2>2. residual'[c][h0][f]
            = Trunk!Added(residual[c][h0][f], Trunk!FreeIndex(Trunk!Gathered(c), h0, f))
        BY <2>1
    <2>3. Trunk!FreeIndex(Trunk!Gathered(c), h0, f) = <<"attn", layer + 1, first + t, h>>
        BY <1>1, AttnGathered
    <2>4. residual[c][h0][f] = Trunk!ResidualRef(first + t, h)
        BY <1>1 DEF TrunkTile
    <2> HIDE DEF f, h
    <2>5. residual'[c][h0][f] = Trunk!ResidualRef(first + t, h)'
        BY <1>6, <2>2, <2>3, <2>4
    <2> QED BY <2>5 DEF f, h
<1>8. TrunkSeeded' /\ TrunkWaiting'
    BY <1>7 DEF TrunkSeeded, TrunkWaiting
<1> QED BY <1>2, <1>3, <1>8 DEF TrunkInv

\* So is the MoE's.
LEMMA TrunkGatherMoe == ASSUME Trunk!SizeAssumption, TrunkInv, Trunk!GatherMoe PROVE TrunkInv'
<1> USE DEF Trunk!GatherMoe
<1>1. TrunkProgress /\ TrunkConditioned /\ (\A c \in Trunk!Core : TrunkTile(residual[c]))
        /\ part = TrunkMoePart
    BY DEF TrunkInv, TrunkSeeded, TrunkWaiting
<1>2. Layers \in Nat /\ layer \in 0 .. Layers - 1 /\ layer' = layer + 1
    BY <1>1 DEF TrunkProgress, Trunk!SizeAssumption
<1>3. TrunkProgress'
    BY <1>1, <1>2 DEF TrunkProgress, Trunk!T
<1>4. TrunkConditioned'
    BY <1>1 DEF TrunkConditioned, Trunk!HiddenRef, Trunk!T
<1>5. Trunk!Sums = 2 * layer + 1 /\ Trunk!Sums' = 2 * (layer + 1) /\ step' \in {"attn", "end"}
    BY <1>2 DEF Trunk!Sums
<1>6. \A p, h : Trunk!SeedRef(p, h)' = Trunk!SeedRef(p, h)
    BY DEF Trunk!SeedRef, Trunk!IdAt, Trunk!HiddenRef
<1>7. \A p,
        h : Trunk!ResidualRef(p, h)'
          = Trunk!Added(Trunk!ResidualRef(p, h), <<"moe", layer + 1, p, h>>)
    <2> SUFFICES ASSUME NEW p, NEW h
                 PROVE  Trunk!ResidualRef(p, h)'
                          = Trunk!Added(Trunk!ResidualRef(p, h), <<"moe", layer + 1, p, h>>)
        OBVIOUS
    <2>1. Append(SubSeq(Trunk!Adds(Layers, p, h), 1, 2 * layer + 1), <<"moe", layer + 1, p, h>>)
            = SubSeq(Trunk!Adds(Layers, p, h), 1, 2 * (layer + 1))
        BY <1>2, AddsNext
    <2> DEFINE before == SubSeq(Trunk!Adds(Layers, p, h), 1, 2 * layer + 1)
               after == SubSeq(Trunk!Adds(Layers, p, h), 1, 2 * (layer + 1))
    <2>2. Trunk!ResidualRef(p, h) = Trunk!Elem(p, Trunk!SeedRef(p, h), before)
        BY <1>5 DEF Trunk!ResidualRef
    <2>3. Trunk!ResidualRef(p, h)' = Trunk!Elem(p, Trunk!SeedRef(p, h), after)
        BY <1>5, <1>6 DEF Trunk!ResidualRef
    <2> HIDE DEF before, after
    <2>4. Trunk!Added(Trunk!Elem(p, Trunk!SeedRef(p, h), before), <<"moe", layer + 1, p, h>>)
            = Trunk!Elem(p, Trunk!SeedRef(p, h), Append(before, <<"moe", layer + 1, p, h>>))
        BY AddedIs
    <2> QED BY <2>1, <2>2, <2>3, <2>4 DEF before, after
<1>8. \A c \in Trunk!Core : TrunkTile(residual[c])'
    <2> SUFFICES ASSUME NEW c \in Trunk!Core, NEW t \in 0 .. Trunk!T - 1, NEW h0 \in 0 .. H0 - 1,
                        NEW s \in Trunk!Core, NEW h2 \in 0 .. H2 - 1
                 PROVE  residual'[c][h0][t * Trunk!H1 + s * H2 + h2]
                            = Trunk!ResidualRef(first + t, s * (H0 * H2) + h0 * H2 + h2)'
        BY DEF TrunkTile, Trunk!T
    <2> DEFINE f == t * Trunk!H1 + s * H2 + h2
               h == s * (H0 * H2) + h0 * H2 + h2
    <2>1. f \in 0 .. Trunk!T * Trunk!H1 - 1
        BY <1>1, TrunkCells
    <2>2. residual'[c][h0][f] = Trunk!Added(residual[c][h0][f], Trunk!FreeBlocks(c)[h0][f])
        BY <2>1
    <2>3. Trunk!FreeBlocks(c)[h0][f] = <<"moe", layer + 1, first + t, h>>
        BY <1>1, MoeGathered
    <2>4. residual[c][h0][f] = Trunk!ResidualRef(first + t, h)
        BY <1>1 DEF TrunkTile
    <2> HIDE DEF f, h
    <2>5. residual'[c][h0][f] = Trunk!ResidualRef(first + t, h)'
        BY <1>7, <2>2, <2>3, <2>4
    <2> QED BY <2>5 DEF f, h
<1>9. TrunkSeeded' /\ TrunkWaiting'
    BY <1>5, <1>8 DEF TrunkSeeded, TrunkWaiting
<1> QED BY <1>3, <1>4, <1>9 DEF TrunkInv

(***************************************************************************)
(* From stage to stage.                                                     *)
(***************************************************************************)

\* The draft's head picks the candidate.
LEMMA TrunkDrafted == ASSUME Trunk!SizeAssumption, TrunkInv, Trunk!Drafted PROVE TrunkInv'
<1> USE DEF Trunk!Drafted, Trunk!Reset
<1>1. TrunkProgress /\ TrunkConditioned
    BY DEF TrunkInv
<1>2. PICK v \in TrunkVocab : cand' = v /\ ids' = Trunk!VerifyBlock(v)
    OBVIOUS
<1>3. ids' \in Seq(TrunkVocab) /\ Len(ids') = 2 /\ ids'[2] = v
    <2>1. ids \in Seq(TrunkVocab) /\ Len(ids) \in {1, 2}
        BY <1>1 DEF TrunkProgress, Trunk!T
    <2>2. ids[1] \in TrunkVocab
        BY <2>1
    <2> QED BY <1>2, <2>2 DEF Trunk!VerifyBlock
<1>4. TrunkProgress'
    BY <1>1, <1>2, <1>3 DEF TrunkProgress, Trunk!T, Trunk!SizeAssumption
<1>5. TrunkConditioned'
    BY <1>1 DEF TrunkConditioned, Trunk!HiddenRef
<1>6. TrunkSeeded' /\ TrunkWaiting'
    BY DEF TrunkSeeded, TrunkWaiting, Trunk!NoTile
<1> QED BY <1>4, <1>5, <1>6 DEF TrunkInv

\* Both ways out of the tile give a token's hidden in its natural order.
LEMMA VerifiedIs ==
    ASSUME Trunk!SizeAssumption, TrunkInv, stage = "verify", step = "end",
           NEW t \in 0 .. 1, NEW h \in 0 .. Trunk!H - 1
    PROVE  LET ref == Trunk!Elem(t + 1, <<"emb", ids[t + 1], h>>, Trunk!Adds(Layers, t + 1, h))
           IN  /\ Trunk!StoreResidual(residual[0], Trunk!T)[t][h] = ref
               /\ Trunk!TpToNatural(residual[0], Trunk!T)[t][h] = ref
<1> USE TrunkSizes
<1>1. TrunkProgress /\ TrunkTile(residual[0]) /\ Trunk!T = 2 /\ first = 1 /\ layer = Layers
    BY DEF TrunkInv, TrunkSeeded, TrunkProgress, Trunk!Core
<1>2. H2 \in Nat \ {0} /\ Trunk!H = 2 * (H0 * H2) /\ h \in 0 .. 2 * (H0 * H2) - 1
        /\ t \in 0 .. Trunk!T - 1
    BY <1>1
<1>3. PICK s \in Trunk!Core, h0 \in 0 .. H0 - 1,
        h2 \in 0 .. H2 - 1 : h = s * (H0 * H2) + h0 * H2 + h2
    BY <1>2, HiddenParts
<1>4. /\ h \div (H0 * H2) = s /\ (h % (H0 * H2)) \div H2 = h0
      /\ (h \div H2) % H0 = h0 /\ h % H2 = h2
    BY <1>2, <1>3, HiddenIs
<1>5. Trunk!StoreResidual(residual[0], Trunk!T)[t][h] = residual[0][h0][t * Trunk!H1 + s * H2 + h2]
    BY <1>2, <1>4 DEF Trunk!StoreResidual
<1>6. Trunk!TpToNatural(residual[0], Trunk!T)[t][h] = residual[0][h0][t * Trunk!H1 + s * H2 + h2]
    BY <1>2, <1>4 DEF Trunk!TpToNatural
<1>7. residual[0][h0][t * Trunk!H1 + s * H2 + h2] = Trunk!ResidualRef(first + t, h)
    BY <1>1, <1>2, <1>3 DEF TrunkTile
<1>8. Trunk!ResidualRef(first + t, h)
        = Trunk!Elem(t + 1, <<"emb", ids[t + 1], h>>, Trunk!Adds(Layers, t + 1, h))
    <2>1. first + t = t + 1 /\ Trunk!Sums = 2 * Layers /\ Layers \in Nat
        BY <1>1 DEF Trunk!Sums, Trunk!SizeAssumption
    <2>2. SubSeq(Trunk!Adds(Layers, t + 1, h), 1, 2 * Layers) = Trunk!Adds(Layers, t + 1, h)
        BY <2>1, AddsIs
    <2>3. Trunk!IdAt(first + t) = ids[t + 1]
        BY <1>1, <1>2, IdIs
    <2> QED BY <2>1, <2>2, <2>3 DEF Trunk!ResidualRef, Trunk!SeedRef
<1> QED BY <1>5, <1>6, <1>7, <1>8

\* The verify pass stores its hidden and hands the committed token's on.
LEMMA TrunkVerified == ASSUME Trunk!SizeAssumption, TrunkInv, Trunk!Verified PROVE TrunkInv'
<1> USE DEF Trunk!Verified, Trunk!Reset
<1> DEFINE ref(t, h) == Trunk!Elem(t + 1, <<"emb", ids[t + 1], h>>, Trunk!Adds(Layers, t + 1, h))
<1>1. /\ TrunkProgress /\ TrunkConditioned /\ stage = "verify" /\ step = "end"
      /\ Trunk!T = 2 /\ first = 1 /\ cand = ids[2] /\ ids \in Seq(TrunkVocab)
    BY DEF TrunkInv, TrunkProgress
<1>2. \A t \in 0 .. 1, h \in 0 .. Trunk!H - 1 :
        /\ Trunk!StoreResidual(residual[0], Trunk!T)[t][h] = ref(t, h)
        /\ Trunk!TpToNatural(residual[0], Trunk!T)[t][h] = ref(t, h)
    BY <1>1, VerifiedIs
<1>3. hbm'.ids = ids /\ hbm'.hidden = Trunk!StoreResidual(residual[0], Trunk!T)
    OBVIOUS
<1>4. \A t \in 0 .. 1, h \in 0 .. Trunk!H - 1 : Trunk!HiddenRef(t + 1, h)' = ref(t, h)
    BY <1>3 DEF Trunk!HiddenRef
<1>5. \A t \in 0 .. 1, h \in 0 .. Trunk!H - 1 : hbm'.hidden[t][h] = Trunk!HiddenRef(t + 1, h)'
    BY <1>2, <1>3, <1>4
<1>6. \A h : Trunk!HiddenRef(0, h)' = Trunk!HiddenRef(0, h)
    BY DEF Trunk!HiddenRef
<1> HIDE DEF ref
<1>7. CASE way = "one"
    <2>1. ids' = <<cand>> /\ first' = 2 /\ Trunk!T' = 1 /\ Trunk!T' - 1 = 0
        BY <1>7 DEF Trunk!T
    <2>2. \A h \in 0 .. Trunk!H - 1 : prev'[0][h] = Trunk!HiddenRef(1, h)'
        <3>1. prev'[0] = Trunk!TpToNatural(residual[0], Trunk!T)[0]
            BY <1>7 DEF Trunk!HandedOn
        <3>2. 0 \in 0 .. 1 /\ 0 + 1 = 1
            OBVIOUS
        <3> QED BY <1>2, <1>4, <3>1, <3>2
    <2>3. \A t \in 0 .. Trunk!T' - 1 : t = 0 /\ first' + t - 1 = 1
        BY <2>1
    <2>4. TrunkConditioned'
        BY <1>5, <2>2, <2>3 DEF TrunkConditioned
    <2>5. DOMAIN prev' = {0}
        BY <1>7 DEF Trunk!HandedOn
    <2>6. ids' \in Seq(TrunkVocab)
        BY <1>1, <2>1 DEF Trunk!T
    <2>7. TrunkProgress'
        BY <1>1, <1>7, <2>1, <2>5, <2>6 DEF TrunkProgress, Trunk!SizeAssumption
    <2>8. TrunkSeeded' /\ TrunkWaiting'
        BY DEF TrunkSeeded, TrunkWaiting, Trunk!NoTile
    <2> QED BY <2>4, <2>7, <2>8 DEF TrunkInv
<1>8. CASE way = "three"
    <2>1. /\ ids' = ids /\ first' = first /\ Trunk!T' = 2 /\ Trunk!T' - 1 = 1
          /\ prev' = [t \in 0 .. 1 |-> IF t = 0 THEN prev[0] ELSE hbm'.hidden[0]]
        BY <1>1, <1>8 DEF Trunk!T
    <2>2. \A h \in 0 .. Trunk!H - 1 : prev'[0][h] = Trunk!HiddenRef(0, h)'
            /\ prev'[1][h] = Trunk!HiddenRef(1, h)'
        <3>1. prev'[0] = prev[0] /\ prev'[1] = hbm'.hidden[0]
            BY <2>1
        <3>2. 0 \in 0 .. 1 /\ 0 + 1 = 1
            OBVIOUS
        <3>3. \A h \in 0 .. Trunk!H - 1 : prev[0][h] = Trunk!HiddenRef(0, h)
            BY <1>1 DEF TrunkConditioned
        <3>4. \A h \in 0 .. Trunk!H - 1 : hbm'.hidden[0][h] = Trunk!HiddenRef(1, h)'
            BY <1>5, <3>2
        <3> QED BY <1>6, <3>1, <3>3, <3>4
    <2>3. \A t \in 0 .. Trunk!T' - 1 : (t = 0 /\ first' + t - 1 = 0)
            \/ (t = 1 /\ first' + t - 1 = 1)
        BY <1>1, <2>1
    <2>4. TrunkConditioned'
        BY <1>5, <2>2, <2>3 DEF TrunkConditioned
    <2>5. DOMAIN prev' = 0 .. 1
        BY <2>1
    <2>6. TrunkProgress'
        BY <1>1, <1>8, <2>1, <2>5 DEF TrunkProgress, Trunk!SizeAssumption
    <2>7. TrunkSeeded' /\ TrunkWaiting'
        BY DEF TrunkSeeded, TrunkWaiting, Trunk!NoTile
    <2> QED BY <2>4, <2>6, <2>7 DEF TrunkInv
<1> QED BY <1>1, <1>7, <1>8 DEF TrunkProgress

\* Every step keeps the invariant.
LEMMA TrunkStep == ASSUME Trunk!SizeAssumption, TrunkInv, [Trunk!Next]_Trunk!vars PROVE TrunkInv'
<1>1. CASE UNCHANGED Trunk!vars
    <2>1. TrunkProgress'
        BY <1>1 DEF TrunkInv, TrunkProgress, Trunk!T, Trunk!vars
    <2>2. TrunkConditioned'
        BY <1>1 DEF TrunkInv, TrunkConditioned, Trunk!HiddenRef, Trunk!T, Trunk!vars
    <2>3. TrunkSeeded'
        <3>1. \A p, h : Trunk!ResidualRef(p, h)' = Trunk!ResidualRef(p, h)
            BY <1>1 DEF Trunk!vars, Trunk!ResidualRef, Trunk!SeedRef, Trunk!IdAt, Trunk!HiddenRef,
                Trunk!Sums
        <3> QED BY <1>1, <3>1 DEF TrunkInv, TrunkSeeded, TrunkTile, Trunk!T, Trunk!vars
    <2>4. TrunkWaiting'
        BY <1>1 DEF TrunkInv, TrunkWaiting, TrunkAttnPart, TrunkMoePart, Trunk!BlockOf, Trunk!T,
            Trunk!vars
    <2> QED BY <2>1, <2>2, <2>3, <2>4 DEF TrunkInv
<1>2. CASE Trunk!Next
    BY <1>1, <1>2, TrunkSeedStep, TrunkAttnStep, TrunkGatherAttn, TrunkMoeStep, TrunkGatherMoe,
        TrunkDrafted, TrunkVerified DEF Trunk!Next, Trunk!Replayed
<1> QED BY <1>1, <1>2

\* The residual of the launch is the reference's in a behaviour that runs it.
ResidualInv == Run("trunk") => TrunkInv

\* It is when the behaviour starts.
LEMMA ResidualInit == ASSUME Init PROVE ResidualInv
<1>1. Run("trunk") => Trunk!Init
    BY DEF Init, Run
<1>2. Trunk!Init => TrunkInv
    BY TrunkAssumption, TrunkInit
<1> QED BY <1>1, <1>2 DEF ResidualInv

\* And after every step, whatever the other parts do.
LEMMA ResidualSteps == ASSUME ResidualInv, [Next]_vars PROVE ResidualInv'
<1> USE DEF Next, HeadNext, MoeNext, TrunkNext, RuleNext, RuleOver, RouterNext
<1>1. running' = running
    BY DEF vars
<1>2. Run("trunk") => Trunk!Next \/ UNCHANGED Trunk!vars
    BY DEF vars, Run, Trunk!vars, trunkOnly, shared
<1> HIDE DEF Next, HeadNext, MoeNext, TrunkNext, RuleNext, RuleOver, RouterNext
<1>3. TrunkInv /\ [Trunk!Next]_Trunk!vars => TrunkInv'
    BY TrunkAssumption, TrunkStep
<1> QED BY <1>1, <1>2, <1>3 DEF ResidualInv, Run

\* In every reachable state, whether the round is one launch or three, every cell
\* of both cores' residual is its token's and its hidden index's, with every
\* output added so far, and what the verify pass stored is the trunk's hidden in
\* its natural order (embed_compose, eh_proj_compose, the gathers, the hand-over).
THEOREM RoundKeepsResidual == Spec => []ResidualIsReference
<1>1. Init => ResidualInv
    BY ResidualInit
<1>2. ResidualInv /\ [Next]_vars => ResidualInv'
    BY ResidualSteps
<1>3. ResidualInv => ResidualIsReference
    BY TrunkInvImplies DEF ResidualInv, ResidualIsReference
<1> QED BY <1>1, <1>2, <1>3, PTL DEF Spec

(***************************************************************************)
(* The MoE layer.                                                           *)
(***************************************************************************)
(***************************************************************************)
(* The split.                                                               *)
(***************************************************************************)
MoeConstants == Moe!TpDegreeAssumption /\ Moe!ShapesAssumption /\ Moe!BlocksAssumption
  /\ Moe!JunkAssumption

\* The fields of a launch.
LEMMA ShapeFields ==
    ASSUME MoeConstants, shape \in Shapes
    PROVE  /\ shape.T \in Nat \ {0} /\ shape.K \in Nat \ {0} /\ shape.prgs \in {1, 2}
           /\ shape.prgs > 1 /\ shape.big => shape.T = 1
           /\ shape.big \in BOOLEAN
BY DEF MoeConstants, Moe!ShapesAssumption, Moe!BlocksAssumption

\* Cores.
LEMMA MoeCores ==
    ASSUME MoeConstants, NEW p \in Moe!Cores
    PROVE  /\ Moe!Prg(p) \in {0, 1} /\ p[1] \in Moe!Ranks /\ p = <<p[1], Moe!Prg(p)>>
           /\ Moe!Peer(p) \in Moe!Cores /\ Moe!Prg(Moe!Peer(p)) = 1 - Moe!Prg(p)
                /\ Moe!Peer(p)[1] = p[1]
           /\ Moe!Peer(p) # p
BY DEF Moe!Cores, Moe!Prg, Moe!Peer

\* The ways to split: by token, by hidden block for one token, or not at all.
LEMMA MoeWays ==
    ASSUME MoeConstants, shape \in Shapes
    PROVE  \/ Moe!ShardOnT /\ ~Moe!ShardOnH /\ shape.prgs = 2
           \/ ~Moe!ShardOnT /\ Moe!ShardOnH /\ shape.prgs = 2 /\ shape.T = 1
           \/ ~Moe!ShardOnT /\ ~Moe!ShardOnH /\ shape.prgs = 1
BY ShapeFields DEF Moe!ShardOnT, Moe!ShardOnH

\* The tokens of a core.
LEMMA TokensAre ==
    ASSUME MoeConstants, shape \in Shapes, NEW p \in Moe!Cores
    PROVE  /\ Moe!TOffset(p) \in Nat /\ Moe!TLen(p) \in Nat
                /\ Moe!TOffset(p) + Moe!TLen(p) <= shape.T
           /\ Moe!Tokens(p) \subseteq 0 .. shape.T - 1
           /\ Moe!Experts(p) \in Nat /\ Moe!Experts(p) = Moe!TLen(p) * shape.K
<1>1. shape.T \in Nat \ {0} /\ shape.K \in Nat \ {0} /\ shape.prgs \in {1, 2}
    BY ShapeFields
<1>2. Moe!ShardOnT => shape.prgs = 2
    BY MoeWays
<1>3. /\ Moe!TOffset(p) \in Nat /\ Moe!TLen(p) \in Nat /\ Moe!TOffset(p) + Moe!TLen(p) <= shape.T
    <2>1. CASE Moe!ShardOnT
        <3>1. Moe!TFirst = shape.T \div 2 /\ Moe!TFirst \in Nat /\ Moe!TFirst <= shape.T
            <4>1. Moe!TFirst = shape.T \div 2
                BY <1>2, <2>1 DEF Moe!TFirst
            <4>2. \A n \in Nat : n \div 2 \in Nat /\ n \div 2 <= n
                OBVIOUS
            <4> QED BY <1>1, <4>1, <4>2
        <3>2. CASE Moe!Prg(p) = 0
            BY <1>1, <2>1, <3>1, <3>2 DEF Moe!TOffset, Moe!TLen
        <3>3. CASE Moe!Prg(p) # 0
            <4>1. Moe!TOffset(p) = Moe!TFirst /\ Moe!TLen(p) = shape.T - Moe!TFirst
                BY <2>1, <3>3 DEF Moe!TOffset, Moe!TLen
            <4>2. \A n, m \in Nat : m <= n => n - m \in Nat /\ m + (n - m) <= n
                OBVIOUS
            <4> QED BY <1>1, <3>1, <4>1, <4>2
        <3> QED BY <3>2, <3>3
    <2>2. CASE ~Moe!ShardOnT
        BY <1>1, <2>2 DEF Moe!TOffset, Moe!TLen
    <2> QED BY <2>1, <2>2
<1> QED BY <1>1, <1>3 DEF Moe!Tokens, Moe!Experts

\* A cell is a core's, its token and its hidden block, when it lies in the core's
\* free block.
OwnsCell(p, f) == Moe!CellToken(f) \in Moe!Tokens(p) /\ Moe!CellBlock(f) \in Moe!Owned(p)

\* The cells of a core's free block are those of its tokens and of its blocks.
LEMMA BlockIsOwned ==
    ASSUME MoeConstants, shape \in Shapes, NEW p \in Moe!Cores, Moe!Running(p), NEW f \in Moe!Cells
    PROVE  OwnsCell(p, f) <=> f >= Moe!FreeBlock(p)[1]
             /\ f < Moe!FreeBlock(p)[1] + Moe!FreeBlock(p)[2]
<1>1. shape.T \in Nat \ {0} /\ shape.prgs \in {1, 2} /\ Moe!Prg(p) \in {0, 1}
    BY ShapeFields, MoeCores
<1>2. CASE Moe!ShardOnT /\ ~Moe!ShardOnH /\ shape.prgs = 2
    <2>1. /\ f \in 0 .. shape.T * 2 - 1 /\ f % 2 \in 0 .. 1
          /\ Moe!FreeBlock(p) = <<Moe!TOffset(p) * 2, Moe!TLen(p) * 2>>
        BY <1>1, <1>2 DEF Moe!Cells, Moe!FreeBlock
    <2>2. Moe!TOffset(p) \in Nat /\ Moe!TLen(p) \in Nat
        BY TokensAre
    <2>3. OwnsCell(p, f) <=> f \div 2 \in Moe!TOffset(p) .. Moe!TOffset(p) + Moe!TLen(p) - 1
        BY <1>2, <2>1 DEF OwnsCell, Moe!CellToken, Moe!CellBlock, Moe!Tokens, Moe!Owned, Moe!HBlocks
    <2> QED BY <2>1, <2>2, <2>3
<1>3. CASE ~Moe!ShardOnT /\ Moe!ShardOnH /\ shape.prgs = 2 /\ shape.T = 1
    <2>1. f \in {0, 1} /\ f \div 2 = 0 /\ f % 2 = f /\ Moe!FreeBlock(p) = <<Moe!Prg(p), 1>>
        BY <1>3 DEF Moe!Cells, Moe!FreeBlock
    <2>2. OwnsCell(p, f) <=> f = Moe!Prg(p)
        BY <1>3, <2>1 DEF OwnsCell, Moe!CellToken, Moe!CellBlock, Moe!Tokens, Moe!TOffset,
            Moe!TLen, Moe!Owned
    <2> QED BY <1>1, <2>1, <2>2
<1>4. CASE ~Moe!ShardOnT /\ ~Moe!ShardOnH /\ shape.prgs = 1
    <2>1. f \in 0 .. shape.T - 1 /\ f \div 1 = f /\ f % 1 = 0 /\ Moe!FreeBlock(p) = <<0, shape.T>>
        BY <1>1, <1>4 DEF Moe!Cells, Moe!FreeBlock
    <2>2. OwnsCell(p, f)
        BY <1>1, <1>4, <2>1
        DEF OwnsCell, Moe!CellToken, Moe!CellBlock, Moe!Tokens, Moe!TOffset, Moe!TLen, Moe!Owned,
          Moe!HBlocks
    <2> QED BY <1>1, <2>1, <2>2
<1> QED BY <1>2, <1>3, <1>4, MoeWays

\* A free block lies in the tile.
LEMMA BlockInTile ==
    ASSUME MoeConstants, shape \in Shapes, NEW p \in Moe!Cores, Moe!Running(p)
    PROVE  /\ Moe!FreeBlock(p)[1] \in Nat /\ Moe!FreeBlock(p)[2] \in Nat
           /\ Moe!FreeBlock(p)[1] + Moe!FreeBlock(p)[2] <= shape.T * shape.prgs
           /\ shape.T * shape.prgs \in Nat
<1>1. shape.T \in Nat \ {0} /\ shape.prgs \in {1, 2} /\ Moe!Prg(p) \in {0, 1}
    BY ShapeFields, MoeCores
<1>2. Moe!TOffset(p) \in Nat /\ Moe!TLen(p) \in Nat /\ Moe!TOffset(p) + Moe!TLen(p) <= shape.T
    BY TokensAre
<1> QED BY <1>1, <1>2, MoeWays DEF Moe!FreeBlock

(***************************************************************************)
(* Selected experts.                                                        *)
(***************************************************************************)

\* The expert before a token's k-th sits in the other slot.
LEMMA ExpertBefore ==
    ASSUME MoeConstants, shape \in Shapes, NEW e \in Nat \ {0}, e % shape.K # 0
    PROVE  Moe!ComputeSlot(e - 1) # Moe!PrefetchSlot(e)
<1>1. shape.K \in Nat \ {0}
    BY ShapeFields
<1> PICK q, r : Splits(e, shape.K, q, r) /\ r = e % shape.K
    BY <1>1, DivModIs
<1>2. r # 0
    OBVIOUS
<1>3. r \in Nat /\ r - 1 \in 0 .. shape.K - 1 /\ e - 1 \in Nat /\ e - 1 = q * shape.K + (r - 1)
    BY <1>2 DEF Splits
<1>4. Splits(e - 1, shape.K, q, r - 1)
    BY <1>2, <1>3 DEF Splits
<1>5. (e - 1) % shape.K = r - 1
    BY <1>4, DivModUnique
<1>6. (r - 1) % 2 # r % 2
    BY <1>3
<1> QED BY <1>5, <1>6 DEF Moe!ComputeSlot, Moe!PrefetchSlot, Moe!PREFETCH_SLOTS

\* A slot is one of the ring's.
LEMMA SlotIs ==
    ASSUME MoeConstants, shape \in Shapes, NEW e \in Nat
    PROVE  /\ Moe!ComputeSlot(e) \in 0 .. Moe!PREFETCH_SLOTS - 1
           /\ Moe!PrefetchSlot(e) = Moe!ComputeSlot(e)
<1>1. shape.K \in Nat \ {0}
    BY ShapeFields
<1>2. Splits(e, shape.K, e \div shape.K, e % shape.K)
    BY <1>1, DivModIs
<1>3. e % shape.K \in Nat
    BY <1>1, <1>2 DEF Splits
<1> QED BY <1>3 DEF Moe!ComputeSlot, Moe!PrefetchSlot, Moe!PREFETCH_SLOTS

\* Experts of a core before those of token t.
ExpertBase(p, t) == (t - Moe!TOffset(p)) * shape.K

\* A selected expert is one of a token of the core.
LEMMA SelectedIs ==
    ASSUME MoeConstants, shape \in Shapes, NEW p \in Moe!Cores, NEW e \in 0 .. Moe!Experts(p) - 1
    PROVE  \E t \in Moe!Tokens(p), k \in 0 .. shape.K - 1 :
              /\ Moe!Selected(p, e) = <<t, k>> /\ e = ExpertBase(p, t) + k /\ e % shape.K = k
<1>1. shape.K \in Nat \ {0} /\ e \in Nat
    BY ShapeFields
<1>2. Moe!TOffset(p) \in Nat /\ Moe!TLen(p) \in Nat /\ Moe!Experts(p) = Moe!TLen(p) * shape.K
    BY TokensAre
<1> PICK q, k : Splits(e, shape.K, q, k) /\ q = e \div shape.K /\ k = e % shape.K
    BY <1>1, DivModIs
<1>3. q \in 0 .. Moe!TLen(p) - 1
    <2>1. e < Moe!TLen(p) * shape.K
        BY <1>1, <1>2
    <2> QED BY <1>2, <2>1, DivLess
<1>4. k \in 0 .. shape.K - 1 /\ e = q * shape.K + k
    BY DEF Splits
<1> DEFINE t == Moe!TOffset(p) + q
<1>5. t \in Moe!Tokens(p) /\ t - Moe!TOffset(p) = q
    BY <1>2, <1>3 DEF Moe!Tokens
<1>6. Moe!Selected(p, e) = <<t, k>>
    BY DEF Moe!Selected
<1> HIDE DEF t
<1>7. e = ExpertBase(p, t) + k
    BY <1>4, <1>5 DEF ExpertBase
<1> QED BY <1>4, <1>5, <1>6, <1>7

\* Experts of different tokens are apart.
LEMMA BasesApart ==
    ASSUME MoeConstants, shape \in Shapes, NEW p \in Moe!Cores,
           NEW t \in Moe!Tokens(p), NEW u \in Moe!Tokens(p),
           NEW k \in 0 .. shape.K - 1, NEW l \in 0 .. shape.K - 1,
           ExpertBase(p, t) + k = ExpertBase(p, u) + l
    PROVE  t = u /\ k = l
<1>1. shape.K \in Nat \ {0} /\ Moe!TOffset(p) \in Nat /\ Moe!TLen(p) \in Nat
    BY ShapeFields, TokensAre
<1>2. t - Moe!TOffset(p) \in Nat /\ u - Moe!TOffset(p) \in Nat
    BY <1>1 DEF Moe!Tokens
<1>3. ExpertBase(p, t) + k \in Nat
    BY <1>1, <1>2 DEF ExpertBase
<1>4. Splits(ExpertBase(p, t) + k, shape.K, t - Moe!TOffset(p), k)
    BY <1>1, <1>2, <1>3 DEF Splits, ExpertBase
<1>5. Splits(ExpertBase(p, t) + k, shape.K, u - Moe!TOffset(p), l)
    BY <1>1, <1>2, <1>3 DEF Splits, ExpertBase
<1>6. t - Moe!TOffset(p) = u - Moe!TOffset(p) /\ k = l
    BY <1>4, <1>5, DivModUnique
<1>7. t \in Int /\ u \in Int
    BY <1>1 DEF Moe!Tokens
<1> QED BY <1>1, <1>6, <1>7

\* And all those of a token are the core's.
LEMMA BaseBounds ==
    ASSUME MoeConstants, shape \in Shapes, NEW p \in Moe!Cores, NEW t \in Moe!Tokens(p)
    PROVE  ExpertBase(p, t) \in Nat /\ ExpertBase(p, t) + shape.K <= Moe!Experts(p)
<1>1. shape.K \in Nat \ {0} /\ Moe!TOffset(p) \in Nat /\ Moe!TLen(p) \in Nat
      /\ Moe!Experts(p) = Moe!TLen(p) * shape.K
    BY ShapeFields, TokensAre
<1> PICK q \in 0 .. Moe!TLen(p) - 1 : q = t - Moe!TOffset(p)
    BY <1>1 DEF Moe!Tokens
<1>2. ExpertBase(p, t) = q * shape.K
    BY DEF ExpertBase
<1>3. q * shape.K \in Nat /\ (q + 1) * shape.K = q * shape.K + shape.K
    BY <1>1
<1>4. (q + 1) * shape.K <= Moe!TLen(p) * shape.K
    BY <1>1
<1> QED BY <1>1, <1>2, <1>3, <1>4

(***************************************************************************)
(* The invariant.                                                           *)
(***************************************************************************)
\* The first n products of a token.
Products(t, n) == [k \in 1 .. n |-> Moe!Expert(t, k - 1)]

\* What a core that owns half of the hidden dimension contracts of expert e.
HalfOf(p, e) == {<<s, Moe!Selected(p, e)[1], Moe!Selected(p, e)>> : s \in Moe!Owned(p)}

\* After c experts, the first n of token t were added last, or all of its K.
Added(p, t, n, c) == c = ExpertBase(p, t) + n \/ (n = shape.K /\ c >= ExpertBase(p, t) + n)

\* The ring: l experts loaded and c computed, the ones between them in place.
RingIs(p, l, c, ring) ==
    /\ l \in 0 .. Moe!Experts(p) /\ c \in 0 .. l
    /\ ring = [i \in 0 .. Moe!PREFETCH_SLOTS - 1 |-> ring[i]]
    /\ \A e \in c .. l - 1 : ring[Moe!ComputeSlot(e)] = Moe!Selected(p, e)

\* The sums: those of the tokens computed are whole, the current one's is as far.
AccIs(p, c, sums) ==
    /\ sums = [t \in 0 .. shape.T - 1 |-> sums[t]]
    /\ \A t \in 0 .. shape.T - 1 :
          sums[t] = Junk \/ \E n \in 1 .. shape.K : sums[t] = Products(t, n)
    /\ \A t \in Moe!Tokens(p) : \A n \in 1 .. shape.K :
          Added(p, t, n, c) => sums[t] = Products(t, n)

\* A half that waits for the peer's.
PartIs(p, at, l, c, half) ==
    half = {} \/ (Moe!ShardOnH /\ at = "routed" /\ c < l /\ half = HalfOf(p, c))

\* What a core holds after each exchange.
ReducedIs(p) == [i \in 1 .. Moe!FreeBlock(p)[2] |-> Moe!Sum(Moe!FreeBlock(p)[1] + i - 1)]
StageIs(p, at, own, sums, whole) ==
    /\ at \in {"routed", "reduce", "gather", "done"}
    /\ ~Moe!Running(p) => at = "done"
    /\ at = "reduce" => own = [f \in Moe!Cells |-> IF OwnsCell(p, f) THEN Moe!Cell(f) ELSE Junk]
    /\ sums = <<>> \/ (Moe!Running(p) /\ sums = ReducedIs(p))
    /\ at = "gather" => sums = ReducedIs(p)
    /\ at = "done" /\ Moe!Running(p) => \A f \in Moe!Cells : whole[f] = Moe!Sum(f)

CoreIs(p) ==
    /\ RingIs(p, loaded[p], computed[p], slots[p])
    /\ AccIs(p, computed[p], acc[p])
    /\ PartIs(p, pc[p], loaded[p], computed[p], part[p])
    /\ StageIs(p, pc[p], tile[p], reduced[p], out[p])

\* A variable has a value for every core.
ByCore(f) == f = [p \in Moe!Cores |-> f[p]]
MoeInv ==
    /\ shape \in Shapes
    /\ ByCore(pc) /\ ByCore(loaded) /\ ByCore(computed) /\ ByCore(slots) /\ ByCore(part)
    /\ ByCore(acc) /\ ByCore(tile) /\ ByCore(reduced) /\ ByCore(out)
    /\ \A p \in Moe!Cores : CoreIs(p)
    /\ Moe!ShardOnH => \A p \in Moe!Cores : computed[Moe!Peer(p)] = computed[p]

\* It gives the types.
LEMMA MoeTypes == ASSUME MoeConstants, MoeInv PROVE Moe!TypeOK
<1>1. shape \in Shapes
    BY DEF MoeInv
<1> SUFFICES ASSUME NEW p \in Moe!Cores
             PROVE  /\ pc[p] \in {"routed", "reduce", "gather", "done"}
                    /\ loaded[p] \in 0 .. Moe!Experts(p) /\ computed[p] \in 0 .. loaded[p]
                    /\ DOMAIN slots[p] = 0 .. Moe!PREFETCH_SLOTS - 1
                    /\ \A t \in 0 .. shape.T - 1 : acc[p][t] = Junk \/ Len(acc[p][t]) <= shape.K
                    /\ Len(reduced[p]) \in {0, Moe!FreeBlock(p)[2]}
    BY <1>1 DEF Moe!TypeOK
<1>2. CoreIs(p)
    BY DEF MoeInv
<1>3. /\ pc[p] \in {"routed", "reduce", "gather", "done"}
      /\ loaded[p] \in 0 .. Moe!Experts(p) /\ computed[p] \in 0 .. loaded[p]
    BY <1>2 DEF CoreIs, RingIs, StageIs
<1>4. DOMAIN slots[p] = 0 .. Moe!PREFETCH_SLOTS - 1
    <2>1. slots[p] = [i \in 0 .. Moe!PREFETCH_SLOTS - 1 |-> slots[p][i]]
        BY <1>2 DEF CoreIs, RingIs
    <2> QED BY <2>1
<1>5. ASSUME NEW t \in 0 .. shape.T - 1 PROVE acc[p][t] = Junk \/ Len(acc[p][t]) <= shape.K
    <2>1. acc[p][t] = Junk \/ \E n \in 1 .. shape.K : acc[p][t] = Products(t, n)
        BY <1>2 DEF CoreIs, AccIs
    <2>2. ASSUME NEW n \in 1 .. shape.K PROVE Len(Products(t, n)) = n
        BY <1>1, ShapeFields DEF Products
    <2> QED BY <1>1, <2>1, <2>2, ShapeFields
<1>6. Len(reduced[p]) \in {0, Moe!FreeBlock(p)[2]}
    <2>1. reduced[p] = <<>> \/ (Moe!Running(p) /\ reduced[p] = ReducedIs(p))
        BY <1>2 DEF CoreIs, StageIs
    <2>2. CASE reduced[p] = <<>>
        BY <2>2
    <2>3. CASE Moe!Running(p) /\ reduced[p] = ReducedIs(p)
        BY <1>1, <2>3, BlockInTile DEF ReducedIs
    <2> QED BY <2>1, <2>2, <2>3
<1> QED BY <1>3, <1>4, <1>5, <1>6

\* A whole cell is not what was never written.
LEMMA CellIsWritten ==
    ASSUME MoeConstants, shape \in Shapes, NEW f \in Moe!Cells
    PROVE  Moe!Cell(f) # Junk
<1>1. shape.T \in Nat \ {0} /\ shape.K \in Nat \ {0} /\ shape.prgs \in {1, 2}
    BY ShapeFields
<1>2. Moe!CellToken(f) \in Nat
    <2>1. f \in Nat
        BY <1>1 DEF Moe!Cells
    <2> QED BY <1>1, <2>1 DEF Moe!CellToken
<1>3. Moe!HBlocks \subseteq Nat
    BY <1>1 DEF Moe!HBlocks
<1> DEFINE Prod == (Nat \X Nat) \X SUBSET (Nat \X Nat \X (Nat \X Nat))
<1>4. ASSUME NEW k \in 1 .. shape.K PROVE Moe!Expert(Moe!CellToken(f), k - 1) \in Prod
    <2>1. k - 1 \in Nat
        BY <1>1
    <2> QED BY <1>2, <1>3, <2>1 DEF Moe!Expert
<1>5. [k \in 1 .. shape.K |-> Moe!Expert(Moe!CellToken(f), k - 1)] \in Seq(Prod)
    <2> HIDE DEF Prod
    <2> QED BY <1>1, <1>4
<1>6. {<<s, Moe!CellToken(f)>> : s \in Moe!HBlocks} \in SUBSET (Nat \X Nat)
    BY <1>2, <1>3
<1>7. Moe!Cell(f) \in Moe!CellValue
    BY <1>5, <1>6 DEF Moe!Cell, Moe!CellValue
<1> QED BY <1>7 DEF MoeConstants, Moe!JunkAssumption

\* And the properties.
LEMMA MoeProperties ==
    ASSUME MoeConstants, MoeInv PROVE Moe!RingKeepsUnread /\ Moe!OneValidBlock /\ Moe!TileIsSum
<1>1. shape \in Shapes /\ \A p \in Moe!Cores : CoreIs(p)
    BY DEF MoeInv
<1>2. Moe!RingKeepsUnread
    BY <1>1 DEF Moe!RingKeepsUnread, CoreIs, RingIs
<1>3. Moe!TileIsSum
    BY <1>1 DEF Moe!TileIsSum, CoreIs, StageIs
<1>4. ASSUME NEW p \in Moe!Cores, pc[p] = "reduce"
      PROVE  {f \in Moe!Cells : tile[p][f] # Junk} =
                 Moe!FreeBlock(p)[1] .. Moe!FreeBlock(p)[1] + Moe!FreeBlock(p)[2] - 1
    <2>1. Moe!Running(p)
            /\ tile[p] = [f \in Moe!Cells |-> IF OwnsCell(p, f) THEN Moe!Cell(f) ELSE Junk]
        BY <1>1, <1>4 DEF CoreIs, StageIs
    <2>2. \A f \in Moe!Cells : tile[p][f] # Junk <=> OwnsCell(p, f)
        BY <1>1, <2>1, CellIsWritten
    <2>3. \A f \in Moe!Cells : tile[p][f] # Junk <=>
              f >= Moe!FreeBlock(p)[1] /\ f < Moe!FreeBlock(p)[1] + Moe!FreeBlock(p)[2]
        BY <1>1, <2>1, <2>2, BlockIsOwned
    <2> DEFINE a == Moe!FreeBlock(p)[1]
               b == Moe!FreeBlock(p)[2]
    <2>4. a \in Nat /\ b \in Nat /\ a + b <= shape.T * shape.prgs /\ shape.T * shape.prgs \in Nat
        BY <1>1, <2>1, BlockInTile
    <2>5. \A f : f \in a .. a + b - 1 <=> f \in Moe!Cells /\ f >= a /\ f < a + b
        <3> DEFINE z == shape.T * shape.prgs
        <3>1. Moe!Cells = 0 .. z - 1
            BY DEF Moe!Cells
        <3> HIDE DEF a, b, z
        <3> QED BY <2>4, <3>1 DEF z
    <2> HIDE DEF a, b
    <2>6. \A f : f \in {g \in Moe!Cells : tile[p][g] # Junk} <=> f \in a .. a + b - 1
        BY <2>3, <2>5 DEF a, b
    <2> QED BY <2>6 DEF a, b
<1> QED BY <1>2, <1>3, <1>4 DEF Moe!OneValidBlock

\* A layer starts so.
LEMMA MoeInit == ASSUME MoeConstants, Moe!Init PROVE MoeInv
<1>1. shape \in Shapes
    BY DEF Moe!Init
<1>2. shape.T \in Nat \ {0} /\ shape.K \in Nat \ {0} /\ shape.prgs \in {1, 2}
    BY <1>1, ShapeFields
<1>3. /\ ByCore(pc) /\ ByCore(loaded) /\ ByCore(computed) /\ ByCore(slots) /\ ByCore(part)
      /\ ByCore(acc) /\ ByCore(tile) /\ ByCore(reduced) /\ ByCore(out)
    BY DEF Moe!Init, ByCore
<1>4. ASSUME NEW p \in Moe!Cores PROVE CoreIs(p)
    <2>1. RingIs(p, loaded[p], computed[p], slots[p])
        <3>1. Moe!Experts(p) \in Nat
            BY <1>1, TokensAre
        <3>2. loaded[p] = 0 /\ computed[p] = 0
              /\ slots[p] = [i \in 0 .. Moe!PREFETCH_SLOTS - 1 |-> Junk]
            BY DEF Moe!Init
        <3> QED BY <3>1, <3>2 DEF RingIs
    <2>2. AccIs(p, computed[p], acc[p])
        <3>1. computed[p] = 0 /\ acc[p] = [t \in 0 .. shape.T - 1 |-> Junk]
            BY DEF Moe!Init
        <3>2. ASSUME NEW t \in Moe!Tokens(p), NEW n \in 1 .. shape.K PROVE ~Added(p, t, n, 0)
            <4>1. ExpertBase(p, t) \in Nat
                BY <1>1, BaseBounds
            <4> QED BY <1>2, <4>1 DEF Added
        <3> QED BY <3>1, <3>2 DEF AccIs
    <2>3. PartIs(p, pc[p], loaded[p], computed[p], part[p])
        BY DEF Moe!Init, PartIs
    <2>4. StageIs(p, pc[p], tile[p], reduced[p], out[p])
        <3>1. pc[p] = (IF Moe!Running(p) THEN "routed" ELSE "done") /\ reduced[p] = <<>>
            BY DEF Moe!Init
        <3> QED BY <3>1 DEF StageIs
    <2> QED BY <2>1, <2>2, <2>3, <2>4 DEF CoreIs
<1>5. \A p \in Moe!Cores : computed[Moe!Peer(p)] = computed[p]
    BY MoeCores DEF Moe!Init
<1> QED BY <1>1, <1>3, <1>4, <1>5 DEF MoeInv

\* What is fixed by the launch.
LEMMA MoeFixed ==
    ASSUME shape' = shape, NEW p \in Moe!Cores
    PROVE  /\ Moe!Experts(p)' = Moe!Experts(p) /\ Moe!Tokens(p)' = Moe!Tokens(p)
                /\ Moe!Running(p)' = Moe!Running(p)
           /\ Moe!FreeBlock(p)' = Moe!FreeBlock(p) /\ Moe!ShardOnH' = Moe!ShardOnH
                /\ Moe!Cells' = Moe!Cells
           /\ Moe!Owned(p)' = Moe!Owned(p)
           /\ \A e : /\ Moe!Selected(p, e)' = Moe!Selected(p, e)
                          /\ Moe!ComputeSlot(e)' = Moe!ComputeSlot(e)
                     /\ HalfOf(p, e)' = HalfOf(p, e)
           /\ \A t, n, c : /\ Products(t, n)' = Products(t, n)
                           /\ Added(p, t, n, c)' = Added(p, t, n, c)
           /\ \A f : /\ Moe!Cell(f)' = Moe!Cell(f) /\ OwnsCell(p, f)' = OwnsCell(p, f)
                     /\ Moe!Sum(f)' = Moe!Sum(f)
           /\ ReducedIs(p)' = ReducedIs(p)
<1>1. Moe!ShardOnT' = Moe!ShardOnT /\ Moe!ShardOnH' = Moe!ShardOnH /\ Moe!Cells' = Moe!Cells
        /\ Moe!HBlocks' = Moe!HBlocks
      /\ Moe!Running(p)' = Moe!Running(p)
    BY DEF Moe!ShardOnT, Moe!ShardOnH, Moe!Cells, Moe!HBlocks, Moe!Running
<1>2. Moe!TOffset(p)' = Moe!TOffset(p) /\ Moe!TLen(p)' = Moe!TLen(p)
    BY <1>1 DEF Moe!TOffset, Moe!TLen, Moe!TFirst
<1>3. Moe!Tokens(p)' = Moe!Tokens(p) /\ Moe!Experts(p)' = Moe!Experts(p)
        /\ Moe!Owned(p)' = Moe!Owned(p)
    BY <1>1, <1>2 DEF Moe!Tokens, Moe!Experts, Moe!Owned
<1>4. Moe!FreeBlock(p)' = Moe!FreeBlock(p)
    BY <1>1, <1>2 DEF Moe!FreeBlock
<1>5. ASSUME NEW e
               PROVE /\ Moe!Selected(p, e)' = Moe!Selected(p, e)
                          /\ Moe!ComputeSlot(e)' = Moe!ComputeSlot(e)
                         /\ HalfOf(p, e)' = HalfOf(p, e)
    BY <1>2, <1>3 DEF Moe!Selected, Moe!ComputeSlot, HalfOf
<1>6. ASSUME NEW t, NEW k PROVE Moe!Expert(t, k)' = Moe!Expert(t, k)
    BY <1>1 DEF Moe!Expert
<1>7. ASSUME NEW t, NEW n, NEW c PROVE /\ Products(t, n)' = Products(t, n)
                                       /\ Added(p, t, n, c)' = Added(p, t, n, c)
    BY <1>2, <1>6 DEF Products, Added, ExpertBase
<1>8. ASSUME NEW f PROVE /\ Moe!Cell(f)' = Moe!Cell(f) /\ OwnsCell(p, f)' = OwnsCell(p, f)
                         /\ Moe!Sum(f)' = Moe!Sum(f)
    <2>1. Moe!CellToken(f)' = Moe!CellToken(f) /\ Moe!CellBlock(f)' = Moe!CellBlock(f)
        BY DEF Moe!CellToken, Moe!CellBlock
    <2>2. Moe!Cell(f)' = Moe!Cell(f)
        BY <1>1, <1>6, <2>1 DEF Moe!Cell
    <2> QED BY <1>3, <2>1, <2>2 DEF OwnsCell, Moe!Sum
<1>9. ReducedIs(p)' = ReducedIs(p)
    BY <1>4, <1>8 DEF ReducedIs
<1> QED BY <1>1, <1>3, <1>4, <1>5, <1>7, <1>8, <1>9

\* So each part of the invariant speaks of the same launch after a step.
LEMMA MoeFixedParts ==
    ASSUME shape' = shape, NEW p \in Moe!Cores
    PROVE  /\ \A l, c, ring : RingIs(p, l, c, ring)' = RingIs(p, l, c, ring)
           /\ \A c, sums : AccIs(p, c, sums)' = AccIs(p, c, sums)
           /\ \A at, l, c, half : PartIs(p, at, l, c, half)' = PartIs(p, at, l, c, half)
           /\ \A at, own, sums, whole :
                 StageIs(p, at, own, sums, whole)' = StageIs(p, at, own, sums, whole)
<1>1. ASSUME NEW l, NEW c, NEW ring PROVE RingIs(p, l, c, ring)' = RingIs(p, l, c, ring)
    BY MoeFixed DEF RingIs
<1>2. ASSUME NEW c, NEW sums PROVE AccIs(p, c, sums)' = AccIs(p, c, sums)
    <2>1. Moe!Tokens(p)' = Moe!Tokens(p) /\ \A t, n : Products(t, n)' = Products(t, n)
        BY MoeFixed
    <2>2. \A t, n : Added(p, t, n, c)' = Added(p, t, n, c)
        BY MoeFixed
    <2>3. (\A t \in Moe!Tokens(p) : \A n \in 1 .. shape.K :
              Added(p, t, n, c) => sums[t] = Products(t, n))' =
          (\A t \in Moe!Tokens(p) : \A n \in 1 .. shape.K :
              Added(p, t, n, c) => sums[t] = Products(t, n))
        BY <2>1, <2>2
    <2>4. (\A t \in 0 .. shape.T - 1 :
              sums[t] = Junk \/ \E n \in 1 .. shape.K : sums[t] = Products(t, n))' =
          (\A t \in 0 .. shape.T - 1 :
              sums[t] = Junk \/ \E n \in 1 .. shape.K : sums[t] = Products(t, n))
        BY <2>1
    <2> QED BY <2>3, <2>4 DEF AccIs
<1>3. ASSUME NEW at, NEW l, NEW c, NEW half
      PROVE  PartIs(p, at, l, c, half)' = PartIs(p, at, l, c, half)
    BY MoeFixed DEF PartIs
<1>4. ASSUME NEW at, NEW own, NEW sums, NEW whole
      PROVE  StageIs(p, at, own, sums, whole)' = StageIs(p, at, own, sums, whole)
    BY MoeFixed DEF StageIs
<1> QED BY <1>1, <1>2, <1>3, <1>4

\* What a core has comes ring, sums, waiting part and stage apart.
LEMMA CoreByParts ==
    ASSUME shape' = shape, NEW p \in Moe!Cores,
           RingIs(p, loaded'[p], computed'[p], slots'[p]), AccIs(p, computed'[p], acc'[p]),
           PartIs(p, pc'[p], loaded'[p], computed'[p], part'[p]),
           StageIs(p, pc'[p], tile'[p], reduced'[p], out'[p])
    PROVE  CoreIs(p)'
<1>1. RingIs(p, loaded[p], computed[p], slots[p])' /\ AccIs(p, computed[p], acc[p])'
    BY MoeFixedParts
<1>2. PartIs(p, pc[p], loaded[p], computed[p], part[p])'
      /\ StageIs(p, pc[p], tile[p], reduced[p], out[p])'
    BY MoeFixedParts
<1> QED BY <1>1, <1>2 DEF CoreIs

\* A core that takes no part in a step stays as it is.
SameCore(p) ==
    /\ pc'[p] = pc[p] /\ loaded'[p] = loaded[p] /\ computed'[p] = computed[p]
    /\ slots'[p] = slots[p] /\ part'[p] = part[p] /\ acc'[p] = acc[p]
    /\ tile'[p] = tile[p] /\ reduced'[p] = reduced[p] /\ out'[p] = out[p]

\* A core that a step leaves alone has what it had.
LEMMA CoreStays ==
    ASSUME shape' = shape, NEW p \in Moe!Cores, CoreIs(p), SameCore(p)
    PROVE  CoreIs(p)'
BY CoreByParts DEF CoreIs, SameCore

\* The invariant core by core.
AllByCore ==
    /\ ByCore(pc) /\ ByCore(loaded) /\ ByCore(computed) /\ ByCore(slots) /\ ByCore(part)
    /\ ByCore(acc) /\ ByCore(tile) /\ ByCore(reduced) /\ ByCore(out)

\* And so the whole invariant comes from that of each core.
LEMMA InvByCores ==
    ASSUME MoeInv, shape' = shape, AllByCore', \A p \in Moe!Cores : CoreIs(p)',
           Moe!ShardOnH => \A p \in Moe!Cores : computed'[Moe!Peer(p)] = computed'[p]
    PROVE  MoeInv'
<1>1. Moe!ShardOnH' = Moe!ShardOnH
    BY DEF Moe!ShardOnH, Moe!ShardOnT
<1>2. shape' \in Shapes
    BY DEF MoeInv
<1>3. (\A p \in Moe!Cores : CoreIs(p))'
    OBVIOUS
<1>4. (Moe!ShardOnH => \A p \in Moe!Cores : computed[Moe!Peer(p)] = computed[p])'
    BY <1>1
<1> QED BY <1>2, <1>3, <1>4 DEF MoeInv, AllByCore

\* A load never meets a slot whose expert has not been computed.
LEMMA LoadStep ==
    ASSUME MoeConstants, MoeInv, NEW p \in Moe!Cores, Moe!Load(p)
    PROVE  MoeInv'
<1> DEFINE e == loaded[p]
<1>1. /\ shape \in Shapes /\ shape' = shape /\ pc[p] = "routed" /\ e < Moe!Experts(p)
      /\ \A m \in computed[p] .. Moe!Experts(p) - 1 :
              Moe!ComputeSlot(m) = Moe!PrefetchSlot(e) => Moe!IssuedBefore(e, m)
      /\ slots' = [slots EXCEPT ![p][Moe!PrefetchSlot(e)] = Moe!Selected(p, e)]
      /\ loaded' = [loaded EXCEPT ![p] = e + 1]
      /\ UNCHANGED <<pc, computed, part, acc, tile, reduced, out>>
    BY DEF Moe!Load, MoeInv
<1>2. AllByCore /\ \A q \in Moe!Cores : CoreIs(q)
    BY DEF MoeInv, AllByCore
<1>3. AllByCore'
    <2>1. ByCore(slots)' /\ ByCore(loaded)'
        BY <1>1, <1>2 DEF AllByCore, ByCore
    <2> QED BY <1>1, <1>2, <2>1 DEF AllByCore, ByCore
<1>4. ASSUME NEW q \in Moe!Cores, q # p PROVE CoreIs(q)'
    <2>1. slots'[q] = slots[q] /\ loaded'[q] = loaded[q]
        BY <1>1, <1>2, <1>4 DEF AllByCore, ByCore
    <2>2. SameCore(q)
        BY <1>1, <2>1 DEF SameCore
    <2> QED BY <1>1, <1>2, <2>2, CoreStays
<1>5. CoreIs(p)'
    <2>1. /\ RingIs(p, e, computed[p], slots[p]) /\ AccIs(p, computed[p], acc[p])
          /\ PartIs(p, pc[p], e, computed[p], part[p])
          /\ StageIs(p, pc[p], tile[p], reduced[p], out[p])
        BY <1>2 DEF CoreIs
    <2>2. Moe!Experts(p) \in Nat /\ e \in Nat /\ computed[p] \in 0 .. e
            /\ e \in 0 .. Moe!Experts(p) - 1
        BY <1>1, <2>1, TokensAre DEF RingIs
    <2> DEFINE new == [slots[p] EXCEPT ![Moe!PrefetchSlot(e)] = Moe!Selected(p, e)]
    <2>3. loaded'[p] = e + 1 /\ slots'[p] = new
        BY <1>1, <1>2 DEF AllByCore, ByCore
    <2>4. Moe!PrefetchSlot(e) = Moe!ComputeSlot(e)
            /\ Moe!ComputeSlot(e) \in 0 .. Moe!PREFETCH_SLOTS - 1
        BY <1>1, <2>2, SlotIs
    <2>5. slots[p] = [i \in 0 .. Moe!PREFETCH_SLOTS - 1 |-> slots[p][i]]
        BY <2>1 DEF RingIs
    <2>6. new = [i \in 0 .. Moe!PREFETCH_SLOTS - 1 |-> new[i]]
        BY <2>5
    <2>7. ASSUME NEW m \in computed[p] .. e PROVE new[Moe!ComputeSlot(m)] = Moe!Selected(p, m)
        <3>1. m \in Nat /\ Moe!ComputeSlot(m) \in 0 .. Moe!PREFETCH_SLOTS - 1
            BY <1>1, <2>2, SlotIs
        <3>2. CASE m = e
            BY <2>4, <2>5, <3>2
        <3>3. CASE m # e
            <4>1. m \in computed[p] .. e - 1 /\ m \in computed[p] .. Moe!Experts(p) - 1
                BY <2>2, <3>1, <3>3
            <4>2. slots[p][Moe!ComputeSlot(m)] = Moe!Selected(p, m)
                BY <2>1, <4>1 DEF RingIs
            <4>3. Moe!ComputeSlot(m) # Moe!PrefetchSlot(e)
                <5> SUFFICES ASSUME Moe!ComputeSlot(m) = Moe!PrefetchSlot(e) PROVE FALSE
                    OBVIOUS
                <5>1. Moe!IssuedBefore(e, m)
                    BY <1>1, <4>1
                <5>2. m = e - 1 /\ e % shape.K # 0
                    BY <2>2, <3>1, <4>1, <5>1 DEF Moe!IssuedBefore
                <5>3. e \in Nat \ {0}
                    BY <2>2, <3>1, <5>2
                <5> QED BY <1>1, <5>2, <5>3, ExpertBefore
            <4> QED BY <2>4, <2>5, <3>1, <4>2, <4>3
        <3> QED BY <3>2, <3>3
    <2> HIDE DEF new
    <2>8. RingIs(p, e + 1, computed[p], new)
        <3>1. e + 1 \in 0 .. Moe!Experts(p) /\ computed[p] \in 0 .. e + 1
              /\ computed[p] .. (e + 1) - 1 = computed[p] .. e
            BY <2>2
        <3> HIDE DEF e
        <3> QED BY <2>6, <2>7, <3>1 DEF RingIs
    <2>9. PartIs(p, pc[p], e + 1, computed[p], part[p])
        BY <2>1, <2>2 DEF PartIs
    <2> QED BY <1>1, <2>1, <2>3, <2>8, <2>9, CoreByParts
<1>6. Moe!ShardOnH => \A q \in Moe!Cores : computed'[Moe!Peer(q)] = computed'[q]
    BY <1>1 DEF MoeInv
<1> QED BY <1>1, <1>3, <1>4, <1>5, <1>6, InvByCores

\* The expert a core may contract is there.
LEMMA ReadyHas ==
    ASSUME MoeConstants, MoeInv, NEW p \in Moe!Cores, Moe!Ready(p)
    PROVE  /\ pc[p] = "routed" /\ part[p] = {} /\ computed[p] \in 0 .. Moe!Experts(p) - 1
           /\ computed[p] < loaded[p] /\ Moe!Weights(p) = Moe!Selected(p, computed[p])
           /\ Moe!HalfProduct(p) = HalfOf(p, computed[p])
<1> DEFINE m == computed[p]
<1>1. shape \in Shapes /\ RingIs(p, loaded[p], m, slots[p])
    BY DEF MoeInv, CoreIs
<1>2. /\ pc[p] = "routed" /\ m < Moe!Experts(p) /\ part[p] = {}
      /\ \A e \in loaded[p] .. Moe!Experts(p) - 1 :
              Moe!PrefetchSlot(e) = Moe!ComputeSlot(m) => ~Moe!IssuedBefore(e, m)
    BY DEF Moe!Ready
<1>3. Moe!Experts(p) \in Nat /\ loaded[p] \in Nat /\ m \in 0 .. loaded[p] /\ m \in Nat
    BY <1>1, TokensAre DEF RingIs
<1>4. m < loaded[p]
    <2> SUFFICES ASSUME m >= loaded[p] PROVE FALSE
        BY <1>3
    <2>1. m \in loaded[p] .. Moe!Experts(p) - 1
        BY <1>2, <1>3
    <2>2. Moe!IssuedBefore(m, m)
        BY <1>3 DEF Moe!IssuedBefore
    <2>3. Moe!PrefetchSlot(m) = Moe!ComputeSlot(m)
        BY <1>1, <1>3, SlotIs
    <2> QED BY <1>2, <2>1, <2>2, <2>3
<1>5. Moe!Weights(p) = Moe!Selected(p, m)
    <2>1. m \in m .. loaded[p] - 1
        BY <1>3, <1>4
    <2> QED BY <1>1, <2>1 DEF RingIs, Moe!Weights
<1>6. Moe!HalfProduct(p) = HalfOf(p, m)
    BY <1>5 DEF Moe!HalfProduct, HalfOf
<1> QED BY <1>2, <1>3, <1>4, <1>5, <1>6

\* One product more.
LEMMA ProductsNext ==
    ASSUME NEW t, NEW k \in Nat
    PROVE  /\ k = 0 => <<Moe!Expert(t, k)>> = Products(t, k + 1)
           /\ k # 0 => Append(Products(t, k), Moe!Expert(t, k)) = Products(t, k + 1)
<1>1. ASSUME k = 0 PROVE <<Moe!Expert(t, k)>> = Products(t, k + 1)
    BY <1>1 DEF Products
<1>2. ASSUME k # 0 PROVE Append(Products(t, k), Moe!Expert(t, k)) = Products(t, k + 1)
    <2> DEFINE s == [i \in 1 .. k |-> Moe!Expert(t, i - 1)]
               w == [i \in 1 .. k + 1 |-> Moe!Expert(t, i - 1)]
    <2>1. Len(s) = k /\ Append(s, Moe!Expert(t, k)) =
              [i \in 1 .. k + 1 |-> IF i = k + 1 THEN Moe!Expert(t, k) ELSE s[i]]
        OBVIOUS
    <2>2. \A i \in 1 .. k + 1 : (IF i = k + 1 THEN Moe!Expert(t, k) ELSE s[i]) = w[i]
        <3>1. (k + 1) - 1 = k
            OBVIOUS
        <3>2. \A i \in 1 .. k + 1 : i # k + 1 => i \in 1 .. k
            OBVIOUS
        <3> QED BY <3>1, <3>2
    <2> QED BY <2>1, <2>2 DEF Products
<1> QED BY <1>1, <1>2

\* The sums after one expert more.
LEMMA AddExpert ==
    ASSUME MoeConstants, shape \in Shapes, NEW p \in Moe!Cores, NEW c \in 0 .. Moe!Experts(p) - 1,
           NEW sums, AccIs(p, c, sums), NEW t \in Moe!Tokens(p), NEW k \in 0 .. shape.K - 1,
           c = ExpertBase(p, t) + k, c % shape.K = k
    PROVE  AccIs(p, c + 1, [sums EXCEPT ![t] =
               IF c % shape.K = 0 THEN <<Moe!Expert(t, k)>> ELSE Append(sums[t], Moe!Expert(t, k))])
<1>1. shape.K \in Nat \ {0} /\ k \in Nat /\ k + 1 \in 1 .. shape.K /\ c \in Nat
    BY ShapeFields
<1>2. Moe!Tokens(p) \subseteq 0 .. shape.T - 1
    BY TokensAre
<1>3. sums = [u \in 0 .. shape.T - 1 |-> sums[u]]
    BY DEF AccIs
<1> DEFINE more == IF c % shape.K = 0 THEN <<Moe!Expert(t, k)>>
             ELSE Append(sums[t], Moe!Expert(t, k))
           new == [sums EXCEPT ![t] = more]
<1>4. more = Products(t, k + 1)
    <2>1. CASE k = 0
        BY <1>1, <2>1, ProductsNext
    <2>2. CASE k # 0
        <3>1. k \in 1 .. shape.K /\ Added(p, t, k, c)
            BY <1>1, <2>2 DEF Added
        <3>2. sums[t] = Products(t, k)
            BY <3>1 DEF AccIs
        <3> QED BY <1>1, <2>2, <3>2, ProductsNext
    <2> QED BY <2>1, <2>2
<1>5. new = [u \in 0 .. shape.T - 1 |-> new[u]]
    BY <1>3
<1>6. new[t] = Products(t, k + 1) /\ \A u \in 0 .. shape.T - 1 : u # t => new[u] = sums[u]
    BY <1>2, <1>3, <1>4
<1> HIDE DEF more, new
<1>7. \A u \in 0 .. shape.T - 1 : new[u] = Junk \/ \E n \in 1 .. shape.K : new[u] = Products(u, n)
    BY <1>1, <1>6 DEF AccIs
<1>8. ASSUME NEW u \in Moe!Tokens(p), NEW n \in 1 .. shape.K, Added(p, u, n, c + 1)
      PROVE  new[u] = Products(u, n)
    <2>1. ExpertBase(p, u) \in Nat /\ ExpertBase(p, t) \in Nat
        BY BaseBounds
    <2>2. CASE u = t
        <3>1. n = k + 1
            BY <1>1, <1>8, <2>1, <2>2 DEF Added
        <3> QED BY <1>6, <2>2, <3>1
    <2>3. CASE u # t
        <3>1. c + 1 # ExpertBase(p, u) + n
            <4> SUFFICES ASSUME c + 1 = ExpertBase(p, u) + n PROVE FALSE
                OBVIOUS
            <4>1. n - 1 \in 0 .. shape.K - 1 /\ ExpertBase(p, t) + k = ExpertBase(p, u) + (n - 1)
                BY <1>1, <2>1
            <4> QED BY <2>3, <4>1, BasesApart
        <3>2. n = shape.K /\ c >= ExpertBase(p, u) + n
            <4> PICK b \in Nat : b = ExpertBase(p, u)
                BY <2>1
            <4>1. c + 1 = b + n \/ (n = shape.K /\ c + 1 >= b + n)
                BY <1>8 DEF Added
            <4> QED BY <1>1, <3>1, <4>1
        <3>3. Added(p, u, n, c)
            BY <3>2 DEF Added
        <3>4. sums[u] = Products(u, n)
            BY <3>3 DEF AccIs
        <3> QED BY <1>2, <1>6, <2>3, <3>4
    <2> QED BY <2>2, <2>3
<1>9. AccIs(p, c + 1, new)
    BY <1>5, <1>7, <1>8 DEF AccIs
<1> QED BY <1>9 DEF new, more

\* What is added for an expert is its whole product.
LEMMA WholeProduct ==
    ASSUME MoeConstants, shape \in Shapes, NEW p \in Moe!Cores, NEW c, NEW t, NEW k,
           Moe!Selected(p, c) = <<t, k>>
    PROVE  /\ ~Moe!ShardOnH => <<Moe!Selected(p, c), HalfOf(p, c)>> = Moe!Expert(t, k)
           /\ Moe!ShardOnH
                => <<Moe!Selected(p, c),
                  HalfOf(p, c) \cup HalfOf(Moe!Peer(p), c)>> = Moe!Expert(t, k)
<1>1. ASSUME ~Moe!ShardOnH PROVE <<Moe!Selected(p, c), HalfOf(p, c)>> = Moe!Expert(t, k)
    BY <1>1 DEF HalfOf, Moe!Expert, Moe!Owned
<1>2. ASSUME Moe!ShardOnH
               PROVE <<Moe!Selected(p, c),
                       HalfOf(p, c) \cup HalfOf(Moe!Peer(p), c)>> = Moe!Expert(t, k)
    <2>1. Moe!Selected(Moe!Peer(p), c) = Moe!Selected(p, c)
        BY <1>2, MoeWays DEF Moe!Selected, Moe!TOffset
    <2>2. /\ HalfOf(p, c) = {<<s, t, <<t, k>>>> : s \in {Moe!Prg(p)}}
          /\ HalfOf(Moe!Peer(p), c) = {<<s, t, <<t, k>>>> : s \in {1 - Moe!Prg(p)}}
        <3>1. Moe!Owned(p) = {Moe!Prg(p)} /\ Moe!Owned(Moe!Peer(p)) = {1 - Moe!Prg(p)}
            BY <1>2, MoeCores DEF Moe!Owned
        <3> QED BY <2>1, <3>1 DEF HalfOf
    <2>3. Moe!HBlocks = {Moe!Prg(p), 1 - Moe!Prg(p)}
        BY <1>2, MoeWays, MoeCores DEF Moe!HBlocks
    <2> QED BY <2>2, <2>3 DEF Moe!Expert
<1> QED BY <1>1, <1>2

\* The expert loop of a core that contracts the whole hidden dimension.
LEMMA ComputeStep ==
    ASSUME MoeConstants, MoeInv, NEW p \in Moe!Cores, Moe!Compute(p)
    PROVE  MoeInv'
<1> DEFINE c == computed[p]
<1>1. /\ shape \in Shapes /\ shape' = shape /\ Moe!Ready(p) /\ ~Moe!ShardOnH
      /\ acc' = [acc EXCEPT ![p][Moe!Selected(p, c)[1]] =
                    Moe!Accumulated(p, <<Moe!Weights(p), Moe!HalfProduct(p)>>)]
      /\ computed' = [computed EXCEPT ![p] = c + 1]
      /\ UNCHANGED <<pc, loaded, slots, part, tile, reduced, out>>
    BY DEF Moe!Compute, Moe!NextExpert, MoeInv
<1>2. AllByCore /\ \A q \in Moe!Cores : CoreIs(q)
    BY DEF MoeInv, AllByCore
<1>3. AllByCore'
    <2>1. ByCore(acc)' /\ ByCore(computed)'
        BY <1>1, <1>2 DEF AllByCore, ByCore
    <2> QED BY <1>1, <1>2, <2>1 DEF AllByCore, ByCore
<1>4. ASSUME NEW q \in Moe!Cores, q # p PROVE CoreIs(q)'
    <2>1. acc'[q] = acc[q] /\ computed'[q] = computed[q]
        BY <1>1, <1>2, <1>4 DEF AllByCore, ByCore
    <2>2. SameCore(q)
        BY <1>1, <2>1 DEF SameCore
    <2> QED BY <1>1, <1>2, <2>2, CoreStays
<1>5. CoreIs(p)'
    <2>1. /\ RingIs(p, loaded[p], c, slots[p]) /\ AccIs(p, c, acc[p])
          /\ PartIs(p, pc[p], loaded[p], c, part[p])
          /\ StageIs(p, pc[p], tile[p], reduced[p], out[p])
        BY <1>2 DEF CoreIs
    <2>2. /\ part[p] = {} /\ c \in 0 .. Moe!Experts(p) - 1 /\ c < loaded[p]
          /\ Moe!Weights(p) = Moe!Selected(p, c) /\ Moe!HalfProduct(p) = HalfOf(p, c)
        BY <1>1, ReadyHas
    <2> PICK t \in Moe!Tokens(p), k \in 0 .. shape.K - 1 :
            Moe!Selected(p, c) = <<t, k>> /\ c = ExpertBase(p, t) + k /\ c % shape.K = k
        BY <1>1, <2>2, SelectedIs
    <2>3. <<Moe!Weights(p), Moe!HalfProduct(p)>> = Moe!Expert(t, k)
        BY <1>1, <2>2, WholeProduct
    <2> DEFINE more == IF c % shape.K = 0 THEN <<Moe!Expert(t, k)>>
                 ELSE Append(acc[p][t], Moe!Expert(t, k))
               new == [acc[p] EXCEPT ![t] = more]
    <2>4. Moe!Accumulated(p, <<Moe!Weights(p), Moe!HalfProduct(p)>>) = more
            /\ Moe!Selected(p, c)[1] = t
        BY <2>3 DEF Moe!Accumulated
    <2>5. acc'[p] = new /\ computed'[p] = c + 1
        <3> HIDE DEF c, more
        <3> QED BY <1>1, <1>2, <2>4 DEF AllByCore, ByCore, c
    <2>6. AccIs(p, c + 1, new)
        BY <1>1, <2>1, <2>2, AddExpert
    <2> HIDE DEF new
    <2>7. RingIs(p, loaded[p], c + 1, slots[p])
        <3>1. loaded[p] \in 0 .. Moe!Experts(p) /\ Moe!Experts(p) \in Nat
            BY <1>1, <2>1, TokensAre DEF RingIs
        <3>2. c + 1 \in 0 .. loaded[p] /\ (c + 1) .. loaded[p] - 1 \subseteq c .. loaded[p] - 1
            BY <2>2, <3>1
        <3> HIDE DEF c
        <3> QED BY <2>1, <3>1, <3>2 DEF RingIs
    <2>8. PartIs(p, pc[p], loaded[p], c + 1, part[p])
        BY <2>2 DEF PartIs
    <2> QED BY <1>1, <2>1, <2>5, <2>6, <2>7, <2>8, CoreByParts
<1> QED BY <1>1, <1>3, <1>4, <1>5, InvByCores

\* A core contracts its half.
LEMMA ContractStep ==
    ASSUME MoeConstants, MoeInv, NEW p \in Moe!Cores, Moe!ContractHalf(p)
    PROVE  MoeInv'
<1>1. /\ shape' = shape /\ Moe!Ready(p) /\ Moe!ShardOnH
      /\ part' = [part EXCEPT ![p] = Moe!HalfProduct(p)]
      /\ UNCHANGED <<pc, loaded, computed, slots, acc, tile, reduced, out>>
    BY DEF Moe!ContractHalf
<1>2. AllByCore /\ \A q \in Moe!Cores : CoreIs(q)
    BY DEF MoeInv, AllByCore
<1>3. AllByCore'
    <2>1. ByCore(part)'
        BY <1>1, <1>2 DEF AllByCore, ByCore
    <2> QED BY <1>1, <1>2, <2>1 DEF AllByCore, ByCore
<1>4. ASSUME NEW q \in Moe!Cores, q # p PROVE CoreIs(q)'
    <2>1. part'[q] = part[q]
        BY <1>1, <1>2, <1>4 DEF AllByCore, ByCore
    <2>2. SameCore(q)
        BY <1>1, <2>1 DEF SameCore
    <2> QED BY <1>1, <1>2, <2>2, CoreStays
<1>5. CoreIs(p)'
    <2>1. part'[p] = HalfOf(p, computed[p]) /\ pc[p] = "routed" /\ computed[p] < loaded[p]
        BY <1>1, <1>2, ReadyHas DEF AllByCore, ByCore
    <2>2. PartIs(p, pc[p], loaded[p], computed[p], part'[p])
        BY <1>1, <2>1 DEF PartIs
    <2> QED BY <1>1, <1>2, <2>2, CoreByParts DEF CoreIs
<1>6. Moe!ShardOnH => \A q \in Moe!Cores : computed'[Moe!Peer(q)] = computed'[q]
    BY <1>1 DEF MoeInv
<1> QED BY <1>1, <1>3, <1>4, <1>5, <1>6, InvByCores

\* The halves meet.
LEMMA ExchangeStep ==
    ASSUME MoeConstants, MoeInv, NEW r \in Moe!Ranks, Moe!ExchangeHalves(r)
    PROVE  MoeInv'
<1> DEFINE both == {<<r, 0>>, <<r, 1>>}
           added(p) == Moe!Accumulated(p, <<Moe!Weights(p), part[p] \cup part[Moe!Peer(p)]>>)
<1>1. /\ shape \in Shapes /\ shape' = shape /\ \A p \in both : pc[p] = "routed" /\ part[p] # {}
      /\ acc' = [p \in Moe!Cores |->
                    IF p \in both THEN [acc[p] EXCEPT ![Moe!Selected(p, computed[p])[1]] = added(p)]
                    ELSE acc[p]]
      /\ computed' = [p \in Moe!Cores |-> IF p \in both THEN computed[p] + 1 ELSE computed[p]]
      /\ part' = [p \in Moe!Cores |-> IF p \in both THEN {} ELSE part[p]]
      /\ UNCHANGED <<pc, loaded, slots, tile, reduced, out>>
    BY DEF Moe!ExchangeHalves, Moe!NextExpert, MoeInv
<1>2. AllByCore /\ \A q \in Moe!Cores : CoreIs(q)
    BY DEF MoeInv, AllByCore
<1>3. AllByCore'
    <2>1. ByCore(acc)' /\ ByCore(computed)' /\ ByCore(part)'
        BY <1>1 DEF ByCore
    <2> QED BY <1>1, <1>2, <2>1 DEF AllByCore, ByCore
<1>4. both \subseteq Moe!Cores /\ \A p \in Moe!Cores : p \in both <=> Moe!Peer(p) \in both
    BY DEF Moe!Cores, Moe!Peer, Moe!Prg
<1>5. ASSUME NEW q \in Moe!Cores, q \notin both PROVE CoreIs(q)'
    <2>1. acc'[q] = acc[q] /\ computed'[q] = computed[q] /\ part'[q] = part[q]
        BY <1>1, <1>5
    <2>2. SameCore(q)
        BY <1>1, <2>1 DEF SameCore
    <2> QED BY <1>1, <1>2, <2>2, CoreStays
<1>6. ASSUME NEW p \in both PROVE CoreIs(p)'
    <2> DEFINE c == computed[p]
    <2>1. p \in Moe!Cores /\ Moe!Peer(p) \in both /\ Moe!Peer(p) \in Moe!Cores
        BY <1>4
    <2>2. /\ RingIs(p, loaded[p], c, slots[p]) /\ AccIs(p, c, acc[p])
          /\ PartIs(p, pc[p], loaded[p], c, part[p])
          /\ StageIs(p, pc[p], tile[p], reduced[p], out[p])
          /\ PartIs(Moe!Peer(p), pc[Moe!Peer(p)], loaded[Moe!Peer(p)], computed[Moe!Peer(p)],
               part[Moe!Peer(p)])
        BY <1>2, <2>1 DEF CoreIs
    <2>3. part[p] # {} /\ part[Moe!Peer(p)] # {}
        BY <1>1, <2>1
    <2>4. Moe!ShardOnH /\ c < loaded[p] /\ part[p] = HalfOf(p, c)
          /\ part[Moe!Peer(p)] = HalfOf(Moe!Peer(p), computed[Moe!Peer(p)])
        BY <2>2, <2>3 DEF PartIs
    <2>5. computed[Moe!Peer(p)] = c
        BY <2>1, <2>4 DEF MoeInv
    <2>6. Moe!Experts(p) \in Nat /\ loaded[p] \in 0 .. Moe!Experts(p) /\ c \in 0 .. loaded[p]
        BY <1>1, <2>1, <2>2, TokensAre DEF RingIs
    <2>7. c \in 0 .. Moe!Experts(p) - 1 /\ c \in c .. loaded[p] - 1 /\ c + 1 \in 0 .. loaded[p]
          /\ (c + 1) .. loaded[p] - 1 \subseteq c .. loaded[p] - 1
        BY <2>4, <2>6
    <2>8. Moe!Weights(p) = Moe!Selected(p, c)
        BY <2>2, <2>7 DEF RingIs, Moe!Weights
    <2> PICK t \in Moe!Tokens(p), k \in 0 .. shape.K - 1 :
            Moe!Selected(p, c) = <<t, k>> /\ c = ExpertBase(p, t) + k /\ c % shape.K = k
        BY <1>1, <2>1, <2>7, SelectedIs
    <2>9. <<Moe!Weights(p), part[p] \cup part[Moe!Peer(p)]>> = Moe!Expert(t, k)
        BY <1>1, <2>1, <2>4, <2>5, <2>8, WholeProduct
    <2> DEFINE more == IF c % shape.K = 0 THEN <<Moe!Expert(t, k)>>
                 ELSE Append(acc[p][t], Moe!Expert(t, k))
               new == [acc[p] EXCEPT ![t] = more]
    <2>10. added(p) = more /\ Moe!Selected(p, c)[1] = t
        <3>1. Moe!Selected(p, c)[1] = t
            OBVIOUS
        <3>2. added(p) = Moe!Accumulated(p, Moe!Expert(t, k))
            BY <2>9
        <3> QED BY <3>1, <3>2 DEF Moe!Accumulated
    <2>11. acc'[p] = new /\ computed'[p] = c + 1 /\ part'[p] = {}
        <3> HIDE DEF more, added, both
        <3> QED BY <1>1, <2>1, <2>10
    <2>12. AccIs(p, c + 1, new)
        BY <1>1, <2>1, <2>2, <2>7, AddExpert
    <2> HIDE DEF new
    <2>13. RingIs(p, loaded[p], c + 1, slots[p])
        <3> HIDE DEF c
        <3> QED BY <2>2, <2>6, <2>7 DEF RingIs
    <2>14. PartIs(p, pc[p], loaded[p], c + 1, {})
        BY DEF PartIs
    <2> QED BY <1>1, <2>1, <2>2, <2>11, <2>12, <2>13, <2>14, CoreByParts
<1>7. Moe!ShardOnH => \A q \in Moe!Cores : computed'[Moe!Peer(q)] = computed'[q]
    <2> SUFFICES ASSUME Moe!ShardOnH, NEW q \in Moe!Cores
                          PROVE computed'[Moe!Peer(q)] = computed'[q]
        OBVIOUS
    <2>1. computed[Moe!Peer(q)] = computed[q] /\ Moe!Peer(q) \in Moe!Cores
            /\ (Moe!Peer(q) \in both <=> q \in both)
        BY <1>4, MoeCores DEF MoeInv
    <2> HIDE DEF both
    <2> QED BY <1>1, <2>1
<1> QED BY <1>1, <1>3, <1>5, <1>6, <1>7, InvByCores

\* The part of the tile a core combines.
OwnTile(p) == [f \in Moe!Cells |-> IF OwnsCell(p, f) THEN Moe!Cell(f) ELSE Junk]

\* After its last expert and the shared one, with the product of every hidden
\* half, a core has its own part of the tile and nothing of the rest.
LEMMA CombinedIs ==
    ASSUME MoeConstants, shape \in Shapes, NEW p \in Moe!Cores, AccIs(p, Moe!Experts(p), acc[p]),
           NEW product,
           \A t \in Moe!Tokens(p) : {x \in product : x[2] = t} = {<<s, t>> : s \in Moe!HBlocks}
    PROVE  Moe!Combined(p, product) = OwnTile(p)
<1>1. shape.K \in Nat \ {0} /\ Moe!Experts(p) \in Nat
    BY ShapeFields, TokensAre
<1>2. ASSUME NEW f \in Moe!Cells, OwnsCell(p, f)
      PROVE  <<acc[p][Moe!CellToken(f)], {x \in product : x[2] = Moe!CellToken(f)}>> = Moe!Cell(f)
    <2> DEFINE t == Moe!CellToken(f)
    <2>1. t \in Moe!Tokens(p)
        BY <1>2 DEF OwnsCell
    <2>2. ExpertBase(p, t) \in Nat /\ ExpertBase(p, t) + shape.K <= Moe!Experts(p)
        BY <2>1, BaseBounds
    <2>3. shape.K \in 1 .. shape.K /\ Added(p, t, shape.K, Moe!Experts(p))
        BY <1>1, <2>2 DEF Added
    <2>4. acc[p][t] = Products(t, shape.K)
        BY <2>1, <2>3 DEF AccIs
    <2>5. {x \in product : x[2] = t} = {<<s, t>> : s \in Moe!HBlocks}
        BY <2>1
    <2> QED BY <2>4, <2>5 DEF Moe!Cell, Products
<1> QED BY <1>2 DEF Moe!Combined, OwnTile, OwnsCell

\* A core with its part of the layer's output.
LEMMA ReduceNext ==
    ASSUME MoeConstants, MoeInv, shape' = shape, NEW p \in Moe!Cores, Moe!RoutedDone(p),
           pc'[p] = "reduce", tile'[p] = OwnTile(p), loaded'[p] = loaded[p],
           computed'[p] = computed[p], slots'[p] = slots[p], part'[p] = part[p],
           acc'[p] = acc[p], reduced'[p] = reduced[p], out'[p] = out[p]
    PROVE  CoreIs(p)'
<1>1. /\ RingIs(p, loaded[p], computed[p], slots[p]) /\ AccIs(p, computed[p], acc[p])
      /\ PartIs(p, pc[p], loaded[p], computed[p], part[p])
      /\ StageIs(p, pc[p], tile[p], reduced[p], out[p]) /\ shape \in Shapes
    BY DEF MoeInv, CoreIs
<1>2. pc[p] = "routed" /\ computed[p] = Moe!Experts(p)
    BY DEF Moe!RoutedDone
<1>3. part[p] = {}
    <2>1. Moe!Experts(p) \in Nat /\ loaded[p] \in 0 .. Moe!Experts(p)
        BY <1>1, TokensAre DEF RingIs
    <2>2. ~(computed[p] < loaded[p])
        BY <1>2, <2>1
    <2> QED BY <1>1, <2>2 DEF PartIs
<1>4. PartIs(p, "reduce", loaded[p], computed[p], part[p])
    BY <1>3 DEF PartIs
<1>5. StageIs(p, "reduce", OwnTile(p), reduced[p], out[p])
    BY <1>1, <1>2 DEF StageIs, OwnTile
<1> QED BY <1>1, <1>4, <1>5, CoreByParts

\* The shared expert of a core that contracts the whole hidden dimension.
LEMMA SharedStep ==
    ASSUME MoeConstants, MoeInv, NEW p \in Moe!Cores, Moe!SharedExpert(p)
    PROVE  MoeInv'
<1>1. /\ shape \in Shapes /\ shape' = shape /\ Moe!RoutedDone(p) /\ ~Moe!ShardOnH
      /\ tile' = [tile EXCEPT ![p] = Moe!Combined(p, Moe!SharedHalf(p))]
      /\ pc' = [pc EXCEPT ![p] = "reduce"]
      /\ UNCHANGED <<loaded, computed, slots, part, acc, reduced, out>>
    BY DEF Moe!SharedExpert, MoeInv
<1>2. AllByCore /\ \A q \in Moe!Cores : CoreIs(q)
    BY DEF MoeInv, AllByCore
<1>3. AllByCore'
    <2>1. ByCore(tile)' /\ ByCore(pc)'
        BY <1>1, <1>2 DEF AllByCore, ByCore
    <2> QED BY <1>1, <1>2, <2>1 DEF AllByCore, ByCore
<1>4. ASSUME NEW q \in Moe!Cores, q # p PROVE CoreIs(q)'
    <2>1. tile'[q] = tile[q] /\ pc'[q] = pc[q]
        BY <1>1, <1>2, <1>4 DEF AllByCore, ByCore
    <2>2. SameCore(q)
        BY <1>1, <2>1 DEF SameCore
    <2> QED BY <1>1, <1>2, <2>2, CoreStays
<1>5. Moe!Combined(p, Moe!SharedHalf(p)) = OwnTile(p)
    <2>1. AccIs(p, Moe!Experts(p), acc[p])
        BY <1>1, <1>2 DEF CoreIs, Moe!RoutedDone
    <2>2. ASSUME NEW t \in Moe!Tokens(p)
          PROVE  {x \in Moe!SharedHalf(p) : x[2] = t} = {<<s, t>> : s \in Moe!HBlocks}
        BY <1>1 DEF Moe!SharedHalf, Moe!Owned
    <2> QED BY <1>1, <2>1, <2>2, CombinedIs
<1>6. CoreIs(p)'
    <2>1. tile'[p] = OwnTile(p) /\ pc'[p] = "reduce"
        BY <1>1, <1>2, <1>5 DEF AllByCore, ByCore
    <2> QED BY <1>1, <2>1, ReduceNext
<1> QED BY <1>1, <1>3, <1>4, <1>6, InvByCores

\* The shared expert of a rank whose cores contract a half each.
LEMMA ExchangeSharedStep ==
    ASSUME MoeConstants, MoeInv, NEW r \in Moe!Ranks, Moe!ExchangeShared(r)
    PROVE  MoeInv'
<1> DEFINE both == {<<r, 0>>, <<r, 1>>}
<1>1. /\ shape \in Shapes /\ shape' = shape /\ Moe!ShardOnH /\ \A p \in both : Moe!RoutedDone(p)
      /\ tile' = [p \in Moe!Cores |->
                     IF p \in both
                       THEN Moe!Combined(p, Moe!SharedHalf(p) \cup Moe!SharedHalf(Moe!Peer(p)))
                     ELSE tile[p]]
      /\ pc' = [p \in Moe!Cores |-> IF p \in both THEN "reduce" ELSE pc[p]]
      /\ UNCHANGED <<loaded, computed, slots, part, acc, reduced, out>>
    BY DEF Moe!ExchangeShared, MoeInv
<1>2. AllByCore /\ \A q \in Moe!Cores : CoreIs(q)
    BY DEF MoeInv, AllByCore
<1>3. AllByCore'
    <2>1. ByCore(tile)' /\ ByCore(pc)'
        BY <1>1 DEF ByCore
    <2> QED BY <1>1, <1>2, <2>1 DEF AllByCore, ByCore
<1>4. both \subseteq Moe!Cores
    BY DEF Moe!Cores
<1>5. ASSUME NEW q \in Moe!Cores, q \notin both PROVE CoreIs(q)'
    <2>1. tile'[q] = tile[q] /\ pc'[q] = pc[q]
        BY <1>1, <1>5
    <2>2. SameCore(q)
        BY <1>1, <2>1 DEF SameCore
    <2> QED BY <1>1, <1>2, <2>2, CoreStays
<1>6. ASSUME NEW p \in both PROVE CoreIs(p)'
    <2>1. p \in Moe!Cores
        BY <1>4
    <2>2. AccIs(p, Moe!Experts(p), acc[p])
        BY <1>1, <1>2, <2>1 DEF CoreIs, Moe!RoutedDone
    <2>3. ASSUME NEW t \in Moe!Tokens(p)
          PROVE  {x \in Moe!SharedHalf(p) \cup Moe!SharedHalf(Moe!Peer(p)) : x[2] = t}
                     = {<<s, t>> : s \in Moe!HBlocks}
        <3>1. Moe!HBlocks = {Moe!Prg(p), 1 - Moe!Prg(p)} /\ Moe!Owned(p) = {Moe!Prg(p)}
                /\ Moe!Owned(Moe!Peer(p)) = {1 - Moe!Prg(p)}
            BY <1>1, <2>1, MoeWays, MoeCores DEF Moe!HBlocks, Moe!Owned
        <3>2. Moe!Tokens(Moe!Peer(p)) = Moe!Tokens(p)
            BY <1>1, MoeWays DEF Moe!Tokens, Moe!TOffset, Moe!TLen
        <3>3. Moe!SharedHalf(p) = {<<Moe!Prg(p), u>> : u \in Moe!Tokens(p)}
              /\ Moe!SharedHalf(Moe!Peer(p)) = {<<1 - Moe!Prg(p), u>> : u \in Moe!Tokens(p)}
            BY <3>1, <3>2 DEF Moe!SharedHalf
        <3>4. {x \in Moe!SharedHalf(p) \cup Moe!SharedHalf(Moe!Peer(p)) : x[2] = t}
                  = {<<Moe!Prg(p), t>>, <<1 - Moe!Prg(p), t>>}
            BY <3>3
        <3> QED BY <3>1, <3>4
    <2>4. Moe!Combined(p, Moe!SharedHalf(p) \cup Moe!SharedHalf(Moe!Peer(p))) = OwnTile(p)
        BY <1>1, <2>1, <2>2, <2>3, CombinedIs
    <2>5. tile'[p] = OwnTile(p) /\ pc'[p] = "reduce" /\ Moe!RoutedDone(p)
        <3> HIDE DEF both
        <3> QED BY <1>1, <2>1, <2>4
    <2> QED BY <1>1, <2>1, <2>5, ReduceNext
<1>7. Moe!ShardOnH => \A q \in Moe!Cores : computed'[Moe!Peer(q)] = computed'[q]
    BY <1>1 DEF MoeInv
<1> QED BY <1>1, <1>3, <1>5, <1>6, <1>7, InvByCores

\* Cores with the same place in their ranks reduce the same block.
LEMMA ReduceStep ==
    ASSUME MoeConstants, MoeInv, NEW c \in 0 .. 1, Moe!AllReduce(c)
    PROVE  MoeInv'
<1> DEFINE group == {p \in Moe!Cores : Moe!Prg(p) = c}
           summed(p) == [i \in 1 .. Moe!FreeBlock(p)[2] |->
                            {<<q[1], tile[q][Moe!FreeBlock(p)[1] + i - 1]>> : q \in group}]
<1>1. /\ shape \in Shapes /\ shape' = shape /\ \A p \in group : pc[p] = "reduce"
      /\ reduced' = [p \in Moe!Cores |-> IF p \in group THEN summed(p) ELSE reduced[p]]
      /\ pc' = [p \in Moe!Cores |-> IF p \in group THEN "gather" ELSE pc[p]]
      /\ UNCHANGED <<loaded, computed, slots, part, acc, tile, out>>
    BY DEF Moe!AllReduce, MoeInv
<1>2. AllByCore /\ \A q \in Moe!Cores : CoreIs(q)
    BY DEF MoeInv, AllByCore
<1>3. AllByCore'
    <2>1. ByCore(reduced)' /\ ByCore(pc)'
        BY <1>1 DEF ByCore
    <2> QED BY <1>1, <1>2, <2>1 DEF AllByCore, ByCore
<1>4. ASSUME NEW q \in Moe!Cores, q \notin group PROVE CoreIs(q)'
    <2>1. reduced'[q] = reduced[q] /\ pc'[q] = pc[q]
        <3> HIDE DEF summed, group
        <3> QED BY <1>1, <1>4
    <2>2. SameCore(q)
        BY <1>1, <2>1 DEF SameCore
    <2> QED BY <1>1, <1>2, <2>2, CoreStays
<1>5. ASSUME NEW p \in group PROVE CoreIs(p)'
    <2>1. p \in Moe!Cores /\ pc[p] = "reduce"
        BY <1>1
    <2>2. /\ RingIs(p, loaded[p], computed[p], slots[p]) /\ AccIs(p, computed[p], acc[p])
          /\ PartIs(p, pc[p], loaded[p], computed[p], part[p])
        BY <1>2, <2>1 DEF CoreIs
    <2>3. ASSUME NEW q \in group
          PROVE  Moe!Running(q) /\ tile[q] = OwnTile(q) /\ Moe!FreeBlock(q) = Moe!FreeBlock(p)
        <3>1. Moe!Prg(q) = Moe!Prg(p) /\ q \in Moe!Cores /\ pc[q] = "reduce"
            BY <1>1
        <3>2. StageIs(q, pc[q], tile[q], reduced[q], out[q])
            BY <1>2, <3>1 DEF CoreIs
        <3>3. Moe!Running(q) /\ tile[q] = OwnTile(q)
            BY <3>1, <3>2 DEF StageIs, OwnTile
        <3>4. Moe!FreeBlock(q) = Moe!FreeBlock(p)
            BY <3>1 DEF Moe!FreeBlock, Moe!TOffset, Moe!TLen
        <3> QED BY <3>3, <3>4
    <2>4. Moe!Running(p)
        BY <2>3
    <2> DEFINE a == Moe!FreeBlock(p)[1]
               b == Moe!FreeBlock(p)[2]
    <2>5. a \in Nat /\ b \in Nat /\ a + b <= shape.T * shape.prgs /\ shape.T * shape.prgs \in Nat
        BY <1>1, <2>1, <2>4, BlockInTile
    <2>6. ASSUME NEW i \in 1 .. b
          PROVE  {<<q[1], tile[q][a + i - 1]>> : q \in group} = Moe!Sum(a + i - 1)
        <3> DEFINE f == a + i - 1
        <3>1. f \in Moe!Cells /\ f >= a /\ f < a + b
            <4> DEFINE z == shape.T * shape.prgs
            <4>1. Moe!Cells = 0 .. z - 1
                BY DEF Moe!Cells
            <4> HIDE DEF a, b, z
            <4> QED BY <2>5, <4>1 DEF z
        <3>2. ASSUME NEW q \in group PROVE tile[q][f] = Moe!Cell(f)
            <4>1. q \in Moe!Cores /\ Moe!Running(q) /\ tile[q] = OwnTile(q)
                    /\ Moe!FreeBlock(q) = Moe!FreeBlock(p)
                BY <2>3
            <4>2. OwnsCell(q, f)
                <5> HIDE DEF f
                <5> QED BY <1>1, <3>1, <4>1, BlockIsOwned
            <4> HIDE DEF f
            <4> QED BY <3>1, <4>1, <4>2 DEF OwnTile
        <3>3. ASSUME NEW r \in Moe!Ranks PROVE \E q \in group : q[1] = r
            <4>1. <<r, c>> \in Moe!Cores /\ Moe!Prg(<<r, c>>) = c
                BY DEF Moe!Cores, Moe!Prg
            <4> QED BY <4>1
        <3>4. \A q \in group : q[1] \in Moe!Ranks
            BY DEF Moe!Cores
        <3> HIDE DEF f, group
        <3>5. {<<q[1], tile[q][f]>> : q \in group} = {<<r, Moe!Cell(f)>> : r \in Moe!Ranks}
            <4> DEFINE L == {<<q[1], tile[q][f]>> : q \in group}
                       R == {<<r, Moe!Cell(f)>> : r \in Moe!Ranks}
            <4>1. ASSUME NEW x \in L PROVE x \in R
                <5> PICK q \in group : x = <<q[1], tile[q][f]>>
                    BY <4>1
                <5>1. tile[q][f] = Moe!Cell(f) /\ q[1] \in Moe!Ranks
                    BY <3>2, <3>4
                <5> QED BY <5>1
            <4>2. ASSUME NEW x \in R PROVE x \in L
                <5> PICK r \in Moe!Ranks : x = <<r, Moe!Cell(f)>>
                    BY <4>2
                <5> PICK q \in group : q[1] = r
                    BY <3>3
                <5>1. tile[q][f] = Moe!Cell(f)
                    BY <3>2
                <5> QED BY <5>1
            <4> QED BY <4>1, <4>2
        <3> QED BY <3>5 DEF f, Moe!Sum
    <2>7. summed(p) = ReducedIs(p)
        <3> HIDE DEF group
        <3> QED BY <2>6 DEF ReducedIs
    <2>8. reduced'[p] = ReducedIs(p) /\ pc'[p] = "gather"
        <3> HIDE DEF group, summed
        <3> QED BY <1>1, <1>5, <2>1, <2>7
    <2>9. StageIs(p, "gather", tile[p], ReducedIs(p), out[p])
        BY <2>4 DEF StageIs
    <2>10. PartIs(p, "gather", loaded[p], computed[p], part[p])
        BY <2>1, <2>2 DEF PartIs
    <2> QED BY <1>1, <2>1, <2>2, <2>8, <2>9, <2>10, CoreByParts
<1>6. Moe!ShardOnH => \A q \in Moe!Cores : computed'[Moe!Peer(q)] = computed'[q]
    BY <1>1 DEF MoeInv
<1> QED BY <1>1, <1>3, <1>4, <1>5, <1>6, InvByCores

\* The blocks of the two cores of a rank fill the tile.
LEMMA BlocksMeet ==
    ASSUME MoeConstants, shape \in Shapes, NEW p \in Moe!Cores, shape.prgs = 2, Moe!Prg(p) = 0
    PROVE  /\ Moe!FreeBlock(p)[1] = 0 /\ Moe!FreeBlock(Moe!Peer(p))[1] = Moe!FreeBlock(p)[2]
           /\ Moe!FreeBlock(p)[2] + Moe!FreeBlock(Moe!Peer(p))[2] = shape.T * shape.prgs
<1>1. Moe!Prg(Moe!Peer(p)) = 1 /\ shape.T \in Nat \ {0}
    BY MoeCores, ShapeFields
<1>2. CASE Moe!ShardOnT /\ ~Moe!ShardOnH
    <2>1. /\ Moe!FreeBlock(p) = <<0, Moe!TFirst * 2>>
          /\ Moe!FreeBlock(Moe!Peer(p)) = <<Moe!TFirst * 2, (shape.T - Moe!TFirst) * 2>>
        BY <1>1, <1>2 DEF Moe!FreeBlock, Moe!TOffset, Moe!TLen
    <2>2. Moe!TFirst \in Nat
        BY <1>1 DEF Moe!TFirst
    <2>3. Moe!TFirst * 2 + (shape.T - Moe!TFirst) * 2 = shape.T * 2
        BY <1>1, <2>2
    <2> QED BY <2>1, <2>2, <2>3
<1>3. CASE ~Moe!ShardOnT /\ Moe!ShardOnH /\ shape.T = 1
    <2>1. Moe!FreeBlock(p) = <<0, 1>> /\ Moe!FreeBlock(Moe!Peer(p)) = <<1, 1>>
        BY <1>1, <1>3 DEF Moe!FreeBlock
    <2> QED BY <1>3, <2>1
<1> QED BY <1>2, <1>3, MoeWays

\* The whole tile from both blocks.
LEMMA GatheredIs ==
    ASSUME MoeConstants, shape \in Shapes, NEW p \in Moe!Cores, Moe!Running(p),
           reduced[p] = ReducedIs(p),
           shape.prgs > 1 => reduced[Moe!Peer(p)] = ReducedIs(Moe!Peer(p)),
           NEW f \in Moe!Cells
    PROVE  Moe!Gathered(p)[f] = Moe!Sum(f)
<1>1. shape.T \in Nat \ {0} /\ shape.prgs \in {1, 2} /\ Moe!Prg(p) \in {0, 1}
      /\ Moe!Peer(p) \in Moe!Cores /\ Moe!Prg(Moe!Peer(p)) = 1 - Moe!Prg(p)
    BY ShapeFields, MoeCores
<1> DEFINE z == shape.T * shape.prgs
           a == Moe!FreeBlock(p)[1]
           b == Moe!FreeBlock(p)[2]
           other == Moe!OtherOffset(p)
           from == reduced[Moe!Peer(p)]
           mine == reduced[p]
<1>2. z \in Nat /\ f \in 0 .. z - 1 /\ a \in Nat /\ b \in Nat /\ a + b <= z
    BY <1>1, BlockInTile DEF Moe!Cells
<1>3. Moe!Gathered(p)[f] =
          IF shape.prgs > 1 /\ f >= other /\ f < other + (z - b)
          THEN IF f - other + 1 \in DOMAIN from THEN from[f - other + 1] ELSE Junk
          ELSE IF f >= a /\ f < a + b THEN mine[f - a + 1] ELSE Junk
    BY DEF Moe!Gathered
<1>4. ASSUME f >= a, f < a + b PROVE mine[f - a + 1] = Moe!Sum(f)
    <2>1. f - a + 1 \in 1 .. b /\ a + (f - a + 1) - 1 = f
        <3> HIDE DEF a, b, z
        <3> QED BY <1>2, <1>4
    <2>2. mine = [i \in 1 .. b |-> Moe!Sum(a + i - 1)]
        BY DEF ReducedIs
    <2> HIDE DEF a, b, mine
    <2> QED BY <2>1, <2>2
<1>5. CASE shape.prgs = 1
    <2>1. a = 0 /\ b = z
        BY <1>5, MoeWays, <1>1 DEF Moe!FreeBlock
    <2>2. f >= a /\ f < a + b
        BY <1>2, <2>1
    <2>3. ~(shape.prgs > 1)
        BY <1>5
    <2> HIDE DEF a, b, z, other, from, mine
    <2> QED BY <1>3, <1>4, <2>2, <2>3
<1>6. CASE shape.prgs = 2
    <2> DEFINE x == Moe!FreeBlock(Moe!Peer(p))[1]
               y == Moe!FreeBlock(Moe!Peer(p))[2]
    <2>1. /\ x \in Nat /\ y \in Nat /\ other = x /\ z - b = y
          /\ (f >= x /\ f < x + y) \/ (f >= a /\ f < a + b)
        <3>1. CASE Moe!Prg(p) = 0
            <4>1. a = 0 /\ x = b /\ b + y = z
                BY <1>1, <1>6, <3>1, BlocksMeet
            <4>2. y \in Nat /\ x \in Nat
                BY <1>1, <1>6, BlockInTile DEF Moe!Running
            <4>3. other = a + b
                BY <3>1 DEF Moe!OtherOffset
            <4> HIDE DEF a, b, x, y, z, other
            <4> QED BY <1>2, <4>1, <4>2, <4>3
        <3>2. CASE Moe!Prg(p) = 1
            <4>1. Moe!Peer(Moe!Peer(p)) = p
                BY DEF Moe!Peer, Moe!Prg, Moe!Cores
            <4>2. x = 0 /\ a = y /\ y + b = z
                BY <1>1, <1>6, <3>2, <4>1, BlocksMeet
            <4>3. y \in Nat /\ x \in Nat
                BY <1>1, <1>6, BlockInTile DEF Moe!Running
            <4>4. other = 0
                BY <3>2 DEF Moe!OtherOffset
            <4> HIDE DEF a, b, x, y, z, other
            <4> QED BY <1>2, <4>2, <4>3, <4>4
        <3> QED BY <1>1, <3>1, <3>2
    <2>2. from = [i \in 1 .. y |-> Moe!Sum(x + i - 1)]
        BY <1>6 DEF ReducedIs
    <2>3. CASE f >= x /\ f < x + y
        <3>1. f - x + 1 \in 1 .. y /\ x + (f - x + 1) - 1 = f
            <4> HIDE DEF x, y, z
            <4> QED BY <1>2, <2>1, <2>3
        <3>2. f - x + 1 \in DOMAIN from /\ from[f - x + 1] = Moe!Sum(f)
            <4> HIDE DEF x, y, from
            <4> QED BY <2>2, <3>1
        <3>3. shape.prgs > 1 /\ f >= other /\ f < other + (z - b)
            <4> HIDE DEF x, y, z, b, other
            <4> QED BY <1>6, <2>1, <2>3
        <3> HIDE DEF a, b, x, y, z, other, from, mine
        <3> QED BY <1>3, <2>1, <3>2, <3>3
    <2>4. CASE ~(f >= x /\ f < x + y)
        <3>1. ~(f >= other /\ f < other + (z - b)) /\ f >= a /\ f < a + b
            <4> HIDE DEF a, b, x, y, z, other
            <4> QED BY <2>1, <2>4
        <3> HIDE DEF a, b, x, y, z, other, from, mine
        <3> QED BY <1>3, <1>4, <3>1
    <2> QED BY <2>3, <2>4
<1> QED BY <1>1, <1>5, <1>6

\* A rank's cores gather each other's block.
LEMMA GatherStep ==
    ASSUME MoeConstants, MoeInv, NEW r \in Moe!Ranks, Moe!GatherPeers(r)
    PROVE  MoeInv'
<1> DEFINE there == {p \in Moe!Cores : p[1] = r /\ Moe!Running(p)}
<1>1. /\ shape \in Shapes /\ shape' = shape /\ \A p \in there : pc[p] = "gather"
      /\ out' = [p \in Moe!Cores |-> IF p \in there THEN Moe!Gathered(p) ELSE out[p]]
      /\ pc' = [p \in Moe!Cores |-> IF p \in there THEN "done" ELSE pc[p]]
      /\ UNCHANGED <<loaded, computed, slots, part, acc, tile, reduced>>
    BY DEF Moe!GatherPeers, MoeInv
<1>2. AllByCore /\ \A q \in Moe!Cores : CoreIs(q)
    BY DEF MoeInv, AllByCore
<1>3. AllByCore'
    <2>1. ByCore(out)' /\ ByCore(pc)'
        BY <1>1 DEF ByCore
    <2> QED BY <1>1, <1>2, <2>1 DEF AllByCore, ByCore
<1>4. ASSUME NEW q \in Moe!Cores, q \notin there PROVE CoreIs(q)'
    <2>1. out'[q] = out[q] /\ pc'[q] = pc[q]
        <3> HIDE DEF there
        <3> QED BY <1>1, <1>4
    <2>2. SameCore(q)
        BY <1>1, <2>1 DEF SameCore
    <2> QED BY <1>1, <1>2, <2>2, CoreStays
<1>5. ASSUME NEW p \in there PROVE CoreIs(p)'
    <2>1. p \in Moe!Cores /\ p[1] = r /\ Moe!Running(p) /\ pc[p] = "gather"
        BY <1>1
    <2>2. /\ RingIs(p, loaded[p], computed[p], slots[p]) /\ AccIs(p, computed[p], acc[p])
          /\ PartIs(p, pc[p], loaded[p], computed[p], part[p])
          /\ StageIs(p, pc[p], tile[p], reduced[p], out[p])
        BY <1>2, <2>1 DEF CoreIs
    <2>3. reduced[p] = ReducedIs(p)
        BY <2>1, <2>2 DEF StageIs
    <2>4. shape.prgs > 1 => reduced[Moe!Peer(p)] = ReducedIs(Moe!Peer(p))
        <3> SUFFICES ASSUME shape.prgs > 1 PROVE reduced[Moe!Peer(p)] = ReducedIs(Moe!Peer(p))
            OBVIOUS
        <3>1. Moe!Peer(p) \in Moe!Cores /\ Moe!Peer(p)[1] = r /\ Moe!Prg(Moe!Peer(p)) \in {0, 1}
            BY <2>1, MoeCores
        <3>2. Moe!Running(Moe!Peer(p))
            BY <1>1, <3>1, ShapeFields DEF Moe!Running
        <3>3. pc[Moe!Peer(p)] = "gather"
            BY <1>1, <3>1, <3>2
        <3>4. StageIs(Moe!Peer(p), pc[Moe!Peer(p)], tile[Moe!Peer(p)], reduced[Moe!Peer(p)],
                out[Moe!Peer(p)])
            BY <1>2, <3>1 DEF CoreIs
        <3> QED BY <3>3, <3>4 DEF StageIs
    <2>5. \A f \in Moe!Cells : Moe!Gathered(p)[f] = Moe!Sum(f)
        BY <1>1, <2>1, <2>3, <2>4, GatheredIs
    <2>6. out'[p] = Moe!Gathered(p) /\ pc'[p] = "done"
        <3> HIDE DEF there
        <3> QED BY <1>1, <1>5, <2>1
    <2>7. StageIs(p, "done", tile[p], reduced[p], Moe!Gathered(p))
        BY <2>1, <2>2, <2>5 DEF StageIs
    <2>8. PartIs(p, "done", loaded[p], computed[p], part[p])
        BY <2>1, <2>2 DEF PartIs
    <2> QED BY <1>1, <2>1, <2>2, <2>6, <2>7, <2>8, CoreByParts
<1>6. Moe!ShardOnH => \A q \in Moe!Cores : computed'[Moe!Peer(q)] = computed'[q]
    BY <1>1 DEF MoeInv
<1> QED BY <1>1, <1>3, <1>4, <1>5, <1>6, InvByCores

\* Every step keeps the invariant.
LEMMA MoeKeeps == ASSUME MoeConstants, MoeInv, [Moe!Next]_Moe!vars PROVE MoeInv'
<1>1. CASE UNCHANGED Moe!vars
    <2>1. /\ shape' = shape /\ pc' = pc /\ loaded' = loaded /\ computed' = computed
          /\ slots' = slots /\ part' = part /\ acc' = acc /\ tile' = tile
          /\ reduced' = reduced /\ out' = out
        BY <1>1 DEF Moe!vars
    <2>2. AllByCore' /\ (Moe!ShardOnH => \A p \in Moe!Cores : computed'[Moe!Peer(p)] = computed'[p])
        BY <2>1 DEF MoeInv, AllByCore, ByCore
    <2>3. ASSUME NEW p \in Moe!Cores PROVE CoreIs(p)'
        BY <2>1, CoreStays DEF MoeInv, SameCore
    <2> QED BY <2>1, <2>2, <2>3, InvByCores
<1>2. ASSUME NEW p \in Moe!Cores, Moe!Load(p) \/ Moe!Compute(p) \/ Moe!ContractHalf(p)
               \/ Moe!SharedExpert(p)
      PROVE  MoeInv'
    BY <1>2, LoadStep, ComputeStep, ContractStep, SharedStep
<1>3. ASSUME NEW r \in Moe!Ranks, Moe!ExchangeHalves(r) \/ Moe!ExchangeShared(r)
               \/ Moe!GatherPeers(r)
      PROVE  MoeInv'
    BY <1>3, ExchangeStep, ExchangeSharedStep, GatherStep
<1>4. ASSUME NEW c \in 0 .. 1, Moe!AllReduce(c) PROVE MoeInv'
    BY <1>4, ReduceStep
<1> QED BY <1>1, <1>2, <1>3, <1>4 DEF Moe!Next, Moe!Step, Moe!Finished

(***************************************************************************)
(* The layer among the parts.                                               *)
(***************************************************************************)
\* What Arithmetic assumes of the layer.
LEMMA MoeGiven == MoeConstants
BY MoeAssumption DEF MoeConstants

MoeRuns == Run("moe") => MoeInv

\* A behaviour that runs the layer starts it.
LEMMA MoeRunsInit == ASSUME Init PROVE MoeRuns
<1>1. Run("moe") => Moe!Init
    BY DEF Init, Run
<1> QED BY <1>1, MoeGiven, MoeInit DEF MoeRuns

\* And steps it, whatever the other parts' variables hold.
LEMMA MoeRunsSteps == ASSUME MoeRuns, [Next]_vars PROVE MoeRuns'
<1> USE DEF Next, HeadNext, MoeNext, TrunkNext, RuleNext, RuleOver, RouterNext
<1>1. running' = running
    BY DEF vars
<1>2. Run("moe") => Moe!Next \/ UNCHANGED Moe!vars
    BY DEF vars, Run, Moe!vars, moeOnly, shared
<1> HIDE DEF Next, HeadNext, MoeNext, TrunkNext, RuleNext, RuleOver, RouterNext
<1> QED BY <1>1, <1>2, MoeGiven, MoeKeeps DEF MoeRuns, Run

\* In every reachable state of every launch of an MoE layer: the weights that
\* have landed ahead of their expert's turn are still in the ring, the free block
\* a core is about to send is the part of the tile it computed and no other, and a
\* core that is done holds the sum over the ranks of every token's experts, each
\* once and in order, and of the shared expert (_run_moe_layer,
\* all_reduce_gather_free_block).
THEOREM LayerIsSum ==
    Spec => [](Run("moe") => Moe!RingKeepsUnread /\ Moe!OneValidBlock /\ Moe!TileIsSum)
<1>1. Init => MoeRuns
    BY MoeRunsInit
<1>2. MoeRuns /\ [Next]_vars => MoeRuns'
    BY MoeRunsSteps
<1>3. MoeRuns => (Run("moe") => Moe!RingKeepsUnread /\ Moe!OneValidBlock /\ Moe!TileIsSum)
    BY MoeGiven, MoeProperties DEF MoeRuns
<1> QED BY <1>1, <1>2, <1>3, PTL DEF Spec

(***************************************************************************)
(* The router.                                                              *)
(***************************************************************************)
\* The instance counts as the library does.
LEMMA SameCardinality == \A U : Router!Cardinality(U) = Cardinality(U)
BY Zenon DEF Cardinality, Router!Cardinality

(***************************************************************************)
(* Ranks.                                                                   *)
(***************************************************************************)
RouterConstants == Router!SizeAssumption /\ Router!LogitAssumption /\ Router!LaunchAssumption

\* A number for every expert, no two equal.
Distinct(v) ==
    \A e, f \in Router!Expert : v[e] \in Int /\ (e # f => v[e] # v[f])

Above(v, e) == {f \in Router!Expert : v[f] > v[e]}

\* There are as many experts as there are.
LEMMA ExpertsCounted ==
    ASSUME RouterConstants
    PROVE  /\ RouterExperts \in Nat \ {0} /\ K \in 1 .. RouterExperts /\ P \in Nat \ {0}
           /\ IsFiniteSet(Router!Expert) /\ Cardinality(Router!Expert) = RouterExperts
           /\ IsFiniteSet(0 .. RouterExperts - 1)
                /\ Cardinality(0 .. RouterExperts - 1) = RouterExperts
<1>1. RouterExperts \in Nat \ {0} /\ K \in 1 .. RouterExperts /\ P \in Nat \ {0}
    BY DEF RouterConstants, Router!SizeAssumption
<1>2. IsFiniteSet(0 .. RouterExperts - 1) /\ Cardinality(0 .. RouterExperts - 1) = RouterExperts
    BY <1>1, FS_Interval
<1> QED BY <1>1, <1>2 DEF Router!Expert

\* The number above an expert.
LEMMA AboveCounted ==
    ASSUME RouterConstants, NEW v, Distinct(v), NEW e \in Router!Expert
    PROVE  /\ IsFiniteSet(Above(v, e)) /\ Cardinality(Above(v, e)) \in 0 .. RouterExperts - 1
<1> DEFINE rest == Router!Expert \ {e}
<1>1. IsFiniteSet(rest) /\ Cardinality(rest) = RouterExperts - 1
    BY ExpertsCounted, FS_RemoveElement
<1>2. Above(v, e) \subseteq rest
    BY DEF Above, Distinct
<1>3. /\ IsFiniteSet(Above(v, e)) /\ Cardinality(Above(v, e)) <= RouterExperts - 1
    BY <1>1, <1>2, FS_Subset
<1>4. Cardinality(Above(v, e)) \in Nat
    BY <1>3, FS_CardinalityType
<1> QED BY <1>3, <1>4, ExpertsCounted

\* Fewer are above the greater.
LEMMA AboveLess ==
    ASSUME RouterConstants, NEW v, Distinct(v), NEW e \in Router!Expert, NEW f \in Router!Expert,
             v[f] > v[e]
    PROVE  Cardinality(Above(v, f)) < Cardinality(Above(v, e))
<1>1. v[e] \in Int /\ v[f] \in Int /\ \A g \in Router!Expert : v[g] \in Int
    BY DEF Distinct
<1>2. Above(v, f) \subseteq Above(v, e) /\ f \in Above(v, e) /\ f \notin Above(v, f)
    BY <1>1 DEF Above
<1>3. Cardinality(Above(v, f)) <= Cardinality(Above(v, e))
      /\ Cardinality(Above(v, f)) # Cardinality(Above(v, e))
    BY <1>2, AboveCounted, FS_Subset
<1> QED BY <1>3, AboveCounted

\* The expert that k are above.
At(v, k) == CHOOSE e \in Router!Expert : Cardinality(Above(v, e)) = k - 1

\* Every rank is one expert's.
LEMMA RankTaken ==
    ASSUME RouterConstants, NEW v, Distinct(v), NEW k \in 1 .. RouterExperts
    PROVE  /\ At(v, k) \in Router!Expert /\ Cardinality(Above(v, At(v, k))) = k - 1
           /\ \A e \in Router!Expert : Cardinality(Above(v, e)) = k - 1 => e = At(v, k)
<1> DEFINE E == Router!Expert
           R == 0 .. RouterExperts - 1
           g == [e \in E |-> Cardinality(Above(v, e))]
<1>1. g \in [E -> R]
    BY AboveCounted
<1>2. \A e, f \in E : g[e] = g[f] => e = f
    <2> SUFFICES ASSUME NEW e \in E, NEW f \in E, e # f PROVE g[e] # g[f]
        OBVIOUS
    <2>1. v[e] \in Int /\ v[f] \in Int /\ v[e] # v[f]
        BY DEF Distinct
    <2>2. Cardinality(Above(v, e)) # Cardinality(Above(v, f))
        <3>1. Cardinality(Above(v, e)) \in Nat /\ Cardinality(Above(v, f)) \in Nat
            BY AboveCounted
        <3>2. CASE v[f] > v[e]
            BY <3>1, <3>2, AboveLess
        <3>3. CASE v[e] > v[f]
            BY <3>1, <3>3, AboveLess
        <3> QED BY <2>1, <3>2, <3>3
    <2> QED BY <2>2
<1> HIDE DEF g
<1>3. g \in Injection(E, R)
    BY <1>1, <1>2 DEF Injection, IsInjective
<1>4. IsFiniteSet(E) /\ IsFiniteSet(R) /\ Cardinality(E) = Cardinality(R)
    BY ExpertsCounted
<1>5. g \in Surjection(E, R)
    <2> HIDE DEF E, R
    <2> QED BY <1>3, <1>4, FS_Injection
<1>6. k - 1 \in R
    BY ExpertsCounted
<1> PICK e \in E : g[e] = k - 1
    BY <1>5, <1>6 DEF Surjection
<1>7. \A f \in E : Cardinality(Above(v, f)) = k - 1 => f = e
    BY <1>2 DEF g
<1>8. Cardinality(Above(v, e)) = k - 1
    BY DEF g
<1>9. At(v, k) = e
    BY <1>7, <1>8 DEF At
<1> QED BY <1>7, <1>8, <1>9

\* max8 and nc_find_index8 find it.
LEMMA TopIs ==
    ASSUME RouterConstants, NEW v, Distinct(v)
    PROVE  Router!TopIndex(v) = [k \in 1 .. K |-> At(v, k)]
<1>1. ASSUME NEW k \in 1 .. K
      PROVE  Router!Min({e \in Router!Expert :
                           /\ Cardinality({f \in Router!Expert : v[f] > v[e]}) < k
                           /\ Cardinality({f \in Router!Expert : v[f] >= v[e]}) >= k})
               = At(v, k)
    <2> DEFINE found(e) == /\ Cardinality({f \in Router!Expert : v[f] > v[e]}) < k
                           /\ Cardinality({f \in Router!Expert : v[f] >= v[e]}) >= k
    <2>1. k \in 1 .. RouterExperts
        BY ExpertsCounted
    <2>2. ASSUME NEW e \in Router!Expert PROVE found(e) <=> Cardinality(Above(v, e)) = k - 1
        <3>1. {f \in Router!Expert : v[f] > v[e]} = Above(v, e)
            BY DEF Above
        <3>2. {f \in Router!Expert : v[f] >= v[e]} = Above(v, e) \cup {e}
            <4>1. \A f \in Router!Expert : v[f] \in Int /\ v[e] \in Int /\ (v[f] = v[e] <=> f = e)
                BY DEF Distinct
            <4>2. \A f \in Router!Expert : v[f] >= v[e] <=> v[f] > v[e] \/ f = e
                BY <4>1
            <4> QED BY <4>2 DEF Above
        <3>3. e \notin Above(v, e)
            BY DEF Above, Distinct
        <3>4. Cardinality(Above(v, e) \cup {e}) = Cardinality(Above(v, e)) + 1
            BY <3>3, AboveCounted, FS_AddElement
        <3>5. Cardinality(Above(v, e)) \in Nat
            BY AboveCounted
        <3>6. k \in Nat
            BY ExpertsCounted
        <3> DEFINE n == Cardinality(Above(v, e))
        <3>7. found(e) <=> n < k /\ n + 1 >= k
            BY <3>1, <3>2, <3>4
        <3> HIDE DEF n, found
        <3>8. n \in Nat
            BY <3>5 DEF n
        <3> QED BY <3>6, <3>7, <3>8 DEF n
    <2> HIDE DEF found
    <2>3. {e \in Router!Expert : found(e)} = {At(v, k)}
        BY <2>1, <2>2, RankTaken
    <2>4. At(v, k) \in Int
        <3>1. At(v, k) \in Router!Expert
            BY <2>1, RankTaken
        <3> QED BY <3>1, ExpertsCounted DEF Router!Expert
    <2>5. Router!Min({At(v, k)}) = At(v, k)
        BY <2>4 DEF Router!Min
    <2> QED BY <2>3, <2>5 DEF found
<1>2. Router!TopIndex(v) = [k \in 1 .. K |-> Router!Min({e \in Router!Expert :
                               /\ Cardinality({f \in Router!Expert : v[f] > v[e]}) < k
                               /\ Cardinality({f \in Router!Expert : v[f] >= v[e]}) >= k})]
    BY SameCardinality, Zenon DEF Router!TopIndex
<1> QED BY <1>1, <1>2

\* It depends on the order of the values alone.
LEMMA SameOrder ==
    ASSUME RouterConstants, NEW v, Distinct(v), NEW w, Distinct(w),
           \A e, f \in Router!Expert : w[f] > w[e] <=> v[f] > v[e]
    PROVE  Router!TopIndex(w) = Router!TopIndex(v)
<1>1. \A e \in Router!Expert : Above(w, e) = Above(v, e)
    BY DEF Above
<1>2. \A k \in 1 .. K : At(w, k) = At(v, k)
    BY <1>1 DEF At
<1> QED BY <1>2, TopIs

(***************************************************************************)
(* The reference.                                                           *)
(***************************************************************************)
Row(t) == [e \in Router!Expert |-> Router!RefLogit(t, e)]
Best(t) == [k \in 1 .. K |-> At(Row(t), k)]
Peak(t) == Router!RefLogit(t, At(Row(t), 1))

\* The fields of a launch.
LEMMA LaunchFields ==
    ASSUME RouterConstants, shape \in Launches
    PROVE  /\ Router!T \in Nat \ {0} /\ Router!HTiles \in Nat \ {0} /\ shape.cores \in {1, 2}
           /\ shape.x \in {"sb", "TH", "HT"} /\ shape.layout \in 0 .. 2
           /\ shape.act \in {"softmax", "sigmoid"}
           /\ shape.bias \in BOOLEAN /\ shape.columns \in BOOLEAN /\ shape.pre \in BOOLEAN
           /\ shape.norm \in BOOLEAN /\ shape.indirect \in BOOLEAN /\ shape.eager \in BOOLEAN
           /\ shape.shard \in BOOLEAN /\ shape.affSb \in BOOLEAN /\ shape.idxSb \in BOOLEAN
           /\ (shape.layout = 1 => Router!HTiles % 2 = 0)
           /\ (shape.shard => shape.cores = 2 /\ Router!T > 1)
           /\ (shape.act = "sigmoid" => shape.indirect \/ shape.pre)
           /\ (shape.indirect => ~shape.affSb /\ ~shape.idxSb)
           /\ (shape.shard /\ shape.idxSb /\ Router!T > P => Router!T % (2 * P) = 0)
           /\ (~shape.indirect /\ ~shape.affSb /\ Router!Scatters => shape.cores = 2)
           /\ (~Router!Scatters => ~shape.eager /\ ~shape.affSb)
BY DEF RouterConstants, Router!LaunchAssumption, Router!T, Router!HTiles, Router!Scatters

\* A token's logits.
LEMMA RowIs ==
    ASSUME RouterConstants, shape \in Launches, NEW t \in 0 .. Router!T - 1
    PROVE  /\ Distinct(Row(t)) /\ \A e \in Router!Expert : Row(t)[e] = Router!RefLogit(t, e)
           /\ \A e \in Router!Expert : Router!RefLogit(t, e) \in Int
           /\ \A e, f \in Router!Expert : e # f => Router!RefLogit(t, e) # Router!RefLogit(t, f)
<1>1. ASSUME NEW e \in Router!Expert, NEW f \in Router!Expert
      PROVE  Router!RefLogit(t, e) \in Int
               /\ (e # f => Router!RefLogit(t, e) # Router!RefLogit(t, f))
    <2>1. /\ RouterLogit(t, e) \in Nat /\ Bias(e) \in Nat /\ RouterLogit(t, f) \in Nat
               /\ Bias(f) \in Nat
          /\ e # f
               => RouterLogit(t, e) # RouterLogit(t, f)
                 /\ RouterLogit(t, e) + Bias(e) # RouterLogit(t, f) + Bias(f)
        BY DEF RouterConstants, Router!LogitAssumption, Router!Expert, Router!T
    <2>2. CASE shape.bias
        <3>1. Router!RefLogit(t, e) = RouterLogit(t, e) + Bias(e)
                /\ Router!RefLogit(t, f) = RouterLogit(t, f) + Bias(f)
            BY <2>2 DEF Router!RefLogit
        <3> QED BY <2>1, <3>1
    <2>3. CASE ~shape.bias
        <3>1. Router!RefLogit(t, e) = RouterLogit(t, e) + 0
                /\ Router!RefLogit(t, f) = RouterLogit(t, f) + 0
            BY <2>3 DEF Router!RefLogit
        <3> QED BY <2>1, <3>1
    <2> QED BY <2>2, <2>3
<1> QED BY <1>1 DEF Distinct, Row

\* Its best experts.
LEMMA BestIs ==
    ASSUME RouterConstants, shape \in Launches, NEW t \in 0 .. Router!T - 1
    PROVE  /\ Best(t) \in [1 .. K -> Router!Expert] /\ Len(Best(t)) = K
           /\ \A k \in 1 .. K : Router!RefRank(t, Best(t)[k]) = k
           /\ \A k \in 1 .. K, e \in Router!Expert : Router!RefRank(t, e) = k => e = Best(t)[k]
           /\ Router!RefTop(t) = {Best(t)[k] : k \in 1 .. K}
                /\ Router!RefTop(t) \subseteq Router!Expert
<1>1. K \in Nat \ {0} /\ 1 .. K \subseteq 1 .. RouterExperts /\ 1 .. K \subseteq Nat
    BY ExpertsCounted
<1>2. Distinct(Row(t)) /\ \A e \in Router!Expert : Row(t)[e] = Router!RefLogit(t, e)
    BY RowIs
<1>3. ASSUME NEW e \in Router!Expert
      PROVE  Router!RefRank(t, e) = Cardinality(Above(Row(t), e)) + 1
             /\ Cardinality(Above(Row(t), e)) \in Nat
    <2>1. {f \in Router!Expert : Router!RefLogit(t, f) > Router!RefLogit(t, e)} = Above(Row(t), e)
        BY <1>2 DEF Above
    <2>2. Router!RefRank(t, e)
            = Cardinality({f \in Router!Expert : Router!RefLogit(t, f) > Router!RefLogit(t, e)}) + 1
        BY SameCardinality, Zenon DEF Router!RefRank
    <2>3. Cardinality(Above(Row(t), e)) \in 0 .. RouterExperts - 1
        BY <1>2, AboveCounted
    <2>4. Cardinality(Above(Row(t), e)) \in Nat
        BY <2>3, ExpertsCounted
    <2> QED BY <2>1, <2>2, <2>4
<1>4. ASSUME NEW k \in 1 .. K
      PROVE  /\ Best(t)[k] = At(Row(t), k) /\ Best(t)[k] \in Router!Expert
             /\ Router!RefRank(t, Best(t)[k]) = k
             /\ \A e \in Router!Expert : Router!RefRank(t, e) = k => e = Best(t)[k]
    <2>1. k \in 1 .. RouterExperts /\ k \in Nat
        BY <1>1
    <2>2. Best(t)[k] = At(Row(t), k)
        BY DEF Best
    <2>3. Best(t)[k] \in Router!Expert /\ Cardinality(Above(Row(t), Best(t)[k])) = k - 1
        BY <1>2, <2>1, <2>2, RankTaken
    <2>4. \A e \in Router!Expert : Cardinality(Above(Row(t), e)) = k - 1 => e = At(Row(t), k)
        BY <1>2, <2>1, RankTaken
    <2>5. \A e \in Router!Expert : Router!RefRank(t, e) = k => Cardinality(Above(Row(t), e)) = k - 1
        BY <1>3, <2>1
    <2>6. Router!RefRank(t, Best(t)[k]) = k
        <3>1. Router!RefRank(t, Best(t)[k]) = (k - 1) + 1
            BY <1>3, <2>3
        <3> QED BY <2>1, <3>1
    <2> QED BY <2>2, <2>3, <2>4, <2>5, <2>6
<1>5. Best(t) \in [1 .. K -> Router!Expert]
    <2>1. Best(t) = [k \in 1 .. K |-> Best(t)[k]]
        BY DEF Best
    <2> QED BY <1>4, <2>1
<1>6. Len(Best(t)) = K
    BY <1>1 DEF Best
<1>7. Router!RefTop(t) = {Best(t)[k] : k \in 1 .. K}
    <2>1. ASSUME NEW e \in Router!RefTop(t) PROVE e \in {Best(t)[k] : k \in 1 .. K}
        <3>1. e \in Router!Expert /\ Router!RefRank(t, e) <= K
            BY <2>1 DEF Router!RefTop
        <3>2. Router!RefRank(t, e) \in 1 .. K
            BY <1>1, <1>3, <3>1
        <3> QED BY <1>4, <3>1, <3>2
    <2>2. ASSUME NEW e \in {Best(t)[k] : k \in 1 .. K} PROVE e \in Router!RefTop(t)
        <3> PICK k \in 1 .. K : e = Best(t)[k]
            BY <2>2
        <3>1. e \in Router!Expert /\ Router!RefRank(t, e) = k /\ k <= K
            BY <1>1, <1>4
        <3> QED BY <3>1 DEF Router!RefTop
    <2> QED BY <2>1, <2>2
<1> QED BY <1>4, <1>5, <1>6, <1>7 DEF Router!RefTop

\* The greatest of a set.
LEMMA MaxIs ==
    ASSUME NEW V \in SUBSET Int, NEW m \in V, \A y \in V : m >= y
    PROVE  Router!Max(V) = m
<1>1. \A x \in V : (\A y \in V : x >= y) => x = m
    OBVIOUS
<1>2. Router!Max(V) \in V /\ \A y \in V : Router!Max(V) >= y
    BY DEF Router!Max
<1> QED BY <1>1, <1>2

\* And the least of two.
LEMMA MinIs ==
    ASSUME NEW a \in Int, NEW b \in Int
    PROVE  Router!Min({a, b}) = IF a <= b THEN a ELSE b
<1> DEFINE V == {a, b}
           m == IF a <= b THEN a ELSE b
<1>1. m \in V /\ \A y \in V : m <= y
    OBVIOUS
<1>2. Router!Min(V) \in V /\ \A y \in V : Router!Min(V) <= y
    BY <1>1, Zenon DEF Router!Min
<1> QED BY <1>1, <1>2

\* The best is above all, so the greatest of any experts it is among.
LEMMA PeakIs ==
    ASSUME RouterConstants, shape \in Launches, NEW t \in 0 .. Router!T - 1,
           NEW X, X = Router!Expert \/ X = Router!RefTop(t)
    PROVE  /\ Router!Max({Router!RefLogit(t, f) : f \in X}) = Peak(t)
           /\ Router!Max({Row(t)[f] : f \in X}) = Peak(t)
           /\ Peak(t) \in Int
<1>1. Distinct(Row(t)) /\ \A e \in Router!Expert : Row(t)[e] = Router!RefLogit(t, e)
    BY RowIs
<1>2. 1 \in 1 .. RouterExperts /\ 1 \in 1 .. K
    BY ExpertsCounted
<1> PICK b : b = At(Row(t), 1)
    OBVIOUS
<1>3. b \in Router!Expert /\ Cardinality(Above(Row(t), b)) = 0
    BY <1>1, <1>2, RankTaken
<1>4. Above(Row(t), b) = {}
    BY <1>1, <1>3, AboveCounted, FS_EmptySet
<1>5. b \in X /\ X \subseteq Router!Expert
    <2>1. b = Best(t)[1]
        BY <1>2 DEF Best
    <2> QED BY <1>2, <1>3, <2>1, BestIs
<1>6. \A e \in Router!Expert : Router!RefLogit(t, e) \in Int
        /\ Router!RefLogit(t, b) >= Router!RefLogit(t, e)
    <2>1. \A e \in Router!Expert : Router!RefLogit(t, e) \in Int
        BY RowIs
    <2>2. \A e \in Router!Expert : ~(Router!RefLogit(t, e) > Router!RefLogit(t, b))
        BY <1>1, <1>3, <1>4 DEF Above
    <2> QED BY <1>3, <2>1, <2>2
<1>7. {Row(t)[f] : f \in X} = {Router!RefLogit(t, f) : f \in X}
    BY <1>1, <1>5
<1> DEFINE values == {Router!RefLogit(t, f) : f \in X}
           m == Router!RefLogit(t, b)
<1>8. m \in values /\ values \subseteq Int /\ \A y \in values : m >= y
    BY <1>5, <1>6
<1> HIDE DEF values, m
<1>9. Router!Max(values) = m
    BY <1>8, MaxIs
<1> QED BY <1>7, <1>8, <1>9 DEF values, m, Peak

(***************************************************************************)
(* The weights.                                                             *)
(***************************************************************************)
Sigmoid == shape.act = "sigmoid"

\* The activation of all of a token's logits.
ActRow(t) ==
    [e \in Router!Expert |->
        IF Sigmoid THEN [n |-> Router!RefLogit(t, e), d |-> {}]
        ELSE [n |-> Router!RefLogit(t, e) - Peak(t),
              d |-> {Router!RefLogit(t, f) - Peak(t) : f \in Router!Expert}]]

\* The weights of the best in their order, and those of all experts.
EagerRow(t) == [k \in 1 .. K |-> Router!RefWeight(t, Best(t)[k])]
AffRow(t) ==
    [e \in Router!Expert |-> IF ~Router!Scatters \/ e \in Router!RefTop(t)
      THEN Router!RefWeight(t, e) ELSE Router!Zero]

\* A reference weight, the greatest logit named.
LEMMA WeightIs ==
    ASSUME RouterConstants, shape \in Launches, NEW t \in 0 .. Router!T - 1, NEW e
    PROVE  /\ Sigmoid => Router!RefWeight(t, e) =
                [n |-> Router!RefLogit(t, e),
                 d |-> IF shape.pre /\ shape.norm
                   THEN {Router!RefLogit(t, f) : f \in Router!RefTop(t)} ELSE {}]
           /\ ~Sigmoid => Router!RefWeight(t, e) =
                [n |-> Router!RefLogit(t, e) - Peak(t),
                 d |-> {Router!RefLogit(t, f) - Peak(t) :
                            f \in IF Router!Scatters THEN Router!RefTop(t) ELSE Router!Expert}]
<1>1. Router!Max({Router!RefLogit(t, f) : f \in Router!Expert}) = Peak(t)
    BY PeakIs
<1> QED BY <1>1 DEF Router!RefWeight, Sigmoid

\* compute_activation over all experts.
LEMMA FullIs ==
    ASSUME RouterConstants, shape \in Launches, NEW t \in 0 .. Router!T - 1
    PROVE  Router!Full(Row(t)) = ActRow(t)
<1> DEFINE all == Router!Values(Row(t), Router!Expert)
<1>1. all = {Row(t)[f] : f \in Router!Expert} /\ Router!Max(all) = Peak(t)
    BY PeakIs DEF Router!Values
<1>2. \A e \in Router!Expert : Row(t)[e] = Router!RefLogit(t, e)
    BY RowIs
<1>3. {v - Peak(t) : v \in all} = {Router!RefLogit(t, f) - Peak(t) : f \in Router!Expert}
    BY <1>1, <1>2
<1>4. Router!Full(Row(t)) = [e \in Router!Expert |-> Router!Activated(Row(t)[e], all)]
    BY DEF Router!Full
<1> HIDE DEF all
<1>5. ASSUME NEW e \in Router!Expert
      PROVE  Router!Activated(Row(t)[e], all) =
                IF Sigmoid THEN [n |-> Router!RefLogit(t, e), d |-> {}]
                ELSE [n |-> Router!RefLogit(t, e) - Peak(t),
                      d |-> {Router!RefLogit(t, f) - Peak(t) : f \in Router!Expert}]
    BY <1>1, <1>2, <1>3 DEF Router!Activated, Sigmoid
<1> QED BY <1>4, <1>5 DEF ActRow

\* The choice, on logits and on activations.
LEMMA ChoiceIs ==
    ASSUME RouterConstants, shape \in Launches, NEW t \in 0 .. Router!T - 1
    PROVE  /\ Router!TopIndex(Row(t)) = Best(t)
           /\ Router!TopIndex([e \in Router!Expert |-> ActRow(t)[e].n]) = Best(t)
<1>1. Distinct(Row(t)) /\ \A e \in Router!Expert : Row(t)[e] = Router!RefLogit(t, e)
        /\ Router!RefLogit(t, e) \in Int
    BY RowIs
<1>2. Router!TopIndex(Row(t)) = Best(t)
    BY <1>1, TopIs DEF Best
<1> DEFINE w == [e \in Router!Expert |-> ActRow(t)[e].n]
<1>3. Peak(t) \in Int
    BY PeakIs
<1>4. \A e \in Router!Expert : w[e] = IF Sigmoid THEN Router!RefLogit(t, e)
        ELSE Router!RefLogit(t, e) - Peak(t)
    BY DEF ActRow
<1> HIDE DEF w
<1>5. Distinct(w) /\ \A e, f \in Router!Expert : w[f] > w[e] <=> Row(t)[f] > Row(t)[e]
    <2> SUFFICES ASSUME NEW e \in Router!Expert, NEW f \in Router!Expert
                 PROVE  /\ w[e] \in Int /\ (e # f => w[e] # w[f])
                        /\ w[f] > w[e] <=> Row(t)[f] > Row(t)[e]
        BY DEF Distinct
    <2>1. e # f => Row(t)[e] # Row(t)[f]
        BY <1>1 DEF Distinct
    <2>2. CASE Sigmoid
        BY <1>1, <1>4, <2>1, <2>2
    <2>3. CASE ~Sigmoid
        BY <1>1, <1>3, <1>4, <2>1, <2>3
    <2> QED BY <2>2, <2>3
<1>6. Router!TopIndex(w) = Router!TopIndex(Row(t))
    BY <1>1, <1>5, SameOrder
<1> QED BY <1>2, <1>6 DEF w

\* Without a scatter, the activations are the affinities.
LEMMA ActIsAff ==
    ASSUME RouterConstants, shape \in Launches, NEW t \in 0 .. Router!T - 1, ~Router!Scatters
    PROVE  ActRow(t) = AffRow(t)
<1>1. ~(shape.pre /\ shape.norm)
    BY DEF Router!Scatters
<1> QED BY <1>1, WeightIs DEF ActRow, AffRow

\* What a core has of token i of its own, the token t.
Has(c, i, t) ==
    /\ sb[c].logits[i] = Row(t) /\ sb[c].index[i] = Best(t)
    /\ shape.pre => sb[c].act[i] = ActRow(t)

\* The experts a token has chosen are the reference's, and so are their numbers.
LEMMA ChosenIs ==
    ASSUME RouterConstants, shape \in Launches, NEW t \in 0 .. Router!T - 1, NEW c, NEW i,
             Has(c, i, t)
    PROVE  /\ Router!Chosen(c, i) = Router!RefTop(t)
           /\ Router!Values(sb[c].logits[i], Router!Chosen(c, i))
                = {Router!RefLogit(t, f) : f \in Router!RefTop(t)}
           /\ Router!Max(Router!Values(sb[c].logits[i], Router!Chosen(c, i))) = Peak(t)
           /\ shape.pre => Router!Denominator(c, i) = {ActRow(t)[f].n : f \in Router!RefTop(t)}
<1>1. Router!Chosen(c, i) = Router!RefTop(t) /\ Router!RefTop(t) \subseteq Router!Expert
    BY BestIs DEF Router!Chosen, Has
<1>2. Router!Values(sb[c].logits[i], Router!Chosen(c, i))
        = {Router!RefLogit(t, f) : f \in Router!RefTop(t)}
    <2>1. \A f \in Router!RefTop(t) : Row(t)[f] = Router!RefLogit(t, f)
        BY <1>1, RowIs
    <2> QED BY <1>1, <2>1 DEF Router!Values, Has
<1>3. Router!Max(Router!Values(sb[c].logits[i], Router!Chosen(c, i))) = Peak(t)
    BY <1>2, PeakIs
<1> QED BY <1>1, <1>2, <1>3 DEF Router!Denominator, Has

\* The weights of the chosen.
LEMMA EagerIs ==
    ASSUME RouterConstants, shape \in Launches, NEW t \in 0 .. Router!T - 1, NEW c, NEW i,
             Has(c, i, t),
           Router!Scatters
    PROVE  Router!Eager(c, i) = EagerRow(t)
<1> DEFINE value(e) ==
        IF ~shape.pre
          THEN Router!Activated(sb[c].logits[i][e],
            Router!Values(sb[c].logits[i], Router!Chosen(c, i)))
        ELSE [n |-> sb[c].act[i][e].n, d |-> Router!Denominator(c, i)]
<1>1. ASSUME NEW e \in Router!Expert PROVE value(e) = Router!RefWeight(t, e)
    <2>1. Row(t)[e] = Router!RefLogit(t, e) /\ \A f \in Router!RefTop(t) : f \in Router!Expert
        BY RowIs, BestIs
    <2>2. CASE ~shape.pre
        <3>1. sb[c].logits[i][e] = Router!RefLogit(t, e)
            BY <2>1 DEF Has
        <3> DEFINE vals == Router!Values(sb[c].logits[i], Router!Chosen(c, i))
        <3>2. vals = {Router!RefLogit(t, f) : f \in Router!RefTop(t)} /\ Router!Max(vals) = Peak(t)
            BY ChosenIs
        <3>3. {v - Peak(t) : v \in vals}
                = {Router!RefLogit(t, f) - Peak(t) : f \in Router!RefTop(t)}
            BY <3>2
        <3>4. value(e) = Router!Activated(Router!RefLogit(t, e), vals)
            BY <2>2, <3>1
        <3> HIDE DEF vals, value
        <3>5. CASE Sigmoid
            BY <2>2, <3>4, <3>5, WeightIs DEF Router!Activated, Sigmoid
        <3>6. CASE ~Sigmoid
            <4>1. value(e) = [n |-> Router!RefLogit(t, e) - Peak(t),
                              d |-> {Router!RefLogit(t, f) - Peak(t) : f \in Router!RefTop(t)}]
                BY <3>2, <3>3, <3>4, <3>6 DEF Router!Activated, Sigmoid
            <4>2. Router!RefWeight(t, e) = [n |-> Router!RefLogit(t, e) - Peak(t),
                              d |-> {Router!RefLogit(t, f) - Peak(t) : f \in Router!RefTop(t)}]
                BY <3>6, WeightIs
            <4> QED BY <4>1, <4>2
        <3> QED BY <3>5, <3>6
    <2>3. CASE shape.pre
        <3>1. shape.norm
            BY <2>3 DEF Router!Scatters
        <3>2. value(e) = [n |-> ActRow(t)[e].n, d |-> {ActRow(t)[f].n : f \in Router!RefTop(t)}]
            BY <2>3, ChosenIs DEF Has
        <3>3. CASE Sigmoid
            <4>1. \A f \in Router!Expert : ActRow(t)[f].n = Router!RefLogit(t, f)
                BY <3>3 DEF ActRow
            <4>2. {ActRow(t)[f].n : f \in Router!RefTop(t)}
                    = {Router!RefLogit(t, f) : f \in Router!RefTop(t)}
                BY <2>1, <4>1
            <4> HIDE DEF value
            <4> QED BY <2>3, <3>1, <3>2, <3>3, <4>1, <4>2, WeightIs
        <3>4. CASE ~Sigmoid
            <4>1. \A f \in Router!Expert : ActRow(t)[f].n = Router!RefLogit(t, f) - Peak(t)
                BY <3>4 DEF ActRow
            <4>2. {ActRow(t)[f].n : f \in Router!RefTop(t)}
                    = {Router!RefLogit(t, f) - Peak(t) : f \in Router!RefTop(t)}
                BY <2>1, <4>1
            <4>3. Router!RefWeight(t, e) = [n |-> Router!RefLogit(t, e) - Peak(t),
                              d |-> {Router!RefLogit(t, f) - Peak(t) : f \in Router!RefTop(t)}]
                BY <3>4, WeightIs
            <4> HIDE DEF value
            <4> QED BY <3>2, <4>1, <4>2, <4>3
        <3> QED BY <3>3, <3>4
    <2> QED BY <2>2, <2>3
<1>2. Router!Eager(c, i) = [k \in 1 .. K |-> value(sb[c].index[i][k])]
    BY DEF Router!Eager
<1>3. \A k \in 1 .. K : Best(t)[k] \in Router!Expert
    BY BestIs
<1> HIDE DEF value
<1> QED BY <1>1, <1>2, <1>3 DEF EagerRow, Has

\* The one-hot scatter gives every expert its weight.
LEMMA OneHotIs ==
    ASSUME RouterConstants, shape \in Launches, NEW t \in 0 .. Router!T - 1, NEW c, NEW i,
             Has(c, i, t),
           Router!Scatters, ~shape.indirect
    PROVE  Router!OneHot(c, i) = AffRow(t)
<1> DEFINE best == Router!Max(Router!Values(sb[c].logits[i], Router!Chosen(c, i)))
           top == {v - best : v \in Router!Values(sb[c].logits[i], Router!Chosen(c, i))}
           value(e) == CASE e \notin Router!Chosen(c, i) -> Router!Zero
                         [] e \in Router!Chosen(c, i) /\ ~shape.pre ->
                               [n |-> sb[c].logits[i][e] - best, d |-> top]
                         [] OTHER -> [n |-> sb[c].act[i][e].n, d |-> Router!Denominator(c, i)]
<1>1. Router!OneHot(c, i) = [e \in Router!Expert |-> value(e)]
    BY DEF Router!OneHot
<1>2. Router!Chosen(c, i) = Router!RefTop(t) /\ best = Peak(t)
      /\ top = {Router!RefLogit(t, f) - Peak(t) : f \in Router!RefTop(t)}
    BY ChosenIs
<1>3. ASSUME NEW e \in Router!Expert, e \notin Router!RefTop(t) PROVE value(e) = Router!Zero
    BY <1>2, <1>3
<1>4. ASSUME NEW e \in Router!Expert, e \in Router!RefTop(t) PROVE value(e) = Router!RefWeight(t, e)
    <2>1. Row(t)[e] = Router!RefLogit(t, e) /\ \A f \in Router!RefTop(t) : f \in Router!Expert
        BY RowIs, BestIs
    <2>2. CASE ~shape.pre
        <3>1. ~Sigmoid
            BY <2>2, LaunchFields DEF Sigmoid
        <3>2. value(e) = [n |-> sb[c].logits[i][e] - best, d |-> top]
            <4> HIDE DEF best, top
            <4> QED BY <1>2, <1>4, <2>2
        <3>3. sb[c].logits[i][e] = Router!RefLogit(t, e)
            BY <2>1 DEF Has
        <3>4. Router!RefWeight(t, e) = [n |-> Router!RefLogit(t, e) - Peak(t),
                              d |-> {Router!RefLogit(t, f) - Peak(t) : f \in Router!RefTop(t)}]
            BY <3>1, WeightIs
        <3> HIDE DEF best, top, value
        <3> QED BY <1>2, <3>2, <3>3, <3>4
    <2>3. CASE shape.pre
        <3>1. shape.norm
            BY <2>3 DEF Router!Scatters
        <3>2. value(e) = [n |-> sb[c].act[i][e].n, d |-> Router!Denominator(c, i)]
            <4> HIDE DEF best, top
            <4> QED BY <1>2, <1>4, <2>3
        <3>3. value(e) = [n |-> ActRow(t)[e].n, d |-> {ActRow(t)[f].n : f \in Router!RefTop(t)}]
            <4> HIDE DEF value
            <4> QED BY <2>3, <3>2, ChosenIs DEF Has
        <3> HIDE DEF value
        <3>4. CASE Sigmoid
            <4>1. \A f \in Router!Expert : ActRow(t)[f].n = Router!RefLogit(t, f)
                BY <3>4 DEF ActRow
            <4>2. {ActRow(t)[f].n : f \in Router!RefTop(t)}
                    = {Router!RefLogit(t, f) : f \in Router!RefTop(t)}
                BY <2>1, <4>1
            <4> QED BY <2>3, <3>1, <3>3, <3>4, <4>1, <4>2, WeightIs
        <3>5. CASE ~Sigmoid
            <4>1. \A f \in Router!Expert : ActRow(t)[f].n = Router!RefLogit(t, f) - Peak(t)
                BY <3>5 DEF ActRow
            <4>2. {ActRow(t)[f].n : f \in Router!RefTop(t)}
                    = {Router!RefLogit(t, f) - Peak(t) : f \in Router!RefTop(t)}
                BY <2>1, <4>1
            <4>3. Router!RefWeight(t, e) = [n |-> Router!RefLogit(t, e) - Peak(t),
                              d |-> {Router!RefLogit(t, f) - Peak(t) : f \in Router!RefTop(t)}]
                BY <3>5, WeightIs
            <4> QED BY <3>3, <4>1, <4>2, <4>3
        <3> QED BY <3>4, <3>5
    <2> QED BY <2>2, <2>3
<1> HIDE DEF value
<1> QED BY <1>1, <1>3, <1>4 DEF AffRow

(***************************************************************************)
(* The tokens of a core.                                                    *)
(***************************************************************************)
Toks(c) == Router!TOffset(c) .. Router!TOffset(c) + Router!TLocal(c) - 1

\* Every core has some, and the cores have all between them.
LEMMA Shards ==
    ASSUME RouterConstants, shape \in Launches, NEW c \in Router!Core
    PROVE  /\ Router!TOffset(c) \in Nat /\ Router!TLocal(c) \in Nat \ {0}
                /\ Router!TOffset(c) + Router!TLocal(c) <= Router!T
           /\ Router!T \in Nat \ {0} /\ Router!Local(c) = 0 .. Router!TLocal(c) - 1
           /\ \A i \in Router!Local(c) : Router!TOffset(c) + i \in Toks(c)
                /\ Router!TOffset(c) + i \in 0 .. Router!T - 1
           /\ Toks(c) \subseteq 0 .. Router!T - 1
           /\ ~shape.shard => Router!TOffset(c) = 0 /\ Router!TLocal(c) = Router!T
           /\ shape.shard /\ c = 0 => Router!TOffset(c) = 0 /\ Router!TOffset(1) = Router!TLocal(c)
           /\ shape.shard /\ c = 1 => Router!TOffset(c) + Router!TLocal(c) = Router!T
<1>1. Router!T \in Nat \ {0} /\ (shape.shard => Router!T > 1)
    BY LaunchFields
<1>2. Router!TFirst \in Nat /\ Router!TFirst <= Router!T
        /\ (Router!T > 1 => Router!TFirst > 0 /\ Router!TFirst < Router!T)
    BY <1>1 DEF Router!TFirst
<1>3. c \in {0, 1}
    BY DEF Router!Core
<1>4. /\ Router!TOffset(c) \in Nat /\ Router!TLocal(c) \in Nat \ {0}
           /\ Router!TOffset(c) + Router!TLocal(c) <= Router!T
      /\ ~shape.shard => Router!TOffset(c) = 0 /\ Router!TLocal(c) = Router!T
      /\ shape.shard /\ c = 0 => Router!TOffset(c) = 0 /\ Router!TOffset(1) = Router!TLocal(c)
      /\ shape.shard /\ c = 1 => Router!TOffset(c) + Router!TLocal(c) = Router!T
    <2>1. CASE ~shape.shard
        BY <1>1, <2>1 DEF Router!TOffset, Router!TLocal
    <2>2. CASE shape.shard /\ c = 0
        <3>1. Router!TOffset(c) = 0 /\ Router!TLocal(c) = Router!TFirst
                /\ Router!TOffset(1) = Router!TFirst
            BY <2>2 DEF Router!TOffset, Router!TLocal
        <3> QED BY <1>1, <1>2, <2>2, <3>1
    <2>3. CASE shape.shard /\ c = 1
        <3>1. Router!TOffset(c) = Router!TFirst /\ Router!TLocal(c) = Router!T - Router!TFirst
            BY <2>3 DEF Router!TOffset, Router!TLocal
        <3> QED BY <1>1, <1>2, <2>3, <3>1
    <2> QED BY <1>3, <2>1, <2>2, <2>3
<1>5. Router!Local(c) = 0 .. Router!TLocal(c) - 1
    BY DEF Router!Local
<1> QED BY <1>1, <1>4, <1>5 DEF Toks

\* A token belongs to some core that runs.
LEMMA TokenHasCore ==
    ASSUME RouterConstants, shape \in Launches, NEW t \in 0 .. Router!T - 1
    PROVE  \E c \in Router!Cores : c \in Router!Core /\ t \in Toks(c)
<1>1. shape.cores \in {1, 2} /\ (shape.shard => shape.cores = 2) /\ Router!T \in Nat \ {0}
    BY LaunchFields
<1>2. 0 \in Router!Cores /\ 0 \in Router!Core /\ 1 \in Router!Core
        /\ (shape.shard => 1 \in Router!Cores)
    BY <1>1 DEF Router!Cores, Router!Core
<1>3. CASE ~shape.shard
    <2>1. Router!TOffset(0) = 0 /\ Router!TLocal(0) = Router!T
        BY <1>2, <1>3, Shards
    <2>2. t \in Toks(0)
        BY <1>1, <2>1 DEF Toks
    <2> QED BY <1>2, <2>2
<1>4. CASE shape.shard
    <2>1. Router!TOffset(0) = 0 /\ Router!TOffset(1) = Router!TLocal(0)
            /\ Router!TOffset(1) + Router!TLocal(1) = Router!T
          /\ Router!TLocal(0) \in Nat /\ Router!TLocal(1) \in Nat
        BY <1>2, <1>4, Shards
    <2>2. t \in Toks(0) \/ t \in Toks(1)
        BY <1>1, <2>1 DEF Toks
    <2> QED BY <1>2, <1>4, <2>2
<1> QED BY <1>3, <1>4

\* Where a core's token is read and written.
LEMMA PlaceOf ==
    ASSUME RouterConstants, shape \in Launches, NEW c \in Router!Core, NEW i \in Router!Local(c)
    PROVE  /\ Router!HbmRow(c, i) = Router!TOffset(c) + i
           /\ Router!StartT(c, Router!TileOf(i)) + Router!RowOf(i) = Router!TOffset(c) + i
           /\ Router!TileOf(i) \in Nat /\ Router!TileLen(c, Router!TileOf(i)) \in Nat
           /\ Router!RowOf(i) \in 0 .. Router!TileLen(c, Router!TileOf(i)) - 1
           /\ Router!TileLen(c, Router!TileOf(i)) <= P
                /\ Router!TileLen(c, Router!TileOf(i)) <= Router!TLocal(c)
<1>1. P \in Nat \ {0} /\ Router!TOffset(c) \in Nat /\ Router!TLocal(c) \in Nat \ {0}
        /\ i \in 0 .. Router!TLocal(c) - 1
    BY ExpertsCounted, Shards
<1> DEFINE n == Router!TLocal(c)
           o == Router!TOffset(c)
<1> PICK q, r : Splits(i, P, q, r) /\ q = Router!TileOf(i) /\ r = Router!RowOf(i)
    <2>1. i \in Nat
        BY <1>1
    <2>2. Splits(i, P, i \div P, i % P)
        BY <1>1, <2>1, DivModIs
    <2> QED BY <2>2 DEF Router!TileOf, Router!RowOf
<1>2. q \in Nat /\ r \in 0 .. P - 1 /\ i = q * P + r /\ q * P \in Nat
    BY <1>1 DEF Splits
<1>3. n <= P => q = 0
    <2> SUFFICES ASSUME n <= P, q # 0 PROVE FALSE
        OBVIOUS
    <2>1. q * P >= P
        BY <1>1, <1>2
    <2> QED BY <1>1, <1>2, <2>1
<1>4. Router!NumTTiles(c) = 1 => n <= P
    <2> SUFFICES ASSUME Router!NumTTiles(c) = 1 PROVE n <= P
        OBVIOUS
    <2>1. (n + P - 1) \div P = 1 /\ n + P - 1 \in Nat
        BY <1>1 DEF Router!NumTTiles, Router!CeilDiv
    <2>2. Splits(n + P - 1, P, 1, (n + P - 1) % P)
        BY <1>1, <2>1, DivModIs
    <2>3. n + P - 1 < P + P
        BY <1>1, <2>2 DEF Splits
    <2> QED BY <1>1, <2>3
<1>5. Router!HbmRow(c, i) = o + i
    <2>1. Router!HbmRow(c, i) = o + q * Router!TP(c) + r
        BY DEF Router!HbmRow
    <2>2. CASE Router!NumTTiles(c) = 1
        <3>1. q = 0 /\ Router!TP(c) = n
            BY <1>3, <1>4, <2>2 DEF Router!TP
        <3> QED BY <1>1, <1>2, <2>1, <3>1
    <2>3. CASE Router!NumTTiles(c) # 1
        <3>1. Router!TP(c) = P
            BY <2>3 DEF Router!TP
        <3>2. Router!HbmRow(c, i) = o + q * P + r
            BY <2>1, <3>1
        <3> QED BY <1>1, <1>2, <3>2
    <2> QED BY <2>2, <2>3
<1>6. Router!StartT(c, q) + r = o + i
    <2>1. Router!StartT(c, q) = o + q * (IF n < P THEN n ELSE P)
        BY DEF Router!StartT
    <2>2. CASE n < P
        BY <1>1, <1>2, <1>3, <2>1, <2>2
    <2>3. CASE ~(n < P)
        <3>1. Router!StartT(c, q) = o + q * P
            BY <2>1, <2>3
        <3> QED BY <1>1, <1>2, <3>1
    <2> QED BY <2>2, <2>3
<1>7. LET l == Router!TileLen(c, q) IN l \in Nat /\ r \in 0 .. l - 1 /\ l <= P /\ l <= n
    <2>1. Router!TileLen(c, q) = Router!Min({P, n - q * P})
        BY DEF Router!TileLen
    <2> PICK z \in Nat : z = n - q * P /\ r < z /\ z <= n
        BY <1>1, <1>2
    <2>2. Router!TileLen(c, q) = IF P <= z THEN P ELSE z
        BY <1>1, <2>1, MinIs
    <2>3. n \in Nat
        BY <1>1
    <2> HIDE DEF n
    <2> PICK l \in Nat : l = Router!TileLen(c, q) /\ l <= P /\ l <= z /\ l \in {P, z}
        BY <1>1, <2>2
    <2>4. r \in 0 .. l - 1 /\ l <= n
        BY <1>1, <1>2, <2>3
    <2> QED BY <2>4
<1> QED BY <1>2, <1>5, <1>6, <1>7

\* Column tiles cut the array evenly, and a core's tokens fit into one.
LEMMA ColumnsFit ==
    ASSUME RouterConstants, shape \in Launches, NEW c \in Router!Core
    PROVE  /\ Router!ColumnSize(c) \in Nat \ {0} /\ Router!ColumnTiles(c) \in Nat \ {0}
           /\ Router!TLocal(c) <= Router!ColumnSize(c) \/ Router!ColumnSize(c) = P
<1>1. P \in Nat \ {0} /\ P % 4 = 0 /\ Router!TLocal(c) \in Nat
    BY Shards DEF RouterConstants, Router!SizeAssumption
<1> PICK m \in Nat \ {0} : P = 4 * m
    <2>1. \A n \in Nat \ {0} : n % 4 = 0 => n \div 4 \in Nat \ {0} /\ n = 4 * (n \div 4)
        OBVIOUS
    <2> QED BY <1>1, <2>1
<1>2. P \div 4 = m /\ P \div 2 = 2 * m
    OBVIOUS
<1>3. \/ Router!ColumnSize(c) = m /\ Router!TLocal(c) <= m
      \/ Router!ColumnSize(c) = 2 * m /\ Router!TLocal(c) <= 2 * m
      \/ Router!ColumnSize(c) = P
    BY <1>2 DEF Router!ColumnSize
<1>4. CASE Router!ColumnSize(c) = m /\ Router!TLocal(c) <= m
    <2>1. Splits(4 * m, m, 4, 0)
        BY DEF Splits
    <2>2. (4 * m) \div m = 4
        BY <2>1, DivModUnique
    <2> QED BY <1>4, <2>2 DEF Router!ColumnTiles
<1>5. CASE Router!ColumnSize(c) = 2 * m /\ Router!TLocal(c) <= 2 * m
    <2>1. Splits(4 * m, 2 * m, 2, 0)
        BY DEF Splits
    <2>2. (4 * m) \div (2 * m) = 2
        BY <2>1, DivModUnique
    <2> QED BY <1>5, <2>2 DEF Router!ColumnTiles
<1>6. CASE Router!ColumnSize(c) = P
    <2>1. Splits(P, P, 1, 0)
        BY <1>1 DEF Splits
    <2>2. P \div P = 1
        BY <2>1, DivModUnique
    <2> QED BY <1>1, <1>6, <2>2 DEF Router!ColumnTiles
<1> QED BY <1>3, <1>4, <1>5, <1>6

(***************************************************************************)
(* The logits.                                                              *)
(***************************************************************************)

\* In each layout the hidden index of x is that of w.
LEMMA LayoutsMeet ==
    ASSUME RouterConstants, shape \in Launches, NEW p, NEW f
    PROVE  Router!Layout \in 0 .. 3 /\ Router!XHidden(p, f) = Router!WHidden(p, f)
<1>1. Router!Layout \in 0 .. 3
    BY LaunchFields DEF Router!Layout
<1>2. CASE Router!Layout = 0
    BY <1>2 DEF Router!XHidden, Router!WHidden, Router!Tp102, Router!WTp102
<1>3. CASE Router!Layout = 1
    BY <1>3 DEF Router!XHidden, Router!WHidden, Router!Tp2013, Router!WTp2013
<1>4. CASE Router!Layout = 2
    BY <1>4 DEF Router!XHidden, Router!WHidden, Router!Tp201, Router!WTiles
<1>5. CASE Router!Layout = 3
    BY <1>5 DEF Router!XHidden, Router!WHidden, Router!Columns, Router!WTiles
<1> QED BY <1>1, <1>2, <1>3, <1>4, <1>5

\* And each is met once per partition and tile.
LEMMA LayoutCovers ==
    ASSUME RouterConstants, shape \in Launches
    PROVE  {Router!XHidden(p, f) : p \in Router!Partition, f \in Router!HTile}
             = 0 .. P * Router!HTiles - 1
<1>1. P \in Nat \ {0} /\ Router!HTiles \in Nat \ {0} /\ P * Router!HTiles \in Nat
        /\ P * Router!HTiles = Router!HTiles * P
    BY ExpertsCounted, LaunchFields
<1>2. Router!Partition = 0 .. P - 1 /\ Router!HTile = 0 .. Router!HTiles - 1
    BY DEF Router!Partition, Router!HTile
<1> DEFINE Goal ==
             /\ \A p \in Router!Partition, f \in Router!HTile :
                   Router!XHidden(p, f) \in 0 .. P * Router!HTiles - 1
             /\ \A x \in 0 .. P * Router!HTiles - 1 :
                   \E p \in Router!Partition, f \in Router!HTile : Router!XHidden(p, f) = x
<1>3. CASE Router!Layout = 0
    <2>1. \A p, f : Router!XHidden(p, f) = p * Router!HTiles + f
        BY <1>3 DEF Router!XHidden, Router!Tp102
    <2>2. ASSUME NEW p \in Router!Partition, NEW f \in Router!HTile
          PROVE  Router!XHidden(p, f) \in 0 .. P * Router!HTiles - 1
        BY <1>1, <1>2, <2>1, Packed
    <2>3. ASSUME NEW x \in 0 .. P * Router!HTiles - 1
          PROVE  \E p \in Router!Partition, f \in Router!HTile : Router!XHidden(p, f) = x
        <3>1. x \in Nat /\ x < P * Router!HTiles
            BY <1>1
        <3> PICK q, r : Splits(x, Router!HTiles, q, r)
            BY <1>1, <3>1, DivModIs
        <3>2. q \in 0 .. P - 1
            BY <1>1, <3>1, DivLess
        <3>3. r \in 0 .. Router!HTiles - 1 /\ x = q * Router!HTiles + r
            BY DEF Splits
        <3> QED BY <1>2, <2>1, <3>2, <3>3
    <2> QED BY <2>2, <2>3
<1>4. CASE Router!Layout = 2 \/ Router!Layout = 3
    <2>1. \A p, f : Router!XHidden(p, f) = f * P + p
        BY <1>4 DEF Router!XHidden, Router!Tp201, Router!Columns
    <2>2. ASSUME NEW p \in Router!Partition, NEW f \in Router!HTile
          PROVE  Router!XHidden(p, f) \in 0 .. P * Router!HTiles - 1
        <3>1. f * P + p \in 0 .. Router!HTiles * P - 1
            BY <1>1, <1>2, Packed
        <3> QED BY <1>1, <2>1, <3>1
    <2>3. ASSUME NEW x \in 0 .. P * Router!HTiles - 1
          PROVE  \E p \in Router!Partition, f \in Router!HTile : Router!XHidden(p, f) = x
        <3>1. x \in Nat /\ x < Router!HTiles * P
            BY <1>1
        <3> PICK q, r : Splits(x, P, q, r)
            BY <1>1, <3>1, DivModIs
        <3>2. q \in 0 .. Router!HTiles - 1
            BY <1>1, <3>1, DivLess
        <3>3. r \in 0 .. P - 1 /\ x = q * P + r
            BY DEF Splits
        <3> QED BY <1>2, <2>1, <3>2, <3>3
    <2> QED BY <2>2, <2>3
<1>5. CASE Router!Layout = 1
    <2>1. Router!HTiles % 2 = 0
        BY <1>5, LaunchFields DEF Router!Layout
    <2> PICK h \in Nat \ {0} : Router!HTiles = 2 * h /\ Router!HTiles \div 2 = h
        <3>1. \A n \in Nat \ {0} : n % 2 = 0 => n \div 2 \in Nat \ {0} /\ n = 2 * (n \div 2)
            OBVIOUS
        <3> QED BY <1>1, <2>1, <3>1
    <2>2. \A p, f : Router!XHidden(p, f) = (f \div h) * P * h + p * h + (f % h)
        BY <1>5 DEF Router!XHidden, Router!Tp2013
    <2>3. ASSUME NEW a \in 0 .. 1, NEW p \in 0 .. P - 1, NEW b \in 0 .. h - 1
          PROVE  /\ a * h + b \in Router!HTile /\ Router!XHidden(p, a * h + b) = (a * P + p) * h + b
                 /\ a * P + p \in 0 .. 2 * P - 1
        <3>1. Splits(a * h + b, h, a, b)
            BY DEF Splits
        <3>2. (a * h + b) \div h = a /\ (a * h + b) % h = b
            BY <3>1, DivModUnique
        <3>3. Router!XHidden(p, a * h + b) = a * P * h + p * h + b
            BY <2>2, <3>2
        <3>4. a * P * h + p * h + b = (a * P + p) * h + b
            BY <1>1
        <3>5. a * h + b \in Router!HTile
            BY <1>2
        <3>6. a * P + p \in 0 .. 2 * P - 1
            BY <1>1
        <3> QED BY <3>3, <3>4, <3>5, <3>6
    <2>4. P * Router!HTiles = (2 * P) * h /\ 2 * P \in Nat \ {0}
        BY <1>1
    <2>5. ASSUME NEW p \in Router!Partition, NEW f \in Router!HTile
          PROVE  Router!XHidden(p, f) \in 0 .. P * Router!HTiles - 1
        <3>1. f \in Nat /\ f < 2 * h
            BY <1>2
        <3> PICK a, b : Splits(f, h, a, b)
            BY <3>1, DivModIs
        <3> PICK two \in Nat : two = 2 /\ f < two * h
            BY <3>1
        <3>2. a \in 0 .. two - 1
            BY DivLess
        <3>3. b \in 0 .. h - 1 /\ f = a * h + b
            BY DEF Splits
        <3>4. Router!XHidden(p, f) = (a * P + p) * h + b /\ a * P + p \in 0 .. 2 * P - 1
            <4>1. a \in 0 .. 1 /\ p \in 0 .. P - 1 /\ b \in 0 .. h - 1
                BY <1>2, <3>2, <3>3
            <4>2. Router!XHidden(p, a * h + b) = (a * P + p) * h + b /\ a * P + p \in 0 .. 2 * P - 1
                BY <2>3, <4>1
            <4> QED BY <3>3, <4>2, Zenon
        <3>5. (a * P + p) * h + b \in 0 .. (2 * P) * h - 1
            BY <2>4, <3>3, <3>4, Packed
        <3> QED BY <2>4, <3>4, <3>5
    <2>6. ASSUME NEW x \in 0 .. P * Router!HTiles - 1
          PROVE  \E p \in Router!Partition, f \in Router!HTile : Router!XHidden(p, f) = x
        <3>1. x \in Nat /\ x < (2 * P) * h
            BY <1>1, <2>4
        <3> PICK y, b : Splits(x, h, y, b)
            BY <3>1, DivModIs
        <3>2. y \in 0 .. 2 * P - 1
            BY <2>4, <3>1, DivLess
        <3>3. b \in 0 .. h - 1 /\ x = y * h + b /\ y \in Nat /\ y < 2 * P
            BY <1>1, <3>2 DEF Splits
        <3> PICK a, p : Splits(y, P, a, p)
            BY <1>1, <3>3, DivModIs
        <3>4. a \in 0 .. 1
            BY <3>3, DivLess
        <3>5. p \in 0 .. P - 1 /\ y = a * P + p
            BY DEF Splits
        <3>6. Router!XHidden(p, a * h + b) = x /\ a * h + b \in Router!HTile
            BY <2>3, <3>3, <3>4, <3>5
        <3> QED BY <1>2, <3>5, <3>6
    <2> QED BY <2>5, <2>6
<1>6. Goal
    BY <1>3, <1>4, <1>5, LayoutsMeet
<1>7. \A x : x \in {Router!XHidden(p, f) : p \in Router!Partition,
        f \in Router!HTile} <=> x \in 0 .. P * Router!HTiles - 1
    <2> HIDE DEF Router!Partition, Router!HTile
    <2> QED BY <1>6
<1> QED BY <1>7

\* A remainder is below the divisor and no more than the number.
LEMMA SplitsParts ==
    ASSUME NEW a, NEW b, NEW q, NEW r, Splits(a, b, q, r)
    PROVE  r \in Nat /\ r < b /\ r <= a /\ q \in Nat /\ q <= a
<1>1. q * b \in Nat /\ q * b >= q
    BY SMT DEF Splits
<1> QED BY <1>1, SMT DEF Splits

\* A matmul writes the slots of its column tile.
LEMMA PsumIs ==
    ASSUME RouterConstants, shape \in Launches, NEW c \in Router!Core, NEW i \in Router!Local(c),
           NEW j \in 0 .. Router!ColumnTiles(c) - 1
    PROVE  Router!Psum(c, Router!TileOf(i), j * Router!ColumnSize(c) + Router!RowOf(i)) =
              {w \in {Router!RowOf(i)} \X Router!HTile \X Router!Partition :
                  w[2] % Router!ColumnTiles(c) = j}
<1> DEFINE size == Router!ColumnSize(c)
           tiles == Router!ColumnTiles(c)
           len == Router!TileLen(c, Router!TileOf(i))
           r == Router!RowOf(i)
           W == (0 .. len - 1) \X Router!HTile \X Router!Partition
<1>1. size \in Nat \ {0} /\ tiles \in Nat \ {0} /\ len \in Nat /\ r \in 0 .. len - 1
    BY ColumnsFit, PlaceOf
<1>2. \A x \in 0 .. len - 1 : x \in 0 .. size - 1
    <2>1. len <= P /\ len <= Router!TLocal(c) /\ Router!TLocal(c) \in Nat
            /\ (Router!TLocal(c) <= size \/ size = P)
        BY ColumnsFit, PlaceOf, Shards
    <2> HIDE DEF size, len
    <2>2. len <= size
        BY <1>1, <2>1, ExpertsCounted
    <2> QED BY <1>1, <2>2
<1>3. Router!Psum(c, Router!TileOf(i), j * size + r)
        = {w \in W : (w[2] % tiles) * size + w[1] = j * size + r}
    BY DEF Router!Psum, Router!ColumnOffset
<1>4. ASSUME NEW w \in W
      PROVE  (w[2] % tiles) * size + w[1] = j * size + r <=> w[1] = r /\ w[2] % tiles = j
    <2> PICK x, f, p : w = <<x, f, p>> /\ x \in 0 .. len - 1 /\ f \in Router!HTile
        OBVIOUS
    <2>1. f \in Nat
        BY LaunchFields DEF Router!HTile
    <2> HIDE DEF size, tiles, len, r
    <2>2. f % tiles \in Nat /\ j \in Nat /\ x \in 0 .. size - 1 /\ r \in 0 .. size - 1
        BY <1>1, <1>2, <2>1 DEF tiles
    <2> PICK m \in Nat : m = f % tiles
        BY <2>2
    <2>3. ASSUME m * size + x = j * size + r PROVE x = r /\ m = j
        <3> DEFINE n == j * size + r
        <3>1. n \in Nat
            BY <1>1, <2>2
        <3>2. Splits(n, size, m, x) /\ Splits(n, size, j, r)
            BY <1>1, <2>2, <2>3, <3>1 DEF Splits
        <3> HIDE DEF n
        <3> QED BY <3>2, DivModUnique
    <2>4. w[1] = x /\ w[2] = f
        OBVIOUS
    <2> QED BY <2>3, <2>4
<1> DEFINE R == {r} \X Router!HTile \X Router!Partition
<1>5. \A w : w \in R <=> w \in W /\ w[1] = r
    <2>1. \A w \in R : w \in W /\ w[1] = r
        BY <1>1
    <2>2. \A w \in W : w[1] = r => w \in R
        OBVIOUS
    <2> QED BY <2>1, <2>2
<1> HIDE DEF size, tiles, r, W, R, len
<1>6. {w \in W : (w[2] % tiles) * size + w[1] = j * size + r} = {w \in R : w[2] % tiles = j}
    BY <1>4, <1>5
<1> QED BY <1>3, <1>6 DEF size, tiles, r, R

\* So every sum is whole.
LEMMA WholeIs ==
    ASSUME RouterConstants, shape \in Launches, NEW c \in Router!Core, NEW i \in Router!Local(c)
    PROVE  Router!Whole(c, Router!TileOf(i), Router!RowOf(i))
<1> DEFINE size == Router!ColumnSize(c)
           tiles == Router!ColumnTiles(c)
           active == Router!ActiveTiles(c)
           t == Router!TileOf(i)
           r == Router!RowOf(i)
           R == {r} \X Router!HTile \X Router!Partition
           sum(j) == Router!Psum(c, t, j * size + r)
<1>1. tiles \in Nat \ {0} /\ Router!HTiles \in Nat \ {0} /\ Router!HTile = 0 .. Router!HTiles - 1
        /\ 0 \in Router!Partition
    BY ColumnsFit, LaunchFields, ExpertsCounted DEF Router!HTile, Router!Partition
<1>2. active \in Nat /\ active <= tiles /\ active <= Router!HTiles
      /\ \A n \in Nat : n < tiles /\ n < Router!HTiles => n < active
    <2>1. active = IF Router!HTiles <= tiles THEN Router!HTiles ELSE tiles
        BY <1>1, MinIs DEF Router!ActiveTiles
    <2> QED BY <1>1, <2>1
<1>3. \A j \in 0 .. active - 1 : j \in 0 .. tiles - 1 /\ j \in Router!HTile
    BY <1>1, <1>2
<1>4. ASSUME NEW j \in 0 .. active - 1 PROVE sum(j) = {w \in R : w[2] % tiles = j}
    BY <1>3, PsumIs
<1>5. ASSUME NEW j \in 0 .. active - 1 PROVE sum(j) # {}
    <2>1. <<r, j, 0>> \in R /\ <<r, j, 0>>[2] = j
        BY <1>1, <1>3
    <2>2. j % tiles = j
        <3>1. Splits(j, tiles, 0, j)
            BY <1>1, <1>3 DEF Splits
        <3> QED BY <3>1, DivModUnique
    <2> HIDE DEF sum, R
    <2> QED BY <1>4, <2>1, <2>2
<1>6. UNION {sum(j) : j \in 0 .. active - 1} = R
    <2>1. ASSUME NEW w \in R PROVE \E j \in 0 .. active - 1 : w \in sum(j)
        <3>1. w[2] \in Nat /\ w[2] < Router!HTiles
            BY <1>1
        <3> PICK n \in Nat : n = w[2]
            BY <3>1
        <3>2. Splits(n, tiles, n \div tiles, n % tiles)
            BY <1>1, DivModIs
        <3> PICK q, j : Splits(n, tiles, q, j) /\ j = n % tiles
            BY <3>2
        <3>3. j \in Nat /\ j < tiles /\ j <= n
            <4> HIDE DEF tiles
            <4> QED BY SplitsParts
        <3>4. j \in 0 .. active - 1
            BY <1>1, <1>2, <3>1, <3>3
        <3> HIDE DEF sum, R
        <3>5. w \in sum(j)
            BY <1>4, <3>4
        <3> QED BY <3>4, <3>5
    <2> HIDE DEF sum, R
    <2>2. \A j \in 0 .. active - 1 : sum(j) \subseteq R
        BY <1>4
    <2> QED BY <2>1, <2>2
<1>7. Router!Merged(c, t, r) = R
    BY <1>6 DEF Router!Merged
<1>8. \A j \in 0 .. active - 1 : Router!Psum(c, t, j * size + r) # {}
    BY <1>5
<1> QED BY <1>7, <1>8, LayoutsMeet, LayoutCovers DEF Router!Whole

\* A core's logits are those of its tokens.
LEMMA LogitsAre ==
    ASSUME RouterConstants, shape \in Launches, NEW c \in Router!Core, NEW i \in Router!Local(c)
    PROVE  Router!LogitRow(c, i) = Row(Router!TOffset(c) + i)
<1>1. Router!StartT(c, Router!TileOf(i)) + Router!RowOf(i) = Router!TOffset(c) + i
    BY PlaceOf
<1> QED BY <1>1, WholeIs DEF Router!LogitRow, Row, Router!RefLogit

(***************************************************************************)
(* What the cores have when they are at a step.                             *)
(***************************************************************************)
BeforeTop == {"logits", "act1", "fullmeet", "topk"}
Weighed == {"affmeet", "swapaff", "zero", "indirect", "eager", "swapeager", "done"}
Late == {"eager", "swapeager", "done"}
Flat == 0 .. Router!T * RouterExperts - 1
AffAt(x) == AffRow(x \div RouterExperts)[x % RouterExperts]

\* The steps a launch has, and the tiles of the indirect store.
PcIs(c, at, n) ==
    /\ at \in BeforeTop \cup Weighed \cup {"swapidx", "weigh"}
    /\ at = "act1" => shape.pre
    /\ at = "fullmeet" => ~Router!Scatters /\ shape.cores = 2
    /\ at = "swapidx" => shape.idxSb /\ shape.shard
    /\ at = "weigh" => Router!Scatters
    /\ at \in {"zero", "indirect"} => Router!Scatters /\ shape.indirect /\ n < Router!NumTTiles(c)
    /\ at = "affmeet" => Router!Scatters /\ ~shape.indirect /\ ~shape.affSb
    /\ at = "swapaff" => Router!Scatters /\ shape.affSb /\ shape.shard
    /\ at = "swapeager" => shape.eager /\ shape.shard
    /\ n \in 0 .. Router!NumTTiles(c)
    /\ at \notin Weighed => n = 0
    /\ Router!Scatters /\ shape.indirect /\ at \in Late => n = Router!NumTTiles(c)

\* Its intermediates.
MemIs(c, at, s) ==
    /\ s = [logits |-> s.logits, act |-> s.act, index |-> s.index,
            eager |-> s.eager, hot |-> s.hot]
    /\ at # "logits" => s.logits = [i \in Router!Local(c) |-> Row(Router!TOffset(c) + i)]
    /\ shape.pre /\ at \notin {"logits", "act1"} =>
          s.act = [i \in Router!Local(c) |-> ActRow(Router!TOffset(c) + i)]
    /\ at \in BeforeTop => s.index = <<>>
    /\ at \notin BeforeTop => s.index = [i \in Router!Local(c) |-> Best(Router!TOffset(c) + i)]
    /\ Router!Scatters /\ at \in Weighed
         => s.eager = [i \in Router!Local(c) |-> EagerRow(Router!TOffset(c) + i)]
    /\ Router!Scatters /\ ~shape.indirect /\ at \in Weighed =>
          s.hot = [i \in Router!Local(c) |-> AffRow(Router!TOffset(c) + i)]

\* The outputs it holds of all tokens.
OutIs(at, o) ==
    /\ o = [idx |-> o.idx, aff |-> o.aff, eager |-> o.eager]
    /\ shape.idxSb /\ at \notin BeforeTop \cup {"swapidx"} =>
          o.idx = [t \in 0 .. Router!T - 1 |-> Best(t)]
    /\ shape.affSb /\ at \in Late => o.aff = [t \in 0 .. Router!T - 1 |-> AffRow(t)]
    /\ shape.eager /\ at = "done" => o.eager = [t \in 0 .. Router!T - 1 |-> EagerRow(t)]

\* Those of its tokens in HBM.
HbmIs(c, at, h) ==
    /\ at # "logits" => \A t \in Toks(c) : h.logits[t] = Row(t)
    /\ ~shape.idxSb /\ at \notin BeforeTop => \A t \in Toks(c) : h.idx[t] = Best(t)
    /\ \/ ~Router!Scatters /\ at \notin {"logits", "act1"}
       \/ Router!Scatters /\ ~shape.indirect /\ ~shape.affSb /\ at \in Weighed
       => \A x \in Flat : x \div RouterExperts \in Toks(c) => h.aff[x] = AffAt(x)

HbmShape(h) ==
    /\ h = [logits |-> h.logits, idx |-> h.idx, aff |-> h.aff]
    /\ DOMAIN h.logits = 0 .. Router!T - 1 /\ DOMAIN h.idx = 0 .. Router!T - 1
         /\ DOMAIN h.aff = Flat

\* No core is past a barrier the other has not come to.
BarrierIs(p) ==
    \A c, d \in Router!Cores :
        /\ ~Router!Scatters /\ shape.cores = 2 /\ p[c] \notin {"logits", "act1", "fullmeet"} =>
              p[d] \notin {"logits", "act1"}
        /\ Router!Scatters /\ ~shape.indirect /\ ~shape.affSb /\ p[c] \in Late => p[d] \in Weighed

\* The tokens of a tile of the indirect store, and those a core has written.
TileToks(c, n) ==
    Router!TOffset(c) + n * Router!TP(c)
        .. Router!TOffset(c) + n * Router!TP(c) + Router!TP(c) - 1
Touches(c, at, n, t) == at = "indirect" /\ t \in TileToks(c, n)
Reached(c, at, n, t) ==
    \E m \in 0 .. Router!NumTTiles(c) - 1 :
        t \in TileToks(c, m) /\ (m < n \/ (m = n /\ at = "indirect"))

\* What they find there: the weight, or the zeros of a core about to write it.
IndirectIs(p, n, h) ==
    Router!Scatters /\ shape.indirect =>
        \A c \in Router!Cores, x \in Flat :
            Reached(c, p[c], n[c], x \div RouterExperts) =>
                \/ h.aff[x] = AffAt(x)
                \/ h.aff[x] = Router!Zero
                     /\ \E d \in Router!Cores : Touches(d, p[d], n[d], x \div RouterExperts)

RouterByCore ==
    /\ pc = [c \in Router!Core |-> pc[c]] /\ tile = [c \in Router!Core |-> tile[c]]
    /\ sb = [c \in Router!Core |-> sb[c]] /\ out = [c \in Router!Core |-> out[c]]

RouterCoreIs(c) ==
    /\ PcIs(c, pc[c], tile[c]) /\ MemIs(c, pc[c], sb[c])
    /\ OutIs(pc[c], out[c]) /\ HbmIs(c, pc[c], hbm)

RouterInv ==
    /\ shape \in Launches
    /\ RouterByCore /\ HbmShape(hbm)
    /\ \A c \in Router!Core \ Router!Cores : pc[c] = "done" /\ tile[c] = 0 /\ sb[c].index = <<>>
    /\ \A c \in Router!Cores : RouterCoreIs(c)
    /\ BarrierIs(pc) /\ IndirectIs(pc, tile, hbm)

\* The operators of a launch stay while it does.
LEMMA FixedRouter ==
    ASSUME shape' = shape
    PROVE  /\ Router!T' = Router!T /\ Router!Cores' = Router!Cores
                /\ Router!Scatters' = Router!Scatters /\ Flat' = Flat
           /\ \A t : /\ Row(t)' = Row(t) /\ Best(t)' = Best(t) /\ ActRow(t)' = ActRow(t)
                     /\ EagerRow(t)' = EagerRow(t) /\ AffRow(t)' = AffRow(t)
           /\ \A x : AffAt(x)' = AffAt(x)
           /\ \A c : /\ Router!TOffset(c)' = Router!TOffset(c)
                          /\ Router!TLocal(c)' = Router!TLocal(c)
                     /\ Router!Local(c)' = Router!Local(c) /\ Toks(c)' = Toks(c)
                     /\ Router!NumTTiles(c)' = Router!NumTTiles(c) /\ Router!TP(c)' = Router!TP(c)
<1>1. Router!T' = Router!T /\ Router!Cores' = Router!Cores /\ Router!Scatters' = Router!Scatters
        /\ Sigmoid' = Sigmoid
    BY DEF Router!T, Router!Cores, Router!Scatters, Sigmoid
<1>2. ASSUME NEW c
      PROVE  /\ Router!TOffset(c)' = Router!TOffset(c) /\ Router!TLocal(c)' = Router!TLocal(c)
             /\ Router!Local(c)' = Router!Local(c) /\ Toks(c)' = Toks(c)
             /\ Router!NumTTiles(c)' = Router!NumTTiles(c) /\ Router!TP(c)' = Router!TP(c)
    <2>1. Router!TOffset(c)' = Router!TOffset(c) /\ Router!TLocal(c)' = Router!TLocal(c)
        BY <1>1 DEF Router!TOffset, Router!TLocal, Router!TFirst
    <2>2. Router!NumTTiles(c)' = Router!NumTTiles(c)
        BY <2>1 DEF Router!NumTTiles
    <2> QED BY <2>1, <2>2 DEF Router!Local, Toks, Router!TP
<1>3. \A t, e : Router!RefLogit(t, e)' = Router!RefLogit(t, e)
    BY DEF Router!RefLogit
<1>4. ASSUME NEW t PROVE Row(t)' = Row(t)
    BY <1>3 DEF Row
<1>5. ASSUME NEW t PROVE Best(t)' = Best(t) /\ Peak(t)' = Peak(t)
    BY <1>3, <1>4 DEF Best, Peak
<1>6. ASSUME NEW t PROVE Router!RefTop(t)' = Router!RefTop(t)
    <2>1. ASSUME NEW e PROVE Router!RefRank(t, e)' = Router!RefRank(t, e)
        BY <1>3 DEF Router!RefRank
    <2> QED BY <2>1 DEF Router!RefTop
<1>7. ASSUME NEW t, NEW e PROVE Router!RefWeight(t, e)' = Router!RefWeight(t, e)
    <2> DEFINE all == {Router!RefLogit(t, f) : f \in Router!Expert}
               top == {Router!RefLogit(t, f) : f \in Router!RefTop(t)}
               among == IF Router!Scatters THEN Router!RefTop(t) ELSE Router!Expert
               over == {Router!RefLogit(t, f) - Router!Max(all) : f \in among}
    <2>1. all' = all /\ Router!Max(all)' = Router!Max(all)
        BY <1>3
    <2>2. top' = top
        BY <1>3, <1>6
    <2>3. among' = among
        BY <1>1, <1>6
    <2>4. over' = over
        <3> HIDE DEF all, among
        <3> QED BY <1>3, <2>1, <2>3
    <2>5. Router!RefWeight(t, e) =
             IF shape.act = "sigmoid"
             THEN [n |-> Router!RefLogit(t, e), d |-> IF shape.pre /\ shape.norm THEN top ELSE {}]
             ELSE [n |-> Router!RefLogit(t, e) - Router!Max(all), d |-> over]
        BY DEF Router!RefWeight
    <2>6. (Router!RefWeight(t, e) =
             IF shape.act = "sigmoid"
             THEN [n |-> Router!RefLogit(t, e), d |-> IF shape.pre /\ shape.norm THEN top ELSE {}]
             ELSE [n |-> Router!RefLogit(t, e) - Router!Max(all), d |-> over])'
        BY DEF Router!RefWeight
    <2> HIDE DEF all, top, among, over
    <2>7. Router!Max(all)' = Router!Max(all)
        BY <2>1
    <2> QED BY <1>3, <2>2, <2>4, <2>5, <2>6, <2>7
<1>8. ASSUME NEW t
      PROVE ActRow(t)' = ActRow(t) /\ EagerRow(t)' = EagerRow(t) /\ AffRow(t)' = AffRow(t)
    <2>1. ActRow(t)' = ActRow(t)
        BY <1>1, <1>3, <1>5 DEF ActRow
    <2>2. EagerRow(t)' = EagerRow(t)
        BY <1>5, <1>7 DEF EagerRow
    <2>3. AffRow(t)' = AffRow(t)
        BY <1>1, <1>6, <1>7 DEF AffRow
    <2> QED BY <2>1, <2>2, <2>3
<1>9. \A x : AffAt(x)' = AffAt(x)
    BY <1>8 DEF AffAt
<1> QED BY <1>1, <1>2, <1>4, <1>5, <1>8, <1>9 DEF Flat

\* So each part of the invariant speaks of the same launch after a step.
LEMMA FixedRouterParts ==
    ASSUME shape' = shape
    PROVE  /\ \A c, at, n : PcIs(c, at, n)' = PcIs(c, at, n)
           /\ \A c, at, s : MemIs(c, at, s)' = MemIs(c, at, s)
           /\ \A at, o : OutIs(at, o)' = OutIs(at, o)
           /\ \A c, at, h : HbmIs(c, at, h)' = HbmIs(c, at, h)
           /\ \A h : HbmShape(h)' = HbmShape(h)
           /\ \A p : BarrierIs(p)' = BarrierIs(p)
           /\ \A p, n, h : IndirectIs(p, n, h)' = IndirectIs(p, n, h)
<1>1. Router!Scatters' = Router!Scatters /\ Router!Cores' = Router!Cores /\ Flat' = Flat
        /\ Router!T' = Router!T
    BY FixedRouter
<1>2. ASSUME NEW c, NEW at, NEW n PROVE PcIs(c, at, n)' = PcIs(c, at, n)
    <2>1. Router!NumTTiles(c)' = Router!NumTTiles(c)
        BY FixedRouter
    <2> QED BY <1>1, <2>1 DEF PcIs
<1>3. ASSUME NEW c, NEW at, NEW s PROVE MemIs(c, at, s)' = MemIs(c, at, s)
    <2>1. Router!Local(c)' = Router!Local(c) /\ Router!TOffset(c)' = Router!TOffset(c)
        BY FixedRouter
    <2>2. \A i : /\ Row(Router!TOffset(c) + i)' = Row(Router!TOffset(c) + i)
                 /\ ActRow(Router!TOffset(c) + i)' = ActRow(Router!TOffset(c) + i)
                 /\ Best(Router!TOffset(c) + i)' = Best(Router!TOffset(c) + i)
                 /\ EagerRow(Router!TOffset(c) + i)' = EagerRow(Router!TOffset(c) + i)
                 /\ AffRow(Router!TOffset(c) + i)' = AffRow(Router!TOffset(c) + i)
        <3> SUFFICES ASSUME NEW i PROVE
                 /\ Row(Router!TOffset(c) + i)' = Row(Router!TOffset(c) + i)
                 /\ ActRow(Router!TOffset(c) + i)' = ActRow(Router!TOffset(c) + i)
                 /\ Best(Router!TOffset(c) + i)' = Best(Router!TOffset(c) + i)
                 /\ EagerRow(Router!TOffset(c) + i)' = EagerRow(Router!TOffset(c) + i)
                 /\ AffRow(Router!TOffset(c) + i)' = AffRow(Router!TOffset(c) + i)
            OBVIOUS
        <3>1. Row(Router!TOffset(c) + i)' = Row(Router!TOffset(c) + i)
            BY <2>1, FixedRouter
        <3> QED BY <2>1, FixedRouter
    <2> QED BY <1>1, <2>1, <2>2 DEF MemIs
<1>4. ASSUME NEW at, NEW o PROVE OutIs(at, o)' = OutIs(at, o)
    <2>1. \A t : Best(t)' = Best(t) /\ AffRow(t)' = AffRow(t) /\ EagerRow(t)' = EagerRow(t)
        BY FixedRouter
    <2> QED BY <1>1, <2>1 DEF OutIs
<1>5. ASSUME NEW c, NEW at, NEW h PROVE HbmIs(c, at, h)' = HbmIs(c, at, h)
    <2>1. Toks(c)' = Toks(c)
        BY FixedRouter
    <2>2. \A t : Best(t)' = Best(t) /\ Row(t)' = Row(t)
        BY FixedRouter
    <2>3. \A x : AffAt(x)' = AffAt(x)
        BY FixedRouter
    <2> QED BY <1>1, <2>1, <2>2, <2>3 DEF HbmIs
<1>6. ASSUME NEW h PROVE HbmShape(h)' = HbmShape(h)
    BY <1>1 DEF HbmShape
<1>7. ASSUME NEW p PROVE BarrierIs(p)' = BarrierIs(p)
    BY <1>1 DEF BarrierIs
<1>8. ASSUME NEW p, NEW n, NEW h PROVE IndirectIs(p, n, h)' = IndirectIs(p, n, h)
    <2>1. \A c, m : TileToks(c, m)' = TileToks(c, m)
        <3> SUFFICES ASSUME NEW c, NEW m PROVE TileToks(c, m)' = TileToks(c, m)
            OBVIOUS
        <3>1. Router!TOffset(c)' = Router!TOffset(c) /\ Router!TP(c)' = Router!TP(c)
            BY FixedRouter
        <3> QED BY <3>1 DEF TileToks
    <2>2. \A c : Router!NumTTiles(c)' = Router!NumTTiles(c)
        BY FixedRouter
    <2>3. \A c, at, m, t : /\ Reached(c, at, m, t)' = Reached(c, at, m, t)
                           /\ Touches(c, at, m, t)' = Touches(c, at, m, t)
        <3> SUFFICES ASSUME NEW c, NEW at, NEW m, NEW t
                     PROVE  /\ Reached(c, at, m, t)' = Reached(c, at, m, t)
                            /\ Touches(c, at, m, t)' = Touches(c, at, m, t)
            OBVIOUS
        <3> QED BY <2>1, <2>2 DEF Reached, Touches
    <2>4. \A x : AffAt(x)' = AffAt(x)
        BY FixedRouter
    <2> QED BY <1>1, <2>3, <2>4 DEF IndirectIs
<1> QED BY <1>2, <1>3, <1>4, <1>5, <1>6, <1>7, <1>8

\* A step of one core that takes it no further back past a barrier.
OneRouterCore(c, at, n, s, o, h) ==
    /\ shape' = shape
    /\ pc' = [pc EXCEPT ![c] = at] /\ tile' = [tile EXCEPT ![c] = n]
    /\ sb' = [sb EXCEPT ![c] = s] /\ out' = [out EXCEPT ![c] = o] /\ hbm' = h
Onward(c, at) ==
    /\ ~Router!Scatters /\ shape.cores = 2 =>
          /\ at \notin {"logits", "act1", "fullmeet"} =>
                pc[c] \notin {"logits", "act1", "fullmeet"}
          /\ at \in {"logits", "act1"} => pc[c] \in {"logits", "act1"}
    /\ Router!Scatters /\ ~shape.indirect /\ ~shape.affSb =>
          /\ at \in Late => pc[c] \in Late
          /\ pc[c] \in Weighed => at \in Weighed

\* What it leaves in HBM is what the other core had there, or what it is due.
Kept(h) ==
    /\ HbmShape(h)
    /\ \A t \in 0 .. Router!T - 1 : h.logits[t] = hbm.logits[t] \/ h.logits[t] = Row(t)
    /\ \A t \in 0 .. Router!T - 1 : h.idx[t] = hbm.idx[t] \/ h.idx[t] = Best(t)
    /\ \/ Router!Scatters /\ shape.indirect
       \/ \A x \in Flat : h.aff[x] = hbm.aff[x] \/ h.aff[x] = AffAt(x)

\* What a core finds of its own in HBM survives the other core's stores.
LEMMA HbmStays ==
    ASSUME RouterConstants, shape \in Launches, NEW d \in Router!Core, NEW at, HbmIs(d, at, hbm),
           NEW h, Kept(h)
    PROVE  HbmIs(d, at, h)
<1>1. Toks(d) \subseteq 0 .. Router!T - 1
    BY Shards
<1> QED BY <1>1 DEF HbmIs, Kept

\* A step of one core that keeps what the core has, keeps the invariant.
LEMMA OneCoreKeeps ==
    ASSUME RouterConstants, RouterInv, NEW c \in Router!Cores,
           NEW at, NEW n, NEW s, NEW o, NEW h, OneRouterCore(c, at, n, s, o, h),
           Onward(c, at), PcIs(c, at, n), MemIs(c, at, s), OutIs(at, o), HbmIs(c, at, h), Kept(h),
           IndirectIs(pc', tile', h)
    PROVE  RouterInv'
<1>1. shape' = shape /\ shape \in Launches
    BY DEF OneRouterCore, RouterInv
<1>2. c \in Router!Core /\ Router!Cores \subseteq Router!Core
    <2>1. shape.cores \in {1, 2}
        BY <1>1, LaunchFields
    <2> QED BY <2>1 DEF Router!Cores, Router!Core
<1>3. /\ pc'[c] = at /\ tile'[c] = n /\ sb'[c] = s /\ out'[c] = o /\ hbm' = h
      /\ \A d \in Router!Core : d # c => /\ pc'[d] = pc[d] /\ tile'[d] = tile[d]
                                  /\ sb'[d] = sb[d] /\ out'[d] = out[d]
      /\ RouterByCore'
    BY <1>2 DEF OneRouterCore, RouterInv, RouterByCore
<1>4. HbmShape(hbm)'
    <2>1. HbmShape(hbm')
        BY <1>3 DEF Kept
    <2> QED BY <1>1, <2>1, FixedRouterParts
<1>5. (\A d \in Router!Core \ Router!Cores : pc[d] = "done" /\ tile[d] = 0 /\ sb[d].index = <<>>)'
    <2>1. Router!Cores' = Router!Cores
        BY <1>1, FixedRouter
    <2> QED BY <1>2, <1>3, <2>1 DEF RouterInv
<1>6. ASSUME NEW d \in Router!Cores PROVE RouterCoreIs(d)'
    <2>1. PcIs(d, pc'[d], tile'[d]) /\ MemIs(d, pc'[d], sb'[d])
          /\ OutIs(pc'[d], out'[d]) /\ HbmIs(d, pc'[d], hbm')
        <3>1. CASE d = c
            BY <1>3, <3>1
        <3>2. CASE d # c
            <4>1. RouterCoreIs(d) /\ d \in Router!Core
                BY <1>2 DEF RouterInv
            <4>2. HbmIs(d, pc[d], h)
                BY <1>1, <4>1, HbmStays DEF RouterCoreIs
            <4> QED BY <1>3, <3>2, <4>1, <4>2 DEF RouterCoreIs
        <3> QED BY <3>1, <3>2
    <2>2. PcIs(d, pc[d], tile[d])' /\ MemIs(d, pc[d], sb[d])'
        BY <1>1, <2>1, FixedRouterParts
    <2>3. OutIs(pc[d], out[d])' /\ HbmIs(d, pc[d], hbm)'
        BY <1>1, <2>1, FixedRouterParts
    <2> QED BY <2>2, <2>3 DEF RouterCoreIs
<1>7. BarrierIs(pc)'
    <2>1. BarrierIs(pc')
        <3> SUFFICES ASSUME NEW d \in Router!Cores, NEW e \in Router!Cores
                     PROVE  /\ ~Router!Scatters /\ shape.cores = 2
                                 /\ pc'[d] \notin {"logits", "act1", "fullmeet"} =>
                                    pc'[e] \notin {"logits", "act1"}
                            /\ Router!Scatters /\ ~shape.indirect /\ ~shape.affSb
                                 /\ pc'[d] \in Late =>
                                    pc'[e] \in Weighed
            BY DEF BarrierIs
        <3>1. /\ ~Router!Scatters /\ shape.cores = 2
                   /\ pc[d] \notin {"logits", "act1", "fullmeet"} =>
                    pc[e] \notin {"logits", "act1"}
              /\ Router!Scatters /\ ~shape.indirect /\ ~shape.affSb /\ pc[d] \in Late
                   => pc[e] \in Weighed
            BY DEF RouterInv, BarrierIs
        <3>2. /\ d # c => pc'[d] = pc[d]
              /\ e # c => pc'[e] = pc[e]
            BY <1>2, <1>3
        <3> QED BY <1>3, <3>1, <3>2 DEF Onward
    <2> QED BY <1>1, <2>1, FixedRouterParts
<1>8. IndirectIs(pc, tile, hbm)'
    <2>1. IndirectIs(pc', tile', hbm')
        BY <1>3
    <2> QED BY <1>1, <2>1, FixedRouterParts
<1>9. shape' \in Launches
    BY <1>1
<1>10. (\A d \in Router!Cores : RouterCoreIs(d))'
    <2>1. Router!Cores' = Router!Cores
        BY <1>1, FixedRouter
    <2> QED BY <1>6, <2>1
<1> QED BY <1>3, <1>4, <1>5, <1>7, <1>8, <1>9, <1>10 DEF RouterInv

\* A step both cores take from one step to the next.
MeetKeepsAll(here, there) ==
    /\ \A c \in Router!Core : pc[c] = here
    /\ shape' = shape /\ pc' = [c \in Router!Core |-> there]
    /\ tile' = tile /\ sb' = sb /\ hbm' = hbm /\ out' = [c \in Router!Core |-> out'[c]]

\* And so does a step of both cores.
LEMMA MeetKeeps ==
    ASSUME RouterConstants, RouterInv, NEW here, NEW there, MeetKeepsAll(here, there),
           here # "done",
           there \in {"topk", "weigh", "eager", "done"},
           \A c \in Router!Core : /\ PcIs(c, there, tile[c]) /\ MemIs(c, there, sb[c])
                           /\ OutIs(there, out'[c]) /\ HbmIs(c, there, hbm),
           Router!Scatters /\ shape.indirect => here # "indirect"
    PROVE  RouterInv'
<1>1. shape' = shape /\ shape \in Launches
    BY DEF MeetKeepsAll, RouterInv
<1>2. Router!Cores = Router!Core /\ \A c \in Router!Core : pc[c] = here
    <2>1. Router!Core \ Router!Cores = {}
        BY DEF RouterInv, MeetKeepsAll
    <2>2. shape.cores \in {1, 2}
        BY <1>1, LaunchFields
    <2> QED BY <2>1, <2>2 DEF MeetKeepsAll, Router!Cores, Router!Core
<1>3. /\ \A c \in Router!Core : pc'[c] = there /\ tile'[c] = tile[c] /\ sb'[c] = sb[c]
      /\ hbm' = hbm /\ RouterByCore'
    BY DEF MeetKeepsAll, RouterInv, RouterByCore
<1>4. HbmShape(hbm)'
    <2>1. HbmShape(hbm')
        BY <1>3 DEF RouterInv
    <2> QED BY <1>1, <2>1, FixedRouterParts
<1>5. Router!Cores' = Router!Core
    BY <1>1, <1>2, FixedRouter
<1>6. ASSUME NEW c \in Router!Core PROVE RouterCoreIs(c)'
    <2>1. PcIs(c, pc'[c], tile'[c]) /\ MemIs(c, pc'[c], sb'[c])
          /\ OutIs(pc'[c], out'[c]) /\ HbmIs(c, pc'[c], hbm')
        BY <1>3
    <2>2. PcIs(c, pc[c], tile[c])' /\ MemIs(c, pc[c], sb[c])'
        BY <1>1, <2>1, FixedRouterParts
    <2>3. OutIs(pc[c], out[c])' /\ HbmIs(c, pc[c], hbm)'
        BY <1>1, <2>1, FixedRouterParts
    <2> QED BY <2>2, <2>3 DEF RouterCoreIs
<1>7. BarrierIs(pc)'
    <2>1. BarrierIs(pc')
        BY <1>2, <1>3 DEF BarrierIs, Late, Weighed
    <2> QED BY <1>1, <2>1, FixedRouterParts
<1>8. IndirectIs(pc, tile, hbm)'
    <2>1. IndirectIs(pc', tile', hbm')
        <3> SUFFICES ASSUME Router!Scatters, shape.indirect, NEW c \in Router!Cores, NEW x \in Flat,
                            Reached(c, pc'[c], tile'[c], x \div RouterExperts)
                     PROVE  \/ hbm'.aff[x] = AffAt(x)
                            \/ /\ hbm'.aff[x] = Router!Zero
                               /\ \E d \in Router!Cores : Touches(d, pc'[d], tile'[d],
                                    x \div RouterExperts)
            BY DEF IndirectIs
        <3>1. there # "indirect" /\ here # "indirect"
            OBVIOUS
        <3>2. Reached(c, pc[c], tile[c], x \div RouterExperts)
            BY <1>2, <1>3, <3>1 DEF Reached
        <3>3. \A d \in Router!Cores : ~Touches(d, pc[d], tile[d], x \div RouterExperts)
            BY <1>2, <3>1 DEF Touches
        <3> QED BY <1>3, <3>2, <3>3 DEF RouterInv, IndirectIs
    <2> QED BY <1>1, <2>1, FixedRouterParts
<1>9. shape' \in Launches
    BY <1>1
<1> QED BY <1>3, <1>4, <1>5, <1>6, <1>7, <1>8, <1>9 DEF RouterInv

\* A store to HBM leaves a core's own rows new and the others as they are.
LEMMA StoredIs ==
    ASSUME RouterConstants, shape \in Launches, NEW c \in Router!Core, NEW old, NEW rows,
           DOMAIN old = 0 .. Router!T - 1
    PROVE  /\ DOMAIN Router!Stored(c, old, rows) = 0 .. Router!T - 1
           /\ \A t \in Toks(c) : Router!Stored(c, old, rows)[t] = rows[t - Router!TOffset(c)]
           /\ \A t \in 0 .. Router!T - 1 : t \notin Toks(c)
                => Router!Stored(c, old, rows)[t] = old[t]
<1>1. Router!TOffset(c) \in Nat /\ Router!TLocal(c) \in Nat
        /\ Router!Local(c) = 0 .. Router!TLocal(c) - 1
      /\ Router!T \in Nat /\ Toks(c) \subseteq 0 .. Router!T - 1
    BY Shards
<1>2. \A i \in Router!Local(c) : Router!HbmRow(c, i) = Router!TOffset(c) + i
    BY PlaceOf
<1> DEFINE new(t) == IF \E i \in Router!Local(c) : Router!HbmRow(c, i) = t
                     THEN rows[CHOOSE i \in Router!Local(c) : Router!HbmRow(c, i) = t] ELSE old[t]
<1>3. Router!Stored(c, old, rows) = [t \in 0 .. Router!T - 1 |-> new(t)]
    BY DEF Router!Stored
<1>4. ASSUME NEW t \in Toks(c) PROVE new(t) = rows[t - Router!TOffset(c)]
    <2>1. t - Router!TOffset(c) \in Router!Local(c)
            /\ Router!TOffset(c) + (t - Router!TOffset(c)) = t
        BY <1>1 DEF Toks
    <2>2. \E i \in Router!Local(c) : Router!HbmRow(c, i) = t
        BY <1>2, <2>1
    <2> PICK j \in Router!Local(c) : /\ Router!HbmRow(c, j) = t
                              /\ j = CHOOSE k \in Router!Local(c) : Router!HbmRow(c, k) = t
        BY <2>2
    <2>3. new(t) = rows[j]
        BY <2>2
    <2>4. Router!TOffset(c) + j = t
        BY <1>2
    <2>5. j = t - Router!TOffset(c)
        BY <1>1, <2>4 DEF Toks
    <2> HIDE DEF new
    <2> QED BY <2>3, <2>5
<1>5. ASSUME NEW t \in 0 .. Router!T - 1, t \notin Toks(c) PROVE new(t) = old[t]
    <2>1. ~ \E i \in Router!Local(c) : Router!HbmRow(c, i) = t
        BY <1>2, <1>5, Shards
    <2> QED BY <2>1
<1> HIDE DEF new
<1> QED BY <1>1, <1>3, <1>4, <1>5

\* And so does one of affinities, kept flat.
LEMMA FlatStoredIs ==
    ASSUME RouterConstants, shape \in Launches, NEW c \in Router!Core, NEW rows,
           DOMAIN hbm.aff = Flat
    PROVE  /\ DOMAIN Router!FlatStored(c, rows) = Flat
           /\ \A x \in Flat : x \div RouterExperts \in Toks(c) =>
                 Router!FlatStored(c, rows)[x]
                   = rows[(x \div RouterExperts) - Router!TOffset(c)][x % RouterExperts]
           /\ \A x \in Flat : x \div RouterExperts \notin Toks(c) =>
                 Router!FlatStored(c, rows)[x] = hbm.aff[x]
<1>1. Router!TOffset(c) \in Nat /\ Router!TLocal(c) \in Nat
        /\ Router!Local(c) = 0 .. Router!TLocal(c) - 1
      /\ Router!T \in Nat /\ Toks(c) \subseteq 0 .. Router!T - 1
    BY Shards
<1>2. \A i \in Router!Local(c) : Router!HbmRow(c, i) = Router!TOffset(c) + i
    BY PlaceOf
<1> DEFINE new(x) == IF \E i \in Router!Local(c) : Router!HbmRow(c, i) = x \div RouterExperts
                     THEN rows[CHOOSE i \in Router!Local(c) : Router!HbmRow(c, i)
                       = x \div RouterExperts][x % RouterExperts]
                     ELSE hbm.aff[x]
<1>3. Router!FlatStored(c, rows) = [x \in Flat |-> new(x)]
    BY DEF Router!FlatStored
<1>4. ASSUME NEW x \in Flat, x \div RouterExperts \in Toks(c)
      PROVE  new(x) = rows[(x \div RouterExperts) - Router!TOffset(c)][x % RouterExperts]
    <2> PICK t : t = x \div RouterExperts /\ t \in Toks(c)
        BY <1>4
    <2>1. t - Router!TOffset(c) \in Router!Local(c)
            /\ Router!TOffset(c) + (t - Router!TOffset(c)) = t
        BY <1>1 DEF Toks
    <2>2. \E i \in Router!Local(c) : Router!HbmRow(c, i) = t
        BY <1>2, <2>1
    <2> PICK j \in Router!Local(c) : /\ Router!HbmRow(c, j) = t
                              /\ j = CHOOSE k \in Router!Local(c) : Router!HbmRow(c, k) = t
        BY <2>2
    <2>3. new(x) = rows[j][x % RouterExperts]
        BY <2>2
    <2>4. Router!TOffset(c) + j = t
        BY <1>2
    <2>5. j = t - Router!TOffset(c)
        BY <1>1, <2>4 DEF Toks
    <2> HIDE DEF new
    <2> QED BY <2>3, <2>5
<1>5. ASSUME NEW x \in Flat, x \div RouterExperts \notin Toks(c) PROVE new(x) = hbm.aff[x]
    <2>1. ~ \E i \in Router!Local(c) : Router!HbmRow(c, i) = x \div RouterExperts
        BY <1>2, <1>5, Shards
    <2> QED BY <2>1
<1> HIDE DEF new
<1> QED BY <1>3, <1>4, <1>5

\* The tiles of a core's tokens.
LEMMA TilesAre ==
    ASSUME RouterConstants, shape \in Launches, NEW c \in Router!Core
    PROVE  /\ Router!NumTTiles(c) \in Nat \ {0} /\ Router!TP(c) \in Nat \ {0}
           /\ Router!NumTTiles(c) # 1 => Router!TP(c) = P
           /\ Router!NumTTiles(c) = 1 => Router!TP(c) = Router!TLocal(c)
<1>1. P \in Nat \ {0} /\ Router!TLocal(c) \in Nat \ {0}
    BY ExpertsCounted, Shards
<1>2. Router!NumTTiles(c) = (Router!TLocal(c) + P - 1) \div P
    BY DEF Router!NumTTiles, Router!CeilDiv
<1> PICK n \in Nat : n = Router!TLocal(c) + P - 1 /\ n >= P
    BY <1>1
<1>3. Splits(n, P, n \div P, n % P)
    BY <1>1, DivModIs
<1> PICK q, r : Splits(n, P, q, r) /\ q = n \div P
    BY <1>3
<1>4. q # 0
    BY <1>1 DEF Splits
<1>5. Router!NumTTiles(c) = q /\ q \in Nat \ {0}
    <2>1. Router!NumTTiles(c) = n \div P
        BY <1>2
    <2> QED BY <1>4, <2>1 DEF Splits
<1> QED BY <1>1, <1>5 DEF Router!TP

\* The cores start with nothing.
LEMMA RouterInit == ASSUME RouterConstants, Router!Init PROVE RouterInv
<1>1. shape \in Launches /\ shape.cores \in {1, 2}
    <2>1. shape \in Launches
        BY DEF Router!Init
    <2> QED BY <2>1, LaunchFields
<1>2. RouterByCore
    BY DEF Router!Init, RouterByCore
<1>3. HbmShape(hbm)
    BY DEF Router!Init, HbmShape, Flat
<1>4. ASSUME NEW c \in Router!Core
      PROVE  /\ c \in Router!Cores => pc[c] = "logits"
             /\ c \notin Router!Cores => pc[c] = "done"
             /\ tile[c] = 0 /\ sb[c] = Router!NoSb /\ out[c] = Router!NoOut /\ sb[c].index = <<>>
    <2>1. c \in Router!Cores <=> c < shape.cores
        BY <1>1 DEF Router!Cores, Router!Core
    <2> QED BY <2>1 DEF Router!Init, Router!NoSb
<1>5. Router!Cores \subseteq Router!Core
    BY <1>1 DEF Router!Cores, Router!Core
<1>6. ASSUME NEW c \in Router!Cores PROVE RouterCoreIs(c)
    <2>1. pc[c] = "logits" /\ tile[c] = 0 /\ sb[c] = Router!NoSb /\ out[c] = Router!NoOut
        BY <1>4, <1>5
    <2>2. PcIs(c, "logits", 0)
        <3>1. Router!NumTTiles(c) \in Nat
            BY <1>1, <1>5, TilesAre
        <3> QED BY <3>1 DEF PcIs, BeforeTop, Weighed, Late
    <2>3. MemIs(c, "logits", Router!NoSb)
        BY DEF MemIs, Router!NoSb, BeforeTop, Weighed
    <2>4. OutIs("logits", Router!NoOut)
        BY DEF OutIs, Router!NoOut, BeforeTop, Late
    <2>5. HbmIs(c, "logits", hbm)
        BY DEF HbmIs, BeforeTop, Weighed
    <2> QED BY <2>1, <2>2, <2>3, <2>4, <2>5 DEF RouterCoreIs
<1>7. BarrierIs(pc)
    BY <1>4, <1>5 DEF BarrierIs, Late
<1>8. IndirectIs(pc, tile, hbm)
    <2> SUFFICES ASSUME NEW c \in Router!Cores, NEW x \in Flat
                          PROVE ~Reached(c, pc[c], tile[c], x \div RouterExperts)
        BY DEF IndirectIs
    <2>1. pc[c] = "logits" /\ tile[c] = 0
        BY <1>4, <1>5
    <2> QED BY <2>1 DEF Reached
<1> QED BY <1>1, <1>2, <1>3, <1>4, <1>6, <1>7, <1>8 DEF RouterInv

\* The indirect store is untouched by the steps around it.
LEMMA IndirectStays ==
    ASSUME RouterConstants, RouterInv, NEW c \in Router!Cores, NEW at, NEW s, NEW o, NEW h,
           OneRouterCore(c, at, tile[c], s, o, h),
           \/ ~(Router!Scatters /\ shape.indirect)
           \/ h.aff = hbm.aff /\ at # "indirect" /\ pc[c] # "indirect"
    PROVE  IndirectIs(pc', tile', h)
<1>1. CASE ~(Router!Scatters /\ shape.indirect)
    BY <1>1 DEF IndirectIs
<1>2. CASE h.aff = hbm.aff /\ at # "indirect" /\ pc[c] # "indirect"
    <2> SUFFICES ASSUME Router!Scatters, shape.indirect, NEW d \in Router!Cores, NEW x \in Flat,
                        Reached(d, pc'[d], tile'[d], x \div RouterExperts)
                 PROVE  \/ h.aff[x] = AffAt(x)
                        \/ /\ h.aff[x] = Router!Zero
                           /\ \E e \in Router!Cores : Touches(e, pc'[e], tile'[e],
                                x \div RouterExperts)
        BY DEF IndirectIs
    <2>1. Router!Cores \subseteq Router!Core
        BY LaunchFields DEF RouterInv, Router!Cores, Router!Core
    <2>2. ASSUME NEW e \in Router!Cores
          PROVE tile'[e] = tile[e] /\ (pc'[e] = "indirect" <=> pc[e] = "indirect")
        BY <1>2, <2>1 DEF OneRouterCore, RouterInv, RouterByCore
    <2>3. Reached(d, pc[d], tile[d], x \div RouterExperts)
        BY <2>2 DEF Reached
    <2>4. \A e \in Router!Cores : Touches(e, pc[e], tile[e], x \div RouterExperts) =>
                           Touches(e, pc'[e], tile'[e], x \div RouterExperts)
        BY <2>2 DEF Touches
    <2> QED BY <1>2, <2>3, <2>4 DEF RouterInv, IndirectIs
<1> QED BY <1>1, <1>2

\* A token's row of logits is whole, and goes where the token is.
LEMMA LogitsStep ==
    ASSUME RouterConstants, RouterInv, NEW c \in Router!Cores, Router!Logits(c)
    PROVE  RouterInv'
<1>1. shape \in Launches /\ c \in Router!Core /\ RouterCoreIs(c) /\ pc[c] = "logits"
    <2>1. shape \in Launches
        BY DEF RouterInv
    <2> QED BY <2>1, LaunchFields DEF RouterInv, Router!Cores, Router!Core, Router!Logits, Router!Go
<1> PICK at : at = IF shape.pre THEN "act1" ELSE "topk"
    OBVIOUS
<1> DEFINE rows == [i \in Router!Local(c) |-> Row(Router!TOffset(c) + i)]
           s == [sb[c] EXCEPT !.logits = rows]
           h == [hbm EXCEPT !.logits = Router!Stored(c, hbm.logits, rows)]
<1>2. rows = [i \in Router!Local(c) |-> Router!LogitRow(c, i)]
    BY <1>1, LogitsAre
<1>3. MemIs(c, "logits", sb[c]) /\ PcIs(c, "logits", tile[c]) /\ OutIs("logits", out[c])
      /\ HbmIs(c, "logits", hbm) /\ HbmShape(hbm) /\ RouterByCore
    BY <1>1 DEF RouterCoreIs, RouterInv
<1>4. OneRouterCore(c, at, tile[c], s, out[c], h)
    <2>1. sb' = [sb EXCEPT ![c] = s] /\ sb'[c] = s /\ s.logits = rows
        <3>1. sb' = [sb EXCEPT ![c].logits = rows]
            BY <1>2 DEF Router!Logits
        <3> QED BY <1>1, <1>3, <3>1 DEF MemIs, RouterByCore
    <2>2. hbm' = h
        BY <2>1 DEF Router!Logits
    <2> QED BY <1>3, <2>1, <2>2 DEF OneRouterCore, Router!Logits, Router!Go, RouterByCore
<1>5. /\ s.act = sb[c].act /\ s.index = sb[c].index /\ s.eager = sb[c].eager /\ s.hot = sb[c].hot
      /\ s.logits = rows
      /\ s = [logits |-> s.logits, act |-> s.act, index |-> s.index,
              eager |-> s.eager, hot |-> s.hot]
    BY <1>3 DEF MemIs
<1>6. /\ h.logits = Router!Stored(c, hbm.logits, rows) /\ h.idx = hbm.idx /\ h.aff = hbm.aff
      /\ h = [logits |-> h.logits, idx |-> h.idx, aff |-> h.aff]
    BY <1>3 DEF HbmShape
<1>7. /\ DOMAIN h.logits = 0 .. Router!T - 1
      /\ \A t \in Toks(c) : h.logits[t] = Row(t)
      /\ \A t \in 0 .. Router!T - 1 : h.logits[t] = hbm.logits[t] \/ h.logits[t] = Row(t)
    <2>1. /\ DOMAIN h.logits = 0 .. Router!T - 1
          /\ \A t \in Toks(c) : h.logits[t] = rows[t - Router!TOffset(c)]
          /\ \A t \in 0 .. Router!T - 1 : t \notin Toks(c) => h.logits[t] = hbm.logits[t]
        BY <1>1, <1>3, <1>6, StoredIs DEF HbmShape
    <2>2. \A t \in Toks(c) : rows[t - Router!TOffset(c)] = Row(t)
        <3> SUFFICES ASSUME NEW t \in Toks(c) PROVE rows[t - Router!TOffset(c)] = Row(t)
            OBVIOUS
        <3>1. t - Router!TOffset(c) \in Router!Local(c)
                /\ Router!TOffset(c) + (t - Router!TOffset(c)) = t
            BY <1>1, Shards DEF Toks
        <3> QED BY <3>1
    <2> HIDE DEF h, rows
    <2> QED BY <2>1, <2>2
<1> HIDE DEF s, h, rows
<1>8. PcIs(c, at, tile[c])
    BY <1>3 DEF PcIs, BeforeTop, Weighed, Late
<1>9. MemIs(c, at, s)
    BY <1>3, <1>5 DEF MemIs, BeforeTop, Weighed, rows
<1>10. OutIs(at, out[c])
    BY <1>3 DEF OutIs, BeforeTop, Late
<1>11. HbmIs(c, at, h)
    <2>1. ~Router!Scatters => shape.pre
        BY DEF Router!Scatters
    <2> QED BY <1>7, <2>1 DEF HbmIs, BeforeTop, Weighed
<1>12. Kept(h)
    BY <1>3, <1>6, <1>7 DEF Kept, HbmShape
<1>13. Onward(c, at)
    <2>1. ~Router!Scatters => shape.pre
        BY DEF Router!Scatters
    <2> QED BY <1>1, <2>1 DEF Onward, Late, Weighed
<1>14. IndirectIs(pc', tile', h)
    BY <1>1, <1>4, <1>6, IndirectStays
<1> QED BY <1>4, <1>8, <1>9, <1>10, <1>11, <1>12, <1>13, <1>14, OneCoreKeeps

\* Affinities stored from rows that are due.
LEMMA AffStored ==
    ASSUME RouterConstants, shape \in Launches, NEW c \in Router!Core, NEW rows, HbmShape(hbm),
           rows = [i \in Router!Local(c) |-> AffRow(Router!TOffset(c) + i)]
    PROVE  LET h == [hbm EXCEPT !.aff = Router!FlatStored(c, rows)]
           IN  /\ HbmShape(h) /\ h.logits = hbm.logits /\ h.idx = hbm.idx
               /\ \A x \in Flat : x \div RouterExperts \in Toks(c) => h.aff[x] = AffAt(x)
               /\ \A x \in Flat : h.aff[x] = hbm.aff[x] \/ h.aff[x] = AffAt(x)
<1> DEFINE h == [hbm EXCEPT !.aff = Router!FlatStored(c, rows)]
<1>1. /\ h.logits = hbm.logits /\ h.idx = hbm.idx /\ h.aff = Router!FlatStored(c, rows)
      /\ h = [logits |-> h.logits, idx |-> h.idx, aff |-> h.aff]
    BY DEF HbmShape
<1>2. DOMAIN hbm.aff = Flat
    BY DEF HbmShape
<1>3. /\ DOMAIN h.aff = Flat
      /\ \A x \in Flat : x \div RouterExperts \in Toks(c) =>
            h.aff[x] = rows[(x \div RouterExperts) - Router!TOffset(c)][x % RouterExperts]
      /\ \A x \in Flat : x \div RouterExperts \notin Toks(c) => h.aff[x] = hbm.aff[x]
    <2> HIDE DEF h
    <2> QED BY <1>1, <1>2, FlatStoredIs
<1>4. ASSUME NEW t \in Toks(c) PROVE rows[t - Router!TOffset(c)] = AffRow(t)
    <2>1. t - Router!TOffset(c) \in Router!Local(c)
            /\ Router!TOffset(c) + (t - Router!TOffset(c)) = t
        BY Shards DEF Toks
    <2> QED BY <2>1
<1>5. HbmShape(h)
    <2> HIDE DEF h
    <2> QED BY <1>1, <1>3 DEF HbmShape
<1> HIDE DEF h
<1>6. \A x \in Flat : x \div RouterExperts \in Toks(c) => h.aff[x] = AffAt(x)
    <2> SUFFICES ASSUME NEW x \in Flat, x \div RouterExperts \in Toks(c) PROVE h.aff[x] = AffAt(x)
        OBVIOUS
    <2> PICK t \in Toks(c) : t = x \div RouterExperts
        OBVIOUS
    <2>1. h.aff[x] = rows[t - Router!TOffset(c)][x % RouterExperts]
        BY <1>3
    <2> QED BY <1>4, <2>1 DEF AffAt
<1> QED BY <1>1, <1>3, <1>5, <1>6 DEF h

\* A running core.
LEMMA Running ==
    ASSUME RouterConstants, RouterInv, NEW c \in Router!Cores
    PROVE  /\ shape \in Launches /\ c \in Router!Core /\ RouterCoreIs(c) /\ HbmShape(hbm)
                /\ RouterByCore
           /\ PcIs(c, pc[c], tile[c]) /\ MemIs(c, pc[c], sb[c])
           /\ OutIs(pc[c], out[c]) /\ HbmIs(c, pc[c], hbm)
BY LaunchFields DEF RouterInv, Router!Cores, Router!Core, RouterCoreIs

\* The numbers of all experts keep the order of the logits.
LEMMA ActivateStep ==
    ASSUME RouterConstants, RouterInv, NEW c \in Router!Cores, Router!Activate(c)
    PROVE  RouterInv'
<1>1. shape \in Launches /\ c \in Router!Core /\ HbmShape(hbm) /\ RouterByCore /\ pc[c] = "act1"
    BY Running DEF Router!Activate, Router!Go
<1> PICK at : at = IF ~Router!Scatters /\ shape.cores = 2 THEN "fullmeet" ELSE "topk"
    OBVIOUS
<1> DEFINE rows == [i \in Router!Local(c) |-> ActRow(Router!TOffset(c) + i)]
           s == [sb[c] EXCEPT !.act = rows]
<1>2. MemIs(c, "act1", sb[c]) /\ PcIs(c, "act1", tile[c]) /\ OutIs("act1", out[c])
      /\ HbmIs(c, "act1", hbm)
    BY <1>1, Running
<1>3. [i \in Router!Local(c) |-> Router!Full(sb[c].logits[i])] = rows
    <2> SUFFICES ASSUME NEW i \in Router!Local(c)
                          PROVE Router!Full(sb[c].logits[i]) = ActRow(Router!TOffset(c) + i)
        OBVIOUS
    <2>1. sb[c].logits[i] = Row(Router!TOffset(c) + i)
        BY <1>2 DEF MemIs
    <2>2. Router!TOffset(c) + i \in 0 .. Router!T - 1
        BY <1>1, Shards
    <2> QED BY <1>1, <2>1, <2>2, FullIs
<1> PICK h : hbm' = h /\ h = IF Router!Scatters THEN hbm
      ELSE [hbm EXCEPT !.aff = Router!FlatStored(c, rows)]
    <2>1. sb'[c].act = rows
        <3>1. sb' = [sb EXCEPT ![c].act = rows]
            BY <1>3 DEF Router!Activate
        <3> QED BY <1>1, <1>2, <3>1 DEF MemIs, RouterByCore
    <2> QED BY <2>1 DEF Router!Activate
<1>4. OneRouterCore(c, at, tile[c], s, out[c], h)
    <2>1. sb' = [sb EXCEPT ![c] = s]
        <3>1. sb' = [sb EXCEPT ![c].act = rows]
            BY <1>3 DEF Router!Activate
        <3> QED BY <1>1, <1>2, <3>1 DEF MemIs, RouterByCore
    <2> QED BY <1>1, <2>1 DEF OneRouterCore, Router!Activate, Router!Go, RouterByCore
<1>5. /\ s.logits = sb[c].logits /\ s.index = sb[c].index /\ s.eager = sb[c].eager
      /\ s.hot = sb[c].hot /\ s.act = rows
      /\ s = [logits |-> s.logits, act |-> s.act, index |-> s.index,
              eager |-> s.eager, hot |-> s.hot]
    BY <1>2 DEF MemIs
<1>6. ~Router!Scatters => rows = [i \in Router!Local(c) |-> AffRow(Router!TOffset(c) + i)]
    <2> SUFFICES ASSUME ~Router!Scatters, NEW i \in Router!Local(c)
                 PROVE  ActRow(Router!TOffset(c) + i) = AffRow(Router!TOffset(c) + i)
        OBVIOUS
    <2>1. Router!TOffset(c) + i \in 0 .. Router!T - 1
        BY <1>1, Shards
    <2> QED BY <1>1, <2>1, ActIsAff
<1>7. /\ HbmShape(h) /\ h.logits = hbm.logits /\ h.idx = hbm.idx
      /\ ~Router!Scatters => \A x \in Flat : x \div RouterExperts \in Toks(c) => h.aff[x] = AffAt(x)
      /\ \A x \in Flat : h.aff[x] = hbm.aff[x] \/ h.aff[x] = AffAt(x)
      /\ Router!Scatters => h.aff = hbm.aff
    <2> HIDE DEF rows, s
    <2>1. CASE Router!Scatters
        BY <1>1, <2>1
    <2>2. CASE ~Router!Scatters
        BY <1>1, <1>6, <2>2, AffStored
    <2> QED BY <2>1, <2>2
<1> HIDE DEF s, rows
<1>8. PcIs(c, at, tile[c])
    BY <1>2 DEF PcIs, BeforeTop, Weighed, Late
<1>9. MemIs(c, at, s)
    BY <1>2, <1>5 DEF MemIs, BeforeTop, Weighed, rows
<1>10. OutIs(at, out[c])
    BY <1>2 DEF OutIs, BeforeTop, Late
<1>11. HbmIs(c, at, h)
    BY <1>2, <1>7 DEF HbmIs, BeforeTop, Weighed
<1>12. Kept(h)
    BY <1>7 DEF Kept
<1>13. Onward(c, at)
    BY <1>1 DEF Onward, Late, Weighed
<1>14. IndirectIs(pc', tile', h)
    BY <1>1, <1>4, <1>7, IndirectStays
<1> QED BY <1>4, <1>8, <1>9, <1>10, <1>11, <1>12, <1>13, <1>14, OneCoreKeeps

\* The index of a token names its best experts in order.
LEMMA TopKStep ==
    ASSUME RouterConstants, RouterInv, NEW c \in Router!Cores, Router!TopK(c)
    PROVE  RouterInv'
<1>1. shape \in Launches /\ c \in Router!Core /\ HbmShape(hbm) /\ RouterByCore /\ pc[c] = "topk"
    BY Running DEF Router!TopK, Router!Go
<1> PICK at : at = IF shape.idxSb /\ shape.shard THEN "swapidx" ELSE Router!AfterIndex
    OBVIOUS
<1> DEFINE rows == [i \in Router!Local(c) |-> Best(Router!TOffset(c) + i)]
           s == [sb[c] EXCEPT !.index = rows]
<1>2. MemIs(c, "topk", sb[c]) /\ PcIs(c, "topk", tile[c]) /\ OutIs("topk", out[c])
      /\ HbmIs(c, "topk", hbm)
    BY <1>1, Running
<1>3. [i \in Router!Local(c) |-> Router!TopIndex(Router!Choosing(c, i))] = rows
    <2> SUFFICES ASSUME NEW i \in Router!Local(c)
                          PROVE Router!TopIndex(Router!Choosing(c, i)) = Best(Router!TOffset(c) + i)
        OBVIOUS
    <2>1. sb[c].logits[i] = Row(Router!TOffset(c) + i)
          /\ (shape.pre => sb[c].act[i] = ActRow(Router!TOffset(c) + i))
        BY <1>2 DEF MemIs
    <2>2. Router!TOffset(c) + i \in 0 .. Router!T - 1
        BY <1>1, Shards
    <2> PICK t \in 0 .. Router!T - 1 : t = Router!TOffset(c) + i
        BY <2>2
    <2>3. Router!TopIndex(Row(t)) = Best(t)
            /\ Router!TopIndex([e \in Router!Expert |-> ActRow(t)[e].n]) = Best(t)
        BY <1>1, ChoiceIs
    <2> QED BY <2>1, <2>3 DEF Router!Choosing
<1>4. sb' = [sb EXCEPT ![c] = s] /\ sb'[c].index = rows
    <2>1. sb' = [sb EXCEPT ![c].index = rows]
        BY <1>3 DEF Router!TopK
    <2> QED BY <1>1, <1>2, <2>1 DEF MemIs, RouterByCore
<1> PICK h : hbm' = h /\ h = IF shape.idxSb THEN hbm
      ELSE [hbm EXCEPT !.idx = Router!Stored(c, hbm.idx, rows)]
    BY <1>4 DEF Router!TopK
<1> PICK o : o = IF shape.idxSb /\ ~shape.shard THEN [out[c] EXCEPT !.idx = rows] ELSE out[c]
    OBVIOUS
<1>5. OneRouterCore(c, at, tile[c], s, o, h)
    <2>1. out' = [out EXCEPT ![c] = o]
        <3>1. out' = IF shape.idxSb /\ ~shape.shard THEN [out EXCEPT ![c].idx = rows] ELSE out
            BY <1>4 DEF Router!TopK
        <3> QED BY <1>1, <3>1 DEF RouterByCore
    <2> QED BY <1>1, <1>4, <2>1 DEF OneRouterCore, Router!TopK, Router!Go, RouterByCore
<1>6. /\ s.logits = sb[c].logits /\ s.act = sb[c].act /\ s.eager = sb[c].eager
      /\ s.hot = sb[c].hot /\ s.index = rows
      /\ s = [logits |-> s.logits, act |-> s.act, index |-> s.index,
              eager |-> s.eager, hot |-> s.hot]
    BY <1>2 DEF MemIs
<1>7. ASSUME NEW t \in Toks(c) PROVE rows[t - Router!TOffset(c)] = Best(t)
    <2>1. t - Router!TOffset(c) \in Router!Local(c)
            /\ Router!TOffset(c) + (t - Router!TOffset(c)) = t
        BY <1>1, Shards DEF Toks
    <2> QED BY <2>1
<1>8. /\ HbmShape(h) /\ h.logits = hbm.logits /\ h.aff = hbm.aff
      /\ ~shape.idxSb => \A t \in Toks(c) : h.idx[t] = Best(t)
      /\ \A t \in 0 .. Router!T - 1 : h.idx[t] = hbm.idx[t] \/ h.idx[t] = Best(t)
    <2> HIDE DEF rows, s
    <2>1. CASE shape.idxSb
        BY <1>1, <2>1
    <2>2. CASE ~shape.idxSb
        <3>1. h.idx = Router!Stored(c, hbm.idx, rows) /\ h.logits = hbm.logits /\ h.aff = hbm.aff
              /\ h = [logits |-> h.logits, idx |-> h.idx, aff |-> h.aff]
            BY <1>1, <2>2 DEF HbmShape
        <3>2. /\ DOMAIN h.idx = 0 .. Router!T - 1
              /\ \A t \in Toks(c) : h.idx[t] = rows[t - Router!TOffset(c)]
              /\ \A t \in 0 .. Router!T - 1 : t \notin Toks(c) => h.idx[t] = hbm.idx[t]
            BY <1>1, <3>1, StoredIs DEF HbmShape
        <3> QED BY <1>1, <1>7, <3>1, <3>2 DEF HbmShape
    <2> QED BY <2>1, <2>2
<1>9. /\ o = [idx |-> o.idx, aff |-> o.aff, eager |-> o.eager]
      /\ shape.idxSb /\ ~shape.shard => o.idx = [t \in 0 .. Router!T - 1 |-> Best(t)]
    <2>1. CASE shape.idxSb /\ ~shape.shard
        <3>1. Router!TOffset(c) = 0 /\ Router!Local(c) = 0 .. Router!T - 1 /\ Router!T \in Nat
            BY <1>1, <2>1, Shards
        <3>2. rows = [t \in 0 .. Router!T - 1 |-> Best(t)]
            BY <3>1
        <3> HIDE DEF rows
        <3> QED BY <1>2, <2>1, <3>2 DEF OutIs
    <2>2. CASE ~(shape.idxSb /\ ~shape.shard)
        BY <1>2, <2>2 DEF OutIs
    <2> QED BY <2>1, <2>2
<1> HIDE DEF s, rows
<1>10. at \in {"swapidx", "weigh", "eager"}
       /\ (at = "swapidx" <=> shape.idxSb /\ shape.shard)
       /\ (at = "weigh" => Router!Scatters) /\ (at = "eager" => ~Router!Scatters)
    BY DEF Router!AfterIndex
<1>11. PcIs(c, at, tile[c])
    BY <1>2, <1>10 DEF PcIs, BeforeTop, Weighed, Late
<1>12. MemIs(c, at, s)
    BY <1>2, <1>6, <1>10 DEF MemIs, BeforeTop, Weighed, rows
<1>13. OutIs(at, o)
    <2>1. ~Router!Scatters => ~shape.affSb
        BY <1>1, LaunchFields
    <2> QED BY <1>9, <1>10, <2>1 DEF OutIs, BeforeTop, Late
<1>14. HbmIs(c, at, h)
    BY <1>2, <1>8, <1>10 DEF HbmIs, BeforeTop, Weighed
<1>15. Kept(h)
    BY <1>8 DEF Kept
<1>16. Onward(c, at)
    BY <1>1, <1>10 DEF Onward, Late, Weighed
<1>17. IndirectIs(pc', tile', h)
    BY <1>1, <1>5, <1>8, <1>10, IndirectStays
<1> QED BY <1>5, <1>11, <1>12, <1>13, <1>14, <1>15, <1>16, <1>17, OneCoreKeeps

\* The weights are the reference's, in the order of the choice and by expert.
LEMMA WeighStep ==
    ASSUME RouterConstants, RouterInv, NEW c \in Router!Cores, Router!Weigh(c)
    PROVE  RouterInv'
<1>1. shape \in Launches /\ c \in Router!Core /\ HbmShape(hbm) /\ RouterByCore /\ pc[c] = "weigh"
    BY Running DEF Router!Weigh, Router!Go
<1>2. MemIs(c, "weigh", sb[c]) /\ PcIs(c, "weigh", tile[c]) /\ OutIs("weigh", out[c])
      /\ HbmIs(c, "weigh", hbm)
    BY <1>1, Running
<1>3. Router!Scatters /\ tile[c] = 0 /\ Router!NumTTiles(c) \in Nat \ {0}
      /\ (shape.affSb => ~shape.indirect)
    BY <1>1, <1>2, LaunchFields, TilesAre DEF PcIs, Weighed
<1> PICK at : at = CASE shape.indirect -> "zero"
                     [] ~shape.indirect /\ ~shape.affSb -> "affmeet"
                     [] shape.affSb /\ shape.shard -> "swapaff" [] OTHER -> "eager"
    OBVIOUS
<1>4. \/ at = "zero" /\ shape.indirect
      \/ at = "affmeet" /\ ~shape.indirect /\ ~shape.affSb
      \/ at = "swapaff" /\ ~shape.indirect /\ shape.affSb /\ shape.shard
      \/ at = "eager" /\ ~shape.indirect /\ shape.affSb /\ ~shape.shard
    <2>1. CASE shape.indirect
        BY <1>3, <2>1
    <2>2. CASE ~shape.indirect /\ ~shape.affSb
        BY <2>2
    <2>3. CASE ~shape.indirect /\ shape.affSb /\ shape.shard
        BY <2>3
    <2>4. CASE ~shape.indirect /\ shape.affSb /\ ~shape.shard
        BY <2>4
    <2> QED BY <1>1, <2>1, <2>2, <2>3, <2>4, LaunchFields
<1> DEFINE weights == [i \in Router!Local(c) |-> EagerRow(Router!TOffset(c) + i)]
           rows == [i \in Router!Local(c) |-> AffRow(Router!TOffset(c) + i)]
<1> PICK hot : hot = IF shape.indirect THEN <<>> ELSE rows
    OBVIOUS
<1> DEFINE s == [sb[c] EXCEPT !.eager = weights, !.hot = hot]
<1>5. ASSUME NEW i \in Router!Local(c)
      PROVE  /\ Router!Eager(c, i) = EagerRow(Router!TOffset(c) + i)
             /\ ~shape.indirect => Router!OneHot(c, i) = AffRow(Router!TOffset(c) + i)
    <2>1. /\ sb[c].logits[i] = Row(Router!TOffset(c) + i)
          /\ shape.pre => sb[c].act[i] = ActRow(Router!TOffset(c) + i)
          /\ sb[c].index[i] = Best(Router!TOffset(c) + i)
        BY <1>2 DEF MemIs, BeforeTop
    <2>2. Router!TOffset(c) + i \in 0 .. Router!T - 1
        BY <1>1, Shards
    <2> PICK t \in 0 .. Router!T - 1 : t = Router!TOffset(c) + i
        BY <2>2
    <2>3. Has(c, i, t)
        BY <2>1 DEF Has
    <2> QED BY <1>1, <1>3, <2>3, EagerIs, OneHotIs
<1>6. /\ [i \in Router!Local(c) |-> Router!Eager(c, i)] = weights
      /\ (IF shape.indirect THEN <<>> ELSE [i \in Router!Local(c) |-> Router!OneHot(c, i)]) = hot
    BY <1>5
<1>7. sb' = [sb EXCEPT ![c] = s] /\ sb'[c].hot = hot
    <2>1. sb' = [sb EXCEPT ![c].eager = weights, ![c].hot = hot]
        <3> HIDE DEF weights, s
        <3> QED BY <1>6 DEF Router!Weigh
    <2> QED BY <1>1, <1>2, <2>1 DEF MemIs, RouterByCore
<1> PICK h : hbm' = h /\ h = IF shape.affSb \/ shape.indirect THEN hbm
                             ELSE [hbm EXCEPT !.aff = Router!FlatStored(c, hot)]
    BY <1>7 DEF Router!Weigh
<1> PICK o : o = IF shape.affSb /\ ~shape.shard THEN [out[c] EXCEPT !.aff = hot] ELSE out[c]
    OBVIOUS
<1>8. OneRouterCore(c, at, tile[c], s, o, h)
    <2>1. out' = [out EXCEPT ![c] = o]
        <3>1. out' = IF shape.affSb /\ ~shape.shard THEN [out EXCEPT ![c].aff = hot] ELSE out
            BY <1>7 DEF Router!Weigh
        <3> QED BY <1>1, <3>1 DEF RouterByCore
    <2> QED BY <1>1, <1>7, <2>1 DEF OneRouterCore, Router!Weigh, Router!Go, RouterByCore
<1>9. /\ s.logits = sb[c].logits /\ s.act = sb[c].act /\ s.index = sb[c].index
      /\ s.eager = weights /\ s.hot = hot
      /\ s = [logits |-> s.logits, act |-> s.act, index |-> s.index,
              eager |-> s.eager, hot |-> s.hot]
    <2> PICK m : m = sb[c] /\ m = [logits |-> m.logits, act |-> m.act, index |-> m.index,
                                  eager |-> m.eager, hot |-> m.hot]
        BY <1>2 DEF MemIs
    <2> PICK w : w = weights
        OBVIOUS
    <2>1. s = [m EXCEPT !.eager = w, !.hot = hot]
        OBVIOUS
    <2>2. s = [logits |-> m.logits, act |-> m.act, index |-> m.index, eager |-> w, hot |-> hot]
        <3> HIDE DEF s
        <3> QED BY ONLY <2>1, m = [logits |-> m.logits, act |-> m.act, index |-> m.index,
            eager |-> m.eager, hot |-> m.hot]
    <2> HIDE DEF s, weights
    <2> QED BY <2>2
<1>10. /\ HbmShape(h) /\ h.logits = hbm.logits /\ h.idx = hbm.idx
       /\ ~shape.indirect /\ ~shape.affSb =>
             \A x \in Flat : x \div RouterExperts \in Toks(c) => h.aff[x] = AffAt(x)
       /\ \A x \in Flat : h.aff[x] = hbm.aff[x] \/ h.aff[x] = AffAt(x)
       /\ shape.indirect => h.aff = hbm.aff
    <2>1. CASE shape.affSb \/ shape.indirect
        BY <1>1, <2>1
    <2>2. CASE ~(shape.affSb \/ shape.indirect)
        <3>1. hot = rows /\ h = [hbm EXCEPT !.aff = Router!FlatStored(c, hot)]
            BY <2>2
        <3> HIDE DEF weights, s
        <3> QED BY <1>1, <2>2, <3>1, AffStored
    <2> QED BY <2>1, <2>2
<1>11. /\ o = [idx |-> o.idx, aff |-> o.aff, eager |-> o.eager] /\ o.idx = out[c].idx
       /\ shape.affSb /\ ~shape.shard => o.aff = [t \in 0 .. Router!T - 1 |-> AffRow(t)]
    <2>1. CASE shape.affSb /\ ~shape.shard
        <3>1. Router!TOffset(c) = 0 /\ Router!Local(c) = 0 .. Router!T - 1 /\ Router!T \in Nat
            BY <1>1, <2>1, Shards
        <3>2. hot = [t \in 0 .. Router!T - 1 |-> AffRow(t)]
            BY <1>3, <2>1, <3>1
        <3> HIDE DEF rows, weights, s
        <3> QED BY <1>2, <2>1, <3>2 DEF OutIs
    <2>2. CASE ~(shape.affSb /\ ~shape.shard)
        BY <1>2, <2>2 DEF OutIs
    <2> QED BY <2>1, <2>2
<1> HIDE DEF s, rows, weights
<1>12. PcIs(c, at, tile[c])
    BY <1>3, <1>4 DEF PcIs, BeforeTop, Weighed, Late
<1>13. MemIs(c, at, s)
    BY <1>2, <1>4, <1>9 DEF MemIs, BeforeTop, Weighed, weights, rows
<1>14. OutIs(at, o)
    BY <1>2, <1>4, <1>11 DEF OutIs, BeforeTop, Late
<1>15. HbmIs(c, at, h)
    BY <1>2, <1>3, <1>4, <1>10 DEF HbmIs, BeforeTop, Weighed
<1>16. Kept(h)
    BY <1>10 DEF Kept
<1>17. Onward(c, at)
    BY <1>1, <1>3, <1>4 DEF Onward, Late, Weighed
<1>18. IndirectIs(pc', tile', h)
    BY <1>1, <1>4, <1>8, <1>10, IndirectStays
<1> QED BY <1>8, <1>12, <1>13, <1>14, <1>15, <1>16, <1>17, <1>18, OneCoreKeeps

\* The weights of the chosen go to the caller.
LEMMA ReturnEagerStep ==
    ASSUME RouterConstants, RouterInv, NEW c \in Router!Cores, Router!ReturnEager(c)
    PROVE  RouterInv'
<1>1. shape \in Launches /\ c \in Router!Core /\ HbmShape(hbm) /\ RouterByCore /\ pc[c] = "eager"
    BY Running DEF Router!ReturnEager, Router!Go
<1>2. MemIs(c, "eager", sb[c]) /\ PcIs(c, "eager", tile[c]) /\ OutIs("eager", out[c])
      /\ HbmIs(c, "eager", hbm)
    BY <1>1, Running
<1> PICK at : at = IF shape.eager /\ shape.shard THEN "swapeager" ELSE "done"
    OBVIOUS
<1> PICK o : o = IF shape.eager /\ ~shape.shard THEN [out[c] EXCEPT !.eager = sb[c].eager]
                 ELSE out[c]
    OBVIOUS
<1>3. OneRouterCore(c, at, tile[c], sb[c], o, hbm)
    <2>1. out' = [out EXCEPT ![c] = o]
        BY <1>1 DEF RouterByCore, Router!ReturnEager
    <2> QED BY <1>1, <2>1 DEF OneRouterCore, Router!ReturnEager, Router!Go, RouterByCore
<1>4. /\ o = [idx |-> o.idx, aff |-> o.aff, eager |-> o.eager]
      /\ o.idx = out[c].idx /\ o.aff = out[c].aff
      /\ shape.eager /\ ~shape.shard => o.eager = [t \in 0 .. Router!T - 1 |-> EagerRow(t)]
    <2>1. CASE shape.eager /\ ~shape.shard
        <3>1. Router!TOffset(c) = 0 /\ Router!Local(c) = 0 .. Router!T - 1 /\ Router!T \in Nat
            BY <1>1, <2>1, Shards
        <3>2. Router!Scatters
            BY <1>1, <2>1, LaunchFields
        <3>3. sb[c].eager = [i \in Router!Local(c) |-> EagerRow(Router!TOffset(c) + i)]
            BY <1>2, <3>2 DEF MemIs, Weighed
        <3>4. sb[c].eager = [t \in 0 .. Router!T - 1 |-> EagerRow(t)]
            BY <3>1, <3>3
        <3> QED BY <1>2, <2>1, <3>4 DEF OutIs
    <2>2. CASE ~(shape.eager /\ ~shape.shard)
        BY <1>2, <2>2 DEF OutIs
    <2> QED BY <2>1, <2>2
<1>5. PcIs(c, at, tile[c])
    BY <1>2 DEF PcIs, BeforeTop, Weighed, Late
<1>6. MemIs(c, at, sb[c])
    BY <1>2 DEF MemIs, BeforeTop, Weighed
<1>7. OutIs(at, o)
    BY <1>2, <1>4 DEF OutIs, BeforeTop, Late
<1>8. HbmIs(c, at, hbm)
    BY <1>2 DEF HbmIs, BeforeTop, Weighed
<1>9. Kept(hbm)
    BY <1>1 DEF Kept
<1>10. Onward(c, at)
    BY <1>1 DEF Onward, Late, Weighed
<1>11. IndirectIs(pc', tile', hbm)
    BY <1>1, <1>3, IndirectStays
<1> QED BY <1>3, <1>5, <1>6, <1>7, <1>8, <1>9, <1>10, <1>11, OneCoreKeeps

\* Under the indirect store a core's tokens fill its tiles.
LEMMA TilesFill ==
    ASSUME RouterConstants, shape \in Launches, NEW c \in Router!Core, shape.indirect
    PROVE  /\ Router!TLocal(c) = Router!NumTTiles(c) * Router!TP(c)
           /\ \A n \in 0 .. Router!NumTTiles(c) - 1 : n * P = n * Router!TP(c)
<1> DEFINE l == Router!TLocal(c)
<1>1. P \in Nat \ {0} /\ l \in Nat \ {0}
    BY ExpertsCounted, Shards
<1>2. l <= P \/ l % P = 0
    <2>1. \A n \in IF shape.shard THEN {Router!T \div 2, Router!T - Router!T \div 2}
            ELSE {Router!T} : n <= P \/ n % P = 0
        BY DEF RouterConstants, Router!LaunchAssumption, Router!T
    <2>2. l \in IF shape.shard THEN {Router!T \div 2, Router!T - Router!T \div 2} ELSE {Router!T}
        BY DEF Router!TLocal, Router!TFirst, Router!Core
    <2> QED BY <2>1, <2>2
<1>3. Router!NumTTiles(c) = (l + P - 1) \div P
    BY DEF Router!NumTTiles, Router!CeilDiv
<1>4. CASE l <= P
    <2>1. Splits(l + P - 1, P, 1, l - 1)
        BY <1>1, <1>4 DEF Splits
    <2>2. Router!NumTTiles(c) = 1
        BY <1>3, <2>1, DivModUnique
    <2>3. Router!TP(c) = l
        BY <2>2 DEF Router!TP
    <2> QED BY <1>1, <2>2, <2>3
<1>5. CASE l > P /\ l % P = 0
    <2>1. Splits(l, P, l \div P, l % P)
        BY <1>1, DivModIs
    <2> PICK m : Splits(l, P, m, 0)
        BY <1>5, <2>1
    <2>2. m \in Nat /\ l = m * P
        BY <1>1 DEF Splits
    <2>3. m # 1
        BY <1>1, <1>5, <2>2
    <2>4. Splits(l + P - 1, P, m, P - 1)
        BY <1>1, <2>2 DEF Splits
    <2>5. Router!NumTTiles(c) = m
        BY <1>3, <2>4, DivModUnique
    <2>6. Router!TP(c) = P
        BY <2>3, <2>5 DEF Router!TP
    <2> QED BY <2>2, <2>5, <2>6
<1> QED BY <1>1, <1>2, <1>4, <1>5

\* Each is in one of them.
LEMMA TileOwns ==
    ASSUME RouterConstants, shape \in Launches, NEW c \in Router!Core, shape.indirect
    PROVE  /\ \A n \in 0 .. Router!NumTTiles(c) - 1, r \in 0 .. Router!TP(c) - 1 :
                 n * P + r = n * Router!TP(c) + r /\ n * P + r \in Router!Local(c)
           /\ \A n \in 0 .. Router!NumTTiles(c) - 1 : TileToks(c, n) \subseteq Toks(c)
           /\ \A t \in Toks(c) : \E n \in 0 .. Router!NumTTiles(c) - 1 : t \in TileToks(c, n)
<1>1. Router!TLocal(c) = Router!NumTTiles(c) * Router!TP(c)
        /\ \A n \in 0 .. Router!NumTTiles(c) - 1 : n * P = n * Router!TP(c)
    BY TilesFill
<1>2. Router!NumTTiles(c) \in Nat \ {0} /\ Router!TP(c) \in Nat \ {0} /\ Router!TOffset(c) \in Nat
      /\ Router!Local(c) = 0 .. Router!TLocal(c) - 1 /\ Router!TLocal(c) \in Nat
    BY TilesAre, Shards
<1> DEFINE q == Router!NumTTiles(c)
           b == Router!TP(c)
           o == Router!TOffset(c)
           l == Router!TLocal(c)
<1> HIDE DEF q, b, o, l
<1>3. ASSUME NEW n \in 0 .. q - 1, NEW r \in 0 .. b - 1 PROVE n * b + r \in 0 .. l - 1
    BY <1>1, <1>2, <1>3, Packed DEF q, b, l
<1>4. ASSUME NEW n \in 0 .. q - 1, NEW r \in 0 .. b - 1
      PROVE  n * P + r = n * b + r /\ n * P + r \in Router!Local(c)
    BY <1>1, <1>2, <1>3 DEF q, b, l
<1>5. ASSUME NEW n \in 0 .. q - 1, NEW t \in TileToks(c, n) PROVE t \in Toks(c)
    <2>1. n \in Nat /\ b \in Nat /\ n * b \in Nat /\ o \in Nat
        BY <1>2 DEF q, b, o
    <2>2. t \in (o + n * b) .. ((o + n * b) + b - 1)
        BY DEF TileToks, b, o
    <2> PICK r : r = t - (o + n * b) /\ r \in 0 .. b - 1 /\ t = o + (n * b + r)
        BY <2>1, <2>2
    <2> PICK i : i = n * b + r
        OBVIOUS
    <2>3. i \in 0 .. l - 1 /\ t = o + i
        BY <1>3
    <2>4. o \in Nat /\ l \in Nat
        BY <1>2 DEF o, l
    <2>5. t \in o .. o + l - 1
        BY ONLY <2>3, <2>4
    <2> QED BY <2>5 DEF Toks, o, l
<1>6. ASSUME NEW t \in Toks(c) PROVE \E n \in 0 .. q - 1 : t \in TileToks(c, n)
    <2>1. t - o \in Nat /\ t - o < q * b /\ t \in Nat
        BY <1>1, <1>2 DEF Toks, q, b, o
    <2> PICK n, r : Splits(t - o, b, n, r)
        BY <1>2, <2>1, DivModIs DEF b
    <2>2. n \in 0 .. q - 1
        BY <1>2, <2>1, DivLess DEF q
    <2>3. t - o = n * b + r /\ r \in 0 .. b - 1 /\ n * b \in Nat /\ o \in Nat /\ b \in Nat
        BY <1>2 DEF Splits, o, b
    <2>4. t \in (o + n * b) .. ((o + n * b) + b - 1)
        BY <2>1, <2>3
    <2> QED BY <2>2, <2>4 DEF TileToks, b, o
<1> QED BY <1>4, <1>5, <1>6 DEF q, b

\* Zeros go over the core's own tile, before its weights do.
LEMMA ZeroTileStep ==
    ASSUME RouterConstants, RouterInv, NEW c \in Router!Cores, Router!ZeroTile(c)
    PROVE  RouterInv'
<1>1. shape \in Launches /\ c \in Router!Core /\ HbmShape(hbm) /\ RouterByCore /\ pc[c] = "zero"
    BY Running DEF Router!ZeroTile, Router!Go
<1>2. MemIs(c, "zero", sb[c]) /\ PcIs(c, "zero", tile[c]) /\ OutIs("zero", out[c])
      /\ HbmIs(c, "zero", hbm)
    BY <1>1, Running
<1>3. Router!Scatters /\ shape.indirect
    BY <1>2 DEF PcIs
<1> DEFINE aff == [x \in Flat |-> IF x \div RouterExperts \in TileToks(c, tile[c]) THEN Router!Zero
                                  ELSE hbm.aff[x]]
           h == [hbm EXCEPT !.aff = aff]
<1>4. hbm' = h
    <2>1. DOMAIN hbm.aff = Flat
        BY <1>1 DEF HbmShape
    <2> QED BY <2>1 DEF Router!ZeroTile, TileToks
<1>5. OneRouterCore(c, "indirect", tile[c], sb[c], out[c], h)
    BY <1>1, <1>4 DEF OneRouterCore, Router!ZeroTile, Router!Go, RouterByCore
<1>6. /\ h.logits = hbm.logits /\ h.idx = hbm.idx /\ h.aff = aff
      /\ h = [logits |-> h.logits, idx |-> h.idx, aff |-> h.aff]
    BY <1>1 DEF HbmShape
<1>7. HbmShape(h)
    <2>1. DOMAIN aff = Flat
        OBVIOUS
    <2> HIDE DEF h, aff
    <2> QED BY <1>1, <1>6, <2>1 DEF HbmShape
<1>8. IndirectIs(pc', tile', h)
    <2> SUFFICES ASSUME NEW d \in Router!Cores, NEW x \in Flat,
                        Reached(d, pc'[d], tile'[d], x \div RouterExperts)
                 PROVE  \/ h.aff[x] = AffAt(x)
                        \/ /\ h.aff[x] = Router!Zero
                           /\ \E e \in Router!Cores : Touches(e, pc'[e], tile'[e],
                                x \div RouterExperts)
        BY DEF IndirectIs
    <2>1. Router!Cores \subseteq Router!Core
        BY <1>1, LaunchFields DEF Router!Cores, Router!Core
    <2>2. /\ pc'[c] = "indirect" /\ \A e \in Router!Cores : tile'[e] = tile[e]
          /\ \A e \in Router!Cores : e # c => pc'[e] = pc[e]
        BY <1>1, <1>5, <2>1 DEF OneRouterCore, RouterByCore
    <2> PICK t : t = x \div RouterExperts
        OBVIOUS
    <2>3. CASE t \in TileToks(c, tile[c])
        <3>1. h.aff[x] = Router!Zero
            BY <1>6, <2>3
        <3>2. Touches(c, pc'[c], tile'[c], t)
            BY <2>2, <2>3 DEF Touches
        <3> QED BY <3>1, <3>2
    <2>4. CASE t \notin TileToks(c, tile[c])
        <3>1. h.aff[x] = hbm.aff[x]
            BY <1>6, <2>4
        <3>2. Reached(d, pc[d], tile[d], t)
            BY <2>2, <2>4 DEF Reached
        <3>3. \A e \in Router!Cores : Touches(e, pc[e], tile[e], t)
                => Touches(e, pc'[e], tile'[e], t)
            BY <1>1, <2>2 DEF Touches
        <3>4. \/ hbm.aff[x] = AffAt(x)
              \/ hbm.aff[x] = Router!Zero /\ \E e \in Router!Cores : Touches(e, pc[e], tile[e], t)
            BY <1>3, <3>2 DEF RouterInv, IndirectIs
        <3> HIDE DEF h, aff
        <3> QED BY <3>1, <3>3, <3>4
    <2> QED BY <2>3, <2>4
<1> HIDE DEF h, aff
<1>9. PcIs(c, "indirect", tile[c])
    BY <1>2 DEF PcIs, BeforeTop, Weighed, Late
<1>10. MemIs(c, "indirect", sb[c])
    BY <1>2 DEF MemIs, BeforeTop, Weighed
<1>11. OutIs("indirect", out[c])
    BY <1>2 DEF OutIs, BeforeTop, Late
<1>12. HbmIs(c, "indirect", h)
    BY <1>2, <1>3, <1>6 DEF HbmIs, BeforeTop, Weighed
<1>13. Kept(h)
    BY <1>3, <1>6, <1>7 DEF Kept
<1>14. Onward(c, "indirect")
    BY <1>3 DEF Onward
<1> QED BY <1>5, <1>8, <1>9, <1>10, <1>11, <1>12, <1>13, <1>14, OneCoreKeeps

\* What the indirect store writes to a cell of its tile.
Writes(c, x) == {w \in (0 .. Router!TP(c) - 1) \X (1 .. K) : Router!FlatIndex(c, w[1], w[2]) = x}
Written(c, x) ==
    IF Writes(c, x) = {} THEN hbm.aff[x]
    ELSE LET w == CHOOSE w \in Writes(c, x) : TRUE IN sb[c].eager[tile[c] * P + w[1]][w[2]]

\* The cells of a token, and the experts they are of.
LEMMA CellIs ==
    ASSUME RouterConstants, shape \in Launches, NEW x \in Flat
    PROVE  /\ x \div RouterExperts \in 0 .. Router!T - 1 /\ x % RouterExperts \in Router!Expert
           /\ \A t \in Nat, e \in Router!Expert :
                 t * RouterExperts + e = x <=> t = x \div RouterExperts /\ e = x % RouterExperts
<1>1. RouterExperts \in Nat \ {0} /\ Router!T \in Nat \ {0}
        /\ Router!Expert = 0 .. RouterExperts - 1
    BY ExpertsCounted, LaunchFields DEF Router!Expert
<1>2. x \in Nat /\ x < Router!T * RouterExperts
    BY <1>1 DEF Flat
<1> PICK q, r : Splits(x, RouterExperts, q, r) /\ q = x \div RouterExperts /\ r = x % RouterExperts
    BY <1>1, <1>2, DivModIs
<1>3. q \in 0 .. Router!T - 1
    BY <1>1, <1>2, DivLess
<1>4. r \in Router!Expert /\ x = q * RouterExperts + r
    BY <1>1 DEF Splits
<1>5. ASSUME NEW t \in Nat, NEW e \in Router!Expert, t * RouterExperts + e = x PROVE t = q /\ e = r
    <2>1. Splits(x, RouterExperts, t, e)
        BY <1>1, <1>2, <1>5 DEF Splits
    <2> QED BY <2>1, DivModUnique
<1> QED BY <1>3, <1>4, <1>5

\* An indirect store leaves a token of its tile with its weights, zeros between
\* them, and the other tokens as they were.
LEMMA WrittenIs ==
    ASSUME RouterConstants, RouterInv, NEW c \in Router!Cores, pc[c] = "indirect", NEW x \in Flat
    PROVE  /\ x \div RouterExperts \in TileToks(c, tile[c]) => Written(c, x) = AffAt(x)
           /\ x \div RouterExperts \notin TileToks(c, tile[c]) => Written(c, x) = hbm.aff[x]
<1>1. shape \in Launches /\ c \in Router!Core /\ MemIs(c, "indirect", sb[c])
      /\ PcIs(c, "indirect", tile[c])
    BY Running
<1> DEFINE n == tile[c]
           t == x \div RouterExperts
           e == x % RouterExperts
           b == Router!TP(c)
           o == Router!TOffset(c)
<1>2. Router!Scatters /\ shape.indirect /\ n \in 0 .. Router!NumTTiles(c) - 1
    <2>1. Router!NumTTiles(c) \in Nat
        BY <1>1, TilesAre
    <2> QED BY <1>1, <2>1 DEF PcIs
<1>3. t \in 0 .. Router!T - 1 /\ e \in Router!Expert
    BY <1>1, CellIs
<1>4. n \in Nat /\ b \in Nat \ {0} /\ o \in Nat /\ n * b \in Nat /\ RouterExperts \in Nat \ {0}
    BY <1>1, <1>2, TilesAre, Shards, ExpertsCounted
<1>5. \A i \in Router!Local(c) : sb[c].index[i] = Best(o + i) /\ sb[c].eager[i] = EagerRow(o + i)
    BY <1>1, <1>2 DEF MemIs, BeforeTop, Weighed
<1>6. ASSUME NEW r \in 0 .. b - 1, NEW k \in 1 .. K
      PROVE  /\ Router!FlatIndex(c, r, k) = x <=> t = o + n * b + r /\ e = Best(t)[k]
             /\ sb[c].eager[n * P + r] = EagerRow(o + n * b + r)
    <2>1. n * P + r = n * b + r /\ n * P + r \in Router!Local(c)
        BY <1>1, <1>2, TileOwns
    <2>2. o + (n * P + r) = o + n * b + r
        BY <1>4, <2>1
    <2> PICK u : u = o + n * b + r
        OBVIOUS
    <2>3. u \in 0 .. Router!T - 1 /\ u \in Nat
        <3>1. o + (n * P + r) \in 0 .. Router!T - 1
            BY <1>1, <2>1, Shards
        <3> QED BY <2>2, <3>1, LaunchFields
    <2>4. sb[c].index[n * P + r] = Best(u) /\ sb[c].eager[n * P + r] = EagerRow(u)
        BY <1>5, <2>1, <2>2
    <2>5. Best(u)[k] \in Router!Expert
        BY <1>1, <2>3, BestIs
    <2>6. Router!FlatIndex(c, r, k) = u * RouterExperts + Best(u)[k]
        <3> PICK j : j = Best(u)[k]
            OBVIOUS
        <3>1. Router!FlatIndex(c, r, k) = (o + n * b) * RouterExperts + r * RouterExperts + j
            BY <2>4 DEF Router!FlatIndex
        <3>2. (o + n * b) * RouterExperts + r * RouterExperts = u * RouterExperts
            <4>1. u = (o + n * b) + r /\ o + n * b \in Nat /\ r \in Nat
                BY <1>4
            <4> PICK a \in Nat : a = o + n * b
                BY <4>1
            <4>2. u = a + r /\ r \in Nat
                BY <4>1
            <4>3. (a + r) * RouterExperts = a * RouterExperts + r * RouterExperts
                BY <1>4, <4>2
            <4> QED BY <4>2, <4>3
        <3> QED BY <3>1, <3>2
    <2>7. Router!FlatIndex(c, r, k) = x <=> u = t /\ Best(u)[k] = e
        BY <1>1, <2>3, <2>5, <2>6, CellIs
    <2> QED BY <2>4, <2>7
<1> DEFINE inside == t \in TileToks(c, n)
<1>7. inside <=> \E r \in 0 .. b - 1 : t = o + n * b + r
    <2>1. inside <=> t \in (o + n * b) .. ((o + n * b) + b - 1)
        BY DEF TileToks
    <2> PICK a \in Nat : a = o + n * b
        BY <1>4
    <2>2. t \in Nat
        BY <1>3, LaunchFields
    <2>3. t \in a .. (a + b - 1) => t - a \in 0 .. b - 1 /\ t = a + (t - a)
        BY <1>4, <2>2
    <2>4. \A r \in 0 .. b - 1 : a + r \in a .. (a + b - 1)
        BY <1>4
    <2> HIDE DEF n, t, b, o
    <2> QED BY <2>1, <2>3, <2>4
<1>8. ASSUME ~inside PROVE Written(c, x) = hbm.aff[x]
    <2>1. Writes(c, x) = {}
        <3> SUFFICES ASSUME NEW w \in Writes(c, x) PROVE FALSE
            OBVIOUS
        <3>1. w[1] \in 0 .. b - 1 /\ w[2] \in 1 .. K /\ Router!FlatIndex(c, w[1], w[2]) = x
            BY DEF Writes
        <3> QED BY <1>6, <1>7, <1>8, <3>1
    <2> QED BY <2>1 DEF Written
<1>9. ASSUME inside PROVE Written(c, x) = AffRow(t)[e]
    <2> PICK r \in 0 .. b - 1 : t = o + n * b + r
        BY <1>7, <1>9
    <2>1. AffRow(t)[e] = IF e \in Router!RefTop(t) THEN Router!RefWeight(t, e) ELSE Router!Zero
        BY <1>2, <1>3 DEF AffRow
    <2>2. ASSUME NEW w \in Writes(c, x)
          PROVE  /\ e = Best(t)[w[2]] /\ w[2] \in 1 .. K
                 /\ sb[c].eager[n * P + w[1]][w[2]] = Router!RefWeight(t, e)
        <3>1. w[1] \in 0 .. b - 1 /\ w[2] \in 1 .. K /\ Router!FlatIndex(c, w[1], w[2]) = x
            BY DEF Writes
        <3>2. t = o + n * b + w[1] /\ e = Best(t)[w[2]]
              /\ sb[c].eager[n * P + w[1]] = EagerRow(o + n * b + w[1])
            BY <1>6, <3>1
        <3> HIDE DEF t, e
        <3> QED BY <3>1, <3>2 DEF EagerRow
    <2>3. CASE Writes(c, x) # {}
        <3> PICK w \in Writes(c, x) : w = CHOOSE v \in Writes(c, x) : TRUE
            BY <2>3
        <3>1. Written(c, x) = sb[c].eager[n * P + w[1]][w[2]]
            BY <2>3 DEF Written
        <3>2. e \in Router!RefTop(t)
            BY <1>1, <1>3, <2>2, BestIs
        <3> QED BY <2>1, <2>2, <3>1, <3>2
    <2>4. CASE Writes(c, x) = {}
        <3>1. e \notin Router!RefTop(t)
            <4> SUFFICES ASSUME e \in Router!RefTop(t) PROVE FALSE
                OBVIOUS
            <4> PICK k \in 1 .. K : e = Best(t)[k]
                BY <1>1, <1>3, BestIs
            <4>1. Router!FlatIndex(c, r, k) = x
                BY <1>6
            <4>2. <<r, k>> \in Writes(c, x)
                BY <4>1 DEF Writes
            <4> QED BY <2>4, <4>2
        <3>2. Reached(c, pc[c], tile[c], t)
            BY <1>2, <1>9 DEF Reached
        <3>3. hbm.aff[x] = AffAt(x) \/ hbm.aff[x] = Router!Zero
            BY <1>2, <3>2 DEF RouterInv, IndirectIs
        <3>4. AffAt(x) = Router!Zero /\ AffRow(t)[e] = Router!Zero
            BY <2>1, <3>1 DEF AffAt
        <3> QED BY <2>4, <3>3, <3>4 DEF Written
    <2> QED BY <2>3, <2>4
<1> QED BY <1>8, <1>9 DEF AffAt

\* After the store the tile is as the reference's.
LEMMA ScatterStep ==
    ASSUME RouterConstants, RouterInv, NEW c \in Router!Cores, Router!ScatterIndirect(c)
    PROVE  RouterInv'
<1>1. shape \in Launches /\ c \in Router!Core /\ HbmShape(hbm) /\ RouterByCore /\ pc[c] = "indirect"
    BY Running DEF Router!ScatterIndirect, Router!Go
<1>2. MemIs(c, "indirect", sb[c]) /\ PcIs(c, "indirect", tile[c]) /\ OutIs("indirect", out[c])
      /\ HbmIs(c, "indirect", hbm)
    BY <1>1, Running
<1>3. Router!Scatters /\ shape.indirect /\ ~shape.affSb
    BY <1>1, <1>2, LaunchFields DEF PcIs
<1>4. tile[c] \in Nat /\ Router!NumTTiles(c) \in Nat /\ tile[c] < Router!NumTTiles(c)
    BY <1>1, <1>2, TilesAre DEF PcIs
<1> PICK at : at = IF tile[c] + 1 < Router!NumTTiles(c) THEN "zero" ELSE "eager"
    OBVIOUS
<1> DEFINE aff == [x \in Flat |-> Written(c, x)]
           h == [hbm EXCEPT !.aff = aff]
<1>5. hbm' = h
    <2>1. DOMAIN hbm.aff = Flat
        BY <1>1 DEF HbmShape
    <2> QED BY <2>1 DEF Router!ScatterIndirect, Written, Writes
<1>6. OneRouterCore(c, at, tile[c] + 1, sb[c], out[c], h)
    BY <1>1, <1>5 DEF OneRouterCore, Router!ScatterIndirect, Router!Go, RouterByCore
<1>7. /\ h.logits = hbm.logits /\ h.idx = hbm.idx /\ h.aff = aff
      /\ h = [logits |-> h.logits, idx |-> h.idx, aff |-> h.aff]
    BY <1>1 DEF HbmShape
<1>8. HbmShape(h)
    <2>1. DOMAIN aff = Flat
        OBVIOUS
    <2> HIDE DEF h, aff
    <2> QED BY <1>1, <1>7, <2>1 DEF HbmShape
<1>9. \A x \in Flat : /\ x \div RouterExperts \in TileToks(c, tile[c]) => h.aff[x] = AffAt(x)
                      /\ x \div RouterExperts \notin TileToks(c, tile[c]) => h.aff[x] = hbm.aff[x]
    BY <1>1, <1>7, WrittenIs
<1> HIDE DEF h, aff
<1>10. IndirectIs(pc', tile', h)
    <2> SUFFICES ASSUME NEW d \in Router!Cores, NEW x \in Flat,
                        Reached(d, pc'[d], tile'[d], x \div RouterExperts)
                 PROVE  \/ h.aff[x] = AffAt(x)
                        \/ /\ h.aff[x] = Router!Zero
                           /\ \E e \in Router!Cores : Touches(e, pc'[e], tile'[e],
                                x \div RouterExperts)
        BY DEF IndirectIs
    <2>1. Router!Cores \subseteq Router!Core
        BY <1>1, LaunchFields DEF Router!Cores, Router!Core
    <2>2. /\ pc'[c] = at /\ at # "indirect" /\ tile'[c] = tile[c] + 1
          /\ \A e \in Router!Cores : e # c => pc'[e] = pc[e] /\ tile'[e] = tile[e]
        BY <1>1, <1>6, <2>1 DEF OneRouterCore, RouterByCore
    <2> PICK t : t = x \div RouterExperts
        OBVIOUS
    <2>3. CASE t \in TileToks(c, tile[c])
        BY <1>9, <2>3
    <2>4. CASE t \notin TileToks(c, tile[c])
        <3>1. h.aff[x] = hbm.aff[x]
            BY <1>9, <2>4
        <3>2. Reached(d, pc[d], tile[d], t)
            <4>1. CASE d # c
                BY <2>2, <4>1
            <4>2. CASE d = c
                <5> PICK m \in 0 .. Router!NumTTiles(c) - 1 : t \in TileToks(c, m)
                      /\ m < tile[c] + 1
                    BY <2>2, <4>2 DEF Reached
                <5>1. m # tile[c]
                    BY <2>4
                <5>2. m < tile[c]
                    BY <1>4, <5>1
                <5> QED BY <4>2, <5>2 DEF Reached
            <4> QED BY <4>1, <4>2
        <3>3. \A e \in Router!Cores : Touches(e, pc[e], tile[e], t)
                => Touches(e, pc'[e], tile'[e], t)
            <4> SUFFICES ASSUME NEW e \in Router!Cores, Touches(e, pc[e], tile[e], t)
                         PROVE  Touches(e, pc'[e], tile'[e], t)
                OBVIOUS
            <4>1. e # c
                BY <2>4 DEF Touches
            <4> QED BY <2>2, <4>1
        <3>4. \/ hbm.aff[x] = AffAt(x)
              \/ hbm.aff[x] = Router!Zero /\ \E e \in Router!Cores : Touches(e, pc[e], tile[e], t)
            BY <1>3, <3>2 DEF RouterInv, IndirectIs
        <3> QED BY <3>1, <3>3, <3>4
    <2> QED BY <2>3, <2>4
<1>11. PcIs(c, at, tile[c] + 1)
    <2>1. tile[c] + 1 \in 0 .. Router!NumTTiles(c)
          /\ (~(tile[c] + 1 < Router!NumTTiles(c)) => tile[c] + 1 = Router!NumTTiles(c))
        BY <1>4
    <2> QED BY <1>3, <2>1 DEF PcIs, BeforeTop, Weighed, Late
<1>12. MemIs(c, at, sb[c])
    BY <1>2 DEF MemIs, BeforeTop, Weighed
<1>13. OutIs(at, out[c])
    BY <1>2, <1>3 DEF OutIs, BeforeTop, Late
<1>14. HbmIs(c, at, h)
    BY <1>2, <1>3, <1>7 DEF HbmIs, BeforeTop, Weighed
<1>15. Kept(h)
    BY <1>3, <1>7, <1>8 DEF Kept
<1>16. Onward(c, at)
    BY <1>3 DEF Onward
<1> QED BY <1>6, <1>10, <1>11, <1>12, <1>13, <1>14, <1>15, <1>16, OneCoreKeeps

\* A core's rows of an output.
Holds(c, rows, due) == \A i \in Router!Local(c) : rows[i] = due[Router!TOffset(c) + i]

\* Those of both cores come together.
LEMMA PlaceIs ==
    ASSUME RouterConstants, shape \in Launches, shape.shard, NEW c \in Router!Core,
             NEW d \in Router!Core, c # d,
           NEW mine, NEW received, NEW due,
           due = [t \in 0 .. Router!T - 1 |-> due[t]], Holds(c, mine, due), Holds(d, received, due)
    PROVE  Router!Place(c, mine, received) = due
<1>1. d = 1 - c
    BY DEF Router!Core
<1>2. Router!TOffset(c) \in Nat /\ Router!TLocal(c) \in Nat /\ Router!TOffset(d) \in Nat
        /\ Router!TLocal(d) \in Nat
      /\ Router!T \in Nat /\ Router!Local(c) = 0 .. Router!TLocal(c) - 1
           /\ Router!Local(d) = 0 .. Router!TLocal(d) - 1
    BY Shards
<1>3. \/ Router!TOffset(c) = 0 /\ Router!TOffset(d) = Router!TLocal(c)
           /\ Router!TOffset(d) + Router!TLocal(d) = Router!T
      \/ Router!TOffset(d) = 0 /\ Router!TOffset(c) = Router!TLocal(d)
           /\ Router!TOffset(c) + Router!TLocal(c) = Router!T
    <2>1. CASE c = 0
        <3>1. Router!TOffset(0) = 0 /\ Router!TOffset(1) = Router!TLocal(0)
                /\ Router!TOffset(1) + Router!TLocal(1) = Router!T
            BY Shards DEF Router!Core
        <3>2. d = 1
            BY <1>1, <2>1
        <3> QED BY <2>1, <3>1, <3>2
    <2>2. CASE c = 1
        <3>1. Router!TOffset(0) = 0 /\ Router!TOffset(1) = Router!TLocal(0)
                /\ Router!TOffset(1) + Router!TLocal(1) = Router!T
            BY Shards DEF Router!Core
        <3>2. d = 0
            BY <1>1, <2>2
        <3> QED BY <2>2, <3>1, <3>2
    <2> QED BY <2>1, <2>2 DEF Router!Core
<1>4. ASSUME NEW t \in 0 .. Router!T - 1
      PROVE  (IF t >= Router!TOffset(c) /\ t < Router!TOffset(c) + Router!TLocal(c)
               THEN mine[t - Router!TOffset(c)]
              ELSE received[t - Router!TOffset(d)]) = due[t]
    <2>1. t \in Nat /\ t < Router!T
        BY <1>2
    <2>2. CASE t >= Router!TOffset(c) /\ t < Router!TOffset(c) + Router!TLocal(c)
        <3>1. t - Router!TOffset(c) \in Router!Local(c)
                /\ Router!TOffset(c) + (t - Router!TOffset(c)) = t
            BY <1>2, <2>1, <2>2
        <3> QED BY <2>2, <3>1 DEF Holds
    <2>3. CASE ~(t >= Router!TOffset(c) /\ t < Router!TOffset(c) + Router!TLocal(c))
        <3>1. t - Router!TOffset(d) \in Router!Local(d)
                /\ Router!TOffset(d) + (t - Router!TOffset(d)) = t
            BY <1>2, <1>3, <2>1, <2>3
        <3> QED BY <2>3, <3>1 DEF Holds
    <2> QED BY <2>2, <2>3
<1> QED BY <1>1, <1>4 DEF Router!Place

\* Above a tile of tokens the cores have as many whole tiles each.
LEMMA TilesMeet ==
    ASSUME RouterConstants, shape \in Launches, shape.shard, shape.idxSb, Router!T > P,
           \A c \in Router!Core : sb[c].index
             = [i \in Router!Local(c) |-> Best(Router!TOffset(c) + i)]
    PROVE  [t \in 0 .. Router!T - 1 |-> Router!TilePlace(t)] = [t \in 0 .. Router!T - 1 |-> Best(t)]
<1>1. P \in Nat \ {0} /\ Router!T \in Nat \ {0} /\ Router!T % (2 * P) = 0
    BY ExpertsCounted, LaunchFields
<1> PICK m \in Nat : Router!T = m * (2 * P) /\ Router!T \div P = 2 * m
    <2>1. 2 * P \in Nat \ {0}
        BY <1>1
    <2> PICK m : Splits(Router!T, 2 * P, m, 0)
        <3>1. Splits(Router!T, 2 * P, Router!T \div (2 * P), Router!T % (2 * P))
            BY <1>1, <2>1, DivModIs
        <3> QED BY <1>1, <3>1
    <2>2. m \in Nat /\ Router!T = m * (2 * P)
        BY <1>1 DEF Splits
    <2>3. Router!T = (2 * m) * P
        BY <1>1, <2>2
    <2>4. Splits(Router!T, P, 2 * m, 0)
        BY <1>1, <2>2, <2>3 DEF Splits
    <2> QED BY <2>2, <2>4, DivModUnique
<1> DEFINE n == m * P
<1>2. n \in Nat /\ Router!T = n + n /\ Router!T = (2 * m) * P
    BY <1>1
<1>3. Router!TFirst = n
    <2> HIDE DEF n
    <2>1. \A a \in Nat : (a + a) \div 2 = a
        OBVIOUS
    <2> QED BY <1>2, <2>1 DEF Router!TFirst
<1>4. /\ Router!TLocal(0) = n /\ Router!TLocal(1) = n /\ Router!TOffset(0) = 0
           /\ Router!TOffset(1) = n
    <2> HIDE DEF n
    <2> QED BY <1>2, <1>3 DEF Router!TLocal, Router!TOffset
<1>5. Router!CeilDiv(n, P) = m /\ Router!CeilDiv(Router!T, P) = 2 * m
    <2>1. Splits(n + P - 1, P, m, P - 1)
        BY <1>1, <1>2 DEF Splits
    <2>2. Splits(Router!T + P - 1, P, 2 * m, P - 1)
        BY <1>1, <1>2 DEF Splits
    <2> QED BY <2>1, <2>2, DivModUnique DEF Router!CeilDiv
<1>6. Router!NumTTiles(0) = m /\ Router!NumTTiles(1) = m /\ Router!FirstTile(0) = 0
        /\ Router!FirstTile(1) = m
    <2>1. Router!NumTTiles(0) = m /\ Router!NumTTiles(1) = m /\ Router!TilesTotal = 2 * m
        BY <1>4, <1>5 DEF Router!NumTTiles, Router!TilesTotal
    <2> QED BY <2>1 DEF Router!FirstTile
<1>7. ASSUME NEW t \in 0 .. Router!T - 1 PROVE Router!TilePlace(t) = Best(t)
    <2>1. t \in Nat /\ t < (2 * m) * P
        BY <1>1, <1>2
    <2> PICK q, r : Splits(t, P, q, r) /\ q = Router!TileOf(t) /\ r = Router!RowOf(t)
        BY <1>1, <2>1, DivModIs DEF Router!TileOf, Router!RowOf
    <2>2. q \in 0 .. (2 * m) - 1
        BY <2>1, DivLess
    <2>3. t = q * P + r /\ q \in Nat /\ r \in 0 .. P - 1
        BY DEF Splits
    <2> DEFINE has(c) == q \in Router!FirstTile(c) .. Router!FirstTile(c) + Router!NumTTiles(c) - 1
    <2> PICK w : w = CHOOSE c \in Router!Core : has(c)
        OBVIOUS
    <2>4. /\ has(0) <=> q \in 0 .. m - 1
          /\ has(1) <=> q \in m .. m + m - 1
        BY <1>6
    <2>5. \E c \in Router!Core : has(c)
        <3>1. q \in 0 .. m - 1 \/ q \in m .. m + m - 1
            BY <2>2
        <3> HIDE DEF has
        <3> QED BY <2>4, <3>1 DEF Router!Core
    <2>6. w \in Router!Core /\ has(w)
        <3> HIDE DEF has
        <3> QED BY <2>5
    <2>7. Router!TilePlace(t) = sb[w].index[(q - Router!FirstTile(w)) * P + r]
        BY DEF Router!TilePlace
    <2> HIDE DEF has
    <2>8. (w = 0 /\ q \in 0 .. m - 1) \/ (w = 1 /\ q \in m .. m + m - 1)
        <3>1. w = 0 \/ w = 1
            BY <2>6 DEF Router!Core
        <3>2. CASE w = 0
            BY <2>4, <2>6, <3>2, Zenon
        <3>3. CASE w = 1
            BY <2>4, <2>6, <3>3, Zenon
        <3> QED BY <3>1, <3>2, <3>3
    <2> PICK i : i = (q - Router!FirstTile(w)) * P + r
        OBVIOUS
    <2>9. i \in 0 .. n - 1 /\ Router!TOffset(w) + i = t
        <3>1. CASE w = 0 /\ q \in 0 .. m - 1
            <4>1. q - Router!FirstTile(w) = q /\ Router!TOffset(w) = 0
                <5>1. Router!FirstTile(w) = 0 /\ Router!TOffset(w) = 0
                    BY <1>4, <1>6, <3>1, Zenon
                <5> QED BY <2>3, <5>1
            <4>2. i = q * P + r
                BY <4>1
            <4>3. q * P + r \in 0 .. m * P - 1
                BY <1>1, <2>3, <3>1, Packed
            <4>4. t \in 0 .. n - 1 /\ i = t
                BY <2>3, <4>2, <4>3
            <4>5. 0 + i = t
                BY <4>4, <1>2
            <4> QED BY <4>1, <4>4, <4>5
        <3>2. CASE w = 1 /\ q \in m .. m + m - 1
            <4> PICK z \in 0 .. m - 1 : z = q - m /\ q = m + z
                BY <2>3, <3>2
            <4>1. i = z * P + r
                BY <1>6, <3>2
            <4>2. z * P + r \in 0 .. m * P - 1
                BY <1>1, <2>3, Packed
            <4>3. q * P = n + z * P
                BY <1>1
            <4>4. Router!TOffset(w) = n
                BY <1>4, <3>2
            <4> PICK v \in Nat : v = z * P
                BY <1>1
            <4> HIDE DEF n
            <4>5. i = v + r /\ t = (n + v) + r
                BY <2>3, <4>1, <4>3
            <4>6. Router!TOffset(w) + i = t
                BY <1>2, <2>3, <4>4, <4>5
            <4> QED BY <4>1, <4>2, <4>6 DEF n
        <3> QED BY <2>8, <3>1, <3>2
    <2>10. i \in Router!Local(w)
        <3>1. Router!TLocal(w) = n
            BY <1>4, <2>8, Zenon
        <3>2. Router!Local(w) = 0 .. n - 1
            BY <3>1, Zenon DEF Router!Local
        <3> HIDE DEF n
        <3> QED BY <2>9, <3>2
    <2>11. \A j \in Router!Local(w) : sb[w].index[j] = Best(Router!TOffset(w) + j)
        <3>1. sb[w].index = [j \in Router!Local(w) |-> Best(Router!TOffset(w) + j)]
            BY <2>6, Zenon
        <3> QED BY <3>1
    <2>12. Router!TilePlace(t) = sb[w].index[i]
        BY <2>7
    <2> QED BY <2>9, <2>10, <2>11, <2>12
<1> QED BY <1>7

\* All cores run when they meet.
LEMMA MeetRuns ==
    ASSUME RouterConstants, RouterInv, NEW here, here # "done", \A c \in Router!Core : pc[c] = here
    PROVE  /\ Router!Cores = Router!Core /\ shape.cores = 2 /\ shape \in Launches /\ RouterByCore
                /\ HbmShape(hbm)
           /\ \A c \in Router!Core : /\ PcIs(c, here, tile[c]) /\ MemIs(c, here, sb[c])
                              /\ OutIs(here, out[c]) /\ HbmIs(c, here, hbm)
<1>1. shape \in Launches /\ shape.cores \in {1, 2}
    BY LaunchFields DEF RouterInv
<1>2. Router!Cores = Router!Core /\ shape.cores = 2
    <2>1. Router!Core \ Router!Cores = {}
        BY DEF RouterInv
    <2> QED BY <1>1, <2>1 DEF Router!Cores, Router!Core
<1> QED BY <1>1, <1>2 DEF RouterInv, RouterCoreIs

\* The exchanged indexes are those of all tokens, at their own places.
LEMMA SwapIndexStep ==
    ASSUME RouterConstants, RouterInv, Router!SwapIndex
    PROVE  RouterInv'
<1>1. \A c \in Router!Core : pc[c] = "swapidx"
    BY DEF Router!SwapIndex, Router!Meet
<1>2. /\ Router!Cores = Router!Core /\ shape \in Launches /\ RouterByCore
      /\ \A c \in Router!Core : /\ PcIs(c, "swapidx", tile[c]) /\ MemIs(c, "swapidx", sb[c])
                         /\ OutIs("swapidx", out[c]) /\ HbmIs(c, "swapidx", hbm)
    BY <1>1, MeetRuns
<1>3. shape.idxSb /\ shape.shard
    BY <1>2 DEF PcIs, Router!Core
<1>4. \A c \in Router!Core : sb[c].index = [i \in Router!Local(c) |-> Best(Router!TOffset(c) + i)]
    BY <1>2 DEF MemIs, BeforeTop
<1> PICK best : best = [t \in 0 .. Router!T - 1 |-> Best(t)]
    OBVIOUS
<1>5. ASSUME NEW c \in Router!Core
      PROVE  (IF Router!T <= P THEN Router!Place(c, sb[c].index, sb[1 - c].index)
              ELSE [t \in 0 .. Router!T - 1 |-> Router!TilePlace(t)]) = best
    <2>1. CASE Router!T <= P
        <3>1. \A d \in Router!Core : sb[d].index
                = [i \in Router!Local(d) |-> best[Router!TOffset(d) + i]]
            <4> SUFFICES ASSUME NEW d \in Router!Core, NEW i \in Router!Local(d)
                         PROVE  Best(Router!TOffset(d) + i) = best[Router!TOffset(d) + i]
                BY <1>4
            <4>1. Router!TOffset(d) + i \in 0 .. Router!T - 1
                BY <1>2, Shards
            <4> QED BY <4>1
        <3>2. c \in Router!Core /\ 1 - c \in Router!Core
            BY DEF Router!Core
        <3>3. Router!Place(c, sb[c].index, sb[1 - c].index) = best
            <4>1. Holds(c, sb[c].index, best)
                BY <3>1 DEF Holds
            <4> PICK d \in Router!Core : d = 1 - c
                BY <3>2
            <4>2. Holds(d, sb[d].index, best)
                BY <3>1 DEF Holds
            <4>3. c # d
                BY DEF Router!Core
            <4>4. best = [t \in 0 .. Router!T - 1 |-> best[t]]
                OBVIOUS
            <4>5. shape \in Launches /\ shape.shard
                BY <1>2, <1>3
            <4>6. Router!Place(c, sb[c].index, sb[d].index) = best
                BY ONLY RouterConstants, c \in Router!Core, d \in Router!Core, <4>1, <4>2, <4>3,
                     <4>4, <4>5, PlaceIs
            <4> QED BY <4>6
        <3> QED BY <2>1, <3>3
    <2>2. CASE ~(Router!T <= P)
        <3>1. Router!T > P
            BY <1>2, <2>2, LaunchFields, ExpertsCounted
        <3> QED BY <1>2, <1>3, <1>4, <2>2, <3>1, TilesMeet
    <2> QED BY <2>1, <2>2
<1>6. out' = [c \in Router!Core |-> [out[c] EXCEPT !.idx = best]]
    BY <1>5 DEF Router!SwapIndex
<1>7. Router!AfterIndex \in {"weigh", "eager"} /\ (Router!AfterIndex = "weigh" <=> Router!Scatters)
    BY DEF Router!AfterIndex
<1> PICK there : there = Router!AfterIndex
    OBVIOUS
<1>8. MeetKeepsAll("swapidx", there)
    <2>1. out' = [c \in Router!Core |-> out'[c]]
        BY <1>6
    <2> QED BY <1>1, <2>1 DEF MeetKeepsAll, Router!SwapIndex, Router!Meet
<1>9. ASSUME NEW c \in Router!Core
      PROVE  /\ PcIs(c, there, tile[c]) /\ MemIs(c, there, sb[c])
             /\ OutIs(there, out'[c]) /\ HbmIs(c, there, hbm)
    <2>1. PcIs(c, "swapidx", tile[c]) /\ MemIs(c, "swapidx", sb[c])
          /\ OutIs("swapidx", out[c]) /\ HbmIs(c, "swapidx", hbm)
        BY <1>2
    <2>2. PcIs(c, there, tile[c])
        BY <1>7, <2>1 DEF PcIs, BeforeTop, Weighed, Late
    <2>3. MemIs(c, there, sb[c])
        BY <1>7, <2>1 DEF MemIs, BeforeTop, Weighed
    <2>4. OutIs(there, out'[c])
        <3>1. out'[c] = [out[c] EXCEPT !.idx = best]
            BY <1>6
        <3>2. /\ out'[c].idx = best
              /\ out'[c] = [idx |-> out'[c].idx, aff |-> out'[c].aff, eager |-> out'[c].eager]
            <4> PICK o : o = out[c] /\ o = [idx |-> o.idx, aff |-> o.aff, eager |-> o.eager]
                BY <2>1 DEF OutIs
            <4> PICK p : p = out'[c] /\ p = [o EXCEPT !.idx = best]
                BY <3>1
            <4> QED OBVIOUS
        <3>3. ~Router!Scatters => ~shape.affSb
            BY <1>2, LaunchFields
        <3> QED BY <1>7, <3>2, <3>3 DEF OutIs, Late
    <2>5. HbmIs(c, there, hbm)
        <3>1. shape.idxSb => ~shape.indirect
            BY <1>2, LaunchFields
        <3> QED BY <1>7, <2>1 DEF HbmIs, BeforeTop, Weighed
    <2> QED BY <2>2, <2>3, <2>4, <2>5
<1> QED BY <1>7, <1>8, <1>9, MeetKeeps

\* A barrier only lets the cores go on.
LEMMA BarrierStep ==
    ASSUME RouterConstants, RouterInv, Router!Barrier
    PROVE  RouterInv'
<1> PICK here, there : /\ Router!Meet(here, there)
                       /\ \/ here = "fullmeet" /\ there = "topk"
                          \/ here = "affmeet" /\ there = "eager"
    <2>1. CASE Router!Meet("fullmeet", "topk")
        BY <2>1
    <2>2. CASE Router!Meet("affmeet", "eager")
        BY <2>2
    <2> QED BY <2>1, <2>2 DEF Router!Barrier
<1>1. \A c \in Router!Core : pc[c] = here
    BY DEF Router!Meet
<1>2. /\ Router!Cores = Router!Core /\ shape \in Launches /\ RouterByCore
      /\ \A c \in Router!Core : /\ PcIs(c, here, tile[c]) /\ MemIs(c, here, sb[c])
                         /\ OutIs(here, out[c]) /\ HbmIs(c, here, hbm)
    BY <1>1, MeetRuns
<1>3. MeetKeepsAll(here, there) /\ out' = out
    BY <1>1, <1>2 DEF MeetKeepsAll, Router!Barrier, Router!Meet, RouterByCore
<1>4. ASSUME NEW c \in Router!Core
      PROVE  /\ PcIs(c, there, tile[c]) /\ MemIs(c, there, sb[c])
             /\ OutIs(there, out'[c]) /\ HbmIs(c, there, hbm)
    <2>1. PcIs(c, here, tile[c]) /\ MemIs(c, here, sb[c])
          /\ OutIs(here, out[c]) /\ HbmIs(c, here, hbm)
        BY <1>2
    <2>2. PcIs(c, there, tile[c])
        BY <2>1 DEF PcIs, BeforeTop, Weighed, Late
    <2>3. MemIs(c, there, sb[c])
        BY <2>1 DEF MemIs, BeforeTop, Weighed
    <2>4. OutIs(there, out'[c])
        BY <1>3, <2>1 DEF OutIs, PcIs, BeforeTop, Late
    <2>5. HbmIs(c, there, hbm)
        BY <2>1 DEF HbmIs, BeforeTop, Weighed
    <2> QED BY <2>2, <2>3, <2>4, <2>5
<1> QED BY <1>3, <1>4, MeetKeeps

\* The exchanged weights of all experts are at their tokens' places.
LEMMA SwapAffinitiesStep ==
    ASSUME RouterConstants, RouterInv, Router!SwapAffinities
    PROVE  RouterInv'
<1>1. \A c \in Router!Core : pc[c] = "swapaff"
    BY DEF Router!SwapAffinities, Router!Meet
<1>2. /\ Router!Cores = Router!Core /\ shape \in Launches /\ RouterByCore
      /\ \A c \in Router!Core : /\ PcIs(c, "swapaff", tile[c]) /\ MemIs(c, "swapaff", sb[c])
                         /\ OutIs("swapaff", out[c]) /\ HbmIs(c, "swapaff", hbm)
    BY <1>1, MeetRuns
<1>3. Router!Scatters /\ shape.affSb /\ shape.shard /\ ~shape.indirect
    BY <1>2, LaunchFields DEF PcIs, Router!Core
<1>4. \A c \in Router!Core : sb[c].hot = [i \in Router!Local(c) |-> AffRow(Router!TOffset(c) + i)]
    BY <1>2, <1>3 DEF MemIs, Weighed
<1> PICK due : due = [t \in 0 .. Router!T - 1 |-> AffRow(t)]
    OBVIOUS
<1>5. \A c \in Router!Core : Holds(c, sb[c].hot, due)
    <2> SUFFICES ASSUME NEW c \in Router!Core, NEW i \in Router!Local(c)
                 PROVE  sb[c].hot[i] = due[Router!TOffset(c) + i]
        BY DEF Holds
    <2>1. Router!TOffset(c) + i \in 0 .. Router!T - 1
        BY <1>2, Shards
    <2> QED BY <1>4, <2>1
<1>6. due = [t \in 0 .. Router!T - 1 |-> due[t]]
    OBVIOUS
<1>7. ASSUME NEW c \in Router!Core PROVE Router!Place(c, sb[c].hot, sb[1 - c].hot) = due
    <2> PICK d \in Router!Core : d = 1 - c /\ c # d
        BY DEF Router!Core
    <2>1. Router!Place(c, sb[c].hot, sb[d].hot) = due
        <3>1. shape \in Launches /\ shape.shard /\ c # d
              /\ Holds(c, sb[c].hot, due) /\ Holds(d, sb[d].hot, due)
            BY <1>2, <1>3, <1>5
        <3> QED BY ONLY RouterConstants, c \in Router!Core, d \in Router!Core, <1>6, <3>1, PlaceIs
    <2> QED BY <2>1
<1>8. out' = [c \in Router!Core |-> [out[c] EXCEPT !.aff = due]]
    BY <1>7 DEF Router!SwapAffinities
<1>9. MeetKeepsAll("swapaff", "eager")
    <2>1. out' = [c \in Router!Core |-> out'[c]]
        BY <1>8
    <2> QED BY <1>1, <2>1 DEF MeetKeepsAll, Router!SwapAffinities, Router!Meet
<1>10. ASSUME NEW c \in Router!Core
       PROVE  /\ PcIs(c, "eager", tile[c]) /\ MemIs(c, "eager", sb[c])
              /\ OutIs("eager", out'[c]) /\ HbmIs(c, "eager", hbm)
    <2>1. PcIs(c, "swapaff", tile[c]) /\ MemIs(c, "swapaff", sb[c])
          /\ OutIs("swapaff", out[c]) /\ HbmIs(c, "swapaff", hbm)
        BY <1>2
    <2>2. PcIs(c, "eager", tile[c])
        BY <1>3, <2>1 DEF PcIs, BeforeTop, Weighed, Late
    <2>3. MemIs(c, "eager", sb[c])
        BY <2>1 DEF MemIs, BeforeTop, Weighed
    <2>4. OutIs("eager", out'[c])
        <3>1. /\ out'[c].aff = due /\ out'[c].idx = out[c].idx
              /\ out'[c] = [idx |-> out'[c].idx, aff |-> out'[c].aff, eager |-> out'[c].eager]
            <4> PICK o : o = out[c] /\ o = [idx |-> o.idx, aff |-> o.aff, eager |-> o.eager]
                BY <2>1 DEF OutIs
            <4> PICK p : p = out'[c] /\ p = [o EXCEPT !.aff = due]
                BY <1>8
            <4> QED OBVIOUS
        <3> QED BY <2>1, <3>1 DEF OutIs, BeforeTop, Late
    <2>5. HbmIs(c, "eager", hbm)
        BY <2>1 DEF HbmIs, BeforeTop, Weighed
    <2> QED BY <2>2, <2>3, <2>4, <2>5
<1> QED BY <1>9, <1>10, MeetKeeps

\* And so are the exchanged weights of the chosen.
LEMMA SwapEagerStep ==
    ASSUME RouterConstants, RouterInv, Router!SwapEager
    PROVE  RouterInv'
<1>1. \A c \in Router!Core : pc[c] = "swapeager"
    BY DEF Router!SwapEager, Router!Meet
<1>2. /\ Router!Cores = Router!Core /\ shape \in Launches /\ RouterByCore
      /\ \A c \in Router!Core : /\ PcIs(c, "swapeager", tile[c]) /\ MemIs(c, "swapeager", sb[c])
                         /\ OutIs("swapeager", out[c]) /\ HbmIs(c, "swapeager", hbm)
    BY <1>1, MeetRuns
<1>3. Router!Scatters /\ shape.eager /\ shape.shard
    BY <1>2, LaunchFields DEF PcIs, Router!Core
<1>4. \A c \in Router!Core : sb[c].eager
        = [i \in Router!Local(c) |-> EagerRow(Router!TOffset(c) + i)]
    BY <1>2, <1>3 DEF MemIs, Weighed
<1> PICK due : due = [t \in 0 .. Router!T - 1 |-> EagerRow(t)]
    OBVIOUS
<1>5. \A c \in Router!Core : Holds(c, sb[c].eager, due)
    <2> SUFFICES ASSUME NEW c \in Router!Core, NEW i \in Router!Local(c)
                 PROVE  sb[c].eager[i] = due[Router!TOffset(c) + i]
        BY DEF Holds
    <2>1. Router!TOffset(c) + i \in 0 .. Router!T - 1
        BY <1>2, Shards
    <2> QED BY <1>4, <2>1
<1>6. due = [t \in 0 .. Router!T - 1 |-> due[t]]
    OBVIOUS
<1>7. ASSUME NEW c \in Router!Core PROVE Router!Place(c, sb[c].eager, sb[1 - c].eager) = due
    <2> PICK d \in Router!Core : d = 1 - c /\ c # d
        BY DEF Router!Core
    <2>1. Router!Place(c, sb[c].eager, sb[d].eager) = due
        <3>1. shape \in Launches /\ shape.shard /\ c # d
              /\ Holds(c, sb[c].eager, due) /\ Holds(d, sb[d].eager, due)
            BY <1>2, <1>3, <1>5
        <3> QED BY ONLY RouterConstants, c \in Router!Core, d \in Router!Core, <1>6, <3>1, PlaceIs
    <2> QED BY <2>1
<1>8. out' = [c \in Router!Core |-> [out[c] EXCEPT !.eager = due]]
    BY <1>7 DEF Router!SwapEager
<1>9. MeetKeepsAll("swapeager", "done")
    <2>1. out' = [c \in Router!Core |-> out'[c]]
        BY <1>8
    <2> QED BY <1>1, <2>1 DEF MeetKeepsAll, Router!SwapEager, Router!Meet
<1>10. ASSUME NEW c \in Router!Core
       PROVE  /\ PcIs(c, "done", tile[c]) /\ MemIs(c, "done", sb[c])
              /\ OutIs("done", out'[c]) /\ HbmIs(c, "done", hbm)
    <2>1. PcIs(c, "swapeager", tile[c]) /\ MemIs(c, "swapeager", sb[c])
          /\ OutIs("swapeager", out[c]) /\ HbmIs(c, "swapeager", hbm)
        BY <1>2
    <2>2. PcIs(c, "done", tile[c])
        BY <1>3, <2>1 DEF PcIs, BeforeTop, Weighed, Late
    <2>3. MemIs(c, "done", sb[c])
        BY <2>1 DEF MemIs, BeforeTop, Weighed
    <2>4. OutIs("done", out'[c])
        <3>1. /\ out'[c].eager = due /\ out'[c].idx = out[c].idx /\ out'[c].aff = out[c].aff
              /\ out'[c] = [idx |-> out'[c].idx, aff |-> out'[c].aff, eager |-> out'[c].eager]
            <4> PICK o : o = out[c] /\ o = [idx |-> o.idx, aff |-> o.aff, eager |-> o.eager]
                BY <2>1 DEF OutIs
            <4> PICK p : p = out'[c] /\ p = [o EXCEPT !.eager = due]
                BY <1>8
            <4> QED OBVIOUS
        <3> QED BY <2>1, <3>1 DEF OutIs, BeforeTop, Late
    <2>5. HbmIs(c, "done", hbm)
        BY <2>1 DEF HbmIs, BeforeTop, Weighed
    <2> QED BY <2>2, <2>3, <2>4, <2>5
<1> QED BY <1>9, <1>10, MeetKeeps

\* No step of the router breaks it.
LEMMA RouterStep == ASSUME RouterConstants, RouterInv, [Router!Next]_Router!vars PROVE RouterInv'
<1>1. Router!Core = {0, 1} /\ shape.cores \in {1, 2} /\ shape \in Launches
    BY LaunchFields DEF RouterInv, Router!Core
<1>2. ASSUME NEW c \in Router!Core, Router!CoreStep(c) PROVE c \in Router!Cores
    <2>1. pc[c] # "done"
        BY <1>2 DEF Router!CoreStep, Router!Logits, Router!Activate, Router!TopK, Router!Weigh,
            Router!ZeroTile, Router!ScatterIndirect, Router!ReturnEager, Router!Go
    <2> QED BY <2>1 DEF RouterInv
<1>3. ASSUME NEW c \in Router!Core, Router!CoreStep(c) PROVE RouterInv'
    <2>1. c \in Router!Cores
        BY <1>2, <1>3
    <2>2. CASE Router!Logits(c)
        BY <2>1, <2>2, LogitsStep
    <2>3. CASE Router!Activate(c)
        BY <2>1, <2>3, ActivateStep
    <2>4. CASE Router!TopK(c)
        BY <2>1, <2>4, TopKStep
    <2>5. CASE Router!Weigh(c)
        BY <2>1, <2>5, WeighStep
    <2>6. CASE Router!ZeroTile(c)
        BY <2>1, <2>6, ZeroTileStep
    <2>7. CASE Router!ScatterIndirect(c)
        BY <2>1, <2>7, ScatterStep
    <2>8. CASE Router!ReturnEager(c)
        BY <2>1, <2>8, ReturnEagerStep
    <2> QED BY <1>3, <2>2, <2>3, <2>4, <2>5, <2>6, <2>7, <2>8 DEF Router!CoreStep
<1>4. CASE Router!SwapIndex
    BY <1>4, SwapIndexStep
<1>5. CASE Router!Barrier
    BY <1>5, BarrierStep
<1>6. CASE Router!SwapAffinities
    BY <1>6, SwapAffinitiesStep
<1>7. CASE Router!SwapEager
    BY <1>7, SwapEagerStep
<1>8. CASE UNCHANGED Router!vars
    <2>1. shape' = shape /\ pc' = pc /\ tile' = tile /\ sb' = sb /\ out' = out /\ hbm' = hbm
        BY <1>8 DEF Router!vars
    <2>2. Router!Cores' = Router!Cores
        BY <2>1, FixedRouter
    <2>3. ASSUME NEW c \in Router!Cores PROVE RouterCoreIs(c)'
        <3>1. PcIs(c, pc[c], tile[c])' /\ MemIs(c, pc[c], sb[c])'
            BY <2>1, FixedRouterParts DEF RouterInv, RouterCoreIs
        <3>2. OutIs(pc[c], out[c])' /\ HbmIs(c, pc[c], hbm)'
            BY <2>1, FixedRouterParts DEF RouterInv, RouterCoreIs
        <3> QED BY <3>1, <3>2 DEF RouterCoreIs
    <2>4. HbmShape(hbm)' /\ BarrierIs(pc)' /\ IndirectIs(pc, tile, hbm)'
        BY <2>1, FixedRouterParts DEF RouterInv
    <2>5. RouterByCore'
        BY <2>1 DEF RouterInv, RouterByCore
    <2> QED BY <2>1, <2>2, <2>3, <2>4, <2>5 DEF RouterInv
<1> QED BY <1>3, <1>4, <1>5, <1>6, <1>7, <1>8 DEF Router!Next, Router!Work

\* The values of the variables.
LEMMA RouterTypes == ASSUME RouterConstants, RouterInv PROVE Router!TypeOK
<1>1. shape \in Launches
    BY DEF RouterInv
<1>2. ASSUME NEW c \in Router!Core
      PROVE  /\ pc[c] \in {"logits", "act1", "fullmeet", "topk", "swapidx", "weigh", "affmeet",
                           "swapaff", "zero", "indirect", "eager", "swapeager", "done"}
             /\ tile[c] \in 0 .. Router!NumTTiles(c)
             /\ sb[c].index = <<>> \/ sb[c].index \in [Router!Local(c) -> [1 .. K -> Router!Expert]]
    <2>1. CASE c \notin Router!Cores
        <3>1. pc[c] = "done" /\ tile[c] = 0 /\ sb[c].index = <<>>
            BY <2>1 DEF RouterInv
        <3>2. Router!NumTTiles(c) \in Nat
            BY <1>1, TilesAre
        <3> QED BY <3>1, <3>2
    <2>2. CASE c \in Router!Cores
        <3>1. PcIs(c, pc[c], tile[c]) /\ MemIs(c, pc[c], sb[c])
            BY <2>2, Running
        <3>2. \A i \in Router!Local(c) : Best(Router!TOffset(c) + i) \in [1 .. K -> Router!Expert]
            <4> SUFFICES ASSUME NEW i \in Router!Local(c)
                         PROVE  Best(Router!TOffset(c) + i) \in [1 .. K -> Router!Expert]
                OBVIOUS
            <4>1. Router!TOffset(c) + i \in 0 .. Router!T - 1
                BY <1>1, Shards
            <4> QED BY <1>1, <4>1, BestIs
        <3>3. sb[c].index = <<>> \/ sb[c].index \in [Router!Local(c) -> [1 .. K -> Router!Expert]]
            <4>1. \/ sb[c].index = <<>>
                  \/ sb[c].index = [i \in Router!Local(c) |-> Best(Router!TOffset(c) + i)]
                BY <3>1 DEF MemIs
            <4>2. [i \in Router!Local(c) |-> Best(Router!TOffset(c) + i)]
                    \in [Router!Local(c) -> [1 .. K -> Router!Expert]]
                BY <3>2
            <4> QED BY <4>1, <4>2
        <3> QED BY <3>1, <3>3 DEF PcIs, BeforeTop, Weighed
    <2> QED BY <2>1, <2>2
<1>3. pc = [c \in Router!Core |-> pc[c]]
    BY DEF RouterInv, RouterByCore
<1> QED BY <1>1, <1>2, <1>3 DEF Router!TypeOK

\* Affinities that are due are right.
LEMMA DueIsRight ==
    ASSUME RouterConstants, RouterInv, \A x \in Flat : hbm.aff[x] = AffAt(x)
    PROVE  Router!FlatRight
<1>1. DOMAIN hbm.aff = Flat /\ shape \in Launches
    BY DEF RouterInv, HbmShape
<1>2. ASSUME NEW x \in Flat
               PROVE Router!WeightRight(x \div RouterExperts, x % RouterExperts, hbm.aff[x])
    <2>1. x % RouterExperts \in Router!Expert
        BY <1>1, CellIs
    <2>2. hbm.aff[x] = AffRow(x \div RouterExperts)[x % RouterExperts]
        BY DEF AffAt
    <2> QED BY <2>1, <2>2 DEF AffRow, Router!WeightRight
<1> QED BY <1>1, <1>2 DEF Router!FlatRight

\* Behind its barrier a core finds the weights of all tokens in HBM.
LEMMA BehindBarrier == ASSUME RouterConstants, RouterInv PROVE Router!CompleteBehindBarrier
<1> SUFFICES ASSUME NEW c \in Router!Cores,
                    \/ ~Router!Scatters /\ shape.cores = 2
                         /\ pc[c] \notin {"logits", "act1", "fullmeet"}
                    \/ Router!Scatters /\ ~shape.indirect /\ ~shape.affSb /\ pc[c] \in Late
             PROVE  Router!FlatRight
    BY DEF Router!CompleteBehindBarrier, Late
<1>1. shape \in Launches /\ BarrierIs(pc)
    BY DEF RouterInv
<1>2. ASSUME NEW x \in Flat PROVE hbm.aff[x] = AffAt(x)
    <2>1. x \div RouterExperts \in 0 .. Router!T - 1
        BY <1>1, CellIs
    <2> PICK d \in Router!Cores : x \div RouterExperts \in Toks(d)
        BY <1>1, <2>1, TokenHasCore
    <2>2. HbmIs(d, pc[d], hbm)
        BY Running
    <2>3. \/ ~Router!Scatters /\ pc[d] \notin {"logits", "act1"}
          \/ Router!Scatters /\ ~shape.indirect /\ ~shape.affSb /\ pc[d] \in Weighed
        BY <1>1 DEF BarrierIs
    <2> QED BY <2>2, <2>3 DEF HbmIs
<1> QED BY <1>2, DueIsRight

\* When both cores are done, the outputs are the reference's.
LEMMA RoutesRight == ASSUME RouterConstants, RouterInv PROVE Router!RoutesAsReference
<1> SUFFICES ASSUME Router!AllDone
             PROVE  /\ \A t \in 0 .. Router!T - 1,
                         e \in Router!Expert : hbm.logits[t][e] = Router!RefLogit(t, e)
                    /\ ~shape.idxSb => Router!IndexRight(hbm.idx)
                    /\ ~shape.affSb => Router!FlatRight
                    /\ \A c \in Router!Cores :
                        /\ shape.idxSb => Router!IndexRight(out[c].idx)
                        /\ shape.affSb =>
                            /\ DOMAIN out[c].aff = 0 .. Router!T - 1
                            /\ \A t \in 0 .. Router!T - 1, e \in Router!Expert :
                                  Router!WeightRight(t, e, out[c].aff[t][e])
                        /\ shape.eager =>
                            /\ DOMAIN out[c].eager = 0 .. Router!T - 1
                            /\ \A t \in 0 .. Router!T - 1, k \in 1 .. K :
                                \A e \in Router!Expert : Router!RefRank(t, e) = k =>
                                    out[c].eager[t][k] = Router!RefWeight(t, e)
    BY DEF Router!RoutesAsReference
<1>1. shape \in Launches /\ Router!Cores \subseteq Router!Core /\ HbmShape(hbm)
    BY Running DEF RouterInv
<1>2. ASSUME NEW c \in Router!Cores
      PROVE  /\ PcIs(c, "done", tile[c]) /\ OutIs("done", out[c]) /\ HbmIs(c, "done", hbm)
    <2>1. pc[c] = "done"
        BY <1>1 DEF Router!AllDone
    <2> QED BY <2>1, Running
<1>3. ASSUME NEW t \in 0 .. Router!T - 1
      PROVE  /\ hbm.logits[t] = Row(t)
             /\ ~shape.idxSb => hbm.idx[t] = Best(t)
    <2> PICK d \in Router!Cores : t \in Toks(d)
        BY <1>1, TokenHasCore
    <2>1. HbmIs(d, "done", hbm)
        BY <1>2
    <2> QED BY <2>1 DEF HbmIs, BeforeTop
<1>4. \A t \in 0 .. Router!T - 1, e \in Router!Expert : hbm.logits[t][e] = Router!RefLogit(t, e)
    BY <1>1, <1>3, RowIs
<1>5. ASSUME NEW idx, DOMAIN idx = 0 .. Router!T - 1, \A t \in 0 .. Router!T - 1 : idx[t] = Best(t)
      PROVE  Router!IndexRight(idx)
    BY <1>1, <1>5, BestIs DEF Router!IndexRight
<1>6. ~shape.idxSb => Router!IndexRight(hbm.idx)
    BY <1>1, <1>3, <1>5 DEF HbmShape
<1>7. ASSUME ~shape.affSb PROVE Router!FlatRight
    <2>1. ASSUME NEW x \in Flat PROVE hbm.aff[x] = AffAt(x)
        <3> PICK t \in 0 .. Router!T - 1 : t = x \div RouterExperts
            BY <1>1, CellIs
        <3> PICK d \in Router!Cores : d \in Router!Core /\ t \in Toks(d)
            BY <1>1, TokenHasCore
        <3>1. HbmIs(d, "done", hbm) /\ PcIs(d, "done", tile[d])
            BY <1>2
        <3>2. CASE ~(Router!Scatters /\ shape.indirect)
            BY <1>7, <3>1, <3>2 DEF HbmIs, Weighed
        <3>3. CASE Router!Scatters /\ shape.indirect
            <4>1. tile[d] = Router!NumTTiles(d) /\ Router!NumTTiles(d) \in Nat
                BY <1>1, <3>1, <3>3, TilesAre DEF PcIs, Late
            <4> PICK n \in 0 .. Router!NumTTiles(d) - 1 : t \in TileToks(d, n)
                BY <1>1, <3>3, TileOwns
            <4>2. n < tile[d]
                BY <4>1
            <4>3. Reached(d, pc[d], tile[d], t)
                BY <4>2 DEF Reached
            <4>4. \A e \in Router!Cores : ~Touches(e, pc[e], tile[e], t)
                BY <1>1 DEF Touches, Router!AllDone
            <4> QED BY <3>3, <4>3, <4>4 DEF RouterInv, IndirectIs
        <3> QED BY <3>2, <3>3
    <2> QED BY <2>1, DueIsRight
<1>8. ASSUME NEW c \in Router!Cores, shape.idxSb PROVE Router!IndexRight(out[c].idx)
    <2>1. out[c].idx = [t \in 0 .. Router!T - 1 |-> Best(t)]
        BY <1>2, <1>8 DEF OutIs, BeforeTop
    <2> QED BY <1>5, <2>1
<1>9. ASSUME NEW c \in Router!Cores, shape.affSb
      PROVE  /\ DOMAIN out[c].aff = 0 .. Router!T - 1
             /\ \A t \in 0 .. Router!T - 1,
                  e \in Router!Expert : Router!WeightRight(t, e, out[c].aff[t][e])
    <2>1. out[c].aff = [t \in 0 .. Router!T - 1 |-> AffRow(t)]
        BY <1>2, <1>9 DEF OutIs, Late
    <2> QED BY <2>1 DEF AffRow, Router!WeightRight
<1>10. ASSUME NEW c \in Router!Cores, shape.eager
       PROVE  /\ DOMAIN out[c].eager = 0 .. Router!T - 1
              /\ \A t \in 0 .. Router!T - 1, k \in 1 .. K :
                  \A e \in Router!Expert : Router!RefRank(t, e) = k
                    => out[c].eager[t][k] = Router!RefWeight(t, e)
    <2>1. out[c].eager = [t \in 0 .. Router!T - 1 |-> EagerRow(t)]
        BY <1>2, <1>10 DEF OutIs
    <2>2. \A t \in 0 .. Router!T - 1,
            k \in 1 .. K : EagerRow(t)[k] = Router!RefWeight(t, Best(t)[k])
        BY DEF EagerRow
    <2>3. \A t \in 0 .. Router!T - 1, k \in 1 .. K, e \in Router!Expert : Router!RefRank(t, e) = k
            => e = Best(t)[k]
        BY <1>1, BestIs
    <2> QED BY <2>1, <2>2, <2>3
<1> QED BY <1>4, <1>6, <1>7, <1>8, <1>9, <1>10

(***************************************************************************)
(* The router among the parts.                                              *)
(***************************************************************************)
\* What Arithmetic assumes of the router.
LEMMA RouterGiven == RouterConstants
BY RouterAssumption DEF RouterConstants

RouterRuns == Run("router") => RouterInv

\* A behaviour that runs the router starts it.
LEMMA RouterRunsInit == ASSUME Init PROVE RouterRuns
<1>1. Run("router") => Router!Init
    BY DEF Init, Run
<1> QED BY <1>1, RouterGiven, RouterInit DEF RouterRuns

\* And steps it, whatever the other parts' variables hold.
LEMMA RouterRunsSteps == ASSUME RouterRuns, [Next]_vars PROVE RouterRuns'
<1> USE DEF Next, HeadNext, MoeNext, TrunkNext, RuleNext, RuleOver, RouterNext
<1>1. running' = running
    BY DEF vars
<1>2. Run("router") => Router!Next \/ UNCHANGED Router!vars
    BY DEF vars, Run, Router!vars, shared
<1> HIDE DEF Next, HeadNext, MoeNext, TrunkNext, RuleNext, RuleOver, RouterNext
<1> QED BY <1>1, <1>2, RouterGiven, RouterStep DEF RouterRuns, Run

\* In every reachable state of every launch of an MoE layer or of a router:
\* weights that landed ahead of their turn are unread in the ring, the block a core
\* sends is the one it computed, and a core that is done has the whole tile
\* summed; behind a barrier a core finds the affinities of both cores, and when
\* the router's cores are done, every output gives every token its logits, its K
\* best experts in order and their weights, zeros elsewhere, wherever it is stored
\* (_run_moe_layer, router_topk).
THEOREM LaunchesAreReference == Spec => []MoeAsReference
<1>1. Init => MoeRuns /\ RouterRuns
    BY MoeRunsInit, RouterRunsInit
<1>2. MoeRuns /\ RouterRuns /\ [Next]_vars => (MoeRuns /\ RouterRuns)'
    BY MoeRunsSteps, RouterRunsSteps
<1>3. MoeRuns /\ RouterRuns => MoeAsReference
    BY MoeGiven, MoeProperties, RouterGiven, BehindBarrier, RoutesRight
        DEF MoeRuns, RouterRuns, MoeAsReference
<1> QED BY <1>1, <1>2, <1>3, PTL DEF Spec

Two == INSTANCE LmHeadProofs WITH NPrgs <- 2, Rows <- TwoCoreRows
One == INSTANCE LmHeadProofs WITH NPrgs <- 1, Rows <- OneCoreRows

(***************************************************************************)
(* Two cores.                                                               *)
(***************************************************************************)

\* The assumptions of Arithmetic are those of the theorems.
LEMMA TwoConstants == Two!Constants
<1> USE HeadAssumption
<1>1. Two!TpDegreeAssumption /\ Two!NPrgsAssumption
    BY DEF Two!TpDegreeAssumption, Two!NPrgsAssumption, Argmax!TpDegreeAssumption
<1>2. Two!VCoreAssumption /\ Two!WidthAssumption
    BY DEF Two!VCoreAssumption, Two!WidthAssumption,
        Argmax!VCoreAssumption, Argmax!WidthAssumption
<1>3. Two!RowsAssumption
    BY DEF Argmax!RowsAssumption, Argmax!Vocab, Argmax!VRank,
        Two!RowsAssumption, Two!Vocab, Two!VRank
<1>4. Two!LoserAssumption
    BY DEF Argmax!LoserAssumption, Argmax!Loser, Argmax!VRank,
        Two!LoserAssumption, Two!Loser, Two!VRank
<1> QED BY <1>1, <1>2, <1>3, <1>4 DEF Two!Constants

\* Argmax and Two are one machine: both instantiate the definitions of LmHead.
LEMMA TwoInit == Argmax!Init <=> Two!Init
BY DEF Argmax!Init, Two!Init, Argmax!Cores, Two!Cores, Argmax!Nothing,
    Two!Nothing

\* And so are their steps.
LEMMA TwoNext == Argmax!Next <=> Two!Next
BY DEF Argmax!Next, Two!Next, Argmax!CoreStep, Two!CoreStep, Argmax!Finished,
    Two!Finished, Argmax!AllDone, Two!AllDone, Argmax!vars, Two!vars,
    Argmax!Cores, Two!Cores, Argmax!Nothing, Two!Nothing, Argmax!ReduceChunk,
    Two!ReduceChunk, Argmax!FindChunk, Two!FindChunk, Argmax!CopyWinner,
    Two!CopyWinner, Argmax!Send, Two!Send, Argmax!Receive, Two!Receive,
    Argmax!Gather, Two!Gather, Argmax!ClearedBest, Two!ClearedBest,
    Argmax!Advance, Two!Advance, Argmax!MaxOf, Two!MaxOf, Argmax!MinOf,
    Two!MinOf, Argmax!Logit, Two!Logit, Argmax!Chunk, Two!Chunk, Argmax!NChunks,
    Two!NChunks, Argmax!ChunkWidth, Two!ChunkWidth, Argmax!DivCeil, Two!DivCeil,
    Argmax!CoreMax, Two!CoreMax, Argmax!FindIndex, Two!FindIndex,
    Argmax!Reversed, Two!Reversed, Argmax!Best, Two!Best, Argmax!CoreIndex,
    Two!CoreIndex, Argmax!Larger, Two!Larger, Argmax!ShardBase, Two!ShardBase,
    Argmax!RankBase, Two!RankBase, Argmax!Rank, Two!Rank, Argmax!Prg, Two!Prg,
    Argmax!Peer, Two!Peer, Argmax!Winner, Two!Winner, Argmax!VRank, Two!VRank,
    Argmax!Group, Two!Group, Argmax!GlobalId, Two!GlobalId, Argmax!Loser,
    Two!Loser, Argmax!GatherArgmax, Two!GatherArgmax

\* And their properties, which the invariant of the theorems gives.
LEMMA TwoProperties ==
    ASSUME Two!ArgmaxInv
    PROVE  /\ Argmax!TypeOK /\ Argmax!CoreWinnerLowest
           /\ Argmax!RankWinnerLowest /\ Argmax!TokenIsArgmax
<1>1. /\ Argmax!TypeOK <=> Two!TypeOK
      /\ Argmax!CoreWinnerLowest <=> Two!CoreWinnerLowest
      /\ Argmax!RankWinnerLowest <=> Two!RankWinnerLowest
      /\ Argmax!TokenIsArgmax <=> Two!TokenIsArgmax
    BY DEF
        Argmax!TypeOK, Two!TypeOK, Argmax!CoreWinnerLowest,
        Two!CoreWinnerLowest, Argmax!RankWinnerLowest, Two!RankWinnerLowest,
        Argmax!TokenIsArgmax, Two!TokenIsArgmax, Argmax!Cores, Two!Cores,
        Argmax!VRank, Two!VRank, Argmax!NChunks, Two!NChunks, Argmax!Vocab,
        Two!Vocab, Argmax!DivCeil, Two!DivCeil, Argmax!RankIds, Two!RankIds,
        Argmax!CoreIds, Two!CoreIds, Argmax!RankBase, Two!RankBase,
        Argmax!ShardBase, Two!ShardBase, Argmax!Rank, Two!Rank, Argmax!Prg,
        Two!Prg, Argmax!Greedy, Two!Greedy, Argmax!MinOf, Two!MinOf,
        Argmax!Nothing, Two!Nothing
<1>2. /\ Two!TypeOK /\ Two!CoreWinnerLowest
      /\ Two!RankWinnerLowest /\ Two!TokenIsArgmax
    BY TwoConstants, Two!ArgmaxInvImplies
<1> QED BY <1>1, <1>2

(***************************************************************************)
(* One core.                                                                *)
(***************************************************************************)

\* The assumptions of Arithmetic are those of the theorems.
LEMMA OneConstants == One!Constants
<1> USE HeadAssumption
<1>1. One!TpDegreeAssumption /\ One!NPrgsAssumption
    BY DEF One!TpDegreeAssumption, One!NPrgsAssumption, Argmax!TpDegreeAssumption
<1>2. One!VCoreAssumption /\ One!WidthAssumption
    BY DEF One!VCoreAssumption, One!WidthAssumption,
        Argmax!VCoreAssumption, Argmax!WidthAssumption
<1>3. One!RowsAssumption
    BY DEF OneCore!RowsAssumption, OneCore!Vocab, OneCore!VRank,
        One!RowsAssumption, One!Vocab, One!VRank
<1>4. One!LoserAssumption
    BY DEF OneCore!LoserAssumption, OneCore!Loser, OneCore!VRank,
        One!LoserAssumption, One!Loser, One!VRank
<1> QED BY <1>1, <1>2, <1>3, <1>4 DEF One!Constants

\* OneCore and One are one machine: both instantiate the definitions of LmHead.
LEMMA OneInit == OneCore!Init <=> One!Init
BY DEF OneCore!Init, One!Init, OneCore!Cores, One!Cores, OneCore!Nothing,
    One!Nothing

\* And so are their steps.
LEMMA OneNext == OneCore!Next <=> One!Next
BY DEF OneCore!Next, One!Next, OneCore!CoreStep, One!CoreStep, OneCore!Finished,
    One!Finished, OneCore!AllDone, One!AllDone, OneCore!vars, One!vars,
    OneCore!Cores, One!Cores, OneCore!Nothing, One!Nothing, OneCore!ReduceChunk,
    One!ReduceChunk, OneCore!FindChunk, One!FindChunk, OneCore!CopyWinner,
    One!CopyWinner, OneCore!Send, One!Send, OneCore!Receive, One!Receive,
    OneCore!Gather, One!Gather, OneCore!ClearedBest, One!ClearedBest,
    OneCore!Advance, One!Advance, OneCore!MaxOf, One!MaxOf, OneCore!MinOf,
    One!MinOf, OneCore!Logit, One!Logit, OneCore!Chunk, One!Chunk,
    OneCore!NChunks, One!NChunks, OneCore!ChunkWidth, One!ChunkWidth,
    OneCore!DivCeil, One!DivCeil, OneCore!CoreMax, One!CoreMax,
    OneCore!FindIndex, One!FindIndex, OneCore!Reversed, One!Reversed,
    OneCore!Best, One!Best, OneCore!CoreIndex, One!CoreIndex, OneCore!Larger,
    One!Larger, OneCore!ShardBase, One!ShardBase, OneCore!RankBase,
    One!RankBase, OneCore!Rank, One!Rank, OneCore!Prg, One!Prg, OneCore!Peer,
    One!Peer, OneCore!Winner, One!Winner, OneCore!VRank, One!VRank,
    OneCore!Group, One!Group, OneCore!GlobalId, One!GlobalId, OneCore!Loser,
    One!Loser, OneCore!GatherArgmax, One!GatherArgmax

\* And their properties, which the invariant of the theorems gives.
LEMMA OneProperties ==
    ASSUME One!ArgmaxInv
    PROVE  OneCore!TypeOK /\ OneCore!CoreWinnerLowest /\ OneCore!TokenIsArgmax
<1>1. /\ OneCore!TypeOK <=> One!TypeOK
      /\ OneCore!CoreWinnerLowest <=> One!CoreWinnerLowest
      /\ OneCore!TokenIsArgmax <=> One!TokenIsArgmax
    BY DEF
        OneCore!TypeOK, One!TypeOK, OneCore!CoreWinnerLowest,
        One!CoreWinnerLowest, OneCore!TokenIsArgmax, One!TokenIsArgmax,
        OneCore!Cores, One!Cores, OneCore!VRank, One!VRank, OneCore!NChunks,
        One!NChunks, OneCore!Vocab, One!Vocab, OneCore!DivCeil, One!DivCeil,
        OneCore!CoreIds, One!CoreIds, OneCore!RankBase, One!RankBase,
        OneCore!ShardBase, One!ShardBase, OneCore!Rank, One!Rank, OneCore!Prg,
        One!Prg, OneCore!Greedy, One!Greedy, OneCore!MinOf, One!MinOf,
        OneCore!Nothing, One!Nothing
<1>2. One!TypeOK /\ One!CoreWinnerLowest /\ One!TokenIsArgmax
    BY OneConstants, One!ArgmaxInvImplies
<1> QED BY <1>1, <1>2

(***************************************************************************)
(* A behaviour of Arithmetic runs one of its parts.                         *)
(***************************************************************************)
HeadInv ==
    /\ Run("head") => Two!ArgmaxInv
    /\ Run("onecore") => One!ArgmaxInv

\* A behaviour that runs a head starts it.
LEMMA HeadInit == ASSUME Init PROVE HeadInv
<1>1. Run("head") => Argmax!Init
    BY DEF Init, Run
<1>2. Run("onecore") => OneCore!Init
    BY DEF Init, Run
<1>3. Two!Init => Two!ArgmaxInv
    BY TwoConstants, Two!ArgmaxInit
<1>4. One!Init => One!ArgmaxInv
    BY OneConstants, One!ArgmaxInit
<1> QED BY <1>1, <1>2, <1>3, <1>4, TwoInit, OneInit DEF HeadInv

\* And steps it, whatever the other parts' variables hold.
LEMMA HeadSteps == ASSUME HeadInv, [Next]_vars PROVE HeadInv'
<1> USE DEF Next, HeadNext, MoeNext, TrunkNext, RuleNext, RuleOver, RouterNext
<1>1. running' = running
    BY DEF vars
<1>2. Run("head") => Argmax!Next \/ UNCHANGED Two!vars
    BY DEF vars, Run, Two!vars, headOnly, shared
<1>3. Run("onecore") => OneCore!Next \/ UNCHANGED One!vars
    BY DEF vars, Run, One!vars, headOnly, shared
<1> HIDE DEF Next, HeadNext, MoeNext, TrunkNext, RuleNext, RuleOver, RouterNext
<1>4. Two!ArgmaxInv /\ [Two!Next]_Two!vars => Two!ArgmaxInv'
    BY TwoConstants, Two!ArgmaxStep
<1>5. One!ArgmaxInv /\ [One!Next]_One!vars => One!ArgmaxInv'
    BY OneConstants, One!ArgmaxStep
<1> QED BY <1>1, <1>2, <1>3, <1>4, <1>5, TwoNext, OneNext DEF HeadInv, Run

(***************************************************************************)
(* The theorem.                                                             *)
(***************************************************************************)

\* In every reachable state of every run of the head, on two cores or on one, a
\* core that has left its search holds the lowest column of its largest logit,
\* a rank's cores that have met hold the rank's, and a token that is there is
\* torch.argmax of the row (staged_argmax, combine_across_cores,
\* all_gather_argmax).
THEOREM HeadIsArgmax == Spec => []TokenIsArgmax
<1>1. Init => HeadInv
    BY HeadInit
<1>2. HeadInv /\ [Next]_vars => HeadInv'
    BY HeadSteps
<1>3. HeadInv => TokenIsArgmax
    BY TwoProperties, OneProperties DEF HeadInv, TokenIsArgmax
<1> QED BY <1>1, <1>2, <1>3, PTL DEF Spec
=============================================================================
