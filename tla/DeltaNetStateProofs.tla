------------------------- MODULE DeltaNetStateProofs -------------------------
(***************************************************************************)
(* The carried state of a DeltaNet layer is a function of the request's     *)
(* tokens, for every vocabulary, bucket, chunking and choice of builds.     *)
(* Behind it what the other kind of layer, attention, carries: its caches.  *)
(***************************************************************************)
EXTENDS DeltaNetState, FiniteSets, SequenceTheorems, FiniteSetTheorems, TLAPS

\* Columns without the bound MaxLen, which no lemma needs.
AnyColumn == (Nat \X Token) \cup {Zero, PadColumn}

(***************************************************************************)
(* The convolution input of a launch.                                       *)
(***************************************************************************)

\* A column of a history at any place up to its end.
LEMMA ColumnAtType ==
    ASSUME NEW h \in Seq(Token), NEW k \in Int, k <= Len(h)
    PROVE  ColumnAt(h, k) \in AnyColumn
<1>1. CASE k <= 0
    BY <1>1 DEF ColumnAt, AnyColumn
<1>2. CASE ~(k <= 0)
    <2>1. k \in Nat /\ k \in 1 .. Len(h)
        BY <1>2, LenProperties
    <2>2. h[k] \in Token
        BY <2>1, ElementOfSeq
    <2> QED BY <1>2, <2>1, <2>2 DEF ColumnAt, AnyColumn
<1> QED BY <1>1, <1>2

\* A reference window is a sequence of StateLen columns.
LEMMA RefConvShape ==
    ASSUME NEW h \in Seq(Token)
    PROVE  /\ RefConv(h) \in Seq(AnyColumn) /\ Len(RefConv(h)) = 3
           /\ \A j \in 1 .. 3 : RefConv(h)[j] = ColumnAt(h, Len(h) - 3 + j)
<1>1. Len(h) \in Nat
    BY LenProperties
<1>2. RefConv(h) = [j \in 1 .. 3 |-> ColumnAt(h, Len(h) - 3 + j)]
    BY DEF RefConv, StateLen, Taps
<1>3. ASSUME NEW j \in 1 .. 3
      PROVE  ColumnAt(h, Len(h) - 3 + j) \in AnyColumn
    <2>1. Len(h) - 3 + j \in Int /\ Len(h) - 3 + j <= Len(h)
        BY <1>1
    <2> QED BY <2>1, ColumnAtType
<1>4. [j \in 1 .. 3 |-> ColumnAt(h, Len(h) - 3 + j)] \in Seq(AnyColumn)
    BY <1>3, IsASeq
<1>5. Len([j \in 1 .. 3 |-> ColumnAt(h, Len(h) - 3 + j)]) = 3
    OBVIOUS
<1> QED BY <1>2, <1>4, <1>5

\* Projected columns of tokens.
LEMMA ColumnsShape ==
    ASSUME NEW n \in Nat, NEW u \in Seq(Token)
    PROVE  /\ Columns(n, u) \in Seq(AnyColumn) /\ Len(Columns(n, u)) = Len(u)
           /\ \A i \in 1 .. Len(u) : Columns(n, u)[i] = <<n + i, u[i]>>
<1>1. Len(u) \in Nat /\ \A i \in 1 .. Len(u) : u[i] \in Token
    BY LenProperties, ElementOfSeq
<1>2. Columns(n, u) \in [1 .. Len(u) -> AnyColumn]
    BY <1>1 DEF Columns, AnyColumn
<1> QED BY <1>1, <1>2 DEF Columns

\* Elements of three sequences in a row.
LEMMA ThreeInARow ==
    ASSUME NEW S, NEW a \in Seq(S), NEW b \in Seq(S), NEW c \in Seq(S)
    PROVE  /\ (a \o b) \o c \in Seq(S)
           /\ Len((a \o b) \o c) = Len(a) + Len(b) + Len(c)
           /\ \A j \in 1 .. Len(a) : ((a \o b) \o c)[j] = a[j]
           /\ \A j \in 1 .. Len(b) : ((a \o b) \o c)[Len(a) + j] = b[j]
<1>1. Len(a) \in Nat /\ Len(b) \in Nat /\ Len(c) \in Nat
    BY LenProperties
<1>2. /\ a \o b \in Seq(S) /\ Len(a \o b) = Len(a) + Len(b)
      /\ \A j \in 1 .. Len(a) + Len(b) :
            (a \o b)[j] = IF j <= Len(a) THEN a[j] ELSE b[j - Len(a)]
    BY ConcatProperties
<1>3. /\ (a \o b) \o c \in Seq(S)
      /\ Len((a \o b) \o c) = Len(a \o b) + Len(c)
      /\ \A j \in 1 .. Len(a \o b) + Len(c) :
            ((a \o b) \o c)[j] = IF j <= Len(a \o b) THEN (a \o b)[j] ELSE c[j - Len(a \o b)]
    BY <1>2, ConcatProperties
<1>4. ASSUME NEW j \in 1 .. Len(a)
      PROVE  ((a \o b) \o c)[j] = a[j]
    BY <1>1, <1>2, <1>3
<1>5. ASSUME NEW j \in 1 .. Len(b)
      PROVE  ((a \o b) \o c)[Len(a) + j] = b[j]
    <2>1. Len(a) + j \in 1 .. Len(a) + Len(b) /\ ~(Len(a) + j <= Len(a))
          /\ Len(a) + j - Len(a) = j /\ Len(a) + j \in 1 .. Len(a) + Len(b) + Len(c)
        BY <1>1
    <2> QED BY <1>2, <1>3, <2>1
<1> QED BY <1>1, <1>2, <1>3, <1>4, <1>5

\* Columns of a longer history.
LEMMA ColumnAtConcat ==
    ASSUME NEW h \in Seq(Token), NEW u \in Seq(Token)
    PROVE  /\ \A k \in Int : k <= Len(h) => ColumnAt(h \o u, k) = ColumnAt(h, k)
           /\ \A i \in 1 .. Len(u) : ColumnAt(h \o u, Len(h) + i) = <<Len(h) + i, u[i]>>
<1>1. Len(h) \in Nat /\ Len(u) \in Nat
    BY LenProperties
<1>2. /\ \A i \in 1 .. Len(h) : (h \o u)[i] = h[i]
      /\ \A i \in 1 .. Len(u) : (h \o u)[Len(h) + i] = u[i]
    BY <1>1, ConcatProperties
<1>3. ASSUME NEW k \in Int, k <= Len(h)
      PROVE  ColumnAt(h \o u, k) = ColumnAt(h, k)
    <2>1. CASE k <= 0
        BY <2>1 DEF ColumnAt
    <2>2. CASE ~(k <= 0)
        <3>1. k \in 1 .. Len(h)
            BY <1>1, <1>3, <2>2
        <3> QED BY <1>2, <2>2, <3>1 DEF ColumnAt
    <2> QED BY <2>1, <2>2
<1>4. ASSUME NEW i \in 1 .. Len(u)
      PROVE  ColumnAt(h \o u, Len(h) + i) = <<Len(h) + i, u[i]>>
    <2>1. ~(Len(h) + i <= 0)
        BY <1>1
    <2> QED BY <1>2, <2>1 DEF ColumnAt
<1> QED BY <1>3, <1>4

\* n elements of a sequence from place m + 1 on.
LEMMA Slice ==
    ASSUME NEW S, NEW s \in Seq(S), NEW m \in Nat, NEW n \in Nat, m + n <= Len(s)
    PROVE  /\ SubSeq(s, m + 1, m + n) \in Seq(S)
           /\ Len(SubSeq(s, m + 1, m + n)) = n
           /\ \A j \in 1 .. n : SubSeq(s, m + 1, m + n)[j] = s[m + j]
<1>1. Len(s) \in Nat
    BY LenProperties
<1>2. PICK a \in Int : a = m + 1
    OBVIOUS
<1>3. PICK b \in Int : b = m + n
    OBVIOUS
<1>4. \A i \in a .. b : s[i] \in S
    <2>1. \A i \in a .. b : i \in 1 .. Len(s)
        BY <1>1, <1>2, <1>3
    <2> QED BY <2>1, ElementOfSeq
<1>5. /\ SubSeq(s, a, b) \in Seq(S)
      /\ Len(SubSeq(s, a, b)) = IF a <= b THEN b - a + 1 ELSE 0
      /\ \A i \in 1 .. b - a + 1 : SubSeq(s, a, b)[i] = s[a + i - 1]
    BY <1>4, SubSeqProperties
<1>6. b - a + 1 = n /\ (a <= b <=> n > 0) /\ \A j \in 1 .. n : a + j - 1 = m + j
    BY <1>2, <1>3
<1>7. Len(SubSeq(s, a, b)) = n /\ \A j \in 1 .. n : SubSeq(s, a, b)[j] = s[m + j]
    BY <1>5, <1>6
<1> QED BY <1>2, <1>3, <1>5, <1>7

\* The first n elements of a sequence.
LEMMA Prefix ==
    ASSUME NEW S, NEW s \in Seq(S), NEW n \in Nat, n <= Len(s)
    PROVE  /\ SubSeq(s, 1, n) \in Seq(S)
           /\ Len(SubSeq(s, 1, n)) = n
           /\ \A j \in 1 .. n : SubSeq(s, 1, n)[j] = s[j]
<1>1. /\ SubSeq(s, 0 + 1, 0 + n) \in Seq(S)
      /\ Len(SubSeq(s, 0 + 1, 0 + n)) = n
      /\ \A j \in 1 .. n : SubSeq(s, 0 + 1, 0 + n)[j] = s[0 + j]
    <2>1. 0 + n <= Len(s) /\ 0 \in Nat
        OBVIOUS
    <2> QED BY <2>1, Slice
<1>2. 0 + 1 = 1 /\ 0 + n = n /\ \A j \in 1 .. n : 0 + j = j
    OBVIOUS
<1> QED BY <1>1, <1>2

\* A convolution input that carries on history h with the tokens u.
Continues(input, h, u) ==
    /\ input \in Seq(AnyColumn)
    /\ 3 + Len(u) <= Len(input)
    /\ \A j \in 1 .. 3 + Len(u) : input[j] = ColumnAt(h \o u, Len(h) - 3 + j)

\* Carried window followed by the columns of new tokens is such an input.
LEMMA LaunchInput ==
    ASSUME NEW h \in Seq(Token), NEW u \in Seq(Token), NEW rest \in Seq(AnyColumn)
    PROVE  Continues((RefConv(h) \o Columns(Len(h), u)) \o rest, h, u)
<1>1. Len(h) \in Nat /\ Len(u) \in Nat /\ Len(rest) \in Nat
    BY LenProperties
<1>2. /\ RefConv(h) \in Seq(AnyColumn) /\ Len(RefConv(h)) = 3
      /\ \A j \in 1 .. 3 : RefConv(h)[j] = ColumnAt(h, Len(h) - 3 + j)
    BY RefConvShape
<1>3. /\ Columns(Len(h), u) \in Seq(AnyColumn) /\ Len(Columns(Len(h), u)) = Len(u)
      /\ \A i \in 1 .. Len(u) : Columns(Len(h), u)[i] = <<Len(h) + i, u[i]>>
    BY <1>1, ColumnsShape
<1>4. PICK a \in Seq(AnyColumn) : a = RefConv(h)
    BY <1>2
<1>5. PICK b \in Seq(AnyColumn) : b = Columns(Len(h), u)
    BY <1>3
<1>6. /\ (a \o b) \o rest \in Seq(AnyColumn)
      /\ Len((a \o b) \o rest) = Len(a) + Len(b) + Len(rest)
      /\ \A j \in 1 .. Len(a) : ((a \o b) \o rest)[j] = a[j]
      /\ \A j \in 1 .. Len(b) : ((a \o b) \o rest)[Len(a) + j] = b[j]
    BY ONLY a \in Seq(AnyColumn), b \in Seq(AnyColumn), rest \in Seq(AnyColumn), ThreeInARow
<1>7. PICK input : input = (a \o b) \o rest
    OBVIOUS
<1>8. /\ input \in Seq(AnyColumn) /\ Len(input) = 3 + Len(u) + Len(rest)
      /\ \A j \in 1 .. 3 : input[j] = a[j]
      /\ \A i \in 1 .. Len(u) : input[3 + i] = b[i]
    BY <1>2, <1>3, <1>4, <1>5, <1>6, <1>7
<1>9. ASSUME NEW j \in 1 .. 3 + Len(u)
      PROVE  input[j] = ColumnAt(h \o u, Len(h) - 3 + j)
    <2>1. CASE j <= 3
        <3>1. j \in 1 .. 3 /\ Len(h) - 3 + j \in Int /\ Len(h) - 3 + j <= Len(h)
            BY <1>1, <2>1
        <3>2. input[j] = ColumnAt(h, Len(h) - 3 + j)
            BY <1>2, <1>4, <1>8, <3>1
        <3> QED BY <3>1, <3>2, ColumnAtConcat
    <2>2. CASE ~(j <= 3)
        <3>1. PICK i \in 1 .. Len(u) : i = j - 3
            BY <1>1, <2>2
        <3>2. 3 + i = j /\ Len(h) - 3 + j = Len(h) + i
            BY <1>1, <3>1
        <3>3. input[j] = <<Len(h) + i, u[i]>>
            BY <1>3, <1>5, <1>8, <3>2
        <3> QED BY <3>2, <3>3, ColumnAtConcat
    <2> QED BY <2>1, <2>2
<1>10. Continues(input, h, u)
    BY <1>1, <1>8, <1>9 DEF Continues
<1> QED BY <1>4, <1>5, <1>7, <1>10

(***************************************************************************)
(* What the launches compute.                                               *)
(***************************************************************************)

\* A history lengthened by the first k tokens of u.
LEMMA Lengthened ==
    ASSUME NEW h \in Seq(Token), NEW u \in Seq(Token), NEW k \in 0 .. Len(u)
    PROVE  LET g == h \o SubSeq(u, 1, k)
           IN  /\ g \in Seq(Token) /\ Len(g) = Len(h) + k
               /\ \A i \in Int : i <= Len(h) + k => ColumnAt(g, i) = ColumnAt(h \o u, i)
<1>1. Len(h) \in Nat /\ Len(u) \in Nat /\ k \in Nat /\ k <= Len(u)
    BY LenProperties
<1>2. PICK part \in Seq(Token) :
          part = SubSeq(u, 1, k) /\ Len(part) = k /\ \A i \in 1 .. k : part[i] = u[i]
    <2>1. /\ SubSeq(u, 1, k) \in Seq(Token) /\ Len(SubSeq(u, 1, k)) = k
          /\ \A i \in 1 .. k : SubSeq(u, 1, k)[i] = u[i]
        BY <1>1, Prefix
    <2> QED BY <2>1
<1>3. h \o part \in Seq(Token) /\ Len(h \o part) = Len(h) + k
    BY <1>2, ConcatProperties
<1>4. ASSUME NEW i \in Int, i <= Len(h) + k
      PROVE  ColumnAt(h \o part, i) = ColumnAt(h \o u, i)
    <2>1. CASE i <= Len(h)
        BY <2>1, ColumnAtConcat
    <2>2. CASE ~(i <= Len(h))
        <3>1. PICK m \in 1 .. k : m = i - Len(h)
            BY <1>1, <1>4, <2>2
        <3>2. m \in 1 .. Len(u) /\ m \in 1 .. Len(part) /\ i = Len(h) + m
            BY <1>1, <1>2, <3>1
        <3>3. ColumnAt(h \o part, Len(h) + m) = <<Len(h) + m, part[m]>>
            BY <3>2, ColumnAtConcat
        <3>4. ColumnAt(h \o u, Len(h) + m) = <<Len(h) + m, u[m]>>
            BY <3>2, ColumnAtConcat
        <3>5. part[m] = u[m]
            BY <1>2, <3>1
        <3> QED BY <3>2, <3>3, <3>4, <3>5
    <2> QED BY <2>1, <2>2
<1> QED BY <1>2, <1>3, <1>4

\* The window gathered after k of the new tokens is the window of the history
\* that ends with them, whatever follows them in the launch.
LEMMA WindowAfter ==
    ASSUME NEW h \in Seq(Token), NEW u \in Seq(Token), NEW k \in 0 .. Len(u),
           NEW input, Continues(input, h, u)
    PROVE  SubSeq(input, k + 1, k + StateLen) = RefConv(h \o SubSeq(u, 1, k))
<1>1. Len(h) \in Nat /\ Len(u) \in Nat /\ k \in Nat /\ k <= Len(u)
    BY LenProperties
<1>2. PICK g \in Seq(Token) :
          /\ g = h \o SubSeq(u, 1, k) /\ Len(g) = Len(h) + k
          /\ \A i \in Int : i <= Len(h) + k => ColumnAt(g, i) = ColumnAt(h \o u, i)
    BY Lengthened
<1>3. /\ input \in Seq(AnyColumn) /\ k + 3 <= Len(input)
      /\ \A j \in 1 .. 3 + Len(u) : input[j] = ColumnAt(h \o u, Len(h) - 3 + j)
    <2>1. Len(input) \in Nat
        BY LenProperties DEF Continues
    <2> QED BY <1>1, <2>1 DEF Continues
<1>4. /\ SubSeq(input, k + 1, k + 3) \in Seq(AnyColumn)
      /\ Len(SubSeq(input, k + 1, k + 3)) = 3
      /\ \A j \in 1 .. 3 : SubSeq(input, k + 1, k + 3)[j] = input[k + j]
    <2>1. 3 \in Nat
        OBVIOUS
    <2> QED BY <1>1, <1>3, <2>1, Slice
<1>5. RefConv(g) \in Seq(AnyColumn) /\ Len(RefConv(g)) = 3
      /\ \A j \in 1 .. 3 : RefConv(g)[j] = ColumnAt(g, Len(g) - 3 + j)
    BY RefConvShape
<1>6. ASSUME NEW j \in 1 .. 3
      PROVE  input[k + j] = RefConv(g)[j]
    <2>0. Len(g) \in Int
        BY LenProperties
    <2>1. PICK i \in Int : i = Len(g) - 3 + j
        <3>1. Len(g) - 3 + j \in Int
            BY <2>0
        <3> QED BY <3>1
    <2>2. k + j \in 1 .. 3 + Len(u) /\ Len(h) - 3 + (k + j) = i /\ i <= Len(h) + k
        BY <1>1, <1>2, <2>1
    <2>3. input[k + j] = ColumnAt(h \o u, i)
        BY <1>3, <2>2
    <2> QED BY <1>2, <1>5, <2>1, <2>2, <2>3
<1>7. SubSeq(input, k + 1, k + 3) = RefConv(g)
    <2>1. PICK w \in Seq(AnyColumn) : w = SubSeq(input, k + 1, k + 3)
        BY <1>4
    <2>2. PICK r \in Seq(AnyColumn) : r = RefConv(g)
        BY <1>5
    <2>3. Len(w) = Len(r) /\ \A j \in 1 .. Len(w) : w[j] = r[j]
        BY <1>4, <1>5, <1>6, <2>1, <2>2
    <2>4. w = r
        BY <2>3, SeqEqual
    <2> QED BY <2>1, <2>2, <2>4
<1> QED BY <1>2, <1>7 DEF StateLen, Taps

\* A reference window of the recurrence is a sequence of four columns.
LEMMA RefWindowShape ==
    ASSUME NEW f \in Seq(Token), NEW i \in 1 .. Len(f)
    PROVE  /\ RefWindow(f, i) \in Seq(AnyColumn) /\ Len(RefWindow(f, i)) = 4
           /\ \A j \in 1 .. 4 : RefWindow(f, i)[j] = ColumnAt(f, i - 4 + j)
<1>1. Len(f) \in Nat
    BY LenProperties
<1>2. ASSUME NEW j \in 1 .. 4
      PROVE  ColumnAt(f, i - 4 + j) \in AnyColumn
    <2>1. i - 4 + j \in Int /\ i - 4 + j <= Len(f)
        BY <1>1
    <2> QED BY <2>1, ColumnAtType
<1>3. RefWindow(f, i) = [j \in 1 .. 4 |-> ColumnAt(f, i - 4 + j)]
    BY DEF RefWindow, Taps
<1>4. [j \in 1 .. 4 |-> ColumnAt(f, i - 4 + j)] \in Seq(AnyColumn)
    BY <1>2, IsASeq
<1>5. Len([j \in 1 .. 4 |-> ColumnAt(f, i - 4 + j)]) = 4
    OBVIOUS
<1> QED BY <1>3, <1>4, <1>5

\* The reference state is a sequence of such windows.
LEMMA RefRecShape ==
    ASSUME NEW f \in Seq(Token)
    PROVE  /\ RefRec(f) \in Seq(Seq(AnyColumn)) /\ Len(RefRec(f)) = Len(f)
           /\ \A i \in 1 .. Len(f) : RefRec(f)[i] = RefWindow(f, i)
<1>1. Len(f) \in Nat
    BY LenProperties
<1>2. RefRec(f) \in [1 .. Len(f) -> Seq(AnyColumn)]
    BY RefWindowShape DEF RefRec
<1> QED BY <1>1, <1>2 DEF RefRec

\* The recurrent state after k of the new tokens consumed one window each.
LEMMA StateAfter ==
    ASSUME NEW h \in Seq(Token), NEW u \in Seq(Token), NEW k \in 0 .. Len(u),
           NEW input, Continues(input, h, u)
    PROVE  RefRec(h) \o Windows(input, k) = RefRec(h \o SubSeq(u, 1, k))
<1>1. Len(h) \in Nat /\ Len(u) \in Nat /\ k \in Nat /\ k <= Len(u)
    BY LenProperties
<1>2. PICK g \in Seq(Token) :
          /\ g = h \o SubSeq(u, 1, k) /\ Len(g) = Len(h) + k
          /\ \A i \in Int : i <= Len(h) + k => ColumnAt(g, i) = ColumnAt(h \o u, i)
    BY Lengthened
<1>3. /\ input \in Seq(AnyColumn) /\ k + 3 <= Len(input)
      /\ \A j \in 1 .. 3 + Len(u) : input[j] = ColumnAt(h \o u, Len(h) - 3 + j)
    <2>1. Len(input) \in Nat
        BY LenProperties DEF Continues
    <2> QED BY <1>1, <2>1 DEF Continues
<1>4. ASSUME NEW f \in Seq(Token), NEW i \in 1 .. Len(f)
      PROVE  /\ RefWindow(f, i) \in Seq(AnyColumn) /\ Len(RefWindow(f, i)) = 4
             /\ \A j \in 1 .. 4 : RefWindow(f, i)[j] = ColumnAt(f, i - 4 + j)
    BY RefWindowShape
<1>5. ASSUME NEW m \in 1 .. k
      PROVE  SubSeq(input, m, m + 3) = RefWindow(g, Len(h) + m)
    <2>1. PICK n \in Nat : n = m - 1 /\ n + 1 = m /\ n + 4 = m + 3 /\ n + 4 <= Len(input)
        <3>1. Len(input) \in Nat
            BY <1>3, LenProperties
        <3>2. m - 1 \in Nat /\ (m - 1) + 1 = m /\ (m - 1) + 4 = m + 3 /\ (m - 1) + 4 <= Len(input)
            BY <1>1, <1>3, <3>1
        <3> QED BY <3>2
    <2>2. /\ SubSeq(input, n + 1, n + 4) \in Seq(AnyColumn)
          /\ Len(SubSeq(input, n + 1, n + 4)) = 4
          /\ \A j \in 1 .. 4 : SubSeq(input, n + 1, n + 4)[j] = input[n + j]
        <3>1. 4 \in Nat
            OBVIOUS
        <3> QED BY <1>3, <2>1, <3>1, Slice
    <2>3. Len(h) + m \in 1 .. Len(g)
        BY <1>1, <1>2
    <2>4. /\ RefWindow(g, Len(h) + m) \in Seq(AnyColumn) /\ Len(RefWindow(g, Len(h) + m)) = 4
          /\ \A j \in 1 .. 4 : RefWindow(g, Len(h) + m)[j] = ColumnAt(g, Len(h) + m - 4 + j)
        BY <1>4, <2>3
    <2>5. ASSUME NEW j \in 1 .. 4
          PROVE  input[n + j] = ColumnAt(g, Len(h) + m - 4 + j)
        <3>1. PICK i \in Int : i = Len(h) + m - 4 + j
            <4>1. Len(h) + m - 4 + j \in Int
                BY <1>1
            <4> QED BY <4>1
        <3>2. n + j \in 1 .. 3 + Len(u) /\ Len(h) - 3 + (n + j) = i /\ i <= Len(h) + k
            BY <1>1, <2>1, <3>1
        <3>3. input[n + j] = ColumnAt(h \o u, i)
            BY <1>3, <3>2
        <3> QED BY <1>2, <3>1, <3>2, <3>3
    <2>6. PICK w \in Seq(AnyColumn) : w = SubSeq(input, n + 1, n + 4)
        BY <2>2
    <2>7. PICK r \in Seq(AnyColumn) : r = RefWindow(g, Len(h) + m)
        BY <2>4
    <2>8. Len(w) = Len(r) /\ \A j \in 1 .. Len(w) : w[j] = r[j]
        BY <2>2, <2>4, <2>5, <2>6, <2>7
    <2>9. w = r
        BY <2>8, SeqEqual
    <2> QED BY <2>1, <2>6, <2>7, <2>9
<1>6. ASSUME NEW i \in 1 .. Len(h)
      PROVE  RefWindow(h, i) = RefWindow(g, i)
    <2>1. i \in 1 .. Len(g)
        BY <1>1, <1>2
    <2>2. /\ RefWindow(h, i) \in Seq(AnyColumn) /\ Len(RefWindow(h, i)) = 4
          /\ \A j \in 1 .. 4 : RefWindow(h, i)[j] = ColumnAt(h, i - 4 + j)
        BY <1>4
    <2>3. /\ RefWindow(g, i) \in Seq(AnyColumn) /\ Len(RefWindow(g, i)) = 4
          /\ \A j \in 1 .. 4 : RefWindow(g, i)[j] = ColumnAt(g, i - 4 + j)
        BY <1>4, <2>1
    <2>4. ASSUME NEW j \in 1 .. 4
          PROVE  ColumnAt(h, i - 4 + j) = ColumnAt(g, i - 4 + j)
        <3>1. PICK n \in Int : n = i - 4 + j
            BY ONLY i \in 1 .. Len(h), j \in 1 .. 4, <1>1
        <3>2. n <= Len(h) /\ n <= Len(h) + k
            BY <1>1, <3>1
        <3>3. ColumnAt(g, n) = ColumnAt(h \o u, n)
            BY <1>2, <3>2
        <3>4. ColumnAt(h, n) = ColumnAt(h \o u, n)
            BY <3>2, ColumnAtConcat
        <3> QED BY <3>1, <3>3, <3>4
    <2>5. PICK w \in Seq(AnyColumn) : w = RefWindow(h, i)
        BY <2>2
    <2>6. PICK r \in Seq(AnyColumn) : r = RefWindow(g, i)
        BY <2>3
    <2>7. Len(w) = Len(r) /\ \A j \in 1 .. Len(w) : w[j] = r[j]
        BY <2>2, <2>3, <2>4, <2>5, <2>6
    <2>8. w = r
        BY <2>7, SeqEqual
    <2> QED BY <2>5, <2>6, <2>8
<1>7. /\ RefRec(h) \in Seq(Seq(AnyColumn)) /\ Len(RefRec(h)) = Len(h)
      /\ \A i \in 1 .. Len(h) : RefRec(h)[i] = RefWindow(h, i)
    BY RefRecShape
<1>8. /\ RefRec(g) \in Seq(Seq(AnyColumn)) /\ Len(RefRec(g)) = Len(h) + k
      /\ \A i \in 1 .. Len(h) + k : RefRec(g)[i] = RefWindow(g, i)
    BY <1>2, RefRecShape
<1>9. /\ Windows(input, k) \in Seq(Seq(AnyColumn)) /\ Len(Windows(input, k)) = k
      /\ \A m \in 1 .. k : Windows(input, k)[m] = RefWindow(g, Len(h) + m)
    <2>1. Windows(input, k) = [m \in 1 .. k |-> SubSeq(input, m, m + 3)]
        BY DEF Windows, StateLen, Taps
    <2>2. \A m \in 1 .. k : RefWindow(g, Len(h) + m) \in Seq(AnyColumn)
        <3>1. \A m \in 1 .. k : Len(h) + m \in 1 .. Len(g)
            BY <1>1, <1>2
        <3> QED BY <1>4, <3>1
    <2>3. Windows(input, k) \in [1 .. k -> Seq(AnyColumn)]
        BY <1>5, <2>1, <2>2
    <2>4. \A m \in 1 .. k : Windows(input, k)[m] = RefWindow(g, Len(h) + m)
        BY <1>5, <2>1
    <2> QED BY <1>1, <2>3, <2>4
<1>10. PICK a \in Seq(Seq(AnyColumn)) : a = RefRec(h)
    BY <1>7
<1>11. PICK b \in Seq(Seq(AnyColumn)) : b = Windows(input, k)
    BY <1>9
<1>12. PICK c \in Seq(Seq(AnyColumn)) : c = RefRec(g)
    BY <1>8
<1>13. /\ a \o b \in Seq(Seq(AnyColumn)) /\ Len(a \o b) = Len(a) + Len(b)
       /\ \A i \in 1 .. Len(a) + Len(b) :
             (a \o b)[i] = IF i <= Len(a) THEN a[i] ELSE b[i - Len(a)]
    BY ConcatProperties
<1>14. Len(a) = Len(h) /\ Len(b) = k /\ Len(c) = Len(h) + k
    BY <1>7, <1>8, <1>9, <1>10, <1>11, <1>12
<1>15. ASSUME NEW i \in 1 .. Len(h) + k
       PROVE  (a \o b)[i] = c[i]
    <2>1. CASE i <= Len(h)
        <3>1. i \in 1 .. Len(h)
            BY <1>1, <2>1
        <3>2. (a \o b)[i] = a[i] /\ a[i] = RefWindow(h, i)
            BY <1>7, <1>10, <1>13, <1>14, <3>1
        <3> QED BY <1>6, <1>8, <1>12, <3>1, <3>2
    <2>2. CASE ~(i <= Len(h))
        <3>1. PICK m \in 1 .. k : m = i - Len(h) /\ i = Len(h) + m
            <4>1. i - Len(h) \in 1 .. k /\ i = Len(h) + (i - Len(h))
                BY <1>1, <2>2
            <4> QED BY <4>1
        <3>2. (a \o b)[i] = b[m] /\ b[m] = RefWindow(g, Len(h) + m)
            BY <1>9, <1>11, <1>13, <1>14, <2>2, <3>1
        <3> QED BY <1>8, <1>12, <3>1, <3>2
    <2> QED BY <2>1, <2>2
<1>16. a \o b = c
    BY <1>13, <1>14, <1>15, SeqEqual
<1> QED BY <1>2, <1>10, <1>11, <1>12, <1>16

(***************************************************************************)
(* The inductive invariant.                                                 *)
(***************************************************************************)

\* What every state knows about the request.
Shape ==
    /\ build \in Builds
    /\ stage \in {"idle", "prefill", "ready", "verified"}
    /\ text \in Seq(Token) /\ pending \in Seq(Token) /\ plen \in Nat
    /\ stage = "prefill" => build.graph = "chunked"
    /\ stage \in {"ready", "verified"} => text # <<>>
    /\ stage = "verified" =>
          /\ build.graph = "spec" /\ block \in Seq(Token) /\ Len(block) = 2
          /\ cand = [i \in 1 .. 2 |-> Candidate(block, i)]
    /\ stage # "idle" /\ build.graph # "chunked" => plen <= Len(text)

Inv == Shape /\ ConvIsHistory /\ RecIsHistory

\* The seeds of a chunk are the state of the tokens before it.
LEMMA Seeds ==
    ASSUME Inv, stage = "prefill"
    PROVE  SeedConv = RefConv(text) /\ (NothingSkipped => SeedRec = RefRec(text))
<1>1. CASE text = <<>>
    <2>1. Len(text) = 0
        BY <1>1
    <2>2. RefRec(<<>>) = <<>>
        BY DEF RefRec
    <2>3. NoColumns = [j \in 1 .. 3 |-> Zero]
        BY DEF NoColumns, Copies, StateLen, Taps
    <2>4. \A j \in 1 .. 3 : ColumnAt(text, Len(text) - 3 + j) = Zero
        BY <2>1 DEF ColumnAt
    <2>5. RefConv(text) = [j \in 1 .. 3 |-> Zero]
        BY <2>4 DEF RefConv, StateLen, Taps
    <2> QED BY <1>1, <2>2, <2>3, <2>5 DEF SeedConv, SeedRec
<1>2. CASE text # <<>>
    <2>1. stage # "idle" /\ LongPrompt
        BY DEF Inv, Shape, LongPrompt
    <2> QED BY <1>2, <2>1 DEF Inv, ConvIsHistory, RecIsHistory, SeedConv, SeedRec
<1> QED BY <1>1, <1>2

\* A column appended to a window: the convolution's next input, and the window
\* a decode step keeps.
LEMMA TailAppended ==
    ASSUME NEW c \in Seq(AnyColumn), Len(c) = 3, NEW col \in AnyColumn
    PROVE  /\ Append(c, col) \in Seq(AnyColumn) /\ Len(Append(c, col)) = 4
           /\ Append(c, col)[4] = col /\ \A i \in 1 .. 3 : Append(c, col)[i] = c[i]
           /\ Append(Tail(c), col) = SubSeq(Append(c, col), 2, 4)
<1>1. PICK w \in Seq(AnyColumn) :
          w = Append(c, col) /\ Len(w) = 4 /\ w[4] = col /\ \A i \in 1 .. 3 : w[i] = c[i]
    <2>1. /\ Append(c, col) \in Seq(AnyColumn) /\ Len(Append(c, col)) = 4
          /\ Append(c, col)[4] = col /\ \A i \in 1 .. 3 : Append(c, col)[i] = c[i]
        <3>1. /\ Append(c, col) \in Seq(AnyColumn) /\ Len(Append(c, col)) = Len(c) + 1
              /\ \A i \in 1 .. Len(c) : Append(c, col)[i] = c[i]
              /\ Append(c, col)[Len(c) + 1] = col
            BY ONLY c \in Seq(AnyColumn), col \in AnyColumn, AppendProperties
        <3> QED BY <3>1
    <2> QED BY <2>1
<1>2. Append(Tail(c), col) = SubSeq(w, 2, 4)
    <2>1. PICK d \in Seq(AnyColumn) :
              d = Tail(c) /\ Len(d) = 2 /\ \A i \in 1 .. 2 : d[i] = c[i + 1]
        <3>1. c # <<>>
            <4>1. Len(c) # 0
                OBVIOUS
            <4>2. c = <<>> => Len(c) = 0
                BY EmptySeq
            <4> QED BY <4>1, <4>2
        <3>2. /\ Tail(c) \in Seq(AnyColumn) /\ Len(Tail(c)) = 2
              /\ \A i \in 1 .. Len(Tail(c)) : Tail(c)[i] = c[i + 1]
            BY <3>1, HeadTailProperties
        <3> QED BY <3>2
    <2>2. PICK a \in Seq(AnyColumn) : a = Append(d, col) /\ Len(a) = 3
                  /\ a[3] = col /\ a[1] = d[1] /\ a[2] = d[2]
        <3>1. /\ Append(d, col) \in Seq(AnyColumn) /\ Len(Append(d, col)) = 3
              /\ Append(d, col)[3] = col
              /\ Append(d, col)[1] = d[1] /\ Append(d, col)[2] = d[2]
            <4>1. /\ Append(d, col) \in Seq(AnyColumn) /\ Len(Append(d, col)) = Len(d) + 1
                  /\ \A i \in 1 .. Len(d) : Append(d, col)[i] = d[i]
                  /\ Append(d, col)[Len(d) + 1] = col
                BY AppendProperties
            <4>2. Len(d) = 2 /\ Len(d) + 1 = 3 /\ 1 \in 1 .. Len(d) /\ 2 \in 1 .. Len(d)
                <5>1. Len(d) = 2
                    BY <2>1
                <5>2. 2 + 1 = 3 /\ 1 \in 1 .. 2 /\ 2 \in 1 .. 2
                    OBVIOUS
                <5> QED BY <5>1, <5>2, Zenon
            <4>3. Append(d, col)[1] = d[1] /\ Append(d, col)[2] = d[2]
                BY <4>1, <4>2
            <4>4. Append(d, col)[3] = col /\ Len(Append(d, col)) = 3
                BY <4>1, <4>2
            <4> QED BY <4>1, <4>3, <4>4
        <3> QED BY <3>1
    <2>3. PICK b \in Seq(AnyColumn) : b = SubSeq(w, 2, 4) /\ Len(b) = 3
                  /\ b[1] = w[2] /\ b[2] = w[3] /\ b[3] = w[4]
        <3>1. /\ SubSeq(w, 1 + 1, 1 + 3) \in Seq(AnyColumn)
              /\ Len(SubSeq(w, 1 + 1, 1 + 3)) = 3
              /\ \A j \in 1 .. 3 : SubSeq(w, 1 + 1, 1 + 3)[j] = w[1 + j]
            <4>1. 1 \in Nat /\ 3 \in Nat /\ 1 + 3 <= Len(w)
                BY <1>1
            <4> QED BY <4>1, Slice
        <3>2. 1 + 1 = 2 /\ 1 + 3 = 4 /\ 1 + 2 = 3
            OBVIOUS
        <3>3. /\ SubSeq(w, 2, 4) \in Seq(AnyColumn) /\ Len(SubSeq(w, 2, 4)) = 3
              /\ \A j \in 1 .. 3 : SubSeq(w, 2, 4)[j] = w[1 + j]
            BY <3>1, <3>2
        <3>4. SubSeq(w, 2, 4)[1] = w[2] /\ SubSeq(w, 2, 4)[2] = w[3] /\ SubSeq(w, 2, 4)[3] = w[4]
            BY <3>2, <3>3
        <3> QED BY <3>3, <3>4
    <2>4. d[1] = c[2] /\ d[2] = c[3] /\ w[2] = c[2] /\ w[3] = c[3] /\ w[4] = col
        BY <1>1, <2>1
    <2>5. \A i \in 1 .. 3 : a[i] = b[i]
        <3>1. a[1] = b[1] /\ a[2] = b[2] /\ a[3] = b[3]
            BY <2>2, <2>3, <2>4
        <3>2. \A i \in 1 .. 3 : i = 1 \/ i = 2 \/ i = 3
            OBVIOUS
        <3> QED BY <3>1, <3>2
    <2>6. a = b
        BY <2>2, <2>3, <2>5, SeqEqual
    <2> QED BY <2>1, <2>2, <2>3, <2>6
<1> QED BY <1>1, <1>2

\* A decode step takes the state of a history to that of the next one.
LEMMA OneStep ==
    ASSUME NEW h \in Seq(Token), NEW t \in Token
    PROVE  LET col == <<Len(h) + 1, t>>
           IN  /\ Append(Tail(RefConv(h)), col) = RefConv(Append(h, t))
               /\ Append(RefRec(h), Append(RefConv(h), col)) = RefRec(Append(h, t))
<1>1. PICK col \in AnyColumn : col = <<Len(h) + 1, t>>
    <2>1. <<Len(h) + 1, t>> \in AnyColumn
        BY LenProperties DEF AnyColumn
    <2> QED BY <2>1
<1>2. PICK c \in Seq(AnyColumn) : c = RefConv(h) /\ Len(c) = 3
    BY RefConvShape
<1>3. PICK u \in Seq(Token) : u = <<t>> /\ Len(u) = 1 /\ u[1] = t /\ h \o u = Append(h, t)
    <2>1. <<t>> \in Seq(Token) /\ Len(<<t>>) = 1 /\ <<t>>[1] = t
        OBVIOUS
    <2>2. h \o <<t>> = Append(h, t)
        BY AppendIsConcat
    <2> QED BY <2>1, <2>2
<1>4. Columns(Len(h), u) = <<col>>
    <2>1. Columns(Len(h), u) = [i \in 1 .. 1 |-> <<Len(h) + i, u[i]>>]
        BY <1>3 DEF Columns
    <2>2. \A i \in 1 .. 1 : <<Len(h) + i, u[i]>> = col
        <3>1. \A i \in 1 .. 1 : i = 1
            OBVIOUS
        <3> QED BY <1>1, <1>3, <3>1
    <2>3. [i \in 1 .. 1 |-> <<Len(h) + i, u[i]>>] = [i \in 1 .. 1 |-> col]
        BY <2>2
    <2>4. <<col>> = [i \in 1 .. 1 |-> col]
        OBVIOUS
    <2> QED BY <2>1, <2>3, <2>4
<1>5. PICK w \in Seq(AnyColumn) :
          w = Append(c, col) /\ Len(w) = 4 /\ w[4] = col /\ \A i \in 1 .. 3 : w[i] = c[i]
    BY <1>2, TailAppended
<1>6. Continues(w, h, u)
    <2>1. <<>> \in Seq(AnyColumn)
        OBVIOUS
    <2>2. w = c \o <<col>>
        BY <1>1, <1>5, AppendIsConcat
    <2>3. w \o <<>> = w
        BY ConcatEmptySeq
    <2>4. Continues((c \o <<col>>) \o <<>>, h, u)
        BY <1>2, <1>4, <2>1, LaunchInput
    <2> QED BY <2>2, <2>3, <2>4
<1>7. 1 \in 0 .. Len(u) /\ h \o SubSeq(u, 1, 1) = Append(h, t)
    BY <1>3, SubSeqFull
<1>8. SubSeq(w, 2, 4) = RefConv(Append(h, t))
    <2>1. SubSeq(w, 1 + 1, 1 + StateLen) = RefConv(h \o SubSeq(u, 1, 1))
        BY <1>6, <1>7, WindowAfter
    <2>2. 1 + 1 = 2 /\ 1 + StateLen = 4
        BY DEF StateLen, Taps
    <2> QED BY <1>7, <2>1, <2>2
<1>9. Append(Tail(c), col) = SubSeq(w, 2, 4)
    BY <1>2, <1>5, TailAppended
<1>10. Append(RefRec(h), w) = RefRec(Append(h, t))
    <2>1. RefRec(h) \o Windows(w, 1) = RefRec(h \o SubSeq(u, 1, 1))
        BY <1>6, <1>7, StateAfter
    <2>2. Windows(w, 1) = <<w>>
        <3>1. Windows(w, 1) = [i \in 1 .. 1 |-> SubSeq(w, i, i + 3)]
            BY DEF Windows, StateLen, Taps
        <3>2. SubSeq(w, 1, 1 + 3) = w
            <4>1. SubSeq(w, 1, Len(w)) = w
                BY SubSeqFull
            <4> QED BY <1>5, <4>1
        <3>3. \A i \in 1 .. 1 : i = 1
            OBVIOUS
        <3>4. [i \in 1 .. 1 |-> SubSeq(w, i, i + 3)] = [i \in 1 .. 1 |-> w]
            BY <3>2, <3>3
        <3>5. <<w>> = [i \in 1 .. 1 |-> w]
            OBVIOUS
        <3> QED BY <3>1, <3>4, <3>5
    <2>3. RefRec(h) \in Seq(Seq(AnyColumn))
        BY RefRecShape
    <2>4. RefRec(h) \o <<w>> = Append(RefRec(h), w)
        BY <2>3, AppendIsConcat
    <2> QED BY <1>7, <2>1, <2>2, <2>4
<1> QED BY <1>1, <1>2, <1>5, <1>8, <1>9, <1>10

(***************************************************************************)
(* The actions.                                                             *)
(***************************************************************************)

\* Initially no request runs.
LEMMA InitInv == Init => Inv
<1> SUFFICES ASSUME Init PROVE Inv
    OBVIOUS
<1>1. text \in Seq(Token) /\ pending \in Seq(Token)
    BY DEF Init
<1> QED BY <1>1 DEF Init, Inv, Shape, ConvIsHistory, RecIsHistory

\* Pads are columns.
LEMMA Pads == \A n \in Nat : Copies(n, PadColumn) \in Seq(AnyColumn)
<1> TAKE n \in Nat
<1>1. [i \in 1 .. n |-> PadColumn] \in [1 .. n -> AnyColumn]
    BY DEF AnyColumn
<1> QED BY <1>1 DEF Copies

\* A prompt is a nonempty sequence of tokens.
LEMMA PromptIsSeq ==
    ASSUME NEW prompt \in Prompts
    PROVE  prompt \in Seq(Token) /\ Len(prompt) \in Nat /\ Len(prompt) >= 1 /\ prompt # <<>>
<1>1. PICK n \in 1 .. MaxLen : prompt \in [1 .. n -> Token]
    BY PromptsAssumption
<1>2. n \in Nat /\ n >= 1
    BY MaxLenAssumption
<1>3. prompt \in Seq(Token) /\ Len(prompt) = n
    BY <1>1, <1>2
<1>4. prompt = <<>> => Len(prompt) = 0
    BY <1>3, EmptySeq
<1> QED BY <1>2, <1>3, <1>4

\* The state before the first token.
LEMMA BeforeFirst == NoColumns = RefConv(<<>>) /\ RefRec(<<>>) = <<>>
<1>1. \A j \in 1 .. 3 : ColumnAt(<<>>, 0 - 3 + j) = Zero
    BY DEF ColumnAt
<1>2. RefConv(<<>>) = [j \in 1 .. 3 |-> ColumnAt(<<>>, 0 - 3 + j)]
    BY DEF RefConv, StateLen, Taps
<1>3. RefConv(<<>>) = [j \in 1 .. 3 |-> Zero]
    BY <1>1, <1>2
<1> QED BY <1>3 DEF RefRec, NoColumns, Copies, StateLen, Taps

\* A function on an initial interval is a sequence of its values.
LEMMA TupleIsSeq ==
    ASSUME NEW m \in Nat, NEW f, f = [i \in 1 .. m |-> f[i]]
    PROVE  \E S : f \in Seq(S)
<1>1. f \in [1 .. m -> {f[i] : i \in 1 .. m}]
    OBVIOUS
<1>2. f \in Seq({f[i] : i \in 1 .. m})
    BY <1>1, SeqDef
<1> QED BY <1>2

\* Context encoding builds the state of the prompt from nothing.
LEMMA ContextEncodeStep ==
    ASSUME Inv, NEW prompt \in Prompts, ContextEncode(prompt)
    PROVE  Inv'
<1> DEFINE n == Len(prompt)
<1>1. prompt \in Seq(Token) /\ n \in Nat /\ n >= 1 /\ prompt # <<>>
    BY PromptIsSeq
<1>2. Bucket \in Nat /\ n <= Bucket
    BY BucketAssumption DEF ContextEncode
<1>3. /\ <<>> \in Seq(Token) /\ Len(<<>>) = 0 /\ <<>> \o prompt = prompt
      /\ SubSeq(prompt, 1, n) = prompt
    BY <1>1, ConcatEmptySeq, SubSeqFull
<1>4. PICK pads \in Seq(AnyColumn) : pads = Copies(Bucket - n, PadColumn)
    <2>1. Bucket - n \in Nat
        BY <1>1, <1>2
    <2> QED BY <2>1, Pads
<1>5. PICK cols \in Seq(AnyColumn) : cols = Columns(0, prompt) /\ Len(cols) = n
    BY <1>1, ColumnsShape
<1>6. PICK seed \in Seq(AnyColumn) : seed = NoColumns /\ Len(seed) = 3
    <2>1. RefConv(<<>>) \in Seq(AnyColumn) /\ Len(RefConv(<<>>)) = 3
        BY <1>3, RefConvShape
    <2> QED BY <2>1, BeforeFirst
<1>7. ASSUME NEW rest \in Seq(AnyColumn)
      PROVE  Continues((seed \o cols) \o rest, <<>>, prompt)
    <2>1. Continues((RefConv(<<>>) \o Columns(Len(<<>>), prompt)) \o rest, <<>>, prompt)
        BY <1>1, <1>3, LaunchInput
    <2> QED BY <1>3, <1>5, <1>6, <2>1, BeforeFirst
<1>8. n \in 0 .. Len(prompt)
    BY <1>1
<1>9. rec' = RefRec(prompt)
    <2>1. seed \o cols = (seed \o cols) \o <<>>
        <3>1. seed \o cols \in Seq(AnyColumn)
            BY ConcatProperties
        <3> QED BY <3>1, ConcatEmptySeq
    <2>2. <<>> \in Seq(AnyColumn)
        OBVIOUS
    <2>3. Continues(seed \o cols, <<>>, prompt)
        BY <1>7, <2>1, <2>2
    <2>4. RefRec(<<>>) \o Windows(seed \o cols, n) = RefRec(<<>> \o SubSeq(prompt, 1, n))
        BY <1>1, <1>3, <1>8, <2>3, StateAfter
    <2>5. <<>> \o Windows(seed \o cols, n) = RefRec(prompt)
        BY <1>3, <2>4, BeforeFirst
    <2>6. PICK S : Windows(seed \o cols, n) \in Seq(S)
        <3>1. PICK m \in Nat : m = n
            BY <1>1
        <3>2. PICK W : W = Windows(seed \o cols, m)
            OBVIOUS
        <3>3. W = [i \in 1 .. m |-> W[i]]
            BY <3>2 DEF Windows
        <3> QED BY <3>1, <3>2, <3>3, TupleIsSeq
    <2>7. <<>> \o Windows(seed \o cols, n) = Windows(seed \o cols, n)
        BY <2>6, ConcatEmptySeq
    <2> QED BY <1>5, <1>6, <2>5, <2>7 DEF ContextEncode
<1>10. n >= StateLen => conv' = RefConv(prompt)
    <2> SUFFICES ASSUME n >= 3 PROVE conv' = RefConv(prompt)
        BY DEF StateLen, Taps
    <2>1. PICK mixed \in Seq(AnyColumn) : mixed = cols \o pads
        BY ConcatProperties
    <2>2. conv' = SubSeq(mixed, n - 3 + 1, n - 3 + 3)
        <3>1. ~(n < 3)
            BY <1>1
        <3> QED BY <1>4, <1>5, <2>1, <3>1 DEF ContextEncode, GatheredWindow, StateLen, Taps
    <2>3. SubSeq((seed \o cols) \o pads, n + 1, n + 3) = RefConv(prompt)
        <3>1. SubSeq((seed \o cols) \o pads, n + 1, n + StateLen) = RefConv(<<>> \o SubSeq(prompt, 1, n))
            BY <1>1, <1>3, <1>7, <1>8, WindowAfter
        <3>2. n + StateLen = n + 3
            BY <1>1 DEF StateLen, Taps
        <3> QED BY <1>3, <3>1, <3>2
    <2>4. (seed \o cols) \o pads = seed \o mixed
        BY <2>1, ConcatAssociative
    <2>5. SubSeq(seed \o mixed, n + 1, n + 3) = SubSeq(mixed, n - 3 + 1, n - 3 + 3)
        <3>1. Len(mixed) = n + Len(pads) /\ Len(pads) \in Nat
            BY <1>5, <2>1, ConcatProperties, LenProperties
        <3>2. PICK a \in Int, b \in Int : a = n + 1 /\ b = n + 3
            BY <1>1
        <3>3. a \in Len(seed) + 1 .. Len(seed) + Len(mixed)
              /\ b \in Len(seed) + 1 .. Len(seed) + Len(mixed)
            BY <1>1, <1>2, <1>6, <3>1, <3>2
        <3>4. SubSeq(seed \o mixed, a, b) = SubSeq(mixed, a - Len(seed), b - Len(seed))
            BY <3>3, SubSeqOfConcat2
        <3>5. a - Len(seed) = n - 3 + 1 /\ b - Len(seed) = n - 3 + 3
            BY <1>1, <1>6, <3>2
        <3> QED BY <3>2, <3>4, <3>5
    <2> QED BY <2>2, <2>3, <2>4, <2>5
<1> HIDE DEF n
<1>11. /\ text' = prompt /\ plen' = n /\ stage' = "ready" /\ build' = build
       /\ pending' = pending /\ build.graph # "chunked"
    BY DEF ContextEncode, n
<1>12. Shape'
    <2>1. plen' <= Len(text')
        BY <1>1, <1>11 DEF n
    <2> QED BY <1>1, <1>11, <2>1 DEF Inv, Shape
<1>13. ConvIsHistory' /\ RecIsHistory'
    BY <1>9, <1>10, <1>11 DEF ConvIsHistory, RecIsHistory, LongPrompt
<1> QED BY <1>12, <1>13 DEF Inv

\* Nothing was skipped in a longer history only if nothing was in the shorter.
LEMMA StillNothingSkipped ==
    ASSUME text \in Seq(Token), NEW u \in Seq(Token), text' = text \o u,
           plen' = plen, build' = build, NothingSkipped'
    PROVE  NothingSkipped
<1>1. Len(text) \in Nat /\ Len(u) \in Nat
    BY LenProperties
<1>2. Len(text') = Len(text) + Len(u) /\ \A i \in 1 .. Len(text) : text'[i] = text[i]
    BY <1>1, ConcatProperties
<1>3. CASE build.graph = "spec"
    BY <1>3 DEF NothingSkipped
<1>4. CASE build.graph # "spec"
    <2>1. \A i \in 1 .. Len(text') : MayBeDecoded(i)' => ~Masked(text[i])'
        BY <1>4 DEF NothingSkipped
    <2>2. ASSUME NEW i \in 1 .. Len(text), MayBeDecoded(i)
          PROVE  ~Masked(text[i])
        <3>1. i \in 1 .. Len(text')
            BY <1>1, <1>2
        <3>2. MayBeDecoded(i)'
            BY <2>2 DEF MayBeDecoded
        <3>3. ~Masked(text[i])'
            BY <2>1, <3>1, <3>2
        <3> QED BY <1>2, <3>3 DEF Masked
    <2> QED BY <2>2 DEF NothingSkipped
<1> QED BY <1>3, <1>4

\* A chunk lengthens the history by its tokens.
LEMMA PrefillChunkStep ==
    ASSUME Inv, NEW n \in 1 .. Bucket, PrefillChunk(n)
    PROVE  Inv'
<1> DEFINE tokens == SubSeq(pending, 1, n)
<1>1. /\ text \in Seq(Token) /\ pending \in Seq(Token) /\ plen \in Nat
      /\ Len(text) \in Nat /\ Len(pending) \in Nat
      /\ stage = "prefill" /\ build.graph = "chunked"
    BY LenProperties DEF Inv, Shape, PrefillChunk
<1>2. n \in Nat /\ n >= 1 /\ n <= Len(pending) /\ n <= Bucket /\ Bucket \in Nat
    BY BucketAssumption DEF PrefillChunk
<1>3. PICK u \in Seq(Token) : u = tokens /\ Len(u) = n
    <2>1. SubSeq(pending, 1, n) \in Seq(Token) /\ Len(SubSeq(pending, 1, n)) = n
        BY <1>1, <1>2, Prefix
    <2> QED BY <2>1
<1>4. PICK pads \in Seq(AnyColumn) : pads = Copies(Bucket - n, PadColumn)
    <2>1. Bucket - n \in Nat
        BY <1>2
    <2> QED BY <2>1, Pads
<1>5. PICK input : input = (SeedConv \o Columns(Len(text), u)) \o pads
    OBVIOUS
<1>6. Continues(input, text, u)
    <2>1. SeedConv = RefConv(text)
        BY <1>1, Seeds
    <2>2. Continues((RefConv(text) \o Columns(Len(text), u)) \o pads, text, u)
        BY <1>1, LaunchInput
    <2> QED BY <1>5, <2>1, <2>2
<1>7. n \in 0 .. Len(u) /\ SubSeq(u, 1, n) = u
    BY <1>2, <1>3, SubSeqFull
<1>8. /\ conv' = SubSeq(input, n + 1, n + StateLen)
      /\ rec' = SeedRec \o Windows(input, n)
      /\ text' = text \o u
      /\ pending' = SubSeq(pending, n + 1, Len(pending))
      /\ stage' \in {"ready", "prefill"} /\ (stage' = "prefill" => n < Len(pending))
      /\ build' = build /\ plen' = plen /\ block' = block /\ cand' = cand
    BY <1>1, <1>2, <1>3, <1>4, <1>5 DEF PrefillChunk
<1>9. conv' = RefConv(text')
    <2>1. SubSeq(input, n + 1, n + StateLen) = RefConv(text \o SubSeq(u, 1, n))
        BY <1>1, <1>6, <1>7, WindowAfter
    <2> QED BY <1>7, <1>8, <2>1
<1>10. NothingSkipped => rec' = RefRec(text')
    <2>1. RefRec(text) \o Windows(input, n) = RefRec(text \o SubSeq(u, 1, n))
        BY <1>1, <1>6, <1>7, StateAfter
    <2> QED BY <1>1, <1>7, <1>8, <2>1, Seeds
<1>11. text' \in Seq(Token) /\ text' # <<>> /\ pending' \in Seq(Token)
    <2>1. text' \in Seq(Token) /\ Len(text') = Len(text) + n
        BY <1>1, <1>3, <1>8, ConcatProperties
    <2>2. Len(text') # 0
        BY <1>1, <1>2, <2>1
    <2>3. text' = <<>> => Len(text') = 0
        BY EmptySeq
    <2>4. pending' \in Seq(Token)
        <3>1. \A i \in n + 1 .. Len(pending) : pending[i] \in Token
            <4>1. \A i \in n + 1 .. Len(pending) : i \in 1 .. Len(pending)
                BY <1>1, <1>2
            <4> QED BY <1>1, <4>1, ElementOfSeq
        <3>2. n + 1 \in Int /\ Len(pending) \in Int
            BY <1>1, <1>2
        <3>3. SubSeq(pending, n + 1, Len(pending)) \in Seq(Token)
            BY <3>1, <3>2, SubSeqProperties
        <3> QED BY <1>8, <3>3
    <2> QED BY <2>1, <2>2, <2>3, <2>4
<1>12. Shape'
    BY <1>1, <1>8, <1>11 DEF Inv, Shape
<1>13. NothingSkipped' => NothingSkipped
    BY <1>1, <1>8, StillNothingSkipped
<1> QED BY <1>9, <1>10, <1>12, <1>13 DEF Inv, ConvIsHistory, RecIsHistory

\* What a decode step leaves, when the carried state is that of the history.
LEMMA DecodeStepResult ==
    ASSUME text \in Seq(Token), NEW t \in Token,
           Install(DecodeStep(Live, NextColumn(t), Masked(t)))
    PROVE  /\ conv = RefConv(text) => conv' = RefConv(Append(text, t))
           /\ rec = RefRec(text) /\ conv = RefConv(text) /\ ~Masked(t)
                  => rec' = RefRec(Append(text, t))
<1>1. /\ conv' = Append(Tail(conv), <<Len(text) + 1, t>>)
      /\ ~Masked(t) => rec' = Append(rec, Append(conv, <<Len(text) + 1, t>>))
    BY DEF Install, DecodeStep, Live, NextColumn
<1>2. /\ Append(Tail(RefConv(text)), <<Len(text) + 1, t>>) = RefConv(Append(text, t))
      /\ Append(RefRec(text), Append(RefConv(text), <<Len(text) + 1, t>>))
             = RefRec(Append(text, t))
    BY OneStep
<1> QED BY <1>1, <1>2

\* The last token of a longer history was masked only if skipping counts it.
LEMMA LastNotMasked ==
    ASSUME text \in Seq(Token), NEW t \in Token, text' = Append(text, t),
           build' = build, plen' = plen, build.graph # "spec",
           MayBeDecoded(Len(text) + 1), NothingSkipped'
    PROVE  ~Masked(t)
<1>1. Len(text) + 1 \in 1 .. Len(text') /\ text'[Len(text) + 1] = t
    <2>1. Len(text) \in Nat /\ Len(Append(text, t)) = Len(text) + 1
          /\ Append(text, t)[Len(text) + 1] = t
        BY LenProperties, AppendProperties
    <2> QED BY <2>1
<1>2. PICK i \in 1 .. Len(text') : i = Len(text) + 1 /\ text'[i] = t
    BY <1>1
<1>3. MayBeDecoded(i)'
    <2>1. MayBeDecoded(i)
        BY <1>2
    <2> QED BY <2>1 DEF MayBeDecoded
<1>4. \A k \in 1 .. Len(text') : MayBeDecoded(k)' => ~Masked(text[k])'
    BY DEF NothingSkipped
<1>5. ~Masked(text[i])'
    BY <1>2, <1>3, <1>4
<1>6. ~(build'.decode = "torch" /\ text'[i] = PadToken)
    BY <1>5 DEF Masked
<1> QED BY <1>2, <1>6 DEF Masked

\* A decoded token, in a plain or chunked build.
LEMMA DecodeStepInv ==
    ASSUME Inv, NEW t \in Token, Decode(t)
    PROVE  Inv'
<1>1. /\ text \in Seq(Token) /\ stage = "ready" /\ text # <<>> /\ build.graph # "spec"
      /\ text' = Append(text, t) /\ Len(text) \in Nat
      /\ build' = build /\ plen' = plen /\ stage' = stage /\ pending' = pending
      /\ build.graph # "chunked" => plen <= Len(text)
    BY LenProperties DEF Inv, Shape, Decode
<1>2. /\ text' \in Seq(Token) /\ text' # <<>> /\ Len(text') = Len(text) + 1
      /\ text' = text \o <<t>> /\ <<t>> \in Seq(Token)
    BY <1>1, AppendProperties, AppendIsConcat
<1>3. Len(text) # 0
    BY <1>1, EmptySeq
<1>4. /\ conv = RefConv(text) => conv' = RefConv(text')
      /\ rec = RefRec(text) /\ conv = RefConv(text) /\ ~Masked(t) => rec' = RefRec(text')
    BY <1>1, DecodeStepResult DEF Decode
<1>5. MayBeDecoded(Len(text) + 1)
    <2>1. CASE build.graph = "chunked"
        BY <1>1, <1>3, <2>1 DEF MayBeDecoded
    <2>2. CASE build.graph # "chunked"
        BY <1>1, <2>2 DEF MayBeDecoded, Inv, Shape
    <2> QED BY <2>1, <2>2
<1>6. NothingSkipped' => NothingSkipped /\ ~Masked(t)
    BY <1>1, <1>2, <1>5, StillNothingSkipped, LastNotMasked
<1>7. Shape'
    BY <1>1, <1>2 DEF Inv, Shape
<1>8. LongPrompt' <=> LongPrompt
    BY <1>1 DEF LongPrompt
<1> QED BY <1>1, <1>4, <1>6, <1>7, <1>8 DEF Inv, ConvIsHistory, RecIsHistory

\* A one-token chunk through the decode graph.
LEMMA DecodeChunkStep ==
    ASSUME Inv, DecodeChunk
    PROVE  Inv'
<1> DEFINE t == pending[1]
<1>1. /\ text \in Seq(Token) /\ stage = "prefill" /\ text # <<>> /\ build.graph = "chunked"
      /\ pending \in Seq(Token) /\ pending # <<>> /\ Len(text) \in Nat
      /\ build' = build /\ plen' = plen /\ stage' \in {"ready", "prefill"}
      /\ pending' = Tail(pending)
    BY LenProperties DEF Inv, Shape, DecodeChunk, Single
<1>2. t \in Token /\ SubSeq(pending, 1, 1) = <<t>> /\ pending' \in Seq(Token)
    <2>1. Len(pending) \in Nat /\ Len(pending) # 0
        BY <1>1, LenProperties, EmptySeq
    <2>2. t \in Token
        BY <1>1, <2>1, ElementOfSeq
    <2>3. /\ SubSeq(pending, 1, 1) \in Seq(Token)
          /\ Len(SubSeq(pending, 1, 1)) = 1
          /\ \A j \in 1 .. 1 : SubSeq(pending, 1, 1)[j] = pending[j]
        <3>1. 1 \in Nat /\ 1 <= Len(pending)
            BY <2>1
        <3> QED BY <1>1, <3>1, Prefix
    <2>4. SubSeq(pending, 1, 1) = <<t>>
        <3>1. PICK a \in Seq(Token) : a = SubSeq(pending, 1, 1)
            BY <2>3
        <3>2. PICK b \in Seq(Token) : b = <<t>> /\ Len(b) = 1 /\ b[1] = t
            <4>1. \A x \in Token : <<x>> \in Seq(Token) /\ Len(<<x>>) = 1 /\ <<x>>[1] = x
                OBVIOUS
            <4> QED BY <2>2, <4>1
        <3>3. Len(a) = Len(b) /\ \A j \in 1 .. Len(a) : a[j] = b[j]
            <4>1. \A j \in 1 .. 1 : j = 1
                OBVIOUS
            <4> QED BY <2>3, <3>1, <3>2, <4>1
        <3>4. a = b
            BY <3>3, SeqEqual
        <3> QED BY <3>1, <3>2, <3>4
    <2>5. Tail(pending) \in Seq(Token)
        BY <1>1, HeadTailProperties
    <2> QED BY <1>1, <2>2, <2>4, <2>5
<1>3. Install(DecodeStep(Live, NextColumn(t), Masked(t))) /\ text' = text \o <<t>>
    BY <1>2 DEF DecodeChunk
<1> HIDE DEF t
<1>4. /\ text' = Append(text, t) /\ text' \in Seq(Token) /\ text' # <<>>
      /\ <<t>> \in Seq(Token)
    BY <1>1, <1>2, <1>3, AppendProperties, AppendIsConcat
<1>5. Len(text) # 0
    BY <1>1, EmptySeq
<1>6. /\ conv = RefConv(text) => conv' = RefConv(text')
      /\ rec = RefRec(text) /\ conv = RefConv(text) /\ ~Masked(t) => rec' = RefRec(text')
    BY <1>1, <1>2, <1>3, <1>4, DecodeStepResult
<1>7. MayBeDecoded(Len(text) + 1)
    BY <1>1, <1>5 DEF MayBeDecoded
<1>8. NothingSkipped' => NothingSkipped /\ ~Masked(t)
    BY <1>1, <1>2, <1>3, <1>4, <1>7, StillNothingSkipped, LastNotMasked
<1>9. Shape'
    BY <1>1, <1>2, <1>4 DEF Inv, Shape
<1>10. LongPrompt' /\ LongPrompt
    BY <1>1 DEF LongPrompt
<1> QED BY <1>1, <1>6, <1>8, <1>9, <1>10 DEF Inv, ConvIsHistory, RecIsHistory

\* A chunked request starts with nothing; its first chunk will read no state.
LEMMA BeginChunksStep ==
    ASSUME Inv, NEW prompt \in Prompts, BeginChunks(prompt)
    PROVE  Inv'
<1>1. prompt \in Seq(Token) /\ Len(prompt) \in Nat
    BY PromptIsSeq
<1>2. /\ stage' = "prefill" /\ build' = build /\ build.graph = "chunked"
      /\ text' = <<>> /\ pending' = prompt /\ plen' = Len(prompt)
    BY DEF BeginChunks
<1>3. Shape'
    BY <1>1, <1>2 DEF Inv, Shape
<1> QED BY <1>2, <1>3 DEF Inv, ConvIsHistory, RecIsHistory

\* The verify graph changes no carried state and leaves the block's candidates.
LEMMA VerifyBlockStep ==
    ASSUME Inv, NEW t1 \in Token, NEW t2 \in Token, VerifyBlock(t1, t2)
    PROVE  Inv'
<1>1. /\ stage = "ready" /\ stage' = "verified" /\ build.graph = "spec"
      /\ block' = <<t1, t2>>
      /\ cand' = [i \in 1 .. 2 |-> Candidate(<<t1, t2>>, i)]
      /\ build' = build /\ text' = text /\ pending' = pending /\ plen' = plen
      /\ conv' = conv /\ rec' = rec
    BY DEF VerifyBlock
<1>2. block' \in Seq(Token) /\ Len(block') = 2
    BY <1>1
<1>3. cand' = [i \in 1 .. 2 |-> Candidate(block, i)']
    BY <1>1 DEF Candidate
<1>4. Shape'
    BY <1>1, <1>2, <1>3 DEF Inv, Shape
<1>5. (LongPrompt' <=> LongPrompt) /\ (NothingSkipped' <=> NothingSkipped)
    BY <1>1 DEF LongPrompt, NothingSkipped, MayBeDecoded, Masked
<1> QED BY <1>1, <1>4, <1>5 DEF Inv, ConvIsHistory, RecIsHistory

\* The candidate after token k is the state of the history lengthened by the
\* first k tokens of the block.
LEMMA CandidateIsHistory ==
    ASSUME text \in Seq(Token), NEW u \in Seq(Token), NEW k \in 0 .. Len(u),
           conv = RefConv(text), rec = RefRec(text)
    PROVE  /\ Candidate(u, k).conv = RefConv(text \o SubSeq(u, 1, k))
           /\ Candidate(u, k).rec = RefRec(text \o SubSeq(u, 1, k))
<1>1. PICK input : input = conv \o Columns(Len(text), u)
    OBVIOUS
<1>2. Continues(input, text, u)
    <2>1. <<>> \in Seq(AnyColumn)
        OBVIOUS
    <2>2. Continues((RefConv(text) \o Columns(Len(text), u)) \o <<>>, text, u)
        BY <2>1, LaunchInput
    <2>3. RefConv(text) \in Seq(AnyColumn) /\ Columns(Len(text), u) \in Seq(AnyColumn)
        <3>1. Len(text) \in Nat
            BY LenProperties
        <3> QED BY <3>1, RefConvShape, ColumnsShape
    <2>4. RefConv(text) \o Columns(Len(text), u) \in Seq(AnyColumn)
        BY <2>3, ConcatProperties
    <2>5. (RefConv(text) \o Columns(Len(text), u)) \o <<>> = RefConv(text) \o Columns(Len(text), u)
        BY <2>4, ConcatEmptySeq
    <2> QED BY <1>1, <2>2, <2>5
<1>3. SubSeq(input, k + 1, k + StateLen) = RefConv(text \o SubSeq(u, 1, k))
    BY <1>2, WindowAfter
<1>4. RefRec(text) \o Windows(input, k) = RefRec(text \o SubSeq(u, 1, k))
    BY <1>2, StateAfter
<1>5. Candidate(u, k) = [conv |-> SubSeq(input, k + 1, k + StateLen), rec |-> rec \o Windows(input, k)]
    BY <1>1 DEF Candidate
<1> QED BY <1>3, <1>4, <1>5

\* The commit installs the candidate of the tokens it keeps.
LEMMA CommitBlockStep ==
    ASSUME Inv, NEW index \in 0 .. 1, CommitBlock(index)
    PROVE  Inv'
<1>1. /\ stage = "verified" /\ stage' = "ready" /\ build' = build /\ plen' = plen
      /\ pending' = pending /\ Install(CommitCandidate(index))
      /\ text' = text \o SubSeq(block, 1, index + 1)
    BY DEF CommitBlock
<1>2. /\ text \in Seq(Token) /\ text # <<>> /\ build.graph = "spec" /\ Len(text) \in Nat
      /\ block \in Seq(Token) /\ Len(block) = 2 /\ plen <= Len(text) /\ plen \in Nat
      /\ cand = [i \in 1 .. 2 |-> Candidate(block, i)]
    BY <1>1, LenProperties DEF Inv, Shape
<1>3. PICK k \in Nat : k = index + 1 /\ k \in 1 .. 2 /\ k \in 0 .. Len(block) /\ k <= Len(block)
    <2>1. index + 1 \in Nat
        OBVIOUS
    <2> QED BY <1>2, <2>1
<1>4. PICK kept \in Seq(Token) : kept = SubSeq(block, 1, k) /\ Len(kept) = k
    <2>1. SubSeq(block, 1, k) \in Seq(Token) /\ Len(SubSeq(block, 1, k)) = k
        BY <1>2, <1>3, Prefix
    <2> QED BY <2>1
<1>5. text' = text \o kept /\ text' \in Seq(Token) /\ Len(text') = Len(text) + k
    BY <1>1, <1>2, <1>3, <1>4, ConcatProperties
<1>6. text' # <<>> /\ plen' <= Len(text')
    <2>1. Len(text') # 0 /\ plen <= Len(text')
        BY <1>2, <1>3, <1>5
    <2>2. text' = <<>> => Len(text') = 0
        BY <1>5, EmptySeq
    <2> QED BY <1>1, <2>1, <2>2
<1>7. CommitCandidate(index) = Candidate(block, k)
    <2>1. CommitCandidate(index) = cand[k]
        BY <1>3 DEF CommitCandidate
    <2>2. cand[k] = Candidate(block, k)
        BY <1>2, <1>3
    <2> QED BY <2>1, <2>2
<1>8. conv' = Candidate(block, k).conv /\ rec' = Candidate(block, k).rec
    BY <1>1, <1>7 DEF Install
<1>9. ASSUME LongPrompt PROVE conv' = RefConv(text') /\ rec' = RefRec(text')
    <2>1. NothingSkipped
        BY <1>2 DEF NothingSkipped
    <2>2. conv = RefConv(text) /\ rec = RefRec(text)
        BY <1>1, <1>2, <1>9, <2>1 DEF Inv, ConvIsHistory, RecIsHistory
    <2>3. /\ Candidate(block, k).conv = RefConv(text \o SubSeq(block, 1, k))
          /\ Candidate(block, k).rec = RefRec(text \o SubSeq(block, 1, k))
        BY <1>2, <1>3, <2>2, CandidateIsHistory
    <2> QED BY <1>4, <1>5, <1>8, <2>3
<1>10. LongPrompt' <=> LongPrompt
    BY <1>1 DEF LongPrompt
<1>11. Shape'
    BY <1>1, <1>2, <1>5, <1>6 DEF Inv, Shape
<1> QED BY <1>9, <1>10, <1>11 DEF Inv, ConvIsHistory, RecIsHistory

\* The end of a request and a step that changes nothing.
LEMMA QuietStep ==
    ASSUME Inv, EndRequest \/ UNCHANGED vars
    PROVE  Inv'
<1>1. CASE EndRequest
    <2>1. /\ stage' = "idle" /\ build' = build /\ text' = text /\ pending' = pending
          /\ plen' = plen
        BY <1>1 DEF EndRequest
    <2> QED BY <2>1 DEF Inv, Shape, ConvIsHistory, RecIsHistory
<1>2. CASE UNCHANGED vars
    <2>1. /\ build' = build /\ stage' = stage /\ text' = text /\ pending' = pending
          /\ plen' = plen /\ conv' = conv /\ rec' = rec /\ block' = block /\ cand' = cand
        BY <1>2 DEF vars
    <2>2. Shape'
        BY <2>1 DEF Inv, Shape, Candidate
    <2>3. (LongPrompt' <=> LongPrompt) /\ (NothingSkipped' <=> NothingSkipped)
        BY <2>1 DEF LongPrompt, NothingSkipped, MayBeDecoded, Masked
    <2> QED BY <2>1, <2>2, <2>3 DEF Inv, ConvIsHistory, RecIsHistory
<1> QED BY <1>1, <1>2

(***************************************************************************)
(* The window of a short prompt, and the candidates of a verify block.      *)
(***************************************************************************)

\* Outside chunked prefill the buffers hold a window and windows, and the columns
\* pushed in since the prompt are in their place, whatever lies before them.
Healing ==
    stage # "idle" /\ build.graph # "chunked" =>
        /\ conv \in Seq(AnyColumn) /\ Len(conv) = 3
        /\ rec \in Seq(Seq(AnyColumn))
        /\ \A j \in 1 .. 3 : plen + 3 - Len(text) < j => conv[j] = ColumnAt(text, Len(text) - 3 + j)

\* The windows of a convolution input.
LEMMA WindowsShape ==
    ASSUME NEW input \in Seq(AnyColumn), NEW n \in Nat, n + 3 <= Len(input)
    PROVE  Windows(input, n) \in Seq(Seq(AnyColumn)) /\ Len(Windows(input, n)) = n
<1>1. ASSUME NEW i \in 1 .. n
      PROVE  SubSeq(input, i, i + 3) \in Seq(AnyColumn)
    <2>1. Len(input) \in Nat
        BY LenProperties
    <2>2. i \in Int /\ i + 3 \in Int /\ \A x \in i .. i + 3 : x \in 1 .. Len(input)
        BY <2>1
    <2>3. \A x \in i .. i + 3 : input[x] \in AnyColumn
        BY <2>2, ElementOfSeq
    <2> QED BY <2>2, <2>3, SubSeqProperties
<1>2. Windows(input, n) = [i \in 1 .. n |-> SubSeq(input, i, i + 3)]
    BY DEF Windows, StateLen, Taps
<1>3. [i \in 1 .. n |-> SubSeq(input, i, i + 3)] \in [1 .. n -> Seq(AnyColumn)]
    BY <1>1
<1> QED BY <1>2, <1>3

\* The input of a launch on any window.
LEMMA InputShape ==
    ASSUME NEW c \in Seq(AnyColumn), Len(c) = 3, NEW m \in Nat, NEW u \in Seq(Token)
    PROVE  /\ c \o Columns(m, u) \in Seq(AnyColumn)
           /\ Len(c \o Columns(m, u)) = 3 + Len(u)
           /\ \A j \in 1 .. 3 : (c \o Columns(m, u))[j] = c[j]
           /\ \A i \in 1 .. Len(u) : (c \o Columns(m, u))[3 + i] = <<m + i, u[i]>>
<1>1. PICK d \in Seq(AnyColumn) :
          d = Columns(m, u) /\ Len(d) = Len(u) /\ \A i \in 1 .. Len(u) : d[i] = <<m + i, u[i]>>
    BY ColumnsShape
<1>2. /\ c \o d \in Seq(AnyColumn) /\ Len(c \o d) = 3 + Len(u)
      /\ \A j \in 1 .. 3 + Len(u) : (c \o d)[j] = IF j <= 3 THEN c[j] ELSE d[j - 3]
    <2>1. /\ c \o d \in Seq(AnyColumn) /\ Len(c \o d) = Len(c) + Len(d)
          /\ \A j \in 1 .. Len(c) + Len(d) :
                (c \o d)[j] = IF j <= Len(c) THEN c[j] ELSE d[j - Len(c)]
        BY ONLY c \in Seq(AnyColumn), d \in Seq(AnyColumn), ConcatProperties
    <2> QED BY <1>1, <2>1
<1>3. Len(u) \in Nat
    BY LenProperties
<1>4. \A j \in 1 .. 3 : (c \o d)[j] = c[j]
    BY <1>2, <1>3
<1>5. ASSUME NEW i \in 1 .. Len(u)
      PROVE  (c \o d)[3 + i] = <<m + i, u[i]>>
    <2>1. 3 + i \in 1 .. 3 + Len(u) /\ ~(3 + i <= 3) /\ 3 + i - 3 = i
        BY <1>3
    <2> QED BY <1>1, <1>2, <2>1
<1> QED BY <1>1, <1>2, <1>4, <1>5

\* A window into which k columns were pushed: those that were in place past
\* place p are in place past p - k.
LEMMA PushedIn ==
    ASSUME NEW h \in Seq(Token), NEW u \in Seq(Token), NEW k \in 0 .. Len(u), NEW p \in Int,
           NEW c \in Seq(AnyColumn), Len(c) = 3,
           \A j \in 1 .. 3 : p < j => c[j] = ColumnAt(h, Len(h) - 3 + j)
    PROVE  LET w == SubSeq(c \o Columns(Len(h), u), k + 1, k + 3)
               g == h \o SubSeq(u, 1, k)
           IN  /\ w \in Seq(AnyColumn) /\ Len(w) = 3
               /\ \A j \in 1 .. 3 : p - k < j => w[j] = ColumnAt(g, Len(g) - 3 + j)
<1>1. Len(h) \in Nat /\ Len(u) \in Nat /\ k \in Nat /\ k <= Len(u)
    BY LenProperties
<1>2. PICK g \in Seq(Token) :
          /\ g = h \o SubSeq(u, 1, k) /\ Len(g) = Len(h) + k
          /\ \A i \in Int : i <= Len(h) + k => ColumnAt(g, i) = ColumnAt(h \o u, i)
    BY Lengthened
<1>3. PICK input \in Seq(AnyColumn) :
          /\ input = c \o Columns(Len(h), u) /\ Len(input) = 3 + Len(u)
          /\ \A j \in 1 .. 3 : input[j] = c[j]
          /\ \A i \in 1 .. Len(u) : input[3 + i] = <<Len(h) + i, u[i]>>
    BY <1>1, InputShape
<1>4. PICK w \in Seq(AnyColumn) :
          /\ w = SubSeq(input, k + 1, k + 3) /\ Len(w) = 3
          /\ \A j \in 1 .. 3 : w[j] = input[k + j]
    <2>1. 3 \in Nat /\ k + 3 <= Len(input)
        BY <1>1, <1>3
    <2>2. /\ SubSeq(input, k + 1, k + 3) \in Seq(AnyColumn)
          /\ Len(SubSeq(input, k + 1, k + 3)) = 3
          /\ \A j \in 1 .. 3 : SubSeq(input, k + 1, k + 3)[j] = input[k + j]
        BY <1>1, <2>1, Slice
    <2> QED BY <2>2
<1>5. ASSUME NEW j \in 1 .. 3, p - k < j
      PROVE  w[j] = ColumnAt(g, Len(g) - 3 + j)
    <2>1. PICK i \in Int : i = Len(h) + k - 3 + j
        <3>1. Len(h) + k - 3 + j \in Int
            BY <1>1
        <3> QED BY <3>1
    <2>2. Len(g) - 3 + j = i /\ i <= Len(h) + k
        BY <1>1, <1>2, <2>1
    <2>3. CASE k + j <= 3
        <3>1. k + j \in 1 .. 3 /\ p < k + j /\ Len(h) - 3 + (k + j) = i /\ i <= Len(h)
            BY <1>1, <1>5, <2>1, <2>3
        <3>2. w[j] = ColumnAt(h, i)
            BY <1>3, <1>4, <3>1
        <3> QED BY <1>2, <2>2, <3>1, <3>2, ColumnAtConcat
    <2>4. CASE ~(k + j <= 3)
        <3>1. PICK m \in 1 .. Len(u) : m = k + j - 3
            <4>1. k + j - 3 \in 1 .. Len(u)
                BY <1>1, <2>4
            <4> QED BY <4>1
        <3>2. 3 + m = k + j /\ Len(h) + m = i
            BY <1>1, <2>1, <3>1
        <3>3. w[j] = <<Len(h) + m, u[m]>>
            BY <1>3, <1>4, <3>2
        <3>4. ColumnAt(h \o u, Len(h) + m) = <<Len(h) + m, u[m]>>
            BY ColumnAtConcat
        <3> QED BY <1>2, <2>2, <3>2, <3>3, <3>4
    <2> QED BY <2>3, <2>4
<1> QED BY <1>2, <1>3, <1>4, <1>5

\* The decode step pushes in one column.
LEMMA PushedOne ==
    ASSUME NEW h \in Seq(Token), NEW t \in Token, NEW p \in Int,
           NEW c \in Seq(AnyColumn), Len(c) = 3,
           \A j \in 1 .. 3 : p < j => c[j] = ColumnAt(h, Len(h) - 3 + j)
    PROVE  LET w == Append(Tail(c), <<Len(h) + 1, t>>)
               g == Append(h, t)
           IN  /\ w \in Seq(AnyColumn) /\ Len(w) = 3
               /\ \A j \in 1 .. 3 : p - 1 < j => w[j] = ColumnAt(g, Len(g) - 3 + j)
<1>1. Len(h) \in Nat
    BY LenProperties
<1>2. PICK col \in AnyColumn : col = <<Len(h) + 1, t>>
    <2>1. <<Len(h) + 1, t>> \in AnyColumn
        BY <1>1 DEF AnyColumn
    <2> QED BY <2>1
<1>3. PICK u \in Seq(Token) : u = <<t>> /\ Len(u) = 1 /\ u[1] = t /\ h \o u = Append(h, t)
    <2>1. <<t>> \in Seq(Token) /\ Len(<<t>>) = 1 /\ <<t>>[1] = t
        OBVIOUS
    <2>2. h \o <<t>> = Append(h, t)
        BY AppendIsConcat
    <2> QED BY <2>1, <2>2
<1>4. c \o Columns(Len(h), u) = Append(c, col)
    <2>1. Columns(Len(h), u) = [i \in 1 .. 1 |-> col]
        <3>1. \A i \in 1 .. 1 : i = 1
            OBVIOUS
        <3>2. \A i \in 1 .. 1 : <<Len(h) + i, u[i]>> = col
            BY <1>2, <1>3, <3>1
        <3> QED BY <1>3, <3>2 DEF Columns
    <2>2. [i \in 1 .. 1 |-> col] = <<col>>
        OBVIOUS
    <2> QED BY <1>2, <2>1, <2>2, AppendIsConcat
<1>5. Append(Tail(c), col) = SubSeq(c \o Columns(Len(h), u), 1 + 1, 1 + 3)
    <2>1. 1 + 1 = 2 /\ 1 + 3 = 4
        OBVIOUS
    <2> QED BY <1>4, <2>1, TailAppended
<1>6. 1 \in 0 .. Len(u) /\ h \o SubSeq(u, 1, 1) = Append(h, t)
    BY <1>3, SubSeqFull
<1>7. /\ Append(Tail(c), col) \in Seq(AnyColumn) /\ Len(Append(Tail(c), col)) = 3
      /\ \A j \in 1 .. 3 : p - 1 < j =>
            Append(Tail(c), col)[j] = ColumnAt(Append(h, t), Len(Append(h, t)) - 3 + j)
    <2>1. PICK k \in 0 .. Len(u) : k = 1
        BY <1>6
    <2>2. /\ SubSeq(c \o Columns(Len(h), u), k + 1, k + 3) \in Seq(AnyColumn)
          /\ Len(SubSeq(c \o Columns(Len(h), u), k + 1, k + 3)) = 3
          /\ \A j \in 1 .. 3 : p - k < j =>
                SubSeq(c \o Columns(Len(h), u), k + 1, k + 3)[j]
                    = ColumnAt(h \o SubSeq(u, 1, k), Len(h \o SubSeq(u, 1, k)) - 3 + j)
        BY ONLY h \in Seq(Token), u \in Seq(Token), k \in 0 .. Len(u), p \in Int,
           c \in Seq(AnyColumn), Len(c) = 3,
           \A j \in 1 .. 3 : p < j => c[j] = ColumnAt(h, Len(h) - 3 + j), PushedIn
    <2> QED BY <1>5, <1>6, <2>1, <2>2
<1> QED BY <1>2, <1>7

\* Context encoding leaves a window and windows, whatever the prompt's length.
LEMMA HealingEncoded ==
    ASSUME NEW prompt \in Prompts, ContextEncode(prompt)
    PROVE  Healing'
<1>1. prompt \in Seq(Token) /\ Len(prompt) \in Nat /\ Len(prompt) <= Bucket
    BY PromptIsSeq DEF ContextEncode
<1>2. Bucket \in Nat /\ Bucket >= 3 /\ StateLen = 3
    BY BucketAssumption DEF StateLen, Taps
<1>3. /\ text' = prompt /\ plen' = Len(prompt)
      /\ conv' = GatheredWindow(prompt)
      /\ rec' = Windows(NoColumns \o Columns(0, prompt), Len(prompt))
    BY DEF ContextEncode
<1>4. PICK cols \in Seq(AnyColumn) : cols = Columns(0, prompt) /\ Len(cols) = Len(prompt)
    BY <1>1, ColumnsShape
<1>5. PICK pads \in Seq(AnyColumn) :
          pads = Copies(Bucket - Len(prompt), PadColumn) /\ Len(pads) = Bucket - Len(prompt)
    <2>1. PICK n \in Nat : n = Bucket - Len(prompt)
        <3>1. Bucket - Len(prompt) \in Nat
            BY <1>1, <1>2
        <3> QED BY <3>1
    <2>2. Copies(n, PadColumn) \in Seq(AnyColumn)
        BY Pads
    <2>3. Len(Copies(n, PadColumn)) = n
        BY DEF Copies
    <2> QED BY <2>1, <2>2, <2>3
<1>6. PICK base \in Nat : GatheredWindow(prompt) = SubSeq(cols \o pads, base + 1, base + 3)
                          /\ base + 3 <= Bucket
    <2>1. PICK b \in Nat :
              b = (IF Len(prompt) < 3 THEN 0 ELSE Len(prompt) - 3) /\ b + 3 <= Bucket
        <3>1. (IF Len(prompt) < 3 THEN 0 ELSE Len(prompt) - 3) \in Nat
              /\ (IF Len(prompt) < 3 THEN 0 ELSE Len(prompt) - 3) + 3 <= Bucket
            BY <1>1, <1>2
        <3> QED BY <3>1
    <2> QED BY <1>2, <1>4, <1>5, <2>1 DEF GatheredWindow
<1>7. conv' \in Seq(AnyColumn) /\ Len(conv') = 3
    <2>1. cols \o pads \in Seq(AnyColumn) /\ Len(cols \o pads) = Len(cols) + Len(pads)
        BY ONLY cols \in Seq(AnyColumn), pads \in Seq(AnyColumn), ConcatProperties
    <2>2. 3 \in Nat /\ base + 3 <= Len(cols \o pads)
        BY <1>1, <1>2, <1>4, <1>5, <1>6, <2>1
    <2>3. /\ SubSeq(cols \o pads, base + 1, base + 3) \in Seq(AnyColumn)
          /\ Len(SubSeq(cols \o pads, base + 1, base + 3)) = 3
        BY <2>1, <2>2, Slice
    <2> QED BY <1>3, <1>6, <2>3
<1>8. rec' \in Seq(Seq(AnyColumn))
    <2>1. PICK c \in Seq(AnyColumn) : c = NoColumns /\ Len(c) = 3
        <3>1. NoColumns = [i \in 1 .. 3 |-> Zero]
            BY DEF NoColumns, Copies, StateLen, Taps
        <3>2. [i \in 1 .. 3 |-> Zero] \in [1 .. 3 -> AnyColumn]
            BY DEF AnyColumn
        <3>3. NoColumns \in Seq(AnyColumn) /\ Len(NoColumns) = 3
            BY <3>1, <3>2
        <3> QED BY <3>3
    <2>2. 0 \in Nat
        OBVIOUS
    <2>3. /\ c \o Columns(0, prompt) \in Seq(AnyColumn)
          /\ Len(c \o Columns(0, prompt)) = 3 + Len(prompt)
        BY <1>1, <2>1, <2>2, InputShape
    <2>4. Len(prompt) + 3 <= Len(c \o Columns(0, prompt))
        BY <1>1, <2>3
    <2> QED BY <1>1, <1>3, <2>1, <2>3, <2>4, WindowsShape
<1>9. \A j \in 1 .. 3 : ~(plen' + 3 - Len(text') < j)
    BY <1>1, <1>3
<1> QED BY <1>7, <1>8, <1>9 DEF Healing

\* A decoded token pushes its column into the window.
LEMMA HealingDecoded ==
    ASSUME Inv, Healing, NEW t \in Token, Decode(t)
    PROVE  Healing'
<1>1. /\ text \in Seq(Token) /\ plen \in Nat /\ Len(text) \in Nat /\ stage = "ready"
      /\ build' = build /\ plen' = plen /\ stage' = stage
      /\ text' = Append(text, t) /\ Len(Append(text, t)) = Len(text) + 1
      /\ conv' = Append(Tail(conv), <<Len(text) + 1, t>>)
      /\ rec' = rec \/ rec' = Append(rec, Append(conv, <<Len(text) + 1, t>>))
    BY LenProperties, AppendProperties
       DEF Inv, Shape, Decode, Install, DecodeStep, Live, NextColumn
<1>2. SUFFICES ASSUME build.graph # "chunked" PROVE Healing'
    BY <1>1 DEF Healing
<1>3. /\ conv \in Seq(AnyColumn) /\ Len(conv) = 3
      /\ rec \in Seq(Seq(AnyColumn))
      /\ \A j \in 1 .. 3 : plen + 3 - Len(text) < j => conv[j] = ColumnAt(text, Len(text) - 3 + j)
    BY <1>1, <1>2 DEF Healing
<1>4. PICK p \in Int : p = plen + 3 - Len(text)
    <2>1. plen + 3 - Len(text) \in Int
        BY <1>1
    <2> QED BY <2>1
<1>5. /\ conv' \in Seq(AnyColumn) /\ Len(conv') = 3
      /\ \A j \in 1 .. 3 : p - 1 < j => conv'[j] = ColumnAt(text', Len(text') - 3 + j)
    BY <1>1, <1>3, <1>4, PushedOne
<1>6. plen' + 3 - Len(text') = p - 1
    BY <1>1, <1>4
<1>7. rec' \in Seq(Seq(AnyColumn))
    <2>1. <<Len(text) + 1, t>> \in AnyColumn
        BY <1>1 DEF AnyColumn
    <2>2. Append(conv, <<Len(text) + 1, t>>) \in Seq(AnyColumn)
        BY <1>3, <2>1, AppendProperties
    <2>3. Append(rec, Append(conv, <<Len(text) + 1, t>>)) \in Seq(Seq(AnyColumn))
        BY <1>3, <2>2, AppendProperties
    <2> QED BY <1>1, <1>3, <2>3
<1> QED BY <1>5, <1>6, <1>7 DEF Healing

\* A commit pushes in the columns of the tokens it keeps.
LEMMA HealingCommitted ==
    ASSUME Inv, Healing, NEW index \in 0 .. 1, CommitBlock(index)
    PROVE  Healing'
<1>1. /\ stage = "verified" /\ build' = build /\ plen' = plen
      /\ Install(CommitCandidate(index))
      /\ text' = text \o SubSeq(block, 1, index + 1)
    BY DEF CommitBlock
<1>2. /\ text \in Seq(Token) /\ build.graph = "spec" /\ Len(text) \in Nat /\ plen \in Nat
      /\ block \in Seq(Token) /\ Len(block) = 2
      /\ cand = [i \in 1 .. 2 |-> Candidate(block, i)]
    BY <1>1, LenProperties DEF Inv, Shape
<1>3. /\ conv \in Seq(AnyColumn) /\ Len(conv) = 3
      /\ rec \in Seq(Seq(AnyColumn))
      /\ \A j \in 1 .. 3 : plen + 3 - Len(text) < j => conv[j] = ColumnAt(text, Len(text) - 3 + j)
    BY <1>1, <1>2 DEF Healing
<1>4. PICK k \in 0 .. Len(block) : k = index + 1 /\ k \in 1 .. 2
    <2>1. index + 1 \in 0 .. 2 /\ index + 1 \in 1 .. 2
        OBVIOUS
    <2> QED BY <1>2, <2>1
<1>5. PICK p \in Int : p = plen + 3 - Len(text)
    <2>1. plen + 3 - Len(text) \in Int
        BY <1>2
    <2> QED BY <2>1
<1>6. /\ conv' = SubSeq(conv \o Columns(Len(text), block), k + 1, k + 3)
      /\ rec' = rec \o Windows(conv \o Columns(Len(text), block), k)
    <2>1. CommitCandidate(index) = cand[k]
        BY <1>4 DEF CommitCandidate
    <2>2. cand[k] = Candidate(block, k)
        BY <1>2, <1>4
    <2>3. StateLen = 3
        BY DEF StateLen, Taps
    <2>4. /\ Candidate(block, k).conv = SubSeq(conv \o Columns(Len(text), block), k + 1, k + 3)
          /\ Candidate(block, k).rec = rec \o Windows(conv \o Columns(Len(text), block), k)
        BY <2>3 DEF Candidate
    <2> QED BY <1>1, <2>1, <2>2, <2>4 DEF Install
<1>7. /\ conv' \in Seq(AnyColumn) /\ Len(conv') = 3
      /\ \A j \in 1 .. 3 : p - k < j => conv'[j] = ColumnAt(text', Len(text') - 3 + j)
    <2>1. PICK c \in Seq(AnyColumn), h \in Seq(Token), u \in Seq(Token) :
              c = conv /\ h = text /\ u = block
        BY <1>2, <1>3
    <2>2. Len(c) = 3 /\ k \in 0 .. Len(u)
          /\ \A j \in 1 .. 3 : p < j => c[j] = ColumnAt(h, Len(h) - 3 + j)
        BY <1>3, <1>5, <2>1
    <2>3. /\ SubSeq(c \o Columns(Len(h), u), k + 1, k + 3) \in Seq(AnyColumn)
          /\ Len(SubSeq(c \o Columns(Len(h), u), k + 1, k + 3)) = 3
          /\ \A j \in 1 .. 3 : p - k < j =>
                SubSeq(c \o Columns(Len(h), u), k + 1, k + 3)[j]
                    = ColumnAt(h \o SubSeq(u, 1, k), Len(h \o SubSeq(u, 1, k)) - 3 + j)
        BY <2>2, PushedIn
    <2>4. text' = h \o SubSeq(u, 1, k)
        BY <1>1, <1>4, <2>1
    <2> QED BY <1>6, <2>1, <2>3, <2>4
<1>8. plen' + 3 - Len(text') = p - k
    <2>1. Len(text \o SubSeq(block, 1, k)) = Len(text) + k
        BY <1>2, <1>4, Lengthened
    <2>2. text' = text \o SubSeq(block, 1, k)
        BY <1>1, <1>4
    <2>3. Len(text') = Len(text) + k /\ k \in Nat
        BY <1>4, <2>1, <2>2
    <2>4. PICK m \in Int, n \in Int, l \in Int : m = plen /\ n = Len(text) /\ l = Len(text')
        BY <1>2, <2>3
    <2>5. m + 3 - l = (m + 3 - n) - k
        BY <2>3, <2>4
    <2> QED BY <1>1, <1>5, <2>4, <2>5
<1>9. rec' \in Seq(Seq(AnyColumn))
    <2>1. /\ conv \o Columns(Len(text), block) \in Seq(AnyColumn)
          /\ Len(conv \o Columns(Len(text), block)) = 5
        <3>1. /\ conv \o Columns(Len(text), block) \in Seq(AnyColumn)
              /\ Len(conv \o Columns(Len(text), block)) = 3 + Len(block)
            BY <1>2, <1>3, InputShape
        <3> QED BY <1>2, <3>1
    <2>2. k \in Nat /\ k + 3 <= Len(conv \o Columns(Len(text), block))
        BY <1>4, <2>1
    <2>3. Windows(conv \o Columns(Len(text), block), k) \in Seq(Seq(AnyColumn))
        BY <2>1, <2>2, WindowsShape
    <2> QED BY <1>3, <1>6, <2>3, ConcatProperties
<1> QED BY <1>7, <1>8, <1>9 DEF Healing

\* Every step keeps what heals.
LEMMA HealingStep == Inv /\ Healing /\ [Next]_vars => Healing'
<1> SUFFICES ASSUME Inv, Healing, [Next]_vars PROVE Healing'
    OBVIOUS
<1>1. ASSUME NEW prompt \in Prompts, ContextEncode(prompt) PROVE Healing'
    BY <1>1, HealingEncoded
<1>2. ASSUME NEW prompt \in Prompts, BeginChunks(prompt) PROVE Healing'
    BY <1>2 DEF BeginChunks, Healing
<1>3. ASSUME NEW n \in 1 .. Bucket, PrefillChunk(n) PROVE Healing'
    BY <1>3 DEF PrefillChunk, Healing, Inv, Shape
<1>4. CASE DecodeChunk
    BY <1>4 DEF DecodeChunk, Healing, Inv, Shape
<1>5. ASSUME NEW t \in Token, Decode(t) PROVE Healing'
    BY <1>5, HealingDecoded
<1>6. ASSUME NEW t1 \in Token, NEW t2 \in Token, VerifyBlock(t1, t2) PROVE Healing'
    BY <1>6 DEF VerifyBlock, Healing
<1>7. ASSUME NEW index \in 0 .. 1, CommitBlock(index) PROVE Healing'
    BY <1>7, HealingCommitted
<1>8. CASE EndRequest
    BY <1>8 DEF EndRequest, Healing
<1>9. CASE UNCHANGED vars
    BY <1>9 DEF vars, Healing
<1> QED BY <1>1, <1>2, <1>3, <1>4, <1>5, <1>6, <1>7, <1>8, <1>9 DEF Next

\* A pair as two singletons.
LEMMA PairOf ==
    ASSUME NEW S, NEW a \in S, NEW b \in S
    PROVE  <<a>> \in Seq(S) /\ <<b>> \in Seq(S) /\ <<a>> \o <<b>> = <<a, b>>
<1>1. PICK x \in Seq(S) : x = <<a>> /\ Len(x) = 1 /\ x[1] = a
    <2>1. <<a>> \in Seq(S) /\ Len(<<a>>) = 1 /\ <<a>>[1] = a
        OBVIOUS
    <2> QED BY <2>1
<1>2. PICK y \in Seq(S) : y = <<a, b>> /\ Len(y) = 2 /\ y[1] = a /\ y[2] = b
    <2>1. <<a, b>> \in Seq(S) /\ Len(<<a, b>>) = 2 /\ <<a, b>>[1] = a /\ <<a, b>>[2] = b
        OBVIOUS
    <2> QED BY <2>1
<1>3. /\ Append(x, b) \in Seq(S) /\ Len(Append(x, b)) = Len(x) + 1
      /\ \A i \in 1 .. Len(x) : Append(x, b)[i] = x[i]
      /\ Append(x, b)[Len(x) + 1] = b
    BY AppendProperties
<1>4. Len(Append(x, b)) = 2 /\ Append(x, b)[1] = a /\ Append(x, b)[2] = b
    BY <1>1, <1>3
<1>5. \A i \in 1 .. 2 : i = 1 \/ i = 2
    OBVIOUS
<1>6. \A i \in 1 .. Len(Append(x, b)) : Append(x, b)[i] = y[i]
    BY <1>2, <1>4, <1>5
<1>7. Append(x, b) = y
    BY <1>2, <1>3, <1>4, <1>6, SeqEqual
<1>8. <<b>> \in Seq(S) /\ x \o <<b>> = Append(x, b)
    BY AppendIsConcat
<1> QED BY <1>1, <1>2, <1>7, <1>8

\* Two columns pushed in at once, or one after the other.
LEMMA BlockIsTwoSteps ==
    ASSUME NEW c \in Seq(AnyColumn), Len(c) = 3,
           NEW a \in AnyColumn, NEW b \in AnyColumn
    PROVE  LET input == c \o <<a, b>>
               d == Append(Tail(c), a)
           IN  /\ d \in Seq(AnyColumn) /\ Len(d) = 3
               /\ SubSeq(input, 1, 4) = Append(c, a) /\ SubSeq(input, 2, 4) = d
               /\ SubSeq(input, 2, 5) = Append(d, b) /\ SubSeq(input, 3, 5) = Append(Tail(d), b)
<1>1. PICK w \in Seq(AnyColumn) : w = Append(c, a) /\ Len(w) = 4
    BY TailAppended
<1>2. PICK d \in Seq(AnyColumn) : d = Append(Tail(c), a) /\ Len(d) = 3 /\ d = SubSeq(w, 2, 4)
    <2>1. Append(Tail(c), a) = SubSeq(w, 2, 4)
        BY <1>1, TailAppended
    <2>2. SubSeq(w, 1 + 1, 1 + 3) \in Seq(AnyColumn) /\ Len(SubSeq(w, 1 + 1, 1 + 3)) = 3
        <3>1. 1 \in Nat /\ 3 \in Nat /\ 1 + 3 <= Len(w)
            BY <1>1
        <3> QED BY <3>1, Slice
    <2>3. 1 + 1 = 2 /\ 1 + 3 = 4
        OBVIOUS
    <2> QED BY <2>1, <2>2, <2>3
<1>3. PICK input \in Seq(AnyColumn) :
          input = c \o <<a, b>> /\ input = Append(w, b) /\ Len(input) = 5
          /\ \A i \in 1 .. 4 : input[i] = w[i]
    <2>1. <<a>> \in Seq(AnyColumn) /\ <<b>> \in Seq(AnyColumn) /\ <<a>> \o <<b>> = <<a, b>>
        BY PairOf
    <2>2. (c \o <<a>>) \o <<b>> = c \o (<<a>> \o <<b>>)
        BY <2>1, ConcatAssociative
    <2>3. c \o <<a>> = w /\ w \o <<b>> = Append(w, b)
        BY <1>1, AppendIsConcat
    <2>4. /\ Append(w, b) \in Seq(AnyColumn) /\ Len(Append(w, b)) = Len(w) + 1
          /\ \A i \in 1 .. Len(w) : Append(w, b)[i] = w[i]
        BY ONLY w \in Seq(AnyColumn), b \in AnyColumn, AppendProperties
    <2>5. Append(w, b) = c \o <<a, b>>
        BY <2>1, <2>2, <2>3
    <2>6. Len(Append(w, b)) = 5 /\ \A i \in 1 .. 4 : Append(w, b)[i] = w[i]
        BY <1>1, <2>4
    <2> QED BY <2>4, <2>5, <2>6
<1>4. SubSeq(input, 1, 4) = w
    <2>1. 1 \in 1 .. Len(w) /\ 4 \in 1 .. Len(w) /\ <<b>> \in Seq(AnyColumn)
        BY <1>1
    <2>2. SubSeq(w \o <<b>>, 1, 4) = SubSeq(w, 1, 4)
        BY <2>1, SubSeqOfConcat1
    <2>3. SubSeq(w, 1, Len(w)) = w
        BY SubSeqFull
    <2>4. w \o <<b>> = Append(w, b)
        BY AppendIsConcat
    <2> QED BY <1>1, <1>3, <2>2, <2>3, <2>4
<1>5. SubSeq(input, 2, 4) = d
    <2>1. 2 \in 1 .. Len(w) /\ 4 \in 1 .. Len(w) /\ <<b>> \in Seq(AnyColumn)
        BY <1>1
    <2>2. SubSeq(w \o <<b>>, 2, 4) = SubSeq(w, 2, 4)
        BY <2>1, SubSeqOfConcat1
    <2>3. w \o <<b>> = Append(w, b)
        BY AppendIsConcat
    <2> QED BY <1>2, <1>3, <2>2, <2>3
<1>6. SubSeq(input, 2, 5) = Append(d, b)
    <2>1. 2 \in 1 .. Len(input) /\ 5 \in 2 .. Len(input) /\ 5 - 1 = 4
        BY <1>3
    <2>2. SubSeq(input, 2, 5) = SubSeq(input, 2, 5 - 1) \o <<input[5]>>
        BY <2>1, SubSeqRecursiveSecond
    <2>3. input[5] = b
        BY <1>1, <1>3, AppendProperties
    <2>4. d \o <<b>> = Append(d, b)
        BY AppendIsConcat
    <2> QED BY <1>5, <2>1, <2>2, <2>3, <2>4
<1>7. SubSeq(input, 3, 5) = Append(Tail(d), b)
    <2>1. Append(Tail(d), b) = SubSeq(Append(d, b), 2, 4)
        BY <1>2, TailAppended
    <2>2. SubSeq(SubSeq(input, 2, 5), 2, 4) = SubSeq(input, 3, 5)
        <3>1. /\ 2 \in 1 .. Len(input) /\ 5 \in 1 .. Len(input) /\ 2 \in 1 .. 5 - 2 + 1
              /\ 4 \in 1 .. 5 - 2 + 1 /\ 2 + 2 - 1 = 3 /\ 2 + 4 - 1 = 5
            BY <1>3
        <3>2. SubSeq(SubSeq(input, 2, 5), 2, 4) = SubSeq(input, 2 + 2 - 1, 2 + 4 - 1)
            BY <3>1, SubSeqOfSubSeq
        <3> QED BY <3>1, <3>2
    <2> QED BY <1>6, <2>1, <2>2
<1> QED BY <1>1, <1>2, <1>3, <1>4, <1>5, <1>6, <1>7

\* No request is running before the first launch.
LEMMA HealingInit == Init => Healing
BY DEF Init, Healing

\* Three tokens past the prompt every column is in its place.
LEMMA Healed == Inv /\ Healing => ConvHeals
<1> SUFFICES ASSUME Inv, Healing, stage # "idle", Len(text) >= plen + StateLen
             PROVE  conv = RefConv(text)
    BY DEF ConvHeals
<1>1. StateLen = 3
    BY DEF StateLen, Taps
<1>2. text \in Seq(Token) /\ plen \in Nat /\ Len(text) \in Nat /\ Len(text) >= plen + 3
    BY <1>1, LenProperties DEF Inv, Shape
<1>3. CASE build.graph = "chunked"
    <2>1. text # <<>>
        BY <1>2
    <2> QED BY <1>3, <2>1 DEF Inv, ConvIsHistory, LongPrompt
<1>4. CASE build.graph # "chunked"
    <2>1. /\ conv \in Seq(AnyColumn) /\ Len(conv) = 3
          /\ \A j \in 1 .. 3 : plen + 3 - Len(text) < j => conv[j] = ColumnAt(text, Len(text) - 3 + j)
        BY <1>4 DEF Healing
    <2>2. \A j \in 1 .. 3 : plen + 3 - Len(text) < j
        BY <1>2
    <2>3. /\ RefConv(text) \in Seq(AnyColumn) /\ Len(RefConv(text)) = 3
          /\ \A j \in 1 .. 3 : RefConv(text)[j] = ColumnAt(text, Len(text) - 3 + j)
        BY <1>2, RefConvShape
    <2>4. Len(conv) = Len(RefConv(text)) /\ \A j \in 1 .. Len(conv) : conv[j] = RefConv(text)[j]
        BY <2>1, <2>2, <2>3
    <2> QED BY <2>1, <2>3, <2>4, SeqEqual
<1> QED BY <1>3, <1>4

\* One decode step after another is what a verify block's candidates hold.
LEMMA CandidatesDecoded == Inv /\ Healing => CandidatesAreDecodeSteps
<1> SUFFICES ASSUME Inv, Healing, stage = "verified"
             PROVE  LET first == DecodeStep(Live, <<Len(text) + 1, block[1]>>, FALSE)
                    IN  cand = <<first, DecodeStep(first, <<Len(text) + 2, block[2]>>, FALSE)>>
    BY DEF CandidatesAreDecodeSteps
<1>1. /\ text \in Seq(Token) /\ build.graph = "spec" /\ Len(text) \in Nat
      /\ block \in Seq(Token) /\ Len(block) = 2
      /\ cand = [i \in 1 .. 2 |-> Candidate(block, i)]
    BY LenProperties DEF Inv, Shape
<1>2. conv \in Seq(AnyColumn) /\ Len(conv) = 3 /\ rec \in Seq(Seq(AnyColumn))
    BY <1>1 DEF Healing
<1>3. PICK a \in AnyColumn, b \in AnyColumn :
          a = <<Len(text) + 1, block[1]>> /\ b = <<Len(text) + 2, block[2]>>
    <2>1. block[1] \in Token /\ block[2] \in Token
        BY <1>1, ElementOfSeq
    <2>2. <<Len(text) + 1, block[1]>> \in AnyColumn /\ <<Len(text) + 2, block[2]>> \in AnyColumn
        BY <1>1, <2>1 DEF AnyColumn
    <2> QED BY <2>2
<1>4. Columns(Len(text), block) = <<a, b>>
    <2>1. Columns(Len(text), block) = [i \in 1 .. 2 |-> <<Len(text) + i, block[i]>>]
        BY <1>1 DEF Columns
    <2>2. [i \in 1 .. 2 |-> <<Len(text) + i, block[i]>>]
              = <<<<Len(text) + 1, block[1]>>, <<Len(text) + 2, block[2]>>>>
        OBVIOUS
    <2> QED BY <1>3, <2>1, <2>2
<1>5. PICK d : d = Append(Tail(conv), a)
    OBVIOUS
<1>6. PICK input : input = conv \o <<a, b>>
    OBVIOUS
<1>7. /\ SubSeq(input, 1, 4) = Append(conv, a) /\ SubSeq(input, 2, 4) = d
      /\ SubSeq(input, 2, 5) = Append(d, b) /\ SubSeq(input, 3, 5) = Append(Tail(d), b)
      /\ d \in Seq(AnyColumn)
    BY <1>2, <1>5, <1>6, BlockIsTwoSteps
<1>8. /\ Windows(input, 1) = <<Append(conv, a)>>
      /\ Windows(input, 2) = <<Append(conv, a), Append(d, b)>>
    <2>1. /\ Windows(input, 1) = [i \in 1 .. 1 |-> SubSeq(input, i, i + 3)]
          /\ Windows(input, 2) = [i \in 1 .. 2 |-> SubSeq(input, i, i + 3)]
        BY DEF Windows, StateLen, Taps
    <2>2. /\ [i \in 1 .. 1 |-> SubSeq(input, i, i + 3)] = <<SubSeq(input, 1, 4)>>
          /\ [i \in 1 .. 2 |-> SubSeq(input, i, i + 3)]
                = <<SubSeq(input, 1, 4), SubSeq(input, 2, 5)>>
        OBVIOUS
    <2> QED BY <1>7, <2>1, <2>2
<1>9. /\ rec \o Windows(input, 1) = Append(rec, Append(conv, a))
      /\ rec \o Windows(input, 2) = Append(Append(rec, Append(conv, a)), Append(d, b))
    <2>1. PICK x \in Seq(AnyColumn), y \in Seq(AnyColumn) :
              x = Append(conv, a) /\ y = Append(d, b)
        BY <1>2, <1>7, AppendProperties
    <2>2. rec \o <<x>> = Append(rec, x) /\ Append(rec, x) \in Seq(Seq(AnyColumn))
        BY <1>2, AppendIsConcat, AppendProperties
    <2>3. Append(rec, x) \o <<y>> = Append(Append(rec, x), y)
        BY <2>2, AppendIsConcat
    <2>4. <<x>> \o <<y>> = <<x, y>>
        BY <2>1, PairOf
    <2>5. (rec \o <<x>>) \o <<y>> = rec \o (<<x>> \o <<y>>)
        BY <1>2, ConcatAssociative
    <2> QED BY <1>8, <2>1, <2>2, <2>3, <2>4, <2>5
<1>10. DecodeStep(Live, a, FALSE) = [conv |-> d, rec |-> Append(rec, Append(conv, a))]
    BY <1>5 DEF DecodeStep, Live
<1>11. Candidate(block, 1) = DecodeStep(Live, a, FALSE)
    <2>1. Candidate(block, 1) = [conv |-> SubSeq(input, 2, 4), rec |-> rec \o Windows(input, 1)]
        BY <1>4, <1>6 DEF Candidate, StateLen, Taps
    <2> QED BY <1>7, <1>9, <1>10, <2>1
<1>12. Candidate(block, 2) = DecodeStep(DecodeStep(Live, a, FALSE), b, FALSE)
    <2>1. Candidate(block, 2) = [conv |-> SubSeq(input, 3, 5), rec |-> rec \o Windows(input, 2)]
        BY <1>4, <1>6 DEF Candidate, StateLen, Taps
    <2>2. DecodeStep([conv |-> d, rec |-> Append(rec, Append(conv, a))], b, FALSE)
            = [conv |-> Append(Tail(d), b),
               rec |-> Append(Append(rec, Append(conv, a)), Append(d, b))]
        BY DEF DecodeStep
    <2> QED BY <1>7, <1>9, <1>10, <2>1, <2>2
<1>13. cand = <<Candidate(block, 1), Candidate(block, 2)>>
    <2>1. [i \in 1 .. 2 |-> Candidate(block, i)] = <<Candidate(block, 1), Candidate(block, 2)>>
        OBVIOUS
    <2> QED BY <1>1, <2>1
<1> QED BY <1>3, <1>11, <1>12, <1>13

(***************************************************************************)
(* The theorems.                                                            *)
(***************************************************************************)

\* The inductive invariant: shapes, the window and the recurrent state, with
\* the candidates of a running block tied to the live state they start from.
THEOREM DeltaInvariant == Spec => []Inv
<1>1. Init => Inv
    BY InitInv
<1>2. Inv /\ [Next]_vars => Inv'
    <2> SUFFICES ASSUME Inv, [Next]_vars
                 PROVE  Inv'
        OBVIOUS
    <2>1. ASSUME NEW prompt \in Prompts, ContextEncode(prompt)
          PROVE  Inv'
        BY <2>1, ContextEncodeStep
    <2>2. ASSUME NEW prompt \in Prompts, BeginChunks(prompt)
          PROVE  Inv'
        BY <2>2, BeginChunksStep
    <2>3. ASSUME NEW n \in 1 .. Bucket, PrefillChunk(n)
          PROVE  Inv'
        BY <2>3, PrefillChunkStep
    <2>4. CASE DecodeChunk
        BY <2>4, DecodeChunkStep
    <2>5. ASSUME NEW t \in Token, Decode(t)
          PROVE  Inv'
        BY <2>5, DecodeStepInv
    <2>6. ASSUME NEW t1 \in Token, NEW t2 \in Token, VerifyBlock(t1, t2)
          PROVE  Inv'
        BY <2>6, VerifyBlockStep
    <2>7. ASSUME NEW index \in 0 .. 1, CommitBlock(index)
          PROVE  Inv'
        BY <2>7, CommitBlockStep
    <2>8. CASE EndRequest \/ UNCHANGED vars
        BY <2>8, QuietStep
    <2> QED BY <2>1, <2>2, <2>3, <2>4, <2>5, <2>6, <2>7, <2>8 DEF Next
<1> QED BY <1>1, <1>2, PTL DEF Spec

\* The carried convolution window is the last three columns of the request,
\* in every build, for every chunking of the prompt and every accept count.
THEOREM ConvWindowExact == Spec => []ConvIsHistory
<1>1. Inv => ConvIsHistory
    BY DEF Inv
<1> QED BY <1>1, DeltaInvariant, PTL

\* The recurrent state consumed exactly the windows of the request's tokens.
THEOREM RecurrentStateExact == Spec => []RecIsHistory
<1>1. Inv => RecIsHistory
    BY DEF Inv
<1> QED BY <1>1, DeltaInvariant, PTL

\* The window and what a short prompt leaves in it hold together.
LEMMA HealingInvariant == Spec => [](Inv /\ Healing)
<1>1. Init => Healing
    BY HealingInit
<1>2. Inv /\ Healing /\ [Next]_vars => Healing'
    BY HealingStep
<1> QED BY <1>1, <1>2, DeltaInvariant, PTL DEF Spec

\* The window a prompt shorter than the window leaves (_deltanet_ctx_gather's
\* clamp) is exact again once three tokens were decoded or committed.
THEOREM WindowHeals == Spec => []ConvHeals
<1>1. Inv /\ Healing => ConvHeals
    BY Healed
<1> QED BY <1>1, HealingInvariant, PTL

\* The candidates a verify block writes are the states that decoding its tokens
\* one after the other goes through.
THEOREM CandidatesSequential == Spec => []CandidatesAreDecodeSteps
<1>1. Inv /\ Healing => CandidatesAreDecodeSteps
    BY CandidatesDecoded
<1> QED BY <1>1, HealingInvariant, PTL

(***************************************************************************)
(* The other kind of layer of the hybrid model: an attention layer of the   *)
(* fused kernels.  Its state is the pair of caches, which two cores read in *)
(* halves and write in place.  The theorems hold for every number of slots, *)
(* query heads, tiles and rotated dimensions, every prompt and block, and   *)
(* every order in which the two cores run.                                  *)
(***************************************************************************)
CONSTANTS SeqLen, PMax, DTiles, RopeDim, QHeads, Tag, Stale, MinPrompt, MaxBlock
VARIABLES hist, kc, vc, attnBlock, way, pc, tile, sb, att, out

Gqa == INSTANCE GqaLayer WITH block <- attnBlock

(***************************************************************************)
(* Division and remainders.                                                 *)
(***************************************************************************)
\* The quotient and the remainder of a by b.
Splits(a, b, q, r) ==
    a \in Nat /\ b \in Nat \ {0} /\ q \in Nat /\ r \in 0 .. b - 1 /\ a = q * b + r

\* Division gives them.
LEMMA DivModIs ==
    ASSUME NEW a \in Nat, NEW b \in Nat \ {0}
    PROVE  Splits(a, b, a \div b, a % b)
BY SMT DEF Splits

\* And they are the only ones.
LEMMA DivModUnique ==
    ASSUME NEW a, NEW b, NEW q, NEW r, Splits(a, b, q, r)
    PROVE  a \div b = q /\ a % b = r
<1> DEFINE d == a \div b
           m == a % b
<1> USE DEF Splits
<1>1. d \in Nat /\ m \in 0 .. b - 1 /\ a = d * b + m
    BY DivModIs
<1>2. (q - d) * b = m - r
    BY <1>1, SMT
<1>3. q - d = 0
    BY <1>1, <1>2, SMT
<1> QED BY <1>1, <1>2, <1>3, SMT

\* The quotient of a number below q times the divisor is below q.
LEMMA DivLess ==
    ASSUME NEW a, NEW b, NEW d, NEW r, Splits(a, b, d, r), NEW q \in Nat, a < q * b
    PROVE  d \in 0 .. q - 1
<1> USE DEF Splits
<1>1. ASSUME d >= q PROVE FALSE
    <2>1. d * b >= q * b
        BY <1>1, SMT
    <2> QED BY <2>1, SMT
<1> QED BY <1>1, SMT

\* A number below q * b from its parts.
LEMMA Packed ==
    ASSUME NEW q \in Nat, NEW b \in Nat \ {0}, NEW d \in 0 .. q - 1, NEW r \in 0 .. b - 1
    PROVE  d * b + r \in 0 .. q * b - 1
<1>1. (d + 1) * b <= q * b
    BY SMT
<1>2. (d + 1) * b = d * b + b
    BY SMT
<1> QED BY <1>1, <1>2, SMT

\* The columns of a transposed tile: one per head and token.
LEMMA ColumnParts ==
    ASSUME NEW n \in Nat, NEW w \in Nat \ {0}, NEW h \in 0 .. n - 1, NEW t \in 0 .. w - 1
    PROVE  /\ h * w + t \in 0 .. n * w - 1
           /\ (h * w + t) \div w = h /\ (h * w + t) % w = t
<1>1. Splits(h * w + t, w, h, t)
    BY SMT DEF Splits
<1> QED BY <1>1, Packed, DivModUnique

\* Each column is of one head and one token.
LEMMA ColumnOf ==
    ASSUME NEW n \in Nat, NEW w \in Nat \ {0}, NEW col \in 0 .. n * w - 1
    PROVE  /\ col \div w \in 0 .. n - 1 /\ col % w \in 0 .. w - 1
           /\ col = (col \div w) * w + (col % w)
<1>1. n * w \in Nat
    BY SMT
<1>2. col \in Nat /\ col < n * w
    BY <1>1, SMT
<1>3. Splits(col, w, col \div w, col % w)
    BY <1>2, DivModIs
<1>4. col \div w \in 0 .. n - 1
    BY <1>2, <1>3, DivLess
<1>5. \A q, r : Splits(col, w, q, r) => r \in 0 .. w - 1 /\ col = q * w + r
    BY Zenon DEF Splits
<1> QED BY <1>3, <1>4, <1>5, Zenon

(***************************************************************************)
(* The sizes.                                                               *)
(***************************************************************************)
\* The sizes of the layer, as numbers.
LEMMA Sizes ==
    ASSUME Gqa!SizeAssumption
    PROVE  /\ PMax \in Nat \ {0} /\ DTiles \in Nat \ {0} /\ Gqa!HeadDim \in Nat \ {0}
           /\ Gqa!Dims = 0 .. Gqa!HeadDim - 1 /\ QHeads \in Nat \ {0} /\ SeqLen \in Nat \ {0}
           /\ Gqa!NumHeads = QHeads + 2 /\ Gqa!KHead = QHeads /\ Gqa!VHead = QHeads + 1
           /\ Gqa!RopeHeads = QHeads + 1
           /\ RopeDim \in Nat /\ Gqa!Half \in Nat /\ RopeDim = 2 * Gqa!Half /\
                RopeDim <= Gqa!HeadDim
<1>1. Gqa!HeadDim \in Nat \ {0}
    BY SMT DEF Gqa!SizeAssumption, Gqa!HeadDim
<1>2. RopeDim \in Nat /\ Gqa!Half \in Nat /\ RopeDim = 2 * Gqa!Half
    BY SMT DEF Gqa!SizeAssumption, Gqa!Half
<1> QED BY <1>1, <1>2 DEF Gqa!SizeAssumption, Gqa!Dims, Gqa!NumHeads, Gqa!KHead, Gqa!VHead,
             Gqa!RopeHeads

\* A dimension is a place of a tile.
LEMMA DimParts ==
    ASSUME Gqa!SizeAssumption, NEW d \in Gqa!Dims
    PROVE  /\ d % PMax \in 0 .. PMax - 1 /\ d \div PMax \in 0 .. DTiles - 1
           /\ (d \div PMax) * PMax + (d % PMax) = d
<1>1. d \in 0 .. DTiles * PMax - 1
    BY Sizes, SMT DEF Gqa!HeadDim
<1> QED BY <1>1, ColumnOf, Sizes

\* And a place of a tile is a dimension.
LEMMA DimOf ==
    ASSUME Gqa!SizeAssumption, NEW dt \in 0 .. DTiles - 1, NEW i \in 0 .. PMax - 1
    PROVE  /\ dt * PMax + i \in Gqa!Dims
           /\ (dt * PMax + i) % PMax = i /\ (dt * PMax + i) \div PMax = dt
<1>1. dt * PMax + i \in 0 .. DTiles * PMax - 1
    BY ColumnParts, Sizes
<1>2. DTiles * PMax = Gqa!HeadDim
    <2>1. \A a, b \in Nat : a * b = b * a
        BY SMT
    <2> QED BY <2>1, Sizes DEF Gqa!HeadDim
<1>3. (dt * PMax + i) % PMax = i /\ (dt * PMax + i) \div PMax = dt
    <2>1. DTiles \in Nat /\ PMax \in Nat \ {0}
        BY Sizes
    <2>2. Splits(dt * PMax + i, PMax, dt, i)
        BY <2>1, SMT DEF Splits
    <2> QED BY <2>2, DivModUnique
<1> QED BY <1>1, <1>2, <1>3, Sizes, Zenon

(***************************************************************************)
(* The invariant.                                                           *)
(***************************************************************************)
\* A vocabulary for the lines of the mask: the token of a line, and the lines
\* of a set that query t keeps.
BlockLine == SeqLen - Gqa!T
TokenAt(j) == IF j < BlockLine THEN Gqa!OwnToken(j) ELSE Gqa!Id(j - BlockLine)
Kept(lines, t) == {j \in lines : Gqa!Mask(j, t)}

\* The projections of the block, summed over the given halves.
Projected(halves) ==
    [qkv |-> [t \in Gqa!Tokens |-> [n \in 0 .. Gqa!NumHeads - 1 |-> [d \in Gqa!Dims |->
                Gqa!Raw("qkv", Gqa!Id(t), n, d, halves)]]],
     gate |-> [t \in Gqa!Tokens |-> [n \in 0 .. QHeads - 1 |-> [d \in Gqa!Dims |->
                Gqa!Raw("gate", Gqa!Id(t), n, d, halves)]]]]

\* A core's tiles hold the block's transposed queries, keys and gates and its values.
Ready(m) ==
    /\ \A t \in Gqa!Tokens, h \in 0 .. QHeads - 1 :
        Gqa!Column(m.q, h * Gqa!T + t) = Gqa!QueryOf(Gqa!Id(t), h)
    /\ \A t \in Gqa!Tokens : Gqa!Column(m.k, t) = Gqa!KeyOf(Gqa!Id(t)) /\
         m.v[t] = Gqa!ValueOf(Gqa!Id(t))
    /\ \A t \in Gqa!Tokens, h \in 0 .. QHeads - 1, d \in Gqa!Dims :
        m.gate[d % PMax][d \div PMax][h * Gqa!T + t] = Gqa!GateOf(Gqa!Id(t), h, d)

\* What attention over the given lines gives.
Answers(lines) ==
    [col \in 0 .. QHeads * Gqa!T - 1 |->
        [query |-> Gqa!QueryOf(Gqa!Id(col % Gqa!T), col \div Gqa!T),
         keys |-> {<<j, Gqa!KeyOf(TokenAt(j))>> : j \in Kept(lines, col % Gqa!T)},
         vals |-> {<<j, Gqa!ValueOf(TokenAt(j))>> : j \in Kept(lines, col % Gqa!T)}]]

\* Every row of the output weight met its own.
RowsMet(c) ==
    \A t \in Gqa!Tokens, r \in 0 .. QHeads * Gqa!HeadDim - 1 :
        /\ out[c][t][r].att.query = Gqa!QueryOf(Gqa!Id(t), r \div Gqa!HeadDim)
        /\ out[c][t][r].dim = r % Gqa!HeadDim
        /\ out[c][t][r].gate = Gqa!GateOf(Gqa!Id(t), r \div Gqa!HeadDim, r % Gqa!HeadDim)

\* What core c holds where it is.
CoreInv(c) ==
    /\ pc[c] = "sum" => tile[c] = Projected({c})
    /\ pc[c] = "prepare" => tile[c] = Projected(Gqa!Core)
    /\ pc[c] \in {"attend", "merge", "write", "output", "done"} => Ready(sb[c])
    /\ pc[c] = "merge" => att[c] = Answers(Gqa!Lines(c))
    /\ pc[c] \in {"write", "output"} => att[c] = Answers(Gqa!Slots)
    /\ pc[c] = "done" => RowsMet(c)

\* The slots of the request hold its own, whatever runs.
OwnSlots == \A j \in 0 .. Gqa!Pos - 1 : kc[j] = Gqa!KeyOf(Gqa!OwnToken(j)) /\
        vc[j] = Gqa!ValueOf(Gqa!OwnToken(j))

\* And those of the block, once the kernel has written them.
BlockWritten ==
    way = "scatter" =>
        /\ pc[1] \in {"output",
             "done"} => \A t \in Gqa!Tokens : kc[Gqa!Pos + t] = Gqa!KeyOf(Gqa!Id(t))
        /\ pc[0] \in {"output",
             "done"} => \A t \in Gqa!Tokens : vc[Gqa!Pos + t] = Gqa!ValueOf(Gqa!Id(t))

\* Each core holds its own.
HeldByCores == DOMAIN tile = Gqa!Core /\ DOMAIN sb = Gqa!Core /\ DOMAIN att = Gqa!Core /\
        DOMAIN out = Gqa!Core

\* The inductive invariant.
AttnInv == Gqa!TypeOK /\ HeldByCores /\ OwnSlots /\ BlockWritten /\ \A c \in Gqa!Core : CoreInv(c)

\* The block and the request, as numbers.
LEMMA BlockTypes ==
    ASSUME Gqa!SizeAssumption, Gqa!TypeOK
    PROVE  /\ Gqa!Pos \in Nat /\ Gqa!T \in Nat /\ Gqa!Tokens = 0 .. Gqa!T - 1 /\
                Gqa!Pos + Gqa!T <= SeqLen
           /\ BlockLine \in Nat /\ Gqa!Pos <= BlockLine /\ BlockLine + Gqa!T = SeqLen
           /\ SeqLen \in Nat \ {0} /\ Gqa!Slots = 0 .. SeqLen - 1
BY Sizes DEF Gqa!TypeOK, Gqa!Pos, Gqa!T, Gqa!Tokens, BlockLine, Gqa!Slots

(***************************************************************************)
(* The arithmetic on elements.                                              *)
(***************************************************************************)
\* Norm and rotation of the projected heads.
Normed == [t \in Gqa!Tokens |-> [n \in 0 .. Gqa!NumHeads - 1 |-> [d \in Gqa!Dims |->
            Gqa!QkNorm(Gqa!Raw("qkv", Gqa!Id(t), n, d, Gqa!Core), n)]]]
Roped == [t \in Gqa!Tokens |-> [n \in 0 .. Gqa!NumHeads - 1 |-> [d \in Gqa!Dims |->
            Gqa!RopePartial(Normed[t][n], t, n, d)]]]

\* An element without a norm, as the norms write it.
LEMMA RawIsOwn ==
    ASSUME NEW w, NEW tok, NEW n, NEW d, NEW halves
    PROVE  [Gqa!Raw(w, tok, n, d, halves) EXCEPT !.gamma = "none"] = Gqa!Raw(w, tok, n, d, halves)
<1>1. ASSUME NEW f, NEW S, f = [x \in S |-> f[x]], NEW a, f[a] = "none"
      PROVE  [f EXCEPT ![a] = "none"] = f
    BY <1>1, Zenon
<1>2. Gqa!Raw(w, tok, n, d, halves) =
        [x \in DOMAIN Gqa!Raw(w, tok, n, d, halves) |-> Gqa!Raw(w, tok, n, d, halves)[x]]
    BY Zenon DEF Gqa!Raw
<1>3. Gqa!Raw(w, tok, n, d, halves).gamma = "none"
    BY DEF Gqa!Raw
<1> QED BY <1>1, <1>2, <1>3

\* A normed head, element by element.
LEMMA NormedIs ==
    ASSUME Gqa!SizeAssumption, Gqa!TypeOK, NEW t \in Gqa!Tokens, NEW n \in 0 .. Gqa!NumHeads - 1,
             NEW d \in Gqa!Dims
    PROVE  Normed[t][n][d] =
              Gqa!Full("qkv", Gqa!Id(t), n, d,
                   IF n < QHeads THEN "q" ELSE IF n = Gqa!KHead THEN "k" ELSE "none")
<1>1. Normed[t][n][d] = Gqa!QkNorm(Gqa!Raw("qkv", Gqa!Id(t), n, d, Gqa!Core), n)
    BY DEF Normed
<1>2. Gqa!Raw("qkv", Gqa!Id(t), n, d, Gqa!Core) = [Gqa!Raw("qkv", Gqa!Id(t), n, d,
        Gqa!Core) EXCEPT !.gamma = "none"]
    BY RawIsOwn
<1> QED BY <1>1, <1>2 DEF Gqa!QkNorm, Gqa!Full

\* A rotated head, element by element: a dimension's mate is in the same head.
LEMMA RopedIs ==
    ASSUME Gqa!SizeAssumption, Gqa!TypeOK, NEW t \in Gqa!Tokens, NEW n \in 0 .. QHeads,
             NEW d \in Gqa!Dims
    PROVE  Roped[t][n][d] =
              Gqa!Rotated(Gqa!Full("qkv", Gqa!Id(t), n, d, IF n < QHeads THEN "q" ELSE "k"),
                  Gqa!Pos + t)
<1> DEFINE g == IF n < QHeads THEN "q" ELSE "k"
<1>1. n \in 0 .. Gqa!NumHeads - 1 /\ n < Gqa!RopeHeads /\ d \in Nat
    BY Sizes
<1>2. \A e \in Gqa!Dims : Normed[t][n][e] = Gqa!Full("qkv", Gqa!Id(t), n, e, g)
    BY <1>1, NormedIs, Sizes
<1>3. \A e \in Gqa!Dims : Gqa!Full("qkv", Gqa!Id(t), n, e, g).dim = e
    BY DEF Gqa!Full, Gqa!Raw
<1>4. Roped[t][n][d] = Gqa!RopePartial(Normed[t][n], t, n, d)
    BY <1>1 DEF Roped
<1> HIDE DEF g
<1>5. /\ d < Gqa!Half => d + Gqa!Half \in Gqa!Dims /\ d < RopeDim
      /\ ~(d < Gqa!Half) /\ d < RopeDim => d - Gqa!Half \in Gqa!Dims
      /\ d >= RopeDim <=> ~(d < RopeDim)
    BY <1>1, Sizes
<1> DEFINE x == Gqa!Full("qkv", Gqa!Id(t), n, d, g)
<1>6. Normed[t][n][d] = x /\ x.dim = d
    BY <1>2, <1>3
<1> HIDE DEF x
<1>7. CASE ~(d < RopeDim)
    <2>1. Gqa!RopePartial(Normed[t][n], t, n, d) = x
        BY <1>6, <1>7, Zenon DEF Gqa!RopePartial
    <2>2. Gqa!Rotated(x, Gqa!Pos + t) = x
        BY <1>5, <1>6, <1>7, Zenon DEF Gqa!Rotated
    <2> QED BY <1>4, <2>1, <2>2 DEF x, g
<1>8. CASE d < Gqa!Half
    <2>1. Gqa!RopePartial(Normed[t][n], t, n, d) = Gqa!RotateHalf(Normed[t][n], t, d)
        BY <1>1, <1>5, <1>8, Zenon DEF Gqa!RopePartial
    <2>2. Normed[t][n][d + Gqa!Half].dim = d + Gqa!Half
        BY <1>2, <1>3, <1>5, <1>8, Zenon
    <2>3. Gqa!RotateHalf(Normed[t][n], t, d) =
            [x EXCEPT !.angle = Gqa!Pos + t, !.mate = d + Gqa!Half, !.sign = -1]
        BY <1>6, <1>8, <2>2, Zenon DEF Gqa!RotateHalf
    <2>4. Gqa!Rotated(x, Gqa!Pos + t) = [x EXCEPT !.angle = Gqa!Pos + t, !.mate = d + Gqa!Half,
            !.sign = -1]
        BY <1>5, <1>6, <1>8, Zenon DEF Gqa!Rotated
    <2> QED BY <1>4, <2>1, <2>3, <2>4, Zenon DEF x, g
<1>9. CASE ~(d < Gqa!Half) /\ d < RopeDim
    <2>1. Gqa!RopePartial(Normed[t][n], t, n, d) = Gqa!RotateHalf(Normed[t][n], t, d)
        BY <1>1, <1>9, Zenon DEF Gqa!RopePartial
    <2>2. Normed[t][n][d - Gqa!Half].dim = d - Gqa!Half
        BY <1>2, <1>3, <1>5, <1>9, Zenon
    <2>3. Gqa!RotateHalf(Normed[t][n], t, d) =
            [x EXCEPT !.angle = Gqa!Pos + t, !.mate = d - Gqa!Half, !.sign = 1]
        BY <1>6, <1>9, <2>2, Zenon DEF Gqa!RotateHalf
    <2>4. Gqa!Rotated(x, Gqa!Pos + t) = [x EXCEPT !.angle = Gqa!Pos + t, !.mate = d - Gqa!Half,
            !.sign = 1]
        BY <1>5, <1>6, <1>9, Zenon DEF Gqa!Rotated
    <2> QED BY <1>4, <2>1, <2>3, <2>4, Zenon DEF x, g
<1> QED BY <1>7, <1>8, <1>9

\* The value head is neither normed nor rotated.
LEMMA ValueIs ==
    ASSUME Gqa!SizeAssumption, Gqa!TypeOK, NEW t \in Gqa!Tokens
    PROVE  Roped[t][Gqa!VHead] = Gqa!ValueOf(Gqa!Id(t))
<1>1. Gqa!VHead \in 0 .. Gqa!NumHeads - 1 /\ ~(Gqa!VHead < Gqa!RopeHeads) /\
        ~(Gqa!VHead < QHeads) /\ Gqa!VHead # Gqa!KHead
    BY Sizes
<1>2. \A d \in Gqa!Dims : Normed[t][Gqa!VHead][d] = Gqa!Full("qkv", Gqa!Id(t), Gqa!VHead, d, "none")
    BY <1>1, NormedIs
<1>3. Roped[t][Gqa!VHead] = [d \in Gqa!Dims |-> Gqa!RopePartial(Normed[t][Gqa!VHead], t, Gqa!VHead,
        d)]
    BY <1>1 DEF Roped
<1>4. \A d \in Gqa!Dims : Gqa!RopePartial(Normed[t][Gqa!VHead], t, Gqa!VHead,
        d) = Normed[t][Gqa!VHead][d]
    BY <1>1 DEF Gqa!RopePartial
<1> QED BY <1>2, <1>3, <1>4 DEF Gqa!ValueOf

\* A transposed tile, column by column.
LEMMA Transposed ==
    ASSUME Gqa!SizeAssumption, Gqa!TypeOK, NEW rows, NEW base, NEW n \in Nat,
           NEW h \in 0 .. n - 1, NEW t \in Gqa!Tokens
    PROVE  /\ \A d \in Gqa!Dims :
                Gqa!ToPartition(rows, base, n)[d % PMax][d \div PMax][h * Gqa!T + t] =
                    rows[t][base + h][d]
           /\ \A d \in Gqa!Dims :
                Gqa!Scale(Gqa!ToPartition(rows, base, n))[d % PMax][d \div PMax][h * Gqa!T + t] =
                    Gqa!Scaled(rows[t][base + h][d])
<1>1. Gqa!T \in Nat \ {0} /\ t \in 0 .. Gqa!T - 1
    BY BlockTypes
<1>2. h * Gqa!T + t \in 0 .. n * Gqa!T - 1 /\ (h * Gqa!T + t) \div Gqa!T = h /\
        (h * Gqa!T + t) % Gqa!T = t
    BY <1>1, ColumnParts
<1> SUFFICES ASSUME NEW d \in Gqa!Dims
             PROVE  /\ Gqa!ToPartition(rows, base, n)[d % PMax][d \div PMax][h * Gqa!T + t] =
                            rows[t][base + h][d]
                    /\ Gqa!Scale(Gqa!ToPartition(rows, base,
                         n))[d % PMax][d \div PMax][h * Gqa!T + t] =
                            Gqa!Scaled(rows[t][base + h][d])
    OBVIOUS
<1> DEFINE i == d % PMax
           dt == d \div PMax
           col == h * Gqa!T + t
           m == Gqa!ToPartition(rows, base, n)
<1>3. i \in 0 .. PMax - 1 /\ dt \in 0 .. DTiles - 1 /\ dt * PMax + i = d
    BY DimParts
<1> HIDE DEF i, dt, col
<1>4. m[i][dt][col] = rows[t][base + h][d]
    BY <1>2, <1>3, Zenon DEF Gqa!ToPartition, col
<1>5. i \in DOMAIN m /\ dt \in DOMAIN m[i] /\ col \in DOMAIN m[i][dt]
    BY <1>2, <1>3, Zenon DEF Gqa!ToPartition, col
<1> HIDE DEF m
<1>6. Gqa!Scale(m)[i][dt][col] = Gqa!Scaled(m[i][dt][col])
    BY <1>5, Zenon DEF Gqa!Scale
<1> QED BY <1>4, <1>6 DEF i, dt, col, m

\* What a core holds once it has prepared.
LEMMA Prepared ==
    ASSUME Gqa!SizeAssumption, Gqa!TypeOK, NEW m,
           m = [q |-> Gqa!Scale(Gqa!ToPartition(Roped, 0, QHeads)),
                k |-> Gqa!ToPartition(Roped, Gqa!KHead, 1),
                v |-> [t \in Gqa!Tokens |-> Roped[t][Gqa!VHead]],
                gate |-> Gqa!ToPartition(Projected(Gqa!Core).gate, 0, QHeads)]
    PROVE  Ready(m)
<1>1. /\ m.q = Gqa!Scale(Gqa!ToPartition(Roped, 0, QHeads))
      /\ m.k = Gqa!ToPartition(Roped, Gqa!KHead, 1)
      /\ m.v = [t \in Gqa!Tokens |-> Roped[t][Gqa!VHead]]
      /\ m.gate = Gqa!ToPartition(Projected(Gqa!Core).gate, 0, QHeads)
    OBVIOUS
<1>2. ASSUME NEW t \in Gqa!Tokens, NEW h \in 0 .. QHeads - 1
      PROVE  Gqa!Column(m.q, h * Gqa!T + t) = Gqa!QueryOf(Gqa!Id(t), h)
    <2>1. h \in 0 .. QHeads /\ h < QHeads /\ QHeads \in Nat /\ 0 + h = h
        BY Sizes
    <2>2. \A d \in Gqa!Dims : m.q[d % PMax][d \div PMax][h * Gqa!T + t] = Gqa!Scaled(Roped[t][h][d])
        BY <1>1, <2>1, Transposed
    <2>3. \A d \in Gqa!Dims : Roped[t][h][d] = Gqa!Rotated(Gqa!Full("qkv", Gqa!Id(t), h, d, "q"),
            Gqa!Pos + t)
        BY <2>1, RopedIs
    <2>4. Gqa!Id(t)[1] = Gqa!Pos + t
        BY DEF Gqa!Id
    <2> QED BY <2>2, <2>3, <2>4, Zenon DEF Gqa!Column, Gqa!QueryOf
<1>3. ASSUME NEW t \in Gqa!Tokens
      PROVE  Gqa!Column(m.k, t) = Gqa!KeyOf(Gqa!Id(t)) /\ m.v[t] = Gqa!ValueOf(Gqa!Id(t))
    <2>1. Gqa!KHead \in 0 .. QHeads /\ ~(Gqa!KHead < QHeads) /\ Gqa!KHead + 0 = Gqa!KHead /\
            0 * Gqa!T + t = t
        <3>1. Gqa!KHead \in 0 .. QHeads /\ ~(Gqa!KHead < QHeads) /\ Gqa!KHead + 0 = Gqa!KHead
            BY Sizes
        <3>2. \A a, b \in Nat : 0 * a + b = b
            BY SMT
        <3>3. Gqa!T \in Nat /\ t \in Nat
            BY BlockTypes
        <3> QED BY <3>1, <3>2, <3>3, Zenon
    <2>2. \A d \in Gqa!Dims : m.k[d % PMax][d \div PMax][0 * Gqa!T + t] = Roped[t][Gqa!KHead + 0][d]
        <3>1. 1 \in Nat /\ 0 \in 0 .. 1 - 1
            OBVIOUS
        <3> QED BY <1>1, <3>1, Transposed
    <2>3. \A d \in Gqa!Dims : Roped[t][Gqa!KHead][d] = Gqa!Rotated(Gqa!Full("qkv", Gqa!Id(t),
            Gqa!KHead, d, "k"), Gqa!Pos + t)
        BY <2>1, RopedIs
    <2>4. Gqa!Id(t)[1] = Gqa!Pos + t
        BY DEF Gqa!Id
    <2>5. Gqa!Column(m.k, t) = Gqa!KeyOf(Gqa!Id(t))
        BY <2>1, <2>2, <2>3, <2>4, Zenon DEF Gqa!Column, Gqa!KeyOf
    <2> QED BY <1>1, <2>5, ValueIs
<1>4. ASSUME NEW t \in Gqa!Tokens, NEW h \in 0 .. QHeads - 1, NEW d \in Gqa!Dims
      PROVE  m.gate[d % PMax][d \div PMax][h * Gqa!T + t] = Gqa!GateOf(Gqa!Id(t), h, d)
    <2>1. QHeads \in Nat /\ 0 + h = h
        BY Sizes
    <2>2. m.gate[d % PMax][d \div PMax][h * Gqa!T + t] = Projected(Gqa!Core).gate[t][h][d]
        BY <1>1, <2>1, Transposed
    <2>3. Projected(Gqa!Core).gate[t][h][d] = Gqa!Raw("gate", Gqa!Id(t), h, d, Gqa!Core)
        BY DEF Projected
    <2> QED BY <2>2, <2>3, RawIsOwn DEF Gqa!GateOf, Gqa!Full
<1> QED BY <1>2, <1>3, <1>4, Zenon DEF Ready

(***************************************************************************)
(* What a step that keeps the request and the block keeps.                  *)
(***************************************************************************)
\* The tokens, the mask and what the layer should compute from them.
LEMMA SameTokens ==
    ASSUME hist' = hist, attnBlock' = attnBlock
    PROVE  /\ Gqa!T' = Gqa!T /\ Gqa!Pos' = Gqa!Pos /\ Gqa!Tokens' = Gqa!Tokens /\
                BlockLine' = BlockLine
           /\ \A t : Gqa!Id(t)' = Gqa!Id(t)
           /\ \A j : Gqa!OwnToken(j)' = Gqa!OwnToken(j)
           /\ \A j : TokenAt(j)' = TokenAt(j)
           /\ \A j, t : Gqa!Mask(j, t)' = Gqa!Mask(j, t)
BY DEF Gqa!T, Gqa!Pos, Gqa!Tokens, BlockLine, Gqa!Id, Gqa!OwnToken, TokenAt, Gqa!Mask, Gqa!Prior

\* The projections and the answers.
LEMMA SameAnswers ==
    ASSUME hist' = hist, attnBlock' = attnBlock, NEW S
    PROVE  Projected(S)' = Projected(S) /\ Answers(S)' = Answers(S)
<1>1. Projected(S)' = Projected(S)
    BY Zenon DEF Projected, Gqa!Id, Gqa!Tokens, Gqa!T, Gqa!Pos
<1>2. Answers(S)' = Answers(S)
    BY Zenon DEF Answers, Kept, Gqa!Mask, Gqa!Prior, TokenAt, Gqa!OwnToken, Gqa!Id, Gqa!T, Gqa!Pos,
         BlockLine
<1> QED BY <1>1, <1>2

(***************************************************************************)
(* The attention.                                                           *)
(***************************************************************************)
\* A line a query keeps is a slot of the request or a token of the block up to
\* the query's own.
LEMMA KeptLines ==
    ASSUME Gqa!SizeAssumption, Gqa!TypeOK, NEW t \in Gqa!Tokens, NEW j \in Gqa!Slots
    PROVE  /\ j \in Nat
           /\ j < BlockLine => (Gqa!Mask(j, t) <=> j \in 0 .. Gqa!Pos - 1)
           /\ ~(j < BlockLine) =>
                j - BlockLine \in Gqa!Tokens /\ (Gqa!Mask(j, t) <=> j - BlockLine \in 0 .. t)
<1>1. /\ Gqa!Pos \in Nat /\ Gqa!T \in Nat /\ Gqa!Tokens = 0 .. Gqa!T - 1 /\ BlockLine \in Nat /\
           Gqa!Pos <= BlockLine
      /\ BlockLine + Gqa!T = SeqLen /\ Gqa!Slots = 0 .. SeqLen - 1 /\ BlockLine = SeqLen - Gqa!T
      /\ SeqLen \in Nat
    BY BlockTypes DEF BlockLine
<1>2. /\ j < BlockLine => (Gqa!Mask(j, t) <=> j < Gqa!Pos)
      /\ ~(j < BlockLine) => (Gqa!Mask(j, t) <=> t >= j - BlockLine)
    BY Zenon DEF Gqa!Mask, Gqa!Prior, BlockLine
<1> HIDE DEF BlockLine
<1> QED BY <1>1, <1>2

\* What such a line holds is the key and the value of its token.
LEMMA LineHolds ==
    ASSUME Gqa!SizeAssumption, Gqa!TypeOK, OwnSlots, NEW c \in Gqa!Core, Ready(sb[c]),
           NEW t \in Gqa!Tokens, NEW j \in Gqa!Slots, Gqa!Mask(j, t)
    PROVE  Gqa!KeyLine(c, j) = Gqa!KeyOf(TokenAt(j)) /\ Gqa!ValueLine(c,
             j) = Gqa!ValueOf(TokenAt(j))
<1>1. CASE j < BlockLine
    <2>1. j \in 0 .. Gqa!Pos - 1
        BY <1>1, KeptLines
    <2>2. kc[j] = Gqa!KeyOf(Gqa!OwnToken(j)) /\ vc[j] = Gqa!ValueOf(Gqa!OwnToken(j))
        BY <2>1 DEF OwnSlots
    <2> QED BY <1>1, <2>2, Zenon DEF Gqa!KeyLine, Gqa!ValueLine, TokenAt, BlockLine
<1>2. CASE ~(j < BlockLine)
    <2>1. j - BlockLine \in Gqa!Tokens
        BY <1>2, KeptLines
    <2>2. /\ Gqa!Column(sb[c].k, j - BlockLine) = Gqa!KeyOf(Gqa!Id(j - BlockLine))
          /\ sb[c].v[j - BlockLine] = Gqa!ValueOf(Gqa!Id(j - BlockLine))
        BY <2>1 DEF Ready
    <2> QED BY <1>2, <2>2, Zenon DEF Gqa!KeyLine, Gqa!ValueLine, TokenAt, BlockLine
<1> QED BY <1>1, <1>2

\* A column of the queries is of one head and one token.
LEMMA QueryColumn ==
    ASSUME Gqa!SizeAssumption, Gqa!TypeOK, NEW col \in 0 .. QHeads * Gqa!T - 1
    PROVE  /\ col % Gqa!T \in Gqa!Tokens /\ col \div Gqa!T \in 0 .. QHeads - 1
           /\ col = (col \div Gqa!T) * Gqa!T + (col % Gqa!T)
<1>1. Gqa!T \in Nat /\ Gqa!Tokens = 0 .. Gqa!T - 1 /\ QHeads \in Nat
    BY BlockTypes, Sizes
<1>2. Gqa!T # 0
    <2>1. \A a \in Nat : a * 0 = 0
        BY SMT
    <2>2. Gqa!T = 0 => col \in 0 .. 0 - 1
        BY <1>1, <2>1
    <2> QED BY <2>2
<1>3. Gqa!T \in Nat \ {0}
    BY <1>1, <1>2
<1> QED BY <1>1, <1>3, ColumnOf

\* A core's half of the attention is over the lines it sees.
LEMMA AttentionIs ==
    ASSUME Gqa!SizeAssumption, Gqa!TypeOK, OwnSlots, NEW c \in Gqa!Core, Ready(sb[c])
    PROVE  [col \in 0 .. QHeads * Gqa!T - 1 |-> Gqa!Attention(c, col)] = Answers(Gqa!Lines(c))
<1> SUFFICES ASSUME NEW col \in 0 .. QHeads * Gqa!T - 1
             PROVE  Gqa!Attention(c, col) = Answers(Gqa!Lines(c))[col]
    BY Zenon DEF Answers
<1> DEFINE t == col % Gqa!T
           h == col \div Gqa!T
<1>1. t \in Gqa!Tokens /\ h \in 0 .. QHeads - 1 /\ col = h * Gqa!T + t
    BY QueryColumn
<1>2. Answers(Gqa!Lines(c))[col] =
        [query |-> Gqa!QueryOf(Gqa!Id(t), h),
         keys |-> {<<j, Gqa!KeyOf(TokenAt(j))>> : j \in Kept(Gqa!Lines(c), t)},
         vals |-> {<<j, Gqa!ValueOf(TokenAt(j))>> : j \in Kept(Gqa!Lines(c), t)}]
    BY Zenon DEF Answers
<1>3. Gqa!Attention(c, col) =
        [query |-> Gqa!Column(sb[c].q, col),
         keys |-> {<<j, Gqa!KeyLine(c, j)>> : j \in Kept(Gqa!Lines(c), t)},
         vals |-> {<<j, Gqa!ValueLine(c, j)>> : j \in Kept(Gqa!Lines(c), t)}]
    BY Zenon DEF Gqa!Attention, Kept
<1> HIDE DEF t, h
<1>4. Gqa!Column(sb[c].q, col) = Gqa!QueryOf(Gqa!Id(t), h)
    BY <1>1 DEF Ready
<1>5. \A j \in Kept(Gqa!Lines(c), t) :
        Gqa!KeyLine(c, j) = Gqa!KeyOf(TokenAt(j)) /\ Gqa!ValueLine(c, j) = Gqa!ValueOf(TokenAt(j))
    BY <1>1, LineHolds DEF Kept, Gqa!Lines
<1>6. /\ {<<j, Gqa!KeyLine(c, j)>> : j \in Kept(Gqa!Lines(c), t)} =
            {<<j, Gqa!KeyOf(TokenAt(j))>> : j \in Kept(Gqa!Lines(c), t)}
      /\ {<<j, Gqa!ValueLine(c, j)>> : j \in Kept(Gqa!Lines(c), t)} =
            {<<j, Gqa!ValueOf(TokenAt(j))>> : j \in Kept(Gqa!Lines(c), t)}
    BY <1>5, Zenon
<1> QED BY <1>2, <1>3, <1>4, <1>6, Zenon

\* The lines of the two cores are all of them.
LEMMA AllLines ==
    ASSUME Gqa!SizeAssumption, NEW t
    PROVE  UNION {Kept(Gqa!Lines(x), t) : x \in Gqa!Core} = Kept(Gqa!Slots, t)
<1>1. SeqLen \in Nat /\ SeqLen \div 2 \in Nat \ {0} /\ SeqLen = (SeqLen \div 2) * 2
    BY SMT DEF Gqa!SizeAssumption
<1>2. ASSUME NEW j \in Gqa!Slots PROVE j \div (SeqLen \div 2) \in Gqa!Core
    <2>1. PICK n \in Nat \ {0} : n = SeqLen \div 2 /\ SeqLen = 2 * n
        BY <1>1
    <2>2. j \in Nat /\ j < 2 * n
        BY <1>1, <2>1 DEF Gqa!Slots
    <2>3. j \div n \in 0 .. 2 - 1
        BY <2>2, DivModIs, DivLess
    <2> QED BY <2>1, <2>3 DEF Gqa!Core
<1> QED BY <1>2 DEF Kept, Gqa!Lines

\* Together they give the whole.
LEMMA MergeIs ==
    ASSUME Gqa!SizeAssumption, Gqa!TypeOK, NEW c \in Gqa!Core,
             \A x \in Gqa!Core : att[x] = Answers(Gqa!Lines(x))
    PROVE  [col \in DOMAIN att[c] |->
                [query |-> att[c][col].query,
                 keys |-> UNION {att[x][col].keys : x \in Gqa!Core},
                 vals |-> UNION {att[x][col].vals : x \in Gqa!Core}]] = Answers(Gqa!Slots)
<1>1. DOMAIN att[c] = 0 .. QHeads * Gqa!T - 1
    BY Zenon DEF Answers
<1> SUFFICES ASSUME NEW col \in 0 .. QHeads * Gqa!T - 1
             PROVE  [query |-> att[c][col].query,
                     keys |-> UNION {att[x][col].keys : x \in Gqa!Core},
                     vals |-> UNION {att[x][col].vals : x \in Gqa!Core}] = Answers(Gqa!Slots)[col]
    BY <1>1, Zenon DEF Answers
<1> DEFINE t == col % Gqa!T
           h == col \div Gqa!T
           keys(S) == {<<j, Gqa!KeyOf(TokenAt(j))>> : j \in Kept(S, t)}
           vals(S) == {<<j, Gqa!ValueOf(TokenAt(j))>> : j \in Kept(S, t)}
<1>2. \A S : Answers(S)[col] = [query |-> Gqa!QueryOf(Gqa!Id(t), h), keys |-> keys(S),
        vals |-> vals(S)]
    BY Zenon DEF Answers
<1>3. \A j : j \in Kept(Gqa!Slots, t) <=> \E x \in Gqa!Core : j \in Kept(Gqa!Lines(x), t)
    <2>1. UNION {Kept(Gqa!Lines(x), t) : x \in Gqa!Core} = Kept(Gqa!Slots, t)
        BY AllLines
    <2> HIDE DEF t
    <2> QED BY <2>1
<1>4. /\ UNION {keys(Gqa!Lines(x)) : x \in Gqa!Core} = keys(Gqa!Slots)
      /\ UNION {vals(Gqa!Lines(x)) : x \in Gqa!Core} = vals(Gqa!Slots)
    BY <1>3
<1> HIDE DEF t, h, keys, vals
<1>5. ASSUME NEW x \in Gqa!Core
      PROVE  /\ att[x][col].query = Gqa!QueryOf(Gqa!Id(t), h)
             /\ att[x][col].keys = keys(Gqa!Lines(x)) /\ att[x][col].vals = vals(Gqa!Lines(x))
    <2>1. att[x][col] =
            [query |-> Gqa!QueryOf(Gqa!Id(t), h), keys |-> keys(Gqa!Lines(x)),
                vals |-> vals(Gqa!Lines(x))]
        BY <1>2
    <2> QED BY <2>1
<1>6. {att[x][col].keys : x \in Gqa!Core} = {keys(Gqa!Lines(x)) : x \in Gqa!Core}
    BY <1>5, Zenon
<1>7. {att[x][col].vals : x \in Gqa!Core} = {vals(Gqa!Lines(x)) : x \in Gqa!Core}
    BY <1>5, Zenon
<1> QED BY <1>2, <1>4, <1>5, <1>6, <1>7, Zenon

(***************************************************************************)
(* The steps.                                                               *)
(***************************************************************************)
\* Where a core can be.
Places == {"idle", "project", "sum", "prepare", "attend", "merge", "write", "output", "done"}

\* A core's part of the invariant outlives a step that keeps the request, the
\* block and what the core holds.
LEMMA ReadyStays ==
    ASSUME hist' = hist, attnBlock' = attnBlock, NEW x \in Gqa!Core, sb'[x] = sb[x]
    PROVE  Ready(sb[x])' = Ready(sb[x])
BY SameTokens, Zenon DEF Ready, Gqa!Column

\* Likewise.
LEMMA OtherCore ==
    ASSUME hist' = hist, attnBlock' = attnBlock, NEW x \in Gqa!Core, CoreInv(x), pc'[x] = pc[x],
           tile'[x] = tile[x], sb'[x] = sb[x], att'[x] = att[x], out'[x] = out[x]
    PROVE  CoreInv(x)'
<1>1. \A S : Projected(S)' = Projected(S) /\ Answers(S)' = Answers(S)
    BY SameAnswers
<1>2. Ready(sb[x])' = Ready(sb[x])
    BY ReadyStays
<1>3. RowsMet(x)' = RowsMet(x)
    BY SameTokens, Zenon DEF RowsMet
<1>4. pc[x]' = pc[x] /\ tile[x]' = tile[x] /\ att[x]' = att[x]
    OBVIOUS
<1> QED BY <1>1, <1>2, <1>3, <1>4, Zenon DEF CoreInv

\* A step that keeps the caches, and takes no core past its write, has only to
\* keep the cores' parts.
LEMMA KeepsCaches ==
    ASSUME AttnInv, UNCHANGED <<hist, kc, vc, attnBlock, way>>, pc' \in [Gqa!Core -> Places],
           \A x \in Gqa!Core : pc'[x] \in {"output", "done"} => pc[x] \in {"output", "done"},
           HeldByCores', \A x \in Gqa!Core : CoreInv(x)'
    PROVE  AttnInv'
<1>1. Gqa!TypeOK'
    BY DEF AttnInv, Gqa!TypeOK, Places, Gqa!Pos, Gqa!T
<1>2. OwnSlots'
    BY SameTokens, Zenon DEF AttnInv, OwnSlots
<1>3. BlockWritten'
    <2>1. 0 \in Gqa!Core /\ 1 \in Gqa!Core
        BY DEF Gqa!Core
    <2> QED BY <2>1, SameTokens, Zenon DEF AttnInv, BlockWritten
<1> QED BY <1>1, <1>2, <1>3 DEF AttnInv

\* One core goes on.
LEMMA GoesOn ==
    ASSUME AttnInv, NEW c \in Gqa!Core, NEW here, NEW there \in Places, Gqa!At(c, here, there)
    PROVE  /\ pc[c] = here /\ pc'[c] = there /\ pc' \in [Gqa!Core -> Places]
           /\ \A x \in Gqa!Core : x # c => pc'[x] = pc[x]
           /\ \A x \in Gqa!Core : CoreInv(x)
BY DEF AttnInv, Gqa!TypeOK, Gqa!At, Places

\* Both go on.
LEMMA BothGoOn ==
    ASSUME AttnInv, NEW here, NEW there \in Places, Gqa!Both(here, there)
    PROVE  /\ pc' \in [Gqa!Core -> Places]
           /\ \A x \in Gqa!Core : pc[x] = here /\ pc'[x] = there /\ CoreInv(x)
BY DEF AttnInv, Gqa!TypeOK, Gqa!Both, Places

\* A step of core c that keeps the caches.
LEMMA OneCoreStep ==
    ASSUME AttnInv, UNCHANGED <<hist, kc, vc, attnBlock, way>>, NEW c \in Gqa!Core,
           NEW here, NEW there \in Places \ {"output"}, Gqa!At(c, here, there),
           there = "done" => here = "output",
           HeldByCores', CoreInv(c)',
           \A x \in Gqa!Core : x # c =>
                tile'[x] = tile[x] /\ sb'[x] = sb[x] /\ att'[x] = att[x] /\ out'[x] = out[x]
    PROVE  AttnInv'
<1>1. /\ pc[c] = here /\ pc'[c] = there /\ pc' \in [Gqa!Core -> Places]
      /\ \A x \in Gqa!Core : x # c => pc'[x] = pc[x]
      /\ \A x \in Gqa!Core : CoreInv(x)
    BY GoesOn
<1>2. \A x \in Gqa!Core : x # c => CoreInv(x)'
    BY <1>1, OtherCore
<1>3. \A x \in Gqa!Core : pc'[x] \in {"output", "done"} => pc[x] \in {"output", "done"}
    BY <1>1
<1> QED BY <1>1, <1>2, <1>3, KeepsCaches

\* A core's projections are over its own half.
LEMMA ProjectStep ==
    ASSUME Gqa!SizeAssumption, AttnInv, NEW c \in Gqa!Core, Gqa!Project(c)
    PROVE  AttnInv'
<1>1. /\ UNCHANGED <<hist, kc, vc, attnBlock, way>> /\ Gqa!At(c, "project", "sum")
      /\ sb' = sb /\ att' = att /\ out' = out
    BY DEF Gqa!Project
<1>2. tile' = [tile EXCEPT ![c] = Projected({c})]
    BY Zenon DEF Gqa!Project, Projected
<1>3. /\ HeldByCores' /\ tile'[c] = Projected({c})
      /\ \A x \in Gqa!Core : x # c => tile'[x] = tile[x]
    BY <1>1, <1>2 DEF AttnInv, HeldByCores
<1>4. pc'[c] = "sum"
    BY <1>1, GoesOn DEF Places
<1>5. CoreInv(c)'
    BY <1>1, <1>3, <1>4, SameAnswers DEF CoreInv
<1> QED BY <1>1, <1>3, <1>5, OneCoreStep DEF Places

\* The two halves of the hidden dimension sum to the projection.
LEMMA SumIs ==
    ASSUME NEW c \in Gqa!Core
    PROVE  /\ Gqa!SumOf(Projected({c}).qkv, Projected({1 - c}).qkv) = Projected(Gqa!Core).qkv
           /\ Gqa!SumOf(Projected({c}).gate, Projected({1 - c}).gate) = Projected(Gqa!Core).gate
<1>1. {c} \cup {1 - c} = Gqa!Core
    BY DEF Gqa!Core
<1>2. ASSUME NEW w, NEW tok, NEW n, NEW d
      PROVE  [Gqa!Raw(w, tok, n, d, {c}) EXCEPT !.halves = @ \cup Gqa!Raw(w, tok, n, d,
               {1 - c}).halves]
                = Gqa!Raw(w, tok, n, d, Gqa!Core)
    <2> DEFINE f == Gqa!Raw(w, tok, n, d, {c})
               g == Gqa!Raw(w, tok, n, d, Gqa!Core)
    <2>1. ASSUME NEW p, NEW q, NEW S, NEW a \in S, NEW v, p = [x \in S |-> p[x]],
                 q = [x \in S |-> q[x]], q[a] = v, \A x \in S : x # a => p[x] = q[x]
          PROVE  [p EXCEPT ![a] = v] = q
        BY <2>1
    <2> DEFINE S == {"of", "tok", "head", "dim", "halves", "gamma", "angle", "mate", "sign",
                     "scaled"}
    <2>2. f = [x \in S |-> f[x]] /\ g = [x \in S |-> g[x]]
        BY Zenon DEF Gqa!Raw
    <2>3. \A x \in S : x # "halves" => f[x] = g[x]
        <3>1. /\ f["of"] = g["of"] /\ f["tok"] = g["tok"] /\ f["head"] = g["head"]
              /\ f["dim"] = g["dim"] /\ f["gamma"] = g["gamma"] /\ f["angle"] = g["angle"]
              /\ f["mate"] = g["mate"] /\ f["sign"] = g["sign"] /\ f["scaled"] = g["scaled"]
            BY DEF Gqa!Raw
        <3> HIDE DEF f, g
        <3> QED BY <3>1
    <2> DEFINE v == f.halves \cup Gqa!Raw(w, tok, n, d, {1 - c}).halves
    <2>4. v = g["halves"]
        BY <1>1 DEF Gqa!Raw
    <2>5. "halves" \in S
        OBVIOUS
    <2> HIDE DEF f, g, S, v
    <2>6. [f EXCEPT !["halves"] = v] = g
        BY <2>1, <2>2, <2>3, <2>4, <2>5
    <2> QED BY <2>6, Zenon DEF f, g, v
<1> DEFINE P(S) == Projected(S).qkv
           G(S) == Projected(S).gate
<1>3. \A S : /\ P(S) = [t \in Gqa!Tokens |-> [n \in 0 .. Gqa!NumHeads - 1 |-> [d \in Gqa!Dims |->
                            Gqa!Raw("qkv", Gqa!Id(t), n, d, S)]]]
             /\ G(S) = [t \in Gqa!Tokens |-> [n \in 0 .. QHeads - 1 |-> [d \in Gqa!Dims |->
                            Gqa!Raw("gate", Gqa!Id(t), n, d, S)]]]
    BY Zenon DEF Projected
<1> HIDE DEF P, G
<1>4. Gqa!SumOf(P({c}), P({1 - c})) =
        [t \in Gqa!Tokens |-> [n \in 0 .. Gqa!NumHeads - 1 |-> [d \in Gqa!Dims |->
            [Gqa!Raw("qkv", Gqa!Id(t), n, d, {c}) EXCEPT
                !.halves = @ \cup Gqa!Raw("qkv", Gqa!Id(t), n, d, {1 - c}).halves]]]]
    BY <1>3, Zenon DEF Gqa!SumOf
<1>5. Gqa!SumOf(G({c}), G({1 - c})) =
        [t \in Gqa!Tokens |-> [n \in 0 .. QHeads - 1 |-> [d \in Gqa!Dims |->
            [Gqa!Raw("gate", Gqa!Id(t), n, d, {c}) EXCEPT
                !.halves = @ \cup Gqa!Raw("gate", Gqa!Id(t), n, d, {1 - c}).halves]]]]
    BY <1>3, Zenon DEF Gqa!SumOf
<1>6. Gqa!SumOf(P({c}), P({1 - c})) = P(Gqa!Core)
    <2> DEFINE e(t, n, d) == [Gqa!Raw("qkv", Gqa!Id(t), n, d, {c}) EXCEPT
                                !.halves = @ \cup Gqa!Raw("qkv", Gqa!Id(t), n, d, {1 - c}).halves]
    <2>1. \A t, n, d : e(t, n, d) = Gqa!Raw("qkv", Gqa!Id(t), n, d, Gqa!Core)
        BY <1>2
    <2> HIDE DEF e
    <2>2. \A t, n : [d \in Gqa!Dims |-> e(t, n, d)] = [d \in Gqa!Dims |-> Gqa!Raw("qkv", Gqa!Id(t),
            n, d, Gqa!Core)]
        BY <2>1, Zenon
    <2>3. \A t : [n \in 0 .. Gqa!NumHeads - 1 |-> [d \in Gqa!Dims |-> e(t, n, d)]] =
                [n \in 0 .. Gqa!NumHeads - 1 |-> [d \in Gqa!Dims |-> Gqa!Raw("qkv", Gqa!Id(t), n,
                    d, Gqa!Core)]]
        BY <2>2, Zenon
    <2>4. [t \in Gqa!Tokens |-> [n \in 0 .. Gqa!NumHeads - 1 |-> [d \in Gqa!Dims |-> e(t, n,
            d)]]] = P(Gqa!Core)
        BY <1>3, <2>3, Zenon
    <2> QED BY <1>4, <2>4, Zenon DEF e
<1>7. Gqa!SumOf(G({c}), G({1 - c})) = G(Gqa!Core)
    <2> DEFINE e(t, n, d) == [Gqa!Raw("gate", Gqa!Id(t), n, d, {c}) EXCEPT
                                !.halves = @ \cup Gqa!Raw("gate", Gqa!Id(t), n, d, {1 - c}).halves]
    <2>1. \A t, n, d : e(t, n, d) = Gqa!Raw("gate", Gqa!Id(t), n, d, Gqa!Core)
        BY <1>2
    <2> HIDE DEF e
    <2>2. \A t, n : [d \in Gqa!Dims |-> e(t, n, d)] = [d \in Gqa!Dims |-> Gqa!Raw("gate",
            Gqa!Id(t), n, d, Gqa!Core)]
        BY <2>1, Zenon
    <2>3. \A t : [n \in 0 .. QHeads - 1 |-> [d \in Gqa!Dims |-> e(t, n, d)]] =
                [n \in 0 .. QHeads - 1 |-> [d \in Gqa!Dims |-> Gqa!Raw("gate", Gqa!Id(t), n, d,
                    Gqa!Core)]]
        BY <2>2, Zenon
    <2>4. [t \in Gqa!Tokens |-> [n \in 0 .. QHeads - 1 |-> [d \in Gqa!Dims |-> e(t, n,
            d)]]] = G(Gqa!Core)
        BY <1>3, <2>3, Zenon
    <2> QED BY <1>5, <2>4, Zenon DEF e
<1> QED BY <1>6, <1>7 DEF P, G

\* The cores meet and both hold the sums.
LEMMA SumStep ==
    ASSUME Gqa!SizeAssumption, AttnInv, Gqa!Sum
    PROVE  AttnInv'
<1>1. /\ UNCHANGED <<hist, kc, vc, attnBlock, way>> /\ Gqa!Both("sum", "prepare")
      /\ sb' = sb /\ att' = att /\ out' = out
    BY DEF Gqa!Sum
<1>2. /\ pc' \in [Gqa!Core -> Places]
      /\ \A x \in Gqa!Core : pc[x] = "sum" /\ pc'[x] = "prepare" /\ CoreInv(x)
    BY <1>1, BothGoOn DEF Places
<1>3. \A x \in Gqa!Core : tile[x] = Projected({x})
    BY <1>2 DEF CoreInv
<1>4. ASSUME NEW c \in Gqa!Core PROVE tile'[c] = Projected(Gqa!Core)
    <2>1. 1 - c \in Gqa!Core
        BY DEF Gqa!Core
    <2>2. tile'[c] = [qkv |-> Gqa!SumOf(Projected({c}).qkv, Projected({1 - c}).qkv),
                      gate |-> Gqa!SumOf(Projected({c}).gate, Projected({1 - c}).gate)]
        BY <1>3, <2>1 DEF Gqa!Sum
    <2>3. tile'[c] = [qkv |-> Projected(Gqa!Core).qkv, gate |-> Projected(Gqa!Core).gate]
        BY <2>2, SumIs
    <2> QED BY <2>3, Zenon DEF Projected
<1>5. HeldByCores'
    BY <1>1 DEF Gqa!Sum, AttnInv, HeldByCores
<1>6. \A x \in Gqa!Core : CoreInv(x)'
    BY <1>1, <1>2, <1>4, SameAnswers DEF CoreInv
<1> QED BY <1>1, <1>2, <1>5, <1>6, KeepsCaches

\* A core norms, rotates and transposes its copy.
LEMMA PrepareStep ==
    ASSUME Gqa!SizeAssumption, AttnInv, NEW c \in Gqa!Core, Gqa!Prepare(c)
    PROVE  AttnInv'
<1>1. /\ UNCHANGED <<hist, kc, vc, attnBlock, way>> /\ Gqa!At(c, "prepare", "attend")
      /\ tile' = tile /\ att' = att /\ out' = out
    BY DEF Gqa!Prepare
<1>2. pc[c] = "prepare" /\ pc'[c] = "attend" /\ CoreInv(c) /\ Gqa!TypeOK
    BY <1>1, GoesOn DEF Places, AttnInv
<1>3. tile[c] = Projected(Gqa!Core)
    BY <1>2 DEF CoreInv
<1>4. [t \in Gqa!Tokens |-> [n \in 0 .. Gqa!NumHeads - 1 |-> [d \in Gqa!Dims |->
            Gqa!QkNorm(tile[c].qkv[t][n][d], n)]]] = Normed
    <2> DEFINE e(t, n, d) == Gqa!QkNorm(tile[c].qkv[t][n][d], n)
               f(t, n, d) == Gqa!QkNorm(Gqa!Raw("qkv", Gqa!Id(t), n, d, Gqa!Core), n)
    <2>1. \A t \in Gqa!Tokens, n \in 0 .. Gqa!NumHeads - 1, d \in Gqa!Dims : e(t, n, d) = f(t, n, d)
        BY <1>3 DEF Projected
    <2> HIDE DEF e, f
    <2>2. \A t \in Gqa!Tokens, n \in 0 .. Gqa!NumHeads - 1 :
            [d \in Gqa!Dims |-> e(t, n, d)] = [d \in Gqa!Dims |-> f(t, n, d)]
        BY <2>1, Zenon
    <2>3. \A t \in Gqa!Tokens :
            [n \in 0 .. Gqa!NumHeads - 1 |-> [d \in Gqa!Dims |-> e(t, n, d)]] =
                [n \in 0 .. Gqa!NumHeads - 1 |-> [d \in Gqa!Dims |-> f(t, n, d)]]
        BY <2>2, Zenon
    <2>4. [t \in Gqa!Tokens |-> [n \in 0 .. Gqa!NumHeads - 1 |-> [d \in Gqa!Dims |-> e(t, n, d)]]] =
            [t \in Gqa!Tokens |-> [n \in 0 .. Gqa!NumHeads - 1 |-> [d \in Gqa!Dims |-> f(t, n, d)]]]
        BY <2>3, Zenon
    <2> QED BY <2>4, Zenon DEF e, f, Normed
<1> DEFINE m == [q |-> Gqa!Scale(Gqa!ToPartition(Roped, 0, QHeads)),
                 k |-> Gqa!ToPartition(Roped, Gqa!KHead, 1),
                 v |-> [t \in Gqa!Tokens |-> Roped[t][Gqa!VHead]],
                 gate |-> Gqa!ToPartition(Projected(Gqa!Core).gate, 0, QHeads)]
<1>5. sb' = [sb EXCEPT ![c] = m]
    <2> DEFINE N == [t \in Gqa!Tokens |-> [n \in 0 .. Gqa!NumHeads - 1 |-> [d \in Gqa!Dims |->
                        Gqa!QkNorm(tile[c].qkv[t][n][d], n)]]]
               R(x) == [t \in Gqa!Tokens |-> [n \in 0 .. Gqa!NumHeads - 1 |-> [d \in Gqa!Dims |->
                        Gqa!RopePartial(x[t][n], t, n, d)]]]
               M(r, g) == [q |-> Gqa!Scale(Gqa!ToPartition(r, 0, QHeads)),
                           k |-> Gqa!ToPartition(r, Gqa!KHead, 1),
                           v |-> [t \in Gqa!Tokens |-> r[t][Gqa!VHead]],
                           gate |-> Gqa!ToPartition(g, 0, QHeads)]
    <2>1. sb' = [sb EXCEPT ![c] = M(R(N), tile[c].gate)]
        BY Zenon DEF Gqa!Prepare
    <2>2. R(Normed) = Roped
        BY Zenon DEF Roped
    <2>3. m = M(Roped, Projected(Gqa!Core).gate)
        OBVIOUS
    <2>4. N = Normed
        BY <1>4
    <2> HIDE DEF N, R, M, m
    <2> QED BY <1>3, <2>1, <2>2, <2>3, <2>4, Zenon
<1>6. Ready(m)
    BY <1>2, Prepared
<1> HIDE DEF m
<1>7. HeldByCores' /\ sb'[c] = m /\ \A x \in Gqa!Core : x # c => sb'[x] = sb[x]
    BY <1>1, <1>5 DEF AttnInv, HeldByCores
<1>8. Ready(sb[c])'
    BY <1>1, <1>6, <1>7, SameTokens DEF Ready, Gqa!Column
<1>9. CoreInv(c)'
    BY <1>2, <1>8, Zenon DEF CoreInv
<1> QED BY <1>1, <1>7, <1>9, OneCoreStep DEF Places

\* A core attends over its half of the lines.
LEMMA AttendStep ==
    ASSUME Gqa!SizeAssumption, AttnInv, NEW c \in Gqa!Core, Gqa!Attend(c)
    PROVE  AttnInv'
<1>1. /\ UNCHANGED <<hist, kc, vc, attnBlock, way>> /\ Gqa!At(c, "attend", "merge")
      /\ tile' = tile /\ sb' = sb /\ out' = out
    BY DEF Gqa!Attend
<1>2. pc[c] = "attend" /\ pc'[c] = "merge" /\ CoreInv(c) /\ Gqa!TypeOK /\ OwnSlots
    BY <1>1, GoesOn DEF Places, AttnInv
<1>3. Ready(sb[c])
    BY <1>2 DEF CoreInv
<1>4. att' = [att EXCEPT ![c] = Answers(Gqa!Lines(c))]
    BY <1>2, <1>3, AttentionIs, Zenon DEF Gqa!Attend
<1>5. HeldByCores' /\ att'[c] = Answers(Gqa!Lines(c)) /\
        \A x \in Gqa!Core : x # c => att'[x] = att[x]
    BY <1>1, <1>4 DEF AttnInv, HeldByCores
<1>6. Answers(Gqa!Lines(c))' = Answers(Gqa!Lines(c)) /\ Ready(sb[c])'
    BY <1>1, <1>3, ReadyStays, SameAnswers
<1>7. CoreInv(c)'
    <2>1. att[c]' = Answers(Gqa!Lines(c))'
        BY <1>5, <1>6
    <2> QED BY <1>2, <1>6, <2>1, Zenon DEF CoreInv
<1> QED BY <1>1, <1>5, <1>7, OneCoreStep DEF Places

\* The cores meet and both hold the whole.
LEMMA MergeStep ==
    ASSUME Gqa!SizeAssumption, AttnInv, Gqa!Merge
    PROVE  AttnInv'
<1>1. /\ UNCHANGED <<hist, kc, vc, attnBlock, way>> /\ Gqa!Both("merge", "write")
      /\ tile' = tile /\ sb' = sb /\ out' = out
    BY DEF Gqa!Merge
<1>2. /\ pc' \in [Gqa!Core -> Places]
      /\ \A x \in Gqa!Core : pc[x] = "merge" /\ pc'[x] = "write" /\ CoreInv(x)
    BY <1>1, BothGoOn DEF Places
<1>3. \A x \in Gqa!Core : att[x] = Answers(Gqa!Lines(x)) /\ Ready(sb[x])
    BY <1>2 DEF CoreInv
<1>4. \A x \in Gqa!Core : att'[x] = Answers(Gqa!Slots)
    BY <1>3, MergeIs, Zenon DEF Gqa!Merge, AttnInv
<1>5. HeldByCores'
    BY <1>1 DEF Gqa!Merge, AttnInv, HeldByCores
<1>6. ASSUME NEW x \in Gqa!Core PROVE CoreInv(x)'
    <2>1. Answers(Gqa!Slots)' = Answers(Gqa!Slots) /\ Ready(sb[x])'
        BY <1>1, <1>3, ReadyStays, SameAnswers
    <2>2. att[x]' = Answers(Gqa!Slots)' /\ pc[x]' = "write"
        BY <1>2, <1>4, <2>1
    <2> QED BY <2>1, <2>2, Zenon DEF CoreInv
<1> QED BY <1>1, <1>2, <1>5, <1>6, KeepsCaches

\* The slot of a token is its own: the write finds the token again, and none for
\* the slots before the block.
LEMMA TokenOfSlot ==
    ASSUME Gqa!SizeAssumption, Gqa!TypeOK
    PROVE  /\ \A t \in Gqa!Tokens :
                    /\ Gqa!Pos + t \in Gqa!Slots /\ Gqa!SlotOf(t) = Gqa!Pos + t
                    /\ (CHOOSE u \in Gqa!Tokens : Gqa!SlotOf(u) = Gqa!Pos + t) = t
           /\ \A j \in 0 .. Gqa!Pos - 1 : j \in Gqa!Slots /\
                ~\E t \in Gqa!Tokens : Gqa!SlotOf(t) = j
<1>1. /\ Gqa!Pos \in Nat /\ Gqa!T \in Nat /\ Gqa!Tokens = 0 .. Gqa!T - 1 /\
           Gqa!Pos + Gqa!T <= SeqLen
      /\ SeqLen \in Nat /\ Gqa!Slots = 0 .. SeqLen - 1
    BY BlockTypes
<1>2. \A t, u \in Gqa!Tokens : Gqa!SlotOf(u) = Gqa!Pos + t <=> u = t
    BY <1>1 DEF Gqa!SlotOf
<1>3. \A t \in Gqa!Tokens : Gqa!Pos + t \in Gqa!Slots /\ Gqa!SlotOf(t) = Gqa!Pos + t
    BY <1>1 DEF Gqa!SlotOf
<1>4. \A j \in 0 .. Gqa!Pos - 1 : j \in Gqa!Slots /\ ~\E t \in Gqa!Tokens : Gqa!SlotOf(t) = j
    BY <1>1 DEF Gqa!SlotOf
<1>5. \A t \in Gqa!Tokens : (CHOOSE u \in Gqa!Tokens : Gqa!SlotOf(u) = Gqa!Pos + t) = t
    BY <1>2
<1> QED BY <1>3, <1>4, <1>5

\* The keys as written by a core or the caller: the block's in its slots, the
\* request's as before.
LEMMA KeysScattered ==
    ASSUME Gqa!SizeAssumption, Gqa!TypeOK, NEW c \in Gqa!Core, Ready(sb[c]),
           NEW cache, cache = Gqa!Scattered(kc, LAMBDA t : Gqa!Column(sb[c].k, t))
    PROVE  /\ DOMAIN cache = Gqa!Slots
           /\ \A t \in Gqa!Tokens : cache[Gqa!Pos + t] = Gqa!KeyOf(Gqa!Id(t))
           /\ \A j \in 0 .. Gqa!Pos - 1 : cache[j] = kc[j]
<1>1. cache = [j \in Gqa!Slots |-> IF \E t \in Gqa!Tokens : Gqa!SlotOf(t) = j
                               THEN Gqa!Column(sb[c].k, CHOOSE t \in Gqa!Tokens : Gqa!SlotOf(t) = j)
                               ELSE kc[j]]
    BY Zenon DEF Gqa!Scattered
<1>2. ASSUME NEW t \in Gqa!Tokens PROVE cache[Gqa!Pos + t] = Gqa!Column(sb[c].k, t)
    <2>1. Gqa!Pos + t \in Gqa!Slots /\ Gqa!SlotOf(t) = Gqa!Pos + t
        BY TokenOfSlot
    <2>2. (CHOOSE u \in Gqa!Tokens : Gqa!SlotOf(u) = Gqa!Pos + t) = t
        BY TokenOfSlot
    <2> QED BY <1>1, <2>1, <2>2
<1>3. \A j \in 0 .. Gqa!Pos - 1 : cache[j] = kc[j]
    BY <1>1, TokenOfSlot, Zenon
<1>4. \A t \in Gqa!Tokens : Gqa!Column(sb[c].k, t) = Gqa!KeyOf(Gqa!Id(t))
    BY Zenon DEF Ready
<1> QED BY <1>1, <1>2, <1>3, <1>4, Zenon

\* The values, likewise.
LEMMA ValuesScattered ==
    ASSUME Gqa!SizeAssumption, Gqa!TypeOK, NEW c \in Gqa!Core, Ready(sb[c]),
           NEW cache, cache = Gqa!Scattered(vc, LAMBDA t : sb[c].v[t])
    PROVE  /\ DOMAIN cache = Gqa!Slots
           /\ \A t \in Gqa!Tokens : cache[Gqa!Pos + t] = Gqa!ValueOf(Gqa!Id(t))
           /\ \A j \in 0 .. Gqa!Pos - 1 : cache[j] = vc[j]
<1>1. cache = [j \in Gqa!Slots |-> IF \E t \in Gqa!Tokens : Gqa!SlotOf(t) = j
                               THEN sb[c].v[CHOOSE t \in Gqa!Tokens : Gqa!SlotOf(t) = j]
                               ELSE vc[j]]
    BY Zenon DEF Gqa!Scattered
<1>2. ASSUME NEW t \in Gqa!Tokens PROVE cache[Gqa!Pos + t] = sb[c].v[t]
    <2>1. Gqa!Pos + t \in Gqa!Slots /\ Gqa!SlotOf(t) = Gqa!Pos + t
        BY TokenOfSlot
    <2>2. (CHOOSE u \in Gqa!Tokens : Gqa!SlotOf(u) = Gqa!Pos + t) = t
        BY TokenOfSlot
    <2> QED BY <1>1, <2>1, <2>2
<1>3. \A j \in 0 .. Gqa!Pos - 1 : cache[j] = vc[j]
    BY <1>1, TokenOfSlot, Zenon
<1>4. \A t \in Gqa!Tokens : sb[c].v[t] = Gqa!ValueOf(Gqa!Id(t))
    BY Zenon DEF Ready
<1> QED BY <1>1, <1>2, <1>3, <1>4, Zenon

\* Core 0 writes the values, core 1 the keys, unless the caller will.
LEMMA WriteStep ==
    ASSUME Gqa!SizeAssumption, AttnInv, NEW c \in Gqa!Core, Gqa!Write(c)
    PROVE  AttnInv'
<1>1. /\ hist' = hist /\ attnBlock' = attnBlock /\ way' = way /\ Gqa!At(c, "write", "output")
      /\ tile' = tile /\ sb' = sb /\ att' = att /\ out' = out
    BY DEF Gqa!Write
<1>2. /\ pc[c] = "write" /\ pc'[c] = "output" /\ pc' \in [Gqa!Core -> Places]
      /\ \A x \in Gqa!Core : x # c => pc'[x] = pc[x]
      /\ \A x \in Gqa!Core : CoreInv(x)
      /\ Gqa!TypeOK /\ HeldByCores /\ OwnSlots /\ BlockWritten
    BY <1>1, GoesOn DEF Places, AttnInv
<1>3. Ready(sb[c]) /\ att[c] = Answers(Gqa!Slots)
    BY <1>2 DEF CoreInv
<1>4. IF way = "scatter" /\ c = 1
      THEN /\ DOMAIN kc' = Gqa!Slots /\
                \A t \in Gqa!Tokens : kc'[Gqa!Pos + t] = Gqa!KeyOf(Gqa!Id(t))
           /\ \A j \in 0 .. Gqa!Pos - 1 : kc'[j] = kc[j]
      ELSE kc' = kc
    BY <1>2, <1>3, KeysScattered DEF Gqa!Write
<1>5. IF way = "scatter" /\ c = 0
      THEN /\ DOMAIN vc' = Gqa!Slots /\
                \A t \in Gqa!Tokens : vc'[Gqa!Pos + t] = Gqa!ValueOf(Gqa!Id(t))
           /\ \A j \in 0 .. Gqa!Pos - 1 : vc'[j] = vc[j]
      ELSE vc' = vc
    BY <1>2, <1>3, ValuesScattered DEF Gqa!Write
<1>6. Gqa!TypeOK'
    BY <1>1, <1>2, <1>4, <1>5 DEF Gqa!TypeOK, Places, Gqa!Pos, Gqa!T
<1>7. OwnSlots'
    <2>1. \A j \in 0 .. Gqa!Pos - 1 : kc'[j] = kc[j] /\ vc'[j] = vc[j]
        BY <1>4, <1>5, Zenon
    <2> QED BY <1>1, <1>2, <2>1, SameTokens, Zenon DEF OwnSlots
<1>8. BlockWritten'
    <2>1. 0 \in Gqa!Core /\ 1 \in Gqa!Core /\ 0 # 1
        BY DEF Gqa!Core
    <2>2. \A t : Gqa!Id(t)' = Gqa!Id(t)
        BY <1>1, SameTokens
    <2>3. Gqa!Tokens' = Gqa!Tokens /\ Gqa!Pos' = Gqa!Pos
        BY <1>1, SameTokens
    <2>4. ASSUME way = "scatter", pc'[1] \in {"output", "done"}, NEW t \in Gqa!Tokens
          PROVE  kc'[Gqa!Pos + t] = Gqa!KeyOf(Gqa!Id(t))
        <3>1. CASE c = 1
            BY <1>4, <2>4, <3>1
        <3>2. CASE c # 1
            <4>1. pc[1] \in {"output", "done"} /\ kc' = kc
                BY <1>2, <1>4, <2>1, <2>4, <3>2
            <4> QED BY <1>2, <2>4, <4>1 DEF BlockWritten
        <3> QED BY <3>1, <3>2
    <2>5. ASSUME way = "scatter", pc'[0] \in {"output", "done"}, NEW t \in Gqa!Tokens
          PROVE  vc'[Gqa!Pos + t] = Gqa!ValueOf(Gqa!Id(t))
        <3>1. CASE c = 0
            BY <1>5, <2>5, <3>1
        <3>2. CASE c # 0
            <4>1. pc[0] \in {"output", "done"} /\ vc' = vc
                BY <1>2, <1>5, <2>1, <2>5, <3>2
            <4> QED BY <1>2, <2>5, <4>1 DEF BlockWritten
        <3> QED BY <3>1, <3>2
    <2> QED BY <1>1, <2>2, <2>3, <2>4, <2>5, Zenon DEF BlockWritten
<1>9. CoreInv(c)'
    BY <1>1, <1>2, <1>3, SameAnswers, ReadyStays DEF CoreInv
<1>10. \A x \in Gqa!Core : x # c => CoreInv(x)'
    BY <1>1, <1>2, OtherCore
<1>11. HeldByCores'
    BY <1>1, <1>2 DEF HeldByCores
<1> QED BY <1>6, <1>7, <1>8, <1>9, <1>10, <1>11 DEF AttnInv

\* A row of the output weight, taken apart twice: the sub-head and its
\* partition, and the head and its tile.
LEMMA RowParts ==
    ASSUME Gqa!SizeAssumption, NEW r \in 0 .. QHeads * Gqa!HeadDim - 1
    PROVE  LET n == r \div PMax
               i == r % PMax
               h == n \div DTiles
               dt == n % DTiles
           IN  /\ h = r \div Gqa!HeadDim /\ h \in 0 .. QHeads - 1
               /\ dt * PMax + i = r % Gqa!HeadDim /\ r % Gqa!HeadDim \in Gqa!Dims
               /\ (r % Gqa!HeadDim) % PMax = i /\ (r % Gqa!HeadDim) \div PMax = dt
<1> DEFINE n == r \div PMax
           i == r % PMax
           h == n \div DTiles
           dt == n % DTiles
           d == dt * PMax + i
<1>1. r \in Nat /\ r < QHeads * Gqa!HeadDim /\ PMax \in Nat \ {0} /\ DTiles \in Nat \ {0}
      /\ Gqa!HeadDim \in Nat \ {0} /\ QHeads \in Nat \ {0}
    <2>1. QHeads \in Nat \ {0} /\ Gqa!HeadDim \in Nat \ {0} /\ PMax \in Nat \ {0} /\
            DTiles \in Nat \ {0}
        BY Sizes
    <2>2. QHeads * Gqa!HeadDim \in Nat
        BY <2>1, SMT
    <2> QED BY <2>1, <2>2, SMT
<1>2. Splits(r, PMax, n, i)
    BY <1>1, DivModIs
<1>3. Splits(n, DTiles, h, dt)
    BY <1>1, <1>2, DivModIs DEF Splits
<1>4. h \in Nat /\ dt \in 0 .. DTiles - 1 /\ i \in 0 .. PMax - 1
    BY <1>2, <1>3, Zenon DEF Splits
<1>5. d \in Gqa!Dims /\ d % PMax = i /\ d \div PMax = dt
    BY <1>4, DimOf
<1>6. r = h * Gqa!HeadDim + d
    <2>2. r = n * PMax + i /\ n = h * DTiles + dt
        BY <1>2, <1>3, Zenon DEF Splits
    <2>3. Gqa!HeadDim = PMax * DTiles
        BY DEF Gqa!HeadDim
    <2>4. dt \in Nat /\ i \in Nat /\ PMax \in Nat /\ DTiles \in Nat
        BY <1>1, <1>4
    <2> HIDE DEF n, i, h, dt
    <2>5. (h * DTiles + dt) * PMax + i = h * (PMax * DTiles) + (dt * PMax + i)
        BY <1>4, <2>4, SMT
    <2> QED BY <2>2, <2>3, <2>5, Zenon
<1>7. d \in 0 .. Gqa!HeadDim - 1
    BY <1>5, Sizes
<1> HIDE DEF n, i, h, dt, d
<1>8. Splits(r, Gqa!HeadDim, h, d)
    BY <1>1, <1>4, <1>6, <1>7, Zenon DEF Splits
<1>9. r \div Gqa!HeadDim = h /\ r % Gqa!HeadDim = d
    BY <1>8, DivModUnique
<1>10. h \in 0 .. QHeads - 1
    BY <1>1, <1>8, DivLess
<1> QED BY <1>5, <1>9, <1>10, Zenon DEF n, i, h, dt, d

\* Every row of the output weight meets its own.
LEMMA RowsMeet ==
    ASSUME Gqa!SizeAssumption, Gqa!TypeOK, NEW c \in Gqa!Core, Ready(sb[c]),
             att[c] = Answers(Gqa!Slots),
           NEW t \in Gqa!Tokens, NEW r \in 0 .. QHeads * Gqa!HeadDim - 1
    PROVE  LET x == Gqa!SubHead(c, r \div PMax, t, r % PMax)
           IN  /\ x.att.query = Gqa!QueryOf(Gqa!Id(t), r \div Gqa!HeadDim)
               /\ x.dim = r % Gqa!HeadDim
               /\ x.gate = Gqa!GateOf(Gqa!Id(t), r \div Gqa!HeadDim, r % Gqa!HeadDim)
<1> DEFINE n == r \div PMax
           i == r % PMax
           h == n \div DTiles
           dt == n % DTiles
           d == r % Gqa!HeadDim
           col == h * Gqa!T + t
<1>1. /\ h = r \div Gqa!HeadDim /\ h \in 0 .. QHeads - 1
      /\ dt * PMax + i = d /\ d \in Gqa!Dims /\ d % PMax = i /\ d \div PMax = dt
    BY RowParts
<1>2. Gqa!SubHead(c, n, t, i) = [att |-> att[c][col], dim |-> dt * PMax + i,
                             gate |-> sb[c].gate[i][dt][col]]
    BY Zenon DEF Gqa!SubHead
<1> HIDE DEF n, i, h, dt, d
<1>3. sb[c].gate[i][dt][col] = Gqa!GateOf(Gqa!Id(t), h, d)
    <2>1. sb[c].gate[d % PMax][d \div PMax][h * Gqa!T + t] = Gqa!GateOf(Gqa!Id(t), h, d)
        BY <1>1, Zenon DEF Ready
    <2> QED BY <1>1, <2>1, Zenon
<1>4. att[c][col].query = Gqa!QueryOf(Gqa!Id(t), h)
    <2>1. Gqa!T \in Nat \ {0} /\ t \in 0 .. Gqa!T - 1 /\ QHeads \in Nat
        BY BlockTypes, Sizes
    <2>2. col \in 0 .. QHeads * Gqa!T - 1 /\ col \div Gqa!T = h /\ col % Gqa!T = t
        <3>1. Splits(h * Gqa!T + t, Gqa!T, h, t)
            BY <1>1, <2>1, SMT DEF Splits
        <3>2. h * Gqa!T + t \in 0 .. QHeads * Gqa!T - 1
            BY <1>1, <2>1, Packed
        <3> QED BY <3>1, <3>2, DivModUnique, Zenon
    <2> HIDE DEF col
    <2>3. Answers(Gqa!Slots)[col].query = Gqa!QueryOf(Gqa!Id(col % Gqa!T), col \div Gqa!T)
        BY <2>2 DEF Answers
    <2> QED BY <2>2, <2>3
<1> HIDE DEF col
<1>5. LET x == Gqa!SubHead(c, n, t, i)
      IN  x.att = att[c][col] /\ x.dim = dt * PMax + i /\ x.gate = sb[c].gate[i][dt][col]
    BY <1>2
<1> QED BY <1>1, <1>3, <1>4, <1>5, Zenon DEF n, i, d

\* A core multiplies with its columns of the output weight.
LEMMA OutputStep ==
    ASSUME Gqa!SizeAssumption, AttnInv, NEW c \in Gqa!Core, Gqa!Output(c)
    PROVE  AttnInv'
<1>1. /\ UNCHANGED <<hist, kc, vc, attnBlock, way>> /\ Gqa!At(c, "output", "done")
      /\ tile' = tile /\ sb' = sb /\ att' = att
    BY DEF Gqa!Output
<1>2. pc[c] = "output" /\ pc'[c] = "done" /\ CoreInv(c) /\ Gqa!TypeOK
    BY <1>1, GoesOn DEF Places, AttnInv
<1>3. Ready(sb[c]) /\ att[c] = Answers(Gqa!Slots)
    BY <1>2 DEF CoreInv
<1>4. /\ out'[c] = [t \in Gqa!Tokens |-> [r \in 0 .. QHeads * Gqa!HeadDim - 1 |->
                        Gqa!SubHead(c, r \div PMax, t, r % PMax)]]
      /\ HeldByCores' /\ \A x \in Gqa!Core : x # c => out'[x] = out[x]
    BY <1>1 DEF Gqa!Output, AttnInv, HeldByCores
<1>5. ASSUME NEW t \in Gqa!Tokens, NEW r \in 0 .. QHeads * Gqa!HeadDim - 1
      PROVE  /\ out'[c][t][r].att.query = Gqa!QueryOf(Gqa!Id(t), r \div Gqa!HeadDim)
             /\ out'[c][t][r].dim = r % Gqa!HeadDim
             /\ out'[c][t][r].gate = Gqa!GateOf(Gqa!Id(t), r \div Gqa!HeadDim, r % Gqa!HeadDim)
    <2>1. out'[c][t][r] = Gqa!SubHead(c, r \div PMax, t, r % PMax)
        BY <1>4
    <2> QED BY <1>2, <1>3, <2>1, RowsMeet
<1>6. RowsMet(c)'
    BY <1>1, <1>5, SameTokens, Zenon DEF RowsMet
<1>7. CoreInv(c)'
    BY <1>1, <1>2, <1>3, <1>6, ReadyStays, Zenon DEF CoreInv
<1> QED BY <1>1, <1>4, <1>7, OneCoreStep DEF Places

\* The host launches on a block that has slots.
LEMMA LaunchStep ==
    ASSUME Gqa!SizeAssumption, AttnInv, Gqa!Launch
    PROVE  AttnInv'
<1>1. /\ hist' = hist /\ kc' = kc /\ vc' = vc /\ Gqa!Both("idle", "project")
      /\ tile' = tile /\ sb' = sb /\ att' = att /\ out' = out
      /\ way' \in {"scatter", "return"}
    BY DEF Gqa!Launch
<1>2. pc' \in [Gqa!Core -> Places] /\ \A x \in Gqa!Core : pc'[x] = "project"
    BY <1>1, BothGoOn DEF Places
<1>3. attnBlock' \in Seq(Tag) /\ Gqa!Pos + Len(attnBlock') <= SeqLen
    <2>1. PICK b \in UNION {[1 .. n -> Tag] : n \in 1 .. MaxBlock} : Gqa!Fits(Len(b)) /\
            attnBlock' = b
        BY DEF Gqa!Launch
    <2>2. PICK n \in 1 .. MaxBlock : b \in [1 .. n -> Tag]
        BY <2>1
    <2>3. n \in Nat
        BY DEF Gqa!SizeAssumption
    <2>4. b \in Seq(Tag)
        BY <2>2, <2>3
    <2> QED BY <2>1, <2>4 DEF Gqa!Fits
<1>4. Gqa!TypeOK'
    BY <1>1, <1>2, <1>3 DEF AttnInv, Gqa!TypeOK, Gqa!Pos, Gqa!T, Places
<1>5. OwnSlots'
    <2>1. Gqa!Pos' = Gqa!Pos
        BY <1>1 DEF Gqa!Pos
    <2>2. \A j \in 0 .. Gqa!Pos - 1 : Gqa!OwnToken(j)' = Gqa!OwnToken(j)
        <3>1. Gqa!Pos \in Nat
            BY BlockTypes DEF AttnInv
        <3>2. \A j \in 0 .. Gqa!Pos - 1 : j < Gqa!Pos
            BY <3>1
        <3> QED BY <1>1, <2>1, <3>2, Zenon DEF Gqa!OwnToken
    <2> QED BY <1>1, <2>1, <2>2, Zenon DEF AttnInv, OwnSlots
<1>6. BlockWritten'
    <2>1. 0 \in Gqa!Core /\ 1 \in Gqa!Core
        BY DEF Gqa!Core
    <2> QED BY <1>2, <2>1 DEF BlockWritten
<1>7. \A x \in Gqa!Core : CoreInv(x)'
    BY <1>2 DEF CoreInv
<1> QED BY <1>1, <1>4, <1>5, <1>6, <1>7 DEF AttnInv, HeldByCores

\* The request keeps a prefix of the block: the slots it gains were the block's.
LEMMA FinishStep ==
    ASSUME Gqa!SizeAssumption, AttnInv, Gqa!Finish
    PROVE  AttnInv'
<1>1. /\ Gqa!Both("done", "idle") /\ way' = way /\ attnBlock' = <<>>
      /\ Gqa!TypeOK /\ OwnSlots /\ BlockWritten
    BY DEF Gqa!Finish, AttnInv
<1>2. /\ pc' \in [Gqa!Core -> Places] /\ \A x \in Gqa!Core : pc'[x] = "idle"
      /\ \A x \in Gqa!Core : pc[x] = "done" /\ CoreInv(x)
    BY <1>1, BothGoOn DEF Places
<1>3. 0 \in Gqa!Core /\ 1 \in Gqa!Core /\ Ready(sb[0]) /\ Ready(sb[1])
    BY <1>2 DEF Gqa!Core, CoreInv
<1>4. PICK n \in 1 .. Gqa!T : hist' = hist \o SubSeq(attnBlock, 1, n)
    BY DEF Gqa!Finish
<1>5. /\ DOMAIN kc' = Gqa!Slots /\ \A t \in Gqa!Tokens : kc'[Gqa!Pos + t] = Gqa!KeyOf(Gqa!Id(t))
      /\ \A j \in 0 .. Gqa!Pos - 1 : kc'[j] = kc[j]
    <2>1. CASE way = "return"
        BY <1>1, <1>3, <2>1, KeysScattered DEF Gqa!Finish
    <2>2. CASE way = "scatter"
        <3>1. kc' = kc
            BY <2>2 DEF Gqa!Finish
        <3> QED BY <1>1, <1>2, <1>3, <2>2, <3>1 DEF BlockWritten, Gqa!TypeOK
    <2> QED BY <1>1, <2>1, <2>2 DEF Gqa!TypeOK
<1>6. /\ DOMAIN vc' = Gqa!Slots /\ \A t \in Gqa!Tokens : vc'[Gqa!Pos + t] = Gqa!ValueOf(Gqa!Id(t))
      /\ \A j \in 0 .. Gqa!Pos - 1 : vc'[j] = vc[j]
    <2>1. CASE way = "return"
        BY <1>1, <1>3, <2>1, ValuesScattered DEF Gqa!Finish
    <2>2. CASE way = "scatter"
        <3>1. vc' = vc
            BY <2>2 DEF Gqa!Finish
        <3> QED BY <1>1, <1>2, <1>3, <2>2, <3>1 DEF BlockWritten, Gqa!TypeOK
    <2> QED BY <1>1, <2>1, <2>2 DEF Gqa!TypeOK
<1>7. /\ Gqa!Pos \in Nat /\ Gqa!T \in Nat /\ Gqa!Tokens = 0 .. Gqa!T - 1 /\
           Gqa!Pos + Gqa!T <= SeqLen
      /\ n \in Nat /\ n <= Gqa!T /\ n >= 1
    BY <1>1, BlockTypes
<1>8. /\ hist' \in Seq(Tag) /\ Len(hist') = Gqa!Pos + n
      /\ \A i \in 1 .. Gqa!Pos : hist'[i] = hist[i]
      /\ \A i \in 1 .. n : hist'[Gqa!Pos + i] = attnBlock[i]
    <2>1. hist \in Seq(Tag) /\ attnBlock \in Seq(Tag) /\ Len(hist) = Gqa!Pos /\
            Len(attnBlock) = Gqa!T
        BY <1>1 DEF Gqa!TypeOK, Gqa!Pos, Gqa!T
    <2>2. /\ SubSeq(attnBlock, 1, n) \in Seq(Tag) /\ Len(SubSeq(attnBlock, 1, n)) = n
          /\ \A i \in 1 .. n : SubSeq(attnBlock, 1, n)[i] = attnBlock[i]
        BY <1>7, <2>1
    <2> DEFINE p == SubSeq(attnBlock, 1, n)
    <2> HIDE DEF p
    <2>3. p \in Seq(Tag) /\ Len(p) = n /\ \A i \in 1 .. n : p[i] = attnBlock[i]
        BY <2>2 DEF p
    <2>4. hist' = hist \o p
        BY <1>4 DEF p
    <2> DEFINE q == hist \o p
    <2>5. /\ q \in Seq(Tag) /\ Len(q) = Gqa!Pos + n
          /\ \A i \in 1 .. Gqa!Pos + n : q[i] = IF i <= Gqa!Pos THEN hist[i] ELSE p[i - Gqa!Pos]
        BY <2>1, <2>3, ConcatProperties
    <2> HIDE DEF q
    <2>6. \A i \in 1 .. Gqa!Pos : i \in 1 .. Gqa!Pos + n /\ i <= Gqa!Pos
        BY <1>7
    <2>7. \A i \in 1 .. n : Gqa!Pos + i \in 1 .. Gqa!Pos + n /\ ~(Gqa!Pos + i <= Gqa!Pos) /\
            (Gqa!Pos + i) - Gqa!Pos = i
        BY <1>7
    <2>8. hist' = q
        BY <2>4 DEF q
    <2>9. \A i \in 1 .. Gqa!Pos : q[i] = hist[i]
        BY <2>5, <2>6
    <2>10. \A i \in 1 .. n : q[Gqa!Pos + i] = p[i]
        BY <2>5, <2>7
    <2> QED BY <2>3, <2>5, <2>8, <2>9, <2>10
<1>9. Gqa!TypeOK'
    <2>1. Gqa!Pos' = Gqa!Pos + n /\ Gqa!T' = 0 /\ attnBlock' \in Seq(Tag) /\
            (Gqa!Pos + n) + 0 <= SeqLen
        <3>1. SeqLen \in Nat
            BY DEF Gqa!SizeAssumption
        <3>2. Gqa!Pos' = Gqa!Pos + n
            BY <1>8 DEF Gqa!Pos
        <3>3. Gqa!T' = 0 /\ attnBlock' \in Seq(Tag)
            BY <1>1 DEF Gqa!T
        <3> QED BY <1>7, <3>1, <3>2, <3>3
    <2> QED BY <1>1, <1>2, <1>5, <1>6, <1>8, <2>1 DEF Gqa!TypeOK, Places
<1>10. OwnSlots'
    <2> SUFFICES \A j \in 0 .. Gqa!Pos + n - 1 :
                    kc'[j] = Gqa!KeyOf(Gqa!OwnToken(j)') /\ vc'[j] = Gqa!ValueOf(Gqa!OwnToken(j)')
        <3>1. Gqa!Pos' = Gqa!Pos + n
            BY <1>8 DEF Gqa!Pos
        <3>2. OwnSlots' <=> \A k \in 0 .. Gqa!Pos' - 1 :
                                kc'[k] = Gqa!KeyOf(Gqa!OwnToken(k)') /\
                                    vc'[k] = Gqa!ValueOf(Gqa!OwnToken(k)')
            BY Zenon DEF OwnSlots
        <3>3. 0 .. Gqa!Pos' - 1 = 0 .. Gqa!Pos + n - 1
            BY <1>7, <3>1
        <3> QED BY <3>2, <3>3, Zenon
    <2> TAKE j \in 0 .. Gqa!Pos + n - 1
    <2>1. Gqa!OwnToken(j)' = <<j, hist'[j + 1]>>
        <3>1. Gqa!Pos' = Gqa!Pos + n
            BY <1>8 DEF Gqa!Pos
        <3>2. j < Gqa!Pos + n
            BY <1>7
        <3> QED BY <3>1, <3>2, Zenon DEF Gqa!OwnToken
    <2>2. CASE j < Gqa!Pos
        <3>1. j \in 0 .. Gqa!Pos - 1 /\ j + 1 \in 1 .. Gqa!Pos
            BY <1>7, <2>2
        <3>2. Gqa!OwnToken(j) = <<j, hist[j + 1]>>
            BY <2>2, Zenon DEF Gqa!OwnToken
        <3>3. hist'[j + 1] = hist[j + 1]
            BY <1>8, <3>1
        <3> QED BY <1>1, <1>5, <1>6, <2>1, <3>1, <3>2, <3>3, Zenon DEF OwnSlots
    <2>3. CASE ~(j < Gqa!Pos)
        <3>1. PICK t \in Gqa!Tokens : j = Gqa!Pos + t /\ t + 1 \in 1 .. n /\
                j + 1 = Gqa!Pos + (t + 1)
            <4>1. j - Gqa!Pos \in Gqa!Tokens /\ j = Gqa!Pos + (j - Gqa!Pos) /\
                    (j - Gqa!Pos) + 1 \in 1 .. n
                    /\ j + 1 = Gqa!Pos + ((j - Gqa!Pos) + 1)
                BY <1>7, <2>3
            <4> QED BY <4>1, Zenon
        <3>2. hist'[j + 1] = attnBlock[t + 1]
            BY <1>8, <3>1
        <3>3. Gqa!OwnToken(j)' = Gqa!Id(t)
            BY <2>1, <3>1, <3>2, Zenon DEF Gqa!Id
        <3> QED BY <1>5, <1>6, <3>1, <3>3, Zenon
    <2> QED BY <2>2, <2>3
<1>11. BlockWritten'
    BY <1>2, <1>3 DEF BlockWritten
<1>12. \A x \in Gqa!Core : CoreInv(x)'
    BY <1>2 DEF CoreInv
<1>13. HeldByCores'
    BY DEF Gqa!Finish, HeldByCores
<1> QED BY <1>9, <1>10, <1>11, <1>12, <1>13 DEF AttnInv

\* A prompt is in the caches before the first launch.
LEMMA AttnInit ==
    ASSUME Gqa!SizeAssumption, Gqa!Init
    PROVE  AttnInv
<1>1. PICK n \in MinPrompt .. SeqLen, tag \in Tag :
        /\ hist = [i \in 1 .. n |-> tag]
        /\ kc = [j \in Gqa!Slots |-> Gqa!KeyOf(<<j, IF j < n THEN tag ELSE Stale>>)]
        /\ vc = [j \in Gqa!Slots |-> Gqa!ValueOf(<<j, IF j < n THEN tag ELSE Stale>>)]
    BY Zenon DEF Gqa!Init
<1>2. /\ attnBlock = <<>> /\ way = "scatter" /\ pc = [c \in Gqa!Core |-> "idle"]
      /\ tile = [c \in Gqa!Core |-> <<>>] /\ sb = [c \in Gqa!Core |-> <<>>]
      /\ att = [c \in Gqa!Core |-> <<>>] /\ out = [c \in Gqa!Core |-> <<>>]
    BY DEF Gqa!Init
<1>3. n \in Nat /\ n <= SeqLen /\ SeqLen \in Nat
    BY DEF Gqa!SizeAssumption
<1>4. hist \in Seq(Tag) /\ Gqa!Pos = n /\ \A i \in 1 .. n : hist[i] = tag
    BY <1>1, <1>3 DEF Gqa!Pos
<1>5. Gqa!TypeOK
    <2>1. attnBlock \in Seq(Tag) /\ Gqa!T = 0
        BY <1>2 DEF Gqa!T
    <2> QED BY <1>1, <1>2, <1>3, <1>4, <2>1 DEF Gqa!TypeOK
<1>6. OwnSlots
    <2> SUFFICES ASSUME NEW j \in 0 .. n - 1
                 PROVE  kc[j] = Gqa!KeyOf(Gqa!OwnToken(j)) /\ vc[j] = Gqa!ValueOf(Gqa!OwnToken(j))
        BY <1>4, Zenon DEF OwnSlots
    <2>1. j \in Gqa!Slots /\ j < n /\ j + 1 \in 1 .. n
        BY <1>3 DEF Gqa!Slots
    <2>2. Gqa!OwnToken(j) = <<j, tag>>
        BY <1>4, <2>1, Zenon DEF Gqa!OwnToken
    <2> QED BY <1>1, <2>1, <2>2, Zenon
<1>7. BlockWritten /\ \A c \in Gqa!Core : CoreInv(c)
    BY <1>2 DEF BlockWritten, CoreInv, Gqa!Core
<1>8. HeldByCores
    BY <1>2 DEF HeldByCores
<1> QED BY <1>5, <1>6, <1>7, <1>8 DEF AttnInv

\* The invariant is inductive.
LEMMA AttnStep ==
    ASSUME Gqa!SizeAssumption, AttnInv, [Gqa!Next]_Gqa!vars
    PROVE  AttnInv'
<1>1. CASE Gqa!Launch
    BY <1>1, LaunchStep
<1>2. CASE Gqa!Sum
    BY <1>2, SumStep
<1>3. CASE Gqa!Merge
    BY <1>3, MergeStep
<1>4. CASE Gqa!Finish
    BY <1>4, FinishStep
<1>5. ASSUME NEW c \in Gqa!Core, Gqa!CoreStep(c) PROVE AttnInv'
    BY <1>5, ProjectStep, PrepareStep, AttendStep, WriteStep, OutputStep DEF Gqa!CoreStep
<1>6. CASE UNCHANGED Gqa!vars
    <2>1. UNCHANGED <<hist, kc, vc, attnBlock, way>> /\ pc' = pc /\ tile' = tile /\ sb' = sb
            /\ att' = att /\ out' = out
        BY <1>6 DEF Gqa!vars
    <2>2. pc' \in [Gqa!Core -> Places] /\ \A x \in Gqa!Core : CoreInv(x)
        BY <2>1 DEF AttnInv, Gqa!TypeOK, Places
    <2>3. \A x \in Gqa!Core : CoreInv(x)'
        BY <2>1, <2>2, OtherCore
    <2>4. HeldByCores'
        BY <2>1 DEF AttnInv, HeldByCores
    <2> QED BY <2>1, <2>2, <2>3, <2>4, KeepsCaches
<1> QED BY <1>1, <1>2, <1>3, <1>4, <1>5, <1>6 DEF Gqa!Next, Gqa!Work

\* The invariant of the attention layer (attention_block_tkg and its callers).
THEOREM AttnInvariant ==
    ASSUME Gqa!SizeAssumption
    PROVE  Gqa!Spec => []AttnInv
<1>1. Gqa!Init => AttnInv
    BY AttnInit
<1>2. AttnInv /\ [Gqa!Next]_Gqa!vars => AttnInv'
    BY AttnStep
<1> QED BY <1>1, <1>2, PTL DEF Gqa!Spec

\* Between launches the caches hold the request's own keys and values, whatever
\* was drafted and rejected before.
THEOREM OwnHistory ==
    ASSUME Gqa!SizeAssumption
    PROVE  Gqa!Spec => []Gqa!CachesHoldHistory
<1>1. AttnInv => Gqa!CachesHoldHistory
    BY DEF AttnInv, OwnSlots, Gqa!CachesHoldHistory
<1> QED BY <1>1, AttnInvariant, PTL

\* On both cores every row of the output weight meets its own head, dimension
\* and gate.
THEOREM RowsOfOutput ==
    ASSUME Gqa!SizeAssumption
    PROVE  Gqa!Spec => []Gqa!OutputRowsMeet
<1>1. AttnInv => Gqa!OutputRowsMeet
    BY Zenon DEF AttnInv, CoreInv, RowsMet, Gqa!OutputRowsMeet
<1> QED BY <1>1, AttnInvariant, PTL

(***************************************************************************)
(* A query reads the history.                                               *)
(***************************************************************************)
\* The line of token j for a query: its slot, or its place in the block.
LineOf(j) == IF j < Gqa!Pos THEN j ELSE BlockLine + (j - Gqa!Pos)

\* The lines query t keeps are those of the tokens up to its own, one each.
LEMMA LinesOfTokens ==
    ASSUME Gqa!SizeAssumption, Gqa!TypeOK, NEW t \in Gqa!Tokens
    PROVE  /\ \A j \in 0 .. Gqa!Pos + t : LineOf(j) \in Kept(Gqa!Slots, t) /\
                TokenAt(LineOf(j)) = Gqa!OwnToken(j)
           /\ \A i \in Kept(Gqa!Slots, t) : \E j \in 0 .. Gqa!Pos + t : LineOf(j) = i
           /\ \A i, j \in 0 .. Gqa!Pos + t : LineOf(i) = LineOf(j) => i = j
<1>1. /\ Gqa!Pos \in Nat /\ Gqa!T \in Nat /\ Gqa!Tokens = 0 .. Gqa!T - 1 /\ BlockLine \in Nat /\
           Gqa!Pos <= BlockLine
      /\ BlockLine + Gqa!T = SeqLen /\ Gqa!Slots = 0 .. SeqLen - 1 /\ SeqLen \in Nat
    BY BlockTypes
<1>2. ASSUME NEW j \in 0 .. Gqa!Pos + t
      PROVE  LineOf(j) \in Kept(Gqa!Slots, t) /\ TokenAt(LineOf(j)) = Gqa!OwnToken(j)
    <2>1. CASE j < Gqa!Pos
        <3>1. LineOf(j) = j
            BY <2>1 DEF LineOf
        <3>2. j \in Gqa!Slots /\ j < BlockLine /\ j \in 0 .. Gqa!Pos - 1
            BY <1>1, <2>1
        <3>3. Gqa!Mask(j, t)
            BY <3>2, KeptLines
        <3> QED BY <3>1, <3>2, <3>3, Zenon DEF Kept, TokenAt
    <2>2. CASE ~(j < Gqa!Pos)
        <3>1. LineOf(j) = BlockLine + (j - Gqa!Pos)
            BY <2>2 DEF LineOf
        <3>2. /\ j - Gqa!Pos \in 0 .. t /\ j - Gqa!Pos \in Gqa!Tokens /\ Gqa!Pos + (j - Gqa!Pos) = j
              /\ BlockLine + (j - Gqa!Pos) \in Gqa!Slots /\ ~(BlockLine + (j - Gqa!Pos) < BlockLine)
              /\ (BlockLine + (j - Gqa!Pos)) - BlockLine = j - Gqa!Pos
            BY <1>1, <2>2
        <3>3. Gqa!Mask(BlockLine + (j - Gqa!Pos), t)
            BY <3>2, KeptLines, Zenon
        <3>4. TokenAt(BlockLine + (j - Gqa!Pos)) = Gqa!Id(j - Gqa!Pos)
            BY <3>2, Zenon DEF TokenAt
        <3>5. Gqa!Id(j - Gqa!Pos) = Gqa!OwnToken(j)
            BY <2>2, <3>2, Zenon DEF Gqa!Id, Gqa!OwnToken
        <3> QED BY <3>1, <3>2, <3>3, <3>4, <3>5, Zenon DEF Kept
    <2> QED BY <2>1, <2>2
<1>3. ASSUME NEW i \in Kept(Gqa!Slots, t) PROVE \E j \in 0 .. Gqa!Pos + t : LineOf(j) = i
    <2>1. i \in Gqa!Slots /\ Gqa!Mask(i, t)
        BY DEF Kept
    <2>2. CASE i < BlockLine
        <3>1. i \in 0 .. Gqa!Pos - 1
            BY <2>1, <2>2, KeptLines
        <3>2. i < Gqa!Pos /\ i \in 0 .. Gqa!Pos + t
            BY <1>1, <3>1
        <3> QED BY <3>2, Zenon DEF LineOf
    <2>3. CASE ~(i < BlockLine)
        <3>1. i \in Nat /\ i - BlockLine \in 0 .. t
            BY <2>1, <2>3, KeptLines
        <3> DEFINE j == Gqa!Pos + (i - BlockLine)
        <3>2. j \in 0 .. Gqa!Pos + t /\ ~(j < Gqa!Pos) /\ BlockLine + (j - Gqa!Pos) = i
            BY <1>1, <3>1
        <3> HIDE DEF j
        <3> QED BY <3>2, Zenon DEF LineOf
    <2> QED BY <2>2, <2>3
<1>4. ASSUME NEW i \in 0 .. Gqa!Pos + t, NEW j \in 0 .. Gqa!Pos + t, LineOf(i) = LineOf(j)
      PROVE  i = j
    BY <1>1, <1>4 DEF LineOf
<1> QED BY <1>2, <1>3, <1>4

\* Pairs of a line and what it holds, over the lines query t keeps: what they
\* hold is what the tokens up to its own hold, and there is one for each.
LEMMA PairsOfTokens ==
    ASSUME Gqa!SizeAssumption, Gqa!TypeOK, NEW t \in Gqa!Tokens, NEW f, NEW pairs,
           \A x : x \in pairs <=> \E i \in Kept(Gqa!Slots, t) : x = <<i, f[i]>>
    PROVE  /\ {x[2] : x \in pairs} = {f[LineOf(j)] : j \in 0 .. Gqa!Pos + t}
           /\ Cardinality(pairs) = Gqa!Pos + t + 1
<1>1. /\ \A j \in 0 .. Gqa!Pos + t : LineOf(j) \in Kept(Gqa!Slots, t)
      /\ \A i \in Kept(Gqa!Slots, t) : \E j \in 0 .. Gqa!Pos + t : LineOf(j) = i
      /\ \A i, j \in 0 .. Gqa!Pos + t : LineOf(i) = LineOf(j) => i = j
    BY LinesOfTokens
<1> DEFINE g == [j \in 0 .. Gqa!Pos + t |-> <<LineOf(j), f[LineOf(j)]>>]
<1>3. \A x : x \in pairs <=> \E j \in 0 .. Gqa!Pos + t : x = <<LineOf(j), f[LineOf(j)]>>
    BY <1>1, Zenon
<1>4. g \in Bijection(0 .. Gqa!Pos + t, pairs)
    <2>1. \A j \in 0 .. Gqa!Pos + t : g[j] = <<LineOf(j), f[LineOf(j)]>>
        OBVIOUS
    <2>2. g \in Surjection(0 .. Gqa!Pos + t, pairs)
        BY <1>3, <2>1 DEF Surjection
    <2>3. \A i, j \in 0 .. Gqa!Pos + t : g[i] = g[j] => i = j
        <3>1. \A i \in 0 .. Gqa!Pos + t : g[i][1] = LineOf(i)
            BY <2>1
        <3> HIDE DEF g
        <3>2. ASSUME NEW i \in 0 .. Gqa!Pos + t, NEW j \in 0 .. Gqa!Pos + t, g[i] = g[j] PROVE i = j
            <4>1. LineOf(i) = LineOf(j)
                BY <3>1, <3>2
            <4> QED BY <1>1, <4>1
        <3> QED BY <3>2
    <2>4. g \in [0 .. Gqa!Pos + t -> pairs]
        BY <2>2 DEF Surjection
    <2> HIDE DEF g
    <2>5. g \in Injection(0 .. Gqa!Pos + t, pairs)
        BY <2>3, <2>4 DEF Injection, IsInjective
    <2> QED BY <2>2, <2>5 DEF Bijection
<1>5. /\ IsFiniteSet(0 .. Gqa!Pos + t) /\ Cardinality(0 .. Gqa!Pos + t) = Gqa!Pos + t + 1
    <2>1. Gqa!Pos \in Nat /\ t \in Nat
        BY BlockTypes
    <2>2. /\ IsFiniteSet(0 .. Gqa!Pos + t)
          /\ Cardinality(0 .. Gqa!Pos + t) = IF 0 > Gqa!Pos + t THEN 0 ELSE Gqa!Pos + t - 0 + 1
        BY <2>1, FS_Interval
    <2> QED BY <2>1, <2>2
<1>6. Cardinality(pairs) = Gqa!Pos + t + 1
    BY <1>4, <1>5, FS_Bijection DEF ExistsBijection
<1>7. {x[2] : x \in pairs} = {f[LineOf(j)] : j \in 0 .. Gqa!Pos + t}
    <2>1. \A j : <<LineOf(j), f[LineOf(j)]>>[2] = f[LineOf(j)]
        OBVIOUS
    <2>2. \A x \in pairs : \E j \in 0 .. Gqa!Pos + t : x[2] = f[LineOf(j)]
        BY <1>3, <2>1
    <2>3. \A j \in 0 .. Gqa!Pos + t : \E x \in pairs : x[2] = f[LineOf(j)]
        BY <1>3, <2>1
    <2> QED BY <2>2, <2>3
<1> QED BY <1>6, <1>7

\* A query attends to the tokens up to its own, once each.
LEMMA AnswerReads ==
    ASSUME Gqa!SizeAssumption, Gqa!TypeOK, NEW h \in 0 .. QHeads - 1, NEW t \in Gqa!Tokens
    PROVE  LET a == Answers(Gqa!Slots)[h * Gqa!T + t]
               upto == {Gqa!OwnToken(j) : j \in 0 .. Gqa!Pos + t}
           IN  /\ a.query = Gqa!QueryOf(Gqa!Id(t), h)
               /\ {x[2] : x \in a.keys} = {Gqa!KeyOf(k) : k \in upto}
               /\ {x[2] : x \in a.vals} = {Gqa!ValueOf(k) : k \in upto}
               /\ Cardinality(a.keys) = Gqa!Pos + t + 1 /\ Cardinality(a.vals) = Gqa!Pos + t + 1
<1> DEFINE col == h * Gqa!T + t
           a == Answers(Gqa!Slots)[col]
           upto == {Gqa!OwnToken(j) : j \in 0 .. Gqa!Pos + t}
           keys == {<<i, Gqa!KeyOf(TokenAt(i))>> : i \in Kept(Gqa!Slots, t)}
           vals == {<<i, Gqa!ValueOf(TokenAt(i))>> : i \in Kept(Gqa!Slots, t)}
<1>1. col \in 0 .. QHeads * Gqa!T - 1 /\ col \div Gqa!T = h /\ col % Gqa!T = t
    <2>1. Gqa!T \in Nat \ {0} /\ t \in 0 .. Gqa!T - 1 /\ QHeads \in Nat
        BY BlockTypes, Sizes
    <2>2. Splits(h * Gqa!T + t, Gqa!T, h, t)
        BY <2>1, SMT DEF Splits
    <2>3. h * Gqa!T + t \in 0 .. QHeads * Gqa!T - 1
        BY <2>1, Packed
    <2> QED BY <2>2, <2>3, DivModUnique, Zenon
<1> HIDE DEF col
<1>2. a = [query |-> Gqa!QueryOf(Gqa!Id(t), h), keys |-> keys, vals |-> vals]
    BY <1>1, Zenon DEF Answers
<1>3. a.query = Gqa!QueryOf(Gqa!Id(t), h) /\ a.keys = keys /\ a.vals = vals
    <2> HIDE DEF a, keys, vals
    <2> QED BY <1>2
<1> DEFINE f == [i \in Gqa!Slots |-> Gqa!KeyOf(TokenAt(i))]
           g == [i \in Gqa!Slots |-> Gqa!ValueOf(TokenAt(i))]
<1>4. \A i \in Kept(Gqa!Slots, t) : f[i] = Gqa!KeyOf(TokenAt(i)) /\ g[i] = Gqa!ValueOf(TokenAt(i))
    BY Zenon DEF Kept
<1>5. \A j \in 0 .. Gqa!Pos + t : LineOf(j) \in Kept(Gqa!Slots, t) /\
        TokenAt(LineOf(j)) = Gqa!OwnToken(j)
    BY LinesOfTokens
<1> HIDE DEF f, g
<1>6. /\ \A x : x \in keys <=> \E i \in Kept(Gqa!Slots, t) : x = <<i, f[i]>>
      /\ \A x : x \in vals <=> \E i \in Kept(Gqa!Slots, t) : x = <<i, g[i]>>
    BY <1>4
<1> HIDE DEF keys, vals
<1>7. /\ {x[2] : x \in keys} = {f[LineOf(j)] : j \in 0 .. Gqa!Pos + t}
      /\ Cardinality(keys) = Gqa!Pos + t + 1
    BY <1>6, PairsOfTokens
<1>8. /\ {x[2] : x \in vals} = {g[LineOf(j)] : j \in 0 .. Gqa!Pos + t}
      /\ Cardinality(vals) = Gqa!Pos + t + 1
    BY <1>6, PairsOfTokens
<1>9. \A j \in 0 .. Gqa!Pos + t :
        /\ f[LineOf(j)] = Gqa!KeyOf(Gqa!OwnToken(j))
        /\ g[LineOf(j)] = Gqa!ValueOf(Gqa!OwnToken(j))
    BY <1>4, <1>5
<1>10. {f[LineOf(j)] : j \in 0 .. Gqa!Pos + t} = {Gqa!KeyOf(k) : k \in upto}
    BY <1>9
<1>11. {g[LineOf(j)] : j \in 0 .. Gqa!Pos + t} = {Gqa!ValueOf(k) : k \in upto}
    BY <1>9
<1> HIDE DEF a
<1> QED BY <1>3, <1>7, <1>8, <1>10, <1>11, Zenon DEF a, col

\* The layer's module counts as this one does.
LEMMA SameCardinality ==
    ASSUME NEW S
    PROVE  Gqa!Cardinality(S) = Cardinality(S)
BY Zenon DEF Gqa!Cardinality, Cardinality

\* A query of a block attends to every token of the request before it and to the
\* block up to itself, each once, and to nothing stale, rejected or ahead.
THEOREM QueriesSeeHistory ==
    ASSUME Gqa!SizeAssumption
    PROVE  Gqa!Spec => []Gqa!QueriesReadHistory
<1>1. AttnInv => Gqa!QueriesReadHistory
    <2> SUFFICES ASSUME AttnInv, NEW c \in Gqa!Core, pc[c] \in {"write", "output"},
                        NEW h \in 0 .. QHeads - 1, NEW t \in Gqa!Tokens
                 PROVE  LET a == att[c][h * Gqa!T + t]
                            upto == {Gqa!OwnToken(j) : j \in 0 .. Gqa!Pos + t}
                        IN  /\ a.query = Gqa!QueryOf(Gqa!Id(t), h)
                            /\ {x[2] : x \in a.keys} = {Gqa!KeyOf(k) : k \in upto}
                            /\ {x[2] : x \in a.vals} = {Gqa!ValueOf(k) : k \in upto}
                            /\ Gqa!Cardinality(a.keys) = Gqa!Pos + t + 1
                            /\ Gqa!Cardinality(a.vals) = Gqa!Pos + t + 1
        BY Zenon DEF Gqa!QueriesReadHistory
    <2>1. att[c] = Answers(Gqa!Slots)
        BY DEF AttnInv, CoreInv
    <2> QED BY <2>1, AnswerReads, SameCardinality, Zenon DEF AttnInv
<1> QED BY <1>1, AttnInvariant, PTL
=============================================================================
