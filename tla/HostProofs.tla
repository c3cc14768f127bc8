------------------------------ MODULE HostProofs ------------------------------
(***************************************************************************)
(* The theorems about the parts of Host.  Those of HybridCacheProofs hold   *)
(* for the two ways Host fills a cache: by chunks and by whole prompts.     *)
(***************************************************************************)
EXTENDS Host, SequencesExt, SequenceTheorems, FiniteSetTheorems, WellFoundedInduction,
    NaturalsInduction, TLAPS

\* A behaviour runs one part.
LEMMA SamePart ==
    ASSUME [Next]_vars
    PROVE  running' = running
BY DEF Next, vars

(***************************************************************************)
(* Sequences of sequences, as the parts flatten them.                       *)
(***************************************************************************)
\* flat[i] is the concatenation of the first i of the sequences.
Flat(flat, n, seqs) ==
    flat = [i \in 1 .. n |-> IF i = 1 THEN seqs[i] ELSE flat[i - 1] \o seqs[i]]

\* A set of naturals has a least element.
LEMMA LeastNat ==
    ASSUME NEW S \in SUBSET Nat, S # {}
    PROVE  \E m \in S : \A k \in Nat : k < m => k \notin S
<1>1. PICK m \in S : \A x \in S : ~(<<x, m>> \in OpToRel(<, Nat))
    <2>1. IsWellFoundedOn(OpToRel(<, Nat), Nat)
        BY NatLessThanWellFounded
    <2> QED BY <2>1, WFMin
<1> QED BY <1>1 DEF OpToRel

\* There is such a function: if not, for a least n, which its n - 1 extends to.
LEMMA FlatExists ==
    ASSUME NEW seqs, NEW n \in Nat
    PROVE  \E flat : Flat(flat, n, seqs)
<1> DEFINE Bad == {m \in Nat : ~ \E flat : Flat(flat, m, seqs)}
<1> SUFFICES ASSUME n \in Bad PROVE FALSE
    OBVIOUS
<1>1. PICK m \in Bad : \A k \in Nat : k < m => k \notin Bad
    <2> HIDE DEF Bad
    <2>1. Bad \in SUBSET Nat BY DEF Bad
    <2> QED BY <2>1, LeastNat
<1>2. CASE m = 0
    <2>1. Flat([i \in 1 .. 0 |-> i], 0, seqs)
        BY DEF Flat
    <2> QED BY <2>1, <1>2
<1>3. CASE m # 0
    <2>1. m - 1 \in Nat /\ m - 1 < m
        BY <1>3
    <2>2. m - 1 \notin Bad
        BY <1>1, <2>1
    <2>3. PICK flat : Flat(flat, m - 1, seqs)
        BY <2>1, <2>2
    <2> DEFINE longer == [i \in 1 .. m |-> IF i = 1 THEN seqs[i] ELSE flat[i - 1] \o seqs[i]]
    <2>4. \A i \in 1 .. m - 1 : longer[i] = flat[i]
        <3> SUFFICES ASSUME NEW i \in 1 .. m - 1 PROVE longer[i] = flat[i]
            OBVIOUS
        <3>1. i \in 1 .. m
            BY <1>3
        <3>2. longer[i] = IF i = 1 THEN seqs[i] ELSE flat[i - 1] \o seqs[i]
            BY <3>1
        <3>3. flat[i] = IF i = 1 THEN seqs[i] ELSE flat[i - 1] \o seqs[i]
            BY ONLY <2>3, i \in 1 .. m - 1, Zenon DEF Flat
        <3> QED BY <3>2, <3>3
    <2>5. Flat(longer, m, seqs)
        <3>1. \A i \in 1 .. m : i # 1 => i - 1 \in 1 .. m - 1
            BY <1>3
        <3> QED BY <2>4, <3>1, Zenon DEF Flat
    <2> HIDE DEF longer
    <2> QED BY <2>5
<1> QED BY <1>2, <1>3

\* FlattenSeq, by the sequences it is built up from.
LEMMA FlattenSeqIsFlat ==
    ASSUME NEW seqs, Len(seqs) \in Nat \ {0}
    PROVE  \E flat : /\ Flat(flat, Len(seqs), seqs)
                     /\ FlattenSeq(seqs) = flat[Len(seqs)]
<1> DEFINE flat == CHOOSE f : f = [i \in 1 .. Len(seqs) |->
                                     IF i = 1 THEN seqs[i] ELSE f[i - 1] \o seqs[i]]
<1>1. FlattenSeq(seqs) = flat[Len(seqs)]
    BY DEF FlattenSeq
<1>2. \E f : f = [i \in 1 .. Len(seqs) |-> IF i = 1 THEN seqs[i] ELSE f[i - 1] \o seqs[i]]
    BY FlatExists DEF Flat
<1>3. Flat(flat, Len(seqs), seqs)
    BY <1>2 DEF Flat
<1> QED BY <1>1, <1>3

\* The first of the sequences stands alone, every other is appended.
LEMMA FlatStep ==
    ASSUME NEW seqs, NEW n \in Nat, NEW flat, Flat(flat, n, seqs)
    PROVE  \A i \in 1 .. n : flat[i] = IF i = 1 THEN seqs[i] ELSE flat[i - 1] \o seqs[i]
<1> TAKE i \in 1 .. n
<1>1. flat[i] = IF i = 1 THEN seqs[i] ELSE flat[i - 1] \o seqs[i]
    BY ONLY Flat(flat, n, seqs), i \in 1 .. n, Zenon DEF Flat
<1> QED BY <1>1

\* c is a and b one behind the other, element by element.
Joined(c, a, b) ==
    /\ Len(c) = Len(a) + Len(b)
    /\ \A i \in 1 .. Len(a) : c[i] = a[i]
    /\ \A i \in 1 .. Len(b) : c[Len(a) + i] = b[i]
    /\ \A i \in 1 .. Len(a) + Len(b) : c[i] = IF i <= Len(a) THEN a[i] ELSE b[i - Len(a)]

\* A concatenation, element by element.
LEMMA ConcatJoins ==
    ASSUME NEW S, NEW a \in Seq(S), NEW b \in Seq(S)
    PROVE  a \o b \in Seq(S) /\ Joined(a \o b, a, b)
<1>1. a \o b \in Seq(S) /\ Len(a \o b) = Len(a) + Len(b)
    BY ConcatProperties
<1>2. \A i \in 1 .. Len(a) + Len(b) :
                (a \o b)[i] = IF i <= Len(a) THEN a[i] ELSE b[i - Len(a)]
    BY ConcatProperties
<1>3. Len(a) \in Nat /\ Len(b) \in Nat
    OBVIOUS
<1> QED BY <1>1, <1>2, <1>3 DEF Joined

\* The elements keep their set.
LEMMA FlatTyped ==
    ASSUME NEW S, NEW seqs, Len(seqs) \in Nat,
           \A i \in 1 .. Len(seqs) : seqs[i] \in Seq(S), NEW flat, Flat(flat, Len(seqs), seqs)
    PROVE  \A i \in 1 .. Len(seqs) : flat[i] \in Seq(S)
<1> DEFINE Bad == {i \in 1 .. Len(seqs) : flat[i] \notin Seq(S)}
<1>0. Len(seqs) \in Nat /\ \A i \in 1 .. Len(seqs) : seqs[i] \in Seq(S)
    OBVIOUS
<1>6. \A i \in 1 .. Len(seqs) : flat[i] = IF i = 1 THEN seqs[i] ELSE flat[i - 1] \o seqs[i]
    BY <1>0, FlatStep
<1> SUFFICES ASSUME Bad # {} PROVE FALSE
    OBVIOUS
<1>1. PICK m \in Bad : \A k \in Nat : k < m => k \notin Bad
    <2>1. Bad \in SUBSET Nat BY <1>0
    <2> HIDE DEF Bad
    <2> QED BY <2>1, LeastNat
<1>2. m \in 1 .. Len(seqs) /\ m \in Int /\ flat[m] \notin Seq(S)
    BY <1>0, <1>1
<1> HIDE DEF Bad
<1>3. CASE m = 1
    BY <1>0, <1>2, <1>3, <1>6
<1>4. CASE m # 1
    <2>1. m - 1 \in Nat /\ m - 1 < m /\ m - 1 \in 1 .. Len(seqs)
        BY <1>0, <1>2, <1>4
    <2>2. flat[m - 1] \in Seq(S)
        BY <1>1, <2>1, <1>2 DEF Bad
    <2>3. flat[m] = flat[m - 1] \o seqs[m]
        BY <1>0, <1>2, <1>4, <1>6
    <2> QED BY <1>0, <1>2, <2>2, <2>3, ConcatJoins
<1> QED BY <1>3, <1>4

\* s holds the first n of the pairs of seqs, pair i in places 2 * i - 1 and 2 * i.
Paired(s, n, seqs) ==
    /\ Len(s) = 2 * n
    /\ \A j \in 1 .. n : s[2 * j - 1] = seqs[j][1] /\ s[2 * j] = seqs[j][2]

\* The concatenations of pairs hold them in their order.
LEMMA FlatPairs ==
    ASSUME NEW S, NEW seqs, Len(seqs) \in Nat,
           \A i \in 1 .. Len(seqs) : seqs[i] \in Seq(S), NEW flat, Flat(flat, Len(seqs), seqs),
           \A i \in 1 .. Len(seqs) : Len(seqs[i]) = 2
    PROVE  \A i \in 1 .. Len(seqs) : Paired(flat[i], i, seqs)
<1> USE DEF Paired
<1> DEFINE Good(i) == Paired(flat[i], i, seqs)
           Bad == {i \in 1 .. Len(seqs) : ~Good(i)}
<1>0. Len(seqs) \in Nat /\ \A i \in 1 .. Len(seqs) : seqs[i] \in Seq(S)
    OBVIOUS
<1>6. \A i \in 1 .. Len(seqs) : flat[i] = IF i = 1 THEN seqs[i] ELSE flat[i - 1] \o seqs[i]
    BY <1>0, FlatStep
<1>7. \A i \in 1 .. Len(seqs) : flat[i] \in Seq(S)
    BY FlatTyped
<1> SUFFICES ASSUME Bad # {} PROVE FALSE
    OBVIOUS
<1>1. PICK m \in Bad : \A k \in Nat : k < m => k \notin Bad
    <2>1. Bad \in SUBSET Nat BY <1>0
    <2> HIDE DEF Bad
    <2> QED BY <2>1, LeastNat
<1>2. m \in 1 .. Len(seqs) /\ m \in Int
    BY <1>0, <1>1
<1>5. ~Good(m)
    BY <1>1
<1> HIDE DEF Bad
<1>3. CASE m = 1
    <2>1. flat[1] = seqs[1]
        BY <1>0, <1>2, <1>3, <1>6
    <2>2. Good(1)
        BY <2>1, <1>2, <1>3
    <2> QED BY <1>5, <1>3, <2>2
<1>4. CASE m # 1
    <2>1. m - 1 \in Nat /\ m - 1 < m /\ m - 1 \in 1 .. Len(seqs)
        BY <1>0, <1>2, <1>4
    <2>2. Good(m - 1)
        BY <1>1, <2>1, <1>2 DEF Bad
    <2>3. flat[m] = flat[m - 1] \o seqs[m]
        BY <1>0, <1>2, <1>4, <1>6
    <2>4. flat[m - 1] \in Seq(S) /\ seqs[m] \in Seq(S)
        BY <1>0, <1>2, <2>1, <1>7
    <2>8. Joined(flat[m], flat[m - 1], seqs[m])
        BY <2>3, <2>4, ConcatJoins
    <2>5. Len(flat[m - 1]) = 2 * m - 2 /\ Len(seqs[m]) = 2
        BY <2>1, <2>2, <1>2
    <2>6. Len(flat[m]) = 2 * m
        BY <1>2, <2>5, <2>8 DEF Joined
    <2>7. ASSUME NEW j \in 1 .. m
          PROVE  flat[m][2 * j - 1] = seqs[j][1] /\ flat[m][2 * j] = seqs[j][2]
        <3>1. CASE j = m
            <4>1. \A i \in 1 .. 2 : flat[m][2 * m - 2 + i] = seqs[m][i]
                BY <2>5, <2>8 DEF Joined
            <4>2. flat[m][2 * m - 2 + 1] = seqs[m][1] /\ flat[m][2 * m - 2 + 2] = seqs[m][2]
                BY <4>1
            <4>3. 2 * m - 2 + 1 = 2 * m - 1 /\ 2 * m - 2 + 2 = 2 * m
                BY <1>2
            <4> QED BY <3>1, <4>2, <4>3
        <3>2. CASE j # m
            <4>1. j \in 1 .. m - 1
                BY <3>2, <1>2
            <4>2. 2 * j - 1 \in 1 .. 2 * m - 2 /\ 2 * j \in 1 .. 2 * m - 2
                BY <4>1, <1>2
            <4>3. \A i \in 1 .. 2 * m - 2 : flat[m][i] = flat[m - 1][i]
                BY <2>5, <2>8 DEF Joined
            <4> QED BY <4>1, <4>2, <4>3, <2>2
        <3> QED BY <3>1, <3>2
    <2> QED BY <1>5, <2>6, <2>7
<1> QED BY <1>3, <1>4

\* And so does FlattenSeq.
LEMMA FlattenPairs ==
    ASSUME NEW S, NEW seqs, Len(seqs) \in Nat \ {0},
           \A i \in 1 .. Len(seqs) : seqs[i] \in Seq(S),
           \A i \in 1 .. Len(seqs) : Len(seqs[i]) = 2
    PROVE  FlattenSeq(seqs) \in Seq(S) /\ Paired(FlattenSeq(seqs), Len(seqs), seqs)
<1>1. PICK flat : Flat(flat, Len(seqs), seqs) /\ FlattenSeq(seqs) = flat[Len(seqs)]
    BY FlattenSeqIsFlat
<1>2. Len(seqs) \in Nat /\ Len(seqs) \in 1 .. Len(seqs)
    OBVIOUS
<1>3. \A i \in 1 .. Len(seqs) : flat[i] \in Seq(S)
    BY <1>1, <1>2, FlatTyped
<1>4. \A i \in 1 .. Len(seqs) : Paired(flat[i], i, seqs)
    BY <1>1, <1>2, FlatPairs
<1> QED BY <1>1, <1>2, <1>3, <1>4

\* a and b are of one length, and R relates them place by place.
Related(a, b, R) == Len(a) = Len(b) /\ \A x \in 1 .. Len(a) : <<a[x], b[x]>> \in R

\* Sequences whose elements are related place by place have concatenations
\* whose elements are related place by place.
LEMMA FlatRelated ==
    ASSUME NEW S, NEW T, NEW R,
           NEW a, NEW b, Len(a) \in Nat, Len(a) = Len(b),
           \A i \in 1 .. Len(a) : a[i] \in Seq(S) /\ b[i] \in Seq(T),
           \A i \in 1 .. Len(a) : Related(a[i], b[i], R),
           NEW flat, Flat(flat, Len(a), a), NEW flatB, Flat(flatB, Len(b), b)
    PROVE  \A i \in 1 .. Len(a) : Related(flat[i], flatB[i], R)
<1> USE DEF Related
<1> DEFINE Good(i) == Related(flat[i], flatB[i], R)
           Bad == {i \in 1 .. Len(a) : ~Good(i)}
<1>0. /\ Len(a) \in Nat
      /\ \A i \in 1 .. Len(a) : a[i] \in Seq(S) /\ b[i] \in Seq(T)
    OBVIOUS
<1>6. /\ \A i \in 1 .. Len(a) : flat[i] = IF i = 1 THEN a[i] ELSE flat[i - 1] \o a[i]
      /\ \A i \in 1 .. Len(a) : flatB[i] = IF i = 1 THEN b[i] ELSE flatB[i - 1] \o b[i]
    BY <1>0, FlatStep
<1>7. \A i \in 1 .. Len(a) : flat[i] \in Seq(S) /\ flatB[i] \in Seq(T)
    <2>1. \A i \in 1 .. Len(a) : flat[i] \in Seq(S)
        BY FlatTyped
    <2>2. \A i \in 1 .. Len(b) : flatB[i] \in Seq(T)
        BY FlatTyped
    <2> QED BY <2>1, <2>2
<1> SUFFICES ASSUME Bad # {} PROVE FALSE
    OBVIOUS
<1>1. PICK m \in Bad : \A k \in Nat : k < m => k \notin Bad
    <2>1. Bad \in SUBSET Nat BY <1>0
    <2> HIDE DEF Bad
    <2> QED BY <2>1, LeastNat
<1>2. m \in 1 .. Len(a) /\ m \in Int
    BY <1>0, <1>1
<1>5. ~Good(m)
    BY <1>1
<1> HIDE DEF Bad
<1>3. CASE m = 1
    <2>1. flat[1] = a[1] /\ flatB[1] = b[1]
        BY <1>0, <1>2, <1>3, <1>6
    <2>2. Good(1)
        BY <2>1, <1>2, <1>3
    <2> QED BY <1>5, <1>3, <2>2
<1>4. CASE m # 1
    <2>1. m - 1 \in Nat /\ m - 1 < m /\ m - 1 \in 1 .. Len(a)
        BY <1>0, <1>2, <1>4
    <2>2. Good(m - 1)
        BY <1>1, <2>1, <1>2 DEF Bad
    <2>3. flat[m] = flat[m - 1] \o a[m] /\ flatB[m] = flatB[m - 1] \o b[m]
        BY <1>0, <1>2, <1>4, <1>6
    <2>4. flat[m - 1] \in Seq(S) /\ a[m] \in Seq(S) /\ flatB[m - 1] \in Seq(T) /\ b[m] \in Seq(T)
        BY <1>0, <1>2, <2>1, <1>7
    <2>7. Joined(flat[m], flat[m - 1], a[m])
        BY <2>3, <2>4, ConcatJoins
    <2>8. Joined(flatB[m], flatB[m - 1], b[m])
        BY <2>3, <2>4, ConcatJoins
    <2>5. Len(flat[m]) = Len(flatB[m])
        BY <2>2, <2>7, <2>8, <1>2 DEF Joined
    <2>6. ASSUME NEW x \in 1 .. Len(flat[m])
          PROVE  <<flat[m][x], flatB[m][x]>> \in R
        <3> DEFINE l == Len(flat[m - 1])
        <3>1. l \in Nat /\ l = Len(flatB[m - 1]) /\ Len(a[m]) \in Nat /\ Len(a[m]) = Len(b[m])
            BY <2>2, <2>4, <1>2
        <3>2. x \in 1 .. l + Len(a[m])
            BY <2>7 DEF Joined
        <3>3. /\ flat[m][x] = IF x <= l THEN flat[m - 1][x] ELSE a[m][x - l]
              /\ flatB[m][x] = IF x <= l THEN flatB[m - 1][x] ELSE b[m][x - l]
            BY <3>1, <3>2, <2>7, <2>8 DEF Joined
        <3>4. CASE x <= l
            BY <3>1, <3>2, <3>3, <3>4, <2>2
        <3>5. CASE ~(x <= l)
            <4>1. x - l \in 1 .. Len(a[m])
                <5>1. PICK p, q \in Nat : p = l /\ q = Len(a[m])
                    BY <3>1
                <5> HIDE DEF l
                <5>2. x \in 1 .. p + q /\ ~(x <= p)
                    BY <3>2, <3>5, <5>1
                <5>3. x - p \in 1 .. q
                    BY ONLY p \in Nat, q \in Nat, <5>2
                <5> QED BY <5>1, <5>3
            <4> QED BY <3>3, <3>5, <4>1, <1>2
        <3> QED BY <3>4, <3>5
    <2> QED BY <1>5, <2>5, <2>6
<1> QED BY <1>3, <1>4

\* And so has FlattenSeq.
LEMMA FlattenRelated ==
    ASSUME NEW S, NEW T, NEW R, NEW a, NEW b, Len(a) \in Nat \ {0}, Len(a) = Len(b),
           \A i \in 1 .. Len(a) : a[i] \in Seq(S) /\ b[i] \in Seq(T),
           \A i \in 1 .. Len(a) : Related(a[i], b[i], R)
    PROVE  /\ FlattenSeq(a) \in Seq(S) /\ FlattenSeq(b) \in Seq(T)
           /\ Related(FlattenSeq(a), FlattenSeq(b), R)
<1>1. PICK flat : Flat(flat, Len(a), a) /\ FlattenSeq(a) = flat[Len(a)]
    BY FlattenSeqIsFlat
<1>2. PICK flatB : Flat(flatB, Len(b), b) /\ FlattenSeq(b) = flatB[Len(b)]
    BY FlattenSeqIsFlat
<1>3. Len(a) \in Nat /\ Len(a) \in 1 .. Len(a)
    OBVIOUS
<1>4. \A i \in 1 .. Len(a) : flat[i] \in Seq(S)
    BY <1>1, <1>3, FlatTyped
<1>5. \A i \in 1 .. Len(b) : flatB[i] \in Seq(T)
    BY <1>2, <1>3, FlatTyped
<1>6. \A i \in 1 .. Len(a) : Related(flat[i], flatB[i], R)
    BY <1>1, <1>2, <1>3, FlatRelated
<1> QED BY <1>1, <1>2, <1>3, <1>4, <1>5, <1>6

(***************************************************************************)
(* The paths through a layer.                                               *)
(***************************************************************************)
\* Items come in stages; what matters to layer l is the embedding of its
\* owner, its attention and the store of its owner, in turn.
Owner(l) == IF l = Paths!Mtp THEN "mtp" ELSE "trunk"
EmbedOf(l) == <<"embed", Owner(l)>>
AttnOf(l) == <<"attn", l>>
StoreOf(l) == <<"store", Owner(l)>>
Turns(l) == {EmbedOf(l), AttnOf(l), StoreOf(l)}

\* An item of a call's work.
Entry == ({"embed", "head", "store"} \X {"trunk", "mtp"}) \cup ({"attn", "moe"} \X Paths!Layer)

\* Behind place i of s, the next turn of layer l is x.
Upcoming(s, i, l, x) ==
    \E j \in i + 1 .. Len(s) : s[j] = x /\ \A k \in i + 1 .. j - 1 : s[k] \notin Turns(l)
Quiet(s, i, l) == \A j \in i + 1 .. Len(s) : s[j] \notin Turns(l)
Between(s, i, l) == Quiet(s, i, l) \/ Upcoming(s, i, l, EmbedOf(l))

\* Behind a turn of a layer comes the next one.
InTurn(s) ==
    \A i \in 1 .. Len(s) : \A l \in Paths!Layer :
        /\ s[i] = EmbedOf(l) => Upcoming(s, i, l, AttnOf(l))
        /\ s[i] = AttnOf(l) => Upcoming(s, i, l, StoreOf(l))
        /\ s[i] = StoreOf(l) => Between(s, i, l)

\* s is made of whole stages.
Staged(s) == s \in Seq(Entry) /\ InTurn(s) /\ \A l \in Paths!Layer : Between(s, 0, l)

\* The layers of a build: the trunk, and the drafter's one after it.
LEMMA PathConstants ==
    /\ Len(PathTypes) \in Nat \ {0} /\ Paths!Mtp \in Int /\ Paths!Mtp = Len(PathTypes) + 1
    /\ Paths!Mtp \in Paths!Layer /\ Paths!Trunk = Paths!Layer \ {Paths!Mtp}
    /\ Paths!Layers("mtp") = {Paths!Mtp} /\ Paths!Layers("trunk") = Paths!Trunk
    /\ \A l \in Paths!Layer : l \in Int /\ Owner(l) \in {"trunk", "mtp"}
         /\ l \in Paths!Layers(Owner(l))
    /\ \A l \in Paths!Layer, o \in {"trunk", "mtp"} : l \in Paths!Layers(o) <=> Owner(l) = o
<1>1. Len(PathTypes) \in Nat \ {0}
    BY PathsAssumption DEF Paths!LayerAssumption
<1> QED BY <1>1 DEF Paths!Mtp, Paths!Layer, Paths!Trunk, Paths!Layers, Owner

\* One turn at a time.
LEMMA OneTurn ==
    ASSUME NEW s, Len(s) \in Nat, NEW i \in Nat, NEW l \in Paths!Layer,
           NEW x \in Turns(l), Upcoming(s, i, l, x)
    PROVE  /\ ~Quiet(s, i, l)
           /\ \A y \in Turns(l) : Upcoming(s, i, l, y) => x = y
<1>1. PICK j \in i + 1 .. Len(s) : s[j] = x /\ \A k \in i + 1 .. j - 1 : s[k] \notin Turns(l)
    BY DEF Upcoming
<1>2. ~Quiet(s, i, l)
    BY <1>1 DEF Quiet
<1>3. ASSUME NEW y \in Turns(l), Upcoming(s, i, l, y)
      PROVE  x = y
    <2>1. PICK m \in i + 1 .. Len(s) : s[m] = y /\ \A k \in i + 1 .. m - 1 : s[k] \notin Turns(l)
        BY <1>3 DEF Upcoming
    <2> HIDE DEF Turns
    <2>2. CASE j < m
        <3>1. j \in i + 1 .. m - 1
            BY <2>2
        <3> QED BY <1>1, <2>1, <3>1
    <2>3. CASE m < j
        <3>1. m \in i + 1 .. j - 1
            BY <2>3
        <3> QED BY <1>1, <2>1, <3>1
    <2>4. CASE m = j
        BY <1>1, <2>1, <2>4
    <2> QED BY <2>2, <2>3, <2>4
<1> QED BY <1>2, <1>3

\* The turns of EmbedOf, AttnOf, StoreOf differ.
LEMMA TurnsDiffer ==
    ASSUME NEW l \in Paths!Layer
    PROVE  /\ EmbedOf(l) # AttnOf(l) /\ AttnOf(l) # StoreOf(l) /\ EmbedOf(l) # StoreOf(l)
           /\ EmbedOf(l) \in Turns(l) /\ AttnOf(l) \in Turns(l) /\ StoreOf(l) \in Turns(l)
BY DEF EmbedOf, AttnOf, StoreOf, Turns

\* What is ahead of a sequence is, behind its first item, ahead of its tail.
LEMMA TurnsOfTail ==
    ASSUME NEW s \in Seq(Entry), s # << >>, NEW i \in Nat, NEW l \in Paths!Layer, NEW x
    PROVE  /\ Upcoming(Tail(s), i, l, x) <=> Upcoming(s, i + 1, l, x)
           /\ Quiet(Tail(s), i, l) <=> Quiet(s, i + 1, l)
<1>1. /\ Len(Tail(s)) = Len(s) - 1 /\ Len(s) \in Nat
      /\ \A j \in 1 .. Len(s) - 1 : Tail(s)[j] = s[j + 1]
    OBVIOUS
<1> DEFINE t == Tail(s)
<1> HIDE DEF t
<1>2. Len(t) = Len(s) - 1 /\ \A j \in 1 .. Len(s) - 1 : t[j] = s[j + 1]
    BY <1>1 DEF t
<1>3. ASSUME Upcoming(t, i, l, x) PROVE Upcoming(s, i + 1, l, x)
    <2>1. PICK j \in i + 1 .. Len(t) : t[j] = x /\ \A k \in i + 1 .. j - 1 : t[k] \notin Turns(l)
        BY <1>3 DEF Upcoming
    <2>2. j + 1 \in (i + 1) + 1 .. Len(s) /\ s[j + 1] = x
        BY <2>1, <1>1, <1>2
    <2>3. ASSUME NEW k \in (i + 1) + 1 .. (j + 1) - 1 PROVE s[k] \notin Turns(l)
        <3>1. k - 1 \in i + 1 .. j - 1 /\ k - 1 \in 1 .. Len(s) - 1 /\ (k - 1) + 1 = k
            BY <1>1, <1>2
        <3> QED BY <2>1, <3>1, <1>2
    <2> QED BY <2>2, <2>3 DEF Upcoming
<1>4. ASSUME Upcoming(s, i + 1, l, x) PROVE Upcoming(t, i, l, x)
    <2>1. PICK j \in (i + 1) + 1 .. Len(s) :
              s[j] = x /\ \A k \in (i + 1) + 1 .. j - 1 : s[k] \notin Turns(l)
        BY <1>4 DEF Upcoming
    <2>2. j - 1 \in i + 1 .. Len(t) /\ j - 1 \in 1 .. Len(s) - 1 /\ (j - 1) + 1 = j
        BY <1>1, <1>2
    <2>3. t[j - 1] = x
        BY <2>1, <2>2, <1>2
    <2>4. ASSUME NEW k \in i + 1 .. (j - 1) - 1 PROVE t[k] \notin Turns(l)
        <3>1. k + 1 \in (i + 1) + 1 .. j - 1 /\ k \in 1 .. Len(s) - 1
            BY <1>1, <1>2
        <3> QED BY <2>1, <3>1, <1>2
    <2> QED BY <2>2, <2>3, <2>4 DEF Upcoming
<1>5. ASSUME Quiet(t, i, l) PROVE Quiet(s, i + 1, l)
    <2> SUFFICES ASSUME NEW j \in (i + 1) + 1 .. Len(s) PROVE s[j] \notin Turns(l)
        BY DEF Quiet
    <2>1. j - 1 \in i + 1 .. Len(t) /\ j - 1 \in 1 .. Len(s) - 1 /\ (j - 1) + 1 = j
        BY <1>1, <1>2
    <2> QED BY <1>5, <2>1, <1>2 DEF Quiet
<1>6. ASSUME Quiet(s, i + 1, l) PROVE Quiet(t, i, l)
    <2> SUFFICES ASSUME NEW j \in i + 1 .. Len(t) PROVE t[j] \notin Turns(l)
        BY DEF Quiet
    <2>1. j + 1 \in (i + 1) + 1 .. Len(s) /\ j \in 1 .. Len(s) - 1
        BY <1>1, <1>2
    <2> QED BY <1>6, <2>1, <1>2 DEF Quiet
<1> QED BY <1>3, <1>4, <1>5, <1>6 DEF t

\* The turns of the tail follow as those of the sequence.
LEMMA InTurnTail ==
    ASSUME NEW s \in Seq(Entry), s # << >>, InTurn(s)
    PROVE  Tail(s) \in Seq(Entry) /\ InTurn(Tail(s))
<1>1. /\ Len(Tail(s)) = Len(s) - 1 /\ Len(s) \in Nat /\ Tail(s) \in Seq(Entry)
      /\ \A j \in 1 .. Len(s) - 1 : Tail(s)[j] = s[j + 1]
    OBVIOUS
<1>2. ASSUME NEW i \in 1 .. Len(s) - 1, NEW l \in Paths!Layer
      PROVE  /\ s[i + 1] = EmbedOf(l) => Upcoming(Tail(s), i, l, AttnOf(l))
             /\ s[i + 1] = AttnOf(l) => Upcoming(Tail(s), i, l, StoreOf(l))
             /\ s[i + 1] = StoreOf(l) => Between(Tail(s), i, l)
    <2>1. i + 1 \in 1 .. Len(s) /\ i \in Nat
        BY <1>1
    <2>2. /\ s[i + 1] = EmbedOf(l) => Upcoming(s, i + 1, l, AttnOf(l))
          /\ s[i + 1] = AttnOf(l) => Upcoming(s, i + 1, l, StoreOf(l))
          /\ s[i + 1] = StoreOf(l) => Between(s, i + 1, l)
        BY <2>1 DEF InTurn
    <2>3. /\ \A x : Upcoming(Tail(s), i, l, x) <=> Upcoming(s, i + 1, l, x)
          /\ Quiet(Tail(s), i, l) <=> Quiet(s, i + 1, l)
        BY <2>1, TurnsOfTail
    <2> QED BY <2>2, <2>3 DEF Between
<1> QED BY <1>1, <1>2 DEF InTurn

\* What happens to the turns of a layer when an item is taken off.
LEMMA NextTurn ==
    ASSUME NEW s \in Seq(Entry), s # << >>, InTurn(s), NEW l \in Paths!Layer
    PROVE  /\ s[1] = EmbedOf(l) => Upcoming(Tail(s), 0, l, AttnOf(l))
           /\ s[1] = AttnOf(l) => Upcoming(Tail(s), 0, l, StoreOf(l))
           /\ s[1] = StoreOf(l) => Between(Tail(s), 0, l)
           /\ s[1] \in Turns(l) => Upcoming(s, 0, l, s[1])
           /\ s[1] \notin Turns(l) =>
                 /\ \A x \in Turns(l) : Upcoming(Tail(s), 0, l, x) <=> Upcoming(s, 0, l, x)
                 /\ Quiet(Tail(s), 0, l) <=> Quiet(s, 0, l)
<1>1. Len(s) \in Nat /\ 1 \in 1 .. Len(s) /\ 1 \in 0 + 1 .. Len(s)
    OBVIOUS
<1>2. /\ \A x : Upcoming(Tail(s), 0, l, x) <=> Upcoming(s, 1, l, x)
      /\ Quiet(Tail(s), 0, l) <=> Quiet(s, 1, l)
    BY TurnsOfTail
<1>3. s[1] \in Turns(l) => Upcoming(s, 0, l, s[1])
    <2>1. 0 + 1 .. 1 - 1 = {}
        OBVIOUS
    <2> QED BY <1>1, <2>1 DEF Upcoming
<1>4. ASSUME s[1] \notin Turns(l), NEW x
      PROVE  Upcoming(s, 1, l, x) => Upcoming(s, 0, l, x)
    <2> SUFFICES ASSUME Upcoming(s, 1, l, x) PROVE Upcoming(s, 0, l, x)
        OBVIOUS
    <2>1. PICK j \in 2 .. Len(s) : s[j] = x /\ \A k \in 2 .. j - 1 : s[k] \notin Turns(l)
        BY DEF Upcoming
    <2>2. \A k \in 0 + 1 .. j - 1 : k = 1 \/ k \in 2 .. j - 1
        OBVIOUS
    <2> QED BY <1>1, <1>4, <2>1, <2>2 DEF Upcoming
<1>5. ASSUME s[1] \notin Turns(l), NEW x, x \in Turns(l)
      PROVE  Upcoming(s, 0, l, x) => Upcoming(s, 1, l, x)
    <2> SUFFICES ASSUME Upcoming(s, 0, l, x) PROVE Upcoming(s, 1, l, x)
        OBVIOUS
    <2>1. PICK j \in 1 .. Len(s) : s[j] = x /\ \A k \in 1 .. j - 1 : s[k] \notin Turns(l)
        BY DEF Upcoming
    <2>2. j # 1
        BY <2>1, <1>5
    <2>3. j \in 1 + 1 .. Len(s) /\ \A k \in 1 + 1 .. j - 1 : k \in 1 .. j - 1
        BY <2>2
    <2> QED BY <2>1, <2>3 DEF Upcoming
<1>6. s[1] \notin Turns(l) => (Quiet(s, 1, l) <=> Quiet(s, 0, l))
    <2>1. \A k \in 0 + 1 .. Len(s) : k = 1 \/ k \in 1 + 1 .. Len(s)
        BY <1>1
    <2>2. \A k \in 1 + 1 .. Len(s) : k \in 0 + 1 .. Len(s)
        BY <1>1
    <2> QED BY <2>1, <2>2 DEF Quiet
<1>7. InTurn(s) => /\ s[1] = EmbedOf(l) => Upcoming(s, 1, l, AttnOf(l))
                   /\ s[1] = AttnOf(l) => Upcoming(s, 1, l, StoreOf(l))
                   /\ s[1] = StoreOf(l) => Between(s, 1, l)
    BY <1>1 DEF InTurn
<1> QED BY <1>2, <1>3, <1>4, <1>5, <1>6, <1>7 DEF Between

\* One stage: the embedding, each layer's attention once, the store.
StageOf(s, o) ==
    /\ s \in Seq(Entry) /\ Len(s) >= 2
    /\ s[1] = <<"embed", o>> /\ s[Len(s)] = <<"store", o>>
    /\ \A j \in 2 .. Len(s) - 1 : s[j] = <<"head", o>>
         \/ s[j] \in {"attn", "moe"} \X Paths!Layers(o)
    /\ \A l \in Paths!Layers(o) : \E j \in 2 .. Len(s) - 1 :
          s[j] = AttnOf(l) /\ \A k \in 2 .. Len(s) - 1 : s[k] = AttnOf(l) => k = j

\* A stage keeps the turns of its own layers and touches no other's.
LEMMA StageInTurn ==
    ASSUME NEW o \in {"trunk", "mtp"}, NEW s, StageOf(s, o)
    PROVE  /\ Staged(s)
           /\ \A l \in Paths!Layers(o) : Upcoming(s, 0, l, EmbedOf(l))
           /\ \A l \in Paths!Layer : Owner(l) # o => Quiet(s, 0, l)
<1> DEFINE n == Len(s)
<1>1. /\ s \in Seq(Entry) /\ n \in Nat /\ n >= 2
      /\ s[1] = <<"embed", o>> /\ s[n] = <<"store", o>>
    BY DEF StageOf
<1>2. \A j \in 2 .. n - 1 : s[j] = <<"head", o>> \/ s[j] \in {"attn", "moe"} \X Paths!Layers(o)
    BY DEF StageOf
<1>3. ASSUME NEW l \in Paths!Layer, Owner(l) # o
      PROVE  \A j \in 1 .. n : s[j] \notin Turns(l)
    <2>0. l \notin Paths!Layers(o)
        BY <1>3, PathConstants
    <2> SUFFICES ASSUME NEW j \in 1 .. n PROVE s[j] \notin Turns(l)
        OBVIOUS
    <2>1. CASE j = 1
        BY <2>1, <1>1, <1>3 DEF Turns, EmbedOf, AttnOf, StoreOf
    <2>2. CASE j = n
        BY <2>2, <1>1, <1>3 DEF Turns, EmbedOf, AttnOf, StoreOf
    <2>3. CASE j # 1 /\ j # n
        <3>1. j \in 2 .. n - 1
            BY <2>3, <1>1
        <3> QED BY <3>1, <1>2, <2>0 DEF Turns, EmbedOf, AttnOf, StoreOf
    <2> QED BY <2>1, <2>2, <2>3
<1>4. ASSUME NEW l \in Paths!Layer, Owner(l) = o
      PROVE  /\ Upcoming(s, 0, l, EmbedOf(l))
             /\ \A i \in 1 .. n : /\ s[i] = EmbedOf(l) => Upcoming(s, i, l, AttnOf(l))
                                  /\ s[i] = AttnOf(l) => Upcoming(s, i, l, StoreOf(l))
                                  /\ s[i] = StoreOf(l) => Between(s, i, l)
    <2>0. l \in Paths!Layers(o)
        BY <1>4, PathConstants
    <2>1. PICK j \in 2 .. n - 1 :
              s[j] = AttnOf(l) /\ \A k \in 2 .. n - 1 : s[k] = AttnOf(l) => k = j
        BY <2>0 DEF StageOf
    <2>2. s[1] = EmbedOf(l) /\ s[n] = StoreOf(l)
        BY <1>1, <1>4 DEF EmbedOf, StoreOf
    <2>3. \A k \in 2 .. n - 1 : k # j => s[k] \notin Turns(l)
        <3> SUFFICES ASSUME NEW k \in 2 .. n - 1, k # j PROVE s[k] \notin Turns(l)
            OBVIOUS
        <3>1. s[k] # AttnOf(l)
            BY <2>1
        <3>2. s[k] = <<"head", o>> \/ s[k] \in {"attn", "moe"} \X Paths!Layers(o)
            BY <1>2
        <3> QED BY <3>1, <3>2 DEF Turns, EmbedOf, AttnOf, StoreOf
    <2>4. \A i \in 1 .. n : /\ s[i] = EmbedOf(l) => i = 1
                            /\ s[i] = AttnOf(l) => i = j
                            /\ s[i] = StoreOf(l) => i = n
        <3> SUFFICES ASSUME NEW i \in 1 .. n
                     PROVE  /\ s[i] = EmbedOf(l) => i = 1
                            /\ s[i] = AttnOf(l) => i = j
                            /\ s[i] = StoreOf(l) => i = n
            OBVIOUS
        <3>1. i = 1 \/ i = n \/ i = j \/ (i \in 2 .. n - 1 /\ i # j)
            BY <1>1
        <3> QED BY <3>1, <2>1, <2>2, <2>3, TurnsDiffer
    <2>5. Upcoming(s, 0, l, EmbedOf(l))
        <3>1. 1 \in 0 + 1 .. n /\ 0 + 1 .. 1 - 1 = {}
            BY <1>1
        <3> QED BY <3>1, <2>2 DEF Upcoming
    <2>6. Upcoming(s, 1, l, AttnOf(l))
        <3>1. j \in 1 + 1 .. n /\ \A k \in 1 + 1 .. j - 1 : k \in 2 .. n - 1 /\ k # j
            BY <1>1
        <3> QED BY <3>1, <2>1, <2>3 DEF Upcoming
    <2>7. Upcoming(s, j, l, StoreOf(l))
        <3>1. n \in j + 1 .. n /\ \A k \in j + 1 .. n - 1 : k \in 2 .. n - 1 /\ k # j
            BY <1>1
        <3> QED BY <3>1, <2>2, <2>3 DEF Upcoming
    <2>8. Between(s, n, l)
        <3>1. n + 1 .. n = {}
            BY <1>1
        <3> QED BY <3>1 DEF Between, Quiet
    <2> QED BY <2>4, <2>5, <2>6, <2>7, <2>8
<1>5. ASSUME NEW l \in Paths!Layer, Owner(l) # o
      PROVE  Quiet(s, 0, l)
    <2>1. \A j \in 0 + 1 .. n : j \in 1 .. n
        BY <1>1
    <2> QED BY <1>3, <1>5, <2>1 DEF Quiet
<1>6. InTurn(s)
    <2> SUFFICES ASSUME NEW i \in 1 .. n, NEW l \in Paths!Layer
                 PROVE  /\ s[i] = EmbedOf(l) => Upcoming(s, i, l, AttnOf(l))
                        /\ s[i] = AttnOf(l) => Upcoming(s, i, l, StoreOf(l))
                        /\ s[i] = StoreOf(l) => Between(s, i, l)
        BY DEF InTurn
    <2>1. CASE Owner(l) = o
        BY <1>4, <2>1
    <2>2. CASE Owner(l) # o
        BY <1>3, <2>2, TurnsDiffer
    <2> QED BY <2>1, <2>2
<1>7. \A l \in Paths!Layer : Between(s, 0, l)
    BY <1>4, <1>5 DEF Between
<1>8. \A l \in Paths!Layers(o) : l \in Paths!Layer /\ Owner(l) = o
    BY PathConstants DEF Paths!Trunk
<1> QED BY <1>1, <1>4, <1>5, <1>6, <1>7, <1>8 DEF Staged

\* Stages may follow each other.
LEMMA StagesInTurn ==
    ASSUME NEW a, NEW b, Staged(a), Staged(b)
    PROVE  /\ Staged(a \o b)
           /\ \A l \in Paths!Layer :
                 /\ Upcoming(a, 0, l, EmbedOf(l)) => Upcoming(a \o b, 0, l, EmbedOf(l))
                 /\ Upcoming(b, 0, l, EmbedOf(l)) => Upcoming(a \o b, 0, l, EmbedOf(l))
                 /\ Quiet(a, 0, l) /\ Quiet(b, 0, l) => Quiet(a \o b, 0, l)
<1>0. a \in Seq(Entry) /\ b \in Seq(Entry)
    BY DEF Staged
<1>1. a \o b \in Seq(Entry) /\ Joined(a \o b, a, b)
    BY <1>0, ConcatJoins
<1>2. PICK c, n, m : c = a \o b /\ n = Len(a) /\ m = Len(b)
    OBVIOUS
<1>3. /\ n \in Nat /\ m \in Nat /\ Len(c) = n + m
      /\ \A i \in 1 .. n : c[i] = a[i]
      /\ \A i \in 1 .. m : c[n + i] = b[i]
    BY <1>0, <1>1, <1>2 DEF Joined
<1>4. ASSUME NEW l \in Paths!Layer, NEW i \in 0 .. n, NEW x, Upcoming(a, i, l, x)
      PROVE  Upcoming(c, i, l, x)
    <2>1. PICK j \in i + 1 .. n : a[j] = x /\ \A k \in i + 1 .. j - 1 : a[k] \notin Turns(l)
        BY <1>4, <1>2 DEF Upcoming
    <2>2. j \in i + 1 .. Len(c) /\ c[j] = x
        BY <2>1, <1>3
    <2>3. \A k \in i + 1 .. j - 1 : c[k] \notin Turns(l)
        BY <2>1, <1>3
    <2> QED BY <2>2, <2>3 DEF Upcoming
<1>5. ASSUME NEW l \in Paths!Layer, NEW i \in 0 .. n, Quiet(a, i, l), NEW x, Upcoming(b, 0, l, x)
      PROVE  Upcoming(c, i, l, x)
    <2>1. PICK j \in 0 + 1 .. m : b[j] = x /\ \A k \in 0 + 1 .. j - 1 : b[k] \notin Turns(l)
        BY <1>5, <1>2 DEF Upcoming
    <2>2. n + j \in i + 1 .. Len(c) /\ c[n + j] = x
        BY <2>1, <1>3
    <2>3. ASSUME NEW k \in i + 1 .. (n + j) - 1 PROVE c[k] \notin Turns(l)
        <3>1. CASE k <= n
            <4>1. k \in i + 1 .. n /\ c[k] = a[k]
                BY <3>1, <1>3
            <4> QED BY <4>1, <1>5, <1>2 DEF Quiet
        <3>2. CASE ~(k <= n)
            <4>1. k - n \in 0 + 1 .. j - 1 /\ k - n \in 1 .. m /\ n + (k - n) = k
                BY <3>2, <1>3, <2>1
            <4>2. c[n + (k - n)] = b[k - n]
                BY <4>1, <1>3
            <4> QED BY <4>1, <4>2, <2>1
        <3> QED BY <3>1, <3>2
    <2> QED BY <2>2, <2>3 DEF Upcoming
<1>6. ASSUME NEW l \in Paths!Layer, NEW i \in 0 .. n, Quiet(a, i, l), Quiet(b, 0, l)
      PROVE  Quiet(c, i, l)
    <2> SUFFICES ASSUME NEW k \in i + 1 .. Len(c) PROVE c[k] \notin Turns(l)
        BY DEF Quiet
    <2>1. CASE k <= n
        <3>1. k \in i + 1 .. n /\ c[k] = a[k]
            BY <2>1, <1>3
        <3> QED BY <3>1, <1>6, <1>2 DEF Quiet
    <2>2. CASE ~(k <= n)
        <3>1. k - n \in 0 + 1 .. m /\ k - n \in 1 .. m /\ n + (k - n) = k
            BY <2>2, <1>3
        <3>2. c[n + (k - n)] = b[k - n]
            BY <3>1, <1>3
        <3> QED BY <3>1, <3>2, <1>6, <1>2 DEF Quiet
    <2> QED BY <2>1, <2>2
<1>7. \A l \in Paths!Layer : Between(b, 0, l) /\ Between(a, 0, l)
    BY DEF Staged
<1>8. ASSUME NEW l \in Paths!Layer, NEW i \in 0 .. n, Between(a, i, l)
      PROVE  Between(c, i, l)
    BY <1>4, <1>5, <1>6, <1>7, <1>8 DEF Between
<1>9. ASSUME NEW l \in Paths!Layer, NEW i \in 1 .. m, NEW x, Upcoming(b, i, l, x)
      PROVE  Upcoming(c, n + i, l, x)
    <2>1. PICK j \in i + 1 .. m : b[j] = x /\ \A k \in i + 1 .. j - 1 : b[k] \notin Turns(l)
        BY <1>9, <1>2 DEF Upcoming
    <2>2. n + j \in (n + i) + 1 .. Len(c) /\ c[n + j] = x
        BY <2>1, <1>3
    <2>3. ASSUME NEW k \in (n + i) + 1 .. (n + j) - 1 PROVE c[k] \notin Turns(l)
        <3>1. k - n \in i + 1 .. j - 1 /\ k - n \in 1 .. m /\ n + (k - n) = k
            BY <1>3, <2>1
        <3>2. c[n + (k - n)] = b[k - n]
            BY <3>1, <1>3
        <3> QED BY <3>1, <3>2, <2>1
    <2> QED BY <2>2, <2>3 DEF Upcoming
<1>10. ASSUME NEW l \in Paths!Layer, NEW i \in 1 .. m, Quiet(b, i, l)
       PROVE  Quiet(c, n + i, l)
    <2> SUFFICES ASSUME NEW k \in (n + i) + 1 .. Len(c) PROVE c[k] \notin Turns(l)
        BY DEF Quiet
    <2>1. k - n \in i + 1 .. m /\ k - n \in 1 .. m /\ n + (k - n) = k
        BY <1>3
    <2>2. c[n + (k - n)] = b[k - n]
        BY <2>1, <1>3
    <2> QED BY <2>1, <2>2, <1>10, <1>2 DEF Quiet
<1>11. InTurn(c)
    <2> SUFFICES ASSUME NEW i \in 1 .. Len(c), NEW l \in Paths!Layer
                 PROVE  /\ c[i] = EmbedOf(l) => Upcoming(c, i, l, AttnOf(l))
                        /\ c[i] = AttnOf(l) => Upcoming(c, i, l, StoreOf(l))
                        /\ c[i] = StoreOf(l) => Between(c, i, l)
        BY DEF InTurn
    <2>1. CASE i <= n
        <3>1. i \in 1 .. n /\ i \in 0 .. n /\ c[i] = a[i]
            BY <2>1, <1>3
        <3>2. /\ a[i] = EmbedOf(l) => Upcoming(a, i, l, AttnOf(l))
              /\ a[i] = AttnOf(l) => Upcoming(a, i, l, StoreOf(l))
              /\ a[i] = StoreOf(l) => Between(a, i, l)
            BY <3>1, <1>2 DEF Staged, InTurn
        <3> QED BY <3>1, <3>2, <1>4, <1>8
    <2>2. CASE ~(i <= n)
        <3>0. i - n \in 1 .. m /\ i = n + (i - n)
            BY <2>2, <1>3
        <3>1. PICK p \in 1 .. m : i = n + p
            BY <3>0
        <3>2. c[i] = b[p]
            BY <3>1, <1>3
        <3>3. /\ b[p] = EmbedOf(l) => Upcoming(b, p, l, AttnOf(l))
              /\ b[p] = AttnOf(l) => Upcoming(b, p, l, StoreOf(l))
              /\ b[p] = StoreOf(l) => Between(b, p, l)
            BY <3>1, <1>2 DEF Staged, InTurn
        <3> QED BY <3>1, <3>2, <3>3, <1>9, <1>10 DEF Between
    <2> QED BY <2>1, <2>2
<1>12. 0 \in 0 .. n
    BY <1>3
<1>13. Staged(c)
    BY <1>1, <1>2, <1>7, <1>8, <1>11, <1>12 DEF Staged
<1>14. ASSUME NEW l \in Paths!Layer
       PROVE  /\ Upcoming(a, 0, l, EmbedOf(l)) => Upcoming(c, 0, l, EmbedOf(l))
              /\ Upcoming(b, 0, l, EmbedOf(l)) => Upcoming(c, 0, l, EmbedOf(l))
              /\ Quiet(a, 0, l) /\ Quiet(b, 0, l) => Quiet(c, 0, l)
    BY <1>4, <1>5, <1>6, <1>7, <1>12 DEF Between
<1> QED BY <1>2, <1>13, <1>14

\* The blocks of an owner's layers: the attention of each of them once.
BodyOf(b, o) ==
    /\ b \in Seq(Entry)
    /\ \A j \in 1 .. Len(b) : b[j] \in {"attn", "moe"} \X Paths!Layers(o)
    /\ \A l \in Paths!Layers(o) : \E j \in 1 .. Len(b) :
          b[j] = AttnOf(l) /\ \A k \in 1 .. Len(b) : b[k] = AttnOf(l) => k = j

\* The drafter's block.
LEMMA DraftBody == BodyOf(Paths!Blocks(Paths!Mtp), "mtp")
<1>1. Paths!Blocks(Paths!Mtp) \in Seq(Entry) /\ Len(Paths!Blocks(Paths!Mtp)) = 2
      /\ Paths!Blocks(Paths!Mtp)[1] = <<"attn", Paths!Mtp>>
      /\ Paths!Blocks(Paths!Mtp)[2] = <<"moe", Paths!Mtp>>
    BY PathConstants DEF Paths!Blocks, Entry
<1>2. Paths!Layers("mtp") = {Paths!Mtp}
    BY PathConstants
<1>3. \A j \in 1 .. 2 : j = 1 \/ j = 2
    OBVIOUS
<1> HIDE DEF Paths!Blocks
<1>4. \A j \in 1 .. 2 : Paths!Blocks(Paths!Mtp)[j] \in {"attn", "moe"} \X Paths!Layers("mtp")
    BY <1>1, <1>2, <1>3
<1>5. /\ 1 \in 1 .. 2 /\ Paths!Blocks(Paths!Mtp)[1] = AttnOf(Paths!Mtp)
      /\ \A k \in 1 .. 2 : Paths!Blocks(Paths!Mtp)[k] = AttnOf(Paths!Mtp) => k = 1
    BY <1>1, <1>3 DEF AttnOf
<1> QED BY <1>1, <1>2, <1>4, <1>5 DEF BodyOf

\* The blocks of the trunk, one layer behind the other.
LEMMA TrunkBody == BodyOf(Paths!FlattenSeq([l \in Paths!Trunk |-> Paths!Blocks(l)]), "trunk")
<1> DEFINE pieces == [l \in Paths!Trunk |-> Paths!Blocks(l)]
           n == Len(PathTypes)
<1>1. n \in Nat \ {0} /\ Paths!Trunk = 1 .. n
    BY PathConstants DEF Paths!Trunk
<1>2. Len(pieces) = n
    BY <1>1
<1>3. \A i \in 1 .. n : /\ pieces[i] \in Seq(Entry) /\ Len(pieces[i]) = 2
                        /\ pieces[i][1] = <<"attn", i>> /\ pieces[i][2] = <<"moe", i>>
    BY <1>1, PathConstants DEF Paths!Blocks, Entry, Paths!Layer
<1>4. Paths!FlattenSeq(pieces) = FlattenSeq(pieces)
    BY DEF FlattenSeq, Paths!FlattenSeq
<1> HIDE DEF pieces
<1>5. PICK b : b = Paths!FlattenSeq(pieces)
    OBVIOUS
<1>6. b \in Seq(Entry) /\ Paired(b, n, pieces)
    BY <1>1, <1>2, <1>3, <1>4, <1>5, FlattenPairs
<1>8. /\ b \in Seq(Entry) /\ Len(b) = 2 * n
      /\ \A j \in 1 .. n : b[2 * j - 1] = <<"attn", j>> /\ b[2 * j] = <<"moe", j>>
    BY <1>3, <1>6 DEF Paired
<1>9. \A k \in 1 .. 2 * n : \E j \in 1 .. n : k = 2 * j - 1 \/ k = 2 * j
    <2> SUFFICES ASSUME NEW k \in 1 .. 2 * n
                 PROVE  \E j \in 1 .. n : k = 2 * j - 1 \/ k = 2 * j
        OBVIOUS
    <2>1. CASE k % 2 = 0
        <3>1. k \div 2 \in 1 .. n /\ k = 2 * (k \div 2)
            BY <1>1, <2>1
        <3> QED BY <3>1
    <2>2. CASE k % 2 = 1
        <3>1. (k + 1) \div 2 \in 1 .. n /\ k = 2 * ((k + 1) \div 2) - 1
            BY <1>1, <2>2
        <3> QED BY <3>1
    <2>3. k % 2 = 0 \/ k % 2 = 1
        BY <1>1
    <2> QED BY <2>1, <2>2, <2>3
<1>10. Paths!Layers("trunk") = 1 .. n
    BY <1>1, PathConstants
<1>11. ASSUME NEW k \in 1 .. 2 * n PROVE b[k] \in {"attn", "moe"} \X Paths!Layers("trunk")
    <2>1. PICK j \in 1 .. n : k = 2 * j - 1 \/ k = 2 * j
        BY <1>9
    <2>2. b[2 * j - 1] = <<"attn", j>> /\ b[2 * j] = <<"moe", j>>
        BY <1>8
    <2>3. b[k] = <<"attn", j>> \/ b[k] = <<"moe", j>>
        BY <2>1, <2>2
    <2>4. j \in Paths!Layers("trunk")
        BY <1>10
    <2>5. <<"attn", j>> \in {"attn", "moe"} \X Paths!Layers("trunk")
            /\ <<"moe", j>> \in {"attn", "moe"} \X Paths!Layers("trunk")
        BY <2>4
    <2> QED BY <2>3, <2>5
<1>12. ASSUME NEW l \in Paths!Layers("trunk")
       PROVE  \E j \in 1 .. 2 * n :
                 b[j] = AttnOf(l) /\ \A k \in 1 .. 2 * n : b[k] = AttnOf(l) => k = j
    <2>1. 2 * l - 1 \in 1 .. 2 * n /\ b[2 * l - 1] = AttnOf(l)
        BY <1>1, <1>8, <1>10 DEF AttnOf
    <2>2. ASSUME NEW k \in 1 .. 2 * n, b[k] = AttnOf(l) PROVE k = 2 * l - 1
        <3>1. PICK j \in 1 .. n : k = 2 * j - 1 \/ k = 2 * j
            BY <1>9
        <3>3. b[2 * j - 1] = <<"attn", j>> /\ b[2 * j] = <<"moe", j>>
            BY <1>8
        <3>2. k = 2 * j - 1 /\ j = l
            BY <3>1, <3>3, <2>2 DEF AttnOf
        <3> QED BY <3>2
    <2> QED BY <2>1, <2>2
<1>13. BodyOf(b, "trunk")
    BY <1>8, <1>11, <1>12 DEF BodyOf
<1> QED BY <1>5, <1>13 DEF pieces

\* The blocks between the embedding and the store, with the head or without.
LEMMA BodyStage ==
    ASSUME NEW o \in {"trunk", "mtp"}, NEW b, BodyOf(b, o),
           NEW h, h = << >> \/ h = << <<"head", o>> >>
    PROVE  StageOf(<< <<"embed", o>> >> \o b \o h \o << <<"store", o>> >>, o)
<1> DEFINE e == << <<"embed", o>> >>
           st == << <<"store", o>> >>
<1>1. /\ e \in Seq(Entry) /\ Len(e) = 1 /\ e[1] = <<"embed", o>>
      /\ st \in Seq(Entry) /\ Len(st) = 1 /\ st[1] = <<"store", o>>
    BY DEF Entry
<1>2. /\ h \in Seq(Entry) /\ Len(h) \in 0 .. 1
      /\ \A j \in 1 .. Len(h) : h[j] = <<"head", o>>
    <2>1. CASE h = << >>
        BY <2>1
    <2>2. CASE h = << <<"head", o>> >>
        BY <2>2 DEF Entry
    <2> QED BY <2>1, <2>2
<1>3. b \in Seq(Entry)
    BY DEF BodyOf
<1> HIDE DEF e, st
<1>4. PICK x : x = e \o b
    OBVIOUS
<1>5. x \in Seq(Entry) /\ Joined(x, e, b)
    BY <1>1, <1>3, <1>4, ConcatJoins
<1>6. PICK y : y = x \o h
    OBVIOUS
<1>7. y \in Seq(Entry) /\ Joined(y, x, h)
    BY <1>2, <1>5, <1>6, ConcatJoins
<1>8. PICK s : s = y \o st
    OBVIOUS
<1>9. s \in Seq(Entry) /\ Joined(s, y, st)
    BY <1>1, <1>7, <1>8, ConcatJoins
<1>10. PICK n, m \in Nat : n = Len(b) /\ m = Len(h) /\ m \in 0 .. 1
    BY <1>2, <1>3
<1>11. /\ Len(x) = 1 + n /\ x[1] = <<"embed", o>>
       /\ \A i \in 1 .. n : x[1 + i] = b[i]
    BY <1>1, <1>5, <1>10 DEF Joined
<1>12. /\ Len(y) = 1 + n + m /\ y[1] = <<"embed", o>>
       /\ \A i \in 1 .. n : y[1 + i] = b[i]
       /\ \A i \in 1 .. m : y[1 + n + i] = <<"head", o>>
    BY <1>2, <1>7, <1>10, <1>11 DEF Joined
<1>13. /\ Len(s) = 2 + n + m /\ s[1] = <<"embed", o>> /\ s[2 + n + m] = <<"store", o>>
       /\ \A i \in 1 .. n : s[1 + i] = b[i]
       /\ \A i \in 1 .. m : s[1 + n + i] = <<"head", o>>
    <2>1. s[Len(y) + 1] = st[1]
        BY <1>1, <1>9 DEF Joined
    <2>2. Len(y) + 1 = 2 + n + m
        BY <1>12
    <2>3. /\ Len(s) = 2 + n + m
          /\ \A i \in 1 .. 1 + n + m : s[i] = y[i]
        BY <1>1, <1>9, <1>12 DEF Joined
    <2>4. 1 \in 1 .. 1 + n + m /\ \A i \in 1 .. n : 1 + i \in 1 .. 1 + n + m
        OBVIOUS
    <2>5. \A i \in 1 .. m : 1 + n + i \in 1 .. 1 + n + m
        OBVIOUS
    <2> QED BY <2>1, <2>2, <2>3, <2>4, <2>5, <1>1, <1>12
<1>14. ASSUME NEW j \in 2 .. Len(s) - 1
       PROVE  \/ s[j] = <<"head", o>> /\ j > 1 + n
              \/ j - 1 \in 1 .. n /\ s[j] = b[j - 1]
    <2>1. CASE j <= 1 + n
        <3>1. j - 1 \in 1 .. n /\ 1 + (j - 1) = j
            BY <2>1
        <3> QED BY <3>1, <1>13
    <2>2. CASE ~(j <= 1 + n)
        <3>1. j - (1 + n) \in 1 .. m /\ 1 + n + (j - (1 + n)) = j
            BY <2>2, <1>13
        <3>2. s[1 + n + (j - (1 + n))] = <<"head", o>>
            BY <3>1, <1>13
        <3> QED BY <3>1, <3>2, <2>2
    <2> QED BY <2>1, <2>2
<1>15. \A j \in 1 .. n : b[j] \in {"attn", "moe"} \X Paths!Layers(o)
    BY <1>10 DEF BodyOf
<1>16. \A j \in 2 .. Len(s) - 1 : s[j] = <<"head", o>>
         \/ s[j] \in {"attn", "moe"} \X Paths!Layers(o)
    BY <1>14, <1>15
<1>17. ASSUME NEW l \in Paths!Layers(o)
       PROVE  \E j \in 2 .. Len(s) - 1 :
                 s[j] = AttnOf(l) /\ \A k \in 2 .. Len(s) - 1 : s[k] = AttnOf(l) => k = j
    <2>1. PICK j \in 1 .. n : b[j] = AttnOf(l) /\ \A k \in 1 .. n : b[k] = AttnOf(l) => k = j
        BY <1>10 DEF BodyOf
    <2>2. 1 + j \in 2 .. Len(s) - 1 /\ s[1 + j] = AttnOf(l)
        BY <2>1, <1>13
    <2>3. ASSUME NEW k \in 2 .. Len(s) - 1, s[k] = AttnOf(l) PROVE k = 1 + j
        <3>1. s[k] # <<"head", o>>
            BY <2>3 DEF AttnOf
        <3>2. k - 1 \in 1 .. n /\ b[k - 1] = AttnOf(l)
            BY <3>1, <1>14, <2>3
        <3>3. k - 1 = j
            BY <3>2, <2>1
        <3> QED BY <3>3
    <2> QED BY <2>2, <2>3
<1>18. StageOf(s, o)
    BY <1>9, <1>13, <1>16, <1>17 DEF StageOf
<1> QED BY <1>4, <1>6, <1>8, <1>18 DEF e, st

\* What a call runs for an owner is a stage.
LEMMA StagesAreStages ==
    ASSUME NEW o \in {"trunk", "mtp"}, NEW head \in BOOLEAN
    PROVE  StageOf(Paths!Stages(o, head), o)
<1> DEFINE h == IF head THEN << <<"head", o>> >> ELSE << >>
           b == IF o = "mtp" THEN Paths!Blocks(Paths!Mtp)
             ELSE Paths!FlattenSeq([l \in Paths!Trunk |-> Paths!Blocks(l)])
<1>1. h = << >> \/ h = << <<"head", o>> >>
    OBVIOUS
<1>2. BodyOf(b, o)
    BY DraftBody, TrunkBody
<1>3. Paths!Stages(o, head) = << <<"embed", o>> >> \o b \o h \o << <<"store", o>> >>
    BY DEF Paths!Stages
<1> HIDE DEF b, h
<1> QED BY <1>1, <1>2, <1>3, BodyStage

\* The calls that run the stage of an owner.
CallsOf(o) ==
    IF o = "mtp" THEN {"mtp_prefill", "draft", "replay", "round"}
    ELSE {"prefill", "decode", "verify", "round"}
Calls == {"prefill", "mtp_prefill", "decode", "draft", "verify", "replay", "round"}

\* What a call runs are stages; it runs those of its owners.
LEMMA ItemsStaged ==
    ASSUME NEW c \in Calls, NEW b \in Paths!Arguments
    PROVE  /\ Staged(Paths!Items(c, b))
           /\ \A l \in Paths!Layer : IF c \in CallsOf(Owner(l))
                THEN Upcoming(Paths!Items(c, b), 0, l, EmbedOf(l))
                                                         ELSE Quiet(Paths!Items(c, b), 0, l)
<1>1. b.draft \in BOOLEAN
    BY DEF Paths!Arguments
<1>2. ASSUME NEW o \in {"trunk", "mtp"}, NEW head \in BOOLEAN
      PROVE  /\ Staged(Paths!Stages(o, head))
             /\ \A l \in Paths!Layer : IF Owner(l) = o
                  THEN Upcoming(Paths!Stages(o, head), 0, l, EmbedOf(l))
                                               ELSE Quiet(Paths!Stages(o, head), 0, l)
    <2>1. StageOf(Paths!Stages(o, head), o)
        BY StagesAreStages
    <2>2. \A l \in Paths!Layer : l \in Paths!Layers(o) <=> Owner(l) = o
        BY PathConstants
    <2> QED BY <2>1, <2>2, StageInTurn
<1>3. CASE c \in {"prefill", "decode", "verify"}
    <2>1. Paths!Items(c, b) = Paths!Stages("trunk", TRUE)
        BY <1>3 DEF Paths!Items
    <2>2. \A l \in Paths!Layer : c \in CallsOf(Owner(l)) <=> Owner(l) = "trunk"
        BY <1>3, PathConstants DEF CallsOf
    <2> QED BY <2>1, <2>2, <1>2
<1>4. CASE c \in {"mtp_prefill", "draft", "replay"}
    <2>1. Paths!Items(c, b) = Paths!Stages("mtp", TRUE)
            \/ Paths!Items(c, b) = Paths!Stages("mtp", ~b.draft)
        BY <1>4 DEF Paths!Items
    <2>2. \A l \in Paths!Layer : c \in CallsOf(Owner(l)) <=> Owner(l) = "mtp"
        BY <1>4, PathConstants DEF CallsOf
    <2> QED BY <2>1, <2>2, <1>2, <1>1
<1>5. CASE c = "round"
    <2>1. PICK p, q, r : p = Paths!Stages("mtp", TRUE) /\ q = Paths!Stages("trunk", TRUE)
            /\ r = Paths!Stages("mtp", FALSE)
        OBVIOUS
    <2>2. Paths!Items(c, b) = p \o q \o r
        BY <1>5, <2>1 DEF Paths!Items
    <2>3. Staged(p) /\ Staged(q) /\ Staged(r)
        BY <1>2, <2>1
    <2>4. \A l \in Paths!Layer : /\ Owner(l) = "mtp" => Upcoming(p, 0, l, EmbedOf(l))
                                 /\ Owner(l) = "trunk" => Upcoming(q, 0, l, EmbedOf(l))
        BY <1>2, <2>1
    <2>5. /\ Staged(p \o q)
          /\ \A l \in Paths!Layer : Upcoming(p \o q, 0, l, EmbedOf(l))
        BY <2>3, <2>4, StagesInTurn, PathConstants
    <2>6. /\ Staged(p \o q \o r)
          /\ \A l \in Paths!Layer : Upcoming(p \o q \o r, 0, l, EmbedOf(l))
        BY <2>3, <2>5, StagesInTurn
    <2>7. \A l \in Paths!Layer : c \in CallsOf(Owner(l))
        BY <1>5 DEF CallsOf
    <2> QED BY <2>2, <2>6, <2>7
<1> QED BY <1>3, <1>4, <1>5 DEF Calls

\* What the flags imply, and the round's stages in a megakernel.
Implications ==
    /\ build \in Paths!Arguments
    /\ build.verify \/ build.draft \/ build.round => build.tkg /\ build.moe
    /\ call = "round" => build.round

\* Calls that come after an owner's prefill.
AfterPrefill(o) ==
    IF o = "mtp" THEN {"draft", "verify", "replay", "round"}
    ELSE {"mtp_prefill", "decode", "draft", "verify", "replay", "round"}

\* Layer l, by its next turn.
LayerInv(l) ==
    /\ Upcoming(rest, 0, l, AttnOf(l)) => wrote[l] = 0 /\ pending[l] = "none"
    /\ Upcoming(rest, 0, l, StoreOf(l)) =>
          \/ wrote[l] = 1 /\ pending[l] = "none"
          \/ wrote[l] = 0 /\ pending[l] = Paths!CacheLayout
    /\ Between(rest, 0, l) => pending[l] = "none"
    /\ Quiet(rest, 0, l) /\ call \in CallsOf(Owner(l)) => wrote[l] = 1
    /\ ~Quiet(rest, 0, l) => call \in CallsOf(Owner(l))
    /\ wrote[l] = 1 => kv[l] = Paths!CacheLayout
    /\ call \in AfterPrefill(Owner(l)) => kv[l] = Paths!CacheLayout

\* The inductive invariant: every layer is where its next turn says.
PathsInv ==
    /\ pending \in [Paths!Layer -> {"none", Paths!CacheLayout}]
    /\ kv \in [Paths!Layer -> {"none", Paths!CacheLayout}]
    /\ wrote \in [Paths!Layer -> 0 .. 1] /\ mtpStage \in {"none", "false"}
    /\ call \in Calls \cup {"none"}
    /\ Implications
    /\ rest \in Seq(Entry) /\ InTurn(rest)
    /\ \A l \in Paths!Layer : LayerInv(l)
    /\ terms \in Seq([sub : {"attn", "routed", "shared", "head"}, norms : {1}, sums : {1}])
    /\ handed = 0
    /\ Paths!LayoutsAgree /\ Paths!ReadsDeclared

\* No turn is ahead in nothing.
LEMMA NothingAhead ==
    ASSUME NEW l \in Paths!Layer
    PROVE  Quiet(<< >>, 0, l) /\ Between(<< >>, 0, l) /\ \A x : ~Upcoming(<< >>, 0, l, x)
<1>1. 0 + 1 .. Len(<< >>) = {}
    OBVIOUS
<1> QED BY <1>1 DEF Quiet, Between, Upcoming

\* The first state: no call, nothing cached.
LEMMA PathsInit == Paths!Init => PathsInv
<1> SUFFICES ASSUME Paths!Init PROVE PathsInv
    OBVIOUS
<1> USE DEF Paths!Init
<1>1. Implications
    <2>1. PICK a \in Paths!Arguments : build = Paths!Implied(a)
        OBVIOUS
    <2>2. call # "round"
        OBVIOUS
    <2> DEFINE v == a.verify \/ a.round
               d == a.draft \/ a.round
               t == a.tkg \/ v \/ d
               m == a.moe \/ v \/ d
    <2>3. v \in BOOLEAN /\ d \in BOOLEAN /\ t \in BOOLEAN /\ m \in BOOLEAN
        BY Zenon
    <2>4. build = [a EXCEPT !.verify = v, !.draft = d, !.tkg = t, !.moe = m]
        BY <2>1 DEF Paths!Implied
    <2>5. (v \/ d \/ a.round => t /\ m) /\ (a.round => v /\ d)
        OBVIOUS
    <2> HIDE DEF v, d, t, m
    <2>6. build \in Paths!Arguments
        BY ONLY <2>3, <2>4, a \in Paths!Arguments DEF Paths!Arguments
    <2>7. build.verify = v /\ build.draft = d /\ build.tkg = t /\ build.moe = m
            /\ build.round = a.round
        BY ONLY <2>4, a \in Paths!Arguments DEF Paths!Arguments
    <2> QED BY <2>2, <2>5, <2>6, <2>7 DEF Implications
<1>2. /\ pending \in [Paths!Layer -> {"none", Paths!CacheLayout}]
      /\ kv \in [Paths!Layer -> {"none", Paths!CacheLayout}]
      /\ wrote \in [Paths!Layer -> 0 .. 1] /\ mtpStage \in {"none", "false"}
      /\ call \in Calls \cup {"none"}
    OBVIOUS
<1>3. rest \in Seq(Entry) /\ InTurn(rest)
    BY DEF InTurn
<1>4. ASSUME NEW l \in Paths!Layer PROVE LayerInv(l)
    <2>1. pending[l] = "none" /\ wrote[l] = 0 /\ rest = << >> /\ call = "none"
        OBVIOUS
    <2>2. call \notin CallsOf(Owner(l)) /\ call \notin AfterPrefill(Owner(l))
        BY <2>1 DEF CallsOf, AfterPrefill
    <2> QED BY <2>1, <2>2, NothingAhead DEF LayerInv
<1>5. Paths!LayoutsAgree /\ Paths!ReadsDeclared /\ handed = 0
    BY DEF Paths!LayoutsAgree, Paths!ReadsDeclared
<1>6. terms \in Seq([sub : {"attn", "routed", "shared", "head"}, norms : {1}, sums : {1}])
    OBVIOUS
<1> QED BY <1>1, <1>2, <1>3, <1>4, <1>5, <1>6 DEF PathsInv

\* The kernels agree with the flags on the layout of the keys.
LEMMA LayoutsOfFlags ==
    ASSUME Implications, NEW l \in Paths!Layer
    PROVE  Paths!WrittenLayout(l) = Paths!CacheLayout /\ Paths!ExpectedLayout(l) = Paths!CacheLayout
<1>1. Paths!InMegakernel \/ Paths!GqaKernel(l) => build.tkg
    BY DEF Implications, Paths!InMegakernel, Paths!GqaKernel, Paths!UsesTkgKernel, Paths!Arguments
<1>2. build.tkg => Paths!CacheLayout = "BHDS"
    BY DEF Paths!CacheLayout, Paths!Transposed
<1> QED BY <1>1, <1>2 DEF Paths!WrittenLayout, Paths!ReturnedLayout, Paths!ExpectedLayout

\* Whatever path a sublayer takes, it is normed once and summed once.
LEMMA OnceOnEveryPath ==
    ASSUME Implications, NEW l \in Paths!Layer
    PROVE  /\ Paths!AttentionNorms(l) = 1 /\ Paths!AttentionSums(l) = 1
           /\ Paths!MoeNorms(l) = 1 /\ Paths!MoeSums(l).routed = 1 /\ Paths!MoeSums(l).shared = 1
<1>1. Paths!AttentionNorms(l) = 1
    BY DEF Paths!AttentionNorms, Paths!LayerNorms, Paths!SublayerNorms, Paths!Times
<1>2. Paths!AttentionSums(l) = 1
    BY DEF Paths!AttentionSums, Paths!ProjectionSums, Paths!HostSums, Paths!Times
<1>3. Paths!MoeNorms(l) = 1
    BY DEF Paths!MoeNorms, Paths!Times
<1>4. Paths!MoeSums(l).routed = 1 /\ Paths!MoeSums(l).shared = 1
    BY DEF Paths!MoeSums, Paths!RoutedSums
<1> QED BY <1>1, <1>2, <1>3, <1>4

\* A path reads what its layer declares.
LEMMA ReadsOfFlags ==
    ASSUME Implications, NEW l \in Paths!Layer
    PROVE  Paths!AttentionReads(l) \subseteq Paths!Declared(l)
             /\ Paths!MoeReads(l) \subseteq Paths!Declared(l)
<1>1. Paths!InMegakernel \/ Paths!GqaKernel(l) => build.tkg
    BY DEF Implications, Paths!InMegakernel, Paths!GqaKernel, Paths!UsesTkgKernel, Paths!Arguments
<1>2. Paths!MoeKernel(l) => build.moe
    BY DEF Implications, Paths!InMegakernel, Paths!MoeKernel, Paths!Arguments
<1>3. Paths!AttentionReads(l) \subseteq Paths!Declared(l)
    BY <1>1 DEF Paths!AttentionReads, Paths!Declared
<1>4. Paths!MoeReads(l) \subseteq Paths!Declared(l)
    BY <1>2
         DEF Paths!MoeReads, Paths!Declared, Paths!SharedLayout, Paths!MoeWeights, Paths!KernelMoe
<1> QED BY <1>3, <1>4

\* Begin: nothing is under way, and the items of the next call are stages.
LEMMA BeginStep ==
    ASSUME PathsInv, Paths!Begin
    PROVE  PathsInv'
<1> DEFINE c == Paths!FollowUp(call)
<1>1. rest = << >> /\ call' = c /\ rest' = Paths!Items(c, build)
      /\ UNCHANGED <<build, mtpStage, terms, pending, kv, wrote, seen, touched, handed>>
    BY DEF Paths!Begin
<1>2. c \in Calls /\ (c = "round" => build.round)
    BY DEF Paths!FollowUp, Calls, PathsInv
<1>3. build \in Paths!Arguments
    BY DEF PathsInv, Implications
<1>4. /\ Staged(rest')
      /\ \A l \in Paths!Layer : IF c \in CallsOf(Owner(l)) THEN Upcoming(rest', 0, l, EmbedOf(l))
                                                    ELSE Quiet(rest', 0, l)
    BY <1>1, <1>2, <1>3, ItemsStaged
<1>5. Implications'
    BY <1>1, <1>2 DEF PathsInv, Implications, Paths!Arguments
<1>6. ASSUME NEW l \in Paths!Layer PROVE LayerInv(l)'
    <2>1. Owner(l) \in {"trunk", "mtp"}
        BY PathConstants
    <2>2. LayerInv(l) /\ Quiet(rest, 0, l) /\ Between(rest, 0, l)
        BY <1>1, NothingAhead DEF PathsInv
    <2>3. pending[l] = "none" /\ (call \in CallsOf(Owner(l)) => kv[l] = Paths!CacheLayout)
        BY <2>2 DEF LayerInv
    <2>4. /\ ~Upcoming(rest', 0, l, AttnOf(l)) /\ ~Upcoming(rest', 0, l, StoreOf(l))
          /\ Quiet(rest', 0, l) <=> c \notin CallsOf(Owner(l))
        <3>1. Len(rest') \in Nat
            BY <1>4 DEF Staged
        <3>2. CASE c \in CallsOf(Owner(l))
            BY <1>4, <3>1, <3>2, OneTurn, TurnsDiffer
        <3>3. CASE c \notin CallsOf(Owner(l))
            BY <1>4, <3>1, <3>3, OneTurn, TurnsDiffer
        <3> QED BY <3>2, <3>3
    <2>5. c \in AfterPrefill(Owner(l))
            => call \in CallsOf(Owner(l)) \/ call \in AfterPrefill(Owner(l))
        BY <2>1 DEF Paths!FollowUp, AfterPrefill, CallsOf, PathsInv, Calls
    <2>6. c \in AfterPrefill(Owner(l)) => kv[l] = Paths!CacheLayout
        BY <2>2, <2>3, <2>5 DEF LayerInv
    <2>7. Paths!CacheLayout' = Paths!CacheLayout
        BY <1>1 DEF Paths!CacheLayout, Paths!Transposed
    <2>8. wrote[l] = 1 => kv[l] = Paths!CacheLayout
        BY <2>2 DEF LayerInv
    <2> HIDE DEF c
    <2>9. (Between(rest, 0, l))' <=> Between(rest', 0, l)
        BY DEF Between, Quiet, Upcoming
    <2>10. (Upcoming(rest, 0, l, AttnOf(l)))' <=> Upcoming(rest', 0, l, AttnOf(l))
        BY DEF Upcoming
    <2> QED BY <1>1, <2>3, <2>4, <2>6, <2>7, <2>8 DEF LayerInv
<1>7. (/\ pending \in [Paths!Layer -> {"none", Paths!CacheLayout}]
       /\ kv \in [Paths!Layer -> {"none", Paths!CacheLayout}]
       /\ wrote \in [Paths!Layer -> 0 .. 1] /\ mtpStage \in {"none", "false"}
       /\ call \in Calls \cup {"none"})'
    BY <1>1, <1>2 DEF PathsInv, Paths!CacheLayout, Paths!Transposed
<1>8. (/\ terms \in Seq([sub : {"attn", "routed", "shared", "head"}, norms : {1}, sums : {1}])
       /\ handed = 0 /\ Paths!LayoutsAgree /\ Paths!ReadsDeclared)'
    BY <1>1
         DEF PathsInv, Paths!LayoutsAgree, Paths!ReadsDeclared, Paths!Declared, Paths!SharedLayout
<1>9. (rest \in Seq(Entry) /\ InTurn(rest))'
    BY <1>4 DEF Staged, InTurn, Between, Quiet, Upcoming
<1> QED BY <1>5, <1>6, <1>7, <1>8, <1>9 DEF PathsInv

\* Taking an item off: which turns are next, for every layer.
LEMMA ItemStep ==
    ASSUME PathsInv, rest # << >>, Paths!Advance
    PROVE  /\ rest[1] \in Entry /\ rest' \in Seq(Entry) /\ InTurn(rest')
           /\ (rest \in Seq(Entry) /\ InTurn(rest))'
           /\ Implications' /\ Paths!CacheLayout' = Paths!CacheLayout
           /\ \A l \in Paths!Layer :
                /\ rest[1] = EmbedOf(l) => Upcoming(rest', 0, l, AttnOf(l))
                /\ rest[1] = AttnOf(l) => Upcoming(rest', 0, l, StoreOf(l))
                /\ rest[1] = StoreOf(l) => Between(rest', 0, l)
                /\ rest[1] \in Turns(l) => Upcoming(rest, 0, l, rest[1]) /\ ~Quiet(rest, 0, l)
                /\ rest[1] \notin Turns(l) =>
                      /\ \A x \in Turns(l) : Upcoming(rest', 0, l, x) <=> Upcoming(rest, 0, l, x)
                      /\ Quiet(rest', 0, l) <=> Quiet(rest, 0, l)
<1>1. rest \in Seq(Entry) /\ InTurn(rest) /\ rest' = Tail(rest) /\ Len(rest) \in Nat
        /\ rest[1] \in Entry
    BY DEF PathsInv, Paths!Advance
<1>2. rest' \in Seq(Entry) /\ InTurn(rest')
    BY <1>1, InTurnTail
<1>3. (rest \in Seq(Entry) /\ InTurn(rest))'
    BY <1>2 DEF InTurn, Between, Quiet, Upcoming
<1>4. Implications' /\ Paths!CacheLayout' = Paths!CacheLayout
    BY DEF PathsInv, Paths!Advance, Implications, Paths!CacheLayout, Paths!Transposed
<1>5. ASSUME NEW l \in Paths!Layer
      PROVE  /\ rest[1] = EmbedOf(l) => Upcoming(rest', 0, l, AttnOf(l))
             /\ rest[1] = AttnOf(l) => Upcoming(rest', 0, l, StoreOf(l))
             /\ rest[1] = StoreOf(l) => Between(rest', 0, l)
             /\ rest[1] \in Turns(l) => Upcoming(rest, 0, l, rest[1])
             /\ rest[1] \notin Turns(l) =>
                   /\ \A x \in Turns(l) : Upcoming(rest', 0, l, x) <=> Upcoming(rest, 0, l, x)
                   /\ Quiet(rest', 0, l) <=> Quiet(rest, 0, l)
    BY <1>1, NextTurn
<1>6. ASSUME NEW l \in Paths!Layer, rest[1] \in Turns(l)
      PROVE  ~Quiet(rest, 0, l)
    BY <1>1, <1>5, <1>6, OneTurn
<1> QED BY <1>1, <1>2, <1>3, <1>4, <1>5, <1>6

\* The parts of a layer's invariant in the next state, about the rest of that state.
LEMMA LayerNext ==
    ASSUME NEW l \in Paths!Layer, UNCHANGED call, Paths!CacheLayout' = Paths!CacheLayout,
           Upcoming(rest', 0, l, AttnOf(l)) => wrote'[l] = 0 /\ pending'[l] = "none",
           Upcoming(rest', 0, l, StoreOf(l)) =>
               \/ wrote'[l] = 1 /\ pending'[l] = "none"
               \/ wrote'[l] = 0 /\ pending'[l] = Paths!CacheLayout,
           Between(rest', 0, l) => pending'[l] = "none",
           Quiet(rest', 0, l) /\ call \in CallsOf(Owner(l)) => wrote'[l] = 1,
           ~Quiet(rest', 0, l) => call \in CallsOf(Owner(l)),
           wrote'[l] = 1 => kv'[l] = Paths!CacheLayout,
           call \in AfterPrefill(Owner(l)) => kv'[l] = Paths!CacheLayout
    PROVE  LayerInv(l)'
<1>1. \A x : Upcoming(rest, 0, l, x)' <=> Upcoming(rest', 0, l, x)
    BY DEF Upcoming
<1>2. (Quiet(rest, 0, l)' <=> Quiet(rest', 0, l)) /\ (Between(rest, 0, l)' <=> Between(rest', 0, l))
    BY DEF Quiet, Between, Upcoming
<1> QED BY <1>1, <1>2 DEF LayerInv

\* A layer whose turn it is not keeps its invariant.
LEMMA LayerKept ==
    ASSUME PathsInv, rest # << >>, Paths!Advance, NEW l \in Paths!Layer, rest[1] \notin Turns(l),
           pending'[l] = pending[l], wrote'[l] = wrote[l], kv'[l] = kv[l]
    PROVE  LayerInv(l)'
<1>1. LayerInv(l) /\ UNCHANGED call
    BY DEF PathsInv, Paths!Advance
<1>2. /\ \A x \in Turns(l) : Upcoming(rest', 0, l, x) <=> Upcoming(rest, 0, l, x)
      /\ Quiet(rest', 0, l) <=> Quiet(rest, 0, l)
      /\ Paths!CacheLayout' = Paths!CacheLayout
    BY ItemStep
<1>3. /\ Upcoming(rest', 0, l, AttnOf(l)) <=> Upcoming(rest, 0, l, AttnOf(l))
      /\ Upcoming(rest', 0, l, StoreOf(l)) <=> Upcoming(rest, 0, l, StoreOf(l))
      /\ Between(rest', 0, l) <=> Between(rest, 0, l)
    BY <1>2, TurnsDiffer DEF Between
<1> QED BY <1>1, <1>2, <1>3, LayerNext DEF LayerInv

\* The embedding opens a stage: the owner's layers have not written yet.
LEMMA EmbedStep ==
    ASSUME PathsInv, Paths!Embed
    PROVE  PathsInv'
<1>0. /\ rest # << >> /\ rest[1][1] = "embed" /\ Paths!Advance /\ terms' = << >>
      /\ wrote' = [l \in Paths!Layer |-> IF l \in Paths!Layers(rest[1][2]) THEN 0 ELSE wrote[l]]
      /\ UNCHANGED <<build, mtpStage, call, pending, kv, seen, touched, handed>>
    BY DEF Paths!Embed, Paths!Item, Paths!Advance
<1>1. PICK o \in {"trunk", "mtp"} : rest[1] = <<"embed", o>>
    <2>1. rest[1] \in Entry
        BY <1>0, ItemStep
    <2> QED BY <1>0, <2>1 DEF Entry
<1>2. wrote' = [l \in Paths!Layer |-> IF l \in Paths!Layers(o) THEN 0 ELSE wrote[l]]
    BY <1>0, <1>1
<1>3. ASSUME NEW l \in Paths!Layer PROVE LayerInv(l)'
    <2>1. CASE Owner(l) = o
        <3>1. rest[1] = EmbedOf(l) /\ l \in Paths!Layers(o)
            BY <1>1, <2>1, PathConstants DEF EmbedOf
        <3>2. wrote'[l] = 0 /\ pending'[l] = pending[l] /\ kv'[l] = kv[l]
            BY <1>0, <1>2, <3>1
        <3>3. /\ Upcoming(rest', 0, l, AttnOf(l)) /\ Paths!CacheLayout' = Paths!CacheLayout
              /\ Upcoming(rest, 0, l, EmbedOf(l)) /\ ~Quiet(rest, 0, l) /\ Len(rest') \in Nat
            BY <1>0, <3>1, ItemStep, TurnsDiffer
        <3>4. ~Upcoming(rest', 0, l, StoreOf(l)) /\ ~Between(rest', 0, l) /\ ~Quiet(rest', 0, l)
            BY <3>3, OneTurn, TurnsDiffer DEF Between
        <3>5. LayerInv(l) /\ Between(rest, 0, l)
            BY <3>3 DEF PathsInv, Between
        <3> QED BY <1>0, <3>2, <3>3, <3>4, <3>5, LayerNext DEF LayerInv
    <2>2. CASE Owner(l) # o
        <3>1. rest[1] \notin Turns(l) /\ l \notin Paths!Layers(o)
            BY <1>1, <2>2, PathConstants DEF Turns, EmbedOf, AttnOf, StoreOf
        <3>2. wrote'[l] = wrote[l]
            BY <1>2, <3>1
        <3> QED BY <1>0, <3>1, <3>2, LayerKept
    <2> QED BY <2>1, <2>2
<1>4. (/\ pending \in [Paths!Layer -> {"none", Paths!CacheLayout}]
       /\ kv \in [Paths!Layer -> {"none", Paths!CacheLayout}]
       /\ wrote \in [Paths!Layer -> 0 .. 1] /\ mtpStage \in {"none", "false"}
       /\ call \in Calls \cup {"none"})'
    BY <1>0, <1>2 DEF PathsInv, Paths!CacheLayout, Paths!Transposed
<1>5. (/\ terms \in Seq([sub : {"attn", "routed", "shared", "head"}, norms : {1}, sums : {1}])
       /\ handed = 0 /\ Paths!LayoutsAgree /\ Paths!ReadsDeclared)'
    <2>1. << >> \in Seq([sub : {"attn", "routed", "shared", "head"}, norms : {1}, sums : {1}])
        OBVIOUS
    <2>2. (handed = 0 /\ Paths!LayoutsAgree /\ Paths!ReadsDeclared)'
        BY <1>0
             DEF PathsInv, Paths!LayoutsAgree, Paths!ReadsDeclared, Paths!Declared,
               Paths!SharedLayout
    <2> QED BY <1>0, <2>1, <2>2
<1> QED BY <1>0, <1>3, <1>4, <1>5, ItemStep DEF PathsInv

\* The attention of a layer writes its cache once, in place or for the store.
LEMMA AttentionStep ==
    ASSUME PathsInv, Paths!Attention
    PROVE  PathsInv'
<1>0. /\ rest # << >> /\ rest[1][1] = "attn" /\ Paths!Advance
      /\ UNCHANGED <<build, mtpStage, call, handed>>
    BY DEF Paths!Attention, Paths!Item, Paths!Advance
<1>1. PICK m \in Paths!Layer : rest[1] = <<"attn", m>>
    <2>1. rest[1] \in Entry
        BY <1>0, ItemStep
    <2> QED BY <1>0, <2>1 DEF Entry
<1>2. /\ terms' = Append(terms,
             [sub |-> "attn", norms |-> Paths!AttentionNorms(m), sums |-> Paths!AttentionSums(m)])
      /\ seen' = IF Paths!Prefilling \/ Paths!IsLinear(m) THEN seen
           ELSE seen \union {<<kv[m], Paths!ExpectedLayout(m)>>}
      /\ touched' = touched \union {<<m, w>> : w \in Paths!AttentionReads(m)}
      /\ IF Paths!InPlace(m)
           THEN /\ kv' = [kv EXCEPT ![m] = Paths!WrittenLayout(m)] /\ wrote' = Paths!Write(wrote, m)
                /\ UNCHANGED pending
           ELSE /\ pending' = [pending EXCEPT ![m] = Paths!WrittenLayout(m)]
                /\ UNCHANGED <<kv, wrote>>
    BY <1>1 DEF Paths!Attention
<1>3. Implications
    BY DEF PathsInv
<1>4. Paths!WrittenLayout(m) = Paths!CacheLayout /\ Paths!ExpectedLayout(m) = Paths!CacheLayout
    BY <1>3, LayoutsOfFlags
<1>5. /\ Upcoming(rest', 0, m, StoreOf(m)) /\ Paths!CacheLayout' = Paths!CacheLayout
      /\ Upcoming(rest, 0, m, AttnOf(m)) /\ ~Quiet(rest, 0, m) /\ Len(rest') \in Nat
    BY <1>0, <1>1, ItemStep, TurnsDiffer DEF AttnOf
<1>6. LayerInv(m)
    BY DEF PathsInv
<1>7. wrote[m] = 0 /\ pending[m] = "none" /\ call \in CallsOf(Owner(m))
    BY <1>5, <1>6 DEF LayerInv
<1>8. /\ kv' \in [Paths!Layer -> {"none", Paths!CacheLayout}]
      /\ pending' \in [Paths!Layer -> {"none", Paths!CacheLayout}]
      /\ wrote' \in [Paths!Layer -> 0 .. 1]
      /\ \A l \in Paths!Layer : l # m
           => kv'[l] = kv[l] /\ pending'[l] = pending[l] /\ wrote'[l] = wrote[l]
      /\ \/ wrote'[m] = 1 /\ pending'[m] = "none" /\ kv'[m] = Paths!CacheLayout
         \/ wrote'[m] = 0 /\ pending'[m] = Paths!CacheLayout /\ kv'[m] = kv[m]
    <2>1. kv \in [Paths!Layer -> {"none", Paths!CacheLayout}]
            /\ pending \in [Paths!Layer -> {"none", Paths!CacheLayout}]
          /\ wrote \in [Paths!Layer -> 0 .. 1]
        BY DEF PathsInv
    <2>2. CASE Paths!InPlace(m)
        <3>1. kv' = [kv EXCEPT ![m] = Paths!CacheLayout]
                /\ wrote' = [wrote EXCEPT ![m] = wrote[m] + 1] /\ pending' = pending
            BY <1>2, <1>4, <2>2 DEF Paths!Write
        <3> QED BY <1>7, <2>1, <3>1
    <2>3. CASE ~Paths!InPlace(m)
        <3>1. pending' = [pending EXCEPT ![m] = Paths!CacheLayout] /\ kv' = kv /\ wrote' = wrote
            BY <1>2, <1>4, <2>3
        <3> QED BY <1>7, <2>1, <3>1
    <2> QED BY <2>2, <2>3
<1>9. ASSUME NEW l \in Paths!Layer PROVE LayerInv(l)'
    <2>1. CASE l = m
        <3>1. ~Upcoming(rest', 0, l, AttnOf(l)) /\ ~Between(rest', 0, l) /\ ~Quiet(rest', 0, l)
            BY <1>5, <2>1, OneTurn, TurnsDiffer DEF Between
        <3>2. call \in AfterPrefill(Owner(l)) => kv'[l] = Paths!CacheLayout
            BY <1>6, <1>8, <2>1 DEF LayerInv
        <3>3. wrote'[l] = 1 => kv'[l] = Paths!CacheLayout
            BY <1>8, <2>1
        <3> QED BY <1>0, <1>5, <1>7, <1>8, <2>1, <3>1, <3>2, <3>3, LayerNext
    <2>2. CASE l # m
        <3>1. rest[1] \notin Turns(l)
            BY <1>1, <2>2 DEF Turns, EmbedOf, AttnOf, StoreOf
        <3> QED BY <1>0, <1>8, <2>2, <3>1, LayerKept
    <2> QED BY <2>1, <2>2
<1>10. (/\ pending \in [Paths!Layer -> {"none", Paths!CacheLayout}]
        /\ kv \in [Paths!Layer -> {"none", Paths!CacheLayout}]
        /\ wrote \in [Paths!Layer -> 0 .. 1] /\ mtpStage \in {"none", "false"}
        /\ call \in Calls \cup {"none"})'
    BY <1>0, <1>5, <1>8 DEF PathsInv
<1>11. Paths!LayoutsAgree'
    <2>1. CASE Paths!Prefilling \/ Paths!IsLinear(m)
        BY <1>2, <2>1 DEF PathsInv, Paths!LayoutsAgree
    <2>2. CASE ~(Paths!Prefilling \/ Paths!IsLinear(m))
        <3>1. call \in AfterPrefill(Owner(m))
            BY <1>7, <2>2 DEF Paths!Prefilling, CallsOf, AfterPrefill
        <3>2. kv[m] = Paths!ExpectedLayout(m)
            BY <1>4, <1>6, <3>1 DEF LayerInv
        <3> QED BY <1>2, <2>2, <3>2 DEF PathsInv, Paths!LayoutsAgree
    <2> QED BY <2>1, <2>2
<1>12. Paths!ReadsDeclared'
    <2>1. Paths!AttentionReads(m) \subseteq Paths!Declared(m)
        BY <1>3, ReadsOfFlags
    <2>2. \A l : Paths!Declared(l)' = Paths!Declared(l)
        BY <1>0 DEF Paths!Declared, Paths!SharedLayout
    <2> QED BY <1>2, <2>1, <2>2 DEF PathsInv, Paths!ReadsDeclared
<1>13. (terms \in Seq([sub : {"attn", "routed", "shared", "head"}, norms : {1}, sums : {1}])
         /\ handed = 0)'
    BY <1>0, <1>2, <1>3, OnceOnEveryPath DEF PathsInv
<1> QED BY <1>0, <1>9, <1>10, <1>11, <1>12, <1>13, ItemStep DEF PathsInv

\* The store puts every key held for it in its cache.
LEMMA StoreStep ==
    ASSUME PathsInv, Paths!Store
    PROVE  PathsInv'
<1>0. /\ rest # << >> /\ rest[1][1] = "store" /\ Paths!Advance
      /\ UNCHANGED <<build, mtpStage, call, terms, seen, touched, handed>>
    BY DEF Paths!Store, Paths!Item, Paths!Advance
<1>1. PICK o \in {"trunk", "mtp"} : rest[1] = <<"store", o>>
    <2>1. rest[1] \in Entry
        BY <1>0, ItemStep
    <2> QED BY <1>0, <2>1 DEF Entry
<1> DEFINE stored == {l \in Paths!Layers(o) : pending[l] # "none"}
<1>2. /\ kv' = [l \in Paths!Layer |-> IF l \in stored THEN pending[l] ELSE kv[l]]
      /\ wrote' = [l \in Paths!Layer |-> IF l \in stored THEN wrote[l] + 1 ELSE wrote[l]]
      /\ pending' = [l \in Paths!Layer |-> IF l \in stored THEN "none" ELSE pending[l]]
    BY <1>1 DEF Paths!Store, Paths!Returned
<1>3. Paths!CacheLayout' = Paths!CacheLayout /\ Paths!CacheLayout # "none"
    BY <1>0, ItemStep DEF Paths!CacheLayout
<1>4. kv \in [Paths!Layer -> {"none", Paths!CacheLayout}]
        /\ pending \in [Paths!Layer -> {"none", Paths!CacheLayout}]
      /\ wrote \in [Paths!Layer -> 0 .. 1]
    BY DEF PathsInv
<1>5. ASSUME NEW l \in Paths!Layer, Owner(l) = o
      PROVE  /\ wrote'[l] = 1 /\ pending'[l] = "none" /\ kv'[l] = Paths!CacheLayout
             /\ Between(rest', 0, l) /\ call \in CallsOf(Owner(l))
    <2>1. rest[1] = StoreOf(l) /\ l \in Paths!Layers(o)
        BY <1>1, <1>5, PathConstants DEF StoreOf
    <2>2. Between(rest', 0, l) /\ Upcoming(rest, 0, l, StoreOf(l)) /\ ~Quiet(rest, 0, l)
        BY <1>0, <2>1, ItemStep, TurnsDiffer
    <2>3. LayerInv(l)
        BY DEF PathsInv
    <2>4. /\ \/ wrote[l] = 1 /\ pending[l] = "none"
             \/ wrote[l] = 0 /\ pending[l] = Paths!CacheLayout
          /\ wrote[l] = 1 => kv[l] = Paths!CacheLayout
          /\ call \in CallsOf(Owner(l))
        BY <2>2, <2>3 DEF LayerInv
    <2> QED BY <1>2, <1>3, <2>1, <2>2, <2>4
<1>6. ASSUME NEW l \in Paths!Layer, Owner(l) # o
      PROVE  /\ wrote'[l] = wrote[l] /\ pending'[l] = pending[l] /\ kv'[l] = kv[l]
             /\ rest[1] \notin Turns(l)
    <2>1. rest[1] \notin Turns(l) /\ l \notin Paths!Layers(o)
        BY <1>1, <1>6, PathConstants DEF Turns, EmbedOf, AttnOf, StoreOf
    <2> QED BY <1>2, <2>1
<1>7. ASSUME NEW l \in Paths!Layer PROVE LayerInv(l)'
    <2>1. CASE Owner(l) = o
        <3>1. Len(rest') \in Nat
            BY <1>0, ItemStep
        <3>2. ~Upcoming(rest', 0, l, AttnOf(l)) /\ ~Upcoming(rest', 0, l, StoreOf(l))
            BY <1>5, <2>1, <3>1, OneTurn, TurnsDiffer DEF Between
        <3> QED BY <1>0, <1>3, <1>5, <2>1, <3>2, LayerNext
    <2>2. CASE Owner(l) # o
        BY <1>0, <1>6, <2>2, LayerKept
    <2> QED BY <2>1, <2>2
<1>8. kv' \in [Paths!Layer -> {"none", Paths!CacheLayout}]
        /\ pending' \in [Paths!Layer -> {"none", Paths!CacheLayout}]
      /\ wrote' \in [Paths!Layer -> 0 .. 1]
    <2>1. \A l \in Paths!Layer : kv'[l] \in {"none", Paths!CacheLayout}
            /\ pending'[l] \in {"none", Paths!CacheLayout}
                           /\ wrote'[l] \in 0 .. 1
        BY <1>4, <1>5, <1>6
    <2> QED BY <1>2, <2>1
<1>9. (/\ pending \in [Paths!Layer -> {"none", Paths!CacheLayout}]
       /\ kv \in [Paths!Layer -> {"none", Paths!CacheLayout}]
       /\ wrote \in [Paths!Layer -> 0 .. 1] /\ mtpStage \in {"none", "false"}
       /\ call \in Calls \cup {"none"})'
    BY <1>0, <1>3, <1>8 DEF PathsInv
<1>10. (/\ terms \in Seq([sub : {"attn", "routed", "shared", "head"}, norms : {1}, sums : {1}])
        /\ handed = 0 /\ Paths!LayoutsAgree /\ Paths!ReadsDeclared)'
    BY <1>0
         DEF PathsInv, Paths!LayoutsAgree, Paths!ReadsDeclared, Paths!Declared, Paths!SharedLayout
<1> QED BY <1>0, <1>7, <1>9, <1>10, ItemStep DEF PathsInv

\* The MoE and the head touch no cache.
LEMMA MoeOrHeadStep ==
    ASSUME PathsInv, Paths!Moe \/ Paths!VocabHead
    PROVE  PathsInv'
<1>0. /\ rest # << >> /\ rest[1][1] \in {"moe", "head"} /\ Paths!Advance
      /\ UNCHANGED <<build, mtpStage, call, pending, kv, wrote, seen>>
    BY DEF Paths!Moe, Paths!VocabHead, Paths!Item, Paths!Advance
<1>1. rest[1] \in Entry
    BY <1>0, ItemStep
<1>2. \A l \in Paths!Layer : rest[1] \notin Turns(l)
    BY <1>0 DEF Turns, EmbedOf, AttnOf, StoreOf
<1>3. \A l \in Paths!Layer : LayerInv(l)'
    BY <1>0, <1>2, LayerKept
<1>4. (/\ pending \in [Paths!Layer -> {"none", Paths!CacheLayout}]
       /\ kv \in [Paths!Layer -> {"none", Paths!CacheLayout}]
       /\ wrote \in [Paths!Layer -> 0 .. 1] /\ mtpStage \in {"none", "false"}
       /\ call \in Calls \cup {"none"})'
    BY <1>0 DEF PathsInv, Paths!CacheLayout, Paths!Transposed
<1>5. Paths!LayoutsAgree'
    BY <1>0 DEF PathsInv, Paths!LayoutsAgree
<1>6. \A l : Paths!Declared(l)' = Paths!Declared(l)
    BY <1>0 DEF Paths!Declared, Paths!SharedLayout
<1>7. CASE Paths!Moe
    <2>1. PICK m \in Paths!Layer : rest[1] = <<"moe", m>>
        BY <1>1, <1>7 DEF Paths!Moe, Paths!Item, Entry
    <2>2. /\ terms' = terms \o
                << [sub |-> "routed", norms |-> Paths!MoeNorms(m),
                    sums |-> Paths!MoeSums(m).routed],
                   [sub |-> "shared", norms |-> Paths!MoeNorms(m),
                    sums |-> Paths!MoeSums(m).shared] >>
          /\ touched' = touched \union {<<m, w>> : w \in Paths!MoeReads(m)} /\ handed' = handed
        BY <2>1, <1>7 DEF Paths!Moe
    <2>3. Paths!MoeReads(m) \subseteq Paths!Declared(m) /\ Paths!MoeNorms(m) = 1
            /\ Paths!MoeSums(m).routed = 1 /\ Paths!MoeSums(m).shared = 1
        BY ReadsOfFlags, OnceOnEveryPath DEF PathsInv
    <2>4. (terms \in Seq([sub : {"attn", "routed", "shared", "head"}, norms : {1}, sums : {1}]))'
        BY <2>2, <2>3 DEF PathsInv
    <2>5. Paths!ReadsDeclared' /\ handed' = 0
        BY <2>2, <2>3, <1>6 DEF PathsInv, Paths!ReadsDeclared
    <2> QED BY <1>0, <1>3, <1>4, <1>5, <2>4, <2>5, ItemStep DEF PathsInv
<1>8. CASE Paths!VocabHead
    <2>1. /\ terms' = Append(terms, [sub |-> "head", norms |-> 1, sums |-> 1])
          /\ touched' = touched /\ handed' = 0
        BY <1>8 DEF Paths!VocabHead, Paths!BeforeNorm
    <2>2. (terms \in Seq([sub : {"attn", "routed", "shared", "head"}, norms : {1}, sums : {1}]))'
        BY <2>1 DEF PathsInv
    <2>3. Paths!ReadsDeclared'
        BY <2>1, <1>6 DEF PathsInv, Paths!ReadsDeclared
    <2> QED BY <1>0, <1>3, <1>4, <1>5, <2>1, <2>2, <2>3, ItemStep DEF PathsInv
<1> QED BY <1>7, <1>8

\* Every step keeps the invariant.
LEMMA PathsStep == PathsInv /\ [Paths!Next]_Paths!vars => PathsInv'
<1> SUFFICES ASSUME PathsInv, [Paths!Next]_Paths!vars PROVE PathsInv'
    OBVIOUS
<1>1. CASE Paths!Next
    BY <1>1, BeginStep, EmbedStep, AttentionStep, MoeOrHeadStep, StoreStep DEF Paths!Next
<1>2. CASE UNCHANGED Paths!vars
    <2>1. UNCHANGED <<build, mtpStage, call, rest, steps, terms, pending, kv, wrote, seen, touched,
            handed>>
        BY <1>2 DEF Paths!vars
    <2>2. Paths!CacheLayout' = Paths!CacheLayout /\ \A l : Paths!Declared(l)' = Paths!Declared(l)
        BY <2>1 DEF Paths!CacheLayout, Paths!Transposed, Paths!Declared, Paths!SharedLayout
    <2>3. (rest \in Seq(Entry) /\ InTurn(rest))'
        BY <2>1 DEF PathsInv, InTurn, Between, Quiet, Upcoming
    <2>4. ASSUME NEW l \in Paths!Layer PROVE LayerInv(l)'
        <3>1. LayerInv(l)
            BY DEF PathsInv
        <3> QED BY <2>1, <2>2, <3>1, LayerNext DEF LayerInv
    <2> QED BY <2>1, <2>2, <2>3, <2>4
                 DEF PathsInv, Implications, Paths!LayoutsAgree, Paths!ReadsDeclared
<1> QED BY <1>1, <1>2

\* What the invariant says of the properties.
LEMMA PathsInvImplies ==
    ASSUME PathsInv
    PROVE  Paths!OncePerSublayer /\ Paths!CachesWrittenOnce /\ Paths!LayoutsAgree
             /\ Paths!ReadsDeclared
<1>1. Paths!OncePerSublayer
    <2>1. PICK R : R = [sub : {"attn", "routed", "shared", "head"}, norms : {1}, sums : {1}]
        OBVIOUS
    <2>2. terms \in Seq(R) /\ handed = 0
        BY <2>1 DEF PathsInv
    <2>3. \A i \in DOMAIN terms : terms[i] \in R
        BY <2>2
    <2> QED BY <2>1, <2>2, <2>3 DEF Paths!OncePerSublayer
<1>2. Paths!CachesWrittenOnce
    <2> SUFFICES ASSUME NEW o \in {"trunk", "mtp"}, rest = << >>, call \in CallsOf(o),
                          NEW l \in Paths!Layers(o)
                 PROVE  wrote[l] = 1 /\ pending[l] = "none"
        BY DEF Paths!CachesWrittenOnce, CallsOf
    <2>1. l \in Paths!Layer /\ Owner(l) = o
        BY PathConstants DEF Paths!Trunk
    <2>2. LayerInv(l) /\ Quiet(rest, 0, l) /\ Between(rest, 0, l)
        BY <2>1, NothingAhead DEF PathsInv
    <2> QED BY <2>1, <2>2 DEF LayerInv
<1> QED BY <1>1, <1>2 DEF PathsInv

\* A behaviour that follows the paths makes steps of LayerPaths only.
LEMMA PathsOnly ==
    ASSUME [Next]_vars, Run("paths")
    PROVE  [Paths!Next]_Paths!vars
BY DEF Next, Run, vars, pathsOnly, Paths!vars

\* Whatever flags a build has (build_inference_config), each call norms and
\* sums every sublayer of a layer once, hands nothing normed to the head, and
\* leaves the keys of each of its layers written once, in the layout their
\* readers expect (Qwen36A3BDecoderLayer.forward and the paths it takes).
THEOREM PathsKeepCount == Spec => []OncePerSublayer
<1>1. Init => (Run("paths") => PathsInv)
    BY PathsInit DEF Init, Run
<1>2. (Run("paths") => PathsInv) /\ [Next]_vars => (Run("paths") => PathsInv)'
    <2> SUFFICES ASSUME Run("paths") => PathsInv, [Next]_vars, Run("paths")'
                 PROVE  PathsInv'
        OBVIOUS
    <2>1. Run("paths")
        BY SamePart DEF Run
    <2> QED BY <2>1, PathsOnly, PathsStep
<1>3. (Run("paths") => PathsInv) => OncePerSublayer
    BY PathsInvImplies DEF OncePerSublayer
<1> QED BY <1>1, <1>2, <1>3, PTL DEF Spec

(***************************************************************************)
(* The aliasing of the graphs' outputs.                                     *)
(***************************************************************************)
\* The buffers a part can name, and the values its graphs return.
Buffers == {"k", "v", "rec", "conv", "hidden", "result"} \X Int
Values == [of : Buffers, call : Int]

\* s holds the value of params[i], computed by the call, in place i.
ValueOf(c) == {<<Aliases!Value(b, c), b>> : b \in Buffers}
Match(s, params, c) ==
    s \in Seq(Values) /\ params \in Seq(Buffers) /\ Related(s, params, ValueOf(c))

\* What a match says of one place.
LEMMA MatchAt ==
    ASSUME NEW s, NEW params, NEW c, Match(s, params, c)
    PROVE  /\ Len(s) = Len(params) /\ Len(s) \in Nat
           /\ \A i \in 1 .. Len(params) : s[i] = Aliases!Value(params[i], c)
<1>1. /\ Len(s) = Len(params) /\ Len(s) \in Nat
      /\ \A i \in 1 .. Len(s) : <<s[i], params[i]>> \in ValueOf(c)
    BY DEF Match, Related
<1>2. ASSUME NEW i \in 1 .. Len(params) PROVE s[i] = Aliases!Value(params[i], c)
    <2>1. <<s[i], params[i]>> \in ValueOf(c)
        BY <1>1
    <2>2. PICK b \in Buffers : <<s[i], params[i]>> = <<Aliases!Value(b, c), b>>
        BY <2>1 DEF ValueOf
    <2> QED BY <2>2
<1> QED BY <1>1, <1>2

\* A layer's pair matches the pair of its buffers.
LEMMA PairMatches ==
    ASSUME NEW k \in {"k", "rec", "hidden", "result"}, NEW v \in {"v", "conv"}, NEW i \in Int,
             NEW c \in Int
    PROVE  /\ << Aliases!Value(Aliases!Buffer(k, i), c),
                 Aliases!Value(Aliases!Buffer(v, i), c) >> \in Seq(Values)
           /\ << Aliases!Buffer(k, i), Aliases!Buffer(v, i) >> \in Seq(Buffers)
           /\ Related(<< Aliases!Value(Aliases!Buffer(k, i), c),
                         Aliases!Value(Aliases!Buffer(v, i), c) >>,
                      << Aliases!Buffer(k, i), Aliases!Buffer(v, i) >>, ValueOf(c))
<1>1. PICK p, q \in Buffers : p = Aliases!Buffer(k, i) /\ q = Aliases!Buffer(v, i)
    BY DEF Buffers, Aliases!Buffer
<1>2. PICK x, y \in Values : x = Aliases!Value(p, c) /\ y = Aliases!Value(q, c)
    BY DEF Aliases!Value, Values
<1>3. <<x, p>> \in ValueOf(c) /\ <<y, q>> \in ValueOf(c)
    BY <1>2 DEF ValueOf
<1>4. \A j \in 1 .. 2 : j = 1 \/ j = 2
    OBVIOUS
<1>5. \A j \in 1 .. 2 : << <<x, y>>[j], <<p, q>>[j] >> \in ValueOf(c)
    BY <1>3, <1>4
<1>6. Related(<<x, y>>, <<p, q>>, ValueOf(c))
    BY <1>5 DEF Related
<1> QED BY <1>1, <1>2, <1>6

\* Nothing matches nothing.
LEMMA EmptyMatches ==
    ASSUME NEW c
    PROVE  << >> \in Seq(Values) /\ << >> \in Seq(Buffers) /\ Related(<< >>, << >>, ValueOf(c))
BY DEF Related

\* The layers in order: what they return matches where it belongs, if each
\* layer's does.
LEMMA LayersMatch ==
    ASSUME NEW c \in Int, NEW a, NEW b, Len(a) = Len(AliasTypes), Len(b) = Len(AliasTypes),
           \A i \in Aliases!Layers : a[i] \in Seq(Values) /\ b[i] \in Seq(Buffers)
                             /\ Related(a[i], b[i], ValueOf(c))
    PROVE  Match(Aliases!FlattenSeq(a), Aliases!FlattenSeq(b), c)
<1>1. Len(AliasTypes) \in Nat \ {0} /\ Aliases!Layers = 1 .. Len(AliasTypes)
    BY AliasAssumption DEF Aliases!LayersAssumption, Aliases!Layers
<1>2. Len(a) \in Nat \ {0} /\ Len(a) = Len(b)
    BY <1>1
<1>3. \A i \in 1 .. Len(a) : a[i] \in Seq(Values) /\ b[i] \in Seq(Buffers)
    BY <1>1
<1>4. \A i \in 1 .. Len(a) : Related(a[i], b[i], ValueOf(c))
    BY <1>1
<1>5. /\ FlattenSeq(a) \in Seq(Values) /\ FlattenSeq(b) \in Seq(Buffers)
      /\ Related(FlattenSeq(a), FlattenSeq(b), ValueOf(c))
    BY ONLY <1>2, <1>3, <1>4, FlattenRelated
<1>6. Aliases!FlattenSeq(a) = FlattenSeq(a) /\ Aliases!FlattenSeq(b) = FlattenSeq(b)
    BY DEF Aliases!FlattenSeq, FlattenSeq
<1> QED BY <1>5, <1>6 DEF Match

\* The flags of a configuration.
Flags == [fused : BOOLEAN, hybrid : BOOLEAN, logits : BOOLEAN,
          sampling : BOOLEAN, host : BOOLEAN, capture : 0..1]

\* The trunk's cache matches the cache's parameters, two of every layer.
LEMMA TrunkMatches ==
    ASSUME NEW c \in Int
    PROVE  /\ Match(Aliases!TrunkCache(c), Aliases!CacheParams, c)
           /\ Len(Aliases!CacheParams) = Aliases!NumKv /\ Aliases!NumKv \in Nat
<1>1. Len(AliasTypes) \in Nat \ {0} /\ Aliases!Layers = 1 .. Len(AliasTypes)
    BY AliasAssumption DEF Aliases!LayersAssumption, Aliases!Layers
<1> DEFINE a == [i \in Aliases!Layers |-> Aliases!LayerCache(i, c)]
           b == [i \in Aliases!Layers |-> IF Aliases!IsLinear(i) /\ config.hybrid
                        THEN << Aliases!Buffer("rec", i), Aliases!Buffer("conv", i) >>
                        ELSE << Aliases!Buffer("k", i), Aliases!Buffer("v", i) >>]
<1>2. Aliases!TrunkCache(c) = Aliases!FlattenSeq(a) /\ Aliases!CacheParams = Aliases!FlattenSeq(b)
    BY DEF Aliases!TrunkCache, Aliases!CacheParams, Aliases!PerLayer
<1>3. Len(a) = Len(AliasTypes) /\ Len(b) = Len(AliasTypes)
    BY <1>1
<1>4. ASSUME NEW i \in Aliases!Layers
      PROVE  a[i] \in Seq(Values) /\ b[i] \in Seq(Buffers) /\ Related(a[i], b[i], ValueOf(c))
               /\ Len(b[i]) = 2
    <2>1. i \in Int
        BY <1>1
    <2>2. CASE Aliases!IsLinear(i) /\ config.hybrid
        <3>1. a[i] = << Aliases!Value(Aliases!Buffer("rec", i), c),
                Aliases!Value(Aliases!Buffer("conv", i), c) >>
              /\ b[i] = << Aliases!Buffer("rec", i), Aliases!Buffer("conv", i) >>
            BY <2>2 DEF Aliases!LayerCache, Aliases!LayerStates
        <3> QED BY <2>1, <3>1, PairMatches
    <2>3. CASE ~(Aliases!IsLinear(i) /\ config.hybrid)
        <3>1. a[i] = << Aliases!Value(Aliases!Buffer("k", i), c),
                Aliases!Value(Aliases!Buffer("v", i), c) >>
              /\ b[i] = << Aliases!Buffer("k", i), Aliases!Buffer("v", i) >>
            BY <2>3 DEF Aliases!LayerCache, Aliases!KvOf
        <3> QED BY <2>1, <3>1, PairMatches
    <2> QED BY <2>2, <2>3
<1> HIDE DEF a, b
<1>5. Match(Aliases!FlattenSeq(a), Aliases!FlattenSeq(b), c)
    BY <1>3, <1>4, LayersMatch
<1>6. Len(Aliases!FlattenSeq(b)) = 2 * Len(AliasTypes)
    <2>1. Len(b) \in Nat \ {0} /\ (\A i \in 1 .. Len(b) : b[i] \in Seq(Buffers))
            /\ \A i \in 1 .. Len(b) : Len(b[i]) = 2
        BY <1>1, <1>3, <1>4
    <2>2. Paired(FlattenSeq(b), Len(b), b)
        BY ONLY <2>1, FlattenPairs
    <2> QED BY <2>2, <1>3 DEF Paired, Aliases!FlattenSeq, FlattenSeq
<1> QED BY <1>1, <1>2, <1>5, <1>6 DEF Aliases!NumKv

\* So do the states the model collects, and those it commits.
LEMMA StatesMatch ==
    ASSUME NEW c \in Int
    PROVE  /\ ~config.hybrid => Match(Aliases!CollectedStates(c), Aliases!StateParams, c)
           /\ Match(Aliases!Committed(c), Aliases!StateParams, c)
           /\ Aliases!CollectedStates(c) \in Seq(Values)
<1>1. Len(AliasTypes) \in Nat \ {0} /\ Aliases!Layers = 1 .. Len(AliasTypes)
    BY AliasAssumption DEF Aliases!LayersAssumption, Aliases!Layers
<1> DEFINE a == [i \in Aliases!Layers |-> IF Aliases!IsLinear(i) /\ ~config.hybrid
                                   THEN Aliases!LayerStates(i, c) ELSE << >>]
           d == [i \in Aliases!Layers |-> IF Aliases!IsLinear(i) THEN Aliases!LayerStates(i, c)
             ELSE << >>]
           b == [i \in Aliases!Layers |-> IF Aliases!IsLinear(i)
                                   THEN << Aliases!Buffer("rec", i), Aliases!Buffer("conv", i) >>
                                   ELSE << >>]
           e == [i \in Aliases!Layers |-> << >>]
<1>2. Aliases!CollectedStates(c) = Aliases!FlattenSeq(a)
        /\ Aliases!StateParams = Aliases!FlattenSeq(b)
             /\ Aliases!Committed(c) = Aliases!FlattenSeq(d)
    BY DEF Aliases!CollectedStates, Aliases!StateParams, Aliases!Committed, Aliases!PerLayer
<1>3. Len(a) = Len(AliasTypes) /\ Len(b) = Len(AliasTypes) /\ Len(d) = Len(AliasTypes)
        /\ Len(e) = Len(AliasTypes)
    BY <1>1
<1>4. ASSUME NEW i \in Aliases!Layers
      PROVE  /\ d[i] \in Seq(Values) /\ b[i] \in Seq(Buffers) /\ Related(d[i], b[i], ValueOf(c))
             /\ a[i] = (IF config.hybrid THEN << >> ELSE d[i])
             /\ e[i] = << >> /\ e[i] \in Seq(Values) /\ e[i] \in Seq(Buffers)
                  /\ Related(e[i], e[i], ValueOf(c))
    <2>1. i \in Int
        BY <1>1
    <2>2. a[i] = (IF config.hybrid THEN << >> ELSE d[i]) /\ e[i] = << >>
        OBVIOUS
    <2>3. CASE Aliases!IsLinear(i)
        <3>1. d[i] = << Aliases!Value(Aliases!Buffer("rec", i), c),
                Aliases!Value(Aliases!Buffer("conv", i), c) >>
              /\ b[i] = << Aliases!Buffer("rec", i), Aliases!Buffer("conv", i) >>
            BY <2>3 DEF Aliases!LayerStates
        <3> QED BY <2>1, <2>2, <3>1, PairMatches, EmptyMatches
    <2>4. CASE ~Aliases!IsLinear(i)
        <3>1. d[i] = << >> /\ b[i] = << >>
            BY <2>4
        <3> QED BY <2>2, <3>1, EmptyMatches
    <2> QED BY <2>3, <2>4
<1>5. config.hybrid => a = e
    OBVIOUS
<1>6. ~config.hybrid => a = d
    OBVIOUS
<1> HIDE DEF a, b, d, e
<1>7. Match(Aliases!FlattenSeq(d), Aliases!FlattenSeq(b), c)
    BY <1>3, <1>4, LayersMatch
<1>8. Match(Aliases!FlattenSeq(e), Aliases!FlattenSeq(e), c)
    BY <1>3, <1>4, LayersMatch
<1> QED BY <1>2, <1>5, <1>6, <1>7, <1>8 DEF Match

\* Without the hybrid manager the cache is the keys and values of every layer.
LEMMA VerifyMatches ==
    ASSUME NEW c \in Int, ~config.hybrid
    PROVE  Match(Aliases!PerLayer(LAMBDA i : Aliases!KvOf(i, c)), Aliases!CacheParams, c)
<1>1. Aliases!PerLayer(LAMBDA i : Aliases!KvOf(i, c)) = Aliases!TrunkCache(c)
    BY DEF Aliases!PerLayer, Aliases!TrunkCache, Aliases!LayerCache
<1> QED BY <1>1, TrunkMatches

\* b stands in o behind its first n elements.
Piece(o, n, b) ==
    /\ o \in Seq(Values) /\ b \in Seq(Values) /\ n \in Nat
    /\ n + Len(b) <= Len(o)
    /\ \A i \in 1 .. Len(b) : o[n + i] = b[i]

\* The two of a concatenation are pieces of it.
LEMMA PiecesOfTwo ==
    ASSUME NEW a \in Seq(Values), NEW b \in Seq(Values)
    PROVE  /\ Piece(a \o b, 0, a) /\ Piece(a \o b, Len(a), b)
           /\ a \o b \in Seq(Values) /\ Len(a \o b) = Len(a) + Len(b)
<1>1. a \o b \in Seq(Values) /\ Joined(a \o b, a, b)
    BY ConcatJoins
<1>2. Len(a) \in Nat /\ Len(b) \in Nat
    OBVIOUS
<1>3. PICK o : o = a \o b
    OBVIOUS
<1>4. /\ Len(o) = Len(a) + Len(b) /\ \A i \in 1 .. Len(a) : o[i] = a[i]
      /\ \A i \in 1 .. Len(b) : o[Len(a) + i] = b[i]
    BY <1>1, <1>3 DEF Joined
<1>5. \A i \in 1 .. Len(a) : 0 + i = i
    OBVIOUS
<1>6. Piece(o, 0, a) /\ Piece(o, Len(a), b)
    BY <1>1, <1>2, <1>3, <1>4, <1>5 DEF Piece
<1> QED BY <1>1, <1>3, <1>4, <1>6

\* A piece of a piece is one of the whole.
LEMMA PieceOfPiece ==
    ASSUME NEW o, NEW p, NEW b, NEW n, NEW m, Piece(o, n, p), Piece(p, m, b)
    PROVE  Piece(o, n + m, b)
<1>1. PICK lo, lp, lb \in Nat : lo = Len(o) /\ lp = Len(p) /\ lb = Len(b)
    BY DEF Piece
<1>2. n \in Nat /\ m \in Nat /\ n + lp <= lo /\ m + lb <= lp
    BY <1>1 DEF Piece
<1>3. ASSUME NEW i \in 1 .. lb PROVE o[(n + m) + i] = b[i]
    <2>1. m + i \in 1 .. lp /\ n + (m + i) = (n + m) + i
        BY <1>2
    <2>2. p[m + i] = b[i] /\ o[n + (m + i)] = p[m + i]
        BY <1>1, <2>1 DEF Piece
    <2> QED BY <2>1, <2>2
<1>4. n + m \in Nat /\ (n + m) + lb <= lo
    BY <1>2
<1> QED BY <1>1, <1>3, <1>4 DEF Piece

\* Cutting a piece out gives it back.
LEMMA PieceCut ==
    ASSUME NEW o, NEW b, NEW n, Piece(o, n, b)
    PROVE  SubSeq(o, n + 1, n + Len(b)) = b
<1>1. PICK lo, lb \in Nat : lo = Len(o) /\ lb = Len(b)
    BY DEF Piece
<1>2. o \in Seq(Values) /\ b \in Seq(Values) /\ n \in Nat /\ n + lb <= lo
    BY <1>1 DEF Piece
<1>3. PICK c : c = SubSeq(o, n + 1, n + lb)
    OBVIOUS
<1>4. n + 1 \in 1 .. lo + 1 /\ n + lb \in n .. lo
    BY <1>2
<1>5. c \in Seq(Values) /\ Len(c) = lb /\ \A i \in 1 .. lb : c[i] = o[n + i]
    <2>1. \A i \in n + 1 .. n + lb : o[i] \in Values
        BY <1>1, <1>2
    <2>2. /\ c \in Seq(Values)
          /\ Len(c) = IF n + 1 <= n + lb THEN (n + lb) - (n + 1) + 1 ELSE 0
          /\ \A i \in 1 .. (n + lb) - (n + 1) + 1 : c[i] = o[(n + 1) + i - 1]
        BY <2>1, <1>2, <1>3, SubSeqProperties
    <2>3. (n + lb) - (n + 1) + 1 = lb /\ \A i \in 1 .. lb : (n + 1) + i - 1 = n + i
        BY <1>2
    <2> QED BY <1>2, <2>2, <2>3
<1>6. \A i \in 1 .. lb : o[n + i] = b[i]
    BY <1>1 DEF Piece
<1>7. c = b
    BY <1>1, <1>2, <1>5, <1>6, SeqEqual
<1> QED BY <1>1, <1>3, <1>7

\* Every alias takes a value of its buffer, computed by the call.
Gives(aliases, outputs, c) ==
    \A a \in aliases : a[2] + 1 \in DOMAIN outputs /\ outputs[a[2] + 1] = Aliases!Value(a[1], c)

\* Parameters aliased from where a matching piece stands are given their values.
LEMMA PieceGives ==
    ASSUME NEW o, NEW n, NEW b, NEW params, NEW c, Piece(o, n, b), Match(b, params, c)
    PROVE  Gives(Aliases!At(params, n), o, c)
<1>1. Len(b) = Len(params) /\ \A i \in 1 .. Len(params) : b[i] = Aliases!Value(params[i], c)
    BY MatchAt
<1>2. PICK lo, lb \in Nat : lo = Len(o) /\ lb = Len(b)
    BY DEF Piece
<1>3. /\ n \in Nat /\ n + lb <= lo /\ DOMAIN o = 1 .. lo
      /\ \A i \in 1 .. lb : o[n + i] = b[i]
      /\ DOMAIN params = 1 .. lb
    BY <1>1, <1>2 DEF Piece, Match
<1> SUFFICES ASSUME NEW a \in Aliases!At(params, n)
             PROVE  a[2] + 1 \in DOMAIN o /\ o[a[2] + 1] = Aliases!Value(a[1], c)
    BY DEF Gives
<1>4. PICK i \in 1 .. lb : a = <<params[i], n + i - 1>>
    BY <1>3 DEF Aliases!At
<1>5. a[1] = params[i] /\ a[2] = n + i - 1
    BY <1>4
<1>6. a[2] + 1 = n + i /\ n + i \in 1 .. lo
    BY <1>3, <1>5
<1> QED BY <1>1, <1>2, <1>3, <1>5, <1>6

\* A buffer with an alias holds its own value afterwards.
LEMMA StoreGives ==
    ASSUME NEW old, NEW aliases, NEW outputs, NEW c, Gives(aliases, outputs, c),
           NEW b \in DOMAIN old, \E a \in aliases : a[1] = b
    PROVE  Aliases!Store(old, aliases, outputs)[b] = Aliases!Value(b, c)
<1> DEFINE a == CHOOSE a \in aliases : a[1] = b
<1>1. a \in aliases /\ a[1] = b
    OBVIOUS
<1> HIDE DEF a
<1>2. a[2] + 1 \in DOMAIN outputs /\ outputs[a[2] + 1] = Aliases!Value(b, c)
    BY <1>1 DEF Gives
<1>3. Aliases!Store(old, aliases, outputs)[b] = outputs[a[2] + 1]
    BY <1>2 DEF Aliases!Store, a
<1> QED BY <1>2, <1>3

\* The results in front are values no buffer takes.
LEMMA ResultsTyped ==
    ASSUME NEW n \in Nat, NEW c \in Int
    PROVE  Aliases!Results(n, c) \in Seq(Values) /\ Len(Aliases!Results(n, c)) = n
BY DEF Aliases!Results, Aliases!Value, Aliases!Result, Values, Aliases!Buffer, Buffers,
     Aliases!Draft

\* The results in front of a plain call's outputs.
NumResultsIn == IF config.logits THEN 2 ELSE 1

\* What a plain call returns: its cache behind its results, its states behind
\* the cache.
LEMMA PlainPieces ==
    ASSUME NEW c \in Int, config \in Flags
    PROVE  /\ Piece(Aliases!PlainOutputs(c), NumResultsIn, Aliases!TrunkCache(c))
           /\ Piece(Aliases!PlainOutputs(c), NumResultsIn + Aliases!NumKv,
                Aliases!CollectedStates(c))
           /\ Len(Aliases!PlainOutputs(c))
                = NumResultsIn + Aliases!NumKv + Len(Aliases!CollectedStates(c))
           /\ NumResultsIn \in Nat /\ Len(Aliases!TrunkCache(c)) = Aliases!NumKv
<1>1. PICK r : r = NumResultsIn
    OBVIOUS
<1>2. r \in Nat
    BY <1>1 DEF NumResultsIn
<1>3. PICK p, t, s : p = Aliases!Results(r, c) /\ t = Aliases!TrunkCache(c)
        /\ s = Aliases!CollectedStates(c)
    OBVIOUS
<1>4. p \in Seq(Values) /\ Len(p) = r
    BY <1>2, <1>3, ResultsTyped
<1>5. t \in Seq(Values) /\ Len(t) = Aliases!NumKv /\ Aliases!NumKv \in Nat /\ s \in Seq(Values)
    BY <1>3, TrunkMatches, StatesMatch, MatchAt DEF Match
<1>6. PICK x : x = p \o t
    OBVIOUS
<1>7. PICK o : o = x \o s
    OBVIOUS
<1>8. Piece(x, 0, p) /\ Piece(x, r, t) /\ x \in Seq(Values) /\ Len(x) = r + Aliases!NumKv
    BY <1>4, <1>5, <1>6, PiecesOfTwo
<1>9. Piece(o, 0, x) /\ Piece(o, r + Aliases!NumKv, s) /\ Len(o) = r + Aliases!NumKv + Len(s)
    BY <1>5, <1>7, <1>8, PiecesOfTwo
<1>10. Piece(o, 0 + r, t)
    BY <1>8, <1>9, PieceOfPiece
<1>11. 0 + r = r
    BY <1>2
<1>12. Aliases!PlainOutputs(c) = o
    BY <1>1, <1>3, <1>6, <1>7 DEF Aliases!PlainOutputs, NumResultsIn
<1> QED BY <1>1, <1>2, <1>3, <1>5, <1>9, <1>10, <1>11, <1>12

\* Every alias of the plain graphs takes its buffer's value.
LEMMA PlainGives ==
    ASSUME NEW c \in Int, config \in Flags
    PROVE  Gives(Aliases!PlainAliases, Aliases!PlainOutputs(c), c)
<1>1. Gives(Aliases!At(Aliases!CacheParams, NumResultsIn), Aliases!PlainOutputs(c), c)
    BY PlainPieces, TrunkMatches, PieceGives
<1>2. ~config.hybrid
        => Gives(Aliases!At(Aliases!StateParams, NumResultsIn + Aliases!NumKv),
          Aliases!PlainOutputs(c), c)
    BY PlainPieces, StatesMatch, PieceGives
<1> QED BY <1>1, <1>2 DEF Gives, Aliases!PlainAliases, Aliases!CacheAliases, NumResultsIn

\* The hidden state in its buffer.
LEMMA HiddenTyped ==
    ASSUME NEW c \in Int
    PROVE  Aliases!Hidden \in Buffers /\ << Aliases!Value(Aliases!Hidden, c) >> \in Seq(Values)
<1>1. Aliases!Hidden \in Buffers
    BY DEF Aliases!Hidden, Aliases!Buffer, Buffers, Aliases!Draft
<1>2. Aliases!Value(Aliases!Hidden, c) \in Values
    BY <1>1 DEF Aliases!Value, Values
<1> QED BY <1>1, <1>2

\* The first and the last output cut off, the rest is what stands between.
LEMMA InnerOfThree ==
    ASSUME NEW b \in Seq(Values), NEW c \in Int
    PROVE  Aliases!Inner(Aliases!Results(1, c) \o b \o << Aliases!Value(Aliases!Hidden, c) >>) = b
<1>1. PICK p, h : p = Aliases!Results(1, c) /\ h = << Aliases!Value(Aliases!Hidden, c) >>
    OBVIOUS
<1>2. p \in Seq(Values) /\ Len(p) = 1 /\ h \in Seq(Values) /\ Len(h) = 1
    BY <1>1, ResultsTyped, HiddenTyped
<1>3. PICK x : x = p \o b
    OBVIOUS
<1>4. PICK o : o = x \o h
    OBVIOUS
<1>5. Piece(x, 1, b) /\ x \in Seq(Values) /\ Len(x) = 1 + Len(b)
    BY <1>2, <1>3, PiecesOfTwo
<1>6. Piece(o, 0, x) /\ Len(o) = Len(x) + Len(h)
    BY <1>2, <1>4, <1>5, PiecesOfTwo
<1>7. Piece(o, 0 + 1, b)
    BY <1>5, <1>6, PieceOfPiece
<1>8. SubSeq(o, (0 + 1) + 1, (0 + 1) + Len(b)) = b
    BY <1>7, PieceCut
<1>9. Len(b) \in Nat
    OBVIOUS
<1>10. (0 + 1) + 1 = 2 /\ (0 + 1) + Len(b) = Len(o) - 1
    BY <1>2, <1>5, <1>6, <1>9
<1> QED BY <1>1, <1>3, <1>4, <1>8, <1>10 DEF Aliases!Inner

\* The drafter's keys and values match its parameters.
LEMMA DraftMatches ==
    ASSUME NEW c \in Int
    PROVE  Match(Aliases!KvOf(Aliases!Draft, c), Aliases!DraftParams, c)
             /\ Len(Aliases!KvOf(Aliases!Draft, c)) = 2
<1>1. Aliases!Draft \in Int
    BY DEF Aliases!Draft
<1>2. Match(Aliases!KvOf(Aliases!Draft, c), Aliases!DraftParams, c)
    BY <1>1, PairMatches DEF Aliases!KvOf, Aliases!DraftParams, Match
<1> QED BY <1>2, MatchAt DEF Aliases!DraftParams

\* Every alias of the fused graphs takes its buffer's value, if the tail is the
\* draft's cache, the trunk's, the states and the hidden, in this order.
LEMMA FusedGives ==
    ASSUME NEW c \in Int, config \in Flags,
           NEW t, Match(t, Aliases!CacheParams, c), NEW s, Match(s, Aliases!StateParams, c)
    PROVE  Gives(Aliases!FusedAliases,
             Aliases!FusedPrefix(c)
               \o (Aliases!KvOf(Aliases!Draft, c) \o t \o s
                 \o << Aliases!Value(Aliases!Hidden, c) >>), c)
<1>1. PICK p, d, h, f : /\ p = Aliases!FusedPrefix(c) /\ d = Aliases!KvOf(Aliases!Draft, c)
                             /\ h = << Aliases!Value(Aliases!Hidden, c) >>
                        /\ f = 2 * (Aliases!NumResults + 1)
    OBVIOUS
<1>2. f \in Nat /\ p \in Seq(Values) /\ Len(p) = f
    <2>1. Aliases!NumResults \in Nat
        BY DEF Aliases!NumResults, Flags
    <2>2. f \in Nat
        BY <1>1, <2>1
    <2>3. p = Aliases!Results(f, c)
        BY <1>1 DEF Aliases!FusedPrefix
    <2> QED BY <2>2, <2>3, ResultsTyped
<1>3. Match(d, Aliases!DraftParams, c) /\ Len(d) = 2
    BY <1>1, DraftMatches
<1>4. Match(h, << Aliases!Hidden >>, c) /\ Len(h) = 1
    <2>1. PICK b \in Buffers : b = Aliases!Hidden
        BY HiddenTyped
    <2>2. PICK v \in Values : v = Aliases!Value(b, c)
        BY DEF Aliases!Value, Values
    <2>3. <<v, b>> \in ValueOf(c)
        BY <2>2 DEF ValueOf
    <2>4. Related(<<v>>, <<b>>, ValueOf(c))
        BY <2>3 DEF Related
    <2>5. Match(<<v>>, <<b>>, c)
        BY <2>4 DEF Match
    <2> QED BY <1>1, <2>1, <2>2, <2>5
<1>5. Len(t) = Aliases!NumKv /\ Aliases!NumKv \in Nat /\ Len(s) = Len(Aliases!StateParams)
        /\ Len(s) \in Nat
    BY TrunkMatches, MatchAt
<1>6. d \in Seq(Values) /\ t \in Seq(Values) /\ s \in Seq(Values) /\ h \in Seq(Values)
    BY <1>3, <1>4 DEF Match
<1>7. PICK x : x = d \o t
    OBVIOUS
<1>8. PICK y : y = x \o s
    OBVIOUS
<1>9. PICK z : z = y \o h
    OBVIOUS
<1>10. PICK o : o = p \o z
    OBVIOUS
<1>11. Piece(x, 0, d) /\ Piece(x, 2, t) /\ x \in Seq(Values) /\ Len(x) = 2 + Aliases!NumKv
    <2>1. Piece(d \o t, Len(d), t) /\ Piece(d \o t, 0, d) /\ d \o t \in Seq(Values)
          /\ Len(d \o t) = Len(d) + Len(t)
        BY <1>6, PiecesOfTwo
    <2> QED BY <2>1, <1>3, <1>5, <1>7
<1>12. Piece(y, 0, x) /\ Piece(y, 2 + Aliases!NumKv, s) /\ y \in Seq(Values)
         /\ Len(y) = 2 + Aliases!NumKv + Len(s)
    BY <1>6, <1>8, <1>11, PiecesOfTwo
<1>13. Piece(z, 0, y) /\ Piece(z, 2 + Aliases!NumKv + Len(s), h) /\ z \in Seq(Values)
    BY <1>6, <1>9, <1>12, PiecesOfTwo
<1>14. Piece(o, f, z)
    BY <1>2, <1>10, <1>13, PiecesOfTwo
<1>15. Piece(o, f + 0, y) /\ Piece(o, f + (2 + Aliases!NumKv + Len(s)), h)
    BY <1>13, <1>14, PieceOfPiece
<1>16. f + 0 = f
    BY <1>2
<1>17. Piece(o, f, y)
    BY <1>15, <1>16
<1>18. Piece(o, f + 0, x) /\ Piece(o, f + (2 + Aliases!NumKv), s)
    BY <1>12, <1>17, PieceOfPiece
<1>19. Piece(o, f, x)
    BY <1>16, <1>18
<1>20. Piece(o, f + 0, d) /\ Piece(o, f + 2, t)
    BY <1>11, <1>19, PieceOfPiece
<1>21. /\ Gives(Aliases!At(Aliases!DraftParams, f), o, c)
       /\ Gives(Aliases!At(Aliases!CacheParams, f + 2), o, c)
       /\ Gives(Aliases!At(Aliases!StateParams, f + (2 + Aliases!NumKv)), o, c)
       /\ Gives(Aliases!At(<< Aliases!Hidden >>, f + (2 + Aliases!NumKv + Len(s))), o, c)
    BY <1>3, <1>4, <1>15, <1>16, <1>18, <1>20, PieceGives
<1>22. PICK size : size = Len(s)
    OBVIOUS
<1>23. /\ f + (2 + Aliases!NumKv) = f + 2 + Aliases!NumKv
       /\ f + (2 + Aliases!NumKv + size) = f + 2 + Aliases!NumKv + size
    BY <1>2, <1>5, <1>22
<1>24. Aliases!FusedAliases = Aliases!At(Aliases!DraftParams, f)
         \cup Aliases!At(Aliases!CacheParams, f + 2)
                          \cup Aliases!At(Aliases!StateParams, f + 2 + Aliases!NumKv)
                          \cup Aliases!At(<< Aliases!Hidden >>, f + 2 + Aliases!NumKv + size)
    BY <1>1, <1>5, <1>22 DEF Aliases!FusedAliases, Aliases!FusedCacheAliases, Aliases!NumDraftKv
<1>25. Gives(Aliases!FusedAliases, o, c)
    <2>1. \A A, B : Gives(A, o, c) /\ Gives(B, o, c) => Gives(A \cup B, o, c)
        BY DEF Gives
    <2> QED BY <1>21, <1>22, <1>23, <1>24, <2>1
<1> QED BY <1>1, <1>7, <1>8, <1>9, <1>10, <1>25

\* Every alias takes its buffer's value in a round.
LEMMA RoundGives ==
    ASSUME NEW c \in Int, config \in Flags, ~config.hybrid
    PROVE  Gives(Aliases!FusedAliases, Aliases!FusedPrefix(c) \o Aliases!RoundTail(c), c)
<1>1. PICK t : t = Aliases!PerLayer(LAMBDA i : Aliases!KvOf(i, c))
    OBVIOUS
<1>2. Match(t, Aliases!CacheParams, c) /\ t \in Seq(Values)
    BY <1>1, VerifyMatches DEF Match
<1>3. Aliases!Inner(Aliases!VerifyOutputs(c)) = t
    BY <1>1, <1>2, InnerOfThree DEF Aliases!VerifyOutputs
<1>4. Aliases!KvOf(Aliases!Draft, c) \in Seq(Values)
    BY DraftMatches DEF Match
<1>5. Aliases!Inner(Aliases!DraftOutputs(c)) = Aliases!KvOf(Aliases!Draft, c)
    BY <1>4, InnerOfThree DEF Aliases!DraftOutputs
<1>6. Aliases!RoundTail(c) = Aliases!KvOf(Aliases!Draft, c) \o t \o Aliases!Committed(c)
        \o << Aliases!Value(Aliases!Hidden, c) >>
    BY <1>3, <1>5 DEF Aliases!RoundTail
<1> QED BY <1>2, <1>6, StatesMatch, FusedGives

\* And in the fused prefill, which cuts the target's outputs by counting from
\* one result.
LEMMA PrefillGives ==
    ASSUME NEW c \in Int, config \in Flags, ~config.hybrid, ~config.logits
    PROVE  Gives(Aliases!FusedAliases, Aliases!FusedPrefix(c) \o Aliases!PrefillTail(c), c)
<1>1. PICK o, t, s : o = Aliases!PlainOutputs(c) /\ t = Aliases!TrunkCache(c)
        /\ s = Aliases!CollectedStates(c)
    OBVIOUS
<1>2. Match(t, Aliases!CacheParams, c) /\ Match(s, Aliases!StateParams, c) /\ Aliases!NumKv \in Nat
    BY <1>1, TrunkMatches, StatesMatch
<1>3. /\ Piece(o, 1, t) /\ Piece(o, 1 + Aliases!NumKv, s) /\ Len(t) = Aliases!NumKv
      /\ Len(o) = 1 + Aliases!NumKv + Len(s)
    BY <1>1, PlainPieces DEF NumResultsIn
<1>4. SubSeq(o, 1 + 1, 1 + Aliases!NumKv) = t
    BY <1>3, PieceCut
<1>5. SubSeq(o, (1 + Aliases!NumKv) + 1, (1 + Aliases!NumKv) + Len(s)) = s
    BY <1>3, PieceCut
<1>6. 1 + 1 = 2 /\ (1 + Aliases!NumKv) + 1 = 2 + Aliases!NumKv
    BY <1>2
<1>7. SubSeq(o, 2, 1 + Aliases!NumKv) = t /\ SubSeq(o, 2 + Aliases!NumKv, Len(o)) = s
    BY <1>3, <1>4, <1>5, <1>6
<1>8. Aliases!KvOf(Aliases!Draft, c) \in Seq(Values)
    BY DraftMatches DEF Match
<1>9. Aliases!Inner(Aliases!DraftOutputs(c)) = Aliases!KvOf(Aliases!Draft, c)
    BY <1>8, InnerOfThree DEF Aliases!DraftOutputs
<1>10. Aliases!PrefillTail(c) = Aliases!KvOf(Aliases!Draft, c) \o t \o s
         \o << Aliases!Value(Aliases!Hidden, c) >>
    BY <1>1, <1>7, <1>9 DEF Aliases!PrefillTail
<1> QED BY <1>2, <1>10, FusedGives

\* Every place of the parameters has an alias.
LEMMA AliasOf ==
    ASSUME NEW params, NEW n, NEW i \in DOMAIN params
    PROVE  \E a \in Aliases!At(params, n) : a[1] = params[i]
<1>1. <<params[i], n + i - 1>> \in Aliases!At(params, n)
    BY DEF Aliases!At
<1> QED BY <1>1

\* Every buffer a configuration keeps alive is aliased by its graphs.
LEMMA LiveAliased ==
    ASSUME config \in Flags, config.fused => ~config.hybrid, NEW b \in Aliases!LiveBuffers
    PROVE  /\ ~config.fused => \E a \in Aliases!PlainAliases : a[1] = b
           /\ config.fused => \E a \in Aliases!FusedAliases : a[1] = b
<1>1. CASE \E i \in DOMAIN Aliases!CacheParams : b = Aliases!CacheParams[i]
    BY <1>1, AliasOf
         DEF Aliases!PlainAliases, Aliases!CacheAliases, Aliases!FusedAliases,
           Aliases!FusedCacheAliases
<1>2. CASE ~config.hybrid /\ \E i \in DOMAIN Aliases!StateParams : b = Aliases!StateParams[i]
    BY <1>2, AliasOf DEF Aliases!PlainAliases, Aliases!FusedAliases
<1>3. CASE config.fused /\ b \in Aliases!DraftBuffers
    <2>1. 1 \in DOMAIN Aliases!DraftParams /\ 2 \in DOMAIN Aliases!DraftParams
            /\ 1 \in DOMAIN << Aliases!Hidden >>
          /\ Aliases!DraftParams[1] = Aliases!Buffer("k", Aliases!Draft)
               /\ Aliases!DraftParams[2] = Aliases!Buffer("v", Aliases!Draft)
          /\ << Aliases!Hidden >>[1] = Aliases!Hidden
        BY DEF Aliases!DraftParams
    <2>2. \A n : /\ \E a \in Aliases!At(Aliases!DraftParams, n) : a[1]
                      = Aliases!Buffer("k", Aliases!Draft)
                 /\ \E a \in Aliases!At(Aliases!DraftParams, n) : a[1]
                      = Aliases!Buffer("v", Aliases!Draft)
                 /\ \E a \in Aliases!At(<< Aliases!Hidden >>, n) : a[1] = Aliases!Hidden
        BY <2>1, AliasOf
    <2>3. b = Aliases!Buffer("k", Aliases!Draft) \/ b = Aliases!Buffer("v", Aliases!Draft)
            \/ b = Aliases!Hidden
        BY <1>3 DEF Aliases!DraftBuffers
    <2> QED BY <1>3, <2>2, <2>3 DEF Aliases!FusedAliases, Aliases!FusedCacheAliases
<1> QED BY <1>1, <1>2, <1>3 DEF Aliases!LiveBuffers, Aliases!StateBuffers

\* The parameters are buffers of the trunk.
LEMMA ParamsOfTrunk ==
    /\ \A i \in DOMAIN Aliases!CacheParams : Aliases!CacheParams[i] \in Aliases!TrunkBuffers
    /\ \A i \in DOMAIN Aliases!StateParams : Aliases!StateParams[i] \in Aliases!TrunkBuffers
<1>1. Len(AliasTypes) \in Nat \ {0} /\ Aliases!Layers = 1 .. Len(AliasTypes)
    BY AliasAssumption DEF Aliases!LayersAssumption, Aliases!Layers
<1> DEFINE a == [i \in Aliases!Layers |-> IF Aliases!IsLinear(i) /\ config.hybrid
                        THEN << Aliases!Buffer("rec", i), Aliases!Buffer("conv", i) >>
                        ELSE << Aliases!Buffer("k", i), Aliases!Buffer("v", i) >>]
           b == [i \in Aliases!Layers |-> IF Aliases!IsLinear(i)
                        THEN << Aliases!Buffer("rec", i), Aliases!Buffer("conv", i) >>
                        ELSE << >>]
<1>2. Aliases!CacheParams = Aliases!FlattenSeq(a) /\ Aliases!StateParams = Aliases!FlattenSeq(b)
    BY DEF Aliases!CacheParams, Aliases!StateParams, Aliases!PerLayer
<1>3. Len(a) = Len(AliasTypes) /\ Len(b) = Len(AliasTypes)
    BY <1>1
<1>4. ASSUME NEW i \in Aliases!Layers
               PROVE a[i] \in Seq(Aliases!TrunkBuffers) /\ b[i] \in Seq(Aliases!TrunkBuffers)
    <2>1. \A k \in {"k", "v", "rec", "conv"} : Aliases!Buffer(k, i) \in Aliases!TrunkBuffers
        BY DEF Aliases!TrunkBuffers
    <2>2. /\ << Aliases!Buffer("rec", i), Aliases!Buffer("conv", i) >> \in Seq(Aliases!TrunkBuffers)
          /\ << Aliases!Buffer("k", i), Aliases!Buffer("v", i) >> \in Seq(Aliases!TrunkBuffers)
          /\ << >> \in Seq(Aliases!TrunkBuffers)
        BY <2>1
    <2> QED BY <2>2
<1> HIDE DEF a, b
<1>5. /\ \A i \in 1 .. Len(a) : a[i] \in Seq(Aliases!TrunkBuffers)
      /\ \A i \in 1 .. Len(b) : b[i] \in Seq(Aliases!TrunkBuffers)
      /\ Len(a) \in Nat \ {0} /\ Len(b) \in Nat \ {0}
    BY <1>1, <1>3, <1>4
<1>6. \A s : Len(s) \in Nat \ {0} /\ (\A i \in 1 .. Len(s) : s[i] \in Seq(Aliases!TrunkBuffers))
            => Aliases!FlattenSeq(s) \in Seq(Aliases!TrunkBuffers)
    <2> SUFFICES ASSUME NEW s, Len(s) \in Nat \ {0},
                          \A i \in 1 .. Len(s) : s[i] \in Seq(Aliases!TrunkBuffers)
                 PROVE  Aliases!FlattenSeq(s) \in Seq(Aliases!TrunkBuffers)
        OBVIOUS
    <2>1. PICK flat : Flat(flat, Len(s), s) /\ FlattenSeq(s) = flat[Len(s)]
        BY FlattenSeqIsFlat
    <2>2. Len(s) \in Nat /\ Len(s) \in 1 .. Len(s)
        OBVIOUS
    <2>3. \A i \in 1 .. Len(s) : flat[i] \in Seq(Aliases!TrunkBuffers)
        BY <2>1, <2>2, FlatTyped
    <2>4. Aliases!FlattenSeq(s) = FlattenSeq(s)
        BY DEF Aliases!FlattenSeq, FlattenSeq
    <2> QED BY <2>1, <2>2, <2>3, <2>4
<1>7. Aliases!FlattenSeq(a) \in Seq(Aliases!TrunkBuffers)
        /\ Aliases!FlattenSeq(b) \in Seq(Aliases!TrunkBuffers)
    BY <1>5, <1>6
<1>8. \A s \in Seq(Aliases!TrunkBuffers) : \A i \in DOMAIN s : s[i] \in Aliases!TrunkBuffers
    OBVIOUS
<1> QED BY <1>2, <1>7, <1>8

\* Live buffers are buffers of the device.
LEMMA LiveOnDevice == Aliases!LiveBuffers \subseteq Aliases!TrunkBuffers \cup Aliases!DraftBuffers
BY ParamsOfTrunk DEF Aliases!LiveBuffers, Aliases!StateBuffers

\* The inductive invariant: every live buffer holds its own value of the last
\* call; the CPU's parameters too, when the cut counts as many results as the
\* call returns.
AliasInv ==
    /\ config \in Flags
    /\ config.fused => ~config.hybrid
    /\ calls \in Nat
    /\ DOMAIN buf = Aliases!TrunkBuffers \cup Aliases!DraftBuffers
    /\ DOMAIN cpu.decode = Aliases!StateBuffers /\ DOMAIN cpu.context = Aliases!StateBuffers
    /\ Aliases!Counted
         => \A b \in Aliases!LiveBuffers : buf[b]
           = Aliases!Value(b, IF config.host THEN 0 ELSE calls)
    /\ config.host /\ ~config.hybrid /\ (config.logits => config.sampling) =>
          \A b \in Aliases!StateBuffers :
              cpu.decode[b] = Aliases!Value(b, calls) /\ cpu.context[b] = Aliases!Value(b, calls)

\* What a configuration keeps alive does not change.
LEMMA ConfigKept ==
    ASSUME config' = config
    PROVE  Aliases!StateBuffers' = Aliases!StateBuffers
             /\ Aliases!LiveBuffers' = Aliases!LiveBuffers /\ Aliases!Counted' = Aliases!Counted
BY DEF Aliases!StateBuffers, Aliases!LiveBuffers, Aliases!Counted, Aliases!CacheParams,
     Aliases!StateParams, Aliases!PerLayer

\* The first state: every buffer holds its own, of no call.
LEMMA AliasInit == Aliases!Init => AliasInv
<1> SUFFICES ASSUME Aliases!Init PROVE AliasInv
    OBVIOUS
<1>1. config \in Flags /\ (config.fused => ~config.hybrid) /\ calls = 0
    BY DEF Aliases!Init, Flags
<1>2. \A B : DOMAIN Aliases!Fresh(B) = B /\ \A b \in B : Aliases!Fresh(B)[b] = Aliases!Value(b, 0)
    BY DEF Aliases!Fresh
<1>3. buf = Aliases!Fresh(Aliases!TrunkBuffers \cup Aliases!DraftBuffers)
        /\ cpu.decode = Aliases!Fresh(Aliases!StateBuffers)
      /\ cpu.context = Aliases!Fresh(Aliases!StateBuffers)
    BY DEF Aliases!Init
<1>4. \A b \in Aliases!LiveBuffers : buf[b] = Aliases!Value(b, 0)
    BY <1>2, <1>3, LiveOnDevice
<1>5. \A b \in Aliases!StateBuffers : cpu.decode[b] = Aliases!Value(b, 0)
        /\ cpu.context[b] = Aliases!Value(b, 0)
    BY <1>2, <1>3
<1>6. (IF config.host THEN 0 ELSE calls) = 0 /\ calls \in Nat
    BY <1>1
<1>7. DOMAIN buf = Aliases!TrunkBuffers \cup Aliases!DraftBuffers
        /\ DOMAIN cpu.decode = Aliases!StateBuffers
      /\ DOMAIN cpu.context = Aliases!StateBuffers
    BY <1>2, <1>3
<1> QED BY <1>1, <1>4, <1>5, <1>6, <1>7 DEF AliasInv

\* A call on the device, if every alias takes its buffer's value.
LEMMA DeviceStep ==
    ASSUME AliasInv, NEW aliases, NEW outputs,
           ~config.host, calls' = calls + 1, UNCHANGED <<config, cpu>>,
           buf' = Aliases!Store(buf, aliases, outputs),
           Aliases!Counted => Gives(aliases, outputs, calls'),
           \A b \in Aliases!LiveBuffers : \E a \in aliases : a[1] = b
    PROVE  AliasInv'
<1>1. calls' \in Nat
    BY DEF AliasInv
<1>2. DOMAIN buf' = DOMAIN buf
    BY DEF Aliases!Store
<1>3. ASSUME Aliases!Counted, NEW b \in Aliases!LiveBuffers PROVE buf'[b] = Aliases!Value(b, calls')
    <2>1. b \in DOMAIN buf /\ \E a \in aliases : a[1] = b
        BY LiveOnDevice DEF AliasInv
    <2>2. Aliases!Store(buf, aliases, outputs)[b] = Aliases!Value(b, calls')
        BY <1>3, <2>1, StoreGives
    <2> QED BY <2>2
<1>4. (config \in Flags /\ (config.fused => ~config.hybrid) /\ ~config.host)'
    BY DEF AliasInv
<1>5. (DOMAIN buf = Aliases!TrunkBuffers \cup Aliases!DraftBuffers)'
    BY <1>2 DEF AliasInv, Aliases!TrunkBuffers, Aliases!DraftBuffers
<1>6. (DOMAIN cpu.decode = Aliases!StateBuffers /\ DOMAIN cpu.context = Aliases!StateBuffers)'
    BY ConfigKept DEF AliasInv
<1>7. (Aliases!Counted
        => \A b \in Aliases!LiveBuffers : buf[b]
          = Aliases!Value(b, IF config.host THEN 0 ELSE calls))'
    BY <1>3, <1>4, ConfigKept
<1> QED BY <1>1, <1>4, <1>5, <1>6, <1>7 DEF AliasInv

\* Every call of every graph keeps the invariant.
LEMMA AliasStep == AliasInv /\ [Aliases!Next]_Aliases!vars => AliasInv'
<1> SUFFICES ASSUME AliasInv, [Aliases!Next]_Aliases!vars PROVE AliasInv'
    OBVIOUS
<1>0. config \in Flags /\ (config.fused => ~config.hybrid) /\ calls \in Nat
    BY DEF AliasInv
<1>1. CASE Aliases!PlainCall
    <2>1. /\ ~config.fused /\ ~config.host /\ calls' = calls + 1 /\ UNCHANGED <<config, cpu>>
          /\ buf' = Aliases!Store(buf, Aliases!PlainAliases, Aliases!PlainOutputs(calls'))
        BY <1>1 DEF Aliases!PlainCall, Aliases!Launch
    <2>2. calls' \in Int
        BY <1>0, <2>1
    <2>3. Gives(Aliases!PlainAliases, Aliases!PlainOutputs(calls'), calls')
        BY <1>0, <2>2, PlainGives
    <2>4. \A b \in Aliases!LiveBuffers : \E a \in Aliases!PlainAliases : a[1] = b
        BY <1>0, <2>1, LiveAliased
    <2> QED BY <2>1, <2>3, <2>4, DeviceStep
<1>2. CASE Aliases!PrefillCall
    <2>1. /\ config.fused /\ ~config.host /\ calls' = calls + 1 /\ UNCHANGED <<config, cpu>>
          /\ buf'
               = Aliases!Store(buf, Aliases!FusedAliases,
                 Aliases!FusedPrefix(calls') \o Aliases!PrefillTail(calls'))
        BY <1>2 DEF Aliases!PrefillCall, Aliases!Launch
    <2>2. calls' \in Int
        BY <1>0, <2>1
    <2>3. Aliases!Counted
            => Gives(Aliases!FusedAliases,
              Aliases!FusedPrefix(calls') \o Aliases!PrefillTail(calls'), calls')
        BY <1>0, <2>1, <2>2, PrefillGives DEF Aliases!Counted
    <2>4. \A b \in Aliases!LiveBuffers : \E a \in Aliases!FusedAliases : a[1] = b
        BY <1>0, <2>1, LiveAliased
    <2> QED BY <2>1, <2>3, <2>4, DeviceStep
<1>3. CASE Aliases!RoundCall
    <2>1. /\ config.fused /\ ~config.host /\ calls' = calls + 1 /\ UNCHANGED <<config, cpu>>
          /\ buf'
               = Aliases!Store(buf, Aliases!FusedAliases,
                 Aliases!FusedPrefix(calls') \o Aliases!RoundTail(calls'))
        BY <1>3 DEF Aliases!RoundCall, Aliases!Launch
    <2>2. calls' \in Int
        BY <1>0, <2>1
    <2>3. Gives(Aliases!FusedAliases, Aliases!FusedPrefix(calls') \o Aliases!RoundTail(calls'),
            calls')
        BY <1>0, <2>1, <2>2, RoundGives
    <2>4. \A b \in Aliases!LiveBuffers : \E a \in Aliases!FusedAliases : a[1] = b
        BY <1>0, <2>1, LiveAliased
    <2> QED BY <2>1, <2>3, <2>4, DeviceStep
<1>4. CASE Aliases!CpuCall
    <2>1. /\ config.host /\ ~config.hybrid /\ calls' = calls + 1 /\ UNCHANGED <<config, buf>>
          /\ cpu' = Aliases!CpuCopy(calls')
        BY <1>4 DEF Aliases!CpuCall
    <2>2. calls' \in Int /\ calls' \in Nat
        BY <1>0, <2>1
    <2>3. PICK o, p, n, start : /\ o = Aliases!PlainOutputs(calls') /\ p = Aliases!StateParams
                                /\ n = Len(p) /\ start = Aliases!CpuStart
        OBVIOUS
    <2>4. cpu' = IF p # << >> /\ start + n <= Len(o)
                 THEN [decode  |-> Aliases!Store(cpu.decode, Aliases!At(p, start), o),
                       context |-> Aliases!Store(cpu.context, Aliases!At(p, start), o)]
                 ELSE cpu
        BY <2>1, <2>3 DEF Aliases!CpuCopy
    <2>5. \A old, A : DOMAIN Aliases!Store(old, A, o) = DOMAIN old
        BY DEF Aliases!Store
    <2>6. (DOMAIN cpu.decode = Aliases!StateBuffers /\ DOMAIN cpu.context = Aliases!StateBuffers)'
        <3>1. DOMAIN (cpu'.decode) = DOMAIN cpu.decode /\ DOMAIN (cpu'.context) = DOMAIN cpu.context
            BY <2>4, <2>5
        <3> QED BY <3>1, <2>1, ConfigKept DEF AliasInv
    <2>7. ASSUME config.logits => config.sampling, NEW b \in Aliases!StateBuffers
          PROVE  cpu'.decode[b] = Aliases!Value(b, calls')
                   /\ cpu'.context[b] = Aliases!Value(b, calls')
        <3>1. PICK i \in DOMAIN p : b = p[i]
            BY <2>3 DEF Aliases!StateBuffers
        <3>2. Match(Aliases!CollectedStates(calls'), p, calls')
            BY <2>1, <2>2, <2>3, StatesMatch
        <3>3. Len(Aliases!CollectedStates(calls')) = n /\ n \in Nat /\ p \in Seq(Buffers)
            BY <2>3, <3>2, MatchAt DEF Match
        <3>4. start = NumResultsIn + Aliases!NumKv
            BY <2>3, <2>7 DEF Aliases!CpuStart, NumResultsIn
        <3>5. Piece(o, start, Aliases!CollectedStates(calls')) /\ Len(o) = start + n
            BY <1>0, <2>2, <2>3, <3>3, <3>4, PlainPieces
        <3>6. Gives(Aliases!At(p, start), o, calls')
            BY <3>2, <3>5, PieceGives
        <3>7. p # << >> /\ start + n <= Len(o)
            BY <3>1, <3>3, <3>5 DEF Piece
        <3>8. \E a \in Aliases!At(p, start) : a[1] = b
            BY <3>1, AliasOf
        <3>9. b \in DOMAIN cpu.decode /\ b \in DOMAIN cpu.context
            BY DEF AliasInv
        <3>10. /\ Aliases!Store(cpu.decode, Aliases!At(p, start), o)[b] = Aliases!Value(b, calls')
               /\ Aliases!Store(cpu.context, Aliases!At(p, start), o)[b] = Aliases!Value(b, calls')
            BY <3>6, <3>8, <3>9, StoreGives
        <3> QED BY <2>4, <3>7, <3>10
    <2>8. (config \in Flags /\ (config.fused => ~config.hybrid) /\ config.host)'
        BY <1>0, <2>1
    <2>9. (DOMAIN buf = Aliases!TrunkBuffers \cup Aliases!DraftBuffers)'
        BY <2>1 DEF AliasInv, Aliases!TrunkBuffers, Aliases!DraftBuffers
    <2>10. (Aliases!Counted
             => \A b \in Aliases!LiveBuffers : buf[b]
               = Aliases!Value(b, IF config.host THEN 0 ELSE calls))'
        BY <2>1, ConfigKept DEF AliasInv
    <2>11. (config.host /\ ~config.hybrid /\ (config.logits => config.sampling) =>
              \A b \in Aliases!StateBuffers :
                  cpu.decode[b] = Aliases!Value(b, calls)
                    /\ cpu.context[b] = Aliases!Value(b, calls))'
        BY <2>1, <2>7, ConfigKept
    <2> QED BY <2>2, <2>6, <2>8, <2>9, <2>10, <2>11 DEF AliasInv
<1>5. CASE UNCHANGED Aliases!vars
    <2>1. UNCHANGED <<config, buf, cpu, calls>>
        BY <1>5 DEF Aliases!vars
    <2> QED BY <2>1, ConfigKept DEF AliasInv, Aliases!TrunkBuffers, Aliases!DraftBuffers
<1> QED BY <1>1, <1>2, <1>3, <1>4, <1>5 DEF Aliases!Next

\* What the invariant says of the properties.
LEMMA AliasInvImplies ==
    ASSUME AliasInv
    PROVE  Aliases!BuffersHoldTheirOwn /\ Aliases!NothingLeftBehind /\ Aliases!CpuModulesAgree
<1>1. \A b, c : Aliases!Value(b, c).of = b /\ Aliases!Value(b, c).call = c
    BY DEF Aliases!Value
<1> QED BY <1>1
             DEF AliasInv, Aliases!BuffersHoldTheirOwn, Aliases!NothingLeftBehind,
               Aliases!CpuModulesAgree

\* A behaviour that runs the graphs makes steps of AliasLayout only.
LEMMA AliasesOnly ==
    ASSUME [Next]_vars, Run("aliases")
    PROVE  [Aliases!Next]_Aliases!vars
BY DEF Next, Run, vars, aliasOnly, Aliases!vars

\* After any sequence of calls of the graphs of a configuration every buffer it
\* keeps alive holds the value the last call computed for it, and on the CPU
\* both modules hold the last call's states (the two `get` methods of the
\* model instances, _copy_past_key_values).
THEOREM AliasesKeepOwn == Spec => []BuffersHoldTheirOwn
<1>1. Init => (Run("aliases") => AliasInv)
    BY AliasInit DEF Init, Run
<1>2. (Run("aliases") => AliasInv) /\ [Next]_vars => (Run("aliases") => AliasInv)'
    <2> SUFFICES ASSUME Run("aliases") => AliasInv, [Next]_vars, Run("aliases")'
                 PROVE  AliasInv'
        OBVIOUS
    <2>1. Run("aliases")
        BY SamePart DEF Run
    <2> QED BY <2>1, AliasesOnly, AliasStep
<1>3. (Run("aliases") => AliasInv) => BuffersHoldTheirOwn
    BY AliasInvImplies DEF BuffersHoldTheirOwn
<1> QED BY <1>1, <1>2, <1>3, PTL DEF Spec

(***************************************************************************)
(* From the request to the layers.                                          *)
(***************************************************************************)

\* A stripe of every third frequency has as many as its section says.
LEMMA StripeSize ==
    ASSUME NEW half \in Nat, NEW n \in Nat, NEW o \in {1, 2}, 3 * (n - 1) + o < half
    PROVE  Cardinality({i \in 0 .. half - 1 : i % 3 = o /\ i < 3 * n}) = n
<1> DEFINE S == {i \in 0 .. half - 1 : i % 3 = o /\ i < 3 * n}
           f == [k \in 1 .. n |-> 3 * (k - 1) + o]
<1>1. ASSUME NEW k \in 1 .. n PROVE 3 * (k - 1) + o \in S
    OBVIOUS
<1>2. f \in [1 .. n -> S]
    BY <1>1
<1>3. \A i \in S : \E k \in 1 .. n : f[k] = i
    <2> SUFFICES ASSUME NEW i \in S PROVE \E k \in 1 .. n : f[k] = i
        OBVIOUS
    <2>1. i \in 0 .. half - 1 /\ i % 3 = o /\ i < 3 * n
        OBVIOUS
    <2>2. i = 3 * (i \div 3) + o /\ i \div 3 \in 0 .. n - 1
        BY <2>1
    <2>3. i \div 3 + 1 \in 1 .. n
        BY <2>2
    <2>4. f[i \div 3 + 1] = 3 * ((i \div 3 + 1) - 1) + o
        BY <2>3
    <2>5. 3 * ((i \div 3 + 1) - 1) + o = i
        BY <2>2
    <2> QED BY <2>3, <2>4, <2>5
<1>4. \A a, b \in 1 .. n : f[a] = f[b] => a = b
    OBVIOUS
<1>5. DOMAIN f = 1 .. n
    OBVIOUS
<1> HIDE DEF f, S
<1>6. f \in Bijection(1 .. n, S)
    BY <1>2, <1>3, <1>4, <1>5 DEF Bijection, Injection, Surjection, IsInjective
<1>7. ExistsBijection(1 .. n, S)
    BY <1>6 DEF ExistsBijection
<1>8. Cardinality(S) = n
    BY <1>7, FS_CountingElements
<1> QED BY <1>8 DEF S

\* The three axes' frequencies, by their sections.
LEMMA AxisSizes ==
    /\ Cardinality({i \in Inputs!Line : Inputs!AxisOf(i) = "t"}) = Section[1]
    /\ Cardinality({i \in Inputs!Line : Inputs!AxisOf(i) = "h"}) = Section[2]
    /\ Cardinality({i \in Inputs!Line : Inputs!AxisOf(i) = "w"}) = Section[3]
    /\ \A i \in Inputs!Line : Inputs!AxisOf(i) \in {"t", "h", "w"}
<1>1. PICK s1, s2, s3 \in Nat : s1 = Section[1] /\ s2 = Section[2] /\ s3 = Section[3]
    BY InputsAssumption DEF Inputs!SectionAssumption
<1>2. PICK half \in Nat : half = Inputs!Half
    BY <1>1 DEF Inputs!Half
<1>3. half = s1 + s2 + s3 /\ 3 * s2 - 2 < half /\ 3 * s3 - 1 < half
    BY <1>1, <1>2, InputsAssumption DEF Inputs!SectionAssumption, Inputs!Half
<1>4. \A i \in 0 .. half - 1 : Inputs!AxisOf(i) =
          IF i % 3 = 2 /\ i < 3 * s3 THEN "w" ELSE IF i % 3 = 1 /\ i < 3 * s2 THEN "h" ELSE "t"
    BY <1>1 DEF Inputs!AxisOf
<1>5. Inputs!Line = 0 .. half - 1
    BY <1>2 DEF Inputs!Line
<1> DEFINE L == 0 .. half - 1
           h == {i \in L : i % 3 = 1 /\ i < 3 * s2}
           w == {i \in L : i % 3 = 2 /\ i < 3 * s3}
<1>6. {i \in L : Inputs!AxisOf(i) = "h"} = h /\ {i \in L : Inputs!AxisOf(i) = "w"} = w
    BY <1>4
<1>7. {i \in L : Inputs!AxisOf(i) = "t"} = L \ (h \cup w)
    BY <1>4
<1>8. Cardinality(h) = s2
    <2>1. 3 * (s2 - 1) + 1 < half
        BY <1>3
    <2> QED BY <2>1, StripeSize
<1>9. Cardinality(w) = s3
    <2>1. 3 * (s3 - 1) + 2 < half
        BY <1>3
    <2> QED BY <2>1, StripeSize
<1>10. h \in SUBSET L /\ w \in SUBSET L /\ h \cap w = {}
    OBVIOUS
<1>11. \A i \in L : Inputs!AxisOf(i) \in {"t", "h", "w"}
    BY <1>4
<1>12. IsFiniteSet(L) /\ Cardinality(L) = half
    <2>1. 0 \in Int /\ half - 1 \in Int
        OBVIOUS
    <2>2. IsFiniteSet(L) /\ Cardinality(L) = IF 0 > half - 1 THEN 0 ELSE (half - 1) - 0 + 1
        BY <2>1, FS_Interval
    <2> QED BY <2>2
<1> HIDE DEF L, h, w
<1>13. IsFiniteSet(h) /\ IsFiniteSet(w)
    BY <1>10, <1>12, FS_Subset
<1>14. PICK e : e = h \cap w
    OBVIOUS
<1>15. Cardinality(e) = 0
    BY <1>10, <1>14, FS_EmptySet
<1>16. PICK u : u = h \cup w
    OBVIOUS
<1>17. Cardinality(u) = s2 + s3 - 0
    BY <1>8, <1>9, <1>13, <1>14, <1>15, <1>16, FS_Union
<1>18. L \cap u = u
    BY <1>10, <1>16
<1>19. Cardinality(L \ u) = half - Cardinality(L \cap u)
    BY <1>12, FS_Difference
<1>20. Cardinality(L \ u) = s1
    <2>1. Cardinality(L \ u) = half - Cardinality(u)
        BY ONLY <1>18, <1>19, Zenon
    <2>2. Cardinality(L \ u) = half - (s2 + s3 - 0)
        BY ONLY <1>17, <2>1, Zenon
    <2>3. half - (s2 + s3 - 0) = s1
        BY <1>3
    <2> QED BY ONLY <2>2, <2>3, Zenon
<1> QED BY <1>1, <1>5, <1>6, <1>7, <1>8, <1>9, <1>11, <1>16, <1>20 DEF L

\* The tensors of a call as the graph gets them.
PaddedArgs == Inputs!PadInputs(Inputs!HostArgs, IF Inputs!IsPrefill THEN Width ELSE 1)

Tensors == {"ids", "mask", "pos", "mrope", "vis", "at"}

\* A prompt in its bucket: its tokens in front, positions that count them, and as
\* many vision tensors and columns as the graph was compiled with.
LEMMA PrefillTensors ==
    ASSUME NEW n \in MinPrompt .. Width, prompt \in [1 .. n -> Inputs!Kind], len = n
    PROVE  /\ Inputs!IsPrefill /\ Len(prompt) = n /\ DOMAIN PaddedArgs = Tensors
           /\ PaddedArgs.ids = [i \in 1 .. Width |-> IF i <= n THEN prompt[i] ELSE "pad"]
           /\ PaddedArgs.mask = [i \in 1 .. Width |-> IF i <= n THEN 1 ELSE 0]
           /\ PaddedArgs.pos = [i \in 1 .. Width |-> IF i <= n THEN i - 1 ELSE 1]
           /\ DOMAIN PaddedArgs.mrope = 1 .. Width
           /\ \A i \in 1 .. n : PaddedArgs.mrope[i] = Inputs!HostRope(n)[i]
           /\ DOMAIN PaddedArgs.vis = 1 .. Width /\ DOMAIN PaddedArgs.at = 1 .. Width
<1>1. /\ Width \in Nat /\ Width # 1 /\ MinPrompt \in Nat /\ MinPrompt > 2
      /\ n \in Nat /\ n <= Width /\ Len(prompt) = n /\ Inputs!IsPrefill
    BY InputsAssumption DEF Inputs!SizeAssumption, Inputs!PromptAssumption, Inputs!IsPrefill
<1>2. PICK v : v = Inputs!HostVision(n)
    OBVIOUS
<1>3. PICK r : r = Inputs!HostRope(n)
    OBVIOUS
<1>4. PICK h : /\ h = [ids |-> prompt, mask |-> [i \in 1 .. n |-> 1],
                       pos |-> [i \in 1 .. n |-> i - 1],
                       mrope |-> r, vis |-> v.vis, at |-> v.at]
               /\ Inputs!HostArgs = h
    BY <1>1, <1>2, <1>3 DEF Inputs!HostArgs
<1>5. PICK b : b = Inputs!LibraryPadded(h, Width)
    OBVIOUS
<1>6. /\ DOMAIN b = Tensors
      /\ b.ids = [i \in 1 .. Width |-> IF i <= n THEN prompt[i] ELSE "pad"]
      /\ b.mask = [i \in 1 .. Width |-> IF i <= n THEN 1 ELSE 0]
      /\ b.pos = [i \in 1 .. Width |-> IF i <= n THEN i - 1 ELSE 1]
    BY ONLY <1>1, <1>4, <1>5 DEF Inputs!LibraryPadded, Inputs!PadWith, Tensors
<1>7. PaddedArgs = [b EXCEPT !.mrope = Inputs!PadRope(r, Width),
                             !.vis = Inputs!PadVision(v.vis, Width),
                             !.at = Inputs!Clamped(Inputs!PadPlaces(v.at, Width), Width)]
    <2>1. h.mrope = r /\ h.vis = v.vis /\ h.at = v.at
        BY <1>4
    <2> QED BY ONLY <1>1, <1>4, <1>5, <2>1 DEF PaddedArgs, Inputs!PadInputs
<1>8. /\ DOMAIN PaddedArgs = Tensors /\ PaddedArgs.ids = b.ids /\ PaddedArgs.mask = b.mask
      /\ PaddedArgs.pos = b.pos /\ PaddedArgs.mrope = Inputs!PadRope(r, Width)
      /\ PaddedArgs.vis = Inputs!PadVision(v.vis, Width)
      /\ PaddedArgs.at = Inputs!Clamped(Inputs!PadPlaces(v.at, Width), Width)
    BY ONLY <1>6, <1>7 DEF Tensors
<1>9. /\ DOMAIN Inputs!PadRope(r, Width) = 1 .. Width
      /\ \A i \in 1 .. n : Inputs!PadRope(r, Width)[i] = r[i]
    <2>1. Len(r) = n
        BY <1>1, <1>3 DEF Inputs!HostRope, Inputs!GivenRope
    <2>2. \A i \in 1 .. n : i \in 1 .. Width /\ i <= Len(r)
        BY <1>1, <2>1
    <2> QED BY ONLY <2>2, Zenon DEF Inputs!PadRope, Inputs!PadWith
<1>10. DOMAIN Inputs!PadVision(v.vis, Width) = 1 .. Width
    BY ONLY <1>1 DEF Inputs!PadVision, Inputs!PadWith
<1>11. DOMAIN Inputs!Clamped(Inputs!PadPlaces(v.at, Width), Width) = 1 .. Width
    BY ONLY <1>1 DEF Inputs!Clamped, Inputs!PadPlaces, Inputs!PadWith
<1> QED BY ONLY <1>1, <1>3, <1>6, <1>8, <1>9, <1>10, <1>11

\* A decode step: one token, and nothing of what only a prompt has.
LEMMA DecodeTensors ==
    ASSUME ~Inputs!IsPrefill
    PROVE  /\ DOMAIN PaddedArgs = Tensors
           /\ PaddedArgs.ids = [i \in 1 .. 1 |-> "txt"]
           /\ PaddedArgs.mask = [i \in 1 .. 1 |-> 1]
           /\ PaddedArgs.pos = [i \in 1 .. 1 |-> len - 1]
           /\ PaddedArgs.mrope = << >> /\ PaddedArgs.vis = << >> /\ PaddedArgs.at = << >>
<1>1. PICK h : /\ h = [ids |-> <<"txt">>, mask |-> [i \in 1 .. 1 |-> 1], pos |-> <<len - 1>>,
                       mrope |-> << >>, vis |-> << >>, at |-> << >>]
               /\ Inputs!HostArgs = h
    BY DEF Inputs!HostArgs, Inputs!HostVision, Inputs!HostRope
<1>2. PICK b : b = Inputs!LibraryPadded(h, 1)
    OBVIOUS
<1>3. /\ DOMAIN b = Tensors /\ b.ids = [i \in 1 .. 1 |-> "txt"] /\ b.mask = [i \in 1 .. 1 |-> 1]
      /\ b.pos = [i \in 1 .. 1 |-> len - 1]
      /\ b.mrope = << >> /\ b.vis = << >> /\ b.at = << >>
    BY ONLY <1>1, <1>2 DEF Inputs!LibraryPadded, Inputs!PadWith, Tensors
<1>4. PaddedArgs = b
    BY <1>1, <1>2 DEF PaddedArgs, Inputs!PadInputs
<1> QED BY <1>3, <1>4

\* The inductive invariant: a request is in its bucket, and what is behind a call's
\* phase was computed from it.
InputsInv ==
    /\ phase \in {"idle", "host", "args", "padded", "ran"}
    /\ phase # "idle" => \E n \in MinPrompt .. Width : prompt \in [1 .. n -> Inputs!Kind]
    /\ phase = "args" => args = Inputs!HostArgs
    /\ phase \in {"padded", "ran"} => args = PaddedArgs
    /\ phase = "ran" =>
          /\ emb = Inputs!Embedded(args) /\ rope = Inputs!Rotated(args)
          /\ last = IF Inputs!ContextEncoding(args) THEN Inputs!LastIndex(args) ELSE 0

\* The first state has no request.
LEMMA InputsInit == Inputs!Init => InputsInv
BY DEF Inputs!Init, InputsInv

\* A request's tensors do not change while it is served.
LEMMA RequestKept ==
    ASSUME prompt' = prompt, len' = len, llava' = llava
    PROVE  Inputs!HostArgs' = Inputs!HostArgs /\ PaddedArgs' = PaddedArgs
<1>1. Inputs!IsPrefill' = Inputs!IsPrefill
    BY DEF Inputs!IsPrefill
<1>2. Inputs!HostArgs' = Inputs!HostArgs
    <2>1. Inputs!ImageColumns(prompt)' = Inputs!ImageColumns(prompt)
        OBVIOUS
    <2>2. Inputs!HostVision(Len(IF Inputs!IsPrefill THEN prompt ELSE <<"txt">>))'
            = Inputs!HostVision(Len(IF Inputs!IsPrefill THEN prompt ELSE <<"txt">>))
        BY <1>1, <2>1 DEF Inputs!HostVision, Inputs!Images, Inputs!IsPrefill
    <2> QED BY <1>1, <2>2 DEF Inputs!HostArgs, Inputs!HostRope, Inputs!GivenRope, Inputs!IsPrefill
<1> QED BY <1>1, <1>2 DEF PaddedArgs

\* Each phase computes the next one's.
LEMMA InputsStep ==
    ASSUME InputsInv, [Inputs!Next]_Inputs!vars
    PROVE  InputsInv'
<1>1. CASE UNCHANGED Inputs!vars
    <2>1. UNCHANGED <<prompt, len, llava, phase, args, emb, rope, last>>
        BY <1>1 DEF Inputs!vars
    <2> QED BY <2>1, RequestKept DEF InputsInv
<1>2. ASSUME NEW n \in MinPrompt .. Width, NEW ids \in [1 .. n -> Inputs!Kind], NEW with,
             Inputs!Request(ids, with)
      PROVE  InputsInv'
    BY <1>2 DEF InputsInv, Inputs!Request
<1>3. CASE Inputs!Host
    BY <1>3, RequestKept DEF InputsInv, Inputs!Host
<1>4. CASE Inputs!Pad
    <2>1. args' = PaddedArgs
        BY <1>4 DEF InputsInv, Inputs!Pad, PaddedArgs
    <2> QED BY <1>4, <2>1, RequestKept DEF InputsInv, Inputs!Pad
<1>5. CASE Inputs!Forward
    <2>1. /\ phase = "padded" /\ phase' = "ran" /\ args' = args /\ prompt' = prompt
          /\ emb' = Inputs!Embedded(args) /\ rope' = Inputs!Rotated(args)
          /\ last' = IF Inputs!ContextEncoding(args) THEN Inputs!LastIndex(args) ELSE 0
          /\ args = PaddedArgs /\ PaddedArgs' = PaddedArgs
        BY <1>5, RequestKept DEF InputsInv, Inputs!Forward
    <2> QED BY <2>1 DEF InputsInv
<1>6. CASE Inputs!NextToken
    BY <1>6 DEF InputsInv, Inputs!NextToken
<1> QED BY <1>1, <1>2, <1>3, <1>4, <1>5, <1>6 DEF Inputs!Next

\* What a graph is called with has the widths it was compiled with.
LEMMA Compiled ==
    ASSUME NEW n \in MinPrompt .. Width, prompt \in [1 .. n -> Inputs!Kind]
    PROVE  [f \in DOMAIN PaddedArgs |-> Len(PaddedArgs[f])]
             = Inputs!CompiledWidths(Len(PaddedArgs.ids))
<1>1. Width \in Nat \ {0, 1} /\ MinPrompt \in Nat
    BY InputsAssumption DEF Inputs!SizeAssumption
<1>2. CASE Inputs!IsPrefill
    <2>1. len = n
        BY <1>1, <1>2 DEF Inputs!IsPrefill
    <2>2. /\ DOMAIN PaddedArgs = Tensors
          /\ \A f \in Tensors : Len(PaddedArgs[f]) = Width
        <3>1. /\ DOMAIN PaddedArgs = Tensors
              /\ DOMAIN PaddedArgs.ids = 1 .. Width /\ DOMAIN PaddedArgs.mask = 1 .. Width
              /\ DOMAIN PaddedArgs.pos = 1 .. Width /\ DOMAIN PaddedArgs.mrope = 1 .. Width
              /\ DOMAIN PaddedArgs.vis = 1 .. Width /\ DOMAIN PaddedArgs.at = 1 .. Width
            BY <2>1, PrefillTensors
        <3>2. \A s : DOMAIN s = 1 .. Width => Len(s) = Width
            BY <1>1
        <3> QED BY <3>1, <3>2 DEF Tensors
    <2>3. Inputs!CompiledWidths(Width) = [f \in Tensors |-> Width]
        BY <1>1 DEF Inputs!CompiledWidths, Tensors
    <2>4. Len(PaddedArgs.ids) = Width
        BY <2>2 DEF Tensors
    <2> QED BY <2>2, <2>3, <2>4
<1>3. CASE ~Inputs!IsPrefill
    <2>1. /\ DOMAIN PaddedArgs = Tensors
          /\ Len(PaddedArgs.ids) = 1 /\ Len(PaddedArgs.mask) = 1 /\ Len(PaddedArgs.pos) = 1
          /\ Len(PaddedArgs.mrope) = 0 /\ Len(PaddedArgs.vis) = 0 /\ Len(PaddedArgs.at) = 0
        BY <1>3, DecodeTensors
    <2>2. Inputs!CompiledWidths(1)
            = [f \in Tensors |-> IF f \in {"ids", "mask", "pos"} THEN 1 ELSE 0]
        BY DEF Inputs!CompiledWidths, Tensors
    <2>3. \A f \in Tensors : Len(PaddedArgs[f]) = IF f \in {"ids", "mask", "pos"} THEN 1 ELSE 0
        BY <2>1 DEF Tensors
    <2> QED BY <2>1, <2>2, <2>3
<1> QED BY <1>2, <1>3

\* A bucket is context encoding, a single token is not.
LEMMA PhaseOfCall ==
    ASSUME NEW n \in MinPrompt .. Width, prompt \in [1 .. n -> Inputs!Kind]
    PROVE  /\ Inputs!ContextEncoding(PaddedArgs) <=> Inputs!IsPrefill
           /\ Inputs!IsPrefill => len = n
           /\ Len(prompt) = n /\ n \in Nat /\ n <= Width /\ n > 2 /\ Width \in Nat
<1>1. /\ Width \in Nat \ {0, 1} /\ SpecLength # Width /\ MinPrompt \in Nat /\ MinPrompt > 2
    BY InputsAssumption DEF Inputs!SizeAssumption, Inputs!SpecAssumption, Inputs!PromptAssumption
<1>2. Len(prompt) = n /\ n \in Nat /\ n <= Width /\ n > 2
    BY <1>1
<1>3. CASE Inputs!IsPrefill
    <2>1. len = n
        BY <1>2, <1>3 DEF Inputs!IsPrefill
    <2>2. DOMAIN PaddedArgs.pos = 1 .. Width
        BY <2>1, PrefillTensors
    <2>3. Len(PaddedArgs.pos) = Width
        BY <1>1, <2>2
    <2> QED BY <1>1, <1>2, <1>3, <2>1, <2>3 DEF Inputs!ContextEncoding
<1>4. CASE ~Inputs!IsPrefill
    <2>1. Len(PaddedArgs.pos) = 1
        BY <1>4, DecodeTensors
    <2> QED BY <1>1, <1>2, <1>4, <2>1 DEF Inputs!ContextEncoding
<1> QED BY <1>3, <1>4

\* A text request reaches the layers as it is, in front of zeros: its dummies are
\* as wide as the bucket and are taken for none.
LEMMA TextEmbedded ==
    ASSUME NEW n \in MinPrompt .. Width, prompt \in [1 .. n -> Inputs!Kind]
    PROVE  \A c \in DOMAIN Inputs!Embedded(PaddedArgs) :
              IF ~Inputs!IsPrefill THEN Inputs!Embedded(PaddedArgs)[c] = <<"txt", len - 1>>
              ELSE llava = "none" =>
                    Inputs!Embedded(PaddedArgs)[c]
                      = IF c < Len(prompt) THEN <<prompt[c + 1], c>> ELSE Inputs!Nothing
<1>1. Len(prompt) = n /\ n \in Nat /\ n <= Width /\ Width \in Nat
    BY PhaseOfCall
<1>2. PICK a : a = PaddedArgs
    OBVIOUS
<1>3. CASE Inputs!IsPrefill
    <2>1. /\ len = n /\ Inputs!ContextEncoding(a)
        BY <1>2, <1>3, PhaseOfCall
    <2>2. /\ a.ids = [i \in 1 .. Width |-> IF i <= n THEN prompt[i] ELSE "pad"]
          /\ a.mask = [i \in 1 .. Width |-> IF i <= n THEN 1 ELSE 0]
          /\ a.pos = [i \in 1 .. Width |-> IF i <= n THEN i - 1 ELSE 1]
          /\ DOMAIN a.vis = 1 .. Width
        BY <1>2, <2>1, PrefillTensors
    <2>3. Len(a.ids) = Width /\ Len(a.vis) = Width
        BY <1>1, <2>2
    <2>4. ~Inputs!RealVision(a)
        BY <2>3 DEF Inputs!RealVision
    <2>5. Inputs!Embedded(a) = [c \in 0 .. Width - 1 |->
              IF ~Inputs!KeepsEmbedding(a, c) THEN Inputs!Nothing
              ELSE <<a.ids[c + 1], a.pos[c + 1]>>]
        BY <2>1, <2>3, <2>4 DEF Inputs!Embedded
    <2>6. ASSUME NEW c \in 0 .. Width - 1
          PROVE  Inputs!Embedded(a)[c]
                   = IF c < n THEN <<prompt[c + 1], c>> ELSE Inputs!Nothing
        <3>1. c + 1 \in 1 .. Width /\ (c < n <=> c + 1 <= n) /\ (c + 1) - 1 = c
            BY <1>1
        <3>2. Inputs!KeepsEmbedding(a, c) <=> c < n
            BY <2>2, <3>1 DEF Inputs!KeepsEmbedding
        <3>3. c < n => a.ids[c + 1] = prompt[c + 1] /\ a.pos[c + 1] = c
            BY <2>2, <3>1
        <3>4. Inputs!Embedded(a)[c] = IF ~Inputs!KeepsEmbedding(a, c) THEN Inputs!Nothing
                                      ELSE <<a.ids[c + 1], a.pos[c + 1]>>
            BY <2>5
        <3> QED BY <3>2, <3>3, <3>4
    <2> QED BY <1>1, <1>2, <1>3, <2>5, <2>6
<1>4. CASE ~Inputs!IsPrefill
    <2>1. ~Inputs!ContextEncoding(a)
        BY <1>2, <1>4, PhaseOfCall
    <2>2. a.ids = [i \in 1 .. 1 |-> "txt"] /\ a.pos = [i \in 1 .. 1 |-> len - 1]
        BY <1>2, <1>4, DecodeTensors
    <2>3. Len(a.ids) = 1
        BY <2>2
    <2>4. Inputs!Embedded(a) = [c \in 0 .. 0 |-> <<a.ids[c + 1], a.pos[c + 1]>>]
        BY <2>1, <2>3 DEF Inputs!Embedded
    <2>5. \A c \in 0 .. 0 : c + 1 = 1
        OBVIOUS
    <2>6. a.ids[1] = "txt" /\ a.pos[1] = len - 1
        BY <2>2
    <2> QED BY <1>2, <1>4, <2>4, <2>5, <2>6
<1> QED BY <1>3, <1>4

\* The last token's column is the only one with the largest position.
LEMMA LastIsLast ==
    ASSUME NEW n \in MinPrompt .. Width, prompt \in [1 .. n -> Inputs!Kind], Inputs!IsPrefill
    PROVE  Inputs!LastIndex(PaddedArgs) = n - 1
<1>1. /\ Inputs!ContextEncoding(PaddedArgs) /\ len = n
      /\ Len(prompt) = n /\ n \in Nat /\ n <= Width /\ n > 2 /\ Width \in Nat
    BY PhaseOfCall
<1>2. PICK p : p = PaddedArgs.pos
    OBVIOUS
<1>3. p = [i \in 1 .. Width |-> IF i <= n THEN i - 1 ELSE 1]
    BY <1>1, <1>2, PrefillTensors
<1>4. Len(p) = Width
    BY <1>1, <1>3
<1>5. \A c \in 0 .. Width - 1 : p[c + 1] = IF c < n THEN c ELSE 1
    BY <1>1, <1>3
<1>6. \A c \in 0 .. Width - 1 : (\A d \in 0 .. Width - 1 : p[d + 1] <= p[c + 1]) <=> c = n - 1
    <2> SUFFICES ASSUME NEW c \in 0 .. Width - 1
                 PROVE  (\A d \in 0 .. Width - 1 : p[d + 1] <= p[c + 1]) <=> c = n - 1
        OBVIOUS
    <2>1. n - 1 \in 0 .. Width - 1 /\ p[(n - 1) + 1] = n - 1
        BY <1>1, <1>5
    <2>2. ASSUME c # n - 1
          PROVE  ~(p[(n - 1) + 1] <= p[c + 1])
        <3>1. PICK x : x = p[c + 1] /\ x = IF c < n THEN c ELSE 1
            BY <1>5
        <3>2. ~(n - 1 <= x)
            BY <1>1, <2>2, <3>1
        <3> QED BY <2>1, <3>1, <3>2
    <2>3. ASSUME c = n - 1, NEW d \in 0 .. Width - 1
          PROVE  p[d + 1] <= p[c + 1]
        <3>1. PICK x : x = p[d + 1] /\ x = IF d < n THEN d ELSE 1
            BY <1>5
        <3>2. x <= n - 1
            BY <1>1, <3>1
        <3> QED BY <2>1, <2>3, <3>1, <3>2
    <2> QED BY <2>1, <2>2, <2>3
<1>7. Inputs!LastIndex(PaddedArgs)
        = CHOOSE c \in 0 .. Width - 1 : \A d \in 0 .. Width - 1 : p[d + 1] <= p[c + 1]
    BY ONLY <1>2, <1>4 DEF Inputs!LastIndex
<1>8. n - 1 \in 0 .. Width - 1
    BY <1>1
<1> QED BY <1>6, <1>7, <1>8

\* Where an image stands, on the three axes.
ImageAxes(c) == [t |-> 0, h |-> c + 1, w |-> 2 * (c + 1)]
ImageRow(r, c) == r = [i \in Inputs!Line |-> ImageAxes(c)[Inputs!AxisOf(i)]]

\* The frequencies of an image's column, by the axis each belongs to: none of the
\* three positions is another axis'.
LEMMA ImageRotated ==
    ASSUME NEW c \in Nat, NEW r, ImageRow(r, c)
    PROVE  /\ Cardinality({i \in Inputs!Line : r[i] = 0}) = Section[1]
           /\ Cardinality({i \in Inputs!Line : r[i] = c + 1}) = Section[2]
           /\ Cardinality({i \in Inputs!Line : r[i] = 2 * (c + 1)}) = Section[3]
<1>1. ASSUME NEW i \in Inputs!Line
      PROVE  /\ r[i] = 0 <=> Inputs!AxisOf(i) = "t"
             /\ r[i] = c + 1 <=> Inputs!AxisOf(i) = "h"
             /\ r[i] = 2 * (c + 1) <=> Inputs!AxisOf(i) = "w"
    <2>1. Inputs!AxisOf(i) \in {"t", "h", "w"}
        BY AxisSizes
    <2>2. r[i] = [t |-> 0, h |-> c + 1, w |-> 2 * (c + 1)][Inputs!AxisOf(i)]
        BY DEF ImageRow, ImageAxes
    <2>3. 0 # c + 1 /\ 0 # 2 * (c + 1) /\ c + 1 # 2 * (c + 1)
        OBVIOUS
    <2>4. r[i] = IF Inputs!AxisOf(i) = "t" THEN 0
                 ELSE IF Inputs!AxisOf(i) = "h" THEN c + 1 ELSE 2 * (c + 1)
        BY ONLY <2>1, <2>2
    <2> QED BY ONLY <2>1, <2>3, <2>4, Zenon
<1>2. /\ {i \in Inputs!Line : r[i] = 0} = {i \in Inputs!Line : Inputs!AxisOf(i) = "t"}
      /\ {i \in Inputs!Line : r[i] = c + 1} = {i \in Inputs!Line : Inputs!AxisOf(i) = "h"}
      /\ {i \in Inputs!Line : r[i] = 2 * (c + 1)} = {i \in Inputs!Line : Inputs!AxisOf(i) = "w"}
    BY ONLY <1>1, Zenon
<1> QED BY <1>2, AxisSizes

\* Every frequency of a token is rotated by the token's position; of an image's
\* column, by its axis' position.
LEMMA RotaryIs ==
    ASSUME NEW n \in MinPrompt .. Width, prompt \in [1 .. n -> Inputs!Kind],
           NEW c \in DOMAIN Inputs!Rotated(PaddedArgs), Inputs!IsPrefill => c < Len(prompt),
           NEW r, r = Inputs!Rotated(PaddedArgs)[c]
    PROVE  Inputs!RotatedAt(r, c)
<1>1. Len(prompt) = n /\ n \in Nat /\ n <= Width /\ Width \in Nat
    BY PhaseOfCall
<1>2. PICK a : a = PaddedArgs
    OBVIOUS
<1>3. DOMAIN Inputs!Rotated(a) = 0 .. Len(a.ids) - 1
    BY DEF Inputs!Rotated
<1>4. r = [i \in Inputs!Line |->
              (IF a.mrope # << >> THEN a.mrope[c + 1]
               ELSE Inputs!Axes(a.pos[c + 1]))[Inputs!AxisOf(i)]]
    BY <1>2, <1>3 DEF Inputs!Rotated
<1>5. \A x : \A i \in Inputs!Line : Inputs!Axes(x)[Inputs!AxisOf(i)] = x
    BY AxisSizes DEF Inputs!Axes
<1>6. CASE Inputs!IsPrefill
    <2>1. len = n
        BY <1>6, PhaseOfCall
    <2>2. DOMAIN a.ids = 1 .. Width /\ DOMAIN a.mrope = 1 .. Width
          /\ \A i \in 1 .. n : a.mrope[i] = Inputs!HostRope(n)[i]
        BY <1>2, <2>1, PrefillTensors
    <2>3. c \in 0 .. n - 1 /\ c \in Nat /\ c + 1 \in 1 .. n /\ (c + 1) - 1 = c
        <3>1. Len(a.ids) = Width
            BY <1>1, <2>2
        <3>2. c \in 0 .. Width - 1 /\ c < n
            BY <1>1, <1>2, <1>3, <1>6, <3>1
        <3> QED BY <1>1, <3>2
    <2>4. a.mrope # << >>
        BY <1>1, <2>2, <2>3
    <2>5. a.mrope[c + 1] = Inputs!HostRope(n)[c + 1]
        BY <2>2, <2>3
    <2>6. CASE llava = "three" /\ prompt[c + 1] = "img"
        <3>1. Inputs!HostRope(n)[c + 1] = ImageAxes(c)
            <4>1. c + 1 \in DOMAIN prompt /\ prompt[c + 1] = "img"
                BY <2>3, <2>6
            <4>2. Inputs!GivenRope[c + 1] = [t |-> 0, h |-> c + 1, w |-> 2 * (c + 1)]
                BY ONLY <4>1, Zenon DEF Inputs!GivenRope
            <4> QED BY <1>6, <2>6, <4>2 DEF Inputs!HostRope, ImageAxes
        <3>2. ImageRow(r, c)
            BY <1>4, <2>4, <2>5, <3>1 DEF ImageRow
        <3>3. /\ Cardinality({i \in Inputs!Line : r[i] = 0}) = Section[1]
              /\ Cardinality({i \in Inputs!Line : r[i] = c + 1}) = Section[2]
              /\ Cardinality({i \in Inputs!Line : r[i] = 2 * (c + 1)}) = Section[3]
            <4>1. c \in Nat
                BY <2>3
            <4> QED BY ONLY <4>1, <3>2, ImageRotated
        <3>4. Inputs!IsPrefill /\ llava = "three" /\ prompt[c + 1] = "img"
            BY <1>6, <2>6
        <3> HIDE DEF Inputs!IsPrefill
        <3>5. \A S : Inputs!Cardinality(S) = Cardinality(S)
            BY DEF Inputs!Cardinality, Cardinality
        <3> QED BY ONLY <3>3, <3>4, <3>5, Zenon DEF Inputs!RotatedAt
    <2>7. CASE ~(llava = "three" /\ prompt[c + 1] = "img")
        <3>1. Inputs!HostRope(n)[c + 1] = Inputs!Axes(c)
            <4>1. CASE llava = "three"
                <5>1. c + 1 \in DOMAIN prompt /\ prompt[c + 1] # "img"
                    BY <2>3, <2>7, <4>1
                <5>2. Inputs!GivenRope[c + 1] = Inputs!Axes((c + 1) - 1)
                    BY ONLY <5>1, Zenon DEF Inputs!GivenRope
                <5> QED BY <1>6, <2>3, <4>1, <5>2 DEF Inputs!HostRope
            <4>2. CASE llava # "three"
                <5>1. Inputs!HostRope(n)[c + 1] = Inputs!Axes((c + 1) - 1)
                    BY <1>6, <2>3, <4>2 DEF Inputs!HostRope
                <5> QED BY <2>3, <5>1
            <4> QED BY <4>1, <4>2
        <3>2. r = [i \in Inputs!Line |-> Inputs!Axes(c)[Inputs!AxisOf(i)]]
            BY <1>4, <2>4, <2>5, <3>1
        <3>3. \A i \in Inputs!Line : r[i] = c
            BY <1>5, <3>2
        <3> QED BY <1>6, <2>7, <3>3 DEF Inputs!RotatedAt
    <2> QED BY <2>6, <2>7
<1>7. CASE ~Inputs!IsPrefill
    <2>1. a.ids = [i \in 1 .. 1 |-> "txt"] /\ a.pos = [i \in 1 .. 1 |-> len - 1] /\ a.mrope = << >>
        BY <1>2, <1>7, DecodeTensors
    <2>2. Len(a.ids) = 1
        BY <2>1
    <2>3. c + 1 = 1
        BY <1>2, <1>3, <2>2
    <2>4. a.pos[c + 1] = len - 1
        BY <2>1, <2>3
    <2>5. r = [i \in Inputs!Line |-> Inputs!Axes(len - 1)[Inputs!AxisOf(i)]]
        BY <1>4, <2>1, <2>4
    <2>6. \A i \in Inputs!Line : r[i] = len - 1
        BY <1>5, <2>5
    <2> QED BY <1>7, <2>6 DEF Inputs!RotatedAt
<1> QED BY <1>6, <1>7

\* The invariant has the properties.
LEMMA InputsInvImplies ==
    ASSUME InputsInv
    PROVE  /\ Inputs!RunsCompiled /\ Inputs!TextReachesLayers
           /\ Inputs!RotaryIsPosition /\ Inputs!LastTokenRead
<1>1. CASE phase \in {"padded", "ran"}
    <2>1. PICK n \in MinPrompt .. Width : prompt \in [1 .. n -> Inputs!Kind]
        BY <1>1 DEF InputsInv
    <2>2. args = PaddedArgs /\ Len(prompt) = n
        BY <1>1, <2>1, PhaseOfCall DEF InputsInv
    <2>3. Inputs!RunsCompiled
        BY <2>1, <2>2, Compiled DEF Inputs!RunsCompiled
    <2>4. phase = "ran" =>
             /\ emb = Inputs!Embedded(PaddedArgs) /\ rope = Inputs!Rotated(PaddedArgs)
             /\ Inputs!IsPrefill => last = Inputs!LastIndex(PaddedArgs)
        BY <2>1, <2>2, PhaseOfCall DEF InputsInv
    <2>5. Inputs!TextReachesLayers
        <3> SUFFICES ASSUME phase = "ran", llava = "none", NEW c \in DOMAIN emb
                     PROVE  IF ~Inputs!IsPrefill THEN emb[c] = <<"txt", len - 1>>
                            ELSE emb[c] = IF c < Len(prompt) THEN <<prompt[c + 1], c>>
                                          ELSE Inputs!Nothing
            BY DEF Inputs!TextReachesLayers
        <3> QED BY <2>1, <2>4, TextEmbedded
    <2>6. Inputs!RotaryIsPosition
        <3> SUFFICES ASSUME phase = "ran", NEW c \in DOMAIN rope,
                            ~Inputs!IsPrefill \/ c < Len(prompt)
                     PROVE  Inputs!RotatedAt(rope[c], c)
            BY DEF Inputs!RotaryIsPosition
        <3> QED BY <2>1, <2>4, RotaryIs
    <2>7. Inputs!LastTokenRead
        BY <2>1, <2>2, <2>4, LastIsLast DEF Inputs!LastTokenRead
    <2> QED BY <2>3, <2>5, <2>6, <2>7
<1>2. CASE phase \notin {"padded", "ran"}
    BY <1>2 DEF Inputs!RunsCompiled, Inputs!TextReachesLayers, Inputs!RotaryIsPosition,
        Inputs!LastTokenRead
<1> QED BY <1>1, <1>2

\* A behaviour that runs the inputs makes steps of TracedInputs only.
LEMMA InputsOnly ==
    ASSUME [Next]_vars, Run("inputs")
    PROVE  [Inputs!Next]_Inputs!vars
BY DEF Next, Run, vars, inputsOnly, Inputs!vars

\* Whatever a request asks for, its call fits a compiled graph, its text reaches the
\* layers as it is and in front of zeros, every frequency is rotated by its axis'
\* position, and the hidden state returned is the last token's (_get_model_outputs,
\* pad_inputs, the traced forward).
THEOREM InputsArrive == Spec => []RequestReachesLayers
<1>1. Init => (Run("inputs") => InputsInv)
    BY InputsInit DEF Init, Run
<1>2. (Run("inputs") => InputsInv) /\ [Next]_vars => (Run("inputs") => InputsInv)'
    <2> SUFFICES ASSUME Run("inputs") => InputsInv, [Next]_vars, Run("inputs")'
                 PROVE  InputsInv'
        OBVIOUS
    <2>1. Run("inputs")
        BY SamePart DEF Run
    <2> QED BY <2>1, InputsOnly, InputsStep
<1>3. (Run("inputs") => InputsInv) => RequestReachesLayers
    BY InputsInvImplies DEF RequestReachesLayers
<1> QED BY <1>1, <1>2, <1>3, PTL DEF Spec

(***************************************************************************)
(* The arguments of a launch.                                               *)
(***************************************************************************)
Types == {"dn", "gqa"}

\* A pattern passes one layer more of a type where it has one.
LEMMA PassesStep ==
    ASSUME NEW p \in Seq(Types), NEW t \in Types
    PROVE  /\ Launches!Passes(p, t, 0) = 0
           /\ \A i \in 0 .. Len(p) : Launches!Passes(p, t, i) \in Nat
           /\ \A i \in 1 .. Len(p) : Launches!Passes(p, t, i) =
                 Launches!Passes(p, t, i - 1) + (IF p[i] = t THEN 1 ELSE 0)
<1> DEFINE S(i) == {k \in 1 .. i : p[k] = t}
<1>1. \A i : Launches!Passes(p, t, i) = Cardinality(S(i))
    BY DEF Launches!Passes, Launches!Cardinality, Cardinality
<1>2. S(0) = {}
    OBVIOUS
<1>3. ASSUME NEW i \in 0 .. Len(p)
      PROVE  IsFiniteSet(S(i)) /\ Cardinality(S(i)) \in Nat
    <2>1. IsFiniteSet(1 .. i)
        BY FS_Interval
    <2>2. S(i) \in SUBSET (1 .. i)
        OBVIOUS
    <2> HIDE DEF S
    <2> QED BY ONLY <2>1, <2>2, FS_Subset, FS_CardinalityType
<1>4. ASSUME NEW i \in 1 .. Len(p)
      PROVE  Cardinality(S(i)) = Cardinality(S(i - 1)) + (IF p[i] = t THEN 1 ELSE 0)
    <2>1. i - 1 \in 0 .. Len(p) /\ i \notin S(i - 1)
        OBVIOUS
    <2>2. S(i) = IF p[i] = t THEN S(i - 1) \cup {i} ELSE S(i - 1)
        OBVIOUS
    <2>3. IsFiniteSet(S(i - 1)) /\ Cardinality(S(i - 1)) \in Nat
        BY <1>3, <2>1
    <2> HIDE DEF S
    <2>4. Cardinality(S(i - 1) \cup {i}) = Cardinality(S(i - 1)) + 1
        BY ONLY <2>1, <2>3, FS_AddElement
    <2> QED BY <2>2, <2>3, <2>4
<1>5. Cardinality(S(0)) = 0
    BY <1>2, FS_EmptySet
<1> HIDE DEF S
<1> QED BY <1>1, <1>3, <1>4, <1>5

\* The two types make up the pattern, and what a longer piece passes is no less.
LEMMA PassesSum ==
    ASSUME NEW p \in Seq(Types)
    PROVE  /\ \A i \in 0 .. Len(p) :
                 Launches!Passes(p, "dn", i) + Launches!Passes(p, "gqa", i) = i
           /\ \A t \in Types : \A j \in 0 .. Len(p) : \A i \in 0 .. j :
                 Launches!Passes(p, t, i) <= Launches!Passes(p, t, j)
<1> DEFINE P(t, i) == Launches!Passes(p, t, i)
<1>1. \A t \in Types : /\ P(t, 0) = 0 /\ \A i \in 0 .. Len(p) : P(t, i) \in Nat
                       /\ \A i \in 1 .. Len(p) : P(t, i) =
                             P(t, i - 1) + (IF p[i] = t THEN 1 ELSE 0)
    BY PassesStep
<1>2. Len(p) \in Nat /\ \A i \in 1 .. Len(p) : p[i] \in Types
    OBVIOUS
<1> HIDE DEF P
<1>3. \A i \in 0 .. Len(p) : P("dn", i) + P("gqa", i) = i
    <2> DEFINE Bad == {i \in 0 .. Len(p) : P("dn", i) + P("gqa", i) # i}
    <2> SUFFICES ASSUME Bad # {} PROVE FALSE
        OBVIOUS
    <2>1. Bad \in SUBSET Nat
        BY <1>2
    <2>2. PICK m \in Bad : \A k \in Nat : k < m => k \notin Bad
        <3> HIDE DEF Bad
        <3> QED BY ONLY <2>1, Bad # {}, LeastNat
    <2>3. m \in 0 .. Len(p) /\ P("dn", m) + P("gqa", m) # m
        OBVIOUS
    <2>4. m # 0
        BY <1>1, <2>3 DEF Types
    <2>5. m \in 1 .. Len(p) /\ m - 1 \in 0 .. Len(p) /\ m - 1 \notin Bad
        BY <1>2, <2>2, <2>3, <2>4
    <2>6. P("dn", m - 1) + P("gqa", m - 1) = m - 1
        BY <2>5
    <2>7. /\ P("dn", m) = P("dn", m - 1) + (IF p[m] = "dn" THEN 1 ELSE 0)
          /\ P("gqa", m) = P("gqa", m - 1) + (IF p[m] = "gqa" THEN 1 ELSE 0)
          /\ P("dn", m - 1) \in Nat /\ P("gqa", m - 1) \in Nat
        BY <1>1, <2>5 DEF Types
    <2>8. p[m] = "dn" \/ p[m] = "gqa"
        BY <1>2, <2>5 DEF Types
    <2> HIDE DEF Bad
    <2>9. CASE p[m] = "dn"
        <3>1. P("dn", m) = P("dn", m - 1) + 1 /\ P("gqa", m) = P("gqa", m - 1)
            BY <2>7, <2>9
        <3> QED BY <3>1, <2>3, <2>5, <2>6, <2>7
    <2>10. CASE p[m] = "gqa"
        <3>1. P("gqa", m) = P("gqa", m - 1) + 1 /\ P("dn", m) = P("dn", m - 1)
            BY <2>7, <2>10
        <3> QED BY <3>1, <2>3, <2>5, <2>6, <2>7
    <2> QED BY <2>8, <2>9, <2>10
<1>4. ASSUME NEW t \in Types, NEW i \in 0 .. Len(p)
      PROVE  \A j \in 0 .. Len(p) : i <= j => P(t, i) <= P(t, j)
    <2> DEFINE Bad == {j \in 0 .. Len(p) : i <= j /\ ~(P(t, i) <= P(t, j))}
    <2> SUFFICES ASSUME Bad # {} PROVE FALSE
        OBVIOUS
    <2>1. Bad \in SUBSET Nat
        BY <1>2
    <2>2. PICK m \in Bad : \A k \in Nat : k < m => k \notin Bad
        <3> HIDE DEF Bad
        <3> QED BY ONLY <2>1, Bad # {}, LeastNat
    <2>3. m \in 0 .. Len(p) /\ i <= m /\ ~(P(t, i) <= P(t, m))
        OBVIOUS
    <2>4. P(t, i) \in Nat /\ i # m
        BY <1>1, <2>3
    <2>5. m \in 1 .. Len(p) /\ m - 1 \in 0 .. Len(p) /\ i <= m - 1 /\ m - 1 \notin Bad
        BY <1>2, <2>2, <2>3, <2>4
    <2>6. P(t, i) <= P(t, m - 1)
        BY <2>5
    <2>7. P(t, m) = P(t, m - 1) + (IF p[m] = t THEN 1 ELSE 0) /\ P(t, m - 1) \in Nat
        BY <1>1, <2>5
    <2> HIDE DEF Bad
    <2> QED BY <2>3, <2>4, <2>6, <2>7
<1> QED BY <1>2, <1>3, <1>4 DEF P

\* The list of the layers of a type: a layer stands where its passing counts,
\* and the list holds nothing else.
LEMMA LayersListed ==
    ASSUME NEW p \in Seq(Types), NEW t \in Types
    PROVE  /\ Len(Launches!LayersOf(p, t)) = Launches!Passes(p, t, Len(p))
           /\ Launches!Count(p, t) = Launches!Passes(p, t, Len(p))
           /\ DOMAIN Launches!LayersOf(p, t) = 1 .. Launches!Passes(p, t, Len(p))
           /\ \A i \in 1 .. Len(p) : p[i] = t =>
                 /\ Launches!Passes(p, t, i) \in 1 .. Launches!Passes(p, t, Len(p))
                 /\ Launches!LayersOf(p, t)[Launches!Passes(p, t, i)] = i
           /\ \A j \in 1 .. Launches!Passes(p, t, Len(p)) :
                 LET i == Launches!LayersOf(p, t)[j]
                 IN  i \in 1 .. Len(p) /\ p[i] = t /\ Launches!Passes(p, t, i) = j
<1> DEFINE P(i) == Launches!Passes(p, t, i)
           L == Launches!LayersOf(p, t)
<1>1. /\ P(0) = 0 /\ \A i \in 0 .. Len(p) : P(i) \in Nat
      /\ \A i \in 1 .. Len(p) : P(i) = P(i - 1) + (IF p[i] = t THEN 1 ELSE 0)
      /\ \A j \in 0 .. Len(p) : \A i \in 0 .. j : P(i) <= P(j)
      /\ Len(p) \in Nat /\ DOMAIN p = 1 .. Len(p)
    BY PassesStep, PassesSum
<1>2. L = [j \in 1 .. P(Len(p)) |-> CHOOSE i \in DOMAIN p : p[i] = t /\ P(i) = j]
    BY DEF Launches!LayersOf
<1>3. Launches!Count(p, t) = Len(L)
    BY DEF Launches!Count
<1> HIDE DEF P, L
<1>4. DOMAIN L = 1 .. P(Len(p)) /\ Len(L) = P(Len(p))
    BY <1>1, <1>2
<1>5. ASSUME NEW a \in 1 .. Len(p), NEW b \in 1 .. Len(p), p[a] = t, p[b] = t, P(a) = P(b)
      PROVE  a = b
    <2>1. ASSUME NEW x \in 1 .. Len(p), NEW y \in 1 .. Len(p), x < y, p[y] = t, P(x) = P(y)
          PROVE  FALSE
        <3>1. y - 1 \in 0 .. Len(p) /\ x \in 0 .. y - 1
            BY <2>1, <1>1
        <3>2. P(x) <= P(y - 1) /\ P(x) \in Nat /\ P(y - 1) \in Nat
            BY <3>1, <1>1
        <3>3. P(y) = P(y - 1) + 1
            BY <1>1, <2>1
        <3> QED BY <3>2, <3>3, <2>1
    <2> QED BY <2>1, <1>5, <1>1
<1>6. ASSUME NEW j \in 1 .. P(Len(p))
      PROVE  \E i \in 1 .. Len(p) : p[i] = t /\ P(i) = j
    <2> DEFINE Late == {i \in 0 .. Len(p) : P(i) >= j}
    <2>1. Late \in SUBSET Nat /\ Len(p) \in Late
        BY <1>1
    <2>2. PICK m \in Late : \A k \in Nat : k < m => k \notin Late
        <3> HIDE DEF Late
        <3>1. Late # {}
            BY <2>1
        <3> QED BY ONLY <2>1, <3>1, LeastNat
    <2>3. m \in 0 .. Len(p) /\ P(m) >= j /\ m # 0
        BY <1>1
    <2>4. m \in 1 .. Len(p) /\ m - 1 \in 0 .. Len(p) /\ m - 1 \notin Late
        BY <1>1, <2>2, <2>3
    <2>5. ~(P(m - 1) >= j) /\ P(m - 1) \in Nat
        BY <2>4, <1>1
    <2>6. P(m) = P(m - 1) + (IF p[m] = t THEN 1 ELSE 0)
        BY <2>4, <1>1
    <2> HIDE DEF Late
    <2>7. p[m] = t /\ P(m) = j
        BY <2>3, <2>5, <2>6, <1>1
    <2> QED BY <2>4, <2>7
<1>7. ASSUME NEW j \in 1 .. P(Len(p))
      PROVE  L[j] \in 1 .. Len(p) /\ p[L[j]] = t /\ P(L[j]) = j
    <2>1. L[j] = CHOOSE i \in DOMAIN p : p[i] = t /\ P(i) = j
        BY <1>2
    <2>2. \E i \in DOMAIN p : p[i] = t /\ P(i) = j
        BY <1>6, <1>1
    <2>3. L[j] \in DOMAIN p /\ p[L[j]] = t /\ P(L[j]) = j
        BY ONLY <2>1, <2>2
    <2> QED BY <2>3, <1>1
<1>8. ASSUME NEW i \in 1 .. Len(p), p[i] = t
      PROVE  P(i) \in 1 .. P(Len(p)) /\ L[P(i)] = i
    <2>1. P(i) = P(i - 1) + 1 /\ i - 1 \in 0 .. Len(p)
        BY <1>8, <1>1
    <2>2. P(i - 1) \in Nat /\ P(i) <= P(Len(p)) /\ P(Len(p)) \in Nat
        BY <2>1, <1>1
    <2>3. P(i) \in 1 .. P(Len(p))
        BY <2>1, <2>2
    <2>4. L[P(i)] \in 1 .. Len(p) /\ p[L[P(i)]] = t /\ P(L[P(i)]) = P(i)
        BY <2>3, <1>7
    <2> QED BY <2>3, <2>4, <1>8, <1>5
<1>9. \A j \in 1 .. P(Len(p)) : L[j] \in 1 .. Len(p) /\ p[L[j]] = t /\ P(L[j]) = j
    BY <1>7
<1>10. \A i \in 1 .. Len(p) : p[i] = t => P(i) \in 1 .. P(Len(p)) /\ L[P(i)] = i
    BY <1>8
<1> QED BY <1>3, <1>4, <1>9, <1>10 DEF P, L

\* x is in the sequence s; every element of a is in c.
Holds(s, x) == \E k \in DOMAIN s : s[k] = x
Within(a, c) == \A x : Holds(a, x) => Holds(c, x)

\* s is a sequence, of whatever.
Listed(s) == s \in Seq({s[k] : k \in DOMAIN s})

\* A function on 1 .. n is a sequence.
LEMMA SeqFrom ==
    ASSUME NEW S, NEW n \in Nat, NEW s \in [1 .. n -> S]
    PROVE  s \in Seq(S)
OBVIOUS

\* A sequence is one of its own elements.
LEMMA ListedFrom ==
    ASSUME NEW S, NEW s \in Seq(S)
    PROVE  Listed(s)
<1>1. Len(s) \in Nat /\ DOMAIN s = 1 .. Len(s)
    OBVIOUS
<1>2. s \in [1 .. Len(s) -> {s[k] : k \in DOMAIN s}]
    BY <1>1
<1> QED BY <1>1, <1>2, SeqFrom DEF Listed

\* Concatenation is associative.
LEMMA ListedAssociative ==
    ASSUME NEW a, NEW b, NEW c, Listed(a), Listed(b), Listed(c)
    PROVE  a \o b \o c = a \o (b \o c)
<1> DEFINE S == {a[k] : k \in DOMAIN a} \cup {b[k] : k \in DOMAIN b}
                  \cup {c[k] : k \in DOMAIN c}
<1>1. /\ a \in Seq({a[k] : k \in DOMAIN a}) /\ b \in Seq({b[k] : k \in DOMAIN b})
      /\ c \in Seq({c[k] : k \in DOMAIN c})
    BY DEF Listed
<1>2. /\ Len(a) \in Nat /\ DOMAIN a = 1 .. Len(a) /\ Len(b) \in Nat /\ DOMAIN b = 1 .. Len(b)
      /\ Len(c) \in Nat /\ DOMAIN c = 1 .. Len(c)
    BY <1>1
<1>3. a \in [1 .. Len(a) -> S] /\ b \in [1 .. Len(b) -> S] /\ c \in [1 .. Len(c) -> S]
    BY <1>1, <1>2
<1> HIDE DEF S
<1>4. a \in Seq(S) /\ b \in Seq(S) /\ c \in Seq(S)
    BY ONLY <1>2, <1>3, SeqFrom
<1> QED BY ONLY <1>4, ConcatAssociative

\* A concatenation holds its first part, and its second shifted behind the first.
LEMMA ListedJoined ==
    ASSUME NEW a, NEW b, Listed(a), Listed(b)
    PROVE  Listed(a \o b) /\ Joined(a \o b, a, b)
<1> DEFINE S == {a[k] : k \in DOMAIN a} \cup {b[k] : k \in DOMAIN b}
<1>1. a \in Seq({a[k] : k \in DOMAIN a}) /\ b \in Seq({b[k] : k \in DOMAIN b})
    BY DEF Listed
<1>2. Len(a) \in Nat /\ DOMAIN a = 1 .. Len(a) /\ Len(b) \in Nat /\ DOMAIN b = 1 .. Len(b)
    BY <1>1
<1>3. a \in [1 .. Len(a) -> S] /\ b \in [1 .. Len(b) -> S]
    BY <1>1, <1>2
<1> HIDE DEF S
<1>4. a \in Seq(S) /\ b \in Seq(S)
    BY ONLY <1>2, <1>3, SeqFrom
<1>5. a \o b \in Seq(S) /\ Joined(a \o b, a, b)
    BY ONLY <1>4, ConcatJoins
<1> QED BY ONLY <1>5, ListedFrom

\* The places of a sequence.
LEMMA ListedLen ==
    ASSUME NEW s, Listed(s)
    PROVE  Len(s) \in Nat /\ DOMAIN s = 1 .. Len(s)
BY DEF Listed

\* A concatenation holds what either part holds.
LEMMA WithinPiece ==
    ASSUME NEW a, NEW b, Listed(a), Listed(b)
    PROVE  Listed(a \o b) /\ Within(a, a \o b) /\ Within(b, a \o b)
<1>1. PICK c : c = a \o b
    OBVIOUS
<1>2. Listed(c) /\ Joined(c, a, b)
    BY <1>1, ListedJoined
<1>3. /\ Len(a) \in Nat /\ DOMAIN a = 1 .. Len(a) /\ Len(b) \in Nat /\ DOMAIN b = 1 .. Len(b)
      /\ DOMAIN c = 1 .. Len(c)
    BY <1>2, ListedLen
<1>4. ASSUME NEW x, Holds(a, x) PROVE Holds(c, x)
    <2>1. PICK k \in 1 .. Len(a) : a[k] = x
        BY <1>3, <1>4 DEF Holds
    <2>2. k \in DOMAIN c /\ c[k] = x
        BY <1>2, <1>3, <2>1 DEF Joined
    <2> QED BY ONLY <2>2 DEF Holds
<1>5. ASSUME NEW x, Holds(b, x) PROVE Holds(c, x)
    <2>1. PICK k \in 1 .. Len(b) : b[k] = x
        BY <1>3, <1>5 DEF Holds
    <2>2. Len(a) + k \in DOMAIN c /\ c[Len(a) + k] = x
        BY <1>2, <1>3, <2>1 DEF Joined
    <2> QED BY ONLY <2>2 DEF Holds
<1> QED BY <1>1, <1>2, <1>4, <1>5 DEF Within

\* And so does one of four parts.
LEMMA WithinFour ==
    ASSUME NEW a, NEW b, NEW c, NEW d, Listed(a), Listed(b), Listed(c), Listed(d)
    PROVE  LET w == a \o b \o c \o d
           IN  Listed(w) /\ Within(a, w) /\ Within(b, w) /\ Within(c, w) /\ Within(d, w)
<1>1. PICK v : v = a \o b
    OBVIOUS
<1>2. Listed(v) /\ Within(a, v) /\ Within(b, v)
    BY <1>1, WithinPiece
<1>3. PICK u : u = v \o c
    OBVIOUS
<1>4. Listed(u) /\ Within(v, u) /\ Within(c, u)
    BY <1>2, <1>3, WithinPiece
<1>5. Listed(u \o d) /\ Within(u, u \o d) /\ Within(d, u \o d)
    BY <1>4, WithinPiece
<1>6. a \o b \o c \o d = u \o d
    BY <1>1, <1>3
<1>7. /\ Within(a, u \o d) /\ Within(b, u \o d) /\ Within(c, u \o d)
    BY ONLY <1>2, <1>4, <1>5 DEF Within
<1> QED BY <1>5, <1>6, <1>7

\* What one of the sequences holds, the flattened sequence holds.
LEMMA FlatHolds ==
    ASSUME NEW S, NEW seqs, Len(seqs) \in Nat \ {0}, \A i \in 1 .. Len(seqs) : seqs[i] \in Seq(S)
    PROVE  /\ Listed(FlattenSeq(seqs))
           /\ \A i \in 1 .. Len(seqs) : Within(seqs[i], FlattenSeq(seqs))
<1>1. PICK flat : Flat(flat, Len(seqs), seqs) /\ FlattenSeq(seqs) = flat[Len(seqs)]
    BY FlattenSeqIsFlat
<1>2. PICK n : n = Len(seqs) /\ n \in Nat \ {0}
    OBVIOUS
<1>3. \A i \in 1 .. n : flat[i] \in Seq(S)
    BY <1>1, <1>2, FlatTyped
<1>4. \A i \in 1 .. n : flat[i] = IF i = 1 THEN seqs[i] ELSE flat[i - 1] \o seqs[i]
    BY <1>1, <1>2, FlatStep
<1>5. ASSUME NEW i \in 2 .. n
      PROVE  Within(flat[i - 1], flat[i]) /\ Within(seqs[i], flat[i])
    <2>1. i - 1 \in 1 .. n /\ i \in 1 .. n /\ i # 1
        BY <1>2
    <2>2. flat[i] = flat[i - 1] \o seqs[i] /\ flat[i - 1] \in Seq(S) /\ seqs[i] \in Seq(S)
        BY <1>2, <1>3, <1>4, <2>1
    <2>3. Listed(flat[i - 1]) /\ Listed(seqs[i])
        BY ONLY <2>2, ListedFrom
    <2> QED BY ONLY <2>2, <2>3, WithinPiece
<1>6. ASSUME NEW i \in 1 .. n
      PROVE  Within(seqs[i], flat[n])
    <2>1. Within(seqs[i], flat[i])
        <3>1. i = 1 \/ i \in 2 .. n
            BY <1>2
        <3>2. CASE i = 1
            <4>1. flat[i] = seqs[i]
                BY <1>4, <3>2
            <4> QED BY ONLY <4>1 DEF Within
        <3> QED BY <1>5, <3>1, <3>2
    <2> DEFINE Bad == {m \in i .. n : ~ Within(seqs[i], flat[m])}
    <2> SUFFICES ASSUME Bad # {} PROVE FALSE
        BY <1>2
    <2>2. Bad \in SUBSET Nat
        OBVIOUS
    <2>3. PICK m \in Bad : \A k \in Nat : k < m => k \notin Bad
        <3> HIDE DEF Bad
        <3> QED BY ONLY <2>2, Bad # {}, LeastNat
    <2>4. m \in i .. n /\ m # i /\ ~ Within(seqs[i], flat[m])
        BY <2>1
    <2>5. m \in 2 .. n /\ m - 1 \in i .. n /\ m - 1 \in Nat /\ m - 1 < m
        BY <1>2, <2>4
    <2>6. Within(seqs[i], flat[m - 1])
        BY <2>3, <2>5
    <2>7. Within(flat[m - 1], flat[m])
        BY <1>5, <2>5
    <2> QED BY ONLY <2>4, <2>6, <2>7 DEF Within
<1>7. Listed(flat[n])
    <2>1. flat[n] \in Seq(S)
        BY <1>2, <1>3
    <2> QED BY <2>1, ListedFrom
<1> QED BY <1>1, <1>2, <1>6, <1>7

\* A list of fields, and an argument of each of them for every layer.
LEMMA ListsHold ==
    ASSUME NEW g, NEW fields, Listed(fields), Len(fields) # 0, NEW n \in Nat
    PROVE  /\ Listed(Launches!Lists(g, fields, n))
           /\ \A f \in Launches!ToSet(fields), j \in 1 .. n :
                 Holds(Launches!Lists(g, fields, n), Launches!Name(g, f, j))
<1> DEFINE s == [x \in DOMAIN fields |-> [j \in 1 .. n |-> Launches!Name(g, fields[x], j)]]
           S == {Launches!Name(g, fields[x], j) : x \in DOMAIN fields, j \in 1 .. n}
<1>1. Launches!Lists(g, fields, n) = FlattenSeq(s)
    BY DEF Launches!Lists, Launches!FlattenSeq, FlattenSeq
<1>2. Len(fields) \in Nat /\ DOMAIN fields = 1 .. Len(fields) /\ Len(s) = Len(fields)
    <2>1. Len(fields) \in Nat /\ DOMAIN fields = 1 .. Len(fields)
        BY DEF Listed
    <2> QED BY <2>1
<1>3. ASSUME NEW x \in 1 .. Len(fields)
      PROVE  /\ s[x] \in Seq(S)
             /\ \A j \in 1 .. n : Holds(s[x], Launches!Name(g, fields[x], j))
    <2>1. s[x] = [j \in 1 .. n |-> Launches!Name(g, fields[x], j)]
        BY <1>2
    <2> HIDE DEF s
    <2>2. \A j \in 1 .. n : Launches!Name(g, fields[x], j) \in S
        BY <1>2
    <2> HIDE DEF S
    <2>3. s[x] \in [1 .. n -> S]
        BY ONLY <2>1, <2>2
    <2>4. s[x] \in Seq(S)
        BY ONLY <2>3, n \in Nat, SeqFrom
    <2>5. ASSUME NEW j \in 1 .. n PROVE Holds(s[x], Launches!Name(g, fields[x], j))
        <3>1. DOMAIN s[x] = 1 .. n /\ s[x][j] = Launches!Name(g, fields[x], j)
            BY ONLY <2>1, j \in 1 .. n
        <3> QED BY ONLY <3>1, j \in 1 .. n DEF Holds
    <2> QED BY <2>4, <2>5
<1> HIDE DEF s, S
<1>4. Len(s) \in Nat \ {0} /\ \A x \in 1 .. Len(s) : s[x] \in Seq(S)
    BY <1>2, <1>3
<1>5. Listed(FlattenSeq(s)) /\ \A x \in 1 .. Len(s) : Within(s[x], FlattenSeq(s))
    BY ONLY <1>4, FlatHolds
<1>6. ASSUME NEW f \in Launches!ToSet(fields), NEW j \in 1 .. n
      PROVE  Holds(FlattenSeq(s), Launches!Name(g, f, j))
    <2>1. PICK x \in 1 .. Len(fields) : fields[x] = f
        BY <1>2 DEF Launches!ToSet
    <2>2. Holds(s[x], Launches!Name(g, f, j)) /\ Within(s[x], FlattenSeq(s))
        BY <1>2, <1>3, <1>5, <2>1
    <2> QED BY ONLY <2>2 DEF Within
<1> QED BY <1>1, <1>5, <1>6

\* A group lists every one of its fields, as an argument and as a parameter.
LEMMA FieldsHold ==
    ASSUME NEW g, NEW fields, Listed(fields)
    PROVE  /\ Listed(Launches!Fields(g, fields)) /\ Listed(Launches!Pairs(g, fields))
           /\ \A f \in Launches!ToSet(fields) :
                 /\ Holds(Launches!Fields(g, fields), Launches!Name(g, f, 1))
                 /\ Holds(Launches!Pairs(g, fields), <<g, f>>)
<1>1. Len(fields) \in Nat /\ DOMAIN fields = 1 .. Len(fields)
    BY DEF Listed
<1> DEFINE N == {Launches!Name(g, fields[x], 1) : x \in 1 .. Len(fields)}
           W == {<<g, fields[x]>> : x \in 1 .. Len(fields)}
<1>2. Launches!Fields(g, fields) = [x \in 1 .. Len(fields) |-> Launches!Name(g, fields[x], 1)]
    BY <1>1 DEF Launches!Fields
<1>3. Launches!Pairs(g, fields) = [x \in 1 .. Len(fields) |-> <<g, fields[x]>>]
    BY <1>1 DEF Launches!Pairs
<1>4. Launches!Fields(g, fields) \in [1 .. Len(fields) -> N]
    BY <1>2
<1>5. Launches!Pairs(g, fields) \in [1 .. Len(fields) -> W]
    BY <1>3
<1> HIDE DEF N, W
<1>6. Listed(Launches!Fields(g, fields)) /\ Listed(Launches!Pairs(g, fields))
    BY ONLY <1>1, <1>4, <1>5, SeqFrom, ListedFrom
<1>7. Launches!ToSet(fields) = {fields[x] : x \in 1 .. Len(fields)}
    BY <1>1 DEF Launches!ToSet
<1>8. ASSUME NEW f \in Launches!ToSet(fields)
      PROVE  /\ Holds(Launches!Fields(g, fields), Launches!Name(g, f, 1))
             /\ Holds(Launches!Pairs(g, fields), <<g, f>>)
    BY <1>1, <1>2, <1>3, <1>7 DEF Holds
<1> QED BY <1>6, <1>8

\* The field lists are sequences, those of a layer's parameters not empty.
LEMMA FieldNames ==
    /\ Listed(Launches!DnFields) /\ Len(Launches!DnFields) # 0
    /\ Listed(Launches!GqaFields) /\ Len(Launches!GqaFields) # 0
    /\ Listed(Launches!MoeFields) /\ Len(Launches!MoeFields) # 0
    /\ Listed(Launches!HeadFields) /\ Listed(Launches!StageFields)
    /\ Listed(Launches!FrontFields \o Launches!DraftGqaFields)
<1>1. Listed(Launches!DnFields) /\ Len(Launches!DnFields) # 0
    BY DEF Launches!DnFields, Listed
<1>2. Listed(Launches!GqaFields) /\ Len(Launches!GqaFields) # 0
    BY DEF Launches!GqaFields, Listed
<1>3. Listed(Launches!MoeFields) /\ Len(Launches!MoeFields) # 0
    BY DEF Launches!MoeFields, Listed
<1>4. Listed(Launches!HeadFields)
    BY DEF Launches!HeadFields, Listed
<1>5. Listed(Launches!StageFields)
    BY DEF Launches!StageFields, Listed
<1>6. Listed(Launches!FrontFields)
    BY DEF Launches!FrontFields, Listed
<1>7. Listed(Launches!DraftGqaFields)
    BY DEF Launches!DraftGqaFields, Listed
<1>8. Listed(Launches!FrontFields \o Launches!DraftGqaFields)
    BY ONLY <1>6, <1>7, WithinPiece
<1> QED BY <1>1, <1>2, <1>3, <1>4, <1>5, <1>8

\* The flat order holds the arguments of every layer of the trunk.
LEMMA VerifyHolds ==
    ASSUME NEW a \in Nat, NEW b \in Nat
    PROVE  LET w == Launches!FlattenVerify(a, b)
           IN  /\ Within(Launches!Lists("dn", Launches!DnFields, a), w)
               /\ Within(Launches!Lists("gqa", Launches!GqaFields, b), w)
               /\ Within(Launches!Lists("moe", Launches!MoeFields, a + b), w)
<1> DEFINE p1 == Launches!Top(<< "X" >>)
           p2 == Launches!Lists("dn", Launches!DnFields, a)
           p3 == Launches!Lists("gqa", Launches!GqaFields, b)
           p4 == Launches!Top(<< "cos", "sin", "gqa_mask" >>)
           p5 == Launches!Lists("moe", Launches!MoeFields, a + b)
           p6 == Launches!Top(Launches!HeadFields)
           p7 == Launches!Top(<< "key_dim", "eps", "replica_groups" >>)
           v == p1 \o p2 \o p3 \o p4
<1>1. Launches!FlattenVerify(a, b) = v \o p5 \o p6 \o p7
    BY DEF Launches!FlattenVerify
<1>2. Listed(p2) /\ Listed(p3) /\ Listed(p5)
    <2>1. a + b \in Nat
        OBVIOUS
    <2> QED BY <2>1, FieldNames, ListsHold
<1>3. Listed(p1) /\ Listed(p4) /\ Listed(p6) /\ Listed(p7)
    <2>1. /\ Listed(<< "X" >>) /\ Listed(<< "cos", "sin", "gqa_mask" >>)
          /\ Listed(<< "key_dim", "eps", "replica_groups" >>)
        BY DEF Listed
    <2> QED BY <2>1, FieldNames, FieldsHold DEF Launches!Top
<1> HIDE DEF p1, p2, p3, p4, p5, p6, p7
<1>4. Listed(v) /\ Within(p2, v) /\ Within(p3, v)
    BY ONLY <1>2, <1>3, WithinFour
<1> HIDE DEF v
<1>5. Within(v, v \o p5 \o p6 \o p7) /\ Within(p5, v \o p5 \o p6 \o p7)
    BY ONLY <1>2, <1>3, <1>4, WithinFour
<1>6. Within(p2, v \o p5 \o p6 \o p7) /\ Within(p3, v \o p5 \o p6 \o p7)
    BY ONLY <1>4, <1>5 DEF Within
<1> QED BY <1>1, <1>5, <1>6 DEF p2, p3, p5

\* A round's holds those of the draft head and its two stages as well.
LEMMA RoundHolds ==
    ASSUME NEW a \in Nat, NEW b \in Nat
    PROVE  LET w == Launches!FlattenRound(a, b)
           IN  /\ Within(Launches!Fields("mtp", Launches!FrontFields \o Launches!DraftGqaFields), w)
               /\ Within(Launches!Fields("mtp_moe", Launches!MoeFields), w)
               /\ Within(Launches!Fields("mtp", Launches!HeadFields), w)
               /\ Within(Launches!Fields("d1", Launches!StageFields), w)
               /\ Within(Launches!Fields("d2", Launches!StageFields), w)
               /\ Within(Launches!Lists("dn", Launches!DnFields, a), w)
               /\ Within(Launches!Lists("gqa", Launches!GqaFields, b), w)
               /\ Within(Launches!Lists("moe", Launches!MoeFields, a + b), w)
<1> DEFINE p1 == Launches!Top(<< "input_ids", "prev_hidden" >>)
           p2 == Launches!Fields("mtp", Launches!FrontFields \o Launches!DraftGqaFields)
           p3 == Launches!Fields("mtp_moe", Launches!MoeFields)
           p4 == Launches!Fields("mtp", Launches!HeadFields)
           p5 == Launches!Fields("d1", Launches!StageFields)
           p6 == Launches!Fields("d2", Launches!StageFields)
           p7 == Launches!Lists("dn", Launches!DnFields, a)
           p8 == Launches!Lists("gqa", Launches!GqaFields, b)
           p9 == Launches!Top(<< "cos", "sin", "gqa_mask", "v_kv_write_idx" >>)
           p10 == Launches!Lists("moe", Launches!MoeFields, a + b)
           p11 == Launches!Top(Launches!HeadFields)
           p12 == Launches!Top(<< "key_dim", "eps", "replica_groups" >>)
           u == p1 \o p2 \o p3 \o p4
           v == u \o p5 \o p6 \o p7
           w == v \o p8 \o p9 \o p10
           x == w \o p11 \o p12
<1>1. Launches!FlattenRound(a, b) = x
    BY DEF Launches!FlattenRound
<1>2. Listed(p7) /\ Listed(p8) /\ Listed(p10)
    <2>1. a + b \in Nat
        OBVIOUS
    <2> QED BY <2>1, FieldNames, ListsHold
<1>3. Listed(p1) /\ Listed(p9) /\ Listed(p11) /\ Listed(p12)
    <2>1. /\ Listed(<< "input_ids", "prev_hidden" >>)
          /\ Listed(<< "cos", "sin", "gqa_mask", "v_kv_write_idx" >>)
          /\ Listed(<< "key_dim", "eps", "replica_groups" >>)
        BY DEF Listed
    <2> QED BY <2>1, FieldNames, FieldsHold DEF Launches!Top
<1>4. /\ Listed(p2) /\ Listed(p3) /\ Listed(p4)
      /\ Listed(p5) /\ Listed(p6)
    BY FieldNames, FieldsHold
<1> HIDE DEF p1, p2, p3, p4, p5, p6, p7, p8, p9, p10, p11, p12
<1>5. Listed(u) /\ Within(p2, u) /\ Within(p3, u) /\ Within(p4, u)
    BY ONLY <1>3, <1>4, WithinFour
<1> HIDE DEF u
<1>6. Listed(v) /\ Within(u, v) /\ Within(p5, v) /\ Within(p6, v) /\ Within(p7, v)
    BY ONLY <1>2, <1>4, <1>5, WithinFour
<1> HIDE DEF v
<1>7. Listed(w) /\ Within(v, w) /\ Within(p8, w) /\ Within(p10, w)
    BY ONLY <1>2, <1>3, <1>6, WithinFour
<1> HIDE DEF w
<1>8. Within(w, x)
    <2>1. Listed(w \o p11) /\ Within(w, w \o p11)
        BY ONLY <1>3, <1>7, WithinPiece
    <2>2. Within(w \o p11, x)
        BY ONLY <1>3, <2>1, WithinPiece
    <2> QED BY ONLY <2>1, <2>2 DEF Within
<1> HIDE DEF x
<1>9. Within(p8, x) /\ Within(p10, x) /\ Within(v, x)
    BY ONLY <1>7, <1>8 DEF Within
<1>10. Within(p5, x) /\ Within(p6, x) /\ Within(p7, x) /\ Within(u, x)
    BY ONLY <1>6, <1>9 DEF Within
<1>11. Within(p2, x) /\ Within(p3, x) /\ Within(p4, x)
    BY ONLY <1>5, <1>10 DEF Within
<1> QED BY <1>1, <1>9, <1>10, <1>11 DEF p2, p3, p4, p5, p6, p7, p8, p10

\* A draft's and a replay's hold those of the head, and the draft's of its head.
LEMMA DraftHolds ==
    ASSUME NEW head \in BOOLEAN
    PROVE  LET w == Launches!FlattenDraft(head)
           IN  /\ Within(Launches!Fields("d1", Launches!StageFields), w)
               /\ Within(Launches!Fields("mtp", Launches!FrontFields \o Launches!DraftGqaFields), w)
               /\ Within(Launches!Fields("mtp_moe", Launches!MoeFields), w)
               /\ head => Within(Launches!Fields("mtp", Launches!HeadFields), w)
<1> DEFINE p1 == Launches!Top(<< "input_ids", "prev_hidden" >>)
           p2 == Launches!Fields("d1", Launches!StageFields)
           p3 == Launches!Fields("mtp", Launches!FrontFields \o Launches!DraftGqaFields)
           p4 == Launches!Fields("mtp_moe", Launches!MoeFields)
           h == Launches!Fields("mtp", Launches!HeadFields)
           p5 == IF head THEN h ELSE << >>
           p6 == Launches!Top(<< "eps", "replica_groups" >>)
           u == p1 \o p2 \o p3 \o p4
           x == u \o p5 \o p6
<1>1. Launches!FlattenDraft(head) = x
    BY DEF Launches!FlattenDraft
<1>2. Listed(p1) /\ Listed(p6)
    <2>1. Listed(<< "input_ids", "prev_hidden" >>) /\ Listed(<< "eps", "replica_groups" >>)
        BY DEF Listed
    <2> QED BY <2>1, FieldsHold DEF Launches!Top
<1>3. Listed(p2) /\ Listed(p3) /\ Listed(p4) /\ Listed(h)
    BY FieldNames, FieldsHold
<1>4. Listed(p5) /\ (head => p5 = h)
    <2>1. Listed(<< >>)
        BY DEF Listed
    <2> QED BY <1>3, <2>1
<1> HIDE DEF p1, p2, p3, p4, p5, p6, h
<1>5. Listed(u) /\ Within(p2, u) /\ Within(p3, u) /\ Within(p4, u)
    BY ONLY <1>2, <1>3, WithinFour
<1> HIDE DEF u
<1>6. Listed(u \o p5) /\ Within(u, u \o p5) /\ Within(p5, u \o p5)
    BY ONLY <1>4, <1>5, WithinPiece
<1>7. Within(u \o p5, x)
    BY ONLY <1>2, <1>6, WithinPiece
<1> HIDE DEF x
<1>8. Within(p2, x) /\ Within(p3, x) /\ Within(p4, x) /\ Within(p5, x)
    BY ONLY <1>5, <1>6, <1>7 DEF Within
<1>9. head => Within(h, x)
    BY <1>4, <1>8
<1> QED BY <1>1, <1>8, <1>9 DEF p2, p3, p4, h

\* So do the arguments of the body, one for every field of a group.
LEMMA ArgsHold ==
    /\ Within(Launches!Pairs("dn", Launches!DnFields), Launches!BodyArgs("verify"))
    /\ Within(Launches!Pairs("gqa", Launches!GqaFields), Launches!BodyArgs("verify"))
    /\ Within(Launches!Pairs("moe", Launches!MoeFields), Launches!BodyArgs("verify"))
<1> DEFINE p1 == Launches!Pairs("top", << "X" >>)
           p2 == Launches!Pairs("dn", Launches!DnFields)
           p3 == Launches!Pairs("gqa", Launches!GqaFields)
           p4 == Launches!Pairs("top", << "cos", "sin", "gqa_mask" >>)
           p5 == Launches!Pairs("moe", Launches!MoeFields)
           p6 == Launches!Pairs("top", Launches!HeadFields)
           v == p1 \o p2 \o p3 \o p4
           x == v \o p5 \o p6
<1>1. Launches!BodyArgs("verify") = x
    BY DEF Launches!BodyArgs
<1>2. Listed(p2) /\ Listed(p3) /\ Listed(p5) /\ Listed(p6)
    BY FieldNames, FieldsHold
<1>3. Listed(p1) /\ Listed(p4)
    <2>1. Listed(<< "X" >>) /\ Listed(<< "cos", "sin", "gqa_mask" >>)
        BY DEF Listed
    <2> QED BY <2>1, FieldsHold
<1> HIDE DEF p1, p2, p3, p4, p5, p6
<1>4. Listed(v) /\ Within(p2, v) /\ Within(p3, v)
    BY ONLY <1>2, <1>3, WithinFour
<1> HIDE DEF v
<1>5. Listed(v \o p5) /\ Within(v, v \o p5) /\ Within(p5, v \o p5)
    BY ONLY <1>2, <1>4, WithinPiece
<1>6. Within(v \o p5, x)
    BY ONLY <1>2, <1>5, WithinPiece
<1> HIDE DEF x
<1>7. Within(p2, x) /\ Within(p3, x) /\ Within(p5, x)
    BY ONLY <1>4, <1>5, <1>6 DEF Within
<1> QED BY <1>1, <1>7 DEF p2, p3, p5

\* The groups a round's body takes besides those of the trunk.
LEMMA RoundArgsHold ==
    LET w == Launches!BodyArgs("round")
    IN  /\ Within(Launches!Pairs("mtp", Launches!FrontFields \o Launches!DraftGqaFields), w)
        /\ Within(Launches!Pairs("mtp_moe", Launches!MoeFields), w)
        /\ Within(Launches!Pairs("mtp", Launches!HeadFields), w)
        /\ Within(Launches!Pairs("d1", Launches!StageFields), w)
        /\ Within(Launches!Pairs("d2", Launches!StageFields), w)
        /\ Within(Launches!Pairs("dn", Launches!DnFields), w)
        /\ Within(Launches!Pairs("gqa", Launches!GqaFields), w)
        /\ Within(Launches!Pairs("moe", Launches!MoeFields), w)
<1> DEFINE p1 == Launches!Pairs("top", << "input_ids", "prev_hidden" >>)
           p2 == Launches!Pairs("mtp", Launches!FrontFields \o Launches!DraftGqaFields)
           p3 == Launches!Pairs("mtp_moe", Launches!MoeFields)
           p4 == Launches!Pairs("mtp", Launches!HeadFields)
           p5 == Launches!Pairs("d1", Launches!StageFields)
           p6 == Launches!Pairs("d2", Launches!StageFields)
           p7 == Launches!Pairs("dn", Launches!DnFields)
           p8 == Launches!Pairs("gqa", Launches!GqaFields)
           p9 == Launches!Pairs("top", << "cos", "sin", "gqa_mask", "v_kv_write_idx" >>)
           p10 == Launches!Pairs("moe", Launches!MoeFields)
           p11 == Launches!Pairs("top", Launches!HeadFields)
           u == p1 \o p2 \o p3 \o p4
           v == u \o p5 \o p6 \o p7
           w == v \o p8 \o p9 \o p10
           x == w \o p11
<1>1. Launches!BodyArgs("round") = x
    BY DEF Launches!BodyArgs
<1>2. /\ Listed(p2) /\ Listed(p3) /\ Listed(p4) /\ Listed(p5) /\ Listed(p6) /\ Listed(p7)
      /\ Listed(p8) /\ Listed(p10) /\ Listed(p11)
    BY FieldNames, FieldsHold
<1>3. Listed(p1) /\ Listed(p9)
    <2>1. /\ Listed(<< "input_ids", "prev_hidden" >>)
          /\ Listed(<< "cos", "sin", "gqa_mask", "v_kv_write_idx" >>)
        BY DEF Listed
    <2> QED BY <2>1, FieldsHold
<1> HIDE DEF p1, p2, p3, p4, p5, p6, p7, p8, p9, p10, p11
<1>5. Listed(u) /\ Within(p2, u) /\ Within(p3, u) /\ Within(p4, u)
    BY ONLY <1>2, <1>3, WithinFour
<1> HIDE DEF u
<1>6. Listed(v) /\ Within(u, v) /\ Within(p5, v) /\ Within(p6, v) /\ Within(p7, v)
    BY ONLY <1>2, <1>5, WithinFour
<1> HIDE DEF v
<1>7. Listed(w) /\ Within(v, w) /\ Within(p8, w) /\ Within(p10, w)
    BY ONLY <1>2, <1>3, <1>6, WithinFour
<1> HIDE DEF w
<1>8. Within(w, x)
    BY ONLY <1>2, <1>7, WithinPiece
<1> HIDE DEF x
<1>9. Within(p8, x) /\ Within(p10, x) /\ Within(v, x)
    BY ONLY <1>7, <1>8 DEF Within
<1>10. Within(p5, x) /\ Within(p6, x) /\ Within(p7, x) /\ Within(u, x)
    BY ONLY <1>6, <1>9 DEF Within
<1>11. Within(p2, x) /\ Within(p3, x) /\ Within(p4, x)
    BY ONLY <1>5, <1>10 DEF Within
<1> QED BY <1>1, <1>9, <1>10, <1>11 DEF p2, p3, p4, p5, p6, p7, p8, p10

\* The groups a drafter's body takes.
LEMMA DraftArgsHold ==
    ASSUME NEW kind \in {"draft", "replay"}
    PROVE  LET w == Launches!BodyArgs(kind)
           IN  /\ Within(Launches!Pairs("d1", Launches!StageFields), w)
               /\ Within(Launches!Pairs("mtp", Launches!FrontFields \o Launches!DraftGqaFields), w)
               /\ Within(Launches!Pairs("mtp_moe", Launches!MoeFields), w)
               /\ kind = "draft" => Within(Launches!Pairs("mtp", Launches!HeadFields), w)
<1> DEFINE p1 == Launches!Pairs("top", << "input_ids", "prev_hidden" >>)
           p2 == Launches!Pairs("d1", Launches!StageFields)
           p3 == Launches!Pairs("mtp", Launches!FrontFields \o Launches!DraftGqaFields)
           p4 == Launches!Pairs("mtp_moe", Launches!MoeFields)
           h == Launches!Pairs("mtp", Launches!HeadFields)
           p5 == IF kind = "draft" THEN h ELSE << >>
           u == p1 \o p2 \o p3 \o p4
           x == u \o p5
<1>1. Launches!BodyArgs(kind) = x
    BY DEF Launches!BodyArgs
<1>2. Listed(p1)
    <2>1. Listed(<< "input_ids", "prev_hidden" >>)
        BY DEF Listed
    <2> QED BY <2>1, FieldsHold
<1>3. Listed(p2) /\ Listed(p3) /\ Listed(p4) /\ Listed(h)
    BY FieldNames, FieldsHold
<1>4. Listed(p5) /\ (kind = "draft" => p5 = h)
    <2>1. Listed(<< >>)
        BY DEF Listed
    <2> QED BY <1>3, <2>1
<1> HIDE DEF p1, p2, p3, p4, p5, h
<1>5. Listed(u) /\ Within(p2, u) /\ Within(p3, u) /\ Within(p4, u)
    BY ONLY <1>2, <1>3, WithinFour
<1> HIDE DEF u
<1>6. Within(u, x) /\ Within(p5, x)
    BY ONLY <1>4, <1>5, WithinPiece
<1> HIDE DEF x
<1>7. Within(p2, x) /\ Within(p3, x) /\ Within(p4, x)
    BY ONLY <1>5, <1>6 DEF Within
<1>8. kind = "draft" => Within(h, x)
    BY <1>4, <1>6
<1> QED BY <1>1, <1>7, <1>8 DEF p2, p3, p4, h

\* The body's parameters stand in the order of the wrapper's arguments.
LEMMA ArgsAreParams ==
    ASSUME NEW kind \in Launches!Kinds
    PROVE  Launches!BodyArgs(kind) = Launches!Params(kind)
<1> DEFINE dn == Launches!Pairs("dn", Launches!DnFields)
           gqa == Launches!Pairs("gqa", Launches!GqaFields)
           draft == Launches!Pairs("mtp", Launches!FrontFields \o Launches!DraftGqaFields)
<1>1. Launches!TrunkParams = dn \o gqa
    BY DEF Launches!TrunkParams, Launches!DnFields, Launches!GqaFields
<1>2. Launches!DraftParams = draft
    <2>1. Launches!FrontFields \o Launches!DraftGqaFields =
            << "embed_w", "gamma_e", "gamma_h", "eh_w", "in_gamma", "qkv_w", "gate_w",
               "gamma_q", "gamma_k", "o_proj_w", "k_cache", "v_cache" >>
        <3> DEFINE f == << "embed_w", "gamma_e", "gamma_h", "eh_w" >>
                   d == << "in_gamma", "qkv_w", "gate_w", "gamma_q", "gamma_k", "o_proj_w",
                           "k_cache", "v_cache" >>
                   w == << "embed_w", "gamma_e", "gamma_h", "eh_w", "in_gamma", "qkv_w",
                           "gate_w", "gamma_q", "gamma_k", "o_proj_w", "k_cache", "v_cache" >>
                   S == {w[k] : k \in 1 .. 12}
        <3>1. f \in Seq(S) /\ d \in Seq(S) /\ w \in Seq(S)
            OBVIOUS
        <3>2. Len(f) = 4 /\ Len(d) = 8 /\ Len(w) = 12
            OBVIOUS
        <3>3. \A k \in 1 .. 12 : w[k] = IF k <= 4 THEN f[k] ELSE d[k - 4]
            <4> TAKE k \in 1 .. 12
            <4>1. k \in {1, 2, 3, 4, 5, 6, 7, 8, 9, 10, 11, 12}
                OBVIOUS
            <4> QED BY <4>1
        <3> HIDE DEF f, d, w, S
        <3>4. /\ f \o d \in Seq(S) /\ Len(f \o d) = Len(f) + Len(d)
              /\ \A k \in 1 .. Len(f) + Len(d) : (f \o d)[k] =
                    IF k <= Len(f) THEN f[k] ELSE d[k - Len(f)]
            BY ONLY <3>1, ConcatProperties
        <3>5. PICK g : g = f \o d
            OBVIOUS
        <3>6. /\ g \in Seq(S) /\ Len(g) = Len(f) + Len(d)
              /\ \A k \in 1 .. Len(f) + Len(d) : g[k] = IF k <= Len(f) THEN f[k] ELSE d[k - Len(f)]
            BY ONLY <3>4, <3>5
        <3>7. Len(g) = 12 /\ \A k \in 1 .. 12 : g[k] = w[k]
            BY ONLY <3>2, <3>3, <3>6
        <3>8. g = w
            BY ONLY <3>1, <3>2, <3>6, <3>7, SeqEqual
        <3> QED BY <3>5, <3>8 DEF Launches!FrontFields, Launches!DraftGqaFields, f, d, w
    <2> QED BY <2>1 DEF Launches!DraftParams
<1>3. /\ Launches!ExpertParams("moe") = Launches!Pairs("moe", Launches!MoeFields)
      /\ Launches!ExpertParams("mtp_moe") = Launches!Pairs("mtp_moe", Launches!MoeFields)
    BY DEF Launches!ExpertParams, Launches!MoeFields
<1>4. Listed(dn) /\ Listed(gqa)
    BY FieldNames, FieldsHold
<1> HIDE DEF dn, gqa, draft
<1>5. ASSUME NEW a, Listed(a)
      PROVE  a \o (dn \o gqa) = a \o dn \o gqa
    BY <1>4, <1>5, ListedAssociative
<1>6. CASE kind = "verify"
    <2> DEFINE x == Launches!Pairs("top", << "X" >>)
    <2>1. Listed(x)
        <3>1. Listed(<< "X" >>)
            BY DEF Listed
        <3> QED BY <3>1, FieldsHold
    <2>2. Launches!Params(kind) = x \o (dn \o gqa)
            \o Launches!Pairs("top", << "cos", "sin", "gqa_mask" >>)
            \o Launches!Pairs("moe", Launches!MoeFields)
            \o Launches!Pairs("top", Launches!HeadFields)
        BY <1>1, <1>3, <1>6 DEF Launches!Params, Launches!VerifyParams, Launches!HeadFields
    <2>3. Launches!BodyArgs(kind) = x \o dn \o gqa
            \o Launches!Pairs("top", << "cos", "sin", "gqa_mask" >>)
            \o Launches!Pairs("moe", Launches!MoeFields)
            \o Launches!Pairs("top", Launches!HeadFields)
        BY <1>6 DEF Launches!BodyArgs, dn, gqa
    <2> HIDE DEF x
    <2>4. x \o (dn \o gqa) = x \o dn \o gqa
        BY <1>5, <2>1
    <2> QED BY ONLY <2>2, <2>3, <2>4
<1>7. CASE kind = "round"
    <2> DEFINE p1 == Launches!Pairs("top", << "input_ids", "prev_hidden" >>)
               p3 == Launches!Pairs("mtp_moe", Launches!MoeFields)
               p4 == Launches!Pairs("mtp", Launches!HeadFields)
               p5 == Launches!Pairs("d1", Launches!StageFields)
               p6 == Launches!Pairs("d2", Launches!StageFields)
               x == p1 \o draft \o p3 \o p4 \o p5 \o p6
    <2>1. Listed(x)
        <3>1. Listed(p1)
            <4>1. Listed(<< "input_ids", "prev_hidden" >>)
                BY DEF Listed
            <4> QED BY <4>1, FieldsHold
        <3>2. Listed(draft) /\ Listed(p3) /\ Listed(p4) /\ Listed(p5) /\ Listed(p6)
            BY FieldNames, FieldsHold DEF draft
        <3> HIDE DEF p1, p3, p4, p5, p6
        <3>3. Listed(p1 \o draft \o p3 \o p4)
            BY ONLY <3>1, <3>2, WithinFour
        <3>4. Listed(p1 \o draft \o p3 \o p4 \o p5)
            BY ONLY <3>2, <3>3, WithinPiece
        <3> QED BY ONLY <3>2, <3>4, WithinPiece
    <2>2. Launches!Params(kind) = x \o (dn \o gqa)
            \o Launches!Pairs("top", << "cos", "sin", "gqa_mask", "v_kv_write_idx" >>)
            \o Launches!Pairs("moe", Launches!MoeFields)
            \o Launches!Pairs("top", Launches!HeadFields)
        BY <1>1, <1>2, <1>3, <1>7
        DEF Launches!Params, Launches!RoundParams, Launches!HeadFields, Launches!StageFields
    <2>3. Launches!BodyArgs(kind) = x \o dn \o gqa
            \o Launches!Pairs("top", << "cos", "sin", "gqa_mask", "v_kv_write_idx" >>)
            \o Launches!Pairs("moe", Launches!MoeFields)
            \o Launches!Pairs("top", Launches!HeadFields)
        BY <1>7 DEF Launches!BodyArgs, dn, gqa, draft
    <2> HIDE DEF x
    <2>4. x \o (dn \o gqa) = x \o dn \o gqa
        BY <1>5, <2>1
    <2> QED BY ONLY <2>2, <2>3, <2>4
<1>8. CASE kind \in {"draft", "replay"}
    BY <1>2, <1>3, <1>8
    DEF Launches!Params, Launches!DraftStepParams, Launches!BodyArgs, Launches!HeadFields,
        Launches!StageFields, draft
<1> QED BY <1>6, <1>7, <1>8 DEF Launches!Kinds

\* What a stage or a layer of a launch reads, with a trunk of a DeltaNet and b
\* attention layers.
Asked(kind, a, b, g, f, j) ==
    \/ /\ Launches!HasTrunk(kind)
       /\ \/ g = "dn" /\ f \in Launches!ToSet(Launches!DnFields) /\ j \in 1 .. a
          \/ g = "gqa" /\ f \in Launches!ToSet(Launches!GqaFields) /\ j \in 1 .. b
          \/ g = "moe" /\ f \in Launches!ToSet(Launches!MoeFields) /\ j \in 1 .. a + b
    \/ /\ kind # "verify" /\ j = 1
       /\ \/ g = "mtp" /\ f \in Launches!ToSet(Launches!FrontFields \o Launches!DraftGqaFields)
          \/ g = "mtp" /\ f \in Launches!ToSet(Launches!HeadFields) /\ kind # "replay"
          \/ g = "mtp_moe" /\ f \in Launches!ToSet(Launches!MoeFields)
          \/ g = "d1" /\ f \in Launches!ToSet(Launches!StageFields)
          \/ g = "d2" /\ f \in Launches!ToSet(Launches!StageFields) /\ kind = "round"

\* All of it has a place in the flat order and a parameter of the body.
LEMMA AskedHold ==
    ASSUME NEW kind \in Launches!Kinds, NEW a \in Nat, NEW b \in Nat,
           NEW g, NEW f, NEW j, Asked(kind, a, b, g, f, j)
    PROVE  /\ Holds(Launches!Flatten(kind, a, b), Launches!Name(g, f, j))
           /\ Holds(Launches!Params(kind), <<g, f>>)
<1> DEFINE N == Launches!Flatten(kind, a, b)
           A == Launches!BodyArgs(kind)
           draft == Launches!FrontFields \o Launches!DraftGqaFields
<1>1. Launches!Params(kind) = A
    BY ArgsAreParams
<1>2. a + b \in Nat
    OBVIOUS
<1>3. ASSUME NEW fields, NEW group, NEW n \in Nat, Listed(fields), Len(fields) # 0,
             f \in Launches!ToSet(fields), j \in 1 .. n,
             Within(Launches!Lists(group, fields, n), N),
             Within(Launches!Pairs(group, fields), A)
      PROVE  Holds(N, Launches!Name(group, f, j)) /\ Holds(A, <<group, f>>)
    <2> HIDE DEF N, A
    <2>1. Holds(Launches!Lists(group, fields, n), Launches!Name(group, f, j))
        BY <1>3, ListsHold
    <2>2. Holds(Launches!Pairs(group, fields), <<group, f>>)
        BY <1>3, FieldsHold
    <2> QED BY ONLY <1>3, <2>1, <2>2 DEF Within
<1>4. ASSUME NEW fields, NEW group, Listed(fields), f \in Launches!ToSet(fields), j = 1,
             Within(Launches!Fields(group, fields), N), Within(Launches!Pairs(group, fields), A)
      PROVE  Holds(N, Launches!Name(group, f, j)) /\ Holds(A, <<group, f>>)
    <2> HIDE DEF N, A
    <2>1. /\ Holds(Launches!Fields(group, fields), Launches!Name(group, f, 1))
          /\ Holds(Launches!Pairs(group, fields), <<group, f>>)
        BY <1>4, FieldsHold
    <2> QED BY ONLY <1>4, <2>1 DEF Within
<1>5. /\ Listed(Launches!DnFields) /\ Len(Launches!DnFields) # 0
      /\ Listed(Launches!GqaFields) /\ Len(Launches!GqaFields) # 0
      /\ Listed(Launches!MoeFields) /\ Len(Launches!MoeFields) # 0
      /\ Listed(Launches!HeadFields) /\ Listed(Launches!StageFields) /\ Listed(draft)
    BY FieldNames
<1>6. CASE kind = "verify"
    <2>1. N = Launches!FlattenVerify(a, b)
        BY <1>6 DEF Launches!Flatten
    <2>2. /\ Within(Launches!Lists("dn", Launches!DnFields, a), N)
          /\ Within(Launches!Lists("gqa", Launches!GqaFields, b), N)
          /\ Within(Launches!Lists("moe", Launches!MoeFields, a + b), N)
        BY <2>1, VerifyHolds
    <2>3. /\ Within(Launches!Pairs("dn", Launches!DnFields), A)
          /\ Within(Launches!Pairs("gqa", Launches!GqaFields), A)
          /\ Within(Launches!Pairs("moe", Launches!MoeFields), A)
        BY <1>6, ArgsHold
    <2> HIDE DEF N, A
    <2>4. \/ g = "dn" /\ f \in Launches!ToSet(Launches!DnFields) /\ j \in 1 .. a
          \/ g = "gqa" /\ f \in Launches!ToSet(Launches!GqaFields) /\ j \in 1 .. b
          \/ g = "moe" /\ f \in Launches!ToSet(Launches!MoeFields) /\ j \in 1 .. a + b
        BY <1>6 DEF Asked
    <2>5. CASE g = "dn" /\ f \in Launches!ToSet(Launches!DnFields) /\ j \in 1 .. a
        BY <1>1, <1>3, <1>5, <2>2, <2>3, <2>5 DEF N
    <2>6. CASE g = "gqa" /\ f \in Launches!ToSet(Launches!GqaFields) /\ j \in 1 .. b
        BY <1>1, <1>3, <1>5, <2>2, <2>3, <2>6 DEF N
    <2>7. CASE g = "moe" /\ f \in Launches!ToSet(Launches!MoeFields) /\ j \in 1 .. a + b
        BY <1>1, <1>2, <1>3, <1>5, <2>2, <2>3, <2>7 DEF N
    <2> QED BY <2>4, <2>5, <2>6, <2>7
<1>7. CASE kind = "round"
    <2>1. N = Launches!FlattenRound(a, b)
        BY <1>7 DEF Launches!Flatten
    <2>2. /\ Within(Launches!Lists("dn", Launches!DnFields, a), N)
          /\ Within(Launches!Lists("gqa", Launches!GqaFields, b), N)
          /\ Within(Launches!Lists("moe", Launches!MoeFields, a + b), N)
          /\ Within(Launches!Fields("mtp", draft), N)
          /\ Within(Launches!Fields("mtp", Launches!HeadFields), N)
          /\ Within(Launches!Fields("mtp_moe", Launches!MoeFields), N)
          /\ Within(Launches!Fields("d1", Launches!StageFields), N)
          /\ Within(Launches!Fields("d2", Launches!StageFields), N)
        BY <2>1, RoundHolds
    <2>3. /\ Within(Launches!Pairs("dn", Launches!DnFields), A)
          /\ Within(Launches!Pairs("gqa", Launches!GqaFields), A)
          /\ Within(Launches!Pairs("moe", Launches!MoeFields), A)
          /\ Within(Launches!Pairs("mtp", draft), A)
          /\ Within(Launches!Pairs("mtp", Launches!HeadFields), A)
          /\ Within(Launches!Pairs("mtp_moe", Launches!MoeFields), A)
          /\ Within(Launches!Pairs("d1", Launches!StageFields), A)
          /\ Within(Launches!Pairs("d2", Launches!StageFields), A)
        BY <1>7, RoundArgsHold
    <2>4. \/ g = "dn" /\ f \in Launches!ToSet(Launches!DnFields) /\ j \in 1 .. a
          \/ g = "gqa" /\ f \in Launches!ToSet(Launches!GqaFields) /\ j \in 1 .. b
          \/ g = "moe" /\ f \in Launches!ToSet(Launches!MoeFields) /\ j \in 1 .. a + b
          \/ g = "mtp" /\ f \in Launches!ToSet(draft) /\ j = 1
          \/ g = "mtp" /\ f \in Launches!ToSet(Launches!HeadFields) /\ j = 1
          \/ g = "mtp_moe" /\ f \in Launches!ToSet(Launches!MoeFields) /\ j = 1
          \/ g \in {"d1", "d2"} /\ f \in Launches!ToSet(Launches!StageFields) /\ j = 1
        BY <1>7 DEF Asked
    <2> HIDE DEF N, A, draft
    <2>5. CASE g = "dn" /\ f \in Launches!ToSet(Launches!DnFields) /\ j \in 1 .. a
        BY <1>1, <1>3, <1>5, <2>2, <2>3, <2>5 DEF N
    <2>6. CASE g = "gqa" /\ f \in Launches!ToSet(Launches!GqaFields) /\ j \in 1 .. b
        BY <1>1, <1>3, <1>5, <2>2, <2>3, <2>6 DEF N
    <2>7. CASE g = "moe" /\ f \in Launches!ToSet(Launches!MoeFields) /\ j \in 1 .. a + b
        BY <1>1, <1>2, <1>3, <1>5, <2>2, <2>3, <2>7 DEF N
    <2>8. CASE g = "mtp" /\ f \in Launches!ToSet(draft) /\ j = 1
        BY <1>1, <1>4, <1>5, <2>2, <2>3, <2>8 DEF N
    <2>9. CASE g = "mtp" /\ f \in Launches!ToSet(Launches!HeadFields) /\ j = 1
        BY <1>1, <1>4, <1>5, <2>2, <2>3, <2>9 DEF N
    <2>10. CASE g = "mtp_moe" /\ f \in Launches!ToSet(Launches!MoeFields) /\ j = 1
        BY <1>1, <1>4, <1>5, <2>2, <2>3, <2>10 DEF N
    <2>11. CASE g \in {"d1", "d2"} /\ f \in Launches!ToSet(Launches!StageFields) /\ j = 1
        BY <1>1, <1>4, <1>5, <2>2, <2>3, <2>11 DEF N
    <2> QED BY <2>4, <2>5, <2>6, <2>7, <2>8, <2>9, <2>10, <2>11
<1>8. CASE kind \in {"draft", "replay"}
    <2>1. N = Launches!FlattenDraft(kind = "draft") /\ (kind = "draft") \in BOOLEAN
        BY <1>8 DEF Launches!Flatten
    <2>2. /\ Within(Launches!Fields("mtp", draft), N)
          /\ kind = "draft" => Within(Launches!Fields("mtp", Launches!HeadFields), N)
          /\ Within(Launches!Fields("mtp_moe", Launches!MoeFields), N)
          /\ Within(Launches!Fields("d1", Launches!StageFields), N)
        BY <2>1, DraftHolds
    <2>3. /\ Within(Launches!Pairs("mtp", draft), A)
          /\ kind = "draft" => Within(Launches!Pairs("mtp", Launches!HeadFields), A)
          /\ Within(Launches!Pairs("mtp_moe", Launches!MoeFields), A)
          /\ Within(Launches!Pairs("d1", Launches!StageFields), A)
        BY <1>8, DraftArgsHold
    <2>4. \/ g = "mtp" /\ f \in Launches!ToSet(draft) /\ j = 1
          \/ g = "mtp" /\ f \in Launches!ToSet(Launches!HeadFields) /\ j = 1 /\ kind = "draft"
          \/ g = "mtp_moe" /\ f \in Launches!ToSet(Launches!MoeFields) /\ j = 1
          \/ g = "d1" /\ f \in Launches!ToSet(Launches!StageFields) /\ j = 1
        BY <1>8 DEF Asked, Launches!HasTrunk
    <2> HIDE DEF N, A, draft
    <2>5. CASE g = "mtp" /\ f \in Launches!ToSet(draft) /\ j = 1
        BY <1>1, <1>4, <1>5, <2>2, <2>3, <2>5 DEF N
    <2>6. CASE g = "mtp" /\ f \in Launches!ToSet(Launches!HeadFields) /\ j = 1 /\ kind = "draft"
        BY <1>1, <1>4, <1>5, <2>2, <2>3, <2>6 DEF N
    <2>7. CASE g = "mtp_moe" /\ f \in Launches!ToSet(Launches!MoeFields) /\ j = 1
        BY <1>1, <1>4, <1>5, <2>2, <2>3, <2>7 DEF N
    <2>8. CASE g = "d1" /\ f \in Launches!ToSet(Launches!StageFields) /\ j = 1
        BY <1>1, <1>4, <1>5, <2>2, <2>3, <2>8 DEF N
    <2> QED BY <2>4, <2>5, <2>6, <2>7, <2>8
<1> QED BY <1>6, <1>7, <1>8 DEF Launches!Kinds

\* The tensors a launch of p's layers hands over, in the flat order.
FlatOf(kind, p) ==
    LET names == Launches!Flatten(kind, Launches!Count(p, "dn"), Launches!Count(p, "gqa"))
    IN  [x \in DOMAIN names |->
            Launches!HostTensor(p, names[x][1], names[x][2], names[x][3])]
ReadBy(kind, p, g, f, j) ==
    Asked(kind, Launches!Count(p, "dn"), Launches!Count(p, "gqa"), g, f, j)

\* A wrapper of the same key passes each to the parameter and place it is read
\* from.
LEMMA BoundIsMeant ==
    ASSUME NEW kind \in Launches!Kinds, NEW p \in Seq(Types), NEW q \in Seq(Types),
           Launches!HasTrunk(kind) => q = p,
           NEW g, NEW f, NEW j, ReadBy(kind, p, g, f, j)
    PROVE  Launches!Bound(Launches!Wrapper(kind, q), FlatOf(kind, p))[<<g, f>>][j]
              = Launches!HostTensor(p, g, f, j)
<1> DEFINE a == Launches!Count(p, "dn")
           b == Launches!Count(p, "gqa")
           names == Launches!Flatten(kind, a, b)
           w == Launches!Wrapper(kind, q)
           flat == FlatOf(kind, p)
           params == Launches!Params(kind)
<1>1. a \in Nat /\ b \in Nat /\ a + b = Len(p) /\ Len(p) \in Nat
    <2>1. "dn" \in Types /\ "gqa" \in Types /\ Len(p) \in Nat
        BY DEF Types
    <2>2. a = Launches!Passes(p, "dn", Len(p)) /\ b = Launches!Passes(p, "gqa", Len(p))
        BY <2>1, LayersListed
    <2> QED BY <2>1, <2>2, PassesStep, PassesSum
<1>2. Holds(names, Launches!Name(g, f, j)) /\ Holds(params, <<g, f>>)
    BY <1>1, AskedHold DEF ReadBy
<1>3. w.kind = kind /\ w.names = names /\ w.pattern = q
    BY DEF Launches!Wrapper, Launches!HasTrunk, Launches!Flatten, Launches!Kinds
<1>4. j \in 1 .. Launches!TupleLength(w, g)
    <2>1. CASE kind = "verify" \/ kind = "round"
        BY <1>1, <1>3, <2>1 DEF ReadBy, Asked, Launches!TupleLength, Launches!HasTrunk
    <2>2. CASE kind = "draft" \/ kind = "replay"
        BY <2>2 DEF ReadBy, Asked, Launches!TupleLength, Launches!HasTrunk
    <2> QED BY <2>1, <2>2 DEF Launches!Kinds
<1>5. flat = [x \in DOMAIN names |->
                Launches!HostTensor(p, names[x][1], names[x][2], names[x][3])]
    BY DEF FlatOf
<1> DEFINE y == CHOOSE x \in DOMAIN names : names[x] = Launches!Name(g, f, j)
<1>6. y \in DOMAIN names /\ names[y] = Launches!Name(g, f, j)
    <2>1. \E x \in DOMAIN names : names[x] = Launches!Name(g, f, j)
        BY <1>2 DEF Holds
    <2> HIDE DEF names
    <2> QED BY <2>1
<1>7. flat[y] = Launches!HostTensor(p, g, f, j)
    <2> HIDE DEF flat, names, y
    <2>1. flat[y] = Launches!HostTensor(p, names[y][1], names[y][2], names[y][3])
        BY ONLY <1>5, <1>6
    <2>2. names[y][1] = g /\ names[y][2] = f /\ names[y][3] = j
        BY <1>6 DEF Launches!Name
    <2> QED BY <2>1, <2>2
<1> DEFINE z == CHOOSE x \in DOMAIN params : params[x] = <<g, f>>
           Tuple(arg) == [k \in 1 .. Launches!TupleLength(w, arg[1]) |->
                            flat[CHOOSE x \in DOMAIN w.names :
                                    w.names[x] = Launches!Name(arg[1], arg[2], k)]]
           passed == Launches!BodyArgs(w.kind)
           bound == Launches!Bound(w, flat)
<1>8. bound = [c \in Launches!ToSet(Launches!Params(w.kind)) |->
                Tuple(passed[CHOOSE x \in DOMAIN Launches!Params(w.kind) :
                              Launches!Params(w.kind)[x] = c])]
    BY DEF Launches!Bound
<1>9. z \in DOMAIN params /\ params[z] = <<g, f>>
    <2>1. \E x \in DOMAIN params : params[x] = <<g, f>>
        BY <1>2 DEF Holds
    <2> HIDE DEF params
    <2> QED BY <2>1
<1>10. passed = params
    BY <1>3, ArgsAreParams
<1>11. <<g, f>> \in Launches!ToSet(Launches!Params(w.kind)) /\ Launches!Params(w.kind) = params
    BY <1>3, <1>9 DEF Launches!ToSet
<1>12. bound[<<g, f>>] = Tuple(passed[z])
    <2> HIDE DEF params, passed, Tuple, bound, w
    <2>1. bound[<<g, f>>] = Tuple(passed[CHOOSE x \in DOMAIN Launches!Params(w.kind) :
                              Launches!Params(w.kind)[x] = <<g, f>>])
        BY ONLY <1>8, <1>11
    <2> QED BY ONLY <1>11, <2>1, Zenon DEF z
<1>13. Tuple(<<g, f>>)[j] = flat[y]
    <2>1. Tuple(<<g, f>>) = [k \in 1 .. Launches!TupleLength(w, g) |->
                            flat[CHOOSE x \in DOMAIN names : names[x] = Launches!Name(g, f, k)]]
        BY <1>3
    <2> HIDE DEF Tuple, flat, w, names
    <2> QED BY ONLY <1>4, <2>1 DEF y
<1>14. passed[z] = <<g, f>>
    BY ONLY <1>9, <1>10
<1> HIDE DEF Tuple, bound, flat, y, z, passed
<1> QED BY <1>7, <1>12, <1>13, <1>14 DEF bound, flat, w

\* A handle of layer l, its k-th.
Handle(h, l, k) ==
    /\ h.layer = l
    /\ h.field \in (IF k = 1 THEN {"k_cache", "active_k", "cand_state"}
                    ELSE {"v_cache", "active_v", "conv_cand"})

\* s holds two handles of each of the first m layers of a list, a stride apart.
Handles(s, m, stride, layers) ==
    /\ Listed(s) /\ Len(s) = stride * m
    /\ \A j \in 1 .. m, k \in {1, 2} : Handle(s[stride * (j - 1) + k], layers[j], k)

Stride(kind) == IF kind = "round" THEN 4 ELSE 2

\* How far the trunk of a launch has come, and what it has put out.
Progress(b) ==
    /\ b.pattern = b.caller /\ b.dn + b.gqa \in 0 .. Len(b.caller)
    /\ b.dn \in Nat /\ b.dn = Launches!Passes(b.caller, "dn", b.dn + b.gqa)
    /\ b.gqa \in Nat /\ b.gqa = Launches!Passes(b.caller, "gqa", b.dn + b.gqa)
    /\ b.stage \in {"d2", "end"} => b.dn + b.gqa = Len(b.caller)
    /\ Handles(b.gqaOut, b.gqa, Stride(b.kind), Launches!LayersOf(b.caller, "gqa"))
    /\ Handles(b.dnOut, b.dn, 2, Launches!LayersOf(b.caller, "dn"))

BodyFields == {"kind", "caller", "pattern", "env", "stage", "dn", "gqa", "gqaOut", "dnOut"}
BodyInv(b) ==
    /\ DOMAIN b = BodyFields
    /\ b.kind \in Launches!Kinds /\ b.caller \in Patterns
    /\ b.stage \in CASE b.kind = "verify" -> {"trunk", "end"}
                     [] b.kind = "round"  -> {"d1", "trunk", "d2", "end"}
                     [] OTHER             -> {"d1", "end"}
    /\ Launches!HasTrunk(b.kind) => Progress(b)
    /\ \A g, f, j : ReadBy(b.kind, b.caller, g, f, j) =>
          b.env[<<g, f>>][j] = Launches!HostTensor(b.caller, g, f, j)

\* A wrapper of the process was built for a pattern its key stands for.
BuiltInv ==
    \A key \in DOMAIN built : \E kind \in Launches!Kinds, p \in Patterns :
        key = Launches!CacheKey(kind, p) /\ built[key] = Launches!Wrapper(kind, p)

LaunchInv ==
    /\ BuiltInv
    /\ body = Launches!NoBody \/ BodyInv(body)
    /\ Launches!ReadsItsOwnTensors /\ Launches!HandlesReachTheirLayer

\* The patterns are sequences of layer types.
LEMMA PatternsTyped == Patterns \subseteq Seq(Types)
BY LaunchAssumption DEF Launches!PatternsAssumption, Types

\* No launch has been made at first.
LEMMA LaunchInit == Launches!Init => LaunchInv
<1> SUFFICES ASSUME Launches!Init PROVE LaunchInv
    OBVIOUS
<1>1. built = << >> /\ body = Launches!NoBody /\ reads = {} /\ given = {}
    BY DEF Launches!Init
<1>2. BuiltInv
    BY <1>1 DEF BuiltInv
<1>3. Launches!ReadsItsOwnTensors
    BY <1>1 DEF Launches!ReadsItsOwnTensors
<1>4. Launches!HandlesReachTheirLayer
    BY <1>1 DEF Launches!HandlesReachTheirLayer
<1> QED BY <1>1, <1>2, <1>3, <1>4 DEF LaunchInv

\* A launch starts with its own tensors, whichever wrapper it finds.
LEMMA LaunchStep ==
    ASSUME LaunchInv, NEW kind \in Launches!Kinds, NEW p \in Patterns, Launches!Launch(kind, p)
    PROVE  LaunchInv'
<1> DEFINE key == Launches!CacheKey(kind, p)
           w == IF key \in DOMAIN built THEN built[key] ELSE Launches!Wrapper(kind, p)
<1>1. /\ built' = [k \in DOMAIN built \cup {key} |-> IF k = key THEN w ELSE built[k]]
      /\ body' = [ kind |-> kind, caller |-> p, pattern |-> w.pattern,
                   env |-> Launches!Bound(w, FlatOf(kind, p)),
                   stage |-> IF kind = "verify" THEN "trunk" ELSE "d1",
                   dn |-> 0, gqa |-> 0, gqaOut |-> << >>, dnOut |-> << >> ]
      /\ reads' = {} /\ given' = {}
    BY DEF Launches!Launch, FlatOf
<1>2. PICK q \in Patterns : w = Launches!Wrapper(kind, q) /\ (Launches!HasTrunk(kind) => q = p)
    <2>1. CASE key \in DOMAIN built
        <3>1. PICK k \in Launches!Kinds, q \in Patterns :
                key = Launches!CacheKey(k, q) /\ built[key] = Launches!Wrapper(k, q)
            BY <2>1 DEF LaunchInv, BuiltInv
        <3>2. k = kind /\ (Launches!HasTrunk(kind) => q = p)
            BY <3>1 DEF Launches!CacheKey
        <3> QED BY <2>1, <3>1, <3>2
    <2>2. CASE key \notin DOMAIN built
        BY <2>2
    <2> QED BY <2>1, <2>2
<1> HIDE DEF w
<1>3. BuiltInv'
    <2> SUFFICES ASSUME NEW k \in DOMAIN built'
                 PROVE  \E c \in Launches!Kinds, q1 \in Patterns :
                    k = Launches!CacheKey(c, q1) /\ built'[k] = Launches!Wrapper(c, q1)
        BY DEF BuiltInv
    <2>1. CASE k = key
        <3>1. built'[k] = w
            BY <1>1, <2>1
        <3>2. key = Launches!CacheKey(kind, q)
            BY <1>2 DEF Launches!CacheKey
        <3> QED BY <1>2, <2>1, <3>1, <3>2
    <2>2. CASE k # key
        <3>1. k \in DOMAIN built /\ built'[k] = built[k]
            BY <1>1, <2>2
        <3> QED BY <3>1 DEF LaunchInv, BuiltInv
    <2> QED BY <2>1, <2>2
<1>4. BodyInv(body)'
    <2>1. p \in Seq(Types) /\ q \in Seq(Types) /\ w.pattern = q
        BY <1>2, PatternsTyped DEF Launches!Wrapper
    <2>2. /\ DOMAIN body' = BodyFields /\ body'.kind = kind /\ body'.caller = p
          /\ body'.pattern = q /\ body'.env = Launches!Bound(w, FlatOf(kind, p))
          /\ body'.stage = IF kind = "verify" THEN "trunk" ELSE "d1"
          /\ body'.dn = 0 /\ body'.gqa = 0 /\ body'.gqaOut = << >> /\ body'.dnOut = << >>
        BY ONLY <1>1, <2>1 DEF BodyFields
    <2>3. ASSUME NEW g, NEW f, NEW j, ReadBy(kind, p, g, f, j)
          PROVE  body'.env[<<g, f>>][j] = Launches!HostTensor(p, g, f, j)
        <3>1. Launches!Bound(Launches!Wrapper(kind, q), FlatOf(kind, p))[<<g, f>>][j]
                = Launches!HostTensor(p, g, f, j)
            BY ONLY <2>1, <1>2, <2>3, BoundIsMeant, kind \in Launches!Kinds
        <3> QED BY <1>2, <2>2, <3>1
    <2>4. ASSUME Launches!HasTrunk(kind) PROVE Progress(body)'
        <3>1. "dn" \in Types /\ "gqa" \in Types /\ Len(p) \in Nat
            BY <2>1 DEF Types
        <3>2. Launches!Passes(p, "dn", 0) = 0 /\ Launches!Passes(p, "gqa", 0) = 0
            BY <2>1, <3>1, PassesStep
        <3>3. Handles(<< >>, 0, Stride(kind), Launches!LayersOf(p, "gqa"))
              /\ Handles(<< >>, 0, 2, Launches!LayersOf(p, "dn"))
            BY DEF Handles, Listed, Stride
        <3>4. body'.stage \notin {"d2", "end"}
            BY <2>2
        <3> QED BY <1>2, <2>2, <2>4, <3>1, <3>2, <3>3, <3>4 DEF Progress
    <2>5. body'.stage \in CASE kind = "verify" -> {"trunk", "end"}
                            [] kind = "round"  -> {"d1", "trunk", "d2", "end"}
                            [] OTHER           -> {"d1", "end"}
        BY <2>2 DEF Launches!Kinds
    <2> QED BY <2>2, <2>3, <2>4, <2>5 DEF BodyInv
<1>5. Launches!ReadsItsOwnTensors'
    BY <1>1 DEF Launches!ReadsItsOwnTensors
<1>6. Launches!HandlesReachTheirLayer'
    BY <1>1 DEF Launches!HandlesReachTheirLayer
<1> QED BY <1>3, <1>4, <1>5, <1>6 DEF LaunchInv

\* A stage of the draft reads what it means.
LEMMA StageReads ==
    ASSUME BodyInv(body), NEW stage \in {"d1", "d2"}, body.kind # "verify",
           stage = "d2" => body.kind = "round"
    PROVE  \A r \in Launches!DraftReads(stage) : r[1] = r[2]
<1> DEFINE Right(g, f, t) == Launches!Read(g, f, 1, t)[1] = Launches!Read(g, f, 1, t)[2]
<1>1. ASSUME NEW g, NEW f, ReadBy(body.kind, body.caller, g, f, 1)
      PROVE  Right(g, f, Launches!HostTensor(body.caller, g, f, 1))
    BY <1>1 DEF BodyInv, Launches!Read
<1>2. \A f \in Launches!ToSet(Launches!FrontFields \o Launches!DraftGqaFields) :
         Right("mtp", f, Launches!Tensor(Launches!Mtp, f))
    <2> TAKE f \in Launches!ToSet(Launches!FrontFields \o Launches!DraftGqaFields)
    <2>1. ReadBy(body.kind, body.caller, "mtp", f, 1)
        BY DEF ReadBy, Asked
    <2>2. Launches!HostTensor(body.caller, "mtp", f, 1) = Launches!Tensor(Launches!Mtp, f)
        BY DEF Launches!HostTensor
    <2> QED BY <1>1, <2>1, <2>2
<1>3. \A f \in Launches!ToSet(Launches!MoeFields) :
         Right("mtp_moe", f, Launches!Tensor(Launches!Mtp, f))
    <2> TAKE f \in Launches!ToSet(Launches!MoeFields)
    <2>1. ReadBy(body.kind, body.caller, "mtp_moe", f, 1)
        BY DEF ReadBy, Asked
    <2>2. Launches!HostTensor(body.caller, "mtp_moe", f, 1) = Launches!Tensor(Launches!Mtp, f)
        BY DEF Launches!HostTensor
    <2> QED BY <1>1, <2>1, <2>2
<1>4. \A f \in Launches!ToSet(Launches!StageFields) :
         Right(stage, f, Launches!Tensor(Launches!Stage(stage), f))
    <2> TAKE f \in Launches!ToSet(Launches!StageFields)
    <2>1. ReadBy(body.kind, body.caller, stage, f, 1)
        BY DEF ReadBy, Asked
    <2>2. Launches!HostTensor(body.caller, stage, f, 1)
            = Launches!Tensor(Launches!Stage(stage), f)
        BY DEF Launches!HostTensor
    <2> QED BY <1>1, <2>1, <2>2
<1>5. body.kind # "replay" => \A f \in Launches!ToSet(Launches!HeadFields) :
         Right("mtp", f, Launches!Tensor(Launches!Mtp, f))
    <2> SUFFICES ASSUME body.kind # "replay", NEW f \in Launches!ToSet(Launches!HeadFields)
                 PROVE  Right("mtp", f, Launches!Tensor(Launches!Mtp, f))
        OBVIOUS
    <2>1. ReadBy(body.kind, body.caller, "mtp", f, 1)
        BY DEF ReadBy, Asked
    <2>2. Launches!HostTensor(body.caller, "mtp", f, 1) = Launches!Tensor(Launches!Mtp, f)
        BY DEF Launches!HostTensor
    <2> QED BY <1>1, <2>1, <2>2
<1> QED BY <1>2, <1>3, <1>4, <1>5 DEF Launches!DraftReads

\* A layer of the trunk, too.
LEMMA LayerReadsRight ==
    ASSUME BodyInv(body), Launches!HasTrunk(body.kind),
           NEW i \in 1 .. Len(body.caller), i = Launches!Passed + 1,
           NEW t \in Types, body.caller[i] = t,
           NEW fields, t = "dn" => fields = Launches!DnFields,
           t = "gqa" => fields = Launches!GqaFields,
           NEW at, at = Launches!Passes(body.caller, t, i)
    PROVE  \A r \in Launches!LayerReads(t, fields, at) : r[1] = r[2]
<1> DEFINE p == body.caller
<1>1. p \in Seq(Types) /\ Len(p) \in Nat /\ "dn" \in Types /\ "gqa" \in Types
    BY PatternsTyped DEF BodyInv, Types
<1>2. /\ Launches!Count(p, "dn") = Launches!Passes(p, "dn", Len(p))
      /\ Launches!Count(p, "gqa") = Launches!Passes(p, "gqa", Len(p))
      /\ at \in 1 .. Launches!Count(p, t) /\ Launches!LayersOf(p, t)[at] = i
    BY <1>1, LayersListed
<1>3. Launches!Count(p, "dn") + Launches!Count(p, "gqa") = Len(p)
    BY <1>1, <1>2, PassesSum
<1>4. ASSUME NEW f \in Launches!ToSet(fields)
      PROVE  Launches!Tensor(i, f) = body.env[<<t, f>>][at]
    <2>1. ReadBy(body.kind, p, t, f, at)
        BY <1>2 DEF ReadBy, Asked, Types
    <2>2. Launches!HostTensor(p, t, f, at) = Launches!Tensor(i, f)
        BY <1>2 DEF Launches!HostTensor, Types
    <2> QED BY <2>1, <2>2 DEF BodyInv
<1>5. ASSUME NEW f \in Launches!ToSet(Launches!MoeFields)
      PROVE  Launches!Tensor(i, f) = body.env[<<"moe", f>>][i]
    <2>1. ReadBy(body.kind, p, "moe", f, i)
        BY <1>3 DEF ReadBy, Asked
    <2>2. Launches!HostTensor(p, "moe", f, i) = Launches!Tensor(i, f)
        BY DEF Launches!HostTensor
    <2> QED BY <2>1, <2>2 DEF BodyInv
<1> DEFINE k == Launches!Passed + 1
<1>6. Launches!LayerReads(t, fields, at)
        = {<<Launches!Tensor(k, f), body.env[<<t, f>>][at]>> : f \in Launches!ToSet(fields)}
            \cup {<<Launches!Tensor(k, f), body.env[<<"moe", f>>][k]>> :
                     f \in Launches!ToSet(Launches!MoeFields)}
    BY Zenon DEF Launches!LayerReads, Launches!Read
<1>7. k = i
    OBVIOUS
<1> HIDE DEF k
<1>8. ASSUME NEW f \in Launches!ToSet(fields)
      PROVE  Launches!Tensor(k, f) = body.env[<<t, f>>][at]
    BY <1>4, <1>7
<1>9. ASSUME NEW f \in Launches!ToSet(Launches!MoeFields)
      PROVE  Launches!Tensor(k, f) = body.env[<<"moe", f>>][k]
    BY <1>5, <1>7
<1> SUFFICES ASSUME NEW r \in Launches!LayerReads(t, fields, at) PROVE r[1] = r[2]
    OBVIOUS
<1>10. CASE \E f \in Launches!ToSet(fields) :
             r = <<Launches!Tensor(k, f), body.env[<<t, f>>][at]>>
    BY ONLY <1>8, <1>10
<1>11. CASE \E f \in Launches!ToSet(Launches!MoeFields) :
             r = <<Launches!Tensor(k, f), body.env[<<"moe", f>>][k]>>
    BY ONLY <1>9, <1>11
<1>12. \/ \E f \in Launches!ToSet(fields) :
             r = <<Launches!Tensor(k, f), body.env[<<t, f>>][at]>>
       \/ \E f \in Launches!ToSet(Launches!MoeFields) :
             r = <<Launches!Tensor(k, f), body.env[<<"moe", f>>][k]>>
    BY ONLY <1>6, r \in Launches!LayerReads(t, fields, at)
<1> QED BY <1>10, <1>11, <1>12

\* The handles of one layer more.
LEMMA HandlesPush ==
    ASSUME NEW s, NEW m \in Nat, NEW stride \in {2, 4}, NEW layers,
           Handles(s, m, stride, layers), NEW q, Listed(q), Len(q) = stride,
           \A k \in {1, 2} : Handle(q[k], layers[m + 1], k)
    PROVE  Handles(s \o q, m + 1, stride, layers)
<1>1. PICK u : u = s \o q
    OBVIOUS
<1>2. /\ Listed(u) /\ Len(u) = stride * m + stride /\ Len(s) = stride * m
      /\ \A k \in 1 .. stride * m : u[k] = s[k]
      /\ \A k \in 1 .. stride : u[stride * m + k] = q[k]
    <2>1. Listed(s) /\ Len(s) = stride * m
        BY DEF Handles
    <2>2. Listed(u) /\ Joined(u, s, q)
        BY <1>1, <2>1, ListedJoined
    <2> QED BY <2>1, <2>2 DEF Joined
<1>3. Len(u) = stride * (m + 1)
    BY <1>2
<1>4. ASSUME NEW j \in 1 .. m + 1, NEW k \in {1, 2}
      PROVE  Handle(u[stride * (j - 1) + k], layers[j], k)
    <2>1. CASE j = m + 1
        <3>1. stride * (j - 1) + k = stride * m + k /\ k \in 1 .. stride
            BY <2>1
        <3>2. u[stride * (j - 1) + k] = q[k]
            BY <1>2, <3>1
        <3> QED BY <2>1, <3>2
    <2>2. CASE j # m + 1
        <3>1. j \in 1 .. m /\ stride * (j - 1) + k \in 1 .. stride * m
            BY <2>2
        <3>2. u[stride * (j - 1) + k] = s[stride * (j - 1) + k]
            BY <1>2, <3>1
        <3>3. Handle(s[stride * (j - 1) + k], layers[j], k)
            BY <3>1 DEF Handles
        <3> QED BY <3>2, <3>3
    <2> QED BY <2>1, <2>2
<1> QED BY <1>1, <1>2, <1>3, <1>4 DEF Handles

\* What of a launch stays while a step writes the rest.
LEMMA BodyKept ==
    ASSUME BodyInv(body), DOMAIN body' = BodyFields, body'.kind = body.kind,
           body'.caller = body.caller, body'.env = body.env, UNCHANGED <<built, given>>,
           body'.stage \in CASE body.kind = "verify" -> {"trunk", "end"}
                             [] body.kind = "round"  -> {"d1", "trunk", "d2", "end"}
                             [] OTHER                -> {"d1", "end"},
           Launches!HasTrunk(body.kind) => Progress(body)',
           LaunchInv, Launches!ReadsItsOwnTensors'
    PROVE  LaunchInv'
<1>1. BodyInv(body)'
    BY DEF BodyInv
<1>2. BuiltInv'
    BY DEF LaunchInv, BuiltInv
<1>3. Launches!HandlesReachTheirLayer'
    BY DEF LaunchInv, Launches!HandlesReachTheirLayer
<1> QED BY <1>1, <1>2, <1>3 DEF LaunchInv

\* A launch under way satisfies its part of the invariant.
LEMMA HasLaunched ==
    ASSUME LaunchInv, body # Launches!NoBody
    PROVE  BodyInv(body)
BY DEF LaunchInv

\* The drafter's stage of a round or a draft.
LEMMA DraftStageStep ==
    ASSUME LaunchInv, Launches!DraftStage
    PROVE  LaunchInv'
<1>1. /\ body # Launches!NoBody /\ body.stage = "d1"
      /\ reads' = reads \cup Launches!DraftReads("d1")
      /\ body' = [body EXCEPT !.stage = IF body.kind = "round" THEN "trunk" ELSE "end"]
      /\ UNCHANGED <<built, launches, given>>
    BY DEF Launches!DraftStage
<1>2. BodyInv(body) /\ body.kind # "verify" /\ body.kind \in Launches!Kinds
    BY <1>1, HasLaunched DEF BodyInv
<1>3. /\ DOMAIN body' = BodyFields /\ body'.kind = body.kind /\ body'.caller = body.caller
      /\ body'.env = body.env /\ body'.pattern = body.pattern /\ body'.dn = body.dn
      /\ body'.gqa = body.gqa /\ body'.gqaOut = body.gqaOut /\ body'.dnOut = body.dnOut
      /\ body'.stage = IF body.kind = "round" THEN "trunk" ELSE "end"
    <2>1. DOMAIN body = BodyFields
        BY <1>2 DEF BodyInv
    <2> QED BY ONLY <1>1, <2>1 DEF BodyFields
<1>4. Launches!ReadsItsOwnTensors'
    <2>1. \A r \in Launches!DraftReads("d1") : r[1] = r[2]
        BY <1>2, StageReads
    <2> QED BY <1>1, <2>1 DEF LaunchInv, Launches!ReadsItsOwnTensors
<1>5. Launches!HasTrunk(body.kind) => Progress(body)'
    <2> SUFFICES ASSUME Launches!HasTrunk(body.kind) PROVE Progress(body)'
        OBVIOUS
    <2>1. body.kind = "round" /\ body'.stage = "trunk" /\ Progress(body)
        BY <1>2, <1>3 DEF Launches!HasTrunk, BodyInv
    <2> QED BY <1>3, <2>1 DEF Progress
<1>6. body'.stage \in CASE body.kind = "verify" -> {"trunk", "end"}
                       [] body.kind = "round"  -> {"d1", "trunk", "d2", "end"}
                       [] OTHER                -> {"d1", "end"}
    BY <1>2, <1>3
<1> QED BY <1>1, <1>2, <1>3, <1>4, <1>5, <1>6, BodyKept

\* The replay's step.
LEMMA ReplayStep ==
    ASSUME LaunchInv, Launches!Replay
    PROVE  LaunchInv'
<1>1. /\ body # Launches!NoBody /\ body.stage = "d2"
      /\ reads' = reads \cup Launches!DraftReads("d2")
      /\ body' = [body EXCEPT !.stage = "end"]
      /\ UNCHANGED <<built, launches, given>>
    BY DEF Launches!Replay
<1>2. BodyInv(body) /\ body.kind = "round"
    BY <1>1, HasLaunched DEF BodyInv, Launches!Kinds
<1>3. /\ DOMAIN body' = BodyFields /\ body'.kind = body.kind /\ body'.caller = body.caller
      /\ body'.env = body.env /\ body'.pattern = body.pattern /\ body'.dn = body.dn
      /\ body'.gqa = body.gqa /\ body'.gqaOut = body.gqaOut /\ body'.dnOut = body.dnOut
      /\ body'.stage = "end"
    <2>1. DOMAIN body = BodyFields
        BY <1>2 DEF BodyInv
    <2> QED BY ONLY <1>1, <2>1 DEF BodyFields
<1>4. Launches!ReadsItsOwnTensors'
    <2>1. \A r \in Launches!DraftReads("d2") : r[1] = r[2]
        BY <1>2, StageReads
    <2> QED BY <1>1, <2>1 DEF LaunchInv, Launches!ReadsItsOwnTensors
<1>5. Progress(body)'
    <2>1. Progress(body)
        BY <1>2 DEF Launches!HasTrunk, BodyInv
    <2> QED BY <1>1, <1>3, <2>1 DEF Progress
<1> QED BY <1>1, <1>2, <1>3, <1>4, <1>5, BodyKept

\* The trunk ends behind its last layer.
LEMMA TrunkDoneStep ==
    ASSUME LaunchInv, Launches!TrunkDone
    PROVE  LaunchInv'
<1>1. /\ body # Launches!NoBody /\ body.stage = "trunk"
      /\ body.dn + body.gqa = Len(body.pattern)
      /\ body' = [body EXCEPT !.stage = IF body.kind = "round" THEN "d2" ELSE "end"]
      /\ UNCHANGED <<built, launches, reads, given>>
    BY DEF Launches!TrunkDone, Launches!InTrunk, Launches!Passed
<1>2. BodyInv(body) /\ body.kind \in {"verify", "round"}
    BY <1>1, HasLaunched DEF BodyInv, Launches!Kinds
<1>3. /\ DOMAIN body' = BodyFields /\ body'.kind = body.kind /\ body'.caller = body.caller
      /\ body'.env = body.env /\ body'.pattern = body.pattern /\ body'.dn = body.dn
      /\ body'.gqa = body.gqa /\ body'.gqaOut = body.gqaOut /\ body'.dnOut = body.dnOut
      /\ body'.stage = IF body.kind = "round" THEN "d2" ELSE "end"
    <2>1. DOMAIN body = BodyFields
        BY <1>2 DEF BodyInv
    <2> QED BY ONLY <1>1, <2>1 DEF BodyFields
<1>4. Launches!ReadsItsOwnTensors'
    BY <1>1 DEF LaunchInv, Launches!ReadsItsOwnTensors
<1>5. Progress(body)'
    <2>1. Progress(body)
        BY <1>2 DEF Launches!HasTrunk, BodyInv
    <2> QED BY <1>1, <1>3, <2>1 DEF Progress
<1>6. body'.stage \in CASE body.kind = "verify" -> {"trunk", "end"}
                       [] body.kind = "round"  -> {"d1", "trunk", "d2", "end"}
                       [] OTHER                -> {"d1", "end"}
    BY <1>2, <1>3
<1> QED BY <1>1, <1>2, <1>3, <1>4, <1>5, <1>6, BodyKept

\* The running index of a type is the layer's place in the list of its type.
LEMMA NextOfType ==
    ASSUME Progress(body), body.caller \in Seq(Types), NEW i, i = body.dn + body.gqa + 1,
           i <= Len(body.caller), NEW t \in Types, body.caller[i] = t
    PROVE  /\ i \in 1 .. Len(body.caller)
           /\ Launches!Passes(body.caller, t, i) = (IF t = "dn" THEN body.dn ELSE body.gqa) + 1
           /\ \A o \in Types \ {t} : Launches!Passes(body.caller, o, i)
                 = IF o = "dn" THEN body.dn ELSE body.gqa
           /\ Launches!LayersOf(body.caller, t)[(IF t = "dn" THEN body.dn ELSE body.gqa) + 1] = i
<1> DEFINE p == body.caller
<1>1. /\ body.dn \in Nat /\ body.gqa \in Nat /\ i - 1 = body.dn + body.gqa /\ Len(p) \in Nat
      /\ body.dn = Launches!Passes(p, "dn", i - 1) /\ body.gqa = Launches!Passes(p, "gqa", i - 1)
    BY DEF Progress
<1>2. i \in 1 .. Len(p)
    BY <1>1
<1>3. \A o \in Types : Launches!Passes(p, o, i) =
            Launches!Passes(p, o, i - 1) + (IF p[i] = o THEN 1 ELSE 0)
    BY <1>2, PassesStep
<1>4. \A o \in Types : Launches!Passes(p, o, i - 1) = IF o = "dn" THEN body.dn ELSE body.gqa
    BY <1>1 DEF Types
<1>5. Launches!LayersOf(p, t)[Launches!Passes(p, t, i)] = i
    BY <1>2, LayersListed
<1> QED BY <1>1, <1>2, <1>3, <1>4, <1>5

\* A DeltaNet layer reads its tensors and hands back its states.
LEMMA DnLayerStep ==
    ASSUME LaunchInv, Launches!DnLayer
    PROVE  LaunchInv'
<1> DEFINE i == body.dn + body.gqa + 1
           p == body.caller
           q == << Launches!Tensor(i, "cand_state"), Launches!Tensor(i, "conv_cand") >>
<1>1. /\ body # Launches!NoBody /\ body.stage = "trunk" /\ i = Launches!Passed + 1
      /\ body.dn + body.gqa < Len(body.pattern) /\ body.pattern[i] = "dn"
      /\ reads' = reads \cup Launches!LayerReads("dn", Launches!DnFields, body.dn + 1)
      /\ body' = [body EXCEPT !.dn = body.dn + 1, !.dnOut = @ \o q]
      /\ UNCHANGED <<built, launches, given>>
    BY DEF Launches!DnLayer, Launches!InTrunk, Launches!Passed
<1>2. BodyInv(body) /\ body.kind \in {"verify", "round"}
    BY <1>1, HasLaunched DEF BodyInv, Launches!Kinds
<1>3. /\ DOMAIN body' = BodyFields /\ body'.kind = body.kind /\ body'.caller = p
      /\ body'.env = body.env /\ body'.pattern = body.pattern /\ body'.dn = body.dn + 1
      /\ body'.gqa = body.gqa /\ body'.gqaOut = body.gqaOut /\ body'.dnOut = body.dnOut \o q
      /\ body'.stage = "trunk"
    <2>1. DOMAIN body = BodyFields /\ body.stage = "trunk"
        BY <1>1, <1>2 DEF BodyInv
    <2>2. body' = [body EXCEPT !.dn = body.dn + 1, !.dnOut = body.dnOut \o q]
        BY <1>1
    <2> HIDE DEF q
    <2> QED BY ONLY <2>1, <2>2 DEF BodyFields
<1>4. Launches!HasTrunk(body.kind) /\ Progress(body) /\ p \in Seq(Types) /\ "dn" \in Types
      /\ "gqa" \in Types
    BY <1>2, PatternsTyped DEF Launches!HasTrunk, BodyInv, Types
<1>5. p = body.pattern /\ Len(p) \in Nat /\ body.dn \in Nat /\ body.gqa \in Nat
      /\ body.dn + body.gqa \in 0 .. Len(p)
    BY <1>4 DEF Progress
<1>6. /\ i \in 1 .. Len(p) /\ p[i] = "dn" /\ i <= Len(p)
      /\ Launches!Passes(p, "dn", i) = body.dn + 1
      /\ Launches!Passes(p, "gqa", i) = body.gqa
      /\ Launches!LayersOf(p, "dn")[body.dn + 1] = i
    <2>1. i \in 1 .. Len(p) /\ p[i] = "dn" /\ i <= Len(p)
        BY <1>1, <1>5
    <2>2. PICK n : n = i
        OBVIOUS
    <2> HIDE DEF i
    <2>3. n = body.dn + body.gqa + 1 /\ n <= Len(p) /\ p[n] = "dn"
        BY <2>1, <2>2 DEF i
    <2>4. /\ Launches!Passes(p, "dn", n) = body.dn + 1
          /\ Launches!Passes(p, "gqa", n) = body.gqa
          /\ Launches!LayersOf(p, "dn")[body.dn + 1] = n
        <3>1. "gqa" \in Types \ {"dn"}
            BY DEF Types
        <3> QED BY <1>4, <2>3, <3>1, NextOfType
    <2> QED BY <2>1, <2>2, <2>4
<1>7. Launches!ReadsItsOwnTensors'
    <2> HIDE DEF i
    <2>1. \A r \in Launches!LayerReads("dn", Launches!DnFields, body.dn + 1) : r[1] = r[2]
        BY <1>1, <1>2, <1>4, <1>6, LayerReadsRight
    <2> QED BY <1>1, <2>1 DEF LaunchInv, Launches!ReadsItsOwnTensors
<1>8. Handles(body.dnOut \o q, body.dn + 1, 2, Launches!LayersOf(p, "dn"))
    <2>1. Listed(q) /\ Len(q) = 2
        BY DEF Listed
    <2>2. \A k \in {1, 2} : Handle(q[k], i, k)
        BY DEF Handle, Launches!Tensor
    <2> HIDE DEF q, i
    <2>3. Handles(body.dnOut, body.dn, 2, Launches!LayersOf(p, "dn"))
        BY <1>4 DEF Progress
    <2> QED BY <1>5, <1>6, <2>1, <2>2, <2>3, HandlesPush
<1>9. Progress(body)'
    <2>1. body'.dn + body'.gqa = i
        BY <1>3, <1>5
    <2>2. Handles(body.gqaOut, body.gqa, Stride(body.kind), Launches!LayersOf(p, "gqa"))
        BY <1>4 DEF Progress
    <2> HIDE DEF i, q
    <2>3. /\ body'.dn + body'.gqa \in 0 .. Len(p) /\ body'.dn \in Nat /\ body'.gqa \in Nat
          /\ body'.dn = Launches!Passes(p, "dn", i) /\ body'.gqa = Launches!Passes(p, "gqa", i)
        BY <1>3, <1>5, <1>6, <2>1
    <2> QED BY <1>3, <1>5, <1>8, <2>1, <2>2, <2>3 DEF Progress
<1>10. body'.stage \in CASE body.kind = "verify" -> {"trunk", "end"}
                       [] body.kind = "round"  -> {"d1", "trunk", "d2", "end"}
                       [] OTHER                -> {"d1", "end"}
    BY <1>2, <1>3
<1> QED BY <1>1, <1>2, <1>3, <1>7, <1>9, <1>10, BodyKept

\* A GQA layer reads its tensors and hands back its keys and values.
LEMMA GqaLayerStep ==
    ASSUME LaunchInv, Launches!GqaLayer
    PROVE  LaunchInv'
<1> DEFINE i == body.dn + body.gqa + 1
           p == body.caller
           caches == IF body.kind = "round"
                     THEN << Launches!Tensor(i, "k_cache"), Launches!Tensor(i, "v_cache") >>
                     ELSE << >>
           active == << Launches!Tensor(i, "active_k"), Launches!Tensor(i, "active_v") >>
           out == body.gqaOut \o caches \o active
<1>1. /\ body # Launches!NoBody /\ body.stage = "trunk" /\ i = Launches!Passed + 1
      /\ body.dn + body.gqa < Len(body.pattern) /\ body.pattern[i] = "gqa"
      /\ reads' = reads \cup Launches!LayerReads("gqa", Launches!GqaFields, body.gqa + 1)
      /\ body' = [body EXCEPT !.gqa = body.gqa + 1, !.gqaOut = out]
      /\ UNCHANGED <<built, launches, given>>
    BY DEF Launches!GqaLayer, Launches!InTrunk, Launches!Passed
<1>2. BodyInv(body) /\ body.kind \in {"verify", "round"}
    BY <1>1, HasLaunched DEF BodyInv, Launches!Kinds
<1>3. /\ DOMAIN body' = BodyFields /\ body'.kind = body.kind /\ body'.caller = p
      /\ body'.env = body.env /\ body'.pattern = body.pattern /\ body'.dn = body.dn
      /\ body'.gqa = body.gqa + 1 /\ body'.gqaOut = out /\ body'.dnOut = body.dnOut
      /\ body'.stage = "trunk"
    <2>1. DOMAIN body = BodyFields /\ body.stage = "trunk"
        BY <1>1, <1>2 DEF BodyInv
    <2>2. body' = [body EXCEPT !.gqa = body.gqa + 1, !.gqaOut = out]
        BY <1>1
    <2> HIDE DEF out
    <2> QED BY ONLY <2>1, <2>2 DEF BodyFields
<1>4. Launches!HasTrunk(body.kind) /\ Progress(body) /\ p \in Seq(Types) /\ "dn" \in Types
      /\ "gqa" \in Types
    BY <1>2, PatternsTyped DEF Launches!HasTrunk, BodyInv, Types
<1>5. p = body.pattern /\ Len(p) \in Nat /\ body.dn \in Nat /\ body.gqa \in Nat
      /\ body.dn + body.gqa \in 0 .. Len(p)
    BY <1>4 DEF Progress
<1>6. /\ i \in 1 .. Len(p) /\ p[i] = "gqa" /\ i <= Len(p)
      /\ Launches!Passes(p, "gqa", i) = body.gqa + 1
      /\ Launches!Passes(p, "dn", i) = body.dn
      /\ Launches!LayersOf(p, "gqa")[body.gqa + 1] = i
    <2>1. i \in 1 .. Len(p) /\ p[i] = "gqa" /\ i <= Len(p)
        BY <1>1, <1>5
    <2>2. PICK n : n = i
        OBVIOUS
    <2> HIDE DEF i
    <2>3. n = body.dn + body.gqa + 1 /\ n <= Len(p) /\ p[n] = "gqa"
        BY <2>1, <2>2 DEF i
    <2>4. /\ Launches!Passes(p, "gqa", n) = body.gqa + 1
          /\ Launches!Passes(p, "dn", n) = body.dn
          /\ Launches!LayersOf(p, "gqa")[body.gqa + 1] = n
        <3>1. "dn" \in Types \ {"gqa"}
            BY DEF Types
        <3> QED BY <1>4, <2>3, <3>1, NextOfType
    <2> QED BY <2>1, <2>2, <2>4
<1>7. Launches!ReadsItsOwnTensors'
    <2> HIDE DEF i
    <2>1. \A r \in Launches!LayerReads("gqa", Launches!GqaFields, body.gqa + 1) : r[1] = r[2]
        BY <1>1, <1>2, <1>4, <1>6, LayerReadsRight
    <2> QED BY <1>1, <2>1 DEF LaunchInv, Launches!ReadsItsOwnTensors
<1>8. Handles(out, body.gqa + 1, Stride(body.kind), Launches!LayersOf(p, "gqa"))
    <2> DEFINE q == caches \o active
    <2>1. Handles(body.gqaOut, body.gqa, Stride(body.kind), Launches!LayersOf(p, "gqa"))
        BY <1>4 DEF Progress
    <2>2. Listed(body.gqaOut)
        BY <2>1 DEF Handles
    <2>3. Listed(active) /\ Len(active) = 2 /\ \A k \in {1, 2} : Handle(active[k], i, k)
        BY DEF Listed, Handle, Launches!Tensor
    <2>4. CASE body.kind = "round"
        <3>1. Listed(caches) /\ Len(caches) = 2 /\ \A k \in {1, 2} : Handle(caches[k], i, k)
            BY <2>4 DEF Listed, Handle, Launches!Tensor
        <3> HIDE DEF caches, active, i
        <3>2. Listed(q) /\ Len(q) = 4 /\ \A k \in {1, 2} : q[k] = caches[k]
            <4>1. Listed(q) /\ Joined(q, caches, active)
                BY <2>3, <3>1, ListedJoined
            <4> HIDE DEF q
            <4> QED BY ONLY <2>3, <3>1, <4>1 DEF Joined
        <3>3. out = body.gqaOut \o q
            <4>1. PICK s : s = body.gqaOut
                OBVIOUS
            <4>2. Listed(s) /\ Listed(caches) /\ Listed(active)
                BY <2>2, <2>3, <3>1, <4>1
            <4>3. s \o caches \o active = s \o (caches \o active)
                BY ONLY <4>2, ListedAssociative
            <4> QED BY ONLY <4>1, <4>3
        <3> HIDE DEF q, out
        <3>4. \A k \in {1, 2} : Handle(q[k], i, k)
            BY <3>1, <3>2
        <3>5. Stride(body.kind) = 4
            BY <2>4 DEF Stride
        <3> QED BY <1>5, <1>6, <2>1, <3>2, <3>3, <3>4, <3>5, HandlesPush
    <2>5. CASE body.kind = "verify"
        <3>1. caches = << >> /\ Stride(body.kind) = 2
            BY <2>5 DEF Stride
        <3>2. out = body.gqaOut \o active
            <4>1. PICK s : s = body.gqaOut
                OBVIOUS
            <4>2. s \in Seq({s[k] : k \in DOMAIN s})
                BY <2>2, <4>1 DEF Listed
            <4>3. s \o << >> = s
                BY ONLY <4>2, ConcatEmptySeq
            <4> QED BY <3>1, <4>1, <4>3
        <3> HIDE DEF caches, active, i, out
        <3> QED BY <1>5, <1>6, <2>1, <2>3, <3>1, <3>2, HandlesPush
    <2> QED BY <1>2, <2>4, <2>5
<1>9. Progress(body)'
    <2>1. body'.dn + body'.gqa = i
        BY <1>3, <1>5
    <2>2. Handles(body.dnOut, body.dn, 2, Launches!LayersOf(p, "dn"))
        BY <1>4 DEF Progress
    <2> HIDE DEF i, out
    <2>3. /\ body'.dn + body'.gqa \in 0 .. Len(p) /\ body'.dn \in Nat /\ body'.gqa \in Nat
          /\ body'.dn = Launches!Passes(p, "dn", i) /\ body'.gqa = Launches!Passes(p, "gqa", i)
        BY <1>3, <1>5, <1>6, <2>1
    <2> QED BY <1>3, <1>5, <1>8, <2>1, <2>2, <2>3 DEF Progress
<1>10. body'.stage \in CASE body.kind = "verify" -> {"trunk", "end"}
                       [] body.kind = "round"  -> {"d1", "trunk", "d2", "end"}
                       [] OTHER                -> {"d1", "end"}
    BY <1>2, <1>3
<1> QED BY <1>1, <1>2, <1>3, <1>7, <1>9, <1>10, BodyKept

\* w is three sequences one behind the other.
Thirds(w, a, b, c) ==
    /\ Listed(w) /\ Len(w) = Len(a) + Len(b) + Len(c)
    /\ \A n \in 1 .. Len(b) : w[Len(a) + n] = b[n]
    /\ \A n \in 1 .. Len(c) : w[Len(a) + Len(b) + n] = c[n]

\* A concatenation of three parts, place by place.
LEMMA ThirdsOf ==
    ASSUME NEW a, NEW b, NEW c, Listed(a), Listed(b), Listed(c)
    PROVE  Thirds(a \o b \o c, a, b, c)
<1>1. PICK u : u = a \o b
    OBVIOUS
<1>2. PICK w : w = u \o c
    OBVIOUS
<1>3. Listed(u) /\ Joined(u, a, b)
    BY <1>1, ListedJoined
<1>4. Listed(w) /\ Joined(w, u, c)
    BY <1>2, <1>3, ListedJoined
<1>5. Len(a) \in Nat /\ Len(b) \in Nat /\ Len(c) \in Nat
    BY ListedLen
<1>6. Len(u) = Len(a) + Len(b) /\ Len(w) = Len(a) + Len(b) + Len(c)
    BY <1>3, <1>4, <1>5 DEF Joined
<1>7. ASSUME NEW n \in 1 .. Len(b) PROVE w[Len(a) + n] = b[n]
    <2>1. Len(a) + n \in 1 .. Len(u)
        BY <1>5, <1>6
    <2>2. w[Len(a) + n] = u[Len(a) + n]
        BY <1>4, <2>1 DEF Joined
    <2> QED BY <1>3, <2>2 DEF Joined
<1>8. ASSUME NEW n \in 1 .. Len(c) PROVE w[Len(a) + Len(b) + n] = c[n]
    BY <1>4, <1>6 DEF Joined
<1> QED BY <1>1, <1>2, <1>4, <1>6, <1>7, <1>8 DEF Thirds

\* What the host hands on reaches every one of the layers, two handles of its
\* own each, and no other.
HandedTo(g, layers) ==
    /\ \A h \in g : h[1] \in layers /\ h[2] \in {1, 2} /\ Handle(h[3], h[1], h[2])
    /\ \A l \in layers, k \in {1, 2} : \E h \in g : h[1] = l /\ h[2] = k

\* Handles read at their stride from two runs reach the layers they come from.
LEMMA HandedRight ==
    ASSUME NEW p \in Seq(Types), NEW rets, NEW front \in Nat, NEW stride \in {2, 4},
           NEW gqa, NEW dn,
           gqa = Launches!Passes(p, "gqa", Len(p)), dn = Launches!Passes(p, "dn", Len(p)),
           \A j \in 1 .. gqa, k \in {1, 2} :
               Handle(rets[front + stride * (j - 1) + k], Launches!LayersOf(p, "gqa")[j], k),
           \A j \in 1 .. dn, k \in {1, 2} :
               Handle(rets[front + stride * gqa + 2 * (j - 1) + k],
                      Launches!LayersOf(p, "dn")[j], k)
    PROVE  HandedTo(Launches!Handed(rets, front, stride, p), DOMAIN p)
<1> DEFINE G == Launches!LayersOf(p, "gqa")
           D == Launches!LayersOf(p, "dn")
           from == front + stride * gqa
           H == Launches!Handed(rets, front, stride, p)
<1>1. "dn" \in Types /\ "gqa" \in Types /\ DOMAIN p = 1 .. Len(p)
      /\ \A i \in 1 .. Len(p) : p[i] = "dn" \/ p[i] = "gqa"
    BY DEF Types
<1>2. /\ Len(G) = gqa /\ DOMAIN G = 1 .. gqa /\ DOMAIN D = 1 .. dn
      /\ \A i \in 1 .. Len(p) : p[i] = "gqa" => \E j \in 1 .. gqa : G[j] = i
      /\ \A i \in 1 .. Len(p) : p[i] = "dn" => \E j \in 1 .. dn : D[j] = i
      /\ \A j \in 1 .. gqa : G[j] \in 1 .. Len(p)
      /\ \A j \in 1 .. dn : D[j] \in 1 .. Len(p)
    <2>1. /\ Len(G) = gqa /\ DOMAIN G = 1 .. gqa
          /\ \A i \in 1 .. Len(p) : p[i] = "gqa" => \E j \in 1 .. gqa : G[j] = i
          /\ \A j \in 1 .. gqa : G[j] \in 1 .. Len(p)
        <3>1. /\ Len(G) = gqa /\ DOMAIN G = 1 .. gqa
              /\ \A i \in 1 .. Len(p) : p[i] = "gqa" =>
                    /\ Launches!Passes(p, "gqa", i) \in 1 .. gqa
                    /\ G[Launches!Passes(p, "gqa", i)] = i
              /\ \A j \in 1 .. gqa : G[j] \in 1 .. Len(p)
            BY <1>1, LayersListed
        <3> HIDE DEF G
        <3> QED BY ONLY <3>1
    <2>2. /\ DOMAIN D = 1 .. dn
          /\ \A i \in 1 .. Len(p) : p[i] = "dn" => \E j \in 1 .. dn : D[j] = i
          /\ \A j \in 1 .. dn : D[j] \in 1 .. Len(p)
        <3>1. /\ Len(D) = dn /\ DOMAIN D = 1 .. dn
              /\ \A i \in 1 .. Len(p) : p[i] = "dn" =>
                    /\ Launches!Passes(p, "dn", i) \in 1 .. dn
                    /\ D[Launches!Passes(p, "dn", i)] = i
              /\ \A j \in 1 .. dn : D[j] \in 1 .. Len(p)
            BY <1>1, LayersListed
        <3> HIDE DEF D
        <3> QED BY ONLY <3>1
    <2> QED BY <2>1, <2>2
<1>3. H = {<<G[j], k, rets[front + stride * (j - 1) + k]>> : j \in DOMAIN G, k \in {1, 2}}
            \cup {<<D[j], k, rets[front + stride * Len(G) + 2 * (j - 1) + k]>> :
                     j \in DOMAIN D, k \in {1, 2}}
    BY DEF Launches!Handed
<1> HIDE DEF G, D, H
<1>4. H = {<<G[j], k, rets[front + stride * (j - 1) + k]>> : j \in 1 .. gqa, k \in {1, 2}}
            \cup {<<D[j], k, rets[from + 2 * (j - 1) + k]>> : j \in 1 .. dn, k \in {1, 2}}
    BY ONLY <1>2, <1>3
<1>5. \A j \in 1 .. gqa, k \in {1, 2} : Handle(rets[front + stride * (j - 1) + k], G[j], k)
    BY DEF G
<1>6. \A j \in 1 .. dn, k \in {1, 2} : Handle(rets[from + 2 * (j - 1) + k], D[j], k)
    BY DEF D
<1> HIDE DEF from
<1>7. ASSUME NEW h \in H
      PROVE  h[1] \in DOMAIN p /\ h[2] \in {1, 2} /\ Handle(h[3], h[1], h[2])
    <2>1. CASE \E j \in 1 .. gqa, k \in {1, 2} :
                 h = <<G[j], k, rets[front + stride * (j - 1) + k]>>
        <3>1. PICK j \in 1 .. gqa, k \in {1, 2} :
                h = <<G[j], k, rets[front + stride * (j - 1) + k]>>
            BY <2>1
        <3>2. h[1] = G[j] /\ h[2] = k /\ h[3] = rets[front + stride * (j - 1) + k]
            BY ONLY <3>1
        <3> QED BY <1>1, <1>2, <1>5, <3>2
    <2>2. CASE \E j \in 1 .. dn, k \in {1, 2} :
                 h = <<D[j], k, rets[from + 2 * (j - 1) + k]>>
        <3>1. PICK j \in 1 .. dn, k \in {1, 2} :
                h = <<D[j], k, rets[from + 2 * (j - 1) + k]>>
            BY <2>2
        <3>2. h[1] = D[j] /\ h[2] = k /\ h[3] = rets[from + 2 * (j - 1) + k]
            BY ONLY <3>1
        <3> QED BY <1>1, <1>2, <1>6, <3>2
    <2> QED BY ONLY <1>4, <2>1, <2>2, h \in H
<1>8. ASSUME NEW l \in DOMAIN p, NEW k \in {1, 2}
      PROVE  \E h \in H : h[1] = l /\ h[2] = k
    <2>1. CASE p[l] = "gqa"
        <3>1. PICK j \in 1 .. gqa : G[j] = l
            BY <1>1, <1>2, <2>1
        <3>2. PICK h : h = <<G[j], k, rets[front + stride * (j - 1) + k]>>
            OBVIOUS
        <3>3. h \in H
            <4> DEFINE At(y, z) == rets[front + stride * (y - 1) + z]
            <4>1. {<<G[y], z, At(y, z)>> : y \in 1 .. gqa, z \in {1, 2}} \subseteq H
                BY ONLY <1>4
            <4>2. h = <<G[j], k, At(j, k)>>
                BY ONLY <3>2
            <4> HIDE DEF At
            <4> QED BY ONLY <4>1, <4>2, j \in 1 .. gqa, k \in {1, 2}
        <3>4. h[1] = G[j] /\ h[2] = k
            BY ONLY <3>2
        <3> QED BY ONLY <3>1, <3>3, <3>4
    <2>2. CASE p[l] = "dn"
        <3>1. PICK j \in 1 .. dn : D[j] = l
            BY <1>1, <1>2, <2>2
        <3>2. PICK h : h = <<D[j], k, rets[from + 2 * (j - 1) + k]>>
            OBVIOUS
        <3>3. h \in H
            BY ONLY <1>4, <3>2, j \in 1 .. dn, k \in {1, 2}
        <3>4. h[1] = D[j] /\ h[2] = k
            BY ONLY <3>2
        <3> QED BY ONLY <3>1, <3>3, <3>4
    <2> QED BY <1>1, <2>1, <2>2
<1> QED BY <1>7, <1>8 DEF HandedTo, H

\* The trunk's handles and the draft head's reach their layers.
LEMMA HandlesReach ==
    ASSUME NEW p \in Patterns, NEW G, NEW M, HandedTo(G, DOMAIN p) \/ G = {},
           \A h \in M : h[1] = Launches!Mtp /\ Handle(h[3], h[1], h[2]), given' = G \cup M
    PROVE  Launches!HandlesReachTheirLayer'
<1>1. p \in Seq(Types)
    BY PatternsTyped
<1>2. \A l \in DOMAIN p : l # Launches!Mtp
    BY <1>1 DEF Launches!Mtp
<1>3. \A h \in given' : Handle(h[3], h[1], h[2])
    BY DEF HandedTo
<1>4. {h[1] : h \in given'} \ {Launches!Mtp} = IF G = {} THEN {} ELSE DOMAIN p
    <2>1. CASE G = {}
        BY <2>1
    <2>2. CASE G # {}
        <3>1. HandedTo(G, DOMAIN p) /\ 1 \in {1, 2}
            BY <2>2
        <3>2. \A h \in G : h[1] \in DOMAIN p
            BY ONLY <3>1 DEF HandedTo
        <3>3. \A l \in DOMAIN p : \E h \in G : h[1] = l
            BY ONLY <3>1 DEF HandedTo
        <3> QED BY <1>2, <2>2, <3>2, <3>3
    <2> QED BY <2>1, <2>2
<1>5. \A l \in {h[1] : h \in given'} \ {Launches!Mtp}, k \in {1, 2} :
         \E h \in given' : h[1] = l /\ h[2] = k
    <2>1. CASE G = {}
        BY <1>4, <2>1
    <2>2. CASE G # {}
        <3>1. \A l \in DOMAIN p, k \in {1, 2} : \E h \in G : h[1] = l /\ h[2] = k
            BY <2>2 DEF HandedTo
        <3> QED BY <1>4, <2>2, <3>1
    <2> QED BY <2>1, <2>2
<1> DEFINE layers == {h[1] : h \in given'} \ {Launches!Mtp}
<1>6. layers \in {{}} \cup {DOMAIN pattern : pattern \in Patterns}
    BY <1>4
<1>7. (layers \X {1, 2}) \subseteq {<<h[1], h[2]>> : h \in given'}
    BY <1>5
<1>8. /\ \A h \in given' : h[3].layer = h[1]
      /\ \A h \in given' :
            h[3].field \in (IF h[2] = 1 THEN {"k_cache", "active_k", "cand_state"}
                            ELSE {"v_cache", "active_v", "conv_cand"})
    BY <1>3 DEF Handle
<1> QED BY <1>6, <1>7, <1>8 DEF Launches!HandlesReachTheirLayer

\* A verify launch's handles, split at the stride of its kind.
LEMMA VerifyReturn ==
    ASSUME BodyInv(body), body.kind = "verify", body.stage = "end"
    PROVE  HandedTo(Launches!SplitVerify(Launches!Returned, body.caller), DOMAIN body.caller)
<1> DEFINE p == body.caller
           gqa == Launches!Passes(p, "gqa", Len(p))
           dn == Launches!Passes(p, "dn", Len(p))
           front == << Launches!Tensor(Launches!Call, "tokens"),
                       Launches!Tensor(Launches!Call, "hidden") >>
           rets == front \o body.gqaOut \o body.dnOut
<1>1. Launches!Returned = rets
    BY DEF Launches!Returned
<1>2. p \in Seq(Types) /\ Len(p) \in Nat /\ Progress(body) /\ body.dn = dn /\ body.gqa = gqa
    <2>1. p \in Seq(Types) /\ Progress(body)
        BY PatternsTyped DEF BodyInv, Launches!HasTrunk
    <2> QED BY <2>1 DEF Progress
<1>3. gqa \in Nat /\ dn \in Nat
    BY <1>2 DEF Progress
<1>4. Listed(front) /\ Len(front) = 2
    BY DEF Listed
<1>5. /\ Listed(body.gqaOut) /\ Len(body.gqaOut) = 2 * gqa
      /\ \A j \in 1 .. gqa, k \in {1, 2} :
            Handle(body.gqaOut[2 * (j - 1) + k], Launches!LayersOf(p, "gqa")[j], k)
      /\ Listed(body.dnOut) /\ Len(body.dnOut) = 2 * dn
      /\ \A j \in 1 .. dn, k \in {1, 2} :
            Handle(body.dnOut[2 * (j - 1) + k], Launches!LayersOf(p, "dn")[j], k)
    BY <1>2 DEF Progress, Handles, Stride
<1> HIDE DEF front, gqa, dn
<1>6. Thirds(rets, front, body.gqaOut, body.dnOut)
    BY <1>4, <1>5, ThirdsOf
<1> HIDE DEF rets
<1>7. /\ \A n \in 1 .. 2 * gqa : rets[2 + n] = body.gqaOut[n]
      /\ \A n \in 1 .. 2 * dn : rets[2 + 2 * gqa + n] = body.dnOut[n]
    BY ONLY <1>4, <1>5, <1>6 DEF Thirds
<1>8. \A j \in 1 .. gqa, k \in {1, 2} :
          Handle(rets[2 + 2 * (j - 1) + k], Launches!LayersOf(p, "gqa")[j], k)
    <2> TAKE j \in 1 .. gqa, k \in {1, 2}
    <2>1. 2 * (j - 1) + k \in 1 .. 2 * gqa /\ 2 + 2 * (j - 1) + k = 2 + (2 * (j - 1) + k)
        BY <1>3
    <2>2. rets[2 + (2 * (j - 1) + k)] = body.gqaOut[2 * (j - 1) + k]
        BY <1>7, <2>1
    <2> QED BY <1>5, <2>1, <2>2
<1>9. \A j \in 1 .. dn, k \in {1, 2} :
          Handle(rets[2 + 2 * gqa + 2 * (j - 1) + k], Launches!LayersOf(p, "dn")[j], k)
    <2> TAKE j \in 1 .. dn, k \in {1, 2}
    <2>1. /\ 2 * (j - 1) + k \in 1 .. 2 * dn
          /\ 2 + 2 * gqa + 2 * (j - 1) + k = 2 + 2 * gqa + (2 * (j - 1) + k)
        BY <1>3
    <2>2. rets[2 + 2 * gqa + (2 * (j - 1) + k)] = body.dnOut[2 * (j - 1) + k]
        BY <1>7, <2>1
    <2> QED BY <1>5, <2>1, <2>2
<1>10. HandedTo(Launches!Handed(rets, 2, 2, p), DOMAIN p)
    BY <1>2, <1>8, <1>9, HandedRight DEF gqa, dn
<1> QED BY <1>1, <1>10 DEF Launches!SplitVerify

\* A round's handles, with the draft head's behind those of the trunk.
LEMMA RoundReturn ==
    ASSUME BodyInv(body), body.kind = "round", body.stage = "end"
    PROVE  \E G, M : /\ Launches!SplitRound(Launches!Returned, body.caller) = G \cup M
                     /\ HandedTo(G, DOMAIN body.caller)
                     /\ \A h \in M : h[1] = Launches!Mtp /\ Handle(h[3], h[1], h[2])
<1> DEFINE p == body.caller
           gqa == Launches!Passes(p, "gqa", Len(p))
           dn == Launches!Passes(p, "dn", Len(p))
           front == << Launches!Tensor(Launches!Call, "cand_token"),
                       Launches!Tensor(Launches!Call, "tokens"),
                       Launches!Tensor(Launches!Call, "hidden") >>
           tail == << Launches!Tensor(Launches!Mtp, "k_cache"),
                      Launches!Tensor(Launches!Mtp, "v_cache"),
                      Launches!Tensor(Launches!Stage("d1"), "active_k"),
                      Launches!Tensor(Launches!Stage("d1"), "active_v"),
                      Launches!Tensor(Launches!Stage("d2"), "active_k"),
                      Launches!Tensor(Launches!Stage("d2"), "active_v") >>
           trunk == front \o body.gqaOut \o body.dnOut
           rets == trunk \o tail
<1>1. Launches!Returned = rets
    BY DEF Launches!Returned
<1>2. p \in Seq(Types) /\ Len(p) \in Nat /\ Progress(body) /\ body.dn = dn /\ body.gqa = gqa
    <2>1. p \in Seq(Types) /\ Progress(body)
        BY PatternsTyped DEF BodyInv, Launches!HasTrunk
    <2> QED BY <2>1 DEF Progress
<1>3. gqa \in Nat /\ dn \in Nat /\ Launches!Count(p, "gqa") = gqa /\ Launches!Count(p, "dn") = dn
    <2>1. "dn" \in Types /\ "gqa" \in Types
        BY DEF Types
    <2>2. Launches!Count(p, "gqa") = gqa /\ Launches!Count(p, "dn") = dn
        BY <1>2, <2>1, LayersListed
    <2> QED BY <1>2, <2>2 DEF Progress
<1>4. Listed(front) /\ Len(front) = 3
    BY DEF Listed
<1>5. /\ Listed(body.gqaOut) /\ Len(body.gqaOut) = 4 * gqa
      /\ \A j \in 1 .. gqa, k \in {1, 2} :
            Handle(body.gqaOut[4 * (j - 1) + k], Launches!LayersOf(p, "gqa")[j], k)
      /\ Listed(body.dnOut) /\ Len(body.dnOut) = 2 * dn
      /\ \A j \in 1 .. dn, k \in {1, 2} :
            Handle(body.dnOut[2 * (j - 1) + k], Launches!LayersOf(p, "dn")[j], k)
    BY <1>2 DEF Progress, Handles, Stride
<1>6. /\ Listed(tail) /\ Len(tail) = 6
      /\ Handle(tail[1], Launches!Mtp, 1) /\ Handle(tail[2], Launches!Mtp, 2)
    BY DEF Listed, Handle, Launches!Tensor
<1> HIDE DEF front, gqa, dn, tail
<1>7. Thirds(trunk, front, body.gqaOut, body.dnOut)
    BY <1>4, <1>5, ThirdsOf
<1> HIDE DEF trunk
<1>8. Listed(trunk) /\ Len(trunk) = 3 + 4 * gqa + 2 * dn
    BY ONLY <1>4, <1>5, <1>7 DEF Thirds
<1>9. Joined(rets, trunk, tail)
    BY <1>6, <1>8, ListedJoined
<1> HIDE DEF rets
<1>10. /\ \A n \in 1 .. 4 * gqa : rets[3 + n] = body.gqaOut[n]
       /\ \A n \in 1 .. 2 * dn : rets[3 + 4 * gqa + n] = body.dnOut[n]
    <2>1. ASSUME NEW n \in 1 .. 4 * gqa PROVE rets[3 + n] = body.gqaOut[n]
        <3>1. trunk[3 + n] = body.gqaOut[n]
            BY ONLY <1>4, <1>5, <1>7, n \in 1 .. 4 * gqa DEF Thirds
        <3>2. 3 + n \in 1 .. Len(trunk)
            BY <1>3, <1>8
        <3> QED BY ONLY <1>9, <3>1, <3>2 DEF Joined
    <2>2. ASSUME NEW n \in 1 .. 2 * dn PROVE rets[3 + 4 * gqa + n] = body.dnOut[n]
        <3>1. trunk[3 + 4 * gqa + n] = body.dnOut[n]
            BY ONLY <1>4, <1>5, <1>7, n \in 1 .. 2 * dn DEF Thirds
        <3>2. 3 + 4 * gqa + n \in 1 .. Len(trunk)
            BY <1>3, <1>8
        <3> QED BY ONLY <1>9, <3>1, <3>2 DEF Joined
    <2> QED BY <2>1, <2>2
<1>11. \A k \in {1, 2} : Handle(rets[3 + 4 * gqa + 2 * dn + k], Launches!Mtp, k)
    <2> TAKE k \in {1, 2}
    <2>1. rets[Len(trunk) + k] = tail[k]
        BY <1>6, <1>9 DEF Joined
    <2> QED BY <1>6, <1>8, <2>1
<1>12. \A j \in 1 .. gqa, k \in {1, 2} :
          Handle(rets[3 + 4 * (j - 1) + k], Launches!LayersOf(p, "gqa")[j], k)
    <2> TAKE j \in 1 .. gqa, k \in {1, 2}
    <2>1. 4 * (j - 1) + k \in 1 .. 4 * gqa /\ 3 + 4 * (j - 1) + k = 3 + (4 * (j - 1) + k)
        BY <1>3
    <2>2. rets[3 + (4 * (j - 1) + k)] = body.gqaOut[4 * (j - 1) + k]
        BY <1>10, <2>1
    <2> QED BY <1>5, <2>1, <2>2
<1>13. \A j \in 1 .. dn, k \in {1, 2} :
          Handle(rets[3 + 4 * gqa + 2 * (j - 1) + k], Launches!LayersOf(p, "dn")[j], k)
    <2> TAKE j \in 1 .. dn, k \in {1, 2}
    <2>1. /\ 2 * (j - 1) + k \in 1 .. 2 * dn
          /\ 3 + 4 * gqa + 2 * (j - 1) + k = 3 + 4 * gqa + (2 * (j - 1) + k)
        BY <1>3
    <2>2. rets[3 + 4 * gqa + (2 * (j - 1) + k)] = body.dnOut[2 * (j - 1) + k]
        BY <1>10, <2>1
    <2> QED BY <1>5, <2>1, <2>2
<1>14. HandedTo(Launches!Handed(rets, 3, 4, p), DOMAIN p)
    BY <1>2, <1>12, <1>13, HandedRight DEF gqa, dn
<1> DEFINE M == {<<Launches!Mtp, k, rets[3 + 4 * gqa + 2 * dn + k]>> : k \in {1, 2}}
<1>15. Launches!SplitRound(rets, p) = Launches!Handed(rets, 3, 4, p) \cup M
    BY <1>3 DEF Launches!SplitRound
<1>16. \A h \in M : h[1] = Launches!Mtp /\ Handle(h[3], h[1], h[2])
    BY <1>11
<1> HIDE DEF M
<1> QED BY <1>1, <1>14, <1>15, <1>16

\* A draft's or a replay's.
LEMMA DraftReturn ==
    ASSUME BodyInv(body), body.kind \in {"draft", "replay"}
    PROVE  \A h \in Launches!SplitDraft(Launches!Returned, body.kind = "draft") :
              h[1] = Launches!Mtp /\ Handle(h[3], h[1], h[2])
<1> DEFINE head == body.kind = "draft"
           first == IF head THEN << Launches!Tensor(Launches!Call, "tokens") >> ELSE << >>
           tail == << Launches!Tensor(Launches!Call, "hidden"),
                      Launches!Tensor(Launches!Mtp, "k_cache"),
                      Launches!Tensor(Launches!Mtp, "v_cache"),
                      Launches!Tensor(Launches!Stage("d1"), "active_k"),
                      Launches!Tensor(Launches!Stage("d1"), "active_v") >>
           rets == first \o tail
           front == IF head THEN 2 ELSE 1
<1>1. Launches!Returned = rets
    BY DEF Launches!Returned
<1>2. Listed(first) /\ Len(first) = front - 1
    <2>1. CASE head
        <3>1. first = << Launches!Tensor(Launches!Call, "tokens") >> /\ front = 2
            BY <2>1
        <3> HIDE DEF first, front, head
        <3> QED BY ONLY <3>1 DEF Listed
    <2>2. CASE ~head
        <3>1. first = << >> /\ front = 1
            BY <2>2
        <3> HIDE DEF first, front, head
        <3> QED BY ONLY <3>1 DEF Listed
    <2> QED BY <2>1, <2>2
<1>3. /\ Listed(tail) /\ Len(tail) = 5
      /\ Handle(tail[2], Launches!Mtp, 1) /\ Handle(tail[3], Launches!Mtp, 2)
    BY DEF Listed, Handle, Launches!Tensor
<1>4. front \in {1, 2}
    OBVIOUS
<1> HIDE DEF first, tail
<1>5. Joined(rets, first, tail)
    BY <1>2, <1>3, ListedJoined
<1>6. Launches!SplitDraft(rets, head) = {<<Launches!Mtp, k, rets[front + k]>> : k \in {1, 2}}
    BY DEF Launches!SplitDraft
<1> HIDE DEF rets, front
<1>7. \A k \in {1, 2} : rets[front + k] = tail[1 + k]
    <2> TAKE k \in {1, 2}
    <2>1. front + k = Len(first) + (1 + k) /\ 1 + k \in 1 .. Len(tail)
        BY <1>2, <1>3, <1>4
    <2> QED BY <1>5, <2>1 DEF Joined
<1>8. \A k \in {1, 2} : Handle(rets[front + k], Launches!Mtp, k)
    BY <1>3, <1>7
<1> QED BY <1>1, <1>6, <1>8

\* The host splits what the launch returns.
LEMMA ReturnStep ==
    ASSUME LaunchInv, Launches!Return
    PROVE  LaunchInv'
<1>1. /\ body # Launches!NoBody /\ body.stage = "end" /\ body' = Launches!NoBody
      /\ UNCHANGED <<built, launches, reads>>
      /\ given' = CASE body.kind = "verify" ->
                          Launches!SplitVerify(Launches!Returned, body.caller)
                    [] body.kind = "round" ->
                          Launches!SplitRound(Launches!Returned, body.caller)
                    [] OTHER -> Launches!SplitDraft(Launches!Returned, body.kind = "draft")
    BY DEF Launches!Return
<1>2. BodyInv(body) /\ body.caller \in Patterns /\ body.kind \in Launches!Kinds
    BY <1>1, HasLaunched DEF BodyInv
<1>3. \E G, M : /\ given' = G \cup M /\ (HandedTo(G, DOMAIN body.caller) \/ G = {})
                /\ \A h \in M : h[1] = Launches!Mtp /\ Handle(h[3], h[1], h[2])
    <2>1. CASE body.kind = "verify"
        <3>1. given' = Launches!SplitVerify(Launches!Returned, body.caller)
            BY <1>1, <2>1
        <3>2. HandedTo(given', DOMAIN body.caller)
            BY <1>1, <1>2, <2>1, <3>1, VerifyReturn
        <3>3. PICK g : g = given'
            OBVIOUS
        <3>4. PICK m : m = {}
            OBVIOUS
        <3>5. given' = g \cup m /\ HandedTo(g, DOMAIN body.caller)
            BY <3>2, <3>3, <3>4
        <3>6. \A h \in m : h[1] = Launches!Mtp /\ Handle(h[3], h[1], h[2])
            BY ONLY <3>4
        <3> WITNESS g, m
        <3> QED BY ONLY <3>5, <3>6
    <2>2. CASE body.kind = "round"
        <3>1. given' = Launches!SplitRound(Launches!Returned, body.caller)
            BY <1>1, <2>2
        <3> QED BY <1>1, <1>2, <2>2, <3>1, RoundReturn
    <2>3. CASE body.kind \in {"draft", "replay"}
        <3>1. given' = Launches!SplitDraft(Launches!Returned, body.kind = "draft")
            BY <1>1, <2>3
        <3>2. \A h \in given' : h[1] = Launches!Mtp /\ Handle(h[3], h[1], h[2])
            BY <1>2, <2>3, <3>1, DraftReturn
        <3>3. given' = {} \cup given'
            OBVIOUS
        <3> QED BY <3>2, <3>3
    <2> QED BY <1>2, <2>1, <2>2, <2>3 DEF Launches!Kinds
<1>4. Launches!HandlesReachTheirLayer'
    BY <1>2, <1>3, HandlesReach
<1>5. Launches!ReadsItsOwnTensors' /\ BuiltInv'
    BY <1>1 DEF LaunchInv, Launches!ReadsItsOwnTensors, BuiltInv
<1> QED BY <1>1, <1>4, <1>5 DEF LaunchInv

\* The invariant is inductive.
LEMMA LaunchesStep == LaunchInv /\ [Launches!Next]_Launches!vars => LaunchInv'
<1> SUFFICES ASSUME LaunchInv, [Launches!Next]_Launches!vars PROVE LaunchInv'
    OBVIOUS
<1>1. CASE \E kind \in Launches!Kinds, p \in Patterns : Launches!Launch(kind, p)
    BY <1>1, LaunchStep
<1>2. CASE Launches!DraftStage
    BY <1>2, DraftStageStep
<1>3. CASE Launches!Replay
    BY <1>3, ReplayStep
<1>4. CASE Launches!GqaLayer
    BY <1>4, GqaLayerStep
<1>5. CASE Launches!DnLayer
    BY <1>5, DnLayerStep
<1>6. CASE Launches!TrunkDone
    BY <1>6, TrunkDoneStep
<1>7. CASE Launches!Return
    BY <1>7, ReturnStep
<1>8. CASE UNCHANGED Launches!vars
    <2>1. UNCHANGED <<built, launches, body, reads, given>>
        BY <1>8 DEF Launches!vars
    <2>2. BuiltInv'
        BY <2>1 DEF LaunchInv, BuiltInv
    <2>3. body' = Launches!NoBody \/ BodyInv(body)'
        BY <2>1 DEF LaunchInv, BodyInv, Progress
    <2>4. Launches!ReadsItsOwnTensors' /\ Launches!HandlesReachTheirLayer'
        BY <2>1 DEF LaunchInv, Launches!ReadsItsOwnTensors, Launches!HandlesReachTheirLayer
    <2> QED BY <2>2, <2>3, <2>4 DEF LaunchInv
<1> QED BY <1>1, <1>2, <1>3, <1>4, <1>5, <1>6, <1>7, <1>8 DEF Launches!Next

\* A step of Host that runs the launches is one of theirs.
LEMMA LaunchesOnly ==
    ASSUME [Next]_vars, Run("launches")
    PROVE  [Launches!Next]_Launches!vars
BY DEF Next, Run, vars, launchOnly, Launches!vars

\* Whatever patterns of layers a process launches, and in which order, every
\* stage and layer computes with its own tensors and gets back its own handles
\* (flatten_*_args, build_*_megakernel, split_*_returns).
THEOREM TensorsAreOwn == Spec => []ReadsItsOwnTensors
<1>1. Init => (Run("launches") => LaunchInv)
    BY LaunchInit DEF Init, Run
<1>2. (Run("launches") => LaunchInv) /\ [Next]_vars => (Run("launches") => LaunchInv)'
    <2> SUFFICES ASSUME Run("launches") => LaunchInv, [Next]_vars, Run("launches")'
                 PROVE  LaunchInv'
        OBVIOUS
    <2>1. Run("launches")
        BY SamePart DEF Run
    <2> QED BY <2>1, LaunchesOnly, LaunchesStep
<1>3. (Run("launches") => LaunchInv) => ReadsItsOwnTensors
    BY DEF LaunchInv, ReadsItsOwnTensors
<1> QED BY <1>1, <1>2, <1>3, PTL DEF Spec

(***************************************************************************)
(* The hybrid cache, filled by chunks and by whole prompts.                  *)
(***************************************************************************)
ByChunks == INSTANCE HybridCacheProofs WITH
    Width <- ChunkWidth, MaxLen <- ChunkMaxLen, Chunked <- TRUE, PadPosition <- One
ByPrompts == INSTANCE HybridCacheProofs WITH
    Width <- PromptWidth, MaxLen <- PromptMaxLen, Chunked <- FALSE, PadPosition <- One

\* The part that runs makes all of the steps.
LEMMA OnePart ==
    ASSUME [Next]_vars
    PROVE  /\ running' = running
           /\ Run("chunks") => Chunks!Next \/ UNCHANGED ByChunks!vars
           /\ Run("whole") => Whole!Next \/ UNCHANGED ByPrompts!vars
<1> USE DEF Next, Run
<1>1. running' = running
    BY SamePart
<1>2. Run("chunks") => Chunks!Next \/ UNCHANGED ByChunks!vars
    BY DEF vars, cacheOnly, ByChunks!vars
<1>3. Run("whole") => Whole!Next \/ UNCHANGED ByPrompts!vars
    BY DEF vars, cacheOnly, ByPrompts!vars
<1> QED BY <1>1, <1>2, <1>3

(***************************************************************************)
(* Prefill by chunks.                                                       *)
(***************************************************************************)

\* The assumptions of Host are those of the theorems.
LEMMA ByChunksConstants == ByChunks!Constants
<1>1. ByChunks!SizeAssumption
    BY CacheAssumption DEF Chunks!SizeAssumption, ByChunks!SizeAssumption
<1>2. ByChunks!PadPositionAssumption
    BY DEF ByChunks!PadPositionAssumption, One
<1> QED BY <1>1, <1>2 DEF ByChunks!Constants

\* Chunks and ByChunks are one machine: both instantiate the definitions of HybridCache.
LEMMA ByChunksInit == Chunks!Init <=> ByChunks!Init
BY DEF Chunks!Init, ByChunks!Init, Chunks!Row, ByChunks!Row, Chunks!Position,
    ByChunks!Position, Chunks!Empty, ByChunks!Empty, Chunks!NoCall,
    ByChunks!NoCall

\* And so are their steps.
LEMMA ByChunksNext == Chunks!Next <=> ByChunks!Next
BY DEF Chunks!Next, ByChunks!Next, Chunks!NewRequest, ByChunks!NewRequest,
    Chunks!BeginPrefill, ByChunks!BeginPrefill, Chunks!EncodeGroup,
    ByChunks!EncodeGroup, Chunks!Decode, ByChunks!Decode, Chunks!NoCall,
    ByChunks!NoCall, Chunks!Position, ByChunks!Position, Chunks!Column,
    ByChunks!Column, Chunks!Tok, ByChunks!Tok, Chunks!Row, ByChunks!Row,
    Chunks!CacheIndex, ByChunks!CacheIndex, Chunks!PadSeq, ByChunks!PadSeq,
    Chunks!LaunchRows, ByChunks!LaunchRows, Chunks!Pos, ByChunks!Pos,
    Chunks!Rotary, ByChunks!Rotary, Chunks!Given, ByChunks!Given, Chunks!Pad,
    ByChunks!Pad, Chunks!PadsMeet, ByChunks!PadsMeet, Chunks!NewKey, ByChunks!NewKey, Chunks!Pick,
    ByChunks!Pick, Chunks!Scatter, ByChunks!Scatter, Chunks!LocalKeys,
    ByChunks!LocalKeys, Chunks!KeptKeys, ByChunks!KeptKeys, Chunks!Seed,
    ByChunks!Seed, Chunks!Stepped, ByChunks!Stepped, Chunks!LastIndex,
    ByChunks!LastIndex, Chunks!SeenKeys, ByChunks!SeenKeys, Chunks!Output,
    ByChunks!Output, Chunks!Returned, ByChunks!Returned, Chunks!Senders,
    ByChunks!Senders, Chunks!KeysAfter, ByChunks!KeysAfter, Chunks!StatesAfter,
    ByChunks!StatesAfter, Chunks!Min, ByChunks!Min, Chunks!Max, ByChunks!Max

\* And their properties, which the invariant of the theorems gives.
LEMMA ByChunksProperties ==
    ASSUME ByChunks!CacheInv
    PROVE  Chunks!RowsHoldTheirSequence /\ Chunks!OutputsAreSequences
<1>1. /\ Chunks!RowsHoldTheirSequence <=> ByChunks!RowsHoldTheirSequence
      /\ Chunks!OutputsAreSequences <=> ByChunks!OutputsAreSequences
      /\ Chunks!KeysRotatedInPlace <=> ByChunks!KeysRotatedInPlace
    BY DEF
        Chunks!RowsHoldTheirSequence, ByChunks!RowsHoldTheirSequence,
        Chunks!OutputsAreSequences, ByChunks!OutputsAreSequences,
        Chunks!KeysRotatedInPlace, ByChunks!KeysRotatedInPlace, Chunks!History,
        ByChunks!History, Chunks!Tok, ByChunks!Tok, Chunks!NoCall,
        ByChunks!NoCall
<1>2. ByChunks!RowsHoldTheirSequence /\ ByChunks!OutputsAreSequences
    BY ByChunksConstants, ByChunks!CacheInvImplies
<1> QED BY <1>1, <1>2

(***************************************************************************)
(* Prefill by whole prompts.                                                *)
(***************************************************************************)

\* The assumptions of Host are those of the theorems.
LEMMA ByPromptsConstants == ByPrompts!Constants
<1>1. ByPrompts!SizeAssumption
    BY CacheAssumption DEF Whole!SizeAssumption, ByPrompts!SizeAssumption
<1>2. ByPrompts!PadPositionAssumption
    BY DEF ByPrompts!PadPositionAssumption, One
<1> QED BY <1>1, <1>2 DEF ByPrompts!Constants

\* Whole and ByPrompts are one machine: both instantiate the definitions of HybridCache.
LEMMA ByPromptsInit == Whole!Init <=> ByPrompts!Init
BY DEF Whole!Init, ByPrompts!Init, Whole!Row, ByPrompts!Row, Whole!Position,
    ByPrompts!Position, Whole!Empty, ByPrompts!Empty, Whole!NoCall,
    ByPrompts!NoCall

\* And so are their steps.
LEMMA ByPromptsNext == Whole!Next <=> ByPrompts!Next
BY DEF Whole!Next, ByPrompts!Next, Whole!NewRequest, ByPrompts!NewRequest,
    Whole!BeginPrefill, ByPrompts!BeginPrefill, Whole!EncodeGroup,
    ByPrompts!EncodeGroup, Whole!Decode, ByPrompts!Decode, Whole!NoCall,
    ByPrompts!NoCall, Whole!Position, ByPrompts!Position, Whole!Column,
    ByPrompts!Column, Whole!Tok, ByPrompts!Tok, Whole!Row, ByPrompts!Row,
    Whole!CacheIndex, ByPrompts!CacheIndex, Whole!PadSeq, ByPrompts!PadSeq,
    Whole!LaunchRows, ByPrompts!LaunchRows, Whole!Pos, ByPrompts!Pos,
    Whole!Rotary, ByPrompts!Rotary, Whole!Given, ByPrompts!Given, Whole!Pad,
    ByPrompts!Pad, Whole!PadsMeet, ByPrompts!PadsMeet, Whole!NewKey, ByPrompts!NewKey, Whole!Pick,
    ByPrompts!Pick, Whole!Scatter, ByPrompts!Scatter, Whole!LocalKeys,
    ByPrompts!LocalKeys, Whole!KeptKeys, ByPrompts!KeptKeys, Whole!Seed,
    ByPrompts!Seed, Whole!Stepped, ByPrompts!Stepped, Whole!LastIndex,
    ByPrompts!LastIndex, Whole!SeenKeys, ByPrompts!SeenKeys, Whole!Output,
    ByPrompts!Output, Whole!Returned, ByPrompts!Returned, Whole!Senders,
    ByPrompts!Senders, Whole!KeysAfter, ByPrompts!KeysAfter, Whole!StatesAfter,
    ByPrompts!StatesAfter, Whole!Min, ByPrompts!Min, Whole!Max, ByPrompts!Max

\* And their properties, which the invariant of the theorems gives.
LEMMA ByPromptsProperties ==
    ASSUME ByPrompts!CacheInv
    PROVE  Whole!RowsHoldTheirSequence /\ Whole!OutputsAreSequences /\ Whole!KeysRotatedInPlace
<1>1. /\ Whole!RowsHoldTheirSequence <=> ByPrompts!RowsHoldTheirSequence
      /\ Whole!OutputsAreSequences <=> ByPrompts!OutputsAreSequences
      /\ Whole!KeysRotatedInPlace <=> ByPrompts!KeysRotatedInPlace
    BY DEF
        Whole!RowsHoldTheirSequence, ByPrompts!RowsHoldTheirSequence,
        Whole!OutputsAreSequences, ByPrompts!OutputsAreSequences,
        Whole!KeysRotatedInPlace, ByPrompts!KeysRotatedInPlace, Whole!History,
        ByPrompts!History, Whole!Tok, ByPrompts!Tok, Whole!NoCall,
        ByPrompts!NoCall
<1>2. ByPrompts!RowsHoldTheirSequence /\ ByPrompts!OutputsAreSequences
        /\ ByPrompts!KeysRotatedInPlace
    BY ByPromptsConstants, ByPrompts!CacheInvImplies
<1> QED BY <1>1, <1>2

(***************************************************************************)
(* The batches of the hybrid cache.                                         *)
(***************************************************************************)
BatchInv ==
    /\ Run("chunks") => ByChunks!CacheInv
    /\ Run("whole") => ByPrompts!CacheInv

\* However requests are batched, cut into chunks and launches and padded, a
\* sequence's row holds its own tokens between calls, and a call returns one
\* output per sequence, in order, of that sequence's whole past, but for those
\* the pads at position 1 met a token of; they spoil no other's
\* (_get_model_outputs, perform_qwen_chunked_prefill, the hybrid cache manager).
THEOREM BatchesAreSequences == Spec => []OutputsAreSequences
<1>1. Init => BatchInv
    <2> SUFFICES ASSUME Init PROVE BatchInv
        OBVIOUS
    <2>1. Run("chunks") => Chunks!Init
        BY DEF Init, Run
    <2>2. Run("whole") => Whole!Init
        BY DEF Init, Run
    <2>3. ByChunks!Init => ByChunks!CacheInv
        BY ByChunksConstants, ByChunks!CacheInit
    <2>4. ByPrompts!Init => ByPrompts!CacheInv
        BY ByPromptsConstants, ByPrompts!CacheInit
    <2> QED BY <2>1, <2>2, <2>3, <2>4, ByChunksInit, ByPromptsInit DEF BatchInv
<1>2. BatchInv /\ [Next]_vars => BatchInv'
    <2> SUFFICES ASSUME BatchInv, [Next]_vars PROVE BatchInv'
        OBVIOUS
    <2>1. ByChunks!CacheInv /\ [ByChunks!Next]_ByChunks!vars => ByChunks!CacheInv'
        BY ByChunksConstants, ByChunks!CacheStep
    <2>2. ByPrompts!CacheInv /\ [ByPrompts!Next]_ByPrompts!vars => ByPrompts!CacheInv'
        BY ByPromptsConstants, ByPrompts!CacheStep
    <2> QED BY <2>1, <2>2, OnePart, ByChunksNext, ByPromptsNext DEF BatchInv, Run
<1>3. BatchInv => OutputsAreSequences
    BY ByChunksProperties, ByPromptsProperties DEF BatchInv, OutputsAreSequences
<1> QED BY <1>1, <1>2, <1>3, PTL DEF Spec
=============================================================================
