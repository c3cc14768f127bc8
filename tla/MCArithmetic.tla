---------------------------- MODULE MCArithmetic ----------------------------
(* TLC instance of Arithmetic: every part on a small launch, two ranks.       *)
EXTENDS Arithmetic

\* Cores of three columns, searched in chunks of two: flat rows, and a peak on
\* two columns that meet in a chunk, in a core, in a rank or across ranks.  On
\* one core per rank: every row of two values.
Peaks == {S2 \in SUBSET {0, 1, 4, 6, 11} : Cardinality(S2) = 2}
MCTwoCoreRows == {[i \in 0 .. 11 |-> IF i \in S2 THEN 1 ELSE 0] : S2 \in Peaks \cup {{}}}
MCOneCoreRows == [0 .. 5 -> 0 .. 1]

\* One token (split by hidden block), two and three tokens (split by token,
\* evenly and not), and a launch on one core; odd and even numbers of selected
\* experts for the two-slot ring.
Shape(t, k, prgs) == [T |-> t, K |-> k, prgs |-> prgs, big |-> FALSE]
MCShapes == {Shape(1, 3, 2), Shape(1, 4, 2), Shape(2, 3, 2), Shape(3, 3, 2), Shape(2, 2, 1)}

\* Integers modulo 5 with 2 for e, chunks of three and four tokens.  Keys that
\* overlap, gates that are neither 0 nor 1, one decay that alone stays in range
\* and twice does not.
Tok(q1, q2, k1, k2, v, b, g) == [q |-> <<q1, q2>>, k |-> <<k1, k2>>, v |-> <<v>>, b |-> b, g |-> g]
MCKinds == {Tok(1, 2, 1, 0, 3, 2, -1), Tok(3, 1, 1, 1, 1, 4, 0),
            Tok(2, 2, 4, 2, 4, 3, -3)}
MCStarts == {<<<<0>>, <<0>>>>, <<<<3>>, <<1>>>>}

\* A tile of four tokens, four experts of which two are chosen, no two equal.
\* Both layouts of x in HBM and three of x in SBUF; two, three, four and more
\* tokens, on one core and two, sharded or not; column tiles of a quarter, a half
\* and the whole array; every pipeline of activation, choice, norm and scatter.
MCLogit(t, e) == ((t * 5 + e * 3) % 7) * 4 + e
MCBias(e) == 6 * (e % 2)
Routed(t, ht, x, layout, cores) ==
    [T |-> t, ht |-> ht, x |-> x, layout |-> layout, cores |-> cores, bias |-> FALSE,
     columns |-> FALSE, pre |-> FALSE, norm |-> FALSE, act |-> "softmax", indirect |-> FALSE,
     eager |-> FALSE, shard |-> FALSE, affSb |-> TRUE, idxSb |-> TRUE]
ToHbm(l) == [l EXCEPT !.affSb = FALSE, !.idxSb = FALSE]
Normed(l) == [l EXCEPT !.pre = TRUE, !.norm = TRUE]
Sharded(l) == [l EXCEPT !.shard = TRUE]
MCLaunches ==
    { [Routed(1, 2, "sb", 0, 1) EXCEPT !.bias = TRUE],
      [Routed(1, 2, "sb", 0, 1) EXCEPT !.columns = TRUE, !.bias = TRUE, !.eager = TRUE],
      Routed(2, 2, "sb", 1, 2),
      [Normed(Routed(3, 2, "sb", 1, 2)) EXCEPT !.eager = TRUE],
      [Sharded(Routed(3, 4, "sb", 1, 2)) EXCEPT !.eager = TRUE, !.columns = TRUE],
      [Sharded(Normed(Routed(4, 4, "sb", 2, 2))) EXCEPT !.eager = TRUE, !.columns = TRUE],
      [ToHbm(Routed(5, 2, "TH", 0, 1)) EXCEPT !.pre = TRUE],
      [ToHbm(Routed(6, 1, "HT", 0, 2)) EXCEPT !.pre = TRUE, !.bias = TRUE, !.columns = TRUE],
      [Sharded(ToHbm(Routed(8, 2, "TH", 0, 2))) EXCEPT !.idxSb = TRUE],
      [Sharded(ToHbm(Routed(8, 2, "TH", 0, 2))) EXCEPT !.indirect = TRUE, !.act = "sigmoid"],
      [Normed(ToHbm(Routed(8, 2, "TH", 0, 2))) EXCEPT !.indirect = TRUE],
      [Sharded(Normed(ToHbm(Routed(11, 1, "HT", 0, 2)))) EXCEPT !.act = "sigmoid"] }
=============================================================================
