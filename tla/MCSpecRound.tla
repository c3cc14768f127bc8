----------------------------- MODULE MCSpecRound -----------------------------
(* TLC instance of SpecRound: three tokens of which one ends a sequence, an *)
(* eight-slot window, and two heads that agree on about half the histories. *)
EXTENDS SpecRound, SequencesExt

Weighted(h) == FoldLeftDomain(LAMBDA acc, i : acc + (i + 1) * h[i] * h[i], Len(h), h)

\* A trunk whose next token depends on the whole history; 2 ends a sequence.
MCTarget(h) ==
    IF Weighted(h) % 11 = 0 THEN 2 ELSE IF (Weighted(h) \div 2) % 2 = 0 THEN 0 ELSE 1

\* A drafter that agrees with the trunk on two histories out of three.
MCDraftHead(h) == IF Weighted(h) % 3 = 0 THEN (MCTarget(h) + 1) % 3 ELSE MCTarget(h)

\* Nine prompts of three tokens, and prompts that leave room for three, two
\* and one token.
MCPrompts ==
    {p \in [1 .. MinPrompt -> Token] : p[1] = 1}
        \cup {[i \in 1 .. n |-> (i * k) % 3] : n \in SeqLen - 3 .. SeqLen - 1, k \in 1 .. 2}
=============================================================================
