----------------------------- MODULE GreedyDecode -----------------------------
(***************************************************************************)
(* What a user of the speculative decoder is promised: a request answers    *)
(* its prompt with the trunk's own greedy continuation, one to SpecLen      *)
(* tokens at a time, and ends.  No caches, no drafter, no rounds.           *)
(***************************************************************************)
EXTENDS Integers, Sequences

CONSTANTS Prompts, SpecLen, Target(_)

VARIABLES
    busy,       \* a request is being answered
    out         \* its prompt and the answer so far

Init == busy = FALSE /\ out = <<>>

Begin ==
    /\ ~busy /\ busy' = TRUE
    /\ \E prompt \in Prompts : out' = Append(prompt, Target(prompt))

\* Greedy continuation by k tokens.
Continues(k) ==
    /\ Len(out') = Len(out) + k
    /\ SubSeq(out', 1, Len(out)) = out
    /\ \A i \in Len(out) + 1 .. Len(out') : out'[i] = Target(SubSeq(out', 1, i - 1))

Emit == busy /\ busy' = busy /\ \E k \in 1 .. SpecLen : Continues(k)

End == busy /\ busy' = FALSE /\ UNCHANGED out

Next == Begin \/ Emit \/ End

Safety == Init /\ [][Next]_<<busy, out>>

Spec == Safety /\ WF_<<busy, out>>(End)
=============================================================================
