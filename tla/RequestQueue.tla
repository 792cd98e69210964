----------------------------- MODULE RequestQueue -----------------------------
(***************************************************************************)
(* The requests a page of the client has under way, a sequence in the      *)
(* order they were sent.                                                   *)
(***************************************************************************)
EXTENDS Integers, Sequences

\* The requests at the places in kept, when the others are dropped with the
\* page.  (SelectSeq by place; written as a recursive function, which the prover
\* can expand.)
Keep(sent, kept) ==
    LET rest[n \in 0..Len(sent)] ==
            IF n = 0 THEN << >>
            ELSE IF n \in kept THEN Append(rest[n - 1], sent[n]) ELSE rest[n - 1]
    IN  rest[Len(sent)]
=============================================================================
