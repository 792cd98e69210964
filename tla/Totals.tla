-------------------------------- MODULE Totals --------------------------------
(***************************************************************************)
(* SUM over the rows of a table.                                           *)
(***************************************************************************)
EXTENDS Integers, FiniteSets

\* The elements of a finite set, each once, in some order.
Listing(D) ==
    CHOOSE s \in [1..Cardinality(D) -> D] :
        /\ \A i, j \in 1..Cardinality(D) : s[i] = s[j] => i = j
        /\ \A x \in D : \E i \in 1..Cardinality(D) : s[i] = x

\* The sum of the values of f, a function from a finite set to integers.
SumOf(f) ==
    LET row == Listing(DOMAIN f)
        n == Cardinality(DOMAIN f)
        sum[k \in 0..n] == IF k = 0 THEN 0 ELSE sum[k - 1] + f[row[k]]
    IN  sum[n]
=============================================================================
