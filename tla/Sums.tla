-------------------------------- MODULE Sums --------------------------------
(***************************************************************************)
(* Sums and orders over the finite maps the ledgers are made of.           *)
(***************************************************************************)
EXTENDS Integers, FiniteSets, FiniteSetsExt

\* The sum of f over a set.
SumOf(f, S) == MapThenSumSet(LAMBDA a : f[a], S)

Larger(a, b) == IF a < b THEN b ELSE a

Smaller(a, b) == IF a < b THEN a ELSE b

\* The position of a number in the ascending order of a set.
Rank(a, S) == Cardinality({b \in S : b < a})

=============================================================================
