-------------------------------- MODULE Sums --------------------------------
(***************************************************************************)
(* The sum of a finite table of natural amounts, as the number of units    *)
(* the table holds: the table f holds the units <<a, 1>>, ..., <<a, f[a]>> *)
(* for each of its keys a.  Counting units instead of folding + over the   *)
(* keys keeps the facts below within reach of the theorems on cardinality. *)
(***************************************************************************)
EXTENDS Integers, FiniteSets

Units(f) == UNION { {a} \X (1..f[a]) : a \in DOMAIN f }

SumOver(f) == Cardinality(Units(f))

\* The sum of the entries of f, which may be negative, over the keys in S.
SumOf(f, S) ==
    LET plus(x) == IF x > 0 THEN x ELSE 0
    IN  SumOver([a \in S |-> plus(f[a])]) - SumOver([a \in S |-> plus(0 - f[a])])
=============================================================================
