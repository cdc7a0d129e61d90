-------------------------------- MODULE Sums --------------------------------
(*************************************************************************)
(* The sum of the values of an integer-valued function over a finite     *)
(* domain, defined by counting instead of by recursion: every unit of    *)
(* money is one element of a set.  The ledger's SQL sums ("sum of the    *)
(* open rows' basis", "sum of the cash the tasks still owe") are Total   *)
(* of a function, and facts about Cardinality are enough to prove how an *)
(* update of one entry moves the sum.                                    *)
(*************************************************************************)
EXTENDS Integers, FiniteSets

\* One element <<x, i>> for every positive unit of f[x].
Units(f) == UNION {{x} \X (1 .. f[x]) : x \in DOMAIN f}

\* The same function with every value negated, so Units(Neg(f)) counts the
\* negative units of f.
Neg(f) == [x \in DOMAIN f |-> 0 - f[x]]

Total(f) == Cardinality(Units(f)) - Cardinality(Units(Neg(f)))
=============================================================================
