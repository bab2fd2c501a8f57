------------------------------- MODULE Totals -------------------------------
(***************************************************************************)
(* Sums of amounts of the token: of a list, or of any other function of     *)
(* natural numbers with a finite domain.  They are counted rather than      *)
(* folded, so that the books that rest on them can be proved.               *)
(***************************************************************************)
EXTENDS Integers, FiniteSets

\* One element per base unit of the amounts.
Units(amounts) == UNION {{i} \X (1..amounts[i]) : i \in DOMAIN amounts}

Total(amounts) == Cardinality(Units(amounts))
=============================================================================
