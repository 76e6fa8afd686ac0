-------------------------------- MODULE Sums ---------------------------------
(* Sums of natural numbers without recursion, of which nothing could be     *)
(* proved: the units of all the amounts are put into one set and counted.   *)
EXTENDS Naturals, FiniteSets

\* The sum of the amounts, a function to Nat with a finite domain: sum(...).
Total(amount) == Cardinality(UNION {{i} \X (1 .. amount[i]) : i \in DOMAIN amount})
=============================================================================
