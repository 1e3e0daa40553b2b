------------------------------- MODULE Totals -------------------------------
(***************************************************************************)
(* The sum of amount[x] over a finite set S, as the number of unit coins   *)
(* <<x, i>> with i in 1..amount[x].  It needs neither recursion nor a      *)
(* choice of order, so facts about it follow from facts about the          *)
(* cardinality of finite sets.                                             *)
(***************************************************************************)
EXTENDS Integers, FiniteSets

CoinsOf(amount, x) == {x} \X (1..amount[x])

Coins(amount, S) == UNION {CoinsOf(amount, x) : x \in S}

Total(amount, S) == Cardinality(Coins(amount, S))

=============================================================================
