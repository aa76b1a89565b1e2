----------------------------- MODULE Allocation -----------------------------
(***************************************************************************)
(* How an amount is shared out in whole minor units, in proportion to      *)
(* weights: allocateProportionally.  Amounts and weights are functions on  *)
(* the same finite set of positions.                                       *)
(***************************************************************************)
EXTENDS Integers, FiniteSets

(* One element for each minor unit of f.                                   *)
Minors(f) == UNION {{i} \X (1..f[i]) : i \in DOMAIN f}

SumOf(f) == Cardinality(Minors(f))

(* The floors of the exact portions.                                       *)
Floors(total, weights) ==
  [i \in DOMAIN weights |-> (total * weights[i]) \div SumOf(weights)]

(* The positions served before i: the heavier ones, and the earlier ones   *)
(* of the same weight.                                                     *)
Before(weights, i) ==
  {j \in DOMAIN weights : weights[j] > weights[i] \/ (weights[j] = weights[i] /\ j < i)}

(* Each of the heaviest gets one of the units that the floors leave over.  *)
AllocateProportionally(total, weights) ==
  LET floors == Floors(total, weights)
      over == total - SumOf(floors)
  IN [i \in DOMAIN weights |->
        floors[i] + IF Cardinality(Before(weights, i)) < over THEN 1 ELSE 0]
=============================================================================
