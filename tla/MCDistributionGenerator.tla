----------------------- MODULE MCDistributionGenerator -----------------------
(* DistributionGenerator with two binary names, one of which WalkDir       *)
(* visits before the stored spec and one after it.  In one state of the    *)
(* inputs the file of that name has a custom template: it then comes from  *)
(* the inputs under one spec and from the name under the other.            *)
EXTENDS DistributionGenerator

CONSTANTS alpha, zeta, i1

MCRank == [f \in {"Makefile", "spec.yaml", alpha, zeta} |->
             CASE f = "Makefile" -> 1
               [] f = alpha -> 2
               [] f = "spec.yaml" -> 3
               [] f = zeta -> 4]

MCCustomOf == [i \in Inputs |-> IF i = i1 THEN {zeta} ELSE {}]
=============================================================================
