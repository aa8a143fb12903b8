-------------------------- MODULE MCGovernedFanout --------------------------
(* Instances of GovernedFanout for TLC: the targets are mutations, and the    *)
(* batch is 0.                                                               *)
EXTENDS GovernedFanout

MCTargets == 1..Targets
BatchAndTargets == {0} \cup MCTargets
=============================================================================
