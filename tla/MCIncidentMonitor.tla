-------------------------- MODULE MCIncidentMonitor --------------------------
(* Instances of IncidentMonitor for TLC.                                    *)
EXTENDS IncidentMonitor, TLC

(* Events one and two share a timestamp, as two rows of one burst do.      *)
BurstTimestamp == [e \in Event |-> IF e <= 2 THEN 0 ELSE e - 2]

(* One event per tick.                                                     *)
SteadyTimestamp == [e \in Event |-> e - 1]

InstSymmetry == Permutations(Inst)
=============================================================================
