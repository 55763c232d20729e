---------------------- MODULE MCIndependentAcquisition ----------------------
(***************************************************************************)
(* An instance of IndependentAcquisition for TLC: one independent team.    *)
(***************************************************************************)
EXTENDS IndependentAcquisition

CONSTANTS team

OneTeam == [p \in Players |-> team]
EveryDay == 1..LastDay
=============================================================================
