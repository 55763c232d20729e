-------------------------- MODULE MCFACompensation --------------------------
(***************************************************************************)
(* Instances of FACompensation for TLC: two cases of two free agents, and  *)
(* two of the same one.                                                    *)
(***************************************************************************)
EXTENDS FACompensation

CONSTANTS o1, o2, f1, f2

OneCase == o1 :> 1
TwoCases == (o1 :> 1) @@ (o2 :> 2)
OneSigned == o1 :> f1
TwoSigned == (o1 :> f1) @@ (o2 :> f2)
SignedAgain == (o1 :> f1) @@ (o2 :> f1)
=============================================================================
