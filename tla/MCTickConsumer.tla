--------------------------- MODULE MCTickConsumer ---------------------------
(***************************************************************************)
(* Instances of TickConsumer for TLC.                                      *)
(***************************************************************************)
EXTENDS TickConsumer, TLC

\* No save is special.
SaveSymmetry == Permutations(Saves)
=============================================================================
