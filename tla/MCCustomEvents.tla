--------------------------- MODULE MCCustomEvents ---------------------------
(***************************************************************************)
(* Instances of CustomEvents for TLC: events of two or three days, one of  *)
(* them also run by its scheduler.                                         *)
(***************************************************************************)
EXTENDS CustomEvents, TLC

TwoEvents == {2, 3}
SameWeek == {1, 2}
OneEvent == {2}
LateEvent == {3}
NoEvents == {}
SaveSymmetry == Permutations(Saves)
=============================================================================
