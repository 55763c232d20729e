---------------------------- MODULE MCDateTick ----------------------------
(***************************************************************************)
(* Instances of DateTick for TLC.                                          *)
(***************************************************************************)
EXTENDS DateTick, TLC

\* The pollers run the same code.
PollerSymmetry == Permutations(Pollers)

\* No save is special.
SaveSymmetry == Permutations(Saves)

\* Save switches, deferrals and later days are explored while no poller has made
\* a call (the game thread alone); the calls of pollers in one save, over the
\* first two days.
OneSave == game.loads = 0 /\ game.defers = 0 /\ game.date <= 2
AloneOrOneSave == GameThreadAlone \/ OneSave

\* Liveness when every poller has met a save before the player loads another.
\* (A consumer whose first save is the second one keeps the events of the
\* first: see the README.)
EnteredInit == Init /\ \A t \in Pollers : consumer[t].path # NoSave
EnteredFairSpec == EnteredInit /\ [][Next]_vars /\ Fairness
=============================================================================
