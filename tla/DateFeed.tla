------------------------------ MODULE DateFeed ------------------------------
(***************************************************************************)
(* What a background subsystem is promised by its date consumer            *)
(* (current_date_tick_consumer_next and _mark_processed): in the save it   *)
(* is in it is offered one date at a time, the offer stands until the date *)
(* is taken, the subsystem is switched off or another save is entered, and *)
(* an offered date is later than every date taken in that save before.     *)
(***************************************************************************)
EXTENDS Integers

CONSTANTS Saves, NoSave

VARIABLES save,     \* the save the consumer is in
          taken,    \* the last date it took there, 0 if none
          offered   \* the date it is offered, 0 if none

feedVars == <<save, taken, offered>>

Init == save \in Saves \cup {NoSave} /\ taken \in Nat /\ offered = 0

Enter ==
    /\ save' \in Saves \ {save}
    /\ taken' = 0
    /\ offered' = 0

Offer ==
    /\ offered = 0
    /\ offered' \in Nat
    /\ offered' > taken
    /\ UNCHANGED <<save, taken>>

Take ==
    /\ offered # 0
    /\ taken' = offered
    /\ offered' = 0
    /\ UNCHANGED save

\* The subsystem is switched off before it has taken the date.
Withdraw ==
    /\ offered # 0
    /\ offered' = 0
    /\ UNCHANGED <<save, taken>>

Next == Enter \/ Offer \/ Take \/ Withdraw

Spec == Init /\ [][Next]_feedVars
=============================================================================
