-------------------- MODULE IndependentAcquisition_proofs --------------------
(***************************************************************************)
(* Theorems about IndependentAcquisition for any players, teams, limits,   *)
(* days and numbers of restarts and saves.                                 *)
(***************************************************************************)
EXTENDS IndependentAcquisition, FiniteSetTheorems, TLAPS

-----------------------------------------------------------------------------
(***************************************************************************)
(* Types.                                                                  *)
(***************************************************************************)
Teams == Sellers \cup Buyers
DayOrNone == 0..LastDay
Requests == Buyers \X Players
Steps == {"idle", "ended", "begun", "entered", "offering", "selling", "chosen",
          "assigned", "sold", "acquired"}

SavedType == [day : 1..LastDay, holder : [Players -> Teams],
              soldOn : [Players -> DayOrNone]]
DecisionType == [day : DayOrNone, moved : BOOLEAN]
PassType == [at : Steps, today : DayOrNone, queue : SUBSET Requests,
             pick : SUBSET Requests, moved : BOOLEAN, sold : SUBSET Sellers]

\* The types of all variables.
TypeOK ==
    /\ day \in 1..LastDay
    /\ saving \in {"no", "begun", "written"}
    /\ holder \in [Players -> Teams]
    /\ soldOn \in [Players -> DayOrNone]
    /\ offers \in SUBSET Requests
    /\ decided \in [Players -> DecisionType]
    /\ {cursor, mark, audit, audited} \subseteq DayOrNone
    /\ pass \in PassType
    /\ disk \in SavedType
    /\ acts \in Nat
    /\ off \in SUBSET {"feature", "fix", "stop", "unstable"}
    /\ hindered \in BOOLEAN

-----------------------------------------------------------------------------
(***************************************************************************)
(* The inductive invariant of the sales.                                   *)
(***************************************************************************)

\* Nothing is sold after the date of the pass, nor after the game's own.
SalesAreOfThePast ==
    /\ \A p \in Players : soldOn[p] <= day /\ disk.soldOn[p] <= disk.day
    /\ Working => /\ pass.today \in 1..day
                  /\ \A p \in Players : soldOn[p] <= pass.today

\* What is chosen or still to be looked at was not decided on, and the player of
\* the chosen offer has no other one in the queue.
PendingIsUndecided ==
    /\ \A o \in pass.queue \cup pass.pick : decided[o[2]].day = 0
    /\ \A o \in pass.pick : \A q \in pass.queue : q[2] # o[2]
    /\ \A o, q \in pass.pick : o = q
    /\ pass.pick # {} => pass.at \in {"chosen", "assigned"}

\* A transferred player was decided on, on a day.
TransfersAreDated == \A p \in Players : decided[p].moved => decided[p].day # 0

\* A save holds no recorded sale that the running game has not.
SaveHoldsNoMore ==
    \A p \in Players : decided[p].moved /\ disk.soldOn[p] = decided[p].day =>
                          soldOn[p] = decided[p].day

\* The team whose player is chosen may sell, or will not; the player who was
\* assigned is sold on the date of the pass.
ChosenMaySell ==
    \A o \in pass.pick :
        LET s == SellerOf[o[2]]
        IN  /\ At("chosen") => AtLimit(s) \/ ~InCooldown(s, pass.today)
            /\ At("assigned") /\ pass.moved =>
                  /\ ~AtLimit(s) /\ ~InCooldown(s, pass.today)
                  /\ soldOn[o[2]] = pass.today

\* All transferred players count towards the limit, the undone ones too.
LimitKept == \A s \in Sellers : Cardinality(Sold(s)) <= SeasonLimit

\* The wait between two sales of a team that have their decision.
SalesSpaced ==
    \A s \in Sellers : \A p, q \in Recorded(s) :
        p # q /\ soldOn[p] <= soldOn[q] =>
            \/ soldOn[q] >= soldOn[p] + CooldownDays
            \/ \E r \in Undone(s) : decided[r].day > soldOn[q]

\* The parts of the invariant that speak of the rows and the two copies of the
\* game, and those that speak of the pass.
RowsInv == TransfersAreDated /\ SaveHoldsNoMore /\ LimitKept /\ SalesSpaced
PassInv == SalesAreOfThePast /\ PendingIsUndecided /\ ChosenMaySell

\* The inductive invariant of the audit.  The date in memory is the stored one or
\* none; a save in progress has hindered the pass, and so has what is off as long
\* as the acquisition is not entered; a pass past its acquisition has the date of
\* the acquisitions, or was hindered.
HinderInv ==
    /\ mark \in {0, cursor}
    /\ Working /\ Saving => hindered
    /\ At("begun") /\ off # {} => hindered
    /\ At("acquired") => cursor >= pass.today \/ hindered

-----------------------------------------------------------------------------
(***************************************************************************)
(* Type correctness.                                                       *)
(***************************************************************************)

\* Every update that the steps make to the record of the pass keeps its type.
LEMMA PassUpdates ==
    ASSUME NEW r \in PassType
    PROVE  /\ NoPass \in PassType
           /\ \A a \in Steps : [r EXCEPT !.at = a] \in PassType
           /\ \A t \in DayOrNone, a \in Steps :
                 [NoPass EXCEPT !.at = a, !.today = t] \in PassType
           /\ \A Q \in SUBSET Requests :
                 /\ [r EXCEPT !.queue = Q] \in PassType
                 /\ \A a \in Steps : [r EXCEPT !.at = a, !.queue = Q] \in PassType
                 /\ \A a \in Steps, P \in SUBSET Requests :
                       [r EXCEPT !.at = a, !.queue = Q, !.pick = P] \in PassType
           /\ \A a \in Steps, b \in BOOLEAN : [r EXCEPT !.at = a, !.moved = b] \in PassType
           /\ \A a \in Steps, S \in SUBSET Sellers :
                 /\ [r EXCEPT !.at = a, !.sold = S] \in PassType
                 /\ [r EXCEPT !.at = a, !.pick = {}, !.moved = FALSE, !.sold = S]
                       \in PassType
<1>1. NoPass \in PassType
  BY AcquisitionAssumption DEF PassType, NoPass, Steps, DayOrNone
<1>2. /\ \A a \in Steps : [r EXCEPT !.at = a] \in PassType
      /\ \A a \in Steps, b \in BOOLEAN : [r EXCEPT !.at = a, !.moved = b] \in PassType
      /\ \A a \in Steps, S \in SUBSET Sellers :
            [r EXCEPT !.at = a, !.sold = S] \in PassType
  BY DEF PassType
<1>3. \A t \in DayOrNone, a \in Steps :
         [NoPass EXCEPT !.at = a, !.today = t] \in PassType
  BY <1>1 DEF PassType
<1>4. \A Q \in SUBSET Requests :
         /\ [r EXCEPT !.queue = Q] \in PassType
         /\ \A a \in Steps : [r EXCEPT !.at = a, !.queue = Q] \in PassType
  BY DEF PassType
<1>5. \A Q \in SUBSET Requests, a \in Steps, P \in SUBSET Requests :
         [r EXCEPT !.at = a, !.queue = Q, !.pick = P] \in PassType
  BY DEF PassType
<1>6. \A a \in Steps, S \in SUBSET Sellers :
         [r EXCEPT !.at = a, !.pick = {}, !.moved = FALSE, !.sold = S] \in PassType
  BY DEF PassType
<1> QED
  BY <1>1, <1>2, <1>3, <1>4, <1>5, <1>6

\* The first state is typed.
LEMMA TypeInit == Init => TypeOK
<1> SUFFICES ASSUME Init PROVE TypeOK
  OBVIOUS
<1> USE AcquisitionAssumption
<1>1. holder \in [Players -> Teams] /\ soldOn \in [Players -> DayOrNone]
  BY DEF Init, Teams, DayOrNone
<1>2. decided \in [Players -> DecisionType]
  BY DEF Init, DecisionType, DayOrNone
<1>3. pass \in PassType
  BY DEF Init, NoPass, PassType, Steps, DayOrNone
<1>4. day \in 1..LastDay /\ disk \in SavedType
  BY <1>1 DEF Init, SavedType
<1>5. off \in SUBSET {"feature", "fix", "stop", "unstable"} /\ hindered \in BOOLEAN
  BY DEF Init
<1>6. /\ saving \in {"no", "begun", "written"} /\ offers \in SUBSET Requests
      /\ {cursor, mark, audit, audited} \subseteq DayOrNone /\ acts \in Nat
  BY DEF Init, DayOrNone
<1> QED
  BY <1>1, <1>2, <1>3, <1>4, <1>5, <1>6 DEF TypeOK

\* Every step of the pass, the game and its user keeps the types.
LEMMA TypeStep == TypeOK /\ [Next]_vars => TypeOK'
<1> SUFFICES ASSUME TypeOK, [Next]_vars PROVE TypeOK'
  OBVIOUS
<1> USE AcquisitionAssumption DEF sql, memory, game, saves, At, Go, GiveUp, Act
<1>a. pass \in PassType /\ pass.today \in DayOrNone /\ pass.queue \subseteq Requests
      /\ pass.sold \subseteq Sellers /\ pass.pick \subseteq Requests
      /\ pass.moved \in BOOLEAN
  BY DEF TypeOK, PassType
<1>b. /\ NoPass \in PassType
      /\ \A a \in Steps : [pass EXCEPT !.at = a] \in PassType
  BY <1>a, PassUpdates
<1>c. /\ "ended" \in Steps /\ "entered" \in Steps /\ "begun" \in Steps
      /\ "offering" \in Steps /\ "selling" \in Steps
      /\ "chosen" \in Steps /\ "assigned" \in Steps /\ "sold" \in Steps
      /\ "acquired" \in Steps
  BY DEF Steps
<1>d. day \in DayOrNone /\ 0 \in DayOrNone
      /\ cursor \in DayOrNone /\ mark \in DayOrNone /\ Cursor \in DayOrNone
  BY DEF TypeOK, DayOrNone, Cursor
<1>1. CASE Wake
  <2>1. [NoPass EXCEPT !.at = "begun", !.today = day] \in PassType
    BY <1>a, <1>c, <1>d, PassUpdates
  <2> QED
    BY <1>1, <1>a, <2>1 DEF Wake, TypeOK
<1>2. CASE Leave \/ Enter \/ Bypass
  BY <1>2, <1>b, <1>c DEF Leave, Enter, Bypass, TypeOK
<1>3. CASE Postpone
  BY <1>3, <1>b DEF Postpone, TypeOK
<1>4. CASE SkipDay
  BY <1>4, <1>b, <1>c, <1>d DEF SkipDay, TypeOK
<1>5. CASE CloseDay
  BY <1>5, <1>a, <1>b, <1>c, <1>d DEF CloseDay, TypeOK
<1>6. CASE OpenDay
  BY <1>6, <1>a, <1>b, <1>c, <1>d DEF OpenDay, TypeOK
<1>7. CASE CutOffers
  BY <1>7, <1>a, <1>b, <1>c, <1>d DEF CutOffers, TypeOK
<1>8. ASSUME NEW b \in Clubs, NEW p \in Players, Offer(b, p) PROVE TypeOK'
  <2>1. offers' \in SUBSET Requests
    BY <1>8 DEF Offer, TypeOK, Requests, Buyers
  <2> QED
    BY <1>8, <2>1 DEF Offer, TypeOK
<1>9. CASE LoadQueue
  <2>1. Open \in SUBSET Requests
    BY DEF Open, TypeOK
  <2>2. [pass EXCEPT !.at = "selling", !.queue = Open] \in PassType
    BY <1>a, <1>c, <2>1, PassUpdates
  <2> QED
    BY <1>9, <2>2 DEF LoadQueue, TypeOK
<1>10. ASSUME NEW o \in pass.queue, Defer(o) \/ Choose(o) PROVE TypeOK'
  <2>1. Without(o[2]) \in SUBSET Requests /\ {o} \in SUBSET Requests
    BY <1>a DEF Without
  <2>2. /\ [pass EXCEPT !.queue = Without(o[2])] \in PassType
        /\ [pass EXCEPT !.at = "chosen", !.queue = Without(o[2]), !.pick = {o}]
              \in PassType
    BY <1>a, <1>c, <2>1, PassUpdates
  <2> QED
    BY <1>10, <2>2 DEF Defer, Choose, TypeOK
<1>11. CASE Transfer
  <2>1. PICK o \in pass.pick, fit \in BOOLEAN :
          LET p == o[2]
              s == SellerOf[p]
              moved == fit /\ ~AtLimit(s) /\ holder[p] = s
          IN  /\ holder' = IF moved THEN [holder EXCEPT ![p] = o[1]] ELSE holder
              /\ soldOn' = IF moved THEN [soldOn EXCEPT ![p] = pass.today] ELSE soldOn
              /\ pass' = [pass EXCEPT !.at = "assigned", !.moved = moved]
    BY <1>11 DEF Transfer
  <2>2. o[1] \in Teams /\ o[2] \in Players
    BY <1>a DEF Requests, Teams
  <2>3. holder' \in [Players -> Teams] /\ soldOn' \in [Players -> DayOrNone]
    BY <1>a, <2>1, <2>2 DEF TypeOK
  <2>4. pass' \in PassType
    <3> DEFINE moved == fit /\ ~AtLimit(SellerOf[o[2]]) /\ holder[o[2]] = SellerOf[o[2]]
    <3>1. moved \in BOOLEAN /\ pass' = [pass EXCEPT !.at = "assigned", !.moved = moved]
      BY <2>1
    <3> HIDE DEF moved
    <3> QED
      BY <1>a, <1>c, <3>1, PassUpdates
  <2> QED
    BY <1>11, <2>3, <2>4 DEF Transfer, TypeOK
<1>12. CASE Decide
  <2>1. PICK o \in pass.pick, ok \in BOOLEAN :
          /\ decided' = IF ok THEN [decided EXCEPT ![o[2]] =
                                       [day |-> pass.today, moved |-> pass.moved]]
                        ELSE decided
          /\ pass' = [pass EXCEPT !.at = "selling", !.pick = {}, !.moved = FALSE,
                         !.sold = IF ok /\ pass.moved
                                  THEN @ \cup {SellerOf[o[2]]} ELSE @]
    BY <1>12 DEF Decide
  <2>2. o[2] \in Players /\ SellerOf[o[2]] \in Sellers
    BY <1>a DEF Requests
  <2>3. decided' \in [Players -> DecisionType]
    BY <1>a, <2>1 DEF TypeOK, DecisionType
  <2>4. PICK S \in SUBSET Sellers :
          pass' = [pass EXCEPT !.at = "selling", !.pick = {}, !.moved = FALSE, !.sold = S]
    <3>1. CASE ok /\ pass.moved
      <4>1. pass.sold \cup {SellerOf[o[2]]} \in SUBSET Sellers
        BY <1>a, <2>2
      <4> QED BY <2>1, <3>1, <4>1
    <3>2. CASE ~(ok /\ pass.moved)
      <4>1. pass.sold \in SUBSET Sellers
        BY <1>a
      <4> QED BY <2>1, <3>2, <4>1
    <3> QED BY <3>1, <3>2
  <2>5. pass' \in PassType
    BY <1>a, <1>c, <2>4, PassUpdates
  <2> QED
    BY <1>12, <2>3, <2>5 DEF Decide, TypeOK
<1>13. CASE EndSales
  <2>1. [pass EXCEPT !.at = "sold", !.sold = {}] \in PassType
    BY <1>a, <1>c, PassUpdates
  <2> QED
    BY <1>13, <1>a, <1>d, <2>1 DEF EndSales, TypeOK
<1>14. CASE CutSales
  <2>1. [NoPass EXCEPT !.at = "sold", !.today = pass.today] \in PassType
    BY <1>a, <1>c, PassUpdates
  <2> QED
    BY <1>14, <1>a, <1>d, <2>1 DEF CutSales, TypeOK
<1>15. CASE MarkDay
  BY <1>15, <1>a, <1>b, <1>c DEF MarkDay, TypeOK
<1>16. CASE Audit
  BY <1>16, <1>a, <1>b DEF Audit, TypeOK
<1>17. ASSUME NEW b \in UserClubs, NEW p \in Players, Submit(b, p) \/ Withdraw(b, p)
       PROVE TypeOK'
  <2>1. offers' \in SUBSET Requests
    BY <1>17 DEF Submit, Withdraw, TypeOK, Requests, Buyers
  <2>2. acts' \in Nat
    BY <1>17 DEF Submit, Withdraw, TypeOK
  <2>3. UNCHANGED <<game, decided, cursor, audit, memory, pass, saving, disk, off, hindered>>
    BY <1>17 DEF Submit, Withdraw
  <2> QED
    BY <2>1, <2>2, <2>3 DEF TypeOK
<1>18. CASE NextDay
  BY <1>18 DEF NextDay, TypeOK
<1>19. CASE BeginSave
  BY <1>19 DEF BeginSave, TypeOK
<1>20. CASE WriteSave
  <2>1. disk' \in SavedType
    BY <1>20 DEF WriteSave, TypeOK, SavedType
  <2> QED
    BY <1>20, <2>1 DEF WriteSave, TypeOK
<1>21. CASE EndSave
  BY <1>21 DEF EndSave, TypeOK
<1>22. CASE Restart
  <2>1. disk.day \in 1..LastDay /\ disk.holder \in [Players -> Teams]
        /\ disk.soldOn \in [Players -> DayOrNone]
    BY DEF TypeOK, SavedType
  <2>2. off' \in SUBSET {"feature", "fix", "stop", "unstable"} /\ hindered' \in BOOLEAN
    BY <1>22 DEF Restart, TypeOK
  <2>3. /\ day' = disk.day /\ holder' = disk.holder /\ soldOn' = disk.soldOn
        /\ mark' = 0 /\ audited' = 0 /\ saving' = "no" /\ pass' = NoPass
        /\ acts' = acts + 1 /\ UNCHANGED <<sql, disk>>
    BY <1>22 DEF Restart
  <2> QED
    BY <1>b, <1>d, <2>1, <2>2, <2>3 DEF TypeOK
<1>23. CASE Switch \/ Shutdown \/ DateReady
  <2>1. off' \in SUBSET {"feature", "fix", "stop", "unstable"}
    BY <1>23 DEF Switch, Shutdown, DateReady, TypeOK
  <2>2. hindered' \in BOOLEAN
    BY <1>23 DEF Switch, Shutdown, DateReady, TypeOK
  <2> QED
    BY <1>23, <2>1, <2>2 DEF Switch, Shutdown, DateReady, TypeOK
<1>24. CASE UNCHANGED vars
  BY <1>24 DEF vars, TypeOK
<1> QED
  BY <1>1, <1>2, <1>3, <1>4, <1>5, <1>6, <1>7, <1>8, <1>9, <1>10, <1>11, <1>12, <1>13,
     <1>14, <1>15, <1>16, <1>17, <1>18, <1>19, <1>20, <1>21, <1>22, <1>23, <1>24
     DEF Next, Pass, User

\* Every variable keeps its type, for all parameters.
THEOREM AcquisitionTypeCorrect == Spec => []TypeOK
  BY TypeInit, TypeStep, PTL DEF Spec

-----------------------------------------------------------------------------
(***************************************************************************)
(* The audit closes no day without its acquisition, unless it was hindered. *)
(***************************************************************************)

\* Every step keeps the account of what hindered the pass, and only an acquisition
\* that was entered marks its date.
LEMMA HinderStep == TypeOK /\ HinderInv /\ [Next]_vars => HinderInv'
<1> SUFFICES ASSUME TypeOK, HinderInv, [Next]_vars PROVE HinderInv'
  OBVIOUS
<1> USE DEF sql, memory, game, saves, At, Go, GiveUp, Act, Working, Saving
<1>a. /\ mark \in Nat /\ cursor \in Nat /\ day \in Nat
      /\ pass \in PassType /\ pass.today \in Nat /\ hindered \in BOOLEAN
  BY AcquisitionAssumption DEF TypeOK, PassType, DayOrNone
<1>b. /\ NoPass.at = "idle"
      /\ \A a : [pass EXCEPT !.at = a].at = a /\ [pass EXCEPT !.at = a].today = pass.today
      /\ \A a, t : [NoPass EXCEPT !.at = a, !.today = t].at = a
  BY <1>a DEF NoPass, PassType
<1>1. CASE Wake
  BY <1>1, <1>b DEF Wake, HinderInv
<1>2. CASE Postpone \/ Audit \/ Restart
  BY <1>2, <1>b DEF Postpone, Audit, Restart, HinderInv
<1>3. CASE Leave \/ Enter
  BY <1>3, <1>b DEF Leave, Enter, HinderInv
<1>4. CASE Bypass
  BY <1>4, <1>b DEF Bypass, HinderInv
<1>5. CASE SkipDay
  <2>1. mark' \in {0, cursor'} /\ cursor' >= pass'.today
    BY <1>5, <1>a, <1>b DEF SkipDay, Acquired, Cursor, HinderInv
  <2> QED
    BY <1>5, <1>b, <2>1 DEF SkipDay, HinderInv
<1>6. CASE CloseDay \/ MarkDay
  <2>1. pass'.today = pass.today
    BY <1>6, <1>b DEF CloseDay, MarkDay
  <2>2. mark' = pass.today /\ cursor' = pass.today
    BY <1>6 DEF CloseDay, MarkDay
  <2>3. mark' = cursor' /\ cursor' >= pass'.today
    BY <1>a, <2>1, <2>2
  <2> QED
    BY <1>6, <1>b, <2>3 DEF CloseDay, MarkDay, HinderInv
<1>7. CASE OpenDay
  <2>1. mark' \in {0, cursor'} /\ ~Saving'
    BY <1>7 DEF OpenDay, Cursor, HinderInv
  <2> QED
    BY <1>7, <1>b, <2>1 DEF OpenDay, HinderInv
<1>8. CASE CutOffers
  BY <1>8, <1>b DEF CutOffers, HinderInv
<1>9. ASSUME NEW b \in Clubs, NEW p \in Players, Offer(b, p) PROVE HinderInv'
  BY <1>9 DEF Offer, HinderInv
<1>10. ASSUME NEW o \in pass.queue, Defer(o) \/ Choose(o) PROVE HinderInv'
  <2>1. pass'.at \in {"selling", "chosen"}
    BY <1>10, <1>a DEF Defer, Choose, PassType
  <2> QED
    BY <1>10, <2>1 DEF Defer, Choose, HinderInv
<1>11. CASE LoadQueue \/ Transfer \/ Decide \/ EndSales \/ CutSales
  <2>1. pass'.at \in {"selling", "assigned", "sold"}
    <3>1. CASE LoadQueue \/ Transfer \/ Decide
      BY <3>1, <1>a DEF LoadQueue, Transfer, Decide, PassType
    <3>2. CASE EndSales
      BY <3>2, <1>a DEF EndSales, PassType
    <3>3. CASE CutSales
      BY <3>3, <1>b DEF CutSales
    <3> QED BY <1>11, <3>1, <3>2, <3>3
  <2>2. /\ pass.at \in {"offering", "selling", "chosen", "assigned"}
        /\ UNCHANGED <<mark, cursor, saving, hindered>>
    BY <1>11 DEF LoadQueue, Transfer, Decide, EndSales, CutSales
  <2> QED
    BY <2>1, <2>2 DEF HinderInv
<1>12. ASSUME NEW b \in UserClubs, NEW p \in Players, Submit(b, p) \/ Withdraw(b, p)
       PROVE HinderInv'
  BY <1>12 DEF Submit, Withdraw, HinderInv
<1>13. CASE NextDay \/ WriteSave \/ EndSave
  BY <1>13 DEF NextDay, WriteSave, EndSave, HinderInv
<1>14. CASE BeginSave
  BY <1>14, <1>a DEF BeginSave, HinderInv
<1>15. CASE Switch \/ Shutdown \/ DateReady
  BY <1>15, <1>a DEF Switch, Shutdown, DateReady, HinderInv
<1>16. CASE UNCHANGED vars
  BY <1>16 DEF vars, HinderInv
<1> QED
  BY <1>1, <1>2, <1>3, <1>4, <1>5, <1>6, <1>7, <1>8, <1>9, <1>10, <1>11, <1>12, <1>13,
     <1>14, <1>15, <1>16 DEF Next, Pass, User

\* A day is recorded as audited only when the stored date of the acquisitions
\* covers it, or when a save was in progress during the pass, the feature or the
\* fix was off, the program told to stop or its date not stable before the
\* acquisition was entered, or the list of the players could not be read: for any
\* number of teams, restarts, saves and switches.
THEOREM NoDayClosedEarly == Spec => AuditedMeansAcquired
<1>1. Init => HinderInv
  <2> SUFFICES ASSUME Init PROVE HinderInv
    OBVIOUS
  <2>1. pass.at = "idle"
    BY DEF Init, NoPass
  <2> QED
    BY <2>1 DEF Init, HinderInv, At, Working
<1>2. TypeOK /\ HinderInv /\ [Next]_vars
         => [audit' # audit => cursor >= pass.today \/ hindered]_vars
  <2> SUFFICES ASSUME TypeOK, HinderInv, Next, audit' # audit
               PROVE  cursor >= pass.today \/ hindered
    OBVIOUS
  <2>1. Audit
    BY DEF Next, Pass, User, Wake, Leave, Postpone, Enter, Bypass, SkipDay, CloseDay,
       OpenDay, CutOffers, Offer, LoadQueue, Defer, Choose, Transfer, Decide, EndSales,
       CutSales, MarkDay, Submit, Withdraw, NextDay, BeginSave, WriteSave, EndSave, Switch,
       Shutdown, DateReady, Restart, sql, memory, saves
  <2> QED
    BY <2>1 DEF Audit, HinderInv
<1> QED
  BY <1>1, <1>2, TypeInit, TypeStep, HinderStep, PTL DEF Spec, AuditedMeansAcquired

-----------------------------------------------------------------------------
(***************************************************************************)
(* Sales are rationed.                                                     *)
(***************************************************************************)

\* The players are finitely many, and so are the sold ones.
LEMMA SoldFinite ==
    ASSUME NEW s
    PROVE  /\ IsFiniteSet(Sold(s))
           /\ Cardinality(Sold(s)) \in Nat
  BY AcquisitionAssumption, FS_Subset, FS_CardinalityType DEF Sold

\* What no row and no sale of the game depends on.
LEMMA RowsKept ==
    ASSUME TypeOK, RowsInv, UNCHANGED <<decided, soldOn>>,
           disk'.soldOn \in {disk.soldOn, soldOn}
    PROVE  RowsInv'
<1>1. TransfersAreDated' /\ SaveHoldsNoMore'
  BY DEF RowsInv, TransfersAreDated, SaveHoldsNoMore
<1>2. LimitKept'
  BY DEF RowsInv, LimitKept, Sold
<1>3. SalesSpaced'
  BY DEF RowsInv, SalesSpaced, Recorded, Undone, Sold
<1> QED
  BY <1>1, <1>2, <1>3 DEF RowsInv

\* A step after which no offer is chosen.
LEMMA NoneChosen ==
    ASSUME TypeOK, PassInv, UNCHANGED <<decided, soldOn, day, disk>>,
           pass'.pick = {}, pass'.queue \subseteq pass.queue \/ pass'.queue \subseteq Open,
           \/ pass'.at \in {"idle", "ended"}
           \/ pass'.today = day
           \/ pass'.today = pass.today /\ Working
    PROVE  PassInv'
<1>1. SalesAreOfThePast'
  BY DEF PassInv, SalesAreOfThePast, At, Working, TypeOK
<1>2. PendingIsUndecided'
  BY DEF PassInv, PendingIsUndecided, Open
<1>3. ChosenMaySell'
  BY DEF ChosenMaySell
<1> QED
  BY <1>1, <1>2, <1>3 DEF PassInv

\* The fields of a pass after its updates.
LEMMA PassFields ==
    ASSUME NEW r \in PassType
    PROVE  /\ NoPass.at = "idle" /\ NoPass.pick = {} /\ NoPass.queue = {}
           /\ \A a : LET n == [r EXCEPT !.at = a]
                    IN n.at = a /\ n.today = r.today /\ n.queue = r.queue /\ n.pick = r.pick
           /\ \A a, Q : LET n == [r EXCEPT !.at = a, !.queue = Q]
                       IN n.at = a /\ n.today = r.today /\ n.queue = Q /\ n.pick = r.pick
           /\ \A Q : LET n == [r EXCEPT !.queue = Q]
                    IN n.at = r.at /\ n.today = r.today /\ n.queue = Q /\ n.pick = r.pick
           /\ \A a, t : LET n == [NoPass EXCEPT !.at = a, !.today = t]
                       IN n.at = a /\ n.today = t /\ n.queue = {} /\ n.pick = {}
  BY DEF PassType, NoPass

\* An offer is chosen whose player nobody decided on and whose team may sell.
LEMMA ChooseKeeps ==
    ASSUME TypeOK, PassInv, NEW o \in pass.queue, Choose(o)
    PROVE  PassInv'
<1>1. /\ At("selling") /\ pass \in PassType
      /\ pass' = [pass EXCEPT !.at = "chosen", !.queue = Without(o[2]), !.pick = {o}]
      /\ UNCHANGED <<decided, soldOn, day, disk>>
  BY DEF Choose, TypeOK, game, sql, saves
<1>2. pass'.at = "chosen" /\ pass'.queue = Without(o[2]) /\ pass'.pick = {o}
      /\ pass'.today = pass.today
  BY <1>1 DEF PassType
<1>3. SalesAreOfThePast'
  BY <1>1, <1>2 DEF PassInv, SalesAreOfThePast, At, Working
<1>4. PendingIsUndecided'
  BY <1>1, <1>2 DEF PassInv, PendingIsUndecided, Without
<1>5. ChosenMaySell'
  <2>1. LET s == SellerOf[o[2]] IN AtLimit(s) \/ ~InCooldown(s, pass.today)
    BY DEF Choose
  <2>2. LET s == SellerOf[o[2]] IN AtLimit(s)' \/ ~InCooldown(s, pass.today)'
    BY <1>1, <1>2, <2>1 DEF AtLimit, InCooldown, Sold
  <2> QED
    BY <1>2, <2>2 DEF ChosenMaySell, At
<1> QED
  BY <1>3, <1>4, <1>5 DEF PassInv

\* The player is assigned, on the date of the pass, or is not.  He was not decided
\* on before, so no recorded sale changes.
LEMMA TransferKeeps ==
    ASSUME TypeOK, PassInv, RowsInv, Transfer
    PROVE  PassInv' /\ RowsInv'
<1> DEFINE moves(o, fit) ==
             fit /\ ~AtLimit(SellerOf[o[2]]) /\ holder[o[2]] = SellerOf[o[2]]
<1>1. PICK o \in pass.pick, fit \in BOOLEAN :
        /\ soldOn' = IF moves(o, fit) THEN [soldOn EXCEPT ![o[2]] = pass.today] ELSE soldOn
        /\ pass' = [pass EXCEPT !.at = "assigned", !.moved = moves(o, fit)]
  BY DEF Transfer
<1> DEFINE moved == moves(o, fit)
<1>2. /\ At("chosen") /\ pass \in PassType /\ pass.today \in Nat
      /\ UNCHANGED <<decided, day, disk>>
  BY DEF Transfer, TypeOK, PassType, DayOrNone, sql, saves
<1>3. /\ pass'.at = "assigned" /\ pass'.today = pass.today /\ pass'.moved = moved
      /\ pass'.pick = pass.pick /\ pass'.queue = pass.queue
  BY <1>1, <1>2 DEF PassType
<1>4. pass.pick = {o} /\ decided[o[2]].day = 0
  BY <1>1 DEF PassInv, PendingIsUndecided
<1>5. o[2] \in Players /\ ~decided[o[2]].moved
  <2>1. o[2] \in Players
    BY <1>1, <1>2 DEF PassType, Requests
  <2> QED
    BY <1>4, <2>1 DEF RowsInv, TransfersAreDated
<1>6. /\ soldOn \in [Players -> DayOrNone]
      /\ \A p \in Players : p # o[2] => soldOn'[p] = soldOn[p]
      /\ moved => soldOn'[o[2]] = pass.today
      /\ soldOn'[o[2]] \in {soldOn[o[2]], pass.today}
  BY <1>1, <1>5 DEF TypeOK
<1>7. \A s : Sold(s)' = Sold(s) /\ Recorded(s)' = Recorded(s) /\ Undone(s)' = Undone(s)
  BY <1>2, <1>5, <1>6 DEF Sold, Recorded, Undone
<1>8. \A s : \A p \in Recorded(s) : soldOn'[p] = soldOn[p]
  BY <1>5, <1>6 DEF Recorded, Sold
<1> HIDE DEF moved
<1>9. SalesAreOfThePast'
  <2>1. pass.today \in 1..day /\ \A p \in Players : soldOn[p] <= pass.today
    BY <1>2 DEF PassInv, SalesAreOfThePast, At, Working
  <2>2. \A p \in Players : soldOn'[p] <= pass.today /\ soldOn'[p] <= day
    BY <1>6, <2>1 DEF TypeOK, DayOrNone
  <2> QED
    BY <1>2, <1>3, <2>1, <2>2 DEF PassInv, SalesAreOfThePast
<1>10. PendingIsUndecided'
  BY <1>2, <1>3 DEF PassInv, PendingIsUndecided
<1>11. ChosenMaySell'
  <2> DEFINE s == SellerOf[o[2]]
  <2>1. moved => ~AtLimit(s) /\ ~InCooldown(s, pass.today)
    BY <1>2, <1>4 DEF moved, PassInv, ChosenMaySell
  <2>2. moved => ~AtLimit(s)' /\ ~InCooldown(s, pass.today)'
    BY <1>2, <1>3, <1>7, <2>1 DEF AtLimit, InCooldown
  <2> QED
    BY <1>3, <1>4, <1>6, <2>2 DEF ChosenMaySell, At
<1>12. TransfersAreDated' /\ SaveHoldsNoMore'
  BY <1>2, <1>5, <1>6 DEF RowsInv, TransfersAreDated, SaveHoldsNoMore
<1>13. LimitKept'
  BY <1>7 DEF RowsInv, LimitKept
<1>14. SalesSpaced'
  BY <1>2, <1>7, <1>8 DEF RowsInv, SalesSpaced
<1> QED
  BY <1>9, <1>10, <1>11, <1>12, <1>13, <1>14 DEF PassInv, RowsInv

\* A row that sells a player adds one sale of his team, on the date of the pass:
\* the team was below its limit, and no recorded sale of it was too near.
LEMMA SaleRecorded ==
    ASSUME TypeOK, PassInv, RowsInv, At("assigned"), pass.moved, NEW o \in pass.pick,
           decided' = [decided EXCEPT ![o[2]] = [day |-> pass.today, moved |-> TRUE]],
           UNCHANGED <<soldOn, disk>>
    PROVE  RowsInv'
<1> DEFINE p == o[2]
           seller == SellerOf[p]
<1>1. /\ pass \in PassType /\ p \in Players /\ seller \in Sellers
      /\ decided \in [Players -> DecisionType] /\ soldOn \in [Players -> DayOrNone]
      /\ pass.today \in DayOrNone
  BY AcquisitionAssumption DEF TypeOK, PassType, Requests
<1>2. pass.today # 0 /\ \A q \in Players : soldOn[q] <= pass.today
  BY DEF PassInv, SalesAreOfThePast, At, Working
<1>3. /\ decided[p].day = 0 /\ ~decided[p].moved
  BY <1>1 DEF PassInv, PendingIsUndecided, RowsInv, TransfersAreDated
<1>4. ~AtLimit(seller) /\ ~InCooldown(seller, pass.today) /\ soldOn[p] = pass.today
  BY DEF PassInv, ChosenMaySell
<1>5. /\ \A q \in Players : q # p => decided'[q] = decided[q]
      /\ decided'[p].day = pass.today /\ decided'[p].moved
  BY <1>1
<1>6. /\ p \notin Sold(seller) /\ Sold(seller)' = Sold(seller) \cup {p}
      /\ \A s : s # seller => Sold(s)' = Sold(s)
  BY <1>1, <1>3, <1>5 DEF Sold
<1>7. /\ Recorded(seller)' = Recorded(seller) \cup {p}
      /\ Undone(seller)' = Undone(seller)
      /\ \A s : s # seller => Recorded(s)' = Recorded(s) /\ Undone(s)' = Undone(s)
  BY <1>1, <1>3, <1>4, <1>5, <1>6 DEF Recorded, Undone, Sold
<1> HIDE DEF p, seller
<1>8. TransfersAreDated' /\ SaveHoldsNoMore'
  <2>1. TransfersAreDated'
    BY <1>2, <1>5 DEF RowsInv, TransfersAreDated
  <2>2. SaveHoldsNoMore'
    BY <1>4, <1>5 DEF RowsInv, SaveHoldsNoMore
  <2> QED BY <2>1, <2>2
<1>9. LimitKept'
  <2>1. Cardinality(Sold(seller)) < SeasonLimit
    BY <1>4, SoldFinite, AcquisitionAssumption DEF AtLimit
  <2>2. Cardinality(Sold(seller)') = Cardinality(Sold(seller)) + 1
    BY <1>6, SoldFinite, FS_AddElement
  <2>3. Cardinality(Sold(seller)') <= SeasonLimit
    BY <2>1, <2>2, SoldFinite, AcquisitionAssumption
  <2>4. \A s \in Sellers : s # seller => Cardinality(Sold(s)') <= SeasonLimit
    BY <1>6 DEF RowsInv, LimitKept
  <2> QED
    BY <2>3, <2>4 DEF LimitKept
<1>10. SalesSpaced'
  <2> SUFFICES ASSUME NEW s \in Sellers, NEW a \in Recorded(s)', NEW b \in Recorded(s)',
                      a # b, soldOn[a] <= soldOn[b]
               PROVE  \/ soldOn[b] >= soldOn[a] + CooldownDays
                      \/ \E r \in Undone(s)' : decided'[r].day > soldOn[b]
    BY DEF SalesSpaced
  <2>1. CASE a \in Recorded(s) /\ b \in Recorded(s)
    <3>1. \A r \in Undone(s) : r # p
      BY <1>3 DEF Undone, Sold
    <3>2. Undone(s)' = Undone(s) /\ \A r \in Undone(s) : decided'[r] = decided[r]
      BY <1>5, <1>7, <3>1 DEF Undone, Sold
    <3> QED
      BY <2>1, <3>2 DEF RowsInv, SalesSpaced
  <2>2. CASE ~(a \in Recorded(s) /\ b \in Recorded(s))
    <3>1. s = seller /\ p \in {a, b}
      BY <1>7, <2>2
    <3>2. soldOn[b] = pass.today
      <4>1. a \in Players /\ b \in Players
        BY DEF Recorded, Sold
      <4> QED
        BY <1>1, <1>2, <1>4, <3>1, <4>1 DEF DayOrNone
    <3>3. PICK c \in Recorded(seller) : soldOn[c] = soldOn[a] \/ soldOn[c] = soldOn[b]
      BY <1>7, <3>1
    <3>4. CASE \E r \in Sold(seller) : decided[r].day > pass.today
      <4>1. PICK r \in Sold(seller) : decided[r].day > pass.today
        BY <3>4
      <4>2. r # p /\ r \in Players /\ soldOn[r] <= pass.today
        BY <1>2, <1>6, <4>1 DEF Sold
      <4>3. decided[r].day \in DayOrNone /\ soldOn[r] \in DayOrNone
        BY <1>1, <4>2 DEF DecisionType
      <4>4. r \in Undone(seller)
        BY <1>1, <4>1, <4>2, <4>3 DEF Undone, Recorded, DayOrNone
      <4> QED
        BY <1>5, <1>7, <3>1, <3>2, <4>1, <4>2, <4>4
    <3>5. CASE \A r \in Sold(seller) : ~(decided[r].day > pass.today)
      <4>1. \A r \in Sold(seller) : decided[r].day <= pass.today
        BY <1>1, <3>5 DEF Sold, DecisionType, DayOrNone
      <4>2. \A r \in Sold(seller) : pass.today - decided[r].day >= CooldownDays
        BY <1>1, <1>4, <4>1, AcquisitionAssumption DEF InCooldown, Sold, DecisionType, DayOrNone
      <4>3. c \in Sold(seller) /\ soldOn[c] = decided[c].day
        BY DEF Recorded
      <4>4. pass.today - soldOn[c] >= CooldownDays
        BY <4>2, <4>3
      <4>5. soldOn[a] \in Nat /\ soldOn[c] \in Nat /\ pass.today \in Nat
        BY <1>1, <4>3 DEF Recorded, Sold, DayOrNone
      <4>6. CASE soldOn[c] = soldOn[a]
        BY <3>2, <4>4, <4>5, <4>6, AcquisitionAssumption
      <4>7. CASE soldOn[c] = soldOn[b]
        <5>1. CooldownDays = 0
          BY <3>2, <4>4, <4>5, <4>7, AcquisitionAssumption
        <5> QED
          BY <3>2, <4>5, <5>1
      <4> QED BY <3>3, <4>6, <4>7
    <3> QED BY <3>4, <3>5
  <2> QED BY <2>1, <2>2
<1> QED
  BY <1>8, <1>9, <1>10 DEF RowsInv

\* The row of the decision is written or lost; the offer is done with.
LEMMA DecideKeeps ==
    ASSUME TypeOK, PassInv, RowsInv, Decide
    PROVE  PassInv' /\ RowsInv'
<1>1. PICK o \in pass.pick, ok \in BOOLEAN :
        /\ decided' = IF ok THEN [decided EXCEPT ![o[2]] =
                                     [day |-> pass.today, moved |-> pass.moved]]
                      ELSE decided
        /\ pass' = [pass EXCEPT !.at = "selling", !.pick = {}, !.moved = FALSE,
                       !.sold = IF ok /\ pass.moved
                                THEN @ \cup {SellerOf[o[2]]} ELSE @]
  BY DEF Decide
<1>2. /\ At("assigned") /\ pass \in PassType
      /\ UNCHANGED <<soldOn, day, disk>>
  BY DEF Decide, TypeOK, game, saves
<1>3. /\ pass'.at = "selling" /\ pass'.today = pass.today /\ pass'.queue = pass.queue
      /\ pass'.pick = {}
  BY <1>1, <1>2 DEF PassType
<1>4. o[2] \in Players /\ decided \in [Players -> DecisionType]
  BY <1>1, <1>2 DEF TypeOK, PassType, Requests
<1>5. PassInv'
  <2>1. SalesAreOfThePast'
    BY <1>2, <1>3 DEF PassInv, SalesAreOfThePast, At, Working
  <2>2. \A q \in pass.queue : decided[q[2]].day = 0 /\ q[2] # o[2]
    BY <1>1 DEF PassInv, PendingIsUndecided
  <2>3. \A q \in pass.queue : decided'[q[2]].day = 0
    BY <1>1, <1>4, <2>2
  <2>4. PendingIsUndecided'
    BY <1>3, <2>3 DEF PendingIsUndecided
  <2>5. ChosenMaySell'
    BY <1>3 DEF ChosenMaySell
  <2> QED BY <2>1, <2>4, <2>5 DEF PassInv
<1>6. CASE ~ok
  BY <1>1, <1>2, <1>5, <1>6, RowsKept
<1>7. CASE ok /\ pass.moved
  <2>1. pass.moved = TRUE
    BY <1>2, <1>7 DEF PassType
  <2>2. decided' = [decided EXCEPT ![o[2]] = [day |-> pass.today, moved |-> TRUE]]
    BY <1>1, <1>7, <2>1
  <2> QED
    BY <1>1, <1>2, <1>5, <1>7, <2>2, SaleRecorded
<1>8. CASE ok /\ ~pass.moved
  <2>1. /\ ~decided[o[2]].moved /\ ~decided'[o[2]].moved
        /\ \A q \in Players : q # o[2] => decided'[q] = decided[q]
    BY <1>1, <1>4, <1>8 DEF PassInv, PendingIsUndecided, RowsInv, TransfersAreDated
  <2>2. \A s : Sold(s)' = Sold(s)
    BY <1>4, <2>1 DEF Sold
  <2>3. \A s : Recorded(s)' = Recorded(s) /\ Undone(s)' = Undone(s)
    BY <1>2, <2>1, <2>2 DEF Recorded, Undone, Sold
  <2>4. \A s : \A q \in Sold(s) : decided'[q] = decided[q]
    BY <2>1 DEF Sold
  <2>5. TransfersAreDated' /\ SaveHoldsNoMore'
    BY <1>2, <2>1 DEF RowsInv, TransfersAreDated, SaveHoldsNoMore
  <2>6. LimitKept'
    BY <2>2 DEF RowsInv, LimitKept
  <2>7. SalesSpaced'
    BY <1>2, <2>3, <2>4 DEF RowsInv, SalesSpaced, Undone
  <2> QED BY <1>5, <2>5, <2>6, <2>7 DEF RowsInv
<1> QED
  BY <1>5, <1>6, <1>7, <1>8

\* The game comes back as it was saved: what was recorded and is not in the save is
\* undone, and nothing that was undone is recorded again.
LEMMA RestartKeeps ==
    ASSUME TypeOK, PassInv, RowsInv, Restart
    PROVE  PassInv' /\ RowsInv'
<1>1. /\ day' = disk.day /\ soldOn' = disk.soldOn /\ pass' = NoPass
      /\ UNCHANGED <<decided, disk>>
  BY DEF Restart, GiveUp, sql
<1>2. pass'.at = "idle" /\ pass'.pick = {} /\ pass'.queue = {}
  BY <1>1 DEF NoPass
<1>3. PassInv'
  <2>1. SalesAreOfThePast'
    BY <1>1, <1>2 DEF PassInv, SalesAreOfThePast, At, Working
  <2> QED
    BY <1>2, <2>1 DEF PassInv, PendingIsUndecided, ChosenMaySell
<1>4. /\ \A s : Sold(s)' = Sold(s)
      /\ \A s : Recorded(s)' \subseteq Recorded(s) /\ Undone(s) \subseteq Undone(s)'
      /\ \A s : \A p \in Recorded(s)' : soldOn'[p] = soldOn[p]
  BY <1>1 DEF Sold, Recorded, Undone, RowsInv, SaveHoldsNoMore
<1>5. TransfersAreDated' /\ SaveHoldsNoMore'
  BY <1>1 DEF RowsInv, TransfersAreDated, SaveHoldsNoMore
<1>6. LimitKept'
  BY <1>4 DEF RowsInv, LimitKept
<1>7. SalesSpaced'
  BY <1>1, <1>4 DEF RowsInv, SalesSpaced
<1> QED
  BY <1>3, <1>5, <1>6, <1>7 DEF RowsInv

\* Every other step of the pass leaves the sales alone and chooses no offer.
LEMMA SalesStep == TypeOK /\ PassInv /\ RowsInv /\ [Next]_vars => PassInv' /\ RowsInv'
<1> SUFFICES ASSUME TypeOK, PassInv, RowsInv, [Next]_vars PROVE PassInv' /\ RowsInv'
  OBVIOUS
<1> USE DEF sql, memory, game, saves, At, Go, GiveUp, Act, Working
<1>a. pass \in PassType
  BY DEF TypeOK
<1>b. pass.at \notin {"chosen", "assigned"} => pass.pick = {}
  BY DEF PassInv, PendingIsUndecided
<1>1. CASE Wake
  <2>1. /\ pass.at = "idle"
        /\ pass' = pass \/ pass' = [NoPass EXCEPT !.at = "begun", !.today = day]
    BY <1>1 DEF Wake
  <2>2. /\ pass'.pick = {} /\ pass'.queue \subseteq pass.queue
        /\ pass'.at = "idle" \/ pass'.today = day
    <3>1. CASE pass' = pass
      BY <1>b, <2>1, <3>1
    <3>2. CASE pass' = [NoPass EXCEPT !.at = "begun", !.today = day]
      BY <1>a, <3>2, PassFields
    <3> QED BY <2>1, <3>1, <3>2
  <2> QED BY <1>1, <2>2, NoneChosen, RowsKept DEF Wake
<1>2. CASE Postpone \/ Audit
  BY <1>2, <1>a, PassFields, NoneChosen, RowsKept DEF Postpone, Audit
<1>3. CASE Enter \/ Bypass \/ SkipDay \/ CloseDay \/ OpenDay \/ CutOffers \/ MarkDay
  <2>1. PICK a \in Steps : pass' = [pass EXCEPT !.at = a]
    BY <1>3 DEF Enter, Bypass, SkipDay, CloseDay, OpenDay, CutOffers, MarkDay, Steps
  <2>2. /\ pass.at \in {"begun", "entered", "offering", "sold"}
        /\ UNCHANGED <<decided, soldOn, day, disk>>
    BY <1>3 DEF Enter, Bypass, SkipDay, CloseDay, OpenDay, CutOffers, MarkDay
  <2>3. pass'.pick = {} /\ pass'.queue = pass.queue /\ pass'.today = pass.today
    BY <1>a, <1>b, <2>1, <2>2, PassFields
  <2> QED BY <2>2, <2>3, NoneChosen, RowsKept
<1>4. ASSUME NEW b \in Clubs, NEW p \in Players, Offer(b, p) PROVE PassInv' /\ RowsInv'
  BY <1>4, <1>b, NoneChosen, RowsKept DEF Offer
<1>5. CASE LoadQueue
  <2>1. pass'.pick = {} /\ pass'.queue = Open /\ pass'.today = pass.today
    BY <1>5, <1>a, <1>b, PassFields DEF LoadQueue
  <2> QED BY <1>5, <2>1, NoneChosen, RowsKept DEF LoadQueue
<1>6. ASSUME NEW o \in pass.queue, Defer(o) PROVE PassInv' /\ RowsInv'
  <2>1. pass'.pick = {} /\ pass'.queue \subseteq pass.queue /\ pass'.today = pass.today
    BY <1>6, <1>a, <1>b, PassFields DEF Defer, Without
  <2> QED BY <1>6, <2>1, NoneChosen, RowsKept DEF Defer
<1>7. ASSUME NEW o \in pass.queue, Choose(o) PROVE PassInv' /\ RowsInv'
  BY <1>7, ChooseKeeps, RowsKept DEF Choose
<1>8. CASE Transfer
  BY <1>8, TransferKeeps
<1>9. CASE Decide
  BY <1>9, DecideKeeps
<1>10. CASE EndSales \/ CutSales
  <2>1. pass'.pick = {} /\ pass'.queue \subseteq pass.queue /\ pass'.today = pass.today
    <3>1. CASE EndSales
      BY <3>1, <1>a, <1>b DEF EndSales, PassType
    <3>2. CASE CutSales
      BY <3>2, <1>a, PassFields DEF CutSales
    <3> QED BY <1>10, <3>1, <3>2
  <2>2. UNCHANGED <<decided, soldOn, day, disk>> /\ Working
    BY <1>10 DEF EndSales, CutSales
  <2> QED BY <2>1, <2>2, NoneChosen, RowsKept
<1>11. ASSUME NEW b \in UserClubs, NEW p \in Players, Submit(b, p) \/ Withdraw(b, p)
       PROVE PassInv' /\ RowsInv'
  <2>1. UNCHANGED <<decided, soldOn, day, disk, pass>>
    BY <1>11 DEF Submit, Withdraw
  <2>2. PassInv'
    BY <2>1 DEF PassInv, SalesAreOfThePast, PendingIsUndecided, ChosenMaySell, AtLimit,
       InCooldown, Sold
  <2> QED BY <2>1, <2>2, RowsKept
<1>12. CASE \/ NextDay \/ BeginSave \/ WriteSave \/ EndSave
            \/ Switch \/ Shutdown \/ DateReady \/ UNCHANGED vars
  <2>1. /\ UNCHANGED <<decided, soldOn, pass>> /\ day' \in {day, day + 1}
        /\ \/ disk' = disk
           \/ disk'.soldOn = soldOn /\ disk'.day = day /\ day' = day
    <3>1. CASE WriteSave
      BY <3>1 DEF WriteSave
    <3> QED BY <1>12, <3>1 DEF NextDay, BeginSave, EndSave, Switch, Shutdown, DateReady, vars
  <2>2. PassInv'
    <3>1. SalesAreOfThePast'
      <4>1. \A p \in Players : soldOn[p] \in Nat
        BY AcquisitionAssumption DEF TypeOK, DayOrNone
      <4>2. day \in Nat /\ pass.today \in Nat
        BY <1>a, AcquisitionAssumption DEF TypeOK, PassType, DayOrNone
      <4> QED BY <2>1, <4>1, <4>2 DEF PassInv, SalesAreOfThePast
    <3> QED
      BY <2>1, <3>1 DEF PassInv, PendingIsUndecided, ChosenMaySell, AtLimit, InCooldown, Sold
  <2> QED BY <2>1, <2>2, RowsKept
<1>13. CASE Restart
  BY <1>13, RestartKeeps
<1>14. CASE Leave
  BY <1>14, <1>a, <1>b, PassFields, NoneChosen, RowsKept DEF Leave
<1> QED
  BY <1>1, <1>2, <1>3, <1>4, <1>5, <1>6, <1>7, <1>8, <1>9, <1>10, <1>11, <1>12, <1>13,
     <1>14 DEF Next, Pass, User

\* The first state: nothing is sold.
LEMMA SalesInit == Init => PassInv /\ RowsInv
<1> SUFFICES ASSUME Init PROVE PassInv /\ RowsInv
  OBVIOUS
<1>1. pass.at = "idle" /\ pass.pick = {} /\ pass.queue = {}
  BY DEF Init, NoPass
<1>2. PassInv
  BY <1>1 DEF Init, PassInv, SalesAreOfThePast, PendingIsUndecided, ChosenMaySell, At, Working
<1>3. \A s : Sold(s) = {}
  BY DEF Init, Sold
<1>4. TransfersAreDated /\ SaveHoldsNoMore
  BY DEF Init, TransfersAreDated, SaveHoldsNoMore
<1>5. LimitKept /\ SalesSpaced
  BY <1>3, FS_EmptySet, AcquisitionAssumption DEF LimitKept, SalesSpaced, Recorded
<1> QED
  BY <1>2, <1>4, <1>5 DEF RowsInv

\* The limit of the season and the wait between the sales of a team hold for any
\* number of teams, players, restarts, saves in progress and lost rows.
THEOREM Rationed == Spec => []SalesAreRationed
<1>1. TypeOK /\ RowsInv => SalesAreRationed
  <2> SUFFICES ASSUME TypeOK, RowsInv, NEW s \in Sellers
               PROVE  Cardinality(Recorded(s)) <= SeasonLimit
    BY DEF SalesAreRationed, RowsInv, SalesSpaced
  <2>1. Cardinality(Recorded(s)) <= Cardinality(Sold(s)) /\ Cardinality(Recorded(s)) \in Nat
    BY SoldFinite, FS_Subset, FS_CardinalityType DEF Recorded
  <2> QED
    BY <2>1, SoldFinite, AcquisitionAssumption DEF RowsInv, LimitKept
<1> QED
  BY <1>1, TypeInit, TypeStep, SalesInit, SalesStep, PTL DEF Spec

=============================================================================
