----------------------- MODULE CustomEvents_work_proofs -----------------------
(***************************************************************************)
(* Theorems about what CustomEvents does with its events, for every        *)
(* calendar, any number of saves and every bound, in this order:           *)
(*   - the types;                                                          *)
(*   - before the first load a completed event was handled;                *)
(*   - the work of an event is done at most once;                          *)
(*   - what a tick and a scan that end complete have left behind, before   *)
(*     the first load and the first failed write.                          *)
(***************************************************************************)
EXTENDS CustomEvents_proofs, WellFoundedInduction

-----------------------------------------------------------------------------
(***************************************************************************)
(* Types.                                                                  *)
(***************************************************************************)
Outcomes == {"none", "done", "already", "defer", "fail"}

\* Every update that the steps make to a caller's locals keeps their type.
LEMMA LocalUpdates ==
    ASSUME NEW r \in LocalType
    PROVE  /\ NoLocals \in LocalType
           /\ \A b \in BOOLEAN : /\ [r EXCEPT !.deferred = b] \in LocalType
                                 /\ [r EXCEPT !.failed = b] \in LocalType
                                 /\ [r EXCEPT !.critical = b] \in LocalType
           /\ \A n \in {-1, 0, 1} : [r EXCEPT !.result = n] \in LocalType
           /\ \A o \in Outcomes : [r EXCEPT !.outcome = o] \in LocalType
           /\ \A E \in SUBSET Events : /\ [r EXCEPT !.todo = E] \in LocalType
                                       /\ [r EXCEPT !.todo = E, !.blocked = FALSE] \in LocalType
           /\ \A b, c \in BOOLEAN : [r EXCEPT !.ran = b, !.failed = c] \in LocalType
           /\ \A n \in {-1, 0, 1}, b, c \in BOOLEAN, o \in Outcomes :
                [r EXCEPT !.result = n, !.critical = b, !.blocked = c, !.outcome = o]
                    \in LocalType
<1>1. NoLocals \in LocalType
  BY DEF NoLocals, LocalType
<1>2. \A b \in BOOLEAN : /\ [r EXCEPT !.deferred = b] \in LocalType
                         /\ [r EXCEPT !.failed = b] \in LocalType
                         /\ [r EXCEPT !.critical = b] \in LocalType
  BY DEF LocalType
<1>3. /\ \A n \in {-1, 0, 1} : [r EXCEPT !.result = n] \in LocalType
      /\ \A o \in Outcomes : [r EXCEPT !.outcome = o] \in LocalType
  BY DEF LocalType, Outcomes
<1>4. \A E \in SUBSET Events : /\ [r EXCEPT !.todo = E] \in LocalType
                               /\ [r EXCEPT !.todo = E, !.blocked = FALSE] \in LocalType
  BY DEF LocalType
<1>5. \A b, c \in BOOLEAN : [r EXCEPT !.ran = b, !.failed = c] \in LocalType
  BY DEF LocalType
<1>6. \A n \in {-1, 0, 1}, b, c \in BOOLEAN, o \in Outcomes :
        [r EXCEPT !.result = n, !.critical = b, !.blocked = c, !.outcome = o] \in LocalType
  BY DEF LocalType, Outcomes
<1> QED
  BY <1>1, <1>2, <1>3, <1>4, <1>5, <1>6

\* The fields of a caller's locals.
LEMMA LocalFields ==
    ASSUME NEW r \in LocalType
    PROVE  /\ r.deferred \in BOOLEAN /\ r.critical \in BOOLEAN /\ r.ran \in BOOLEAN
           /\ r.failed \in BOOLEAN /\ r.blocked \in BOOLEAN
           /\ r.todo \in SUBSET Events /\ r.result \in {-1, 0, 1}
           /\ r.outcome \in Outcomes
  BY DEF LocalType, Outcomes

\* The rest of TypeOK, apart from the locals and the places of the callers.
SharedTyped ==
    /\ game \in GameType
    /\ stored \in [Saves -> CopyType]
    /\ db \in [Saves -> RowsType]
    /\ published \in DayOrNone
    /\ owed \in {"no", "retry", "entry"}
    /\ processed \in SUBSET Events
    /\ running \in SUBSET Events
    /\ scheduled \in DayOrNone /\ scheduling \in DayOrNone
    /\ scanned \in DayOrNone /\ lastPruned \in DayOrNone
    /\ duePass \in BOOLEAN
    /\ cursorCache \in [save : Saves \cup {NoSave}, value : DayOrNone]
    /\ idleCache \in [at : DayOrNone, next : DayOrNone]
    /\ used \in [DOMAIN Unused -> Nat]

CallersTyped ==
    /\ last \in [Callers -> LastType]
    /\ pc \in [Callers -> Steps]
    /\ event \in [Callers -> DayOrNone]
    /\ inPass \in [Callers -> BOOLEAN]
    /\ direct \in [Callers -> BOOLEAN]
    /\ today \in [Callers -> DayOrNone]
    /\ local \in [Callers -> LocalType]

LEMMA TypeParts == TypeOK <=> SharedTyped /\ CallersTyped
  BY DEF TypeOK, SharedTyped, CallersTyped

\* The event a caller runs is one of the calendar.
AtEvent == {"enter"} \cup RunSteps
RunsAnEvent == \A t \in Callers : pc[t] \in AtEvent => event[t] \in Events

\* A caller goes on, with other locals perhaps.
LEMMA CallerMoves ==
    ASSUME CallersTyped, RunsAnEvent, NEW t \in Callers,
           NEW to \in Steps, pc' = [pc EXCEPT ![t] = to],
           NEW r \in LocalType, local' = [local EXCEPT ![t] = r],
           UNCHANGED place,
           last' = last \/ \E v \in LastType : last' = [last EXCEPT ![t] = v],
           to \in AtEvent => pc[t] \in AtEvent
    PROVE  CallersTyped' /\ RunsAnEvent'
<1>1. /\ last' \in [Callers -> LastType] /\ pc' \in [Callers -> Steps]
      /\ local' \in [Callers -> LocalType]
  BY DEF CallersTyped
<1>2. RunsAnEvent'
  BY DEF CallersTyped, RunsAnEvent, place
<1> QED BY <1>1, <1>2 DEF CallersTyped, place

\* The same when its locals are left alone.
LEMMA CallerGoes ==
    ASSUME CallersTyped, RunsAnEvent, NEW t \in Callers,
           NEW to \in Steps, pc' = [pc EXCEPT ![t] = to],
           UNCHANGED <<local, place>>,
           last' = last \/ \E v \in LastType : last' = [last EXCEPT ![t] = v],
           to \in AtEvent => pc[t] \in AtEvent
    PROVE  CallersTyped' /\ RunsAnEvent'
<1>1. local[t] \in LocalType /\ local' = [local EXCEPT ![t] = local[t]]
  BY DEF CallersTyped
<1> QED BY <1>1, CallerMoves

\* A row of the loaded save keeps its type when one field is assigned.
LEMMA RowUpdates ==
    ASSUME db \in [Saves -> RowsType], game.save \in Saves
    PROVE  /\ \A M \in SUBSET Events :
                /\ [db EXCEPT ![game.save].markers = M] \in [Saves -> RowsType]
                /\ [db EXCEPT ![game.save].ledger = M] \in [Saves -> RowsType]
           /\ \A c \in DayOrNone :
                [db EXCEPT ![game.save].cursor = c] \in [Saves -> RowsType]
           /\ Markers \in SUBSET Events /\ Ledger \in SUBSET Events
           /\ db[game.save].cursor \in DayOrNone
<1>1. db[game.save] \in RowsType
  OBVIOUS
<1>2. Markers \in SUBSET Events /\ Ledger \in SUBSET Events
      /\ db[game.save].cursor \in DayOrNone
  BY <1>1 DEF RowsType, Markers, Ledger
<1>3. \A M \in SUBSET Events :
        /\ [db[game.save] EXCEPT !.markers = M] \in RowsType
        /\ [db[game.save] EXCEPT !.ledger = M] \in RowsType
  BY <1>1 DEF RowsType
<1>4. \A c \in DayOrNone : [db[game.save] EXCEPT !.cursor = c] \in RowsType
  BY <1>1 DEF RowsType
<1> QED BY <1>2, <1>3, <1>4

\* The game keeps its type when an event is flagged or done in it.
LEMMA GameUpdates ==
    ASSUME game \in GameType
    PROVE  /\ game.save \in Saves /\ game.day \in Days /\ game.over \in SUBSET Events
           /\ game.once \in SUBSET Events /\ game.twice \in SUBSET Events
           /\ \A e \in Events : /\ [game EXCEPT !.over = @ \cup {e}] \in GameType
                              /\ [game EXCEPT !.once = @ \cup {e}] \in GameType
                              /\ [game EXCEPT !.twice = @ \cup {e}] \in GameType
<1>1. /\ game.save \in Saves /\ game.day \in Days /\ game.over \in SUBSET Events
      /\ game.once \in SUBSET Events /\ game.twice \in SUBSET Events
  BY DEF GameType, Days
<1>2. \A E \in SUBSET Events : /\ [game EXCEPT !.over = E] \in GameType
                             /\ [game EXCEPT !.once = E] \in GameType
                             /\ [game EXCEPT !.twice = E] \in GameType
  BY DEF GameType
<1> QED BY <1>1, <1>2

\* The first state is typed.
LEMMA TypeInit == Init => TypeOK /\ RunsAnEvent
<1> SUFFICES ASSUME Init PROVE TypeOK /\ RunsAnEvent
  OBVIOUS
<1> USE CustomEventsAssumption
<1>1. 1 \in 1 .. MaxDate /\ 0 \in DayOrNone
  BY DEF DayOrNone
<1>2. game \in GameType /\ stored \in [Saves -> CopyType]
  BY <1>1 DEF Init, GameType, CopyType, InGame, Fresh
<1>3. db \in [Saves -> RowsType]
  BY <1>1 DEF Init, RowsType
<1>4. /\ cursorCache \in [save : Saves \cup {NoSave}, value : DayOrNone]
      /\ idleCache \in [at : DayOrNone, next : DayOrNone]
  BY <1>1 DEF Init, NoCursor, NoCache
<1>5. last \in [Callers -> LastType] /\ local \in [Callers -> LocalType]
  BY <1>1 DEF Init, LastType, NoLocals, LocalType
<1>6. pc \in [Callers -> Steps]
  BY DEF Init, Steps
<1>7. used \in [DOMAIN Unused -> Nat]
  BY DEF Init, Unused
<1>8. RunsAnEvent
  BY DEF Init, RunsAnEvent, AtEvent, RunSteps
<1> QED
  BY <1>1, <1>2, <1>3, <1>4, <1>5, <1>6, <1>7, <1>8 DEF Init, TypeOK

\* A tick begins, at the schedule.
LEMMA TickTyped ==
    ASSUME CallersTyped, RunsAnEvent, NEW t \in Callers, NEW d \in DayOrNone,
           StartTick(t, d)
    PROVE  CallersTyped' /\ RunsAnEvent'
<1>1. pc' \in [Callers -> Steps] /\ today' \in [Callers -> DayOrNone]
  BY DEF StartTick, Goto, CallersTyped, Steps
<1>2. RunsAnEvent'
  BY DEF StartTick, Goto, CallersTyped, RunsAnEvent, AtEvent, RunSteps
<1> QED BY <1>1, <1>2 DEF StartTick, CallersTyped

\* A set of days has a first one.
DayLess == {ss \in Nat \X Nat : ss[1] < ss[2]}

LEMMA FirstDay ==
    ASSUME NEW D, D \subseteq Nat, D # {}
    PROVE  \E d \in D : \A e \in D : d <= e
<1>1. IsWellFoundedOn(DayLess, Nat)
  <2>1. OpToRel(<, Nat) = DayLess
    BY Zenon DEF OpToRel, DayLess
  <2> QED BY Zenon, <2>1, NatLessThanWellFounded
<1>2. \E d \in D : \A e \in D : ~(<<e, d>> \in DayLess)
  BY <1>1, WFMin
<1>3. ASSUME NEW d \in D, NEW e \in D, ~(<<e, d>> \in DayLess)
      PROVE  d <= e
  <2>1. d \in Nat /\ e \in Nat /\ <<e, d>> \in Nat \X Nat
    OBVIOUS
  <2>2. ~(e < d)
    BY <1>3, <2>1 DEF DayLess
  <2> QED BY <2>1, <2>2
<1> QED BY <1>2, <1>3

\* The next due day is a later day of the calendar, and none is passed over; it
\* is 0 when the calendar holds no later one.
LEMMA NextDueIsADay ==
    ASSUME NEW day \in DayOrNone
    PROVE  /\ NextDue(day) \in DayOrNone
           /\ NextDue(day) = 0 <=> \A e \in Events : e <= day
           /\ \A e \in Events : e > day => NextDue(day) <= e
<1> DEFINE later == {e \in Events : e > day}
<1> USE CustomEventsAssumption DEF DayOrNone
<1>1. CASE later = {}
  BY <1>1 DEF NextDue
<1>2. CASE later # {}
  <2>1. later \subseteq Nat
    <3>1. Events \subseteq Nat
      OBVIOUS
    <3> QED BY <3>1
  <2>3. \E e \in later : \A f \in later : e <= f
    <3> HIDE DEF later
    <3> QED BY <1>2, <2>1, FirstDay
  <2>4. NextDue(day) = CHOOSE e \in later : \A f \in later : e <= f
    BY <1>2 DEF NextDue
  <2>5. NextDue(day) \in later /\ \A f \in later : NextDue(day) <= f
    <3> HIDE DEF later
    <3> QED BY <2>3, <2>4
  <2>6. /\ NextDue(day) \in Events /\ NextDue(day) > day
        /\ \A e \in Events : e > day => NextDue(day) <= e
    BY <2>5
  <2>7. day \in Nat /\ NextDue(day) \in 1 .. MaxDate
    <3>1. day \in Nat
      OBVIOUS
    <3>2. Events \subseteq 1 .. MaxDate
      OBVIOUS
    <3> QED BY <2>6, <3>1, <3>2
  <2>8. NextDue(day) # 0 /\ ~(NextDue(day) <= day)
    <3> DEFINE n == NextDue(day)
    <3>1. n \in Nat /\ n # 0 /\ n > day
      BY <2>6, <2>7
    <3> HIDE DEF n
    <3>2. ~(n <= day)
      BY <2>7, <3>1
    <3> QED BY <3>1, <3>2 DEF n
  <2> QED BY <2>6, <2>7, <2>8
<1> QED BY <1>1, <1>2

\* A unit of a bound is taken.
LEMMA UseTyped ==
    ASSUME used \in [DOMAIN Unused -> Nat],
           NEW what \in DOMAIN Unused, NEW limit, Use(what, limit)
    PROVE  used' \in [DOMAIN Unused -> Nat]
  BY DEF Use

\* The player, the game and the two ways a tick begins keep the types.
LEMMA WorldTyped ==
    ASSUME SharedTyped, CallersTyped, RunsAnEvent,
           \/ AdvanceDay \/ DispatchToday \/ PhasePulse \/ SaveGame \/ Restart
           \/ \E s \in Saves : LoadSave(s)
    PROVE  SharedTyped' /\ CallersTyped' /\ RunsAnEvent'
<1> USE CustomEventsAssumption DEF world, dates, caches, locks, place, callers
<1>a. /\ game.save \in Saves /\ game.day \in 1 .. MaxDate /\ 0 \in DayOrNone
      /\ game.day \in DayOrNone
      /\ \A s \in Saves : InGame(s, stored[s]) \in GameType
  BY DEF SharedTyped, GameType, CopyType, InGame, DayOrNone
<1>c. "sync" \in Callers /\ "monitor" \in Callers
  BY DEF Callers
<1>u. DOMAIN Unused = {"pulses", "defers", "failures", "writes", "saves", "loads"}
  BY DEF Unused
<1>1. CASE AdvanceDay
  <2>1. game.day + 1 \in 1 .. MaxDate /\ game.day + 1 \in DayOrNone
    BY <1>1, <1>a DEF AdvanceDay, DayOrNone
  <2>2. game' \in GameType
    BY <1>1, <2>1 DEF AdvanceDay, SharedTyped, GameType
  <2>3. CallersTyped' /\ RunsAnEvent'
    BY <1>1, <1>c, <2>1, TickTyped DEF AdvanceDay
  <2> QED BY <1>1, <2>1, <2>2, <2>3 DEF AdvanceDay, StartTick, SharedTyped
<1>2. CASE DispatchToday
  <2>1. CallersTyped' /\ RunsAnEvent'
    BY <1>2, <1>a, <1>c, TickTyped DEF DispatchToday
  <2> QED BY <1>2, <1>a, <2>1 DEF DispatchToday, StartTick, SharedTyped
<1>3. CASE PhasePulse
  <2>1. CallersTyped' /\ RunsAnEvent'
    BY <1>3, <1>c, TickTyped DEF PhasePulse, SharedTyped
  <2>2. used' \in [DOMAIN Unused -> Nat]
    BY <1>3, <1>u, UseTyped DEF PhasePulse, SharedTyped
  <2> QED BY <1>3, <2>1, <2>2 DEF PhasePulse, StartTick, SharedTyped
<1>4. CASE SaveGame
  <2>1. Copy(game) \in CopyType
    BY DEF SharedTyped, GameType, CopyType, Copy
  <2>2. stored' \in [Saves -> CopyType]
    BY <1>4, <1>a, <2>1 DEF SaveGame, SharedTyped
  <2>3. used' \in [DOMAIN Unused -> Nat]
    BY <1>4, <1>u, UseTyped DEF SaveGame, SharedTyped
  <2> QED BY <1>4, <2>2, <2>3 DEF SaveGame, SharedTyped, CallersTyped, RunsAnEvent
<1>5. CASE Restart
  <2>1. game' \in GameType
    BY <1>5, <1>a DEF Restart
  <2>2. used' \in [DOMAIN Unused -> Nat]
    BY <1>5, <1>u, UseTyped DEF Restart, SharedTyped
  <2>3. last' \in [Callers -> LastType] /\ local' \in [Callers -> LocalType]
    BY <1>5, <1>a DEF Restart, LastType, NoLocals, LocalType
  <2>4. CallersTyped' /\ RunsAnEvent'
    BY <1>5, <1>a, <2>3 DEF Restart, CallersTyped, RunsAnEvent, AtEvent, RunSteps, Steps
  <2>5. /\ cursorCache' \in [save : Saves \cup {NoSave}, value : DayOrNone]
        /\ idleCache' \in [at : DayOrNone, next : DayOrNone]
    BY <1>5, <1>a DEF Restart, NoCursor, NoCache
  <2> QED BY <1>5, <1>a, <2>1, <2>2, <2>4, <2>5 DEF Restart, SharedTyped
<1>6. ASSUME NEW s \in Saves, LoadSave(s)
      PROVE  SharedTyped' /\ CallersTyped' /\ RunsAnEvent'
  <2>1. game' \in GameType
    BY <1>6, <1>a DEF LoadSave
  <2>2. used' \in [DOMAIN Unused -> Nat]
    BY <1>6, <1>u, UseTyped DEF LoadSave, SharedTyped
  <2>3. idleCache' \in [at : DayOrNone, next : DayOrNone]
    BY <1>6, <1>a DEF LoadSave, NoCache
  <2> QED BY <1>6, <2>1, <2>2, <2>3 DEF LoadSave, SharedTyped, CallersTyped, RunsAnEvent
<1> QED BY <1>1, <1>2, <1>3, <1>4, <1>5, <1>6

\* The steps of a caller keep the types, action by action.
LEMMA StepTyped ==
    ASSUME SharedTyped, CallersTyped, RunsAnEvent, NEW t \in Callers, Step(t)
    PROVE  SharedTyped' /\ CallersTyped' /\ RunsAnEvent'
<1> USE CustomEventsAssumption DEF world, dates, caches, locks
<1>a. /\ local[t] \in LocalType /\ today[t] \in DayOrNone /\ event[t] \in DayOrNone
      /\ last[t] \in LastType /\ 0 \in DayOrNone
      /\ pc[t] \in AtEvent => event[t] \in Events
  BY DEF CallersTyped, RunsAnEvent, DayOrNone
<1>b. /\ game.save \in Saves
      /\ \A v \in DayOrNone : /\ [last[t] EXCEPT !.scheduled = v] \in LastType
                             /\ [last[t] EXCEPT !.scanned = v] \in LastType
  BY <1>a, GameUpdates DEF SharedTyped, LastType
<1>s. /\ scheduled \in DayOrNone /\ scanned \in DayOrNone
      /\ db \in [Saves -> RowsType] /\ game \in GameType
      /\ processed \in SUBSET Events /\ running \in SUBSET Events
      /\ published \in DayOrNone
      /\ cursorCache \in [save : Saves \cup {NoSave}, value : DayOrNone]
  BY DEF SharedTyped
<1>m. Markers \in SUBSET Events /\ Ledger \in SUBSET Events /\ CursorValue \in DayOrNone
  BY <1>b, <1>s, RowUpdates DEF CursorValue
<1>p. \A M \in SUBSET Events :
         Prune(M) => db' \in [Saves -> RowsType] /\ lastPruned' \in DayOrNone
  <2> SUFFICES ASSUME NEW M \in SUBSET Events, Prune(M)
               PROVE  db' \in [Saves -> RowsType] /\ lastPruned' \in DayOrNone
    OBVIOUS
  <2>1. db' = [db EXCEPT ![game.save].markers = M] /\ lastPruned' = published
    BY DEF Prune
  <2> QED BY <1>b, <1>s, <2>1, RowUpdates
<1>u. /\ DOMAIN Unused = {"pulses", "defers", "failures", "writes", "saves", "loads"}
      /\ used \in [DOMAIN Unused -> Nat]
  BY DEF Unused, SharedTyped
<1>1. CASE CheckScheduled(t)
  <2>1. PICK to \in {"scanCheck", "claim"} : pc' = [pc EXCEPT ![t] = to]
    BY <1>1 DEF CheckScheduled, Goto
  <2>2. last' = last \/ \E v \in LastType : last' = [last EXCEPT ![t] = v]
    BY <1>1, <1>b, <1>s DEF CheckScheduled
  <2>3. CallersTyped' /\ RunsAnEvent'
    BY <1>1, <2>1, <2>2, CallerGoes DEF CheckScheduled, Steps, AtEvent, RunSteps
  <2> QED BY <1>1, <2>3 DEF CheckScheduled, SharedTyped
<1>2. CASE ClaimSchedule(t)
  <2>1. PICK to \in {"due", "scanCheck"}, b \in BOOLEAN :
          /\ pc' = [pc EXCEPT ![t] = to]
          /\ local' = local \/ local' = [local EXCEPT ![t].deferred = b]
    BY <1>2 DEF ClaimSchedule, Goto
  <2>2. to \in Steps /\ to \notin AtEvent
    BY DEF Steps, ScheduleSteps, AtEvent, RunSteps
  <2>3. CallersTyped' /\ RunsAnEvent'
    BY <1>2, <1>a, <2>1, <2>2, LocalUpdates, CallerGoes, CallerMoves DEF ClaimSchedule
  <2>4. scheduling' \in DayOrNone
    BY <1>2, <1>a DEF ClaimSchedule, SharedTyped
  <2> QED BY <1>2, <2>3, <2>4 DEF ClaimSchedule, SharedTyped
<1>3. CASE ClaimPass(t)
  <2>1. PICK to \in {"cursor", "passDone"}, b \in BOOLEAN :
          /\ pc' = [pc EXCEPT ![t] = to]
          /\ local' = local \/ local' = [local EXCEPT ![t].failed = b]
    BY <1>3 DEF ClaimPass, Goto
  <2>2. to \in Steps /\ to \notin AtEvent
    BY DEF Steps, ScheduleSteps, PassSteps, AtEvent, RunSteps
  <2>3. CallersTyped' /\ RunsAnEvent'
    BY <1>3, <1>a, <2>1, <2>2, LocalUpdates, CallerGoes, CallerMoves DEF ClaimPass
  <2> QED BY <1>3, <2>3 DEF ClaimPass, SharedTyped
<1>4. CASE ReadCursor(t)
  <2>1. cursorCache' \in [save : Saves \cup {NoSave}, value : DayOrNone]
    BY <1>4, <1>b, <1>m DEF ReadCursor
  <2>2. CASE Goto(t, "cursor", "passDone")
    <3>1. UNCHANGED <<local, inPass, direct>> /\ duePass' = FALSE
      BY <1>4, <2>2 DEF ReadCursor, Goto, CallersTyped
    <3>2. CallersTyped' /\ RunsAnEvent'
      BY <1>4, <2>2, <3>1, CallerGoes
         DEF ReadCursor, Goto, place, Steps, ScheduleSteps, AtEvent, RunSteps
    <3> QED BY <1>4, <2>1, <3>1, <3>2 DEF ReadCursor, SharedTyped
  <2>3. CASE Goto(t, "cursor", "direct")
    <3>1. /\ inPass' = [inPass EXCEPT ![t] = TRUE] /\ direct' = [direct EXCEPT ![t] = TRUE]
          /\ local' = [local EXCEPT ![t].todo = Direct] /\ UNCHANGED duePass
      BY <1>4, <2>3 DEF ReadCursor, Goto, CallersTyped
    <3>2. local' \in [Callers -> LocalType]
      <4>1. [local[t] EXCEPT !.todo = Direct] \in LocalType
        BY <1>a, LocalUpdates
      <4> QED BY <3>1, <4>1 DEF CallersTyped
    <3>3. pc' \in [Callers -> Steps]
      BY <2>3 DEF Goto, CallersTyped, Steps, ScheduleSteps, PassSteps
    <3>4. RunsAnEvent'
      BY <1>4, <2>3 DEF ReadCursor, Goto, CallersTyped, RunsAnEvent, AtEvent, RunSteps
    <3> QED BY <1>4, <2>1, <3>1, <3>2, <3>3, <3>4 DEF ReadCursor, SharedTyped, CallersTyped
  <2> QED BY <1>4, <2>2, <2>3 DEF ReadCursor
<1>5. CASE DirectStep(t)
  <2>1. CASE Goto(t, "direct", "scan")
    <3>1. direct' = [direct EXCEPT ![t] = FALSE] /\ UNCHANGED <<event, local, db, lastPruned>>
      BY <1>5, <2>1 DEF DirectStep, Goto, CallersTyped
    <3>2. pc' \in [Callers -> Steps] /\ RunsAnEvent'
      BY <2>1, <3>1 DEF Goto, CallersTyped, RunsAnEvent, AtEvent, RunSteps, Steps,
         ScheduleSteps, PassSteps, ScanSteps
    <3> QED BY <1>5, <3>1, <3>2 DEF DirectStep, SharedTyped, CallersTyped
  <2>2. CASE ~Goto(t, "direct", "scan")
    <3>1. PICK e \in DirectEvents(t), to \in {"direct", "enter"} :
            /\ local' = [local EXCEPT ![t].todo = @ \ {e}]
            /\ event' = [event EXCEPT ![t] = e]
            /\ UNCHANGED direct /\ Prune(Markers) /\ Goto(t, "direct", to)
      BY <1>5, <2>2 DEF DirectStep
    <3>2. e \in Events /\ e \in DayOrNone
      <4>1. e \in local[t].todo
        BY <3>1 DEF DirectEvents
      <4>2. e \in Events
        BY <1>a, <4>1, LocalFields
      <4> QED BY <4>2 DEF DayOrNone
    <3>3. local' \in [Callers -> LocalType]
      <4>1. local[t].todo \ {e} \in SUBSET Events
        BY <1>a, LocalFields
      <4>2. [local[t] EXCEPT !.todo = local[t].todo \ {e}] \in LocalType
        BY <1>a, <4>1, LocalUpdates
      <4> QED BY <3>1, <4>2 DEF CallersTyped
    <3>4. pc' \in [Callers -> Steps] /\ RunsAnEvent' /\ event' \in [Callers -> DayOrNone]
      BY <3>1, <3>2 DEF Goto, CallersTyped, RunsAnEvent, AtEvent, RunSteps, Steps,
         ScheduleSteps, PassSteps, ScanSteps
    <3> QED BY <1>5, <1>m, <1>p, <3>1, <3>3, <3>4 DEF DirectStep, SharedTyped, CallersTyped
  <2> QED BY <2>1, <2>2
<1>6. CASE StartScan(t)
  <2>1. PICK to \in {"scanned", "look"}, r \in LocalType :
          pc' = [pc EXCEPT ![t] = to] /\ local' = [local EXCEPT ![t] = r]
    <3>1. /\ [local[t] EXCEPT !.result = 0] \in LocalType
          /\ [local[t] EXCEPT !.todo = Events, !.blocked = FALSE] \in LocalType
      BY <1>a, LocalUpdates
    <3> QED BY <1>6, <3>1 DEF StartScan, Goto
  <2>2. to \in Steps /\ to \notin AtEvent
    BY DEF Steps, ScheduleSteps, PassSteps, ScanSteps, AtEvent, RunSteps
  <2>3. CallersTyped' /\ RunsAnEvent'
    BY <1>6, <2>1, <2>2, CallerMoves DEF StartScan
  <2> QED BY <1>6, <2>3 DEF StartScan, SharedTyped
<1>7. CASE Look(t)
  <2>1. PICK e \in Candidates(t), to \in {"look", "enter"} :
          /\ Goto(t, "look", to)
          /\ game' \in {game, [game EXCEPT !.over = @ \cup {e}]}
          /\ processed' \in {processed, processed \cup {e}}
          /\ Prune(Markers) \/ Prune(Markers \cup {e})
          /\ event' = [event EXCEPT ![t] = e]
          /\ local' = [local EXCEPT ![t].todo = @ \ {e}]
    BY <1>7 DEF Look
  <2>2. e \in Events /\ e \in DayOrNone
    <3>1. e \in local[t].todo
      BY <2>1 DEF Candidates
    <3>2. e \in Events
      BY <1>a, <3>1, LocalFields
    <3> QED BY <3>2 DEF DayOrNone
  <2>3. local' \in [Callers -> LocalType]
    <3>1. local[t].todo \ {e} \in SUBSET Events
      BY <1>a, LocalFields
    <3>2. [local[t] EXCEPT !.todo = local[t].todo \ {e}] \in LocalType
      BY <1>a, <3>1, LocalUpdates
    <3> QED BY <2>1, <3>2 DEF CallersTyped
  <2>4. pc' \in [Callers -> Steps] /\ RunsAnEvent' /\ event' \in [Callers -> DayOrNone]
    BY <2>1, <2>2 DEF Goto, CallersTyped, RunsAnEvent, AtEvent, RunSteps, Steps,
       ScheduleSteps, PassSteps, ScanSteps
  <2>5. game' \in GameType /\ processed' \in SUBSET Events
    BY <1>s, <2>1, <2>2, GameUpdates
  <2>6. db' \in [Saves -> RowsType] /\ lastPruned' \in DayOrNone
    BY <1>m, <1>p, <2>1, <2>2
  <2> QED BY <1>7, <2>3, <2>4, <2>5, <2>6 DEF Look, SharedTyped, CallersTyped
<1>8. CASE EndScan(t)
  <2>1. PICK n \in {-1, 0} : local' = [local EXCEPT ![t].result = n]
    BY <1>8 DEF EndScan
  <2>r. [local[t] EXCEPT !.result = n] \in LocalType
    BY <1>a, LocalUpdates
  <2>2. CallersTyped' /\ RunsAnEvent'
    <3>1. /\ "scanned" \in Steps /\ "scanned" \notin AtEvent
          /\ pc' = [pc EXCEPT ![t] = "scanned"]
      BY <1>8 DEF EndScan, Goto, Steps, ScheduleSteps, PassSteps, ScanSteps, AtEvent, RunSteps
    <3>2. UNCHANGED place /\ last' = last
      BY <1>8 DEF EndScan
    <3> QED BY <2>1, <2>r, <3>1, <3>2, CallerMoves
  <2>3. idleCache' \in [at : DayOrNone, next : DayOrNone]
    <3>1. NextDue(today[t]) \in DayOrNone
      BY <1>a, NextDueIsADay
    <3> QED BY <1>8, <1>a, <3>1 DEF EndScan, SharedTyped
  <2> QED BY <1>8, <2>2, <2>3 DEF EndScan, SharedTyped
<1>9. CASE EnterRun(t)
  <2>1. event[t] \in Events
    BY <1>9, <1>a DEF EnterRun, Goto, AtEvent
  <2>2. CASE Goto(t, "enter", "recheck") /\ UNCHANGED local
    <3>1. CallersTyped' /\ RunsAnEvent'
      BY <1>9, <2>2, CallerGoes DEF EnterRun, Goto, Steps, ScheduleSteps, PassSteps, ScanSteps,
         AtEvent, RunSteps
    <3>2. running' \in SUBSET Events
      BY <1>9, <1>s, <2>1 DEF EnterRun
    <3> QED BY <1>9, <3>1, <3>2 DEF EnterRun, SharedTyped
  <2>3. CASE Goto(t, "enter", After(t)) /\ local' = [local EXCEPT ![t].critical = @ \/ direct[t]]
    <3>1. (local[t].critical \/ direct[t]) \in BOOLEAN
      OBVIOUS
    <3>2. [local[t] EXCEPT !.critical = local[t].critical \/ direct[t]] \in LocalType
      BY <1>a, <3>1, LocalUpdates
    <3>3. CallersTyped' /\ RunsAnEvent'
      BY <1>9, <2>3, <3>2, CallerMoves DEF EnterRun, After, Goto, Steps, ScheduleSteps,
         PassSteps, ScanSteps, AtEvent, RunSteps
    <3>4. running' \in SUBSET Events
      BY <1>9, <1>s, <2>1 DEF EnterRun
    <3> QED BY <1>9, <3>3, <3>4 DEF EnterRun, SharedTyped
  <2> QED BY <1>9, <2>2, <2>3 DEF EnterRun
<1>10. CASE Recheck(t)
  <2>1. PICK to \in {"mark", "handler"}, r \in LocalType :
          pc' = [pc EXCEPT ![t] = to] /\ local' = [local EXCEPT ![t] = r]
    <3>1. [local[t] EXCEPT !.outcome = "already"] \in LocalType
      BY <1>a, LocalUpdates DEF Outcomes
    <3>2. local = [local EXCEPT ![t] = local[t]]
      BY DEF CallersTyped
    <3> QED BY <1>10, <1>a, <3>1, <3>2 DEF Recheck, Goto
  <2>2. to \in Steps /\ pc[t] \in AtEvent
    BY <1>10 DEF Recheck, Goto, Steps, ScheduleSteps, PassSteps, ScanSteps, AtEvent, RunSteps
  <2>3. CallersTyped' /\ RunsAnEvent'
    BY <1>10, <2>1, <2>2, CallerMoves DEF Recheck
  <2>4. db' \in [Saves -> RowsType] /\ lastPruned' \in DayOrNone
    BY <1>10, <1>m, <1>p DEF Recheck, SharedTyped
  <2> QED BY <1>10, <2>3, <2>4 DEF Recheck, SharedTyped
<1>11. CASE HandlerDone(t)
  <2>1. [local[t] EXCEPT !.outcome = "done"] \in LocalType /\ event[t] \in Events
    BY <1>11, <1>a, LocalUpdates DEF HandlerDone, Goto, AtEvent, RunSteps, Outcomes
  <2>2. CallersTyped' /\ RunsAnEvent'
    BY <1>11, <2>1, CallerMoves DEF HandlerDone, Goto, Steps, ScheduleSteps, PassSteps,
       ScanSteps, AtEvent, RunSteps
  <2>3. game' \in GameType
    BY <1>11, <1>s, <2>1, GameUpdates DEF HandlerDone
  <2> QED BY <1>11, <2>2, <2>3 DEF HandlerDone, SharedTyped
<1>12. CASE HandlerDefers(t) \/ HandlerFails(t)
  <2>1. PICK o \in {"defer", "fail"} : local' = [local EXCEPT ![t].outcome = o]
    BY <1>12 DEF HandlerDefers, HandlerFails
  <2>2. CallersTyped' /\ RunsAnEvent'
    BY <1>12, <1>a, <2>1, LocalUpdates, CallerMoves DEF HandlerDefers, HandlerFails, Goto,
       Steps, ScheduleSteps, PassSteps, ScanSteps, AtEvent, RunSteps, Outcomes
  <2>3. used' \in [DOMAIN Unused -> Nat]
    BY <1>12, <1>u, UseTyped DEF HandlerDefers, HandlerFails
  <2> QED BY <1>12, <2>2, <2>3 DEF HandlerDefers, HandlerFails, SharedTyped
<1>13. CASE Mark(t)
  <2>1. event[t] \in Events
    BY <1>13, <1>a DEF Mark, Goto, AtEvent, RunSteps
  <2>2. CallersTyped' /\ RunsAnEvent'
    BY <1>13, CallerGoes DEF Mark, Goto, Steps, ScheduleSteps, PassSteps, ScanSteps, AtEvent,
       RunSteps
  <2>3. game' \in GameType /\ processed' \in SUBSET Events
    BY <1>13, <1>s, <2>1, GameUpdates DEF Mark
  <2> QED BY <1>13, <2>2, <2>3 DEF Mark, SharedTyped
<1>14. CASE WriteMarker(t)
  <2>1. event[t] \in Events
    BY <1>14, <1>a DEF WriteMarker, Goto, AtEvent, RunSteps
  <2>2. CallersTyped' /\ RunsAnEvent'
    BY <1>14, CallerGoes DEF WriteMarker, Goto, Steps, ScheduleSteps, PassSteps, ScanSteps,
       AtEvent, RunSteps
  <2>3. db' \in [Saves -> RowsType] /\ lastPruned' \in DayOrNone
    BY <1>14, <1>m, <1>p, <2>1 DEF WriteMarker
  <2>4. used' \in [DOMAIN Unused -> Nat]
    BY <1>14, <1>u, UseTyped DEF WriteMarker
  <2> QED BY <1>14, <2>2, <2>3, <2>4 DEF WriteMarker, SharedTyped
<1>15. CASE RecordRun(t)
  <2>1. event[t] \in Events
    BY <1>15, <1>a DEF RecordRun, Goto, AtEvent, RunSteps
  <2>2. CallersTyped' /\ RunsAnEvent'
    BY <1>15, CallerGoes DEF RecordRun, Goto, Steps, ScheduleSteps, PassSteps, ScanSteps,
       AtEvent, RunSteps
  <2>3. Ledger \cup {event[t]} \in SUBSET Events
    BY <1>m, <2>1
  <2>4. db' \in [Saves -> RowsType]
    <3>1. CASE db' = [db EXCEPT ![game.save].ledger = @ \cup {event[t]}]
      <4>1. db' = [db EXCEPT ![game.save].ledger = Ledger \cup {event[t]}]
        BY <3>1 DEF Ledger
      <4> QED BY <1>b, <1>s, <2>3, <4>1, RowUpdates
    <3> QED BY <1>15, <1>s, <3>1 DEF RecordRun
  <2>5. used' \in [DOMAIN Unused -> Nat]
    BY <1>15, <1>u, UseTyped DEF RecordRun
  <2> QED BY <1>15, <2>2, <2>4, <2>5 DEF RecordRun, SharedTyped
<1>16. CASE LeaveRun(t)
  <2> DEFINE ran == local[t].outcome \in {"done", "already"}
             c == local[t].critical \/ (direct[t] /\ ~ran)
             b == local[t].blocked \/ (~direct[t] /\ local[t].outcome = "defer")
             n == IF ran THEN 1 ELSE 0
             r == [local[t] EXCEPT !.result = n, !.critical = c, !.blocked = b,
                                   !.outcome = "none"]
  <2>1. c \in BOOLEAN /\ b \in BOOLEAN /\ n \in {-1, 0, 1} /\ "none" \in Outcomes
    BY DEF Outcomes
  <2>2. local' = [local EXCEPT ![t] = r]
    BY <1>16 DEF LeaveRun
  <2>3. r \in LocalType
    <3> HIDE DEF c, b, n
    <3> QED BY <1>a, <2>1, LocalUpdates
  <2>4. PICK to \in {"scanned", "direct", "look"} : pc' = [pc EXCEPT ![t] = to]
    BY <1>16 DEF LeaveRun, Goto, After
  <2> HIDE DEF r
  <2>5. CallersTyped' /\ RunsAnEvent'
    BY <1>16, <2>2, <2>3, <2>4, CallerMoves DEF LeaveRun, Goto, Steps, ScheduleSteps, PassSteps,
       ScanSteps, AtEvent, RunSteps
  <2>6. running' \in SUBSET Events
    BY <1>16, <1>s DEF LeaveRun
  <2> QED BY <1>16, <2>5, <2>6 DEF LeaveRun, SharedTyped
<1>17. CASE PassScanned(t)
  <2> DEFINE b == local[t].ran \/ local[t].result > 0
             c == local[t].result < 0 /\ ~local[t].ran
  <2>1. b \in BOOLEAN /\ c \in BOOLEAN
    OBVIOUS
  <2>2. local' = [local EXCEPT ![t] = [local[t] EXCEPT !.ran = b, !.failed = c]]
    BY <1>17 DEF PassScanned
  <2>3. [local[t] EXCEPT !.ran = b, !.failed = c] \in LocalType
    <3> HIDE DEF b, c
    <3> QED BY <1>a, <2>1, LocalUpdates
  <2>4. PICK to \in {"scan", "passEnd"} : pc' = [pc EXCEPT ![t] = to]
    BY <1>17 DEF PassScanned, Goto
  <2> HIDE DEF b, c
  <2>5. CallersTyped' /\ RunsAnEvent'
    BY <1>17, <2>2, <2>3, <2>4, CallerMoves DEF PassScanned, Steps, ScheduleSteps, PassSteps,
       ScanSteps, AtEvent, RunSteps
  <2> QED BY <1>17, <2>5 DEF PassScanned, SharedTyped
<1>18. CASE PassEnd(t)
  <2>1. local' \in [Callers -> LocalType]
    <3> DEFINE b == local[t].failed \/ local[t].critical
    <3>1. b \in BOOLEAN /\ local' = [local EXCEPT ![t] = [local[t] EXCEPT !.failed = b]]
      BY <1>18 DEF PassEnd
    <3> HIDE DEF b
    <3>2. [local[t] EXCEPT !.failed = b] \in LocalType
      BY <1>a, <3>1, LocalUpdates
    <3> QED BY <3>1, <3>2 DEF CallersTyped
  <2>2. /\ inPass' \in [Callers -> BOOLEAN] /\ pc' \in [Callers -> Steps]
        /\ RunsAnEvent'
    BY <1>18 DEF PassEnd, Goto, CallersTyped, RunsAnEvent, AtEvent, RunSteps, Steps,
       ScheduleSteps
  <2>3. /\ db' \in [Saves -> RowsType]
        /\ cursorCache' \in [save : Saves \cup {NoSave}, value : DayOrNone]
        /\ used' \in [DOMAIN Unused -> Nat]
    <3>1. CASE /\ db' = [db EXCEPT ![game.save].cursor = today[t]]
               /\ cursorCache' = [save |-> game.save, value |-> today[t]]
               /\ UNCHANGED used
      BY <1>a, <1>b, <1>s, <1>u, <3>1, RowUpdates
    <3>2. CASE Use("writes", MaxBadWrites) /\ UNCHANGED <<db, cursorCache>>
      BY <1>s, <1>u, <3>2, UseTyped
    <3>3. CASE UNCHANGED <<db, cursorCache, used>>
      BY <1>s, <1>u, <3>3
    <3> QED BY <1>18, <3>1, <3>2, <3>3 DEF PassEnd
  <2> QED BY <1>18, <2>1, <2>2, <2>3 DEF PassEnd, SharedTyped, CallersTyped
<1>19. CASE ReleaseSchedule(t)
  <2>1. [local[t] EXCEPT !.deferred = local[t].failed] \in LocalType
    BY <1>a, LocalUpdates, LocalFields
  <2>2. PICK to \in {"scanCheck", "setScheduled"} : pc' = [pc EXCEPT ![t] = to]
    BY <1>19 DEF ReleaseSchedule, Goto
  <2>3. to \in Steps /\ to \notin AtEvent
    BY DEF Steps, AtEvent, RunSteps
  <2>4. CallersTyped' /\ RunsAnEvent'
    BY <1>19, <2>1, <2>2, <2>3, CallerMoves DEF ReleaseSchedule
  <2> QED BY <1>19, <1>a, <2>4 DEF ReleaseSchedule, SharedTyped
<1>20. CASE SetScheduled(t) \/ SetScanned(t)
  <2>1. PICK v \in LastType : last' = [last EXCEPT ![t] = v]
    BY <1>20, <1>a, <1>b DEF SetScheduled, SetScanned
  <2>2. CallersTyped' /\ RunsAnEvent'
    BY <1>20, <2>1, CallerGoes DEF SetScheduled, SetScanned, Goto, Steps, AtEvent, RunSteps
  <2> QED BY <1>20, <1>a, <2>2 DEF SetScheduled, SetScanned, SharedTyped
<1>21. CASE CheckScanned(t)
  <2>1. PICK to \in {"end", "scan"} : pc' = [pc EXCEPT ![t] = to]
    BY <1>21 DEF CheckScanned, Goto
  <2>2. last' = last \/ \E v \in LastType : last' = [last EXCEPT ![t] = v]
    BY <1>21, <1>b, <1>s DEF CheckScanned
  <2>3. CallersTyped' /\ RunsAnEvent'
    BY <1>21, <2>1, <2>2, CallerGoes DEF CheckScanned, Steps, ScheduleSteps, PassSteps,
       ScanSteps, AtEvent, RunSteps
  <2> QED BY <1>21, <2>3 DEF CheckScanned, SharedTyped
<1>22. CASE TickScanned(t)
  <2>1. PICK v \in LastType, r \in LocalType :
          /\ last' = last \/ last' = [last EXCEPT ![t] = v]
          /\ local' = [local EXCEPT ![t] = r]
    <3>1. local = [local EXCEPT ![t] = local[t]] /\ [local[t] EXCEPT !.deferred = TRUE] \in LocalType
      BY <1>a, LocalUpdates DEF CallersTyped
    <3> QED BY <1>22, <1>a, <1>b, <3>1 DEF TickScanned
  <2>2. CallersTyped' /\ RunsAnEvent'
    <3>1. "end" \in Steps /\ "end" \notin AtEvent /\ pc' = [pc EXCEPT ![t] = "end"]
      BY <1>22 DEF TickScanned, Goto, Steps, AtEvent, RunSteps
    <3> QED BY <1>22, <2>1, <3>1, CallerMoves DEF TickScanned
  <2>3. scanned' \in DayOrNone
    BY <1>22, <1>a, <1>s DEF TickScanned
  <2> QED BY <1>22, <2>2, <2>3 DEF TickScanned, SharedTyped
<1>23. CASE EndTick(t)
  <2>1. /\ event' \in [Callers -> DayOrNone] /\ today' \in [Callers -> DayOrNone]
        /\ local' \in [Callers -> LocalType] /\ pc' \in [Callers -> Steps]
    BY <1>23, <1>a, LocalUpdates DEF EndTick, Goto, CallersTyped, Steps
  <2>2. RunsAnEvent'
    BY <1>23 DEF EndTick, Goto, CallersTyped, RunsAnEvent, AtEvent, RunSteps
  <2> QED BY <1>23, <2>1, <2>2 DEF EndTick, SharedTyped, CallersTyped
<1> QED
  BY <1>1, <1>2, <1>3, <1>4, <1>5, <1>6, <1>7, <1>8, <1>9, <1>10, <1>11, <1>12, <1>13,
     <1>14, <1>15, <1>16, <1>17, <1>18, <1>19, <1>20, <1>21, <1>22, <1>23 DEF Step

\* Every step of a caller or of the world keeps the types.
LEMMA TypeStep == TypeOK /\ RunsAnEvent /\ [Next]_vars => TypeOK' /\ RunsAnEvent'
<1> SUFFICES ASSUME SharedTyped, CallersTyped, RunsAnEvent, [Next]_vars
             PROVE  SharedTyped' /\ CallersTyped' /\ RunsAnEvent'
  BY TypeParts, PTL
<1>1. CASE UNCHANGED vars
  BY <1>1 DEF vars, world, dates, caches, locks, callers, place, SharedTyped, CallersTyped,
     RunsAnEvent
<1> QED BY <1>1, WorldTyped, StepTyped DEF Next

\* Every variable keeps its type, for every calendar, any number of saves, loads,
\* deferrals, failures and lost writes.
THEOREM EventsTypeCorrect == Spec => []TypeOK
  BY TypeInit, TypeStep, PTL DEF Spec

-----------------------------------------------------------------------------
(***************************************************************************)
(* What is completed, and what is done, in one session of the game.        *)
(***************************************************************************)
Rows == db[game.save]
Completions == Rows.markers \cup Rows.ledger

\* The game was neither restarted nor another save loaded yet.
FirstSession == used.loads = 0

\* Callers between the handler, or the look that found it unneeded, and the record.
Finishing == {"mark", "marker", "record"}

\* The handler of its event is done, and that is not recorded yet.
Effected(t) == pc[t] \in Finishing /\ local[t].outcome = "done"

\* No date of the session is later than the published one, so no marker is.
DatesOfSession ==
    /\ published <= game.day
    /\ \A t \in Callers : /\ today[t] <= published
                          /\ pc[t] \in AtEvent => event[t] <= today[t]
    /\ \A m \in Rows.markers : m <= published

\* CompletedWasHandled, with the cache of processed events and the callers that
\* are about to complete one.
AllHandled ==
    /\ game.over \cup Completions \cup processed \subseteq game.once
    /\ \A t \in Callers : pc[t] \in Finishing => event[t] \in game.once

\* What was done is completed, or the caller that did it is about to complete it;
\* a lost marker was the first lost write.
AllCompleted ==
    \A e \in game.once :
        \/ e \in Completions
        \/ \E t \in Callers : /\ Effected(t) /\ event[t] = e
                              /\ pc[t] = "record" => used.writes # 0

\* The event in a handler is not completed.
InHandler == \A t \in Callers : pc[t] = "handler" => event[t] \notin Completions

SessionInv ==
    FirstSession =>
        /\ DatesOfSession /\ AllHandled
        /\ used.writes <= 1 => AllCompleted /\ InHandler /\ game.twice = {}

\* Across sessions, while the monitor thread never ran and no write was lost: what
\* a game holds, loaded or stored, is in the ledger of its save.
StoredRecorded ==
    \A s \in Saves : stored[s].once \subseteq db[s].ledger /\ stored[s].twice = {}
DoneRecorded ==
    /\ \A e \in game.once : \/ e \in Rows.ledger
                            \/ Effected("sync") /\ event["sync"] = e
    /\ pc["sync"] = "handler" => event["sync"] \notin Rows.ledger
    /\ game.twice = {}

RestartInv ==
    used.pulses = 0 /\ used.writes = 0 =>
        pc["monitor"] = "idle" /\ StoredRecorded /\ DoneRecorded

-----------------------------------------------------------------------------
(***************************************************************************)
(* What a complete tick leaves undone.                                     *)
(***************************************************************************)
Undisturbed == FirstSession /\ used.defers = 0 /\ used.failures = 0

\* Every event due up to the day is done, or in the run that will do it.
Settled(day) == \A e \in Events : e <= day => e \in game.once \cup running

\* The caches of what was processed hold only settled days.
CachesSettled ==
    /\ Settled(scheduled)
    /\ \A t \in Callers : Settled(last[t].scheduled)
    /\ Settled(Rows.cursor)
    /\ cursorCache.save = game.save => Settled(cursorCache.value)
    /\ Settled(idleCache.at)
    /\ \A e \in Events : e > idleCache.at /\ idleCache.at # 0 =>
                           idleCache.next # 0 /\ idleCache.next <= e

\* The events that a scan will still look at, or is about to run.
InScan(t) == IF pc[t] = "look" THEN local[t].todo
             ELSE IF pc[t] = "enter" THEN local[t].todo \cup {event[t]}
             ELSE Events

\* How far a caller has brought its day.
CallerSettles(t) ==
    /\ pc[t] \in {"look", "enter"} /\ ~direct[t] =>
         \A e \in Events : e <= today[t] => e \in InScan(t) \cup game.once \cup running
    /\ pc[t] = "direct" => direct[t]
    /\ ~local[t].blocked
    /\ local[t].result \in {0, 1}
    /\ local[t].outcome \notin {"defer", "fail"}
    /\ pc[t] = "leave" => event[t] \in game.once /\ local[t].outcome \in {"done", "already"}
    /\ pc[t] \in Finishing => local[t].outcome \in {"done", "already"}
    /\ pc[t] = "scanned" /\ local[t].result = 0 => Settled(today[t])
    /\ pc[t] \in {"passEnd", "setScheduled", "setScanned"} => Settled(today[t])
    /\ pc[t] = "passDone" /\ ~local[t].failed => Settled(today[t])
    /\ /\ pc[t] \in {"scanCheck", "end"} \cup ScanSteps
       /\ ~inPass[t] /\ ~local[t].deferred
       => Settled(today[t])

TickInv ==
    Undisturbed => /\ CachesSettled
                   /\ \A t \in Callers : CallerSettles(t)
                   /\ pc["sync"] # "idle" => today["sync"] = game.day

-----------------------------------------------------------------------------
(***************************************************************************)
(* Frames of the steps.                                                    *)
(***************************************************************************)

\* A step of one caller leaves the other one alone.
LEMMA OthersStay ==
    ASSUME CallersTyped, NEW t \in Callers, Step(t), NEW u \in Callers, u # t
    PROVE  /\ pc'[u] = pc[u] /\ event'[u] = event[u] /\ today'[u] = today[u]
           /\ inPass'[u] = inPass[u] /\ direct'[u] = direct[u]
           /\ local'[u] = local[u] /\ last'[u] = last[u]
<1> USE DEF CallersTyped, Goto, place
<1>1. CASE CheckScheduled(t)
  BY <1>1 DEF CheckScheduled
<1>2. CASE ClaimSchedule(t)
  BY <1>2 DEF ClaimSchedule
<1>3. CASE ClaimPass(t)
  BY <1>3 DEF ClaimPass
<1>4. CASE ReadCursor(t)
  BY <1>4 DEF ReadCursor
<1>5. CASE DirectStep(t)
  BY <1>5 DEF DirectStep
<1>6. CASE StartScan(t)
  BY <1>6 DEF StartScan
<1>7. CASE Look(t)
  BY <1>7 DEF Look
<1>8. CASE EndScan(t)
  BY <1>8 DEF EndScan
<1>9. CASE EnterRun(t)
  BY <1>9 DEF EnterRun
<1>10. CASE Recheck(t)
  BY <1>10 DEF Recheck
<1>11. CASE HandlerDone(t)
  BY <1>11 DEF HandlerDone
<1>12. CASE HandlerDefers(t)
  BY <1>12 DEF HandlerDefers
<1>13. CASE HandlerFails(t)
  BY <1>13 DEF HandlerFails
<1>14. CASE Mark(t)
  BY <1>14 DEF Mark
<1>15. CASE WriteMarker(t)
  BY <1>15 DEF WriteMarker
<1>16. CASE RecordRun(t)
  BY <1>16 DEF RecordRun
<1>17. CASE LeaveRun(t)
  BY <1>17 DEF LeaveRun
<1>18. CASE PassScanned(t)
  BY <1>18 DEF PassScanned
<1>19. CASE PassEnd(t)
  BY <1>19 DEF PassEnd
<1>20. CASE ReleaseSchedule(t)
  BY <1>20 DEF ReleaseSchedule
<1>21. CASE SetScheduled(t)
  BY <1>21 DEF SetScheduled
<1>22. CASE SetScanned(t)
  BY <1>22 DEF SetScanned
<1>23. CASE CheckScanned(t)
  BY <1>23 DEF CheckScanned
<1>24. CASE TickScanned(t)
  BY <1>24 DEF TickScanned
<1>25. CASE EndTick(t)
  BY <1>25 DEF EndTick
<1> QED
  BY <1>1, <1>2, <1>3, <1>4, <1>5, <1>6, <1>7, <1>8, <1>9, <1>10, <1>11, <1>12, <1>13,
     <1>14, <1>15, <1>16, <1>17, <1>18, <1>19, <1>20, <1>21, <1>22, <1>23, <1>24, <1>25 DEF Step

\* A step takes from no bound but those of the handlers and the writes.
LEMMA StepUses ==
    ASSUME used \in [DOMAIN Unused -> Nat], NEW t \in Callers, Step(t)
    PROVE  /\ used'.loads = used.loads /\ used'.pulses = used.pulses
           /\ used'.writes \in Nat /\ used.writes <= used'.writes
           /\ used'.defers \in Nat /\ used.defers <= used'.defers
           /\ used'.failures \in Nat /\ used.failures <= used'.failures
<1> USE DEF Unused
<1>a. CASE UNCHANGED used
  BY <1>a
<1>b. CASE \/ Use("defers", MaxDefers) \/ Use("failures", MaxFailures)
           \/ Use("writes", MaxBadWrites)
  BY <1>b DEF Use
<1>1. CASE CheckScheduled(t)
  BY <1>1, <1>a, <1>b DEF CheckScheduled
<1>2. CASE ClaimSchedule(t)
  BY <1>2, <1>a, <1>b DEF ClaimSchedule
<1>3. CASE ClaimPass(t)
  BY <1>3, <1>a, <1>b DEF ClaimPass
<1>4. CASE ReadCursor(t)
  BY <1>4, <1>a, <1>b DEF ReadCursor
<1>5. CASE DirectStep(t)
  BY <1>5, <1>a, <1>b DEF DirectStep
<1>6. CASE StartScan(t)
  BY <1>6, <1>a, <1>b DEF StartScan
<1>7. CASE Look(t)
  BY <1>7, <1>a, <1>b DEF Look
<1>8. CASE EndScan(t)
  BY <1>8, <1>a, <1>b DEF EndScan
<1>9. CASE EnterRun(t)
  BY <1>9, <1>a, <1>b DEF EnterRun
<1>10. CASE Recheck(t)
  BY <1>10, <1>a, <1>b DEF Recheck
<1>11. CASE HandlerDone(t)
  BY <1>11, <1>a, <1>b DEF HandlerDone
<1>12. CASE HandlerDefers(t)
  BY <1>12, <1>a, <1>b DEF HandlerDefers
<1>13. CASE HandlerFails(t)
  BY <1>13, <1>a, <1>b DEF HandlerFails
<1>14. CASE Mark(t)
  BY <1>14, <1>a, <1>b DEF Mark
<1>15. CASE WriteMarker(t)
  BY <1>15, <1>a, <1>b DEF WriteMarker
<1>16. CASE RecordRun(t)
  BY <1>16, <1>a, <1>b DEF RecordRun
<1>17. CASE LeaveRun(t)
  BY <1>17, <1>a, <1>b DEF LeaveRun
<1>18. CASE PassScanned(t)
  BY <1>18, <1>a, <1>b DEF PassScanned
<1>19. CASE PassEnd(t)
  BY <1>19, <1>a, <1>b DEF PassEnd
<1>20. CASE ReleaseSchedule(t)
  BY <1>20, <1>a, <1>b DEF ReleaseSchedule
<1>21. CASE SetScheduled(t)
  BY <1>21, <1>a, <1>b DEF SetScheduled
<1>22. CASE SetScanned(t)
  BY <1>22, <1>a, <1>b DEF SetScanned
<1>23. CASE CheckScanned(t)
  BY <1>23, <1>a, <1>b DEF CheckScanned
<1>24. CASE TickScanned(t)
  BY <1>24, <1>a, <1>b DEF TickScanned
<1>25. CASE EndTick(t)
  BY <1>25, <1>a, <1>b DEF EndTick
<1> QED
  BY <1>1, <1>2, <1>3, <1>4, <1>5, <1>6, <1>7, <1>8, <1>9, <1>10, <1>11, <1>12, <1>13,
     <1>14, <1>15, <1>16, <1>17, <1>18, <1>19, <1>20, <1>21, <1>22, <1>23, <1>24, <1>25 DEF Step

\* The rows of the loaded save.
LEMMA RowsTyped ==
    ASSUME SharedTyped
    PROVE  /\ Rows.markers \subseteq Events /\ Rows.ledger \subseteq Events
           /\ Rows.cursor \in DayOrNone /\ game.save \in Saves /\ Rows \in RowsType
<1>1. game.save \in Saves /\ db \in [Saves -> RowsType]
  BY GameUpdates DEF SharedTyped
<1>2. Rows \in RowsType
  BY <1>1 DEF Rows
<1> QED BY <1>1, <1>2 DEF RowsType

\* A look at the markers, whether it prunes, adds one, or neither, changes no other
\* field of the save's rows.
LEMMA PruneRows ==
    ASSUME db \in [Saves -> RowsType], game.save \in Saves, game'.save = game.save,
           NEW M \in SUBSET Events, Prune(M)
    PROVE  /\ Rows'.markers = M /\ Rows'.ledger = Rows.ledger /\ Rows'.cursor = Rows.cursor
<1>1. db[game.save] \in RowsType
  OBVIOUS
<1>2. Rows' = [Rows EXCEPT !.markers = M]
  BY DEF Prune, Rows
<1> QED BY <1>1, <1>2 DEF Rows, RowsType

-----------------------------------------------------------------------------
(***************************************************************************)
(* The first session.                                                      *)
(***************************************************************************)
LEMMA SessionInit == Init => SessionInv
<1> SUFFICES ASSUME Init PROVE SessionInv
  OBVIOUS
<1>1. /\ Completions = {} /\ Rows.markers = {} /\ game.once = {} /\ game.over = {}
      /\ game.twice = {} /\ game.day = 1
  BY DEF Init, Completions, Rows, InGame, Fresh
<1>2. DatesOfSession
  BY <1>1 DEF Init, DatesOfSession, AtEvent, RunSteps
<1>3. AllHandled /\ AllCompleted /\ InHandler
  BY <1>1 DEF Init, AllHandled, AllCompleted, InHandler, Finishing
<1> QED BY <1>1, <1>2, <1>3 DEF SessionInv

\* The player and the game: only a restart or a load ends the session.
LEMMA SessionWorld ==
    ASSUME SharedTyped, CallersTyped, SessionInv,
           \/ AdvanceDay \/ DispatchToday \/ PhasePulse \/ SaveGame \/ Restart
           \/ \E s \in Saves : LoadSave(s)
    PROVE  SessionInv'
<1> USE DEF world, dates, caches, locks, place, callers
<1>1. CASE Restart \/ \E s \in Saves : LoadSave(s)
  <2>1. used'.loads = used.loads + 1 /\ used.loads \in Nat
    BY <1>1 DEF Restart, LoadSave, Use, SharedTyped, Unused
  <2>2. ~FirstSession'
    BY <2>1 DEF FirstSession
  <2> QED BY <2>2 DEF SessionInv
<1>2. CASE AdvanceDay \/ DispatchToday \/ PhasePulse \/ SaveGame
  <2>1. /\ UNCHANGED db
        /\ game'.save = game.save /\ game'.over = game.over /\ game'.once = game.once
        /\ game'.twice = game.twice /\ processed' = processed
    BY <1>2 DEF AdvanceDay, DispatchToday, PhasePulse, SaveGame, StartTick, SharedTyped, GameType
  <2>2. UNCHANGED <<Rows, Completions>>
    BY <2>1 DEF Rows, Completions
  <2>3. used'.loads = used.loads /\ used'.writes = used.writes
    BY <1>2 DEF AdvanceDay, DispatchToday, PhasePulse, SaveGame, Use, SharedTyped, Unused
  <2>4. \A t \in Callers : /\ pc'[t] = pc[t] \/ pc'[t] = "schedule"
                           /\ event'[t] = event[t] /\ local'[t] = local[t]
    BY <1>2 DEF AdvanceDay, DispatchToday, PhasePulse, SaveGame, StartTick, Goto, CallersTyped
  <2>5. \A t \in Callers : pc'[t] # pc[t] => pc[t] = "idle"
    BY <1>2 DEF AdvanceDay, DispatchToday, PhasePulse, SaveGame, StartTick, Goto, CallersTyped
  <2>6. FirstSession => AllHandled' /\ (used.writes <= 1 => AllCompleted' /\ InHandler')
    BY <2>1, <2>2, <2>3, <2>4, <2>5
       DEF SessionInv, AllHandled, AllCompleted, InHandler, Effected, Finishing
  <2>7. ASSUME FirstSession PROVE DatesOfSession'
    <3>1. /\ DatesOfSession /\ game.day \in Nat /\ published \in Nat
          /\ \A t \in Callers : today[t] \in Nat /\ event[t] \in Nat
          /\ \A m \in Rows.markers : m \in Nat
      <4>1. Rows.markers \subseteq Events
        BY RowsTyped
      <4>2. Events \subseteq Nat /\ MaxDate \in Nat
        BY CustomEventsAssumption
      <4>3. game.day \in 1 .. MaxDate /\ published \in DayOrNone
        BY GameUpdates DEF SharedTyped, Days
      <4>4. \A t \in Callers : today[t] \in DayOrNone /\ event[t] \in DayOrNone
        BY DEF CallersTyped
      <4>5. DatesOfSession
        BY <2>7 DEF SessionInv
      <4>6. \A t \in Callers : today[t] \in Nat /\ event[t] \in Nat
        BY <4>2, <4>4 DEF DayOrNone
      <4>7. game.day \in Nat /\ published \in Nat
        BY <4>2, <4>3 DEF DayOrNone
      <4> QED BY <4>1, <4>2, <4>5, <4>6, <4>7
    <3>2. /\ game'.day \in Nat /\ published' \in Nat /\ published <= published'
          /\ published' <= game'.day
          /\ \A t \in Callers : today'[t] = today[t] \/ today'[t] = published'
      BY <1>2, <3>1 DEF AdvanceDay, DispatchToday, PhasePulse, SaveGame, StartTick,
         DatesOfSession, CallersTyped, SharedTyped, GameType
    <3>3. \A t \in Callers : /\ today'[t] <= published'
                             /\ pc'[t] \in AtEvent => event'[t] <= today'[t]
      <4> SUFFICES ASSUME NEW t \in Callers
                   PROVE  /\ today'[t] <= published'
                          /\ pc'[t] \in AtEvent => event'[t] <= today'[t]
        OBVIOUS
      <4>1. today'[t] <= published'
        BY <3>1, <3>2 DEF DatesOfSession
      <4>2. CASE pc'[t] = pc[t]
        <5>1. pc[t] \in AtEvent => today'[t] = today[t]
          BY <1>2, <4>2 DEF AdvanceDay, DispatchToday, PhasePulse, SaveGame, StartTick, Goto,
             CallersTyped, AtEvent, RunSteps
        <5> QED BY <2>4, <3>1, <4>1, <4>2, <5>1 DEF DatesOfSession
      <4>3. CASE pc'[t] # pc[t]
        BY <2>4, <4>1, <4>3 DEF AtEvent, RunSteps
      <4> QED BY <4>2, <4>3
    <3>4. \A m \in Rows'.markers : m <= published'
      BY <2>2, <3>1, <3>2 DEF DatesOfSession
    <3> QED BY <3>2, <3>3, <3>4 DEF DatesOfSession
  <2> QED BY <2>1, <2>3, <2>6, <2>7 DEF SessionInv, FirstSession
<1> QED BY <1>1, <1>2


\* Every step but those of a run's handler and completion: nothing is done in the
\* game or completed, and the caller is in neither of them.
LEMMA SessionCarriedOn ==
    ASSUME SharedTyped, CallersTyped, SessionInv, NEW t \in Callers, Step(t), FirstSession,
           game'.once = game.once, game'.twice = game.twice, game'.day = game.day,
           game'.over \cup processed' \subseteq game.once,
           Completions' = Completions, \A m \in Rows'.markers : m <= published,
           published' = published, today'[t] <= published,
           pc[t] \notin Finishing, pc'[t] \notin Finishing \cup {"handler"},
           pc'[t] \in AtEvent => event'[t] <= today'[t]
    PROVE  SessionInv'
<1>1. used'.loads = used.loads /\ used.writes <= used'.writes /\ used'.writes \in Nat
      /\ used.writes \in Nat
  BY StepUses DEF SharedTyped, Unused
<1>2. \A u \in Callers \ {t} : /\ pc'[u] = pc[u] /\ event'[u] = event[u]
                             /\ today'[u] = today[u] /\ local'[u] = local[u]
  BY OthersStay
<1>3. DatesOfSession' /\ AllHandled'
  BY <1>2 DEF SessionInv, DatesOfSession, AllHandled
<1>4. ASSUME used'.writes <= 1 PROVE AllCompleted' /\ InHandler' /\ game'.twice = {}
  <2>1. used.writes <= 1 /\ (used.writes # 0 => used'.writes # 0)
    BY <1>1, <1>4
  <2>2. AllCompleted /\ InHandler /\ game.twice = {}
    BY <2>1 DEF SessionInv
  <2>3. AllCompleted'
    BY <1>2, <2>1, <2>2 DEF AllCompleted, Effected
  <2>4. InHandler'
    BY <1>2, <2>2 DEF InHandler
  <2> QED BY <2>2, <2>3, <2>4
<1> QED BY <1>3, <1>4 DEF SessionInv

\* The steps of a caller.
LEMMA SessionStep ==
    ASSUME SharedTyped, CallersTyped, RunsAnEvent, OneRunPerEvent, SessionInv,
           NEW t \in Callers, Step(t)
    PROVE  SessionInv'
<1> USE DEF world, dates, caches, locks, place
<1>u. /\ used'.loads = used.loads /\ used.writes <= used'.writes /\ used'.writes \in Nat
      /\ used.writes \in Nat
  BY StepUses DEF SharedTyped, Unused
<1> SUFFICES ASSUME FirstSession PROVE SessionInv'
  BY <1>u DEF SessionInv, FirstSession
<1>d. /\ DatesOfSession /\ AllHandled
      /\ used.writes <= 1 => AllCompleted /\ InHandler /\ game.twice = {}
  BY DEF SessionInv
<1>n. /\ published \in Nat /\ today[t] \in Nat /\ event[t] \in Nat /\ MaxDate \in Nat
      /\ Events \subseteq Nat /\ Rows.markers \subseteq Events /\ Rows.ledger \subseteq Events
      /\ \A u \in Callers : today[u] \in Nat /\ event[u] \in Nat
      /\ pc \in [Callers -> Steps] /\ local \in [Callers -> LocalType]
      /\ event \in [Callers -> DayOrNone] /\ today \in [Callers -> DayOrNone]
  BY RowsTyped, CustomEventsAssumption DEF SharedTyped, CallersTyped, DayOrNone
<1>m. Markers = Rows.markers /\ Ledger = Rows.ledger
  <2>1. ~Rewound
    <3>1. \A m \in Rows.markers : m <= published /\ m \in Nat
      BY <1>d, <1>n DEF DatesOfSession
    <3>2. \A m \in Rows.markers : ~(m > published)
      BY <1>n, <3>1
    <3> QED BY <3>2 DEF Rewound, Rows
  <2> QED BY <2>1 DEF Markers, Ledger, Rows
<1>o. \A u \in Callers \ {t} : /\ pc'[u] = pc[u] /\ event'[u] = event[u]
                             /\ today'[u] = today[u] /\ local'[u] = local[u]
  BY OthersStay
<1>p. \A M \in SUBSET Events :
        Prune(M) /\ game'.save = game.save => Rows'.markers = M /\ Rows'.ledger = Rows.ledger
  BY PruneRows, RowsTyped DEF SharedTyped
<1>q. \/ CheckScheduled(t) \/ ClaimSchedule(t) \/ ClaimPass(t) \/ ReadCursor(t)
      \/ StartScan(t) \/ EndScan(t) \/ EnterRun(t) \/ HandlerDefers(t)
      \/ HandlerFails(t) \/ LeaveRun(t) \/ PassScanned(t) \/ ReleaseSchedule(t)
      \/ SetScheduled(t) \/ SetScanned(t) \/ CheckScanned(t) \/ TickScanned(t)
      => SessionInv'
  <2> SUFFICES ASSUME \/ CheckScheduled(t) \/ ClaimSchedule(t) \/ ClaimPass(t) \/ ReadCursor(t)
                      \/ StartScan(t) \/ EndScan(t) \/ EnterRun(t) \/ HandlerDefers(t)
                      \/ HandlerFails(t) \/ LeaveRun(t) \/ PassScanned(t) \/ ReleaseSchedule(t)
                      \/ SetScheduled(t) \/ SetScanned(t) \/ CheckScanned(t) \/ TickScanned(t)
               PROVE  SessionInv'
    OBVIOUS
  <2>1. UNCHANGED <<world, processed, event, today>>
    BY DEF CheckScheduled, ClaimSchedule, ClaimPass, ReadCursor, StartScan, EndScan, EnterRun, HandlerDefers, HandlerFails, LeaveRun, PassScanned, ReleaseSchedule, SetScheduled, SetScanned, CheckScanned, TickScanned
  <2>2. /\ pc[t] \notin Finishing /\ pc'[t] \notin Finishing \cup {"handler"}
        /\ pc'[t] \in AtEvent => pc[t] \in AtEvent
    BY <1>n DEF CheckScheduled, ClaimSchedule, ClaimPass, ReadCursor, StartScan, EndScan, EnterRun, HandlerDefers, HandlerFails, LeaveRun, PassScanned, ReleaseSchedule, SetScheduled, SetScanned, CheckScanned, TickScanned, Goto, After,
       Finishing, AtEvent, RunSteps
  <2>3. Completions' = Completions /\ Rows' = Rows
    BY <2>1 DEF Completions, Rows
  <2> QED BY <1>d, <2>1, <2>2, <2>3, SessionCarriedOn DEF DatesOfSession, AllHandled
<1>1. CASE EndTick(t)
  <2>1. /\ UNCHANGED <<game, db, published, processed>> /\ today'[t] = 0
        /\ pc[t] = "end" /\ pc'[t] = "idle"
    BY <1>1, <1>n DEF EndTick, Goto
  <2>2. Completions' = Completions /\ Rows' = Rows
    BY <2>1 DEF Completions, Rows
  <2> QED BY <1>d, <1>n, <2>1, <2>2, SessionCarriedOn DEF DatesOfSession, AllHandled, AtEvent,
          RunSteps, Finishing
<1>2. CASE PassEnd(t)
  <2>1. /\ UNCHANGED <<game, published, processed, event, today>>
        /\ pc[t] = "passEnd" /\ pc'[t] = "passDone"
    BY <1>2, <1>n DEF PassEnd, Goto
  <2>2. Rows'.markers = Rows.markers /\ Rows'.ledger = Rows.ledger
    <3>1. CASE UNCHANGED db
      BY <2>1, <3>1 DEF Rows
    <3>2. CASE db' = [db EXCEPT ![game.save].cursor = today[t]]
      <4>1. Rows' = [Rows EXCEPT !.cursor = today[t]]
        BY <2>1, <3>2, RowsTyped DEF Rows, SharedTyped
      <4> QED BY <4>1, RowsTyped DEF RowsType
    <3> QED BY <1>2, <3>1, <3>2 DEF PassEnd
  <2> QED BY <1>d, <2>1, <2>2, SessionCarriedOn DEF DatesOfSession, AllHandled, AtEvent,
          RunSteps, Finishing, Completions
<1>3. CASE DirectStep(t)
  <2>1. CASE Goto(t, "direct", "scan")
    <3>1. UNCHANGED <<game, db, published, processed, event, today>>
      BY <1>3, <2>1, <1>n DEF DirectStep, Goto
    <3>2. Completions' = Completions /\ Rows' = Rows
      BY <3>1 DEF Completions, Rows
    <3>3. pc[t] = "direct" /\ pc'[t] = "scan"
      BY <2>1, <1>n DEF Goto
    <3> QED BY <1>d, <3>1, <3>2, <3>3, SessionCarriedOn DEF DatesOfSession, AllHandled,
            AtEvent, RunSteps, Finishing
  <2>2. CASE ~Goto(t, "direct", "scan")
    <3>1. PICK e \in DirectEvents(t), to \in {"direct", "enter"} :
            event' = [event EXCEPT ![t] = e] /\ Prune(Markers) /\ Goto(t, "direct", to)
      BY <1>3, <2>2 DEF DirectStep
    <3>2. UNCHANGED <<game, published, processed, today>>
      BY <1>3 DEF DirectStep
    <3>3. Rows'.markers = Rows.markers /\ Rows'.ledger = Rows.ledger
      BY <1>m, <1>n, <1>p, <3>1, <3>2
    <3>4. e <= today[t] /\ event'[t] = e
      BY <1>n, <3>1 DEF DirectEvents
    <3>5. pc[t] = "direct" /\ pc'[t] \in {"direct", "enter"}
      BY <1>n, <3>1 DEF Goto
    <3> QED BY <1>d, <3>2, <3>3, <3>4, <3>5, SessionCarriedOn DEF DatesOfSession, AllHandled,
            Completions, Finishing
  <2> QED BY <2>1, <2>2
<1>4. CASE Look(t)
  <2>1. PICK e \in Candidates(t) :
          /\ event' = [event EXCEPT ![t] = e]
          /\ \/ /\ Goto(t, "look", "look") /\ Completed(e) /\ Prune(Markers \cup {e})
                /\ game' = [game EXCEPT !.over = @ \cup {e}]
                /\ processed' = processed \cup {e}
             \/ Goto(t, "look", "enter") /\ Prune(Markers) /\ UNCHANGED <<game, processed>>
    BY <1>4 DEF Look
  <2>2. UNCHANGED <<published, today>>
    BY <1>4 DEF Look
  <2>3. e <= today[t] /\ e \in Events /\ event'[t] = e /\ e <= published
    <3>1. local[t].todo \in SUBSET Events
      BY <1>n, LocalFields
    <3>2. e <= today[t] /\ e \in Events
      BY <3>1 DEF Candidates
    <3> QED BY <1>d, <1>n, <2>1, <3>2 DEF DatesOfSession
  <2>4. pc[t] = "look" /\ pc'[t] \in {"look", "enter"}
    BY <1>n, <2>1 DEF Goto
  <2>5. CASE Goto(t, "look", "look") /\ Completed(e) /\ Prune(Markers \cup {e})
             /\ game' = [game EXCEPT !.over = @ \cup {e}] /\ processed' = processed \cup {e}
    <3>1. /\ game'.once = game.once /\ game'.twice = game.twice /\ game'.day = game.day
          /\ game'.save = game.save /\ game'.over = game.over \cup {e}
      BY <2>5 DEF SharedTyped, GameType
    <3>2. Rows'.markers = Rows.markers \cup {e} /\ Rows'.ledger = Rows.ledger
      BY <1>m, <1>n, <1>p, <2>3, <2>5, <3>1
    <3>3. e \in Completions /\ e \in game.once
      BY <1>d, <1>m, <2>5 DEF Completed, Completions, AllHandled
    <3>4. Completions' = Completions
      BY <3>2, <3>3 DEF Completions
    <3>5. \A m \in Rows'.markers : m <= published
      BY <1>d, <2>3, <3>2 DEF DatesOfSession
    <3>6. game'.over \cup processed' \subseteq game.once
      BY <1>d, <2>5, <3>1, <3>3 DEF AllHandled
    <3> QED BY <1>d, <2>2, <2>3, <2>4, <3>1, <3>3, <3>4, <3>5, <3>6, SessionCarriedOn
            DEF DatesOfSession, Finishing
  <2>6. CASE Goto(t, "look", "enter") /\ Prune(Markers) /\ UNCHANGED <<game, processed>>
    <3>1. Rows'.markers = Rows.markers /\ Rows'.ledger = Rows.ledger
      BY <1>m, <1>n, <1>p, <2>6
    <3> QED BY <1>d, <2>2, <2>3, <2>4, <2>6, <3>1, SessionCarriedOn
            DEF DatesOfSession, AllHandled, Completions, Finishing
  <2> QED BY <2>1, <2>5, <2>6
<1>5. CASE Recheck(t)
  <2>1. UNCHANGED <<game, processed, published, event, today>>
    BY <1>5 DEF Recheck
  <2>2. Rows'.markers = Rows.markers /\ Rows'.ledger = Rows.ledger
    <3>1. CASE UNCHANGED db
      BY <2>1, <3>1 DEF Rows
    <3>2. CASE Prune(Markers)
      BY <1>m, <1>n, <1>p, <2>1, <3>2
    <3> QED BY <1>5, <3>1, <3>2 DEF Recheck
  <2>3. /\ pc[t] = "recheck" /\ pc'[t] \in {"mark", "handler"}
        /\ pc'[t] = "mark" => event[t] \in Completions
        /\ pc'[t] = "handler" => event[t] \notin Completions
    BY <1>5, <1>m, <1>n DEF Recheck, Goto, Completed, Completions
  <2>4. DatesOfSession'
    BY <1>d, <1>o, <2>1, <2>2, <2>3 DEF DatesOfSession, AtEvent, RunSteps
  <2>5. AllHandled'
    BY <1>d, <1>o, <2>1, <2>2, <2>3 DEF AllHandled, Completions, Finishing
  <2>6. ASSUME used'.writes <= 1 PROVE AllCompleted' /\ InHandler' /\ game'.twice = {}
    <3>1. used.writes <= 1 /\ (used.writes # 0 => used'.writes # 0)
      BY <1>u, <2>6
    <3>2. AllCompleted'
      BY <1>d, <1>o, <2>1, <2>2, <2>3, <3>1
         DEF AllCompleted, Effected, Completions, Finishing
    <3>3. InHandler'
      BY <1>d, <1>o, <2>1, <2>2, <2>3, <3>1 DEF InHandler, Completions
    <3> QED BY <1>d, <2>1, <3>1, <3>2, <3>3
  <2> QED BY <2>4, <2>5, <2>6 DEF SessionInv
<1>6. CASE HandlerDone(t)
  <2>1. /\ UNCHANGED <<db, processed, published, event, today>>
        /\ game'.save = game.save /\ game'.over = game.over /\ game'.day = game.day
        /\ game'.once = game.once \cup {event[t]}
        /\ event[t] \notin game.once => game'.twice = game.twice
    BY <1>6 DEF HandlerDone, SharedTyped, GameType
  <2>2. Rows' = Rows /\ Completions' = Completions
    BY <2>1 DEF Rows, Completions
  <2>3. pc[t] = "handler" /\ pc'[t] = "mark" /\ local'[t].outcome = "done"
    BY <1>6, <1>n DEF HandlerDone, Goto, LocalType
  <2>4. DatesOfSession'
    BY <1>d, <1>o, <2>1, <2>2, <2>3 DEF DatesOfSession, AtEvent, RunSteps
  <2>5. AllHandled'
    BY <1>d, <1>o, <2>1, <2>2, <2>3 DEF AllHandled, Finishing
  <2>6. ASSUME used'.writes <= 1 PROVE AllCompleted' /\ InHandler' /\ game'.twice = {}
    <3>1. used.writes <= 1 /\ (used.writes # 0 => used'.writes # 0)
      BY <1>u, <2>6
    <3>2. AllCompleted /\ InHandler /\ game.twice = {}
      BY <1>d, <3>1
    <3>3. event[t] \notin game.once
      <4>1. event[t] \notin Completions
        BY <2>3, <3>2 DEF InHandler
      <4>2. \A u \in Callers : ~(Effected(u) /\ event[u] = event[t])
        BY <2>3 DEF Effected, Finishing, OneRunPerEvent, Running, RunSteps
      <4> QED BY <3>2, <4>1, <4>2 DEF AllCompleted
    <3>4. AllCompleted'
      <4> SUFFICES ASSUME NEW e \in game'.once
                   PROVE  \/ e \in Completions'
                          \/ \E u \in Callers : /\ Effected(u)' /\ event'[u] = e
                                                /\ pc'[u] = "record" => used'.writes # 0
        BY DEF AllCompleted
      <4>1. CASE e = event[t]
        BY <2>1, <2>3, <4>1 DEF Effected, Finishing
      <4>2. CASE e \in game.once
        BY <1>o, <2>1, <2>2, <2>3, <3>1, <3>2, <4>2 DEF AllCompleted, Effected, Finishing
      <4> QED BY <2>1, <4>1, <4>2
    <3>5. InHandler'
      BY <1>o, <2>1, <2>2, <2>3, <3>2 DEF InHandler
    <3> QED BY <2>1, <3>2, <3>3, <3>4, <3>5
  <2> QED BY <2>4, <2>5, <2>6 DEF SessionInv
<1>7. CASE Mark(t)
  <2>1. /\ UNCHANGED <<db, published, event, today, local>>
        /\ game'.save = game.save /\ game'.day = game.day /\ game'.once = game.once
        /\ game'.twice = game.twice
        /\ game'.over \subseteq game.over \cup {event[t]}
        /\ processed' \subseteq processed \cup {event[t]}
    BY <1>7 DEF Mark, SharedTyped, GameType
  <2>2. Rows' = Rows /\ Completions' = Completions
    BY <2>1 DEF Rows, Completions
  <2>3. pc[t] = "mark" /\ pc'[t] = "marker"
    BY <1>7, <1>n DEF Mark, Goto
  <2>4. DatesOfSession'
    BY <1>d, <1>o, <2>1, <2>2, <2>3 DEF DatesOfSession, AtEvent, RunSteps
  <2>5. AllHandled'
    BY <1>d, <1>o, <2>1, <2>2, <2>3 DEF AllHandled, Finishing
  <2>6. ASSUME used'.writes <= 1 PROVE AllCompleted' /\ InHandler' /\ game'.twice = {}
    <3>1. used.writes <= 1 /\ (used.writes # 0 => used'.writes # 0)
      BY <1>u, <2>6
    <3>2. AllCompleted'
      BY <1>d, <1>o, <2>1, <2>2, <2>3, <3>1 DEF AllCompleted, Effected, Finishing
    <3>3. InHandler'
      BY <1>d, <1>o, <2>1, <2>2, <2>3, <3>1 DEF InHandler
    <3> QED BY <1>d, <2>1, <3>1, <3>2, <3>3
  <2> QED BY <2>4, <2>5, <2>6 DEF SessionInv
<1>8. CASE WriteMarker(t)
  <2>1. UNCHANGED <<game, processed, published, event, today, local>>
    BY <1>8 DEF WriteMarker
  <2>2. /\ pc[t] = "marker" /\ event[t] \in Events /\ event[t] <= published
        /\ event[t] \in game.once
        /\ pc'[t] = IF local[t].outcome = "done" THEN "record" ELSE "leave"
    <3>1. pc[t] = "marker" /\ pc'[t] = IF local[t].outcome = "done" THEN "record" ELSE "leave"
      BY <1>8, <1>n DEF WriteMarker, Goto
    <3>2. event[t] \in Events /\ event[t] <= today[t] /\ today[t] <= published
      BY <1>d, <3>1 DEF RunsAnEvent, DatesOfSession, AtEvent, RunSteps
    <3>3. event[t] \in game.once
      BY <1>d, <3>1 DEF AllHandled, Finishing
    <3> QED BY <1>n, <3>1, <3>2, <3>3
  <2>3. /\ Rows'.ledger = Rows.ledger
        /\ \/ Rows'.markers = Rows.markers \cup {event[t]} /\ UNCHANGED used
           \/ Rows'.markers = Rows.markers /\ used'.writes # 0
    <3>1. CASE Prune(Markers \cup {event[t]}) /\ UNCHANGED used
      BY <1>m, <1>n, <1>p, <2>1, <2>2, <3>1
    <3>2. CASE Prune(Markers) /\ Use("writes", MaxBadWrites)
      BY <1>m, <1>n, <1>p, <1>u, <2>1, <3>2 DEF Use, SharedTyped, Unused
    <3> QED BY <1>8, <3>1, <3>2 DEF WriteMarker
  <2>4. DatesOfSession'
    BY <1>d, <1>o, <2>1, <2>2, <2>3 DEF DatesOfSession, AtEvent, RunSteps
  <2>5. AllHandled'
    BY <1>d, <1>o, <2>1, <2>2, <2>3 DEF AllHandled, Finishing, Completions
  <2>6. ASSUME used'.writes <= 1 PROVE AllCompleted' /\ InHandler' /\ game'.twice = {}
    <3>1. used.writes <= 1 /\ (used.writes # 0 => used'.writes # 0)
      BY <1>u, <2>6
    <3>2. AllCompleted /\ InHandler /\ game.twice = {}
      BY <1>d, <3>1
    <3>3. AllCompleted'
      <4> SUFFICES ASSUME NEW e \in game.once, e \notin Completions'
                   PROVE  \E u \in Callers : /\ Effected(u)' /\ event'[u] = e
                                             /\ pc'[u] = "record" => used'.writes # 0
        BY <2>1 DEF AllCompleted
      <4>1. e \notin Completions
        BY <2>3 DEF Completions
      <4>2. PICK u \in Callers : /\ Effected(u) /\ event[u] = e
                                 /\ pc[u] = "record" => used.writes # 0
        BY <3>2, <4>1 DEF AllCompleted
      <4>3. CASE u = t
        <5>1. Rows'.markers = Rows.markers /\ used'.writes # 0
          BY <2>3, <4>2, <4>3 DEF Completions
        <5> QED BY <2>1, <2>2, <4>2, <4>3, <5>1 DEF Effected, Finishing
      <4>4. CASE u # t
        BY <1>o, <3>1, <4>2, <4>4 DEF Effected
      <4> QED BY <4>3, <4>4
    <3>4. InHandler'
      <4>1. \A u \in Callers \ {t} : pc[u] = "handler" => event[u] # event[t]
        BY <2>2 DEF OneRunPerEvent, Running, RunSteps
      <4> QED BY <1>o, <2>1, <2>2, <2>3, <3>2, <4>1 DEF InHandler, Completions
    <3> QED BY <2>1, <3>2, <3>3, <3>4
  <2> QED BY <2>4, <2>5, <2>6 DEF SessionInv
<1>9. CASE RecordRun(t)
  <2>1. UNCHANGED <<game, processed, published, event, today, local>>
    BY <1>9 DEF RecordRun
  <2>2. pc[t] = "record" /\ pc'[t] = "leave" /\ event[t] \in game.once
    BY <1>9, <1>d, <1>n DEF RecordRun, Goto, AllHandled, Finishing
  <2>3. /\ Rows'.markers = Rows.markers
        /\ \/ Rows'.ledger = Rows.ledger \cup {event[t]} /\ UNCHANGED used
           \/ Rows'.ledger = Rows.ledger /\ used'.writes = used.writes + 1
    <3>1. CASE db' = [db EXCEPT ![game.save].ledger = @ \cup {event[t]}] /\ UNCHANGED used
      <4>1. Rows' = [Rows EXCEPT !.ledger = @ \cup {event[t]}]
        BY <2>1, <3>1, RowsTyped DEF Rows, SharedTyped
      <4> QED BY <3>1, <4>1, RowsTyped DEF RowsType
    <3>2. CASE Use("writes", MaxBadWrites) /\ UNCHANGED db
      BY <2>1, <3>2 DEF Use, SharedTyped, Unused, Rows
    <3> QED BY <1>9, <3>1, <3>2 DEF RecordRun
  <2>4. DatesOfSession'
    BY <1>d, <1>o, <2>1, <2>2, <2>3 DEF DatesOfSession, AtEvent, RunSteps
  <2>5. AllHandled'
    BY <1>d, <1>o, <2>1, <2>2, <2>3 DEF AllHandled, Finishing, Completions
  <2>6. ASSUME used'.writes <= 1 PROVE AllCompleted' /\ InHandler' /\ game'.twice = {}
    <3>1. used.writes <= 1 /\ (used.writes # 0 => used'.writes # 0)
      BY <1>u, <2>6
    <3>2. AllCompleted /\ InHandler /\ game.twice = {}
      BY <1>d, <3>1
    <3>3. AllCompleted'
      <4> SUFFICES ASSUME NEW e \in game.once, e \notin Completions'
                   PROVE  \E u \in Callers : /\ Effected(u)' /\ event'[u] = e
                                             /\ pc'[u] = "record" => used'.writes # 0
        BY <2>1 DEF AllCompleted
      <4>1. e \notin Completions
        BY <2>3 DEF Completions
      <4>2. PICK u \in Callers : /\ Effected(u) /\ event[u] = e
                                 /\ pc[u] = "record" => used.writes # 0
        BY <3>2, <4>1 DEF AllCompleted
      <4>3. u # t
        <5> SUFFICES ASSUME u = t PROVE FALSE
          OBVIOUS
        <5>1. Rows'.ledger = Rows.ledger /\ used'.writes = used.writes + 1
          BY <2>3, <4>2 DEF Completions
        <5>2. used.writes # 0
          BY <2>2, <4>2
        <5> QED BY <1>u, <2>6, <5>1, <5>2
      <4> QED BY <1>o, <3>1, <4>2, <4>3 DEF Effected
    <3>4. InHandler'
      <4>1. \A u \in Callers \ {t} : pc[u] = "handler" => event[u] # event[t]
        BY <2>2 DEF OneRunPerEvent, Running, RunSteps
      <4> QED BY <1>o, <2>1, <2>2, <2>3, <3>2, <4>1 DEF InHandler, Completions
    <3> QED BY <2>1, <3>2, <3>3, <3>4
  <2> QED BY <2>4, <2>5, <2>6 DEF SessionInv
<1> QED
  BY <1>q, <1>1, <1>2, <1>3, <1>4, <1>5, <1>6, <1>7, <1>8, <1>9 DEF Step


\* The invariants of the types, of the locks and of the first session.
LEMMA SessionInductive == Spec => [](TypeOK /\ RunsAnEvent /\ LockInv /\ SessionInv)
<1>1. Init => SessionInv
  BY SessionInit
<1>2. TypeOK /\ RunsAnEvent /\ LockInv /\ SessionInv /\ [Next]_vars => SessionInv'
  <2> SUFFICES ASSUME SharedTyped, CallersTyped, RunsAnEvent, LockInv, SessionInv, [Next]_vars
               PROVE  SessionInv'
    BY TypeParts
  <2>1. CASE UNCHANGED vars
    BY <2>1 DEF vars, world, dates, caches, locks, callers, place, SessionInv, FirstSession,
       DatesOfSession, AllHandled, AllCompleted, InHandler, Effected, Completions, Rows
  <2>2. CASE Next
    BY <2>2, SessionWorld, SessionStep DEF Next, LockInv
  <2> QED BY <2>1, <2>2
<1>3. Spec => []TypeOK /\ []RunsAnEvent
  BY TypeInit, TypeStep, PTL DEF Spec
<1> QED BY <1>1, <1>2, <1>3, LocksInductive, PTL DEF Spec

\* In a session, whatever is flagged over, marked or in the ledger as completed has
\* had its handler's effect in the game: no failure, deferral, lost write or
\* interleaving of the two callers completes an event that was not done.
THEOREM NothingCompletedUndone == Spec => [](used.loads = 0 => CompletedWasHandled)
<1>1. SessionInv => (used.loads = 0 => CompletedWasHandled)
  BY DEF SessionInv, FirstSession, AllHandled, Completions, Rows, Ledger, CompletedWasHandled
<1> QED BY <1>1, SessionInductive, PTL

-----------------------------------------------------------------------------
(***************************************************************************)
(* Across sessions.                                                        *)
(***************************************************************************)
LEMMA RestartInit == Init => RestartInv
<1> SUFFICES ASSUME Init PROVE RestartInv
  OBVIOUS
<1>1. game.once = {} /\ game.twice = {}
  BY DEF Init, InGame, Fresh
<1>2. StoredRecorded
  BY DEF Init, StoredRecorded, Fresh
<1>3. DoneRecorded /\ pc["monitor"] = "idle"
  BY <1>1 DEF Init, DoneRecorded, Callers
<1> QED BY <1>2, <1>3 DEF RestartInv

\* A save stores what is in its ledger; a load or a restart brings that back.
LEMMA RestartWorld ==
    ASSUME SharedTyped, CallersTyped, RestartInv,
           \/ AdvanceDay \/ DispatchToday \/ PhasePulse \/ SaveGame \/ Restart
           \/ \E s \in Saves : LoadSave(s)
    PROVE  RestartInv'
<1> USE DEF world, dates, caches, locks, place, callers
<1>g. game.save \in Saves /\ "sync" \in Callers /\ "monitor" \in Callers
  BY RowsTyped DEF Callers
<1> SUFFICES ASSUME used'.pulses = 0, used'.writes = 0
             PROVE  pc'["monitor"] = "idle" /\ StoredRecorded' /\ DoneRecorded'
  BY DEF RestartInv
<1>u. used.pulses = 0 /\ used.writes = 0 /\ ~PhasePulse
  BY DEF AdvanceDay, DispatchToday, PhasePulse, SaveGame, Restart, LoadSave, Use, SharedTyped,
     Unused
<1>d. pc["monitor"] = "idle" /\ StoredRecorded /\ DoneRecorded
  BY <1>u DEF RestartInv
<1>1. CASE AdvanceDay \/ DispatchToday
  <2>1. /\ UNCHANGED <<stored, db, event, local>>
        /\ game'.save = game.save /\ game'.once = game.once /\ game'.twice = game.twice
        /\ pc["sync"] = "idle" /\ pc' = [pc EXCEPT !["sync"] = "schedule"]
    BY <1>1 DEF AdvanceDay, DispatchToday, StartTick, Goto, SharedTyped, GameType
  <2>2. pc'["monitor"] = "idle" /\ pc'["sync"] = "schedule"
    BY <1>d, <1>g, <2>1 DEF CallersTyped
  <2> QED BY <1>d, <2>1, <2>2 DEF StoredRecorded, DoneRecorded, Effected, Finishing, Rows
<1>2. CASE SaveGame
  <2>1. /\ UNCHANGED <<game, db, event, local, pc>> /\ pc["sync"] = "idle"
        /\ stored' = [stored EXCEPT ![game.save] = Copy(game)]
    BY <1>2 DEF SaveGame
  <2>2. game.once \subseteq db[game.save].ledger /\ game.twice = {}
    BY <1>d, <2>1 DEF DoneRecorded, Effected, Finishing, Rows
  <2>3. StoredRecorded'
    BY <1>d, <2>1, <2>2 DEF StoredRecorded, Copy, SharedTyped
  <2> QED BY <1>d, <2>1, <2>3 DEF DoneRecorded, Effected, Rows
<1>3. ASSUME NEW s \in Saves, game' = InGame(s, stored[s]), UNCHANGED <<stored, db>>,
             pc'["sync"] = "idle", pc'["monitor"] = "idle"
      PROVE  StoredRecorded' /\ DoneRecorded'
  <2>1. game'.save = s /\ game'.once = stored[s].once /\ game'.twice = stored[s].twice
    BY <1>3 DEF InGame
  <2> QED BY <1>3, <1>d, <2>1 DEF StoredRecorded, DoneRecorded, Rows
<1>4. CASE Restart
  BY <1>3, <1>4, <1>g DEF Restart
<1>5. CASE \E s \in Saves : LoadSave(s)
  BY <1>3, <1>5, <1>g DEF LoadSave
<1> QED BY <1>1, <1>2, <1>4, <1>5, <1>u

\* Only the synchronous tick steps, and the game is not saved under it.
LEMMA RestartStep ==
    ASSUME SharedTyped, CallersTyped, RunsAnEvent, RestartInv, NEW t \in Callers, Step(t)
    PROVE  RestartInv'
<1> USE DEF world, dates, caches, locks, place
<1>u. /\ used'.pulses = used.pulses /\ used.writes <= used'.writes /\ used'.writes \in Nat
      /\ used.writes \in Nat
  BY StepUses DEF SharedTyped, Unused
<1>g. game.save \in Saves /\ "sync" \in Callers /\ "monitor" \in Callers
  BY RowsTyped DEF Callers
<1> SUFFICES ASSUME used'.pulses = 0, used'.writes = 0
             PROVE  pc'["monitor"] = "idle" /\ StoredRecorded' /\ DoneRecorded'
  BY DEF RestartInv
<1>w. used.pulses = 0 /\ used.writes = 0
  BY <1>u
<1>d. pc["monitor"] = "idle" /\ StoredRecorded /\ DoneRecorded
  BY <1>w DEF RestartInv
<1>n. /\ pc \in [Callers -> Steps] /\ local \in [Callers -> LocalType]
      /\ event \in [Callers -> DayOrNone] /\ db \in [Saves -> RowsType] /\ game \in GameType
  BY DEF SharedTyped, CallersTyped
<1>t. t = "sync"
  <2>1. pc[t] # "idle"
    BY DEF Step, CheckScheduled, ClaimSchedule, ClaimPass, ReadCursor, DirectStep, StartScan, Look,
       EndScan, EnterRun, Recheck, HandlerDone, HandlerDefers, HandlerFails, Mark, WriteMarker,
       RecordRun, LeaveRun, PassScanned, PassEnd, ReleaseSchedule, SetScheduled, SetScanned,
       CheckScanned, TickScanned, EndTick, Goto
  <2> QED BY <1>d, <2>1 DEF Callers
<1>m. pc'["monitor"] = "idle"
  BY <1>d, <1>g, <1>t, OthersStay
<1>s. ASSUME UNCHANGED stored, game'.save = game.save, Rows.ledger \subseteq Rows'.ledger,
             \A s \in Saves \ {game.save} : db'[s] = db[s]
      PROVE  StoredRecorded'
  BY <1>s, <1>d DEF StoredRecorded, Rows
<1>e. ASSUME UNCHANGED db PROVE \A s \in Saves \ {game.save} : db'[s] = db[s]
  BY <1>e
<1>k. ASSUME NEW M \in SUBSET Events, Prune(M), game'.save = game.save
      PROVE  /\ Rows'.ledger = Rows.ledger
             /\ \A s \in Saves \ {game.save} : db'[s] = db[s]
  BY <1>k, <1>g, <1>n, PruneRows DEF Prune
<1>j. Markers \in SUBSET Events
  BY <1>g, <1>n, RowUpdates
<1>c. ASSUME UNCHANGED <<stored, game>>, Rows'.ledger = Rows.ledger,
             \A s \in Saves \ {game.save} : db'[s] = db[s],
             pc["sync"] \notin Finishing, pc'["sync"] \notin Finishing \cup {"handler"}
      PROVE  StoredRecorded' /\ DoneRecorded'
  BY <1>c, <1>d, <1>s DEF DoneRecorded, Effected
<1>1. CASE \/ CheckScheduled(t) \/ ClaimSchedule(t) \/ ClaimPass(t) \/ ReadCursor(t)
           \/ StartScan(t) \/ EndScan(t) \/ EnterRun(t) \/ HandlerDefers(t)
           \/ HandlerFails(t) \/ LeaveRun(t) \/ PassScanned(t) \/ ReleaseSchedule(t)
           \/ SetScheduled(t) \/ SetScanned(t) \/ CheckScanned(t) \/ TickScanned(t)
           \/ EndTick(t)
  <2>1. UNCHANGED <<stored, game, db>>
    BY <1>1 DEF CheckScheduled, ClaimSchedule, ClaimPass, ReadCursor, StartScan, EndScan, EnterRun, HandlerDefers, HandlerFails, LeaveRun, PassScanned, ReleaseSchedule, SetScheduled, SetScanned, CheckScanned, TickScanned, EndTick
  <2>2. pc["sync"] \notin Finishing /\ pc'["sync"] \notin Finishing \cup {"handler"}
    BY <1>1, <1>n, <1>t DEF CheckScheduled, ClaimSchedule, ClaimPass, ReadCursor, StartScan, EndScan, EnterRun, HandlerDefers, HandlerFails, LeaveRun, PassScanned, ReleaseSchedule, SetScheduled, SetScanned, CheckScanned, TickScanned, EndTick, Goto, After,
       Finishing
  <2> QED BY <1>m, <1>c, <1>e, <2>1, <2>2 DEF Rows
<1>2. CASE PassEnd(t)
  <2>1. UNCHANGED <<stored, game>> /\ pc["sync"] = "passEnd" /\ pc'["sync"] = "passDone"
    BY <1>2, <1>n, <1>t DEF PassEnd, Goto
  <2>2. CASE UNCHANGED db
    BY <1>m, <1>c, <1>e, <2>1, <2>2 DEF Rows, Finishing
  <2>3. CASE db' = [db EXCEPT ![game.save].cursor = today[t]]
    <3>1. Rows' = [Rows EXCEPT !.cursor = today[t]]
      BY <1>g, <1>n, <2>1, <2>3 DEF Rows
    <3>2. Rows'.ledger = Rows.ledger
      BY <3>1, RowsTyped DEF RowsType
    <3> QED BY <1>m, <1>c, <2>1, <2>3, <3>2 DEF Finishing
  <2> QED BY <1>2, <2>2, <2>3 DEF PassEnd
<1>3. CASE DirectStep(t)
  <2>1. UNCHANGED <<stored, game>> /\ pc["sync"] = "direct" /\ pc'["sync"] \in {"direct", "scan", "enter"}
    BY <1>3, <1>n, <1>t DEF DirectStep, Goto
  <2>2. CASE UNCHANGED db
    BY <1>m, <1>c, <1>e, <2>1, <2>2 DEF Rows, Finishing
  <2>3. CASE Prune(Markers)
    BY <1>m, <1>c, <1>j, <1>k, <2>1, <2>3 DEF Finishing
  <2> QED BY <1>3, <2>2, <2>3 DEF DirectStep
<1>4. CASE Look(t)
  <2>1. PICK e \in Candidates(t) :
          /\ Prune(Markers) \/ Prune(Markers \cup {e})
          /\ game' \in {game, [game EXCEPT !.over = @ \cup {e}]}
    BY <1>4 DEF Look
  <2>2. /\ UNCHANGED stored /\ game'.save = game.save /\ game'.once = game.once
        /\ game'.twice = game.twice
    BY <1>4, <1>n, <2>1 DEF Look, GameType
  <2>3. pc["sync"] = "look" /\ pc'["sync"] \in {"look", "enter"}
    BY <1>4, <1>n, <1>t DEF Look, Goto
  <2>4. Markers \cup {e} \in SUBSET Events
    <3>1. local[t].todo \in SUBSET Events
      BY <1>n, LocalFields
    <3> QED BY <1>j, <3>1 DEF Candidates
  <2>5. Rows'.ledger = Rows.ledger /\ \A s \in Saves \ {game.save} : db'[s] = db[s]
    BY <1>j, <1>k, <2>1, <2>2, <2>4
  <2> QED BY <1>m, <1>d, <1>s, <2>2, <2>3, <2>5 DEF DoneRecorded, Effected, Finishing
<1>5. CASE Recheck(t)
  <2>1. UNCHANGED <<stored, game>> /\ pc["sync"] = "recheck" /\ UNCHANGED event
    BY <1>5, <1>n, <1>t DEF Recheck, Goto
  <2>2. Rows'.ledger = Rows.ledger /\ \A s \in Saves \ {game.save} : db'[s] = db[s]
    <3>1. CASE UNCHANGED db
      BY <1>e, <2>1, <3>1 DEF Rows
    <3>2. CASE Prune(Markers)
      BY <1>j, <1>k, <2>1, <3>2
    <3> QED BY <1>5, <3>1, <3>2 DEF Recheck
  <2>3. /\ pc'["sync"] \in {"mark", "handler"}
        /\ pc'["sync"] = "handler" => event["sync"] \notin Rows.ledger
    BY <1>5, <1>n, <1>t DEF Recheck, Goto, Completed, Ledger, Rows
  <2> QED BY <1>m, <1>d, <1>s, <2>1, <2>2, <2>3 DEF DoneRecorded, Effected, Finishing
<1>6. CASE HandlerDone(t)
  <2>1. /\ UNCHANGED <<stored, db, event>> /\ game'.save = game.save
        /\ game'.once = game.once \cup {event["sync"]}
        /\ event["sync"] \notin game.once => game'.twice = game.twice
        /\ pc["sync"] = "handler" /\ pc'["sync"] = "mark" /\ local'["sync"].outcome = "done"
    BY <1>6, <1>n, <1>t DEF HandlerDone, Goto, GameType, LocalType
  <2>2. Rows' = Rows
    BY <2>1 DEF Rows
  <2>3. event["sync"] \notin game.once
    BY <1>d, <2>1 DEF DoneRecorded, Effected, Finishing
  <2> QED BY <1>m, <1>d, <1>e, <1>s, <2>1, <2>2, <2>3 DEF DoneRecorded, Effected, Finishing
<1>7. CASE Mark(t)
  <2>1. /\ UNCHANGED <<stored, db, event, local>> /\ game'.save = game.save
        /\ game'.once = game.once /\ game'.twice = game.twice
        /\ pc["sync"] = "mark" /\ pc'["sync"] = "marker"
    BY <1>7, <1>n, <1>t DEF Mark, Goto, GameType
  <2>2. Rows' = Rows
    BY <2>1 DEF Rows
  <2> QED BY <1>m, <1>d, <1>e, <1>s, <2>1, <2>2 DEF DoneRecorded, Effected, Finishing
<1>8. CASE WriteMarker(t)
  <2>1. /\ UNCHANGED <<stored, game, event, local>> /\ pc["sync"] = "marker"
        /\ pc'["sync"] = IF local["sync"].outcome = "done" THEN "record" ELSE "leave"
    BY <1>8, <1>n, <1>t DEF WriteMarker, Goto
  <2>2. PICK M \in SUBSET (Markers \cup {event[t]}) : Prune(M)
    BY <1>8 DEF WriteMarker
  <2>3. Rows'.ledger = Rows.ledger /\ \A s \in Saves \ {game.save} : db'[s] = db[s]
    <3>1. event[t] \in Events
      BY <1>t, <2>1 DEF RunsAnEvent, AtEvent, RunSteps
    <3>2. M \in SUBSET Events
      BY <1>j, <3>1
    <3> QED BY <1>k, <2>1, <2>2, <3>2
  <2> QED BY <1>m, <1>d, <1>s, <2>1, <2>3 DEF DoneRecorded, Effected, Finishing
<1>9. CASE RecordRun(t)
  <2>1. /\ UNCHANGED <<stored, game, event, local>> /\ pc["sync"] = "record"
        /\ pc'["sync"] = "leave" /\ db' = [db EXCEPT ![game.save].ledger = @ \cup {event[t]}]
    BY <1>9, <1>n, <1>t, <1>u, <1>w DEF RecordRun, Goto, Use, SharedTyped, Unused
  <2>2. Rows' = [Rows EXCEPT !.ledger = @ \cup {event[t]}]
    BY <1>g, <1>n, <2>1 DEF Rows
  <2>3. /\ Rows'.ledger = Rows.ledger \cup {event["sync"]}
        /\ \A s \in Saves \ {game.save} : db'[s] = db[s]
    BY <1>t, <2>1, <2>2, RowsTyped DEF RowsType
  <2> QED BY <1>m, <1>d, <1>s, <2>1, <2>3 DEF DoneRecorded, Effected, Finishing
<1> QED BY <1>m, <1>1, <1>2, <1>3, <1>4, <1>5, <1>6, <1>7, <1>8, <1>9 DEF Step


\* What excuses a repetition of an event's work in a session: that two of its
\* writes are lost; and across sessions: that one is, or that the monitor thread
\* worked beside a save.
Excused == /\ used.loads # 0 \/ used.writes > 1
           /\ used.pulses # 0 \/ used.writes # 0

\* The work of an event is never done twice in a game, in one session of it by
\* either caller, by the scheduler and the scan, and although one write of its
\* completion is lost; nor across restarts and switches of the save, as long as
\* the monitor thread takes no part and no write is lost.
THEOREM DoneOnlyOnce == Spec => [](HandledOnce \/ Excused)
<1>1. Init => RestartInv
  BY RestartInit
<1>2. TypeOK /\ RunsAnEvent /\ RestartInv /\ [Next]_vars => RestartInv'
  <2> SUFFICES ASSUME SharedTyped, CallersTyped, RunsAnEvent, RestartInv, [Next]_vars
               PROVE  RestartInv'
    BY TypeParts
  <2>1. CASE UNCHANGED vars
    BY <2>1 DEF vars, world, dates, caches, locks, callers, place, RestartInv, StoredRecorded,
       DoneRecorded, Effected, Rows
  <2>2. CASE Next
    BY <2>2, RestartWorld, RestartStep DEF Next
  <2> QED BY <2>1, <2>2
<1>3. TypeOK /\ SessionInv /\ RestartInv => HandledOnce \/ Excused
  <2> SUFFICES ASSUME TypeOK, SessionInv, RestartInv, ~Excused PROVE HandledOnce
    OBVIOUS
  <2>1. used.writes \in Nat
    BY DEF TypeOK, Unused
  <2>2. CASE used.loads = 0 /\ used.writes <= 1
    BY <2>2 DEF SessionInv, FirstSession, HandledOnce
  <2>3. CASE used.pulses = 0 /\ used.writes = 0
    BY <2>3 DEF RestartInv, DoneRecorded, HandledOnce
  <2> QED BY <2>1, <2>2, <2>3 DEF Excused
<1> QED BY <1>1, <1>2, <1>3, SessionInductive, PTL DEF Spec

-----------------------------------------------------------------------------
(***************************************************************************)
(* Complete ticks.                                                         *)
(***************************************************************************)
LEMMA TickInit == Init => TickInv
<1> SUFFICES ASSUME Init PROVE TickInv
  OBVIOUS
<1>1. \A e \in Events : e \in Nat /\ e # 0 /\ ~(e <= 0)
  BY CustomEventsAssumption
<1>2. Settled(0)
  BY <1>1 DEF Settled
<1>3. CachesSettled
  <2>1. Rows.cursor = 0 /\ scheduled = 0 /\ idleCache.at = 0
    BY DEF Init, Rows, InGame, NoCache
  <2>2. \A t \in Callers : last[t].scheduled = 0
    BY DEF Init
  <2>3. cursorCache.value = 0
    BY DEF Init, NoCursor
  <2> QED BY <1>2, <2>1, <2>2, <2>3 DEF CachesSettled
<1>4. \A t \in Callers : CallerSettles(t)
  BY DEF Init, CallerSettles, NoLocals, Finishing, ScanSteps, RunSteps
<1> QED BY <1>3, <1>4 DEF Init, TickInv, Callers

\* A tick begins on the day of the game; nothing that was done is undone in a session.
LEMMA TickWorld ==
    ASSUME SharedTyped, CallersTyped, TickInv,
           \/ AdvanceDay \/ DispatchToday \/ PhasePulse \/ SaveGame \/ Restart
           \/ \E s \in Saves : LoadSave(s)
    PROVE  TickInv'
<1> USE DEF world, dates, caches, locks, place, callers
<1>1. CASE Restart \/ \E s \in Saves : LoadSave(s)
  <2>1. used'.loads = used.loads + 1 /\ used.loads \in Nat
    BY <1>1 DEF Restart, LoadSave, Use, SharedTyped, Unused
  <2>2. ~Undisturbed'
    BY <2>1 DEF Undisturbed, FirstSession
  <2> QED BY <2>2 DEF TickInv
<1>2. CASE AdvanceDay \/ DispatchToday \/ PhasePulse \/ SaveGame
  <2>1. /\ used'.loads = used.loads /\ used'.defers = used.defers
        /\ used'.failures = used.failures
    BY <1>2 DEF AdvanceDay, DispatchToday, PhasePulse, SaveGame, Use, SharedTyped, Unused
  <2> SUFFICES ASSUME Undisturbed
               PROVE  /\ CachesSettled' /\ \A t \in Callers : CallerSettles(t)'
                      /\ pc'["sync"] # "idle" => today'["sync"] = game'.day
    BY <2>1 DEF TickInv, Undisturbed, FirstSession
  <2>2. /\ UNCHANGED <<db, scheduled, last, running, cursorCache, idleCache, event, inPass,
                       direct, local>>
        /\ game'.save = game.save /\ game'.once = game.once
    BY <1>2 DEF AdvanceDay, DispatchToday, PhasePulse, SaveGame, StartTick, SharedTyped, GameType
  <2>3. \A d : Settled(d)' <=> Settled(d)
    BY <2>2 DEF Settled
  <2>4. CachesSettled'
    BY <2>2, <2>3 DEF TickInv, CachesSettled, Rows
  <2>5. \A t \in Callers : \/ pc'[t] = pc[t] /\ today'[t] = today[t]
                           \/ pc'[t] = "schedule" /\ today'[t] \in {game'.day, published}
    BY <1>2 DEF AdvanceDay, DispatchToday, PhasePulse, SaveGame, StartTick, Goto, CallersTyped,
       SharedTyped, GameType
  <2>6. ASSUME NEW t \in Callers PROVE CallerSettles(t)'
    <3>1. CallerSettles(t)
      BY DEF TickInv
    <3>2. CASE pc'[t] = pc[t] /\ today'[t] = today[t]
      BY <2>2, <2>3, <3>1, <3>2 DEF CallerSettles, InScan
    <3>3. CASE pc'[t] = "schedule"
      BY <2>2, <3>1, <3>3 DEF CallerSettles, Finishing, ScanSteps, RunSteps
    <3> QED BY <2>5, <3>2, <3>3
  <2>7. pc'["sync"] # "idle" => today'["sync"] = game'.day
    BY <1>2 DEF TickInv, AdvanceDay, DispatchToday, PhasePulse, SaveGame, StartTick, Goto,
       CallersTyped, SharedTyped, GameType, Callers
  <2> QED BY <2>4, <2>6, <2>7
<1> QED BY <1>1, <1>2

\* The steps of a caller.
LEMMA TickStep ==
    ASSUME SharedTyped, CallersTyped, RunsAnEvent, LockInv, SessionInv, TickInv,
           NEW t \in Callers, Step(t)
    PROVE  TickInv'
<1> USE DEF world, dates, caches, locks, place
<1>u. /\ used'.loads = used.loads
      /\ used'.defers \in Nat /\ used.defers <= used'.defers /\ used.defers \in Nat
      /\ used'.failures \in Nat /\ used.failures <= used'.failures /\ used.failures \in Nat
  BY StepUses DEF SharedTyped, Unused
<1> SUFFICES ASSUME Undisturbed'
             PROVE  /\ CachesSettled' /\ \A u \in Callers : CallerSettles(u)'
                    /\ pc'["sync"] # "idle" => today'["sync"] = game'.day
  BY DEF TickInv
<1>w. Undisturbed /\ FirstSession
  BY <1>u DEF Undisturbed, FirstSession
<1>d. /\ CachesSettled /\ CallerSettles(t) /\ \A u \in Callers : CallerSettles(u)
      /\ pc["sync"] # "idle" => today["sync"] = game.day
      /\ AllHandled
  BY <1>w DEF TickInv, SessionInv
<1>n. /\ pc \in [Callers -> Steps] /\ local \in [Callers -> LocalType]
      /\ event \in [Callers -> DayOrNone] /\ today \in [Callers -> DayOrNone]
      /\ last \in [Callers -> LastType] /\ inPass \in [Callers -> BOOLEAN]
      /\ direct \in [Callers -> BOOLEAN] /\ local[t] \in LocalType /\ last[t] \in LastType
      /\ game \in GameType /\ db \in [Saves -> RowsType] /\ game.save \in Saves
  BY RowsTyped DEF SharedTyped, CallersTyped
<1>l. /\ pc[t] \in {"direct", "passEnd"} => inPass[t]
      /\ inPass[t] => pc[t] \in {"direct", "passEnd"} \cup ScanSteps
      /\ direct[t] => inPass[t] /\ pc[t] \in {"direct", "enter"} \cup RunSteps
  BY DEF LockInv, InPassPlaces, DirectPlaces
<1>f. ~HandlerDefers(t) /\ ~HandlerFails(t)
  BY <1>u DEF HandlerDefers, HandlerFails, Use, Undisturbed, SharedTyped, Unused
<1>g. game'.save = game.save /\ game'.day = game.day /\ game.once \subseteq game'.once
  <2>1. CASE UNCHANGED game
    BY <2>1
  <2>2. CASE Look(t)
    <3>1. PICK e \in Candidates(t) : game' \in {game, [game EXCEPT !.over = @ \cup {e}]}
      BY <2>2 DEF Look
    <3> QED BY <1>n, <3>1 DEF GameType
  <2>3. CASE HandlerDone(t)
    BY <1>n, <2>3 DEF HandlerDone, GameType
  <2>4. CASE Mark(t)
    BY <1>n, <2>4 DEF Mark, GameType
  <2> QED BY <2>1, <2>2, <2>3, <2>4 DEF Step, CheckScheduled, ClaimSchedule, ClaimPass, ReadCursor, DirectStep, StartScan, EndScan, EnterRun, Recheck, HandlerDefers, HandlerFails, WriteMarker, RecordRun, LeaveRun, PassScanned, PassEnd, ReleaseSchedule, SetScheduled, SetScanned, CheckScanned, TickScanned, EndTick
<1>k. game.once \cup running \subseteq game'.once \cup running'
  <2>1. CASE running \subseteq running'
    BY <1>g, <2>1
  <2>2. CASE LeaveRun(t)
    <3>1. running' = running \ {event[t]} /\ pc[t] = "leave"
      BY <2>2 DEF LeaveRun, Goto
    <3> QED BY <1>d, <1>g, <3>1 DEF CallerSettles
  <2>3. ~LeaveRun(t) => running \subseteq running'
    BY DEF Step, CheckScheduled, ClaimSchedule, ClaimPass, ReadCursor, DirectStep, StartScan, Look, EndScan, EnterRun, Recheck, HandlerDone, HandlerDefers, HandlerFails, Mark, WriteMarker, RecordRun, PassScanned, PassEnd, ReleaseSchedule, SetScheduled, SetScanned, CheckScanned, TickScanned, EndTick
  <2> QED BY <2>1, <2>2, <2>3
<1>s. \A d : Settled(d) => Settled(d)'
  BY <1>k DEF Settled
<1>o. \A u \in Callers \ {t} : CallerSettles(u)'
  <2> SUFFICES ASSUME NEW u \in Callers \ {t} PROVE CallerSettles(u)'
    OBVIOUS
  <2>1. /\ pc'[u] = pc[u] /\ event'[u] = event[u] /\ today'[u] = today[u]
        /\ inPass'[u] = inPass[u] /\ direct'[u] = direct[u] /\ local'[u] = local[u]
    BY OthersStay
  <2>2. CallerSettles(u)
    BY <1>d
  <2> QED BY <1>g, <1>k, <1>s, <2>1, <2>2 DEF CallerSettles, InScan
<1>y. pc'["sync"] # "idle" => today'["sync"] = game'.day
  <2>1. CASE t = "sync"
    <3>1. pc["sync"] # "idle" /\ (EndTick(t) => pc'["sync"] = "idle") /\ (~EndTick(t) => UNCHANGED today)
      BY <1>n, <2>1 DEF Step, Goto, CheckScheduled, ClaimSchedule, ClaimPass, ReadCursor, DirectStep, StartScan, Look, EndScan, EnterRun, Recheck, HandlerDone, HandlerDefers, HandlerFails, Mark, WriteMarker, RecordRun, LeaveRun, PassScanned, PassEnd, ReleaseSchedule, SetScheduled, SetScanned, CheckScanned, TickScanned, EndTick
    <3> QED BY <1>d, <1>g, <3>1
  <2>2. CASE t # "sync"
    BY <1>d, <1>g, <2>2, OthersStay DEF Callers
  <2> QED BY <2>1, <2>2
<1>z. CachesSettled' /\ CallerSettles(t)'
      => /\ CachesSettled' /\ \A u \in Callers : CallerSettles(u)'
         /\ pc'["sync"] # "idle" => today'["sync"] = game'.day
  BY <1>o, <1>y
<1>c. ASSUME UNCHANGED <<scheduled, cursorCache, idleCache>>, Rows'.cursor = Rows.cursor,
             last'[t].scheduled = last[t].scheduled
      PROVE  CachesSettled'
  <2>1. \A u \in Callers : last'[u].scheduled = last[u].scheduled
    BY <1>c, OthersStay
  <2> QED BY <1>c, <1>d, <1>g, <1>s, <2>1 DEF CachesSettled
<1>h. ASSUME NEW M \in SUBSET Events, Prune(M) PROVE Rows'.cursor = Rows.cursor
  BY <1>g, <1>h, <1>n, PruneRows
<1>j. Markers \in SUBSET Events
  BY <1>n, RowUpdates
<1>i. IdleOn(today[t]) => Settled(today[t])
  <2> SUFFICES ASSUME IdleOn(today[t]), NEW e \in Events, e <= today[t]
               PROVE  e \in game.once \cup running
    BY DEF Settled
  <2>1. /\ today[t] \in Nat /\ e \in Nat /\ idleCache.at \in Nat /\ idleCache.next \in Nat
        /\ idleCache.at # 0
        /\ idleCache.next = 0 \/ today[t] < idleCache.next
    <3>1. idleCache.at \in DayOrNone /\ idleCache.next \in DayOrNone
      BY DEF SharedTyped
    <3>2. DayOrNone \subseteq Nat /\ Events \subseteq Nat
      BY CustomEventsAssumption DEF DayOrNone
    <3> QED BY <1>n, <3>1, <3>2 DEF IdleOn
  <2>2. e <= idleCache.at
    <3> SUFFICES ASSUME e > idleCache.at PROVE FALSE
      BY <2>1
    <3>1. idleCache.next # 0 /\ idleCache.next <= e
      BY <1>d, <2>1 DEF CachesSettled
    <3> QED BY <2>1, <3>1
  <2> QED BY <1>d, <2>2 DEF CachesSettled, Settled
<1>b. local[t].blocked \in BOOLEAN /\ local[t].failed \in BOOLEAN /\ local[t].deferred \in BOOLEAN
  BY <1>n, LocalFields
<1>1. CASE CheckScheduled(t)
  <2>1. CachesSettled'
    <3>1. last'[t].scheduled \in {last[t].scheduled, scheduled}
      BY <1>1, <1>n DEF CheckScheduled, LastType
    <3>2. \A u \in Callers : Settled(last[u].scheduled)'
      <4>1. \A u \in Callers : Settled(last[u].scheduled) /\ Settled(scheduled)
        BY <1>d DEF CachesSettled
      <4>2. \A u \in Callers : Settled(last'[u].scheduled)
        BY <3>1, <4>1, OthersStay
      <4> QED BY <1>k, <4>2 DEF Settled
    <3> QED BY <1>1, <1>d, <1>g, <1>s, <3>2 DEF CheckScheduled, CachesSettled, Rows
  <2>2. /\ UNCHANGED <<event, inPass, direct, today, local>>
        /\ pc'[t] \in {"scanCheck", "claim"}
        /\ pc'[t] = "scanCheck" => today[t] \in {last[t].scheduled, scheduled}
    BY <1>1, <1>n DEF CheckScheduled, Goto
  <2>3. pc'[t] = "scanCheck" => Settled(today[t])'
    BY <1>d, <1>s, <2>2 DEF CachesSettled
  <2>4. CallerSettles(t)'
    BY <1>d, <2>2, <2>3 DEF CallerSettles, Finishing, ScanSteps, RunSteps
  <2> QED BY <1>z, <2>1, <2>4
<1>2. CASE ClaimSchedule(t)
  <2>1. CachesSettled'
    BY <1>2, <1>c DEF ClaimSchedule, Rows
  <2>2. UNCHANGED <<event, inPass, direct, today>>
    BY <1>2 DEF ClaimSchedule
  <2>3. \/ pc'[t] = "due" /\ local'[t] = local[t]
        \/ pc'[t] = "scanCheck" /\ local'[t] = [local[t] EXCEPT !.deferred = TRUE]
    BY <1>2, <1>n DEF ClaimSchedule, Goto
  <2>4. CallerSettles(t)'
    BY <1>d, <1>n, <2>2, <2>3 DEF CallerSettles, Finishing, ScanSteps, RunSteps, LocalType
  <2> QED BY <1>z, <2>1, <2>4
<1>3. CASE ClaimPass(t)
  <2>1. CachesSettled'
    BY <1>3, <1>c DEF ClaimPass, Rows
  <2>2. UNCHANGED <<event, inPass, direct, today>>
    BY <1>3 DEF ClaimPass
  <2>3. \/ pc'[t] = "cursor" /\ local'[t] = local[t]
        \/ pc'[t] = "passDone" /\ local'[t] = [local[t] EXCEPT !.failed = TRUE]
    BY <1>3, <1>n DEF ClaimPass, Goto
  <2>4. CallerSettles(t)'
    BY <1>d, <1>n, <2>2, <2>3 DEF CallerSettles, Finishing, ScanSteps, RunSteps, LocalType
  <2> QED BY <1>z, <2>1, <2>4
<1>4. CASE ReadCursor(t)
  <2>0. Settled(CursorValue)
    BY <1>d DEF CachesSettled, CursorValue, Rows
  <2>1. CachesSettled'
    <3>1. /\ UNCHANGED <<scheduled, idleCache, last, db>> /\ cursorCache'.value = CursorValue
      BY <1>4 DEF ReadCursor
    <3> QED BY <1>d, <1>g, <1>s, <2>0, <3>1 DEF CachesSettled, Rows
  <2>2. CASE Goto(t, "cursor", "passDone")
    <3>1. /\ UNCHANGED <<event, inPass, direct, today, local>> /\ CursorValue = today[t]
          /\ pc'[t] = "passDone"
      BY <1>4, <1>n, <2>2 DEF ReadCursor, Goto
    <3>2. Settled(today[t])'
      BY <1>s, <2>0, <3>1
    <3>3. CallerSettles(t)'
      BY <1>d, <3>1, <3>2 DEF CallerSettles, Finishing, ScanSteps, RunSteps
    <3> QED BY <1>z, <2>1, <3>3
  <2>3. CASE Goto(t, "cursor", "direct")
    <3>1. /\ direct'[t] /\ pc'[t] = "direct" /\ local'[t] = [local[t] EXCEPT !.todo = Direct]
      BY <1>4, <1>n, <2>3 DEF ReadCursor, Goto
    <3>2. CallerSettles(t)'
      BY <1>d, <1>n, <3>1 DEF CallerSettles, Finishing, ScanSteps, RunSteps, LocalType
    <3> QED BY <1>z, <2>1, <3>2
  <2> QED BY <1>4, <2>2, <2>3 DEF ReadCursor
<1>5. CASE DirectStep(t)
  <2>1. CachesSettled'
    <3>1. UNCHANGED db \/ Prune(Markers)
      BY <1>5 DEF DirectStep
    <3>2. Rows'.cursor = Rows.cursor
      BY <1>g, <1>h, <1>j, <3>1 DEF Rows
    <3> QED BY <1>5, <1>c, <3>2 DEF DirectStep
  <2>2. CASE Goto(t, "direct", "scan")
    <3>1. /\ UNCHANGED <<inPass, today, local>> /\ pc[t] = "direct" /\ pc'[t] = "scan"
      BY <1>5, <1>n, <2>2 DEF DirectStep, Goto
    <3>2. inPass'[t]
      BY <1>l, <3>1
    <3>3. CallerSettles(t)'
      BY <1>d, <3>1, <3>2 DEF CallerSettles, Finishing, ScanSteps, RunSteps
    <3> QED BY <1>z, <2>1, <3>3
  <2>3. CASE ~Goto(t, "direct", "scan")
    <3>1. PICK e \in DirectEvents(t), to \in {"direct", "enter"} :
            /\ local' = [local EXCEPT ![t].todo = @ \ {e}]
            /\ UNCHANGED direct /\ Goto(t, "direct", to)
      BY <1>5, <2>3 DEF DirectStep
    <3>2. /\ UNCHANGED <<inPass, today, direct>> /\ pc[t] = "direct"
          /\ pc'[t] \in {"direct", "enter"}
          /\ local'[t] = [local[t] EXCEPT !.todo = local[t].todo \ {e}]
      BY <1>5, <1>n, <3>1 DEF DirectStep, Goto
    <3>3. inPass'[t] /\ direct'[t]
      BY <1>d, <1>l, <3>2 DEF CallerSettles
    <3>4. CallerSettles(t)'
      BY <1>d, <1>n, <3>2, <3>3 DEF CallerSettles, Finishing, ScanSteps, RunSteps, LocalType
    <3> QED BY <1>z, <2>1, <3>4
  <2> QED BY <2>2, <2>3
<1>6. CASE StartScan(t)
  <2>1. CachesSettled'
    BY <1>6, <1>c DEF StartScan, Rows
  <2>2. /\ UNCHANGED <<event, inPass, direct, today>> /\ pc[t] = "scan"
        /\ \/ /\ pc'[t] = "scanned" /\ IdleOn(today[t])
              /\ local'[t] = [local[t] EXCEPT !.result = 0]
           \/ /\ pc'[t] = "look"
              /\ local'[t] = [local[t] EXCEPT !.todo = Events, !.blocked = FALSE]
    BY <1>6, <1>n DEF StartScan, Goto
  <2>3. IdleOn(today[t]) => Settled(today[t])
    BY <1>d, <1>i
  <2>4. (~inPass[t] /\ ~local[t].deferred => Settled(today[t])) /\ ~direct[t]
    BY <1>d, <1>l, <2>2 DEF CallerSettles, ScanSteps, RunSteps
  <2>5. CallerSettles(t)'
    <3>1. CASE pc'[t] = "scanned"
      BY <1>d, <1>n, <1>s, <2>2, <2>3, <2>4, <3>1
         DEF CallerSettles, Finishing, ScanSteps, RunSteps, LocalType
    <3>2. CASE pc'[t] = "look"
      BY <1>d, <1>n, <1>s, <2>2, <2>4, <3>2
         DEF CallerSettles, InScan, Finishing, ScanSteps, RunSteps, LocalType
    <3> QED BY <2>2, <3>1, <3>2
  <2> QED BY <1>z, <2>1, <2>5
<1>7. CASE Look(t)
  <2>1. PICK e \in Candidates(t) :
          /\ event' = [event EXCEPT ![t] = e]
          /\ local' = [local EXCEPT ![t].todo = @ \ {e}]
          /\ \/ Goto(t, "look", "look") /\ Completed(e) /\ Prune(Markers \cup {e})
             \/ Goto(t, "look", "enter") /\ Prune(Markers)
    BY <1>7 DEF Look
  <2>2. Markers \cup {e} \in SUBSET Events
    <3>1. local[t].todo \in SUBSET Events
      BY <1>n, LocalFields
    <3> QED BY <1>j, <3>1 DEF Candidates
  <2>3. CachesSettled'
    <3>1. Rows'.cursor = Rows.cursor
      BY <1>h, <1>j, <2>1, <2>2
    <3> QED BY <1>7, <1>c, <3>1 DEF Look
  <2>4. /\ UNCHANGED <<inPass, direct, today>> /\ pc[t] = "look"
        /\ local'[t] = [local[t] EXCEPT !.todo = local[t].todo \ {e}] /\ event'[t] = e
        /\ \/ pc'[t] = "look" /\ e \in game.once
           \/ pc'[t] = "enter"
    <3>1. Completed(e) => e \in game.once
      BY <1>d DEF Completed, Markers, Ledger, AllHandled, Completions, Rows
    <3> QED BY <1>7, <1>n, <2>1, <3>1 DEF Look, Goto
  <2>5. /\ ~direct[t] /\ (~inPass[t] /\ ~local[t].deferred => Settled(today[t])')
        /\ \A f \in Events : f <= today[t] => f \in local[t].todo \cup game.once \cup running
    BY <1>d, <1>l, <1>s, <2>4 DEF CallerSettles, InScan, ScanSteps, RunSteps
  <2>6. ASSUME NEW f \in Events, f <= today'[t]
        PROVE  f \in InScan(t)' \cup game'.once \cup running'
    <3>1. local'[t].todo = local[t].todo \ {e}
      BY <1>n, <2>4 DEF LocalType
    <3>2. InScan(t)' = IF pc'[t] = "look" THEN local'[t].todo ELSE local'[t].todo \cup {e}
      BY <2>4 DEF InScan
    <3>3. f \in local[t].todo \cup game.once \cup running
      BY <2>4, <2>5, <2>6
    <3> QED BY <1>k, <2>4, <3>1, <3>2, <3>3
  <2>7. CallerSettles(t)'
    <3>1. /\ local'[t].blocked = local[t].blocked /\ local'[t].result = local[t].result
          /\ local'[t].outcome = local[t].outcome /\ local'[t].deferred = local[t].deferred
      BY <1>n, <2>4 DEF LocalType
    <3>2. pc'[t] \in {"look", "enter"}
      BY <2>4
    <3> QED BY <1>d, <2>4, <2>5, <2>6, <3>1, <3>2
               DEF CallerSettles, Finishing
  <2> QED BY <1>z, <2>3, <2>7
<1>8. CASE EndScan(t)
  <2>1. Settled(today[t])
    <3> SUFFICES ASSUME NEW e \in Events, e <= today[t] PROVE e \in game.once \cup running
      BY DEF Settled
    <3>1. pc[t] = "look" /\ Candidates(t) = {}
      BY <1>8 DEF EndScan, Goto
    <3>2. ~direct[t]
      BY <1>l, <3>1 DEF RunSteps
    <3>3. e \in local[t].todo \cup game.once \cup running
      BY <1>d, <3>1, <3>2 DEF CallerSettles, InScan
    <3>4. e \in local[t].todo => e \in game.over \cup processed
      BY <3>1 DEF Candidates
    <3> QED BY <1>d, <3>3, <3>4 DEF AllHandled
  <2>2. /\ UNCHANGED <<event, inPass, direct, today>> /\ pc[t] = "look" /\ pc'[t] = "scanned"
        /\ local'[t] = [local[t] EXCEPT !.result = 0]
        /\ idleCache' = [at |-> today[t], next |-> NextDue(today[t])]
    BY <1>8, <1>d, <1>n DEF EndScan, Goto, CallerSettles
  <2>3. CachesSettled'
    <3>1. UNCHANGED <<scheduled, last, cursorCache, db>>
      BY <1>8 DEF EndScan
    <3>2. /\ NextDue(today[t]) = 0 <=> \A e \in Events : e <= today[t]
          /\ \A e \in Events : e > today[t] => NextDue(today[t]) <= e
      BY <1>n, NextDueIsADay
    <3>3. \A e \in Events : e \in Nat /\ today[t] \in Nat /\ (e > today[t] => ~(e <= today[t]))
      <4>1. DayOrNone \subseteq Nat /\ Events \subseteq Nat
        BY CustomEventsAssumption DEF DayOrNone
      <4>2. today[t] \in Nat
        BY <1>n, <4>1
      <4> QED BY <4>1, <4>2
    <3>4. \A e \in Events : e > idleCache'.at => idleCache'.next # 0 /\ idleCache'.next <= e
      BY <2>2, <3>2, <3>3
    <3>5. Settled(idleCache.at)'
      BY <1>s, <2>1, <2>2 DEF Settled
    <3> QED BY <1>d, <1>g, <1>s, <3>1, <3>4, <3>5 DEF CachesSettled, Rows
  <2>4. CallerSettles(t)'
    BY <1>d, <1>n, <1>s, <2>1, <2>2
       DEF CallerSettles, Finishing, ScanSteps, RunSteps, LocalType
  <2> QED BY <1>z, <2>3, <2>4
<1>9. CASE EnterRun(t)
  <2>1. CachesSettled'
    BY <1>9, <1>c DEF EnterRun, Rows
  <2>2. UNCHANGED <<game, event, inPass, direct, today>> /\ pc[t] = "enter"
    BY <1>9 DEF EnterRun, Goto
  <2>3. (~inPass[t] /\ ~local[t].deferred => Settled(today[t])')
    BY <1>d, <1>s, <2>2 DEF CallerSettles, ScanSteps, RunSteps
  <2>4. CASE Goto(t, "enter", "recheck") /\ UNCHANGED local
    <3>1. pc'[t] = "recheck" /\ local'[t] = local[t]
      BY <1>n, <2>4 DEF Goto
    <3>2. CallerSettles(t)'
      BY <1>d, <2>2, <2>3, <3>1 DEF CallerSettles, Finishing
    <3> QED BY <1>z, <2>1, <3>2
  <2>5. CASE Goto(t, "enter", After(t)) /\ event[t] \in running
             /\ local' = [local EXCEPT ![t].critical = @ \/ direct[t]] /\ UNCHANGED running
    <3> DEFINE b == local[t].critical \/ direct[t]
    <3>1. pc'[t] = After(t) /\ local'[t] = [local[t] EXCEPT !.critical = b] /\ b \in BOOLEAN
      BY <1>n, <2>5 DEF Goto
    <3> HIDE DEF b
    <3>2. /\ local'[t].blocked = local[t].blocked /\ local'[t].result = local[t].result
          /\ local'[t].outcome = local[t].outcome /\ local'[t].deferred = local[t].deferred
          /\ local'[t].todo = local[t].todo
      BY <1>n, <3>1 DEF LocalType
    <3>3. CASE direct[t]
      <4>1. pc'[t] = "direct"
        BY <3>1, <3>3 DEF After
      <4> QED BY <1>d, <1>l, <1>z, <2>1, <2>2, <3>2, <3>3, <4>1
                 DEF CallerSettles, Finishing, ScanSteps, RunSteps
    <3>4. CASE ~direct[t]
      <4>1. pc'[t] = "look"
        BY <3>1, <3>4 DEF After
      <4>2. ASSUME NEW e \in Events, e <= today[t] PROVE e \in InScan(t)' \cup game.once \cup running
        BY <1>d, <2>2, <2>5, <3>2, <3>4, <4>1, <4>2 DEF CallerSettles, InScan
      <4>3. CallerSettles(t)'
        BY <1>d, <2>2, <2>3, <2>5, <3>2, <4>1, <4>2 DEF CallerSettles, Finishing
      <4> QED BY <1>z, <2>1, <4>3
    <3> QED BY <3>3, <3>4
  <2> QED BY <1>9, <2>4, <2>5 DEF EnterRun
<1>10. CASE Recheck(t)
  <2>1. CachesSettled'
    <3>1. UNCHANGED db \/ Prune(Markers)
      BY <1>10 DEF Recheck
    <3>2. Rows'.cursor = Rows.cursor
      BY <1>g, <1>h, <1>j, <3>1 DEF Rows
    <3> QED BY <1>10, <1>c, <3>2 DEF Recheck
  <2>2. /\ UNCHANGED <<event, inPass, direct, today>> /\ pc[t] = "recheck"
        /\ \/ pc'[t] = "mark" /\ local'[t] = [local[t] EXCEPT !.outcome = "already"]
           \/ pc'[t] = "handler" /\ local'[t] = local[t]
    BY <1>10, <1>n DEF Recheck, Goto
  <2>3. (~inPass[t] /\ ~local[t].deferred => Settled(today[t])')
    BY <1>d, <1>s, <2>2 DEF CallerSettles, ScanSteps, RunSteps
  <2>4. CallerSettles(t)'
    BY <1>d, <1>n, <2>2, <2>3 DEF CallerSettles, Finishing, LocalType
  <2> QED BY <1>z, <2>1, <2>4
<1>11. CASE HandlerDone(t)
  <2>1. CachesSettled'
    BY <1>11, <1>c, <1>g DEF HandlerDone, Rows
  <2>2. /\ UNCHANGED <<event, inPass, direct, today>> /\ pc[t] = "handler"
        /\ pc'[t] = "mark" /\ local'[t] = [local[t] EXCEPT !.outcome = "done"]
    BY <1>11, <1>n DEF HandlerDone, Goto
  <2>3. (~inPass[t] /\ ~local[t].deferred => Settled(today[t])')
    BY <1>d, <1>s, <2>2 DEF CallerSettles, ScanSteps, RunSteps
  <2>4. CallerSettles(t)'
    BY <1>d, <1>n, <2>2, <2>3 DEF CallerSettles, Finishing, LocalType
  <2> QED BY <1>z, <2>1, <2>4
<1>12. CASE Mark(t)
  <2>1. CachesSettled'
    BY <1>12, <1>c, <1>g DEF Mark, Rows
  <2>2. /\ UNCHANGED <<event, inPass, direct, today, local>> /\ pc[t] = "mark"
        /\ pc'[t] = "marker"
    BY <1>12, <1>n DEF Mark, Goto
  <2>3. (~inPass[t] /\ ~local[t].deferred => Settled(today[t])')
    BY <1>d, <1>s, <2>2 DEF CallerSettles, ScanSteps, RunSteps
  <2>4. CallerSettles(t)'
    BY <1>d, <2>2, <2>3 DEF CallerSettles, Finishing
  <2> QED BY <1>z, <2>1, <2>4
<1>13. CASE WriteMarker(t)
  <2>1. /\ UNCHANGED <<game, event, inPass, direct, today, local>> /\ pc[t] = "marker"
        /\ pc'[t] \in {"record", "leave"}
    BY <1>13, <1>n DEF WriteMarker, Goto
  <2>2. CachesSettled'
    <3>1. Prune(Markers) \/ Prune(Markers \cup {event[t]})
      BY <1>13 DEF WriteMarker
    <3>2. Markers \cup {event[t]} \in SUBSET Events
      BY <1>j, <2>1 DEF RunsAnEvent, AtEvent, RunSteps
    <3>3. Rows'.cursor = Rows.cursor
      BY <1>h, <1>j, <3>1, <3>2
    <3> QED BY <1>13, <1>c, <3>3 DEF WriteMarker
  <2>3. (~inPass[t] /\ ~local[t].deferred => Settled(today[t])')
    BY <1>d, <1>s, <2>1 DEF CallerSettles, ScanSteps, RunSteps
  <2>4. event[t] \in game.once
    BY <1>d, <2>1 DEF AllHandled, Finishing
  <2>5. CallerSettles(t)'
    BY <1>d, <2>1, <2>3, <2>4 DEF CallerSettles, Finishing
  <2> QED BY <1>z, <2>2, <2>5
<1>14. CASE RecordRun(t)
  <2>1. /\ UNCHANGED <<game, event, inPass, direct, today, local>> /\ pc[t] = "record"
        /\ pc'[t] = "leave"
    BY <1>14, <1>n DEF RecordRun, Goto
  <2>2. CachesSettled'
    <3>1. CASE UNCHANGED db
      BY <1>14, <1>c, <2>1, <3>1 DEF RecordRun, Rows
    <3>2. CASE db' = [db EXCEPT ![game.save].ledger = @ \cup {event[t]}]
      <4>1. Rows' = [Rows EXCEPT !.ledger = @ \cup {event[t]}]
        BY <1>n, <2>1, <3>2 DEF Rows
      <4>2. Rows'.cursor = Rows.cursor
        BY <4>1, RowsTyped DEF RowsType
      <4> QED BY <1>14, <1>c, <4>2 DEF RecordRun
    <3> QED BY <1>14, <3>1, <3>2 DEF RecordRun
  <2>3. (~inPass[t] /\ ~local[t].deferred => Settled(today[t])')
    BY <1>d, <1>s, <2>1 DEF CallerSettles, ScanSteps, RunSteps
  <2>4. event[t] \in game.once
    BY <1>d, <2>1 DEF AllHandled, Finishing
  <2>5. CallerSettles(t)'
    BY <1>d, <2>1, <2>3, <2>4 DEF CallerSettles, Finishing
  <2> QED BY <1>z, <2>2, <2>5
<1>15. CASE LeaveRun(t)
  <2>1. CachesSettled'
    BY <1>15, <1>c DEF LeaveRun, Rows
  <2>2. UNCHANGED <<game, event, inPass, direct, today>> /\ pc[t] = "leave"
    BY <1>15 DEF LeaveRun, Goto
  <2>3. /\ (~inPass[t] /\ ~local[t].deferred => Settled(today[t])')
        /\ local[t].outcome \in {"done", "already"}
    BY <1>d, <1>s, <2>2 DEF CallerSettles, ScanSteps, RunSteps
  <2>4. /\ local'[t].result = 1 /\ local'[t].outcome = "none"
        /\ local'[t].blocked = local[t].blocked /\ local'[t].deferred = local[t].deferred
    BY <1>15, <1>b, <1>n, <2>3 DEF LeaveRun, LocalType
  <2>5. pc'[t] = IF direct[t] THEN "direct" ELSE "scanned"
    BY <1>15, <1>n, <2>3 DEF LeaveRun, Goto, After
  <2>6. CASE direct[t]
    <3>1. pc'[t] = "direct" /\ inPass[t]
      BY <1>l, <2>5, <2>6
    <3>2. CallerSettles(t)'
      BY <1>d, <2>2, <2>4, <2>6, <3>1 DEF CallerSettles, Finishing, ScanSteps, RunSteps
    <3> QED BY <1>z, <2>1, <3>2
  <2>7. CASE ~direct[t]
    <3>1. pc'[t] = "scanned"
      BY <2>5, <2>7
    <3>2. CallerSettles(t)'
      BY <1>d, <2>2, <2>3, <2>4, <3>1 DEF CallerSettles, Finishing
    <3> QED BY <1>z, <2>1, <3>2
  <2> QED BY <2>6, <2>7
<1>16. CASE PassScanned(t)
  <2>1. CachesSettled'
    BY <1>16, <1>c DEF PassScanned, Rows
  <2>2. /\ UNCHANGED <<event, inPass, direct, today>> /\ pc[t] = "scanned" /\ inPass[t]
        /\ pc'[t] = IF local[t].result > 0 THEN "scan" ELSE "passEnd"
    BY <1>16, <1>n DEF PassScanned, Goto
  <2>3. /\ local'[t].result = local[t].result /\ local'[t].outcome = local[t].outcome
        /\ local'[t].blocked = local[t].blocked /\ local'[t].deferred = local[t].deferred
    BY <1>16, <1>n DEF PassScanned, LocalType
  <2>4. /\ ~local[t].blocked /\ local[t].result \in {0, 1}
        /\ local[t].outcome \notin {"defer", "fail"}
        /\ local[t].result = 0 => Settled(today[t])'
    BY <1>d, <1>s, <2>2 DEF CallerSettles
  <2>5. \/ pc'[t] = "scan"
        \/ pc'[t] = "passEnd" /\ local[t].result = 0
    BY <2>2, <2>4
  <2>6. CallerSettles(t)'
    BY <2>2, <2>3, <2>4, <2>5 DEF CallerSettles, Finishing
  <2> QED BY <1>z, <2>1, <2>6
<1>17. CASE PassEnd(t)
  <2>1. /\ UNCHANGED <<game, scheduled, idleCache, last, event, direct, today>>
        /\ pc[t] = "passEnd" /\ pc'[t] = "passDone" /\ ~inPass'[t]
    BY <1>17, <1>n DEF PassEnd, Goto
  <2>2. Settled(today[t])
    BY <1>d, <2>1 DEF CallerSettles
  <2>3. CachesSettled'
    <3>1. CASE UNCHANGED <<db, cursorCache>>
      BY <1>c, <2>1, <3>1 DEF Rows
    <3>2. CASE /\ db' = [db EXCEPT ![game.save].cursor = today[t]]
               /\ cursorCache' = [save |-> game.save, value |-> today[t]]
      <4>1. Rows' = [Rows EXCEPT !.cursor = today[t]]
        BY <1>n, <2>1, <3>2 DEF Rows
      <4>2. Rows'.cursor = today[t] /\ cursorCache'.value = today[t]
        BY <3>2, <4>1, RowsTyped DEF RowsType
      <4> QED BY <1>d, <1>s, <2>1, <2>2, <4>2 DEF CachesSettled
    <3> QED BY <1>17, <3>1, <3>2 DEF PassEnd
  <2>4. /\ local'[t].result = local[t].result /\ local'[t].outcome = local[t].outcome
        /\ local'[t].blocked = local[t].blocked
    BY <1>17, <1>n DEF PassEnd, LocalType
  <2>5. CallerSettles(t)'
    BY <1>d, <1>s, <2>1, <2>2, <2>4 DEF CallerSettles, Finishing, ScanSteps, RunSteps
  <2> QED BY <1>z, <2>3, <2>5
<1>18. CASE ReleaseSchedule(t)
  <2>1. CachesSettled'
    BY <1>18, <1>c DEF ReleaseSchedule, Rows
  <2>2. /\ UNCHANGED <<event, inPass, direct, today>> /\ pc[t] = "passDone"
        /\ pc'[t] = IF local[t].failed THEN "scanCheck" ELSE "setScheduled"
        /\ local'[t] = [local[t] EXCEPT !.deferred = local[t].failed]
    BY <1>18, <1>n DEF ReleaseSchedule, Goto
  <2>3. /\ local'[t].result = local[t].result /\ local'[t].outcome = local[t].outcome
        /\ local'[t].blocked = local[t].blocked /\ local'[t].deferred = local[t].failed
    BY <1>n, <2>2 DEF LocalType
  <2>4. CallerSettles(t)'
    BY <1>d, <1>s, <2>2, <2>3 DEF CallerSettles, Finishing, ScanSteps, RunSteps
  <2> QED BY <1>z, <2>1, <2>4
<1>19. CASE SetScheduled(t)
  <2>1. /\ UNCHANGED <<game, db, cursorCache, idleCache, event, inPass, direct, today, local>>
        /\ pc[t] = "setScheduled" /\ pc'[t] = "setScanned" /\ scheduled' = today[t]
        /\ last'[t].scheduled = today[t]
    BY <1>19, <1>n DEF SetScheduled, Goto, LastType
  <2>2. Settled(today[t])'
    BY <1>d, <1>s, <2>1 DEF CallerSettles
  <2>3. CachesSettled'
    <3>1. \A u \in Callers : Settled(last[u].scheduled)'
      <4>1. \A u \in Callers : Settled(last'[u].scheduled)
        BY <1>d, <2>1, OthersStay DEF CachesSettled, CallerSettles
      <4> QED BY <1>k, <4>1 DEF Settled
    <3>2. Settled(scheduled)'
      BY <2>1, <2>2
    <3> QED BY <1>d, <1>s, <2>1, <3>1, <3>2 DEF CachesSettled, Rows
  <2>4. CallerSettles(t)'
    BY <1>d, <2>1, <2>2 DEF CallerSettles, Finishing, ScanSteps, RunSteps
  <2> QED BY <1>z, <2>3, <2>4
<1>20. CASE SetScanned(t)
  <2>1. CachesSettled'
    BY <1>20, <1>c, <1>n DEF SetScanned, Rows, LastType
  <2>2. /\ UNCHANGED <<event, inPass, direct, today, local>> /\ pc[t] = "setScanned"
        /\ pc'[t] = "scanCheck"
    BY <1>20, <1>n DEF SetScanned, Goto
  <2>3. CallerSettles(t)'
    BY <1>d, <1>s, <2>2 DEF CallerSettles, Finishing
  <2> QED BY <1>z, <2>1, <2>3
<1>21. CASE CheckScanned(t)
  <2>1. CachesSettled'
    BY <1>21, <1>c, <1>n DEF CheckScanned, Rows, LastType
  <2>2. /\ UNCHANGED <<event, inPass, direct, today, local>> /\ pc[t] = "scanCheck"
        /\ pc'[t] \in {"end", "scan"}
    BY <1>21, <1>n DEF CheckScanned, Goto
  <2>3. CallerSettles(t)'
    BY <1>d, <1>s, <2>2 DEF CallerSettles, Finishing
  <2> QED BY <1>z, <2>1, <2>3
<1>22. CASE TickScanned(t)
  <2>1. /\ UNCHANGED <<event, inPass, direct, today>> /\ pc[t] = "scanned"
        /\ pc'[t] = "end" /\ ~inPass[t]
    BY <1>22, <1>n DEF TickScanned, Goto
  <2>2. local[t].result >= 0 /\ UNCHANGED local
    <3>1. local[t].result >= 0
      BY <1>d DEF CallerSettles
    <3> QED BY <1>22, <3>1 DEF TickScanned
  <2>3. CachesSettled'
    BY <1>22, <1>c, <1>n DEF TickScanned, Rows, LastType
  <2>4. CallerSettles(t)'
    BY <1>d, <1>s, <2>1, <2>2 DEF CallerSettles, Finishing, ScanSteps
  <2> QED BY <1>z, <2>3, <2>4
<1>23. CASE EndTick(t)
  <2>1. CachesSettled'
    BY <1>23, <1>c DEF EndTick, Rows
  <2>2. /\ UNCHANGED <<inPass, direct>> /\ pc'[t] = "idle" /\ local'[t] = NoLocals
    BY <1>23, <1>n DEF EndTick, Goto
  <2>3. CallerSettles(t)'
    BY <2>2 DEF CallerSettles, NoLocals, Finishing, ScanSteps, RunSteps
  <2> QED BY <1>z, <2>1, <2>3
<1> QED
  BY <1>f, <1>1, <1>2, <1>3, <1>4, <1>5, <1>6, <1>7, <1>8, <1>9, <1>10, <1>11, <1>12, <1>13,
     <1>14, <1>15, <1>16, <1>17, <1>18, <1>19, <1>20, <1>21, <1>22, <1>23 DEF Step


\* The invariant of complete ticks, in every reachable state.
LEMMA TickInductive == Spec => [](TypeOK /\ LockInv /\ SessionInv /\ TickInv)
<1>1. Init => TickInv
  BY TickInit
<1>2. TypeOK /\ RunsAnEvent /\ LockInv /\ SessionInv /\ TickInv /\ [Next]_vars => TickInv'
  <2> SUFFICES ASSUME SharedTyped, CallersTyped, RunsAnEvent, LockInv, SessionInv, TickInv,
                      [Next]_vars
               PROVE  TickInv'
    BY TypeParts
  <2>1. CASE UNCHANGED vars
    BY <2>1 DEF vars, world, dates, caches, locks, callers, place, TickInv, Undisturbed,
       FirstSession, CachesSettled, CallerSettles, Settled, InScan, Rows
  <2>2. CASE Next
    BY <2>2, TickWorld, TickStep DEF Next
  <2> QED BY <2>1, <2>2
<1> QED BY <1>1, <1>2, SessionInductive, PTL DEF Spec

\* When the synchronous tick answers that the day's work is complete, no due event
\* is left undone: not by a pass that another one kept waiting, by a scan skipped
\* as idle or of a cached day, nor by a lost write.  No handler of the session has
\* put its event off or failed.
THEOREM CompleteTickLeavesNothing ==
    Spec => [](used.loads = 0 /\ used.failures = 0 => CompleteUndeferred)
<1>1. TypeOK /\ LockInv /\ TickInv => (used.loads = 0 /\ used.failures = 0 => CompleteUndeferred)
  <2> SUFFICES ASSUME TypeOK, LockInv, TickInv, Undisturbed, pc["sync"] = "end",
                      ~local["sync"].deferred
               PROVE  Missed = {}
    BY DEF CompleteUndeferred, CompleteTick, Undisturbed, FirstSession
  <2>1. CallerSettles("sync") /\ today["sync"] = game.day
    BY DEF TickInv, Callers
  <2>2. ~inPass["sync"]
    BY DEF LockInv, InPassPlaces, ScanSteps, RunSteps, Callers
  <2>3. Settled(today["sync"])
    BY <2>1, <2>2 DEF CallerSettles
  <2> QED BY <2>1, <2>3 DEF Settled, Missed
<1> QED BY <1>1, TickInductive, PTL

\* As long as the scans of the day are skipped as idle, there is nothing to be done
\* on it: the idle cache is not stored too early, and wakes on the next due day.
THEOREM IdleScansMissNothing ==
    Spec => [](used.loads = 0 /\ used.failures = 0 => IdleMeansDone)
<1>1. TypeOK /\ TickInv => (used.loads = 0 /\ used.failures = 0 => IdleMeansDone)
  <2> SUFFICES ASSUME TypeOK, CachesSettled, IdleOn(game.day), NEW e \in Missed PROVE FALSE
    BY DEF IdleMeansDone, TickInv, Undisturbed, FirstSession
  <2>1. e \in Events /\ e <= game.day /\ e \notin game.once \cup running
    BY DEF Missed
  <2>2. /\ game.day \in Nat /\ e \in Nat /\ idleCache.at \in Nat /\ idleCache.next \in Nat
        /\ idleCache.at # 0
        /\ idleCache.next = 0 \/ game.day < idleCache.next
    <3>1. idleCache.at \in DayOrNone /\ idleCache.next \in DayOrNone /\ game.day \in 1 .. MaxDate
      BY DEF TypeOK, GameType
    <3>2. DayOrNone \subseteq Nat /\ Events \subseteq Nat /\ MaxDate \in Nat
      BY CustomEventsAssumption DEF DayOrNone
    <3>3. game.day \in Nat
      BY <3>1, <3>2
    <3>4. e \in Nat
      BY <2>1, <3>2
    <3> QED BY <3>1, <3>2, <3>3, <3>4 DEF IdleOn
  <2>3. CASE e <= idleCache.at
    BY <2>1, <2>3 DEF CachesSettled, Settled
  <2>4. CASE e > idleCache.at
    <3>1. idleCache.next # 0 /\ idleCache.next <= e
      BY <2>1, <2>2, <2>4 DEF CachesSettled
    <3> QED BY <2>1, <2>2, <3>1
  <2> QED BY <2>2, <2>3, <2>4
<1> QED BY <1>1, TickInductive, PTL

=============================================================================
