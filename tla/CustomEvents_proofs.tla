------------------------- MODULE CustomEvents_proofs -------------------------
(***************************************************************************)
(* The locks of CustomEvents are owned, and exclude, for every set of      *)
(* events and saves and every bound: OneRunPerEvent and LocksAreOwned.     *)
(*                                                                         *)
(* The inductive invariant LockInv adds where the two flags of a caller's  *)
(* place hold (inPass, direct), that a caller in a tick has a date (its    *)
(* claim of the schedule is not the free value 0), and, for that, that     *)
(* the days of the game and of the stored saves are days.                  *)
(***************************************************************************)
EXTENDS CustomEvents, TLAPS

\* The functions of the callers' places.
Places ==
    /\ pc \in [Callers -> Steps]
    /\ DOMAIN event = Callers
    /\ inPass \in [Callers -> BOOLEAN]
    /\ direct \in [Callers -> BOOLEAN]
    /\ today \in [Callers -> DayOrNone]

\* The loaded game and the stored ones are on a day.
OnADay ==
    /\ {"save", "day"} \subseteq DOMAIN game
    /\ game.save \in Saves
    /\ game.day \in Days
    /\ published \in DayOrNone
    /\ \A s \in Saves : stored[s].day \in Days
    /\ DOMAIN stored = Saves

\* A caller in a tick has a date.
TicksHaveDates == \A t \in Callers : pc[t] # "idle" => today[t] # 0

\* Where inPass and direct hold.
InPassPlaces ==
    \A t \in Callers :
        /\ pc[t] \in {"direct", "passEnd"} => inPass[t]
        /\ inPass[t] => pc[t] \in {"direct", "passEnd"} \cup ScanSteps
DirectPlaces ==
    \A t \in Callers :
        direct[t] => inPass[t] /\ pc[t] \in {"direct", "enter"} \cup RunSteps

\* The claimed words: LocksAreOwned, by elements.
RunsOwned ==
    \A e : e \in running <=> \E t \in Callers : Running(t) /\ event[t] = e
PassOwned == duePass <=> \E t \in Callers : InDuePass(t)
ScheduleOwned == scheduling # 0 <=> \E t \in Callers : HoldsSchedule(t)
OneSchedule ==
    \A t, u \in Callers : t # u => ~(HoldsSchedule(t) /\ HoldsSchedule(u))

LockInv ==
    /\ Places /\ OnADay /\ TicksHaveDates /\ InPassPlaces /\ DirectPlaces
    /\ RunsOwned /\ PassOwned /\ ScheduleOwned /\ OneSchedule /\ OneRunPerEvent

USE DEF Callers

\* Nothing is claimed before the first tick.
LEMMA InitLocks ==
    ASSUME Init
    PROVE  LockInv
<1> USE DEF LockInv, RunSteps, ScanSteps, PassSteps, ScheduleSteps, Steps
<1>1. Places
  BY CustomEventsAssumption DEF Init, Places, DayOrNone
<1>2. OnADay
  BY CustomEventsAssumption DEF Init, OnADay, InGame, Fresh, Days, DayOrNone
<1>3. TicksHaveDates /\ InPassPlaces /\ DirectPlaces
  BY DEF Init, TicksHaveDates, InPassPlaces, DirectPlaces
<1>4. RunsOwned /\ PassOwned /\ ScheduleOwned /\ OneSchedule /\ OneRunPerEvent
  BY DEF Init, RunsOwned, PassOwned, ScheduleOwned, OneSchedule, OneRunPerEvent,
         Running, InDuePass, HoldsSchedule
<1> QED BY <1>1, <1>2, <1>3, <1>4

\* The player, the game and the two ways a tick begins.
LEMMA WorldKeepsLocks ==
    ASSUME LockInv,
           \/ AdvanceDay \/ DispatchToday \/ PhasePulse \/ SaveGame \/ Restart
           \/ \E s \in Saves : LoadSave(s)
    PROVE  LockInv'
<1> USE CustomEventsAssumption
    DEF LockInv, Places, OnADay, TicksHaveDates, InPassPlaces, DirectPlaces, RunsOwned,
        PassOwned, ScheduleOwned, OneSchedule, OneRunPerEvent, Running, InDuePass,
        HoldsSchedule, RunSteps, ScanSteps, PassSteps, ScheduleSteps, Steps, Days,
        DayOrNone, Goto, world, dates, caches, locks, place, callers
<1>1. CASE AdvanceDay
  BY <1>1 DEF AdvanceDay, StartTick
<1>2. CASE DispatchToday
  BY <1>2 DEF DispatchToday, StartTick
<1>3. CASE PhasePulse
  BY <1>3 DEF PhasePulse, StartTick
<1>4. CASE SaveGame
  BY <1>4 DEF SaveGame, Copy
<1>5. CASE Restart
  BY <1>5 DEF Restart, InGame
<1>6. CASE \E s \in Saves : LoadSave(s)
  BY <1>6 DEF LoadSave, InGame
<1> QED BY <1>1, <1>2, <1>3, <1>4, <1>5, <1>6

\* The steps of a caller, action by action.
LEMMA StepKeepsLocks ==
    ASSUME LockInv, NEW t \in Callers, Step(t)
    PROVE  LockInv'
<1> USE CustomEventsAssumption
    DEF LockInv, Places, OnADay, TicksHaveDates, InPassPlaces, DirectPlaces, RunsOwned,
        PassOwned, ScheduleOwned, OneSchedule, OneRunPerEvent, Running, InDuePass,
        HoldsSchedule, RunSteps, ScanSteps, PassSteps, ScheduleSteps, Steps, Days,
        DayOrNone, Goto, world, dates, caches, locks, place
<1>1. CASE CheckScheduled(t)
  BY <1>1 DEF CheckScheduled
<1>2. CASE ClaimSchedule(t)
  BY <1>2 DEF ClaimSchedule
<1>3. CASE ClaimPass(t)
  BY <1>3 DEF ClaimPass
<1>4. CASE ReadCursor(t)
  <2>1. CASE Goto(t, "cursor", "passDone")
    BY <1>4, <2>1 DEF ReadCursor
  <2>2. CASE Goto(t, "cursor", "direct")
    <3>1. /\ inPass' = [inPass EXCEPT ![t] = TRUE]
          /\ direct' = [direct EXCEPT ![t] = TRUE]
          /\ UNCHANGED <<game, stored, published, scheduling, duePass, running, event, today>>
      BY <1>4, <2>2 DEF ReadCursor
    <3>2. Places' /\ OnADay'
      BY <2>2, <3>1
    <3>3. TicksHaveDates' /\ InPassPlaces' /\ DirectPlaces'
      BY <2>2, <3>1
    <3>4. RunsOwned' /\ OneRunPerEvent'
      BY <2>2, <3>1
    <3>5. PassOwned' /\ ScheduleOwned' /\ OneSchedule'
      BY <2>2, <3>1
    <3> QED BY <3>2, <3>3, <3>4, <3>5
  <2> QED BY <1>4, <2>1, <2>2 DEF ReadCursor
<1>5. CASE DirectStep(t)
  <2>1. CASE Goto(t, "direct", "scan")
    <3>1. /\ direct' = [direct EXCEPT ![t] = FALSE]
          /\ UNCHANGED <<game, stored, published, scheduling, duePass, running, event,
                         inPass, today>>
      BY <1>5, <2>1 DEF DirectStep
    <3>2. Places' /\ OnADay'
      BY <2>1, <3>1
    <3>3. TicksHaveDates' /\ InPassPlaces' /\ DirectPlaces'
      BY <2>1, <3>1
    <3>4. RunsOwned' /\ OneRunPerEvent'
      BY <2>1, <3>1
    <3>5. PassOwned' /\ ScheduleOwned' /\ OneSchedule'
      BY <2>1, <3>1
    <3> QED BY <3>2, <3>3, <3>4, <3>5
  <2>2. CASE Goto(t, "direct", "direct")
    BY <1>5, <2>2 DEF DirectStep, Prune
  <2>3. CASE Goto(t, "direct", "enter")
    BY <1>5, <2>3 DEF DirectStep, Prune
  <2> QED BY <1>5, <2>1, <2>2, <2>3 DEF DirectStep
<1>6. CASE StartScan(t)
  BY <1>6 DEF StartScan
<1>7. CASE Look(t)
  BY <1>7 DEF Look
<1>8. CASE EndScan(t)
  BY <1>8 DEF EndScan
<1>9. CASE EnterRun(t)
  BY <1>9 DEF EnterRun, After
<1>10. CASE Recheck(t)
  BY <1>10 DEF Recheck
<1>11. CASE HandlerDone(t)
  BY <1>11 DEF HandlerDone
<1>12. CASE HandlerDefers(t)
  BY <1>12 DEF HandlerDefers
<1>13. CASE HandlerFails(t)
  BY <1>13 DEF HandlerFails
<1>14. CASE Mark(t)
  BY <1>14 DEF Mark
<1>15. CASE WriteMarker(t)
  BY <1>15 DEF WriteMarker
<1>16. CASE RecordRun(t)
  BY <1>16 DEF RecordRun
<1>17. CASE LeaveRun(t)
  BY <1>17 DEF LeaveRun, After
<1>18. CASE PassScanned(t)
  BY <1>18 DEF PassScanned
<1>19. CASE PassEnd(t)
  BY <1>19 DEF PassEnd
<1>20. CASE ReleaseSchedule(t)
  BY <1>20 DEF ReleaseSchedule
<1>21. CASE SetScheduled(t)
  BY <1>21 DEF SetScheduled
<1>22. CASE SetScanned(t)
  BY <1>22 DEF SetScanned
<1>23. CASE CheckScanned(t)
  BY <1>23 DEF CheckScanned
<1>24. CASE TickScanned(t)
  BY <1>24 DEF TickScanned
<1>25. CASE EndTick(t)
  BY <1>25 DEF EndTick
<1> QED BY <1>1, <1>2, <1>3, <1>4, <1>5, <1>6, <1>7, <1>8, <1>9, <1>10, <1>11, <1>12, <1>13, <1>14, <1>15, <1>16, <1>17, <1>18, <1>19, <1>20, <1>21, <1>22, <1>23, <1>24, <1>25 DEF Step

\* The ownership invariant holds in every reachable state.
LEMMA LocksInductive == Spec => []LockInv
<1>1. Init => LockInv
  BY InitLocks
<1>2. LockInv /\ [Next]_vars => LockInv'
  <2> SUFFICES ASSUME LockInv, [Next]_vars PROVE LockInv'
    OBVIOUS
  <2>1. CASE Next
    BY <2>1, WorldKeepsLocks, StepKeepsLocks DEF Next
  <2>2. CASE UNCHANGED vars
    BY <2>2 DEF LockInv, Places, OnADay, TicksHaveDates, InPassPlaces, DirectPlaces,
         RunsOwned, PassOwned, ScheduleOwned, OneSchedule, OneRunPerEvent, Running,
         InDuePass, HoldsSchedule, vars, world, dates, locks, callers, place
  <2> QED BY <2>1, <2>2
<1> QED BY <1>1, <1>2, PTL DEF Spec

\* The word of a kind in running_keys is a lock: for every calendar, and however
\* the two callers, restarts and save switches interleave, no event is run by
\* both at once.
THEOREM OneRun == Spec => []OneRunPerEvent
<1>1. LockInv => OneRunPerEvent
  BY DEF LockInv
<1> QED BY <1>1, LocksInductive, PTL

\* The claimed words of runs, pass and schedule are exactly those of the callers
\* that will free them; no deferral, failure or early return leaks one.
THEOREM LocksCorrect == Spec => []LocksAreOwned
<1>1. LockInv => LocksAreOwned
  <2> SUFFICES ASSUME LockInv PROVE LocksAreOwned
    OBVIOUS
  <2>1. running = {event[t] : t \in {u \in Callers : Running(u)}}
    BY DEF LockInv, RunsOwned
  <2> QED BY <2>1 DEF LockInv, LocksAreOwned, PassOwned, ScheduleOwned, OneSchedule
<1> QED BY <1>1, LocksInductive, PTL
=============================================================================
