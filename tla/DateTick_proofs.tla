-------------------------- MODULE DateTick_proofs --------------------------
(***************************************************************************)
(* Theorems about DateTick for every set of pollers, saves and slots and   *)
(* every bound, in this order:                                             *)
(*   - the types, and the count of the reservations;                       *)
(*   - the exclusion of the synchronous consumers before the first load;   *)
(*   - what the slots of the ring hold;                                    *)
(*   - that what last_dispatched_date records was done;                    *)
(*   - the game thread while no poller publishes: what each of its steps   *)
(*     does, that no day's work is done twice, what a complete dispatch    *)
(*     and an accepted day promise, and the order of the dates in the      *)
(*     ring.                                                               *)
(***************************************************************************)
EXTENDS DateTick, FiniteSetTheorems, TLAPS

-----------------------------------------------------------------------------
(***************************************************************************)
(* Types.                                                                  *)
(***************************************************************************)
Claimed == {"claim", "recheck", "callback", "finish", "release"}

\* A thread that has chosen a slot to run has not passed the last one.
SlotChosen == \A t \in Threads : pc[t] \in Claimed => local[t].slot \in Slots

TypeInv == TypeOK /\ SlotChosen

\* An assignment to one place of a function keeps the function's type.
LEMMA FunctionUpdate ==
  ASSUME NEW S, NEW T, NEW f \in [S -> T], NEW x, NEW y \in T
  PROVE  [f EXCEPT ![x] = y] \in [S -> T]
  OBVIOUS

\* What a thread's locals are made of.
LEMMA LocalFields ==
    /\ NoLocals \in LocalType
    /\ \A r \in LocalType :
         /\ r.date \in DatesOrNone /\ r.seen \in DatesOrNone
         /\ r.path \in PathType
         /\ r.event \in Nat /\ r.epoch \in Nat /\ r.load \in Nat
         /\ r.slot \in 1 .. SlotCount + 1
         /\ r.ok \in BOOLEAN /\ r.complete \in BOOLEAN
  BY DateTickAssumption, SMT DEF LocalType, NoLocals, PathType, DatesOrNone

\* Locals stay typed when one field is assigned a value of its type.
LEMMA LocalUpdates ==
    \A r \in LocalType :
      /\ \A v \in DatesOrNone : /\ [r EXCEPT !.date = v] \in LocalType
                                /\ [r EXCEPT !.seen = v] \in LocalType
      /\ \A v \in PathType : [r EXCEPT !.path = v] \in LocalType
      /\ \A v \in Nat : /\ [r EXCEPT !.event = v] \in LocalType
                        /\ [r EXCEPT !.epoch = v] \in LocalType
                        /\ [r EXCEPT !.load = v] \in LocalType
                        /\ [r EXCEPT !.load = v].slot = r.slot
      /\ \A v \in BOOLEAN : /\ [r EXCEPT !.ok = v] \in LocalType
                            /\ [r EXCEPT !.ok = v].slot = r.slot
                            /\ [r EXCEPT !.complete = v] \in LocalType
                            /\ [r EXCEPT !.complete = v].slot = r.slot
      /\ \A v \in 1 .. SlotCount + 1 : [r EXCEPT !.slot = v] \in LocalType
  BY SMT DEF LocalType

\* The shared variables, and the state of the threads, apart.
GlobalsTyped ==
    /\ game \in GameType
    /\ lastPublished \in DatesOrNone
    /\ writeCursor \in Nat
    /\ published \in Nat
    /\ ring \in RingType
    /\ scopePath \in PathType
    /\ boundary \in BoundaryType
    /\ lastDispatched \in SlotDates
    /\ processing \in SlotDates
    /\ consumer \in [Pollers -> ConsumerType]
    /\ log \in Seq(DatesOrNone)
    /\ done \subseteq Work

ThreadsTyped ==
    /\ pc \in [Threads -> Labels]
    /\ local \in [Threads -> LocalType]
    /\ SlotChosen

LEMMA TypeParts == TypeInv <=> GlobalsTyped /\ ThreadsTyped
  BY Zenon DEF TypeInv, TypeOK, GlobalsTyped, ThreadsTyped

\* A thread goes on to a label that its locals justify.
LEMMA ThreadStep ==
  ASSUME ThreadsTyped, NEW t \in Threads,
         NEW to \in Labels, pc' = [pc EXCEPT ![t] = to],
         NEW r \in LocalType, local' = [local EXCEPT ![t] = r],
         to \in Claimed => r.slot \in Slots
  PROVE  ThreadsTyped'
  BY DEF ThreadsTyped, SlotChosen

LEMMA ThreadMove ==
  ASSUME ThreadsTyped, NEW t \in Threads, UNCHANGED local,
         NEW to \in Labels, pc' = [pc EXCEPT ![t] = to],
         to \in Claimed => local[t].slot \in Slots
  PROVE  ThreadsTyped'
  BY DEF ThreadsTyped, SlotChosen

\* The typed initial state, with every slot index in range.
LEMMA TypeInit == Init => TypeInv
<1> SUFFICES ASSUME Init PROVE TypeInv
  OBVIOUS
<1>1. PICK s \in Saves :
        /\ game = [save |-> s, date |-> 1, loads |-> 0, defers |-> 0]
        /\ scopePath = s
        /\ boundary = [path |-> s, epoch |-> 2]
  BY DEF Init
<1>2. game \in GameType /\ scopePath \in PathType /\ boundary \in BoundaryType
  BY <1>1, DateTickAssumption, SMT
     DEF GameType, BoundaryType, PathType, DatesOrNone
<1>3. local \in [Threads -> LocalType]
  BY LocalFields DEF Init
<1>4. consumer \in [Pollers -> ConsumerType]
  <2>1. {NewConsumer, EnteredConsumer(game.save)} \subseteq ConsumerType
    BY <1>1, SMT DEF NewConsumer, EnteredConsumer, ConsumerType, PathType
  <2> QED
    BY <2>1 DEF Init
<1>5. ring \in RingType
  BY DateTickAssumption, SMT DEF Init, EmptySlot, RingType, EventType, DatesOrNone
<1>6. lastDispatched \in SlotDates /\ processing \in SlotDates
  BY DateTickAssumption, SMT DEF Init, SlotDates, DatesOrNone
<1>7. pc \in [Threads -> Labels] /\ SlotChosen
  BY SMT DEF Init, Labels, SlotChosen, Claimed
<1>8. 1 \in DatesOrNone /\ log \in Seq(DatesOrNone)
  BY DateTickAssumption, SMT DEF Init, DatesOrNone
<1> QED
  BY <1>2, <1>3, <1>4, <1>5, <1>6, <1>7, <1>8 DEF Init, TypeInv, TypeOK

\* Every step of the game, a publisher, a poller or a dispatch keeps the types.
LEMMA TypeStep == TypeInv /\ [Next]_vars => TypeInv'
<1> SUFFICES ASSUME GlobalsTyped, ThreadsTyped, [Next]_vars
             PROVE  GlobalsTyped' /\ ThreadsTyped'
  BY TypeParts, PTL
<1> USE DateTickAssumption DEF gameOnly, dispatchOnly, eventVars, scopeVars, slotVars
<1>a. Sim \in Threads /\ Pollers \subseteq Threads
  BY DEF Threads
<1>b. /\ game.save \in Saves /\ game.date \in DatesOrNone
      /\ game.loads \in Nat /\ game.defers \in Nat
      /\ boundary.path \in PathType /\ boundary.epoch \in Nat
  BY SMT DEF GlobalsTyped, GameType, BoundaryType
<1>c. \A t \in Threads : local[t] \in LocalType
  BY DEF ThreadsTyped
<1>d. game.save \in PathType
  BY <1>b DEF PathType
<1>1. CASE UNCHANGED vars
  BY <1>1 DEF vars, GlobalsTyped, ThreadsTyped, SlotChosen
<1>2. ASSUME NEW s \in Saves, LoadSave(s) PROVE GlobalsTyped' /\ ThreadsTyped'
  <2>1. game' \in GameType
    BY <1>2, <1>b, SMT DEF LoadSave, GameType, DatesOrNone
  <2> QED
    BY <1>2, <2>1 DEF LoadSave, GlobalsTyped, ThreadsTyped, SlotChosen
<1>3. ASSUME NEW d \in Dates, LoadDone(d) PROVE GlobalsTyped' /\ ThreadsTyped'
  <2>1. game' \in GameType
    BY <1>3, SMT DEF LoadDone, GlobalsTyped, GameType, Dates, DatesOrNone
  <2> QED
    BY <1>3, <2>1 DEF LoadDone, GlobalsTyped, ThreadsTyped, SlotChosen
<1>4. CASE AdvanceDay
  <2>1. game.date + 1 \in DatesOrNone
    BY <1>4, <1>b, SMT DEF AdvanceDay, DatesOrNone
  <2>2. game' \in GameType
    BY <1>4, <2>1, SMT DEF AdvanceDay, GlobalsTyped, GameType
  <2>3. ThreadsTyped'
    BY <1>4, <1>a, <1>c, <2>1, LocalUpdates, ThreadStep
       DEF AdvanceDay, Goto, Labels, Claimed
  <2> QED
    BY <1>4, <2>2, <2>3 DEF AdvanceDay, GlobalsTyped
<1>5. CASE ReportAgain
  <2>1. ThreadsTyped'
    BY <1>5, <1>a, <1>b, <1>c, LocalUpdates, ThreadStep
       DEF ReportAgain, Goto, Labels, Claimed
  <2> QED
    BY <1>5, <2>1 DEF ReportAgain, GlobalsTyped
<1>6. ASSUME NEW t \in Pollers, SaveEnter(t) PROVE GlobalsTyped' /\ ThreadsTyped'
  <2>a. t \in Threads /\ local[t] \in LocalType
    BY <1>a, <1>c
  <2>b. 0 \in DatesOrNone
    BY SMT DEF DatesOrNone
  <2>1. CASE ConsumerPoll(t)
    <3>1. consumer' \in [Pollers -> ConsumerType]
      BY <2>1, <1>d, SMT DEF ConsumerPoll, GlobalsTyped, ConsumerType
    <3>2. ThreadsTyped'
      BY <2>1, <2>a, ThreadMove
         DEF ConsumerPoll, Goto, Labels, Claimed
    <3> QED
      BY <2>1, <3>1, <3>2 DEF ConsumerPoll, GlobalsTyped
  <2>2. CASE EnterScope(t)
    <3>1. 0 \in DatesOrNone
      BY <2>2, SMT DEF DatesOrNone
    <3>2. consumer[t].path \in PathType
      BY <2>2, SMT DEF GlobalsTyped, ConsumerType
    <3>3. ThreadsTyped'
      BY <2>2, <2>a, ThreadMove
         DEF EnterScope, Goto, Labels, Claimed
    <3> QED
      BY <2>2, <3>1, <3>2, <3>3 DEF EnterScope, GlobalsTyped
  <2>3. CASE ScopeReset(t)
    <3>1. lastDispatched' \in SlotDates /\ processing' \in SlotDates
      BY <2>3, SMT DEF ScopeReset, ResetSyncDates, SlotDates, DatesOrNone
    <3>2. ThreadsTyped'
      BY <2>3, <2>a, ThreadMove
         DEF ScopeReset, Goto, Labels, Claimed
    <3> QED
      BY <2>3, <3>1, <3>2 DEF ScopeReset, GlobalsTyped
  <2>4. CASE ReadToday(t)
    <3>1. ThreadsTyped'
      BY <2>4, <2>a, LocalUpdates, LocalFields, ThreadStep, <1>b
         DEF ReadToday, Goto, Labels, Claimed
    <3> QED
      BY <2>4, <3>1 DEF ReadToday, GlobalsTyped
  <2>5. CASE ConsumerPeek(t)
    <3>1. consumer' \in [Pollers -> ConsumerType]
      BY <2>5, SMT DEF ConsumerPeek, GlobalsTyped, ConsumerType
    <3>2. ThreadsTyped'
      BY <2>5, <2>a, LocalUpdates, LocalFields, ThreadStep
         DEF ConsumerPeek, Goto, Labels, Claimed
    <3> QED
      BY <2>5, <3>1, <3>2 DEF ConsumerPeek, GlobalsTyped
  <2> QED
    BY <1>6, <2>1, <2>2, <2>3, <2>4, <2>5
       DEF SaveEnter
<1>7. ASSUME NEW t \in Threads, Publish(t) PROVE GlobalsTyped' /\ ThreadsTyped'
  <2>a. t \in Threads /\ local[t] \in LocalType
    BY <1>a, <1>c
  <2>b. 0 \in DatesOrNone
    BY SMT DEF DatesOrNone
  <2>1. CASE ReadPath(t)
    <3>1. ThreadsTyped'
      BY <2>1, <2>a, LocalUpdates, LocalFields, ThreadStep, <1>d
         DEF ReadPath, Goto, Labels, Claimed
    <3> QED
      BY <2>1, <3>1 DEF ReadPath, GlobalsTyped
  <2>2. CASE Refresh(t)
    <3>1. RefreshedBoundary(t) \in BoundaryType
      BY <2>2, <2>a, <1>b, LocalFields, SMT DEF RefreshedBoundary, BoundaryType, GlobalsTyped
    <3>2. ThreadsTyped'
      BY <2>2, <2>a, ThreadMove
         DEF Refresh, Goto, Labels, Claimed
    <3> QED
      BY <2>2, <3>1, <3>2 DEF Refresh, GlobalsTyped
  <2>3. CASE ZeroLast(t)
    <3>1. 0 \in DatesOrNone
      BY <2>3, SMT DEF DatesOrNone
    <3>2. ThreadsTyped'
      BY <2>3, <2>a, ThreadMove
         DEF ZeroLast, Goto, Labels, Claimed
    <3> QED
      BY <2>3, <3>1, <3>2 DEF ZeroLast, GlobalsTyped
  <2>4. CASE RefreshReset(t)
    <3>1. lastDispatched' \in SlotDates /\ processing' \in SlotDates
      BY <2>4, SMT DEF RefreshReset, ResetSyncDates, SlotDates, DatesOrNone
    <3>2. ThreadsTyped'
      BY <2>4, <2>a, ThreadMove
         DEF RefreshReset, Goto, Labels, Claimed
    <3> QED
      BY <2>4, <3>1, <3>2 DEF RefreshReset, GlobalsTyped
  <2>5. CASE Decide(t)
    <3>1. lastPublished \in DatesOrNone
      BY <2>5, SMT DEF GlobalsTyped
    <3>2. ThreadsTyped'
      BY <2>5, <2>a, LocalUpdates, LocalFields, ThreadStep, <3>1
         DEF Decide, Goto, Labels, Claimed, Rejected
    <3> QED
      BY <2>5, <3>1, <3>2 DEF Decide, GlobalsTyped
  <2>6. CASE CompareExchange(t)
    <3>1. local[t].date \in DatesOrNone
      BY <2>6, <2>a, LocalFields
    <3>2. ThreadsTyped'
      BY <2>6, <2>a, ThreadMove
         DEF CompareExchange, Goto, Labels, Claimed
    <3> QED
      BY <2>6, <3>1, <3>2 DEF CompareExchange, GlobalsTyped
  <2>7. CASE Reserve(t)
    <3>1. writeCursor \in Nat
      BY <2>7, SMT DEF GlobalsTyped
    <3>2. log' \in Seq(DatesOrNone) /\ writeCursor' \in Nat
      BY <2>7, <2>a, LocalFields, SMT DEF Reserve, GlobalsTyped
    <3>3. ThreadsTyped'
      BY <2>7, <2>a, LocalUpdates, LocalFields, ThreadStep, <3>1
         DEF Reserve, Goto, Labels, Claimed
    <3> QED
      BY <2>7, <3>1, <3>2, <3>3 DEF Reserve, GlobalsTyped
  <2>8. CASE RecordAccept(t)
    <3>1. RefreshedBoundary(t) \in BoundaryType
      BY <2>8, <2>a, <1>b, LocalFields, SMT DEF RefreshedBoundary, BoundaryType, GlobalsTyped
    <3>2. boundary'.epoch \in Nat
      BY <2>8, <3>1, SMT DEF RecordAccept, BoundaryType
    <3>3. ThreadsTyped'
      BY <2>8, <2>a, LocalUpdates, LocalFields, ThreadStep, <3>2
         DEF RecordAccept, Goto, Labels, Claimed
    <3> QED
      BY <2>8, <3>1, <3>2, <3>3 DEF RecordAccept, GlobalsTyped
  <2>9. CASE WriteSlot(t)
    <3>1. [date |-> local[t].date, epoch |-> local[t].epoch] \in EventType
      BY <2>9, <2>a, LocalFields DEF EventType
    <3>2. ring' \in RingType
      BY <2>9, <3>1, FunctionUpdate DEF WriteSlot, GlobalsTyped, RingType
    <3>3. ThreadsTyped'
      BY <2>9, <2>a, ThreadMove
         DEF WriteSlot, Goto, Labels, Claimed
    <3> QED
      BY <2>9, <3>1, <3>2, <3>3 DEF WriteSlot, GlobalsTyped
  <2>10. CASE Bump(t)
    <3>1. published' \in Nat
      BY <2>10, SMT DEF Bump, GlobalsTyped
    <3>2. ThreadsTyped'
      BY <2>10, <2>a, ThreadMove
         DEF Bump, Goto, Labels, Claimed
    <3> QED
      BY <2>10, <3>1, <3>2 DEF Bump, GlobalsTyped
  <2>11. CASE CompareLatest(t)
    <3>1. ThreadsTyped'
      <4>1. CASE lastPublished = local[t].date
        BY <2>11, <2>a, <4>1, ThreadMove
           DEF CompareLatest, Goto, Labels, Claimed, MySlot
      <4>2. CASE lastPublished # local[t].date
        BY <2>11, <2>a, <4>2, LocalFields, ThreadStep
           DEF CompareLatest, Goto, Labels, Claimed, MySlot
      <4> QED
        BY <2>11, <4>1, <4>2 DEF CompareLatest
    <3> QED
      BY <2>11, <3>1 DEF CompareLatest, GlobalsTyped
  <2> QED
    BY <1>7, <2>1, <2>2, <2>3, <2>4, <2>5, <2>6, <2>7, <2>8, <2>9, <2>10, <2>11
       DEF Publish
<1>8. ASSUME NEW t \in Threads, Dispatch(t) PROVE GlobalsTyped' /\ ThreadsTyped'
  <2>a. t \in Threads /\ local[t] \in LocalType
    BY <1>a, <1>c
  <2>b. 0 \in DatesOrNone
    BY SMT DEF DatesOrNone
  <2>1. CASE Check(t)
    <3>1. local[t].slot \in Slots /\ local[t].slot + 1 \in 1 .. SlotCount + 1
      BY <2>1, SMT DEF Check, MySlot, Slots
    <3>2. ThreadsTyped'
      <4>1. CASE lastDispatched[MySlot(t)] = local[t].date
        BY <2>1, <2>a, <4>1, <3>1, LocalUpdates, ThreadStep
           DEF Check, Goto, Labels, Claimed, MySlot
      <4>2. CASE lastDispatched[MySlot(t)] # local[t].date
        BY <2>1, <2>a, <4>2, <3>1, ThreadMove
           DEF Check, Goto, Labels, Claimed, MySlot
      <4> QED
        BY <2>1, <4>1, <4>2 DEF Check
    <3> QED
      BY <2>1, <3>1, <3>2 DEF Check, GlobalsTyped
  <2>2. CASE Claim(t)
    <3>1. local[t].slot \in Slots
      BY <2>2, <2>a, LocalFields, SMT DEF Claim, Goto, ThreadsTyped, SlotChosen, Claimed
    <3>2. local[t].slot + 1 \in 1 .. SlotCount + 1
      BY <2>2, <3>1, SMT DEF Slots
    <3>3. processing' \in SlotDates
      BY <2>2, <2>a, LocalFields, FunctionUpdate DEF Claim, GlobalsTyped, SlotDates
    <3>4. [local[t] EXCEPT !.slot = local[t].slot + 1, !.complete = FALSE] \in LocalType
      BY <2>2, <2>a, <3>2, LocalUpdates
    <3>5. ThreadsTyped'
      <4>1. CASE processing[MySlot(t)] = 0
        BY <2>2, <2>a, <4>1, <3>1, ThreadMove
           DEF Claim, Goto, Labels, Claimed, MySlot
      <4>2. CASE processing[MySlot(t)] # 0
        BY <2>2, <2>a, <4>2, <3>4, ThreadStep
           DEF Claim, Goto, Labels, Claimed, MySlot
      <4> QED
        BY <2>2, <4>1, <4>2 DEF Claim
    <3> QED
      BY <2>2, <3>1, <3>2, <3>3, <3>4, <3>5 DEF Claim, GlobalsTyped
  <2>3. CASE Recheck(t)
    <3>1. local[t].slot \in Slots
      BY <2>3, <2>a, LocalFields, SMT DEF Recheck, Goto, ThreadsTyped, SlotChosen, Claimed
    <3>2. /\ [local[t] EXCEPT !.load = game.loads] \in LocalType
         /\ [local[t] EXCEPT !.load = game.loads].slot \in Slots
      BY <2>3, <1>b, <2>a, <3>1, LocalUpdates
    <3>3. ThreadsTyped'
      <4>1. CASE lastDispatched[MySlot(t)] = local[t].date
        BY <2>3, <2>a, <4>1, <3>1, LocalUpdates, ThreadStep
           DEF Recheck, Goto, Labels, Claimed, MySlot
      <4>2. CASE lastDispatched[MySlot(t)] # local[t].date
        BY <2>3, <2>a, <4>2, <3>2, ThreadStep
           DEF Recheck, Goto, Labels, Claimed, MySlot
      <4> QED
        BY <2>3, <4>1, <4>2 DEF Recheck
    <3> QED
      BY <2>3, <3>1, <3>2, <3>3 DEF Recheck, GlobalsTyped
  <2>4. CASE CallbackDone(t)
    <3>1. local[t].slot \in Slots
      BY <2>4, <2>a, LocalFields, SMT DEF CallbackDone, Goto, ThreadsTyped, SlotChosen, Claimed
    <3>2. <<MySlot(t), local[t].load, local[t].date>> \in Work
      BY <2>4, <2>a, <3>1, LocalFields DEF MySlot, Work
    <3>3. ThreadsTyped'
      BY <2>4, <2>a, LocalUpdates, LocalFields, ThreadStep, <3>1
         DEF CallbackDone, Goto, Labels, Claimed
    <3> QED
      BY <2>4, <3>1, <3>2, <3>3 DEF CallbackDone, GlobalsTyped
  <2>5. CASE CallbackDefers(t)
    <3>1. local[t].slot \in Slots
      BY <2>5, <2>a, LocalFields, SMT DEF CallbackDefers, Goto, ThreadsTyped, SlotChosen, Claimed
    <3>2. game' \in GameType
      BY <2>5, <1>b, SMT DEF CallbackDefers, GlobalsTyped, GameType
    <3>3. ThreadsTyped'
      BY <2>5, <2>a, LocalUpdates, LocalFields, ThreadStep, <3>1
         DEF CallbackDefers, Goto, Labels, Claimed
    <3> QED
      BY <2>5, <3>1, <3>2, <3>3 DEF CallbackDefers, GlobalsTyped
  <2>6. CASE Finish(t)
    <3>1. local[t].slot \in Slots
      BY <2>6, <2>a, LocalFields, SMT DEF Finish, Goto, ThreadsTyped, SlotChosen, Claimed
    <3>2. lastDispatched' \in SlotDates
      BY <2>6, <2>a, LocalFields, SMT DEF Finish, GlobalsTyped, SlotDates
    <3>3. ThreadsTyped'
      <4>1. CASE local[t].ok
        BY <2>6, <2>a, <4>1, <3>1, ThreadMove
           DEF Finish, Goto, Labels, Claimed, MySlot
      <4>2. CASE ~local[t].ok
        BY <2>6, <2>a, <4>2, <3>1, LocalUpdates, ThreadStep
           DEF Finish, Goto, Labels, Claimed, MySlot
      <4> QED
        BY <2>6, <4>1, <4>2 DEF Finish
    <3> QED
      BY <2>6, <3>1, <3>2, <3>3 DEF Finish, GlobalsTyped
  <2>7. CASE Release(t)
    <3>1. local[t].slot \in Slots
      BY <2>7, <2>a, LocalFields, SMT DEF Release, Goto, ThreadsTyped, SlotChosen, Claimed
    <3>2. local[t].slot + 1 \in 1 .. SlotCount + 1
      BY <2>7, <3>1, SMT DEF Slots
    <3>3. [local[t] EXCEPT !.slot = local[t].slot + 1, !.ok = FALSE] \in LocalType
      BY <2>7, <2>a, <3>2, LocalUpdates
    <3>4. processing' \in SlotDates
      BY <2>7, <2>b, FunctionUpdate DEF Release, GlobalsTyped, SlotDates
    <3>5. ThreadsTyped'
      BY <2>7, <2>a, LocalUpdates, LocalFields, ThreadStep, <3>3
         DEF Release, Goto, Labels, Claimed, MySlot
    <3> QED
      BY <2>7, <3>1, <3>2, <3>3, <3>4, <3>5 DEF Release, GlobalsTyped
  <2>8. CASE DispatchReturns(t)
    <3>1. ThreadsTyped'
      BY <2>8, <2>a, LocalUpdates, LocalFields, ThreadStep
         DEF DispatchReturns, Goto, Labels, Claimed
    <3> QED
      BY <2>8, <3>1 DEF DispatchReturns, GlobalsTyped
  <2> QED
    BY <1>8, <2>1, <2>2, <2>3, <2>4, <2>5, <2>6, <2>7, <2>8
       DEF Dispatch
<1> QED
  BY <1>1, <1>2, <1>3, <1>4, <1>5, <1>6, <1>7, <1>8 DEF Next, Game, FinishLoad

\* The variables of the boundary keep their types in every behaviour.
THEOREM TypeCorrect == Spec => []TypeOK
<1>1. TypeInv => TypeOK
  BY DEF TypeInv
<1> QED
  BY <1>1, TypeInit, TypeStep, PTL DEF Spec

-----------------------------------------------------------------------------
(***************************************************************************)
(* Reservations: publish_core reserves an event with one counter and       *)
(* counts it as published with another.                                    *)
(***************************************************************************)
Counters == <<writeCursor, published, log>>

\* A step that neither reserves nor counts an event.
KeepsReservations ==
    /\ UNCHANGED Counters
    /\ Publishing' = Publishing
    /\ \A u \in Publishing : /\ local'[u].event = local[u].event
                             /\ local'[u].date = local[u].date

LEMMA ReservationsKept ==
  ReservationsAccounted /\ KeepsReservations => ReservationsAccounted'
  BY DEF ReservationsAccounted, KeepsReservations, Counters

\* A step of one thread between two labels outside the publishing part.
LEMMA StepOutside ==
  ASSUME TypeInv, NEW t \in Threads, NEW from, NEW to, Goto(t, from, to),
         from \notin {"acceptPath", "accept", "write", "bump"},
         to \notin {"acceptPath", "accept", "write", "bump"},
         \A u \in Threads \ {t} : local'[u] = local[u],
         UNCHANGED Counters
  PROVE  KeepsReservations
  BY SMT DEF KeepsReservations, Publishing, Goto, TypeInv, TypeOK

\* A step of one thread between two labels inside it.
LEMMA StepInside ==
  ASSUME TypeInv, NEW t \in Threads, NEW from, NEW to, Goto(t, from, to),
         {from, to} \subseteq {"acceptPath", "accept", "write", "bump"},
         \A u \in Threads \ {t} : local'[u] = local[u],
         local'[t].event = local[t].event, local'[t].date = local[t].date,
         UNCHANGED Counters
  PROVE  KeepsReservations
  BY SMT DEF KeepsReservations, Publishing, Goto, TypeInv, TypeOK

\* There are finitely many publishers.
LEMMA FinitelyManyPublish == IsFiniteSet(Publishing)
<1>1. IsFiniteSet(Threads)
  BY DateTickAssumption, FS_AddElement DEF Threads
<1> QED
  BY <1>1, FS_Subset DEF Publishing

\* A reservation takes the next number, and so a number of its own.
LEMMA ReserveStep ==
  ASSUME TypeInv, ReservationsAccounted, NEW t \in Threads, Reserve(t)
  PROVE  ReservationsAccounted'
<1>0. /\ local \in [Threads -> LocalType] /\ pc \in [Threads -> Labels]
      /\ writeCursor \in Nat /\ published \in Nat /\ log \in Seq(DatesOrNone)
      /\ local[t] \in LocalType /\ local[t].date \in DatesOrNone
  BY LocalFields DEF TypeInv, TypeOK
<1>1. Publishing' = Publishing \cup {t} /\ t \notin Publishing
  BY <1>0, SMT DEF Reserve, Goto, Publishing
<1>2. Cardinality(Publishing') = Cardinality(Publishing) + 1
  BY <1>1, FinitelyManyPublish, FS_AddElement
<1>3. /\ writeCursor' = writeCursor + 1 /\ published' = published
      /\ Len(log') = Len(log) + 1 /\ log'[Len(log) + 1] = local[t].date
      /\ \A i \in 1 .. Len(log) : log'[i] = log[i]
  BY <1>0, SMT DEF Reserve
<1>4. /\ local'[t].event = writeCursor /\ local'[t].date = local[t].date
      /\ \A u \in Threads \ {t} : local'[u] = local[u]
  <2>1. local'[t] = [local[t] EXCEPT !.event = writeCursor]
    BY <1>0 DEF Reserve
  <2> QED
    BY <1>0, <2>1, SMT DEF Reserve, LocalType
<1>5. \A u \in Publishing : local[u].event \in Nat /\ u \in Threads
  BY <1>0, LocalFields DEF Publishing
<1>6. Cardinality(Publishing) \in Nat
  BY FinitelyManyPublish, FS_CardinalityType
<1>7. writeCursor' = Len(log')
  BY <1>0, <1>3 DEF ReservationsAccounted
<1>8. writeCursor' - published' = Cardinality(Publishing')
  BY <1>0, <1>2, <1>3, <1>6, SMT DEF ReservationsAccounted
<1>9. ASSUME NEW u \in Publishing'
      PROVE  /\ local'[u].event < writeCursor'
             /\ log'[local'[u].event + 1] = local'[u].date
             /\ \A v \in Publishing' \ {u} : local'[u].event # local'[v].event
  <2>1. CASE u = t
    BY <1>0, <1>1, <1>3, <1>4, <1>5, <2>1, SMT DEF ReservationsAccounted
  <2>2. CASE u \in Publishing
    <3>1. local[u].event < writeCursor /\ log[local[u].event + 1] = local[u].date
      BY <2>2 DEF ReservationsAccounted
    <3>2. local'[u] = local[u]
      BY <1>1, <1>4, <1>5, <2>2
    <3>3. log'[local[u].event + 1] = log[local[u].event + 1]
      BY <1>0, <1>3, <1>5, <2>2, <3>1, SMT DEF ReservationsAccounted
    <3>4. ASSUME NEW v \in Publishing' \ {u} PROVE local'[u].event # local'[v].event
      <4>1. CASE v = t
        BY <1>0, <1>4, <1>5, <2>2, <3>1, <3>2, <4>1, SMT
      <4>2. CASE v \in Publishing
        BY <1>1, <1>4, <1>5, <2>2, <3>2, <4>2 DEF ReservationsAccounted
      <4> QED
        BY <1>1, <4>1, <4>2
    <3> QED
      BY <1>0, <1>3, <1>5, <2>2, <3>1, <3>2, <3>3, <3>4, SMT
  <2> QED
    BY <1>1, <2>1, <2>2
<1> QED
  BY <1>7, <1>8, <1>9 DEF ReservationsAccounted

\* A count ends one reservation.
LEMMA BumpStep ==
  ASSUME TypeInv, ReservationsAccounted, NEW t \in Threads, Bump(t)
  PROVE  ReservationsAccounted'
<1>0. /\ pc \in [Threads -> Labels] /\ writeCursor \in Nat /\ published \in Nat
  BY DEF TypeInv, TypeOK
<1>1. Publishing' = Publishing \ {t} /\ t \in Publishing
  BY <1>0, SMT DEF Bump, Goto, Publishing
<1>2. Cardinality(Publishing') = Cardinality(Publishing) - 1
  BY <1>1, FinitelyManyPublish, FS_RemoveElement
<1>3. Cardinality(Publishing) \in Nat
  BY FinitelyManyPublish, FS_CardinalityType
<1>4. writeCursor' - published' = Cardinality(Publishing')
  BY <1>0, <1>2, <1>3, SMT DEF Bump, ReservationsAccounted
<1> QED
  BY <1>1, <1>4 DEF Bump, ReservationsAccounted

\* Every step keeps the reservations accounted for.
LEMMA ReservationsStep ==
  TypeInv /\ ReservationsAccounted /\ [Next]_vars => ReservationsAccounted'
<1> SUFFICES ASSUME TypeInv, ReservationsAccounted, [Next]_vars
             PROVE  ReservationsAccounted'
  OBVIOUS
<1> USE DEF gameOnly, dispatchOnly, eventVars, scopeVars, slotVars, Counters
<1>a. Sim \in Threads /\ Pollers \subseteq Threads
  BY DEF Threads
<1>b. local \in [Threads -> LocalType] /\ \A t \in Threads : local[t] \in LocalType
  BY DEF TypeInv, TypeOK
<1>1. CASE UNCHANGED vars
  BY <1>1, ReservationsKept DEF vars, KeepsReservations, Publishing
<1>2. CASE FinishLoad \/ \E s \in Saves : LoadSave(s)
  BY <1>2, ReservationsKept
     DEF FinishLoad, LoadSave, LoadDone, KeepsReservations, Publishing
<1>3. CASE AdvanceDay \/ ReportAgain
  <2>1. Goto(Sim, "idle", "readPath")
    BY <1>3 DEF AdvanceDay, ReportAgain
  <2>2. UNCHANGED Counters /\ \A u \in Threads \ {Sim} : local'[u] = local[u]
    BY <1>3, <1>b DEF AdvanceDay, ReportAgain
  <2> QED
    BY <1>a, <2>1, <2>2, StepOutside, ReservationsKept
<1>4. ASSUME NEW t \in Pollers, SaveEnter(t) PROVE ReservationsAccounted'
  <2>a. t \in Threads /\ local[t] \in LocalType
    BY <1>a, <1>b
  <2>1. CASE ConsumerPoll(t)
    BY <2>1, <2>a, <1>b, StepOutside, ReservationsKept DEF ConsumerPoll
  <2>2. CASE EnterScope(t)
    BY <2>2, <2>a, <1>b, StepOutside, ReservationsKept DEF EnterScope
  <2>3. CASE ScopeReset(t)
    BY <2>3, <2>a, <1>b, StepOutside, ReservationsKept DEF ScopeReset
  <2>4. CASE ReadToday(t)
    BY <2>4, <2>a, <1>b, StepOutside, ReservationsKept DEF ReadToday
  <2>5. CASE ConsumerPeek(t)
    BY <2>5, <2>a, <1>b, StepOutside, ReservationsKept DEF ConsumerPeek
  <2> QED
    BY <1>4, <2>1, <2>2, <2>3, <2>4, <2>5
       DEF SaveEnter
<1>5. ASSUME NEW t \in Threads, Publish(t) PROVE ReservationsAccounted'
  <2>a. t \in Threads /\ local[t] \in LocalType
    BY <1>a, <1>b
  <2>1. CASE ReadPath(t)
    <3>1. local'[t] = [local[t] EXCEPT !.path = game.save]
      BY <2>1, <1>b DEF ReadPath
    <3>2. local'[t].event = local[t].event /\ local'[t].date = local[t].date
      BY <2>a, <3>1, SMT DEF LocalType
    <3> QED
      BY <2>1, <2>a, <1>b, <3>2, StepInside, StepOutside, ReservationsKept DEF ReadPath
  <2>2. CASE Refresh(t)
    BY <2>2, <2>a, <1>b, StepOutside, ReservationsKept DEF Refresh
  <2>3. CASE ZeroLast(t)
    BY <2>3, <2>a, <1>b, StepOutside, ReservationsKept DEF ZeroLast
  <2>4. CASE RefreshReset(t)
    BY <2>4, <2>a, <1>b, StepOutside, ReservationsKept DEF RefreshReset
  <2>5. CASE Decide(t)
    BY <2>5, <2>a, <1>b, StepOutside, ReservationsKept DEF Decide, Rejected
  <2>6. CASE CompareExchange(t)
    BY <2>6, <2>a, <1>b, StepOutside, ReservationsKept DEF CompareExchange
  <2>7. CASE Reserve(t)
    BY <2>7, <2>a, ReserveStep
  <2>8. CASE RecordAccept(t)
    <3>1. local'[t] = [local[t] EXCEPT !.epoch = boundary'.epoch]
      BY <2>8, <1>b DEF RecordAccept
    <3>2. local'[t].event = local[t].event /\ local'[t].date = local[t].date
      BY <2>a, <3>1, SMT DEF LocalType
    <3> QED
      BY <2>8, <2>a, <1>b, <3>2, StepInside, StepOutside, ReservationsKept DEF RecordAccept
  <2>9. CASE WriteSlot(t)
    BY <2>9, <2>a, <1>b, StepInside, ReservationsKept DEF WriteSlot
  <2>10. CASE Bump(t)
    BY <2>10, <2>a, BumpStep
  <2>11. CASE CompareLatest(t)
    BY <2>11, <2>a, <1>b, StepOutside, ReservationsKept DEF CompareLatest
  <2> QED
    BY <1>5, <2>1, <2>2, <2>3, <2>4, <2>5, <2>6, <2>7, <2>8, <2>9, <2>10, <2>11
       DEF Publish
<1>6. ASSUME NEW t \in Threads, Dispatch(t) PROVE ReservationsAccounted'
  <2>a. t \in Threads /\ local[t] \in LocalType
    BY <1>a, <1>b
  <2>1. CASE Check(t)
    BY <2>1, <2>a, <1>b, StepOutside, ReservationsKept DEF Check
  <2>2. CASE Claim(t)
    BY <2>2, <2>a, <1>b, StepOutside, ReservationsKept DEF Claim
  <2>3. CASE Recheck(t)
    BY <2>3, <2>a, <1>b, StepOutside, ReservationsKept DEF Recheck
  <2>4. CASE CallbackDone(t)
    BY <2>4, <2>a, <1>b, StepOutside, ReservationsKept DEF CallbackDone
  <2>5. CASE CallbackDefers(t)
    BY <2>5, <2>a, <1>b, StepOutside, ReservationsKept DEF CallbackDefers
  <2>6. CASE Finish(t)
    BY <2>6, <2>a, <1>b, StepOutside, ReservationsKept DEF Finish
  <2>7. CASE Release(t)
    BY <2>7, <2>a, <1>b, StepOutside, ReservationsKept DEF Release
  <2>8. CASE DispatchReturns(t)
    BY <2>8, <2>a, <1>b, StepOutside, ReservationsKept DEF DispatchReturns
  <2> QED
    BY <1>6, <2>1, <2>2, <2>3, <2>4, <2>5, <2>6, <2>7, <2>8
       DEF Dispatch
<1> QED
  BY <1>1, <1>2, <1>3, <1>4, <1>5, <1>6 DEF Next, Game

\* However many publishers race, no event number is reserved twice, and the
\* events reserved but not yet counted are exactly those of the publishers
\* between the two counters.
THEOREM ReservationsCorrect == Spec => []ReservationsAccounted
<1>1. Init => ReservationsAccounted
  <2> SUFFICES ASSUME Init PROVE ReservationsAccounted
    OBVIOUS
  <2>1. Publishing = {}
    BY SMT DEF Init, Publishing
  <2> QED
    BY <2>1, FS_EmptySet, SMT DEF Init, ReservationsAccounted
<1> QED
  BY <1>1, TypeInit, TypeStep, ReservationsStep, PTL DEF Spec

-----------------------------------------------------------------------------
(***************************************************************************)
(* While no save is loaded, processing_date is a lock.                     *)
(*                                                                         *)
(* A reset of the synchronous consumers clears processing_date under a     *)
(* running callback.  As long as the player stays in one save both scopes, *)
(* the boundary's and the save-enter one, agree with the game's save, so   *)
(* no thread ever reaches a reset.                                         *)
(***************************************************************************)
Dated == {"readPath", "refresh", "decide", "cas", "reserve", "acceptPath",
          "accept", "write", "bump", "latest", "check", "claim", "recheck",
          "callback", "finish", "release"}
Running == {"recheck", "callback", "finish", "release"}

SameSave ==
    /\ game.loads = 0
    /\ scopePath = game.save
    /\ boundary.path = game.save
    /\ \A t \in Pollers : pc[t] = "scope" => consumer[t].path = game.save
    /\ \A t \in Threads :
         /\ pc[t] \in {"refresh", "accept"} => local[t].path = game.save
         /\ pc[t] \notin {"scopeReset", "zero", "refreshReset"}
         /\ pc[t] \in Dated => local[t].date # 0

\* A slot whose callback some thread has claimed shows that thread's claim.
SlotLocked ==
    \A t \in Threads : pc[t] \in Running => processing[local[t].slot] # 0

LockInv == TypeInv /\ SameSave /\ SlotLocked /\ CallbackExclusive

\* A thread's step within one save.
LEMMA SameSaveStep ==
  ASSUME TypeInv, SameSave, NEW t \in Threads, NEW from, NEW to,
         Goto(t, from, to), UNCHANGED scopePath, boundary'.path = boundary.path,
         game'.save = game.save, game'.loads = game.loads,
         \A u \in Threads \ {t} : local'[u] = local[u],
         \A u \in Pollers \ {t} : consumer'[u] = consumer[u],
         to = "scope" => consumer'[t].path = game.save,
         to \in {"refresh", "accept"} => local'[t].path = game.save,
         to \notin {"scopeReset", "zero", "refreshReset"},
         to \in Dated => local'[t].date # 0
  PROVE  SameSave'
  BY SMT DEF SameSave, Goto, TypeInv, TypeOK, Threads

\* A thread's step between two labels outside the claimed part.
LEMMA OutsideSlotStep ==
  ASSUME TypeInv, SlotLocked, CallbackExclusive, NEW t \in Threads,
         NEW from, NEW to, Goto(t, from, to), from \notin Running, to \notin Running,
         \A u \in Threads \ {t} : local'[u] = local[u], UNCHANGED processing
  PROVE  SlotLocked' /\ CallbackExclusive'
<1>1. \A u \in Threads : pc'[u] \in Running =>
         u # t /\ pc[u] \in Running /\ local'[u] = local[u]
  BY SMT DEF Goto, TypeInv, TypeOK, Running
<1> QED
  BY <1>1 DEF SlotLocked, CallbackExclusive, Claimants, Running, MySlot

\* A thread's step between two labels inside it.
LEMMA InsideSlotStep ==
  ASSUME TypeInv, SlotLocked, CallbackExclusive, NEW t \in Threads,
         NEW from, NEW to, Goto(t, from, to), from \in Running, to \in Running,
         \A u \in Threads \ {t} : local'[u] = local[u],
         local'[t].slot = local[t].slot, UNCHANGED processing
  PROVE  SlotLocked' /\ CallbackExclusive'
<1>1. \A u \in Threads : pc'[u] \in Running =>
         pc[u] \in Running /\ local'[u].slot = local[u].slot
  BY SMT DEF Goto, TypeInv, TypeOK, Running
<1> QED
  BY <1>1 DEF SlotLocked, CallbackExclusive, Claimants, Running, MySlot

\* The compare-exchange finds the slot free, so no thread is inside.
LEMMA ClaimLocks ==
  ASSUME LockInv, NEW t \in Threads, Claim(t)
  PROVE  SlotLocked' /\ CallbackExclusive'
<1>0. /\ pc \in [Threads -> Labels] /\ local \in [Threads -> LocalType]
      /\ processing \in [Slots -> DatesOrNone]
      /\ pc[t] = "claim" /\ local[t].slot \in Slots /\ local[t].date # 0
      /\ \A u \in Threads : pc[u] \in Running => local[u].slot \in Slots
  BY DEF LockInv, TypeInv, TypeOK, SlotDates, SlotChosen, Claimed, SameSave, Dated,
     Claim, Goto, Running
<1>1. CASE processing[local[t].slot] # 0
  BY <1>0, <1>1, OutsideSlotStep DEF Claim, LockInv, Running, MySlot
<1>2. CASE processing[local[t].slot] = 0
  <2>1. /\ pc' = [pc EXCEPT ![t] = "recheck"] /\ UNCHANGED local
        /\ processing' = [processing EXCEPT ![local[t].slot] = local[t].date]
    BY <1>2 DEF Claim, Goto, MySlot
  <2>2. \A u \in Threads : pc[u] \in Running => local[u].slot # local[t].slot
    BY <1>2 DEF LockInv, SlotLocked
  <2>3. \A u \in Threads : pc'[u] \in Running => u = t \/ pc[u] \in Running
    BY <1>0, <2>1
  <2>4. processing'[local[t].slot] # 0
    BY <1>0, <2>1
  <2>5. \A u \in Threads \ {t} : pc[u] \in Running =>
           processing'[local[u].slot] = processing[local[u].slot]
    BY <1>0, <2>1, <2>2
  <2>6. SlotLocked'
    BY <2>1, <2>3, <2>4, <2>5 DEF LockInv, SlotLocked
  <2>7. CallbackExclusive'
    BY <2>1, <2>2, <2>3 DEF LockInv, CallbackExclusive, Claimants, Running, MySlot
  <2> QED
    BY <2>6, <2>7
<1> QED
  BY <1>1, <1>2

\* The owner frees its own slot and no other.
LEMMA ReleaseUnlocks ==
  ASSUME LockInv, NEW t \in Threads, Release(t)
  PROVE  SlotLocked' /\ CallbackExclusive'
<1>0. /\ pc \in [Threads -> Labels] /\ local \in [Threads -> LocalType]
      /\ processing \in [Slots -> DatesOrNone]
      /\ pc[t] = "release" /\ local[t].slot \in Slots
      /\ \A u \in Threads : pc[u] \in Running => local[u].slot \in Slots
  BY DEF LockInv, TypeInv, TypeOK, SlotDates, SlotChosen, Claimed, Release, Goto,
     Running
<1>1. \A u \in Threads : pc'[u] \in Running =>
         u # t /\ pc[u] \in Running /\ local'[u] = local[u]
  BY <1>0 DEF Release, Goto, Running
<1>2. \A u \in Threads \ {t} : pc[u] \in Running => local[u].slot # local[t].slot
  BY <1>0 DEF LockInv, CallbackExclusive, Claimants, Running, MySlot
<1>3. \A u \in Threads \ {t} : pc[u] \in Running =>
         processing'[local[u].slot] = processing[local[u].slot]
  BY <1>0, <1>2 DEF Release, MySlot
<1> QED
  BY <1>1, <1>3 DEF LockInv, SlotLocked, CallbackExclusive, Claimants, Running, MySlot

\* In one save every step keeps the lock.
LEMMA LockStep == LockInv /\ [Next]_vars /\ game'.loads = 0 => LockInv'
<1> SUFFICES ASSUME LockInv, [Next]_vars, game'.loads = 0 PROVE LockInv'
  OBVIOUS
<1> USE DEF gameOnly, dispatchOnly, eventVars, scopeVars, slotVars
<1>a. Sim \in Threads /\ Sim \notin Pollers /\ Pollers \subseteq Threads
  BY DateTickAssumption DEF Threads
<1>b. /\ TypeInv /\ SameSave /\ SlotLocked /\ CallbackExclusive
      /\ local \in [Threads -> LocalType]
      /\ \A t \in Threads : local[t] \in LocalType
  BY DEF LockInv, TypeInv, TypeOK
<1>c. TypeInv'
  BY <1>b, TypeStep
<1>1. CASE UNCHANGED vars
  BY <1>b, <1>c, <1>1 DEF vars, LockInv, SameSave, SlotLocked, CallbackExclusive,
     Claimants, MySlot
<1>2. ASSUME NEW s \in Saves, LoadSave(s) PROVE LockInv'
  <2>1. game'.loads = 1
    BY <1>b, <1>2 DEF SameSave, LoadSave
  <2> QED
    BY <2>1
<1>3. CASE FinishLoad
  <2>1. game'.save = game.save /\ game'.loads = game.loads
    BY <1>b, <1>3, SMT DEF FinishLoad, LoadDone, TypeInv, TypeOK, GameType
  <2> QED
    BY <1>b, <1>c, <1>3, <2>1 DEF FinishLoad, LoadDone, LockInv, SameSave, SlotLocked,
       CallbackExclusive, Claimants, MySlot
<1>4. CASE AdvanceDay \/ ReportAgain
  <2>1. /\ Goto(Sim, "idle", "readPath")
        /\ UNCHANGED <<scopePath, boundary, processing, consumer>>
        /\ \A u \in Threads \ {Sim} : local'[u] = local[u]
    BY <1>4, <1>b DEF AdvanceDay, ReportAgain
  <2>2. game'.save = game.save /\ game'.loads = game.loads
    BY <1>b, <1>4, SMT DEF AdvanceDay, ReportAgain, TypeInv, TypeOK, GameType
  <2>3. local'[Sim].date # 0
    <3>1. PICK d \in DatesOrNone : d # 0 /\ local' = [local EXCEPT ![Sim].date = d]
      <4>1. game.date \in DatesOrNone /\ 0 \in DatesOrNone
        BY <1>b, DateTickAssumption, SMT DEF TypeInv, TypeOK, GameType, DatesOrNone
      <4>2. CASE AdvanceDay
        <5>1. game.date + 1 \in DatesOrNone /\ game.date + 1 # 0
          BY <4>1, <4>2, DateTickAssumption, SMT DEF AdvanceDay, DatesOrNone
        <5> QED
          BY <4>2, <5>1 DEF AdvanceDay
      <4> QED
        BY <1>4, <4>1, <4>2 DEF ReportAgain
    <3>2. local'[Sim] = [local[Sim] EXCEPT !.date = d]
      BY <1>a, <1>b, <3>1
    <3> QED
      BY <1>a, <1>b, <3>1, <3>2, SMT DEF LocalType
  <2>4. SameSave'
    BY <1>a, <1>b, <2>1, <2>2, <2>3, SameSaveStep
  <2>5. SlotLocked' /\ CallbackExclusive'
    BY <1>a, <1>b, <2>1, OutsideSlotStep DEF Running
  <2> QED
    BY <1>c, <2>4, <2>5 DEF LockInv
<1>5. ASSUME NEW t \in Pollers, SaveEnter(t) PROVE LockInv'
  <2>a. t \in Threads /\ local[t] \in LocalType
    BY <1>a, <1>b
  <2>b. /\ pc[t] \in {"refresh", "accept"} => local[t].path = game.save
        /\ pc[t] \notin {"scopeReset", "zero", "refreshReset"}
        /\ pc[t] \in Dated => local[t].date # 0
    BY <1>b, <2>a DEF SameSave
  <2>1. CASE ConsumerPoll(t)
    <3>1. consumer'[t].path = game.save /\ \A u \in Pollers \ {t} : consumer'[u] = consumer[u]
      BY <2>1, <2>a, <1>b, SMT DEF ConsumerPoll, TypeInv, TypeOK
    <3>2. SameSave'
      BY <2>1, <2>a, <2>b, <1>b, <3>1, SameSaveStep DEF ConsumerPoll, Goto, SameSave, Dated
    <3>3. SlotLocked' /\ CallbackExclusive'
      BY <2>1, <2>a, <2>b, <1>b, <3>1, OutsideSlotStep DEF ConsumerPoll, Running
    <3> QED
      BY <1>c, <3>2, <3>3 DEF LockInv
  <2>2. CASE EnterScope(t)
    <3>1. scopePath = consumer[t].path
      BY <2>2, <2>a, <1>b, SMT DEF SameSave, EnterScope, Goto
    <3>2. SameSave'
      BY <2>2, <2>a, <2>b, <1>b, <3>1, SameSaveStep DEF EnterScope, Goto, SameSave, Dated
    <3>3. SlotLocked' /\ CallbackExclusive'
      BY <2>2, <2>a, <2>b, <1>b, <3>1, OutsideSlotStep DEF EnterScope, Running
    <3> QED
      BY <1>c, <3>2, <3>3 DEF LockInv
  <2>3. CASE ScopeReset(t)
    BY <2>3, <2>b DEF ScopeReset, Goto
  <2>4. CASE ReadToday(t)
    <3>1. local'[t] = [local[t] EXCEPT !.date = game.date]
      BY <2>4, <2>a, <1>b, <1>b DEF ReadToday, MySlot
    <3>2. local'[t].date = game.date
      BY <2>4, <2>a, <1>b, <3>1, SMT DEF LocalType
    <3>3. SameSave'
      BY <2>4, <2>a, <2>b, <1>b, <3>1, <3>2, SameSaveStep DEF ReadToday, Goto, SameSave, Dated
    <3>4. SlotLocked' /\ CallbackExclusive'
      BY <2>4, <2>a, <2>b, <1>b, <3>1, <3>2, OutsideSlotStep DEF ReadToday, Running
    <3> QED
      BY <1>c, <3>3, <3>4 DEF LockInv
  <2>5. CASE ConsumerPeek(t)
    <3>1. \A u \in Pollers \ {t} : consumer'[u] = consumer[u]
      BY <2>5, <2>a, <1>b, SMT DEF ConsumerPeek, TypeInv, TypeOK
    <3>2. SameSave'
      BY <2>5, <2>a, <2>b, <1>b, <3>1, SameSaveStep DEF ConsumerPeek, Goto, SameSave, Dated
    <3>3. SlotLocked' /\ CallbackExclusive'
      BY <2>5, <2>a, <2>b, <1>b, <3>1, OutsideSlotStep DEF ConsumerPeek, Running
    <3> QED
      BY <1>c, <3>2, <3>3 DEF LockInv
  <2> QED
    BY <1>5, <2>1, <2>2, <2>3, <2>4, <2>5
       DEF SaveEnter
<1>6. ASSUME NEW t \in Threads, Publish(t) PROVE LockInv'
  <2>a. t \in Threads /\ local[t] \in LocalType
    BY <1>a, <1>b
  <2>b. /\ pc[t] \in {"refresh", "accept"} => local[t].path = game.save
        /\ pc[t] \notin {"scopeReset", "zero", "refreshReset"}
        /\ pc[t] \in Dated => local[t].date # 0
    BY <1>b, <2>a DEF SameSave
  <2>1. CASE ReadPath(t)
    <3>1. local'[t] = [local[t] EXCEPT !.path = game.save]
      BY <2>1, <2>a, <1>b, <1>b DEF ReadPath, MySlot
    <3>2. local'[t].path = game.save /\ local'[t].date = local[t].date
      BY <2>1, <2>a, <1>b, <3>1, SMT DEF LocalType
    <3>5. PICK to \in {"refresh", "accept"} : pc' = [pc EXCEPT ![t] = to]
      BY <2>1 DEF ReadPath, Goto
    <3>6. UNCHANGED <<scopePath, boundary, game, consumer>> /\ \A u \in Threads \ {t} : local'[u] = local[u]
      BY <2>1, <1>b DEF ReadPath
    <3>7. local[t].date # 0
      BY <2>1, <2>b DEF ReadPath, Goto, Dated
    <3>3. SameSave'
      BY <2>a, <2>b, <1>b, <3>2, <3>5, <3>6, <3>7, SameSaveStep DEF Goto, Dated
    <3>4. SlotLocked' /\ CallbackExclusive'
      BY <2>1, <2>a, <2>b, <1>b, <3>1, <3>2, OutsideSlotStep DEF ReadPath, Running
    <3> QED
      BY <1>c, <3>3, <3>4 DEF LockInv
  <2>2. CASE Refresh(t)
    <3>1. ScopeChanged(t) = FALSE /\ RefreshedBoundary(t) = boundary
      BY <2>2, <2>a, <1>b, <2>b DEF SameSave, Refresh, Goto, ScopeChanged, RefreshedBoundary
    <3>2. SameSave'
      BY <2>2, <2>a, <2>b, <1>b, <3>1, SameSaveStep DEF Refresh, Goto, SameSave, Dated
    <3>3. SlotLocked' /\ CallbackExclusive'
      BY <2>2, <2>a, <2>b, <1>b, <3>1, OutsideSlotStep DEF Refresh, Running
    <3> QED
      BY <1>c, <3>2, <3>3 DEF LockInv
  <2>3. CASE ZeroLast(t)
    BY <2>3, <2>b DEF ZeroLast, Goto
  <2>4. CASE RefreshReset(t)
    BY <2>4, <2>b DEF RefreshReset, Goto
  <2>5. CASE Decide(t)
    <3>1. local'[t] = [local[t] EXCEPT !.seen = lastPublished]
      BY <2>5, <2>a, <1>b, <1>b DEF Decide, MySlot
    <3>2. local'[t].date = local[t].date
      BY <2>5, <2>a, <1>b, <3>1, SMT DEF LocalType
    <3>3. PICK to \in {"reserve", "latest", "peek", "cas"} : Goto(t, "decide", to)
      BY <2>5 DEF Decide, Rejected
    <3>4. UNCHANGED <<scopePath, boundary, game, consumer>> /\ \A u \in Threads \ {t} : local'[u] = local[u]
      BY <2>5, <1>b DEF Decide
    <3>5. local[t].date # 0
      BY <2>5, <2>b DEF Decide, Goto, Dated
    <3>6. SameSave'
      BY <2>a, <2>b, <1>b, <3>1, <3>2, <3>3, <3>4, <3>5, SameSaveStep DEF Dated
    <3>7. SlotLocked' /\ CallbackExclusive'
      BY <2>5, <2>a, <2>b, <1>b, <3>1, <3>2, <3>3, <3>4, <3>5, OutsideSlotStep DEF Decide, Running, Rejected
    <3> QED
      BY <1>c, <3>6, <3>7 DEF LockInv
  <2>6. CASE CompareExchange(t)
    <3>1. SameSave'
      BY <2>6, <2>a, <2>b, <1>b, SameSaveStep DEF CompareExchange, Goto, SameSave, Dated
    <3>2. SlotLocked' /\ CallbackExclusive'
      BY <2>6, <2>a, <2>b, <1>b, OutsideSlotStep DEF CompareExchange, Running
    <3> QED
      BY <1>c, <3>1, <3>2 DEF LockInv
  <2>7. CASE Reserve(t)
    <3>1. local'[t] = [local[t] EXCEPT !.event = writeCursor]
      BY <2>7, <2>a, <1>b, <1>b DEF Reserve, MySlot
    <3>2. local'[t].date = local[t].date
      BY <2>7, <2>a, <1>b, <3>1, SMT DEF LocalType
    <3>3. SameSave'
      BY <2>7, <2>a, <2>b, <1>b, <3>1, <3>2, SameSaveStep DEF Reserve, Goto, SameSave, Dated
    <3>4. SlotLocked' /\ CallbackExclusive'
      BY <2>7, <2>a, <2>b, <1>b, <3>1, <3>2, OutsideSlotStep DEF Reserve, Running
    <3> QED
      BY <1>c, <3>3, <3>4 DEF LockInv
  <2>8. CASE RecordAccept(t)
    <3>1. ScopeChanged(t) = FALSE /\ RefreshedBoundary(t) = boundary
      BY <2>8, <2>a, <1>b, <2>b DEF SameSave, RecordAccept, Goto, ScopeChanged, RefreshedBoundary
    <3>2. local'[t] = [local[t] EXCEPT !.epoch = boundary'.epoch]
      BY <2>8, <2>a, <1>b, <1>b DEF RecordAccept
    <3>3. local'[t].date = local[t].date
      BY <2>8, <2>a, <1>b, <3>2, SMT DEF LocalType
    <3>4. SameSave'
      BY <2>8, <2>a, <2>b, <1>b, <3>1, <3>2, <3>3, SameSaveStep DEF RecordAccept, Goto, SameSave, Dated
    <3>5. SlotLocked' /\ CallbackExclusive'
      BY <2>8, <2>a, <2>b, <1>b, <3>1, <3>2, <3>3, OutsideSlotStep DEF RecordAccept, Running
    <3> QED
      BY <1>c, <3>4, <3>5 DEF LockInv
  <2>9. CASE WriteSlot(t)
    <3>1. SameSave'
      BY <2>9, <2>a, <2>b, <1>b, SameSaveStep DEF WriteSlot, Goto, SameSave, Dated
    <3>2. SlotLocked' /\ CallbackExclusive'
      BY <2>9, <2>a, <2>b, <1>b, OutsideSlotStep DEF WriteSlot, Running
    <3> QED
      BY <1>c, <3>1, <3>2 DEF LockInv
  <2>10. CASE Bump(t)
    <3>1. SameSave'
      BY <2>10, <2>a, <2>b, <1>b, SameSaveStep DEF Bump, Goto, SameSave, Dated
    <3>2. SlotLocked' /\ CallbackExclusive'
      BY <2>10, <2>a, <2>b, <1>b, OutsideSlotStep DEF Bump, Running
    <3> QED
      BY <1>c, <3>1, <3>2 DEF LockInv
  <2>11. CASE CompareLatest(t)
    <3>3. PICK to \in {"idle", "check"} :
            pc' = [pc EXCEPT ![t] = to] /\ (to = "idle" \/ UNCHANGED local)
      BY <2>11 DEF CompareLatest, Goto
    <3>4. UNCHANGED <<scopePath, boundary, game, consumer>> /\ \A u \in Threads \ {t} : local'[u] = local[u]
      BY <2>11, <1>b DEF CompareLatest
    <3>5. local[t].date # 0 /\ (to = "idle" \/ local'[t].date = local[t].date)
      BY <2>11, <2>a, <2>b, <3>3 DEF CompareLatest, Goto, Dated
    <3>1. SameSave'
      BY <2>a, <2>b, <1>b, <3>3, <3>4, <3>5, SameSaveStep DEF Goto, Dated
    <3>2. SlotLocked' /\ CallbackExclusive'
      BY <2>11, <2>a, <2>b, <1>b, OutsideSlotStep DEF CompareLatest, Running
    <3> QED
      BY <1>c, <3>1, <3>2 DEF LockInv
  <2> QED
    BY <1>6, <2>1, <2>2, <2>3, <2>4, <2>5, <2>6, <2>7, <2>8, <2>9, <2>10, <2>11
       DEF Publish
<1>7. ASSUME NEW t \in Threads, Dispatch(t) PROVE LockInv'
  <2>a. t \in Threads /\ local[t] \in LocalType
    BY <1>a, <1>b
  <2>b. /\ pc[t] \in {"refresh", "accept"} => local[t].path = game.save
        /\ pc[t] \notin {"scopeReset", "zero", "refreshReset"}
        /\ pc[t] \in Dated => local[t].date # 0
    BY <1>b, <2>a DEF SameSave
  <2>1. CASE Check(t)
    <3>1. local'[t].date = local[t].date
      BY <2>1, <2>a, <1>b, SMT DEF Check, LocalType
    <3>2. SameSave'
      BY <2>1, <2>a, <2>b, <1>b, <3>1, SameSaveStep DEF Check, Goto, SameSave, Dated
    <3>3. SlotLocked' /\ CallbackExclusive'
      BY <2>1, <2>a, <2>b, <1>b, <3>1, OutsideSlotStep DEF Check, Running
    <3> QED
      BY <1>c, <3>2, <3>3 DEF LockInv
  <2>2. CASE Claim(t)
    <3>1. \/ UNCHANGED local
         \/ local'[t] = [local[t] EXCEPT !.slot = MySlot(t) + 1, !.complete = FALSE]
      BY <2>2, <2>a, <1>b, SMT DEF Claim
    <3>2. [local[t] EXCEPT !.slot = MySlot(t) + 1, !.complete = FALSE].date = local[t].date
      BY <2>2, <2>a, <1>b, SMT DEF LocalType
    <3>3. local'[t].date = local[t].date
      BY <2>2, <2>a, <1>b, <3>1, <3>2
    <3>4. SameSave'
      BY <2>2, <2>a, <2>b, <1>b, <3>1, <3>2, <3>3, SameSaveStep DEF Claim, Goto, SameSave, Dated
    <3>5. SlotLocked' /\ CallbackExclusive'
      BY <2>2, <2>a, ClaimLocks
    <3> QED
      BY <1>c, <3>4, <3>5 DEF LockInv
  <2>3. CASE Recheck(t)
    <3>1. local'[t].date = local[t].date /\ local'[t].slot = local[t].slot
      BY <2>3, <2>a, <1>b, SMT DEF Recheck, LocalType
    <3>2. PICK to \in {"finish", "callback"} : Goto(t, "recheck", to)
      BY <2>3 DEF Recheck
    <3>3. UNCHANGED <<scopePath, boundary, game, consumer>> /\ \A u \in Threads \ {t} : local'[u] = local[u]
      BY <2>3, <1>b DEF Recheck
    <3>4. local[t].date # 0
      BY <2>3, <2>b DEF Recheck, Goto, Dated
    <3>5. SameSave'
      BY <2>a, <2>b, <1>b, <3>1, <3>2, <3>3, <3>4, SameSaveStep DEF Dated
    <3>6. SlotLocked' /\ CallbackExclusive'
      BY <2>3, <2>a, <2>b, <1>b, <3>1, <3>2, <3>3, <3>4, InsideSlotStep DEF Recheck, Running
    <3> QED
      BY <1>c, <3>5, <3>6 DEF LockInv
  <2>4. CASE CallbackDone(t)
    <3>1. local'[t].date = local[t].date /\ local'[t].slot = local[t].slot
      BY <2>4, <2>a, <1>b, SMT DEF CallbackDone, LocalType
    <3>2. SameSave'
      BY <2>4, <2>a, <2>b, <1>b, <3>1, SameSaveStep DEF CallbackDone, Goto, SameSave, Dated
    <3>3. SlotLocked' /\ CallbackExclusive'
      BY <2>4, <2>a, <2>b, <1>b, <3>1, InsideSlotStep DEF CallbackDone, Running
    <3> QED
      BY <1>c, <3>2, <3>3 DEF LockInv
  <2>5. CASE CallbackDefers(t)
    <3>1. local'[t].date = local[t].date /\ local'[t].slot = local[t].slot
      BY <2>5, <2>a, <1>b, SMT DEF CallbackDefers, LocalType
    <3>2. game'.save = game.save /\ game'.loads = game.loads
      BY <2>5, <2>a, <1>b, SMT DEF CallbackDefers, TypeInv, TypeOK, GameType
    <3>3. SameSave'
      BY <2>5, <2>a, <2>b, <1>b, <3>1, <3>2, SameSaveStep DEF CallbackDefers, Goto, SameSave, Dated
    <3>4. SlotLocked' /\ CallbackExclusive'
      BY <2>5, <2>a, <2>b, <1>b, <3>1, <3>2, InsideSlotStep DEF CallbackDefers, Running
    <3> QED
      BY <1>c, <3>3, <3>4 DEF LockInv
  <2>6. CASE Finish(t)
    <3>1. local'[t].date = local[t].date /\ local'[t].slot = local[t].slot
      BY <2>6, <2>a, <1>b, SMT DEF Finish, LocalType
    <3>2. SameSave'
      BY <2>6, <2>a, <2>b, <1>b, <3>1, SameSaveStep DEF Finish, Goto, SameSave, Dated
    <3>3. SlotLocked' /\ CallbackExclusive'
      BY <2>6, <2>a, <2>b, <1>b, <3>1, InsideSlotStep DEF Finish, Running
    <3> QED
      BY <1>c, <3>2, <3>3 DEF LockInv
  <2>7. CASE Release(t)
    <3>1. local'[t].date = local[t].date
      BY <2>7, <2>a, <1>b, SMT DEF Release, LocalType
    <3>2. SameSave'
      BY <2>7, <2>a, <2>b, <1>b, <3>1, SameSaveStep DEF Release, Goto, SameSave, Dated
    <3>3. SlotLocked' /\ CallbackExclusive'
      BY <2>7, <2>a, ReleaseUnlocks
    <3> QED
      BY <1>c, <3>2, <3>3 DEF LockInv
  <2>8. CASE DispatchReturns(t)
    <3>1. PICK to \in {"idle", "peek"} : Goto(t, "check", to)
      BY <2>8 DEF DispatchReturns
    <3>2. UNCHANGED <<scopePath, boundary, game, consumer>> /\ \A u \in Threads \ {t} : local'[u] = local[u]
      BY <2>8, <1>b DEF DispatchReturns
    <3>3. local[t].date # 0
      BY <2>8, <2>b DEF DispatchReturns, Goto, Dated
    <3>4. SameSave'
      BY <2>a, <2>b, <1>b, <3>1, <3>2, <3>3, SameSaveStep DEF Dated
    <3>5. SlotLocked' /\ CallbackExclusive'
      BY <2>8, <2>a, <2>b, <1>b, <3>1, <3>2, <3>3, OutsideSlotStep DEF DispatchReturns, Running
    <3> QED
      BY <1>c, <3>4, <3>5 DEF LockInv
  <2> QED
    BY <1>7, <2>1, <2>2, <2>3, <2>4, <2>5, <2>6, <2>7, <2>8
       DEF Dispatch
<1> QED
  BY <1>1, <1>2, <1>3, <1>4, <1>5, <1>6, <1>7 DEF Next, Game

\* The game's count of loads never falls.
LEMMA LoadsGrow ==
  ASSUME TypeInv, [Next]_vars
  PROVE  /\ game.loads \in Nat
         /\ game'.loads = game.loads \/ game'.loads = game.loads + 1
<1>1. game \in GameType
  BY DEF TypeInv, TypeOK
<1>2. CASE UNCHANGED game
  BY <1>1, <1>2 DEF GameType
<1>4. ASSUME NEW d, game' = [game EXCEPT !.date = d] PROVE game'.loads = game.loads
  BY <1>1, <1>4 DEF GameType
<1>5. ASSUME NEW t, CallbackDefers(t) PROVE game'.loads = game.loads
  BY <1>1, <1>5 DEF GameType, CallbackDefers
<1>6. CASE Game
  <2>1. ASSUME NEW s, LoadSave(s) PROVE game'.loads = game.loads + 1
    BY <2>1 DEF LoadSave
  <2> QED
    BY <1>1, <1>2, <1>4, <1>6, <2>1
       DEF Game, FinishLoad, LoadDone, AdvanceDay, ReportAgain, GameType
<1>7. ASSUME NEW t, SaveEnter(t) PROVE UNCHANGED game
  BY <1>7 DEF SaveEnter, ConsumerPoll, EnterScope, ScopeReset, ReadToday, ConsumerPeek
<1>8. ASSUME NEW t, Publish(t) PROVE UNCHANGED game
  BY <1>8 DEF Publish, ReadPath, Refresh, ZeroLast, RefreshReset, Decide,
     CompareExchange, Reserve, RecordAccept, WriteSlot, Bump, CompareLatest
<1>9. ASSUME NEW t, Dispatch(t) PROVE UNCHANGED game \/ CallbackDefers(t)
  BY <1>9 DEF Dispatch, Check, Claim, Recheck, CallbackDone, Finish, Release,
     DispatchReturns
<1> QED
  BY <1>1, <1>2, <1>5, <1>6, <1>7, <1>8, <1>9 DEF Next, vars, GameType

\* The lock holds initially ...
LEMMA OneSaveInit == Init => LockInv
<1> SUFFICES ASSUME Init PROVE LockInv
  OBVIOUS
<1>1. TypeInv
  BY TypeInit
<1>2. \A t \in Threads : pc[t] = "idle"
  BY DEF Init
<1>3. SameSave
  <2>1. game.loads = 0 /\ scopePath = game.save /\ boundary.path = game.save
    BY DEF Init
  <2> QED
    BY <1>2, <2>1 DEF SameSave, Dated, Threads
<1> QED
  BY <1>1, <1>2, <1>3 DEF LockInv, SlotLocked, CallbackExclusive, Claimants, Running

\* ... and until the first load.
LEMMA OneSaveLock == Spec => [](TypeInv /\ (game.loads = 0 => LockInv))
<1>1. Init => TypeInv /\ (game.loads = 0 => LockInv)
  BY TypeInit, OneSaveInit
<1>2. (TypeInv /\ (game.loads = 0 => LockInv)) /\ [Next]_vars
      => (TypeInv /\ (game.loads = 0 => LockInv))'
  <2> SUFFICES ASSUME TypeInv, game.loads = 0 => LockInv, [Next]_vars
               PROVE  TypeInv' /\ (game'.loads = 0 => LockInv')
    OBVIOUS
  <2>1. TypeInv' /\ (game'.loads = 0 => game.loads = 0)
    BY TypeStep, LoadsGrow
  <2> QED
    BY <2>1, LockStep
<1> QED
  BY <1>1, <1>2, PTL DEF Spec

\* As long as the player has loaded no save, no two threads are ever inside one
\* synchronous consumer's callback, however many pollers there are.
THEOREM OneSaveExclusive == Spec => [](game.loads = 0 => CallbackExclusive)
<1>1. LockInv => CallbackExclusive
  BY DEF LockInv
<1> QED
  BY <1>1, OneSaveLock, PTL

-----------------------------------------------------------------------------
(***************************************************************************)
(* The ring: an event the cursors can reach is still in the hands of its   *)
(* publisher, or its slot holds the date reserved for it.                  *)
(***************************************************************************)
\* Every event has a slot, and the events before the first wrap their own.
LEMMA SlotOf ==
  ASSUME NEW e \in Nat
  PROVE  /\ e % RingSize \in 0 .. RingSize - 1
         /\ e < RingSize => e % RingSize = e
  BY DateTickAssumption

\* An event is a number of whole rings and its slot.
LEMMA Division ==
  ASSUME NEW R \in Nat \ {0}, NEW a \in Nat
  PROVE  a = R * (a \div R) + (a % R) /\ a \div R \in Int /\ a % R \in Int
  OBVIOUS

\* A multiple of a positive number is zero, negative or at least the number.
LEMMA Multiples ==
  ASSUME NEW R \in Nat \ {0}, NEW k \in Int
  PROVE  R * k <= 0 \/ R * k >= R
<1>1. CASE k <= 0
  BY <1>1
<1>2. CASE k >= 1
  <2>1. PICK j \in Nat : k = j + 1
    <3>1. k - 1 \in Nat /\ k = (k - 1) + 1
      BY <1>2
    <3> QED
      BY <3>1
  <2>2. R * k = R * j + R
    BY <2>1
  <2> QED
    BY <2>1, <2>2
<1> QED
  BY <1>1, <1>2

\* Two events less than a ring apart have different slots.
LEMMA SlotsDiffer ==
  ASSUME NEW a \in Nat, NEW b \in Nat, a < b, b - a < RingSize
  PROVE  a % RingSize # b % RingSize
<1> DEFINE R == RingSize
           q == b \div R
           p == a \div R
<1>0. R \in Nat \ {0}
  BY DateTickAssumption
<1>1. /\ a = R * p + (a % R) /\ b = R * q + (b % R)
      /\ p \in Int /\ q \in Int /\ a % R \in Int /\ b % R \in Int
  BY <1>0, Division
<1>2. R * q - R * p = R * (q - p) /\ q - p \in Int
  <2> HIDE DEF p, q, R
  <2> QED
    BY <1>0, <1>1
<1>3. R * (q - p) <= 0 \/ R * (q - p) >= R
  BY <1>0, <1>2, Multiples
<1>4. R * q \in Int /\ R * p \in Int /\ R * (q - p) \in Int
  BY <1>0, <1>1, <1>2
<1> SUFFICES ASSUME a % R = b % R PROVE FALSE
  OBVIOUS
<1>5. b - a = R * (q - p)
  <2> HIDE DEF p, q, R
  <2> QED
    BY <1>0, <1>1, <1>2, <1>4
<1>6. b - a > 0 /\ b - a < R
  OBVIOUS
<1> HIDE DEF p, q, R
<1> QED
  BY <1>0, <1>3, <1>4, <1>5, <1>6

Unwritten == {"acceptPath", "accept", "write"}

\* No publisher is still between its reservation and its count when a whole
\* ring of later events has been reserved.
NoneOvertaken == \A t \in Publishing : writeCursor <= local[t].event + RingSize

Pending(e) == \E t \in Threads : pc[t] \in Unwritten /\ local[t].event = e
FilledInv ==
    \A e \in 0 .. writeCursor - 1 : e >= writeCursor - RingSize =>
        Pending(e) \/ ring[RingIndex(e)].date = log[e + 1]

\* A step that neither reserves nor writes, and drops no reservation.
KeepsFilled ==
    /\ UNCHANGED <<writeCursor, log, ring>>
    /\ \A u \in Threads : pc[u] \in Unwritten =>
         pc'[u] \in Unwritten /\ local'[u].event = local[u].event

LEMMA FilledKept == FilledInv /\ KeepsFilled => FilledInv'
<1> SUFFICES ASSUME FilledInv, KeepsFilled PROVE FilledInv'
  OBVIOUS
<1>1. \A e : Pending(e) => (\E t \in Threads : pc'[t] \in Unwritten /\ local'[t].event = e)
  BY DEF Pending, KeepsFilled
<1> QED
  BY <1>1 DEF FilledInv, KeepsFilled, Pending

\* A step of one thread from a label at which it holds no unwritten event.
LEMMA FilledOutside ==
  ASSUME TypeInv, FilledInv, NEW t \in Threads, NEW from, NEW to, Goto(t, from, to),
         from \notin Unwritten, \A u \in Threads \ {t} : local'[u] = local[u],
         UNCHANGED <<writeCursor, log, ring>>
  PROVE  FilledInv'
<1>1. KeepsFilled
  BY SMT DEF KeepsFilled, Goto, TypeInv, TypeOK
<1> QED
  BY <1>1, FilledKept

\* A step of one thread that goes on holding its event.
LEMMA FilledInside ==
  ASSUME TypeInv, FilledInv, NEW t \in Threads, NEW from, NEW to, Goto(t, from, to),
         to \in Unwritten, local'[t].event = local[t].event,
         \A u \in Threads \ {t} : local'[u] = local[u],
         UNCHANGED <<writeCursor, log, ring>>
  PROVE  FilledInv'
<1>1. KeepsFilled
  BY SMT DEF KeepsFilled, Goto, TypeInv, TypeOK
<1> QED
  BY <1>1, FilledKept

\* The reserved event is pending, and the others in reach are fewer.
LEMMA FilledReserve ==
  ASSUME TypeInv, ReservationsAccounted, FilledInv, NEW t \in Threads, Reserve(t)
  PROVE  FilledInv'
<1>0. /\ local \in [Threads -> LocalType] /\ pc \in [Threads -> Labels]
      /\ writeCursor \in Nat /\ log \in Seq(DatesOrNone) /\ RingSize \in Nat
      /\ local[t] \in LocalType /\ writeCursor = Len(log)
  BY DateTickAssumption DEF TypeInv, TypeOK, ReservationsAccounted
<1>1. /\ writeCursor' = writeCursor + 1 /\ UNCHANGED ring
      /\ \A i \in 1 .. Len(log) : log'[i] = log[i]
  BY <1>0, SMT DEF Reserve
<1>2. /\ local'[t].event = writeCursor /\ pc'[t] \in Unwritten
      /\ pc[t] \notin Unwritten
      /\ \A u \in Threads \ {t} : local'[u] = local[u] /\ pc'[u] = pc[u]
  <2>1. local'[t] = [local[t] EXCEPT !.event = writeCursor]
    BY <1>0 DEF Reserve
  <2>2. local'[t].event = writeCursor
    BY <1>0, <2>1, SMT DEF LocalType
  <2> QED
    BY <1>0, <2>2, SMT DEF Reserve, Goto, Unwritten
<1> SUFFICES ASSUME NEW e \in 0 .. writeCursor' - 1, e >= writeCursor' - RingSize
             PROVE  \/ \E u \in Threads : pc'[u] \in Unwritten /\ local'[u].event = e
                    \/ ring'[RingIndex(e)].date = log'[e + 1]
  BY DEF FilledInv, Pending, RingIndex
<1>3. CASE e = writeCursor
  BY <1>2, <1>3
<1>4. CASE e # writeCursor
  <2>1. e \in 0 .. writeCursor - 1 /\ e >= writeCursor - RingSize /\ e + 1 \in 1 .. Len(log)
    BY <1>0, <1>1, <1>4
  <2>2. CASE Pending(e)
    BY <1>2, <2>2 DEF Pending
  <2>3. CASE ring[RingIndex(e)].date = log[e + 1]
    BY <1>1, <2>1, <2>3
  <2> QED
    BY <2>1, <2>2, <2>3 DEF FilledInv
<1> QED
  BY <1>3, <1>4

\* A publisher that is not overtaken writes its own event and no other in reach.
LEMMA FilledWrite ==
  ASSUME TypeInv, ReservationsAccounted, NoneOvertaken, FilledInv,
         NEW t \in Threads, WriteSlot(t)
  PROVE  FilledInv'
<1> DEFINE own == local[t].event
<1>0. /\ pc \in [Threads -> Labels] /\ writeCursor \in Nat /\ RingSize \in Nat \ {0}
      /\ ring \in [0 .. RingSize - 1 -> EventType] /\ local[t] \in LocalType
      /\ own \in Nat /\ t \in Publishing
  BY DateTickAssumption, LocalFields
     DEF TypeInv, TypeOK, RingType, WriteSlot, Goto, Publishing
<1>1. own < writeCursor /\ writeCursor <= own + RingSize /\ log[own + 1] = local[t].date
  BY <1>0 DEF ReservationsAccounted, NoneOvertaken
<1>2. /\ UNCHANGED <<writeCursor, log, local>>
      /\ \A u \in Threads \ {t} : pc'[u] = pc[u]
      /\ ring' = [ring EXCEPT ![own % RingSize] =
                     [date |-> local[t].date, epoch |-> local[t].epoch]]
  BY <1>0 DEF WriteSlot, Goto, RingIndex
<1> HIDE DEF own
<1> SUFFICES ASSUME NEW e \in 0 .. writeCursor - 1, e >= writeCursor - RingSize
             PROVE  \/ \E u \in Threads : pc'[u] \in Unwritten /\ local'[u].event = e
                    \/ ring'[RingIndex(e)].date = log[e + 1]
  BY <1>2 DEF FilledInv, Pending, RingIndex
<1>3. CASE e = own
  <2>1. own % RingSize \in 0 .. RingSize - 1
    BY <1>0, SlotOf
  <2> QED
    BY <1>0, <1>1, <1>2, <1>3, <2>1 DEF RingIndex
<1>4. CASE e # own
  <2>1. e % RingSize # own % RingSize
    <3>1. e \in Nat /\ (e < own \/ own < e)
      BY <1>0, <1>4
    <3>2. e < own => own - e < RingSize
      BY <1>0, <1>1
    <3>3. own < e => e - own < RingSize
      BY <1>0, <1>1
    <3> QED
      BY <1>0, <3>1, <3>2, <3>3, SlotsDiffer
  <2>2. ring'[RingIndex(e)] = ring[RingIndex(e)]
    BY <1>0, <1>2, <2>1, SlotOf DEF RingIndex
  <2>3. CASE Pending(e)
    <3>1. PICK u \in Threads : pc[u] \in Unwritten /\ local[u].event = e
      BY <2>3 DEF Pending
    <3>2. u # t
      BY <1>4, <3>1 DEF own
    <3> QED
      BY <1>2, <3>1, <3>2
  <2> QED
    BY <2>2, <2>3 DEF FilledInv
<1> QED
  BY <1>3, <1>4

\* Every step keeps the ring filled, unless a publisher was overtaken.
LEMMA FilledStep ==
  TypeInv /\ ReservationsAccounted /\ NoneOvertaken /\ FilledInv /\ [Next]_vars
      => FilledInv'
<1> SUFFICES ASSUME TypeInv, ReservationsAccounted, NoneOvertaken, FilledInv, [Next]_vars
             PROVE  FilledInv'
  OBVIOUS
<1> USE DEF gameOnly, dispatchOnly, eventVars, scopeVars, slotVars
<1>a. Sim \in Threads /\ Pollers \subseteq Threads
  BY DEF Threads
<1>b. local \in [Threads -> LocalType] /\ \A t \in Threads : local[t] \in LocalType
  BY DEF TypeInv, TypeOK
<1>1. CASE UNCHANGED vars
  BY <1>1, FilledKept DEF vars, KeepsFilled
<1>2. CASE FinishLoad \/ \E s \in Saves : LoadSave(s)
  BY <1>2, FilledKept DEF FinishLoad, LoadSave, LoadDone, KeepsFilled
<1>3. CASE AdvanceDay \/ ReportAgain
  <2>1. Goto(Sim, "idle", "readPath") /\ UNCHANGED <<writeCursor, log, ring>>
        /\ \A u \in Threads \ {Sim} : local'[u] = local[u]
    BY <1>3, <1>b DEF AdvanceDay, ReportAgain
  <2> QED
    BY <1>a, <2>1, FilledOutside DEF Unwritten
<1>4. ASSUME NEW t \in Pollers, SaveEnter(t) PROVE FilledInv'
  <2>1. PICK from, to :
          /\ from \in {"idle", "scope", "scopeReset", "today", "peek"}
          /\ Goto(t, from, to)
    BY <1>4 DEF SaveEnter, ConsumerPoll, EnterScope, ScopeReset, ReadToday, ConsumerPeek
  <2>2. UNCHANGED <<writeCursor, log, ring>> /\ \A u \in Threads \ {t} : local'[u] = local[u]
    BY <1>4, <1>a, <1>b
       DEF SaveEnter, ConsumerPoll, EnterScope, ScopeReset, ReadToday, ConsumerPeek
  <2> QED
    BY <1>a, <2>1, <2>2, FilledOutside DEF Unwritten
<1>5. ASSUME NEW t \in Threads, Publish(t) PROVE FilledInv'
  <2>1. CASE Refresh(t) \/ ZeroLast(t) \/ RefreshReset(t) \/ Decide(t)
             \/ CompareExchange(t) \/ Bump(t) \/ CompareLatest(t)
    <3>1. PICK from, to :
          /\ from \in {"refresh", "zero", "refreshReset", "decide", "cas", "bump", "latest"}
          /\ Goto(t, from, to)
      BY <2>1 DEF Refresh, ZeroLast, RefreshReset, Decide, CompareExchange, Bump,
         CompareLatest
    <3>2. UNCHANGED <<writeCursor, log, ring>> /\ \A u \in Threads \ {t} : local'[u] = local[u]
      BY <1>b, <2>1 DEF Refresh, ZeroLast, RefreshReset, Decide, CompareExchange, Bump,
         CompareLatest
    <3> QED
      BY <3>1, <3>2, FilledOutside DEF Unwritten
  <2>2. CASE ReadPath(t)
    <3>1. local'[t] = [local[t] EXCEPT !.path = game.save]
      BY <2>2, <1>b DEF ReadPath
    <3>2. local'[t].event = local[t].event
      BY <1>b, <3>1, SMT DEF LocalType
    <3> QED
      BY <2>2, <1>b, <3>2, FilledInside, FilledOutside DEF ReadPath, Unwritten
  <2>3. CASE RecordAccept(t)
    <3>1. local'[t] = [local[t] EXCEPT !.epoch = boundary'.epoch]
      BY <2>3, <1>b DEF RecordAccept
    <3>2. local'[t].event = local[t].event
      BY <1>b, <3>1, SMT DEF LocalType
    <3> QED
      BY <2>3, <1>b, <3>2, FilledInside DEF RecordAccept, Unwritten
  <2> QED
    BY <1>5, <2>1, <2>2, <2>3, FilledReserve, FilledWrite DEF Publish
<1>6. ASSUME NEW t \in Threads, Dispatch(t) PROVE FilledInv'
  <2>1. PICK from, to :
          /\ from \in {"check", "claim", "recheck", "callback", "finish", "release"}
          /\ Goto(t, from, to)
    BY <1>6 DEF Dispatch, Check, Claim, Recheck, CallbackDone, CallbackDefers, Finish,
       Release, DispatchReturns
  <2>2. UNCHANGED <<writeCursor, log, ring>> /\ \A u \in Threads \ {t} : local'[u] = local[u]
    BY <1>6, <1>b DEF Dispatch, Check, Claim, Recheck, CallbackDone, CallbackDefers,
       Finish, Release, DispatchReturns
  <2> QED
    BY <2>1, <2>2, FilledOutside DEF Unwritten
<1> QED
  BY <1>1, <1>2, <1>3, <1>4, <1>5, <1>6 DEF Next, Game

\* However many publishers race, once none of them is between its reservation
\* and its count every event a cursor can reach holds the date reserved for it,
\* unless a publisher was suspended while a whole ring of events passed it: the
\* late write of such a publisher lands in a newer event's slot.
THEOREM QuiescentCorrect == Spec /\ []NoneOvertaken => []QuiescentRing
<1>1. Init => FilledInv
  <2> SUFFICES ASSUME Init, NEW e \in 0 .. writeCursor - 1
               PROVE  ring[RingIndex(e)].date = log[e + 1]
    BY DEF FilledInv
  <2>1. e = 0 /\ log = <<1>> /\ 0 \in 0 .. RingSize - 1
    BY DateTickAssumption DEF Init
  <2>2. RingIndex(e) = 0
    BY <2>1, SlotOf, 0 \in Nat, DateTickAssumption DEF RingIndex
  <2> QED
    BY <2>1, <2>2 DEF Init
<1>2. TypeInv /\ ReservationsAccounted /\ FilledInv => QuiescentRing
  <2> SUFFICES ASSUME TypeInv, ReservationsAccounted, FilledInv, Publishing = {},
                      NEW e \in 0 .. published - 1, e >= published - RingSize
               PROVE  ring[RingIndex(e)].date = log[e + 1]
    BY DEF QuiescentRing
  <2>1. writeCursor = published
    BY FS_EmptySet, SMT DEF ReservationsAccounted, TypeInv, TypeOK
  <2>2. ~Pending(e)
    BY DEF Pending, Publishing, Unwritten
  <2> QED
    BY <2>1, <2>2 DEF FilledInv
<1>3. Init => ReservationsAccounted
  <2> SUFFICES ASSUME Init PROVE ReservationsAccounted
    OBVIOUS
  <2>1. Publishing = {}
    BY SMT DEF Init, Publishing
  <2> QED
    BY <2>1, FS_EmptySet, SMT DEF Init, ReservationsAccounted
<1> QED
  BY <1>1, <1>2, <1>3, TypeInit, TypeStep, ReservationsStep, FilledStep, PTL DEF Spec

-----------------------------------------------------------------------------
(***************************************************************************)
(* What last_dispatched_date records was done.                             *)
(***************************************************************************)

\* The work of slot i on date d is among `work', from one of `loads' loads.
Did(i, d, loads, work) == d # 0 => \E n \in 0 .. loads : <<i, n, d>> \in work

RecordInv ==
    /\ \A i \in Slots : Did(i, lastDispatched[i], game.loads, done)
    /\ \A t \in Threads : pc[t] = "finish" /\ local[t].ok =>
                            Did(local[t].slot, local[t].date, game.loads, done)
    /\ \A t \in Threads : pc[t] = "callback" => local[t].load <= game.loads

\* A step that records nothing and brings no thread near a record.
LEMMA RecordKept ==
  ASSUME RecordInv, game.loads \in Nat, game'.loads \in Nat,
         game.loads <= game'.loads, done \subseteq done',
         \A i \in Slots : lastDispatched'[i] \in {0, lastDispatched[i]},
         \A u \in Threads : pc'[u] \in {"finish", "callback"} =>
                              pc'[u] = pc[u] /\ local'[u] = local[u],
         \A u \in Threads : local[u].load \in Nat
  PROVE  RecordInv'
<1>1. 0 .. game.loads \subseteq 0 .. game'.loads
  OBVIOUS
<1>2. \A i, d : Did(i, d, game.loads, done) => Did(i, d, game'.loads, done')
  BY <1>1 DEF Did
<1>3. \A i \in Slots : Did(i, lastDispatched'[i], game'.loads, done')
  BY <1>2 DEF RecordInv, Did
<1>4. \A t \in Threads : pc'[t] = "finish" /\ local'[t].ok =>
                            Did(local'[t].slot, local'[t].date, game'.loads, done')
  BY <1>2 DEF RecordInv
<1>5. \A t \in Threads : pc'[t] = "callback" => local'[t].load <= game'.loads
  BY DEF RecordInv
<1> QED
  BY <1>3, <1>4, <1>5 DEF RecordInv

\* A thread's step away from the records.
LEMMA RecordAside ==
  ASSUME TypeInv, RecordInv, NEW t \in Threads, NEW from, NEW to, Goto(t, from, to),
         to \notin {"finish", "callback"}, UNCHANGED <<game, done>>,
         \A u \in Threads \ {t} : local'[u] = local[u],
         \A i \in Slots : lastDispatched'[i] \in {0, lastDispatched[i]}
  PROVE  RecordInv'
<1>1. game.loads \in Nat /\ \A u \in Threads : local[u].load \in Nat
  BY LocalFields DEF TypeInv, TypeOK, GameType
<1>2. \A u \in Threads : pc'[u] \in {"finish", "callback"} =>
                              pc'[u] = pc[u] /\ local'[u] = local[u]
  BY SMT DEF Goto, TypeInv, TypeOK
<1> QED
  BY <1>1, <1>2, RecordKept

\* A thread's step to the end of its callback, or into it.
LEMMA RecordOwn ==
  ASSUME TypeInv, RecordInv, NEW t \in Threads, game'.loads = game.loads,
         NEW from, NEW to, Goto(t, from, to),
         done \subseteq done', UNCHANGED lastDispatched,
         \A u \in Threads \ {t} : local'[u] = local[u],
         to = "finish" /\ local'[t].ok =>
             Did(local'[t].slot, local'[t].date, game.loads, done'),
         to = "callback" => local'[t].load <= game.loads
  PROVE  RecordInv'
<1>1. \A i, d : Did(i, d, game.loads, done) => Did(i, d, game'.loads, done')
  BY DEF Did
<1>2. pc'[t] = to /\ \A u \in Threads \ {t} : pc'[u] = pc[u] /\ local'[u] = local[u]
  BY DEF Goto, TypeInv, TypeOK
<1>3. \A i \in Slots : Did(i, lastDispatched'[i], game'.loads, done')
  BY <1>1 DEF RecordInv
<1>4. ASSUME NEW u \in Threads, pc'[u] = "finish", local'[u].ok
      PROVE  Did(local'[u].slot, local'[u].date, game'.loads, done')
  BY <1>1, <1>2, <1>4 DEF RecordInv
<1>5. ASSUME NEW u \in Threads, pc'[u] = "callback" PROVE local'[u].load <= game'.loads
  BY <1>2, <1>5 DEF RecordInv
<1> QED
  BY <1>3, <1>4, <1>5 DEF RecordInv

\* Every step keeps the records true.
LEMMA RecordStep == TypeInv /\ RecordInv /\ [Next]_vars => RecordInv'
<1> SUFFICES ASSUME TypeInv, RecordInv, [Next]_vars PROVE RecordInv'
  OBVIOUS
<1> USE DEF gameOnly, dispatchOnly, eventVars, scopeVars, slotVars
<1>a. Sim \in Threads /\ Pollers \subseteq Threads
  BY DEF Threads
<1>b. /\ local \in [Threads -> LocalType]
      /\ \A t \in Threads : local[t] \in LocalType /\ local[t].load \in Nat
      /\ game.loads \in Nat /\ game'.loads \in Nat /\ game.loads <= game'.loads
      /\ game \in GameType
  BY LocalFields, LoadsGrow DEF TypeInv, TypeOK, GameType
<1>1. CASE UNCHANGED vars
  BY <1>1, <1>b, RecordKept DEF vars
<1>2. CASE Game
  <2>1. UNCHANGED <<done, lastDispatched>>
    BY <1>2 DEF Game, FinishLoad, LoadSave, LoadDone, AdvanceDay, ReportAgain
  <2>2. \/ UNCHANGED <<pc, local>>
        \/ Goto(Sim, "idle", "readPath") /\ \A u \in Threads \ {Sim} : local'[u] = local[u]
    BY <1>2, <1>b DEF Game, FinishLoad, LoadSave, LoadDone, AdvanceDay, ReportAgain
  <2>3. \A u \in Threads : pc'[u] \in {"finish", "callback"} =>
                              pc'[u] = pc[u] /\ local'[u] = local[u]
    BY <2>2, <1>a, SMT DEF Goto, TypeInv, TypeOK
  <2> QED
    BY <1>b, <2>1, <2>3, RecordKept
<1>3. ASSUME NEW t \in Pollers, SaveEnter(t) PROVE RecordInv'
  <2>1. \E from, to : Goto(t, from, to) /\ to \notin {"finish", "callback"}
    BY <1>3 DEF SaveEnter, ConsumerPoll, EnterScope, ScopeReset, ReadToday, ConsumerPeek
  <2>2. UNCHANGED <<game, done>> /\ \A u \in Threads \ {t} : local'[u] = local[u]
    BY <1>3, <1>a, <1>b
       DEF SaveEnter, ConsumerPoll, EnterScope, ScopeReset, ReadToday, ConsumerPeek
  <2>3. \A i \in Slots : lastDispatched'[i] \in {0, lastDispatched[i]}
    BY <1>3 DEF SaveEnter, ConsumerPoll, EnterScope, ScopeReset, ReadToday, ConsumerPeek,
       ResetSyncDates
  <2> QED
    BY <1>a, <2>1, <2>2, <2>3, RecordAside
<1>4. ASSUME NEW t \in Threads, Publish(t) PROVE RecordInv'
  <2>1. \E from, to : Goto(t, from, to) /\ to \notin {"finish", "callback"}
    BY <1>4 DEF Publish, ReadPath, Refresh, ZeroLast, RefreshReset, Decide, Rejected,
     CompareExchange, Reserve, RecordAccept, WriteSlot, Bump, CompareLatest
  <2>2. UNCHANGED <<game, done>> /\ \A u \in Threads \ {t} : local'[u] = local[u]
    BY <1>4, <1>b DEF Publish, ReadPath, Refresh, ZeroLast, RefreshReset, Decide,
     CompareExchange, Reserve, RecordAccept, WriteSlot, Bump, CompareLatest
  <2>3. \A i \in Slots : lastDispatched'[i] \in {0, lastDispatched[i]}
    BY <1>4 DEF Publish, ReadPath, Refresh, ZeroLast, RefreshReset, Decide,
     CompareExchange, Reserve, RecordAccept, WriteSlot, Bump, CompareLatest, ResetSyncDates
  <2> QED
    BY <2>1, <2>2, <2>3, RecordAside
<1>5. ASSUME NEW t \in Threads, Dispatch(t) PROVE RecordInv'
  <2>a. \A u \in Threads \ {t} : local'[u] = local[u]
    BY <1>5, <1>b DEF Dispatch, Check, Claim, Recheck, CallbackDone, CallbackDefers,
       Finish, Release, DispatchReturns
  <2>1. CASE Check(t) \/ Claim(t) \/ Release(t) \/ DispatchReturns(t)
    <3>1. \E from, to : Goto(t, from, to) /\ to \notin {"finish", "callback"}
      BY <2>1 DEF Check, Claim, Release, DispatchReturns
    <3>2. UNCHANGED <<game, done, lastDispatched>>
      BY <2>1 DEF Check, Claim, Release, DispatchReturns
    <3> QED
      BY <2>a, <3>1, <3>2, RecordAside
  <2>2. CASE Recheck(t)
    <3>0. pc[t] = "recheck" /\ local[t].slot \in Slots
      BY <2>2 DEF Recheck, Goto, TypeInv, SlotChosen, Claimed
    <3>1. CASE lastDispatched[MySlot(t)] = local[t].date
      <4>1. Goto(t, "recheck", "finish") /\ local' = [local EXCEPT ![t].ok = TRUE]
            /\ UNCHANGED <<game, done, lastDispatched>>
        BY <2>2, <3>1 DEF Recheck
      <4>2. local'[t].slot = local[t].slot /\ local'[t].date = local[t].date
        BY <1>b, <4>1, SMT DEF LocalType
      <4>3. Did(local[t].slot, local[t].date, game.loads, done)
        BY <3>0, <3>1 DEF RecordInv, MySlot
      <4> QED
        BY <2>a, <4>1, <4>2, <4>3, RecordOwn
    <3>2. CASE lastDispatched[MySlot(t)] # local[t].date
      <4>1. Goto(t, "recheck", "callback") /\ local' = [local EXCEPT ![t].load = game.loads]
            /\ UNCHANGED <<game, done, lastDispatched>>
        BY <2>2, <3>2 DEF Recheck
      <4>2. local'[t].load = game.loads
        BY <1>b, <4>1, SMT DEF LocalType
      <4> QED
        BY <1>b, <2>a, <4>1, <4>2, RecordOwn
    <3> QED
      BY <3>1, <3>2
  <2>3. CASE CallbackDone(t)
    <3>1. Goto(t, "callback", "finish") /\ local' = [local EXCEPT ![t].ok = TRUE]
          /\ UNCHANGED <<game, lastDispatched>>
          /\ done' = done \cup {<<local[t].slot, local[t].load, local[t].date>>}
      BY <2>3 DEF CallbackDone, MySlot
    <3>2. local'[t].slot = local[t].slot /\ local'[t].date = local[t].date
      BY <1>b, <3>1, SMT DEF LocalType
    <3>3. local[t].load \in 0 .. game.loads
      BY <1>b, <3>1 DEF RecordInv, Goto
    <3>4. Did(local[t].slot, local[t].date, game.loads, done')
      BY <3>1, <3>3 DEF Did
    <3> QED
      BY <2>a, <3>1, <3>2, <3>4, RecordOwn
  <2>4. CASE CallbackDefers(t)
    <3>1. Goto(t, "callback", "finish") /\ local' = [local EXCEPT ![t].ok = FALSE]
          /\ UNCHANGED <<done, lastDispatched>>
      BY <2>4 DEF CallbackDefers
    <3>2. local'[t].ok = FALSE
      BY <1>b, <3>1, SMT DEF LocalType
    <3>3. game'.loads = game.loads
      BY <1>b, <2>4, SMT DEF CallbackDefers, GameType
    <3> QED
      BY <2>a, <3>1, <3>2, <3>3, RecordOwn
  <2>5. CASE Finish(t)
    <3>0. pc[t] = "finish" /\ local[t].slot \in Slots /\ Goto(t, "finish", "release")
          /\ UNCHANGED <<game, done>> /\ lastDispatched \in SlotDates
      BY <2>5 DEF Finish, Goto, TypeInv, TypeOK, SlotChosen, Claimed
    <3>1. CASE ~local[t].ok
      BY <2>5, <2>a, <3>0, <3>1, RecordAside DEF Finish
    <3>2. CASE local[t].ok
      <4>1. Did(local[t].slot, local[t].date, game.loads, done)
        BY <3>0, <3>2 DEF RecordInv
      <4>2. lastDispatched' = [lastDispatched EXCEPT ![local[t].slot] = local[t].date]
        BY <2>5, <3>2 DEF Finish, MySlot
      <4>3. \A i \in Slots : Did(i, lastDispatched'[i], game'.loads, done')
        BY <3>0, <4>1, <4>2 DEF RecordInv, SlotDates
      <4>4. \A u \in Threads : pc'[u] \in {"finish", "callback"} =>
                                 pc'[u] = pc[u] /\ local'[u] = local[u]
        BY <2>a, <3>0, SMT DEF Goto, TypeInv, TypeOK
      <4> QED
        BY <3>0, <4>3, <4>4 DEF RecordInv
    <3> QED
      BY <3>1, <3>2
  <2> QED
    BY <1>5, <2>1, <2>2, <2>3, <2>4, <2>5 DEF Dispatch
<1> QED
  BY <1>1, <1>2, <1>3, <1>4, <1>5 DEF Next

LEMMA RecordInit == Init => RecordInv
  BY DEF Init, RecordInv, Did

\* However threads, loads and resets interleave, a synchronous consumer's
\* last_dispatched_date is never a date whose work was not done: a callback
\* that defers leaves no record.
THEOREM RecordsAreTrue == Spec => []DispatchedWasDone
<1>1. RecordInv => DispatchedWasDone
  BY DEF RecordInv, Did, DispatchedWasDone
<1> QED
  BY <1>1, TypeInit, TypeStep, RecordInit, RecordStep, PTL DEF Spec

-----------------------------------------------------------------------------
(***************************************************************************)
(* The game thread, and when it is alone.                                  *)
(***************************************************************************)

\* A poller whose consumer has met no save has never left its idle state.
Unmet == \A t \in Pollers :
           consumer[t].path = NoSave => pc[t] = "idle" /\ consumer[t] = NewConsumer

LEMMA UnmetInit == Init => Unmet
<1> SUFFICES ASSUME Init, NEW t \in Pollers, consumer[t].path = NoSave
             PROVE  pc[t] = "idle" /\ consumer[t] = NewConsumer
  BY DEF Unmet
<1>1. PICK s \in Saves : game.save = s
  BY DEF Init
<1>2. consumer[t] \in {NewConsumer, EnteredConsumer(game.save)} /\ pc[t] = "idle"
  BY DEF Init, Threads
<1>3. EnteredConsumer(game.save).path # NoSave
  BY <1>1, DateTickAssumption, SMT DEF EnteredConsumer
<1> QED
  BY <1>2, <1>3

\* What a step leaves of the pollers' state.
LEMMA UnmetKept ==
  ASSUME Unmet, UNCHANGED consumer,
         \A t \in Pollers : pc[t] = "idle" => pc'[t] = "idle"
  PROVE  Unmet'
  BY DEF Unmet

\* A poller leaves its idle state by meeting a save, and keeps the save it met.
LEMMA UnmetStep == TypeInv /\ Unmet /\ [Next]_vars => Unmet'
<1> SUFFICES ASSUME TypeInv, Unmet, [Next]_vars PROVE Unmet'
  OBVIOUS
<1> USE DEF gameOnly, dispatchOnly, eventVars, scopeVars, slotVars
<1>a. Sim \in Threads /\ Sim \notin Pollers /\ Pollers \subseteq Threads
  BY DateTickAssumption DEF Threads
<1>b. /\ pc \in [Threads -> Labels] /\ consumer \in [Pollers -> ConsumerType]
      /\ game.save \in Saves /\ game.save # NoSave
  BY DateTickAssumption, SMT DEF TypeInv, TypeOK, GameType
<1>1. CASE UNCHANGED vars
  BY <1>1, UnmetKept DEF vars
<1>2. CASE Game
  BY <1>2, <1>a, <1>b, UnmetKept
     DEF Game, FinishLoad, LoadSave, LoadDone, AdvanceDay, ReportAgain, Goto
<1>3. ASSUME NEW t \in Pollers, SaveEnter(t) PROVE Unmet'
  <2>1. CASE ConsumerPoll(t)
    <3>1. consumer'[t].path = game.save /\ pc' = [pc EXCEPT ![t] = "scope"]
          /\ \A u \in Pollers \ {t} : consumer'[u] = consumer[u]
      BY <1>b, <2>1, SMT DEF ConsumerPoll, Goto
    <3> QED
      BY <1>a, <1>b, <3>1 DEF Unmet
  <2>2. CASE ConsumerPeek(t)
    <3>1. consumer'[t].path = consumer[t].path /\ Goto(t, "peek", "idle")
          /\ \A u \in Pollers \ {t} : consumer'[u] = consumer[u]
      BY <1>b, <2>2, SMT DEF ConsumerPeek
    <3> QED
      BY <1>a, <1>b, <3>1 DEF Unmet, Goto
  <2>3. CASE EnterScope(t) \/ ScopeReset(t) \/ ReadToday(t)
    <3>1. UNCHANGED consumer /\ pc[t] # "idle" /\ \A u \in Pollers \ {t} : pc'[u] = pc[u]
      BY <1>a, <1>b, <2>3 DEF EnterScope, ScopeReset, ReadToday, Goto
    <3> QED
      BY <3>1, UnmetKept
  <2> QED
    BY <1>3, <2>1, <2>2, <2>3 DEF SaveEnter
<1>4. ASSUME NEW t \in Threads, Publish(t) PROVE Unmet'
  <2>1. UNCHANGED consumer /\ pc[t] # "idle" /\ \A u \in Threads \ {t} : pc'[u] = pc[u]
    BY <1>b, <1>4 DEF Publish, ReadPath, Refresh, ZeroLast, RefreshReset, Decide,
     CompareExchange, Reserve, RecordAccept, WriteSlot, Bump, CompareLatest, Goto
  <2> QED
    BY <1>a, <2>1, UnmetKept
<1>5. ASSUME NEW t \in Threads, Dispatch(t) PROVE Unmet'
  <2>1. UNCHANGED consumer /\ pc[t] # "idle" /\ \A u \in Threads \ {t} : pc'[u] = pc[u]
    BY <1>b, <1>5 DEF Dispatch, Check, Claim, Recheck, CallbackDone, CallbackDefers,
       Finish, Release, DispatchReturns, Goto
  <2> QED
    BY <1>a, <2>1, UnmetKept
<1> QED
  BY <1>1, <1>2, <1>3, <1>4, <1>5 DEF Next

\* While the game thread stays alone it was alone, and only it and the game move.
LEMMA AloneStep ==
  ASSUME TypeInv, Unmet, [Next]_vars, GameThreadAlone'
  PROVE  /\ GameThreadAlone
         /\ UNCHANGED vars \/ Game \/ Publish(Sim) \/ Dispatch(Sim)
<1> USE DEF gameOnly, dispatchOnly, eventVars, scopeVars, slotVars
<1>a. \A t \in Pollers : pc'[t] = "idle" /\ consumer'[t].path = NoSave
  BY SMT DEF GameThreadAlone, NewConsumer
<1>b. /\ pc \in [Threads -> Labels] /\ consumer \in [Pollers -> ConsumerType]
      /\ game.save \in Saves /\ game.save # NoSave
  BY DateTickAssumption, SMT DEF TypeInv, TypeOK, GameType
<1>1. ASSUME NEW t \in Pollers, SaveEnter(t) \/ Publish(t) \/ Dispatch(t) PROVE FALSE
  <2>1. CASE ConsumerPoll(t)
    BY <1>a, <1>b, <2>1, SMT DEF ConsumerPoll
  <2>2. CASE ~ConsumerPoll(t)
    <3>1. pc[t] # "idle"
      BY <1>1, <2>2 DEF SaveEnter, EnterScope, ScopeReset, ReadToday, ConsumerPeek,
         Publish, ReadPath, Refresh, ZeroLast, RefreshReset, Decide,
         CompareExchange, Reserve, RecordAccept, WriteSlot, Bump, CompareLatest,
         Dispatch, Check, Claim, Recheck, CallbackDone, CallbackDefers,
         Finish, Release, DispatchReturns, Goto
    <3>2. consumer[t].path # NoSave
      BY <3>1 DEF Unmet
    <3>3. CASE ConsumerPeek(t)
      <4>1. consumer'[t].path = consumer[t].path
        BY <1>b, <3>3, SMT DEF ConsumerPeek
      <4> QED
        BY <1>a, <3>2, <4>1
    <3>4. CASE ~ConsumerPeek(t)
      <4>1. UNCHANGED consumer
        BY <1>1, <2>2, <3>4 DEF SaveEnter, EnterScope, ScopeReset, ReadToday,
         Publish, ReadPath, Refresh, ZeroLast, RefreshReset, Decide,
         CompareExchange, Reserve, RecordAccept, WriteSlot, Bump, CompareLatest,
         Dispatch, Check, Claim, Recheck, CallbackDone, CallbackDefers,
         Finish, Release, DispatchReturns
      <4> QED
        BY <1>a, <3>2, <4>1
    <3> QED
      BY <3>3, <3>4
  <2> QED
    BY <2>1, <2>2
<1>2. UNCHANGED vars \/ Game \/ Publish(Sim) \/ Dispatch(Sim)
  BY <1>1 DEF Next, Threads
<1>3. UNCHANGED consumer
  BY <1>2 DEF vars, Game, FinishLoad, LoadSave, LoadDone, AdvanceDay, ReportAgain,
     Publish, ReadPath, Refresh, ZeroLast, RefreshReset, Decide,
     CompareExchange, Reserve, RecordAccept, WriteSlot, Bump, CompareLatest,
     Dispatch, Check, Claim, Recheck, CallbackDone, CallbackDefers,
     Finish, Release, DispatchReturns
<1>4. \A t \in Pollers : consumer[t] = NewConsumer /\ pc[t] = "idle"
  BY <1>a, <1>3 DEF Unmet
<1> QED
  BY <1>2, <1>4 DEF GameThreadAlone

\* A poller's step leaves the game thread and the game as they are.
LEMMA PollerSteps ==
  ASSUME TypeInv, NEW t \in Pollers, SaveEnter(t) \/ Publish(t) \/ Dispatch(t)
  PROVE  /\ pc'[Sim] = pc[Sim] /\ local'[Sim] = local[Sim]
         /\ game'.save = game.save /\ game'.date = game.date /\ game'.loads = game.loads
<1> USE DEF gameOnly, dispatchOnly, eventVars, scopeVars, slotVars
<1>a. Sim \in Threads /\ Sim # t /\ t \in Threads
  BY DateTickAssumption DEF Threads
<1>b. pc \in [Threads -> Labels] /\ local \in [Threads -> LocalType] /\ game \in GameType
  BY DEF TypeInv, TypeOK
<1>1. CASE CallbackDefers(t)
  BY <1>a, <1>b, <1>1, SMT DEF CallbackDefers, Goto, GameType
<1>2. CASE ~CallbackDefers(t)
  <2>1. UNCHANGED game /\ \A u \in Threads \ {t} : pc'[u] = pc[u] /\ local'[u] = local[u]
    <3>1. CASE SaveEnter(t)
      BY <1>a, <1>b, <3>1 DEF SaveEnter, ConsumerPoll, EnterScope, ScopeReset,
         ReadToday, ConsumerPeek, Goto
    <3>2. CASE Publish(t)
      BY <1>a, <1>b, <3>2 DEF Publish, ReadPath, Refresh, ZeroLast, RefreshReset, Decide,
         CompareExchange, Reserve, RecordAccept, WriteSlot, Bump, CompareLatest, Goto
    <3>3. CASE Dispatch(t)
      BY <1>a, <1>b, <1>2, <3>3 DEF Dispatch, Check, Claim, Recheck, CallbackDone,
         Finish, Release, DispatchReturns, Goto
    <3> QED
      BY <3>1, <3>2, <3>3
  <2> QED
    BY <1>a, <2>1
<1> QED
  BY <1>1, <1>2

\* What an assignment to one field leaves of the others.
LEMMA LocalRest ==
    \A r \in LocalType : \A v :
      /\ [r EXCEPT !.date = v].date = v
      /\ [r EXCEPT !.date = v].slot = r.slot
      /\ [r EXCEPT !.date = v].complete = r.complete
      /\ [r EXCEPT !.path = v].path = v
      /\ [r EXCEPT !.path = v].date = r.date
      /\ [r EXCEPT !.path = v].seen = r.seen
      /\ [r EXCEPT !.path = v].event = r.event
      /\ [r EXCEPT !.path = v].epoch = r.epoch
      /\ [r EXCEPT !.path = v].slot = r.slot
      /\ [r EXCEPT !.path = v].complete = r.complete
      /\ [r EXCEPT !.seen = v].seen = v
      /\ [r EXCEPT !.seen = v].date = r.date
      /\ [r EXCEPT !.seen = v].path = r.path
      /\ [r EXCEPT !.seen = v].slot = r.slot
      /\ [r EXCEPT !.seen = v].complete = r.complete
      /\ [r EXCEPT !.event = v].event = v
      /\ [r EXCEPT !.event = v].date = r.date
      /\ [r EXCEPT !.event = v].path = r.path
      /\ [r EXCEPT !.event = v].slot = r.slot
      /\ [r EXCEPT !.event = v].complete = r.complete
      /\ [r EXCEPT !.epoch = v].epoch = v
      /\ [r EXCEPT !.epoch = v].event = r.event
      /\ [r EXCEPT !.epoch = v].date = r.date
      /\ [r EXCEPT !.epoch = v].slot = r.slot
      /\ [r EXCEPT !.epoch = v].complete = r.complete
  BY SMT DEF LocalType

LEMMA DispatchRest ==
    \A r \in LocalType : \A v :
      /\ [r EXCEPT !.slot = v].slot = v
      /\ [r EXCEPT !.slot = v].date = r.date
      /\ [r EXCEPT !.slot = v].complete = r.complete
      /\ [r EXCEPT !.load = v].load = v
      /\ [r EXCEPT !.load = v].date = r.date
      /\ [r EXCEPT !.load = v].slot = r.slot
      /\ [r EXCEPT !.load = v].complete = r.complete
      /\ [r EXCEPT !.ok = v].ok = v
      /\ [r EXCEPT !.ok = v].date = r.date
      /\ [r EXCEPT !.ok = v].slot = r.slot
      /\ [r EXCEPT !.ok = v].load = r.load
      /\ [r EXCEPT !.ok = v].complete = r.complete
      /\ [r EXCEPT !.complete = v].complete = v
      /\ [r EXCEPT !.complete = v].date = r.date
      /\ [r EXCEPT !.complete = v].slot = r.slot
      /\ [r EXCEPT !.complete = v].ok = r.ok
      /\ \A w : /\ [r EXCEPT !.slot = v, !.complete = w].slot = v
                /\ [r EXCEPT !.slot = v, !.complete = w].complete = w
                /\ [r EXCEPT !.slot = v, !.complete = w].date = r.date
                /\ [r EXCEPT !.slot = v, !.ok = w].slot = v
                /\ [r EXCEPT !.slot = v, !.ok = w].date = r.date
                /\ [r EXCEPT !.slot = v, !.ok = w].complete = r.complete
  BY SMT DEF LocalType

Mine == local[Sim]
At(from, to) == /\ pc[Sim] = from
                /\ pc'[Sim] = to
                /\ \A t \in Pollers : pc'[t] = pc[t]
\* The part of the locals the dispatch uses, and the day of the call.
KeepsDispatch == /\ Mine'.slot = Mine.slot
                 /\ Mine'.complete = Mine.complete
KeepsDay == Mine'.date = Mine.date

pubKept == <<game, done, consumer, writeCursor, published, ring, lastDispatched>>
slotsKept == <<game, consumer, lastPublished, writeCursor, published, ring, boundary>>

LEMMA SimAt ==
  ASSUME TypeInv
  PROVE  /\ Mine \in LocalType
         /\ \A from, to : Goto(Sim, from, to) => At(from, to)
         /\ \A r : local' = [local EXCEPT ![Sim] = r] => Mine' = r
<1>a. Sim \in Threads /\ Sim \notin Pollers /\ Pollers \subseteq Threads
  BY DateTickAssumption DEF Threads
<1> QED
  BY <1>a DEF Goto, At, Mine, TypeInv, TypeOK

\* The game thread's steps, one by one.
LEMMA SimReadPath ==
  ASSUME TypeInv, ReadPath(Sim)
  PROVE  /\ At("readPath", "refresh") \/ At("acceptPath", "accept")
         /\ Mine'.path = game.save /\ Mine'.event = Mine.event
         /\ KeepsDispatch /\ KeepsDay
         /\ UNCHANGED <<pubKept, lastPublished, boundary>>
<1>1. Mine' = [Mine EXCEPT !.path = game.save]
  BY SimAt DEF ReadPath, Mine, MySlot
<1>2. Mine'.path = game.save /\ Mine'.event = Mine.event /\ KeepsDispatch /\ KeepsDay
  BY <1>1, SimAt, LocalRest DEF KeepsDispatch, KeepsDay
<1> QED
  BY <1>2, SimAt DEF ReadPath, Mine, gameOnly, dispatchOnly, eventVars,
     scopeVars, slotVars, pubKept, slotsKept

LEMMA SimRefresh ==
  ASSUME TypeInv, Refresh(Sim)
  PROVE  /\ At("refresh", IF Mine.path # boundary.path THEN "zero" ELSE "decide")
         /\ boundary' = IF Mine.path # boundary.path
                           THEN [path |-> Mine.path, epoch |-> boundary.epoch + 1]
                           ELSE boundary
         /\ UNCHANGED <<pubKept, Mine, lastPublished>>
  BY SimAt DEF Refresh, ScopeChanged, RefreshedBoundary, Mine, gameOnly, dispatchOnly, eventVars, scopeVars,
     slotVars, pubKept, slotsKept, KeepsDispatch, KeepsDay

LEMMA SimZeroLast ==
  ASSUME TypeInv, ZeroLast(Sim)
  PROVE  /\ At("zero", "refreshReset")
         /\ lastPublished' = 0
         /\ UNCHANGED <<pubKept, Mine, boundary>>
  BY SimAt DEF ZeroLast, Mine, gameOnly, dispatchOnly, eventVars, scopeVars,
     slotVars, pubKept, slotsKept, KeepsDispatch, KeepsDay

LEMMA SimRefreshReset ==
  ASSUME TypeInv, RefreshReset(Sim)
  PROVE  /\ At("refreshReset", "decide")
         /\ lastDispatched' = [i \in Slots |-> 0]
         /\ UNCHANGED <<slotsKept, done, Mine>>
  BY SimAt DEF RefreshReset, ResetSyncDates, Mine, gameOnly, dispatchOnly, eventVars, scopeVars,
     slotVars, pubKept, slotsKept, KeepsDispatch, KeepsDay

LEMMA SimDecide ==
  ASSUME TypeInv, Decide(Sim)
  PROVE  /\ \/ /\ At("decide", "latest")
               /\ \/ lastPublished = Mine.date
                  \/ lastPublished # 0 /\ Mine.date # lastPublished + 1
            \/ /\ At("decide", "cas")
               /\ lastPublished # Mine.date
               /\ lastPublished = 0 \/ Mine.date = lastPublished + 1
         /\ Mine'.seen = lastPublished /\ KeepsDispatch /\ KeepsDay
         /\ UNCHANGED <<pubKept, lastPublished, boundary>>
<1>1. Mine' = [Mine EXCEPT !.seen = lastPublished]
  BY SimAt DEF Decide, Mine
<1>2. Mine'.seen = lastPublished /\ KeepsDispatch /\ KeepsDay
  BY <1>1, SimAt, LocalRest DEF KeepsDispatch, KeepsDay
<1>3. \/ /\ At("decide", "latest")
         /\ \/ lastPublished = Mine.date
            \/ lastPublished # 0 /\ Mine.date # lastPublished + 1
      \/ /\ At("decide", "cas")
         /\ lastPublished # Mine.date
         /\ lastPublished = 0 \/ Mine.date = lastPublished + 1
  <2>1. CASE Duplicate(Sim)
    BY <2>1, SimAt DEF Decide, Duplicate, Rejected, Mine
  <2>2. CASE ~Duplicate(Sim) /\ Acceptable(Sim)
    BY <2>2, SimAt DEF Decide, Duplicate, Acceptable, Mine
  <2>3. CASE ~Duplicate(Sim) /\ ~Acceptable(Sim)
    BY <2>3, SimAt DEF Decide, Acceptable, Rejected, Mine
  <2> QED
    BY <2>1, <2>2, <2>3
<1> QED
  BY <1>2, <1>3 DEF Decide, gameOnly, dispatchOnly, eventVars,
     scopeVars, slotVars, pubKept, slotsKept

LEMMA SimCompareExchange ==
  ASSUME TypeInv, CompareExchange(Sim)
  PROVE  /\ \/ /\ At("cas", "reserve")
               /\ lastPublished = Mine.seen /\ lastPublished' = Mine.date
            \/ /\ At("cas", "decide")
               /\ lastPublished # Mine.seen /\ UNCHANGED lastPublished
         /\ UNCHANGED <<pubKept, Mine, boundary>>
  BY SimAt DEF CompareExchange, Mine, gameOnly, dispatchOnly, eventVars, scopeVars,
     slotVars, pubKept, slotsKept, KeepsDispatch, KeepsDay

LEMMA SimReserve ==
  ASSUME TypeInv, Reserve(Sim)
  PROVE  /\ At("reserve", "acceptPath")
         /\ Mine'.event = writeCursor /\ writeCursor' = writeCursor + 1
         /\ KeepsDispatch /\ KeepsDay
         /\ UNCHANGED <<game, done, consumer, published, ring, lastDispatched,
                        lastPublished, boundary>>
<1>1. Mine' = [Mine EXCEPT !.event = writeCursor]
  BY SimAt DEF Reserve, Mine
<1> QED
  BY <1>1, SimAt, LocalRest DEF Reserve, gameOnly, dispatchOnly, eventVars, scopeVars,
     slotVars, pubKept, slotsKept, KeepsDispatch, KeepsDay

LEMMA SimRecordAccept ==
  ASSUME TypeInv, RecordAccept(Sim)
  PROVE  /\ At("accept", "write")
         /\ boundary' = IF Mine.path # boundary.path
                           THEN [path |-> Mine.path, epoch |-> boundary.epoch + 1]
                           ELSE boundary
         /\ Mine'.epoch = boundary'.epoch /\ Mine'.event = Mine.event
         /\ KeepsDispatch /\ KeepsDay
         /\ UNCHANGED <<pubKept, lastPublished>>
<1>1. Mine' = [Mine EXCEPT !.epoch = boundary'.epoch]
  BY SimAt DEF RecordAccept, Mine, MySlot
<1>2. Mine'.epoch = boundary'.epoch /\ Mine'.event = Mine.event /\ KeepsDispatch /\ KeepsDay
  BY <1>1, SimAt, LocalRest DEF KeepsDispatch, KeepsDay
<1> QED
  BY <1>2, SimAt DEF RecordAccept, Mine, gameOnly, dispatchOnly, eventVars,
     scopeVars, slotVars, pubKept, slotsKept, ScopeChanged, RefreshedBoundary

LEMMA SimWriteSlot ==
  ASSUME TypeInv, WriteSlot(Sim)
  PROVE  /\ At("write", "bump")
         /\ ring' = [ring EXCEPT ![RingIndex(Mine.event)] =
                        [date |-> Mine.date, epoch |-> Mine.epoch]]
         /\ UNCHANGED <<game, done, consumer, writeCursor, published, lastDispatched,
                        Mine, lastPublished, boundary>>
  BY SimAt DEF WriteSlot, Mine, gameOnly, dispatchOnly, eventVars, scopeVars,
     slotVars, pubKept, slotsKept, KeepsDispatch, KeepsDay

LEMMA SimBump ==
  ASSUME TypeInv, Bump(Sim)
  PROVE  /\ At("bump", "latest")
         /\ published' = published + 1
         /\ UNCHANGED <<game, done, consumer, writeCursor, ring, lastDispatched,
                        Mine, lastPublished, boundary>>
  BY SimAt DEF Bump, Mine, gameOnly, dispatchOnly, eventVars, scopeVars,
     slotVars, pubKept, slotsKept, KeepsDispatch, KeepsDay

LEMMA SimCompareLatest ==
  ASSUME TypeInv, CompareLatest(Sim)
  PROVE  /\ \/ At("latest", "check") /\ lastPublished = Mine.date /\ UNCHANGED Mine
            \/ At("latest", "idle") /\ lastPublished # Mine.date /\ Mine' = NoLocals
         /\ UNCHANGED <<pubKept, lastPublished, boundary>>
  BY SimAt DEF CompareLatest, Mine, gameOnly, dispatchOnly, eventVars, scopeVars,
     slotVars, pubKept, slotsKept, KeepsDispatch, KeepsDay

LEMMA SimCheck ==
  ASSUME TypeInv, Check(Sim)
  PROVE  /\ Mine.slot \in Slots
         /\ \/ /\ At("check", "check") /\ lastDispatched[Mine.slot] = Mine.date
               /\ Mine'.slot = Mine.slot + 1 /\ Mine'.complete = Mine.complete
               /\ KeepsDay
            \/ /\ At("check", "claim") /\ lastDispatched[Mine.slot] # Mine.date
               /\ UNCHANGED Mine
         /\ UNCHANGED <<slotsKept, done, lastDispatched>>
<1>1. CASE lastDispatched[Mine.slot] = Mine.date
  <2>1. Mine' = [Mine EXCEPT !.slot = Mine.slot + 1]
    BY <1>1, SimAt DEF Check, Mine, MySlot
  <2>2. Mine'.slot = Mine.slot + 1 /\ Mine'.complete = Mine.complete /\ KeepsDay
    BY <2>1, SimAt, DispatchRest DEF KeepsDispatch, KeepsDay
  <2> QED
    BY <1>1, <2>1, <2>2, SimAt DEF Check, Mine, MySlot, gameOnly, dispatchOnly, eventVars,
     scopeVars, slotVars, pubKept, slotsKept
<1>2. CASE lastDispatched[Mine.slot] # Mine.date
  <2>1. Mine' = Mine
    BY <1>2, SimAt DEF Check, Mine, MySlot
  <2>2. UNCHANGED Mine
    BY <2>1, SimAt, DispatchRest DEF KeepsDispatch, KeepsDay
  <2> QED
    BY <1>2, <2>1, <2>2, SimAt DEF Check, Mine, MySlot, gameOnly, dispatchOnly, eventVars,
     scopeVars, slotVars, pubKept, slotsKept
<1> QED
  BY <1>1, <1>2 DEF Check

LEMMA SimClaim ==
  ASSUME TypeInv, Claim(Sim)
  PROVE  /\ \/ At("claim", "recheck") /\ UNCHANGED Mine
            \/ At("claim", "check") /\ Mine'.slot = Mine.slot + 1 /\ ~Mine'.complete
         /\ KeepsDay
         /\ UNCHANGED <<slotsKept, done, lastDispatched>>
<1>1. CASE processing[Mine.slot] = 0
  <2>1. Mine' = Mine
    BY <1>1, SimAt DEF Claim, Mine, MySlot
  <2>2. UNCHANGED Mine /\ KeepsDay
    BY <2>1, SimAt, DispatchRest DEF KeepsDispatch, KeepsDay
  <2> QED
    BY <1>1, <2>1, <2>2, SimAt DEF Claim, Mine, MySlot, gameOnly, dispatchOnly, eventVars,
     scopeVars, slotVars, pubKept, slotsKept
<1>2. CASE processing[Mine.slot] # 0
  <2>1. Mine' = [Mine EXCEPT !.slot = Mine.slot + 1, !.complete = FALSE]
    BY <1>2, SimAt DEF Claim, Mine, MySlot
  <2>2. Mine'.slot = Mine.slot + 1 /\ ~Mine'.complete /\ KeepsDay
    BY <2>1, SimAt, DispatchRest DEF KeepsDispatch, KeepsDay
  <2> QED
    BY <1>2, <2>1, <2>2, SimAt DEF Claim, Mine, MySlot, gameOnly, dispatchOnly, eventVars,
     scopeVars, slotVars, pubKept, slotsKept
<1> QED
  BY <1>1, <1>2 DEF Claim

LEMMA SimRecheck ==
  ASSUME TypeInv, Recheck(Sim)
  PROVE  /\ \/ At("recheck", "finish") /\ lastDispatched[Mine.slot] = Mine.date /\ Mine'.ok
            \/ /\ At("recheck", "callback") /\ lastDispatched[Mine.slot] # Mine.date
               /\ Mine'.load = game.loads
         /\ KeepsDispatch /\ KeepsDay
         /\ UNCHANGED <<slotsKept, done, lastDispatched>>
<1>1. CASE lastDispatched[Mine.slot] = Mine.date
  <2>1. Mine' = [Mine EXCEPT !.ok = TRUE]
    BY <1>1, SimAt DEF Recheck, Mine, MySlot
  <2>2. Mine'.ok /\ KeepsDispatch /\ KeepsDay
    BY <2>1, SimAt, DispatchRest DEF KeepsDispatch, KeepsDay
  <2> QED
    BY <1>1, <2>1, <2>2, SimAt DEF Recheck, Mine, MySlot, gameOnly, dispatchOnly, eventVars,
     scopeVars, slotVars, pubKept, slotsKept
<1>2. CASE lastDispatched[Mine.slot] # Mine.date
  <2>1. Mine' = [Mine EXCEPT !.load = game.loads]
    BY <1>2, SimAt DEF Recheck, Mine, MySlot
  <2>2. Mine'.load = game.loads /\ KeepsDispatch /\ KeepsDay
    BY <2>1, SimAt, DispatchRest DEF KeepsDispatch, KeepsDay
  <2> QED
    BY <1>2, <2>1, <2>2, SimAt DEF Recheck, Mine, MySlot, gameOnly, dispatchOnly, eventVars,
     scopeVars, slotVars, pubKept, slotsKept
<1> QED
  BY <1>1, <1>2 DEF Recheck

LEMMA SimCallbackDone ==
  ASSUME TypeInv, CallbackDone(Sim)
  PROVE  /\ At("callback", "finish") /\ Mine'.ok
         /\ done' = done \cup {<<Mine.slot, Mine.load, Mine.date>>}
         /\ KeepsDispatch /\ KeepsDay
         /\ UNCHANGED <<slotsKept, lastDispatched>>
<1>1. Mine' = [Mine EXCEPT !.ok = TRUE]
  BY SimAt DEF CallbackDone, Mine, MySlot
<1>2. Mine'.ok /\ KeepsDispatch /\ KeepsDay
  BY <1>1, SimAt, DispatchRest DEF KeepsDispatch, KeepsDay
<1> QED
  BY <1>2, SimAt DEF CallbackDone, Mine, gameOnly, dispatchOnly, eventVars,
     scopeVars, slotVars, pubKept, slotsKept, MySlot

LEMMA SimCallbackDefers ==
  ASSUME TypeInv, CallbackDefers(Sim)
  PROVE  /\ At("callback", "finish") /\ ~Mine'.ok
         /\ game'.save = game.save /\ game'.date = game.date /\ game'.loads = game.loads
         /\ KeepsDispatch /\ KeepsDay
         /\ UNCHANGED <<done, lastDispatched, consumer, lastPublished, writeCursor,
                        published, ring, boundary>>
<1>1. Mine' = [Mine EXCEPT !.ok = FALSE]
  BY SimAt DEF CallbackDefers, Mine
<1>2. ~Mine'.ok /\ KeepsDispatch /\ KeepsDay
  BY <1>1, SimAt, DispatchRest DEF KeepsDispatch, KeepsDay
<1>3. game'.save = game.save /\ game'.date = game.date /\ game'.loads = game.loads
  BY SMT DEF CallbackDefers, GameType, TypeInv, TypeOK
<1> QED
  BY <1>2, <1>3, SimAt DEF CallbackDefers, gameOnly, dispatchOnly, eventVars,
     scopeVars, slotVars, pubKept, slotsKept

LEMMA SimFinish ==
  ASSUME TypeInv, Finish(Sim)
  PROVE  /\ At("finish", "release")
         /\ \/ /\ Mine.ok
               /\ lastDispatched' = [lastDispatched EXCEPT ![Mine.slot] = Mine.date]
               /\ UNCHANGED Mine
            \/ /\ ~Mine.ok /\ ~Mine'.complete /\ Mine'.slot = Mine.slot
               /\ UNCHANGED lastDispatched
         /\ KeepsDay
         /\ UNCHANGED <<slotsKept, done>>
<1>1. CASE Mine.ok
  <2>1. Mine' = Mine
    BY <1>1, SimAt DEF Finish, Mine, MySlot
  <2>2. UNCHANGED Mine /\ KeepsDay
    BY <2>1, SimAt, DispatchRest DEF KeepsDispatch, KeepsDay
  <2> QED
    BY <1>1, <2>1, <2>2, SimAt DEF Finish, Mine, MySlot, gameOnly, dispatchOnly, eventVars,
     scopeVars, slotVars, pubKept, slotsKept
<1>2. CASE ~Mine.ok
  <2>1. Mine' = [Mine EXCEPT !.complete = FALSE]
    BY <1>2, SimAt DEF Finish, Mine, MySlot
  <2>2. ~Mine'.complete /\ Mine'.slot = Mine.slot /\ KeepsDay
    BY <2>1, SimAt, DispatchRest DEF KeepsDispatch, KeepsDay
  <2> QED
    BY <1>2, <2>1, <2>2, SimAt DEF Finish, Mine, MySlot, gameOnly, dispatchOnly, eventVars,
     scopeVars, slotVars, pubKept, slotsKept
<1> QED
  BY <1>1, <1>2 DEF Finish

LEMMA SimRelease ==
  ASSUME TypeInv, Release(Sim)
  PROVE  /\ At("release", "check")
         /\ Mine'.slot = Mine.slot + 1 /\ Mine'.complete = Mine.complete
         /\ KeepsDay
         /\ UNCHANGED <<slotsKept, done, lastDispatched>>
<1>1. Mine' = [Mine EXCEPT !.slot = Mine.slot + 1, !.ok = FALSE]
  BY SimAt DEF Release, Mine, MySlot
<1>2. Mine'.slot = Mine.slot + 1 /\ Mine'.complete = Mine.complete /\ KeepsDay
  BY <1>1, SimAt, DispatchRest DEF KeepsDispatch, KeepsDay
<1> QED
  BY <1>2, SimAt DEF Release, Mine, gameOnly, dispatchOnly, eventVars,
     scopeVars, slotVars, pubKept, slotsKept

LEMMA SimDispatchReturns ==
  ASSUME TypeInv, DispatchReturns(Sim)
  PROVE  /\ At("check", "idle") /\ Mine' = NoLocals
         /\ UNCHANGED <<slotsKept, done, lastDispatched>>
  BY SimAt DEF DispatchReturns, Mine, gameOnly, dispatchOnly, eventVars, scopeVars,
     slotVars, pubKept, slotsKept, KeepsDispatch, KeepsDay

-----------------------------------------------------------------------------
(***************************************************************************)
(* Where the game thread is, and the date it carries, while it is alone.   *)
(***************************************************************************)

\* The hook or the watchpoint calls with the date the game shows.
LEMMA SimReports ==
  ASSUME TypeInv, AdvanceDay \/ ReportAgain
  PROVE  /\ At("idle", "readPath")
         /\ game.date # 0 /\ game'.date # 0 /\ Mine'.date = game'.date
         /\ \/ UNCHANGED game
            \/ game'.date = game.date + 1
         /\ game'.save = game.save /\ game'.loads = game.loads
         /\ game.date \in Nat /\ game'.date \in Nat /\ KeepsDispatch
         /\ UNCHANGED <<done, consumer, lastPublished, writeCursor, published, ring,
                        boundary, lastDispatched>>
<1>0. game \in GameType /\ game.date \in Nat
  BY SMT DEF TypeInv, TypeOK, GameType, DatesOrNone
<1>1. \/ AdvanceDay /\ Mine' = [Mine EXCEPT !.date = game.date + 1]
      \/ ReportAgain /\ Mine' = [Mine EXCEPT !.date = game.date]
  BY SimAt DEF AdvanceDay, ReportAgain, Mine
<1>2. CASE AdvanceDay /\ Mine' = [Mine EXCEPT !.date = game.date + 1]
  <2>1. /\ game'.date = game.date + 1 /\ game'.save = game.save
        /\ game'.loads = game.loads /\ game.date # 0
    BY <1>0, <1>2, SMT DEF AdvanceDay, GameType
  <2>2. Mine'.date = game.date + 1 /\ KeepsDispatch
    BY <1>2, SimAt, LocalRest DEF KeepsDispatch
  <2>3. game.date + 1 # 0 /\ game.date + 1 \in Nat
    BY <1>0
  <2>4. At("idle", "readPath") /\ UNCHANGED gameOnly
    BY <1>2, SimAt DEF AdvanceDay
  <2> QED
    BY <1>0, <2>1, <2>2, <2>3, <2>4 DEF gameOnly, eventVars, scopeVars, slotVars
<1>3. CASE ReportAgain /\ Mine' = [Mine EXCEPT !.date = game.date]
  <2>2. Mine'.date = game.date /\ KeepsDispatch
    BY <1>3, SimAt, LocalRest DEF KeepsDispatch
  <2>4. At("idle", "readPath") /\ UNCHANGED <<game, gameOnly>> /\ game.date # 0
    BY <1>3, SimAt DEF ReportAgain
  <2> QED
    BY <1>0, <2>2, <2>4 DEF gameOnly, eventVars, scopeVars, slotVars
<1> QED
  BY <1>1, <1>2, <1>3

Dispatching == {"check", "claim", "recheck", "callback", "finish", "release"}

\* The game thread's call is about the day the game shows; no load interrupts it,
\* and it dispatches from the first slot on.
SimHere ==
    /\ pc[Sim] # "idle" => game.date # 0 /\ Mine.date = game.date
    /\ pc[Sim] \in {"refresh", "accept"} => Mine.path = game.save
    /\ pc[Sim] \notin Dispatching => Mine.slot = 1 /\ Mine.complete
    /\ pc[Sim] = "callback" => Mine.load = game.loads

LEMMA Fresh == NoLocals.slot = 1 /\ NoLocals.complete
  BY DEF NoLocals

LEMMA SimHereStep == TypeInv /\ SimHere /\ [Next]_vars => SimHere'
<1> SUFFICES ASSUME TypeInv, SimHere, [Next]_vars PROVE SimHere'
  OBVIOUS
<1>1. CASE UNCHANGED vars
  BY <1>1 DEF vars, SimHere, Mine
<1>2. CASE Game
  <2>1. ASSUME NEW s \in Saves, LoadSave(s) PROVE SimHere'
    BY <2>1 DEF LoadSave, SimHere, Mine, Dispatching
  <2>2. ASSUME NEW d \in Dates, LoadDone(d) PROVE SimHere'
    BY <2>2 DEF LoadDone, SimHere, Mine, Dispatching
  <2>3. CASE AdvanceDay \/ ReportAgain
    BY <2>3, SimReports DEF SimHere, At, KeepsDispatch, Dispatching
  <2> QED
    BY <1>2, <2>1, <2>2, <2>3 DEF Game, FinishLoad
<1>3. ASSUME NEW t \in Pollers, SaveEnter(t) \/ Publish(t) \/ Dispatch(t) PROVE SimHere'
  BY <1>3, PollerSteps DEF SimHere, Mine
<1>4. CASE Publish(Sim)
  <2> USE DEF SimHere, At, KeepsDispatch, KeepsDay, Dispatching, pubKept
  <2>1. CASE ReadPath(Sim)
    BY <2>1, SimReadPath
  <2>2. CASE Refresh(Sim)
    BY <2>2, SimRefresh
  <2>3. CASE ZeroLast(Sim)
    BY <2>3, SimZeroLast
  <2>4. CASE RefreshReset(Sim)
    BY <2>4, SimRefreshReset DEF slotsKept
  <2>5. CASE Decide(Sim)
    BY <2>5, SimDecide
  <2>6. CASE CompareExchange(Sim)
    BY <2>6, SimCompareExchange
  <2>7. CASE Reserve(Sim)
    BY <2>7, SimReserve
  <2>8. CASE RecordAccept(Sim)
    BY <2>8, SimRecordAccept
  <2>9. CASE WriteSlot(Sim)
    BY <2>9, SimWriteSlot
  <2>10. CASE Bump(Sim)
    BY <2>10, SimBump
  <2>11. CASE CompareLatest(Sim)
    BY <2>11, SimCompareLatest, Fresh
  <2> QED
    BY <1>4, <2>1, <2>2, <2>3, <2>4, <2>5, <2>6, <2>7, <2>8, <2>9, <2>10, <2>11 DEF Publish
<1>5. CASE Dispatch(Sim)
  <2> USE DEF SimHere, At, KeepsDispatch, KeepsDay, Dispatching, slotsKept
  <2>1. CASE Check(Sim)
    BY <2>1, SimCheck
  <2>2. CASE Claim(Sim)
    BY <2>2, SimClaim
  <2>3. CASE Recheck(Sim)
    BY <2>3, SimRecheck
  <2>4. CASE CallbackDone(Sim)
    BY <2>4, SimCallbackDone
  <2>5. CASE CallbackDefers(Sim)
    BY <2>5, SimCallbackDefers
  <2>6. CASE Finish(Sim)
    BY <2>6, SimFinish
  <2>7. CASE Release(Sim)
    BY <2>7, SimRelease
  <2>8. CASE DispatchReturns(Sim)
    BY <2>8, SimDispatchReturns, Fresh
  <2> QED
    BY <1>5, <2>1, <2>2, <2>3, <2>4, <2>5, <2>6, <2>7, <2>8 DEF Dispatch
<1> QED
  BY <1>1, <1>2, <1>3, <1>4, <1>5 DEF Next, Threads

LEMMA SimHereInit == Init => SimHere
  BY Fresh DEF Init, SimHere, Mine, Threads

-----------------------------------------------------------------------------
(***************************************************************************)
(* What the loaded game has done, while the game thread is alone.          *)
(***************************************************************************)
DoneHere(i, d) == <<i, game.loads, d>> \in done
Scoped == {"decide", "cas", "reserve", "acceptPath", "accept", "write", "bump",
           "latest"} \cup Dispatching
Resetting == {"zero", "refreshReset"}

\* The work is of loads up to this one.
DonePast == \A i, n, d : <<i, n, d>> \in done => n <= game.loads

\* Past the refresh the boundary is in the loaded save.
InScope == pc[Sim] \in Scoped \cup Resetting => boundary.path = game.save

\* Before a loaded save is in scope, with its slots reset, nothing was done in it.
NothingYet ==
    game.date = 0 \/ boundary.path # game.save \/ pc[Sim] \in Resetting =>
        \A i \in Slots, d \in DatesOrNone : ~DoneHere(i, d)

\* What was done is recorded, or about to be, and the record is not of a later day.
DoneShows ==
    \A i \in Slots, d \in DatesOrNone : DoneHere(i, d) =>
        /\ d <= game.date
        /\ \/ pc[Sim] = "finish" /\ Mine.ok /\ Mine.slot = i
           \/ d <= lastDispatched[i] /\ lastDispatched[i] <= game.date

\* The callback runs for a date that is not recorded.
NotRecorded == pc[Sim] = "callback" => lastDispatched[Mine.slot] # Mine.date

DoneInv == DonePast /\ InScope /\ NothingYet /\ DoneShows /\ NotRecorded

\* The game thread moves on without touching the record.
LEMMA DoneKept ==
  ASSUME DoneInv, UNCHANGED <<done, lastDispatched>>, game'.save = game.save,
         game'.loads = game.loads, boundary'.path = boundary.path,
         NEW from, NEW to, At(from, to),
         game'.date = game.date,
         to \in Resetting => from \in Resetting,
         to \in Scoped => boundary.path = game.save,
         from = "finish" => ~Mine.ok,
         to = "callback" => lastDispatched[Mine'.slot] # Mine'.date
  PROVE  DoneInv'
<1>1. DonePast'
  BY DEF DoneInv, DonePast
<1>2. InScope'
  BY DEF DoneInv, InScope, At
<1>3. NothingYet'
  BY DEF DoneInv, NothingYet, DoneHere, At
<1>4. \A i \in Slots, d \in DatesOrNone : <<i, game.loads, d>> \in done =>
        d <= game.date /\ d <= lastDispatched[i] /\ lastDispatched[i] <= game.date
  BY DEF DoneInv, DoneShows, DoneHere, At
<1>5. DoneShows'
  BY <1>4 DEF DoneShows, DoneHere
<1>6. NotRecorded'
  BY DEF NotRecorded, At
<1> QED
  BY <1>1, <1>2, <1>3, <1>5, <1>6 DEF DoneInv

\* The typed facts these steps use.
LEMMA SimTyped ==
  ASSUME TypeInv
  PROVE  /\ game.loads \in Nat /\ game.date \in Nat /\ game.date \in DatesOrNone
         /\ game.save \in Saves
         /\ Mine.date \in Nat /\ Mine.date \in DatesOrNone
         /\ Mine.slot \in 1 .. SlotCount + 1 /\ Mine.slot \in Nat
         /\ pc[Sim] \in Claimed => Mine.slot \in Slots
         /\ lastDispatched \in [Slots -> DatesOrNone]
         /\ \A d \in DatesOrNone : d \in Nat
         /\ Mine.ok \in BOOLEAN
         /\ boundary.epoch \in Nat
<1>1. /\ game \in GameType /\ boundary \in BoundaryType
      /\ lastDispatched \in [Slots -> DatesOrNone]
      /\ pc[Sim] \in Claimed => Mine.slot \in Slots
  BY DEF TypeInv, TypeOK, SlotDates, SlotChosen, Mine, Threads
<1>2. \A d \in DatesOrNone : d \in Nat
  BY DateTickAssumption, SMT DEF DatesOrNone
<1>3. \A n \in 1 .. SlotCount + 1 : n \in Nat
  BY DateTickAssumption, SMT
<1> QED
  BY <1>1, <1>2, <1>3, SimAt, LocalFields DEF GameType, BoundaryType

LEMMA DoneLoad ==
  ASSUME TypeInv, DoneInv, NEW s \in Saves, LoadSave(s)
  PROVE  DoneInv'
<1>1. /\ game'.loads = game.loads + 1 /\ pc[Sim] = "idle" /\ pc'[Sim] = "idle"
      /\ UNCHANGED <<done, lastDispatched, boundary>>
  BY DEF LoadSave, gameOnly, slotVars, scopeVars
<1>2. \A i, d : <<i, game'.loads, d>> \notin done
  BY <1>1, SimTyped DEF DoneInv, DonePast
<1>3. DonePast'
  <2> SUFFICES ASSUME NEW i, NEW n, NEW d, <<i, n, d>> \in done PROVE n <= game.loads + 1
    BY <1>1 DEF DonePast
  <2>1. n <= game.loads /\ n \in Nat
    BY DEF DoneInv, DonePast, TypeInv, TypeOK, Work
  <2> QED
    BY <2>1, SimTyped
<1>4. InScope' /\ NotRecorded'
  BY <1>1 DEF InScope, NotRecorded, Scoped, Resetting, Dispatching
<1>5. NothingYet' /\ DoneShows'
  BY <1>1, <1>2 DEF NothingYet, DoneShows, DoneHere
<1> QED
  BY <1>3, <1>4, <1>5 DEF DoneInv

\* The date of the game moves: no work of the loaded game is of a later day.
LEMMA DoneMoves ==
  ASSUME TypeInv, TypeInv', DoneInv, UNCHANGED <<done, lastDispatched, boundary>>,
         game'.save = game.save, game'.loads = game.loads,
         pc[Sim] = "idle", pc'[Sim] \in {"idle", "readPath"},
         game'.date # 0,
         game.date = 0 \/ game.date <= game'.date
  PROVE  DoneInv'
<1>1. DonePast' /\ InScope' /\ NotRecorded'
  BY DEF DoneInv, DonePast, InScope, NotRecorded, Scoped, Resetting, Dispatching
<1>2. NothingYet'
  BY DEF DoneInv, NothingYet, DoneHere, Resetting
<1>3. DoneShows'
  <2>1. CASE game.date = 0
    BY <2>1 DEF DoneInv, NothingYet, DoneShows, DoneHere
  <2>2. CASE game.date # 0 /\ game.date <= game'.date
    <3>1. game.date \in Nat /\ game'.date \in Nat
          /\ \A i \in Slots : lastDispatched[i] \in Nat
      <4>1. game \in GameType /\ game' \in GameType
        BY DEF TypeInv, TypeOK
      <4> QED
        BY <4>1, SimTyped DEF GameType
    <3>2. \A i \in Slots, d \in DatesOrNone : <<i, game.loads, d>> \in done =>
            d <= game.date /\ d <= lastDispatched[i] /\ lastDispatched[i] <= game.date
      BY DEF DoneInv, DoneShows, DoneHere
    <3>3. \A d \in DatesOrNone : d \in Nat
      BY SimTyped
    <3>4. \A i \in Slots, d \in DatesOrNone : <<i, game.loads, d>> \in done =>
            d <= game'.date /\ d <= lastDispatched[i] /\ lastDispatched[i] <= game'.date
      BY <2>2, <3>1, <3>2, <3>3
    <3> QED
      BY <3>4 DEF DoneShows, DoneHere
  <2> QED
    BY <2>1, <2>2
<1> QED
  BY <1>1, <1>2, <1>3 DEF DoneInv

\* The callback's work is the first of its date in the loaded game.
LEMMA DoneCallback ==
  ASSUME TypeInv, SimHere, DoneInv, CallbackDone(Sim)
  PROVE  DoneInv'
<1>1. /\ pc[Sim] = "callback" /\ pc'[Sim] = "finish" /\ Mine'.ok
      /\ done' = done \cup {<<Mine.slot, game.loads, game.date>>}
      /\ Mine'.slot = Mine.slot /\ UNCHANGED <<game, boundary, lastDispatched>>
      /\ game.date # 0 /\ boundary.path = game.save
  BY SimCallbackDone
     DEF SimHere, At, KeepsDispatch, slotsKept, DoneInv, InScope, Scoped, Dispatching
<1>2. DonePast'
  BY <1>1, SimTyped DEF DoneInv, DonePast
<1>3. InScope' /\ NotRecorded' /\ NothingYet'
  BY <1>1 DEF InScope, NotRecorded, NothingYet, Resetting
<1>4. DoneShows'
  <2> SUFFICES ASSUME NEW i \in Slots, NEW d \in DatesOrNone,
                      <<i, game.loads, d>> \in done'
               PROVE  /\ d <= game.date
                      /\ \/ Mine.slot = i
                         \/ d <= lastDispatched[i] /\ lastDispatched[i] <= game.date
    BY <1>1 DEF DoneShows, DoneHere
  <2>1. CASE <<i, game.loads, d>> \in done
    BY <1>1, <2>1 DEF DoneInv, DoneShows, DoneHere
  <2>2. CASE i = Mine.slot /\ d = game.date
    BY <2>2, SimTyped
  <2> QED
    BY <1>1, <2>1, <2>2
<1> QED
  BY <1>2, <1>3, <1>4 DEF DoneInv

\* The record catches up with what was done.
LEMMA DoneFinish ==
  ASSUME TypeInv, SimHere, DoneInv, Finish(Sim)
  PROVE  DoneInv'
<1>1. CASE ~Mine.ok
  <2>1. At("finish", "release") /\ UNCHANGED <<game, done, lastDispatched, boundary>>
    BY <1>1, SimFinish DEF slotsKept
  <2> QED
    BY <1>1, <2>1, DoneKept
       DEF DoneInv, InScope, At, Scoped, Resetting, Dispatching
<1>2. CASE Mine.ok
  <2>1. /\ pc[Sim] = "finish" /\ pc'[Sim] = "release"
        /\ lastDispatched' = [lastDispatched EXCEPT ![Mine.slot] = game.date]
        /\ UNCHANGED <<game, done, boundary>>
        /\ game.date # 0 /\ boundary.path = game.save /\ Mine.slot \in Slots
    BY <1>2, SimFinish, SimTyped
       DEF SimHere, At, slotsKept, DoneInv, InScope, Scoped, Dispatching, Claimed
  <2>2. DonePast' /\ InScope' /\ NotRecorded' /\ NothingYet'
    BY <2>1 DEF DoneInv, DonePast, InScope, NotRecorded, NothingYet, Resetting
  <2>3. DoneShows'
    <3> SUFFICES ASSUME NEW i \in Slots, NEW d \in DatesOrNone,
                        <<i, game.loads, d>> \in done
                 PROVE  /\ d <= game.date
                        /\ d <= lastDispatched'[i] /\ lastDispatched'[i] <= game.date
      BY <2>1 DEF DoneShows, DoneHere
    <3>1. d <= game.date
      BY DEF DoneInv, DoneShows, DoneHere
    <3>2. CASE i = Mine.slot
      BY <2>1, <3>1, <3>2, SimTyped
    <3>3. CASE i # Mine.slot
      <4>1. lastDispatched'[i] = lastDispatched[i]
        BY <2>1, <3>3, SimTyped
      <4> QED
        BY <3>1, <3>3, <4>1 DEF DoneInv, DoneShows, DoneHere
    <3> QED
      BY <3>2, <3>3
  <2> QED
    BY <2>2, <2>3 DEF DoneInv
<1> QED
  BY <1>1, <1>2

\* Entering a save's scope, or resetting the slots in it, follows no work in it.
LEMMA DoneEnter ==
  ASSUME TypeInv, SimHere, DoneInv, Refresh(Sim) \/ RefreshReset(Sim)
  PROVE  DoneInv'
<1>1. CASE Refresh(Sim) /\ Mine.path = boundary.path
  <2>1. At("refresh", "decide") /\ UNCHANGED <<game, done, lastDispatched, boundary>>
        /\ boundary.path = game.save
    BY <1>1, SimRefresh DEF pubKept, SimHere, At
  <2> QED
    BY <2>1, DoneKept DEF Resetting
<1>2. CASE Refresh(Sim) /\ Mine.path # boundary.path
  <2>1. /\ pc[Sim] = "refresh" /\ pc'[Sim] = "zero" /\ boundary'.path = game.save
        /\ UNCHANGED <<game, done, lastDispatched>> /\ boundary.path # game.save
    BY <1>2, SimRefresh DEF pubKept, SimHere, At
  <2>2. \A i \in Slots, d \in DatesOrNone : <<i, game.loads, d>> \notin done
    BY <2>1 DEF DoneInv, NothingYet, DoneHere
  <2>3. DonePast' /\ InScope' /\ NotRecorded' /\ NothingYet' /\ DoneShows'
    BY <2>1, <2>2
       DEF DoneInv, DonePast, InScope, NotRecorded, NothingYet, DoneShows, DoneHere
  <2> QED
    BY <2>3 DEF DoneInv
<1>3. CASE RefreshReset(Sim)
  <2>1. /\ pc[Sim] = "refreshReset" /\ pc'[Sim] = "decide"
        /\ UNCHANGED <<game, done, boundary>> /\ boundary.path = game.save
    BY <1>3, SimRefreshReset DEF slotsKept, At, DoneInv, InScope, Resetting
  <2>2. \A i \in Slots, d \in DatesOrNone : <<i, game.loads, d>> \notin done
    BY <2>1 DEF DoneInv, NothingYet, DoneHere, Resetting
  <2>3. DonePast' /\ InScope' /\ NotRecorded' /\ NothingYet' /\ DoneShows'
    BY <2>1, <2>2
       DEF DoneInv, DonePast, InScope, NotRecorded, NothingYet, DoneShows, DoneHere
  <2> QED
    BY <2>3 DEF DoneInv
<1> QED
  BY <1>1, <1>2, <1>3

\* Every step of the game or of the lone game thread.
LEMMA DoneStep ==
  ASSUME TypeInv, TypeInv', SimHere, DoneInv,
         UNCHANGED vars \/ Game \/ Publish(Sim) \/ Dispatch(Sim)
  PROVE  DoneInv'
<1>1. CASE UNCHANGED vars
  <2>1. DonePast' /\ InScope' /\ NotRecorded' /\ NothingYet' /\ DoneShows'
    BY <1>1 DEF vars, Mine, DoneInv, DonePast, InScope, NotRecorded, NothingYet,
       DoneShows, DoneHere
  <2> QED
    BY <2>1 DEF DoneInv
<1>2. CASE Game
  <2>2. ASSUME NEW d \in Dates, LoadDone(d) PROVE DoneInv'
    <3>1. /\ game'.date = d /\ game'.save = game.save /\ game'.loads = game.loads
          /\ d # 0 /\ game.date = 0
          /\ UNCHANGED <<pc, done, lastDispatched, boundary>>
      BY <2>2, SMT DEF LoadDone, gameOnly, slotVars, scopeVars, Dates, TypeInv, TypeOK,
         GameType
    <3>2. pc[Sim] = "idle"
      BY <3>1 DEF SimHere
    <3> QED
      BY <3>1, <3>2, DoneMoves
  <2>3. CASE AdvanceDay \/ ReportAgain
    <3>1. game.date <= game'.date
      BY <2>3, SimReports
    <3> QED
      BY <2>3, <3>1, SimReports, DoneMoves DEF At
  <2> QED
    BY <1>2, <2>2, <2>3, DoneLoad DEF Game, FinishLoad
<1>3. CASE Publish(Sim)
  <2> USE DEF At, Scoped, Resetting, Dispatching, pubKept
  <2>a. InScope
    BY DEF DoneInv
  <2>1. CASE ReadPath(Sim)
    BY <2>1, <2>a, SimReadPath, DoneKept DEF InScope
  <2>3. CASE ZeroLast(Sim)
    <3>1. At("zero", "refreshReset") /\ UNCHANGED <<game, done, lastDispatched, boundary>>
      BY <2>3, SimZeroLast
    <3> QED
      BY <3>1, <2>a, DoneKept DEF InScope
  <2>5. CASE Decide(Sim)
    BY <2>5, <2>a, SimDecide, DoneKept DEF InScope
  <2>6. CASE CompareExchange(Sim)
    BY <2>6, <2>a, SimCompareExchange, DoneKept DEF InScope
  <2>7. CASE Reserve(Sim)
    BY <2>7, <2>a, SimReserve, DoneKept DEF InScope
  <2>8. CASE RecordAccept(Sim)
    BY <2>8, <2>a, SimRecordAccept, DoneKept DEF InScope, SimHere
  <2>9. CASE WriteSlot(Sim)
    BY <2>9, <2>a, SimWriteSlot, DoneKept DEF InScope
  <2>10. CASE Bump(Sim)
    BY <2>10, <2>a, SimBump, DoneKept DEF InScope
  <2>11. CASE CompareLatest(Sim)
    BY <2>11, <2>a, SimCompareLatest, DoneKept DEF InScope
  <2> QED
    BY <1>3, <2>1, <2>3, <2>5, <2>6, <2>7, <2>8, <2>9, <2>10, <2>11, DoneEnter DEF Publish
<1>4. CASE Dispatch(Sim)
  <2> USE DEF At, Scoped, Resetting, Dispatching, slotsKept
  <2>a. InScope
    BY DEF DoneInv
  <2>1. CASE Check(Sim)
    BY <2>1, <2>a, SimCheck, DoneKept DEF InScope
  <2>2. CASE Claim(Sim)
    BY <2>2, <2>a, SimClaim, DoneKept DEF InScope
  <2>3. CASE Recheck(Sim)
    BY <2>3, <2>a, SimRecheck, DoneKept DEF InScope, KeepsDispatch, KeepsDay
  <2>5. CASE CallbackDefers(Sim)
    BY <2>5, <2>a, SimCallbackDefers, DoneKept DEF InScope
  <2>7. CASE Release(Sim)
    BY <2>7, <2>a, SimRelease, DoneKept DEF InScope
  <2>8. CASE DispatchReturns(Sim)
    BY <2>8, <2>a, SimDispatchReturns, DoneKept DEF InScope
  <2> QED
    BY <1>4, <2>1, <2>2, <2>3, <2>5, <2>7, <2>8, DoneCallback, DoneFinish DEF Dispatch
<1> QED
  BY <1>1, <1>2, <1>3, <1>4

LEMMA DoneInit == Init => DoneInv
  BY DEF Init, DoneInv, DonePast, InScope, NothingYet, DoneShows, NotRecorded, DoneHere,
     Scoped, Resetting, Dispatching, Threads

AloneDone == TypeInv /\ Unmet /\ SimHere /\ (GameThreadAlone => DoneInv)

LEMMA AloneDoneInvariant == Spec => []AloneDone
<1>1. Init => AloneDone
  BY TypeInit, UnmetInit, SimHereInit, DoneInit DEF AloneDone
<1>2. AloneDone /\ [Next]_vars => AloneDone'
  <2> SUFFICES ASSUME AloneDone, [Next]_vars PROVE AloneDone'
    OBVIOUS
  <2>1. TypeInv /\ Unmet /\ SimHere /\ TypeInv' /\ Unmet' /\ SimHere'
    BY TypeStep, UnmetStep, SimHereStep DEF AloneDone
  <2>2. ASSUME GameThreadAlone' PROVE DoneInv'
    BY <2>1, <2>2, AloneStep, DoneStep DEF AloneDone
  <2> QED
    BY <2>1, <2>2 DEF AloneDone
<1> QED
  BY <1>1, <1>2, PTL DEF Spec

\* Loads, reloads of the same save and deferrals notwithstanding, the game thread
\* on its own never calls a consumer for a date whose work that consumer has done
\* in the loaded game.
THEOREM DoneAtMostOnce == Spec => DoneOnce
<1>1. AloneDone /\ [Next]_vars =>
        [\A t \in Threads : GameThreadAlone /\ pc[t] = "callback" =>
           <<MySlot(t), local[t].load, local[t].date>> \notin done]_vars
  <2> SUFFICES ASSUME AloneDone, NEW t \in Threads, GameThreadAlone, pc[t] = "callback"
               PROVE  <<MySlot(t), local[t].load, local[t].date>> \notin done
    OBVIOUS
  <2>1. t = Sim
    BY DEF GameThreadAlone, Threads
  <2>2. /\ Mine.load = game.loads /\ Mine.date = game.date /\ Mine.slot \in Slots
        /\ Mine.date \in DatesOrNone
        /\ lastDispatched[Mine.slot] # Mine.date
    BY <2>1, SimTyped DEF AloneDone, SimHere, DoneInv, NotRecorded, Claimed
  <2>3. ASSUME DoneHere(Mine.slot, Mine.date) PROVE FALSE
    <3>1. Mine.date <= lastDispatched[Mine.slot] /\ lastDispatched[Mine.slot] <= Mine.date
      BY <2>1, <2>2, <2>3 DEF AloneDone, DoneInv, DoneShows
    <3>2. Mine.date \in Nat /\ lastDispatched[Mine.slot] \in Nat
      BY <2>2, SimTyped DEF AloneDone
    <3> QED
      BY <2>2, <3>1, <3>2
  <2> QED
    BY <2>1, <2>2, <2>3 DEF DoneHere, Mine, MySlot
<1> QED
  BY <1>1, AloneDoneInvariant, PTL DEF Spec, DoneOnce

-----------------------------------------------------------------------------
(***************************************************************************)
(* A complete dispatch and an accepted day, as long as the player has      *)
(* loaded no save, and for the lone game thread as long as the player      *)
(* loads none that the runtime takes for current.                          *)
(***************************************************************************)
Undisturbed == game.loads = 0 \/ (GameThreadAlone /\ ~MayReload)

\* In the scope of the loaded save a recorded date was done in that save.
FreshInv ==
    boundary.path = game.save /\ pc[Sim] \notin Resetting =>
        \A i \in Slots : lastDispatched[i] # 0 => DoneHere(i, lastDispatched[i])

\* The slots a complete dispatch has passed, and the one it is leaving.
PassedInv ==
    /\ pc[Sim] \in Dispatching /\ Mine.complete =>
         \A i \in Slots : i < Mine.slot => DoneHere(i, Mine.date)
    /\ \/ pc[Sim] = "finish" /\ Mine.ok
       \/ pc[Sim] = "release" /\ Mine.complete
       => DoneHere(Mine.slot, Mine.date)

\* What the dispatch may rely on when it finds a date recorded.
RecordedHere ==
    pc[Sim] \in Dispatching =>
        \A i \in Slots : lastDispatched[i] # 0 => DoneHere(i, lastDispatched[i])

\* Work is never undone.
LEMMA DoneGrows == [Next]_vars => done \subseteq done'
<1> SUFFICES ASSUME [Next]_vars PROVE done \subseteq done'
  OBVIOUS
<1>1. CASE UNCHANGED vars \/ Game
  BY <1>1 DEF vars, Game, FinishLoad, LoadSave, LoadDone, AdvanceDay, ReportAgain,
     gameOnly
<1>2. ASSUME NEW t, SaveEnter(t) PROVE done \subseteq done'
  BY <1>2 DEF SaveEnter, ConsumerPoll, EnterScope, ScopeReset, ReadToday, ConsumerPeek
<1>3. ASSUME NEW t, Publish(t) PROVE done \subseteq done'
  BY <1>3 DEF Publish, ReadPath, Refresh, ZeroLast, RefreshReset, Decide,
     CompareExchange, Reserve, RecordAccept, WriteSlot, Bump, CompareLatest
<1>4. ASSUME NEW t, Dispatch(t) PROVE done \subseteq done'
  BY <1>4 DEF Dispatch, Check, Claim, Recheck, CallbackDone, CallbackDefers, Finish,
     Release, DispatchReturns
<1> QED
  BY <1>1, <1>2, <1>3, <1>4 DEF Next

\* The game thread stays where it is while work may be added.
LEMMA PassedKept ==
  ASSUME PassedInv, game'.loads = game.loads, done \subseteq done',
         pc'[Sim] = pc[Sim], UNCHANGED Mine
  PROVE  PassedInv'
<1>1. \A i, d : <<i, game.loads, d>> \in done => <<i, game'.loads, d>> \in done'
  OBVIOUS
<1> QED
  BY <1>1 DEF PassedInv, DoneHere

\* The game thread is outside the dispatch.
LEMMA PassedOutside == pc'[Sim] \notin Dispatching => PassedInv'
  BY DEF PassedInv, Dispatching

\* The game thread's dispatch, step by step.
LEMMA PassedDispatch ==
  ASSUME TypeInv, SimHere, PassedInv, RecordedHere, Dispatch(Sim)
  PROVE  PassedInv'
<1> USE DEF At, KeepsDay, KeepsDispatch, slotsKept
<1>a. /\ Mine.slot \in Nat /\ Mine.date = game.date /\ game.date # 0
      /\ \A i \in Slots : i \in Nat
  <2>1. pc[Sim] # "idle"
    BY DEF Dispatch, Check, Claim, Recheck, CallbackDone, CallbackDefers, Finish,
       Release, DispatchReturns, Goto
  <2> QED
    BY <2>1, SimTyped, DateTickAssumption, SMT DEF SimHere, Slots
<1>b. \A i \in Slots : i < Mine.slot + 1 => i < Mine.slot \/ i = Mine.slot
  BY <1>a
<1>1. CASE Check(Sim)
  <2>1. CASE pc'[Sim] = "check"
    <3>1. /\ pc[Sim] = "check" /\ lastDispatched[Mine.slot] = Mine.date
          /\ Mine.slot \in Slots
          /\ Mine'.slot = Mine.slot + 1 /\ (Mine'.complete => Mine.complete)
          /\ Mine'.date = Mine.date /\ UNCHANGED <<game, done>>
      BY <1>1, <2>1, SimCheck
    <3>2. DoneHere(Mine.slot, Mine.date)
      BY <1>a, <3>1 DEF RecordedHere, Dispatching
    <3>3. Mine'.complete => \A i \in Slots : i < Mine'.slot => <<i, game.loads, Mine.date>> \in done
      BY <1>b, <3>1, <3>2 DEF PassedInv, DoneHere, Dispatching
    <3> QED
      BY <2>1, <3>1, <3>3 DEF PassedInv, DoneHere
  <2>2. CASE pc'[Sim] # "check"
    <3>1. pc[Sim] = "check" /\ pc'[Sim] = "claim" /\ UNCHANGED <<Mine, game, done>>
      BY <1>1, <2>2, SimCheck
    <3> QED
      BY <3>1 DEF PassedInv, DoneHere, Dispatching
  <2> QED
    BY <2>1, <2>2
<1>2. CASE Claim(Sim)
  <2>1. \/ pc[Sim] = "claim" /\ pc'[Sim] = "recheck" /\ UNCHANGED Mine
        \/ pc'[Sim] = "check" /\ ~Mine'.complete
    BY <1>2, SimClaim
  <2>2. UNCHANGED <<game, done>>
    BY <1>2, SimClaim
  <2> QED
    BY <2>1, <2>2 DEF PassedInv, DoneHere, Dispatching
<1>3. CASE Recheck(Sim)
  <2>1. /\ pc[Sim] = "recheck" /\ pc'[Sim] \in {"finish", "callback"}
        /\ pc'[Sim] = "finish" => lastDispatched[Mine.slot] = Mine.date
        /\ Mine'.slot = Mine.slot /\ Mine'.date = Mine.date
        /\ Mine'.complete => Mine.complete
        /\ UNCHANGED <<game, done>>
    BY <1>3, SimRecheck
  <2>2. Mine.slot \in Slots
    BY <2>1, SimTyped DEF Claimed
  <2>3. pc'[Sim] = "finish" => DoneHere(Mine.slot, Mine.date)
    BY <1>a, <2>1, <2>2 DEF RecordedHere, Dispatching
  <2> QED
    BY <2>1, <2>3 DEF PassedInv, DoneHere, Dispatching
<1>4. CASE CallbackDone(Sim)
  <2>1. /\ pc[Sim] = "callback" /\ pc'[Sim] = "finish"
        /\ Mine'.slot = Mine.slot /\ Mine'.date = Mine.date
        /\ Mine'.complete => Mine.complete
        /\ UNCHANGED game
        /\ done' = done \cup {<<Mine.slot, Mine.load, Mine.date>>}
    BY <1>4, SimCallbackDone
  <2>2. <<Mine.slot, game.loads, Mine.date>> \in done'
    BY <2>1 DEF SimHere
  <2> QED
    BY <2>1, <2>2 DEF PassedInv, DoneHere, Dispatching
<1>5. CASE CallbackDefers(Sim)
  <2>1. /\ pc[Sim] = "callback" /\ pc'[Sim] = "finish" /\ ~Mine'.ok
        /\ Mine'.slot = Mine.slot /\ Mine'.date = Mine.date
        /\ Mine'.complete => Mine.complete
        /\ game'.loads = game.loads /\ UNCHANGED done
    BY <1>5, SimCallbackDefers
  <2> QED
    BY <2>1 DEF PassedInv, DoneHere, Dispatching
<1>6. CASE Finish(Sim)
  <2>1. /\ pc[Sim] = "finish" /\ pc'[Sim] = "release" /\ UNCHANGED <<game, done>>
        /\ \/ Mine.ok /\ UNCHANGED Mine
           \/ ~Mine'.complete
    BY <1>6, SimFinish
  <2> QED
    BY <2>1 DEF PassedInv, DoneHere, Dispatching
<1>7. CASE Release(Sim)
  <2>1. /\ pc[Sim] = "release" /\ pc'[Sim] = "check" /\ UNCHANGED <<game, done>>
        /\ Mine'.slot = Mine.slot + 1 /\ (Mine'.complete => Mine.complete)
        /\ Mine'.date = Mine.date
    BY <1>7, SimRelease
  <2>2. Mine'.complete => \A i \in Slots : i < Mine'.slot => <<i, game.loads, Mine.date>> \in done
    BY <1>b, <2>1 DEF PassedInv, DoneHere, Dispatching
  <2> QED
    BY <2>1, <2>2 DEF PassedInv, DoneHere
<1>8. CASE DispatchReturns(Sim)
  BY <1>8, SimDispatchReturns, PassedOutside DEF Dispatching
<1> QED
  BY <1>1, <1>2, <1>3, <1>4, <1>5, <1>6, <1>7, <1>8 DEF Dispatch

\* Outside its dispatch the game thread has passed no slot.
LEMMA PassedPublish ==
  ASSUME TypeInv, SimHere, Publish(Sim)
  PROVE  PassedInv'
<1> USE DEF At, Dispatching
<1>1. CASE CompareLatest(Sim)
  <2>1. \/ pc'[Sim] = "check" /\ Mine'.slot = 1
        \/ pc'[Sim] = "idle"
    BY <1>1, SimCompareLatest DEF SimHere
  <2>2. \A i \in Slots : ~(i < 1)
    BY DateTickAssumption, SMT DEF Slots
  <2> QED
    BY <2>1, <2>2 DEF PassedInv
<1>2. CASE ~CompareLatest(Sim)
  <2>1. PICK from, to : Goto(Sim, from, to) /\ to \notin Dispatching
    BY <1>2 DEF Publish, ReadPath, Refresh, ZeroLast, RefreshReset, Decide, Rejected,
       CompareExchange, Reserve, RecordAccept, WriteSlot, Bump
  <2> QED
    BY <2>1, SimAt, PassedOutside
<1> QED
  BY <1>1, <1>2

LEMMA PassedStep ==
  ASSUME TypeInv, SimHere, PassedInv, RecordedHere, [Next]_vars
  PROVE  PassedInv'
<1>1. CASE UNCHANGED vars
  BY <1>1, PassedKept DEF vars, Mine
<1>2. CASE Game
  <2>1. ASSUME NEW s \in Saves, LoadSave(s) PROVE PassedInv'
    BY <2>1, PassedOutside DEF LoadSave, Dispatching
  <2>2. CASE FinishLoad
    <3>1. pc'[Sim] = pc[Sim] /\ pc[Sim] = "idle"
      BY <2>2 DEF FinishLoad, LoadDone, SimHere
    <3> QED
      BY <3>1, PassedOutside DEF Dispatching
  <2>3. CASE AdvanceDay \/ ReportAgain
    BY <2>3, SimReports, PassedOutside DEF Dispatching, At
  <2> QED
    BY <1>2, <2>1, <2>2, <2>3 DEF Game
<1>3. ASSUME NEW t \in Pollers, SaveEnter(t) \/ Publish(t) \/ Dispatch(t) PROVE PassedInv'
  BY <1>3, PollerSteps, DoneGrows, PassedKept DEF Mine
<1> QED
  BY <1>1, <1>2, <1>3, PassedDispatch, PassedPublish DEF Next, Threads

\* The lone game thread resets the records before it dispatches in a new save.
LEMMA FreshStep ==
  ASSUME TypeInv, SimHere, InScope, PassedInv, FreshInv, ~MayReload,
         UNCHANGED vars \/ Game \/ Publish(Sim) \/ Dispatch(Sim)
  PROVE  FreshInv'
<1> USE DEF At, pubKept, slotsKept
<1>a. ASSUME game'.save = game.save, game'.loads = game.loads,
             boundary'.path = boundary.path, UNCHANGED lastDispatched,
             done \subseteq done',
             pc[Sim] \in Resetting => pc'[Sim] \in Resetting
      PROVE  FreshInv'
  <2>1. \A i, d : <<i, game.loads, d>> \in done => <<i, game'.loads, d>> \in done'
    BY <1>a
  <2> QED
    BY <1>a, <2>1 DEF FreshInv, DoneHere
<1>1. CASE UNCHANGED vars
  BY <1>1, <1>a DEF vars
<1>2. CASE Game
  <2>1. ASSUME NEW s \in Saves, LoadSave(s) PROVE FreshInv'
    <3>1. game'.save = s /\ UNCHANGED boundary /\ s # boundary.path
      BY <2>1 DEF LoadSave, gameOnly, scopeVars
    <3> QED
      BY <3>1 DEF FreshInv
  <2>2. ASSUME NEW d \in Dates, LoadDone(d) PROVE FreshInv'
    <3>1. /\ game'.save = game.save /\ game'.loads = game.loads
          /\ UNCHANGED <<pc, done, lastDispatched, boundary>>
      BY <2>2, SMT DEF LoadDone, gameOnly, slotVars, scopeVars, TypeInv, TypeOK, GameType
    <3> QED
      BY <3>1, <1>a
  <2>3. CASE AdvanceDay \/ ReportAgain
    BY <2>3, SimReports, <1>a DEF Resetting
  <2> QED
    BY <1>2, <2>1, <2>2, <2>3 DEF Game, FinishLoad
<1>3. CASE Publish(Sim)
  <2>1. CASE ReadPath(Sim)
    BY <2>1, SimReadPath, <1>a DEF Resetting
  <2>2. CASE Refresh(Sim)
    <3>1. CASE Mine.path = boundary.path
      BY <2>2, <3>1, SimRefresh, <1>a DEF Resetting
    <3>2. CASE Mine.path # boundary.path
      BY <2>2, <3>2, SimRefresh DEF FreshInv, Resetting
    <3> QED
      BY <3>1, <3>2
  <2>3. CASE ZeroLast(Sim)
    BY <2>3, SimZeroLast DEF FreshInv, Resetting
  <2>4. CASE RefreshReset(Sim)
    <3>1. \A i \in Slots : lastDispatched'[i] = 0
      BY <2>4, SimRefreshReset
    <3> QED
      BY <3>1 DEF FreshInv
  <2>5. CASE Decide(Sim)
    BY <2>5, SimDecide, <1>a DEF Resetting
  <2>6. CASE CompareExchange(Sim)
    BY <2>6, SimCompareExchange, <1>a DEF Resetting
  <2>7. CASE Reserve(Sim)
    BY <2>7, SimReserve, <1>a DEF Resetting
  <2>8. CASE RecordAccept(Sim)
    <3>1. boundary.path = game.save /\ Mine.path = game.save
      BY <2>8, SimRecordAccept DEF InScope, SimHere, Scoped
    <3> QED
      BY <2>8, <3>1, SimRecordAccept, <1>a DEF Resetting
  <2>9. CASE WriteSlot(Sim)
    BY <2>9, SimWriteSlot, <1>a DEF Resetting
  <2>10. CASE Bump(Sim)
    BY <2>10, SimBump, <1>a DEF Resetting
  <2>11. CASE CompareLatest(Sim)
    BY <2>11, SimCompareLatest, <1>a DEF Resetting
  <2> QED
    BY <1>3, <2>1, <2>2, <2>3, <2>4, <2>5, <2>6, <2>7, <2>8, <2>9, <2>10, <2>11 DEF Publish
<1>4. CASE Dispatch(Sim)
  <2>1. CASE Check(Sim)
    BY <2>1, SimCheck, <1>a DEF Resetting
  <2>2. CASE Claim(Sim)
    BY <2>2, SimClaim, <1>a DEF Resetting
  <2>3. CASE Recheck(Sim)
    BY <2>3, SimRecheck, <1>a DEF Resetting
  <2>4. CASE CallbackDone(Sim)
    BY <2>4, SimCallbackDone, <1>a DEF Resetting
  <2>5. CASE CallbackDefers(Sim)
    BY <2>5, SimCallbackDefers, <1>a DEF Resetting
  <2>6. CASE Finish(Sim)
    <3>1. CASE ~Mine.ok
      BY <2>6, <3>1, SimFinish, <1>a DEF Resetting
    <3>2. CASE Mine.ok
      <4>1. /\ lastDispatched' = [lastDispatched EXCEPT ![Mine.slot] = Mine.date]
            /\ UNCHANGED <<game, done, boundary>>
            /\ pc[Sim] = "finish"
        BY <2>6, <3>2, SimFinish
      <4>2. <<Mine.slot, game.loads, Mine.date>> \in done
        BY <3>2, <4>1 DEF PassedInv, DoneHere
      <4>3. boundary.path = game.save => \A i \in Slots :
              lastDispatched[i] # 0 => <<i, game.loads, lastDispatched[i]>> \in done
        BY <4>1 DEF FreshInv, DoneHere, Resetting
      <4>4. boundary.path = game.save => \A i \in Slots :
              lastDispatched'[i] # 0 => <<i, game.loads, lastDispatched'[i]>> \in done
        BY <4>1, <4>2, <4>3, SimTyped
      <4> QED
        BY <4>1, <4>4 DEF FreshInv, DoneHere
    <3> QED
      BY <3>1, <3>2
  <2>7. CASE Release(Sim)
    BY <2>7, SimRelease, <1>a DEF Resetting
  <2>8. CASE DispatchReturns(Sim)
    BY <2>8, SimDispatchReturns, <1>a DEF Resetting
  <2> QED
    BY <1>4, <2>1, <2>2, <2>3, <2>4, <2>5, <2>6, <2>7, <2>8 DEF Dispatch
<1> QED
  BY <1>1, <1>2, <1>3, <1>4

\* The last published date is the game thread's day, or the day before it until
\* that day is accepted.
LatestInv ==
    /\ game.date = 0 => boundary.path # game.save
    /\ pc[Sim] = "refreshReset" => lastPublished = 0
    /\ boundary.path = game.save =>
         /\ pc[Sim] = "idle" => lastPublished = game.date
         /\ pc[Sim] \in {"readPath", "refresh"} =>
              lastPublished = game.date \/ lastPublished + 1 = game.date
         /\ pc[Sim] = "decide" =>
              \/ lastPublished = 0
              \/ lastPublished = game.date \/ lastPublished + 1 = game.date
         /\ pc[Sim] = "cas" => lastPublished = Mine.seen
         /\ pc[Sim] \in Scoped \ {"decide", "cas"} => lastPublished = game.date

\* A step of another thread, or none.
LEMMA LatestKept ==
  ASSUME LatestInv, game'.save = game.save, game'.date = game.date,
         boundary'.path = boundary.path, pc'[Sim] = pc[Sim], UNCHANGED Mine,
         UNCHANGED lastPublished
  PROVE  LatestInv'
  BY DEF LatestInv

\* The game thread publishes its day.
LEMMA LatestPublish ==
  ASSUME TypeInv, SimHere, InScope, LatestInv, Publish(Sim)
  PROVE  LatestInv'
<1> USE DEF At, pubKept, KeepsDay
<1>a. /\ InScope /\ pc[Sim] # "idle" => Mine.date = game.date /\ game.date # 0
      /\ lastPublished \in Nat /\ game.date \in Nat
  BY SimTyped, SMT DEF SimHere, TypeInv, TypeOK
<1>1. CASE ReadPath(Sim)
  <2>1. UNCHANGED <<game, boundary, lastPublished>>
    BY <1>1, SimReadPath
  <2>2. CASE pc[Sim] = "readPath"
    <3>1. pc'[Sim] = "refresh"
      BY <1>1, <2>2, SimReadPath
    <3> QED
      BY <2>1, <2>2, <3>1 DEF LatestInv, Scoped, Dispatching
  <2>3. CASE pc[Sim] = "acceptPath"
    <3>1. pc'[Sim] = "accept"
      BY <1>1, <2>3, SimReadPath
    <3> QED
      BY <2>1, <2>3, <3>1 DEF LatestInv, Scoped, Dispatching
  <2> QED
    BY <1>1, <2>2, <2>3, SimReadPath
<1>2. CASE Refresh(Sim)
  <2>0. UNCHANGED <<game, lastPublished, Mine>> /\ pc[Sim] = "refresh"
    BY <1>2, SimRefresh
  <2>1. CASE Mine.path = boundary.path
    <3>1. pc'[Sim] = "decide" /\ UNCHANGED boundary
      BY <1>2, <2>1, SimRefresh
    <3> QED
      BY <2>0, <3>1 DEF LatestInv, Scoped, Dispatching
  <2>2. CASE Mine.path # boundary.path
    <3>1. pc'[Sim] = "zero" /\ game.date # 0
      BY <1>2, <1>a, <2>2, SimRefresh
    <3> QED
      BY <2>0, <3>1 DEF LatestInv, Scoped, Dispatching
  <2> QED
    BY <2>1, <2>2
<1>3. CASE ZeroLast(Sim)
  <2>1. /\ UNCHANGED <<game, boundary>> /\ lastPublished' = 0
        /\ pc[Sim] = "zero" /\ pc'[Sim] = "refreshReset"
    BY <1>3, SimZeroLast
  <2> QED
    BY <2>1 DEF LatestInv, Scoped, Dispatching
<1>4. CASE RefreshReset(Sim)
  <2>1. /\ UNCHANGED <<game, boundary, lastPublished>>
        /\ pc[Sim] = "refreshReset" /\ pc'[Sim] = "decide"
    BY <1>4, SimRefreshReset DEF slotsKept
  <2> QED
    BY <2>1 DEF LatestInv, Scoped, Dispatching
<1>5. CASE Decide(Sim)
  <2>1. /\ UNCHANGED <<game, boundary, lastPublished>> /\ pc[Sim] = "decide"
        /\ Mine'.seen = lastPublished
    BY <1>5, SimDecide
  <2>2. boundary.path = game.save =>
           lastPublished = 0 \/ lastPublished = Mine.date \/ Mine.date = lastPublished + 1
    BY <1>a, <2>1 DEF LatestInv
  <2>3. \/ /\ pc'[Sim] = "latest"
           /\ lastPublished = Mine.date \/ (lastPublished # 0 /\ Mine.date # lastPublished + 1)
        \/ pc'[Sim] = "cas"
    BY <1>5, SimDecide
  <2> QED
    BY <1>a, <2>1, <2>2, <2>3 DEF LatestInv, Scoped, Dispatching
<1>6. CASE CompareExchange(Sim)
  <2>1. /\ UNCHANGED <<game, boundary, Mine>> /\ pc[Sim] = "cas"
        /\ \/ pc'[Sim] = "reserve" /\ lastPublished' = Mine.date
           \/ /\ pc'[Sim] = "decide" /\ lastPublished # Mine.seen
              /\ UNCHANGED lastPublished
    BY <1>6, SimCompareExchange
  <2> QED
    BY <1>a, <2>1 DEF LatestInv, Scoped, Dispatching
<1>7. CASE Reserve(Sim)
  <2>1. /\ UNCHANGED <<game, boundary, lastPublished>>
        /\ pc[Sim] = "reserve" /\ pc'[Sim] = "acceptPath"
    BY <1>7, SimReserve
  <2> QED
    BY <2>1 DEF LatestInv, Scoped, Dispatching
<1>8. CASE RecordAccept(Sim)
  <2>1. /\ UNCHANGED <<game, lastPublished>>
        /\ pc[Sim] = "accept" /\ pc'[Sim] = "write"
        /\ boundary.path = game.save => boundary'.path = boundary.path
    BY <1>8, SimRecordAccept DEF SimHere
  <2>2. boundary.path = game.save
    BY <2>1 DEF InScope, Scoped
  <2> QED
    BY <2>1, <2>2 DEF LatestInv, Scoped, Dispatching
<1>9. CASE WriteSlot(Sim)
  <2>1. /\ UNCHANGED <<game, boundary, lastPublished>>
        /\ pc[Sim] = "write" /\ pc'[Sim] = "bump"
    BY <1>9, SimWriteSlot
  <2> QED
    BY <2>1 DEF LatestInv, Scoped, Dispatching
<1>10. CASE Bump(Sim)
  <2>1. /\ UNCHANGED <<game, boundary, lastPublished>>
        /\ pc[Sim] = "bump" /\ pc'[Sim] = "latest"
    BY <1>10, SimBump
  <2> QED
    BY <2>1 DEF LatestInv, Scoped, Dispatching
<1>11. CASE CompareLatest(Sim)
  <2>1. /\ UNCHANGED <<game, boundary, lastPublished>>
        /\ pc[Sim] = "latest" /\ pc'[Sim] \in {"check", "idle"}
    BY <1>11, SimCompareLatest
  <2> QED
    BY <2>1 DEF LatestInv, Scoped, Dispatching
<1> QED
  BY <1>1, <1>2, <1>3, <1>4, <1>5, <1>6, <1>7, <1>8, <1>9, <1>10, <1>11 DEF Publish

\* Its dispatch leaves the published date alone.
LEMMA LatestDispatch ==
  ASSUME TypeInv, SimHere, LatestInv, Dispatch(Sim)
  PROVE  LatestInv'
<1>1. /\ UNCHANGED <<boundary, lastPublished>>
      /\ game'.save = game.save /\ game'.date = game.date
      /\ pc[Sim] \in Dispatching
      /\ pc'[Sim] \in Dispatching \cup {"idle"}
  <2>1. CASE CallbackDefers(Sim)
    BY <2>1, SimCallbackDefers DEF At, Dispatching
  <2>2. CASE ~CallbackDefers(Sim)
    <3>1. UNCHANGED <<game, boundary, lastPublished>>
      BY <2>2 DEF Dispatch, Check, Claim, Recheck, CallbackDone, Finish, Release,
         DispatchReturns, dispatchOnly, scopeVars
    <3>2. PICK from, to : /\ Goto(Sim, from, to) /\ from \in Dispatching
                          /\ to \in Dispatching \cup {"idle"}
      BY <2>2 DEF Dispatch, Check, Claim, Recheck, CallbackDone, Finish, Release,
         DispatchReturns, Dispatching
    <3> QED
      BY <3>1, <3>2, SimAt DEF At
  <2> QED
    BY <2>1, <2>2
<1> QED
  BY <1>1 DEF LatestInv, Scoped, Dispatching

\* The game's own steps: a save that replaces another one is not yet in scope.
LEMMA LatestGame ==
  ASSUME TypeInv, SimHere, LatestInv, Game,
         \A s \in Saves : LoadSave(s) => ~MayReload
  PROVE  LatestInv'
<1>1. ASSUME NEW s \in Saves, LoadSave(s) PROVE LatestInv'
  <2>1. game'.save = s /\ UNCHANGED boundary /\ s # boundary.path
        /\ pc'[Sim] = "idle"
    BY <1>1 DEF LoadSave, gameOnly, scopeVars
  <2> QED
    BY <2>1 DEF LatestInv
<1>2. ASSUME NEW d \in Dates, LoadDone(d) PROVE LatestInv'
  <2>1. /\ game'.save = game.save /\ game.date = 0
        /\ UNCHANGED boundary /\ pc'[Sim] = pc[Sim]
    BY <1>2, SMT DEF LoadDone, gameOnly, scopeVars, TypeInv, TypeOK, GameType
  <2>2. pc[Sim] = "idle"
    BY <2>1 DEF SimHere
  <2> QED
    BY <2>1, <2>2 DEF LatestInv
<1>3. CASE AdvanceDay \/ ReportAgain
  <2>1. /\ pc[Sim] = "idle" /\ pc'[Sim] = "readPath"
        /\ game.date # 0 /\ game'.date # 0
        /\ game'.date = game.date \/ game'.date = game.date + 1
        /\ game'.save = game.save /\ UNCHANGED <<boundary, lastPublished>>
    BY <1>3, SimReports DEF At
  <2> QED
    BY <2>1 DEF LatestInv, Scoped, Dispatching
<1> QED
  BY <1>1, <1>2, <1>3 DEF Game, FinishLoad

\* In one save no poller publishes a date, so none moves the last one.
NoneExchanges == lastPublished # 0 /\ \A t \in Pollers : pc[t] # "cas"

LEMMA OneSavePoller ==
  ASSUME LockInv, NoneExchanges, NEW t \in Pollers,
         SaveEnter(t) \/ Publish(t) \/ Dispatch(t)
  PROVE  UNCHANGED lastPublished /\ boundary'.path = boundary.path /\ pc'[t] # "cas"
<1> USE DEF gameOnly, dispatchOnly, eventVars, scopeVars, slotVars
<1>a. t \in Threads /\ t # Sim /\ pc \in [Threads -> Labels]
  BY DateTickAssumption DEF Threads, LockInv, TypeInv, TypeOK
<1>b. \A from, to : Goto(t, from, to) => pc[t] = from /\ pc'[t] = to
  BY <1>a DEF Goto
<1>c. /\ pc[t] \notin {"zero", "refreshReset", "cas"}
      /\ pc[t] = "scope" => scopePath = consumer[t].path
      /\ pc[t] \in {"refresh", "accept"} => local[t].path = boundary.path
  BY <1>a DEF LockInv, SameSave, NoneExchanges
<1>1. CASE SaveEnter(t)
  BY <1>1, <1>b, <1>c
     DEF SaveEnter, ConsumerPoll, EnterScope, ScopeReset, ReadToday, ConsumerPeek
<1>2. CASE Publish(t)
  <2>1. CASE Decide(t)
    BY <2>1, <1>a, <1>b
       DEF Decide, Acceptable, Duplicate, Rejected, NoneExchanges
  <2>2. CASE ~Decide(t)
    BY <1>2, <2>2, <1>b, <1>c DEF Publish, ReadPath, Refresh, ZeroLast, RefreshReset,
     CompareExchange, Reserve, RecordAccept, WriteSlot, Bump, CompareLatest,
     RefreshedBoundary, ScopeChanged
  <2> QED
    BY <2>1, <2>2
<1>3. CASE Dispatch(t)
  BY <1>3, <1>b DEF Dispatch, Check, Claim, Recheck, CallbackDone, CallbackDefers,
     Finish, Release, DispatchReturns
<1> QED
  BY <1>1, <1>2, <1>3

\* The game thread never zeroes the last date in one save.
LEMMA NoneExchangesStep ==
  ASSUME LockInv, SimHere, NoneExchanges, [Next]_vars, game'.loads = 0
  PROVE  NoneExchanges'
<1> USE DEF gameOnly, dispatchOnly, eventVars, scopeVars, slotVars
<1>a. Sim \in Threads /\ Sim \notin Pollers /\ TypeInv
  BY DateTickAssumption DEF Threads, LockInv
<1>1. CASE UNCHANGED vars
  BY <1>1 DEF vars, NoneExchanges
<1>2. CASE Game
  <2>1. UNCHANGED lastPublished
        /\ (UNCHANGED pc \/ Goto(Sim, "idle", "readPath"))
    BY <1>2 DEF Game, FinishLoad, LoadSave, LoadDone, AdvanceDay, ReportAgain
  <2> QED
    BY <1>a, <2>1, SimAt DEF NoneExchanges, At
<1>3. ASSUME NEW t \in Pollers, SaveEnter(t) \/ Publish(t) \/ Dispatch(t)
      PROVE  NoneExchanges'
  <2>1. UNCHANGED lastPublished /\ pc'[t] # "cas"
    BY <1>3, OneSavePoller
  <2>2. \A u \in Threads \ {t} : pc'[u] = pc[u]
    <3>1. PICK from, to : Goto(t, from, to)
      BY <1>3 DEF SaveEnter, ConsumerPoll, EnterScope, ScopeReset, ReadToday,
         ConsumerPeek, Publish, ReadPath, Refresh, ZeroLast, RefreshReset, Decide,
         CompareExchange, Reserve, RecordAccept, WriteSlot, Bump, CompareLatest,
         Dispatch, Check, Claim, Recheck, CallbackDone, CallbackDefers, Finish,
         Release, DispatchReturns
    <3> QED
      BY <1>a, <3>1 DEF Goto, TypeInv, TypeOK
  <2> QED
    BY <2>1, <2>2 DEF NoneExchanges, Threads
<1>4. CASE Publish(Sim)
  <2>1. \/ pc[Sim] \notin {"zero", "refreshReset"} /\ Mine.date # 0
        \/ pc[Sim] = "idle"
    BY <1>a DEF LockInv, SameSave, SimHere
  <2>2. \A t \in Pollers : pc'[t] = pc[t]
    BY <1>4, <1>a, SimReadPath, SimRefresh, SimZeroLast, SimRefreshReset, SimDecide,
       SimCompareExchange, SimReserve, SimRecordAccept, SimWriteSlot, SimBump,
       SimCompareLatest DEF Publish, At
  <2>3. lastPublished' = lastPublished \/ lastPublished' = Mine.date
    <3>1. CASE ZeroLast(Sim)
      BY <2>1, <3>1, <1>a, SimZeroLast DEF At
    <3>2. CASE CompareExchange(Sim)
      BY <3>2, <1>a, SimCompareExchange
    <3> QED
      BY <1>4, <3>1, <3>2 DEF Publish, ReadPath, Refresh, RefreshReset, Decide,
         Reserve, RecordAccept, WriteSlot, Bump, CompareLatest
  <2>4. pc[Sim] # "idle"
    BY <1>4 DEF Publish, ReadPath, Refresh, ZeroLast, RefreshReset, Decide,
       CompareExchange, Reserve, RecordAccept, WriteSlot, Bump, CompareLatest, Goto
  <2> QED
    BY <2>1, <2>2, <2>3, <2>4 DEF NoneExchanges
<1>5. CASE Dispatch(Sim)
  <2>1. UNCHANGED lastPublished
    BY <1>5 DEF Dispatch, Check, Claim, Recheck, CallbackDone, CallbackDefers, Finish,
       Release, DispatchReturns
  <2>2. PICK from, to : Goto(Sim, from, to)
    BY <1>5 DEF Dispatch, Check, Claim, Recheck, CallbackDone, CallbackDefers, Finish,
       Release, DispatchReturns
  <2> QED
    BY <1>a, <2>1, <2>2, SimAt DEF NoneExchanges, At
<1> QED
  BY <1>1, <1>2, <1>3, <1>4, <1>5 DEF Next, Threads

-----------------------------------------------------------------------------
(***************************************************************************)
(* Both, and what the dispatch and the publication return.                 *)
(***************************************************************************)
OneSaveInv == game.loads = 0 => LockInv /\ NoneExchanges

QuietInv ==
    /\ AloneDone /\ RecordInv /\ OneSaveInv
    /\ GameThreadAlone /\ ~MayReload => FreshInv
    /\ Undisturbed => PassedInv /\ LatestInv

\* In one save, what is recorded was done in it.
LEMMA OneSaveRecords ==
  ASSUME RecordInv, game.loads = 0 PROVE RecordedHere
<1>1. \A n \in 0 .. 0 : n = 0
  OBVIOUS
<1> QED
  BY <1>1 DEF RecordInv, Did, RecordedHere, DoneHere

LEMMA QuietBasis ==
  ASSUME QuietInv, Undisturbed PROVE InScope /\ RecordedHere
<1>1. CASE game.loads = 0
  <2>1. boundary.path = game.save
    BY <1>1 DEF QuietInv, OneSaveInv, LockInv, SameSave
  <2> QED
    BY <1>1, <2>1, OneSaveRecords DEF QuietInv, InScope
<1>2. CASE GameThreadAlone /\ ~MayReload
  <2>1. InScope /\ FreshInv
    BY <1>2 DEF QuietInv, AloneDone, DoneInv
  <2> QED
    BY <2>1 DEF InScope, FreshInv, RecordedHere, Scoped, Resetting, Dispatching
<1> QED
  BY <1>1, <1>2 DEF Undisturbed

LEMMA QuietStep == QuietInv /\ [Next]_vars => QuietInv'
<1> SUFFICES ASSUME QuietInv, [Next]_vars PROVE QuietInv'
  OBVIOUS
<1>0. AloneDone /\ RecordInv /\ OneSaveInv /\ TypeInv /\ Unmet /\ SimHere
  BY DEF QuietInv, AloneDone
<1>1. TypeInv' /\ Unmet' /\ SimHere' /\ RecordInv'
  BY <1>0, TypeStep, UnmetStep, SimHereStep, RecordStep
<1>2. GameThreadAlone' => DoneInv'
  BY <1>0, <1>1, AloneStep, DoneStep DEF AloneDone
<1>3. AloneDone'
  BY <1>1, <1>2 DEF AloneDone
<1>4. game.loads \in Nat /\ (game'.loads = 0 => game.loads = 0)
  BY <1>0, LoadsGrow
<1>5. OneSaveInv'
  BY <1>0, <1>4, LockStep, NoneExchangesStep DEF OneSaveInv
<1>6. Undisturbed' => Undisturbed
  BY <1>0, <1>4, AloneStep DEF Undisturbed
<1>7. ASSUME GameThreadAlone', ~MayReload PROVE FreshInv'
  <2>1. GameThreadAlone /\ (UNCHANGED vars \/ Game \/ Publish(Sim) \/ Dispatch(Sim))
    BY <1>0, <1>7, AloneStep
  <2>2. FreshInv /\ PassedInv /\ InScope
    BY <1>7, <2>1 DEF QuietInv, Undisturbed, AloneDone, DoneInv
  <2> QED
    BY <1>0, <1>7, <2>1, <2>2, FreshStep
<1>8. ASSUME Undisturbed' PROVE PassedInv' /\ LatestInv'
  <2>1. PassedInv /\ LatestInv /\ InScope /\ RecordedHere
    BY <1>6, <1>8, QuietBasis DEF QuietInv
  <2>2. PassedInv'
    BY <1>0, <2>1, PassedStep
  <2>3. ASSUME game'.loads = 0, NEW t \in Pollers,
               SaveEnter(t) \/ Publish(t) \/ Dispatch(t)
        PROVE  LatestInv'
    <3>1. LockInv /\ NoneExchanges
      BY <1>0, <1>4, <2>3 DEF OneSaveInv
    <3>2. UNCHANGED lastPublished /\ boundary'.path = boundary.path
      BY <2>3, <3>1, OneSavePoller
    <3>3. /\ pc'[Sim] = pc[Sim] /\ UNCHANGED Mine
          /\ game'.save = game.save /\ game'.date = game.date
      BY <1>0, <2>3, PollerSteps DEF Mine
    <3> QED
      BY <2>1, <3>2, <3>3, LatestKept
  <2>4. ASSUME NEW s \in Saves, LoadSave(s) PROVE ~MayReload
    <3>1. game'.loads # 0
      BY <1>4, <2>4 DEF LoadSave
    <3> QED
      BY <1>8, <3>1 DEF Undisturbed
  <2>5. CASE UNCHANGED vars
    BY <2>1, <2>2, <2>5, LatestKept DEF vars, Mine
  <2>6. CASE Game \/ Publish(Sim) \/ Dispatch(Sim)
    BY <1>0, <2>1, <2>2, <2>4, <2>6, LatestGame, LatestPublish, LatestDispatch
  <2>7. CASE game'.loads = 0
    BY <2>2, <2>3, <2>5, <2>6, <2>7 DEF Next, Threads
  <2>8. CASE GameThreadAlone'
    BY <1>0, <2>5, <2>6, <2>8, AloneStep
  <2> QED
    BY <1>8, <2>2, <2>7, <2>8 DEF Undisturbed
<1> QED
  BY <1>1, <1>3, <1>5, <1>7, <1>8 DEF QuietInv

LEMMA QuietInit == Init => QuietInv
<1> SUFFICES ASSUME Init PROVE QuietInv
  OBVIOUS
<1>1. AloneDone /\ RecordInv
  BY TypeInit, UnmetInit, SimHereInit, DoneInit, RecordInit DEF AloneDone
<1>2. LockInv
  BY OneSaveInit
<1>3. /\ \A t \in Threads : pc[t] = "idle"
      /\ lastPublished = 1 /\ game.date = 1
      /\ \A i \in Slots : lastDispatched[i] = 0
  BY DEF Init
<1>4. Sim \in Threads /\ Pollers \subseteq Threads
  BY DEF Threads
<1> QED
  BY <1>1, <1>2, <1>3, <1>4 DEF QuietInv, OneSaveInv, NoneExchanges, FreshInv,
     PassedInv, LatestInv, Scoped, Dispatching

LEMMA QuietInvariant == Spec => []QuietInv
  BY QuietInit, QuietStep, PTL DEF Spec

\* When publish_and_dispatch reports a complete dispatch to the game thread,
\* every synchronous consumer has done that day's work in the loaded game.  A
\* load of another save while pollers run, or a reload of the save the runtime
\* takes for current, breaks this: the records of the old game stay.
THEOREM CompleteDispatch == Spec => [](Undisturbed => CompleteMeansDone)
<1>1. QuietInv => (Undisturbed => CompleteMeansDone)
  <2> SUFFICES ASSUME QuietInv, Undisturbed, pc[Sim] = "check",
                      MySlot(Sim) \notin Slots, local[Sim].complete,
                      NEW i \in Slots
               PROVE  <<i, game.loads, local[Sim].date>> \in done
    BY DEF CompleteMeansDone
  <2>1. PassedInv /\ TypeInv
    BY DEF QuietInv, AloneDone
  <2>2. Mine.slot \in 1 .. SlotCount + 1 /\ Mine.slot \notin Slots
    BY <2>1, SimTyped DEF MySlot, Mine
  <2>3. i < Mine.slot
    BY <2>2, DateTickAssumption, SMT DEF Slots
  <2> QED
    BY <2>1, <2>3 DEF PassedInv, Mine, DoneHere, Dispatching
<1> QED
  BY <1>1, QuietInvariant, PTL

\* A day the simulation reaches is accepted, or was published before: it is the
\* latest published date when publish_core returns to the hook.
THEOREM LiveDateAccepted == Spec => [](Undisturbed => LiveDateIsLatest)
<1>1. QuietInv => (Undisturbed => LiveDateIsLatest)
  <2> SUFFICES ASSUME QuietInv, Undisturbed, pc[Sim] = "latest"
               PROVE  lastPublished = local[Sim].date
    BY DEF LiveDateIsLatest
  <2>1. LatestInv /\ InScope /\ SimHere
    BY QuietBasis DEF QuietInv, AloneDone
  <2> QED
    BY <2>1 DEF LatestInv, InScope, SimHere, Mine, Scoped
<1> QED
  BY <1>1, QuietInvariant, PTL

-----------------------------------------------------------------------------
(***************************************************************************)
(* The order of the ring while the game thread is alone.                   *)
(***************************************************************************)
EventAt(e) == ring[RingIndex(e)]
Written == IF pc[Sim] \in Unwritten THEN writeCursor - 1 ELSE writeCursor
WrittenWindow == {e \in 0 .. Written - 1 : e >= Written - RingSize}
Accepted == {"reserve"} \cup Unwritten

\* The two counters, the reservation in hand, and the dates the exchange saw.
Counted ==
    /\ writeCursor = published + (IF pc[Sim] \in Unwritten \cup {"bump"} THEN 1 ELSE 0)
    /\ pc[Sim] \in Unwritten => Mine.event = Written
    /\ pc[Sim] = "write" => Mine.epoch = boundary.epoch
    /\ pc[Sim] \in Accepted \cup {"bump"} => lastPublished = Mine.date
    /\ pc[Sim] = "cas" => Mine.seen = 0 \/ Mine.seen < Mine.date

\* In one epoch the dates only grow.
Increasing ==
    \A e, f \in WrittenWindow :
        e < f /\ EventAt(e).epoch = EventAt(f).epoch => EventAt(e).date < EventAt(f).date

\* No event is of a later epoch, and none of this one later than the last date.
Bounded ==
    \A e \in WrittenWindow :
        /\ EventAt(e).epoch <= boundary.epoch
        /\ EventAt(e).epoch = boundary.epoch =>
             /\ pc[Sim] \notin Resetting
             /\ pc[Sim] \in Accepted => EventAt(e).date < Mine.date
             /\ pc[Sim] \notin Accepted => EventAt(e).date <= lastPublished

OrderInv == Counted /\ Increasing /\ Bounded

LEMMA OrderTyped ==
  ASSUME TypeInv
  PROVE  /\ writeCursor \in Nat /\ published \in Nat /\ RingSize \in Nat \ {0}
         /\ ring \in [0 .. RingSize - 1 -> EventType]
         /\ lastPublished \in Nat
         /\ Mine.date \in Nat /\ Mine.epoch \in Nat /\ boundary.epoch \in Nat
         /\ \A e \in Nat : EventAt(e).date \in Nat /\ EventAt(e).epoch \in Nat
<1>1. /\ writeCursor \in Nat /\ published \in Nat /\ RingSize \in Nat \ {0}
      /\ ring \in [0 .. RingSize - 1 -> EventType] /\ lastPublished \in DatesOrNone
  BY DateTickAssumption DEF TypeInv, TypeOK, RingType
<1>2. \A e \in Nat : EventAt(e) \in EventType
  BY <1>1, SlotOf DEF EventAt, RingIndex
<1> QED
  BY <1>1, <1>2, SimTyped, SimAt, LocalFields DEF EventType

\* A step that neither accepts, reserves, writes nor counts.
LEMMA OrderKept ==
  ASSUME OrderInv, NEW from, NEW to, pc[Sim] = from, pc'[Sim] = to,
         UNCHANGED <<ring, writeCursor, published, boundary, lastPublished>>,
         from \in Unwritten <=> to \in Unwritten,
         from \in Accepted <=> to \in Accepted,
         from = "bump" <=> to = "bump",
         to \in Resetting => from \in Resetting,
         to \in Accepted \cup {"bump"} =>
             Mine'.date = Mine.date /\ Mine'.event = Mine.event,
         to = "write" => Mine'.epoch = boundary.epoch,
         to = "cas" => Mine'.seen = 0 \/ Mine'.seen < Mine'.date
  PROVE  OrderInv'
<1>1. Written' = Written
  BY DEF Written
<1>2. WrittenWindow' = WrittenWindow
  BY <1>1 DEF WrittenWindow
<1>3. Counted'
  BY <1>1 DEF OrderInv, Counted, Accepted
<1>4. Increasing'
  BY <1>2 DEF OrderInv, Increasing, EventAt, RingIndex
<1>5. Bounded'
  BY <1>2 DEF OrderInv, Bounded, EventAt, RingIndex
<1> QED
  BY <1>3, <1>4, <1>5 DEF OrderInv

\* A new epoch has no events yet.
LEMMA OrderEpoch ==
  ASSUME TypeInv, OrderInv, Refresh(Sim), Mine.path # boundary.path
  PROVE  OrderInv'
<1>1. /\ pc[Sim] = "refresh" /\ pc'[Sim] = "zero" /\ boundary'.epoch = boundary.epoch + 1
      /\ UNCHANGED <<ring, writeCursor, published, lastPublished>>
  BY SimRefresh DEF At, pubKept
<1>2. WrittenWindow' = WrittenWindow /\ \A e \in WrittenWindow : e \in Nat
  BY <1>1, OrderTyped DEF WrittenWindow, Written, Unwritten
<1>3. Counted'
  BY <1>1 DEF OrderInv, Counted, Unwritten, Accepted
<1>4. Increasing'
  BY <1>1, <1>2 DEF OrderInv, Increasing, EventAt, RingIndex
<1>5. \A e \in WrittenWindow : EventAt(e).epoch < boundary'.epoch /\ EventAt(e).epoch \in Nat
  BY <1>1, <1>2, OrderTyped DEF OrderInv, Bounded
<1>6. \A e \in WrittenWindow : EventAt(e).epoch <= boundary'.epoch /\ EventAt(e).epoch # boundary'.epoch
  BY <1>1, <1>5, OrderTyped
<1>7. Bounded'
  BY <1>1, <1>2, <1>6 DEF Bounded, EventAt, RingIndex
<1> QED
  BY <1>3, <1>4, <1>7 DEF OrderInv

\* The last date is zeroed while the epoch has no events.
LEMMA OrderZero ==
  ASSUME TypeInv, OrderInv, ZeroLast(Sim)
  PROVE  OrderInv'
<1>1. /\ pc[Sim] = "zero" /\ pc'[Sim] = "refreshReset"
      /\ UNCHANGED <<ring, writeCursor, published, boundary>>
  BY SimZeroLast DEF At, pubKept
<1>2. WrittenWindow' = WrittenWindow
  BY <1>1 DEF WrittenWindow, Written, Unwritten
<1>3. Counted'
  BY <1>1 DEF OrderInv, Counted, Unwritten, Accepted
<1>4. Increasing'
  BY <1>1, <1>2 DEF OrderInv, Increasing, EventAt, RingIndex
<1>5. Bounded'
  BY <1>1, <1>2 DEF OrderInv, Bounded, EventAt, RingIndex, Resetting
<1> QED
  BY <1>3, <1>4, <1>5 DEF OrderInv

\* The exchange accepts a date later than every event of the epoch.
LEMMA OrderExchange ==
  ASSUME TypeInv, SimHere, OrderInv, CompareExchange(Sim), pc'[Sim] = "reserve"
  PROVE  OrderInv'
<1>1. /\ pc[Sim] = "cas" /\ lastPublished = Mine.seen /\ lastPublished' = Mine.date
      /\ UNCHANGED <<ring, writeCursor, published, boundary, Mine>>
      /\ Mine.date # 0
  BY SimCompareExchange DEF At, pubKept, SimHere
<1>2. WrittenWindow' = WrittenWindow /\ \A e \in WrittenWindow : e \in Nat
  BY <1>1, OrderTyped DEF WrittenWindow, Written, Unwritten
<1>3. Counted'
  BY <1>1 DEF OrderInv, Counted, Unwritten, Accepted
<1>4. Increasing'
  BY <1>1, <1>2 DEF OrderInv, Increasing, EventAt, RingIndex
<1>5. lastPublished < Mine.date
  BY <1>1, OrderTyped DEF OrderInv, Counted
<1>6. \A e \in WrittenWindow : EventAt(e).epoch = boundary.epoch => EventAt(e).date < Mine.date
  <2> SUFFICES ASSUME NEW e \in WrittenWindow, EventAt(e).epoch = boundary.epoch
               PROVE  EventAt(e).date < Mine.date
    OBVIOUS
  <2>1. EventAt(e).date <= lastPublished
    BY <1>1 DEF OrderInv, Bounded, Accepted, Unwritten
  <2>2. EventAt(e).date \in Nat
    BY <1>2, OrderTyped
  <2> QED
    BY <1>5, <2>1, <2>2, OrderTyped
<1>7. Bounded'
  BY <1>1, <1>2, <1>6 DEF OrderInv, Bounded, EventAt, RingIndex, Resetting, Accepted
<1> QED
  BY <1>3, <1>4, <1>7 DEF OrderInv

\* A reservation leaves the written events as they are.
LEMMA OrderReserve ==
  ASSUME TypeInv, OrderInv, Reserve(Sim)
  PROVE  OrderInv'
<1>1. /\ pc[Sim] = "reserve" /\ pc'[Sim] = "acceptPath"
      /\ Mine'.event = writeCursor /\ writeCursor' = writeCursor + 1
      /\ Mine'.date = Mine.date
      /\ UNCHANGED <<ring, published, boundary, lastPublished>>
  BY SimReserve DEF At, KeepsDay
<1>2. Written' = Written /\ Written = writeCursor
  BY <1>1, OrderTyped DEF Written, Unwritten
<1>3. WrittenWindow' = WrittenWindow
  BY <1>2 DEF WrittenWindow
<1>4. Counted'
  BY <1>1, <1>2, OrderTyped DEF OrderInv, Counted, Unwritten, Accepted
<1>5. Increasing'
  BY <1>1, <1>3 DEF OrderInv, Increasing, EventAt, RingIndex
<1>6. Bounded'
  BY <1>1, <1>3 DEF OrderInv, Bounded, EventAt, RingIndex, Resetting, Accepted, Unwritten
<1> QED
  BY <1>4, <1>5, <1>6 DEF OrderInv

\* The written event is the latest of its epoch and evicts the oldest event.
LEMMA OrderWrite ==
  ASSUME TypeInv, OrderInv, WriteSlot(Sim)
  PROVE  OrderInv'
<1>0. Written \in Nat /\ pc[Sim] = "write"
  BY SimWriteSlot, OrderTyped DEF At, Written, Unwritten, OrderInv, Counted
<1> PICK w \in Nat : w = Written
  BY <1>0
<1>1. /\ pc[Sim] = "write" /\ pc'[Sim] = "bump"
      /\ ring' = [ring EXCEPT ![w % RingSize] =
                     [date |-> Mine.date, epoch |-> boundary.epoch]]
      /\ UNCHANGED <<writeCursor, published, boundary, lastPublished, Mine>>
      /\ lastPublished = Mine.date
      /\ writeCursor = published + 1
  BY SimWriteSlot DEF At, RingIndex, OrderInv, Counted, Unwritten, Accepted
<1>2. /\ Written' = w + 1
      /\ WrittenWindow = {e \in 0 .. w - 1 : e >= w - RingSize}
      /\ WrittenWindow' = {e \in 0 .. w : e >= (w + 1) - RingSize}
  <2>1. Written' = w + 1
    BY <1>1, OrderTyped DEF Written, Unwritten
  <2>2. WrittenWindow' = {e \in 0 .. (w + 1) - 1 : e >= (w + 1) - RingSize}
    BY <2>1 DEF WrittenWindow
  <2>3. WrittenWindow = {e \in 0 .. w - 1 : e >= w - RingSize}
    BY DEF WrittenWindow
  <2>4. 0 .. (w + 1) - 1 = 0 .. w
    <3>1. (w + 1) - 1 = w
      OBVIOUS
    <3> QED
      BY <3>1, Zenon
  <2>5. {e \in 0 .. (w + 1) - 1 : e >= (w + 1) - RingSize}
            = {e \in 0 .. w : e >= (w + 1) - RingSize}
    BY <2>4, Zenon
  <2> QED
    BY <2>1, <2>2, <2>3, <2>5
<1>3. \A e \in WrittenWindow' :
        /\ e \in Nat /\ (e = w \/ e < w)
        /\ e < w => e \in WrittenWindow /\ w - e < RingSize
  BY <1>2, OrderTyped
<1>4. w % RingSize \in 0 .. RingSize - 1
  BY SlotOf
<1>5. ring'[w % RingSize] = [date |-> Mine.date, epoch |-> boundary.epoch]
  BY <1>1, <1>4, OrderTyped
<1>6. \A e \in WrittenWindow' : e < w => ring'[e % RingSize] = ring[e % RingSize]
  <2> SUFFICES ASSUME NEW e \in WrittenWindow', e < w
               PROVE  ring'[e % RingSize] = ring[e % RingSize]
    OBVIOUS
  <2>0. e \in Nat /\ w - e < RingSize
    BY <1>3
  <2>1. e % RingSize # w % RingSize /\ e % RingSize \in 0 .. RingSize - 1
    BY <2>0, SlotsDiffer, SlotOf
  <2> QED
    BY <1>1, <2>1, OrderTyped
<1>7. \A e \in WrittenWindow :
        /\ ring[e % RingSize].epoch <= boundary.epoch
        /\ ring[e % RingSize].epoch = boundary.epoch => ring[e % RingSize].date < Mine.date
  BY <1>1 DEF OrderInv, Bounded, EventAt, RingIndex, Accepted, Unwritten
<1>8. \A e, f \in WrittenWindow :
        e < f /\ ring[e % RingSize].epoch = ring[f % RingSize].epoch =>
            ring[e % RingSize].date < ring[f % RingSize].date
  BY DEF OrderInv, Increasing, EventAt, RingIndex
<1>9. Counted'
  BY <1>1 DEF Counted, Unwritten, Accepted
<1>10. Increasing'
  <2> SUFFICES ASSUME NEW e \in WrittenWindow', NEW f \in WrittenWindow', e < f,
                      ring'[e % RingSize].epoch = ring'[f % RingSize].epoch
               PROVE  ring'[e % RingSize].date < ring'[f % RingSize].date
    BY DEF Increasing, EventAt, RingIndex
  <2>1. e < w /\ e \in WrittenWindow /\ ring'[e % RingSize] = ring[e % RingSize]
    BY <1>3, <1>6
  <2>2. CASE f = w
    BY <1>5, <1>7, <2>1, <2>2
  <2>3. CASE f < w
    BY <1>3, <1>6, <1>8, <2>1, <2>3
  <2> QED
    BY <1>3, <2>2, <2>3
<1>11. Bounded'
  <2> SUFFICES ASSUME NEW e \in WrittenWindow'
               PROVE  /\ ring'[e % RingSize].epoch <= boundary.epoch
                      /\ ring'[e % RingSize].epoch = boundary.epoch =>
                           ring'[e % RingSize].date <= lastPublished
    BY <1>1 DEF Bounded, EventAt, RingIndex, Resetting, Accepted, Unwritten
  <2>1. CASE e = w
    BY <1>1, <1>5, <2>1, OrderTyped
  <2>2. CASE e < w
    <3>1. e \in WrittenWindow /\ ring'[e % RingSize] = ring[e % RingSize] /\ e \in Nat
      BY <1>3, <1>6, <2>2
    <3>2. ring[e % RingSize].date \in Nat
      BY <3>1, OrderTyped DEF EventAt, RingIndex
    <3> QED
      BY <1>1, <1>7, <3>1, <3>2, OrderTyped
  <2> QED
    BY <1>3, <2>1, <2>2
<1> QED
  BY <1>9, <1>10, <1>11 DEF OrderInv

\* The count of a written event.
LEMMA OrderCount ==
  ASSUME TypeInv, OrderInv, Bump(Sim)
  PROVE  OrderInv'
<1>1. /\ pc[Sim] = "bump" /\ pc'[Sim] = "latest" /\ published' = published + 1
      /\ UNCHANGED <<ring, writeCursor, boundary, lastPublished, Mine>>
  BY SimBump DEF At
<1>2. WrittenWindow' = WrittenWindow
  BY <1>1 DEF WrittenWindow, Written, Unwritten
<1>3. Counted'
  BY <1>1, OrderTyped DEF OrderInv, Counted, Unwritten, Accepted
<1>4. Increasing'
  BY <1>1, <1>2 DEF OrderInv, Increasing, EventAt, RingIndex
<1>5. Bounded'
  BY <1>1, <1>2 DEF OrderInv, Bounded, EventAt, RingIndex, Resetting, Accepted, Unwritten
<1> QED
  BY <1>3, <1>4, <1>5 DEF OrderInv

\* Every step of the game or of the lone game thread.
LEMMA OrderStep ==
  ASSUME TypeInv, SimHere, InScope, OrderInv,
         UNCHANGED vars \/ Game \/ Publish(Sim) \/ Dispatch(Sim)
  PROVE  OrderInv'
<1> USE DEF At, pubKept, slotsKept
<1>1. CASE UNCHANGED vars
  <2>1. UNCHANGED <<ring, writeCursor, published, boundary, lastPublished, pc, local>>
    BY <1>1 DEF vars
  <2> QED
    BY <2>1, OrderKept DEF Mine, OrderInv, Counted
<1>2. CASE Game
  <2>1. /\ UNCHANGED <<ring, writeCursor, published, boundary, lastPublished>>
        /\ pc[Sim] = "idle" /\ pc'[Sim] \in {"idle", "readPath"}
    <3>1. ASSUME NEW s \in Saves, LoadSave(s)
          PROVE  /\ UNCHANGED <<ring, writeCursor, published, boundary, lastPublished>>
                 /\ pc[Sim] = "idle" /\ pc'[Sim] = "idle"
      BY <3>1 DEF LoadSave, gameOnly, eventVars, scopeVars
    <3>2. CASE FinishLoad
      <4>1. /\ UNCHANGED <<pc, ring, writeCursor, published, boundary, lastPublished>>
            /\ game.date = 0
        BY <3>2 DEF FinishLoad, LoadDone, gameOnly, eventVars, scopeVars
      <4> QED
        BY <4>1 DEF SimHere
    <3>3. CASE AdvanceDay \/ ReportAgain
      BY <3>3, SimReports
    <3> QED
      BY <1>2, <3>1, <3>2, <3>3 DEF Game
  <2> QED
    BY <2>1, OrderKept DEF Unwritten, Accepted, Resetting
<1>3. CASE Publish(Sim)
  <2> USE DEF Unwritten, Accepted, Resetting
  <2>1. CASE ReadPath(Sim)
    BY <2>1, SimReadPath, OrderKept DEF KeepsDay
  <2>2. CASE Refresh(Sim) /\ Mine.path = boundary.path
    BY <2>2, SimRefresh, OrderKept
  <2>3. CASE RefreshReset(Sim)
    BY <2>3, SimRefreshReset, OrderKept
  <2>4. CASE Decide(Sim)
    <3>1. /\ pc[Sim] = "decide" /\ pc'[Sim] \in {"latest", "cas"}
          /\ pc'[Sim] = "cas" =>
               lastPublished = 0 \/ Mine.date = lastPublished + 1
          /\ Mine'.seen = lastPublished /\ Mine'.date = Mine.date
          /\ UNCHANGED <<ring, writeCursor, published, boundary, lastPublished>>
      BY <2>4, SimDecide DEF KeepsDay
    <3>2. lastPublished < lastPublished + 1
      BY OrderTyped
    <3> QED
      BY <3>1, <3>2, OrderKept
  <2>5. CASE CompareExchange(Sim) /\ pc'[Sim] # "reserve"
    BY <2>5, SimCompareExchange, OrderKept
  <2>6. CASE RecordAccept(Sim)
    <3>1. boundary.path = game.save /\ Mine.path = game.save
      BY <2>6, SimRecordAccept DEF InScope, SimHere, Scoped
    <3> QED
      BY <2>6, <3>1, SimRecordAccept, OrderKept DEF KeepsDay
  <2>7. CASE CompareLatest(Sim)
    BY <2>7, SimCompareLatest, OrderKept
  <2> QED
    BY <1>3, <2>1, <2>2, <2>3, <2>4, <2>5, <2>6, <2>7, OrderEpoch, OrderZero,
       OrderExchange, OrderReserve, OrderWrite, OrderCount DEF Publish
<1>4. CASE Dispatch(Sim)
  <2>1. UNCHANGED <<ring, writeCursor, published, boundary, lastPublished>>
    BY <1>4 DEF Dispatch, Check, Claim, Recheck, CallbackDone, CallbackDefers, Finish,
       Release, DispatchReturns, dispatchOnly, eventVars, scopeVars
  <2>2. PICK from, to : /\ Goto(Sim, from, to) /\ from \in Dispatching
                        /\ to \in Dispatching \cup {"idle"}
    BY <1>4 DEF Dispatch, Check, Claim, Recheck, CallbackDone, CallbackDefers, Finish,
       Release, DispatchReturns, Dispatching
  <2>3. pc[Sim] = from /\ pc'[Sim] = to
    BY <2>2, SimAt
  <2> QED
    BY <2>1, <2>2, <2>3, OrderKept DEF Unwritten, Accepted, Resetting, Dispatching
<1> QED
  BY <1>1, <1>2, <1>3, <1>4

LEMMA OrderInit == Init => OrderInv
<1> SUFFICES ASSUME Init PROVE OrderInv
  OBVIOUS
<1>1. /\ pc[Sim] = "idle" /\ writeCursor = 1 /\ published = 1 /\ lastPublished = 1
      /\ boundary.epoch = 2
  BY DEF Init, Threads
<1>2. WrittenWindow \subseteq {0}
  BY <1>1 DEF WrittenWindow, Written, Unwritten
<1>3. EventAt(0) = [date |-> 1, epoch |-> 2]
  <2>1. RingIndex(0) = 0 /\ 0 \in 0 .. RingSize - 1
    BY DateTickAssumption, SlotOf DEF RingIndex
  <2> QED
    BY <2>1 DEF Init, EventAt
<1>4. Counted
  BY <1>1 DEF Counted, Unwritten, Accepted
<1>5. Increasing
  BY <1>2 DEF Increasing
<1>6. Bounded
  BY <1>1, <1>2, <1>3 DEF Bounded, Resetting, Accepted, Unwritten
<1> QED
  BY <1>4, <1>5, <1>6 DEF OrderInv

\* As long as the game thread is the only publisher the ring holds the days of a
\* save epoch in strict calendar order, whatever is loaded, reloaded or reported
\* twice, so no consumer drops a date for having met a later one.
THEOREM RingOrdered == Spec => []RingInDateOrder
<1> DEFINE Inv == GameThreadAlone => OrderInv
<1>1. Init => Inv
  BY OrderInit
<1>2. AloneDone /\ Inv /\ [Next]_vars => Inv'
  <2> SUFFICES ASSUME AloneDone, Inv, [Next]_vars, GameThreadAlone' PROVE OrderInv'
    OBVIOUS
  <2>1. TypeInv /\ Unmet /\ SimHere
    BY DEF AloneDone
  <2>2. GameThreadAlone /\ (UNCHANGED vars \/ Game \/ Publish(Sim) \/ Dispatch(Sim))
    BY <2>1, AloneStep
  <2>3. InScope /\ OrderInv
    BY <2>2 DEF AloneDone, DoneInv
  <2> QED
    BY <2>1, <2>2, <2>3, OrderStep
<1>3. AloneDone /\ Inv => RingInDateOrder
  <2> SUFFICES ASSUME AloneDone, OrderInv, Publishing = {}
               PROVE  RingInDateOrder
    BY DEF RingInDateOrder
  <2>1. pc[Sim] \notin Unwritten \cup {"bump"}
    BY DEF Publishing, Unwritten, Threads
  <2>2. writeCursor = published + 0 /\ Written = writeCursor
    BY <2>1 DEF OrderInv, Counted, Written
  <2>3. Written = published
    BY <2>2, OrderTyped DEF AloneDone
  <2>4. \A e, f \in {e \in 0 .. published - 1 : e >= published - RingSize} :
          e < f /\ ring[RingIndex(e)].epoch = ring[RingIndex(f)].epoch =>
              ring[RingIndex(e)].date <= ring[RingIndex(f)].date
    <3> SUFFICES ASSUME NEW e \in WrittenWindow, NEW f \in WrittenWindow, e < f,
                        EventAt(e).epoch = EventAt(f).epoch
                 PROVE  EventAt(e).date <= EventAt(f).date
      BY <2>3 DEF EventAt, WrittenWindow
    <3>1. e \in Nat /\ f \in Nat
      BY <2>3, OrderTyped DEF WrittenWindow, AloneDone
    <3>2. EventAt(e).date < EventAt(f).date
      BY DEF OrderInv, Increasing
    <3> QED
      BY <3>1, <3>2, OrderTyped DEF AloneDone
  <2> QED
    BY <2>4 DEF RingInDateOrder
<1> QED
  BY <1>1, <1>2, <1>3, AloneDoneInvariant, PTL DEF Spec

=============================================================================
