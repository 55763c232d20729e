------------------------------ MODULE DateTick ------------------------------
(***************************************************************************)
(* The central date publication boundary of the native runtime             *)
(* (native/src/core/dates/tick and native/src/core/dates/boundary).        *)
(*                                                                         *)
(* The game thread Sim calls kbo_current_date_tick_publish_and_dispatch    *)
(* from the post-advance hook and the date watchpoint.  The threads in     *)
(* Pollers own a date consumer with EMIT_CURRENT_ON_SAVE_ENTER; when their *)
(* consumer meets a save it has processed no date of, they call            *)
(* kbo_current_date_tick_publish_save_enter_current.  Both calls go        *)
(* through publish_core and then run the synchronous consumers.            *)
(*                                                                         *)
(* One step of a thread is one access to shared memory, or one critical    *)
(* section of a lock.  The game itself (which save is loaded, which date   *)
(* it shows) is the environment.  Dates are day numbers: the day after d   *)
(* is d + 1, and 0 is the code's "no date".                                *)
(***************************************************************************)
EXTENDS Integers, Sequences, FiniteSets

CONSTANTS
    Sim,        \* the game's simulation thread
    Pollers,    \* background threads that own a save-enter date consumer
    SlotCount,  \* registered synchronous consumers, 1 .. n in dispatch order
    Saves,      \* save paths
    NoSave,     \* the empty path
    RingSize,   \* slots of the event ring (256 in the code)
    MayReload,  \* may the player load a save the runtime takes for current?
    MaxDate,    \* bound: last day the game reaches
    MaxLoads,   \* bound: how many times the player loads a save
    MaxDefers,  \* bound: how many times a callback answers "deferred"
    MaxEvents   \* bound: pollers start no call beyond this many events

ASSUME DateTickAssumption ==
    /\ IsFiniteSet(Pollers) /\ Sim \notin Pollers
    /\ NoSave \notin Saves
    /\ MayReload \in BOOLEAN
    /\ {SlotCount, MaxLoads, MaxDefers, MaxEvents} \subseteq Nat
    /\ {MaxDate, RingSize} \subseteq Nat \ {0}

Threads == Pollers \cup {Sim}
Slots == 1 .. SlotCount
Dates == 1 .. MaxDate
DatesOrNone == 0 .. MaxDate

VARIABLES
    game,            \* the loaded save, its date (0 while loading), and how
                     \* much of MaxLoads and MaxDefers is used
    lastPublished,   \* g_kbo_current_date_tick_last_published_date
    writeCursor,     \* g_kbo_current_date_tick_event_write_cursor
    published,       \* g_kbo_current_date_tick_event_published_sequence
    ring,            \* g_kbo_current_date_tick_event_dates and _save_epochs
    scopePath,       \* g_kbo_current_date_tick_save_scope_path
    boundary,        \* g_kbo_date_boundary_save_path and _save_epoch
    lastDispatched,  \* last_dispatched_date of each synchronous consumer
    processing,      \* processing_date of each synchronous consumer
    pc,              \* the next step of each thread
    local,           \* the locals of the call each thread is in
    consumer,        \* of each poller: consumer->save_path, the cursor's
                     \* next_sequence, and whether the consumer has neither a
                     \* processed nor a pending date
    log,             \* observation only: date of each reserved event
    done             \* observation only: <<slot, load, date>> of callbacks that
                     \* did their work

vars == <<game, lastPublished, writeCursor, published, ring, scopePath,
          boundary, lastDispatched, processing, pc, local, consumer, log, done>>

\* Locals: the date and the previous date, the save path read last, the
\* reserved event and its epoch; the dispatch position, the callback's answer
\* and the load it ran in, and the result of the dispatch.
NoLocals == [date |-> 0, seen |-> 0, path |-> NoSave, event |-> 0, epoch |-> 0,
             slot |-> 1, ok |-> FALSE, load |-> 0, complete |-> TRUE]

EmptySlot == [date |-> 0, epoch |-> 0]

\* A poller's consumer as kbo_current_date_tick_consumer_init leaves it, and one
\* that has processed the first date of save s.
NewConsumer == [path |-> NoSave, next |-> 1, fresh |-> TRUE]
EnteredConsumer(s) == [path |-> s, next |-> 1, fresh |-> FALSE]

(***************************************************************************)
(* The runtime is modelled from the moment the marker-wait thread has      *)
(* published the first date of a save and the synchronous consumers are    *)
(* registered.                                                             *)
(***************************************************************************)
Init ==
    /\ \E s \in Saves :
         /\ game = [save |-> s, date |-> 1, loads |-> 0, defers |-> 0]
         /\ scopePath = s
         /\ boundary = [path |-> s, epoch |-> 2]
    /\ lastPublished = 1
    /\ writeCursor = 1
    /\ published = 1
    /\ ring = [i \in 0 .. RingSize - 1 |->
                 IF i = 0 THEN [date |-> 1, epoch |-> 2] ELSE EmptySlot]
    /\ lastDispatched = [i \in Slots |-> 0]
    /\ processing = [i \in Slots |-> 0]
    /\ pc = [t \in Threads |-> "idle"]
    /\ local = [t \in Threads |-> NoLocals]
    /\ consumer \in [Pollers -> {NewConsumer, EnteredConsumer(game.save)}]
    /\ log = <<1>>
    /\ done = {}

slotVars == <<lastDispatched, processing>>
eventVars == <<writeCursor, published, ring, log>>
scopeVars == <<scopePath, boundary>>

Goto(t, from, to) ==
    /\ pc[t] = from
    /\ pc' = [pc EXCEPT ![t] = to]

(***************************************************************************)
(* The game.                                                               *)
(***************************************************************************)
gameOnly == <<lastPublished, eventVars, scopeVars, slotVars, consumer, done>>

\* The player loads a save: its path is visible before its date is readable.
\* The game thread is in the loader, not in a hook.
LoadSave(s) ==
    /\ game.loads < MaxLoads
    /\ game.date # 0
    /\ pc[Sim] = "idle"
    /\ ~MayReload => s \notin {game.save, scopePath, boundary.path}
    /\ game' = [save |-> s, date |-> 0, loads |-> game.loads + 1,
                defers |-> game.defers]
    /\ UNCHANGED <<pc, local, gameOnly>>

LoadDone(d) ==
    /\ game.date = 0
    /\ game' = [game EXCEPT !.date = d]
    /\ UNCHANGED <<pc, local, gameOnly>>

\* The simulation advances a day and reaches the post-advance hook.
AdvanceDay ==
    /\ game.date \in 1 .. MaxDate - 1
    /\ game' = [game EXCEPT !.date = @ + 1]
    /\ Goto(Sim, "idle", "readPath")
    /\ local' = [local EXCEPT ![Sim].date = game.date + 1]
    /\ UNCHANGED gameOnly

\* A second live source, the watchpoint on the date field, reports the date
\* the game shows: after the hook already did, or when a load wrote it.
ReportAgain ==
    /\ game.date # 0
    /\ Goto(Sim, "idle", "readPath")
    /\ local' = [local EXCEPT ![Sim].date = game.date]
    /\ UNCHANGED <<game, gameOnly>>

(***************************************************************************)
(* A poller's consumer meets a save: kbo_current_date_tick_consumer_next   *)
(* up to and including publish_save_enter_current.                         *)
(***************************************************************************)

\* Mutant: a consumer that meets another save forgets to start afresh.
ConsumerPollKeepsOldState(t) ==
    /\ game.save # consumer[t].path \/ consumer[t].fresh
    /\ writeCursor < MaxEvents
    /\ Goto(t, "idle", "scope")
    /\ consumer' = [consumer EXCEPT ![t].path = game.save]
    /\ UNCHANGED <<game, lastPublished, eventVars, scopeVars, slotVars, local,
                   done>>

\* refresh_save_path, then the test that leads to the save-enter call.  A save
\* that replaces another one skips the cursor to the latest event; the first
\* known save keeps the events published before it.
ConsumerPoll(t) ==
    /\ game.save # consumer[t].path \/ consumer[t].fresh
    /\ writeCursor < MaxEvents
    /\ Goto(t, "idle", "scope")
    /\ consumer' = [consumer EXCEPT ![t] =
          [path |-> game.save, fresh |-> TRUE,
           next |-> IF consumer[t].path \in {NoSave, game.save}
                      THEN consumer[t].next ELSE published]]
    /\ UNCHANGED <<game, lastPublished, eventVars, scopeVars, slotVars, local,
                   done>>

\* The critical section of save_scope_lock.
EnterScope(t) ==
    /\ \/ /\ Goto(t, "scope", "scopeReset")
          /\ scopePath # consumer[t].path
          /\ scopePath' = consumer[t].path
          /\ lastPublished' = 0
       \/ /\ Goto(t, "scope", "today")
          /\ scopePath = consumer[t].path
          /\ UNCHANGED <<scopePath, lastPublished>>
    /\ UNCHANGED <<game, eventVars, boundary, slotVars, local, consumer, done>>

\* Mutant: the cleared dates are written as -1.
ResetSyncDatesToMinusOne ==
    /\ lastDispatched' = [i \in Slots |-> -1]
    /\ processing' = [i \in Slots |-> -1]

\* kbo_current_date_tick_reset_sync_consumer_dates clears both dates of every
\* slot, whether or not a callback is running.
ResetSyncDates ==
    /\ lastDispatched' = [i \in Slots |-> 0]
    /\ processing' = [i \in Slots |-> 0]

ScopeReset(t) ==
    /\ Goto(t, "scopeReset", "today")
    /\ ResetSyncDates
    /\ UNCHANGED <<game, lastPublished, eventVars, scopeVars, local, consumer,
                   done>>

\* kbo_get_current_yyyymmdd: an unreadable date ends the call.
ReadToday(t) ==
    /\ Goto(t, "today", IF game.date = 0 THEN "peek" ELSE "readPath")
    /\ local' = [local EXCEPT ![t].date = game.date]
    /\ UNCHANGED <<game, lastPublished, eventVars, scopeVars, slotVars,
                   consumer, done>>

\* After the save-enter call the consumer takes the first event its cursor
\* leaves that has a date.  What it does with it is the subject of TickConsumer.
ConsumerPeek(t) ==
    /\ Goto(t, "peek", "idle")
    /\ LET readable == {e \in consumer[t].next .. published - 1 :
                          e >= published - RingSize /\ ring[e % RingSize].date # 0}
       IN  consumer' = [consumer EXCEPT ![t] =
              [path |-> consumer[t].path, fresh |-> readable = {}, next |-> published]]
    /\ local' = [local EXCEPT ![t] = NoLocals]
    /\ UNCHANGED <<game, lastPublished, eventVars, scopeVars, slotVars, done>>

(***************************************************************************)
(* kbo_current_date_tick_publish_core.                                     *)
(***************************************************************************)

\* The boundary reads the current save path first ...
ReadPath(t) ==
    /\ \/ Goto(t, "readPath", "refresh")
       \/ Goto(t, "acceptPath", "accept")
    /\ local' = [local EXCEPT ![t].path = game.save]
    /\ UNCHANGED <<game, lastPublished, eventVars, scopeVars, slotVars,
                   consumer, done>>

\* ... and compares it under its lock: kbo_date_boundary_refresh_save_scope.
ScopeChanged(t) == local[t].path # boundary.path
\* Mutant: a new path without a new epoch.
RefreshedBoundarySameEpoch(t) ==
    IF ScopeChanged(t) THEN [boundary EXCEPT !.path = local[t].path] ELSE boundary

RefreshedBoundary(t) ==
    IF ScopeChanged(t)
      THEN [path |-> local[t].path, epoch |-> boundary.epoch + 1]
      ELSE boundary

Refresh(t) ==
    /\ Goto(t, "refresh", IF ScopeChanged(t) THEN "zero" ELSE "decide")
    /\ boundary' = RefreshedBoundary(t)
    /\ UNCHANGED <<game, lastPublished, eventVars, scopePath, slotVars, local,
                   consumer, done>>

\* Mutant: the old save's last date stays.
ZeroLastSkipped(t) ==
    /\ Goto(t, "zero", "refreshReset")
    /\ UNCHANGED <<game, lastPublished, eventVars, scopeVars, slotVars, local,
                   consumer, done>>

\* A new scope starts without a published date ...
ZeroLast(t) ==
    /\ Goto(t, "zero", "refreshReset")
    /\ lastPublished' = 0
    /\ UNCHANGED <<game, eventVars, scopeVars, slotVars, local, consumer, done>>

\* Mutant: the consumers' dates of the old save stay.
RefreshResetSkipped(t) ==
    /\ Goto(t, "refreshReset", "decide")
    /\ UNCHANGED <<game, lastPublished, eventVars, scopeVars, slotVars, local,
                   consumer, done>>

\* ... and without dispatched ones.
RefreshReset(t) ==
    /\ Goto(t, "refreshReset", "decide")
    /\ ResetSyncDates
    /\ UNCHANGED <<game, lastPublished, eventVars, scopeVars, local, consumer,
                   done>>

\* A date already published is a duplicate, published again on save enter
\* only.  A save-enter date must be the first of its scope; a live date is
\* the first or the day after the last.
Duplicate(t) == lastPublished = local[t].date
Acceptable(t) ==
    \/ lastPublished = 0
    \/ t = Sim /\ local[t].date = lastPublished + 1

\* Where a rejected date leads: the live call compares the latest published
\* date, the save-enter call returns to its consumer.
Rejected(t) == IF t = Sim THEN "latest" ELSE "peek"

Decide(t) ==
    /\ \/ /\ Goto(t, "decide", IF t = Sim THEN Rejected(t) ELSE "reserve")
          /\ Duplicate(t)
       \/ /\ Goto(t, "decide", IF Acceptable(t) THEN "cas" ELSE Rejected(t))
          /\ ~Duplicate(t)
    /\ local' = [local EXCEPT ![t].seen = lastPublished]
    /\ UNCHANGED <<game, lastPublished, eventVars, scopeVars, slotVars,
                   consumer, done>>

\* Mutant: after interference the exchange is retried with the stale value.
CompareExchangeRetriesStale(t) ==
    /\ \/ /\ Goto(t, "cas", "reserve")
          /\ lastPublished = local[t].seen
          /\ lastPublished' = local[t].date
       \/ /\ Goto(t, "cas", "cas")
          /\ lastPublished # local[t].seen
          /\ UNCHANGED lastPublished
    /\ UNCHANGED <<game, eventVars, scopeVars, slotVars, local, consumer, done>>

\* InterlockedCompareExchange of last_published_date; after interference the
\* loop reads it again.
CompareExchange(t) ==
    /\ \/ /\ Goto(t, "cas", "reserve")
          /\ lastPublished = local[t].seen
          /\ lastPublished' = local[t].date
       \/ /\ Goto(t, "cas", "decide")
          /\ lastPublished # local[t].seen
          /\ UNCHANGED lastPublished
    /\ UNCHANGED <<game, eventVars, scopeVars, slotVars, local, consumer, done>>

Reserve(t) ==
    /\ Goto(t, "reserve", "acceptPath")
    /\ local' = [local EXCEPT ![t].event = writeCursor]
    /\ writeCursor' = writeCursor + 1
    /\ log' = Append(log, local[t].date)
    /\ UNCHANGED <<game, lastPublished, published, ring, scopeVars, slotVars,
                   consumer, done>>

\* kbo_date_boundary_record_accept refreshes the scope once more; a change
\* seen here moves the epoch but resets neither lastPublished nor the slots.
RecordAccept(t) ==
    /\ Goto(t, "accept", "write")
    /\ boundary' = RefreshedBoundary(t)
    /\ local' = [local EXCEPT ![t].epoch = boundary'.epoch]
    /\ UNCHANGED <<game, lastPublished, eventVars, scopePath, slotVars,
                   consumer, done>>

RingIndex(event) == event % RingSize

\* Mutant: the slot is taken from the published count, not the reservation.
WriteSlotAtPublished(t) ==
    /\ Goto(t, "write", "bump")
    /\ ring' = [ring EXCEPT ![RingIndex(published)] =
                    [date |-> local[t].date, epoch |-> local[t].epoch]]
    /\ UNCHANGED <<game, lastPublished, writeCursor, published, log, scopeVars,
                   slotVars, local, consumer, done>>

WriteSlot(t) ==
    /\ Goto(t, "write", "bump")
    /\ ring' = [ring EXCEPT ![RingIndex(local[t].event)] =
                    [date |-> local[t].date, epoch |-> local[t].epoch]]
    /\ UNCHANGED <<game, lastPublished, writeCursor, published, log, scopeVars,
                   slotVars, local, consumer, done>>

\* Mutant: published_sequence is set to the reserved number plus one.
BumpStores(t) ==
    /\ Goto(t, "bump", IF t = Sim THEN "latest" ELSE "check")
    /\ published' = local[t].event + 1
    /\ UNCHANGED <<game, lastPublished, writeCursor, ring, log, scopeVars,
                   slotVars, local, consumer, done>>

\* published_sequence is incremented, not set to the reserved number.
Bump(t) ==
    /\ Goto(t, "bump", IF t = Sim THEN "latest" ELSE "check")
    /\ published' = published + 1
    /\ UNCHANGED <<game, lastPublished, writeCursor, ring, log, scopeVars,
                   slotVars, local, consumer, done>>

\* publish_and_dispatch dispatches when its date is the latest one, published
\* by this call or before.
CompareLatest(t) ==
    /\ \/ /\ Goto(t, "latest", "check")
          /\ lastPublished = local[t].date
          /\ UNCHANGED local
       \/ /\ Goto(t, "latest", "idle")
          /\ lastPublished # local[t].date
          /\ local' = [local EXCEPT ![t] = NoLocals]
    /\ UNCHANGED <<game, lastPublished, eventVars, scopeVars, slotVars,
                   consumer, done>>

(***************************************************************************)
(* kbo_current_date_tick_dispatch_sync_consumers: the registered slots in  *)
(* (phase, ordinal) order, which is 1 .. SlotCount here.                   *)
(***************************************************************************)
MySlot(t) == local[t].slot
dispatchOnly == <<lastPublished, eventVars, scopeVars, consumer>>

\* last_dispatched_date is this date already: skip the slot.
Check(t) ==
    /\ MySlot(t) \in Slots
    /\ \/ /\ Goto(t, "check", "check")
          /\ lastDispatched[MySlot(t)] = local[t].date
          /\ local' = [local EXCEPT ![t].slot = @ + 1]
       \/ /\ Goto(t, "check", "claim")
          /\ lastDispatched[MySlot(t)] # local[t].date
          /\ UNCHANGED local
    /\ UNCHANGED <<game, dispatchOnly, slotVars, done>>

\* Mutant: processing_date is stored without a compare.
ClaimAlways(t) ==
    /\ Goto(t, "claim", "recheck")
    /\ processing' = [processing EXCEPT ![MySlot(t)] = local[t].date]
    /\ UNCHANGED <<game, dispatchOnly, lastDispatched, local, done>>

\* processing_date is claimed by compare-exchange; a busy slot is left to
\* its owner and the dispatch is incomplete.
Claim(t) ==
    /\ \/ /\ Goto(t, "claim", "recheck")
          /\ processing[MySlot(t)] = 0
          /\ processing' = [processing EXCEPT ![MySlot(t)] = local[t].date]
          /\ UNCHANGED local
       \/ /\ Goto(t, "claim", "check")
          /\ processing[MySlot(t)] # 0
          /\ local' = [local EXCEPT ![t] =
                [local[t] EXCEPT !.slot = MySlot(t) + 1, !.complete = FALSE]]
          /\ UNCHANGED processing
    /\ UNCHANGED <<game, dispatchOnly, lastDispatched, done>>

\* The date may have been dispatched since Check.
Recheck(t) ==
    /\ \/ /\ Goto(t, "recheck", "finish")
          /\ lastDispatched[MySlot(t)] = local[t].date
          /\ local' = [local EXCEPT ![t].ok = TRUE]
       \/ /\ Goto(t, "recheck", "callback")
          /\ lastDispatched[MySlot(t)] # local[t].date
          /\ local' = [local EXCEPT ![t].load = game.loads]
    /\ UNCHANGED <<game, dispatchOnly, slotVars, done>>

\* The callback returns: it did the day's work, or it defers it.
CallbackDone(t) ==
    /\ Goto(t, "callback", "finish")
    /\ local' = [local EXCEPT ![t].ok = TRUE]
    /\ done' = done \cup {<<MySlot(t), local[t].load, local[t].date>>}
    /\ UNCHANGED <<game, dispatchOnly, slotVars>>

CallbackDefers(t) ==
    /\ game.defers < MaxDefers
    /\ Goto(t, "callback", "finish")
    /\ game' = [game EXCEPT !.defers = @ + 1]
    /\ local' = [local EXCEPT ![t].ok = FALSE]
    /\ UNCHANGED <<dispatchOnly, slotVars, done>>

\* Mutant: the done date is not recorded.
FinishRecordsNothing(t) ==
    /\ Goto(t, "finish", "release")
    /\ local' = [local EXCEPT ![t].complete = @ /\ local[t].ok]
    /\ UNCHANGED <<game, dispatchOnly, slotVars, done>>

\* Mutant: a deferred date is recorded as dispatched.
FinishIgnoresAnswer(t) ==
    /\ Goto(t, "finish", "release")
    /\ lastDispatched' = [lastDispatched EXCEPT ![MySlot(t)] = local[t].date]
    /\ local' = [local EXCEPT ![t].complete = @ /\ local[t].ok]
    /\ UNCHANGED <<game, dispatchOnly, processing, done>>

Finish(t) ==
    /\ Goto(t, "finish", "release")
    /\ \/ /\ local[t].ok
          /\ lastDispatched' = [lastDispatched EXCEPT ![MySlot(t)] = local[t].date]
          /\ UNCHANGED local
       \/ /\ ~local[t].ok
          /\ local' = [local EXCEPT ![t].complete = FALSE]
          /\ UNCHANGED lastDispatched
    /\ UNCHANGED <<game, dispatchOnly, processing, done>>

Release(t) ==
    /\ Goto(t, "release", "check")
    /\ processing' = [processing EXCEPT ![MySlot(t)] = 0]
    /\ local' = [local EXCEPT ![t] =
          [local[t] EXCEPT !.slot = MySlot(t) + 1, !.ok = FALSE]]
    /\ UNCHANGED <<game, dispatchOnly, lastDispatched, done>>

DispatchReturns(t) ==
    /\ MySlot(t) \notin Slots
    /\ Goto(t, "check", IF t = Sim THEN "idle" ELSE "peek")
    /\ local' = [local EXCEPT ![t] = NoLocals]
    /\ UNCHANGED <<game, dispatchOnly, slotVars, done>>

(***************************************************************************)
(* The specification.                                                      *)
(***************************************************************************)
Publish(t) ==
    \/ ReadPath(t) \/ Refresh(t) \/ ZeroLast(t) \/ RefreshReset(t)
    \/ Decide(t) \/ CompareExchange(t) \/ Reserve(t) \/ RecordAccept(t)
    \/ WriteSlot(t) \/ Bump(t) \/ CompareLatest(t)

Dispatch(t) ==
    \/ Check(t) \/ Claim(t) \/ Recheck(t) \/ CallbackDone(t)
    \/ CallbackDefers(t) \/ Finish(t) \/ Release(t) \/ DispatchReturns(t)

SaveEnter(t) ==
    \/ ConsumerPoll(t) \/ EnterScope(t) \/ ScopeReset(t) \/ ReadToday(t)
    \/ ConsumerPeek(t)

FinishLoad == \E d \in Dates : LoadDone(d)

Game == FinishLoad \/ AdvanceDay \/ ReportAgain \/ \E s \in Saves : LoadSave(s)

Next ==
    \/ Game
    \/ \E t \in Pollers : SaveEnter(t)
    \/ \E t \in Threads : Publish(t) \/ Dispatch(t)

\* Every thread inside a call keeps running and every poller keeps polling: no
\* step of a call waits for another thread.  The player owes nothing, except
\* that a load that began ends.
Fairness ==
    /\ WF_vars(FinishLoad)
    /\ \A t \in Pollers : WF_vars(SaveEnter(t))
    /\ \A t \in Threads : WF_vars(Publish(t)) /\ WF_vars(Dispatch(t))

Spec == Init /\ [][Next]_vars
FairSpec == Spec /\ Fairness

-----------------------------------------------------------------------------
(***************************************************************************)
(* Properties.                                                             *)
(***************************************************************************)
Labels == {"idle", "scope", "scopeReset", "today", "readPath", "refresh",
           "zero", "refreshReset", "decide", "cas", "reserve", "acceptPath",
           "accept", "write", "bump", "latest", "check", "claim", "recheck",
           "callback", "finish", "release", "peek"}

PathType == Saves \cup {NoSave}
LocalType == [date : DatesOrNone, seen : DatesOrNone,
              path : PathType, event : Nat, epoch : Nat,
              slot : 1 .. SlotCount + 1, ok : BOOLEAN, load : Nat,
              complete : BOOLEAN]

GameType == [save : Saves, date : DatesOrNone, loads : Nat, defers : Nat]
EventType == [date : DatesOrNone, epoch : Nat]
RingType == [0 .. RingSize - 1 -> EventType]
BoundaryType == [path : PathType, epoch : Nat]
SlotDates == [Slots -> DatesOrNone]
ConsumerType == [path : PathType, next : Nat, fresh : BOOLEAN]
Work == Slots \X Nat \X DatesOrNone

\* The types of all variables.
TypeOK ==
    /\ game \in GameType
    /\ lastPublished \in DatesOrNone
    /\ writeCursor \in Nat
    /\ published \in Nat
    /\ ring \in RingType
    /\ scopePath \in PathType
    /\ boundary \in BoundaryType
    /\ lastDispatched \in SlotDates
    /\ processing \in SlotDates
    /\ pc \in [Threads -> Labels]
    /\ local \in [Threads -> LocalType]
    /\ consumer \in [Pollers -> ConsumerType]
    /\ log \in Seq(DatesOrNone)
    /\ done \subseteq Work

\* Threads that have reserved an event and not yet counted it as published.
Publishing == {t \in Threads : pc[t] \in {"acceptPath", "accept", "write", "bump"}}

\* publish_core reserves with one counter and publishes with another: no event
\* is reserved twice, and the two counters differ by the events in flight.
ReservationsAccounted ==
    /\ writeCursor = Len(log)
    /\ writeCursor - published = Cardinality(Publishing)
    /\ \A t \in Publishing :
         /\ local[t].event < writeCursor
         /\ log[local[t].event + 1] = local[t].date
         /\ \A u \in Publishing \ {t} : local[t].event # local[u].event

\* When no publisher is between its reservation and its count, every event a
\* cursor can still reach holds the date that was reserved for it.
QuiescentRing ==
    Publishing = {} =>
        \A e \in 0 .. published - 1 :
            e >= published - RingSize => ring[RingIndex(e)].date = log[e + 1]

\* No poller has made a call yet: the game thread is the only publisher.
GameThreadAlone == \A t \in Pollers : pc[t] = "idle" /\ consumer[t] = NewConsumer

\* While the game thread is the only publisher, the ring holds the dates of one
\* save epoch in calendar order, except for a date that is there a second time.
\* current_date_tick_consumer_next drops a date that is not later than the last
\* one it processed, so a date whose first event comes after a later date is
\* never processed.
RingInDateOrder ==
    GameThreadAlone /\ Publishing = {} =>
        LET event(e) == ring[RingIndex(e)]
            window == {e \in 0 .. published - 1 : e >= published - RingSize}
        IN  \A e, f \in window :
                e < f /\ event(e).epoch = event(f).epoch =>
                    \/ event(e).date <= event(f).date
                    \/ \E g \in window : g < e /\ event(g) = event(f)

\* A day the simulation reaches is accepted: when publish_core has returned to
\* the hook, the day is the latest published date.
LiveDateIsLatest ==
    pc[Sim] = "latest" => lastPublished = local[Sim].date

\* When publish_and_dispatch reports a complete dispatch to the game thread,
\* every synchronous consumer has done that date's work in the loaded game,
\* and not only in a game that was loaded before.
CompleteMeansDone ==
    pc[Sim] = "check" /\ MySlot(Sim) \notin Slots /\ local[Sim].complete =>
        \A i \in Slots : <<i, game.loads, local[Sim].date>> \in done

\* last_dispatched_date is written only for work that was done, never for work
\* that was deferred.
DispatchedWasDone ==
    \A i \in Slots : lastDispatched[i] # 0 =>
        \E n \in 0 .. game.loads : <<i, n, lastDispatched[i]>> \in done

\* Threads inside the claimed part of a slot's dispatch.
Claimants(i) ==
    {t \in Threads : /\ pc[t] \in {"recheck", "callback", "finish", "release"}
                     /\ MySlot(t) = i}

\* processing_date is a lock: two threads never run one consumer's callback at
\* the same time.  (Only while no save scope changes: see the README.)
CallbackExclusive ==
    \A i \in Slots : \A t, u \in Claimants(i) : t = u

\* A consumer that did a date's work is not called for that date again in the
\* same load of a game, as long as the game thread is the only publisher.
DoneOnce ==
    [][\A t \in Threads :
         GameThreadAlone /\ pc[t] = "callback" =>
             <<MySlot(t), local[t].load, local[t].date>> \notin done]_vars

\* Every call of a thread into the boundary returns.
CallsReturn == \A t \in Threads : pc[t] # "idle" ~> pc[t] = "idle"

\* A save whose date is readable is entered: its scope becomes the boundary's
\* and the day the game shows becomes the latest published date.
SaveIsEntered ==
    game.date # 0 /\ boundary.path # game.save ~>
        boundary.path = game.save /\ lastPublished = game.date

=============================================================================
