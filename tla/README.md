# Formal models of the KBO runtime

TLA+ modules, TLC configurations and TLAPS proofs for the native runtime of the
OOTP 27 Ultimate KBO mod (`native/src`, a DLL of some 150,000 lines of C that is
injected into the game) as it stands in this repository. Paths below are
relative to the repository; `PROJECT.json` names for each definition the lines
it models.

The runtime turns one thing, the game's current date, into many: synchronous
work that must be done before the day passes, background subsystems that follow
the published dates at their own pace, and calendar events that run exactly once
per league. The subsystems behind them keep ledgers of their own in SQLite, next to
a game whose memory goes back to the last save at any time. It does so from several threads, in a process whose memory is the
game's, across saves that the player loads, reloads and abandons. The models are
about these protocols. What a subsystem does on a day (which player it
generates, what a contract is worth) is outside them, with two exceptions: the
compensation for signed free agents and the acquisitions from independent teams,
whose records go through several days, writers and stores, are modelled whole.

- [1 The system](#1-the-system)
- [2 Modules](#2-modules)
- [3 What is checked](#3-what-is-checked)
- [4 What is proved](#4-what-is-proved)
- [5 What the code does not promise](#5-what-the-code-does-not-promise)
- [6 What is left out](#6-what-is-left-out)
- [7 Plan](#7-plan)
- [8 Running the checks](#8-running-the-checks)

## 1 The system

### Parts, state and operations

| part | source | state | operations |
|---|---|---|---|
| Date capture | `hook_stubs/current_date_tick`, `core/dates/tick/current_date_tick_watchpoint.c` | debug-register watch | a hook after the simulated day, a watchpoint on the date; both call *publish_and_dispatch* and repeat it while the dispatch is incomplete |
| Date publication boundary | `core/dates/tick/current_date_tick_capture.c`, `core/dates/boundary` | last published date, ring of 256 dated events, reservation and publication counters, save path and epoch | *publish_core* (accept the next day or a new save's day, write it to the ring), *save_enter_current*, *force_resync* |
| Synchronous consumers | `core/dates/tick/capture/sync` | per callback: last dispatched date, date being processed | dispatch of a date to each callback in order; claim, recheck, run, record, release |
| Date consumers | `core/dates/tick/capture/consumer`, `cursor` | save path, cursor, last and pending date | *consumer_next*, *mark_processed*, *skip_to_latest*, coalescing to the latest day, emitting the current date on save entry |
| Custom events | `custom_events/runtime` | caches of the day scheduled / scanned / idle, claimed words of runs, pass and schedule; SQLite markers, run ledger, cursor | a tick per date, from the synchronous consumer and from a monitor thread: due pass, scans, run of one event, record of its completion |
| Save gate | `core/core_flags/api/runtime/runtime_threads.c` | tick of the last negative answer, stop flag | *save_in_progress*, *pause_for_save_if_needed*, *sleep_should_continue* |
| Runtime threads | same file, `entrypoint/dll` | 64 thread handles under a spin lock | start, register, shutdown with a bounded join |
| Free-agent compensation | `fa_compensation/` | SQLite: records, decisions, ledger of cash transfers; a file of protected lists; the clubs' rosters and cash in memory | the signing hook, the due pass of a day, three handlers of the window |
| Independent acquisition | `foreign/daily_maintenance`, `team/independent_acquisition` | SQLite: offers, decisions, two dates of the work done; their copies in memory; the rosters | a background thread: offers of the clubs, sales of the teams, audit; two handlers of the window |
| Foreign players | `foreign/` (the rest) | rights and waiver windows by date, priority events, quotas, replacements of the injured | a scanner thread, a synchronous consumer of the daily maintenance, hooks of offers and releases |
| Military service, FA phases, luxury tax, captains, awards, all-star, amateur quality | directories of the same names | SQLite rows per save, yearly marks | date consumers and calendar events |
| Entry point | `entrypoint/` | installed flags, marker files | DllMain, marker wait, order of installation, hot reinjection |
| Hooks and patches | `hook_stubs`, `patch_*` | machine code | detours of game functions |
| F2 window | `hotkey_window/` | UI state | rendering, queries |
| Launcher | `src/KBOLauncher` (C#) | guard and marker files | installs files, starts the game, injects the DLL |

### How they interact

```
 game thread ── hook / watchpoint ──► publish_core ──► ring of events ──► date consumers (threads)
      ▲                                  │    ▲                                │
      │ "incomplete": report again       ▼    └── save-enter publication ◄─────┤
      └───────────────────────── synchronous dispatch                          ▼
                                  │  │  │                              a subsystem's day
                    custom events ┘  │  └ foreign daily maintenance ──► independent acquisition
                          │          │                                         │
                     FA compensation │                                         │
        season-phase pulse ──► custom-event monitor              save gate: pause while saving
```

The game thread and the consumers' threads share the globals of the boundary
through interlocked words; the save path and epochs are guarded by short locks.
Synchronous callbacks run in whichever thread dispatches the date. All threads
ask the save gate before they touch the game's memory. SQLite rows reach the disk
at once, the game's memory only when the player saves: the two can disagree
after a restart.

### What is hard

- **Interleavings.** Up to a dozen threads publish, dispatch and read; an
  accepted date is written to the ring several steps later.
- **Save switches.** Two trackers of the current save reset the dates
  independently while callbacks of the old save may still run. Reloading the
  same save looks like no switch at all.
- **Retries.** A callback or a handler may defer; the date has to be offered
  again, and what has been done must not be repeated.
- **Partial failure and restarts.** The completion of an event is several writes
  to different stores; any of them can fail, and the process can end between them.
- **Two kinds of memory.** A transfer changes rosters and cash in the game, and
  rows in the database that say it was done. A restart undoes the first and keeps the
  second; a save that begins in between cuts the work in two.
- **Time.** The save gate relies on file times, a cache and timeouts.

The hazards met at each line are listed in `PROJECT.json`, with the property that
covers each, or the reason why none does.

### What makes each part correct

| part | correct if |
|---|---|
| Boundary | each event is reserved once; the ring holds the reserved dates; every day the game reaches is accepted; every call returns; a loaded save is entered |
| Dispatch | one callback at a time; a day recorded or reported as complete was done, in this game; a done day is not done again |
| Consumer | no published day is passed over; the offered date is later than those taken and of this save; today is processed in the end |
| Custom events | an event runs in one caller at a time, has its effect once per game, is recorded only after its effect, and is done in the end; a tick that answers "complete" left nothing due |
| Save gate | no save is overlooked for longer than the cache lives; nobody waits for a save of a session that crashed; a paused thread stays paused until the save is over, and no longer than the stale limit |
| FA compensation | a compensation is paid once, in one of its two forms; a record waits only for a decision that exists, says it is settled only if it was, and is settled in the end |
| Independent acquisition | a team sells no more than its limit and not too often; a day is closed after its acquisition, without it only where the pass was hindered (section 5), and is closed in the end |
| Threads (planned) | a handle is closed once; a running thread is joined or known not to be |
| Waiver window, rights (planned) | the first right of an exclusive window is that of its club, no event of the window is lost, a new save starts from its own rows |

## 2 Modules

| module | what it is | used by |
|---|---|---|
| `DateTick` | the boundary and the synchronous dispatch | `MCDateTick`, `DateTick_proofs` |
| `DateFeed` | abstract: what a date consumer promises its subsystem | `TickConsumer` (refinement) |
| `TickConsumer` | one date consumer against two publishers | `MCTickConsumer`, `TickConsumer_proofs`, `TickConsumer_reader_proofs` |
| `CustomEvents` | the custom-event tick of two callers, rows, saves, restarts | `MCCustomEvents`, `CustomEvents_proofs`, `CustomEvents_work_proofs` |
| `SaveGate` | detection of a save and the pause for it | itself, `SaveGate_proofs` |
| `FACompensation` | the life of a compensation: signing, due pass, window, restart | `MCFACompensation`, `FACompensation_proofs` |
| `IndependentAcquisition` | the background pass of the daily maintenance with the acquisition in it | `MCIndependentAcquisition`, `IndependentAcquisition_proofs` |

In all of them one step of a thread is one access to what threads share: an
interlocked operation, a critical section of a short lock, a SQLite statement, a
query of a file. Locals of a call live in a record per thread, and `pc` says
which access comes next. The game (which save is loaded, which date it shows,
when it saves) is the environment. Definitions marked *Mutant* are plausible
bugs of the code, not behaviour; no specification uses them.

### DateTick

| code | model |
|---|---|
| `publish_core` | `ReadPath`, `Refresh`, `ZeroLast`, `RefreshReset` (has the save changed?), `Decide` (accept, reject, first of a save), `CompareExchange` on the last date, `Reserve`, `RecordAccept`, `WriteSlot`, `Bump`, `CompareLatest` |
| `dispatch_sync_consumers` | `Check`, `Claim`, `Recheck`, `CallbackDone` / `CallbackDefers`, `Finish`, `Release`, `DispatchReturns` |
| `publish_save_enter_current` | `ConsumerPoll`, `EnterScope`, `ScopeReset`, `ReadToday`, `ConsumerPeek` |
| hook, watchpoint | `AdvanceDay`, `ReportAgain` (the date on display is reported again, at any time) |
| player | `LoadSave`, `LoadDone` |

Dates are day numbers. The pollers are the consumers that emit the current date
on save entry; of the rest of a consumer only its save path and cursor position
are kept, as `TickConsumer` has it in full. `log` and `done` only observe.
The model starts when the marker-wait thread has published the first date.
The watchpoint's own check whether a date is new is left out: it could only
drop a report that the model lets through.

### DateFeed and TickConsumer

`DateFeed` has four actions: a save is entered, a date later than all taken ones
is offered, the offer is taken, or it is withdrawn. `TickConsumer` is the code behind it:
`current_date_tick_consumer_next` as the steps *enter*, *today*, *peek*, *slot*,
*scan*, *scanSlot*, *work*; `mark_processed` as the end of the work, `skip_to_latest` as `SkipToLatest`,
the poll of a subsystem that is switched off (`Switchable`). A
publication is cut down to the four steps a reader can tell apart (accept,
reserve, write, count), and the two trackers of the save are one. The field
`coalesces` is the consumer's flag `COALESCE_TO_LATEST`, either value in each run.
`visit` observes what the consumer saw since it entered its save or was switched off.

### CustomEvents

Callers `"sync"` and `"monitor"` run the same tick: is the day scheduled
(`CheckScheduled`), claim it (`ClaimSchedule`), the due pass (`ClaimPass`,
`ReadCursor` with the prune of rewound markers, the events a scheduler runs
itself as `DirectStep`, scans until one is idle, `PassEnd` writes the cursor),
then the scan of the day. A scan (`StartScan`, `Look`, `EndScan`) stops at
the idle cache or looks at each due event; an event is run in
`EnterRun`, `Recheck`, a handler that succeeds, defers or fails, `Mark` (flag in
memory), `WriteMarker`, `RecordRun`, `LeaveRun`.

`game` is the memory of the game: its day, the events flagged over and, to
observe, the events whose effect it holds once or twice. `stored` is what the
player saved, `db` the rows of each save. `Restart` keeps these two and loses all
process globals; `LoadSave` changes the game and keeps the globals.
An event is identified with the day it is due, and has a kind of its own.

### SaveGate

`kbo_runtime_save_in_progress` is `Ask`, `CacheHit` or `CacheMiss`, then the
path (`NoPath`, `ReadPath`), `save_started` (`NotSaving`, `ReadStarted`),
`save_completed` (`ReadCompleted`) and `Store` to the shared word; the caller
returns, or sleeps and asks again (`Return`, `Sleep`, `WakeUp`, `WakeToStop`).
`kbo_runtime_sleep_should_continue` is `StartNap`, cut short by a stop between two slices
(`NapCutShort`) or followed by a pause (`NapOver`). `stop` says why
`should_continue` answers no: the request, which stays, or the user's flag, which
may be turned over at any time.
One clock stands for the tick count, the system time and the times of files; 0 is a
missing file, 1 a time before this process, 2 its creation. `told` remembers
for which save a pause slept.

### FACompensation

| code | model |
|---|---|
| `kbo_record_fa_compensation_signing` | `RecordSigning` |
| `kbo_process_due_fa_compensation_protected_lists_for_date` | `SkipDay` / `OpenPass` (is anything due?), `LoadTasks` (copies under the lock), per record `SkipTask`, `DecideCash`, `DecidePlayer`, `SubmitList` / `DeferList`, `ChooseForAI`, then `StoreStatus`; `EndPass` |
| `kbo_transfer_fa_compensation_player_to_original_team` | `TransferPlayer`, `MissPlayer` |
| `kbo_apply_fa_compensation_cash_transfer` | `CheckLedger`, `MoveCash`, `NoteTransfer`, in the thread of the pass and in the one of the signing |
| the handlers of the window | `SubmitByHand`, `SelectPlayer`, `SelectCash`: each whole, because it holds the ledger lock |
| game and player | `NewDay`, `SaveGame`, `Restart` |

The records, decisions and ledger are SQLite's and survive `Restart`; `at` (the
club of each player) and `paid` (how often cash moved) are the game's and come
back as `saved`. Any operation that can fail in the code may fail here, at most
`MaxTroubles` of them together with restarts. `latest` is what the query for the
decision of a free agent finds, not what was stored last. The last day stands for all
later ones. One club signs everybody, so that the cases compete for its
players. `past` only observes: which choices crossed the pass, which reopened a
settled case, whether both threads met at the ledger, whether a restart cut a pass.

### IndependentAcquisition

| code | model |
|---|---|
| thread and `process_background_date` | `Wake`, `Leave`, `Postpone`, `Audit` |
| `kbo_run_independent_team_acquisition_ai_for_date` | `Enter`, `Bypass`, `SkipDay`, `CloseDay`, `OpenDay`, `CutOffers`, `MarkDay` |
| its buyers' loop | `Offer` |
| the sellers' loop | `LoadQueue`, `Defer`, `Choose`, `Transfer`, `Decide`, `EndSales`, `CutSales` |
| the handlers of the window | `Submit`, `Withdraw` |
| game and player | `NextDay`, `BeginSave`, `WriteSave`, `EndSave`, `Switch`, `Shutdown`, `DateReady`, `Restart` |

`offers`, `decided`, `cursor` and `audit` are rows; `mark` and `audited` are their
copies in the process; `holder` and `soldOn` are the game's memory. The code
asks the save gate at some fifteen places of a pass; here a step that follows such a
question has the guard `~Saving`, and `Postpone`, `CutOffers`, `CutSales` and the
second branch of `Audit` are what a *yes* leads to. A question and the step after
it are one: a save that begins between them is what `Transfer`, which has no
guard, shows. Whether a seller holds out for a better offer, and whether a transfer
is possible at all, is left to chance. The daily cap of a seller is `pass.sold`.
`off` is what stands against an acquisition: the stop request, the fix switched off in
the configuration (both end the thread at its next loop: `Leave`), the feature (its
flag file, or the policy for foreign players), and a date that is not stable: the
bootstrap starts the maintenance thread, and only the wait for the league's marker sets
`g_kbo_runtime_date_stable_ready` (`DateReady`). The acquisition asks for them once, as it
is entered: `Bypass` are its early returns, whose answer the pass ignores. The code reads
the policy once per process; here it may change at any time, like the flag. `hindered` only observes:
whether since the begin of the pass a save was in progress, whether `off` was not empty
before the acquisition was entered, whether the player list could not be read.

## 3 What is checked

Passing runs (2 workers, about two and a half minutes at most). States are distinct states.

| run | instance | properties | states |
|---|---|---|---|
| `tick_safety` | game thread and 2 pollers, 2 callbacks, 2 saves, 4 days, 2 loads, a deferral, ring of 3 | `ReservationsAccounted`, `QuiescentRing`, `CallbackExclusive`, `CompleteMeansDone`, `DispatchedWasDone`, `RingInDateOrder`, `LiveDateIsLatest`, `DoneOnce` | 1.9 M |
| `tick_liveness` | game thread and a poller, one load, of the same save too | `TypeOK`, `CallsReturn`, `SaveIsEntered` | 460 k |
| `consumer_one_save` | ring of 3, 8 days, 2 deferrals | `CaughtUpIsToday`, `NoDayPassedOver`, `TodayIsProcessed` | 31 k |
| `consumer_saves` | 2 saves, 2 loads, switched off at any poll, a deferral, ring of 12 | `TypeOK`, `OfferIsOfThisSave`, `FeedSpec` | 6.3 M |
| `events_two` | two callers, 2 events, a deferral, a failed write | `TypeOK`, `OneRunPerEvent`, `LocksAreOwned`, `HandledOnce`, `CompletedWasHandled`, `CompleteUndeferred`, `IdleMeansDone` | 1.5 M |
| `events_restart` | one caller, 2 saves, a save, 2 loads or restarts, a deferral, a failing handler | `HandledOnce`, `EventuallyDone` | 429 k |
| `save_gate` | 2 threads, 1 save path, 5 instants, the flag turned over at will | `TypeOK`, `NoSaveOverlooked`, `YesMeansSaving`, `PauseCoversSave`, `EveryCallReturns` | 336 k |
| `compensation` | 2 cases, 2 players, a choice, a failure or a restart | `TypeOK`, `PaidOnce`, `ClosedOneWay`, `WaitsForItsDecision`, `SettledMeansPaid`, `EventuallySettled` | 1.3 M |
| `acquisition` | a team with 3 players and limit 2, a club, a user, 3 days, any 2 of: offers of the user, saves, switches, stops, restarts | `SalesAreRationed`, `AuditedMeansAcquired`, `RestingDayIsAudited` | 2.2 M |

Three runs find a disagreement between the code and what the repository says of it
(section 5): `consumer_race`, `events_masked` and `compensation_reopened`.

**What the runs show.**

- *Boundary.* The game thread alone keeps the ring in date order and every day it
  reaches is accepted, with saves loaded at any point. Several
  publishers never share a reservation, and once none of them is at work the ring
  holds exactly what they reserved. A synchronous dispatch that
  answers "complete" is one in which each callback did its work in the loaded
  game, not merely one in which it was busy or had done it in another.
- *Consumer.* A ring shorter than the days published overflows without losing
  more than the overwritten days; days that are coalesced have a later one that
  stands for them; a date of the old save is not offered in the new one, and none from
  before the subsystem was switched off.
- *Events.* Two ticks that meet in the same event, look its completion up
  before they claim it, defer, or lose one of the writes of its completion still
  run it once; a restart into an older save does not run it twice in that game. As
  long as no handler defers, a tick that answers "complete" and a day cached as idle
  leave nothing due (`CompleteUndeferred`, `IdleMeansDone`).
- *Save gate.* However the stores to the cached word interleave, it never makes
  a save older than the cache invisible, and a thread that is paused is not
  released by it.
- *Compensation.* However the pass, the signing, the window and a restart between
  passes interleave, cash moves once and a case is closed one way. Each exception is in
  the property: one failed ledger query where both threads pay, both threads in the
  transfer at once, a restart inside a pass, a case opened again by hand.
- *Acquisition.* Limit and cooldown hold for all sales that have their decision, over
  saves, restarts and failed rows. A day is recorded as audited without its acquisition
  only if in that pass a save was in progress, the feature or the fix was off, a stop
  was requested or the date was not stable before the acquisition was entered, or the
  player list could not be read: cases of the code, all of them reached. Whatever saves cut the
  pass, the day the game rests at is audited in the end, unless the thread was told to end.

### Bounds

Days, loads, deferrals, failures and pulses are bounded by `Max...` constants in
the guards of the environment's actions. The rings are shorter than
the number of events (3 slots against 8 days) so that they wrap; `consumer_saves`
alone has one that does not (section 5). Three days cover an event that is due
before, on and after the current day; two saves and two loads cover leaving a
save and coming back to it. Two pollers and the game thread are all the roles
there are: publishers differ only in whether they advance the day. One bad write
suffices to separate any two of the three stores that record a completion.
`tick_safety` joins two instances by `AloneOrOneSave`: loads, deferrals and later
days while the game thread is alone, and the calls of both pollers in one save over
the first two days; the properties that need the game thread alone say so
(`GameThreadAlone`). In `compensation` two cases with one player to
protect and one to lose suffice for them to meet in the same player, and one failure for
every pair of stores to disagree; three rows of the protection file are fewer
than the two lists write. In `acquisition` the third player is the one who
would exceed the limit, two days of cooldown fit into three days, and two acts are the
least that separate a sale from its decision (a save) or from the game (a restart), or
that switch the fix off and on again within a pass. In
`save_gate` the durations are one instant each, so that a cache, a pause and the
stale limit expire between any two accesses of the other thread; a save
may begin up to instant 2 (the process begins at 2) and the clock goes on
until the longest pause has ended. Pollers of `DateTick` start no call beyond
`MaxEvents` events.

### Fairness

- `DateTick`: weak fairness of each thread's steps within a call, of the end of a
  load, and of a poller's look at the save, which its loop repeats. None for the
  player or for a callback that defers.
- `TickConsumer`: weak fairness of both publishers' steps, of the end of a load and
  of the consumer, whose thread polls for ever; a deferred day is polled again.
- `CustomEvents`: weak fairness of each caller's steps and of `DispatchToday`,
  since the hook reports an incomplete date again for as long as it is.
- `FACompensation`: weak fairness of the pass and of each transfer, and of `NewDay`: the
  pass is the work of a date, and a record that was skipped waits for the next one, so
  that it is settled in the end only if the user plays on. None for signings,
  choices, saves or restarts.
- `IndependentAcquisition`: weak fairness of the thread's steps, whose loop ends only
  when it is told to, and of the end of a save that was begun. None for days, offers,
  saves, switches, stops, restarts or the stable date.
- `SaveGate`: weak fairness of time and of each thread's steps. None for the game:
  a save need not end, and the pause ends because of the stale limit.

`tick_liveness` starts from pollers that have met a save before, because
a consumer whose first save is the second one keeps the events of the first by
design. `CHECK_DEADLOCK FALSE` appears in the events' runs, which stop on the
last day with nothing left to dispatch, and in `acquisition`, which stops on the last day
when the thread was told to end; that nothing else stops it is what
`RestingDayIsAudited` says.

## 4 What is proved

TLAPS checks these for every value of the constants that satisfies the named
`ASSUME` of the module (any number of threads, saves, days, slots, durations);
the `Max...` bounds may be any naturals.

| theorem | statement | obligations of its module |
|---|---|---|
| `TypeCorrect` (`DateTick_proofs`) | `Spec => []TypeOK` | 4244 |
| `ReservationsCorrect` | `Spec => []ReservationsAccounted` | |
| `OneSaveExclusive` | `Spec => [](game.loads = 0 => CallbackExclusive)` | |
| `QuiescentCorrect` | `Spec /\ []NoneOvertaken => []QuiescentRing` | |
| `RecordsAreTrue` | `Spec => []DispatchedWasDone` | |
| `DoneAtMostOnce` | `Spec => DoneOnce` | |
| `CompleteDispatch` | `Spec => [](Undisturbed => CompleteMeansDone)` | |
| `LiveDateAccepted` | `Spec => [](Undisturbed => LiveDateIsLatest)` | |
| `RingOrdered` | `Spec => []RingInDateOrder` | |
| `ConsumerTypeCorrect` (`TickConsumer_proofs`) | `Spec => []TypeOK` | 705 |
| `ImplementsFeed` | `Spec => FeedSpec`: the consumer implements `DateFeed` | |
| `OffersBelongToTheSave` (`TickConsumer_reader_proofs`) | `Spec => [](writeCursor <= RingSize => OfferIsOfThisSave)` | 1608 |
| `NoLiveDayIsLost` | `Spec => [](FirstSession => CaughtUpIsToday)` | |
| `EveryDayIsCovered` | `Spec => [](FirstSession => NoDayPassedOver)` | |
| `OneRun` (`CustomEvents_proofs`) | `Spec => []OneRunPerEvent` | 191 |
| `LocksCorrect` | `Spec => []LocksAreOwned` | |
| `EventsTypeCorrect` (`CustomEvents_work_proofs`) | `Spec => []TypeOK` | 3042 |
| `NothingCompletedUndone` | `Spec => [](used.loads = 0 => CompletedWasHandled)` | |
| `DoneOnlyOnce` | `Spec => [](HandledOnce \/ Excused)` | |
| `CompleteTickLeavesNothing` | `Spec => [](used.loads = 0 /\ used.failures = 0 => CompleteUndeferred)` | |
| `IdleScansMissNothing` | `Spec => [](used.loads = 0 /\ used.failures = 0 => IdleMeansDone)` | |
| `GateTypeCorrect` (`SaveGate_proofs`) | `Spec => []TypeOK` | 676 |
| `NoneOverlooked` | `Spec => []NoSaveOverlooked` | |
| `YesIsRight` | `Spec => []YesMeansSaving` | |
| `PauseHolds` | `Spec => []PauseCoversSave` | |
| `CompensationTypeCorrect` (`FACompensation_proofs`) | `Spec => []TypeOK` | 2712 |
| `CashMovesOnce` | `Spec => []PaidOnce` | |
| `OneWayOnly` | `Spec => []ClosedOneWay` | |
| `SettledIsPaid` | `Spec => []SettledMeansPaid` | |
| `WaitsRightly` | `Spec => []WaitsForItsDecision` | |
| `AcquisitionTypeCorrect` (`IndependentAcquisition_proofs`) | `Spec => []TypeOK` | 892 |
| `NoDayClosedEarly` | `Spec => AuditedMeansAcquired` | |
| `Rationed` | `Spec => []SalesAreRationed` | |

**The conditions.** Some properties are true of every run in section 3 only because
of its bounds. Their theorems name what the bounds hid; each condition is
one that the code needs (for those of the boundary and the consumer TLC finds the
property violated on a small instance without it):

- `NoneOvertaken`: no publisher is still between its reservation and its count when a
  whole ring of later events (256 in the code) has been reserved. Its late write would
  land in the slot of a newer event, and nothing would repair it.
- `Undisturbed` (boundary): the player has loaded nothing yet, or no poller has made a
  call and the current save is not loaded again. A load under running pollers
  resets the consumers' dates while a callback of the old save runs; a reload of the same
  save resets nothing, so the dates done in the abandoned game stay recorded. Both are in
  section 5.
- `writeCursor <= RingSize`: on a wrapped ring a reserved and unwritten slot holds a date of
  an older save, and a consumer can be offered it.
- `FirstSession` (consumer): the hook is the only publisher, that is, the consumer has
  entered its save, no save was loaded since, and nothing switches the subsystem off.
  Otherwise two publishers race (`consumer_race`), or `skip_to_latest` drops days
  because it is meant to.
- `Excused`: `HandledOnce` is not claimed for a session with a second lost write, nor for a game
  that was restarted or loaded after the monitor thread worked or a write was lost:
  rows and game then disagree.
- `used.loads = 0` and `used.failures = 0`: a loaded game does not hold what its rows say,
  and a handler that fails keeps its event for a later day.

**The arguments.**

- *Types of the boundary.* `TypeOK` alone is not inductive: after the last slot
  `slot` is `SlotCount + 1`, and a claim there would leave the type of the slots'
  dates. `SlotChosen` adds that a thread past `Check` is at a real slot.
- *Reservations.* `ReservationsAccounted` is inductive with the types. Reserving
  adds one thread to `Publishing` and one to `writeCursor`, counting takes one
  away and adds one to `published`; every other step keeps both sets.
- *Exclusion of callbacks.* In one save nobody resets `processing`. `SlotLocked`
  says that the slot of a thread inside its dispatch is marked in `processing`,
  `SameSave` that both trackers agree with the game and no thread is on a path
  that resets the dates. A second thread then fails its compare-exchange. After a
  load the statement is false (section 5).
- *The ring.* `FilledInv`: an event that a cursor can reach is in the hands of its publisher
  or its slot holds the date reserved for it. A write reaches the slot of another
  event only if the two are whole rings apart, which `NoneOvertaken` excludes
  for the unwritten ones (`SlotsDiffer`).
- *Records.* `RecordInv`: a recorded date was done, and a thread about to record a date
  has done it. Resets only clear records, so no interleaving can break it; that a
  deferral leaves `ok` false is the point of the proof.
- *The game thread alone.* One lemma for each of its steps says where it goes and
  what it keeps (`Sim...`). `DoneInv`: what was done in the loaded game is recorded, by a
  date no later than today, or about to be; before a new save is in scope nothing was
  done in it. From it a callback never meets a date that was done. `FreshInv`
  is the converse: what is recorded in the scope of the loaded save was done there, which
  is what a complete dispatch has to know of the slots it skips (`PassedInv`); it is
  false after a reload of the same save. `LatestInv` keeps the last published date on today or on
  the day before, until today is accepted. Before the first load the pollers
  may run too: `NoneExchanges` says that none of them moves the last date.
- *Order in the ring.* `OrderInv` speaks of the written events that are still in
  the ring: in one epoch their dates increase, none is of a later epoch, and none is
  later than the last date, below it once a new one was accepted. The write of an event evicts exactly
  the oldest one, so the window moves by one.
- *Refinement.* `OfferInv`: a pending or scanned date is later than the last one
  taken, the consumer is at work exactly if a date is pending, and the save
  it enters is one of `Saves`. The mapping takes the consumer's save path,
  last date and pending date for those of `DateFeed`: entering a save is `Enter`,
  selecting a date `Offer`, marking it processed `Take`, skipping to the latest event with
  a date pending `Withdraw`, and every other step stutters.
- *The reader.* Two invariants over the same steps. `WrapInv`: while the ring has not
  wrapped, a slot is either empty or holds a date of its own event, so a slot read too early
  gives no date and never an older one; every date the cursor can reach was
  published since the visit began. `SessionInv`: with the hook alone, event *e* holds
  day *e* + 1, counted and filled up to the day that is being published; everything before
  the cursor was taken, is pending, or is below the newest date that a coalescing
  scan has met.
- *Locks of the events.* `LockInv` collects where a caller can be: which steps
  are inside a pass, inside a scheduler's run, or have an event and a
  date. From it the claimed words are those of the callers, on each of
  the return paths of a tick.
- *Work of the events.* Four invariants on top of the locks. `AllHandled`: each of
  the three stores of a completion holds only events that were done, and a caller that
  writes to one comes from a successful handler or found such a record. `AllCompleted` is the
  converse, and why an event is not done twice: it has a marker or a row,
  or its caller is on the way there and holds its word, and a second caller looks again
  after it has the word; one lost write leaves one record. Across restarts only
  the ledger can tell (`StoredRecorded`): no saved game of the synchronous caller holds an
  effect without its row, since a save never falls between the two.
  `CachesSettled` says of each cache of days that nothing due up to its
  day is open, and `CallerSettles` how far a scan or a pass has come; together they give
  complete ticks and idle days.
- *Save gate.* The invariant speaks of time: whatever the game is saving began
  no earlier than every question about to be answered with "no"
  (`ReadInv`), and no earlier than the cached tick (`CacheInv`). A save that
  begins is later than both, and a question takes its time before it reads
  anything, so the invariant survives any interleaving of reads and stores. A
  paused thread asks at least `PauseFor` after the save it was told of, and a
  cached answer is younger than `CacheFor <= PauseFor`: the save it could hide
  is another one. That inequality (100 ms and 500 ms in the code) is
  what keeps the pause right, and nothing in the code says so.

- *Compensation.* `ShapeInv` says where the pass and the two transfers can be and
  what they are about: a pass at its transfer works on a record it copied as
  *player selected*, a signing pays only where no player is owed, and a saved game
  is a lower bound of what has been paid since. On it rest four invariants, each
  under the exceptions of its property.
  `SettledInv`: a row of the ledger, and a status of the settled kind, stored or about to be,
  come after the cash and the player they speak of.
  `OneWayInv` reads it backwards: cash that has moved, or a player who has, pins down the
  status, stored or in flight, so that the other way is closed.
  `CashOnlyInv` and `DecidedInv` are why a payment is not repeated. Something
  always tells of it: the ledger, the transfer that is about to write there, or a
  status; one failure can silence one of these, and where only the pass pays another is
  left. Where the signing pays as well there is no second witness, and `PaidOnce`
  allows no failure there.
  `WaitInv` needs that no stored decision is dated after today: the query takes the
  latest date, so that a decision made today is found.

- *Acquisition.* `RowsInv` counts every transferred player towards the limit, those a
  restart undid as well, and bounds what is in the saved game by what the rows know;
  `PassInv` says that the pass at work has checked limit and wait for the player
  in its hands against those rows. A recorded sale is a transferred player, and the set
  of transferred players grows only by one that was checked. The audit needs
  `HinderInv`: the date in memory is the stored one or none; a save in progress has
  hindered the pass, and so has what is off until the acquisition is entered; hence a
  pass behind its acquisition was hindered or has stored a date that covers its day.

**Only model-checked.** Liveness: `CallsReturn`, `SaveIsEntered`,
`TodayIsProcessed`, `EventuallyDone`, `EveryCallReturns`, `EventuallySettled` and
`RestingDayIsAudited`, which is out of the prover's reach. Every other property of the
passing runs is stated by a theorem. Where one of the conditions above fails nothing is claimed, by a
run or by a theorem.

## 5 What the code does not promise

Three disagreements are kept as runs that end in a violation:

1. **`consumer_race`** - a publisher reserves its slot before it fills it, while
   another counts its own event. `published_sequence` then covers a slot that is
   still empty: a consumer reads no date there, passes over it, and never
   processes that day although it has read the whole ring
   (`current_date_tick_capture.c:178`; `CONSTITUTION.md:281` has fast play and save
   entry share one flow of dates).
2. **`events_masked`** - when a scan of a due pass ran an event and the next scan is
   deferred, `kbo_custom_event_calendar_scan_until_idle` answers with the positive
   count: the day is recorded as done, the tick answers "complete", and
   the deferred event waits for another day
   (`custom_event_calendar_due.c:104`; `CONSTITUTION.md:291`).
3. **`compensation_reopened`** - a case that a pass has settled in cash can still be
   given a player by a window that was drawn before: the handler refuses only cases
   settled by a player (`fa_compensation_selection.c:143`). The next pass transfers
   the player and pays once more; the news promises one or the other
   (`data/seeds/news_templates/en/fa_compensation.json:22`).

Others were met while modelling. They limit what the properties say, and each is
a hazard in `PROJECT.json` with its line:

- With a save-enter publisher the ring can hold a date after a later one, and
  such a date is dropped by the consumers; `RingInDateOrder` is checked for the
  game thread alone.
- A save switch clears `processing_date` while a callback of the old save is
  running. The callback can then run twice at once, and record its date in the
  new save. `CallbackExclusive` and, with pollers, `CompleteMeansDone` therefore
  hold within one save.
- A delayed save-enter dispatch runs the callbacks for its day after those of the
  next one; `DoneOnce` is checked with the game thread as only publisher.
- Loading another state of the *same* save is not seen as a change of scope: until
  the old date has passed the days are rejected as not adjacent.
  `LiveDateIsLatest` assumes `MayReload = FALSE`.
- On a wrapped ring the race of `consumer_race` offers a date of the old save in
  the new one, so `consumer_saves` uses a ring that does not wrap.
- When another save with the same current date is opened, the day caches of the
  custom events, which hold dates without a save, skip its events.
- While one caller holds the word of an event, the scan of the other finds nothing to
  do and caches the day as idle; if the handler then defers, the event waits for the next
  due day. `IdleMeansDone` speaks of the time before any deferral.
- Completed rows outlive an abandoned future: after an older state is loaded, an
  event can be flagged as completed without its effect in that game. Conversely, a
  game saved in the middle of a monitor tick holds an effect without a row.
- A caller of `save_in_progress` that does not pause can be told yes and, within
  100 ms, no: a "no" found earlier by a slower thread overwrites the cache. The
  comment in `runtime_threads.c:102` excludes this; `PauseCoversSave`
  shows that threads that pause are safe from it.

Of the compensation:

- One failed query of the ledger is enough to pay a compensation without a player
  twice, and so is a signing whose transfer meets that of a due pass: both look at the
  ledger before either writes to it (`PaidOnce` excepts them).
- Two cases of one club can choose the same player; the second is tried again every day
  with him, until the user chooses another.
- Decisions, and the look-ups of the window, are keyed by the free agent alone, not by
  his season or clubs.
- A decision dated before a stored one, which an earlier save allows, is
  stored and never found.
- Of the file of protected lists the first 128 rows are read; later lists are written
  and cannot be chosen from.
- The news names `protected_list_due_days` as the time for the selection, but the choice
  of the AI is settled by the pass of the next day.
- A restart takes a paid compensation out of the game and leaves it settled in the
  database.

Of the acquisitions:

- A save that begins between an assignment and its decision leaves a sale without a row:
  it counts neither for the limit nor for the cooldown, and the next run records
  the offer as not transferred. `SalesAreRationed` is about the sales that have
  their decision.
- After a restart, decisions about sales that did not happen in the loaded game still
  count; a date that lies ahead suspends the cooldown, since a day before the
  last sale is taken for no wait at all, and the player is not offered for again.
- What the acquisition answers is ignored (`foreign_daily_maintenance.c:181`), and from
  there on the pass asks only for a save. An acquisition that is given up for a save
  which is over before the next question, or for a player list that cannot be read, or
  that returns at once because the feature or the fix is off or a stop was requested
  since the pass began, is not made up for: the audit closes the day. So does a pass
  that runs after the start, before the date is taken for stable
  (`dll_entrypoint.c:127`, `runtime_marker_wait.c:166`): the day the game is loaded at
  can be closed for good before the acquisition may run.
  `kbo_run_independent_team_acquisition_ai`, which would catch up on missed days, has no caller.
- Only the latest date is worked on; days in between get neither acquisition nor
  audit.
- An offer that is withdrawn while the sellers work can still be accepted: the run has
  loaded its queue.
- Failed counts and queries are answered with zero or nothing: a limit that cannot be
  read is not reached.

## 6 What is left out

Within the modelled parts:

- *Boundary*: `force_resync` (only before consumers are installed), registration of
  callbacks, the record of the latest boundary context, labels and logging, a save path
  that cannot be read (the scope stays as it is, a consumer gets no work).
- *Consumer*: `next` and `next_ex` of the cursor, which nothing calls; counts of missed
  events, which are only logged.
- *Custom events*: the place of the compensation's pass in a tick (it is `OpenPass`, a
  step of its own), the offseason transition of a tick,
  the limit of 32 scans, the check of domain rows of completed events, insertion
  and duplicate prune of calendar events, failing reads, the torn read of
  the idle cache, a load during a monitor tick, reuse of freed addresses; the look at the
  marker and the look at the ledger before a run are one step.
- *Save gate*: queries of files or process times that fail, the latency
  between a save and its file.
- *Compensation*: which signing obliges to what (market, filing, grades, amounts), the
  scores and the optimizer (a list is any order of the candidates), a ledger that
  is full (1024 rows), the rows of automatic protection in the file of lists (they count
  towards the 128 that are read), the amounts of cash (a zero one, too) and their clamping, a store
  whose result the code ignores in a debugging path, news and histories, other moves
  of the players, a load within the process.
- *Acquisition*: scores and pacing, amounts of cash, news, histories and rendering; the
  repairs between acquisition and audit and the daily call-up of foreign players; the
  synchronous consumer of the daily maintenance; the claim of a day's run, which
  within one save says what the cursor says; failing reads, and failing writes of the two dates; seasons other than the
  present one; a change of the save in the process (the idle branch reads a latest date
  without a scope and can put a date of the old save into the new one's rows).

Whole parts: those with status `not_modelled` in `PROJECT.json`, with the reason at
each and the largest files of its directories as sources. In short, hooks, patches and address tables are machine code; generation and evaluation of
players is arithmetic and random draws on game memory; the window is a user
interface; the launcher, tools and data are processes and files of their own. What
has a protocol and is still missing is in the plan.

## 7 Plan

In order of importance; 1 to 6 are done.

| | module | models | properties, theorems |
|---|---|---|---|
| 1 | `DateTick` | publication and synchronous dispatch | done |
| 2 | `DateFeed`, `TickConsumer` | consumers of the ring, abstract and detailed | done |
| 3 | `CustomEvents` | ticks of two callers, rows, restarts | done |
| 4 | `SaveGate` | save detection and pause | done |
| 5 | `FACompensation` | a compensation from signing to settlement | done |
| 6 | `IndependentAcquisition` | the background pass with offers, sales, audit | done |
| 7 | `RuntimeThreads` | registry, start, stop, shutdown | a handle is closed once and by its owner; a thread that is not joined was created after the stop request; the shutdown ends |
| 8 | `WaiverWindow` | window dates, their cache, the pending event, rights | no event lost; nobody but the owner signs within the window; the cache never hides a save switch |
| 9 | `Startup` | marker wait, `force_resync`, order of installation | no date lost between resynchronisation and the first consumer |
| 10 | `OffseasonFA` | snapshot, classification by phase | a season is classified once, from its own snapshot |
| 11 | `MilitaryLoan` | loan and return by dates | a loaned player returns once |

## 8 Running the checks

    tlc -workers 2 -config tick_safety.cfg MCDateTick
    tlc -workers 2 -config consumer_saves.cfg MCTickConsumer
    tlc -workers 2 -config events_two.cfg MCCustomEvents
    tlc -workers 2 -config save_gate.cfg SaveGate
    tlc -workers 2 -config compensation.cfg MCFACompensation
    tlc -workers 2 -config acquisition.cfg MCIndependentAcquisition
    tlapm DateTick_proofs.tla            # and each other *_proofs module

The `cfg` of a run has its name; `PROJECT.json` lists the module of each. The
definitions marked *Mutant* are what `PROJECT.json` pairs with each property: put
in the place of the definition they mutate, TLC finds the property violated.
