---------------------------- MODULE CustomEvents ----------------------------
(***************************************************************************)
(* The custom-event runtime (native/src/custom_events/runtime): on each    *)
(* published date it runs the events of the league calendar that are due.  *)
(*                                                                         *)
(* Two callers run the same tick: the synchronous date consumer ("sync",   *)
(* one at a time by the dispatch lock of DateTick) and the monitor thread  *)
(* on a season-phase pulse ("monitor").  Each step below is one access to  *)
(* what they share: the caches and CAS words of the process, the flags in  *)
(* the game's memory, a statement on the save's SQLite file.               *)
(*                                                                         *)
(* The game's memory reaches the disk only when the player saves, the      *)
(* SQLite rows at once: a restart from an older save sees rows of days     *)
(* that never happened.                                                    *)
(*                                                                         *)
(* An event is the number of the day it is due on, has a kind of its own,  *)
(* and the modelled days are of one year.  Left out: the FA-compensation   *)
(* step at the end of a tick (words of its own), the offseason transition  *)
(* at its start, the limit of 32 scans in a pass, the Asian Games hold     *)
(* maintenance at the end of one, the re-check of a completed event's      *)
(* domain rows, which live in the same file as its completion, and the     *)
(* schedulers' inserts: an event is in the calendar before its day.        *)
(***************************************************************************)
EXTENDS Integers, FiniteSets

CONSTANTS
    Saves,        \* save paths
    NoSave,       \* no save path
    Events,       \* events of the calendar, each the day it is due
    Direct,       \* events a scheduler also runs itself, without the calendar
    DirectUntil,  \* the last day on which it does
    MaxDate,      \* bound: last day the game reaches
    MaxPulses,    \* bound: ticks of the monitor thread
    MaxDefers,    \* bound: handlers that put their event off
    MaxFailures,  \* bound: handlers that fail
    MaxBadWrites, \* bound: SQLite statements that fail
    MaxSaves,     \* bound: how often the player saves
    MaxLoads      \* bound: how often a save is loaded or the game restarted

ASSUME CustomEventsAssumption ==
    /\ NoSave \notin Saves
    /\ Events \subseteq 1 .. MaxDate
    /\ Direct \subseteq Events
    /\ {DirectUntil, MaxDate, MaxPulses, MaxDefers, MaxFailures, MaxBadWrites, MaxSaves,
        MaxLoads} \subseteq Nat
    /\ MaxDate > 0

Callers == {"sync", "monitor"}
Days == 1 .. MaxDate
DayOrNone == 0 .. MaxDate

VARIABLES
    game,        \* the loaded game: save, day, events flagged over, events
                 \* whose handler's effect it holds (twice: a repetition)
    stored,      \* of each save: the game as last saved
    db,          \* of each save: custom_event_markers, the completed
                 \* custom_event_runs, and the calendar cursor
    published,   \* the latest published date (0: none yet)
    owed,        \* is the loaded save's entry still to be dispatched, or its
                 \* date to be dispatched again?
    processed,   \* g_kbo_processed_event_ptrs
    scheduled,   \* g_kbo_custom_event_global_scheduled_yyyymmdd
    scheduling,  \* g_kbo_custom_event_global_scheduled_processing_yyyymmdd
    scanned,     \* g_kbo_custom_event_global_scanned_yyyymmdd
    duePass,     \* g_kbo_custom_event_calendar_due_processing
    cursorCache, \* g_kbo_custom_event_calendar_cursor_cached_path and _value
    idleCache,   \* g_kbo_custom_event_idle_scan_cache: the day it was stored
                 \* and the next due day (0: none)
    lastPruned,  \* last_pruned_current_date of the marker prune
    running,     \* g_kbo_custom_event_running_keys
    last,        \* of each caller: its last_scheduled and last_scanned
    pc,          \* of each caller: its next step
    event,       \* of each caller: the event it looks at or runs
    inPass,      \* of each caller: is it inside a due pass?
    direct,      \* of each caller: is it running a scheduler's events?
    today,       \* of each caller: the date of its tick (0: none)
    local,       \* of each caller: its other locals
    used         \* how much of each bound is used

world == <<game, stored, db, published, owed>>
dates == <<scheduled, scheduling, scanned>>
caches == <<cursorCache, idleCache, lastPruned>>
locks == <<duePass, running>>
place == <<event, inPass, direct, today>>
callers == <<last, pc, place, local>>
vars == <<world, dates, caches, locks, processed, callers, used>>

NoCache == [at |-> 0, next |-> 0]
NoCursor == [save |-> NoSave, value |-> 0]

\* A caller's other locals: the tick's deferred; of the due pass, whether it
\* is deferred by a scheduler or by its scan, and whether a scan of it ran an
\* event; of a scan, the events still to look at, whether one of them was
\* deferred, and its result; how a handler ended.
NoLocals == [deferred |-> FALSE, critical |-> FALSE, ran |-> FALSE,
             failed |-> FALSE, todo |-> {}, blocked |-> FALSE,
             result |-> 0, outcome |-> "none"]

Fresh == [day |-> 1, over |-> {}, once |-> {}, twice |-> {}]
Unused == [pulses |-> 0, defers |-> 0, failures |-> 0, writes |-> 0,
           saves |-> 0, loads |-> 0]

InGame(s, copy) == [save |-> s, day |-> copy.day, over |-> copy.over,
                    once |-> copy.once, twice |-> copy.twice]
Copy(g) == [day |-> g.day, over |-> g.over, once |-> g.once, twice |-> g.twice]

Init ==
    /\ \E s \in Saves : game = InGame(s, Fresh)
    /\ stored = [s \in Saves |-> Fresh]
    /\ db = [s \in Saves |-> [markers |-> {}, ledger |-> {}, cursor |-> 0]]
    /\ published = 0 /\ owed = "entry"
    /\ processed = {} /\ running = {}
    /\ scheduled = 0 /\ scheduling = 0 /\ scanned = 0 /\ lastPruned = 0
    /\ duePass = FALSE
    /\ cursorCache = NoCursor /\ idleCache = NoCache
    /\ last = [t \in Callers |-> [scheduled |-> 0, scanned |-> 0]]
    /\ pc = [t \in Callers |-> "idle"]
    /\ event = [t \in Callers |-> 0]
    /\ inPass = [t \in Callers |-> FALSE] /\ direct = [t \in Callers |-> FALSE]
    /\ today = [t \in Callers |-> 0]
    /\ local = [t \in Callers |-> NoLocals]
    /\ used = Unused

Goto(t, from, to) ==
    /\ pc[t] = from
    /\ pc' = [pc EXCEPT ![t] = to]

\* Takes one unit of a bound.
Use(what, limit) ==
    /\ used[what] < limit
    /\ used' = [used EXCEPT ![what] = @ + 1]

(***************************************************************************)
(* The player and the game.  The game's thread runs the synchronous        *)
(* consumer itself: nothing is advanced, saved or loaded meanwhile.        *)
(***************************************************************************)
StartTick(t, day) ==
    /\ Goto(t, "idle", "schedule")
    /\ today' = [today EXCEPT ![t] = day]
    /\ UNCHANGED <<stored, db, dates, caches, locks, processed, last, event, inPass,
                   direct, local>>

\* A day is simulated, and published.
AdvanceDay ==
    /\ owed # "entry"
    /\ game.day < MaxDate
    /\ game' = [game EXCEPT !.day = @ + 1]
    /\ published' = game.day + 1
    /\ owed' = "retry"
    /\ StartTick("sync", game.day + 1)
    /\ UNCHANGED used

\* The loaded save's date is published at save entry, or dispatched again while
\* the dispatch of it is incomplete.
DispatchToday ==
    /\ owed # "no"
    /\ published' = game.day
    /\ owed' = "retry"
    /\ UNCHANGED game
    /\ StartTick("sync", game.day)
    /\ UNCHANGED used

\* A season-phase event wakes the monitor thread; it takes the published date.
PhasePulse ==
    /\ published # 0
    /\ Use("pulses", MaxPulses)
    /\ UNCHANGED <<game, published, owed>>
    /\ StartTick("monitor", published)

SaveGame ==
    /\ pc["sync"] = "idle"
    /\ Use("saves", MaxSaves)
    /\ stored' = [stored EXCEPT ![game.save] = Copy(game)]
    /\ UNCHANGED <<game, db, published, owed, dates, caches, locks, processed,
                   callers>>

\* Another save is loaded; the process goes on.  The calendar's addresses are
\* new, so no processed pointer and no idle cache matches.  A load under a tick
\* of the monitor thread is left out: its addresses would be gone.
LoadSave(s) ==
    /\ s # game.save
    /\ \A t \in Callers : pc[t] = "idle"
    /\ Use("loads", MaxLoads)
    /\ game' = InGame(s, stored[s])
    /\ owed' = "entry"
    /\ processed' = {}
    /\ idleCache' = NoCache
    /\ UNCHANGED <<stored, db, published, dates, cursorCache, lastPruned, locks,
                   callers>>

\* The process ends, or dies, and is started on the save as it is on disk.
Restart ==
    /\ Use("loads", MaxLoads)
    /\ game' = InGame(game.save, stored[game.save])
    /\ published' = 0 /\ owed' = "entry"
    /\ processed' = {} /\ running' = {}
    /\ scheduled' = 0 /\ scheduling' = 0 /\ scanned' = 0 /\ lastPruned' = 0
    /\ duePass' = FALSE
    /\ cursorCache' = NoCursor /\ idleCache' = NoCache
    /\ last' = [t \in Callers |-> [scheduled |-> 0, scanned |-> 0]]
    /\ pc' = [t \in Callers |-> "idle"]
    /\ event' = [t \in Callers |-> 0]
    /\ inPass' = [t \in Callers |-> FALSE] /\ direct' = [t \in Callers |-> FALSE]
    /\ today' = [t \in Callers |-> 0]
    /\ local' = [t \in Callers |-> NoLocals]
    /\ UNCHANGED <<stored, db>>

(***************************************************************************)
(* kbo_custom_event_monitor_tick_for_date: the due pass of the day.        *)
(***************************************************************************)
CheckScheduled(t) ==
    /\ \/ /\ Goto(t, "schedule", "scanCheck")
          /\ today[t] \in {last[t].scheduled, scheduled}
       \/ /\ Goto(t, "schedule", "claim")
          /\ today[t] \notin {last[t].scheduled, scheduled}
    /\ last' = IF today[t] = scheduled
                 THEN [last EXCEPT ![t].scheduled = scheduled] ELSE last
    /\ UNCHANGED <<world, dates, caches, locks, processed, place, local, used>>

ClaimSchedule(t) ==
    /\ \/ /\ Goto(t, "claim", "due")
          /\ scheduling = 0
          /\ scheduling' = today[t]
          /\ UNCHANGED local
       \/ /\ Goto(t, "claim", "scanCheck")
          /\ scheduling # 0
          /\ local' = [local EXCEPT ![t].deferred = TRUE]
          /\ UNCHANGED scheduling
    /\ UNCHANGED <<world, scheduled, scanned, caches, locks, processed, last, place, used>>

\* kbo_process_custom_events_due_through: one pass at a time.
ClaimPass(t) ==
    /\ \/ /\ Goto(t, "due", "cursor")
          /\ ~duePass
          /\ duePass' = TRUE
          /\ UNCHANGED local
       \/ /\ Goto(t, "due", "passDone")
          /\ duePass
          /\ local' = [local EXCEPT ![t].failed = TRUE]
          /\ UNCHANGED duePass
    /\ UNCHANGED <<world, dates, caches, running, processed, last, place, used>>

\* The cursor of the loaded save, cached by path.
CursorValue == IF cursorCache.save = game.save THEN cursorCache.value
                                               ELSE db[game.save].cursor

\* A cursor of today ends the pass; one of a later day counts as none.
ReadCursor(t) ==
    /\ cursorCache' = [save |-> game.save, value |-> CursorValue]
    /\ \/ /\ Goto(t, "cursor", "passDone")
          /\ CursorValue = today[t]
          /\ duePass' = FALSE
          /\ UNCHANGED <<local, inPass, direct>>
       \/ /\ Goto(t, "cursor", "direct")
          /\ CursorValue # today[t]
          /\ inPass' = [inPass EXCEPT ![t] = TRUE]
          /\ direct' = [direct EXCEPT ![t] = TRUE]
          /\ local' = [local EXCEPT ![t].todo = Direct]
          /\ UNCHANGED duePass
    /\ UNCHANGED <<world, dates, idleCache, lastPruned, running, processed, last,
                   event, today, used>>

(***************************************************************************)
(* Completion: a marker or a completed run of the ledger.  A look at the   *)
(* markers first prunes them all when the game was set back before one of  *)
(* them (they are of one year).                                            *)
(***************************************************************************)
Rewound == /\ published # lastPruned
           /\ \E m \in db[game.save].markers : m > published
Markers == IF Rewound THEN {} ELSE db[game.save].markers
Ledger == db[game.save].ledger

\* The markers were looked at, and are now these.
Prune(markers) ==
    /\ db' = [db EXCEPT ![game.save].markers = markers]
    /\ lastPruned' = published

\* Mutant: completion is looked up among the markers only.
CompletedByMarker(e) == e \in Markers

Completed(e) == e \in Markers \cup Ledger

\* kbo_process_due_asian_games_custom_event, kbo_process_due_cbt_custom_event:
\* a scheduler runs its due events without their calendar entries.
DirectEvents(t) ==
    {e \in local[t].todo : e <= today[t] /\ today[t] <= DirectUntil}

DirectStep(t) ==
    /\ \/ /\ Goto(t, "direct", "scan")
          /\ DirectEvents(t) = {}
          /\ direct' = [direct EXCEPT ![t] = FALSE]
          /\ UNCHANGED <<event, local, db, lastPruned>>
       \/ \E e \in DirectEvents(t) :
            /\ \A f \in DirectEvents(t) : e <= f
            /\ local' = [local EXCEPT ![t].todo = @ \ {e}]
            /\ event' = [event EXCEPT ![t] = e]
            /\ UNCHANGED direct
            /\ Prune(Markers)
            /\ \/ Goto(t, "direct", "direct") /\ Completed(e)
               \/ Goto(t, "direct", "enter") /\ ~Completed(e)
    /\ UNCHANGED <<game, stored, published, owed, dates, cursorCache, idleCache, locks,
                   processed, last, inPass, today, used>>

(***************************************************************************)
(* scan_kbo_custom_events_once_for_date.                                   *)
(***************************************************************************)
\* Mutant: an event of the next day is passed over.
NextDueSkipsADay(day) ==
    LET later == {e \in Events : e > day + 1}
    IN  IF later = {} THEN 0 ELSE CHOOSE e \in later : \A f \in later : e <= f

\* Mutant: the day after is taken for the next due one.
NextDay(day) == day + 1

NextDue(day) ==
    LET later == {e \in Events : e > day}
    IN  IF later = {} THEN 0 ELSE CHOOSE e \in later : \A f \in later : e <= f

\* Mutant: the next due day is still idle.
IdleOnNextDue(day) ==
    /\ idleCache.at # 0
    /\ day >= idleCache.at
    /\ idleCache.next = 0 \/ day <= idleCache.next

IdleOn(day) ==
    /\ idleCache.at # 0
    /\ day >= idleCache.at
    /\ idleCache.next = 0 \/ day < idleCache.next

StartScan(t) ==
    /\ \/ /\ Goto(t, "scan", "scanned")
          /\ IdleOn(today[t])
          /\ local' = [local EXCEPT ![t].result = 0]
       \/ /\ Goto(t, "scan", "look")
          /\ ~IdleOn(today[t])
          /\ local' = [local EXCEPT ![t].todo = Events, ![t].blocked = FALSE]
    /\ UNCHANGED <<world, dates, caches, locks, processed, last, place, used>>

\* The events still to look at that are due, not over and not processed.
Candidates(t) ==
    {e \in local[t].todo : e <= today[t]} \ (game.over \cup processed)

\* The next of them: a completed one is marked and passed over.
Look(t) ==
    /\ \E e \in Candidates(t) :
         /\ \A f \in Candidates(t) : e <= f
         /\ \/ /\ Goto(t, "look", "look")
               /\ Completed(e)
               /\ game' = [game EXCEPT !.over = @ \cup {e}]
               /\ processed' = processed \cup {e}
               /\ Prune(Markers \cup {e})
            \/ /\ Goto(t, "look", "enter")
               /\ ~Completed(e)
               /\ Prune(Markers)
               /\ UNCHANGED <<game, processed>>
         /\ event' = [event EXCEPT ![t] = e]
         /\ local' = [local EXCEPT ![t].todo = @ \ {e}]
    /\ UNCHANGED <<stored, published, owed, dates, cursorCache, idleCache, locks, last,
                   inPass, direct, today, used>>

\* Mutant: a scan that was put off is cached as idle too.
EndScanCachesDeferred(t) ==
    /\ Goto(t, "look", "scanned")
    /\ Candidates(t) = {}
    /\ local' = [local EXCEPT ![t].result = IF local[t].blocked THEN -1 ELSE 0]
    /\ idleCache' = [at |-> today[t], next |-> NextDue(today[t])]
    /\ UNCHANGED <<world, dates, cursorCache, lastPruned, locks, processed, last, place, used>>

\* A scan that ran nothing and was put off by nothing is cached as idle.
EndScan(t) ==
    /\ Goto(t, "look", "scanned")
    /\ Candidates(t) = {}
    /\ local' = [local EXCEPT ![t].result = IF local[t].blocked THEN -1 ELSE 0]
    /\ idleCache' = IF local[t].blocked THEN idleCache
                      ELSE [at |-> today[t], next |-> NextDue(today[t])]
    /\ UNCHANGED <<world, dates, cursorCache, lastPruned, locks, processed, last, place, used>>

(***************************************************************************)
(* kbo_run_custom_event_by_kind.                                           *)
(***************************************************************************)

\* Where a caller goes on after a run that was not entered, put off or failed.
After(t) == IF direct[t] THEN "direct" ELSE "look"

\* Mutant: the word of the kind is written without looking at it.
EnterRunUnclaimed(t) ==
    /\ Goto(t, "enter", "recheck")
    /\ running' = running \cup {event[t]}
    /\ UNCHANGED <<world, dates, caches, duePass, processed, last, place,
                   local, used>>

\* The kind's word in running_keys is claimed.  A scheduler takes a busy one
\* for a deferral; a scan passes over it.
EnterRun(t) ==
    /\ \/ /\ Goto(t, "enter", "recheck")
          /\ event[t] \notin running
          /\ running' = running \cup {event[t]}
          /\ UNCHANGED local
       \/ /\ Goto(t, "enter", After(t))
          /\ event[t] \in running
          /\ local' = [local EXCEPT ![t].critical = @ \/ direct[t]]
          /\ UNCHANGED running
    /\ UNCHANGED <<world, dates, caches, duePass, processed, last, place, used>>

\* Mutant: completion is not looked at again inside the run.
NoRecheck(t) ==
    /\ Goto(t, "recheck", "handler")
    /\ UNCHANGED <<world, dates, caches, locks, processed, last, place, local,
                   used>>

\* Inside the run, completion is looked at again: the ledger, then the markers.
Recheck(t) ==
    /\ \/ /\ Goto(t, "recheck", "mark")
          /\ Completed(event[t])
          /\ local' = [local EXCEPT ![t].outcome = "already"]
       \/ /\ Goto(t, "recheck", "handler")
          /\ ~Completed(event[t])
          /\ UNCHANGED local
    /\ IF event[t] \in Ledger THEN UNCHANGED <<db, lastPruned>> ELSE Prune(Markers)
    /\ UNCHANGED <<game, stored, published, owed, dates, cursorCache, idleCache, locks,
                   processed, last, place, used>>

\* The handler does the event's work in the loaded game,
HandlerDone(t) ==
    /\ Goto(t, "handler", "mark")
    /\ game' = IF event[t] \in game.once
                 THEN [game EXCEPT !.twice = @ \cup {event[t]}]
                 ELSE [game EXCEPT !.once = @ \cup {event[t]}]
    /\ local' = [local EXCEPT ![t].outcome = "done"]
    /\ UNCHANGED <<stored, db, published, owed, dates, caches, locks, processed, last,
                   place, used>>

\* Mutant: an event put off is completed like one that was done.
HandlerDefersCompletes(t) ==
    /\ Goto(t, "handler", "mark")
    /\ Use("defers", MaxDefers)
    /\ local' = [local EXCEPT ![t].outcome = "done"]
    /\ UNCHANGED <<world, dates, caches, locks, processed, last, place>>

\* or answers 0 and puts it off, or answers -1 and fails; either is recorded in
\* the ledger, but not as completed.
HandlerDefers(t) ==
    /\ Goto(t, "handler", "leave")
    /\ Use("defers", MaxDefers)
    /\ local' = [local EXCEPT ![t].outcome = "defer"]
    /\ UNCHANGED <<world, dates, caches, locks, processed, last, place>>

HandlerFails(t) ==
    /\ Goto(t, "handler", "leave")
    /\ Use("failures", MaxFailures)
    /\ local' = [local EXCEPT ![t].outcome = "fail"]
    /\ UNCHANGED <<world, dates, caches, locks, processed, last, place>>

\* kbo_mark_custom_event_processed, for an event of the calendar.
Mark(t) ==
    /\ Goto(t, "mark", "marker")
    /\ IF direct[t]
         THEN UNCHANGED <<game, processed>>
         ELSE /\ game' = [game EXCEPT !.over = @ \cup {event[t]}]
              /\ processed' = processed \cup {event[t]}
    /\ UNCHANGED <<stored, db, published, owed, dates, caches, locks, last, place, local, used>>

\* kbo_persist_custom_event_processed_marker; the write may fail.
WriteMarker(t) ==
    /\ Goto(t, "marker", IF local[t].outcome = "done" THEN "record" ELSE "leave")
    /\ \/ Prune(Markers \cup {event[t]}) /\ UNCHANGED used
       \/ Prune(Markers) /\ event[t] \notin Markers /\ Use("writes", MaxBadWrites)
    /\ UNCHANGED <<game, stored, published, owed, dates, cursorCache, idleCache, locks,
                   processed, last, place, local>>

\* kbo_custom_event_ledger_record of a completed run; the write may fail.
RecordRun(t) ==
    /\ Goto(t, "record", "leave")
    /\ \/ /\ db' = [db EXCEPT ![game.save].ledger = @ \cup {event[t]}]
          /\ UNCHANGED used
       \/ Use("writes", MaxBadWrites) /\ UNCHANGED db
    /\ UNCHANGED <<game, stored, published, owed, dates, caches, locks, processed, last,
                   place, local>>

\* kbo_custom_event_leave_run.  A run ends a scan, unless it was put off, which
\* blocks the scan, or failed, which leaves no trace in it.  A scheduler that
\* could not run its event is deferred.
LeaveRun(t) ==
    LET ran == local[t].outcome \in {"done", "already"}
    IN  /\ Goto(t, "leave", IF ran /\ ~direct[t] THEN "scanned" ELSE After(t))
        /\ running' = running \ {event[t]}
        /\ local' = [local EXCEPT
               ![t].result = IF ran THEN 1 ELSE 0,
               ![t].critical = @ \/ (direct[t] /\ ~ran),
               ![t].blocked = @ \/ (~direct[t] /\ local[t].outcome = "defer"),
               ![t].outcome = "none"]
        /\ UNCHANGED <<world, dates, caches, duePass, processed, last, place,
                       used>>

(***************************************************************************)
(* The ends of a scan, a pass and a tick.                                  *)
(***************************************************************************)

\* kbo_custom_event_calendar_scan_until_idle: a scan that ran an event is
\* repeated; one that was deferred counts only if no scan before it ran one.
PassScanned(t) ==
    /\ inPass[t]
    /\ Goto(t, "scanned", IF local[t].result > 0 THEN "scan" ELSE "passEnd")
    /\ local' = [local EXCEPT ![t].ran = @ \/ local[t].result > 0,
                              ![t].failed = local[t].result < 0 /\ ~local[t].ran]
    /\ UNCHANGED <<world, dates, caches, locks, processed, last, place, used>>

\* Mutant: a deferred pass returns without freeing its word.
PassEndKeepsWord(t) ==
    /\ Goto(t, "passEnd", "passDone")
    /\ inPass' = [inPass EXCEPT ![t] = FALSE]
    /\ local' = [local EXCEPT ![t].failed = @ \/ local[t].critical]
    /\ IF local[t].failed \/ local[t].critical
         THEN UNCHANGED <<db, cursorCache, duePass>>
         ELSE /\ db' = [db EXCEPT ![game.save].cursor = today[t]]
              /\ cursorCache' = [save |-> game.save, value |-> today[t]]
              /\ duePass' = FALSE
    /\ UNCHANGED <<game, stored, published, owed, dates, idleCache, lastPruned, running,
                   processed, last, event, direct, today, used>>

\* A pass that nothing deferred moves the cursor; the write may fail, and then
\* it is not cached.
PassEnd(t) ==
    /\ Goto(t, "passEnd", "passDone")
    /\ duePass' = FALSE
    /\ inPass' = [inPass EXCEPT ![t] = FALSE]
    /\ local' = [local EXCEPT ![t].failed = @ \/ local[t].critical]
    /\ \/ /\ ~(local[t].failed \/ local[t].critical)
          /\ db' = [db EXCEPT ![game.save].cursor = today[t]]
          /\ cursorCache' = [save |-> game.save, value |-> today[t]]
          /\ UNCHANGED used
       \/ /\ ~(local[t].failed \/ local[t].critical)
          /\ Use("writes", MaxBadWrites)
          /\ UNCHANGED <<db, cursorCache>>
       \/ /\ local[t].failed \/ local[t].critical
          /\ UNCHANGED <<db, cursorCache, used>>
    /\ UNCHANGED <<game, stored, published, owed, dates, idleCache, lastPruned, running,
                   processed, last, event, direct, today>>

ReleaseSchedule(t) ==
    /\ Goto(t, "passDone", IF local[t].failed THEN "scanCheck" ELSE "setScheduled")
    /\ scheduling' = 0
    /\ local' = [local EXCEPT ![t].deferred = local[t].failed]
    /\ UNCHANGED <<world, scheduled, scanned, caches, locks, processed, last, place, used>>

SetScheduled(t) ==
    /\ Goto(t, "setScheduled", "setScanned")
    /\ last' = [last EXCEPT ![t].scheduled = today[t]]
    /\ scheduled' = today[t]
    /\ UNCHANGED <<world, scheduling, scanned, caches, locks, processed, place,
                   local, used>>

\* Every result of a pass that was not deferred is changed or idle.
SetScanned(t) ==
    /\ Goto(t, "setScanned", "scanCheck")
    /\ last' = [last EXCEPT ![t].scanned = today[t]]
    /\ scanned' = today[t]
    /\ UNCHANGED <<world, scheduled, scheduling, caches, locks, processed, place, local, used>>

\* A day that was not scanned yet is scanned once more, outside of a pass.
CheckScanned(t) ==
    /\ Goto(t, "scanCheck",
            IF today[t] \in {scanned, last[t].scanned} THEN "end" ELSE "scan")
    /\ last' = IF today[t] = scanned
                 THEN [last EXCEPT ![t].scanned = scanned] ELSE last
    /\ UNCHANGED <<world, dates, caches, locks, processed, place, local, used>>

TickScanned(t) ==
    /\ ~inPass[t]
    /\ Goto(t, "scanned", "end")
    /\ IF local[t].result >= 0
         THEN /\ last' = [last EXCEPT ![t].scanned = today[t]]
              /\ scanned' = today[t]
              /\ UNCHANGED local
         ELSE /\ local' = [local EXCEPT ![t].deferred = TRUE]
              /\ UNCHANGED <<last, scanned>>
    /\ UNCHANGED <<world, scheduled, scheduling, caches, locks, processed, place, used>>

\* The tick answers; a deferred date is dispatched again.
EndTick(t) ==
    /\ Goto(t, "end", "idle")
    /\ owed' = IF t = "monitor" \/ local[t].deferred THEN owed ELSE "no"
    /\ local' = [local EXCEPT ![t] = NoLocals]
    /\ event' = [event EXCEPT ![t] = 0]
    /\ today' = [today EXCEPT ![t] = 0]
    /\ UNCHANGED <<game, stored, db, published, dates, caches, locks, processed, last,
                   inPass, direct, used>>

Step(t) ==
    \/ CheckScheduled(t) \/ ClaimSchedule(t) \/ ClaimPass(t) \/ ReadCursor(t)
    \/ DirectStep(t) \/ StartScan(t) \/ Look(t) \/ EndScan(t)
    \/ EnterRun(t) \/ Recheck(t)
    \/ HandlerDone(t) \/ HandlerDefers(t) \/ HandlerFails(t)
    \/ Mark(t) \/ WriteMarker(t) \/ RecordRun(t) \/ LeaveRun(t)
    \/ PassScanned(t) \/ PassEnd(t)
    \/ ReleaseSchedule(t) \/ SetScheduled(t) \/ SetScanned(t)
    \/ CheckScanned(t) \/ TickScanned(t) \/ EndTick(t)

Next ==
    \/ AdvanceDay \/ DispatchToday \/ PhasePulse
    \/ SaveGame \/ Restart
    \/ \E s \in Saves : LoadSave(s)
    \/ \E t \in Callers : Step(t)

Spec == Init /\ [][Next]_vars

\* A caller that entered its tick takes its steps; the game's thread dispatches
\* a date again whose dispatch is incomplete (current_date_tick watchpoint).
Fairness ==
    /\ \A t \in Callers : WF_vars(Step(t))
    /\ WF_vars(DispatchToday)

FairSpec == Init /\ [][Next]_vars /\ Fairness

(***************************************************************************)
(* Properties.                                                             *)
(***************************************************************************)
RunSteps == {"recheck", "handler", "mark", "marker", "record", "leave"}
ScanSteps == {"scan", "look", "enter", "scanned"} \cup RunSteps
PassSteps == {"cursor", "direct", "passEnd"} \cup ScanSteps
ScheduleSteps == {"due", "passDone"} \cup PassSteps
Steps == {"idle", "schedule", "claim", "setScheduled", "setScanned", "scanCheck",
          "end"} \cup ScheduleSteps

CopyType == [day : 1 .. MaxDate, over : SUBSET Events, once : SUBSET Events,
             twice : SUBSET Events]
GameType == [save : Saves, day : 1 .. MaxDate, over : SUBSET Events,
             once : SUBSET Events, twice : SUBSET Events]
RowsType == [markers : SUBSET Events, ledger : SUBSET Events, cursor : DayOrNone]
LastType == [scheduled : DayOrNone, scanned : DayOrNone]
LocalType == [deferred : BOOLEAN, critical : BOOLEAN, ran : BOOLEAN,
              failed : BOOLEAN, todo : SUBSET Events,
              blocked : BOOLEAN, result : {-1, 0, 1},
              outcome : {"none", "done", "already", "defer", "fail"}]

\* The types of all variables.
TypeOK ==
    /\ game \in GameType
    /\ stored \in [Saves -> CopyType]
    /\ db \in [Saves -> RowsType]
    /\ published \in DayOrNone
    /\ owed \in {"no", "retry", "entry"}
    /\ processed \in SUBSET Events
    /\ running \in SUBSET Events
    /\ {scheduled, scheduling, scanned, lastPruned} \subseteq DayOrNone
    /\ duePass \in BOOLEAN
    /\ cursorCache \in [save : Saves \cup {NoSave}, value : DayOrNone]
    /\ idleCache \in [at : DayOrNone, next : DayOrNone]
    /\ last \in [Callers -> LastType]
    /\ pc \in [Callers -> Steps]
    /\ event \in [Callers -> DayOrNone]
    /\ inPass \in [Callers -> BOOLEAN]
    /\ direct \in [Callers -> BOOLEAN]
    /\ today \in [Callers -> DayOrNone]
    /\ local \in [Callers -> LocalType]
    /\ used \in [DOMAIN Unused -> Nat]

Running(t) == pc[t] \in RunSteps
InDuePass(t) == \/ pc[t] \in {"cursor", "direct", "passEnd"}
                \/ pc[t] \in ScanSteps /\ inPass[t]
HoldsSchedule(t) == InDuePass(t) \/ pc[t] \in {"due", "passDone"}

\* Two callers never run the same event: the word of its kind in running_keys
\* is a lock (custom_event_runner.c).
OneRunPerEvent ==
    \A t, u \in Callers : t # u /\ Running(t) /\ Running(u) => event[t] # event[u]

\* Every claimed word of the runtime has the one caller that will free it: a
\* deferral, a failure or an early return leaves nothing claimed behind.
LocksAreOwned ==
    /\ running = {event[t] : t \in {u \in Callers : Running(u)}}
    /\ duePass <=> \E t \in Callers : InDuePass(t)
    /\ scheduling # 0 <=> \E t \in Callers : HoldsSchedule(t)
    /\ \A t, u \in Callers : t # u => ~(HoldsSchedule(t) /\ HoldsSchedule(u))

\* The work of an event is never done twice in a game, whichever of the two
\* callers, of the scheduler and the scan, or of a session and the one after it
\* reaches it again, and although one write of its completion fails.
HandledOnce == game.twice = {}

\* What is flagged over, marked or completed in the ledger has had its handler's
\* effect in the game.
CompletedWasHandled ==
    game.over \cup db[game.save].markers \cup Ledger \subseteq game.once

\* The due events of the game that were neither done nor are in a run.
Missed == {e \in Events : e <= game.day} \ (game.once \cup game.over \cup running)

\* When the synchronous tick answers that the day's work is complete, no due
\* event is left undone.
CompleteTick == pc["sync"] = "end" /\ ~local["sync"].deferred => Missed = {}

\* The same while no handler has put its event off (what a deferral does to the
\* answer is the run events_masked).
CompleteUndeferred == used.defers = 0 => CompleteTick

\* While no handler has put its event off: as long as scans of the day are skipped
\* as idle, there is nothing to be done.  (Otherwise the scan of one caller may
\* take the day for idle while the other one holds the event's word, and the
\* event is put off then.)
IdleMeansDone == used.defers = 0 /\ IdleOn(game.day) => Missed = {}

\* An event whose day has passed is done in the end, although it was put off or
\* the player saved meanwhile; unless a handler fails, or a save is loaded.
EventuallyDone ==
    \A e \in Events : game.day > e ~>
        e \in game.once \/ used.loads > 0 \/ used.failures > 0
=============================================================================
