------------------------------ MODULE SaveGate ------------------------------
(***************************************************************************)
(* Detection of a save in progress (kbo_runtime_save_in_progress), and the *)
(* pause for it (_pause_for_save_if_needed) and the sleep that ends with   *)
(* one (kbo_runtime_sleep_should_continue) of the background threads.      *)
(*                                                                         *)
(* The game writes save_started when it begins to save and save_completed  *)
(* when it has: a save is in progress while the first is the newer file.   *)
(* A negative answer is cached for CacheFor in a word all threads share,   *)
(* stored without a lock.  Each step below is one access to that word, the *)
(* save path or a file.                                                    *)
(*                                                                         *)
(* Time is one clock for the tick count, the system time and the files'    *)
(* times, and the files are written as the save begins and ends.  Time 0   *)
(* stands for a missing file, 1 for a time before the process was created  *)
(* (what a session that crashed left behind), 2 for its creation.          *)
(***************************************************************************)
EXTENDS Integers

CONSTANTS
    Threads,   \* background threads and hooks
    Saves,     \* save paths
    NoSave,    \* the save path cannot be read (a load)
    CacheFor,  \* how long a negative answer is cached (100 ms)
    PauseFor,  \* how long a paused thread sleeps (500 ms)
    SleepFor,  \* how long a thread sleeps between its polls
    Stale,     \* the age at which a save is given up (15 minutes)
    LastStart, \* bound: the latest time at which a save begins
    LastTick,  \* bound: the end of time, but for sleeps
    MaxClock,  \* bound: the end of time
    MaxLoads   \* bound: how often a path is opened or lost

ASSUME SaveGateAssumption ==
    /\ NoSave \notin Saves
    /\ {CacheFor, PauseFor, SleepFor, Stale} \subseteq Nat \ {0}
    /\ CacheFor <= PauseFor
    /\ {LastStart, LastTick, MaxClock, MaxLoads} \subseteq Nat

Created == 2

VARIABLES
    clock,     \* the time
    game,      \* the current save path, is the game saving, loads so far
    started,   \* of each save: the time of its save_started file
    completed, \* of each save: the time of its save_completed file
    stop,      \* why the threads are to stop: g_kbo_runtime_threads_stop_requested
               \* is set, or else the user's flag enable_kbo_fix is off
    cache,     \* s_last_negative_tick
    pc,        \* of each thread: the access it makes next
    call       \* of each thread: the locals of its call

vars == <<clock, game, started, completed, stop, cache, pc, call>>
world == <<clock, game, started, completed, stop>>

\* The locals of a call.  told is the start of the save for which a pause has
\* last slept (0: none), until the end of that sleep.
NewCall(pausing) ==
    [pausing |-> pausing, now |-> 0, path |-> NoSave, start |-> 0,
     answer |-> FALSE, told |-> 0, until |-> 0]

Init ==
    /\ clock = Created
    /\ game \in [path : Saves \cup {NoSave}, saving : {FALSE}, loads : {0}]
    /\ started \in [Saves -> {0, 1}]
    /\ completed \in [Saves -> {0, 1}]
    /\ \A s \in Saves : completed[s] <= started[s]
    /\ stop = "no"
    /\ cache = 0
    /\ pc = [t \in Threads |-> "idle"]
    /\ call = [t \in Threads |-> NewCall(FALSE)]

(***************************************************************************)
(* The game and the player.                                                *)
(***************************************************************************)
Sleeping(t) == pc[t] \in {"nap", "sleep"}

\* After LastTick time passes only for those who sleep.
Tick ==
    /\ \/ clock < LastTick
       \/ clock < MaxClock /\ \E t \in Threads : Sleeping(t) /\ clock < call[t].until
    /\ clock' = clock + 1
    /\ UNCHANGED <<game, started, completed, stop, cache, pc, call>>

\* Two saves of a path do not fall into one instant of the files' clock.
BeginSave ==
    /\ game.path # NoSave /\ ~game.saving
    /\ completed[game.path] < clock /\ clock <= LastStart
    /\ game' = [game EXCEPT !.saving = TRUE]
    /\ started' = [started EXCEPT ![game.path] = clock]
    /\ UNCHANGED <<clock, completed, stop, cache, pc, call>>

EndSave ==
    /\ game.saving
    /\ game' = [game EXCEPT !.saving = FALSE]
    /\ completed' = [completed EXCEPT ![game.path] = clock]
    /\ UNCHANGED <<clock, started, stop, cache, pc, call>>

\* The player opens another save, or leaves the game for the menu.
ChangePath ==
    /\ ~game.saving /\ game.loads < MaxLoads
    /\ \E s \in Saves \cup {NoSave} :
         game' = [game EXCEPT !.path = s, !.loads = @ + 1]
    /\ UNCHANGED <<clock, started, completed, stop, cache, pc, call>>

RequestStop ==
    /\ stop' = "requested"
    /\ UNCHANGED <<clock, game, started, completed, cache, pc, call>>

\* The user turns the flag over; once a stop is requested nobody looks at it.
SetFlag ==
    /\ stop # "requested"
    /\ stop' = IF stop = "no" THEN "flag" ELSE "no"
    /\ UNCHANGED <<clock, game, started, completed, cache, pc, call>>

\* kbo_runtime_threads_should_continue.
Continue == stop = "no"

(***************************************************************************)
(* kbo_runtime_save_in_progress.                                           *)
(***************************************************************************)
Goto(t, from, to) == pc[t] = from /\ pc' = [pc EXCEPT ![t] = to]

\* A caller asks once, or pauses while the answer is yes if it is to go on.
\* The question is dated by the tick count it is asked at.
Ask(t) ==
    /\ Goto(t, "idle", "cache")
    /\ \E pausing \in {p \in BOOLEAN : p => Continue} :
         call' = [call EXCEPT ![t] = [NewCall(pausing) EXCEPT !.now = clock]]
    /\ UNCHANGED <<world, cache>>

\* Is the cached negative answer still good at the time now?
Cached(now) == cache # 0 /\ cache <= now /\ now - cache < CacheFor

CacheHit(t) ==
    /\ Cached(call[t].now)
    /\ Goto(t, "cache", "answer")
    /\ UNCHANGED <<world, cache, call>>

CacheMiss(t) ==
    /\ ~Cached(call[t].now)
    /\ Goto(t, "cache", "path")
    /\ UNCHANGED <<world, cache, call>>

\* An answer of the files goes to the cache before it is returned.
Verdict(t, from, answer) ==
    /\ Goto(t, from, "store")
    /\ call' = IF answer THEN [call EXCEPT ![t].answer = TRUE]
                ELSE [call EXCEPT ![t].path = NoSave, ![t].start = 0]
    /\ UNCHANGED <<world, cache>>

NoPath(t) == game.path = NoSave /\ Verdict(t, "path", FALSE)

ReadPath(t) ==
    /\ game.path # NoSave
    /\ Goto(t, "path", "started")
    /\ call' = [call EXCEPT ![t].path = game.path]
    /\ UNCHANGED <<world, cache>>

\* Mutant: a save of another session counts.
TooOldIfStale(start) == clock - start > Stale

\* Mutant: a save that never ends is waited for.
TooOldIfLeftover(start) == start < Created

\* A save of another session, or one that takes too long, is not waited for.
TooOld(start) == start < Created \/ clock - start > Stale

\* There is no such file, or its save is not to be waited for.
NotSaving(t) ==
    /\ pc[t] = "started"
    /\ LET start == started[call[t].path] IN start = 0 \/ TooOld(start)
    /\ Verdict(t, "started", FALSE)

ReadStarted(t) ==
    /\ Goto(t, "started", "completed")
    /\ LET start == started[call[t].path]
       IN  /\ start # 0 /\ ~TooOld(start)
           /\ call' = [call EXCEPT ![t].start = start]
    /\ UNCHANGED <<world, cache>>

ReadCompleted(t) ==
    /\ pc[t] = "completed"
    /\ Verdict(t, "completed", completed[call[t].path] < call[t].start)

PutInCache(t, tick) ==
    /\ Goto(t, "store", "answer")
    /\ cache' = tick
    /\ UNCHANGED <<world, call>>

\* Mutant: every answer is cached as a negative one.
StoreAlways(t) == PutInCache(t, call[t].now)

\* Mutant: "no negative answer" is stored as -1.
StoreMinusOne(t) == PutInCache(t, IF call[t].answer THEN -1 ELSE call[t].now)

\* Mutant: the time of the store is cached, not that of the question.
StoreAtClock(t) == PutInCache(t, IF call[t].answer THEN 0 ELSE clock)

Store(t) == PutInCache(t, IF call[t].answer THEN 0 ELSE call[t].now)

(***************************************************************************)
(* kbo_runtime_sleep_should_continue: between its slices (250 ms) the      *)
(* thread may find that it is to stop; in the end it pauses for a save.    *)
(***************************************************************************)
StartNap(t) ==
    /\ Continue /\ clock < LastTick
    /\ Goto(t, "idle", "nap")
    /\ call' = [call EXCEPT ![t] = [NewCall(TRUE) EXCEPT !.until = clock + SleepFor]]
    /\ UNCHANGED <<world, cache>>

NapOver(t) ==
    /\ clock >= call[t].until /\ Continue
    /\ Goto(t, "nap", "cache")
    /\ call' = [call EXCEPT ![t] = [NewCall(TRUE) EXCEPT !.now = clock]]
    /\ UNCHANGED <<world, cache>>

NapCutShort(t) ==
    /\ ~Continue
    /\ Goto(t, "nap", "idle")
    /\ call' = [call EXCEPT ![t] = NewCall(FALSE)]
    /\ UNCHANGED <<world, cache>>

(***************************************************************************)
(* The callers, and the loop of kbo_runtime_pause_for_save_if_needed.      *)
(***************************************************************************)
Return(t) ==
    /\ ~(call[t].answer /\ call[t].pausing)
    /\ Goto(t, "answer", "idle")
    /\ call' = [call EXCEPT ![t] = NewCall(FALSE)]
    /\ UNCHANGED <<world, cache>>

Sleep(t) ==
    /\ call[t].answer /\ call[t].pausing
    /\ Goto(t, "answer", "sleep")
    /\ call' = [call EXCEPT ![t].told = call[t].start, ![t].until = clock + PauseFor]
    /\ UNCHANGED <<world, cache>>

\* should_continue is asked before the files are.
WakeUp(t) ==
    /\ clock >= call[t].until /\ Continue
    /\ Goto(t, "sleep", "cache")
    /\ call' = [call EXCEPT ![t] = [NewCall(TRUE) EXCEPT !.now = clock,
                                                         !.told = call[t].told]]
    /\ UNCHANGED <<world, cache>>

WakeToStop(t) ==
    /\ clock >= call[t].until /\ ~Continue
    /\ Goto(t, "sleep", "idle")
    /\ call' = [call EXCEPT ![t] = NewCall(FALSE)]
    /\ UNCHANGED <<world, cache>>

World == Tick \/ BeginSave \/ EndSave \/ ChangePath \/ RequestStop \/ SetFlag

Step(t) ==
    \/ CacheHit(t) \/ CacheMiss(t) \/ NoPath(t) \/ ReadPath(t)
    \/ NotSaving(t) \/ ReadStarted(t) \/ ReadCompleted(t) \/ Store(t)
    \/ Return(t) \/ Sleep(t) \/ WakeUp(t) \/ WakeToStop(t)
    \/ NapOver(t) \/ NapCutShort(t)

Next == World \/ \E t \in Threads : Ask(t) \/ StartNap(t) \/ Step(t)

Spec == Init /\ [][Next]_vars

\* Time passes and a thread in a call runs on; nothing obliges the game to
\* finish a save.
Fairness == WF_vars(Tick) /\ \A t \in Threads : WF_vars(Step(t))
FairSpec == Spec /\ Fairness

(***************************************************************************)
(* Properties.                                                             *)
(***************************************************************************)
Labels == {"idle", "cache", "path", "started", "completed", "store", "answer",
           "nap", "sleep"}
CallType == [pausing : BOOLEAN, now : Nat, path : Saves \cup {NoSave}, start : Nat,
             answer : BOOLEAN, told : Nat, until : Nat]

TypeOK ==
    /\ clock \in Nat
    /\ game \in [path : Saves \cup {NoSave}, saving : BOOLEAN, loads : Nat]
    /\ started \in [Saves -> Nat]
    /\ completed \in [Saves -> Nat]
    /\ stop \in {"no", "flag", "requested"}
    /\ cache \in Nat
    /\ pc \in [Threads -> Labels]
    /\ call \in [Threads -> CallType]

\* The game is saving, and has not been for so long that it is given up.
Saving == game.saving /\ clock - started[game.path] <= Stale
Begun == started[game.path]

\* A "no" overlooks a save only in its first CacheFor, counted to the moment
\* the question was asked: however the threads' stores to the shared word
\* interleave, the cache hides no older save (runtime_threads.c, 102-107).
NoSaveOverlooked ==
    \A t \in Threads :
        pc[t] = "answer" /\ ~call[t].answer /\ Saving => Begun + CacheFor > call[t].now

\* A "yes" is about a save of this session that was not complete when the
\* question was asked; what a crashed session left behind pauses nobody.
YesMeansSaving ==
    \A t \in Threads :
        pc[t] = "answer" /\ call[t].answer =>
            /\ call[t].start >= Created
            /\ \/ completed[call[t].path] < call[t].start
               \/ completed[call[t].path] >= call[t].now

\* A thread that has slept for a save is not let go while that save goes on,
\* whatever another thread has put into the cache meanwhile: the sleep is at
\* least as long as a negative answer is good.
PauseCoversSave ==
    \A t \in Threads :
        pc[t] = "answer" /\ ~call[t].answer /\ Saving => call[t].told # Begun

\* Every question is answered and every pause ends, even when the save never
\* does.
EveryCallReturns == \A t \in Threads : pc[t] # "idle" ~> pc[t] = "idle"
=============================================================================
