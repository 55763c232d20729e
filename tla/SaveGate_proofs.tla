--------------------------- MODULE SaveGate_proofs ---------------------------
(***************************************************************************)
(* SaveGate for every set of threads and saves, every duration with        *)
(* CacheFor <= PauseFor, and time without end.                             *)
(*                                                                         *)
(* All three safety properties follow from one invariant about time:       *)
(* whatever the game is saving began after every question that is about    *)
(* to be answered with "no" was asked, and after the tick in the cache.    *)
(***************************************************************************)
EXTENDS SaveGate, TLAPS

\* The game began its save after time n, or so long ago that it is given up.
SaveSince(n) == game.saving => Begun >= n \/ clock - Begun > Stale

FilesInv ==
    /\ clock >= Created
    /\ \A s \in Saves : started[s] <= clock /\ completed[s] <= clock
    /\ game.saving => /\ game.path \in Saves
                      /\ started[game.path] >= Created
                      /\ completed[game.path] < started[game.path]

CacheInv == cache # 0 => cache <= clock /\ SaveSince(cache)

\* While a question is being answered.
Asking == {"cache", "path", "started", "completed", "store", "answer"}

TimesInv(t) ==
    /\ call[t].now <= clock /\ call[t].start <= clock
    /\ pc[t] \in {"cache", "path", "started", "completed"} => ~call[t].answer
    /\ pc[t] = "idle" => call[t].told = 0
    /\ pc[t] \in Asking /\ call[t].told # 0 => call[t].told + PauseFor <= call[t].now
    /\ pc[t] = "sleep" => call[t].told + PauseFor <= call[t].until

\* What the files read so far leave open.
ReadInv(t) ==
    /\ pc[t] = "started" => /\ call[t].path \in Saves
                            /\ call[t].path # game.path => SaveSince(call[t].now)
    /\ pc[t] = "completed" =>
         /\ call[t].path \in Saves /\ call[t].start >= Created
         /\ call[t].path # game.path \/ call[t].start # Begun => SaveSince(call[t].now)
    /\ pc[t] = "store" /\ ~call[t].answer => SaveSince(call[t].now)

YesInv(t) ==
    pc[t] \in {"store", "answer"} /\ call[t].answer =>
        /\ call[t].path \in Saves /\ call[t].start >= Created
        /\ \/ completed[call[t].path] < call[t].start
           \/ completed[call[t].path] >= call[t].now

NoInv(t) ==
    pc[t] = "answer" /\ ~call[t].answer /\ Saving =>
        Begun + CacheFor > call[t].now /\ call[t].told # Begun

ThreadInv(t) == TimesInv(t) /\ ReadInv(t) /\ YesInv(t) /\ NoInv(t)

GateInv == TypeOK /\ FilesInv /\ CacheInv /\ \A t \in Threads : ThreadInv(t)

\* The invariant implies what the runs check.
LEMMA GateInvImplies ==
  GateInv => NoSaveOverlooked /\ YesMeansSaving /\ PauseCoversSave
  BY DEF GateInv, ThreadInv, NoInv, YesInv, NoSaveOverlooked, YesMeansSaving, PauseCoversSave

\* No thread asks, and no save of this session is in progress.
LEMMA InitGate == Init => GateInv
<1> SUFFICES ASSUME Init PROVE GateInv
  OBVIOUS
<1> USE SaveGateAssumption DEF Init, Created
<1>1. TypeOK
  <2>1. NewCall(FALSE) \in CallType
    BY DEF NewCall, CallType
  <2>2. call \in [Threads -> CallType]
    BY <2>1
  <2>3. pc \in [Threads -> Labels]
    BY DEF Labels
  <2>4. {0, 1} \subseteq Nat
    OBVIOUS
  <2>5. started \in [Saves -> Nat] /\ completed \in [Saves -> Nat]
    BY <2>4
  <2>6. {FALSE} \subseteq BOOLEAN /\ {0} \subseteq Nat
    OBVIOUS
  <2>7. game \in [path : Saves \cup {NoSave}, saving : BOOLEAN, loads : Nat]
    BY <2>6
  <2> QED
    BY <2>2, <2>3, <2>5, <2>7 DEF TypeOK
<1>2. FilesInv /\ CacheInv
  <2>1. ASSUME NEW s \in Saves PROVE started[s] <= clock /\ completed[s] <= clock
    <3>1. started[s] \in {0, 1} /\ completed[s] \in {0, 1}
      OBVIOUS
    <3> QED
      BY <3>1, SMT
  <2>2. ~game.saving
    OBVIOUS
  <2>3. clock >= 2 /\ cache = 0
    BY SMT
  <2> QED
    BY <2>1, <2>2, <2>3 DEF FilesInv, CacheInv
<1>3. ASSUME NEW t \in Threads PROVE ThreadInv(t)
  <2>1. call[t] = NewCall(FALSE) /\ pc[t] = "idle"
    OBVIOUS
  <2> QED
    BY <2>1, SMT DEF ThreadInv, TimesInv, ReadInv, YesInv, NoInv, Asking, NewCall
<1> QED
  BY <1>1, <1>2, <1>3 DEF GateInv

\* Time passing keeps what it is about: the save in progress stays begun.
LEMMA TickKeepsGate == GateInv /\ Tick => GateInv'
<1> SUFFICES ASSUME GateInv, Tick PROVE GateInv'
  OBVIOUS
<1> USE SaveGateAssumption DEF GateInv, Created
<1>1. /\ clock \in Nat /\ clock' = clock + 1
      /\ UNCHANGED <<game, started, completed, stop, cache, pc, call>>
  BY DEF Tick, TypeOK
<1>2. TypeOK'
  BY <1>1 DEF TypeOK
<1>3. \A n \in Nat : SaveSince(n) => SaveSince(n)'
  BY <1>1, SMT DEF SaveSince, TypeOK, FilesInv, Begun
<1>4. FilesInv'
  BY <1>1, SMT DEF FilesInv, TypeOK
<1>5. CacheInv'
  BY <1>1, <1>3, SMT DEF CacheInv, TypeOK
<1>6. ASSUME NEW t \in Threads PROVE ThreadInv(t)'
  <2>1. call[t] \in CallType /\ ThreadInv(t)
    BY DEF TypeOK
  <2>2. TimesInv(t)'
    BY <1>1, <2>1, SMT DEF ThreadInv, TimesInv, CallType
  <2>3. ReadInv(t)'
    BY <1>1, <1>3, <2>1 DEF ThreadInv, ReadInv, CallType, Begun
  <2>4. YesInv(t)'
    BY <1>1, <2>1 DEF ThreadInv, YesInv
  <2>5. Saving' => Saving
    BY <1>1, SMT DEF Saving, FilesInv, TypeOK
  <2>6. NoInv(t)'
    BY <1>1, <2>1, <2>5 DEF ThreadInv, NoInv, Begun
  <2> QED
    BY <2>2, <2>3, <2>4, <2>6 DEF ThreadInv
<1> QED
  BY <1>2, <1>4, <1>5, <1>6

\* A save that begins is later than every question and every cached tick.
LEMMA BeginKeepsGate == GateInv /\ BeginSave => GateInv'
<1> SUFFICES ASSUME GateInv, BeginSave PROVE GateInv'
  OBVIOUS
<1> USE SaveGateAssumption DEF GateInv, Created
<1>1. /\ game.path \in Saves /\ completed[game.path] < clock /\ clock \in Nat
      /\ game' = [game EXCEPT !.saving = TRUE]
      /\ started' = [started EXCEPT ![game.path] = clock]
      /\ UNCHANGED <<clock, completed, stop, cache, pc, call>>
  BY SMT DEF BeginSave, TypeOK
<1>2. game'.path = game.path /\ game'.saving /\ started'[game.path] = clock
  BY <1>1 DEF TypeOK
<1>3. TypeOK'
  BY <1>1 DEF TypeOK
<1>4. \A n \in Nat : n <= clock => SaveSince(n)'
  BY <1>1, <1>2, SMT DEF SaveSince, Begun
<1>5. FilesInv'
  BY <1>1, <1>2, SMT DEF FilesInv, TypeOK
<1>6. CacheInv'
  BY <1>1, <1>4 DEF CacheInv, TypeOK
<1>7. ASSUME NEW t \in Threads PROVE ThreadInv(t)'
  <2>1. call[t] \in CallType /\ ThreadInv(t)
    BY DEF TypeOK
  <2>2. TimesInv(t)' /\ YesInv(t)'
    BY <1>1, <2>1 DEF ThreadInv, TimesInv, YesInv
  <2>3. call[t].now \in Nat /\ call[t].now <= clock
    BY <2>1 DEF ThreadInv, TimesInv, CallType
  <2>4. ReadInv(t)'
    BY <1>1, <1>4, <2>1, <2>3 DEF ThreadInv, ReadInv
  <2>5. NoInv(t)'
    BY <1>1, <1>2, <2>1, <2>3, SMT
       DEF ThreadInv, TimesInv, NoInv, Begun, CallType, FilesInv, Asking
  <2> QED
    BY <2>2, <2>4, <2>5 DEF ThreadInv
<1> QED
  BY <1>3, <1>5, <1>6, <1>7

\* The end of a save, a new path, the stop request and the flag take nothing back.
LEMMA EndKeepsGate ==
  GateInv /\ (EndSave \/ ChangePath \/ RequestStop \/ SetFlag) => GateInv'
<1> SUFFICES ASSUME GateInv, EndSave \/ ChangePath \/ RequestStop \/ SetFlag PROVE GateInv'
  OBVIOUS
<1> USE SaveGateAssumption DEF GateInv, Created
<1>1. /\ TypeOK' /\ clock' = clock /\ started' = started
      /\ UNCHANGED <<cache, pc, call>>
  <2>1. CASE EndSave
    <3>1. game' = [game EXCEPT !.saving = FALSE]
      BY <2>1 DEF EndSave
    <3>2. game' \in [path : Saves \cup {NoSave}, saving : BOOLEAN, loads : Nat]
      BY <3>1 DEF TypeOK
    <3>3. completed' \in [Saves -> Nat]
      BY <2>1 DEF EndSave, TypeOK
    <3> QED
      BY <2>1, <3>2, <3>3 DEF EndSave, TypeOK
  <2>2. CASE ChangePath
    <3>1. PICK s \in Saves \cup {NoSave} :
            game' = [game EXCEPT !.path = s, !.loads = @ + 1]
      BY <2>2 DEF ChangePath
    <3>2. game.loads + 1 \in Nat
      BY DEF TypeOK
    <3>3. game' \in [path : Saves \cup {NoSave}, saving : BOOLEAN, loads : Nat]
      BY <3>1, <3>2 DEF TypeOK
    <3> QED
      BY <2>2, <3>3 DEF ChangePath, TypeOK
  <2>3. CASE RequestStop \/ SetFlag
    BY <2>3 DEF RequestStop, SetFlag, TypeOK
  <2> QED
    BY <2>1, <2>2, <2>3
<1>2. \/ game' = game /\ completed' = completed
      \/ /\ ~game'.saving
         /\ \A s \in Saves : completed'[s] \in {completed[s], clock}
  <2>1. CASE EndSave
    BY <2>1, SMT DEF EndSave, TypeOK, FilesInv
  <2>2. CASE ChangePath
    <3>1. PICK s \in Saves \cup {NoSave} :
            game' = [game EXCEPT !.path = s, !.loads = @ + 1]
      BY <2>2 DEF ChangePath
    <3> QED
      BY <2>2, <3>1 DEF ChangePath, TypeOK
  <2>3. CASE RequestStop \/ SetFlag
    BY <2>3 DEF RequestStop, SetFlag
  <2> QED
    BY <2>1, <2>2, <2>3
<1>3. CASE game' = game /\ completed' = completed
  <2>1. FilesInv' /\ CacheInv'
    BY <1>1, <1>3 DEF FilesInv, CacheInv, SaveSince, Begun
  <2>2. \A t \in Threads : ThreadInv(t)'
    BY <1>1, <1>3
       DEF ThreadInv, TimesInv, ReadInv, YesInv, NoInv, SaveSince, Saving, Begun
  <2> QED
    BY <1>1, <2>1, <2>2
<1>4. CASE /\ ~game'.saving
           /\ \A s \in Saves : completed'[s] \in {completed[s], clock}
  <2>1. FilesInv'
    BY <1>1, <1>4, SMT DEF FilesInv, TypeOK
  <2>2. CacheInv' /\ \A n : SaveSince(n)'
    BY <1>1, <1>4 DEF CacheInv, SaveSince
  <2>3. ASSUME NEW t \in Threads PROVE ThreadInv(t)'
    <3>1. call[t] \in CallType /\ ThreadInv(t)
      BY DEF TypeOK
    <3>2. TimesInv(t)' /\ ReadInv(t)' /\ NoInv(t)'
      BY <1>1, <1>4, <2>2, <3>1 DEF ThreadInv, TimesInv, ReadInv, NoInv, Saving
    <3>3. YesInv(t)'
      BY <1>1, <1>4, <3>1 DEF ThreadInv, TimesInv, YesInv
    <3> QED
      BY <3>2, <3>3 DEF ThreadInv
  <2> QED
    BY <1>1, <2>1, <2>2, <2>3
<1> QED
  BY <1>2, <1>3, <1>4

\* A thread's step that changes no more than the cache and its own call keeps
\* the invariant if it keeps what the invariant says of these two.
LEMMA OwnStep ==
  ASSUME NEW t \in Threads, GateInv, UNCHANGED world,
         NEW l \in Labels, pc' = [pc EXCEPT ![t] = l],
         NEW c \in CallType, call' = [call EXCEPT ![t] = c],
         cache' \in Nat, CacheInv', ThreadInv(t)'
  PROVE  GateInv'
<1>1. TypeOK'
  BY DEF GateInv, TypeOK, world
<1>2. FilesInv'
  BY DEF GateInv, FilesInv, world
<1>3. ASSUME NEW u \in Threads, u # t PROVE ThreadInv(u)'
  <2>1. pc'[u] = pc[u] /\ call'[u] = call[u] /\ ThreadInv(u)
    BY <1>3 DEF GateInv, TypeOK
  <2> QED
    BY <2>1 DEF ThreadInv, TimesInv, ReadInv, YesInv, NoInv, SaveSince, Saving,
                Begun, world
<1> QED
  BY <1>1, <1>2, <1>3 DEF GateInv

\* A question asked or asked again: nothing has been read yet.
LEMMA AskKeepsGate ==
  ASSUME NEW t \in Threads, GateInv, Ask(t) \/ WakeUp(t) \/ NapOver(t)
  PROVE  GateInv'
<1> USE SaveGateAssumption DEF Created, Goto
<1> DEFINE c == call'[t]
<1>1. call[t] \in CallType /\ ThreadInv(t) /\ clock \in Nat /\ PauseFor \in Nat
  BY DEF GateInv, TypeOK
<1>2. /\ c \in CallType /\ call' = [call EXCEPT ![t] = c]
      /\ c.now = clock /\ c.start = 0 /\ ~c.answer
      /\ c.told # 0 => c.told + PauseFor <= clock
  <2>1. CASE Ask(t) \/ NapOver(t)
    <3>1. PICK pausing \in BOOLEAN :
            call' = [call EXCEPT ![t] = [NewCall(pausing) EXCEPT !.now = clock]]
      BY <2>1 DEF Ask, NapOver
    <3>2. c = [NewCall(pausing) EXCEPT !.now = clock]
      BY <3>1 DEF GateInv, TypeOK
    <3>3. c = [pausing |-> pausing, now |-> clock, path |-> NoSave, start |-> 0,
               answer |-> FALSE, told |-> 0, until |-> 0]
      BY <3>2 DEF NewCall
    <3>4. c \in CallType
      BY <1>1, <3>3 DEF CallType
    <3>5. c.now = clock /\ c.start = 0 /\ ~c.answer /\ c.told = 0
      BY <3>3
    <3>6. call' = [call EXCEPT ![t] = c]
      BY <3>1, <3>2
    <3> HIDE DEF c
    <3> QED
      BY <3>4, <3>5, <3>6
  <2>2. CASE WakeUp(t)
    <3>1. /\ call' = [call EXCEPT ![t] = [NewCall(TRUE) EXCEPT !.now = clock,
                                                              !.told = call[t].told]]
          /\ clock >= call[t].until /\ pc[t] = "sleep"
      BY <2>2 DEF WakeUp
    <3>2. c = [NewCall(TRUE) EXCEPT !.now = clock, !.told = call[t].told]
      BY <3>1 DEF GateInv, TypeOK
    <3>3. c = [pausing |-> TRUE, now |-> clock, path |-> NoSave, start |-> 0,
               answer |-> FALSE, told |-> call[t].told, until |-> 0]
      BY <3>2 DEF NewCall
    <3>4. c \in CallType
      BY <1>1, <3>3 DEF CallType
    <3>5. call[t].told + PauseFor <= clock
      BY <1>1, <3>1, SMT DEF ThreadInv, TimesInv, CallType
    <3>6. c.now = clock /\ c.start = 0 /\ ~c.answer /\ c.told = call[t].told
      BY <3>3
    <3>7. call' = [call EXCEPT ![t] = c]
      BY <3>1, <3>2
    <3> HIDE DEF c
    <3> QED
      BY <3>4, <3>5, <3>6, <3>7
  <2> QED
    BY <2>1, <2>2
<1>3. pc' = [pc EXCEPT ![t] = "cache"] /\ UNCHANGED <<world, cache>>
  BY DEF Ask, WakeUp, NapOver
<1>4. CacheInv' /\ cache' \in Nat
  BY <1>3 DEF GateInv, TypeOK, CacheInv, SaveSince, Begun, world
<1>5. ThreadInv(t)'
  <2>1. pc'[t] = "cache" /\ clock' = clock
    BY <1>3 DEF GateInv, TypeOK, world
  <2> QED
    BY <1>1, <1>2, <2>1 DEF ThreadInv, TimesInv, ReadInv, YesInv, NoInv
<1> HIDE DEF c
<1> QED
  BY <1>2, <1>3, <1>4, <1>5, OwnStep DEF Labels

\* The steps by which a call comes closer to its answer without changing the
\* cache: what the files have not excluded is what the invariant allows.
LEMMA ReadKeepsGate ==
  ASSUME NEW t \in Threads, GateInv,
         \/ CacheMiss(t) \/ NoPath(t) \/ ReadPath(t)
         \/ NotSaving(t) \/ ReadStarted(t) \/ ReadCompleted(t)
  PROVE  GateInv'
<1> USE SaveGateAssumption DEF Created, Goto
<1> DEFINE c == call'[t]
           K == [call[t] EXCEPT !.answer = TRUE]
           N == [call[t] EXCEPT !.path = NoSave, !.start = 0]
<1>1. /\ call[t] \in CallType /\ ThreadInv(t) /\ clock \in Nat /\ game.path \in Saves \cup {NoSave}
      /\ started \in [Saves -> Nat] /\ completed \in [Saves -> Nat] /\ FilesInv
      /\ pc \in [Threads -> Labels] /\ call \in [Threads -> CallType]
  BY DEF GateInv, TypeOK
<1>2. UNCHANGED <<world, cache>>
  BY DEF CacheMiss, NoPath, ReadPath, NotSaving, ReadStarted, ReadCompleted, Verdict
<1>3. CacheInv' /\ cache' \in Nat /\ clock' = clock /\ completed' = completed /\ game' = game
  BY <1>2 DEF GateInv, TypeOK, CacheInv, SaveSince, Begun, world
<1>4. \A n : SaveSince(n)' <=> SaveSince(n)
  BY <1>2 DEF SaveSince, Begun, world
<1>5. ASSUME NEW from, from \notin {"idle", "nap", "sleep"},
             Verdict(t, from, FALSE), SaveSince(call[t].now),
             ~call[t].answer
      PROVE  GateInv'
  <2>1. call' = [call EXCEPT ![t] = N]
    BY <1>5, <1>1 DEF Verdict, CallType
  <2>2. /\ N \in CallType /\ ~N.answer /\ N.now = call[t].now /\ N.told = call[t].told
        /\ N.start = 0
    BY <1>1, <1>5 DEF CallType
  <2>3. c = N /\ pc' = [pc EXCEPT ![t] = "store"] /\ pc'[t] = "store" /\ pc[t] = from
    BY <1>1, <1>5, <2>1 DEF Verdict
  <2>4. pc[t] \in Asking
    BY <1>1, <1>5, <2>3 DEF Labels, Asking
  <2>5. ThreadInv(t)'
    BY <1>1, <1>3, <1>4, <1>5, <2>2, <2>3, <2>4
       DEF ThreadInv, TimesInv, ReadInv, YesInv, NoInv, Asking
  <2> HIDE DEF N, c
  <2> QED
    BY <1>2, <1>3, <2>1, <2>2, <2>3, <2>5, OwnStep DEF Labels
<1>6. CASE CacheMiss(t)
  <2>1. call' = call /\ pc' = [pc EXCEPT ![t] = "path"] /\ pc[t] = "cache"
    BY <1>6 DEF CacheMiss
  <2>2. call' = [call EXCEPT ![t] = call[t]] /\ c = call[t] /\ pc'[t] = "path"
    BY <1>1, <2>1
  <2>3. ThreadInv(t)'
    BY <1>1, <1>3, <2>1, <2>2
       DEF ThreadInv, TimesInv, ReadInv, YesInv, NoInv, Asking
  <2> QED
    BY <1>1, <1>2, <1>3, <2>1, <2>2, <2>3, OwnStep DEF Labels
<1>7. CASE NoPath(t)
  <2>1. ~game.saving
    BY <1>1, <1>7 DEF NoPath, FilesInv
  <2>2. ~call[t].answer /\ Verdict(t, "path", FALSE)
    BY <1>1, <1>7 DEF NoPath, Verdict, ThreadInv, TimesInv
  <2> QED
    BY <1>5, <2>1, <2>2 DEF SaveSince
<1>8. CASE ReadPath(t)
  <2> DEFINE P == [call[t] EXCEPT !.path = game.path]
  <2>1. /\ call' = [call EXCEPT ![t] = P] /\ game.path \in Saves
        /\ pc' = [pc EXCEPT ![t] = "started"] /\ pc[t] = "path"
    BY <1>1, <1>8 DEF ReadPath, CallType
  <2>2. /\ P \in CallType /\ P.answer = call[t].answer /\ P.now = call[t].now
        /\ P.told = call[t].told /\ P.start = call[t].start /\ P.path = game.path
    BY <1>1 DEF CallType
  <2>3. c = P /\ pc'[t] = "started"
    BY <1>1, <2>1
  <2>4. ThreadInv(t)'
    BY <1>1, <1>3, <2>1, <2>2, <2>3
       DEF ThreadInv, TimesInv, ReadInv, YesInv, NoInv, Asking
  <2> HIDE DEF P, c
  <2> QED
    BY <1>2, <1>3, <2>1, <2>2, <2>4, OwnStep DEF Labels
<1>9. CASE NotSaving(t)
  <2>1. pc[t] = "started" /\ call[t].path \in Saves /\ ~call[t].answer
    BY <1>1, <1>9 DEF NotSaving, ThreadInv, ReadInv, TimesInv
  <2>2. CASE call[t].path # game.path
    BY <1>1, <2>1, <2>2, <1>5, <1>9 DEF ThreadInv, ReadInv, NotSaving
  <2>3. CASE call[t].path = game.path
    <3>1. Begun = 0 \/ Begun < 2 \/ clock - Begun > Stale
      BY <1>9, <2>3 DEF NotSaving, TooOld, Begun
    <3>2. SaveSince(call[t].now)
      BY <1>1, <3>1, SMT DEF SaveSince, FilesInv, Begun
    <3> QED
      BY <1>5, <1>9, <2>1, <3>2 DEF NotSaving
  <2> QED
    BY <2>2, <2>3
<1>10. CASE ReadStarted(t)
  <2> DEFINE s == started[call[t].path]
             P == [call[t] EXCEPT !.start = s]
  <2>1. pc[t] = "started" /\ call[t].path \in Saves /\ s \in Nat /\ s <= clock
    BY <1>1, <1>10 DEF ReadStarted, ThreadInv, ReadInv, FilesInv
  <2>2. s >= Created
    BY <1>10, <2>1, SMT DEF ReadStarted, TooOld
  <2>3. call' = [call EXCEPT ![t] = P] /\ pc' = [pc EXCEPT ![t] = "completed"]
    BY <1>1, <1>10 DEF ReadStarted, CallType
  <2>4. /\ P \in CallType /\ P.answer = call[t].answer /\ P.now = call[t].now
        /\ P.told = call[t].told /\ P.start = s /\ P.path = call[t].path
    BY <1>1, <2>1 DEF CallType
  <2>5. c = P /\ pc'[t] = "completed"
    BY <1>1, <2>3
  <2>6. call[t].path # game.path \/ s # Begun => SaveSince(call[t].now)
    BY <1>1, <2>1 DEF ThreadInv, ReadInv, Begun
  <2>7. Begun' = Begun
    BY <1>2 DEF Begun, world
  <2> HIDE DEF s
  <2>8. TimesInv(t)' /\ YesInv(t)' /\ NoInv(t)'
    BY <1>1, <1>3, <2>1, <2>2, <2>4, <2>5
       DEF ThreadInv, TimesInv, YesInv, NoInv, Asking
  <2>9. ReadInv(t)'
    BY <1>3, <1>4, <2>1, <2>2, <2>4, <2>5, <2>6, <2>7 DEF ReadInv
  <2> HIDE DEF P, c
  <2> QED
    BY <1>2, <1>3, <2>3, <2>4, <2>8, <2>9, OwnStep DEF Labels, ThreadInv
<1>11. CASE ReadCompleted(t)
  <2>1. /\ pc[t] = "completed" /\ call[t].path \in Saves /\ call[t].start \in Nat
        /\ call[t].start >= Created /\ ~call[t].answer
        /\ Verdict(t, "completed", completed[call[t].path] < call[t].start)
    BY <1>1, <1>11 DEF ReadCompleted, ThreadInv, ReadInv, TimesInv, CallType
  <2>2. CASE completed[call[t].path] < call[t].start
    <3>1. call' = [call EXCEPT ![t] = K] /\ pc' = [pc EXCEPT ![t] = "store"]
      BY <1>1, <2>1, <2>2 DEF Verdict, CallType
    <3>2. /\ K \in CallType /\ K.answer /\ K.now = call[t].now
          /\ K.told = call[t].told /\ K.start = call[t].start /\ K.path = call[t].path
      BY <1>1 DEF CallType
    <3>3. c = K /\ pc'[t] = "store"
      BY <1>1, <3>1
    <3>4. ThreadInv(t)'
      BY <1>1, <1>3, <2>1, <2>2, <3>2, <3>3
         DEF ThreadInv, TimesInv, ReadInv, YesInv, NoInv, Asking
    <3> HIDE DEF K, c
    <3> QED
      BY <1>2, <1>3, <3>1, <3>2, <3>4, OwnStep DEF Labels
  <2>3. CASE ~(completed[call[t].path] < call[t].start)
    <3>1. SaveSince(call[t].now)
      BY <1>1, <2>1, <2>3 DEF ThreadInv, ReadInv, SaveSince, FilesInv, Begun
    <3>2. Verdict(t, "completed", FALSE)
      BY <2>1, <2>3 DEF Verdict
    <3> QED
      BY <1>5, <2>1, <3>1, <3>2
  <2> QED
    BY <2>2, <2>3
<1> QED
  BY <1>6, <1>7, <1>8, <1>9, <1>10, <1>11

\* An answer goes to the cache only if it is negative, with the time of its
\* question; every save in progress is younger than that.
LEMMA StoreKeepsGate ==
  ASSUME NEW t \in Threads, GateInv, Store(t)
  PROVE  GateInv'
<1> USE SaveGateAssumption DEF Created, Goto, Store, PutInCache
<1> DEFINE n == call[t].now
<1>1. /\ call[t] \in CallType /\ ThreadInv(t) /\ clock \in Nat /\ FilesInv
      /\ started \in [Saves -> Nat] /\ {CacheFor, PauseFor} \subseteq Nat \ {0}
      /\ n \in Nat /\ call[t].told \in Nat
  BY DEF GateInv, TypeOK, CallType
<1>2. /\ call' = [call EXCEPT ![t] = call[t]] /\ call'[t] = call[t]
      /\ pc' = [pc EXCEPT ![t] = "answer"] /\ pc'[t] = "answer" /\ pc[t] = "store"
      /\ UNCHANGED world
  BY DEF GateInv, TypeOK
<1>3. ~call[t].answer => SaveSince(n)
  BY <1>1, <1>2 DEF ThreadInv, ReadInv
<1>4. CacheInv' /\ cache' \in Nat
  BY <1>1, <1>2, <1>3 DEF CacheInv, SaveSince, Begun, world, ThreadInv, TimesInv
<1>5. NoInv(t)'
  <2>1. call[t].told # 0 => call[t].told + PauseFor <= n
    BY <1>1, <1>2 DEF ThreadInv, TimesInv, Asking
  <2>2. Saving' = Saving /\ Begun' = Begun
    BY <1>2 DEF Saving, Begun, world
  <2>3. Saving /\ ~call[t].answer => Begun \in Nat /\ Begun >= Created /\ Begun >= n
    BY <1>1, <1>3, SMT DEF Saving, SaveSince, FilesInv, Begun
  <2>4. Saving /\ ~call[t].answer => Begun + CacheFor > n /\ call[t].told # Begun
    BY <1>1, <2>1, <2>3, SMT
  <2> QED
    BY <1>2, <2>2, <2>4 DEF NoInv
<1>6. TimesInv(t)' /\ ReadInv(t)' /\ YesInv(t)'
  BY <1>1, <1>2 DEF ThreadInv, TimesInv, ReadInv, YesInv, Asking, world
<1> QED
  BY <1>1, <1>2, <1>4, <1>5, <1>6, OwnStep DEF Labels, ThreadInv

\* A cached answer is younger than CacheFor, and a save in progress younger
\* than it; a pause that ended slept since its save began for longer.
LEMMA HitKeepsGate ==
  ASSUME NEW t \in Threads, GateInv, CacheHit(t)
  PROVE  GateInv'
<1> USE SaveGateAssumption DEF Created, Goto
<1> DEFINE n == call[t].now
<1>1. /\ call[t] \in CallType /\ ThreadInv(t) /\ clock \in Nat /\ FilesInv
      /\ started \in [Saves -> Nat] /\ {CacheFor, PauseFor} \subseteq Nat \ {0}
      /\ n \in Nat /\ call[t].told \in Nat /\ cache \in Nat /\ CacheInv
  BY DEF GateInv, TypeOK, CallType
<1>2. /\ call' = [call EXCEPT ![t] = call[t]] /\ call'[t] = call[t]
      /\ pc' = [pc EXCEPT ![t] = "answer"] /\ pc'[t] = "answer" /\ pc[t] = "cache"
      /\ UNCHANGED <<world, cache>>
  BY DEF GateInv, TypeOK, CacheHit
<1>3. CacheInv' /\ cache' \in Nat
  BY <1>1, <1>2 DEF CacheInv, SaveSince, Begun, world
<1>4. SaveSince(cache) /\ cache <= n /\ n - cache < CacheFor
  BY <1>1 DEF CacheHit, Cached, CacheInv
<1>5. NoInv(t)'
  <2>1. call[t].told # 0 => call[t].told + PauseFor <= n
    BY <1>1, <1>2 DEF ThreadInv, TimesInv, Asking
  <2>2. Saving' = Saving /\ Begun' = Begun
    BY <1>2 DEF Saving, Begun, world
  <2>3. Saving => Begun \in Nat /\ Begun >= Created /\ Begun >= cache
    BY <1>1, <1>4, SMT DEF Saving, SaveSince, FilesInv, Begun
  <2>4. Saving => Begun + CacheFor > n /\ call[t].told # Begun
    BY <1>1, <1>4, <2>1, <2>3, SMT
  <2> QED
    BY <1>2, <2>2, <2>4 DEF NoInv
<1>6. TimesInv(t)' /\ ReadInv(t)' /\ YesInv(t)'
  BY <1>1, <1>2 DEF ThreadInv, TimesInv, ReadInv, YesInv, Asking, world
<1> QED
  BY <1>1, <1>2, <1>3, <1>5, <1>6, OwnStep DEF Labels, ThreadInv

\* A call returns, or sleeps and remembers for which save, if it is for one.
LEMMA ReturnKeepsGate ==
  ASSUME NEW t \in Threads, GateInv,
         Return(t) \/ Sleep(t) \/ WakeToStop(t) \/ StartNap(t) \/ NapCutShort(t)
  PROVE  GateInv'
<1> USE SaveGateAssumption DEF Created, Goto
<1>1. /\ call[t] \in CallType /\ ThreadInv(t) /\ clock \in Nat /\ PauseFor \in Nat
      /\ pc \in [Threads -> Labels] /\ call \in [Threads -> CallType]
  BY DEF GateInv, TypeOK
<1>2. UNCHANGED <<world, cache>>
  BY DEF Return, Sleep, WakeToStop, StartNap, NapCutShort
<1>3. CacheInv' /\ cache' \in Nat
  BY <1>2 DEF GateInv, TypeOK, CacheInv, SaveSince, Begun, world
<1>4. CASE Return(t) \/ WakeToStop(t) \/ NapCutShort(t)
  <2> DEFINE c == NewCall(FALSE)
  <2>1. /\ call' = [call EXCEPT ![t] = c] /\ call'[t] = c
        /\ pc' = [pc EXCEPT ![t] = "idle"] /\ pc'[t] = "idle"
    BY <1>1, <1>4 DEF Return, WakeToStop, NapCutShort
  <2>2. c \in CallType /\ c.now = 0 /\ c.start = 0 /\ c.told = 0
    BY DEF CallType, NewCall
  <2> HIDE DEF c
  <2>3. clock' = clock /\ 0 <= clock
    BY <1>1, <1>2, SMT DEF world
  <2>4. ThreadInv(t)'
    BY <2>1, <2>2, <2>3 DEF ThreadInv, TimesInv, ReadInv, YesInv, NoInv, Asking
  <2> QED
    BY <1>2, <1>3, <2>1, <2>2, <2>4, OwnStep DEF Labels
<1>5. CASE Sleep(t)
  <2> DEFINE c == [call[t] EXCEPT !.told = call[t].start, !.until = clock + PauseFor]
  <2>1. /\ call' = [call EXCEPT ![t] = c] /\ call'[t] = c
        /\ pc' = [pc EXCEPT ![t] = "sleep"] /\ pc'[t] = "sleep"
    BY <1>1, <1>5 DEF Sleep, CallType
  <2>2. /\ c \in CallType /\ c.now = call[t].now /\ c.start = call[t].start
        /\ c.told = call[t].start /\ c.until = clock + PauseFor
        /\ call[t].now <= clock /\ call[t].start <= clock /\ call[t].start \in Nat
    <3>1. clock + PauseFor \in Nat /\ call[t].start \in Nat
      BY <1>1 DEF CallType
    <3>2. call[t].now <= clock /\ call[t].start <= clock
      BY <1>1 DEF ThreadInv, TimesInv
    <3> QED
      BY <1>1, <3>1, <3>2 DEF CallType
  <2> HIDE DEF c
  <2>3. clock' = clock
    BY <1>2 DEF world
  <2>4. ThreadInv(t)'
    BY <1>1, <2>1, <2>2, <2>3, SMT DEF ThreadInv, TimesInv, ReadInv, YesInv, NoInv, Asking
  <2> QED
    BY <1>2, <1>3, <2>1, <2>2, <2>4, OwnStep DEF Labels
<1>6. CASE StartNap(t)
  <2> DEFINE c == call'[t]
  <2>1. c = [NewCall(TRUE) EXCEPT !.until = clock + SleepFor]
    BY <1>1, <1>6 DEF StartNap
  <2>2. /\ call' = [call EXCEPT ![t] = c] /\ call'[t] = c
        /\ pc' = [pc EXCEPT ![t] = "nap"] /\ pc'[t] = "nap"
    BY <1>1, <1>6, <2>1 DEF StartNap
  <2>3. c = [pausing |-> TRUE, now |-> 0, path |-> NoSave, start |-> 0,
             answer |-> FALSE, told |-> 0, until |-> clock + SleepFor]
    BY <2>1 DEF NewCall
  <2>4. c \in CallType /\ c.now = 0 /\ c.start = 0 /\ c.told = 0
    BY <1>1, <2>3 DEF CallType
  <2> HIDE DEF c
  <2>5. clock' = clock /\ 0 <= clock
    BY <1>1, <1>2, SMT DEF world
  <2>6. ThreadInv(t)'
    BY <2>2, <2>4, <2>5 DEF ThreadInv, TimesInv, ReadInv, YesInv, NoInv, Asking
  <2> QED
    BY <1>2, <1>3, <2>2, <2>4, <2>6, OwnStep DEF Labels
<1> QED
  BY <1>4, <1>5, <1>6

\* The invariant is inductive.
LEMMA GateInductive == Spec => []GateInv
<1>1. GateInv /\ [Next]_vars => GateInv'
  <2> SUFFICES ASSUME GateInv, [Next]_vars PROVE GateInv'
    OBVIOUS
  <2>1. CASE World
    BY <2>1, TickKeepsGate, BeginKeepsGate, EndKeepsGate DEF World
  <2>2. ASSUME NEW t \in Threads, Ask(t) \/ StartNap(t) \/ Step(t) PROVE GateInv'
    BY <2>2, AskKeepsGate, HitKeepsGate, ReadKeepsGate, StoreKeepsGate, ReturnKeepsGate
       DEF Step
  <2>3. CASE UNCHANGED vars
    BY <2>3 DEF vars, GateInv, TypeOK, FilesInv, CacheInv, ThreadInv, TimesInv,
                ReadInv, YesInv, NoInv, SaveSince, Saving, Begun
  <2> QED
    BY <2>1, <2>2, <2>3 DEF Next
<1> QED
  BY InitGate, <1>1, PTL DEF Spec

\* Every variable has its type; in particular the cached tick is never negative
\* and the calls' times never lie before the epoch.
THEOREM GateTypeCorrect == Spec => []TypeOK
<1>1. GateInv => TypeOK
  BY DEF GateInv
<1> QED
  BY <1>1, GateInductive, PTL

\* kbo_runtime_save_in_progress overlooks no save older than CacheFor, for any
\* number of threads that race for the cached negative tick.
THEOREM NoneOverlooked == Spec => []NoSaveOverlooked
  BY GateInvImplies, GateInductive, PTL

\* What kbo_runtime_save_in_progress calls a save is one of this session which
\* was not complete when the question was asked.
THEOREM YesIsRight == Spec => []YesMeansSaving
  BY GateInvImplies, GateInductive, PTL

\* kbo_runtime_pause_for_save_if_needed, once it has slept for a save, does not
\* return while that save goes on, provided CacheFor <= PauseFor.
THEOREM PauseHolds == Spec => []PauseCoversSave
  BY GateInvImplies, GateInductive, PTL
=============================================================================
