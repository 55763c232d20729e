--------------------------- MODULE FACompensation ---------------------------
(***************************************************************************)
(* Compensation for a signed free agent (src/native/src/fa_compensation).  *)
(*                                                                         *)
(* The game thread records an obligation when the player signs.  Once a    *)
(* day one thread runs the due pass: it copies the actionable records      *)
(* under the ledger lock and works on the copies without it, taking the    *)
(* lock again to store each new status.  The user's window changes the     *)
(* same records under the lock, whole handler by whole handler, so those   *)
(* handlers are one step each.                                             *)
(*                                                                         *)
(* Records, decisions and the ledger of cash transfers are in SQLite and   *)
(* survive a restart; the players' teams and the clubs' cash are the       *)
(* game's memory, and come back as they were last saved.  One club signs   *)
(* all the free agents here, so that they compete for its players.         *)
(***************************************************************************)
EXTENDS Integers, Sequences, FiniteSets, SequencesExt

CONSTANTS
    Obligations, \* keys of records: a free agent, a season and two clubs
    Place,       \* the place of an obligation among the stored records
    FreeAgents,  \* players who signed as free agents
    Fa,          \* the free agent of an obligation
    Players,     \* players of the signing club who may be given up
    Signer,      \* the signing club; the original club is named by its obligation
    Nobody,      \* no player
    Protect,     \* protect_count
    DueDays,     \* protected_list_due_days
    RowCap,      \* rows of the protection file that are read (128)
    MaxDay,      \* bound: the last day stands for all later ones
    MaxActs,     \* bound: choices made in the window
    MaxTroubles  \* bound: operations that fail and restarts of the game

ASSUME FACompensationAssumption ==
    /\ IsFiniteSet(Players) /\ Obligations # {}
    /\ Place \in [Obligations -> Nat]
    /\ Fa \in [Obligations -> FreeAgents]
    /\ Signer \notin Obligations /\ Nobody \notin Players
    /\ {Protect, DueDays, RowCap, MaxDay, MaxActs, MaxTroubles} \subseteq Nat
    /\ Protect > 0 /\ MaxDay > 0

VARIABLES
    day,      \* the date of the game
    ran,      \* g_kbo_custom_event_global_fa_comp_yyyymmdd is that date
    status,   \* the stored records: their status ("None": no record)
    needs,    \* their requires_player_compensation
    signedOn, \* and their signed_on_yyyymmdd
    latest,   \* of each free agent: the row load_latest finds
    rows,     \* the first RowCap rows of the protection file
    ledger,   \* the stored cash transfers
    at,       \* the club of each player
    paid,     \* how often each kind of cash moved for each obligation (2: or more)
    cache,    \* the cached candidates of the signing club
    due,      \* the due pass
    pay,      \* the cash transfers the due pass and the game thread are in
    saved,    \* what the game last saved
    failures, \* how many operations have failed
    past      \* history: choices, restarts and what they crossed

sql == <<status, needs, signedOn, latest, rows, ledger>>
memory == <<at, paid>>
vars == <<day, ran, sql, memory, cache, due, pay, saved, failures, past>>

Kinds == {"CashOnly", "PlayerPlusCash"}
Statuses == {"None", "Pending", "Recorded", "PlayerSelected", "Transferred",
             "CashSelected", "CashRecorded"}
Threads == {"due", "sign"}
NoDecision == [action |-> "None", pick |-> Nobody, on |-> 0]
AnyOne == CHOOSE o \in Obligations : TRUE
NoTasks == [o \in Obligations |-> "none"]
IdlePass == [pc |-> "idle", today |-> 0, todo |-> NoTasks, o |-> AnyOne, pick |-> Nobody,
             status |-> "None"]
NoTransfer == [pc |-> "idle", o |-> AnyOne, kind |-> "CashOnly"]
Bounded(n, limit) == IF n > limit THEN limit ELSE n

Init ==
    /\ day = 1 /\ ran = FALSE
    /\ status = [o \in Obligations |-> "None"]
    /\ needs \in [Obligations -> BOOLEAN]
    /\ signedOn = [o \in Obligations |-> 0]
    /\ latest = [f \in FreeAgents |-> NoDecision]
    /\ rows = <<>> /\ ledger = {}
    /\ at = [p \in Players |-> Signer]
    /\ paid = [o \in Obligations |-> [k \in Kinds |-> 0]]
    /\ cache = {}
    /\ due = IdlePass
    /\ pay = [t \in Threads |-> NoTransfer]
    /\ saved = [day |-> 1, at |-> at, paid |-> paid]
    /\ failures = 0
    /\ past = [acts |-> 0, restarts |-> 0, raced |-> FALSE, torn |-> FALSE,
               crossed |-> {}, reopened |-> {}]

\* So many operations fail.
Failing(n) ==
    /\ failures + n + past.restarts <= MaxTroubles
    /\ failures' = failures + n

Fail == Failing(1)

----------------------------------------------------------------------------
(* Stored decisions and protected lists.                                   *)

\* Mutant: of two decisions of one day the first is found.
DecidedFirst(o, action, pick, on) ==
    IF on > latest[Fa[o]].on
    THEN [latest EXCEPT ![Fa[o]] = [action |-> action, pick |-> pick, on |-> on]]
    ELSE latest

\* The row with the latest date, and of those the last: a row dated before
\* the one in force is stored and never found.
Decided(o, action, pick, on) ==
    IF on >= latest[Fa[o]].on
    THEN [latest EXCEPT ![Fa[o]] = [action |-> action, pick |-> pick, on |-> on]]
    ELSE latest

\* The latest decision about the free agent of an obligation is of this kind.
Says(o, action) == latest[Fa[o]].action = action

\* The players a list is made from: a scan of the roster, or what an earlier
\* scan has left in the cache, which is keyed by the address and the length of
\* the player vector and so outlives a transfer.
Candidates ==
    {{p \in Players : at[p] = Signer}} \cup (IF cache = {} THEN {} ELSE {cache})

\* The rows of a list in the order of the optimizer, the protected ones first.
ListRows(o, list) ==
    [i \in 1 .. Len(list) |-> [fa |-> Fa[o], player |-> list[i], free |-> i > Protect]]

\* Mutant: the protection file is read to its end, whatever the buffer holds.
PutListUncapped(o, list) ==
    list # <<>> /\ cache' = ToSet(list) /\ rows' = rows \o ListRows(o, list)

\* kbo_submit_fa_compensation_protected_list_record up to its decision.
PutList(o, list) ==
    /\ list # <<>>
    /\ cache' = ToSet(list)
    /\ rows' = SubSeq(rows \o ListRows(o, list), 1,
                      Bounded(Len(rows) + Len(list), RowCap))

\* The player the list leaves for the original club.
Offered(list) == IF Len(list) > Protect THEN list[Protect + 1] ELSE Nobody

\* The decision the original club's AI takes and the status that follows.  A
\* write that fails (n) leaves it with the other kind or with no decision.
Choose(o, pick, on, s, n) ==
    \/ s = "CashSelected" /\ n = 0 /\ latest' = Decided(o, "CashOnly", Nobody, on)
    \/ s = "PlayerSelected" /\ pick # Nobody /\ latest' = Decided(o, "Player", pick, on)
    \/ s = "Recorded" /\ n = 1 /\ UNCHANGED latest

\* The status is stored after the decision, unless that write fails (n).
PutStatus(o, s, n) ==
    IF n = 0 THEN status' = [status EXCEPT ![o] = s] ELSE UNCHANGED status

----------------------------------------------------------------------------
(* The cash transfer (kbo_apply_fa_compensation_cash_transfer): a look at  *)
(* the ledger, the cash of both clubs, the row of the ledger.              *)

Enter(t, o, kind) == pay' = [pay EXCEPT ![t] = [pc |-> "check", o |-> o, kind |-> kind]]
Leave(t) == pay' = [pay EXCEPT ![t].pc = "idle"]

\* The other thread has looked at the ledger for the same transfer already.
Racing(t) ==
    \E u \in Threads \ {t} : pay[u] = [pay[t] EXCEPT !.pc = "move"]
                             \/ pay[u] = [pay[t] EXCEPT !.pc = "ledger"]

\* Mutant: the ledger is not looked at.
CheckLedgerNever(t) ==
    /\ pay[t].pc = "check"
    /\ pay' = [pay EXCEPT ![t].pc = "move"]
    /\ UNCHANGED <<day, ran, sql, memory, cache, due, saved, failures, past>>

\* A query that fails answers that the transfer was not applied.
CheckLedger(t) ==
    /\ pay[t].pc = "check"
    /\ \/ /\ <<pay[t].o, pay[t].kind>> \in ledger
          /\ Leave(t)
          /\ UNCHANGED <<failures, past>>
       \/ /\ \/ <<pay[t].o, pay[t].kind>> \notin ledger /\ UNCHANGED failures
             \/ <<pay[t].o, pay[t].kind>> \in ledger /\ Fail
          /\ pay' = [pay EXCEPT ![t].pc = "move"]
          /\ past' = [past EXCEPT !.raced = @ \/ Racing(t)]
    /\ UNCHANGED <<day, ran, sql, memory, cache, due, saved>>

\* The clubs may not be found in memory: then nothing moves.
MoveCash(t) ==
    /\ pay[t].pc = "move"
    /\ \/ /\ paid' = [paid EXCEPT ![pay[t].o][pay[t].kind] = Bounded(@ + 1, 2)]
          /\ pay' = [pay EXCEPT ![t].pc = "ledger"]
          /\ UNCHANGED failures
       \/ /\ Leave(t) /\ Fail
          /\ UNCHANGED paid
    /\ UNCHANGED <<day, ran, sql, at, cache, due, saved, past>>

NoteTransfer(t) ==
    /\ pay[t].pc = "ledger"
    /\ \/ ledger' = ledger \cup {<<pay[t].o, pay[t].kind>>} /\ UNCHANGED failures
       \/ UNCHANGED ledger /\ Fail
    /\ Leave(t)
    /\ UNCHANGED <<day, ran, needs, status, signedOn, latest, rows, memory, cache, due, saved, past>>

\* kbo_record_fa_compensation_signing on the game thread.  Two hooks report
\* each signing; the second finds the record, unless it cannot load the table.
\* (No signing so late that its list is due after the last day.)
RecordSigning(o) ==
    /\ day + DueDays <= MaxDay
    /\ pay["sign"].pc = "idle"
    /\ \/ status[o] = "None" /\ UNCHANGED failures
       \/ status[o] # "None" /\ Fail
    /\ status' = [status EXCEPT ![o] = "Pending"]
    /\ signedOn' = [signedOn EXCEPT ![o] = day]
    /\ IF needs[o] THEN UNCHANGED pay ELSE Enter("sign", o, "CashOnly")
    /\ UNCHANGED <<day, ran, needs, latest, rows, ledger, memory, cache, due, saved, past>>

----------------------------------------------------------------------------
(* The due pass (kbo_process_due_fa_compensation_protected_lists_for_date). *)

IsDue(o, today) == today >= signedOn[o] + DueDays

\* Mutant: a player that is selected is left to the window.
TaskOfNoPlayer(o, today) ==
    CASE status[o] = "CashSelected" \/ (status[o] = "Pending" /\ ~needs[o]) -> "cash"
      [] status[o] = "Pending" /\ needs[o] /\ IsDue(o, today) -> "list"
      [] OTHER -> "none"

\* What the pass of a day does for a record.
TaskOf(o, today) ==
    CASE status[o] = "CashSelected" -> "cash"
      [] status[o] = "PlayerSelected" -> "player"
      [] status[o] = "Pending" /\ ~needs[o] -> "cash"
      [] status[o] = "Pending" /\ needs[o] /\ IsDue(o, today) -> "list"
      [] OTHER -> "none"

Tasks(today) == [o \in Obligations |-> TaskOf(o, today)]

\* Of a set of records the one that is met first.
Earliest(S) == {o \in S : \A x \in S : Place[o] <= Place[x]}

\* The pass is at this record, and it is to do this.
IsAt(o, do) ==
    /\ due.pc = "task" /\ due.todo[o] = do
    /\ o \in Earliest({x \in Obligations : due.todo[x] # "none"})

Begin(o, pc, s) == due' = [due EXCEPT !.pc = pc, !.o = o, !.status = s]
Go(pc, s) == due' = [due EXCEPT !.pc = pc, !.status = s]
Drop(o) ==
    due' = [due EXCEPT !.pc = "task", !.todo[o] = "none", !.o = AnyOne, !.pick = Nobody,
                       !.status = "None"]

\* The summary finds nothing to do.
SkipDay ==
    /\ due.pc = "idle" /\ ~ran
    /\ Tasks(day) = NoTasks
    /\ ran' = TRUE
    /\ UNCHANGED <<day, sql, memory, cache, due, pay, saved, failures, past>>

\* It finds something, or it fails.
OpenPass ==
    /\ due.pc = "idle" /\ ~ran
    /\ \/ Tasks(day) # NoTasks /\ UNCHANGED failures
       \/ Fail
    /\ due' = [IdlePass EXCEPT !.pc = "load", !.today = day]
    /\ UNCHANGED <<day, ran, sql, memory, cache, pay, saved, past>>

\* The records are copied under the lock; a load that fails has none.
LoadTasks ==
    /\ due.pc = "load"
    /\ \/ /\ due' = [due EXCEPT !.pc = "task", !.todo = Tasks(due.today)]
          /\ UNCHANGED failures
       \/ /\ due' = [due EXCEPT !.pc = "task"]
          /\ Fail
    /\ UNCHANGED <<day, ran, sql, memory, cache, pay, saved, past>>

EndPass ==
    /\ due.pc = "task" /\ due.todo = NoTasks
    /\ due' = IdlePass
    /\ ran' = (due.today = day)
    /\ UNCHANGED <<day, sql, memory, cache, pay, saved, failures, past>>

\* A task whose decision is not found, or is of the other kind, is left for
\* another day.
SkipTask(o) ==
    /\ \E n \in 0 .. 1 :
          /\ Failing(n)
          /\ \/ IsAt(o, "cash") /\ needs[o] /\ (Says(o, "CashOnly") => n = 1)
             \/ IsAt(o, "player") /\ (Says(o, "Player") => n = 1)
    /\ Drop(o)
    /\ UNCHANGED <<day, ran, sql, memory, cache, pay, saved, past>>

DecideCash(o) ==
    /\ IsAt(o, "cash")
    /\ needs[o] => Says(o, "CashOnly")
    /\ Begin(o, "pay", "CashRecorded")
    /\ Enter("due", o, "CashOnly")
    /\ UNCHANGED <<day, ran, sql, memory, cache, saved, failures, past>>

DecidePlayer(o) ==
    /\ IsAt(o, "player")
    /\ Says(o, "Player")
    /\ due' = [due EXCEPT !.pc = "transfer", !.o = o, !.pick = latest[Fa[o]].pick]
    /\ UNCHANGED <<day, ran, sql, memory, cache, pay, saved, failures, past>>

\* kbo_transfer_fa_compensation_player_to_original_team.
TransferPlayer ==
    /\ due.pc = "transfer"
    /\ at[due.pick] = Signer
    /\ at' = [at EXCEPT ![due.pick] = due.o]
    /\ Go("pay", "Transferred")
    /\ Enter("due", due.o, "PlayerPlusCash")
    /\ UNCHANGED <<day, ran, sql, paid, cache, saved, failures, past>>

\* Mutant: the result of the player's transfer is ignored.
MissPlayerIgnored ==
    /\ due.pc = "transfer"
    /\ at[due.pick] # Signer
    /\ Go("store", "Transferred")
    /\ UNCHANGED <<day, ran, sql, memory, cache, pay, saved, failures, past>>

MissPlayer ==
    /\ due.pc = "transfer"
    /\ \/ at[due.pick] # Signer /\ UNCHANGED failures
       \/ Fail
    /\ Drop(due.o)
    /\ UNCHANGED <<day, ran, sql, memory, cache, pay, saved, past>>

DoneWithCash ==
    /\ due.pc = "pay" /\ pay["due"].pc = "idle"
    /\ Go("store", due.status)
    /\ UNCHANGED <<day, ran, sql, memory, cache, pay, saved, failures, past>>

SubmitList(o) ==
    /\ IsAt(o, "list")
    /\ \E S \in Candidates : \E list \in SetToSeqs(S) :
          /\ PutList(o, list)
          /\ due' = [due EXCEPT !.pc = "choose", !.o = o, !.pick = Offered(list)]
    /\ UNCHANGED <<day, ran, needs, status, signedOn, latest, ledger, memory, pay, saved, failures, past>>

\* There are no candidates, the optimizer fails, or the list is not stored.
DeferList(o) ==
    /\ IsAt(o, "list")
    /\ \E S \in Candidates :
          \/ S = {} /\ UNCHANGED <<rows, cache, failures>>
          \/ cache' = S /\ UNCHANGED rows /\ Fail
          \/ \E list \in SetToSeqs(S) : PutList(o, list) /\ Fail
    /\ Drop(o)
    /\ UNCHANGED <<day, ran, needs, status, signedOn, latest, ledger, memory, pay, saved, past>>

ChooseForAI ==
    /\ due.pc = "choose"
    /\ \E s \in {"CashSelected", "PlayerSelected", "Recorded"}, n \in 0 .. 1 :
          Choose(due.o, due.pick, due.today, s, n) /\ Failing(n) /\ Go("store", s)
    /\ UNCHANGED <<day, ran, needs, status, signedOn, rows, ledger, memory, cache, pay, saved, past>>

\* Mutant: the pass stores its status only if the record is still as it was copied.
StoreStatusIfSame ==
    /\ due.pc = "store"
    /\ IF TaskOf(due.o, due.today) = due.todo[due.o]
       THEN status' = [status EXCEPT ![due.o] = due.status]
       ELSE UNCHANGED status
    /\ Drop(due.o)
    /\ UNCHANGED <<day, ran, needs, signedOn, latest, rows, ledger, memory, cache, pay,
                   saved, failures, past>>

\* The lock, the records as they are now, the new status whatever the old one
\* has become, the unlock; a load or a write that fails changes nothing.
StoreStatus ==
    /\ due.pc = "store"
    /\ \E n \in 0 .. 1 : PutStatus(due.o, due.status, n) /\ Failing(n)
    /\ Drop(due.o)
    /\ UNCHANGED <<day, ran, needs, signedOn, latest, rows, ledger, memory, cache, pay, saved, past>>

----------------------------------------------------------------------------
(* The user's window: each handler runs under the ledger lock.             *)

\* The handlers look a record up by the free agent alone: the first one.
First(f) ==
    Earliest({o \in Obligations : Fa[o] = f /\ status[o] # "None"})

\* The due pass works on a copy of this record.
InPass(o) == due.todo[o] # "none"

Act(o) ==
    /\ past.acts < MaxActs
    /\ past' = [past EXCEPT !.acts = @ + 1,
                            !.crossed = IF InPass(o) THEN @ \cup {o} ELSE @,
                            !.reopened = IF status[o] = "CashRecorded" THEN @ \cup {o} ELSE @]

\* kbo_manual_submit_fa_compensation_protected_list.
SubmitByHand(f) ==
    /\ \E o \in First(f) :
          /\ needs[o] /\ status[o] \in {"Pending", "Recorded"}
          /\ Act(o)
          /\ \E S \in Candidates : \E list \in SetToSeqs(S) :
                /\ PutList(o, list)
                /\ \/ UNCHANGED <<latest, status>> /\ Fail
                   \/ \E s \in {"CashSelected", "PlayerSelected", "Recorded"}, n, m \in 0 .. 1 :
                         Choose(o, Offered(list), day, s, n) /\ PutStatus(o, s, m) /\ Failing(n + m)
    /\ UNCHANGED <<day, ran, needs, signedOn, ledger, memory, due, pay, saved>>

\* kbo_manual_select_fa_compensation_player.
SelectPlayer(f, p) ==
    /\ \E o \in First(f) :
          /\ needs[o] /\ status[o] # "Transferred"
          /\ [fa |-> f, player |-> p, free |-> TRUE] \in ToSet(rows)
          /\ Act(o)
          /\ latest' = Decided(o, "Player", p, day)
          /\ \E n \in 0 .. 1 : PutStatus(o, "PlayerSelected", n) /\ Failing(n)
    /\ UNCHANGED <<day, ran, needs, signedOn, rows, ledger, memory, cache, due, pay, saved>>

\* kbo_manual_select_fa_compensation_cash_only.
SelectCash(f) ==
    /\ \E o \in First(f) :
          /\ needs[o] /\ status[o] \notin {"Transferred", "CashRecorded"}
          /\ Act(o)
          /\ latest' = Decided(o, "CashOnly", Nobody, day)
          /\ \E n \in 0 .. 1 : PutStatus(o, "CashSelected", n) /\ Failing(n)
    /\ UNCHANGED <<day, ran, needs, signedOn, rows, ledger, memory, cache, due, pay, saved>>

----------------------------------------------------------------------------
(* The game.                                                               *)

NewDay ==
    /\ day' = Bounded(day + 1, MaxDay)
    /\ ran' = FALSE
    /\ UNCHANGED <<sql, memory, cache, due, pay, saved, failures, past>>

\* A save matters if a restart can follow.
SaveGame ==
    /\ failures + past.restarts < MaxTroubles
    /\ saved' = [day |-> day, at |-> at, paid |-> paid]
    /\ UNCHANGED <<day, ran, sql, memory, cache, due, pay, failures, past>>

\* The game ends and is started on what it last saved.
Restart ==
    /\ failures + past.restarts < MaxTroubles
    /\ past' = [past EXCEPT !.restarts = @ + 1,
                            !.torn = @ \/ due # IdlePass \/ \E t \in Threads : pay[t].pc # "idle"]
    /\ day' = saved.day /\ at' = saved.at /\ paid' = saved.paid
    /\ ran' = FALSE /\ cache' = {} /\ due' = IdlePass
    /\ pay' = [t \in Threads |-> NoTransfer]
    /\ UNCHANGED <<sql, saved, failures>>

Pass ==
    \/ SkipDay \/ OpenPass \/ LoadTasks \/ EndPass
    \/ \E o \in Obligations : \/ SkipTask(o) \/ DecideCash(o) \/ DecidePlayer(o)
                              \/ SubmitList(o) \/ DeferList(o)
    \/ TransferPlayer \/ MissPlayer \/ DoneWithCash \/ ChooseForAI \/ StoreStatus

Transfer(t) == CheckLedger(t) \/ MoveCash(t) \/ NoteTransfer(t)

Window ==
    \E f \in FreeAgents :
        SubmitByHand(f) \/ SelectCash(f) \/ \E p \in Players : SelectPlayer(f, p)

Next ==
    \/ Pass
    \/ \E t \in Threads : Transfer(t)
    \/ \E o \in Obligations : RecordSigning(o)
    \/ Window
    \/ NewDay \/ SaveGame \/ Restart

Spec == Init /\ [][Next]_vars

\* A thread that works goes on, and the user plays on.
FairSpec ==
    /\ Spec
    /\ WF_vars(Pass) /\ WF_vars(NewDay)
    /\ \A t \in Threads : WF_vars(Transfer(t))

----------------------------------------------------------------------------
(* Properties.                                                             *)

Row == [fa : FreeAgents, player : Players, free : BOOLEAN]
Decision == [action : {"None", "Player", "CashOnly"}, pick : Players \cup {Nobody},
             on : 0 .. MaxDay]
Clubs == [Players -> Obligations \cup {Signer}]
Payments == [Obligations -> [Kinds -> 0 .. 2]]
PassState ==
    [pc : {"idle", "load", "task", "transfer", "pay", "choose", "store"}, today : 0 .. MaxDay,
     todo : [Obligations -> {"none", "cash", "player", "list"}], o : Obligations,
     pick : Players \cup {Nobody}, status : Statuses]
TransferState == [pc : {"idle", "check", "move", "ledger"}, o : Obligations, kind : Kinds]
Past ==
    [acts : 0 .. MaxActs, restarts : 0 .. MaxTroubles, raced : BOOLEAN, torn : BOOLEAN,
     crossed : SUBSET Obligations, reopened : SUBSET Obligations]

\* The values of the tables, of the memory, and of the pass and the transfers;
\* no more rows of the protection file than the buffer holds.
TypeOK ==
    /\ day \in 1 .. MaxDay /\ ran \in BOOLEAN
    /\ status \in [Obligations -> Statuses]
    /\ needs \in [Obligations -> BOOLEAN]
    /\ signedOn \in [Obligations -> 0 .. MaxDay]
    /\ latest \in [FreeAgents -> Decision]
    /\ rows \in Seq(Row) /\ Len(rows) <= RowCap
    /\ ledger \subseteq Obligations \X Kinds
    /\ at \in Clubs /\ paid \in Payments
    /\ cache \subseteq Players
    /\ due \in PassState
    /\ pay \in [Threads -> TransferState]
    /\ saved \in [day : 1 .. MaxDay, at : Clubs, paid : Payments]
    /\ failures \in 0 .. MaxTroubles
    /\ past \in Past

\* Each kind of cash moves at most once for an obligation, although the status
\* and the ledger are two tables, the game thread and the due pass both pay a
\* compensation without a player, and the cash is the game's.  What can break
\* it: two operations that fail (one, where both pay: a ledger that cannot be
\* read has no transfer), both threads at the ledger at once, the end of the
\* game in the middle of a pass, a case opened again by hand.
PaidOnce ==
    (~past.raced /\ ~past.torn) =>
        \A o \in Obligations \ past.reopened, k \in Kinds :
            failures < (IF needs[o] THEN 2 ELSE 1) => paid[o][k] <= 1

Delivered(o) == \E p \in Players : at[p] = o

\* The decision closes the case through either a player or cash: no obligation
\* is settled both ways, whatever the user changes while a pass is under way,
\* unless a case settled in cash is opened again.
OneWay(o) ==
    ~(paid[o]["CashOnly"] > 0 /\ (Delivered(o) \/ paid[o]["PlayerPlusCash"] > 0))

ClosedOneWay ==
    (failures = 0 /\ ~past.torn) => \A o \in Obligations \ past.reopened : OneWay(o)

\* The news promises it without that exception.
EitherPlayerOrCash == \A o \in Obligations : OneWay(o)

Alone(o) == \A x \in Obligations \ {o} : Fa[x] # Fa[o]

\* An obligation that waits for the next pass has the decision it waits for.
\* The pass skips it otherwise, each day again.
WaitsForItsDecision ==
    (failures = 0 /\ past.restarts = 0) =>
        \A o \in Obligations \ past.crossed :
            Alone(o) =>
                /\ status[o] = "PlayerSelected" => Says(o, "Player")
                /\ status[o] = "CashSelected" => Says(o, "CashOnly")

\* A record that says it is settled was: the status is stored last, and the
\* result of the transfer it stands for is not looked at.
SettledMeansPaid ==
    (failures = 0 /\ past.restarts = 0) =>
        \A o \in Obligations :
            /\ status[o] = "CashRecorded" => paid[o]["CashOnly"] > 0
            /\ status[o] = "Transferred" => Delivered(o) /\ paid[o]["PlayerPlusCash"] > 0

Settled(o) == status[o] \in {"Transferred", "CashRecorded"}

\* The player chosen for this obligation went to another club first.
Outbid(o) ==
    status[o] = "PlayerSelected" /\ Says(o, "Player") /\ at[latest[Fa[o]].pick] \notin {Signer, o}

\* Every recorded obligation is settled in the end, unless the club that
\* shares its player was faster; a choice of the user delays it and does not
\* lose it, as long as it does not cross the pass that is at work on it.
EventuallySettled ==
    \A o \in Obligations :
        status[o] # "None" ~>
            Settled(o) \/ Outbid(o) \/ failures > 0 \/ past.restarts > 0 \/ o \in past.crossed
=============================================================================
