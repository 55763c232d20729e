----------------------- MODULE IndependentAcquisition -----------------------
(***************************************************************************)
(* The daily maintenance of rosters and the acquisitions from independent  *)
(* teams in it (src/native/src/foreign/daily_maintenance and               *)
(* src/native/src/team/independent_acquisition).                           *)
(*                                                                         *)
(* A background thread works on the latest date: it lets the clubs offer   *)
(* for players of the independent teams, lets those teams sell, and then   *)
(* audits the rosters, after which the date is done.  It asks for a save   *)
(* in progress between its steps and gives up when there is one; whether   *)
(* the feature is on and the program goes on it asks only as it begins.    *)
(* The user offers and withdraws in a window of the interface's thread.    *)
(*                                                                         *)
(* Offers, decisions and the two dates are in SQLite and survive a         *)
(* restart; who holds a player is the game's memory and comes back as it   *)
(* was last saved.  One season of one saved game is modelled, in which the *)
(* date claimed by a run (last_run_date) says nothing that the cursor does *)
(* not, and is left out.                                                   *)
(***************************************************************************)
EXTENDS Integers, FiniteSets

CONSTANTS
    Players,      \* players of the independent teams
    Sellers,      \* the independent teams
    SellerOf,     \* the independent team of a player
    Clubs,        \* clubs the program acts for
    UserClubs,    \* clubs a human controls
    SeasonLimit,  \* independent_acquisition_seller_transfer_limit
    CooldownDays, \* KBO_INDEPENDENT_ACQUISITION_SELLER_TRANSFER_COOLDOWN_DAYS
    PendingLimit, \* KBO_INDEPENDENT_ACQUISITION_BUYER_PENDING_LIMIT
    OpenDays,     \* the days the window is open
    LastDay,      \* bound: days of the game
    MaxActs       \* bound: choices of the user, switches, saves and restarts

Buyers == Clubs \cup UserClubs

ASSUME AcquisitionAssumption ==
    /\ IsFiniteSet(Players)
    /\ SellerOf \in [Players -> Sellers]
    /\ Sellers \cap Buyers = {} /\ Clubs \cap UserClubs = {}
    /\ {SeasonLimit, CooldownDays, PendingLimit, LastDay, MaxActs} \subseteq Nat
    /\ LastDay > 0 /\ OpenDays \subseteq 1..LastDay

VARIABLES
    day,      \* the latest published date
    saving,   \* how far a save of the game is: "no", "begun", "written"
    holder,   \* the team of each player
    soldOn,   \* the day a player was sold (0: he was not)
    offers,   \* stored requests: <<buyer, player>>
    decided,  \* stored decisions: their day (0: none), and transferred
    cursor,   \* the stored date of the last acquisition
    mark,     \* g_kbo_independent_acquisition_ai_last_processed_date
    audit,    \* the stored date of the last audit
    audited,  \* last_audit_date
    pass,     \* the background thread
    disk,     \* what the game last saved
    acts,     \* choices of the user, switches, saves and restarts so far
    off,      \* what stands against an acquisition: "feature", "fix", "stop",
              \* or "unstable", the date of a process that has just started
    hindered  \* history: something kept this pass from its acquisition

sql == <<offers, decided, cursor, audit>>
memory == <<mark, audited>>
game == <<day, holder, soldOn>>
saves == <<saving, disk, acts>>
vars == <<game, sql, memory, pass, saves, off, hindered>>

NoPass == [at |-> "idle", today |-> 0, queue |-> {}, pick |-> {},
           moved |-> FALSE, sold |-> {}]

Init ==
    /\ day = 1 /\ saving = "no"
    /\ holder = SellerOf
    /\ soldOn = [p \in Players |-> 0]
    /\ offers = {}
    /\ decided = [p \in Players |-> [day |-> 0, moved |-> FALSE]]
    /\ cursor = 0 /\ mark = 0 /\ audit = 0 /\ audited = 0
    /\ pass = NoPass
    /\ disk = [day |-> day, holder |-> holder, soldOn |-> soldOn]
    /\ acts = 0
    /\ off = {"unstable"} /\ hindered = FALSE

-----------------------------------------------------------------------------
(***************************************************************************)
(* What the stored rows say.                                               *)
(***************************************************************************)

Saving == saving # "no"

\* A stop, or the fix switched off, ends the threads.
Continue == off \cap {"fix", "stop"} = {}

Act == acts < MaxActs /\ acts' = acts + 1

Open == {o \in offers : decided[o[2]].day = 0}

OpenOf(b) == {o \in Open : o[1] = b}

Sold(s) == {p \in Players : SellerOf[p] = s /\ decided[p].moved}

AtLimit(s) == Cardinality(Sold(s)) >= SeasonLimit

\* Mutant: the wait is a day short.
InCooldownShort(s, t) ==
    /\ \A p \in Sold(s) : decided[p].day <= t
    /\ \E p \in Sold(s) : t - decided[p].day < CooldownDays - 1

\* A day before the last sale is not in its cooldown.
InCooldown(s, t) ==
    /\ \A p \in Sold(s) : decided[p].day <= t
    /\ \E p \in Sold(s) : t - decided[p].day < CooldownDays

-----------------------------------------------------------------------------
(***************************************************************************)
(* The pass of a day, up to the acquisition.                               *)
(***************************************************************************)

At(step) == pass.at = step
Go(step) == pass' = [pass EXCEPT !.at = step]
Working == pass.at \notin {"idle", "ended"}
GiveUp == pass' = NoPass /\ hindered' = FALSE

\* The thread waits for a save before it looks at the day; a day that was
\* audited has only repairs left.
Wake ==
    /\ At("idle") /\ ~Saving /\ Continue
    /\ audited' = IF audited = 0 THEN audit ELSE audited
    /\ IF audited' >= day THEN UNCHANGED <<pass, hindered>>
       ELSE /\ pass' = [NoPass EXCEPT !.at = "begun", !.today = day]
            /\ hindered' = (off # {})
    /\ UNCHANGED <<game, sql, mark, saves, off>>

\* The loop of the thread ends, for as long as the process lives.
Leave ==
    /\ At("idle") /\ ~Continue
    /\ Go("ended")
    /\ UNCHANGED <<game, sql, memory, saves, off, hindered>>

\* A save or a stop that is seen before the acquisition ends the pass.
Postpone ==
    /\ At("begun") /\ (Saving \/ ~Continue)
    /\ GiveUp
    /\ UNCHANGED <<game, sql, memory, saves, off>>

\* A save that comes later is waited for.
Enter ==
    /\ At("begun") /\ ~Saving /\ off = {}
    /\ Go("entered")
    /\ UNCHANGED <<game, sql, memory, saves, off, hindered>>

\* The acquisition answers that it did nothing, and the pass does not ask.
Bypass ==
    /\ At("begun") /\ off # {}
    /\ Go("acquired")
    /\ UNCHANGED <<game, sql, memory, saves, off, hindered>>

Cursor == IF mark = 0 THEN cursor ELSE mark

\* Mutant: the day after an acquisition counts as acquired.
AcquiredNextDay(t) == Cursor + 1 >= t

Acquired(t) == Cursor >= t

\* A closed window, or no team that may sell and no open offer: the day is
\* done.
NothingToDo(t) ==
    \/ t \notin OpenDays
    \/ Open = {} /\ \A s \in Sellers : AtLimit(s)

SkipDay ==
    /\ At("entered") /\ ~Saving /\ Acquired(pass.today)
    /\ mark' = Cursor
    /\ Go("acquired")
    /\ UNCHANGED <<game, sql, audited, saves, off, hindered>>

CloseDay ==
    /\ At("entered") /\ ~Saving /\ ~Acquired(pass.today)
    /\ NothingToDo(pass.today)
    /\ mark' = pass.today /\ cursor' = pass.today
    /\ Go("acquired")
    /\ UNCHANGED <<game, offers, decided, audit, audited, saves, off, hindered>>

\* The player list is found, or the acquisition of the day is given up.
OpenDay ==
    /\ At("entered") /\ ~Saving /\ ~Acquired(pass.today)
    /\ ~NothingToDo(pass.today)
    /\ mark' = Cursor
    /\ \/ Go("offering") /\ UNCHANGED hindered
       \/ Go("acquired") /\ hindered' = TRUE
    /\ UNCHANGED <<game, sql, audited, saves, off>>

\* A save in progress while the clubs are asked: the date is not marked.
CutOffers ==
    /\ pass.at \in {"entered", "offering"} /\ Saving
    /\ Go("acquired")
    /\ UNCHANGED <<game, sql, memory, saves, off, hindered>>

-----------------------------------------------------------------------------
(***************************************************************************)
(* Offers.  An offer for a player who was decided on is never read again,  *)
(* and is left out.                                                        *)
(***************************************************************************)

CanOffer(b, p) ==
    /\ <<b, p>> \notin offers /\ decided[p].day = 0
    /\ holder[p] = SellerOf[p] /\ ~AtLimit(SellerOf[p])

Offer(b, p) ==
    /\ At("offering") /\ ~Saving
    /\ b \in Clubs /\ CanOffer(b, p)
    /\ Cardinality(OpenOf(b)) < PendingLimit
    /\ offers' = offers \cup {<<b, p>>}
    /\ UNCHANGED <<game, decided, cursor, audit, memory, pass, saves, off, hindered>>

\* The user offers for the latest date, at any time.  The checks and the write
\* are one step: a row that comes after the player was decided on is not read.
Submit(b, p) ==
    /\ b \in UserClubs /\ day \in OpenDays /\ CanOffer(b, p)
    /\ offers' = offers \cup {<<b, p>>}
    /\ Act
    /\ UNCHANGED <<game, decided, cursor, audit, memory, pass, saving, disk, off, hindered>>

Withdraw(b, p) ==
    /\ b \in UserClubs /\ <<b, p>> \in offers /\ decided[p].day = 0
    /\ offers' = offers \ {<<b, p>>}
    /\ Act
    /\ UNCHANGED <<game, decided, cursor, audit, memory, pass, saving, disk, off, hindered>>

-----------------------------------------------------------------------------
(***************************************************************************)
(* Sales.                                                                  *)
(***************************************************************************)

LoadQueue ==
    /\ At("offering") /\ ~Saving
    /\ pass' = [pass EXCEPT !.at = "selling", !.queue = Open]
    /\ UNCHANGED <<game, sql, memory, saves, off, hindered>>

Without(p) == {o \in pass.queue : o[2] # p}

\* The team has sold in this run or lately, or holds out for a better offer.
Defer(o) ==
    /\ At("selling") /\ ~Saving /\ o \in pass.queue
    /\ ~AtLimit(SellerOf[o[2]])
    /\ pass' = [pass EXCEPT !.queue = Without(o[2])]
    /\ UNCHANGED <<game, sql, memory, saves, off, hindered>>

\* One offer for the player is chosen; a team at its limit chooses one to
\* turn it down.
Choose(o) ==
    /\ At("selling") /\ ~Saving /\ o \in pass.queue
    /\ LET s == SellerOf[o[2]]
       IN  AtLimit(s) \/ (~InCooldown(s, pass.today) /\ s \notin pass.sold)
    /\ pass' = [pass EXCEPT !.at = "chosen", !.queue = Without(o[2]), !.pick = {o}]
    /\ UNCHANGED <<game, sql, memory, saves, off, hindered>>

\* fit: the player can be read and has no hindrance, the club has the cash.
\* A save that begins now is not seen any more.
Transfer ==
    /\ At("chosen")
    /\ \E o \in pass.pick, fit \in BOOLEAN :
          LET p == o[2]
              s == SellerOf[p]
              moved == fit /\ ~AtLimit(s) /\ holder[p] = s
          IN  /\ holder' = IF moved THEN [holder EXCEPT ![p] = o[1]] ELSE holder
              /\ soldOn' = IF moved THEN [soldOn EXCEPT ![p] = pass.today] ELSE soldOn
              /\ pass' = [pass EXCEPT !.at = "assigned", !.moved = moved]
    /\ UNCHANGED <<day, sql, memory, saves, off, hindered>>

\* The row of the decision is written, or it fails and nothing is counted.
Decide ==
    /\ At("assigned") /\ ~Saving
    /\ \E o \in pass.pick, ok \in BOOLEAN :
          /\ decided' = IF ok THEN [decided EXCEPT ![o[2]] =
                                       [day |-> pass.today, moved |-> pass.moved]]
                        ELSE decided
          /\ pass' = [pass EXCEPT !.at = "selling", !.pick = {}, !.moved = FALSE,
                         !.sold = IF ok /\ pass.moved
                                  THEN @ \cup {SellerOf[o[2]]} ELSE @]
    /\ UNCHANGED <<game, offers, cursor, audit, memory, saves, off, hindered>>

EndSales ==
    /\ At("selling") /\ pass.queue = {}
    /\ pass' = [pass EXCEPT !.at = "sold", !.sold = {}]
    /\ UNCHANGED <<game, sql, memory, saves, off, hindered>>

\* A save in progress ends the sales, not the acquisition: the date is
\* marked, and a player who was assigned has no decision.
CutSales ==
    /\ pass.at \in {"offering", "selling", "assigned"} /\ Saving
    /\ pass' = [NoPass EXCEPT !.at = "sold", !.today = pass.today]
    /\ UNCHANGED <<game, sql, memory, saves, off, hindered>>

MarkDay ==
    /\ At("sold")
    /\ mark' = pass.today /\ cursor' = pass.today
    /\ Go("acquired")
    /\ UNCHANGED <<game, offers, decided, audit, audited, saves, off, hindered>>

-----------------------------------------------------------------------------
(***************************************************************************)
(* The rest of the pass: repairs, which are not modelled, and the audit.   *)
(***************************************************************************)

\* Mutant: the date is remembered before the save is looked for.
AuditRemembered ==
    /\ At("acquired")
    /\ audited' = pass.today
    /\ audit' = IF Saving THEN audit ELSE pass.today
    /\ GiveUp
    /\ UNCHANGED <<game, offers, decided, cursor, mark, saves, off>>

\* The checks for a save between the repairs and before the audit all end the
\* pass; they are one here.
Audit ==
    /\ At("acquired")
    /\ IF Saving THEN UNCHANGED <<audit, audited>>
       ELSE audited' = pass.today /\ audit' = pass.today
    /\ GiveUp
    /\ UNCHANGED <<game, offers, decided, cursor, mark, saves, off>>

Pass ==
    \/ Wake \/ Leave \/ Postpone \/ Enter \/ Bypass
    \/ SkipDay \/ CloseDay \/ OpenDay \/ CutOffers
    \/ \E b \in Clubs, p \in Players : Offer(b, p)
    \/ LoadQueue
    \/ \E o \in pass.queue : Defer(o) \/ Choose(o)
    \/ Transfer \/ Decide \/ EndSales \/ CutSales \/ MarkDay
    \/ Audit

-----------------------------------------------------------------------------
(***************************************************************************)
(* The game and its user.                                                  *)
(***************************************************************************)

NextDay ==
    /\ ~Saving /\ day < LastDay
    /\ day' = day + 1
    /\ UNCHANGED <<holder, soldOn, sql, memory, pass, saves, off, hindered>>

BeginSave ==
    /\ ~Saving /\ Act
    /\ saving' = "begun"
    /\ hindered' = (hindered \/ Working)
    /\ UNCHANGED <<game, sql, memory, pass, disk, off>>

WriteSave ==
    /\ saving = "begun" /\ saving' = "written"
    /\ disk' = [day |-> day, holder |-> holder, soldOn |-> soldOn]
    /\ UNCHANGED <<game, sql, memory, pass, acts, off, hindered>>

EndSave ==
    /\ saving = "written" /\ saving' = "no"
    /\ UNCHANGED <<game, sql, memory, pass, disk, acts, off, hindered>>

\* The game ends at any moment and is loaded as it was last saved.
Restart ==
    /\ Act
    /\ day' = disk.day /\ holder' = disk.holder /\ soldOn' = disk.soldOn
    /\ mark' = 0 /\ audited' = 0
    /\ saving' = "no" /\ off' = (off \ {"stop"}) \cup {"unstable"}
    /\ GiveUp
    /\ UNCHANGED <<sql, disk>>

\* The user switches the feature or the fix off or on.
Switch ==
    /\ Act
    /\ \E f \in {"feature", "fix"} :
          off' = IF f \in off THEN off \ {f} ELSE off \cup {f}
    /\ hindered' = (hindered \/ At("begun"))
    /\ UNCHANGED <<game, sql, memory, pass, saving, disk>>

\* The program is told to stop, and the threads with it.
Shutdown ==
    /\ Act
    /\ off' = off \cup {"stop"}
    /\ hindered' = (hindered \/ At("begun"))
    /\ UNCHANGED <<game, sql, memory, pass, saving, disk>>

\* The thread that waits for the league's marker takes the date for stable;
\* that of the maintenance was started before it.
DateReady ==
    /\ "unstable" \in off
    /\ off' = off \ {"unstable"}
    /\ UNCHANGED <<game, sql, memory, pass, saves, hindered>>

User == \E b \in UserClubs, p \in Players : Submit(b, p) \/ Withdraw(b, p)

Next ==
    \/ Pass \/ User \/ NextDay \/ BeginSave \/ WriteSave \/ EndSave
    \/ Switch \/ Shutdown \/ DateReady \/ Restart

Spec == Init /\ [][Next]_vars

\* The thread runs, and a save that was begun is completed.
FairSpec == Spec /\ WF_vars(Pass) /\ WF_vars(WriteSave) /\ WF_vars(EndSave)

-----------------------------------------------------------------------------
(***************************************************************************)
(* Properties.                                                             *)
(***************************************************************************)

\* Sales of the present game that have their decision, and the others that
\* were decided: a restart undid them.
Recorded(s) == {p \in Sold(s) : soldOn[p] = decided[p].day}
Undone(s) == Sold(s) \ Recorded(s)

\* The limit of the season and the wait between two sales of a team hold for
\* the sales that have their decision, whatever restarts, saves and failed
\* rows come between (independent_acquisition_seller_ai.c:98-165).  A sale
\* that lost its decision to a save is not counted, and so not rationed; and
\* while a sale that was undone is later than the date, no team waits.
SalesAreRationed ==
    \A s \in Sellers :
        /\ Cardinality(Recorded(s)) <= SeasonLimit
        /\ \A p, q \in Recorded(s) :
              p # q /\ soldOn[p] <= soldOn[q] =>
                 \/ soldOn[q] >= soldOn[p] + CooldownDays
                 \/ \E r \in Undone(s) : decided[r].day > soldOn[q]

\* The date of a pass is recorded as audited, and never looked at again, only
\* when the stored date of the acquisitions covers it, although the pass ignores
\* what the acquisition answers (foreign_daily_maintenance.c:181-241).  The
\* exceptions are those of the code: since the pass began a save was in
\* progress; before the acquisition was entered the feature was off, the fix
\* was off, the program was told to stop or its date was not stable yet
\* (independent_acquisition_ai.c:24-43); the list of the players could not be
\* read.
AuditedMeansAcquired ==
    [][audit' # audit => cursor >= pass.today \/ hindered]_vars

\* The date the game rests at is audited in the end: a pass that gave up for
\* a save is begun again by the idle thread (foreign_daily_maintenance.c:297),
\* unless the thread was told to stop.
RestingDayIsAudited == <>[](audit >= day \/ At("ended"))

=============================================================================
