---------------------------- MODULE TickConsumer ----------------------------
(***************************************************************************)
(* A date consumer of the native runtime                                   *)
(* (native/src/core/dates/tick/capture/consumer and cursor): a background  *)
(* thread that reads the ring of published dates behind its own cursor,    *)
(* skips what it has processed, starts afresh in another save, and keeps a *)
(* date pending until its subsystem has done that day's work.              *)
(*                                                                         *)
(* Two threads publish into the ring: the game's hook, and the consumer    *)
(* itself when it enters a save.  A publication is cut down from DateTick  *)
(* to the steps a reader of the ring can tell apart: a date is accepted, a *)
(* slot reserved, the slot written, the event counted.  The two trackers   *)
(* of the current save are one here (scope).                               *)
(***************************************************************************)
EXTENDS Integers, Sequences

CONSTANTS
    Saves,       \* save paths
    NoSave,      \* the empty path
    RingSize,    \* slots of the event ring (256 in the code)
    Entered,     \* has the consumer processed a date before the model starts?
    Switchable,  \* is the subsystem switched off at times?
    MaxDate,     \* bound: last day the game reaches
    MaxLoads,    \* bound: how many times the player loads a save
    MaxDefers    \* bound: how many times a day's work is put off

ASSUME TickConsumerAssumption ==
    /\ NoSave \notin Saves
    /\ {Entered, Switchable} \subseteq BOOLEAN
    /\ {MaxLoads, MaxDefers} \subseteq Nat
    /\ {MaxDate, RingSize} \subseteq Nat \ {0}

Publishers == {"hook", "consumer"}
Dates == 1 .. MaxDate
DatesOrNone == 0 .. MaxDate

VARIABLES
    game,           \* the loaded save, its date (0 while loading), and how much
                    \* of MaxLoads and MaxDefers is used
    scope,          \* the save the last published date belongs to
    lastPublished,  \* g_kbo_current_date_tick_last_published_date
    writeCursor,    \* g_kbo_current_date_tick_event_write_cursor
    published,      \* g_kbo_current_date_tick_event_published_sequence
    ring,           \* g_kbo_current_date_tick_event_dates
    publication,    \* of each publisher: the date and event it is publishing
    consumer,       \* the KboCurrentDateTickConsumer
    scan,           \* the selected event of a coalescing scan
    pc,             \* the next step of each thread
    log,            \* observation only: date of each reserved event
    visit           \* observation only: the consumer's cursor when it entered
                    \* its save or was last switched off, the dates it took
                    \* since, and whether a publisher was ever a whole ring
                    \* ahead of it

vars == <<game, scope, lastPublished, writeCursor, published, ring, publication,
          consumer, scan, pc, log, visit>>

Nothing == [date |-> 0, event |-> 0]

Init ==
    /\ \E s \in Saves, c \in BOOLEAN :
         /\ game = [save |-> s, date |-> 1, loads |-> 0, defers |-> 0]
         /\ scope = s
         /\ consumer = [save |-> IF Entered THEN s ELSE NoSave, next |-> 1,
                        last |-> IF Entered THEN 1 ELSE 0, pending |-> 0,
                        sequence |-> 0, coalesces |-> c]
    /\ lastPublished = 1
    /\ writeCursor = 1
    /\ published = 1
    /\ ring = [i \in 0 .. RingSize - 1 |-> IF i = 0 THEN 1 ELSE 0]
    /\ publication = [p \in Publishers |-> Nothing]
    /\ scan = Nothing
    /\ pc = [p \in Publishers |-> "idle"]
    /\ log = <<1>>
    /\ visit = [from |-> 1, taken |-> {}, lapped |-> FALSE]

Goto(p, from, to) ==
    /\ pc[p] = from
    /\ pc' = [pc EXCEPT ![p] = to]

ringVars == <<writeCursor, published, ring, log>>
scopeVars == <<scope, lastPublished>>
readerVars == <<consumer, scan, visit>>

(***************************************************************************)
(* The game and its hook.                                                  *)
(***************************************************************************)
LoadSave(s) ==
    /\ game.loads < MaxLoads
    /\ s # game.save
    /\ game.date # 0
    /\ pc["hook"] = "idle"
    /\ game' = [save |-> s, date |-> 0, loads |-> game.loads + 1,
                defers |-> game.defers]
    /\ UNCHANGED <<scopeVars, ringVars, publication, readerVars, pc>>

LoadDone(d) ==
    /\ game.date = 0
    /\ game' = [game EXCEPT !.date = d]
    /\ UNCHANGED <<scopeVars, ringVars, publication, readerVars, pc>>

AdvanceDay ==
    /\ game.date \in 1 .. MaxDate - 1
    /\ Goto("hook", "idle", "accept")
    /\ game' = [game EXCEPT !.date = @ + 1]
    /\ publication' = [publication EXCEPT !["hook"].date = game.date + 1]
    /\ UNCHANGED <<scopeVars, ringVars, readerVars>>

(***************************************************************************)
(* Publishing (see DateTick for the interleavings inside one Accept).      *)
(***************************************************************************)

\* What publish_core finds published last, once it has seen the loaded save.
PublishedInScope == IF scope = game.save THEN lastPublished ELSE 0

Accepts(p) ==
    LET date == publication[p].date
    IN  \/ PublishedInScope = 0
        \/ IF p = "hook" THEN date = PublishedInScope + 1
                         ELSE date = PublishedInScope

Accept(p) ==
    /\ scope' = game.save
    /\ \/ /\ Goto(p, "accept", "reserve")
          /\ Accepts(p)
          /\ lastPublished' = publication[p].date
       \/ /\ Goto(p, "accept", IF p = "hook" THEN "idle" ELSE "peek")
          /\ ~Accepts(p)
          /\ lastPublished' = PublishedInScope
    /\ UNCHANGED <<game, ringVars, publication, readerVars>>

Reserve(p) ==
    /\ Goto(p, "reserve", "write")
    /\ publication' = [publication EXCEPT ![p].event = writeCursor]
    /\ writeCursor' = writeCursor + 1
    /\ log' = Append(log, publication[p].date)
    /\ UNCHANGED <<game, scopeVars, published, ring, readerVars>>

WriteSlot(p) ==
    /\ Goto(p, "write", "count")
    /\ ring' = [ring EXCEPT ![publication[p].event % RingSize] = publication[p].date]
    /\ UNCHANGED <<game, scopeVars, writeCursor, published, log, publication,
                   readerVars>>

Count(p) ==
    /\ Goto(p, "count", IF p = "hook" THEN "idle" ELSE "peek")
    /\ published' = published + 1
    /\ publication' = [publication EXCEPT ![p] = Nothing]
    /\ UNCHANGED <<game, scopeVars, writeCursor, ring, log, readerVars>>

(***************************************************************************)
(* kbo_current_date_tick_consumer_next.                                    *)
(***************************************************************************)
readerOnly == <<game, scopeVars, ringVars, publication>>

\* refresh_save_path in the save the consumer is in.  Without a processed or a
\* pending date it enters the save again.
NextInSave ==
    /\ game.save = consumer.save
    /\ \/ Goto("consumer", "idle", "enter") /\ consumer.last = 0 /\ consumer.pending = 0
       \/ Goto("consumer", "idle", "work") /\ consumer.pending # 0
       \/ Goto("consumer", "idle", "peek") /\ consumer.last # 0 /\ consumer.pending = 0
    /\ UNCHANGED <<readerOnly, readerVars>>

\* Mutant: the cursor stays on the old save's events.
NextInOtherSaveKeepsCursor ==
    /\ game.save # consumer.save
    /\ Goto("consumer", "idle", "enter")
    /\ consumer' = [consumer EXCEPT !.save = game.save, !.last = 0,
                                    !.pending = 0, !.sequence = 0]
    /\ visit' = [from |-> published, taken |-> {}, lapped |-> FALSE]
    /\ UNCHANGED <<readerOnly, scan>>

\* refresh_save_path in another save: reset_save.  The cursor skips to the
\* latest event, unless this is the first save the consumer knows.
NextInOtherSave ==
    /\ game.save # consumer.save
    /\ Goto("consumer", "idle", "enter")
    /\ LET next == IF consumer.save = NoSave THEN consumer.next ELSE published
       IN  /\ consumer' = [save |-> game.save, next |-> next, last |-> 0,
                           pending |-> 0, sequence |-> 0,
                           coalesces |-> consumer.coalesces]
           /\ visit' = [from |-> next, taken |-> {}, lapped |-> FALSE]
    /\ UNCHANGED <<readerOnly, scan>>

\* Mutant: the tracker is cleared, not moved to the save.
EnterScopeClears ==
    /\ Goto("consumer", "enter", "today")
    /\ scope' = NoSave
    /\ lastPublished' = 0
    /\ UNCHANGED <<game, ringVars, publication, readerVars>>

\* publish_save_enter_current: a scope of another save starts without a date.
EnterScope ==
    /\ Goto("consumer", "enter", "today")
    /\ scope' = consumer.save
    /\ lastPublished' = IF scope = consumer.save THEN lastPublished ELSE 0
    /\ UNCHANGED <<game, ringVars, publication, readerVars>>

ReadToday ==
    /\ Goto("consumer", "today", IF game.date = 0 THEN "peek" ELSE "accept")
    /\ publication' = [publication EXCEPT !["consumer"].date = game.date]
    /\ UNCHANGED <<game, scopeVars, ringVars, readerVars>>

\* Mutant: a full ring already counts as an overflow.
CursorForOneEarly(latest) ==
    IF latest - consumer.next >= RingSize THEN latest - RingSize + 1
                                          ELSE consumer.next

\* peek_ex: the cursor is moved up when it is more than a ring behind.
CursorFor(latest) ==
    IF latest - consumer.next > RingSize THEN latest - RingSize ELSE consumer.next

\* The slot of the cursor's event may by now belong to a later event.
Lapped == writeCursor > consumer.next + RingSize

\* A cursor ahead of the count is moved back to it.
PeekEmpty ==
    /\ consumer.next >= published
    /\ Goto("consumer", "peek", "idle")
    /\ consumer' = [consumer EXCEPT !.next = published]
    /\ UNCHANGED <<readerOnly, scan, visit>>

\* Mutant: the reserved events are read, not the counted ones.
PeekReserved ==
    /\ consumer.next < writeCursor
    /\ Goto("consumer", "peek", "slot")
    /\ UNCHANGED <<readerOnly, readerVars>>

Peek ==
    /\ consumer.next < published
    /\ Goto("consumer", "peek", "slot")
    /\ consumer' = [consumer EXCEPT !.next = CursorFor(published)]
    /\ visit' = [visit EXCEPT !.lapped = @ \/ Lapped]
    /\ UNCHANGED <<readerOnly, scan>>

SlotDate == ring[consumer.next % RingSize]

\* An event without a date, or with a date not later than the last one
\* processed, is passed over.
SkipSlot ==
    /\ Goto("consumer", "slot", "peek")
    /\ SlotDate <= consumer.last
    /\ consumer' = [consumer EXCEPT !.next = @ + 1]
    /\ visit' = [visit EXCEPT !.lapped = @ \/ Lapped]
    /\ UNCHANGED <<readerOnly, scan>>

\* An event becomes pending until mark_processed.
Offered(date, event) ==
    [save |-> consumer.save, next |-> consumer.next, last |-> consumer.last,
     pending |-> date, sequence |-> event + 1, coalesces |-> consumer.coalesces]

\* Mutant: the last processed date is taken again.
TakeSlotAgain ==
    /\ Goto("consumer", "slot", "work")
    /\ SlotDate >= consumer.last
    /\ consumer' = Offered(SlotDate, consumer.next)
    /\ UNCHANGED <<readerOnly, scan, visit>>

\* Another event becomes pending; the cursor stays on it.
TakeSlot ==
    /\ ~consumer.coalesces
    /\ Goto("consumer", "slot", "work")
    /\ SlotDate > consumer.last
    /\ consumer' = Offered(SlotDate, consumer.next)
    /\ visit' = [visit EXCEPT !.lapped = @ \/ Lapped]
    /\ UNCHANGED <<readerOnly, scan>>

(***************************************************************************)
(* coalesce_event: of all events up to the latest the one with the latest  *)
(* date is selected.                                                       *)
(***************************************************************************)
StartScan ==
    /\ consumer.coalesces
    /\ Goto("consumer", "slot", "scan")
    /\ SlotDate > consumer.last
    /\ scan' = [date |-> SlotDate, event |-> consumer.next]
    /\ consumer' = [consumer EXCEPT !.next = @ + 1]
    /\ visit' = [visit EXCEPT !.lapped = @ \/ Lapped]
    /\ UNCHANGED readerOnly

ScanPeek ==
    /\ consumer.next < published
    /\ Goto("consumer", "scan", "scanSlot")
    /\ consumer' = [consumer EXCEPT !.next = CursorFor(published)]
    /\ visit' = [visit EXCEPT !.lapped = @ \/ Lapped]
    /\ UNCHANGED <<readerOnly, scan>>

ScanSlot ==
    /\ Goto("consumer", "scanSlot", "scan")
    /\ scan' = IF SlotDate > scan.date
                 THEN [date |-> SlotDate, event |-> consumer.next] ELSE scan
    /\ consumer' = [consumer EXCEPT !.next = @ + 1]
    /\ visit' = [visit EXCEPT !.lapped = @ \/ Lapped]
    /\ UNCHANGED readerOnly

ScanEnd ==
    /\ consumer.next = published
    /\ Goto("consumer", "scan", "work")
    /\ consumer' = Offered(scan.date, scan.event)
    /\ scan' = Nothing
    /\ UNCHANGED <<readerOnly, visit>>

(***************************************************************************)
(* The subsystem's loop: do the day's work and mark it processed, or leave *)
(* it pending (the work failed, or the game is being saved).               *)
(***************************************************************************)
WorkDone ==
    /\ Goto("consumer", "work", "idle")
    /\ consumer' = [save |-> consumer.save,
                     next |-> IF consumer.next < consumer.sequence
                                THEN consumer.sequence ELSE consumer.next,
                     last |-> consumer.pending, pending |-> 0, sequence |-> 0,
                     coalesces |-> consumer.coalesces]
    /\ visit' = [visit EXCEPT !.taken = @ \cup {consumer.pending}]
    /\ UNCHANGED <<readerOnly, scan>>

\* Mutant: work that failed is not left pending.
WorkDeferredDropsDay ==
    /\ game.defers < MaxDefers
    /\ Goto("consumer", "work", "idle")
    /\ game' = [game EXCEPT !.defers = @ + 1]
    /\ consumer' = [consumer EXCEPT !.next = consumer.sequence, !.pending = 0]
    /\ UNCHANGED <<scopeVars, ringVars, publication, scan, visit>>

WorkDeferred ==
    /\ game.defers < MaxDefers
    /\ Goto("consumer", "work", "idle")
    /\ game' = [game EXCEPT !.defers = @ + 1]
    /\ UNCHANGED <<scopeVars, ringVars, publication, readerVars>>

\* skip_to_latest, called at every poll for which the subsystem is switched off:
\* the cursor moves to the latest event, and a pending date is given up.
SkipToLatest ==
    /\ Switchable
    /\ pc["consumer"] = "idle"
    /\ consumer' = [save |-> consumer.save, next |-> published,
                    last |-> consumer.last, pending |-> 0, sequence |-> 0,
                    coalesces |-> consumer.coalesces]
    /\ visit' = [from |-> published, taken |-> {}, lapped |-> FALSE]
    /\ UNCHANGED <<readerOnly, scan, pc>>

(***************************************************************************)
(* The specification.                                                      *)
(***************************************************************************)
FinishLoad == \E d \in Dates : LoadDone(d)
Publish(p) == Accept(p) \/ Reserve(p) \/ WriteSlot(p) \/ Count(p)
Consume ==
    \/ NextInSave \/ NextInOtherSave \/ EnterScope \/ ReadToday
    \/ PeekEmpty \/ Peek \/ SkipSlot \/ TakeSlot
    \/ StartScan \/ ScanPeek \/ ScanSlot \/ ScanEnd
    \/ WorkDone \/ WorkDeferred \/ SkipToLatest

Next ==
    \/ (\E s \in Saves : LoadSave(s)) \/ FinishLoad \/ AdvanceDay
    \/ \E p \in Publishers : Publish(p)
    \/ Consume

\* The consumer's thread polls for ever, a hook runs to its end, a load ends.
Fairness ==
    /\ WF_vars(FinishLoad)
    /\ \A p \in Publishers : WF_vars(Publish(p))
    /\ WF_vars(Consume)

Spec == Init /\ [][Next]_vars
FairSpec == Spec /\ Fairness

-----------------------------------------------------------------------------
(***************************************************************************)
(* Properties.                                                             *)
(***************************************************************************)
GameType == [save : Saves, date : DatesOrNone, loads : Nat, defers : Nat]
EventType == [date : DatesOrNone, event : Nat]
ConsumerType == [save : Saves \cup {NoSave}, next : Nat, last : DatesOrNone,
                 pending : DatesOrNone, sequence : Nat, coalesces : BOOLEAN]
VisitType == [from : Nat, taken : SUBSET DatesOrNone, lapped : BOOLEAN]
Labels == {"idle", "accept", "reserve", "write", "count", "enter", "today",
           "peek", "slot", "scan", "scanSlot", "work"}

\* The types of the shared globals, of a publication and of the consumer.
TypeOK ==
    /\ game \in GameType
    /\ scope \in Saves
    /\ lastPublished \in DatesOrNone
    /\ writeCursor \in Nat
    /\ published \in Nat
    /\ ring \in [0 .. RingSize - 1 -> DatesOrNone]
    /\ publication \in [Publishers -> EventType]
    /\ consumer \in ConsumerType
    /\ scan \in EventType
    /\ pc \in [Publishers -> Labels]
    /\ log \in Seq(DatesOrNone)
    /\ visit \in VisitType

\* The consumer has nothing left to do: its last look at the ring found it empty.
CaughtUp ==
    /\ pc = [p \in Publishers |-> "idle"]
    /\ consumer.save = game.save
    /\ consumer.last # 0 /\ consumer.pending = 0
    /\ consumer.next = published

\* A consumer that has read all of the ring has processed the day the game
\* shows: no live day is lost to it.
CaughtUpIsToday == CaughtUp /\ game.date # 0 => consumer.last = game.date

\* As long as no publisher gets a whole ring ahead, the consumer passes over no
\* published day: each one was taken or is pending, unless it coalesces and a
\* later day stands for it.
NoDayPassedOver ==
    visit.lapped \/
    \A e \in visit.from .. consumer.next - 1 :
        \/ log[e + 1] \in visit.taken \cup {consumer.pending, scan.date}
        \/ consumer.coalesces /\ \E d \in {consumer.last, consumer.pending, scan.date} :
                          log[e + 1] < d

\* The date offered for work belongs to the game that is loaded, and not to one
\* that was loaded before, once the consumer has noticed the save; nor is it one
\* that was published before the subsystem was last switched off.
OfferIsOfThisSave ==
    pc["consumer"] = "work" /\ consumer.save = game.save =>
        \E e \in visit.from .. Len(log) - 1 : log[e + 1] = consumer.pending

\* The consumer keeps the promise of DateFeed: from consumer_next to
\* mark_processed it offers one date at a time, in order, once per save.
Feed == INSTANCE DateFeed WITH save <- consumer.save, taken <- consumer.last,
                               offered <- consumer.pending
FeedSpec == Feed!Spec

\* The day the game stays on is processed in the end.
TodayIsProcessed ==
    \A s \in Saves, d \in Dates :
        []<>(consumer.save = s /\ consumer.last = d) \/
        []<>(game.save # s \/ game.date # d)
=============================================================================
