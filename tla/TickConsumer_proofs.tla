------------------------ MODULE TickConsumer_proofs ------------------------
(***************************************************************************)
(* Theorems about TickConsumer for every set of saves, ring size, bound    *)
(* and kind of consumer: its types, and that it implements DateFeed.       *)
(***************************************************************************)
EXTENDS TickConsumer, TLAPS

\* An assignment to one place of a function keeps the function's type.
LEMMA FunctionUpdate ==
  ASSUME NEW S, NEW T, NEW f \in [S -> T], NEW x, NEW y \in T
  PROVE  [f EXCEPT ![x] = y] \in [S -> T]
  OBVIOUS

\* The fields of an event, and events whose fields are assigned.
LEMMA EventFields ==
  /\ Nothing \in EventType
  /\ \A e \in EventType :
       /\ e.date \in DatesOrNone /\ e.event \in Nat
       /\ \A d \in DatesOrNone : [e EXCEPT !.date = d] \in EventType
       /\ \A n \in Nat : [e EXCEPT !.event = n] \in EventType
  BY TickConsumerAssumption, SMT DEF EventType, Nothing, DatesOrNone

\* The fields of a consumer, and consumers whose fields are assigned.
LEMMA ConsumerFields ==
  \A c \in ConsumerType :
    /\ c.save \in Saves \cup {NoSave} /\ c.next \in Nat
    /\ c.last \in DatesOrNone /\ c.pending \in DatesOrNone /\ c.sequence \in Nat
    /\ c.coalesces \in BOOLEAN
    /\ \A n \in Nat :
         /\ [c EXCEPT !.next = n] \in ConsumerType
         /\ [c EXCEPT !.next = n].save = c.save
         /\ [c EXCEPT !.next = n].last = c.last
         /\ [c EXCEPT !.next = n].pending = c.pending
  BY SMT DEF ConsumerType

\* The loaded save's fields.
LEMMA GameFields ==
  \A g \in GameType : /\ g.save \in Saves /\ g.date \in DatesOrNone
                      /\ g.loads \in Nat /\ g.defers \in Nat
                      /\ \A d \in DatesOrNone : [g EXCEPT !.date = d] \in GameType
                      /\ \A n \in Nat : [g EXCEPT !.defers = n] \in GameType
  BY SMT DEF GameType

\* Observing an overrun keeps the type of a visit.
LEMMA VisitFields ==
  \A v \in VisitType :
    /\ v.taken \subseteq DatesOrNone
    /\ \A b \in BOOLEAN : [v EXCEPT !.lapped = @ \/ b] \in VisitType
    /\ \A S \in SUBSET DatesOrNone : [v EXCEPT !.taken = S] \in VisitType
<1>1. ASSUME NEW v \in VisitType
      PROVE  v.taken \subseteq DatesOrNone /\ v.lapped \in BOOLEAN /\ v.from \in Nat
  BY <1>1 DEF VisitType
<1>2. ASSUME NEW v \in VisitType, NEW b \in BOOLEAN
      PROVE  [v EXCEPT !.lapped = @ \/ b] \in VisitType
  BY <1>1, <1>2 DEF VisitType
<1>3. ASSUME NEW v \in VisitType, NEW S \in SUBSET DatesOrNone
      PROVE  [v EXCEPT !.taken = S] \in VisitType
  BY <1>1, <1>3 DEF VisitType
<1> QED
  BY <1>1, <1>2, <1>3

(***************************************************************************)
(* The inductive invariant: a pending or selected date is later than the   *)
(* last one processed; one is pending exactly when there is work, and none *)
(* while the consumer enters a save or reads the ring; the save it enters  *)
(* is a real one.                                                          *)
(***************************************************************************)
OfferInv ==
    /\ consumer.pending # 0 => consumer.pending > consumer.last
    /\ pc["consumer"] = "work" => consumer.pending # 0
    /\ pc["consumer"] \notin {"work", "idle"} => consumer.pending = 0
    /\ pc["consumer"] \in {"scan", "scanSlot"} => scan.date > consumer.last
    /\ pc["consumer"] = "enter" => consumer.save \in Saves

IInv == TypeOK /\ OfferInv

\* The initial state satisfies the invariant.
LEMMA InitInv == Init => IInv
<1> SUFFICES ASSUME Init PROVE IInv
  OBVIOUS
<1> USE TickConsumerAssumption
<1>0. 1 \in DatesOrNone /\ 0 \in DatesOrNone
  BY SMT DEF DatesOrNone
<1>1. PICK s \in Saves, c \in BOOLEAN :
        /\ game = [save |-> s, date |-> 1, loads |-> 0, defers |-> 0]
        /\ scope = s
        /\ consumer = [save |-> IF Entered THEN s ELSE NoSave, next |-> 1,
                        last |-> IF Entered THEN 1 ELSE 0, pending |-> 0,
                        sequence |-> 0, coalesces |-> c]
  BY DEF Init
<1>2. game \in GameType /\ scope \in Saves
  BY <1>0, <1>1, SMT DEF GameType
<1>3. consumer \in ConsumerType /\ consumer.pending = 0
  BY <1>0, <1>1, SMT DEF ConsumerType
<1>4. ring \in [0 .. RingSize - 1 -> DatesOrNone]
  BY <1>0, SMT DEF Init
<1>5. visit \in VisitType
  BY SMT DEF Init, VisitType
<1>6. publication \in [Publishers -> EventType] /\ scan \in EventType
  BY EventFields, SMT DEF Init
<1>7. pc \in [Publishers -> Labels] /\ pc["consumer"] = "idle"
  BY SMT DEF Init, Labels, Publishers
<1>8. log \in Seq(DatesOrNone) /\ lastPublished \in DatesOrNone
      /\ writeCursor \in Nat /\ published \in Nat
  BY <1>0, SMT DEF Init
<1> QED
  BY <1>2, <1>3, <1>4, <1>5, <1>6, <1>7, <1>8, SMT DEF IInv, TypeOK, OfferInv

\* A step of one thread changes that thread's label only.
LEMMA ThreadStep ==
  ASSUME pc \in [Publishers -> Labels], NEW p \in Publishers,
         NEW from, NEW to \in Labels, Goto(p, from, to)
  PROVE  /\ pc[p] = from /\ pc'[p] = to
         /\ pc' \in [Publishers -> Labels]
         /\ \A q \in Publishers \ {p} : pc'[q] = pc[q]
  BY DEF Goto

\* The hook's steps and the game leave the offer alone.
LEMMA OfferKept ==
  ASSUME OfferInv, UNCHANGED <<consumer, scan>>, pc'["consumer"] = pc["consumer"]
  PROVE  OfferInv'
  BY DEF OfferInv

\* A publication step of either thread leaves the offer alone: the consumer
\* publishes only while nothing is pending.
LEMMA PublishKeepsOffer ==
  ASSUME IInv, NEW p \in Publishers, UNCHANGED <<consumer, scan>>,
         NEW from \in {"accept", "reserve", "write", "count"},
         NEW to \in {"reserve", "write", "count", "idle", "peek"},
         Goto(p, from, to)
  PROVE  OfferInv'
<1>1. to \in Labels /\ pc \in [Publishers -> Labels]
  BY DEF Labels, IInv, TypeOK
<1>2. CASE p = "consumer"
  <2>1. pc["consumer"] = from /\ pc'["consumer"] = to
    BY <1>1, <1>2, ThreadStep
  <2>2. consumer.pending = 0
    BY <2>1 DEF IInv, OfferInv
  <2> QED
    BY <2>1, <2>2 DEF IInv, OfferInv
<1>3. CASE p # "consumer"
  <2>1. pc'["consumer"] = pc["consumer"]
    BY <1>1, <1>3, ThreadStep DEF Publishers
  <2> QED
    BY <2>1, OfferKept DEF IInv
<1> QED
  BY <1>2, <1>3

\* The game's actions keep the invariant.
LEMMA GameStep ==
  ASSUME IInv,
         \/ \E s \in Saves : LoadSave(s)
         \/ FinishLoad
         \/ AdvanceDay
  PROVE  IInv'
<1> USE TickConsumerAssumption DEF IInv, ringVars, scopeVars, readerVars
<1>0. /\ game.save \in Saves /\ game.date \in DatesOrNone
      /\ game.loads \in Nat /\ game.defers \in Nat
  BY GameFields DEF TypeOK
<1>1. ASSUME NEW s \in Saves, LoadSave(s) PROVE IInv'
  <2>1. game' \in GameType
    BY <1>0, <1>1, SMT DEF LoadSave, GameType, DatesOrNone
  <2>2. TypeOK'
    BY <1>1, <2>1 DEF LoadSave, TypeOK
  <2>3. OfferInv'
    BY <1>1, OfferKept DEF LoadSave
  <2> QED
    BY <2>2, <2>3
<1>2. ASSUME NEW d \in Dates, LoadDone(d) PROVE IInv'
  <2>1. game' \in GameType
    <3>1. d \in DatesOrNone
      BY SMT DEF Dates, DatesOrNone
    <3> QED
      BY <1>2, <3>1, GameFields DEF LoadDone, TypeOK
  <2>2. TypeOK'
    BY <1>2, <2>1 DEF LoadDone, TypeOK
  <2>3. OfferInv'
    BY <1>2, OfferKept DEF LoadDone
  <2> QED
    BY <2>2, <2>3
<1>3. CASE AdvanceDay
  <2>1. game' \in GameType /\ game.date + 1 \in DatesOrNone
    <3>1. game.date + 1 \in DatesOrNone
      BY <1>0, <1>3, SMT DEF AdvanceDay, DatesOrNone
    <3>2. game' = [game EXCEPT !.date = game.date + 1]
      BY <1>3 DEF AdvanceDay
    <3> QED
      BY <3>1, <3>2, GameFields DEF TypeOK
  <2>2. publication["hook"] \in EventType /\ "hook" \in Publishers
    BY DEF TypeOK, Publishers
  <2>3. [publication["hook"] EXCEPT !.date = game.date + 1] \in EventType
    BY <2>1, <2>2, EventFields
  <2>4. publication' = [publication EXCEPT !["hook"] =
                          [publication["hook"] EXCEPT !.date = game.date + 1]]
    BY <1>3 DEF AdvanceDay
  <2>5. publication' \in [Publishers -> EventType]
    BY <2>2, <2>3, <2>4, FunctionUpdate DEF TypeOK
  <2>6. /\ pc' \in [Publishers -> Labels]
        /\ pc'["consumer"] = pc["consumer"]
    BY <1>3, <2>2, ThreadStep, "accept" \in Labels DEF AdvanceDay, TypeOK, Publishers, Labels
  <2>7. TypeOK'
    BY <1>3, <2>1, <2>5, <2>6 DEF AdvanceDay, TypeOK
  <2>8. OfferInv'
    BY <1>3, <2>6, OfferKept DEF AdvanceDay
  <2> QED
    BY <2>7, <2>8
<1> QED
  BY <1>1, <1>2, <1>3 DEF FinishLoad

\* Publishing keeps the invariant.
LEMMA PublishStep ==
  ASSUME IInv, NEW p \in Publishers, Publish(p)
  PROVE  IInv'
<1> USE TickConsumerAssumption DEF IInv, ringVars, scopeVars, readerVars
<1>0. /\ game.save \in Saves /\ scope \in Saves
      /\ publication[p] \in EventType
      /\ publication[p].date \in DatesOrNone /\ publication[p].event \in Nat
      /\ pc \in [Publishers -> Labels]
  BY GameFields, EventFields DEF TypeOK
<1>z. 0 \in DatesOrNone
  BY SMT DEF DatesOrNone
<1>1. CASE Accept(p)
  <2>1. PICK to \in {"reserve", "idle", "peek"} : Goto(p, "accept", to)
    BY <1>1 DEF Accept
  <2>2. pc' \in [Publishers -> Labels]
    BY <1>0, <2>1, ThreadStep DEF Labels
  <2>3. lastPublished' \in DatesOrNone
    BY <1>0, <1>1, <1>z DEF Accept, PublishedInScope, TypeOK
  <2>4. TypeOK'
    BY <1>0, <1>1, <2>2, <2>3 DEF Accept, TypeOK
  <2>5. OfferInv'
    BY <1>1, <2>1, PublishKeepsOffer DEF Accept
  <2> QED
    BY <2>4, <2>5
<1>2. CASE Reserve(p)
  <2>1. pc' \in [Publishers -> Labels]
    BY <1>0, <1>2, ThreadStep DEF Reserve, Labels
  <2>2. [publication[p] EXCEPT !.event = writeCursor] \in EventType
    BY <1>0, EventFields DEF TypeOK
  <2>3. publication' \in [Publishers -> EventType]
    BY <1>2, <2>2, FunctionUpdate DEF Reserve, TypeOK
  <2>4. writeCursor' \in Nat /\ log' \in Seq(DatesOrNone)
    BY <1>0, <1>2 DEF Reserve, TypeOK
  <2>5. TypeOK'
    BY <1>2, <2>1, <2>3, <2>4 DEF Reserve, TypeOK
  <2>6. OfferInv'
    BY <1>2, PublishKeepsOffer DEF Reserve
  <2> QED
    BY <2>5, <2>6
<1>3. CASE WriteSlot(p)
  <2>1. pc' \in [Publishers -> Labels]
    BY <1>0, <1>3, ThreadStep DEF WriteSlot, Labels
  <2>2. ring' \in [0 .. RingSize - 1 -> DatesOrNone]
    BY <1>0, <1>3, FunctionUpdate DEF WriteSlot, TypeOK
  <2>3. TypeOK'
    BY <1>3, <2>1, <2>2 DEF WriteSlot, TypeOK
  <2>4. OfferInv'
    BY <1>3, PublishKeepsOffer DEF WriteSlot
  <2> QED
    BY <2>3, <2>4
<1>4. CASE Count(p)
  <2>1. PICK to \in {"idle", "peek"} : Goto(p, "count", to)
    BY <1>4 DEF Count
  <2>2. pc' \in [Publishers -> Labels]
    BY <1>0, <2>1, ThreadStep DEF Labels
  <2>3. published' \in Nat /\ publication' \in [Publishers -> EventType]
    BY <1>4, EventFields, FunctionUpdate DEF Count, TypeOK
  <2>4. TypeOK'
    BY <1>4, <2>2, <2>3 DEF Count, TypeOK
  <2>5. OfferInv'
    BY <1>4, <2>1, PublishKeepsOffer DEF Count
  <2> QED
    BY <2>4, <2>5
<1> QED
  BY <1>1, <1>2, <1>3, <1>4 DEF Publish

\* The slot the cursor points at holds a date.
LEMMA SlotDateType == TypeOK => SlotDate \in DatesOrNone
<1> SUFFICES ASSUME TypeOK PROVE SlotDate \in DatesOrNone
  OBVIOUS
<1>1. consumer.next \in Nat
  BY ConsumerFields DEF TypeOK
<1>2. consumer.next % RingSize \in 0 .. RingSize - 1
  BY <1>1, TickConsumerAssumption, SMT
<1> QED
  BY <1>2 DEF TypeOK, SlotDate

\* A moved-up cursor is still a number.
LEMMA CursorForType == TypeOK => CursorFor(published) \in Nat
<1> SUFFICES ASSUME TypeOK PROVE CursorFor(published) \in Nat
  OBVIOUS
<1>1. consumer.next \in Nat /\ published \in Nat
  BY ConsumerFields DEF TypeOK
<1> QED
  BY <1>1, TickConsumerAssumption, SMT DEF CursorFor

\* What every step of the consumer that touches only its own state keeps.
LEMMA ReaderTypes ==
  ASSUME TypeOK, UNCHANGED readerOnly,
         NEW from, NEW to \in Labels, Goto("consumer", from, to),
         consumer' \in ConsumerType, scan' \in EventType, visit' \in VisitType
  PROVE  TypeOK' /\ pc["consumer"] = from /\ pc'["consumer"] = to
<1>1. /\ pc' \in [Publishers -> Labels]
      /\ pc["consumer"] = from /\ pc'["consumer"] = to
  BY ThreadStep DEF TypeOK, Publishers
<1> QED
  BY <1>1 DEF TypeOK, readerOnly, scopeVars, ringVars

\* Steps of consumer_next that only move the cursor keep the offer.
LEMMA CursorStep ==
  ASSUME IInv, UNCHANGED readerOnly, UNCHANGED scan,
         NEW from \in Labels \ {"work", "idle"},
         NEW to \in Labels \ {"work", "enter"}, Goto("consumer", from, to),
         to \in {"scan", "scanSlot"} => from \in {"scan", "scanSlot"},
         NEW n \in Nat, consumer' = [consumer EXCEPT !.next = n],
         visit' \in VisitType
  PROVE  IInv'
<1>1. /\ consumer \in ConsumerType /\ scan \in EventType
      /\ consumer' \in ConsumerType
      /\ consumer'.last = consumer.last /\ consumer'.pending = consumer.pending
  BY ConsumerFields DEF IInv, TypeOK
<1>2. TypeOK' /\ pc["consumer"] = from /\ pc'["consumer"] = to
  BY <1>1, ReaderTypes DEF IInv
<1> QED
  BY <1>1, <1>2 DEF IInv, OfferInv

\* An offer changes nothing but the offer.
LEMMA OfferFields ==
  ASSUME consumer \in ConsumerType, NEW d \in DatesOrNone, NEW n \in Nat
  PROVE  /\ Offered(d, n) \in ConsumerType
         /\ Offered(d, n).save = consumer.save
         /\ Offered(d, n).last = consumer.last
         /\ Offered(d, n).pending = d
<1>1. /\ consumer.save \in Saves \cup {NoSave} /\ consumer.next \in Nat
      /\ consumer.last \in DatesOrNone /\ n + 1 \in Nat
      /\ consumer.coalesces \in BOOLEAN
  BY ConsumerFields
<1> QED
  BY <1>1 DEF Offered, ConsumerType

\* Every step of the consumer keeps the invariant.
LEMMA ConsumeStep ==
  ASSUME IInv, Consume
  PROVE  IInv'
<1> USE TickConsumerAssumption
<1>0. /\ TypeOK /\ OfferInv
      /\ consumer \in ConsumerType /\ scan \in EventType /\ visit \in VisitType
      /\ consumer.next \in Nat /\ consumer.sequence \in Nat
      /\ consumer.last \in DatesOrNone /\ consumer.pending \in DatesOrNone
      /\ consumer.next + 1 \in Nat
      /\ SlotDate \in DatesOrNone /\ CursorFor(published) \in Nat
      /\ published \in Nat
      /\ "consumer" \in Publishers /\ 0 \in DatesOrNone
      /\ pc \in [Publishers -> Labels]
      /\ [visit EXCEPT !.lapped = @ \/ Lapped] \in VisitType
  <2>1. Lapped \in BOOLEAN
    BY DEF Lapped
  <2>2. consumer \in ConsumerType /\ visit \in VisitType
    BY DEF IInv, TypeOK
  <2>3. consumer.next \in Nat
    BY <2>2, ConsumerFields
  <2>4. 0 \in DatesOrNone
    BY SMT DEF DatesOrNone
  <2> QED
    BY <2>1, <2>2, <2>3, <2>4, ConsumerFields, SlotDateType, CursorForType,
       VisitFields DEF IInv, TypeOK, Publishers
<1>1. CASE NextInSave
  <2>1. PICK to \in {"enter", "work", "peek"} :
           /\ Goto("consumer", "idle", to)
           /\ to = "work" <=> consumer.pending # 0
           /\ consumer.save = game.save
    BY <1>1 DEF NextInSave
  <2>2. UNCHANGED readerOnly /\ UNCHANGED readerVars
    BY <1>1 DEF NextInSave
  <2>3. TypeOK' /\ pc'["consumer"] = to
    BY <1>0, <2>1, <2>2, ReaderTypes DEF Labels, readerVars
  <2> QED
    BY <1>0, <2>1, <2>2, <2>3, GameFields DEF IInv, OfferInv, TypeOK, readerVars
<1>2. CASE NextInOtherSave
  <2>1. PICK next \in Nat :
           /\ consumer' = [save |-> game.save, next |-> next, last |-> 0,
                           pending |-> 0, sequence |-> 0,
                           coalesces |-> consumer.coalesces]
           /\ visit' = [from |-> next, taken |-> {}, lapped |-> FALSE]
    BY <1>0, <1>2 DEF NextInOtherSave
  <2>2. /\ consumer' \in ConsumerType
        /\ consumer'.pending = 0 /\ consumer'.save \in Saves
    BY <1>0, <2>1, GameFields DEF ConsumerType, TypeOK
  <2>3. visit' \in VisitType
    BY <2>1 DEF VisitType
  <2>4. TypeOK' /\ pc'["consumer"] = "enter"
    BY <1>0, <1>2, <2>2, <2>3, ReaderTypes DEF NextInOtherSave, Labels
  <2> QED
    BY <2>2, <2>4 DEF IInv, OfferInv
<1>3. CASE EnterScope
  <2>1. pc["consumer"] = "enter" /\ pc'["consumer"] = "today"
        /\ pc' \in [Publishers -> Labels]
    BY <1>0, <1>3, ThreadStep DEF EnterScope, Labels
  <2>2. lastPublished' \in DatesOrNone
    BY <1>0, <1>3 DEF EnterScope, TypeOK
  <2>5. scope' \in Saves
    BY <1>0, <1>3, <2>1 DEF EnterScope, OfferInv
  <2>3. TypeOK'
    BY <1>0, <1>3, <2>1, <2>2, <2>5 DEF EnterScope, TypeOK, ringVars, readerVars
  <2>4. OfferInv'
    BY <1>0, <1>3, <2>1 DEF EnterScope, OfferInv, readerVars
  <2> QED
    BY <2>3, <2>4 DEF IInv
<1>4. CASE ReadToday
  <2>1. PICK to \in {"peek", "accept"} : Goto("consumer", "today", to)
    BY <1>4 DEF ReadToday
  <2>2. pc["consumer"] = "today" /\ pc'["consumer"] = to
        /\ pc' \in [Publishers -> Labels]
    BY <1>0, <2>1, ThreadStep DEF Labels
  <2>3. [publication["consumer"] EXCEPT !.date = game.date] \in EventType
    BY <1>0, EventFields, GameFields DEF TypeOK
  <2>4. publication' \in [Publishers -> EventType]
    BY <1>0, <1>4, <2>3, FunctionUpdate DEF ReadToday, TypeOK
  <2>5. TypeOK'
    BY <1>0, <1>4, <2>2, <2>4 DEF ReadToday, TypeOK, ringVars, scopeVars, readerVars
  <2>6. OfferInv'
    BY <1>0, <1>4, <2>2 DEF ReadToday, OfferInv, readerVars
  <2> QED
    BY <2>5, <2>6 DEF IInv
<1>5. CASE PeekEmpty
  <2>1. pc["consumer"] = "peek"
    BY <1>5 DEF PeekEmpty, Goto
  <2>2. consumer' \in ConsumerType /\ consumer'.pending = 0
    BY <1>0, <1>5, <2>1, ConsumerFields DEF PeekEmpty, OfferInv
  <2>3. TypeOK' /\ pc'["consumer"] = "idle"
    BY <1>0, <1>5, <2>2, ReaderTypes DEF PeekEmpty, Labels
  <2> QED
    BY <2>2, <2>3 DEF IInv, OfferInv
<1>6. CASE Peek
  BY <1>0, <1>6, CursorStep DEF Peek, Labels
<1>7. CASE SkipSlot
  BY <1>0, <1>7, CursorStep DEF SkipSlot, Labels
<1>8. CASE TakeSlot
  <2>1. /\ consumer' = Offered(SlotDate, consumer.next)
        /\ SlotDate > consumer.last
    BY <1>8 DEF TakeSlot
  <2>2. /\ consumer' \in ConsumerType
        /\ consumer'.last = consumer.last /\ consumer'.pending = SlotDate
    BY <1>0, <2>1, OfferFields
  <2>3. TypeOK' /\ pc'["consumer"] = "work"
    BY <1>0, <1>8, <2>2, ReaderTypes DEF TakeSlot, Labels
  <2>4. SlotDate # 0
    BY <1>0, <2>1, SMT DEF DatesOrNone
  <2> QED
    BY <2>1, <2>2, <2>3, <2>4 DEF IInv, OfferInv
<1>9. CASE StartScan
  <2>1. /\ consumer' = [consumer EXCEPT !.next = consumer.next + 1]
        /\ scan' = [date |-> SlotDate, event |-> consumer.next]
        /\ SlotDate > consumer.last
        /\ pc["consumer"] = "slot"
    BY <1>9 DEF StartScan, Goto
  <2>2. /\ consumer' \in ConsumerType /\ consumer'.last = consumer.last
        /\ consumer'.pending = 0
    BY <1>0, <2>1, ConsumerFields DEF OfferInv
  <2>3. scan' \in EventType /\ scan'.date = SlotDate
    BY <1>0, <2>1 DEF EventType
  <2>4. TypeOK' /\ pc'["consumer"] = "scan"
    BY <1>0, <1>9, <2>2, <2>3, ReaderTypes DEF StartScan, Labels
  <2> QED
    BY <2>1, <2>2, <2>3, <2>4 DEF IInv, OfferInv
<1>10. CASE ScanPeek
  BY <1>0, <1>10, CursorStep DEF ScanPeek, Labels
<1>11. CASE ScanSlot
  <2>1. /\ consumer' = [consumer EXCEPT !.next = consumer.next + 1]
        /\ pc["consumer"] = "scanSlot"
        /\ \/ scan' = scan
           \/ /\ scan' = [date |-> SlotDate, event |-> consumer.next]
              /\ SlotDate > scan.date
    BY <1>11 DEF ScanSlot, Goto
  <2>2. /\ consumer' \in ConsumerType /\ consumer'.last = consumer.last
        /\ consumer'.pending = 0
    BY <1>0, <2>1, ConsumerFields DEF OfferInv
  <2>3. scan.date \in DatesOrNone /\ scan.date > consumer.last
    BY <1>0, <2>1, EventFields DEF OfferInv
  <2>4. scan' \in EventType
    BY <1>0, <2>1 DEF EventType
  <2>5. scan'.date > consumer.last
    BY <1>0, <2>1, <2>3, SMT DEF DatesOrNone
  <2>6. TypeOK' /\ pc'["consumer"] = "scan"
    BY <1>0, <1>11, <2>2, <2>4, ReaderTypes DEF ScanSlot, Labels
  <2> QED
    BY <2>2, <2>5, <2>6 DEF IInv, OfferInv
<1>12. CASE ScanEnd
  <2>1. /\ consumer' = Offered(scan.date, scan.event)
        /\ scan' = Nothing
        /\ pc["consumer"] = "scan"
    BY <1>12 DEF ScanEnd, Goto
  <2>2. /\ scan.date \in DatesOrNone /\ scan.date > consumer.last
        /\ scan.event \in Nat
    BY <1>0, <2>1, EventFields DEF OfferInv
  <2>3. /\ consumer' \in ConsumerType
        /\ consumer'.last = consumer.last /\ consumer'.pending = scan.date
    BY <1>0, <2>1, <2>2, OfferFields
  <2>4. TypeOK' /\ pc'["consumer"] = "work"
    BY <1>0, <1>12, <2>1, <2>3, EventFields, ReaderTypes DEF ScanEnd, Labels
  <2>5. scan.date # 0
    BY <1>0, <2>2, SMT DEF DatesOrNone
  <2> QED
    BY <2>2, <2>3, <2>4, <2>5 DEF IInv, OfferInv
<1>13. CASE WorkDone
  <2>1. PICK n \in Nat :
           consumer' = [save |-> consumer.save, next |-> n,
                        last |-> consumer.pending, pending |-> 0, sequence |-> 0,
                        coalesces |-> consumer.coalesces]
    BY <1>0, <1>13 DEF WorkDone
  <2>2. consumer' \in ConsumerType /\ consumer'.pending = 0
    BY <1>0, <2>1, ConsumerFields DEF ConsumerType
  <2>3. visit' \in VisitType
    <3>1. visit' = [visit EXCEPT !.taken = visit.taken \cup {consumer.pending}]
      BY <1>13 DEF WorkDone
    <3>2. visit.taken \cup {consumer.pending} \in SUBSET DatesOrNone
      BY <1>0, VisitFields
    <3> QED
      BY <1>0, <3>1, <3>2, VisitFields
  <2>4. TypeOK' /\ pc'["consumer"] = "idle"
    BY <1>0, <1>13, <2>2, <2>3, ReaderTypes DEF WorkDone, Labels
  <2> QED
    BY <2>2, <2>4 DEF IInv, OfferInv
<1>14. CASE WorkDeferred
  <2>1. pc'["consumer"] = "idle" /\ pc' \in [Publishers -> Labels]
    BY <1>0, <1>14, ThreadStep DEF WorkDeferred, Labels
  <2>2. game' \in GameType
    <3>1. game' = [game EXCEPT !.defers = game.defers + 1]
      BY <1>14 DEF WorkDeferred
    <3>2. game.defers + 1 \in Nat
      BY <1>0, GameFields DEF TypeOK
    <3> QED
      BY <1>0, <3>1, <3>2, GameFields DEF TypeOK
  <2>3. TypeOK'
    BY <1>0, <1>14, <2>1, <2>2
       DEF WorkDeferred, TypeOK, scopeVars, ringVars, readerVars
  <2>4. OfferInv'
    BY <1>0, <1>14, <2>1 DEF WorkDeferred, OfferInv, readerVars
  <2> QED
    BY <2>3, <2>4 DEF IInv
<1>15. CASE SkipToLatest
  <2>1. /\ consumer' = [save |-> consumer.save, next |-> published,
                        last |-> consumer.last, pending |-> 0, sequence |-> 0,
                        coalesces |-> consumer.coalesces]
        /\ visit' = [from |-> published, taken |-> {}, lapped |-> FALSE]
        /\ UNCHANGED <<scan, pc>> /\ UNCHANGED readerOnly
        /\ pc["consumer"] = "idle"
    BY <1>15 DEF SkipToLatest
  <2>2. consumer' \in ConsumerType /\ consumer'.pending = 0
    BY <1>0, <2>1, ConsumerFields DEF ConsumerType
  <2>3. visit' \in VisitType
    BY <1>0, <2>1 DEF VisitType
  <2>4. TypeOK'
    BY <1>0, <2>1, <2>2, <2>3 DEF TypeOK, readerOnly, scopeVars, ringVars
  <2> QED
    BY <2>1, <2>2, <2>4 DEF IInv, OfferInv
<1> QED
  BY <1>1, <1>2, <1>3, <1>4, <1>5, <1>6, <1>7, <1>8, <1>9, <1>10, <1>11,
     <1>12, <1>13, <1>14, <1>15 DEF Consume

\* The invariant is inductive.
LEMMA InvStep == IInv /\ [Next]_vars => IInv'
<1> SUFFICES ASSUME IInv, [Next]_vars PROVE IInv'
  OBVIOUS
<1>1. CASE UNCHANGED vars
  BY <1>1 DEF vars, IInv, TypeOK, OfferInv
<1>2. CASE Next
  BY <1>2, GameStep, PublishStep, ConsumeStep DEF Next
<1> QED
  BY <1>1, <1>2

\* The invariant holds in every reachable state.
LEMMA Invariant == Spec => []IInv
  BY InitInv, InvStep, PTL DEF Spec

\* The types of the ring, its two publishers and the consumer hold for every
\* ring size, set of saves and bound.
THEOREM ConsumerTypeCorrect == Spec => []TypeOK
<1>1. IInv => TypeOK
  BY DEF IInv
<1> QED
  BY <1>1, Invariant, PTL

\* A consumer starts without an offer.
LEMMA FeedInit == Init => Feed!Init
<1> SUFFICES ASSUME Init PROVE Feed!Init
  OBVIOUS
<1>1. IInv
  BY InitInv
<1>2. /\ consumer.save \in Saves \cup {NoSave} /\ consumer.last \in DatesOrNone
  BY <1>1, ConsumerFields DEF IInv, TypeOK
<1>3. consumer.pending = 0
  BY DEF Init
<1> QED
  BY <1>2, <1>3, SMT DEF Feed!Init, DatesOrNone

\* Every step enters a save, offers a later date, takes or withdraws the offered
\* one, or leaves the subsystem's view alone.
LEMMA FeedStep == IInv /\ [Next]_vars => [Feed!Next]_(Feed!feedVars)
<1> SUFFICES ASSUME IInv, [Next]_vars
             PROVE  Feed!Next \/ UNCHANGED Feed!feedVars
  OBVIOUS
<1>0. /\ consumer \in ConsumerType /\ scan \in EventType
      /\ consumer.last \in DatesOrNone /\ consumer.pending \in DatesOrNone
      /\ scan.date \in DatesOrNone /\ scan.event \in Nat
      /\ consumer.next \in Nat /\ consumer.sequence \in Nat
      /\ SlotDate \in DatesOrNone /\ CursorFor(published) \in Nat
      /\ published \in Nat /\ game.save \in Saves
  BY ConsumerFields, EventFields, GameFields, SlotDateType, CursorForType
     DEF IInv, TypeOK
<1>1. CASE UNCHANGED consumer
  BY <1>1 DEF Feed!feedVars
<1>2. ASSUME NEW n \in Nat, consumer' = [consumer EXCEPT !.next = n]
      PROVE  UNCHANGED Feed!feedVars
  BY <1>0, <1>2, ConsumerFields DEF Feed!feedVars
<1>3. ASSUME NEW d \in DatesOrNone, NEW n \in Nat,
             consumer' = Offered(d, n),
             d > consumer.last, pc["consumer"] \in {"slot", "scan"}
      PROVE  Feed!Offer
  <2>1. /\ consumer'.save = consumer.save /\ consumer'.last = consumer.last
        /\ consumer'.pending = d
    BY <1>0, <1>3, OfferFields
  <2>2. consumer.pending = 0
    BY <1>3 DEF IInv, OfferInv
  <2> QED
    BY <1>3, <2>1, <2>2, SMT DEF Feed!Offer, DatesOrNone
<1>4. CASE NextInOtherSave
  <2>1. /\ consumer'.save = game.save /\ consumer'.last = 0
        /\ consumer'.pending = 0 /\ game.save # consumer.save
    BY <1>4 DEF NextInOtherSave
  <2> QED
    BY <1>0, <2>1 DEF Feed!Enter, Feed!Next
<1>5. CASE WorkDone
  <2>1. PICK n \in Nat :
           consumer' = [save |-> consumer.save, next |-> n,
                        last |-> consumer.pending, pending |-> 0, sequence |-> 0,
                        coalesces |-> consumer.coalesces]
    BY <1>0, <1>5 DEF WorkDone
  <2>2. /\ consumer'.save = consumer.save /\ consumer'.last = consumer.pending
        /\ consumer'.pending = 0
    BY <2>1
  <2>3. consumer.pending # 0
    BY <1>5 DEF WorkDone, Goto, IInv, OfferInv
  <2> QED
    BY <2>2, <2>3 DEF Feed!Take, Feed!Next
<1>6. CASE TakeSlot
  BY <1>0, <1>3, <1>6 DEF TakeSlot, Goto, Feed!Next
<1>7. CASE ScanEnd
  <2>1. scan.date > consumer.last
    BY <1>7 DEF ScanEnd, Goto, IInv, OfferInv
  <2> QED
    BY <1>0, <1>3, <1>7, <2>1 DEF ScanEnd, Goto, Feed!Next
<1>8. CASE PeekEmpty \/ Peek \/ SkipSlot \/ StartScan \/ ScanPeek \/ ScanSlot
  BY <1>0, <1>2, <1>8 DEF PeekEmpty, Peek, SkipSlot, StartScan, ScanPeek, ScanSlot
<1>9. CASE NextInSave \/ EnterScope \/ ReadToday \/ WorkDeferred
  BY <1>1, <1>9 DEF NextInSave, EnterScope, ReadToday, WorkDeferred, readerVars
<1>10. CASE \/ \E s \in Saves : LoadSave(s)
            \/ FinishLoad \/ AdvanceDay \/ \E p \in Publishers : Publish(p)
  BY <1>1, <1>10 DEF LoadSave, FinishLoad, LoadDone, AdvanceDay, Publish,
     Accept, Reserve, WriteSlot, Count, readerVars
<1>11. CASE UNCHANGED vars
  BY <1>1, <1>11 DEF vars
<1>12. CASE SkipToLatest
  <2>1. /\ consumer'.save = consumer.save /\ consumer'.last = consumer.last
        /\ consumer'.pending = 0
    BY <1>12 DEF SkipToLatest
  <2> QED
    BY <2>1 DEF Feed!Withdraw, Feed!Next, Feed!feedVars
<1> QED
  BY <1>4, <1>5, <1>6, <1>7, <1>8, <1>9, <1>10, <1>11, <1>12 DEF Next, Consume

\* consumer_next and mark_processed keep the promise of DateFeed: one date at a
\* time, in order, never a date twice in a save, whatever the publishers do.
THEOREM ImplementsFeed == Spec => FeedSpec
<1>1. Spec => [][Feed!Next]_(Feed!feedVars)
  BY Invariant, FeedStep, PTL DEF Spec
<1> QED
  BY <1>1, FeedInit, PTL DEF Spec, FeedSpec, Feed!Spec
=============================================================================
