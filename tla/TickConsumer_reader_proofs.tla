--------------------- MODULE TickConsumer_reader_proofs ---------------------
(***************************************************************************)
(* What a date consumer of TickConsumer reads from the ring, for every set *)
(* of saves, ring size and bound: while the ring has not wrapped, it       *)
(* offers nothing of a save that was loaded before; and until the first    *)
(* load a consumer that is not switched off loses no day.                  *)
(***************************************************************************)
EXTENDS TickConsumer_proofs

(***************************************************************************)
(* Slots of the ring.                                                      *)
(***************************************************************************)

\* Every event has a slot, and the events before the first wrap their own.
LEMMA SlotOf ==
  ASSUME NEW e \in Nat
  PROVE  /\ e % RingSize \in 0 .. RingSize - 1
         /\ e < RingSize => e % RingSize = e
  BY TickConsumerAssumption

\* An event is a number of whole rings and its slot.
LEMMA Division ==
  ASSUME NEW R \in Nat \ {0}, NEW a \in Nat
  PROVE  a = R * (a \div R) + (a % R) /\ a \div R \in Int /\ a % R \in Int
  OBVIOUS

\* A multiple of a positive number is zero, negative or at least the number.
LEMMA Multiples ==
  ASSUME NEW R \in Nat \ {0}, NEW k \in Int
  PROVE  R * k <= 0 \/ R * k >= R
<1>1. CASE k <= 0
  BY <1>1
<1>2. CASE k >= 1
  <2>1. PICK j \in Nat : k = j + 1
    <3>1. k - 1 \in Nat /\ k = (k - 1) + 1
      BY <1>2
    <3> QED
      BY <3>1
  <2>2. R * k = R * j + R
    BY <2>1
  <2> QED
    BY <2>1, <2>2
<1> QED
  BY <1>1, <1>2

\* Two events less than a ring apart have different slots.
LEMMA SlotsDiffer ==
  ASSUME NEW a \in Nat, NEW b \in Nat, a < b, b - a < RingSize
  PROVE  a % RingSize # b % RingSize
<1> DEFINE R == RingSize
           q == b \div R
           p == a \div R
<1>0. R \in Nat \ {0}
  BY TickConsumerAssumption
<1>1. /\ a = R * p + (a % R) /\ b = R * q + (b % R)
      /\ p \in Int /\ q \in Int /\ a % R \in Int /\ b % R \in Int
  BY <1>0, Division
<1>2. R * q - R * p = R * (q - p) /\ q - p \in Int
  <2> HIDE DEF p, q, R
  <2> QED
    BY <1>0, <1>1
<1>3. R * (q - p) <= 0 \/ R * (q - p) >= R
  BY <1>0, <1>2, Multiples
<1>4. R * q \in Int /\ R * p \in Int /\ R * (q - p) \in Int
  BY <1>0, <1>1, <1>2
<1> SUFFICES ASSUME a % R = b % R PROVE FALSE
  OBVIOUS
<1>5. b - a = R * (q - p)
  <2> HIDE DEF p, q, R
  <2> QED
    BY <1>0, <1>1, <1>2, <1>4
<1>6. b - a > 0 /\ b - a < R
  OBVIOUS
<1> HIDE DEF p, q, R
<1> QED
  BY <1>0, <1>3, <1>4, <1>5, <1>6

(***************************************************************************)
(* While the ring has not wrapped: a slot is empty or holds its own date,  *)
(* and what the consumer offers was published since it entered its save.   *)
(***************************************************************************)
PublishedSince(d) == \E e \in visit.from .. Len(log) - 1 : log[e + 1] = d

CursorsInv ==
    /\ Len(log) = writeCursor
    /\ published <= writeCursor
    /\ pc["hook"] \in {"write", "count"} => published < writeCursor
    /\ pc["consumer"] \in {"write", "count"} => published < writeCursor
    /\ pc["hook"] \in {"write", "count"} /\ pc["consumer"] \in {"write", "count"} =>
         published < writeCursor - 1
    /\ \A p \in Publishers : pc[p] = "write" =>
         /\ publication[p].event < writeCursor
         /\ publication[p].date = log[publication[p].event + 1]
    /\ visit.from <= consumer.next /\ consumer.next <= published
    /\ pc["consumer"] \in {"slot", "scanSlot"} => consumer.next < published
    /\ pc["consumer"] \in {"scan", "scanSlot"} => scan.event < published
    /\ consumer.pending # 0 => consumer.sequence <= published

Unwrapped ==
    /\ \A i \in 0 .. RingSize - 1 :
         ring[i] # 0 => i < writeCursor /\ ring[i] = log[i + 1]
    /\ pc["consumer"] \in {"scan", "scanSlot"} => PublishedSince(scan.date)
    /\ consumer.pending # 0 => PublishedSince(consumer.pending)

WrapInv == CursorsInv /\ (writeCursor <= RingSize => Unwrapped)
WrapIInv == IInv /\ WrapInv

\* The fields of the values the invariant speaks of.
LEMMA ReaderFields ==
  ASSUME TypeOK
  PROVE  /\ consumer.next \in Nat /\ consumer.sequence \in Nat
         /\ consumer.last \in DatesOrNone /\ consumer.pending \in DatesOrNone
         /\ consumer.coalesces \in BOOLEAN
         /\ scan.date \in DatesOrNone /\ scan.event \in Nat
         /\ visit.from \in Nat /\ visit.lapped \in BOOLEAN
         /\ visit.taken \subseteq DatesOrNone
         /\ writeCursor \in Nat /\ published \in Nat
         /\ SlotDate \in DatesOrNone /\ CursorFor(published) \in Nat
         /\ \A p \in Publishers : /\ publication[p].date \in DatesOrNone
                                  /\ publication[p].event \in Nat
<1>1. visit.from \in Nat /\ visit.lapped \in BOOLEAN
  BY DEF TypeOK, VisitType
<1> QED
  BY <1>1, ConsumerFields, EventFields, VisitFields, SlotDateType, CursorForType
     DEF TypeOK

\* Dates are numbers.
LEMMA DatesAreNumbers == DatesOrNone \subseteq Nat
  BY TickConsumerAssumption DEF DatesOrNone

\* The log of a reservation.
LEMMA LogGrows ==
  ASSUME log \in Seq(DatesOrNone), NEW d \in DatesOrNone, log' = Append(log, d)
  PROVE  /\ Len(log) \in Nat /\ Len(log') = Len(log) + 1
         /\ log'[Len(log) + 1] = d
         /\ \A i \in 1 .. Len(log) : log'[i] = log[i]
  OBVIOUS

\* A cursor that is moved up stays behind the count.
LEMMA CursorMovesUp ==
  ASSUME TypeOK, consumer.next < published
  PROVE  /\ consumer.next <= CursorFor(published)
         /\ CursorFor(published) < published
         /\ published - consumer.next <= RingSize =>
              CursorFor(published) = consumer.next
  BY ReaderFields, TickConsumerAssumption DEF CursorFor

LEMMA WrapInit == Init => WrapInv
<1> SUFFICES ASSUME Init PROVE WrapInv
  OBVIOUS
<1>1. /\ consumer.next = 1 /\ consumer.pending = 0 /\ visit.from = 1
      /\ pc = [p \in Publishers |-> "idle"]
      /\ log = <<1>> /\ writeCursor = 1 /\ published = 1
      /\ ring = [i \in 0 .. RingSize - 1 |-> IF i = 0 THEN 1 ELSE 0]
  BY DEF Init
<1>2. pc["hook"] = "idle" /\ pc["consumer"] = "idle"
      /\ \A p \in Publishers : pc[p] = "idle"
  BY <1>1 DEF Publishers
<1>3. Len(log) = 1 /\ log[1] = 1
  BY <1>1
<1>4. CursorsInv
  BY <1>1, <1>2, <1>3, SMT DEF CursorsInv
<1>5. Unwrapped
  BY <1>1, <1>2, <1>3 DEF Unwrapped
<1> QED
  BY <1>4, <1>5 DEF WrapInv

\* What neither reserves nor writes, and keeps the reader where it is, keeps
\* the invariant.
LEMMA WrapKept ==
  ASSUME WrapIInv, NEW p \in Publishers, NEW from, NEW to \in Labels,
         from \notin {"write", "count", "slot", "scan", "scanSlot"},
         to \notin {"write", "count", "slot", "scan", "scanSlot"},
         Goto(p, from, to), UNCHANGED ringVars, UNCHANGED readerVars,
         \A q \in Publishers \ {p} : publication'[q] = publication[q]
  PROVE  WrapInv'
<1>1. /\ pc[p] = from /\ pc'[p] = to
      /\ \A q \in Publishers \ {p} : pc'[q] = pc[q]
  BY ThreadStep DEF WrapIInv, IInv, TypeOK
<1>2. \A q \in Publishers, l \in {"write", "count", "slot", "scan", "scanSlot"} :
        pc'[q] = l => pc[q] = l /\ q # p
  BY <1>1
<1>3. "hook" \in Publishers /\ "consumer" \in Publishers
  BY DEF Publishers
<1>4. CursorsInv'
  BY <1>2, <1>3 DEF WrapIInv, WrapInv, CursorsInv, ringVars, readerVars
<1>5. ASSUME writeCursor <= RingSize, Unwrapped PROVE Unwrapped'
  BY <1>2, <1>3, <1>5 DEF Unwrapped, PublishedSince, ringVars, readerVars
<1> QED
  BY <1>4, <1>5 DEF WrapIInv, WrapInv, ringVars

LEMMA WrapReserve ==
  ASSUME WrapIInv, NEW p \in Publishers, Reserve(p)
  PROVE  WrapInv'
<1>0. /\ TypeOK /\ OfferInv /\ CursorsInv
      /\ publication[p].date \in DatesOrNone /\ log \in Seq(DatesOrNone)
      /\ writeCursor \in Nat /\ published \in Nat /\ writeCursor = Len(log)
      /\ visit.from \in Nat
      /\ "hook" \in Publishers /\ "consumer" \in Publishers
  BY ReaderFields DEF WrapIInv, IInv, TypeOK, WrapInv, CursorsInv, Publishers
<1>1. /\ pc[p] = "reserve" /\ pc'[p] = "write"
      /\ \A q \in Publishers \ {p} : pc'[q] = pc[q]
  BY <1>0, ThreadStep DEF Reserve, TypeOK, Labels
<1>2. /\ publication'[p].event = writeCursor
      /\ publication'[p].date = publication[p].date
      /\ \A q \in Publishers \ {p} : publication'[q] = publication[q]
  BY <1>0 DEF Reserve, TypeOK, EventType
<1>3. /\ Len(log') = writeCursor + 1 /\ log'[writeCursor + 1] = publication[p].date
      /\ \A i \in 1 .. writeCursor : log'[i] = log[i]
      /\ writeCursor' = writeCursor + 1
  BY <1>0, LogGrows DEF Reserve
<1>4. UNCHANGED <<published, ring, consumer, scan, visit>>
  BY DEF Reserve, readerVars
<1>5. CursorsInv'
  <2>1. ASSUME NEW q \in Publishers, pc'[q] = "write"
        PROVE  /\ publication'[q].event < writeCursor'
               /\ publication'[q].date = log'[publication'[q].event + 1]
    <3>1. CASE q = p
      BY <1>0, <1>2, <1>3, <3>1
    <3>2. CASE q # p
      <4>1. /\ publication'[q] = publication[q] /\ publication[q].event \in Nat
            /\ publication[q].event < writeCursor
            /\ publication[q].date = log[publication[q].event + 1]
        BY <1>0, <1>1, <1>2, <2>1, <3>2, ReaderFields DEF CursorsInv
      <4>2. publication[q].event + 1 \in 1 .. writeCursor
        BY <1>0, <4>1
      <4> QED
        BY <1>0, <1>3, <4>1, <4>2
    <3> QED
      BY <3>1, <3>2
  <2> QED
    BY <1>0, <1>1, <1>3, <1>4, <2>1 DEF CursorsInv
<1>6. ASSUME NEW d, PublishedSince(d)
      PROVE  \E e \in visit'.from .. Len(log') - 1 : log'[e + 1] = d
  <2>1. PICK e \in visit.from .. Len(log) - 1 : log[e + 1] = d
    BY <1>6 DEF PublishedSince
  <2>2. e \in visit.from .. Len(log') - 1 /\ e + 1 \in 1 .. writeCursor
    BY <1>0, <1>3, <2>1
  <2> QED
    BY <1>3, <1>4, <2>1, <2>2
<1>7. ASSUME writeCursor' <= RingSize PROVE Unwrapped'
  <2>1. Unwrapped
    BY <1>0, <1>3, <1>7, TickConsumerAssumption DEF WrapIInv, WrapInv
  <2>2. ASSUME NEW i \in 0 .. RingSize - 1, ring[i] # 0
        PROVE  i < writeCursor' /\ ring[i] = log'[i + 1]
    BY <1>0, <1>3, <2>1, <2>2, TickConsumerAssumption DEF Unwrapped
  <2>3. pc'["consumer"] \in {"scan", "scanSlot"} => PublishedSince(scan.date)'
    <3>1. pc'["consumer"] \in {"scan", "scanSlot"} => pc["consumer"] \in {"scan", "scanSlot"}
      BY <1>0, <1>1
    <3> QED
      BY <1>4, <1>6, <2>1, <3>1 DEF Unwrapped, PublishedSince
  <2>4. consumer.pending # 0 => PublishedSince(consumer.pending)'
    BY <1>4, <1>6, <2>1 DEF Unwrapped, PublishedSince
  <2> QED
    BY <1>4, <2>2, <2>3, <2>4 DEF Unwrapped, PublishedSince
<1> QED
  BY <1>5, <1>7 DEF WrapInv

LEMMA WrapWrite ==
  ASSUME WrapIInv, NEW p \in Publishers, WriteSlot(p)
  PROVE  WrapInv'
<1>0. /\ TypeOK /\ OfferInv /\ CursorsInv
      /\ publication[p].date \in DatesOrNone /\ publication[p].event \in Nat
      /\ writeCursor \in Nat /\ published \in Nat
      /\ "hook" \in Publishers /\ "consumer" \in Publishers
  BY ReaderFields DEF WrapIInv, IInv, WrapInv, Publishers
<1>1. /\ pc[p] = "write" /\ pc'[p] = "count"
      /\ \A q \in Publishers \ {p} : pc'[q] = pc[q]
  BY <1>0, ThreadStep DEF WriteSlot, TypeOK, Labels
<1>2. /\ UNCHANGED <<published, writeCursor, log, publication, consumer, scan, visit>>
      /\ ring' = [ring EXCEPT ![publication[p].event % RingSize] = publication[p].date]
  BY DEF WriteSlot, readerVars
<1>3. CursorsInv'
  BY <1>0, <1>1, <1>2 DEF CursorsInv
<1>4. ASSUME writeCursor <= RingSize PROVE Unwrapped'
  <2>1. Unwrapped
    BY <1>4 DEF WrapIInv, WrapInv
  <2>2. /\ publication[p].event < writeCursor
        /\ publication[p].date = log[publication[p].event + 1]
    BY <1>0, <1>1 DEF CursorsInv
  <2>3. publication[p].event % RingSize = publication[p].event
    BY <1>0, <1>4, <2>2, SlotOf, TickConsumerAssumption
  <2>4. ASSUME NEW i \in 0 .. RingSize - 1, ring'[i] # 0
        PROVE  i < writeCursor /\ ring'[i] = log[i + 1]
    BY <1>0, <1>2, <2>1, <2>2, <2>3, <2>4 DEF Unwrapped, TypeOK
  <2> QED
    BY <1>0, <1>1, <1>2, <2>1, <2>4 DEF Unwrapped, PublishedSince
<1> QED
  BY <1>2, <1>3, <1>4 DEF WrapInv

LEMMA WrapCount ==
  ASSUME WrapIInv, NEW p \in Publishers, Count(p)
  PROVE  WrapInv'
<1>0. /\ TypeOK /\ OfferInv /\ CursorsInv
      /\ writeCursor \in Nat /\ published \in Nat
      /\ visit.from \in Nat
      /\ "hook" \in Publishers /\ "consumer" \in Publishers
      /\ consumer.next \in Nat
  BY ReaderFields DEF WrapIInv, IInv, WrapInv, Publishers
<1>1. PICK to \in {"idle", "peek"} : Goto(p, "count", to)
  BY DEF Count
<1>2. /\ pc[p] = "count" /\ pc'[p] = to
      /\ \A q \in Publishers \ {p} : pc'[q] = pc[q]
  BY <1>0, <1>1, ThreadStep DEF TypeOK, Labels
<1>3. /\ UNCHANGED <<writeCursor, ring, log, consumer, scan, visit>>
      /\ published' = published + 1
      /\ \A q \in Publishers \ {p} : publication'[q] = publication[q]
  BY <1>0 DEF Count, readerVars, TypeOK
<1>4. \A q \in Publishers : pc'[q] = "write" =>
         /\ publication'[q].event < writeCursor'
         /\ publication'[q].date = log'[publication'[q].event + 1]
  BY <1>0, <1>2, <1>3 DEF CursorsInv
<1>6. published + 1 <= writeCursor
  BY <1>0, <1>2 DEF CursorsInv, Publishers
<1>7. \A q \in Publishers : pc'[q] \in {"write", "count"} => published + 1 < writeCursor
  BY <1>0, <1>2, SMT DEF CursorsInv, Publishers
<1>8. ~(pc'["hook"] \in {"write", "count"} /\ pc'["consumer"] \in {"write", "count"})
  BY <1>0, <1>2 DEF Publishers
<1>9. visit.from <= consumer.next /\ consumer.next <= published + 1
  BY <1>0 DEF CursorsInv
<1>10. /\ pc'["consumer"] \in {"slot", "scanSlot"} => consumer.next < published + 1
       /\ pc'["consumer"] \in {"scan", "scanSlot"} => scan.event < published + 1
       /\ consumer.pending # 0 => consumer.sequence <= published + 1
  <2>1. scan.event \in Nat /\ consumer.sequence \in Nat
    BY <1>0, ReaderFields
  <2> QED
    BY <1>0, <1>2, <2>1 DEF CursorsInv
<1>5. CursorsInv'
  BY <1>0, <1>3, <1>4, <1>6, <1>7, <1>8, <1>9, <1>10 DEF CursorsInv
<1>11. ASSUME Unwrapped PROVE Unwrapped'
  BY <1>0, <1>2, <1>3, <1>11 DEF Unwrapped, PublishedSince
<1> QED
  BY <1>3, <1>5, <1>11 DEF WrapInv, WrapIInv

\* A step that only the reader makes keeps the invariant, if its cursor stays
\* in range and what it selects or offers was published since it came here.
LEMMA WrapReads ==
  ASSUME WrapIInv, UNCHANGED <<ringVars, publication>>,
         NEW from \in Labels, NEW to \in Labels \ {"write", "count"},
         pc["consumer"] = from, pc' = [pc EXCEPT !["consumer"] = to],
         visit'.from <= consumer'.next, consumer'.next <= published,
         to \in {"slot", "scanSlot"} => consumer'.next < published,
         to \in {"scan", "scanSlot"} => scan'.event < published,
         consumer'.pending # 0 => consumer'.sequence <= published,
         writeCursor <= RingSize /\ Unwrapped =>
           /\ to \in {"scan", "scanSlot"} => PublishedSince(scan.date)'
           /\ consumer'.pending # 0 => PublishedSince(consumer.pending)'
  PROVE  WrapInv'
<1>0. /\ TypeOK /\ CursorsInv
      /\ "hook" \in Publishers /\ "consumer" \in Publishers
  BY DEF WrapIInv, IInv, WrapInv, Publishers
<1>1. /\ pc'["consumer"] = to /\ pc'["hook"] = pc["hook"]
      /\ \A q \in Publishers : pc'[q] = "write" => pc[q] = "write"
  BY <1>0 DEF TypeOK
<1>2. CursorsInv'
  BY <1>0, <1>1 DEF CursorsInv, ringVars
<1>3. ASSUME writeCursor <= RingSize PROVE Unwrapped'
  BY <1>1, <1>3 DEF Unwrapped, WrapIInv, WrapInv, ringVars
<1> QED
  BY <1>2, <1>3 DEF WrapInv, ringVars

\* While the ring has not wrapped, a date read from it is the one reserved for
\* the event under the cursor.
LEMMA SlotIsPublished ==
  ASSUME WrapIInv, writeCursor <= RingSize, Unwrapped,
         pc["consumer"] \in {"slot", "scanSlot"}, SlotDate # 0
  PROVE  PublishedSince(SlotDate)
<1>1. /\ consumer.next \in Nat /\ writeCursor \in Nat /\ published \in Nat
      /\ visit.from \in Nat
      /\ consumer.next < published /\ published <= writeCursor
      /\ visit.from <= consumer.next /\ Len(log) = writeCursor
  BY ReaderFields DEF WrapIInv, IInv, WrapInv, CursorsInv
<1>2. consumer.next % RingSize = consumer.next
      /\ consumer.next \in 0 .. RingSize - 1
  <2>1. RingSize \in Nat
    BY TickConsumerAssumption
  <2>2. consumer.next < RingSize
    BY <1>1, <2>1
  <2> QED
    BY <1>1, <2>1, <2>2, SlotOf
<1>3. SlotDate = log[consumer.next + 1]
  BY <1>2 DEF SlotDate, Unwrapped
<1>4. consumer.next \in visit.from .. Len(log) - 1
  BY <1>1
<1> QED
  BY <1>3, <1>4 DEF PublishedSince

\* The game's actions and the first half of a publication keep the invariant.
LEMMA WrapGame ==
  ASSUME WrapIInv,
         \/ \E s \in Saves : LoadSave(s)
         \/ FinishLoad
         \/ AdvanceDay
  PROVE  WrapInv'
<1>1. ASSUME UNCHANGED <<ringVars, publication, readerVars, pc>> PROVE WrapInv'
  BY <1>1 DEF WrapIInv, WrapInv, CursorsInv, Unwrapped, PublishedSince, ringVars,
              readerVars
<1>2. CASE AdvanceDay
  <2>1. publication \in [Publishers -> EventType] /\ "hook" \in Publishers
    BY DEF WrapIInv, IInv, TypeOK, Publishers
  <2>2. \A q \in Publishers \ {"hook"} : publication'[q] = publication[q]
    BY <1>2, <2>1 DEF AdvanceDay
  <2> QED
    BY <1>2, <2>1, <2>2, WrapKept DEF AdvanceDay, Labels
<1> QED
  BY <1>1, <1>2 DEF LoadSave, FinishLoad, LoadDone

LEMMA WrapPublish ==
  ASSUME WrapIInv, NEW p \in Publishers, Publish(p)
  PROVE  WrapInv'
<1>1. CASE Accept(p)
  <2>1. PICK to \in {"reserve", "idle", "peek"} : Goto(p, "accept", to)
    BY <1>1 DEF Accept
  <2> QED
    BY <1>1, <2>1, WrapKept DEF Accept, Labels
<1> QED
  BY <1>1, WrapReserve, WrapWrite, WrapCount DEF Publish

LEMMA WrapConsume ==
  ASSUME WrapIInv, Consume
  PROVE  WrapInv'
<1>0. /\ TypeOK /\ OfferInv /\ CursorsInv
      /\ "hook" \in Publishers /\ "consumer" \in Publishers
      /\ consumer.next \in Nat /\ consumer.sequence \in Nat
      /\ published \in Nat /\ scan.event \in Nat
      /\ visit.from \in Nat /\ visit.from <= consumer.next
      /\ consumer.next <= published
      /\ SlotDate \in Nat /\ consumer.last \in Nat /\ scan.date \in Nat
      /\ consumer \in ConsumerType /\ visit \in VisitType /\ scan \in EventType
      /\ consumer.pending \in DatesOrNone
      /\ 0 \in DatesOrNone
  BY ReaderFields, DatesAreNumbers, TickConsumerAssumption
     DEF WrapIInv, IInv, WrapInv, CursorsInv, Publishers, TypeOK, DatesOrNone
<1>e. ASSUME NEW b \in BOOLEAN, visit' = [visit EXCEPT !.lapped = @ \/ b]
      PROVE  visit'.from = visit.from
  BY <1>0, <1>e DEF VisitType
<1>l. Lapped \in BOOLEAN
  BY DEF Lapped
<1>n. ASSUME NEW n \in Nat, consumer' = [consumer EXCEPT !.next = n]
      PROVE  /\ consumer'.next = n /\ consumer'.pending = consumer.pending
             /\ consumer'.sequence = consumer.sequence
  BY <1>0, <1>n DEF ConsumerType
<1>s. ASSUME NEW d, visit'.from = visit.from, UNCHANGED log, PublishedSince(d)
      PROVE  \E e \in visit'.from .. Len(log') - 1 : log'[e + 1] = d
  BY <1>s DEF PublishedSince
<1>1. CASE NextInSave
  <2>1. PICK to \in {"enter", "work", "peek"} : Goto("consumer", "idle", to)
    BY <1>1 DEF NextInSave
  <2> QED
    BY <1>0, <1>1, <2>1, WrapKept DEF NextInSave, readerOnly, Labels
<1>2. CASE NextInOtherSave
  <2>1. PICK next \in Nat :
           /\ next <= published
           /\ consumer' = [save |-> game.save, next |-> next, last |-> 0,
                           pending |-> 0, sequence |-> 0,
                           coalesces |-> consumer.coalesces]
           /\ visit' = [from |-> next, taken |-> {}, lapped |-> FALSE]
    <3>1. CASE consumer.save = NoSave
      BY <1>0, <1>2, <3>1 DEF NextInOtherSave
    <3>2. CASE consumer.save # NoSave
      <4>1. /\ consumer' = [save |-> game.save, next |-> published, last |-> 0,
                            pending |-> 0, sequence |-> 0,
                            coalesces |-> consumer.coalesces]
            /\ visit' = [from |-> published, taken |-> {}, lapped |-> FALSE]
        BY <1>2, <3>2 DEF NextInOtherSave
      <4>2. published \in Nat /\ published <= published
        BY <1>0
      <4> QED
        BY <4>1, <4>2
    <3> QED
      BY <3>1, <3>2
  <2>2. /\ consumer'.next = next /\ visit'.from = next /\ consumer'.pending = 0
        /\ visit'.from <= consumer'.next
    BY <2>1
  <2> QED
    BY <1>0, <1>2, <2>1, <2>2, WrapReads DEF NextInOtherSave, readerOnly, Goto, Labels
<1>3. CASE EnterScope
  BY <1>0, <1>3, WrapKept DEF EnterScope, Labels
<1>4. CASE ReadToday
  <2>1. PICK to \in {"peek", "accept"} : Goto("consumer", "today", to)
    BY <1>4 DEF ReadToday
  <2>2. \A q \in Publishers \ {"consumer"} : publication'[q] = publication[q]
    BY <1>0, <1>4 DEF ReadToday, TypeOK
  <2> QED
    BY <1>0, <1>4, <2>1, <2>2, WrapKept DEF ReadToday, Labels
<1>5. CASE PeekEmpty
  <2>1. /\ consumer'.next = published /\ consumer'.pending = consumer.pending
    BY <1>0, <1>5, <1>n DEF PeekEmpty
  <2>2. consumer.pending = 0
    BY <1>0, <1>5 DEF PeekEmpty, Goto, OfferInv
  <2>3. visit'.from <= consumer'.next /\ consumer'.next <= published
    BY <1>0, <1>5, <2>1 DEF PeekEmpty
  <2> QED
    BY <1>5, <2>1, <2>2, <2>3, WrapReads DEF PeekEmpty, readerOnly, Goto, Labels
<1>6. CASE Peek
  <2>1. /\ consumer.next <= CursorFor(published) /\ CursorFor(published) < published
        /\ CursorFor(published) \in Nat
    BY <1>0, <1>6, CursorMovesUp, CursorForType DEF Peek
  <2>2. /\ consumer'.next = CursorFor(published)
        /\ consumer'.pending = consumer.pending
        /\ visit'.from = visit.from
    BY <1>6, <1>e, <1>l, <1>n, <2>1 DEF Peek
  <2>3. consumer.pending = 0
        /\ visit'.from <= consumer'.next /\ consumer'.next <= published
    BY <1>0, <1>6, <2>1, <2>2 DEF Peek, Goto, OfferInv
  <2> QED
    BY <1>6, <2>1, <2>2, <2>3, WrapReads DEF Peek, readerOnly, Goto, Labels
<1>7. CASE SkipSlot
  <2>1. /\ consumer'.next = consumer.next + 1
        /\ consumer'.pending = consumer.pending
        /\ visit'.from = visit.from
    BY <1>0, <1>7, <1>e, <1>l, <1>n DEF SkipSlot
  <2>2. consumer.pending = 0 /\ consumer.next < published
    BY <1>0, <1>7 DEF SkipSlot, Goto, OfferInv, CursorsInv
  <2>3. visit'.from <= consumer'.next /\ consumer'.next <= published
    BY <1>0, <2>1, <2>2
  <2> QED
    BY <1>0, <1>7, <2>1, <2>2, <2>3, WrapReads DEF SkipSlot, readerOnly, Goto, Labels
<1>8. CASE TakeSlot
  <2>1. /\ consumer' = Offered(SlotDate, consumer.next)
        /\ SlotDate > consumer.last /\ pc["consumer"] = "slot"
    BY <1>8 DEF TakeSlot, Goto
  <2>2. /\ consumer'.next = consumer.next /\ consumer'.pending = SlotDate
        /\ consumer'.sequence = consumer.next + 1
        /\ visit'.from = visit.from
    BY <1>8, <1>e, <1>l, <2>1 DEF TakeSlot, Offered
  <2>3. consumer.next + 1 <= published /\ SlotDate # 0
    BY <1>0, <2>1 DEF CursorsInv
  <2>4. ASSUME writeCursor <= RingSize, Unwrapped
        PROVE  PublishedSince(consumer.pending)'
    <3>1. PublishedSince(SlotDate)
      BY <2>1, <2>3, <2>4, SlotIsPublished
    <3> QED
      BY <1>8, <1>s, <2>2, <3>1 DEF TakeSlot, readerOnly, ringVars, PublishedSince
  <2> QED
    BY <1>0, <1>8, <2>2, <2>3, <2>4, WrapReads DEF TakeSlot, readerOnly, Goto, Labels
<1>9. CASE StartScan
  <2>1. /\ consumer'.next = consumer.next + 1 /\ consumer'.pending = consumer.pending
        /\ scan' = [date |-> SlotDate, event |-> consumer.next]
        /\ SlotDate > consumer.last /\ pc["consumer"] = "slot"
        /\ visit'.from = visit.from
    BY <1>0, <1>9, <1>e, <1>l, <1>n DEF StartScan, Goto
  <2>2. /\ consumer.next < published /\ SlotDate # 0 /\ consumer.pending = 0
        /\ consumer.next + 1 <= published
        /\ visit'.from <= consumer'.next
    BY <1>0, <2>1 DEF CursorsInv, OfferInv
  <2>3. scan'.date = SlotDate /\ scan'.event = consumer.next
    BY <2>1
  <2>4. ASSUME writeCursor <= RingSize, Unwrapped
        PROVE  PublishedSince(scan.date)'
    <3>1. PublishedSince(SlotDate)
      BY <2>1, <2>2, <2>4, SlotIsPublished
    <3> QED
      BY <1>9, <1>s, <2>1, <2>3, <3>1 DEF StartScan, readerOnly, ringVars, PublishedSince
  <2> QED
    BY <1>0, <1>9, <2>1, <2>2, <2>3, <2>4, WrapReads
       DEF StartScan, readerOnly, Goto, Labels
<1>10. CASE ScanPeek
  <2>1. /\ consumer.next <= CursorFor(published) /\ CursorFor(published) < published
        /\ CursorFor(published) \in Nat
    BY <1>0, <1>10, CursorMovesUp, CursorForType DEF ScanPeek
  <2>2. /\ consumer'.next = CursorFor(published)
        /\ consumer'.pending = consumer.pending
        /\ visit'.from = visit.from
    BY <1>10, <1>e, <1>l, <1>n, <2>1 DEF ScanPeek
  <2>3. consumer.pending = 0
        /\ visit'.from <= consumer'.next /\ consumer'.next <= published
        /\ scan' = scan /\ scan'.event < published
    BY <1>0, <1>10, <2>1, <2>2 DEF ScanPeek, Goto, OfferInv, CursorsInv
  <2>4. ASSUME writeCursor <= RingSize, Unwrapped
        PROVE  PublishedSince(scan.date)'
    <3>1. PublishedSince(scan.date)
      BY <1>10, <2>4 DEF Unwrapped, ScanPeek, Goto
    <3> QED
      BY <1>10, <1>s, <2>2, <3>1 DEF ScanPeek, readerOnly, ringVars, PublishedSince
  <2> QED
    BY <1>10, <2>1, <2>2, <2>3, <2>4, WrapReads
       DEF ScanPeek, readerOnly, Goto, Labels
<1>11. CASE ScanSlot
  <2>1. /\ consumer'.next = consumer.next + 1 /\ consumer'.pending = consumer.pending
        /\ \/ scan' = scan
           \/ /\ scan' = [date |-> SlotDate, event |-> consumer.next]
              /\ SlotDate > scan.date
        /\ pc["consumer"] = "scanSlot"
        /\ visit'.from = visit.from
    BY <1>0, <1>11, <1>e, <1>l, <1>n DEF ScanSlot, Goto
  <2>2. /\ consumer.next < published /\ consumer.pending = 0
        /\ consumer.next + 1 <= published
        /\ visit'.from <= consumer'.next
    BY <1>0, <2>1 DEF CursorsInv, OfferInv
  <2>3. /\ scan'.event < published
        /\ \/ scan'.date = scan.date
           \/ scan'.date = SlotDate /\ SlotDate # 0
    <3>1. CASE scan' = scan
      BY <1>0, <2>1, <3>1 DEF CursorsInv
    <3>2. CASE scan' = [date |-> SlotDate, event |-> consumer.next] /\ SlotDate > scan.date
      BY <1>0, <2>2, <3>2
    <3> QED
      BY <2>1, <3>1, <3>2
  <2>4. ASSUME writeCursor <= RingSize, Unwrapped
        PROVE  PublishedSince(scan.date)'
    <3>1. PublishedSince(scan.date) /\ (SlotDate # 0 => PublishedSince(SlotDate))
      BY <2>1, <2>4, SlotIsPublished DEF Unwrapped
    <3>2. UNCHANGED log
      BY <1>11 DEF ScanSlot, readerOnly, ringVars
    <3> QED
      BY <1>s, <2>1, <2>3, <3>1, <3>2 DEF PublishedSince
  <2> QED
    BY <1>0, <1>11, <2>1, <2>2, <2>3, <2>4, WrapReads
       DEF ScanSlot, readerOnly, Goto, Labels
<1>12. CASE ScanEnd
  <2>1. /\ consumer'.next = consumer.next /\ consumer'.pending = scan.date
        /\ consumer'.sequence = scan.event + 1
        /\ pc["consumer"] = "scan" /\ visit' = visit
    BY <1>12 DEF ScanEnd, Goto, Offered
  <2>2. scan.event + 1 <= published
    BY <1>0, <2>1 DEF CursorsInv
  <2>4. ASSUME writeCursor <= RingSize, Unwrapped
        PROVE  PublishedSince(consumer.pending)'
    <3>1. PublishedSince(scan.date)
      BY <2>1, <2>4 DEF Unwrapped
    <3> QED
      BY <1>12, <1>s, <2>1, <3>1 DEF ScanEnd, readerOnly, ringVars, PublishedSince
  <2> QED
    BY <1>0, <1>12, <2>1, <2>2, <2>4, WrapReads DEF ScanEnd, readerOnly, Goto, Labels
<1>13. CASE WorkDone
  <2>1. /\ consumer'.next = IF consumer.next < consumer.sequence
                              THEN consumer.sequence ELSE consumer.next
        /\ consumer'.pending = 0 /\ pc["consumer"] = "work"
    BY <1>13 DEF WorkDone, Goto
  <2>2. visit'.from = visit.from
    BY <1>0, <1>13 DEF WorkDone, VisitType
  <2>3. consumer.sequence <= published
    BY <1>0, <2>1 DEF OfferInv, CursorsInv
  <2>4. visit'.from <= consumer'.next /\ consumer'.next <= published
    BY <1>0, <2>1, <2>2, <2>3
  <2> QED
    BY <1>0, <1>13, <2>1, <2>2, <2>4, WrapReads DEF WorkDone, readerOnly, Goto, Labels
<1>14. CASE WorkDeferred
  BY <1>0, <1>14, WrapKept DEF WorkDeferred, Labels
<1>15. CASE SkipToLatest
  <2>1. /\ consumer'.next = published /\ consumer'.pending = 0
        /\ visit'.from = published /\ pc["consumer"] = "idle" /\ pc' = pc
    BY <1>15 DEF SkipToLatest
  <2>2. pc' = [pc EXCEPT !["consumer"] = "idle"]
    BY <1>0, <2>1 DEF TypeOK
  <2>3. visit'.from <= consumer'.next /\ consumer'.next <= published
    BY <1>0, <2>1
  <2> QED
    BY <1>15, <2>1, <2>2, <2>3, WrapReads DEF SkipToLatest, readerOnly, Labels
<1> QED
  BY <1>1, <1>2, <1>3, <1>4, <1>5, <1>6, <1>7, <1>8, <1>9, <1>10, <1>11,
     <1>12, <1>13, <1>14, <1>15 DEF Consume

LEMMA WrapInvariant == Spec => []WrapIInv
<1>1. Init => WrapIInv
  BY InitInv, WrapInit DEF WrapIInv
<1>2. WrapIInv /\ [Next]_vars => WrapIInv'
  <2> SUFFICES ASSUME WrapIInv, [Next]_vars PROVE WrapIInv'
    OBVIOUS
  <2>1. IInv'
    BY InvStep DEF WrapIInv
  <2>2. CASE UNCHANGED vars
    BY <2>1, <2>2 DEF vars, WrapIInv, WrapInv, CursorsInv, Unwrapped, PublishedSince
  <2>3. CASE Next
    BY <2>1, <2>3, WrapGame, WrapPublish, WrapConsume DEF Next, WrapIInv
  <2> QED
    BY <2>2, <2>3
<1> QED
  BY <1>1, <1>2, PTL DEF Spec

\* As long as the ring has not wrapped, the consumer works on a date published
\* since it noticed the save that is loaded, or since it was last switched off:
\* the events that a former save left in the ring are not offered, whatever
\* the two publishers of a slot do.
THEOREM OffersBelongToTheSave ==
  Spec => [](writeCursor <= RingSize => OfferIsOfThisSave)
<1>1. WrapIInv => (writeCursor <= RingSize => OfferIsOfThisSave)
  <2> SUFFICES ASSUME WrapIInv, writeCursor <= RingSize, pc["consumer"] = "work"
               PROVE  PublishedSince(consumer.pending)
    BY DEF OfferIsOfThisSave, PublishedSince
  <2> QED
    BY DEF WrapIInv, WrapInv, Unwrapped, IInv, OfferInv
<1> QED
  BY <1>1, WrapInvariant, PTL

(***************************************************************************)
(* The part of a session before the first load, of a consumer that has     *)
(* already entered its save and is not switched off: the hook is the only  *)
(* publisher, so event e holds day e + 1.                                  *)
(***************************************************************************)
FirstSession == Entered /\ ~Switchable /\ game.loads = 0

Reading == {"idle", "peek", "slot", "scan", "scanSlot", "work"}

\* The last day whose event is reserved, filled and counted.
Reserved == IF pc["hook"] \in {"accept", "reserve"} THEN game.date - 1 ELSE game.date
Filled == IF pc["hook"] \in {"accept", "reserve", "write"} THEN game.date - 1
                                                           ELSE game.date
Counted == IF pc["hook"] # "idle" THEN game.date - 1 ELSE game.date

\* The hook publishes the days in order, one event each.
DaysInOrder ==
    /\ game.date # 0 /\ scope = game.save
    /\ pc["hook"] \in {"idle", "accept", "reserve", "write", "count"}
    /\ lastPublished = IF pc["hook"] = "accept" THEN game.date - 1 ELSE game.date
    /\ writeCursor = Reserved /\ published = Counted
    /\ Len(log) = Reserved /\ \A i \in 1 .. Reserved : log[i] = i
    /\ pc["hook"] \in {"accept", "reserve", "write"} =>
         publication["hook"].date = game.date
    /\ pc["hook"] = "write" => publication["hook"].event = game.date - 1

\* A slot is overwritten by later days only, and not before a whole ring of them.
SlotsAdvance ==
    /\ \A i \in 0 .. RingSize - 1 : ring[i] <= Filled
    /\ \A e \in 0 .. Filled - 1 :
         /\ ring[e % RingSize] > e
         /\ e >= Filled - RingSize => ring[e % RingSize] = e + 1

\* The dates the consumer holds have been published, and they are not behind
\* the events it has passed.
CursorInv ==
    /\ consumer.save = game.save /\ consumer.last # 0
    /\ pc["consumer"] \in Reading
    /\ consumer.next <= published
    /\ pc["consumer"] \in {"slot", "scanSlot"} => consumer.next < published
    /\ consumer.last <= game.date /\ consumer.pending <= game.date
    /\ scan.date <= game.date
    /\ IF pc["consumer"] \in {"scan", "scanSlot"}
         THEN consumer.coalesces /\ scan.date > scan.event /\ scan.event < published
         ELSE scan = Nothing
    /\ pc["consumer"] = "scan" => consumer.next <= scan.date
    /\ consumer.pending # 0 =>
         /\ consumer.next <= consumer.pending
         /\ consumer.sequence <= consumer.pending
         /\ consumer.sequence <= published
    /\ consumer.pending = 0 /\ pc["consumer"] \in {"idle", "peek"} =>
         consumer.next <= consumer.last

\* What the consumer did with day d: taken, in hand, or left to a later one.
Covered(d) ==
    \/ d \in visit.taken \cup {consumer.pending, scan.date}
    \/ consumer.coalesces /\ \E l \in {consumer.last, consumer.pending, scan.date} : d < l

\* Unless a publisher was a ring ahead, the consumer is with each date exactly
\* where its cursor is, and has passed over no day.
NoneMissed ==
    /\ visit.from = 1
    /\ ~visit.lapped =>
         /\ consumer.last <= consumer.next
         /\ consumer.pending # 0 => /\ consumer.sequence = consumer.pending
                                    /\ consumer.pending <= consumer.next + 1
         /\ scan.date <= consumer.next
         /\ pc["consumer"] \in {"scan", "scanSlot"} => scan.date = scan.event + 1
         /\ \A d \in 2 .. consumer.next : Covered(d)

SessionInv == DaysInOrder /\ SlotsAdvance /\ CursorInv /\ NoneMissed
SessionIInv == IInv /\ (FirstSession => SessionInv)

LEMMA GameIsNumbered ==
  ASSUME TypeOK
  PROVE  /\ game.date \in DatesOrNone /\ game.date \in Nat
         /\ game.loads \in Nat /\ RingSize \in Nat \ {0}
         /\ consumer.last \in Nat /\ consumer.pending \in Nat
         /\ scan.date \in Nat /\ SlotDate \in Nat
<1>1. game.date \in DatesOrNone /\ game.loads \in Nat
  BY GameFields DEF TypeOK
<1>2. RingSize \in Nat \ {0}
  BY TickConsumerAssumption
<1> QED
  BY <1>1, <1>2, ReaderFields, DatesAreNumbers

\* How the counts of days relate.
LEMMA DayCounts ==
  ASSUME TypeOK, DaysInOrder
  PROVE  /\ Reserved \in Nat /\ Filled \in Nat /\ Counted \in Nat
         /\ Counted <= Filled /\ Filled <= Reserved /\ Reserved <= game.date
         /\ writeCursor = Reserved /\ published = Counted
  BY GameIsNumbered DEF DaysInOrder, Reserved, Filled, Counted

LEMMA SessionInit == Init /\ FirstSession => SessionInv
<1> SUFFICES ASSUME Init, FirstSession PROVE SessionInv
  OBVIOUS
<1>1. PICK s \in Saves, c \in BOOLEAN :
        /\ game = [save |-> s, date |-> 1, loads |-> 0, defers |-> 0]
        /\ scope = s
        /\ consumer = [save |-> s, next |-> 1, last |-> 1, pending |-> 0,
                        sequence |-> 0, coalesces |-> c]
  BY DEF Init, FirstSession
<1>2. /\ lastPublished = 1 /\ writeCursor = 1 /\ published = 1 /\ log = <<1>>
      /\ ring = [i \in 0 .. RingSize - 1 |-> IF i = 0 THEN 1 ELSE 0]
      /\ scan.date = 0 /\ scan = Nothing
      /\ visit.from = 1 /\ visit.taken = {} /\ visit.lapped = FALSE
      /\ pc["hook"] = "idle" /\ pc["consumer"] = "idle"
  BY DEF Init, Publishers, Nothing
<1>3. /\ game.save = s /\ game.date = 1
      /\ consumer.save = s /\ consumer.next = 1 /\ consumer.last = 1
      /\ consumer.pending = 0
  BY <1>1
<1>4. Reserved = 1 /\ Filled = 1 /\ Counted = 1
  BY <1>2, <1>3 DEF Reserved, Filled, Counted
<1>5. Len(log) = 1 /\ \A i \in 1 .. 1 : log[i] = i
  BY <1>2
<1>6. DaysInOrder
  BY <1>1, <1>2, <1>3, <1>4, <1>5 DEF DaysInOrder
<1>7. SlotsAdvance
  <2>1. 0 % RingSize = 0 /\ RingSize \in Nat \ {0}
    BY SlotOf, TickConsumerAssumption
  <2>2. ring[0] = 1 /\ \A i \in 0 .. RingSize - 1 : ring[i] \in {0, 1}
    BY <1>2, <2>1
  <2>3. \A e \in 0 .. 0 : e = 0
    OBVIOUS
  <2> QED
    BY <1>4, <2>1, <2>2, <2>3 DEF SlotsAdvance
<1>8. CursorInv
  BY <1>2, <1>3 DEF CursorInv, Reading
<1>9. NoneMissed
  <2>1. 2 .. consumer.next = {}
    BY <1>3
  <2> QED
    BY <1>2, <1>3, <2>1 DEF NoneMissed
<1> QED
  BY <1>6, <1>7, <1>8, <1>9 DEF SessionInv

\* The hook's steps leave the reader as it was; the days and the count grow.
LEMMA ReaderStays ==
  ASSUME TypeOK, SessionInv, UNCHANGED readerVars, pc'["consumer"] = pc["consumer"],
         game'.save = game.save, game'.date \in Nat, game.date <= game'.date,
         published' \in Nat, published <= published'
  PROVE  CursorInv' /\ NoneMissed'
<1>0. /\ consumer.next \in Nat /\ consumer.sequence \in Nat
      /\ consumer.last \in Nat /\ consumer.pending \in Nat
      /\ scan.date \in Nat /\ scan.event \in Nat /\ published \in Nat
      /\ game.date \in Nat
      /\ UNCHANGED <<consumer, scan, visit>>
  BY GameIsNumbered, ReaderFields DEF readerVars
<1>1. CursorInv'
  BY <1>0 DEF SessionInv, CursorInv
<1>2. NoneMissed'
  BY <1>0 DEF SessionInv, NoneMissed, Covered
<1> QED
  BY <1>1, <1>2

\* A step that writes no slot and leaves the filled days leaves the slots.
LEMMA SlotsStay ==
  ASSUME SlotsAdvance, ring' = ring, Filled' = Filled
  PROVE  SlotsAdvance'
  BY DEF SlotsAdvance

LEMMA SessionAdvance ==
  ASSUME TypeOK, SessionInv, AdvanceDay
  PROVE  SessionInv'
<1>0. /\ game.date \in Nat /\ DaysInOrder
      /\ publication["hook"] \in EventType
      /\ "hook" \in Publishers
  BY GameIsNumbered DEF SessionInv, TypeOK, Publishers
<1>1. /\ pc["hook"] = "idle" /\ pc'["hook"] = "accept"
      /\ pc'["consumer"] = pc["consumer"]
  BY <1>0, ThreadStep DEF AdvanceDay, TypeOK, Publishers, Labels
<1>2. /\ game'.save = game.save /\ game'.date = game.date + 1
      /\ publication'["hook"].date = game.date + 1
      /\ UNCHANGED <<scope, lastPublished, writeCursor, published, ring, log>>
      /\ UNCHANGED readerVars
  BY <1>0 DEF AdvanceDay, TypeOK, GameType, EventType, scopeVars, ringVars
<1>3. Reserved' = Reserved /\ Filled' = Filled /\ Counted' = Counted
  BY <1>0, <1>1, <1>2 DEF Reserved, Filled, Counted
<1>4. DaysInOrder'
  BY <1>0, <1>1, <1>2, <1>3 DEF DaysInOrder
<1>5. published \in Nat
  BY ReaderFields
<1>6. CursorInv' /\ NoneMissed'
  BY <1>0, <1>1, <1>2, <1>5, ReaderStays
<1> QED
  BY <1>2, <1>3, <1>4, <1>6, SlotsStay DEF SessionInv

LEMMA SessionAccept ==
  ASSUME TypeOK, SessionInv, Accept("hook")
  PROVE  SessionInv'
<1>0. /\ game.date \in Nat /\ DaysInOrder /\ published \in Nat
      /\ "hook" \in Publishers
  BY GameIsNumbered, ReaderFields DEF SessionInv, Publishers
<1>1. pc["hook"] = "accept" /\ publication["hook"].date = lastPublished + 1
      /\ scope = game.save /\ lastPublished = game.date - 1
  BY <1>0 DEF Accept, Goto, DaysInOrder
<1>2. Accepts("hook")
  BY <1>1 DEF Accepts, PublishedInScope
<1>3. /\ Goto("hook", "accept", "reserve")
      /\ lastPublished' = game.date /\ scope' = game.save
      /\ UNCHANGED <<game, ringVars, publication, readerVars>>
  BY <1>0, <1>1, <1>2 DEF Accept
<1>4. pc'["hook"] = "reserve" /\ pc'["consumer"] = pc["consumer"]
  BY <1>0, <1>3, ThreadStep DEF TypeOK, Publishers, Labels
<1>5. Reserved' = Reserved /\ Filled' = Filled /\ Counted' = Counted
  BY <1>1, <1>3, <1>4 DEF Reserved, Filled, Counted
<1>6. DaysInOrder'
  BY <1>0, <1>1, <1>3, <1>4, <1>5 DEF DaysInOrder, ringVars
<1>7. CursorInv' /\ NoneMissed'
  BY <1>0, <1>3, <1>4, ReaderStays DEF ringVars
<1> QED
  BY <1>3, <1>5, <1>6, <1>7, SlotsStay DEF SessionInv, ringVars

LEMMA SessionReserve ==
  ASSUME TypeOK, SessionInv, Reserve("hook")
  PROVE  SessionInv'
<1>0. /\ game.date \in Nat /\ DaysInOrder /\ published \in Nat
      /\ "hook" \in Publishers /\ publication["hook"] \in EventType
      /\ log \in Seq(DatesOrNone) /\ publication["hook"].date \in DatesOrNone
  BY GameIsNumbered, ReaderFields DEF SessionInv, Publishers, TypeOK
<1>1. pc["hook"] = "reserve" /\ pc'["hook"] = "write"
      /\ pc'["consumer"] = pc["consumer"]
  BY <1>0, ThreadStep DEF Reserve, TypeOK, Publishers, Labels
<1>2. /\ Reserved = game.date - 1 /\ Reserved' = game.date
      /\ Filled' = Filled /\ Counted' = Counted
      /\ UNCHANGED <<game, scope, lastPublished, published, ring>>
      /\ UNCHANGED readerVars
  BY <1>1 DEF Reserve, Reserved, Filled, Counted, scopeVars
<1>3. /\ publication'["hook"].date = game.date
      /\ publication'["hook"].event = game.date - 1
      /\ writeCursor' = game.date
  BY <1>0, <1>1, <1>2 DEF Reserve, DaysInOrder, TypeOK, EventType
<1>4. /\ Len(log') = game.date
      /\ \A i \in 1 .. game.date : log'[i] = i
  <2>1. /\ Len(log) = game.date - 1 /\ publication["hook"].date = game.date
        /\ log' = Append(log, game.date)
        /\ \A i \in 1 .. game.date - 1 : log[i] = i
    BY <1>0, <1>1, <1>2 DEF Reserve, DaysInOrder
  <2>2. /\ Len(log') = Len(log) + 1 /\ log'[Len(log) + 1] = game.date
        /\ \A i \in 1 .. Len(log) : log'[i] = log[i]
    BY <1>0, <2>1, LogGrows
  <2> QED
    BY <1>0, <2>1, <2>2
<1>5. DaysInOrder'
  BY <1>0, <1>1, <1>2, <1>3, <1>4 DEF DaysInOrder
<1>6. CursorInv' /\ NoneMissed'
  BY <1>0, <1>1, <1>2, ReaderStays
<1> QED
  BY <1>2, <1>5, <1>6, SlotsStay DEF SessionInv

LEMMA SessionWrite ==
  ASSUME TypeOK, SessionInv, WriteSlot("hook")
  PROVE  SessionInv'
<1>0. /\ game.date \in Nat \ {0} /\ DaysInOrder /\ published \in Nat
      /\ "hook" \in Publishers /\ RingSize \in Nat \ {0}
      /\ ring \in [0 .. RingSize - 1 -> DatesOrNone]
  BY GameIsNumbered, ReaderFields DEF SessionInv, DaysInOrder, Publishers, TypeOK
<1>1. pc["hook"] = "write" /\ pc'["hook"] = "count"
      /\ pc'["consumer"] = pc["consumer"]
  BY <1>0, ThreadStep DEF WriteSlot, TypeOK, Publishers, Labels
<1>2. /\ Reserved' = Reserved /\ Counted' = Counted
      /\ Filled = game.date - 1 /\ Filled' = game.date
      /\ UNCHANGED <<game, scope, lastPublished, writeCursor, published, log,
                     publication>>
      /\ UNCHANGED readerVars
  BY <1>1 DEF WriteSlot, Reserved, Filled, Counted, scopeVars
<1>3. DaysInOrder'
  BY <1>0, <1>1, <1>2 DEF DaysInOrder
<1> DEFINE last == game.date - 1
<1>4. /\ ring' = [ring EXCEPT ![last % RingSize] = game.date]
      /\ last \in Nat /\ last % RingSize \in 0 .. RingSize - 1
  <2>1. last \in Nat
    BY <1>0
  <2>2. publication["hook"].event = last /\ publication["hook"].date = game.date
    BY <1>0, <1>1 DEF DaysInOrder
  <2> QED
    BY <2>1, <2>2, SlotOf DEF WriteSlot
<1>5. SlotsAdvance'
  <2>1. ASSUME NEW i \in 0 .. RingSize - 1 PROVE ring'[i] <= game.date
    <3>1. ring[i] <= last /\ ring[i] \in Nat
      BY <1>0, <1>2, DatesAreNumbers DEF SessionInv, SlotsAdvance
    <3> QED
      BY <1>0, <1>4, <3>1
  <2>2. ASSUME NEW e \in 0 .. game.date - 1
        PROVE  /\ ring'[e % RingSize] > e
               /\ e >= game.date - RingSize => ring'[e % RingSize] = e + 1
    <3>0. e \in Nat /\ e % RingSize \in 0 .. RingSize - 1
      BY SlotOf
    <3>1. CASE e = last
      BY <1>0, <1>4, <3>0, <3>1
    <3>2. CASE e # last /\ e % RingSize = last % RingSize
      <4>1. ring'[e % RingSize] = game.date
        BY <1>0, <1>4, <3>2
      <4>2. ~(last - e < RingSize)
        BY <1>4, <3>0, <3>2, SlotsDiffer
      <4> QED
        BY <1>0, <3>0, <4>1, <4>2
    <3>3. CASE e # last /\ e % RingSize # last % RingSize
      <4>1. ring'[e % RingSize] = ring[e % RingSize]
        BY <1>0, <1>4, <3>0, <3>3
      <4>2. e \in 0 .. Filled - 1
        BY <1>0, <1>2, <3>3
      <4>3. /\ ring[e % RingSize] > e
            /\ e >= Filled - RingSize => ring[e % RingSize] = e + 1
        BY <4>2 DEF SessionInv, SlotsAdvance
      <4> QED
        BY <1>0, <1>2, <4>1, <4>3
    <3> QED
      BY <3>1, <3>2, <3>3
  <2> QED
    BY <1>2, <2>1, <2>2 DEF SlotsAdvance
<1>6. CursorInv' /\ NoneMissed'
  BY <1>0, <1>1, <1>2, ReaderStays
<1> QED
  BY <1>3, <1>5, <1>6 DEF SessionInv

LEMMA SessionCount ==
  ASSUME TypeOK, SessionInv, Count("hook")
  PROVE  SessionInv'
<1>0. /\ game.date \in Nat /\ DaysInOrder /\ published \in Nat
      /\ "hook" \in Publishers
  BY GameIsNumbered, ReaderFields DEF SessionInv, Publishers
<1>1. pc["hook"] = "count" /\ pc'["hook"] = "idle"
      /\ pc'["consumer"] = pc["consumer"]
  BY <1>0, ThreadStep DEF Count, TypeOK, Publishers, Labels
<1>2. /\ Reserved' = Reserved /\ Filled' = Filled
      /\ Counted = game.date - 1 /\ Counted' = game.date
      /\ UNCHANGED <<game, scope, lastPublished, writeCursor, ring, log>>
      /\ UNCHANGED readerVars /\ published' = published + 1
  BY <1>1 DEF Count, Reserved, Filled, Counted, scopeVars
<1>3. DaysInOrder'
  BY <1>0, <1>1, <1>2 DEF DaysInOrder
<1>4. CursorInv' /\ NoneMissed'
  BY <1>0, <1>1, <1>2, ReaderStays
<1> QED
  BY <1>2, <1>3, <1>4, SlotsStay DEF SessionInv

\* The reader's steps leave the hook, the days and the slots as they were.
LEMMA HookStays ==
  ASSUME TypeOK, SessionInv,
         UNCHANGED <<scopeVars, ringVars, publication>>, pc'["hook"] = pc["hook"],
         game'.save = game.save, game'.date = game.date
  PROVE  /\ DaysInOrder' /\ SlotsAdvance' /\ Filled' = Filled
         /\ published' = published
<1>1. Reserved' = Reserved /\ Filled' = Filled /\ Counted' = Counted
  BY DEF Reserved, Filled, Counted
<1>2. DaysInOrder'
  BY <1>1 DEF SessionInv, DaysInOrder, scopeVars, ringVars
<1>3. SlotsAdvance'
  BY <1>1, SlotsStay DEF SessionInv, ringVars
<1> QED
  BY <1>1, <1>2, <1>3 DEF ringVars

\* The slot under the cursor holds the cursor's day, or a later one if a
\* publisher is a ring ahead.
LEMMA SlotUnderCursor ==
  ASSUME TypeOK, SessionInv, pc["consumer"] \in {"slot", "scanSlot"}
  PROVE  /\ SlotDate > consumer.next /\ SlotDate <= game.date
         /\ ~Lapped => SlotDate = consumer.next + 1
<1>0. /\ consumer.next \in Nat /\ game.date \in Nat /\ RingSize \in Nat
      /\ SlotDate \in Nat
  BY GameIsNumbered, ReaderFields
<1>1. consumer.next < published /\ DaysInOrder /\ SlotsAdvance
  BY DEF SessionInv, CursorInv
<1>2. /\ Reserved \in Nat /\ Filled \in Nat /\ Counted \in Nat
      /\ Counted <= Filled /\ Filled <= Reserved /\ Reserved <= game.date
      /\ writeCursor = Reserved /\ published = Counted
  BY <1>1, DayCounts
<1>3. consumer.next \in 0 .. Filled - 1
  BY <1>0, <1>1, <1>2
<1>4. SlotDate > consumer.next
  BY <1>1, <1>3 DEF SlotsAdvance, SlotDate
<1>5. SlotDate <= Filled
  BY <1>0, <1>1, SlotOf DEF SlotsAdvance, SlotDate
<1>6. ASSUME ~Lapped PROVE SlotDate = consumer.next + 1
  <2>1. consumer.next >= Filled - RingSize
    BY <1>0, <1>2, <1>6 DEF Lapped
  <2> QED
    BY <1>1, <1>3, <2>1 DEF SlotsAdvance, SlotDate
<1> QED
  BY <1>0, <1>2, <1>4, <1>5, <1>6

\* The values a step of the reader assigns, and those it keeps.
ReaderStep(from, to) ==
    /\ TypeOK /\ OfferInv /\ SessionInv
    /\ UNCHANGED readerOnly
    /\ Goto("consumer", from, to) /\ to \in Labels

LEMMA ReaderStepHolds ==
  ASSUME NEW from, NEW to, ReaderStep(from, to)
  PROVE  /\ DaysInOrder' /\ SlotsAdvance'
         /\ UNCHANGED game /\ UNCHANGED published
         /\ pc["consumer"] = from /\ pc'["consumer"] = to
<1>1. /\ pc["consumer"] = from /\ pc'["consumer"] = to
      /\ pc'["hook"] = pc["hook"]
  BY ThreadStep DEF ReaderStep, TypeOK, Publishers
<1> QED
  BY <1>1, HookStays DEF ReaderStep, readerOnly

\* A cursor that moves.
LEMMA MovedCursor ==
  ASSUME TypeOK, NEW n \in Nat, consumer' = [consumer EXCEPT !.next = n]
  PROVE  /\ consumer'.next = n
         /\ consumer'.save = consumer.save /\ consumer'.last = consumer.last
         /\ consumer'.pending = consumer.pending
         /\ consumer'.sequence = consumer.sequence
         /\ consumer'.coalesces = consumer.coalesces
  BY DEF TypeOK, ConsumerType

LEMMA ObservedLap ==
  ASSUME TypeOK, NEW b \in BOOLEAN, visit' = [visit EXCEPT !.lapped = @ \/ b]
  PROVE  /\ visit'.from = visit.from /\ visit'.taken = visit.taken
         /\ visit'.lapped = (visit.lapped \/ b)
  BY DEF TypeOK, VisitType

LEMMA TookDate ==
  ASSUME TypeOK, visit' = [visit EXCEPT !.taken = @ \cup {consumer.pending}]
  PROVE  /\ visit'.from = visit.from /\ visit'.lapped = visit.lapped
         /\ visit'.taken = visit.taken \cup {consumer.pending}
  BY DEF TypeOK, VisitType

LEMMA SessionPolls ==
  ASSUME TypeOK, OfferInv, SessionInv, NextInSave \/ PeekEmpty
  PROVE  SessionInv'
<1>0. /\ consumer.next \in Nat /\ published \in Nat /\ consumer.pending \in Nat
      /\ consumer.last \in Nat
  BY GameIsNumbered, ReaderFields
<1>1. CASE NextInSave
  <2>1. PICK to \in {"work", "peek"} :
           /\ Goto("consumer", "idle", to)
           /\ to = "work" <=> consumer.pending # 0
    BY <1>1 DEF NextInSave, SessionInv, CursorInv
  <2>2. ReaderStep("idle", to) /\ UNCHANGED readerVars
    BY <1>1, <2>1 DEF NextInSave, ReaderStep, Labels
  <2>3. /\ DaysInOrder' /\ SlotsAdvance' /\ UNCHANGED game /\ UNCHANGED published
        /\ pc["consumer"] = "idle" /\ pc'["consumer"] = to
    BY <2>2, ReaderStepHolds
  <2>4. CursorInv'
    BY <2>1, <2>2, <2>3 DEF SessionInv, CursorInv, readerVars, Reading
  <2>5. NoneMissed'
    BY <2>2, <2>3 DEF SessionInv, NoneMissed, Covered, readerVars
  <2> QED
    BY <2>3, <2>4, <2>5 DEF SessionInv
<1>2. CASE PeekEmpty
  <2>1. ReaderStep("peek", "idle") /\ UNCHANGED <<scan, visit>>
    BY <1>2 DEF PeekEmpty, ReaderStep, Labels
  <2>2. /\ DaysInOrder' /\ SlotsAdvance' /\ UNCHANGED game /\ UNCHANGED published
        /\ pc["consumer"] = "peek" /\ pc'["consumer"] = "idle"
    BY <2>1, ReaderStepHolds
  <2>3. published = consumer.next
    BY <1>0, <1>2 DEF PeekEmpty, SessionInv, CursorInv
  <2>4. /\ consumer'.next = consumer.next
        /\ consumer'.save = consumer.save /\ consumer'.last = consumer.last
        /\ consumer'.pending = consumer.pending
        /\ consumer'.sequence = consumer.sequence
        /\ consumer'.coalesces = consumer.coalesces
    BY <1>0, <1>2, <2>3, MovedCursor DEF PeekEmpty
  <2>5. CursorInv'
    BY <2>1, <2>2, <2>4 DEF SessionInv, CursorInv, Reading
  <2>6. NoneMissed'
    BY <2>1, <2>2, <2>4 DEF SessionInv, NoneMissed, Covered
  <2> QED
    BY <2>2, <2>5, <2>6 DEF SessionInv
<1> QED
  BY <1>1, <1>2

\* Moving the cursor up to the slots that are left.
LEMMA SessionPeeks ==
  ASSUME TypeOK, OfferInv, SessionInv, Peek \/ ScanPeek
  PROVE  SessionInv'
<1> DEFINE n == CursorFor(published)
<1>0. /\ consumer.next \in Nat /\ published \in Nat /\ consumer.next < published
      /\ n \in Nat /\ consumer.next <= n /\ n < published
      /\ published - consumer.next <= RingSize => n = consumer.next
      /\ writeCursor \in Nat /\ RingSize \in Nat
  BY GameIsNumbered, ReaderFields, CursorMovesUp DEF Peek, ScanPeek
<1>1. ~Lapped => n = consumer.next
  <2>1. published <= writeCursor
    BY DayCounts DEF SessionInv
  <2> QED
    BY <1>0, <2>1 DEF Lapped
<1>2. PICK from \in {"peek", "scan"}, to \in {"slot", "scanSlot"} :
         /\ ReaderStep(from, to)
         /\ from = "peek" <=> to = "slot"
         /\ scan' = scan
         /\ visit' = [visit EXCEPT !.lapped = @ \/ Lapped]
         /\ consumer' = [consumer EXCEPT !.next = n]
  BY DEF Peek, ScanPeek, ReaderStep, Labels
<1>3. /\ DaysInOrder' /\ SlotsAdvance' /\ UNCHANGED game /\ UNCHANGED published
      /\ pc["consumer"] = from /\ pc'["consumer"] = to
  BY <1>2, ReaderStepHolds
<1>4. /\ consumer'.next = n
      /\ consumer'.save = consumer.save /\ consumer'.last = consumer.last
      /\ consumer'.pending = consumer.pending
      /\ consumer'.sequence = consumer.sequence
      /\ consumer'.coalesces = consumer.coalesces
  BY <1>0, <1>2, MovedCursor
<1>5. /\ visit'.from = visit.from /\ visit'.taken = visit.taken
      /\ visit'.lapped = (visit.lapped \/ Lapped)
  BY <1>2, ObservedLap DEF Lapped
<1>6. consumer.pending = 0
  BY <1>2, <1>3 DEF OfferInv
<1> HIDE DEF n
<1>7. CursorInv'
  BY <1>0, <1>2, <1>3, <1>4, <1>6 DEF SessionInv, CursorInv, Reading
<1>8. NoneMissed'
  BY <1>0, <1>1, <1>2, <1>3, <1>4, <1>5, <1>6 DEF SessionInv, NoneMissed, Covered
<1> QED
  BY <1>3, <1>7, <1>8 DEF SessionInv

\* An event is passed over only if a publisher was a ring ahead.
LEMMA SessionSkips ==
  ASSUME TypeOK, OfferInv, SessionInv, SkipSlot
  PROVE  SessionInv'
<1>0. /\ consumer.next \in Nat /\ published \in Nat
      /\ consumer.last \in Nat /\ SlotDate \in Nat
      /\ SlotDate <= consumer.last
  BY GameIsNumbered, ReaderFields DEF SkipSlot
<1>1. /\ ReaderStep("slot", "peek") /\ scan' = scan
      /\ visit' = [visit EXCEPT !.lapped = @ \/ Lapped]
      /\ consumer' = [consumer EXCEPT !.next = consumer.next + 1]
  BY DEF SkipSlot, ReaderStep, Labels
<1>2. /\ DaysInOrder' /\ SlotsAdvance' /\ UNCHANGED game /\ UNCHANGED published
      /\ pc["consumer"] = "slot" /\ pc'["consumer"] = "peek"
  BY <1>1, ReaderStepHolds
<1>3. /\ consumer'.next = consumer.next + 1
      /\ consumer'.save = consumer.save /\ consumer'.last = consumer.last
      /\ consumer'.pending = consumer.pending
      /\ consumer'.sequence = consumer.sequence
      /\ consumer'.coalesces = consumer.coalesces
  BY <1>0, <1>1, MovedCursor
<1>4. /\ visit'.from = visit.from /\ visit'.taken = visit.taken
      /\ visit'.lapped = (visit.lapped \/ Lapped)
  BY <1>1, ObservedLap DEF Lapped
<1>5. consumer.pending = 0 /\ consumer.next < published
      /\ SlotDate > consumer.next
      /\ (~Lapped => SlotDate = consumer.next + 1)
  BY <1>2, SlotUnderCursor DEF OfferInv, SessionInv, CursorInv
<1>6. CursorInv'
  BY <1>0, <1>1, <1>2, <1>3, <1>5 DEF SessionInv, CursorInv, Reading
<1>7. visit'.lapped
  <2>1. ~visit.lapped => consumer.last <= consumer.next
    BY DEF SessionInv, NoneMissed
  <2>2. visit.lapped \/ Lapped
    BY <1>0, <1>5, <2>1
  <2> QED
    BY <1>4, <2>2
<1>8. NoneMissed'
  BY <1>4, <1>7 DEF SessionInv, NoneMissed
<1> QED
  BY <1>2, <1>6, <1>8 DEF SessionInv

\* The day under the cursor is offered for work.
LEMMA SessionTakes ==
  ASSUME TypeOK, OfferInv, SessionInv, TakeSlot
  PROVE  SessionInv'
<1>0. /\ consumer.next \in Nat /\ published \in Nat
      /\ consumer.last \in Nat /\ SlotDate \in Nat
      /\ SlotDate > consumer.last
  BY GameIsNumbered, ReaderFields DEF TakeSlot
<1>1. /\ ReaderStep("slot", "work") /\ scan' = scan
      /\ visit' = [visit EXCEPT !.lapped = @ \/ Lapped]
      /\ consumer' = Offered(SlotDate, consumer.next)
  BY DEF TakeSlot, ReaderStep, Labels
<1>2. /\ DaysInOrder' /\ SlotsAdvance' /\ UNCHANGED game /\ UNCHANGED published
      /\ pc["consumer"] = "slot" /\ pc'["consumer"] = "work"
  BY <1>1, ReaderStepHolds
<1>3. /\ consumer'.next = consumer.next
      /\ consumer'.save = consumer.save /\ consumer'.last = consumer.last
      /\ consumer'.pending = SlotDate
      /\ consumer'.sequence = consumer.next + 1
      /\ consumer'.coalesces = consumer.coalesces
  BY <1>1 DEF Offered
<1>4. /\ visit'.from = visit.from /\ visit'.taken = visit.taken
      /\ visit'.lapped = (visit.lapped \/ Lapped)
  BY <1>1, ObservedLap DEF Lapped
<1>5. consumer.pending = 0 /\ consumer.next < published /\ scan = Nothing
      /\ SlotDate > consumer.next /\ SlotDate <= game.date
      /\ (~Lapped => SlotDate = consumer.next + 1)
  BY <1>2, SlotUnderCursor DEF OfferInv, SessionInv, CursorInv
<1>6. CursorInv'
  BY <1>0, <1>1, <1>2, <1>3, <1>5 DEF SessionInv, CursorInv, Reading
<1>7. ASSUME ~visit.lapped, ~Lapped
      PROVE  /\ consumer'.last <= consumer'.next
             /\ consumer'.sequence = consumer'.pending
             /\ consumer'.pending <= consumer'.next + 1
             /\ scan'.date <= consumer'.next
             /\ \A d \in 2 .. consumer'.next : Covered(d)'
  <2>1. /\ consumer.last <= consumer.next
        /\ scan.date = 0
        /\ \A d \in 2 .. consumer.next : Covered(d)
    BY <1>5, <1>7 DEF SessionInv, NoneMissed, Nothing
  <2>2. ASSUME NEW d \in 2 .. consumer.next
        PROVE  Covered(d)'
    <3>1. Covered(d) /\ d # 0
      BY <2>1
    <3> QED
      BY <1>0, <1>1, <1>3, <1>4, <1>5, <2>1, <3>1 DEF Covered
  <2> QED
    BY <1>0, <1>1, <1>3, <1>5, <1>7, <2>1, <2>2
<1>8. ~visit'.lapped => ~visit.lapped /\ ~Lapped
  BY <1>4
<1>9. NoneMissed'
  BY <1>2, <1>4, <1>7, <1>8 DEF SessionInv, NoneMissed
<1> QED
  BY <1>2, <1>6, <1>9 DEF SessionInv

\* A coalescing consumer selects the day under the cursor.
LEMMA SessionSelects ==
  ASSUME TypeOK, OfferInv, SessionInv, StartScan
  PROVE  SessionInv'
<1>0. /\ consumer.next \in Nat /\ published \in Nat
      /\ consumer.last \in Nat /\ SlotDate \in Nat
      /\ SlotDate > consumer.last /\ consumer.coalesces
  BY GameIsNumbered, ReaderFields DEF StartScan
<1>1. /\ ReaderStep("slot", "scan")
      /\ scan' = [date |-> SlotDate, event |-> consumer.next]
      /\ visit' = [visit EXCEPT !.lapped = @ \/ Lapped]
      /\ consumer' = [consumer EXCEPT !.next = consumer.next + 1]
  BY DEF StartScan, ReaderStep, Labels
<1>2. /\ DaysInOrder' /\ SlotsAdvance' /\ UNCHANGED game /\ UNCHANGED published
      /\ pc["consumer"] = "slot" /\ pc'["consumer"] = "scan"
  BY <1>1, ReaderStepHolds
<1>3. /\ consumer'.next = consumer.next + 1
      /\ consumer'.save = consumer.save /\ consumer'.last = consumer.last
      /\ consumer'.pending = consumer.pending
      /\ consumer'.sequence = consumer.sequence
      /\ consumer'.coalesces = consumer.coalesces
  <2>1. consumer.next + 1 \in Nat
    BY <1>0
  <2> QED
    BY <1>1, <2>1, MovedCursor
<1>s. scan'.date = SlotDate /\ scan'.event = consumer.next
  BY <1>1
<1>4. /\ visit'.from = visit.from /\ visit'.taken = visit.taken
      /\ visit'.lapped = (visit.lapped \/ Lapped)
  BY <1>1, ObservedLap DEF Lapped
<1>5. consumer.pending = 0 /\ consumer.next < published /\ scan = Nothing
      /\ SlotDate > consumer.next /\ SlotDate <= game.date
      /\ (~Lapped => SlotDate = consumer.next + 1)
  BY <1>2, SlotUnderCursor DEF OfferInv, SessionInv, CursorInv
<1>6. CursorInv'
  BY <1>0, <1>2, <1>3, <1>s, <1>5 DEF SessionInv, CursorInv, Reading
<1>7. ASSUME ~visit.lapped, ~Lapped
      PROVE  /\ consumer'.last <= consumer'.next
             /\ scan'.date <= consumer'.next
             /\ scan'.date = scan'.event + 1
             /\ \A d \in 2 .. consumer'.next : Covered(d)'
  <2>1. /\ consumer.last <= consumer.next
        /\ scan.date = 0
        /\ \A d \in 2 .. consumer.next : Covered(d)
    BY <1>5, <1>7 DEF SessionInv, NoneMissed, Nothing
  <2>2. ASSUME NEW d \in 2 .. consumer.next + 1
        PROVE  Covered(d)'
    <3>1. CASE d = consumer.next + 1
      BY <1>s, <1>5, <1>7, <3>1 DEF Covered
    <3>2. CASE d # consumer.next + 1
      <4>1. Covered(d) /\ d # 0
        BY <1>0, <2>1, <3>2
      <4> QED
        BY <1>0, <1>3, <1>s, <1>4, <1>5, <2>1, <4>1 DEF Covered
    <3> QED
      BY <3>1, <3>2
  <2> QED
    BY <1>0, <1>3, <1>s, <1>5, <1>7, <2>1, <2>2
<1>8. ~visit'.lapped => ~visit.lapped /\ ~Lapped
  BY <1>4
<1>9. NoneMissed'
  BY <1>3, <1>s, <1>4, <1>5, <1>7, <1>8 DEF SessionInv, NoneMissed
<1> QED
  BY <1>2, <1>6, <1>9 DEF SessionInv

\* The selection moves on to a later day.
LEMMA SessionScans ==
  ASSUME TypeOK, OfferInv, SessionInv, ScanSlot
  PROVE  SessionInv'
<1>0. /\ consumer.next \in Nat /\ published \in Nat
      /\ consumer.last \in Nat /\ SlotDate \in Nat
      /\ scan.date \in Nat /\ scan.event \in Nat
  BY GameIsNumbered, ReaderFields
<1>1. /\ ReaderStep("scanSlot", "scan")
      /\ \/ SlotDate <= scan.date /\ scan' = scan
         \/ SlotDate > scan.date /\ scan' = [date |-> SlotDate, event |-> consumer.next]
      /\ visit' = [visit EXCEPT !.lapped = @ \/ Lapped]
      /\ consumer' = [consumer EXCEPT !.next = consumer.next + 1]
  BY <1>0 DEF ScanSlot, ReaderStep, Labels
<1>2. /\ DaysInOrder' /\ SlotsAdvance' /\ UNCHANGED game /\ UNCHANGED published
      /\ pc["consumer"] = "scanSlot" /\ pc'["consumer"] = "scan"
  BY <1>1, ReaderStepHolds
<1>3. /\ consumer'.next = consumer.next + 1
      /\ consumer'.save = consumer.save /\ consumer'.last = consumer.last
      /\ consumer'.pending = consumer.pending
      /\ consumer'.sequence = consumer.sequence
      /\ consumer'.coalesces = consumer.coalesces
  BY <1>0, <1>1, MovedCursor
<1>s. \/ SlotDate <= scan.date /\ scan'.date = scan.date /\ scan'.event = scan.event
      \/ SlotDate > scan.date /\ scan'.date = SlotDate /\ scan'.event = consumer.next
  BY <1>1
<1>4. /\ visit'.from = visit.from /\ visit'.taken = visit.taken
      /\ visit'.lapped = (visit.lapped \/ Lapped)
  BY <1>1, ObservedLap DEF Lapped
<1>5. consumer.pending = 0 /\ consumer.next < published
      /\ scan.event < published /\ scan.date > scan.event
      /\ consumer.coalesces /\ scan.date <= game.date
      /\ SlotDate > consumer.next /\ SlotDate <= game.date
      /\ (~Lapped => SlotDate = consumer.next + 1)
  BY <1>2, SlotUnderCursor DEF OfferInv, SessionInv, CursorInv
<1>6. CursorInv'
  BY <1>0, <1>2, <1>3, <1>s, <1>5 DEF SessionInv, CursorInv, Reading
<1>7. ASSUME ~visit.lapped, ~Lapped
      PROVE  /\ consumer'.last <= consumer'.next
             /\ scan'.date <= consumer'.next
             /\ scan'.date = scan'.event + 1
             /\ \A d \in 2 .. consumer'.next : Covered(d)'
  <2>1. /\ consumer.last <= consumer.next
        /\ scan.date <= consumer.next
        /\ \A d \in 2 .. consumer.next : Covered(d)
    BY <1>7 DEF SessionInv, NoneMissed
  <2>0. SlotDate = consumer.next + 1
    BY <1>5, <1>7
  <2>3. scan'.date = SlotDate /\ scan'.event = consumer.next
    BY <1>0, <1>s, <2>0, <2>1
  <2>2. ASSUME NEW d \in 2 .. consumer.next + 1
        PROVE  Covered(d)'
    <3>1. CASE d = consumer.next + 1
      BY <2>0, <2>3, <3>1 DEF Covered
    <3>2. CASE d # consumer.next + 1
      <4>1. Covered(d) /\ d # 0 /\ d < SlotDate
        BY <1>0, <2>0, <2>1, <3>2
      <4>2. d < scan'.date
        BY <2>3, <4>1
      <4> QED
        BY <1>3, <1>5, <4>2 DEF Covered
    <3> QED
      BY <3>1, <3>2
  <2> QED
    BY <1>0, <1>3, <2>0, <2>1, <2>2, <2>3
<1>8. ~visit'.lapped => ~visit.lapped /\ ~Lapped
  BY <1>4
<1>9. NoneMissed'
  BY <1>3, <1>4, <1>5, <1>7, <1>8 DEF SessionInv, NoneMissed
<1> QED
  BY <1>2, <1>6, <1>9 DEF SessionInv

\* The selected day is offered for work.
LEMMA SessionOffers ==
  ASSUME TypeOK, OfferInv, SessionInv, ScanEnd
  PROVE  SessionInv'
<1>0. /\ consumer.next \in Nat /\ published \in Nat /\ consumer.last \in Nat
      /\ scan.date \in Nat /\ scan.event \in Nat
  BY GameIsNumbered, ReaderFields
<1>1. /\ ReaderStep("scan", "work") /\ scan' = Nothing /\ visit' = visit
      /\ consumer' = Offered(scan.date, scan.event)
  BY DEF ScanEnd, ReaderStep, Labels
<1>2. /\ DaysInOrder' /\ SlotsAdvance' /\ UNCHANGED game /\ UNCHANGED published
      /\ pc["consumer"] = "scan" /\ pc'["consumer"] = "work"
  BY <1>1, ReaderStepHolds
<1>3. /\ consumer'.next = consumer.next
      /\ consumer'.save = consumer.save /\ consumer'.last = consumer.last
      /\ consumer'.pending = scan.date
      /\ consumer'.sequence = scan.event + 1
      /\ consumer'.coalesces = consumer.coalesces
      /\ scan'.date = 0
  BY <1>1 DEF Offered, Nothing
<1>5. consumer.pending = 0 /\ consumer.next <= published
      /\ consumer.next <= scan.date
      /\ scan.event < published /\ scan.date > scan.event
      /\ scan.date <= game.date /\ scan.date > consumer.last
  BY <1>2 DEF OfferInv, SessionInv, CursorInv
<1>6. CursorInv'
  BY <1>0, <1>1, <1>2, <1>3, <1>5 DEF SessionInv, CursorInv, Reading
<1>7. ASSUME ~visit.lapped
      PROVE  /\ consumer'.last <= consumer'.next
             /\ consumer'.sequence = consumer'.pending
             /\ consumer'.pending <= consumer'.next + 1
             /\ \A d \in 2 .. consumer'.next : Covered(d)'
  <2>1. /\ consumer.last <= consumer.next /\ scan.date <= consumer.next
        /\ scan.date = scan.event + 1
        /\ \A d \in 2 .. consumer.next : Covered(d)
    BY <1>2, <1>7 DEF SessionInv, NoneMissed
  <2>2. ASSUME NEW d \in 2 .. consumer.next
        PROVE  Covered(d)'
    <3>1. Covered(d) /\ d # 0 /\ ~(d < 0)
      BY <2>1
    <3> QED
      BY <1>1, <1>3, <1>5, <3>1 DEF Covered
  <2> QED
    BY <1>0, <1>3, <2>1, <2>2
<1>9. NoneMissed'
  BY <1>0, <1>1, <1>2, <1>3, <1>7 DEF SessionInv, NoneMissed
<1> QED
  BY <1>2, <1>6, <1>9 DEF SessionInv

\* mark_processed: the pending day counts as taken.
LEMMA SessionWorks ==
  ASSUME TypeOK, OfferInv, SessionInv, WorkDone
  PROVE  SessionInv'
<1>0. /\ consumer.next \in Nat /\ published \in Nat /\ consumer.last \in Nat
      /\ consumer.pending \in Nat /\ consumer.sequence \in Nat
  BY GameIsNumbered, ReaderFields
<1>1. /\ ReaderStep("work", "idle") /\ scan' = scan
      /\ visit' = [visit EXCEPT !.taken = @ \cup {consumer.pending}]
      /\ consumer' = [save |-> consumer.save,
                      next |-> IF consumer.next < consumer.sequence
                                 THEN consumer.sequence ELSE consumer.next,
                      last |-> consumer.pending, pending |-> 0, sequence |-> 0,
                      coalesces |-> consumer.coalesces]
  BY DEF WorkDone, ReaderStep, Labels
<1>2. /\ DaysInOrder' /\ SlotsAdvance' /\ UNCHANGED game /\ UNCHANGED published
      /\ pc["consumer"] = "work" /\ pc'["consumer"] = "idle"
  BY <1>1, ReaderStepHolds
<1>3. /\ consumer'.next = IF consumer.next < consumer.sequence
                            THEN consumer.sequence ELSE consumer.next
      /\ consumer'.save = consumer.save /\ consumer'.last = consumer.pending
      /\ consumer'.pending = 0 /\ consumer'.sequence = 0
      /\ consumer'.coalesces = consumer.coalesces
  BY <1>1
<1>4. /\ visit'.from = visit.from /\ visit'.lapped = visit.lapped
      /\ visit'.taken = visit.taken \cup {consumer.pending}
  BY <1>1, TookDate
<1>5. consumer.pending # 0 /\ consumer.next <= published
      /\ consumer.pending > consumer.last
      /\ consumer.next <= consumer.pending
      /\ consumer.sequence <= consumer.pending /\ consumer.sequence <= published
      /\ consumer.pending <= game.date /\ scan = Nothing
  BY <1>2 DEF OfferInv, SessionInv, CursorInv
<1>6. CursorInv'
  <2>1. consumer'.next <= published /\ consumer'.next <= consumer'.last
    BY <1>0, <1>3, <1>5
  <2>2. /\ consumer'.save = game'.save /\ consumer'.last # 0
        /\ consumer'.last <= game'.date /\ consumer'.pending <= game'.date
        /\ scan'.date <= game'.date
    BY <1>0, <1>1, <1>2, <1>3, <1>5, GameIsNumbered DEF SessionInv, CursorInv
  <2>3. consumer'.pending = 0 /\ scan' = Nothing
    BY <1>1, <1>3, <1>5
  <2> QED
    BY <1>2, <2>1, <2>2, <2>3 DEF CursorInv, Reading
<1>7. ASSUME ~visit.lapped
      PROVE  /\ consumer'.last <= consumer'.next /\ scan'.date <= consumer'.next
             /\ \A d \in 2 .. consumer'.next : Covered(d)'
  <2>1. /\ consumer.sequence = consumer.pending
        /\ consumer.pending <= consumer.next + 1
        /\ \A d \in 2 .. consumer.next : Covered(d)
        /\ scan.date = 0
    BY <1>5, <1>7 DEF SessionInv, NoneMissed, Nothing
  <2>3. consumer'.next \in {consumer.next, consumer.pending}
        /\ consumer.pending <= consumer'.next /\ consumer'.next \in Nat
        /\ consumer'.next <= consumer.next + 1
    BY <1>0, <1>3, <1>5, <2>1
  <2>2. ASSUME NEW d \in 2 .. consumer'.next
        PROVE  Covered(d)'
    <3>1. CASE d = consumer.pending
      BY <1>4, <3>1 DEF Covered
    <3>2. CASE d # consumer.pending
      <4>1. d \in 2 .. consumer.next
        BY <1>0, <2>3, <3>2
      <4>2. Covered(d) /\ d # 0 /\ d \in Nat
        BY <2>1, <4>1
      <4>3. CASE d \in visit.taken
        BY <1>4, <4>3 DEF Covered
      <4>4. CASE consumer.coalesces /\ (d < consumer.last \/ d < consumer.pending)
        <5>1. d < consumer.pending
          BY <1>0, <1>5, <4>2, <4>4
        <5> QED
          BY <1>3, <4>4, <5>1 DEF Covered
      <4>5. ~(d < scan.date)
        BY <2>1, <4>2
      <4> QED
        BY <2>1, <3>2, <4>2, <4>3, <4>4, <4>5 DEF Covered
    <3> QED
      BY <3>1, <3>2
  <2> QED
    BY <1>1, <1>3, <2>1, <2>2, <2>3
<1>9. NoneMissed'
  BY <1>2, <1>3, <1>4, <1>7 DEF SessionInv, NoneMissed
<1> QED
  BY <1>2, <1>6, <1>9 DEF SessionInv

\* Work that is put off leaves its day pending.
LEMMA SessionDefers ==
  ASSUME TypeOK, OfferInv, SessionInv, WorkDeferred
  PROVE  SessionInv'
<1>1. /\ pc["consumer"] = "work" /\ pc'["consumer"] = "idle"
      /\ pc'["hook"] = pc["hook"]
  BY ThreadStep DEF WorkDeferred, TypeOK, Publishers, Labels
<1>2. /\ game'.save = game.save /\ game'.date = game.date
      /\ UNCHANGED <<consumer, scan, visit>>
      /\ UNCHANGED <<scopeVars, ringVars, publication>>
  BY DEF WorkDeferred, readerVars, TypeOK, GameType
<1>3. DaysInOrder' /\ SlotsAdvance' /\ published' = published
  BY <1>1, <1>2, HookStays
<1>4. consumer.pending # 0
  BY <1>1 DEF OfferInv
<1>5. CursorInv'
  BY <1>1, <1>2, <1>3, <1>4 DEF SessionInv, CursorInv, Reading
<1>6. NoneMissed'
  BY <1>1, <1>2, <1>3 DEF SessionInv, NoneMissed, Covered
<1> QED
  BY <1>3, <1>5, <1>6 DEF SessionInv

LEMMA SessionStep == SessionIInv /\ [Next]_vars => SessionIInv'
<1> SUFFICES ASSUME SessionIInv, [Next]_vars, FirstSession'
             PROVE  SessionInv'
  BY InvStep DEF SessionIInv
<1>0. TypeOK /\ OfferInv /\ game.loads \in Nat /\ Entered /\ ~Switchable
  BY GameFields DEF SessionIInv, IInv, TypeOK, FirstSession
<1>1. CASE UNCHANGED vars
  <2>1. UNCHANGED <<game, scope, lastPublished, writeCursor, published, ring,
                    publication, consumer, scan, pc, log, visit>>
    BY <1>1 DEF vars
  <2>2. SessionInv
    BY <2>1 DEF SessionIInv, FirstSession
  <2>3. Reserved' = Reserved /\ Filled' = Filled /\ Counted' = Counted
    BY <2>1 DEF Reserved, Filled, Counted
  <2>4. DaysInOrder' /\ SlotsAdvance'
    BY <2>1, <2>2, <2>3 DEF SessionInv, DaysInOrder, SlotsAdvance
  <2>5. CursorInv' /\ NoneMissed'
    BY <2>1, <2>2 DEF SessionInv, CursorInv, NoneMissed, Covered
  <2> QED
    BY <2>4, <2>5 DEF SessionInv
<1>2. CASE \E s \in Saves : LoadSave(s)
  <2>1. game'.loads = game.loads + 1
    BY <1>2 DEF LoadSave
  <2> QED
    BY <1>0, <2>1 DEF FirstSession
<1>3. ASSUME ~(\E s \in Saves : LoadSave(s)), Next
      PROVE  game'.loads = game.loads
  <2>1. UNCHANGED game \/ (\E d : game' = [game EXCEPT !.date = d])
                       \/ (\E d : game' = [game EXCEPT !.defers = d])
    BY <1>3 DEF Next, FinishLoad, LoadDone, AdvanceDay, Publish, Accept, Reserve,
       WriteSlot, Count, Consume, NextInSave, NextInOtherSave, EnterScope,
       ReadToday, PeekEmpty, Peek, SkipSlot, TakeSlot, StartScan, ScanPeek,
       ScanSlot, ScanEnd, WorkDone, WorkDeferred, SkipToLatest, readerOnly
  <2>2. game \in GameType
    BY <1>0 DEF TypeOK
  <2> QED
    BY <2>1, <2>2 DEF GameType
<1>4. ASSUME ~(\E s \in Saves : LoadSave(s)), Next PROVE SessionInv'
  <2>0. SessionInv /\ FirstSession
    BY <1>3, <1>4 DEF FirstSession, SessionIInv
  <2>1. CASE FinishLoad
    BY <2>0, <2>1 DEF FinishLoad, LoadDone, SessionInv, DaysInOrder
  <2>2. CASE AdvanceDay
    BY <1>0, <2>0, <2>2, SessionAdvance
  <2>3. ASSUME NEW p \in Publishers, Publish(p) PROVE SessionInv'
    <3>1. pc[p] \in {"accept", "reserve", "write", "count"}
      BY <2>3 DEF Publish, Accept, Reserve, WriteSlot, Count, Goto
    <3>2. pc["consumer"] \in Reading
      BY <2>0 DEF SessionInv, CursorInv
    <3>3. p = "hook"
      BY <3>1, <3>2 DEF Publishers, Reading
    <3> QED
      BY <1>0, <2>0, <2>3, <3>3, SessionAccept, SessionReserve, SessionWrite,
         SessionCount DEF Publish
  <2>4. CASE Consume
    <3>1. ~NextInOtherSave /\ ~EnterScope /\ ~ReadToday /\ ~SkipToLatest
      BY <2>0 DEF SessionInv, CursorInv, NextInOtherSave, EnterScope, ReadToday,
         SkipToLatest, FirstSession, Goto, Reading
    <3> QED
      BY <1>0, <2>0, <2>4, <3>1, SessionPolls, SessionPeeks, SessionSkips,
         SessionTakes, SessionSelects, SessionScans, SessionOffers, SessionWorks,
         SessionDefers DEF Consume
  <2> QED
    BY <1>4, <2>1, <2>2, <2>3, <2>4 DEF Next
<1> QED
  BY <1>1, <1>2, <1>4

LEMMA SessionInvariant == Spec => []SessionIInv
<1>1. Init => SessionIInv
  BY InitInv, SessionInit DEF SessionIInv
<1> QED
  BY <1>1, SessionStep, PTL DEF Spec

\* Until the first load, a consumer that has entered its save and is not
\* switched off has processed the day the game shows once it has read the whole
\* ring, however far the hook was ahead of it.
THEOREM NoLiveDayIsLost ==
  Spec => [](FirstSession => CaughtUpIsToday)
<1>1. SessionIInv => (FirstSession => CaughtUpIsToday)
  <2> SUFFICES ASSUME SessionIInv, FirstSession, CaughtUp
               PROVE  consumer.last = game.date
    BY DEF CaughtUpIsToday
  <2>1. TypeOK /\ SessionInv
    BY DEF SessionIInv, IInv
  <2>2. pc["hook"] = "idle" /\ pc["consumer"] = "idle"
    BY DEF CaughtUp, Publishers
  <2>3. consumer.next = game.date
    BY <2>1, <2>2, DayCounts DEF CaughtUp, SessionInv, Counted
  <2>4. consumer.next <= consumer.last /\ consumer.last <= game.date
    BY <2>1, <2>2 DEF CaughtUp, SessionInv, CursorInv
  <2> QED
    BY <2>1, <2>3, <2>4, GameIsNumbered
<1> QED
  BY <1>1, SessionInvariant, PTL

\* In the same sessions, unless a publisher got a whole ring ahead, every day the
\* cursor has passed was taken, is in hand, or is one that a coalescing consumer
\* left to a later day.
THEOREM EveryDayIsCovered ==
  Spec => [](FirstSession => NoDayPassedOver)
<1>1. SessionIInv => (FirstSession => NoDayPassedOver)
  <2> SUFFICES ASSUME SessionIInv, FirstSession, ~visit.lapped,
                      NEW e \in visit.from .. consumer.next - 1
               PROVE  Covered(log[e + 1])
    BY DEF NoDayPassedOver, Covered
  <2>1. TypeOK /\ SessionInv
    BY DEF SessionIInv, IInv
  <2>2. /\ visit.from = 1 /\ consumer.next <= published
        /\ \A d \in 2 .. consumer.next : Covered(d)
    BY <2>1 DEF SessionInv, NoneMissed, CursorInv
  <2>3. /\ Reserved \in Nat /\ published \in Nat /\ published <= Reserved
        /\ consumer.next \in Nat
    BY <2>1, DayCounts, ReaderFields DEF SessionInv
  <2>4. e + 1 \in 2 .. consumer.next /\ e + 1 \in 1 .. Reserved
    BY <2>2, <2>3
  <2>5. log[e + 1] = e + 1
    BY <2>1, <2>4 DEF SessionInv, DaysInOrder
  <2> QED
    BY <2>2, <2>4, <2>5
<1> QED
  BY <1>1, SessionInvariant, PTL
=============================================================================
