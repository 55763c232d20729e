------------------------ MODULE FACompensation_proofs ------------------------
(***************************************************************************)
(* FACompensation for every set of obligations and free agents, every      *)
(* finite set of players, and any number of days, choices and failures.    *)
(***************************************************************************)
EXTENDS FACompensation, FiniteSetTheorems, SequenceTheorems, TLAPS

----------------------------------------------------------------------------
(* Lists and decisions.                                                    *)

LEMMA BoundsAreNaturals ==
    /\ MaxDay \in Nat /\ MaxDay > 0 /\ MaxActs \in Nat /\ MaxTroubles \in Nat
    /\ RowCap \in Nat /\ Protect \in Nat /\ Protect > 0 /\ DueDays \in Nat
BY FACompensationAssumption

LEMMA AnyOneIsAnObligation == AnyOne \in Obligations
BY FACompensationAssumption DEF AnyOne

\* A list is made of players, and its rows fit the buffer.
LEMMA ListsAreOfPlayers ==
    ASSUME cache \subseteq Players, NEW S \in Candidates, NEW list \in SetToSeqs(S)
    PROVE  list \in Seq(Players)
<1>1. S \subseteq Players
  BY DEF Candidates
<1>2. Cardinality(S) \in Nat
  BY <1>1, FACompensationAssumption, FS_Subset, FS_CardinalityType
<1>3. list \in [1 .. Cardinality(S) -> S]
  BY DEF SetToSeqs
<1> QED BY <1>1, <1>2, <1>3

LEMMA PutListTypes ==
    ASSUME rows \in Seq(Row),
           Len(rows) <= RowCap,
           NEW o \in Obligations, NEW list \in Seq(Players), PutList(o, list)
    PROVE  /\ rows' \in Seq(Row)
           /\ Len(rows') <= RowCap
           /\ cache' \subseteq Players
<1> DEFINE all == rows \o ListRows(o, list)
           last == Bounded(Len(rows) + Len(list), RowCap)
<1>1. ListRows(o, list) \in Seq(Row) /\ Len(ListRows(o, list)) = Len(list)
  BY FACompensationAssumption DEF ListRows, Row
<1>2. all \in Seq(Row) /\ Len(all) = Len(rows) + Len(list)
  BY <1>1
<1>3. last \in Nat /\ last <= RowCap /\ last <= Len(all)
  BY <1>2, FACompensationAssumption DEF Bounded
<1>4. SubSeq(all, 1, last) \in Seq(Row) /\ Len(SubSeq(all, 1, last)) = last
  <2>1. \A i \in 1 .. last : all[i] \in Row
    <3> SUFFICES ASSUME NEW i \in 1 .. last PROVE all[i] \in Row
      OBVIOUS
    <3>1. i \in 1 .. Len(all)
      BY <1>2, <1>3
    <3> QED BY <1>2, <3>1, ElementOfSeq
  <2>2. SubSeq(all, 1, last) \in Seq(Row)
        /\ Len(SubSeq(all, 1, last)) = IF 1 <= last THEN last - 1 + 1 ELSE 0
    BY <1>3, <2>1, SubSeqProperties, 1 \in Int, last \in Int
  <2> QED BY <1>3, <2>2
<1>5. cache' \subseteq Players
  BY DEF PutList, ToSet
<1> QED BY <1>3, <1>4, <1>5 DEF PutList

LEMMA DecidedType ==
    ASSUME latest \in [FreeAgents -> Decision], NEW o \in Obligations,
           NEW action \in {"Player", "CashOnly"}, NEW pick \in Players \cup {Nobody},
           NEW on \in 0 .. MaxDay
    PROVE  Decided(o, action, pick, on) \in [FreeAgents -> Decision]
BY FACompensationAssumption DEF Decided, Decision

LEMMA ChooseTypes ==
    ASSUME latest \in [FreeAgents -> Decision], NEW o \in Obligations,
           NEW pick \in Players \cup {Nobody}, NEW on \in 0 .. MaxDay, NEW s, NEW n,
           Choose(o, pick, on, s, n)
    PROVE  latest' \in [FreeAgents -> Decision]
<1>1. CASE latest' = Decided(o, "CashOnly", Nobody, on)
  BY <1>1, DecidedType
<1>2. CASE latest' = Decided(o, "Player", pick, on)
  BY <1>2, DecidedType
<1>3. CASE UNCHANGED latest
  BY <1>3
<1> QED BY <1>1, <1>2, <1>3 DEF Choose

LEMMA OfferedType ==
    ASSUME NEW list \in Seq(Players)
    PROVE  Offered(list) \in Players \cup {Nobody}
BY FACompensationAssumption DEF Offered

LEMMA PutStatusType ==
    ASSUME status \in [Obligations -> Statuses], NEW o, NEW s \in Statuses, NEW n,
           PutStatus(o, s, n)
    PROVE  status' \in [Obligations -> Statuses]
BY DEF PutStatus

LEMMA FailingType ==
    ASSUME failures \in 0 .. MaxTroubles, past.restarts \in 0 .. MaxTroubles,
           NEW n \in 0 .. 1, Failing(n)
    PROVE  failures' \in 0 .. MaxTroubles
BY FACompensationAssumption DEF Failing

LEMMA TasksType ==
    ASSUME NEW today
    PROVE  Tasks(today) \in [Obligations -> {"none", "cash", "player", "list"}]
BY DEF Tasks, TaskOf

----------------------------------------------------------------------------
(* Types.                                                                  *)

LEMMA PassFields ==
    ASSUME due \in PassState
    PROVE  /\ due.o \in Obligations /\ due.today \in 0 .. MaxDay
           /\ due.pick \in Players \cup {Nobody} /\ due.status \in Statuses
BY DEF PassState

\* The pass moves to its next place, or to its next record.
LEMMA PassMoves ==
    ASSUME due \in PassState, NEW o \in Obligations
    PROVE  /\ \A pc \in {"pay", "store"}, s \in Statuses :
                 (Begin(o, pc, s) \/ Go(pc, s)) => due' \in PassState
           /\ Drop(o) => due' \in PassState
<1>1. ASSUME NEW pc \in {"pay", "store"}, NEW s \in Statuses, Begin(o, pc, s)
      PROVE  due' \in PassState
  BY <1>1 DEF PassState, Begin
<1>2. ASSUME NEW pc \in {"pay", "store"}, NEW s \in Statuses, Go(pc, s)
      PROVE  due' \in PassState
  BY <1>2 DEF PassState, Go
<1>3. CASE Drop(o)
  <2>1. [due.todo EXCEPT ![o] = "none"] \in [Obligations -> {"none", "cash", "player", "list"}]
    BY DEF PassState
  <2>2. "None" \in Statuses
    BY DEF Statuses
  <2> QED BY <1>3, <2>1, <2>2, AnyOneIsAnObligation DEF PassState, Drop
<1> QED BY <1>1, <1>2, <1>3

LEMMA IdlePassType == IdlePass \in PassState
BY BoundsAreNaturals, AnyOneIsAnObligation DEF IdlePass, NoTasks, Statuses, PassState

LEMMA InitTypes == Init => TypeOK
<1> SUFFICES ASSUME Init PROVE TypeOK
  OBVIOUS
<1> USE BoundsAreNaturals, AnyOneIsAnObligation DEF Init
<1>1. day \in 1 .. MaxDay
  OBVIOUS
<1>0. ran \in BOOLEAN
  OBVIOUS
<1>2. /\ status \in [Obligations -> Statuses] /\ needs \in [Obligations -> BOOLEAN]
      /\ signedOn \in [Obligations -> 0 .. MaxDay] /\ latest \in [FreeAgents -> Decision]
  BY DEF Statuses, NoDecision, Decision
<1>3. /\ rows \in Seq(Row)
      /\ Len(rows) <= RowCap /\ ledger \subseteq Obligations \X Kinds
  OBVIOUS
<1>4. /\ at \in Clubs /\ paid \in Payments /\ cache \subseteq Players
      /\ saved \in [day : 1 .. MaxDay, at : Clubs, paid : Payments]
  BY DEF Clubs, Payments
<1>5. due \in PassState
  BY IdlePassType
<1>6. pay \in [Threads -> TransferState]
  BY DEF NoTransfer, Kinds, TransferState
<1>7. failures \in 0 .. MaxTroubles /\ past \in Past
  BY DEF Past
<1> QED BY <1>0, <1>1, <1>2, <1>3, <1>4, <1>5, <1>6, <1>7 DEF TypeOK

LEMMA TransferMoves ==
    ASSUME pay \in [Threads -> TransferState], NEW t \in Threads
    PROVE  /\ \A o \in Obligations, kind \in Kinds :
                 Enter(t, o, kind) => pay' \in [Threads -> TransferState]
           /\ Leave(t) => pay' \in [Threads -> TransferState]
           /\ pay[t].o \in Obligations /\ pay[t].kind \in Kinds
BY DEF Enter, Leave, TransferState

LEMMA PassKeepsTypes == ASSUME TypeOK, Pass PROVE TypeOK'
<1> USE DEF sql, memory
<1>0. /\ due \in PassState /\ pay \in [Threads -> TransferState] /\ "due" \in Threads
      /\ due.o \in Obligations
  BY PassFields DEF TypeOK, Threads
<1>1. CASE SkipDay
  BY <1>1 DEF SkipDay, TypeOK
<1>2. CASE OpenPass
  <2>1. due' \in PassState
    <3>1. day \in 0 .. MaxDay
      BY BoundsAreNaturals DEF TypeOK
    <3>2. due' = [IdlePass EXCEPT !.pc = "load", !.today = day]
      BY <1>2 DEF OpenPass
    <3> QED BY <3>1, <3>2, IdlePassType DEF PassState
  <2>2. failures' \in 0 .. MaxTroubles
    BY <1>2, BoundsAreNaturals DEF OpenPass, Fail, Failing, TypeOK, Past
  <2> QED BY <1>2, <2>1, <2>2 DEF OpenPass, TypeOK
<1>3. CASE LoadTasks
  <2>1. due' \in PassState
    <3>1. Tasks(due.today) \in [Obligations -> {"none", "cash", "player", "list"}]
      BY TasksType
    <3> QED BY <1>0, <1>3, <3>1 DEF LoadTasks, PassState
  <2>2. failures' \in 0 .. MaxTroubles
    BY <1>3, BoundsAreNaturals DEF LoadTasks, Fail, Failing, TypeOK, Past
  <2> QED BY <1>3, <2>1, <2>2 DEF LoadTasks, TypeOK
<1>4. CASE EndPass
  <2>1. due' \in PassState
    BY <1>4, IdlePassType DEF EndPass
  <2> QED BY <1>4, <2>1 DEF EndPass, TypeOK
<1>5. ASSUME NEW o \in Obligations, SkipTask(o) PROVE TypeOK'
  <2>1. due' \in PassState
    BY <1>0, <1>5, PassMoves DEF SkipTask
  <2>2. failures' \in 0 .. MaxTroubles
    BY <1>5, BoundsAreNaturals DEF SkipTask, Failing, TypeOK, Past
  <2> QED BY <1>5, <2>1, <2>2 DEF SkipTask, TypeOK
<1>6. ASSUME NEW o \in Obligations, DecideCash(o) PROVE TypeOK'
  <2>1. due' \in PassState
    BY <1>0, <1>6, PassMoves DEF DecideCash, Statuses
  <2>2. pay' \in [Threads -> TransferState]
    BY <1>0, <1>6, TransferMoves DEF DecideCash, Kinds
  <2> QED BY <1>6, <2>1, <2>2 DEF DecideCash, TypeOK
<1>7. ASSUME NEW o \in Obligations, DecidePlayer(o) PROVE TypeOK'
  <2>1. latest[Fa[o]].pick \in Players \cup {Nobody}
    BY FACompensationAssumption DEF TypeOK, Decision
  <2>2. due' \in PassState
    BY <1>0, <1>7, <2>1 DEF DecidePlayer, PassState
  <2> QED BY <1>7, <2>2 DEF DecidePlayer, TypeOK
<1>8. ASSUME NEW o \in Obligations, SubmitList(o) PROVE TypeOK'
  <2>0. PICK S \in Candidates : \E list \in SetToSeqs(S) :
           /\ PutList(o, list)
           /\ due' = [due EXCEPT !.pc = "choose", !.o = o, !.pick = Offered(list)]
    BY <1>8 DEF SubmitList
  <2>1. PICK list \in SetToSeqs(S) :
           /\ PutList(o, list)
           /\ due' = [due EXCEPT !.pc = "choose", !.o = o, !.pick = Offered(list)]
    BY <2>0
  <2>2. list \in Seq(Players)
    BY ListsAreOfPlayers DEF TypeOK
  <2>3. rows' \in Seq(Row) /\ Len(rows') <= RowCap /\ cache' \subseteq Players
    BY <2>1, <2>2, PutListTypes DEF TypeOK
  <2>4. due' \in PassState
    BY <1>0, <2>1, <2>2, OfferedType DEF PassState
  <2> QED BY <1>8, <2>3, <2>4 DEF SubmitList, TypeOK
<1>9. ASSUME NEW o \in Obligations, DeferList(o) PROVE TypeOK'
  <2>1. due' \in PassState
    BY <1>0, <1>9, PassMoves DEF DeferList
  <2>2. failures' \in 0 .. MaxTroubles
    BY <1>9, BoundsAreNaturals DEF DeferList, Fail, Failing, TypeOK, Past
  <2>3. rows' \in Seq(Row) /\ Len(rows') <= RowCap /\ cache' \subseteq Players
    <3>1. PICK S \in Candidates :
             \/ UNCHANGED <<rows, cache>>
             \/ cache' = S /\ UNCHANGED rows
             \/ \E list \in SetToSeqs(S) : PutList(o, list)
      BY <1>9 DEF DeferList
    <3>2. CASE UNCHANGED <<rows, cache>>
      BY <3>2 DEF TypeOK
    <3>3. CASE cache' = S /\ UNCHANGED rows
      BY <3>3 DEF TypeOK, Candidates
    <3>4. ASSUME NEW list \in SetToSeqs(S), PutList(o, list)
          PROVE rows' \in Seq(Row) /\ Len(rows') <= RowCap /\ cache' \subseteq Players
      BY <3>4, ListsAreOfPlayers, PutListTypes DEF TypeOK
    <3> QED BY <3>1, <3>2, <3>3, <3>4
  <2> QED BY <1>9, <2>1, <2>2, <2>3 DEF DeferList, TypeOK
<1>10. CASE TransferPlayer
  <2>1. due' \in PassState
    BY <1>0, <1>10, PassMoves DEF TransferPlayer, Statuses
  <2>2. pay' \in [Threads -> TransferState]
    BY <1>0, <1>10, <2>1, TransferMoves DEF TransferPlayer, Kinds
  <2>3. at' \in Clubs
    BY <1>0, <1>10 DEF TransferPlayer, TypeOK, Clubs
  <2> QED BY <1>10, <2>1, <2>2, <2>3 DEF TransferPlayer, TypeOK
<1>11. CASE MissPlayer
  <2>1. due' \in PassState
    BY <1>0, <1>11, PassMoves DEF MissPlayer
  <2>2. failures' \in 0 .. MaxTroubles
    BY <1>11, BoundsAreNaturals DEF MissPlayer, Fail, Failing, TypeOK, Past
  <2> QED BY <1>11, <2>1, <2>2 DEF MissPlayer, TypeOK
<1>12. CASE DoneWithCash
  <2>1. due' \in PassState
    BY <1>0, <1>12, PassMoves, PassFields DEF DoneWithCash
  <2> QED BY <1>12, <2>1 DEF DoneWithCash, TypeOK
<1>13. CASE ChooseForAI
  <2>1. PICK s \in {"CashSelected", "PlayerSelected", "Recorded"}, n \in 0 .. 1 :
           Choose(due.o, due.pick, due.today, s, n) /\ Failing(n) /\ Go("store", s)
    BY <1>13 DEF ChooseForAI
  <2>2. latest' \in [FreeAgents -> Decision]
    BY <1>0, <2>1, PassFields, ChooseTypes DEF TypeOK
  <2>3. due' \in PassState
    BY <1>0, <2>1, PassMoves, PassFields DEF Statuses
  <2>4. failures' \in 0 .. MaxTroubles
    BY <2>1, FailingType DEF TypeOK, Past
  <2> QED BY <1>13, <2>2, <2>3, <2>4 DEF ChooseForAI, TypeOK
<1>14. CASE StoreStatus
  <2>1. PICK n \in 0 .. 1 : PutStatus(due.o, due.status, n) /\ Failing(n)
    BY <1>14 DEF StoreStatus
  <2>2. due.o \in Obligations /\ due.status \in Statuses /\ due' \in PassState
    BY <1>0, <1>14, PassMoves, PassFields DEF StoreStatus
  <2>3. status' \in [Obligations -> Statuses]
    BY <2>1, <2>2, PutStatusType DEF TypeOK
  <2>4. failures' \in 0 .. MaxTroubles
    BY <2>1, FailingType DEF TypeOK, Past
  <2> QED BY <1>14, <2>2, <2>3, <2>4 DEF StoreStatus, TypeOK
<1> QED BY <1>1, <1>2, <1>3, <1>4, <1>5, <1>6, <1>7, <1>8, <1>9, <1>10, <1>11, <1>12,
           <1>13, <1>14 DEF Pass

\* The transfers of cash, and the signing that starts one.
LEMMA TransferKeepsTypes ==
    ASSUME TypeOK, NEW t \in Threads, Transfer(t)
    PROVE  TypeOK'
<1> USE DEF sql, memory
<1>0. /\ pay \in [Threads -> TransferState] /\ pay[t] \in TransferState
      /\ pay[t].o \in Obligations /\ pay[t].kind \in Kinds
  BY DEF TypeOK, TransferState
<1>1. CASE CheckLedger(t)
  <2>1. pay' \in [Threads -> TransferState]
    BY <1>0, <1>1 DEF CheckLedger, Leave, TransferState
  <2>2. past' \in Past
    BY <1>1 DEF CheckLedger, TypeOK, Past, Racing
  <2>3. failures' \in 0 .. MaxTroubles
    BY <1>1, BoundsAreNaturals DEF CheckLedger, Fail, Failing, TypeOK, Past
  <2> QED BY <1>1, <2>1, <2>2, <2>3 DEF CheckLedger, TypeOK
<1>2. CASE MoveCash(t)
  <2>1. pay' \in [Threads -> TransferState]
    BY <1>0, <1>2 DEF MoveCash, Leave, TransferState
  <2>2. paid' \in Payments
    <3>1. paid \in Payments /\ paid[pay[t].o][pay[t].kind] \in 0 .. 2
      BY <1>0 DEF TypeOK, Payments
    <3>2. Bounded(paid[pay[t].o][pay[t].kind] + 1, 2) \in 0 .. 2
      BY <3>1 DEF Bounded
    <3> DEFINE after == [paid EXCEPT ![pay[t].o][pay[t].kind] = Bounded(@ + 1, 2)]
    <3>3. after \in Payments
      BY <1>0, <3>1, <3>2 DEF Payments
    <3> QED BY <1>2, <3>1, <3>3 DEF MoveCash
  <2>3. failures' \in 0 .. MaxTroubles
    BY <1>2, BoundsAreNaturals DEF MoveCash, Fail, Failing, TypeOK, Past
  <2> QED BY <1>2, <2>1, <2>2, <2>3 DEF MoveCash, TypeOK
<1>3. CASE NoteTransfer(t)
  <2>1. pay' \in [Threads -> TransferState]
    BY <1>0, <1>3 DEF NoteTransfer, Leave, TransferState
  <2>2. ledger' \subseteq Obligations \X Kinds
    BY <1>0, <1>3 DEF NoteTransfer, TypeOK
  <2>3. failures' \in 0 .. MaxTroubles
    BY <1>3, BoundsAreNaturals DEF NoteTransfer, Fail, Failing, TypeOK, Past
  <2> QED BY <1>3, <2>1, <2>2, <2>3 DEF NoteTransfer, TypeOK
<1> QED BY <1>1, <1>2, <1>3 DEF Transfer

LEMMA SigningKeepsTypes ==
    ASSUME TypeOK, NEW o \in Obligations, RecordSigning(o)
    PROVE  TypeOK'
<1>1. status' \in [Obligations -> Statuses] /\ signedOn' \in [Obligations -> 0 .. MaxDay]
  BY BoundsAreNaturals DEF RecordSigning, TypeOK, Statuses
<1>2. pay' \in [Threads -> TransferState]
  BY TransferMoves DEF RecordSigning, TypeOK, Threads, Kinds
<1>3. failures' \in 0 .. MaxTroubles
  BY BoundsAreNaturals DEF RecordSigning, Fail, Failing, TypeOK, Past
<1> QED BY <1>1, <1>2, <1>3 DEF RecordSigning, TypeOK, memory

\* The record a handler finds is one, and the choice is counted.
LEMMA ActTypes ==
    ASSUME past \in Past, NEW o \in Obligations, Act(o)
    PROVE  past' \in Past
<1>1. past.acts \in 0 .. MaxActs /\ past.acts < MaxActs
  BY DEF Act, Past
<1>2. past.acts + 1 \in 0 .. MaxActs
  BY <1>1, BoundsAreNaturals
<1> QED BY <1>2 DEF Act, Past

LEMMA FirstIsStored ==
    ASSUME NEW f, NEW o \in First(f)
    PROVE  o \in Obligations /\ Fa[o] = f /\ status[o] # "None"
BY DEF First, Earliest

LEMMA WindowKeepsTypes == ASSUME TypeOK, Window PROVE TypeOK'
<1>1. ASSUME NEW f \in FreeAgents, SubmitByHand(f) PROVE TypeOK'
  <2>1. PICK o \in First(f) :
           /\ Act(o)
           /\ \E S \in Candidates : \E list \in SetToSeqs(S) :
                /\ PutList(o, list)
                /\ \/ UNCHANGED <<latest, status>> /\ Fail
                   \/ \E s \in {"CashSelected", "PlayerSelected", "Recorded"}, n, m \in 0 .. 1 :
                         Choose(o, Offered(list), day, s, n) /\ PutStatus(o, s, m) /\ Failing(n + m)
    BY <1>1 DEF SubmitByHand
  <2>2. o \in Obligations /\ past' \in Past
    BY <2>1, FirstIsStored, ActTypes DEF TypeOK
  <2>3. PICK S \in Candidates : \E list \in SetToSeqs(S) :
           /\ PutList(o, list)
           /\ \/ UNCHANGED <<latest, status>> /\ Fail
              \/ \E s \in {"CashSelected", "PlayerSelected", "Recorded"}, n, m \in 0 .. 1 :
                    Choose(o, Offered(list), day, s, n) /\ PutStatus(o, s, m) /\ Failing(n + m)
    BY <2>1
  <2>4. PICK list \in SetToSeqs(S) :
           /\ PutList(o, list)
           /\ \/ UNCHANGED <<latest, status>> /\ Fail
              \/ \E s \in {"CashSelected", "PlayerSelected", "Recorded"}, n, m \in 0 .. 1 :
                    Choose(o, Offered(list), day, s, n) /\ PutStatus(o, s, m) /\ Failing(n + m)
    BY <2>3
  <2>5. list \in Seq(Players) /\ day \in 0 .. MaxDay
    BY ListsAreOfPlayers, BoundsAreNaturals DEF TypeOK
  <2>6. rows' \in Seq(Row) /\ Len(rows') <= RowCap /\ cache' \subseteq Players
    BY <2>2, <2>4, <2>5, PutListTypes DEF TypeOK
  <2>7. /\ latest' \in [FreeAgents -> Decision] /\ status' \in [Obligations -> Statuses]
        /\ failures' \in 0 .. MaxTroubles
    <3>1. CASE UNCHANGED <<latest, status>> /\ Fail
      BY <3>1, BoundsAreNaturals DEF Fail, Failing, TypeOK, Past
    <3>2. ASSUME NEW s \in {"CashSelected", "PlayerSelected", "Recorded"}, NEW n \in 0 .. 1,
                 NEW m \in 0 .. 1,
                 Choose(o, Offered(list), day, s, n), PutStatus(o, s, m), Failing(n + m)
          PROVE <2>7
      <4>1. s \in Statuses
        BY DEF Statuses
      <4>2. latest' \in [FreeAgents -> Decision]
        BY <2>2, <2>5, <3>2, OfferedType, ChooseTypes DEF TypeOK
      <4>3. status' \in [Obligations -> Statuses]
        BY <3>2, <4>1, PutStatusType DEF TypeOK
      <4>4. failures' \in 0 .. MaxTroubles
        BY <3>2, BoundsAreNaturals DEF Failing, TypeOK, Past
      <4> QED BY <4>2, <4>3, <4>4
    <3> QED BY <2>4, <3>1, <3>2
  <2> QED BY <1>1, <2>2, <2>6, <2>7 DEF SubmitByHand, TypeOK, memory
<1>2. ASSUME NEW f \in FreeAgents, NEW p \in Players, SelectPlayer(f, p) PROVE TypeOK'
  <2>1. PICK o \in First(f) :
           /\ Act(o)
           /\ latest' = Decided(o, "Player", p, day)
           /\ \E n \in 0 .. 1 : PutStatus(o, "PlayerSelected", n) /\ Failing(n)
    BY <1>2 DEF SelectPlayer
  <2>2. o \in Obligations /\ past' \in Past /\ day \in 0 .. MaxDay
    BY <2>1, FirstIsStored, ActTypes, BoundsAreNaturals DEF TypeOK
  <2>3. latest' \in [FreeAgents -> Decision]
    BY <2>1, <2>2, DecidedType DEF TypeOK
  <2>4. status' \in [Obligations -> Statuses] /\ failures' \in 0 .. MaxTroubles
    BY <2>1, PutStatusType, FailingType DEF TypeOK, Past, Statuses
  <2> QED BY <1>2, <2>2, <2>3, <2>4 DEF SelectPlayer, TypeOK, memory
<1>3. ASSUME NEW f \in FreeAgents, SelectCash(f) PROVE TypeOK'
  <2>1. PICK o \in First(f) :
           /\ Act(o)
           /\ latest' = Decided(o, "CashOnly", Nobody, day)
           /\ \E n \in 0 .. 1 : PutStatus(o, "CashSelected", n) /\ Failing(n)
    BY <1>3 DEF SelectCash
  <2>2. o \in Obligations /\ past' \in Past /\ day \in 0 .. MaxDay
    BY <2>1, FirstIsStored, ActTypes, BoundsAreNaturals DEF TypeOK
  <2>3. latest' \in [FreeAgents -> Decision]
    BY <2>1, <2>2, DecidedType DEF TypeOK
  <2>4. status' \in [Obligations -> Statuses] /\ failures' \in 0 .. MaxTroubles
    BY <2>1, PutStatusType, FailingType DEF TypeOK, Past, Statuses
  <2> QED BY <1>3, <2>2, <2>3, <2>4 DEF SelectCash, TypeOK, memory
<1> QED BY <1>1, <1>2, <1>3 DEF Window

\* The game goes on, is saved, or is started again.
LEMMA GameKeepsTypes ==
    ASSUME TypeOK, NewDay \/ SaveGame \/ Restart
    PROVE  TypeOK'
<1> USE DEF sql, memory
<1>1. CASE NewDay
  <2>1. day' \in 1 .. MaxDay
    BY <1>1, BoundsAreNaturals DEF NewDay, Bounded, TypeOK
  <2> QED BY <1>1, <2>1 DEF NewDay, TypeOK
<1>2. CASE SaveGame
  BY <1>2 DEF SaveGame, TypeOK
<1>3. CASE Restart
  <2>1. past' \in Past
    <3>1. /\ past.restarts \in Nat /\ failures \in Nat
          /\ past.restarts + 1 \in 0 .. MaxTroubles
      BY <1>3, BoundsAreNaturals DEF Restart, TypeOK, Past
    <3> QED BY <1>3, <3>1 DEF Restart, TypeOK, Past
  <2>2. day' \in 1 .. MaxDay /\ at' \in Clubs /\ paid' \in Payments
    BY <1>3 DEF Restart, TypeOK
  <2>3. pay' \in [Threads -> TransferState]
    BY <1>3, AnyOneIsAnObligation DEF Restart, NoTransfer, TransferState, Kinds
  <2>4. ran' \in BOOLEAN
    BY <1>3 DEF Restart
  <2> QED BY <1>3, <2>1, <2>2, <2>3, <2>4, IdlePassType DEF Restart, TypeOK
<1> QED BY <1>1, <1>2, <1>3

LEMMA TypesKept == ASSUME TypeOK, [Next]_vars PROVE TypeOK'
<1>1. CASE UNCHANGED vars
  BY <1>1 DEF vars, sql, memory, TypeOK
<1> QED BY <1>1, PassKeepsTypes, TransferKeepsTypes, SigningKeepsTypes, WindowKeepsTypes,
           GameKeepsTypes DEF Next

\* Type correctness: what the tables, the memory and the threads hold, and no
\* more rows of the protection file than its buffer.
THEOREM CompensationTypeCorrect == Spec => []TypeOK
<1>1. TypeOK /\ [Next]_vars => TypeOK'
  BY TypesKept
<1> QED BY InitTypes, <1>1, PTL DEF Spec

----------------------------------------------------------------------------
(* The invariants.                                                         *)

Closed == {"CashRecorded", "Transferred"}
KindOf(s) == IF s = "Transferred" THEN "PlayerPlusCash" ELSE "CashOnly"

\* The pass is about to store this status, or it is stored.
InFlight(o, s) == due.pc \in {"pay", "store"} /\ due.o = o /\ due.status = s
StandsAs(o, s) == status[o] = s \/ InFlight(o, s)

PassPlaces ==
    /\ due.pc \in {"idle", "load"} => due.todo = NoTasks
    /\ due.pc = "transfer" => due.todo[due.o] = "player"
    /\ due.pc = "choose" => due.todo[due.o] = "list"
    /\ due.pc \in {"pay", "store"} =>
         \/ due.todo[due.o] = "cash" /\ due.status = "CashRecorded"
         \/ due.todo[due.o] = "player" /\ due.status = "Transferred"
         \/ /\ due.pc = "store" /\ due.todo[due.o] = "list"
            /\ due.status \in {"CashSelected", "PlayerSelected", "Recorded"}

TransferPlaces ==
    /\ pay["due"].pc # "idle" =>
         due.pc = "pay" /\ pay["due"].o = due.o /\ pay["due"].kind = KindOf(due.status)
    /\ pay["sign"].pc # "idle" => ~needs[pay["sign"].o] /\ pay["sign"].kind = "CashOnly"

\* Only an obligation that may cost a player has decisions.
NeedsPlayer ==
    \A o \in Obligations :
        /\ status[o] \in {"Recorded", "PlayerSelected", "Transferred", "CashSelected"} => needs[o]
        /\ due.todo[o] \in {"player", "list"} => needs[o]

TodoIsOpen == \A o \in Obligations : due.todo[o] # "none" => status[o] \notin Closed

\* The game has gone on since it was saved.
SavedBefore ==
    /\ \A o \in Obligations, k \in Kinds : saved.paid[o][k] <= paid[o][k]
    /\ \A p \in Players : saved.at[p] # Signer => at[p] = saved.at[p]

\* A decision for a player names one.
PicksArePlayers ==
    /\ \A f \in FreeAgents : latest[f].action = "Player" => latest[f].pick \in Players
    /\ due.pc = "transfer" => due.pick \in Players

ShapeInv ==
    /\ TypeOK /\ PassPlaces /\ TransferPlaces /\ NeedsPlayer /\ TodoIsOpen /\ SavedBefore
    /\ PicksArePlayers

Untroubled == failures = 0 /\ past.restarts = 0

LedgerPaid == \A o \in Obligations, k \in Kinds : <<o, k>> \in ledger => paid[o][k] > 0
NotingPaid == \A t \in Threads : pay[t].pc = "ledger" => paid[pay[t].o][pay[t].kind] > 0
PlayersGone == \A o \in Obligations : StandsAs(o, "Transferred") => Delivered(o)
PassPaid ==
    due.pc \in {"pay", "store"} /\ due.status \in Closed /\ pay["due"].pc = "idle" =>
        paid[due.o][KindOf(due.status)] > 0
ClosedPaid == \A o \in Obligations : status[o] \in Closed => paid[o][KindOf(status[o])] > 0

SettledInv ==
    Untroubled => LedgerPaid /\ NotingPaid /\ PlayersGone /\ PassPaid /\ ClosedPaid

CashCloses(o) == paid[o]["CashOnly"] > 0 /\ needs[o] => StandsAs(o, "CashRecorded")
PlayerCloses(o) ==
    Delivered(o) \/ paid[o]["PlayerPlusCash"] > 0 => needs[o] /\ StandsAs(o, "Transferred")

OneWayInv ==
    (failures = 0 /\ ~past.torn) =>
        \A o \in Obligations \ past.reopened : CashCloses(o) /\ PlayerCloses(o)

\* A compensation without a player: two threads may pay it, and one looks at the
\* ledger before the other.
CashOnlyCase(o) ==
    /\ paid[o]["CashOnly"] <= 1 /\ paid[o]["PlayerPlusCash"] = 0
    /\ paid[o]["CashOnly"] > 0 =>
         \/ <<o, "CashOnly">> \in ledger
         \/ \E t \in Threads : pay[t].pc = "ledger" /\ pay[t].o = o
    /\ \A t \in Threads : pay[t].pc = "move" /\ pay[t].o = o =>
         /\ paid[o]["CashOnly"] = 0
         /\ \A u \in Threads \ {t} : pay[u].o = o => pay[u].pc \notin {"move", "ledger"}

CashOnlyInv ==
    (failures = 0 /\ ~past.raced /\ ~past.torn) =>
        \A o \in Obligations : ~needs[o] => CashOnlyCase(o)

\* A compensation with a decision: the status or the ledger says that it is paid.
Paying(o, k) == pay["due"].pc # "idle" /\ pay["due"].o = o /\ pay["due"].kind = k

DecidedCase(o, s) ==
    LET k == KindOf(s)
    IN  /\ paid[o][k] <= 1
        /\ failures = 0 /\ (paid[o][k] > 0 \/ <<o, k>> \in ledger) => StandsAs(o, s)
        /\ paid[o][k] > 0 =>
             \/ <<o, k>> \in ledger
             \/ Paying(o, k) /\ pay["due"].pc = "ledger"
             \/ failures = 1 /\ ~Paying(o, k) /\ StandsAs(o, s)
        /\ Paying(o, k) /\ pay["due"].pc = "check" /\ failures = 0 =>
             <<o, k>> \notin ledger /\ paid[o][k] = 0
        /\ Paying(o, k) /\ pay["due"].pc = "move" => paid[o][k] = 0

DecidedInv ==
    (failures <= 1 /\ ~past.torn) =>
        \A o \in Obligations \ past.reopened, s \in Closed : needs[o] => DecidedCase(o, s)

DatesPassed == due.today <= day /\ \A f \in FreeAgents : latest[f].on <= day

WaitCase(o) ==
    /\ status[o] \in {"None", "Pending"} /\ ~(due.pc = "store" /\ due.o = o) =>
         latest[Fa[o]] = NoDecision
    /\ due.todo[o] = "list" => status[o] = "Pending"
    /\ StandsAs(o, "PlayerSelected") => Says(o, "Player")
    /\ StandsAs(o, "CashSelected") => Says(o, "CashOnly")

WaitInv ==
    Untroubled =>
        DatesPassed /\ \A o \in Obligations \ past.crossed : Alone(o) => WaitCase(o)

LEMMA InitShape == Init => ShapeInv
<1> SUFFICES ASSUME Init PROVE ShapeInv
  OBVIOUS
<1>1. TypeOK
  BY InitTypes
<1>2. PassPlaces /\ TransferPlaces
  BY DEF Init, PassPlaces, TransferPlaces, IdlePass, NoTransfer, Threads
<1>3. NeedsPlayer /\ TodoIsOpen
  BY DEF Init, NeedsPlayer, TodoIsOpen, IdlePass, NoTasks
<1>4. SavedBefore
  BY DEF Init, SavedBefore
<1>5. PicksArePlayers
  BY DEF Init, PicksArePlayers, IdlePass, NoDecision
<1> QED BY <1>1, <1>2, <1>3, <1>4, <1>5 DEF ShapeInv

\* What leaves the pass alone.
LEMMA PassUnchanged ==
    ASSUME \/ \E t \in Threads : Transfer(t)
           \/ \E o \in Obligations : RecordSigning(o)
           \/ Window \/ NewDay \/ SaveGame \/ UNCHANGED vars
    PROVE  UNCHANGED due
BY DEF Transfer, CheckLedger, MoveCash, NoteTransfer, RecordSigning, Window, SubmitByHand,
       SelectPlayer, SelectCash, NewDay, SaveGame, vars

LEMMA PassPlacesKept ==
    ASSUME ShapeInv, [Next]_vars
    PROVE  PassPlaces'
<1> USE DEF PassPlaces, Begin, Go, Drop, IsAt, Earliest
<1>0. PassPlaces /\ due \in PassState
  BY DEF ShapeInv, TypeOK
<1>1. CASE UNCHANGED due
  BY <1>0, <1>1
<1>2. CASE SkipDay
  BY <1>0, <1>2 DEF SkipDay
<1>3. CASE OpenPass
  BY <1>3 DEF OpenPass, IdlePass
<1>4. CASE LoadTasks
  BY <1>0, <1>4 DEF LoadTasks, PassState
<1>5. CASE EndPass
  BY <1>5 DEF EndPass, IdlePass
<1>6. ASSUME NEW o \in Obligations, SkipTask(o) PROVE PassPlaces'
  BY <1>0, <1>6 DEF SkipTask, PassState
<1>7. ASSUME NEW o \in Obligations, DecideCash(o) PROVE PassPlaces'
  BY <1>0, <1>7 DEF DecideCash, PassState
<1>8. ASSUME NEW o \in Obligations, DecidePlayer(o) PROVE PassPlaces'
  BY <1>0, <1>8 DEF DecidePlayer, PassState
<1>9. ASSUME NEW o \in Obligations, SubmitList(o) PROVE PassPlaces'
  BY <1>0, <1>9 DEF SubmitList, PassState
<1>10. ASSUME NEW o \in Obligations, DeferList(o) PROVE PassPlaces'
  BY <1>0, <1>10 DEF DeferList, PassState
<1>11. CASE TransferPlayer
  BY <1>0, <1>11 DEF TransferPlayer, PassState
<1>12. CASE MissPlayer
  BY <1>0, <1>12 DEF MissPlayer, PassState
<1>13. CASE DoneWithCash
  BY <1>0, <1>13 DEF DoneWithCash, PassState
<1>14. CASE ChooseForAI
  BY <1>0, <1>14 DEF ChooseForAI, PassState
<1>15. CASE StoreStatus
  BY <1>0, <1>15 DEF StoreStatus, PassState
<1>16. CASE Restart
  BY <1>16 DEF Restart, IdlePass
<1> QED BY <1>1, <1>2, <1>3, <1>4, <1>5, <1>6, <1>7, <1>8, <1>9, <1>10, <1>11, <1>12,
           <1>13, <1>14, <1>15, <1>16, PassUnchanged DEF Next, Pass

\* The steps that move a transfer of cash.
LEMMA TransferPlacesKept ==
    ASSUME ShapeInv, [Next]_vars
    PROVE  TransferPlaces'
<1> USE DEF TransferPlaces, Enter, Leave, Begin, Go, Drop
<1>0. /\ TransferPlaces /\ PassPlaces /\ NeedsPlayer /\ due \in PassState
      /\ pay \in [Threads -> TransferState] /\ "due" \in Threads /\ "sign" \in Threads
  BY DEF ShapeInv, TypeOK, Threads
<1>1. CASE UNCHANGED <<due, pay, needs>>
  BY <1>0, <1>1
<1>2. ASSUME UNCHANGED <<pay, needs>>, due.pc # "pay" PROVE TransferPlaces'
  BY <1>0, <1>2
<1>3. ASSUME NEW o \in Obligations,
             SkipTask(o) \/ DecidePlayer(o) \/ SubmitList(o) \/ DeferList(o)
      PROVE  TransferPlaces'
  BY <1>2, <1>3 DEF SkipTask, DecidePlayer, SubmitList, DeferList, IsAt, sql
<1>4. CASE SkipDay \/ OpenPass \/ LoadTasks \/ EndPass \/ MissPlayer \/ ChooseForAI \/ StoreStatus
  BY <1>2, <1>4 DEF SkipDay, OpenPass, LoadTasks, EndPass, MissPlayer, ChooseForAI,
                    StoreStatus, sql
<1>5. ASSUME NEW o \in Obligations, DecideCash(o) PROVE TransferPlaces'
  BY <1>0, <1>5 DEF DecideCash, IsAt, KindOf, sql, PassState
<1>6. CASE TransferPlayer
  BY <1>0, <1>6 DEF TransferPlayer, KindOf, sql, PassState
<1>7. CASE DoneWithCash
  BY <1>0, <1>7 DEF DoneWithCash, sql
<1>8. ASSUME NEW t \in Threads, Transfer(t) PROVE TransferPlaces'
  <2>1. UNCHANGED <<due, needs>> /\ \/ pay' = [pay EXCEPT ![t].pc = "idle"]
                                    \/ /\ pay[t].pc # "idle"
                                       /\ \E pc \in {"move", "ledger"} :
                                             pay' = [pay EXCEPT ![t].pc = pc]
    BY <1>8 DEF Transfer, CheckLedger, MoveCash, NoteTransfer, sql
  <2> QED BY <1>0, <2>1 DEF TransferState
<1>9. ASSUME NEW o \in Obligations, RecordSigning(o) PROVE TransferPlaces'
  BY <1>0, <1>9 DEF RecordSigning
<1>10. CASE Window \/ NewDay \/ SaveGame \/ UNCHANGED vars
  BY <1>1, <1>10 DEF Window, SubmitByHand, SelectPlayer, SelectCash, NewDay, SaveGame, vars, sql
<1>11. CASE Restart
  BY <1>11 DEF Restart, NoTransfer, Threads
<1> QED BY <1>3, <1>4, <1>5, <1>6, <1>7, <1>8, <1>9, <1>10, <1>11 DEF Next, Pass

\* The steps of the pass that store no status; one of them loads the tasks.
Aside ==
    \/ SkipDay \/ OpenPass \/ EndPass \/ TransferPlayer \/ MissPlayer \/ DoneWithCash
    \/ ChooseForAI \/ Restart
    \/ \E o \in Obligations : \/ SkipTask(o) \/ DecideCash(o) \/ DecidePlayer(o)
                              \/ SubmitList(o) \/ DeferList(o)

LEMMA TodoShrinks ==
    ASSUME due \in PassState, Aside
    PROVE  /\ UNCHANGED <<status, needs>>
           /\ \A o \in Obligations : due'.todo[o] \in {"none", due.todo[o]}
<1> USE DEF sql, Begin, Go, Drop, PassState
<1>1. CASE SkipDay \/ EndPass \/ OpenPass \/ Restart
  <2>1. UNCHANGED <<status, needs>>
    BY <1>1 DEF SkipDay, EndPass, OpenPass, Restart
  <2>2. due' = due \/ due'.todo = NoTasks
    <3>1. due' = due \/ due' = IdlePass \/ due' = [IdlePass EXCEPT !.pc = "load", !.today = day]
      BY <1>1 DEF SkipDay, EndPass, OpenPass, Restart
    <3>2. IdlePass.todo = NoTasks
      BY DEF IdlePass
    <3> QED BY <3>1, <3>2, IdlePassType
  <2> QED BY <2>1, <2>2 DEF NoTasks
<1>2. CASE TransferPlayer
  BY <1>2 DEF TransferPlayer
<1>3. CASE MissPlayer
  BY <1>3 DEF MissPlayer
<1>4. CASE DoneWithCash
  BY <1>4 DEF DoneWithCash
<1>5. CASE ChooseForAI
  BY <1>5 DEF ChooseForAI
<1>6. ASSUME NEW o \in Obligations, SkipTask(o)
      PROVE  UNCHANGED <<status, needs>> /\ \A x \in Obligations : due'.todo[x] \in {"none", due.todo[x]}
  BY <1>6 DEF SkipTask
<1>7. ASSUME NEW o \in Obligations, DecideCash(o)
      PROVE  UNCHANGED <<status, needs>> /\ \A x \in Obligations : due'.todo[x] \in {"none", due.todo[x]}
  BY <1>7 DEF DecideCash
<1>8. ASSUME NEW o \in Obligations, DecidePlayer(o)
      PROVE  UNCHANGED <<status, needs>> /\ \A x \in Obligations : due'.todo[x] \in {"none", due.todo[x]}
  BY <1>8 DEF DecidePlayer
<1>9. ASSUME NEW o \in Obligations, SubmitList(o)
      PROVE  UNCHANGED <<status, needs>> /\ \A x \in Obligations : due'.todo[x] \in {"none", due.todo[x]}
  BY <1>9 DEF SubmitList
<1>10. ASSUME NEW o \in Obligations, DeferList(o)
      PROVE  UNCHANGED <<status, needs>> /\ \A x \in Obligations : due'.todo[x] \in {"none", due.todo[x]}
  BY <1>10 DEF DeferList
<1> QED BY <1>1, <1>2, <1>3, <1>4, <1>5, <1>6, <1>7, <1>8, <1>9, <1>10 DEF Aside

\* A choice in the window leaves the pass alone and closes nothing.
LEMMA WindowSteps ==
    ASSUME Window
    PROVE  /\ UNCHANGED <<due, needs, pay, ledger, at, paid, saved, day>>
           /\ \E o \in Obligations :
                /\ needs[o] /\ Act(o) /\ status[o] # "Transferred"
                /\ \E s \in Statuses \ Closed :
                      UNCHANGED status \/ status' = [status EXCEPT ![o] = s]
<1>1. ASSUME NEW f \in FreeAgents, SubmitByHand(f)
      PROVE  /\ UNCHANGED <<due, needs, pay, ledger, at, paid, saved, day>>
             /\ \E o \in Obligations :
                  /\ needs[o] /\ Act(o) /\ status[o] # "Transferred"
                  /\ \E s \in Statuses \ Closed :
                        UNCHANGED status \/ status' = [status EXCEPT ![o] = s]
  <2>1. PICK o \in First(f) :
           /\ needs[o] /\ Act(o) /\ status[o] # "Transferred"
           /\ \E s \in {"CashSelected", "PlayerSelected", "Recorded"}, m \in 0 .. 1 :
                 UNCHANGED status \/ PutStatus(o, s, m)
    BY <1>1 DEF SubmitByHand
  <2>2. \E s \in Statuses \ Closed : UNCHANGED status \/ status' = [status EXCEPT ![o] = s]
    BY <2>1 DEF PutStatus, Statuses, Closed
  <2> QED BY <1>1, <2>1, <2>2, FirstIsStored DEF SubmitByHand, memory
<1>2. ASSUME NEW f \in FreeAgents, NEW p \in Players, SelectPlayer(f, p)
      PROVE  /\ UNCHANGED <<due, needs, pay, ledger, at, paid, saved, day>>
             /\ \E o \in Obligations :
                  /\ needs[o] /\ Act(o) /\ status[o] # "Transferred"
                  /\ \E s \in Statuses \ Closed :
                        UNCHANGED status \/ status' = [status EXCEPT ![o] = s]
  <2>1. PICK o \in First(f) :
           /\ needs[o] /\ Act(o) /\ status[o] # "Transferred"
           /\ \E m \in 0 .. 1 : PutStatus(o, "PlayerSelected", m)
    BY <1>2 DEF SelectPlayer
  <2>2. \E s \in Statuses \ Closed : UNCHANGED status \/ status' = [status EXCEPT ![o] = s]
    BY <2>1 DEF PutStatus, Statuses, Closed
  <2> QED BY <1>2, <2>1, <2>2, FirstIsStored DEF SelectPlayer, memory
<1>3. ASSUME NEW f \in FreeAgents, SelectCash(f)
      PROVE  /\ UNCHANGED <<due, needs, pay, ledger, at, paid, saved, day>>
             /\ \E o \in Obligations :
                  /\ needs[o] /\ Act(o) /\ status[o] # "Transferred"
                  /\ \E s \in Statuses \ Closed :
                        UNCHANGED status \/ status' = [status EXCEPT ![o] = s]
  <2>1. PICK o \in First(f) :
           /\ needs[o] /\ Act(o) /\ status[o] # "Transferred"
           /\ \E m \in 0 .. 1 : PutStatus(o, "CashSelected", m)
    BY <1>3 DEF SelectCash
  <2>2. \E s \in Statuses \ Closed : UNCHANGED status \/ status' = [status EXCEPT ![o] = s]
    BY <2>1 DEF PutStatus, Statuses, Closed
  <2> QED BY <1>3, <2>1, <2>2, FirstIsStored DEF SelectCash, memory
<1> QED BY <1>1, <1>2, <1>3 DEF Window

\* The steps that store a status or begin a pass.
LEMMA NeedsPlayerKept ==
    ASSUME ShapeInv, [Next]_vars
    PROVE  NeedsPlayer'
<1> USE DEF NeedsPlayer
<1>0. /\ NeedsPlayer /\ PassPlaces /\ due \in PassState
      /\ status \in [Obligations -> Statuses]
  BY DEF ShapeInv, TypeOK
<1>1. CASE UNCHANGED <<due, status, needs>>
  BY <1>0, <1>1
<1>2. ASSUME UNCHANGED <<status, needs>>, \A o \in Obligations : due'.todo[o] \in {"none", due.todo[o]}
      PROVE  NeedsPlayer'
  BY <1>0, <1>2
<1>3. CASE Aside
  BY <1>0, <1>2, <1>3, TodoShrinks
<1>4. CASE LoadTasks
  <2>1. ASSUME NEW o \in Obligations, Tasks(due.today)[o] \in {"player", "list"} PROVE needs[o]
    BY <1>0, <2>1 DEF Tasks, TaskOf
  <2> QED BY <1>0, <1>4, <2>1 DEF LoadTasks, PassState, sql
<1>5. CASE StoreStatus
  <2>1. \/ due.status = "CashRecorded"
        \/ needs[due.o]
    BY <1>0, <1>5 DEF StoreStatus, PassPlaces, PassState
  <2> QED BY <1>0, <1>5, <2>1 DEF StoreStatus, PassState, PutStatus, Drop
<1>6. CASE NewDay \/ SaveGame \/ UNCHANGED vars \/ \E t \in Threads : Transfer(t)
  BY <1>1, <1>6 DEF NewDay, SaveGame, vars, Transfer, CheckLedger, MoveCash, NoteTransfer, sql
<1>7. ASSUME NEW o \in Obligations, RecordSigning(o) PROVE NeedsPlayer'
  BY <1>0, <1>7 DEF RecordSigning
<1>8. CASE Window
  BY <1>0, <1>8, WindowSteps
<1> QED BY <1>3, <1>4, <1>5, <1>6, <1>7, <1>8 DEF Next, Pass, Aside

LEMMA TodoIsOpenKept ==
    ASSUME ShapeInv, [Next]_vars
    PROVE  TodoIsOpen'
<1> USE DEF TodoIsOpen
<1>0. /\ TodoIsOpen /\ PassPlaces /\ due \in PassState
      /\ status \in [Obligations -> Statuses]
  BY DEF ShapeInv, TypeOK
<1>1. CASE UNCHANGED <<due, status>>
  BY <1>0, <1>1
<1>2. ASSUME UNCHANGED status, \A o \in Obligations : due'.todo[o] \in {"none", due.todo[o]}
      PROVE  TodoIsOpen'
  BY <1>0, <1>2
<1>3. CASE Aside
  BY <1>0, <1>2, <1>3, TodoShrinks
<1>4. CASE LoadTasks
  <2>1. ASSUME NEW o \in Obligations, Tasks(due.today)[o] # "none" PROVE status[o] \notin Closed
    BY <1>0, <2>1 DEF Tasks, TaskOf, Closed
  <2> QED BY <1>0, <1>4, <2>1 DEF LoadTasks, PassState, sql
<1>5. CASE StoreStatus
  BY <1>0, <1>5 DEF StoreStatus, PassState, PutStatus, Drop
<1>6. CASE NewDay \/ SaveGame \/ UNCHANGED vars \/ \E t \in Threads : Transfer(t)
  BY <1>1, <1>6 DEF NewDay, SaveGame, vars, Transfer, CheckLedger, MoveCash, NoteTransfer, sql
<1>7. ASSUME NEW o \in Obligations, RecordSigning(o) PROVE TodoIsOpen'
  BY <1>0, <1>7 DEF RecordSigning, Closed
<1>8. CASE Window
  BY <1>0, <1>8, WindowSteps
<1> QED BY <1>3, <1>4, <1>5, <1>6, <1>7, <1>8 DEF Next, Pass, Aside

\* Cash moves one transfer at a time, for the obligation the thread is at.
LEMMA CashIsAdded ==
    ASSUME paid \in Payments, pay \in [Threads -> TransferState],
           NEW t \in Threads, MoveCash(t), NEW o \in Obligations, NEW k \in Kinds
    PROVE  /\ paid[o][k] \in 0 .. 2 /\ paid'[o][k] \in 0 .. 2
           /\ paid[o][k] <= paid'[o][k] /\ paid'[o][k] <= paid[o][k] + 1
           /\ pay[t].o # o \/ pay[t].kind # k => paid'[o][k] = paid[o][k]
           /\ pay'[t].pc = "ledger" => paid'[pay[t].o][pay[t].kind] > 0
           /\ pay'[t].pc \in {"idle", "ledger"}
           /\ pay'[t].pc = "idle" => paid' = paid /\ Fail
<1>1. pay[t].o \in Obligations /\ pay[t].kind \in Kinds /\ pay[t] \in TransferState
  BY DEF TransferState
<1>2. paid[o][k] \in 0 .. 2 /\ paid[pay[t].o][pay[t].kind] \in 0 .. 2
  BY <1>1 DEF Payments
<1> DEFINE more == Bounded(paid[pay[t].o][pay[t].kind] + 1, 2)
<1>3. more \in 1 .. 2 /\ more <= paid[pay[t].o][pay[t].kind] + 1
      /\ paid[pay[t].o][pay[t].kind] <= more
  BY <1>2 DEF Bounded
<1>4. CASE pay' = [pay EXCEPT ![t].pc = "ledger"]
           /\ paid' = [paid EXCEPT ![pay[t].o][pay[t].kind] = Bounded(@ + 1, 2)]
  <2>1. paid'[pay[t].o][pay[t].kind] = more
    BY <1>1, <1>4 DEF Payments
  <2>2. pay[t].o # o \/ pay[t].kind # k => paid'[o][k] = paid[o][k]
    BY <1>1, <1>4 DEF Payments
  <2>3. pay'[t].pc = "ledger"
    BY <1>1, <1>4
  <2> HIDE DEF more
  <2> QED BY <1>2, <1>3, <2>1, <2>2, <2>3
<1>5. CASE Leave(t) /\ Fail /\ UNCHANGED paid
  BY <1>1, <1>2, <1>5 DEF Leave, TransferState
<1> QED BY <1>4, <1>5 DEF MoveCash

\* What moved stays moved: only cash is added, and only the signing club's
\* players are transferred.
LEMMA SavedBeforeKept ==
    ASSUME ShapeInv, [Next]_vars
    PROVE  SavedBefore'
<1> USE DEF SavedBefore
<1>0. /\ SavedBefore /\ at \in Clubs /\ paid \in Payments /\ pay \in [Threads -> TransferState]
      /\ saved \in [day : 1 .. MaxDay, at : Clubs, paid : Payments]
  BY DEF ShapeInv, TypeOK
<1>1. CASE UNCHANGED <<at, paid, saved>>
  BY <1>0, <1>1
<1>2. CASE TransferPlayer
  BY <1>0, <1>2 DEF TransferPlayer, Clubs
<1>3. ASSUME NEW t \in Threads, MoveCash(t) PROVE SavedBefore'
  <2>1. UNCHANGED <<at, saved>>
    BY <1>3 DEF MoveCash
  <2>2. ASSUME NEW o \in Obligations, NEW k \in Kinds
        PROVE  saved.paid[o][k] <= paid'[o][k]
    <3>1. saved.paid[o][k] \in 0 .. 2 /\ saved.paid[o][k] <= paid[o][k]
      BY <1>0 DEF Payments
    <3> QED BY <1>0, <1>3, <3>1, CashIsAdded
  <2> QED BY <1>0, <2>1, <2>2
<1>4. ASSUME NEW t \in Threads, CheckLedger(t) \/ NoteTransfer(t) PROVE SavedBefore'
  BY <1>1, <1>4 DEF CheckLedger, NoteTransfer, memory
<1>5. CASE Window
  BY <1>1, <1>5, WindowSteps
<1>6. CASE \E o \in Obligations : RecordSigning(o)
  BY <1>1, <1>6 DEF RecordSigning, memory
<1>7. CASE NewDay \/ UNCHANGED vars
  BY <1>1, <1>7 DEF NewDay, vars, memory
<1>8. CASE SaveGame \/ Restart
  <2>1. /\ saved'.at = at' /\ saved'.paid = paid'
        /\ at' \in Clubs /\ paid' \in Payments
    BY <1>0, <1>8 DEF SaveGame, Restart, memory
  <2> QED BY <2>1 DEF Payments
<1>9. CASE SkipDay \/ OpenPass \/ LoadTasks \/ EndPass \/ MissPlayer \/ DoneWithCash
           \/ ChooseForAI \/ StoreStatus
  BY <1>1, <1>9 DEF SkipDay, OpenPass, LoadTasks, EndPass, MissPlayer, DoneWithCash,
                    ChooseForAI, StoreStatus, memory
<1>10. ASSUME NEW o \in Obligations,
              SkipTask(o) \/ DecideCash(o) \/ DecidePlayer(o) \/ SubmitList(o) \/ DeferList(o)
       PROVE  SavedBefore'
  BY <1>1, <1>10 DEF SkipTask, DecideCash, DecidePlayer, SubmitList, DeferList, memory
<1> QED BY <1>2, <1>3, <1>4, <1>5, <1>6, <1>7, <1>8, <1>9, <1>10 DEF Next, Pass, Transfer

LEMMA DecidedNamesPlayers ==
    ASSUME latest \in [FreeAgents -> Decision],
           \A f \in FreeAgents : latest[f].action = "Player" => latest[f].pick \in Players,
           NEW o \in Obligations, NEW pick \in Players \cup {Nobody}, NEW on \in 0 .. MaxDay,
           NEW l,
           \/ l = latest
           \/ l = Decided(o, "CashOnly", Nobody, on)
           \/ pick # Nobody /\ l = Decided(o, "Player", pick, on)
    PROVE  \A f \in FreeAgents : l[f].action = "Player" => l[f].pick \in Players
BY FACompensationAssumption DEF Decided, Decision

LEMMA PicksKept ==
    ASSUME ShapeInv, [Next]_vars
    PROVE  PicksArePlayers'
<1> USE DEF PicksArePlayers
<1>0. /\ PicksArePlayers /\ latest \in [FreeAgents -> Decision] /\ due \in PassState
      /\ day \in 0 .. MaxDay /\ cache \subseteq Players
  BY BoundsAreNaturals DEF ShapeInv, TypeOK
<1>1. CASE UNCHANGED <<latest, due>>
  BY <1>0, <1>1
<1>2. ASSUME UNCHANGED latest, due'.pc # "transfer" PROVE PicksArePlayers'
  BY <1>0, <1>2
<1>3. CASE SkipDay \/ OpenPass \/ LoadTasks \/ EndPass \/ TransferPlayer \/ MissPlayer
           \/ DoneWithCash \/ StoreStatus \/ Restart
  <2>1. UNCHANGED latest /\ (due'.pc # "transfer" \/ UNCHANGED due)
    <3>1. CASE SkipDay
      BY <3>1 DEF SkipDay, sql
    <3>2. CASE OpenPass \/ EndPass \/ Restart
      <4>1. UNCHANGED latest /\ \/ due' = IdlePass
                                \/ due' = [IdlePass EXCEPT !.pc = "load", !.today = day]
        BY <3>2 DEF OpenPass, EndPass, Restart, sql
      <4>2. IdlePass.pc = "idle"
        BY DEF IdlePass
      <4> QED BY <4>1, <4>2, IdlePassType DEF PassState
    <3>3. CASE LoadTasks \/ TransferPlayer \/ MissPlayer
      BY <1>0, <3>3 DEF LoadTasks, TransferPlayer, MissPlayer, Go, Drop, PassState, sql
    <3>4. CASE DoneWithCash \/ StoreStatus
      BY <1>0, <3>4 DEF DoneWithCash, StoreStatus, Go, Drop, PassState, sql
    <3> QED BY <1>3, <3>1, <3>2, <3>3, <3>4
  <2> QED BY <1>1, <1>2, <2>1
<1>4. ASSUME NEW o \in Obligations, SkipTask(o) \/ DecideCash(o) \/ SubmitList(o) \/ DeferList(o)
      PROVE  PicksArePlayers'
  BY <1>0, <1>2, <1>4 DEF SkipTask, DecideCash, SubmitList, DeferList, Begin, Drop, PassState, sql
<1>5. ASSUME NEW o \in Obligations, DecidePlayer(o) PROVE PicksArePlayers'
  BY <1>0, <1>5, FACompensationAssumption DEF DecidePlayer, Says, sql, PassState
<1>6. CASE ChooseForAI
  <2>1. /\ due.o \in Obligations /\ due.pick \in Players \cup {Nobody}
        /\ due.today \in 0 .. MaxDay
    BY <1>0, PassFields
  <2>2. due'.pc = "store"
    BY <1>0, <1>6 DEF ChooseForAI, Go, PassState
  <2>3. \/ latest' = latest
        \/ latest' = Decided(due.o, "CashOnly", Nobody, due.today)
        \/ due.pick # Nobody /\ latest' = Decided(due.o, "Player", due.pick, due.today)
    BY <1>6 DEF ChooseForAI, Choose
  <2> HIDE DEF PicksArePlayers
  <2>4. \A f \in FreeAgents : latest'[f].action = "Player" => latest'[f].pick \in Players
    BY <1>0, <2>1, <2>3, DecidedNamesPlayers DEF PicksArePlayers
  <2> QED BY <2>2, <2>4 DEF PicksArePlayers
<1>7. CASE Window
  <2>1. UNCHANGED due
    BY <1>7, WindowSteps
  <2>2. \E o \in Obligations, pick \in Players \cup {Nobody} :
           \/ latest' = latest
           \/ latest' = Decided(o, "CashOnly", Nobody, day)
           \/ pick # Nobody /\ latest' = Decided(o, "Player", pick, day)
    <3>1. ASSUME NEW f \in FreeAgents, SelectCash(f) PROVE <2>2
      BY <3>1, FirstIsStored DEF SelectCash
    <3>2. ASSUME NEW f \in FreeAgents, NEW p \in Players, SelectPlayer(f, p) PROVE <2>2
      BY <3>2, FirstIsStored, FACompensationAssumption DEF SelectPlayer
    <3>3. ASSUME NEW f \in FreeAgents, SubmitByHand(f) PROVE <2>2
      <4>1. PICK o \in First(f) : \E S \in Candidates : \E list \in SetToSeqs(S) :
               UNCHANGED latest \/ \E s, n : Choose(o, Offered(list), day, s, n)
        BY <3>3 DEF SubmitByHand
      <4>2. PICK S \in Candidates : \E list \in SetToSeqs(S) :
               UNCHANGED latest \/ \E s, n : Choose(o, Offered(list), day, s, n)
        BY <4>1
      <4>3. PICK list \in SetToSeqs(S) :
               UNCHANGED latest \/ \E s, n : Choose(o, Offered(list), day, s, n)
        BY <4>2
      <4>4. Offered(list) \in Players \cup {Nobody}
        BY <1>0, ListsAreOfPlayers, OfferedType
      <4> QED BY <4>3, <4>4, FirstIsStored DEF Choose
    <3> QED BY <1>7, <3>1, <3>2, <3>3 DEF Window
  <2>3. \A f \in FreeAgents : latest'[f].action = "Player" => latest'[f].pick \in Players
    BY <1>0, <2>2, DecidedNamesPlayers
  <2> QED BY <1>0, <2>1, <2>3
<1>8. CASE NewDay \/ SaveGame \/ UNCHANGED vars \/ \E t \in Threads : Transfer(t)
  BY <1>1, <1>8 DEF NewDay, SaveGame, vars, Transfer, CheckLedger, MoveCash, NoteTransfer, sql
<1>9. CASE \E o \in Obligations : RecordSigning(o)
  BY <1>1, <1>9 DEF RecordSigning
<1> QED BY <1>3, <1>4, <1>5, <1>6, <1>7, <1>8, <1>9 DEF Next, Pass

LEMMA ShapeKept == ShapeInv /\ [Next]_vars => ShapeInv'
<1> SUFFICES ASSUME ShapeInv, [Next]_vars PROVE ShapeInv'
  OBVIOUS
<1>1. TypeOK'
  BY TypesKept DEF ShapeInv
<1> QED BY <1>1, PassPlacesKept, TransferPlacesKept, NeedsPlayerKept, TodoIsOpenKept,
           SavedBeforeKept, PicksKept DEF ShapeInv

----------------------------------------------------------------------------
(* What is paid, and how a case is closed.                                 *)

\* Failures, restarts and what the history notes are never taken back.
LEMMA HistoryGrows ==
    ASSUME TypeOK, [Next]_vars
    PROVE  /\ failures \in Nat /\ failures' \in Nat /\ failures <= failures'
           /\ past.restarts \in Nat /\ past'.restarts \in Nat
           /\ past.restarts <= past'.restarts
           /\ (past.raced => past'.raced) /\ (past.torn => past'.torn)
           /\ past.reopened \subseteq past'.reopened /\ past.crossed \subseteq past'.crossed
<1>0. TypeOK'
  BY TypesKept
<1>1. /\ failures \in Nat /\ failures' \in Nat
      /\ past.restarts \in Nat /\ past'.restarts \in Nat
  BY <1>0, BoundsAreNaturals DEF TypeOK, Past
<1>2. failures <= failures'
  <2>1. failures' = failures \/ \E n \in Nat : Failing(n)
    <3>1. ASSUME NEW o \in Obligations,
                 SkipTask(o) \/ DecideCash(o) \/ DecidePlayer(o) \/ SubmitList(o) \/ DeferList(o)
          PROVE  <2>1
      <4>1. CASE SkipTask(o)
        BY <4>1 DEF SkipTask
      <4>2. CASE DecideCash(o) \/ DecidePlayer(o) \/ SubmitList(o)
        BY <4>2 DEF DecideCash, DecidePlayer, SubmitList
      <4>3. CASE DeferList(o)
        BY <4>3 DEF DeferList, Fail
      <4> QED BY <3>1, <4>1, <4>2, <4>3
    <3>2. CASE SkipDay \/ OpenPass \/ LoadTasks \/ EndPass \/ TransferPlayer \/ MissPlayer
               \/ DoneWithCash \/ ChooseForAI \/ StoreStatus
      BY <3>2 DEF SkipDay, OpenPass, LoadTasks, EndPass, TransferPlayer, MissPlayer,
                  DoneWithCash, ChooseForAI, StoreStatus, Fail
    <3>3. CASE NewDay \/ SaveGame \/ Restart \/ UNCHANGED vars
      BY <3>3 DEF NewDay, SaveGame, Restart, vars
    <3>4. ASSUME NEW t \in Threads, Transfer(t) PROVE <2>1
      BY <3>4 DEF Transfer, CheckLedger, MoveCash, NoteTransfer, Fail
    <3>5. ASSUME NEW o \in Obligations, RecordSigning(o) PROVE <2>1
      BY <3>5 DEF RecordSigning, Fail
    <3>6. ASSUME NEW f \in FreeAgents,
                 SubmitByHand(f) \/ SelectCash(f) \/ \E p \in Players : SelectPlayer(f, p)
          PROVE  <2>1
      <4>1. \A n, m \in 0 .. 1 : n + m \in Nat
        OBVIOUS
      <4>2. CASE SubmitByHand(f)
        <5>1. Fail \/ \E n, m \in 0 .. 1 : Failing(n + m)
          BY <4>2 DEF SubmitByHand
        <5> QED BY <4>1, <5>1 DEF Fail
      <4>3. CASE SelectCash(f)
        BY <4>3 DEF SelectCash
      <4>4. CASE \E p \in Players : SelectPlayer(f, p)
        BY <4>4 DEF SelectPlayer
      <4> QED BY <3>6, <4>2, <4>3, <4>4
    <3> QED BY <3>1, <3>2, <3>3, <3>4, <3>5, <3>6 DEF Next, Pass, Window
  <2> QED BY <1>1, <2>1 DEF Failing
<1>3. /\ past.restarts <= past'.restarts
      /\ (past.raced => past'.raced) /\ (past.torn => past'.torn)
      /\ past.reopened \subseteq past'.reopened /\ past.crossed \subseteq past'.crossed
  <2>0. past \in Past
    BY DEF TypeOK
  <2>1. CASE UNCHANGED past
    BY <1>1, <2>1
  <2>2. CASE Window
    <3>1. PICK o \in Obligations : Act(o)
      BY <2>2, WindowSteps
    <3> QED BY <1>1, <2>0, <3>1 DEF Act, Past
  <2>3. CASE Restart
    BY <1>1, <2>0, <2>3 DEF Restart, Past
  <2>4. ASSUME NEW t \in Threads, Transfer(t)
        PROVE  /\ past'.restarts = past.restarts /\ (past.raced => past'.raced)
               /\ past'.torn = past.torn /\ past'.reopened = past.reopened
               /\ past'.crossed = past.crossed
    <3>1. UNCHANGED past \/ past' = [past EXCEPT !.raced = @ \/ Racing(t)]
      BY <2>4 DEF Transfer, CheckLedger, MoveCash, NoteTransfer
    <3> QED BY <1>1, <2>0, <3>1 DEF Past
  <2>5. ASSUME NEW o \in Obligations,
               SkipTask(o) \/ DecideCash(o) \/ DecidePlayer(o) \/ SubmitList(o) \/ DeferList(o)
               \/ RecordSigning(o)
        PROVE  UNCHANGED past
    BY <2>5 DEF SkipTask, DecideCash, DecidePlayer, SubmitList, DeferList, RecordSigning
  <2>6. CASE SkipDay \/ OpenPass \/ LoadTasks \/ EndPass \/ TransferPlayer \/ MissPlayer
             \/ DoneWithCash \/ ChooseForAI \/ StoreStatus \/ NewDay \/ SaveGame \/ UNCHANGED vars
    BY <2>6, <2>1 DEF SkipDay, OpenPass, LoadTasks, EndPass, TransferPlayer, MissPlayer,
                DoneWithCash, ChooseForAI, StoreStatus, NewDay, SaveGame, vars
  <2> QED BY <1>1, <2>1, <2>2, <2>3, <2>4, <2>5, <2>6 DEF Next, Pass
<1> QED BY <1>1, <1>2, <1>3

\* The steps that neither pay nor close a case.
Quiet ==
    \/ SkipDay \/ OpenPass \/ LoadTasks \/ EndPass \/ MissPlayer
    \/ NewDay \/ SaveGame \/ UNCHANGED vars
    \/ \E o \in Obligations : SkipTask(o) \/ DecidePlayer(o) \/ SubmitList(o) \/ DeferList(o)

LEMMA QuietSteps ==
    ASSUME due \in PassState, Quiet
    PROVE  /\ UNCHANGED <<status, needs, latest, ledger, at, paid, pay, past>>
           /\ \/ UNCHANGED due
              \/ due.pc \notin {"pay", "store"} /\ due'.pc \notin {"pay", "store"}
<1>1. CASE SkipDay \/ NewDay \/ SaveGame \/ UNCHANGED vars
  BY <1>1 DEF SkipDay, NewDay, SaveGame, vars, sql, memory
<1>2. CASE OpenPass \/ EndPass
  <2>1. /\ UNCHANGED <<status, needs, latest, ledger, at, paid, pay, past>>
        /\ due.pc \in {"idle", "task"}
        /\ \/ due' = IdlePass
           \/ due' = [IdlePass EXCEPT !.pc = "load", !.today = day]
    BY <1>2 DEF OpenPass, EndPass, sql, memory
  <2>2. IdlePass.pc = "idle"
    BY DEF IdlePass
  <2> QED BY <2>1, <2>2, IdlePassType DEF PassState
<1>3. CASE LoadTasks
  BY <1>3 DEF LoadTasks, sql, memory, PassState
<1>4. CASE MissPlayer
  BY <1>4 DEF MissPlayer, Drop, sql, memory, PassState
<1>5. ASSUME NEW o \in Obligations,
             SkipTask(o) \/ DecidePlayer(o) \/ SubmitList(o) \/ DeferList(o)
      PROVE  /\ UNCHANGED <<status, needs, latest, ledger, at, paid, pay, past>>
             /\ due.pc = "task" /\ due'.pc \in {"task", "transfer", "choose"}
  BY <1>5 DEF SkipTask, DecidePlayer, SubmitList, DeferList, IsAt, Drop, sql, memory, PassState
<1> QED BY <1>1, <1>2, <1>3, <1>4, <1>5 DEF Quiet

\* A player who has left the signing club stays where he is.
LEMMA PlayersStay ==
    ASSUME TypeOK, [Next]_vars, ~Restart, NEW p \in Players, at[p] # Signer
    PROVE  at'[p] = at[p]
<1>1. CASE TransferPlayer
  BY <1>1 DEF TransferPlayer, TypeOK, Clubs
<1>2. CASE Quiet
  BY <1>2, QuietSteps DEF TypeOK
<1>3. ASSUME NEW o \in Obligations, DecideCash(o) \/ RecordSigning(o) PROVE at' = at
  BY <1>3 DEF DecideCash, RecordSigning, memory
<1>4. CASE DoneWithCash \/ ChooseForAI \/ StoreStatus
  BY <1>4 DEF DoneWithCash, ChooseForAI, StoreStatus, memory
<1>5. ASSUME NEW t \in Threads, Transfer(t) PROVE at' = at
  BY <1>5 DEF Transfer, CheckLedger, MoveCash, NoteTransfer, memory
<1>6. CASE Window
  BY <1>6, WindowSteps
<1> QED BY <1>1, <1>2, <1>3, <1>4, <1>5, <1>6 DEF Next, Pass, Quiet

LEMMA InitSettled == Init => SettledInv
<1> SUFFICES ASSUME Init PROVE SettledInv
  OBVIOUS
<1>1. /\ ledger = {} /\ \A t \in Threads : pay[t].pc = "idle"
      /\ \A o \in Obligations : status[o] = "None"
      /\ due.pc = "idle"
  BY DEF Init, NoTransfer, IdlePass
<1> QED BY <1>1 DEF SettledInv, LedgerPaid, NotingPaid, PlayersGone, PassPaid, ClosedPaid,
                    StandsAs, InFlight, Closed

LEMMA SettledKept ==
    ASSUME ShapeInv, ShapeInv', SettledInv, [Next]_vars
    PROVE  SettledInv'
<1> SUFFICES ASSUME Untroubled'
             PROVE  (LedgerPaid /\ NotingPaid /\ PlayersGone /\ PassPaid /\ ClosedPaid)'
  BY DEF SettledInv
<1>0. /\ TypeOK /\ Untroubled /\ ~Restart /\ failures' = failures
      /\ LedgerPaid /\ NotingPaid /\ PlayersGone /\ PassPaid /\ ClosedPaid
      /\ PassPlaces /\ TransferPlaces
  <2>1. Untroubled /\ past.restarts \in Nat /\ failures' = failures
    BY HistoryGrows DEF Untroubled, ShapeInv
  <2>2. ~Restart
    <3>1. past \in Past
      BY DEF ShapeInv, TypeOK
    <3>2. Restart => past'.restarts = past.restarts + 1
      BY <3>1 DEF Restart, Past
    <3> QED BY <2>1, <3>2 DEF Untroubled
  <2> QED BY <2>1, <2>2 DEF SettledInv, ShapeInv
<1>t. /\ due \in PassState /\ pay \in [Threads -> TransferState] /\ paid \in Payments
      /\ status \in [Obligations -> Statuses] /\ at \in Clubs
      /\ due.o \in Obligations /\ "due" \in Threads
  BY <1>0, PassFields DEF TypeOK, Threads
<1>f. ~Fail
  BY <1>0 DEF Fail, Failing, TypeOK, Untroubled
<1>d. \A o \in Obligations : Delivered(o) => Delivered(o)'
  BY <1>0, PlayersStay, FACompensationAssumption DEF Delivered
<1>1. CASE Quiet
  BY <1>0, <1>1, <1>t, QuietSteps
  DEF LedgerPaid, NotingPaid, PlayersGone, PassPaid, ClosedPaid, StandsAs, InFlight, Delivered
<1>2. ASSUME NEW o \in Obligations, DecideCash(o)
      PROVE  (LedgerPaid /\ NotingPaid /\ PlayersGone /\ PassPaid /\ ClosedPaid)'
  <2>1. /\ UNCHANGED <<status, ledger, at, paid>>
        /\ due' = [due EXCEPT !.pc = "pay", !.o = o, !.status = "CashRecorded"]
        /\ pay' = [pay EXCEPT !["due"] = [pc |-> "check", o |-> o, kind |-> "CashOnly"]]
    BY <1>2 DEF DecideCash, Begin, Enter, sql, memory
  <2>2. due'.status = "CashRecorded" /\ pay'["due"].pc = "check"
    BY <1>t, <2>1 DEF PassState
  <2>3. (LedgerPaid /\ ClosedPaid /\ PassPaid)'
    BY <1>0, <2>1, <2>2 DEF LedgerPaid, ClosedPaid, PassPaid
  <2>4. NotingPaid'
    BY <1>0, <1>t, <2>1 DEF NotingPaid
  <2>5. PlayersGone'
    BY <1>0, <2>1, <2>2 DEF PlayersGone, StandsAs, InFlight, Delivered
  <2> QED BY <2>3, <2>4, <2>5
<1>3. CASE TransferPlayer
  <2>1. /\ UNCHANGED <<status, ledger, paid>>
        /\ at' = [at EXCEPT ![due.pick] = due.o]
        /\ due' = [due EXCEPT !.pc = "pay", !.status = "Transferred"]
        /\ pay' = [pay EXCEPT !["due"] = [pc |-> "check", o |-> due.o, kind |-> "PlayerPlusCash"]]
    BY <1>3 DEF TransferPlayer, Go, Enter, sql
  <2>2. due'.o = due.o /\ pay'["due"].pc = "check"
    BY <1>t, <2>1 DEF PassState
  <2>3. (LedgerPaid /\ ClosedPaid /\ PassPaid)'
    BY <1>0, <2>1, <2>2 DEF LedgerPaid, ClosedPaid, PassPaid
  <2>4. NotingPaid'
    BY <1>0, <1>t, <2>1 DEF NotingPaid
  <2>5. Delivered(due.o)'
    BY <1>3, <1>t, <2>1 DEF ShapeInv, PicksArePlayers, TransferPlayer, Delivered, Clubs
  <2>6. PlayersGone'
    BY <1>0, <1>d, <2>1, <2>2, <2>5 DEF PlayersGone, StandsAs, InFlight
  <2> QED BY <2>3, <2>4, <2>6
<1>4. CASE DoneWithCash
  <2>1. /\ UNCHANGED <<status, ledger, at, paid, pay>> /\ pay["due"].pc = "idle"
        /\ due.pc = "pay" /\ due' = [due EXCEPT !.pc = "store", !.status = due.status]
    BY <1>4 DEF DoneWithCash, Go, sql, memory
  <2>2. due'.o = due.o /\ due'.status = due.status
    BY <1>t, <2>1 DEF PassState
  <2> QED BY <1>0, <2>1, <2>2 DEF LedgerPaid, NotingPaid, PlayersGone, PassPaid, ClosedPaid,
                                  StandsAs, InFlight, Delivered
<1>5. CASE ChooseForAI
  <2>1. /\ UNCHANGED <<status, ledger, at, paid, pay>>
        /\ \E s \in Statuses \ Closed : due' = [due EXCEPT !.pc = "store", !.status = s]
    BY <1>5 DEF ChooseForAI, Go, sql, memory, Statuses, Closed
  <2>2. due'.status \notin Closed
    BY <1>t, <2>1 DEF PassState
  <2> QED BY <1>0, <2>1, <2>2 DEF LedgerPaid, NotingPaid, PlayersGone, PassPaid, ClosedPaid,
                                  StandsAs, InFlight, Delivered, Closed
<1>6. CASE StoreStatus
  <2>1. /\ UNCHANGED <<ledger, at, paid, pay>> /\ due.pc = "store" /\ due'.pc = "task"
        /\ status' = [status EXCEPT ![due.o] = due.status]
    <3>1. PICK n \in 0 .. 1 : PutStatus(due.o, due.status, n) /\ Failing(n)
      BY <1>6 DEF StoreStatus
    <3>2. n = 0
      BY <1>0, <3>1 DEF Failing, TypeOK
    <3> QED BY <1>6, <1>t, <3>1, <3>2 DEF StoreStatus, PutStatus, Drop, memory, PassState
  <2>2. pay["due"].pc = "idle"
    BY <1>0, <2>1 DEF TransferPlaces
  <2>3. LedgerPaid' /\ NotingPaid' /\ PassPaid'
    BY <1>0, <2>1 DEF LedgerPaid, NotingPaid, PassPaid
  <2>4. PlayersGone'
    BY <1>0, <1>t, <2>1 DEF PlayersGone, StandsAs, InFlight, Delivered
  <2>5. ClosedPaid'
    BY <1>0, <1>t, <2>1, <2>2 DEF ClosedPaid, PassPaid
  <2> QED BY <2>3, <2>4, <2>5
<1>7. ASSUME NEW t \in Threads, CheckLedger(t)
      PROVE  (LedgerPaid /\ NotingPaid /\ PlayersGone /\ PassPaid /\ ClosedPaid)'
  <2>1. /\ UNCHANGED <<status, ledger, at, paid, due>>
        /\ \/ <<pay[t].o, pay[t].kind>> \in ledger /\ pay[t].pc = "check"
              /\ pay' = [pay EXCEPT ![t].pc = "idle"]
           \/ pay' = [pay EXCEPT ![t].pc = "move"]
    BY <1>7 DEF CheckLedger, Leave, sql, memory
  <2>2. LedgerPaid' /\ PlayersGone' /\ ClosedPaid'
    BY <1>0, <2>1 DEF LedgerPaid, PlayersGone, ClosedPaid, StandsAs, InFlight, Delivered
  <2>3. NotingPaid'
    BY <1>0, <1>t, <2>1 DEF NotingPaid, TransferState
  <2>4. PassPaid'
    BY <1>0, <1>t, <2>1 DEF PassPaid, LedgerPaid, TransferPlaces, TransferState
  <2> QED BY <2>2, <2>3, <2>4
<1>8. ASSUME NEW t \in Threads, MoveCash(t)
      PROVE  (LedgerPaid /\ NotingPaid /\ PlayersGone /\ PassPaid /\ ClosedPaid)'
  <2>1. /\ UNCHANGED <<status, ledger, at, due>>
        /\ pay' = [pay EXCEPT ![t].pc = "ledger"]
    BY <1>8, <1>f DEF MoveCash, sql
  <2>2. \A o \in Obligations, k \in Kinds : paid[o][k] > 0 => paid'[o][k] > 0
    BY <1>t, <1>8, CashIsAdded
  <2>3. paid'[pay[t].o][pay[t].kind] > 0
    <3>1. \E o \in Obligations, k \in Kinds : TRUE
      BY <1>t DEF Kinds
    <3>2. pay'[t].pc = "ledger"
      BY <1>t, <2>1
    <3> QED BY <1>t, <1>8, <3>1, <3>2, CashIsAdded
  <2>4. LedgerPaid' /\ PlayersGone'
    BY <1>0, <2>1, <2>2 DEF LedgerPaid, PlayersGone, StandsAs, InFlight, Delivered
  <2>5. ClosedPaid' /\ PassPaid'
    BY <1>0, <1>t, <2>1, <2>2 DEF ClosedPaid, PassPaid, KindOf, Kinds, TransferState
  <2>6. NotingPaid'
    BY <1>0, <1>t, <2>1, <2>2, <2>3 DEF NotingPaid, TransferState
  <2> QED BY <2>4, <2>5, <2>6
<1>9. ASSUME NEW t \in Threads, NoteTransfer(t)
      PROVE  (LedgerPaid /\ NotingPaid /\ PlayersGone /\ PassPaid /\ ClosedPaid)'
  <2>1. /\ UNCHANGED <<status, at, paid, due>> /\ pay[t].pc = "ledger"
        /\ pay' = [pay EXCEPT ![t].pc = "idle"]
        /\ ledger' = ledger \cup {<<pay[t].o, pay[t].kind>>}
    BY <1>9, <1>f DEF NoteTransfer, Leave, memory
  <2>2. LedgerPaid' /\ PlayersGone' /\ ClosedPaid'
    BY <1>0, <2>1 DEF LedgerPaid, NotingPaid, PlayersGone, ClosedPaid, StandsAs, InFlight, Delivered
  <2>3. NotingPaid'
    BY <1>0, <1>t, <2>1 DEF NotingPaid, TransferState
  <2>4. PassPaid'
    BY <1>0, <1>t, <2>1 DEF PassPaid, NotingPaid, TransferPlaces, TransferState
  <2> QED BY <2>2, <2>3, <2>4
<1>10. ASSUME NEW o \in Obligations, RecordSigning(o)
       PROVE  (LedgerPaid /\ NotingPaid /\ PlayersGone /\ PassPaid /\ ClosedPaid)'
  <2>1. /\ UNCHANGED <<ledger, at, paid, due>>
        /\ status' = [status EXCEPT ![o] = "Pending"]
        /\ \/ UNCHANGED pay
           \/ pay' = [pay EXCEPT !["sign"] = [pc |-> "check", o |-> o, kind |-> "CashOnly"]]
    BY <1>10 DEF RecordSigning, Enter, memory
  <2>2. LedgerPaid' /\ PlayersGone' /\ ClosedPaid'
    BY <1>0, <1>t, <2>1 DEF LedgerPaid, PlayersGone, ClosedPaid, StandsAs, InFlight, Delivered, Closed
  <2>3. NotingPaid' /\ PassPaid'
    BY <1>0, <1>t, <2>1 DEF NotingPaid, PassPaid
  <2> QED BY <2>2, <2>3
<1>11. CASE Window
  <2>1. UNCHANGED <<due, pay, ledger, at, paid>>
    BY <1>11, WindowSteps
  <2>2. PICK o \in Obligations, s \in Statuses \ Closed :
           UNCHANGED status \/ status' = [status EXCEPT ![o] = s]
    BY <1>11, WindowSteps
  <2>3. \A x \in Obligations : status'[x] \in Closed => status'[x] = status[x]
    BY <1>t, <2>2
  <2> QED BY <1>0, <2>1, <2>3 DEF LedgerPaid, NotingPaid, PlayersGone, PassPaid, ClosedPaid,
                                  StandsAs, InFlight, Delivered, Closed
<1> QED BY <1>0, <1>1, <1>2, <1>3, <1>4, <1>5, <1>6, <1>7, <1>8, <1>9, <1>10, <1>11
        DEF Next, Pass, Transfer, Quiet

\* A record that says it is settled was, in every untroubled run: the status is
\* stored after the transfers it stands for, whose results the pass ignores.
THEOREM SettledIsPaid == Spec => []SettledMeansPaid
<1>1. ShapeInv /\ SettledInv => SettledMeansPaid
  BY DEF SettledInv, SettledMeansPaid, Untroubled, PlayersGone, ClosedPaid, StandsAs, Closed, KindOf
<1>2. ShapeInv /\ SettledInv /\ [Next]_vars => ShapeInv' /\ SettledInv'
  BY ShapeKept, SettledKept
<1> QED BY InitShape, InitSettled, <1>1, <1>2, PTL DEF Spec

LEMMA SavedIsLess ==
    ASSUME ShapeInv, NEW o \in Obligations, NEW k \in Kinds
    PROVE  /\ saved.paid[o][k] \in 0 .. 2 /\ paid[o][k] \in 0 .. 2
           /\ saved.paid[o][k] <= paid[o][k]
<1>1. saved.paid \in Payments /\ paid \in Payments
  BY DEF ShapeInv, TypeOK
<1>2. saved.paid[o][k] <= paid[o][k]
  BY DEF ShapeInv, SavedBefore
<1> QED BY <1>1, <1>2 DEF Payments

LEMMA InitOneWay == Init => OneWayInv
BY FACompensationAssumption DEF Init, OneWayInv, CashCloses, PlayerCloses, Delivered, Kinds

LEMMA OneWayKept ==
    ASSUME ShapeInv, ShapeInv', OneWayInv, [Next]_vars
    PROVE  OneWayInv'
<1> SUFFICES ASSUME failures' = 0, ~past'.torn, NEW o \in Obligations, o \notin past'.reopened
             PROVE  CashCloses(o)' /\ PlayerCloses(o)'
  BY DEF OneWayInv
<1> USE DEF CashCloses, PlayerCloses, StandsAs, InFlight
<1>0. /\ failures = 0 /\ ~past.torn /\ o \notin past.reopened
      /\ CashCloses(o) /\ PlayerCloses(o)
  BY HistoryGrows DEF ShapeInv, OneWayInv
<1>t. /\ due \in PassState /\ pay \in [Threads -> TransferState] /\ paid \in Payments
      /\ status \in [Obligations -> Statuses] /\ at \in Clubs /\ due.o \in Obligations
      /\ PassPlaces /\ TransferPlaces /\ NeedsPlayer /\ TodoIsOpen /\ past \in Past
  BY PassFields DEF ShapeInv, TypeOK
<1>f. ~Fail
  BY <1>0 DEF Fail, Failing, ShapeInv, TypeOK
\* The pass is where nothing is in flight, and the status does not change.
<1>s. ASSUME due.pc \notin {"pay", "store"}, UNCHANGED <<status, needs, paid>>,
             Delivered(o)' => Delivered(o)
      PROVE  CashCloses(o)' /\ PlayerCloses(o)'
  BY <1>0, <1>s
<1>1. CASE Quiet
  BY <1>0, <1>1, <1>t, QuietSteps DEF Delivered
<1>2. ASSUME NEW x \in Obligations, DecideCash(x) PROVE CashCloses(o)' /\ PlayerCloses(o)'
  BY <1>2, <1>s DEF DecideCash, IsAt, Delivered, sql, memory
<1>3. CASE TransferPlayer
  <2>1. /\ due.pc = "transfer" /\ UNCHANGED <<status, needs, paid>>
        /\ at' = [at EXCEPT ![due.pick] = due.o]
        /\ due' = [due EXCEPT !.pc = "pay", !.status = "Transferred"]
    BY <1>3 DEF TransferPlayer, Go, sql
  <2>2. CASE o = due.o
    <3>1. needs[o]
      BY <1>t, <2>1, <2>2 DEF PassPlaces, NeedsPlayer
    <3>2. due'.pc = "pay" /\ due'.o = o /\ due'.status = "Transferred"
      BY <1>t, <2>1, <2>2 DEF PassState
    <3> QED BY <1>0, <2>1, <3>1, <3>2
  <2>3. CASE o # due.o
    BY <1>s, <1>t, <2>1, <2>3 DEF Delivered, Clubs
  <2> QED BY <2>2, <2>3
<1>4. CASE DoneWithCash
  BY <1>0, <1>4, <1>t DEF DoneWithCash, Go, Delivered, PassState, sql, memory
<1>5. CASE ChooseForAI
  BY <1>5, <1>s DEF ChooseForAI, Delivered, memory
<1>6. CASE StoreStatus
  <2>1. /\ UNCHANGED <<needs, at, paid>> /\ due.pc = "store"
        /\ status' = [status EXCEPT ![due.o] = due.status]
    <3>1. PICK n \in 0 .. 1 : PutStatus(due.o, due.status, n) /\ Failing(n)
      BY <1>6 DEF StoreStatus
    <3>2. n = 0
      BY <1>0, <3>1 DEF Failing
    <3> QED BY <1>6, <3>1, <3>2 DEF StoreStatus, PutStatus, memory
  <2>2. CASE o = due.o
    <3>1. status[o] \notin Closed
      BY <1>t, <2>1, <2>2 DEF PassPlaces, TodoIsOpen
    <3>2. status'[o] = due.status
      BY <1>t, <2>1, <2>2
    <3> QED BY <1>0, <2>1, <3>1, <3>2 DEF Closed, Delivered
  <2>3. CASE o # due.o
    BY <1>0, <1>t, <2>1, <2>3 DEF Delivered
  <2> QED BY <2>2, <2>3
<1>7. ASSUME NEW t \in Threads, CheckLedger(t) \/ NoteTransfer(t)
      PROVE  CashCloses(o)' /\ PlayerCloses(o)'
  BY <1>0, <1>7 DEF CheckLedger, NoteTransfer, Delivered, sql, memory
<1>8. ASSUME NEW t \in Threads, MoveCash(t) PROVE CashCloses(o)' /\ PlayerCloses(o)'
  <2>1. UNCHANGED <<status, needs, at, due>> /\ pay[t].pc = "move"
    BY <1>8 DEF MoveCash, sql
  <2>2. /\ pay[t].o # o \/ pay[t].kind # "CashOnly" =>
             paid'[o]["CashOnly"] = paid[o]["CashOnly"]
        /\ pay[t].o # o \/ pay[t].kind # "PlayerPlusCash" =>
             paid'[o]["PlayerPlusCash"] = paid[o]["PlayerPlusCash"]
    BY <1>t, <1>8, CashIsAdded DEF Kinds
  <2>3. CASE pay[t].o = o /\ t = "sign"
    <3>1. ~needs[o] /\ pay[t].kind = "CashOnly"
      BY <1>t, <2>1, <2>3 DEF TransferPlaces
    <3> QED BY <1>0, <2>1, <2>2, <3>1 DEF Delivered
  <2>4. CASE pay[t].o = o /\ t = "due"
    <3>1. due.pc = "pay" /\ due.o = o /\ pay[t].kind = KindOf(due.status)
      BY <1>t, <2>1, <2>4 DEF TransferPlaces
    <3>2. CASE due.status = "CashRecorded"
      BY <1>0, <2>1, <2>2, <3>1, <3>2 DEF Delivered, KindOf
    <3>3. CASE due.status = "Transferred" /\ due.todo[o] = "player"
      BY <1>0, <1>t, <2>1, <2>2, <3>1, <3>3 DEF Delivered, KindOf, NeedsPlayer
    <3> QED BY <1>t, <3>1, <3>2, <3>3 DEF PassPlaces
  <2>5. CASE pay[t].o # o
    BY <1>0, <2>1, <2>2, <2>5 DEF Delivered
  <2> QED BY <2>3, <2>4, <2>5 DEF Threads
<1>9. ASSUME NEW x \in Obligations, RecordSigning(x) PROVE CashCloses(o)' /\ PlayerCloses(o)'
  BY <1>0, <1>9, <1>t, <1>f DEF RecordSigning, Delivered, memory
<1>10. CASE Window
  <2>1. PICK x \in Obligations : /\ Act(x) /\ status[x] # "Transferred"
                                 /\ \E s \in Statuses \ Closed :
                                       UNCHANGED status \/ status' = [status EXCEPT ![x] = s]
    BY <1>10, WindowSteps
  <2>2. UNCHANGED <<needs, due, at, paid>>
    BY <1>10, WindowSteps
  <2>3. x = o => status[o] # "CashRecorded"
    BY <1>t, <2>1 DEF Act, Past
  <2>4. status[o] \in Closed => status'[o] = status[o]
    BY <1>t, <2>1, <2>3 DEF Closed
  <2> QED BY <1>0, <2>2, <2>4 DEF Delivered, Closed
<1>11. CASE Restart
  <2>1. due = IdlePass
    BY <1>11, <1>t DEF Restart, Past
  <2>2. UNCHANGED <<status, needs>> /\ at' = saved.at /\ paid' = saved.paid
    BY <1>11 DEF Restart, sql
  <2>3. Delivered(o)' => Delivered(o)
    BY <2>2, FACompensationAssumption DEF Delivered, ShapeInv, SavedBefore
  <2>4. \A k \in Kinds : paid'[o][k] > 0 => paid[o][k] > 0
    BY <2>2, SavedIsLess
  <2>5. due.pc = "idle"
    BY <2>1 DEF IdlePass
  <2> QED BY <1>0, <2>2, <2>3, <2>4, <2>5 DEF Kinds
<1> QED BY <1>1, <1>2, <1>3, <1>4, <1>5, <1>6, <1>7, <1>8, <1>9, <1>10, <1>11
        DEF Next, Pass, Transfer, Quiet

\* No obligation is settled both with a player and without one, whatever the
\* user changes while the pass works on its copies and whenever the game is
\* started again, unless he opens a case that was settled in cash.
THEOREM OneWayOnly == Spec => []ClosedOneWay
<1>1. ShapeInv /\ OneWayInv => ClosedOneWay
  <2> SUFFICES ASSUME ShapeInv, OneWayInv, failures = 0, ~past.torn,
                      NEW o \in Obligations, o \notin past.reopened, ~OneWay(o)
               PROVE  FALSE
    BY DEF ClosedOneWay
  <2>1. StandsAs(o, "CashRecorded") /\ StandsAs(o, "Transferred")
    BY DEF OneWayInv, CashCloses, PlayerCloses, OneWay
  <2> QED BY <2>1 DEF StandsAs, InFlight, ShapeInv, PassPlaces, TodoIsOpen, Closed
<1>2. ShapeInv /\ OneWayInv /\ [Next]_vars => ShapeInv' /\ OneWayInv'
  BY ShapeKept, OneWayKept
<1> QED BY InitShape, InitOneWay, <1>1, <1>2, PTL DEF Spec

----------------------------------------------------------------------------
(* Cash moves once.                                                        *)

LEMMA NeedsConstant == ASSUME due \in PassState, [Next]_vars PROVE UNCHANGED needs
<1>1. CASE Quiet
  BY <1>1, QuietSteps
<1>2. CASE TransferPlayer \/ DoneWithCash \/ ChooseForAI \/ StoreStatus \/ Restart
  BY <1>2 DEF TransferPlayer, DoneWithCash, ChooseForAI, StoreStatus, Restart, sql
<1>3. CASE \E t \in Threads : Transfer(t)
  BY <1>3 DEF Transfer, CheckLedger, MoveCash, NoteTransfer, sql
<1>4. CASE \E o \in Obligations : DecideCash(o) \/ RecordSigning(o)
  BY <1>4 DEF DecideCash, RecordSigning, sql
<1>5. CASE Window
  BY <1>5, WindowSteps
<1> QED BY <1>1, <1>2, <1>3, <1>4, <1>5 DEF Next, Pass, Quiet

\* A thread in a transfer without a player moves the cash of no player.
LEMMA KindWithoutPlayer ==
    ASSUME ShapeInv, NEW t \in Threads, pay[t].pc # "idle", ~needs[pay[t].o]
    PROVE  pay[t].kind = "CashOnly"
<1>0. PassPlaces /\ TransferPlaces /\ NeedsPlayer /\ due.o \in Obligations
  BY PassFields DEF ShapeInv, TypeOK
<1>1. CASE t = "sign"
  BY <1>0, <1>1 DEF TransferPlaces
<1>2. CASE t = "due"
  BY <1>0, <1>2 DEF TransferPlaces, PassPlaces, NeedsPlayer, KindOf
<1> QED BY <1>1, <1>2 DEF Threads

LEMMA InitPaid == Init => CashOnlyInv /\ DecidedInv
<1> SUFFICES ASSUME Init PROVE CashOnlyInv /\ DecidedInv
  OBVIOUS
<1>1. /\ \A o \in Obligations, k \in Kinds : paid[o][k] = 0 /\ <<o, k>> \notin ledger
      /\ \A t \in Threads : pay[t].pc = "idle"
  BY DEF Init, NoTransfer
<1>2. "due" \in Threads /\ \A s \in Closed : KindOf(s) \in Kinds
  BY DEF Threads, Closed, KindOf, Kinds
<1>3. ASSUME NEW o \in Obligations PROVE CashOnlyCase(o)
  <2>1. paid[o]["CashOnly"] = 0 /\ paid[o]["PlayerPlusCash"] = 0
    BY <1>1 DEF Kinds
  <2> QED BY <1>1, <2>1 DEF CashOnlyCase
<1>4. ASSUME NEW o \in Obligations, NEW s \in Closed PROVE DecidedCase(o, s)
  <2>1. paid[o][KindOf(s)] = 0 /\ <<o, KindOf(s)>> \notin ledger /\ ~Paying(o, KindOf(s))
    BY <1>1, <1>2 DEF Paying
  <2> QED BY <2>1 DEF DecidedCase
<1> QED BY <1>3, <1>4 DEF CashOnlyInv, DecidedInv

LEMMA CashOnlyKept ==
    ASSUME ShapeInv, ShapeInv', CashOnlyInv, [Next]_vars
    PROVE  CashOnlyInv'
<1>n. UNCHANGED needs
  BY NeedsConstant DEF ShapeInv, TypeOK
<1> SUFFICES ASSUME failures' = 0, ~past'.raced, ~past'.torn,
                    NEW o \in Obligations, ~needs[o]
             PROVE  CashOnlyCase(o)'
  BY <1>n DEF CashOnlyInv
<1> USE DEF CashOnlyCase
<1>0. failures = 0 /\ ~past.raced /\ ~past.torn /\ CashOnlyCase(o)
  BY HistoryGrows DEF ShapeInv, CashOnlyInv
<1>t. /\ due \in PassState /\ pay \in [Threads -> TransferState] /\ paid \in Payments
      /\ TransferPlaces /\ past \in Past /\ failures \in Nat
      /\ "due" \in Threads /\ "sign" \in Threads
  BY BoundsAreNaturals DEF ShapeInv, TypeOK, Threads
<1>f. ~Fail
  BY <1>0 DEF Fail, Failing
<1>s. ASSUME UNCHANGED <<paid, ledger, pay>> PROVE CashOnlyCase(o)'
  BY <1>0, <1>s
\* A thread that was idle looks at the ledger.
<1>e. ASSUME NEW t \in Threads, NEW x, NEW kind, pay[t].pc = "idle",
             UNCHANGED <<paid, ledger>>, Enter(t, x, kind)
      PROVE  CashOnlyCase(o)'
  <2>1. /\ pay'[t].pc = "check" /\ pay'[t].o = x
        /\ \A u \in Threads \ {t} : pay'[u] = pay[u]
    BY <1>e, <1>t DEF Enter
  <2> QED BY <1>0, <1>e, <2>1
<1>1. CASE Quiet
  BY <1>1, <1>t, <1>s, QuietSteps
<1>2. CASE DoneWithCash \/ ChooseForAI \/ StoreStatus \/ Window
  BY <1>2, <1>s, WindowSteps DEF DoneWithCash, ChooseForAI, StoreStatus, sql, memory
<1>3. ASSUME NEW x \in Obligations, DecideCash(x) PROVE CashOnlyCase(o)'
  BY <1>3, <1>e, <1>t DEF DecideCash, IsAt, TransferPlaces, sql, memory
<1>4. CASE TransferPlayer
  BY <1>4, <1>e, <1>t DEF TransferPlayer, TransferPlaces, sql
<1>5. ASSUME NEW x \in Obligations, RecordSigning(x) PROVE CashOnlyCase(o)'
  BY <1>5, <1>e, <1>s, <1>t DEF RecordSigning, memory
<1>6. ASSUME NEW t \in Threads, CheckLedger(t) PROVE CashOnlyCase(o)'
  <2>1. UNCHANGED <<paid, ledger>> /\ pay[t].pc = "check"
    BY <1>6 DEF CheckLedger, sql, memory
  <2>2. CASE Leave(t)
    <3>1. pay'[t].pc = "idle" /\ \A u \in Threads \ {t} : pay'[u] = pay[u]
      BY <1>t, <2>2 DEF Leave
    <3> QED BY <1>0, <2>1, <3>1
  <2>3. CASE /\ <<pay[t].o, pay[t].kind>> \notin ledger
             /\ pay' = [pay EXCEPT ![t].pc = "move"]
             /\ past' = [past EXCEPT !.raced = @ \/ Racing(t)]
    <3>1. ~Racing(t)
      BY <1>t, <2>3 DEF Past
    <3>2. /\ pay'[t].pc = "move" /\ pay'[t].o = pay[t].o
          /\ \A u \in Threads \ {t} : pay'[u] = pay[u]
      BY <1>t, <2>3 DEF TransferState
    <3>3. CASE pay[t].o # o
      BY <1>0, <2>1, <3>2, <3>3
    <3>4. CASE pay[t].o = o
      <4>1. ASSUME NEW u \in Threads \ {t}, pay[u].o = o, pay[u].pc \in {"move", "ledger"}
            PROVE  FALSE
        <5>1. pay[u].kind = "CashOnly" /\ pay[t].kind = "CashOnly"
          BY <2>1, <3>4, <4>1, KindWithoutPlayer
        <5>2. pay[u] = [pay[t] EXCEPT !.pc = pay[u].pc]
          BY <1>t, <3>4, <4>1, <5>1 DEF TransferState
        <5> QED BY <3>1, <4>1, <5>2 DEF Racing
      <4>2. pay[t].kind = "CashOnly"
        BY <2>1, <3>4, KindWithoutPlayer
      <4>3. paid[o]["CashOnly"] = 0
        <5>1. paid[o]["CashOnly"] \in 0 .. 2
          BY <1>t DEF Payments, Kinds
        <5> QED BY <1>0, <2>1, <2>3, <3>4, <4>1, <4>2, <5>1
      <4> QED BY <1>0, <2>1, <3>2, <3>4, <4>1, <4>3
    <3> QED BY <3>3, <3>4
  <2> QED BY <1>6, <1>f, <2>2, <2>3 DEF CheckLedger
<1>7. ASSUME NEW t \in Threads, MoveCash(t) PROVE CashOnlyCase(o)'
  <2>1. UNCHANGED ledger /\ pay[t].pc = "move" /\ pay' = [pay EXCEPT ![t].pc = "ledger"]
    BY <1>7, <1>f DEF MoveCash, sql
  <2>2. /\ pay'[t].pc = "ledger" /\ pay'[t].o = pay[t].o
        /\ \A u \in Threads \ {t} : pay'[u] = pay[u]
    BY <1>t, <2>1 DEF TransferState
  <2>3. /\ paid[o]["CashOnly"] \in 0 .. 2 /\ paid'[o]["CashOnly"] \in 0 .. 2
        /\ paid'[o]["CashOnly"] <= paid[o]["CashOnly"] + 1
        /\ pay[t].o # o => paid'[o]["CashOnly"] = paid[o]["CashOnly"]
        /\ pay[t].o # o \/ pay[t].kind # "PlayerPlusCash" =>
             paid'[o]["PlayerPlusCash"] = paid[o]["PlayerPlusCash"]
    BY <1>t, <1>7, CashIsAdded DEF Kinds
  <2>4. CASE pay[t].o = o
    <3>1. pay[t].kind = "CashOnly"
      BY <2>1, <2>4, KindWithoutPlayer
    <3> QED BY <1>0, <2>1, <2>2, <2>3, <2>4, <3>1
  <2>5. CASE pay[t].o # o
    BY <1>0, <2>1, <2>2, <2>3, <2>5
  <2> QED BY <2>4, <2>5
<1>8. ASSUME NEW t \in Threads, NoteTransfer(t) PROVE CashOnlyCase(o)'
  <2>1. /\ UNCHANGED paid /\ pay[t].pc = "ledger" /\ pay' = [pay EXCEPT ![t].pc = "idle"]
        /\ ledger' = ledger \cup {<<pay[t].o, pay[t].kind>>}
    BY <1>8, <1>f DEF NoteTransfer, Leave, memory
  <2>2. pay'[t].pc = "idle" /\ \A u \in Threads \ {t} : pay'[u] = pay[u]
    BY <1>t, <2>1
  <2>3. CASE pay[t].o = o
    <3>1. pay[t].kind = "CashOnly"
      BY <2>1, <2>3, KindWithoutPlayer
    <3> QED BY <1>0, <2>1, <2>2, <2>3, <3>1
  <2>4. CASE pay[t].o # o
    BY <1>0, <2>1, <2>2, <2>4
  <2> QED BY <2>3, <2>4
<1>9. CASE Restart
  <2>1. UNCHANGED ledger /\ paid' = saved.paid
    BY <1>9 DEF Restart, sql
  <2>2. \A t \in Threads : pay[t].pc = "idle"
    BY <1>9, <1>t DEF Restart, Past
  <2>3. \A t \in Threads : pay'[t].pc = "idle"
    BY <1>9 DEF Restart, NoTransfer
  <2>4. \A k \in Kinds : paid'[o][k] \in 0 .. 2 /\ paid[o][k] \in 0 .. 2 /\ paid'[o][k] <= paid[o][k]
    BY <2>1, SavedIsLess
  <2> QED BY <1>0, <2>1, <2>2, <2>3, <2>4 DEF Kinds
<1> QED BY <1>1, <1>2, <1>3, <1>4, <1>5, <1>6, <1>7, <1>8, <1>9
        DEF Next, Pass, Transfer, Quiet

LEMMA DecidedKept ==
    ASSUME ShapeInv, ShapeInv', DecidedInv, [Next]_vars
    PROVE  DecidedInv'
<1>n. UNCHANGED needs
  BY NeedsConstant DEF ShapeInv, TypeOK
<1> SUFFICES ASSUME failures' <= 1, ~past'.torn, NEW o \in Obligations, o \notin past'.reopened,
                    NEW s \in Closed, needs[o]
             PROVE  DecidedCase(o, s)'
  BY <1>n DEF DecidedInv
<1> DEFINE k == KindOf(s)
<1>0. /\ failures \in 0 .. 1 /\ failures' \in 0 .. 1 /\ failures <= failures'
      /\ ~past.torn /\ o \notin past.reopened /\ DecidedCase(o, s)
  BY HistoryGrows DEF ShapeInv, DecidedInv
<1>t. /\ due \in PassState /\ pay \in [Threads -> TransferState] /\ paid \in Payments
      /\ status \in [Obligations -> Statuses] /\ due.o \in Obligations
      /\ PassPlaces /\ TransferPlaces /\ TodoIsOpen /\ past \in Past
      /\ "due" \in Threads /\ "sign" \in Threads /\ k \in Kinds
  BY PassFields DEF ShapeInv, TypeOK, Threads, Closed, KindOf, Kinds
<1>k. paid[o][k] \in 0 .. 2
  BY <1>t DEF Payments
<1> HIDE DEF k
<1>c. DecidedCase(o, s) <=>
        /\ paid[o][k] <= 1
        /\ failures = 0 /\ (paid[o][k] > 0 \/ <<o, k>> \in ledger) => StandsAs(o, s)
        /\ paid[o][k] > 0 =>
             \/ <<o, k>> \in ledger
             \/ Paying(o, k) /\ pay["due"].pc = "ledger"
             \/ failures = 1 /\ ~Paying(o, k) /\ StandsAs(o, s)
        /\ Paying(o, k) /\ pay["due"].pc = "check" /\ failures = 0 =>
             <<o, k>> \notin ledger /\ paid[o][k] = 0
        /\ Paying(o, k) /\ pay["due"].pc = "move" => paid[o][k] = 0
  BY DEF DecidedCase, k
<1>p. DecidedCase(o, s)' <=>
        /\ paid'[o][k] <= 1
        /\ failures' = 0 /\ (paid'[o][k] > 0 \/ <<o, k>> \in ledger') => StandsAs(o, s)'
        /\ paid'[o][k] > 0 =>
             \/ <<o, k>> \in ledger'
             \/ Paying(o, k)' /\ pay'["due"].pc = "ledger"
             \/ failures' = 1 /\ ~Paying(o, k)' /\ StandsAs(o, s)'
        /\ Paying(o, k)' /\ pay'["due"].pc = "check" /\ failures' = 0 =>
             <<o, k>> \notin ledger' /\ paid'[o][k] = 0
        /\ Paying(o, k)' /\ pay'["due"].pc = "move" => paid'[o][k] = 0
  BY DEF DecidedCase, k
\* The pass does not move this cash, and the case stays closed if it was.
<1>s. ASSUME paid'[o][k] = paid[o][k], <<o, k>> \in ledger' <=> <<o, k>> \in ledger,
             pay'["due"] = pay["due"], StandsAs(o, s) => StandsAs(o, s)'
      PROVE  DecidedCase(o, s)'
  BY <1>0, <1>c, <1>p, <1>s DEF Paying
\* The case is open when the pass enters the transfer.
<1>e. ASSUME NEW x \in Obligations, NEW kind \in Kinds, NEW c \in Closed, kind = KindOf(c),
             due.pc \in {"task", "transfer"}, due.todo[x] # "none",
             UNCHANGED <<paid, ledger, status>>, failures' = failures, Enter("due", x, kind),
             due'.pc = "pay" /\ due'.o = x /\ due'.status = c
      PROVE  DecidedCase(o, s)'
  <2>1. /\ pay["due"].pc = "idle" /\ pay'["due"] = [pc |-> "check", o |-> x, kind |-> kind]
    BY <1>e, <1>t DEF Enter, TransferPlaces
  <2>2. ~InFlight(o, s)
    BY <1>e DEF InFlight
  <2>3. CASE x = o
    <3>1. ~StandsAs(o, s)
      BY <1>e, <1>t, <2>2, <2>3 DEF StandsAs, TodoIsOpen
    <3>2. kind = k <=> c = s
      BY <1>e DEF k, KindOf, Closed
    <3>3. Paying(o, k)' <=> kind = k
      BY <2>1, <2>3 DEF Paying
    <3>4. c = s => StandsAs(o, s)'
      BY <1>e, <2>3 DEF StandsAs, InFlight
    <3>5. failures = 0 => <<o, k>> \notin ledger /\ paid[o][k] = 0
      BY <1>0, <1>c, <1>k, <3>1
    <3>6. paid[o][k] > 0 => <<o, k>> \in ledger
      BY <1>0, <1>c, <2>1, <3>1 DEF Paying
    <3>7. pay'["due"].pc = "check"
      BY <2>1
    <3> QED BY <1>0, <1>c, <1>e, <1>p, <3>2, <3>3, <3>4, <3>5, <3>6, <3>7
  <2>4. CASE x # o
    <3>1. ~Paying(o, k) /\ ~Paying(o, k)'
      BY <2>1, <2>4 DEF Paying
    <3>2. StandsAs(o, s) => StandsAs(o, s)'
      BY <1>e, <2>2 DEF StandsAs
    <3> QED BY <1>0, <1>c, <1>e, <1>p, <3>1, <3>2
  <2> QED BY <2>3, <2>4
<1>1. CASE Quiet
  <2>1. UNCHANGED <<paid, ledger, pay, status>>
    BY <1>1, <1>t, QuietSteps
  <2>2. StandsAs(o, s) => StandsAs(o, s)'
    BY <1>1, <1>t, QuietSteps DEF StandsAs, InFlight
  <2> QED BY <1>s, <2>1, <2>2
<1>2. ASSUME NEW x \in Obligations, DecideCash(x) PROVE DecidedCase(o, s)'
  <2>1. /\ due.pc = "task" /\ due.todo[x] # "none"
        /\ UNCHANGED <<paid, ledger, status>> /\ failures' = failures
        /\ Enter("due", x, "CashOnly")
        /\ due' = [due EXCEPT !.pc = "pay", !.o = x, !.status = "CashRecorded"]
    BY <1>2 DEF DecideCash, IsAt, Begin, sql, memory
  <2>2. due'.pc = "pay" /\ due'.o = x /\ due'.status = "CashRecorded"
    BY <1>t, <2>1 DEF PassState
  <2>3. "CashRecorded" \in Closed /\ "CashOnly" \in Kinds /\ "CashOnly" = KindOf("CashRecorded")
    BY DEF Closed, Kinds, KindOf
  <2> QED BY <1>e, <2>1, <2>2, <2>3
<1>3. CASE TransferPlayer
  <2>1. /\ due.pc = "transfer" /\ due.todo[due.o] # "none"
        /\ UNCHANGED <<paid, ledger, status>> /\ failures' = failures
        /\ Enter("due", due.o, "PlayerPlusCash")
        /\ due' = [due EXCEPT !.pc = "pay", !.status = "Transferred"]
    BY <1>3, <1>t DEF TransferPlayer, PassPlaces, Go, sql
  <2>2. due'.pc = "pay" /\ due'.o = due.o /\ due'.status = "Transferred"
    BY <1>t, <2>1 DEF PassState
  <2>3. "Transferred" \in Closed /\ "PlayerPlusCash" \in Kinds
        /\ "PlayerPlusCash" = KindOf("Transferred")
    BY DEF Closed, Kinds, KindOf
  <2> QED BY <1>e, <1>t, <2>1, <2>2, <2>3
<1>4. CASE DoneWithCash
  <2>1. UNCHANGED <<paid, ledger, pay, status>> /\ due.pc = "pay"
        /\ due' = [due EXCEPT !.pc = "store", !.status = due.status]
    BY <1>4 DEF DoneWithCash, Go, sql, memory
  <2>2. StandsAs(o, s) => StandsAs(o, s)'
    BY <1>t, <2>1 DEF StandsAs, InFlight, PassState
  <2> QED BY <1>s, <2>1, <2>2
<1>5. CASE ChooseForAI
  <2>1. UNCHANGED <<paid, ledger, pay, status>> /\ due.pc = "choose"
    BY <1>5 DEF ChooseForAI, memory
  <2>2. StandsAs(o, s) => StandsAs(o, s)'
    BY <2>1 DEF StandsAs, InFlight
  <2> QED BY <1>s, <2>1, <2>2
<1>6. CASE StoreStatus
  <2>1. UNCHANGED <<paid, ledger, pay>> /\ due.pc = "store"
    BY <1>6 DEF StoreStatus, memory
  <2>2. pay["due"].pc = "idle" /\ ~Paying(o, k) /\ ~Paying(o, k)'
    BY <1>t, <2>1 DEF TransferPlaces, Paying
  <2>3. PICK n \in 0 .. 1 : PutStatus(due.o, due.status, n) /\ Failing(n)
    BY <1>6 DEF StoreStatus
  <2>4. CASE n = 0
    <3>1. status' = [status EXCEPT ![due.o] = due.status]
      BY <2>3, <2>4 DEF PutStatus
    <3>2. due.o = o => status[o] \notin Closed
      BY <1>t, <2>1 DEF PassPlaces, TodoIsOpen
    <3>3. StandsAs(o, s) => StandsAs(o, s)'
      BY <1>t, <3>1, <3>2 DEF StandsAs, InFlight
    <3> QED BY <1>s, <2>1, <3>3
  <2>5. CASE n = 1
    <3>1. failures = 0 /\ failures' = 1
      BY <1>0, <2>3, <2>5 DEF Failing
    <3> QED BY <1>c, <1>0, <1>p, <2>1, <2>2, <3>1
  <2> QED BY <2>4, <2>5
\* The thread of the signing pays for an obligation that needs no decision.
<1>7. ASSUME Transfer("sign") PROVE DecidedCase(o, s)'
  <2>1. pay["sign"].pc # "idle"
    BY <1>7 DEF Transfer, CheckLedger, MoveCash, NoteTransfer
  <2>2. pay["sign"].o # o
    BY <1>t, <2>1 DEF TransferPlaces
  <2>3. pay'["due"] = pay["due"] /\ UNCHANGED <<due, status>>
    BY <1>7, <1>t DEF Transfer, CheckLedger, MoveCash, NoteTransfer, Leave, sql
  <2>4. <<o, k>> \in ledger' <=> <<o, k>> \in ledger
    BY <1>7, <2>2 DEF Transfer, CheckLedger, MoveCash, NoteTransfer, sql
  <2>5. paid'[o][k] = paid[o][k]
    <3>1. CASE MoveCash("sign")
      BY <1>t, <2>2, <3>1, CashIsAdded
    <3>2. CASE CheckLedger("sign") \/ NoteTransfer("sign")
      BY <3>2 DEF CheckLedger, NoteTransfer, memory
    <3> QED BY <1>7, <3>1, <3>2 DEF Transfer
  <2> QED BY <1>s, <2>3, <2>4, <2>5 DEF StandsAs, InFlight
\* What the pass pays, it is about to store.
<1>i. ASSUME Paying(o, k) PROVE InFlight(o, s)
  BY <1>i, <1>t DEF Paying, TransferPlaces, InFlight, PassPlaces, k, KindOf, Closed
<1>8. CASE CheckLedger("due")
  <2>1. UNCHANGED <<paid, ledger, due, status>> /\ pay["due"].pc = "check"
    BY <1>8 DEF CheckLedger, sql, memory
  <2>2. StandsAs(o, s)' <=> StandsAs(o, s)
    BY <2>1 DEF StandsAs, InFlight
  <2>3. CASE <<pay["due"].o, pay["due"].kind>> \in ledger /\ Leave("due") /\ failures' = failures
    <3>1. pay'["due"].pc = "idle"
      BY <1>t, <2>3 DEF Leave
    <3>2. ~Paying(o, k)'
      BY <3>1 DEF Paying
    <3>3. Paying(o, k) => <<o, k>> \in ledger
      BY <2>3 DEF Paying
    <3> QED BY <1>0, <1>c, <1>p, <2>1, <2>2, <2>3, <3>2, <3>3
  <2>4. CASE /\ pay' = [pay EXCEPT !["due"].pc = "move"]
             /\ \/ <<pay["due"].o, pay["due"].kind>> \notin ledger /\ failures' = failures
                \/ <<pay["due"].o, pay["due"].kind>> \in ledger /\ Fail
    <3>1. pay'["due"].pc = "move" /\ (Paying(o, k)' <=> Paying(o, k))
      BY <1>t, <2>1, <2>4 DEF Paying, TransferState
    <3>2. CASE Paying(o, k)
      <4>1. Fail => failures = 0
        BY <1>0 DEF Fail, Failing
      <4>2. <<o, k>> \notin ledger /\ failures' = failures
        BY <1>c, <1>0, <2>1, <2>4, <3>2, <4>1 DEF Paying
      <4> QED BY <1>0, <1>c, <1>k, <1>p, <2>1, <2>2, <3>1, <3>2, <4>2
    <3>3. CASE ~Paying(o, k)
      BY <1>0, <1>c, <1>p, <2>1, <2>2, <3>1, <3>3
    <3> QED BY <3>2, <3>3
  <2> QED BY <1>8, <2>3, <2>4 DEF CheckLedger
<1>9. CASE MoveCash("due")
  <2>1. UNCHANGED <<ledger, due, status>> /\ pay["due"].pc = "move"
    BY <1>9 DEF MoveCash, sql
  <2>2. StandsAs(o, s)' <=> StandsAs(o, s)
    BY <2>1 DEF StandsAs, InFlight
  <2>3. /\ paid'[o][k] \in 0 .. 2 /\ paid'[o][k] <= paid[o][k] + 1
        /\ ~Paying(o, k) => paid'[o][k] = paid[o][k]
        /\ pay'["due"].pc \in {"idle", "ledger"}
        /\ pay'["due"].pc = "idle" => paid' = paid
    BY <1>9, <1>t, <2>1, CashIsAdded DEF Paying
  <2>4. pay'["due"].o = pay["due"].o /\ pay'["due"].kind = pay["due"].kind
    BY <1>9, <1>t DEF MoveCash, Leave, TransferState
  <2>5. CASE Paying(o, k)
    <3>1. paid[o][k] = 0 /\ StandsAs(o, s)
      BY <1>c, <1>0, <1>i, <2>1, <2>5 DEF StandsAs
    <3>2. Paying(o, k)' <=> pay'["due"].pc = "ledger"
      BY <2>3, <2>4, <2>5 DEF Paying
    <3>3. pay'["due"].pc = "idle" => paid'[o][k] = 0
      BY <2>3, <3>1
    <3> QED BY <1>0, <1>c, <1>k, <1>p, <2>1, <2>2, <2>3, <3>1, <3>2, <3>3
  <2>6. CASE ~Paying(o, k)
    <3>1. ~Paying(o, k)'
      BY <2>1, <2>4, <2>6 DEF Paying
    <3> QED BY <1>0, <1>c, <1>p, <2>1, <2>2, <2>3, <2>6, <3>1
  <2> QED BY <2>5, <2>6
<1>10. CASE NoteTransfer("due")
  <2>1. /\ UNCHANGED <<paid, due, status>> /\ pay["due"].pc = "ledger"
        /\ pay' = [pay EXCEPT !["due"].pc = "idle"]
        /\ \/ ledger' = ledger \cup {<<pay["due"].o, pay["due"].kind>>} /\ failures' = failures
           \/ ledger' = ledger /\ Fail
    BY <1>10 DEF NoteTransfer, Leave, memory
  <2>2. (StandsAs(o, s)' <=> StandsAs(o, s)) /\ ~Paying(o, k)'
    BY <1>t, <2>1 DEF StandsAs, InFlight, Paying
  <2>3. CASE Paying(o, k)
    <3>1. StandsAs(o, s)
      BY <1>i, <2>3 DEF StandsAs
    <3>2. <<o, k>> \in ledger' \/ failures' = 1
      BY <1>0, <2>1, <2>3 DEF Paying, Fail, Failing
    <3> QED BY <1>0, <1>c, <1>p, <2>1, <2>2, <3>1, <3>2
  <2>4. CASE ~Paying(o, k)
    <3>1. <<o, k>> \in ledger' <=> <<o, k>> \in ledger
      BY <2>1, <2>4 DEF Paying
    <3> QED BY <1>0, <1>c, <1>p, <2>1, <2>2, <2>4, <3>1
  <2> QED BY <2>3, <2>4
<1>11. ASSUME NEW x \in Obligations, RecordSigning(x) PROVE DecidedCase(o, s)'
  <2>1. /\ UNCHANGED <<paid, ledger, due>> /\ pay'["due"] = pay["due"]
        /\ status' = [status EXCEPT ![x] = "Pending"]
        /\ status[x] = "None" \/ Fail
    BY <1>11, <1>t DEF RecordSigning, Enter, memory
  <2>2. CASE x # o \/ status[o] = "None"
    <3>1. StandsAs(o, s) => StandsAs(o, s)'
      BY <1>t, <2>1, <2>2 DEF StandsAs, InFlight, Closed
    <3> QED BY <1>s, <2>1, <3>1
  <2>3. CASE Fail
    <3>1. failures = 0 /\ failures' = 1
      BY <1>0, <2>3 DEF Fail, Failing
    <3>2. Paying(o, k)' <=> Paying(o, k)
      BY <2>1 DEF Paying
    <3> QED BY <1>0, <1>c, <1>p, <2>1, <3>1, <3>2
  <2> QED BY <2>1, <2>2, <2>3
<1>12. CASE Window
  <2>1. PICK x \in Obligations : /\ Act(x) /\ status[x] # "Transferred"
                                 /\ \E c \in Statuses \ Closed :
                                       UNCHANGED status \/ status' = [status EXCEPT ![x] = c]
    BY <1>12, WindowSteps
  <2>2. UNCHANGED <<due, paid, ledger, pay>>
    BY <1>12, WindowSteps
  <2>3. x = o => status[o] # "CashRecorded"
    BY <1>0, <1>t, <2>1 DEF Act, Past
  <2>4. status[o] \in Closed => status'[o] = status[o]
    BY <1>t, <2>1, <2>3 DEF Closed
  <2>5. StandsAs(o, s) => StandsAs(o, s)'
    BY <2>2, <2>4 DEF StandsAs, InFlight
  <2> QED BY <1>s, <2>2, <2>5
<1>13. CASE Restart
  <2>1. UNCHANGED <<status, ledger>> /\ paid' = saved.paid /\ failures' = failures
    BY <1>13 DEF Restart, sql
  <2>2. due = IdlePass /\ pay["due"].pc = "idle" /\ pay'["due"].pc = "idle"
    BY <1>13, <1>t DEF Restart, Past, NoTransfer
  <2>3. due.pc = "idle"
    BY <2>2 DEF IdlePass
  <2>4. ~Paying(o, k) /\ ~Paying(o, k)' /\ (StandsAs(o, s) => StandsAs(o, s)')
    BY <2>1, <2>2, <2>3 DEF Paying, StandsAs, InFlight
  <2>5. paid'[o][k] \in 0 .. 2 /\ paid'[o][k] <= paid[o][k]
    BY <1>t, <2>1, SavedIsLess
  <2> QED BY <1>0, <1>c, <1>k, <1>p, <2>1, <2>4, <2>5
<1> QED BY <1>1, <1>2, <1>3, <1>4, <1>5, <1>6, <1>7, <1>8, <1>9, <1>10, <1>11, <1>12, <1>13
        DEF Next, Pass, Transfer, Threads, Quiet

\* Each kind of cash moves at most once for an obligation: unless two (without
\* a decision: one) operations fail, two threads meet in one transfer, the game
\* ends within a pass, or the user opens a closed case.
THEOREM CashMovesOnce == Spec => []PaidOnce
<1>1. ShapeInv /\ CashOnlyInv /\ DecidedInv => PaidOnce
  <2> SUFFICES ASSUME ShapeInv, CashOnlyInv, DecidedInv, ~past.raced, ~past.torn,
                      NEW o \in Obligations, o \notin past.reopened, NEW k \in Kinds,
                      failures < (IF needs[o] THEN 2 ELSE 1)
               PROVE  paid[o][k] <= 1
    BY DEF PaidOnce
  <2>1. failures \in Nat
    BY BoundsAreNaturals DEF ShapeInv, TypeOK
  <2>2. CASE needs[o]
    <3>1. PICK s \in Closed : KindOf(s) = k
      BY DEF Closed, KindOf, Kinds
    <3>2. failures <= 1
      BY <2>1, <2>2
    <3>3. DecidedCase(o, s)
      BY <2>2, <3>2 DEF DecidedInv
    <3> QED BY <3>1, <3>3 DEF DecidedCase
  <2>3. CASE ~needs[o]
    <3>1. CashOnlyCase(o)
      BY <2>1, <2>3 DEF CashOnlyInv
    <3>2. k = "CashOnly" \/ k = "PlayerPlusCash"
      BY DEF Kinds
    <3>3. paid[o][k] \in 0 .. 2
      BY SavedIsLess
    <3> QED BY <3>1, <3>2, <3>3 DEF CashOnlyCase
  <2> QED BY <2>2, <2>3
<1>2. ShapeInv /\ CashOnlyInv /\ DecidedInv /\ [Next]_vars
      => ShapeInv' /\ CashOnlyInv' /\ DecidedInv'
  BY ShapeKept, CashOnlyKept, DecidedKept
<1> QED BY InitShape, InitPaid, <1>1, <1>2, PTL DEF Spec

----------------------------------------------------------------------------
(* Decisions.                                                              *)

\* A decision that is dated no earlier than the one in force is found.
LEMMA DecidedIsFound ==
    ASSUME latest \in [FreeAgents -> Decision], NEW o \in Obligations, NEW action, NEW pick,
           NEW on \in Nat, latest[Fa[o]].on <= on
    PROVE  Decided(o, action, pick, on)[Fa[o]].action = action
<1>1. Fa[o] \in FreeAgents /\ latest[Fa[o]].on \in Nat
  BY FACompensationAssumption, BoundsAreNaturals DEF Decision
<1> QED BY <1>1 DEF Decided

\* A choice without a failure stores a status and the decision it stands for.
ChoosesFor(o) ==
    \/ /\ status' = [status EXCEPT ![o] = "CashSelected"]
       /\ latest' = Decided(o, "CashOnly", Nobody, day)
    \/ /\ status' = [status EXCEPT ![o] = "PlayerSelected"]
       /\ \E pick : latest' = Decided(o, "Player", pick, day)

LEMMA WindowDecides ==
    ASSUME Window, failures' = failures, failures \in Nat
    PROVE  \E o \in Obligations : Act(o) /\ ChoosesFor(o)
<1> USE DEF ChoosesFor
<1>f. \A n \in Nat : Failing(n) => n = 0
  BY DEF Failing
<1>1. ASSUME NEW f \in FreeAgents, SubmitByHand(f)
      PROVE  \E o \in Obligations : Act(o) /\ ChoosesFor(o)
  <2>1. PICK o \in First(f) : /\ Act(o)
                              /\ \E pick, s, n, m :
                                   /\ n \in Nat /\ m \in Nat /\ Failing(n + m)
                                   /\ Choose(o, pick, day, s, n) /\ PutStatus(o, s, m)
    <3>1. PICK o \in First(f) :
             /\ Act(o)
             /\ \E S \in Candidates : \E list \in SetToSeqs(S) :
                  \/ Fail
                  \/ \E s \in {"CashSelected", "PlayerSelected", "Recorded"}, n, m \in 0 .. 1 :
                        Choose(o, Offered(list), day, s, n) /\ PutStatus(o, s, m) /\ Failing(n + m)
      BY <1>1 DEF SubmitByHand
    <3>2. ~Fail
      BY <1>f DEF Fail
    <3>3. 0 .. 1 \subseteq Nat
      OBVIOUS
    <3> QED BY <3>1, <3>2, <3>3
  <2>2. PICK pick, s, n, m : /\ n \in Nat /\ m \in Nat /\ Failing(n + m)
                             /\ Choose(o, pick, day, s, n) /\ PutStatus(o, s, m)
    BY <2>1
  <2>3. n = 0 /\ m = 0
    <3>1. n + m \in Nat /\ n + m = 0
      BY <1>f, <2>2
    <3> QED BY <2>2, <3>1
  <2> QED BY <2>1, <2>2, <2>3, FirstIsStored DEF Choose, PutStatus
<1>2. ASSUME NEW f \in FreeAgents, NEW p \in Players, SelectPlayer(f, p)
      PROVE  \E o \in Obligations : Act(o) /\ ChoosesFor(o)
  BY <1>2, <1>f, FirstIsStored DEF SelectPlayer, PutStatus
<1>3. ASSUME NEW f \in FreeAgents, SelectCash(f)
      PROVE  \E o \in Obligations : Act(o) /\ ChoosesFor(o)
  BY <1>3, <1>f, FirstIsStored DEF SelectCash, PutStatus
<1> QED BY <1>1, <1>2, <1>3 DEF Window

LEMMA InitWait == Init => WaitInv
<1> SUFFICES ASSUME Init PROVE WaitInv
  OBVIOUS
<1>1. /\ day = 1 /\ \A f \in FreeAgents : latest[f] = NoDecision
      /\ \A o \in Obligations : status[o] = "None" /\ due.todo[o] = "none"
      /\ due.pc = "idle" /\ due.today = 0
  BY DEF Init, IdlePass, NoTasks
<1>2. \A o \in Obligations : Fa[o] \in FreeAgents
  BY FACompensationAssumption
<1>3. DatesPassed
  BY <1>1 DEF DatesPassed, NoDecision
<1>4. \A o \in Obligations : WaitCase(o)
  BY <1>1, <1>2 DEF WaitCase, StandsAs, InFlight
<1> QED BY <1>3, <1>4 DEF WaitInv

\* The pass works on a day that has come.
LEMMA TodayHasCome ==
    ASSUME TypeOK, due.today <= day, [Next]_vars, ~Restart
    PROVE  due'.today <= day' /\ day <= day'
<1>t. due \in PassState /\ day \in 1 .. MaxDay
  BY DEF TypeOK
<1>1. CASE NewDay
  BY <1>1, <1>t, BoundsAreNaturals DEF NewDay, Bounded, PassState
<1>2. CASE OpenPass \/ EndPass
  <2>1. /\ UNCHANGED day
        /\ due' = IdlePass \/ due' = [IdlePass EXCEPT !.pc = "load", !.today = day]
    BY <1>2 DEF OpenPass, EndPass
  <2>2. IdlePass.today = 0
    BY DEF IdlePass
  <2>3. due'.today = 0 \/ due'.today = day
    BY <2>1, <2>2, IdlePassType DEF PassState
  <2> QED BY <1>t, <2>1, <2>3, BoundsAreNaturals
<1>3. ASSUME UNCHANGED day, due'.today = due.today PROVE due'.today <= day' /\ day <= day'
  BY <1>3, <1>t, BoundsAreNaturals
<1>4. CASE SkipDay \/ SaveGame \/ UNCHANGED vars
  BY <1>3, <1>4 DEF SkipDay, SaveGame, vars
<1>5. CASE LoadTasks
  BY <1>3, <1>5, <1>t DEF LoadTasks, PassState
<1>6. CASE MissPlayer \/ TransferPlayer \/ DoneWithCash
  BY <1>3, <1>6, <1>t DEF MissPlayer, TransferPlayer, DoneWithCash, Go, Drop, PassState
<1>7. CASE ChooseForAI \/ StoreStatus
  BY <1>3, <1>7, <1>t DEF ChooseForAI, StoreStatus, Go, Drop, PassState
<1>8. ASSUME NEW o \in Obligations, SkipTask(o) \/ DecideCash(o) \/ DecidePlayer(o)
      PROVE  due'.today <= day' /\ day <= day'
  BY <1>3, <1>8, <1>t DEF SkipTask, DecideCash, DecidePlayer, Begin, Drop, PassState
<1>9. ASSUME NEW o \in Obligations, SubmitList(o) \/ DeferList(o)
      PROVE  due'.today <= day' /\ day <= day'
  BY <1>3, <1>9, <1>t DEF SubmitList, DeferList, Drop, PassState
<1>10. CASE \E t \in Threads : Transfer(t)
  BY <1>3, <1>10 DEF Transfer, CheckLedger, MoveCash, NoteTransfer
<1>11. CASE \E o \in Obligations : RecordSigning(o)
  BY <1>3, <1>11 DEF RecordSigning
<1>12. CASE Window
  BY <1>3, <1>12, WindowSteps
<1> QED BY <1>1, <1>2, <1>4, <1>5, <1>6, <1>7, <1>8, <1>9, <1>10, <1>11, <1>12 DEF Next, Pass

LEMMA WaitKept ==
    ASSUME ShapeInv, ShapeInv', WaitInv, [Next]_vars
    PROVE  WaitInv'
<1> SUFFICES ASSUME Untroubled'
             PROVE  /\ DatesPassed'
                    /\ \A o \in Obligations \ past'.crossed : Alone(o) => WaitCase(o)'
  BY DEF WaitInv, Alone
<1>0. /\ TypeOK /\ Untroubled /\ ~Restart /\ failures' = failures /\ DatesPassed
      /\ \A o \in Obligations \ past'.crossed : Alone(o) => WaitCase(o)
  <2>1. Untroubled /\ past.restarts \in Nat /\ failures' = failures
    BY HistoryGrows DEF Untroubled, ShapeInv
  <2>3. ~Restart
    <3>1. past \in Past
      BY DEF ShapeInv, TypeOK
    <3>2. Restart => past'.restarts = past.restarts + 1
      BY <3>1 DEF Restart, Past
    <3> QED BY <2>1, <3>2 DEF Untroubled
  <2> QED BY <2>1, <2>3, HistoryGrows DEF WaitInv, ShapeInv
<1>t. /\ due \in PassState /\ status \in [Obligations -> Statuses] /\ due.o \in Obligations
      /\ latest \in [FreeAgents -> Decision] /\ day \in Nat /\ due.today \in Nat
      /\ PassPlaces /\ past \in Past /\ failures = 0
      /\ \A o \in Obligations : Fa[o] \in FreeAgents
  BY <1>0, PassFields, BoundsAreNaturals, FACompensationAssumption
  DEF ShapeInv, TypeOK, Untroubled
<1>d. due'.today <= day' /\ day <= day' /\ day' \in Nat
  BY <1>0, TodayHasCome, BoundsAreNaturals DEF DatesPassed, ShapeInv, TypeOK
<1>f. ~Fail
  BY <1>0, <1>t DEF Fail, Failing
<1>l. ASSUME UNCHANGED latest PROVE DatesPassed'
  <2>1. \A f \in FreeAgents : latest[f].on \in Nat /\ latest[f].on <= day
    BY <1>0, <1>t, BoundsAreNaturals DEF DatesPassed, Decision
  <2> QED BY <1>d, <1>l, <1>t, <2>1 DEF DatesPassed
\* Neither a decision nor the status changes, and nothing is in flight.
<1>s. ASSUME UNCHANGED <<status, latest>>, NEW o \in Obligations, WaitCase(o),
             due'.todo[o] \in {"none", due.todo[o]} \/ (due'.todo[o] = "list" => status[o] = "Pending"),
             \/ due.pc \notin {"pay", "store"} /\ due'.pc \notin {"pay", "store"}
             \/ due'.pc = due.pc /\ due'.o = due.o /\ due'.status = due.status
             \/ due.pc # "store" /\ due'.pc \in {"pay", "store"} /\ due'.status \in Closed
      PROVE  WaitCase(o)'
  BY <1>s DEF WaitCase, StandsAs, InFlight, Says, Closed
<1>1. CASE Quiet
  <2>1. UNCHANGED <<status, latest>>
        /\ \/ UNCHANGED due
           \/ due.pc \notin {"pay", "store"} /\ due'.pc \notin {"pay", "store"}
    BY <1>1, <1>t, QuietSteps
  <2>2. ASSUME NEW o \in Obligations
        PROVE  due'.todo[o] \in {"none", due.todo[o]} \/ (due'.todo[o] = "list" => status[o] = "Pending")
    <3>1. CASE LoadTasks
      <4>1. due'.todo = Tasks(due.today)
        BY <1>f, <1>t, <3>1 DEF LoadTasks, PassState
      <4>2. Tasks(due.today)[o] = "list" => status[o] = "Pending"
        BY DEF Tasks, TaskOf
      <4> QED BY <4>1, <4>2
    <3>2. CASE Aside
      BY <1>t, <3>2, TodoShrinks
    <3>3. CASE NewDay \/ SaveGame \/ UNCHANGED vars
      BY <3>3 DEF NewDay, SaveGame, vars
    <3> QED BY <1>1, <3>1, <3>2, <3>3 DEF Quiet, Aside
  <2> QED BY <1>0, <1>l, <1>s, <2>1, <2>2
<1>2. ASSUME NEW x \in Obligations, DecideCash(x)
      PROVE  DatesPassed' /\ \A o \in Obligations \ past'.crossed : Alone(o) => WaitCase(o)'
  <2>1. /\ UNCHANGED <<status, latest>> /\ due.pc = "task"
        /\ due' = [due EXCEPT !.pc = "pay", !.o = x, !.status = "CashRecorded"]
    BY <1>2 DEF DecideCash, IsAt, Begin, sql
  <2>2. due'.pc = "pay" /\ due'.status \in Closed /\ due'.todo = due.todo
    BY <1>t, <2>1 DEF PassState, Closed
  <2> QED BY <1>0, <1>l, <1>s, <2>1, <2>2
<1>3. CASE TransferPlayer
  <2>1. /\ UNCHANGED <<status, latest>> /\ due.pc = "transfer"
        /\ due' = [due EXCEPT !.pc = "pay", !.status = "Transferred"]
    BY <1>3 DEF TransferPlayer, Go, sql
  <2>2. due'.pc = "pay" /\ due'.status \in Closed /\ due'.todo = due.todo
    BY <1>t, <2>1 DEF PassState, Closed
  <2> QED BY <1>0, <1>l, <1>s, <2>1, <2>2
<1>4. CASE DoneWithCash
  <2>1. /\ UNCHANGED <<status, latest>> /\ due.pc = "pay"
        /\ due' = [due EXCEPT !.pc = "store", !.status = due.status]
    BY <1>4 DEF DoneWithCash, Go, sql
  <2>2. due'.pc = "store" /\ due'.status \in Closed /\ due'.todo = due.todo
    BY <1>t, <2>1 DEF PassState, PassPlaces, Closed
  <2> QED BY <1>0, <1>l, <1>s, <2>1, <2>2
<1>5. CASE ChooseForAI
  <2>1. PICK c \in {"CashSelected", "PlayerSelected", "Recorded"}, n \in 0 .. 1 :
           Choose(due.o, due.pick, due.today, c, n) /\ Failing(n) /\ Go("store", c)
    BY <1>5 DEF ChooseForAI
  <2>2. n = 0
    BY <1>0, <1>t, <2>1 DEF Failing
  <2>3. /\ due.pc = "choose" /\ UNCHANGED <<status, past>> /\ due'.pc = "store"
        /\ due'.o = due.o /\ due'.status = c /\ due'.todo = due.todo /\ due.todo[due.o] = "list"
    BY <1>5, <1>t, <2>1 DEF ChooseForAI, Go, PassState, PassPlaces
  <2>4. \/ c = "CashSelected" /\ latest' = Decided(due.o, "CashOnly", Nobody, due.today)
        \/ c = "PlayerSelected" /\ latest' = Decided(due.o, "Player", due.pick, due.today)
    BY <2>1, <2>2 DEF Choose
  <2>5. DatesPassed'
    <3>1. \A f \in FreeAgents : latest'[f].on \in Nat /\ latest'[f].on <= day
      <4>1. ASSUME NEW a, NEW p, NEW f \in FreeAgents
            PROVE  LET l == Decided(due.o, a, p, due.today)
                   IN  l[f].on \in Nat /\ l[f].on <= day
        BY <1>0, <1>t, BoundsAreNaturals DEF Decided, Decision, DatesPassed
      <4> QED BY <2>4, <4>1
    <3>2. UNCHANGED day
      BY <1>5 DEF ChooseForAI
    <3> QED BY <1>d, <3>1, <3>2 DEF DatesPassed
  <2>6. ASSUME NEW o \in Obligations, o \notin past'.crossed, Alone(o) PROVE WaitCase(o)'
    <3>1. WaitCase(o)
      BY <1>0, <2>6
    <3>2. CASE o # due.o
      <4>1. Fa[o] # Fa[due.o]
        BY <1>t, <2>6, <3>2 DEF Alone
      <4>2. latest'[Fa[o]] = latest[Fa[o]]
        BY <1>t, <2>4, <4>1 DEF Decided
      <4> QED BY <2>3, <3>1, <3>2, <4>2 DEF WaitCase, StandsAs, InFlight, Says
    <3>3. CASE o = due.o
      <4>1. status[o] = "Pending" /\ latest[Fa[o]] = NoDecision
        BY <2>3, <3>1, <3>3 DEF WaitCase
      <4>2. latest[Fa[o]].on <= due.today
        BY <1>t, <4>1 DEF NoDecision
      <4>3. \/ c = "CashSelected" /\ latest'[Fa[o]].action = "CashOnly"
            \/ c = "PlayerSelected" /\ latest'[Fa[o]].action = "Player"
        <5>1. ASSUME NEW a, NEW p
              PROVE  Decided(due.o, a, p, due.today)[Fa[due.o]].action = a
          BY <1>t, <3>3, <4>2, DecidedIsFound
        <5> QED BY <2>4, <3>3, <5>1
      <4> QED BY <2>3, <3>3, <4>1, <4>3 DEF WaitCase, StandsAs, InFlight, Says
    <3> QED BY <3>2, <3>3
  <2> QED BY <2>5, <2>6
<1>6. CASE StoreStatus
  <2>1. /\ UNCHANGED <<latest, past>> /\ due.pc = "store" /\ due'.pc = "task"
        /\ due'.todo = [due.todo EXCEPT ![due.o] = "none"]
        /\ status' = [status EXCEPT ![due.o] = due.status]
    <3>1. PICK n \in 0 .. 1 : PutStatus(due.o, due.status, n) /\ Failing(n)
      BY <1>6 DEF StoreStatus
    <3>2. n = 0
      BY <1>0, <1>t, <3>1 DEF Failing
    <3> QED BY <1>6, <1>t, <3>1, <3>2 DEF StoreStatus, PutStatus, Drop, PassState
  <2>2. due.status \notin {"None", "Pending"}
    BY <1>t, <2>1 DEF PassPlaces
  <2>3. due.todo \in [Obligations -> {"none", "cash", "player", "list"}]
    BY <1>t DEF PassState
  <2>4. ASSUME NEW o \in Obligations, o \notin past'.crossed, Alone(o) PROVE WaitCase(o)'
    <3>1. WaitCase(o)
      BY <1>0, <2>4
    <3>2. CASE o # due.o
      BY <1>t, <2>1, <2>3, <3>1, <3>2 DEF WaitCase, StandsAs, InFlight, Says
    <3>3. CASE o = due.o
      BY <1>t, <2>1, <2>2, <2>3, <3>1, <3>3 DEF WaitCase, StandsAs, InFlight, Says
    <3> QED BY <3>2, <3>3
  <2> QED BY <1>l, <2>1, <2>4
<1>7. ASSUME NEW t \in Threads, Transfer(t)
      PROVE  DatesPassed' /\ \A o \in Obligations \ past'.crossed : Alone(o) => WaitCase(o)'
  <2>1. UNCHANGED <<status, latest, due>>
    BY <1>7 DEF Transfer, CheckLedger, MoveCash, NoteTransfer, sql
  <2> QED BY <1>0, <1>l, <1>s, <2>1
<1>8. ASSUME NEW x \in Obligations, RecordSigning(x)
      PROVE  DatesPassed' /\ \A o \in Obligations \ past'.crossed : Alone(o) => WaitCase(o)'
  <2>1. /\ UNCHANGED <<latest, due>> /\ status[x] = "None"
        /\ status' = [status EXCEPT ![x] = "Pending"]
    BY <1>8, <1>f DEF RecordSigning
  <2>2. ASSUME NEW o \in Obligations, WaitCase(o) PROVE WaitCase(o)'
    BY <1>t, <2>1, <2>2 DEF WaitCase, StandsAs, InFlight, Says
  <2> QED BY <1>0, <1>l, <2>1, <2>2
<1>9. CASE Window
  <2>1. PICK x \in Obligations : Act(x) /\ ChoosesFor(x)
    BY <1>0, <1>9, <1>t, WindowDecides
  <2>2. UNCHANGED <<due, day>>
    BY <1>9, WindowSteps
  <2>3. latest[Fa[x]].on <= day
    BY <1>0, <1>t DEF DatesPassed
  <2>4. DatesPassed'
    <3>1. \A f \in FreeAgents : latest'[f].on \in Nat /\ latest'[f].on <= day
      <4>1. ASSUME NEW a, NEW p, NEW f \in FreeAgents
            PROVE  LET l == Decided(x, a, p, day)
                   IN  l[f].on \in Nat /\ l[f].on <= day
        BY <1>0, <1>t, BoundsAreNaturals DEF Decided, Decision, DatesPassed
      <4> QED BY <2>1, <4>1 DEF ChoosesFor
    <3> QED BY <1>d, <2>2, <3>1 DEF DatesPassed
  <2>5. ASSUME NEW o \in Obligations, o \notin past'.crossed, Alone(o) PROVE WaitCase(o)'
    <3>1. WaitCase(o)
      BY <1>0, <2>5
    <3>2. CASE o # x
      <4>1. Fa[o] # Fa[x]
        BY <2>5, <3>2 DEF Alone
      <4>2. latest'[Fa[o]] = latest[Fa[o]]
        BY <1>t, <2>1, <4>1 DEF ChoosesFor, Decided
      <4>3. status'[o] = status[o]
        BY <1>t, <2>1, <3>2 DEF ChoosesFor
      <4> QED BY <2>2, <3>1, <4>2, <4>3 DEF WaitCase, StandsAs, InFlight, Says
    <3>3. CASE o = x
      <4>1. due.todo[o] = "none"
        BY <1>t, <2>1, <2>5, <3>3 DEF Act, InPass, Past
      <4>2. \A c : ~InFlight(o, c)
        BY <1>t, <4>1 DEF InFlight, PassPlaces
      <4>3. \/ status'[o] = "CashSelected" /\ latest'[Fa[o]].action = "CashOnly"
            \/ status'[o] = "PlayerSelected" /\ latest'[Fa[o]].action = "Player"
        <5>1. latest[Fa[x]].on \in Nat
          BY <1>t, BoundsAreNaturals DEF Decision
        <5>2. ASSUME NEW a, NEW p PROVE Decided(x, a, p, day)[Fa[x]].action = a
          BY <1>t, <2>3, <5>1, DecidedIsFound
        <5>3. CASE latest' = Decided(x, "CashOnly", Nobody, day)
                   /\ status' = [status EXCEPT ![x] = "CashSelected"]
          BY <1>t, <3>3, <5>2, <5>3
        <5>4. CASE status' = [status EXCEPT ![x] = "PlayerSelected"]
                   /\ \E p : latest' = Decided(x, "Player", p, day)
          <6>1. PICK p : latest' = Decided(x, "Player", p, day)
            BY <5>4
          <6> QED BY <1>t, <3>3, <5>2, <5>4, <6>1
        <5> QED BY <2>1, <5>3, <5>4 DEF ChoosesFor
      <4> QED BY <2>2, <4>1, <4>2, <4>3 DEF WaitCase, StandsAs, InFlight, Says
    <3> QED BY <3>2, <3>3
  <2> QED BY <2>4, <2>5
<1> QED BY <1>0, <1>1, <1>2, <1>3, <1>4, <1>5, <1>6, <1>7, <1>8, <1>9
        DEF Next, Pass, Transfer, Quiet

\* In an untroubled run an obligation that waits for the next pass has the
\* decision it waits for, unless the choice crossed the pass or the player has
\* a second case.
THEOREM WaitsRightly == Spec => []WaitsForItsDecision
<1>1. WaitInv => WaitsForItsDecision
  BY DEF WaitInv, WaitCase, WaitsForItsDecision, Untroubled, StandsAs
<1>2. ShapeInv /\ WaitInv /\ [Next]_vars => ShapeInv' /\ WaitInv'
  BY ShapeKept, WaitKept
<1> QED BY InitShape, InitWait, <1>1, <1>2, PTL DEF Spec
=============================================================================
