------------------------- MODULE TicketStatusProofs -------------------------
(***************************************************************************)
(* For every staff, workflow, number of concurrent requests and every      *)
(* choice of the times and bounds: TicketInv is an invariant of            *)
(* TicketSpec, and with it what TicketStatus states about the timeline and *)
(* the undo window; and as long as no change is open together with an      *)
(* undo, the status is the latest event's.                                 *)
(***************************************************************************)
EXTENDS TicketStatus, RowsProofs

-----------------------------------------------------------------------------
(* Types.                                                                  *)

\* The creation of a ticket is well-typed.
LEMMA TypeInit == TicketInit => TypeOK
<1> SUFFICES ASSUME TicketInit PROVE TypeOK
  OBVIOUS
<1>1. PICK u \in Staff : events = Insert(Empty, 1, [status |-> "RECEIVED", by |-> u, at |-> 0])
  BY DEF TicketInit
<1> DEFINE row == [status |-> "RECEIVED", by |-> u, at |-> 0]
<1>2. row \in Event
  BY StepAssumption DEF Event
<1> HIDE DEF row
<1>3. IsTable(events, Event) /\ DOMAIN events = {1}
  <2>1. IsTable(Empty, Event) /\ DOMAIN Empty = {}
    BY EmptyTable
  <2>2. events = Insert(Empty, 1, row)
    BY <1>1 DEF row
  <2>3. IsTable(events, Event)
    BY <1>2, <2>1, <2>2, InsertTyped
  <2>4. DOMAIN events = DOMAIN Empty \cup {1}
    BY <2>2 DEF Insert
  <2> QED
    BY <2>1, <2>3, <2>4
<1>4. IsTable(pending, Nat) /\ DOMAIN pending = {}
  BY EmptyTable DEF TicketInit
<1>5. tx \in [Request -> {NoTx} \cup Change \cup Undo]
  BY DEF TicketInit
<1>6. nextId = 2 /\ DOMAIN events \subseteq 1 .. nextId - 1
  BY <1>3 DEF TicketInit
<1>7. now \in Nat /\ nextId \in Nat \ {0} /\ current \in Step
  BY StepAssumption DEF TicketInit
<1>8. closed \in BOOLEAN /\ overtaken \in BOOLEAN
  BY Zenon DEF TicketInit
<1>9. DOMAIN pending \subseteq DOMAIN events
  BY <1>4
<1> QED
  BY <1>3, <1>4, <1>5, <1>6, <1>7, <1>8, <1>9, Zenon DEF TypeOK

\* Every step keeps the types, and every pending row an event.
LEMMA TypeStep == TypeOK /\ [TicketNext]_ticketVars => TypeOK'
<1> SUFFICES ASSUME TypeOK, [TicketNext]_ticketVars PROVE TypeOK'
  OBVIOUS
<1> USE DEF TypeOK
<1>1. ASSUME NEW t \in Request, NEW u \in Staff, NEW s \in Step, BeginChange(t, u, s)
      PROVE  TypeOK'
  BY <1>1 DEF BeginChange, Change
<1>2. ASSUME NEW t \in Request, NEW u \in Staff, BeginUndo(t, u)
      PROVE  TypeOK'
  <2>1. PICK latest, previous \in DOMAIN events :
          tx' = [tx EXCEPT ![t] =
                   [op |-> "undo", latest |-> latest, from |-> events[latest].status,
                    to |-> events[previous].status, since |-> now]]
    BY <1>2 DEF BeginUndo
  <2>2. latest \in Nat /\ events[latest] \in Event /\ events[previous] \in Event
    BY DEF IsTable
  <2>3. tx' \in [Request -> {NoTx} \cup Change \cup Undo]
    BY <2>1, <2>2 DEF Undo, Event
  <2> QED
    BY <1>2, <2>3 DEF BeginUndo
<1>3. ASSUME NEW t \in Request, CommitChange(t)
      PROVE  TypeOK'
  <2> DEFINE row == [status |-> tx[t].to, by |-> tx[t].user, at |-> now]
  <2>1. tx[t] \in Change
    BY <1>3 DEF CommitChange, NoTx, Undo
  <2>2. row \in Event /\ tx[t].to \in Step
    BY <2>1 DEF Change, Event
  <2>3. IsTable(events', Event) /\ DOMAIN events' = DOMAIN events \cup {nextId}
    BY <1>3, <2>2, InsertTyped, InsertRows DEF CommitChange
  <2>4. now + NotifyDelay \in Nat
    BY TimesAssumption
  <2>5. IsTable(pending', Nat) /\ DOMAIN pending' \subseteq DOMAIN pending \cup {nextId}
    <3>1. CASE isNotifyingStatus(tx[t].to)
      <4>1. pending' = Insert(pending, nextId, now + NotifyDelay)
        BY <1>3, <3>1 DEF CommitChange, Queue
      <4> QED
        BY <4>1, <2>4, InsertTyped, InsertRows
    <3>2. CASE ~isNotifyingStatus(tx[t].to)
      BY <1>3, <3>2 DEF CommitChange, Queue
    <3> QED
      BY <3>1, <3>2
  <2>6. current' \in Step /\ nextId' = nextId + 1
    BY <1>3, <2>2 DEF CommitChange, moveStatus
  <2>7. tx' \in [Request -> {NoTx} \cup Change \cup Undo]
    BY <1>3 DEF CommitChange
  <2>8. nextId \in 1 .. nextId' - 1 /\ DOMAIN events \subseteq 1 .. nextId' - 1
    BY <2>6
  <2> QED
    BY <1>3, <2>3, <2>5, <2>6, <2>7, <2>8 DEF CommitChange
<1>4. ASSUME NEW t \in Request, CommitUndo(t)
      PROVE  TypeOK'
  <2>1. tx[t] \in Undo
    BY <1>4 DEF CommitUndo, NoTx, Change
  <2>2. IsTable(events', Event) /\ DOMAIN events' = DOMAIN events \ {tx[t].latest}
    BY <1>4, DeleteTyped, DeleteRows DEF CommitUndo, DeleteEvent
  <2>3. IsTable(pending', Nat) /\ DOMAIN pending' = DOMAIN pending \ {tx[t].latest}
    BY <1>4, DeleteTyped, DeleteRows DEF CommitUndo, DeleteEvent
  <2>4. current' \in Step
    BY <1>4, <2>1 DEF CommitUndo, moveStatus, Undo
  <2>5. tx' \in [Request -> {NoTx} \cup Change \cup Undo] /\ overtaken' \in BOOLEAN
    BY <1>4 DEF CommitUndo
  <2> QED
    BY <1>4, <2>2, <2>3, <2>4, <2>5 DEF CommitUndo
<1>5. ASSUME NEW t \in Request, Rollback(t)
      PROVE  TypeOK'
  BY <1>5 DEF Rollback
<1>6. CASE RemoveLocation
  BY <1>6, EmptyTable DEF RemoveLocation
<1>7. CASE HoldPending
  <2>1. PICK id \in DOMAIN pending : pending' = [pending EXCEPT ![id] = now + Lease]
    BY <1>7 DEF HoldPending
  <2>2. IsTable(pending', Nat) /\ DOMAIN pending' = DOMAIN pending
    BY <2>1, TimesAssumption DEF IsTable
  <2> QED
    BY <1>7, <2>2 DEF HoldPending
<1>8. CASE SettlePending
  <2>1. PICK id \in DOMAIN pending : pending' = Delete(pending, {id})
    BY <1>8 DEF SettlePending
  <2>2. IsTable(pending', Nat) /\ DOMAIN pending' = DOMAIN pending \ {id}
    BY <2>1, DeleteTyped, DeleteRows
  <2> QED
    BY <1>8, <2>2 DEF SettlePending
<1>9. CASE Tick
  BY <1>9 DEF Tick
<1>10. CASE UNCHANGED ticketVars
  BY <1>10 DEF ticketVars
<1> QED
  BY <1>1, <1>2, <1>3, <1>4, <1>5, <1>6, <1>7, <1>8, <1>9, <1>10 DEF TicketNext, Serve

\* Type correctness: the tables keep their row types, ids stay below the
\* sequence, and no pending notification outlives its status event, the
\* foreign key that undoStatus's delete cascades along.
THEOREM TicketTypes == TicketSpec => []TypeOK
<1>1. TicketInit => TypeOK
  BY TypeInit
<1>2. TypeOK /\ [TicketNext]_ticketVars => TypeOK'
  BY TypeStep
<1> QED
  BY <1>1, <1>2, PTL DEF TicketSpec

-----------------------------------------------------------------------------
(* The inductive invariant, one lemma per action that writes the timeline. *)

\* A new ticket has one event, so no pair of events breaks a rule.
LEMMA InvInit == TicketInit => TicketInv
<1> SUFFICES ASSUME TicketInit PROVE TicketInv
  OBVIOUS
<1>1. TypeOK
  BY TypeInit
<1>2. PICK u \in Staff : events = Insert(Empty, 1, [status |-> "RECEIVED", by |-> u, at |-> 0])
  BY DEF TicketInit
<1>3. DOMAIN events = {1} /\ events[1].status = "RECEIVED"
  BY <1>2 DEF Insert, Empty
<1>4. current = "RECEIVED" /\ DOMAIN pending = {} /\ \A t \in Request : tx[t] = NoTx
  BY DEF TicketInit, Empty
<1>5. DivergesOnlyByOvertakenUndo /\ CreationIsPermanent
  BY <1>3, <1>4 DEF DivergesOnlyByOvertakenUndo, StatusMatchesTimeline, IsLatest, CreationIsPermanent
<1>6. HonestTimeline
  BY <1>3 DEF HonestTimeline, Adjacent
<1>7. OpenTransactions /\ OpenUndos /\ QueuedAfterDelay
  BY <1>4 DEF OpenTransactions, OpenUndos, QueuedAfterDelay, NoTx
<1> QED
  BY <1>1, <1>5, <1>6, <1>7 DEF TicketInv

\* A committed change adds the new latest event, at the status it moved to,
\* right after the event whose status its guard compared with.
LEMMA CommitChangeInv ==
  ASSUME TicketInv, TypeOK', NEW t \in Request, CommitChange(t)
  PROVE  TicketInv'
<1> DEFINE D == DOMAIN events
           row == [status |-> tx[t].to, by |-> tx[t].user, at |-> now]
<1> HIDE DEF row
<1>1. /\ TypeOK /\ nextId \in Nat /\ now \in Nat
      /\ D \subseteq Nat /\ nextId \notin D /\ \A i \in D : i < nextId
  BY DEF TicketInv, TypeOK
<1>2. /\ DOMAIN events' = D \cup {nextId}
      /\ events'[nextId] = row
      /\ \A i \in D : events'[i] = events[i]
  <2>1. events' = Insert(events, nextId, row)
    BY DEF CommitChange, row
  <2> QED
    BY <2>1, <1>1 DEF Insert
<1>3. /\ tx[t].op = "change" /\ current = tx[t].from /\ current' = tx[t].to
      /\ row.status = tx[t].to /\ row.by = tx[t].user /\ row.at = now
      /\ nextId' = nextId + 1 /\ now' = now /\ overtaken' = overtaken
  BY <1>1 DEF CommitChange, moveStatus, row, TypeOK
<1>4. MayChange(tx[t].user, tx[t].from, tx[t].to)
  BY <1>3 DEF TicketInv, OpenTransactions
<1>5. \A other \in Request : tx'[other] = NoTx \/ tx'[other] = tx[other]
  BY <1>1 DEF CommitChange, TypeOK
<1>6. DivergesOnlyByOvertakenUndo'
  <2>1. IsLatest(nextId, DOMAIN events')
    BY <1>1, <1>2, <1>3 DEF IsLatest
  <2> QED
    BY <2>1, <1>2, <1>3 DEF DivergesOnlyByOvertakenUndo, StatusMatchesTimeline
<1>7. HonestTimeline'
  <2> SUFFICES ASSUME ~overtaken, NEW i \in DOMAIN events', NEW j \in DOMAIN events',
                      Adjacent(i, j, DOMAIN events')
               PROVE  /\ events'[i].status # events'[j].status
                      /\ events'[j].status = "COMPLETED" => events'[i].status = "READY"
                      /\ isEndedStatus(events'[i].status) => events'[j].by \in Managers
    BY <1>3 DEF HonestTimeline
  <2>1. i \in D
    BY <1>1, <1>2 DEF Adjacent
  <2>2. CASE j = nextId
    <3>1. PICK m \in D : IsLatest(m, D) /\ events[m].status = current
      BY DEF TicketInv, DivergesOnlyByOvertakenUndo, StatusMatchesTimeline
    <3>2. m = i
      BY <2>1, <2>2, <3>1, <1>1, <1>2 DEF Adjacent, IsLatest
    <3>3. events'[i].status = tx[t].from /\ events'[j] = row
      BY <2>1, <2>2, <3>1, <3>2, <1>2, <1>3
    <3> QED
      BY <3>3, <1>3, <1>4 DEF MayChange
  <2>3. CASE j # nextId
    <3>1. j \in D /\ Adjacent(i, j, D)
      BY <2>1, <2>3, <1>2 DEF Adjacent
    <3>2. events'[i] = events[i] /\ events'[j] = events[j]
      BY <2>1, <3>1, <1>2
    <3> QED
      BY <2>1, <3>1, <3>2 DEF TicketInv, HonestTimeline
  <2> QED
    BY <2>2, <2>3
<1>8. CreationIsPermanent'
  <2>1. 1 \in D /\ nextId # 1
    BY <1>1 DEF TicketInv, CreationIsPermanent
  <2> QED
    BY <2>1, <1>1, <1>2, <1>3, <1>4 DEF TicketInv, CreationIsPermanent, MayChange
<1>9. OpenTransactions'
  BY <1>1, <1>3, <1>5 DEF TicketInv, OpenTransactions, NoTx, MayChange
<1>10. OpenUndos'
  <2> SUFFICES ASSUME NEW o \in Request, tx'[o].op = "undo", tx'[o].latest \in DOMAIN events'
               PROVE  /\ events'[tx'[o].latest].status = tx'[o].from
                      /\ tx'[o].since - events'[tx'[o].latest].at <= UndoWindow
                      /\ ~overtaken' =>
                           \E previous \in DOMAIN events' :
                             /\ Adjacent(previous, tx'[o].latest, DOMAIN events')
                             /\ events'[previous].status = tx'[o].to
    BY DEF OpenUndos
  <2>1. tx'[o] = tx[o]
    BY <1>5 DEF NoTx
  <2>2. tx[o].latest \in 2 .. nextId - 1
    BY <2>1 DEF TicketInv, OpenTransactions
  <2>3. tx[o].latest \in D /\ events'[tx[o].latest] = events[tx[o].latest]
    BY <2>1, <2>2, <1>2, <1>3
  <2>4. /\ events[tx[o].latest].status = tx[o].from
        /\ tx[o].since - events[tx[o].latest].at <= UndoWindow
        /\ ~overtaken => \E previous \in D : /\ Adjacent(previous, tx[o].latest, D)
                                            /\ events[previous].status = tx[o].to
    BY <2>1, <2>3 DEF TicketInv, OpenUndos
  <2>5. ASSUME NEW previous \in D, Adjacent(previous, tx[o].latest, D)
        PROVE  Adjacent(previous, tx[o].latest, DOMAIN events')
    BY <2>5, <2>2, <1>1, <1>2, <1>3 DEF Adjacent
  <2> QED
    BY <2>1, <2>3, <2>4, <2>5, <1>2, <1>3
<1>11. QueuedAfterDelay'
  <2> SUFFICES ASSUME NEW i \in DOMAIN pending'
               PROVE  events'[i].at + NotifyDelay <= pending'[i]
    BY DEF QueuedAfterDelay
  <2>1. CASE pending' = pending
    <3>1. i \in D /\ events'[i] = events[i]
      BY <2>1, <1>1, <1>2 DEF TypeOK
    <3> QED
      BY <2>1, <3>1 DEF TicketInv, QueuedAfterDelay
  <2>2. CASE pending' = Insert(pending, nextId, now + NotifyDelay)
    <3>1. CASE i = nextId
      <4>1. pending'[i] = now + NotifyDelay
        BY <2>2, <3>1 DEF Insert
      <4>2. events'[i].at = now
        BY <3>1, <1>2, <1>3
      <4> QED
        BY <4>1, <4>2, <1>1, TimesAssumption
    <3>2. CASE i # nextId
      <4>1. i \in DOMAIN pending /\ pending'[i] = pending[i]
        BY <2>2, <3>2 DEF Insert
      <4>2. i \in D /\ events'[i] = events[i]
        BY <4>1, <1>1, <1>2 DEF TypeOK
      <4> QED
        BY <4>1, <4>2 DEF TicketInv, QueuedAfterDelay
    <3> QED
      BY <3>1, <3>2
  <2> QED
    BY <2>1, <2>2 DEF CommitChange, Queue
<1> QED
  BY <1>6, <1>7, <1>8, <1>9, <1>10, <1>11 DEF TicketInv

\* A committed undo of the latest event goes back to the event before it;
\* an undo of any other event is what overtaken records.
LEMMA CommitUndoInv ==
  ASSUME TicketInv, TypeOK', NEW t \in Request, CommitUndo(t)
  PROVE  TicketInv'
<1> DEFINE D == DOMAIN events
           l == tx[t].latest
<1>1. /\ TypeOK /\ nextId \in Nat /\ now \in Nat /\ D \subseteq Nat
      /\ DOMAIN pending \subseteq D
  BY DEF TicketInv, TypeOK
<1>2. /\ DOMAIN events' = D \ {l}
      /\ \A i \in D \ {l} : events'[i] = events[i]
      /\ DOMAIN pending' = DOMAIN pending \ {l}
      /\ \A i \in DOMAIN pending \ {l} : pending'[i] = pending[i]
  BY DeleteRows DEF CommitUndo, DeleteEvent
<1>3. /\ tx[t].op = "undo" /\ current' = tx[t].to /\ l \in D
      /\ nextId' = nextId /\ now' = now
      /\ ~overtaken' => ~overtaken /\ IsLatest(l, D)
  BY DEF CommitUndo, moveStatus, DeleteEvent
<1>4. l \in 2 .. nextId - 1
  BY <1>3 DEF TicketInv, OpenTransactions
<1>5. \A other \in Request : tx'[other] = NoTx \/ tx'[other] = tx[other]
  BY <1>1 DEF CommitUndo, TypeOK
<1>6. DivergesOnlyByOvertakenUndo'
  <2> SUFFICES ASSUME ~overtaken'
               PROVE  \E m \in DOMAIN events' :
                        IsLatest(m, DOMAIN events') /\ events'[m].status = current'
    BY DEF DivergesOnlyByOvertakenUndo, StatusMatchesTimeline
  <2>1. PICK previous \in D : Adjacent(previous, l, D) /\ events[previous].status = tx[t].to
    BY <1>3 DEF TicketInv, OpenUndos
  <2>2. IsLatest(previous, D \ {l})
    BY <2>1, <1>1, <1>3, BeforeLatest
  <2>3. previous \in D \ {l}
    BY <2>2 DEF IsLatest
  <2> QED
    BY <2>1, <2>2, <2>3, <1>2, <1>3
<1>7. HonestTimeline'
  <2> SUFFICES ASSUME ~overtaken', NEW i \in DOMAIN events', NEW j \in DOMAIN events',
                      Adjacent(i, j, DOMAIN events')
               PROVE  /\ events'[i].status # events'[j].status
                      /\ events'[j].status = "COMPLETED" => events'[i].status = "READY"
                      /\ isEndedStatus(events'[i].status) => events'[j].by \in Managers
    BY DEF HonestTimeline
  <2>1. i \in D /\ j \in D /\ events'[i] = events[i] /\ events'[j] = events[j]
    BY <1>2
  <2>2. Adjacent(i, j, D)
    BY <2>1, <1>1, <1>2, <1>3 DEF Adjacent, IsLatest
  <2> QED
    BY <2>1, <2>2, <1>3 DEF TicketInv, HonestTimeline
<1>8. CreationIsPermanent'
  <2>1. 1 \in D \ {l}
    BY <1>4 DEF TicketInv, CreationIsPermanent
  <2> QED
    BY <2>1, <1>2 DEF TicketInv, CreationIsPermanent
<1>9. OpenTransactions'
  BY <1>1, <1>3, <1>5 DEF TicketInv, OpenTransactions, NoTx, MayChange
<1>10. OpenUndos'
  <2> SUFFICES ASSUME NEW o \in Request, tx'[o].op = "undo", tx'[o].latest \in DOMAIN events'
               PROVE  /\ events'[tx'[o].latest].status = tx'[o].from
                      /\ tx'[o].since - events'[tx'[o].latest].at <= UndoWindow
                      /\ ~overtaken' =>
                           \E previous \in DOMAIN events' :
                             /\ Adjacent(previous, tx'[o].latest, DOMAIN events')
                             /\ events'[previous].status = tx'[o].to
    BY DEF OpenUndos
  <2>1. tx'[o] = tx[o]
    BY <1>5 DEF NoTx
  <2>2. tx[o].latest \in D \ {l} /\ events'[tx[o].latest] = events[tx[o].latest]
    BY <2>1, <1>2
  <2>3. /\ events[tx[o].latest].status = tx[o].from
        /\ tx[o].since - events[tx[o].latest].at <= UndoWindow
        /\ ~overtaken => \E previous \in D : /\ Adjacent(previous, tx[o].latest, D)
                                            /\ events[previous].status = tx[o].to
    BY <2>1, <2>2 DEF TicketInv, OpenUndos
  <2>4. ASSUME NEW previous \in D, Adjacent(previous, tx[o].latest, D), ~overtaken'
        PROVE  previous # l /\ Adjacent(previous, tx[o].latest, DOMAIN events')
    BY <2>2, <2>4, <1>1, <1>2, <1>3 DEF Adjacent, IsLatest
  <2> QED
    BY <2>1, <2>2, <2>3, <2>4, <1>2, <1>3
<1>11. QueuedAfterDelay'
  BY <1>1, <1>2 DEF TicketInv, QueuedAfterDelay
<1> QED
  BY <1>6, <1>7, <1>8, <1>9, <1>10, <1>11 DEF TicketInv

\* What an undo reads is what OpenUndos says of it.
LEMMA BeginUndoInv ==
  ASSUME TicketInv, TypeOK', NEW t \in Request, NEW u \in Staff, BeginUndo(t, u)
  PROVE  TicketInv'
<1> DEFINE D == DOMAIN events
<1>1. PICK latest, previous \in D :
        /\ IsLatest(latest, D)
        /\ IsLatest(previous, D \ {latest})
        /\ WithinUndoWindow(events[latest])
        /\ tx' = [tx EXCEPT ![t] =
                    [op |-> "undo", latest |-> latest, from |-> events[latest].status,
                     to |-> events[previous].status, since |-> now]]
  BY DEF BeginUndo, LatestTwo
<1>2. /\ TypeOK /\ nextId \in Nat /\ now \in Nat
      /\ \A i \in D : i \in 1 .. nextId - 1
  BY DEF TicketInv, TypeOK
<1>3. /\ tx'[t] = [op |-> "undo", latest |-> latest, from |-> events[latest].status,
                   to |-> events[previous].status, since |-> now]
      /\ \A other \in Request : other # t => tx'[other] = tx[other]
  BY <1>1, <1>2 DEF TypeOK
<1>4. UNCHANGED <<now, current, events, pending, nextId, closed, overtaken>>
  BY DEF BeginUndo
<1>5. Adjacent(previous, latest, D) /\ latest \in 2 .. nextId - 1
  BY <1>1, <1>2 DEF IsLatest, Adjacent
<1>6. DivergesOnlyByOvertakenUndo' /\ CreationIsPermanent' /\ QueuedAfterDelay'
  BY <1>4 DEF TicketInv, DivergesOnlyByOvertakenUndo, StatusMatchesTimeline,
              CreationIsPermanent, QueuedAfterDelay
<1>7. HonestTimeline'
  BY <1>4 DEF TicketInv, HonestTimeline
<1>8. OpenTransactions'
  <2> SUFFICES ASSUME NEW o \in Request
               PROVE  /\ tx'[o] # NoTx => now' - tx'[o].since <= TxTimeout
                      /\ tx'[o].op = "change" => MayChange(tx'[o].user, tx'[o].from, tx'[o].to)
                      /\ tx'[o].op = "undo" => tx'[o].latest \in 2 .. nextId' - 1
    BY DEF OpenTransactions, MayChange
  <2>1. CASE o = t
    BY <2>1, <1>2, <1>3, <1>4, <1>5, TimesAssumption
  <2>2. CASE o # t
    BY <2>2, <1>3, <1>4 DEF TicketInv, OpenTransactions
  <2> QED
    BY <2>1, <2>2
<1>9. OpenUndos'
  <2> SUFFICES ASSUME NEW o \in Request, tx'[o].op = "undo", tx'[o].latest \in D
               PROVE  /\ events[tx'[o].latest].status = tx'[o].from
                      /\ tx'[o].since - events[tx'[o].latest].at <= UndoWindow
                      /\ ~overtaken =>
                           \E before \in D :
                             /\ Adjacent(before, tx'[o].latest, D)
                             /\ events[before].status = tx'[o].to
    BY <1>4 DEF OpenUndos
  <2>1. CASE o = t
    BY <2>1, <1>1, <1>3, <1>5 DEF WithinUndoWindow
  <2>2. CASE o # t
    BY <2>2, <1>3 DEF TicketInv, OpenUndos
  <2> QED
    BY <2>1, <2>2
<1> QED
  BY <1>6, <1>7, <1>8, <1>9 DEF TicketInv

\* The steps that write neither the ticket nor its events, and at most add
\* one change that obeys the rules or end transactions, keep the rest.
LEMMA OtherStepsInv ==
  ASSUME TicketInv, TypeOK',
         UNCHANGED <<current, events, nextId, overtaken>>,
         DOMAIN pending' \subseteq DOMAIN pending,
         \A i \in DOMAIN pending' : pending[i] <= pending'[i],
         \A t \in Request :
           \/ tx'[t] = NoTx
           \/ tx'[t] = tx[t] /\ now' - tx[t].since <= TxTimeout
           \/ /\ tx'[t].op = "change" /\ now' - tx'[t].since <= TxTimeout
              /\ MayChange(tx'[t].user, tx'[t].from, tx'[t].to)
  PROVE  TicketInv'
<1>1. TypeOK /\ TypeOK'
  BY DEF TicketInv
<1>2. DivergesOnlyByOvertakenUndo' /\ CreationIsPermanent'
  BY DEF TicketInv, DivergesOnlyByOvertakenUndo, StatusMatchesTimeline, CreationIsPermanent
<1>3. HonestTimeline'
  BY DEF TicketInv, HonestTimeline
<1>4. OpenTransactions'
  BY DEF TicketInv, OpenTransactions, MayChange, NoTx
<1>5. OpenUndos'
  <2> SUFFICES ASSUME NEW t \in Request, tx'[t].op = "undo", tx'[t].latest \in DOMAIN events
               PROVE  tx'[t] = tx[t]
    BY DEF TicketInv, OpenUndos
  <2> QED
    BY DEF NoTx
<1>6. QueuedAfterDelay'
  <2> SUFFICES ASSUME NEW i \in DOMAIN pending'
               PROVE  events[i].at + NotifyDelay <= pending'[i]
    BY DEF QueuedAfterDelay
  <2>1. events[i].at + NotifyDelay <= pending[i] /\ pending[i] <= pending'[i] /\ i \in DOMAIN events
    BY <1>1 DEF TicketInv, QueuedAfterDelay, TypeOK
  <2>2. pending[i] \in Nat /\ pending'[i] \in Nat /\ events[i].at \in Nat
    BY <1>1, <2>1 DEF TypeOK, IsTable, Event
  <2> QED
    BY <2>1, <2>2, TimesAssumption
<1> QED
  BY <1>1, <1>2, <1>3, <1>4, <1>5, <1>6 DEF TicketInv

\* TicketInv is inductive.
LEMMA InvStep == TicketInv /\ [TicketNext]_ticketVars => TicketInv'
<1> SUFFICES ASSUME TicketInv, [TicketNext]_ticketVars PROVE TicketInv'
  OBVIOUS
<1>1. TypeOK /\ TypeOK'
  BY TypeStep DEF TicketInv
<1>2. /\ \A t \in Request : tx[t] # NoTx => now - tx[t].since <= TxTimeout
      /\ \A i \in DOMAIN pending : pending[i] \in Nat
      /\ now \in Nat
  BY <1>1 DEF TicketInv, OpenTransactions, TypeOK, IsTable
<1>3. ASSUME NEW t \in Request, NEW u \in Staff, NEW s \in Step, BeginChange(t, u, s)
      PROVE  TicketInv'
  <2> DEFINE c == [op |-> "change", user |-> u, from |-> current, to |-> s, since |-> now]
  <2>1. tx' = [tx EXCEPT ![t] = c] /\ MayChange(u, current, s)
    BY <1>3 DEF BeginChange
  <2>2. \A o \in Request : tx'[o] = IF o = t THEN c ELSE tx[o]
    BY <2>1, <1>1 DEF TypeOK
  <2>3. UNCHANGED <<now, current, events, pending, nextId, overtaken>>
    BY <1>3 DEF BeginChange
  <2>4. c.op = "change" /\ now - c.since <= TxTimeout /\ MayChange(c.user, c.from, c.to)
    BY <2>1, <1>2, TimesAssumption
  <2> HIDE DEF c
  <2>5. ASSUME NEW o \in Request
        PROVE  \/ tx'[o] = NoTx
               \/ tx'[o] = tx[o] /\ now' - tx[o].since <= TxTimeout
               \/ /\ tx'[o].op = "change" /\ now' - tx'[o].since <= TxTimeout
                  /\ MayChange(tx'[o].user, tx'[o].from, tx'[o].to)
    BY <1>2, <2>2, <2>3, <2>4
  <2> QED
    BY <1>1, <1>2, <2>3, <2>5, OtherStepsInv
<1>4. ASSUME NEW t \in Request, NEW u \in Staff, BeginUndo(t, u)
      PROVE  TicketInv'
  BY <1>1, <1>4, BeginUndoInv
<1>5. ASSUME NEW t \in Request, CommitChange(t)
      PROVE  TicketInv'
  BY <1>1, <1>5, CommitChangeInv
<1>6. ASSUME NEW t \in Request, CommitUndo(t)
      PROVE  TicketInv'
  BY <1>1, <1>6, CommitUndoInv
<1>7. ASSUME NEW t \in Request, Rollback(t)
      PROVE  TicketInv'
  <2>1. UNCHANGED <<now, current, events, pending, nextId, overtaken>>
    BY <1>7 DEF Rollback
  <2>2. \A o \in Request : tx'[o] = IF o = t THEN NoTx ELSE tx[o]
    BY <1>1, <1>7 DEF Rollback, TypeOK
  <2> QED
    BY <1>1, <1>2, <2>1, <2>2, OtherStepsInv
<1>8. ASSUME UNCHANGED <<now, current, events, nextId, tx, overtaken>>,
             DOMAIN pending' \subseteq DOMAIN pending,
             \A i \in DOMAIN pending' : pending[i] <= pending'[i]
      PROVE  TicketInv'
  BY <1>1, <1>2, <1>8, OtherStepsInv
<1>9. CASE RemoveLocation
  BY <1>8, <1>9 DEF RemoveLocation, Empty
<1>10. CASE HoldPending
  <2>1. PICK id \in DOMAIN pending : pending[id] <= now /\ pending' = [pending EXCEPT ![id] = now + Lease]
    BY <1>10 DEF HoldPending
  <2>2. DOMAIN pending' = DOMAIN pending /\ \A i \in DOMAIN pending' : pending[i] <= pending'[i]
    BY <2>1, <1>2, TimesAssumption
  <2> QED
    BY <1>8, <1>10, <2>2 DEF HoldPending
<1>11. CASE SettlePending
  <2>1. PICK id \in DOMAIN pending : pending' = Delete(pending, {id})
    BY <1>11 DEF SettlePending
  <2>2. DOMAIN pending' \subseteq DOMAIN pending /\ \A i \in DOMAIN pending' : pending'[i] = pending[i]
    BY <2>1 DEF Delete, Restrict
  <2>3. \A i \in DOMAIN pending' : pending[i] <= pending'[i]
    BY <2>2, <1>2
  <2> QED
    BY <1>8, <1>11, <2>2, <2>3 DEF SettlePending
<1>12. CASE Tick
  <2>1. UNCHANGED <<current, events, pending, nextId, overtaken>> /\ now' = now + 1
    BY <1>12 DEF Tick
  <2>2. ASSUME NEW o \in Request
        PROVE  tx'[o] = NoTx \/ (tx'[o] = tx[o] /\ now' - tx[o].since <= TxTimeout)
    <3>1. tx'[o] = IF TimesOut(o) THEN NoTx ELSE tx[o]
      BY <1>12 DEF Tick
    <3>2. CASE tx[o] # NoTx /\ ~TimesOut(o)
      <4>1. tx[o].since \in Nat
        BY <1>1, <3>2 DEF TypeOK, Change, Undo
      <4> QED
        BY <3>1, <3>2, <4>1, <2>1, <1>2, TimesAssumption DEF TimesOut
    <3> QED
      BY <3>1, <3>2
  <2>3. \A i \in DOMAIN pending' : pending[i] <= pending'[i]
    BY <2>1, <1>2
  <2> QED
    BY <1>1, <2>1, <2>2, <2>3, OtherStepsInv
<1>13. CASE UNCHANGED ticketVars
  BY <1>8, <1>13, <1>2 DEF ticketVars
<1> QED
  BY <1>3, <1>4, <1>5, <1>6, <1>7, <1>9, <1>10, <1>11, <1>12, <1>13 DEF TicketNext, Serve

-----------------------------------------------------------------------------
(* The theorems.                                                           *)

\* Everything below is a consequence of this invariant.
THEOREM TicketInvariant == TicketSpec => []TicketInv
<1>1. TicketInit => TicketInv
  BY InvInit
<1>2. TicketInv /\ [TicketNext]_ticketVars => TicketInv'
  BY InvStep
<1> QED
  BY <1>1, <1>2, PTL DEF TicketSpec

\* The denormalized status of a ticket differs from its latest event only
\* after an undo that committed once its event had been overtaken.
THEOREM StatusFollowsTimeline == TicketSpec => []DivergesOnlyByOvertakenUndo
<1>1. TicketInv => DivergesOnlyByOvertakenUndo
  BY DEF TicketInv
<1> QED
  BY <1>1, TicketInvariant, PTL

\* With no such undo, consecutive events obey the rules of updateStatus.
THEOREM TimelineIsHonest == TicketSpec => []HonestTimeline
<1>1. TicketInv => HonestTimeline
  BY DEF TicketInv
<1> QED
  BY <1>1, TicketInvariant, PTL

\* The creation event is never undone, not even by an overtaken undo.
THEOREM CreationStays == TicketSpec => []CreationIsPermanent
<1>1. TicketInv => CreationIsPermanent
  BY DEF TicketInv
<1> QED
  BY <1>1, TicketInvariant, PTL

\* Which events a step may delete: one, by an undo that is in time.
LEMMA OnlyUndoDeletes ==
  ASSUME TicketInv, [TicketNext]_ticketVars, NEW i \in DOMAIN events \ DOMAIN events'
  PROVE  /\ now - events[i].at <= UndoWindow + TxTimeout
         /\ events[i].status = current
<1>1. TypeOK
  BY DEF TicketInv
<1>2. PICK t \in Request : CommitUndo(t)
  <2>1. ASSUME NEW t \in Request, CommitChange(t) PROVE FALSE
    BY <2>1 DEF CommitChange, Insert
  <2> QED
    BY <2>1 DEF TicketNext, Serve, BeginChange, BeginUndo, Rollback, RemoveLocation,
                HoldPending, SettlePending, Tick, ticketVars
<1>3. i = tx[t].latest /\ tx[t].op = "undo"
  <2>1. DOMAIN events' = DOMAIN events \ {tx[t].latest}
    BY <1>2, DeleteRows DEF CommitUndo, DeleteEvent
  <2> QED
    BY <1>2, <2>1 DEF CommitUndo
<1>4. tx[t] \in Undo /\ tx[t] # NoTx
  BY <1>1, <1>3 DEF TypeOK, NoTx, Change
<1>5. now - tx[t].since <= TxTimeout /\ tx[t].since - events[i].at <= UndoWindow
  BY <1>3, <1>4 DEF TicketInv, OpenTransactions, OpenUndos
<1>6. events[i].status = current
  BY <1>2, <1>3 DEF TicketInv, OpenUndos, CommitUndo, moveStatus
<1>7. now \in Nat /\ tx[t].since \in Nat /\ events[i].at \in Nat
  BY <1>1, <1>4 DEF TypeOK, Undo, IsTable, Event
<1> QED
  BY <1>5, <1>6, <1>7, TimesAssumption

\* An undo that races changes still only takes back a change the ticket
\* stands at.
THEOREM UndoNeedsCurrent == TicketSpec => UndoneWhileCurrent
<1>1. TicketInv /\ [TicketNext]_ticketVars
        => [\A i \in DOMAIN events \ DOMAIN events' : events[i].status = current]_ticketVars
  BY OnlyUndoDeletes
<1> QED
  BY <1>1, TicketInvariant, PTL DEF TicketSpec, UndoneWhileCurrent

\* After UndoWindow + TxTimeout a status event is permanent.
THEOREM EventsBecomePermanent == TicketSpec => PermanentAfterWindow
<1>1. TicketInv /\ [TicketNext]_ticketVars
        => [\A i \in DOMAIN events \ DOMAIN events' :
              now - events[i].at <= UndoWindow + TxTimeout]_ticketVars
  BY OnlyUndoDeletes
<1> QED
  BY <1>1, TicketInvariant, PTL DEF TicketSpec, PermanentAfterWindow

\* While its email is queued, a change is only undone before the email is
\* due, whatever the window and delay are, given the margin between them.
THEOREM UndoNeverRacesEmail == TicketSpec => UndoneBeforeDue
<1>1. ASSUME TicketInv, [TicketNext]_ticketVars, NEW i \in DOMAIN pending \ DOMAIN events'
      PROVE  now < pending[i]
  <2>1. i \in DOMAIN events \ DOMAIN events'
    BY <1>1 DEF TicketInv, TypeOK
  <2>2. now - events[i].at <= UndoWindow + TxTimeout
    BY <1>1, <2>1, OnlyUndoDeletes
  <2>3. events[i].at + NotifyDelay <= pending[i]
    BY <1>1 DEF TicketInv, QueuedAfterDelay
  <2>4. now \in Nat /\ pending[i] \in Nat /\ events[i].at \in Nat
    BY <1>1, <2>1 DEF TicketInv, TypeOK, IsTable, Event
  <2> QED
    BY <2>2, <2>3, <2>4, TimesAssumption, MarginAssumption
<1>2. TicketInv /\ [TicketNext]_ticketVars
        => [\A i \in DOMAIN pending \ DOMAIN events' : now < pending[i]]_ticketVars
  BY <1>1
<1> QED
  BY <1>2, TicketInvariant, PTL DEF TicketSpec, UndoneBeforeDue

-----------------------------------------------------------------------------
(* What it takes to part status and timeline.                              *)

\* While an undo is open, no change is.
UndosAlone == \A s, t \in Request : ~(tx[s].op = "undo" /\ tx[t].op = "change")

\* Then the event an undo is about to delete is the latest until it is gone.
NothingOvertaken ==
  /\ ~overtaken
  /\ \A t \in Request : tx[t].op = "undo" /\ tx[t].latest \in DOMAIN events =>
       IsLatest(tx[t].latest, DOMAIN events)

\* Undos do not overtake one another: one deletes the latest event, and the
\* others, if they want the same one, find it gone.
LEMMA NothingOvertakenStep ==
  TicketInv /\ UndosAlone /\ NothingOvertaken /\ [TicketNext]_ticketVars => NothingOvertaken'
<1> SUFFICES ASSUME TicketInv, UndosAlone, NothingOvertaken, [TicketNext]_ticketVars
             PROVE  NothingOvertaken'
  OBVIOUS
<1>1. TypeOK
  BY DEF TicketInv
<1>2. ASSUME NEW t \in Request, NEW u \in Staff, NEW s \in Step, BeginChange(t, u, s)
      PROVE  NothingOvertaken'
  BY <1>1, <1>2 DEF BeginChange, NothingOvertaken, TypeOK
<1>3. ASSUME NEW t \in Request, NEW u \in Staff, BeginUndo(t, u)
      PROVE  NothingOvertaken'
  BY <1>1, <1>3 DEF BeginUndo, LatestTwo, NothingOvertaken, TypeOK
<1>4. ASSUME NEW t \in Request, CommitChange(t)
      PROVE  NothingOvertaken'
  <2>1. \A s \in Request : tx[s].op # "undo"
    BY <1>4 DEF UndosAlone, CommitChange
  <2>2. \A s \in Request : tx'[s].op # "undo"
    BY <1>1, <1>4, <2>1 DEF CommitChange, NoTx, TypeOK
  <2> QED
    BY <1>4, <2>2 DEF CommitChange, NothingOvertaken
<1>5. ASSUME NEW t \in Request, CommitUndo(t)
      PROVE  NothingOvertaken'
  <2>1. IsLatest(tx[t].latest, DOMAIN events) /\ DOMAIN events' = DOMAIN events \ {tx[t].latest}
    BY <1>5, DeleteRows DEF CommitUndo, DeleteEvent, NothingOvertaken
  <2>2. ~overtaken'
    BY <1>5, <2>1 DEF CommitUndo, NothingOvertaken
  <2>3. ASSUME NEW s \in Request, tx'[s].op = "undo", tx'[s].latest \in DOMAIN events' PROVE FALSE
    <3>1. tx'[s] = tx[s]
      BY <1>1, <1>5, <2>3 DEF CommitUndo, NoTx, TypeOK
    <3>2. IsLatest(tx[s].latest, DOMAIN events) /\ tx[s].latest # tx[t].latest
      BY <2>1, <2>3, <3>1 DEF NothingOvertaken
    <3> QED
      BY <1>1, <2>1, <3>2 DEF IsLatest, TypeOK
  <2> QED
    BY <2>2, <2>3 DEF NothingOvertaken
<1>6. ASSUME UNCHANGED <<events, overtaken>>, \A t \in Request : tx'[t] = NoTx \/ tx'[t] = tx[t]
      PROVE  NothingOvertaken'
  BY <1>6 DEF NothingOvertaken, NoTx
<1>7. ASSUME NEW t \in Request, Rollback(t)
      PROVE  NothingOvertaken'
  BY <1>1, <1>6, <1>7 DEF Rollback, TypeOK
<1>8. CASE RemoveLocation \/ HoldPending \/ SettlePending \/ UNCHANGED ticketVars
  BY <1>6, <1>8 DEF RemoveLocation, HoldPending, SettlePending, ticketVars
<1>9. CASE Tick
  BY <1>6, <1>9 DEF Tick
<1> QED
  BY <1>2, <1>3, <1>4, <1>5, <1>7, <1>8, <1>9 DEF TicketNext, Serve

\* The race that run undo_aba shows is the only one: as long as no change is
\* open together with an undo, however many changes or undos are, the status
\* is that of the latest event.
THEOREM OnlyChangesOvertakeUndos == TicketSpec /\ []UndosAlone => []StatusMatchesTimeline
<1>1. TicketInit => NothingOvertaken
  BY DEF TicketInit, NothingOvertaken, NoTx
<1>2. TicketInv /\ NothingOvertaken => StatusMatchesTimeline
  BY DEF TicketInv, DivergesOnlyByOvertakenUndo, NothingOvertaken
<1> QED
  BY <1>1, <1>2, NothingOvertakenStep, TicketInvariant, PTL DEF TicketSpec

=============================================================================
