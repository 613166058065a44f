---------------------------- MODULE TicketStatus ----------------------------
(***************************************************************************)
(* The status of one ticket: TicketService.updateStatus and .undoStatus    *)
(* (api/src/ticket/ticket.service.ts) run by concurrent HTTP requests      *)
(* against Postgres at READ COMMITTED.                                     *)
(*                                                                         *)
(* Each request is an interactive Prisma transaction in two steps. The     *)
(* first reads what the handler bases its decision on. The second starts   *)
(* with the conditional UPDATE of moveStatus, which takes the ticket's row *)
(* lock, so it and the writes after it are one step for everyone else.     *)
(* Anything may happen between the two, and the second may never happen:   *)
(* the handler throws, the lock does not come before Prisma's timeout of 5 *)
(* seconds rolls the transaction back, the process dies.                   *)
(*                                                                         *)
(* Rows are inserted under that row lock, so event ids, creation times and *)
(* commits have one order: "latest by createdAt, then id" is latest by id. *)
(***************************************************************************)
EXTENDS Rows, Statuses

CONSTANTS
  Staff,        \* members of the ticket's location
  Managers,     \* those of them who are OWNER or ADMIN
  Step,         \* the status codes of the ticket's workflow
  Request,      \* slots for requests being served at one time
  UndoWindow,   \* STATUS_UNDO_WINDOW_MS
  TxTimeout,    \* Prisma's interactive transaction timeout, its default
  NotifyDelay,  \* STATUS_NOTIFICATION_DELAY_MS
  Lease,        \* CLAIM_LEASE_MS, see StatusEmails
  MaxEvents,    \* bound: event ids handed out
  LastCall,     \* bound: when the last request starts
  MaxTime       \* bound: when the clock stops

ASSUME StaffAssumption == Managers \subseteq Staff

ASSUME StepAssumption == "RECEIVED" \in Step

ASSUME TimesAssumption ==
  /\ UndoWindow \in Nat /\ TxTimeout \in Nat
  /\ NotifyDelay \in Nat /\ Lease \in Nat

\* The 10 second margin of ticket/status-rules.ts against Prisma's 5.
ASSUME MarginAssumption == UndoWindow + TxTimeout < NotifyDelay

VARIABLES
  now,        \* the API process's clock
  current,    \* Ticket.currentStatusId
  events,     \* TicketStatusEvent rows of the ticket
  pending,    \* PendingStatusNotification rows: event id -> sendAfter
  nextId,     \* the id sequence of TicketStatusEvent
  tx,         \* what each request slot's open transaction has read
  closed,     \* Location.deletedAt is set
  overtaken   \* history: some undo deleted an event that was not the latest

ticketVars == <<now, current, events, pending, nextId, tx, closed, overtaken>>

NoTx == [op |-> "none"]

Event == [status : Step, by : Staff, at : Nat]
Change == [op : {"change"}, user : Staff, from : Step, to : Step, since : Nat]
Undo == [op : {"undo"}, latest : Nat, from : Step, to : Step, since : Nat]

TypeOK ==
  /\ now \in Nat /\ nextId \in Nat \ {0}
  /\ current \in Step
  /\ IsTable(events, Event)
  /\ DOMAIN events \subseteq 1 .. nextId - 1
  /\ IsTable(pending, Nat)
  /\ DOMAIN pending \subseteq DOMAIN events
  /\ tx \in [Request -> {NoTx} \cup Change \cup Undo]
  /\ closed \in BOOLEAN /\ overtaken \in BOOLEAN

-----------------------------------------------------------------------------
(* TicketService.create: every ticket starts with one event at RECEIVED.   *)

TicketInit ==
  /\ now = 0
  /\ current = "RECEIVED"
  /\ \E u \in Staff : events = Insert(Empty, 1, [status |-> "RECEIVED", by |-> u, at |-> 0])
  /\ pending = Empty
  /\ nextId = 2
  /\ tx = [t \in Request |-> NoTx]
  /\ closed = FALSE
  /\ overtaken = FALSE

-----------------------------------------------------------------------------
(* The handlers.                                                           *)

\* Mutant: the check for RECEIVED is forgotten.
MayChangeToAny(user, from, to) ==
  /\ to # from
  /\ to = "COMPLETED" => from = "READY"
  /\ isEndedStatus(from) => user \in Managers

\* The rules of updateStatus, on the status its transaction read.
MayChange(user, from, to) ==
  /\ to # "RECEIVED"
  /\ to # from
  /\ to = "COMPLETED" => from = "READY"
  /\ isEndedStatus(from) => user \in Managers

\* Mutant: the window is off by one.
WithinUndoWindowPlusOne(event) == now - event.at <= UndoWindow + 1

WithinUndoWindow(event) == now - event.at <= UndoWindow

\* Mutant: update instead of updateMany on the status read.
moveStatusBlindly(from, to) == current' = to

\* The statement that guards every write of currentStatusId.
moveStatus(from, to) == current = from /\ current' = to

\* A request gets past LocationMembershipGuard only at a location that is
\* not deleted; the services behind it do not look again.
Admitted(t) == tx[t] = NoTx /\ ~closed /\ now <= LastCall

BeginChange(t, u, to) ==
  /\ Admitted(t)
  /\ MayChange(u, current, to)
  /\ tx' = [tx EXCEPT ![t] =
              [op |-> "change", user |-> u, from |-> current, to |-> to, since |-> now]]
  /\ UNCHANGED <<now, current, events, pending, nextId, closed, overtaken>>

\* Mutant: the email is due when the undo window closes, without a margin.
QueueWithoutMargin(id, status) ==
  pending' = IF isNotifyingStatus(status) THEN Insert(pending, id, now + UndoWindow) ELSE pending

\* A notifying status queues its email in the same transaction.
Queue(id, status) ==
  pending' = IF isNotifyingStatus(status) THEN Insert(pending, id, now + NotifyDelay) ELSE pending

CommitChange(t) ==
  /\ tx[t].op = "change"
  /\ nextId <= MaxEvents
  /\ moveStatus(tx[t].from, tx[t].to)
  /\ events' = Insert(events, nextId, [status |-> tx[t].to, by |-> tx[t].user, at |-> now])
  /\ Queue(nextId, tx[t].to)
  /\ nextId' = nextId + 1
  /\ tx' = [tx EXCEPT ![t] = NoTx]
  /\ UNCHANGED <<now, closed, overtaken>>

\* Mutant: the undo always goes back to the creation event.
LatestAndFirst(latest, previous) ==
  /\ IsLatest(latest, DOMAIN events)
  /\ previous = 1 /\ latest # 1

\* The two rows of the query for the latest events; with one event only
\* there is nothing to undo.
LatestTwo(latest, previous) ==
  /\ IsLatest(latest, DOMAIN events)
  /\ IsLatest(previous, DOMAIN events \ {latest})

BeginUndo(t, u) ==
  /\ Admitted(t)
  /\ \E latest, previous \in DOMAIN events :
       /\ LatestTwo(latest, previous)
       /\ events[latest].by = u
       /\ WithinUndoWindow(events[latest])
       /\ tx' = [tx EXCEPT ![t] =
                   [op |-> "undo", latest |-> latest, from |-> events[latest].status,
                    to |-> events[previous].status, since |-> now]]
  /\ UNCHANGED <<now, current, events, pending, nextId, closed, overtaken>>

\* Mutant: the pending notification survives its event.
DeleteEventOnly(id) ==
  /\ id \in DOMAIN events
  /\ events' = Delete(events, {id})
  /\ pending' = pending

\* Deleting the row of an event that is already gone throws, which rolls
\* the move back; deleting one cascades to its pending notification.
DeleteEvent(id) ==
  /\ id \in DOMAIN events
  /\ events' = Delete(events, {id})
  /\ pending' = Delete(pending, {id})

CommitUndo(t) ==
  /\ tx[t].op = "undo"
  /\ moveStatus(tx[t].from, tx[t].to)
  /\ DeleteEvent(tx[t].latest)
  /\ overtaken' = (overtaken \/ ~IsLatest(tx[t].latest, DOMAIN events))
  /\ tx' = [tx EXCEPT ![t] = NoTx]
  /\ UNCHANGED <<now, nextId, closed>>

\* Any way a transaction ends early without committing.
Rollback(t) ==
  /\ tx[t] # NoTx
  /\ tx' = [tx EXCEPT ![t] = NoTx]
  /\ UNCHANGED <<now, current, events, pending, nextId, closed, overtaken>>

-----------------------------------------------------------------------------
(* What else touches these rows.                                           *)

\* LocationService.remove: one batch transaction.
RemoveLocation ==
  /\ ~closed
  /\ closed' = TRUE
  /\ pending' = Empty
  /\ UNCHANGED <<now, current, events, nextId, tx, overtaken>>

\* The sweep of NotificationService, as far as the ticket can tell: a row
\* that is due is held for a lease, and a row of the table is removed.
HoldPending ==
  /\ \E id \in DOMAIN pending :
       /\ pending[id] <= now
       /\ pending' = [pending EXCEPT ![id] = now + Lease]
  /\ UNCHANGED <<now, current, events, nextId, tx, closed, overtaken>>

SettlePending ==
  /\ \E id \in DOMAIN pending : pending' = Delete(pending, {id})
  /\ UNCHANGED <<now, current, events, nextId, tx, closed, overtaken>>

\* Mutant: a transaction may stay open for ever.
NeverTimesOut(t) == FALSE

\* Prisma rolls an interactive transaction back when its time is over.
TimesOut(t) == tx[t] # NoTx /\ now - tx[t].since >= TxTimeout

Tick ==
  /\ now < MaxTime
  /\ now' = now + 1
  /\ tx' = [t \in Request |-> IF TimesOut(t) THEN NoTx ELSE tx[t]]
  /\ UNCHANGED <<current, events, pending, nextId, closed, overtaken>>

-----------------------------------------------------------------------------

Serve(t) ==
  \/ \E u \in Staff, s \in Step : BeginChange(t, u, s)
  \/ \E u \in Staff : BeginUndo(t, u)
  \/ CommitChange(t)
  \/ CommitUndo(t)
  \/ Rollback(t)

TicketNext ==
  \/ \E t \in Request : Serve(t)
  \/ RemoveLocation
  \/ HoldPending
  \/ SettlePending
  \/ Tick

TicketSpec == TicketInit /\ [][TicketNext]_ticketVars

-----------------------------------------------------------------------------
(* Properties.                                                             *)

\* Ticket.currentStatusId is the status of the latest event. This is what
\* data-model.md asks of every transaction; see the two that follow for
\* what the code keeps of it.
StatusMatchesTimeline ==
  \E latest \in DOMAIN events :
    IsLatest(latest, DOMAIN events) /\ events[latest].status = current

\* The denormalized status and the history part ways in one way only: an
\* undo that commits after its event stopped being the latest one, which
\* moveStatus lets through when the ticket is back at the same status.
\* Races between changes, double undos and lost locks never do it.
DivergesOnlyByOvertakenUndo == ~overtaken => StatusMatchesTimeline

\* What the tracking page shows reads as one story, unless an undo was
\* overtaken: no status twice in a row, COMPLETED only after READY, and
\* a finished ticket reopened only by an owner or admin. Each rule is
\* checked on a status read before the row lock.
HonestTimeline ==
  ~overtaken =>
    \A i, j \in DOMAIN events : Adjacent(i, j, DOMAIN events) =>
      /\ events[i].status # events[j].status
      /\ events[j].status = "COMPLETED" => events[i].status = "READY"
      /\ isEndedStatus(events[i].status) => events[j].by \in Managers

\* The creation event survives every undo, overtaken or not, and is the
\* only one at RECEIVED: undoStatus finds a previous event to go back to.
CreationIsPermanent ==
  /\ 1 \in DOMAIN events
  /\ \A i \in DOMAIN events : events[i].status = "RECEIVED" <=> i = 1

\* An undo takes a change back only while the ticket stands at the status
\* the change moved it to: this much moveStatus guarantees of an undo
\* that races changes.
UndoneWhileCurrent ==
  [][\A i \in DOMAIN events \ DOMAIN events' : events[i].status = current]_ticketVars

\* After the undo window, and the time a transaction that looked at the
\* clock inside it may still take, a status event is there for good.
PermanentAfterWindow ==
  [][\A i \in DOMAIN events \ DOMAIN events' :
       now - events[i].at <= UndoWindow + TxTimeout]_ticketVars

\* An undo never takes back a change whose email is due or being sent:
\* the 10 seconds between the undo window and the delay of the email are
\* longer than an undo's transaction.
UndoneBeforeDue ==
  [][\A i \in DOMAIN pending \ DOMAIN events' : now < pending[i]]_ticketVars

\* What an open transaction may still rely on when it commits, and the
\* delay behind every queued email: with these the properties above are
\* inductive. An undo's previous event stays the one right before its
\* latest event as long as that one exists and no undo was overtaken.
OpenTransactions ==
  \A t \in Request :
    /\ tx[t] # NoTx => now - tx[t].since <= TxTimeout
    /\ tx[t].op = "change" => MayChange(tx[t].user, tx[t].from, tx[t].to)
    /\ tx[t].op = "undo" => tx[t].latest \in 2 .. nextId - 1

OpenUndos ==
  \A t \in Request : tx[t].op = "undo" /\ tx[t].latest \in DOMAIN events =>
    /\ events[tx[t].latest].status = tx[t].from
    /\ tx[t].since - events[tx[t].latest].at <= UndoWindow
    /\ ~overtaken =>
         \E previous \in DOMAIN events :
           /\ Adjacent(previous, tx[t].latest, DOMAIN events)
           /\ events[previous].status = tx[t].to

QueuedAfterDelay == \A i \in DOMAIN pending : events[i].at + NotifyDelay <= pending[i]

TicketInv ==
  /\ TypeOK
  /\ DivergesOnlyByOvertakenUndo
  /\ HonestTimeline
  /\ CreationIsPermanent
  /\ OpenTransactions
  /\ OpenUndos
  /\ QueuedAfterDelay

=============================================================================
