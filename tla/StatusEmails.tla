---------------------------- MODULE StatusEmails ----------------------------
(***************************************************************************)
(* The emails a ticket's status changes cause: NotificationService's sweep *)
(* over PendingStatusNotification (api/src/notification/                   *)
(* notification.service.ts) next to the requests of TicketStatus that      *)
(* queue, supersede and undo what it sends.                                *)
(*                                                                         *)
(* A sweep reads the rows that are due and works through them one by one,  *)
(* an await between each of its steps. The cron starts a sweep every 30    *)
(* seconds whether or not the last one is done, so sweeps overlap. Handing *)
(* an email to EmailService.send is one step here, and all that told means *)
(* is that this was done: StatusDelivery adds when emails arrive, EmailLog *)
(* models what happens to one of them in between.                          *)
(***************************************************************************)
EXTENDS TicketStatus, Sequences, FiniteSets

CONSTANTS
  Sweep,        \* slots for sweeps running at one time
  SendMax,      \* the longest a sweep works on one row
  MaxFailures   \* bound: sweeps cut short

\* "Far longer than a send takes, retries included": the comment at
\* CLAIM_LEASE_MS.
ASSUME SendAssumption == SendMax \in Nat /\ SendMax < Lease

ASSUME BoundsAssumption == MaxEvents \in Nat /\ MaxFailures \in Nat

VARIABLES
  sweep,      \* what each sweep has read and is doing
  stopped,    \* Ticket.notificationsStoppedAt is set
  reachable,  \* canEmail(customer): an address, no bounce, no complaint
  told,       \* events whose email was handed to EmailService, in order
  muted,      \* history: emails dropped because the customer gets none
  failures    \* sweeps cut short so far

emailVars == <<sweep, stopped, reachable, told, muted, failures>>
allVars == <<now, current, events, pending, nextId, tx, closed, overtaken,
             sweep, stopped, reachable, told, muted, failures>>

\* "claim": about to claim the next row of todo, the rows read as due with
\* the sendAfter they had. The other states are about the row claimed.
Idle == [pc |-> "idle"]
Claiming(todo) == [pc |-> "claim", todo |-> todo]
Holding(pc, id, since, todo) == [pc |-> pc, row |-> id, since |-> since, todo |-> todo]

IsHolding(w) == sweep[w].pc \in {"load", "send", "finish"}

Rest(todo) == IsTable(todo, Nat) /\ DOMAIN todo \subseteq 1 .. nextId - 1

SweepState(s) ==
  \/ s = Idle
  \/ /\ s = Claiming(s.todo)
     /\ Rest(s.todo) /\ DOMAIN s.todo # {}
  \/ /\ s.pc \in {"load", "send", "finish"}
     /\ s = Holding(s.pc, s.row, s.since, s.todo) /\ s.row \in 1 .. nextId - 1
     /\ s.since \in Nat /\ Rest(s.todo)

EmailTypeOK ==
  /\ TypeOK
  /\ sweep = [w \in Sweep |-> sweep[w]]
  /\ \A w \in Sweep : SweepState(sweep[w])
  /\ stopped \in BOOLEAN /\ reachable \in BOOLEAN
  /\ told \in Seq(1 .. nextId - 1)
  /\ muted \subseteq 1 .. nextId - 1
  /\ failures \in 0 .. MaxFailures

EmailInit ==
  /\ TicketInit
  /\ sweep = [w \in Sweep |-> Idle]
  /\ stopped = FALSE
  /\ reachable \in BOOLEAN
  /\ told = <<>>
  /\ muted = {}
  /\ failures = 0

-----------------------------------------------------------------------------
(* NotificationService.sendDueStatusEmails.                                *)

ticketRest == <<now, current, events, nextId, tx, closed, overtaken>>

Due == {id \in DOMAIN pending : pending[id] <= now}

ReadDue(w) ==
  /\ sweep[w] = Idle
  /\ Due # {}
  /\ sweep' = [sweep EXCEPT ![w] = Claiming(Restrict(pending, Due))]
  /\ UNCHANGED <<ticketVars, stopped, reachable, told, muted, failures>>

\* orderBy sendAfter asc.
IsFirst(id, todo) == id \in DOMAIN todo /\ \A other \in DOMAIN todo : todo[id] <= todo[other]

\* Mutant: the loop goes on after its last row.
ResumeAlways(todo) == Claiming(todo)

\* The rest of the loop after a row.
Resume(todo) == IF DOMAIN todo = {} THEN Idle ELSE Claiming(todo)

\* Mutant: the claim's UPDATE is not conditional on the sendAfter read.
StillQueued(id, sendAfter) == id \in DOMAIN pending

\* The claim's UPDATE matches only a row that still has the sendAfter read.
Unclaimed(id, sendAfter) == id \in DOMAIN pending /\ pending[id] = sendAfter

\* Mutant: a row is taken from the queue when it is claimed.
Take(id) == Delete(pending, {id})

\* Mutant: the lease is as long as an email is delayed.
HoldTooLong(id) == [pending EXCEPT ![id] = now + NotifyDelay]

\* The claim pushes sendAfter out by the lease.
Hold(id) == [pending EXCEPT ![id] = now + Lease]

Claim(w) ==
  /\ sweep[w].pc = "claim"
  /\ \E id \in DOMAIN sweep[w].todo :
       LET rest == Delete(sweep[w].todo, {id})
       IN  /\ IsFirst(id, sweep[w].todo)
           /\ Unclaimed(id, sweep[w].todo[id])
           /\ pending' = Hold(id)
           /\ sweep' = [sweep EXCEPT ![w] = Holding("load", id, now, rest)]
  /\ UNCHANGED <<ticketRest, stopped, reachable, told, muted, failures>>

Skip(w) ==
  /\ sweep[w].pc = "claim"
  /\ \E id \in DOMAIN sweep[w].todo :
       /\ IsFirst(id, sweep[w].todo)
       /\ ~Unclaimed(id, sweep[w].todo[id])
       /\ sweep' = [sweep EXCEPT ![w] = Resume(Delete(sweep[w].todo, {id}))]
  /\ UNCHANGED <<ticketVars, stopped, reachable, told, muted, failures>>

-----------------------------------------------------------------------------
(* sendStatusEmail, on the ticket loadTicket reads.                        *)

\* Mutant: only an undone change is no longer worth an email.
NotUndone(id) == id \in DOMAIN events

StillCurrent(id) == IsLatest(id, DOMAIN events)

Silenced == stopped \/ ~reachable \/ closed

Deliverable(id) == StillCurrent(id) /\ ~Silenced /\ isNotifyingStatus(events[id].status)

Load(w) ==
  /\ sweep[w].pc = "load"
  /\ LET id == sweep[w].row
     IN  /\ sweep' = [sweep EXCEPT ![w].pc = IF Deliverable(id) THEN "send" ELSE "finish"]
         /\ muted' = IF Silenced THEN muted \cup {id} ELSE muted
  /\ UNCHANGED <<ticketVars, stopped, reachable, told, failures>>

Send(w) ==
  /\ sweep[w].pc = "send"
  /\ told' = Append(told, sweep[w].row)
  /\ sweep' = [sweep EXCEPT ![w].pc = "finish"]
  /\ UNCHANGED <<ticketVars, stopped, reachable, muted, failures>>

\* Mutant: a row is only deleted once its email was sent.
DoneIfSent(id) == IF \E k \in DOMAIN told : told[k] = id THEN Delete(pending, {id}) ELSE pending

Done(id) == Delete(pending, {id})

\* The deleteMany that ends the work on a row: nothing, if the row is gone.
Finish(w) ==
  /\ sweep[w].pc = "finish"
  /\ pending' = Done(sweep[w].row)
  /\ sweep' = [sweep EXCEPT ![w] = Resume(sweep[w].todo)]
  /\ UNCHANGED <<ticketRest, stopped, reachable, told, muted, failures>>

\* A query or the send throws, which ends the whole loop, or the process
\* dies. The bound on the time leaves room for the lease to run out.
Fail(w) ==
  /\ sweep[w] # Idle
  /\ failures < MaxFailures
  /\ IsHolding(w) => sweep[w].since + Lease <= MaxTime
  /\ failures' = failures + 1
  /\ sweep' = [sweep EXCEPT ![w] = Idle]
  /\ UNCHANGED <<ticketVars, stopped, reachable, told, muted>>

-----------------------------------------------------------------------------
(* The customer, and what TicketStatus does to the rows.                   *)

\* TrackingService.stopNotifications, on a link that has not expired.
StopNotifications ==
  /\ ~stopped /\ ~closed
  /\ stopped' = TRUE
  /\ UNCHANGED <<ticketVars, sweep, reachable, told, muted, failures>>

\* Staff edit the customer's address, or a webhook flags it.
ChangeAddress ==
  /\ reachable' = ~reachable
  /\ UNCHANGED <<ticketVars, sweep, stopped, told, muted, failures>>

Requests ==
  /\ \E t \in Request : Serve(t)
  /\ UNCHANGED emailVars

Close ==
  /\ RemoveLocation
  /\ muted' = muted \cup DOMAIN pending
  /\ UNCHANGED <<sweep, stopped, reachable, told, failures>>

\* No sweep works on one row for longer than SendMax.
Pass ==
  /\ \A w \in Sweep : IsHolding(w) => now < sweep[w].since + SendMax
  /\ Tick
  /\ UNCHANGED emailVars

Work(w) == ReadDue(w) \/ Claim(w) \/ Skip(w) \/ Load(w) \/ Send(w) \/ Finish(w)

EmailNext ==
  \/ Requests
  \/ Close
  \/ \E w \in Sweep : Work(w) \/ Fail(w)
  \/ StopNotifications
  \/ ChangeAddress
  \/ Pass

\* The cron keeps starting sweeps, a started sweep keeps running, and time
\* passes.
EmailSpec ==
  /\ EmailInit /\ [][EmailNext]_allVars
  /\ \A w \in Sweep : WF_allVars(Work(w))
  /\ WF_allVars(Pass)

-----------------------------------------------------------------------------
(* Properties.                                                             *)

WasTold(id) == \E k \in DOMAIN told : told[k] = id

\* "An undone change never reaches the customer" (status-rules.ts): every
\* event an email was made of is there for good.
UndoneNeverTold == \A k \in DOMAIN told : told[k] \in DOMAIN events

\* Overlapping sweeps never work on the same row: a claim is conditional
\* on the sendAfter read, and a lease outlasts the work on a row.
OneHolder ==
  \A v, w \in Sweep :
    v # w /\ IsHolding(v) /\ IsHolding(w) => sweep[v].row # sweep[w].row

\* A change is announced at most once, plus once for each sweep cut short.
Repeats == {k \in DOMAIN told : \E j \in DOMAIN told : j < k /\ told[j] = told[k]}
AnnouncedOnce == Cardinality(Repeats) <= failures

\* A change "followed by another change" within the delay "never reaches
\* the customer" (ADR 0015), however late its row is swept or swept again.
SupersededNeverTold ==
  \A i, j \in DOMAIN events :
    WasTold(i) /\ i < j => events[i].at + NotifyDelay <= events[j].at

\* The latest change ever made is announced, queued, or was dropped because
\* the customer gets no email: nothing else can lose it.
LastWordAnnounced ==
  LET id == nextId - 1
  IN  id \in DOMAIN events /\ isNotifyingStatus(events[id].status)
        => \/ id \in DOMAIN pending \cup muted
           \/ WasTold(id)

\* What ADR 0015 and 0016 promise of a ticket at rest: the customer hears
\* of the change that is the latest one, unless they get no email at all,
\* "as if" a change that was undone "never happened".
RestingStatusAnnounced ==
  \A id \in DOMAIN events :
    IsLatest(id, DOMAIN events) /\ isNotifyingStatus(events[id].status)
      => \/ id \in DOMAIN pending \cup muted
         \/ WasTold(id)

\* To the ticket, the sweeps are the environment TicketStatus assumes.
ImplementsTicket == TicketSpec

\* What has become of a change's email. A sweep that is about to send still
\* may, even if the location's deletion has removed the row meanwhile.
fateOf ==
  [id \in 2 .. MaxEvents |->
     IF id >= nextId THEN "unmade"
     ELSE IF WasTold(id) THEN "told"
     ELSE IF \/ id \in DOMAIN pending
             \/ \E w \in Sweep : sweep[w].pc = "send" /\ sweep[w].row = id
          THEN "queued"
     ELSE "dropped"]

Mail == INSTANCE Announcement WITH Change <- 2 .. MaxEvents, fate <- fateOf

\* The sweeps implement Announcement: a dropped email is never sent after
\* all, and every queued email is told or dropped in the end, although
\* sweeps overlap, are cut short and leave leases behind.
ImplementsAnnouncement == Mail!AnnouncementSpec
=============================================================================
