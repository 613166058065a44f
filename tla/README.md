# ReadyYet in TLA+

TLA+ modules of the ReadyYet API (`api/src`, with `packages/shared` and
`packages/db`), the TLC runs that check them on small instances, and the TLAPS
proofs of what holds for every instance. Every definition is translated from
the source; `PROJECT.json` says which lines each one stands for.

## 1. The system

ReadyYet lets a shop take in an item as a *ticket*, move the ticket through the
statuses of a workflow, and keep its customer informed by email and by a public
tracking page. One NestJS process serves the HTTP API, runs two cron sweeps and
answers Resend's webhooks. All durable state is in Postgres, through Prisma, at
READ COMMITTED. Node runs one callback at a time, so what interleaves are the
stretches of code between two `await`s; what serialises is a row lock, a unique
index or a conditional `UPDATE`.

| Component | State | Operations | Talks to |
| --- | --- | --- | --- |
| Ticket status (`ticket/ticket.service.ts`, `ticket/status-rules.ts`) | `Ticket.currentStatusId`, `TicketStatusEvent` rows | `create`, `updateStatus`, `undoStatus` | queues notifications in its own transaction |
| Status emails (`notification/notification.service.ts`) | `PendingStatusNotification` rows | cron sweep, ticket-created email, resend of the tracking link | reads tickets, calls `EmailService` |
| Email delivery (`email/`) | `EmailLog` rows, the next request slot | `send`, retry sweep, webhooks | Resend; flags customers |
| Tracking page (`tracking/`) | `Ticket.notificationsStoppedAt` | `findByCode`, `stopNotifications` | silences status emails |
| Team (`business/`, `location/`, `membership/`, `invitation/`, `me/`) | `Business.ownerId`, `Location.deletedAt`, `Membership`, `Invitation`, `User.deletedAt` | create, add and remove locations, transfer, roles, invitations, account deletion | the guard reads it on every request |
| Location guard (`common/guards/`) | none | admits a request | memberships, locations |
| Customers (`customer/`) | `Customer` rows, bounce flags | `update`, erasure, list | tickets, webhooks |
| Workflows, catalogue (`workflow/`, `catalogue/`, `packages/db/prisma/catalogue.ts`) | seeded, never written by a request | reads | ticket creation |
| Sign-in (`auth/`) | Better Auth's tables | the library's | emails codes |

What makes each of them correct, and what is hard about it:

- **Ticket status.** The current status is the status of the latest event; the
  timeline obeys ADR 0016; an undo takes back its author's own latest change,
  within two minutes. Hard: transactions decide on rows they do not lock.
- **Status emails.** An undone change is never announced; a resting one is,
  once; none that was superseded in time; nothing queued is lost to a crash.
  Hard: overlapping sweeps, leases, a check made long before the send, and a
  retry that makes none.
- **Email delivery.** A row ends in a status that says what happened to the
  message. Hard: concurrent attempts, events out of order, an attempt counter
  read and written in different places.
- **Team.** Each location has exactly one OWNER, the business's owner; nobody
  without an account owns a live business; an accepted invitation is one
  membership. Hard: checks before, and writes outside, the transaction.
- **Customers.** An erased customer stays erased. Hard: load, then write.

The hazards, each at the line where it bites, are listed in `PROJECT.json`.

## 2. The modules

| Module | Models | State and actions |
| --- | --- | --- |
| `Statuses` | `packages/shared/src/statuses.ts`, the catalogue and the workflows seeded from it | codes as strings; an assumption checks that every step and every special code is in the catalogue |
| `Rows` | database tables | a table is a function from keys to rows; insert, delete, "latest" |
| `TicketStatus` | `updateStatus`, `undoStatus`, `moveStatus` | below |
| `StatusEmails` | the sweep of `NotificationService`; extends `TicketStatus` | below |
| `StatusDelivery` | when an email handed over arrives, by an attempt now or a retry later; extends `StatusEmails` | below |
| `Announcement` | the promise of ADR 0015 for one change: unmade, queued, then told or dropped, for good | abstract specification |
| `EmailLog` | `EmailService.attempt`, `EmailRetryService`, the Resend webhook | below |
| `ResendSlots` | `waitForResendSlot` | below |
| `Team` | businesses, locations, memberships, invitations, accounts, and the controllers in front of them | below |
| `Desk` | customers, tickets made for them, the emails with a tracking link | below |
| `FrontDesk` | the customer and the ticket list, read page by page; extends `Desk` | below |
| `MCTicketStatus`, `MCStatusEmails`, `MCStatusDelivery`, `MCEmailLog`, `MCTeam`, `MCFrontDesk` | small instances for TLC | constants, symmetry |
| `RowsProofs`, `TicketStatusProofs`, `EmailLogProofs`, `ResendSlotsProofs`, `TeamProofs`, `DeskProofs`, `FrontDeskProofs`, `StatusEmailsProofs` | proofs | section 5 |

Operators whose comment starts with "Mutant" are not part of a specification.
Each is a plausible bug in the definition that follows it; substituted for it,
it makes the property named in `PROJECT.json` fail, which shows that the
property depends on that code.

### TicketStatus

One ticket, its events, its pending notifications, and requests that change or
undo its status. A request is one interactive transaction in two steps:

- `BeginChange` and `BeginUndo` are what the handler reads before it writes:
  the guard's admission, the ticket, the workflow step, the role, the two
  latest events, the clock. The reads of one handler are one step: only the
  status it read (or the two events) is used again later, and that is kept in
  `tx`.
- `CommitChange` and `CommitUndo` start with `moveStatus`, an `UPDATE ... WHERE
  currentStatusId = <the status read>`. It takes the ticket's row lock and
  keeps it until the commit, so the insert or delete after it belongs to the
  same step. Under the lock the insert draws the next id and `createdAt`, so
  events are ordered by id. (Prisma fills `@default(now())` in when it runs the
  insert; were it Postgres's transaction start time, a change that waited could
  be filed before an earlier one.) Deleting an event that is gone throws and
  rolls back: there `CommitUndo` is disabled.
- `Rollback` is every other end of a transaction, at any time: a thrown error,
  a lost race, a dead process. `Tick` ends those that reach `TxTimeout`.
- `RemoveLocation` is `LocationService.remove`. A request that was admitted
  before still commits after it.
- `HoldPending`, `SettlePending` are all a sweep does to this state;
  `StatusEmails` implements them.

`overtaken` is a history variable: it records that an undo committed whose
event was not the latest any more. `Managers` is constant: a role that changes
while a request reads it belongs to the team's module.

### StatusEmails and StatusDelivery

`StatusEmails` adds the sweeps, the customer's side (`stopped`, `reachable`) and
what the customer was `told`, that is, which emails were handed to
`EmailService`. A sweep reads the due rows with their `sendAfter`
(`ReadDue`), and for each, in that order, claims it by a conditional update
(`Claim`, or `Skip` when another sweep did), loads the ticket and decides
(`Load`), hands the email to `EmailService` (`Send`) and deletes the row
(`Finish`). Other actions come between any two of these. `Fail` ends a sweep
anywhere: an exception leaves the loop, or the process dies. One ticket is
enough for the sweep's guarantees per ticket; other tickets' rows in the same
sweep only delay it, and a sweep may linger before a claim for any time.

`SendAssumption` is the code's own: `CLAIM_LEASE_MS` is "far longer than a send
takes, retries included". `Pass` enforces it: no row is worked on for longer
than `SendMax`, which is below `Lease`. How it compares with the delay of an
email nothing in the code says, and the instance takes them equal.
`EmailService` sets no timeout on its HTTP requests, so this is an assumption
about Resend and the network, not something the code guarantees.

`EmailService.send` answers the sweep even when Resend took nothing
(`email.service.ts:137`), and the sweep deletes its row. The email is then a row
of `EmailLog`, which `EmailRetryService` sends minutes or an hour later as it was
written, without a look at the ticket. `StatusDelivery` puts these emails in an
`outbox`, from which any may be delivered at any time, in any order or never
(`Deliver`); `EmailLog` has the attempts behind that step. `heard` is what
reached the customer. `outrun` is a history variable: the emails that were on
their way, in a sweep's hands or in the outbox, when a later one arrived, or
when the customer stopped them, lost the address or the location.

`Announcement` is what a change's email promises. The refinement mapping
`fateOf` counts a change as still queued while a sweep is about to send it,
even if the location's removal has deleted its row in between: the email still
goes out.

### EmailLog

One `EmailLog` row, from the moment `send()` has written it. The attempters are
`send()` itself (`Origin`) and the retry sweeps, which may overlap; each is a
`job` at a step of `attempt()`: about to count attempt `i` (`try`), waiting for
Resend's answer to it (`call`), told yes (`accepted`), out of tries or refused
(`failing`). `CountAttempt`, `CallAccepted` or `CallFails`, then `RecordSent` or
`RecordFailed` are the code between its awaits; backoff and the wait for a
request slot are time that passes before a step. `ListStuck` is a sweep reading
the row; whatever the sweep does with other rows first, this row is not read
again. `Abort` ends an attempter anywhere: the process dies or an update throws
(`RecordSent`'s too: its promise is returned from the `try` block without
`await`, so no `catch` sees it). `lastAttemptAt` is kept as "never", "recent" or
"cooled", which is all the cooldown asks.

Resend is external, modelled from how the code uses it: it accepts an
idempotency key once and answers the same id afterwards; an answer may get lost;
it refuses or fails as it likes, also a message it accepted before; it repeats a
webhook until it is answered 200, in any order. Resend forgets a key after a
day; here it never does, as the sweeps reach their ceiling within an hour unless
the process stays down. `overlapped` is a history variable: a sweep took the row
up while an attempt on it was under way. Every event the code tells apart is there, `opened`
standing for those it ignores. `Webhook` is the whole handler, with the flags on
the customers of that address; `WebhookUnanswered` is the handler cut short
after the flags, or done with its answer lost.

### ResendSlots

The callers of one process and the counter they share, in real time. A call
takes its slot up to the `await` in one step; `Start` is its timer firing, or no
timer at all. A timer never fires early and, because the event loop may be busy,
up to `MaxLate` late: `Tick` enforces that, an assumption about the process, not
something the code guarantees. The clock is never set back, and a restart, which
forgets the counter, begins a new behaviour. `EmailLog` needs none of this: there
a request waits for any time. ADR 0012 says the code spaces request *starts*
120 ms apart; it spaces slots, and a late timer brings its request closer to the
next, so `StartsSpread` allows for one oversleep.

### Team

Nearly every handler here loads rows, checks a rule and then writes, without a
lock and without repeating the check in the write. A request therefore takes up
to three steps, and `request` keeps what it knows in between:

- `Admit` is `LocationMembershipGuard`: the location is live, the user is a
  member, and the role the handler's `@LocationRoles` is compared with is the
  one read here. Handlers that are not under a location (`accept`, the business
  ones, account deletion) begin without it, with the session's guard only.
- `Decide...` is the service up to its last query: what it loads, the rules
  (`assertCanManage` on a role read once more by `roleAt`), the early throws.
- The write (`UpdateRole`, `Remove`, `Leave`, `Invite`, `Revoke`, `Resend`,
  `Expire`, `Accept`, `Create`, `AddLocation`, `Transfer`, `RemoveLocation`,
  `DeleteAccount`) is one statement or one transaction, with its own conditions
  only. `Accept` is conditional on the status, `Transfer` on the owner; a unique
  index (a member per location, one OWNER per location, one pending invitation
  per address) makes a write throw, which is the action being disabled. The rest
  are not conditional, and the action writes whatever is there by now.
- `InvitationService.create` writes twice, without a transaction: `ExpireStale`,
  the `updateMany` that takes a stale invitation out of the way, then `Invite`.
  Others act in between, and the request may end there.

`Fail` is any other end. The operators named after controllers say which
handlers there are and which roles reach them. A transaction is one step; for
`Transfer` that merges an `UPDATE` of the business, whose row lock keeps other
transfers out, with the memberships after it. What another request writes to
memberships between the two would be overwritten or not seen, as if it had come
before or after the whole.

`late` is a history variable. It names the writes made although what they were
decided on had changed: the operation, with the location, invitation or user it
went wrong for. The invariants say that nothing goes wrong *otherwise*, so they
list the gaps instead of being weakened until they hold. `used` counts how often
an invitation made somebody a member.

### Desk and FrontDesk

`Desk` is one location's customers and tickets. `CustomerService.update` and
`remove`, the two branches of `TicketService.create`, the two tracking-link
emails and the webhook's flags interleave as in `Team`: what was read (the old
email of an update; that a customer is not erased) stays in `request`. `Load` is
`loadTicket` with `canEmail`; `WriteMail` is the row `EmailService.send` writes
first; `SendMail` is Resend accepting it, at once or hours later by a retry, to
the address in the row. `Overtake` marks emails on their way that a step has
made wrong: the address changed, failed or was erased, the link in it died.
`failed` and `erasedWith` are history. A name stands for name and phone number.

`FrontDesk` adds one reader. Lists are ordered and cut by key, (`fullName`, id)
for customers and (`createdAt`, id) for tickets, newest first: `Sorted` is the
`orderBy`, `Past` the filter a cursor adds. A page is one query of `Take + 1`
rows. A ticket's cursor holds its key; a customer's holds
only the id, so its name is looked up again (`LookUp`) and may have changed.
`steady` holds the rows whose key and match have not changed since the walk
began, `jumped` those of them the cursor's customer moved past. Tickets
that are made at one time need not get their ids in that order, and neither do
the initial ones. `contains` is equality of words: the properties do not depend
on which rows match, only on whether they go on matching.

## 3. The runs

| Run | Question | Bounds |
| --- | --- | --- |
| `ticket_status` | Does the timeline stay what ADR 0016 describes when requests race, and how far can status and history part? | a manager and an employee, two requests at a time, statuses RECEIVED, IN_PROGRESS, READY, COMPLETED, three changes, undo window 1, transaction timeout 1, email delay 3 |
| `undo_aba` | Is the status always the latest event's? No (section 4). | the same |
| `status_emails` | What is handed over and how often, which emails may be out of date when they arrive; do the sweeps do to a ticket what `TicketStatus` assumes? | one manager, one request at a time, RECEIVED, IN_PROGRESS, READY, CANCELLED, two changes, two overlapping sweeps, one of them cut short, a send as long as the email's delay, every delivery at any time |
| `emails_settle` | Is every queued email told or dropped in the end, and never sent once dropped? | the same without deliveries, requests start at time 0 |
| `lost_announcement` | Is the change a ticket rests at always announced? No (section 4). | the same as `status_emails` |
| `email_log` | How often can one email be attempted, and what does it take to call one failed that was sent? | `send()` and two sweeps, 2 immediate and 4 total attempts, 2 cut short |
| `email_outcome` | Is what the row claims true, is every answered bounce flagged, and does every email but a sign-in code come to rest? | `send()` and one sweep, all events but temporary bounces (they only set no flag), 2 and 3 attempts, 1 cut short |
| `refused_retried`, `delivery_forgotten` | Are refused emails left alone? Is a delivery always recorded? No (section 4). | `send()` and one sweep, 3 and 9 attempts |
| `team` | Who is owner, member or out when requests race, what becomes of an invitation, who manages whom? | three people, two businesses, locations and invitations, two requests at a time and four in all, starting from every team of one location with or without an invitation; up to renaming |
| `front_desk` | Are flags and erasure kept, which emails go astray, does paging skip or repeat? | two requests at a time and two in all, and any number of resends; three customers and tickets, two addresses, one email, pages of one row, three pages, one search word, an open and an ended status |
| `resend_slots` | Do requests keep Resend's rate? | six calls, slots 3 apart, 3 requests per 7, sleeps up to 2 late: the headroom is used up exactly, as 10 requests, 120 ms and 1000 ms leave 200 ms |

Why these are enough: an undo and two changes (event ids 2 to 4) are what it
takes to leave a status and come back to it, so the ABA case is inside the
bounds; times are small but ordered as the code's are (window + timeout < delay,
send < lease); two sweeps make every overlap there is between a holder and a
rival, one failure leaves one lease behind. `COMPLETED` is the only status with
a rule of its own and is in the first instance; `CANCELLED`, ended and
notifying, is in the second; `REJECTED` behaves like it.

`LastCall` (no request starts later) and `MaxTime` (the clock stops) bound time,
`MaxEvents` the changes, `MaxFailures` the sweeps cut short. A sweep fails only
if its lease still runs out before `MaxTime`, so that the clock's end is not
mistaken for a stuck email. For `EmailLog`, two sweeps and `send()` are every
kind of overlap; the ceiling on attempts is reached (raising it by one breaks
`AttemptsCapped`), which takes an attempt cut short, so that the counter stops
just below `MAX_TOTAL_ATTEMPTS`. In `team`, a gap takes a victim's request cut
in two and another one in between that makes it late, which is itself two steps
behind a guard: two slots hold it, four requests in all let the drifted state be
acted on again (a second transfer, an accept after a removal), and a third
person tells the owner, the target and a bystander apart. `SentAgain`
keeps the second invitation to the person and place of the first: invitations to
others meet it only in a location's removal, which treats each by itself. In `front_desk`, a
page of one row makes every place in the list a page boundary, and three rows
with two names, or two times, have ties in them. `Updates` and `Arrivals` bound
the bodies to one changed field at a time, `Names` and `Times` the first rows to
a tie and one order, `Titles`, `Queries` and `MaxPages` the rest. The constraint
`Apart` keeps a list from being read while an email is on its way, an address
has failed or the location is closed: the reader changes nothing the emails
see, and of what the emails add the lists show nothing; a closed location only
ends a walk. Resends of a tracking link are not counted, so that one of them can
meet whatever two other requests have left behind; `OneEmail` keeps it to one
email at a time, and ends the instance with what becomes of that one: emails are
decided on and overtaken each for itself. `Happens` selects the events of an instance.
Deadlock is not checked: when the clock has stopped
and nothing is queued or open, or an email has come to rest, the system has
nothing to do.

Properties, by the hazard they are for:

- *Requests that race*: `HonestTimeline`, `DivergesOnlyByOvertakenUndo`,
  `UndoneWhileCurrent`, `CreationIsPermanent`.
- *The end of the undo window*: `PermanentAfterWindow`, `UndoneBeforeDue`,
  `UndoneNeverTold`.
- *Overlapping sweeps, crashes*: `OneHolder`, `AnnouncedOnce`,
  `SupersededNeverTold`, `LastWordAnnounced`, `ImplementsAnnouncement`.
- *Emails that arrive late or in another order*: `StaleOnlyIfOutrun`.
- *Attempts that know nothing of each other*: `FailedOverSentNeedsOverlap`,
  `AttemptsCapped`, `NoLateCode`, `Settles`.
- *Webhooks early, doubled, out of order*: `ClaimsAreTrue`,
  `AnsweredMeansFlagged`.
- *Requests that pile up, or start late*: `StartsSpread`, `RateKept`.
- *Team requests that decide on what has changed*: `OwnersDriftOnlyByLateWrites`,
  `DeletedAccountIsOut`, `InvitationTellsTheTruth`,
  `ClosedLocationInvitesNobody`, `OwnerManagesAdmins`.
- *An invitation acted on twice*: `InvitationUsedOnce`.
- *Customers loaded, then written*: `FlagFollowsAddress`, `ErasedIsGone`.
- *Emails decided on, then sent*: `StrayMailWasOvertaken`.
- *Lists that change while they are read*: `CustomerWalkIsWhole`,
  `TicketWalkIsWhole`.

Fairness of `emails_settle`: the steps of each sweep slot are weakly fair,
because the cron starts a sweep every 30 seconds and Node runs a started one to
its end unless it fails, and time passes. Requests, failures and the customer
are not fair. Fairness of `email_outcome`: an attempt that has begun goes on
(again, unless cut short), a sweep comes every five minutes, the cooldown ends,
and Resend repeats a webhook until it is answered. Resend's decisions are not
fair: an email that it never accepts is given up.

## 4. What the runs found

**An undo can outlive its event's turn** (`undo_aba`). `undoStatus` reads the
latest event, then moves the ticket if it is still at that event's *status*.
While the undo waits, colleagues move the ticket to another status and back.
The condition holds again, the undo deletes an event in the middle of the
timeline and sets the status before it: a ticket at RECEIVED whose latest event
says READY. Comparing the event, not only its status, would close it.
`DivergesOnlyByOvertakenUndo` shows, and a theorem proves, that this is the only
way status and history diverge; `OnlyChangesOvertakeUndos` proves that it takes a
change open together with an undo, while changes alone, or undos alone, may race
as they like.

**A superseded email stays dropped when its successor is undone**
(`lost_announcement`). READY at 0:00, CANCELLED by mistake at 2:05, the sweep
drops READY's email at 2:10 as superseded, the undo at 2:20 brings the ticket
back to READY: the customer never hears that the item is ready.
`LastWordAnnounced` shows that a change nobody followed up on is never lost.

**Refused emails are retried** (`refused_retried`). `attempt()` gives up at once
on an error "that will never succeed on retry"; the sweep does not know it and
tries again every five minutes until the ceiling.

**A delivery can go unrecorded** (`delivery_forgotten`). Events find the row by
`resendId`, which is stored only after Resend has answered; an earlier event is
answered 200 and gone. That is the only way, by the theorem
`OnlyEarlyWebhooksAreLost`. Flags are set by address and are not lost
(`AnsweredMeansFlagged`).

Besides these, properties of `StatusDelivery`, `EmailLog`, `Team` and `Desk` name
gaps and show that nothing else goes wrong. Several of them contradict a
document as it reads: "invitations to it can't be accepted" and "its customers
get no more emails" of a deleted location (ADR 0017, 33 and 34), demoting or removing an
admin "is the Owner's alone" (ADR 0017, 9), "they lose all access
immediately" of a deleted account (ADR 0018, 25), "no customer email goes to that
Customer" while a bounce or complaint is recorded (`data-model.md`, 62). No run is
made to fail on these: the exception is in the property, by name, and section 5
says which requests have to meet for one to open.

- *Status emails.* Which email is current is decided when it is handed over. One
  Resend does not take then can arrive after that of a later change, or after
  the customer has stopped them, has complained, or the location is gone.
  `StaleOnlyIfOutrun` shows that it takes an email on its way already.
- *Attempts side by side.* `attempt()` writes FAILED whatever the row says. Two
  attempts on one row, the slower of which fails, leave it FAILED although it
  was sent, and it is tried again; `FailedOverSentNeedsOverlap` shows that
  nothing but an overlap, or Resend's own report of failure, does that.
- *Ownership.* `data-model.md` (44) says the OWNER memberships are "kept in sync
  on ownership transfer". Five kinds of late write part them from
  `Business.ownerId`: `addLocation` decided before a transfer and committed
  after it; `updateRole`, `remove` and `leave` decided before their target
  became OWNER; and the deletion of an account that became owner after the
  check. A location that has drifted to a third OWNER also blocks every later
  transfer, through the index that allows one.
- *Deletion.* A request let in before an account was deleted can still create a
  business for it, accept an invitation or receive a transfer.
- *Invitations.* A revoke or an expiry that read PENDING writes over an
  ACCEPTED, and the membership stays. An invitation sent by a request let in
  before its location was deleted can be accepted afterwards.
- *Managing admins.* `assertCanManage` holds ADMINs to something, and nobody
  else; somebody demoted to EMPLOYEE between the guard and `roleAt` passes it.
- *Customers.* An update that loaded a customer before the erasure writes their
  data back, and one that read another address takes the flag off an address
  that failed. A customer renamed while being the list's cursor can make a page
  skip others or show them again.
- *Tracking-link emails.* `location.service.ts:34` says customer emails treat a
  deleted location as gone. The status sweep does; `resendTrackingLink` relies
  on the guard, and a retry looks at nothing. `canEmail` does not look whether
  the customer is erased, so one whom a late update has brought back is emailed
  again. `StrayMailWasOvertaken` shows that otherwise an email only goes astray
  by what happened after it was decided on.

## 5. The proofs

**Status changes.** TLAPS checks, for every staff, workflow, number of requests
and all times and bounds, from the assumptions named in `TicketStatus` (RECEIVED
is a step, managers are staff, times are natural numbers, and for one theorem
that the 10-second margin exceeds the transaction timeout):

- `TicketTypes`: type correctness, with the foreign key from pending
  notifications to events.
- `TicketInvariant`: `TicketInv` is inductive. The properties alone are not:
  a commit relies on what the transaction read. `OpenTransactions` keeps the
  rules of `updateStatus` for every open change; `OpenUndos` says that as long
  as an undo's event exists, its status and time are those read, and, if no
  undo was overtaken, the event before it is still the one to go back to (only
  latest events have been deleted, and new ones come after); `QueuedAfterDelay`
  ties a queued email to the time of its change. TLC checks `TicketInv` too.
- `StatusFollowsTimeline`, `TimelineIsHonest`, `CreationStays`,
  `UndoNeedsCurrent`, `EventsBecomePermanent`, `UndoNeverRacesEmail`: the
  properties of the run, from that invariant.
- `OnlyChangesOvertakeUndos`: `[]UndosAlone => []StatusMatchesTimeline`. Undos
  read the latest event, and without changes among them only latest events go
  (`NothingOvertaken`), so that a second undo finds its event gone.

`RowsProofs` holds the lemmas about tables.

**Status emails.** For every number of overlapping sweeps and of sweeps cut short, from the same
assumptions and `SendAssumption` (a send is shorter than the lease), `StatusEmailsProofs` has:

- `EmailInvariant`: `EmailInv` is inductive. `TicketInv` is part of it, because a
  claim finds its row as the sweep read it, which was due (`TodoWasDue`), so that
  to the ticket every step of a sweep is one `TicketStatus` allows
  (`SweepsRefineTicket`, which is the run's `ImplementsTicket`).
- `TicketHoldsWithSweeps`: by that refinement, the six properties of the timeline
  and the undo window hold with sweeps around, not in `TicketStatus` only.
- `LeasesExclude`: from `HeldRows`. A row being worked on is leased for longer
  than the work takes, so nobody else finds it due meanwhile.
- `NeverToldOfUndone`: a claimed row's event is `Ripe`: it is as old as the delay
  of its email, and `RipeStays` shows with the margin that no undo reaches it.
- `NeverToldOfSuperseded`: a row is loaded after its claim, so the claimed
  event had no successor when its email was due (`NotSuperseded`); what comes
  later is later than that.
- `RepeatsNeedFailures`: `AnnouncedOnce` counts only repeats already made. The
  invariant `RepeatsPaidFor` also counts the changes `AtRisk`, told and still
  queued with nobody about to delete the row: a failure adds at most one, a
  repeat uses one up.
- `LastWordIsKept`: from `FinishesForAReason`, why a sweep may delete the row of
  the latest change ever made.
- `StepsOfAnnouncement`: under `fateOf` every step is one `Announcement` allows.
  Only the fairness of `AnnouncementSpec` is left to the run `emails_settle`.
- `StaleMailWasOutrun`: from `DeliveryInvariant`, which says of every email on its
  way that it is current for all the customer has heard and may get, or outrun. A
  sweep that hands one over has just found it to be the latest change's, and the
  customer to get emails. `HeardIsTrue` carries over to what arrives that the
  change stands for good and was not superseded in time.

**Email delivery.** For every finite number of overlapping sweeps, every limit on attempts and every
selection of events (`LogAssumption`), `EmailLogProofs` has:

- `LogTypes`: type correctness.
- `LogInvariant`: `LogInv` is inductive. To the properties it adds that an
  attempt told "accepted" was, and that `OpenRounds`, the rounds begun attempters
  may still count, fit under the ceiling: counting an attempt closes one, and a
  sweep opens its rounds only below `MAX_TOTAL_ATTEMPTS`. The counter alone is
  not inductive, and its ceiling depends on the number of attempters.
- `RowClaimsAreTrue`, `CeilingOnAttempts`, `BouncesAreFlagged`,
  `CodesAreNeverLate`: the properties of the runs, from that invariant.
- `FailedOverSentIsOverlap`: from `AttemptsApart`, part of it. As long as nothing
  has overlapped, one attempt is open at most, and once the row is recorded as
  sent there is none, because no sweep looks for it.
- `OnlyEarlyWebhooksAreLost`: `[]RecordedBeforeTold => []DeliveryRecorded`. Once
  set, `deliveredAt` stays, whatever attempts and later events write to the row.

**Request slots.** `ResendSlotsProofs` has, for every spacing, limit, lateness and number of calls,
and for the rate under `HeadroomAssumption`: `SlotInvariant` (slots are apart by
their turns, everybody starts on time, the counter is past the last slot),
`RequestsSpread`, and `RateLimitKept`: the callers that start within one second
have turns less than `Limit` apart, so there are at most `Limit` of them.

**Teams.** For every set of people, businesses, locations and invitations and any number
of requests at one time, from `RequestsAssumption` (the bound on requests is a
natural number) only, `TeamProofs` has:

- `TeamTypes`: type correctness, with the foreign keys, and that whatever a
  request holds on to is still there, as only memberships are deleted, and
  deleting one ends those that hold its id.
- `InvitationsUsedOnce`, `InvitationsTellTheTruth`,
  `ClosedLocationsInviteNobody`: from `InvitationInv`. A status read says
  nothing once a step has passed, so the invariant adds `UnusedUntilAccepted`:
  an invitation that is pending, or not there yet, has made nobody a member.
  `InvitationStep` says once what a step may do to an invitation, and each
  action is shown to do only that.
- `OwnersInSync`, `DeletedAccountsAreOut`, `AdminsAreTheOwners`: each needs
  `AllDecidedRightly`, which ties a request to what it was allowed on: an
  ADMIN's to an EMPLOYEE, a deletion to an account without live businesses.
  `OwnersInv` then goes through because a transfer leaves the locations of its
  business in sync from whatever state it meets (`OwnersTransfer`), and any
  other write that takes an OWNER's membership is marked (`OwnerTaken`).
- `LateOnlyWhenDisturbed`: the invariants above make an exception of writes marked
  late; this says where those come from. `Disturbs` lists, row for row, which two
  requests must be under way at one time: a transfer and a request about the
  member who becomes owner, an account's deletion and whatever gives that person
  a membership or a business, and so on. As long as no two are, what each request
  has read stays so until it writes (`StillSo`, part of the inductive
  `NothingLate`, which TLC also checked under that constraint), and nothing is
  late. Requests about other rows, and all other pairs, may interleave as they
  like. The list is not padded: in the instance of run `team`, leaving any pair
  out of it makes a late write reachable.
- `DocumentedWhileUndisturbed`: then the docs hold as they read, without
  exceptions (`AsDocumented`): owners in sync, deleted accounts out, ACCEPTED on
  exactly the used invitations, none pending to a deleted location. Who wants to
  close the gaps has in `Disturbs` the pairs a lock or a conditional write must
  keep apart.

**Customers, tickets and tracking links.** For every set of customers, tickets, emails and requests, from `DeskAssumption`
(ids and times are integers, the bounds are bodies and names that may be typed,
no id is both an email's and a request's), `DeskProofs` has:

- `DeskTypes`: type correctness, with the foreign keys.
- `FlagsFollow`: inductive as it stands, once a step is known never to take back
  an erasure, a ticket's customer or a mark (`StepGrows`).
- `TheErasedAreGone`: adds `CreatesFoundActive`, that a request about to insert a
  ticket found its customer active, so that a ticket for an erased one is late.
- `StrayMailsWereOvertaken`: from `EmailInv`. Every email on its way is in order,
  overtaken, or its customer was brought back (`OnItsWay`), and a request that has
  not decided yet makes a ticket with a working link, or was overtaken by the
  location's deletion (`WillLoad`). Deciding on an email (`EmailLoads`) is where
  erasure comes in: `canEmail` sees an address, so either the customer is not
  erased or a late update is marked.

- `LateOnlyBesideAnUpdateOrErasure`: a write comes late only by an update of a
  customer beside another update or an erasure of them, or by a ticket made for
  them beside an erasure (`WritersApart`). Webhooks, emails, the location's
  deletion and all that is about other customers may come in between.
- `DocumentedWhileApart`: while such requests keep apart, flags and erasure are as
  `data-model.md` has them, without exceptions. Emails are not: a webhook may flag
  the address while one is on its way, whoever keeps apart.

**Reading lists.** For every desk, every page size and number of pages and every
search (`WalkAssumption`), `FrontDeskProofs` has:

- `ReadersOnlyRead`: `FrontDesk` implements `Desk`, so that what is proved of the
  desk holds while the lists are read (`DeskHoldsWithReaders`).
- `FrontTypes`, `CustomerWalks`, `TicketWalks`: from `FrontInv`. The properties
  say what has been seen at the end; the invariant says it at every page: of the
  rows that stay put and were not jumped over, exactly those the cursor has
  passed have been seen, once (`SeenSoFar`). A page keeps that because its rows
  are the first ones past the cursor (`PageKeeps`), which rests on what the
  database's ordering returns (`SortedRows`): ranks in a finite total order are
  injective, so they are a bijection to the places of the list, and no induction
  over the rows is needed.

Every invariant and action property a passing run checks is a theorem. Only model-checked are the liveness
properties: that queued emails are settled in the end (`ImplementsAnnouncement`
beyond its steps) and that every email comes to rest (`Settles`). They need
fairness, which the prover does not have. That the gaps of section 4 are really
there is for TLC to show too: the theorems say that nothing else opens one.

## 6. Not modelled, and the plan

Not modelled at all: email templates and wording, request logging, throttling,
health checks and configuration, the OpenAPI document, deployment files, and
Better Auth's own tables and codes. They keep no state the properties above
depend on, or are a library's.

Left out of what is modelled, because nothing depends on it or it only adds
cases like those there: the staff emails of a transfer, an invitation and an
account deletion; the names and profile fields of businesses, locations and
users; signing up again with a deleted account's address (a user of its own);
letter case of addresses; the check that the sign-in is recent, which may always
hold; list filters on columns that never change; more than one location's
customers. The guard's two reads (the location, then the membership) are one
step: nothing brings a location back, and the role it takes is the second
read's.

Planned: `Transfer` as two steps, with the row lock explicit.
