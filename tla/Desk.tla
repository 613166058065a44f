-------------------------------- MODULE Desk --------------------------------
(***************************************************************************)
(* The desk of one location: its customers, the tickets made for them, and *)
(* the emails with a ticket's tracking link (customer.service.ts, create   *)
(* and resendTrackingLink of ticket.service.ts, notification.service.ts,   *)
(* tracking-link.ts and the address flags of email-webhook.controller.ts). *)
(*                                                                         *)
(* As in Team, a request reads, decides and writes in steps of their own   *)
(* and may end at any of them. EmailLog models how a row of the email log  *)
(* gets to Resend; here it is sent, or given up, some time after it was    *)
(* written, to the address it was written with. Status changes and the     *)
(* location's deletion come from TicketStatus, as single steps.            *)
(*                                                                         *)
(* A name stands for all a customer is known by, the phone number too.     *)
(***************************************************************************)
EXTENDS Rows, Statuses

CONSTANTS
  Customer,     \* ids of customers, a set of integers: they order a list
  Ticket,       \* ids of tickets, likewise
  Mail,         \* ids of email log rows
  Word,         \* names and titles, integers: they order a list
  Redacted,     \* the name "[deleted]"
  Address,
  null,         \* no address
  unset,        \* a field that is not in the body or the query
  Stamp,        \* times a ticket may be created at
  Step,         \* statuses of the location's workflow
  Request,      \* slots for requests being served at one time
  Updates,      \* bound: the update bodies customers get
  Arrivals,     \* bound: the customers that come with a ticket
  Titles,       \* bound: the titles tickets are made with
  Names,        \* bound: the names of the first two customers
  Times,        \* bound: when their tickets were created
  MaxRequests   \* bound: requests started, but for resends of a link

\* What people type.
Text == Word \ {Redacted}

\* @IsOptional lets null through; there is no customer without a name.
UpdateCustomerDto == [name : Text \cup {unset}, email : Address \cup {null, unset}]

CreateCustomerDto == [name : Text, email : Address \cup {null}]

ASSUME DeskAssumption ==
  /\ Customer \subseteq Int /\ Ticket \subseteq Int /\ Word \subseteq Int /\ Stamp \subseteq Int
  /\ {1, 2} \subseteq Customer \cap Ticket
  /\ Redacted \in Word
  /\ null \notin Address /\ unset \notin Address \cup Word \cup {null}
  /\ "RECEIVED" \in Step /\ \E workflow \in seedDefaultWorkflows : Step \subseteq workflow
  /\ Updates \subseteq UpdateCustomerDto
  /\ Arrivals \subseteq CreateCustomerDto
  /\ Titles \subseteq Text
  /\ Names \subseteq [{1, 2} -> Text] /\ Times \subseteq [{1, 2} -> Stamp]
  /\ MaxRequests \in Nat
  /\ Mail \cap Request = {}

VARIABLES
  customers,    \* customer id -> row
  tickets,      \* ticket id -> row
  mails,        \* email log id -> row
  closed,       \* the location is deleted
  request,      \* what each request slot has read and is about to write
  started,      \* requests started so far, but for resends
  failed,       \* history: customers whose address failed since they have it
  erasedWith,   \* history: erased customer -> the tickets they had then
  overtaken,    \* history: the emails overtaken by a change (see Overtake)
  late          \* history: <<operation, id>> of writes on what had changed

deskVars == <<customers, tickets, mails, closed, request, started,
              failed, erasedWith, overtaken, late>>

CustomerRow == [name : Word, email : Address \cup {null}, flagged : BOOLEAN, deleted : BOOLEAN]

\* since: more than LINK_LIFETIME_AFTER_END_MS ago, or not, the ticket got
\* the status it has.
TicketRow == [customer : Customer, createdAt : Stamp, title : Text,
              status : Step, since : {"recent", "long"}]

MailRow == [ticket : Ticket, to : Address, state : {"open", "sent", "strayed", "dropped"}]

Idle == [op |-> "none"]

RequestState ==
  {Idle}
  \cup [op : {"update"}, id : Customer, email : Address \cup {null}, dto : UpdateCustomerDto]
  \cup [op : {"erase"}, id : Customer]
  \cup [op : {"create"}, id : Customer, active : BOOLEAN]
  \cup [op : {"created", "resend"}, id : Ticket]
  \cup [op : {"send"}, id : Ticket, to : Address]

DeskTypeOK ==
  /\ DOMAIN customers \subseteq Customer /\ IsTable(customers, CustomerRow)
  /\ DOMAIN tickets \subseteq Ticket /\ IsTable(tickets, TicketRow)
  /\ \A t \in DOMAIN tickets : tickets[t].customer \in DOMAIN customers
  /\ DOMAIN mails \subseteq Mail /\ IsTable(mails, MailRow)
  /\ \A m \in DOMAIN mails : mails[m].ticket \in DOMAIN tickets
  /\ closed \in BOOLEAN
  /\ request \in [Request -> RequestState]
  /\ \A r \in Request : request[r].op \in {"update", "erase", "create"}
       => request[r].id \in DOMAIN customers
  /\ \A r \in Request : request[r].op \in {"created", "resend", "send"} => request[r].id \in DOMAIN tickets
  /\ started \in 0 .. MaxRequests
  /\ failed \subseteq DOMAIN customers
  /\ DOMAIN erasedWith = {c \in DOMAIN customers : customers[c].deleted}
  /\ overtaken \subseteq DOMAIN mails \cup Request

Active(c) == c \in DOMAIN customers /\ ~customers[c].deleted

-----------------------------------------------------------------------------
(* What is read off a ticket and its customer.                             *)

\* Mutant: an address is taken to be there.
canEmailWithoutAddress(c) == ~customers[c].flagged

\* Mutant: the flags are not looked at.
canEmailAnyAddress(c) == customers[c].email # null

canEmail(c) == customers[c].email # null /\ ~customers[c].flagged

isTrackingLinkExpired(t) == isEndedStatus(tickets[t].status) /\ tickets[t].since = "long"

\* The tracking page answers: findByCode and stopNotifications.
LinkWorks(t) == ~closed /\ ~isTrackingLinkExpired(t)

\* An email about t to this address is in order: it reaches its customer,
\* and the link in it works.
InOrder(t, to) ==
  LET c == customers[tickets[t].customer]
  IN  c.email = to /\ ~c.flagged /\ ~c.deleted /\ LinkWorks(t)

\* The emails under way in a request or open in the log: <<name, ticket, to>>.
OnTheWay ==
  {<<r, request[r].id, request[r].to>> : r \in {s \in Request : request[s].op = "send"}}
  \cup {<<m, mails[m].ticket, mails[m].to>> : m \in {n \in DOMAIN mails : mails[n].state = "open"}}

\* An update that had found the customer wrote after they were erased.
BroughtBack(c) == customers[c].deleted /\ <<"update", c>> \in late

\* A step overtakes those that were in order before it and are not after it.
Overtake ==
  overtaken' = overtaken \cup
    {e[1] : e \in {f \in OnTheWay : InOrder(f[2], f[3]) /\ ~ InOrder(f[2], f[3])'}}

TicketsOf(c) == {t \in DOMAIN tickets : tickets[t].customer = c}

Late(op, ids) == {op} \X ids

-----------------------------------------------------------------------------
\* getActiveWorkflow: whichever it is, its first step is RECEIVED.
firstStep == "RECEIVED"

NewTicket(c, at, title) ==
  [customer |-> c, createdAt |-> at, title |-> title, status |-> firstStep, since |-> "recent"]

\* Two customers, who may share a name or an address, with a ticket each.
\* Tickets that requests make at one time need not get ids in time order.
DeskInit ==
  /\ \E name \in Names, email \in Address \cup {null} :
       customers = [c \in {1, 2} |->
         [name |-> name[c], email |-> email, flagged |-> FALSE, deleted |-> FALSE]]
  /\ \E at \in Times, title \in Titles :
       tickets = [t \in {1, 2} |-> NewTicket(t, at[t], title)]
  /\ mails = Empty
  /\ closed = FALSE
  /\ request = [r \in Request |-> Idle]
  /\ started = 0
  /\ failed = {} /\ erasedWith = Empty /\ overtaken = {} /\ late = {}

-----------------------------------------------------------------------------
\* LocationMembershipGuard: no request is let in to a deleted location.
LetIn(r) == request[r] = Idle /\ ~closed

Start(r, state) ==
  /\ LetIn(r)
  /\ started < MaxRequests
  /\ started' = started + 1
  /\ request' = [request EXCEPT ![r] = state]

GoOn(r, state) ==
  /\ request' = [request EXCEPT ![r] = state]
  /\ UNCHANGED started

\* Throws, or the process dies.
Fail(r) ==
  /\ request[r] # Idle
  /\ GoOn(r, Idle)
  /\ overtaken' = overtaken \ {r}
  /\ UNCHANGED <<customers, tickets, mails, closed, failed, erasedWith, late>>

-----------------------------------------------------------------------------
(* CustomerService.                                                        *)

\* loadActive.
DecideUpdate(r, c, dto) ==
  /\ Active(c)
  /\ Start(r, [op |-> "update", id |-> c, email |-> customers[c].email, dto |-> dto])
  /\ UNCHANGED <<customers, tickets, mails, closed, failed, erasedWith, overtaken, late>>

\* Mutant: an address in the body clears the flags, a new one or not.
IsNewAddressIfGiven(dto, email) == dto.email # unset

\* dto.email !== customer.email, as it was read.
IsNewAddress(dto, email) == dto.email # unset /\ dto.email # email

Updated(row, dto, email) ==
  [row EXCEPT !.name = IF dto.name = unset THEN @ ELSE dto.name,
              !.email = IF IsNewAddress(dto, email) THEN dto.email ELSE @,
              !.flagged = @ /\ ~IsNewAddress(dto, email)]

Update(r) ==
  /\ request[r].op = "update"
  /\ LET c == request[r].id
         row == Updated(customers[c], request[r].dto, request[r].email)
         stale == \/ customers[c].deleted
                  \/ customers[c].email # request[r].email
                     /\ IsNewAddress(request[r].dto, request[r].email)
     IN  /\ customers' = [customers EXCEPT ![c] = row]
         /\ failed' = IF row.email = customers[c].email THEN failed ELSE failed \ {c}
         /\ late' = late \cup Late("update", {k \in {c} : stale})
  /\ GoOn(r, Idle)
  /\ UNCHANGED <<tickets, mails, closed, erasedWith>>
  /\ Overtake

DecideRemove(r, c) ==
  /\ Active(c)
  /\ Start(r, [op |-> "erase", id |-> c])
  /\ UNCHANGED <<customers, tickets, mails, closed, failed, erasedWith, overtaken, late>>

\* Mutant: the address is kept.
RedactedName(row) == [row EXCEPT !.deleted = TRUE, !.name = Redacted]

\* The flags stay.
Erased(row) == [row EXCEPT !.deleted = TRUE, !.name = Redacted, !.email = null]

Remove(r) ==
  /\ request[r].op = "erase"
  /\ LET c == request[r].id
     IN  /\ customers' = [customers EXCEPT ![c] = Erased(@)]
         /\ erasedWith' =
              IF Active(c) THEN Insert(erasedWith, c, TicketsOf(c)) ELSE erasedWith
  /\ GoOn(r, Idle)
  /\ UNCHANGED <<tickets, mails, closed, failed, late>>
  /\ Overtake

\* EmailWebhookController.flag: an address bounced for good, is suppressed,
\* or reported an email as spam.
Flag(a) ==
  LET found == {c \in DOMAIN customers : Active(c) /\ customers[c].email = a}
  IN  /\ found # {}
      /\ customers' = [c \in DOMAIN customers |->
           IF c \in found THEN [customers[c] EXCEPT !.flagged = TRUE] ELSE customers[c]]
      /\ failed' = failed \cup found
      /\ UNCHANGED <<tickets, mails, closed, request, started, erasedWith, late>>
      /\ Overtake

-----------------------------------------------------------------------------
(* TicketService.create, and the emails with a tracking link.              *)

\* With a customer of its own.
CreateWithCustomer(r, c, dto, t, at, title) ==
  /\ c \in Customer \ DOMAIN customers /\ \A k \in DOMAIN customers : k < c
  /\ t \in Ticket \ DOMAIN tickets /\ \A k \in DOMAIN tickets : k < t
  /\ Start(r, [op |-> "created", id |-> t])
  /\ customers' = Insert(customers, c,
       [name |-> dto.name, email |-> dto.email, flagged |-> FALSE, deleted |-> FALSE])
  /\ tickets' = Insert(tickets, t, NewTicket(c, at, title))
  /\ UNCHANGED <<mails, closed, failed, erasedWith, overtaken, late>>

\* Mutant: the customer is looked up whether erased or not.
MayHaveTicketIfKnown(c) == c \in DOMAIN customers

MayHaveTicket(c) == Active(c)

\* Its transaction locks nothing: the customer may be erased before the
\* ticket is inserted.
DecideCreate(r, c) ==
  /\ MayHaveTicket(c)
  /\ Start(r, [op |-> "create", id |-> c, active |-> Active(c)])
  /\ UNCHANGED <<customers, tickets, mails, closed, failed, erasedWith, overtaken, late>>

Create(r, t, at, title) ==
  /\ request[r].op = "create"
  /\ t \in Ticket \ DOMAIN tickets /\ \A k \in DOMAIN tickets : k < t
  /\ tickets' = Insert(tickets, t, NewTicket(request[r].id, at, title))
  /\ late' = late \cup Late("create", {k \in {t} : request[r].active /\ ~Active(request[r].id)})
  /\ GoOn(r, [op |-> "created", id |-> t])
  /\ UNCHANGED <<customers, mails, closed, failed, erasedWith, overtaken>>

\* loadTicket and canEmail.
Load(r) ==
  LET t == request[r].id
      c == tickets[t].customer
  IN  /\ IF canEmail(c)
         THEN /\ GoOn(r, [op |-> "send", id |-> t, to |-> customers[c].email])
              /\ UNCHANGED overtaken
         ELSE GoOn(r, Idle) /\ overtaken' = overtaken \ {r}
      /\ UNCHANGED <<customers, tickets, mails, closed, failed, erasedWith, late>>

\* sendTicketCreated, once the ticket is committed.
LoadCreated(r) == request[r].op = "created" /\ Load(r)

AdmitResend(r, t) ==
  /\ t \in DOMAIN tickets
  /\ LetIn(r)
  /\ GoOn(r, [op |-> "resend", id |-> t])
  /\ UNCHANGED <<customers, tickets, mails, closed, failed, erasedWith, overtaken, late>>

\* Mutant: an expired link is sent again.
MayResendAny(t) == TRUE

MayResend(t) == ~isTrackingLinkExpired(t)

\* resendTrackingLink, of NotificationService.
LoadResend(r) == request[r].op = "resend" /\ MayResend(request[r].id) /\ Load(r)

\* sendCustomerEmail: EmailService.send writes the row it then works on.
WriteMail(r, m) ==
  /\ request[r].op = "send"
  /\ m \in Mail \ DOMAIN mails
  /\ mails' = Insert(mails, m, [ticket |-> request[r].id, to |-> request[r].to, state |-> "open"])
  /\ overtaken' = (overtaken \ {r}) \cup {k \in {m} : r \in overtaken}
  /\ GoOn(r, Idle)
  /\ UNCHANGED <<customers, tickets, closed, failed, erasedWith, late>>

\* Sent at once or by a retry, from what the row says. Nothing is read again.
SendMail(m) ==
  /\ mails[m].state = "open"
  /\ mails' = [mails EXCEPT ![m].state =
       IF InOrder(mails[m].ticket, mails[m].to) THEN "sent" ELSE "strayed"]
  /\ UNCHANGED <<customers, tickets, closed, request, started, failed, erasedWith, overtaken, late>>

DropMail(m) ==
  /\ mails[m].state = "open"
  /\ mails' = [mails EXCEPT ![m].state = "dropped"]
  /\ UNCHANGED <<customers, tickets, closed, request, started, failed, erasedWith, overtaken, late>>

-----------------------------------------------------------------------------
(* What else becomes of a ticket.                                          *)

\* TicketService.update: no title, no change.
UpdateTicket(r, t, title) ==
  /\ t \in DOMAIN tickets
  /\ Start(r, Idle)
  /\ tickets' = [tickets EXCEPT ![t].title = title]
  /\ UNCHANGED <<customers, mails, closed, failed, erasedWith, overtaken, late>>

\* A status change or its undoing.
MoveTicket(r, t, status) ==
  /\ t \in DOMAIN tickets
  /\ status # tickets[t].status
  /\ Start(r, Idle)
  /\ tickets' = [tickets EXCEPT ![t].status = status, ![t].since = "recent"]
  /\ UNCHANGED <<customers, mails, closed, failed, erasedWith, late>>
  /\ Overtake

\* LINK_LIFETIME_AFTER_END_MS go by, or an undo brings back an end of that
\* long ago; in either case the ticket was not made by a running request.
Age(t) ==
  /\ isEndedStatus(tickets[t].status) /\ tickets[t].since = "recent"
  /\ [op |-> "created", id |-> t] \notin {request[r] : r \in Request}
  /\ tickets' = [tickets EXCEPT ![t].since = "long"]
  /\ UNCHANGED <<customers, mails, closed, request, started, failed, erasedWith, late>>
  /\ Overtake

\* Requests let in before go on, and do not look at the location again.
RemoveLocation ==
  /\ ~closed
  /\ closed' = TRUE
  /\ overtaken' = overtaken
       \cup {r \in Request : request[r].op \in {"create", "created", "resend", "send"}}
       \cup {m \in DOMAIN mails : mails[m].state = "open"}
  /\ UNCHANGED <<customers, tickets, mails, request, started, failed, erasedWith, late>>

-----------------------------------------------------------------------------

\* CustomerController.
ServeCustomers(r) ==
  \E c \in Customer :
    \/ \E dto \in Updates : DecideUpdate(r, c, dto)
    \/ DecideRemove(r, c)

\* TicketController.
ServeTickets(r) ==
  \/ \E c \in Customer, dto \in Arrivals, t \in Ticket, at \in Stamp, title \in Titles :
       CreateWithCustomer(r, c, dto, t, at, title)
  \/ \E c \in Customer : DecideCreate(r, c)
  \/ \E t \in Ticket :
       \/ AdmitResend(r, t)
       \/ \E title \in Text : UpdateTicket(r, t, title)
       \/ \E status \in Step : MoveTicket(r, t, status)

Continue(r) ==
  \/ Update(r)
  \/ Remove(r)
  \/ \E t \in Ticket, at \in Stamp, title \in Titles : Create(r, t, at, title)
  \/ LoadCreated(r) \/ LoadResend(r)
  \/ \E m \in Mail : WriteMail(r, m)

DeskNext ==
  \/ \E r \in Request : ServeCustomers(r) \/ ServeTickets(r) \/ Continue(r) \/ Fail(r)
  \/ \E a \in Address : Flag(a)
  \/ \E m \in DOMAIN mails : SendMail(m) \/ DropMail(m)
  \/ \E t \in DOMAIN tickets : Age(t)
  \/ RemoveLocation

DeskSpec == DeskInit /\ [][DeskNext]_deskVars

-----------------------------------------------------------------------------
(* Properties.                                                             *)

\* A customer is flagged exactly while the address they have has failed
\* since they have it (data-model.md, "Undeliverable customer addresses"),
\* whatever updates and webhooks run into one another: except that an
\* update which read another address takes the flag off one that failed.
FlagFollowsAddress ==
  \A c \in DOMAIN customers : Active(c) =>
    /\ customers[c].flagged => c \in failed
    /\ c \in failed => customers[c].flagged \/ <<"update", c>> \in late

\* Nothing is left of an erased customer, and no ticket is made for them
\* afterwards (data-model.md, "GDPR erasure"): except by an update or a
\* create that found them before the erasure and wrote after it.
ErasedIsGone ==
  \A c \in DOMAIN erasedWith :
    /\ \/ customers[c].name = Redacted /\ customers[c].email = null
       \/ <<"update", c>> \in late
    /\ \A t \in TicketsOf(c) \ erasedWith[c] : <<"create", t>> \in late

\* An email with a tracking link reaches nobody whose address is flagged,
\* changed or erased, and no link in it is dead, unless that came about
\* after the email was decided on or, for the location's deletion, after
\* the request was let in: what is on its way, a retry hours later
\* included, does not look again. Or the customer was erased, and an update
\* that had found them before brought the address back: no email looks
\* whether its customer is erased.
StrayMailWasOvertaken ==
  \A m \in DOMAIN mails : mails[m].state = "strayed" =>
    m \in overtaken \/ BroughtBack(tickets[mails[m].ticket].customer)
=============================================================================
