----------------------------- MODULE DeskProofs -----------------------------
(***************************************************************************)
(* For any number of customers, tickets, emails and requests: what flags   *)
(* and erasure promise, and which tracking-link emails may go astray. The  *)
(* last follows from what is known of the emails on their way (OnItsWay)   *)
(* and of the requests that will write one (WillLoad), and from what       *)
(* erasure promises: canEmail does not look whether a customer is erased.  *)
(* What is decided on a customer's row comes late only beside an update or *)
(* erasure of the same customer (NothingLate).                             *)
(***************************************************************************)
EXTENDS Desk, RowsProofs

\* What a request that only reads leaves alone.
tables == <<customers, tickets, mails, closed, failed, erasedWith, late>>

\* What a request holds on to is there.
RefersToRows(q) ==
  /\ q.op \in {"update", "erase", "create"} => q.id \in DOMAIN customers
  /\ q.op \in {"created", "resend", "send"} => q.id \in DOMAIN tickets

-----------------------------------------------------------------------------
(* Types.                                                                  *)

\* The fields of a request, by its operation.
LEMMA RequestFields ==
  ASSUME NEW q \in RequestState
  PROVE  /\ q.op = "update" => /\ q.id \in Customer /\ q.email \in Address \cup {null}
                               /\ q.dto \in UpdateCustomerDto
         /\ q.op = "erase" => q.id \in Customer
         /\ q.op = "create" => q.id \in Customer /\ q.active \in BOOLEAN
         /\ q.op \in {"created", "resend"} => q.id \in Ticket
         /\ q.op = "created" => q = [op |-> "created", id |-> q.id]
         /\ q.op = "send" => q.id \in Ticket /\ q.to \in Address
BY DEF RequestState, Idle

\* A request under way in a slot, and its rows.
LEMMA SlotFields ==
  ASSUME DeskTypeOK, NEW r \in Request
  PROVE  request[r] \in RequestState /\ RefersToRows(request[r])
BY DEF DeskTypeOK, RefersToRows

\* What is in the row of a ticket, and in its customer's.
LEMMA RowFields ==
  ASSUME DeskTypeOK
  PROVE  /\ \A t \in DOMAIN tickets :
              /\ t \in Ticket /\ tickets[t] \in TicketRow /\ tickets[t].customer \in DOMAIN customers
         /\ \A c \in DOMAIN customers : c \in Customer /\ customers[c] \in CustomerRow
         /\ \A m \in DOMAIN mails : /\ m \in Mail /\ mails[m] \in MailRow
                                    /\ mails[m].ticket \in DOMAIN tickets
BY DEF DeskTypeOK, IsTable

\* A slot set to a typed request, while no row is deleted.
LEMMA SlotTyped ==
  ASSUME DeskTypeOK, NEW r \in Request, NEW state \in RequestState, RefersToRows(state)',
         request' = [request EXCEPT ![r] = state],
         DOMAIN customers \subseteq DOMAIN customers', DOMAIN tickets \subseteq DOMAIN tickets'
  PROVE  /\ request' \in [Request -> RequestState]
         /\ \A s \in Request : request'[s].op \in {"update", "erase", "create"}
              => request'[s].id \in DOMAIN customers'
         /\ \A s \in Request : request'[s].op \in {"created", "resend", "send"}
              => request'[s].id \in DOMAIN tickets'
         /\ request'[r] = state /\ \A s \in Request \ {r} : request'[s] = request[s]
BY DEF DeskTypeOK, RefersToRows

\* Being idle refers to nothing.
LEMMA IdleTyped == Idle \in RequestState /\ RefersToRows(Idle) /\ Idle.op = "none"
BY DEF Idle, RequestState, RefersToRows

\* A step that writes no table, and sets a slot to a typed request.
LEMMA ReadTyped ==
  ASSUME DeskTypeOK, NEW r \in Request, NEW state \in RequestState, RefersToRows(state),
         request' = [request EXCEPT ![r] = state], UNCHANGED tables,
         started' \in 0 .. MaxRequests, overtaken' \subseteq overtaken
  PROVE  DeskTypeOK'
<1>1. RefersToRows(state)'
  BY DEF RefersToRows, tables
<1> QED
  BY <1>1, SlotTyped DEF DeskTypeOK, tables, IsTable

\* The count of requests, while one starts or goes on.
LEMMA CountTyped ==
  ASSUME DeskTypeOK, NEW r, NEW state, Start(r, state) \/ GoOn(r, state)
  PROVE  started' \in 0 .. MaxRequests /\ request' = [request EXCEPT ![r] = state]
BY DeskAssumption DEF DeskTypeOK, Start, GoOn

\* The requests that only read.
LEMMA TypeReads ==
  ASSUME DeskTypeOK, NEW r \in Request,
         \/ \E c \in Customer : \/ \E dto \in Updates : DecideUpdate(r, c, dto)
                                \/ DecideRemove(r, c) \/ DecideCreate(r, c)
         \/ \E t \in Ticket : AdmitResend(r, t)
         \/ LoadCreated(r) \/ LoadResend(r) \/ Fail(r)
  PROVE  DeskTypeOK'
<1>1. ASSUME NEW c \in Customer, NEW dto \in Updates, DecideUpdate(r, c, dto) PROVE DeskTypeOK'
  <2> DEFINE state == [op |-> "update", id |-> c, email |-> customers[c].email, dto |-> dto]
  <2>1. c \in DOMAIN customers /\ customers[c].email \in Address \cup {null} /\ dto \in UpdateCustomerDto
    BY <1>1, RowFields, DeskAssumption DEF DecideUpdate, Active, CustomerRow
  <2>2. state \in RequestState /\ RefersToRows(state)
    BY <2>1 DEF RequestState, RefersToRows
  <2> QED
    BY <1>1, <2>2, ReadTyped, CountTyped DEF DecideUpdate, tables
<1>2. ASSUME NEW c \in Customer, DecideRemove(r, c) PROVE DeskTypeOK'
  <2> DEFINE state == [op |-> "erase", id |-> c]
  <2>1. state \in RequestState /\ RefersToRows(state)
    BY <1>2 DEF RequestState, RefersToRows, DecideRemove, Active
  <2> QED
    BY <1>2, <2>1, ReadTyped, CountTyped DEF DecideRemove, tables
<1>3. ASSUME NEW c \in Customer, DecideCreate(r, c) PROVE DeskTypeOK'
  <2> DEFINE state == [op |-> "create", id |-> c, active |-> Active(c)]
  <2>1. Active(c) \in BOOLEAN
    BY DEF Active
  <2>2. state \in RequestState /\ RefersToRows(state)
    BY <1>3, <2>1 DEF RequestState, RefersToRows, DecideCreate, MayHaveTicket, Active
  <2> QED
    BY <1>3, <2>2, ReadTyped, CountTyped DEF DecideCreate, tables
<1>4. ASSUME NEW t \in Ticket, AdmitResend(r, t) PROVE DeskTypeOK'
  <2> DEFINE state == [op |-> "resend", id |-> t]
  <2>1. state \in RequestState /\ RefersToRows(state)
    BY <1>4 DEF RequestState, RefersToRows, AdmitResend
  <2> QED
    BY <1>4, <2>1, ReadTyped, CountTyped DEF AdmitResend, tables
<1>5. ASSUME request[r].op \in {"created", "resend"}, Load(r) PROVE DeskTypeOK'
  <2> DEFINE t == request[r].id
             c == tickets[t].customer
             state == [op |-> "send", id |-> t, to |-> customers[c].email]
  <2>1. t \in Ticket /\ t \in DOMAIN tickets /\ c \in DOMAIN customers
    BY <1>5, SlotFields, RequestFields, RowFields DEF RefersToRows
  <2>2. CASE canEmail(c)
    <3>1. customers[c].email \in Address
      BY <2>1, <2>2, RowFields DEF canEmail, CustomerRow
    <3>2. state \in RequestState /\ RefersToRows(state)
      BY <2>1, <3>1 DEF RequestState, RefersToRows
    <3>3. GoOn(r, state) /\ UNCHANGED <<tables, overtaken>>
      BY <1>5, <2>2 DEF Load, tables
    <3> QED
      BY <3>2, <3>3, ReadTyped, CountTyped DEF tables
  <2>3. CASE ~canEmail(c)
    <3>1. GoOn(r, Idle) /\ overtaken' = overtaken \ {r} /\ UNCHANGED tables
      BY <1>5, <2>3 DEF Load, tables
    <3> QED
      BY <3>1, IdleTyped, ReadTyped, CountTyped
  <2> QED
    BY <2>2, <2>3
<1>6. ASSUME Fail(r) PROVE DeskTypeOK'
  BY <1>6, IdleTyped, ReadTyped, CountTyped DEF Fail, tables
<1> QED
  BY <1>1, <1>2, <1>3, <1>4, <1>5, <1>6 DEF LoadCreated, LoadResend

\* Overtaking keeps what is overtaken, adds names of emails on their way,
\* and leaves no email aside that was in order and is no more.
LEMMA Overtaking ==
  ASSUME DeskTypeOK, Overtake
  PROVE  /\ overtaken \subseteq overtaken' /\ overtaken' \subseteq DOMAIN mails \cup Request
         /\ \A name, t, to : <<name, t, to>> \in OnTheWay /\ InOrder(t, to) /\ name \notin overtaken'
              => InOrder(t, to)'
<1>1. overtaken \subseteq overtaken'
  BY DEF Overtake
<1>2. \A e \in OnTheWay : e[1] \in DOMAIN mails \cup Request
  BY DEF OnTheWay
<1>3. overtaken' \subseteq DOMAIN mails \cup Request
  BY <1>2 DEF Overtake, DeskTypeOK
<1>4. ASSUME NEW name, NEW t, NEW to, <<name, t, to>> \in OnTheWay, InOrder(t, to),
             ~ InOrder(t, to)'
      PROVE  name \in overtaken'
  <2> DEFINE e == <<name, t, to>>
  <2>1. e \in {f \in OnTheWay : InOrder(f[2], f[3]) /\ ~ InOrder(f[2], f[3])'} /\ e[1] = name
    BY <1>4
  <2> HIDE DEF e
  <2> QED
    BY <2>1 DEF Overtake
<1> QED
  BY <1>1, <1>3, <1>4

\* What an update leaves of a customer's row.
LEMMA UpdatedRow ==
  ASSUME NEW row \in CustomerRow, NEW dto \in UpdateCustomerDto, NEW email
  PROVE  /\ Updated(row, dto, email) \in CustomerRow
         /\ Updated(row, dto, email).deleted = row.deleted
         /\ IsNewAddress(dto, email) =>
              Updated(row, dto, email).email = dto.email /\ ~Updated(row, dto, email).flagged
         /\ ~IsNewAddress(dto, email) =>
              /\ Updated(row, dto, email).email = row.email
              /\ Updated(row, dto, email).flagged = row.flagged
<1>1. IsNewAddress(dto, email) \in BOOLEAN
  BY DEF IsNewAddress
<1>2. CASE IsNewAddress(dto, email)
  BY <1>2, DeskAssumption DEF Updated, CustomerRow, UpdateCustomerDto, IsNewAddress, Text
<1>3. CASE ~IsNewAddress(dto, email)
  BY <1>3, DeskAssumption DEF Updated, CustomerRow, UpdateCustomerDto, Text
<1> QED
  BY <1>1, <1>2, <1>3

\* What erasure leaves of one.
LEMMA ErasedRow ==
  ASSUME NEW row \in CustomerRow
  PROVE  /\ Erased(row) \in CustomerRow /\ Erased(row).deleted
         /\ Erased(row).name = Redacted /\ Erased(row).email = null
BY DeskAssumption DEF Erased, CustomerRow

\* A step that changes only customers' rows, and deletes none of them.
LEMMA CustomersTyped ==
  ASSUME DeskTypeOK, Overtake,
         DOMAIN customers' = DOMAIN customers, IsTable(customers', CustomerRow),
         DOMAIN erasedWith' = {c \in DOMAIN customers' : customers'[c].deleted},
         failed' \subseteq DOMAIN customers,
         UNCHANGED <<tickets, mails, closed>>,
         started' \in 0 .. MaxRequests,
         \/ UNCHANGED request
         \/ \E r \in Request : request' = [request EXCEPT ![r] = Idle]
  PROVE  DeskTypeOK'
<1>1. /\ request' \in [Request -> RequestState]
      /\ \A s \in Request : request'[s].op \in {"update", "erase", "create"}
           => request'[s].id \in DOMAIN customers'
      /\ \A s \in Request : request'[s].op \in {"created", "resend", "send"}
           => request'[s].id \in DOMAIN tickets'
  <2>1. CASE UNCHANGED request
    BY <2>1 DEF DeskTypeOK
  <2>2. ASSUME NEW r \in Request, request' = [request EXCEPT ![r] = Idle] PROVE <1>1
    <3>1. RefersToRows(Idle)'
      BY DEF RefersToRows, Idle
    <3> QED
      BY <2>2, <3>1, IdleTyped, SlotTyped
  <2> QED
    BY <2>1, <2>2
<1>2. IsTable(tickets', TicketRow) /\ IsTable(mails', MailRow)
  BY DEF DeskTypeOK, IsTable
<1>3. overtaken' \subseteq DOMAIN mails' \cup Request
  BY Overtaking
<1> QED
  BY <1>1, <1>2, <1>3 DEF DeskTypeOK

\* The requests and webhooks that write a customer.
LEMMA TypeCustomers ==
  ASSUME DeskTypeOK,
         \/ \E r \in Request : Update(r) \/ Remove(r)
         \/ \E a \in Address : Flag(a)
  PROVE  DeskTypeOK'
<1>1. ASSUME NEW r \in Request, Update(r) PROVE DeskTypeOK'
  <2> DEFINE c == request[r].id
             row == Updated(customers[c], request[r].dto, request[r].email)
  <2>1. c \in DOMAIN customers /\ customers[c] \in CustomerRow /\ request[r].dto \in UpdateCustomerDto
    BY <1>1, SlotFields, RequestFields, RowFields DEF RefersToRows, Update
  <2>2. row \in CustomerRow /\ row.deleted = customers[c].deleted
    BY <2>1, UpdatedRow
  <2>3. customers' = [customers EXCEPT ![c] = row]
    BY <1>1 DEF Update
  <2> HIDE DEF row
  <2>4. DOMAIN customers' = DOMAIN customers /\ IsTable(customers', CustomerRow)
    BY <2>2, <2>3 DEF DeskTypeOK, IsTable
  <2>5. \A k \in DOMAIN customers : customers'[k].deleted = customers[k].deleted
    BY <2>1, <2>2, <2>3
  <2>6. failed' \subseteq DOMAIN customers /\ UNCHANGED <<tickets, mails, closed, erasedWith>> /\ Overtake
    BY <1>1 DEF Update, DeskTypeOK
  <2>7. DOMAIN erasedWith' = {k \in DOMAIN customers' : customers'[k].deleted}
    BY <2>4, <2>5, <2>6 DEF DeskTypeOK
  <2>8. request' = [request EXCEPT ![r] = Idle] /\ started' \in 0 .. MaxRequests
    BY <1>1, CountTyped DEF Update
  <2> QED
    BY <2>4, <2>6, <2>7, <2>8, CustomersTyped
<1>2. ASSUME NEW r \in Request, Remove(r) PROVE DeskTypeOK'
  <2> DEFINE c == request[r].id
  <2>1. c \in DOMAIN customers /\ customers[c] \in CustomerRow
    BY <1>2, SlotFields, RowFields DEF RefersToRows, Remove
  <2>2. customers' = [customers EXCEPT ![c] = Erased(customers[c])]
    BY <1>2 DEF Remove
  <2>3. DOMAIN customers' = DOMAIN customers /\ IsTable(customers', CustomerRow)
    BY <2>1, <2>2, ErasedRow DEF DeskTypeOK, IsTable
  <2>4. DOMAIN erasedWith' = DOMAIN erasedWith \cup {c}
    <3>1. CASE Active(c)
      <4>1. erasedWith' = Insert(erasedWith, c, TicketsOf(c))
        BY <1>2, <3>1 DEF Remove
      <4> QED
        BY <4>1 DEF Insert
    <3>2. CASE ~Active(c)
      BY <1>2, <2>1, <3>2 DEF Remove, Active, DeskTypeOK
    <3> QED
      BY <3>1, <3>2 DEF Active
  <2>5. customers'[c].deleted /\ \A k \in DOMAIN customers \ {c} : customers'[k] = customers[k]
    BY <2>1, <2>2, ErasedRow
  <2>6. DOMAIN erasedWith' = {k \in DOMAIN customers' : customers'[k].deleted}
    BY <2>1, <2>3, <2>4, <2>5 DEF DeskTypeOK
  <2>7. failed' \subseteq DOMAIN customers /\ UNCHANGED <<tickets, mails, closed>> /\ Overtake
    BY <1>2 DEF Remove, DeskTypeOK
  <2>8. request' = [request EXCEPT ![r] = Idle] /\ started' \in 0 .. MaxRequests
    BY <1>2, CountTyped DEF Remove
  <2> QED
    BY <2>3, <2>6, <2>7, <2>8, CustomersTyped
<1>3. ASSUME NEW a \in Address, Flag(a) PROVE DeskTypeOK'
  <2>1. /\ DOMAIN customers' = DOMAIN customers
        /\ \A c \in DOMAIN customers : \/ customers'[c] = customers[c]
                                       \/ customers'[c] = [customers[c] EXCEPT !.flagged = TRUE]
    BY <1>3 DEF Flag
  <2>2. \A c \in DOMAIN customers : /\ customers'[c] \in CustomerRow
                                    /\ customers'[c].deleted = customers[c].deleted
    BY <2>1, RowFields DEF CustomerRow
  <2>3. IsTable(customers', CustomerRow)
    BY <1>3, <2>1, <2>2 DEF IsTable, Flag
  <2>4. DOMAIN erasedWith' = {k \in DOMAIN customers' : customers'[k].deleted}
    BY <1>3, <2>1, <2>2 DEF DeskTypeOK, Flag
  <2>5. /\ failed' \subseteq DOMAIN customers /\ Overtake
        /\ UNCHANGED <<tickets, mails, closed, request>> /\ started' \in 0 .. MaxRequests
    BY <1>3 DEF Flag, DeskTypeOK
  <2> QED
    BY <2>1, <2>3, <2>4, <2>5, CustomersTyped
<1> QED
  BY <1>1, <1>2, <1>3

\* What a new ticket is.
LEMMA NewTicketRow ==
  ASSUME NEW c \in Customer, NEW at \in Stamp, NEW title \in Titles
  PROVE  /\ NewTicket(c, at, title) \in TicketRow /\ NewTicket(c, at, title).customer = c
         /\ NewTicket(c, at, title).since = "recent"
BY DeskAssumption DEF NewTicket, TicketRow, firstStep, Text

\* Tickets made for a customer who is new, or was there.
LEMMA TypeCreate ==
  ASSUME DeskTypeOK, NEW r \in Request, NEW t \in Ticket, NEW at \in Stamp, NEW title \in Titles,
         \/ \E c \in Customer, dto \in Arrivals : CreateWithCustomer(r, c, dto, t, at, title)
         \/ Create(r, t, at, title)
  PROVE  DeskTypeOK'
<1> DEFINE state == [op |-> "created", id |-> t]
<1>1. state \in RequestState /\ state.op = "created" /\ state.id = t
  BY DEF RequestState
<1>2. ASSUME NEW c \in Customer, c \in DOMAIN customers', tickets' = Insert(tickets, t, NewTicket(c, at, title)),
             DOMAIN customers \subseteq DOMAIN customers'
      PROVE  /\ DOMAIN tickets' = DOMAIN tickets \cup {t} /\ IsTable(tickets', TicketRow)
             /\ \A k \in DOMAIN tickets' : tickets'[k].customer \in DOMAIN customers'
  <2> DEFINE row == NewTicket(c, at, title)
  <2>1. row \in TicketRow /\ row.customer = c
    BY NewTicketRow
  <2> HIDE DEF row
  <2>2. /\ DOMAIN tickets' = DOMAIN tickets \cup {t} /\ tickets'[t] = row
        /\ \A k \in DOMAIN tickets : k # t => tickets'[k] = tickets[k]
    BY <1>2 DEF Insert, row
  <2>3. IsTable(tickets', TicketRow)
    BY <1>2, <2>1, InsertTyped DEF DeskTypeOK, row
  <2>4. ASSUME NEW k \in DOMAIN tickets' PROVE tickets'[k].customer \in DOMAIN customers'
    <3>1. CASE k = t
      BY <1>2, <2>1, <2>2, <3>1
    <3>2. CASE k # t
      BY <1>2, <2>2, <3>2, RowFields
    <3> QED
      BY <3>1, <3>2
  <2> QED
    BY <2>2, <2>3, <2>4
<1>3. ASSUME DOMAIN customers \subseteq DOMAIN customers', DOMAIN tickets' = DOMAIN tickets \cup {t},
             request' = [request EXCEPT ![r] = state]
      PROVE  /\ request' \in [Request -> RequestState]
             /\ \A s \in Request : request'[s].op \in {"update", "erase", "create"}
                  => request'[s].id \in DOMAIN customers'
             /\ \A s \in Request : request'[s].op \in {"created", "resend", "send"}
                  => request'[s].id \in DOMAIN tickets'
  <2>1. RefersToRows(state)'
    BY <1>1, <1>3 DEF RefersToRows
  <2> QED
    BY <1>1, <1>3, <2>1, SlotTyped
<1>4. ASSUME NEW c \in Customer, NEW dto \in Arrivals, CreateWithCustomer(r, c, dto, t, at, title)
      PROVE  DeskTypeOK'
  <2> DEFINE row == [name |-> dto.name, email |-> dto.email, flagged |-> FALSE, deleted |-> FALSE]
  <2>1. row \in CustomerRow /\ ~row.deleted
    BY DeskAssumption DEF CustomerRow, CreateCustomerDto, Text
  <2>2. customers' = Insert(customers, c, row) /\ c \notin DOMAIN customers
    BY <1>4 DEF CreateWithCustomer
  <2> HIDE DEF row
  <2>3. /\ DOMAIN customers' = DOMAIN customers \cup {c} /\ customers'[c] = row
        /\ \A k \in DOMAIN customers : customers'[k] = customers[k]
    BY <2>2 DEF Insert
  <2>4. IsTable(customers', CustomerRow)
    BY <2>1, <2>2, InsertTyped DEF DeskTypeOK
  <2>5. DOMAIN erasedWith' = {k \in DOMAIN customers' : customers'[k].deleted}
    BY <1>4, <2>1, <2>2, <2>3 DEF DeskTypeOK, CreateWithCustomer
  <2>6. /\ DOMAIN tickets' = DOMAIN tickets \cup {t} /\ IsTable(tickets', TicketRow)
        /\ \A k \in DOMAIN tickets' : tickets'[k].customer \in DOMAIN customers'
    BY <1>2, <1>4, <2>3 DEF CreateWithCustomer
  <2>7. started' \in 0 .. MaxRequests /\ request' = [request EXCEPT ![r] = state]
    BY <1>4, CountTyped DEF CreateWithCustomer
  <2> HIDE DEF state
  <2> QED
    BY <1>3, <1>4, <2>3, <2>4, <2>5, <2>6, <2>7 DEF CreateWithCustomer, DeskTypeOK, IsTable
<1>5. ASSUME Create(r, t, at, title) PROVE DeskTypeOK'
  <2>1. request[r].id \in Customer /\ request[r].id \in DOMAIN customers
    BY <1>5, SlotFields, RequestFields DEF Create, RefersToRows
  <2>2. /\ DOMAIN tickets' = DOMAIN tickets \cup {t} /\ IsTable(tickets', TicketRow)
        /\ \A k \in DOMAIN tickets' : tickets'[k].customer \in DOMAIN customers'
    BY <1>2, <1>5, <2>1 DEF Create
  <2>3. started' \in 0 .. MaxRequests /\ request' = [request EXCEPT ![r] = state]
    BY <1>5, CountTyped DEF Create
  <2> HIDE DEF state
  <2> QED
    BY <1>3, <1>5, <2>2, <2>3 DEF Create, DeskTypeOK, IsTable
<1> QED
  BY <1>4, <1>5

\* The emails written, sent and given up.
LEMMA TypeMails ==
  ASSUME DeskTypeOK,
         \/ \E r \in Request, m \in Mail : WriteMail(r, m)
         \/ \E m \in DOMAIN mails : SendMail(m) \/ DropMail(m)
  PROVE  DeskTypeOK'
<1>1. ASSUME NEW r \in Request, NEW m \in Mail, WriteMail(r, m) PROVE DeskTypeOK'
  <2> DEFINE row == [ticket |-> request[r].id, to |-> request[r].to, state |-> "open"]
  <2>1. row \in MailRow /\ row.ticket \in DOMAIN tickets
    BY <1>1, SlotFields, RequestFields DEF WriteMail, RefersToRows, MailRow
  <2>2. mails' = Insert(mails, m, row)
    BY <1>1 DEF WriteMail
  <2> HIDE DEF row
  <2>3. /\ DOMAIN mails' = DOMAIN mails \cup {m} /\ mails'[m] = row
        /\ \A k \in DOMAIN mails : k # m => mails'[k] = mails[k]
    BY <2>2 DEF Insert
  <2>4. IsTable(mails', MailRow)
    BY <2>1, <2>2, InsertTyped DEF DeskTypeOK
  <2>5. \A k \in DOMAIN mails' : mails'[k].ticket \in DOMAIN tickets
    BY <2>1, <2>3 DEF DeskTypeOK
  <2>6. overtaken' \subseteq DOMAIN mails' \cup Request
    BY <1>1, <2>3 DEF WriteMail, DeskTypeOK
  <2>7. started' \in 0 .. MaxRequests /\ request' = [request EXCEPT ![r] = Idle]
    BY <1>1, CountTyped DEF WriteMail
  <2>8. /\ request' \in [Request -> RequestState]
        /\ \A s \in Request : request'[s].op \in {"update", "erase", "create"}
             => request'[s].id \in DOMAIN customers'
        /\ \A s \in Request : request'[s].op \in {"created", "resend", "send"}
             => request'[s].id \in DOMAIN tickets'
    <3>1. RefersToRows(Idle)' /\ DOMAIN customers' = DOMAIN customers /\ DOMAIN tickets' = DOMAIN tickets
      BY <1>1 DEF RefersToRows, Idle, WriteMail
    <3> QED
      BY <2>7, <3>1, IdleTyped, SlotTyped
  <2> QED
    BY <1>1, <2>3, <2>4, <2>5, <2>6, <2>7, <2>8 DEF WriteMail, DeskTypeOK, IsTable
<1>2. ASSUME NEW m \in DOMAIN mails, SendMail(m) \/ DropMail(m) PROVE DeskTypeOK'
  <2>1. PICK state \in {"sent", "strayed", "dropped"} : mails' = [mails EXCEPT ![m].state = state]
    BY <1>2 DEF SendMail, DropMail
  <2>2. /\ DOMAIN mails' = DOMAIN mails
        /\ \A k \in DOMAIN mails : mails'[k] \in MailRow /\ mails'[k].ticket = mails[k].ticket
    BY <2>1, RowFields DEF MailRow
  <2>3. IsTable(mails', MailRow)
    BY <2>1, <2>2 DEF IsTable
  <2> QED
    BY <1>2, <2>2, <2>3 DEF SendMail, DropMail, DeskTypeOK, IsTable
<1> QED
  BY <1>1, <1>2

\* What else becomes of tickets and of the location.
LEMMA TypeTickets ==
  ASSUME DeskTypeOK,
         \/ \E r \in Request, t \in Ticket : \/ \E title \in Text : UpdateTicket(r, t, title)
                                             \/ \E status \in Step : MoveTicket(r, t, status)
         \/ \E t \in DOMAIN tickets : Age(t)
         \/ RemoveLocation
  PROVE  DeskTypeOK'
<1>1. ASSUME NEW t \in DOMAIN tickets,
             DOMAIN tickets' = DOMAIN tickets, IsTable(tickets', TicketRow),
             \A k \in DOMAIN tickets : tickets'[k].customer = tickets[k].customer,
             UNCHANGED <<customers, mails, closed, failed, erasedWith>>,
             started' \in 0 .. MaxRequests, overtaken' \subseteq DOMAIN mails \cup Request,
             UNCHANGED request \/ \E r \in Request : request' = [request EXCEPT ![r] = Idle]
      PROVE  DeskTypeOK'
  <2>1. /\ request' \in [Request -> RequestState]
        /\ \A s \in Request : request'[s].op \in {"update", "erase", "create"}
             => request'[s].id \in DOMAIN customers'
        /\ \A s \in Request : request'[s].op \in {"created", "resend", "send"}
             => request'[s].id \in DOMAIN tickets'
    <3>1. CASE UNCHANGED request
      BY <1>1, <3>1 DEF DeskTypeOK
    <3>2. ASSUME NEW r \in Request, request' = [request EXCEPT ![r] = Idle] PROVE <2>1
      <4>1. RefersToRows(Idle)'
        BY DEF RefersToRows, Idle
      <4> QED
        BY <1>1, <3>2, <4>1, IdleTyped, SlotTyped
    <3> QED
      BY <1>1, <3>1, <3>2
  <2> QED
    BY <1>1, <2>1 DEF DeskTypeOK, IsTable
<1>2. ASSUME NEW r \in Request, NEW t \in Ticket, NEW title \in Text, UpdateTicket(r, t, title)
      PROVE  DeskTypeOK'
  <2>1. /\ DOMAIN tickets' = DOMAIN tickets /\ IsTable(tickets', TicketRow)
        /\ \A k \in DOMAIN tickets : tickets'[k].customer = tickets[k].customer
    BY <1>2, RowFields DEF UpdateTicket, TicketRow, IsTable, Text
  <2> QED
    BY <1>1, <1>2, <2>1, CountTyped DEF UpdateTicket, DeskTypeOK
<1>3. ASSUME NEW r \in Request, NEW t \in Ticket, NEW status \in Step, MoveTicket(r, t, status)
      PROVE  DeskTypeOK'
  <2>1. /\ DOMAIN tickets' = DOMAIN tickets /\ IsTable(tickets', TicketRow)
        /\ \A k \in DOMAIN tickets : tickets'[k].customer = tickets[k].customer
    BY <1>3, RowFields DEF MoveTicket, TicketRow, IsTable
  <2> QED
    BY <1>1, <1>3, <2>1, CountTyped, Overtaking DEF MoveTicket
<1>4. ASSUME NEW t \in DOMAIN tickets, Age(t) PROVE DeskTypeOK'
  <2>1. /\ DOMAIN tickets' = DOMAIN tickets /\ IsTable(tickets', TicketRow)
        /\ \A k \in DOMAIN tickets : tickets'[k].customer = tickets[k].customer
    BY <1>4, RowFields DEF Age, TicketRow, IsTable
  <2> QED
    BY <1>1, <1>4, <2>1, Overtaking DEF Age, DeskTypeOK
<1>5. ASSUME RemoveLocation PROVE DeskTypeOK'
  <2>1. overtaken' \subseteq DOMAIN mails \cup Request
    BY <1>5 DEF RemoveLocation, DeskTypeOK
  <2> QED
    BY <1>5, <2>1 DEF RemoveLocation, DeskTypeOK, IsTable
<1> QED
  BY <1>2, <1>3, <1>4, <1>5

\* Two typed customers with a ticket each, and nothing else.
LEMMA TypeInit == DeskInit => DeskTypeOK
<1> SUFFICES ASSUME DeskInit PROVE DeskTypeOK
  OBVIOUS
<1>1. PICK name \in Names, email \in Address \cup {null} :
        customers = [c \in {1, 2} |->
          [name |-> name[c], email |-> email, flagged |-> FALSE, deleted |-> FALSE]]
  BY DEF DeskInit
<1>2. name[1] \in Word /\ name[2] \in Word
  BY DeskAssumption DEF Text
<1>3. DOMAIN customers \subseteq Customer /\ IsTable(customers, CustomerRow)
  BY <1>1, <1>2, DeskAssumption DEF IsTable, CustomerRow
<1>4. PICK at \in Times, title \in Titles : tickets = [t \in {1, 2} |-> NewTicket(t, at[t], title)]
  BY DEF DeskInit
<1>5. at[1] \in Stamp /\ at[2] \in Stamp
  BY DeskAssumption
<1>6. \A t \in {1, 2} : t \in Ticket /\ t \in Customer
  BY DeskAssumption
<1>7. \A t \in {1, 2} : tickets[t] \in TicketRow /\ tickets[t].customer = t
  BY <1>4, <1>5, <1>6, NewTicketRow
<1>8. DOMAIN tickets = {1, 2} /\ IsTable(tickets, TicketRow)
  BY <1>4, <1>7 DEF IsTable
<1>9. \A t \in DOMAIN tickets : t \in Ticket /\ tickets[t].customer \in DOMAIN customers
  BY <1>1, <1>6, <1>7, <1>8
<1>10. mails = Empty /\ DOMAIN mails = {} /\ IsTable(mails, MailRow)
  BY EmptyTable DEF DeskInit
<1>11. DOMAIN erasedWith = {} /\ \A c \in DOMAIN customers : ~customers[c].deleted
  BY <1>1, EmptyTable DEF DeskInit
<1>12. request \in [Request -> RequestState] /\ \A r \in Request : request[r].op = "none"
  BY IdleTyped DEF DeskInit
<1>13. DOMAIN erasedWith = {c \in DOMAIN customers : customers[c].deleted}
  BY <1>11
<1>14. closed \in BOOLEAN /\ started \in 0 .. MaxRequests
  <2>1. MaxRequests \in Nat
    BY DeskAssumption
  <2>2. started = 0 /\ closed \in BOOLEAN
    BY DEF DeskInit
  <2> QED
    BY <2>1, <2>2
<1>15. failed = {} /\ overtaken = {}
  BY DEF DeskInit
<1> QED
  BY <1>3, <1>8, <1>9, <1>10, <1>12, <1>13, <1>14, <1>15 DEF DeskTypeOK

\* A step, by what it writes.
LEMMA StepCases ==
  ASSUME [DeskNext]_deskVars
  PROVE  \/ UNCHANGED deskVars
         \/ \E r \in Request :
              \/ \E c \in Customer : \/ \E dto \in Updates : DecideUpdate(r, c, dto)
                                     \/ DecideRemove(r, c) \/ DecideCreate(r, c)
              \/ \E t \in Ticket : AdmitResend(r, t)
              \/ LoadCreated(r) \/ LoadResend(r) \/ Fail(r)
         \/ \E r \in Request : Update(r)
         \/ \E r \in Request : Remove(r)
         \/ \E a \in Address : Flag(a)
         \/ \E r \in Request, t \in Ticket, at \in Stamp, title \in Titles :
              \/ \E c \in Customer, dto \in Arrivals : CreateWithCustomer(r, c, dto, t, at, title)
              \/ Create(r, t, at, title)
         \/ \E r \in Request, m \in Mail : WriteMail(r, m)
         \/ \E m \in DOMAIN mails : SendMail(m) \/ DropMail(m)
         \/ \E r \in Request, t \in Ticket : \/ \E title \in Text : UpdateTicket(r, t, title)
                                             \/ \E status \in Step : MoveTicket(r, t, status)
         \/ \E t \in DOMAIN tickets : Age(t)
         \/ RemoveLocation
<1>1. ASSUME NEW r \in Request, ServeCustomers(r)
      PROVE  \E c \in Customer : (\E dto \in Updates : DecideUpdate(r, c, dto)) \/ DecideRemove(r, c)
  BY <1>1 DEF ServeCustomers
<1>2. ASSUME NEW r \in Request, ServeTickets(r)
      PROVE  \/ \E c \in Customer, dto \in Arrivals, t \in Ticket, at \in Stamp, title \in Titles :
                  CreateWithCustomer(r, c, dto, t, at, title)
             \/ \E c \in Customer : DecideCreate(r, c)
             \/ \E t \in Ticket : \/ AdmitResend(r, t)
                                  \/ \E title \in Text : UpdateTicket(r, t, title)
                                  \/ \E status \in Step : MoveTicket(r, t, status)
  BY <1>2 DEF ServeTickets
<1>3. ASSUME NEW r \in Request, Continue(r)
      PROVE  \/ Update(r) \/ Remove(r) \/ LoadCreated(r) \/ LoadResend(r)
             \/ \E t \in Ticket, at \in Stamp, title \in Titles : Create(r, t, at, title)
             \/ \E m \in Mail : WriteMail(r, m)
  BY <1>3 DEF Continue
<1> QED
  BY <1>1, <1>2, <1>3 DEF DeskNext

\* Types are kept by every step.
LEMMA TypeStep == DeskTypeOK /\ [DeskNext]_deskVars => DeskTypeOK'
<1> SUFFICES ASSUME DeskTypeOK, [DeskNext]_deskVars PROVE DeskTypeOK'
  OBVIOUS
<1>1. CASE UNCHANGED deskVars
  BY <1>1 DEF deskVars, DeskTypeOK, IsTable
<1> QED
  BY <1>1, StepCases, TypeReads, TypeCustomers, TypeCreate, TypeMails, TypeTickets

\* The tables of a desk keep their types, and no ticket, email or request
\* under way refers to a row that is not there.
THEOREM DeskTypes == DeskSpec => []DeskTypeOK
BY TypeInit, TypeStep, PTL DEF DeskSpec

-----------------------------------------------------------------------------
(* What no step takes back.                                                *)

\* Erasures, the customer of a ticket, and the marks of late writes.
Grows ==
  /\ DOMAIN customers \subseteq DOMAIN customers'
  /\ \A c \in DOMAIN customers : customers[c].deleted => customers'[c].deleted
  /\ \A t \in DOMAIN tickets : t \in DOMAIN tickets' /\ tickets'[t].customer = tickets[t].customer
  /\ late \subseteq late'

\* Everything grows.
LEMMA StepGrows == ASSUME DeskTypeOK, [DeskNext]_deskVars PROVE Grows
<1>1. CASE UNCHANGED deskVars
  BY <1>1 DEF deskVars, Grows
<1>2. ASSUME NEW r \in Request,
             \/ \E c \in Customer : \/ \E dto \in Updates : DecideUpdate(r, c, dto)
                                    \/ DecideRemove(r, c) \/ DecideCreate(r, c)
             \/ \E t \in Ticket : AdmitResend(r, t)
             \/ LoadCreated(r) \/ LoadResend(r) \/ Fail(r)
      PROVE  Grows
  BY <1>2 DEF DecideUpdate, DecideRemove, DecideCreate, AdmitResend, LoadCreated, LoadResend, Load, Fail, Grows
<1>3. ASSUME NEW r \in Request, Update(r) PROVE Grows
  <2> DEFINE c == request[r].id
             row == Updated(customers[c], request[r].dto, request[r].email)
  <2>1. c \in DOMAIN customers /\ customers[c] \in CustomerRow /\ request[r].dto \in UpdateCustomerDto
    BY <1>3, SlotFields, RequestFields, RowFields DEF RefersToRows, Update
  <2>2. row.deleted = customers[c].deleted
    BY <2>1, UpdatedRow
  <2>3. customers' = [customers EXCEPT ![c] = row] /\ UNCHANGED tickets /\ late \subseteq late'
    BY <1>3 DEF Update
  <2> HIDE DEF row
  <2> QED
    BY <2>2, <2>3 DEF Grows
<1>4. ASSUME NEW r \in Request, Remove(r) PROVE Grows
  <2>1. request[r].id \in DOMAIN customers /\ customers[request[r].id] \in CustomerRow
    BY <1>4, SlotFields, RowFields DEF RefersToRows, Remove
  <2> QED
    BY <1>4, <2>1, ErasedRow DEF Remove, Grows
<1>5. ASSUME NEW a \in Address, Flag(a) PROVE Grows
  <2>1. \A c \in DOMAIN customers : [customers[c] EXCEPT !.flagged = TRUE].deleted = customers[c].deleted
    BY RowFields DEF CustomerRow
  <2> QED
    BY <1>5, <2>1 DEF Flag, Grows
<1>6. ASSUME NEW r \in Request, NEW t \in Ticket, NEW at \in Stamp, NEW title \in Titles,
             \/ \E c \in Customer, dto \in Arrivals : CreateWithCustomer(r, c, dto, t, at, title)
             \/ Create(r, t, at, title)
      PROVE  Grows
  <2>1. \A k \in DOMAIN tickets : k \in DOMAIN tickets' /\ tickets'[k] = tickets[k]
    BY <1>6 DEF CreateWithCustomer, Create, Insert
  <2>2. \A c \in DOMAIN customers : c \in DOMAIN customers' /\ customers'[c] = customers[c]
    BY <1>6 DEF CreateWithCustomer, Create, Insert
  <2>3. late \subseteq late'
    BY <1>6 DEF CreateWithCustomer, Create
  <2> QED
    BY <2>1, <2>2, <2>3 DEF Grows
<1>7. ASSUME \/ \E r \in Request, m \in Mail : WriteMail(r, m)
             \/ \E m \in DOMAIN mails : SendMail(m) \/ DropMail(m)
             \/ RemoveLocation
      PROVE  Grows
  BY <1>7 DEF WriteMail, SendMail, DropMail, RemoveLocation, Grows
<1>8. ASSUME \/ \E r \in Request, t \in Ticket : \/ \E title \in Text : UpdateTicket(r, t, title)
                                                \/ \E status \in Step : MoveTicket(r, t, status)
             \/ \E t \in DOMAIN tickets : Age(t)
      PROVE  Grows
  <2>1. DOMAIN tickets' = DOMAIN tickets /\ UNCHANGED <<customers, late>>
    BY <1>8 DEF UpdateTicket, MoveTicket, Age
  <2>2. \A t \in DOMAIN tickets : tickets'[t].customer = tickets[t].customer
    <3>1. ASSUME NEW r \in Request, NEW t \in Ticket, NEW title \in Text, UpdateTicket(r, t, title)
          PROVE  <2>2
      BY <3>1, RowFields DEF UpdateTicket, TicketRow
    <3>2. ASSUME NEW r \in Request, NEW t \in Ticket, NEW status \in Step, MoveTicket(r, t, status)
          PROVE  <2>2
      BY <3>2, RowFields DEF MoveTicket, TicketRow
    <3>3. ASSUME NEW t \in DOMAIN tickets, Age(t) PROVE <2>2
      BY <3>3, RowFields DEF Age, TicketRow
    <3> QED
      BY <1>8, <3>1, <3>2, <3>3
  <2> QED
    BY <2>1, <2>2 DEF Grows
<1> QED
  BY <1>1, <1>2, <1>3, <1>4, <1>5, <1>6, <1>7, <1>8, StepCases

-----------------------------------------------------------------------------
(* Flags.                                                                  *)

\* A customer whose row and failure a step leaves alone is as before.
LEMMA FlagKept ==
  ASSUME Grows, FlagFollowsAddress, NEW c \in DOMAIN customers,
         customers'[c] = customers[c], c \in failed' <=> c \in failed, Active(c)'
  PROVE  /\ customers'[c].flagged => c \in failed'
         /\ c \in failed' => customers'[c].flagged \/ <<"update", c>> \in late'
BY DEF FlagFollowsAddress, Active, Grows

\* Flags follow addresses through every step.
LEMMA FlagStep ==
  ASSUME DeskTypeOK, FlagFollowsAddress, [DeskNext]_deskVars
  PROVE  FlagFollowsAddress'
<1> DEFINE Follows(c) == /\ customers[c].flagged => c \in failed
                         /\ c \in failed => customers[c].flagged \/ <<"update", c>> \in late
<1>0. Grows
  BY StepGrows
<1>1. ASSUME UNCHANGED <<customers, failed>> PROVE FlagFollowsAddress'
  BY <1>0, <1>1, FlagKept DEF FlagFollowsAddress
<1>2. ASSUME NEW r \in Request, Update(r) PROVE FlagFollowsAddress'
  <2>0. PICK id : id = request[r].id
    OBVIOUS
  <2> DEFINE dto == request[r].dto
             row == Updated(customers[id], dto, request[r].email)
             new == IsNewAddress(dto, request[r].email)
             stale == \/ customers[id].deleted
                      \/ customers[id].email # request[r].email /\ new
  <2>1. id \in DOMAIN customers /\ customers[id] \in CustomerRow /\ dto \in UpdateCustomerDto
    BY <1>2, <2>0, SlotFields, RequestFields, RowFields DEF RefersToRows, Update
  <2>2. /\ row.deleted = customers[id].deleted
        /\ new => row.email = dto.email /\ ~row.flagged
        /\ ~new => row.email = customers[id].email /\ row.flagged = customers[id].flagged
    BY <2>1, UpdatedRow
  <2>3. /\ customers' = [customers EXCEPT ![id] = row]
        /\ failed' = IF row.email = customers[id].email THEN failed ELSE failed \ {id}
        /\ late' = late \cup Late("update", {k \in {id} : stale})
    BY <1>2, <2>0 DEF Update
  <2>4. new => dto.email # request[r].email
    BY DEF IsNewAddress
  <2>5. stale => <<"update", id>> \in late'
    BY <2>3 DEF Late
  <2> HIDE DEF row, new
  <2>6. ASSUME NEW c \in DOMAIN customers', Active(c)', c # id PROVE Follows(c)'
    <3>1. c \in DOMAIN customers /\ customers'[c] = customers[c] /\ (c \in failed' <=> c \in failed)
      BY <2>3, <2>6
    <3> QED
      BY <1>0, <2>6, <3>1, FlagKept
  <2>7. ASSUME Active(id)' PROVE Follows(id)'
    <3>1. customers'[id] = row
      BY <2>1, <2>3
    <3>2. Active(id)
      BY <2>1, <2>2, <2>7, <3>1 DEF Active
    <3>3. Follows(id)
      BY <2>1, <3>2 DEF FlagFollowsAddress
    <3>4. CASE new
      <4>1. ~row.flagged
        BY <2>2, <3>4
      <4>2. ASSUME id \in failed' PROVE <<"update", id>> \in late'
        BY <2>2, <2>3, <2>4, <2>5, <3>4, <4>2
      <4> QED
        BY <3>1, <4>1, <4>2
    <3>5. CASE ~new
      <4>1. failed' = failed /\ row.flagged = customers[id].flagged /\ late \subseteq late'
        BY <2>2, <2>3, <3>5
      <4> QED
        BY <3>1, <3>3, <4>1
    <3> QED
      BY <3>4, <3>5 DEF new, IsNewAddress
  <2> QED
    BY <2>6, <2>7 DEF FlagFollowsAddress
<1>3. ASSUME NEW r \in Request, Remove(r) PROVE FlagFollowsAddress'
  <2>1. request[r].id \in DOMAIN customers /\ customers[request[r].id] \in CustomerRow
    BY <1>3, SlotFields, RowFields DEF RefersToRows, Remove
  <2>2. /\ customers' = [customers EXCEPT ![request[r].id] = Erased(customers[request[r].id])]
        /\ Erased(customers[request[r].id]).deleted /\ failed' = failed
    BY <1>3, <2>1, ErasedRow DEF Remove
  <2>3. ASSUME NEW c \in DOMAIN customers', Active(c)' PROVE Follows(c)'
    <3>1. c \in DOMAIN customers /\ customers'[c] = customers[c]
      BY <2>2, <2>3 DEF Active
    <3> QED
      BY <1>0, <2>2, <2>3, <3>1, FlagKept
  <2> QED
    BY <2>3 DEF FlagFollowsAddress
<1>4. ASSUME NEW a \in Address, Flag(a) PROVE FlagFollowsAddress'
  <2> DEFINE found == {c \in DOMAIN customers : Active(c) /\ customers[c].email = a}
  <2>1. /\ customers' = [c \in DOMAIN customers |->
             IF c \in found THEN [customers[c] EXCEPT !.flagged = TRUE] ELSE customers[c]]
        /\ failed' = failed \cup found
    BY <1>4 DEF Flag
  <2>2. ASSUME NEW c \in DOMAIN customers', Active(c)' PROVE Follows(c)'
    <3>1. c \in DOMAIN customers
      BY <2>1
    <3>2. CASE c \in found
      <4>1. customers'[c].flagged /\ c \in failed'
        BY <2>1, <3>1, <3>2, RowFields DEF CustomerRow
      <4> QED
        BY <4>1
    <3>3. CASE c \notin found
      <4>1. customers'[c] = customers[c] /\ (c \in failed' <=> c \in failed)
        BY <2>1, <3>1, <3>3
      <4> QED
        BY <1>0, <2>2, <3>1, <4>1, FlagKept
    <3> QED
      BY <3>2, <3>3
  <2> QED
    BY <2>2 DEF FlagFollowsAddress
<1>5. ASSUME NEW r \in Request, NEW c \in Customer, NEW dto \in Arrivals, NEW t \in Ticket,
             NEW at \in Stamp, NEW title \in Titles, CreateWithCustomer(r, c, dto, t, at, title)
      PROVE  FlagFollowsAddress'
  <2>1. /\ c \notin DOMAIN customers /\ failed' = failed /\ c \notin failed
        /\ DOMAIN customers' = DOMAIN customers \cup {c} /\ ~customers'[c].flagged
        /\ \A k \in DOMAIN customers : customers'[k] = customers[k]
    BY <1>5 DEF CreateWithCustomer, Insert, DeskTypeOK
  <2>2. ASSUME NEW k \in DOMAIN customers', Active(k)' PROVE Follows(k)'
    <3>1. CASE k = c
      BY <2>1, <3>1
    <3>2. CASE k \in DOMAIN customers
      BY <1>0, <2>1, <2>2, <3>2, FlagKept
    <3> QED
      BY <2>1, <3>1, <3>2
  <2> QED
    BY <2>2 DEF FlagFollowsAddress
<1>6. ASSUME \/ UNCHANGED deskVars
             \/ \E r \in Request :
                  \/ \E c \in Customer : \/ \E dto \in Updates : DecideUpdate(r, c, dto)
                                         \/ DecideRemove(r, c) \/ DecideCreate(r, c)
                  \/ \E t \in Ticket : AdmitResend(r, t)
                  \/ LoadCreated(r) \/ LoadResend(r) \/ Fail(r)
             \/ \E r \in Request, t \in Ticket, at \in Stamp, title \in Titles : Create(r, t, at, title)
             \/ \E r \in Request, m \in Mail : WriteMail(r, m)
             \/ \E m \in DOMAIN mails : SendMail(m) \/ DropMail(m)
             \/ \E r \in Request, t \in Ticket : \/ \E title \in Text : UpdateTicket(r, t, title)
                                                 \/ \E status \in Step : MoveTicket(r, t, status)
             \/ \E t \in DOMAIN tickets : Age(t)
             \/ RemoveLocation
      PROVE  UNCHANGED <<customers, failed>>
  BY <1>6 DEF deskVars, DecideUpdate, DecideRemove, DecideCreate, AdmitResend, LoadCreated, LoadResend,
     Load, Fail, Create, WriteMail, SendMail, DropMail, UpdateTicket, MoveTicket, Age, RemoveLocation
<1> QED
  BY <1>1, <1>2, <1>3, <1>4, <1>5, <1>6, StepCases

\* A flag means that the address failed, and every failed address has its
\* flag, unless an update that read another address took it off, whatever
\* updates, erasures and webhooks interleave.
THEOREM FlagsFollow == DeskSpec => []FlagFollowsAddress
<1>1. DeskInit => FlagFollowsAddress
  <2> SUFFICES ASSUME DeskInit PROVE FlagFollowsAddress
    OBVIOUS
  <2>1. failed = {} /\ \A c \in DOMAIN customers : ~customers[c].flagged
    BY DEF DeskInit
  <2> QED
    BY <2>1 DEF FlagFollowsAddress
<1>2. DeskTypeOK /\ FlagFollowsAddress /\ [DeskNext]_deskVars => FlagFollowsAddress'
  BY FlagStep
<1> QED
  BY <1>1, <1>2, DeskTypes, PTL DEF DeskSpec

-----------------------------------------------------------------------------
(* Erasure.                                                                *)

\* What ErasedIsGone says of one customer.
IsGone(c) ==
  /\ \/ customers[c].name = Redacted /\ customers[c].email = null
     \/ <<"update", c>> \in late
  /\ \A t \in TicketsOf(c) \ erasedWith[c] : <<"create", t>> \in late

\* A request that creates a ticket found its customer active.
CreatesFoundActive == \A r \in Request : request[r].op = "create" => request[r].active

ErasedInv == ErasedIsGone /\ CreatesFoundActive

\* Who is gone stays gone while a step redoes nothing of it.
LEMMA GoneKept ==
  ASSUME Grows, NEW c, IsGone(c), erasedWith'[c] = erasedWith[c],
         \/ customers'[c].name = customers[c].name /\ customers'[c].email = customers[c].email
         \/ <<"update", c>> \in late',
         \A t \in TicketsOf(c)' : t \in TicketsOf(c) \/ <<"create", t>> \in late'
  PROVE  IsGone(c)'
<1>1. \/ customers'[c].name = Redacted /\ customers'[c].email = null
      \/ <<"update", c>> \in late'
  BY DEF IsGone, Grows
<1>2. ASSUME NEW t \in TicketsOf(c)', t \notin erasedWith'[c] PROVE <<"create", t>> \in late'
  BY <1>2 DEF IsGone, Grows
<1> QED
  BY <1>1, <1>2 DEF IsGone

\* No step but the one that finds a customer sets up a create.
LEMMA CreatesKept ==
  ASSUME DeskTypeOK, CreatesFoundActive, [DeskNext]_deskVars
  PROVE  CreatesFoundActive'
<1>1. ASSUME NEW r \in Request, NEW state, request' = [request EXCEPT ![r] = state],
             state.op = "create" => state.active
      PROVE  CreatesFoundActive'
  BY <1>1 DEF CreatesFoundActive, DeskTypeOK
<1>2. ASSUME UNCHANGED request PROVE CreatesFoundActive'
  BY <1>2 DEF CreatesFoundActive
<1>3. ASSUME NEW r \in Request,
             \/ \E c \in Customer : \/ \E dto \in Updates : DecideUpdate(r, c, dto)
                                    \/ DecideRemove(r, c) \/ DecideCreate(r, c)
             \/ \E t \in Ticket : AdmitResend(r, t)
             \/ LoadCreated(r) \/ LoadResend(r) \/ Fail(r)
      PROVE  CreatesFoundActive'
  <2>1. ASSUME NEW c \in Customer, NEW dto \in Updates, DecideUpdate(r, c, dto) PROVE CreatesFoundActive'
    BY <1>1, <2>1 DEF DecideUpdate, Start
  <2>2. ASSUME NEW c \in Customer, DecideRemove(r, c) PROVE CreatesFoundActive'
    BY <1>1, <2>2 DEF DecideRemove, Start
  <2>3. ASSUME NEW c \in Customer, DecideCreate(r, c) PROVE CreatesFoundActive'
    <3> DEFINE state == [op |-> "create", id |-> c, active |-> Active(c)]
    <3>1. Active(c) = TRUE
      BY <2>3 DEF DecideCreate, MayHaveTicket, Active
    <3>2. request' = [request EXCEPT ![r] = state] /\ state.active = TRUE
      BY <2>3, <3>1 DEF DecideCreate, Start
    <3> HIDE DEF state
    <3> QED
      BY <1>1, <3>2
  <2>4. ASSUME NEW t \in Ticket, AdmitResend(r, t) PROVE CreatesFoundActive'
    BY <1>1, <2>4 DEF AdmitResend, GoOn
  <2>5. ASSUME Load(r) PROVE CreatesFoundActive'
    BY <1>1, <2>5, IdleTyped DEF Load, GoOn
  <2>6. ASSUME Fail(r) PROVE CreatesFoundActive'
    BY <1>1, <2>6, IdleTyped DEF Fail, GoOn
  <2> QED
    BY <1>3, <2>1, <2>2, <2>3, <2>4, <2>5, <2>6 DEF LoadCreated, LoadResend
<1>4. ASSUME NEW r \in Request, Update(r) \/ Remove(r) \/ \E m \in Mail : WriteMail(r, m)
      PROVE  CreatesFoundActive'
  BY <1>1, <1>4, IdleTyped DEF Update, Remove, WriteMail, GoOn
<1>5. ASSUME NEW r \in Request, NEW t \in Ticket, NEW at \in Stamp, NEW title \in Titles,
             \/ \E c \in Customer, dto \in Arrivals : CreateWithCustomer(r, c, dto, t, at, title)
             \/ Create(r, t, at, title)
      PROVE  CreatesFoundActive'
  BY <1>1, <1>5 DEF CreateWithCustomer, Create, Start, GoOn
<1>6. ASSUME NEW r \in Request, NEW t \in Ticket,
             \/ \E title \in Text : UpdateTicket(r, t, title)
             \/ \E status \in Step : MoveTicket(r, t, status)
      PROVE  CreatesFoundActive'
  BY <1>1, <1>6, IdleTyped DEF UpdateTicket, MoveTicket, Start
<1>7. ASSUME \/ UNCHANGED deskVars
             \/ \E a \in Address : Flag(a)
             \/ \E m \in DOMAIN mails : SendMail(m) \/ DropMail(m)
             \/ \E t \in DOMAIN tickets : Age(t)
             \/ RemoveLocation
      PROVE  UNCHANGED request
  BY <1>7 DEF deskVars, Flag, SendMail, DropMail, Age, RemoveLocation
<1> QED
  BY <1>2, <1>3, <1>4, <1>5, <1>6, <1>7, StepCases

\* Who was erased is gone, through every step.
LEMMA ErasedStep ==
  ASSUME DeskTypeOK, ErasedInv, [DeskNext]_deskVars
  PROVE  ErasedIsGone'
<1>0. /\ Grows /\ \A c \in DOMAIN erasedWith : IsGone(c)
      /\ DOMAIN erasedWith = {c \in DOMAIN customers : customers[c].deleted}
  BY StepGrows DEF ErasedInv, ErasedIsGone, IsGone, DeskTypeOK
<1>1. ASSUME \A c \in DOMAIN erasedWith' : IsGone(c)' PROVE ErasedIsGone'
  BY <1>1 DEF ErasedIsGone, IsGone
<1>2. ASSUME UNCHANGED erasedWith,
             \A c \in DOMAIN erasedWith :
               customers'[c].name = customers[c].name /\ customers'[c].email = customers[c].email,
             DOMAIN tickets' = DOMAIN tickets,
             \A t \in DOMAIN tickets : tickets'[t].customer = tickets[t].customer
      PROVE  ErasedIsGone'
  <2>1. ASSUME NEW c \in DOMAIN erasedWith PROVE IsGone(c)'
    <3>1. \A t \in TicketsOf(c)' : t \in TicketsOf(c)
      BY <1>2 DEF TicketsOf
    <3> QED
      BY <1>0, <1>2, <3>1, GoneKept
  <2> QED
    BY <1>1, <1>2, <2>1
<1>3. ASSUME NEW r \in Request, Update(r) PROVE ErasedIsGone'
  <2>0. PICK id : id = request[r].id
    OBVIOUS
  <2>1. id \in DOMAIN customers
    BY <1>3, <2>0, SlotFields DEF RefersToRows, Update
  <2>2. /\ \A c \in DOMAIN customers \ {id} : customers'[c] = customers[c]
        /\ customers[id].deleted => <<"update", id>> \in late'
        /\ UNCHANGED <<tickets, erasedWith>>
    BY <1>3, <2>0, <2>1 DEF Update, Late
  <2>3. ASSUME NEW c \in DOMAIN erasedWith PROVE IsGone(c)'
    <3>1. \A t \in TicketsOf(c)' : t \in TicketsOf(c)
      BY <2>2 DEF TicketsOf
    <3>2. c = id \/ customers'[c] = customers[c]
      BY <1>0, <2>2
    <3>3. c = id => <<"update", c>> \in late'
      BY <1>0, <2>2
    <3> QED
      BY <1>0, <2>2, <3>1, <3>2, <3>3, GoneKept
  <2> QED
    BY <1>1, <2>2, <2>3
<1>4. ASSUME NEW r \in Request, Remove(r) PROVE ErasedIsGone'
  <2>0. PICK id : id = request[r].id
    OBVIOUS
  <2>1. id \in DOMAIN customers /\ customers[id] \in CustomerRow
    BY <1>4, <2>0, SlotFields, RowFields DEF RefersToRows, Remove
  <2>2. /\ customers' = [customers EXCEPT ![id] = Erased(customers[id])] /\ UNCHANGED tickets
        /\ erasedWith' = IF Active(id) THEN Insert(erasedWith, id, TicketsOf(id)) ELSE erasedWith
    BY <1>4, <2>0 DEF Remove
  <2>3. customers'[id].name = Redacted /\ customers'[id].email = null
    BY <2>1, <2>2, ErasedRow
  <2>4. \A c : TicketsOf(c)' = TicketsOf(c)
    BY <2>2 DEF TicketsOf
  <2>5. /\ DOMAIN erasedWith' = DOMAIN erasedWith \cup {id}
        /\ \A c \in DOMAIN erasedWith \ {id} : erasedWith'[c] = erasedWith[c]
        /\ erasedWith'[id] = TicketsOf(id) \/ (id \in DOMAIN erasedWith /\ erasedWith' = erasedWith)
    <3>1. CASE Active(id)
      <4>1. erasedWith' = Insert(erasedWith, id, TicketsOf(id))
        BY <2>2, <3>1
      <4> QED
        BY <4>1 DEF Insert
    <3>2. CASE ~Active(id)
      BY <1>0, <2>1, <2>2, <3>2 DEF Active
    <3> QED
      BY <3>1, <3>2 DEF Active
  <2>6. IsGone(id)'
    <3>1. CASE erasedWith'[id] = TicketsOf(id)
      BY <2>3, <2>4, <3>1 DEF IsGone
    <3>2. CASE id \in DOMAIN erasedWith /\ erasedWith' = erasedWith
      BY <1>0, <2>3, <2>4, <3>2 DEF IsGone, Grows
    <3> QED
      BY <2>5, <3>1, <3>2
  <2>7. ASSUME NEW c \in DOMAIN erasedWith, c # id PROVE IsGone(c)'
    <3>1. customers'[c] = customers[c] /\ erasedWith'[c] = erasedWith[c]
      BY <1>0, <2>2, <2>5, <2>7
    <3> QED
      BY <1>0, <2>4, <3>1, GoneKept
  <2> QED
    BY <1>1, <2>5, <2>6, <2>7
<1>5. ASSUME NEW a \in Address, Flag(a) PROVE ErasedIsGone'
  <2>1. \A c \in DOMAIN customers : \/ customers'[c] = customers[c]
                                    \/ customers'[c] = [customers[c] EXCEPT !.flagged = TRUE]
    BY <1>5 DEF Flag
  <2>2. \A c \in DOMAIN customers :
          customers'[c].name = customers[c].name /\ customers'[c].email = customers[c].email
    BY <2>1, RowFields DEF CustomerRow
  <2> QED
    BY <1>0, <1>2, <1>5, <2>2 DEF Flag
<1>6. ASSUME NEW r \in Request, NEW t \in Ticket, NEW at \in Stamp, NEW title \in Titles,
             NEW k \in Customer, tickets' = Insert(tickets, t, NewTicket(k, at, title)),
             k \in DOMAIN erasedWith => <<"create", t>> \in late',
             \A c \in DOMAIN customers : customers'[c] = customers[c], UNCHANGED erasedWith
      PROVE  ErasedIsGone'
  <2>1. ASSUME NEW c \in DOMAIN erasedWith PROVE IsGone(c)'
    <3>1. /\ DOMAIN tickets' = DOMAIN tickets \cup {t} /\ tickets'[t].customer = k
          /\ \A s \in DOMAIN tickets \ {t} : tickets'[s] = tickets[s]
      BY <1>6, NewTicketRow DEF Insert
    <3>2. \A s \in TicketsOf(c)' : s \in TicketsOf(c) \/ <<"create", s>> \in late'
      BY <1>6, <3>1 DEF TicketsOf
    <3> QED
      BY <1>0, <1>6, <3>2, GoneKept
  <2> QED
    BY <1>1, <1>6, <2>1
<1>7. ASSUME NEW r \in Request, NEW c \in Customer, NEW dto \in Arrivals, NEW t \in Ticket,
             NEW at \in Stamp, NEW title \in Titles, CreateWithCustomer(r, c, dto, t, at, title)
      PROVE  ErasedIsGone'
  <2>1. c \notin DOMAIN erasedWith /\ \A k \in DOMAIN customers : customers'[k] = customers[k]
    BY <1>0, <1>7 DEF CreateWithCustomer, Insert
  <2> QED
    BY <1>6, <1>7, <2>1 DEF CreateWithCustomer
<1>8. ASSUME NEW r \in Request, NEW t \in Ticket, NEW at \in Stamp, NEW title \in Titles,
             Create(r, t, at, title)
      PROVE  ErasedIsGone'
  <2>1. request[r].id \in Customer /\ request[r].active
    BY <1>8, SlotFields, RequestFields DEF Create, ErasedInv, CreatesFoundActive
  <2>2. ~Active(request[r].id) => <<"create", t>> \in late'
    BY <1>8, <2>1 DEF Create, Late
  <2>3. request[r].id \in DOMAIN erasedWith => ~Active(request[r].id)
    BY <1>0 DEF Active
  <2> QED
    BY <1>6, <1>8, <2>1, <2>2, <2>3 DEF Create
<1>9. ASSUME \/ \E r \in Request, t \in Ticket : \/ \E title \in Text : UpdateTicket(r, t, title)
                                                \/ \E status \in Step : MoveTicket(r, t, status)
             \/ \E t \in DOMAIN tickets : Age(t)
      PROVE  ErasedIsGone'
  <2>1. DOMAIN tickets' = DOMAIN tickets /\ UNCHANGED <<customers, erasedWith>>
    BY <1>9 DEF UpdateTicket, MoveTicket, Age
  <2> QED
    BY <1>0, <1>2, <2>1 DEF Grows
<1>10. ASSUME \/ UNCHANGED deskVars
              \/ \E r \in Request :
                   \/ \E c \in Customer : \/ \E dto \in Updates : DecideUpdate(r, c, dto)
                                          \/ DecideRemove(r, c) \/ DecideCreate(r, c)
                   \/ \E t \in Ticket : AdmitResend(r, t)
                   \/ LoadCreated(r) \/ LoadResend(r) \/ Fail(r)
              \/ \E r \in Request, m \in Mail : WriteMail(r, m)
              \/ \E m \in DOMAIN mails : SendMail(m) \/ DropMail(m)
              \/ RemoveLocation
       PROVE  ErasedIsGone'
  <2>1. UNCHANGED <<customers, tickets, erasedWith>>
    BY <1>10 DEF deskVars, DecideUpdate, DecideRemove, DecideCreate, AdmitResend, LoadCreated, LoadResend,
       Load, Fail, WriteMail, SendMail, DropMail, RemoveLocation
  <2> QED
    BY <1>2, <2>1
<1> QED
  BY <1>3, <1>4, <1>5, <1>7, <1>8, <1>9, <1>10, StepCases

\* At first nobody is erased, and no request runs.
LEMMA ErasedInit == DeskInit => ErasedInv
<1> SUFFICES ASSUME DeskInit PROVE ErasedInv
  OBVIOUS
<1>1. DOMAIN erasedWith = {} /\ \A r \in Request : request[r].op = "none"
  BY EmptyTable, IdleTyped DEF DeskInit
<1> QED
  BY <1>1 DEF ErasedInv, ErasedIsGone, CreatesFoundActive

\* What erasure promises is inductive, once a create is known to have found
\* its customer active.
THEOREM ErasedInvariant == DeskSpec => []ErasedInv
<1>1. DeskTypeOK /\ ErasedInv /\ [DeskNext]_deskVars => ErasedInv'
  BY ErasedStep, CreatesKept DEF ErasedInv
<1> QED
  BY <1>1, ErasedInit, DeskTypes, PTL DEF DeskSpec

\* An erased customer's data are gone and no ticket is made for them, but by
\* an update or a create that found them before and wrote afterwards.
THEOREM TheErasedAreGone == DeskSpec => []ErasedIsGone
<1>1. ErasedInv => ErasedIsGone
  BY DEF ErasedInv
<1> QED
  BY <1>1, ErasedInvariant, PTL

-----------------------------------------------------------------------------
(* Tracking-link emails.                                                   *)

\* An email about t to this address, under this name, may go astray only
\* where the property allows it.
Excused(name, t, to) ==
  InOrder(t, to) \/ name \in overtaken \/ BroughtBack(tickets[t].customer)

\* Emails on their way.
OnItsWay == \A e \in OnTheWay : Excused(e[1], e[2], e[3])

\* Requests that have not yet decided to write one: a ticket just made has
\* a working link, and the location's deletion has overtaken them all.
WillLoad ==
  \A r \in Request :
    /\ request[r].op = "created" => ~isTrackingLinkExpired(request[r].id)
    /\ closed /\ request[r].op \in {"create", "created", "resend", "send"} => r \in overtaken

EmailInv == OnItsWay /\ WillLoad /\ StrayMailWasOvertaken

\* The emails on their way, and what is known of one, before a step and after it.
LEMMA OnTheWayMeans ==
  /\ \A name, t, to : <<name, t, to>> \in OnTheWay <=>
       \/ name \in Request /\ request[name].op = "send" /\ t = request[name].id /\ to = request[name].to
       \/ name \in DOMAIN mails /\ mails[name].state = "open" /\ t = mails[name].ticket /\ to = mails[name].to
  /\ OnItsWay <=> \A name, t, to : <<name, t, to>> \in OnTheWay => Excused(name, t, to)
<1>1. \A name, t, to : <<name, t, to>> \in OnTheWay <=>
       \/ name \in Request /\ request[name].op = "send" /\ t = request[name].id /\ to = request[name].to
       \/ name \in DOMAIN mails /\ mails[name].state = "open" /\ t = mails[name].ticket /\ to = mails[name].to
  BY DEF OnTheWay
<1>2. \A e \in OnTheWay : e = <<e[1], e[2], e[3]>>
  BY DEF OnTheWay
<1>3. \A name, t, to : <<name, t, to>>[1] = name /\ <<name, t, to>>[2] = t /\ <<name, t, to>>[3] = to
  OBVIOUS
<1>4. ASSUME OnItsWay, NEW name, NEW t, NEW to, <<name, t, to>> \in OnTheWay PROVE Excused(name, t, to)
  <2>1. PICK e : e = <<name, t, to>>
    OBVIOUS
  <2>2. Excused(e[1], e[2], e[3]) /\ e[1] = name /\ e[2] = t /\ e[3] = to
    BY <1>4, <2>1 DEF OnItsWay
  <2> QED
    BY <2>2
<1>5. ASSUME \A name, t, to : <<name, t, to>> \in OnTheWay => Excused(name, t, to)
      PROVE  OnItsWay
  BY <1>2, <1>5 DEF OnItsWay
<1> QED
  BY <1>1, <1>4, <1>5

\* An email on its way is about a ticket that is there.
LEMMA OnTheWayRows ==
  ASSUME DeskTypeOK, NEW name, NEW t, NEW to, <<name, t, to>> \in OnTheWay
  PROVE  /\ t \in DOMAIN tickets /\ tickets[t].customer \in DOMAIN customers
         /\ name \in Request \/ name \in DOMAIN mails
BY OnTheWayMeans, SlotFields, RowFields DEF RefersToRows

\* Whether an email is in order depends on its ticket, its customer and the
\* location.
LEMMA InOrderKept ==
  ASSUME NEW t, NEW to, closed' = closed, customers'[tickets[t].customer] = customers[tickets[t].customer],
         tickets'[t].customer = tickets[t].customer, tickets'[t].status = tickets[t].status,
         tickets'[t].since = tickets[t].since
  PROVE  /\ InOrder(t, to)' <=> InOrder(t, to)
         /\ isTrackingLinkExpired(t)' <=> isTrackingLinkExpired(t)
BY DEF InOrder, LinkWorks, isTrackingLinkExpired

\* An email stays excused while it stays in order or is overtaken.
LEMMA ExcusedKept ==
  ASSUME DeskTypeOK, Grows, NEW name, NEW t \in DOMAIN tickets, NEW to, Excused(name, t, to),
         InOrder(t, to) => InOrder(t, to)' \/ name \in overtaken',
         name \in overtaken => name \in overtaken'
  PROVE  Excused(name, t, to)'
<1>1. BroughtBack(tickets[t].customer) => BroughtBack(tickets[t].customer)'
  <2>1. tickets[t].customer \in DOMAIN customers /\ tickets'[t].customer = tickets[t].customer
    BY RowFields DEF Grows
  <2> QED
    BY <2>1 DEF BroughtBack, Grows
<1> QED
  BY <1>1 DEF Excused

\* Those that went astray stay excused.
LEMMA StrayKept ==
  ASSUME DeskTypeOK, Grows, StrayMailWasOvertaken,
         \A m \in DOMAIN mails : m \in overtaken => m \in overtaken',
         \A m \in DOMAIN mails' : mails'[m].state = "strayed" => m \in DOMAIN mails /\ mails'[m] = mails[m]
  PROVE  StrayMailWasOvertaken'
<1>1. ASSUME NEW m \in DOMAIN mails', mails'[m].state = "strayed"
      PROVE  m \in overtaken' \/ BroughtBack(tickets[mails[m].ticket].customer)'
  <2>1. m \in DOMAIN mails /\ mails'[m] = mails[m] /\ mails[m].state = "strayed"
    BY <1>1
  <2>2. PICK c : c = tickets[mails[m].ticket].customer
    OBVIOUS
  <2>3. c \in DOMAIN customers /\ tickets'[mails'[m].ticket].customer = c
    BY <2>1, <2>2, RowFields DEF Grows
  <2>4. m \in overtaken \/ BroughtBack(c)
    BY <2>1, <2>2 DEF StrayMailWasOvertaken
  <2>5. BroughtBack(c) => BroughtBack(c)'
    BY <2>3 DEF BroughtBack, Grows
  <2>6. BroughtBack(c)' => BroughtBack(tickets[mails[m].ticket].customer)'
    BY <2>3 DEF BroughtBack
  <2> QED
    BY <2>1, <2>4, <2>5, <2>6
<1> QED
  BY <1>1 DEF StrayMailWasOvertaken

\* The same after a step.
LEMMA OnTheWayMeansThen ==
  (OnItsWay <=> \A name, t, to : <<name, t, to>> \in OnTheWay => Excused(name, t, to))'
BY OnTheWayMeans, PTL

\* A step that decides on no email and writes none keeps what is known of
\* them, if it marks those it overtakes, and leaves the slots as they are or
\* with nothing but a ticket just made to account for.
LEMMA EmailKept ==
  ASSUME DeskTypeOK, Grows, EmailInv, UNCHANGED <<mails, closed>>,
         \A m \in DOMAIN mails : m \in overtaken => m \in overtaken',
         \A s \in Request :
           \/ request'[s] = request[s] /\ (s \in overtaken => s \in overtaken')
           \/ /\ request'[s].op # "send"
              /\ (request[s].op = "created" => ~isTrackingLinkExpired(request[s].id))'
              /\ closed /\ request'[s].op \in {"create", "created", "resend"} => s \in overtaken',
         \A name, t, to : <<name, t, to>> \in OnTheWay /\ InOrder(t, to)
                            => InOrder(t, to)' \/ name \in overtaken',
         \A t \in DOMAIN tickets :
           [op |-> "created", id |-> t] \in {request[r] : r \in Request} /\ ~isTrackingLinkExpired(t)
             => ~isTrackingLinkExpired(t)'
  PROVE  EmailInv'
<1>1. StrayMailWasOvertaken'
  BY StrayKept DEF EmailInv
<1>2. OnItsWay'
  <2>1. ASSUME NEW name, NEW t, NEW to, <<name, t, to>> \in OnTheWay, <<name, t, to>> \in OnTheWay',
               Excused(name, t, to)
        PROVE  Excused(name, t, to)'
    <3>1. t \in DOMAIN tickets
      BY <2>1, OnTheWayRows
    <3>2. name \in overtaken => name \in overtaken'
      <4>1. CASE name \in DOMAIN mails
        BY <4>1
      <4>2. CASE name \in Request /\ name \notin DOMAIN mails
        BY <2>1, <4>2 DEF OnTheWay
      <4> QED
        BY <2>1, <4>1, <4>2, OnTheWayRows
    <3> QED
      BY <2>1, <3>1, <3>2, ExcusedKept
  <2>2. ASSUME NEW name, NEW t, NEW to, <<name, t, to>> \in OnTheWay' PROVE Excused(name, t, to)'
    <3>1. <<name, t, to>> \in OnTheWay
      BY <2>2 DEF OnTheWay
    <3> QED
      BY <2>1, <2>2, <3>1, OnTheWayMeans DEF EmailInv
  <2> QED
    BY <2>2, OnTheWayMeansThen
<1>3. WillLoad'
  <2>1. ASSUME NEW s \in Request
        PROVE  /\ (request[s].op = "created" => ~isTrackingLinkExpired(request[s].id))'
               /\ closed' /\ request'[s].op \in {"create", "created", "resend", "send"} => s \in overtaken'
    <3>1. CASE request'[s] = request[s] /\ (s \in overtaken => s \in overtaken')
      <4>1. ASSUME request[s].op = "created" PROVE ~isTrackingLinkExpired(request[s].id)'
        <5>1. PICK t : t = request[s].id
          OBVIOUS
        <5>2. request[s] = [op |-> "created", id |-> t] /\ t \in DOMAIN tickets
          BY <4>1, <5>1, SlotFields, RequestFields DEF RefersToRows
        <5>3. ~isTrackingLinkExpired(t)
          BY <4>1, <5>1 DEF EmailInv, WillLoad
        <5>4. ~isTrackingLinkExpired(t)'
          BY <5>2, <5>3
        <5> QED
          BY <3>1, <5>1, <5>4 DEF isTrackingLinkExpired
      <4> QED
        BY <3>1, <4>1 DEF EmailInv, WillLoad
    <3>2. CASE ~(request'[s] = request[s] /\ (s \in overtaken => s \in overtaken'))
      BY <3>2
    <3> QED
      BY <3>1, <3>2
  <2> QED
    BY <2>1 DEF WillLoad
<1> QED
  BY <1>1, <1>2, <1>3 DEF EmailInv

\* No name is both a request's and an email's.
LEMMA NamesApart == ASSUME DeskTypeOK, NEW r \in Request PROVE r \notin DOMAIN mails
BY DeskAssumption DEF DeskTypeOK

\* A step that changes no customer, no row of a ticket and not the location.
LEMMA NothingOvertaken ==
  ASSUME DeskTypeOK, closed' = closed,
         \A c \in DOMAIN customers : customers'[c] = customers[c],
         \A t \in DOMAIN tickets : /\ tickets'[t].customer = tickets[t].customer
                                   /\ tickets'[t].status = tickets[t].status
                                   /\ tickets'[t].since = tickets[t].since
  PROVE  /\ \A name, t, to : <<name, t, to>> \in OnTheWay => (InOrder(t, to)' <=> InOrder(t, to))
         /\ \A t \in DOMAIN tickets : isTrackingLinkExpired(t)' <=> isTrackingLinkExpired(t)
BY OnTheWayRows, InOrderKept, RowFields

\* Requests that read, but for those that decide on an email, and those that fail.
LEMMA EmailReads ==
  ASSUME DeskTypeOK, Grows, EmailInv, NEW r \in Request, NEW state,
         UNCHANGED tables, request' = [request EXCEPT ![r] = state],
         \/ state.op \notin {"created", "send"} /\ ~closed /\ UNCHANGED overtaken
         \/ state = Idle /\ overtaken' = overtaken \ {r}
  PROVE  EmailInv'
<1>1. UNCHANGED <<customers, tickets, mails, closed>>
  BY DEF tables
<1>2. \A m \in DOMAIN mails : m \in overtaken => m \in overtaken'
  BY NamesApart
<1>3. ASSUME NEW s \in Request
      PROVE  \/ request'[s] = request[s] /\ (s \in overtaken => s \in overtaken')
             \/ /\ request'[s].op # "send"
                /\ (request[s].op = "created" => ~isTrackingLinkExpired(request[s].id))'
                /\ closed /\ request'[s].op \in {"create", "created", "resend"} => s \in overtaken'
  <2>1. CASE s = r
    <3>1. request'[s] = state /\ state.op \notin {"created", "send"}
      BY <2>1, IdleTyped DEF DeskTypeOK
    <3>2. closed /\ request'[s].op \in {"create", "created", "resend"} => s \in overtaken'
      BY <3>1, IdleTyped
    <3> QED
      BY <3>1, <3>2
  <2>2. CASE s # r
    BY <2>2 DEF DeskTypeOK
  <2> QED
    BY <2>1, <2>2
<1>4. /\ \A name, t, to : <<name, t, to>> \in OnTheWay => (InOrder(t, to)' <=> InOrder(t, to))
      /\ \A t \in DOMAIN tickets : isTrackingLinkExpired(t)' <=> isTrackingLinkExpired(t)
  BY <1>1, NothingOvertaken
<1> QED
  BY <1>1, <1>2, <1>3, <1>4, EmailKept

\* A decision on an email: its customer can be emailed, and either they are
\* not erased and the link works, or it was overtaken, or they were erased
\* and brought back.
LEMMA EmailLoads ==
  ASSUME DeskTypeOK, Grows, ErasedIsGone, EmailInv, NEW r \in Request, LoadCreated(r) \/ LoadResend(r)
  PROVE  EmailInv'
<1>0. Load(r) /\ request[r].op \in {"created", "resend"}
      /\ (request[r].op = "resend" => ~isTrackingLinkExpired(request[r].id))
  BY DEF LoadCreated, LoadResend, MayResend
<1>1. PICK t : t = request[r].id
  OBVIOUS
<1>2. PICK c : c = tickets[t].customer
  OBVIOUS
<1>3. t \in DOMAIN tickets /\ c \in DOMAIN customers /\ customers[c] \in CustomerRow
  BY <1>0, <1>1, <1>2, SlotFields, RowFields DEF RefersToRows
<1>4. CASE ~canEmail(c)
  <2>1. GoOn(r, Idle) /\ overtaken' = overtaken \ {r} /\ UNCHANGED tables
    BY <1>0, <1>1, <1>2, <1>4 DEF Load, tables
  <2> QED
    BY <2>1, EmailReads DEF GoOn
<1>5. CASE canEmail(c)
  <2>1. PICK to : to = customers[c].email
    OBVIOUS
  <2>2. /\ request' = [request EXCEPT ![r] = [op |-> "send", id |-> t, to |-> to]]
        /\ UNCHANGED <<customers, tickets, mails, closed, overtaken>>
    BY <1>0, <1>1, <1>2, <1>5, <2>1 DEF Load, GoOn
  <2>3. request'[r] = [op |-> "send", id |-> t, to |-> to]
        /\ \A s \in Request \ {r} : request'[s] = request[s]
    BY <2>2 DEF DeskTypeOK
  <2>4. Excused(r, t, to)
    <3>1. CASE customers[c].deleted
      <4>1. c \in DOMAIN erasedWith /\ customers[c].email # null
        BY <1>3, <1>5, <3>1 DEF DeskTypeOK, canEmail
      <4>2. <<"update", c>> \in late
        BY <4>1 DEF ErasedIsGone
      <4> QED
        BY <1>2, <3>1, <4>2 DEF Excused, BroughtBack
    <3>2. CASE ~customers[c].deleted
      <4>1. closed => r \in overtaken
        BY <1>0 DEF EmailInv, WillLoad
      <4>2. ~isTrackingLinkExpired(t)
        BY <1>0, <1>1 DEF EmailInv, WillLoad
      <4>3. ~closed => InOrder(t, to)
        BY <1>2, <1>5, <2>1, <3>2, <4>2 DEF InOrder, LinkWorks, canEmail
      <4> QED
        BY <4>1, <4>3 DEF Excused, DeskTypeOK
    <3> QED
      BY <3>1, <3>2
  <2>5. \A k \in DOMAIN tickets : \A a : InOrder(k, a)' <=> InOrder(k, a)
    BY <2>2, InOrderKept
  <2>6. ASSUME NEW name, NEW k, NEW a, <<name, k, a>> \in OnTheWay' PROVE Excused(name, k, a)'
    <3>1. (name = r /\ k = t /\ a = to) \/ <<name, k, a>> \in OnTheWay
      BY <2>2, <2>3, <2>6 DEF OnTheWay
    <3>2. Excused(name, k, a) /\ k \in DOMAIN tickets
      BY <1>3, <2>4, <3>1, OnTheWayMeans, OnTheWayRows DEF EmailInv
    <3> QED
      BY <2>2, <2>5, <3>2, ExcusedKept
  <2>7. OnItsWay'
    BY <2>6, OnTheWayMeansThen
  <2>8. WillLoad'
    <3>1. \A k \in DOMAIN tickets : isTrackingLinkExpired(k)' <=> isTrackingLinkExpired(k)
      BY <2>2 DEF isTrackingLinkExpired
    <3>2. ASSUME NEW s \in Request
          PROVE  /\ (request[s].op = "created" => ~isTrackingLinkExpired(request[s].id))'
                 /\ closed' /\ request'[s].op \in {"create", "created", "resend", "send"} => s \in overtaken'
      <4>1. CASE s = r
        BY <1>0, <2>2, <2>3, <4>1 DEF EmailInv, WillLoad
      <4>2. CASE s # r
        BY <2>2, <2>3, <4>2 DEF EmailInv, WillLoad, isTrackingLinkExpired
      <4> QED
        BY <4>1, <4>2
    <3> QED
      BY <3>2 DEF WillLoad
  <2>9. StrayMailWasOvertaken'
    BY <2>2, StrayKept DEF EmailInv
  <2> QED
    BY <2>7, <2>8, <2>9 DEF EmailInv
<1> QED
  BY <1>4, <1>5

\* An email written is excused where its request was.
LEMMA EmailWrites ==
  ASSUME DeskTypeOK, Grows, EmailInv, NEW r \in Request, NEW m \in Mail, WriteMail(r, m)
  PROVE  EmailInv'
<1>1. PICK t, to : t = request[r].id /\ to = request[r].to
  OBVIOUS
<1>2. /\ request[r].op = "send" /\ m \notin DOMAIN mails
      /\ mails' = Insert(mails, m, [ticket |-> t, to |-> to, state |-> "open"])
      /\ overtaken' = (overtaken \ {r}) \cup {k \in {m} : r \in overtaken}
      /\ request' = [request EXCEPT ![r] = Idle]
      /\ UNCHANGED <<customers, tickets, closed>>
  BY <1>1 DEF WriteMail, GoOn
<1>3. /\ DOMAIN mails' = DOMAIN mails \cup {m} /\ mails'[m] = [ticket |-> t, to |-> to, state |-> "open"]
      /\ \A k \in DOMAIN mails : mails'[k] = mails[k]
  BY <1>2 DEF Insert
<1>4. request'[r] = Idle /\ \A s \in Request \ {r} : request'[s] = request[s]
  BY <1>2 DEF DeskTypeOK
<1>5. Excused(r, t, to) /\ t \in DOMAIN tickets
  <2>1. <<r, t, to>> \in OnTheWay
    BY <1>1, <1>2, OnTheWayMeans
  <2> QED
    BY <2>1, OnTheWayMeans, OnTheWayRows DEF EmailInv
<1>6. \A k \in DOMAIN tickets : \A a : InOrder(k, a)' <=> InOrder(k, a)
  BY <1>2, InOrderKept
<1>7. Excused(m, t, to)'
  <2>1. BroughtBack(tickets[t].customer) => BroughtBack(tickets[t].customer)'
    BY <1>2, <1>5, RowFields DEF BroughtBack, Grows
  <2>2. r \in overtaken => m \in overtaken'
    BY <1>2
  <2> QED
    BY <1>5, <1>6, <2>1, <2>2 DEF Excused
<1>8. ASSUME NEW name, NEW k, NEW a, <<name, k, a>> \in OnTheWay' PROVE Excused(name, k, a)'
  <2>1. (name = m /\ k = t /\ a = to) \/ (<<name, k, a>> \in OnTheWay /\ name # r)
    <3>1. CASE name \in Request /\ name # r /\ <<name, k, a>> \in OnTheWay
      BY <3>1
    <3>2. CASE name \in DOMAIN mails' /\ mails'[name].state = "open"
               /\ k = mails'[name].ticket /\ a = mails'[name].to
      BY <1>3, <3>2, NamesApart, OnTheWayMeans
    <3> QED
      BY <1>4, <1>8, <3>1, <3>2, IdleTyped DEF OnTheWay
  <2>2. CASE <<name, k, a>> \in OnTheWay /\ name # r
    <3>1. Excused(name, k, a) /\ k \in DOMAIN tickets
      BY <2>2, OnTheWayMeans, OnTheWayRows DEF EmailInv
    <3> QED
      BY <1>2, <1>6, <2>2, <3>1, ExcusedKept
  <2> QED
    BY <1>7, <2>1, <2>2
<1>9. OnItsWay'
  BY <1>8, OnTheWayMeansThen
<1>10. WillLoad'
  <2>1. ASSUME NEW s \in Request
        PROVE  /\ (request[s].op = "created" => ~isTrackingLinkExpired(request[s].id))'
               /\ closed' /\ request'[s].op \in {"create", "created", "resend", "send"} => s \in overtaken'
    <3>1. CASE s = r
      BY <1>4, <3>1, IdleTyped
    <3>2. CASE s # r
      BY <1>2, <1>4, <3>2 DEF EmailInv, WillLoad, isTrackingLinkExpired
    <3> QED
      BY <3>1, <3>2
  <2> QED
    BY <2>1 DEF WillLoad
<1>11. StrayMailWasOvertaken'
  <2>1. \A k \in DOMAIN mails : k \in overtaken => k \in overtaken'
    BY <1>2, NamesApart
  <2>2. \A k \in DOMAIN mails' : mails'[k].state = "strayed" => k \in DOMAIN mails /\ mails'[k] = mails[k]
    BY <1>3
  <2> QED
    BY <2>1, <2>2, StrayKept DEF EmailInv
<1> QED
  BY <1>9, <1>10, <1>11 DEF EmailInv

\* An email sent goes astray only if it is not in order; one given up, never.
LEMMA EmailEnds ==
  ASSUME DeskTypeOK, Grows, EmailInv, NEW m \in DOMAIN mails, SendMail(m) \/ DropMail(m)
  PROVE  EmailInv'
<1>1. /\ mails[m].state = "open"
      /\ UNCHANGED <<customers, tickets, closed, request, overtaken>>
      /\ \/ mails' = [mails EXCEPT ![m].state = "dropped"]
         \/ mails' = [mails EXCEPT ![m].state = "sent"]
         \/ mails' = [mails EXCEPT ![m].state = "strayed"] /\ ~InOrder(mails[m].ticket, mails[m].to)
  BY DEF SendMail, DropMail
<1>2. /\ DOMAIN mails' = DOMAIN mails /\ \A k \in DOMAIN mails \ {m} : mails'[k] = mails[k]
      /\ mails'[m].state # "open" /\ mails'[m].ticket = mails[m].ticket
      /\ mails'[m].state = "strayed" => ~InOrder(mails[m].ticket, mails[m].to)
  BY <1>1, RowFields DEF MailRow
<1>3. \A k \in DOMAIN tickets : \A a : InOrder(k, a)' <=> InOrder(k, a)
  BY <1>1, InOrderKept
<1>4. ASSUME NEW name, NEW k, NEW a, <<name, k, a>> \in OnTheWay' PROVE Excused(name, k, a)'
  <2>1. <<name, k, a>> \in OnTheWay
    BY <1>1, <1>2, <1>4 DEF OnTheWay
  <2>2. Excused(name, k, a) /\ k \in DOMAIN tickets
    BY <2>1, OnTheWayMeans, OnTheWayRows DEF EmailInv
  <2> QED
    BY <1>1, <1>3, <2>2, ExcusedKept
<1>5. OnItsWay'
  BY <1>4, OnTheWayMeansThen
<1>6. WillLoad'
  BY <1>1 DEF EmailInv, WillLoad, isTrackingLinkExpired
<1>7. StrayMailWasOvertaken'
  <2>1. ASSUME NEW k \in DOMAIN mails', mails'[k].state = "strayed"
        PROVE  k \in overtaken' \/ BroughtBack(tickets[mails[k].ticket].customer)'
    <3>1. k \in overtaken \/ BroughtBack(tickets[mails[k].ticket].customer)
      <4>1. CASE k = m
        <5>1. PICK t, to : t = mails[m].ticket /\ to = mails[m].to
          OBVIOUS
        <5>2. <<m, t, to>> \in OnTheWay
          BY <1>1, <5>1, OnTheWayMeans
        <5>3. Excused(m, t, to) /\ ~InOrder(t, to)
          BY <1>2, <2>1, <4>1, <5>1, <5>2, OnTheWayMeans DEF EmailInv
        <5> QED
          BY <4>1, <5>1, <5>3 DEF Excused
      <4>2. CASE k # m
        BY <1>2, <2>1, <4>2 DEF EmailInv, StrayMailWasOvertaken
      <4> QED
        BY <4>1, <4>2
    <3>2. PICK c : c = tickets[mails[k].ticket].customer
      OBVIOUS
    <3>3. tickets'[mails'[k].ticket].customer = c /\ c \in DOMAIN customers
      BY <1>1, <1>2, <2>1, <3>2, RowFields
    <3>4. BroughtBack(c) => BroughtBack(tickets[mails[k].ticket].customer)'
      BY <3>3 DEF BroughtBack, Grows
    <3> QED
      BY <1>1, <3>1, <3>2, <3>4
  <2> QED
    BY <2>1 DEF StrayMailWasOvertaken
<1> QED
  BY <1>5, <1>6, <1>7 DEF EmailInv

\* The location's deletion overtakes every email on its way.
LEMMA EmailCloses == ASSUME DeskTypeOK, Grows, EmailInv, RemoveLocation PROVE EmailInv'
<1>1. /\ UNCHANGED <<customers, tickets, mails, request>>
      /\ overtaken' = overtaken
           \cup {r \in Request : request[r].op \in {"create", "created", "resend", "send"}}
           \cup {m \in DOMAIN mails : mails[m].state = "open"}
  BY DEF RemoveLocation
<1>2. ASSUME NEW name, NEW t, NEW to, <<name, t, to>> \in OnTheWay' PROVE Excused(name, t, to)'
  <2>1. <<name, t, to>> \in OnTheWay
    BY <1>1, <1>2 DEF OnTheWay
  <2>2. name \in overtaken'
    BY <1>1, <2>1, OnTheWayMeans
  <2> QED
    BY <2>2 DEF Excused
<1>3. OnItsWay'
  BY <1>2, OnTheWayMeansThen
<1>4. WillLoad'
  BY <1>1 DEF EmailInv, WillLoad, isTrackingLinkExpired
<1>5. StrayMailWasOvertaken'
  BY <1>1, StrayKept DEF EmailInv
<1> QED
  BY <1>3, <1>4, <1>5 DEF EmailInv

\* Writes to customers overtake the emails they make wrong.
LEMMA EmailCustomers ==
  ASSUME DeskTypeOK, Grows, EmailInv,
         \/ \E r \in Request : Update(r) \/ Remove(r)
         \/ \E a \in Address : Flag(a)
  PROVE  EmailInv'
<1>1. Overtake /\ UNCHANGED <<tickets, mails, closed>>
  BY DEF Update, Remove, Flag
<1>2. \A s \in Request : request'[s] = request[s] \/ request'[s] = Idle
  <2>1. ASSUME NEW r \in Request, Update(r) \/ Remove(r) PROVE <1>2
    BY <2>1 DEF Update, Remove, GoOn, DeskTypeOK
  <2>2. ASSUME NEW a \in Address, Flag(a) PROVE <1>2
    BY <2>2 DEF Flag
  <2> QED
    BY <2>1, <2>2
<1>3. \A t \in DOMAIN tickets : isTrackingLinkExpired(t)' <=> isTrackingLinkExpired(t)
  BY <1>1 DEF isTrackingLinkExpired
<1>4. ASSUME NEW s \in Request
      PROVE  \/ request'[s] = request[s] /\ (s \in overtaken => s \in overtaken')
             \/ /\ request'[s].op # "send"
                /\ (request[s].op = "created" => ~isTrackingLinkExpired(request[s].id))'
                /\ closed /\ request'[s].op \in {"create", "created", "resend"} => s \in overtaken'
  <2>1. CASE request'[s] = request[s]
    BY <1>1, <2>1, Overtaking
  <2>2. CASE request'[s] = Idle
    BY <2>2, IdleTyped
  <2> QED
    BY <1>2, <2>1, <2>2
<1>5. /\ \A m \in DOMAIN mails : m \in overtaken => m \in overtaken'
      /\ \A name, t, to : <<name, t, to>> \in OnTheWay /\ InOrder(t, to)
                            => InOrder(t, to)' \/ name \in overtaken'
  BY <1>1, Overtaking
<1> QED
  BY <1>1, <1>3, <1>4, <1>5, EmailKept

\* A ticket just made has a working link, for as long as the location is there.
LEMMA EmailCreates ==
  ASSUME DeskTypeOK, Grows, EmailInv, NEW r \in Request, NEW t \in Ticket, NEW at \in Stamp,
         NEW title \in Titles,
         \/ \E c \in Customer, dto \in Arrivals : CreateWithCustomer(r, c, dto, t, at, title)
         \/ Create(r, t, at, title)
  PROVE  EmailInv'
<1>1. PICK c \in Customer : tickets' = Insert(tickets, t, NewTicket(c, at, title))
  <2>1. ASSUME Create(r, t, at, title) PROVE request[r].id \in Customer
    BY <2>1, SlotFields, RequestFields DEF Create
  <2> QED
    BY <2>1 DEF CreateWithCustomer, Create
<1>2. /\ tickets'[t].since = "recent"
      /\ \A k \in DOMAIN tickets : tickets'[k] = tickets[k]
  <2>1. t \notin DOMAIN tickets
    BY DEF CreateWithCustomer, Create
  <2> QED
    BY <1>1, <2>1, NewTicketRow DEF Insert
<1>3. /\ \A k \in DOMAIN customers : customers'[k] = customers[k]
      /\ UNCHANGED <<mails, closed, overtaken>>
  BY DEF CreateWithCustomer, Create, Insert
<1>4. /\ request'[r] = [op |-> "created", id |-> t]
      /\ \A s \in Request \ {r} : request'[s] = request[s]
  BY DEF CreateWithCustomer, Create, Start, GoOn, DeskTypeOK
<1>5. closed => r \in overtaken
  BY DEF CreateWithCustomer, Create, Start, LetIn, EmailInv, WillLoad
<1>6. ASSUME NEW s \in Request
      PROVE  \/ request'[s] = request[s] /\ (s \in overtaken => s \in overtaken')
             \/ /\ request'[s].op # "send"
                /\ (request[s].op = "created" => ~isTrackingLinkExpired(request[s].id))'
                /\ closed /\ request'[s].op \in {"create", "created", "resend"} => s \in overtaken'
  <2>1. CASE s = r
    BY <1>2, <1>3, <1>4, <1>5, <2>1 DEF isTrackingLinkExpired
  <2>2. CASE s # r
    BY <1>3, <1>4, <2>2
  <2> QED
    BY <2>1, <2>2
<1>7. /\ \A name, k, to : <<name, k, to>> \in OnTheWay => (InOrder(k, to)' <=> InOrder(k, to))
      /\ \A k \in DOMAIN tickets : isTrackingLinkExpired(k)' <=> isTrackingLinkExpired(k)
  BY <1>2, <1>3, NothingOvertaken
<1> QED
  BY <1>3, <1>6, <1>7, EmailKept

\* A link dies no earlier than its email has been decided on: a status
\* change starts its time anew, and time waits for a ticket's creator.
LEMMA EmailTickets ==
  ASSUME DeskTypeOK, Grows, EmailInv,
         \/ \E r \in Request, t \in Ticket : \/ \E title \in Text : UpdateTicket(r, t, title)
                                             \/ \E status \in Step : MoveTicket(r, t, status)
         \/ \E t \in DOMAIN tickets : Age(t)
  PROVE  EmailInv'
<1>1. UNCHANGED <<customers, mails, closed>>
  BY DEF UpdateTicket, MoveTicket, Age
<1>2. \A s \in Request : request'[s] = request[s] \/ request'[s] = Idle
  <2>1. ASSUME NEW r \in Request, NEW t \in Ticket, NEW title \in Text, UpdateTicket(r, t, title) PROVE <1>2
    BY <2>1 DEF UpdateTicket, Start, DeskTypeOK
  <2>2. ASSUME NEW r \in Request, NEW t \in Ticket, NEW status \in Step, MoveTicket(r, t, status) PROVE <1>2
    BY <2>2 DEF MoveTicket, Start, DeskTypeOK
  <2>3. ASSUME NEW t \in DOMAIN tickets, Age(t) PROVE <1>2
    BY <2>3 DEF Age
  <2> QED
    BY <2>1, <2>2, <2>3
<1>3. /\ overtaken \subseteq overtaken'
      /\ \A name, t, to : <<name, t, to>> \in OnTheWay /\ InOrder(t, to)
                            => InOrder(t, to)' \/ name \in overtaken'
  <2>1. ASSUME NEW r \in Request, NEW t \in Ticket, NEW title \in Text, UpdateTicket(r, t, title) PROVE <1>3
    <3>1. \A k \in DOMAIN tickets : /\ tickets'[k].customer = tickets[k].customer
                                    /\ tickets'[k].status = tickets[k].status
                                    /\ tickets'[k].since = tickets[k].since
      BY <2>1, RowFields DEF UpdateTicket, TicketRow
    <3> QED
      BY <1>1, <2>1, <3>1, NothingOvertaken DEF UpdateTicket
  <2>2. CASE Overtake
    BY <2>2, Overtaking
  <2>3. ASSUME ~Overtake PROVE \E r \in Request, t \in Ticket, title \in Text : UpdateTicket(r, t, title)
    BY <2>3 DEF MoveTicket, Age
  <2> QED
    BY <2>1, <2>2, <2>3
<1>4. \A k \in DOMAIN tickets :
        [op |-> "created", id |-> k] \in {request[r] : r \in Request} /\ ~isTrackingLinkExpired(k)
          => ~isTrackingLinkExpired(k)'
  <2>1. ASSUME NEW r \in Request, NEW t \in Ticket, NEW title \in Text, UpdateTicket(r, t, title) PROVE <1>4
    <3>1. \A k \in DOMAIN tickets : tickets'[k].status = tickets[k].status /\ tickets'[k].since = tickets[k].since
      BY <2>1, RowFields DEF UpdateTicket, TicketRow
    <3> QED
      BY <3>1 DEF isTrackingLinkExpired
  <2>2. ASSUME NEW r \in Request, NEW t \in Ticket, NEW status \in Step, MoveTicket(r, t, status) PROVE <1>4
    <3>1. \A k \in DOMAIN tickets : tickets'[k].since = "recent" \/ tickets'[k] = tickets[k]
      BY <2>2, RowFields DEF MoveTicket, TicketRow
    <3> QED
      BY <3>1 DEF isTrackingLinkExpired
  <2>3. ASSUME NEW t \in DOMAIN tickets, Age(t) PROVE <1>4
    <3>1. /\ \A k \in DOMAIN tickets : k # t => tickets'[k] = tickets[k]
          /\ [op |-> "created", id |-> t] \notin {request[r] : r \in Request}
      BY <2>3 DEF Age
    <3> QED
      BY <3>1 DEF isTrackingLinkExpired
  <2> QED
    BY <2>1, <2>2, <2>3
<1>5. ASSUME NEW s \in Request
      PROVE  \/ request'[s] = request[s] /\ (s \in overtaken => s \in overtaken')
             \/ /\ request'[s].op # "send"
                /\ (request[s].op = "created" => ~isTrackingLinkExpired(request[s].id))'
                /\ closed /\ request'[s].op \in {"create", "created", "resend"} => s \in overtaken'
  <2>1. CASE request'[s] = request[s]
    BY <1>3, <2>1
  <2>2. CASE request'[s] = Idle
    BY <2>2, IdleTyped
  <2> QED
    BY <1>2, <2>1, <2>2
<1> QED
  BY <1>1, <1>3, <1>4, <1>5, EmailKept

\* At first no email is on its way and no request runs.
LEMMA EmailInit == DeskInit => EmailInv
<1> SUFFICES ASSUME DeskInit PROVE EmailInv
  OBVIOUS
<1>1. DOMAIN mails = {} /\ \A r \in Request : request[r].op = "none"
  BY EmptyTable, IdleTyped DEF DeskInit
<1>2. OnItsWay
  BY <1>1, OnTheWayMeans
<1> QED
  BY <1>1, <1>2 DEF EmailInv, WillLoad, StrayMailWasOvertaken

\* Every step accounts for the emails it makes wrong.
LEMMA EmailStep ==
  ASSUME DeskTypeOK, ErasedIsGone, EmailInv, [DeskNext]_deskVars
  PROVE  EmailInv'
<1>0. Grows
  BY StepGrows
<1>1. CASE UNCHANGED deskVars
  <2>1. (OnItsWay <=> OnItsWay') /\ (WillLoad <=> WillLoad')
    BY <1>1 DEF deskVars, OnItsWay, OnTheWay, Excused, InOrder, LinkWorks, BroughtBack, WillLoad,
       isTrackingLinkExpired
  <2>2. StrayMailWasOvertaken'
    BY <1>0, <1>1, StrayKept DEF deskVars, EmailInv
  <2> QED
    BY <2>1, <2>2 DEF EmailInv
<1>2. ASSUME NEW r \in Request,
             \/ \E c \in Customer : \/ \E dto \in Updates : DecideUpdate(r, c, dto)
                                    \/ DecideRemove(r, c) \/ DecideCreate(r, c)
             \/ \E t \in Ticket : AdmitResend(r, t)
             \/ Fail(r)
      PROVE  EmailInv'
  <2>1. ASSUME NEW state, Start(r, state) \/ (LetIn(r) /\ GoOn(r, state)),
               state.op \notin {"created", "send"}, UNCHANGED <<tables, overtaken>>
        PROVE  EmailInv'
    BY <1>0, <2>1, EmailReads DEF Start, GoOn, LetIn
  <2>2. ASSUME NEW c \in Customer, NEW dto \in Updates, DecideUpdate(r, c, dto) PROVE EmailInv'
    BY <2>1, <2>2 DEF DecideUpdate, tables
  <2>3. ASSUME NEW c \in Customer, DecideRemove(r, c) PROVE EmailInv'
    BY <2>1, <2>3 DEF DecideRemove, tables
  <2>4. ASSUME NEW c \in Customer, DecideCreate(r, c) PROVE EmailInv'
    BY <2>1, <2>4 DEF DecideCreate, tables
  <2>5. ASSUME NEW t \in Ticket, AdmitResend(r, t) PROVE EmailInv'
    BY <2>1, <2>5 DEF AdmitResend, tables
  <2>6. ASSUME Fail(r) PROVE EmailInv'
    BY <1>0, <2>6, EmailReads DEF Fail, GoOn, tables
  <2> QED
    BY <1>2, <2>2, <2>3, <2>4, <2>5, <2>6
<1>3. ASSUME NEW r \in Request, LoadCreated(r) \/ LoadResend(r) PROVE EmailInv'
  BY <1>0, <1>3, EmailLoads
<1> QED
  BY <1>0, <1>1, <1>2, <1>3, StepCases, EmailWrites, EmailEnds, EmailCloses, EmailCustomers,
     EmailCreates, EmailTickets

\* What is known of emails and of the requests that will write one is
\* inductive, given what erasure promises.
THEOREM EmailInvariant == DeskSpec => []EmailInv
<1>1. DeskTypeOK /\ ErasedInv /\ EmailInv /\ [DeskNext]_deskVars => EmailInv'
  BY EmailStep DEF ErasedInv
<1> QED
  BY <1>1, EmailInit, DeskTypes, ErasedInvariant, PTL DEF DeskSpec

\* An email that goes astray was overtaken by a change after it was decided
\* on, or its customer was erased and brought back by an update.
THEOREM StrayMailsWereOvertaken == DeskSpec => []StrayMailWasOvertaken
<1>1. EmailInv => StrayMailWasOvertaken
  BY DEF EmailInv
<1> QED
  BY <1>1, EmailInvariant, PTL
-----------------------------------------------------------------------------
(* What it takes for a write to come late.                                 *)

\* While an update of a customer is open, no other update of them is and no
\* erasure, and while a ticket is being made for them, no erasure.
WritersApart ==
  \A r, s \in Request : r # s =>
    /\ request[r].op = "update" /\ request[s].op \in {"update", "erase"} => request[r].id # request[s].id
    /\ request[r].op = "create" /\ request[s].op = "erase" => request[r].id # request[s].id

\* What a request read of its customer is so still.
StillSo(q) ==
  /\ q.op = "update" => ~customers[q.id].deleted /\ customers[q.id].email = q.email
  /\ q.op = "create" => Active(q.id)

\* The inductive invariant.
NothingLate == late = {} /\ \A r \in Request : StillSo(request[r])

\* A step that leaves alone what open requests have read, or ends them.
LEMMA NothingLateKept ==
  ASSUME DeskTypeOK, NothingLate, UNCHANGED late,
         \A r \in Request :
           \/ StillSo(request[r])'
           \/ /\ request'[r] = request[r]
              /\ request[r].op \in {"update", "create"} =>
                   /\ request[r].id \in DOMAIN customers'
                   /\ customers'[request[r].id].deleted = customers[request[r].id].deleted
              /\ request[r].op = "update" =>
                   customers'[request[r].id].email = customers[request[r].id].email
  PROVE  NothingLate'
<1>1. ASSUME NEW r \in Request, request'[r] = request[r],
             request[r].op \in {"update", "create"} =>
               /\ request[r].id \in DOMAIN customers'
               /\ customers'[request[r].id].deleted = customers[request[r].id].deleted,
             request[r].op = "update" =>
               customers'[request[r].id].email = customers[request[r].id].email
      PROVE  StillSo(request[r])'
  BY <1>1 DEF NothingLate, StillSo, Active
<1> QED
  BY <1>1 DEF NothingLate

\* Other operations rest on nothing that was read of a customer.
LEMMA OthersSo ==
  \A r : request'[r].op \notin {"update", "create"} => StillSo(request[r])'
BY DEF StillSo

\* A step that leaves the customers' rows alone.
LEMMA NothingLateAside ==
  ASSUME DeskTypeOK, NothingLate, UNCHANGED late,
         \A c \in DOMAIN customers : c \in DOMAIN customers' /\ customers'[c] = customers[c],
         \A r \in Request : StillSo(request[r])' \/ request'[r] = request[r]
  PROVE  NothingLate'
<1>1. \A r \in Request : request[r].op \in {"update", "create"} => request[r].id \in DOMAIN customers
  BY SlotFields DEF RefersToRows
<1> QED
  BY <1>1, NothingLateKept

\* A customer is updated while no other update of theirs is open, and keeps
\* being there for a ticket.
LEMMA NothingLateUpdate ==
  ASSUME DeskTypeOK, WritersApart, NothingLate, NEW r \in Request, Update(r)
  PROVE  NothingLate'
<1>1. PICK c : c = request[r].id
  OBVIOUS
<1>2. /\ request'[r] = Idle
      /\ \A s \in Request \ {r} : request'[s] = request[s]
  BY DEF Update, GoOn, DeskTypeOK
<1>3. /\ DOMAIN customers' = DOMAIN customers
      /\ \A k \in DOMAIN customers \ {c} : customers'[k] = customers[k]
      /\ customers'[c].deleted = customers[c].deleted
  <2>1. c \in DOMAIN customers /\ customers[c] \in CustomerRow /\ request[r].dto \in UpdateCustomerDto
    BY <1>1, SlotFields, RequestFields, RowFields DEF RefersToRows, Update
  <2>2. PICK row : row = Updated(customers[c], request[r].dto, request[r].email)
    OBVIOUS
  <2>3. row.deleted = customers[c].deleted /\ customers' = [customers EXCEPT ![c] = row]
    BY <1>1, <2>1, <2>2, UpdatedRow DEF Update
  <2> QED
    BY <2>1, <2>3
<1>4. UNCHANGED late
  <2>1. StillSo(request[r]) /\ request[r].op = "update"
    BY DEF NothingLate, Update
  <2> QED
    BY <2>1 DEF Update, StillSo, Late
<1>5. ASSUME NEW s \in Request \ {r}, request[s].op \in {"update", "create"}
      PROVE  request[s].id \in DOMAIN customers /\ (request[s].op = "update" => request[s].id # c)
  BY <1>1, <1>5, SlotFields DEF WritersApart, RefersToRows, Update
<1> QED
  BY <1>2, <1>3, <1>4, <1>5, NothingLateKept, OthersSo, IdleTyped

\* One is erased while none is.
LEMMA NothingLateRemove ==
  ASSUME DeskTypeOK, WritersApart, NothingLate, NEW r \in Request, Remove(r)
  PROVE  NothingLate'
<1>1. PICK c : c = request[r].id
  OBVIOUS
<1>2. /\ request'[r] = Idle
      /\ \A s \in Request \ {r} : request'[s] = request[s]
  BY DEF Remove, GoOn, DeskTypeOK
<1>3. \A k \in DOMAIN customers \ {c} : k \in DOMAIN customers' /\ customers'[k] = customers[k]
  BY <1>1 DEF Remove
<1>4. ASSUME NEW s \in Request \ {r}, request[s].op \in {"update", "create"}
      PROVE  request[s].id \in DOMAIN customers \ {c}
  BY <1>1, <1>4, SlotFields DEF WritersApart, RefersToRows, Remove
<1>5. UNCHANGED late
  BY DEF Remove
<1> QED
  BY <1>2, <1>3, <1>4, <1>5, NothingLateKept, OthersSo, IdleTyped

\* Nothing is late after any step.
LEMMA NothingLateStep ==
  DeskTypeOK /\ WritersApart /\ NothingLate /\ [DeskNext]_deskVars => NothingLate'
<1> SUFFICES ASSUME DeskTypeOK, WritersApart, NothingLate, [DeskNext]_deskVars PROVE NothingLate'
  OBVIOUS
<1>1. CASE UNCHANGED deskVars
  BY <1>1, NothingLateAside DEF deskVars
<1>2. ASSUME NEW r \in Request, NEW state, UNCHANGED <<customers, late>>,
             state.op \notin {"update", "create"} \/ StillSo(state)',
             Start(r, state) \/ GoOn(r, state)
      PROVE  NothingLate'
  <2>1. request'[r] = state /\ \A s \in Request \ {r} : request'[s] = request[s]
    BY <1>2 DEF Start, GoOn, DeskTypeOK
  <2>2. StillSo(request[r])'
    BY <1>2, <2>1 DEF StillSo
  <2> QED
    BY <1>2, <2>1, <2>2, NothingLateAside
<1>3. ASSUME NEW r \in Request, NEW c \in Customer, NEW dto \in Updates, DecideUpdate(r, c, dto)
      PROVE  NothingLate'
  <2>1. PICK state : state = [op |-> "update", id |-> c, email |-> customers[c].email, dto |-> dto]
    OBVIOUS
  <2>2. StillSo(state)'
    BY <1>3, <2>1 DEF DecideUpdate, StillSo, Active
  <2> QED
    BY <1>2, <1>3, <2>1, <2>2 DEF DecideUpdate
<1>4. ASSUME NEW r \in Request, NEW c \in Customer, DecideRemove(r, c) PROVE NothingLate'
  BY <1>2, <1>4 DEF DecideRemove
<1>5. ASSUME NEW r \in Request, NEW c \in Customer, DecideCreate(r, c) PROVE NothingLate'
  <2>1. PICK state : state = [op |-> "create", id |-> c, active |-> Active(c)]
    OBVIOUS
  <2>2. StillSo(state)'
    BY <1>5, <2>1 DEF DecideCreate, MayHaveTicket, StillSo, Active
  <2> QED
    BY <1>2, <1>5, <2>1, <2>2 DEF DecideCreate
<1>6. ASSUME NEW r \in Request,
             (\E t \in Ticket : AdmitResend(r, t)) \/ LoadCreated(r) \/ LoadResend(r) \/ Fail(r)
      PROVE  NothingLate'
  <2>1. CASE \E t \in Ticket : AdmitResend(r, t)
    BY <1>2, <2>1 DEF AdmitResend
  <2>2. CASE Load(r)
    BY <1>2, <2>2, IdleTyped DEF Load
  <2>3. CASE Fail(r)
    BY <1>2, <2>3, IdleTyped DEF Fail
  <2> QED
    BY <1>6, <2>1, <2>2, <2>3 DEF LoadCreated, LoadResend
<1>7. ASSUME NEW a \in Address, Flag(a) PROVE NothingLate'
  <2>1. \A c \in DOMAIN customers :
          c \in DOMAIN customers' /\ customers'[c].deleted = customers[c].deleted
          /\ customers'[c].email = customers[c].email
    BY <1>7, RowFields DEF Flag, CustomerRow
  <2>2. \A r \in Request : request[r].op \in {"update", "create"} => request[r].id \in DOMAIN customers
    BY SlotFields DEF RefersToRows
  <2> QED
    BY <1>7, <2>1, <2>2, NothingLateKept DEF Flag
<1>8. ASSUME NEW r \in Request, NEW t \in Ticket, NEW at \in Stamp, NEW title \in Titles, NEW c \in Customer,
             NEW dto \in Arrivals, CreateWithCustomer(r, c, dto, t, at, title)
      PROVE  NothingLate'
  <2>1. \A k \in DOMAIN customers : k \in DOMAIN customers' /\ customers'[k] = customers[k]
    BY <1>8 DEF CreateWithCustomer, Insert
  <2>2. request'[r].op = "created" /\ \A s \in Request \ {r} : request'[s] = request[s]
    BY <1>8 DEF CreateWithCustomer, Start, DeskTypeOK
  <2>3. UNCHANGED late
    BY <1>8 DEF CreateWithCustomer
  <2> QED
    BY <2>1, <2>2, <2>3, OthersSo, NothingLateAside
<1>9. ASSUME NEW r \in Request, NEW t \in Ticket, NEW at \in Stamp, NEW title \in Titles,
             Create(r, t, at, title)
      PROVE  NothingLate'
  <2>1. Active(request[r].id)
    BY <1>9 DEF Create, NothingLate, StillSo
  <2>2. UNCHANGED late
    BY <1>9, <2>1 DEF Create, Late
  <2> QED
    BY <1>2, <1>9, <2>2 DEF Create
<1>10. ASSUME NEW r \in Request, NEW m \in Mail, WriteMail(r, m) PROVE NothingLate'
  BY <1>2, <1>10, IdleTyped DEF WriteMail
<1>11. ASSUME NEW m \in DOMAIN mails, SendMail(m) \/ DropMail(m) PROVE NothingLate'
  BY <1>11, NothingLateAside DEF SendMail, DropMail
<1>12. ASSUME NEW r \in Request, NEW t \in Ticket,
              \/ \E title \in Text : UpdateTicket(r, t, title)
              \/ \E status \in Step : MoveTicket(r, t, status)
       PROVE  NothingLate'
  BY <1>2, <1>12, IdleTyped DEF UpdateTicket, MoveTicket
<1>13. CASE (\E t \in DOMAIN tickets : Age(t)) \/ RemoveLocation
  BY <1>13, NothingLateAside DEF Age, RemoveLocation
<1> QED
  BY <1>1, <1>3, <1>4, <1>5, <1>6, <1>7, <1>8, <1>9, <1>10, <1>11, <1>12, <1>13, StepCases,
     NothingLateUpdate, NothingLateRemove

\* A write comes late only by an update beside another or beside an erasure
\* of the same customer, or by a ticket made beside an erasure: webhooks,
\* emails, the location's deletion, and requests for other customers may
\* come at any time.
THEOREM LateOnlyBesideAnUpdateOrErasure == DeskSpec /\ []WritersApart => [](late = {})
<1>1. DeskInit => NothingLate
  BY DEF DeskInit, NothingLate, StillSo, Idle
<1>2. NothingLate => late = {}
  BY DEF NothingLate
<1> QED
  BY <1>1, <1>2, NothingLateStep, DeskTypes, PTL DEF DeskSpec

\* What data-model.md says of flags and of erasure, as it reads: an active
\* customer is flagged exactly while their address has failed, and nothing is
\* left of an erased one. Not that no email reaches a flagged customer, which
\* a webhook between deciding on an email and sending it makes untrue.
AsDocumented ==
  /\ \A c \in DOMAIN customers : Active(c) => (customers[c].flagged <=> c \in failed)
  /\ \A c \in DOMAIN erasedWith :
       customers[c].name = Redacted /\ customers[c].email = null /\ TicketsOf(c) \subseteq erasedWith[c]

\* That holds without exception as long as the requests that read a customer
\* keep apart like that.
THEOREM DocumentedWhileApart == DeskSpec /\ []WritersApart => []AsDocumented
<1>1. /\ late = {} /\ DeskTypeOK /\ FlagFollowsAddress /\ ErasedIsGone
      => AsDocumented
  <2> SUFFICES ASSUME late = {}, DeskTypeOK, FlagFollowsAddress, ErasedIsGone
               PROVE  AsDocumented
    OBVIOUS
  <2>1. \A c \in DOMAIN customers : Active(c) => (customers[c].flagged <=> c \in failed)
    <3>1. \A c \in DOMAIN customers : customers[c].flagged \in BOOLEAN
      BY RowFields DEF CustomerRow
    <3> QED
      BY <3>1 DEF FlagFollowsAddress
  <2>2. \A c \in DOMAIN erasedWith :
          customers[c].name = Redacted /\ customers[c].email = null /\ TicketsOf(c) \subseteq erasedWith[c]
    BY DEF ErasedIsGone
  <2> QED
    BY <2>1, <2>2 DEF AsDocumented
<1> QED
  BY <1>1, LateOnlyBesideAnUpdateOrErasure, DeskTypes, FlagsFollow, TheErasedAreGone, PTL
=============================================================================
