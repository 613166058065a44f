------------------------- MODULE StatusEmailsProofs -------------------------
(***************************************************************************)
(* For every number of overlapping sweeps and requests, and every choice   *)
(* of the times and bounds: EmailInv is an invariant of EmailSpec, and     *)
(* with it every safety property of StatusEmails; to the ticket the sweeps *)
(* are the environment of TicketStatus, and each of their steps is a step  *)
(* of Announcement. DeliveryInv does the same for StatusDelivery.          *)
(***************************************************************************)
EXTENDS StatusDelivery, TicketStatusProofs, FiniteSetTheorems

-----------------------------------------------------------------------------
(* The inductive invariant.                                                *)

\* An event whose email was due is past every undo.
Ripe(id) == id \in DOMAIN events /\ events[id].at + NotifyDelay <= now

\* What a sweep still has to do was due when it read it.
TodoWasDue ==
  \A w \in Sweep : sweep[w] # Idle =>
    \A id \in DOMAIN sweep[w].todo : sweep[w].todo[id] <= now

\* The row a sweep works on is ripe, and nobody can claim it meanwhile.
HeldRows ==
  \A w \in Sweep : IsHolding(w) =>
    /\ Ripe(sweep[w].row)
    /\ sweep[w].since <= now /\ now <= sweep[w].since + SendMax
    /\ sweep[w].row \in DOMAIN pending => sweep[w].since + Lease <= pending[sweep[w].row]

\* No change followed this one before its email was due.
NotSuperseded(id) ==
  \A later \in DOMAIN events : id < later => events[id].at + NotifyDelay <= events[later].at

\* A sweep about to send found its change to be the latest one.
SendsTheLatest ==
  \A w \in Sweep : sweep[w].pc = "send" => NotSuperseded(sweep[w].row)

ToldAreRipe == \A k \in DOMAIN told : Ripe(told[k])

\* Between a claim and the read of the ticket only a deletion of the
\* location takes the row away.
LoadsQueued ==
  \A w \in Sweep : sweep[w].pc = "load" => sweep[w].row \in DOMAIN pending \/ closed

\* Why a sweep may delete the row of the latest change ever made.
FinishesForAReason ==
  \A w \in Sweep :
    sweep[w].pc = "finish" /\ sweep[w].row = nextId - 1 =>
      \/ WasTold(sweep[w].row)
      \/ sweep[w].row \in muted
      \/ ~isNotifyingStatus(events[sweep[w].row].status)

\* The changes that may be announced again: told, still queued, and not
\* about to be taken off the queue.
Sending(id) == \E w \in Sweep : sweep[w].pc = "send" /\ sweep[w].row = id
Finishing(id) == \E w \in Sweep : sweep[w].pc = "finish" /\ sweep[w].row = id
AtRisk ==
  {id \in 1 .. nextId - 1 :
     WasTold(id) /\ (id \in DOMAIN pending \/ Sending(id)) /\ ~Finishing(id)}

\* Every repeat, made or still possible, was paid for by a sweep cut short.
RepeatsPaidFor == Cardinality(Repeats) + Cardinality(AtRisk) <= failures

EmailInv ==
  /\ TicketInv /\ EmailTypeOK
  /\ TodoWasDue /\ HeldRows /\ OneHolder
  /\ SendsTheLatest /\ ToldAreRipe /\ SupersededNeverTold
  /\ LoadsQueued /\ FinishesForAReason /\ LastWordAnnounced
  /\ RepeatsPaidFor

-----------------------------------------------------------------------------
(* The sweeps and the ticket.                                              *)

\* Every step is one of the ticket's, or leaves the ticket alone. A claim
\* finds its row as it was read, which is due; a row that is deleted was
\* in the table or the delete does nothing.
LEMMA SweepsAreEnvironment ==
  ASSUME TypeOK, TodoWasDue, [EmailNext]_allVars
  PROVE  [TicketNext]_ticketVars
<1>1. CASE Requests
  BY <1>1 DEF Requests, TicketNext
<1>2. CASE Close
  BY <1>2 DEF Close, TicketNext
<1>3. CASE Pass
  BY <1>3 DEF Pass, TicketNext
<1>4. CASE StopNotifications \/ ChangeAddress
  BY <1>4 DEF StopNotifications, ChangeAddress
<1>5. ASSUME NEW w \in Sweep, Claim(w) PROVE TicketNext
  <2>1. PICK id \in DOMAIN sweep[w].todo :
          Unclaimed(id, sweep[w].todo[id]) /\ pending' = Hold(id)
    BY <1>5 DEF Claim
  <2>2. sweep[w] # Idle
    BY <1>5 DEF Claim, Idle
  <2>3. id \in DOMAIN pending /\ pending[id] <= now
    BY <2>1, <2>2 DEF TodoWasDue, Unclaimed
  <2> QED
    BY <1>5, <2>1, <2>3 DEF Claim, Hold, ticketRest, TicketNext, HoldPending
<1>6. ASSUME NEW w \in Sweep, Finish(w) PROVE TicketNext \/ UNCHANGED ticketVars
  <2>1. pending' = Delete(pending, {sweep[w].row})
    BY <1>6 DEF Finish, Done
  <2>2. CASE sweep[w].row \in DOMAIN pending
    BY <1>6, <2>1, <2>2 DEF Finish, ticketRest, TicketNext, SettlePending
  <2>3. CASE sweep[w].row \notin DOMAIN pending
    <3>1. pending \in [DOMAIN pending -> Nat]
      BY DEF TypeOK, IsTable
    <3>2. pending' = pending
      BY <2>1, <2>3, <3>1 DEF Delete, Restrict
    <3> QED
      BY <1>6, <3>2 DEF Finish, ticketRest, ticketVars
  <2> QED
    BY <2>2, <2>3
<1>7. ASSUME NEW w \in Sweep, ReadDue(w) \/ Skip(w) \/ Load(w) \/ Send(w) \/ Fail(w)
      PROVE  UNCHANGED ticketVars
  BY <1>7 DEF ReadDue, Skip, Load, Send, Fail
<1>8. CASE UNCHANGED allVars
  BY <1>8 DEF allVars, ticketVars
<1> QED
  BY <1>1, <1>2, <1>3, <1>4, <1>5, <1>6, <1>7, <1>8 DEF EmailNext, Work

\* The clock and the sequence only go up, and events only come and go.
LEMMA TimelineStep ==
  ASSUME TypeOK, [TicketNext]_ticketVars
  PROVE  /\ now \in Nat /\ now' \in Nat /\ now <= now'
         /\ nextId \in Nat /\ nextId' \in Nat /\ nextId <= nextId'
         /\ \A id \in DOMAIN events : id \in DOMAIN events' => events'[id] = events[id]
         /\ \A id \in DOMAIN events' \ DOMAIN events : id = nextId /\ events'[id].at = now
         /\ closed => closed'
<1>1. now \in Nat /\ nextId \in Nat /\ DOMAIN events \subseteq 1 .. nextId - 1
  BY DEF TypeOK
<1>2. ASSUME NEW t \in Request, CommitChange(t)
      PROVE  /\ \A id \in DOMAIN events : events'[id] = events[id]
             /\ \A id \in DOMAIN events' \ DOMAIN events : id = nextId /\ events'[id].at = now
  BY <1>1, <1>2 DEF CommitChange, Insert
<1>3. ASSUME NEW t \in Request, CommitUndo(t)
      PROVE  /\ DOMAIN events' \subseteq DOMAIN events
             /\ \A id \in DOMAIN events' : events'[id] = events[id]
  <2>1. events' = Delete(events, {tx[t].latest})
    BY <1>3 DEF CommitUndo, DeleteEvent
  <2> QED
    BY <2>1 DEF Delete, Restrict
<1>4. nextId' = nextId \/ nextId' = nextId + 1
  BY DEF TicketNext, Serve, BeginChange, BeginUndo, CommitChange, CommitUndo, Rollback,
         RemoveLocation, HoldPending, SettlePending, Tick, ticketVars
<1>5. now' = now \/ now' = now + 1
  BY DEF TicketNext, Serve, BeginChange, BeginUndo, CommitChange, CommitUndo, Rollback,
         RemoveLocation, HoldPending, SettlePending, Tick, ticketVars
<1>6. events' = events \/ \E t \in Request : CommitChange(t) \/ CommitUndo(t)
  BY DEF TicketNext, Serve, BeginChange, BeginUndo, Rollback,
         RemoveLocation, HoldPending, SettlePending, Tick, ticketVars
<1>7. closed => closed'
  BY Zenon DEF TicketNext, Serve, BeginChange, BeginUndo, CommitChange, CommitUndo, Rollback,
         RemoveLocation, HoldPending, SettlePending, Tick, ticketVars
<1> QED
  BY <1>1, <1>2, <1>3, <1>4, <1>5, <1>6, <1>7

\* A ripe event stays, and stays ripe: the undo window and an undo's
\* transaction are over before the event's email is due.
LEMMA RipeStays ==
  ASSUME TicketInv, [TicketNext]_ticketVars, NEW id, Ripe(id)
  PROVE  Ripe(id)' /\ events'[id] = events[id]
<1>1. TypeOK
  BY DEF TicketInv
<1>2. events[id].at \in Nat /\ now \in Nat /\ now' \in Nat /\ now <= now'
  BY <1>1, TimelineStep DEF Ripe, TypeOK, IsTable, Event
<1>3. id \in DOMAIN events'
  <2> SUFFICES ASSUME id \in DOMAIN events \ DOMAIN events' PROVE FALSE
    BY DEF Ripe
  <2>1. now - events[id].at <= UndoWindow + TxTimeout
    BY OnlyUndoDeletes
  <2> QED
    BY <1>2, <2>1, MarginAssumption, TimesAssumption DEF Ripe
<1>4. events'[id] = events[id]
  BY <1>1, <1>3, TimelineStep DEF Ripe
<1> QED
  BY <1>2, <1>3, <1>4, TimesAssumption DEF Ripe

\* What a request, the deletion of the location, the clock or the customer
\* may do to the rows: queue the new change, or take rows away.
LEMMA QueueStep ==
  ASSUME TypeOK, Requests \/ Close \/ Pass \/ StopNotifications \/ ChangeAddress \/ UNCHANGED allVars
  PROVE  /\ UNCHANGED <<sweep, told, failures>>
         /\ muted \subseteq muted'
         /\ \A id \in DOMAIN pending' :
              \/ id \in DOMAIN pending /\ pending'[id] = pending[id]
              \/ id = nextId
<1>1. CASE Requests
  <2>1. ASSUME NEW t \in Request, CommitChange(t)
        PROVE  \A id \in DOMAIN pending' :
                 \/ id \in DOMAIN pending /\ pending'[id] = pending[id]
                 \/ id = nextId
    BY <2>1 DEF CommitChange, Queue, Insert
  <2>2. ASSUME NEW t \in Request, CommitUndo(t)
        PROVE  \A id \in DOMAIN pending' : id \in DOMAIN pending /\ pending'[id] = pending[id]
    <3>1. pending' = Delete(pending, {tx[t].latest})
      BY <2>2 DEF CommitUndo, DeleteEvent
    <3> QED
      BY <3>1 DEF Delete, Restrict
  <2>3. \/ pending' = pending
        \/ \E t \in Request : CommitChange(t) \/ CommitUndo(t)
    BY <1>1 DEF Requests, Serve, BeginChange, BeginUndo, Rollback
  <2> QED
    BY <1>1, <2>1, <2>2, <2>3 DEF Requests, emailVars
<1>2. CASE Close
  BY <1>2, EmptyTable DEF Close, RemoveLocation
<1>3. CASE Pass \/ StopNotifications \/ ChangeAddress \/ UNCHANGED allVars
  BY <1>3 DEF Pass, Tick, emailVars, StopNotifications, ChangeAddress, ticketVars, allVars
<1> QED
  BY <1>1, <1>2, <1>3

-----------------------------------------------------------------------------
(* What a step of a sweep does to the sweeps.                              *)

\* An assignment to one sweep leaves the others alone.
LEMMA OneSweep ==
  ASSUME sweep = [v \in Sweep |-> sweep[v]], NEW w \in Sweep, NEW s,
         sweep' = [sweep EXCEPT ![w] = s]
  PROVE  /\ sweep' = [v \in Sweep |-> sweep'[v]]
         /\ sweep'[w] = s
         /\ \A v \in Sweep : v # w => sweep'[v] = sweep[v]
OBVIOUS

\* A sweep that works on a row, in full.
LEMMA HoldingShape ==
  ASSUME NEW w \in Sweep, SweepState(sweep[w]), IsHolding(w)
  PROVE  /\ sweep[w] = Holding(sweep[w].pc, sweep[w].row, sweep[w].since, sweep[w].todo)
         /\ sweep[w].row \in 1 .. nextId - 1 /\ sweep[w].since \in Nat /\ Rest(sweep[w].todo)
         /\ sweep[w] # Idle /\ sweep[w].pc # "claim"
BY DEF SweepState, IsHolding, Idle, Claiming

\* A sweep between two rows, in full.
LEMMA ClaimingShape ==
  ASSUME NEW w \in Sweep, SweepState(sweep[w]), sweep[w].pc = "claim"
  PROVE  sweep[w] = Claiming(sweep[w].todo) /\ Rest(sweep[w].todo) /\ sweep[w] # Idle
BY DEF SweepState, Idle, Claiming, Holding

\* The fields of a sweep's states.
LEMMA SweepFields ==
  /\ Idle.pc = "idle"
  /\ \A todo : Claiming(todo).pc = "claim" /\ Claiming(todo).todo = todo /\ Claiming(todo) # Idle
  /\ \A pc, id, since, todo :
       /\ Holding(pc, id, since, todo).pc = pc
       /\ Holding(pc, id, since, todo).row = id
       /\ Holding(pc, id, since, todo).since = since
       /\ Holding(pc, id, since, todo).todo = todo
       /\ Holding(pc, id, since, todo) # Idle
BY DEF Idle, Claiming, Holding

\* Reading the ticket decides between sending and finishing.
LEMMA LoadStep ==
  ASSUME sweep = [v \in Sweep |-> sweep[v]], NEW w \in Sweep, SweepState(sweep[w]), Load(w)
  PROVE  /\ sweep' = [v \in Sweep |-> sweep'[v]]
         /\ \A v \in Sweep : v # w => sweep'[v] = sweep[v]
         /\ IsHolding(w)
         /\ \/ /\ Deliverable(sweep[w].row)
               /\ sweep'[w] = Holding("send", sweep[w].row, sweep[w].since, sweep[w].todo)
            \/ /\ ~Deliverable(sweep[w].row)
               /\ sweep'[w] = Holding("finish", sweep[w].row, sweep[w].since, sweep[w].todo)
<1>1. IsHolding(w)
  BY DEF Load, IsHolding
<1>2. sweep[w] = Holding(sweep[w].pc, sweep[w].row, sweep[w].since, sweep[w].todo)
  BY <1>1, HoldingShape
<1>3. ASSUME NEW pc, sweep' = [sweep EXCEPT ![w].pc = pc]
      PROVE  /\ sweep' = [v \in Sweep |-> sweep'[v]]
             /\ \A v \in Sweep : v # w => sweep'[v] = sweep[v]
             /\ sweep'[w] = Holding(pc, sweep[w].row, sweep[w].since, sweep[w].todo)
  <2>1. sweep'[w] = [sweep[w] EXCEPT !.pc = pc]
    BY <1>3
  <2> QED
    BY <1>2, <1>3, <2>1 DEF Holding
<1>4. CASE Deliverable(sweep[w].row)
  <2>1. sweep' = [sweep EXCEPT ![w].pc = "send"]
    BY <1>4, Zenon DEF Load
  <2> QED
    BY <1>1, <1>3, <1>4, <2>1
<1>5. CASE ~Deliverable(sweep[w].row)
  <2>1. sweep' = [sweep EXCEPT ![w].pc = "finish"]
    BY <1>5, Zenon DEF Load
  <2> QED
    BY <1>1, <1>3, <1>5, <2>1
<1> QED
  BY <1>4, <1>5

\* The email goes out, and the row is to be deleted.
LEMMA SendStep ==
  ASSUME sweep = [v \in Sweep |-> sweep[v]], NEW w \in Sweep, SweepState(sweep[w]), Send(w)
  PROVE  /\ sweep' = [v \in Sweep |-> sweep'[v]]
         /\ \A v \in Sweep : v # w => sweep'[v] = sweep[v]
         /\ IsHolding(w)
         /\ sweep'[w] = Holding("finish", sweep[w].row, sweep[w].since, sweep[w].todo)
<1>1. IsHolding(w)
  BY DEF Send, IsHolding
<1>2. sweep[w] = Holding(sweep[w].pc, sweep[w].row, sweep[w].since, sweep[w].todo)
  BY <1>1, HoldingShape
<1>3. sweep'[w] = [sweep[w] EXCEPT !.pc = "finish"]
  BY DEF Send
<1> QED
  BY <1>1, <1>2, <1>3 DEF Send, Holding

-----------------------------------------------------------------------------
(* Types.                                                                  *)

\* At first no sweep runs and nothing was sent.
LEMMA EmailTypeInit == EmailInit => EmailTypeOK
<1> SUFFICES ASSUME EmailInit PROVE EmailTypeOK
  OBVIOUS
<1>1. TypeOK
  BY TypeInit DEF EmailInit
<1>2. /\ sweep = [w \in Sweep |-> sweep[w]]
      /\ \A w \in Sweep : SweepState(sweep[w])
  BY DEF EmailInit, SweepState
<1>3. stopped \in BOOLEAN /\ reachable \in BOOLEAN
  BY Zenon DEF EmailInit
<1>4. told \in Seq(1 .. nextId - 1) /\ muted \subseteq 1 .. nextId - 1
  BY DEF EmailInit
<1>5. failures \in 0 .. MaxFailures
  BY BoundsAssumption DEF EmailInit
<1> QED
  BY <1>1, <1>2, <1>3, <1>4, <1>5 DEF EmailTypeOK

\* What a sweep knows stays well-typed as the sequence goes up.
LEMMA SweepStateKept ==
  ASSUME TypeOK, TypeOK', nextId <= nextId', NEW v \in Sweep, SweepState(sweep[v]),
         sweep'[v] = sweep[v]
  PROVE  SweepState(sweep[v])'
<1>1. nextId \in Nat /\ nextId' \in Nat
  BY DEF TypeOK
<1>2. 1 .. nextId - 1 \subseteq 1 .. nextId' - 1
  BY <1>1
<1> QED
  BY <1>2 DEF SweepState, Rest

\* A sequence over a set is one over a larger set.
LEMMA SeqOfMore == ASSUME NEW A, NEW B, A \subseteq B, NEW s \in Seq(A) PROVE s \in Seq(B)
<1>1. /\ Len(s) \in Nat /\ s \in [1 .. Len(s) -> A]
  OBVIOUS
<1>2. s \in [1 .. Len(s) -> B]
  BY <1>1
<1> QED
  BY <1>1, <1>2

\* An element of a sequence.
LEMMA ElementOfSeq == ASSUME NEW A, NEW s \in Seq(A), NEW k \in DOMAIN s PROVE s[k] \in A
OBVIOUS

\* The type of what a sweep still has to do.
LEMMA RestKept ==
  ASSUME NEW todo, IsTable(todo, Nat), DOMAIN todo \subseteq 1 .. nextId' - 1
  PROVE  Rest(todo)'
BY DEF Rest

\* A row taken off what a sweep still has to do.
LEMMA RestDelete ==
  ASSUME NEW todo, Rest(todo), NEW id
  PROVE  Rest(Delete(todo, {id}))
<1>1. IsTable(Delete(todo, {id}), Nat)
  BY DeleteTyped DEF Rest
<1>2. DOMAIN Delete(todo, {id}) \subseteq DOMAIN todo
  BY Zenon DEF Delete, Restrict
<1>3. DOMAIN todo \subseteq 1 .. nextId - 1
  BY DEF Rest
<1>4. DOMAIN Delete(todo, {id}) \subseteq 1 .. nextId - 1
  BY <1>2, <1>3, Zenon
<1> QED
  BY <1>1, <1>4, Zenon DEF Rest

\* Every step keeps the types.
LEMMA EmailTypeStep ==
  ASSUME EmailTypeOK, TypeOK', nextId <= nextId', [EmailNext]_allVars
  PROVE  EmailTypeOK'
<1>1. /\ TypeOK /\ nextId \in Nat /\ nextId' \in Nat
      /\ sweep = [v \in Sweep |-> sweep[v]]
      /\ \A v \in Sweep : SweepState(sweep[v])
      /\ DOMAIN pending \subseteq 1 .. nextId - 1
  BY DEF EmailTypeOK, TypeOK
<1>2. 1 .. nextId - 1 \subseteq 1 .. nextId' - 1
  BY <1>1
<1>3. told \in Seq(1 .. nextId' - 1) /\ muted \subseteq 1 .. nextId' - 1
  BY <1>2, SeqOfMore DEF EmailTypeOK
<1>4. ASSUME NEW w \in Sweep, SweepState(sweep[w])',
             sweep' = [v \in Sweep |-> sweep'[v]],
             \A v \in Sweep : v # w => sweep'[v] = sweep[v]
      PROVE  \A v \in Sweep : SweepState(sweep[v])'
  BY <1>1, <1>4, SweepStateKept
<1>5. CASE Requests \/ Close \/ Pass \/ StopNotifications \/ ChangeAddress \/ UNCHANGED allVars
  <2>1. UNCHANGED <<sweep, told, failures>>
    BY <1>1, <1>5, QueueStep
  <2>2. \A v \in Sweep : SweepState(sweep[v])'
    BY <1>1, <2>1, SweepStateKept
  <2>3. muted' \subseteq 1 .. nextId' - 1
    <3>1. muted' = muted \/ muted' = muted \cup DOMAIN pending
      BY <1>5 DEF Requests, Close, Pass, StopNotifications, ChangeAddress, emailVars, allVars
    <3> QED
      BY <1>1, <1>2, <1>3, <3>1
  <2>4. stopped' \in BOOLEAN /\ reachable' \in BOOLEAN
    BY <1>5, Zenon DEF Requests, Close, Pass, StopNotifications, ChangeAddress, emailVars, allVars,
                       EmailTypeOK
  <2> QED
    BY <1>1, <1>3, <2>1, <2>2, <2>3, <2>4 DEF EmailTypeOK
<1>6. ASSUME NEW w \in Sweep, ReadDue(w) PROVE EmailTypeOK'
  <2>0. PICK todo : todo = Restrict(pending, Due)
    OBVIOUS
  <2>1. sweep' = [sweep EXCEPT ![w] = Claiming(todo)] /\ Due # {} /\ nextId' = nextId
    BY <1>6, <2>0 DEF ReadDue, ticketVars
  <2>2. DOMAIN todo = Due /\ Due \subseteq DOMAIN pending
    BY <2>0 DEF Restrict, Due
  <2>3. IsTable(todo, Nat)
    BY <1>1, <2>0, <2>2 DEF TypeOK, IsTable, Restrict
  <2>4. Rest(todo)' /\ DOMAIN todo # {}
    BY <1>1, <1>2, <2>1, <2>2, <2>3, RestKept
  <2>5. /\ sweep' = [v \in Sweep |-> sweep'[v]] /\ sweep'[w] = Claiming(todo)
        /\ \A v \in Sweep : v # w => sweep'[v] = sweep[v]
    BY <1>1, <2>1, OneSweep
  <2>6. SweepState(sweep[w])'
    BY <2>4, <2>5, SweepFields DEF SweepState
  <2> QED
    BY <1>1, <1>3, <1>4, <1>6, <2>5, <2>6 DEF EmailTypeOK, ReadDue
<1>7. ASSUME NEW w \in Sweep, Claim(w) PROVE EmailTypeOK'
  <2>1. PICK id, todo :
          /\ id \in DOMAIN sweep[w].todo
          /\ todo = Delete(sweep[w].todo, {id})
          /\ Unclaimed(id, sweep[w].todo[id])
          /\ sweep' = [sweep EXCEPT ![w] = Holding("load", id, now, todo)]
    BY <1>7 DEF Claim
  <2>2. Rest(sweep[w].todo)
    BY <1>1, <1>7, ClaimingShape DEF Claim
  <2>3. IsTable(todo, Nat) /\ DOMAIN todo \subseteq 1 .. nextId' - 1 /\ id \in 1 .. nextId' - 1
    BY <1>2, <2>1, <2>2, RestDelete DEF Rest
  <2>4. /\ sweep' = [v \in Sweep |-> sweep'[v]] /\ sweep'[w] = Holding("load", id, now, todo)
        /\ \A v \in Sweep : v # w => sweep'[v] = sweep[v]
    BY <1>1, <2>1, OneSweep
  <2>5. Rest(todo)' /\ now \in Nat
    BY <2>3, RestKept DEF EmailTypeOK, TypeOK
  <2>6. SweepState(sweep[w])'
    BY <2>3, <2>4, <2>5, SweepFields DEF SweepState
  <2> QED
    BY <1>1, <1>3, <1>4, <1>7, <2>4, <2>6 DEF EmailTypeOK, Claim
<1>8. ASSUME NEW w \in Sweep, NEW todo, Rest(todo), sweep' = [sweep EXCEPT ![w] = Resume(todo)]
      PROVE  /\ sweep' = [v \in Sweep |-> sweep'[v]]
             /\ \A v \in Sweep : SweepState(sweep[v])'
  <2>1. PICK s : s = Resume(todo)
    OBVIOUS
  <2>2. /\ sweep' = [v \in Sweep |-> sweep'[v]] /\ sweep'[w] = s
        /\ \A v \in Sweep : v # w => sweep'[v] = sweep[v]
    BY <1>1, <1>8, <2>1, OneSweep
  <2>3. Rest(todo)'
    BY <1>2, <1>8, RestKept DEF Rest
  <2>4. SweepState(sweep[w])'
    <3>1. CASE DOMAIN todo = {}
      BY <2>1, <2>2, <3>1 DEF SweepState, Resume
    <3>2. CASE DOMAIN todo # {}
      <4>1. sweep'[w] = Claiming(todo)
        BY <2>1, <2>2, <3>2 DEF Resume
      <4> QED
        BY <2>3, <3>2, <4>1, SweepFields DEF SweepState
    <3> QED
      BY <3>1, <3>2
  <2> QED
    BY <1>4, <2>2, <2>4
<1>9. ASSUME NEW w \in Sweep, Skip(w) PROVE EmailTypeOK'
  <2>1. PICK id, todo :
          /\ id \in DOMAIN sweep[w].todo
          /\ todo = Delete(sweep[w].todo, {id})
          /\ sweep' = [sweep EXCEPT ![w] = Resume(todo)]
    BY <1>9 DEF Skip
  <2>2. Rest(sweep[w].todo)
    BY <1>1, <1>9, ClaimingShape DEF Skip
  <2>3. Rest(todo)
    BY <2>1, <2>2, RestDelete
  <2> QED
    BY <1>1, <1>3, <1>8, <1>9, <2>1, <2>3 DEF EmailTypeOK, Skip
<1>10. ASSUME NEW w \in Sweep, Finish(w) PROVE EmailTypeOK'
  <2>1. Rest(sweep[w].todo)
    BY <1>1, <1>10, HoldingShape DEF Finish, IsHolding
  <2> QED
    BY <1>1, <1>3, <1>8, <1>10, <2>1 DEF EmailTypeOK, Finish
<1>11. ASSUME NEW w \in Sweep, IsHolding(w), NEW pc \in {"send", "finish"},
              sweep'[w] = Holding(pc, sweep[w].row, sweep[w].since, sweep[w].todo)
       PROVE  SweepState(sweep[w])'
  <2>1. PICK id, since, todo : id = sweep[w].row /\ since = sweep[w].since /\ todo = sweep[w].todo
    OBVIOUS
  <2>2. id \in 1 .. nextId' - 1 /\ since \in Nat /\ Rest(todo)
    BY <1>1, <1>2, <1>11, <2>1, HoldingShape
  <2>3. Rest(todo)'
    BY <1>2, <2>2, RestKept DEF Rest
  <2> QED
    BY <1>11, <2>1, <2>2, <2>3, SweepFields DEF SweepState
<1>12. ASSUME NEW w \in Sweep, Load(w) PROVE EmailTypeOK'
  <2>1. \A v \in Sweep : SweepState(sweep[v])'
    BY <1>1, <1>4, <1>11, <1>12, LoadStep
  <2>2. muted' = muted \/ muted' = muted \cup {sweep[w].row}
    BY <1>12, Zenon DEF Load
  <2>3. muted' \subseteq 1 .. nextId' - 1
    BY <1>1, <1>2, <1>3, <1>12, <2>2, LoadStep, HoldingShape
  <2> QED
    BY <1>1, <1>3, <1>12, <2>1, <2>3, LoadStep DEF EmailTypeOK, Load
<1>13. ASSUME NEW w \in Sweep, Send(w) PROVE EmailTypeOK'
  <2>1. \A v \in Sweep : SweepState(sweep[v])'
    BY <1>1, <1>4, <1>11, <1>13, SendStep
  <2>2. sweep[w].row \in 1 .. nextId' - 1
    BY <1>1, <1>2, <1>13, SendStep, HoldingShape
  <2>3. told' \in Seq(1 .. nextId' - 1)
    BY <1>3, <1>13, <2>2 DEF Send
  <2> QED
    BY <1>1, <1>3, <1>13, <2>1, <2>3, SendStep DEF EmailTypeOK, Send
<1>14. ASSUME NEW w \in Sweep, Fail(w) PROVE EmailTypeOK'
  <2>1. /\ sweep' = [v \in Sweep |-> sweep'[v]] /\ sweep'[w] = Idle
        /\ \A v \in Sweep : v # w => sweep'[v] = sweep[v]
    BY <1>1, <1>14, OneSweep DEF Fail
  <2>2. SweepState(sweep[w])'
    BY <2>1 DEF SweepState
  <2>3. failures' \in 0 .. MaxFailures
    BY <1>14, BoundsAssumption DEF EmailTypeOK, Fail
  <2> QED
    BY <1>1, <1>3, <1>4, <1>14, <2>1, <2>2, <2>3 DEF EmailTypeOK, Fail
<1> QED
  BY <1>5, <1>6, <1>7, <1>9, <1>10, <1>12, <1>13, <1>14 DEF EmailNext, Work

-----------------------------------------------------------------------------
(* Claims and leases.                                                      *)

\* A claim takes hold of a row that is due, for a lease.
LEMMA ClaimStep ==
  ASSUME EmailTypeOK, TodoWasDue, NEW w \in Sweep, Claim(w)
  PROVE  /\ sweep[w].pc = "claim" /\ sweep'[w].pc = "load" /\ IsHolding(w)'
         /\ sweep'[w].row \in DOMAIN pending /\ sweep'[w].since = now
         /\ pending[sweep'[w].row] <= now
         /\ pending' = [pending EXCEPT ![sweep'[w].row] = now + Lease]
         /\ \A v \in Sweep : v # w => sweep'[v] = sweep[v]
         /\ UNCHANGED <<now, events, nextId, closed, told, muted, failures>>
         /\ DOMAIN sweep'[w].todo \subseteq DOMAIN sweep[w].todo
         /\ \A id \in DOMAIN sweep'[w].todo : sweep'[w].todo[id] = sweep[w].todo[id]
<1>1. PICK id, todo :
        /\ id \in DOMAIN sweep[w].todo
        /\ todo = Delete(sweep[w].todo, {id})
        /\ Unclaimed(id, sweep[w].todo[id])
        /\ pending' = Hold(id)
        /\ sweep' = [sweep EXCEPT ![w] = Holding("load", id, now, todo)]
  BY DEF Claim
<1>2. /\ sweep'[w] = Holding("load", id, now, todo)
      /\ \A v \in Sweep : v # w => sweep'[v] = sweep[v]
  BY <1>1, OneSweep DEF EmailTypeOK
<1>3. sweep'[w].row = id /\ sweep'[w].since = now /\ sweep'[w].pc = "load" /\ sweep'[w].todo = todo
  BY <1>2, SweepFields
<1>4. sweep[w].pc = "claim" /\ sweep[w] # Idle
  BY DEF Claim, Idle
<1>5. id \in DOMAIN pending /\ pending[id] <= now
  BY <1>1, <1>4 DEF Unclaimed, TodoWasDue
<1>6. DOMAIN todo \subseteq DOMAIN sweep[w].todo /\ \A k \in DOMAIN todo : todo[k] = sweep[w].todo[k]
  BY <1>1, Zenon DEF Delete, Restrict
<1>7. UNCHANGED <<now, events, nextId, closed, told, muted, failures>>
  BY DEF Claim, ticketRest
<1>8. pending' = [pending EXCEPT ![id] = now + Lease]
  BY <1>1 DEF Hold
<1>9. IsHolding(w)'
  BY <1>3 DEF IsHolding
<1> QED
  BY <1>2, <1>3, <1>4, <1>5, <1>6, <1>7, <1>8, <1>9

\* Steps that leave the sweep v where it is.
LEMMA OtherSweep ==
  ASSUME EmailTypeOK, [EmailNext]_allVars, NEW v \in Sweep, ~Work(v), ~Fail(v)
  PROVE  sweep'[v] = sweep[v]
<1>1. sweep = [w \in Sweep |-> sweep[w]] /\ (\A w \in Sweep : SweepState(sweep[w])) /\ TypeOK
  BY DEF EmailTypeOK
<1>2. CASE Requests \/ Close \/ Pass \/ StopNotifications \/ ChangeAddress \/ UNCHANGED allVars
  BY <1>1, <1>2, QueueStep
<1>3. ASSUME NEW w \in Sweep, Work(w) \/ Fail(w) PROVE sweep'[v] = sweep[v]
  <2>1. w # v
    BY <1>3
  <2>2. CASE Load(w) \/ Send(w)
    BY <1>1, <2>1, <2>2, LoadStep, SendStep
  <2>3. CASE ReadDue(w) \/ Claim(w) \/ Skip(w) \/ Finish(w) \/ Fail(w)
    <3>1. \E s : sweep' = [sweep EXCEPT ![w] = s]
      BY <2>3 DEF ReadDue, Claim, Skip, Finish, Fail
    <3> QED
      BY <1>1, <2>1, <3>1, OneSweep
  <2> QED
    BY <1>3, <2>2, <2>3 DEF Work
<1> QED
  BY <1>2, <1>3 DEF EmailNext

\* A sweep that works on a row after a step has just claimed it, or worked
\* on it before: then it read the ticket, sent the email, or did nothing.
LEMMA WhoHolds ==
  ASSUME EmailTypeOK, [EmailNext]_allVars, NEW v \in Sweep, IsHolding(v)'
  PROVE  \/ Claim(v)
         \/ /\ IsHolding(v)
            /\ sweep'[v].row = sweep[v].row /\ sweep'[v].since = sweep[v].since
            /\ sweep'[v].todo = sweep[v].todo
            /\ Load(v) \/ Send(v) \/ sweep'[v] = sweep[v]
<1>1. sweep = [w \in Sweep |-> sweep[w]] /\ SweepState(sweep[v])
  BY DEF EmailTypeOK
<1>2. CASE ~Work(v) /\ ~Fail(v)
  BY <1>2, OtherSweep DEF IsHolding
<1>3. CASE Load(v) \/ Send(v)
  BY <1>1, <1>3, LoadStep, SendStep, SweepFields
<1>4. CASE ReadDue(v) \/ Skip(v) \/ Finish(v) \/ Fail(v)
  <2>1. \/ \E todo : sweep' = [sweep EXCEPT ![v] = Claiming(todo)]
        \/ \E todo : sweep' = [sweep EXCEPT ![v] = Resume(todo)]
        \/ sweep' = [sweep EXCEPT ![v] = Idle]
    BY <1>4 DEF ReadDue, Skip, Finish, Fail
  <2>2. \E todo : sweep'[v] = Idle \/ sweep'[v] = Claiming(todo)
    BY <1>1, <2>1 DEF Resume
  <2> QED
    BY <2>2, SweepFields DEF IsHolding
<1> QED
  BY <1>2, <1>3, <1>4 DEF Work

\* The rows of the queue after a step: the new change's, and rows that were
\* there, held for longer if at all changed.
LEMMA RowsAfter ==
  ASSUME EmailTypeOK, TodoWasDue, [EmailNext]_allVars, NEW id \in DOMAIN pending'
  PROVE  id = nextId \/ (id \in DOMAIN pending /\ pending[id] <= pending'[id])
<1>1. TypeOK /\ now \in Nat /\ \A k \in DOMAIN pending : pending[k] \in Nat
  BY DEF EmailTypeOK, TypeOK, IsTable
<1>2. CASE Requests \/ Close \/ Pass \/ StopNotifications \/ ChangeAddress \/ UNCHANGED allVars
  BY <1>1, <1>2, QueueStep
<1>3. ASSUME NEW w \in Sweep, Claim(w)
      PROVE  id \in DOMAIN pending /\ pending[id] <= pending'[id]
  BY <1>1, <1>3, ClaimStep, TimesAssumption
<1>4. ASSUME NEW w \in Sweep, Finish(w)
      PROVE  id \in DOMAIN pending /\ pending[id] <= pending'[id]
  <2>1. pending' = Delete(pending, {sweep[w].row})
    BY <1>4 DEF Finish, Done
  <2>2. id \in DOMAIN pending /\ pending'[id] = pending[id]
    BY <2>1 DEF Delete, Restrict
  <2> QED
    BY <1>1, <2>2
<1>5. ASSUME NEW w \in Sweep, ReadDue(w) \/ Skip(w) \/ Load(w) \/ Send(w) \/ Fail(w)
      PROVE  pending' = pending
  BY <1>5 DEF ReadDue, Skip, Load, Send, Fail, ticketVars
<1> QED
  BY <1>1, <1>2, <1>3, <1>4, <1>5 DEF EmailNext, Work

\* Only the clock changes the time, and it waits for the sweeps.
LEMMA ClockWaits ==
  ASSUME [EmailNext]_allVars, NEW v \in Sweep, IsHolding(v)
  PROVE  now' = now \/ (now' = now + 1 /\ now < sweep[v].since + SendMax)
<1>1. CASE Requests \/ Close \/ StopNotifications \/ ChangeAddress \/ UNCHANGED allVars
  BY <1>1 DEF Requests, Serve, BeginChange, BeginUndo, CommitChange, CommitUndo, Rollback,
              Close, RemoveLocation, StopNotifications, ChangeAddress, ticketVars, allVars
<1>2. CASE Pass
  BY <1>2 DEF Pass, Tick
<1>3. ASSUME NEW w \in Sweep, Work(w) \/ Fail(w) PROVE now' = now
  BY <1>3 DEF Work, ReadDue, Claim, Skip, Load, Send, Finish, Fail, ticketVars, ticketRest
<1> QED
  BY <1>1, <1>2, <1>3 DEF EmailNext

\* Claims stay due, leases stay longer than the work on a row, and so no
\* two sweeps ever work on the same row.
LEMMA ClaimsInv ==
  ASSUME EmailInv, EmailTypeOK', [TicketNext]_ticketVars, [EmailNext]_allVars
  PROVE  TodoWasDue' /\ HeldRows' /\ OneHolder'
<1>1. /\ TicketInv /\ EmailTypeOK /\ TypeOK /\ TodoWasDue /\ HeldRows /\ OneHolder
      /\ sweep = [w \in Sweep |-> sweep[w]] /\ \A w \in Sweep : SweepState(sweep[w])
  BY DEF EmailInv, EmailTypeOK
<1>2. /\ now \in Nat /\ now' \in Nat /\ now <= now'
      /\ \A k \in DOMAIN pending : pending[k] \in Nat
  BY <1>1, TimelineStep DEF TypeOK, IsTable
<1>3. ASSUME NEW v \in Sweep, IsHolding(v)
      PROVE  sweep[v].since \in Nat /\ sweep[v].row \in 1 .. nextId - 1
  BY <1>1, <1>3, HoldingShape
<1>4. ASSUME NEW v \in Sweep, sweep[v] # Idle, NEW id \in DOMAIN sweep[v].todo
      PROVE  sweep[v].todo[id] <= now'
  <2>1. SweepState(sweep[v])
    BY <1>1
  <2>2. Rest(sweep[v].todo)
    BY <1>4, <2>1 DEF SweepState
  <2>3. sweep[v].todo[id] \in Nat /\ sweep[v].todo[id] <= now
    BY <1>1, <1>4, <2>2 DEF Rest, IsTable, TodoWasDue
  <2> QED
    BY <1>2, <2>3
<1>5. ASSUME NEW v \in Sweep, sweep'[v] # Idle, NEW id \in DOMAIN sweep'[v].todo
      PROVE  sweep'[v].todo[id] <= now'
  <2>1. CASE sweep'[v] = sweep[v]
    BY <1>4, <1>5, <2>1
  <2>2. CASE Claim(v)
    <3>1. sweep[v] # Idle
      BY <1>1, <2>2, ClaimStep, SweepFields
    <3>2. id \in DOMAIN sweep[v].todo /\ sweep'[v].todo[id] = sweep[v].todo[id]
      BY <1>1, <1>5, <2>2, ClaimStep
    <3> QED
      BY <1>4, <3>1, <3>2
  <2>3. CASE Load(v) \/ Send(v)
    <3>1. IsHolding(v) /\ sweep'[v].todo = sweep[v].todo
      BY <1>1, <2>3, LoadStep, SendStep, SweepFields
    <3>2. sweep[v] # Idle
      BY <1>1, <3>1, HoldingShape
    <3> QED
      BY <1>4, <1>5, <3>1, <3>2
  <2>4. CASE ReadDue(v)
    <3>1. PICK todo : todo = Restrict(pending, Due)
      OBVIOUS
    <3>2. sweep'[v] = Claiming(todo)
      BY <1>1, <2>4, <3>1, OneSweep DEF ReadDue
    <3>3. sweep'[v].todo = todo
      BY <3>2, SweepFields
    <3>4. id \in Due /\ todo[id] = pending[id]
      BY <1>5, <3>1, <3>3 DEF Restrict, Due
    <3> QED
      BY <1>2, <3>3, <3>4 DEF Due
  <2>5. CASE Skip(v) \/ Finish(v)
    <3>1. PICK todo :
            /\ sweep' = [sweep EXCEPT ![v] = Resume(todo)]
            /\ DOMAIN todo \subseteq DOMAIN sweep[v].todo
            /\ \A k \in DOMAIN todo : todo[k] = sweep[v].todo[k]
      <4>1. CASE Skip(v)
        <5>1. PICK k : sweep' = [sweep EXCEPT ![v] = Resume(Delete(sweep[v].todo, {k}))]
          BY <4>1 DEF Skip
        <5>2. PICK todo : todo = Delete(sweep[v].todo, {k})
          OBVIOUS
        <5>3. /\ DOMAIN todo \subseteq DOMAIN sweep[v].todo
              /\ \A j \in DOMAIN todo : todo[j] = sweep[v].todo[j]
          BY <5>2, Zenon DEF Delete, Restrict
        <5> QED
          BY <5>1, <5>2, <5>3
      <4>2. CASE Finish(v)
        BY <4>2 DEF Finish
      <4> QED
        BY <2>5, <4>1, <4>2
    <3>2. sweep'[v] = Resume(todo)
      BY <1>1, <3>1
    <3>3. sweep'[v] = Claiming(todo)
      BY <1>5, <3>2 DEF Resume
    <3>4. sweep'[v].todo = todo
      BY <3>3, SweepFields
    <3>5. sweep[v] # Idle
      BY <2>5, SweepFields DEF Skip, Finish
    <3> QED
      BY <1>4, <1>5, <3>1, <3>4, <3>5
  <2>6. CASE Fail(v)
    BY <1>1, <1>5, <2>6, OneSweep DEF Fail
  <2>7. CASE ~Work(v) /\ ~Fail(v)
    BY <1>1, <2>1, <2>7, OtherSweep
  <2> QED
    BY <2>2, <2>3, <2>4, <2>5, <2>6, <2>7 DEF Work
<1>6. TodoWasDue'
  BY <1>5 DEF TodoWasDue
<1>7. ASSUME NEW v \in Sweep, Claim(v)
      PROVE  /\ Ripe(sweep[v].row)'
             /\ sweep'[v].since = now' /\ now' = now
             /\ sweep'[v].row \in DOMAIN pending /\ pending[sweep'[v].row] <= now
             /\ pending'[sweep'[v].row] = now + Lease
             /\ sweep[v].pc = "claim" /\ \A w \in Sweep : w # v => sweep'[w] = sweep[w]
  <2>1. PICK id : id = sweep'[v].row
    OBVIOUS
  <2>2. id \in DOMAIN pending /\ pending[id] <= now /\ id \in DOMAIN events
    BY <1>1, <1>7, <2>1, ClaimStep DEF TypeOK
  <2>3. events[id].at + NotifyDelay <= pending[id]
    BY <1>1, <2>2 DEF TicketInv, QueuedAfterDelay
  <2>4. events[id].at \in Nat /\ pending[id] \in Nat
    BY <1>1, <2>2 DEF TypeOK, IsTable, Event
  <2>5. Ripe(id)
    BY <1>2, <2>2, <2>3, <2>4, TimesAssumption DEF Ripe
  <2>6. Ripe(sweep[v].row)'
    BY <1>1, <1>7, <2>1, <2>5, ClaimStep DEF Ripe
  <2> QED
    BY <1>1, <1>7, <2>1, <2>2, <2>6, ClaimStep
<1>8. ASSUME NEW v \in Sweep, IsHolding(v), NEW id, id = sweep[v].row
      PROVE  /\ Ripe(id)'
             /\ sweep[v].since <= now' /\ now' <= sweep[v].since + SendMax
             /\ id \in DOMAIN pending' => sweep[v].since + Lease <= pending'[id]
  <2>1. Ripe(id) /\ Ripe(id)'
    BY <1>1, <1>8, RipeStays DEF HeldRows
  <2>2. sweep[v].since \in Nat /\ id \in 1 .. nextId - 1 /\ nextId \in Nat
    BY <1>1, <1>3, <1>8 DEF TypeOK
  <2>3. sweep[v].since <= now' /\ now' <= sweep[v].since + SendMax
    BY <1>1, <1>2, <1>8, <2>2, ClockWaits, SendAssumption DEF HeldRows
  <2>4. ASSUME id \in DOMAIN pending' PROVE sweep[v].since + Lease <= pending'[id]
    <3>1. id \in DOMAIN pending /\ pending[id] <= pending'[id]
      BY <1>1, <2>2, <2>4, RowsAfter
    <3>2. pending[id] \in Nat /\ pending'[id] \in Nat
      BY <1>2, <2>4, <3>1 DEF EmailTypeOK, TypeOK, IsTable
    <3> QED
      BY <1>1, <1>8, <2>2, <3>1, <3>2, TimesAssumption DEF HeldRows
  <2> QED
    BY <2>1, <2>3, <2>4
<1>9. HeldRows'
  <2> SUFFICES ASSUME NEW v \in Sweep, IsHolding(v)'
               PROVE  /\ Ripe(sweep[v].row)'
                      /\ sweep'[v].since <= now' /\ now' <= sweep'[v].since + SendMax
                      /\ sweep'[v].row \in DOMAIN pending'
                           => sweep'[v].since + Lease <= pending'[sweep'[v].row]
    BY DEF HeldRows
  <2>1. CASE Claim(v)
    <3>1. sweep'[v].since = now /\ now' = now /\ pending'[sweep'[v].row] = now + Lease
      BY <1>7, <2>1
    <3> QED
      BY <1>2, <1>7, <2>1, <3>1, SendAssumption, TimesAssumption
  <2>2. CASE IsHolding(v) /\ sweep'[v].row = sweep[v].row /\ sweep'[v].since = sweep[v].since
    BY <1>8, <2>2 DEF Ripe
  <2> QED
    BY <1>1, <2>1, <2>2, WhoHolds
<1>10. ASSUME NEW v \in Sweep, NEW w \in Sweep, v # w, Claim(v), IsHolding(w)
       PROVE  sweep'[v].row # sweep'[w].row
  <2>1. sweep'[w] = sweep[w]
    BY <1>7, <1>10
  <2> SUFFICES ASSUME sweep'[v].row = sweep[w].row PROVE FALSE
    BY <2>1
  <2>2. sweep[w].row \in DOMAIN pending /\ pending[sweep[w].row] <= now
    BY <1>7, <1>10
  <2>3. now <= sweep[w].since + SendMax /\ sweep[w].since + Lease <= pending[sweep[w].row]
    BY <1>1, <1>10, <2>2 DEF HeldRows
  <2> QED
    BY <1>2, <1>3, <1>10, <2>2, <2>3, SendAssumption, TimesAssumption
<1>11. OneHolder'
  <2> SUFFICES ASSUME NEW v \in Sweep, NEW w \in Sweep, v # w, IsHolding(v)', IsHolding(w)'
               PROVE  sweep'[v].row # sweep'[w].row
    BY DEF OneHolder
  <2>1. CASE Claim(v)
    <3>1. ~Claim(w)
      BY <1>1, <1>7, <2>1, ClaimStep
    <3> QED
      BY <1>1, <1>10, <2>1, <3>1, WhoHolds
  <2>2. CASE Claim(w)
    <3>1. ~Claim(v)
      BY <1>1, <1>7, <2>2, ClaimStep
    <3> QED
      BY <1>1, <1>10, <2>2, <3>1, WhoHolds
  <2>3. CASE ~Claim(v) /\ ~Claim(w)
    BY <1>1, <2>3, WhoHolds DEF OneHolder
  <2> QED
    BY <2>1, <2>2, <2>3
<1> QED
  BY <1>6, <1>9, <1>11

-----------------------------------------------------------------------------
(* What the customer is told, and when.                                    *)

\* Only a send tells the customer of a change: the one it works on.
LEMMA ToldAfter ==
  ASSUME EmailTypeOK, [EmailNext]_allVars
  PROVE  \/ told' = told
         \/ \E w \in Sweep :
              /\ Send(w)
              /\ DOMAIN told' = DOMAIN told \cup {Len(told) + 1}
              /\ \A k \in DOMAIN told : told'[k] = told[k] /\ k < Len(told) + 1
              /\ told'[Len(told) + 1] = sweep[w].row
<1>1. CASE Requests \/ Close \/ Pass \/ StopNotifications \/ ChangeAddress \/ UNCHANGED allVars
  BY <1>1, QueueStep DEF EmailTypeOK
<1>2. ASSUME NEW w \in Sweep, Send(w)
      PROVE  /\ DOMAIN told' = DOMAIN told \cup {Len(told) + 1}
             /\ \A k \in DOMAIN told : told'[k] = told[k] /\ k < Len(told) + 1
             /\ told'[Len(told) + 1] = sweep[w].row
  <2>1. told' = Append(told, sweep[w].row) /\ told \in Seq(1 .. nextId - 1)
    BY <1>2 DEF Send, EmailTypeOK
  <2> QED
    BY <2>1
<1>3. ASSUME NEW w \in Sweep, ReadDue(w) \/ Claim(w) \/ Skip(w) \/ Load(w) \/ Finish(w) \/ Fail(w)
      PROVE  told' = told
  BY <1>3 DEF ReadDue, Claim, Skip, Load, Finish, Fail
<1> QED
  BY <1>1, <1>2, <1>3 DEF EmailNext, Work

\* What was told or muted stays so.
LEMMA ToldStays ==
  ASSUME EmailTypeOK, [EmailNext]_allVars
  PROVE  muted \subseteq muted' /\ \A id : WasTold(id) => WasTold(id)'
<1>1. muted \subseteq muted'
  <2>1. CASE Requests \/ Close \/ Pass \/ StopNotifications \/ ChangeAddress \/ UNCHANGED allVars
    BY <2>1, QueueStep DEF EmailTypeOK
  <2>2. ASSUME NEW w \in Sweep, Load(w) PROVE muted \subseteq muted'
    <3>1. muted' = muted \/ muted' = muted \cup {sweep[w].row}
      BY <2>2, Zenon DEF Load
    <3> QED
      BY <3>1
  <2>3. ASSUME NEW w \in Sweep, ReadDue(w) \/ Claim(w) \/ Skip(w) \/ Send(w) \/ Finish(w) \/ Fail(w)
        PROVE  muted' = muted
    BY <2>3 DEF ReadDue, Claim, Skip, Send, Finish, Fail
  <2> QED
    BY <2>1, <2>2, <2>3 DEF EmailNext, Work
<1>2. ASSUME NEW id, WasTold(id) PROVE WasTold(id)'
  BY <1>2, ToldAfter DEF WasTold
<1> QED
  BY <1>1, <1>2

\* How a row leaves the queue: with the location, with its event, or
\* because a sweep is done with it.
LEMMA RowsLost ==
  ASSUME EmailTypeOK, [EmailNext]_allVars, NEW id \in DOMAIN pending, id \notin DOMAIN pending'
  PROVE  \/ closed' /\ id \in muted'
         \/ id \notin DOMAIN events'
         \/ \E w \in Sweep : Finish(w) /\ sweep[w].row = id
<1>1. ASSUME Requests PROVE id \notin DOMAIN events'
  <2>1. ASSUME NEW t \in Request, CommitChange(t) PROVE id \in DOMAIN pending'
    BY <2>1 DEF CommitChange, Queue, Insert
  <2>2. ASSUME NEW t \in Request, CommitUndo(t) PROVE id \notin DOMAIN events'
    <3>1. DOMAIN pending' = DOMAIN pending \ {tx[t].latest} /\ DOMAIN events' = DOMAIN events \ {tx[t].latest}
      BY <2>2, DeleteRows DEF CommitUndo, DeleteEvent
    <3> QED
      BY <3>1
  <2> QED
    BY <1>1, <2>1, <2>2 DEF Requests, Serve, BeginChange, BeginUndo, Rollback
<1>2. CASE Close
  BY <1>2 DEF Close, RemoveLocation
<1>3. CASE Pass \/ StopNotifications \/ ChangeAddress \/ UNCHANGED allVars
  BY <1>3 DEF Pass, Tick, StopNotifications, ChangeAddress, ticketVars, allVars
<1>4. ASSUME NEW w \in Sweep, Finish(w) PROVE sweep[w].row = id
  <2>1. DOMAIN pending' = DOMAIN pending \ {sweep[w].row}
    BY <1>4, DeleteRows DEF Finish, Done
  <2> QED
    BY <2>1
<1>5. ASSUME NEW w \in Sweep, ReadDue(w) \/ Claim(w) \/ Skip(w) \/ Load(w) \/ Send(w) \/ Fail(w)
      PROVE  FALSE
  <2>1. DOMAIN pending' = DOMAIN pending
    <3>1. CASE Claim(w)
      <4>1. PICK k : pending' = Hold(k)
        BY <3>1 DEF Claim
      <4> QED
        BY <4>1 DEF Hold
    <3>2. CASE ReadDue(w) \/ Skip(w) \/ Load(w) \/ Send(w) \/ Fail(w)
      BY <3>2 DEF ReadDue, Skip, Load, Send, Fail, ticketVars
    <3> QED
      BY <1>5, <3>1, <3>2
  <2> QED
    BY <2>1
<1> QED
  BY <1>1, <1>2, <1>3, <1>4, <1>5 DEF EmailNext, Work

\* A change its email was due for stays as good as the latest: one made
\* since is younger than that.
LEMMA NotSupersededStays ==
  ASSUME TicketInv, [TicketNext]_ticketVars, NEW id, Ripe(id), NotSuperseded(id)
  PROVE  NotSuperseded(id)'
<1>1. TypeOK
  BY DEF TicketInv
<1>2. events'[id] = events[id]
  BY RipeStays
<1>3. ASSUME NEW later \in DOMAIN events', id < later
      PROVE  events[id].at + NotifyDelay <= events'[later].at
  <2>1. CASE later \in DOMAIN events
    BY <1>1, <1>3, <2>1, TimelineStep DEF NotSuperseded
  <2>2. CASE later \notin DOMAIN events
    <3>1. events'[later].at = now
      BY <1>1, <1>3, <2>2, TimelineStep
    <3> QED
      BY <3>1 DEF Ripe
  <2> QED
    BY <2>1, <2>2
<1> QED
  BY <1>2, <1>3 DEF NotSuperseded

\* An email is made of a permanent change, and of the latest one there was
\* when it was due.
LEMMA ToldInv ==
  ASSUME EmailInv, EmailTypeOK', [TicketNext]_ticketVars, [EmailNext]_allVars
  PROVE  SendsTheLatest' /\ ToldAreRipe' /\ SupersededNeverTold'
<1>1. /\ TicketInv /\ EmailTypeOK /\ TypeOK /\ HeldRows
      /\ SendsTheLatest /\ ToldAreRipe /\ SupersededNeverTold
      /\ sweep = [w \in Sweep |-> sweep[w]] /\ \A w \in Sweep : SweepState(sweep[w])
  BY DEF EmailInv, EmailTypeOK
<1>2. /\ nextId \in Nat /\ nextId' \in Nat
      /\ DOMAIN events \subseteq 1 .. nextId - 1 /\ DOMAIN events' \subseteq 1 .. nextId' - 1
  BY <1>1 DEF EmailTypeOK, TypeOK
<1>3. ASSUME NEW id, Ripe(id), NotSuperseded(id)
      PROVE  /\ Ripe(id)' /\ NotSuperseded(id)'
  BY <1>1, <1>3, RipeStays, NotSupersededStays
<1>4. ASSUME NEW w \in Sweep, IsHolding(w), sweep[w].pc = "send", NEW id, id = sweep[w].row
      PROVE  Ripe(id) /\ NotSuperseded(id)
  BY <1>1, <1>4 DEF HeldRows, SendsTheLatest, Ripe, NotSuperseded
<1>5. ASSUME NEW k \in DOMAIN told, NEW id, id = told[k]
      PROVE  Ripe(id) /\ NotSuperseded(id)
  <2>1. Ripe(id) /\ WasTold(id)
    BY <1>1, <1>5 DEF ToldAreRipe, Ripe, WasTold
  <2> QED
    BY <1>1, <2>1 DEF SupersededNeverTold, NotSuperseded, Ripe
<1>6. SendsTheLatest'
  <2> SUFFICES ASSUME NEW v \in Sweep, sweep'[v].pc = "send", NEW id, id = sweep'[v].row
               PROVE  NotSuperseded(id)'
    BY DEF SendsTheLatest, NotSuperseded
  <2>1. IsHolding(v)'
    BY DEF IsHolding
  <2>2. CASE Load(v)
    <3>1. Deliverable(id)
      BY <1>1, <2>2, LoadStep, SweepFields
    <3>2. events' = events /\ id \in DOMAIN events
      BY <2>2, <3>1 DEF Load, ticketVars, Deliverable, StillCurrent, IsLatest
    <3> QED
      BY <1>2, <3>1, <3>2 DEF Deliverable, StillCurrent, IsLatest, NotSuperseded
  <2>3. CASE IsHolding(v) /\ sweep'[v] = sweep[v]
    BY <1>3, <1>4, <2>3
  <2>4. CASE Claim(v)
    BY <1>1, <2>4, ClaimStep DEF EmailInv
  <2>5. CASE Send(v)
    BY <1>1, <2>5, SendStep, SweepFields
  <2> QED
    BY <1>1, <2>1, <2>2, <2>3, <2>4, <2>5, WhoHolds
<1>7. ASSUME NEW k \in DOMAIN told', NEW id, id = told'[k]
      PROVE  Ripe(id)' /\ NotSuperseded(id)'
  <2>1. CASE k \in DOMAIN told /\ told'[k] = told[k]
    BY <1>3, <1>5, <1>7, <2>1
  <2>2. ASSUME NEW w \in Sweep, Send(w), id = sweep[w].row PROVE Ripe(id) /\ NotSuperseded(id)
    BY <1>4, <2>2 DEF Send, IsHolding
  <2> QED
    BY <1>1, <1>3, <1>7, <2>1, <2>2, ToldAfter
<1>8. ToldAreRipe'
  <2> SUFFICES ASSUME NEW k \in DOMAIN told', NEW id, id = told'[k] PROVE Ripe(id)'
    BY DEF ToldAreRipe, Ripe
  <2> QED
    BY <1>7
<1>9. SupersededNeverTold'
  <2> SUFFICES ASSUME NEW i \in DOMAIN events', NEW j \in DOMAIN events',
                      NEW k \in DOMAIN told', i = told'[k], i < j
               PROVE  events'[i].at + NotifyDelay <= events'[j].at
    BY DEF SupersededNeverTold, WasTold
  <2> QED
    BY <1>7 DEF NotSuperseded
<1> QED
  BY <1>6, <1>8, <1>9

\* An id that is the last one given after a step was so before it.
LEMMA LastIdStays ==
  \A before \in Nat, after \in Nat : before <= after =>
    \A id \in 1 .. before - 1 : id = after - 1 => id = before - 1
OBVIOUS

\* The latest change is never lost: only an undo or a deleted location
\* takes its row away, or a sweep that told the customer, found that they
\* get no email, or had nothing to tell. A superseded row is not the
\* latest change's.
LEMMA LastWordInv ==
  ASSUME EmailInv, EmailTypeOK', [TicketNext]_ticketVars, [EmailNext]_allVars
  PROVE  LoadsQueued' /\ FinishesForAReason' /\ LastWordAnnounced'
<1>1. /\ TicketInv /\ EmailTypeOK /\ TypeOK /\ TodoWasDue /\ HeldRows /\ OneHolder
      /\ LoadsQueued /\ FinishesForAReason /\ LastWordAnnounced
      /\ sweep = [w \in Sweep |-> sweep[w]] /\ \A w \in Sweep : SweepState(sweep[w])
  BY DEF EmailInv, EmailTypeOK
<1>2. /\ nextId \in Nat /\ nextId' \in Nat /\ nextId <= nextId'
      /\ DOMAIN events \subseteq 1 .. nextId - 1 /\ DOMAIN pending \subseteq DOMAIN events
  BY <1>1, TimelineStep DEF TypeOK
<1>3. ASSUME NEW v \in Sweep, IsHolding(v), NEW id, id = sweep[v].row
      PROVE  id \in 1 .. nextId - 1 /\ id \in DOMAIN events /\ id \in DOMAIN events' /\ events'[id] = events[id]
  BY <1>1, <1>3, HoldingShape, RipeStays DEF HeldRows, Ripe
<1>4. LoadsQueued'
  <2> SUFFICES ASSUME NEW v \in Sweep, sweep'[v].pc = "load", ~closed'
               PROVE  sweep'[v].row \in DOMAIN pending'
    BY DEF LoadsQueued
  <2>1. IsHolding(v)'
    BY DEF IsHolding
  <2>2. CASE Claim(v)
    BY <1>1, <2>2, ClaimStep
  <2>3. CASE Load(v) \/ Send(v)
    BY <1>1, <2>3, LoadStep, SendStep, SweepFields
  <2>4. CASE IsHolding(v) /\ sweep'[v] = sweep[v]
    <3>1. PICK id : id = sweep[v].row
      OBVIOUS
    <3>2. id \in DOMAIN pending
      BY <1>1, <2>4, <3>1, TimelineStep DEF LoadsQueued
    <3>3. id \in DOMAIN events'
      BY <1>3, <2>4, <3>1
    <3>4. ASSUME NEW w \in Sweep, Finish(w), sweep[w].row = id PROVE FALSE
      <4>1. IsHolding(w) /\ w # v
        BY <2>4, <3>4 DEF Finish, IsHolding
      <4> QED
        BY <1>1, <2>4, <3>1, <3>4, <4>1 DEF OneHolder
    <3>5. id \in DOMAIN pending'
      BY <1>1, <3>2, <3>3, <3>4, RowsLost
    <3> QED
      BY <2>4, <3>1, <3>5
  <2> QED
    BY <1>1, <2>1, <2>2, <2>3, <2>4, WhoHolds
<1>5. FinishesForAReason'
  <2> SUFFICES ASSUME NEW v \in Sweep, sweep'[v].pc = "finish", sweep'[v].row = nextId' - 1,
                      NEW id, id = sweep'[v].row
               PROVE  \/ WasTold(id)'
                      \/ id \in muted'
                      \/ ~isNotifyingStatus(events'[id].status)
    BY DEF FinishesForAReason, WasTold
  <2>1. IsHolding(v)'
    BY DEF IsHolding
  <2>2. ~Claim(v)
    BY <1>1, ClaimStep
  <2>3. IsHolding(v) /\ id = sweep[v].row
    BY <1>1, <2>1, <2>2, WhoHolds
  <2>4. id = nextId - 1 /\ events'[id] = events[id] /\ id \in DOMAIN events
    <3>1. id \in 1 .. nextId - 1 /\ id \in DOMAIN events /\ events'[id] = events[id]
      BY <1>3, <2>3
    <3>2. id = nextId' - 1 /\ nextId' >= nextId /\ nextId' \in Nat /\ nextId \in Nat
      BY <1>2
    <3>3. id = nextId - 1
      BY <3>1, <3>2, LastIdStays
    <3> QED
      BY <3>1, <3>3
  <2>5. CASE sweep'[v] = sweep[v]
    <3>1. WasTold(id) \/ id \in muted \/ ~isNotifyingStatus(events[id].status)
      BY <1>1, <2>3, <2>4, <2>5 DEF FinishesForAReason
    <3> QED
      BY <1>1, <2>4, <3>1, ToldStays
  <2>6. CASE Load(v)
    <3>1. ~Deliverable(id)
      BY <1>1, <2>3, <2>6, LoadStep, SweepFields
    <3>2. StillCurrent(id)
      BY <1>2, <2>4 DEF StillCurrent, IsLatest
    <3>3. CASE Silenced
      BY <2>3, <2>6, <3>3, Zenon DEF Load
    <3>4. CASE ~Silenced
      BY <2>4, <3>1, <3>2, <3>4 DEF Deliverable
    <3> QED
      BY <3>3, <3>4
  <2>7. CASE Send(v)
    <3>1. told' = Append(told, id) /\ told \in Seq(1 .. nextId - 1)
      BY <1>1, <2>3, <2>7 DEF Send, EmailTypeOK
    <3>2. Len(told) + 1 \in DOMAIN told' /\ told'[Len(told) + 1] = id
      BY <3>1
    <3> QED
      BY <3>2 DEF WasTold
  <2> QED
    BY <1>1, <2>1, <2>2, <2>5, <2>6, <2>7, WhoHolds
<1>6. LastWordAnnounced'
  <2> SUFFICES ASSUME NEW id, id = nextId' - 1, id \in DOMAIN events',
                      isNotifyingStatus(events'[id].status),
                      id \notin DOMAIN pending', id \notin muted'
               PROVE  WasTold(id)'
    BY DEF LastWordAnnounced, WasTold
  <2>1. id \in DOMAIN events
    <3> SUFFICES ASSUME id \notin DOMAIN events PROVE FALSE
      OBVIOUS
    <3>1. id = nextId
      BY <1>1, TimelineStep
    <3>2. PICK t \in Request : CommitChange(t)
      <4>1. ASSUME NEW t \in Request, CommitUndo(t) PROVE id \in DOMAIN events
        BY <4>1, DeleteRows DEF CommitUndo, DeleteEvent
      <4> QED
        BY <4>1 DEF TicketNext, Serve, BeginChange, BeginUndo, Rollback, RemoveLocation,
                    HoldPending, SettlePending, Tick, ticketVars
    <3>3. events'[id].status = tx[t].to
      BY <3>1, <3>2 DEF CommitChange, Insert
    <3>4. id \in DOMAIN pending'
      BY <3>1, <3>2, <3>3 DEF CommitChange, Queue, Insert
    <3> QED
      BY <3>4
  <2>2. id = nextId - 1 /\ events'[id] = events[id]
    BY <1>1, <1>2, <2>1, TimelineStep
  <2>3. id \in DOMAIN pending \/ id \in muted \/ WasTold(id)
    BY <1>1, <2>1, <2>2 DEF LastWordAnnounced
  <2>4. ASSUME NEW w \in Sweep, Finish(w), sweep[w].row = id
        PROVE  WasTold(id) \/ id \in muted
    BY <1>1, <2>2, <2>4 DEF FinishesForAReason, Finish
  <2>5. id \in muted \/ WasTold(id)
    BY <1>1, <2>3, <2>4, RowsLost
  <2> QED
    BY <1>1, <2>5, ToldStays
<1> QED
  BY <1>4, <1>5, <1>6

-----------------------------------------------------------------------------
(* Repeats.                                                                *)

\* A part of an interval is finite.
LEMMA FinitePart ==
  ASSUME NEW n \in Int, NEW S, S \subseteq 1 .. n
  PROVE  IsFiniteSet(S) /\ Cardinality(S) \in Nat
<1>1. IsFiniteSet(1 .. n)
  BY FS_Interval
<1>2. IsFiniteSet(S)
  BY <1>1, FS_Subset
<1> QED
  BY <1>2, FS_CardinalityType

\* One more element.
LEMMA OneMore ==
  ASSUME NEW S, IsFiniteSet(S), NEW x
  PROVE  IsFiniteSet(S \cup {x}) /\ Cardinality(S \cup {x}) <= Cardinality(S) + 1
<1>1. Cardinality(S) \in Nat
  BY FS_CardinalityType
<1>2. /\ IsFiniteSet(S \cup {x})
      /\ Cardinality(S \cup {x}) = IF x \in S THEN Cardinality(S) ELSE Cardinality(S) + 1
  BY FS_AddElement
<1> QED
  BY <1>1, <1>2

\* A row does not come back: a change whose email is on the queue, or about
\* to be sent, is a new one or was so before.
LEMMA WaitedBefore ==
  ASSUME EmailInv, [EmailNext]_allVars, NEW id \in 1 .. nextId - 1,
         id \in DOMAIN pending' \/ Sending(id)'
  PROVE  id \in DOMAIN pending \/ Sending(id)
<1>1. /\ EmailTypeOK /\ TypeOK /\ TodoWasDue /\ LoadsQueued
      /\ sweep = [w \in Sweep |-> sweep[w]] /\ \A w \in Sweep : SweepState(sweep[w])
  BY DEF EmailInv, EmailTypeOK
<1>2. id \in 1 .. nextId - 1 /\ nextId \in Nat
  BY <1>1 DEF TypeOK
<1>3. ASSUME id \in DOMAIN pending' PROVE id \in DOMAIN pending
  BY <1>1, <1>2, <1>3, RowsAfter
<1>4. ASSUME Sending(id)' PROVE id \in DOMAIN pending \/ Sending(id)
  <2>1. PICK v \in Sweep : sweep'[v].pc = "send" /\ sweep'[v].row = id
    BY <1>4 DEF Sending
  <2>2. IsHolding(v)'
    BY <2>1 DEF IsHolding
  <2>3. ~Claim(v) /\ ~Send(v)
    BY <1>1, <2>1, ClaimStep, SendStep, SweepFields
  <2>4. CASE Load(v)
    <3>1. Deliverable(id) /\ sweep[v].row = id
      BY <1>1, <2>1, <2>4, LoadStep, SweepFields
    <3>2. ~closed
      BY <3>1 DEF Deliverable, Silenced
    <3> QED
      BY <1>1, <2>4, <3>1, <3>2 DEF LoadsQueued, Load
  <2>5. CASE sweep'[v] = sweep[v]
    BY <2>1, <2>5 DEF Sending
  <2> QED
    BY <1>1, <2>2, <2>3, <2>4, <2>5, WhoHolds
<1> QED
  BY <1>3, <1>4

\* A change told and still on the queue, or about to be sent, is about to
\* leave the queue, was at risk before, or its sweep has just been cut short.
LEMMA RiskStep ==
  ASSUME EmailInv, EmailTypeOK', [TicketNext]_ticketVars, [EmailNext]_allVars,
         NEW id, WasTold(id), id \in DOMAIN pending' \/ Sending(id)', ~Finishing(id)'
  PROVE  id \in AtRisk \/ \E w \in Sweep : Fail(w) /\ IsHolding(w) /\ sweep[w].row = id
<1>1. /\ EmailTypeOK /\ TypeOK /\ TodoWasDue /\ OneHolder /\ LoadsQueued
      /\ sweep = [w \in Sweep |-> sweep[w]] /\ \A w \in Sweep : SweepState(sweep[w])
  BY DEF EmailInv, EmailTypeOK
<1>2. id \in 1 .. nextId - 1 /\ nextId \in Nat
  <2>1. told \in Seq(1 .. nextId - 1) /\ nextId \in Nat
    BY <1>1 DEF EmailTypeOK, TypeOK
  <2> QED
    BY <2>1, ElementOfSeq DEF WasTold
<1>3. id \in DOMAIN pending \/ Sending(id)
  BY <1>1, <1>2, WaitedBefore
<1>4. ASSUME Finishing(id)
      PROVE  \E w \in Sweep : Fail(w) /\ IsHolding(w) /\ sweep[w].row = id
  <2>1. PICK v \in Sweep : sweep[v].pc = "finish" /\ sweep[v].row = id
    BY <1>4 DEF Finishing
  <2>2. IsHolding(v)
    BY <2>1 DEF IsHolding
  <2>3. sweep'[v] # sweep[v]
    BY <2>1 DEF Finishing
  <2>4. Finish(v) \/ Fail(v)
    <3>1. sweep[v] # Idle /\ sweep[v].pc \notin {"claim", "load", "send"}
      BY <2>1, SweepFields
    <3>2. ~ReadDue(v) /\ ~Claim(v) /\ ~Skip(v) /\ ~Load(v) /\ ~Send(v)
      BY <3>1 DEF ReadDue, Claim, Skip, Load, Send
    <3> QED
      BY <1>1, <2>3, <3>2, OtherSweep DEF Work
  <2>5. ~Finish(v)
    <3> SUFFICES ASSUME Finish(v) PROVE FALSE
      OBVIOUS
    <3>1. DOMAIN pending' = DOMAIN pending \ {id}
      BY <2>1, DeleteRows DEF Finish, Done
    <3>2. PICK u \in Sweep : sweep'[u].pc = "send" /\ sweep'[u].row = id
      BY <3>1 DEF Sending
    <3>3. PICK s : s = Resume(sweep[v].todo)
      OBVIOUS
    <3>4. sweep'[v] = s /\ \A w \in Sweep : w # v => sweep'[w] = sweep[w]
      BY <1>1, <3>3, OneSweep DEF Finish
    <3>5. u # v
      BY <3>2, <3>3, <3>4, SweepFields DEF Resume
    <3>6. sweep[u].row = id /\ IsHolding(u)
      BY <3>2, <3>4, <3>5 DEF IsHolding
    <3> QED
      BY <1>1, <2>1, <2>2, <3>5, <3>6 DEF OneHolder
  <2> QED
    BY <2>1, <2>2, <2>4, <2>5
<1> QED
  BY <1>2, <1>3, <1>4 DEF AtRisk

\* Every repeat is paid for by a sweep that was cut short after it told the
\* customer and before it deleted the row.
LEMMA RepeatsInv ==
  ASSUME EmailInv, EmailTypeOK', [TicketNext]_ticketVars, [EmailNext]_allVars
  PROVE  RepeatsPaidFor'
<1>1. /\ EmailTypeOK /\ OneHolder /\ RepeatsPaidFor
      /\ sweep = [w \in Sweep |-> sweep[w]] /\ \A w \in Sweep : SweepState(sweep[w])
      /\ failures \in Nat
  BY BoundsAssumption DEF EmailInv, EmailTypeOK
<1>2. /\ IsFiniteSet(Repeats) /\ Cardinality(Repeats) \in Nat
      /\ IsFiniteSet(AtRisk) /\ Cardinality(AtRisk) \in Nat
  <2>1. nextId - 1 \in Int /\ Len(told) \in Int
    BY <1>1 DEF EmailTypeOK, TypeOK
  <2>2. AtRisk \subseteq 1 .. nextId - 1 /\ Repeats \subseteq 1 .. Len(told)
    BY <1>1 DEF AtRisk, Repeats, EmailTypeOK
  <2> QED
    BY <2>1, <2>2, FinitePart
<1>3. PICK R, A, Rn, An : R = Repeats /\ A = AtRisk /\ Rn = Repeats' /\ An = AtRisk'
  OBVIOUS
<1>4. \A id \in An :
        \/ id \in A
        \/ \E w \in Sweep : Fail(w) /\ IsHolding(w) /\ sweep[w].row = id
        \/ \E w \in Sweep : Send(w) /\ sweep[w].row = id /\ ~WasTold(id)
  <2> SUFFICES ASSUME NEW id \in An
               PROVE  \/ id \in A
                      \/ \E w \in Sweep : Fail(w) /\ IsHolding(w) /\ sweep[w].row = id
                      \/ \E w \in Sweep : Send(w) /\ sweep[w].row = id /\ ~WasTold(id)
    OBVIOUS
  <2>1. WasTold(id)' /\ (id \in DOMAIN pending' \/ Sending(id)') /\ ~Finishing(id)'
    BY <1>3 DEF AtRisk, WasTold, Sending, Finishing
  <2>2. WasTold(id) \/ \E w \in Sweep : Send(w) /\ sweep[w].row = id
    BY <1>1, <2>1, ToldAfter DEF WasTold
  <2> QED
    BY <1>3, <2>1, <2>2, RiskStep
<1>5. ASSUME NEW w \in Sweep, Send(w)
      PROVE  /\ sweep[w].row \notin An
             /\ WasTold(sweep[w].row) => sweep[w].row \in A
             /\ \A v \in Sweep : ~Fail(v) /\ (Send(v) => v = w)
             /\ failures' = failures
  <2>1. PICK id : id = sweep[w].row
    OBVIOUS
  <2>2. sweep'[w].pc = "finish" /\ sweep'[w].row = id /\ IsHolding(w)
    BY <1>1, <1>5, <2>1, SendStep, SweepFields
  <2>3. id \notin An
    BY <1>3, <2>2 DEF AtRisk, Finishing
  <2>4. ~Finishing(id) /\ Sending(id)
    BY <1>1, <1>5, <2>1, <2>2 DEF Finishing, Sending, Send, IsHolding, OneHolder
  <2>5. id \in 1 .. nextId - 1
    BY <1>1, <2>1, <2>2, HoldingShape
  <2>6. failures' = failures
    BY <1>5 DEF Send
  <2>7. ASSUME NEW v \in Sweep PROVE ~Fail(v) /\ (Send(v) => v = w)
    <3>1. ~Fail(v)
      BY <1>1, <2>6 DEF Fail
    <3>2. ASSUME Send(v), v # w PROVE FALSE
      <4>1. sweep'[v].pc = "finish" /\ sweep'[v] = sweep[v]
        BY <1>1, <1>5, <3>2, SendStep, SweepFields
      <4> QED
        BY <3>2, <4>1 DEF Send
    <3> QED
      BY <3>1, <3>2
  <2> QED
    BY <1>3, <2>1, <2>3, <2>4, <2>5, <2>6, <2>7 DEF AtRisk
<1>6. ASSUME NEW w \in Sweep, Fail(w)
      PROVE  /\ \A v \in Sweep : Fail(v) => v = w
             /\ told' = told /\ failures' = failures + 1
  <2>1. sweep'[w] = Idle /\ \A v \in Sweep : v # w => sweep'[v] = sweep[v]
    BY <1>1, <1>6, OneSweep DEF Fail
  <2>2. ASSUME NEW v \in Sweep, Fail(v), v # w PROVE FALSE
    <3>1. sweep'[v] = Idle
      BY <1>1, <2>2, OneSweep DEF Fail
    <3> QED
      BY <2>1, <2>2, <3>1 DEF Fail
  <2> QED
    BY <1>6, <2>2 DEF Fail
<1>7. told' = told => Rn = R
  BY <1>3 DEF Repeats
<1>8. CASE \E w \in Sweep : Fail(w)
  <2>1. PICK w \in Sweep : Fail(w)
    BY <1>8
  <2>2. told' = told /\ failures' = failures + 1 /\ \A v \in Sweep : Fail(v) => v = w
    BY <1>6, <2>1
  <2>3. \A v \in Sweep : ~Send(v)
    BY <1>5, <2>1
  <2>4. An \subseteq A \cup {sweep[w].row}
    BY <1>4, <2>2, <2>3
  <2>5. /\ IsFiniteSet(A \cup {sweep[w].row})
        /\ Cardinality(A \cup {sweep[w].row}) <= Cardinality(A) + 1
        /\ Cardinality(A \cup {sweep[w].row}) \in Nat
    BY <1>2, <1>3, OneMore, FS_CardinalityType
  <2>6. Cardinality(An) \in Nat /\ Cardinality(An) <= Cardinality(A) + 1
    BY <1>2, <1>3, <2>4, <2>5, FS_Subset, FS_CardinalityType
  <2> QED
    BY <1>1, <1>2, <1>3, <1>7, <2>2, <2>6 DEF RepeatsPaidFor
<1>9. CASE \E w \in Sweep : Send(w)
  <2>1. PICK w \in Sweep : Send(w)
    BY <1>9
  <2>2. PICK id, k : id = sweep[w].row /\ k = Len(told) + 1
    OBVIOUS
  <2>3. /\ id \notin An /\ (WasTold(id) => id \in A) /\ failures' = failures
        /\ \A v \in Sweep : ~Fail(v) /\ (Send(v) => v = w)
    BY <1>5, <2>1, <2>2
  <2>4. An \subseteq A
    BY <1>4, <2>2, <2>3
  <2>5. /\ DOMAIN told' = DOMAIN told \cup {k} /\ told'[k] = id
        /\ \A i \in DOMAIN told : told'[i] = told[i] /\ i < k
        /\ DOMAIN told \subseteq Nat /\ k \in Nat
    <3>1. told \in Seq(1 .. nextId - 1) /\ told' = Append(told, id)
      BY <1>1, <2>1, <2>2 DEF EmailTypeOK, Send
    <3> QED
      BY <2>2, <3>1
  <2>6. Rn \subseteq R \cup {k}
    BY <1>3, <2>5 DEF Repeats
  <2>7. CASE WasTold(id)
    <3>1. An \subseteq A \ {id} /\ id \in A
      BY <2>3, <2>4, <2>7
    <3>2. Cardinality(A \ {id}) = Cardinality(A) - 1 /\ IsFiniteSet(A \ {id})
      BY <1>2, <1>3, <3>1, FS_RemoveElement
    <3>3. Cardinality(An) <= Cardinality(A) - 1 /\ Cardinality(An) \in Nat
      BY <3>1, <3>2, FS_Subset, FS_CardinalityType
    <3>4. Cardinality(R \cup {k}) <= Cardinality(R) + 1 /\ IsFiniteSet(R \cup {k})
      BY <1>2, <1>3, OneMore
    <3>5. Cardinality(Rn) <= Cardinality(R) + 1 /\ Cardinality(Rn) \in Nat
      BY <1>2, <1>3, <2>6, <3>4, FS_Subset, FS_CardinalityType
    <3> QED
      BY <1>1, <1>2, <1>3, <2>3, <3>3, <3>5 DEF RepeatsPaidFor
  <2>8. CASE ~WasTold(id)
    <3>1. k \notin Rn
      BY <1>3, <2>5, <2>8 DEF Repeats, WasTold
    <3>2. Rn \subseteq R
      BY <2>6, <3>1
    <3>3. /\ Cardinality(Rn) <= Cardinality(R) /\ Cardinality(Rn) \in Nat
          /\ Cardinality(An) <= Cardinality(A) /\ Cardinality(An) \in Nat
      BY <1>2, <1>3, <2>4, <3>2, FS_Subset, FS_CardinalityType
    <3> QED
      BY <1>1, <1>2, <1>3, <2>3, <3>3 DEF RepeatsPaidFor
  <2> QED
    BY <2>7, <2>8
<1>10. CASE \A w \in Sweep : ~Fail(w) /\ ~Send(w)
  <2>1. An \subseteq A
    BY <1>4, <1>10
  <2>2. told' = told
    BY <1>1, <1>10, ToldAfter
  <2>3. failures' = failures
    BY <1>10 DEF EmailNext, Requests, Close, Pass, StopNotifications, ChangeAddress, Work,
                 ReadDue, Claim, Skip, Load, Finish, emailVars, allVars
  <2>4. Cardinality(An) <= Cardinality(A) /\ Cardinality(An) \in Nat
    BY <1>2, <1>3, <2>1, FS_Subset, FS_CardinalityType
  <2> QED
    BY <1>1, <1>2, <1>3, <1>7, <2>2, <2>3, <2>4 DEF RepeatsPaidFor
<1> QED
  BY <1>8, <1>9, <1>10

-----------------------------------------------------------------------------
(* The theorems.                                                           *)

\* A new ticket: no sweep, nothing queued and nothing told.
LEMMA EmailInvInit == EmailInit => EmailInv
<1> SUFFICES ASSUME EmailInit PROVE EmailInv
  OBVIOUS
<1>1. TicketInv /\ EmailTypeOK
  BY InvInit, EmailTypeInit DEF EmailInit
<1>2. /\ \A w \in Sweep : sweep[w] = Idle
      /\ told = <<>> /\ DOMAIN told = {} /\ failures = 0
      /\ nextId = 2
  BY DEF EmailInit, TicketInit
<1>3. /\ TodoWasDue /\ HeldRows /\ OneHolder /\ SendsTheLatest /\ ToldAreRipe
      /\ SupersededNeverTold /\ LoadsQueued /\ FinishesForAReason
  BY <1>2, SweepFields DEF TodoWasDue, HeldRows, OneHolder, SendsTheLatest, ToldAreRipe,
     SupersededNeverTold, WasTold, LoadsQueued, FinishesForAReason, IsHolding
<1>4. LastWordAnnounced
  <2>1. events[1].status = "RECEIVED"
    BY <1>1 DEF TicketInv, CreationIsPermanent
  <2>2. ~isNotifyingStatus("RECEIVED")
    BY DEF isNotifyingStatus, NOTIFYING_STATUS_CODES
  <2> QED
    BY <1>2, <2>1, <2>2 DEF LastWordAnnounced
<1>5. RepeatsPaidFor
  <2>1. Repeats = {} /\ AtRisk = {}
    BY <1>2 DEF Repeats, AtRisk, WasTold
  <2> QED
    BY <1>2, <2>1, FS_EmptySet DEF RepeatsPaidFor
<1> QED
  BY <1>1, <1>3, <1>4, <1>5 DEF EmailInv

\* EmailInv is inductive.
LEMMA EmailInvStep ==
  ASSUME EmailInv, [EmailNext]_allVars
  PROVE  [TicketNext]_ticketVars /\ EmailInv'
<1>1. TicketInv /\ TypeOK /\ EmailTypeOK /\ TodoWasDue
  BY DEF EmailInv, EmailTypeOK
<1>2. [TicketNext]_ticketVars
  BY <1>1, SweepsAreEnvironment
<1>3. TicketInv' /\ TypeOK'
  BY <1>1, <1>2, InvStep, TypeStep
<1>4. EmailTypeOK'
  BY <1>1, <1>2, <1>3, TimelineStep, EmailTypeStep
<1>5. TodoWasDue' /\ HeldRows' /\ OneHolder'
  BY <1>2, <1>4, ClaimsInv
<1>6. SendsTheLatest' /\ ToldAreRipe' /\ SupersededNeverTold'
  BY <1>2, <1>4, ToldInv
<1>7. LoadsQueued' /\ FinishesForAReason' /\ LastWordAnnounced'
  BY <1>2, <1>4, LastWordInv
<1>8. RepeatsPaidFor'
  BY <1>2, <1>4, RepeatsInv
<1> QED
  BY <1>2, <1>3, <1>4, <1>5, <1>6, <1>7, <1>8 DEF EmailInv

\* Everything below is a consequence of this invariant.
THEOREM EmailInvariant == EmailSpec => []EmailInv
<1>1. EmailInit => EmailInv
  BY EmailInvInit
<1>2. EmailInv /\ [EmailNext]_allVars => EmailInv'
  BY EmailInvStep
<1> QED
  BY <1>1, <1>2, PTL DEF EmailSpec

\* The sweeps, the customer and the emails keep their types.
THEOREM EmailTypes == EmailSpec => []EmailTypeOK
<1>1. EmailInv => EmailTypeOK
  BY DEF EmailInv
<1> QED
  BY <1>1, EmailInvariant, PTL

\* Two sweeps never work on the same row, however many overlap.
THEOREM LeasesExclude == EmailSpec => []OneHolder
<1>1. EmailInv => OneHolder
  BY DEF EmailInv
<1> QED
  BY <1>1, EmailInvariant, PTL

\* The customer is never told of a change that is undone, then or later.
THEOREM NeverToldOfUndone == EmailSpec => []UndoneNeverTold
<1>1. EmailInv => UndoneNeverTold
  BY DEF EmailInv, ToldAreRipe, Ripe, UndoneNeverTold
<1> QED
  BY <1>1, EmailInvariant, PTL

\* No email is made of a change another one followed within the delay.
THEOREM NeverToldOfSuperseded == EmailSpec => []SupersededNeverTold
<1>1. EmailInv => SupersededNeverTold
  BY DEF EmailInv
<1> QED
  BY <1>1, EmailInvariant, PTL

\* There are at most as many repeats as there were sweeps cut short.
THEOREM RepeatsNeedFailures == EmailSpec => []AnnouncedOnce
<1>1. EmailInv => AnnouncedOnce
  <2> SUFFICES ASSUME EmailInv PROVE AnnouncedOnce
    OBVIOUS
  <2>1. nextId - 1 \in Int /\ Len(told) \in Int /\ failures \in Nat
    BY BoundsAssumption DEF EmailInv, EmailTypeOK, TypeOK
  <2>2. AtRisk \subseteq 1 .. nextId - 1 /\ Repeats \subseteq 1 .. Len(told)
    BY DEF AtRisk, Repeats, EmailInv, EmailTypeOK
  <2>3. Cardinality(Repeats) \in Nat /\ Cardinality(AtRisk) \in Nat
    BY <2>1, <2>2, FinitePart
  <2> QED
    BY <2>1, <2>3 DEF EmailInv, RepeatsPaidFor, AnnouncedOnce
<1> QED
  BY <1>1, EmailInvariant, PTL

\* The latest change is announced, queued, or was dropped because the
\* customer gets no email.
THEOREM LastWordIsKept == EmailSpec => []LastWordAnnounced
<1>1. EmailInv => LastWordAnnounced
  BY DEF EmailInv
<1> QED
  BY <1>1, EmailInvariant, PTL

\* To the ticket, sweeps are the environment TicketStatus assumes: all that
\* is proved of TicketSpec holds next to them.
THEOREM SweepsRefineTicket == EmailSpec => ImplementsTicket
<1>1. EmailInit => TicketInit
  BY DEF EmailInit
<1>2. EmailInv /\ [EmailNext]_allVars => [TicketNext]_ticketVars
  BY EmailInvStep
<1> QED
  BY <1>1, <1>2, EmailInvariant, PTL DEF EmailSpec, TicketSpec, ImplementsTicket

-----------------------------------------------------------------------------
(* The promise of ADR 0015.                                                *)

\* The fate of one change.
LEMMA FateOfChange ==
  ASSUME NEW c \in 2 .. MaxEvents, nextId \in Nat
  PROVE  /\ fateOf[c] = "unmade" <=> c >= nextId
         /\ fateOf[c] = "told" <=> c < nextId /\ WasTold(c)
         /\ fateOf[c] = "queued" <=>
              c < nextId /\ ~WasTold(c) /\ (c \in DOMAIN pending \/ Sending(c))
         /\ fateOf[c] \in {"unmade", "told", "queued", "dropped"}
<1>1. fateOf[c] =
        IF c >= nextId THEN "unmade"
        ELSE IF WasTold(c) THEN "told"
        ELSE IF c \in DOMAIN pending \/ Sending(c) THEN "queued"
        ELSE "dropped"
  BY DEF fateOf, Sending
<1>2. c \in Int
  BY BoundsAssumption
<1>3. c >= nextId <=> ~(c < nextId)
  BY <1>2
<1>4. CASE c >= nextId
  BY <1>1, <1>3, <1>4
<1>5. CASE c < nextId /\ WasTold(c)
  BY <1>1, <1>3, <1>5
<1>6. CASE c < nextId /\ ~WasTold(c) /\ (c \in DOMAIN pending \/ Sending(c))
  BY <1>1, <1>3, <1>6
<1>7. CASE c < nextId /\ ~WasTold(c) /\ ~(c \in DOMAIN pending \/ Sending(c))
  BY <1>1, <1>3, <1>7
<1> QED
  BY <1>3, <1>4, <1>5, <1>6, <1>7

\* The same of the fate after a step.
LEMMA FateOfChangeThen ==
  ASSUME NEW c \in 2 .. MaxEvents, nextId' \in Nat
  PROVE  /\ fateOf'[c] = "unmade" <=> c >= nextId'
         /\ fateOf'[c] = "told" <=> c < nextId' /\ WasTold(c)'
         /\ fateOf'[c] = "queued" <=>
              c < nextId' /\ ~WasTold(c)' /\ (c \in DOMAIN pending' \/ Sending(c)')
         /\ fateOf'[c] \in {"unmade", "told", "queued", "dropped"}
<1>1. fateOf'[c] =
        IF c >= nextId' THEN "unmade"
        ELSE IF WasTold(c)' THEN "told"
        ELSE IF c \in DOMAIN pending' \/ Sending(c)' THEN "queued"
        ELSE "dropped"
  BY DEF fateOf, Sending, WasTold
<1>2. c \in Int
  BY BoundsAssumption
<1>3. c >= nextId' <=> ~(c < nextId')
  BY <1>2
<1>4. CASE c >= nextId'
  BY <1>1, <1>3, <1>4
<1>5. CASE c < nextId' /\ WasTold(c)'
  BY <1>1, <1>3, <1>5
<1>6. CASE c < nextId' /\ ~WasTold(c)' /\ (c \in DOMAIN pending' \/ Sending(c)')
  BY <1>1, <1>3, <1>6
<1>7. CASE c < nextId' /\ ~WasTold(c)' /\ ~(c \in DOMAIN pending' \/ Sending(c)')
  BY <1>1, <1>3, <1>7
<1> QED
  BY <1>3, <1>4, <1>5, <1>6, <1>7

\* A new ticket has no change but its creation.
LEMMA FatesInit == EmailInit => Mail!FateInit
<1> SUFFICES ASSUME EmailInit PROVE Mail!FateInit
  OBVIOUS
<1>1. nextId = 2
  BY DEF EmailInit, TicketInit
<1>2. ASSUME NEW c \in 2 .. MaxEvents PROVE fateOf[c] = "unmade"
  BY <1>1, <1>2, FateOfChange, BoundsAssumption
<1> QED
  BY <1>2 DEF Mail!FateInit, fateOf

\* A change is made, one is told of, or some are dropped.
LEMMA FatesStep ==
  ASSUME EmailInv, [EmailNext]_allVars
  PROVE  [Mail!FateNext]_fateOf
<1>1. [TicketNext]_ticketVars /\ EmailInv'
  BY EmailInvStep
<1>2. /\ TypeOK /\ TypeOK' /\ EmailTypeOK /\ EmailTypeOK' /\ OneHolder
      /\ sweep = [w \in Sweep |-> sweep[w]] /\ \A w \in Sweep : SweepState(sweep[w])
      /\ nextId \in Nat /\ nextId' \in Nat /\ nextId <= nextId'
  BY <1>1, TimelineStep DEF EmailInv, EmailTypeOK
<1> DEFINE C == 2 .. MaxEvents
<1>3. PICK f, g : f = fateOf /\ g = fateOf'
  OBVIOUS
<1>4. C \subseteq Int
  BY BoundsAssumption
<1>5. /\ f = [c \in C |-> f[c]] /\ g = [c \in C |-> g[c]]
  BY <1>3 DEF fateOf
<1>6. ASSUME NEW c \in C
      PROVE  /\ f[c] = "unmade" <=> c >= nextId
             /\ f[c] = "told" <=> c < nextId /\ WasTold(c)
             /\ f[c] = "queued" <=> c < nextId /\ ~WasTold(c) /\ (c \in DOMAIN pending \/ Sending(c))
             /\ f[c] \in {"unmade", "told", "queued", "dropped"}
  BY <1>2, <1>3, FateOfChange
<1>7. ASSUME NEW c \in C
      PROVE  /\ g[c] = "unmade" <=> c >= nextId'
             /\ g[c] = "told" <=> c < nextId' /\ WasTold(c)'
             /\ g[c] = "queued" <=> c < nextId' /\ ~WasTold(c)' /\ (c \in DOMAIN pending' \/ Sending(c)')
             /\ g[c] \in {"unmade", "told", "queued", "dropped"}
  BY <1>2, <1>3, FateOfChangeThen
<1> HIDE DEF C
<1>8. ASSUME NEW dropped, dropped \subseteq C, \A c \in dropped : f[c] = "queued",
             g = [c \in C |-> IF c \in dropped THEN "dropped" ELSE f[c]]
      PROVE  [Mail!FateNext]_fateOf
  <2>1. CASE dropped = {}
    BY <1>3, <1>5, <1>8, <2>1
  <2>2. CASE dropped # {}
    <3>1. Mail!Drop(dropped)
      BY <1>3, <1>8 DEF Mail!Drop, C
    <3>2. dropped \in (SUBSET (2 .. MaxEvents)) \ {{}}
      BY <1>8, <2>2 DEF C
    <3> QED
      BY <3>1, <3>2 DEF Mail!FateNext
  <2> QED
    BY <2>1, <2>2
<1>9. ASSUME NEW id \in C, f[id] = "queued", g = [f EXCEPT ![id] = "told"]
       PROVE  [Mail!FateNext]_fateOf
  BY <1>3, <1>9 DEF Mail!FateNext, Mail!Tell, C
<1>10. ASSUME NEW id \in C, f[id] = "unmade", \A d \in C : d < id => f[d] # "unmade",
              NEW s \in {"queued", "dropped"}, g = [f EXCEPT ![id] = s]
       PROVE  [Mail!FateNext]_fateOf
  BY <1>3, <1>10 DEF Mail!FateNext, Mail!Make, C
<1>11. CASE nextId' # nextId
  <2>1. PICK t \in Request : CommitChange(t)
    BY <1>1, <1>11 DEF TicketNext, Serve, BeginChange, BeginUndo, CommitUndo, Rollback,
                       RemoveLocation, HoldPending, SettlePending, Tick, ticketVars
  <2>2. nextId' = nextId + 1 /\ nextId <= MaxEvents
    BY <2>1 DEF CommitChange
  <2>3. nextId \in C
    <3>1. 1 \in 1 .. nextId - 1
      BY <1>2 DEF EmailInv, TicketInv, CreationIsPermanent, TypeOK
    <3> QED
      BY <1>2, <2>2, <3>1, BoundsAssumption DEF C
  <2>4. told' = told /\ sweep' = sweep
    <3>1. Requests \/ Close \/ Pass \/ StopNotifications \/ ChangeAddress \/ UNCHANGED allVars
      BY <1>11 DEF EmailNext, Work, ReadDue, Claim, Skip, Load, Send, Finish, Fail, ticketVars, ticketRest
    <3> QED
      BY <1>2, <3>1, QueueStep
  <2>5. ASSUME NEW c PROVE (WasTold(c)' <=> WasTold(c)) /\ (Sending(c)' <=> Sending(c))
    BY <2>4 DEF WasTold, Sending
  <2>6. ASSUME NEW c \in C, c # nextId PROVE g[c] = f[c]
    <3>1. CASE c < nextId
      <4>1. c \in DOMAIN pending' <=> c \in DOMAIN pending
        BY <2>1, <2>6 DEF CommitChange, Queue, Insert
      <4> QED
        BY <1>2, <1>4, <1>6, <1>7, <2>2, <2>5, <2>6, <3>1, <4>1
    <3>2. CASE c > nextId
      BY <1>2, <1>4, <1>6, <1>7, <2>2, <2>6, <3>2
    <3> QED
      BY <1>2, <1>4, <2>6, <3>1, <3>2
  <2>7. ~WasTold(nextId)
    <3>1. told \in Seq(1 .. nextId - 1)
      BY <1>2 DEF EmailTypeOK
    <3>2. ASSUME NEW k \in DOMAIN told PROVE told[k] \in 1 .. nextId - 1
      BY <3>1, ElementOfSeq
    <3>3. nextId \notin 1 .. nextId - 1
      BY <1>2
    <3> QED
      BY <3>2, <3>3 DEF WasTold
  <2>8. g[nextId] \in {"queued", "dropped"}
    BY <1>2, <1>7, <2>2, <2>3, <2>5, <2>7
  <2>9. f[nextId] = "unmade" /\ \A d \in C : d < nextId => f[d] # "unmade"
    BY <1>2, <1>4, <1>6, <2>3
  <2>10. PICK id, s : id = nextId /\ s = g[nextId]
    OBVIOUS
  <2>11. /\ id \in C /\ f[id] = "unmade" /\ s \in {"queued", "dropped"}
         /\ \A d \in C : d < id => f[d] # "unmade"
    BY <2>3, <2>8, <2>9, <2>10
  <2>12. g = [f EXCEPT ![id] = s]
    BY <1>5, <2>3, <2>6, <2>10
  <2> QED
    BY <1>10, <2>11, <2>12, Zenon
<1>12. ASSUME NEW w \in Sweep, Send(w) PROVE [Mail!FateNext]_fateOf
  <2>1. PICK id : id = sweep[w].row
    OBVIOUS
  <2>2. /\ UNCHANGED <<nextId, pending>>
        /\ sweep[w].pc = "send" /\ sweep'[w].pc = "finish"
        /\ \A v \in Sweep : v # w => sweep'[v] = sweep[v]
        /\ id \in 1 .. nextId - 1
    <3>1. UNCHANGED <<nextId, pending>> /\ sweep[w].pc = "send"
      BY <1>12 DEF Send, ticketVars
    <3>2. /\ IsHolding(w) /\ \A v \in Sweep : v # w => sweep'[v] = sweep[v]
          /\ sweep'[w] = Holding("finish", sweep[w].row, sweep[w].since, sweep[w].todo)
      BY <1>2, <1>12, SendStep
    <3>3. sweep'[w].pc = "finish"
      BY <3>2, SweepFields
    <3>4. id \in 1 .. nextId - 1
      BY <1>2, <2>1, <3>2, HoldingShape
    <3> QED
      BY <3>1, <3>2, <3>3, <3>4
  <2>3. /\ DOMAIN told' = DOMAIN told \cup {Len(told) + 1} /\ told'[Len(told) + 1] = id
        /\ \A k \in DOMAIN told : told'[k] = told[k] /\ k < Len(told) + 1
    <3>1. told' = Append(told, id) /\ told \in Seq(1 .. nextId - 1)
      BY <1>2, <1>12, <2>1 DEF Send, EmailTypeOK
    <3> QED
      BY <3>1
  <2>4. ASSUME NEW c, c # id PROVE (WasTold(c)' <=> WasTold(c)) /\ (Sending(c)' <=> Sending(c))
    BY <2>1, <2>2, <2>3, <2>4 DEF WasTold, Sending
  <2>5. WasTold(id)' /\ Sending(id)
    BY <2>1, <2>2, <2>3 DEF WasTold, Sending
  <2>6. ASSUME NEW c \in C, c # id PROVE g[c] = f[c]
    BY <1>6, <1>7, <2>2, <2>4, <2>6
  <2>7. CASE id \in C
    <3>1. g[id] = "told" /\ f[id] \in {"queued", "told"}
      BY <1>2, <1>6, <1>7, <2>2, <2>5, <2>7
    <3>2. g = [f EXCEPT ![id] = "told"]
      BY <1>5, <2>6, <2>7, <3>1
    <3>3. CASE f[id] = "told"
      BY <1>3, <1>5, <2>7, <3>2, <3>3
    <3>4. CASE f[id] = "queued"
      BY <1>9, <2>7, <3>2, <3>4
    <3> QED
      BY <3>1, <3>3, <3>4
  <2>8. CASE id \notin C
    BY <1>3, <1>5, <2>6, <2>8
  <2> QED
    BY <2>7, <2>8
<1>13. CASE nextId' = nextId /\ \A w \in Sweep : ~Send(w)
  <2> DEFINE D == {c \in C : f[c] = "queued" /\ g[c] = "dropped"}
  <2>1. told' = told
    BY <1>2, <1>13, ToldAfter
  <2>2. ASSUME NEW c \in C, ~(f[c] = "queued" /\ g[c] = "dropped") PROVE g[c] = f[c]
    <3>1. WasTold(c)' <=> WasTold(c)
      BY <2>1 DEF WasTold
    <3>2. CASE c >= nextId \/ WasTold(c)
      BY <1>2, <1>4, <1>6, <1>7, <1>13, <2>2, <3>1, <3>2
    <3>3. CASE c < nextId /\ ~WasTold(c) /\ (c \in DOMAIN pending \/ Sending(c))
      BY <1>6, <1>7, <1>13, <2>2, <3>1, <3>3
    <3>4. CASE c < nextId /\ ~WasTold(c) /\ ~(c \in DOMAIN pending \/ Sending(c))
      <4>1. c \in 1 .. nextId - 1
        BY <1>2, <2>2, <3>4, BoundsAssumption DEF C
      <4>2. ~(c \in DOMAIN pending' \/ Sending(c)')
        BY <3>4, <4>1, WaitedBefore
      <4> QED
        BY <1>6, <1>7, <1>13, <2>2, <3>1, <3>4, <4>2
    <3> QED
      BY <1>2, <1>4, <2>2, <3>2, <3>3, <3>4
  <2>3. g = [c \in C |-> IF c \in D THEN "dropped" ELSE f[c]]
    BY <1>5, <2>2
  <2>4. D \subseteq C /\ \A c \in D : f[c] = "queued"
    OBVIOUS
  <2> HIDE DEF D
  <2> QED
    BY <1>8, <2>3, <2>4
<1> QED
  BY <1>11, <1>12, <1>13

\* Every step of the sweeps, of the customer and of the staff does to the
\* fate of the changes what Announcement allows. Whether queued changes are
\* settled in the end is left to the runs.
THEOREM StepsOfAnnouncement == EmailSpec => Mail!FateInit /\ [][Mail!FateNext]_fateOf
<1>1. EmailInit => Mail!FateInit
  BY FatesInit
<1>2. EmailInv /\ [EmailNext]_allVars => [Mail!FateNext]_fateOf
  BY FatesStep
<1> QED
  BY <1>1, <1>2, EmailInvariant, PTL DEF EmailSpec


-----------------------------------------------------------------------------
(* The ticket next to the sweeps.                                          *)

\* What TicketStatus promises of a ticket's status and timeline, and of when
\* an undo may take a change back, holds while sweeps send its emails.
THEOREM TicketHoldsWithSweeps ==
  EmailSpec =>
    /\ [](DivergesOnlyByOvertakenUndo /\ HonestTimeline /\ CreationIsPermanent)
    /\ UndoneWhileCurrent /\ PermanentAfterWindow /\ UndoneBeforeDue
BY SweepsRefineTicket, StatusFollowsTimeline, TimelineIsHonest, CreationStays, UndoNeedsCurrent,
   EventsBecomePermanent, UndoNeverRacesEmail, PTL DEF ImplementsTicket

-----------------------------------------------------------------------------
(* When the emails arrive.                                                 *)

HeardWereTold == \A id \in heard : WasTold(id)

\* For a customer who gets no email, whatever is on its way is outrun.
SilenceOutruns == Silenced => OnItsWay \subseteq outrun

\* So is what is on its way behind a later change's email.
NewsOutruns == \A id \in OnItsWay : \A later \in heard : id < later => id \in outrun

DeliveryInv ==
  /\ EmailInv /\ DeliveryTypeOK
  /\ HeardWereTold /\ SilenceOutruns /\ NewsOutruns

\* An email on its way is about some event.
LEMMA OnItsWayTypes == ASSUME DeliveryTypeOK PROVE OnItsWay \subseteq 1 .. nextId - 1
<1>1. ASSUME NEW k \in outbox PROVE told[k] \in 1 .. nextId - 1
  BY <1>1, ElementOfSeq DEF DeliveryTypeOK, EmailTypeOK
<1>2. ASSUME NEW w \in Sweep, sweep[w].pc = "send" PROVE sweep[w].row \in 1 .. nextId - 1
  BY <1>2, HoldingShape DEF DeliveryTypeOK, EmailTypeOK, IsHolding
<1> QED
  BY <1>1, <1>2 DEF OnItsWay

\* Only a sweep that just read the ticket starts an email on its way.
LEMMA StartedByLoad ==
  ASSUME EmailInv, outbox \subseteq DOMAIN told, Proceed, NEW id \in OnItsWay'
  PROVE  \/ id \in OnItsWay
         \/ /\ UNCHANGED <<events, stopped, reachable, closed>>
            /\ StillCurrent(id) /\ ~Silenced
<1>1. EmailNext /\ outbox' = outbox \cup (DOMAIN told' \ DOMAIN told)
  BY DEF Proceed
<1>2. /\ EmailTypeOK /\ TodoWasDue
      /\ sweep = [w \in Sweep |-> sweep[w]] /\ \A w \in Sweep : SweepState(sweep[w])
  BY DEF EmailInv, EmailTypeOK
<1>3. \/ \E k \in outbox' : id = told'[k]
      \/ \E w \in Sweep : sweep'[w].pc = "send" /\ id = sweep'[w].row
  BY DEF OnItsWay
<1>4. ASSUME NEW k \in outbox', id = told'[k] PROVE id \in OnItsWay
  <2>1. CASE k \in outbox
    <3>1. told'[k] = told[k]
      BY <1>1, <1>2, <2>1, ToldAfter
    <3> QED
      BY <1>4, <2>1, <3>1 DEF OnItsWay
  <2>2. CASE k \notin outbox
    <3>1. PICK w \in Sweep : Send(w) /\ told'[k] = sweep[w].row
      BY <1>1, <1>2, <1>4, <2>2, ToldAfter
    <3> QED
      BY <1>4, <3>1 DEF OnItsWay, Send
  <2> QED
    BY <2>1, <2>2
<1>5. ASSUME NEW w \in Sweep, sweep'[w].pc = "send", id = sweep'[w].row, id \notin OnItsWay
      PROVE  /\ UNCHANGED <<events, stopped, reachable, closed>>
             /\ StillCurrent(id) /\ ~Silenced
  <2>1. IsHolding(w)'
    BY <1>5 DEF IsHolding
  <2>2. sweep'[w] # sweep[w]
    BY <1>5 DEF OnItsWay
  <2>3. ~Claim(w) /\ ~Send(w)
    BY <1>2, <1>5, ClaimStep, SendStep, SweepFields
  <2>4. Load(w)
    BY <1>1, <1>2, <2>1, <2>2, <2>3, WhoHolds
  <2>5. Deliverable(id)
    BY <1>2, <1>5, <2>4, LoadStep, SweepFields
  <2> QED
    BY <2>4, <2>5 DEF Load, ticketVars, Deliverable
<1> QED
  BY <1>3, <1>4, <1>5

\* A longer sequence of ids has the shorter one's.
LEMMA IdsGrow == ASSUME NEW m \in Nat, NEW n \in Nat, m <= n PROVE 1 .. m - 1 \subseteq 1 .. n - 1
OBVIOUS

\* A new ticket: no email yet.
LEMMA DeliveryInvInit == DeliveryInit => DeliveryInv
<1> SUFFICES ASSUME DeliveryInit PROVE DeliveryInv
  OBVIOUS
<1>1. EmailInv /\ EmailTypeOK
  BY EmailInvInit DEF DeliveryInit, EmailInv
<1>2. OnItsWay = {}
  BY SweepFields DEF DeliveryInit, EmailInit, OnItsWay
<1> QED
  BY <1>1, <1>2 DEF DeliveryInit, DeliveryInv, DeliveryTypeOK, HeardWereTold, SilenceOutruns, NewsOutruns

\* A sweep starts an email only of the latest change, which nothing heard
\* of is later than, and only for a customer who gets emails.
LEMMA ProceedStep == ASSUME DeliveryInv, Proceed PROVE DeliveryInv'
<1>1. /\ EmailInv /\ DeliveryTypeOK /\ EmailTypeOK /\ HeardWereTold /\ SilenceOutruns /\ NewsOutruns
      /\ EmailNext /\ heard' = heard /\ outbox' = outbox \cup (DOMAIN told' \ DOMAIN told)
      /\ outbox \subseteq DOMAIN told
  BY DEF DeliveryInv, DeliveryTypeOK, Proceed
<1>2. EmailInv' /\ EmailTypeOK' /\ [TicketNext]_ticketVars
  BY <1>1, EmailInvStep DEF EmailInv
<1>3. outrun \subseteq outrun' /\ outrun' \subseteq outrun \cup OnItsWay
  BY DEF Proceed
<1>4. nextId \in Nat /\ nextId' \in Nat /\ nextId <= nextId'
  BY <1>1, <1>2, TimelineStep DEF EmailTypeOK
<1>5. DOMAIN told \subseteq DOMAIN told'
  BY <1>1, ToldAfter
<1>6. DeliveryTypeOK'
  <2>1. outbox' \subseteq DOMAIN told'
    BY <1>1, <1>5
  <2>2. OnItsWay \subseteq 1 .. nextId - 1 /\ outrun \subseteq 1 .. nextId - 1 /\ heard \subseteq 1 .. nextId - 1
    BY <1>1, OnItsWayTypes DEF DeliveryTypeOK
  <2>3. 1 .. nextId - 1 \subseteq 1 .. nextId' - 1
    BY <1>4, IdsGrow
  <2> QED
    BY <1>1, <1>2, <1>3, <2>1, <2>2, <2>3 DEF DeliveryTypeOK
<1>7. HeardWereTold'
  <2> SUFFICES ASSUME NEW id \in heard PROVE WasTold(id)'
    BY <1>1 DEF HeardWereTold
  <2>1. WasTold(id)
    BY <1>1 DEF HeardWereTold
  <2> QED
    BY <1>1, <2>1, ToldStays
<1>8. ASSUME NEW id \in OnItsWay', id \notin OnItsWay
      PROVE  ~Silenced' /\ \A later \in heard : ~(id < later)
  <2>1. UNCHANGED <<events, stopped, reachable, closed>> /\ StillCurrent(id) /\ ~Silenced
    BY <1>1, <1>8, StartedByLoad
  <2>2. ASSUME NEW later \in heard PROVE later \in DOMAIN events
    BY <1>1, <2>2 DEF EmailInv, ToldAreRipe, Ripe, HeardWereTold, WasTold
  <2>3. DOMAIN events \subseteq Int
    BY <1>1, <1>4 DEF EmailTypeOK, TypeOK
  <2> QED
    BY <2>1, <2>2, <2>3 DEF Silenced, StillCurrent, IsLatest
<1>9. SilenceOutruns'
  <2> SUFFICES ASSUME Silenced', NEW id \in OnItsWay' PROVE id \in outrun'
    BY DEF SilenceOutruns
  <2>1. id \in OnItsWay
    BY <1>8
  <2>2. CASE Silenced
    BY <1>1, <1>3, <2>1, <2>2 DEF SilenceOutruns
  <2>3. CASE ~Silenced
    BY <2>1, <2>3 DEF Proceed
  <2> QED
    BY <2>2, <2>3
<1>10. NewsOutruns'
  <2> SUFFICES ASSUME NEW id \in OnItsWay', NEW later \in heard, id < later PROVE id \in outrun'
    BY <1>1 DEF NewsOutruns
  <2> QED
    BY <1>1, <1>3, <1>8 DEF NewsOutruns
<1> QED
  BY <1>2, <1>6, <1>7, <1>9, <1>10 DEF DeliveryInv

\* An email that arrives outruns those on their way with older changes.
LEMMA DeliverStep == ASSUME DeliveryInv, NEW k \in outbox, Deliver(k) PROVE DeliveryInv'
<1>1. /\ EmailInv /\ DeliveryTypeOK /\ EmailTypeOK /\ HeardWereTold /\ SilenceOutruns /\ NewsOutruns
      /\ outbox' = outbox \ {k} /\ heard' = heard \cup {told[k]}
      /\ outrun' = outrun \cup {id \in OnItsWay : id < told[k]}
      /\ told' = told /\ sweep' = sweep /\ nextId' = nextId /\ allVars' = allVars
      /\ outbox \subseteq DOMAIN told
  BY DEF DeliveryInv, DeliveryTypeOK, Deliver, allVars
<1>2. EmailInv' /\ EmailTypeOK'
  BY <1>1, EmailInvStep DEF EmailInv
<1>3. OnItsWay' \subseteq OnItsWay
  BY <1>1 DEF OnItsWay
<1>4. OnItsWay \subseteq 1 .. nextId - 1 /\ told[k] \in OnItsWay
  BY <1>1, OnItsWayTypes DEF OnItsWay
<1>5. DeliveryTypeOK'
  BY <1>1, <1>2, <1>4 DEF DeliveryTypeOK
<1>6. HeardWereTold'
  BY <1>1 DEF HeardWereTold, WasTold
<1>7. SilenceOutruns'
  BY <1>1, <1>3 DEF SilenceOutruns, Silenced, allVars
<1>8. NewsOutruns'
  BY <1>1, <1>3 DEF NewsOutruns
<1> QED
  BY <1>2, <1>5, <1>6, <1>7, <1>8 DEF DeliveryInv

\* The emails on their way and those that arrived keep to what the sweeps
\* knew when they started them.
THEOREM DeliveryInvariant == DeliverySpec => []DeliveryInv
<1>1. DeliveryInit => DeliveryInv
  BY DeliveryInvInit
<1>2. DeliveryInv /\ [DeliveryNext]_deliveryAll => DeliveryInv'
  <2> SUFFICES ASSUME DeliveryInv, [DeliveryNext]_deliveryAll PROVE DeliveryInv'
    OBVIOUS
  <2>1. CASE DeliveryNext
    BY <2>1, ProceedStep, DeliverStep DEF DeliveryNext
  <2>2. CASE UNCHANGED deliveryAll
    <3>1. UNCHANGED allVars /\ UNCHANGED deliveryVars
      BY <2>2 DEF deliveryAll, allVars, deliveryVars
    <3>2. EmailInv'
      BY <3>1, EmailInvStep DEF DeliveryInv
    <3> QED
      BY <3>1, <3>2 DEF allVars, deliveryVars, DeliveryInv, DeliveryTypeOK, HeardWereTold, WasTold,
         SilenceOutruns, Silenced, NewsOutruns, OnItsWay, EmailInv
  <2> QED
    BY <2>1, <2>2
<1> QED
  BY <1>1, <1>2, PTL DEF DeliverySpec

\* Events, sweeps and emails on their way keep their types.
THEOREM DeliveryTypes == DeliverySpec => []DeliveryTypeOK
<1>1. DeliveryInv => DeliveryTypeOK
  BY DEF DeliveryInv
<1> QED
  BY <1>1, DeliveryInvariant, PTL

\* Whatever arrives stale was on its way before: sweeps start no email of an
\* old change or for a customer who gets none.
THEOREM StaleMailWasOutrun == DeliverySpec => StaleOnlyIfOutrun
<1>1. ASSUME DeliveryInv, [DeliveryNext]_deliveryAll, NEW k \in outbox \ outbox', Stale(told[k])
      PROVE  told[k] \in outrun
  <2>1. told[k] \in OnItsWay
    BY <1>1 DEF OnItsWay
  <2> QED
    BY <1>1, <2>1 DEF DeliveryInv, SilenceOutruns, NewsOutruns, Stale
<1>2. DeliveryInv /\ [DeliveryNext]_deliveryAll =>
        [\A k \in outbox \ outbox' : Stale(told[k]) => told[k] \in outrun]_deliveryAll
  BY <1>1
<1> QED
  BY <1>2, DeliveryInvariant, PTL DEF DeliverySpec, StaleOnlyIfOutrun

\* Retries included, the customer hears only of changes that were never
\* undone and that no other change followed within the delay.
THEOREM HeardIsTrue ==
  DeliverySpec => [](heard \subseteq DOMAIN events /\ \A id \in heard : NotSuperseded(id))
<1>1. DeliveryInv => heard \subseteq DOMAIN events /\ \A id \in heard : NotSuperseded(id)
  <2> SUFFICES ASSUME DeliveryInv, NEW id \in heard PROVE id \in DOMAIN events /\ NotSuperseded(id)
    OBVIOUS
  <2>1. WasTold(id) /\ ToldAreRipe /\ SupersededNeverTold
    BY DEF DeliveryInv, HeardWereTold, EmailInv
  <2>2. id \in DOMAIN events
    BY <2>1 DEF WasTold, ToldAreRipe, Ripe
  <2> QED
    BY <2>1, <2>2 DEF SupersededNeverTold, NotSuperseded
<1> QED
  BY <1>1, DeliveryInvariant, PTL
=============================================================================
