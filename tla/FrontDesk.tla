----------------------------- MODULE FrontDesk ------------------------------
(***************************************************************************)
(* Desk, and somebody who goes through one of its lists page by page       *)
(* (CustomerService.list and TicketService.list) while it is in use.       *)
(*                                                                         *)
(* Both lists are paged by key: by (fullName, id), and by (createdAt, id), *)
(* newest first. A ticket's cursor holds the key itself, a customer's only *)
(* the id, for which the name is looked up again (data-model.md,           *)
(* "Pagination").                                                          *)
(***************************************************************************)
EXTENDS Desk, Sequences, FiniteSets

CONSTANTS
  Take,         \* rows on a page
  Queries,      \* bound: the searches tried
  MaxPages      \* bound: pages of one walk

\* A search, or none; and tickets that have ended, that have not, or all.
\* The filters on columns that never change only make the list shorter.
ListTicketsQueryDto == [q : Text \cup {unset}, state : {"open", "ended", unset}]

ListCustomersQueryDto == {query \in ListTicketsQueryDto : query.state = unset}

ASSUME WalkAssumption ==
  /\ Take \in Nat \ {0}
  /\ Queries \subseteq ListTicketsQueryDto
  /\ MaxPages \in Nat

VARIABLES
  walk          \* what the reader asks for and has got so far

frontVars == <<customers, tickets, mails, closed, request, started,
               failed, erasedWith, overtaken, late, walk>>

\* A place in a list: what it is ordered by, and the id that breaks ties.
Key == [by : Int, id : Int]

\* No cursor in the query.
NoPlace == [place |-> "first"]

\* What the reader of a list has got. after: the place the last page ended
\* at. seen: the ids so far. steady: history, the ids that have matched with
\* one and the same key since the walk began. jumped: history, those of them
\* that the cursor's customer has moved past, forwards or backwards.
NoWalk == [list |-> "none"]

ListTypeOK ==
  walk = NoWalk \/
    /\ DOMAIN walk = {"list", "query", "pc", "after", "seen", "pages", "steady", "jumped"}
    /\ walk.list \in {"customers", "tickets"} /\ walk.query \in ListTicketsQueryDto
    /\ walk.pc \in {"ask", "read", "done"}
    /\ walk.pages \in 0 .. MaxPages
    /\ \A k \in DOMAIN walk.seen :
         walk.seen[k] \in IF walk.list = "customers" THEN DOMAIN customers ELSE DOMAIN tickets
    /\ walk.jumped \subseteq walk.steady

FrontTypeOK == DeskTypeOK /\ ListTypeOK

FrontInit == DeskInit /\ walk = NoWalk

-----------------------------------------------------------------------------
(* The lists, and a page of them.                                          *)

keyOf(list, id) ==
  IF list = "customers" THEN [by |-> customers[id].name, id |-> id]
  ELSE [by |-> tickets[id].createdAt, id |-> id]

\* orderBy, a total order.
Before(list, k, l) ==
  IF list = "customers" THEN k.by < l.by \/ (k.by = l.by /\ k.id < l.id)
  ELSE k.by > l.by \/ (k.by = l.by /\ k.id > l.id)

\* A text contains what is searched for when it is that word.
Contains(text, q) == q = unset \/ text = q

\* An erased customer's name is a placeholder, not searchable.
MatchesTicket(t, query) ==
  /\ \/ Contains(tickets[t].title, query.q)
     \/ /\ Active(tickets[t].customer)
        /\ Contains(customers[tickets[t].customer].name, query.q)
  /\ query.state # unset => (query.state = "ended" <=> isEndedStatus(tickets[t].status))

MatchesCustomer(c, query) == Active(c) /\ Contains(customers[c].name, query.q)

Matching(list, query) ==
  IF list = "customers" THEN {c \in DOMAIN customers : MatchesCustomer(c, query)}
  ELSE {t \in DOMAIN tickets : MatchesTicket(t, query)}

Earlier(list, ids, id) == {i \in ids : Before(list, keyOf(list, i), keyOf(list, id))}

\* orderBy: the k-th is the one with k - 1 before it.
Sorted(list, ids) ==
  [k \in 1 .. Cardinality(ids) |->
     CHOOSE id \in ids : Cardinality(Earlier(list, ids, id)) = k - 1]

\* Mutant: the id does not break ties.
PastWithoutTies(list, after, id) ==
  IF list = "customers" THEN keyOf(list, id).by > after.by ELSE keyOf(list, id).by < after.by

\* The filter that a cursor adds.
Past(list, after, id) == Before(list, after, keyOf(list, id))

\* Past a place in the list, in order.
Rest(list, query, after) ==
  Sorted(list, {id \in Matching(list, query) : after = NoPlace \/ Past(list, after, id)})

\* Mutant: the cursor is that of the extra row.
LastOfPageAndOne(rows) == rows[Take + 1]

LastOfPage(rows) == rows[Take]

Open(list, query) ==
  /\ walk = NoWalk /\ ~closed
  /\ list = "customers" => query \in ListCustomersQueryDto
  /\ walk' = [list |-> list, query |-> query, pc |-> "read", after |-> NoPlace, seen |-> <<>>,
              pages |-> 0, steady |-> Matching(list, query), jumped |-> {}]
  /\ UNCHANGED deskVars

\* One row more than a page is read, to see whether it was the last. With
\* next, the reader goes on after the page's last row.
ReadPage(list, next) ==
  /\ walk # NoWalk /\ walk.list = list /\ walk.pc = "read"
  /\ walk.pages < MaxPages
  /\ LET rows == Rest(list, walk.query, walk.after)
     IN  walk' = [walk EXCEPT
           !.seen = @ \o SubSeq(rows, 1, IF Len(rows) > Take THEN Take ELSE Len(rows)),
           !.pages = @ + 1,
           !.after = IF Len(rows) > Take THEN keyOf(list, LastOfPage(rows)) ELSE @,
           !.pc = IF Len(rows) > Take THEN next ELSE "done"]
  /\ UNCHANGED deskVars

\* CustomerService.list: a cursor is an id, and has to be looked up.
ReadCustomers == ReadPage("customers", "ask") /\ (~closed \/ walk.pages > 0)

\* TicketService.list: a cursor is the place itself.
ReadTickets == ~closed /\ ReadPage("tickets", "read")

\* cursorPosition: where the cursor's customer is by now, erased or not.
LookUp ==
  /\ walk # NoWalk /\ walk.pc = "ask" /\ ~closed
  /\ LET now == keyOf("customers", walk.after.id)
         Is(id, place) == Before("customers", place, keyOf("customers", id))
     IN  walk' = [walk EXCEPT
           !.pc = "read",
           !.after = now,
           !.jumped = @ \cup {id \in walk.steady : Is(id, walk.after) # Is(id, now)}]
  /\ UNCHANGED deskVars

-----------------------------------------------------------------------------

\* The ids that go on matching with the key they have.
StillSteady ==
  {id \in walk.steady : \E list \in {walk.list}, query \in {walk.query} :
     id \in Matching(list, query)' /\ keyOf(list, id)' = keyOf(list, id)}

Use ==
  /\ DeskNext
  /\ walk' = IF walk = NoWalk THEN walk
             ELSE [walk EXCEPT !.steady = StillSteady, !.jumped = @ \cap StillSteady]

FrontNext ==
  \/ Use
  \/ \E list \in {"customers", "tickets"}, query \in Queries : Open(list, query)
  \/ LookUp
  \/ ReadCustomers
  \/ ReadTickets

FrontSpec == FrontInit /\ [][FrontNext]_frontVars

-----------------------------------------------------------------------------
(* Properties.                                                             *)

Places(id) == {k \in DOMAIN walk.seen : walk.seen[k] = id}

SeenOnce(list) ==
  walk # NoWalk /\ walk.list = list =>
    \A id \in walk.steady \ walk.jumped :
      /\ \A j, k \in Places(id) : j = k
      /\ walk.pc = "done" => Places(id) # {}

\* Whoever goes through the customers page by page gets each of them that
\* is neither renamed, erased nor added meanwhile exactly once; except those
\* that lie between the old and the new place of a customer who was renamed
\* or erased while being the cursor, which may be skipped or come twice.
CustomerWalkIsWhole == SeenOnce("customers")

\* Whoever goes through the tickets page by page gets each of them that
\* matches all the while exactly once, whatever is created, moved, renamed
\* or erased between the pages.
TicketWalkIsWhole == SeenOnce("tickets") /\ (walk # NoWalk /\ walk.list = "tickets" => walk.jumped = {})
=============================================================================
