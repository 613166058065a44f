-------------------------- MODULE FrontDeskProofs ---------------------------
(***************************************************************************)
(* A reader of the lists changes nothing at the desk, so that what is      *)
(* proved of the desk holds with one; and a reader gets each row that      *)
(* stays put exactly once, however many rows there are and whatever the    *)
(* size of a page. That rests on what orderBy returns (SortedRows) and on  *)
(* what the reader has seen so far (SeenSoFar): the rows that stay put and *)
(* that the cursor is past.                                                *)
(***************************************************************************)
EXTENDS FrontDesk, DeskProofs, FiniteSetTheorems, SequenceTheorems

\* FrontDesk implements Desk: a step of the reader is none of the desk's.
THEOREM ReadersOnlyRead == FrontSpec => DeskSpec
<1>1. FrontInit => DeskInit
  BY DEF FrontInit
<1>2. [FrontNext]_frontVars => [DeskNext]_deskVars
  <2> SUFFICES ASSUME [FrontNext]_frontVars PROVE [DeskNext]_deskVars
    OBVIOUS
  <2>1. CASE Use
    BY <2>1 DEF Use
  <2>2. ASSUME \/ \E list \in {"customers", "tickets"}, query \in Queries : Open(list, query)
               \/ LookUp \/ ReadCustomers \/ ReadTickets
        PROVE  UNCHANGED deskVars
    BY <2>2 DEF Open, LookUp, ReadCustomers, ReadTickets, ReadPage
  <2>3. CASE UNCHANGED frontVars
    BY <2>3 DEF frontVars, deskVars
  <2> QED
    BY <2>1, <2>2, <2>3 DEF FrontNext
<1> QED
  BY <1>1, <1>2, PTL DEF FrontSpec, DeskSpec

\* So flags, erasure and emails are right while the lists are read.
THEOREM DeskHoldsWithReaders ==
  FrontSpec => [](DeskTypeOK /\ FlagFollowsAddress /\ ErasedIsGone /\ StrayMailWasOvertaken)
BY ReadersOnlyRead, DeskTypes, FlagsFollow, TheErasedAreGone, StrayMailsWereOvertaken, PTL

-----------------------------------------------------------------------------
(* orderBy.                                                                *)

Ids(list) == IF list = "customers" THEN DOMAIN customers ELSE DOMAIN tickets

\* Every row of a list has a place in it, and no two have the same.
LEMMA Keys ==
  ASSUME DeskTypeOK, NEW list, NEW id \in Ids(list)
  PROVE  keyOf(list, id) \in Key /\ keyOf(list, id).id = id
BY RowFields, DeskAssumption DEF Ids, keyOf, Key, CustomerRow, TicketRow

\* Places are in a total order.
LEMMA BeforeIsTotal ==
  ASSUME NEW list, NEW k \in Key, NEW l \in Key
  PROVE  /\ ~(Before(list, k, l) /\ Before(list, l, k))
         /\ Before(list, k, l) \/ Before(list, l, k) \/ k.id = l.id
         /\ \A m \in Key : Before(list, k, l) /\ Before(list, l, m) => Before(list, k, m)
BY DEF Before, Key

Rank(list, ids, id) == Cardinality(Earlier(list, ids, id))

\* The ranks of rows are in their order.
LEMMA RanksInOrder ==
  ASSUME DeskTypeOK, NEW list, NEW ids \in SUBSET Ids(list), IsFiniteSet(ids),
         NEW i \in ids, NEW j \in ids
  PROVE  /\ Rank(list, ids, i) \in 0 .. Cardinality(ids) - 1
         /\ Before(list, keyOf(list, i), keyOf(list, j)) => Rank(list, ids, i) < Rank(list, ids, j)
         /\ Rank(list, ids, i) = Rank(list, ids, j) => i = j
<1>1. \A k, l \in ids :
        /\ keyOf(list, k) \in Key /\ keyOf(list, k).id = k
        /\ IsFiniteSet(Earlier(list, ids, k)) /\ Rank(list, ids, k) \in Nat
        /\ Earlier(list, ids, k) \subseteq ids \ {k}
        /\ Before(list, keyOf(list, k), keyOf(list, l)) =>
             Rank(list, ids, k) < Rank(list, ids, l)
  <2> TAKE k, l \in ids
  <2>1. keyOf(list, k) \in Key /\ keyOf(list, k).id = k /\ keyOf(list, l) \in Key
    BY Keys
  <2>2. ASSUME NEW m \in ids
        PROVE  IsFiniteSet(Earlier(list, ids, m)) /\ Rank(list, ids, m) \in Nat
    <3>1. Earlier(list, ids, m) \subseteq ids
      BY DEF Earlier
    <3> QED
      BY <3>1, FS_Subset, FS_CardinalityType DEF Rank
  <2>3. Earlier(list, ids, k) \subseteq ids \ {k}
    BY <2>1, BeforeIsTotal DEF Earlier
  <2>4. ASSUME Before(list, keyOf(list, k), keyOf(list, l))
        PROVE  Rank(list, ids, k) < Rank(list, ids, l)
    <3>1. ASSUME NEW m \in Earlier(list, ids, k) PROVE m \in Earlier(list, ids, l)
      <4>1. m \in ids /\ keyOf(list, m) \in Key /\ Before(list, keyOf(list, m), keyOf(list, k))
        BY Keys DEF Earlier
      <4> QED
        BY <2>1, <2>4, <4>1, BeforeIsTotal DEF Earlier
    <3>2. k \in Earlier(list, ids, l)
      BY <2>4 DEF Earlier
    <3>3. Earlier(list, ids, k) \in SUBSET Earlier(list, ids, l) /\ Earlier(list, ids, k) # Earlier(list, ids, l)
      BY <2>3, <3>1, <3>2
    <3> QED
      BY <2>2, <3>3, FS_Subset DEF Rank
  <2> QED
    BY <2>1, <2>2, <2>3, <2>4
<1>2. Rank(list, ids, i) \in 0 .. Cardinality(ids) - 1
  <2>1. IsFiniteSet(ids \ {i}) /\ Cardinality(ids \ {i}) = Cardinality(ids) - 1 /\ Cardinality(ids) \in Nat
    BY FS_RemoveElement, FS_CardinalityType
  <2>2. Rank(list, ids, i) <= Cardinality(ids \ {i})
    BY <1>1, <2>1, FS_Subset DEF Rank
  <2> QED
    BY <1>1, <2>1, <2>2
<1>3. Rank(list, ids, i) = Rank(list, ids, j) => i = j
  BY <1>1, BeforeIsTotal
<1> QED
  BY <1>1, <1>2, <1>3

\* Every one of the ids, once, each before those that follow.
IsOrdering(rows, list, ids) ==
  /\ rows \in Seq(ids) /\ \A k \in 1 .. Len(rows) : rows[k] \in ids
  /\ \A id \in ids : \E k \in 1 .. Len(rows) : rows[k] = id
  /\ \A j, k \in 1 .. Len(rows) :
       j < k => Before(list, keyOf(list, rows[j]), keyOf(list, rows[k]))

\* What orderBy returns.
LEMMA SortedRows ==
  ASSUME DeskTypeOK, NEW list, NEW ids \in SUBSET Ids(list), IsFiniteSet(ids)
  PROVE  IsOrdering(Sorted(list, ids), list, ids)
<1> DEFINE n == Cardinality(ids)
           rows == Sorted(list, ids)
           r == [id \in ids |-> Rank(list, ids, id) + 1]
<1>1. n \in Nat
  BY FS_CardinalityType
<1>2. IsFiniteSet(1 .. n) /\ Cardinality(1 .. n) = n
  BY <1>1, FS_Interval
<1>3. r \in Injection(ids, 1 .. n)
  <2>1. \A id \in ids : Rank(list, ids, id) + 1 \in 1 .. n
    BY <1>1, RanksInOrder
  <2>2. \A i, j \in ids : Rank(list, ids, i) + 1 = Rank(list, ids, j) + 1 => i = j
    BY <1>1, RanksInOrder
  <2> QED
    BY <2>1, <2>2 DEF Injection, IsInjective
<1>4. r \in Surjection(ids, 1 .. n)
  BY <1>2, <1>3, FS_Injection
<1>5. \A k \in 1 .. n : \E id \in ids : Rank(list, ids, id) = k - 1
  <2> TAKE k \in 1 .. n
  <2>1. PICK id \in ids : Rank(list, ids, id) + 1 = k
    BY <1>4 DEF Surjection
  <2> QED
    BY <1>1, <2>1, RanksInOrder
<1>6. rows = [k \in 1 .. n |-> CHOOSE id \in ids : Rank(list, ids, id) = k - 1]
  BY DEF Sorted, Rank
<1>7. \A k \in 1 .. n : rows[k] \in ids /\ Rank(list, ids, rows[k]) = k - 1
  BY <1>5, <1>6
<1> HIDE DEF rows, n
<1>8. rows \in Seq(ids) /\ Len(rows) = n
  BY <1>1, <1>6, <1>7
<1>9. ASSUME NEW id \in ids PROVE \E k \in 1 .. n : rows[k] = id
  <2> DEFINE k == Rank(list, ids, id) + 1
  <2>1. k \in 1 .. n /\ Rank(list, ids, id) = k - 1
    BY <1>1, RanksInOrder DEF n
  <2>2. rows[k] = id
    BY <1>7, <2>1, RanksInOrder
  <2> QED
    BY <2>1, <2>2
<1>10. ASSUME NEW j \in 1 .. n, NEW k \in 1 .. n, j < k
       PROVE  Before(list, keyOf(list, rows[j]), keyOf(list, rows[k]))
  <2>1. /\ rows[j] \in ids /\ rows[k] \in ids /\ rows[j] # rows[k]
        /\ ~(Rank(list, ids, rows[k]) < Rank(list, ids, rows[j]))
    BY <1>1, <1>7, <1>10
  <2>2. ~Before(list, keyOf(list, rows[k]), keyOf(list, rows[j]))
    BY <2>1, RanksInOrder
  <2>3. /\ keyOf(list, rows[j]) \in Key /\ keyOf(list, rows[j]).id = rows[j]
        /\ keyOf(list, rows[k]) \in Key /\ keyOf(list, rows[k]).id = rows[k]
    BY <2>1, Keys
  <2> QED
    BY <2>1, <2>2, <2>3, BeforeIsTotal
<1> QED
  BY <1>7, <1>8, <1>9, <1>10 DEF rows, IsOrdering

-----------------------------------------------------------------------------
(* What the reader has got.                                                *)

Walk == [list : {"customers", "tickets"}, query : ListTicketsQueryDto, pc : {"ask", "read", "done"},
         after : Key \cup {NoPlace}, seen : Seq(Int), pages : 0 .. MaxPages,
         steady : SUBSET Int, jumped : SUBSET Int]

WalkTyped ==
  /\ walk \in Walk
  /\ \A k \in DOMAIN walk.seen : walk.seen[k] \in Ids(walk.list)
  /\ walk.jumped \subseteq walk.steady
  /\ walk.pc = "ask" => walk.list = "customers" /\ walk.after \in Key /\ walk.after.id \in DOMAIN customers
  /\ walk.list = "tickets" => walk.jumped = {}

\* The cursor is at the row, or further on.
Passed(id) == walk.after # NoPlace /\ ~Past(walk.list, walk.after, id)

\* Of the rows that stay put, exactly those the cursor has passed have been
\* seen, once; on the last page, all.
SeenSoFar ==
  /\ walk.steady \subseteq Matching(walk.list, walk.query)
  /\ \A id \in walk.steady \ walk.jumped :
       /\ \A j, k \in Places(id) : j = k
       /\ Places(id) # {} <=> walk.pc = "done" \/ Passed(id)

\* No page is endless.
FiniteTables == IsFiniteSet(DOMAIN customers) /\ IsFiniteSet(DOMAIN tickets)

\* What is inductive.
FrontInv == FiniteTables /\ (walk = NoWalk \/ (WalkTyped /\ SeenSoFar))

\* A step adds at most one customer and one ticket.
LEMMA FiniteStep ==
  ASSUME DeskTypeOK, FiniteTables, [DeskNext]_deskVars
  PROVE  FiniteTables'
<1>1. \E c, t : /\ DOMAIN customers' \subseteq DOMAIN customers \cup {c}
                /\ DOMAIN tickets' \subseteq DOMAIN tickets \cup {t}
  <2>1. CASE UNCHANGED deskVars
    BY <2>1 DEF deskVars
  <2>2. ASSUME NEW r \in Request,
               \/ \E c \in Customer : \/ \E dto \in Updates : DecideUpdate(r, c, dto)
                                      \/ DecideRemove(r, c) \/ DecideCreate(r, c)
               \/ \E t \in Ticket : AdmitResend(r, t)
               \/ LoadCreated(r) \/ LoadResend(r) \/ Fail(r)
        PROVE  <1>1
    BY <2>2 DEF DecideUpdate, DecideRemove, DecideCreate, AdmitResend, LoadCreated, LoadResend, Load, Fail
  <2>3. ASSUME \/ \E r \in Request : Update(r) \/ Remove(r)
               \/ \E a \in Address : Flag(a)
        PROVE  DOMAIN customers' = DOMAIN customers /\ UNCHANGED tickets
    BY <2>3 DEF Update, Remove, Flag
  <2>4. ASSUME NEW r \in Request, NEW t \in Ticket, NEW at \in Stamp, NEW title \in Titles,
               \/ \E c \in Customer, dto \in Arrivals : CreateWithCustomer(r, c, dto, t, at, title)
               \/ Create(r, t, at, title)
        PROVE  <1>1
    BY <2>4 DEF CreateWithCustomer, Create, Insert
  <2>5. ASSUME \/ \E r \in Request, m \in Mail : WriteMail(r, m)
               \/ \E m \in DOMAIN mails : SendMail(m) \/ DropMail(m)
               \/ RemoveLocation
        PROVE  UNCHANGED <<customers, tickets>>
    BY <2>5 DEF WriteMail, SendMail, DropMail, RemoveLocation
  <2>6. ASSUME \/ \E r \in Request, t \in Ticket : \/ \E title \in Text : UpdateTicket(r, t, title)
                                                  \/ \E status \in Step : MoveTicket(r, t, status)
               \/ \E t \in DOMAIN tickets : Age(t)
        PROVE  DOMAIN tickets' = DOMAIN tickets /\ UNCHANGED customers
    BY <2>6 DEF UpdateTicket, MoveTicket, Age
  <2> QED
    BY <2>1, <2>2, <2>3, <2>4, <2>5, <2>6, StepCases
<1>2. PICK c, t : /\ DOMAIN customers' \subseteq DOMAIN customers \cup {c}
                  /\ DOMAIN tickets' \subseteq DOMAIN tickets \cup {t}
  BY <1>1
<1>3. IsFiniteSet(DOMAIN customers \cup {c}) /\ IsFiniteSet(DOMAIN tickets \cup {t})
  BY FS_AddElement DEF FiniteTables
<1>4. IsFiniteSet(DOMAIN customers') /\ IsFiniteSet(DOMAIN tickets')
  BY <1>2, <1>3, FS_Subset
<1> QED
  BY <1>4 DEF FiniteTables

\* No row is at the place before all others.
LEMMA KeyIsAPlace == ASSUME NEW k \in Key PROVE k # NoPlace
BY DEF Key, NoPlace

\* A list holds what is found in its table.
LEMMA MatchingIds ==
  ASSUME DeskTypeOK, NEW list \in {"customers", "tickets"}, NEW query
  PROVE  Matching(list, query) \subseteq Ids(list) /\ Ids(list) \subseteq Int
BY DeskAssumption DEF Matching, Ids, DeskTypeOK

\* A list changes with the tables only.
LEMMA SameList ==
  ASSUME UNCHANGED <<customers, tickets>>, NEW list, NEW query
  PROVE  /\ Matching(list, query)' = Matching(list, query)
         /\ Ids(list)' = Ids(list)
         /\ \A id : keyOf(list, id)' = keyOf(list, id)
BY DEF Matching, MatchesCustomer, MatchesTicket, Active, keyOf, Ids

\* The desk is used between two pages: what stays put keeps its place, so
\* that it is past the cursor or not as it was.
LEMMA UseKeeps ==
  ASSUME DeskTypeOK, walk # NoWalk, WalkTyped, SeenSoFar, Use
  PROVE  WalkTyped' /\ SeenSoFar'
<1>1. PICK list \in {"customers", "tickets"} : list = walk.list
  BY DEF WalkTyped, Walk
<1>2. PICK query \in ListTicketsQueryDto : query = walk.query
  BY DEF WalkTyped, Walk
<1>3. PICK after \in Key \cup {NoPlace} : after = walk.after
  BY DEF WalkTyped, Walk
<1>4. PICK stay : stay = StillSteady
  OBVIOUS
<1>5. Grows
  BY StepGrows DEF Use
<1>6. /\ stay \subseteq walk.steady
      /\ \A id \in stay : id \in Matching(list, query)' /\ keyOf(list, id)' = keyOf(list, id)
  BY <1>1, <1>2, <1>4 DEF StillSteady
<1>7. walk' = [walk EXCEPT !.steady = stay, !.jumped = @ \cap stay]
  BY <1>4 DEF Use
<1>8. /\ walk' \in Walk
      /\ walk'.list = list /\ walk'.query = query /\ walk'.after = after
      /\ walk'.pc = walk.pc /\ walk'.seen = walk.seen
      /\ walk'.steady = stay /\ walk'.jumped = walk.jumped \cap stay
  BY <1>1, <1>2, <1>3, <1>6, <1>7 DEF WalkTyped, Walk
<1>9. Ids(list) \subseteq Ids(list)'
  BY <1>5 DEF Grows, Ids
<1>10. WalkTyped'
  BY <1>1, <1>3, <1>5, <1>8, <1>9 DEF WalkTyped, Grows, Ids
<1>11. walk'.steady \subseteq Matching(list, query)'
  BY <1>6, <1>8
<1>12. ASSUME NEW id \in walk'.steady \ walk'.jumped
       PROVE  /\ \A j, k \in Places(id)' : j = k
              /\ Places(id)' # {} <=> walk'.pc = "done" \/ Passed(id)'
  <2>1. id \in walk.steady \ walk.jumped /\ keyOf(list, id)' = keyOf(list, id)
    BY <1>6, <1>8, <1>12
  <2>2. Places(id)' = Places(id)
    BY <1>8 DEF Places
  <2>3. Passed(id)' <=> Passed(id)
    BY <1>1, <1>3, <1>8, <2>1 DEF Passed, Past
  <2> QED
    BY <1>8, <2>1, <2>2, <2>3 DEF SeenSoFar
<1> QED
  BY <1>8, <1>10, <1>11, <1>12 DEF SeenSoFar, Matching

\* A list is opened: nothing is seen, nor passed.
LEMMA OpenStarts ==
  ASSUME DeskTypeOK, NEW list \in {"customers", "tickets"}, NEW query \in Queries, Open(list, query)
  PROVE  WalkTyped' /\ SeenSoFar'
<1>1. query \in ListTicketsQueryDto /\ 0 \in 0 .. MaxPages
  BY WalkAssumption
<1>2. Matching(list, query) \in SUBSET Int
  BY MatchingIds
<1>3. UNCHANGED <<customers, tickets>>
  BY DEF Open, deskVars
<1>4. PICK matching : matching = Matching(list, query)
  OBVIOUS
<1>5. walk' = [list |-> list, query |-> query, pc |-> "read", after |-> NoPlace, seen |-> <<>>,
               pages |-> 0, steady |-> matching, jumped |-> {}]
  BY <1>4 DEF Open
<1>6. WalkTyped'
  BY <1>1, <1>2, <1>4, <1>5 DEF WalkTyped, Walk
<1>7. \A id : Places(id)' = {} /\ ~Passed(id)' /\ walk'.pc # "done"
  BY <1>5 DEF Places, Passed
<1>8. Matching(list, query)' = matching
  BY <1>3, <1>4, SameList
<1>9. walk'.list = list /\ walk'.query = query /\ walk'.steady = matching
  BY <1>5
<1> QED
  BY <1>6, <1>7, <1>8, <1>9 DEF SeenSoFar, Matching

\* The cursor's customer is looked up. What lies between the place they had
\* and the one they have by now is put down as jumped.
LEMMA LookUpKeeps ==
  ASSUME DeskTypeOK, walk # NoWalk, WalkTyped, SeenSoFar, LookUp
  PROVE  WalkTyped' /\ SeenSoFar'
<1>1. /\ walk.list = "customers" /\ walk.pc = "ask"
      /\ walk.after \in Key /\ walk.after.id \in Ids("customers")
  BY DEF LookUp, WalkTyped, Ids
<1>2. PICK query \in ListTicketsQueryDto : query = walk.query
  BY DEF WalkTyped, Walk
<1>3. PICK now \in Key : now = keyOf("customers", walk.after.id)
  BY <1>1, Keys
<1>4. PICK more \in SUBSET walk.steady :
        more = {id \in walk.steady : Before("customers", walk.after, keyOf("customers", id))
                                     # Before("customers", now, keyOf("customers", id))}
  OBVIOUS
<1>5. walk' = [walk EXCEPT !.pc = "read", !.after = now, !.jumped = @ \cup more]
  BY <1>3, <1>4 DEF LookUp
<1>6. UNCHANGED <<customers, tickets>>
  BY DEF LookUp, deskVars
<1>7. /\ walk' \in Walk
      /\ walk'.list = "customers" /\ walk'.query = query /\ walk'.after = now
      /\ walk'.pc = "read" /\ walk'.seen = walk.seen
      /\ walk'.steady = walk.steady /\ walk'.jumped = walk.jumped \cup more
  BY <1>1, <1>2, <1>5 DEF WalkTyped, Walk
<1>8. WalkTyped'
  BY <1>1, <1>4, <1>6, <1>7, SameList DEF WalkTyped, Walk
<1>9. walk'.steady \subseteq Matching("customers", query)'
  BY <1>1, <1>2, <1>6, <1>7, SameList DEF SeenSoFar
<1>10. ASSUME NEW id \in walk'.steady \ walk'.jumped
       PROVE  /\ \A j, k \in Places(id)' : j = k
              /\ Places(id)' # {} <=> walk'.pc = "done" \/ Passed(id)'
  <2>1. id \in walk.steady \ walk.jumped
    BY <1>7, <1>10
  <2>2. Before("customers", walk.after, keyOf("customers", id))
          = Before("customers", now, keyOf("customers", id))
    BY <1>4, <1>7, <1>10, <2>1
  <2>3. Places(id)' = Places(id)
    BY <1>7 DEF Places
  <2>4. keyOf("customers", id)' = keyOf("customers", id)
    BY <1>6, SameList
  <2>5. Passed(id)' <=> Passed(id)
    BY <1>1, <1>7, <2>2, <2>4, KeyIsAPlace DEF Passed, Past
  <2> QED
    BY <1>1, <1>7, <2>1, <2>3, <2>5 DEF SeenSoFar
<1> QED
  BY <1>7, <1>8, <1>9, <1>10 DEF SeenSoFar, Matching

\* The rows past the cursor, in order.
LEMMA RestOfList ==
  ASSUME DeskTypeOK, FiniteTables, NEW list \in {"customers", "tickets"}, NEW query, NEW after
  PROVE  IsOrdering(Rest(list, query, after), list,
                    {id \in Matching(list, query) : after = NoPlace \/ Past(list, after, id)})
<1> DEFINE left == {id \in Matching(list, query) : after = NoPlace \/ Past(list, after, id)}
<1>1. left \in SUBSET Ids(list)
  BY MatchingIds
<1>2. IsFiniteSet(Ids(list))
  BY DEF FiniteTables, Ids
<1>3. IsFiniteSet(left)
  BY <1>1, <1>2, FS_Subset
<1> HIDE DEF left
<1>4. Rest(list, query, after) = Sorted(list, left)
  BY DEF Rest, left
<1> QED
  BY <1>1, <1>3, <1>4, SortedRows DEF left

\* The first rows of a list.
LEMMA FirstRows ==
  ASSUME NEW T, NEW rows \in Seq(T), NEW n \in 0 .. Len(rows)
  PROVE  /\ SubSeq(rows, 1, n) \in Seq(T) /\ Len(SubSeq(rows, 1, n)) = n
         /\ \A k \in 1 .. n : SubSeq(rows, 1, n)[k] = rows[k]
BY SubSeqProperties

\* Rows added to those there were.
LEMMA RowsAdded ==
  ASSUME NEW seen \in Seq(Int), NEW page \in Seq(Int)
  PROVE  /\ seen \o page \in Seq(Int) /\ Len(seen) \in Nat /\ Len(seen \o page) = Len(seen) + Len(page)
         /\ \A k \in 1 .. Len(seen) + Len(page) :
              (seen \o page)[k] = IF k <= Len(seen) THEN seen[k] ELSE page[k - Len(seen)]
BY ConcatProperties

\* A page is read: the first rows past the cursor, which then is at the last
\* of them, or, if there are no more, the rest.
LEMMA PageKeeps ==
  ASSUME DeskTypeOK, FiniteTables, walk # NoWalk, WalkTyped, SeenSoFar,
         NEW list \in {"customers", "tickets"},
         NEW next \in {"ask", "read"}, next = "ask" => list = "customers",
         ReadPage(list, next)
  PROVE  WalkTyped' /\ SeenSoFar'
<1>1. walk.list = list /\ walk.pc = "read" /\ walk.seen \in Seq(Int) /\ walk.pages + 1 \in 0 .. MaxPages
  BY WalkAssumption DEF ReadPage, WalkTyped, Walk
<1>2. PICK query \in ListTicketsQueryDto : query = walk.query
  BY DEF WalkTyped, Walk
<1>3. PICK after \in Key \cup {NoPlace} : after = walk.after
  BY DEF WalkTyped, Walk
<1>4. PICK rows : rows = Rest(list, query, after)
  OBVIOUS
<1>5. PICK left : left = {id \in Matching(list, query) : after = NoPlace \/ Past(list, after, id)}
  OBVIOUS
<1>6. IsOrdering(rows, list, left)
  BY <1>4, <1>5, RestOfList
<1>7. /\ \A k \in 1 .. Len(rows) : rows[k] \in left
      /\ \A id \in left : \E k \in 1 .. Len(rows) : rows[k] = id
      /\ \A j, k \in 1 .. Len(rows) : j < k => Before(list, keyOf(list, rows[j]), keyOf(list, rows[k]))
  BY <1>6 DEF IsOrdering
<1>8. rows \in Seq(left)
  BY <1>6 DEF IsOrdering
<1>9. Len(rows) \in Nat
  BY <1>8, LenProperties
<1>10. left \subseteq Ids(list) /\ Ids(list) \subseteq Int /\ walk.steady \subseteq Matching(list, query)
  BY <1>1, <1>2, <1>5, MatchingIds DEF SeenSoFar
<1>11. PICK n \in Nat : n = IF Len(rows) > Take THEN Take ELSE Len(rows)
  BY <1>9, WalkAssumption
<1>12. n \in 0 .. Len(rows) /\ (Len(rows) > Take => n = Take /\ Take \in 1 .. Len(rows))
  BY <1>9, <1>11, WalkAssumption
<1>13. PICK page : page = SubSeq(rows, 1, n)
  OBVIOUS
<1>14. /\ page \in Seq(left) /\ Len(page) = n
       /\ \A k \in 1 .. n : page[k] = rows[k]
  BY <1>8, <1>12, <1>13, FirstRows
<1>15. PICK place \in Key \cup {NoPlace} :
         /\ Len(rows) > Take => place \in Key /\ place = keyOf(list, rows[Take]) /\ place.id = rows[Take]
         /\ ~(Len(rows) > Take) => place = after
  <2>1. CASE Len(rows) > Take
    <3>1. rows[Take] \in Ids(list)
      BY <1>7, <1>10, <1>12, <2>1
    <3> QED
      BY <2>1, <3>1, Keys
  <2> QED
    BY <2>1
<1>16. walk' = [walk EXCEPT !.seen = @ \o page, !.pages = @ + 1, !.after = place,
                            !.pc = IF Len(rows) > Take THEN next ELSE "done"]
  <2>1. walk' = [walk EXCEPT
           !.seen = @ \o SubSeq(rows, 1, IF Len(rows) > Take THEN Take ELSE Len(rows)),
           !.pages = @ + 1,
           !.after = IF Len(rows) > Take THEN keyOf(list, LastOfPage(rows)) ELSE @,
           !.pc = IF Len(rows) > Take THEN next ELSE "done"]
    BY <1>2, <1>3, <1>4 DEF ReadPage
  <2> QED
    BY <1>3, <1>11, <1>13, <1>15, <2>1 DEF LastOfPage
<1>17. UNCHANGED <<customers, tickets>>
  BY DEF ReadPage, deskVars
<1>18. PICK seen \in Seq(Int) : seen = walk.seen
  BY <1>1
<1>19. page \in Seq(Int)
  BY <1>10, <1>14
<1>20. /\ walk' \in Walk
       /\ walk'.list = list /\ walk'.query = query /\ walk'.after = place
       /\ walk'.pc = (IF Len(rows) > Take THEN next ELSE "done")
       /\ walk'.seen = seen \o page
       /\ walk'.steady = walk.steady /\ walk'.jumped = walk.jumped
  <2>1. seen \o page \in Seq(Int)
    BY <1>19
  <2> QED
    BY <1>1, <1>2, <1>16, <1>18, <2>1 DEF WalkTyped, Walk
<1>21. /\ Len(seen \o page) = Len(seen) + n /\ seen \o page \in Seq(Int) /\ Len(seen) \in Nat
       /\ \A k \in 1 .. Len(seen) + n :
            (seen \o page)[k] = IF k <= Len(seen) THEN seen[k] ELSE rows[k - Len(seen)]
  <2>1. /\ Len(seen \o page) = Len(seen) + n /\ seen \o page \in Seq(Int) /\ Len(seen) \in Nat
        /\ \A k \in 1 .. Len(seen) + n :
             (seen \o page)[k] = IF k <= Len(seen) THEN seen[k] ELSE page[k - Len(seen)]
    BY <1>14, <1>19, RowsAdded
  <2>2. \A k \in 1 .. Len(seen) + n : ~(k <= Len(seen)) => page[k - Len(seen)] = rows[k - Len(seen)]
    BY <1>11, <1>14, <2>1
  <2> QED
    BY <2>1, <2>2
<1>22. PICK all \in Seq(Int) : all = seen \o page
  BY <1>21
<1>23. WalkTyped'
  <2>1. \A k \in DOMAIN all : all[k] \in Ids(list)
    <3> SUFFICES ASSUME NEW k \in 1 .. Len(seen) + n PROVE all[k] \in Ids(list)
      BY <1>21, <1>22
    <3>1. CASE k <= Len(seen)
      BY <1>1, <1>18, <1>21, <1>22, <3>1 DEF WalkTyped
    <3>2. CASE ~(k <= Len(seen))
      <4>1. k - Len(seen) \in 1 .. Len(rows) /\ all[k] = rows[k - Len(seen)]
        BY <1>9, <1>12, <1>21, <1>22, <3>2
      <4> QED
        BY <1>7, <1>10, <4>1
    <3> QED
      BY <3>1, <3>2
  <2>2. walk'.pc = "ask" => walk'.list = "customers" /\ walk'.after \in Key /\ walk'.after.id \in DOMAIN customers'
    <3> SUFFICES ASSUME walk'.pc = "ask" PROVE <2>2
      OBVIOUS
    <3>1. Len(rows) > Take /\ list = "customers"
      BY <1>20
    <3>2. rows[Take] \in Ids(list)
      BY <1>7, <1>10, <1>12, <3>1
    <3> QED
      BY <1>15, <1>17, <1>20, <3>1, <3>2 DEF Ids
  <2>3. \A k \in DOMAIN walk'.seen : walk'.seen[k] \in Ids(list)'
    BY <1>17, <1>20, <1>22, <2>1, SameList
  <2> QED
    BY <1>1, <1>20, <2>2, <2>3 DEF WalkTyped, Ids
<1>24. walk'.steady \subseteq Matching(list, query)'
  BY <1>10, <1>17, <1>20, SameList
<1>25. ASSUME NEW id \in walk'.steady \ walk'.jumped
       PROVE  /\ \A j, k \in Places(id)' : j = k
              /\ Places(id)' # {} <=> walk'.pc = "done" \/ Passed(id)'
  <2>1. /\ id \in walk.steady \ walk.jumped /\ id \in Matching(list, query)
        /\ id \in Ids(list) /\ keyOf(list, id) \in Key /\ keyOf(list, id).id = id
    BY <1>10, <1>20, <1>25, Keys, MatchingIds
  <2>2. /\ \A j, k \in Places(id) : j = k
        /\ Places(id) # {} <=> id \notin left
    BY <1>1, <1>3, <1>5, <2>1 DEF SeenSoFar, Passed
  <2>3. Places(id)' = Places(id) \cup {k \in (Len(seen) + 1) .. (Len(seen) + n) : rows[k - Len(seen)] = id}
    <3>1. Places(id)' = {k \in 1 .. Len(seen) + n : all[k] = id}
      BY <1>20, <1>21, <1>22 DEF Places
    <3>2. Places(id) = {k \in 1 .. Len(seen) : seen[k] = id}
      BY <1>18 DEF Places
    <3> QED
      BY <1>21, <1>22, <3>1, <3>2
  <2>4. Passed(id)' <=> place # NoPlace /\ ~Before(list, place, keyOf(list, id))
    BY <1>17, <1>20, SameList DEF Passed, Past
  <2>5. \A k \in 1 .. Len(rows) : /\ rows[k] \in left /\ rows[k] \in Ids(list)
                                  /\ keyOf(list, rows[k]) \in Key /\ keyOf(list, rows[k]).id = rows[k]
    <3> TAKE k \in 1 .. Len(rows)
    <3>1. rows[k] \in left /\ rows[k] \in Ids(list)
      BY <1>7, <1>10
    <3> QED
      BY <3>1, Keys
  <2>6. CASE id \notin left
    <3>1. \A k \in 1 .. n : rows[k] # id
      BY <1>11, <1>12, <2>5, <2>6
    <3>2. Places(id)' = Places(id)
      BY <1>11, <1>21, <2>3, <3>1
    <3>3. Len(rows) > Take => Passed(id)'
      <4> SUFFICES ASSUME Len(rows) > Take PROVE place # NoPlace /\ ~Before(list, place, keyOf(list, id))
        BY <2>4
      <4>1. place \in Key /\ rows[Take] \in left /\ place = keyOf(list, rows[Take])
        BY <1>12, <1>15, <2>5
      <4>2. after \in Key /\ ~Before(list, after, keyOf(list, id)) /\ Before(list, after, place)
        BY <1>3, <1>5, <2>1, <2>6, <4>1 DEF Past
      <4> QED
        BY <2>1, <4>1, <4>2, BeforeIsTotal, KeyIsAPlace
    <3> QED
      BY <1>20, <2>2, <2>6, <3>2, <3>3
  <2>7. CASE id \in left
    <3>1. PICK k \in 1 .. Len(rows) : rows[k] = id
      BY <1>7, <2>7
    <3>2. \A j \in 1 .. Len(rows) : rows[j] = id => j = k
      <4> SUFFICES ASSUME NEW j \in 1 .. Len(rows), rows[j] = id, j # k PROVE FALSE
        OBVIOUS
      <4>1. j < k \/ k < j
        BY <1>9
      <4>2. Before(list, keyOf(list, rows[j]), keyOf(list, rows[k])) \/ Before(list, keyOf(list, rows[k]), keyOf(list, rows[j]))
        BY <1>7, <4>1
      <4> QED
        BY <2>1, <3>1, <4>2, BeforeIsTotal
    <3>3. Places(id) = {}
      BY <2>2, <2>7
    <3>4. \A m : m \in Places(id)' <=> m = Len(seen) + k /\ k <= n
      <4> SUFFICES ASSUME NEW m \in (Len(seen) + 1) .. (Len(seen) + n)
                   PROVE  rows[m - Len(seen)] = id <=> m = Len(seen) + k
        BY <1>9, <1>12, <1>21, <2>3, <3>3
      <4>1. m - Len(seen) \in 1 .. Len(rows) /\ (m = Len(seen) + k <=> m - Len(seen) = k)
        BY <1>9, <1>12, <1>21
      <4> QED
        BY <3>1, <3>2, <4>1
    <3>5. \A i, j \in Places(id)' : i = j
      BY <3>4
    <3>6. Places(id)' # {} <=> k <= n
      BY <3>4
    <3>7. CASE Len(rows) > Take
      <4>1. place \in Key /\ place = keyOf(list, rows[Take]) /\ Take \in 1 .. Len(rows) /\ n = Take
        BY <1>12, <1>15, <3>7
      <4>2. Take < k <=> Before(list, place, keyOf(list, id))
        <5>1. CASE Take < k
          BY <1>7, <3>1, <4>1, <5>1
        <5>2. CASE k < Take
          <6>1. Before(list, keyOf(list, id), place)
            BY <1>7, <3>1, <4>1, <5>2
          <6> QED
            BY <1>9, <2>1, <4>1, <5>2, <6>1, BeforeIsTotal
        <5>3. CASE k = Take
          BY <2>1, <3>1, <4>1, <5>3, BeforeIsTotal
        <5> QED
          BY <1>9, <4>1, <5>1, <5>2, <5>3
      <4>3. k <= n <=> Passed(id)'
        BY <1>9, <2>4, <4>1, <4>2, KeyIsAPlace
      <4> QED
        BY <1>20, <3>5, <3>6, <3>7, <4>3
    <3>8. CASE ~(Len(rows) > Take)
      BY <1>11, <1>20, <3>1, <3>5, <3>6, <3>8
    <3> QED
      BY <3>7, <3>8
  <2> QED
    BY <2>6, <2>7
<1> QED
  BY <1>20, <1>23, <1>24, <1>25 DEF SeenSoFar, Matching

\* FrontInv is inductive.
LEMMA FrontStep == DeskTypeOK /\ FrontInv /\ [FrontNext]_frontVars => FrontInv'
<1> SUFFICES ASSUME DeskTypeOK, FrontInv, [FrontNext]_frontVars PROVE FrontInv'
  OBVIOUS
<1>1. CASE Use
  <2>1. FiniteTables'
    BY <1>1, FiniteStep DEF Use, FrontInv
  <2>2. CASE walk = NoWalk
    BY <1>1, <2>1, <2>2 DEF Use, FrontInv, NoWalk
  <2>3. CASE walk # NoWalk
    BY <1>1, <2>1, <2>3, UseKeeps DEF FrontInv
  <2> QED
    BY <2>2, <2>3
<1>2. ASSUME NEW list \in {"customers", "tickets"}, NEW query \in Queries, Open(list, query)
      PROVE  FrontInv'
  BY <1>2, OpenStarts DEF Open, deskVars, FrontInv, FiniteTables
<1>3. CASE LookUp
  BY <1>3, LookUpKeeps DEF LookUp, deskVars, FrontInv, FiniteTables
<1>4. CASE ReadCustomers
  BY <1>4, PageKeeps DEF ReadCustomers, ReadPage, deskVars, FrontInv, FiniteTables
<1>5. CASE ReadTickets
  BY <1>5, PageKeeps DEF ReadTickets, ReadPage, deskVars, FrontInv, FiniteTables
<1>6. CASE UNCHANGED frontVars
  <2>1. UNCHANGED <<walk, customers, tickets>>
    BY <1>6 DEF frontVars
  <2> QED
    BY <2>1 DEF FrontInv, FiniteTables, NoWalk, WalkTyped, SeenSoFar, Places, Passed, Past,
                Ids, keyOf, Matching, MatchesCustomer, MatchesTicket, Active
<1> QED
  BY <1>1, <1>2, <1>3, <1>4, <1>5, <1>6 DEF FrontNext

\* There are two customers and two tickets, and nobody reads.
LEMMA FrontStart == FrontInit => FrontInv
<1> SUFFICES ASSUME FrontInit PROVE FrontInv
  OBVIOUS
<1>1. DOMAIN customers = {1, 2} /\ DOMAIN tickets = {1, 2}
  BY DEF FrontInit, DeskInit
<1>2. IsFiniteSet({1, 2})
  <2>1. IsFiniteSet({1} \cup {2})
    BY FS_Singleton, FS_AddElement
  <2> QED
    BY <2>1
<1> QED
  BY <1>1, <1>2 DEF FrontInit, FrontInv, FiniteTables

\* What the reader of a list has seen is what the cursor has passed of the
\* rows that stay put, each once (CustomerService.list, TicketService.list).
THEOREM FrontInvariant == FrontSpec => []FrontInv
<1>1. DeskSpec => []DeskTypeOK
  BY DeskTypes
<1> QED
  BY <1>1, ReadersOnlyRead, FrontStart, FrontStep, PTL DEF FrontSpec

\* The reader's place in a list keeps its type: whatever has been seen is
\* there to be seen, and the cursor's customer can be looked up.
THEOREM FrontTypes == FrontSpec => []FrontTypeOK
<1>1. DeskTypeOK /\ FrontInv => FrontTypeOK
  <2> SUFFICES ASSUME FrontInv PROVE ListTypeOK
    BY DEF FrontTypeOK
  <2>1. CASE walk = NoWalk
    BY <2>1 DEF ListTypeOK
  <2>2. CASE WalkTyped
    BY <2>2 DEF WalkTyped, Walk, ListTypeOK, Ids
  <2> QED
    BY <2>1, <2>2 DEF FrontInv
<1> QED
  BY <1>1, ReadersOnlyRead, DeskTypes, FrontInvariant, PTL

\* Of whichever list: once, and at the end at least once.
LEMMA SeenAtMostOnce == ASSUME FrontInv, NEW list PROVE SeenOnce(list)
BY DEF FrontInv, SeenSoFar, SeenOnce

\* Every customer who stays put is seen exactly once, but for those that the
\* cursor's customer was moved across (CustomerService.list).
THEOREM CustomerWalks == FrontSpec => []CustomerWalkIsWhole
<1>1. FrontInv => CustomerWalkIsWhole
  BY SeenAtMostOnce DEF CustomerWalkIsWhole
<1> QED
  BY <1>1, FrontInvariant, PTL

\* Every ticket that matches all the while is seen exactly once
\* (TicketService.list).
THEOREM TicketWalks == FrontSpec => []TicketWalkIsWhole
<1>1. FrontInv => TicketWalkIsWhole
  BY SeenAtMostOnce DEF TicketWalkIsWhole, FrontInv, WalkTyped
<1> QED
  BY <1>1, FrontInvariant, PTL
=============================================================================
