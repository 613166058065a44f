----------------------------- MODULE TeamProofs -----------------------------
(***************************************************************************)
(* For any number of people, businesses, locations, invitations and        *)
(* requests: the invariants of Team, and that managing admins is the       *)
(* owner's. They are inductive once two things are known: what a request   *)
(* decided on (DecidedRightly), and that an invitation has made nobody a   *)
(* member while it is pending or not there yet (UnusedUntilAccepted).      *)
(* Which requests have to meet for one of them to write late is said by    *)
(* Disturbs: without such a pair, what each has read stays so              *)
(* (NothingLate).                                                          *)
(***************************************************************************)
EXTENDS Team, RowsProofs

-----------------------------------------------------------------------------
(* Types.                                                                  *)

\* The fields of a request, by its operation.
LEMMA RequestFields ==
  ASSUME NEW q \in RequestState
  PROVE  /\ q.op = "admitted" => q.by \in User /\ q.at \in Location /\ q.as \in Role
         /\ q.op = "updateRole" => /\ q.by \in User /\ q.at \in Location /\ q.as \in Role
                                   /\ q.who \in User /\ q.was \in InvitationRole /\ q.to \in InvitationRole
         /\ q.op = "remove" => /\ q.by \in User /\ q.at \in Location /\ q.as \in Role
                               /\ q.who \in User /\ q.was \in InvitationRole
         /\ q.op = "leave" => q.by \in User /\ q.at \in Location
         /\ q.op \in {"invite", "createInvitation"} =>
              /\ q.by \in User /\ q.at \in Location /\ q.who \in User /\ q.to \in InvitationRole
         /\ q.op \in {"revoke", "resend", "accept", "expire"} => q.by \in User /\ q.id \in Invitation
         /\ q.op = "create" => q.by \in User
         /\ q.op = "addLocation" => q.by \in User /\ q.id \in Business
         /\ q.op = "transfer" => q.by \in User /\ q.id \in Business /\ q.to \in User
         /\ q.op = "deleteAccount" => q.by \in User
BY DEF RequestState, Idle

\* Being idle refers to nothing.
LEMMA IdleTyped == Idle \in RequestState /\ RefersToRows(Idle)
BY DEF Idle, RequestState, RefersToRows

\* No role an invitation or a role change gives is the owner's.
LEMMA InvitedRoles == \A role \in InvitationRole : role \in Role /\ role # "OWNER"
BY DEF InvitationRole, Role

\* A new request with a typed state keeps the types.
LEMMA StartTyped ==
  ASSUME TeamTypeOK, NEW r \in Request, NEW u, NEW state, Start(r, u, state),
         state \in RequestState, RefersToRows(state)
  PROVE  TeamTypeOK'
<1>1. UNCHANGED ledger /\ started' \in 0 .. MaxRequests
  BY RequestsAssumption DEF TeamTypeOK, Start
<1>2. /\ request' \in [Request -> RequestState]
      /\ \A s \in Request : RefersToRows(request'[s])
  BY DEF TeamTypeOK, Start
<1> QED
  BY <1>1, <1>2 DEF TeamTypeOK, ledger, RefersToRows, IsTable

\* So does a decision.
LEMMA DecideTyped ==
  ASSUME TeamTypeOK, NEW r \in Request, NEW state, Decide(r, state),
         state \in RequestState, RefersToRows(state)
  PROVE  TeamTypeOK'
<1>1. UNCHANGED <<ledger, started>>
  BY DEF Decide
<1>2. /\ request' \in [Request -> RequestState]
      /\ \A s \in Request : RefersToRows(request'[s])
  BY DEF TeamTypeOK, Decide
<1> QED
  BY <1>1, <1>2 DEF TeamTypeOK, ledger, RefersToRows, IsTable

\* While tables other than memberships only grow, the requests that go on
\* after one is done refer to rows.
LEMMA FinishTyped ==
  ASSUME TeamTypeOK, NEW r \in Request, NEW gone, Finish(r, gone),
         DOMAIN locations \subseteq DOMAIN locations',
         DOMAIN invitations \subseteq DOMAIN invitations',
         DOMAIN business \subseteq DOMAIN business'
  PROVE  /\ request' \in [Request -> RequestState]
         /\ \A s \in Request : RefersToRows(request[s])'
         /\ started' \in 0 .. MaxRequests
         /\ \A s \in Request : request'[s] = Idle \/ request'[s] = request[s]
<1>1. \A s \in Request : request'[s] = Idle \/ request'[s] = request[s]
  BY DEF Finish
<1>2. request' \in [Request -> RequestState]
  <2>1. request' = [s \in Request |-> request'[s]]
    BY DEF Finish
  <2> QED
    BY <1>1, <2>1, IdleTyped DEF TeamTypeOK
<1>3. ASSUME NEW s \in Request PROVE RefersToRows(request[s])'
  <2>1. CASE request'[s] = Idle
    BY <2>1 DEF RefersToRows, Idle
  <2>2. CASE request'[s] = request[s]
    BY <2>2 DEF TeamTypeOK, RefersToRows
  <2> QED
    BY <1>1, <2>1, <2>2
<1> QED
  BY <1>1, <1>2, <1>3 DEF Finish, TeamTypeOK

\* Rows of memberships are a user's at a location.
LEMMA MemberRows ==
  ASSUME TeamTypeOK, NEW u, NEW l, IsMember(u, l)
  PROVE  u \in User /\ l \in DOMAIN locations /\ memberships[<<u, l>>] \in Role
BY DEF TeamTypeOK, IsMember, IsTable

\* What the controllers and the guard let a request do next keeps the types.
LEMMA TypeBegin == ASSUME TeamTypeOK, NEW r \in Request, Begin(r) PROVE TeamTypeOK'
<1>1. PICK u \in User :
        \/ \E l \in Location : Admit(r, u, l)
        \/ InvitationAcceptController(r, u) \/ BusinessController(r, u) \/ MeController(r, u)
  BY DEF Begin
<1>2. ASSUME NEW l \in Location, Admit(r, u, l) PROVE TeamTypeOK'
  <2> DEFINE state == [op |-> "admitted", by |-> u, at |-> l, as |-> memberships[<<u, l>>]]
  <2>1. state \in RequestState /\ RefersToRows(state)
    BY <1>2, MemberRows DEF Admit, RequestState, RefersToRows
  <2> QED
    BY <1>2, <2>1, StartTyped DEF Admit
<1>3. ASSUME NEW i \in DOMAIN invitations, DecideAccept(r, u, i) PROVE TeamTypeOK'
  <2> DEFINE state == [op |-> IF invitations[i].expired THEN "expire" ELSE "accept", by |-> u, id |-> i]
  <2>1. i \in Invitation
    BY DEF TeamTypeOK
  <2>2. state.op \in {"expire", "accept"}
    OBVIOUS
  <2>3. state \in RequestState /\ RefersToRows(state)
    BY <2>1, <2>2 DEF RequestState, RefersToRows
  <2> QED
    BY <1>3, <2>3, StartTyped DEF DecideAccept
<1>4. ASSUME StartCreate(r, u) PROVE TeamTypeOK'
  <2> DEFINE state == [op |-> "create", by |-> u]
  <2>1. state \in RequestState /\ RefersToRows(state)
    BY DEF RequestState, RefersToRows
  <2> QED
    BY <1>4, <2>1, StartTyped DEF StartCreate
<1>5. ASSUME NEW b \in Business, DecideAddLocation(r, u, b) PROVE TeamTypeOK'
  <2> DEFINE state == [op |-> "addLocation", by |-> u, id |-> b]
  <2>1. state \in RequestState /\ RefersToRows(state)
    BY <1>5 DEF RequestState, RefersToRows, DecideAddLocation, Owns
  <2> QED
    BY <1>5, <2>1, StartTyped DEF DecideAddLocation
<1>6. ASSUME NEW b \in Business, NEW to \in User, DecideTransfer(r, u, b, to) PROVE TeamTypeOK'
  <2> DEFINE state == [op |-> "transfer", by |-> u, id |-> b, to |-> to]
  <2>1. state \in RequestState /\ RefersToRows(state)
    BY <1>6 DEF RequestState, RefersToRows, DecideTransfer, Owns
  <2> QED
    BY <1>6, <2>1, StartTyped DEF DecideTransfer
<1>7. ASSUME DecideDeleteAccount(r, u) PROVE TeamTypeOK'
  <2> DEFINE state == [op |-> "deleteAccount", by |-> u, owned |-> LiveOwned(u)]
  <2>1. LiveOwned(u) \in SUBSET Business
    BY DEF LiveOwned, TeamTypeOK
  <2>2. state \in RequestState /\ RefersToRows(state)
    BY <2>1 DEF RequestState, RefersToRows
  <2> QED
    BY <1>7, <2>2, StartTyped DEF DecideDeleteAccount
<1> QED
  BY <1>1, <1>2, <1>3, <1>4, <1>5, <1>6, <1>7
  DEF InvitationAcceptController, BusinessController, MeController

\* A request past its guard, with a membership still there.
LEMMA AdmittedFields ==
  ASSUME TeamTypeOK, NEW r \in Request, request[r].op = "admitted", IsMember(actor(r), place(r))
  PROVE  /\ actor(r) \in User /\ place(r) \in Location /\ place(r) \in DOMAIN locations
         /\ request[r].as \in Role /\ roleAt(r) \in Role
<1>1. request[r] \in RequestState
  BY DEF TeamTypeOK
<1> QED
  BY <1>1, RequestFields, MemberRows DEF actor, place, roleAt, TeamTypeOK

\* The decisions on memberships and invitations.
LEMMA TypeMembership == ASSUME TeamTypeOK, NEW r \in Request, MembershipController(r) PROVE TeamTypeOK'
<1>1. /\ actor(r) \in User /\ place(r) \in Location /\ place(r) \in DOMAIN locations
      /\ roleAt(r) \in Role
  BY AdmittedFields DEF MembershipController, Admitted
<1>2. ASSUME NEW who \in User, NEW to \in Role, DecideUpdateRole(r, who, to) PROVE TeamTypeOK'
  <2> DEFINE state == [op |-> "updateRole", by |-> actor(r), at |-> place(r), as |-> roleAt(r),
                       who |-> who, was |-> memberships[<<who, place(r)>>], to |-> to]
  <2>1. memberships[<<who, place(r)>>] \in InvitationRole /\ to \in InvitationRole
    BY <1>2, MemberRows DEF DecideUpdateRole, HasRole, Role, InvitationRole, AssignableRole
  <2>2. state \in RequestState /\ RefersToRows(state)
    BY <1>1, <2>1 DEF RequestState, RefersToRows
  <2> QED
    BY <1>2, <2>2, DecideTyped DEF DecideUpdateRole
<1>3. ASSUME NEW who \in User, DecideRemove(r, who) PROVE TeamTypeOK'
  <2> DEFINE state == [op |-> "remove", by |-> actor(r), at |-> place(r), as |-> roleAt(r),
                       who |-> who, was |-> memberships[<<who, place(r)>>]]
  <2>1. memberships[<<who, place(r)>>] \in InvitationRole
    BY <1>3, MemberRows DEF DecideRemove, HasRole, Role, InvitationRole
  <2>2. state \in RequestState /\ RefersToRows(state)
    BY <1>1, <2>1 DEF RequestState, RefersToRows
  <2> QED
    BY <1>3, <2>2, DecideTyped DEF DecideRemove
<1>4. ASSUME DecideLeave(r) PROVE TeamTypeOK'
  <2> DEFINE state == [op |-> "leave", by |-> actor(r), at |-> place(r)]
  <2>1. state \in RequestState /\ RefersToRows(state)
    BY <1>1 DEF RequestState, RefersToRows
  <2> QED
    BY <1>4, <2>1, DecideTyped DEF DecideLeave
<1> QED
  BY <1>2, <1>3, <1>4 DEF MembershipController

\* The same for the decisions on invitations.
LEMMA TypeInvitation == ASSUME TeamTypeOK, NEW r \in Request, InvitationController(r) PROVE TeamTypeOK'
<1>1. actor(r) \in User /\ place(r) \in Location /\ place(r) \in DOMAIN locations
  BY AdmittedFields DEF InvitationController, Admitted
<1>2. ASSUME NEW who \in User, NEW to \in InvitationRole, DecideInvite(r, who, to) PROVE TeamTypeOK'
  <2> DEFINE state == [op |-> "invite", by |-> actor(r), at |-> place(r), who |-> who, to |-> to]
  <2>1. state \in RequestState /\ RefersToRows(state)
    BY <1>1 DEF RequestState, RefersToRows
  <2> QED
    BY <1>2, <2>1, DecideTyped DEF DecideInvite
<1>3. ASSUME NEW i \in DOMAIN invitations, NEW op \in {"revoke", "resend"}, DecideOn(r, i, op)
      PROVE TeamTypeOK'
  <2> DEFINE state == [op |-> op, by |-> actor(r), id |-> i]
  <2>1. i \in Invitation
    BY DEF TeamTypeOK
  <2>2. state \in RequestState /\ RefersToRows(state)
    BY <1>1, <2>1 DEF RequestState, RefersToRows
  <2> QED
    BY <1>3, <2>2, DecideTyped DEF DecideOn
<1> QED
  BY <1>2, <1>3 DEF InvitationController, DecideRevoke, DecideResend

\* A write keeps the types when it keeps those of the tables and deletes
\* nothing but memberships.
LEMMA WriteTyped ==
  ASSUME TeamTypeOK, NEW r \in Request, NEW gone, Finish(r, gone),
         DOMAIN business \subseteq DOMAIN business', DOMAIN business' \subseteq Business,
         IsTable(business', User),
         DOMAIN locations \subseteq DOMAIN locations', DOMAIN locations' \subseteq Location,
         IsTable(locations', LocationRow),
         \A l \in DOMAIN locations' : locations'[l].of \in DOMAIN business',
         DOMAIN memberships' \subseteq User \X DOMAIN locations', IsTable(memberships', Role),
         DOMAIN invitations \subseteq DOMAIN invitations', DOMAIN invitations' \subseteq Invitation,
         IsTable(invitations', InvitationRow),
         \A i \in DOMAIN invitations' : invitations'[i].at \in DOMAIN locations',
         deleted' \subseteq User, used' \in [Invitation -> Nat]
  PROVE  TeamTypeOK'
BY FinishTyped DEF TeamTypeOK, IsTable

\* A write to memberships only.
LEMMA MembershipsTyped ==
  ASSUME TeamTypeOK, NEW r \in Request, NEW gone, Finish(r, gone),
         DOMAIN memberships' \subseteq User \X DOMAIN locations, IsTable(memberships', Role),
         UNCHANGED <<business, locations, invitations, deleted, used>>
  PROVE  TeamTypeOK'
BY WriteTyped DEF TeamTypeOK

\* A write to invitations only, with a status and a deadline of its own.
LEMMA InvitationsTyped ==
  ASSUME TeamTypeOK, NEW r \in Request, NEW gone, Finish(r, gone),
         DOMAIN invitations \subseteq DOMAIN invitations', DOMAIN invitations' \subseteq Invitation,
         IsTable(invitations', InvitationRow),
         \A i \in DOMAIN invitations' : invitations'[i].at \in DOMAIN locations,
         UNCHANGED <<business, locations, memberships, deleted, used>>
  PROVE  TeamTypeOK'
BY WriteTyped DEF TeamTypeOK

\* What is in the row of an invitation.
LEMMA InvitationFields ==
  ASSUME TeamTypeOK, NEW i \in DOMAIN invitations
  PROVE  /\ i \in Invitation /\ invitations[i] \in InvitationRow
         /\ invitations[i].at \in DOMAIN locations /\ invitations[i].at \in Location
         /\ invitations[i].role \in InvitationRole /\ invitations[i].status \in InvitationStatus
BY DEF TeamTypeOK, IsTable, InvitationRow

\* Setting the status of invitations, or their deadline, keeps them typed.
LEMMA StatusTyped ==
  ASSUME TeamTypeOK, NEW i \in DOMAIN invitations, NEW status \in InvitationStatus
  PROVE  /\ [invitations[i] EXCEPT !.status = status] \in InvitationRow
         /\ [invitations[i] EXCEPT !.status = status].at = invitations[i].at
         /\ \A expired \in BOOLEAN :
              /\ [invitations[i] EXCEPT !.expired = expired] \in InvitationRow
              /\ [invitations[i] EXCEPT !.expired = expired].at = invitations[i].at
              /\ [invitations[i] EXCEPT !.expired = expired].status = invitations[i].status
BY InvitationFields DEF InvitationRow

\* Deleting memberships keeps the others.
LEMMA MembershipsDeleted ==
  ASSUME TeamTypeOK, NEW gone
  PROVE  /\ DOMAIN Delete(memberships, gone) = DOMAIN memberships \ gone
         /\ DOMAIN Delete(memberships, gone) \subseteq DOMAIN memberships
         /\ IsTable(Delete(memberships, gone), Role)
         /\ \A k \in DOMAIN memberships \ gone : Delete(memberships, gone)[k] = memberships[k]
<1>1. IsTable(memberships, Role)
  BY DEF TeamTypeOK
<1>2. IsTable(Delete(memberships, gone), Role)
  BY <1>1, DeleteTyped
<1>3. /\ DOMAIN Delete(memberships, gone) = DOMAIN memberships \ gone
      /\ \A k \in DOMAIN memberships \ gone : Delete(memberships, gone)[k] = memberships[k]
  BY DeleteRows
<1>4. DOMAIN memberships \ gone \subseteq DOMAIN memberships
  OBVIOUS
<1> QED
  BY <1>2, <1>3, <1>4

\* Roles changed and memberships deleted.
LEMMA TypeMembers ==
  ASSUME TeamTypeOK, NEW r \in Request, UpdateRole(r) \/ Remove(r) \/ Leave(r)
  PROVE  TeamTypeOK'
<1>1. CASE UpdateRole(r)
  <2>1. request[r].to \in Role
    BY <1>1, RequestFields, InvitedRoles DEF UpdateRole, TeamTypeOK
  <2>2. DOMAIN memberships' = DOMAIN memberships /\ IsTable(memberships', Role)
    BY <1>1, <2>1 DEF UpdateRole, TeamTypeOK, IsTable
  <2> QED
    BY <1>1, <2>2, MembershipsTyped DEF UpdateRole, TeamTypeOK
<1>2. CASE Remove(r)
  <2> DEFINE key == <<request[r].who, place(r)>>
  <2>1. memberships' = Delete(memberships, {key}) /\ Finish(r, {key})
    BY <1>2 DEF Remove
  <2>2. DOMAIN memberships' \subseteq DOMAIN memberships /\ IsTable(memberships', Role)
    BY <2>1, MembershipsDeleted
  <2> QED
    BY <1>2, <2>1, <2>2, MembershipsTyped DEF Remove, TeamTypeOK
<1>3. CASE Leave(r)
  <2> DEFINE key == <<actor(r), place(r)>>
  <2>1. memberships' = Delete(memberships, {key}) /\ Finish(r, {key})
    BY <1>3 DEF Leave
  <2>2. DOMAIN memberships' \subseteq DOMAIN memberships /\ IsTable(memberships', Role)
    BY <2>1, MembershipsDeleted
  <2> QED
    BY <1>3, <2>1, <2>2, MembershipsTyped DEF Leave, TeamTypeOK
<1> QED
  BY <1>1, <1>2, <1>3

\* The stale invitation recorded as expired, its request going on.
LEMMA TypeExpireStale ==
  ASSUME TeamTypeOK, NEW r \in Request, ExpireStale(r)
  PROVE  TeamTypeOK'
<1>1. /\ DOMAIN invitations' = DOMAIN invitations
      /\ \A j \in DOMAIN invitations :
           \/ invitations'[j] = [invitations[j] EXCEPT !.status = "EXPIRED"]
           \/ invitations'[j] = invitations[j]
      /\ invitations' = [j \in DOMAIN invitations' |-> invitations'[j]]
  BY DEF ExpireStale
<1>2. ASSUME NEW j \in DOMAIN invitations
      PROVE  invitations'[j] \in InvitationRow /\ invitations'[j].at \in DOMAIN locations
  <2>1. "EXPIRED" \in InvitationStatus
    BY DEF InvitationStatus
  <2>2. /\ [invitations[j] EXCEPT !.status = "EXPIRED"] \in InvitationRow
        /\ [invitations[j] EXCEPT !.status = "EXPIRED"].at = invitations[j].at
    BY <2>1, StatusTyped
  <2> QED
    BY <1>1, <2>2, InvitationFields
<1>3. /\ DOMAIN invitations' \subseteq Invitation /\ IsTable(invitations', InvitationRow)
      /\ \A j \in DOMAIN invitations' : invitations'[j].at \in DOMAIN locations
  BY <1>1, <1>2 DEF IsTable, TeamTypeOK
<1>4. PICK q : q = request[r]
  OBVIOUS
<1>5. [q EXCEPT !.op = "createInvitation"] \in RequestState
      /\ RefersToRows([q EXCEPT !.op = "createInvitation"])
  <2>1. q \in RequestState /\ RefersToRows(q) /\ q.op = "invite"
    BY <1>4 DEF TeamTypeOK, ExpireStale
  <2>2. q \in [op : {"invite", "createInvitation"}, by : User, at : Location, who : User,
                 to : InvitationRole]
    BY <2>1 DEF RequestState, Idle
  <2> DEFINE next == [q EXCEPT !.op = "createInvitation"]
  <2>3. next \in [op : {"invite", "createInvitation"}, by : User, at : Location, who : User,
                    to : InvitationRole]
        /\ next.op = "createInvitation" /\ next.at = q.at
    BY <2>2
  <2>4. q.at \in DOMAIN locations
    BY <2>1 DEF RefersToRows
  <2> HIDE DEF next
  <2>5. next \in RequestState
    BY <2>3 DEF RequestState
  <2>6. RefersToRows(next)
    BY <2>3, <2>4 DEF RefersToRows
  <2> QED
    BY <2>5, <2>6 DEF next
<1>6. request' = [request EXCEPT ![r] = [q EXCEPT !.op = "createInvitation"]]
  BY <1>4 DEF ExpireStale
<1>7. request' \in [Request -> RequestState] /\ \A t \in Request : RefersToRows(request'[t])
  BY <1>5, <1>6 DEF TeamTypeOK
<1>8. UNCHANGED <<business, locations, memberships, deleted, started, used>>
  BY DEF ExpireStale
<1> QED
  BY <1>1, <1>3, <1>7, <1>8 DEF TeamTypeOK, RefersToRows, IsTable

\* Invitations sent, revoked, prolonged and recorded as expired.
LEMMA TypeInvitations ==
  ASSUME TeamTypeOK, NEW r \in Request,
         (\E i \in Invitation : Invite(r, i)) \/ ExpireStale(r) \/ Revoke(r) \/ Resend(r) \/ Expire(r)
  PROVE  TeamTypeOK'
<1>0. request[r] \in RequestState /\ RefersToRows(request[r])
  BY DEF TeamTypeOK
<1>1. ASSUME NEW i \in Invitation, Invite(r, i) PROVE TeamTypeOK'
  <2>1. /\ place(r) \in Location /\ place(r) \in DOMAIN locations
        /\ request[r].who \in User /\ request[r].to \in InvitationRole
    BY <1>0, <1>1, RequestFields DEF Invite, RefersToRows, place
  <2>2. [at |-> place(r), email |-> request[r].who, role |-> request[r].to,
         status |-> "PENDING", expired |-> FALSE] \in InvitationRow
    BY <2>1 DEF InvitationRow, InvitationStatus
  <2> DEFINE row == [at |-> place(r), email |-> request[r].who, role |-> request[r].to,
                     status |-> "PENDING", expired |-> FALSE]
  <2>3. invitations' = Insert(invitations, i, row)
    BY <1>1 DEF Invite
  <2>4. row.at \in DOMAIN locations /\ row \in InvitationRow
    BY <2>1, <2>2
  <2> HIDE DEF row
  <2>5. /\ DOMAIN invitations' = DOMAIN invitations \cup {i} /\ invitations'[i] = row
        /\ \A j \in DOMAIN invitations : j # i => invitations'[j] = invitations[j]
    BY <2>3 DEF Insert
  <2>6. IsTable(invitations', InvitationRow)
    BY <2>3, <2>4, InsertTyped DEF TeamTypeOK
  <2>7. \A j \in DOMAIN invitations' : invitations'[j].at \in DOMAIN locations
    BY <2>4, <2>5, InvitationFields
  <2>8. DOMAIN invitations' \subseteq Invitation
    BY <2>5 DEF TeamTypeOK
  <2> QED
    BY <1>1, <2>5, <2>6, <2>7, <2>8, InvitationsTyped DEF Invite
<1>2. ASSUME NEW status \in InvitationStatus, request[r].id \in DOMAIN invitations,
             SetStatus(request[r].id, status), Finish(r, {}),
             UNCHANGED <<business, locations, memberships, deleted, used>>
      PROVE  TeamTypeOK'
  <2>1. /\ DOMAIN invitations' = DOMAIN invitations
        /\ IsTable(invitations', InvitationRow)
        /\ \A i \in DOMAIN invitations' : invitations'[i].at \in DOMAIN locations
    BY <1>2, StatusTyped, InvitationFields DEF SetStatus, IsTable
  <2> QED
    BY <1>2, <2>1, InvitationsTyped DEF TeamTypeOK
<1>3. CASE Revoke(r)
  <2>1. request[r].id \in DOMAIN invitations
    BY <1>0, <1>3 DEF Revoke, RefersToRows
  <2> QED
    BY <1>2, <1>3, <2>1 DEF Revoke, InvitationStatus
<1>4. CASE Expire(r)
  <2>1. request[r].id \in DOMAIN invitations
    BY <1>0, <1>4 DEF Expire, RefersToRows
  <2> QED
    BY <1>2, <1>4, <2>1 DEF Expire, InvitationStatus
<1>5. CASE Resend(r)
  <2>1. request[r].id \in DOMAIN invitations
    BY <1>0, <1>5 DEF Resend, RefersToRows
  <2>2. /\ DOMAIN invitations' = DOMAIN invitations
        /\ IsTable(invitations', InvitationRow)
        /\ \A i \in DOMAIN invitations' : invitations'[i].at \in DOMAIN locations
    BY <1>5, <2>1, StatusTyped, InvitationFields DEF Resend, IsTable, InvitationStatus
  <2> QED
    BY <1>5, <2>2, InvitationsTyped DEF Resend, TeamTypeOK
<1> QED
  BY <1>1, <1>3, <1>4, <1>5, TypeExpireStale

\* A new location, the owner's membership with it, and perhaps its business.
LEMMA LocationAdded ==
  ASSUME TeamTypeOK, NEW r \in Request, actor(r) \in User, NEW b \in Business,
         NEW l \in Location, AddLocationOf(r, b, l), b \in DOMAIN business',
         DOMAIN business \subseteq DOMAIN business', DOMAIN business' \subseteq Business,
         IsTable(business', User), Finish(r, {}), UNCHANGED <<invitations, deleted, used>>
  PROVE  TeamTypeOK'
<1>1. /\ l \in Location /\ l \notin DOMAIN locations
      /\ locations' = Insert(locations, l, [of |-> b, live |-> TRUE])
      /\ memberships' = Insert(memberships, <<actor(r), l>>, "OWNER")
  BY DEF AddLocationOf
<1>2. /\ IsTable(locations, LocationRow) /\ IsTable(memberships, Role)
      /\ [of |-> b, live |-> TRUE] \in LocationRow /\ "OWNER" \in Role
  BY DEF TeamTypeOK, LocationRow, Role
<1>3. IsTable(locations', LocationRow) /\ IsTable(memberships', Role)
  BY <1>1, <1>2, InsertTyped
<1>4. /\ DOMAIN locations' = DOMAIN locations \cup {l} /\ locations'[l].of = b
      /\ \A k \in DOMAIN locations : locations'[k] = locations[k]
  <2> DEFINE row == [of |-> b, live |-> TRUE]
  <2>1. row.of = b
    OBVIOUS
  <2> HIDE DEF row
  <2>2. locations' = Insert(locations, l, row)
    BY <1>1 DEF row
  <2>3. /\ DOMAIN locations' = DOMAIN locations \cup {l} /\ locations'[l] = row
        /\ \A k \in DOMAIN locations : k # l => locations'[k] = locations[k]
    BY <2>2 DEF Insert
  <2> QED
    BY <1>1, <2>1, <2>3
<1>5. DOMAIN memberships' = DOMAIN memberships \cup {<<actor(r), l>>}
  BY <1>1, InsertRows
<1>6. DOMAIN locations' \subseteq Location /\ DOMAIN locations \subseteq DOMAIN locations'
  BY <1>1, <1>4 DEF TeamTypeOK
<1>7. \A k \in DOMAIN locations' : locations'[k].of \in DOMAIN business'
  BY <1>4 DEF TeamTypeOK
<1>8. DOMAIN memberships' \subseteq User \X DOMAIN locations'
  BY <1>4, <1>5 DEF TeamTypeOK
<1>9. \A i \in DOMAIN invitations' : invitations'[i].at \in DOMAIN locations'
  BY <1>6 DEF TeamTypeOK
<1> QED
  BY <1>3, <1>6, <1>7, <1>8, <1>9, WriteTyped DEF TeamTypeOK

\* Writes that add a location keep the types.
LEMMA TypeLocations ==
  ASSUME TeamTypeOK, NEW r \in Request,
         \/ \E b \in Business, l \in Location : Create(r, b, l)
         \/ \E l \in Location : AddLocation(r, l)
  PROVE  TeamTypeOK'
<1>0. request[r] \in RequestState /\ RefersToRows(request[r])
  BY DEF TeamTypeOK
<1>1. ASSUME NEW b \in Business, NEW l \in Location, Create(r, b, l) PROVE TeamTypeOK'
  <2>1. actor(r) \in User
    BY <1>0, <1>1, RequestFields DEF Create, actor
  <2>2. business' = Insert(business, b, actor(r)) /\ IsTable(business, User)
    BY <1>1 DEF Create, TeamTypeOK
  <2>3. DOMAIN business' = DOMAIN business \cup {b} /\ IsTable(business', User)
    BY <2>1, <2>2, InsertRows, InsertTyped
  <2> QED
    BY <1>1, <2>1, <2>3, LocationAdded DEF Create, TeamTypeOK
<1>2. ASSUME NEW l \in Location, AddLocation(r, l) PROVE TeamTypeOK'
  <2>1. actor(r) \in User /\ request[r].id \in Business /\ request[r].id \in DOMAIN business
    BY <1>0, <1>2, RequestFields DEF AddLocation, actor, RefersToRows
  <2> QED
    BY <1>2, <2>1, LocationAdded DEF AddLocation, TeamTypeOK
<1> QED
  BY <1>1, <1>2

\* An invitation accepted.
LEMMA TypeAccept == ASSUME TeamTypeOK, NEW r \in Request, Accept(r) PROVE TeamTypeOK'
<1> DEFINE i == request[r].id
           l == invitations[i].at
<1>1. request[r] \in RequestState /\ RefersToRows(request[r])
  BY DEF TeamTypeOK
<1>2. actor(r) \in User /\ i \in DOMAIN invitations /\ i \in Invitation
  BY <1>1, RequestFields DEF Accept, actor, RefersToRows
<1>3. l \in DOMAIN locations /\ invitations[i].role \in Role
  BY <1>2, InvitationFields, InvitedRoles
<1>4. /\ memberships' = Insert(memberships, <<actor(r), l>>, invitations[i].role)
      /\ invitations' = [invitations EXCEPT ![i].status = "ACCEPTED"]
      /\ used' = [used EXCEPT ![i] = @ + 1]
      /\ UNCHANGED <<business, locations, deleted>> /\ Finish(r, {})
  BY DEF Accept, SetStatus
<1>5. IsTable(memberships, Role)
  BY DEF TeamTypeOK
<1>6. /\ IsTable(memberships', Role)
      /\ DOMAIN memberships' = DOMAIN memberships \cup {<<actor(r), l>>}
  BY <1>3, <1>4, <1>5, InsertTyped, InsertRows
<1>7. /\ DOMAIN invitations' = DOMAIN invitations
      /\ IsTable(invitations', InvitationRow)
      /\ \A j \in DOMAIN invitations' : invitations'[j].at \in DOMAIN locations
  <2>1. "ACCEPTED" \in InvitationStatus
    BY DEF InvitationStatus
  <2> HIDE DEF i
  <2> QED
    BY <1>2, <1>4, <2>1, StatusTyped, InvitationFields DEF IsTable
<1>8. used' \in [Invitation -> Nat]
  BY <1>2, <1>4 DEF TeamTypeOK
<1>9. DOMAIN memberships' \subseteq User \X DOMAIN locations
  BY <1>2, <1>3, <1>6 DEF TeamTypeOK
<1> QED
  BY <1>4, <1>6, <1>7, <1>8, <1>9, WriteTyped DEF TeamTypeOK

\* A business handed over.
LEMMA TypeTransfer == ASSUME TeamTypeOK, NEW r \in Request, Transfer(r) PROVE TeamTypeOK'
<1> DEFINE b == request[r].id
           to == request[r].to
<1>1. request[r] \in RequestState /\ RefersToRows(request[r])
  BY DEF TeamTypeOK
<1>2. b \in DOMAIN business /\ to \in User
  BY <1>1, RequestFields DEF Transfer, RefersToRows
<1>3. /\ business' = [business EXCEPT ![b] = to]
      /\ HandOver(b, actor(r), to)
      /\ UNCHANGED <<locations, invitations, deleted, used>> /\ Finish(r, {})
  BY DEF Transfer
<1> HIDE DEF b, to
<1>4. DOMAIN business' = DOMAIN business /\ IsTable(business', User)
  BY <1>2, <1>3 DEF TeamTypeOK, IsTable
<1>5. DOMAIN memberships' \subseteq User \X DOMAIN locations
  BY <1>2, <1>3 DEF HandOver, LocationsOf, TeamTypeOK
<1>6. IsTable(memberships', Role)
  <2>1. ASSUME NEW k \in DOMAIN memberships' PROVE memberships'[k] \in Role
    <3>1. CASE k[2] \in LocationsOf(b) /\ k[1] = to
      BY <1>3, <3>1 DEF HandOver, Role
    <3>2. CASE ~(k[2] \in LocationsOf(b) /\ k[1] = to)
      <4>1. k \in DOMAIN memberships
        BY <1>3, <3>2 DEF HandOver
      <4> QED
        BY <1>3, <3>2, <4>1 DEF HandOver, Role, TeamTypeOK, IsTable
    <3> QED
      BY <3>1, <3>2
  <2>2. memberships' = [k \in DOMAIN memberships' |-> memberships'[k]]
    BY <1>3 DEF HandOver
  <2> QED
    BY <2>1, <2>2 DEF IsTable
<1> QED
  BY <1>3, <1>4, <1>5, <1>6, WriteTyped DEF TeamTypeOK

\* A location closed and its pending invitations revoked.
LEMMA TypeRemoveLocation ==
  ASSUME TeamTypeOK, NEW r \in Request, LocationController(r)
  PROVE  TeamTypeOK'
<1>1. request[r] \in RequestState /\ RefersToRows(request[r]) /\ request[r].op = "admitted"
  BY DEF TeamTypeOK, LocationController, Admitted
<1>2. place(r) \in DOMAIN locations
  BY <1>1 DEF RefersToRows, place
<1>3. /\ locations' = [locations EXCEPT ![place(r)].live = FALSE]
      /\ RevokePending(place(r))
      /\ UNCHANGED <<business, memberships, deleted, used>> /\ Finish(r, {})
  BY DEF LocationController, RemoveLocation
<1>4. /\ DOMAIN locations' = DOMAIN locations
      /\ IsTable(locations', LocationRow)
      /\ \A l \in DOMAIN locations' : locations'[l].of \in DOMAIN business'
  BY <1>2, <1>3 DEF TeamTypeOK, IsTable, LocationRow
<1>5. /\ DOMAIN invitations' = DOMAIN invitations
      /\ invitations' = [i \in DOMAIN invitations' |-> invitations'[i]]
      /\ \A i \in DOMAIN invitations :
           \/ invitations'[i] = [invitations[i] EXCEPT !.status = "REVOKED"]
           \/ invitations'[i] = invitations[i]
  BY <1>3 DEF RevokePending
<1>6. ASSUME NEW i \in DOMAIN invitations
      PROVE  invitations'[i] \in InvitationRow /\ invitations'[i].at \in DOMAIN locations
  <2>1. "REVOKED" \in InvitationStatus
    BY DEF InvitationStatus
  <2>2. /\ [invitations[i] EXCEPT !.status = "REVOKED"] \in InvitationRow
        /\ [invitations[i] EXCEPT !.status = "REVOKED"].at = invitations[i].at
    BY <2>1, StatusTyped
  <2> QED
    BY <1>5, <2>2, InvitationFields
<1>7. IsTable(invitations', InvitationRow)
  BY <1>5, <1>6 DEF IsTable
<1> QED
  BY <1>3, <1>4, <1>5, <1>6, <1>7, WriteTyped DEF TeamTypeOK

\* An account deleted and its memberships with it.
LEMMA TypeDeleteAccount == ASSUME TeamTypeOK, NEW r \in Request, DeleteAccount(r) PROVE TeamTypeOK'
<1>1. request[r] \in RequestState
  BY DEF TeamTypeOK
<1>2. actor(r) \in User
  BY <1>1, RequestFields DEF DeleteAccount, actor
<1> DEFINE gone == RowsOf(actor(r))
<1>3. /\ deleted' = deleted \cup {actor(r)} /\ memberships' = Delete(memberships, gone)
      /\ UNCHANGED <<business, locations, invitations, used>> /\ Finish(r, gone)
  BY DEF DeleteAccount
<1> HIDE DEF gone
<1>4. DOMAIN memberships' \subseteq DOMAIN memberships /\ IsTable(memberships', Role)
  BY <1>3, MembershipsDeleted
<1>5. DOMAIN memberships' \subseteq User \X DOMAIN locations
  BY <1>4 DEF TeamTypeOK
<1>6. deleted' \subseteq User
  BY <1>2, <1>3 DEF TeamTypeOK
<1> QED
  BY <1>3, <1>4, <1>5, <1>6, WriteTyped DEF TeamTypeOK

\* An invitation running out, and a request that fails.
LEMMA TypeLapse ==
  ASSUME TeamTypeOK, NEW i \in DOMAIN invitations, Lapse(i)
  PROVE  TeamTypeOK'
<1>1. /\ invitations' = [invitations EXCEPT ![i].expired = TRUE]
      /\ UNCHANGED <<business, locations, memberships, deleted, request, started, used>>
  BY DEF Lapse
<1>2. /\ [invitations[i] EXCEPT !.expired = TRUE] \in InvitationRow
      /\ [invitations[i] EXCEPT !.expired = TRUE].at = invitations[i].at
  <2>1. "PENDING" \in InvitationStatus
    BY DEF InvitationStatus
  <2> QED
    BY <2>1, StatusTyped
<1>3. /\ DOMAIN invitations' = DOMAIN invitations
      /\ IsTable(invitations', InvitationRow)
      /\ \A j \in DOMAIN invitations' : invitations'[j].at \in DOMAIN locations
  BY <1>1, <1>2, InvitationFields DEF IsTable
<1>4. \A r \in Request : RefersToRows(request[r])'
  BY <1>1, <1>3 DEF TeamTypeOK, RefersToRows
<1> QED
  BY <1>1, <1>3, <1>4 DEF TeamTypeOK, IsTable

\* A request that fails keeps the types.
LEMMA TypeFail == ASSUME TeamTypeOK, NEW r \in Request, Fail(r) PROVE TeamTypeOK'
<1>1. UNCHANGED <<ledger, started>>
  BY DEF Fail
<1>2. /\ request' \in [Request -> RequestState]
      /\ \A s \in Request : RefersToRows(request'[s])
  BY IdleTyped DEF TeamTypeOK, Fail
<1> QED
  BY <1>1, <1>2 DEF TeamTypeOK, ledger, RefersToRows, IsTable

\* The initial state is well-typed.
LEMMA TypeInit == TeamInit => TeamTypeOK
<1> SUFFICES ASSUME TeamInit PROVE TeamTypeOK
  OBVIOUS
<1>1. PICK b \in Business, l \in Location, o \in User :
        /\ business = Insert(Empty, b, o)
        /\ locations = Insert(Empty, l, [of |-> b, live |-> TRUE])
        /\ \E team \in SUBSET (User \ {o}) : \E roles \in [team -> InvitationRole] :
             memberships = [k \in (team \cup {o}) \X {l} |-> IF k[1] = o THEN "OWNER" ELSE roles[k[1]]]
        /\ \/ invitations = Empty
           \/ \E i \in Invitation, u \in User, role \in InvitationRole :
                /\ <<u, l>> \notin DOMAIN memberships
                /\ invitations = Insert(Empty, i, [at |-> l, email |-> u, role |-> role,
                                                   status |-> "PENDING", expired |-> FALSE])
  BY DEF TeamInit
<1>2. DOMAIN business = {b} /\ IsTable(business, User)
  BY <1>1 DEF Insert, Empty, IsTable
<1>3. DOMAIN locations = {l} /\ locations[l].of = b /\ IsTable(locations, LocationRow)
  BY <1>1 DEF Insert, Empty, IsTable, LocationRow
<1>4. DOMAIN memberships \subseteq User \X DOMAIN locations /\ IsTable(memberships, Role)
  <2>0. PICK team \in SUBSET (User \ {o}) : \E roles \in [team -> InvitationRole] :
          memberships = [k \in (team \cup {o}) \X {l} |-> IF k[1] = o THEN "OWNER" ELSE roles[k[1]]]
    BY <1>1
  <2>1. PICK roles \in [team -> InvitationRole] :
          memberships = [k \in (team \cup {o}) \X {l} |-> IF k[1] = o THEN "OWNER" ELSE roles[k[1]]]
    BY <2>0
  <2>2. ASSUME NEW k \in DOMAIN memberships PROVE memberships[k] \in Role /\ k \in User \X {l}
    BY <2>1, <2>2, InvitedRoles DEF Role
  <2>3. memberships = [k \in DOMAIN memberships |-> memberships[k]]
    BY <2>1
  <2> QED
    BY <1>3, <2>2, <2>3 DEF IsTable
<1>5. /\ DOMAIN invitations \subseteq Invitation /\ IsTable(invitations, InvitationRow)
      /\ \A i \in DOMAIN invitations : invitations[i].at \in DOMAIN locations
  <2>1. CASE invitations = Empty
    BY <2>1, EmptyTable
  <2>2. ASSUME NEW i \in Invitation, NEW u \in User, NEW role \in InvitationRole,
               invitations = Insert(Empty, i, [at |-> l, email |-> u, role |-> role,
                                               status |-> "PENDING", expired |-> FALSE])
        PROVE  /\ DOMAIN invitations \subseteq Invitation /\ IsTable(invitations, InvitationRow)
               /\ \A j \in DOMAIN invitations : invitations[j].at \in DOMAIN locations
    <3> DEFINE row == [at |-> l, email |-> u, role |-> role, status |-> "PENDING", expired |-> FALSE]
    <3>1. row \in InvitationRow /\ row.at = l
      BY DEF InvitationRow, InvitationStatus
    <3> HIDE DEF row
    <3>2. invitations = Insert(Empty, i, row)
      BY <2>2 DEF row
    <3> QED
      BY <1>3, <3>1, <3>2 DEF Insert, Empty, IsTable
  <2> QED
    BY <1>1, <2>1, <2>2
<1>6. /\ deleted \subseteq User /\ started \in 0 .. MaxRequests /\ used \in [Invitation -> Nat]
      /\ request \in [Request -> RequestState] /\ \A r \in Request : RefersToRows(request[r])
  BY IdleTyped, RequestsAssumption DEF TeamInit
<1> QED
  BY <1>2, <1>3, <1>4, <1>5, <1>6 DEF TeamTypeOK

\* Every step keeps the types.
LEMMA TypeStep == TeamTypeOK /\ [TeamNext]_teamVars => TeamTypeOK'
<1> SUFFICES ASSUME TeamTypeOK, [TeamNext]_teamVars PROVE TeamTypeOK'
  OBVIOUS
<1>1. ASSUME NEW r \in Request, Begin(r) PROVE TeamTypeOK'
  BY <1>1, TypeBegin
<1>2. ASSUME NEW r \in Request, Handle(r) PROVE TeamTypeOK'
  BY <1>2, TypeMembership, TypeInvitation, TypeRemoveLocation DEF Handle
<1>3. ASSUME NEW r \in Request, Write(r) PROVE TeamTypeOK'
  BY <1>3, TypeMembers, TypeInvitations, TypeLocations, TypeAccept, TypeTransfer, TypeDeleteAccount
  DEF Write
<1>4. ASSUME NEW r \in Request, Fail(r) PROVE TeamTypeOK'
  BY <1>4, TypeFail
<1>5. ASSUME NEW i \in DOMAIN invitations, Lapse(i) PROVE TeamTypeOK'
  BY <1>5, TypeLapse
<1>6. CASE UNCHANGED teamVars
  BY <1>6 DEF teamVars, TeamTypeOK, RefersToRows, IsTable
<1> QED
  BY <1>1, <1>2, <1>3, <1>4, <1>5, <1>6 DEF TeamNext

\* The type invariant: among the rest, that no membership, invitation or
\* request refers to a location, a business or an invitation that is not
\* there, however the requests interleave.
THEOREM TeamTypes == TeamSpec => []TeamTypeOK
BY TypeInit, TypeStep, PTL DEF TeamSpec

-----------------------------------------------------------------------------
(* What a request decided on.                                              *)

\* An ADMIN's decision is about an employee, and stays that; an account's
\* deletion is decided on when it owns no live business.
DecidedRightly(q) ==
  /\ q.op \in {"updateRole", "remove"} /\ q.as = "ADMIN" => q.was = "EMPLOYEE"
  /\ q.op = "updateRole" /\ q.as = "ADMIN" => q.to = "EMPLOYEE"
  /\ q.op = "deleteAccount" => q.owned = {}

AllDecidedRightly == \A r \in Request : DecidedRightly(request[r])

\* At the start nothing is decided.
LEMMA DecidedInit == TeamInit => AllDecidedRightly
<1>1. TeamInit => \A r \in Request : request[r] = Idle
  BY DEF TeamInit
<1> QED
  BY <1>1 DEF AllDecidedRightly, DecidedRightly, Idle

\* Every step keeps to it: a decision is never changed, only carried out or
\* dropped.
LEMMA DecidedKept ==
  ASSUME TeamTypeOK, AllDecidedRightly, [TeamNext]_teamVars
  PROVE  AllDecidedRightly'
<1>0. DecidedRightly(Idle)
  BY DEF DecidedRightly, Idle
<1>1. ASSUME NEW r \in Request, NEW state, DecidedRightly(state),
             request' = [request EXCEPT ![r] = state]
      PROVE  AllDecidedRightly'
  <2>1. ASSUME NEW s \in Request PROVE DecidedRightly(request'[s])
    BY <1>1, <2>1 DEF AllDecidedRightly, TeamTypeOK
  <2> QED
    BY <2>1 DEF AllDecidedRightly, DecidedRightly
<1>2. ASSUME NEW r \in Request, NEW gone, Finish(r, gone) PROVE AllDecidedRightly'
  <2>1. ASSUME NEW s \in Request PROVE DecidedRightly(request'[s])
    BY <1>0, <1>2, <2>1 DEF AllDecidedRightly, Finish
  <2> QED
    BY <2>1 DEF AllDecidedRightly, DecidedRightly
<1>3. ASSUME NEW r \in Request, Begin(r) PROVE AllDecidedRightly'
  <2>1. ASSUME NEW u, NEW state, Start(r, u, state), state.op # "updateRole", state.op # "remove",
               state.op = "deleteAccount" => state.owned = {}
        PROVE  AllDecidedRightly'
    BY <1>1, <2>1 DEF Start, DecidedRightly
  <2>2. PICK u \in User :
          \/ \E l \in Location : Admit(r, u, l)
          \/ InvitationAcceptController(r, u) \/ BusinessController(r, u) \/ MeController(r, u)
    BY <1>3 DEF Begin
  <2>3. ASSUME NEW l \in Location, Admit(r, u, l) PROVE AllDecidedRightly'
    BY <2>1, <2>3 DEF Admit
  <2>4. ASSUME NEW i, DecideAccept(r, u, i) PROVE AllDecidedRightly'
    BY <2>1, <2>4 DEF DecideAccept
  <2>5. CASE StartCreate(r, u)
    BY <2>1, <2>5 DEF StartCreate
  <2>6. ASSUME NEW b, DecideAddLocation(r, u, b) PROVE AllDecidedRightly'
    BY <2>1, <2>6 DEF DecideAddLocation
  <2>7. ASSUME NEW b, NEW to, DecideTransfer(r, u, b, to) PROVE AllDecidedRightly'
    BY <2>1, <2>7 DEF DecideTransfer
  <2>8. CASE DecideDeleteAccount(r, u)
    BY <2>1, <2>8 DEF DecideDeleteAccount, MayDeleteAccount
  <2> QED
    BY <2>2, <2>3, <2>4, <2>5, <2>6, <2>7, <2>8
    DEF InvitationAcceptController, BusinessController, MeController
<1>4. ASSUME NEW r \in Request, Handle(r) PROVE AllDecidedRightly'
  <2>1. ASSUME NEW state, Decide(r, state), state.op # "updateRole", state.op # "remove",
               state.op # "deleteAccount"
        PROVE  AllDecidedRightly'
    BY <1>1, <2>1 DEF Decide, DecidedRightly
  <2>2. ASSUME NEW who, NEW to, DecideUpdateRole(r, who, to) PROVE AllDecidedRightly'
    <3> DEFINE state == [op |-> "updateRole", by |-> actor(r), at |-> place(r), as |-> roleAt(r),
                         who |-> who, was |-> memberships[<<who, place(r)>>], to |-> to]
    <3>1. DecidedRightly(state)
      BY <2>2 DEF DecideUpdateRole, assertCanManage, DecidedRightly
    <3> QED
      BY <1>1, <2>2, <3>1 DEF DecideUpdateRole, Decide
  <2>3. ASSUME NEW who, DecideRemove(r, who) PROVE AllDecidedRightly'
    <3> DEFINE state == [op |-> "remove", by |-> actor(r), at |-> place(r), as |-> roleAt(r),
                         who |-> who, was |-> memberships[<<who, place(r)>>]]
    <3>1. DecidedRightly(state)
      BY <2>3 DEF DecideRemove, assertCanManage, DecidedRightly
    <3> QED
      BY <1>1, <2>3, <3>1 DEF DecideRemove, Decide
  <2>4. CASE DecideLeave(r)
    BY <2>1, <2>4 DEF DecideLeave
  <2>5. ASSUME NEW who, NEW to, DecideInvite(r, who, to) PROVE AllDecidedRightly'
    BY <2>1, <2>5 DEF DecideInvite
  <2>6. ASSUME NEW i, NEW op \in {"revoke", "resend"}, DecideOn(r, i, op) PROVE AllDecidedRightly'
    BY <2>1, <2>6 DEF DecideOn
  <2>7. CASE LocationController(r)
    BY <1>2, <2>7 DEF LocationController, RemoveLocation
  <2> QED
    BY <1>4, <2>2, <2>3, <2>4, <2>5, <2>6, <2>7
    DEF Handle, MembershipController, InvitationController, DecideRevoke, DecideResend
<1>5. ASSUME NEW r \in Request, Write(r) PROVE AllDecidedRightly'
  <2>1. (\E gone : Finish(r, gone)) \/ ExpireStale(r)
    BY <1>5 DEF Write, UpdateRole, Remove, Leave, Invite, Revoke, Resend, Expire, Accept, Create,
       AddLocation, Transfer, DeleteAccount
  <2>2. CASE ExpireStale(r)
    <3>1. PICK q : q = request[r]
      OBVIOUS
    <3>2. /\ q.op = "invite" /\ q \in RequestState
          /\ request' = [request EXCEPT ![r] = [q EXCEPT !.op = "createInvitation"]]
      BY <2>2, <3>1 DEF ExpireStale, TeamTypeOK
    <3>3. [q EXCEPT !.op = "createInvitation"].op = "createInvitation"
      BY <3>2 DEF RequestState, Idle
    <3>4. DecidedRightly([q EXCEPT !.op = "createInvitation"])
      BY <3>3 DEF DecidedRightly
    <3> QED
      BY <1>1, <3>2, <3>4
  <2> QED
    BY <1>2, <2>1, <2>2
<1>6. ASSUME NEW r \in Request, Fail(r) PROVE AllDecidedRightly'
  BY <1>0, <1>1, <1>6 DEF Fail
<1>7. ASSUME UNCHANGED request PROVE AllDecidedRightly'
  BY <1>7 DEF AllDecidedRightly, DecidedRightly
<1>8. ASSUME NEW i \in DOMAIN invitations, Lapse(i) PROVE AllDecidedRightly'
  BY <1>7, <1>8 DEF Lapse
<1> QED
  BY <1>3, <1>4, <1>5, <1>6, <1>7, <1>8 DEF TeamNext, teamVars

\* A step leaves the tables alone, or it is one of the writes.
LEMMA StepCases ==
  ASSUME [TeamNext]_teamVars
  PROVE  \/ UNCHANGED ledger
         \/ \E i \in DOMAIN invitations : Lapse(i)
         \/ \E r \in Request : LocationController(r) \/ Write(r)
<1>1. ASSUME NEW r, Begin(r) PROVE UNCHANGED ledger
  <2>1. \E u, state : Start(r, u, state)
    BY <1>1 DEF Begin, Admit, InvitationAcceptController, DecideAccept, BusinessController, StartCreate,
       DecideAddLocation, DecideTransfer, MeController, DecideDeleteAccount
  <2> QED
    BY <2>1 DEF Start
<1>2. ASSUME NEW r, MembershipController(r) \/ InvitationController(r) PROVE UNCHANGED ledger
  <2>1. \E state : Decide(r, state)
    BY <1>2 DEF MembershipController, DecideUpdateRole, DecideRemove, DecideLeave, InvitationController,
       DecideInvite, DecideRevoke, DecideResend, DecideOn
  <2> QED
    BY <2>1 DEF Decide
<1>3. ASSUME NEW r, Fail(r) PROVE UNCHANGED ledger
  BY <1>3 DEF Fail
<1>4. CASE UNCHANGED teamVars
  BY <1>4 DEF teamVars, ledger
<1> QED
  BY <1>1, <1>2, <1>3, <1>4 DEF TeamNext, Handle

-----------------------------------------------------------------------------
(* Invitations.                                                            *)

\* What a step may do to an invitation that is there: nothing that these
\* properties see, withdraw it (marked if it was not pending), or use it.
Withdrawn(i) ==
  /\ invitations'[i].status \in {"REVOKED", "EXPIRED"} /\ used'[i] = used[i]
  /\ IsPending(i) \/ \E op \in {"revoke", "expire"} : <<op, i>> \in late'

UsedUp(i) == IsPending(i) /\ invitations'[i].status = "ACCEPTED" /\ used'[i] = used[i] + 1

OldInvitation(i) ==
  /\ i \in DOMAIN invitations' /\ invitations'[i].at = invitations[i].at
  /\ \/ invitations'[i].status = invitations[i].status /\ used'[i] = used[i]
     \/ Withdrawn(i)
     \/ UsedUp(i)

\* And to one that is not: send it, to a live location or marked.
NewInvitation(i) ==
  /\ used'[i] = used[i]
  /\ i \in DOMAIN invitations' =>
       /\ invitations'[i].status = "PENDING"
       /\ IsLive(invitations[i].at)' \/ <<"invite", i>> \in late'

\* A live location is closed only together with its pending invitations.
LocationsKept ==
  \A l \in DOMAIN locations : locations[l].live =>
    \/ l \in DOMAIN locations' /\ locations'[l].live
    \/ \A i \in DOMAIN invitations' : invitations'[i].at = l => invitations'[i].status # "PENDING"

InvitationStep ==
  /\ \A i \in DOMAIN invitations : OldInvitation(i)
  /\ \A i \in Invitation \ DOMAIN invitations : NewInvitation(i)
  /\ LocationsKept
  /\ late \subseteq late'

\* No step but Invite adds an invitation.
LEMMA NoNewInvitation ==
  ASSUME DOMAIN invitations' = DOMAIN invitations,
         \A i \in Invitation \ DOMAIN invitations : used'[i] = used[i]
  PROVE  \A i \in Invitation \ DOMAIN invitations : NewInvitation(i)
BY DEF NewInvitation

\* A step that leaves invitations alone, and adds at most a location.
LEMMA InvitationsAlone ==
  ASSUME UNCHANGED <<invitations, used>>, late \subseteq late',
         \A l \in DOMAIN locations : l \in DOMAIN locations' /\ locations'[l] = locations[l]
  PROVE  InvitationStep
BY NoNewInvitation DEF InvitationStep, OldInvitation, LocationsKept

\* The stale invitation is pending when it is withdrawn.
LEMMA InvitationExpireStale ==
  ASSUME TeamTypeOK, NEW r \in Request, ExpireStale(r)
  PROVE  InvitationStep
<1>1. /\ UNCHANGED <<locations, used, late>> /\ DOMAIN invitations' = DOMAIN invitations
      /\ \A j \in DOMAIN invitations :
           \/ IsPending(j) /\ invitations'[j] = [invitations[j] EXCEPT !.status = "EXPIRED"]
           \/ invitations'[j] = invitations[j]
  BY DEF ExpireStale
<1>2. ASSUME NEW j \in DOMAIN invitations PROVE OldInvitation(j)
  <2>1. /\ [invitations[j] EXCEPT !.status = "EXPIRED"].at = invitations[j].at
        /\ [invitations[j] EXCEPT !.status = "EXPIRED"].status = "EXPIRED"
    BY InvitationFields DEF InvitationRow
  <2> QED
    BY <1>1, <2>1 DEF OldInvitation, Withdrawn
<1>3. \A j \in Invitation \ DOMAIN invitations : NewInvitation(j)
  BY <1>1, NoNewInvitation
<1> QED
  BY <1>1, <1>2, <1>3 DEF InvitationStep, LocationsKept

\* Sending an invitation adds one.
LEMMA InvitationInvite ==
  ASSUME TeamTypeOK, NEW r \in Request, NEW i \in Invitation, Invite(r, i)
  PROVE  InvitationStep
<1> DEFINE row == [at |-> place(r), email |-> request[r].who, role |-> request[r].to,
                   status |-> "PENDING", expired |-> FALSE]
<1>1. /\ i \notin DOMAIN invitations /\ UNCHANGED <<locations, used>>
      /\ late' = late \cup Late("invite", {j \in {i} : ~IsLive(place(r))})
      /\ invitations' = Insert(invitations, i, row)
  BY DEF Invite
<1>2. row.at = place(r) /\ row.status = "PENDING"
  OBVIOUS
<1> HIDE DEF row
<1>3. /\ DOMAIN invitations' = DOMAIN invitations \cup {i} /\ invitations'[i] = row
      /\ \A j \in DOMAIN invitations : invitations'[j] = invitations[j]
  BY <1>1 DEF Insert
<1>4. \A j \in DOMAIN invitations : OldInvitation(j)
  BY <1>1, <1>3 DEF OldInvitation
<1>5. ASSUME NEW j \in Invitation \ DOMAIN invitations PROVE NewInvitation(j)
  <2>1. IsLive(place(r)) \/ <<"invite", i>> \in late'
    BY <1>1 DEF Late
  <2>2. j \in DOMAIN invitations' => j = i
    BY <1>3
  <2>3. IsLive(invitations[j].at)' <=> invitations'[j].at \in DOMAIN locations /\ locations[invitations'[j].at].live
    BY <1>1 DEF IsLive
  <2> QED
    BY <1>1, <1>2, <1>3, <2>1, <2>2, <2>3 DEF NewInvitation, IsLive
<1>6. LocationsKept /\ late \subseteq late'
  BY <1>1 DEF LocationsKept
<1> QED
  BY <1>4, <1>5, <1>6 DEF InvitationStep

\* A step that withdraws one invitation.
LEMMA InvitationWithdraw ==
  ASSUME TeamTypeOK, NEW r \in Request, Revoke(r) \/ Expire(r)
  PROVE  InvitationStep
<1> DEFINE i == request[r].id
<1>1. i \in DOMAIN invitations
  BY DEF TeamTypeOK, RefersToRows, Revoke, Expire
<1>2. PICK op \in {"revoke", "expire"}, status \in {"REVOKED", "EXPIRED"} :
        /\ invitations' = [invitations EXCEPT ![i].status = status]
        /\ late' = late \cup Late(op, {j \in {i} : ~IsPending(j)})
        /\ UNCHANGED <<locations, used>>
  BY DEF Revoke, Expire, SetStatus
<1> HIDE DEF i
<1>3. ASSUME NEW j \in DOMAIN invitations PROVE OldInvitation(j)
  <2>1. CASE j = i
    <3>1. invitations'[j] = [invitations[j] EXCEPT !.status = status] /\ j \in DOMAIN invitations'
      BY <1>1, <1>2, <2>1
    <3>2. invitations'[j].status = status /\ invitations'[j].at = invitations[j].at
      BY <3>1, InvitationFields DEF InvitationRow
    <3>3. IsPending(j) \/ <<op, j>> \in late'
      BY <1>2, <2>1 DEF Late
    <3> QED
      BY <1>2, <3>1, <3>2, <3>3 DEF OldInvitation, Withdrawn
  <2>2. CASE j # i
    BY <1>2, <2>2 DEF OldInvitation
  <2> QED
    BY <2>1, <2>2
<1>4. \A j \in Invitation \ DOMAIN invitations : NewInvitation(j)
  BY <1>2, NoNewInvitation
<1> QED
  BY <1>2, <1>3, <1>4 DEF InvitationStep, LocationsKept

\* A step that changes the deadline of one.
LEMMA InvitationDeadline ==
  ASSUME TeamTypeOK, NEW i \in DOMAIN invitations, NEW expired \in BOOLEAN,
         invitations' = [invitations EXCEPT ![i].expired = expired],
         UNCHANGED <<locations, used, late>>
  PROVE  InvitationStep
<1>1. ASSUME NEW j \in DOMAIN invitations PROVE OldInvitation(j)
  <2>1. /\ [invitations[j] EXCEPT !.expired = expired].status = invitations[j].status
        /\ [invitations[j] EXCEPT !.expired = expired].at = invitations[j].at
    BY InvitationFields DEF InvitationRow
  <2>2. /\ j \in DOMAIN invitations'
        /\ \/ invitations'[j] = invitations[j]
           \/ invitations'[j] = [invitations[j] EXCEPT !.expired = expired]
    OBVIOUS
  <2> QED
    BY <2>1, <2>2 DEF OldInvitation
<1>2. \A j \in Invitation \ DOMAIN invitations : NewInvitation(j)
  BY NoNewInvitation
<1> QED
  BY <1>1, <1>2 DEF InvitationStep, LocationsKept

\* Accepting one uses it.
LEMMA InvitationAccept == ASSUME TeamTypeOK, NEW r \in Request, Accept(r) PROVE InvitationStep
<1> DEFINE i == request[r].id
<1>1. i \in DOMAIN invitations
  BY DEF TeamTypeOK, RefersToRows, Accept
<1>2. /\ IsPending(i)
      /\ invitations' = [invitations EXCEPT ![i].status = "ACCEPTED"]
      /\ used' = [used EXCEPT ![i] = @ + 1]
      /\ UNCHANGED locations /\ late \subseteq late'
  BY DEF Accept, MayStillAccept, SetStatus
<1> HIDE DEF i
<1>3. ASSUME NEW j \in DOMAIN invitations PROVE OldInvitation(j)
  <2>1. CASE j = i
    <3>1. invitations'[j] = [invitations[j] EXCEPT !.status = "ACCEPTED"] /\ j \in DOMAIN invitations'
      BY <1>1, <1>2, <2>1
    <3>2. invitations'[j].status = "ACCEPTED" /\ invitations'[j].at = invitations[j].at
      BY <3>1, InvitationFields DEF InvitationRow
    <3>3. used'[j] = used[j] + 1
      BY <1>2, <2>1, InvitationFields DEF TeamTypeOK
    <3> QED
      BY <1>2, <2>1, <3>1, <3>2, <3>3 DEF OldInvitation, UsedUp
  <2>2. CASE j # i
    BY <1>2, <2>2, InvitationFields DEF OldInvitation, TeamTypeOK
  <2> QED
    BY <2>1, <2>2
<1>4. \A j \in Invitation \ DOMAIN invitations : NewInvitation(j)
  <2>1. \A j \in Invitation \ DOMAIN invitations : used'[j] = used[j]
    BY <1>1, <1>2 DEF TeamTypeOK
  <2> QED
    BY <1>2, <2>1, NoNewInvitation
<1> QED
  BY <1>2, <1>3, <1>4 DEF InvitationStep, LocationsKept

\* Closing a location revokes what is pending there.
LEMMA InvitationClose ==
  ASSUME TeamTypeOK, NEW r \in Request, LocationController(r)
  PROVE  InvitationStep
<1> DEFINE here == place(r)
<1>1. /\ locations' = [locations EXCEPT ![here].live = FALSE]
      /\ invitations' = [i \in DOMAIN invitations |->
           IF invitations[i].at = here /\ IsPending(i) THEN [invitations[i] EXCEPT !.status = "REVOKED"]
           ELSE invitations[i]]
      /\ UNCHANGED <<used, late>>
  BY DEF LocationController, RemoveLocation, RevokePending
<1> HIDE DEF here
<1>2. ASSUME NEW i \in DOMAIN invitations
      PROVE  OldInvitation(i) /\ (invitations'[i].at = here => invitations'[i].status # "PENDING")
  <2>1. /\ [invitations[i] EXCEPT !.status = "REVOKED"].status = "REVOKED"
        /\ [invitations[i] EXCEPT !.status = "REVOKED"].at = invitations[i].at
    BY InvitationFields DEF InvitationRow
  <2>2. CASE invitations[i].at = here /\ IsPending(i)
    BY <1>1, <2>1, <2>2 DEF OldInvitation, Withdrawn
  <2>3. CASE ~(invitations[i].at = here /\ IsPending(i))
    BY <1>1, <2>3 DEF OldInvitation, IsPending
  <2> QED
    BY <2>2, <2>3
<1>3. \A i \in Invitation \ DOMAIN invitations : NewInvitation(i)
  BY <1>1, NoNewInvitation
<1>4. LocationsKept
  <2>1. ASSUME NEW l \in DOMAIN locations, l # here
        PROVE  l \in DOMAIN locations' /\ locations'[l] = locations[l]
    BY <1>1, <2>1
  <2>2. DOMAIN invitations' = DOMAIN invitations
    BY <1>1
  <2> QED
    BY <1>2, <2>1, <2>2 DEF LocationsKept
<1> QED
  BY <1>1, <1>2, <1>3, <1>4 DEF InvitationStep

\* Every step is of this kind.
LEMMA InvitationSteps == ASSUME TeamTypeOK, [TeamNext]_teamVars PROVE InvitationStep
<1>1. CASE UNCHANGED ledger
  BY <1>1, InvitationsAlone DEF ledger
<1>2. ASSUME NEW i \in DOMAIN invitations, Lapse(i) PROVE InvitationStep
  BY <1>2, InvitationDeadline DEF Lapse
<1>3. ASSUME NEW r \in Request, LocationController(r) PROVE InvitationStep
  BY <1>3, InvitationClose
<1>4. ASSUME NEW r \in Request, Write(r) PROVE InvitationStep
  <2>1. CASE UpdateRole(r) \/ Remove(r) \/ Leave(r) \/ Transfer(r) \/ DeleteAccount(r)
    BY <2>1, InvitationsAlone DEF UpdateRole, Remove, Leave, Transfer, DeleteAccount
  <2>2. ASSUME NEW i \in Invitation, Invite(r, i) PROVE InvitationStep
    BY <2>2, InvitationInvite
  <2>9. CASE ExpireStale(r)
    BY <2>9, InvitationExpireStale
  <2>3. CASE Revoke(r) \/ Expire(r)
    BY <2>3, InvitationWithdraw
  <2>4. CASE Resend(r)
    <3>1. request[r].id \in DOMAIN invitations
      BY <2>4 DEF TeamTypeOK, RefersToRows, Resend
    <3> QED
      BY <2>4, <3>1, InvitationDeadline DEF Resend
  <2>5. CASE Accept(r)
    BY <2>5, InvitationAccept
  <2>6. ASSUME NEW b, NEW l, AddLocationOf(r, b, l)
        PROVE  \A k \in DOMAIN locations : k \in DOMAIN locations' /\ locations'[k] = locations[k]
    BY <2>6 DEF AddLocationOf, Insert
  <2>7. ASSUME NEW b, NEW l, Create(r, b, l) PROVE InvitationStep
    BY <2>6, <2>7, InvitationsAlone DEF Create
  <2>8. ASSUME NEW l, AddLocation(r, l) PROVE InvitationStep
    BY <2>6, <2>8, InvitationsAlone DEF AddLocation
  <2> QED
    BY <1>4, <2>1, <2>2, <2>3, <2>4, <2>5, <2>7, <2>8, <2>9 DEF Write
<1> QED
  BY <1>1, <1>2, <1>3, <1>4, StepCases

\* An invitation has made nobody a member while it is pending or not there.
UnusedUntilAccepted ==
  \A i \in Invitation : used[i] = 0 \/ (i \in DOMAIN invitations /\ ~IsPending(i))

InvitationInv ==
  UnusedUntilAccepted /\ InvitationUsedOnce /\ InvitationTellsTheTruth /\ ClosedLocationInvitesNobody

\* The invitation that may be there at the start is pending and unused.
LEMMA InvitationInit == TeamInit => InvitationInv
<1> SUFFICES ASSUME TeamInit PROVE InvitationInv
  OBVIOUS
<1>1. used = [i \in Invitation |-> 0]
  BY DEF TeamInit
<1>2. \A i \in DOMAIN invitations : i \in Invitation
  BY TypeInit DEF TeamTypeOK
<1>3. PICK b \in Business, l \in Location, o \in User :
        /\ locations = Insert(Empty, l, [of |-> b, live |-> TRUE])
        /\ \/ invitations = Empty
           \/ \E i \in Invitation, u \in User, role \in InvitationRole :
                /\ <<u, l>> \notin DOMAIN memberships
                /\ invitations = Insert(Empty, i, [at |-> l, email |-> u, role |-> role,
                                                   status |-> "PENDING", expired |-> FALSE])
  BY DEF TeamInit
<1>4. l \in DOMAIN locations /\ locations[l].live
  BY <1>3 DEF Insert
<1>5. \A i \in DOMAIN invitations : invitations[i].at = l /\ invitations[i].status = "PENDING"
  <2>1. ASSUME NEW i, NEW u, NEW role,
               invitations = Insert(Empty, i, [at |-> l, email |-> u, role |-> role,
                                               status |-> "PENDING", expired |-> FALSE])
        PROVE  \A j \in DOMAIN invitations : invitations[j].at = l /\ invitations[j].status = "PENDING"
    <3> DEFINE row == [at |-> l, email |-> u, role |-> role, status |-> "PENDING", expired |-> FALSE]
    <3>1. row.at = l /\ row.status = "PENDING"
      OBVIOUS
    <3> HIDE DEF row
    <3>2. invitations = Insert(Empty, i, row)
      BY <2>1 DEF row
    <3> QED
      BY <3>1, <3>2 DEF Insert, Empty
  <2>2. CASE invitations = Empty
    BY <2>2 DEF Empty
  <2> QED
    BY <1>3, <2>1, <2>2
<1> QED
  BY <1>1, <1>2, <1>4, <1>5
  DEF InvitationInv, UnusedUntilAccepted, InvitationUsedOnce, InvitationTellsTheTruth,
      ClosedLocationInvitesNobody, IsLive

\* The invariant follows through such a step.
LEMMA InvitationKept ==
  ASSUME TeamTypeOK, TeamTypeOK', InvitationInv, InvitationStep
  PROVE  InvitationInv'
<1>1. ASSUME NEW i \in Invitation
      PROVE  /\ used'[i] = 0 \/ (i \in DOMAIN invitations' /\ invitations'[i].status # "PENDING")
             /\ used'[i] <= 1
  <2>1. used[i] \in Nat /\ used[i] <= 1
    BY DEF InvitationInv, InvitationUsedOnce, TeamTypeOK
  <2>2. CASE i \in DOMAIN invitations
    <3>1. OldInvitation(i) /\ (used[i] = 0 \/ invitations[i].status # "PENDING")
      BY <2>2 DEF InvitationStep, InvitationInv, UnusedUntilAccepted, IsPending
    <3>2. CASE invitations'[i].status = invitations[i].status /\ used'[i] = used[i]
      BY <2>1, <3>1, <3>2 DEF OldInvitation
    <3>3. CASE Withdrawn(i)
      BY <2>1, <3>1, <3>3 DEF OldInvitation, Withdrawn
    <3>4. CASE UsedUp(i)
      BY <2>1, <3>1, <3>4 DEF OldInvitation, UsedUp, IsPending
    <3> QED
      BY <3>1, <3>2, <3>3, <3>4 DEF OldInvitation
  <2>3. CASE i \notin DOMAIN invitations
    <3>1. used[i] = 0 /\ used'[i] = used[i]
      BY <2>3 DEF InvitationStep, NewInvitation, InvitationInv, UnusedUntilAccepted
    <3> QED
      BY <3>1
  <2> QED
    BY <2>2, <2>3
<1>2. ASSUME NEW i \in DOMAIN invitations'
      PROVE  \/ invitations'[i].status = "ACCEPTED" <=> used'[i] > 0
             \/ used'[i] > 0 /\ \E op \in {"revoke", "expire"} : <<op, i>> \in late'
  <2>1. i \in Invitation /\ used[i] \in Nat
    BY DEF TeamTypeOK
  <2>2. ASSUME i \in DOMAIN invitations
        PROVE  \/ invitations'[i].status = "ACCEPTED" <=> used'[i] > 0
               \/ used'[i] > 0 /\ \E op \in {"revoke", "expire"} : <<op, i>> \in late'
    <3>1. /\ OldInvitation(i) /\ late \subseteq late'
          /\ used[i] = 0 \/ ~IsPending(i)
          /\ \/ invitations[i].status = "ACCEPTED" <=> used[i] > 0
             \/ used[i] > 0 /\ \E op \in {"revoke", "expire"} : <<op, i>> \in late
      BY <2>1, <2>2 DEF InvitationStep, InvitationInv, UnusedUntilAccepted, InvitationTellsTheTruth
    <3>2. CASE invitations'[i].status = invitations[i].status /\ used'[i] = used[i]
      BY <3>1, <3>2
    <3>3. CASE Withdrawn(i)
      BY <2>1, <3>1, <3>3 DEF Withdrawn
    <3>4. CASE UsedUp(i)
      BY <2>1, <3>4 DEF UsedUp
    <3> QED
      BY <3>1, <3>2, <3>3, <3>4 DEF OldInvitation
  <2>3. CASE i \notin DOMAIN invitations
    <3>1. used[i] = 0 /\ used'[i] = used[i] /\ invitations'[i].status = "PENDING"
      BY <2>1, <2>3 DEF InvitationStep, NewInvitation, InvitationInv, UnusedUntilAccepted
    <3> QED
      BY <3>1
  <2> QED
    BY <2>2, <2>3
<1>3. ASSUME NEW i \in DOMAIN invitations', invitations'[i].status = "PENDING"
      PROVE  \/ invitations'[i].at \in DOMAIN locations' /\ locations'[invitations'[i].at].live
             \/ <<"invite", i>> \in late'
  <2>1. CASE i \in DOMAIN invitations
    <3>1. invitations[i].status = "PENDING" /\ invitations'[i].at = invitations[i].at
      BY <1>3, <2>1 DEF InvitationStep, OldInvitation, Withdrawn, UsedUp
    <3>2. IsLive(invitations[i].at) \/ <<"invite", i>> \in late
      BY <2>1, <3>1 DEF InvitationInv, ClosedLocationInvitesNobody, IsPending
    <3> QED
      BY <1>3, <3>1, <3>2 DEF InvitationStep, LocationsKept, IsLive
  <2>2. CASE i \notin DOMAIN invitations
    BY <1>3, <2>2 DEF InvitationStep, NewInvitation, IsLive, TeamTypeOK
  <2> QED
    BY <2>1, <2>2
<1> QED
  BY <1>1, <1>2, <1>3
  DEF InvitationInv, UnusedUntilAccepted, InvitationUsedOnce, InvitationTellsTheTruth,
      ClosedLocationInvitesNobody, IsPending, IsLive

\* InvitationInv holds, and with it the three properties it is made of.
THEOREM InvitationInvariant == TeamSpec => []InvitationInv
<1>1. TeamInit => TeamTypeOK /\ InvitationInv
  BY TypeInit, InvitationInit
<1>2. TeamTypeOK /\ InvitationInv /\ [TeamNext]_teamVars => (TeamTypeOK /\ InvitationInv)'
  BY TypeStep, InvitationSteps, InvitationKept
<1> QED
  BY <1>1, <1>2, PTL DEF TeamSpec

\* No invitation makes more than one membership, whatever accepts, expiries,
\* revokes, resends and removals of members run at once.
THEOREM InvitationsUsedOnce == TeamSpec => []InvitationUsedOnce
<1>1. InvitationInv => InvitationUsedOnce
  BY DEF InvitationInv
<1> QED
  BY <1>1, InvitationInvariant, PTL

\* An invitation is ACCEPTED exactly if it was used, but where a late revoke
\* or expiry is marked.
THEOREM InvitationsTellTheTruth == TeamSpec => []InvitationTellsTheTruth
<1>1. InvitationInv => InvitationTellsTheTruth
  BY DEF InvitationInv
<1> QED
  BY <1>1, InvitationInvariant, PTL

\* No pending invitation leads to a deleted location, but one sent late.
THEOREM ClosedLocationsInviteNobody == TeamSpec => []ClosedLocationInvitesNobody
<1>1. InvitationInv => ClosedLocationInvitesNobody
  BY DEF InvitationInv
<1> QED
  BY <1>1, InvitationInvariant, PTL

-----------------------------------------------------------------------------
(* Managing admins.                                                        *)

\* An ADMIN reaches no membership that is, or becomes, an ADMIN's, unless
\* it changed after the request read it.
THEOREM AdminsAreTheOwners == TeamSpec => OwnerManagesAdmins
<1> DEFINE Managed(r) ==
      LET key == <<request[r].who, place(r)>>
      IN  \/ memberships[key] # "ADMIN" /\ ~(key \in DOMAIN memberships' /\ memberships'[key] = "ADMIN")
          \/ request[r].as \in {"OWNER", "EMPLOYEE"}
          \/ request[r].was # memberships[key]
<1>1. ASSUME TeamTypeOK, AllDecidedRightly, NEW r \in Request, UpdateRole(r) \/ Remove(r)
      PROVE  Managed(r)
  <2> DEFINE key == <<request[r].who, place(r)>>
  <2>1. SUFFICES ASSUME request[r].as \notin {"OWNER", "EMPLOYEE"},
                        request[r].was = memberships[key]
                 PROVE  /\ memberships[key] # "ADMIN"
                        /\ ~(key \in DOMAIN memberships' /\ memberships'[key] = "ADMIN")
    OBVIOUS
  <2>2. request[r].as = "ADMIN"
    BY <1>1, <2>1, RequestFields DEF TeamTypeOK, UpdateRole, Remove, Role
  <2>3. memberships[key] = "EMPLOYEE" /\ (UpdateRole(r) => request[r].to = "EMPLOYEE")
    BY <1>1, <2>1, <2>2 DEF AllDecidedRightly, DecidedRightly, UpdateRole, Remove
  <2> HIDE DEF key
  <2>4. CASE UpdateRole(r)
    <3>1. memberships' = [memberships EXCEPT ![key] = request[r].to]
      BY <2>4 DEF UpdateRole, key
    <3> QED
      BY <2>3, <2>4, <3>1
  <2>5. CASE Remove(r)
    <3>1. memberships' = Delete(memberships, {key})
      BY <2>5 DEF Remove, key
    <3>2. DOMAIN memberships' = DOMAIN memberships \ {key}
      BY <1>1, <3>1, MembershipsDeleted
    <3> QED
      BY <2>3, <3>2
  <2> QED
    BY <1>1, <2>4, <2>5
<1>2. TeamTypeOK /\ AllDecidedRightly /\ [TeamNext]_teamVars
        => [\A r \in Request : UpdateRole(r) \/ Remove(r) => Managed(r)]_teamVars
  BY <1>1
<1>3. TeamInit => TeamTypeOK /\ AllDecidedRightly
  BY TypeInit, DecidedInit
<1>4. TeamTypeOK /\ AllDecidedRightly /\ [TeamNext]_teamVars => (TeamTypeOK /\ AllDecidedRightly)'
  BY TypeStep, DecidedKept
<1> QED
  BY <1>2, <1>3, <1>4, PTL DEF TeamSpec, OwnerManagesAdmins

-----------------------------------------------------------------------------
(* Deleted accounts.                                                       *)

LateForAccount(u) ==
  \E op \in {"create", "addLocation", "transfer", "accept", "deleteAccount"} : <<op, u>> \in late

\* No memberships, and no business with a live location.
Out(u) ==
  /\ \A k \in DOMAIN memberships : k[1] # u
  /\ \A l \in DOMAIN locations : locations[l].live => business[locations[l].of] # u

\* That is what the property says.
LEMMA OutMeans ==
  ASSUME TeamTypeOK, NEW u
  PROVE  RowsOf(u) = {} /\ LiveOwned(u) = {} <=> Out(u)
<1>1. RowsOf(u) = {} <=> \A k \in DOMAIN memberships : k[1] # u
  BY DEF RowsOf
<1>2. LiveOwned(u) = {} <=> \A l \in DOMAIN locations : locations[l].live => business[locations[l].of] # u
  BY DEF LiveOwned, LocationsOf, TeamTypeOK
<1> QED
  BY <1>1, <1>2 DEF Out

AccountsOut == \A u \in deleted : Out(u) \/ LateForAccount(u)

\* Writes that give nobody anything.
LEMMA NothingGiven ==
  ASSUME AccountsOut, late \subseteq late', DOMAIN memberships' \subseteq DOMAIN memberships,
         UNCHANGED <<business, deleted>>, DOMAIN locations' = DOMAIN locations,
         \A l \in DOMAIN locations :
           locations'[l].of = locations[l].of /\ (locations'[l].live => locations[l].live)
  PROVE  AccountsOut'
BY DEF AccountsOut, Out, LateForAccount

\* Writes that give somebody a location, marked if they are deleted.
LEMMA LocationGiven ==
  ASSUME TeamTypeOK, AccountsOut, NEW r \in Request, NEW b, NEW l, AddLocationOf(r, b, l),
         UNCHANGED deleted, late \subseteq late', b \in DOMAIN business',
         \A c \in DOMAIN business : business'[c] = business[c],
         \A u \in deleted : u = actor(r) \/ u = business'[b] => LateForAccount(u)'
  PROVE  AccountsOut'
<1>1. /\ l \notin DOMAIN locations
      /\ locations' = Insert(locations, l, [of |-> b, live |-> TRUE])
      /\ memberships' = Insert(memberships, <<actor(r), l>>, "OWNER")
  BY DEF AddLocationOf
<1>2. DOMAIN memberships' = DOMAIN memberships \cup {<<actor(r), l>>}
  BY <1>1 DEF Insert
<1>3. /\ DOMAIN locations' = DOMAIN locations \cup {l}
      /\ \A k \in DOMAIN locations : locations'[k] = locations[k]
  BY <1>1 DEF Insert
<1>4. locations'[l].of = b
  <2> DEFINE row == [of |-> b, live |-> TRUE]
  <2>1. row.of = b
    OBVIOUS
  <2> HIDE DEF row
  <2>2. locations' = Insert(locations, l, row)
    BY <1>1 DEF row
  <2> QED
    BY <2>1, <2>2 DEF Insert
<1>5. ASSUME NEW u \in deleted PROVE Out(u)' \/ LateForAccount(u)'
  <2>1. CASE LateForAccount(u)
    BY <2>1 DEF LateForAccount
  <2>2. CASE Out(u) /\ ~(LateForAccount(u)')
    <3>1. u # actor(r) /\ u # business'[b]
      BY <2>2 DEF LateForAccount
    <3>2. \A k \in DOMAIN memberships' : k[1] # u
      BY <1>2, <2>2, <3>1 DEF Out
    <3>3. \A k \in DOMAIN locations' : locations'[k].live => business'[locations'[k].of] # u
      BY <1>3, <1>4, <2>2, <3>1 DEF Out, TeamTypeOK
    <3> QED
      BY <3>2, <3>3 DEF Out
  <2> QED
    BY <2>1, <2>2 DEF AccountsOut
<1> QED
  BY <1>5 DEF AccountsOut

\* No write gives a deleted account anything unmarked, and a deletion decided
\* on rightly leaves nothing behind unmarked.
LEMMA AccountsWrite ==
  ASSUME TeamTypeOK, AllDecidedRightly, AccountsOut, NEW r \in Request, Write(r)
  PROVE  AccountsOut'
<1>1. CASE UpdateRole(r)
  BY <1>1, NothingGiven DEF UpdateRole
<1>2. ASSUME NEW gone, memberships' = Delete(memberships, gone)
      PROVE  DOMAIN memberships' \subseteq DOMAIN memberships
  BY <1>2, MembershipsDeleted
<1>3. CASE Remove(r) \/ Leave(r)
  <2>1. DOMAIN memberships' \subseteq DOMAIN memberships
    BY <1>2, <1>3 DEF Remove, Leave
  <2> QED
    BY <1>3, <2>1, NothingGiven DEF Remove, Leave
<1>4. CASE (\E i \in Invitation : Invite(r, i)) \/ ExpireStale(r) \/ Revoke(r) \/ Resend(r) \/ Expire(r)
  BY <1>4, NothingGiven DEF Invite, ExpireStale, Revoke, Resend, Expire
<1>5. CASE Accept(r)
  <2> DEFINE l == invitations[request[r].id].at
             role == invitations[request[r].id].role
  <2>1. /\ memberships' = Insert(memberships, <<actor(r), l>>, role)
        /\ late' = late \cup Late("accept", {u \in {actor(r)} : u \in deleted})
        /\ UNCHANGED <<business, locations, deleted>>
    BY <1>5 DEF Accept
  <2> HIDE DEF l, role
  <2>2. DOMAIN memberships' = DOMAIN memberships \cup {<<actor(r), l>>}
    BY <2>1 DEF Insert
  <2>3. \A u \in deleted : LateForAccount(u)' \/ u # actor(r)
    BY <2>1 DEF Late, LateForAccount
  <2>4. ASSUME NEW u \in deleted, Out(u), u # actor(r) PROVE Out(u)'
    BY <2>1, <2>2, <2>4 DEF Out
  <2>5. \A u \in deleted : LateForAccount(u) => LateForAccount(u)'
    BY <2>1 DEF LateForAccount
  <2> QED
    BY <2>1, <2>3, <2>4, <2>5 DEF AccountsOut
<1>6. ASSUME NEW b \in Business, NEW l \in Location, Create(r, b, l) PROVE AccountsOut'
  <2>1. /\ b \in DOMAIN business' /\ business'[b] = actor(r)
        /\ \A c \in DOMAIN business : business'[c] = business[c]
    BY <1>6 DEF Create, Insert
  <2>2. \A u \in deleted : u = actor(r) => LateForAccount(u)'
    BY <1>6 DEF Create, Late, LateForAccount
  <2> QED
    BY <1>6, <2>1, <2>2, LocationGiven DEF Create
<1>7. ASSUME NEW l \in Location, AddLocation(r, l) PROVE AccountsOut'
  <2>1. request[r].id \in DOMAIN business
    BY <1>7 DEF AddLocation, TeamTypeOK, RefersToRows
  <2>2. late' = late
          \cup Late("addLocation", {k \in {l} : business[request[r].id] # actor(r)})
          \cup Late("addLocation", {u \in {actor(r), business[request[r].id]} : u \in deleted})
    BY <1>7 DEF AddLocation
  <2>3. \A u \in deleted :
          u = actor(r) \/ u = business[request[r].id] => <<"addLocation", u>> \in late'
    BY <2>2 DEF Late
  <2>4. \A u \in deleted : u = actor(r) \/ u = business'[request[r].id] => LateForAccount(u)'
    BY <1>7, <2>3 DEF AddLocation, LateForAccount
  <2> QED
    BY <1>7, <2>1, <2>2, <2>4, LocationGiven DEF AddLocation
<1>8. CASE Transfer(r)
  <2> DEFINE b == request[r].id
             to == request[r].to
  <2>1. /\ business' = [business EXCEPT ![b] = to] /\ HandOver(b, actor(r), to)
        /\ late' = late \cup Late("transfer", {u \in {to} : u \in deleted})
        /\ UNCHANGED <<locations, deleted>>
    BY <1>8 DEF Transfer
  <2> HIDE DEF b, to
  <2>2. \A k \in DOMAIN memberships' : k \in DOMAIN memberships \/ k[1] = to
    BY <2>1 DEF HandOver
  <2>3. \A u \in deleted : LateForAccount(u)' \/ u # to
    BY <2>1 DEF Late, LateForAccount
  <2>4. \A c \in DOMAIN business : business'[c] = business[c] \/ business'[c] = to
    BY <2>1
  <2>5. ASSUME NEW u \in deleted, Out(u), u # to PROVE Out(u)'
    <3>1. \A k \in DOMAIN memberships' : k[1] # u
      BY <2>2, <2>5 DEF Out
    <3>2. \A l \in DOMAIN locations : locations[l].live => business'[locations[l].of] # u
      BY <2>4, <2>5 DEF Out, TeamTypeOK
    <3> QED
      BY <2>1, <3>1, <3>2 DEF Out
  <2>6. \A u \in deleted : LateForAccount(u) => LateForAccount(u)'
    BY <2>1 DEF LateForAccount
  <2> QED
    BY <2>1, <2>3, <2>5, <2>6 DEF AccountsOut
<1>9. CASE DeleteAccount(r)
  <2> DEFINE gone == RowsOf(actor(r))
             since == LiveOwned(actor(r)) \ request[r].owned
  <2>1. /\ memberships' = Delete(memberships, gone)
        /\ deleted' = deleted \cup {actor(r)} /\ late \subseteq late'
        /\ UNCHANGED <<business, locations>>
    BY <1>9 DEF DeleteAccount
  <2>2. \A u : u = actor(r) /\ since # {} => LateForAccount(u)'
    BY <1>9 DEF DeleteAccount, Late, LateForAccount
  <2>3. request[r].owned = {}
    BY <1>9 DEF DeleteAccount, AllDecidedRightly, DecidedRightly
  <2>4. /\ DOMAIN memberships' \subseteq DOMAIN memberships
        /\ \A k \in DOMAIN memberships' : k \notin gone
    BY <2>1, MembershipsDeleted
  <2>5. ASSUME NEW u \in deleted' PROVE Out(u)' \/ LateForAccount(u)'
    <3>1. CASE u \in deleted
      BY <2>1, <2>4, <3>1 DEF AccountsOut, Out, LateForAccount
    <3>2. CASE u = actor(r) /\ since = {}
      <4>1. LiveOwned(u) = {}
        BY <2>3, <3>2
      <4>2. \A l \in DOMAIN locations : locations[l].live => business[locations[l].of] # u
        BY <4>1 DEF LiveOwned, LocationsOf, TeamTypeOK
      <4>3. \A k \in DOMAIN memberships' : k[1] # u
        BY <2>4, <3>2 DEF RowsOf
      <4> QED
        BY <2>1, <4>2, <4>3 DEF Out
    <3> QED
      BY <2>1, <2>2, <3>1, <3>2
  <2> QED
    BY <2>5 DEF AccountsOut
<1> QED
  BY <1>1, <1>3, <1>4, <1>5, <1>6, <1>7, <1>8, <1>9 DEF Write

\* Nor does any other step.
LEMMA AccountsKept ==
  ASSUME TeamTypeOK, AllDecidedRightly, AccountsOut, [TeamNext]_teamVars
  PROVE  AccountsOut'
<1>1. CASE UNCHANGED ledger
  BY <1>1, NothingGiven DEF ledger
<1>2. ASSUME NEW i, Lapse(i) PROVE AccountsOut'
  BY <1>2, NothingGiven DEF Lapse
<1>3. ASSUME NEW r \in Request, LocationController(r) PROVE AccountsOut'
  <2>1. /\ locations' = [locations EXCEPT ![place(r)].live = FALSE]
        /\ UNCHANGED <<business, memberships, deleted, late>>
    BY <1>3 DEF LocationController, RemoveLocation
  <2>2. /\ DOMAIN locations' = DOMAIN locations
        /\ \A l \in DOMAIN locations :
             locations'[l].of = locations[l].of /\ (locations'[l].live => locations[l].live)
    BY <2>1 DEF TeamTypeOK, IsTable, LocationRow
  <2> QED
    BY <2>1, <2>2, NothingGiven
<1> QED
  BY <1>1, <1>2, <1>3, AccountsWrite, StepCases

\* However a deletion is interleaved with the rest, whoever is deleted is out
\* of every team and business, but for marked late writes.
THEOREM DeletedAccountsAreOut == TeamSpec => []DeletedAccountIsOut
<1>1. TeamInit => TeamTypeOK /\ AllDecidedRightly /\ AccountsOut
  BY TypeInit, DecidedInit DEF TeamInit, AccountsOut
<1>2. TeamTypeOK /\ AllDecidedRightly /\ AccountsOut /\ [TeamNext]_teamVars
        => (TeamTypeOK /\ AllDecidedRightly /\ AccountsOut)'
  BY TypeStep, DecidedKept, AccountsKept
<1>3. TeamTypeOK /\ AccountsOut => DeletedAccountIsOut
  BY OutMeans DEF AccountsOut, DeletedAccountIsOut, LateForAccount
<1> QED
  BY <1>1, <1>2, <1>3, PTL DEF TeamSpec

-----------------------------------------------------------------------------
(* Owners.                                                                 *)

LateForOwner(l) ==
  \E op \in {"addLocation", "updateRole", "remove", "leave", "deleteAccount"} : <<op, l>> \in late

\* InSync, user by user.
Synced(l) == \A u \in User : HasRole(u, l, "OWNER") <=> u = business[locations[l].of]

\* That is what the property says.
LEMMA SyncMeans ==
  ASSUME TeamTypeOK, NEW l \in DOMAIN locations
  PROVE  InSync(l) <=> Synced(l)
<1>1. business[locations[l].of] \in User
  BY DEF TeamTypeOK, IsTable
<1> QED
  BY <1>1 DEF InSync, Synced

OwnersInv == \A l \in DOMAIN locations : locations[l].live => Synced(l) \/ LateForOwner(l)

\* Writes after which the OWNERs of live locations and the owners of their
\* businesses are who they were, or which are marked.
LEMMA OwnersKept ==
  ASSUME OwnersInv, late \subseteq late', DOMAIN locations' = DOMAIN locations,
         \A l \in DOMAIN locations : locations[l].live /\ locations'[l].live =>
           \/ LateForOwner(l)'
           \/ Synced(l)'
           \/ /\ business'[locations'[l].of] = business[locations[l].of]
              /\ \A u \in User : HasRole(u, l, "OWNER")' <=> HasRole(u, l, "OWNER"),
         \A l \in DOMAIN locations : locations'[l].live => locations[l].live
  PROVE  OwnersInv'
<1>1. ASSUME NEW l \in DOMAIN locations, locations'[l].live PROVE Synced(l)' \/ LateForOwner(l)'
  <2>1. LateForOwner(l) => LateForOwner(l)'
    BY DEF LateForOwner
  <2>2. Synced(l) \/ LateForOwner(l)
    BY <1>1 DEF OwnersInv
  <2> QED
    BY <1>1, <2>1, <2>2 DEF Synced
<1> QED
  BY <1>1 DEF OwnersInv

\* A write to memberships that takes one of those in gone from an OWNER, or
\* gives them another role, marks its location.
LEMMA OwnerTaken ==
  ASSUME TeamTypeOK, OwnersInv, NEW gone, late \subseteq late', UNCHANGED <<business, locations>>,
         DOMAIN memberships' \subseteq DOMAIN memberships,
         \A k \in DOMAIN memberships \ gone : k \in DOMAIN memberships' /\ memberships'[k] = memberships[k],
         \A k \in gone \cap DOMAIN memberships' : memberships'[k] # "OWNER",
         \A k \in gone \cap DOMAIN memberships :
           memberships[k] = "OWNER" /\ IsLive(k[2]) => LateForOwner(k[2])'
  PROVE  OwnersInv'
<1>1. ASSUME NEW l \in DOMAIN locations, locations[l].live, ~(LateForOwner(l)'), NEW u \in User
      PROVE  HasRole(u, l, "OWNER")' <=> HasRole(u, l, "OWNER")
  <2>1. CASE <<u, l>> \in gone
    <3>1. ~HasRole(u, l, "OWNER")'
      BY <2>1 DEF HasRole, IsMember
    <3>2. <<u, l>> \in DOMAIN memberships => memberships[<<u, l>>] # "OWNER"
      BY <1>1, <2>1 DEF IsLive
    <3> QED
      BY <3>1, <3>2 DEF HasRole, IsMember
  <2>2. CASE <<u, l>> \notin gone
    BY <2>2 DEF HasRole, IsMember
  <2> QED
    BY <2>1, <2>2
<1> QED
  BY <1>1, OwnersKept

\* A write that adds a location: the member it gets is the owner, or it is
\* marked.
LEMMA OwnerAdded ==
  ASSUME TeamTypeOK, OwnersInv, NEW r \in Request, actor(r) \in User, NEW b, NEW l,
         AddLocationOf(r, b, l), late \subseteq late',
         \A c \in DOMAIN business : business'[c] = business[c],
         business'[b] = actor(r) \/ <<"addLocation", l>> \in late'
  PROVE  OwnersInv'
<1>1. /\ l \notin DOMAIN locations
      /\ locations' = Insert(locations, l, [of |-> b, live |-> TRUE])
      /\ memberships' = Insert(memberships, <<actor(r), l>>, "OWNER")
  BY DEF AddLocationOf
<1>2. /\ DOMAIN memberships' = DOMAIN memberships \cup {<<actor(r), l>>}
      /\ memberships'[<<actor(r), l>>] = "OWNER"
      /\ \A k \in DOMAIN memberships : k # <<actor(r), l>> => memberships'[k] = memberships[k]
  BY <1>1 DEF Insert
<1>3. /\ DOMAIN locations' = DOMAIN locations \cup {l}
      /\ \A k \in DOMAIN locations : locations'[k] = locations[k]
  BY <1>1 DEF Insert
<1>4. locations'[l].of = b
  <2> DEFINE row == [of |-> b, live |-> TRUE]
  <2>1. row.of = b
    OBVIOUS
  <2> HIDE DEF row
  <2>2. locations' = Insert(locations, l, row)
    BY <1>1 DEF row
  <2> QED
    BY <2>1, <2>2 DEF Insert
<1>5. ASSUME NEW k \in DOMAIN locations, locations'[k].live PROVE Synced(k)' \/ LateForOwner(k)'
  <2>1. \A u \in User : HasRole(u, k, "OWNER")' <=> HasRole(u, k, "OWNER")
    BY <1>1, <1>2 DEF HasRole, IsMember
  <2>2. business'[locations'[k].of] = business[locations[k].of]
    BY <1>3 DEF TeamTypeOK
  <2>3. Synced(k) \/ LateForOwner(k)
    BY <1>3, <1>5 DEF OwnersInv
  <2> QED
    BY <2>1, <2>2, <2>3 DEF Synced, LateForOwner
<1>6. CASE business'[b] = actor(r)
  <2>1. \A u \in User : <<u, l>> \notin DOMAIN memberships
    BY <1>1 DEF TeamTypeOK
  <2>2. \A u \in User : HasRole(u, l, "OWNER")' <=> u = actor(r)
    BY <1>2, <2>1 DEF HasRole, IsMember
  <2>3. \A u \in User : HasRole(u, l, "OWNER")' <=> u = business'[locations'[l].of]
    BY <1>4, <1>6, <2>2
  <2>4. Synced(l)'
    BY <2>3 DEF Synced
  <2> QED
    BY <1>3, <1>5, <2>4 DEF OwnersInv
<1>7. CASE <<"addLocation", l>> \in late'
  <2>1. LateForOwner(l)'
    BY <1>7 DEF LateForOwner
  <2> QED
    BY <1>3, <1>5, <2>1 DEF OwnersInv
<1> QED
  BY <1>6, <1>7

\* Changing or deleting the OWNER's membership is marked.
LEMMA OwnersMembers ==
  ASSUME TeamTypeOK, OwnersInv, NEW r \in Request, UpdateRole(r) \/ Remove(r) \/ Leave(r)
  PROVE  OwnersInv'
<1>1. CASE UpdateRole(r)
  <2> DEFINE key == <<request[r].who, place(r)>>
  <2>1. /\ memberships' = [memberships EXCEPT ![key] = request[r].to]
        /\ late' = late \cup Late("updateRole", {l \in {place(r)} : memberships[key] = "OWNER"})
        /\ UNCHANGED <<business, locations>> /\ key[2] = place(r)
    BY <1>1 DEF UpdateRole
  <2>2. request[r].to # "OWNER"
    BY <1>1, RequestFields, InvitedRoles DEF UpdateRole, TeamTypeOK
  <2> HIDE DEF key
  <2>3. memberships[key] = "OWNER" => <<"updateRole", key[2]>> \in late'
    BY <2>1 DEF Late
  <2>4. \A k \in {key} : memberships[k] = "OWNER" => LateForOwner(k[2])'
    BY <2>3 DEF LateForOwner
  <2>5. /\ DOMAIN memberships' = DOMAIN memberships
        /\ \A k \in DOMAIN memberships \ {key} : memberships'[k] = memberships[k]
        /\ \A k \in {key} \cap DOMAIN memberships' : memberships'[k] # "OWNER"
    BY <2>1, <2>2
  <2>6. late \subseteq late' /\ UNCHANGED <<business, locations>>
    BY <2>1
  <2> QED
    BY <2>4, <2>5, <2>6, OwnerTaken
<1>2. ASSUME NEW op \in {"remove", "leave"}, NEW key, memberships' = Delete(memberships, {key}),
             late' = late \cup Late(op, {l \in {key[2]} : memberships[key] = "OWNER"}),
             UNCHANGED <<business, locations>>
      PROVE  OwnersInv'
  <2>1. /\ DOMAIN memberships' = DOMAIN memberships \ {key}
        /\ \A k \in DOMAIN memberships \ {key} : memberships'[k] = memberships[k]
    BY <1>2, MembershipsDeleted
  <2>2. memberships[key] = "OWNER" => <<op, key[2]>> \in late'
    BY <1>2 DEF Late
  <2>3. \A k \in {key} : memberships[k] = "OWNER" => LateForOwner(k[2])'
    BY <2>2 DEF LateForOwner
  <2>4. late \subseteq late' /\ DOMAIN memberships' \subseteq DOMAIN memberships
    BY <1>2, <2>1
  <2> QED
    BY <1>2, <2>1, <2>3, <2>4, OwnerTaken
<1>3. CASE Remove(r)
  <2> DEFINE key == <<request[r].who, place(r)>>
  <2>1. key[2] = place(r)
    OBVIOUS
  <2> QED
    BY <1>2, <1>3, <2>1 DEF Remove
<1>4. CASE Leave(r)
  <2> DEFINE key == <<actor(r), place(r)>>
  <2>1. key[2] = place(r)
    OBVIOUS
  <2> QED
    BY <1>2, <1>4, <2>1 DEF Leave
<1> QED
  BY <1>1, <1>3, <1>4

\* Nobody becomes OWNER by an invitation.
LEMMA OwnersAccept ==
  ASSUME TeamTypeOK, OwnersInv, NEW r \in Request, Accept(r)
  PROVE  OwnersInv'
<1> DEFINE i == request[r].id
           key == <<actor(r), invitations[i].at>>
           role == invitations[i].role
<1>1. /\ key \notin DOMAIN memberships /\ memberships' = Insert(memberships, key, role)
      /\ late \subseteq late' /\ UNCHANGED <<business, locations>>
  BY DEF Accept, MayJoin, IsMember
<1>2. role # "OWNER"
  <2>1. i \in DOMAIN invitations
    BY DEF TeamTypeOK, RefersToRows, Accept
  <2> QED
    BY <2>1, InvitationFields, InvitedRoles
<1> HIDE DEF key, role
<1>3. /\ DOMAIN memberships' = DOMAIN memberships \cup {key} /\ memberships'[key] = role
      /\ \A k \in DOMAIN memberships : memberships'[k] = memberships[k]
  BY <1>1 DEF Insert
<1>4. \A u \in User, l \in DOMAIN locations : HasRole(u, l, "OWNER")' <=> HasRole(u, l, "OWNER")
  BY <1>1, <1>2, <1>3 DEF HasRole, IsMember
<1> QED
  BY <1>1, <1>4, OwnersKept

\* A transfer leaves the locations of its business in sync whatever they were
\* before, and touches no others.
LEMMA OwnersTransfer ==
  ASSUME TeamTypeOK, OwnersInv, NEW r \in Request, Transfer(r)
  PROVE  OwnersInv'
<1> DEFINE b == request[r].id
           to == request[r].to
           from == actor(r)
<1>1. b \in DOMAIN business /\ to \in User
  BY RequestFields DEF TeamTypeOK, RefersToRows, Transfer
<1>2. /\ \A l \in LocationsOf(b), u \in User \ {from, to} : ~HasRole(u, l, "OWNER")
      /\ business' = [business EXCEPT ![b] = to]
      /\ HandOver(b, from, to)
      /\ late \subseteq late' /\ UNCHANGED locations
  BY DEF Transfer
<1> HIDE DEF b, to, from
<1>3. /\ DOMAIN memberships' = DOMAIN memberships \cup {to} \X LocationsOf(b)
      /\ \A k \in DOMAIN memberships' :
           memberships'[k] = IF k[2] \in LocationsOf(b) /\ k[1] = to THEN "OWNER"
                             ELSE IF k[2] \in LocationsOf(b) /\ k[1] = from /\ memberships[k] = "OWNER"
                             THEN "ADMIN" ELSE memberships[k]
  BY <1>2 DEF HandOver
<1>4. ASSUME NEW l \in LocationsOf(b) PROVE Synced(l)'
  <2>1. l \in DOMAIN locations /\ business'[locations'[l].of] = to
    BY <1>1, <1>2 DEF LocationsOf
  <2>2. \A u \in {to} : HasRole(u, l, "OWNER")'
    <3> DEFINE k == <<to, l>>
    <3>1. k[1] = to /\ k[2] = l /\ k \in {to} \X LocationsOf(b)
      OBVIOUS
    <3> HIDE DEF k
    <3>2. k \in DOMAIN memberships' /\ memberships'[k] = "OWNER"
      BY <1>3, <3>1
    <3>3. <<to, l>> \in DOMAIN memberships' /\ memberships'[<<to, l>>] = "OWNER"
      BY <3>2 DEF k
    <3> QED
      BY <3>3 DEF HasRole, IsMember
  <2>3. ASSUME NEW u \in User, u # to, <<u, l>> \in DOMAIN memberships', memberships'[<<u, l>>] = "OWNER"
        PROVE  FALSE
    <3> DEFINE k == <<u, l>>
    <3>1. k[1] = u /\ k[2] = l /\ k \in DOMAIN memberships
      BY <1>3, <2>3
    <3>2. memberships'[k] = IF u = from /\ memberships[k] = "OWNER" THEN "ADMIN" ELSE memberships[k]
      BY <1>3, <2>3, <3>1
    <3>3. CASE u = from
      BY <2>3, <3>2, <3>3
    <3>4. CASE u # from
      BY <1>2, <2>3, <3>1, <3>2, <3>4 DEF HasRole, IsMember
    <3> QED
      BY <3>3, <3>4
  <2> QED
    BY <2>1, <2>2, <2>3 DEF Synced, HasRole, IsMember
<1>5. ASSUME NEW l \in DOMAIN locations, l \notin LocationsOf(b), NEW u \in User
      PROVE  HasRole(u, l, "OWNER")' <=> HasRole(u, l, "OWNER")
  <2> DEFINE k == <<u, l>>
  <2>1. k[2] = l
    OBVIOUS
  <2>2. k \in DOMAIN memberships' <=> k \in DOMAIN memberships
    BY <1>3, <1>5
  <2>3. k \in DOMAIN memberships => memberships'[k] = memberships[k]
    BY <1>3, <1>5, <2>1, <2>2
  <2> QED
    BY <2>2, <2>3 DEF HasRole, IsMember
<1>6. ASSUME NEW l \in DOMAIN locations, l \notin LocationsOf(b)
      PROVE  business'[locations'[l].of] = business[locations[l].of]
  BY <1>2, <1>6 DEF LocationsOf, TeamTypeOK
<1> QED
  BY <1>2, <1>4, <1>5, <1>6, OwnersKept

\* A deletion decided on rightly takes no live location's OWNER but of those
\* it marks.
LEMMA OwnersDelete ==
  ASSUME TeamTypeOK, AllDecidedRightly, OwnersInv, NEW r \in Request, DeleteAccount(r)
  PROVE  OwnersInv'
<1> DEFINE u == actor(r)
           since == LiveOwned(u) \ request[r].owned
<1>1. /\ memberships' = Delete(memberships, RowsOf(u))
      /\ late' = late
           \cup Late("deleteAccount", {l \in DOMAIN locations : locations[l].of \in since})
           \cup Late("deleteAccount", {v \in {u} : since # {}})
      /\ UNCHANGED <<business, locations>>
  BY DEF DeleteAccount
<1>2. since = LiveOwned(u) /\ u \in User
  BY RequestFields DEF DeleteAccount, AllDecidedRightly, DecidedRightly, TeamTypeOK, actor
<1> HIDE DEF u, since
<1>3. /\ DOMAIN memberships' = DOMAIN memberships \ RowsOf(u)
      /\ \A k \in DOMAIN memberships \ RowsOf(u) : memberships'[k] = memberships[k]
  BY <1>1, MembershipsDeleted
<1>4. ASSUME NEW l \in DOMAIN locations, locations[l].live, HasRole(u, l, "OWNER")
      PROVE  LateForOwner(l)'
  <2>1. CASE LateForOwner(l)
    BY <1>1, <2>1 DEF LateForOwner
  <2>2. CASE Synced(l)
    <3>1. business[locations[l].of] = u
      BY <1>2, <1>4, <2>2 DEF Synced
    <3>2. locations[l].of \in since
      BY <1>2, <1>4, <3>1 DEF LiveOwned, LocationsOf, TeamTypeOK
    <3>3. <<"deleteAccount", l>> \in late'
      BY <1>1, <3>2 DEF Late
    <3> QED
      BY <3>3 DEF LateForOwner
  <2> QED
    BY <1>4, <2>1, <2>2 DEF OwnersInv
<1>5. \A k \in RowsOf(u) \cap DOMAIN memberships :
        memberships[k] = "OWNER" /\ IsLive(k[2]) => LateForOwner(k[2])'
  <2> SUFFICES ASSUME NEW k \in DOMAIN memberships, k[1] = u, memberships[k] = "OWNER", IsLive(k[2])
               PROVE  LateForOwner(k[2])'
    BY DEF RowsOf
  <2>1. k = <<u, k[2]>>
    BY DEF TeamTypeOK
  <2>2. HasRole(u, k[2], "OWNER")
    BY <2>1 DEF HasRole, IsMember
  <2> QED
    BY <1>4, <2>2 DEF IsLive
<1>6. late \subseteq late' /\ DOMAIN memberships' \subseteq DOMAIN memberships
  BY <1>1, <1>3
<1> QED
  BY <1>1, <1>3, <1>5, <1>6, OwnerTaken

\* Every step keeps the owners in sync, or is marked.
LEMMA OwnersStep ==
  ASSUME TeamTypeOK, AllDecidedRightly, OwnersInv, [TeamNext]_teamVars
  PROVE  OwnersInv'
<1>0. ASSUME UNCHANGED <<business, locations, memberships>>, late \subseteq late' PROVE OwnersInv'
  BY <1>0, OwnersKept DEF HasRole, IsMember
<1>1. CASE UNCHANGED ledger
  BY <1>0, <1>1 DEF ledger
<1>2. ASSUME NEW i, Lapse(i) PROVE OwnersInv'
  BY <1>0, <1>2 DEF Lapse
<1>3. ASSUME NEW r \in Request, LocationController(r) PROVE OwnersInv'
  <2>1. /\ locations' = [locations EXCEPT ![place(r)].live = FALSE]
        /\ UNCHANGED <<business, memberships, late>>
    BY <1>3 DEF LocationController, RemoveLocation
  <2>2. /\ DOMAIN locations' = DOMAIN locations
        /\ \A l \in DOMAIN locations :
             locations'[l].of = locations[l].of /\ (locations'[l].live => locations[l].live)
    BY <2>1 DEF TeamTypeOK, IsTable, LocationRow
  <2>3. \A u \in User, l \in DOMAIN locations : HasRole(u, l, "OWNER")' <=> HasRole(u, l, "OWNER")
    BY <2>1 DEF HasRole, IsMember
  <2> QED
    BY <2>1, <2>2, <2>3, OwnersKept
<1>4. ASSUME NEW r \in Request, Write(r) PROVE OwnersInv'
  <2>1. CASE (\E i \in Invitation : Invite(r, i)) \/ ExpireStale(r) \/ Revoke(r) \/ Resend(r) \/ Expire(r)
    BY <1>0, <2>1 DEF Invite, ExpireStale, Revoke, Resend, Expire
  <2>2. ASSUME NEW b \in Business, NEW l \in Location, Create(r, b, l) PROVE OwnersInv'
    <3>1. actor(r) \in User
      BY <2>2, RequestFields DEF Create, TeamTypeOK, actor
    <3>2. /\ business'[b] = actor(r) /\ \A c \in DOMAIN business : business'[c] = business[c]
      BY <2>2 DEF Create, Insert
    <3> QED
      BY <2>2, <3>1, <3>2, OwnerAdded DEF Create
  <2>3. ASSUME NEW l \in Location, AddLocation(r, l) PROVE OwnersInv'
    <3>1. actor(r) \in User
      BY <2>3, RequestFields DEF AddLocation, TeamTypeOK, actor
    <3>2. late' = late
            \cup Late("addLocation", {k \in {l} : business[request[r].id] # actor(r)})
            \cup Late("addLocation", {u \in {actor(r), business[request[r].id]} : u \in deleted})
      BY <2>3 DEF AddLocation
    <3>3. business[request[r].id] = actor(r) \/ <<"addLocation", l>> \in late'
      BY <3>2 DEF Late
    <3>4. UNCHANGED business /\ AddLocationOf(r, request[r].id, l) /\ late \subseteq late'
      BY <2>3, <3>2 DEF AddLocation
    <3> QED
      BY <3>1, <3>3, <3>4, OwnerAdded
  <2> QED
    BY <1>4, <2>1, <2>2, <2>3, OwnersMembers, OwnersAccept, OwnersTransfer, OwnersDelete DEF Write
<1> QED
  BY <1>1, <1>2, <1>3, <1>4, StepCases

\* The first location has its owner as the one OWNER.
LEMMA OwnersInit == TeamInit => OwnersInv
<1> SUFFICES ASSUME TeamInit PROVE OwnersInv
  OBVIOUS
<1>1. PICK b \in Business, l \in Location, o \in User :
        /\ business = Insert(Empty, b, o)
        /\ locations = Insert(Empty, l, [of |-> b, live |-> TRUE])
        /\ \E team \in SUBSET (User \ {o}) : \E roles \in [team -> InvitationRole] :
             memberships = [k \in (team \cup {o}) \X {l} |-> IF k[1] = o THEN "OWNER" ELSE roles[k[1]]]
        /\ \/ invitations = Empty
           \/ \E i \in Invitation, u \in User, role \in InvitationRole :
                /\ <<u, l>> \notin DOMAIN memberships
                /\ invitations = Insert(Empty, i, [at |-> l, email |-> u, role |-> role,
                                                   status |-> "PENDING", expired |-> FALSE])
  BY DEF TeamInit
<1>2. DOMAIN locations = {l} /\ locations[l].of = b /\ business[b] = o
  BY <1>1 DEF Insert, Empty
<1>3. PICK team \in SUBSET (User \ {o}) : \E roles \in [team -> InvitationRole] :
        memberships = [k \in (team \cup {o}) \X {l} |-> IF k[1] = o THEN "OWNER" ELSE roles[k[1]]]
  BY <1>1
<1>4. PICK roles \in [team -> InvitationRole] :
        memberships = [k \in (team \cup {o}) \X {l} |-> IF k[1] = o THEN "OWNER" ELSE roles[k[1]]]
  BY <1>3
<1>5. \A u \in User : HasRole(u, l, "OWNER") <=> u = o
  <2>1. \A u \in User : IsMember(u, l) <=> u \in team \cup {o}
    BY <1>4 DEF IsMember
  <2>2. memberships[<<o, l>>] = "OWNER"
    BY <1>4
  <2>3. \A u \in team : memberships[<<u, l>>] = roles[u]
    BY <1>4
  <2> QED
    BY <2>1, <2>2, <2>3, InvitedRoles DEF HasRole
<1> QED
  BY <1>2, <1>5 DEF OwnersInv, Synced

\* Every live location has one OWNER, the owner of its business, whichever
\* requests interleave, but for the five kinds of late write.
THEOREM OwnersInSync == TeamSpec => []OwnersDriftOnlyByLateWrites
<1>1. TeamInit => TeamTypeOK /\ AllDecidedRightly /\ OwnersInv
  BY TypeInit, DecidedInit, OwnersInit
<1>2. TeamTypeOK /\ AllDecidedRightly /\ OwnersInv /\ [TeamNext]_teamVars
        => (TeamTypeOK /\ AllDecidedRightly /\ OwnersInv)'
  BY TypeStep, DecidedKept, OwnersStep
<1>3. TeamTypeOK /\ OwnersInv => OwnersDriftOnlyByLateWrites
  BY SyncMeans DEF OwnersInv, OwnersDriftOnlyByLateWrites, LateForOwner
<1> QED
  BY <1>1, <1>2, <1>3, PTL DEF TeamSpec
-----------------------------------------------------------------------------
(* What it takes for a write to come late.                                 *)

\* One request can make untrue what another has read, by the rows they are
\* about:
\*   - a transfer, of members of its business who become owners, of its
\*     owner, and of somebody becoming one while deleting their account;
\*   - an account's deletion, of whoever gets a membership or a business;
\*   - a business or location added, of its owner deleting their account;
\*   - an owner's request, that may delete the location, of requests there
\*     and of invitations to it;
\*   - an invitation's revocation, expiry, acceptance or renewal, of another.
Disturbs(w, q) ==
  \/ /\ w.op = "transfer"
     /\ \/ q.op \in {"updateRole", "remove"} /\ q.who = w.to /\ locations[q.at].of = w.id
        \/ q.op = "leave" /\ q.by = w.to /\ locations[q.at].of = w.id
        \/ q.op = "addLocation" /\ q.id = w.id
        \/ q.op = "deleteAccount" /\ q.by = w.to
  \/ /\ w.op = "deleteAccount"
     /\ \/ q.op \in {"accept", "create", "addLocation"} /\ q.by = w.by
        \/ q.op = "transfer" /\ q.to = w.by
  \/ w.op \in {"create", "addLocation"} /\ q.op = "deleteAccount" /\ q.by = w.by
  \/ /\ w.op = "admitted" /\ w.as = "OWNER"
     /\ \/ q.op \in {"admitted", "invite", "createInvitation"} /\ q.at = w.at
        \/ q.op \in {"revoke", "expire"} /\ invitations[q.id].at = w.at
  \/ /\ q.op \in {"revoke", "expire"}
     /\ \/ w.op \in {"revoke", "expire", "accept"} /\ w.id = q.id
        \/ w.op = "invite" /\ invitations[q.id].at = w.at /\ invitations[q.id].email = w.who

Undisturbed == \A r, s \in Request : r # s => ~Disturbs(request[r], request[s])

\* What a request has read is so still: the location is there, nobody it is
\* about has become an owner, the invitation is pending, the accounts are
\* there, the business is its owner's, and the account has none.
PlaceSo(q) == q.op \in {"admitted", "invite", "createInvitation"} => IsLive(q.at)

RoleSo(q) ==
  /\ q.op \in {"updateRole", "remove"} => IsMember(q.who, q.at) /\ ~HasRole(q.who, q.at, "OWNER")
  /\ q.op = "leave" => ~HasRole(q.by, q.at, "OWNER")

InvitationSo(q) == q.op \in {"revoke", "expire"} => IsPending(q.id)

AccountSo(q) ==
  /\ q.op \in {"accept", "create", "addLocation"} => q.by \notin deleted
  /\ q.op = "transfer" => q.to \notin deleted

OwnerSo(q) ==
  /\ q.op = "addLocation" => business[q.id] = q.by
  /\ q.op = "deleteAccount" => LiveOwned(q.by) = {}

StillSo(q) == PlaceSo(q) /\ RoleSo(q) /\ InvitationSo(q) /\ AccountSo(q) /\ OwnerSo(q)

\* The inductive invariant.
NothingLate == late = {} /\ \A r \in Request : StillSo(request[r])

\* What a request has read is so for its slot as it is for the request.
LEMMA SlotSo ==
  ASSUME NEW s, NEW q, request'[s] = q, StillSo(q)'
  PROVE  StillSo(request[s])'
BY DEF StillSo, PlaceSo, RoleSo, InvitationSo, AccountSo, OwnerSo

\* What was read of a table that a step leaves alone.
LEMMA TablesAside ==
  ASSUME NEW q
  PROVE  /\ UNCHANGED locations /\ PlaceSo(q) => PlaceSo(q)'
         /\ UNCHANGED memberships /\ RoleSo(q) => RoleSo(q)'
         /\ UNCHANGED invitations /\ InvitationSo(q) => InvitationSo(q)'
         /\ UNCHANGED deleted /\ AccountSo(q) => AccountSo(q)'
         /\ UNCHANGED <<business, locations>> /\ OwnerSo(q) => OwnerSo(q)'
<1>1. UNCHANGED locations /\ PlaceSo(q) => PlaceSo(q)'
  BY DEF PlaceSo, IsLive
<1>2. UNCHANGED memberships /\ RoleSo(q) => RoleSo(q)'
  BY DEF RoleSo, IsMember, HasRole
<1>3. UNCHANGED invitations /\ InvitationSo(q) => InvitationSo(q)'
  BY DEF InvitationSo, IsPending
<1>4. UNCHANGED deleted /\ AccountSo(q) => AccountSo(q)'
  BY DEF AccountSo
<1>5. UNCHANGED <<business, locations>> /\ OwnerSo(q) => OwnerSo(q)'
  BY DEF OwnerSo, LiveOwned, LocationsOf
<1> QED
  BY <1>1, <1>2, <1>3, <1>4, <1>5

\* An idle slot has read nothing.
LEMMA IdleSo == StillSo(Idle) /\ StillSo(Idle)'
BY DEF StillSo, PlaceSo, RoleSo, InvitationSo, AccountSo, OwnerSo, Idle

\* A step that leaves the tables alone and sets one slot.
LEMMA NothingLateReads ==
  ASSUME TeamTypeOK, NothingLate, NEW r \in Request, NEW state, StillSo(state),
         request' = [request EXCEPT ![r] = state], UNCHANGED ledger
  PROVE  NothingLate'
<1>1. ASSUME NEW q, StillSo(q) PROVE StillSo(q)'
  BY <1>1, TablesAside DEF StillSo, ledger
<1>2. ASSUME NEW s \in Request PROVE StillSo(request[s])'
  <2>1. PICK q : q = request'[s]
    OBVIOUS
  <2>2. StillSo(q)
    <3>1. q = state \/ q = request[s]
      BY <2>1 DEF TeamTypeOK
    <3>2. StillSo(request[s])
      BY DEF NothingLate
    <3> QED
      BY <3>1, <3>2
  <2> QED
    BY <1>1, <2>1, <2>2, SlotSo
<1> QED
  BY <1>2 DEF NothingLate, ledger

\* A request that starts has just read what it goes by; nobody who has a
\* membership is deleted.
LEMMA NothingLateBegin ==
  ASSUME TeamTypeOK, AccountsOut, NothingLate, NEW r \in Request, Begin(r)
  PROVE  NothingLate'
<1>1. ASSUME NEW u, NEW state, Start(r, u, state), StillSo(state) PROVE NothingLate'
  BY <1>1, NothingLateReads DEF Start
<1> USE DEF StillSo, PlaceSo, RoleSo, InvitationSo, AccountSo, OwnerSo
<1>2. PICK u \in User :
        \/ \E l \in Location : Admit(r, u, l)
        \/ InvitationAcceptController(r, u) \/ BusinessController(r, u) \/ MeController(r, u)
  BY DEF Begin
<1>3. ASSUME NEW l \in Location, Admit(r, u, l) PROVE NothingLate'
  <2>1. PICK state : state = [op |-> "admitted", by |-> u, at |-> l, as |-> memberships[<<u, l>>]]
    OBVIOUS
  <2>2. StillSo(state)
    BY <1>3, <2>1 DEF Admit
  <2> HIDE DEF StillSo
  <2> QED
    BY <1>1, <1>3, <2>1, <2>2 DEF Admit
<1>4. ASSUME NEW i, DecideAccept(r, u, i) PROVE NothingLate'
  <2>1. PICK op : op = IF invitations[i].expired THEN "expire" ELSE "accept"
    OBVIOUS
  <2>2. PICK state : state = [op |-> op, by |-> u, id |-> i]
    OBVIOUS
  <2>3. StillSo(state)
    BY <1>4, <2>1, <2>2 DEF DecideAccept, Start
  <2> HIDE DEF StillSo
  <2> QED
    BY <1>1, <1>4, <2>1, <2>2, <2>3 DEF DecideAccept
<1>5. CASE StartCreate(r, u)
  <2>1. PICK state : state = [op |-> "create", by |-> u]
    OBVIOUS
  <2>2. StillSo(state)
    BY <1>5, <2>1 DEF StartCreate, Start
  <2> HIDE DEF StillSo
  <2> QED
    BY <1>1, <1>5, <2>1, <2>2 DEF StartCreate
<1>6. ASSUME NEW b, DecideAddLocation(r, u, b) PROVE NothingLate'
  <2>1. PICK state : state = [op |-> "addLocation", by |-> u, id |-> b]
    OBVIOUS
  <2>2. StillSo(state)
    BY <1>6, <2>1 DEF DecideAddLocation, Start, Owns
  <2> HIDE DEF StillSo
  <2> QED
    BY <1>1, <1>6, <2>1, <2>2 DEF DecideAddLocation
<1>7. ASSUME NEW b, NEW to, DecideTransfer(r, u, b, to) PROVE NothingLate'
  <2>1. PICK state : state = [op |-> "transfer", by |-> u, id |-> b, to |-> to]
    OBVIOUS
  <2>2. PICK l : <<to, l>> \in DOMAIN memberships
    BY <1>7 DEF DecideTransfer, HasRole, IsMember
  <2>3. <<to, l>>[1] = to
    OBVIOUS
  <2>4. to \notin deleted
    BY <2>2, <2>3 DEF AccountsOut, Out, LateForAccount, NothingLate
  <2>5. StillSo(state)
    BY <2>1, <2>4
  <2> HIDE DEF StillSo
  <2> QED
    BY <1>1, <1>7, <2>1, <2>5 DEF DecideTransfer
<1>8. CASE DecideDeleteAccount(r, u)
  <2>1. PICK state : state = [op |-> "deleteAccount", by |-> u, owned |-> LiveOwned(u)]
    OBVIOUS
  <2>2. StillSo(state)
    BY <1>8, <2>1 DEF DecideDeleteAccount, MayDeleteAccount
  <2> HIDE DEF StillSo
  <2> QED
    BY <1>1, <1>8, <2>1, <2>2 DEF DecideDeleteAccount
<1> QED
  BY <1>2, <1>3, <1>4, <1>5, <1>6, <1>7, <1>8
  DEF InvitationAcceptController, BusinessController, MeController

\* Nor is a decision late when it is made.
LEMMA NothingLateDecides ==
  ASSUME TeamTypeOK, NothingLate, NEW r \in Request, request[r].op = "admitted",
         MembershipController(r) \/ InvitationController(r)
  PROVE  NothingLate'
<1>1. ASSUME NEW state, Decide(r, state), StillSo(state) PROVE NothingLate'
  BY <1>1, NothingLateReads DEF Decide
<1> USE DEF StillSo, PlaceSo, RoleSo, InvitationSo, AccountSo, OwnerSo
<1>2. ASSUME NEW who, NEW to, DecideUpdateRole(r, who, to) PROVE NothingLate'
  <2>1. PICK state : state = [op |-> "updateRole", by |-> actor(r), at |-> place(r), as |-> roleAt(r),
                              who |-> who, was |-> memberships[<<who, place(r)>>], to |-> to]
    OBVIOUS
  <2>2. StillSo(state)
    BY <1>2, <2>1 DEF DecideUpdateRole
  <2> HIDE DEF StillSo
  <2> QED
    BY <1>1, <1>2, <2>1, <2>2 DEF DecideUpdateRole
<1>3. ASSUME NEW who, DecideRemove(r, who) PROVE NothingLate'
  <2>1. PICK state : state = [op |-> "remove", by |-> actor(r), at |-> place(r), as |-> roleAt(r),
                              who |-> who, was |-> memberships[<<who, place(r)>>]]
    OBVIOUS
  <2>2. StillSo(state)
    BY <1>3, <2>1 DEF DecideRemove
  <2> HIDE DEF StillSo
  <2> QED
    BY <1>1, <1>3, <2>1, <2>2 DEF DecideRemove
<1>4. CASE DecideLeave(r)
  <2>1. PICK state : state = [op |-> "leave", by |-> actor(r), at |-> place(r)]
    OBVIOUS
  <2>2. StillSo(state)
    BY <1>4, <2>1 DEF DecideLeave, roleAt, HasRole
  <2> HIDE DEF StillSo
  <2> QED
    BY <1>1, <1>4, <2>1, <2>2 DEF DecideLeave
<1>5. ASSUME NEW who, NEW to, DecideInvite(r, who, to) PROVE NothingLate'
  <2>1. PICK state : state = [op |-> "invite", by |-> actor(r), at |-> place(r), who |-> who, to |-> to]
    OBVIOUS
  <2>2. IsLive(place(r))
    BY DEF NothingLate, place
  <2>3. StillSo(state)
    BY <2>1, <2>2
  <2> HIDE DEF StillSo
  <2> QED
    BY <1>1, <1>5, <2>1, <2>3 DEF DecideInvite
<1>6. ASSUME NEW i, NEW op \in {"revoke", "resend"}, DecideOn(r, i, op) PROVE NothingLate'
  <2>1. PICK state : state = [op |-> op, by |-> actor(r), id |-> i]
    OBVIOUS
  <2>2. StillSo(state)
    BY <1>6, <2>1 DEF DecideOn
  <2> HIDE DEF StillSo
  <2> QED
    BY <1>1, <1>6, <2>1, <2>2 DEF DecideOn
<1> QED
  BY <1>2, <1>3, <1>4, <1>5, <1>6
  DEF MembershipController, InvitationController, DecideRevoke, DecideResend

\* What is known of the requests other than the one that writes.
LEMMA OtherRequests ==
  ASSUME TeamTypeOK, Undisturbed, NothingLate, NEW r \in Request, NEW s \in Request, s # r,
         NEW q, q = request[s]
  PROVE  /\ q \in RequestState /\ RefersToRows(q) /\ StillSo(q)
         /\ PlaceSo(q) /\ RoleSo(q) /\ InvitationSo(q) /\ AccountSo(q) /\ OwnerSo(q)
         /\ ~Disturbs(request[r], q)
<1>1. q \in RequestState /\ RefersToRows(q)
  BY DEF TeamTypeOK
<1>2. StillSo(q)
  BY DEF NothingLate
<1>3. ~Disturbs(request[r], q)
  BY DEF Undisturbed
<1> QED
  BY <1>1, <1>2, <1>3 DEF StillSo

\* A write that is not late, and after which those that go on are not.
LEMMA NothingLateWrite ==
  ASSUME TeamTypeOK, NothingLate, NEW r \in Request, NEW gone, Finish(r, gone), UNCHANGED late,
         \A s \in Request \ {r} : \A q : q = request[s] /\ request'[s] = q => StillSo(q)'
  PROVE  NothingLate'
<1>1. ASSUME NEW s \in Request PROVE StillSo(request[s])'
  <2>1. PICK q : q = request[s]
    OBVIOUS
  <2>2. request'[s] = Idle \/ (s # r /\ request'[s] = q)
    BY <2>1 DEF Finish
  <2> QED
    BY <2>1, <2>2, IdleSo, SlotSo
<1> QED
  BY <1>1 DEF NothingLate

\* Roles changed: nobody becomes an owner.
LEMMA NothingLateUpdateRole ==
  ASSUME TeamTypeOK, Undisturbed, NothingLate, NEW r \in Request, UpdateRole(r) PROVE NothingLate'
<1>1. PICK key : key = <<request[r].who, place(r)>>
  OBVIOUS
<1>2. /\ memberships' = [memberships EXCEPT ![key] = request[r].to] /\ request[r].to # "OWNER"
      /\ UNCHANGED <<business, locations, invitations, deleted>> /\ Finish(r, {})
  BY <1>1, RequestFields, InvitedRoles DEF UpdateRole, TeamTypeOK
<1>3. UNCHANGED late
  <2>1. memberships[key] # "OWNER"
    BY <1>1 DEF UpdateRole, NothingLate, StillSo, RoleSo, HasRole, place
  <2> QED
    BY <1>1, <2>1 DEF UpdateRole, Late
<1>4. \A u, l : (IsMember(u, l) => IsMember(u, l)') /\ (HasRole(u, l, "OWNER")' => HasRole(u, l, "OWNER"))
  BY <1>2 DEF IsMember, HasRole
<1>5. ASSUME NEW s \in Request, s # r, NEW q, q = request[s], request'[s] = q PROVE StillSo(q)'
  <2>1. RoleSo(q)'
    BY <1>4, <1>5, OtherRequests DEF RoleSo
  <2> QED
    BY <1>2, <1>5, <2>1, OtherRequests, TablesAside DEF StillSo
<1> QED
  BY <1>2, <1>3, <1>5, NothingLateWrite

\* Members removed or leaving: those about to change or remove them throw.
LEMMA NothingLateTakeAway ==
  ASSUME TeamTypeOK, Undisturbed, NothingLate, NEW r \in Request, Remove(r) \/ Leave(r) PROVE NothingLate'
<1>1. PICK key : /\ key = <<request[r].who, place(r)>> \/ key = <<actor(r), place(r)>>
                 /\ memberships' = Delete(memberships, {key}) /\ Finish(r, {key})
  BY DEF Remove, Leave
<1>2. UNCHANGED <<business, locations, invitations, deleted>>
  BY DEF Remove, Leave
<1>3. UNCHANGED late
  <2>1. CASE Remove(r)
    <3>1. memberships[<<request[r].who, place(r)>>] # "OWNER"
      BY <2>1 DEF Remove, NothingLate, StillSo, RoleSo, HasRole, place
    <3> QED
      BY <2>1, <3>1 DEF Remove, Late
  <2>2. CASE Leave(r)
    <3>1. memberships[<<actor(r), place(r)>>] # "OWNER"
      BY <2>2 DEF Leave, NothingLate, StillSo, RoleSo, HasRole, IsMember, actor, place
    <3> QED
      BY <2>2, <3>1 DEF Leave, Late
  <2> QED
    BY <2>1, <2>2
<1>4. /\ DOMAIN memberships' = DOMAIN memberships \ {key}
      /\ \A k \in DOMAIN memberships \ {key} : memberships'[k] = memberships[k]
  BY <1>1, MembershipsDeleted
<1>5. ASSUME NEW s \in Request, s # r, NEW q, q = request[s], request'[s] = q PROVE StillSo(q)'
  <2>1. q.op \in {"updateRole", "remove"} => <<q.who, q.at>> # key
    BY <1>1, <1>5 DEF Finish, Idle
  <2>2. RoleSo(q)'
    BY <1>4, <1>5, <2>1, OtherRequests DEF RoleSo, IsMember, HasRole
  <2> QED
    BY <1>2, <1>5, <2>2, OtherRequests, TablesAside DEF StillSo
<1> QED
  BY <1>1, <1>3, <1>5, NothingLateWrite

\* Invitations: nobody else is about to withdraw the one that changes.
LEMMA NothingLateInvitations ==
  ASSUME TeamTypeOK, Undisturbed, NothingLate, NEW r \in Request,
         (\E i \in Invitation : Invite(r, i)) \/ ExpireStale(r)
           \/ Revoke(r) \/ Resend(r) \/ Expire(r)
  PROVE  NothingLate'
<1>1. UNCHANGED <<business, locations, memberships, deleted>> /\ (ExpireStale(r) \/ Finish(r, {}))
  BY DEF Invite, ExpireStale, Revoke, Resend, Expire
<1>2. UNCHANGED late
  <2>1. StillSo(request[r])
    BY DEF NothingLate
  <2>2. ASSUME NEW i \in Invitation, Invite(r, i) PROVE UNCHANGED late
    BY <2>1, <2>2 DEF Invite, Late, StillSo, PlaceSo, place
  <2>3. CASE Revoke(r)
    BY <2>1, <2>3 DEF Revoke, Late, StillSo, InvitationSo
  <2>4. CASE Expire(r)
    BY <2>1, <2>4 DEF Expire, Late, StillSo, InvitationSo
  <2> QED
    BY <2>2, <2>3, <2>4 DEF Resend, ExpireStale
<1>3. ASSUME NEW s \in Request, s # r, NEW q, q = request[s], q.op \in {"revoke", "expire"}
      PROVE  IsPending(q.id)'
  <2>1. q.id \in DOMAIN invitations /\ IsPending(q.id) /\ ~Disturbs(request[r], q)
    BY <1>3, OtherRequests DEF RefersToRows, InvitationSo
  <2>2. ASSUME NEW i \in Invitation, Invite(r, i) PROVE invitations'[q.id] = invitations[q.id]
    BY <2>1, <2>2 DEF Invite, Insert
  <2>5. CASE ExpireStale(r)
    <3>1. ~SameInvitee(r, q.id)
      BY <1>3, <2>1, <2>5 DEF Disturbs, ExpireStale, SameInvitee, place
    <3> QED
      BY <2>1, <2>5, <3>1 DEF ExpireStale, IsPending
  <2>3. CASE Revoke(r) \/ Expire(r)
    <3>1. request[r].id # q.id
      BY <1>3, <2>1, <2>3 DEF Disturbs, Revoke, Expire
    <3> QED
      BY <2>1, <2>3, <3>1 DEF Revoke, Expire, SetStatus, IsPending
  <2>4. CASE Resend(r)
    <3>1. [invitations[q.id] EXCEPT !.expired = FALSE].status = invitations[q.id].status
      BY <2>1, InvitationFields DEF InvitationRow
    <3> QED
      BY <2>1, <2>4, <3>1 DEF Resend, IsPending
  <2> QED
    BY <2>1, <2>2, <2>3, <2>4, <2>5 DEF IsPending
<1>4. ASSUME NEW s \in Request, s # r, NEW q, q = request[s], request'[s] = q PROVE StillSo(q)'
  <2>1. InvitationSo(q)'
    BY <1>3, <1>4 DEF InvitationSo
  <2> QED
    BY <1>1, <1>4, <2>1, OtherRequests, TablesAside DEF StillSo
<1>5. CASE ExpireStale(r)
  <2>1. PICK q : q = request[r]
    OBVIOUS
  <2>2. PICK next : next = [q EXCEPT !.op = "createInvitation"]
    OBVIOUS
  <2>3. /\ q.op = "invite" /\ q \in RequestState /\ PlaceSo(q)
        /\ request' = [request EXCEPT ![r] = next]
    BY <1>5, <2>1, <2>2 DEF ExpireStale, TeamTypeOK, NothingLate, StillSo
  <2>4. next.op = "createInvitation" /\ next.at = q.at
    BY <2>2, <2>3 DEF RequestState, Idle
  <2>5. IsLive(q.at)'
    BY <1>1, <2>3 DEF PlaceSo, IsLive
  <2>6. StillSo(next)'
    BY <2>4, <2>5 DEF StillSo, PlaceSo, RoleSo, InvitationSo, AccountSo, OwnerSo
  <2>7. ASSUME NEW s \in Request PROVE StillSo(request[s])'
    <3>1. CASE s = r
      BY <2>3, <2>6, <3>1, SlotSo DEF TeamTypeOK
    <3>2. CASE s # r
      <4>1. PICK p : p = request[s]
        OBVIOUS
      <4> QED
        BY <1>4, <2>3, <3>2, <4>1, SlotSo DEF TeamTypeOK
    <3> QED
      BY <3>1, <3>2
  <2> QED
    BY <1>2, <2>7 DEF NothingLate
<1> QED
  BY <1>1, <1>2, <1>4, <1>5, NothingLateWrite

\* One that is accepted makes nobody an owner.
LEMMA NothingLateAccept ==
  ASSUME TeamTypeOK, Undisturbed, NothingLate, NEW r \in Request, Accept(r) PROVE NothingLate'
<1>1. PICK i, l, role : i = request[r].id /\ l = invitations[i].at /\ role = invitations[i].role
  OBVIOUS
<1>2. /\ <<actor(r), l>> \notin DOMAIN memberships
      /\ memberships' = Insert(memberships, <<actor(r), l>>, role)
      /\ invitations' = [invitations EXCEPT ![i].status = "ACCEPTED"]
      /\ UNCHANGED <<business, locations, deleted>> /\ Finish(r, {})
  BY <1>1 DEF Accept, MayJoin, IsMember, SetStatus
<1>3. role # "OWNER"
  <2>1. i \in DOMAIN invitations
    BY <1>1 DEF TeamTypeOK, RefersToRows, Accept
  <2> QED
    BY <1>1, <2>1, InvitationFields, InvitedRoles
<1>4. UNCHANGED late
  <2>1. actor(r) \notin deleted
    BY DEF Accept, NothingLate, StillSo, AccountSo, actor
  <2> QED
    BY <2>1 DEF Accept, Late
<1>5. /\ DOMAIN memberships' = DOMAIN memberships \cup {<<actor(r), l>>}
      /\ memberships'[<<actor(r), l>>] = role
      /\ \A k \in DOMAIN memberships : memberships'[k] = memberships[k]
  BY <1>2 DEF Insert
<1>6. \A u, k : (IsMember(u, k) => IsMember(u, k)') /\ (HasRole(u, k, "OWNER")' => HasRole(u, k, "OWNER"))
  BY <1>3, <1>5 DEF IsMember, HasRole
<1>7. ASSUME NEW s \in Request, s # r, NEW q, q = request[s], request'[s] = q PROVE StillSo(q)'
  <2>1. RoleSo(q)'
    BY <1>6, <1>7, OtherRequests DEF RoleSo
  <2>2. InvitationSo(q)'
    <3>1. q.op \in {"revoke", "expire"} => q.id # i
      BY <1>1, <1>7, OtherRequests DEF Disturbs, Accept
    <3> QED
      BY <1>2, <1>7, <3>1, OtherRequests DEF InvitationSo, IsPending
  <2> QED
    BY <1>2, <1>7, <2>1, <2>2, OtherRequests, TablesAside DEF StillSo
<1> QED
  BY <1>2, <1>4, <1>7, NothingLateWrite

\* A location added is nobody else's, and its owner is not about to delete
\* their account.
LEMMA NothingLateAdds ==
  ASSUME TeamTypeOK, Undisturbed, NothingLate, NEW r \in Request, NEW b, NEW l, AddLocationOf(r, b, l),
         request[r].op \in {"create", "addLocation"}, b \in DOMAIN business',
         \A c \in DOMAIN business : c \in DOMAIN business' /\ business'[c] = business[c],
         \A c \in DOMAIN business' : c \in DOMAIN business \/ c = b,
         business'[b] = actor(r), UNCHANGED <<invitations, deleted, late>>, Finish(r, {})
  PROVE  NothingLate'
<1>1. /\ l \notin DOMAIN locations
      /\ locations' = Insert(locations, l, [of |-> b, live |-> TRUE])
      /\ memberships' = Insert(memberships, <<actor(r), l>>, "OWNER")
  BY DEF AddLocationOf
<1>2. /\ DOMAIN memberships' = DOMAIN memberships \cup {<<actor(r), l>>}
      /\ \A k \in DOMAIN memberships : k # <<actor(r), l>> => memberships'[k] = memberships[k]
  BY <1>1 DEF Insert
<1>3. /\ DOMAIN locations' = DOMAIN locations \cup {l}
      /\ \A k \in DOMAIN locations : locations'[k] = locations[k]
  BY <1>1 DEF Insert
<1>4. locations'[l].of = b
  <2>1. PICK row : row = [of |-> b, live |-> TRUE]
    OBVIOUS
  <2>2. row.of = b /\ locations' = Insert(locations, l, row)
    BY <1>1, <2>1
  <2> QED
    BY <2>2 DEF Insert
<1>5. ASSUME NEW s \in Request, s # r, NEW q, q = request[s], request'[s] = q PROVE StillSo(q)'
  <2>0. RefersToRows(q) /\ PlaceSo(q) /\ RoleSo(q) /\ InvitationSo(q) /\ AccountSo(q) /\ OwnerSo(q)
        /\ ~Disturbs(request[r], q)
    BY <1>5, OtherRequests
  <2>1. PlaceSo(q)'
    BY <1>3, <2>0 DEF PlaceSo, IsLive
  <2>2. RoleSo(q)'
    <3>1. ASSUME NEW u, NEW k \in DOMAIN locations
          PROVE  /\ IsMember(u, k) => IsMember(u, k)'
                 /\ HasRole(u, k, "OWNER")' => HasRole(u, k, "OWNER")
      <4>1. <<u, k>> # <<actor(r), l>>
        BY <1>1, <3>1
      <4> QED
        BY <1>2, <4>1 DEF IsMember, HasRole
    <3>2. ASSUME q.op = "leave" \/ q.op \in {"updateRole", "remove"} PROVE q.at \in DOMAIN locations
      BY <2>0, <3>2 DEF RefersToRows
    <3> QED
      BY <2>0, <3>1, <3>2 DEF RoleSo
  <2>3. OwnerSo(q)'
    <3>1. q.op = "addLocation" => q.id \in DOMAIN business
      BY <2>0 DEF RefersToRows
    <3>2. ASSUME q.op = "deleteAccount" PROVE (LiveOwned(q.by) = {})'
      <4>1. actor(r) # q.by
        BY <2>0, <3>2 DEF Disturbs, actor
      <4>2. LiveOwned(q.by) = {}
        BY <2>0, <3>2 DEF OwnerSo
      <4>3. ASSUME NEW c \in DOMAIN business', business'[c] = q.by, NEW k \in DOMAIN locations',
                   locations'[k].of = c, locations'[k].live
            PROVE  FALSE
        <5>1. c # b
          BY <4>1, <4>3
        <5>2. k # l
          BY <1>4, <4>3, <5>1
        <5>3. c \in DOMAIN business /\ k \in DOMAIN locations
          BY <1>3, <4>3, <5>1, <5>2
        <5>4. c \in LiveOwned(q.by)
          BY <1>3, <4>3, <5>3 DEF LiveOwned, LocationsOf
        <5> QED
          BY <4>2, <5>4
      <4> QED
        BY <4>3 DEF LiveOwned, LocationsOf
    <3> QED
      BY <2>0, <3>1, <3>2 DEF OwnerSo
  <2> QED
    BY <2>0, <2>1, <2>2, <2>3, TablesAside DEF StillSo
<1> QED
  BY <1>5, NothingLateWrite

\* A new business, or a location for one that is still its owner's.
LEMMA NothingLateLocations ==
  ASSUME TeamTypeOK, Undisturbed, NothingLate, NEW r \in Request,
         \/ \E b \in Business, l \in Location : Create(r, b, l)
         \/ \E l \in Location : AddLocation(r, l)
  PROVE  NothingLate'
<1>1. actor(r) \notin deleted
  BY DEF Create, AddLocation, NothingLate, StillSo, AccountSo, actor
<1>2. ASSUME NEW b \in Business, NEW l \in Location, Create(r, b, l) PROVE NothingLate'
  <2>1. UNCHANGED late
    BY <1>1, <1>2 DEF Create, Late
  <2>2. /\ DOMAIN business' = DOMAIN business \cup {b} /\ business'[b] = actor(r)
        /\ \A c \in DOMAIN business : business'[c] = business[c]
    BY <1>2 DEF Create, Insert
  <2> QED
    BY <1>2, <2>1, <2>2, NothingLateAdds DEF Create
<1>3. ASSUME NEW l \in Location, AddLocation(r, l) PROVE NothingLate'
  <2>1. request[r].id \in DOMAIN business /\ business[request[r].id] = actor(r)
    BY <1>3 DEF AddLocation, TeamTypeOK, RefersToRows, NothingLate, StillSo, OwnerSo, actor
  <2>2. UNCHANGED late
    <3>1. /\ {k \in {l} : business[request[r].id] # actor(r)} = {}
          /\ {u \in {actor(r), business[request[r].id]} : u \in deleted} = {}
      BY <1>1, <2>1
    <3> QED
      BY <1>3, <3>1 DEF AddLocation, Late
  <2> QED
    BY <1>3, <2>1, <2>2, NothingLateAdds DEF AddLocation
<1> QED
  BY <1>2, <1>3

\* A business handed over: who becomes the owner is not about to be changed,
\* removed or deleted, and who was is not about to add a location.
LEMMA NothingLateTransfer ==
  ASSUME TeamTypeOK, Undisturbed, NothingLate, NEW r \in Request, Transfer(r) PROVE NothingLate'
<1>1. PICK w : w = request[r] /\ w.op = "transfer"
  BY DEF Transfer
<1>2. /\ business' = [business EXCEPT ![w.id] = w.to] /\ w.id \in DOMAIN business
      /\ HandOver(w.id, actor(r), w.to)
      /\ UNCHANGED <<locations, invitations, deleted>> /\ Finish(r, {})
  BY <1>1 DEF Transfer, TeamTypeOK, RefersToRows
<1>3. UNCHANGED late
  <2>1. request[r].to \notin deleted
    BY DEF Transfer, NothingLate, StillSo, AccountSo
  <2> QED
    BY <2>1 DEF Transfer, Late
<1>4. /\ DOMAIN memberships' = DOMAIN memberships \cup {w.to} \X LocationsOf(w.id)
      /\ \A k \in DOMAIN memberships' :
           memberships'[k] = IF k[2] \in LocationsOf(w.id) /\ k[1] = w.to THEN "OWNER"
                             ELSE IF k[2] \in LocationsOf(w.id) /\ k[1] = actor(r) /\ memberships[k] = "OWNER"
                             THEN "ADMIN" ELSE memberships[k]
  BY <1>2 DEF HandOver
<1>5. ASSUME NEW u, NEW l \in DOMAIN locations, ~(u = w.to /\ locations[l].of = w.id)
      PROVE  HasRole(u, l, "OWNER")' => HasRole(u, l, "OWNER")
  <2>1. PICK k : k = <<u, l>>
    OBVIOUS
  <2>2. k[1] = u /\ k[2] = l /\ ~(k[2] \in LocationsOf(w.id) /\ k[1] = w.to)
    BY <1>5, <2>1 DEF LocationsOf
  <2>3. k \in DOMAIN memberships' => k \in DOMAIN memberships
    BY <1>4, <2>2
  <2>4. k \in DOMAIN memberships' /\ memberships'[k] = "OWNER" => memberships[k] = "OWNER"
    BY <1>4, <2>2
  <2> QED
    BY <2>1, <2>3, <2>4 DEF HasRole, IsMember
<1>6. ASSUME NEW s \in Request, s # r, NEW q, q = request[s], request'[s] = q PROVE StillSo(q)'
  <2>0. RefersToRows(q) /\ PlaceSo(q) /\ RoleSo(q) /\ InvitationSo(q) /\ AccountSo(q) /\ OwnerSo(q)
        /\ ~Disturbs(w, q)
    BY <1>1, <1>6, OtherRequests
  <2>1. RoleSo(q)'
    <3>1. ASSUME q.op \in {"updateRole", "remove"}
          PROVE  IsMember(q.who, q.at)' /\ ~HasRole(q.who, q.at, "OWNER")'
      <4>1. q.at \in DOMAIN locations /\ ~(q.who = w.to /\ locations[q.at].of = w.id)
        BY <1>1, <2>0, <3>1 DEF RefersToRows, Disturbs
      <4>2. IsMember(q.who, q.at) /\ ~HasRole(q.who, q.at, "OWNER")
        BY <2>0, <3>1 DEF RoleSo
      <4> QED
        BY <1>4, <1>5, <4>1, <4>2 DEF IsMember
    <3>2. ASSUME q.op = "leave" PROVE ~HasRole(q.by, q.at, "OWNER")'
      <4>1. q.at \in DOMAIN locations /\ ~(q.by = w.to /\ locations[q.at].of = w.id)
        BY <1>1, <2>0, <3>2 DEF RefersToRows, Disturbs
      <4>2. ~HasRole(q.by, q.at, "OWNER")
        BY <2>0, <3>2 DEF RoleSo
      <4> QED
        BY <1>5, <4>1, <4>2
    <3> QED
      BY <3>1, <3>2 DEF RoleSo
  <2>2. OwnerSo(q)'
    <3>1. ASSUME q.op = "addLocation" PROVE business'[q.id] = q.by
      BY <1>1, <1>2, <2>0, <3>1 DEF Disturbs, OwnerSo, RefersToRows
    <3>2. ASSUME q.op = "deleteAccount" PROVE (LiveOwned(q.by) = {})'
      <4>1. q.by # w.to /\ LiveOwned(q.by) = {}
        BY <1>1, <2>0, <3>2 DEF Disturbs, OwnerSo
      <4>2. \A c \in DOMAIN business' : business'[c] = q.by => c \in DOMAIN business /\ business[c] = q.by
        BY <1>2, <4>1
      <4> QED
        BY <1>2, <4>1, <4>2 DEF LiveOwned, LocationsOf
    <3> QED
      BY <3>1, <3>2 DEF OwnerSo
  <2> QED
    BY <1>2, <2>0, <2>1, <2>2, TablesAside DEF StillSo
<1> QED
  BY <1>2, <1>3, <1>6, NothingLateWrite

\* An account that is deleted owns nothing, and nobody is about to give it
\* anything.
LEMMA NothingLateDeleteAccount ==
  ASSUME TeamTypeOK, Undisturbed, NothingLate, NEW r \in Request, DeleteAccount(r) PROVE NothingLate'
<1>1. PICK w : w = request[r] /\ w.op = "deleteAccount" /\ w.by = actor(r)
  BY DEF DeleteAccount, actor
<1>2. PICK gone : /\ gone = RowsOf(w.by)
                  /\ memberships' = Delete(memberships, gone) /\ Finish(r, gone)
  BY <1>1 DEF DeleteAccount
<1>3. deleted' = deleted \cup {w.by} /\ UNCHANGED <<business, locations, invitations>>
  BY <1>1 DEF DeleteAccount
<1>4. UNCHANGED late
  <2>1. PICK since : since = LiveOwned(actor(r)) \ request[r].owned
    OBVIOUS
  <2>2. since = {}
    BY <1>1, <2>1 DEF NothingLate, StillSo, OwnerSo
  <2>3. late' = late
          \cup Late("deleteAccount", {l \in DOMAIN locations : locations[l].of \in since})
          \cup Late("deleteAccount", {u \in {actor(r)} : since # {}})
    BY <2>1 DEF DeleteAccount
  <2> QED
    BY <2>2, <2>3 DEF Late
<1>5. /\ DOMAIN memberships' = DOMAIN memberships \ gone
      /\ \A k \in DOMAIN memberships \ gone : memberships'[k] = memberships[k]
  BY <1>2, MembershipsDeleted
<1>6. ASSUME NEW s \in Request, s # r, NEW q, q = request[s], request'[s] = q PROVE StillSo(q)'
  <2>0. RoleSo(q) /\ AccountSo(q) /\ ~Disturbs(w, q)
    BY <1>1, <1>6, OtherRequests
  <2>1. q.op \in {"updateRole", "remove"} => <<q.who, q.at>> \notin gone
    BY <1>2, <1>6 DEF Finish, Idle
  <2>2. RoleSo(q)'
    BY <1>5, <2>0, <2>1 DEF RoleSo, IsMember, HasRole
  <2>3. AccountSo(q)'
    BY <1>1, <1>3, <2>0 DEF AccountSo, Disturbs
  <2> QED
    BY <1>3, <1>6, <2>2, <2>3, OtherRequests, TablesAside DEF StillSo
<1> QED
  BY <1>2, <1>4, <1>6, NothingLateWrite

\* A location that is deleted has no requests nor withdrawals under way.
LEMMA NothingLateRemoveLocation ==
  ASSUME TeamTypeOK, Undisturbed, NothingLate, NEW r \in Request, LocationController(r) PROVE NothingLate'
<1>1. PICK w : w = request[r] /\ w.op = "admitted" /\ w.as = "OWNER" /\ w.at = place(r)
  BY DEF LocationController, Admitted, place
<1>2. /\ locations' = [locations EXCEPT ![w.at].live = FALSE]
      /\ RevokePending(w.at) /\ Finish(r, {})
      /\ UNCHANGED <<business, memberships, deleted, late>>
  BY <1>1 DEF LocationController, RemoveLocation
<1>3. /\ DOMAIN locations' = DOMAIN locations
      /\ \A l \in DOMAIN locations : l # w.at => locations'[l] = locations[l]
      /\ \A l \in DOMAIN locations :
           locations'[l].of = locations[l].of /\ (locations'[l].live => locations[l].live)
  BY <1>2 DEF TeamTypeOK, IsTable, LocationRow
<1>4. ASSUME NEW s \in Request, s # r, NEW q, q = request[s], request'[s] = q PROVE StillSo(q)'
  <2>0. RefersToRows(q) /\ PlaceSo(q) /\ InvitationSo(q) /\ OwnerSo(q) /\ ~Disturbs(w, q)
    BY <1>1, <1>4, OtherRequests
  <2>1. PlaceSo(q)'
    BY <1>1, <1>3, <2>0 DEF PlaceSo, IsLive, Disturbs
  <2>2. InvitationSo(q)'
    <3>1. ASSUME q.op \in {"revoke", "expire"} PROVE invitations'[q.id] = invitations[q.id]
      BY <1>1, <1>2, <2>0, <3>1 DEF RefersToRows, Disturbs, RevokePending
    <3> QED
      BY <2>0, <3>1 DEF InvitationSo, IsPending
  <2>3. OwnerSo(q)'
    BY <1>2, <1>3, <2>0 DEF OwnerSo, LiveOwned, LocationsOf
  <2> QED
    BY <1>2, <1>4, <2>1, <2>2, <2>3, OtherRequests, TablesAside DEF StillSo
<1> QED
  BY <1>2, <1>4, NothingLateWrite

\* Time leaves what is pending pending.
LEMMA NothingLateLapse ==
  ASSUME TeamTypeOK, NothingLate, NEW i \in DOMAIN invitations, Lapse(i) PROVE NothingLate'
<1>1. /\ invitations' = [invitations EXCEPT ![i].expired = TRUE]
      /\ UNCHANGED <<business, locations, memberships, deleted, request, late>>
  BY DEF Lapse
<1>2. [invitations[i] EXCEPT !.expired = TRUE].status = invitations[i].status
  BY InvitationFields DEF InvitationRow
<1>3. ASSUME NEW s \in Request PROVE StillSo(request[s])'
  <2>1. PICK q : q = request[s]
    OBVIOUS
  <2>2. StillSo(q)
    BY <2>1 DEF NothingLate
  <2>3. InvitationSo(q)'
    BY <1>1, <1>2, <2>2 DEF StillSo, InvitationSo, IsPending
  <2>4. StillSo(q)'
    BY <1>1, <2>2, <2>3, TablesAside DEF StillSo
  <2> QED
    BY <1>1, <2>1, <2>4, SlotSo
<1> QED
  BY <1>1, <1>3 DEF NothingLate

\* No step is late, nor makes another so.
LEMMA NothingLateStep ==
  ASSUME TeamTypeOK, AccountsOut, Undisturbed, NothingLate, [TeamNext]_teamVars
  PROVE  NothingLate'
<1>1. ASSUME NEW r \in Request, Handle(r) PROVE NothingLate'
  BY <1>1, NothingLateDecides, NothingLateRemoveLocation DEF Handle
<1>2. ASSUME NEW r \in Request, Write(r) PROVE NothingLate'
  BY <1>2, NothingLateUpdateRole, NothingLateTakeAway, NothingLateInvitations, NothingLateAccept,
     NothingLateLocations, NothingLateTransfer, NothingLateDeleteAccount DEF Write
<1>3. ASSUME NEW r \in Request, Fail(r) PROVE NothingLate'
  BY <1>3, IdleSo, NothingLateReads DEF Fail
<1>4. CASE UNCHANGED teamVars
  <2>1. ASSUME NEW s \in Request PROVE StillSo(request[s])'
    <3>1. PICK q : q = request[s]
      OBVIOUS
    <3>2. StillSo(q)
      BY <3>1 DEF NothingLate
    <3>3. StillSo(q)'
      BY <1>4, <3>2, TablesAside DEF StillSo, teamVars
    <3> QED
      BY <1>4, <3>1, <3>3, SlotSo DEF teamVars
  <2> QED
    BY <1>4, <2>1 DEF NothingLate, teamVars
<1> QED
  BY <1>1, <1>2, <1>3, <1>4, NothingLateBegin, NothingLateLapse DEF TeamNext

\* The pairs of Disturbs are all there are: while no two such requests are
\* open at once, no write is late, whatever else runs into one another.
THEOREM LateOnlyWhenDisturbed == TeamSpec /\ []Undisturbed => [](late = {})
<1>1. TeamInit => TeamTypeOK /\ AllDecidedRightly /\ AccountsOut /\ NothingLate
  <2>1. TeamInit => NothingLate
    BY IdleSo DEF TeamInit, NothingLate
  <2> QED
    BY <2>1, TypeInit, DecidedInit DEF TeamInit, AccountsOut
<1>2. /\ TeamTypeOK /\ AllDecidedRightly /\ AccountsOut /\ NothingLate
      /\ Undisturbed /\ [TeamNext]_teamVars
      => (TeamTypeOK /\ AllDecidedRightly /\ AccountsOut /\ NothingLate)'
  BY TypeStep, DecidedKept, AccountsKept, NothingLateStep
<1>3. NothingLate => late = {}
  BY DEF NothingLate
<1> QED
  BY <1>1, <1>2, <1>3, PTL DEF TeamSpec

\* The docs as they read: owners in sync at every live location, deleted
\* accounts out, ACCEPTED on the invitations that were used and no others,
\* and none pending to a deleted location.
AsDocumented ==
  /\ \A l \in DOMAIN locations : locations[l].live => InSync(l)
  /\ \A u \in deleted : RowsOf(u) = {} /\ LiveOwned(u) = {}
  /\ \A i \in DOMAIN invitations :
       /\ invitations[i].status = "ACCEPTED" <=> used[i] > 0
       /\ IsPending(i) => IsLive(invitations[i].at)

\* What data-model.md and ADRs 0017 and 0018 promise of teams holds without
\* exception as long as no request disturbs another.
THEOREM DocumentedWhileUndisturbed == TeamSpec /\ []Undisturbed => []AsDocumented
<1>1. /\ late = {} /\ OwnersDriftOnlyByLateWrites /\ DeletedAccountIsOut
      /\ InvitationTellsTheTruth /\ ClosedLocationInvitesNobody
      => AsDocumented
  BY DEF OwnersDriftOnlyByLateWrites, DeletedAccountIsOut, InvitationTellsTheTruth,
     ClosedLocationInvitesNobody, AsDocumented
<1> QED
  BY <1>1, LateOnlyWhenDisturbed, OwnersInSync, DeletedAccountsAreOut, InvitationsTellTheTruth,
     ClosedLocationsInviteNobody, PTL
=============================================================================
