-------------------------------- MODULE Team --------------------------------
(***************************************************************************)
(* Who may do what at which location: businesses and their owners,         *)
(* locations, memberships, invitations and the accounts behind them        *)
(* (business.service.ts, membership.service.ts, invitation.service.ts,     *)
(* location.service.ts and me.service.ts under api/src).                   *)
(*                                                                         *)
(* These handlers read, decide, and write what they decided; most of them  *)
(* neither lock nor compare. A request is therefore a step for each of     *)
(* these: the guard lets it in, the service reads and decides, the service *)
(* writes; an invitation takes two writes, which nothing holds together.   *)
(* Anything may happen in between, and a request may end at any step: it   *)
(* throws, or the process dies. What a transaction writes is one step, and *)
(* rows it does not see yet count as written after it.                     *)
(*                                                                         *)
(* The history variable late names the writes that were made although what *)
(* they were decided on had changed in between.                            *)
(***************************************************************************)
EXTENDS Rows, FiniteSets

CONSTANTS
  User,         \* accounts; an email address is named by the account it has
  Business,     \* ids of businesses
  Location,     \* ids of locations
  Invitation,   \* ids of invitations
  Request,      \* slots for requests being served at one time
  MaxRequests   \* bound: requests started

ASSUME RequestsAssumption == MaxRequests \in Nat

VARIABLES
  business,      \* business id -> User.id of its owner
  locations,     \* location id -> its business, and whether it is not deleted
  memberships,   \* <<user, location>> -> role: that pair is unique
  invitations,   \* invitation id -> row
  deleted,       \* the accounts with a deletedAt
  request,       \* what each request slot has read and is about to write
  started,       \* requests started so far
  used,          \* history: how often an invitation made somebody a member
  late           \* history: <<operation, row>> of the late writes

teamVars == <<business, locations, memberships, invitations, deleted, request, started, used, late>>

Role == {"OWNER", "ADMIN", "EMPLOYEE"}
InvitationRole == {"ADMIN", "EMPLOYEE"}
InvitationStatus == {"PENDING", "ACCEPTED", "EXPIRED", "REVOKED"}

LocationRow == [of : Business, live : BOOLEAN]
InvitationRow == [at : Location, email : User, role : InvitationRole,
                  status : InvitationStatus, expired : BOOLEAN]

Idle == [op |-> "none"]

\* by sends the request; the rest is what its reads found, or the body.
RequestState ==
  {Idle}
  \cup [op : {"admitted"}, by : User, at : Location, as : Role]
  \cup [op : {"updateRole"}, by : User, at : Location, as : Role, who : User,
        was : InvitationRole, to : InvitationRole]
  \cup [op : {"remove"}, by : User, at : Location, as : Role, who : User, was : InvitationRole]
  \cup [op : {"leave"}, by : User, at : Location]
  \cup [op : {"invite", "createInvitation"}, by : User, at : Location, who : User, to : InvitationRole]
  \cup [op : {"revoke", "resend", "accept", "expire"}, by : User, id : Invitation]
  \cup [op : {"create"}, by : User]
  \cup [op : {"addLocation"}, by : User, id : Business]
  \cup [op : {"transfer"}, by : User, id : Business, to : User]
  \cup [op : {"deleteAccount"}, by : User, owned : SUBSET Business]

\* What a request has read is there: only memberships are ever deleted.
RefersToRows(q) ==
  /\ q.op \in {"admitted", "updateRole", "remove", "leave", "invite", "createInvitation"}
       => q.at \in DOMAIN locations
  /\ q.op \in {"revoke", "resend", "accept", "expire"} => q.id \in DOMAIN invitations
  /\ q.op \in {"addLocation", "transfer"} => q.id \in DOMAIN business

TeamTypeOK ==
  /\ DOMAIN business \subseteq Business /\ IsTable(business, User)
  /\ DOMAIN locations \subseteq Location /\ IsTable(locations, LocationRow)
  /\ DOMAIN memberships \subseteq User \X DOMAIN locations /\ IsTable(memberships, Role)
  /\ DOMAIN invitations \subseteq Invitation /\ IsTable(invitations, InvitationRow)
  /\ \A l \in DOMAIN locations : locations[l].of \in DOMAIN business
  /\ \A i \in DOMAIN invitations : invitations[i].at \in DOMAIN locations
  /\ deleted \subseteq User
  /\ request \in [Request -> RequestState]
  /\ \A r \in Request : RefersToRows(request[r])
  /\ started \in 0 .. MaxRequests
  /\ used \in [Invitation -> Nat]

IsMember(u, l) == <<u, l>> \in DOMAIN memberships
HasRole(u, l, role) == IsMember(u, l) /\ memberships[<<u, l>>] = role
IsLive(l) == l \in DOMAIN locations /\ locations[l].live
LocationsOf(b) == {l \in DOMAIN locations : locations[l].of = b}

\* A business with a location, its team in place, and perhaps an invitation
\* the owner sent to somebody else.
TeamInit ==
  \E b \in Business, l \in Location, o \in User :
    /\ business = Insert(Empty, b, o)
    /\ locations = Insert(Empty, l, [of |-> b, live |-> TRUE])
    /\ \E team \in SUBSET (User \ {o}) : \E roles \in [team -> InvitationRole] :
         memberships = [k \in (team \cup {o}) \X {l} |-> IF k[1] = o THEN "OWNER" ELSE roles[k[1]]]
    /\ \/ invitations = Empty
       \/ \E i \in Invitation, u \in User, role \in InvitationRole :
            /\ <<u, l>> \notin DOMAIN memberships
            /\ invitations = Insert(Empty, i, [at |-> l, email |-> u, role |-> role,
                                               status |-> "PENDING", expired |-> FALSE])
    /\ deleted = {}
    /\ request = [r \in Request |-> Idle]
    /\ started = 0
    /\ used = [i \in Invitation |-> 0]
    /\ late = {}

-----------------------------------------------------------------------------
(* Requests.                                                               *)

ledger == <<business, locations, memberships, invitations, deleted, used, late>>

\* A session ends with its account, a request already let in does not.
Start(r, u, state) ==
  /\ request[r] = Idle
  /\ u \notin deleted
  /\ started < MaxRequests
  /\ started' = started + 1
  /\ request' = [request EXCEPT ![r] = state]
  /\ UNCHANGED ledger

Decide(r, state) ==
  /\ request' = [request EXCEPT ![r] = state]
  /\ UNCHANGED <<ledger, started>>

\* Request r is done. Others that go by the id of a membership that is gone
\* can only throw from here on.
Finish(r, gone) ==
  /\ request' = [s \in Request |->
       IF \/ s = r
          \/ request[s].op \in {"updateRole", "remove"} /\ <<request[s].who, request[s].at>> \in gone
       THEN Idle ELSE request[s]]
  /\ UNCHANGED started

Fail(r) ==
  /\ request[r] # Idle
  /\ request' = [request EXCEPT ![r] = Idle]
  /\ UNCHANGED <<ledger, started>>

\* The marks of one write: op, on those of the rows where it was late.
Late(op, rows) == {op} \X rows

\* LocationMembershipGuard.
Admit(r, u, l) ==
  /\ IsLive(l)
  /\ IsMember(u, l)
  /\ Start(r, u, [op |-> "admitted", by |-> u, at |-> l, as |-> memberships[<<u, l>>]])

\* The guard let r in with one of the handler's @LocationRoles.
Admitted(r, roles) == request[r].op = "admitted" /\ request[r].as \in roles

actor(r) == request[r].by
place(r) == request[r].at
roleAt(r) == memberships[<<actor(r), place(r)>>]

\* Mutant: the role somebody would get is not looked at.
assertCanManageThem(actorRole, now, next) == actorRole = "ADMIN" => now = "EMPLOYEE"

\* now is the role somebody has, next the one they would get.
assertCanManage(actorRole, now, next) ==
  actorRole = "ADMIN" => now = "EMPLOYEE" /\ next = "EMPLOYEE"

-----------------------------------------------------------------------------
(* MembershipService.                                                      *)

\* Mutant: the whole Role enum.
AnyRole == Role

\* UpdateMembershipRoleDto: OWNER changes hands by transfer only.
AssignableRole == {"ADMIN", "EMPLOYEE"}

DecideUpdateRole(r, who, to) ==
  /\ to \in AssignableRole
  /\ IsMember(who, place(r)) /\ ~HasRole(who, place(r), "OWNER")
  /\ assertCanManage(roleAt(r), memberships[<<who, place(r)>>], to)
  /\ Decide(r, [op |-> "updateRole", by |-> actor(r), at |-> place(r), as |-> roleAt(r), who |-> who,
                was |-> memberships[<<who, place(r)>>], to |-> to])

UpdateRole(r) ==
  /\ request[r].op = "updateRole"
  /\ LET key == <<request[r].who, place(r)>>
     IN  /\ memberships' = [memberships EXCEPT ![key] = request[r].to]
         /\ late' = late \cup Late("updateRole", {l \in {place(r)} : memberships[key] = "OWNER"})
  /\ Finish(r, {})
  /\ UNCHANGED <<business, locations, invitations, deleted, used>>

DecideRemove(r, who) ==
  /\ IsMember(who, place(r)) /\ ~HasRole(who, place(r), "OWNER")
  /\ assertCanManage(roleAt(r), memberships[<<who, place(r)>>], "EMPLOYEE")
  /\ Decide(r, [op |-> "remove", by |-> actor(r), at |-> place(r), as |-> roleAt(r), who |-> who,
                was |-> memberships[<<who, place(r)>>]])

Remove(r) ==
  /\ request[r].op = "remove"
  /\ LET key == <<request[r].who, place(r)>>
     IN  /\ memberships' = Delete(memberships, {key})
         /\ late' = late \cup Late("remove", {l \in {place(r)} : memberships[key] = "OWNER"})
         /\ Finish(r, {key})
  /\ UNCHANGED <<business, locations, invitations, deleted, used>>

DecideLeave(r) ==
  /\ roleAt(r) # "OWNER"
  /\ Decide(r, [op |-> "leave", by |-> actor(r), at |-> place(r)])

\* By user and location, not by id.
Leave(r) ==
  /\ request[r].op = "leave"
  /\ LET key == <<actor(r), place(r)>>
     IN  /\ key \in DOMAIN memberships
         /\ memberships' = Delete(memberships, {key})
         /\ late' = late \cup Late("leave", {l \in {place(r)} : memberships[key] = "OWNER"})
         /\ Finish(r, {key})
  /\ UNCHANGED <<business, locations, invitations, deleted, used>>

-----------------------------------------------------------------------------
(* InvitationService.                                                      *)

IsPending(i) == invitations[i].status = "PENDING"

SetStatus(i, status) == invitations' = [invitations EXCEPT ![i].status = status]

\* A deleted account does not have its address any more.
DecideInvite(r, who, to) ==
  /\ assertCanManage(roleAt(r), "EMPLOYEE", to)
  /\ who \notin deleted => ~IsMember(who, place(r))
  /\ Decide(r, [op |-> "invite", by |-> actor(r), at |-> place(r), who |-> who, to |-> to])

SameInvitee(r, j) == invitations[j].at = place(r) /\ invitations[j].email = request[r].who

\* The stale one would be in the way; expiring it is a statement of its own.
ExpireStale(r) ==
  /\ request[r].op = "invite"
  /\ invitations' =
       [j \in DOMAIN invitations |->
          IF SameInvitee(r, j) /\ IsPending(j) /\ invitations[j].expired
          THEN [invitations[j] EXCEPT !.status = "EXPIRED"] ELSE invitations[j]]
  /\ request' = [request EXCEPT ![r].op = "createInvitation"]
  /\ UNCHANGED <<business, locations, memberships, deleted, started, used, late>>

\* invitation_one_pending_per_email: a pending one, even stale by now, makes
\* the insert fail.
Invite(r, i) ==
  /\ request[r].op = "createInvitation"
  /\ i \in Invitation \ DOMAIN invitations
  /\ \A j \in DOMAIN invitations : SameInvitee(r, j) => ~IsPending(j)
  /\ invitations' = Insert(invitations, i,
       [at |-> place(r), email |-> request[r].who, role |-> request[r].to,
        status |-> "PENDING", expired |-> FALSE])
  /\ late' = late \cup Late("invite", {j \in {i} : ~IsLive(place(r))})
  /\ Finish(r, {})
  /\ UNCHANGED <<business, locations, memberships, deleted, used>>

\* What revoke and resend look for.
DecideOn(r, i, op) ==
  /\ invitations[i].at = place(r)
  /\ assertCanManage(roleAt(r), "EMPLOYEE", invitations[i].role)
  /\ IsPending(i)
  /\ Decide(r, [op |-> op, by |-> actor(r), id |-> i])

DecideRevoke(r, i) == DecideOn(r, i, "revoke")

DecideResend(r, i) == DecideOn(r, i, "resend") /\ ~invitations[i].expired

\* Whatever the status is by now.
Revoke(r) ==
  /\ request[r].op = "revoke"
  /\ SetStatus(request[r].id, "REVOKED")
  /\ late' = late \cup Late("revoke", {i \in {request[r].id} : ~IsPending(i)})
  /\ Finish(r, {})
  /\ UNCHANGED <<business, locations, memberships, deleted, used>>

Resend(r) ==
  /\ request[r].op = "resend"
  /\ invitations' = [invitations EXCEPT ![request[r].id].expired = FALSE]
  /\ Finish(r, {})
  /\ UNCHANGED <<business, locations, memberships, deleted, used, late>>

\* INVITATION_TTL_MS go by.
Lapse(i) ==
  /\ ~invitations[i].expired
  /\ invitations' = [invitations EXCEPT ![i].expired = TRUE]
  /\ UNCHANGED <<business, locations, memberships, deleted, request, started, used, late>>

\* accept, up to its transaction, or to recording that it came too late.
DecideAccept(r, u, i) ==
  /\ invitations[i].email = u
  /\ IsPending(i)
  /\ Start(r, u, [op |-> IF invitations[i].expired THEN "expire" ELSE "accept", by |-> u, id |-> i])

\* Again whatever the status is by now.
Expire(r) ==
  /\ request[r].op = "expire"
  /\ SetStatus(request[r].id, "EXPIRED")
  /\ late' = late \cup Late("expire", {i \in {request[r].id} : ~IsPending(i)})
  /\ Finish(r, {})
  /\ UNCHANGED <<business, locations, memberships, deleted, used>>

\* Mutant: accepted on the status that was read.
MayStillAcceptBlindly(i) == TRUE

MayStillAccept(i) == IsPending(i)

\* The (user, location) key: its violation rolls the acceptance back.
MayJoin(u, l) == ~IsMember(u, l)

Accept(r) ==
  /\ request[r].op = "accept"
  /\ LET i == request[r].id
         l == invitations[i].at
     IN  /\ MayStillAccept(i)
         /\ MayJoin(actor(r), l)
         /\ SetStatus(i, "ACCEPTED")
         /\ memberships' = Insert(memberships, <<actor(r), l>>, invitations[i].role)
         /\ used' = [used EXCEPT ![i] = @ + 1]
         /\ late' = late \cup Late("accept", {u \in {actor(r)} : u \in deleted})
  /\ Finish(r, {})
  /\ UNCHANGED <<business, locations, deleted>>

-----------------------------------------------------------------------------
(* BusinessService.                                                        *)

\* loadOwned.
Owns(u, b) == b \in DOMAIN business /\ business[b] = u

\* The new location and the OWNER membership of whoever adds it.
AddLocationOf(r, b, l) ==
  /\ l \in Location \ DOMAIN locations
  /\ locations' = Insert(locations, l, [of |-> b, live |-> TRUE])
  /\ memberships' = Insert(memberships, <<actor(r), l>>, "OWNER")

StartCreate(r, u) == Start(r, u, [op |-> "create", by |-> u])

Create(r, b, l) ==
  /\ request[r].op = "create"
  /\ b \in Business \ DOMAIN business
  /\ business' = Insert(business, b, actor(r))
  /\ AddLocationOf(r, b, l)
  /\ late' = late \cup Late("create", {u \in {actor(r)} : u \in deleted})
  /\ Finish(r, {})
  /\ UNCHANGED <<invitations, deleted, used>>

DecideAddLocation(r, u, b) ==
  /\ Owns(u, b)
  /\ Start(r, u, [op |-> "addLocation", by |-> u, id |-> b])

AddLocation(r, l) ==
  /\ request[r].op = "addLocation"
  /\ AddLocationOf(r, request[r].id, l)
  /\ late' = late
       \cup Late("addLocation", {k \in {l} : business[request[r].id] # actor(r)})
       \cup Late("addLocation", {u \in {actor(r), business[request[r].id]} : u \in deleted})
  /\ Finish(r, {})
  /\ UNCHANGED <<business, invitations, deleted, used>>

DecideTransfer(r, u, b, to) ==
  /\ Owns(u, b)
  /\ to # u
  /\ \E l \in LocationsOf(b) : IsLive(l) /\ HasRole(to, l, "ADMIN")
  /\ Start(r, u, [op |-> "transfer", by |-> u, id |-> b, to |-> to])

\* Mutant: only the memberships the new owner already has become OWNER.
HandOverExisting(b, from, to) ==
  memberships' = [k \in DOMAIN memberships |->
    IF k[2] \in LocationsOf(b) /\ k[1] = to THEN "OWNER"
    ELSE IF k[2] \in LocationsOf(b) /\ k[1] = from /\ memberships[k] = "OWNER" THEN "ADMIN"
    ELSE memberships[k]]

\* At every location, deleted ones included.
HandOver(b, from, to) ==
  memberships' = [k \in DOMAIN memberships \cup {to} \X LocationsOf(b) |->
    IF k[2] \in LocationsOf(b) /\ k[1] = to THEN "OWNER"
    ELSE IF k[2] \in LocationsOf(b) /\ k[1] = from /\ memberships[k] = "OWNER" THEN "ADMIN"
    ELSE memberships[k]]

\* Conditional on the owner the request started from. An OWNER besides the
\* two violates membership_one_owner_per_location and rolls it all back.
Transfer(r) ==
  /\ request[r].op = "transfer"
  /\ LET b == request[r].id
         to == request[r].to
     IN  /\ business[b] = actor(r)
         /\ \A l \in LocationsOf(b), u \in User \ {actor(r), to} : ~HasRole(u, l, "OWNER")
         /\ business' = [business EXCEPT ![b] = to]
         /\ HandOver(b, actor(r), to)
         /\ late' = late \cup Late("transfer", {u \in {to} : u \in deleted})
  /\ Finish(r, {})
  /\ UNCHANGED <<locations, invitations, deleted, used>>

-----------------------------------------------------------------------------
(* LocationService.remove and MeService.remove.                            *)

\* Mutant: invitations to the location stay pending.
RevokeNone(l) == UNCHANGED invitations

\* Mutant: all its invitations are revoked.
RevokeAll(l) ==
  invitations' = [i \in DOMAIN invitations |->
    IF invitations[i].at = l THEN [invitations[i] EXCEPT !.status = "REVOKED"] ELSE invitations[i]]

RevokePending(l) ==
  invitations' = [i \in DOMAIN invitations |->
    IF invitations[i].at = l /\ IsPending(i) THEN [invitations[i] EXCEPT !.status = "REVOKED"]
    ELSE invitations[i]]

\* No reads after the guard's.
RemoveLocation(r) ==
  /\ locations' = [locations EXCEPT ![place(r)].live = FALSE]
  /\ RevokePending(place(r))
  /\ Finish(r, {})
  /\ UNCHANGED <<business, memberships, deleted, used, late>>

LiveOwned(u) == {b \in DOMAIN business : business[b] = u /\ \E l \in LocationsOf(b) : locations[l].live}

\* Mutant: owners may delete their account.
MayDeleteAnyAccount(u) == TRUE

MayDeleteAccount(u) == LiveOwned(u) = {}

\* The sign-in of the last ten minutes that it asks for may always be there.
DecideDeleteAccount(r, u) ==
  /\ MayDeleteAccount(u)
  /\ Start(r, u, [op |-> "deleteAccount", by |-> u, owned |-> LiveOwned(u)])

RowsOf(u) == {k \in DOMAIN memberships : k[1] = u}

DeleteAccount(r) ==
  /\ request[r].op = "deleteAccount"
  /\ deleted' = deleted \cup {actor(r)}
  /\ memberships' = Delete(memberships, RowsOf(actor(r)))
  /\ LET since == LiveOwned(actor(r)) \ request[r].owned
     IN  late' = late
           \cup Late("deleteAccount", {l \in DOMAIN locations : locations[l].of \in since})
           \cup Late("deleteAccount", {u \in {actor(r)} : since # {}})
  /\ Finish(r, RowsOf(actor(r)))
  /\ UNCHANGED <<business, locations, invitations, used>>

-----------------------------------------------------------------------------

(* The controllers: which handlers there are, and which roles get to them. *)

ManagerRoles == {"OWNER", "ADMIN"}

\* roleAt, which reads the role once more, throws when the membership is
\* gone.
MembershipController(r) ==
  /\ IsMember(actor(r), place(r))
  /\ \/ Admitted(r, ManagerRoles)
        /\ \E who \in User : (\E to \in Role : DecideUpdateRole(r, who, to)) \/ DecideRemove(r, who)
     \/ Admitted(r, Role) /\ DecideLeave(r)

InvitationController(r) ==
  /\ Admitted(r, ManagerRoles)
  /\ IsMember(actor(r), place(r))
  /\ \/ \E who \in User, to \in InvitationRole : DecideInvite(r, who, to)
     \/ \E i \in DOMAIN invitations : DecideRevoke(r, i) \/ DecideResend(r, i)

LocationController(r) == Admitted(r, {"OWNER"}) /\ RemoveLocation(r)

\* Not at a location: no guard but the session's.
InvitationAcceptController(r, u) == \E i \in DOMAIN invitations : DecideAccept(r, u, i)

BusinessController(r, u) ==
  \/ StartCreate(r, u)
  \/ \E b \in Business : DecideAddLocation(r, u, b) \/ \E to \in User : DecideTransfer(r, u, b, to)

MeController(r, u) == DecideDeleteAccount(r, u)

Begin(r) ==
  \E u \in User :
    \/ \E l \in Location : Admit(r, u, l)
    \/ InvitationAcceptController(r, u) \/ BusinessController(r, u) \/ MeController(r, u)

Handle(r) ==
  /\ request[r].op = "admitted"
  /\ MembershipController(r) \/ InvitationController(r) \/ LocationController(r)

Write(r) ==
  \/ UpdateRole(r) \/ Remove(r) \/ Leave(r)
  \/ ExpireStale(r) \/ \E i \in Invitation : Invite(r, i)
  \/ Revoke(r) \/ Resend(r) \/ Expire(r) \/ Accept(r)
  \/ \E b \in Business, l \in Location : Create(r, b, l)
  \/ \E l \in Location : AddLocation(r, l)
  \/ Transfer(r) \/ DeleteAccount(r)

TeamNext ==
  \/ \E r \in Request : Begin(r) \/ Handle(r) \/ Write(r) \/ Fail(r)
  \/ \E i \in DOMAIN invitations : Lapse(i)

TeamSpec == TeamInit /\ [][TeamNext]_teamVars

-----------------------------------------------------------------------------
(* Properties.                                                             *)

InSync(l) == {u \in User : HasRole(u, l, "OWNER")} = {business[locations[l].of]}

\* The owner of a business is the one OWNER of every location under it,
\* "kept in sync on ownership transfer" (data-model.md, 44), but for five
\* gaps: a location added by somebody whose business has just been
\* transferred, a role changed, a member removed or a member leaving who
\* has just become the owner, and an account deleted that has just become
\* one. Transfers racing one another never do it, and a transfer reaches
\* locations at which its two parties have no membership.
OwnersDriftOnlyByLateWrites ==
  \A l \in DOMAIN locations : locations[l].live =>
    \/ InSync(l)
    \/ \E op \in {"addLocation", "updateRole", "remove", "leave", "deleteAccount"} : <<op, l>> \in late

\* A deleted account has no access and leaves no business nobody can manage
\* (ADR 0018), unless it was given a membership or a business by a request
\* let in before the deletion, or between its check and its writes.
DeletedAccountIsOut ==
  \A u \in deleted :
    \/ RowsOf(u) = {} /\ LiveOwned(u) = {}
    \/ \E op \in {"create", "addLocation", "transfer", "accept", "deleteAccount"} : <<op, u>> \in late

\* An invitation makes somebody a member once: whoever was removed, or has
\* left, does not come back by it, whatever accepts, revokes, resends and
\* expiries are under way.
InvitationUsedOnce == \A i \in Invitation : used[i] <= 1

\* ACCEPTED is on those invitations that made somebody a member, except
\* where a revoke or an expiry was written over it.
InvitationTellsTheTruth ==
  \A i \in DOMAIN invitations :
    \/ invitations[i].status = "ACCEPTED" <=> used[i] > 0
    \/ used[i] > 0 /\ \E op \in {"revoke", "expire"} : <<op, i>> \in late

\* No invitation to a deleted location can be accepted (ADR 0017), unless
\* it was created behind the deletion by a request let in before.
ClosedLocationInvitesNobody ==
  \A i \in DOMAIN invitations :
    IsPending(i) => IsLive(invitations[i].at) \/ <<"invite", i>> \in late

\* Making, demoting and removing an ADMIN is the owner's alone (ADR 0017).
\* An ADMIN's request gets to do it only to a member whose role has changed
\* since it was read, and anybody else's only when they were a manager for
\* the guard and an EMPLOYEE for the rule, which then does not hold them
\* to anything.
OwnerManagesAdmins ==
  [][\A r \in Request : UpdateRole(r) \/ Remove(r) =>
       LET key == <<request[r].who, place(r)>>
       IN  \/ memberships[key] # "ADMIN"
             /\ ~(key \in DOMAIN memberships' /\ memberships'[key] = "ADMIN")
           \/ request[r].as \in {"OWNER", "EMPLOYEE"}
           \/ request[r].was # memberships[key]]_teamVars
=============================================================================
