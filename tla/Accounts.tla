------------------------------ MODULE Accounts ------------------------------
(***************************************************************************)
(* Users, their tokens and the administration of users, as requests        *)
(* running side by side: each is one session under READ COMMITTED, and no  *)
(* row is locked.  A session reads the acting user, then the user it acts  *)
(* on, then counts the active admins, and commits the attributes that      *)
(* differ from what it read.  Tokens are signed and not stored; one that   *)
(* has expired is one that nobody sends any more.                          *)
(*                                                                         *)
(* A user is named by its email, which is unique, and an employee by its   *)
(* own.  The `pw` of a token is no part of it: it is the password its      *)
(* chain of refreshes was started with.                                    *)
(***************************************************************************)
EXTENDS FailureLimiter, FiniteSets

CONSTANTS
  User, NoUser,       \* emails
  Group, NoGroup,     \* names of groups
  Password,
  Address,            \* addresses of clients, as nginx reports them
  Session,            \* the server's sessions, one request each
  Request,            \* the requests that may arrive
  FirstUsers,         \* the rows of the users there are at first
  FirstGroups,        \* and of the groups
  FirstTokens,        \* and the tokens that were issued
  FirstFailures,      \* and the failed sign-ins of the last minutes
  MaxTime             \* the bound of the clock

Role ==
  {"ADMIN", "SALESMAN", "ACCOUNTANT", "WAREHOUSE_MANAGER", "DRIVER", "RETAILER", "BRAND"}
NoRole == ""

Row ==
  [role : Role, group : Group \cup {NoGroup}, employee : User \cup {NoUser},
   active : BOOLEAN, deleted : BOOLEAN, version : Nat, pw : Password]
NoRow == [deleted |-> TRUE]

Token ==
  [user : User, role : Role, version : Nat, typ : {"access", "refresh", "untyped"},
   pw : Password]

PossibleRequest ==
  [op : {"login"}, user : User, pw : Password, from : Address]
  \cup [op : {"refresh"}, user : User]
  \cup [op : {"change"}, user : User, old : Password, pw : Password]
  \cup [op : {"active"}, user : User, active : BOOLEAN]
  \cup [op : {"role"}, user : User, role : Role]
  \cup [op : {"group"}, user : User, group : Group \cup {NoGroup}]
  \cup [op : {"reset"}, user : User, pw : Password]
  \cup [op : {"delete"}, user : User]
  \cup [op : {"create"}, user : User, pw : Password, role : Role \cup {NoRole},
        group : Group \cup {NoGroup}, employee : User \cup {NoUser}, active : BOOLEAN]
  \cup [op : {"newgroup"}, group : Group, role : Role]

\* The keys failures are counted under: of an account at an address, and of an address.
Key == (User \X Address) \cup Address
ScopeOf(k) == IF k \in Address THEN "login_ip" ELSE "login_email"

ASSUME AccountsAssumption ==
  /\ NoUser \notin User /\ NoGroup \notin Group /\ IsFiniteSet(User)
  /\ Request \subseteq PossibleRequest
  /\ FirstUsers \in [User -> Row \cup {NoRow}]
  /\ FirstGroups \in [Group -> Role \cup {NoRole}]
  /\ FirstTokens \subseteq Token
  /\ FirstFailures \in [Key -> Seq(Int)]
  /\ (User \X Address) \cap Address = {} /\ {"login_email", "login_ip"} \subseteq DOMAIN Limit
  /\ Session # {} /\ IsFiniteSet(Session) /\ MaxTime \in Nat

\* What the rows there are at first agree on: the tokens with the users, the
\* users with their groups, and that somebody administers them.
ASSUME FirstRowsAssumption ==
  /\ \A t \in FirstTokens :
       /\ FirstUsers[t.user] # NoRow
       /\ t.version <= FirstUsers[t.user].version
       /\ t.version = FirstUsers[t.user].version => t.pw = FirstUsers[t.user].pw
  /\ \A u \in User : FirstUsers[u] # NoRow /\ FirstUsers[u].group # NoGroup =>
       /\ FirstGroups[FirstUsers[u].group] # NoRole
       /\ FirstUsers[u].role = FirstGroups[FirstUsers[u].group]
  /\ \E u \in User :
       /\ FirstUsers[u] # NoRow
       /\ FirstUsers[u].role = "ADMIN" /\ FirstUsers[u].active /\ ~FirstUsers[u].deleted

\* Failures are written by a clock that does not go back, and those there are
\* at first by requests like these, side by side.
ASSUME FirstFailuresAssumption ==
  \A k \in Key :
    LET failed == FirstFailures[k] IN
    /\ \A i, j \in DOMAIN failed : i <= j => failed[i] <= failed[j]
    /\ \A i \in DOMAIN failed : failed[i] <= 0
    /\ Len(InWindow(failed, 0)) < Limit[ScopeOf(k)] + Cardinality(Session)

VARIABLES
  user,     \* User rows by email, or NoRow
  group,    \* the role of each Group row, or NoRole
  employee, \* the role of each Employee row, or NoRole
  token,    \* the tokens that were issued
  failures, \* AuthAttempt rows by key
  now,      \* the clock
  request,  \* the request each session serves
  session,  \* how far each session is, and the copies of rows it has read
  outdated, \* users written by a session whose copy of them was out of date
  miscounted \* an admin was removed on a count that was out of date

tables == <<user, group, employee, failures>>
vars == <<tables, token, now, request, session, outdated, miscounted>>

Answers == {"answered", "refused", "failed"}
Fresh == [stage |-> "arrived", me |-> NoUser, row |-> NoRow, admins |-> 0]

-----------------------------------------------------------------------------
(* Operators of the handlers.                                              *)

Exists(u) == user[u] # NoRow
ActiveAdmins == {u \in User : Exists(u) /\ user[u].role = "ADMIN" /\ user[u].active /\ ~user[u].deleted}

\* authenticate_user.
Verified(u, pw) == Exists(u) /\ ~user[u].deleted /\ user[u].active /\ user[u].pw = pw

\* create_tokens, for a session that started with the password pw.
Minted(u, pw) ==
  [user : {u}, role : {user[u].role}, version : {user[u].version}, typ : {"access", "refresh"},
   pw : {pw}]

\* get_current_active_user: who may act with a token.
Accepted(t) ==
  /\ t.typ # "refresh"
  /\ Exists(t.user)
  /\ t.role = user[t.user].role
  /\ t.version = user[t.user].version
  /\ ~user[t.user].deleted /\ user[t.user].active

\* Wrong variant: the token version is not compared.
RefreshableOnceSignedIn(t) ==
  /\ t.typ # "access" /\ Exists(t.user) /\ ~user[t.user].deleted /\ user[t.user].active

\* refresh: which tokens mint a new pair.
Refreshable(t) ==
  /\ t.typ # "access"
  /\ Exists(t.user)
  /\ ~user[t.user].deleted /\ user[t.user].active
  /\ t.version = user[t.user].version

AdminOps == {"active", "role", "group", "reset", "delete", "create", "newgroup"}
RowOps == {"active", "role", "group", "reset", "delete"}

\* require_admin and get_current_active_user.
MayAsk(t, r) ==
  /\ Accepted(t)
  /\ \/ r.op = "change" /\ t.user = r.user
     \/ r.op \in AdminOps /\ user[t.user].role = "ADMIN"

\* The role set_user_role or set_user_group gives.
RoleGiven(r, row) ==
  IF r.op = "role" THEN r.role
  ELSE IF r.op = "group" /\ r.group # NoGroup THEN group[r.group]
  ELSE row.role

\* Wrong variant: set_user_role leaves the group.
RegroupedKept(r, row) == IF r.op = "group" THEN r.group ELSE row.group

\* The group: with set_user_role a group of another role is left.
Regrouped(r, row) ==
  IF r.op = "group" THEN r.group
  ELSE IF r.op = "role" /\ row.group # NoGroup /\ group[row.group] # r.role THEN NoGroup
  ELSE row.group

\* The row as a handler leaves it in its session, column by column.
Edited(r, row) ==
  [row EXCEPT
    !.active = IF r.op = "active" THEN r.active ELSE IF r.op = "delete" THEN FALSE ELSE @,
    !.deleted = IF r.op = "delete" THEN TRUE ELSE @,
    !.role = RoleGiven(r, row),
    !.group = Regrouped(r, row),
    !.pw = IF r.op \in {"reset", "change"} THEN r.pw ELSE @,
    !.version = IF r.op \in {"reset", "change"} THEN @ + 1 ELSE @]

\* An UPDATE names the attributes that differ from those read.
Written(row, read, edited) ==
  [a \in DOMAIN row |-> IF edited[a] # read[a] THEN edited[a] ELSE row[a]]

\* The requests that look at the number of active admins.
Removes(r, row) ==
  /\ row.role = "ADMIN"
  /\ \/ r.op = "active" /\ ~r.active
     \/ r.op \in {"role", "group"} /\ RoleGiven(r, row) # "ADMIN"
     \/ r.op = "delete" /\ row.active

\* What no admin may do to themselves.
Forbidden(r, me, row) ==
  /\ me = r.user
  /\ \/ r.op = "active" /\ ~r.active /\ row.role = "ADMIN"
     \/ r.op \in {"role", "group"} /\ RoleGiven(r, row) # "ADMIN"
     \/ r.op = "delete"

Advance(s, stage) == session' = [session EXCEPT ![s].stage = stage]
End(s, answer) == session' = [session EXCEPT ![s] = [Fresh EXCEPT !.stage = answer]]
Serving(s, ops, stage) == request[s].op \in ops /\ session[s].stage = stage

-----------------------------------------------------------------------------
(* Signing in.                                                             *)

LimitedFor(k) == LimitReached(failures[k], ScopeOf(k), now)
KeysOf(r) == {<<r.user, r.from>>, r.from}

CheckLimits(s) ==
  /\ Serving(s, {"login"}, "arrived")
  /\ IF \E k \in KeysOf(request[s]) : LimitedFor(k) THEN End(s, "refused") ELSE Advance(s, "checked")
  /\ UNCHANGED <<tables, token, now, request, outdated, miscounted>>

Authenticate(s) ==
  LET r == request[s] IN
  /\ Serving(s, {"login"}, "checked")
  /\ IF Verified(r.user, r.pw)
     THEN token' = token \cup Minted(r.user, r.pw) /\ End(s, "answered")
     ELSE UNCHANGED token /\ Advance(s, "wrong")
  /\ UNCHANGED <<tables, now, request, outdated, miscounted>>

RecordAccountFailure(s) ==
  LET r == request[s] IN
  /\ Serving(s, {"login"}, "wrong")
  /\ failures' = Recorded(failures, <<r.user, r.from>>, now)
  /\ Advance(s, "half")
  /\ UNCHANGED <<user, group, employee, token, now, request, outdated, miscounted>>

RecordAddressFailure(s) ==
  /\ Serving(s, {"login"}, "half")
  /\ failures' = Recorded(failures, request[s].from, now)
  /\ End(s, "refused")
  /\ UNCHANGED <<user, group, employee, token, now, request, outdated, miscounted>>

Refresh(s) ==
  /\ Serving(s, {"refresh"}, "arrived")
  /\ \E t \in token :
       /\ t.user = request[s].user
       /\ Refreshable(t)
       /\ token' = token \cup Minted(t.user, t.pw)
  /\ End(s, "answered")
  /\ UNCHANGED <<tables, now, request, outdated, miscounted>>

-----------------------------------------------------------------------------
(* Administration, and a user's own password.                              *)

\* The acting user's row is the first a session reads.
Act(s) ==
  /\ session[s].stage = "arrived"
  /\ \E t \in token :
       /\ MayAsk(t, request[s])
       /\ session' = [session EXCEPT ![s].stage = "acting", ![s].me = t.user, ![s].row = user[t.user]]
  /\ UNCHANGED <<tables, token, now, request, outdated, miscounted>>

\* scripts/create_admin_user.py asks for a user without anybody signed in.
RunCreateUser(s) ==
  /\ Serving(s, {"create"}, "arrived")
  /\ Advance(s, "acting")
  /\ UNCHANGED <<tables, token, now, request, outdated, miscounted>>

\* change_password goes on with the acting user's own row, and so does a
\* request about whoever sends it: the session has that row already.
Read(s) ==
  LET r == request[s]
      copy == IF r.user = session[s].me THEN session[s].row ELSE user[r.user]
  IN
  /\ Serving(s, RowOps \cup {"change"}, "acting")
  /\ IF \/ copy = NoRow \/ copy.deleted
        \/ r.op = "change" /\ copy.pw # r.old
        \/ r.op = "group" /\ r.group # NoGroup /\ group[r.group] = NoRole
        \/ r.op = "reset" /\ r.user = session[s].me /\ copy.role # "ADMIN"
        \/ Forbidden(r, session[s].me, copy)
     THEN End(s, "refused")
     ELSE session' = [session EXCEPT ![s].stage = "read", ![s].row = copy]
  /\ UNCHANGED <<tables, token, now, request, outdated, miscounted>>

\* Wrong variant: the last admin may be removed.
CountToNone(s) ==
  LET admins == Cardinality(ActiveAdmins) IN
  /\ Serving(s, RowOps, "read")
  /\ Removes(request[s], session[s].row)
  /\ session' = [session EXCEPT ![s].stage = "counted", ![s].admins = admins]
  /\ UNCHANGED <<tables, token, now, request, outdated, miscounted>>

Count(s) ==
  LET admins == Cardinality(ActiveAdmins) IN
  /\ Serving(s, RowOps, "read")
  /\ Removes(request[s], session[s].row)
  /\ IF admins <= 1
     THEN End(s, "refused")
     ELSE session' = [session EXCEPT ![s].stage = "counted", ![s].admins = admins]
  /\ UNCHANGED <<tables, token, now, request, outdated, miscounted>>

Commit(s) ==
  LET r == request[s]
      copy == session[s].row
  IN
  /\ \/ Serving(s, RowOps \cup {"change"}, "read") /\ ~Removes(r, copy) /\ UNCHANGED miscounted
     \/ /\ Serving(s, RowOps, "counted")
        /\ miscounted' = (miscounted \/ Cardinality(ActiveAdmins) # session[s].admins)
  /\ user' = [user EXCEPT ![r.user] = Written(@, copy, Edited(r, copy))]
  /\ outdated' = IF user[r.user] # copy THEN outdated \cup {r.user} ELSE outdated
  /\ End(s, "answered")
  /\ UNCHANGED <<group, employee, failures, token, now, request>>

\* The role of a new user: the one named, or the group's.
NewRole(r) ==
  IF r.role # NoRole THEN r.role ELSE IF r.group # NoGroup THEN group[r.group] ELSE NoRole

\* A role is required, and agrees with the group's.
RoleAgrees(r, role) == role # NoRole /\ (r.group # NoGroup => group[r.group] = role)

\* create_user: the role agrees with the employee's too; an employee is made
\* where the email has none.  Of two inserts of one email the second fails.
Create(s) ==
  LET r == request[s]
      role == NewRole(r)
      e == IF r.employee # NoUser THEN r.employee ELSE r.user
  IN
  /\ Serving(s, {"create"}, "acting")
  /\ ~Exists(r.user)
  /\ RoleAgrees(r, role)
  /\ employee[e] = role \/ (employee[e] = NoRole /\ r.employee = NoUser)
  /\ employee' = [employee EXCEPT ![e] = role]
  /\ user' = [user EXCEPT ![r.user] =
       [role |-> role, group |-> r.group, employee |-> e, active |-> r.active,
        deleted |-> FALSE, version |-> 0, pw |-> r.pw]]
  /\ End(s, "answered")
  /\ UNCHANGED <<group, failures, token, now, request, outdated, miscounted>>

CreateGroup(s) ==
  LET r == request[s] IN
  /\ Serving(s, {"newgroup"}, "acting")
  /\ group[r.group] = NoRole
  /\ group' = [group EXCEPT ![r.group] = r.role]
  /\ End(s, "answered")
  /\ UNCHANGED <<user, employee, failures, token, now, request, outdated, miscounted>>

\* A request that cannot go on is refused, and a worker may die: the
\* transaction is rolled back.  Failures already written stay.
Fail(s) ==
  /\ session[s].stage \notin Answers
  /\ End(s, "failed")
  /\ UNCHANGED <<tables, token, now, request, outdated, miscounted>>

-----------------------------------------------------------------------------
Tick ==
  /\ now < MaxTime
  /\ now' = now + 1
  /\ UNCHANGED <<tables, token, request, session, outdated, miscounted>>

Step(s) ==
  \/ CheckLimits(s) \/ Authenticate(s) \/ RecordAccountFailure(s) \/ RecordAddressFailure(s)
  \/ Refresh(s)
  \/ Act(s) \/ RunCreateUser(s) \/ Read(s) \/ Count(s) \/ Commit(s) \/ Create(s) \/ CreateGroup(s)
  \/ Fail(s)

Next ==
  \/ \E s \in Session : Step(s)
  \/ Tick

Init ==
  /\ user = FirstUsers
  /\ group = FirstGroups
  /\ employee = [e \in User |-> IF FirstUsers[e] = NoRow THEN NoRole ELSE FirstUsers[e].role]
  /\ token = FirstTokens
  /\ failures = FirstFailures
  /\ now = 0
  /\ request \in [Session -> Request]
  /\ session = [s \in Session |-> Fresh]
  /\ outdated = {}
  /\ miscounted = FALSE

Spec == Init /\ [][Next]_vars

-----------------------------------------------------------------------------
(* What users rely on.                                                     *)

\* An active admin remains, whatever admins do to each other, as long as no
\* commit rested on a row or a count that had changed since it was read: the
\* checks of set_user_active, set_user_role, set_user_group and
\* soft_delete_user suffice for requests that do not overlap.
AnAdminRemains == outdated = {} /\ ~miscounted => ActiveAdmins # {}

\* A token that is still good belongs to a chain of refreshes that started
\* with the password the user has now: a change or a reset ends every session,
\* also those a sign-in or a refresh is about to continue meanwhile.
PasswordChangeEndsSessions ==
  \A t \in token :
    Exists(t.user) /\ t.user \notin outdated /\ t.version = user[t.user].version =>
      t.pw = user[t.user].pw

\* A user in a group has the group's role, whichever of the two was set last.
GroupGivesRole ==
  \A u \in User \ outdated :
    Exists(u) /\ user[u].group # NoGroup => user[u].role = group[user[u].group]

\* Counting and writing failures are two steps, so that a limit can be
\* exceeded, and by no more than the other sessions there are.
OvershootIsBounded ==
  \A k \in Key : Len(InWindow(failures[k], now)) < Limit[ScopeOf(k)] + Cardinality(Session)

\* A caller who is refused is told the first moment at which they are not,
\* if nobody fails until then; overshoot and purges do not change that.
ReleaseIsExact ==
  \A k \in Key : LimitedFor(k) =>
    LET wait == RetryAfter(failures[k], ScopeOf(k), now) IN
      /\ ~LimitReached(failures[k], ScopeOf(k), now + wait)
      /\ LimitReached(failures[k], ScopeOf(k), now + wait - 1)
=============================================================================
