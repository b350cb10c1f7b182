--------------------------- MODULE AccountsProofs ---------------------------
(***************************************************************************)
(* What users rely on, proved of Accounts for every value of its           *)
(* constants: an admin remains, a change of password ends sessions, and a  *)
(* group gives its role; and of the limiter of failed sign-ins, how far it *)
(* can be overshot and when a caller is let in again.                      *)
(***************************************************************************)
EXTENDS Accounts, FiniteSetTheorems, TLAPS

Stage ==
  {"arrived", "checked", "wrong", "half", "acting", "read", "counted"} \cup Answers

\* What a session may hold.
SessionRow == [stage : Stage, me : User \cup {NoUser}, row : Row \cup {NoRow}, admins : Nat]

TypeInv ==
  /\ user \in [User -> Row \cup {NoRow}]
  /\ group \in [Group -> Role \cup {NoRole}]
  /\ token \subseteq Token
  /\ request \in [Session -> Request]
  /\ session \in [Session -> SessionRow]
  /\ outdated \subseteq User
  /\ miscounted \in BOOLEAN

\* A session that acts for a user has found one; one that is to commit has a
\* copy of a user there is, and a count that lets it remove an admin.
SessionInv(s) ==
  /\ session[s].stage \in {"arrived", "checked", "wrong", "half"} => session[s].me = NoUser
  /\ session[s].me # NoUser => user[session[s].me] # NoRow
  /\ session[s].stage = "acting" /\ session[s].me # NoUser => session[s].row # NoRow
  /\ session[s].stage \in {"read", "counted"} =>
       /\ session[s].row \in Row
       /\ request[s].op \in RowOps \cup {"change"}
       /\ user[request[s].user] # NoRow
       /\ request[s].op = "group" /\ request[s].group # NoGroup => group[request[s].group] # NoRole
  /\ session[s].stage = "counted" => session[s].admins > 1

\* No token is of a later version than its user, and those of the user's
\* version started with the user's password.
TokenInv ==
  \A t \in token :
    /\ user[t.user] # NoRow
    /\ t.user \notin outdated =>
         /\ t.version <= user[t.user].version
         /\ t.version = user[t.user].version => t.pw = user[t.user].pw

GroupInv ==
  \A u \in User \ outdated :
    user[u] # NoRow /\ user[u].group # NoGroup =>
      group[user[u].group] # NoRole /\ user[u].role = group[user[u].group]

AdminInv == outdated = {} /\ ~miscounted => ActiveAdmins # {}

IInv ==
  /\ TypeInv
  /\ \A s \in Session : SessionInv(s)
  /\ TokenInv
  /\ GroupInv
  /\ AdminInv

-----------------------------------------------------------------------------
(* Rows and requests.                                                      *)

LEMMA RowIsNoRow ==
  ASSUME NEW r \in Row PROVE r # NoRow
BY DEF Row, NoRow

LEMMA RequestFields ==
  ASSUME NEW r \in PossibleRequest
  PROVE  /\ r.op \in RowOps \cup {"change", "login", "refresh", "create"} => r.user \in User
         /\ r.op = "active" => r.active \in BOOLEAN
         /\ r.op = "role" => r.role \in Role
         /\ r.op = "group" => r.group \in Group \cup {NoGroup}
         /\ r.op \in {"reset", "change"} => r.pw \in Password
         /\ r.op = "create" => /\ r.pw \in Password /\ r.active \in BOOLEAN
                               /\ r.role \in Role \cup {NoRole}
                               /\ r.group \in Group \cup {NoGroup}
                               /\ r.employee \in User \cup {NoUser}
         /\ r.op = "newgroup" => r.group \in Group /\ r.role \in Role
BY DEF PossibleRequest, RowOps

\* The row a handler commits, by column.
LEMMA WrittenRow ==
  ASSUME NEW row \in Row, NEW read \in Row, NEW edited \in Row
  PROVE  /\ Written(row, read, edited) \in Row
         /\ row = read => Written(row, read, edited) = edited
<1> DEFINE w == Written(row, read, edited)
<1>1. /\ DOMAIN row = {"role", "group", "employee", "active", "deleted", "version", "pw"}
      /\ row = [c \in DOMAIN row |-> row[c]]
      /\ edited = [c \in DOMAIN row |-> edited[c]]
  BY DEF Row
<1>2. w = [c \in DOMAIN row |-> IF edited[c] # read[c] THEN edited[c] ELSE row[c]]
  BY DEF Written
<1>3. \A c \in DOMAIN row : w[c] \in {edited[c], row[c]}
  BY <1>2
<1>4. w \in Row
  BY <1>1, <1>2, <1>3 DEF Row
<1>5. row = read => w = edited
  BY <1>1, <1>2
<1> QED  BY <1>4, <1>5

\* What a handler makes of a row: its version and password go together, and
\* the group and the role agree if they did.
LEMMA EditedRow ==
  ASSUME TypeInv,
         NEW r \in PossibleRequest, r.op \in RowOps \cup {"change"},
         r.op = "group" /\ r.group # NoGroup => group[r.group] # NoRole,
         NEW row \in Row
  PROVE  /\ Edited(r, row) \in Row
         /\ Edited(r, row).version >= row.version
         /\ Edited(r, row).version = row.version => Edited(r, row).pw = row.pw
         /\ (row.group # NoGroup => group[row.group] # NoRole /\ row.role = group[row.group]) =>
              (Edited(r, row).group # NoGroup =>
                 /\ group[Edited(r, row).group] # NoRole
                 /\ Edited(r, row).role = group[Edited(r, row).group])
<1> DEFINE e == Edited(r, row)
<1>0. NoRole \notin Role
  BY DEF NoRole, Role
<1>1. RoleGiven(r, row) \in Role
  BY RequestFields DEF RoleGiven, Row, TypeInv
<1>2. Regrouped(r, row) \in Group \cup {NoGroup}
  BY RequestFields DEF Regrouped, Row
<1> DEFINE active == IF r.op = "active" THEN r.active ELSE IF r.op = "delete" THEN FALSE ELSE row.active
           deleted == IF r.op = "delete" THEN TRUE ELSE row.deleted
           pw == IF r.op \in {"reset", "change"} THEN r.pw ELSE row.pw
           version == IF r.op \in {"reset", "change"} THEN row.version + 1 ELSE row.version
<1>3. e = [row EXCEPT !.active = active, !.deleted = deleted, !.role = RoleGiven(r, row),
                      !.group = Regrouped(r, row), !.pw = pw, !.version = version]
  BY Zenon DEF Edited
<1>4. active \in BOOLEAN /\ deleted \in BOOLEAN
  BY RequestFields DEF Row
<1>5. pw \in Password /\ version \in Nat /\ version >= row.version
  BY RequestFields DEF Row
<1>6. version = row.version => pw = row.pw
  BY DEF Row
<1>7. /\ e \in Row
      /\ e.role = RoleGiven(r, row) /\ e.group = Regrouped(r, row)
      /\ e.version >= row.version
      /\ e.version = row.version => e.pw = row.pw
  <2> HIDE DEF e, active, deleted, pw, version
  <2> QED  BY <1>1, <1>2, <1>3, <1>4, <1>5, <1>6 DEF Row
<1>8. ASSUME row.group # NoGroup => group[row.group] # NoRole /\ row.role = group[row.group],
             Regrouped(r, row) # NoGroup
      PROVE  group[Regrouped(r, row)] # NoRole /\ RoleGiven(r, row) = group[Regrouped(r, row)]
  BY <1>8 DEF Regrouped, RoleGiven
<1> QED  BY <1>7, <1>8

\* A request that is no removal leaves an active admin one, and none makes
\* another user of the row.
LEMMA EditedAdmin ==
  ASSUME NEW r \in PossibleRequest, r.op \in RowOps \cup {"change"},
         NEW row \in Row, row.role = "ADMIN", row.active, ~row.deleted, ~Removes(r, row)
  PROVE  /\ Edited(r, row).role = "ADMIN" /\ Edited(r, row).active /\ ~Edited(r, row).deleted
BY RequestFields DEF Edited, Removes, RoleGiven, Row, RowOps

LEMMA AdminsFinite ==
  IsFiniteSet(ActiveAdmins) /\ Cardinality(ActiveAdmins) \in Nat
BY AccountsAssumption, FS_Subset, FS_CardinalityType DEF ActiveAdmins

-----------------------------------------------------------------------------
(* Steps.                                                                  *)

\* A session goes on, and writes no user and no group.
LEMMA QuietStep ==
  ASSUME TypeInv, \A u \in Session : SessionInv(u), GroupInv, AdminInv,
         NEW s \in Session, NEW x \in SessionRow,
         session' = [session EXCEPT ![s] = x],
         UNCHANGED <<user, group, request, outdated, miscounted>>,
         token' \subseteq Token,
         SessionInv(s)', TokenInv'
  PROVE  IInv'
<1>1. TypeInv'
  BY DEF TypeInv
<1>2. ASSUME NEW u \in Session PROVE SessionInv(u)'
  <2>1. CASE u = s
    BY <2>1
  <2>2. CASE u # s
    <3>1. session'[u] = session[u]
      BY <2>2 DEF TypeInv
    <3> QED  BY <3>1 DEF SessionInv
  <2> QED  BY <2>1, <2>2
<1>3. GroupInv' /\ AdminInv'
  BY DEF GroupInv, AdminInv, ActiveAdmins, Exists
<1> QED  BY <1>1, <1>2, <1>3 DEF IInv

\* Where a session ends.
LEMMA EndsFresh ==
  ASSUME TypeInv, NEW s \in Session, NEW a \in Answers, End(s, a)
  PROVE  /\ session' = [session EXCEPT ![s] = [Fresh EXCEPT !.stage = a]]
         /\ [Fresh EXCEPT !.stage = a] \in SessionRow
         /\ SessionInv(s)'
<1>1. [Fresh EXCEPT !.stage = a] \in SessionRow
  BY DEF Fresh, SessionRow, Stage
<1>2. session'[s] = [Fresh EXCEPT !.stage = a]
  BY DEF TypeInv, End
<1>3. session'[s].me = NoUser /\ session'[s].stage = a
  BY <1>2 DEF Fresh
<1>4. SessionInv(s)'
  BY <1>3 DEF SessionInv, Answers
<1> QED  BY <1>1, <1>4 DEF End

LEMMA EndStep ==
  ASSUME IInv, NEW s \in Session, NEW a \in Answers, End(s, a),
         UNCHANGED <<user, group, token, request, outdated, miscounted>>
  PROVE  IInv'
<1>1. TokenInv' /\ token' \subseteq Token
  BY DEF IInv, TokenInv, TypeInv
<1> QED  BY <1>1, EndsFresh, QuietStep DEF IInv

LEMMA AdvanceStep ==
  ASSUME IInv, NEW s \in Session, NEW a \in {"checked", "wrong", "half", "acting"}, Advance(s, a),
         session[s].stage \in {"arrived", "checked", "wrong", "half"},
         UNCHANGED <<user, group, token, request, outdated, miscounted>>
  PROVE  IInv'
<1> DEFINE x == [session[s] EXCEPT !.stage = a]
<1>1. session[s] \in SessionRow
  BY DEF IInv, TypeInv
<1>2. x \in SessionRow /\ x.stage = a /\ x.me = session[s].me
  BY <1>1 DEF SessionRow, Stage
<1>3. session' = [session EXCEPT ![s] = x] /\ session'[s] = x
  BY DEF Advance, IInv, TypeInv
<1>4. x.me = NoUser
  BY <1>2 DEF IInv, SessionInv
<1>5. SessionInv(s)'
  BY <1>2, <1>3, <1>4 DEF SessionInv
<1>6. TokenInv' /\ token' \subseteq Token
  BY DEF IInv, TokenInv, TypeInv
<1> QED  BY <1>2, <1>3, <1>5, <1>6, QuietStep DEF IInv

\* Tokens minted for a user as the row is, with the row's password.
LEMMA MintStep ==
  ASSUME IInv, NEW s \in Session, NEW u \in User, NEW pw \in Password,
         user[u] # NoRow,
         u \notin outdated => pw = user[u].pw,
         token' = token \cup Minted(u, pw), End(s, "answered"),
         UNCHANGED <<user, group, request, outdated, miscounted>>
  PROVE  IInv'
<1>1. user[u] \in Row
  BY DEF IInv, TypeInv
<1>2. \A t \in Minted(u, pw) :
        t \in Token /\ t.user = u /\ t.version = user[u].version /\ t.pw = pw
  BY <1>1 DEF Minted, Token, Row
<1>3. token' \subseteq Token
  BY <1>2 DEF IInv, TypeInv
<1>4. TokenInv'
  <2> SUFFICES ASSUME NEW t \in token'
      PROVE  /\ user[t.user] # NoRow
             /\ t.user \notin outdated =>
                  /\ t.version <= user[t.user].version
                  /\ t.version = user[t.user].version => t.pw = user[t.user].pw
    BY DEF TokenInv
  <2>1. CASE t \in token
    BY <2>1 DEF IInv, TokenInv
  <2>2. CASE t \in Minted(u, pw)
    BY <1>1, <1>2, <2>2 DEF Row
  <2> QED  BY <2>1, <2>2
<1>5. "answered" \in Answers
  BY DEF Answers
<1> QED  BY <1>3, <1>4, <1>5, EndsFresh, QuietStep DEF IInv

LEMMA SignInStep ==
  ASSUME IInv, NEW s \in Session,
         CheckLimits(s) \/ Authenticate(s) \/ RecordAccountFailure(s) \/ RecordAddressFailure(s)
           \/ Refresh(s) \/ RunCreateUser(s) \/ Fail(s)
  PROVE  IInv'
<1> DEFINE r == request[s]
<1>0. /\ r \in PossibleRequest
      /\ {"answered", "refused", "failed"} = Answers
  BY AccountsAssumption DEF IInv, TypeInv, Answers
<1>1. CASE CheckLimits(s)
  BY <1>0, <1>1, EndStep, AdvanceStep DEF CheckLimits, Serving, tables
<1>2. CASE Authenticate(s)
  <2>1. CASE Verified(r.user, r.pw)
    <3>1. r.user \in User
      BY <1>0, <1>2, RequestFields DEF Authenticate, Serving
    <3>2. user[r.user] # NoRow /\ user[r.user] \in Row /\ r.pw = user[r.user].pw
      BY <2>1, <3>1 DEF Verified, Exists, IInv, TypeInv
    <3>3. r.pw \in Password
      BY <3>2 DEF Row
    <3> QED  BY <1>2, <2>1, <3>1, <3>2, <3>3, MintStep DEF Authenticate, tables
  <2>2. CASE ~Verified(r.user, r.pw)
    BY <1>2, <2>2, AdvanceStep DEF Authenticate, Serving, tables
  <2> QED  BY <2>1, <2>2
<1>3. CASE RecordAccountFailure(s)
  BY <1>3, AdvanceStep DEF RecordAccountFailure, Serving, tables
<1>4. CASE RecordAddressFailure(s)
  BY <1>0, <1>4, EndStep DEF RecordAddressFailure, tables
<1>5. CASE Refresh(s)
  <2>1. PICK t \in token :
          /\ Refreshable(t)
          /\ token' = token \cup Minted(t.user, t.pw)
    BY <1>5 DEF Refresh
  <2>2. t.user \in User /\ t.pw \in Password
    BY DEF IInv, TypeInv, Token
  <2>3. user[t.user] # NoRow /\ t.version = user[t.user].version
    BY <2>1 DEF Refreshable, Exists
  <2>4. t.user \notin outdated => t.pw = user[t.user].pw
    BY <2>3 DEF IInv, TokenInv
  <2> QED  BY <1>5, <2>1, <2>2, <2>3, <2>4, MintStep DEF Refresh, tables
<1>6. CASE RunCreateUser(s)
  BY <1>6, AdvanceStep DEF RunCreateUser, Serving, tables
<1>7. CASE Fail(s)
  BY <1>0, <1>7, EndStep DEF Fail, tables
<1> QED  BY <1>1, <1>2, <1>3, <1>4, <1>5, <1>6, <1>7

\* The acting user, the user acted on, and the number of admins are read.
LEMMA ReadStep ==
  ASSUME IInv, NEW s \in Session, Act(s) \/ Read(s) \/ Count(s)
  PROVE  IInv'
<1> DEFINE r == request[s]
<1>0. /\ r \in PossibleRequest /\ session[s] \in SessionRow
      /\ "refused" \in Answers
      /\ TokenInv' /\ token' \subseteq Token
      /\ UNCHANGED <<user, group, token, request, outdated, miscounted>>
  BY AccountsAssumption
  DEF IInv, TypeInv, Answers, TokenInv, Act, Read, Count, tables
<1>1. CASE Act(s)
  <2>1. PICK t \in token :
          /\ MayAsk(t, r)
          /\ session' = [session EXCEPT ![s].stage = "acting", ![s].me = t.user, ![s].row = user[t.user]]
    BY <1>1 DEF Act
  <2> DEFINE x == [session[s] EXCEPT !.stage = "acting", !.me = t.user, !.row = user[t.user]]
  <2>2. t.user \in User /\ user[t.user] # NoRow /\ user[t.user] \in Row
    BY DEF IInv, TypeInv, Token, TokenInv
  <2>3. /\ x \in SessionRow
        /\ x.stage = "acting" /\ x.me = t.user /\ x.row = user[t.user]
    BY <1>0, <2>2 DEF SessionRow, Stage
  <2>4. session' = [session EXCEPT ![s] = x] /\ session'[s] = x
    BY <2>1 DEF IInv, TypeInv
  <2>5. SessionInv(s)'
    BY <1>0, <2>2, <2>3, <2>4 DEF SessionInv
  <2> HIDE DEF x
  <2> QED  BY <1>0, <2>3, <2>4, <2>5, QuietStep DEF IInv
<1>2. CASE Read(s)
  <2> DEFINE copy == IF r.user = session[s].me THEN session[s].row ELSE user[r.user]
             x == [session[s] EXCEPT !.stage = "read", !.row = copy]
  <2>1. CASE End(s, "refused")
    BY <1>0, <2>1, EndStep
  <2>2. CASE ~End(s, "refused")
    <3>1. /\ r.op \in RowOps \cup {"change"} /\ session[s].stage = "acting"
          /\ copy # NoRow
          /\ r.op = "group" /\ r.group # NoGroup => group[r.group] # NoRole
          /\ session' = [session EXCEPT ![s].stage = "read", ![s].row = copy]
      BY <1>2, <2>2 DEF Read, Serving
    <3>2. r.user \in User
      BY <1>0, <3>1, RequestFields
    <3>3. SessionInv(s)
      BY DEF IInv
    <3>4. copy \in Row /\ user[r.user] # NoRow
      BY <1>0, <3>1, <3>2, <3>3, AccountsAssumption DEF IInv, TypeInv, SessionInv, SessionRow
    <3>5. /\ x \in SessionRow
          /\ x.stage = "read" /\ x.me = session[s].me /\ x.row = copy
      BY <1>0, <3>4 DEF SessionRow, Stage
    <3>6. session' = [session EXCEPT ![s] = x] /\ session'[s] = x
      BY <3>1 DEF IInv, TypeInv
    <3>7. SessionInv(s)'
      BY <1>0, <3>1, <3>3, <3>4, <3>5, <3>6 DEF SessionInv
    <3> HIDE DEF x
    <3> QED  BY <1>0, <3>5, <3>6, <3>7, QuietStep DEF IInv
  <2> QED  BY <2>1, <2>2
<1>3. CASE Count(s)
  <2> DEFINE admins == Cardinality(ActiveAdmins)
             x == [session[s] EXCEPT !.stage = "counted", !.admins = admins]
  <2>1. CASE End(s, "refused")
    BY <1>0, <2>1, EndStep
  <2>2. CASE ~End(s, "refused")
    <3>1. /\ session[s].stage = "read" /\ admins > 1
          /\ session' = [session EXCEPT ![s].stage = "counted", ![s].admins = admins]
      BY <1>3, <2>2, AdminsFinite DEF Count, Serving
    <3>2. SessionInv(s)
      BY DEF IInv
    <3>3. /\ x \in SessionRow
          /\ x.stage = "counted" /\ x.me = session[s].me /\ x.row = session[s].row
          /\ x.admins = admins
      BY <1>0, AdminsFinite DEF SessionRow, Stage
    <3>4. session' = [session EXCEPT ![s] = x] /\ session'[s] = x
      BY <3>1 DEF IInv, TypeInv
    <3>5. SessionInv(s)'
      BY <1>0, <3>1, <3>2, <3>3, <3>4 DEF SessionInv
    <3> HIDE DEF x
    <3> QED  BY <1>0, <3>3, <3>4, <3>5, QuietStep DEF IInv
  <2> QED  BY <2>1, <2>2
<1> QED  BY <1>1, <1>2, <1>3

\* What a session that is to commit rests on, and what it makes of the row.
LEMMA CommitFacts ==
  ASSUME IInv, NEW s \in Session, Commit(s)
  PROVE  LET r == request[s] copy == session[s].row IN
         /\ r \in PossibleRequest /\ r.user \in User /\ r.op \in RowOps \cup {"change"}
         /\ copy \in Row /\ user[r.user] \in Row
         /\ Edited(r, copy) \in Row
         /\ r.op = "group" /\ r.group # NoGroup => group[r.group] # NoRole
         /\ user' = [user EXCEPT ![r.user] = Written(user[r.user], copy, Edited(r, copy))]
         /\ Written(user[r.user], copy, Edited(r, copy)) \in Row
         /\ r.user \notin outdated' =>
              user[r.user] = copy /\ Written(user[r.user], copy, Edited(r, copy)) = Edited(r, copy)
         /\ outdated \subseteq outdated' /\ outdated' \subseteq outdated \cup {r.user}
<1> DEFINE r == request[s]
           copy == session[s].row
<1>1. SessionInv(s) /\ TypeInv
  BY DEF IInv
<1>2. /\ session[s].stage \in {"read", "counted"}
      /\ user' = [user EXCEPT ![r.user] = Written(user[r.user], copy, Edited(r, copy))]
      /\ outdated' = IF user[r.user] # copy THEN outdated \cup {r.user} ELSE outdated
  BY DEF Commit, Serving
<1>3. r \in PossibleRequest
  BY <1>1, AccountsAssumption DEF TypeInv
<1>4. /\ copy \in Row /\ r.op \in RowOps \cup {"change"} /\ user[r.user] # NoRow
      /\ r.op = "group" /\ r.group # NoGroup => group[r.group] # NoRole
  BY <1>1, <1>2 DEF SessionInv
<1>5. r.user \in User /\ user[r.user] \in Row
  BY <1>1, <1>3, <1>4, RequestFields DEF TypeInv
<1>6. Edited(r, copy) \in Row
  BY <1>1, <1>3, <1>4, EditedRow
<1>7. /\ Written(user[r.user], copy, Edited(r, copy)) \in Row
      /\ user[r.user] = copy => Written(user[r.user], copy, Edited(r, copy)) = Edited(r, copy)
  BY <1>4, <1>5, <1>6, WrittenRow
<1> QED  BY <1>2, <1>3, <1>4, <1>5, <1>6, <1>7

LEMMA CommitTypes ==
  ASSUME IInv, NEW s \in Session, Commit(s)
  PROVE  TypeInv' /\ \A u \in Session : SessionInv(u)'
<1> DEFINE r == request[s]
           w == Written(user[r.user], session[s].row, Edited(r, session[s].row))
<1>1. /\ r.user \in User /\ w \in Row /\ user' = [user EXCEPT ![r.user] = w]
      /\ outdated' \subseteq outdated \cup {r.user}
  BY CommitFacts
<1>2. /\ TypeInv /\ "answered" \in Answers /\ End(s, "answered")
      /\ miscounted' \in BOOLEAN
      /\ UNCHANGED <<group, token, request>>
  BY DEF IInv, TypeInv, Answers, Commit
<1>3. TypeInv' /\ SessionInv(s)'
  <2>1. SessionInv(s)' /\ session' \in [Session -> SessionRow]
    BY <1>2, EndsFresh DEF TypeInv
  <2> QED  BY <1>1, <1>2, <2>1 DEF TypeInv
<1>4. ASSUME NEW u \in Session, u # s PROVE SessionInv(u)'
  <2>1. session'[u] = session[u]
    BY <1>2, <1>4, EndsFresh DEF TypeInv
  <2>2. \A x : user[x] # NoRow /\ x \in User => user'[x] # NoRow
    BY <1>1, <1>2, RowIsNoRow DEF TypeInv
  <2>3. session[u].me # NoUser => session[u].me \in User
    BY <1>2 DEF TypeInv, SessionRow
  <2>4. session[u].stage \in {"read", "counted"} => request[u].user \in User
    BY <1>2, RequestFields, AccountsAssumption DEF IInv, SessionInv, TypeInv
  <2> QED  BY <1>2, <2>1, <2>2, <2>3, <2>4 DEF IInv, SessionInv
<1> QED  BY <1>3, <1>4

\* The row a request leaves has the password of its version, and its group's
\* role, unless the request rested on a copy that was out of date.
LEMMA CommitTokens ==
  ASSUME IInv, NEW s \in Session, Commit(s)
  PROVE  TokenInv' /\ GroupInv'
<1> DEFINE r == request[s]
           copy == session[s].row
           w == Written(user[r.user], copy, Edited(r, copy))
<1>1. /\ r \in PossibleRequest /\ r.user \in User /\ r.op \in RowOps \cup {"change"}
      /\ copy \in Row /\ w \in Row /\ user' = [user EXCEPT ![r.user] = w]
      /\ r.op = "group" /\ r.group # NoGroup => group[r.group] # NoRole
      /\ r.user \notin outdated' => user[r.user] = copy /\ w = Edited(r, copy)
      /\ outdated \subseteq outdated'
  BY CommitFacts
<1>2. TypeInv /\ UNCHANGED <<group, token>>
  BY DEF IInv, Commit
<1>3. user'[r.user] = w /\ \A u \in User \ {r.user} : user'[u] = user[u]
  BY <1>1, <1>2 DEF TypeInv
<1> HIDE DEF w
<1>4. TokenInv'
  <2> SUFFICES ASSUME NEW t \in token
      PROVE  /\ user'[t.user] # NoRow
             /\ t.user \notin outdated' =>
                  /\ t.version <= user'[t.user].version
                  /\ t.version = user'[t.user].version => t.pw = user'[t.user].pw
    BY <1>2 DEF TokenInv
  <2>1. /\ user[t.user] # NoRow /\ t.user \in User /\ t.version \in Nat
        /\ t.user \notin outdated =>
             /\ t.version <= user[t.user].version
             /\ t.version = user[t.user].version => t.pw = user[t.user].pw
    BY <1>2 DEF IInv, TokenInv, TypeInv, Token
  <2>2. CASE t.user # r.user
    BY <1>1, <1>3, <2>1, <2>2
  <2>3. CASE t.user = r.user
    <3>1. user'[t.user] # NoRow
      BY <1>1, <1>3, <2>3, RowIsNoRow
    <3>2. ASSUME t.user \notin outdated'
          PROVE  /\ t.version <= user'[t.user].version
                 /\ t.version = user'[t.user].version => t.pw = user'[t.user].pw
      <4>1. /\ Edited(r, copy).version >= copy.version
            /\ Edited(r, copy).version = copy.version => Edited(r, copy).pw = copy.pw
            /\ copy.version \in Nat /\ Edited(r, copy).version \in Nat
        BY <1>1, <1>2, EditedRow DEF Row
      <4>2. t.version <= copy.version /\ (t.version = copy.version => t.pw = copy.pw)
        BY <1>1, <2>1, <2>3, <3>2
      <4>3. user'[t.user] = Edited(r, copy)
        BY <1>1, <1>3, <2>3, <3>2
      <4> QED  BY <2>1, <4>1, <4>2, <4>3
    <3> QED  BY <3>1, <3>2
  <2> QED  BY <2>2, <2>3
<1>5. GroupInv'
  <2> SUFFICES ASSUME NEW u \in User, u \notin outdated', user'[u].group # NoGroup, user'[u] # NoRow
      PROVE  group[user'[u].group] # NoRole /\ user'[u].role = group[user'[u].group]
    BY <1>2 DEF GroupInv
  <2>1. user[u] # NoRow /\ user[u].group # NoGroup =>
          group[user[u].group] # NoRole /\ user[u].role = group[user[u].group]
    BY <1>1 DEF IInv, GroupInv
  <2>2. CASE u # r.user
    BY <1>3, <2>1, <2>2
  <2>3. CASE u = r.user
    <3>1. user[u] = copy /\ user'[u] = Edited(r, copy) /\ copy # NoRow
      BY <1>1, <1>3, <2>3, RowIsNoRow
    <3> QED  BY <1>1, <1>2, <2>1, <3>1, EditedRow
  <2> QED  BY <2>2, <2>3
<1> QED  BY <1>4, <1>5

\* A request that does not remove an admin leaves one; one that does has
\* counted another, who is not the user it removes.
LEMMA CommitAdmins ==
  ASSUME IInv, NEW s \in Session, Commit(s)
  PROVE  AdminInv'
<1> DEFINE r == request[s]
           copy == session[s].row
           w == Written(user[r.user], copy, Edited(r, copy))
<1> SUFFICES ASSUME outdated' = {}, ~miscounted'
    PROVE  ActiveAdmins' # {}
  BY DEF AdminInv
<1>1. /\ r \in PossibleRequest /\ r.user \in User /\ r.op \in RowOps \cup {"change"}
      /\ copy \in Row /\ user' = [user EXCEPT ![r.user] = w]
      /\ user[r.user] = copy /\ w = Edited(r, copy) /\ w \in Row
      /\ outdated = {}
  BY CommitFacts
<1>2. TypeInv /\ SessionInv(s) /\ AdminInv
  BY DEF IInv
<1>3. user'[r.user] = w /\ \A u \in User \ {r.user} : user'[u] = user[u]
  BY <1>1, <1>2 DEF TypeInv
<1> HIDE DEF w
<1>4. ActiveAdmins \ {r.user} \subseteq ActiveAdmins'
  BY <1>3 DEF ActiveAdmins, Exists
<1>5. CASE session[s].stage = "counted"
  <2>1. session[s].admins > 1 /\ session[s].admins \in Nat
    BY <1>2, <1>5 DEF SessionInv, TypeInv, SessionRow
  <2>2. Cardinality(ActiveAdmins) = session[s].admins
    BY <1>5 DEF Commit, Serving
  <2>3. /\ IsFiniteSet(ActiveAdmins)
        /\ Cardinality(ActiveAdmins \ {r.user}) >= Cardinality(ActiveAdmins) - 1
        /\ IsFiniteSet(ActiveAdmins \ {r.user})
    <3>1. CASE r.user \in ActiveAdmins
      BY <3>1, AdminsFinite, FS_RemoveElement
    <3>2. CASE r.user \notin ActiveAdmins
      <4>1. ActiveAdmins \ {r.user} = ActiveAdmins
        BY <3>2
      <4> QED  BY <4>1, AdminsFinite
    <3> QED  BY <3>1, <3>2
  <2>4. Cardinality(ActiveAdmins \ {r.user}) # 0
    BY <2>1, <2>2, <2>3
  <2> QED  BY <1>4, <2>3, <2>4, FS_EmptySet
<1>6. CASE session[s].stage # "counted"
  <2>1. ~Removes(r, copy) /\ ~miscounted
    BY <1>6 DEF Commit, Serving
  <2>2. PICK u \in ActiveAdmins : TRUE
    BY <1>1, <1>2, <2>1 DEF AdminInv
  <2>3. CASE u # r.user
    BY <1>4, <2>2, <2>3
  <2>4. CASE u = r.user
    <3>1. copy.role = "ADMIN" /\ copy.active /\ ~copy.deleted
      BY <1>1, <2>2, <2>4 DEF ActiveAdmins
    <3>2. w.role = "ADMIN" /\ w.active /\ ~w.deleted
      BY <1>1, <2>1, <3>1, EditedAdmin
    <3>3. u \in User /\ user'[u] = w /\ w # NoRow
      BY <1>1, <1>3, <2>4, RowIsNoRow
    <3>4. u \in ActiveAdmins'
      BY <3>2, <3>3 DEF ActiveAdmins, Exists
    <3> QED  BY <3>4
  <2> QED  BY <2>3, <2>4
<1> QED  BY <1>5, <1>6

\* A new user has no tokens, and its group's role; it takes no admin's place.
LEMMA CreateStep ==
  ASSUME IInv, NEW s \in Session, Create(s)
  PROVE  IInv'
<1> DEFINE r == request[s]
           e == IF r.employee # NoUser THEN r.employee ELSE r.user
           w == [role |-> NewRole(r), group |-> r.group, employee |-> e, active |-> r.active,
                 deleted |-> FALSE, version |-> 0, pw |-> r.pw]
<1>1. /\ TypeInv /\ r \in PossibleRequest /\ r.op = "create" /\ user[r.user] = NoRow
      /\ RoleAgrees(r, NewRole(r))
      /\ user' = [user EXCEPT ![r.user] = w]
      /\ "answered" \in Answers /\ End(s, "answered")
      /\ UNCHANGED <<group, token, request, outdated, miscounted>>
  BY AccountsAssumption DEF IInv, TypeInv, Create, Serving, Exists, Answers
<1>2. /\ r.user \in User /\ r.pw \in Password /\ r.active \in BOOLEAN
      /\ r.role \in Role \cup {NoRole} /\ r.group \in Group \cup {NoGroup}
      /\ r.employee \in User \cup {NoUser}
  BY <1>1, RequestFields
<1>3. NewRole(r) \in Role
  BY <1>1, <1>2 DEF NewRole, RoleAgrees, TypeInv
<1>4. w \in Row /\ w # NoRow /\ w.group = r.group /\ w.role = NewRole(r)
  BY <1>2, <1>3, RowIsNoRow DEF Row
<1> HIDE DEF w
<1>5. user'[r.user] = w /\ \A u \in User \ {r.user} : user'[u] = user[u]
  BY <1>1, <1>2 DEF TypeInv
<1>6. TypeInv' /\ SessionInv(s)'
  <2>1. SessionInv(s)' /\ session' \in [Session -> SessionRow]
    BY <1>1, EndsFresh DEF TypeInv
  <2> QED  BY <1>1, <1>2, <1>4, <2>1 DEF TypeInv
<1>7. ASSUME NEW u \in Session, u # s PROVE SessionInv(u)'
  <2>1. session'[u] = session[u]
    BY <1>1, <1>7, EndsFresh DEF TypeInv
  <2>2. \A x \in User : user[x] # NoRow => user'[x] # NoRow
    BY <1>1, <1>5
  <2>3. session[u].me # NoUser => session[u].me \in User
    BY <1>1 DEF TypeInv, SessionRow
  <2>4. session[u].stage \in {"read", "counted"} => request[u].user \in User
    BY <1>1, RequestFields, AccountsAssumption DEF IInv, SessionInv, TypeInv
  <2> QED  BY <1>1, <2>1, <2>2, <2>3, <2>4 DEF IInv, SessionInv
<1>8. TokenInv'
  <2>1. \A t \in token : t.user \in User /\ t.user # r.user
    BY <1>1 DEF IInv, TokenInv, TypeInv, Token
  <2> QED  BY <1>1, <1>5, <2>1 DEF IInv, TokenInv
<1>9. GroupInv'
  <2> SUFFICES ASSUME NEW u \in User, u \notin outdated, user'[u] # NoRow, user'[u].group # NoGroup
      PROVE  group[user'[u].group] # NoRole /\ user'[u].role = group[user'[u].group]
    BY <1>1 DEF GroupInv
  <2>1. CASE u = r.user
    BY <1>1, <1>4, <1>5, <2>1 DEF RoleAgrees
  <2>2. CASE u # r.user
    BY <1>5, <2>2 DEF IInv, GroupInv
  <2> QED  BY <2>1, <2>2
<1>10. AdminInv'
  <2>1. ActiveAdmins \subseteq ActiveAdmins'
    BY <1>1, <1>5 DEF ActiveAdmins, Exists
  <2> QED  BY <1>1, <2>1 DEF IInv, AdminInv
<1> QED  BY <1>6, <1>7, <1>8, <1>9, <1>10 DEF IInv

\* Nobody is in a group that there was not.
LEMMA CreateGroupStep ==
  ASSUME IInv, NEW s \in Session, CreateGroup(s)
  PROVE  IInv'
<1> DEFINE r == request[s]
<1>1. /\ TypeInv /\ r.group \in Group /\ r.role \in Role /\ group[r.group] = NoRole
      /\ group' = [group EXCEPT ![r.group] = r.role]
      /\ "answered" \in Answers /\ End(s, "answered")
      /\ UNCHANGED <<user, token, request, outdated, miscounted>>
  BY RequestFields, AccountsAssumption DEF IInv, TypeInv, CreateGroup, Serving, Answers
<1>2. \A g \in Group : group[g] # NoRole => group'[g] = group[g]
  BY <1>1 DEF TypeInv
<1>3. TypeInv' /\ SessionInv(s)'
  <2>1. SessionInv(s)' /\ session' \in [Session -> SessionRow]
    BY <1>1, EndsFresh DEF TypeInv
  <2> QED  BY <1>1, <2>1 DEF TypeInv
<1>4. ASSUME NEW u \in Session, u # s PROVE SessionInv(u)'
  <2>1. session'[u] = session[u]
    BY <1>1, <1>4, EndsFresh DEF TypeInv
  <2>2. request[u] \in PossibleRequest
    BY <1>1, AccountsAssumption DEF TypeInv
  <2>3. request[u].op = "group" /\ request[u].group # NoGroup => request[u].group \in Group
    BY <2>2, RequestFields
  <2> QED  BY <1>1, <1>2, <2>1, <2>3 DEF IInv, SessionInv
<1>5. TokenInv' /\ AdminInv'
  BY <1>1 DEF IInv, TokenInv, AdminInv, ActiveAdmins, Exists
<1>6. GroupInv'
  <2> SUFFICES ASSUME NEW u \in User, u \notin outdated, user[u] # NoRow, user[u].group # NoGroup
      PROVE  group'[user[u].group] # NoRole /\ user[u].role = group'[user[u].group]
    BY <1>1 DEF GroupInv
  <2>1. group[user[u].group] # NoRole /\ user[u].role = group[user[u].group]
    BY DEF IInv, GroupInv
  <2>2. user[u].group \in Group
    BY <1>1 DEF TypeInv, Row
  <2> QED  BY <1>2, <2>1, <2>2
<1> QED  BY <1>3, <1>4, <1>5, <1>6 DEF IInv

LEMMA TickStep ==
  ASSUME IInv, UNCHANGED <<user, group, token, request, session, outdated, miscounted>>
  PROVE  IInv'
<1>1. TypeInv'
  BY DEF IInv, TypeInv
<1>2. \A s \in Session : SessionInv(s)'
  BY DEF IInv, SessionInv
<1>3. TokenInv' /\ GroupInv' /\ AdminInv'
  BY DEF IInv, TokenInv, GroupInv, AdminInv, ActiveAdmins, Exists
<1> QED  BY <1>1, <1>2, <1>3 DEF IInv

-----------------------------------------------------------------------------
(* The theorems.                                                           *)

LEMMA InitIInv == Init => IInv
<1> SUFFICES ASSUME Init PROVE IInv
  OBVIOUS
<1>1. Fresh \in SessionRow
  BY DEF Fresh, SessionRow, Stage
<1>2. TypeInv
  BY <1>1, AccountsAssumption DEF Init, TypeInv
<1>3. \A s \in Session : SessionInv(s)
  BY DEF Init, SessionInv, Fresh
<1>4. TokenInv
  BY FirstRowsAssumption DEF Init, TokenInv
<1>5. GroupInv
  BY FirstRowsAssumption DEF Init, GroupInv
<1>6. AdminInv
  BY FirstRowsAssumption DEF Init, AdminInv, ActiveAdmins, Exists
<1> QED  BY <1>2, <1>3, <1>4, <1>5, <1>6 DEF IInv

LEMMA NextIInv == IInv /\ [Next]_vars => IInv'
<1> SUFFICES ASSUME IInv, [Next]_vars PROVE IInv'
  OBVIOUS
<1>1. CASE UNCHANGED vars
  BY <1>1, TickStep DEF vars, tables
<1>2. CASE Tick
  BY <1>2, TickStep DEF Tick, tables
<1>3. ASSUME NEW s \in Session, Step(s) PROVE IInv'
  <2>1. CASE Commit(s)
    BY <2>1, CommitTypes, CommitTokens, CommitAdmins DEF IInv
  <2>2. CASE Act(s) \/ Read(s) \/ Count(s)
    BY <2>2, ReadStep
  <2>3. CASE Create(s)
    BY <2>3, CreateStep
  <2>4. CASE CreateGroup(s)
    BY <2>4, CreateGroupStep
  <2>5. CASE CheckLimits(s) \/ Authenticate(s) \/ RecordAccountFailure(s)
             \/ RecordAddressFailure(s) \/ Refresh(s) \/ RunCreateUser(s) \/ Fail(s)
    BY <2>5, SignInStep
  <2> QED  BY <1>3, <2>1, <2>2, <2>3, <2>4, <2>5 DEF Step
<1> QED  BY <1>1, <1>2, <1>3 DEF Next

\* The invariant that the three promises are proved from: what a session has
\* read, which tokens are about, and which group gives which role.
THEOREM AccountsInvariant == Spec => []IInv
BY InitIInv, NextIInv, PTL DEF Spec

\* The checks of admin.py suffice as long as no commit rests on a row or on a
\* count that has changed since: an admin remains, for any number of users,
\* requests and sessions.
THEOREM AnAdminRemainsTheorem == Spec => []AnAdminRemains
<1>1. IInv => AnAdminRemains
  BY DEF IInv, AdminInv, AnAdminRemains
<1> QED  BY <1>1, AccountsInvariant, PTL

\* A good token's chain started with the user's present password: refresh and
\* change_password may overlap in any way.
THEOREM PasswordChangeEndsSessionsTheorem == Spec => []PasswordChangeEndsSessions
<1>1. IInv => PasswordChangeEndsSessions
  BY DEF IInv, TypeInv, TokenInv, PasswordChangeEndsSessions
<1> QED  BY <1>1, AccountsInvariant, PTL

\* The role and the group of a user agree, whichever endpoint set them, as
\* long as its commit did not rest on an outdated row.
THEOREM GroupGivesRoleTheorem == Spec => []GroupGivesRole
<1>1. IInv => GroupGivesRole
  BY DEF IInv, GroupInv, GroupGivesRole, Exists
<1> QED  BY <1>1, AccountsInvariant, PTL

-----------------------------------------------------------------------------
(* The limiter of failed sign-ins.  The failures of a key are in the order *)
(* of their times, so that those from a time on are the last ones; each    *)
(* session that has passed the limits writes at most one failure per key.  *)

Failures == Seq(Int)

\* The failures are in order, and none is later than time.
InOrder(failed, time) ==
  /\ \A i, j \in DOMAIN failed : i <= j => failed[i] <= failed[j]
  /\ \A i \in DOMAIN failed : failed[i] <= time

\* The failures later than a time.
Later(failed, time) == {i \in DOMAIN failed : failed[i] > time}

\* A set of indices that holds all those after each of its own is the last ones.
LEMMA LastOnes ==
  ASSUME NEW n \in Nat, NEW U \in SUBSET (1 .. n),
         \A i \in U, j \in 1 .. n : i <= j => j \in U
  PROVE  Cardinality(U) \in 0 .. n /\ U = n - Cardinality(U) + 1 .. n
<1> DEFINE c == Cardinality(U)
           T == n - c + 1 .. n
<1>1. IsFiniteSet(1 .. n) /\ Cardinality(1 .. n) = n
  BY FS_Interval
<1>2. IsFiniteSet(U) /\ c \in Nat /\ c <= n
  BY <1>1, FS_Subset, FS_CardinalityType
<1>3. ASSUME NEW i \in U PROVE i \in T
  <2>1. i .. n \subseteq U
    OBVIOUS
  <2>2. Cardinality(i .. n) = n - i + 1
    BY FS_Interval
  <2>3. Cardinality(i .. n) <= c
    BY <1>2, <2>1, FS_Subset
  <2> QED  BY <1>2, <2>2, <2>3
<1>4. IsFiniteSet(T) /\ Cardinality(T) = c
  <2>1. n - c + 1 \in Int /\ n \in Int
    BY <1>2
  <2>2. /\ IsFiniteSet(T)
        /\ Cardinality(T) = IF n - c + 1 > n THEN 0 ELSE n - (n - c + 1) + 1
    BY <2>1, FS_Interval
  <2> HIDE DEF T, c
  <2> QED  BY <1>2, <2>2
<1>5. U = T
  BY <1>3, <1>4, FS_Subset
<1> QED  BY <1>2, <1>5

\* Of failures in order, those later than a time are the last ones.
LEMMA LaterAreLast ==
  ASSUME NEW f \in Failures, NEW time \in Int, InOrder(f, time), NEW t \in Int
  PROVE  /\ Cardinality(Later(f, t)) \in 0 .. Len(f)
         /\ Later(f, t) = Len(f) - Cardinality(Later(f, t)) + 1 .. Len(f)
<1>1. Len(f) \in Nat /\ DOMAIN f = 1 .. Len(f) /\ \A i \in 1 .. Len(f) : f[i] \in Int
  BY DEF Failures
<1>2. Later(f, t) \in SUBSET (1 .. Len(f))
  BY <1>1 DEF Later
<1>3. ASSUME NEW i \in Later(f, t), NEW j \in 1 .. Len(f), i <= j PROVE j \in Later(f, t)
  BY <1>1, <1>3 DEF Later, InOrder
<1> HIDE DEF Later
<1> QED  BY <1>1, <1>2, <1>3, LastOnes

\* The last c failures of f.
LEMMA LatestOf ==
  ASSUME NEW f \in Failures, NEW c \in 0 .. Len(f)
  PROVE  /\ Latest(f, c) \in Failures /\ Len(Latest(f, c)) = c
         /\ \A i \in 1 .. c : Latest(f, c)[i] = f[Len(f) - c + i]
BY DEF Latest, Failures

\* How many failures count, and which.
LEMMA InWindowOf ==
  ASSUME NEW f \in Failures, NEW time \in Int, InOrder(f, time), NEW t \in Int
  PROVE  /\ Len(InWindow(f, t)) = Cardinality(Later(f, t - Window))
         /\ \A i \in 1 .. Len(InWindow(f, t)) :
              InWindow(f, t)[i] = f[Len(f) - Len(InWindow(f, t)) + i]
<1> DEFINE c == Cardinality(Later(f, t - Window))
<1>1. t - Window \in Int
  BY LimiterAssumption
<1>2. c \in 0 .. Len(f)
  BY <1>1, LaterAreLast
<1>3. InWindow(f, t) = Latest(f, c)
  BY DEF InWindow, Later
<1> HIDE DEF c
<1>4. /\ Len(Latest(f, c)) = c
      /\ \A i \in 1 .. c : Latest(f, c)[i] = f[Len(f) - c + i]
  BY <1>2, LatestOf
<1> QED  BY <1>3, <1>4 DEF c

\* A caller is released at the first moment at which the limit is not reached.
LEMMA ReleasedInTime ==
  ASSUME NEW f \in Failures, NEW time \in Int, InOrder(f, time),
         NEW scope \in DOMAIN Limit, LimitReached(f, scope, time)
  PROVE  /\ ~LimitReached(f, scope, time + RetryAfter(f, scope, time))
         /\ LimitReached(f, scope, time + RetryAfter(f, scope, time) - 1)
<1> DEFINE c == Len(InWindow(f, time))
           l == Limit[scope]
           at == Len(f) - l + 1
           wait == Window - (time - f[at])
<1>1. l \in Nat /\ l >= 1 /\ Window \in Nat /\ Window >= 1
  BY LimiterAssumption
<1>2. Len(f) \in Nat /\ DOMAIN f = 1 .. Len(f) /\ \A i \in 1 .. Len(f) : f[i] \in Int
  BY DEF Failures
<1>3. c = Cardinality(Later(f, time - Window))
  BY InWindowOf
<1>4. c \in 0 .. Len(f) /\ Later(f, time - Window) = Len(f) - c + 1 .. Len(f)
  BY <1>1, <1>3, LaterAreLast
<1>5. l <= c
  BY DEF LimitReached
<1>6. at \in Later(f, time - Window) /\ at \in 1 .. Len(f) /\ f[at] \in Int
  BY <1>1, <1>2, <1>4, <1>5
<1>7. f[at] > time - Window
  BY <1>6 DEF Later
<1>8. wait \in Int /\ wait >= 1
  BY <1>1, <1>6, <1>7
<1>9. RetryAfter(f, scope, time) = wait
  <2>1. c - l + 1 \in 1 .. c
    BY <1>1, <1>4, <1>5
  <2>2. InWindow(f, time)[c - l + 1] = f[Len(f) - c + (c - l + 1)]
    BY <2>1, InWindowOf
  <2>3. Len(f) - c + (c - l + 1) = at
    BY <1>1, <1>2, <1>4
  <2>4. InWindow(f, time)[c - l + 1] = f[at]
    BY <2>2, <2>3
  <2> HIDE DEF at
  <2> QED  BY <1>8, <2>4 DEF RetryAfter
<1>10. ~LimitReached(f, scope, time + wait)
  <2>1. time + wait - Window = f[at] /\ time + wait \in Int
    BY <1>1, <1>6
  <2>2. Len(InWindow(f, time + wait)) = Cardinality(Later(f, f[at]))
    <3> HIDE DEF wait, at
    <3>1. PICK t \in Int : t = time + wait
      BY <2>1
    <3>2. Len(InWindow(f, t)) = Cardinality(Later(f, t - Window))
      BY InWindowOf
    <3>3. t - Window = f[at]
      BY <1>1, <1>6, <1>8, <2>1, <3>1
    <3> QED  BY <3>1, <3>2, <3>3
  <2>3. /\ Cardinality(Later(f, f[at])) \in 0 .. Len(f)
        /\ Later(f, f[at]) = Len(f) - Cardinality(Later(f, f[at])) + 1 .. Len(f)
    BY <1>6, LaterAreLast
  <2>4. at \notin Later(f, f[at])
    BY <1>6 DEF Later
  <2>5. Cardinality(Later(f, f[at])) < l
    BY <1>1, <1>2, <1>6, <2>3, <2>4
  <2> QED  BY <1>1, <2>2, <2>3, <2>5 DEF LimitReached
<1>11. LimitReached(f, scope, time + wait - 1)
  <2>1. time + wait - 1 - Window = f[at] - 1 /\ time + wait - 1 \in Int /\ f[at] - 1 \in Int
    BY <1>1, <1>6
  <2>2. Len(InWindow(f, time + wait - 1)) = Cardinality(Later(f, f[at] - 1))
    <3> HIDE DEF wait, at
    <3>1. PICK t \in Int : t = time + wait - 1
      BY <2>1
    <3>2. Len(InWindow(f, t)) = Cardinality(Later(f, t - Window))
      BY InWindowOf
    <3>3. t - Window = f[at] - 1
      BY <1>1, <1>6, <1>8, <2>1, <3>1
    <3> QED  BY <3>1, <3>2, <3>3
  <2>3. /\ Cardinality(Later(f, f[at] - 1)) \in 0 .. Len(f)
        /\ Later(f, f[at] - 1) = Len(f) - Cardinality(Later(f, f[at] - 1)) + 1 .. Len(f)
    BY <2>1, LaterAreLast
  <2>4. at \in Later(f, f[at] - 1)
    BY <1>2, <1>6 DEF Later
  <2>5. Cardinality(Later(f, f[at] - 1)) >= l
    BY <1>1, <1>2, <1>6, <2>3, <2>4
  <2> QED  BY <1>1, <2>2, <2>3, <2>5 DEF LimitReached
<1> QED  BY <1>9, <1>10, <1>11

\* A purge keeps the failures that count, and their order.
LEMMA PurgedOf ==
  ASSUME NEW g \in Failures, NEW time \in Int, InOrder(g, time)
  PROVE  /\ Purged(g, time) \in Failures /\ InOrder(Purged(g, time), time)
         /\ Len(InWindow(Purged(g, time), time)) = Len(InWindow(g, time))
<1> DEFINE n == Len(g)
           from == time - Window
           old == time - Retention - 1
           c == Cardinality(Later(g, from))
           q == Cardinality(Later(g, old))
           P == Purged(g, time)
<1>1. from \in Int /\ old \in Int /\ old < from
  BY LimiterAssumption
<1>2. n \in Nat /\ DOMAIN g = 1 .. n /\ \A i \in 1 .. n : g[i] \in Int
  BY DEF Failures
<1>3. c \in 0 .. n /\ Later(g, from) = n - c + 1 .. n
  BY <1>1, LaterAreLast
<1>4. q \in 0 .. n /\ Later(g, old) = n - q + 1 .. n
  BY <1>1, LaterAreLast
<1>5. c <= q
  <2>1. Later(g, from) \subseteq Later(g, old)
    BY <1>1, <1>2 DEF Later
  <2>2. IsFiniteSet(Later(g, old))
    BY <1>2, <1>4, FS_Interval
  <2> QED  BY <2>1, <2>2, FS_Subset
<1>6. P = Latest(g, q)
  <2>1. {i \in DOMAIN g : g[i] >= time - Retention} = Later(g, old)
    BY <1>2, LimiterAssumption DEF Later
  <2> QED  BY <2>1 DEF Purged
<1> HIDE DEF c, q, P, from, old
<1>7. P \in Failures /\ Len(P) = q /\ \A i \in 1 .. q : P[i] = g[n - q + i]
  BY <1>4, <1>6, LatestOf
<1>8. DOMAIN P = 1 .. q
  BY <1>7 DEF Failures
<1>9. ASSUME NEW i \in 1 .. q PROVE n - q + i \in 1 .. n /\ P[i] = g[n - q + i] /\ P[i] \in Int
  BY <1>2, <1>4, <1>7
<1>10. InOrder(P, time)
  <2>1. ASSUME NEW i \in 1 .. q, NEW j \in 1 .. q, i <= j PROVE P[i] <= P[j]
    <3>1. n - q + i <= n - q + j
      BY <1>2, <1>4, <2>1
    <3> QED  BY <1>2, <1>9, <3>1 DEF InOrder
  <2>2. ASSUME NEW i \in 1 .. q PROVE P[i] <= time
    BY <1>2, <1>9 DEF InOrder
  <2> QED  BY <1>8, <2>1, <2>2 DEF InOrder
<1>11. Later(P, from) = q - c + 1 .. q
  <2>1. ASSUME NEW i \in 1 .. q PROVE i \in Later(P, from) <=> n - q + i \in Later(g, from)
    BY <1>2, <1>8, <1>9 DEF Later
  <2>2. ASSUME NEW i \in 1 .. q PROVE n - q + i \in Later(g, from) <=> q - c + 1 <= i
    BY <1>2, <1>3, <1>4
  <2>3. \A i \in Later(P, from) : i \in 1 .. q
    BY <1>8 DEF Later
  <2>4. \A i \in q - c + 1 .. q : i \in 1 .. q
    BY <1>3, <1>4, <1>5
  <2>5. ASSUME NEW i \in 1 .. q PROVE i \in q - c + 1 .. q <=> q - c + 1 <= i
    BY <1>3, <1>4
  <2>6. \A i : i \in Later(P, from) <=> i \in q - c + 1 .. q
    BY <2>1, <2>2, <2>3, <2>4, <2>5
  <2> QED  BY <2>6
<1>12. Cardinality(Later(P, from)) = c
  <2>1. q - c + 1 \in Int /\ q \in Int /\ c \in Nat
    BY <1>3, <1>4
  <2>2. Cardinality(q - c + 1 .. q) = IF q - c + 1 > q THEN 0 ELSE q - (q - c + 1) + 1
    BY <2>1, FS_Interval
  <2> QED  BY <1>11, <2>1, <2>2
<1>13. Len(InWindow(P, time)) = Cardinality(Later(P, from))
  BY <1>7, <1>10, InWindowOf DEF from
<1>14. Len(InWindow(g, time)) = c
  BY InWindowOf DEF c, from
<1> QED  BY <1>7, <1>10, <1>12, <1>13, <1>14 DEF P

\* A failure more counts once.
LEMMA AppendedOf ==
  ASSUME NEW f \in Failures, NEW time \in Int, InOrder(f, time)
  PROVE  /\ Append(f, time) \in Failures /\ InOrder(Append(f, time), time)
         /\ Len(InWindow(Append(f, time), time)) = Len(InWindow(f, time)) + 1
<1> DEFINE g == Append(f, time)
           n == Len(f)
           from == time - Window
<1>1. n \in Nat /\ DOMAIN f = 1 .. n /\ \A i \in 1 .. n : f[i] \in Int
  BY DEF Failures
<1>2. /\ g \in Failures /\ Len(g) = n + 1 /\ DOMAIN g = 1 .. n + 1
      /\ g[n + 1] = time /\ \A i \in 1 .. n : g[i] = f[i]
  BY DEF Failures
<1> HIDE DEF g
<1>3. InOrder(g, time)
  <2>1. ASSUME NEW i \in 1 .. n + 1, NEW j \in 1 .. n + 1, i <= j PROVE g[i] <= g[j]
    <3>1. CASE j \in 1 .. n
      <4>1. i \in 1 .. n
        BY <1>1, <2>1, <3>1
      <4> QED  BY <1>1, <1>2, <2>1, <3>1, <4>1 DEF InOrder
    <3>2. CASE j = n + 1 /\ i \in 1 .. n
      BY <1>1, <1>2, <3>2 DEF InOrder
    <3>3. CASE j = n + 1 /\ i = n + 1
      BY <1>2, <3>3
    <3> QED  BY <1>1, <2>1, <3>1, <3>2, <3>3
  <2>2. ASSUME NEW i \in 1 .. n + 1 PROVE g[i] <= time
    <3>1. CASE i \in 1 .. n
      BY <1>1, <1>2, <3>1 DEF InOrder
    <3>2. CASE i = n + 1
      BY <1>2, <3>2
    <3> QED  BY <1>1, <3>1, <3>2
  <2> QED  BY <1>2, <2>1, <2>2 DEF InOrder
<1>4. from \in Int /\ time > from
  BY LimiterAssumption
<1> HIDE DEF from
<1>5. Later(g, from) = Later(f, from) \cup {n + 1} /\ n + 1 \notin Later(f, from)
  BY <1>1, <1>2, <1>4 DEF Later
<1>6. IsFiniteSet(Later(f, from))
  <2>1. IsFiniteSet(1 .. n) /\ Later(f, from) \subseteq 1 .. n
    BY <1>1, FS_Interval DEF Later
  <2> QED  BY <2>1, FS_Subset
<1>7. Cardinality(Later(g, from)) = Cardinality(Later(f, from)) + 1
  BY <1>5, <1>6, FS_AddElement
<1>8. /\ Len(InWindow(g, time)) = Cardinality(Later(g, from))
      /\ Len(InWindow(f, time)) = Cardinality(Later(f, from))
  BY <1>2, <1>3, InWindowOf DEF from
<1> QED  BY <1>2, <1>3, <1>7, <1>8 DEF g

\* As time passes failures stop counting, and none begins to.
LEMMA AgedOf ==
  ASSUME NEW f \in Failures, NEW time \in Int, InOrder(f, time)
  PROVE  /\ InOrder(f, time + 1)
         /\ Len(InWindow(f, time + 1)) \in Nat /\ Len(InWindow(f, time)) \in Nat
         /\ Len(InWindow(f, time + 1)) <= Len(InWindow(f, time))
<1>1. DOMAIN f = 1 .. Len(f) /\ Len(f) \in Nat /\ \A i \in 1 .. Len(f) : f[i] \in Int
  BY DEF Failures
<1>2. InOrder(f, time + 1)
  BY <1>1 DEF InOrder
<1>3. PICK a \in Int : a = time - Window
  BY LimiterAssumption
<1>4. PICK b \in Int : b = time + 1 - Window
  BY LimiterAssumption
<1>5. a <= b
  BY <1>3, <1>4, LimiterAssumption
<1>6. Later(f, b) \subseteq Later(f, a) /\ Later(f, a) \subseteq 1 .. Len(f)
  BY <1>1, <1>5 DEF Later
<1>7. IsFiniteSet(Later(f, a)) /\ IsFiniteSet(Later(f, b))
  <2>1. IsFiniteSet(1 .. Len(f))
    BY <1>1, FS_Interval
  <2> QED  BY <1>6, <2>1, FS_Subset
<1>8. /\ Cardinality(Later(f, b)) \in Nat /\ Cardinality(Later(f, a)) \in Nat
      /\ Cardinality(Later(f, b)) <= Cardinality(Later(f, a))
  BY <1>6, <1>7, FS_Subset, FS_CardinalityType
<1>9. Len(InWindow(f, time)) = Cardinality(Later(f, a))
  BY <1>3, InWindowOf
<1>10. Len(InWindow(f, time + 1)) = Cardinality(Later(f, b))
  <2>1. PICK t \in Int : t = time + 1
    OBVIOUS
  <2>2. Len(InWindow(f, t)) = Cardinality(Later(f, t - Window))
    BY InWindowOf
  <2>3. t - Window = b
    BY <1>4, <2>1, LimiterAssumption
  <2> QED  BY <2>1, <2>2, <2>3
<1> QED  BY <1>2, <1>8, <1>9, <1>10

-----------------------------------------------------------------------------
(* The invariant of the limiter.                                           *)

\* The keys a session has yet to write a failure under.
ToWrite(s) ==
  IF request[s].op # "login" THEN {}
  ELSE IF session[s].stage \in {"checked", "wrong"} THEN KeysOf(request[s])
  ELSE IF session[s].stage = "half" THEN {request[s].from}
  ELSE {}
Writers(k) == {s \in Session : k \in ToWrite(s)}

\* The failures that count and those about to be written.
Room(k) == Limit[ScopeOf(k)] + Cardinality(Session)
WithinRoom(k) == Len(InWindow(failures[k], now)) + Cardinality(Writers(k)) < Room(k)

LimiterInv ==
  /\ failures \in [Key -> Failures] /\ now \in Int
  /\ \A k \in Key : InOrder(failures[k], now)
  /\ \A k \in Key : WithinRoom(k)

\* The limit of a key.
LEMMA LimitType ==
  ASSUME NEW k \in Key
  PROVE  Limit[ScopeOf(k)] \in Nat /\ ScopeOf(k) \in DOMAIN Limit
<1>1. ScopeOf(k) \in {"login_email", "login_ip"}
  BY DEF ScopeOf
<1>2. ScopeOf(k) \in DOMAIN Limit
  BY <1>1, AccountsAssumption
<1> QED  BY <1>2, LimiterAssumption

\* Sets of sessions are finite, and no larger than all sessions.
LEMMA WritersFinite ==
  ASSUME NEW W \in SUBSET Session
  PROVE  IsFiniteSet(W) /\ Cardinality(W) \in Nat /\ Cardinality(W) <= Cardinality(Session)
         /\ Cardinality(Session) \in Nat
BY AccountsAssumption, FS_Subset, FS_CardinalityType

\* The number of failures that count is a number.
LEMMA CountType ==
  ASSUME LimiterInv, NEW k \in Key
  PROVE  Len(InWindow(failures[k], now)) \in Nat
<1>1. failures[k] \in Failures /\ now \in Int /\ InOrder(failures[k], now)
  BY DEF LimiterInv
<1> QED  BY <1>1, AgedOf

\* A step after which no session has more to write, and that writes nothing.
LEMMA QuietForLimiter ==
  ASSUME LimiterInv, UNCHANGED <<failures, now>>, \A k \in Key : Writers(k)' \subseteq Writers(k)
  PROVE  LimiterInv'
<1>1. ASSUME NEW k \in Key PROVE WithinRoom(k)'
  <2>1. Writers(k)' \subseteq Writers(k) /\ Writers(k) \in SUBSET Session
    BY DEF Writers
  <2>2. Cardinality(Writers(k)') <= Cardinality(Writers(k))
    BY <2>1, WritersFinite, FS_Subset
  <2>3. /\ Cardinality(Writers(k)') \in Nat /\ Cardinality(Writers(k)) \in Nat
        /\ Cardinality(Session) \in Nat
    BY <2>1, WritersFinite
  <2>4. Len(InWindow(failures[k], now)) \in Nat /\ Limit[ScopeOf(k)] \in Nat
    BY CountType, LimitType
  <2>5. WithinRoom(k)
    BY DEF LimiterInv
  <2> QED  BY <2>2, <2>3, <2>4, <2>5 DEF WithinRoom, Room
<1> QED  BY <1>1 DEF LimiterInv

\* What one session's step does to who has to write.
LEMMA OthersWrite ==
  ASSUME TypeInv, NEW s \in Session, UNCHANGED request,
         \A u \in Session \ {s} : session'[u] = session[u]
  PROVE  /\ \A k \in Key : Writers(k)' \subseteq Writers(k) \cup {s}
         /\ \A k \in Key : k \notin ToWrite(s)' => Writers(k)' \subseteq Writers(k) \ {s}
         /\ \A k \in Key : s \in Writers(k)' <=> k \in ToWrite(s)'
<1>1. ASSUME NEW u \in Session \ {s} PROVE ToWrite(u)' = ToWrite(u)
  BY DEF ToWrite
<1> QED  BY <1>1 DEF Writers

\* The session of a step that changes one.
LEMMA OneSession ==
  ASSUME TypeInv, NEW s \in Session, NEW x, session' = [session EXCEPT ![s] = x]
  PROVE  session'[s] = x /\ \A u \in Session \ {s} : session'[u] = session[u]
BY DEF TypeInv

\* A session that ends, or goes on with something else than signing in, has no
\* failure to write.
LEMMA Leaves ==
  ASSUME TypeInv, LimiterInv, NEW s \in Session, UNCHANGED <<request, failures, now>>,
         session'[s].stage \notin {"checked", "wrong", "half"},
         \A u \in Session \ {s} : session'[u] = session[u]
  PROVE  LimiterInv'
<1>1. ToWrite(s)' = {}
  BY DEF ToWrite
<1>2. \A k \in Key : Writers(k)' \subseteq Writers(k)
  BY <1>1, OthersWrite
<1> QED  BY <1>2, QuietForLimiter

\* The session of an End.
LEMMA Ends ==
  ASSUME TypeInv, NEW s \in Session, NEW a, End(s, a)
  PROVE  session'[s].stage = a /\ \A u \in Session \ {s} : session'[u] = session[u]
<1>1. session'[s] = [Fresh EXCEPT !.stage = a]
  BY OneSession DEF End
<1>2. \A u \in Session \ {s} : session'[u] = session[u]
  BY OneSession DEF End
<1> QED  BY <1>1, <1>2 DEF Fresh

\* The session of an Advance.
LEMMA Advances ==
  ASSUME TypeInv, NEW s \in Session, NEW a, Advance(s, a)
  PROVE  session'[s].stage = a /\ \A u \in Session \ {s} : session'[u] = session[u]
<1>1. session[s] \in SessionRow
  BY DEF TypeInv
<1>2. session' = [session EXCEPT ![s] = [session[s] EXCEPT !.stage = a]]
  BY DEF Advance, TypeInv
<1>3. session'[s] = [session[s] EXCEPT !.stage = a]
  BY <1>2, OneSession
<1>4. \A u \in Session \ {s} : session'[u] = session[u]
  BY <1>2, OneSession
<1> QED  BY <1>1, <1>3, <1>4 DEF SessionRow

\* The keys of a request to sign in are two.
LEMMA KeysOfLogin ==
  ASSUME TypeInv, NEW s \in Session, request[s].op = "login"
  PROVE  LET r == request[s] IN
         /\ <<r.user, r.from>> \in Key /\ r.from \in Key
         /\ <<r.user, r.from>> # r.from
         /\ KeysOf(r) \subseteq Key
<1>1. request[s] \in Request
  BY DEF TypeInv
<1>2. request[s].user \in User /\ request[s].from \in Address
  BY <1>1, AccountsAssumption DEF PossibleRequest
<1>3. <<request[s].user, request[s].from>> \in User \X Address
  BY <1>2
<1>4. <<request[s].user, request[s].from>> \notin Address
  BY <1>3, AccountsAssumption
<1> QED  BY <1>2, <1>3, <1>4 DEF Key, KeysOf

\* A session that passes the limits finds fewer failures than they allow.
LEMMA CheckedKeeps ==
  ASSUME TypeInv, LimiterInv, NEW s \in Session, CheckLimits(s)
  PROVE  LimiterInv'
<1>0. /\ request[s].op = "login" /\ session[s].stage = "arrived"
      /\ UNCHANGED <<failures, now, request>>
  BY DEF CheckLimits, Serving, tables
<1>1. CASE \E k \in KeysOf(request[s]) : LimitedFor(k)
  <2>1. End(s, "refused")
    BY <1>1 DEF CheckLimits
  <2> QED  BY <1>0, <2>1, Ends, Leaves
<1>2. CASE \A k \in KeysOf(request[s]) : ~LimitedFor(k)
  <2>1. Advance(s, "checked")
    BY <1>2 DEF CheckLimits
  <2>2. session'[s].stage = "checked" /\ \A u \in Session \ {s} : session'[u] = session[u]
    BY <2>1, Advances
  <2>3. ToWrite(s)' = KeysOf(request[s])
    BY <1>0, <2>2 DEF ToWrite
  <2>4. ASSUME NEW k \in Key PROVE WithinRoom(k)'
    <3>1. CASE k \in KeysOf(request[s])
      <4>1. ~(Len(InWindow(failures[k], now)) >= Limit[ScopeOf(k)])
        BY <1>2, <3>1 DEF LimitedFor, LimitReached
      <4>2. Len(InWindow(failures[k], now)) \in Nat /\ Limit[ScopeOf(k)] \in Nat
        BY CountType, LimitType
      <4>3. Writers(k)' \in SUBSET Session
        BY DEF Writers
      <4>4. /\ Cardinality(Writers(k)') \in Nat /\ Cardinality(Session) \in Nat
            /\ Cardinality(Writers(k)') <= Cardinality(Session)
        BY <4>3, WritersFinite
      <4> QED  BY <1>0, <4>1, <4>2, <4>4 DEF WithinRoom, Room
    <3>2. CASE k \notin KeysOf(request[s])
      <4>1. Writers(k)' \subseteq Writers(k) /\ Writers(k) \in SUBSET Session
        BY <1>0, <2>2, <2>3, <3>2, OthersWrite DEF Writers
      <4>2. /\ Cardinality(Writers(k)') <= Cardinality(Writers(k))
            /\ Cardinality(Writers(k)') \in Nat /\ Cardinality(Writers(k)) \in Nat
            /\ Cardinality(Session) \in Nat
        BY <4>1, WritersFinite, FS_Subset
      <4>3. Len(InWindow(failures[k], now)) \in Nat /\ Limit[ScopeOf(k)] \in Nat
        BY CountType, LimitType
      <4>4. WithinRoom(k)
        BY DEF LimiterInv
      <4> QED  BY <1>0, <4>2, <4>3, <4>4 DEF WithinRoom, Room
    <3> QED  BY <3>1, <3>2
  <2> QED  BY <1>0, <2>4 DEF LimiterInv
<1> QED  BY <1>1, <1>2

\* A failure that is written was about to be: it takes its writer's place.
LEMMA WrittenKeeps ==
  ASSUME TypeInv, LimiterInv, NEW s \in Session, NEW key \in Key, key \in ToWrite(s),
         failures' = Recorded(failures, key, now), UNCHANGED <<now, request>>,
         \A u \in Session \ {s} : session'[u] = session[u],
         ToWrite(s)' \subseteq ToWrite(s) \ {key}
  PROVE  LimiterInv'
<1> DEFINE g(k) == IF k = key THEN Append(failures[k], now) ELSE failures[k]
<1>0. DOMAIN failures = Key /\ now \in Int
  BY DEF LimiterInv
<1>1. failures' = [k \in Key |-> Purged(g(k), now)]
  BY <1>0 DEF Recorded
<1>2. ASSUME NEW k \in Key
      PROVE  /\ failures'[k] \in Failures /\ InOrder(failures'[k], now)
             /\ Len(InWindow(failures'[k], now))
                  = Len(InWindow(failures[k], now)) + (IF k = key THEN 1 ELSE 0)
  <2>1. failures[k] \in Failures /\ InOrder(failures[k], now)
    BY DEF LimiterInv
  <2>2. /\ g(k) \in Failures /\ InOrder(g(k), now)
        /\ Len(InWindow(g(k), now))
             = Len(InWindow(failures[k], now)) + (IF k = key THEN 1 ELSE 0)
    <3>1. CASE k = key
      BY <1>0, <2>1, <3>1, AppendedOf
    <3>2. CASE k # key
      <4>1. Len(InWindow(failures[k], now)) \in Nat
        BY CountType
      <4> QED  BY <2>1, <3>2, <4>1
    <3> QED  BY <3>1, <3>2
  <2>3. failures'[k] = Purged(g(k), now)
    BY <1>1
  <2> HIDE DEF g
  <2>4. PICK h \in Failures : h = g(k)
    BY <2>2
  <2>5. /\ Purged(h, now) \in Failures /\ InOrder(Purged(h, now), now)
        /\ Len(InWindow(Purged(h, now), now)) = Len(InWindow(h, now))
    BY <1>0, <2>2, <2>4, PurgedOf
  <2> QED  BY <2>2, <2>3, <2>4, <2>5
<1>3. ASSUME NEW k \in Key PROVE WithinRoom(k)'
  <2>1. Writers(k) \in SUBSET Session /\ Writers(k)' \subseteq Writers(k)
    BY OthersWrite DEF Writers
  <2>2. k = key => s \in Writers(k) /\ Writers(k)' \subseteq Writers(k) \ {s}
    BY OthersWrite DEF Writers
  <2>3. IsFiniteSet(Writers(k)) /\ Cardinality(Writers(k)) \in Nat /\ Cardinality(Session) \in Nat
    BY <2>1, WritersFinite
  <2>4. /\ Cardinality(Writers(k)') \in Nat
        /\ Cardinality(Writers(k)') <= Cardinality(Writers(k))
    BY <2>1, <2>3, WritersFinite, FS_Subset
  <2>5. ASSUME k = key PROVE Cardinality(Writers(k)') <= Cardinality(Writers(k)) - 1
    <3>1. /\ IsFiniteSet(Writers(k) \ {s})
          /\ Cardinality(Writers(k) \ {s}) = Cardinality(Writers(k)) - 1
      BY <2>2, <2>3, <2>5, FS_RemoveElement
    <3>2. Writers(k)' \subseteq Writers(k) \ {s}
      BY <2>2, <2>5
    <3>3. Cardinality(Writers(k)') <= Cardinality(Writers(k) \ {s})
      BY <3>1, <3>2, FS_Subset
    <3> QED  BY <3>1, <3>3
  <2>6. Len(InWindow(failures[k], now)) \in Nat /\ Limit[ScopeOf(k)] \in Nat
    BY CountType, LimitType
  <2>7. WithinRoom(k)
    BY DEF LimiterInv
  <2>8. Len(InWindow(failures'[k], now'))
          = Len(InWindow(failures[k], now)) + (IF k = key THEN 1 ELSE 0)
    BY <1>2
  <2> QED  BY <2>3, <2>4, <2>5, <2>6, <2>7, <2>8 DEF WithinRoom, Room
<1>4. failures' \in [Key -> Failures]
  BY <1>1, <1>2
<1> QED  BY <1>0, <1>2, <1>3, <1>4 DEF LimiterInv

\* A password that is right writes nothing; a wrong one is written twice.
LEMMA SignInKeepsLimiter ==
  ASSUME TypeInv, LimiterInv, NEW s \in Session,
         Authenticate(s) \/ RecordAccountFailure(s) \/ RecordAddressFailure(s)
  PROVE  LimiterInv'
<1> DEFINE r == request[s]
<1>0. request[s].op = "login" /\ UNCHANGED <<now, request>>
  BY DEF Authenticate, RecordAccountFailure, RecordAddressFailure, Serving, tables
<1>1. CASE Authenticate(s)
  <2>1. session[s].stage = "checked" /\ UNCHANGED failures
    BY <1>1 DEF Authenticate, Serving, tables
  <2>2. CASE End(s, "answered")
    BY <1>0, <2>1, <2>2, Ends, Leaves
  <2>3. CASE Advance(s, "wrong")
    <3>1. session'[s].stage = "wrong" /\ \A u \in Session \ {s} : session'[u] = session[u]
      BY <2>3, Advances
    <3>2. ToWrite(s)' = ToWrite(s)
      BY <1>0, <2>1, <3>1 DEF ToWrite
    <3>3. \A k \in Key : Writers(k)' \subseteq Writers(k)
      <4>1. ASSUME NEW u \in Session PROVE ToWrite(u)' = ToWrite(u)
        BY <1>0, <3>1, <3>2 DEF ToWrite
      <4> QED  BY <4>1 DEF Writers
    <3> QED  BY <1>0, <2>1, <3>3, QuietForLimiter
  <2> QED  BY <1>1, <2>2, <2>3 DEF Authenticate
<1>2. CASE RecordAccountFailure(s)
  <2>1. session'[s].stage = "half" /\ \A u \in Session \ {s} : session'[u] = session[u]
    BY <1>2, Advances DEF RecordAccountFailure
  <2>2. session[s].stage = "wrong" /\ failures' = Recorded(failures, <<r.user, r.from>>, now)
    BY <1>2 DEF RecordAccountFailure, Serving
  <2>3. ToWrite(s) = {<<r.user, r.from>>, r.from} /\ ToWrite(s)' = {r.from}
    BY <1>0, <2>1, <2>2 DEF ToWrite, KeysOf
  <2>4. <<r.user, r.from>> \in Key /\ <<r.user, r.from>> # r.from
    BY <1>0, KeysOfLogin
  <2>5. PICK key \in Key : key = <<r.user, r.from>>
    BY <2>4
  <2> QED  BY <1>0, <2>1, <2>2, <2>3, <2>4, <2>5, WrittenKeeps
<1>3. CASE RecordAddressFailure(s)
  <2>1. session'[s].stage = "refused" /\ \A u \in Session \ {s} : session'[u] = session[u]
    BY <1>3, Ends DEF RecordAddressFailure
  <2>2. session[s].stage = "half" /\ failures' = Recorded(failures, r.from, now)
    BY <1>3 DEF RecordAddressFailure, Serving
  <2>3. ToWrite(s) = {r.from} /\ ToWrite(s)' = {}
    BY <1>0, <2>1, <2>2 DEF ToWrite
  <2>4. r.from \in Key
    BY <1>0, KeysOfLogin
  <2> QED  BY <1>0, <2>1, <2>2, <2>3, <2>4, WrittenKeeps
<1> QED  BY <1>1, <1>2, <1>3

\* Every other step of a session leaves the limiter alone.
LEMMA OtherStepsLeave ==
  ASSUME TypeInv, LimiterInv, NEW s \in Session,
         Refresh(s) \/ Act(s) \/ RunCreateUser(s) \/ Read(s) \/ Count(s) \/ Commit(s)
           \/ Create(s) \/ CreateGroup(s) \/ Fail(s)
  PROVE  LimiterInv'
<1>1. UNCHANGED <<failures, now, request>>
  BY DEF Refresh, Act, RunCreateUser, Read, Count, Commit, Create, CreateGroup, Fail, tables
<1>2. session[s] \in SessionRow
  BY DEF TypeInv
<1>3. CASE \E a \in Answers : End(s, a)
  <2>1. PICK a \in Answers : End(s, a)
    BY <1>3
  <2> QED  BY <1>1, <2>1, Ends, Leaves DEF Answers
<1>4. CASE Advance(s, "acting")
  BY <1>1, <1>4, Advances, Leaves
<1>5. ASSUME NEW g \in {"acting", "read", "counted"}, session'[s].stage = g,
             \A u \in Session \ {s} : session'[u] = session[u]
      PROVE  LimiterInv'
  BY <1>1, <1>5, Leaves
<1>6. CASE Act(s)
  <2>1. PICK t \in token :
          session' = [session EXCEPT ![s].stage = "acting", ![s].me = t.user, ![s].row = user[t.user]]
    BY <1>6 DEF Act
  <2>2. session'[s].stage = "acting" /\ \A u \in Session \ {s} : session'[u] = session[u]
    BY <1>2, <2>1 DEF TypeInv, SessionRow
  <2> QED  BY <1>5, <2>2
<1>7. CASE Read(s)
  <2>1. CASE End(s, "refused")
    BY <1>3, <2>1 DEF Answers
  <2>2. CASE ~End(s, "refused")
    <3>1. PICK copy : session' = [session EXCEPT ![s].stage = "read", ![s].row = copy]
      BY <1>7, <2>2 DEF Read
    <3>2. session'[s].stage = "read" /\ \A u \in Session \ {s} : session'[u] = session[u]
      BY <1>2, <3>1 DEF TypeInv, SessionRow
    <3> QED  BY <1>5, <3>2
  <2> QED  BY <2>1, <2>2
<1>8. CASE Count(s)
  <2>1. CASE End(s, "refused")
    BY <1>3, <2>1 DEF Answers
  <2>2. CASE ~End(s, "refused")
    <3>1. session' = [session EXCEPT ![s].stage = "counted", ![s].admins = Cardinality(ActiveAdmins)]
      BY <1>8, <2>2 DEF Count
    <3>2. session'[s].stage = "counted" /\ \A u \in Session \ {s} : session'[u] = session[u]
      BY <1>2, <3>1 DEF TypeInv, SessionRow
    <3> QED  BY <1>5, <3>2
  <2> QED  BY <2>1, <2>2
<1>9. CASE Refresh(s) \/ Commit(s) \/ Create(s) \/ CreateGroup(s) \/ Fail(s)
  BY <1>3, <1>9 DEF Refresh, Commit, Create, CreateGroup, Fail, Answers
<1>10. CASE RunCreateUser(s)
  BY <1>4, <1>10 DEF RunCreateUser
<1> QED  BY <1>6, <1>7, <1>8, <1>9, <1>10

\* The failures there are at first.
LEMMA InitLimiter == Init => LimiterInv
<1> SUFFICES ASSUME Init PROVE LimiterInv
  OBVIOUS
<1>1. failures = FirstFailures /\ now = 0 /\ failures \in [Key -> Failures]
  BY AccountsAssumption DEF Init, Failures
<1>2. \A k \in Key : InOrder(failures[k], now)
  BY <1>1, FirstFailuresAssumption DEF InOrder
<1>3. ASSUME NEW k \in Key PROVE WithinRoom(k)
  <2>1. \A s \in Session : ToWrite(s) = {}
    BY DEF Init, Fresh, ToWrite
  <2>2. Writers(k) = {}
    BY <2>1 DEF Writers
  <2>3. Cardinality(Writers(k)) = 0
    BY <2>2, FS_EmptySet
  <2>4. Len(InWindow(failures[k], now)) \in Nat
    <3>1. failures[k] \in Failures /\ InOrder(failures[k], now) /\ now \in Int
      BY <1>1, <1>2
    <3> QED  BY <3>1, AgedOf
  <2>5. Len(InWindow(failures[k], now)) < Limit[ScopeOf(k)] + Cardinality(Session)
    BY <1>1, FirstFailuresAssumption
  <2> QED  BY <2>3, <2>4, <2>5 DEF WithinRoom, Room
<1> QED  BY <1>1, <1>2, <1>3 DEF LimiterInv

\* Time passes, and no failure counts that did not before.
LEMMA TickKeepsLimiter ==
  ASSUME LimiterInv, Tick
  PROVE  LimiterInv'
<1>1. now' = now + 1 /\ UNCHANGED <<failures, request, session>> /\ now \in Int
  BY DEF Tick, tables, LimiterInv
<1>2. ASSUME NEW k \in Key
      PROVE  /\ InOrder(failures[k], now + 1)
             /\ Len(InWindow(failures[k], now + 1)) \in Nat
             /\ Len(InWindow(failures[k], now)) \in Nat
             /\ Len(InWindow(failures[k], now + 1)) <= Len(InWindow(failures[k], now))
  <2>1. failures[k] \in Failures /\ InOrder(failures[k], now)
    BY DEF LimiterInv
  <2> QED  BY <1>1, <2>1, AgedOf
<1>3. ASSUME NEW k \in Key PROVE WithinRoom(k)'
  <2>1. Writers(k)' = Writers(k)
    BY <1>1 DEF Writers, ToWrite
  <2>2. Writers(k) \in SUBSET Session
    BY DEF Writers
  <2>3. Cardinality(Writers(k)) \in Nat /\ Cardinality(Session) \in Nat
    BY <2>2, WritersFinite
  <2>4. WithinRoom(k) /\ Limit[ScopeOf(k)] \in Nat
    BY LimitType DEF LimiterInv
  <2>5. Len(InWindow(failures'[k], now')) <= Len(InWindow(failures[k], now))
    BY <1>1, <1>2
  <2>6. Len(InWindow(failures'[k], now')) \in Nat /\ Len(InWindow(failures[k], now)) \in Nat
    BY <1>1, <1>2
  <2> QED  BY <2>1, <2>3, <2>4, <2>5, <2>6 DEF WithinRoom, Room
<1> QED  BY <1>1, <1>2, <1>3 DEF LimiterInv

\* Every step keeps the invariant of the limiter.
LEMMA NextLimiter == IInv /\ LimiterInv /\ [Next]_vars => LimiterInv'
<1> SUFFICES ASSUME IInv, LimiterInv, [Next]_vars PROVE LimiterInv'
  OBVIOUS
<1>0. TypeInv
  BY DEF IInv
<1>1. CASE UNCHANGED vars
  <2>1. UNCHANGED <<failures, now, request, session>>
    BY <1>1 DEF vars, tables
  <2>2. \A k \in Key : Writers(k)' = Writers(k)
    BY <2>1 DEF Writers, ToWrite
  <2> QED  BY <2>1, <2>2, QuietForLimiter
<1>2. CASE Tick
  BY <1>2, TickKeepsLimiter
<1>3. ASSUME NEW s \in Session, Step(s) PROVE LimiterInv'
  <2>1. CASE CheckLimits(s)
    BY <1>0, <2>1, CheckedKeeps
  <2>2. CASE Authenticate(s) \/ RecordAccountFailure(s) \/ RecordAddressFailure(s)
    BY <1>0, <2>2, SignInKeepsLimiter
  <2>3. CASE Refresh(s) \/ Act(s) \/ RunCreateUser(s) \/ Read(s) \/ Count(s) \/ Commit(s)
             \/ Create(s) \/ CreateGroup(s) \/ Fail(s)
    BY <1>0, <2>3, OtherStepsLeave
  <2> QED  BY <1>3, <2>1, <2>2, <2>3 DEF Step
<1> QED  BY <1>1, <1>2, <1>3 DEF Next

\* The failures of every key are in order, and those that count are, with
\* those about to be written, fewer than the limit and the sessions together.
THEOREM LimiterInvariant == Spec => []LimiterInv
BY AccountsInvariant, InitLimiter, NextLimiter, PTL DEF Spec

\* check and record_failure are two steps of their own: a limit is exceeded by
\* fewer failures than there are sessions, however their steps interleave.
THEOREM OvershootIsBoundedTheorem == Spec => []OvershootIsBounded
<1>1. LimiterInv => OvershootIsBounded
  <2> SUFFICES ASSUME LimiterInv, NEW k \in Key
               PROVE  Len(InWindow(failures[k], now)) < Limit[ScopeOf(k)] + Cardinality(Session)
    BY DEF OvershootIsBounded
  <2>1. Writers(k) \in SUBSET Session /\ WithinRoom(k)
    BY DEF Writers, LimiterInv
  <2>2. Cardinality(Writers(k)) \in Nat /\ Cardinality(Session) \in Nat
    BY <2>1, WritersFinite
  <2>3. Len(InWindow(failures[k], now)) \in Nat /\ Limit[ScopeOf(k)] \in Nat
    BY CountType, LimitType
  <2> QED  BY <2>1, <2>2, <2>3 DEF WithinRoom, Room
<1> QED  BY <1>1, LimiterInvariant, PTL

\* The Retry-After of check is the first moment at which the caller is let in,
\* for any window and limit, also where the limit has been overshot.
THEOREM ReleaseIsExactTheorem == Spec => []ReleaseIsExact
<1>1. LimiterInv => ReleaseIsExact
  <2> SUFFICES ASSUME LimiterInv, NEW k \in Key, LimitedFor(k)
               PROVE  LET wait == RetryAfter(failures[k], ScopeOf(k), now) IN
                        /\ ~LimitReached(failures[k], ScopeOf(k), now + wait)
                        /\ LimitReached(failures[k], ScopeOf(k), now + wait - 1)
    BY DEF ReleaseIsExact
  <2>1. failures[k] \in Failures /\ InOrder(failures[k], now) /\ now \in Int
    BY DEF LimiterInv
  <2>2. ScopeOf(k) \in DOMAIN Limit /\ LimitReached(failures[k], ScopeOf(k), now)
    BY LimitType DEF LimitedFor
  <2> QED  BY <2>1, <2>2, ReleasedInTime
<1> QED  BY <1>1, LimiterInvariant, PTL
=============================================================================
