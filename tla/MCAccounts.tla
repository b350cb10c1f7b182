----------------------------- MODULE MCAccounts -----------------------------
(* A small instance of Accounts for TLC.                                   *)
EXTENDS Accounts, TLC

CONSTANTS ann, bob, meg, new, reps, heads, p0, p1, p2, office, road

Person(role, g) ==
  [role |-> role, group |-> g, employee |-> NoUser, active |-> TRUE, deleted |-> FALSE,
   version |-> 0, pw |-> p0]

\* Two admins, and a salesman in a group of salesmen.
MCUsers ==
  ann :> Person("ADMIN", NoGroup) @@ bob :> Person("ADMIN", NoGroup)
  @@ meg :> Person("SALESMAN", reps) @@ new :> NoRow
MCGroups == reps :> "SALESMAN" @@ heads :> NoRole

Issued(u, typ) ==
  [user |-> u, role |-> MCUsers[u].role, version |-> 0, typ |-> typ, pw |-> p0]
MCTokens == {Issued(ann, "access"), Issued(bob, "untyped"), Issued(meg, "access"), Issued(meg, "refresh")}

\* Two failures of meg's at the office, one a moment ago.
MCFailures == [k \in Key |-> IF k \in {<<meg, office>>, office} THEN <<-1, 0>> ELSE <<>>]
MCLimit == "login_email" :> 2 @@ "login_ip" :> 3

Login(u, pw, from) == [op |-> "login", user |-> u, pw |-> pw, from |-> from]

MCRequests ==
  {Login(meg, p0, road), Login(meg, p1, office),
   [op |-> "refresh", user |-> meg],
   [op |-> "change", user |-> meg, old |-> p0, pw |-> p1],
   [op |-> "reset", user |-> meg, pw |-> p2],
   [op |-> "active", user |-> bob, active |-> FALSE],
   [op |-> "active", user |-> bob, active |-> TRUE],
   [op |-> "role", user |-> ann, role |-> "SALESMAN"],
   [op |-> "role", user |-> meg, role |-> "ADMIN"],
   [op |-> "group", user |-> meg, group |-> heads],
   [op |-> "group", user |-> bob, group |-> reps],
   [op |-> "delete", user |-> ann],
   [op |-> "newgroup", group |-> heads, role |-> "ADMIN"],
   [op |-> "create", user |-> new, pw |-> p0, role |-> NoRole, group |-> heads,
    employee |-> NoUser, active |-> TRUE]}

Symmetry == Permutations(Session)
=============================================================================
