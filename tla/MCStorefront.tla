---------------------------- MODULE MCStorefront ----------------------------
(* A small instance of Storefront for TLC.                                 *)
EXTENDS Storefront, TLC

CONSTANTS raj, sid, uma, sam, joe

\* Of three numbers raj's has an account and no shop, sid's has a shop that the
\* office made and no account, and uma's has a shop with two addresses, the
\* number of which the office has cleared since.
MCShops ==
  [i \in ShopId |->
     CASE i = 1 -> [mobile |-> sid, salesman |-> sam, source |-> "OFFICE", asked |-> NoId]
       [] i = 2 -> [mobile |-> NoMobile, salesman |-> NoSalesman, source |-> "STORE", asked |-> NoId]
       [] OTHER -> NoShop]
MCUsers ==
  raj :> [shop |-> NoId, active |-> TRUE, confirmed |-> NoId]
  @@ sid :> NoUser
  @@ uma :> [shop |-> 2, active |-> TRUE, confirmed |-> 2]
MCAddresses == [a \in AddressId |-> IF a <= 2 THEN 2 ELSE NoId]

\* A request from when salesmen's requests were queued.
MCAsked ==
  [a \in AskedId |->
     IF a = 1 THEN [by |-> sam, status |-> "PENDING", mobile |-> raj, created |-> NoId] ELSE NoAsked]

Form(m, given) == [op |-> "form", mobile |-> m, address |-> given]
Remove(m, a) == [op |-> "remove", mobile |-> m, id |-> a]

MCRequests ==
  {[op |-> "login", mobile |-> m] : m \in {raj, sid, uma}}
  \cup {Form(raj, TRUE), Form(sid, TRUE), Form(sid, FALSE), Form(uma, FALSE)}
  \cup {[op |-> "add", mobile |-> uma], Remove(uma, 1), Remove(uma, 2)}
  \cup {[op |-> "open", mobile |-> uma],
        [op |-> "edit", shop |-> 1, mobile |-> raj, salesman |-> joe],
        [op |-> "propose", by |-> joe, mobile |-> sid]}
  \cup {[op |-> op, id |-> 1] : op \in {"approve", "reject"}}
  \cup {[op |-> "withdraw", by |-> who, id |-> 1] : who \in {sam, joe}}
  \cup {[op |-> "amend", by |-> sam, id |-> 1, mobile |-> sid]}

Symmetry == Permutations(Session)
=============================================================================
