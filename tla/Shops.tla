-------------------------------- MODULE Shops --------------------------------
(***************************************************************************)
(* The table of shops, which sign-ups of the storefront, requests of       *)
(* salesmen and the office all write, and the sessions that serve them:    *)
(* each is one transaction under READ COMMITTED.                           *)
(***************************************************************************)
EXTENDS Integers, FiniteSets

CONSTANTS
  Mobile, NoMobile, \* phone numbers
  Salesman, NoSalesman,
  MaxShop,          \* the bound of the ids of shops
  Session,          \* the server's sessions, one request each
  Request,          \* the requests that may arrive
  FirstShops        \* the rows there are at first

ShopId == 1 .. MaxShop
NoId == 0

\* Retailer: its number, who it is assigned to, where it signed up, and the
\* retailer request it was made for (which the row does not say).
Shop ==
  [mobile : Mobile \cup {NoMobile}, salesman : Salesman \cup {NoSalesman},
   source : {"OFFICE", "STORE"}, asked : Nat]
NoShop == [source |-> "NONE"]

ASSUME ShopsAssumption ==
  /\ MaxShop \in Nat
  /\ FirstShops \in [ShopId -> Shop \cup {NoShop}]

VARIABLES
  shop,    \* Retailer rows by id
  request, \* the request each session serves
  session  \* how far each session is, and what it has read

Exists(i) == i \in ShopId /\ shop[i] # NoShop
FreeId == {i \in ShopId : ~Exists(i) /\ \A j \in 1 .. i - 1 : Exists(j)}
Carrying(m) == {i \in ShopId : Exists(i) /\ shop[i].mobile = m}

Answers == {"answered", "refused", "failed"}
Serving(s, ops, stage) == request[s].op \in ops /\ session[s].stage = stage

\* A row of the office's: create_retailer.
OpenShop(s) ==
  /\ Serving(s, {"open"}, "arrived")
  /\ \E i \in FreeId :
       shop' = [shop EXCEPT ![i] =
         [mobile |-> request[s].mobile, salesman |-> NoSalesman, source |-> "OFFICE", asked |-> NoId]]
  /\ session' = [session EXCEPT ![s].stage = "answered"]
  /\ UNCHANGED request

\* update_retailer, of the number and of who the shop is assigned to.
EditShop(s) ==
  LET r == request[s] IN
  /\ Serving(s, {"edit"}, "arrived")
  /\ Exists(r.shop)
  /\ shop' = [shop EXCEPT ![r.shop].mobile = r.mobile, ![r.shop].salesman = r.salesman]
  /\ session' = [session EXCEPT ![s].stage = "answered"]
  /\ UNCHANGED request
=============================================================================
