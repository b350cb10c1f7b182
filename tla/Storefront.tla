----------------------------- MODULE Storefront -----------------------------
(***************************************************************************)
(* Shopkeepers, salesmen and the office, who all make shops.               *)
(***************************************************************************)
EXTENDS Onboarding, RetailerRequests

PossibleRequest ==
  [op : {"login", "add"}, mobile : Mobile]
  \cup [op : {"form"}, mobile : Mobile, address : BOOLEAN]
  \cup [op : {"remove"}, mobile : Mobile, id : AddressId]
  \cup [op : {"open"}, mobile : Mobile \cup {NoMobile}]
  \cup [op : {"edit"}, shop : ShopId, mobile : Mobile \cup {NoMobile},
        salesman : Salesman \cup {NoSalesman}]
  \cup [op : {"propose"}, by : Salesman, mobile : Mobile \cup {NoMobile}]
  \cup [op : {"approve", "reject"}, id : AskedId]
  \cup [op : {"withdraw"}, by : Salesman, id : AskedId]
  \cup [op : {"amend"}, by : Salesman, id : AskedId, mobile : Mobile \cup {NoMobile}]

ASSUME RequestAssumption == Request \subseteq PossibleRequest

\* What the rows there are at first agree on: a request with the shop made for
\* it, an account with the shop its owner has confirmed, which has an address,
\* and a shop of the store with the account it was signed up by.
ASSUME FirstRowsAssumption ==
  /\ \A a \in AskedId :
       LET made == {i \in ShopId : FirstShops[i] # NoShop /\ FirstShops[i].asked = a} IN
       IF FirstAsked[a].status = "APPROVED"
       THEN made = {FirstAsked[a].created}
       ELSE made = {} /\ (FirstAsked[a] # NoAsked => FirstAsked[a].created = NoId)
  /\ \A m \in Mobile : FirstUsers[m] # NoUser /\ FirstUsers[m].confirmed # NoId =>
       /\ FirstUsers[m].shop = FirstUsers[m].confirmed
       /\ \E a \in AddressId : FirstAddresses[a] = FirstUsers[m].confirmed
  /\ \A i \in ShopId : FirstShops[i] # NoShop /\ FirstShops[i].source = "STORE" =>
       \E m \in Mobile : FirstUsers[m] # NoUser /\ FirstUsers[m].confirmed = i

vars == <<shop, request, session, onboarding, requests>>

OfficeStep(s) == OpenShop(s) \/ EditShop(s)

Next ==
  \E s \in Session :
    \/ OnboardingStep(s) /\ UNCHANGED requests
    \/ RequestStep(s) /\ UNCHANGED onboarding
    \/ OfficeStep(s) /\ UNCHANGED <<onboarding, requests>>

Init ==
  /\ shop = FirstShops
  /\ request \in [Session -> Request]
  /\ session = [s \in Session |-> Fresh]
  /\ OnboardingInit
  /\ RequestsInit

Spec == Init /\ [][Next]_vars
=============================================================================
