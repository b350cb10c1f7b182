----------------------------- MODULE Onboarding -----------------------------
(***************************************************************************)
(* Shopkeepers who sign in with a phone number: their accounts, the shop   *)
(* an account is linked to or signs up, and its delivery addresses         *)
(* (app/services/retailer_onboarding.py, app/routers/store.py).            *)
(*                                                                         *)
(* Signing in reads the account without a lock and writes, on commit, the  *)
(* attribute it changed; the shop form locks the account and reads it      *)
(* afresh; a deleted address is counted first and deleted on commit.       *)
(***************************************************************************)
EXTENDS Shops

CONSTANTS
  MaxAddress,     \* the bound of the ids of addresses
  NoSession,      \* the holder of an account nobody has locked
  FirstUsers,     \* the accounts there are at first
  FirstAddresses  \* and the addresses

AddressId == 1 .. MaxAddress

\* What a deleted address belongs to: its id is not drawn again.
Gone == -1

\* User, of a shopkeeper: retailer_id, is_active and deleted_at as one, and
\* shop_confirmed_at: the id of the shop that was confirmed (which the row
\* does not say), or NoId.
User == [shop : ShopId \cup {NoId}, active : BOOLEAN, confirmed : ShopId \cup {NoId}]
NoUser == [active |-> FALSE]

ASSUME OnboardingAssumption ==
  /\ MaxAddress \in Nat /\ NoSession \notin Session
  /\ FirstUsers \in [Mobile -> User \cup {NoUser}]
  /\ FirstAddresses \in [AddressId -> ShopId \cup {NoId}]

VARIABLES
  user,     \* User rows by phone_number, which is unique
  address,  \* the shop of each RetailerAddress row, or NoId before and Gone after it
  lock,     \* the session that holds an account FOR UPDATE
  outdated, \* accounts linked by a session whose copy was out of date
  uncounted \* shops an address of which was deleted on a count that was out of date

onboarding == <<user, address, lock, outdated, uncounted>>

AddressesOf(i) == {a \in AddressId : address[a] = i}
FreeAddress == {a \in AddressId : address[a] = NoId /\ \A b \in 1 .. a - 1 : address[b] # NoId}

\* onboarding_state.
State(u) ==
  IF u.shop = NoId THEN "new" ELSE IF u.confirmed = NoId THEN "confirm" ELSE "ready"

SignsUp == {"login", "form", "add", "remove"}

Fresh == [stage |-> "arrived", me |-> NoUser, shop |-> NoId, count |-> 0]

End(s, answer) == session' = [session EXCEPT ![s] = [Fresh EXCEPT !.stage = answer]]

-----------------------------------------------------------------------------
(* Signing in: retailer_firebase_login.                                    *)

\* get_or_create_otp_user, of a number that has an account.
FindUser(s) ==
  LET m == request[s].mobile IN
  /\ Serving(s, {"login"}, "arrived")
  /\ session' = [session EXCEPT ![s].stage = IF user[m] = NoUser THEN "unknown" ELSE "known",
                                ![s].me = user[m]]
  /\ UNCHANGED <<shop, request, onboarding>>

\* Of two inserts of one number the second fails, and finds the first.
CreateUser(s) ==
  LET m == request[s].mobile
      new == [shop |-> NoId, active |-> TRUE, confirmed |-> NoId]
  IN
  /\ Serving(s, {"login"}, "unknown")
  /\ user' = IF user[m] = NoUser THEN [user EXCEPT ![m] = new] ELSE user
  /\ session' = [session EXCEPT ![s].stage = "known", ![s].me = user'[m]]
  /\ UNCHANGED <<shop, request, address, lock, outdated, uncounted>>

\* Wrong variant: whatever the account is linked to already.
MatchAnyShop(s) ==
  LET matches == Carrying(request[s].mobile) IN
  /\ Serving(s, {"login"}, "known")
  /\ IF session[s].me.active /\ Cardinality(matches) = 1
     THEN session' = [session EXCEPT ![s].stage = "matched", ![s].shop = CHOOSE i \in matches : TRUE]
     ELSE End(s, "answered")
  /\ UNCHANGED <<shop, request, onboarding>>

\* link_existing_retailer, up to its commit: only a single match is a link.
\* (An account that is disabled is refused before.)
MatchShop(s) ==
  LET me == session[s].me
      matches == Carrying(request[s].mobile)
  IN
  /\ Serving(s, {"login"}, "known")
  /\ IF ~me.active THEN End(s, "refused")
     ELSE IF State(me) = "new" /\ Cardinality(matches) = 1
     THEN session' = [session EXCEPT ![s].stage = "matched", ![s].shop = CHOOSE i \in matches : TRUE]
     ELSE End(s, "answered")
  /\ UNCHANGED <<shop, request, onboarding>>

\* The commit writes retailer_id alone.
LinkShop(s) ==
  LET m == request[s].mobile IN
  /\ Serving(s, {"login"}, "matched")
  /\ lock[m] = NoSession
  /\ user' = [user EXCEPT ![m].shop = session[s].shop]
  /\ outdated' = IF user[m] # session[s].me THEN outdated \cup {m} ELSE outdated
  /\ End(s, "answered")
  /\ UNCHANGED <<shop, request, address, lock, uncounted>>

-----------------------------------------------------------------------------
(* The shop form: complete_shop.                                           *)

\* get_store_user.
Enter(s) ==
  LET m == request[s].mobile IN
  /\ Serving(s, {"form", "add", "remove"}, "arrived")
  /\ user[m] # NoUser
  /\ IF user[m].active
     THEN session' = [session EXCEPT ![s].stage = "entered", ![s].me = user[m]]
     ELSE End(s, "refused")
  /\ UNCHANGED <<shop, request, onboarding>>

\* Wrong variant: the account is locked and not read afresh.
LockUserAsRead(s) ==
  LET m == request[s].mobile IN
  /\ Serving(s, {"form"}, "entered")
  /\ lock[m] = NoSession
  /\ lock' = [lock EXCEPT ![m] = s]
  /\ session' = [session EXCEPT ![s].stage = "locked"]
  /\ UNCHANGED <<shop, request, user, address, outdated, uncounted>>

LockUser(s) ==
  LET m == request[s].mobile IN
  /\ Serving(s, {"form"}, "entered")
  /\ lock[m] = NoSession
  /\ lock' = [lock EXCEPT ![m] = s]
  /\ session' = [session EXCEPT ![s].stage = "locked", ![s].me = user[m]]
  /\ UNCHANGED <<shop, request, user, address, outdated, uncounted>>

\* A first submission without an address is refused.
RefuseForm(s) ==
  /\ Serving(s, {"form"}, "locked")
  /\ State(session[s].me) # "ready" /\ ~request[s].address
  /\ lock' = [lock EXCEPT ![request[s].mobile] = NoSession]
  /\ End(s, "refused")
  /\ UNCHANGED <<shop, request, user, address, outdated, uncounted>>

\* The shop and its first address are signed up together.
SignUp(s) ==
  LET m == request[s].mobile IN
  /\ Serving(s, {"form"}, "locked")
  /\ State(session[s].me) = "new" /\ request[s].address
  /\ \E i \in FreeId, a \in FreeAddress :
       /\ shop' = [shop EXCEPT ![i] =
            [mobile |-> m, salesman |-> NoSalesman, source |-> "STORE", asked |-> NoId]]
       /\ address' = [address EXCEPT ![a] = i]
       /\ user' = [user EXCEPT ![m].shop = i, ![m].confirmed = i]
  /\ lock' = [lock EXCEPT ![m] = NoSession]
  /\ End(s, "answered")
  /\ UNCHANGED <<request, outdated, uncounted>>

\* A linked shop is confirmed; its first address is saved if it has none.  The
\* pin of the shop, which this form overwrites, is in Outlets (SaveOwnShop).
ConfirmShop(s) ==
  LET m == request[s].mobile
      i == session[s].me.shop
  IN
  /\ Serving(s, {"form"}, "locked")
  /\ State(session[s].me) = "confirm" /\ request[s].address
  /\ user' = [user EXCEPT ![m].confirmed = i]
  /\ IF AddressesOf(i) = {}
     THEN \E a \in FreeAddress : address' = [address EXCEPT ![a] = i]
     ELSE UNCHANGED address
  /\ lock' = [lock EXCEPT ![m] = NoSession]
  /\ End(s, "answered")
  /\ UNCHANGED <<shop, request, outdated, uncounted>>

\* Later submissions change the name and the GSTIN.
EditForm(s) ==
  /\ Serving(s, {"form"}, "locked")
  /\ State(session[s].me) = "ready"
  /\ lock' = [lock EXCEPT ![request[s].mobile] = NoSession]
  /\ End(s, "answered")
  /\ UNCHANGED <<shop, request, user, address, outdated, uncounted>>

-----------------------------------------------------------------------------
(* Delivery addresses, for a confirmed shop: get_store_retailer.           *)

AddAddress(s) ==
  /\ Serving(s, {"add"}, "entered")
  /\ State(session[s].me) = "ready"
  /\ \E a \in FreeAddress : address' = [address EXCEPT ![a] = session[s].me.shop]
  /\ End(s, "answered")
  /\ UNCHANGED <<shop, request, user, lock, outdated, uncounted>>

\* Wrong variant: the last address may go.
CountAddressesToNone(s) ==
  LET i == session[s].me.shop IN
  /\ Serving(s, {"remove"}, "entered")
  /\ State(session[s].me) = "ready"
  /\ address[request[s].id] = i
  /\ session' = [session EXCEPT ![s].stage = "counted", ![s].count = Cardinality(AddressesOf(i))]
  /\ UNCHANGED <<shop, request, onboarding>>

\* delete_address, up to its commit.
CountAddresses(s) ==
  LET i == session[s].me.shop
      remaining == Cardinality(AddressesOf(i))
  IN
  /\ Serving(s, {"remove"}, "entered")
  /\ State(session[s].me) = "ready"
  /\ IF address[request[s].id] # i \/ remaining <= 1
     THEN End(s, "refused")
     ELSE session' = [session EXCEPT ![s].stage = "counted", ![s].count = remaining]
  /\ UNCHANGED <<shop, request, onboarding>>

\* (Orders it was the delivery address of keep what they say of it.)
DeleteAddress(s) ==
  LET i == session[s].me.shop IN
  /\ Serving(s, {"remove"}, "counted")
  /\ address' = [address EXCEPT ![request[s].id] = Gone]
  /\ uncounted' = IF Cardinality(AddressesOf(i)) # session[s].count THEN uncounted \cup {i} ELSE uncounted
  /\ End(s, "answered")
  /\ UNCHANGED <<shop, request, user, lock, outdated>>

\* A worker dies, or refuses what it cannot do: nothing is written.
Fail(s) ==
  /\ request[s].op \in SignsUp /\ session[s].stage \notin Answers
  /\ lock' = [m \in Mobile |-> IF lock[m] = s THEN NoSession ELSE lock[m]]
  /\ End(s, "failed")
  /\ UNCHANGED <<shop, request, user, address, outdated, uncounted>>

OnboardingStep(s) ==
  \/ FindUser(s) \/ CreateUser(s) \/ MatchShop(s) \/ LinkShop(s)
  \/ Enter(s) \/ LockUser(s) \/ RefuseForm(s) \/ SignUp(s) \/ ConfirmShop(s) \/ EditForm(s)
  \/ AddAddress(s) \/ CountAddresses(s) \/ DeleteAddress(s)
  \/ Fail(s)

OnboardingInit ==
  /\ user = FirstUsers
  /\ address = FirstAddresses
  /\ lock = [m \in Mobile |-> NoSession]
  /\ outdated = {}
  /\ uncounted = {}

-----------------------------------------------------------------------------
(* What shopkeepers rely on.                                               *)

\* However often a first shop form is sent, also twice at once, it signs up
\* one shop, as complete_shop locks the account before it looks at it: every
\* shop there is of the store is the one that an account has confirmed, and no
\* form has left another behind.
OneShopPerForm ==
  \A i \in ShopId : Exists(i) /\ shop[i].source = "STORE" =>
    \E m \in Mobile : user[m] # NoUser /\ user[m].confirmed = i

\* An account acts for the shop its owner has confirmed, and for no other:
\* unless a sign-in linked the account with a copy from before its form.
ReadyShopWasConfirmed ==
  \A m \in Mobile \ outdated :
    user[m] # NoUser /\ user[m].confirmed # NoId => user[m].shop = user[m].confirmed

\* A confirmed shop keeps an address, whatever is deleted, unless two were
\* deleted at a time (LastAddressError, `A shop must keep at least one`).
ShopKeepsAnAddress ==
  \A m \in Mobile : \A i \in ShopId \ uncounted :
    user[m] # NoUser /\ user[m].confirmed = i => AddressesOf(i) # {}
=============================================================================
