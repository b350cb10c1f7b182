-------------------------- MODULE StorefrontProofs --------------------------
(***************************************************************************)
(* What shopkeepers and salesmen rely on, proved of Storefront for every   *)
(* value of its constants: a request is decided once, an account acts for  *)
(* the shop its owner confirmed, that shop keeps an address, and the form  *)
(* signs up one shop.                                                      *)
(***************************************************************************)
EXTENDS Storefront, FiniteSetTheorems, TLAPS

Stage ==
  {"arrived", "unknown", "known", "matched", "entered", "locked", "counted", "read"} \cup Answers

\* What a session may hold.
SessionRow ==
  [stage : Stage, me : User \cup {NoUser}, shop : ShopId \cup {NoId}, count : Nat]

TypeInv ==
  /\ shop \in [ShopId -> Shop \cup {NoShop}]
  /\ request \in [Session -> Request]
  /\ session \in [Session -> SessionRow]
  /\ user \in [Mobile -> User \cup {NoUser}]
  /\ address \in [AddressId -> ShopId \cup {NoId, Gone}]
  /\ lock \in [Mobile -> Session \cup {NoSession}]
  /\ asked \in [AskedId -> Asked \cup {NoAsked}]
  /\ copy \in [Session -> Asked \cup {NoAsked}]

\* What a session has read is there still; the account it has locked is as it
\* read it, and the address it has counted is its shop's, or gone.
SessionInv(s) ==
  /\ session[s].stage \in {"known", "matched", "entered", "locked", "counted"} =>
       /\ request[s].op \in SignsUp
       /\ session[s].me \in User
       /\ user[request[s].mobile] # NoUser
  /\ session[s].stage = "matched" => session[s].me.shop = NoId /\ session[s].shop \in ShopId
  /\ session[s].stage = "locked" =>
       lock[request[s].mobile] = s /\ session[s].me = user[request[s].mobile]
  /\ session[s].stage = "counted" =>
       /\ request[s].op = "remove"
       /\ session[s].count > 1
       /\ session[s].me.shop \in ShopId
       /\ address[request[s].id] \in {session[s].me.shop, Gone}
  /\ session[s].stage = "read" =>
       /\ request[s].op \in Decisions
       /\ copy[s] \in Asked /\ copy[s].status = "PENDING"
       /\ asked[request[s].id] # NoAsked

SessionsInv == \A s \in Session : SessionInv(s)

\* No shop is made for a request that is not there.
AskedInv == \A a \in AskedId : asked[a] = NoAsked => MadeFor(a) = {}

IInv ==
  /\ TypeInv
  /\ SessionsInv
  /\ AskedInv
  /\ DecidedOnce
  /\ ReadyShopWasConfirmed
  /\ ShopKeepsAnAddress

-----------------------------------------------------------------------------
(* Rows and requests.                                                      *)

LEMMA NotThere ==
  /\ NoShop \notin Shop /\ NoUser \notin User /\ NoAsked \notin Asked
  /\ NoId \notin ShopId /\ NoId \notin AskedId /\ Gone \notin ShopId /\ NoId # Gone
<1>1. NoShop \notin Shop
  BY DEF NoShop, Shop
<1>2. NoUser \notin User
  BY DEF NoUser, User
<1>3. NoAsked \notin Asked
  BY DEF NoAsked, Asked
<1>4. NoId \notin ShopId /\ NoId \notin AskedId /\ Gone \notin ShopId /\ NoId # Gone
  BY ShopsAssumption, RequestsAssumption DEF ShopId, AskedId, NoId, Gone
<1> QED  BY <1>1, <1>2, <1>3, <1>4

LEMMA RequestFields ==
  ASSUME NEW r \in PossibleRequest
  PROVE  /\ r.op \in SignsUp => r.mobile \in Mobile
         /\ r.op = "form" => r.address \in BOOLEAN
         /\ r.op = "remove" => r.id \in AddressId
         /\ r.op \in {"open", "edit", "propose", "amend"} => r.mobile \in Mobile \cup {NoMobile}
         /\ r.op = "edit" => r.shop \in ShopId /\ r.salesman \in Salesman \cup {NoSalesman}
         /\ r.op = "propose" => r.by \in Salesman
         /\ r.op \in Decisions => r.id \in AskedId
BY DEF PossibleRequest, SignsUp, Decisions

\* The other sessions go on with what they have read.
LEMMA OthersKept ==
  ASSUME TypeInv, SessionsInv, NEW s \in Session,
         \A t \in Session \ {s} : session'[t] = session[t] /\ copy'[t] = copy[t],
         request' = request,
         \A m \in Mobile : user[m] # NoUser => user'[m] # NoUser,
         \A m \in Mobile : lock[m] \notin {s, NoSession} => lock'[m] = lock[m] /\ user'[m] = user[m],
         \A a \in AddressId : address[a] # NoId => address'[a] \in {address[a], Gone},
         \A a \in AskedId : asked[a] # NoAsked => asked'[a] # NoAsked
  PROVE  \A t \in Session \ {s} : SessionInv(t)'
<1> SUFFICES ASSUME NEW t \in Session, t # s PROVE SessionInv(t)'
  OBVIOUS
<1>1. SessionInv(t) /\ session'[t] = session[t] /\ copy'[t] = copy[t] /\ request'[t] = request[t]
  BY DEF SessionsInv
<1>2. /\ request[t] \in PossibleRequest
      /\ request[t].op \in SignsUp => request[t].mobile \in Mobile
      /\ request[t].op = "remove" => request[t].id \in AddressId
      /\ request[t].op \in Decisions => request[t].id \in AskedId
  BY RequestAssumption, RequestFields DEF TypeInv
<1>3. t # NoSession
  BY OnboardingAssumption
<1> QED  BY <1>1, <1>2, <1>3, NotThere DEF SessionInv

\* Where a session ends, and where it goes on.
LEMMA Ended ==
  ASSUME TypeInv, NEW s \in Session, NEW a \in Answers, End(s, a)
  PROVE  /\ session' \in [Session -> SessionRow]
         /\ SessionInv(s)'
         /\ \A t \in Session \ {s} : session'[t] = session[t]
<1>1. [Fresh EXCEPT !.stage = a] \in SessionRow
  BY DEF Fresh, SessionRow, Stage
<1>2. session'[s].stage = a
  BY DEF TypeInv, End, Fresh
<1>3. SessionInv(s)'
  BY <1>2 DEF SessionInv, Answers
<1> QED  BY <1>1, <1>3 DEF End, TypeInv

LEMMA Answered ==
  ASSUME TypeInv, NEW s \in Session, NEW a \in Answers,
         session' = [session EXCEPT ![s].stage = a]
  PROVE  /\ session' \in [Session -> SessionRow]
         /\ SessionInv(s)'
         /\ \A t \in Session \ {s} : session'[t] = session[t]
<1>1. [session[s] EXCEPT !.stage = a] \in SessionRow /\ [session[s] EXCEPT !.stage = a].stage = a
  BY DEF TypeInv, SessionRow, Stage
<1>2. session' = [session EXCEPT ![s] = [session[s] EXCEPT !.stage = a]]
  OBVIOUS
<1>3. session'[s].stage = a
  BY <1>1, <1>2 DEF TypeInv
<1>4. SessionInv(s)'
  BY <1>3 DEF SessionInv, Answers
<1> QED  BY <1>1, <1>2, <1>4 DEF TypeInv

\* A step that writes no table: the account locks and the sessions alone.
LEMMA QuietStep ==
  ASSUME IInv, NEW s \in Session,
         session' \in [Session -> SessionRow],
         \A t \in Session \ {s} : session'[t] = session[t],
         lock' \in [Mobile -> Session \cup {NoSession}],
         \A m \in Mobile : lock[m] \notin {s, NoSession} => lock'[m] = lock[m],
         UNCHANGED <<shop, request, user, address, asked, copy, outdated, uncounted, lapsed>>,
         SessionInv(s)'
  PROVE  IInv'
<1>1. TypeInv'
  BY DEF IInv, TypeInv
<1>2. \A t \in Session \ {s} : SessionInv(t)'
  BY OthersKept DEF IInv
<1>3. SessionsInv'
  BY <1>2 DEF SessionsInv
<1>4. AskedInv' /\ DecidedOnce' /\ ReadyShopWasConfirmed' /\ ShopKeepsAnAddress'
  BY DEF IInv, AskedInv, DecidedOnce, MadeFor, Exists, ReadyShopWasConfirmed, ShopKeepsAnAddress,
         AddressesOf
<1> QED  BY <1>1, <1>3, <1>4 DEF IInv

-----------------------------------------------------------------------------
(* Signing in, the shop form and addresses.                                *)

\* What is known of the request of a session that signs up.
LEMMA Serves ==
  ASSUME IInv, NEW s \in Session
  PROVE  /\ TypeInv /\ SessionInv(s) /\ session[s] \in SessionRow
         /\ request[s] \in PossibleRequest
         /\ request[s].op \in SignsUp =>
              /\ request[s].mobile \in Mobile
              /\ user[request[s].mobile] \in User \cup {NoUser}
         /\ "answered" \in Answers /\ "refused" \in Answers /\ "failed" \in Answers
         /\ s # NoSession
BY RequestAssumption, RequestFields, OnboardingAssumption
DEF IInv, SessionsInv, TypeInv, Answers

LEMMA SessionSteps ==
  ASSUME IInv, NEW s \in Session,
         FindUser(s) \/ MatchShop(s) \/ Enter(s) \/ LockUser(s) \/ RefuseForm(s) \/ EditForm(s)
           \/ CountAddresses(s) \/ Fail(s),
         UNCHANGED requests
  PROVE  IInv'
<1> DEFINE r == request[s]
           m == request[s].mobile
<1>0. /\ TypeInv /\ SessionInv(s) /\ session[s] \in SessionRow
      /\ r \in PossibleRequest
      /\ r.op \in SignsUp => m \in Mobile /\ user[m] \in User \cup {NoUser}
      /\ "answered" \in Answers /\ "refused" \in Answers /\ "failed" \in Answers
      /\ s # NoSession
  BY Serves
<1>1. CASE End(s, "answered") \/ End(s, "refused") \/ End(s, "failed")
  <2>1. /\ session' \in [Session -> SessionRow]
        /\ SessionInv(s)'
        /\ \A t \in Session \ {s} : session'[t] = session[t]
    BY <1>0, <1>1, Ended
  <2>2. /\ lock' \in [Mobile -> Session \cup {NoSession}]
        /\ \A n \in Mobile : lock[n] \notin {s, NoSession} => lock'[n] = lock[n]
    <3>1. CASE RefuseForm(s) \/ EditForm(s)
      <4>1. lock[m] = s /\ lock' = [lock EXCEPT ![m] = NoSession]
        BY <1>0, <3>1 DEF RefuseForm, EditForm, Serving, SessionInv
      <4> QED  BY <1>0, <4>1 DEF TypeInv
    <3>2. CASE Fail(s)
      BY <1>0, <3>2 DEF Fail, TypeInv
    <3>3. CASE LockUser(s)
      <4>1. lock[m] = NoSession /\ lock' = [lock EXCEPT ![m] = s] /\ m \in Mobile
        BY <1>0, <3>3 DEF LockUser, Serving, SignsUp
      <4> QED  BY <1>0, <4>1 DEF TypeInv
    <3>4. CASE FindUser(s) \/ MatchShop(s) \/ Enter(s) \/ CountAddresses(s)
      BY <1>0, <3>4 DEF FindUser, MatchShop, Enter, CountAddresses, onboarding, TypeInv
    <3> QED  BY <3>1, <3>2, <3>3, <3>4
  <2>3. UNCHANGED <<shop, request, user, address, asked, copy, outdated, uncounted, lapsed>>
    BY DEF FindUser, MatchShop, Enter, LockUser, RefuseForm, EditForm, CountAddresses, Fail,
           onboarding, requests
  <2> QED  BY <2>1, <2>2, <2>3, QuietStep
<1>2. CASE ~(End(s, "answered") \/ End(s, "refused") \/ End(s, "failed"))
  <2>1. /\ UNCHANGED <<shop, request, user, address, asked, copy, outdated, uncounted, lapsed>>
        /\ ~RefuseForm(s) /\ ~EditForm(s) /\ ~Fail(s)
    BY <1>2 DEF FindUser, MatchShop, Enter, LockUser, RefuseForm, EditForm, CountAddresses, Fail,
           onboarding, requests
  <2>2. SUFFICES ASSUME NEW x \in SessionRow, session' = [session EXCEPT ![s] = x],
                        session'[s] = x => SessionInv(s)',
                        \/ lock' = lock
                        \/ lock[m] = NoSession /\ lock' = [lock EXCEPT ![m] = s]
                 PROVE  IInv'
    <3>1. CASE FindUser(s)
      <4> DEFINE x == [session[s] EXCEPT
                         !.stage = IF user[m] = NoUser THEN "unknown" ELSE "known", !.me = user[m]]
      <4>1. /\ r.op = "login" /\ UNCHANGED lock
            /\ session' = [session EXCEPT ![s] = x]
        BY <3>1 DEF FindUser, Serving, onboarding
      <4>2. /\ x \in SessionRow /\ x.me = user[m]
            /\ x.stage = IF user[m] = NoUser THEN "unknown" ELSE "known"
        BY <1>0, <4>1 DEF SessionRow, Stage, SignsUp
      <4> HIDE DEF x
      <4>3. session'[s] = x => SessionInv(s)'
        BY <1>0, <2>1, <4>1, <4>2 DEF SessionInv, SignsUp
      <4> QED  BY <4>1, <4>2, <4>3
    <3>2. CASE MatchShop(s)
      <4> DEFINE matches == Carrying(m)
                 x == [session[s] EXCEPT !.stage = "matched", !.shop = CHOOSE i \in matches : TRUE]
      <4>1. /\ session[s].stage = "known" /\ State(session[s].me) = "new" /\ UNCHANGED lock
            /\ Cardinality(matches) = 1
            /\ session' = [session EXCEPT ![s] = x]
        BY <1>2, <3>2 DEF MatchShop, Serving, onboarding
      <4>2. matches # {} /\ matches \subseteq ShopId
        <5>1. matches \subseteq ShopId
          BY DEF Carrying
        <5>2. ASSUME matches = {} PROVE FALSE
          BY <4>1, <5>2, FS_EmptySet
        <5> QED  BY <5>1, <5>2
      <4>3. /\ x \in SessionRow /\ x.me = session[s].me
            /\ x.stage = "matched" /\ x.shop \in ShopId
        BY <1>0, <4>2 DEF SessionRow, Stage
      <4> HIDE DEF x
      <4>4. session'[s] = x => SessionInv(s)'
        BY <1>0, <2>1, <4>1, <4>3 DEF SessionInv, State
      <4> QED  BY <4>1, <4>3, <4>4
    <3>3. CASE Enter(s)
      <4> DEFINE x == [session[s] EXCEPT !.stage = "entered", !.me = user[m]]
      <4>1. /\ r.op \in {"form", "add", "remove"} /\ user[m] # NoUser /\ UNCHANGED lock
            /\ session' = [session EXCEPT ![s] = x]
        BY <1>2, <3>3 DEF Enter, Serving, onboarding
      <4>2. x \in SessionRow /\ x.me = user[m] /\ x.stage = "entered" /\ user[m] \in User
        BY <1>0, <4>1 DEF SessionRow, Stage, SignsUp
      <4> HIDE DEF x
      <4>3. session'[s] = x => SessionInv(s)'
        BY <1>0, <2>1, <4>1, <4>2 DEF SessionInv, SignsUp
      <4> QED  BY <4>1, <4>2, <4>3
    <3>4. CASE LockUser(s)
      <4> DEFINE x == [session[s] EXCEPT !.stage = "locked", !.me = user[m]]
      <4>1. /\ r.op = "form" /\ session[s].stage = "entered" /\ lock[m] = NoSession
            /\ lock' = [lock EXCEPT ![m] = s]
            /\ session' = [session EXCEPT ![s] = x]
        BY <3>4 DEF LockUser, Serving
      <4>2. /\ x \in SessionRow /\ x.me = user[m] /\ x.stage = "locked"
            /\ user[m] \in User /\ user[m] # NoUser /\ m \in Mobile
        BY <1>0, <4>1 DEF SessionRow, Stage, SignsUp, SessionInv
      <4> HIDE DEF x
      <4>3. session'[s] = x => SessionInv(s)'
        BY <1>0, <2>1, <4>1, <4>2 DEF SessionInv, SignsUp, TypeInv
      <4> QED  BY <4>1, <4>2, <4>3
    <3>5. CASE CountAddresses(s)
      <4> DEFINE i == session[s].me.shop
                 n == Cardinality(AddressesOf(i))
                 x == [session[s] EXCEPT !.stage = "counted", !.count = n]
      <4>1. /\ r.op = "remove" /\ session[s].stage = "entered" /\ UNCHANGED lock
            /\ State(session[s].me) = "ready"
            /\ address[r.id] = i /\ ~(n <= 1)
            /\ session' = [session EXCEPT ![s] = x]
        BY <1>2, <3>5 DEF CountAddresses, Serving, onboarding
      <4>2. n \in Nat
        <5>1. IsFiniteSet(AddressId)
          BY OnboardingAssumption, FS_Interval DEF AddressId
        <5>2. IsFiniteSet(AddressesOf(i))
          BY <5>1, FS_Subset DEF AddressesOf
        <5> QED  BY <5>2, FS_CardinalityType
      <4>3. n > 1 /\ i \in ShopId
        BY <1>0, <4>1, <4>2 DEF State, SessionInv, User
      <4>4. x \in SessionRow /\ x.me = session[s].me /\ x.stage = "counted" /\ x.count = n
        BY <1>0, <4>2 DEF SessionRow, Stage
      <4> HIDE DEF x, n
      <4>5. session'[s] = x => SessionInv(s)'
        BY <1>0, <2>1, <4>1, <4>3, <4>4 DEF SessionInv
      <4> QED  BY <4>1, <4>4, <4>5
    <3> QED  BY <2>1, <3>1, <3>2, <3>3, <3>4, <3>5
  <2>3. /\ session' \in [Session -> SessionRow]
        /\ SessionInv(s)'
        /\ \A t \in Session \ {s} : session'[t] = session[t]
    BY <1>0, <2>2 DEF TypeInv
  <2>4. /\ lock' \in [Mobile -> Session \cup {NoSession}]
        /\ \A n \in Mobile : lock[n] \notin {s, NoSession} => lock'[n] = lock[n]
    BY <1>0, <2>2 DEF TypeInv
  <2> QED  BY <2>1, <2>3, <2>4, QuietStep
<1> QED  BY <1>1, <1>2

\* A new shop is made for the request it names, and for no other.
LEMMA ShopAdded ==
  ASSUME TypeInv, NEW i \in FreeId, NEW w \in Shop, shop' = [shop EXCEPT ![i] = w]
  PROVE  /\ i \in ShopId
         /\ shop' \in [ShopId -> Shop \cup {NoShop}]
         /\ \A a \in AskedId :
              MadeFor(a)' = IF w.asked = a THEN MadeFor(a) \cup {i} ELSE MadeFor(a)
<1>1. i \in ShopId /\ shop[i] = NoShop
  BY DEF FreeId, Exists
<1>2. shop'[i] = w /\ \A j \in ShopId \ {i} : shop'[j] = shop[j]
  BY <1>1 DEF TypeInv
<1>3. w # NoShop
  BY NotThere
<1>4. shop' \in [ShopId -> Shop \cup {NoShop}]
  BY <1>1 DEF TypeInv
<1>5. ASSUME NEW a \in AskedId
      PROVE  MadeFor(a)' = IF w.asked = a THEN MadeFor(a) \cup {i} ELSE MadeFor(a)
  BY <1>1, <1>2, <1>3 DEF MadeFor, Exists
<1> QED  BY <1>1, <1>4, <1>5

LEMMA RequestsKept ==
  ASSUME IInv, \A a \in AskedId : MadeFor(a)' = MadeFor(a), UNCHANGED <<asked, lapsed>>
  PROVE  AskedInv' /\ DecidedOnce'
BY DEF IInv, AskedInv, DecidedOnce

\* A step that ends a session of the storefront, and writes accounts,
\* addresses and at most the shop it signs up.
LEMMA AccountStep ==
  ASSUME IInv, NEW s \in Session,
         session' \in [Session -> SessionRow], SessionInv(s)',
         \A t \in Session \ {s} : session'[t] = session[t],
         UNCHANGED <<request, asked, copy, lapsed>>,
         shop' \in [ShopId -> Shop \cup {NoShop}],
         \A a \in AskedId : MadeFor(a)' = MadeFor(a),
         user' \in [Mobile -> User \cup {NoUser}],
         \A m \in Mobile : user[m] # NoUser => user'[m] # NoUser,
         lock' \in [Mobile -> Session \cup {NoSession}],
         \A m \in Mobile : lock[m] \notin {s, NoSession} => lock'[m] = lock[m] /\ user'[m] = user[m],
         address' \in [AddressId -> ShopId \cup {NoId, Gone}],
         \A a \in AddressId : address[a] # NoId => address'[a] \in {address[a], Gone},
         ReadyShopWasConfirmed', ShopKeepsAnAddress'
  PROVE  IInv'
<1>1. TypeInv'
  BY DEF IInv, TypeInv
<1>2. \A t \in Session \ {s} : SessionInv(t)'
  BY OthersKept DEF IInv
<1>3. SessionsInv'
  BY <1>2 DEF SessionsInv
<1>4. AskedInv' /\ DecidedOnce'
  BY RequestsKept
<1> QED  BY <1>1, <1>3, <1>4 DEF IInv

LEMMA CreateUserStep ==
  ASSUME IInv, NEW s \in Session, CreateUser(s), UNCHANGED requests
  PROVE  IInv'
<1> DEFINE m == request[s].mobile
           new == [shop |-> NoId, active |-> TRUE, confirmed |-> NoId]
           x == [session[s] EXCEPT !.stage = "known", !.me = user'[m]]
<1>0. /\ TypeInv /\ SessionInv(s) /\ session[s] \in SessionRow
      /\ request[s].op = "login" /\ m \in Mobile /\ user[m] \in User \cup {NoUser}
      /\ UNCHANGED <<shop, request, address, lock, outdated, uncounted, asked, copy, lapsed>>
  BY Serves DEF CreateUser, Serving, SignsUp, requests
<1>1. new \in User /\ new # NoUser /\ new.confirmed = NoId
  <2>1. new \in User /\ new.confirmed = NoId
    BY DEF User
  <2> QED  BY <2>1, NotThere
<1> HIDE DEF new
<1>2. user' = IF user[m] = NoUser THEN [user EXCEPT ![m] = new] ELSE user
  BY DEF CreateUser, new
<1>3. /\ user' \in [Mobile -> User \cup {NoUser}]
      /\ user'[m] \in User /\ user'[m] # NoUser
      /\ \A n \in Mobile : user'[n] = user[n] \/ (user[n] = NoUser /\ user'[n].confirmed = NoId)
      /\ \A n \in Mobile : user[n] # NoUser => user'[n] = user[n]
  BY <1>0, <1>1, <1>2, NotThere DEF TypeInv
<1>4. session' = [session EXCEPT ![s] = x]
  <2> DEFINE u == user'[m]
  <2>1. session' = [session EXCEPT ![s].stage = "known", ![s].me = u]
    BY DEF CreateUser
  <2> HIDE DEF u
  <2>2. session' = [session EXCEPT ![s] = [session[s] EXCEPT !.stage = "known", !.me = u]]
    BY <2>1
  <2> QED  BY <2>2 DEF u
<1>5. x \in SessionRow /\ x.stage = "known" /\ x.me = user'[m]
  BY <1>0, <1>3 DEF SessionRow, Stage
<1> HIDE DEF x
<1>6. /\ session' \in [Session -> SessionRow] /\ session'[s] = x
      /\ \A t \in Session \ {s} : session'[t] = session[t]
  BY <1>0, <1>4, <1>5 DEF TypeInv
<1>7. SessionInv(s)'
  BY <1>0, <1>3, <1>5, <1>6 DEF SessionInv, SignsUp
<1>8. \A t \in Session \ {s} : SessionInv(t)'
  <2>1. ASSUME NEW t \in Session, t # s PROVE SessionInv(t)'
    <3>1. SessionInv(t) /\ session'[t] = session[t]
      BY <1>6, <2>1 DEF IInv, SessionsInv
    <3>2. request[t].op \in SignsUp => request[t].mobile \in Mobile
      BY Serves
    <3> QED  BY <1>0, <1>3, <3>1, <3>2 DEF SessionInv
  <2> QED  BY <2>1
<1>9. ReadyShopWasConfirmed' /\ ShopKeepsAnAddress'
  BY <1>0, <1>3, NotThere
  DEF IInv, ReadyShopWasConfirmed, ShopKeepsAnAddress, AddressesOf
<1>10. TypeInv' /\ SessionsInv'
  BY <1>0, <1>3, <1>6, <1>7, <1>8 DEF TypeInv, SessionsInv
<1>11. AskedInv' /\ DecidedOnce'
  BY <1>0, RequestsKept DEF MadeFor, Exists
<1> QED  BY <1>9, <1>10, <1>11 DEF IInv

\* A link made with a copy that is out of date is one the owner may have
\* answered meanwhile; any other finds an account without a shop.
LEMMA LinkShopStep ==
  ASSUME IInv, NEW s \in Session, LinkShop(s), UNCHANGED requests
  PROVE  IInv'
<1> DEFINE m == request[s].mobile
           w == [user[m] EXCEPT !.shop = session[s].shop]
<1>0. /\ TypeInv /\ SessionInv(s) /\ session[s] \in SessionRow /\ m \in Mobile
      /\ session[s].stage = "matched" /\ lock[m] = NoSession
      /\ user' = [user EXCEPT ![m] = w]
      /\ outdated' = IF user[m] # session[s].me THEN outdated \cup {m} ELSE outdated
      /\ End(s, "answered") /\ "answered" \in Answers
      /\ UNCHANGED <<shop, request, address, lock, uncounted, asked, copy, lapsed>>
  BY Serves DEF LinkShop, Serving, SignsUp, requests
<1>1. /\ user[m] \in User /\ session[s].me.shop = NoId /\ session[s].shop \in ShopId
  BY <1>0 DEF SessionInv, TypeInv
<1>2. w \in User /\ w.confirmed = user[m].confirmed /\ w # NoUser
  BY <1>1, NotThere DEF User
<1> HIDE DEF w
<1>3. /\ user' \in [Mobile -> User \cup {NoUser}] /\ user'[m] = w
      /\ \A n \in Mobile \ {m} : user'[n] = user[n]
  BY <1>0, <1>2 DEF TypeInv
<1>4. ReadyShopWasConfirmed'
  <2> SUFFICES ASSUME NEW n \in Mobile, n \notin outdated', user'[n] # NoUser, user'[n].confirmed # NoId
      PROVE  user'[n].shop = user'[n].confirmed
    BY DEF ReadyShopWasConfirmed
  <2>1. n \notin outdated /\ (n = m => user[m] = session[s].me)
    BY <1>0
  <2>2. CASE n = m
    BY <1>1, <1>2, <1>3, <2>1, <2>2, NotThere DEF IInv, ReadyShopWasConfirmed
  <2>3. CASE n # m
    BY <1>3, <2>1, <2>3 DEF IInv, ReadyShopWasConfirmed
  <2> QED  BY <2>2, <2>3
<1>5. ShopKeepsAnAddress'
  BY <1>0, <1>1, <1>2, <1>3, NotThere DEF IInv, ShopKeepsAnAddress, AddressesOf
<1>6. /\ \A n \in Mobile : user[n] # NoUser => user'[n] # NoUser
      /\ \A n \in Mobile : lock[n] \notin {s, NoSession} => lock'[n] = lock[n] /\ user'[n] = user[n]
  BY <1>0, <1>2, <1>3
<1>7. /\ session' \in [Session -> SessionRow] /\ SessionInv(s)'
      /\ \A t \in Session \ {s} : session'[t] = session[t]
  BY <1>0, Ended
<1>8. \A a \in AskedId : MadeFor(a)' = MadeFor(a)
  BY <1>0 DEF MadeFor, Exists
<1>9. /\ shop' \in [ShopId -> Shop \cup {NoShop}]
      /\ lock' \in [Mobile -> Session \cup {NoSession}]
      /\ address' \in [AddressId -> ShopId \cup {NoId, Gone}]
      /\ \A a \in AddressId : address'[a] = address[a]
  BY <1>0 DEF TypeInv
<1> QED  BY <1>0, <1>3, <1>4, <1>5, <1>6, <1>7, <1>8, <1>9, AccountStep

LEMMA AddressAdded ==
  ASSUME TypeInv, NEW a \in FreeAddress, NEW i \in ShopId, address' = [address EXCEPT ![a] = i]
  PROVE  /\ address' \in [AddressId -> ShopId \cup {NoId, Gone}]
         /\ \A b \in AddressId : address[b] # NoId => address'[b] \in {address[b], Gone}
         /\ \A j \in ShopId : AddressesOf(j) # {} => AddressesOf(j)' # {}
         /\ AddressesOf(i)' # {}
<1>1. a \in AddressId /\ address[a] = NoId
  BY DEF FreeAddress
<1>2. /\ address' \in [AddressId -> ShopId \cup {NoId, Gone}] /\ address'[a] = i
      /\ \A b \in AddressId \ {a} : address'[b] = address[b]
  BY <1>1 DEF TypeInv
<1>3. \A b \in AddressId : address[b] # NoId => address'[b] \in {address[b], Gone}
  BY <1>1, <1>2
<1>4. a \in AddressesOf(i)'
  BY <1>1, <1>2 DEF AddressesOf
<1>5. ASSUME NEW j \in ShopId PROVE AddressesOf(j) \subseteq AddressesOf(j)'
  BY <1>1, <1>2, NotThere DEF AddressesOf
<1> QED  BY <1>2, <1>3, <1>4, <1>5

\* The form is answered for the account as it is, which is locked.
LEMMA FormStep ==
  ASSUME IInv, NEW s \in Session, SignUp(s) \/ ConfirmShop(s), UNCHANGED requests
  PROVE  IInv'
<1> DEFINE m == request[s].mobile
           u == user'[m]
<1>0. /\ TypeInv /\ SessionInv(s) /\ session[s] \in SessionRow /\ m \in Mobile /\ s # NoSession
      /\ session[s].stage = "locked"
      /\ lock' = [lock EXCEPT ![m] = NoSession]
      /\ End(s, "answered") /\ "answered" \in Answers
      /\ UNCHANGED <<request, outdated, uncounted, asked, copy, lapsed>>
  BY Serves DEF SignUp, ConfirmShop, Serving, SignsUp, requests
<1>1. lock[m] = s /\ user[m] \in User /\ session[s].me = user[m]
  BY <1>0 DEF SessionInv
<1>2. PICK i \in ShopId :
        /\ u \in User /\ u.shop = i /\ u.confirmed = i
        /\ user' = [user EXCEPT ![m] = u]
        /\ shop' \in [ShopId -> Shop \cup {NoShop}]
        /\ \A a \in AskedId : MadeFor(a)' = MadeFor(a)
        /\ address' \in [AddressId -> ShopId \cup {NoId, Gone}]
        /\ \A b \in AddressId : address[b] # NoId => address'[b] \in {address[b], Gone}
        /\ \A j \in ShopId : AddressesOf(j) # {} => AddressesOf(j)' # {}
        /\ AddressesOf(i)' # {}
  <2>1. CASE SignUp(s)
    <3> DEFINE new == [mobile |-> m, salesman |-> NoSalesman, source |-> "STORE", asked |-> NoId]
    <3>1. PICK i \in FreeId, a \in FreeAddress :
            /\ shop' = [shop EXCEPT ![i] = new]
            /\ address' = [address EXCEPT ![a] = i]
            /\ user' = [user EXCEPT ![m].shop = i, ![m].confirmed = i]
      BY <2>1 DEF SignUp
    <3>2. new \in Shop /\ new.asked = NoId
      BY <1>0 DEF Shop, NoId
    <3> HIDE DEF new
    <3>3. /\ i \in ShopId
          /\ shop' \in [ShopId -> Shop \cup {NoShop}]
          /\ \A b \in AskedId : MadeFor(b)' = MadeFor(b)
      <4>1. /\ i \in ShopId
            /\ shop' \in [ShopId -> Shop \cup {NoShop}]
            /\ \A b \in AskedId : MadeFor(b)' = IF new.asked = b THEN MadeFor(b) \cup {i} ELSE MadeFor(b)
        BY <1>0, <3>1, <3>2, ShopAdded
      <4> QED  BY <3>2, <4>1, NotThere
    <3>4. /\ user'[m] = [user[m] EXCEPT !.shop = i, !.confirmed = i]
          /\ user' = [user EXCEPT ![m] = user'[m]]
      BY <1>0, <3>1 DEF TypeInv
    <3>5. u \in User /\ u.shop = i /\ u.confirmed = i
      BY <1>1, <3>3, <3>4 DEF User
    <3> QED  BY <1>0, <3>1, <3>3, <3>4, <3>5, AddressAdded
  <2>2. CASE ConfirmShop(s)
    <3>0. State(user[m]) = "confirm"
      BY <1>1, <2>2 DEF ConfirmShop
    <3>2. PICK i \in ShopId : i = user[m].shop
      BY <1>1, <3>0 DEF State, User
    <3>1. /\ user' = [user EXCEPT ![m].confirmed = i]
          /\ IF AddressesOf(i) = {}
             THEN \E a \in FreeAddress : address' = [address EXCEPT ![a] = i]
             ELSE UNCHANGED address
          /\ UNCHANGED shop
      BY <1>1, <2>2, <3>2 DEF ConfirmShop
    <3>3. /\ user'[m] = [user[m] EXCEPT !.confirmed = i]
          /\ user' = [user EXCEPT ![m] = user'[m]]
      BY <1>0, <3>1 DEF TypeInv
    <3>4. u \in User /\ u.shop = i /\ u.confirmed = i
      BY <1>1, <3>2, <3>3 DEF User
    <3>5. \A b \in AskedId : MadeFor(b)' = MadeFor(b)
      BY <3>1 DEF MadeFor, Exists
    <3>6. /\ address' \in [AddressId -> ShopId \cup {NoId, Gone}]
          /\ \A b \in AddressId : address[b] # NoId => address'[b] \in {address[b], Gone}
          /\ \A j \in ShopId : AddressesOf(j) # {} => AddressesOf(j)' # {}
          /\ AddressesOf(i)' # {}
      <4>1. CASE AddressesOf(i) = {}
        BY <1>0, <3>1, <3>2, <4>1, AddressAdded
      <4>2. CASE AddressesOf(i) # {}
        BY <1>0, <3>1, <4>2 DEF AddressesOf, TypeInv
      <4> QED  BY <4>1, <4>2
    <3>7. shop' \in [ShopId -> Shop \cup {NoShop}]
      BY <1>0, <3>1 DEF TypeInv
    <3>8. user' = [user EXCEPT ![m] = u]
      BY <3>3
    <3> HIDE DEF u
    <3> QED  BY <3>2, <3>4, <3>5, <3>6, <3>7, <3>8
  <2> QED  BY <2>1, <2>2
<1> HIDE DEF u
<1>3. /\ user' \in [Mobile -> User \cup {NoUser}] /\ user'[m] = u
      /\ \A n \in Mobile \ {m} : user'[n] = user[n]
  BY <1>0, <1>2 DEF TypeInv
<1>4. /\ \A n \in Mobile : user[n] # NoUser => user'[n] # NoUser
      /\ lock' \in [Mobile -> Session \cup {NoSession}]
      /\ \A n \in Mobile : lock[n] \notin {s, NoSession} => lock'[n] = lock[n] /\ user'[n] = user[n]
  BY <1>0, <1>1, <1>2, <1>3, NotThere DEF TypeInv
<1>5. ReadyShopWasConfirmed'
  BY <1>0, <1>2, <1>3 DEF IInv, ReadyShopWasConfirmed
<1>6. ShopKeepsAnAddress'
  <2> SUFFICES ASSUME NEW n \in Mobile, NEW j \in ShopId, j \notin uncounted,
                      user'[n] # NoUser, user'[n].confirmed = j
      PROVE  AddressesOf(j)' # {}
    BY <1>0 DEF ShopKeepsAnAddress
  <2>1. CASE n = m
    BY <1>2, <1>3, <2>1
  <2>2. CASE n # m
    BY <1>2, <1>3, <2>2 DEF IInv, ShopKeepsAnAddress
  <2> QED  BY <2>1, <2>2
<1>7. /\ session' \in [Session -> SessionRow] /\ SessionInv(s)'
      /\ \A t \in Session \ {s} : session'[t] = session[t]
  BY <1>0, Ended
<1> QED  BY <1>0, <1>2, <1>3, <1>4, <1>5, <1>6, <1>7, AccountStep

LEMMA AddAddressStep ==
  ASSUME IInv, NEW s \in Session, AddAddress(s), UNCHANGED requests
  PROVE  IInv'
<1> DEFINE i == session[s].me.shop
<1>0. /\ TypeInv /\ SessionInv(s) /\ session[s].stage = "entered"
      /\ State(session[s].me) = "ready"
      /\ End(s, "answered") /\ "answered" \in Answers
      /\ UNCHANGED <<shop, request, user, lock, outdated, uncounted, asked, copy, lapsed>>
  BY Serves DEF AddAddress, Serving, requests
<1>1. i \in ShopId
  BY <1>0 DEF SessionInv, State, User
<1>2. PICK d \in FreeAddress : address' = [address EXCEPT ![d] = i]
  BY DEF AddAddress
<1>3. /\ address' \in [AddressId -> ShopId \cup {NoId, Gone}]
      /\ \A b \in AddressId : address[b] # NoId => address'[b] \in {address[b], Gone}
      /\ \A j \in ShopId : AddressesOf(j) # {} => AddressesOf(j)' # {}
  BY <1>0, <1>1, <1>2, AddressAdded
<1>4. ReadyShopWasConfirmed' /\ ShopKeepsAnAddress'
  BY <1>0, <1>3 DEF IInv, ReadyShopWasConfirmed, ShopKeepsAnAddress
<1>5. /\ session' \in [Session -> SessionRow] /\ SessionInv(s)'
      /\ \A t \in Session \ {s} : session'[t] = session[t]
  BY <1>0, Ended
<1>6. /\ \A a \in AskedId : MadeFor(a)' = MadeFor(a)
      /\ shop' \in [ShopId -> Shop \cup {NoShop}]
      /\ user' \in [Mobile -> User \cup {NoUser}]
      /\ lock' \in [Mobile -> Session \cup {NoSession}]
  BY <1>0 DEF MadeFor, Exists, TypeInv
<1> QED  BY <1>0, <1>3, <1>4, <1>5, <1>6, AccountStep

\* A shop whose addresses are as many as were counted keeps one of them.
LEMMA DeleteAddressStep ==
  ASSUME IInv, NEW s \in Session, DeleteAddress(s), UNCHANGED requests
  PROVE  IInv'
<1> DEFINE i == session[s].me.shop
           d == request[s].id
<1>0. /\ TypeInv /\ SessionInv(s) /\ session[s] \in SessionRow
      /\ session[s].stage = "counted" /\ request[s].op = "remove" /\ d \in AddressId
      /\ address' = [address EXCEPT ![d] = Gone]
      /\ uncounted' = IF Cardinality(AddressesOf(i)) # session[s].count
                      THEN uncounted \cup {i} ELSE uncounted
      /\ End(s, "answered") /\ "answered" \in Answers
      /\ UNCHANGED <<shop, request, user, lock, outdated, asked, copy, lapsed>>
  BY Serves, RequestFields DEF DeleteAddress, Serving, requests
<1>1. session[s].count > 1 /\ session[s].count \in Nat /\ i \in ShopId /\ address[d] \in {i, Gone}
  BY <1>0 DEF SessionInv, SessionRow
<1>2. /\ address' \in [AddressId -> ShopId \cup {NoId, Gone}] /\ address'[d] = Gone
      /\ \A b \in AddressId \ {d} : address'[b] = address[b]
  BY <1>0 DEF TypeInv
<1>3. \A j \in ShopId : AddressesOf(j) \ {d} \subseteq AddressesOf(j)'
  BY <1>2 DEF AddressesOf
<1>4. ASSUME NEW j \in ShopId, j \notin uncounted', AddressesOf(j) # {}
      PROVE  AddressesOf(j)' # {}
  <2>1. CASE j # i
    <3>1. d \notin AddressesOf(j)
      BY <1>1, <2>1, NotThere DEF AddressesOf
    <3> QED  BY <1>3, <1>4, <3>1
  <2>2. CASE j = i
    <3>1. Cardinality(AddressesOf(i)) = session[s].count
      BY <1>0, <1>4, <2>2
    <3>2. IsFiniteSet(AddressesOf(i))
      <4>1. IsFiniteSet(AddressId)
        BY OnboardingAssumption, FS_Interval DEF AddressId
      <4> QED  BY <4>1, FS_Subset DEF AddressesOf
    <3>3. AddressesOf(i) \ {d} # {}
      <4>1. ASSUME AddressesOf(i) \subseteq {d} PROVE FALSE
        <5>1. IsFiniteSet({d}) /\ Cardinality({d}) = 1
          BY FS_Singleton
        <5>2. Cardinality(AddressesOf(i)) <= 1
          BY <4>1, <5>1, FS_Subset
        <5> QED  BY <1>1, <3>1, <5>2
      <4> QED  BY <4>1
    <3> QED  BY <1>1, <1>3, <2>2, <3>3
  <2> QED  BY <2>1, <2>2
<1>5. ReadyShopWasConfirmed' /\ ShopKeepsAnAddress'
  <2>1. uncounted \subseteq uncounted'
    BY <1>0
  <2> QED  BY <1>0, <1>4, <2>1 DEF IInv, ReadyShopWasConfirmed, ShopKeepsAnAddress
<1>6. \A b \in AddressId : address[b] # NoId => address'[b] \in {address[b], Gone}
  BY <1>2
<1>7. /\ session' \in [Session -> SessionRow] /\ SessionInv(s)'
      /\ \A t \in Session \ {s} : session'[t] = session[t]
  BY <1>0, Ended
<1>8. /\ \A a \in AskedId : MadeFor(a)' = MadeFor(a)
      /\ shop' \in [ShopId -> Shop \cup {NoShop}]
      /\ user' \in [Mobile -> User \cup {NoUser}]
      /\ lock' \in [Mobile -> Session \cup {NoSession}]
  BY <1>0 DEF MadeFor, Exists, TypeInv
<1> QED  BY <1>0, <1>2, <1>5, <1>6, <1>7, <1>8, AccountStep

-----------------------------------------------------------------------------
(* The office, and the requests of salesmen.                               *)

LEMMA OfficeSteps ==
  ASSUME IInv, NEW s \in Session, OfficeStep(s), UNCHANGED <<onboarding, requests>>
  PROVE  IInv'
<1> DEFINE r == request[s]
<1>0. /\ TypeInv /\ r \in PossibleRequest
      /\ session' = [session EXCEPT ![s].stage = "answered"] /\ "answered" \in Answers
      /\ UNCHANGED <<request, user, address, lock, outdated, uncounted, asked, copy, lapsed>>
  BY Serves DEF OfficeStep, OpenShop, EditShop, onboarding, requests
<1>1. /\ shop' \in [ShopId -> Shop \cup {NoShop}]
      /\ \A a \in AskedId : MadeFor(a)' = MadeFor(a)
  <2>1. CASE OpenShop(s)
    <3> DEFINE new == [mobile |-> r.mobile, salesman |-> NoSalesman, source |-> "OFFICE", asked |-> NoId]
    <3>1. PICK i \in FreeId : shop' = [shop EXCEPT ![i] = new]
      BY <2>1 DEF OpenShop
    <3>2. r.mobile \in Mobile \cup {NoMobile}
      BY <1>0, <2>1, RequestFields DEF OpenShop, Serving
    <3>3. new \in Shop /\ new.asked = NoId
      BY <3>2 DEF Shop, NoId
    <3> HIDE DEF new
    <3>4. /\ shop' \in [ShopId -> Shop \cup {NoShop}]
          /\ \A b \in AskedId : MadeFor(b)' = IF new.asked = b THEN MadeFor(b) \cup {i} ELSE MadeFor(b)
      BY <1>0, <3>1, <3>3, ShopAdded
    <3> QED  BY <3>3, <3>4, NotThere
  <2>2. CASE EditShop(s)
    <3> DEFINE w == [shop[r.shop] EXCEPT !.mobile = r.mobile, !.salesman = r.salesman]
    <3>1. /\ r.shop \in ShopId /\ r.mobile \in Mobile \cup {NoMobile}
          /\ r.salesman \in Salesman \cup {NoSalesman} /\ shop[r.shop] \in Shop
      BY <1>0, <2>2, RequestFields DEF EditShop, Serving, Exists, TypeInv
    <3>2. shop' = [shop EXCEPT ![r.shop] = w]
      BY <1>0, <2>2 DEF EditShop, TypeInv
    <3>3. w \in Shop /\ w.asked = shop[r.shop].asked
      BY <3>1 DEF Shop
    <3> HIDE DEF w
    <3>4. shop' \in [ShopId -> Shop \cup {NoShop}]
      BY <1>0, <3>1, <3>2, <3>3 DEF TypeInv
    <3>5. \A i \in ShopId : (shop'[i] # NoShop <=> shop[i] # NoShop) /\ shop'[i].asked = shop[i].asked
      BY <1>0, <3>1, <3>2, <3>3, NotThere DEF TypeInv
    <3> QED  BY <3>4, <3>5 DEF MadeFor, Exists
  <2> QED  BY <2>1, <2>2 DEF OfficeStep
<1>2. /\ session' \in [Session -> SessionRow] /\ SessionInv(s)'
      /\ \A t \in Session \ {s} : session'[t] = session[t]
  BY <1>0, Answered
<1>3. ReadyShopWasConfirmed' /\ ShopKeepsAnAddress'
  BY <1>0 DEF IInv, ReadyShopWasConfirmed, ShopKeepsAnAddress, AddressesOf
<1>4. /\ user' \in [Mobile -> User \cup {NoUser}]
      /\ lock' \in [Mobile -> Session \cup {NoSession}]
      /\ address' \in [AddressId -> ShopId \cup {NoId, Gone}]
  BY <1>0 DEF TypeInv
<1> QED  BY <1>0, <1>1, <1>2, <1>3, <1>4, AccountStep

\* A step on the requests: the accounts are left alone.
LEMMA DecisionStep ==
  ASSUME IInv, NEW s \in Session,
         session' \in [Session -> SessionRow], SessionInv(s)',
         \A t \in Session \ {s} : session'[t] = session[t] /\ copy'[t] = copy[t],
         UNCHANGED <<request, onboarding>>,
         shop' \in [ShopId -> Shop \cup {NoShop}],
         asked' \in [AskedId -> Asked \cup {NoAsked}],
         copy' \in [Session -> Asked \cup {NoAsked}],
         \A a \in AskedId : asked[a] # NoAsked => asked'[a] # NoAsked,
         AskedInv', DecidedOnce'
  PROVE  IInv'
<1>1. TypeInv'
  BY DEF IInv, TypeInv, onboarding
<1>2. \A t \in Session \ {s} : SessionInv(t)'
  BY OthersKept DEF IInv, onboarding
<1>3. SessionsInv'
  BY <1>2 DEF SessionsInv
<1>4. ReadyShopWasConfirmed' /\ ShopKeepsAnAddress'
  BY DEF IInv, ReadyShopWasConfirmed, ShopKeepsAnAddress, AddressesOf, onboarding
<1> QED  BY <1>1, <1>3, <1>4 DEF IInv

LEMMA ProposeStep ==
  ASSUME IInv, NEW s \in Session, Propose(s), UNCHANGED onboarding
  PROVE  IInv'
<1> DEFINE r == request[s]
<1>0. /\ TypeInv /\ r.by \in Salesman /\ r.mobile \in Mobile \cup {NoMobile}
      /\ session' = [session EXCEPT ![s].stage = "answered"] /\ "answered" \in Answers
      /\ UNCHANGED <<request, copy, lapsed>>
  BY Serves, RequestFields DEF Propose, Serving
<1>1. PICK i \in FreeId, a \in AskedId :
        /\ asked[a] = NoAsked
        /\ shop' = [shop EXCEPT ![i] =
             [mobile |-> r.mobile, salesman |-> r.by, source |-> "OFFICE", asked |-> a]]
        /\ asked' = [asked EXCEPT ![a] =
             [by |-> r.by, status |-> "APPROVED", mobile |-> r.mobile, created |-> i]]
  BY DEF Propose
<1> DEFINE new == [mobile |-> r.mobile, salesman |-> r.by, source |-> "OFFICE", asked |-> a]
           row == [by |-> r.by, status |-> "APPROVED", mobile |-> r.mobile, created |-> i]
<1>2. new \in Shop /\ new.asked = a
  BY <1>0, RequestsAssumption DEF Shop, AskedId
<1>3. i \in ShopId
  BY DEF FreeId
<1>4. row \in Asked /\ row.status = "APPROVED" /\ row.created = i
  BY <1>0, <1>3 DEF Asked
<1>5. shop' = [shop EXCEPT ![i] = new] /\ asked' = [asked EXCEPT ![a] = row]
  BY <1>1
<1> HIDE DEF new, row
<1>6. /\ shop' \in [ShopId -> Shop \cup {NoShop}]
      /\ \A b \in AskedId : MadeFor(b)' = IF b = a THEN MadeFor(b) \cup {i} ELSE MadeFor(b)
  BY <1>0, <1>2, <1>5, ShopAdded
<1>7. /\ asked' \in [AskedId -> Asked \cup {NoAsked}] /\ asked'[a] = row /\ row # NoAsked
      /\ \A b \in AskedId \ {a} : asked'[b] = asked[b]
  BY <1>0, <1>4, <1>5, NotThere DEF TypeInv
<1>8. MadeFor(a) = {}
  BY <1>1 DEF IInv, AskedInv
<1>9. AskedInv'
  BY <1>6, <1>7 DEF IInv, AskedInv
<1>10. DecidedOnce'
  <2> SUFFICES ASSUME NEW b \in AskedId, b \notin lapsed, asked'[b] # NoAsked
      PROVE  IF asked'[b].status = "APPROVED"
             THEN MadeFor(b)' = {asked'[b].created}
             ELSE MadeFor(b)' = {} /\ asked'[b].created = NoId
    BY <1>0 DEF DecidedOnce
  <2>1. CASE b = a
    BY <1>4, <1>6, <1>7, <1>8, <2>1
  <2>2. CASE b # a
    BY <1>6, <1>7, <2>2 DEF IInv, DecidedOnce
  <2> QED  BY <2>1, <2>2
<1>11. /\ session' \in [Session -> SessionRow] /\ SessionInv(s)'
       /\ \A t \in Session \ {s} : session'[t] = session[t]
  BY <1>0, Answered
<1> QED  BY <1>0, <1>6, <1>7, <1>9, <1>10, <1>11, DecisionStep DEF TypeInv

LEMMA ReadAskedStep ==
  ASSUME IInv, NEW s \in Session, ReadAsked(s) \/ Abandon(s), UNCHANGED onboarding
  PROVE  IInv'
<1> DEFINE r == request[s]
<1>0. /\ TypeInv /\ session[s] \in SessionRow
      /\ r.op \in Decisions /\ r.id \in AskedId
      /\ "failed" \in Answers /\ "refused" \in Answers
      /\ UNCHANGED <<shop, request, asked, lapsed>>
  BY Serves, RequestFields DEF ReadAsked, Abandon, Serving
<1>1. AskedInv' /\ DecidedOnce'
  BY <1>0 DEF IInv, AskedInv, DecidedOnce, MadeFor, Exists
<1>2. \/ session' = [session EXCEPT ![s].stage = "failed"] /\ copy' = [copy EXCEPT ![s] = NoAsked]
      \/ session' = [session EXCEPT ![s].stage = "refused"] /\ copy' = copy
      \/ /\ Decidable(r, asked[r.id]) /\ asked[r.id] # NoAsked
         /\ copy' = [copy EXCEPT ![s] = asked[r.id]]
         /\ session' = [session EXCEPT ![s].stage = "read"]
  BY DEF ReadAsked, Abandon
<1>3. /\ copy' \in [Session -> Asked \cup {NoAsked}]
      /\ \A t \in Session \ {s} : copy'[t] = copy[t]
  BY <1>0, <1>2 DEF TypeInv
<1>4. /\ session' \in [Session -> SessionRow] /\ SessionInv(s)'
      /\ \A t \in Session \ {s} : session'[t] = session[t]
  <2>1. CASE session' = [session EXCEPT ![s].stage = "failed"]
             \/ session' = [session EXCEPT ![s].stage = "refused"]
    BY <1>0, <2>1, Answered
  <2>2. CASE /\ Decidable(r, asked[r.id]) /\ asked[r.id] # NoAsked
             /\ copy' = [copy EXCEPT ![s] = asked[r.id]]
             /\ session' = [session EXCEPT ![s].stage = "read"]
    <3> DEFINE x == [session[s] EXCEPT !.stage = "read"]
    <3>1. x \in SessionRow /\ x.stage = "read"
      BY <1>0 DEF SessionRow, Stage
    <3>2. session' = [session EXCEPT ![s] = x]
      BY <2>2
    <3> HIDE DEF x
    <3>3. /\ session' \in [Session -> SessionRow] /\ session'[s] = x
          /\ \A t \in Session \ {s} : session'[t] = session[t]
      BY <1>0, <3>1, <3>2 DEF TypeInv
    <3>4. copy'[s] \in Asked /\ copy'[s].status = "PENDING"
      BY <1>0, <2>2 DEF TypeInv, Decidable
    <3>5. SessionInv(s)'
      BY <1>0, <2>2, <3>1, <3>3, <3>4 DEF SessionInv
    <3> QED  BY <3>3, <3>5
  <2> QED  BY <1>2, <2>1, <2>2
<1> QED  BY <1>0, <1>1, <1>3, <1>4, DecisionStep DEF TypeInv

\* What a handler has found that is to commit a decision.
LEMMA Found ==
  ASSUME IInv, NEW s \in Session, request[s].op \in Decisions, session[s].stage = "read"
  PROVE  LET d == request[s].id IN
         /\ TypeInv /\ d \in AskedId /\ asked[d] \in Asked
         /\ copy[s] \in Asked /\ copy[s].status = "PENDING"
         /\ d \notin lapsed /\ asked[d] = copy[s] =>
              asked[d].status = "PENDING" /\ asked[d].created = NoId /\ MadeFor(d) = {}
<1> DEFINE d == request[s].id
<1>1. TypeInv /\ SessionInv(s) /\ d \in AskedId
  BY Serves, RequestFields
<1>2. /\ copy[s] \in Asked /\ copy[s].status = "PENDING"
      /\ asked[d] \in Asked /\ asked[d] # NoAsked
  BY <1>1, NotThere DEF SessionInv, TypeInv
<1> QED  BY <1>1, <1>2 DEF IInv, DecidedOnce

\* A commit that leaves the request with the shops its status says, if the
\* handler's copy was up to date.
LEMMA CommitStep ==
  ASSUME IInv, NEW s \in Session, request[s].op \in Decisions, session[s].stage = "read",
         NEW d \in AskedId, d = request[s].id,
         NEW w \in Asked, CommitAsked(s, w), UNCHANGED onboarding,
         shop' \in [ShopId -> Shop \cup {NoShop}],
         \A b \in AskedId \ {d} : MadeFor(b)' = MadeFor(b),
         d \notin lapsed /\ asked[d] = copy[s] =>
           IF w.status = "APPROVED"
           THEN MadeFor(d)' = {w.created}
           ELSE MadeFor(d)' = {} /\ w.created = NoId
  PROVE  IInv'
<1>1. TypeInv /\ asked[d] \in Asked /\ "answered" \in Answers
  BY Found, Serves
<1>2. /\ asked' = [asked EXCEPT ![d] = w]
      /\ lapsed' = IF asked[d] # copy[s] THEN lapsed \cup {d} ELSE lapsed
      /\ copy' = [copy EXCEPT ![s] = NoAsked]
      /\ session' = [session EXCEPT ![s].stage = "answered"]
      /\ UNCHANGED request
  BY DEF CommitAsked
<1>3. /\ asked' \in [AskedId -> Asked \cup {NoAsked}] /\ asked'[d] = w /\ w # NoAsked
      /\ \A b \in AskedId \ {d} : asked'[b] = asked[b]
  BY <1>1, <1>2, NotThere DEF TypeInv
<1>4. /\ copy' \in [Session -> Asked \cup {NoAsked}]
      /\ \A t \in Session \ {s} : copy'[t] = copy[t]
  BY <1>1, <1>2 DEF TypeInv
<1>5. AskedInv'
  BY <1>3 DEF IInv, AskedInv
<1>6. DecidedOnce'
  <2> SUFFICES ASSUME NEW b \in AskedId, b \notin lapsed', asked'[b] # NoAsked
      PROVE  IF asked'[b].status = "APPROVED"
             THEN MadeFor(b)' = {asked'[b].created}
             ELSE MadeFor(b)' = {} /\ asked'[b].created = NoId
    BY DEF DecidedOnce
  <2>1. b \notin lapsed /\ (b = d => asked[d] = copy[s])
    BY <1>2
  <2>2. CASE b = d
    BY <1>3, <2>1, <2>2
  <2>3. CASE b # d
    BY <1>3, <2>1, <2>3 DEF IInv, DecidedOnce
  <2> QED  BY <2>2, <2>3
<1>7. /\ session' \in [Session -> SessionRow] /\ SessionInv(s)'
      /\ \A t \in Session \ {s} : session'[t] = session[t]
  BY <1>1, <1>2, Answered
<1> QED  BY <1>2, <1>3, <1>4, <1>5, <1>6, <1>7, DecisionStep

\* The shop that is approved is the first for its request.
LEMMA ApproveStep ==
  ASSUME IInv, NEW s \in Session, Approve(s), UNCHANGED onboarding
  PROVE  IInv'
<1> PICK d \in AskedId : d = request[s].id
  BY Found DEF Approve, Serving, Decisions
<1>0. /\ TypeInv /\ request[s].op \in Decisions /\ session[s].stage = "read"
      /\ asked[d] \in Asked /\ copy[s] \in Asked
      /\ d \notin lapsed /\ asked[d] = copy[s] => MadeFor(d) = {}
  BY Found DEF Approve, Serving, Decisions
<1>1. PICK i \in FreeId :
        /\ shop' = [shop EXCEPT ![i] =
             [mobile |-> copy[s].mobile, salesman |-> copy[s].by, source |-> "OFFICE", asked |-> d]]
        /\ CommitAsked(s, [asked[d] EXCEPT !.status = "APPROVED", !.created = i])
  BY DEF Approve
<1>2. i \in ShopId
  BY DEF FreeId
<1> DEFINE w == [asked[d] EXCEPT !.status = "APPROVED", !.created = i]
           new == [mobile |-> copy[s].mobile, salesman |-> copy[s].by, source |-> "OFFICE", asked |-> d]
<1>3. w \in Asked /\ w.status = "APPROVED" /\ w.created = i
  BY <1>0, <1>2 DEF Asked
<1>4. new \in Shop /\ new.asked = d
  BY <1>0, RequestsAssumption DEF Shop, Asked, AskedId
<1>5. shop' = [shop EXCEPT ![i] = new] /\ CommitAsked(s, w)
  BY <1>1
<1> HIDE DEF w, new
<1>6. /\ shop' \in [ShopId -> Shop \cup {NoShop}]
      /\ \A b \in AskedId : MadeFor(b)' = IF d = b THEN MadeFor(b) \cup {i} ELSE MadeFor(b)
  BY <1>0, <1>4, <1>5, ShopAdded
<1> QED  BY <1>0, <1>3, <1>5, <1>6, CommitStep

LEMMA SettleStep ==
  ASSUME IInv, NEW s \in Session, Reject(s) \/ Withdraw(s) \/ Amend(s), UNCHANGED onboarding
  PROVE  IInv'
<1> PICK d \in AskedId : d = request[s].id
  BY Found DEF Reject, Withdraw, Amend, Serving, Decisions
<1>0. /\ TypeInv /\ request[s].op \in Decisions /\ session[s].stage = "read"
      /\ asked[d] \in Asked
      /\ d \notin lapsed /\ asked[d] = copy[s] =>
           asked[d].status = "PENDING" /\ asked[d].created = NoId /\ MadeFor(d) = {}
      /\ UNCHANGED shop
  BY Found DEF Reject, Withdraw, Amend, Serving, Decisions
<1>1. \E w \in Asked :
        /\ CommitAsked(s, w)
        /\ w.status \in {"REJECTED", "WITHDRAWN", asked[d].status} /\ w.created = asked[d].created
  <2>1. CASE Reject(s)
    <3> DEFINE w == [asked[d] EXCEPT !.status = "REJECTED"]
    <3>1. w \in Asked /\ w.status = "REJECTED" /\ w.created = asked[d].created
      BY <1>0 DEF Asked
    <3>2. CommitAsked(s, w)
      BY <2>1 DEF Reject
    <3> QED  BY <3>1, <3>2
  <2>2. CASE Withdraw(s)
    <3> DEFINE w == [asked[d] EXCEPT !.status = "WITHDRAWN"]
    <3>1. w \in Asked /\ w.status = "WITHDRAWN" /\ w.created = asked[d].created
      BY <1>0 DEF Asked
    <3>2. CommitAsked(s, w)
      BY <2>2 DEF Withdraw
    <3> QED  BY <3>1, <3>2
  <2>3. CASE Amend(s)
    <3> DEFINE w == [asked[d] EXCEPT !.mobile = request[s].mobile]
    <3>1. request[s].mobile \in Mobile \cup {NoMobile}
      BY <2>3, Serves, RequestFields DEF Amend, Serving
    <3>2. w \in Asked /\ w.status = asked[d].status /\ w.created = asked[d].created
      BY <1>0, <3>1 DEF Asked
    <3>3. CommitAsked(s, w)
      BY <2>3 DEF Amend
    <3> QED  BY <3>2, <3>3
  <2> QED  BY <2>1, <2>2, <2>3
<1>2. PICK w \in Asked :
        /\ CommitAsked(s, w)
        /\ w.status \in {"REJECTED", "WITHDRAWN", asked[d].status} /\ w.created = asked[d].created
  BY <1>1
<1>3. /\ shop' \in [ShopId -> Shop \cup {NoShop}]
      /\ \A b \in AskedId : MadeFor(b)' = MadeFor(b)
  BY <1>0 DEF MadeFor, Exists, TypeInv
<1> QED  BY <1>0, <1>2, <1>3, CommitStep

-----------------------------------------------------------------------------
(* The theorems.                                                           *)

LEMMA InitIInv == Init => IInv
<1> SUFFICES ASSUME Init PROVE IInv
  OBVIOUS
<1> USE DEF Init, OnboardingInit, RequestsInit
<1>1. Fresh \in SessionRow /\ Fresh.stage = "arrived"
  BY DEF Fresh, SessionRow, Stage
<1>2. TypeInv
  BY <1>1, ShopsAssumption, OnboardingAssumption, RequestsAssumption DEF TypeInv
<1>3. SessionsInv
  BY <1>1 DEF SessionsInv, SessionInv
<1>4. \A a \in AskedId :
        MadeFor(a) = {i \in ShopId : FirstShops[i] # NoShop /\ FirstShops[i].asked = a}
  BY DEF MadeFor, Exists
<1>5. AskedInv
  BY <1>4, FirstRowsAssumption DEF AskedInv, NoAsked
<1>6. DecidedOnce
  BY <1>4, FirstRowsAssumption DEF DecidedOnce
<1>7. ReadyShopWasConfirmed
  BY FirstRowsAssumption DEF ReadyShopWasConfirmed
<1>8. ShopKeepsAnAddress
  BY FirstRowsAssumption, NotThere DEF ShopKeepsAnAddress, AddressesOf
<1> QED  BY <1>2, <1>3, <1>5, <1>6, <1>7, <1>8 DEF IInv

LEMMA NextIInv == IInv /\ [Next]_vars => IInv'
<1> SUFFICES ASSUME IInv, [Next]_vars PROVE IInv'
  OBVIOUS
<1>1. CASE UNCHANGED vars
  <2>1. TypeInv' /\ SessionsInv'
    BY <1>1 DEF IInv, TypeInv, SessionsInv, SessionInv, vars, onboarding, requests
  <2>2. AskedInv' /\ DecidedOnce' /\ ReadyShopWasConfirmed' /\ ShopKeepsAnAddress'
    BY <1>1 DEF IInv, AskedInv, DecidedOnce, MadeFor, Exists, ReadyShopWasConfirmed,
       ShopKeepsAnAddress, AddressesOf, vars, onboarding, requests
  <2> QED  BY <2>1, <2>2 DEF IInv
<1>2. ASSUME NEW s \in Session, OnboardingStep(s), UNCHANGED requests PROVE IInv'
  <2>1. CASE CreateUser(s)
    BY <1>2, <2>1, CreateUserStep
  <2>2. CASE LinkShop(s)
    BY <1>2, <2>2, LinkShopStep
  <2>3. CASE SignUp(s) \/ ConfirmShop(s)
    BY <1>2, <2>3, FormStep
  <2>4. CASE AddAddress(s)
    BY <1>2, <2>4, AddAddressStep
  <2>5. CASE DeleteAddress(s)
    BY <1>2, <2>5, DeleteAddressStep
  <2>6. CASE FindUser(s) \/ MatchShop(s) \/ Enter(s) \/ LockUser(s) \/ RefuseForm(s) \/ EditForm(s)
             \/ CountAddresses(s) \/ Fail(s)
    BY <1>2, <2>6, SessionSteps
  <2> QED  BY <1>2, <2>1, <2>2, <2>3, <2>4, <2>5, <2>6 DEF OnboardingStep
<1>3. ASSUME NEW s \in Session, RequestStep(s), UNCHANGED onboarding PROVE IInv'
  <2>1. CASE Propose(s)
    BY <1>3, <2>1, ProposeStep
  <2>2. CASE ReadAsked(s) \/ Abandon(s)
    BY <1>3, <2>2, ReadAskedStep
  <2>3. CASE Approve(s)
    BY <1>3, <2>3, ApproveStep
  <2>4. CASE Reject(s) \/ Withdraw(s) \/ Amend(s)
    BY <1>3, <2>4, SettleStep
  <2> QED  BY <1>3, <2>1, <2>2, <2>3, <2>4 DEF RequestStep
<1>4. ASSUME NEW s \in Session, OfficeStep(s), UNCHANGED <<onboarding, requests>> PROVE IInv'
  BY <1>4, OfficeSteps
<1> QED  BY <1>1, <1>2, <1>3, <1>4 DEF Next

\* The invariant the promises are proved from: the copies sessions act on, and
\* that no shop is made for a request that is not there.
THEOREM StorefrontInvariant == Spec => []IInv
BY InitIInv, NextIInv, PTL DEF Spec

\* A salesman's request is acted on once, by however many handlers at a time,
\* unless one committed on a copy from before another's commit.
THEOREM RequestsAreDecidedOnce == Spec => []DecidedOnce
<1>1. IInv => DecidedOnce
  BY DEF IInv
<1> QED  BY <1>1, StorefrontInvariant, PTL

\* An account acts for the shop its owner has confirmed, unless a sign-in
\* linked it with a copy from before the form.
THEOREM AccountsActForConfirmedShops == Spec => []ReadyShopWasConfirmed
<1>1. IInv => ReadyShopWasConfirmed
  BY DEF IInv
<1> QED  BY <1>1, StorefrontInvariant, PTL

\* A confirmed shop keeps an address, unless two deletions of its addresses
\* counted the same ones.
THEOREM ConfirmedShopsKeepAnAddress == Spec => []ShopKeepsAnAddress
<1>1. IInv => ShopKeepsAnAddress
  BY DEF IInv
<1> QED  BY <1>1, StorefrontInvariant, PTL

-----------------------------------------------------------------------------
(* Shops of the store.                                                     *)

\* An account that has confirmed a shop is linked to one.
ConfirmedHasShop ==
  \A m \in Mobile : user[m] # NoUser /\ user[m].shop = NoId => user[m].confirmed = NoId

OwnersInv == ConfirmedHasShop /\ OneShopPerForm

\* No account goes, and what one has confirmed stays.
ConfirmedKept ==
  \A m \in Mobile : user[m] # NoUser =>
    user'[m] # NoUser /\ (user[m].confirmed # NoId => user'[m].confirmed = user[m].confirmed)

\* A shop of the store was one before, or an account has confirmed it by now.
NewShopsOwned ==
  \A i \in ShopId : shop'[i] # NoShop /\ shop'[i].source = "STORE" =>
    \/ shop[i] # NoShop /\ shop[i].source = "STORE"
    \/ \E m \in Mobile : user'[m] # NoUser /\ user'[m].confirmed = i

LEMMA OwnersKept ==
  ASSUME OwnersInv, ConfirmedKept, NewShopsOwned, ConfirmedHasShop'
  PROVE  OwnersInv'
<1>1. ASSUME NEW i \in ShopId, shop'[i] # NoShop, shop'[i].source = "STORE"
      PROVE  \E m \in Mobile : user'[m] # NoUser /\ user'[m].confirmed = i
  <2>1. CASE shop[i] # NoShop /\ shop[i].source = "STORE"
    <3>1. PICK m \in Mobile : user[m] # NoUser /\ user[m].confirmed = i
      BY <2>1 DEF OwnersInv, OneShopPerForm, Exists
    <3>2. user'[m] # NoUser /\ user'[m].confirmed = i
      BY <3>1, NotThere DEF ConfirmedKept
    <3> QED  BY <3>2
  <2> QED  BY <1>1, <2>1 DEF NewShopsOwned
<1> QED  BY <1>1 DEF OwnersInv, OneShopPerForm, Exists

\* A shop made by the office, or edited, is no new shop of the store.
LEMMA OfficeShops ==
  ASSUME IInv, OwnersInv, UNCHANGED user,
         \A i \in ShopId : shop'[i] # NoShop /\ shop'[i].source = "STORE" =>
                             shop[i] # NoShop /\ shop[i].source = "STORE"
  PROVE  OwnersInv'
<1>1. ConfirmedKept /\ NewShopsOwned /\ ConfirmedHasShop'
  BY DEF ConfirmedKept, NewShopsOwned, OwnersInv, ConfirmedHasShop
<1> QED  BY <1>1, OwnersKept

LEMMA FormOwners ==
  ASSUME IInv, OwnersInv, NEW s \in Session, SignUp(s) \/ ConfirmShop(s)
  PROVE  OwnersInv'
<1> DEFINE m == request[s].mobile
           me == session[s].me
<1>0. /\ TypeInv /\ SessionInv(s) /\ m \in Mobile /\ session[s].stage = "locked"
  BY Serves DEF SignUp, ConfirmShop, Serving, SignsUp
<1>1. me = user[m] /\ me \in User /\ me # NoUser
  BY <1>0, NotThere DEF SessionInv
<1>2. me.confirmed = NoId
  BY <1>0, <1>1 DEF SignUp, ConfirmShop, State, OwnersInv, ConfirmedHasShop
<1>3. PICK i \in ShopId :
        /\ user'[m] \in User /\ user'[m].shop = i /\ user'[m].confirmed = i
        /\ \A n \in Mobile \ {m} : user'[n] = user[n]
        /\ \A j \in ShopId \ {i} : shop'[j] = shop[j]
  <2>1. CASE SignUp(s)
    <3>1. PICK i \in FreeId :
            /\ user' = [user EXCEPT ![m].shop = i, ![m].confirmed = i]
            /\ \A j \in ShopId \ {i} : shop'[j] = shop[j]
      BY <1>0, <2>1 DEF SignUp, TypeInv
    <3>2. user'[m] = [me EXCEPT !.shop = i, !.confirmed = i] /\ i \in ShopId
      BY <1>0, <1>1, <3>1 DEF TypeInv, FreeId
    <3>3. user'[m] \in User /\ user'[m].shop = i /\ user'[m].confirmed = i
      BY <1>1, <3>2 DEF User
    <3> QED  BY <1>0, <3>1, <3>2, <3>3 DEF TypeInv
  <2>2. CASE ConfirmShop(s)
    <3>1. State(me) = "confirm" /\ UNCHANGED shop /\ user' = [user EXCEPT ![m].confirmed = me.shop]
      BY <2>2 DEF ConfirmShop
    <3>2. me.shop \in ShopId
      BY <1>1, <3>1 DEF State, User
    <3>3. user'[m] = [me EXCEPT !.confirmed = me.shop]
      BY <1>0, <1>1, <3>1 DEF TypeInv
    <3>4. user'[m] \in User /\ user'[m].shop = me.shop /\ user'[m].confirmed = me.shop
      BY <1>1, <3>2, <3>3 DEF User
    <3> QED  BY <1>0, <3>1, <3>2, <3>4 DEF TypeInv
  <2> QED  BY <2>1, <2>2
<1>4. ConfirmedKept /\ NewShopsOwned
  <2>1. user'[m] # NoUser
    BY <1>3, NotThere
  <2>2. ConfirmedKept
    BY <1>1, <1>2, <1>3, <2>1 DEF ConfirmedKept
  <2>3. NewShopsOwned
    BY <1>0, <1>3, <2>1 DEF NewShopsOwned
  <2> QED  BY <2>2, <2>3
<1>5. ConfirmedHasShop'
  BY <1>3, NotThere DEF OwnersInv, ConfirmedHasShop
<1> QED  BY <1>4, <1>5, OwnersKept

\* Signing in makes accounts and links them, and confirms nothing.
LEMMA SignInOwners ==
  ASSUME IInv, OwnersInv, NEW s \in Session, CreateUser(s) \/ LinkShop(s)
  PROVE  OwnersInv'
<1> DEFINE m == request[s].mobile
<1>0. TypeInv /\ SessionInv(s) /\ m \in Mobile /\ UNCHANGED shop
  BY Serves DEF CreateUser, LinkShop, Serving, SignsUp
<1>1. CASE CreateUser(s)
  <2> DEFINE new == [shop |-> NoId, active |-> TRUE, confirmed |-> NoId]
  <2>1. new \in User /\ new.confirmed = NoId
    BY DEF User
  <2>2. user' = IF user[m] = NoUser THEN [user EXCEPT ![m] = new] ELSE user
    BY <1>1 DEF CreateUser
  <2> HIDE DEF new
  <2>3. \A n \in Mobile : user'[n] = user[n] \/ (user[n] = NoUser /\ user'[n] = new)
    BY <1>0, <2>2 DEF TypeInv
  <2>4. ConfirmedKept /\ NewShopsOwned /\ ConfirmedHasShop'
    BY <1>0, <2>1, <2>3, NotThere
    DEF ConfirmedKept, NewShopsOwned, OwnersInv, ConfirmedHasShop
  <2> QED  BY <2>4, OwnersKept
<1>2. CASE LinkShop(s)
  <2>1. user[m] \in User /\ session[s].shop \in ShopId
    BY <1>0, <1>2 DEF LinkShop, Serving, SessionInv, TypeInv
  <2>2. user' = [user EXCEPT ![m].shop = session[s].shop]
    BY <1>2 DEF LinkShop
  <2>3. user'[m] = [user[m] EXCEPT !.shop = session[s].shop] /\ \A n \in Mobile \ {m} : user'[n] = user[n]
    BY <1>0, <2>2 DEF TypeInv
  <2>4. user'[m] \in User /\ user'[m].shop = session[s].shop /\ user'[m].confirmed = user[m].confirmed
    BY <2>1, <2>3 DEF User
  <2>5. ConfirmedKept /\ NewShopsOwned /\ ConfirmedHasShop'
    BY <1>0, <2>1, <2>3, <2>4, NotThere
    DEF ConfirmedKept, NewShopsOwned, OwnersInv, ConfirmedHasShop
  <2> QED  BY <2>5, OwnersKept
<1> QED  BY <1>1, <1>2

LEMMA NextOwners == IInv /\ OwnersInv /\ [Next]_vars => OwnersInv'
<1> SUFFICES ASSUME IInv, OwnersInv, [Next]_vars PROVE OwnersInv'
  OBVIOUS
<1>1. CASE UNCHANGED <<shop, user>>
  BY <1>1, OfficeShops
<1>2. ASSUME NEW s \in Session, OnboardingStep(s) PROVE OwnersInv'
  <2>1. CASE CreateUser(s) \/ LinkShop(s)
    BY <2>1, SignInOwners
  <2>2. CASE SignUp(s) \/ ConfirmShop(s)
    BY <2>2, FormOwners
  <2>3. CASE ~(CreateUser(s) \/ LinkShop(s) \/ SignUp(s) \/ ConfirmShop(s))
    <3>1. UNCHANGED <<shop, user>>
      BY <1>2, <2>3 DEF OnboardingStep, FindUser, MatchShop, Enter, LockUser, RefuseForm, EditForm,
         AddAddress, CountAddresses, DeleteAddress, Fail, onboarding
    <3> QED  BY <1>1, <3>1
  <2> QED  BY <2>1, <2>2, <2>3
<1>3. ASSUME NEW s \in Session, RequestStep(s), UNCHANGED onboarding PROVE OwnersInv'
  <2>1. TypeInv
    BY DEF IInv
  <2>2. CASE UNCHANGED shop
    BY <1>1, <1>3, <2>2 DEF onboarding
  <2>3. CASE Propose(s) \/ Approve(s)
    <3>1. \A i \in FreeId : i \in ShopId
      BY DEF FreeId
    <3>2. PICK i \in FreeId : /\ shop'[i].source = "OFFICE"
                              /\ \A j \in ShopId \ {i} : shop'[j] = shop[j]
      <4>1. CASE Propose(s)
        BY <2>1, <3>1, <4>1 DEF Propose, TypeInv
      <4>2. CASE Approve(s)
        BY <2>1, <3>1, <4>2 DEF Approve, TypeInv
      <4> QED  BY <2>3, <4>1, <4>2
    <3> QED  BY <1>3, <3>2, OfficeShops DEF onboarding
  <2> QED
    BY <1>3, <2>2, <2>3 DEF RequestStep, ReadAsked, Reject, Withdraw, Amend, Abandon
<1>4. ASSUME NEW s \in Session, OfficeStep(s), UNCHANGED <<onboarding, requests>> PROVE OwnersInv'
  <2>1. TypeInv
    BY DEF IInv
  <2>2. CASE OpenShop(s)
    <3>1. PICK i \in FreeId : /\ shop'[i].source = "OFFICE"
                              /\ \A j \in ShopId \ {i} : shop'[j] = shop[j]
      BY <2>1, <2>2 DEF OpenShop, TypeInv, FreeId
    <3> QED  BY <1>4, <3>1, OfficeShops DEF onboarding
  <2>3. CASE EditShop(s)
    <3> DEFINE r == request[s]
    <3>1. /\ r.shop \in ShopId /\ shop[r.shop] \in Shop /\ shop[r.shop] # NoShop
          /\ shop'[r.shop] = [shop[r.shop] EXCEPT !.mobile = r.mobile, !.salesman = r.salesman]
          /\ \A j \in ShopId \ {r.shop} : shop'[j] = shop[j]
      BY <2>1, <2>3 DEF EditShop, Exists, TypeInv
    <3>2. shop'[r.shop].source = shop[r.shop].source
      BY <3>1 DEF Shop
    <3> QED  BY <1>4, <3>1, <3>2, OfficeShops DEF onboarding
  <2> QED  BY <1>4, <2>2, <2>3 DEF OfficeStep
<1>5. CASE UNCHANGED vars
  BY <1>1, <1>5 DEF vars, onboarding
<1> QED  BY <1>2, <1>3, <1>4, <1>5 DEF Next

\* However often, and at however many sessions at once, an account sends its
\* first shop form, it leaves no shop behind that is not the one it confirmed.
THEOREM FormsSignUpOneShop == Spec => []OneShopPerForm
<1>1. Init => OwnersInv
  BY FirstRowsAssumption, NotThere
  DEF Init, OnboardingInit, OwnersInv, OneShopPerForm, ConfirmedHasShop, Exists
<1>2. OwnersInv => OneShopPerForm
  BY DEF OwnersInv
<1> QED  BY <1>1, <1>2, NextOwners, StorefrontInvariant, PTL DEF Spec
=============================================================================
