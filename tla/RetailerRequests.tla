-------------------------- MODULE RetailerRequests --------------------------
(***************************************************************************)
(* Salesmen's requests for new shops (app/services/retailer_request.py).   *)
(* A salesman's request makes its shop at once; requests from before that  *)
(* are PENDING until one of four handlers acts on them, each of which      *)
(* reads the row without a lock and commits the attributes it changed.     *)
(***************************************************************************)
EXTENDS Shops

CONSTANTS
  MaxAsked,   \* the bound of the ids of requests
  FirstAsked  \* the rows there are at first

AskedId == 1 .. MaxAsked

\* RetailerRequest: who asks, the status, the shop's number and the shop made.
Asked ==
  [by : Salesman, status : {"PENDING", "APPROVED", "REJECTED", "WITHDRAWN"},
   mobile : Mobile \cup {NoMobile}, created : ShopId \cup {NoId}]
NoAsked == [status |-> "NONE"]

ASSUME RequestsAssumption ==
  /\ MaxAsked \in Nat
  /\ FirstAsked \in [AskedId -> Asked \cup {NoAsked}]

VARIABLES
  asked, \* RetailerRequest rows by id
  copy,  \* the row each session has read
  lapsed \* requests written by a session whose copy was out of date

requests == <<asked, copy, lapsed>>

Decisions == {"approve", "reject", "withdraw", "amend"}

\* create_request: the shop, and the request it is the answer to.
Propose(s) ==
  LET r == request[s] IN
  /\ Serving(s, {"propose"}, "arrived")
  /\ \E i \in FreeId, a \in AskedId :
       /\ asked[a] = NoAsked /\ \A b \in 1 .. a - 1 : asked[b] # NoAsked
       /\ shop' = [shop EXCEPT ![i] =
            [mobile |-> r.mobile, salesman |-> r.by, source |-> "OFFICE", asked |-> a]]
       /\ asked' = [asked EXCEPT ![a] =
            [by |-> r.by, status |-> "APPROVED", mobile |-> r.mobile, created |-> i]]
  /\ session' = [session EXCEPT ![s].stage = "answered"]
  /\ UNCHANGED <<request, copy, lapsed>>

\* Wrong variant: a request that is decided is decided again.
Redecidable(r, row) == r.op \in {"withdraw", "amend"} => row.by = r.by

\* _own_pending of a salesman, and the checks of approve and reject.
Decidable(r, row) ==
  /\ row.status = "PENDING"
  /\ r.op \in {"withdraw", "amend"} => row.by = r.by

ReadAsked(s) ==
  LET r == request[s] IN
  /\ Serving(s, Decisions, "arrived")
  /\ asked[r.id] # NoAsked
  /\ IF Decidable(r, asked[r.id])
     THEN /\ copy' = [copy EXCEPT ![s] = asked[r.id]]
          /\ session' = [session EXCEPT ![s].stage = "read"]
     ELSE /\ session' = [session EXCEPT ![s].stage = "refused"]
          /\ UNCHANGED copy
  /\ UNCHANGED <<shop, request, asked, lapsed>>

\* A commit, of what `written` makes of the row, on the copy the session has.
CommitAsked(s, written) ==
  LET id == request[s].id IN
  /\ asked' = [asked EXCEPT ![id] = written]
  /\ lapsed' = IF asked[id] # copy[s] THEN lapsed \cup {id} ELSE lapsed
  /\ copy' = [copy EXCEPT ![s] = NoAsked]
  /\ session' = [session EXCEPT ![s].stage = "answered"]
  /\ UNCHANGED request

\* The shop is what the copy says; status and shop of the request are written.
Approve(s) ==
  LET row == copy[s] IN
  /\ Serving(s, {"approve"}, "read")
  /\ \E i \in FreeId :
       /\ shop' = [shop EXCEPT ![i] =
            [mobile |-> row.mobile, salesman |-> row.by, source |-> "OFFICE", asked |-> request[s].id]]
       /\ CommitAsked(s, [asked[request[s].id] EXCEPT !.status = "APPROVED", !.created = i])

Reject(s) ==
  /\ Serving(s, {"reject"}, "read")
  /\ CommitAsked(s, [asked[request[s].id] EXCEPT !.status = "REJECTED"])
  /\ UNCHANGED shop

Withdraw(s) ==
  /\ Serving(s, {"withdraw"}, "read")
  /\ CommitAsked(s, [asked[request[s].id] EXCEPT !.status = "WITHDRAWN"])
  /\ UNCHANGED shop

\* update_request, of the number.
Amend(s) ==
  /\ Serving(s, {"amend"}, "read")
  /\ CommitAsked(s, [asked[request[s].id] EXCEPT !.mobile = request[s].mobile])
  /\ UNCHANGED shop

\* A worker dies: nothing is written.
Abandon(s) ==
  /\ request[s].op \in Decisions /\ session[s].stage \notin Answers
  /\ session' = [session EXCEPT ![s].stage = "failed"]
  /\ copy' = [copy EXCEPT ![s] = NoAsked]
  /\ UNCHANGED <<shop, request, asked, lapsed>>

RequestStep(s) ==
  \/ Propose(s) \/ ReadAsked(s) \/ Approve(s) \/ Reject(s) \/ Withdraw(s) \/ Amend(s) \/ Abandon(s)

RequestsInit ==
  /\ asked = FirstAsked
  /\ copy = [s \in Session |-> NoAsked]
  /\ lapsed = {}

-----------------------------------------------------------------------------
MadeFor(a) == {i \in ShopId : Exists(i) /\ shop[i].asked = a}

\* A request is acted on exactly once (retailer_request.py:3-6): an approved
\* one has its shop, which is its only one and the one it names; any other has
\* none.  It holds of a request as long as no handler committed on a copy from
\* before another's.
DecidedOnce ==
  \A a \in AskedId \ lapsed :
    asked[a] # NoAsked =>
      IF asked[a].status = "APPROVED"
      THEN MadeFor(a) = {asked[a].created}
      ELSE MadeFor(a) = {} /\ asked[a].created = NoId
=============================================================================
