------------------------------ MODULE Outlets ------------------------------
(***************************************************************************)
(* The outlet finder: drivers are given jobs, a list of shops each, accept *)
(* them and mark the shops they have visited; a position taken at a shop's *)
(* door, here or when an order is closed, may move the pin of the shop     *)
(* (app/routers/outlet_finder.py, app/services/outlet_geo.py).  The        *)
(* shopkeeper's own form sets it to wherever the form says                 *)
(* (app/services/retailer_onboarding.py).                                  *)
(*                                                                         *)
(* Places lie on a line and are as far apart as their numbers say.  Who is *)
(* asked for by which external id, and which roles may ask, is left out: a *)
(* request names the shop by its id and comes from a user who may send it. *)
(***************************************************************************)
EXTENDS MasterTables

CONSTANTS
  Threshold, OuterLimit,  \* DELIVERY_COORD_THRESHOLD_M, DELIVERY_COORD_OUTER_LIMIT_M
  User,                   \* the logins of drivers, and of others who close orders
  DriverOf,               \* the driver a login is linked to
  Driver, NoDriver,
  Shopkeeper,             \* accounts of the storefront that sign-in has linked to a shop
  ShopOf,                 \* the shop of such an account, users.retailer_id
  FirstJobs               \* the jobs there are at first

\* OutletAssignment with its items; earlier: the sessions whose transaction had
\* begun when it was accepted, which created_at and accepted_at tell apart.
Job ==
  [driver : Driver, shops : SUBSET Id, accepted : BOOLEAN, earlier : SUBSET Session]

\* OutletDelivery; before: the pin that was stored.
Visit(r, pin, moved, confirmed) ==
  [by |-> r.user, shop |-> r.shop, spot |-> r.spot, before |-> pin,
   moved |-> moved, confirmed |-> confirmed]

ASSUME OutletsAssumption ==
  /\ Threshold \in Nat /\ OuterLimit \in Nat /\ Threshold <= OuterLimit
  /\ NoDriver \notin Driver /\ DriverOf \in [User -> Driver \cup {NoDriver}]
  /\ ShopOf \in [Shopkeeper -> Id]
  /\ \A a \in Shopkeeper : FirstRows["retailers"][ShopOf[a]] # Absent
  /\ FirstJobs \in Seq(Job)

VARIABLES
  visits,        \* the outlet_deliveries, by the session that has recorded each
  jobs,          \* the outlet_assignments in order
  confirmation   \* users.shop_confirmed_at: the session that set it, by account

outlets == <<visits, jobs, confirmation>>

Kept == <<posted, next, request, rewound, raced>>

-----------------------------------------------------------------------------
(* A position at the door.                                                 *)

PinOf(i) == row["retailers"][i].spot

\* No pin is as good as no distance, which is not a distance of zero.
NoDistance == -1
Distance(pin, spot) ==
  IF pin = NoSpot THEN NoDistance ELSE IF pin < spot THEN spot - pin ELSE pin - spot

Beyond(pin, spot) == Distance(pin, spot) > OuterLimit

\* Wrong variant: a distant reading moves the pin without a confirmation.
MovesUnasked(pin, spot, confirmed) == Distance(pin, spot) \notin 0 .. Threshold - 1

\* should_update_retailer
Moves(pin, spot, confirmed) ==
  /\ Distance(pin, spot) \notin 0 .. Threshold - 1
  /\ Beyond(pin, spot) => confirmed

\* mark_delivered reads the shop and answers at once when the fix is too fuzzy,
\* the shop unknown or, for a distant one, a confirmation wanted.
ReadShop(s) ==
  LET r == request[s] IN
  /\ At(s, "mark", "arrived")
  /\ IF r.fuzzy \/ ~Exists("retailers", r.shop) THEN Go(s, "refused")
     ELSE IF Beyond(PinOf(r.shop), r.spot) /\ ~r.confirm THEN Go(s, "asked")
     ELSE session' = [session EXCEPT ![s].stage = "recording", ![s].copy = [pin |-> PinOf(r.shop)]]
  /\ UNCHANGED <<row, outlets, Kept>>

\* The order of a shop is closed: without a fix, or with a fuzzy one, the order
\* is delivered all the same and nothing is recorded.
CloseOrder(s) ==
  LET r == request[s] IN
  /\ At(s, "close", "arrived")
  /\ IF r.fuzzy \/ r.spot = NoSpot THEN Go(s, "done")
     ELSE session' = [session EXCEPT ![s].stage = "recording", ![s].copy = [pin |-> PinOf(r.shop)]]
  /\ UNCHANGED <<row, outlets, Kept>>

\* Wrong variant: the pin follows an order to wherever it goes.
MayMoveAnywhere(r) == TRUE

\* An order to an address of its own says nothing of where the shop is.
MayMove(r) == r.do = "mark" \/ ~r.elsewhere

\* record_delivery_location and the commit: the row, and the pin when the
\* reading earns it by the pin that was read.
RecordVisit(s) ==
  LET r == request[s]
      pin == session[s].copy.pin
      confirmed == r.do = "mark" /\ Beyond(pin, r.spot)
      moved == MayMove(r) /\ Moves(pin, r.spot, confirmed)
  IN
  /\ r.do \in {"mark", "close"} /\ session[s].stage = "recording"
  /\ visits' = Overlay([u \in {s} |-> Visit(r, pin, moved, confirmed)], visits)
  /\ row' = IF moved THEN [row EXCEPT !["retailers"][r.shop].spot = r.spot] ELSE row
  /\ session' = [session EXCEPT ![s] = [Fresh EXCEPT !.stage = "done"]]
  /\ UNCHANGED <<jobs, confirmation, Kept>>

-----------------------------------------------------------------------------
(* The shopkeeper's form.                                                  *)

\* Wrong variant: a form sent again is a confirmation again.
FormAlwaysSets(a) == {"name", "spot"}

\* What a form sets: in state "confirm" all of the shop, in state "ready" its
\* name.  GSTIN and the text of the address are left out.
FormSets(a) == IF a \in DOMAIN confirmation THEN {"name"} ELSE {"name", "spot"}

\* complete_shop locks the account, looks at its state again and reads the shop;
\* a form that confirms needs an address, whose coordinates it may not omit.
ReadOwnShop(s) ==
  LET r == request[s] IN
  /\ At(s, "own shop", "arrived")
  /\ \A u \in Session : ~(At(u, "own shop", "saving") /\ request[u].by = r.by)
  /\ IF ~(FormSets(r.by) \subseteq DOMAIN r.set) THEN Go(s, "refused")
     ELSE session' = [session EXCEPT ![s].stage = "saving",
                                     ![s].copy = row["retailers"][ShopOf[r.by]]]
  /\ UNCHANGED <<row, outlets, Kept>>

\* The commit writes the columns that differ from those that were read, however
\* far the pin is from where it was.
SaveOwnShop(s) ==
  LET r == request[s]
      written == {c \in FormSets(r.by) \cap DOMAIN r.set : r.set[c] # session[s].copy[c]}
  IN
  /\ At(s, "own shop", "saving")
  /\ row' = [row EXCEPT !["retailers"][ShopOf[r.by]] = Overlay([c \in written |-> r.set[c]], @)]
  /\ confirmation' = Overlay(confirmation, [a \in {r.by} |-> s])
  /\ session' = [session EXCEPT ![s] = [Fresh EXCEPT !.stage = "done"]]
  /\ UNCHANGED <<visits, jobs, Kept>>

-----------------------------------------------------------------------------
(* Jobs.                                                                   *)

\* create_assignment: the shops that are found; the others are left out.
Assign(s) ==
  LET r == request[s]
      found == {i \in r.shops : Exists("retailers", i)}
  IN
  /\ At(s, "assign", "arrived")
  /\ IF r.driver \in Driver /\ found # {}
     THEN /\ jobs' = Append(jobs, [driver |-> r.driver, shops |-> found,
                                   accepted |-> FALSE, earlier |-> {}])
          /\ Go(s, "done")
     ELSE UNCHANGED jobs /\ Go(s, "refused")
  /\ UNCHANGED <<row, visits, confirmation, Kept>>

\* Wrong variant: an accepted job is accepted anew.
Reaccepts(job) == TRUE

\* Whether accepting a job changes it.
Accepts(job) == ~job.accepted

\* accept_assignment reads the job, and takes no lock.
ReadJob(s) ==
  LET r == request[s] IN
  /\ At(s, "accept", "arrived")
  /\ IF r.job \notin DOMAIN jobs \/ DriverOf[r.user] = NoDriver THEN Go(s, "refused")
     ELSE IF jobs[r.job].driver # DriverOf[r.user] THEN Go(s, "refused")
     ELSE IF ~Accepts(jobs[r.job]) THEN Go(s, "done")
     ELSE session' = [session EXCEPT ![s].stage = "accepting", ![s].copy = jobs[r.job]]
  /\ UNCHANGED <<row, outlets, Kept>>

\* created_at of a visit is when its transaction began, accepted_at the time of
\* the acceptance: the visits begun before it are earlier ones.
Accept(s) ==
  /\ At(s, "accept", "accepting")
  /\ jobs' = [jobs EXCEPT
       ![request[s].job].accepted = TRUE,
       ![request[s].job].earlier =
         {u \in Session : request[u].do \in {"mark", "close"} /\ session[u].stage # "arrived"}]
  /\ session' = [session EXCEPT ![s] = [Fresh EXCEPT !.stage = "done"]]
  /\ UNCHANGED <<row, visits, confirmation, Kept>>

OutletStep(s) ==
  \/ ReadShop(s) \/ CloseOrder(s) \/ RecordVisit(s)
  \/ ReadOwnShop(s) \/ SaveOwnShop(s)
  \/ Assign(s) \/ ReadJob(s) \/ Accept(s)

OutletsInit == visits = <<>> /\ jobs = FirstJobs /\ confirmation = <<>>

LoginsOf(driver) == {u \in User : DriverOf[u] = driver}

\* _assignment_to_response: the shops of a job shown delivered, for a visit by a
\* login of the driver; once the job is accepted, for one that is not earlier.
Delivered(j) ==
  {i \in jobs[j].shops : \E u \in DOMAIN visits :
     /\ visits[u].shop = i
     /\ visits[u].by \in LoginsOf(jobs[j].driver)
     /\ jobs[j].accepted => u \notin jobs[j].earlier}

\* my_assignments
Mine(u) == {j \in DOMAIN jobs : jobs[j].driver = DriverOf[u]}
=============================================================================
