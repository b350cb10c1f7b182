----------------------------- MODULE Catalogue -----------------------------
(***************************************************************************)
(* Master data under its writers at once: the forms of the office, the     *)
(* import of workbooks, the script that fills in the storefront's          *)
(* catalogue, the drivers at the shops and the shopkeepers who confirm     *)
(* theirs, each a session that takes its own steps.  These are all that    *)
(* change a row there is.  New retailers come also from a salesman's       *)
(* request and from the form of a shopkeeper without a shop, each of which *)
(* inserts one as the office's form does (Create); what they check before  *)
(* is in module Storefront.                                                *)
(***************************************************************************)
EXTENDS Imports, CatalogueSeed, Outlets

Next ==
  \E s \in Session :
    \/ (OfficeStep(s) \/ ImportStep(s) \/ SeedStep(s)) /\ UNCHANGED outlets
    \/ OutletStep(s)

allVars == <<vars, outlets>>

\* What a request may carry.  A workbook names no ids, and its brands and
\* warehouses are inserted before what belongs to them; a form sets columns
\* that the row has; a shopkeeper's form has a name, and an address its place
\* (StoreShopIn, StoreAddressIn); an order that is closed is an order of a shop.
Sets(set) ==
  /\ DOMAIN set \subseteq {"name", "parent", "image", "aisle", "spot"}
  /\ "name" \in DOMAIN set => set.name \in Name
  /\ "parent" \in DOMAIN set => set.parent \in Id \cup {NoId}
  /\ "image" \in DOMAIN set => set.image \in Image \cup {NoImage}
  /\ "aisle" \in DOMAIN set => set.aisle \in Id \cup {NoId}
  /\ "spot" \in DOMAIN set => set.spot \in Int \cup {NoSpot}

Cell == Name \cup {NoName} \cup Manager \cup Salesman

PossibleRequest(r) ==
  /\ r.do = "import" =>
       /\ r.book \in Seq([table : Table, name : Name \cup {NoName}, of : Cell, parent : {NoId}])
       /\ \A k, j \in DOMAIN r.book :
            r.book[k].table \in {"skus", "beats"} /\ r.book[j].table = ParentTable(r.book[k].table) => j < k
  /\ r.do = "create" =>
       r.table \in Table /\ r.name \in Name /\ r.of \in Cell /\ r.parent \in Id \cup {NoId}
  /\ r.do = "edit" => r.table \in {"brands", "skus", "categories"} /\ Sets(r.set)
  /\ r.do = "edit retailer" => Sets(r.set)
  /\ r.do \in {"mark", "close"} => r.spot \in Int \cup {NoSpot}
  /\ r.do = "mark" => r.spot # NoSpot
  /\ r.do = "own shop" =>
       /\ r.by \in Shopkeeper /\ Sets(r.set) /\ "name" \in DOMAIN r.set
       /\ "spot" \in DOMAIN r.set => r.set.spot # NoSpot
  /\ r.do = "close" => r.shop \in Id /\ FirstRows["retailers"][r.shop] # Absent

ASSUME RequestAssumption == \A r \in Request : PossibleRequest(r)

Init == TablesInit /\ OutletsInit

Spec == Init /\ [][Next]_allVars

-----------------------------------------------------------------------------
(* What the office relies on.                                              *)

\* No insert is refused because of its id, as long as no sequence was set back
\* while another session held an id it had drawn: the condition under which
\* reclaim_sequences calls itself safe (transactions.py:24-25).
IdsAreFresh ==
  \A s \in Session :
    session[s].stage = "duplicate id" \/ session[s].why = "duplicate id" => rewound # {}

\* A SKU or a beat whose brand or warehouse is in the same workbook.
HasParentIn(book, k) ==
  book[k].table \in {"skus", "beats"} /\ book[k].of \in NamesIn(book, ParentTable(book[k].table))

\* The rows of a table that a step adds.
New(t) == {i \in Id : row[t][i] = Absent /\ row'[t][i] # Absent}

\* "If any sheet has errors, nothing is written" (excel_import.py:229): rows
\* appear when a request is answered, and an import adds every row of its
\* workbook together with the row the workbook says it belongs to.
ImportIsWhole ==
  [][/\ row' # row => \E s \in Session : session'[s].stage \in {"done", "set beat"}
     /\ \A s \in Session :
          At(s, "import", "inserting") /\ session'[s].stage = "done" =>
            LET book == request[s].book IN
            \A k \in DOMAIN book : \E i \in New(book[k].table) :
              /\ row'[book[k].table][i].name = book[k].name
              /\ HasParentIn(book, k) =>
                   /\ row'[book[k].table][i].parent \in New(ParentTable(book[k].table))
                   /\ row'[ParentTable(book[k].table)][row'[book[k].table][i].parent].name = book[k].of
              /\ book[k].table = "skus" => row'["skus"][i].parent # NoId]_allVars

\* "Anything an admin set by hand is never overwritten"
\* (seed_storefront_catalogue.py:7): what a SKU shows changes only by an edit
\* of that SKU, unless it was edited between the script's read and its flush.
HandSetIsKept ==
  [][\A i \in Id :
       LET old == row["skus"][i]  new == row'["skus"][i] IN
       /\ Exists("skus", i) /\ i \notin raced
       /\ \/ old.image # NoImage /\ new.image # old.image
          \/ old.aisle # NoId /\ new.aisle # old.aisle
       => \E s \in Session :
            /\ At(s, "edit", "arrived") /\ session'[s].stage = "done"
            /\ request[s].table = "skus" /\ request[s].id = i]_allVars

\* The office has set a pin; the shopkeeper has, once, by the form that confirmed
\* the shop; a driver has, at the shop itself, near the pin that was replaced or
\* sure of being at the right one.
SetByOffice(i, pin) ==
  \E s \in Session :
    /\ request[s].do = "edit retailer" /\ session[s].stage # "arrived"
    /\ request[s].id = i /\ "spot" \in DOMAIN request[s].set
    /\ request[s].set.spot = pin
SetByShopkeeper(i, pin) ==
  \E a \in DOMAIN confirmation :
    /\ ShopOf[a] = i
    /\ "spot" \in DOMAIN request[confirmation[a]].set
    /\ request[confirmation[a]].set.spot = pin
SetAtDoor(i, pin) ==
  \E s \in DOMAIN visits :
    /\ visits[s].shop = i /\ visits[s].moved /\ visits[s].spot = pin
    /\ ~request[s].fuzzy /\ (request[s].do = "close" => ~request[s].elsewhere)
    /\ visits[s].before # NoSpot =>
         /\ Distance(visits[s].before, pin) >= Threshold
         /\ Distance(visits[s].before, pin) <= OuterLimit \/ visits[s].confirmed

\* "the drift would be invisible until a retailer's pin quietly moved"
\* (outlet_geo.py:6-7): whatever copies of it the writers held, a pin is the
\* first one, the office's, that of the one form by which an account has
\* confirmed the shop, or one that a driver has reported at the door.
PinIsEvidenced ==
  \A i \in Id : Exists("retailers", i) /\ FirstRows["retailers"][i] # Absent =>
    \/ PinOf(i) = FirstRows["retailers"][i].spot
    \/ SetByOffice(i, PinOf(i))
    \/ SetByShopkeeper(i, PinOf(i))
    \/ SetAtDoor(i, PinOf(i))

\* A shop that a driver's accepted job shows as delivered stays so, whatever
\* the driver repeats, except when a request to accept the job that had read it
\* still pending is late (outlet_finder.py:278-281).
ProgressIsKept ==
  [][\A u \in User : \A j \in Mine(u) :
       jobs[j].accepted /\ ~(Delivered(j) \subseteq Delivered(j)') =>
         \E s \in Session :
           /\ At(s, "accept", "accepting") /\ session'[s].stage = "done"
           /\ request[s].job = j /\ ~session[s].copy.accepted]_allVars
=============================================================================
