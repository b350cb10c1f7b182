---------------------------- MODULE MasterTables ----------------------------
(***************************************************************************)
(* The tables of master data - brands, retailers, warehouses, SKUs, beats  *)
(* and categories - and the transactions that add rows to them: an id is   *)
(* drawn from the sequence of the table, the insert waits for transactions *)
(* that have inserted the same key and not ended, and commits with the     *)
(* others of its transaction or not at all.  A drawn id is not given back  *)
(* by a rollback.  Here are the forms of the office, which create one row  *)
(* or edit one; module Imports has the workbook and CatalogueSeed the      *)
(* script that fills in what a SKU lacks.                                  *)
(***************************************************************************)
EXTENDS Integers, Sequences, FiniteSets, FiniteSetsExt

CONSTANTS
  Name, NoName,     \* names; the code of a SKU, who manages a warehouse
  Image, NoImage,   \* the images a SKU may be shown with
  NoSpot,           \* a shop without a pin on the map
  Manager, Salesman,\* the names of the employees of those roles
  MaxId,            \* bound: the last id of a table
  Session,          \* sessions of the server and runs of scripts, one request each
  Request,          \* the requests that may arrive
  FirstRows         \* the rows there are at first

Table == {"brands", "retailers", "warehouses", "skus", "beats", "categories"}
Id == 1 .. MaxId
NoId == 0

\* parent: the brand of a SKU, the warehouse of a beat, the beat of a retailer;
\* spot: the place of the retailer's pin.
Row ==
  [name : Name, parent : Id \cup {NoId}, image : Image \cup {NoImage}, aisle : Id \cup {NoId},
   spot : Int \cup {NoSpot}]
Absent == [name |-> NoName]

\* The tables in which a name is unique: of a SKU it is the code.  The external
\* id of a retailer is unique too, and left out: a retailer has only its name here.
Unique == {"skus", "beats", "categories"}

ASSUME TablesAssumption ==
  /\ MaxId \in Nat /\ NoName \notin Name /\ NoImage \notin Image /\ NoSpot \notin Int
  /\ FirstRows \in [Table -> [Id -> Row \cup {Absent}]]

VARIABLES
  row,      \* the committed rows of a table, by id
  posted,   \* Employee.warehouse_id of the managers
  next,     \* the next id the sequence of a table gives
  request,  \* the request each session serves
  session,  \* how far each session is; what it has drawn, inserted and filled in
  rewound,  \* tables whose sequence was reclaimed while another session held an id
  raced     \* SKUs filled in after an edit that the script had not seen

tables == <<row, posted, next>>
vars == <<row, posted, next, request, session, rewound, raced>>

At(s, do, stage) == request[s].do = do /\ session[s].stage = stage
Exists(t, i) == i \in Id /\ row[t][i] # Absent
Named(t, n) == {i \in Id : Exists(t, i) /\ row[t][i].name = n}
MaxIdOf(t) == Max({NoId} \cup {i \in Id : Exists(t, i)})

Fresh ==
  [stage |-> "arrived", todo |-> <<>>, drawn |-> <<>>, new |-> {},
   copy |-> <<>>, fill |-> <<>>, why |-> ""]

Go(s, stage) == session' = [session EXCEPT ![s].stage = stage]

\* What a session is to insert: a row, who or what its parent is named, or
\* its parent's id.
Item(t, n, of, parent) == [table |-> t, name |-> n, of |-> of, parent |-> parent]

-----------------------------------------------------------------------------
(* Inserting rows.                                                         *)

ParentTable(t) == IF t = "skus" THEN "brands" ELSE "warehouses"

\* Wrong variant: a committed brand is preferred.
ParentsCommittedFirst(s, i) ==
  LET own == {r \in session[s].new : r.table = ParentTable(i.table) /\ r.row.name = i.of}
      old == Named("brands", i.of)
  IN  IF i.table \notin {"skus", "beats"} \/ i.of = NoName \/ i.parent # NoId THEN {i.parent}
      ELSE IF i.table = "skus" /\ old # {} THEN old
      ELSE IF own # {} THEN {Max({r.id : r \in own})} ELSE {NoId}

\* The parent of a new row: the last row of its name inserted by the same
\* transaction, else, for a SKU, a committed one.
Parents(s, i) ==
  LET own == {r \in session[s].new : r.table = ParentTable(i.table) /\ r.row.name = i.of}
      old == Named("brands", i.of)
  IN  IF i.table \notin {"skus", "beats"} \/ i.of = NoName \/ i.parent # NoId THEN {i.parent}
      ELSE IF own # {} THEN {Max({r.id : r \in own})}
      ELSE IF i.table = "skus" /\ old # {} THEN old ELSE {NoId}

\* What else a new row may come with, the pin of a shop too, is left out.
Draw(s) ==
  /\ session[s].stage = "inserting" /\ session[s].todo # <<>>
  /\ "table" \in DOMAIN Head(session[s].todo)
  /\ LET i == Head(session[s].todo) IN
     /\ next[i.table] <= MaxId
     /\ next' = [next EXCEPT ![i.table] = @ + 1]
     /\ \E p \in Parents(s, i) :
          session' = [session EXCEPT
            ![s].stage = "drawn",
            ![s].drawn = [table |-> i.table, id |-> next[i.table], of |-> i.of,
                          row |-> [name |-> i.name, parent |-> p, image |-> NoImage, aisle |-> NoId,
                                   spot |-> NoSpot]]]
  /\ UNCHANGED <<row, posted, request, rewound, raced>>

SameName(t, a, b) == t \in Unique /\ a.name = b.name

\* An insert waits for whoever has inserted the key, and the script for whoever
\* has updated the SKU, and not ended.
WaitsFor(s, u) ==
  /\ u # s
  /\ \/ /\ session[s].stage = "drawn"
        /\ \E r \in session[u].new :
             LET d == session[s].drawn IN
             r.table = d.table /\ (r.id = d.id \/ SameName(d.table, r.row, d.row))
     \/ session[s].stage \in {"image", "aisle"} /\ session[s].copy.id \in DOMAIN session[u].fill

\* Ids other sessions have drawn and neither committed nor given up.
Holds(u, t) ==
  \/ session[u].stage = "drawn" /\ session[u].drawn.table = t
  \/ \E r \in session[u].new : r.table = t

\* The transaction is rolled back; an import goes on to reclaim the ids.
Fail(s, why) ==
  session' = [session EXCEPT ![s] =
    IF request[s].do = "import"
    THEN [Fresh EXCEPT !.stage = "reclaiming", !.why = why,
                       !.todo = <<"brands", "retailers", "warehouses", "skus", "beats">>]
    ELSE [Fresh EXCEPT !.stage = why]]

Insert(s) ==
  LET d == session[s].drawn IN
  /\ session[s].stage = "drawn"
  /\ \A u \in Session : ~WaitsFor(s, u)
  /\ IF \/ Exists(d.table, d.id)
        \/ \E r \in session[s].new : r.table = d.table /\ r.id = d.id
     THEN Fail(s, "duplicate id")
     ELSE IF \/ \E i \in Id : Exists(d.table, i) /\ SameName(d.table, row[d.table][i], d.row)
             \/ \E r \in session[s].new : r.table = d.table /\ SameName(d.table, r.row, d.row)
             \/ d.table = "skus" /\ d.row.parent = NoId
     THEN Fail(s, "refused")
     ELSE session' = [session EXCEPT ![s].stage = "inserting", ![s].todo = Tail(@),
                                     ![s].new = @ \cup {d}]
  /\ UNCHANGED <<tables, request, rewound, raced>>

\* Two sessions wait for each other, and the database ends one of them.
Deadlock(s) ==
  /\ \E u \in Session : WaitsFor(s, u) /\ WaitsFor(u, s)
  /\ Fail(s, "refused")
  /\ UNCHANGED <<tables, request, rewound, raced>>

\* The tables with the rows a transaction has inserted.
WithNew(s) ==
  [t \in Table |-> [i \in Id |->
    LET new == {r \in session[s].new : r.table = t /\ r.id = i}
    IN  IF new = {} THEN row[t][i] ELSE (CHOOSE r \in new : TRUE).row]]

\* The managers named are posted to the warehouses that were inserted last.
Postings(s) ==
  [m \in Manager |->
    LET ids == {r.id : r \in {n \in session[s].new : n.table = "warehouses" /\ n.of = m}}
    IN  IF ids = {} THEN posted[m] ELSE Max(ids)]

Commit(s) ==
  /\ request[s].do \in {"import", "create"}
  /\ session[s].stage = "inserting" /\ session[s].todo = <<>>
  /\ row' = WithNew(s)
  /\ posted' = Postings(s)
  /\ session' = [session EXCEPT ![s] = [Fresh EXCEPT !.stage = "done"]]
  /\ UNCHANGED <<next, request, rewound, raced>>

-----------------------------------------------------------------------------
(* The forms of the office.                                                *)

\* What the create handlers check: the brand of a SKU, the manager of a
\* warehouse, the beat of a retailer, the name of a category or a beat.
Creatable(r) ==
  CASE r.table = "skus" -> Exists("brands", r.parent)
    [] r.table = "warehouses" -> r.of \in Manager
    [] r.table = "retailers" -> r.parent = NoId \/ Exists("beats", r.parent)
    [] r.table \in {"categories", "beats"} -> Named(r.table, r.name) = {}
    [] OTHER -> TRUE

Create(s) ==
  LET r == request[s] IN
  /\ At(s, "create", "arrived")
  /\ IF Creatable(r)
     THEN session' = [session EXCEPT ![s].stage = "inserting",
                                     ![s].todo = <<Item(r.table, r.name, r.of, r.parent)>>]
     ELSE Go(s, "refused")
  /\ UNCHANGED <<tables, request, rewound, raced>>

\* A row that the script has updated and not committed is locked.
Locked(t, i) == t = "skus" /\ \E u \in Session : i \in DOMAIN session[u].fill

\* The columns that are set, over the ones there were.
Overlay(set, old) ==
  [c \in DOMAIN set \cup DOMAIN old |-> IF c \in DOMAIN set THEN set[c] ELSE old[c]]

\* What the update handlers check of the columns that are set.
Editable(r) ==
  /\ "parent" \in DOMAIN r.set => Exists("brands", r.set.parent)
  /\ "aisle" \in DOMAIN r.set => r.set.aisle = NoId \/ Exists("categories", r.set.aisle)
  /\ r.table = "categories" /\ "name" \in DOMAIN r.set => Named("categories", r.set.name) \subseteq {r.id}

\* update_brand, update_sku, update_category: the columns that are set, only.
Edit(s) ==
  LET r == request[s] IN
  /\ At(s, "edit", "arrived")
  /\ ~Locked(r.table, r.id)
  /\ IF Exists(r.table, r.id) /\ Editable(r)
     THEN row' = [row EXCEPT ![r.table][r.id] = Overlay(r.set, @)] /\ Go(s, "done")
     ELSE UNCHANGED row /\ Go(s, "refused")
  /\ UNCHANGED <<posted, next, request, rewound, raced>>

\* update_retailer commits the columns first and checks the beat afterwards.
EditRetailer(s) ==
  LET r == request[s] IN
  /\ At(s, "edit retailer", "arrived")
  /\ IF Exists("retailers", r.id)
     THEN /\ row' = [row EXCEPT !["retailers"][r.id] = Overlay(r.set, @)]
          /\ Go(s, IF "parent" \in DOMAIN r THEN "set beat" ELSE "done")
     ELSE UNCHANGED row /\ Go(s, "refused")
  /\ UNCHANGED <<posted, next, request, rewound, raced>>

SetRetailerBeat(s) ==
  LET r == request[s] IN
  /\ At(s, "edit retailer", "set beat")
  /\ IF r.parent = NoId \/ Exists("beats", r.parent)
     THEN row' = [row EXCEPT !["retailers"][r.id].parent = r.parent] /\ Go(s, "done")
     ELSE UNCHANGED row /\ Go(s, "refused")
  /\ UNCHANGED <<posted, next, request, rewound, raced>>

OfficeStep(s) ==
  Draw(s) \/ Insert(s) \/ Deadlock(s) \/ Commit(s) \/ Create(s) \/ Edit(s)
    \/ EditRetailer(s) \/ SetRetailerBeat(s)

TablesInit ==
  /\ row = FirstRows
  /\ posted = [m \in Manager |-> NoId]
  /\ next = [t \in Table |-> MaxIdOf(t) + 1]
  /\ request \in [Session -> Request]
  /\ session = [s \in Session |-> Fresh]
  /\ rewound = {}
  /\ raced = {}
=============================================================================
