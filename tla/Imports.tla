------------------------------ MODULE Imports ------------------------------
(***************************************************************************)
(* The import of a workbook (app/services/excel_import.py): every sheet is *)
(* validated before anything is written, then the rows are inserted in one *)
(* transaction, and the ids that a failed one has drawn are taken back     *)
(* (app/services/transactions.py).  A workbook is the sequence of its rows *)
(* in the order of insertion; a row without its required cells is an error *)
(* like a reference that is not found.                                     *)
(***************************************************************************)
EXTENDS MasterTables

NamesIn(book, t) == {book[i].name : i \in {j \in DOMAIN book : book[j].table = t}}

\* The _validate_... functions: the salesman of a retailer, the manager of a
\* warehouse, the brand of a SKU and the warehouse of a beat are known.
Valid(book, i) ==
  /\ i.name # NoName
  /\ CASE i.table = "retailers" -> i.of \in Salesman \cup {NoName}
       [] i.table = "warehouses" -> i.of \in Manager
       [] i.table = "skus" -> i.of \in NamesIn(book, "brands") \/ Named("brands", i.of) # {}
       [] i.table = "beats" ->
            \/ i.of \in NamesIn(book, "warehouses") \cup {NoName}
            \/ Named("warehouses", i.of) # {}
       [] OTHER -> TRUE

\* A beat keeps the id of the warehouse its validation found.
Resolved(book, i) ==
  IF i.table = "beats" /\ i.of \notin NamesIn(book, "warehouses") \cup {NoName}
  THEN {[i EXCEPT !.parent = w] : w \in Named("warehouses", i.of)}
  ELSE {i}

AllValid(book) == \A k \in DOMAIN book : Valid(book, book[k])

Validate(s) ==
  LET book == request[s].book IN
  /\ At(s, "import", "arrived")
  /\ IF AllValid(book)
     THEN \E todo \in [DOMAIN book -> UNION {Resolved(book, book[k]) : k \in DOMAIN book}] :
            /\ \A k \in DOMAIN book : todo[k] \in Resolved(book, book[k])
            /\ session' = [session EXCEPT ![s].stage = "inserting", ![s].todo = todo]
     ELSE Go(s, "refused")
  /\ UNCHANGED <<tables, request, rewound, raced>>

\* Wrong variant: the sequence gives the last id again.
RewoundToLast(t) == MaxIdOf(t)

\* Where reclaim_sequences sets the sequence of a table.
RewoundTo(t) == MaxIdOf(t) + 1

\* reclaim_sequences, table by table, after the rollback.
Reclaim(s) ==
  /\ At(s, "import", "reclaiming") /\ session[s].todo # <<>>
  /\ LET t == Head(session[s].todo) IN
     /\ next' = [next EXCEPT ![t] = RewoundTo(t)]
     /\ rewound' = IF \E u \in Session \ {s} : Holds(u, t) THEN rewound \cup {t} ELSE rewound
  /\ session' = [session EXCEPT ![s].todo = Tail(@)]
  /\ UNCHANGED <<row, posted, request, raced>>

Reclaimed(s) ==
  /\ At(s, "import", "reclaiming") /\ session[s].todo = <<>>
  /\ Go(s, session[s].why)
  /\ UNCHANGED <<tables, request, rewound, raced>>

ImportStep(s) == Validate(s) \/ Reclaim(s) \/ Reclaimed(s)
=============================================================================
