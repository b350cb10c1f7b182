--------------------------- MODULE CatalogueSeed ---------------------------
(***************************************************************************)
(* scripts/seed_storefront_catalogue.py: a run goes through the feed,      *)
(* reads the SKU of each code and fills in what the SKU lacks; its session *)
(* flushes before every query, so that a row it has updated is locked      *)
(* until the run ends.  A dry run does all of it and rolls back.           *)
(*                                                                         *)
(* Of the three columns the image and the category are modelled: the pack  *)
(* size is filled like the image.                                          *)
(***************************************************************************)
EXTENDS MasterTables

CONSTANT Feed  \* what the feed says of a code: an image, or none, and an aisle, or none

\* The aisle is the one that goes with the prefix of the code.
FeedRow == [code : Name, image : Image \cup {NoImage}, aisle : Name \cup {NoName}]

ASSUME FeedAssumption == Feed \in Seq(FeedRow)

StartSeed(s) ==
  /\ At(s, "seed", "arrived")
  /\ session' = [session EXCEPT ![s].stage = "reading", ![s].todo = Feed]
  /\ UNCHANGED <<tables, request, rewound, raced>>

\* A SKU as a run sees it: the committed row under what the run has filled in.
SeenBy(s, i) ==
  IF i \in DOMAIN session[s].fill THEN Overlay(session[s].fill[i], row["skus"][i]) ELSE row["skus"][i]

\* Wrong variant: what differs from the feed is filled in.
LacksOrDiffers(sku, f, column) ==
  IF column = "image" THEN f.image # NoImage /\ sku.image # f.image
  ELSE f.aisle # NoName /\ sku.aisle = NoId

\* What the feed has and the SKU does not.
Lacks(sku, f, column) ==
  IF column = "image" THEN f.image # NoImage /\ sku.image = NoImage
  ELSE f.aisle # NoName /\ sku.aisle = NoId

\* The SKU of the next code is read; a code without a SKU is skipped.
ReadSku(s) ==
  LET f == Head(session[s].todo) IN
  /\ At(s, "seed", "reading") /\ session[s].todo # <<>>
  /\ IF Named("skus", f.code) = {}
     THEN session' = [session EXCEPT ![s].todo = Tail(@)]
     ELSE \E i \in Named("skus", f.code) :
            session' = [session EXCEPT
              ![s].stage = "image",
              ![s].copy = [id |-> i, image |-> Lacks(SeenBy(s, i), f, "image"),
                           aisle |-> Lacks(SeenBy(s, i), f, "aisle"), read |-> row["skus"][i]]]
  /\ UNCHANGED <<tables, request, rewound, raced>>

\* A column is written, whatever it holds by now, and the row is locked.
Filled(s, column, value) ==
  LET i == session[s].copy.id
      before == IF i \in DOMAIN session[s].fill THEN session[s].fill[i] ELSE <<>>
      after == Overlay([c \in {column} |-> value], before)
  IN  Overlay([j \in {i} |-> after], session[s].fill)

\* Whether somebody has committed an edit of the column since it was read.
Edited(s, column) ==
  row["skus"][session[s].copy.id][column] # session[s].copy.read[column]
Overtaken(s, taken) == raced' = IF taken THEN raced \cup {session[s].copy.id} ELSE raced

\* The flush before the next query.
FillImage(s) ==
  LET f == Head(session[s].todo)
      needed == session[s].copy.image
  IN
  /\ At(s, "seed", "image")
  /\ needed => \A u \in Session : ~WaitsFor(s, u)
  /\ session' = [session EXCEPT
       ![s].stage = "aisle",
       ![s].fill = IF needed THEN Filled(s, "image", f.image) ELSE @]
  /\ Overtaken(s, needed /\ Edited(s, "image"))
  /\ UNCHANGED <<tables, request, rewound>>

\* resolve_category: a category of that name, its own or a committed one.  The
\* script looks a name up once in a run; each SKU looks it up here, which differs
\* when the category is renamed in between.
Aisles(s, n) ==
  Named("categories", n)
    \cup {r.id : r \in {m \in session[s].new : m.table = "categories" /\ m.row.name = n}}

\* The category that is missing is inserted first.
MakeAisle(s) ==
  LET f == Head(session[s].todo) IN
  /\ At(s, "seed", "aisle") /\ session[s].copy.aisle
  /\ Aisles(s, f.aisle) = {}
  /\ session' = [session EXCEPT ![s].stage = "inserting",
                                ![s].todo = <<Item("categories", f.aisle, NoName, NoId)>> \o @]
  /\ UNCHANGED <<tables, request, rewound, raced>>

AisleMade(s) ==
  /\ At(s, "seed", "inserting")
  /\ "table" \notin DOMAIN Head(session[s].todo)
  /\ Go(s, "aisle")
  /\ UNCHANGED <<tables, request, rewound, raced>>

FillAisle(s) ==
  LET f == Head(session[s].todo)
      needed == session[s].copy.aisle
  IN
  /\ At(s, "seed", "aisle")
  /\ needed => \A u \in Session : ~WaitsFor(s, u)
  /\ \E a \in IF needed THEN Aisles(s, f.aisle) ELSE {NoId} :
       session' = [session EXCEPT
         ![s].stage = "reading", ![s].todo = Tail(@), ![s].copy = <<>>,
         ![s].fill = IF needed THEN Filled(s, "aisle", a) ELSE @]
  /\ Overtaken(s, needed /\ Edited(s, "aisle"))
  /\ UNCHANGED <<tables, request, rewound>>

\* The run ends: --apply commits what it has inserted and filled in.
EndSeed(s) ==
  LET filled == session[s].fill IN
  /\ At(s, "seed", "reading") /\ session[s].todo = <<>>
  /\ IF request[s].apply
     THEN row' = [WithNew(s) EXCEPT !["skus"] = [i \in Id |->
            IF i \in DOMAIN filled THEN Overlay(filled[i], @[i]) ELSE @[i]]]
     ELSE UNCHANGED row
  /\ session' = [session EXCEPT ![s] = [Fresh EXCEPT !.stage = "done"]]
  /\ UNCHANGED <<posted, next, request, rewound, raced>>

SeedStep(s) ==
  StartSeed(s) \/ ReadSku(s) \/ FillImage(s) \/ MakeAisle(s) \/ AisleMade(s) \/ FillAisle(s)
    \/ EndSeed(s)
=============================================================================
