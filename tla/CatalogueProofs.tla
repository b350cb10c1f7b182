-------------------------- MODULE CatalogueProofs --------------------------
(***************************************************************************)
(* What the office relies on, proved of Catalogue for every value of its   *)
(* constants: ids are fresh, a workbook is imported whole, what was set by *)
(* hand is kept, a pin is where somebody with a reason has put it and a    *)
(* job's progress stays.                                                   *)
(***************************************************************************)
EXTENDS Catalogue, FiniteSetTheorems, SequenceTheorems, WellFoundedInduction, TLAPS

Reasons == {"duplicate id", "refused"}
Stage ==
  {"arrived", "inserting", "drawn", "reclaiming", "set beat", "reading", "image", "aisle",
   "recording", "saving", "accepting", "asked", "done"} \cup Reasons

\* Rows, and what is to be inserted, as an import may bring them: a name may be missing.
AnyRow ==
  [name : Name \cup {NoName}, parent : Id \cup {NoId}, image : Image \cup {NoImage},
   aisle : Id \cup {NoId}, spot : Int \cup {NoSpot}]
NewRow == [table : Table, id : Id, of : Cell, row : AnyRow]
AnyItem == [table : Table, name : Name \cup {NoName}, of : Cell, parent : Id \cup {NoId}]
Work == Seq(AnyItem \cup FeedRow)

TypeInv ==
  /\ row \in [Table -> [Id -> AnyRow \cup {Absent}]]
  /\ next \in [Table -> Nat \ {0}]
  /\ request \in [Session -> Request]
  /\ jobs \in Seq(Job)

\* A session has the fields of a fresh one.
Parts(e) ==
  [stage |-> e.stage, todo |-> e.todo, drawn |-> e.drawn, new |-> e.new,
   copy |-> e.copy, fill |-> e.fill, why |-> e.why]
ShapeInv == session = [s \in Session |-> Parts(session[s])]

-----------------------------------------------------------------------------
(* What a session may rely on.                                             *)

\* A run of the script between the SKUs it reads.
SeedInv(s) ==
  /\ request[s].do = "seed"
  /\ session[s].todo # <<>>
  /\ session[s].copy.id \in Id
  /\ Exists("skus", session[s].copy.id)
  /\ session[s].copy.read \in AnyRow
  /\ session[s].copy.aisle => session[s].copy.read.aisle = NoId

\* The SKU of the script comes next after the category it inserts.
CategoryFirst(s) ==
  IF "table" \in DOMAIN Head(session[s].todo)
  THEN Tail(session[s].todo) \in Seq(FeedRow) /\ Tail(session[s].todo) # <<>>
  ELSE session[s].todo \in Seq(FeedRow)

Reclaiming(s) ==
  /\ session[s].todo \in Seq(Table) /\ session[s].why \in Reasons
  /\ session[s].new = {} /\ session[s].fill = <<>>

Inserting(s) ==
  /\ request[s].do \in {"import", "create", "seed"}
  /\ request[s].do = "seed" => SeedInv(s) /\ CategoryFirst(s)

Drawn(s) ==
  /\ session[s].drawn \in NewRow
  /\ session[s].todo # <<>> /\ Head(session[s].todo) \in AnyItem

Filling(s) ==
  /\ SeedInv(s) /\ session[s].todo \in Seq(FeedRow)
  /\ session[s].stage = "image" /\ session[s].copy.image =>
       session[s].copy.read.image = NoImage /\ Head(session[s].todo).image # NoImage

Recording(s) ==
  /\ request[s].do \in {"mark", "close"}
  /\ request[s].spot \in Int /\ ~request[s].fuzzy
  /\ Exists("retailers", request[s].shop)
  /\ session[s].copy.pin \in Int \cup {NoSpot}

Accepting(s) == request[s].job \in DOMAIN jobs /\ ~session[s].copy.accepted

StageInv(s) ==
  LET stage == session[s].stage IN
  /\ IF stage = "reclaiming" THEN Reclaiming(s) ELSE session[s].todo \in Work
  /\ stage \in {"inserting", "drawn"} => Inserting(s)
  /\ stage = "drawn" => Drawn(s)
  /\ stage = "reading" => session[s].todo \in Seq(FeedRow)
  /\ stage \in {"image", "aisle"} => Filling(s)
  /\ stage = "set beat" => Exists("retailers", request[s].id)
  /\ stage = "recording" => Recording(s)
  /\ stage = "accepting" => Accepting(s)

Column == {"image", "aisle"}

SessionInv(s) ==
  /\ session[s].stage \in Stage
  /\ session[s].new \subseteq NewRow
  /\ DOMAIN session[s].fill \subseteq Id
  /\ \A i \in DOMAIN session[s].fill :
       /\ DOMAIN session[s].fill[i] \subseteq Column
       /\ "image" \in DOMAIN session[s].fill[i] => session[s].fill[i].image \in Image
       /\ "aisle" \in DOMAIN session[s].fill[i] => session[s].fill[i].aisle \in Id
  /\ StageInv(s)

SessionsInv == \A s \in Session : SessionInv(s)

-----------------------------------------------------------------------------
(* Ids and keys.                                                           *)

SameKey(a, b) == a.table = b.table /\ a.id = b.id

\* What is inserted is not there yet, and inserted once.
KeysInv ==
  /\ \A s \in Session : \A r \in session[s].new :
       /\ ~Exists(r.table, r.id)
       /\ \A q \in session[s].new : SameKey(r, q) => r = q
  /\ \A s, u \in Session : s # u =>
       \A r \in session[s].new, q \in session[u].new : ~SameKey(r, q)

\* An id that was drawn is behind the sequence, and nobody else's.
OwnId(s, d) ==
  /\ d.id < next[d.table]
  /\ ~Exists(d.table, d.id)
  /\ \A u \in Session : \A r \in session[u].new : ~SameKey(r, d)
  /\ \A u \in Session : u # s /\ session[u].stage = "drawn" => ~SameKey(session[u].drawn, d)

DrawnInv(s) == session[s].stage = "drawn" => OwnId(s, session[s].drawn)

IdsInv ==
  rewound = {} =>
    /\ \A t \in Table : \A i \in Id : Exists(t, i) => i < next[t]
    /\ \A s \in Session : \A r \in session[s].new : r.id < next[r.table]
    /\ \A s \in Session : DrawnInv(s)

-----------------------------------------------------------------------------
(* What the script fills in, and what drivers record.                      *)

FillInv ==
  /\ \A s \in Session : \A i \in DOMAIN session[s].fill :
       /\ Exists("skus", i)
       /\ i \notin raced =>
            /\ "image" \in DOMAIN session[s].fill[i] => row["skus"][i].image = NoImage
            /\ "aisle" \in DOMAIN session[s].fill[i] => row["skus"][i].aisle = NoId
  /\ \A s, u \in Session : s # u => DOMAIN session[s].fill \cap DOMAIN session[u].fill = {}

VisitsInv == DOMAIN visits \subseteq {s \in Session : session[s].stage = "done"}

\* The shops there were at first are there still.
ShopsInv == \A i \in Id : FirstRows["retailers"][i] # Absent => Exists("retailers", i)

IInv ==
  /\ TypeInv
  /\ ShapeInv
  /\ SessionsInv
  /\ KeysInv
  /\ IdsInv
  /\ IdsAreFresh
  /\ FillInv
  /\ VisitsInv
  /\ ShopsInv
  /\ PinIsEvidenced
-----------------------------------------------------------------------------
(* Rows.                                                                   *)

\* A missing row is not a row: it lacks the columns of one.
LEMMA AbsentIsNoRow == Absent \notin AnyRow
BY DEF Absent, AnyRow

\* The columns that a form sets, over those of a row, make a row.
LEMMA OverlayRow ==
  ASSUME NEW set, Sets(set), NEW old \in AnyRow
  PROVE  /\ Overlay(set, old) \in AnyRow
         /\ \A c \in {"name", "parent", "image", "aisle", "spot"} :
              Overlay(set, old)[c] = IF c \in DOMAIN set THEN set[c] ELSE old[c]
<1> DEFINE new == Overlay(set, old)
<1>1. DOMAIN old = {"name", "parent", "image", "aisle", "spot"}
  BY DEF AnyRow
<1>2. DOMAIN new = {"name", "parent", "image", "aisle", "spot"}
  BY <1>1 DEF Overlay, Sets
<1>3. \A c \in {"name", "parent", "image", "aisle", "spot"} :
        new[c] = IF c \in DOMAIN set THEN set[c] ELSE old[c]
  BY <1>1, <1>2 DEF Overlay
<1>4. /\ new.name \in Name \cup {NoName} /\ new.parent \in Id \cup {NoId}
      /\ new.image \in Image \cup {NoImage} /\ new.aisle \in Id \cup {NoId}
      /\ new.spot \in Int \cup {NoSpot}
  BY <1>3 DEF Sets, AnyRow
<1>5. new = [c \in {"name", "parent", "image", "aisle", "spot"} |-> new[c]]
  BY <1>1, <1>2 DEF Overlay
<1>6. new = [name |-> new.name, parent |-> new.parent, image |-> new.image, aisle |-> new.aisle,
             spot |-> new.spot]
  BY <1>5
<1>7. new \in AnyRow
  BY <1>4, <1>6 DEF AnyRow
<1> QED  BY <1>3, <1>7

\* What a table has of an id is a row or nothing.
LEMMA RowsThere ==
  ASSUME TypeInv, NEW t \in Table, NEW i
  PROVE  /\ Exists(t, i) <=> i \in Id /\ row[t][i] \in AnyRow
         /\ i \in Id /\ ~Exists(t, i) => row[t][i] = Absent
BY AbsentIsNoRow DEF TypeInv, Exists

-----------------------------------------------------------------------------
(* Sessions.                                                               *)

Alone(s) == \A u \in Session \ {s} : session'[u] = session[u]

\* A step that replaces the state of one session leaves the others alone.
LEMMA ShapeKept ==
  ASSUME ShapeInv, NEW s \in Session, NEW e, session' = [session EXCEPT ![s] = e], e = Parts(e)
  PROVE  ShapeInv' /\ Alone(s) /\ session'[s] = e
BY DEF ShapeInv, Alone

\* A fresh session has the fields of a session.
LEMMA FreshShape == Fresh = Parts(Fresh)
BY DEF Fresh, Parts

\* A fresh session has nothing to do, inserted or filled in.
LEMMA FreshParts == Fresh.todo = <<>> /\ Fresh.new = {} /\ Fresh.fill = <<>> /\ Fresh.why = ""
BY DEF Fresh

\* An empty function has no arguments.
LEMMA NothingIn == \A f : f = <<>> => DOMAIN f = {}
OBVIOUS

\* A session that moves to another stage keeps the rest of its state.
LEMMA StageOf ==
  ASSUME NEW e, e = Parts(e), NEW a, NEW f, f = [e EXCEPT !.stage = a]
  PROVE  /\ f = Parts(f)
         /\ f.stage = a /\ f.todo = e.todo /\ f.drawn = e.drawn /\ f.new = e.new
         /\ f.copy = e.copy /\ f.fill = e.fill /\ f.why = e.why
BY DEF Parts

\* Go moves one session and keeps the rest of its state.
LEMMA StageSet ==
  ASSUME ShapeInv, NEW s \in Session, NEW a, Go(s, a)
  PROVE  /\ ShapeInv' /\ Alone(s)
         /\ session'[s].stage = a /\ session'[s].todo = session[s].todo
         /\ session'[s].new = session[s].new /\ session'[s].fill = session[s].fill
         /\ session'[s].copy = session[s].copy /\ session'[s].why = session[s].why
<1>1. session[s] = Parts(session[s])
  BY DEF ShapeInv
<1>2. PICK e : e = [session[s] EXCEPT !.stage = a]
  OBVIOUS
<1>3. session' = [session EXCEPT ![s] = e]
  BY <1>2 DEF Go
<1>4. /\ e = Parts(e)
      /\ e.stage = a /\ e.todo = session[s].todo /\ e.new = session[s].new
      /\ e.copy = session[s].copy /\ e.fill = session[s].fill /\ e.why = session[s].why
  BY <1>1, <1>2, StageOf
<1>5. ShapeInv' /\ Alone(s) /\ session'[s] = e
  BY <1>3, <1>4, ShapeKept
<1> QED  BY <1>4, <1>5

-----------------------------------------------------------------------------
(* What a step of one session leaves to the others.                        *)

RowsStay == \A t \in Table : \A i \in Id : Exists(t, i) => Exists(t, i)'
NoRowAppears == \A t \in Table : \A i \in Id : Exists(t, i)' => Exists(t, i)

\* What the other sessions rely on outlives a step, as rows and jobs only become more.
LEMMA OthersKept ==
  ASSUME SessionsInv, NEW s \in Session, Alone(s), request' = request, RowsStay,
         DOMAIN jobs \subseteq DOMAIN jobs'
  PROVE  \A u \in Session \ {s} : SessionInv(u)'
<1> SUFFICES ASSUME NEW u \in Session, u # s PROVE SessionInv(u)'
  OBVIOUS
<1>1. SessionInv(u) /\ session'[u] = session[u] /\ request'[u] = request[u]
  BY DEF SessionsInv, Alone
<1>2. "skus" \in Table
  BY DEF Table
<1>3. SeedInv(u) => SeedInv(u)'
  BY <1>1, <1>2 DEF SeedInv, RowsStay
<1>4. CategoryFirst(u) => CategoryFirst(u)'
  BY <1>1 DEF CategoryFirst
<1>9. Exists("retailers", request[u].shop) => Exists("retailers", request[u].shop)'
  BY DEF RowsStay, Exists, Table
<1>5. /\ Reclaiming(u) => Reclaiming(u)'
      /\ Drawn(u) => Drawn(u)'
      /\ Recording(u) => Recording(u)'
      /\ Accepting(u) => Accepting(u)'
  BY <1>1, <1>9 DEF Reclaiming, Drawn, Recording, Accepting
<1>6. /\ Inserting(u) => Inserting(u)'
      /\ Filling(u) => Filling(u)'
  BY <1>1, <1>3, <1>4 DEF Inserting, Filling
<1>8. Exists("retailers", request[u].id) => Exists("retailers", request[u].id)'
  BY DEF RowsStay, Exists, Table
<1>7. StageInv(u)'
  BY <1>1, <1>5, <1>6, <1>8 DEF StageInv, SessionInv
<1> QED  BY <1>1, <1>7 DEF SessionInv

\* No insertion becomes a duplicate when no row appears and nothing is inserted.
LEMMA KeysKept ==
  ASSUME SessionsInv, KeysInv, NEW s \in Session, Alone(s), NoRowAppears,
         session'[s].new \subseteq session[s].new
  PROVE  KeysInv'
<1>1. \A u \in Session : session'[u].new \subseteq session[u].new
  BY DEF Alone
<1>2. \A u \in Session : \A r \in session'[u].new : r.table \in Table /\ r.id \in Id
  BY <1>1 DEF SessionsInv, SessionInv, NewRow
<1>3. \A u \in Session : \A r \in session'[u].new :
        /\ ~Exists(r.table, r.id)'
        /\ \A q \in session'[u].new : SameKey(r, q) => r = q
  BY <1>1, <1>2 DEF KeysInv, NoRowAppears
<1>4. \A v, u \in Session : v # u =>
        \A r \in session'[v].new, q \in session'[u].new : ~SameKey(r, q)
  BY <1>1 DEF KeysInv
<1> QED  BY <1>3, <1>4 DEF KeysInv

\* Ids stay behind the sequences when nothing is drawn, inserted or committed.
LEMMA IdsKept ==
  ASSUME SessionsInv, IdsInv, NEW s \in Session, Alone(s), NoRowAppears,
         session'[s].new \subseteq session[s].new, session'[s].stage # "drawn",
         next' = next, rewound \subseteq rewound'
  PROVE  IdsInv'
<1> SUFFICES ASSUME rewound' = {}
             PROVE  /\ \A t \in Table : \A i \in Id : Exists(t, i)' => i < next[t]
                    /\ \A u \in Session : \A r \in session'[u].new : r.id < next[r.table]
                    /\ \A u \in Session : DrawnInv(u)'
  BY DEF IdsInv
<1>1. /\ \A t \in Table : \A i \in Id : Exists(t, i) => i < next[t]
      /\ \A u \in Session : \A r \in session[u].new : r.id < next[r.table]
      /\ \A u \in Session : DrawnInv(u)
  BY DEF IdsInv
<1>2. \A u \in Session : session'[u].new \subseteq session[u].new
  BY DEF Alone
<1>3. \A u \in Session : session'[u].stage = "drawn" => u # s /\ session'[u] = session[u]
  BY DEF Alone
<1>4. ASSUME NEW u \in Session PROVE DrawnInv(u)'
  <2> SUFFICES ASSUME session'[u].stage = "drawn", NEW d, d = session'[u].drawn PROVE OwnId(u, d)'
    BY DEF DrawnInv
  <2>1. session'[u] = session[u] /\ session[u].stage = "drawn"
    BY <1>3
  <2>2. d \in NewRow /\ d.table \in Table /\ d.id \in Id
    BY <2>1 DEF SessionsInv, SessionInv, StageInv, Drawn, NewRow
  <2>3. OwnId(u, d)
    BY <1>1, <2>1 DEF DrawnInv
  <2>4. ~Exists(d.table, d.id)'
    BY <2>2, <2>3 DEF OwnId, NoRowAppears
  <2> QED  BY <1>2, <1>3, <2>1, <2>3, <2>4 DEF OwnId
<1> QED  BY <1>1, <1>2, <1>4 DEF NoRowAppears

\* An id is a duplicate only after a sequence was set back: kept when the step meets none.
LEMMA FreshKept ==
  ASSUME IdsAreFresh, NEW s \in Session, Alone(s), rewound \subseteq rewound',
         \/ session'[s].stage = "duplicate id" \/ session'[s].why = "duplicate id" => rewound' # {}
  PROVE  IdsAreFresh'
BY DEF IdsAreFresh, Alone

\* What runs of the script have filled in is still missing in the tables.
LEMMA FillKept ==
  ASSUME FillInv, NEW s \in Session, Alone(s), RowsStay, raced' = raced, SessionsInv,
         session'[s].fill \in {session[s].fill, <<>>},
         \A u \in Session : \A i \in DOMAIN session'[u].fill :
           /\ row'["skus"][i].image = row["skus"][i].image
           /\ row'["skus"][i].aisle = row["skus"][i].aisle
  PROVE  FillInv'
<1>1. DOMAIN <<>> = {}
  OBVIOUS
<1>2. \A u \in Session : session'[u].fill \in {session[u].fill, <<>>}
  BY DEF Alone
<1>3. "skus" \in Table
  BY DEF Table
<1>4. ASSUME NEW u \in Session, NEW i \in DOMAIN session'[u].fill
      PROVE  /\ Exists("skus", i)'
             /\ i \notin raced' =>
                  /\ "image" \in DOMAIN session'[u].fill[i] => row'["skus"][i].image = NoImage
                  /\ "aisle" \in DOMAIN session'[u].fill[i] => row'["skus"][i].aisle = NoId
  <2>1. session'[u].fill = session[u].fill /\ i \in DOMAIN session[u].fill
    BY <1>1, <1>2, <1>4
  <2>2. i \in Id
    BY <2>1 DEF SessionsInv, SessionInv
  <2> QED  BY <1>3, <2>1, <2>2 DEF FillInv, RowsStay
<1>5. \A u, v \in Session : u # v => DOMAIN session'[u].fill \cap DOMAIN session'[v].fill = {}
  BY <1>1, <1>2 DEF FillInv
<1> QED  BY <1>4, <1>5 DEF FillInv

\* The form that has confirmed a shop remains the one.
ConfirmationsStay ==
  \A a \in DOMAIN confirmation : a \in DOMAIN confirmation' /\ confirmation'[a] = confirmation[a]

\* The reasons there were for a pin stay.
LEMMA EvidenceKept ==
  ASSUME PinIsEvidenced, ShopsInv, NEW s \in Session, Alone(s), request' = request,
         session'[s].stage # "arrived",
         \A u \in DOMAIN visits : u \in DOMAIN visits' /\ visits'[u] = visits[u],
         ConfirmationsStay,
         \A i \in Id : FirstRows["retailers"][i] # Absent => \A pin : pin = PinOf(i)' =>
           pin = PinOf(i) \/ SetByOffice(i, pin)' \/ SetByShopkeeper(i, pin)' \/ SetAtDoor(i, pin)'
  PROVE  PinIsEvidenced'
<1>1. \A u \in Session : session[u].stage # "arrived" => session'[u].stage # "arrived"
  BY DEF Alone
<1>2. ASSUME NEW i \in Id, FirstRows["retailers"][i] # Absent, NEW pin, pin = PinOf(i)'
      PROVE  \/ pin = FirstRows["retailers"][i].spot
             \/ SetByOffice(i, pin)' \/ SetByShopkeeper(i, pin)' \/ SetAtDoor(i, pin)'
  <2>1. Exists("retailers", i)
    BY <1>2 DEF ShopsInv
  <2>2. SetByOffice(i, pin) => SetByOffice(i, pin)'
    BY <1>1 DEF SetByOffice
  <2>3. SetAtDoor(i, pin) => SetAtDoor(i, pin)'
    BY DEF SetAtDoor
  <2>4. SetByShopkeeper(i, pin) => SetByShopkeeper(i, pin)'
    BY DEF SetByShopkeeper, ConfirmationsStay
  <2> QED  BY <1>2, <2>1, <2>2, <2>3, <2>4 DEF PinIsEvidenced
<1> QED  BY <1>2 DEF PinIsEvidenced

\* Pins keep their evidence in a step that records no visit.
LEMMA PinsKept ==
  ASSUME PinIsEvidenced, VisitsInv, ShopsInv, NEW s \in Session, Alone(s), request' = request,
         session'[s].stage # "arrived", RowsStay, visits' = visits, s \notin DOMAIN visits,
         confirmation' = confirmation,
         \A i \in Id : Exists("retailers", i) => \A pin : pin = PinOf(i)' =>
           pin = PinOf(i) \/ SetByOffice(i, pin)'
  PROVE  PinIsEvidenced' /\ VisitsInv' /\ ShopsInv'
<1>1. VisitsInv'
  BY DEF VisitsInv, Alone
<1>2. "retailers" \in Table
  BY DEF Table
<1>3. ShopsInv'
  BY <1>2 DEF ShopsInv, RowsStay
<1>4. PinIsEvidenced'
  BY EvidenceKept DEF ShopsInv, ConfirmationsStay
<1> QED  BY <1>1, <1>3, <1>4

\* A step that only moves its own session keeps the invariant.
LEMMA QuietKept ==
  ASSUME IInv, NEW s \in Session, ShapeInv', Alone(s), SessionInv(s)',
         UNCHANGED <<row, next, request, rewound, raced, visits, jobs, confirmation>>,
         session[s].stage # "done", session'[s].stage \notin {"arrived", "drawn"},
         \/ session'[s].stage = "duplicate id" \/ session'[s].why = "duplicate id" => rewound # {},
         session'[s].new \subseteq session[s].new, session'[s].fill \in {session[s].fill, <<>>}
  PROVE  IInv'
<1>1. RowsStay /\ NoRowAppears
  BY DEF RowsStay, NoRowAppears, Exists
<1>2. SessionsInv'
  BY <1>1, OthersKept DEF IInv, SessionsInv
<1>3. KeysInv' /\ IdsInv' /\ IdsAreFresh' /\ FillInv'
  BY <1>1, KeysKept, IdsKept, FreshKept, FillKept DEF IInv
<1>4. s \notin DOMAIN visits
  BY DEF IInv, VisitsInv
<1>5. PinIsEvidenced' /\ VisitsInv' /\ ShopsInv'
  BY <1>1, <1>4, PinsKept DEF IInv, PinOf
<1>6. TypeInv'
  BY DEF IInv, TypeInv
<1> QED  BY <1>2, <1>3, <1>5, <1>6 DEF IInv

\* A session that is answered, or begins to be served, from where it stands.
LEMMA Goes ==
  ASSUME IInv, NEW s \in Session, NEW a \in {"asked", "done", "refused"}, Go(s, a),
         UNCHANGED <<row, next, request, rewound, raced, visits, jobs, confirmation>>,
         session[s].stage \notin {"done", "reclaiming"}
  PROVE  IInv'
<1>1. ShapeInv' /\ Alone(s)
  BY StageSet DEF IInv
<1>2. /\ session'[s].stage = a /\ session'[s].new = session[s].new
      /\ session'[s].fill = session[s].fill /\ session'[s].todo = session[s].todo
      /\ session'[s].why = session[s].why
  BY StageSet DEF IInv
<1>3. SessionInv(s)
  BY DEF IInv, SessionsInv
<1>4. StageInv(s)'
  BY <1>2, <1>3 DEF SessionInv, StageInv
<1>6. SessionInv(s)'
  BY <1>2, <1>3, <1>4 DEF SessionInv, Stage, Reasons
<1>5. session'[s].why = "duplicate id" => rewound # {}
  BY <1>2 DEF IInv, IdsAreFresh
<1> QED  BY <1>1, <1>2, <1>5, <1>6, QuietKept

\* A session that is answered starts from nothing.
LEMMA Ended ==
  ASSUME IInv, NEW s \in Session, NEW a \in {"done"} \cup Reasons,
         session' = [session EXCEPT ![s] = [Fresh EXCEPT !.stage = a]], request' = request
  PROVE  /\ ShapeInv' /\ Alone(s) /\ SessionInv(s)'
         /\ session'[s].stage = a /\ session'[s].new = {} /\ session'[s].fill = <<>>
         /\ session'[s].why = ""
<1>1. PICK e : e = [Fresh EXCEPT !.stage = a]
  OBVIOUS
<1>6. /\ e = Parts(e) /\ e.stage = a
      /\ e.new = Fresh.new /\ e.fill = Fresh.fill /\ e.todo = Fresh.todo /\ e.why = Fresh.why
  BY <1>1, FreshShape, StageOf
<1>2. ShapeInv' /\ Alone(s) /\ session'[s] = e
  BY <1>1, <1>6, ShapeKept DEF IInv
<1>3. /\ session'[s].stage = a /\ session'[s].new = {} /\ session'[s].fill = <<>>
      /\ session'[s].todo = <<>> /\ session'[s].why = ""
  BY <1>2, <1>6, FreshParts
<1>4. session'[s].todo \in Work
  BY <1>3, EmptySeq DEF Work
<1>5. StageInv(s)'
  BY <1>3, <1>4 DEF StageInv, Reasons
<1>7. DOMAIN session'[s].fill = {}
  BY <1>3, NothingIn
<1>8. SessionInv(s)'
  BY <1>3, <1>5, <1>7 DEF SessionInv, Stage
<1> QED  BY <1>2, <1>3, <1>8

\* The tables whose ids an import takes back are tables.
LEMMA Sheets == <<"brands", "retailers", "warehouses", "skus", "beats">> \in Seq(Table)
<1>1. /\ "brands" \in Table /\ "retailers" \in Table /\ "warehouses" \in Table
      /\ "skus" \in Table /\ "beats" \in Table
  BY DEF Table
<1> QED  BY <1>1

\* A rollback (Fail) keeps the invariant: nothing of the transaction remains but drawn ids.
LEMMA Failed ==
  ASSUME IInv, NEW s \in Session, NEW why \in Reasons, Fail(s, why),
         why = "duplicate id" => rewound # {},
         UNCHANGED <<row, next, request, rewound, raced, visits, jobs, confirmation>>,
         session[s].stage # "done"
  PROVE  IInv'
<1>1. CASE request[s].do # "import"
  <2>1. session' = [session EXCEPT ![s] = [Fresh EXCEPT !.stage = why]]
    BY <1>1 DEF Fail
  <2> QED  BY <2>1, Ended, QuietKept DEF Reasons
<1>2. CASE request[s].do = "import"
  <2>1. PICK e : e = [Fresh EXCEPT !.stage = "reclaiming", !.why = why,
                       !.todo = <<"brands", "retailers", "warehouses", "skus", "beats">>]
    OBVIOUS
  <2>2. e = Parts(e) /\ session' = [session EXCEPT ![s] = e]
    BY <1>2, <2>1, FreshShape DEF Fail, Parts
  <2>3. /\ e.stage = "reclaiming" /\ e.new = {} /\ e.fill = <<>> /\ e.why = why
        /\ e.todo = <<"brands", "retailers", "warehouses", "skus", "beats">>
    BY <2>1, FreshShape, FreshParts DEF Parts
  <2>4. e.todo \in Seq(Table)
    BY <2>3, Sheets
  <2>5. ShapeInv' /\ Alone(s) /\ session'[s] = e
    BY <2>2, ShapeKept DEF IInv
  <2>6. StageInv(s)'
    BY <2>3, <2>4, <2>5 DEF StageInv, Reclaiming
  <2>7. DOMAIN e.fill = {}
    BY <2>3, NothingIn
  <2>8. SessionInv(s)'
    BY <2>3, <2>5, <2>6, <2>7 DEF SessionInv, Stage
  <2> QED  BY <2>3, <2>5, <2>8, QuietKept
<1> QED  BY <1>1, <1>2

-----------------------------------------------------------------------------
(* Steps that change nothing but their own session.                        *)

\* A session that goes on, with what it has inserted and filled in.
LEMMA GoesOn ==
  ASSUME IInv, NEW s \in Session, NEW e, e = Parts(e), session' = [session EXCEPT ![s] = e],
         e.new = session[s].new, e.fill = session[s].fill, e.why = session[s].why,
         e.stage \in Stage \ {"arrived", "drawn", "duplicate id"},
         UNCHANGED <<row, next, request, rewound, raced, visits, jobs, confirmation>>,
         session[s].stage # "done"
  PROVE  session'[s] = e /\ (StageInv(s)' => IInv')
<1>1. ShapeInv' /\ Alone(s) /\ session'[s] = e
  BY ShapeKept DEF IInv
<1>2. SessionInv(s)
  BY DEF IInv, SessionsInv
<1>3. StageInv(s)' => SessionInv(s)'
  BY <1>1, <1>2 DEF SessionInv
<1>4. session'[s].why = "duplicate id" => rewound # {}
  BY <1>1 DEF IInv, IdsAreFresh
<1> QED  BY <1>1, <1>3, <1>4, QuietKept

\* A single row to insert is work to do.
LEMMA ItemToDo ==
  ASSUME NEW i \in AnyItem
  PROVE  <<i>> \in Work
<1>1. i \in AnyItem \cup FeedRow
  OBVIOUS
<1> QED  BY <1>1 DEF Work

\* Accepting a form (the create handlers of admin.py) keeps the invariant.
LEMMA CreateKeeps ==
  ASSUME IInv, NEW s \in Session, Create(s), UNCHANGED outlets
  PROVE  IInv'
<1> DEFINE r == request[s]
<1>1. /\ UNCHANGED <<row, next, request, rewound, raced, visits, jobs, confirmation>>
      /\ request[s].do = "create" /\ session[s].stage = "arrived"
  BY DEF Create, tables, outlets, At
<1>2. CASE ~Creatable(r)
  <2>1. Go(s, "refused")
    BY <1>2 DEF Create
  <2> QED  BY <1>1, <2>1, Goes
<1>3. CASE Creatable(r)
  <2>1. PICK i : i = Item(r.table, r.name, r.of, r.parent)
    OBVIOUS
  <2>2. i \in AnyItem
    <3>1. PossibleRequest(r)
      BY RequestAssumption DEF IInv, TypeInv
    <3> QED  BY <1>1, <2>1, <3>1 DEF PossibleRequest, AnyItem, Item
  <2>3. PICK e : e = [session[s] EXCEPT !.stage = "inserting", !.todo = <<i>>]
    OBVIOUS
  <2>4. session' = [session EXCEPT ![s] = e]
    BY <1>3, <2>1, <2>3 DEF Create
  <2>5. session[s] = Parts(session[s])
    BY DEF IInv, ShapeInv
  <2>6. /\ e = Parts(e) /\ e.stage = "inserting" /\ e.todo = <<i>>
        /\ e.new = session[s].new /\ e.fill = session[s].fill /\ e.why = session[s].why
    BY <2>3, <2>5 DEF Parts
  <2>7. session'[s] = e /\ (StageInv(s)' => IInv')
    BY <1>1, <2>4, <2>6, GoesOn DEF Stage
  <2>8. Inserting(s)'
    BY <1>1 DEF Inserting
  <2>9. StageInv(s)'
    BY <2>2, <2>6, <2>7, <2>8, ItemToDo DEF StageInv
  <2> QED  BY <2>7, <2>9
<1> QED  BY <1>2, <1>3

\* Validating a workbook (excel_import.py) keeps the invariant.
LEMMA ValidateKeeps ==
  ASSUME IInv, NEW s \in Session, Validate(s), UNCHANGED outlets
  PROVE  IInv'
<1> DEFINE book == request[s].book
<1>1. /\ UNCHANGED <<row, next, request, rewound, raced, visits, jobs, confirmation>>
      /\ request[s].do = "import" /\ session[s].stage = "arrived"
  BY DEF Validate, tables, outlets, At
<1>2. CASE ~AllValid(book)
  <2>1. Go(s, "refused")
    BY <1>2 DEF Validate
  <2> QED  BY <1>1, <2>1, Goes
<1>3. CASE AllValid(book)
  <2>1. PICK todo \in [DOMAIN book -> UNION {Resolved(book, book[k]) : k \in DOMAIN book}] :
          /\ \A k \in DOMAIN book : todo[k] \in Resolved(book, book[k])
          /\ session' = [session EXCEPT ![s].stage = "inserting", ![s].todo = todo]
    BY <1>3 DEF Validate
  <2>2. todo \in Work
    <3>1. PossibleRequest(request[s])
      BY RequestAssumption DEF IInv, TypeInv
    <3>2. book \in Seq([table : Table, name : Name \cup {NoName}, of : Cell, parent : {NoId}])
      BY <1>1, <3>1 DEF PossibleRequest
    <3>3. DOMAIN book = 1 .. Len(book) /\ Len(book) \in Nat
      BY <3>2, LenProperties
    <3>4. ASSUME NEW k \in 1 .. Len(book) PROVE todo[k] \in AnyItem
      <4>1. book[k] \in [table : Table, name : Name \cup {NoName}, of : Cell, parent : {NoId}]
        BY <3>2, ElementOfSeq
      <4>2. book[k] \in AnyItem
        BY <4>1 DEF AnyItem
      <4>3. \A w \in Id : [book[k] EXCEPT !.parent = w] \in AnyItem
        BY <4>2 DEF AnyItem
      <4>4. \A w \in Named("warehouses", book[k].of) : w \in Id
        BY DEF Named
      <4>5. todo[k] \in Resolved(book, book[k])
        BY <2>1, <3>3
      <4> QED  BY <4>2, <4>3, <4>4, <4>5 DEF Resolved
    <3>5. todo \in [1 .. Len(book) -> AnyItem \cup FeedRow]
      BY <2>1, <3>3, <3>4
    <3> QED  BY <3>3, <3>5 DEF Work
  <2>3. PICK e : e = [session[s] EXCEPT !.stage = "inserting", !.todo = todo]
    OBVIOUS
  <2>4. session' = [session EXCEPT ![s] = e]
    BY <2>1, <2>3
  <2>5. session[s] = Parts(session[s])
    BY DEF IInv, ShapeInv
  <2>6. /\ e = Parts(e) /\ e.stage = "inserting" /\ e.todo = todo
        /\ e.new = session[s].new /\ e.fill = session[s].fill /\ e.why = session[s].why
    BY <2>3, <2>5 DEF Parts
  <2>7. session'[s] = e /\ (StageInv(s)' => IInv')
    BY <1>1, <2>4, <2>6, GoesOn DEF Stage
  <2>8. Inserting(s)'
    BY <1>1 DEF Inserting
  <2>9. StageInv(s)'
    BY <2>2, <2>6, <2>7, <2>8 DEF StageInv
  <2> QED  BY <2>7, <2>9
<1> QED  BY <1>2, <1>3

\* The end of reclaim_sequences keeps the invariant.
LEMMA ReclaimedKeeps ==
  ASSUME IInv, NEW s \in Session, Reclaimed(s), UNCHANGED outlets
  PROVE  IInv'
<1>1. /\ UNCHANGED <<row, next, request, rewound, raced, visits, jobs, confirmation>>
      /\ session[s].stage = "reclaiming" /\ Go(s, session[s].why) /\ session[s].todo = <<>>
  BY DEF Reclaimed, tables, outlets, At
<1>2. ShapeInv' /\ Alone(s)
  BY <1>1, StageSet DEF IInv
<1>3. /\ session'[s].stage = session[s].why /\ session'[s].new = session[s].new
      /\ session'[s].fill = session[s].fill /\ session'[s].todo = session[s].todo
      /\ session'[s].why = session[s].why
  BY <1>1, StageSet DEF IInv
<1>4. SessionInv(s)
  BY DEF IInv, SessionsInv
<1>5. session[s].why \in Reasons
  BY <1>1, <1>4 DEF SessionInv, StageInv, Reclaiming
<1>6. session'[s].todo \in Work
  BY <1>1, <1>3, EmptySeq DEF Work
<1>7. StageInv(s)'
  BY <1>3, <1>5, <1>6 DEF StageInv, Reasons
<1>8. SessionInv(s)'
  BY <1>3, <1>4, <1>5, <1>7 DEF SessionInv, Stage
<1>9. session[s].why = "duplicate id" => rewound # {}
  BY DEF IInv, IdsAreFresh
<1> QED  BY <1>1, <1>2, <1>3, <1>5, <1>8, <1>9, QuietKept DEF Reasons

\* The start of a run of the script keeps the invariant.
LEMMA StartSeedKeeps ==
  ASSUME IInv, NEW s \in Session, StartSeed(s), UNCHANGED outlets
  PROVE  IInv'
<1>1. /\ UNCHANGED <<row, next, request, rewound, raced, visits, jobs, confirmation>>
      /\ request[s].do = "seed" /\ session[s].stage = "arrived"
  BY DEF StartSeed, tables, outlets, At
<1>2. PICK e : e = [session[s] EXCEPT !.stage = "reading", !.todo = Feed]
  OBVIOUS
<1>3. session' = [session EXCEPT ![s] = e]
  BY <1>2 DEF StartSeed
<1>4. session[s] = Parts(session[s])
  BY DEF IInv, ShapeInv
<1>5. /\ e = Parts(e) /\ e.stage = "reading" /\ e.todo = Feed
      /\ e.new = session[s].new /\ e.fill = session[s].fill /\ e.why = session[s].why
  BY <1>2, <1>4 DEF Parts
<1>6. session'[s] = e /\ (StageInv(s)' => IInv')
  BY <1>1, <1>3, <1>5, GoesOn DEF Stage
<1>7. Feed \in Work
  BY FeedAssumption, SeqMonotonic DEF Work
<1>8. StageInv(s)'
  BY <1>5, <1>6, <1>7, FeedAssumption DEF StageInv
<1> QED  BY <1>6, <1>8

\* What the feed says of a code names no table.
LEMMA FeedRowHasNoTable == \A f \in FeedRow : "table" \notin DOMAIN f
BY DEF FeedRow

\* What is to be inserted names its table.
LEMMA ItemHasTable == \A i \in AnyItem : "table" \in DOMAIN i
BY DEF AnyItem

\* What a SKU lacks, with what a run has filled in, it lacks without.
LEMMA LacksIt ==
  ASSUME IInv, NEW s \in Session, NEW f \in FeedRow, NEW i \in Named("skus", f.code)
  PROVE  /\ Lacks(SeenBy(s, i), f, "image") => row["skus"][i].image = NoImage /\ f.image # NoImage
         /\ Lacks(SeenBy(s, i), f, "aisle") => row["skus"][i].aisle = NoId /\ f.aisle # NoName
         /\ Lacks(SeenBy(s, i), f, "image") \in BOOLEAN
         /\ Lacks(SeenBy(s, i), f, "aisle") \in BOOLEAN
<1>1. i \in Id /\ Exists("skus", i) /\ row["skus"][i] \in AnyRow
  BY RowsThere DEF IInv, Named, Table
<1>2. CASE i \notin DOMAIN session[s].fill
  BY <1>2 DEF SeenBy, Lacks
<1>3. CASE i \in DOMAIN session[s].fill
  <2> DEFINE g == session[s].fill[i]
  <2>1. /\ DOMAIN g \subseteq Column
        /\ "image" \in DOMAIN g => g.image \in Image
        /\ "aisle" \in DOMAIN g => g.aisle \in Id
    BY <1>3 DEF IInv, SessionsInv, SessionInv
  <2>2. Sets(g)
    BY <2>1 DEF Sets, Column
  <2>3. SeenBy(s, i) = Overlay(g, row["skus"][i])
    BY <1>3 DEF SeenBy
  <2> HIDE DEF g
  <2>4. /\ SeenBy(s, i).image = IF "image" \in DOMAIN g THEN g.image ELSE row["skus"][i].image
        /\ SeenBy(s, i).aisle = IF "aisle" \in DOMAIN g THEN g.aisle ELSE row["skus"][i].aisle
    BY <1>1, <2>2, <2>3, OverlayRow
  <2>5. NoImage \notin Image /\ NoId \notin Id
    BY TablesAssumption DEF Id, NoId
  <2> QED  BY <2>1, <2>4, <2>5 DEF Lacks
<1> QED  BY <1>2, <1>3

\* Reading the SKU of a code (seed_storefront_catalogue.py) keeps the invariant.
LEMMA ReadSkuKeeps ==
  ASSUME IInv, NEW s \in Session, ReadSku(s), UNCHANGED outlets
  PROVE  IInv'
<1> DEFINE f == Head(session[s].todo)
<1>1. /\ UNCHANGED <<row, next, request, rewound, raced, visits, jobs, confirmation>>
      /\ request[s].do = "seed" /\ session[s].stage = "reading" /\ session[s].todo # <<>>
  BY DEF ReadSku, tables, outlets, At
<1>2. session[s].todo \in Seq(FeedRow)
  BY <1>1 DEF IInv, SessionsInv, SessionInv, StageInv
<1>3. f \in FeedRow /\ Tail(session[s].todo) \in Seq(FeedRow)
  BY <1>1, <1>2, HeadTailProperties
<1>4. session[s] = Parts(session[s])
  BY DEF IInv, ShapeInv
<1>5. \A todo : todo \in Seq(FeedRow) => todo \in Work
  BY SeqMonotonic DEF Work
<1>6. CASE Named("skus", f.code) = {}
  <2>1. PICK e : e = [session[s] EXCEPT !.todo = Tail(@)]
    OBVIOUS
  <2>2. session' = [session EXCEPT ![s] = e]
    BY <1>6, <2>1 DEF ReadSku
  <2>3. /\ e = Parts(e) /\ e.stage = session[s].stage /\ e.todo = Tail(session[s].todo)
        /\ e.new = session[s].new /\ e.fill = session[s].fill /\ e.why = session[s].why
    BY <1>4, <2>1 DEF Parts
  <2>4. session'[s] = e /\ (StageInv(s)' => IInv')
    BY <1>1, <2>2, <2>3, GoesOn DEF Stage
  <2>5. StageInv(s)'
    BY <1>1, <1>3, <1>5, <2>3, <2>4 DEF StageInv
  <2> QED  BY <2>4, <2>5
<1>7. CASE Named("skus", f.code) # {}
  <2>1. PICK i \in Named("skus", f.code) : session' = [session EXCEPT
          ![s].stage = "image",
          ![s].copy = [id |-> i, image |-> Lacks(SeenBy(s, i), f, "image"),
                       aisle |-> Lacks(SeenBy(s, i), f, "aisle"), read |-> row["skus"][i]]]
    BY <1>7 DEF ReadSku
  <2>2. i \in Id /\ Exists("skus", i) /\ row["skus"][i] \in AnyRow
    BY RowsThere DEF IInv, Named, Table
  <2>3. PICK image, aisle : image = Lacks(SeenBy(s, i), f, "image") /\ aisle = Lacks(SeenBy(s, i), f, "aisle")
    OBVIOUS
  <2>4. /\ image => row["skus"][i].image = NoImage /\ f.image # NoImage
        /\ aisle => row["skus"][i].aisle = NoId
    BY <1>3, <2>3, LacksIt
  <2>5. PICK c : c = [id |-> i, image |-> image, aisle |-> aisle, read |-> row["skus"][i]]
    OBVIOUS
  <2>6. PICK e : e = [session[s] EXCEPT !.stage = "image", !.copy = c]
    OBVIOUS
  <2>7. session' = [session EXCEPT ![s] = e]
    BY <2>1, <2>3, <2>5, <2>6
  <2>8. /\ e = Parts(e) /\ e.stage = "image" /\ e.copy = c /\ e.todo = session[s].todo
        /\ e.new = session[s].new /\ e.fill = session[s].fill /\ e.why = session[s].why
    BY <1>4, <2>6 DEF Parts
  <2>9. session'[s] = e /\ (StageInv(s)' => IInv')
    BY <1>1, <2>7, <2>8, GoesOn DEF Stage
  <2>10. c.id = i /\ c.image = image /\ c.aisle = aisle /\ c.read = row["skus"][i]
    BY <2>5
  <2>11. SeedInv(s)'
    BY <1>1, <2>2, <2>4, <2>8, <2>9, <2>10 DEF SeedInv, Exists
  <2>12. Filling(s)'
    BY <1>2, <2>4, <2>8, <2>9, <2>10, <2>11 DEF Filling
  <2>13. StageInv(s)'
    BY <1>2, <1>5, <2>8, <2>9, <2>12 DEF StageInv
  <2> QED  BY <2>9, <2>13
<1> QED  BY <1>6, <1>7

\* Going to insert a missing category keeps the invariant.
LEMMA MakeAisleKeeps ==
  ASSUME IInv, NEW s \in Session, MakeAisle(s), UNCHANGED outlets
  PROVE  IInv'
<1> DEFINE f == Head(session[s].todo)
<1>1. /\ UNCHANGED <<row, next, request, rewound, raced, visits, jobs, confirmation>>
      /\ request[s].do = "seed" /\ session[s].stage = "aisle"
  BY DEF MakeAisle, tables, outlets, At
<1>2. Filling(s) /\ SeedInv(s) /\ session[s].todo \in Seq(FeedRow) /\ session[s].todo # <<>>
  BY <1>1 DEF IInv, SessionsInv, SessionInv, StageInv, Filling, SeedInv
<1>3. f \in FeedRow
  BY <1>2, HeadTailProperties
<1>4. PICK i : i = Item("categories", f.aisle, NoName, NoId)
  OBVIOUS
<1>5. i \in AnyItem
  BY <1>3, <1>4 DEF AnyItem, Item, FeedRow, Cell, Table
<1>6. PICK todo : todo = <<i>> \o session[s].todo
  OBVIOUS
<1>7. todo \in Work /\ todo # <<>> /\ Head(todo) = i /\ Tail(todo) = session[s].todo
  <2>1. i \in AnyItem \cup FeedRow /\ session[s].todo \in Seq(AnyItem \cup FeedRow)
    BY <1>2, <1>5, SeqMonotonic
  <2> QED  BY <1>6, <2>1 DEF Work
<1>8. PICK e : e = [session[s] EXCEPT !.stage = "inserting", !.todo = todo]
  OBVIOUS
<1>9. session' = [session EXCEPT ![s] = e]
  BY <1>4, <1>6, <1>8 DEF MakeAisle
<1>10. session[s] = Parts(session[s])
  BY DEF IInv, ShapeInv
<1>11. /\ e = Parts(e) /\ e.stage = "inserting" /\ e.todo = todo /\ e.copy = session[s].copy
       /\ e.new = session[s].new /\ e.fill = session[s].fill /\ e.why = session[s].why
  BY <1>8, <1>10 DEF Parts
<1>12. session'[s] = e /\ (StageInv(s)' => IInv')
  BY <1>1, <1>9, <1>11, GoesOn DEF Stage
<1>13. SeedInv(s)'
  BY <1>1, <1>2, <1>7, <1>11, <1>12 DEF SeedInv, Exists
<1>14. CategoryFirst(s)'
  BY <1>2, <1>5, <1>7, <1>11, <1>12, ItemHasTable DEF CategoryFirst
<1>15. StageInv(s)'
  BY <1>1, <1>7, <1>11, <1>12, <1>13, <1>14 DEF StageInv, Inserting
<1> QED  BY <1>12, <1>15

\* Coming back from it keeps the invariant.
LEMMA AisleMadeKeeps ==
  ASSUME IInv, NEW s \in Session, AisleMade(s), UNCHANGED outlets
  PROVE  IInv'
<1>1. /\ UNCHANGED <<row, next, request, rewound, raced, visits, jobs, confirmation>>
      /\ request[s].do = "seed" /\ session[s].stage = "inserting"
      /\ "table" \notin DOMAIN Head(session[s].todo) /\ Go(s, "aisle")
  BY DEF AisleMade, tables, outlets, At
<1>2. SessionInv(s) /\ SeedInv(s) /\ CategoryFirst(s) /\ session[s].todo \in Work
  BY <1>1 DEF IInv, SessionsInv, SessionInv, StageInv, Inserting
<1>3. ShapeInv' /\ Alone(s)
  BY <1>1, StageSet DEF IInv
<1>4. /\ session'[s].stage = "aisle" /\ session'[s].new = session[s].new
      /\ session'[s].fill = session[s].fill /\ session'[s].todo = session[s].todo
      /\ session'[s].copy = session[s].copy /\ session'[s].why = session[s].why
  BY <1>1, StageSet DEF IInv
<1>5. SeedInv(s)'
  BY <1>1, <1>2, <1>4 DEF SeedInv, Exists
<1>6. Filling(s)'
  BY <1>1, <1>2, <1>4, <1>5 DEF Filling, CategoryFirst
<1>7. StageInv(s)'
  BY <1>2, <1>4, <1>6 DEF StageInv
<1>8. SessionInv(s)'
  BY <1>2, <1>4, <1>7 DEF SessionInv, Stage
<1>9. session[s].why = "duplicate id" => rewound # {}
  BY DEF IInv, IdsAreFresh
<1> QED  BY <1>1, <1>3, <1>4, <1>8, <1>9, QuietKept

\* A position that is good enough is about to be recorded.
LEMMA RecordingKeeps ==
  ASSUME IInv, NEW s \in Session, session[s].stage = "arrived",
         UNCHANGED <<row, next, request, rewound, raced, visits, jobs, confirmation>>,
         request[s].do \in {"mark", "close"}, request[s].spot # NoSpot, ~request[s].fuzzy,
         Exists("retailers", request[s].shop),
         session' = [session EXCEPT ![s].stage = "recording",
                                    ![s].copy = [pin |-> PinOf(request[s].shop)]]
  PROVE  IInv'
<1>1. PICK c : c = [pin |-> PinOf(request[s].shop)]
  OBVIOUS
<1>2. PICK e : e = [session[s] EXCEPT !.stage = "recording", !.copy = c]
  OBVIOUS
<1>3. session' = [session EXCEPT ![s] = e]
  BY <1>1, <1>2
<1>4. session[s] = Parts(session[s])
  BY DEF IInv, ShapeInv
<1>5. /\ e = Parts(e) /\ e.stage = "recording" /\ e.todo = session[s].todo /\ e.copy = c
      /\ e.new = session[s].new /\ e.fill = session[s].fill /\ e.why = session[s].why
  BY <1>2, <1>4 DEF Parts
<1>6. session'[s] = e /\ (StageInv(s)' => IInv')
  BY <1>3, <1>5, GoesOn DEF Stage
<1>7. row["retailers"][request[s].shop] \in AnyRow
  BY RowsThere DEF IInv, Table
<1>8. c.pin \in Int \cup {NoSpot}
  BY <1>1, <1>7 DEF PinOf, AnyRow
<1>9. request[s].spot \in Int
  <2>1. PossibleRequest(request[s])
    BY RequestAssumption DEF IInv, TypeInv
  <2> QED  BY <2>1 DEF PossibleRequest
<1>10. Recording(s)'
  BY <1>5, <1>6, <1>8, <1>9 DEF Recording, Exists
<1>11. session[s].todo \in Work
  BY DEF IInv, SessionsInv, SessionInv, StageInv
<1>12. StageInv(s)'
  BY <1>5, <1>6, <1>10, <1>11 DEF StageInv
<1> QED  BY <1>6, <1>12

\* mark_delivered, up to its answer or its recording, keeps the invariant.
LEMMA ReadShopKeeps ==
  ASSUME IInv, NEW s \in Session, ReadShop(s)
  PROVE  IInv'
<1> DEFINE r == request[s]
<1>1. /\ UNCHANGED <<row, next, request, rewound, raced, visits, jobs, confirmation>>
      /\ r.do = "mark" /\ session[s].stage = "arrived"
  BY DEF ReadShop, Kept, outlets, At
<1>2. CASE r.fuzzy \/ ~Exists("retailers", r.shop)
  <2>1. Go(s, "refused")
    BY <1>2 DEF ReadShop
  <2> QED  BY <1>1, <2>1, Goes
<1>3. CASE ~(r.fuzzy \/ ~Exists("retailers", r.shop)) /\ Beyond(PinOf(r.shop), r.spot) /\ ~r.confirm
  <2>1. Go(s, "asked")
    BY <1>3 DEF ReadShop
  <2> QED  BY <1>1, <2>1, Goes
<1>4. CASE ~(r.fuzzy \/ ~Exists("retailers", r.shop)) /\ ~(Beyond(PinOf(r.shop), r.spot) /\ ~r.confirm)
  <2>1. session' = [session EXCEPT ![s].stage = "recording", ![s].copy = [pin |-> PinOf(r.shop)]]
    BY <1>4 DEF ReadShop
  <2>2. PossibleRequest(r)
    BY RequestAssumption DEF IInv, TypeInv
  <2>3. r.spot # NoSpot
    BY <1>1, <2>2 DEF PossibleRequest
  <2> QED  BY <1>1, <1>4, <2>1, <2>3, RecordingKeeps
<1> QED  BY <1>2, <1>3, <1>4

\* Closing the order of a shop, likewise.
LEMMA CloseOrderKeeps ==
  ASSUME IInv, NEW s \in Session, CloseOrder(s)
  PROVE  IInv'
<1> DEFINE r == request[s]
<1>1. /\ UNCHANGED <<row, next, request, rewound, raced, visits, jobs, confirmation>>
      /\ r.do = "close" /\ session[s].stage = "arrived"
  BY DEF CloseOrder, Kept, outlets, At
<1>2. CASE r.fuzzy \/ r.spot = NoSpot
  <2>1. Go(s, "done")
    BY <1>2 DEF CloseOrder
  <2> QED  BY <1>1, <2>1, Goes
<1>3. CASE ~(r.fuzzy \/ r.spot = NoSpot)
  <2>1. session' = [session EXCEPT ![s].stage = "recording", ![s].copy = [pin |-> PinOf(r.shop)]]
    BY <1>3 DEF CloseOrder
  <2>2. PossibleRequest(r)
    BY RequestAssumption DEF IInv, TypeInv
  <2>3. Exists("retailers", r.shop)
    BY <1>1, <2>2 DEF PossibleRequest, IInv, ShopsInv
  <2> QED  BY <1>1, <1>3, <2>1, <2>3, RecordingKeeps
<1> QED  BY <1>2, <1>3

\* accept_assignment, up to its answer or its write, keeps the invariant.
LEMMA ReadJobKeeps ==
  ASSUME IInv, NEW s \in Session, ReadJob(s)
  PROVE  IInv'
<1> DEFINE r == request[s]
           unknown == r.job \notin DOMAIN jobs \/ DriverOf[r.user] = NoDriver
           foreign == jobs[r.job].driver # DriverOf[r.user]
<1>1. /\ UNCHANGED <<row, next, request, rewound, raced, visits, jobs, confirmation>>
      /\ session[s].stage = "arrived"
  BY DEF ReadJob, Kept, outlets, At
<1>2. CASE unknown \/ foreign
  <2>1. Go(s, "refused")
    BY <1>2 DEF ReadJob
  <2> QED  BY <1>1, <2>1, Goes
<1>3. CASE ~unknown /\ ~foreign /\ ~Accepts(jobs[r.job])
  <2>1. Go(s, "done")
    BY <1>3 DEF ReadJob
  <2> QED  BY <1>1, <2>1, Goes
<1>4. CASE ~unknown /\ ~foreign /\ Accepts(jobs[r.job])
  <2>1. session' = [session EXCEPT ![s].stage = "accepting", ![s].copy = jobs[r.job]]
    BY <1>4 DEF ReadJob
  <2>2. PICK e : e = [session[s] EXCEPT !.stage = "accepting", !.copy = jobs[r.job]]
    OBVIOUS
  <2>3. session' = [session EXCEPT ![s] = e]
    BY <2>1, <2>2
  <2>4. session[s] = Parts(session[s])
    BY DEF IInv, ShapeInv
  <2>5. /\ e = Parts(e) /\ e.stage = "accepting" /\ e.todo = session[s].todo /\ e.copy = jobs[r.job]
        /\ e.new = session[s].new /\ e.fill = session[s].fill /\ e.why = session[s].why
    BY <2>2, <2>4 DEF Parts
  <2>6. session'[s] = e /\ (StageInv(s)' => IInv')
    BY <1>1, <2>3, <2>5, GoesOn DEF Stage
  <2>7. Accepting(s)'
    BY <1>1, <1>4, <2>5, <2>6 DEF Accepting, Accepts
  <2>8. session[s].todo \in Work
    BY <1>1 DEF IInv, SessionsInv, SessionInv, StageInv
  <2>9. StageInv(s)'
    BY <2>5, <2>6, <2>7, <2>8 DEF StageInv
  <2> QED  BY <2>6, <2>9
<1> QED  BY <1>2, <1>3, <1>4

\* complete_shop, up to its refusal or its write, keeps the invariant.
LEMMA ReadOwnShopKeeps ==
  ASSUME IInv, NEW s \in Session, ReadOwnShop(s)
  PROVE  IInv'
<1>1. /\ UNCHANGED <<row, next, request, rewound, raced, visits, jobs, confirmation>>
      /\ session[s].stage = "arrived"
  BY DEF ReadOwnShop, Kept, outlets, At
<1>2. CASE Go(s, "refused")
  BY <1>1, <1>2, Goes
<1>3. CASE ~Go(s, "refused")
  <2>1. PICK shop : session' = [session EXCEPT ![s].stage = "saving", ![s].copy = shop]
    BY <1>3 DEF ReadOwnShop
  <2>2. PICK e : e = [session[s] EXCEPT !.stage = "saving", !.copy = shop]
    OBVIOUS
  <2>3. session' = [session EXCEPT ![s] = e]
    BY <2>1, <2>2
  <2>4. session[s] = Parts(session[s])
    BY DEF IInv, ShapeInv
  <2>5. /\ e = Parts(e) /\ e.stage = "saving" /\ e.todo = session[s].todo
        /\ e.new = session[s].new /\ e.fill = session[s].fill /\ e.why = session[s].why
    BY <2>2, <2>4 DEF Parts
  <2>6. session'[s] = e /\ (StageInv(s)' => IInv')
    BY <1>1, <2>3, <2>5, GoesOn DEF Stage
  <2>7. session[s].todo \in Work
    BY <1>1 DEF IInv, SessionsInv, SessionInv, StageInv
  <2>8. StageInv(s)'
    BY <2>5, <2>6, <2>7 DEF StageInv
  <2> QED  BY <2>6, <2>8
<1> QED  BY <1>2, <1>3

-----------------------------------------------------------------------------
(* Ids.                                                                    *)

\* A set of naturals that is not empty has a least one.
LEMMA SmallestExists ==
  ASSUME NEW T, T \subseteq Nat, T # {}
  PROVE  \E x \in T : \A y \in T : x <= y
<1> DEFINE R == OpToRel(<, Nat)
<1>1. IsWellFoundedOn(R, Nat)
  BY NatLessThanWellFounded
<1>2. \A x, y \in Nat : x < y => <<x, y>> \in R
  BY DEF OpToRel
<1> HIDE DEF R
<1>3. PICK x \in T : \A y \in T : ~(<<y, x>> \in R)
  BY <1>1, WFMin
<1>4. \A y \in T : ~(y < x)
  BY Zenon, <1>2, <1>3
<1> QED  BY <1>4

\* A set of ids that is not empty has a greatest one, and Max is it.
LEMMA LargestId ==
  ASSUME NEW S, S \subseteq Id \cup {NoId}, S # {}
  PROVE  Max(S) \in S /\ \A x \in S : x <= Max(S)
<1> DEFINE T == {MaxId - x : x \in S}
<1>1. MaxId \in Nat
  BY TablesAssumption
<1>2. \A x \in S : x \in Nat /\ MaxId - x \in Nat
  BY <1>1 DEF Id, NoId
<1>3. PICK m \in T : \A y \in T : m <= y
  <2>1. T \subseteq Nat /\ T # {}
    BY <1>2
  <2> HIDE DEF T
  <2> QED  BY <2>1, SmallestExists
<1>4. PICK x \in S : m = MaxId - x
  BY <1>3
<1>5. \A y \in S : x >= y
  BY <1>1, <1>2, <1>3, <1>4
<1> QED  BY <1>2, <1>5 DEF Max

\* Every request is one that may arrive.
LEMMA RequestsArePossible ==
  ASSUME TypeInv, NEW s \in Session
  PROVE  PossibleRequest(request[s])
BY RequestAssumption DEF TypeInv

\* The parent found for a new row is an id, or none.
LEMMA ParentIsId ==
  ASSUME IInv, NEW s \in Session, NEW i \in AnyItem, NEW p \in Parents(s, i)
  PROVE  p \in Id \cup {NoId}
<1> DEFINE own == {r \in session[s].new : r.table = ParentTable(i.table) /\ r.row.name = i.of}
           ids == {r.id : r \in own}
<1>1. i.parent \in Id \cup {NoId}
  BY DEF AnyItem
<1>2. Named("brands", i.of) \subseteq Id
  BY DEF Named
<1>3. own # {} => Max(ids) \in Id \cup {NoId}
  <2>1. ids \subseteq Id
    BY DEF IInv, SessionsInv, SessionInv, NewRow
  <2>2. own # {} => ids # {}
    OBVIOUS
  <2> HIDE DEF ids
  <2> QED  BY <2>1, <2>2, LargestId
<1> QED  BY <1>1, <1>2, <1>3 DEF Parents

-----------------------------------------------------------------------------
(* Drawing an id and inserting a row.                                      *)

\* Drawing an id from a sequence keeps the invariant: nobody else has the id.
LEMMA DrawKeeps ==
  ASSUME IInv, NEW s \in Session, Draw(s), UNCHANGED outlets
  PROVE  IInv'
<1> DEFINE i == Head(session[s].todo)
<1>1. /\ UNCHANGED <<row, request, rewound, raced, visits, jobs, confirmation>>
      /\ session[s].stage = "inserting" /\ session[s].todo # <<>>
      /\ "table" \in DOMAIN i /\ next[i.table] <= MaxId
      /\ next' = [next EXCEPT ![i.table] = @ + 1]
  BY DEF Draw, outlets
<1>2. SessionInv(s) /\ Inserting(s) /\ session[s].todo \in Work
  BY <1>1 DEF IInv, SessionsInv, SessionInv, StageInv
<1>3. i \in AnyItem
  BY <1>1, <1>2, HeadTailProperties, FeedRowHasNoTable DEF Work
<1>4. PICK p \in Parents(s, i) :
        session' = [session EXCEPT
            ![s].stage = "drawn",
            ![s].drawn = [table |-> i.table, id |-> next[i.table], of |-> i.of,
                          row |-> [name |-> i.name, parent |-> p, image |-> NoImage, aisle |-> NoId,
                                   spot |-> NoSpot]]]
  BY DEF Draw
<1>5. PICK new : new = [name |-> i.name, parent |-> p, image |-> NoImage, aisle |-> NoId, spot |-> NoSpot]
  OBVIOUS
<1>6. PICK d : d = [table |-> i.table, id |-> next[i.table], of |-> i.of, row |-> new]
  OBVIOUS
<1>7. i.table \in Table /\ next[i.table] \in Id /\ next[i.table] \in Nat
  BY <1>1, <1>3, TablesAssumption DEF AnyItem, IInv, TypeInv, Id
<1>8. d \in NewRow /\ d.table = i.table /\ d.id = next[i.table]
  <2>1. p \in Id \cup {NoId}
    BY <1>3, ParentIsId
  <2>2. new \in AnyRow
    BY <1>3, <1>5, <2>1 DEF AnyRow, AnyItem
  <2> QED  BY <1>3, <1>6, <1>7, <2>2 DEF NewRow, AnyItem
<1>9. PICK e : e = [session[s] EXCEPT !.stage = "drawn", !.drawn = d]
  OBVIOUS
<1>10. session' = [session EXCEPT ![s] = e]
  BY <1>4, <1>5, <1>6, <1>9
<1>11. session[s] = Parts(session[s])
  BY DEF IInv, ShapeInv
<1>12. /\ e = Parts(e) /\ e.stage = "drawn" /\ e.todo = session[s].todo /\ e.drawn = d
       /\ e.new = session[s].new /\ e.copy = session[s].copy
       /\ e.fill = session[s].fill /\ e.why = session[s].why
  BY <1>9, <1>11 DEF Parts
<1>13. ShapeInv' /\ Alone(s) /\ session'[s] = e
  BY <1>10, <1>12, ShapeKept DEF IInv
<1>14. SessionInv(s)'
  <2>1. Drawn(s)'
    BY <1>1, <1>3, <1>8, <1>12, <1>13 DEF Drawn
  <2>2. SeedInv(s) => SeedInv(s)'
    BY <1>1, <1>12, <1>13 DEF SeedInv, Exists
  <2>3. CategoryFirst(s) => CategoryFirst(s)'
    BY <1>12, <1>13 DEF CategoryFirst
  <2>4. Inserting(s)'
    BY <1>1, <1>2, <2>2, <2>3 DEF Inserting
  <2>5. StageInv(s)'
    BY <1>2, <1>12, <1>13, <2>1, <2>4 DEF StageInv
  <2> QED  BY <1>2, <1>12, <1>13, <2>5 DEF SessionInv, Stage
<1>15. RowsStay /\ NoRowAppears
  BY <1>1 DEF RowsStay, NoRowAppears, Exists
<1>16. SessionsInv'
  BY <1>1, <1>13, <1>14, <1>15, OthersKept DEF IInv, SessionsInv
<1>17. KeysInv' /\ IdsAreFresh' /\ FillInv'
  <2>1. session[s].why = "duplicate id" => rewound # {}
    BY DEF IInv, IdsAreFresh
  <2> QED  BY <1>1, <1>12, <1>13, <1>15, <2>1, KeysKept, FreshKept, FillKept DEF IInv
<1>18. IdsInv'
  <2> SUFFICES ASSUME rewound = {}
               PROVE  /\ \A t \in Table : \A j \in Id : Exists(t, j)' => j < next'[t]
                      /\ \A u \in Session : \A r \in session'[u].new : r.id < next'[r.table]
                      /\ \A u \in Session : DrawnInv(u)'
    BY <1>1 DEF IdsInv
  <2>1. /\ \A t \in Table : \A j \in Id : Exists(t, j) => j < next[t]
        /\ \A u \in Session : \A r \in session[u].new : r.id < next[r.table]
        /\ \A u \in Session : DrawnInv(u)
    BY DEF IInv, IdsInv
  <2>2. \A t \in Table : next[t] \in Nat /\ next'[t] \in Nat /\ next[t] <= next'[t]
    BY <1>1, <1>7 DEF IInv, TypeInv
  <2>3. next'[i.table] = next[i.table] + 1
    BY <1>1, <1>7 DEF IInv, TypeInv
  <2>4. \A u \in Session : session'[u].new = session[u].new
    BY <1>12, <1>13 DEF Alone
  <2>5. \A u \in Session : \A r \in session[u].new : r \in NewRow /\ r.table \in Table /\ r.id \in Nat
    BY DEF IInv, SessionsInv, SessionInv, NewRow, Id
  <2>6. \A t \in Table : \A j \in Id : Exists(t, j)' => j < next'[t]
    BY <1>15, <2>1, <2>2 DEF NoRowAppears, Id
  <2>7. \A u \in Session : \A r \in session'[u].new : r.id < next'[r.table]
    BY <2>1, <2>2, <2>4, <2>5
  <2>8. OwnId(s, d)'
    <3>1. d.id < next'[d.table]
      BY <1>7, <1>8, <2>3
    <3>2. ~Exists(d.table, d.id)'
      BY <1>7, <1>8, <1>15, <2>1 DEF NoRowAppears
    <3>3. \A u \in Session : \A r \in session'[u].new : ~SameKey(r, d)
      BY <1>7, <1>8, <2>1, <2>4, <2>5 DEF SameKey
    <3>4. \A u \in Session : u # s /\ session'[u].stage = "drawn" => ~SameKey(session'[u].drawn, d)
      <4> SUFFICES ASSUME NEW u \in Session, u # s, session[u].stage = "drawn"
                   PROVE  ~SameKey(session[u].drawn, d)
        BY <1>13 DEF Alone
      <4>1. session[u].drawn \in NewRow
        BY DEF IInv, SessionsInv, SessionInv, StageInv, Drawn
      <4>2. session[u].drawn.id < next[session[u].drawn.table] /\ session[u].drawn.id \in Nat
        BY <2>1, <4>1 DEF DrawnInv, OwnId, NewRow, Id
      <4> QED  BY <1>7, <1>8, <4>2 DEF SameKey
    <3> QED  BY <3>1, <3>2, <3>3, <3>4 DEF OwnId
  <2>9. ASSUME NEW u \in Session, u # s, session[u].stage = "drawn", NEW c, c = session[u].drawn
        PROVE  OwnId(u, c)'
    <3>1. OwnId(u, c) /\ c \in NewRow
      BY <2>1, <2>9 DEF DrawnInv, IInv, SessionsInv, SessionInv, StageInv, Drawn
    <3>2. c.table \in Table /\ c.id \in Id /\ c.id \in Nat
      BY <3>1 DEF NewRow, Id
    <3>3. c.id < next'[c.table]
      BY <2>2, <3>1, <3>2 DEF OwnId
    <3>4. ~Exists(c.table, c.id)'
      BY <1>15, <3>1, <3>2 DEF OwnId, NoRowAppears
    <3>5. \A v \in Session : \A r \in session'[v].new : ~SameKey(r, c)
      BY <2>4, <3>1 DEF OwnId
    <3>6. \A v \in Session : v # u /\ session'[v].stage = "drawn" => ~SameKey(session'[v].drawn, c)
      <4>1. ~SameKey(d, c)
        BY <1>7, <1>8, <3>1, <3>2 DEF OwnId, SameKey
      <4> QED  BY <1>12, <1>13, <3>1, <4>1 DEF OwnId, Alone
    <3> QED  BY <3>3, <3>4, <3>5, <3>6 DEF OwnId
  <2>10. \A u \in Session : DrawnInv(u)'
    BY <1>12, <1>13, <2>8, <2>9 DEF DrawnInv, Alone
  <2> QED  BY <2>6, <2>7, <2>10
<1>19. PinIsEvidenced' /\ VisitsInv' /\ ShopsInv'
  <2>1. s \notin DOMAIN visits
    BY <1>1 DEF IInv, VisitsInv
  <2> QED  BY <1>1, <1>12, <1>13, <1>15, <2>1, PinsKept DEF IInv, PinOf
<1>20. TypeInv'
  BY <1>1, <1>7 DEF IInv, TypeInv
<1> QED  BY <1>13, <1>16, <1>17, <1>18, <1>19, <1>20 DEF IInv

\* An insert keeps the invariant, whether it is refused or not.
LEMMA InsertKeeps ==
  ASSUME IInv, NEW s \in Session, Insert(s), UNCHANGED outlets
  PROVE  IInv'
<1> DEFINE d == session[s].drawn
           taken == \/ Exists(d.table, d.id)
                    \/ \E r \in session[s].new : r.table = d.table /\ r.id = d.id
           refused == \/ \E i \in Id : Exists(d.table, i) /\ SameName(d.table, row[d.table][i], d.row)
                      \/ \E r \in session[s].new : r.table = d.table /\ SameName(d.table, r.row, d.row)
                      \/ d.table = "skus" /\ d.row.parent = NoId
<1>1. /\ UNCHANGED <<row, next, request, rewound, raced, visits, jobs, confirmation>>
      /\ session[s].stage = "drawn" /\ \A u \in Session : ~WaitsFor(s, u)
  BY DEF Insert, tables, outlets
<1>2. SessionInv(s) /\ Inserting(s) /\ Drawn(s) /\ session[s].todo \in Work
  BY <1>1 DEF IInv, SessionsInv, SessionInv, StageInv
<1>3. d \in NewRow /\ d.table \in Table /\ d.id \in Id
  BY <1>2 DEF Drawn, NewRow
<1>4. CASE taken
  <2>1. Fail(s, "duplicate id")
    BY <1>4 DEF Insert
  <2>2. rewound # {}
    BY <1>1, <1>4 DEF IInv, IdsInv, DrawnInv, OwnId, SameKey
  <2> QED  BY <1>1, <2>1, <2>2, Failed DEF Reasons
<1>5. CASE ~taken /\ refused
  <2>1. Fail(s, "refused")
    BY <1>5 DEF Insert
  <2> QED  BY <1>1, <2>1, Failed DEF Reasons
<1>6. CASE ~taken /\ ~refused
  <2>1. session' = [session EXCEPT ![s].stage = "inserting", ![s].todo = Tail(@),
                                   ![s].new = @ \cup {d}]
    BY <1>6 DEF Insert
  <2>2. PICK e : e = [session[s] EXCEPT !.stage = "inserting", !.todo = Tail(@), !.new = @ \cup {d}]
    OBVIOUS
  <2>3. session' = [session EXCEPT ![s] = e]
    BY <2>1, <2>2
  <2>4. session[s] = Parts(session[s])
    BY DEF IInv, ShapeInv
  <2>5. /\ e = Parts(e) /\ e.stage = "inserting" /\ e.todo = Tail(session[s].todo)
        /\ e.new = session[s].new \cup {d} /\ e.copy = session[s].copy
        /\ e.fill = session[s].fill /\ e.why = session[s].why
    BY <2>2, <2>4 DEF Parts
  <2>6. ShapeInv' /\ Alone(s) /\ session'[s] = e
    BY <2>3, <2>5, ShapeKept DEF IInv
  <2>7. SessionInv(s)'
    <3>1. Tail(session[s].todo) \in Work
      BY <1>2, HeadTailProperties DEF Drawn, Work
    <3>2. request[s].do = "seed" => SeedInv(s)' /\ CategoryFirst(s)'
      <4> SUFFICES ASSUME request[s].do = "seed" PROVE SeedInv(s)' /\ CategoryFirst(s)'
        OBVIOUS
      <4>1. /\ SeedInv(s) /\ Tail(session[s].todo) \in Seq(FeedRow)
            /\ Tail(session[s].todo) # <<>>
        BY <1>2, ItemHasTable DEF Inserting, CategoryFirst, Drawn
      <4>2. "table" \notin DOMAIN Head(Tail(session[s].todo))
        BY <4>1, HeadTailProperties, FeedRowHasNoTable
      <4>3. SeedInv(s)'
        BY <1>1, <2>5, <2>6, <4>1 DEF SeedInv, Exists
      <4>4. CategoryFirst(s)'
        BY <2>5, <2>6, <4>1, <4>2 DEF CategoryFirst
      <4> QED  BY <4>3, <4>4
    <3>3. Inserting(s)'
      BY <1>1, <1>2, <3>2 DEF Inserting
    <3>4. StageInv(s)'
      BY <2>5, <2>6, <3>1, <3>3 DEF StageInv
    <3> QED  BY <1>2, <1>3, <2>5, <2>6, <3>4 DEF SessionInv, Stage
  <2>8. RowsStay /\ NoRowAppears
    BY <1>1 DEF RowsStay, NoRowAppears, Exists
  <2>9. SessionsInv'
    BY <1>1, <2>6, <2>7, <2>8, OthersKept DEF IInv, SessionsInv
  <2>10. \A u \in Session \ {s} : \A r \in session[u].new : ~SameKey(r, d)
    BY <1>1 DEF WaitsFor, SameKey
  <2>11. \A r \in session[s].new : ~SameKey(r, d)
    BY <1>6 DEF SameKey
  <2>12. \A u \in Session \ {s} : session'[u] = session[u]
    BY <2>6 DEF Alone
  <2>13. KeysInv'
    <3>1. /\ \A u \in Session : \A r \in session[u].new :
               /\ ~Exists(r.table, r.id)
               /\ \A q \in session[u].new : SameKey(r, q) => r = q
          /\ \A v, u \in Session : v # u =>
               \A r \in session[v].new, q \in session[u].new : ~SameKey(r, q)
      BY DEF IInv, KeysInv
    <3>2. \A r, q : SameKey(r, q) <=> SameKey(q, r)
      BY DEF SameKey
    <3>3. \A r \in session'[s].new :
             /\ ~Exists(r.table, r.id)
             /\ \A q \in session'[s].new : SameKey(r, q) => r = q
      BY <1>6, <2>5, <2>6, <2>11, <3>1, <3>2
    <3>4. \A u \in Session : \A r \in session'[u].new :
             /\ ~Exists(r.table, r.id)
             /\ \A q \in session'[u].new : SameKey(r, q) => r = q
      BY <2>12, <3>1, <3>3
    <3>5. ASSUME NEW v \in Session, NEW u \in Session, v # u,
                 NEW r \in session'[v].new, NEW q \in session'[u].new
          PROVE  ~SameKey(r, q)
      BY <2>5, <2>6, <2>10, <2>12, <3>1, <3>2, <3>5
    <3>6. \A t, i : Exists(t, i)' <=> Exists(t, i)
      BY <1>1 DEF Exists
    <3>7. \A v, u \in Session : v # u =>
             \A r \in session'[v].new, q \in session'[u].new : ~SameKey(r, q)
      BY <3>5
    <3> QED  BY <3>4, <3>6, <3>7 DEF KeysInv
  <2>14. IdsInv'
    <3> SUFFICES ASSUME rewound = {}
                 PROVE  /\ \A t \in Table : \A j \in Id : Exists(t, j)' => j < next[t]
                        /\ \A u \in Session : \A r \in session'[u].new : r.id < next[r.table]
                        /\ \A u \in Session : DrawnInv(u)'
      BY <1>1 DEF IdsInv
    <3>1. /\ \A t \in Table : \A j \in Id : Exists(t, j) => j < next[t]
          /\ \A u \in Session : \A r \in session[u].new : r.id < next[r.table]
          /\ \A u \in Session : DrawnInv(u)
      BY DEF IInv, IdsInv
    <3>2. d.id < next[d.table]
      BY <1>1, <3>1 DEF DrawnInv, OwnId
    <3>3. \A u \in Session : \A r \in session'[u].new : r.id < next[r.table]
      BY <2>5, <2>6, <2>12, <3>1, <3>2
    <3>4. ASSUME NEW u \in Session, u # s, session[u].stage = "drawn", NEW c, c = session[u].drawn
          PROVE  OwnId(u, c)'
      <4>1. OwnId(u, c) /\ c \in NewRow
        BY <3>1, <3>4 DEF DrawnInv, IInv, SessionsInv, SessionInv, StageInv, Drawn
      <4>2. ~SameKey(d, c)
        BY <1>1, <3>4, <4>1 DEF OwnId
      <4>3. ~Exists(c.table, c.id)'
        BY <1>1, <4>1 DEF OwnId, Exists
      <4>4. \A v \in Session : \A r \in session'[v].new : ~SameKey(r, c)
        BY <2>5, <2>6, <2>12, <4>1, <4>2 DEF OwnId
      <4>5. \A v \in Session : v # u /\ session'[v].stage = "drawn" => ~SameKey(session'[v].drawn, c)
        BY <2>5, <2>6, <2>12, <4>1 DEF OwnId
      <4> QED  BY <1>1, <4>1, <4>3, <4>4, <4>5 DEF OwnId
    <3>5. \A u \in Session : DrawnInv(u)'
      BY <2>5, <2>6, <2>12, <3>4 DEF DrawnInv
    <3> QED  BY <2>8, <3>1, <3>3, <3>5 DEF NoRowAppears
  <2>15. IdsAreFresh' /\ FillInv'
    <3>1. session[s].why = "duplicate id" => rewound # {}
      BY DEF IInv, IdsAreFresh
    <3> QED  BY <1>1, <2>5, <2>6, <2>8, <3>1, FreshKept, FillKept DEF IInv
  <2>16. PinIsEvidenced' /\ VisitsInv' /\ ShopsInv'
    <3>1. s \notin DOMAIN visits
      BY <1>1 DEF IInv, VisitsInv
    <3> QED  BY <1>1, <2>5, <2>6, <2>8, <3>1, PinsKept DEF IInv, PinOf
  <2>17. TypeInv'
    BY <1>1 DEF IInv, TypeInv
  <2> QED  BY <2>6, <2>9, <2>13, <2>14, <2>15, <2>16, <2>17 DEF IInv
<1> QED  BY <1>4, <1>5, <1>6

\* The end of a deadlock keeps the invariant.
LEMMA DeadlockKeeps ==
  ASSUME IInv, NEW s \in Session, Deadlock(s), UNCHANGED outlets
  PROVE  IInv'
<1>1. /\ UNCHANGED <<row, next, request, rewound, raced, visits, jobs, confirmation>>
      /\ Fail(s, "refused")
  BY DEF Deadlock, tables, outlets
<1>2. session[s].stage # "done"
  BY DEF Deadlock, WaitsFor
<1> QED  BY <1>1, <1>2, Failed DEF Reasons

-----------------------------------------------------------------------------
(* Editing a row.                                                          *)

\* A form that replaces one row, which nobody has locked, keeps the invariant.
LEMMA RowEdited ==
  ASSUME IInv, NEW s \in Session, NEW t \in Table, NEW i \in Id, Exists(t, i), NEW new \in AnyRow,
         row' = [row EXCEPT ![t][i] = new],
         NEW a \in {"done", "set beat"}, Go(s, a), session[s].stage \notin {"done", "reclaiming"},
         UNCHANGED <<next, request, rewound, raced, visits, jobs, confirmation>>,
         a = "set beat" => Exists("retailers", request[s].id),
         t = "skus" => \A u \in Session : i \notin DOMAIN session[u].fill,
         t = "retailers" => new.spot = row[t][i].spot \/ SetByOffice(i, new.spot)'
  PROVE  IInv'
<1>1. ShapeInv' /\ Alone(s)
  BY StageSet DEF IInv
<1>2. /\ session'[s].stage = a /\ session'[s].new = session[s].new
      /\ session'[s].fill = session[s].fill /\ session'[s].todo = session[s].todo
      /\ session'[s].why = session[s].why
  BY StageSet DEF IInv
<1>3. /\ \A v \in Table : \A j \in Id : row'[v][j] = IF v = t /\ j = i THEN new ELSE row[v][j]
      /\ row' \in [Table -> [Id -> AnyRow \cup {Absent}]]
  BY DEF IInv, TypeInv
<1>4. TypeInv'
  BY <1>3 DEF IInv, TypeInv
<1>5. RowsStay /\ NoRowAppears
  BY <1>3, AbsentIsNoRow DEF RowsStay, NoRowAppears, Exists
<1>6. SessionInv(s)'
  <2>1. SessionInv(s)
    BY DEF IInv, SessionsInv
  <2>3. a = "set beat" => Exists("retailers", request[s].id)'
    BY <1>5 DEF RowsStay, Exists, Table
  <2>2. StageInv(s)'
    BY <1>2, <2>1, <2>3 DEF SessionInv, StageInv
  <2> QED  BY <1>2, <2>1, <2>2 DEF SessionInv, Stage
<1>7. SessionsInv'
  BY <1>1, <1>5, <1>6, OthersKept DEF IInv, SessionsInv
<1>8. KeysInv' /\ IdsInv' /\ IdsAreFresh'
  <2>1. session[s].why = "duplicate id" => rewound # {}
    BY DEF IInv, IdsAreFresh
  <2> QED  BY <1>1, <1>2, <1>5, <2>1, KeysKept, IdsKept, FreshKept DEF IInv
<1>9. FillInv'
  <2>1. \A u \in Session : \A j \in DOMAIN session[u].fill : j \in Id
    BY DEF IInv, SessionsInv, SessionInv
  <2>2. "skus" \in Table
    BY DEF Table
  <2>3. ASSUME NEW u \in Session, NEW j \in DOMAIN session[u].fill
        PROVE  row'["skus"][j] = row["skus"][j]
    <3>1. ~("skus" = t /\ j = i)
      OBVIOUS
    <3>2. row'["skus"][j] = IF "skus" = t /\ j = i THEN new ELSE row["skus"][j]
      BY <1>3, <2>1, <2>2
    <3> QED  BY <3>1, <3>2
  <2>4. \A u \in Session : session'[u].fill = session[u].fill
    BY <1>1, <1>2 DEF Alone
  <2> QED  BY <1>1, <1>2, <1>5, <2>3, <2>4, FillKept DEF IInv
<1>10. PinIsEvidenced' /\ VisitsInv' /\ ShopsInv'
  <2>1. s \notin DOMAIN visits
    BY DEF IInv, VisitsInv
  <2>2. ASSUME NEW j \in Id, NEW pin, pin = PinOf(j)'
        PROVE  pin = PinOf(j) \/ SetByOffice(j, pin)'
    BY <1>3, <2>2 DEF PinOf, Table
  <2> QED  BY <1>1, <1>2, <1>5, <2>1, <2>2, PinsKept DEF IInv
<1> QED  BY <1>1, <1>4, <1>7, <1>8, <1>9, <1>10 DEF IInv

\* update_brand, update_sku and update_category keep the invariant.
LEMMA EditKeeps ==
  ASSUME IInv, NEW s \in Session, Edit(s), UNCHANGED outlets
  PROVE  IInv'
<1> DEFINE r == request[s]
<1>1. /\ UNCHANGED <<next, request, rewound, raced, visits, jobs, confirmation>>
      /\ r.do = "edit" /\ session[s].stage = "arrived" /\ ~Locked(r.table, r.id)
  BY DEF Edit, tables, outlets, At
<1>2. CASE ~(Exists(r.table, r.id) /\ Editable(r))
  <2>1. UNCHANGED row /\ Go(s, "refused")
    BY <1>2 DEF Edit
  <2> QED  BY <1>1, <2>1, Goes
<1>3. CASE Exists(r.table, r.id) /\ Editable(r)
  <2>1. r.table \in {"brands", "skus", "categories"} /\ r.table \in Table /\ Sets(r.set)
    BY <1>1, RequestsArePossible DEF IInv, PossibleRequest, Table
  <2>2. r.id \in Id /\ row[r.table][r.id] \in AnyRow
    BY <1>3, <2>1, RowsThere DEF IInv
  <2>3. PICK new : new = Overlay(r.set, row[r.table][r.id])
    OBVIOUS
  <2>4. new \in AnyRow
    BY <2>1, <2>2, <2>3, OverlayRow
  <2>5. row' = [row EXCEPT ![r.table][r.id] = new] /\ Go(s, "done")
    BY <1>3, <2>3 DEF Edit
  <2>6. r.table = "skus" => \A u \in Session : r.id \notin DOMAIN session[u].fill
    BY <1>1 DEF Locked
  <2> QED  BY <1>1, <1>3, <2>1, <2>2, <2>4, <2>5, <2>6, RowEdited
<1> QED  BY <1>2, <1>3

\* The first commit of update_retailer keeps the invariant.
LEMMA EditRetailerKeeps ==
  ASSUME IInv, NEW s \in Session, EditRetailer(s), UNCHANGED outlets
  PROVE  IInv'
<1> DEFINE r == request[s]
<1>1. /\ UNCHANGED <<next, request, rewound, raced, visits, jobs, confirmation>>
      /\ r.do = "edit retailer" /\ session[s].stage = "arrived"
  BY DEF EditRetailer, tables, outlets, At
<1>2. CASE ~Exists("retailers", r.id)
  <2>1. UNCHANGED row /\ Go(s, "refused")
    BY <1>2 DEF EditRetailer
  <2> QED  BY <1>1, <2>1, Goes
<1>3. CASE Exists("retailers", r.id)
  <2>1. "retailers" \in Table /\ Sets(r.set)
    BY <1>1, RequestsArePossible DEF IInv, PossibleRequest, Table
  <2>2. r.id \in Id /\ row["retailers"][r.id] \in AnyRow
    BY <1>3, <2>1, RowsThere DEF IInv
  <2>3. PICK new : new = Overlay(r.set, row["retailers"][r.id])
    OBVIOUS
  <2>4. /\ new \in AnyRow
        /\ new.spot = IF "spot" \in DOMAIN r.set THEN r.set.spot ELSE row["retailers"][r.id].spot
    BY <2>1, <2>2, <2>3, OverlayRow
  <2>5. PICK a \in {"done", "set beat"} : Go(s, a)
    BY <1>3 DEF EditRetailer
  <2>6. row' = [row EXCEPT !["retailers"][r.id] = new]
    BY <1>3, <2>3 DEF EditRetailer
  <2>7. session'[s].stage = a
    BY <2>5, StageSet DEF IInv
  <2>8. "spot" \in DOMAIN r.set => SetByOffice(r.id, new.spot)'
    BY <1>1, <2>4, <2>7 DEF SetByOffice
  <2> QED  BY <1>1, <1>3, <2>1, <2>2, <2>4, <2>5, <2>6, <2>8, RowEdited
<1> QED  BY <1>2, <1>3

\* So does its second, which sets the beat.
LEMMA SetRetailerBeatKeeps ==
  ASSUME IInv, NEW s \in Session, SetRetailerBeat(s), UNCHANGED outlets
  PROVE  IInv'
<1> DEFINE r == request[s]
<1>1. /\ UNCHANGED <<next, request, rewound, raced, visits, jobs, confirmation>>
      /\ session[s].stage = "set beat"
  BY DEF SetRetailerBeat, tables, outlets, At
<1>2. CASE ~(r.parent = NoId \/ Exists("beats", r.parent))
  <2>1. UNCHANGED row /\ Go(s, "refused")
    BY <1>2 DEF SetRetailerBeat
  <2> QED  BY <1>1, <2>1, Goes
<1>3. CASE r.parent = NoId \/ Exists("beats", r.parent)
  <2>1. Exists("retailers", r.id)
    BY <1>1 DEF IInv, SessionsInv, SessionInv, StageInv
  <2>2. "retailers" \in Table /\ r.id \in Id /\ row["retailers"][r.id] \in AnyRow
    BY <2>1, RowsThere DEF IInv, Table
  <2>3. r.parent \in Id \cup {NoId}
    BY <1>3 DEF Exists
  <2>4. PICK new : new = [row["retailers"][r.id] EXCEPT !.parent = r.parent]
    OBVIOUS
  <2>5. new \in AnyRow /\ new.spot = row["retailers"][r.id].spot
    BY <2>2, <2>3, <2>4 DEF AnyRow
  <2>6. row' = [row EXCEPT !["retailers"][r.id] = new] /\ Go(s, "done")
    BY <1>3, <2>4 DEF SetRetailerBeat
  <2> QED  BY <1>1, <2>1, <2>2, <2>5, <2>6, RowEdited
<1> QED  BY <1>2, <1>3

-----------------------------------------------------------------------------
(* Reclaiming ids.                                                         *)

\* No id of a table is above its greatest.
LEMMA MaxIdOfTable ==
  ASSUME NEW t \in Table
  PROVE  MaxIdOf(t) \in Nat /\ \A i \in Id : Exists(t, i) => i <= MaxIdOf(t)
<1>1. PICK S : S = {NoId} \cup {i \in Id : Exists(t, i)}
  OBVIOUS
<1>2. Max(S) \in S /\ \A x \in S : x <= Max(S)
  BY <1>1, LargestId
<1>3. MaxIdOf(t) = Max(S)
  BY <1>1 DEF MaxIdOf
<1> QED  BY <1>1, <1>2, <1>3 DEF Id, NoId

\* Setting a sequence back keeps the invariant: ids may collide only once rewound says so.
LEMMA ReclaimKeeps ==
  ASSUME IInv, NEW s \in Session, Reclaim(s), UNCHANGED outlets
  PROVE  IInv'
<1>1. PICK t : t = Head(session[s].todo)
  OBVIOUS
<1>2. /\ UNCHANGED <<row, request, raced, visits, jobs, confirmation>>
      /\ session[s].stage = "reclaiming" /\ session[s].todo # <<>>
      /\ next' = [next EXCEPT ![t] = MaxIdOf(t) + 1]
      /\ rewound' = IF \E u \in Session \ {s} : Holds(u, t) THEN rewound \cup {t} ELSE rewound
      /\ session' = [session EXCEPT ![s].todo = Tail(@)]
  BY <1>1 DEF Reclaim, RewoundTo, outlets, At
<1>3. SessionInv(s) /\ Reclaiming(s)
  BY <1>2 DEF IInv, SessionsInv, SessionInv, StageInv
<1>4. t \in Table /\ Tail(session[s].todo) \in Seq(Table)
  BY <1>1, <1>2, <1>3, HeadTailProperties DEF Reclaiming
<1>5. PICK e : e = [session[s] EXCEPT !.todo = Tail(@)]
  OBVIOUS
<1>6. session' = [session EXCEPT ![s] = e]
  BY <1>2, <1>5
<1>7. session[s] = Parts(session[s])
  BY DEF IInv, ShapeInv
<1>8. /\ e = Parts(e) /\ e.stage = session[s].stage /\ e.todo = Tail(session[s].todo)
      /\ e.new = session[s].new /\ e.fill = session[s].fill /\ e.why = session[s].why
  BY <1>5, <1>7 DEF Parts
<1>9. ShapeInv' /\ Alone(s) /\ session'[s] = e
  BY <1>6, <1>8, ShapeKept DEF IInv
<1>10. SessionInv(s)'
  <2>1. Reclaiming(s)'
    BY <1>3, <1>4, <1>8, <1>9 DEF Reclaiming
  <2>2. StageInv(s)'
    BY <1>2, <1>8, <1>9, <2>1 DEF StageInv
  <2> QED  BY <1>3, <1>8, <1>9, <2>2 DEF SessionInv
<1>11. RowsStay /\ NoRowAppears
  BY <1>2 DEF RowsStay, NoRowAppears, Exists
<1>12. SessionsInv'
  BY <1>2, <1>9, <1>10, <1>11, OthersKept DEF IInv, SessionsInv
<1>13. rewound \subseteq rewound' /\ (rewound # {} => rewound' # {})
  BY <1>2
<1>14. KeysInv' /\ IdsAreFresh' /\ FillInv'
  <2>1. session[s].why = "duplicate id" => rewound # {}
    BY DEF IInv, IdsAreFresh
  <2> QED  BY <1>2, <1>8, <1>9, <1>11, <1>13, <2>1, KeysKept, FreshKept, FillKept DEF IInv
<1>15. /\ MaxIdOf(t) \in Nat /\ \A i \in Id : Exists(t, i) => i <= MaxIdOf(t)
       /\ next'[t] = MaxIdOf(t) + 1
       /\ \A v \in Table \ {t} : next'[v] = next[v]
  BY <1>2, <1>4, MaxIdOfTable DEF IInv, TypeInv
<1>16. IdsInv'
  <2> SUFFICES ASSUME rewound' = {}
               PROVE  /\ \A v \in Table : \A j \in Id : Exists(v, j)' => j < next'[v]
                      /\ \A u \in Session : \A r \in session'[u].new : r.id < next'[r.table]
                      /\ \A u \in Session : DrawnInv(u)'
    BY DEF IdsInv
  <2>1. /\ rewound = {}
        /\ \A v \in Table : \A j \in Id : Exists(v, j) => j < next[v]
        /\ \A u \in Session : \A r \in session[u].new : r.id < next[r.table]
        /\ \A u \in Session : DrawnInv(u)
    BY <1>13 DEF IInv, IdsInv
  <2>2. \A u \in Session \ {s} : ~Holds(u, t)
    BY <1>2
  <2>3. \A u \in Session : session'[u].new = session[u].new
    BY <1>8, <1>9 DEF Alone
  <2>4. \A u \in Session : \A r \in session[u].new : r.table \in Table \ {t}
    BY <1>3, <2>2 DEF Reclaiming, Holds, IInv, SessionsInv, SessionInv, NewRow
  <2>5. \A v \in Table : \A j \in Id : Exists(v, j)' => j < next'[v]
    BY <1>11, <1>15, <2>1 DEF NoRowAppears, Id
  <2>6. \A u \in Session : \A r \in session'[u].new : r.id < next'[r.table]
    BY <1>15, <2>1, <2>3, <2>4
  <2>7. ASSUME NEW u \in Session, session'[u].stage = "drawn", NEW c, c = session'[u].drawn
        PROVE  OwnId(u, c)'
    <3>1. u # s /\ session'[u] = session[u]
      BY <1>2, <1>8, <1>9, <2>7 DEF Alone
    <3>2. OwnId(u, c) /\ c \in NewRow
      BY <2>1, <2>7, <3>1 DEF DrawnInv, IInv, SessionsInv, SessionInv, StageInv, Drawn
    <3>3. c.table \in Table \ {t} /\ c.id \in Id
      BY <2>2, <2>7, <3>1, <3>2 DEF NewRow, Holds
    <3>4. c.id < next'[c.table]
      BY <1>15, <3>2, <3>3 DEF OwnId
    <3>5. ~Exists(c.table, c.id)'
      BY <1>11, <3>2, <3>3 DEF OwnId, NoRowAppears
    <3>6. \A v \in Session : v # u /\ session'[v].stage = "drawn" => ~SameKey(session'[v].drawn, c)
      BY <1>2, <1>8, <1>9, <3>2 DEF OwnId, Alone
    <3> QED  BY <2>3, <3>2, <3>4, <3>5, <3>6 DEF OwnId
  <2>8. \A u \in Session : DrawnInv(u)'
    BY <2>7 DEF DrawnInv
  <2> QED  BY <2>5, <2>6, <2>8
<1>17. PinIsEvidenced' /\ VisitsInv' /\ ShopsInv'
  <2>1. s \notin DOMAIN visits
    BY <1>2 DEF IInv, VisitsInv
  <2> QED  BY <1>2, <1>8, <1>9, <1>11, <2>1, PinsKept DEF IInv, PinOf
<1>18. TypeInv'
  BY <1>2, <1>4, <1>15 DEF IInv, TypeInv
<1> QED  BY <1>9, <1>12, <1>14, <1>16, <1>17, <1>18 DEF IInv

-----------------------------------------------------------------------------
(* The end of a transaction.                                               *)

\* The tables with the rows of a transaction: the rows there were, and its own.
LEMMA WithNewRows ==
  ASSUME IInv, NEW s \in Session
  PROVE  /\ WithNew(s) \in [Table -> [Id -> AnyRow \cup {Absent}]]
         /\ \A t \in Table : \A i \in Id : Exists(t, i) => WithNew(s)[t][i] = row[t][i]
         /\ \A t \in Table : \A i \in Id : WithNew(s)[t][i] # Absent /\ ~Exists(t, i) =>
              \E r \in session[s].new : r.table = t /\ r.id = i
         /\ \A r \in session[s].new : WithNew(s)[r.table][r.id] = r.row
<1>1. /\ session[s].new \subseteq NewRow
      /\ \A r, q \in session[s].new : SameKey(r, q) => r = q
      /\ \A r \in session[s].new : ~Exists(r.table, r.id)
  BY DEF IInv, SessionsInv, SessionInv, KeysInv
<1>2. ASSUME NEW t \in Table, NEW i \in Id
      PROVE  /\ WithNew(s)[t][i] \in AnyRow \cup {Absent}
             /\ Exists(t, i) => WithNew(s)[t][i] = row[t][i]
             /\ WithNew(s)[t][i] # Absent /\ ~Exists(t, i) =>
                  \E r \in session[s].new : r.table = t /\ r.id = i
             /\ \A r \in session[s].new : r.table = t /\ r.id = i => WithNew(s)[t][i] = r.row
  <2>1. PICK new : new = {r \in session[s].new : r.table = t /\ r.id = i}
    OBVIOUS
  <2>2. WithNew(s)[t][i] = IF new = {} THEN row[t][i] ELSE (CHOOSE r \in new : TRUE).row
    BY <2>1 DEF WithNew
  <2>3. row[t][i] \in AnyRow \cup {Absent} /\ (~Exists(t, i) => row[t][i] = Absent)
    BY RowsThere DEF IInv, TypeInv
  <2>4. CASE new = {}
    BY <2>1, <2>2, <2>3, <2>4
  <2>5. CASE new # {}
    <3>1. PICK r \in new : r = CHOOSE q \in new : TRUE
      BY <2>5
    <3>2. r \in session[s].new /\ r.table = t /\ r.id = i /\ r.row \in AnyRow
      BY <1>1, <2>1, <3>1 DEF NewRow
    <3>3. \A q \in session[s].new : q.table = t /\ q.id = i => q = r
      BY <1>1, <3>2 DEF SameKey
    <3>4. ~Exists(t, i)
      BY <1>1, <3>2
    <3> QED  BY <2>2, <2>5, <3>1, <3>2, <3>3, <3>4
  <2> QED  BY <2>4, <2>5
<1>3. WithNew(s) = [t \in Table |-> [i \in Id |-> WithNew(s)[t][i]]]
  BY DEF WithNew
<1>4. WithNew(s) \in [Table -> [Id -> AnyRow \cup {Absent}]]
  BY <1>2, <1>3
<1>5. \A r \in session[s].new : r.table \in Table /\ r.id \in Id
  BY <1>1 DEF NewRow
<1> QED  BY <1>2, <1>4, <1>5

\* A transaction that commits its rows, and changes no pin nor what others have filled in.
LEMMA Commits ==
  ASSUME IInv, NEW s \in Session, session[s].stage # "done",
         session' = [session EXCEPT ![s] = [Fresh EXCEPT !.stage = "done"]],
         UNCHANGED <<next, request, rewound, raced, visits, jobs, confirmation>>,
         row' \in [Table -> [Id -> AnyRow \cup {Absent}]], RowsStay,
         \A t \in Table : \A i \in Id : Exists(t, i)' /\ ~Exists(t, i) =>
           \E r \in session[s].new : r.table = t /\ r.id = i,
         \A u \in Session \ {s} : \A i \in DOMAIN session[u].fill : row'["skus"][i] = row["skus"][i],
         \A i \in Id : Exists("retailers", i) => row'["retailers"][i] = row["retailers"][i]
  PROVE  IInv'
<1>1. /\ ShapeInv' /\ Alone(s) /\ SessionInv(s)'
      /\ session'[s].stage = "done" /\ session'[s].new = {} /\ session'[s].fill = <<>>
      /\ session'[s].why = ""
  BY Ended
<1>2. SessionsInv'
  BY <1>1, OthersKept DEF IInv, SessionsInv
<1>3. \A u \in Session : \A r \in session[u].new : r \in NewRow /\ r.table \in Table /\ r.id \in Id
  BY DEF IInv, SessionsInv, SessionInv, NewRow
<1>4. /\ \A u \in Session : \A r \in session[u].new :
           /\ ~Exists(r.table, r.id)
           /\ \A q \in session[u].new : SameKey(r, q) => r = q
      /\ \A v, u \in Session : v # u =>
           \A r \in session[v].new, q \in session[u].new : ~SameKey(r, q)
  BY DEF IInv, KeysInv
<1>12. \A u \in Session : u # s => session'[u] = session[u]
  BY <1>1 DEF Alone
<1>13. \A u \in Session : session'[u].stage = "drawn" => u # s
  BY <1>1
<1>14. \A u \in Session : u = s => session'[u].new = {}
  BY <1>1
<1>15. \A u \in Session : u # s => session'[u].new = session[u].new
  BY <1>12
<1>5. \A u \in Session : session'[u].new = IF u = s THEN {} ELSE session[u].new
  BY <1>14, <1>15
<1>6. KeysInv'
  <2>1. ASSUME NEW u \in Session \ {s}, NEW r \in session[u].new PROVE ~Exists(r.table, r.id)'
    BY <1>3, <1>4 DEF SameKey
  <2>2. \A u \in Session : \A r \in session'[u].new :
           /\ ~Exists(r.table, r.id)'
           /\ \A q \in session'[u].new : SameKey(r, q) => r = q
    BY <1>4, <1>5, <2>1
  <2>3. \A v, u \in Session : v # u =>
           \A r \in session'[v].new, q \in session'[u].new : ~SameKey(r, q)
    BY <1>4, <1>5
  <2> QED  BY <2>2, <2>3 DEF KeysInv
<1>7. IdsInv'
  <2> SUFFICES ASSUME rewound = {}
               PROVE  /\ \A t \in Table : \A j \in Id : Exists(t, j)' => j < next[t]
                      /\ \A u \in Session : \A r \in session'[u].new : r.id < next[r.table]
                      /\ \A u \in Session : DrawnInv(u)'
    BY DEF IdsInv
  <2>1. /\ \A t \in Table : \A j \in Id : Exists(t, j) => j < next[t]
        /\ \A u \in Session : \A r \in session[u].new : r.id < next[r.table]
        /\ \A u \in Session : DrawnInv(u)
    BY DEF IInv, IdsInv
  <2>2. \A t \in Table : \A j \in Id : Exists(t, j)' => j < next[t]
    BY <2>1
  <2>3. \A u \in Session : \A r \in session'[u].new : r.id < next[r.table]
    BY <1>5, <2>1
  <2>4. ASSUME NEW u \in Session, session'[u].stage = "drawn", NEW c, c = session'[u].drawn
        PROVE  OwnId(u, c)'
    <3>1. u # s /\ session'[u] = session[u]
      BY <1>12, <1>13, <2>4
    <3>2. OwnId(u, c) /\ c \in NewRow
      BY <2>1, <2>4, <3>1 DEF DrawnInv, IInv, SessionsInv, SessionInv, StageInv, Drawn
    <3>3. c.table \in Table /\ c.id \in Id
      BY <3>2 DEF NewRow
    <3>4. ~Exists(c.table, c.id)'
      BY <3>2, <3>3 DEF OwnId, SameKey
    <3>5. \A v \in Session : \A r \in session'[v].new : ~SameKey(r, c)
      BY <1>5, <3>2 DEF OwnId
    <3>6. \A v \in Session : v # u /\ session'[v].stage = "drawn" => ~SameKey(session'[v].drawn, c)
      <4> SUFFICES ASSUME NEW v \in Session, v # u, session'[v].stage = "drawn"
                   PROVE  ~SameKey(session'[v].drawn, c)
        OBVIOUS
      <4>1. session'[v] = session[v]
        BY <1>12, <1>13
      <4> QED  BY <3>2, <4>1 DEF OwnId
    <3> QED  BY <3>2, <3>4, <3>5, <3>6 DEF OwnId
  <2>5. \A u \in Session : DrawnInv(u)'
    BY <2>4 DEF DrawnInv
  <2> QED  BY <2>2, <2>3, <2>5
<1>8. IdsAreFresh'
  BY <1>1, FreshKept DEF IInv
<1>9. FillInv'
  <2>1. DOMAIN session'[s].fill = {}
    BY <1>1, NothingIn
  <2>2. \A u \in Session : u = s => \A i \in DOMAIN session'[u].fill : row'["skus"][i] = row["skus"][i]
    BY <2>1
  <2>3. \A u \in Session : u # s => \A i \in DOMAIN session'[u].fill : row'["skus"][i] = row["skus"][i]
    BY <1>12
  <2>4. \A u \in Session : \A i \in DOMAIN session'[u].fill :
          /\ row'["skus"][i].image = row["skus"][i].image
          /\ row'["skus"][i].aisle = row["skus"][i].aisle
    BY <2>2, <2>3
  <2>5. session'[s].fill \in {session[s].fill, <<>>}
    BY <1>1
  <2>6. Alone(s)
    BY <1>1
  <2> QED  BY <2>4, <2>5, <2>6, FillKept DEF IInv
<1>10. PinIsEvidenced' /\ VisitsInv' /\ ShopsInv'
  <2>1. s \notin DOMAIN visits
    BY DEF IInv, VisitsInv
  <2> QED  BY <1>1, <2>1, PinsKept DEF IInv, PinOf
<1>11. TypeInv'
  BY DEF IInv, TypeInv
<1> QED  BY <1>1, <1>2, <1>6, <1>7, <1>8, <1>9, <1>10, <1>11 DEF IInv

\* The commit of an import or a form keeps the invariant.
LEMMA CommitKeeps ==
  ASSUME IInv, NEW s \in Session, Commit(s), UNCHANGED outlets
  PROVE  IInv'
<1>1. /\ UNCHANGED <<next, request, rewound, raced, visits, jobs, confirmation>>
      /\ session[s].stage = "inserting" /\ row' = WithNew(s)
      /\ session' = [session EXCEPT ![s] = [Fresh EXCEPT !.stage = "done"]]
  BY DEF Commit, outlets
<1>2. /\ row' \in [Table -> [Id -> AnyRow \cup {Absent}]]
      /\ \A t \in Table : \A i \in Id : Exists(t, i) => row'[t][i] = row[t][i]
      /\ \A t \in Table : \A i \in Id : row'[t][i] # Absent /\ ~Exists(t, i) =>
           \E r \in session[s].new : r.table = t /\ r.id = i
  BY <1>1, WithNewRows
<1>3. RowsStay /\ \A t \in Table : \A i \in Id : Exists(t, i)' => row'[t][i] # Absent
  BY <1>2 DEF RowsStay, Exists
<1>4. \A i \in Id : Exists("retailers", i) => row'["retailers"][i] = row["retailers"][i]
  BY <1>2 DEF Table
<1>5. \A u \in Session : \A i \in DOMAIN session[u].fill : row'["skus"][i] = row["skus"][i]
  <2>1. \A u \in Session : \A i \in DOMAIN session[u].fill : i \in Id /\ Exists("skus", i)
    BY DEF IInv, SessionsInv, SessionInv, FillInv
  <2> QED  BY <1>2, <2>1 DEF Table
<1> QED  BY <1>1, <1>2, <1>3, <1>4, <1>5, Commits

\* The end of a run of the script, applied or not, keeps the invariant.
LEMMA EndSeedKeeps ==
  ASSUME IInv, NEW s \in Session, EndSeed(s), UNCHANGED outlets
  PROVE  IInv'
<1> DEFINE filled == session[s].fill
           new == WithNew(s)
<1>1. /\ UNCHANGED <<next, request, rewound, raced, visits, jobs, confirmation>>
      /\ session[s].stage = "reading"
      /\ session' = [session EXCEPT ![s] = [Fresh EXCEPT !.stage = "done"]]
  BY DEF EndSeed, outlets, At
<1>2. CASE ~request[s].apply
  <2>1. row' = row
    BY <1>2 DEF EndSeed
  <2>2. RowsStay /\ NoRowAppears
    BY <2>1 DEF RowsStay, NoRowAppears, Exists
  <2> QED  BY <1>1, <2>1, <2>2, Commits DEF IInv, TypeInv, NoRowAppears
<1>3. CASE request[s].apply
  <2>1. row' = [new EXCEPT !["skus"] = [i \in Id |->
            IF i \in DOMAIN filled THEN Overlay(filled[i], @[i]) ELSE @[i]]]
    BY <1>3 DEF EndSeed
  <2>2. /\ new \in [Table -> [Id -> AnyRow \cup {Absent}]]
        /\ \A t \in Table : \A i \in Id : Exists(t, i) => new[t][i] = row[t][i]
        /\ \A t \in Table : \A i \in Id : new[t][i] # Absent /\ ~Exists(t, i) =>
             \E r \in session[s].new : r.table = t /\ r.id = i
    BY WithNewRows
  <2> HIDE DEF new
  <2>3. "skus" \in Table /\ "retailers" \in Table
    BY DEF Table
  <2>4. /\ \A t \in Table \ {"skus"} : row'[t] = new[t]
        /\ \A i \in Id : row'["skus"][i] =
             IF i \in DOMAIN filled THEN Overlay(filled[i], new["skus"][i]) ELSE new["skus"][i]
    BY <2>1, <2>2, <2>3
  <2>5. ASSUME NEW i \in DOMAIN filled
        PROVE  i \in Id /\ Exists("skus", i) /\ Overlay(filled[i], new["skus"][i]) \in AnyRow
    <3>1. /\ i \in Id /\ Exists("skus", i)
          /\ DOMAIN filled[i] \subseteq Column
          /\ "image" \in DOMAIN filled[i] => filled[i].image \in Image
          /\ "aisle" \in DOMAIN filled[i] => filled[i].aisle \in Id
      BY DEF IInv, SessionsInv, SessionInv, FillInv
    <3>2. new["skus"][i] \in AnyRow
      BY <2>2, <2>3, <3>1, RowsThere DEF IInv
    <3>3. Sets(filled[i])
      BY <3>1 DEF Sets, Column
    <3> QED  BY <3>1, <3>2, <3>3, OverlayRow
  <2>6. row' \in [Table -> [Id -> AnyRow \cup {Absent}]]
    <3>1. [i \in Id |-> IF i \in DOMAIN filled THEN Overlay(filled[i], new["skus"][i]) ELSE new["skus"][i]]
            \in [Id -> AnyRow \cup {Absent}]
      BY <2>2, <2>3, <2>5
    <3> QED  BY <2>1, <2>2, <3>1
  <2>7. \A t \in Table : \A i \in Id : Exists(t, i) => row'[t][i] # Absent
    BY <2>2, <2>4, <2>5, AbsentIsNoRow DEF Exists
  <2>8. RowsStay
    BY <2>7 DEF RowsStay, Exists
  <2>9. \A t \in Table : \A i \in Id : Exists(t, i)' /\ ~Exists(t, i) => new[t][i] # Absent
    BY <2>4, <2>5 DEF Exists
  <2>10. \A i \in Id : Exists("retailers", i) => row'["retailers"][i] = row["retailers"][i]
    BY <2>2, <2>3, <2>4
  <2>11. \A u \in Session \ {s} : \A i \in DOMAIN session[u].fill : row'["skus"][i] = row["skus"][i]
    <3>1. \A u \in Session \ {s} : \A i \in DOMAIN session[u].fill :
            i \in Id /\ Exists("skus", i) /\ i \notin DOMAIN filled
      BY DEF IInv, SessionsInv, SessionInv, FillInv
    <3> QED  BY <2>2, <2>3, <2>4, <3>1
  <2> QED  BY <1>1, <2>2, <2>6, <2>8, <2>9, <2>10, <2>11, Commits
<1> QED  BY <1>2, <1>3

-----------------------------------------------------------------------------
(* The script fills in a column.                                           *)

IsFilled(F, i, column, value, old) ==
  /\ DOMAIN F = {i} \cup DOMAIN old
  /\ \A j \in DOMAIN F : j # i => j \in DOMAIN old /\ F[j] = old[j]
  /\ F[i][column] = value
  /\ \A c \in DOMAIN F[i] : c # column => i \in DOMAIN old /\ c \in DOMAIN old[i] /\ F[i][c] = old[i][c]

\* Filling in a column changes that column of that SKU only.
LEMMA FilledIs ==
  ASSUME NEW s \in Session, NEW column, NEW value, NEW F, F = Filled(s, column, value),
         NEW i, i = session[s].copy.id, NEW old, old = session[s].fill
  PROVE  IsFilled(F, i, column, value, old)
<1>1. PICK before : before = IF i \in DOMAIN old THEN old[i] ELSE <<>>
  OBVIOUS
<1>2. PICK one : one = [c \in {column} |-> value]
  OBVIOUS
<1>3. PICK after : after = Overlay(one, before)
  OBVIOUS
<1>4. PICK mine : mine = [j \in {i} |-> after]
  OBVIOUS
<1>5. F = Overlay(mine, old)
  BY <1>1, <1>2, <1>3, <1>4 DEF Filled
<1>6. DOMAIN mine = {i} /\ mine[i] = after
  BY <1>4
<1>7. /\ DOMAIN F = {i} \cup DOMAIN old /\ F[i] = after
      /\ \A j \in DOMAIN F : j # i => j \in DOMAIN old /\ F[j] = old[j]
  BY <1>5, <1>6 DEF Overlay
<1>8. DOMAIN one = {column} /\ one[column] = value
  BY <1>2
<1>9. /\ after[column] = value
      /\ \A c \in DOMAIN after : c # column => c \in DOMAIN before /\ after[c] = before[c]
  BY <1>3, <1>8 DEF Overlay
<1>10. \A c \in DOMAIN before : i \in DOMAIN old /\ before = old[i]
  BY <1>1, NothingIn
<1> QED  BY <1>7, <1>9, <1>10 DEF IsFilled

\* Filling in a column that was read empty keeps the invariant: the lock excludes a second run.
LEMMA Fills ==
  ASSUME IInv, NEW s \in Session, session[s].stage \in Column, Filling(s),
         NEW column \in Column, NEW value,
         column = "image" => value \in Image /\ session[s].copy.read.image = NoImage,
         column = "aisle" => value \in Id /\ session[s].copy.read.aisle = NoId,
         \A u \in Session : ~WaitsFor(s, u),
         NEW e, e = Parts(e), session' = [session EXCEPT ![s] = e],
         e.new = session[s].new, e.fill = Filled(s, column, value), e.why = session[s].why,
         e.stage \in {"aisle", "reading"},
         Overtaken(s, Edited(s, column)),
         UNCHANGED <<row, next, request, rewound, visits, jobs, confirmation>>
  PROVE  session'[s] = e /\ (StageInv(s)' => IInv')
<1>1. ShapeInv' /\ Alone(s) /\ session'[s] = e
  BY ShapeKept DEF IInv
<1>2. SUFFICES ASSUME StageInv(s)' PROVE IInv'
  BY <1>1
<1>3. PICK i : i = session[s].copy.id
  OBVIOUS
<1>4. PICK old : old = session[s].fill
  OBVIOUS
<1>5. PICK F : F = Filled(s, column, value)
  OBVIOUS
<1>6. /\ i \in Id /\ Exists("skus", i) /\ session[s].copy.read \in AnyRow
      /\ row["skus"][i] \in AnyRow
  BY <1>3, RowsThere DEF Filling, SeedInv, IInv, Table
<1>7. /\ DOMAIN old \subseteq Id
      /\ \A j \in DOMAIN old :
           /\ DOMAIN old[j] \subseteq Column
           /\ "image" \in DOMAIN old[j] => old[j].image \in Image
           /\ "aisle" \in DOMAIN old[j] => old[j].aisle \in Id
      /\ session[s].new \subseteq NewRow
  BY <1>4 DEF IInv, SessionsInv, SessionInv
<1>8. \A j \in DOMAIN old :
        /\ Exists("skus", j)
        /\ j \notin raced =>
             /\ "image" \in DOMAIN old[j] => row["skus"][j].image = NoImage
             /\ "aisle" \in DOMAIN old[j] => row["skus"][j].aisle = NoId
  BY <1>4 DEF IInv, FillInv
<1>23. IsFilled(F, i, column, value, old)
  BY <1>3, <1>4, <1>5, FilledIs
<1>9. /\ DOMAIN F = {i} \cup DOMAIN old
      /\ \A j \in DOMAIN F : j # i => j \in DOMAIN old /\ F[j] = old[j]
      /\ F[i][column] = value
  BY <1>23 DEF IsFilled
<1>10. \A c \in DOMAIN F[i] : c # column => i \in DOMAIN old /\ c \in DOMAIN old[i] /\ F[i][c] = old[i][c]
  BY <1>23 DEF IsFilled
<1>11. e.fill = F
  BY <1>5
<1>12. /\ DOMAIN F[i] \subseteq Column
       /\ "image" \in DOMAIN F[i] => F[i].image \in Image
       /\ "aisle" \in DOMAIN F[i] => F[i].aisle \in Id
  <2>1. DOMAIN F[i] \subseteq Column
    BY <1>7, <1>10
  <2>2. CASE column = "image"
    BY <1>7, <1>9, <1>10, <2>1, <2>2
  <2>3. CASE column = "aisle"
    BY <1>7, <1>9, <1>10, <2>1, <2>3
  <2> QED  BY <2>2, <2>3 DEF Column
<1>13. SessionInv(s)'
  <2>1. DOMAIN F \subseteq Id
    BY <1>6, <1>7, <1>9
  <2>2. \A j \in DOMAIN F :
           /\ DOMAIN F[j] \subseteq Column
           /\ "image" \in DOMAIN F[j] => F[j].image \in Image
           /\ "aisle" \in DOMAIN F[j] => F[j].aisle \in Id
    BY <1>7, <1>9, <1>12
  <2>3. e.stage \in Stage
    BY DEF Stage
  <2> QED  BY <1>1, <1>2, <1>7, <1>11, <2>1, <2>2, <2>3 DEF SessionInv
<1>14. RowsStay /\ NoRowAppears
  BY DEF RowsStay, NoRowAppears, Exists
<1>15. SessionsInv'
  BY <1>1, <1>13, <1>14, OthersKept DEF IInv, SessionsInv
<1>16. session'[s].new = session[s].new /\ session'[s].why = session[s].why
       /\ session'[s].stage \in {"aisle", "reading"} /\ session'[s].fill = F
  BY <1>1, <1>11
<1>17. KeysInv' /\ IdsInv'
  BY <1>1, <1>14, <1>16, KeysKept, IdsKept DEF IInv
<1>18. IdsAreFresh'
  <2>1. session[s].why = "duplicate id" => rewound # {}
    BY DEF IInv, IdsAreFresh
  <2> QED  BY <1>1, <1>16, <2>1, FreshKept DEF IInv
<1>19. raced \subseteq raced' /\ (i \notin raced' => row["skus"][i][column] = session[s].copy.read[column])
  BY <1>3 DEF Overtaken, Edited
<1>20. FillInv'
  <2>1. ASSUME NEW j \in DOMAIN F
        PROVE  /\ Exists("skus", j)
               /\ j \notin raced' =>
                    /\ "image" \in DOMAIN F[j] => row["skus"][j].image = NoImage
                    /\ "aisle" \in DOMAIN F[j] => row["skus"][j].aisle = NoId
    <3>1. CASE j # i
      BY <1>8, <1>9, <1>19, <3>1
    <3>2. CASE j = i /\ column = "image"
      <4>1. j \notin raced' => row["skus"][j].image = NoImage
        BY <1>19, <3>2
      <4>2. j \notin raced' /\ "aisle" \in DOMAIN F[j] => row["skus"][j].aisle = NoId
        BY <1>8, <1>10, <1>19, <3>2
      <4> QED  BY <1>6, <3>2, <4>1, <4>2
    <3>3. CASE j = i /\ column = "aisle"
      <4>1. j \notin raced' => row["skus"][j].aisle = NoId
        BY <1>19, <3>3
      <4>2. j \notin raced' /\ "image" \in DOMAIN F[j] => row["skus"][j].image = NoImage
        BY <1>8, <1>10, <1>19, <3>3
      <4> QED  BY <1>6, <3>3, <4>1, <4>2
    <3> QED  BY <3>1, <3>2, <3>3 DEF Column
  <2>2. \A u \in Session : u # s => session'[u] = session[u]
    BY <1>1 DEF Alone
  <2>3. ASSUME NEW u \in Session, NEW j \in DOMAIN session'[u].fill
        PROVE  /\ Exists("skus", j)'
               /\ j \notin raced' =>
                    /\ "image" \in DOMAIN session'[u].fill[j] => row'["skus"][j].image = NoImage
                    /\ "aisle" \in DOMAIN session'[u].fill[j] => row'["skus"][j].aisle = NoId
    <3>1. CASE u = s
      BY <1>16, <2>1, <2>3, <3>1 DEF Exists
    <3>2. CASE u # s
      BY <1>19, <2>2, <2>3, <3>2 DEF IInv, FillInv, Exists
    <3> QED  BY <3>1, <3>2
  <2>4. ASSUME NEW u \in Session, u # s
        PROVE  DOMAIN F \cap DOMAIN session[u].fill = {}
    <3>1. i \notin DOMAIN session[u].fill
      BY <1>3, <2>4 DEF WaitsFor, Column
    <3>2. DOMAIN old \cap DOMAIN session[u].fill = {}
      BY <1>4, <2>4 DEF IInv, FillInv
    <3> QED  BY <1>9, <3>1, <3>2
  <2>5. ASSUME NEW u \in Session, NEW v \in Session, u # v
        PROVE  DOMAIN session'[u].fill \cap DOMAIN session'[v].fill = {}
    <3>1. CASE u = s
      BY <1>16, <2>2, <2>4, <2>5, <3>1
    <3>2. CASE v = s
      BY <1>16, <2>2, <2>4, <2>5, <3>2
    <3>3. CASE u # s /\ v # s
      BY <2>2, <2>5, <3>3 DEF IInv, FillInv
    <3> QED  BY <3>1, <3>2, <3>3
  <2> QED  BY <2>3, <2>5 DEF FillInv
<1>21. PinIsEvidenced' /\ VisitsInv' /\ ShopsInv'
  <2>1. s \notin DOMAIN visits
    BY DEF IInv, VisitsInv, Column
  <2> QED  BY <1>1, <1>14, <1>16, <2>1, PinsKept DEF IInv, PinOf
<1>22. TypeInv'
  BY DEF IInv, TypeInv
<1> QED  BY <1>1, <1>15, <1>17, <1>18, <1>20, <1>21, <1>22 DEF IInv

\* Filling in an image keeps the invariant.
LEMMA FillImageKeeps ==
  ASSUME IInv, NEW s \in Session, FillImage(s), UNCHANGED outlets
  PROVE  IInv'
<1> DEFINE f == Head(session[s].todo)
<1>1. /\ UNCHANGED <<row, next, request, rewound, visits, jobs, confirmation>>
      /\ session[s].stage = "image"
  BY DEF FillImage, tables, outlets, At
<1>2. Filling(s) /\ SeedInv(s) /\ session[s].todo \in Work
  BY <1>1 DEF IInv, SessionsInv, SessionInv, StageInv, Filling
<1>3. f \in FeedRow
  BY <1>2, HeadTailProperties DEF Filling, SeedInv
<1>4. session[s] = Parts(session[s])
  BY DEF IInv, ShapeInv
<1>5. CASE session[s].copy.image
  <2>1. f.image \in Image /\ session[s].copy.read.image = NoImage
    BY <1>1, <1>2, <1>3, <1>5 DEF Filling, FeedRow
  <2>2. PICK e : e = [session[s] EXCEPT !.stage = "aisle", !.fill = Filled(s, "image", f.image)]
    OBVIOUS
  <2>3. session' = [session EXCEPT ![s] = e]
    BY <1>5, <2>2 DEF FillImage
  <2>4. /\ e = Parts(e) /\ e.stage = "aisle" /\ e.fill = Filled(s, "image", f.image)
        /\ e.todo = session[s].todo /\ e.copy = session[s].copy
        /\ e.new = session[s].new /\ e.why = session[s].why
    BY <1>4, <2>2 DEF Parts
  <2>5. (\A u \in Session : ~WaitsFor(s, u)) /\ Overtaken(s, Edited(s, "image"))
    BY <1>5 DEF FillImage, Overtaken
  <2>6. session'[s] = e /\ (StageInv(s)' => IInv')
    BY <1>1, <1>2, <2>1, <2>3, <2>4, <2>5, Fills DEF Column
  <2>7. SeedInv(s)'
    BY <1>1, <1>2, <2>4, <2>6 DEF SeedInv, Exists
  <2>8. Filling(s)'
    BY <1>2, <2>4, <2>6, <2>7 DEF Filling
  <2>9. StageInv(s)'
    BY <1>2, <2>4, <2>6, <2>8 DEF StageInv
  <2> QED  BY <2>6, <2>9
<1>6. CASE ~session[s].copy.image
  <2>1. PICK e : e = [session[s] EXCEPT !.stage = "aisle", !.fill = session[s].fill]
    OBVIOUS
  <2>2. session' = [session EXCEPT ![s] = e]
    BY <1>6, <2>1 DEF FillImage
  <2>3. /\ e = Parts(e) /\ e.stage = "aisle" /\ e.fill = session[s].fill
        /\ e.todo = session[s].todo /\ e.copy = session[s].copy
        /\ e.new = session[s].new /\ e.why = session[s].why
    BY <1>4, <2>1 DEF Parts
  <2>4. raced' = raced
    BY <1>6 DEF FillImage, Overtaken
  <2>5. session'[s] = e /\ (StageInv(s)' => IInv')
    BY <1>1, <2>2, <2>3, <2>4, GoesOn DEF Stage
  <2>6. SeedInv(s)'
    BY <1>1, <1>2, <2>3, <2>5 DEF SeedInv, Exists
  <2>7. Filling(s)'
    BY <1>2, <2>3, <2>5, <2>6 DEF Filling
  <2>8. StageInv(s)'
    BY <1>2, <2>3, <2>5, <2>7 DEF StageInv
  <2> QED  BY <2>5, <2>8
<1> QED  BY <1>5, <1>6

\* The categories of a name are ids.
LEMMA AislesAreIds ==
  ASSUME IInv, NEW s \in Session, NEW n
  PROVE  Aisles(s, n) \subseteq Id
<1>1. session[s].new \subseteq NewRow
  BY DEF IInv, SessionsInv, SessionInv
<1>2. \A r \in session[s].new : r.id \in Id
  BY <1>1 DEF NewRow
<1> QED  BY <1>2 DEF Aisles, Named

\* Filling in a category keeps the invariant.
LEMMA FillAisleKeeps ==
  ASSUME IInv, NEW s \in Session, FillAisle(s), UNCHANGED outlets
  PROVE  IInv'
<1> DEFINE f == Head(session[s].todo)
<1>1. /\ UNCHANGED <<row, next, request, rewound, visits, jobs, confirmation>>
      /\ session[s].stage = "aisle"
  BY DEF FillAisle, tables, outlets, At
<1>2. Filling(s) /\ SeedInv(s) /\ session[s].todo \in Seq(FeedRow) /\ session[s].todo # <<>>
  BY <1>1 DEF IInv, SessionsInv, SessionInv, StageInv, Filling, SeedInv
<1>3. Tail(session[s].todo) \in Seq(FeedRow) /\ Tail(session[s].todo) \in Work
  <2>1. Tail(session[s].todo) \in Seq(FeedRow)
    BY <1>2, HeadTailProperties
  <2> QED  BY <2>1, SeqMonotonic DEF Work
<1>4. session[s] = Parts(session[s])
  BY DEF IInv, ShapeInv
<1>5. CASE session[s].copy.aisle
  <2>1. PICK a \in Aisles(s, f.aisle) : session' = [session EXCEPT
         ![s].stage = "reading", ![s].todo = Tail(@), ![s].copy = <<>>,
         ![s].fill = Filled(s, "aisle", a)]
    BY <1>5 DEF FillAisle
  <2>2. a \in Id /\ session[s].copy.read.aisle = NoId
    BY <1>2, <1>5, AislesAreIds DEF SeedInv
  <2>3. PICK e : e = [session[s] EXCEPT !.stage = "reading", !.todo = Tail(@), !.copy = <<>>,
                                        !.fill = Filled(s, "aisle", a)]
    OBVIOUS
  <2>4. session' = [session EXCEPT ![s] = e]
    BY <2>1, <2>3
  <2>5. /\ e = Parts(e) /\ e.stage = "reading" /\ e.fill = Filled(s, "aisle", a)
        /\ e.todo = Tail(session[s].todo)
        /\ e.new = session[s].new /\ e.why = session[s].why
    BY <1>4, <2>3 DEF Parts
  <2>6. (\A u \in Session : ~WaitsFor(s, u)) /\ Overtaken(s, Edited(s, "aisle"))
    BY <1>5 DEF FillAisle, Overtaken
  <2>7. session'[s] = e /\ (StageInv(s)' => IInv')
    BY <1>1, <1>2, <2>2, <2>4, <2>5, <2>6, Fills DEF Column
  <2>8. StageInv(s)'
    BY <1>3, <2>5, <2>7 DEF StageInv
  <2> QED  BY <2>7, <2>8
<1>6. CASE ~session[s].copy.aisle
  <2>1. PICK e : e = [session[s] EXCEPT !.stage = "reading", !.todo = Tail(@), !.copy = <<>>,
                                        !.fill = session[s].fill]
    OBVIOUS
  <2>2. session' = [session EXCEPT ![s] = e]
    BY <1>6, <2>1 DEF FillAisle
  <2>3. /\ e = Parts(e) /\ e.stage = "reading" /\ e.fill = session[s].fill
        /\ e.todo = Tail(session[s].todo)
        /\ e.new = session[s].new /\ e.why = session[s].why
    BY <1>4, <2>1 DEF Parts
  <2>4. raced' = raced
    BY <1>6 DEF FillAisle, Overtaken
  <2>5. session'[s] = e /\ (StageInv(s)' => IInv')
    BY <1>1, <2>2, <2>3, <2>4, GoesOn DEF Stage
  <2>6. StageInv(s)'
    BY <1>3, <2>3, <2>5 DEF StageInv
  <2> QED  BY <2>5, <2>6
<1> QED  BY <1>5, <1>6

-----------------------------------------------------------------------------
(* What drivers record, and their jobs.                                    *)

\* A driver's step that is answered, and adds no row, keeps the invariant.
LEMMA Settles ==
  ASSUME IInv, NEW s \in Session, ShapeInv', Alone(s), SessionInv(s)', TypeInv',
         UNCHANGED <<next, request, rewound, raced>>, RowsStay, NoRowAppears,
         row'["skus"] = row["skus"], DOMAIN jobs \subseteq DOMAIN jobs',
         session'[s].stage = "done", session'[s].why \in {session[s].why, ""},
         session'[s].new \subseteq session[s].new, session'[s].fill \in {session[s].fill, <<>>},
         VisitsInv', PinIsEvidenced'
  PROVE  IInv'
<1>1. SessionsInv'
  BY OthersKept DEF IInv, SessionsInv
<1>2. KeysInv' /\ IdsInv'
  BY KeysKept, IdsKept DEF IInv
<1>3. IdsAreFresh'
  <2>1. session[s].why = "duplicate id" => rewound # {}
    BY DEF IInv, IdsAreFresh
  <2> QED  BY <2>1, FreshKept DEF IInv
<1>4. FillInv'
  BY FillKept DEF IInv
<1>5. ShopsInv'
  BY DEF IInv, ShopsInv, RowsStay, Table
<1> QED  BY <1>1, <1>2, <1>3, <1>4, <1>5 DEF IInv

\* A pin that a reading moves is moved with reason.
LEMMA MovesWithReason ==
  ASSUME NEW pin \in Int \cup {NoSpot}, NEW spot \in Int, NEW confirmed,
         Moves(pin, spot, confirmed), pin # NoSpot
  PROVE  Distance(pin, spot) >= Threshold /\ (Distance(pin, spot) <= OuterLimit \/ confirmed)
<1>1. Distance(pin, spot) \in Nat
  BY DEF Distance
<1>2. Threshold \in Nat /\ OuterLimit \in Nat
  BY OutletsAssumption
<1> QED  BY <1>1, <1>2 DEF Moves, Beyond

\* record_delivery_location and its commit keep the invariant: a pin that moves has its reason.
LEMMA RecordVisitKeeps ==
  ASSUME IInv, NEW s \in Session, RecordVisit(s)
  PROVE  IInv'
<1>1. PICK r : r = request[s]
  OBVIOUS
<1>2. PICK pin : pin = session[s].copy.pin
  OBVIOUS
<1>3. PICK confirmed : confirmed = (r.do = "mark" /\ Beyond(pin, r.spot))
  OBVIOUS
<1>4. PICK moved : moved = (MayMove(r) /\ Moves(pin, r.spot, confirmed))
  OBVIOUS
<1>5. PICK v : v = Visit(r, pin, moved, confirmed)
  OBVIOUS
<1>6. /\ UNCHANGED <<next, request, rewound, raced, jobs, confirmation>>
      /\ session[s].stage = "recording"
      /\ session' = [session EXCEPT ![s] = [Fresh EXCEPT !.stage = "done"]]
  BY DEF RecordVisit, Kept
<1>7. visits' = Overlay([u \in {s} |-> v], visits)
  BY <1>1, <1>2, <1>3, <1>4, <1>5 DEF RecordVisit
<1>8. row' = IF moved THEN [row EXCEPT !["retailers"][r.shop].spot = r.spot] ELSE row
  BY <1>1, <1>2, <1>3, <1>4 DEF RecordVisit
<1>9. Recording(s) /\ s \notin DOMAIN visits
  BY <1>6 DEF IInv, SessionsInv, SessionInv, StageInv, VisitsInv
<1>10. /\ r.do \in {"mark", "close"} /\ r.spot \in Int /\ ~r.fuzzy /\ Exists("retailers", r.shop)
       /\ pin \in Int \cup {NoSpot}
  BY <1>1, <1>2, <1>9 DEF Recording
<1>11. "retailers" \in Table /\ r.shop \in Id /\ row["retailers"][r.shop] \in AnyRow
  BY <1>10, RowsThere DEF IInv, Table
<1>12. PICK new : new = [row["retailers"][r.shop] EXCEPT !.spot = r.spot]
  OBVIOUS
<1>13. new \in AnyRow /\ new.spot = r.spot
  BY <1>10, <1>11, <1>12 DEF AnyRow
<1>14. /\ row' \in [Table -> [Id -> AnyRow \cup {Absent}]]
       /\ \A t \in Table : \A i \in Id :
            row'[t][i] = IF moved /\ t = "retailers" /\ i = r.shop THEN new ELSE row[t][i]
       /\ row'["skus"] = row["skus"]
  <2>1. CASE moved
    <3>1. row' = [row EXCEPT !["retailers"][r.shop] = new]
      BY <1>8, <1>12, <2>1
    <3> QED  BY <1>11, <1>13, <2>1, <3>1 DEF IInv, TypeInv
  <2>2. CASE ~moved
    BY <1>8, <2>2 DEF IInv, TypeInv
  <2> QED  BY <2>1, <2>2
<1>15. RowsStay /\ NoRowAppears
  BY <1>10, <1>13, <1>14, AbsentIsNoRow DEF RowsStay, NoRowAppears, Exists
<1>16. TypeInv'
  BY <1>6, <1>14 DEF IInv, TypeInv
<1>17. /\ ShapeInv' /\ Alone(s) /\ SessionInv(s)'
       /\ session'[s].stage = "done" /\ session'[s].new = {} /\ session'[s].fill = <<>>
       /\ session'[s].why = ""
  BY <1>6, Ended
<1>18. PICK mine : mine = [u \in {s} |-> v]
  OBVIOUS
<1>19. DOMAIN mine = {s} /\ mine[s] = v /\ visits' = Overlay(mine, visits)
  BY <1>7, <1>18
<1>20. /\ DOMAIN visits' = {s} \cup DOMAIN visits
       /\ visits'[s] = v
       /\ \A u \in DOMAIN visits : visits'[u] = visits[u]
  BY <1>9, <1>19 DEF Overlay
<1>21. VisitsInv'
  BY <1>17, <1>20 DEF IInv, VisitsInv, Alone
<1>22. PinIsEvidenced'
  <2>1. ASSUME NEW i \in Id, NEW p, p = PinOf(i)', p # PinOf(i)
        PROVE  SetAtDoor(i, p)'
    <3>1. moved /\ i = r.shop /\ p = r.spot
      BY <1>11, <1>13, <1>14, <2>1 DEF PinOf
    <3>2. v.shop = i /\ v.spot = p /\ v.before = pin /\ v.confirmed = confirmed /\ v.moved = moved
      BY <1>5, <3>1 DEF Visit
    <3>3. MayMove(r) /\ Moves(pin, r.spot, confirmed)
      BY <1>4, <3>1
    <3>4. r.do = "close" => ~r.elsewhere
      BY <3>3 DEF MayMove
    <3>5. v.before # NoSpot =>
            Distance(v.before, p) >= Threshold /\ (Distance(v.before, p) <= OuterLimit \/ v.confirmed)
      <4>1. ASSUME pin # NoSpot
            PROVE  Distance(pin, r.spot) >= Threshold /\ (Distance(pin, r.spot) <= OuterLimit \/ confirmed)
        BY <1>10, <3>3, <4>1, MovesWithReason
      <4>2. confirmed => v.confirmed
        BY <3>2
      <4> QED  BY <3>1, <3>2, <4>1, <4>2
    <3> QED  BY <1>1, <1>6, <1>10, <1>20, <3>1, <3>2, <3>4, <3>5 DEF SetAtDoor
  <2>2. ConfirmationsStay
    BY <1>6 DEF ConfirmationsStay
  <2> QED  BY <1>6, <1>17, <1>20, <2>1, <2>2, EvidenceKept DEF IInv
<1> QED  BY <1>6, <1>14, <1>15, <1>16, <1>17, <1>21, <1>22, Settles

\* The commit of complete_shop keeps the invariant: a pin that it moves is the one of
\* the form that confirms the shop, and no form confirms a shop twice.
LEMMA SaveOwnShopKeeps ==
  ASSUME IInv, NEW s \in Session, SaveOwnShop(s)
  PROVE  IInv'
<1>1. PICK r : r = request[s]
  OBVIOUS
<1>2. PICK shop : shop = ShopOf[r.by]
  OBVIOUS
<1>3. PICK written : written = {c \in FormSets(r.by) \cap DOMAIN r.set : r.set[c] # session[s].copy[c]}
  OBVIOUS
<1>4. PICK set : set = [c \in written |-> r.set[c]]
  OBVIOUS
<1>5. PICK new : new = Overlay(set, row["retailers"][shop])
  OBVIOUS
<1>6. /\ UNCHANGED <<next, request, rewound, raced, visits, jobs>>
      /\ r.do = "own shop" /\ session[s].stage = "saving"
      /\ session' = [session EXCEPT ![s] = [Fresh EXCEPT !.stage = "done"]]
      /\ confirmation' = Overlay(confirmation, [a \in {r.by} |-> s])
  BY <1>1 DEF SaveOwnShop, Kept, At
<1>7. row' = [row EXCEPT !["retailers"][shop] = new]
  BY <1>1, <1>2, <1>3, <1>4, <1>5 DEF SaveOwnShop
<1>8. r.by \in Shopkeeper /\ Sets(r.set)
  BY <1>1, <1>6, RequestsArePossible DEF IInv, PossibleRequest
<1>9. /\ DOMAIN set = written /\ written \subseteq DOMAIN r.set
      /\ \A c \in written : set[c] = r.set[c]
  BY <1>3, <1>4
<1>10. Sets(set)
  BY <1>8, <1>9 DEF Sets
<1>11. /\ "retailers" \in Table /\ shop \in Id /\ Exists("retailers", shop)
       /\ row["retailers"][shop] \in AnyRow
  <2>1. shop \in Id /\ FirstRows["retailers"][shop] # Absent
    BY <1>2, <1>8, OutletsAssumption
  <2>2. Exists("retailers", shop) /\ "retailers" \in Table
    BY <2>1 DEF IInv, ShopsInv, Table
  <2> QED  BY <2>1, <2>2, RowsThere DEF IInv
<1>12. /\ new \in AnyRow
       /\ new.spot = IF "spot" \in written THEN set.spot ELSE row["retailers"][shop].spot
  BY <1>5, <1>9, <1>10, <1>11, OverlayRow
<1>13. /\ row' \in [Table -> [Id -> AnyRow \cup {Absent}]]
       /\ \A t \in Table : \A i \in Id :
            row'[t][i] = IF t = "retailers" /\ i = shop THEN new ELSE row[t][i]
       /\ row'["skus"] = row["skus"]
  BY <1>7, <1>11, <1>12 DEF IInv, TypeInv
<1>14. RowsStay /\ NoRowAppears
  BY <1>11, <1>12, <1>13, AbsentIsNoRow DEF RowsStay, NoRowAppears, Exists
<1>15. TypeInv'
  BY <1>6, <1>13 DEF IInv, TypeInv
<1>16. /\ ShapeInv' /\ Alone(s) /\ SessionInv(s)'
       /\ session'[s].stage = "done" /\ session'[s].new = {} /\ session'[s].fill = <<>>
       /\ session'[s].why = ""
  BY <1>6, Ended
<1>17. VisitsInv'
  BY <1>6, <1>16 DEF IInv, VisitsInv, Alone
<1>18. PICK mine : mine = [a \in {r.by} |-> s]
  OBVIOUS
<1>19. DOMAIN mine = {r.by} /\ mine[r.by] = s /\ confirmation' = Overlay(confirmation, mine)
  BY <1>6, <1>18
<1>20. /\ ConfirmationsStay
       /\ r.by \notin DOMAIN confirmation =>
            r.by \in DOMAIN confirmation' /\ confirmation'[r.by] = s
  BY <1>19 DEF Overlay, ConfirmationsStay
<1>21. PinIsEvidenced'
  <2>1. ASSUME NEW i \in Id, NEW p, p = PinOf(i)', p # PinOf(i)
        PROVE  SetByShopkeeper(i, p)'
    <3>1. i = shop /\ "spot" \in written /\ p = set.spot
      BY <1>11, <1>12, <1>13, <2>1 DEF PinOf
    <3>2. "spot" \in FormSets(r.by) /\ "spot" \in DOMAIN r.set /\ p = r.set.spot
      BY <1>3, <1>9, <3>1
    <3>3. r.by \notin DOMAIN confirmation
      BY <3>2 DEF FormSets
    <3> QED  BY <1>1, <1>2, <1>6, <1>20, <3>1, <3>2, <3>3 DEF SetByShopkeeper
  <2> QED  BY <1>6, <1>16, <1>20, <2>1, EvidenceKept DEF IInv
<1> QED  BY <1>6, <1>13, <1>14, <1>15, <1>16, <1>17, <1>21, Settles

\* A new job comes after those there are.
LEMMA JobAppended ==
  ASSUME NEW job \in Job, TypeInv, jobs' = Append(jobs, job)
  PROVE  jobs' \in Seq(Job) /\ DOMAIN jobs \subseteq DOMAIN jobs'
         /\ \A j \in DOMAIN jobs : jobs'[j] = jobs[j]
BY AppendProperties DEF TypeInv

\* create_assignment keeps the invariant.
LEMMA AssignKeeps ==
  ASSUME IInv, NEW s \in Session, Assign(s)
  PROVE  IInv'
<1> DEFINE r == request[s]
           found == {i \in r.shops : Exists("retailers", i)}
<1>1. /\ UNCHANGED <<row, next, request, rewound, raced, visits, confirmation>>
      /\ session[s].stage = "arrived"
  BY DEF Assign, Kept, At
<1>2. CASE ~(r.driver \in Driver /\ found # {})
  <2>1. UNCHANGED jobs /\ Go(s, "refused")
    BY <1>2 DEF Assign
  <2> QED  BY <1>1, <2>1, Goes
<1>3. CASE r.driver \in Driver /\ found # {}
  <2>1. PICK job : job = [driver |-> r.driver, shops |-> found, accepted |-> FALSE, earlier |-> {}]
    OBVIOUS
  <2>2. jobs' = Append(jobs, job) /\ Go(s, "done")
    BY <1>3, <2>1 DEF Assign
  <2>3. job \in Job
    <3>1. found \in SUBSET Id
      BY DEF Exists
    <3> HIDE DEF found
    <3> QED  BY <1>3, <2>1, <3>1 DEF Job
  <2>4. jobs' \in Seq(Job) /\ DOMAIN jobs \subseteq DOMAIN jobs'
    BY <2>2, <2>3, JobAppended DEF IInv
  <2>5. ShapeInv' /\ Alone(s)
    BY <2>2, StageSet DEF IInv
  <2>6. /\ session'[s].stage = "done" /\ session'[s].new = session[s].new
        /\ session'[s].fill = session[s].fill /\ session'[s].todo = session[s].todo
        /\ session'[s].why = session[s].why
    BY <2>2, StageSet DEF IInv
  <2>7. SessionInv(s)'
    <3>1. SessionInv(s)
      BY DEF IInv, SessionsInv
    <3>2. StageInv(s)'
      BY <1>1, <2>6, <3>1 DEF SessionInv, StageInv
    <3> QED  BY <2>6, <3>1, <3>2 DEF SessionInv, Stage
  <2>8. RowsStay /\ NoRowAppears
    BY <1>1 DEF RowsStay, NoRowAppears, Exists
  <2>9. PinIsEvidenced' /\ VisitsInv' /\ ShopsInv'
    <3>1. s \notin DOMAIN visits
      BY <1>1 DEF IInv, VisitsInv
    <3> QED  BY <1>1, <2>5, <2>6, <2>8, <3>1, PinsKept DEF IInv, PinOf
  <2>10. TypeInv'
    BY <1>1, <2>4 DEF IInv, TypeInv
  <2> QED  BY <1>1, <2>4, <2>5, <2>6, <2>7, <2>8, <2>9, <2>10, Settles
<1> QED  BY <1>2, <1>3

\* The write of accept_assignment keeps the invariant.
LEMMA AcceptKeeps ==
  ASSUME IInv, NEW s \in Session, Accept(s)
  PROVE  IInv'
<1>1. PICK k : k = request[s].job
  OBVIOUS
<1>2. PICK earlier : earlier =
        {u \in Session : request[u].do \in {"mark", "close"} /\ session[u].stage # "arrived"}
  OBVIOUS
<1>3. /\ UNCHANGED <<row, next, request, rewound, raced, visits, confirmation>>
      /\ session[s].stage = "accepting"
      /\ jobs' = [jobs EXCEPT ![k].accepted = TRUE, ![k].earlier = earlier]
      /\ session' = [session EXCEPT ![s] = [Fresh EXCEPT !.stage = "done"]]
  BY <1>1, <1>2 DEF Accept, Kept, At
<1>4. k \in DOMAIN jobs
  BY <1>1, <1>3 DEF IInv, SessionsInv, SessionInv, StageInv, Accepting
<1>5. jobs[k] \in Job
  BY <1>4, ElementOfSeq, LenProperties DEF IInv, TypeInv
<1>6. PICK job : job = [jobs[k] EXCEPT !.accepted = TRUE, !.earlier = earlier]
  OBVIOUS
<1>7. job \in Job /\ jobs' = [jobs EXCEPT ![k] = job]
  BY <1>2, <1>3, <1>5, <1>6 DEF Job
<1>8. jobs' \in Seq(Job) /\ DOMAIN jobs \subseteq DOMAIN jobs'
  BY <1>4, <1>7 DEF IInv, TypeInv
<1>9. /\ ShapeInv' /\ Alone(s) /\ SessionInv(s)'
      /\ session'[s].stage = "done" /\ session'[s].new = {} /\ session'[s].fill = <<>>
      /\ session'[s].why = ""
  BY <1>3, Ended
<1>10. RowsStay /\ NoRowAppears
  BY <1>3 DEF RowsStay, NoRowAppears, Exists
<1>11. PinIsEvidenced' /\ VisitsInv' /\ ShopsInv'
  <2>1. s \notin DOMAIN visits
    BY <1>3 DEF IInv, VisitsInv
  <2> QED  BY <1>3, <1>9, <1>10, <2>1, PinsKept DEF IInv, PinOf
<1>12. TypeInv'
  BY <1>3, <1>8 DEF IInv, TypeInv
<1> QED  BY <1>3, <1>8, <1>9, <1>10, <1>11, <1>12, Settles

-----------------------------------------------------------------------------
(* The invariant.                                                          *)

\* The first rows are rows.
LEMMA FirstRowsAreRows == FirstRows \in [Table -> [Id -> AnyRow \cup {Absent}]]
<1>1. Row \subseteq AnyRow
  BY DEF Row, AnyRow
<1> QED  BY <1>1, TablesAssumption

\* The invariant holds at first.
LEMMA InitKeeps == Init => IInv
<1> SUFFICES ASSUME Init PROVE IInv
  OBVIOUS
<1>1. /\ row = FirstRows /\ request \in [Session -> Request]
      /\ session = [s \in Session |-> Fresh]
      /\ next = [t \in Table |-> MaxIdOf(t) + 1]
      /\ rewound = {} /\ raced = {} /\ visits = <<>> /\ jobs = FirstJobs
  BY DEF Init, TablesInit, OutletsInit
<1>2. \A s \in Session : session[s] = Fresh
  BY <1>1
<1>3. /\ Fresh.stage = "arrived" /\ Fresh.todo = <<>> /\ Fresh.new = {} /\ Fresh.fill = <<>>
      /\ Fresh.why = ""
  BY DEF Fresh
<1>4. \A t \in Table : next[t] = MaxIdOf(t) + 1 /\ MaxIdOf(t) \in Nat
  BY <1>1, MaxIdOfTable
<1>5. TypeInv
  <2>1. next \in [Table -> Nat \ {0}]
    <3>1. \A t \in Table : MaxIdOf(t) + 1 \in Nat \ {0}
      BY <1>4
    <3> QED  BY <1>1, <3>1
  <2> QED  BY <1>1, <2>1, FirstRowsAreRows, OutletsAssumption DEF TypeInv
<1>6. ShapeInv
  BY <1>1, <1>2, FreshShape DEF ShapeInv
<1>7. \A s \in Session : /\ session[s].stage = "arrived" /\ session[s].todo = <<>>
                         /\ session[s].new = {} /\ session[s].why = ""
                         /\ DOMAIN session[s].fill = {}
  BY <1>2, <1>3, NothingIn
<1>8. SessionsInv
  <2>1. <<>> \in Work
    BY EmptySeq DEF Work
  <2>2. \A s \in Session : StageInv(s)
    BY <1>7, <2>1 DEF StageInv
  <2> QED  BY <1>7, <2>2 DEF SessionsInv, SessionInv, Stage
<1>9. KeysInv
  BY <1>7 DEF KeysInv
<1>10. IdsInv
  <2>1. \A t \in Table : \A i \in Id : Exists(t, i) => i < next[t]
    BY <1>4, MaxIdOfTable DEF Id
  <2>2. \A s \in Session : DrawnInv(s)
    BY <1>7 DEF DrawnInv
  <2> QED  BY <1>7, <2>1, <2>2 DEF IdsInv
<1>11. IdsAreFresh
  BY <1>7 DEF IdsAreFresh
<1>12. FillInv
  BY <1>7 DEF FillInv
<1>13. VisitsInv
  <2>1. DOMAIN visits = {}
    BY <1>1, NothingIn
  <2> QED  BY <2>1 DEF VisitsInv
<1>14. ShopsInv /\ PinIsEvidenced
  BY <1>1 DEF ShopsInv, PinIsEvidenced, Exists, PinOf
<1> QED  BY <1>5, <1>6, <1>8, <1>9, <1>10, <1>11, <1>12, <1>13, <1>14 DEF IInv

\* Every step keeps the invariant.
LEMMA StepKeeps == IInv /\ [Next]_allVars => IInv'
<1> SUFFICES ASSUME IInv, [Next]_allVars PROVE IInv'
  OBVIOUS
<1>1. CASE UNCHANGED allVars
  <2>1. UNCHANGED <<row, posted, next, request, session, rewound, raced, visits, jobs, confirmation>>
    BY <1>1 DEF allVars, vars, outlets
  <2>2. TypeInv' /\ ShapeInv' /\ VisitsInv'
    BY <2>1 DEF IInv, TypeInv, ShapeInv, VisitsInv, Parts
  <2>3. KeysInv' /\ IdsAreFresh' /\ FillInv' /\ ShopsInv'
    BY <2>1 DEF IInv, KeysInv, IdsAreFresh, FillInv, ShopsInv, Exists
  <2>4. IdsInv'
    BY <2>1 DEF IInv, IdsInv, DrawnInv, OwnId, Exists
  <2>5. PinIsEvidenced'
    BY <2>1 DEF IInv, PinIsEvidenced, SetByOffice, SetByShopkeeper, SetAtDoor, PinOf, Exists
  <2>6. ASSUME NEW s \in Session PROVE SessionInv(s)'
    <3>1. SessionInv(s)
      BY DEF IInv, SessionsInv
    <3>2. SeedInv(s)' <=> SeedInv(s)
      BY <2>1 DEF SeedInv, Exists
    <3>3. CategoryFirst(s)' <=> CategoryFirst(s)
      BY <2>1 DEF CategoryFirst
    <3>4. (Inserting(s)' <=> Inserting(s)) /\ (Filling(s)' <=> Filling(s))
      BY <2>1, <3>2, <3>3 DEF Inserting, Filling
    <3>5. /\ Reclaiming(s)' <=> Reclaiming(s)
          /\ Drawn(s)' <=> Drawn(s)
          /\ Recording(s)' <=> Recording(s)
          /\ Accepting(s)' <=> Accepting(s)
      BY <2>1 DEF Reclaiming, Drawn, Recording, Accepting, Exists
    <3>6. StageInv(s)' <=> StageInv(s)
      BY <2>1, <3>4, <3>5 DEF StageInv, Exists
    <3> QED  BY <2>1, <3>1, <3>6 DEF SessionInv
  <2> QED  BY <2>2, <2>3, <2>4, <2>5, <2>6 DEF IInv, SessionsInv
<1>2. CASE Next
  <2>1. PICK s \in Session :
          \/ (OfficeStep(s) \/ ImportStep(s) \/ SeedStep(s)) /\ UNCHANGED outlets
          \/ OutletStep(s)
    BY <1>2 DEF Next
  <2>2. CASE OfficeStep(s) /\ UNCHANGED outlets
    BY <2>2, DrawKeeps, InsertKeeps, DeadlockKeeps, CommitKeeps, CreateKeeps, EditKeeps,
       EditRetailerKeeps, SetRetailerBeatKeeps DEF OfficeStep
  <2>3. CASE ImportStep(s) /\ UNCHANGED outlets
    BY <2>3, ValidateKeeps, ReclaimKeeps, ReclaimedKeeps DEF ImportStep
  <2>4. CASE SeedStep(s) /\ UNCHANGED outlets
    BY <2>4, StartSeedKeeps, ReadSkuKeeps, FillImageKeeps, MakeAisleKeeps, AisleMadeKeeps,
       FillAisleKeeps, EndSeedKeeps DEF SeedStep
  <2>5. CASE OutletStep(s)
    BY <2>5, ReadShopKeeps, CloseOrderKeeps, RecordVisitKeeps, ReadOwnShopKeeps, SaveOwnShopKeeps,
       AssignKeeps, ReadJobKeeps, AcceptKeeps DEF OutletStep
  <2> QED  BY <2>1, <2>2, <2>3, <2>4, <2>5
<1> QED  BY <1>1, <1>2

\* The invariant the promises are proved from: ids and keys of sessions do not
\* collide, and what a session has read is what its next step relies on.
THEOREM CatalogueInvariant == Spec => []IInv
BY InitKeeps, StepKeeps, PTL DEF Spec

\* No insert of a form, an import or the script meets a duplicate id, unless
\* reclaim_sequences set the sequence back while another session held one.
THEOREM FreshIds == Spec => []IdsAreFresh
<1>1. IInv => IdsAreFresh
  BY DEF IInv
<1> QED  BY <1>1, CatalogueInvariant, PTL

\* A shop's pin is the first one, or the office's, or that of the form by which an
\* account confirmed the shop (complete_shop), or one that a driver has reported
\* from the shop, near the old pin or confirmed (should_update_retailer).
THEOREM PinsHaveEvidence == Spec => []PinIsEvidenced
<1>1. IInv => PinIsEvidenced
  BY DEF IInv
<1> QED  BY <1>1, CatalogueInvariant, PTL

-----------------------------------------------------------------------------
(* What a step may not do to the rows of others.                           *)

QuietStep(s) ==
  \/ Draw(s) \/ Insert(s) \/ Deadlock(s) \/ Create(s) \/ ImportStep(s) \/ StartSeed(s) \/ ReadSku(s)
  \/ FillImage(s) \/ MakeAisle(s) \/ AisleMade(s) \/ FillAisle(s)

\* Only these steps write rows.
LEMMA WhoWrites ==
  ASSUME NEW s \in Session,
         \/ (OfficeStep(s) \/ ImportStep(s) \/ SeedStep(s)) /\ UNCHANGED outlets
         \/ OutletStep(s)
  PROVE  \/ row' = row
         \/ Commit(s) \/ Edit(s) \/ EditRetailer(s) \/ SetRetailerBeat(s) \/ EndSeed(s) \/ RecordVisit(s)
         \/ SaveOwnShop(s)
<1>1. ASSUME QuietStep(s) PROVE row' = row
  <2>1. Draw(s) \/ Insert(s) \/ Deadlock(s) \/ Create(s) => row' = row
    BY DEF Draw, Insert, Deadlock, Create, tables
  <2>2. ImportStep(s) => row' = row
    BY DEF ImportStep, Validate, Reclaim, Reclaimed, tables
  <2>3. StartSeed(s) \/ ReadSku(s) \/ FillImage(s) => row' = row
    BY DEF StartSeed, ReadSku, FillImage, tables
  <2>4. MakeAisle(s) \/ AisleMade(s) \/ FillAisle(s) => row' = row
    BY DEF MakeAisle, AisleMade, FillAisle, tables
  <2> QED  BY <1>1, <2>1, <2>2, <2>3, <2>4 DEF QuietStep
<1>2. ReadShop(s) \/ CloseOrder(s) \/ ReadOwnShop(s) \/ Assign(s) \/ ReadJob(s) \/ Accept(s) => row' = row
  BY DEF ReadShop, CloseOrder, ReadOwnShop, Assign, ReadJob, Accept
<1> QED  BY <1>1, <1>2 DEF QuietStep, OfficeStep, SeedStep, OutletStep

OwnEdit(i) ==
  \E s \in Session :
    /\ At(s, "edit", "arrived") /\ session'[s].stage = "done"
    /\ request[s].table = "skus" /\ request[s].id = i

ShowsAsBefore(i) ==
  /\ row["skus"][i].image # NoImage => row'["skus"][i].image = row["skus"][i].image
  /\ row["skus"][i].aisle # NoId => row'["skus"][i].aisle = row["skus"][i].aisle

\* The steps that write shops leave SKUs alone.
LEMMA SkusElsewhere ==
  ASSUME IInv, NEW s \in Session,
         EditRetailer(s) \/ SetRetailerBeat(s) \/ RecordVisit(s) \/ SaveOwnShop(s)
  PROVE  row'["skus"] = row["skus"]
<1>1. "skus" \in Table /\ "retailers" \in Table
  BY DEF Table
<1> USE <1>1 DEF IInv, TypeInv
<1>2. EditRetailer(s) => row'["skus"] = row["skus"]
  BY DEF EditRetailer
<1>3. SetRetailerBeat(s) => row'["skus"] = row["skus"]
  BY DEF SetRetailerBeat
<1>4. RecordVisit(s) => row'["skus"] = row["skus"]
  BY DEF RecordVisit
<1>5. SaveOwnShop(s) => row'["skus"] = row["skus"]
  BY DEF SaveOwnShop
<1> QED  BY <1>2, <1>3, <1>4, <1>5

\* An edit after which a SKU shows less or other than before is an edit of that SKU.
LEMMA EditShows ==
  ASSUME IInv, NEW s \in Session, Edit(s), NEW i \in Id, ~ShowsAsBefore(i)
  PROVE  OwnEdit(i)
<1> DEFINE r == request[s]
<1>1. At(s, "edit", "arrived")
  BY DEF Edit
<1>2. row' # row
  BY DEF ShowsAsBefore
<1>3. row' = [row EXCEPT ![r.table][r.id] = Overlay(r.set, @)] /\ Go(s, "done")
  BY <1>2 DEF Edit
<1>4. session'[s].stage = "done"
  BY <1>3, StageSet DEF IInv
<1>5. r.table = "skus" /\ r.id = i
  BY <1>3 DEF ShowsAsBefore, IInv, TypeInv, Table
<1> QED  BY <1>1, <1>4, <1>5 DEF OwnEdit

\* A run of the script changes nothing that a SKU has, unless it was edited in between.
LEMMA EndSeedShows ==
  ASSUME IInv, NEW s \in Session, EndSeed(s), NEW i \in Id, Exists("skus", i), i \notin raced
  PROVE  ShowsAsBefore(i)
<1> DEFINE filled == session[s].fill
           new == WithNew(s)
<1>1. CASE ~request[s].apply
  BY <1>1 DEF EndSeed, ShowsAsBefore
<1>2. CASE request[s].apply
  <2>1. row' = [new EXCEPT !["skus"] = [j \in Id |->
            IF j \in DOMAIN filled THEN Overlay(filled[j], @[j]) ELSE @[j]]]
    BY <1>2 DEF EndSeed
  <2>2. "skus" \in Table
    BY DEF Table
  <2>3. new \in [Table -> [Id -> AnyRow \cup {Absent}]] /\ new["skus"][i] = row["skus"][i]
    BY <2>2, WithNewRows
  <2>4. row["skus"][i] \in AnyRow
    BY <2>2, RowsThere DEF IInv
  <2> HIDE DEF new
  <2>5. row'["skus"][i] = IF i \in DOMAIN filled THEN Overlay(filled[i], row["skus"][i]) ELSE row["skus"][i]
    BY <2>1, <2>2, <2>3
  <2>6. CASE i \in DOMAIN filled
    <3>1. /\ DOMAIN filled[i] \subseteq Column
          /\ "image" \in DOMAIN filled[i] => filled[i].image \in Image /\ row["skus"][i].image = NoImage
          /\ "aisle" \in DOMAIN filled[i] => filled[i].aisle \in Id /\ row["skus"][i].aisle = NoId
      BY <2>6 DEF IInv, SessionsInv, SessionInv, FillInv
    <3>2. Sets(filled[i])
      BY <3>1 DEF Sets, Column
    <3> HIDE DEF filled
    <3>3. /\ row'["skus"][i].image = IF "image" \in DOMAIN filled[i] THEN filled[i].image ELSE row["skus"][i].image
          /\ row'["skus"][i].aisle = IF "aisle" \in DOMAIN filled[i] THEN filled[i].aisle ELSE row["skus"][i].aisle
      BY <2>4, <2>5, <2>6, <3>2, OverlayRow
    <3> QED  BY <3>1, <3>3 DEF ShowsAsBefore
  <2>7. CASE i \notin DOMAIN filled
    BY <2>5, <2>7 DEF ShowsAsBefore
  <2> QED  BY <2>6, <2>7
<1> QED  BY <1>1, <1>2

\* A step after which a SKU shows other than before is an edit of that SKU.
LEMMA StepKeepsHandSet ==
  ASSUME IInv, Next, NEW i \in Id, Exists("skus", i), i \notin raced, ~ShowsAsBefore(i)
  PROVE  OwnEdit(i)
<1>1. PICK s \in Session :
        \/ (OfficeStep(s) \/ ImportStep(s) \/ SeedStep(s)) /\ UNCHANGED outlets
        \/ OutletStep(s)
  BY DEF Next
<1>2. row' # row
  BY DEF ShowsAsBefore
<1>3. ~Commit(s)
  <2> SUFFICES ASSUME Commit(s) PROVE FALSE
    OBVIOUS
  <2>1. row' = WithNew(s)
    BY DEF Commit
  <2>2. row'["skus"][i] = row["skus"][i]
    BY <2>1, WithNewRows DEF Table
  <2> QED  BY <2>2 DEF ShowsAsBefore
<1>4. ~EditRetailer(s) /\ ~SetRetailerBeat(s) /\ ~RecordVisit(s) /\ ~SaveOwnShop(s)
  <2>1. row'["skus"] # row["skus"]
    BY DEF ShowsAsBefore
  <2> QED  BY <2>1, SkusElsewhere
<1>5. ~EndSeed(s)
  BY EndSeedShows
<1>6. Edit(s)
  BY <1>1, <1>2, <1>3, <1>4, <1>5, WhoWrites
<1> QED  BY <1>6, EditShows

\* The image and the category of a SKU change only by an edit of that SKU; the
\* script overwrites neither, unless they were edited between its read and flush.
THEOREM HandSetStays == Spec => HandSetIsKept
<1>1. IInv /\ [Next]_allVars =>
        [\A i \in Id :
           LET old == row["skus"][i]  new == row'["skus"][i] IN
           /\ Exists("skus", i) /\ i \notin raced
           /\ \/ old.image # NoImage /\ new.image # old.image
              \/ old.aisle # NoId /\ new.aisle # old.aisle
           => \E s \in Session :
                /\ At(s, "edit", "arrived") /\ session'[s].stage = "done"
                /\ request[s].table = "skus" /\ request[s].id = i]_allVars
  BY StepKeepsHandSet DEF ShowsAsBefore, OwnEdit
<1> QED  BY <1>1, CatalogueInvariant, PTL DEF Spec, HandSetIsKept

-----------------------------------------------------------------------------
(* The progress of a job.                                                  *)

LateAcceptance(j) ==
  \E s \in Session :
    /\ At(s, "accept", "accepting") /\ session'[s].stage = "done"
    /\ request[s].job = j /\ ~session[s].copy.accepted

\* What was delivered stays so as long as the job does and visits are only added.
LEMMA DeliveredStays ==
  ASSUME NEW j \in DOMAIN jobs, jobs'[j] = jobs[j],
         \A u \in DOMAIN visits : u \in DOMAIN visits' /\ visits'[u] = visits[u]
  PROVE  Delivered(j) \subseteq Delivered(j)'
BY DEF Delivered, LoginsOf

\* Recording a visit forgets none.
LEMMA VisitsAdded ==
  ASSUME IInv, NEW s \in Session, RecordVisit(s)
  PROVE  \A u \in DOMAIN visits : u \in DOMAIN visits' /\ visits'[u] = visits[u]
<1>1. s \notin DOMAIN visits
  BY DEF IInv, VisitsInv, RecordVisit
<1>2. PICK v : visits' = Overlay([u \in {s} |-> v], visits)
  BY DEF RecordVisit
<1> QED  BY <1>1, <1>2 DEF Overlay

\* A step that takes a shop off the delivered ones of a job is a late acceptance of it.
LEMMA StepKeepsProgress ==
  ASSUME IInv, [Next]_allVars, NEW j \in DOMAIN jobs, ~(Delivered(j) \subseteq Delivered(j)')
  PROVE  LateAcceptance(j)
<1>1. ~(visits' = visits /\ jobs' = jobs)
  BY DeliveredStays
<1>2. PICK s \in Session :
        \/ (OfficeStep(s) \/ ImportStep(s) \/ SeedStep(s)) /\ UNCHANGED outlets
        \/ OutletStep(s)
  BY <1>1 DEF Next, allVars, outlets
<1>3. OutletStep(s)
  BY <1>1, <1>2 DEF outlets
<1>4. ~ReadShop(s) /\ ~CloseOrder(s) /\ ~ReadJob(s) /\ ~ReadOwnShop(s) /\ ~SaveOwnShop(s)
  BY <1>1 DEF ReadShop, CloseOrder, ReadJob, ReadOwnShop, SaveOwnShop, outlets
<1>5. ~RecordVisit(s)
  <2> SUFFICES ASSUME RecordVisit(s) PROVE FALSE
    OBVIOUS
  <2>1. jobs' = jobs
    BY DEF RecordVisit
  <2> QED  BY <2>1, VisitsAdded, DeliveredStays
<1>6. ~Assign(s)
  <2> SUFFICES ASSUME Assign(s) PROVE FALSE
    OBVIOUS
  <2>1. visits' = visits /\ jobs' # jobs
    BY <1>1 DEF Assign
  <2>2. PICK job : jobs' = Append(jobs, job)
    BY <2>1 DEF Assign
  <2>3. jobs'[j] = jobs[j]
    BY <2>2 DEF IInv, TypeInv
  <2> QED  BY <2>1, <2>3, DeliveredStays
<1>7. Accept(s)
  BY <1>3, <1>4, <1>5, <1>6 DEF OutletStep
<1>8. /\ At(s, "accept", "accepting") /\ visits' = visits
      /\ session' = [session EXCEPT ![s] = [Fresh EXCEPT !.stage = "done"]]
      /\ request' = request
  BY <1>7 DEF Accept, Kept
<1>9. request[s].job = j
  <2> SUFFICES ASSUME request[s].job # j PROVE FALSE
    OBVIOUS
  <2>1. jobs'[j] = jobs[j]
    BY <1>7 DEF Accept
  <2> QED  BY <1>8, <2>1, DeliveredStays
<1>10. ~session[s].copy.accepted
  BY <1>8 DEF IInv, SessionsInv, SessionInv, StageInv, Accepting, At
<1>11. session'[s].stage = "done"
  BY <1>8, Ended
<1> QED  BY <1>8, <1>9, <1>10, <1>11 DEF LateAcceptance

\* A shop of an accepted job that shows as delivered stays so, except by an
\* acceptance that had read the job while it was pending (accept_assignment).
THEOREM ProgressStays == Spec => ProgressIsKept
<1>1. IInv /\ [Next]_allVars =>
        [\A u \in User : \A j \in Mine(u) :
           jobs[j].accepted /\ ~(Delivered(j) \subseteq Delivered(j)') =>
             \E s \in Session :
               /\ At(s, "accept", "accepting") /\ session'[s].stage = "done"
               /\ request[s].job = j /\ ~session[s].copy.accepted]_allVars
  BY StepKeepsProgress DEF LateAcceptance, Mine
<1> QED  BY <1>1, CatalogueInvariant, PTL DEF Spec, ProgressIsKept

-----------------------------------------------------------------------------
(* How far an import is.                                                   *)

\* What is to be inserted for a row of the workbook.
Stands(i, book, k) ==
  /\ i.table = book[k].table /\ i.name = book[k].name /\ i.of = book[k].of
  /\ HasParentIn(book, k) => i.parent = NoId

\* A row that was drawn for it, which belongs to the row the workbook says.
Brings(r, book, k, rows) ==
  /\ r.table = book[k].table /\ r.row.name = book[k].name
  /\ HasParentIn(book, k) =>
       \E q \in rows :
         /\ q.table = ParentTable(book[k].table) /\ q.id = r.row.parent /\ q.row.name = book[k].of

Brought(book, k, rows) ==
  \E r \in rows : Brings(r, book, k, rows) /\ (r.table = "skus" => r.row.parent # NoId)

Progress(book, m, todo, rows) ==
  /\ Len(todo) = Len(book) - m
  /\ \A k \in 1 .. Len(todo) : Stands(todo[k], book, m + k)
  /\ \A k \in 1 .. m : Brought(book, k, rows)

\* The first m rows of the workbook are inserted, the others are still to be.
ImportInv(s) ==
  request[s].do = "import" /\ session[s].stage \in {"inserting", "drawn"} =>
    /\ \A k \in DOMAIN request[s].book : request[s].book[k].name # NoName
    /\ \E m \in 0 .. Len(request[s].book) :
         /\ Progress(request[s].book, m, session[s].todo, session[s].new)
         /\ session[s].stage = "drawn" =>
              Brings(session[s].drawn, request[s].book, m + 1, session[s].new)

ImportsInv == \A s \in Session : ImportInv(s)

\* The workbook of an import: parents come before what belongs to them, and it names no ids.
LEMMA BookOf ==
  ASSUME TypeInv, NEW s \in Session, request[s].do = "import", NEW book, book = request[s].book
  PROVE  /\ book \in Seq([table : Table, name : Name \cup {NoName}, of : Cell, parent : {NoId}])
         /\ Len(book) \in Nat /\ DOMAIN book = 1 .. Len(book)
         /\ \A k \in DOMAIN book : book[k].parent = NoId /\ book[k].table \in Table
         /\ \A k, j \in DOMAIN book :
              book[k].table \in {"skus", "beats"} /\ book[j].table = ParentTable(book[k].table) => j < k
<1>1. PossibleRequest(request[s])
  BY RequestsArePossible
<1>2. book \in Seq([table : Table, name : Name \cup {NoName}, of : Cell, parent : {NoId}])
  BY <1>1 DEF PossibleRequest
<1>3. Len(book) \in Nat /\ DOMAIN book = 1 .. Len(book)
  BY <1>2, LenProperties
<1>4. ASSUME NEW k \in DOMAIN book PROVE book[k].parent = NoId /\ book[k].table \in Table
  <2>1. book[k] \in [table : Table, name : Name \cup {NoName}, of : Cell, parent : {NoId}]
    BY <1>2, <1>3, ElementOfSeq
  <2> QED  BY <2>1
<1>5. \A k, j \in DOMAIN book :
        book[k].table \in {"skus", "beats"} /\ book[j].table = ParentTable(book[k].table) => j < k
  BY <1>1 DEF PossibleRequest
<1> QED  BY <1>2, <1>3, <1>4, <1>5

\* What was brought stays so with more rows.
LEMMA BringsMore ==
  ASSUME NEW book, NEW k, NEW rows, NEW more, rows \subseteq more
  PROVE  /\ \A r : Brings(r, book, k, rows) => Brings(r, book, k, more)
         /\ Brought(book, k, rows) => Brought(book, k, more)
BY DEF Brings, Brought

\* After the validation the whole workbook is still to be inserted.
LEMMA ValidateProgress ==
  ASSUME IInv, NEW s \in Session, Validate(s)
  PROVE  ImportInv(s)'
<1>1. PICK book : book = request[s].book
  OBVIOUS
<1>2. At(s, "import", "arrived") /\ request' = request
  BY DEF Validate
<1>3. CASE ~AllValid(book)
  <2>1. Go(s, "refused")
    BY <1>1, <1>3 DEF Validate
  <2>2. session'[s].stage = "refused"
    BY <2>1, StageSet DEF IInv
  <2> QED  BY <2>2 DEF ImportInv
<1>4. CASE AllValid(book)
  <2>1. PICK todo \in [DOMAIN book -> UNION {Resolved(book, book[k]) : k \in DOMAIN book}] :
          /\ \A k \in DOMAIN book : todo[k] \in Resolved(book, book[k])
          /\ session' = [session EXCEPT ![s].stage = "inserting", ![s].todo = todo]
    BY <1>1, <1>4 DEF Validate
  <2>2. session[s] = Parts(session[s]) /\ session'[s] = [session[s] EXCEPT !.stage = "inserting", !.todo = todo]
    BY <2>1 DEF IInv, ShapeInv
  <2>3. session'[s].stage = "inserting" /\ session'[s].todo = todo
    BY <2>2 DEF Parts
  <2>4. /\ Len(book) \in Nat /\ DOMAIN book = 1 .. Len(book)
        /\ \A k \in DOMAIN book : book[k].parent = NoId /\ book[k].table \in Table
    BY <1>1, <1>2, BookOf DEF At, IInv
  <2>5. DOMAIN todo = 1 .. Len(book) /\ Len(todo) = Len(book)
    BY <2>1, <2>4
  <2>6. \A k \in DOMAIN book : book[k].name # NoName
    BY <1>4 DEF AllValid, Valid
  <2>7. ASSUME NEW k \in DOMAIN book PROVE Stands(todo[k], book, k)
    <3>1. PICK b : b = book[k]
      OBVIOUS
    <3>2. todo[k] \in Resolved(book, b)
      BY <2>1, <3>1
    <3>3. b \in [table : Table, name : Name \cup {NoName}, of : Cell, parent : {NoId}]
      BY <1>1, <1>2, <2>4, <3>1, BookOf, ElementOfSeq DEF At, IInv
    <3>4. CASE b.table = "beats" /\ b.of \notin NamesIn(book, "warehouses") \cup {NoName}
      <4>1. PICK w : todo[k] = [b EXCEPT !.parent = w]
        BY <3>2, <3>4 DEF Resolved
      <4>2. todo[k].table = b.table /\ todo[k].name = b.name /\ todo[k].of = b.of
        BY <3>3, <4>1
      <4>3. ~HasParentIn(book, k)
        BY <3>1, <3>4 DEF HasParentIn, ParentTable
      <4> QED  BY <3>1, <4>2, <4>3 DEF Stands
    <3>5. CASE ~(b.table = "beats" /\ b.of \notin NamesIn(book, "warehouses") \cup {NoName})
      <4>1. todo[k] = b
        BY <3>2, <3>5 DEF Resolved
      <4> QED  BY <2>4, <3>1, <4>1 DEF Stands
    <3> QED  BY <3>4, <3>5
  <2>8. Progress(book, 0, todo, session'[s].new)
    BY <2>4, <2>5, <2>7 DEF Progress
  <2> QED  BY <1>1, <1>2, <2>3, <2>4, <2>6, <2>8 DEF ImportInv
<1> QED  BY <1>3, <1>4

\* A row that is drawn for belongs to an inserted row when the workbook has its parent.
LEMMA DrawProgress ==
  ASSUME IInv, ImportsInv, NEW s \in Session, Draw(s)
  PROVE  ImportInv(s)'
<1> SUFFICES ASSUME request[s].do = "import" PROVE ImportInv(s)'
  BY DEF ImportInv, Draw
<1>1. PICK book : book = request[s].book
  OBVIOUS
<1>2. PICK todo : todo = session[s].todo
  OBVIOUS
<1>3. PICK new : new = session[s].new
  OBVIOUS
<1>4. PICK i : i = Head(todo)
  OBVIOUS
<1>5. /\ session[s].stage = "inserting" /\ todo # <<>> /\ "table" \in DOMAIN i
      /\ request' = request
  BY <1>2, <1>4 DEF Draw
<1>6. PICK p \in Parents(s, i) :
        session' = [session EXCEPT
            ![s].stage = "drawn",
            ![s].drawn = [table |-> i.table, id |-> next[i.table], of |-> i.of,
                          row |-> [name |-> i.name, parent |-> p, image |-> NoImage, aisle |-> NoId,
                                   spot |-> NoSpot]]]
  BY <1>2, <1>4 DEF Draw
<1>7. PICK made : made = [name |-> i.name, parent |-> p, image |-> NoImage, aisle |-> NoId, spot |-> NoSpot]
  OBVIOUS
<1>8. PICK d : d = [table |-> i.table, id |-> next[i.table], of |-> i.of, row |-> made]
  OBVIOUS
<1>9. d.table = i.table /\ d.row.name = i.name /\ d.row.parent = p
  BY <1>7, <1>8
<1>10. session'[s] = [session[s] EXCEPT !.stage = "drawn", !.drawn = d] /\ session[s] = Parts(session[s])
  BY <1>6, <1>7, <1>8 DEF IInv, ShapeInv
<1>11. /\ session'[s].stage = "drawn" /\ session'[s].drawn = d
       /\ session'[s].todo = todo /\ session'[s].new = new
  BY <1>2, <1>3, <1>10 DEF Parts
<1>12. /\ Len(book) \in Nat /\ DOMAIN book = 1 .. Len(book)
       /\ \A k, j \in DOMAIN book :
            book[k].table \in {"skus", "beats"} /\ book[j].table = ParentTable(book[k].table) => j < k
  BY <1>1, BookOf DEF IInv
<1>13. ImportInv(s)
  BY DEF ImportsInv
<1>14. \A k \in DOMAIN book : book[k].name # NoName
  BY <1>1, <1>5, <1>13 DEF ImportInv
<1>15. PICK m \in 0 .. Len(book) : Progress(book, m, todo, new)
  BY <1>1, <1>2, <1>3, <1>5, <1>13 DEF ImportInv
<1>16. todo \in Work
  BY <1>2, <1>5 DEF IInv, SessionsInv, SessionInv, StageInv
<1>17. Len(todo) \in Nat \ {0} /\ i = todo[1]
  BY <1>4, <1>5, <1>16, LenProperties DEF Work
<1>18. m + 1 \in DOMAIN book /\ Stands(i, book, m + 1)
  <2>1. Len(todo) = Len(book) - m /\ \A k \in 1 .. Len(todo) : Stands(todo[k], book, m + k)
    BY <1>15 DEF Progress
  <2>5. Len(book) \in Nat /\ DOMAIN book = 1 .. Len(book) /\ m \in 0 .. Len(book)
    BY <1>12, <1>15
  <2>6. Len(todo) \in Nat \ {0} /\ Len(todo) = Len(book) - m
    BY <1>17, <2>1
  <2>8. \A a, b : a \in Nat \ {0} /\ b \in Nat /\ m \in 0 .. b /\ a = b - m => m + 1 \in 1 .. b
    OBVIOUS
  <2>7. m + 1 \in 1 .. Len(book)
    BY <2>5, <2>6, <2>8
  <2>2. m + 1 \in DOMAIN book
    BY <2>5, <2>7
  <2>3. 1 \in 1 .. Len(todo)
    BY <1>17
  <2>4. Stands(todo[1], book, m + 1)
    BY <2>1, <2>3
  <2> QED  BY <1>17, <2>2, <2>4
<1>19. ASSUME HasParentIn(book, m + 1)
       PROVE  \E q \in new : q.table = ParentTable(i.table) /\ q.id = p /\ q.row.name = i.of
  <2>1. /\ i.table \in {"skus", "beats"} /\ i.parent = NoId
        /\ i.of \in NamesIn(book, ParentTable(i.table))
    BY <1>18, <1>19 DEF Stands, HasParentIn
  <2>2. PICK j \in DOMAIN book : book[j].table = ParentTable(i.table) /\ book[j].name = i.of
    BY <2>1 DEF NamesIn
  <2>3. i.of # NoName
    BY <1>14, <2>2
  <2>4. j < m + 1
    BY <1>12, <1>18, <2>1, <2>2 DEF Stands
  <2>5. Brought(book, j, new)
    BY <1>12, <1>15, <2>4 DEF Progress
  <2>6. PICK own : own = {r \in new : r.table = ParentTable(i.table) /\ r.row.name = i.of}
    OBVIOUS
  <2>7. own # {}
    BY <2>2, <2>5, <2>6 DEF Brought, Brings
  <2>8. PICK ids : ids = {r.id : r \in own}
    OBVIOUS
  <2>9. ids \subseteq Id \cup {NoId} /\ ids # {}
    BY <1>3, <2>6, <2>7, <2>8 DEF IInv, SessionsInv, SessionInv, NewRow
  <2>10. Max(ids) \in ids
    BY <2>9, LargestId
  <2>11. Parents(s, i) = {Max(ids)}
    BY <1>3, <2>1, <2>3, <2>6, <2>7, <2>8 DEF Parents
  <2> QED  BY <2>6, <2>8, <2>10, <2>11
<1>20. Brings(d, book, m + 1, new)
  BY <1>9, <1>18, <1>19 DEF Brings, Stands
<1> QED  BY <1>1, <1>5, <1>11, <1>14, <1>15, <1>20 DEF ImportInv

\* An insert takes the import one row further, or ends it.
LEMMA InsertProgress ==
  ASSUME IInv, ImportsInv, NEW s \in Session, Insert(s)
  PROVE  ImportInv(s)'
<1> SUFFICES ASSUME request[s].do = "import", session'[s].stage \in {"inserting", "drawn"}
             PROVE  ImportInv(s)'
  BY DEF ImportInv, Insert
<1>1. PICK book : book = request[s].book
  OBVIOUS
<1>2. PICK todo : todo = session[s].todo
  OBVIOUS
<1>3. PICK new : new = session[s].new
  OBVIOUS
<1>4. PICK d : d = session[s].drawn
  OBVIOUS
<1>5. session[s].stage = "drawn" /\ request' = request
  BY DEF Insert
<1>6. \A why : ~Fail(s, why)
  <2> SUFFICES ASSUME NEW why, Fail(s, why) PROVE FALSE
    OBVIOUS
  <2>1. session'[s] = [Fresh EXCEPT !.stage = "reclaiming", !.why = why,
                       !.todo = <<"brands", "retailers", "warehouses", "skus", "beats">>]
    BY DEF Fail, IInv, ShapeInv
  <2>2. session'[s].stage = "reclaiming"
    BY <2>1, FreshShape DEF Parts
  <2> QED  BY <2>2
<1>7. /\ session' = [session EXCEPT ![s].stage = "inserting", ![s].todo = Tail(@), ![s].new = @ \cup {d}]
      /\ ~(d.table = "skus" /\ d.row.parent = NoId)
  BY <1>4, <1>6 DEF Insert
<1>8. session'[s] = [session[s] EXCEPT !.stage = "inserting", !.todo = Tail(@), !.new = @ \cup {d}]
      /\ session[s] = Parts(session[s])
  BY <1>7 DEF IInv, ShapeInv
<1>9. session'[s].stage = "inserting" /\ session'[s].todo = Tail(todo) /\ session'[s].new = new \cup {d}
  BY <1>2, <1>3, <1>8 DEF Parts
<1>10. ImportInv(s)
  BY DEF ImportsInv
<1>11. \A k \in DOMAIN book : book[k].name # NoName
  BY <1>1, <1>5, <1>10 DEF ImportInv
<1>12. PICK m \in 0 .. Len(book) : Progress(book, m, todo, new) /\ Brings(d, book, m + 1, new)
  BY <1>1, <1>2, <1>3, <1>4, <1>5, <1>10 DEF ImportInv
<1>13. Len(book) \in Nat
  BY <1>1, BookOf DEF IInv
<1>14. todo \in Work /\ todo # <<>>
  BY <1>2, <1>5 DEF IInv, SessionsInv, SessionInv, StageInv, Drawn
<1>15. /\ Len(todo) \in Nat \ {0} /\ Len(Tail(todo)) = Len(todo) - 1
       /\ \A k \in 1 .. Len(Tail(todo)) : Tail(todo)[k] = todo[k + 1]
  BY <1>14, HeadTailProperties, LenProperties DEF Work
<1>16. /\ Len(todo) = Len(book) - m
       /\ \A k \in 1 .. Len(todo) : Stands(todo[k], book, m + k)
       /\ \A k \in 1 .. m : Brought(book, k, new)
  BY <1>12 DEF Progress
<1>17. m + 1 \in 0 .. Len(book)
  BY <1>13, <1>15, <1>16
<1>18. Len(Tail(todo)) = Len(book) - (m + 1)
  BY <1>13, <1>15, <1>16
<1>19. ASSUME NEW k \in 1 .. Len(Tail(todo)) PROVE Stands(Tail(todo)[k], book, (m + 1) + k)
  <2>1. k + 1 \in 1 .. Len(todo) /\ m + (k + 1) = (m + 1) + k
    BY <1>15
  <2> QED  BY <1>15, <1>16, <2>1
<1>20. ASSUME NEW k \in 1 .. m + 1 PROVE Brought(book, k, new \cup {d})
  <2>1. CASE k = m + 1
    <3>1. Brings(d, book, k, new \cup {d})
      BY <1>12, <2>1, BringsMore
    <3> QED  BY <1>7, <3>1 DEF Brought
  <2>2. CASE k # m + 1
    <3>1. Brought(book, k, new)
      BY <1>16, <2>2
    <3> QED  BY <3>1, BringsMore
  <2> QED  BY <2>1, <2>2
<1>21. Progress(book, m + 1, Tail(todo), new \cup {d})
  BY <1>18, <1>19, <1>20 DEF Progress
<1> QED  BY <1>1, <1>5, <1>9, <1>11, <1>17, <1>21 DEF ImportInv

\* A step changes its own session only.
LEMMA StepsAlone ==
  ASSUME ShapeInv, NEW s \in Session,
         \/ (OfficeStep(s) \/ ImportStep(s) \/ SeedStep(s)) /\ UNCHANGED outlets
         \/ OutletStep(s)
  PROVE  Alone(s) /\ request' = request
<1>1. \A why : Fail(s, why) => Alone(s)
  BY DEF Fail, ShapeInv, Alone
<1>2. \A a : Go(s, a) => Alone(s)
  BY DEF Go, ShapeInv, Alone
<1>3. Draw(s) \/ Commit(s) => Alone(s) /\ request' = request
  BY DEF Draw, Commit, ShapeInv, Alone
<1>4. Insert(s) => Alone(s) /\ request' = request
  BY <1>1 DEF Insert, ShapeInv, Alone
<1>5. Deadlock(s) => Alone(s) /\ request' = request
  BY <1>1 DEF Deadlock
<1>6. Create(s) => Alone(s) /\ request' = request
  BY <1>2 DEF Create, ShapeInv, Alone
<1>7. Edit(s) \/ EditRetailer(s) \/ SetRetailerBeat(s) => Alone(s) /\ request' = request
  BY <1>2 DEF Edit, EditRetailer, SetRetailerBeat
<1>8. Validate(s) => Alone(s) /\ request' = request
  BY <1>2 DEF Validate, ShapeInv, Alone
<1>9. Reclaim(s) \/ Reclaimed(s) => Alone(s) /\ request' = request
  BY <1>2 DEF Reclaim, Reclaimed, ShapeInv, Alone
<1>10. StartSeed(s) \/ ReadSku(s) => Alone(s) /\ request' = request
  BY DEF StartSeed, ReadSku, ShapeInv, Alone
<1>11. FillImage(s) \/ FillAisle(s) => Alone(s) /\ request' = request
  BY DEF FillImage, FillAisle, ShapeInv, Alone
<1>12. MakeAisle(s) \/ AisleMade(s) \/ EndSeed(s) => Alone(s) /\ request' = request
  BY <1>2 DEF MakeAisle, AisleMade, EndSeed, ShapeInv, Alone
<1>13. ReadShop(s) \/ CloseOrder(s) \/ ReadOwnShop(s) => Alone(s) /\ request' = request
  BY <1>2 DEF ReadShop, CloseOrder, ReadOwnShop, Kept, ShapeInv, Alone
<1>14. RecordVisit(s) \/ SaveOwnShop(s) \/ Accept(s) => Alone(s) /\ request' = request
  BY DEF RecordVisit, SaveOwnShop, Accept, Kept, ShapeInv, Alone
<1>15. Assign(s) \/ ReadJob(s) => Alone(s) /\ request' = request
  BY <1>2 DEF Assign, ReadJob, Kept, ShapeInv, Alone
<1> QED  BY <1>3, <1>4, <1>5, <1>6, <1>7, <1>8, <1>9, <1>10, <1>11, <1>12, <1>13, <1>14, <1>15
         DEF OfficeStep, ImportStep, SeedStep, OutletStep

\* The steps of an import.
LEMMA ImportSteps ==
  ASSUME NEW s \in Session, request[s].do = "import",
         \/ (OfficeStep(s) \/ ImportStep(s) \/ SeedStep(s)) /\ UNCHANGED outlets
         \/ OutletStep(s)
  PROVE  Draw(s) \/ Insert(s) \/ Deadlock(s) \/ Commit(s) \/ Validate(s) \/ Reclaim(s) \/ Reclaimed(s)
<1>1. ~Create(s) /\ ~Edit(s) /\ ~EditRetailer(s) /\ ~SetRetailerBeat(s)
  BY DEF Create, Edit, EditRetailer, SetRetailerBeat, At
<1>2. ~StartSeed(s) /\ ~ReadSku(s) /\ ~FillImage(s) /\ ~MakeAisle(s) /\ ~AisleMade(s) /\ ~FillAisle(s)
      /\ ~EndSeed(s)
  BY DEF StartSeed, ReadSku, FillImage, MakeAisle, AisleMade, FillAisle, EndSeed, At
<1>3. /\ ~ReadShop(s) /\ ~CloseOrder(s) /\ ~RecordVisit(s) /\ ~ReadOwnShop(s) /\ ~SaveOwnShop(s)
      /\ ~Assign(s) /\ ~ReadJob(s) /\ ~Accept(s)
  BY DEF ReadShop, CloseOrder, RecordVisit, ReadOwnShop, SaveOwnShop, Assign, ReadJob, Accept, At
<1> QED  BY <1>1, <1>2, <1>3 DEF OfficeStep, ImportStep, SeedStep, OutletStep

\* Every step keeps the account of how far the imports are.
LEMMA ImportGoesOn ==
  ASSUME IInv, ImportsInv, Next
  PROVE  ImportsInv'
<1>1. PICK s \in Session :
        \/ (OfficeStep(s) \/ ImportStep(s) \/ SeedStep(s)) /\ UNCHANGED outlets
        \/ OutletStep(s)
  BY DEF Next
<1>2. Alone(s) /\ request' = request
  BY <1>1, StepsAlone DEF IInv
<1>3. ASSUME NEW u \in Session, u # s PROVE ImportInv(u)'
  <2>1. session'[u] = session[u]
    BY <1>2, <1>3 DEF Alone
  <2> QED  BY <1>2, <2>1 DEF ImportsInv, ImportInv
<1>4. ImportInv(s)'
  <2>1. CASE request[s].do # "import"
    BY <1>2, <2>1 DEF ImportInv
  <2>2. CASE Draw(s)
    BY <2>2, DrawProgress
  <2>3. CASE Insert(s)
    BY <2>3, InsertProgress
  <2>4. CASE Validate(s)
    BY <2>4, ValidateProgress
  <2>5. CASE request[s].do = "import" /\ Deadlock(s)
    <3>1. session'[s] = [Fresh EXCEPT !.stage = "reclaiming", !.why = "refused",
                         !.todo = <<"brands", "retailers", "warehouses", "skus", "beats">>]
      BY <2>5 DEF Deadlock, Fail, IInv, ShapeInv
    <3>2. session'[s].stage = "reclaiming"
      BY <3>1, FreshShape DEF Parts
    <3> QED  BY <3>2 DEF ImportInv
  <2>6. CASE Commit(s)
    <3>1. session'[s].stage = "done"
      BY <1>2, <2>6, Ended DEF Commit
    <3> QED  BY <3>1 DEF ImportInv
  <2>7. CASE Reclaim(s)
    <3>1. session'[s] = [session[s] EXCEPT !.todo = Tail(@)] /\ session[s] = Parts(session[s])
      BY <2>7 DEF Reclaim, IInv, ShapeInv
    <3>2. session'[s].stage = "reclaiming"
      BY <2>7, <3>1 DEF Reclaim, At, Parts
    <3> QED  BY <3>2 DEF ImportInv
  <2>8. CASE Reclaimed(s)
    <3>1. session'[s].stage = session[s].why
      BY <2>8, StageSet DEF Reclaimed, IInv
    <3>2. session[s].why \in Reasons
      BY <2>8 DEF Reclaimed, At, IInv, SessionsInv, SessionInv, StageInv, Reclaiming
    <3> QED  BY <3>1, <3>2 DEF ImportInv, Reasons
  <2> QED  BY <1>1, <2>1, <2>2, <2>3, <2>4, <2>5, <2>6, <2>7, <2>8, ImportSteps
<1> QED  BY <1>3, <1>4 DEF ImportsInv

\* An import has inserted the rows of its workbook up to some row, each with the
\* parent that the workbook names, and has the others to insert.
THEOREM ImportsGoOn == Spec => [](IInv /\ ImportsInv)
<1>1. Init => ImportsInv
  <2> SUFFICES ASSUME Init, NEW s \in Session PROVE ImportInv(s)
    BY DEF ImportsInv
  <2>1. session[s].stage = "arrived"
    BY DEF Init, TablesInit, Fresh
  <2> QED  BY <2>1 DEF ImportInv
<1>2. IInv /\ ImportsInv /\ [Next]_allVars => ImportsInv'
  <2>1. CASE UNCHANGED allVars
    BY <2>1 DEF allVars, vars, ImportsInv, ImportInv
  <2> QED  BY <2>1, ImportGoesOn
<1> QED  BY <1>1, <1>2, InitKeeps, StepKeeps, PTL DEF Spec

\* The commit of an import adds every row of the workbook, each with its parent.
LEMMA CommittedWhole ==
  ASSUME IInv, ImportsInv, NEW s \in Session, Commit(s), request[s].do = "import",
         NEW book, book = request[s].book, NEW k \in DOMAIN book
  PROVE  \E i \in New(book[k].table) :
           /\ row'[book[k].table][i].name = book[k].name
           /\ HasParentIn(book, k) =>
                /\ row'[book[k].table][i].parent \in New(ParentTable(book[k].table))
                /\ row'[ParentTable(book[k].table)][row'[book[k].table][i].parent].name = book[k].of
           /\ book[k].table = "skus" => row'["skus"][i].parent # NoId
<1>1. PICK new : new = session[s].new
  OBVIOUS
<1>2. session[s].stage = "inserting" /\ session[s].todo = <<>> /\ row' = WithNew(s)
  BY DEF Commit
<1>3. ImportInv(s)
  BY DEF ImportsInv
<1>4. PICK m \in 0 .. Len(book) : Progress(book, m, session[s].todo, new)
  BY <1>1, <1>2, <1>3 DEF ImportInv
<1>5. Len(book) \in Nat /\ DOMAIN book = 1 .. Len(book)
  BY BookOf DEF IInv
<1>6. m = Len(book)
  BY <1>2, <1>4, <1>5 DEF Progress
<1>7. PICK r \in new : Brings(r, book, k, new) /\ (r.table = "skus" => r.row.parent # NoId)
  BY <1>4, <1>5, <1>6 DEF Progress, Brought
<1>8. ASSUME NEW q \in new
      PROVE  q.id \in New(q.table) /\ row'[q.table][q.id] = q.row
  <2>1. q \in NewRow /\ q.table \in Table /\ q.id \in Id /\ q.row \in AnyRow
    BY <1>1 DEF IInv, SessionsInv, SessionInv, NewRow
  <2>2. row'[q.table][q.id] = q.row
    BY <1>1, <1>2, WithNewRows
  <2>3. ~Exists(q.table, q.id)
    BY <1>1 DEF IInv, KeysInv
  <2> QED  BY <2>1, <2>2, <2>3, AbsentIsNoRow DEF New, Exists
<1>9. /\ r.table = book[k].table /\ r.row.name = book[k].name
      /\ r.id \in New(book[k].table) /\ row'[book[k].table][r.id] = r.row
  BY <1>7, <1>8 DEF Brings
<1>10. ASSUME HasParentIn(book, k)
       PROVE  /\ r.row.parent \in New(ParentTable(book[k].table))
              /\ row'[ParentTable(book[k].table)][r.row.parent].name = book[k].of
  <2>1. PICK q \in new :
          q.table = ParentTable(book[k].table) /\ q.id = r.row.parent /\ q.row.name = book[k].of
    BY <1>7, <1>10 DEF Brings
  <2> QED  BY <1>8, <2>1
<1> QED  BY <1>7, <1>9, <1>10

\* Rows are written by a session that is answered, or only sets the beat yet.
LEMMA WritersAreAnswered ==
  ASSUME IInv, Next, row' # row
  PROVE  \E s \in Session : session'[s].stage \in {"done", "set beat"}
<1>1. PICK s \in Session :
        \/ (OfficeStep(s) \/ ImportStep(s) \/ SeedStep(s)) /\ UNCHANGED outlets
        \/ OutletStep(s)
  BY DEF Next
<1>2. \/ Commit(s) \/ Edit(s) \/ EditRetailer(s) \/ SetRetailerBeat(s) \/ EndSeed(s)
      \/ RecordVisit(s) \/ SaveOwnShop(s)
  BY <1>1, WhoWrites
<1>3. Commit(s) \/ EndSeed(s) \/ RecordVisit(s) \/ SaveOwnShop(s) => session'[s].stage = "done"
  <2>1. Commit(s) \/ EndSeed(s) \/ RecordVisit(s) \/ SaveOwnShop(s) =>
          request' = request /\ session' = [session EXCEPT ![s] = [Fresh EXCEPT !.stage = "done"]]
    BY DEF Commit, EndSeed, RecordVisit, SaveOwnShop, Kept
  <2> QED  BY <2>1, Ended
<1>4. Edit(s) \/ SetRetailerBeat(s) => session'[s].stage = "done"
  <2>1. Edit(s) \/ SetRetailerBeat(s) => Go(s, "done")
    BY DEF Edit, SetRetailerBeat
  <2> QED  BY <2>1, StageSet DEF IInv
<1>5. EditRetailer(s) => session'[s].stage \in {"done", "set beat"}
  <2>1. EditRetailer(s) => Go(s, "done") \/ Go(s, "set beat")
    BY DEF EditRetailer
  <2> QED  BY <2>1, StageSet DEF IInv
<1> QED  BY <1>2, <1>3, <1>4, <1>5

\* An import that is answered while inserting is so by its commit.
LEMMA AnsweredByCommit ==
  ASSUME IInv, Next, NEW s \in Session, At(s, "import", "inserting"), session'[s].stage = "done"
  PROVE  Commit(s)
<1>1. PICK u \in Session :
        \/ (OfficeStep(u) \/ ImportStep(u) \/ SeedStep(u)) /\ UNCHANGED outlets
        \/ OutletStep(u)
  BY DEF Next
<1>2. u = s
  <2>1. Alone(u)
    BY <1>1, StepsAlone DEF IInv
  <2> QED  BY <2>1 DEF Alone, At
<1>3. request[s].do = "import" /\ session[s].stage = "inserting"
  BY DEF At
<1>4. ~Draw(s)
  <2> SUFFICES ASSUME Draw(s) PROVE FALSE
    OBVIOUS
  <2>1. PICK d : session' = [session EXCEPT ![s].stage = "drawn", ![s].drawn = d]
    BY DEF Draw
  <2>2. session'[s] = [session[s] EXCEPT !.stage = "drawn", !.drawn = d] /\ session[s] = Parts(session[s])
    BY <2>1 DEF IInv, ShapeInv
  <2>3. session'[s].stage = "drawn"
    BY <2>2 DEF Parts
  <2> QED  BY <2>3
<1>5. ~Insert(s) /\ ~Deadlock(s) /\ ~Validate(s) /\ ~Reclaim(s) /\ ~Reclaimed(s)
  BY <1>3 DEF Insert, Deadlock, WaitsFor, Validate, Reclaim, Reclaimed, At
<1> QED  BY <1>1, <1>2, <1>3, <1>4, <1>5, ImportSteps

\* Rows appear by a commit only, and an import that succeeds has added every row
\* of its workbook with the row of the same workbook it belongs to.
THEOREM ImportStaysWhole == Spec => ImportIsWhole
<1>1. IInv /\ ImportsInv /\ [Next]_allVars =>
        [/\ row' # row => \E s \in Session : session'[s].stage \in {"done", "set beat"}
         /\ \A s \in Session :
              At(s, "import", "inserting") /\ session'[s].stage = "done" =>
                LET book == request[s].book IN
                \A k \in DOMAIN book : \E i \in New(book[k].table) :
                  /\ row'[book[k].table][i].name = book[k].name
                  /\ HasParentIn(book, k) =>
                       /\ row'[book[k].table][i].parent \in New(ParentTable(book[k].table))
                       /\ row'[ParentTable(book[k].table)][row'[book[k].table][i].parent].name = book[k].of
                  /\ book[k].table = "skus" => row'["skus"][i].parent # NoId]_allVars
  BY WritersAreAnswered, AnsweredByCommit, CommittedWhole DEF At
<1> QED  BY <1>1, ImportsGoOn, PTL DEF Spec, ImportIsWhole
=============================================================================
