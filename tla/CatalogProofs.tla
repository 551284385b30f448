--------------------------- MODULE CatalogProofs ---------------------------
(***************************************************************************)
(* What holds of Catalog for every set of requests, calls and databases.    *)
(***************************************************************************)
EXTENDS Catalog, FiniteSetTheorems, TLAPS

-----------------------------------------------------------------------------
(* The overlays. *)

\* What a transaction sees of a table is a table.
LEMMA ViewType ==
  ASSUME NEW S, NEW rows \in [Id -> S \cup {None}],
         NEW writes \in [Id -> S \cup {None, Same}]
  PROVE  View(rows, writes) \in [Id -> S \cup {None}]
  BY SMT DEF View

LEMMA NoWritesType ==
  ASSUME NEW S
  PROVE  NoWrites \in [Id -> S \cup {None, Same}]
  BY DEF NoWrites

\* Nothing written, nothing different to see.
LEMMA ViewNoWrites ==
  ASSUME NEW S, NEW rows \in [Id -> S]
  PROVE  View(rows, NoWrites) = rows
  BY DEF View, NoWrites

LEMMA RankedType ==
  ASSUME NEW s \in SUBSET Id, NEW ids \in Ranked(s)
  PROVE  ids \in Seq(Id)
<1>1. MaxId \in Nat
  BY CatalogAssumption DEF CatalogAssumption
<1>2. IsFiniteSet(s)
  <2>1. IsFiniteSet(Id)
    BY <1>1, FS_Interval DEF Id
  <2> QED
    BY <2>1, FS_Subset
<1>3. Cardinality(s) \in Nat
  BY <1>2, FS_CardinalityType
<1>4. ids \in [1..Cardinality(s) -> Id]
  BY DEF Ranked
<1> QED
  BY <1>3, <1>4

-----------------------------------------------------------------------------
LEMMA IdleType == Idle \in Locals
<1>1. <<>> \in Seq(Id)
  OBVIOUS
<1> QED
  BY <1>1 DEF Idle, Locals, Label

\* The databases the server may be started on are typed.
LEMMA InitTypeOK == Init => TypeOK
<1> SUFFICES ASSUME Init PROVE TypeOK
  OBVIOUS
<1>1. PICK seed \in Seeds : beers = seed.beers /\ reviews = seed.reviews /\ clock = seed.top
  BY DEF Init
<1>2. LegalSeed(seed)
  BY CatalogAssumption DEF CatalogAssumption
<1>3. /\ beers \in [Id -> Beer \cup {None}]
      /\ reviews \in [Id -> Review \cup {None}]
      /\ clock \in 0..MaxId
  BY <1>1, <1>2 DEF LegalSeed
<1>4. req \in [Request -> Locals] /\ \A p \in Request : req[p].pc = "idle"
  BY IdleType DEF Init, Idle
<1>5. /\ wb \in [Request -> [Id -> Beer \cup {None, Same}]]
      /\ wr \in [Request -> [Id -> Review \cup {None, Same}]]
  BY NoWritesType DEF Init
<1> QED
  BY <1>3, <1>4, <1>5 DEF TypeOK, RequestsTyped

-----------------------------------------------------------------------------
(* Requests. *)

\* Each operation has bodies of its own kind.
LEMMA CallTypes ==
  ASSUME NEW c \in Call
  PROVE  /\ c.op = "BeerCreate" => c \in BeerCreateCall
         /\ c.op = "ReviewCreate" => c \in ReviewCreateCall
         /\ c.op = "ReviewUpdate" => c \in ReviewUpdateCall
         /\ c.op = "ReviewDelete" => c \in ReviewDeleteCall
         /\ c.op = "BeerUpdate" => c \in BeerUpdateCall
         /\ c.op = "Merge" => c \in MergeCall
  BY DEF Call, BeerCreateCall, ReviewCreateCall, ReviewUpdateCall, ReviewDeleteCall,
         BeerUpdateCall, MergeCall, DedupeCall

\* A request whose locals change keeps the typing of all, when the new locals are typed
\* and its label is one of its operation.
LEMMA LocalsStep ==
  ASSUME TypeOK, NEW p \in Request, NEW l \in Locals, req' = [req EXCEPT ![p] = l],
         Proper(l)
  PROVE  RequestsTyped'
  BY DEF TypeOK, RequestsTyped

\* In a typed state the tables a request sees are typed, and its label tells its operation.
LEMMA Typed ==
  ASSUME TypeOK, NEW p \in Request
  PROVE  /\ SeenBeers(p) \in [Id -> Beer \cup {None}]
         /\ SeenReviews(p) \in [Id -> Review \cup {None}]
         /\ req[p] \in Locals
         /\ ~At(p, "idle") => Proper(req[p]) /\ req[p].call \in Call
         /\ ~At(p, "idle") /\ ~At(p, "done") => req[p].pc \in Labels(Op(p))
<1>1. SeenBeers(p) \in [Id -> Beer \cup {None}]
  BY ViewType DEF TypeOK, SeenBeers
<1>2. SeenReviews(p) \in [Id -> Review \cup {None}]
  BY ViewType DEF TypeOK, SeenReviews
<1> QED
  BY <1>1, <1>2 DEF TypeOK, RequestsTyped, Proper, At, Op

\* The label of a request tells what it was called for.
LEMMA OpAt ==
  ASSUME TypeOK, NEW p \in Request
  PROVE  /\ At(p, "lookup") \/ At(p, "insertBeer") => Op(p) \in {"BeerCreate", "ReviewCreate"}
         /\ At(p, "insertReview") => Op(p) = "ReviewCreate"
         /\ At(p, "own") \/ At(p, "update") \/ At(p, "reread") => Op(p) = "ReviewUpdate"
         /\ At(p, "remove") => Op(p) = "ReviewDelete"
         /\ At(p, "patch") => Op(p) = "BeerUpdate"
         /\ At(p, "keys") \/ At(p, "group") \/ At(p, "ids") => Op(p) = "DedupeExact"
         /\ \/ At(p, "exists") \/ At(p, "count") \/ At(p, "fill") \/ At(p, "filling")
            \/ At(p, "reassign") \/ At(p, "delete") \/ At(p, "cascade")
            => Op(p) \in {"Merge", "DedupeExact"}
         /\ At(p, "commit") => Op(p) \in {"BeerCreate", "ReviewCreate", "ReviewUpdate", "Merge",
                                         "DedupeExact"}
<1>1. CASE At(p, "idle")
  BY <1>1 DEF At
<1>2. CASE At(p, "done")
  BY <1>2 DEF At
<1>3. CASE ~At(p, "idle") /\ ~At(p, "done")
  <2>1. req[p].pc \in Labels(Op(p))
    BY <1>3, Typed
  <2>2. Op(p) \in {"BeerCreate", "ReviewCreate", "ReviewUpdate", "ReviewDelete", "BeerUpdate",
                   "Merge", "DedupeExact"}
    BY <1>3, Typed DEF Op, Call, BeerCreateCall, ReviewCreateCall, ReviewUpdateCall,
       ReviewDeleteCall, BeerUpdateCall, MergeCall, DedupeCall
  <2> QED
    BY <2>1, <2>2 DEF Labels, At
<1> QED
  BY <1>1, <1>2, <1>3

\* The statements that need the id of a beer.
NeedsBeer == {"insertReview", "patch", "exists", "count", "fill", "filling", "reassign",
              "delete", "cascade"}

\* Moving on to another label of the same operation, with or without a reply, and with a
\* transaction begun or ended or neither.
LEMMA GotoType ==
  ASSUME TypeOK, NEW p \in Request, ~At(p, "idle"), NEW label \in Label,
         label \in Labels(Op(p)) \cup {"done"}, NEW code \in Nat, NEW open \in BOOLEAN,
         label \in NeedsBeer => req[p].beer \in Id,
         \/ Goto(p, label)
         \/ req' = [req EXCEPT ![p].pc = label, ![p].open = open]
         \/ req' = [req EXCEPT ![p].pc = label, ![p].status = code]
         \/ req' = [req EXCEPT ![p].pc = label, ![p].status = code, ![p].open = open]
  PROVE  RequestsTyped'
<1> DEFINE l1 == [req[p] EXCEPT !.pc = label]
           l2 == [req[p] EXCEPT !.pc = label, !.open = open]
           l3 == [req[p] EXCEPT !.pc = label, !.status = code]
           l4 == [req[p] EXCEPT !.pc = label, !.status = code, !.open = open]
<1>1. req[p] \in Locals /\ req[p].call \in Call /\ Proper(req[p])
  BY Typed
<1>2. /\ l1 \in Locals /\ l2 \in Locals /\ l3 \in Locals /\ l4 \in Locals
      /\ Proper(l1) /\ Proper(l2) /\ Proper(l3) /\ Proper(l4)
  BY <1>1 DEF Locals, Proper, NeedsBeer, Op
<1>3. \/ req' = [req EXCEPT ![p] = l1] \/ req' = [req EXCEPT ![p] = l2]
      \/ req' = [req EXCEPT ![p] = l3] \/ req' = [req EXCEPT ![p] = l4]
  BY DEF Goto
<1> HIDE DEF l1, l2, l3, l4
<1> QED
  BY <1>2, <1>3, LocalsStep

\* An error reply keeps the types: the pending writes are dropped.
LEMMA AbortType ==
  ASSUME TypeOK, NEW p \in Request, ~At(p, "idle"), NEW code \in Nat, Abort(p, code)
  PROVE  TypeOK'
<1>1. RequestsTyped'
  <2>1. "done" \in Label /\ "done" \notin NeedsBeer
    BY DEF Label, NeedsBeer
  <2> QED
    BY <2>1, GotoType DEF Abort
<1>2. /\ wb' \in [Request -> [Id -> Beer \cup {None, Same}]]
      /\ wr' \in [Request -> [Id -> Review \cup {None, Same}]]
  BY NoWritesType DEF Abort, TypeOK
<1> QED
  BY <1>1, <1>2 DEF Abort, TypeOK, db

LEMMA ReplyType ==
  ASSUME TypeOK, NEW p \in Request, ~At(p, "idle"), NEW code \in Nat, Reply(p, code)
  PROVE  TypeOK'
<1>1. RequestsTyped'
  <2>1. "done" \in Label /\ "done" \notin NeedsBeer
    BY DEF Label, NeedsBeer
  <2> QED
    BY <2>1, GotoType DEF Reply
<1> QED
  BY <1>1 DEF Reply, TypeOK, db

LEMMA OnlyGotoType ==
  ASSUME TypeOK, NEW p \in Request, ~At(p, "idle"), NEW label \in Label,
         label \in Labels(Op(p)), label \in NeedsBeer => req[p].beer \in Id,
         Goto(p, label), UNCHANGED <<db, clock, wb, wr>>
  PROVE  TypeOK'
<1>1. RequestsTyped'
  BY GotoType
<1> QED
  BY <1>1 DEF TypeOK, db

-----------------------------------------------------------------------------
(* Each statement keeps the types. *)

LEMMA ReceiveType ==
  ASSUME TypeOK, NEW p \in Request, Receive(p)
  PROVE  TypeOK'
<1>1. PICK c \in UserCalls \cup AdminCalls :
        /\ Creates(c) => clock < MaxId
        /\ clock' = IF Creates(c) THEN clock + 1 ELSE clock
        /\ req' = [req EXCEPT ![p] =
                     [Idle EXCEPT !.pc = Entry(c), !.call = c, !.open = Begins(c),
                                  !.beer = NamedBeer(c),
                                  !.id = IF Creates(c) THEN clock' ELSE 0,
                                  !.ids = MergedBeers(c)]]
  BY DEF Receive
<1>2. c \in Call /\ MaxId \in Nat
  BY CatalogAssumption DEF CatalogAssumption
<1>3. clock' \in 0..MaxId /\ (Creates(c) => clock' \in Id)
  BY <1>1, <1>2 DEF TypeOK, Id
<1>4. NamedBeer(c) \in Id \cup {0}
  BY <1>2, CallTypes DEF NamedBeer, ReviewCreateCall, BeerUpdateCall, MergeCall, Text
<1>5. MergedBeers(c) \in Seq(Id)
  <2>1. CASE c.op = "Merge"
    <3>1. c.ids \in Seq(Text)
      BY <1>2, <2>1, CallTypes DEF MergeCall
    <3>2. /\ Len(c.ids) \in Nat /\ DOMAIN c.ids = 1..Len(c.ids)
          /\ \A n \in DOMAIN c.ids : c.ids[n] \in Text
      BY <3>1
    <3>3. \A n \in DOMAIN c.ids : c.ids[n].id \in Id
      BY <3>2 DEF Text
    <3>4. [n \in DOMAIN c.ids |-> c.ids[n].id] \in [1..Len(c.ids) -> Id]
      BY <3>2, <3>3
    <3> QED
      BY <2>1, <3>2, <3>4 DEF MergedBeers
  <2>2. CASE c.op # "Merge"
    BY <2>2 DEF MergedBeers
  <2> QED
    BY <2>1, <2>2
<1>6. Entry(c) \in Labels(c.op) /\ Entry(c) \in Label
  BY <1>2 DEF Entry, Labels, Label, Call, BeerCreateCall, ReviewCreateCall,
     ReviewUpdateCall, ReviewDeleteCall, BeerUpdateCall, MergeCall, DedupeCall
<1> DEFINE l == [Idle EXCEPT !.pc = Entry(c), !.call = c, !.open = Begins(c),
                             !.beer = NamedBeer(c),
                             !.id = IF Creates(c) THEN clock' ELSE 0, !.ids = MergedBeers(c)]
<1>7. l \in Locals
  <2>1. Idle \in Locals
    BY IdleType
  <2>2. Begins(c) \in BOOLEAN
    BY DEF Begins, Creates
  <2> QED
    BY <1>2, <1>3, <1>4, <1>5, <1>6, <2>1, <2>2 DEF Locals
<1>8. /\ l.call = c /\ l.pc = Entry(c) /\ l.beer = NamedBeer(c)
      /\ Creates(c) => l.id = clock'
  BY DEF Idle
<1>9. Entry(c) \in NeedsBeer => NamedBeer(c) \in Id
  BY <1>2, CallTypes DEF Entry, NamedBeer, NeedsBeer, Call, BeerCreateCall, ReviewCreateCall,
     ReviewUpdateCall, ReviewDeleteCall, BeerUpdateCall, MergeCall, DedupeCall, Text
<1>10. Proper(l)
  BY <1>2, <1>3, <1>6, <1>8, <1>9 DEF Proper, NeedsBeer
<1>11. req' = [req EXCEPT ![p] = l]
  BY <1>1
<1> HIDE DEF l
<1>12. RequestsTyped'
  BY <1>7, <1>10, <1>11, LocalsStep
<1> QED
  BY <1>3, <1>12 DEF Receive, TypeOK, db

LEMMA FindOrCreateType ==
  ASSUME TypeOK, NEW p \in Request, FindOrCreate(p)
  PROVE  TypeOK'
<1>1. ~At(p, "idle") /\ req[p] \in Locals /\ req[p].call \in Call /\ Proper(req[p])
  BY Typed DEF FindOrCreate, LookupBeer, InsertBeer, At
<1>2. Op(p) \in {"BeerCreate", "ReviewCreate"}
  BY OpAt DEF FindOrCreate, LookupBeer, InsertBeer
<1>3. AfterBeer(p) \in Labels(Op(p)) /\ AfterBeer(p) \in Label
  BY <1>2 DEF AfterBeer, Labels, Label
<1>4. CASE LookupBeer(p)
  <2>1. /\ UNCHANGED <<db, clock, wb, wr>>
        /\ \/ \E i \in Id : req' = [req EXCEPT ![p].pc = AfterBeer(p), ![p].beer = i]
           \/ Goto(p, "insertBeer")
    BY <1>4 DEF LookupBeer
  <2>2. CASE Goto(p, "insertBeer")
    BY <1>1, <1>2, <2>1, <2>2, OnlyGotoType DEF Labels, Label, NeedsBeer
  <2>3. ASSUME NEW i \in Id, req' = [req EXCEPT ![p].pc = AfterBeer(p), ![p].beer = i]
        PROVE  TypeOK'
    <3> DEFINE l == [req[p] EXCEPT !.pc = AfterBeer(p), !.beer = i]
    <3>1. l \in Locals /\ Proper(l)
      BY <1>1, <1>3 DEF Locals, Proper, Op
    <3>2. req' = [req EXCEPT ![p] = l]
      BY <2>3
    <3> HIDE DEF l
    <3> QED
      BY <2>1, <3>1, <3>2, LocalsStep DEF TypeOK, db
  <2> QED
    BY <2>1, <2>2, <2>3
<1>5. CASE InsertBeer(p)
  <2>1. req[p].call.beer \in Beer
    BY <1>1, <1>2, CallTypes DEF Op, BeerCreateCall, ReviewCreateCall
  <2>2. wb' \in [Request -> [Id -> Beer \cup {None, Same}]]
    BY <1>5, <2>1 DEF InsertBeer, TypeOK
  <2> DEFINE l == [req[p] EXCEPT !.pc = AfterBeer(p), !.beer = req[p].id]
  <2>3. l \in Locals /\ Proper(l)
    BY <1>1, <1>2, <1>3 DEF Locals, Proper, Op, Creates
  <2>4. req' = [req EXCEPT ![p] = l]
    BY <1>5 DEF InsertBeer
  <2> HIDE DEF l
  <2> QED
    BY <1>5, <2>2, <2>3, <2>4, LocalsStep DEF InsertBeer, TypeOK, db
<1> QED
  BY <1>4, <1>5 DEF FindOrCreate

LEMMA InsertReviewType ==
  ASSUME TypeOK, NEW p \in Request, InsertReview(p)
  PROVE  TypeOK'
<1>1. ~At(p, "idle") /\ req[p] \in Locals /\ req[p].call \in ReviewCreateCall /\ req[p].beer \in Id
  BY Typed, OpAt, CallTypes DEF InsertReview, At, Op, Proper
<1>2. CASE Abort(p, 500)
  BY <1>1, <1>2, AbortType
<1>3. CASE /\ SeenBeers(p)[req[p].beer] # None
           /\ wr' = [wr EXCEPT ![p][req[p].id] =
                       [user |-> req[p].call.user, beer |-> req[p].beer,
                        rated |-> req[p].call.rated]]
           /\ Goto(p, "commit")
           /\ UNCHANGED <<db, clock, wb>>
  <2>1. RequestsTyped'
    <3>1. "commit" \in Labels(Op(p)) /\ "commit" \in Label
      BY OpAt DEF InsertReview, Labels, Label, NeedsBeer
    <3> QED
      BY <1>1, <1>3, <3>1, GotoType
  <2>2. [user |-> req[p].call.user, beer |-> req[p].beer, rated |-> req[p].call.rated] \in Review
    BY <1>1, <1>3 DEF Review, ReviewCreateCall, Locals, InsertReview
  <2> QED
    BY <1>3, <2>1, <2>2 DEF TypeOK, db
<1> QED
  BY <1>2, <1>3 DEF InsertReview

LEMMA ReviewEditType ==
  ASSUME TypeOK, NEW p \in Request, CheckOwner(p) \/ UpdateReview(p) \/ RemoveReview(p)
  PROVE  TypeOK'
<1>1. ~At(p, "idle") /\ req[p] \in Locals /\ req[p].call \in Call /\ Proper(req[p])
  BY Typed DEF CheckOwner, UpdateReview, RemoveReview, At
<1>2. CASE CheckOwner(p)
  <2>1. "update" \in Labels(Op(p)) /\ "update" \in Label /\ "update" \notin NeedsBeer
    BY <1>2, OpAt DEF CheckOwner, Labels, Label, NeedsBeer
  <2>2. \/ Goto(p, "update") /\ UNCHANGED <<db, clock, wb, wr>>
        \/ Abort(p, 404)
    BY <1>2 DEF CheckOwner
  <2> QED
    BY <1>1, <2>1, <2>2, OnlyGotoType, AbortType
<1>3. CASE UpdateReview(p)
  <2> DEFINE r == req[p].call.review
             row == SeenReviews(p)[r]
             new == [row EXCEPT !.rated = req[p].call.rated]
  <2>1. req[p].call \in ReviewUpdateCall /\ Op(p) = "ReviewUpdate"
    BY <1>1, <1>3, OpAt, CallTypes DEF UpdateReview, Op
  <2>2. r \in Id /\ row \in Review \cup {None} /\ req[p].call.rated \in BOOLEAN
    BY <2>1, Typed DEF ReviewUpdateCall
  <2>3. wr' = wr \/ (row # None /\ wr' = [wr EXCEPT ![p][r] = new])
    BY <1>3 DEF UpdateReview
  <2>4. row # None => new \in Review
    BY <2>2 DEF Review
  <2>5. wr' \in [Request -> [Id -> Review \cup {None, Same}]]
    <3>1. CASE wr' = wr
      BY <3>1 DEF TypeOK
    <3>2. CASE row # None /\ wr' = [wr EXCEPT ![p][r] = new]
      <4>1. new \in Review
        BY <2>4, <3>2
      <4> HIDE DEF row, r, new
      <4> QED
        BY <3>2, <4>1 DEF TypeOK
    <3> QED
      BY <2>3, <3>1, <3>2
  <2> DEFINE l == [req[p] EXCEPT !.pc = "commit", !.hit = (row # None)]
  <2>6. l \in Locals /\ Proper(l)
    <3>1. "commit" \in Labels(req[p].call.op) /\ "commit" \in Label
      BY <2>1 DEF Labels, Label, Op
    <3> HIDE DEF row
    <3> QED
      BY <1>1, <3>1 DEF Locals, Proper
  <2>7. req' = [req EXCEPT ![p] = l]
    BY <1>3 DEF UpdateReview
  <2> HIDE DEF l
  <2> QED
    BY <1>3, <2>5, <2>6, <2>7, LocalsStep DEF UpdateReview, TypeOK, db
<1>4. CASE RemoveReview(p)
  <2>1. CASE Reply(p, 404)
    BY <1>1, <2>1, ReplyType
  <2>2. CASE /\ reviews' = [reviews EXCEPT ![req[p].call.review] = None]
             /\ \E code \in {204, 404} :
                  req' = [req EXCEPT ![p].pc = "done", ![p].status = code]
             /\ UNCHANGED <<beers, clock, wb, wr>>
    <3>1. "done" \in Label /\ "done" \notin NeedsBeer
      BY DEF Label, NeedsBeer
    <3>2. \/ req' = [req EXCEPT ![p].pc = "done", ![p].status = 204]
          \/ req' = [req EXCEPT ![p].pc = "done", ![p].status = 404]
      BY <2>2
    <3>3. 204 \in Nat /\ 404 \in Nat
      OBVIOUS
    <3>4. RequestsTyped'
      BY <1>1, <3>1, <3>2, <3>3, GotoType
    <3> QED
      BY <2>2, <3>4 DEF TypeOK
  <2> QED
    BY <1>4, <2>1, <2>2 DEF RemoveReview
<1> QED
  BY <1>2, <1>3, <1>4

\* COALESCE leaves a row a row.
LEMMA PatchedType ==
  ASSUME NEW row \in Beer, NEW c \in BeerUpdateCall
  PROVE  Patched(row, c) \in Beer
  BY DEF Patched, Beer, BeerUpdateCall

LEMMA PatchBeerType ==
  ASSUME TypeOK, NEW p \in Request, PatchBeer(p)
  PROVE  TypeOK'
<1>1. ~At(p, "idle") /\ Op(p) = "BeerUpdate" /\ req[p].call \in BeerUpdateCall
      /\ req[p].beer \in Id
  BY Typed, OpAt, CallTypes DEF PatchBeer, At, Op, Proper
<1>2. CASE Reply(p, 404)
  BY <1>1, <1>2, ReplyType
<1>3. CASE /\ beers[req[p].beer] # None
           /\ beers' = [beers EXCEPT ![req[p].beer] = Patched(@, req[p].call)]
           /\ Goto(p, "reload")
           /\ UNCHANGED <<reviews, clock, wb, wr>>
  <2>1. "reload" \in Labels(Op(p)) /\ "reload" \in Label /\ "reload" \notin NeedsBeer
    BY <1>1 DEF Labels, Label, NeedsBeer
  <2>2. RequestsTyped'
    BY <1>1, <1>3, <2>1, GotoType
  <2>3. Patched(beers[req[p].beer], req[p].call) \in Beer
    BY <1>1, <1>3, PatchedType DEF TypeOK
  <2> QED
    BY <1>3, <2>2, <2>3 DEF TypeOK
<1> QED
  BY <1>2, <1>3 DEF PatchBeer

LEMMA DedupeType ==
  ASSUME TypeOK, NEW p \in Request, Dedupe(p)
  PROVE  TypeOK'
<1>1. /\ ~At(p, "idle") /\ req[p] \in Locals /\ Proper(req[p])
      /\ req[p].call.op = "DedupeExact"
  BY Typed, OpAt DEF Dedupe, QueryKeys, BeginGroup, QueryGroup, FinishDedupe, At, Op
<1>2. CASE QueryKeys(p)
  <2>1. DuplicateKeys(beers) \in SUBSET Keys
    <3>1. \A i \in Id : beers[i] # None => Key(beers[i]) \in Keys
      BY DEF Key, Keys, TypeOK, Beer
    <3> QED
      BY <3>1 DEF DuplicateKeys
  <2> DEFINE l == [req[p] EXCEPT !.pc = "group", !.keys = DuplicateKeys(beers)]
  <2>2. l \in Locals /\ Proper(l)
    BY <1>1, <2>1 DEF Locals, Proper, Label, Labels
  <2>3. req' = [req EXCEPT ![p] = l]
    BY <1>2 DEF QueryKeys
  <2> HIDE DEF l
  <2> QED
    BY <1>2, <2>2, <2>3, LocalsStep DEF QueryKeys, TypeOK, db
<1>3. CASE QueryGroup(p)
  <2>1. PICK k \in req[p].keys : \E ids \in Ranked(Group(beers, k)) :
          \/ SkipGroup(p, k)
          \/ /\ Len(ids) > 1
             /\ req' = [req EXCEPT ![p].keys = @ \ {k}, ![p].pc = "exists", ![p].filled = 0,
                                   ![p].beer = Head(ids), ![p].ids = Tail(ids)]
    BY <1>3 DEF QueryGroup
  <2>2. PICK ids \in Ranked(Group(beers, k)) :
          \/ SkipGroup(p, k)
          \/ /\ Len(ids) > 1
             /\ req' = [req EXCEPT ![p].keys = @ \ {k}, ![p].pc = "exists", ![p].filled = 0,
                                   ![p].beer = Head(ids), ![p].ids = Tail(ids)]
    BY <2>1
  <2>3. ids \in Seq(Id)
    BY RankedType DEF Group
  <2>4. Len(ids) > 1 => Head(ids) \in Id /\ Tail(ids) \in Seq(Id)
    BY <2>3
  <2>5. req[p].keys \in SUBSET Keys
    BY <1>1 DEF Locals
  <2> DEFINE l1 == [req[p] EXCEPT !.pc = "group", !.keys = @ \ {k}, !.open = FALSE]
             l2 == [req[p] EXCEPT !.keys = @ \ {k}, !.pc = "exists", !.filled = 0,
                                  !.beer = Head(ids), !.ids = Tail(ids)]
  <2>6. l1 \in Locals /\ Proper(l1)
    BY <1>1, <2>5 DEF Locals, Proper, Label, Labels
  <2>7. Len(ids) > 1 => l2 \in Locals /\ Proper(l2)
    BY <1>1, <2>4, <2>5 DEF Locals, Proper, Label, Labels
  <2>8. \/ req' = [req EXCEPT ![p] = l1]
        \/ Len(ids) > 1 /\ req' = [req EXCEPT ![p] = l2]
    BY <2>2 DEF SkipGroup
  <2> HIDE DEF l1, l2
  <2>9. RequestsTyped'
    BY <2>6, <2>7, <2>8, LocalsStep
  <2> QED
    BY <1>3, <2>9 DEF QueryGroup, TypeOK, db
<1>4. CASE FinishDedupe(p)
  BY <1>1, <1>4, ReplyType DEF FinishDedupe
<1>5. CASE BeginGroup(p)
  <2>1. "ids" \in Label /\ "ids" \in Labels(Op(p)) /\ "ids" \notin NeedsBeer
    BY <1>1 DEF Label, Labels, NeedsBeer, Op
  <2>2. RequestsTyped'
    BY <1>1, <1>5, <2>1, GotoType DEF BeginGroup
  <2> QED
    BY <1>5, <2>2 DEF BeginGroup, TypeOK, db
<1> QED
  BY <1>2, <1>3, <1>4, <1>5 DEF Dedupe

LEMMA MergeChecksType ==
  ASSUME TypeOK, NEW p \in Request, CheckKeep(p) \/ CheckMerged(p)
  PROVE  TypeOK'
<1>1. ~At(p, "idle") /\ Proper(req[p]) /\ Op(p) \in {"Merge", "DedupeExact"}
      /\ req[p].beer \in Id
  BY Typed, OpAt DEF CheckKeep, CheckMerged, At, Proper
<1>2. /\ "count" \in Labels(Op(p)) /\ "count" \in Label
      /\ "fill" \in Labels(Op(p)) /\ "fill" \in Label
  BY <1>1 DEF Labels, Label
<1>3. MissingCode(p) \in Nat
  BY DEF MissingCode
<1>4. \/ Abort(p, MissingCode(p))
      \/ Goto(p, "count") /\ UNCHANGED <<db, clock, wb, wr>>
      \/ Goto(p, "fill") /\ UNCHANGED <<db, clock, wb, wr>>
  BY DEF CheckKeep, CheckMerged
<1> QED
  BY <1>1, <1>2, <1>3, <1>4, AbortType, OnlyGotoType

\* Blank columns are filled with columns.
LEMMA FilledType ==
  ASSUME NEW keep \in Beer, NEW src \in Beer
  PROVE  Filled(keep, src) \in Beer
  BY DEF Filled, Beer

LEMMA FillType ==
  ASSUME TypeOK, NEW p \in Request, ReadSource(p) \/ FillSurvivor(p)
  PROVE  TypeOK'
<1>1. /\ ~At(p, "idle") /\ req[p] \in Locals /\ Proper(req[p]) /\ req[p].beer \in Id
      /\ req[p].call.op \in {"Merge", "DedupeExact"}
  BY Typed, OpAt DEF ReadSource, FillSurvivor, At, Proper, Op
<1>2. CASE ReadSource(p)
  <2> DEFINE src == SeenBeers(p)[req[p].ids[req[p].filled + 1]]
             l == [req[p] EXCEPT !.pc = "filling", !.src = src]
  <2>1. req[p].ids \in Seq(Id) /\ req[p].filled \in Nat /\ req[p].filled < Len(req[p].ids)
    BY <1>1, <1>2 DEF ReadSource, Locals
  <2>2. req[p].ids[req[p].filled + 1] \in Id
    BY <2>1
  <2>3. src \in Beer \cup {None}
    BY <2>2, Typed
  <2> HIDE DEF src
  <2>4. l \in Locals /\ Proper(l)
    BY <1>1, <2>3 DEF Locals, Proper, Label, Labels
  <2>5. req' = [req EXCEPT ![p] = l]
    BY <1>2 DEF ReadSource, src
  <2> HIDE DEF l
  <2> QED
    BY <1>2, <2>4, <2>5, LocalsStep DEF ReadSource, TypeOK, db
<1>3. CASE FillSurvivor(p)
  <2> DEFINE b == req[p].beer
             row == SeenBeers(p)[b]
             new == Filled(row, req[p].src)
             n == req[p].filled + 1
             l == [req[p] EXCEPT !.pc = "fill", !.filled = n, !.src = None]
  <2>1. row \in Beer \cup {None} /\ req[p].src \in Beer \cup {None} /\ req[p].filled \in Nat
    BY <1>1, Typed DEF Locals
  <2>2. wb' = wb \/ (req[p].src # None /\ row # None /\ wb' = [wb EXCEPT ![p][b] = new])
    BY <1>3 DEF FillSurvivor
  <2>3. wb' \in [Request -> [Id -> Beer \cup {None, Same}]]
    <3>1. CASE wb' = wb
      BY <3>1 DEF TypeOK
    <3>2. CASE req[p].src # None /\ row # None /\ wb' = [wb EXCEPT ![p][b] = new]
      <4>1. new \in Beer
        BY <2>1, <3>2, FilledType
      <4> HIDE DEF row, b, new
      <4> QED
        BY <3>2, <4>1 DEF TypeOK
    <3> QED
      BY <2>2, <3>1, <3>2
  <2>4. l \in Locals /\ Proper(l)
    <3>1. n \in Nat
      BY <2>1
    <3> HIDE DEF n
    <3> QED
      BY <1>1, <3>1 DEF Locals, Proper, Label, Labels
  <2>5. req' = [req EXCEPT ![p] = l]
    BY <1>3 DEF FillSurvivor
  <2> HIDE DEF l
  <2> QED
    BY <1>3, <2>3, <2>4, <2>5, LocalsStep DEF FillSurvivor, TypeOK, db
<1> QED
  BY <1>2, <1>3

LEMMA ReassignType ==
  ASSUME TypeOK, NEW p \in Request, TargetReviews(p) \/ ReassignReviews(p)
  PROVE  TypeOK'
<1>1. /\ ~At(p, "idle") /\ req[p] \in Locals /\ Proper(req[p]) /\ req[p].beer \in Id
      /\ req[p].call.op \in {"Merge", "DedupeExact"}
  BY Typed, OpAt DEF TargetReviews, ReassignReviews, At, Proper, Op
<1>2. CASE TargetReviews(p)
  <2> DEFINE targets == {r \in Id : /\ SeenReviews(p)[r] # None
                                    /\ SeenReviews(p)[r].beer \in Ids(p)}
             l == [req[p] EXCEPT !.pc = "reassign", !.targets = targets]
  <2>1. targets \in SUBSET Id
    OBVIOUS
  <2> HIDE DEF targets
  <2>2. l \in Locals /\ Proper(l)
    BY <1>1, <2>1 DEF Locals, Proper, Label, Labels
  <2>3. req' = [req EXCEPT ![p] = l]
    BY <1>2 DEF TargetReviews, targets
  <2> HIDE DEF l
  <2> QED
    BY <1>2, <2>2, <2>3, LocalsStep DEF TargetReviews, TypeOK, db
<1>3. CASE ReassignReviews(p)
  <2> DEFINE New(r) == [SeenReviews(p)[r] EXCEPT !.beer = req[p].beer]
  <2>1. CASE Abort(p, 500)
    BY <1>1, <2>1, AbortType
  <2>2. CASE /\ wr' = [wr EXCEPT ![p] = Write(@, Moved(p), New)]
             /\ req' = [req EXCEPT ![p].pc = "delete", ![p].targets = Moved(p)]
             /\ UNCHANGED <<db, clock, wb>>
    <3>1. \A r \in Moved(p) \cap Id : New(r) \in Review
      <4>1. \A r \in Moved(p) \cap Id : SeenReviews(p)[r] \in Review
        BY Typed DEF Moved
      <4> QED
        BY <1>1, <4>1 DEF Review
    <3>2. wr[p] \in [Id -> Review \cup {None, Same}]
      BY DEF TypeOK
    <3> DEFINE w == Write(wr[p], Moved(p), New)
    <3>3. w \in [Id -> Review \cup {None, Same}]
      BY <3>1, <3>2 DEF Write
    <3>4. wr' = [wr EXCEPT ![p] = w]
      BY <2>2
    <3> HIDE DEF w
    <3>5. wr' \in [Request -> [Id -> Review \cup {None, Same}]]
      BY <3>3, <3>4 DEF TypeOK
    <3> DEFINE l == [req[p] EXCEPT !.pc = "delete", !.targets = Moved(p)]
    <3>6. l \in Locals /\ Proper(l) /\ req' = [req EXCEPT ![p] = l]
      <4>1. Moved(p) \in SUBSET Id
        BY <1>1 DEF Moved, Locals
      <4> QED
        BY <1>1, <2>2, <4>1 DEF Locals, Proper, Label, Labels
    <3> HIDE DEF l
    <3>7. RequestsTyped'
      BY <3>6, LocalsStep
    <3> QED
      BY <2>2, <3>5, <3>7 DEF TypeOK, db
  <2> QED
    BY <1>3, <2>1, <2>2 DEF ReassignReviews
<1> QED
  BY <1>2, <1>3

LEMMA DeleteType ==
  ASSUME TypeOK, NEW p \in Request, DeleteBeers(p) \/ CascadeReviews(p)
  PROVE  TypeOK'
<1>1. /\ ~At(p, "idle") /\ req[p].beer \in Id /\ Op(p) \in {"Merge", "DedupeExact"}
  BY Typed, OpAt DEF DeleteBeers, CascadeReviews, At, Proper
<1>2. /\ "cascade" \in Labels(Op(p)) /\ "cascade" \in Label
      /\ "commit" \in Labels(Op(p)) /\ "commit" \in Label
  BY <1>1 DEF Labels, Label
<1> DEFINE New(i) == None
<1>3. CASE DeleteBeers(p)
  <2> DEFINE w == Write(wb[p], {i \in Ids(p) : SeenBeers(p)[i] # None}, New)
  <2>1. w \in [Id -> Beer \cup {None, Same}]
    BY DEF TypeOK, Write
  <2>2. wb' = [wb EXCEPT ![p] = w]
    BY <1>3 DEF DeleteBeers
  <2> HIDE DEF w
  <2>3. RequestsTyped'
    BY <1>1, <1>2, <1>3, GotoType DEF DeleteBeers
  <2> QED
    BY <1>3, <2>1, <2>2, <2>3 DEF DeleteBeers, TypeOK, db
<1>4. CASE CascadeReviews(p)
  <2> DEFINE w == Write(wr[p], Cascaded(p), New)
  <2>1. w \in [Id -> Review \cup {None, Same}]
    BY DEF TypeOK, Write
  <2>2. wr' = [wr EXCEPT ![p] = w]
    BY <1>4 DEF CascadeReviews
  <2> HIDE DEF w
  <2>3. RequestsTyped'
    BY <1>1, <1>2, <1>4, GotoType DEF CascadeReviews
  <2> QED
    BY <1>4, <2>1, <2>2, <2>3 DEF CascadeReviews, TypeOK, db
<1> QED
  BY <1>3, <1>4

LEMMA FinishType ==
  ASSUME TypeOK, NEW p \in Request, Finish(p)
  PROVE  TypeOK'
<1>1. ~At(p, "idle") /\ req[p] \in Locals /\ Proper(req[p])
  BY Typed DEF Finish, Commit, RereadReview, ReloadBeer, At
<1>2. CASE Commit(p)
  <2>1. /\ AfterCommit(p) \in Labels(Op(p)) /\ AfterCommit(p) \in Label
        /\ AfterCommit(p) \notin NeedsBeer
    BY <1>2, OpAt DEF Commit, AfterCommit, Labels, Label, NeedsBeer
  <2>2. RequestsTyped'
    BY <1>1, <1>2, <2>1, GotoType DEF Commit
  <2>3. /\ beers' \in [Id -> Beer \cup {None}]
        /\ reviews' \in [Id -> Review \cup {None}]
    BY <1>2, Typed DEF Commit
  <2>4. /\ wb' \in [Request -> [Id -> Beer \cup {None, Same}]]
        /\ wr' \in [Request -> [Id -> Review \cup {None, Same}]]
    BY <1>2, NoWritesType DEF Commit, TypeOK
  <2> QED
    BY <1>2, <2>2, <2>3, <2>4 DEF Commit, TypeOK
<1>3. CASE RereadReview(p)
  <2> DEFINE row == reviews[req[p].call.review]
             l == [req[p] EXCEPT !.pc = "reload", !.beer = row.beer]
  <2>1. req[p].call.op = "ReviewUpdate" /\ req[p].call \in ReviewUpdateCall
    BY <1>1, <1>3, OpAt, CallTypes DEF RereadReview, Op, Proper
  <2>2. row # None => row.beer \in Id
    BY <2>1 DEF TypeOK, ReviewUpdateCall, Review
  <2>3. CASE Reply(p, 500)
    BY <1>1, <2>3, ReplyType
  <2>4. CASE /\ row # None
             /\ req' = [req EXCEPT ![p].pc = "reload", ![p].beer = row.beer]
             /\ UNCHANGED <<db, clock, wb, wr>>
    <3>1. l \in Locals /\ Proper(l)
      <4> HIDE DEF row
      <4> QED
        BY <1>1, <2>1, <2>2, <2>4 DEF Locals, Proper, Label, Labels
    <3>2. req' = [req EXCEPT ![p] = l]
      BY <2>4
    <3> HIDE DEF l
    <3> QED
      BY <2>4, <3>1, <3>2, LocalsStep DEF TypeOK, db
  <2> QED
    BY <1>3, <2>3, <2>4 DEF RereadReview
<1>4. CASE ReloadBeer(p)
  BY <1>1, <1>4, ReplyType DEF ReloadBeer
<1> QED
  BY <1>2, <1>3, <1>4 DEF Finish

-----------------------------------------------------------------------------
LEMMA NextTypeOK == TypeOK /\ [Next]_vars => TypeOK'
<1> SUFFICES ASSUME TypeOK, [Next]_vars PROVE TypeOK'
  OBVIOUS
<1>1. ASSUME NEW p \in Request, Receive(p) PROVE TypeOK'
  BY <1>1, ReceiveType
<1>2. ASSUME NEW p \in Request, FindOrCreate(p) PROVE TypeOK'
  BY <1>2, FindOrCreateType
<1>3. ASSUME NEW p \in Request, ReviewEdit(p) PROVE TypeOK'
  BY <1>3, InsertReviewType, ReviewEditType DEF ReviewEdit
<1>4. ASSUME NEW p \in Request, PatchBeer(p) PROVE TypeOK'
  BY <1>4, PatchBeerType
<1>5. ASSUME NEW p \in Request, Dedupe(p) PROVE TypeOK'
  BY <1>5, DedupeType
<1>6. ASSUME NEW p \in Request, MergeBeersTx(p) PROVE TypeOK'
  BY <1>6, MergeChecksType, FillType, ReassignType, DeleteType DEF MergeBeersTx
<1>7. ASSUME NEW p \in Request, Finish(p) PROVE TypeOK'
  BY <1>7, FinishType
<1>0. \A p \in Request : FailureCode(p) \in Nat
  BY DEF FailureCode
<1>8. ASSUME NEW p \in Request, Cancel(p) PROVE TypeOK'
  BY <1>0, <1>8, AbortType, ReplyType DEF Cancel, KeysFail, GroupFails, MergeFails
<1>9. ASSUME NEW p \in Request, DeadlockVictim(p) PROVE TypeOK'
  <2>1. ~At(p, "idle")
    BY <1>9 DEF DeadlockVictim, Conflicts, At
  <2> QED
    BY <1>0, <1>9, <2>1, AbortType DEF DeadlockVictim
<1>10. CASE UNCHANGED vars
  BY <1>10 DEF vars, db, TypeOK, RequestsTyped
<1> QED
  BY <1>1, <1>2, <1>3, <1>4, <1>5, <1>6, <1>7, <1>8, <1>9, <1>10 DEF Next, Step

\* Rows, locals and pending writes have their types in every reachable state, and a request
\* only ever runs statements of its own handler.
THEOREM TypeCorrect == Spec => []TypeOK
  BY InitTypeOK, NextTypeOK, PTL DEF Spec
=============================================================================
