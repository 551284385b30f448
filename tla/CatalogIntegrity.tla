-------------------------- MODULE CatalogIntegrity --------------------------
(***************************************************************************)
(* No interleaving of creates, edits, deletes and merges leaves a committed *)
(* pour without its beer.  The foreign key alone is not inductive: what a   *)
(* commit publishes depends on the writes the other transactions hold, so   *)
(* the invariant below also says who may hold which writes (LockDiscipline). *)
(***************************************************************************)
EXTENDS CatalogProofs

Inv == TypeOK /\ LockDiscipline /\ ReviewsHaveBeers

\* The sentinels differ from each other and from every row.
LEMMA Sentinels == None # Same /\ None \notin Beer /\ None \notin Review
                   /\ Same \notin Beer /\ Same \notin Review
  BY CatalogAssumption DEF CatalogAssumption

LEMMA NoWritesIsSame == \A i \in Id : NoWrites[i] = Same
  BY DEF NoWrites

\* One row of a view.
LEMMA ViewRow ==
  ASSUME NEW rows, NEW writes, NEW i \in DOMAIN rows
  PROVE  View(rows, writes)[i] = IF writes[i] = Same THEN rows[i] ELSE writes[i]
  BY DEF View

LEMMA SeenRows ==
  ASSUME TypeOK, NEW p \in Request, NEW i \in Id
  PROVE  /\ SeenBeers(p)[i] = IF wb[p][i] = Same THEN beers[i] ELSE wb[p][i]
         /\ SeenReviews(p)[i] = IF wr[p][i] = Same THEN reviews[i] ELSE wr[p][i]
<1>1. i \in DOMAIN beers /\ i \in DOMAIN reviews
  BY DEF TypeOK
<1> QED
  BY <1>1, ViewRow DEF SeenBeers, SeenReviews

-----------------------------------------------------------------------------
LEMMA InitInv == Init => Inv
<1> SUFFICES ASSUME Init PROVE Inv
  OBVIOUS
<1>1. TypeOK
  BY InitTypeOK
<1>2. PICK seed \in Seeds : beers = seed.beers /\ reviews = seed.reviews /\ clock = seed.top
  BY DEF Init
<1>3. LegalSeed(seed)
  BY CatalogAssumption DEF CatalogAssumption
<1>4. \A p \in Request : req[p].pc = "idle" /\ wb[p] = NoWrites /\ wr[p] = NoWrites
  BY DEF Init, Idle
<1>5. \A p \in Request, i \in Id : wb[p][i] = Same /\ wr[p][i] = Same
  BY <1>4, NoWritesIsSame
<1>6. ASSUME NEW p \in Request
      PROVE  PendingWhere(p) /\ WritesToRows(p) /\ SharedBeersStay(p) /\ CascadeComplete(p)
  BY <1>4, <1>5, Sentinels
     DEF PendingWhere, WritesToRows, SharedBeersStay, CascadeComplete, SharesBeer, IsRow, At
<1>7. OneWriter
  BY <1>5 DEF OneWriter
<1>8. FreshIds
  BY <1>2, <1>3, <1>4 DEF FreshIds, LegalSeed, Creating, At
<1>9. ReviewsHaveBeers
  BY <1>2, <1>3 DEF LegalSeed, ReviewsHaveBeers
<1> QED
  BY <1>1, <1>6, <1>7, <1>8, <1>9 DEF Inv, LockDiscipline

-----------------------------------------------------------------------------
(* Steps that commit nothing.  The other requests' writes stay, so it is enough to look at  *)
(* what the request that moves now holds.                                                   *)

LEMMA WriterStep ==
  ASSUME Inv, TypeOK', NEW p \in Request, UNCHANGED <<db, clock>>,
         \A q \in Request \ {p} : req'[q] = req[q] /\ wb'[q] = wb[q] /\ wr'[q] = wr[q],
         ~At(p, "idle"), req'[p].pc # "idle",
         req'[p].call = req[p].call, req'[p].id = req[p].id,
         At(p, "reload") \/ At(p, "done") => req'[p].pc \in {"reload", "done"},
         PendingWhere(p)', WritesToRows(p)', SharedBeersStay(p)', CascadeComplete(p)',
         \A q \in Request \ {p}, i \in Id :
           /\ wb'[p][i] # Same => wb[q][i] = Same
           /\ wr'[p][i] # Same => wr[q][i] = Same
           /\ SharesBeer(q, i) => wb'[p][i] # None
  PROVE  Inv'
<1>1. beers' = beers /\ reviews' = reviews /\ clock' = clock
  BY DEF db
<1>2. ASSUME NEW q \in Request \ {p}
      PROVE  (PendingWhere(q) /\ WritesToRows(q) /\ SharedBeersStay(q) /\ CascadeComplete(q))'
  <2>1. PendingWhere(q) /\ WritesToRows(q) /\ SharedBeersStay(q) /\ CascadeComplete(q)
    BY DEF Inv, LockDiscipline
  <2>2. req'[q] = req[q] /\ wb'[q] = wb[q] /\ wr'[q] = wr[q]
    OBVIOUS
  <2>3. PendingWhere(q)'
    BY <2>1, <2>2 DEF PendingWhere
  <2>4. WritesToRows(q)'
    BY <1>1, <2>1, <2>2 DEF WritesToRows, Creating, Merging, At, Op
  <2>5. \A i \in Id : SharesBeer(q, i)' = SharesBeer(q, i)
    BY <1>1, <2>2 DEF SharesBeer
  <2>6. SharedBeersStay(q)'
    BY <1>1, <2>1, <2>2, <2>5 DEF SharedBeersStay
  <2>7. CascadeComplete(q)'
    BY <1>1, <2>1, <2>2 DEF CascadeComplete, SeenReviews, At
  <2> QED
    BY <2>3, <2>4, <2>6, <2>7
<1>3. OneWriter'
  <2>1. OneWriter
    BY DEF Inv, LockDiscipline
  <2> QED
    BY <2>1 DEF OneWriter
<1>4. FreshIds'
  <2>1. FreshIds
    BY DEF Inv, LockDiscipline
  <2>2. \A q \in Request : /\ Creating(q)' = Creating(q)
                           /\ req'[q].id = req[q].id
                           /\ At(q, "reload") \/ At(q, "done") =>
                                At(q, "reload")' \/ At(q, "done")'
    BY DEF Creating, At
  <2> QED
    BY <1>1, <2>1, <2>2 DEF FreshIds
<1>5. ReviewsHaveBeers'
  BY <1>1 DEF Inv, ReviewsHaveBeers
<1> QED
  BY <1>2, <1>3, <1>4, <1>5 DEF Inv, LockDiscipline

\* The labels at which a transaction may have written to beers, and to reviews.
WritingBeers == {"insertReview", "fill", "filling", "reassign", "delete", "cascade", "commit"}
WritingReviews == {"delete", "cascade", "commit"}

\* A statement that only reads, or a reply from outside a transaction.
LEMMA QuietStep ==
  ASSUME Inv, TypeOK', NEW p \in Request, NEW l, req' = [req EXCEPT ![p] = l],
         UNCHANGED <<db, clock, wb, wr>>,
         ~At(p, "idle"), l.pc # "idle", l.call = req[p].call, l.id = req[p].id,
         At(p, "reload") \/ At(p, "done") => l.pc \in {"reload", "done"},
         l.pc \notin WritingBeers => wb[p] = NoWrites,
         l.pc \notin WritingReviews => wr[p] = NoWrites,
         l.pc = "commit" => wb[p] = NoWrites
  PROVE  Inv'
<1>1. /\ req'[p] = l /\ wb'[p] = wb[p] /\ wr'[p] = wr[p] /\ beers' = beers /\ reviews' = reviews
      /\ \A q \in Request \ {p} : req'[q] = req[q] /\ wb'[q] = wb[q] /\ wr'[q] = wr[q]
  BY DEF Inv, TypeOK, RequestsTyped, db
<1>2. WritesToRows(p) /\ SharedBeersStay(p) /\ OneWriter
  BY DEF Inv, LockDiscipline
<1>3. PendingWhere(p)'
  BY <1>1 DEF PendingWhere, WritingBeers, WritingReviews
<1>4. WritesToRows(p)'
  BY <1>1, <1>2 DEF WritesToRows, Creating, Merging, At, Op
<1>5. \A q \in Request, i \in Id : SharesBeer(q, i)' = SharesBeer(q, i)
  BY <1>1 DEF SharesBeer
<1>6. SharedBeersStay(p)'
  BY <1>1, <1>2, <1>5 DEF SharedBeersStay
<1>7. CascadeComplete(p)'
  <2>1. SUFFICES ASSUME l.pc = "commit", NEW r \in Id, SeenReviews(p)'[r] # None
                 PROVE  wb'[p][SeenReviews(p)'[r].beer] # None
    BY <1>1 DEF CascadeComplete, At
  <2>2. SeenReviews(p)' = SeenReviews(p)
    BY <1>1 DEF SeenReviews
  <2>3. SeenReviews(p)[r] \in Review
    BY <2>1, <2>2, Typed DEF Inv
  <2>4. SeenReviews(p)[r].beer \in Id
    BY <2>3 DEF Review
  <2> QED
    BY <1>1, <2>1, <2>2, <2>4, NoWritesIsSame, Sentinels
<1>8. \A q \in Request \ {p}, i \in Id :
        /\ wb'[p][i] # Same => wb[q][i] = Same
        /\ wr'[p][i] # Same => wr[q][i] = Same
        /\ SharesBeer(q, i) => wb'[p][i] # None
  <2>1. \A q \in Request : SharedBeersStay(q)
    BY DEF Inv, LockDiscipline
  <2> QED
    BY <1>1, <1>2, <2>1 DEF OneWriter, SharedBeersStay
<1> QED
  BY <1>1, <1>3, <1>4, <1>6, <1>7, <1>8, WriterStep

\* A rollback.
LEMMA AbortStep ==
  ASSUME Inv, TypeOK', NEW p \in Request, ~At(p, "idle"), NEW code, Abort(p, code)
  PROVE  Inv'
<1>1. req[p] \in Locals
  BY Typed DEF Inv
<1>2. /\ req'[p].pc = "done" /\ req'[p].call = req[p].call /\ req'[p].id = req[p].id
      /\ wb'[p] = NoWrites /\ wr'[p] = NoWrites
      /\ \A q \in Request \ {p} : req'[q] = req[q] /\ wb'[q] = wb[q] /\ wr'[q] = wr[q]
  BY <1>1 DEF Abort, Inv, TypeOK, RequestsTyped, Locals
<1>3. \A i \in Id : wb'[p][i] = Same /\ wr'[p][i] = Same
  BY <1>2, NoWritesIsSame
<1>4. PendingWhere(p)'
  BY <1>2 DEF PendingWhere
<1>5. WritesToRows(p)'
  BY <1>3, Sentinels DEF WritesToRows
<1>6. SharedBeersStay(p)'
  BY <1>3 DEF SharedBeersStay, SharesBeer, IsRow
<1>7. CascadeComplete(p)'
  BY <1>2 DEF CascadeComplete, At
<1> QED
  BY <1>2, <1>3, <1>4, <1>5, <1>6, <1>7, Sentinels, WriterStep DEF Abort

\* An answer from outside a transaction.
LEMMA ReplyStep ==
  ASSUME Inv, TypeOK', NEW p \in Request, ~At(p, "idle"), NEW code, Reply(p, code),
         wb[p] = NoWrites, wr[p] = NoWrites
  PROVE  Inv'
<1> DEFINE l == [req[p] EXCEPT !.pc = "done", !.status = code]
<1>1. req[p] \in Locals
  BY Typed DEF Inv
<1>2. /\ req' = [req EXCEPT ![p] = l]
      /\ l.pc = "done" /\ l.call = req[p].call /\ l.id = req[p].id
  BY <1>1 DEF Reply, Locals
<1> HIDE DEF l
<1> QED
  BY <1>2, QuietStep DEF Reply

-----------------------------------------------------------------------------
(* findOrCreateBeer and the edits of pours. *)

LEMMA FindOrCreateKeeps ==
  ASSUME Inv, TypeOK', NEW p \in Request, FindOrCreate(p)
  PROVE  Inv'
<1>1. ~At(p, "idle") /\ req[p] \in Locals /\ Proper(req[p])
      /\ Op(p) \in {"BeerCreate", "ReviewCreate"} /\ Creating(p) /\ ~Merging(p)
      /\ (At(p, "lookup") \/ At(p, "insertBeer"))
  BY Typed, OpAt DEF Inv, FindOrCreate, LookupBeer, InsertBeer, At, Creating, Creates, Merging, Op
<1>2. wb[p] = NoWrites /\ wr[p] = NoWrites
  BY <1>1 DEF Inv, LockDiscipline, PendingWhere, At
<1>3. AfterBeer(p) \in {"commit", "insertReview"}
  BY DEF AfterBeer
<1>4. CASE LookupBeer(p)
  <2>1. /\ UNCHANGED <<db, clock, wb, wr>>
        /\ \/ \E i \in Id : req' = [req EXCEPT ![p].pc = AfterBeer(p), ![p].beer = i]
           \/ Goto(p, "insertBeer")
    BY <1>4 DEF LookupBeer
  <2>2. CASE Goto(p, "insertBeer")
    <3> DEFINE l == [req[p] EXCEPT !.pc = "insertBeer"]
    <3>1. /\ req' = [req EXCEPT ![p] = l]
          /\ l.pc = "insertBeer" /\ l.call = req[p].call /\ l.id = req[p].id
      BY <1>1, <2>2 DEF Goto, Locals
    <3> HIDE DEF l
    <3> QED
      BY <1>1, <1>2, <2>1, <3>1, QuietStep DEF At, WritingBeers, WritingReviews
  <2>3. ASSUME NEW i \in Id, req' = [req EXCEPT ![p].pc = AfterBeer(p), ![p].beer = i]
        PROVE  Inv'
    <3> DEFINE l == [req[p] EXCEPT !.pc = AfterBeer(p), !.beer = i]
    <3>1. /\ req' = [req EXCEPT ![p] = l]
          /\ l.pc = AfterBeer(p) /\ l.call = req[p].call /\ l.id = req[p].id
      BY <1>1, <2>3 DEF Locals
    <3> HIDE DEF l
    <3> QED
      BY <1>1, <1>2, <1>3, <2>1, <3>1, QuietStep DEF At, WritingBeers, WritingReviews
  <2> QED
    BY <2>1, <2>2, <2>3
<1>5. CASE InsertBeer(p)
  <2> DEFINE b == req[p].id
  <2>1. b \in Id /\ req[p].call.beer \in Beer
    BY <1>1, CallTypes DEF Proper, Creating, Op, BeerCreateCall, ReviewCreateCall
  <2>2. /\ \A i \in Id : wb'[p][i] = (IF i = b THEN req[p].call.beer ELSE Same)
        /\ wr'[p] = NoWrites
        /\ req'[p].pc = AfterBeer(p) /\ req'[p].call = req[p].call /\ req'[p].id = req[p].id
        /\ \A q \in Request \ {p} : req'[q] = req[q] /\ wb'[q] = wb[q] /\ wr'[q] = wr[q]
    BY <1>1, <1>2, <1>5, <2>1, NoWritesIsSame DEF InsertBeer, Inv, TypeOK, RequestsTyped, Locals
  <2>3. \A i \in Id : wr'[p][i] = Same
    BY <2>2, NoWritesIsSame
  <2>4. beers[b] = None
    BY <1>1 DEF Inv, LockDiscipline, FreshIds, At
  <2>5. PendingWhere(p)'
    BY <1>3, <2>2 DEF PendingWhere
  <2>6. WritesToRows(p)'
    <3>1. Creating(p)' /\ ~Merging(p)'
      BY <1>1, <1>3, <2>2 DEF Creating, Merging, At, Op
    <3> QED
      BY <2>1, <2>2, <2>3, <3>1, Sentinels DEF WritesToRows
  <2>7. SharedBeersStay(p)'
    BY <2>3 DEF SharedBeersStay, SharesBeer, IsRow
  <2>8. CascadeComplete(p)'
    <3>1. \A i \in Id : wb'[p][i] # None
      BY <2>1, <2>2, Sentinels
    <3>2. \A r \in Id : SeenReviews(p)'[r] # None => SeenReviews(p)'[r].beer \in Id
      <4>1. SeenReviews(p)' = reviews
        BY <1>5, <2>2, ViewNoWrites DEF SeenReviews, InsertBeer, db, Inv, TypeOK
      <4> QED
        BY <4>1 DEF Inv, TypeOK, Review
    <3> QED
      BY <3>1, <3>2 DEF CascadeComplete
  <2>9. ASSUME NEW q \in Request \ {p} PROVE wb[q][b] = Same
    <3>1. CASE Creating(q)
      BY <1>1, <2>1, <3>1 DEF Inv, LockDiscipline, WritesToRows, FreshIds
    <3>2. CASE ~Creating(q)
      BY <2>1, <2>4, <3>2 DEF Inv, LockDiscipline, WritesToRows
    <3> QED
      BY <3>1, <3>2
  <2>10. \A q \in Request \ {p}, i \in Id :
           /\ wb'[p][i] # Same => wb[q][i] = Same
           /\ wr'[p][i] # Same => wr[q][i] = Same
           /\ SharesBeer(q, i) => wb'[p][i] # None
    <3> HIDE DEF b
    <3> QED
      BY <2>1, <2>2, <2>3, <2>9, Sentinels
  <2>11. ~At(p, "reload") /\ ~At(p, "done") /\ req'[p].pc # "idle"
    BY <1>1, <1>3, <2>2 DEF At
  <2> HIDE DEF b
  <2> QED
    BY <1>1, <1>5, <2>2, <2>5, <2>6, <2>7, <2>8, <2>10, <2>11, WriterStep DEF InsertBeer
<1> QED
  BY <1>4, <1>5 DEF FindOrCreate

LEMMA InsertReviewKeeps ==
  ASSUME Inv, TypeOK', NEW p \in Request, InsertReview(p)
  PROVE  Inv'
<1>1. ~At(p, "idle") /\ ~At(p, "reload") /\ ~At(p, "done") /\ req[p] \in Locals
      /\ Op(p) = "ReviewCreate" /\ Creating(p) /\ ~Merging(p) /\ Proper(req[p])
  BY Typed, OpAt DEF Inv, InsertReview, At, Creating, Creates, Merging, Op
<1>2. CASE Abort(p, 500)
  BY <1>1, <1>2, AbortStep
<1>3. CASE /\ SeenBeers(p)[req[p].beer] # None
           /\ wr' = [wr EXCEPT ![p][req[p].id] =
                       [user |-> req[p].call.user, beer |-> req[p].beer,
                        rated |-> req[p].call.rated]]
           /\ Goto(p, "commit")
           /\ UNCHANGED <<db, clock, wb>>
  <2> DEFINE n == req[p].id
             b == req[p].beer
             new == [user |-> req[p].call.user, beer |-> b, rated |-> req[p].call.rated]
  <2>1. n \in Id /\ b \in Id /\ new \in Review /\ new.beer = b
    BY <1>1, CallTypes DEF Proper, Creating, Op, ReviewCreateCall, Review, InsertReview, At
  <2>2. wr[p] = NoWrites
    BY DEF Inv, LockDiscipline, PendingWhere, InsertReview, At
  <2>3. /\ \A r \in Id : wr'[p][r] = (IF r = n THEN new ELSE Same)
        /\ wb'[p] = wb[p]
        /\ req'[p].pc = "commit" /\ req'[p].call = req[p].call /\ req'[p].id = req[p].id
        /\ \A q \in Request \ {p} : req'[q] = req[q] /\ wb'[q] = wb[q] /\ wr'[q] = wr[q]
    BY <1>1, <1>3, <2>1, <2>2, NoWritesIsSame
       DEF Goto, Inv, TypeOK, RequestsTyped, Locals
  <2>4. beers' = beers /\ reviews' = reviews /\ reviews[n] = None
    BY <1>1, <1>3 DEF db, Inv, LockDiscipline, FreshIds, At
  <2> HIDE DEF new, n, b
  <2>5. PendingWhere(p)'
    BY <2>3 DEF PendingWhere
  <2>6. WritesToRows(p)'
    <3>1. Creating(p)' /\ ~Merging(p)'
      BY <1>1, <2>3 DEF Creating, Merging, At, Op
    <3> QED
      BY <1>1, <2>1, <2>3, <3>1, Sentinels DEF WritesToRows, Inv, LockDiscipline, n
  <2>7. \A i \in Id : wb'[p][i] # None
    BY <1>1, <2>3 DEF Inv, LockDiscipline, WritesToRows
  <2>8. \A q \in Request \ {p} : wb[q][b] # None
    BY DEF InsertReview, Free, Conflicts, b
  <2>9. SharedBeersStay(p)'
    <3>1. SUFFICES ASSUME NEW i \in Id, SharesBeer(p, i)'
                   PROVE  /\ beers[i] # None \/ IsRow(wb[p][i])
                          /\ \A q \in Request \ {p} : wb[q][i] # None
      BY <2>3, <2>4 DEF SharedBeersStay
    <3>2. i = b
      BY <2>1, <2>3, <3>1 DEF SharesBeer, IsRow
    <3>3. beers[b] # None \/ IsRow(wb[p][b])
      BY <1>3, <2>1, SeenRows DEF IsRow, b, Inv
    <3> QED
      BY <2>8, <3>2, <3>3
  <2>10. CascadeComplete(p)'
    <3>1. \A r \in Id : SeenReviews(p)'[r] # None => SeenReviews(p)'[r].beer \in Id
      <4>1. \A r \in Id : SeenReviews(p)'[r] = IF wr'[p][r] = Same THEN reviews[r] ELSE wr'[p][r]
        BY <2>4, ViewRow DEF SeenReviews, Inv, TypeOK
      <4> QED
        BY <2>1, <2>3, <4>1, Sentinels DEF Inv, TypeOK, Review
    <3> QED
      BY <2>7, <3>1 DEF CascadeComplete
  <2>11. ASSUME NEW q \in Request \ {p} PROVE wr[q][n] = Same
    <3>1. CASE Creating(q)
      BY <1>1, <2>1, <3>1 DEF Inv, LockDiscipline, WritesToRows, FreshIds, n
    <3>2. CASE ~Creating(q)
      BY <2>1, <2>4, <3>2 DEF Inv, LockDiscipline, WritesToRows
    <3> QED
      BY <3>1, <3>2
  <2>12. \A q \in Request \ {p}, i \in Id :
           /\ wb'[p][i] # Same => wb[q][i] = Same
           /\ wr'[p][i] # Same => wr[q][i] = Same
           /\ SharesBeer(q, i) => wb'[p][i] # None
    BY <2>1, <2>3, <2>7, <2>11 DEF Inv, LockDiscipline, OneWriter
  <2> QED
    BY <1>1, <1>3, <2>3, <2>5, <2>6, <2>9, <2>10, <2>12, WriterStep
<1> QED
  BY <1>2, <1>3 DEF InsertReview

LEMMA CheckOwnerKeeps ==
  ASSUME Inv, TypeOK', NEW p \in Request, CheckOwner(p)
  PROVE  Inv'
<1>1. ~At(p, "idle") /\ ~At(p, "reload") /\ ~At(p, "done") /\ req[p] \in Locals
      /\ wb[p] = NoWrites /\ wr[p] = NoWrites
  BY Typed DEF Inv, CheckOwner, At, LockDiscipline, PendingWhere
<1>2. CASE Abort(p, 404)
  BY <1>1, <1>2, AbortStep
<1>3. CASE Goto(p, "update") /\ UNCHANGED <<db, clock, wb, wr>>
  <2> DEFINE l == [req[p] EXCEPT !.pc = "update"]
  <2>1. /\ req' = [req EXCEPT ![p] = l]
        /\ l.pc = "update" /\ l.call = req[p].call /\ l.id = req[p].id
    BY <1>1, <1>3 DEF Goto, Locals
  <2> HIDE DEF l
  <2> QED
    BY <1>1, <1>3, <2>1, QuietStep
<1> QED
  BY <1>2, <1>3 DEF CheckOwner

LEMMA UpdateReviewKeeps ==
  ASSUME Inv, TypeOK', NEW p \in Request, UpdateReview(p)
  PROVE  Inv'
<1> DEFINE r == req[p].call.review
           row == SeenReviews(p)[r]
           new == [row EXCEPT !.rated = req[p].call.rated]
           l == [req[p] EXCEPT !.pc = "commit", !.hit = (row # None)]
<1>1. ~At(p, "idle") /\ ~At(p, "reload") /\ ~At(p, "done") /\ req[p] \in Locals
      /\ wb[p] = NoWrites /\ wr[p] = NoWrites
      /\ Op(p) = "ReviewUpdate" /\ req[p].call \in ReviewUpdateCall
  BY Typed, OpAt, CallTypes DEF Inv, UpdateReview, At, LockDiscipline, PendingWhere, Op
<1>2. r \in Id /\ req[p].call.rated \in BOOLEAN /\ row = reviews[r]
  BY <1>1, SeenRows, NoWritesIsSame DEF ReviewUpdateCall, Inv
<1>3. /\ req' = [req EXCEPT ![p] = l]
      /\ l.pc = "commit" /\ l.call = req[p].call /\ l.id = req[p].id
  BY <1>1 DEF UpdateReview, Locals
<1>4. UNCHANGED <<db, clock, wb>>
  BY DEF UpdateReview
<1>5. CASE wr' = wr
  <2> HIDE DEF l
  <2> QED
    BY <1>1, <1>3, <1>4, <1>5, QuietStep DEF WritingBeers, WritingReviews
<1>6. CASE row # None /\ wr' = [wr EXCEPT ![p][r] = new]
  <2>1. row \in Review /\ new \in Review /\ new.beer = reviews[r].beer
    BY <1>2, <1>6 DEF Inv, TypeOK, Review
  <2> HIDE DEF l, new, row, r
  <2>2. /\ \A i \in Id : wr'[p][i] = (IF i = r THEN new ELSE Same)
        /\ wb'[p] = NoWrites
        /\ req'[p].pc = "commit" /\ req'[p].call = req[p].call /\ req'[p].id = req[p].id
        /\ \A q \in Request \ {p} : req'[q] = req[q] /\ wb'[q] = wb[q] /\ wr'[q] = wr[q]
    BY <1>1, <1>2, <1>3, <1>4, <1>6, NoWritesIsSame DEF Inv, TypeOK, RequestsTyped
  <2>3. beers' = beers /\ reviews' = reviews /\ reviews[r] # None
    BY <1>2, <1>4, <1>6 DEF db
  <2>4. \A i \in Id : wb'[p][i] = Same
    BY <2>2, NoWritesIsSame
  <2>5. PendingWhere(p)'
    BY <2>2 DEF PendingWhere
  <2>6. WritesToRows(p)'
    <3>1. ~Creating(p)'
      BY <1>1, <2>2 DEF Creating, Creates, Op
    <3> QED
      BY <2>1, <2>2, <2>3, <2>4, <3>1, Sentinels DEF WritesToRows
  <2>7. SharedBeersStay(p)'
    BY <2>1, <2>2, <2>3 DEF SharedBeersStay, SharesBeer, IsRow
  <2>8. CascadeComplete(p)'
    <3>1. \A i \in Id : SeenReviews(p)'[i] # None => SeenReviews(p)'[i].beer \in Id
      <4>1. \A i \in Id : SeenReviews(p)'[i] = IF wr'[p][i] = Same THEN reviews[i] ELSE wr'[p][i]
        BY <2>3, ViewRow DEF SeenReviews, Inv, TypeOK
      <4> QED
        BY <2>1, <2>2, <4>1, SMTT(30) DEF Inv, TypeOK, Review
    <3> QED
      BY <2>4, <3>1, Sentinels DEF CascadeComplete
  <2>9. \A q \in Request \ {p} : wr[q][r] = Same
    BY <1>2, <2>3 DEF UpdateReview, Free, Conflicts, r
  <2>10. \A q \in Request \ {p}, i \in Id :
           /\ wb'[p][i] # Same => wb[q][i] = Same
           /\ wr'[p][i] # Same => wr[q][i] = Same
           /\ SharesBeer(q, i) => wb'[p][i] # None
    BY <2>2, <2>4, <2>9, Sentinels
  <2> QED
    BY <1>1, <1>4, <2>2, <2>5, <2>6, <2>7, <2>8, <2>10, WriterStep
<1> QED
  BY <1>5, <1>6 DEF UpdateReview

\* The pour removed is held by no transaction, so none of them loses a row it refers to.
LEMMA RemoveReviewKeeps ==
  ASSUME Inv, TypeOK', NEW p \in Request, RemoveReview(p)
  PROVE  Inv'
<1> DEFINE r == req[p].call.review
<1>1. ~At(p, "idle") /\ ~At(p, "reload") /\ ~At(p, "done") /\ req[p] \in Locals
      /\ wb[p] = NoWrites /\ wr[p] = NoWrites /\ ~Creating(p)
      /\ Op(p) = "ReviewDelete" /\ req[p].call \in ReviewDeleteCall
  BY Typed, OpAt, CallTypes
     DEF Inv, RemoveReview, At, LockDiscipline, PendingWhere, Op, Creating, Creates
<1>2. CASE Reply(p, 404)
  BY <1>1, <1>2, ReplyStep
<1>3. CASE /\ OwnedBy(reviews[r], req[p].call.user)
           /\ reviews' = [reviews EXCEPT ![r] = None]
           /\ \E code \in {204, 404} :
                req' = [req EXCEPT ![p].pc = "done", ![p].status = code]
           /\ UNCHANGED <<beers, clock, wb, wr>>
  <2>1. r \in Id /\ reviews[r] # None
    BY <1>1, <1>3 DEF ReviewDeleteCall, OwnedBy
  <2>2. /\ req'[p].pc = "done" /\ req'[p].call = req[p].call /\ req'[p].id = req[p].id
        /\ \A q \in Request \ {p} : req'[q] = req[q]
    BY <1>1, <1>3 DEF Inv, TypeOK, RequestsTyped, Locals
  <2>3. \A q \in Request : wr[q][r] = Same
    BY <1>1, <2>1, NoWritesIsSame DEF RemoveReview, Free, Conflicts, At
  <2> HIDE DEF r
  <2>4. \A i \in Id : reviews'[i] = IF i = r THEN None ELSE reviews[i]
    BY <1>3, <2>1 DEF Inv, TypeOK
  <2>5. \A q \in Request : Creating(q)' = Creating(q)
    BY <1>1, <2>2 DEF Creating, At
  <2>6. ASSUME NEW q \in Request PROVE PendingWhere(q)'
    BY <1>1, <1>3, <2>2 DEF PendingWhere, Inv, LockDiscipline
  <2>7. ASSUME NEW q \in Request PROVE WritesToRows(q)'
    <3>1. WritesToRows(q)
      BY DEF Inv, LockDiscipline
    <3>2. Merging(q)' = Merging(q) /\ req'[q].id = req[q].id
      BY <1>1, <2>2 DEF Merging, At, Op
    <3> QED
      BY <1>3, <2>3, <2>4, <2>5, <3>1, <3>2 DEF WritesToRows
  <2>8. \A q \in Request, i \in Id : SharesBeer(q, i)' => SharesBeer(q, i)
    BY <1>3, <2>3, <2>4 DEF SharesBeer, IsRow
  <2>9. ASSUME NEW q \in Request PROVE SharedBeersStay(q)'
    BY <1>3, <2>8 DEF SharedBeersStay, Inv, LockDiscipline
  <2>10. ASSUME NEW q \in Request PROVE CascadeComplete(q)'
    <3>1. \A i \in Id : SeenReviews(q)'[i] # None => SeenReviews(q)'[i] = SeenReviews(q)[i]
      <4>1. SeenReviews(q)' = View(reviews', wr[q]) /\ DOMAIN reviews' = Id
        BY <1>3 DEF SeenReviews, TypeOK
      <4>2. \A i \in Id : SeenReviews(q)'[i] = IF wr[q][i] = Same THEN reviews'[i] ELSE wr[q][i]
        BY <4>1, ViewRow
      <4> QED
        BY <2>4, <4>2, SeenRows DEF Inv
    <3>2. At(q, "commit")' => At(q, "commit")
      BY <2>2 DEF At
    <3> QED
      BY <1>3, <3>1, <3>2 DEF CascadeComplete, Inv, LockDiscipline
  <2>11. OneWriter'
    BY <1>3 DEF OneWriter, Inv, LockDiscipline
  <2>12. FreshIds'
    <3>1. FreshIds
      BY DEF Inv, LockDiscipline
    <3>2. \A q \in Request : /\ req'[q].id = req[q].id
                             /\ At(q, "reload") \/ At(q, "done") =>
                                  At(q, "reload")' \/ At(q, "done")'
      BY <2>2 DEF At
    <3>3. \A q \in Request : Creating(q) => req[q].id \in Id
      BY Typed DEF Inv, Creating, Proper
    <3>4. \A i \in Id : reviews[i] = None => reviews'[i] = None
      BY <2>4
    <3>5. beers' = beers /\ clock' = clock
      BY <1>3
    <3> QED
      BY <2>5, <3>1, <3>2, <3>3, <3>4, <3>5 DEF FreshIds
  <2>13. ReviewsHaveBeers'
    BY <1>3, <2>4 DEF Inv, ReviewsHaveBeers
  <2> QED
    BY <2>6, <2>7, <2>9, <2>10, <2>11, <2>12, <2>13 DEF Inv, LockDiscipline
<1> QED
  BY <1>2, <1>3 DEF RemoveReview

-----------------------------------------------------------------------------
(* The admin's edits. *)

\* A patched row is still a row: nobody's writes hang on its columns.
LEMMA PatchBeerKeeps ==
  ASSUME Inv, TypeOK', NEW p \in Request, PatchBeer(p)
  PROVE  Inv'
<1> DEFINE b == req[p].beer
<1>1. ~At(p, "idle") /\ ~At(p, "reload") /\ ~At(p, "done") /\ req[p] \in Locals
      /\ wb[p] = NoWrites /\ wr[p] = NoWrites /\ b \in Id
      /\ Op(p) = "BeerUpdate" /\ req[p].call \in BeerUpdateCall
  BY Typed, OpAt, CallTypes DEF Inv, PatchBeer, At, LockDiscipline, PendingWhere, Op, Proper
<1>2. CASE Reply(p, 404)
  BY <1>1, <1>2, ReplyStep
<1>3. CASE /\ beers[b] # None
           /\ beers' = [beers EXCEPT ![b] = Patched(@, req[p].call)]
           /\ Goto(p, "reload")
           /\ UNCHANGED <<reviews, clock, wb, wr>>
  <2> DEFINE new == Patched(beers[b], req[p].call)
  <2>1. new # None
    BY <1>1, <1>3, PatchedType, Sentinels DEF Inv, TypeOK
  <2>2. /\ req'[p].pc = "reload" /\ req'[p].call = req[p].call /\ req'[p].id = req[p].id
        /\ \A q \in Request \ {p} : req'[q] = req[q]
    BY <1>1, <1>3 DEF Goto, Inv, TypeOK, RequestsTyped, Locals
  <2>3. beers' = [beers EXCEPT ![b] = new]
    BY <1>3
  <2> HIDE DEF b, new
  <2>4. \A i \in Id : beers'[i] = None <=> beers[i] = None
    BY <1>1, <1>3, <2>1, <2>3 DEF Inv, TypeOK
  <2>5. \A q \in Request : /\ Creating(q)' = Creating(q) /\ Merging(q)' = Merging(q)
                           /\ req'[q].id = req[q].id
                           /\ At(q, "reload") \/ At(q, "done") =>
                                At(q, "reload")' \/ At(q, "done")'
                           /\ At(q, "commit")' => At(q, "commit")
    BY <1>1, <2>2 DEF Creating, Merging, At, Op
  <2>6. ASSUME NEW q \in Request PROVE PendingWhere(q)'
    BY <1>1, <1>3, <2>2 DEF PendingWhere, Inv, LockDiscipline
  <2>7. ASSUME NEW q \in Request PROVE WritesToRows(q)'
    <3>1. WritesToRows(q)
      BY DEF Inv, LockDiscipline
    <3> QED
      BY <1>3, <2>4, <2>5, <3>1 DEF WritesToRows
  <2>8. \A q \in Request, i \in Id : SharesBeer(q, i)' = SharesBeer(q, i)
    BY <1>3 DEF SharesBeer
  <2>9. ASSUME NEW q \in Request PROVE SharedBeersStay(q)'
    BY <1>3, <2>4, <2>8 DEF SharedBeersStay, Inv, LockDiscipline
  <2>10. ASSUME NEW q \in Request PROVE CascadeComplete(q)'
    BY <1>3, <2>5 DEF CascadeComplete, SeenReviews, Inv, LockDiscipline
  <2>11. OneWriter'
    BY <1>3 DEF OneWriter, Inv, LockDiscipline
  <2>12. FreshIds'
    <3>1. FreshIds
      BY DEF Inv, LockDiscipline
    <3>2. \A q \in Request : Creating(q) => req[q].id \in Id
      BY Typed DEF Inv, Creating, Proper
    <3>3. reviews' = reviews /\ clock' = clock
      BY <1>3
    <3> QED
      BY <2>4, <2>5, <3>1, <3>2, <3>3 DEF FreshIds
  <2>13. ReviewsHaveBeers'
    BY <1>3, <2>4 DEF Inv, ReviewsHaveBeers, TypeOK, Review
  <2> QED
    BY <2>6, <2>7, <2>9, <2>10, <2>11, <2>12, <2>13 DEF Inv, LockDiscipline
<1> QED
  BY <1>2, <1>3 DEF PatchBeer

LEMMA DedupeKeeps ==
  ASSUME Inv, TypeOK', NEW p \in Request, Dedupe(p)
  PROVE  Inv'
<1>1. ~At(p, "idle") /\ ~At(p, "reload") /\ ~At(p, "done") /\ req[p] \in Locals
      /\ wb[p] = NoWrites /\ wr[p] = NoWrites
  BY Typed DEF Inv, Dedupe, QueryKeys, BeginGroup, QueryGroup, FinishDedupe, At,
     LockDiscipline, PendingWhere
<1>2. CASE QueryKeys(p)
  <2> DEFINE l == [req[p] EXCEPT !.pc = "group", !.keys = DuplicateKeys(beers)]
  <2>1. /\ req' = [req EXCEPT ![p] = l]
        /\ l.pc = "group" /\ l.call = req[p].call /\ l.id = req[p].id
    BY <1>1, <1>2 DEF QueryKeys, Locals
  <2> HIDE DEF l
  <2> QED
    BY <1>1, <1>2, <2>1, QuietStep DEF QueryKeys
<1>3. CASE QueryGroup(p)
  <2>1. PICK k \in req[p].keys : \E ids \in Ranked(Group(beers, k)) :
          \/ SkipGroup(p, k)
          \/ /\ Len(ids) > 1
             /\ req' = [req EXCEPT ![p].keys = @ \ {k}, ![p].pc = "exists", ![p].filled = 0,
                                   ![p].beer = Head(ids), ![p].ids = Tail(ids)]
    BY <1>3 DEF QueryGroup
  <2>2. PICK ids \in Ranked(Group(beers, k)) :
          \/ SkipGroup(p, k)
          \/ /\ Len(ids) > 1
             /\ req' = [req EXCEPT ![p].keys = @ \ {k}, ![p].pc = "exists", ![p].filled = 0,
                                   ![p].beer = Head(ids), ![p].ids = Tail(ids)]
    BY <2>1
  <2> DEFINE l1 == [req[p] EXCEPT !.pc = "group", !.keys = @ \ {k}, !.open = FALSE]
             l2 == [req[p] EXCEPT !.keys = @ \ {k}, !.pc = "exists", !.filled = 0,
                                  !.beer = Head(ids), !.ids = Tail(ids)]
  <2>3. /\ l1.pc = "group" /\ l1.call = req[p].call /\ l1.id = req[p].id
        /\ l2.pc = "exists" /\ l2.call = req[p].call /\ l2.id = req[p].id
    BY <1>1, <1>3 DEF QueryGroup, At, Locals
  <2>4. req' = [req EXCEPT ![p] = l1] \/ req' = [req EXCEPT ![p] = l2]
    BY <2>2 DEF SkipGroup
  <2>5. UNCHANGED <<db, clock, wb, wr>>
    BY <1>3 DEF QueryGroup
  <2> HIDE DEF l1, l2
  <2> QED
    BY <1>1, <2>3, <2>4, <2>5, QuietStep
<1>4. CASE FinishDedupe(p)
  BY <1>1, <1>4, ReplyStep DEF FinishDedupe
<1>5. CASE BeginGroup(p)
  <2> DEFINE l == [req[p] EXCEPT !.pc = "ids", !.open = TRUE]
  <2>1. /\ req' = [req EXCEPT ![p] = l]
        /\ l.pc = "ids" /\ l.call = req[p].call /\ l.id = req[p].id
    BY <1>1, <1>5 DEF BeginGroup, Locals
  <2> HIDE DEF l
  <2> QED
    BY <1>1, <1>5, <2>1, QuietStep DEF BeginGroup
<1> QED
  BY <1>2, <1>3, <1>4, <1>5 DEF Dedupe

LEMMA MergeReadsKeep ==
  ASSUME Inv, TypeOK', NEW p \in Request,
         CheckKeep(p) \/ CheckMerged(p) \/ ReadSource(p) \/ TargetReviews(p)
  PROVE  Inv'
<1>1. ~At(p, "idle") /\ ~At(p, "reload") /\ ~At(p, "done") /\ req[p] \in Locals
      /\ wr[p] = NoWrites
  BY Typed DEF Inv, CheckKeep, CheckMerged, ReadSource, TargetReviews, At, LockDiscipline,
               PendingWhere
<1>2. CASE Abort(p, MissingCode(p))
  BY <1>1, <1>2, AbortStep
<1>3. CASE /\ At(p, "exists") \/ At(p, "count")
           /\ Goto(p, "count") \/ Goto(p, "fill")
           /\ UNCHANGED <<db, clock, wb, wr>>
  <2> DEFINE l1 == [req[p] EXCEPT !.pc = "count"]
             l2 == [req[p] EXCEPT !.pc = "fill"]
  <2>1. /\ req' = [req EXCEPT ![p] = l1] \/ req' = [req EXCEPT ![p] = l2]
        /\ l1.pc = "count" /\ l1.call = req[p].call /\ l1.id = req[p].id
        /\ l2.pc = "fill" /\ l2.call = req[p].call /\ l2.id = req[p].id
    BY <1>1, <1>3 DEF Goto, Locals
  <2>2. wb[p] = NoWrites
    BY <1>3 DEF Inv, LockDiscipline, PendingWhere, At
  <2> HIDE DEF l1, l2
  <2> QED
    BY <1>1, <1>3, <2>1, <2>2, QuietStep
<1>4. CASE ReadSource(p)
  <2> DEFINE src == SeenBeers(p)[req[p].ids[req[p].filled + 1]]
             l == [req[p] EXCEPT !.pc = "filling", !.src = src]
  <2>1. /\ req' = [req EXCEPT ![p] = l]
        /\ l.pc = "filling" /\ l.call = req[p].call /\ l.id = req[p].id
    BY <1>1, <1>4 DEF ReadSource, Locals
  <2> HIDE DEF l
  <2> QED
    BY <1>1, <1>4, <2>1, QuietStep DEF ReadSource, WritingBeers
<1>5. CASE TargetReviews(p)
  <2> DEFINE targets == {r \in Id : /\ SeenReviews(p)[r] # None
                                    /\ SeenReviews(p)[r].beer \in Ids(p)}
             l == [req[p] EXCEPT !.pc = "reassign", !.targets = targets]
  <2>1. /\ req' = [req EXCEPT ![p] = l]
        /\ l.pc = "reassign" /\ l.call = req[p].call /\ l.id = req[p].id
    BY <1>1, <1>5 DEF TargetReviews, Locals
  <2> HIDE DEF l
  <2> QED
    BY <1>1, <1>5, <2>1, QuietStep DEF TargetReviews, WritingBeers
<1> QED
  BY <1>2, <1>3, <1>4, <1>5 DEF CheckKeep, CheckMerged

LEMMA FillSurvivorKeeps ==
  ASSUME Inv, TypeOK', NEW p \in Request, FillSurvivor(p)
  PROVE  Inv'
<1> DEFINE b == req[p].beer
           row == SeenBeers(p)[b]
           new == Filled(row, req[p].src)
           n == req[p].filled + 1
           l == [req[p] EXCEPT !.pc = "fill", !.filled = n, !.src = None]
<1>1. ~At(p, "idle") /\ ~At(p, "reload") /\ ~At(p, "done") /\ req[p] \in Locals
      /\ wr[p] = NoWrites /\ b \in Id /\ Op(p) \in {"Merge", "DedupeExact"}
  BY Typed, OpAt DEF Inv, FillSurvivor, At, LockDiscipline, PendingWhere, Proper
<1>2. /\ req' = [req EXCEPT ![p] = l]
      /\ l.pc = "fill" /\ l.call = req[p].call /\ l.id = req[p].id
  BY <1>1 DEF FillSurvivor, Locals
<1>3. UNCHANGED <<db, clock, wr>>
  BY DEF FillSurvivor
<1> HIDE DEF l, n
<1>4. CASE wb' = wb
  BY <1>1, <1>2, <1>3, <1>4, QuietStep DEF WritingBeers
<1>5. CASE req[p].src # None /\ row # None /\ wb' = [wb EXCEPT ![p][b] = new]
  <2>1. new \in Beer
    BY <1>1, <1>5, Typed, FilledType DEF Inv, Locals
  <2>2. beers[b] # None
    <3>1. row = IF wb[p][b] = Same THEN beers[b] ELSE wb[p][b]
      BY <1>1, SeenRows DEF Inv
    <3>2. wb[p][b] # Same => beers[b] # None
      BY <1>1 DEF Inv, LockDiscipline, WritesToRows, Creating, Creates, Op
    <3> QED
      BY <1>5, <3>1, <3>2
  <2>3. \A q \in Request \ {p} : wb[q][b] = Same
    BY <1>5 DEF FillSurvivor, Free, Conflicts
  <2> HIDE DEF b, row, new
  <2>4. /\ \A i \in Id : wb'[p][i] = (IF i = b THEN new ELSE wb[p][i])
        /\ wr'[p] = NoWrites
        /\ req'[p].pc = "fill" /\ req'[p].call = req[p].call /\ req'[p].id = req[p].id
        /\ \A q \in Request \ {p} : req'[q] = req[q] /\ wb'[q] = wb[q] /\ wr'[q] = wr[q]
    BY <1>1, <1>2, <1>3, <1>5 DEF Inv, TypeOK, RequestsTyped
  <2>5. beers' = beers /\ reviews' = reviews
    BY <1>3 DEF db
  <2>6. \A i \in Id : wr'[p][i] = Same
    BY <2>4, NoWritesIsSame
  <2>7. PendingWhere(p)'
    BY <2>4 DEF PendingWhere
  <2>8. WritesToRows(p)'
    <3>1. ~Creating(p) /\ ~Creating(p)' /\ Merging(p)'
      BY <1>1, <2>4 DEF Creating, Creates, Merging, Op, At
    <3>2. WritesToRows(p)
      BY DEF Inv, LockDiscipline
    <3> QED
      BY <2>2, <2>4, <2>5, <2>6, <3>1, <3>2 DEF WritesToRows
  <2>9. SharedBeersStay(p)'
    BY <2>6 DEF SharedBeersStay, SharesBeer, IsRow
  <2>10. CascadeComplete(p)'
    BY <2>4 DEF CascadeComplete, At
  <2>11. \A q \in Request \ {p}, i \in Id :
           /\ wb'[p][i] # Same => wb[q][i] = Same
           /\ wr'[p][i] # Same => wr[q][i] = Same
           /\ SharesBeer(q, i) => wb'[p][i] # None
    <3>1. OneWriter /\ \A q \in Request : SharedBeersStay(q)
      BY DEF Inv, LockDiscipline
    <3> QED
      BY <2>1, <2>3, <2>4, <2>6, <3>1, Sentinels DEF OneWriter, SharedBeersStay
  <2> QED
    BY <1>1, <1>3, <2>4, <2>7, <2>8, <2>9, <2>10, <2>11, WriterStep
<1> QED
  BY <1>4, <1>5 DEF FillSurvivor

LEMMA ReassignReviewsKeeps ==
  ASSUME Inv, TypeOK', NEW p \in Request, ReassignReviews(p)
  PROVE  Inv'
<1> DEFINE b == req[p].beer
           New(r) == [SeenReviews(p)[r] EXCEPT !.beer = b]
           w == Write(wr[p], Moved(p), New)
<1>1. ~At(p, "idle") /\ ~At(p, "reload") /\ ~At(p, "done") /\ req[p] \in Locals
      /\ wr[p] = NoWrites /\ b \in Id /\ Op(p) \in {"Merge", "DedupeExact"}
  BY Typed, OpAt DEF Inv, ReassignReviews, At, LockDiscipline, PendingWhere, Proper
<1>2. CASE Abort(p, 500)
  BY <1>1, <1>2, AbortStep
<1>3. CASE /\ Moved(p) = {} \/ SeenBeers(p)[b] # None
           /\ wr' = [wr EXCEPT ![p] = w]
           /\ req' = [req EXCEPT ![p].pc = "delete", ![p].targets = Moved(p)]
           /\ UNCHANGED <<db, clock, wb>>
  <2>1. \A r \in Moved(p) : r \in Id /\ r \in req[p].targets /\ reviews[r] \in Review
                            /\ New(r) \in Review /\ New(r).beer = b
    <3>1. \A r \in Moved(p) : r \in Id /\ r \in req[p].targets /\ SeenReviews(p)[r] # None
      BY <1>1 DEF Moved, Locals
    <3>2. \A r \in Id : SeenReviews(p)[r] = reviews[r]
      BY <1>1, SeenRows, NoWritesIsSame DEF Inv
    <3>3. \A r \in Moved(p) : reviews[r] \in Review
      BY <3>1, <3>2 DEF Inv, TypeOK
    <3>4. \A pour \in Review :
            /\ [pour EXCEPT !.beer = b] \in Review
            /\ [pour EXCEPT !.beer = b].beer = b
      BY <1>1 DEF Review
    <3>5. \A r \in Moved(p) : New(r) = [reviews[r] EXCEPT !.beer = b]
      BY <3>1, <3>2
    <3> QED
      BY <3>1, <3>3, <3>4, <3>5
  <2>2. \A r \in Id : w[r] = IF r \in Moved(p) THEN New(r) ELSE Same
    BY <1>1, NoWritesIsSame DEF Write, NoWrites
  <2>3. \A r \in Moved(p), q \in Request \ {p} : wr[q][r] = Same /\ wb[q][b] # None
    BY <2>1 DEF ReassignReviews, Free, Conflicts
  <2>4. Moved(p) # {} => beers[b] # None \/ IsRow(wb[p][b])
    BY <1>1, <1>3, SeenRows DEF IsRow, Inv
  <2> HIDE DEF b, w, New
  <2>5. /\ wr'[p] = w /\ wb'[p] = wb[p]
        /\ req'[p].pc = "delete" /\ req'[p].call = req[p].call /\ req'[p].id = req[p].id
        /\ \A q \in Request \ {p} : req'[q] = req[q] /\ wb'[q] = wb[q] /\ wr'[q] = wr[q]
    BY <1>1, <1>3 DEF Inv, TypeOK, RequestsTyped, Locals
  <2>6. beers' = beers /\ reviews' = reviews
    BY <1>3 DEF db
  <2>7. PendingWhere(p)'
    BY <2>5 DEF PendingWhere
  <2>8. WritesToRows(p)'
    <3>1. ~Creating(p) /\ ~Creating(p)' /\ Merging(p)'
      BY <1>1, <2>5 DEF Creating, Creates, Merging, Op, At
    <3>2. WritesToRows(p)
      BY DEF Inv, LockDiscipline
    <3> QED
      BY <2>1, <2>2, <2>5, <2>6, <3>1, <3>2, Sentinels DEF WritesToRows
  <2>9. SharedBeersStay(p)'
    <3>1. SUFFICES ASSUME NEW i \in Id, SharesBeer(p, i)'
                   PROVE  /\ beers[i] # None \/ IsRow(wb[p][i])
                          /\ \A q \in Request \ {p} : wb[q][i] # None
      BY <2>5, <2>6 DEF SharedBeersStay
    <3>2. PICK r \in Id : IsRow(w[r]) /\ w[r].beer = i
      BY <2>5, <3>1 DEF SharesBeer
    <3>3. r \in Moved(p) /\ i = b
      BY <2>1, <2>2, <3>2 DEF IsRow
    <3> QED
      BY <2>3, <2>4, <3>3
  <2>10. CascadeComplete(p)'
    BY <2>5 DEF CascadeComplete, At
  <2>11. \A q \in Request \ {p}, i \in Id :
           /\ wb'[p][i] # Same => wb[q][i] = Same
           /\ wr'[p][i] # Same => wr[q][i] = Same
           /\ SharesBeer(q, i) => wb'[p][i] # None
    <3>1. OneWriter /\ \A q \in Request : SharedBeersStay(q)
      BY DEF Inv, LockDiscipline
    <3> QED
      BY <2>2, <2>3, <2>5, <3>1 DEF OneWriter, SharedBeersStay
  <2> QED
    BY <1>1, <1>3, <2>5, <2>7, <2>8, <2>9, <2>10, <2>11, WriterStep
<1> QED
  BY <1>2, <1>3 DEF ReassignReviews

\* A beer is deleted only when no pending pour of another transaction refers to it.
LEMMA DeleteBeersKeeps ==
  ASSUME Inv, TypeOK', NEW p \in Request, DeleteBeers(p)
  PROVE  Inv'
<1> DEFINE New(i) == None
           gone == {i \in Ids(p) : SeenBeers(p)[i] # None}
           w == Write(wb[p], gone, New)
<1>1. ~At(p, "idle") /\ ~At(p, "reload") /\ ~At(p, "done") /\ req[p] \in Locals
      /\ ~Creating(p) /\ Op(p) \in {"Merge", "DedupeExact"}
  BY Typed, OpAt DEF Inv, DeleteBeers, At, Creating, Creates, Op
<1>2. WritesToRows(p) /\ SharedBeersStay(p) /\ OneWriter /\ \A q \in Request : SharedBeersStay(q)
  BY DEF Inv, LockDiscipline
<1>3. \A i \in Id : w[i] = IF i \in gone THEN None ELSE wb[p][i]
  BY DEF Write, Inv, TypeOK
<1>4. \A i \in Id : i \in gone => beers[i] # None
  <2>1. \A i \in Id : wb[p][i] # Same => beers[i] # None
    BY <1>1, <1>2 DEF WritesToRows
  <2> QED
    BY <2>1, SeenRows DEF Inv
<1>5. \A i \in gone, q \in Request \ {p} : wb[q][i] = Same /\ ~SharesBeer(q, i)
  BY DEF DeleteBeers, Free, Conflicts
<1>6. wb' = [wb EXCEPT ![p] = w] /\ UNCHANGED <<db, clock, wr>> /\ Goto(p, "cascade")
  BY DEF DeleteBeers
<1> HIDE DEF gone, w, New
<1>7. /\ wb'[p] = w /\ wr'[p] = wr[p]
      /\ req'[p].pc = "cascade" /\ req'[p].call = req[p].call /\ req'[p].id = req[p].id
      /\ \A q \in Request \ {p} : req'[q] = req[q] /\ wb'[q] = wb[q] /\ wr'[q] = wr[q]
  BY <1>1, <1>6 DEF Goto, Inv, TypeOK, RequestsTyped, Locals
<1>8. beers' = beers /\ reviews' = reviews
  BY <1>6 DEF db
<1>9. PendingWhere(p)'
  BY <1>7 DEF PendingWhere
<1>10. WritesToRows(p)'
  <2>1. ~Creating(p)' /\ Merging(p)'
    BY <1>1, <1>7 DEF Creating, Creates, Merging, Op, At
  <2> QED
    BY <1>1, <1>2, <1>3, <1>4, <1>7, <1>8, <2>1 DEF WritesToRows
<1>11. SharedBeersStay(p)'
  <2>1. \A i \in Id : SharesBeer(p, i)' = SharesBeer(p, i)
    BY <1>7, <1>8 DEF SharesBeer
  <2>2. \A i \in Id : SharesBeer(p, i) => beers[i] # None
    BY <1>1, <1>2 DEF SharedBeersStay, WritesToRows, IsRow
  <2> QED
    BY <1>2, <1>7, <1>8, <2>1, <2>2 DEF SharedBeersStay
<1>12. CascadeComplete(p)'
  BY <1>7 DEF CascadeComplete, At
<1>13. \A q \in Request \ {p}, i \in Id :
         /\ wb'[p][i] # Same => wb[q][i] = Same
         /\ wr'[p][i] # Same => wr[q][i] = Same
         /\ SharesBeer(q, i) => wb'[p][i] # None
  BY <1>2, <1>3, <1>5, <1>7 DEF OneWriter, SharedBeersStay
<1> QED
  BY <1>1, <1>6, <1>7, <1>9, <1>10, <1>11, <1>12, <1>13, WriterStep

\* The cascade takes every pour of the deleted beers that the transaction sees.
LEMMA CascadeReviewsKeeps ==
  ASSUME Inv, TypeOK', NEW p \in Request, CascadeReviews(p)
  PROVE  Inv'
<1> DEFINE New(i) == None
           w == Write(wr[p], Cascaded(p), New)
<1>1. ~At(p, "idle") /\ ~At(p, "reload") /\ ~At(p, "done") /\ req[p] \in Locals
      /\ ~Creating(p) /\ Op(p) \in {"Merge", "DedupeExact"}
  BY Typed, OpAt DEF Inv, CascadeReviews, At, Creating, Creates, Op
<1>2. WritesToRows(p) /\ SharedBeersStay(p) /\ OneWriter /\ \A q \in Request : SharedBeersStay(q)
  BY DEF Inv, LockDiscipline
<1>3. \A i \in Id : w[i] = IF i \in Cascaded(p) THEN None ELSE wr[p][i]
  BY DEF Write, Inv, TypeOK
<1>4. \A i \in Cascaded(p) : i \in Id /\ reviews[i] # None
  <2>1. \A i \in Id : wr[p][i] # Same => reviews[i] # None
    BY <1>1, <1>2 DEF WritesToRows
  <2> QED
    BY <2>1, SeenRows DEF Inv, Cascaded
<1>5. \A i \in Cascaded(p), q \in Request \ {p} : wr[q][i] = Same
  BY DEF CascadeReviews, Free, Conflicts
<1>6. wr' = [wr EXCEPT ![p] = w] /\ UNCHANGED <<db, clock, wb>> /\ Goto(p, "commit")
  BY DEF CascadeReviews
<1> HIDE DEF w, New
<1>7. /\ wr'[p] = w /\ wb'[p] = wb[p]
      /\ req'[p].pc = "commit" /\ req'[p].call = req[p].call /\ req'[p].id = req[p].id
      /\ \A q \in Request \ {p} : req'[q] = req[q] /\ wb'[q] = wb[q] /\ wr'[q] = wr[q]
  BY <1>1, <1>6 DEF Goto, Inv, TypeOK, RequestsTyped, Locals
<1>8. beers' = beers /\ reviews' = reviews
  BY <1>6 DEF db
<1>9. PendingWhere(p)'
  BY <1>7 DEF PendingWhere
<1>10. WritesToRows(p)'
  <2>1. ~Creating(p)' /\ Merging(p)'
    BY <1>1, <1>7 DEF Creating, Creates, Merging, Op, At
  <2> QED
    BY <1>1, <1>2, <1>3, <1>4, <1>7, <1>8, <2>1 DEF WritesToRows
<1>11. SharedBeersStay(p)'
  <2>1. \A i \in Id : SharesBeer(p, i)' => SharesBeer(p, i)
    BY <1>3, <1>7, <1>8 DEF SharesBeer, IsRow
  <2> QED
    BY <1>2, <1>7, <1>8, <2>1 DEF SharedBeersStay
<1>12. CascadeComplete(p)'
  <2>1. SeenReviews(p)' = View(reviews, w) /\ DOMAIN reviews = Id
    BY <1>7, <1>8 DEF SeenReviews, Inv, TypeOK
  <2>2. \A r \in Id : SeenReviews(p)'[r] = IF w[r] = Same THEN reviews[r] ELSE w[r]
    BY <2>1, ViewRow
  <2>3. \A r \in Id : SeenReviews(p)'[r] # None =>
          r \notin Cascaded(p) /\ SeenReviews(p)'[r] = SeenReviews(p)[r]
    BY <1>3, <2>2, SeenRows, Sentinels DEF Inv
  <2> QED
    BY <1>7, <2>3 DEF CascadeComplete, Cascaded
<1>13. \A q \in Request \ {p}, i \in Id :
         /\ wb'[p][i] # Same => wb[q][i] = Same
         /\ wr'[p][i] # Same => wr[q][i] = Same
         /\ SharesBeer(q, i) => wb'[p][i] # None
  BY <1>2, <1>3, <1>5, <1>7 DEF OneWriter, SharedBeersStay
<1> QED
  BY <1>1, <1>6, <1>7, <1>9, <1>10, <1>11, <1>12, <1>13, WriterStep

-----------------------------------------------------------------------------
(* Arrival and commit. *)

\* A request that arrives holds nothing, and its id is one nobody has.
LEMMA ReceiveKeeps ==
  ASSUME Inv, TypeOK', NEW p \in Request, Receive(p)
  PROVE  Inv'
<1>1. PICK c \in UserCalls \cup AdminCalls :
        /\ Creates(c) => clock < MaxId
        /\ clock' = IF Creates(c) THEN clock + 1 ELSE clock
        /\ req' = [req EXCEPT ![p] =
                     [Idle EXCEPT !.pc = Entry(c), !.call = c, !.open = Begins(c),
                                  !.beer = NamedBeer(c),
                                  !.id = IF Creates(c) THEN clock' ELSE 0,
                                  !.ids = MergedBeers(c)]]
  BY DEF Receive
<1>2. c \in Call /\ MaxId \in Nat /\ clock \in 0..MaxId
  BY CatalogAssumption DEF CatalogAssumption, Inv, TypeOK
<1>3. Entry(c) \notin {"idle", "commit"}
  BY <1>2 DEF Entry, Call, BeerCreateCall, ReviewCreateCall, ReviewUpdateCall,
     ReviewDeleteCall, BeerUpdateCall, MergeCall, DedupeCall
<1> DEFINE l == [Idle EXCEPT !.pc = Entry(c), !.call = c, !.open = Begins(c),
                             !.beer = NamedBeer(c),
                             !.id = IF Creates(c) THEN clock' ELSE 0, !.ids = MergedBeers(c)]
<1>4. /\ l.pc = Entry(c) /\ l.call = c
      /\ Creates(c) => l.id = clock'
  BY DEF Idle
<1>5. req' = [req EXCEPT ![p] = l]
  BY <1>1
<1> HIDE DEF l
<1>6. /\ req'[p] = l /\ wb' = wb /\ wr' = wr /\ beers' = beers /\ reviews' = reviews
      /\ \A q \in Request \ {p} : req'[q] = req[q]
  BY <1>5 DEF Receive, Inv, TypeOK, RequestsTyped, db
<1>7. At(p, "idle") /\ wb[p] = NoWrites /\ wr[p] = NoWrites
  BY DEF Receive, Inv, LockDiscipline, PendingWhere, At
<1>8. \A i \in Id : wb[p][i] = Same /\ wr[p][i] = Same
  BY <1>7, NoWritesIsSame
<1>9. \A q \in Request \ {p} : Creating(q)' = Creating(q) /\ Merging(q)' = Merging(q)
  BY <1>6 DEF Creating, Merging, At, Op
<1>10. \A q \in Request, i \in Id : SharesBeer(q, i)' = SharesBeer(q, i)
  BY <1>6 DEF SharesBeer
<1>11. ASSUME NEW q \in Request PROVE PendingWhere(q)'
  BY <1>6, <1>7 DEF PendingWhere, Inv, LockDiscipline
<1>12. ASSUME NEW q \in Request PROVE WritesToRows(q)'
  <2>1. WritesToRows(q)
    BY DEF Inv, LockDiscipline
  <2>2. CASE q = p
    BY <1>6, <1>8, <2>2, Sentinels DEF WritesToRows
  <2>3. CASE q # p
    BY <1>6, <1>9, <2>1, <2>3 DEF WritesToRows
  <2> QED
    BY <2>2, <2>3
<1>13. ASSUME NEW q \in Request PROVE SharedBeersStay(q)'
  BY <1>6, <1>10 DEF SharedBeersStay, Inv, LockDiscipline
<1>14. ASSUME NEW q \in Request PROVE CascadeComplete(q)'
  <2>1. At(q, "commit")' => At(q, "commit")
    BY <1>3, <1>4, <1>6 DEF At
  <2> QED
    BY <1>6, <2>1 DEF CascadeComplete, SeenReviews, Inv, LockDiscipline
<1>15. OneWriter'
  BY <1>6 DEF OneWriter, Inv, LockDiscipline
<1>16. FreshIds'
  <2>1. FreshIds
    BY DEF Inv, LockDiscipline
  <2>2. clock' \in 0..MaxId /\ clock <= clock'
    BY <1>1, <1>2
  <2>3. \A i \in Id : i > clock' => beers'[i] = None /\ reviews'[i] = None
    BY <1>2, <1>6, <2>1, <2>2 DEF FreshIds, Id
  <2>4. ASSUME NEW q \in Request \ {p}, Creating(q)'
        PROVE  /\ req'[q].id <= clock
               /\ ~At(q, "reload")' /\ ~At(q, "done")' =>
                    beers'[req'[q].id] = None /\ reviews'[req'[q].id] = None
    BY <1>6, <1>9, <2>1, <2>4 DEF FreshIds, At
  <2>5. Creating(p)' => /\ l.id = clock' /\ clock' \in Id /\ clock' > clock
                        /\ beers'[clock'] = None /\ reviews'[clock'] = None
    <3>1. Creating(p)' => Creates(c)
      BY <1>4, <1>6 DEF Creating
    <3>2. Creates(c) => clock' \in Id /\ clock' > clock
      BY <1>1, <1>2 DEF Id
    <3> QED
      BY <1>4, <1>6, <2>1, <3>1, <3>2 DEF FreshIds
  <2>6. \A q \in Request \ {p} : Creating(q)' => req'[q].id \in Int /\ req'[q].id <= clock
    BY <1>2, <1>6, <1>9, <2>4, Typed DEF Creating, Proper, Id, Inv
  <2>7. \A q, s \in Request \ {p} : q # s /\ Creating(q)' /\ Creating(s)' =>
                                     req'[q].id # req'[s].id
    BY <1>6, <1>9, <2>1 DEF FreshIds
  <2>8. \A q \in Request : Creating(q)' =>
          \A s \in Request \ {q} : Creating(s)' => req'[s].id # req'[q].id
    BY <1>2, <1>6, <2>2, <2>5, <2>6, <2>7
  <2>9. \A q \in Request : Creating(q)' => req'[q].id <= clock'
    BY <1>2, <1>6, <2>2, <2>5, <2>6
  <2>10. \A q \in Request : Creating(q)' /\ ~At(q, "reload")' /\ ~At(q, "done")' =>
           beers'[req'[q].id] = None /\ reviews'[req'[q].id] = None
    BY <1>6, <2>4, <2>5
  <2> QED
    BY <2>3, <2>8, <2>9, <2>10 DEF FreshIds
<1>17. ReviewsHaveBeers'
  BY <1>6 DEF Inv, ReviewsHaveBeers
<1> QED
  BY <1>11, <1>12, <1>13, <1>14, <1>15, <1>16, <1>17 DEF Inv, LockDiscipline

\* What a commit publishes fits what the others hold: the pours it brings back are of beers
\* that nobody deletes, and the pours of the beers it deletes go with them.
LEMMA CommitKeeps ==
  ASSUME Inv, TypeOK', NEW p \in Request, Commit(p)
  PROVE  Inv'
<1>1. ~At(p, "idle") /\ At(p, "commit") /\ req[p] \in Locals
  BY Typed DEF Inv, Commit, At
<1>2. AfterCommit(p) \in {"reread", "group", "reload"} /\ (Creating(p) => AfterCommit(p) = "reload")
  BY DEF AfterCommit, Creating, Creates, Op
<1>3. /\ req'[p].pc = AfterCommit(p) /\ req'[p].call = req[p].call /\ req'[p].id = req[p].id
      /\ wb'[p] = NoWrites /\ wr'[p] = NoWrites /\ clock' = clock
      /\ \A q \in Request \ {p} : req'[q] = req[q] /\ wb'[q] = wb[q] /\ wr'[q] = wr[q]
  BY <1>1 DEF Commit, Inv, TypeOK, RequestsTyped, Locals
<1>4. \A i \in Id : wb'[p][i] = Same /\ wr'[p][i] = Same
  BY <1>3, NoWritesIsSame
<1>5. \A i \in Id : /\ beers'[i] = IF wb[p][i] = Same THEN beers[i] ELSE wb[p][i]
                    /\ reviews'[i] = IF wr[p][i] = Same THEN reviews[i] ELSE wr[p][i]
  BY SeenRows DEF Commit, Inv
<1>6. /\ OneWriter /\ FreshIds /\ CascadeComplete(p)
      /\ \A q \in Request : /\ PendingWhere(q) /\ WritesToRows(q)
                            /\ SharedBeersStay(q) /\ CascadeComplete(q)
  BY DEF Inv, LockDiscipline
<1>7. \A q \in Request : Creating(q)' = Creating(q) /\ Merging(q)' = Merging(q)
  BY <1>1, <1>2, <1>3 DEF Creating, Merging, At, Op
<1>8. ASSUME NEW q \in Request PROVE PendingWhere(q)'
  BY <1>3, <1>6 DEF PendingWhere
<1>9. ASSUME NEW q \in Request PROVE WritesToRows(q)'
  <2>1. CASE q = p
    BY <1>4, <2>1, Sentinels DEF WritesToRows
  <2>2. CASE q # p
    <3>1. \A i \in Id : /\ wb[q][i] # Same => beers'[i] = beers[i]
                        /\ wr[q][i] # Same => reviews'[i] = reviews[i]
      BY <1>5, <1>6, <2>2 DEF OneWriter
    <3> QED
      BY <1>3, <1>6, <1>7, <2>2, <3>1 DEF WritesToRows
  <2> QED
    BY <2>1, <2>2
<1>10. ASSUME NEW q \in Request PROVE SharedBeersStay(q)'
  <2>1. CASE q = p
    BY <1>4, <2>1 DEF SharedBeersStay, SharesBeer, IsRow
  <2>2. CASE q # p
    <3>1. SUFFICES ASSUME NEW i \in Id, SharesBeer(q, i)'
                   PROVE  /\ beers'[i] # None \/ IsRow(wb'[q][i])
                          /\ \A s \in Request \ {q} : wb'[s][i] # None
      BY DEF SharedBeersStay
    <3>2. PICK r \in Id : /\ IsRow(wr[q][r]) /\ wr[q][r].beer = i
                          /\ reviews'[r] = None \/ reviews'[r].beer # i
      BY <1>3, <2>2, <3>1 DEF SharesBeer
    <3>3. reviews'[r] = reviews[r]
      BY <1>5, <1>6, <2>2, <3>2 DEF OneWriter, IsRow
    <3>4. SharesBeer(q, i)
      BY <3>2, <3>3 DEF SharesBeer
    <3>5. /\ beers[i] # None \/ IsRow(wb[q][i])
          /\ \A s \in Request \ {q} : wb[s][i] # None
      BY <1>6, <3>4 DEF SharedBeersStay
    <3>6. beers[i] # None => beers'[i] # None
      BY <1>5, <2>2, <3>5
    <3> QED
      BY <1>3, <1>4, <2>2, <3>5, <3>6, Sentinels
  <2> QED
    BY <2>1, <2>2
<1>11. ASSUME NEW q \in Request PROVE CascadeComplete(q)'
  <2>1. CASE q = p
    BY <1>2, <1>3, <2>1 DEF CascadeComplete, At
  <2>2. CASE q # p
    <3>1. SUFFICES ASSUME At(q, "commit"), NEW r \in Id, SeenReviews(q)'[r] # None
                   PROVE  wb[q][SeenReviews(q)'[r].beer] # None
      BY <1>3, <2>2 DEF CascadeComplete, At
    <3>2. SeenReviews(q)'[r] = IF wr[q][r] = Same THEN reviews'[r] ELSE wr[q][r]
      <4>1. SeenReviews(q)' = View(reviews', wr[q]) /\ DOMAIN reviews' = Id
        BY <1>3, <2>2 DEF SeenReviews, TypeOK
      <4> QED
        BY <4>1, ViewRow
    <3>3. SeenReviews(q)[r] = IF wr[q][r] = Same THEN reviews[r] ELSE wr[q][r]
      BY SeenRows DEF Inv
    <3>4. CASE SeenReviews(q)'[r] = SeenReviews(q)[r]
      BY <1>6, <3>1, <3>4 DEF CascadeComplete
    <3>5. CASE SeenReviews(q)'[r] # SeenReviews(q)[r]
      <4> DEFINE i == wr[p][r].beer
      <4>1. wr[q][r] = Same /\ IsRow(wr[p][r]) /\ SeenReviews(q)'[r] = wr[p][r]
        BY <1>5, <3>1, <3>2, <3>3, <3>5 DEF IsRow
      <4>2. i \in Id
        <5>1. wr[p][r] \in Review
          BY <4>1 DEF IsRow, Inv, TypeOK
        <5> QED
          BY <5>1 DEF Review
      <4>3. CASE SharesBeer(p, i)
        BY <1>6, <2>2, <4>1, <4>2, <4>3 DEF SharedBeersStay
      <4>4. CASE ~SharesBeer(p, i)
        <5>1. reviews[r] # None /\ reviews[r].beer = i
          BY <4>1, <4>4 DEF SharesBeer
        <5>2. SeenReviews(q)[r] = reviews[r]
          BY <3>3, <4>1
        <5> QED
          BY <1>6, <3>1, <4>1, <5>1, <5>2 DEF CascadeComplete
      <4> QED
        BY <4>3, <4>4
    <3> QED
      BY <3>4, <3>5
  <2> QED
    BY <2>1, <2>2
<1>12. OneWriter'
  BY <1>3, <1>4, <1>6 DEF OneWriter
<1>13. FreshIds'
  <2>1. \A i \in Id : beers[i] = None /\ (Creating(p) => i # req[p].id) => beers'[i] = None
    BY <1>5, <1>6 DEF WritesToRows
  <2>2. \A i \in Id : reviews[i] = None /\ (Creating(p) => i # req[p].id) => reviews'[i] = None
    BY <1>5, <1>6 DEF WritesToRows
  <2>3. ASSUME NEW i \in Id, i > clock' PROVE beers'[i] = None /\ reviews'[i] = None
    <3>1. clock \in Int /\ i \in Int /\ i > clock
      BY <1>3, <2>3, CatalogAssumption DEF CatalogAssumption, Id, Inv, TypeOK
    <3>2. Creating(p) => req[p].id <= clock
      BY <1>6 DEF FreshIds
    <3>3. beers[i] = None /\ reviews[i] = None
      BY <1>6, <3>1 DEF FreshIds
    <3>4. Creating(p) => i # req[p].id
      BY <3>1, <3>2
    <3> QED
      BY <2>1, <2>2, <3>3, <3>4
  <2>4. ASSUME NEW q \in Request, Creating(q)', ~At(q, "reload")', ~At(q, "done")'
        PROVE  beers'[req'[q].id] = None /\ reviews'[req'[q].id] = None
    <3>1. q # p
      BY <1>2, <1>3, <1>7, <2>4 DEF At
    <3>2. Creating(q) /\ ~At(q, "reload") /\ ~At(q, "done") /\ req'[q].id = req[q].id
      BY <1>3, <1>7, <2>4, <3>1 DEF At
    <3>3. req[q].id \in Id
      BY <3>2, Typed DEF Creating, Proper, Inv
    <3>4. Creating(p) => req[q].id # req[p].id
      BY <1>6, <3>1, <3>2 DEF FreshIds
    <3>5. beers[req[q].id] = None /\ reviews[req[q].id] = None
      BY <1>6, <3>2 DEF FreshIds
    <3> QED
      BY <2>1, <2>2, <3>2, <3>3, <3>4, <3>5
  <2>5. \A q \in Request : req'[q].id = req[q].id
    BY <1>3
  <2> QED
    BY <1>3, <1>6, <1>7, <2>3, <2>4, <2>5 DEF FreshIds
<1>14. ReviewsHaveBeers'
  <2>1. SUFFICES ASSUME NEW r \in Id, reviews'[r] # None
                 PROVE  beers'[reviews'[r].beer] # None
    BY DEF ReviewsHaveBeers
  <2> DEFINE i == reviews'[r].beer
  <2>2. i \in Id
    BY <2>1 DEF TypeOK, Review
  <2>3. wb[p][i] # None
    BY <1>1, <1>6, <2>1 DEF CascadeComplete, Commit
  <2>4. CASE wb[p][i] # Same
    BY <1>5, <2>2, <2>3, <2>4
  <2>5. CASE wb[p][i] = Same
    <3>1. CASE reviews[r] # None /\ reviews[r].beer = i
      BY <1>5, <2>2, <2>5, <3>1 DEF Inv, ReviewsHaveBeers
    <3>2. CASE reviews[r] = None \/ reviews[r].beer # i
      <4>1. IsRow(wr[p][r]) /\ wr[p][r].beer = i
        BY <1>5, <2>1, <3>2 DEF IsRow
      <4>2. SharesBeer(p, i)
        BY <3>2, <4>1 DEF SharesBeer
      <4> QED
        BY <1>5, <1>6, <2>2, <2>5, <4>2 DEF SharedBeersStay, IsRow
    <3> QED
      BY <3>1, <3>2
  <2> QED
    BY <2>4, <2>5
<1> QED
  BY <1>8, <1>9, <1>10, <1>11, <1>12, <1>13, <1>14 DEF Inv, LockDiscipline

LEMMA ReloadsKeep ==
  ASSUME Inv, TypeOK', NEW p \in Request, RereadReview(p) \/ ReloadBeer(p)
  PROVE  Inv'
<1>1. ~At(p, "idle") /\ ~At(p, "done") /\ req[p] \in Locals /\ wb[p] = NoWrites /\ wr[p] = NoWrites
  BY Typed DEF Inv, RereadReview, ReloadBeer, At, LockDiscipline, PendingWhere
<1>2. CASE RereadReview(p)
  <2> DEFINE row == reviews[req[p].call.review]
             l == [req[p] EXCEPT !.pc = "reload", !.beer = row.beer]
  <2>1. CASE Reply(p, 500)
    BY <1>1, <2>1, ReplyStep
  <2>2. CASE req' = [req EXCEPT ![p].pc = "reload", ![p].beer = row.beer]
             /\ UNCHANGED <<db, clock, wb, wr>>
    <3>1. /\ req' = [req EXCEPT ![p] = l]
          /\ l.pc = "reload" /\ l.call = req[p].call /\ l.id = req[p].id
      BY <1>1, <2>2 DEF Locals
    <3> HIDE DEF l
    <3> QED
      BY <1>1, <2>2, <3>1, QuietStep
  <2> QED
    BY <1>2, <2>1, <2>2 DEF RereadReview
<1>3. CASE ReloadBeer(p)
  BY <1>1, <1>3, ReplyStep DEF ReloadBeer
<1> QED
  BY <1>2, <1>3

-----------------------------------------------------------------------------
LEMMA NextInv == Inv /\ [Next]_vars => Inv'
<1> SUFFICES ASSUME Inv, [Next]_vars PROVE Inv'
  OBVIOUS
<1>0. TypeOK'
  BY NextTypeOK DEF Inv
<1>1. ASSUME NEW p \in Request, Receive(p) PROVE Inv'
  BY <1>0, <1>1, ReceiveKeeps
<1>2. ASSUME NEW p \in Request, FindOrCreate(p) PROVE Inv'
  BY <1>0, <1>2, FindOrCreateKeeps
<1>3. ASSUME NEW p \in Request, ReviewEdit(p) PROVE Inv'
  BY <1>0, <1>3, InsertReviewKeeps, CheckOwnerKeeps, UpdateReviewKeeps, RemoveReviewKeeps
     DEF ReviewEdit
<1>4. ASSUME NEW p \in Request, PatchBeer(p) PROVE Inv'
  BY <1>0, <1>4, PatchBeerKeeps
<1>5. ASSUME NEW p \in Request, Dedupe(p) PROVE Inv'
  BY <1>0, <1>5, DedupeKeeps
<1>6. ASSUME NEW p \in Request, MergeBeersTx(p) PROVE Inv'
  BY <1>0, <1>6, MergeReadsKeep, FillSurvivorKeeps, ReassignReviewsKeeps, DeleteBeersKeeps,
     CascadeReviewsKeeps DEF MergeBeersTx
<1>7. ASSUME NEW p \in Request, Finish(p) PROVE Inv'
  BY <1>0, <1>7, CommitKeeps, ReloadsKeep DEF Finish
<1>8. ASSUME NEW p \in Request, Cancel(p) PROVE Inv'
  <2>1. CASE KeysFail(p)
    BY <1>0, <1>8, <2>1, ReplyStep DEF Cancel, KeysFail, Inv, LockDiscipline, PendingWhere, At
  <2>2. CASE ~KeysFail(p)
    BY <1>0, <1>8, <2>2, AbortStep DEF Cancel, GroupFails, MergeFails
  <2> QED
    BY <2>1, <2>2
<1>9. ASSUME NEW p \in Request, DeadlockVictim(p) PROVE Inv'
  <2>1. ~At(p, "idle")
    BY <1>9 DEF DeadlockVictim, Conflicts, At
  <2> QED
    BY <1>0, <1>9, <2>1, AbortStep DEF DeadlockVictim
<1>10. CASE UNCHANGED vars
  <2>1. /\ beers' = beers /\ reviews' = reviews /\ clock' = clock
        /\ req' = req /\ wb' = wb /\ wr' = wr
    BY <1>10 DEF vars
  <2>2. LockDiscipline'
    BY <2>1 DEF Inv, LockDiscipline, PendingWhere, WritesToRows, SharedBeersStay,
       CascadeComplete, OneWriter, FreshIds, SharesBeer, SeenReviews, Creating, Merging, At, Op
  <2> QED
    BY <1>0, <2>1, <2>2 DEF Inv, ReviewsHaveBeers
<1> QED
  BY <1>1, <1>2, <1>3, <1>4, <1>5, <1>6, <1>7, <1>8, <1>9, <1>10 DEF Next, Step

LEMMA Inductive == Spec => []Inv
  BY InitInv, NextInv, PTL DEF Spec

\* For every number of requests, beers, pours and calls: no committed pour lacks its beer,
\* although merges delete beers while users pour, edit and delete (beer_admin.go:301-313).
THEOREM Integrity == Spec => []ReviewsHaveBeers
<1>1. Inv => ReviewsHaveBeers
  BY DEF Inv
<1> QED
  BY <1>1, Inductive, PTL

\* And what keeps it so: who may hold which uncommitted writes.
THEOREM Discipline == Spec => []LockDiscipline
<1>1. Inv => LockDiscipline
  BY DEF Inv
<1> QED
  BY <1>1, Inductive, PTL
=============================================================================
