-------------------------- MODULE CatalogRefinement --------------------------
(***************************************************************************)
(* The handlers, run statement by statement, keep the promise of the        *)
(* catalog: each commit is one whole operation of CatalogPromise.  The       *)
(* invariant adds to that of CatalogIntegrity what each transaction holds    *)
(* of its own operation's work (WorkInOrder); from it follow the promise     *)
(* and what a 200 tells its caller.                                          *)
(***************************************************************************)
EXTENDS CatalogIntegrity

IInv == Inv /\ WorkInOrder

InOrder(p) == EditInOrder(p) /\ MergeInOrder(p) /\ MergedStayGone(p)

-----------------------------------------------------------------------------
(* Ids *)

\* The id of a row that is there was handed out, and by a request that is through.
LEMMA RowsAreUsed ==
  ASSUME Inv, NEW i \in Id, beers[i] # None \/ reviews[i] # None
  PROVE  Used(i)
<1>1. FreshIds /\ clock \in Int /\ i \in Int
  BY CatalogAssumption DEF CatalogAssumption, Inv, LockDiscipline, TypeOK, Id
<1>2. i <= clock
  BY <1>1 DEF FreshIds
<1> QED
  BY <1>1, <1>2 DEF FreshIds, Used

LEMMA UpTo ==
  ASSUME NEW n \in Nat
  PROVE  IsFiniteSet(1..n) /\ Cardinality(1..n) = n
  BY FS_Interval

\* A list of ids that names as many rows as it is long names rows only.
LEMMA CountAll ==
  ASSUME NEW ids \in Seq(Id), NEW s \in SUBSET {ids[n] : n \in DOMAIN ids},
         Cardinality(s) = Len(ids)
  PROVE  s = {ids[n] : n \in DOMAIN ids}
<1> DEFINE all == {ids[n] : n \in DOMAIN ids}
           range == 1..Len(ids)
<1>1. Len(ids) \in Nat /\ DOMAIN ids = range
  OBVIOUS
<1>2. IsFiniteSet(range) /\ Cardinality(range) = Len(ids)
  BY <1>1, UpTo
<1>3. \A x \in all : \E n \in range : ids[n] = x
  BY <1>1
<1>4. IsFiniteSet(all) /\ Cardinality(all) <= Cardinality(range)
  <2>1. [n \in range |-> ids[n]] \in Surjection(range, all)
    BY <1>1 DEF Surjection
  <2> QED
    BY <1>2, <2>1, FS_Surjection
<1>5. Cardinality(s) <= Cardinality(all) /\ (Cardinality(s) = Cardinality(all) => s = all)
  BY <1>4, FS_Subset
<1>6. Cardinality(all) \in Nat
  BY <1>4, FS_CardinalityType
<1> QED
  BY <1>1, <1>2, <1>4, <1>5, <1>6

-----------------------------------------------------------------------------
(* Fillings *)

\* Filling a blank from another row is one of the fillings the promise allows.
LEMMA FilledFits ==
  ASSUME NEW keep \in Beer, NEW src \in Beer
  PROVE  Filled(keep, src) \in Promise!Fillings(keep)
  BY FilledType DEF Filled, Promise!Fillings, Beer

LEMMA FillingsCompose ==
  ASSUME NEW a \in Beer, NEW b \in Promise!Fillings(a), NEW c \in Promise!Fillings(b)
  PROVE  c \in Promise!Fillings(a)
  BY DEF Promise!Fillings

-----------------------------------------------------------------------------
(* What p's step leaves of the others: their locals and writes, the rows they hold, the ids *)
(* in use, and the absence of rows under these.                                             *)

Frame(p) ==
  /\ \A q \in Request \ {p} : req'[q] = req[q] /\ wb'[q] = wb[q] /\ wr'[q] = wr[q]
  /\ \A q \in Request \ {p}, i \in Id : /\ wb[q][i] # Same => beers'[i] = beers[i]
                                        /\ wr[q][i] # Same => reviews'[i] = reviews[i]
  /\ \A i \in Id : Used(i) =>
       /\ Used(i)'
       /\ beers[i] = None => beers'[i] = None
       /\ reviews[i] = None => reviews'[i] = None

\* The work of the others stays in order.
LEMMA FrameKeepsOthers ==
  ASSUME IInv, TypeOK', NEW p \in Request, Frame(p), NEW q \in Request \ {p}
  PROVE  InOrder(q)'
<1>1. /\ Inv /\ TypeOK /\ EditInOrder(q) /\ MergeInOrder(q) /\ MergedStayGone(q)
      /\ req[q] \in Locals /\ (~At(q, "idle") => req[q].call \in Call)
  BY Typed DEF IInv, Inv, WorkInOrder
<1>2. /\ req'[q] = req[q] /\ wb'[q] = wb[q] /\ wr'[q] = wr[q]
      /\ \A i \in Id : /\ wb[q][i] # Same => beers'[i] = beers[i]
                       /\ wr[q][i] # Same => reviews'[i] = reviews[i]
  BY DEF Frame
<1>3. \A i \in Id : Used(i) =>
        /\ Used(i)'
        /\ beers[i] = None => beers'[i] = None
        /\ reviews[i] = None => reviews'[i] = None
  BY DEF Frame
<1>4. At(q, "idle")' = At(q, "idle") /\ Op(q)' = Op(q) /\ Ids(q)' = Ids(q)
      /\ Merging(q)' = Merging(q) /\ At(q, "delete")' = At(q, "delete")
      /\ At(q, "reload")' = At(q, "reload") /\ At(q, "done")' = At(q, "done")
  BY <1>2 DEF At, Op, Ids, Merging
<1>5. \A i \in Ids(q) : i \in Id
  BY <1>1 DEF Ids, Locals
<1>6. EditInOrder(q)'
  <2>1. SUFFICES ASSUME ~At(q, "idle"), Op(q) = "ReviewUpdate"
                 PROVE  EditInOrder(q)'
    BY <1>4 DEF EditInOrder
  <2>2. req[q].call.review \in Id
    BY <1>1, <2>1, CallTypes DEF Op, ReviewUpdateCall
  <2> QED
    BY <1>1, <1>2, <1>3, <1>4, <2>1, <2>2 DEF EditInOrder
<1>7. MergeInOrder(q)'
  <2>1. SUFFICES ASSUME Merging(q)
                 PROVE  MergeInOrder(q)'
    BY <1>4 DEF MergeInOrder
  <2>2. \A i \in Id : wb'[q][i] # Same =>
          \/ i \in Ids(q)' /\ wb'[q][i] = None
          \/ i = req'[q].beer /\ wb'[q][i] \in Promise!Fillings(beers'[i])
    BY <1>1, <1>2, <1>4, <2>1 DEF MergeInOrder
  <2>3. \A r \in Id : wr'[q][r] # Same =>
          /\ reviews'[r].beer \in Ids(q)'
          /\ wr'[q][r] \in {None, [reviews'[r] EXCEPT !.beer = req'[q].beer]}
    BY <1>1, <1>2, <1>4, <2>1 DEF MergeInOrder
  <2>4. ASSUME req[q].pc \in {"cascade", "commit"}
        PROVE  /\ \A i \in Ids(q) : SeenBeers(q)'[i] = None
               /\ \A r \in Id : wr'[q][r] # Same => wb'[q][reviews'[r].beer] = None
    <3>1. ASSUME NEW i \in Ids(q) PROVE SeenBeers(q)'[i] = None
      <4>1. SeenBeers(q)'[i] = IF wb'[q][i] = Same THEN beers'[i] ELSE wb'[q][i]
        BY <1>5, ViewRow DEF SeenBeers, TypeOK
      <4>2. SeenBeers(q)[i] = IF wb[q][i] = Same THEN beers[i] ELSE wb[q][i]
        BY <1>1, <1>5, SeenRows
      <4>3. Used(i) /\ SeenBeers(q)[i] = None
        BY <1>1, <2>1, <2>4 DEF MergedStayGone, MergeInOrder
      <4> QED
        BY <1>2, <1>3, <1>5, <4>1, <4>2, <4>3
    <3> QED
      BY <1>1, <1>2, <2>1, <2>4, <3>1 DEF MergeInOrder
  <2> QED
    BY <1>1, <1>2, <1>4, <2>1, <2>2, <2>3, <2>4 DEF MergeInOrder
<1>8. MergedStayGone(q)'
  BY <1>1, <1>2, <1>3, <1>4, <1>5 DEF MergedStayGone
<1> QED
  BY <1>6, <1>7, <1>8 DEF InOrder

\* A step that commits nothing.
LEMMA LocalFrame ==
  ASSUME Inv, NEW p \in Request, UNCHANGED <<db, clock>>,
         \A q \in Request \ {p} : req'[q] = req[q] /\ wb'[q] = wb[q] /\ wr'[q] = wr[q],
         ~At(p, "idle"), req'[p].pc # "idle",
         req'[p].call = req[p].call, req'[p].id = req[p].id,
         At(p, "reload") \/ At(p, "done") => req'[p].pc \in {"reload", "done"}
  PROVE  Frame(p)
<1>1. beers' = beers /\ reviews' = reviews /\ clock' = clock
  BY DEF db
<1>2. \A q \in Request : /\ Creating(q)' = Creating(q) /\ req'[q].id = req[q].id
                         /\ At(q, "reload") \/ At(q, "done") =>
                              At(q, "reload")' \/ At(q, "done")'
  BY DEF Creating, At
<1>3. \A i \in Id : Used(i) => Used(i)'
  BY <1>1, <1>2 DEF Used
<1> QED
  BY <1>1, <1>3 DEF Frame

-----------------------------------------------------------------------------
(* The steps of one request. *)

LEMMA AllInOrder ==
  ASSUME IInv, TypeOK', NEW p \in Request, Frame(p), InOrder(p)'
  PROVE  WorkInOrder'
<1>1. \A q \in Request \ {p} : InOrder(q)'
  BY FrameKeepsOthers
<1> QED
  BY <1>1 DEF WorkInOrder, InOrder

\* Creates, deletes and PATCHes have no work to keep in order.
LEMMA Indifferent ==
  ASSUME NEW p \in Request, req'[p].call = req[p].call,
         Op(p) \notin {"ReviewUpdate", "Merge", "DedupeExact"}
  PROVE  InOrder(p)'
  BY DEF InOrder, EditInOrder, MergeInOrder, MergedStayGone, Merging, Op

LEMMA LocalStep ==
  ASSUME IInv, TypeOK', NEW p \in Request, NEW l, req' = [req EXCEPT ![p] = l],
         UNCHANGED <<db, clock>>,
         \A q \in Request \ {p} : wb'[q] = wb[q] /\ wr'[q] = wr[q],
         ~At(p, "idle"), l.pc # "idle", l.call = req[p].call, l.id = req[p].id,
         At(p, "reload") \/ At(p, "done") => l.pc \in {"reload", "done"},
         Op(p) \in {"ReviewUpdate", "Merge", "DedupeExact"} => InOrder(p)'
  PROVE  WorkInOrder'
<1>1. req'[p] = l /\ \A q \in Request \ {p} : req'[q] = req[q]
  BY DEF IInv, Inv, TypeOK, RequestsTyped
<1>2. Frame(p)
  BY <1>1, LocalFrame DEF IInv
<1>3. InOrder(p)'
  BY <1>1, Indifferent
<1> QED
  BY <1>2, <1>3, AllInOrder

LEMMA AbortInOrder ==
  ASSUME IInv, TypeOK', NEW p \in Request, ~At(p, "idle"), NEW code, code # 200, Abort(p, code)
  PROVE  WorkInOrder'
<1> DEFINE l == [req[p] EXCEPT !.pc = "done", !.status = code, !.open = FALSE]
<1>1. /\ req' = [req EXCEPT ![p] = l] /\ req'[p] = l
      /\ l.pc = "done" /\ l.call = req[p].call /\ l.id = req[p].id /\ l.status = code
  BY Typed DEF Abort, Locals, IInv, Inv, TypeOK, RequestsTyped
<1>2. /\ UNCHANGED <<db, clock>> /\ wb'[p] = NoWrites /\ wr'[p] = NoWrites
      /\ \A q \in Request \ {p} : wb'[q] = wb[q] /\ wr'[q] = wr[q]
  BY DEF Abort, IInv, Inv, TypeOK
<1> HIDE DEF l
<1>3. InOrder(p)'
  <2>1. \A i \in Id : wb'[p][i] = Same /\ wr'[p][i] = Same
    BY <1>2, NoWritesIsSame
  <2>2. EditInOrder(p)'
    BY <1>1, <1>2, <2>1 DEF EditInOrder, At
  <2>3. MergeInOrder(p)'
    BY <1>1, <2>1 DEF MergeInOrder, At
  <2>4. MergedStayGone(p)'
    BY <1>1 DEF MergedStayGone, At
  <2> QED
    BY <2>2, <2>3, <2>4 DEF InOrder
<1> QED
  BY <1>1, <1>2, <1>3, LocalStep

\* An answer from outside a transaction; a merge's 200 says that the merged beers are gone.
LEMMA ReplyInOrder ==
  ASSUME IInv, TypeOK', NEW p \in Request, ~At(p, "idle"), NEW code, Reply(p, code),
         wb[p] = NoWrites, wr[p] = NoWrites,
         code = 200 /\ Op(p) = "Merge" => \A i \in Ids(p) : Used(i) /\ beers[i] = None
  PROVE  WorkInOrder'
<1> DEFINE l == [req[p] EXCEPT !.pc = "done", !.status = code]
<1>1. /\ req' = [req EXCEPT ![p] = l] /\ req'[p] = l
      /\ l.pc = "done" /\ l.call = req[p].call /\ l.id = req[p].id /\ l.status = code
      /\ l.ids = req[p].ids
  BY Typed DEF Reply, Locals, IInv, Inv, TypeOK, RequestsTyped
<1>2. /\ UNCHANGED <<db, clock>> /\ wb' = wb /\ wr' = wr
  BY DEF Reply
<1>3. \A q \in Request \ {p} : req'[q] = req[q]
  BY DEF Reply, IInv, Inv, TypeOK, RequestsTyped
<1> HIDE DEF l
<1>4. Frame(p)
  BY <1>1, <1>2, <1>3, LocalFrame DEF IInv
<1>5. InOrder(p)'
  <2>1. \A i \in Id : wb'[p][i] = Same /\ wr'[p][i] = Same
    BY <1>2, NoWritesIsSame
  <2>2. EditInOrder(p)'
    BY <1>1, <1>2, <2>1 DEF EditInOrder, At
  <2>3. MergeInOrder(p)'
    BY <1>1, <2>1 DEF MergeInOrder, At
  <2>4. MergedStayGone(p)'
    <3>1. SUFFICES ASSUME code = 200, Op(p) = "Merge"
                   PROVE  \A i \in Ids(p) : Used(i)' /\ beers'[i] = None
      BY <1>1 DEF MergedStayGone, At, Ids, Op
    <3>2. \A i \in Ids(p) : i \in Id
      BY Typed DEF Ids, Locals, IInv, Inv
    <3> QED
      BY <1>4, <3>1, <3>2 DEF Frame
  <2> QED
    BY <2>2, <2>3, <2>4 DEF InOrder
<1> QED
  BY <1>4, <1>5, AllInOrder

\* A statement of a merge or dedupe that only reads.
LEMMA MergeReads ==
  ASSUME IInv, TypeOK', NEW p \in Request, NEW l, req' = [req EXCEPT ![p] = l],
         UNCHANGED <<db, clock, wb, wr>>, Merging(p), ~At(p, "reload"), ~At(p, "done"),
         l.call = req[p].call, l.id = req[p].id,
         l.pc \in {"group", "ids", "exists", "count", "fill", "filling", "reassign"},
         \/ wb[p] = NoWrites /\ wr[p] = NoWrites
         \/ l.ids = req[p].ids /\ l.beer = req[p].beer,
         l.pc \in {"fill", "filling", "reassign"} => \A n \in DOMAIN l.ids : Used(l.ids[n])
  PROVE  WorkInOrder'
<1>1. req'[p] = l /\ \A q \in Request \ {p} : req'[q] = req[q]
  BY DEF IInv, Inv, TypeOK, RequestsTyped
<1>2. wb'[p] = wb[p] /\ wr'[p] = wr[p] /\ beers' = beers /\ reviews' = reviews /\ ~At(p, "idle")
  BY DEF db, Merging
<1>3. Frame(p)
  BY <1>1, <1>2, LocalFrame DEF IInv
<1>4. MergeInOrder(p)'
  <2>1. MergeInOrder(p)
    BY DEF IInv, WorkInOrder
  <2>2. CASE wb[p] = NoWrites /\ wr[p] = NoWrites
    <3>1. \A i \in Id : wb'[p][i] = Same /\ wr'[p][i] = Same
      BY <1>2, <2>2, NoWritesIsSame
    <3> QED
      BY <1>1, <3>1 DEF MergeInOrder, At
  <2>3. CASE l.ids = req[p].ids /\ l.beer = req[p].beer
    <3>1. Ids(p)' = Ids(p)
      BY <1>1, <2>3 DEF Ids
    <3> QED
      BY <1>1, <1>2, <2>1, <2>3, <3>1 DEF MergeInOrder, At
  <2> QED
    BY <2>2, <2>3
<1>5. MergedStayGone(p)'
  <2>1. l.pc \in {"fill", "filling", "reassign"} => \A i \in Ids(p)' : Used(i)'
    <3>1. ASSUME l.pc \in {"fill", "filling", "reassign"}, NEW i \in Ids(p)'
          PROVE  Used(i)'
      <4>1. Used(i)
        BY <1>1, <3>1 DEF Ids
      <4>2. i \in Id
        BY <1>1, <3>1 DEF Ids, TypeOK, RequestsTyped, Locals
      <4> QED
        BY <1>1, <1>2, <4>1, <4>2 DEF Used, Creating, At, Merging
    <3> QED
      BY <3>1
  <2> QED
    BY <1>1, <2>1 DEF MergedStayGone, At
<1>6. EditInOrder(p)'
  BY <1>1 DEF EditInOrder, Merging, Op
<1> QED
  BY <1>3, <1>4, <1>5, <1>6, AllInOrder DEF InOrder

-----------------------------------------------------------------------------
(* Creates, and the edits of pours. *)

LEMMA CreateInOrder ==
  ASSUME IInv, TypeOK', NEW p \in Request, FindOrCreate(p) \/ InsertReview(p)
  PROVE  WorkInOrder'
<1>1. /\ ~At(p, "idle") /\ ~At(p, "reload") /\ ~At(p, "done") /\ req[p] \in Locals
      /\ Op(p) \in {"BeerCreate", "ReviewCreate"}
  BY Typed, OpAt DEF IInv, Inv, FindOrCreate, LookupBeer, InsertBeer, InsertReview, At
<1>2. CASE Abort(p, 500)
  BY <1>1, <1>2, AbortInOrder
<1>3. CASE ~Abort(p, 500)
  <2> DEFINE found(i) == [req[p] EXCEPT !.pc = AfterBeer(p), !.beer = i]
             to(label) == [req[p] EXCEPT !.pc = label]
  <2>1. \/ \E i : req' = [req EXCEPT ![p] = found(i)]
        \/ req' = [req EXCEPT ![p] = to("insertBeer")]
        \/ req' = [req EXCEPT ![p] = to("commit")]
    BY <1>3 DEF FindOrCreate, LookupBeer, InsertBeer, InsertReview, Goto
  <2>2. /\ \A i : /\ found(i).pc = AfterBeer(p) /\ found(i).call = req[p].call
                  /\ found(i).id = req[p].id
        /\ \A label : /\ to(label).pc = label /\ to(label).call = req[p].call
                      /\ to(label).id = req[p].id
        /\ AfterBeer(p) # "idle"
    BY <1>1 DEF Locals, AfterBeer
  <2>3. /\ UNCHANGED <<db, clock>>
        /\ \A q \in Request \ {p} : wb'[q] = wb[q] /\ wr'[q] = wr[q]
    BY <1>3 DEF FindOrCreate, LookupBeer, InsertBeer, InsertReview, IInv, Inv, TypeOK
  <2> HIDE DEF found, to
  <2>4. PICK l : req' = [req EXCEPT ![p] = l] /\ l.pc # "idle" /\ l.call = req[p].call
                 /\ l.id = req[p].id
    BY <2>1, <2>2
  <2> QED
    BY <1>1, <2>3, <2>4, LocalStep
<1> QED
  BY <1>2, <1>3

LEMMA CheckOwnerInOrder ==
  ASSUME IInv, TypeOK', NEW p \in Request, CheckOwner(p)
  PROVE  WorkInOrder'
<1> DEFINE l == [req[p] EXCEPT !.pc = "update"]
<1>1. /\ ~At(p, "idle") /\ ~At(p, "reload") /\ ~At(p, "done") /\ req[p] \in Locals
      /\ wb[p] = NoWrites /\ wr[p] = NoWrites
      /\ Op(p) = "ReviewUpdate" /\ req[p].call \in ReviewUpdateCall
  BY Typed, OpAt, CallTypes
     DEF IInv, Inv, CheckOwner, At, LockDiscipline, PendingWhere, Op
<1>2. CASE Abort(p, 404)
  BY <1>1, <1>2, AbortInOrder
<1>3. CASE /\ OwnedBy(SeenReviews(p)[req[p].call.review], req[p].call.user)
           /\ Goto(p, "update") /\ UNCHANGED <<db, clock, wb, wr>>
  <2>1. PICK r \in Id : r = req[p].call.review /\ reviews[r] # None
    BY <1>1, <1>3, SeenRows, NoWritesIsSame DEF ReviewUpdateCall, OwnedBy, IInv, Inv
  <2>2. /\ req' = [req EXCEPT ![p] = l] /\ req'[p] = l
        /\ l.pc = "update" /\ l.call = req[p].call /\ l.id = req[p].id
        /\ \A q \in Request \ {p} : req'[q] = req[q]
    BY <1>1, <1>3 DEF Goto, Locals, IInv, Inv, TypeOK, RequestsTyped
  <2> HIDE DEF l
  <2>3. Frame(p)
    BY <1>1, <1>3, <2>2, LocalFrame DEF IInv
  <2>4. Used(r)'
    BY <2>1, <2>3, RowsAreUsed DEF Frame, IInv
  <2>5. InOrder(p)'
    <3>1. \A i \in Id : wr'[p][i] = Same
      BY <1>1, <1>3, NoWritesIsSame
    <3>2. EditInOrder(p)'
      BY <1>1, <1>3, <2>1, <2>2, <2>4, <3>1 DEF EditInOrder, At
    <3> QED
      BY <1>1, <2>2, <3>2 DEF InOrder, MergeInOrder, MergedStayGone, Merging, Op
  <2> QED
    BY <2>3, <2>5, AllInOrder
<1> QED
  BY <1>2, <1>3 DEF CheckOwner

LEMMA UpdateReviewInOrder ==
  ASSUME IInv, TypeOK', NEW p \in Request, UpdateReview(p)
  PROVE  WorkInOrder'
<1>1. /\ ~At(p, "idle") /\ ~At(p, "reload") /\ ~At(p, "done") /\ req[p] \in Locals
      /\ wb[p] = NoWrites /\ wr[p] = NoWrites
      /\ Op(p) = "ReviewUpdate" /\ req[p].call \in ReviewUpdateCall
  BY Typed, OpAt, CallTypes DEF IInv, Inv, UpdateReview, At, LockDiscipline, PendingWhere, Op
<1>0. PICK r \in Id : r = req[p].call.review
  BY <1>1 DEF ReviewUpdateCall
<1> DEFINE row == SeenReviews(p)[r]
           new == [row EXCEPT !.rated = req[p].call.rated]
           l == [req[p] EXCEPT !.pc = "commit", !.hit = (row # None)]
<1>2. r \in Id /\ row = reviews[r]
  BY <1>1, SeenRows, NoWritesIsSame DEF IInv, Inv
<1>3. /\ req' = [req EXCEPT ![p] = l] /\ req'[p] = l
      /\ l.pc = "commit" /\ l.call = req[p].call /\ l.id = req[p].id /\ l.hit = (row # None)
      /\ \A q \in Request \ {p} : req'[q] = req[q] /\ wr'[q] = wr[q]
      /\ UNCHANGED <<db, clock, wb>>
  BY <1>0, <1>1, ZenonT(60) DEF UpdateReview, Locals, IInv, Inv, TypeOK, RequestsTyped
<1>4. \A i \in Id : wr'[p][i] = IF i = r /\ row # None THEN new ELSE Same
  BY <1>0, <1>1, <1>2, NoWritesIsSame DEF UpdateReview, IInv, Inv, TypeOK
<1>5. row # None => new.user = row.user /\ new.beer = row.beer
  BY <1>2 DEF IInv, Inv, TypeOK, Review
<1> HIDE DEF row, new, l
<1>6. Frame(p)
  BY <1>1, <1>3, LocalFrame DEF IInv
<1>7. Used(r)'
  <2>1. Used(r)
    BY <1>0, <1>1 DEF IInv, WorkInOrder, EditInOrder, UpdateReview, At
  <2> QED
    BY <1>2, <1>6, <2>1 DEF Frame
<1>8. InOrder(p)'
  <2>1. reviews' = reviews /\ wb'[p] = NoWrites
    BY <1>1, <1>3 DEF db
  <2>2. /\ req'[p].call.review = r /\ req'[p].pc = "commit"
        /\ req'[p].hit \/ reviews'[r] = None
    BY <1>0, <1>2, <1>3, <2>1
  <2>3. \A i \in Id : wr'[p][i] # Same =>
          i = r /\ wr'[p][i].user = reviews'[i].user /\ wr'[p][i].beer = reviews'[i].beer
    BY <1>2, <1>4, <1>5, <2>1
  <2>4. EditInOrder(p)'
    BY <1>7, <2>1, <2>2, <2>3 DEF EditInOrder, At
  <2> QED
    BY <1>1, <1>3, <2>4 DEF InOrder, MergeInOrder, MergedStayGone, Merging, Op
<1> QED
  BY <1>6, <1>8, AllInOrder

\* The pour that goes is held by nobody.
LEMMA RemoveReviewInOrder ==
  ASSUME IInv, TypeOK', NEW p \in Request, RemoveReview(p)
  PROVE  WorkInOrder'
<1> DEFINE r == req[p].call.review
<1>1. /\ ~At(p, "idle") /\ ~At(p, "reload") /\ ~At(p, "done") /\ req[p] \in Locals
      /\ wb[p] = NoWrites /\ wr[p] = NoWrites /\ ~Creating(p)
      /\ Op(p) = "ReviewDelete" /\ req[p].call \in ReviewDeleteCall
  BY Typed, OpAt, CallTypes
     DEF IInv, Inv, RemoveReview, At, LockDiscipline, PendingWhere, Op, Creating, Creates
<1>2. CASE Reply(p, 404)
  BY <1>1, <1>2, ReplyInOrder
<1>3. CASE /\ OwnedBy(reviews[r], req[p].call.user)
           /\ reviews' = [reviews EXCEPT ![r] = None]
           /\ \E code \in {204, 404} :
                req' = [req EXCEPT ![p].pc = "done", ![p].status = code]
           /\ UNCHANGED <<beers, clock, wb, wr>>
  <2>1. r \in Id /\ reviews[r] # None
    BY <1>1, <1>3 DEF ReviewDeleteCall, OwnedBy
  <2>2. /\ req'[p].pc = "done" /\ req'[p].call = req[p].call /\ req'[p].id = req[p].id
        /\ \A q \in Request \ {p} : req'[q] = req[q]
        /\ beers' = beers /\ clock' = clock /\ wb' = wb /\ wr' = wr
    BY <1>1, <1>3 DEF IInv, Inv, TypeOK, RequestsTyped, Locals
  <2>3. \A q \in Request \ {p} : wr[q][r] = Same
    BY <1>1, <2>1 DEF RemoveReview, Free, Conflicts, At
  <2> HIDE DEF r
  <2>4. \A i \in Id : reviews'[i] = IF i = r THEN None ELSE reviews[i]
    BY <1>3, <2>1 DEF IInv, Inv, TypeOK
  <2>5. \A i \in Id : Used(i) => Used(i)'
    BY <1>1, <2>2 DEF Used, Creating, At
  <2>6. Frame(p)
    BY <2>2, <2>3, <2>4, <2>5 DEF Frame
  <2>7. InOrder(p)'
    BY <1>1, <2>2, Indifferent
  <2> QED
    BY <2>6, <2>7, AllInOrder
<1> QED
  BY <1>2, <1>3 DEF RemoveReview

\* The row that is patched is held by nobody.
LEMMA PatchBeerInOrder ==
  ASSUME IInv, TypeOK', NEW p \in Request, PatchBeer(p)
  PROVE  WorkInOrder'
<1> DEFINE b == req[p].beer
<1>1. /\ ~At(p, "idle") /\ ~At(p, "reload") /\ ~At(p, "done") /\ req[p] \in Locals
      /\ wb[p] = NoWrites /\ wr[p] = NoWrites /\ b \in Id /\ Op(p) = "BeerUpdate"
  BY Typed, OpAt DEF IInv, Inv, PatchBeer, At, LockDiscipline, PendingWhere, Op, Proper
<1>2. CASE Reply(p, 404)
  BY <1>1, <1>2, ReplyInOrder
<1>3. CASE /\ beers[b] # None
           /\ beers' = [beers EXCEPT ![b] = Patched(@, req[p].call)]
           /\ Goto(p, "reload")
           /\ UNCHANGED <<reviews, clock, wb, wr>>
  <2>1. /\ req'[p].pc = "reload" /\ req'[p].call = req[p].call /\ req'[p].id = req[p].id
        /\ \A q \in Request \ {p} : req'[q] = req[q]
    BY <1>1, <1>3 DEF Goto, IInv, Inv, TypeOK, RequestsTyped, Locals
  <2>2. \A q \in Request \ {p} : wb[q][b] = Same
    BY <1>3 DEF PatchBeer, Free, Conflicts
  <2>3. \A i \in Id : i # b => beers'[i] = beers[i]
    BY <1>3 DEF IInv, Inv, TypeOK
  <2> HIDE DEF b
  <2>4. \A i \in Id : Used(i) => Used(i)'
    BY <1>1, <1>3, <2>1 DEF Used, Creating, Creates, Op, At
  <2>5. Frame(p)
    BY <1>3, <2>1, <2>2, <2>3, <2>4 DEF Frame
  <2>6. InOrder(p)'
    BY <1>1, <2>1, Indifferent
  <2> QED
    BY <2>5, <2>6, AllInOrder
<1> QED
  BY <1>2, <1>3 DEF PatchBeer

-----------------------------------------------------------------------------
(* Merges and dedupes. *)

\* What a request inside mergeBeersTx has.
LEMMA InMerge ==
  ASSUME IInv, NEW p \in Request,
         req[p].pc \in {"exists", "count", "fill", "filling", "reassign", "delete", "cascade"}
  PROVE  /\ Inv /\ TypeOK /\ ~At(p, "idle") /\ ~At(p, "reload") /\ ~At(p, "done")
         /\ Merging(p) /\ ~Creating(p) /\ Op(p) \in {"Merge", "DedupeExact"}
         /\ req[p] \in Locals /\ req[p].beer \in Id /\ Ids(p) \subseteq Id
         /\ EditInOrder(p) /\ MergeInOrder(p) /\ MergedStayGone(p) /\ WritesToRows(p)
<1>1. Inv /\ TypeOK /\ EditInOrder(p) /\ MergeInOrder(p) /\ MergedStayGone(p) /\ WritesToRows(p)
  BY DEF IInv, Inv, WorkInOrder, LockDiscipline
<1>2. ~At(p, "idle") /\ ~At(p, "reload") /\ ~At(p, "done") /\ Op(p) \in {"Merge", "DedupeExact"}
  BY <1>1, OpAt DEF At
<1>3. req[p] \in Locals /\ req[p].beer \in Id
  BY <1>1, <1>2, Typed DEF Proper
<1>4. Ids(p) \subseteq Id
  BY <1>3 DEF Ids, Locals
<1>5. Merging(p) /\ ~Creating(p)
  BY <1>2 DEF Merging, Creating, Creates, Op
<1> QED
  BY <1>1, <1>2, <1>3, <1>4, <1>5

LEMMA DedupeInOrder ==
  ASSUME IInv, TypeOK', NEW p \in Request, Dedupe(p)
  PROVE  WorkInOrder'
<1>1. /\ ~At(p, "idle") /\ ~At(p, "reload") /\ ~At(p, "done") /\ req[p] \in Locals
      /\ wb[p] = NoWrites /\ wr[p] = NoWrites /\ Op(p) = "DedupeExact" /\ Merging(p)
  BY Typed, OpAt
     DEF IInv, Inv, Dedupe, QueryKeys, BeginGroup, QueryGroup, FinishDedupe, At, LockDiscipline,
         PendingWhere, Merging
<1>2. CASE FinishDedupe(p)
  BY <1>1, <1>2, ReplyInOrder DEF FinishDedupe
<1>3. CASE QueryKeys(p)
  <2> DEFINE l == [req[p] EXCEPT !.pc = "group", !.keys = DuplicateKeys(beers)]
  <2>1. /\ req' = [req EXCEPT ![p] = l]
        /\ l.pc = "group" /\ l.call = req[p].call /\ l.id = req[p].id
    BY <1>1, <1>3 DEF QueryKeys, Locals
  <2> HIDE DEF l
  <2> QED
    BY <1>1, <1>3, <2>1, MergeReads DEF QueryKeys
<1>4. CASE QueryGroup(p)
  <2>1. PICK k \in req[p].keys : \E ids \in Ranked(Group(beers, k)) :
          \/ SkipGroup(p, k)
          \/ /\ Len(ids) > 1
             /\ req' = [req EXCEPT ![p].keys = @ \ {k}, ![p].pc = "exists", ![p].filled = 0,
                                   ![p].beer = Head(ids), ![p].ids = Tail(ids)]
    BY <1>4 DEF QueryGroup
  <2>2. PICK ids \in Ranked(Group(beers, k)) :
          \/ SkipGroup(p, k)
          \/ /\ Len(ids) > 1
             /\ req' = [req EXCEPT ![p].keys = @ \ {k}, ![p].pc = "exists", ![p].filled = 0,
                                   ![p].beer = Head(ids), ![p].ids = Tail(ids)]
    BY <2>1
  <2> DEFINE l1 == [req[p] EXCEPT !.pc = "group", !.keys = @ \ {k}, !.open = FALSE]
             l2 == [req[p] EXCEPT !.keys = @ \ {k}, !.pc = "exists", !.filled = 0,
                                  !.beer = Head(ids), !.ids = Tail(ids)]
  <2>3. /\ l1.pc = "group" /\ l1.call = req[p].call /\ l1.id = req[p].id
        /\ l2.pc = "exists" /\ l2.call = req[p].call /\ l2.id = req[p].id
    BY <1>1, <1>4 DEF QueryGroup, At, Locals
  <2>4. req' = [req EXCEPT ![p] = l1] \/ req' = [req EXCEPT ![p] = l2]
    BY <2>2 DEF SkipGroup
  <2>5. UNCHANGED <<db, clock, wb, wr>>
    BY <1>4 DEF QueryGroup
  <2> HIDE DEF l1, l2
  <2> QED
    BY <1>1, <2>3, <2>4, <2>5, MergeReads
<1>5. CASE BeginGroup(p)
  <2> DEFINE l == [req[p] EXCEPT !.pc = "ids", !.open = TRUE]
  <2>1. /\ req' = [req EXCEPT ![p] = l]
        /\ l.pc = "ids" /\ l.call = req[p].call /\ l.id = req[p].id
    BY <1>1, <1>5 DEF BeginGroup, Locals
  <2> HIDE DEF l
  <2> QED
    BY <1>1, <1>5, <2>1, MergeReads DEF BeginGroup
<1> QED
  BY <1>2, <1>3, <1>4, <1>5 DEF Dedupe

LEMMA MergeReadsInOrder ==
  ASSUME IInv, TypeOK', NEW p \in Request,
         CheckKeep(p) \/ CheckMerged(p) \/ ReadSource(p) \/ TargetReviews(p)
  PROVE  WorkInOrder'
<1>1. /\ Inv /\ TypeOK /\ ~At(p, "idle") /\ ~At(p, "reload") /\ ~At(p, "done")
      /\ Merging(p) /\ req[p] \in Locals /\ Ids(p) \subseteq Id /\ MergedStayGone(p)
  BY InMerge DEF CheckKeep, CheckMerged, ReadSource, TargetReviews, At
<1>2. CASE Abort(p, MissingCode(p))
  BY <1>1, <1>2, AbortInOrder DEF MissingCode
<1>3. CASE /\ At(p, "exists") /\ Goto(p, "count")
           /\ UNCHANGED <<db, clock, wb, wr>>
  <2> DEFINE l == [req[p] EXCEPT !.pc = "count"]
  <2>1. /\ req' = [req EXCEPT ![p] = l]
        /\ l.pc = "count" /\ l.call = req[p].call /\ l.id = req[p].id
        /\ l.ids = req[p].ids /\ l.beer = req[p].beer
    BY <1>1, <1>3 DEF Goto, Locals
  <2> HIDE DEF l
  <2> QED
    BY <1>1, <1>3, <2>1, MergeReads
<1>4. CASE /\ At(p, "count") /\ Goto(p, "fill")
           /\ Cardinality({i \in Ids(p) : SeenBeers(p)[i] # None}) = Len(req[p].ids)
           /\ UNCHANGED <<db, clock, wb, wr>>
  <2> DEFINE l == [req[p] EXCEPT !.pc = "fill"]
             seen == {i \in Ids(p) : SeenBeers(p)[i] # None}
  <2>1. /\ req' = [req EXCEPT ![p] = l]
        /\ l.pc = "fill" /\ l.call = req[p].call /\ l.id = req[p].id
        /\ l.ids = req[p].ids /\ l.beer = req[p].beer
    BY <1>1, <1>4 DEF Goto, Locals
  <2>2. seen = Ids(p)
    <3>1. seen \in SUBSET {req[p].ids[n] : n \in DOMAIN req[p].ids}
      BY DEF Ids
    <3>2. req[p].ids \in Seq(Id)
      BY <1>1 DEF Locals
    <3>3. Cardinality(seen) = Len(req[p].ids)
      BY <1>4
    <3> HIDE DEF seen
    <3>4. seen = {req[p].ids[n] : n \in DOMAIN req[p].ids}
      BY <3>1, <3>2, <3>3, CountAll
    <3> QED
      BY <3>4 DEF Ids
  <2>3. \A i \in Ids(p) : Used(i)
    <3>1. wb[p] = NoWrites
      BY <1>1, <1>4 DEF Inv, LockDiscipline, PendingWhere, At
    <3>2. \A i \in Ids(p) : beers[i] # None
      BY <1>1, <2>2, <3>1, SeenRows, NoWritesIsSame
    <3> QED
      BY <1>1, <3>2, RowsAreUsed
  <2>4. \A n \in DOMAIN l.ids : Used(l.ids[n])
    BY <2>1, <2>3 DEF Ids
  <2> HIDE DEF l, seen
  <2> QED
    BY <1>1, <1>4, <2>1, <2>4, MergeReads
<1>5. CASE ReadSource(p)
  <2> DEFINE src == SeenBeers(p)[req[p].ids[req[p].filled + 1]]
             l == [req[p] EXCEPT !.pc = "filling", !.src = src]
  <2>1. /\ req' = [req EXCEPT ![p] = l]
        /\ l.pc = "filling" /\ l.call = req[p].call /\ l.id = req[p].id
        /\ l.ids = req[p].ids /\ l.beer = req[p].beer
    BY <1>1, <1>5 DEF ReadSource, Locals
  <2>2. \A n \in DOMAIN l.ids : Used(l.ids[n])
    BY <1>1, <1>5, <2>1 DEF MergedStayGone, ReadSource, At, Ids
  <2> HIDE DEF l
  <2> QED
    BY <1>1, <1>5, <2>1, <2>2, MergeReads DEF ReadSource
<1>6. CASE TargetReviews(p)
  <2> DEFINE targets == {r \in Id : /\ SeenReviews(p)[r] # None
                                    /\ SeenReviews(p)[r].beer \in Ids(p)}
             l == [req[p] EXCEPT !.pc = "reassign", !.targets = targets]
  <2>1. /\ req' = [req EXCEPT ![p] = l]
        /\ l.pc = "reassign" /\ l.call = req[p].call /\ l.id = req[p].id
        /\ l.ids = req[p].ids /\ l.beer = req[p].beer
    BY <1>1, <1>6 DEF TargetReviews, Locals
  <2>2. \A n \in DOMAIN l.ids : Used(l.ids[n])
    BY <1>1, <1>6, <2>1 DEF MergedStayGone, TargetReviews, At, Ids
  <2> HIDE DEF l
  <2> QED
    BY <1>1, <1>6, <2>1, <2>2, MergeReads DEF TargetReviews
<1> QED
  BY <1>2, <1>3, <1>4, <1>5, <1>6 DEF CheckKeep, CheckMerged

LEMMA FillSurvivorInOrder ==
  ASSUME IInv, TypeOK', NEW p \in Request, FillSurvivor(p)
  PROVE  WorkInOrder'
<1> DEFINE b == req[p].beer
           row == SeenBeers(p)[b]
           new == Filled(row, req[p].src)
           n == req[p].filled + 1
           l == [req[p] EXCEPT !.pc = "fill", !.filled = n, !.src = None]
<1>1. /\ Inv /\ TypeOK /\ ~At(p, "idle") /\ ~At(p, "reload") /\ ~At(p, "done")
      /\ Merging(p) /\ req[p] \in Locals /\ b \in Id /\ Ids(p) \subseteq Id
      /\ MergeInOrder(p) /\ MergedStayGone(p) /\ wr[p] = NoWrites /\ Op(p) # "ReviewUpdate"
      /\ WritesToRows(p) /\ ~Creating(p)
  BY InMerge DEF FillSurvivor, At, Inv, LockDiscipline, PendingWhere, Creating, Creates, Op
<1>2. /\ req' = [req EXCEPT ![p] = l]
      /\ l.pc = "fill" /\ l.call = req[p].call /\ l.id = req[p].id
      /\ l.ids = req[p].ids /\ l.beer = b /\ UNCHANGED <<db, clock, wr>>
  BY <1>1 DEF FillSurvivor, Locals
<1> HIDE DEF l, n
<1>3. req'[p] = l /\ \A q \in Request \ {p} : req'[q] = req[q]
  BY <1>1, <1>2 DEF TypeOK, RequestsTyped
<1>4. CASE wb' = wb
  <2>1. \A k \in DOMAIN l.ids : Used(l.ids[k])
    BY <1>1, <1>2 DEF MergedStayGone, FillSurvivor, At, Ids
  <2> QED
    BY <1>1, <1>2, <1>4, <2>1, MergeReads
<1>5. CASE req[p].src # None /\ row # None /\ wb' = [wb EXCEPT ![p][b] = new]
  <2>1. new \in Promise!Fillings(beers[b])
    <3>1. row \in Beer /\ req[p].src \in Beer
      BY <1>1, <1>5, Typed DEF Locals
    <3>2. new \in Promise!Fillings(row)
      BY <3>1, FilledFits
    <3>3. row = IF wb[p][b] = Same THEN beers[b] ELSE wb[p][b]
      BY <1>1, SeenRows
    <3>4. CASE wb[p][b] = Same
      BY <3>2, <3>3, <3>4
    <3>5. CASE wb[p][b] # Same
      <4>1. row \in Promise!Fillings(beers[b])
        BY <1>1, <1>5, <3>3, <3>5 DEF MergeInOrder
      <4>2. beers[b] \in Beer
        BY <1>1, <3>5 DEF WritesToRows, TypeOK
      <4> HIDE DEF row, b, new
      <4> QED
        BY <3>2, <4>1, <4>2, FillingsCompose
    <3> QED
      BY <3>4, <3>5
  <2>2. beers' = beers /\ reviews' = reviews /\ wr'[p] = NoWrites
        /\ \A q \in Request \ {p} : wb'[q] = wb[q] /\ wr'[q] = wr[q]
    BY <1>1, <1>2, <1>5 DEF db, TypeOK
  <2>3. \A i \in Id : wb'[p][i] = IF i = b THEN new ELSE wb[p][i]
    BY <1>1, <1>5 DEF TypeOK
  <2> HIDE DEF row, new
  <2>4. Ids(p)' = Ids(p)
    BY <1>2, <1>3 DEF Ids
  <2>5. Frame(p)
    BY <1>1, <1>2, <1>3, <2>2, LocalFrame
  <2>6. MergeInOrder(p)'
    <3>1. \A i \in Id : wr'[p][i] = Same
      BY <2>2, NoWritesIsSame
    <3>2. \A i \in Id : wb'[p][i] # Same =>
            \/ i \in Ids(p) /\ wb'[p][i] = None
            \/ i = b /\ wb'[p][i] \in Promise!Fillings(beers[i])
      BY <1>1, <2>1, <2>3 DEF MergeInOrder
    <3> QED
      BY <1>2, <1>3, <2>2, <2>4, <3>1, <3>2 DEF MergeInOrder, At
  <2>7. MergedStayGone(p)'
    <3>1. \A i \in Ids(p) : Used(i)
      BY <1>1 DEF MergedStayGone, FillSurvivor, At
    <3>2. \A i \in Ids(p) : Used(i)'
      BY <1>1, <2>5, <3>1 DEF Frame
    <3> QED
      BY <1>2, <1>3, <2>4, <3>2 DEF MergedStayGone, At
  <2>8. EditInOrder(p)'
    BY <1>1, <1>2, <1>3 DEF EditInOrder, Op
  <2> QED
    BY <2>5, <2>6, <2>7, <2>8, AllInOrder DEF InOrder
<1> QED
  BY <1>4, <1>5 DEF FillSurvivor

LEMMA ReassignReviewsInOrder ==
  ASSUME IInv, TypeOK', NEW p \in Request, ReassignReviews(p)
  PROVE  WorkInOrder'
<1> DEFINE b == req[p].beer
           New(r) == [SeenReviews(p)[r] EXCEPT !.beer = b]
           w == Write(wr[p], Moved(p), New)
           l == [req[p] EXCEPT !.pc = "delete", !.targets = Moved(p)]
<1>1. /\ Inv /\ TypeOK /\ ~At(p, "idle") /\ ~At(p, "reload") /\ ~At(p, "done")
      /\ Merging(p) /\ req[p] \in Locals /\ b \in Id /\ Ids(p) \subseteq Id
      /\ MergeInOrder(p) /\ MergedStayGone(p) /\ wr[p] = NoWrites /\ Op(p) # "ReviewUpdate"
  BY InMerge DEF ReassignReviews, At, Inv, LockDiscipline, PendingWhere
<1>2. CASE Abort(p, 500)
  BY <1>1, <1>2, AbortInOrder
<1>3. CASE /\ wr' = [wr EXCEPT ![p] = w]
           /\ req' = [req EXCEPT ![p].pc = "delete", ![p].targets = Moved(p)]
           /\ UNCHANGED <<db, clock, wb>>
  <2>1. \A r \in Moved(p) : /\ r \in Id /\ reviews[r] \in Review /\ reviews[r].beer \in Ids(p)
                            /\ New(r) = [reviews[r] EXCEPT !.beer = b] /\ New(r) \in Review
    <3>1. \A r \in Id : SeenReviews(p)[r] = reviews[r]
      BY <1>1, SeenRows, NoWritesIsSame
    <3>2. \A r \in Moved(p) : r \in Id
      BY <1>1 DEF Moved, Locals
    <3>3. \A r \in Moved(p) : reviews[r] \in Review /\ reviews[r].beer \in Ids(p)
      BY <1>1, <3>1, <3>2 DEF Moved, TypeOK
    <3>4. \A r \in Moved(p) : New(r) = [reviews[r] EXCEPT !.beer = b]
      BY <3>1, <3>2
    <3>5. \A r \in Moved(p) : [reviews[r] EXCEPT !.beer = b] \in Review
      BY <1>1, <3>3 DEF Review
    <3> QED
      BY <3>2, <3>3, <3>4, <3>5
  <2>2. \A r \in Id : w[r] = IF r \in Moved(p) THEN New(r) ELSE Same
    BY <1>1, NoWritesIsSame DEF Write, NoWrites
  <2>3. /\ req' = [req EXCEPT ![p] = l] /\ req'[p] = l
        /\ l.pc = "delete" /\ l.call = req[p].call /\ l.id = req[p].id
        /\ l.ids = req[p].ids /\ l.beer = b /\ l.targets = Moved(p)
        /\ \A q \in Request \ {p} : req'[q] = req[q]
    BY <1>1, <1>3 DEF Locals, TypeOK, RequestsTyped
  <2> HIDE DEF l, w, New
  <2>4. beers' = beers /\ reviews' = reviews /\ wr'[p] = w /\ wb' = wb
        /\ \A q \in Request \ {p} : wr'[q] = wr[q]
    BY <1>1, <1>3 DEF db, TypeOK
  <2>5. Ids(p)' = Ids(p)
    BY <2>3 DEF Ids
  <2>6. Frame(p)
    BY <1>1, <1>3, <2>3, <2>4, LocalFrame
  <2>7. MergeInOrder(p)'
    <3>1. \A i \in Id : wb'[p][i] # Same =>
            \/ i \in Ids(p) /\ wb'[p][i] = None
            \/ i = b /\ wb'[p][i] \in Promise!Fillings(beers[i])
      BY <1>1, <2>4 DEF MergeInOrder
    <3>2. \A r \in Id : w[r] # Same =>
            reviews[r].beer \in Ids(p) /\ w[r] = [reviews[r] EXCEPT !.beer = b]
      BY <2>1, <2>2
    <3>3. \A r \in Moved(p) : IsRow(w[r])
      BY <2>1, <2>2, Sentinels DEF IsRow
    <3>4. /\ req'[p].pc = "delete" /\ req'[p].beer = b /\ req'[p].targets = Moved(p)
          /\ wr'[p] = w /\ reviews' = reviews /\ beers' = beers
      BY <2>3, <2>4
    <3> QED
      BY <2>5, <3>1, <3>2, <3>3, <3>4 DEF MergeInOrder, At
  <2>8. MergedStayGone(p)'
    <3>1. \A i \in Ids(p) : Used(i)
      BY <1>1 DEF MergedStayGone, ReassignReviews, At
    <3>2. \A i \in Ids(p) : Used(i)'
      BY <1>1, <2>6, <3>1 DEF Frame
    <3> QED
      BY <2>3, <2>5, <3>2 DEF MergedStayGone, At
  <2>9. EditInOrder(p)'
    BY <1>1, <2>3 DEF EditInOrder, Op
  <2> QED
    BY <2>6, <2>7, <2>8, <2>9, AllInOrder DEF InOrder
<1> QED
  BY <1>2, <1>3 DEF ReassignReviews

LEMMA DeleteBeersInOrder ==
  ASSUME IInv, TypeOK', NEW p \in Request, DeleteBeers(p)
  PROVE  WorkInOrder'
<1> DEFINE New(i) == None
           gone == {i \in Ids(p) : SeenBeers(p)[i] # None}
           w == Write(wb[p], gone, New)
           l == [req[p] EXCEPT !.pc = "cascade"]
<1>1. /\ Inv /\ TypeOK /\ ~At(p, "idle") /\ ~At(p, "reload") /\ ~At(p, "done")
      /\ Merging(p) /\ req[p] \in Locals /\ req[p].beer \in Id /\ Ids(p) \subseteq Id
      /\ MergeInOrder(p) /\ MergedStayGone(p) /\ Op(p) # "ReviewUpdate"
      /\ WritesToRows(p) /\ ~Creating(p) /\ ReviewsHaveBeers
  BY InMerge DEF DeleteBeers, At, Inv
<1>2. \A i \in Id : w[i] = IF i \in gone THEN None ELSE wb[p][i]
  BY <1>1 DEF Write, TypeOK
<1>3. /\ req' = [req EXCEPT ![p] = l] /\ req'[p] = l
      /\ l.pc = "cascade" /\ l.call = req[p].call /\ l.id = req[p].id
      /\ l.ids = req[p].ids /\ l.beer = req[p].beer /\ l.targets = req[p].targets
      /\ \A q \in Request \ {p} : req'[q] = req[q]
  BY <1>1 DEF DeleteBeers, Goto, Locals, TypeOK, RequestsTyped
<1>4. /\ UNCHANGED <<db, clock>> /\ beers' = beers /\ reviews' = reviews
      /\ wb'[p] = w /\ wr' = wr
      /\ \A q \in Request \ {p} : wb'[q] = wb[q]
  BY <1>1 DEF DeleteBeers, db, TypeOK
<1>5. \A i \in Ids(p) : (i \notin gone => SeenBeers(p)[i] = None)
  OBVIOUS
<1> HIDE DEF l, w, New, gone
<1>6. Ids(p)' = Ids(p)
  BY <1>3 DEF Ids
<1>7. Frame(p)
  BY <1>1, <1>3, <1>4, LocalFrame
<1>8. \A i \in Ids(p) : SeenBeers(p)'[i] = None /\ (beers[i] # None => wb'[p][i] = None)
  <2>1. ASSUME NEW i \in Ids(p)
        PROVE  /\ SeenBeers(p)'[i] = IF w[i] = Same THEN beers[i] ELSE w[i]
               /\ SeenBeers(p)[i] = IF wb[p][i] = Same THEN beers[i] ELSE wb[p][i]
    <3>1. i \in Id /\ i \in DOMAIN beers /\ SeenBeers(p)' = View(beers, w)
      BY <1>1, <1>4 DEF SeenBeers, TypeOK
    <3> QED
      BY <1>1, <3>1, ViewRow, SeenRows
  <2>2. ASSUME NEW i \in Ids(p)
        PROVE  SeenBeers(p)'[i] = None /\ (beers[i] # None => wb'[p][i] = None)
    <3>1. CASE i \in gone
      BY <1>1, <1>2, <1>4, <2>1, <3>1, Sentinels
    <3>2. CASE i \notin gone
      BY <1>1, <1>2, <1>4, <1>5, <2>1, <3>2
    <3> QED
      BY <3>1, <3>2
  <2> QED
    BY <2>2
<1>9. MergeInOrder(p)'
  <2>1. \A i \in Id : wb'[p][i] # Same =>
          \/ i \in Ids(p) /\ wb'[p][i] = None
          \/ i = req[p].beer /\ wb'[p][i] \in Promise!Fillings(beers[i])
    BY <1>1, <1>2, <1>4 DEF MergeInOrder, gone
  <2>2. \A r \in Id : wr'[p][r] # Same =>
          /\ reviews[r].beer \in Ids(p)
          /\ wr'[p][r] \in {None, [reviews[r] EXCEPT !.beer = req[p].beer]}
    BY <1>1, <1>4 DEF MergeInOrder
  <2>3. \A r \in Id : wr'[p][r] # Same => wb'[p][reviews[r].beer] = None
    BY <1>1, <1>4, <1>8, <2>2 DEF WritesToRows, ReviewsHaveBeers
  <2>4. \A r \in req[p].targets : IsRow(wr'[p][r])
    BY <1>1, <1>4 DEF MergeInOrder, DeleteBeers
  <2> QED
    BY <1>1, <1>3, <1>4, <1>6, <1>8, <2>1, <2>2, <2>3, <2>4 DEF MergeInOrder, At
<1>10. MergedStayGone(p)'
  <2>1. \A i \in Ids(p) : Used(i)
    BY <1>1 DEF MergedStayGone, DeleteBeers, At
  <2>2. \A i \in Ids(p) : Used(i)'
    BY <1>1, <1>7, <2>1 DEF Frame
  <2> QED
    BY <1>3, <1>6, <2>2 DEF MergedStayGone, At
<1>11. EditInOrder(p)'
  BY <1>1, <1>3 DEF EditInOrder, Op
<1> QED
  BY <1>7, <1>9, <1>10, <1>11, AllInOrder DEF InOrder

\* The cascade leaves the pours that were moved, unless the survivor goes as well.
LEMMA CascadeReviewsInOrder ==
  ASSUME IInv, TypeOK', NEW p \in Request, CascadeReviews(p)
  PROVE  WorkInOrder'
<1> DEFINE New(i) == None
           w == Write(wr[p], Cascaded(p), New)
           l == [req[p] EXCEPT !.pc = "commit"]
<1>1. /\ Inv /\ TypeOK /\ ~At(p, "idle") /\ ~At(p, "reload") /\ ~At(p, "done")
      /\ Merging(p) /\ req[p] \in Locals /\ req[p].beer \in Id /\ Ids(p) \subseteq Id
      /\ MergeInOrder(p) /\ MergedStayGone(p) /\ Op(p) # "ReviewUpdate"
      /\ WritesToRows(p) /\ ~Creating(p) /\ At(p, "cascade")
  BY InMerge DEF CascadeReviews, At
<1>2. \A r \in Id : w[r] = IF r \in Cascaded(p) THEN None ELSE wr[p][r]
  BY <1>1 DEF Write, TypeOK
<1>3. /\ req' = [req EXCEPT ![p] = l] /\ req'[p] = l
      /\ l.pc = "commit" /\ l.call = req[p].call /\ l.id = req[p].id
      /\ l.ids = req[p].ids /\ l.beer = req[p].beer /\ l.targets = req[p].targets
      /\ \A q \in Request \ {p} : req'[q] = req[q]
  BY <1>1 DEF CascadeReviews, Goto, Locals, TypeOK, RequestsTyped
<1>4. /\ UNCHANGED <<db, clock>> /\ beers' = beers /\ reviews' = reviews
      /\ wr'[p] = w /\ wb' = wb
      /\ \A q \in Request \ {p} : wr'[q] = wr[q]
  BY <1>1 DEF CascadeReviews, db, TypeOK
<1> HIDE DEF l, w, New
<1>5. Ids(p)' = Ids(p) /\ SeenBeers(p)' = SeenBeers(p)
  BY <1>3, <1>4 DEF Ids, SeenBeers
<1>6. Frame(p)
  BY <1>1, <1>3, <1>4, LocalFrame
<1>7. \A i \in Id : wb[p][i] = None => i \in Ids(p)
  <2>1. \A i \in Id : wb[p][i] = None => beers[i] \in Beer
    BY <1>1, Sentinels DEF WritesToRows, TypeOK
  <2>2. \A i \in Id : wb[p][i] \in Promise!Fillings(beers[i]) => wb[p][i] \in Beer
    BY DEF Promise!Fillings
  <2> QED
    BY <1>1, <2>1, <2>2, Sentinels DEF MergeInOrder
<1>8. ASSUME NEW r \in Cascaded(p)
      PROVE  r \in Id /\ reviews[r].beer \in Ids(p) /\ wb[p][reviews[r].beer] = None
  <2>1. r \in Id /\ SeenReviews(p)[r] # None /\ wb[p][SeenReviews(p)[r].beer] = None
    BY DEF Cascaded
  <2>2. CASE wr[p][r] = Same
    <3>1. SeenReviews(p)[r] = reviews[r]
      BY <1>1, <2>1, <2>2, SeenRows
    <3>2. reviews[r].beer \in Id
      BY <1>1, <2>1, <3>1 DEF TypeOK, Review
    <3> QED
      BY <1>7, <2>1, <3>1, <3>2
  <2>3. CASE wr[p][r] # Same
    BY <1>1, <2>1, <2>3 DEF MergeInOrder, At
  <2> QED
    BY <2>2, <2>3
<1>9. ASSUME NEW r \in req[p].targets, req[p].beer \notin Ids(p)
      PROVE  IsRow(w[r])
  <2>1. r \in Id /\ IsRow(wr[p][r])
    BY <1>1, <1>9 DEF MergeInOrder, At, Locals
  <2>2. r \notin Cascaded(p)
    <3>1. SUFFICES ASSUME r \in Cascaded(p) PROVE FALSE
      OBVIOUS
    <3>2. SeenReviews(p)[r] = wr[p][r] /\ wr[p][r] = [reviews[r] EXCEPT !.beer = req[p].beer]
      <4>1. wr[p][r] # Same /\ wr[p][r] # None /\ SeenReviews(p)[r] = wr[p][r]
        BY <1>1, <2>1, SeenRows DEF IsRow
      <4> QED
        BY <1>1, <2>1, <4>1 DEF MergeInOrder, IsRow
    <3>3. reviews[r] \in Review
      BY <1>1, <2>1 DEF IsRow, WritesToRows, TypeOK
    <3>4. SeenReviews(p)[r].beer = req[p].beer
      BY <3>2, <3>3 DEF Review
    <3> QED
      BY <1>1, <1>7, <1>9, <3>1, <3>4 DEF Cascaded
  <2> QED
    BY <1>2, <2>1, <2>2
<1>10. MergeInOrder(p)'
  <2>1. \A i \in Id : wb'[p][i] # Same =>
          \/ i \in Ids(p) /\ wb'[p][i] = None
          \/ i = req[p].beer /\ wb'[p][i] \in Promise!Fillings(beers[i])
    BY <1>1, <1>4 DEF MergeInOrder
  <2>2. \A r \in Id : w[r] # Same =>
          /\ reviews[r].beer \in Ids(p)
          /\ w[r] \in {None, [reviews[r] EXCEPT !.beer = req[p].beer]}
          /\ wb[p][reviews[r].beer] = None
    BY <1>1, <1>2, <1>8 DEF MergeInOrder, At
  <2>3. \A i \in Ids(p) : SeenBeers(p)[i] = None
    BY <1>1 DEF MergeInOrder, At
  <2> QED
    BY <1>1, <1>3, <1>4, <1>5, <1>9, <2>1, <2>2, <2>3 DEF MergeInOrder, At
<1>11. MergedStayGone(p)'
  <2>1. \A i \in Ids(p) : Used(i)
    BY <1>1 DEF MergedStayGone, At
  <2>2. \A i \in Ids(p) : Used(i)'
    BY <1>1, <1>6, <2>1 DEF Frame
  <2> QED
    BY <1>3, <1>5, <2>2 DEF MergedStayGone, At
<1>12. EditInOrder(p)'
  BY <1>1, <1>3 DEF EditInOrder, Op
<1> QED
  BY <1>6, <1>10, <1>11, <1>12, AllInOrder DEF InOrder

-----------------------------------------------------------------------------
(* Arrival, commit, and what comes after it. *)

LEMMA ReceiveInOrder ==
  ASSUME IInv, TypeOK', NEW p \in Request, Receive(p)
  PROVE  WorkInOrder'
<1>1. PICK c \in UserCalls \cup AdminCalls :
        /\ Creates(c) => clock < MaxId
        /\ clock' = IF Creates(c) THEN clock + 1 ELSE clock
        /\ req' = [req EXCEPT ![p] =
                     [Idle EXCEPT !.pc = Entry(c), !.call = c, !.open = Begins(c),
                                  !.beer = NamedBeer(c),
                                  !.id = IF Creates(c) THEN clock' ELSE 0,
                                  !.ids = MergedBeers(c)]]
  BY DEF Receive
<1>2. c \in Call /\ clock \in Int
  BY CatalogAssumption DEF CatalogAssumption, IInv, Inv, TypeOK
<1>3. Entry(c) \in {"lookup", "insertReview", "own", "remove", "patch", "exists", "keys"}
  BY <1>2 DEF Entry, Call, BeerCreateCall, ReviewCreateCall, ReviewUpdateCall,
     ReviewDeleteCall, BeerUpdateCall, MergeCall, DedupeCall
<1> DEFINE l == [Idle EXCEPT !.pc = Entry(c), !.call = c, !.open = Begins(c),
                             !.beer = NamedBeer(c),
                             !.id = IF Creates(c) THEN clock' ELSE 0, !.ids = MergedBeers(c)]
<1>4. l.pc = Entry(c) /\ l.call = c /\ (Creates(c) => l.id = clock')
  BY DEF Idle
<1>5. req' = [req EXCEPT ![p] = l]
  BY <1>1
<1> HIDE DEF l
<1>6. /\ req'[p] = l /\ \A q \in Request \ {p} : req'[q] = req[q]
      /\ wb' = wb /\ wr' = wr /\ beers' = beers /\ reviews' = reviews
  BY <1>5 DEF Receive, IInv, Inv, TypeOK, RequestsTyped, db
<1>7. wb[p] = NoWrites /\ wr[p] = NoWrites
  BY DEF Receive, IInv, Inv, LockDiscipline, PendingWhere, At
<1>8. ASSUME NEW i \in Id, Used(i) PROVE Used(i)'
  <2>1. i \in Int /\ i <= clock /\ i <= clock'
    BY <1>1, <1>2, <1>8 DEF Used, Id
  <2>2. Creating(p)' => req'[p].id # i
    BY <1>1, <1>2, <1>4, <1>6, <2>1 DEF Creating
  <2>3. \A q \in Request \ {p} : Creating(q)' = Creating(q)
    BY <1>6 DEF Creating, At
  <2> QED
    BY <1>6, <1>8, <2>1, <2>2, <2>3 DEF Used, At
<1>9. Frame(p)
  BY <1>6, <1>8 DEF Frame
<1>10. InOrder(p)'
  <2>1. \A i \in Id : wb'[p][i] = Same /\ wr'[p][i] = Same
    BY <1>6, <1>7, NoWritesIsSame
  <2>2. EditInOrder(p)'
    BY <1>3, <1>4, <1>6, <1>7, <2>1 DEF EditInOrder, At
  <2>3. MergeInOrder(p)'
    BY <1>3, <1>4, <1>6, <2>1 DEF MergeInOrder, At
  <2>4. MergedStayGone(p)'
    BY <1>3, <1>4, <1>6 DEF MergedStayGone, At
  <2> QED
    BY <2>2, <2>3, <2>4 DEF InOrder
<1> QED
  BY <1>9, <1>10, AllInOrder

\* What p publishes are rows that no other transaction holds, and none under an id in use that
\* has no row.
LEMMA CommitFrame ==
  ASSUME IInv, NEW p \in Request, Commit(p)
  PROVE  /\ Frame(p)
         /\ req'[p] = [req[p] EXCEPT !.pc = AfterCommit(p), !.open = FALSE]
         /\ wb'[p] = NoWrites /\ wr'[p] = NoWrites
         /\ \A i \in Id : beers'[i] = SeenBeers(p)[i]
<1>1. ~At(p, "idle") /\ At(p, "commit") /\ req[p] \in Locals
  BY Typed DEF IInv, Inv, Commit, At
<1>2. Creating(p) => AfterCommit(p) = "reload"
  BY DEF AfterCommit, Creating, Creates, Op
<1>3. /\ req'[p] = [req[p] EXCEPT !.pc = AfterCommit(p), !.open = FALSE]
      /\ wb'[p] = NoWrites /\ wr'[p] = NoWrites /\ clock' = clock
      /\ beers' = SeenBeers(p)
      /\ \A q \in Request \ {p} : req'[q] = req[q] /\ wb'[q] = wb[q] /\ wr'[q] = wr[q]
  BY <1>1 DEF Commit, IInv, Inv, TypeOK, RequestsTyped
<1>4. /\ req'[p].pc = AfterCommit(p) /\ req'[p].call = req[p].call /\ req'[p].id = req[p].id
  BY <1>1, <1>3 DEF Locals
<1>5. \A i \in Id : /\ beers'[i] = IF wb[p][i] = Same THEN beers[i] ELSE wb[p][i]
                    /\ reviews'[i] = IF wr[p][i] = Same THEN reviews[i] ELSE wr[p][i]
  BY SeenRows DEF Commit, IInv, Inv
<1>6. OneWriter /\ WritesToRows(p)
  BY DEF IInv, Inv, LockDiscipline
<1>7. \A q \in Request \ {p}, i \in Id : /\ wb[q][i] # Same => beers'[i] = beers[i]
                                         /\ wr[q][i] # Same => reviews'[i] = reviews[i]
  BY <1>5, <1>6 DEF OneWriter
<1>8. ASSUME NEW i \in Id, Used(i)
      PROVE  /\ Used(i)'
             /\ beers[i] = None => beers'[i] = None
             /\ reviews[i] = None => reviews'[i] = None
  <2>1. Used(i)'
    <3>1. \A q \in Request : Creating(q)' = Creating(q) /\ req'[q].id = req[q].id
      BY <1>1, <1>2, <1>3, <1>4 DEF Creating, At, AfterCommit
    <3>2. \A q \in Request \ {p} : req'[q].pc = req[q].pc
      BY <1>3
    <3>3. Creating(p) => At(p, "reload")'
      BY <1>2, <1>4 DEF At
    <3> QED
      BY <1>3, <1>8, <3>1, <3>2, <3>3 DEF Used, At
  <2>2. Creating(p) => req[p].id # i
    BY <1>1, <1>8 DEF Used, At
  <2> QED
    BY <1>5, <1>6, <2>1, <2>2 DEF WritesToRows
<1> QED
  BY <1>3, <1>7, <1>8 DEF Frame

LEMMA CommitInOrder ==
  ASSUME IInv, TypeOK', NEW p \in Request, Commit(p)
  PROVE  WorkInOrder'
<1>1. /\ ~At(p, "idle") /\ At(p, "commit") /\ req[p] \in Locals
      /\ EditInOrder(p) /\ MergeInOrder(p) /\ MergedStayGone(p)
      /\ Op(p) \in {"BeerCreate", "ReviewCreate", "ReviewUpdate", "Merge", "DedupeExact"}
      /\ req[p].call \in Call
  BY Typed, OpAt DEF IInv, Inv, Commit, At, WorkInOrder
<1>2. /\ Frame(p) /\ wb'[p] = NoWrites /\ wr'[p] = NoWrites
      /\ \A i \in Id : beers'[i] = SeenBeers(p)[i]
      /\ req'[p].pc = AfterCommit(p) /\ req'[p].call = req[p].call
      /\ req'[p].ids = req[p].ids /\ req'[p].hit = req[p].hit
  BY <1>1, CommitFrame DEF Locals
<1>3. \A i \in Id : wb'[p][i] = Same /\ wr'[p][i] = Same
  BY <1>2, NoWritesIsSame
<1>4. EditInOrder(p)'
  <2>1. SUFFICES ASSUME Op(p) = "ReviewUpdate" PROVE EditInOrder(p)'
    BY <1>2 DEF EditInOrder, Op
  <2>2. PICK r \in Id : r = req[p].call.review
    BY <1>1, <2>1, CallTypes DEF Op, ReviewUpdateCall
  <2>3. Used(r) /\ (req[p].hit \/ reviews[r] = None)
    BY <1>1, <2>1, <2>2 DEF EditInOrder, At
  <2>4. Used(r)' /\ (req[p].hit \/ reviews'[r] = None)
    BY <1>2, <2>3 DEF Frame
  <2> QED
    BY <1>2, <1>3, <2>1, <2>2, <2>4 DEF EditInOrder, AfterCommit, At
<1>5. MergeInOrder(p)'
  BY <1>2, <1>3 DEF MergeInOrder, At, AfterCommit
<1>6. MergedStayGone(p)'
  <2>1. SUFFICES ASSUME Op(p) = "Merge" PROVE MergedStayGone(p)'
    BY <1>2 DEF MergedStayGone, AfterCommit, At, Merging, Op
  <2>2. Merging(p)
    BY <1>1, <2>1 DEF Merging
  <2>3. \A i \in Ids(p) : i \in Id /\ Used(i) /\ SeenBeers(p)[i] = None
    BY <1>1, <2>2 DEF MergedStayGone, MergeInOrder, At, Ids, Locals
  <2>4. \A i \in Ids(p) : Used(i)' /\ beers'[i] = None
    BY <1>2, <2>3 DEF Frame
  <2>5. Ids(p)' = Ids(p)
    BY <1>2 DEF Ids
  <2> QED
    BY <1>2, <2>1, <2>4, <2>5 DEF MergedStayGone, AfterCommit, At
<1> QED
  BY <1>2, <1>4, <1>5, <1>6, AllInOrder DEF InOrder

LEMMA ReloadsInOrder ==
  ASSUME IInv, TypeOK', NEW p \in Request, RereadReview(p) \/ ReloadBeer(p)
  PROVE  WorkInOrder'
<1>1. /\ ~At(p, "idle") /\ ~At(p, "done") /\ req[p] \in Locals
      /\ wb[p] = NoWrites /\ wr[p] = NoWrites /\ EditInOrder(p) /\ MergedStayGone(p)
  BY Typed DEF IInv, Inv, RereadReview, ReloadBeer, At, LockDiscipline, PendingWhere, WorkInOrder
<1>2. CASE RereadReview(p)
  <2> DEFINE row == reviews[req[p].call.review]
             l == [req[p] EXCEPT !.pc = "reload", !.beer = row.beer]
  <2>1. CASE Reply(p, 500)
    BY <1>1, <2>1, ReplyInOrder
  <2>2. CASE row # None /\ req' = [req EXCEPT ![p].pc = "reload", ![p].beer = row.beer]
             /\ UNCHANGED <<db, clock, wb, wr>>
    <3>1. /\ req' = [req EXCEPT ![p] = l] /\ req'[p] = l
          /\ l.pc = "reload" /\ l.call = req[p].call /\ l.id = req[p].id /\ l.hit = req[p].hit
      BY <1>1, <2>2 DEF Locals, IInv, Inv, TypeOK, RequestsTyped
    <3> HIDE DEF l
    <3>2. Op(p) = "ReviewUpdate"
      BY <1>2, OpAt DEF IInv, Inv, RereadReview
    <3>3. req[p].hit
      BY <1>1, <1>2, <2>2, <3>2 DEF EditInOrder, RereadReview, At
    <3>4. \A i \in Id : wr'[p][i] = Same
      BY <1>1, <2>2, NoWritesIsSame
    <3>5. EditInOrder(p)'
      BY <1>1, <2>2, <3>1, <3>3, <3>4 DEF EditInOrder, At
    <3>6. InOrder(p)'
      BY <3>1, <3>2, <3>5 DEF InOrder, MergeInOrder, MergedStayGone, Merging, Op
    <3> QED
      BY <1>1, <2>2, <3>1, <3>6, LocalStep
  <2> QED
    BY <1>2, <2>1, <2>2 DEF RereadReview
<1>3. CASE ReloadBeer(p)
  <2>1. Op(p) = "Merge" => \A i \in Ids(p) : Used(i) /\ beers[i] = None
    BY <1>1, <1>3 DEF MergedStayGone, ReloadBeer, Merging
  <2> QED
    BY <1>1, <1>3, <2>1, ReplyInOrder DEF ReloadBeer
<1> QED
  BY <1>2, <1>3

-----------------------------------------------------------------------------
LEMMA InitIInv == Init => IInv
<1> SUFFICES ASSUME Init PROVE IInv
  OBVIOUS
<1>1. \A p \in Request : At(p, "idle") /\ ~At(p, "delete") /\ ~At(p, "reload") /\ ~At(p, "done")
  BY DEF Init, Idle, At
<1>2. WorkInOrder
  BY <1>1 DEF WorkInOrder, EditInOrder, MergeInOrder, MergedStayGone, Merging
<1> QED
  BY <1>2, InitInv DEF IInv

LEMMA NextIInv == IInv /\ [Next]_vars => IInv'
<1> SUFFICES ASSUME IInv, [Next]_vars PROVE IInv'
  OBVIOUS
<1>0. Inv' /\ TypeOK'
  BY NextInv DEF IInv, Inv
<1> SUFFICES WorkInOrder'
  BY <1>0 DEF IInv
<1>1. ASSUME NEW p \in Request, Receive(p) PROVE WorkInOrder'
  BY <1>0, <1>1, ReceiveInOrder
<1>2. ASSUME NEW p \in Request, FindOrCreate(p) PROVE WorkInOrder'
  BY <1>0, <1>2, CreateInOrder
<1>3. ASSUME NEW p \in Request, ReviewEdit(p) PROVE WorkInOrder'
  BY <1>0, <1>3, CreateInOrder, CheckOwnerInOrder, UpdateReviewInOrder, RemoveReviewInOrder
     DEF ReviewEdit
<1>4. ASSUME NEW p \in Request, PatchBeer(p) PROVE WorkInOrder'
  BY <1>0, <1>4, PatchBeerInOrder
<1>5. ASSUME NEW p \in Request, Dedupe(p) PROVE WorkInOrder'
  BY <1>0, <1>5, DedupeInOrder
<1>6. ASSUME NEW p \in Request, MergeBeersTx(p) PROVE WorkInOrder'
  BY <1>0, <1>6, MergeReadsInOrder, FillSurvivorInOrder, ReassignReviewsInOrder,
     DeleteBeersInOrder, CascadeReviewsInOrder DEF MergeBeersTx
<1>7. ASSUME NEW p \in Request, Finish(p) PROVE WorkInOrder'
  BY <1>0, <1>7, CommitInOrder, ReloadsInOrder DEF Finish
<1>8. \A p \in Request : FailureCode(p) # 200
  BY DEF FailureCode
<1>9. ASSUME NEW p \in Request, Cancel(p) PROVE WorkInOrder'
  <2>1. CASE KeysFail(p)
    BY <1>0, <1>9, <2>1, ReplyInOrder
       DEF Cancel, KeysFail, At, IInv, Inv, LockDiscipline, PendingWhere
  <2>2. CASE ~KeysFail(p)
    BY <1>0, <1>8, <1>9, <2>2, AbortInOrder DEF Cancel, GroupFails, MergeFails
  <2> QED
    BY <2>1, <2>2
<1>10. ASSUME NEW p \in Request, DeadlockVictim(p) PROVE WorkInOrder'
  <2>1. ~At(p, "idle")
    BY <1>10 DEF DeadlockVictim, Conflicts, At
  <2> QED
    BY <1>0, <1>8, <1>10, <2>1, AbortInOrder DEF DeadlockVictim
<1>11. CASE UNCHANGED vars
  <2>1. /\ beers' = beers /\ reviews' = reviews /\ clock' = clock
        /\ req' = req /\ wb' = wb /\ wr' = wr
    BY <1>11 DEF vars
  <2>2. ASSUME NEW p \in Request PROVE EditInOrder(p)' <=> EditInOrder(p)
    BY <2>1 DEF EditInOrder, Used, Creating, At, Op
  <2>3. ASSUME NEW p \in Request PROVE MergeInOrder(p)' <=> MergeInOrder(p)
    BY <2>1 DEF MergeInOrder, SeenBeers, Merging, Ids, At, Op
  <2>4. ASSUME NEW p \in Request PROVE MergedStayGone(p)' <=> MergedStayGone(p)
    BY <2>1 DEF MergedStayGone, Used, Creating, Merging, Ids, At, Op
  <2> QED
    <3>1. ASSUME NEW p \in Request PROVE (EditInOrder(p) /\ MergeInOrder(p) /\ MergedStayGone(p))'
      <4>1. EditInOrder(p) /\ MergeInOrder(p) /\ MergedStayGone(p)
        BY DEF IInv, WorkInOrder
      <4> QED
        BY <2>2, <2>3, <2>4, <4>1
    <3> QED
      BY <3>1 DEF WorkInOrder
<1>12. CASE Next
  <2>1. PICK p \in Request : Receive(p) \/ Step(p) \/ DeadlockVictim(p) \/ Cancel(p)
    BY <1>12 DEF Next
  <2> QED
    BY <1>1, <1>2, <1>3, <1>4, <1>5, <1>6, <1>7, <1>9, <1>10, <2>1 DEF Step
<1> QED
  BY <1>11, <1>12

LEMMA AlwaysIInv == Spec => []IInv
  BY InitIInv, NextIInv, PTL DEF Spec

-----------------------------------------------------------------------------
(* The promise.  A step that leaves both tables alone keeps it, and so do the two statements *)
(* that are transactions of their own; a commit is one operation of the promise.             *)

Kept == [Promise!Next]_(Promise!db)

LEMMA TablesAlone ==
  ASSUME UNCHANGED db
  PROVE  Kept
  BY DEF Kept, Promise!db, db

\* What a commit leaves in each row.
LEMMA CommittedRows ==
  ASSUME IInv, TypeOK', NEW p \in Request, Commit(p)
  PROVE  /\ beers' \in [Id -> Beer \cup {None}] /\ reviews' \in [Id -> Review \cup {None}]
         /\ \A i \in Id : /\ beers'[i] = IF wb[p][i] = Same THEN beers[i] ELSE wb[p][i]
                          /\ reviews'[i] = IF wr[p][i] = Same THEN reviews[i] ELSE wr[p][i]
         /\ WritesToRows(p) /\ FreshIds /\ At(p, "commit") /\ req[p] \in Locals
         /\ req[p].call \in Call
         /\ beers \in [Id -> Beer \cup {None}] /\ reviews \in [Id -> Review \cup {None}]
         /\ wb[p] \in [Id -> Beer \cup {None, Same}] /\ wr[p] \in [Id -> Review \cup {None, Same}]
<1>1. ~At(p, "idle") /\ At(p, "commit") /\ Inv /\ TypeOK
  BY DEF Commit, At, IInv, Inv
<1>2. \A i \in Id : /\ beers'[i] = IF wb[p][i] = Same THEN beers[i] ELSE wb[p][i]
                    /\ reviews'[i] = IF wr[p][i] = Same THEN reviews[i] ELSE wr[p][i]
  BY <1>1, SeenRows DEF Commit
<1>3. req[p] \in Locals /\ req[p].call \in Call
  BY <1>1, Typed
<1> QED
  BY <1>1, <1>2, <1>3 DEF TypeOK, Inv, LockDiscipline

LEMMA CreateCommits ==
  ASSUME IInv, TypeOK', ReviewsHaveBeers', NEW p \in Request, Commit(p), Creating(p)
  PROVE  Kept
<1> DEFINE i == req[p].id
<1>1. i \in Id /\ beers[i] = None /\ reviews[i] = None
  <2>1. i <= clock /\ beers[i] = None /\ reviews[i] = None
    BY CommittedRows DEF FreshIds, At
  <2> QED
    BY <2>1, Typed DEF IInv, Inv, Creating, Proper
<1>2. wb[p][i] # None /\ wr[p][i] # None /\ \A k \in Id : k # i => wb[p][k] = Same /\ wr[p][k] = Same
  <2>1. ~Merging(p)
    BY DEF Merging, Creating, Creates, Op
  <2> QED
    BY <1>1, <2>1, CommittedRows DEF WritesToRows
<1> HIDE DEF i
<1>3. \/ UNCHANGED beers
      \/ \E beer \in Beer : beers' = [beers EXCEPT ![i] = beer]
  <2>1. CASE wb[p][i] = Same
    <3>1. \A k \in Id : beers'[k] = beers[k]
      BY <1>2, <2>1, CommittedRows
    <3> QED
      BY <3>1, CommittedRows
  <2>2. CASE wb[p][i] # Same
    <3>1. wb[p][i] \in Beer
      BY <1>1, <1>2, <2>2, CommittedRows
    <3>2. \A k \in Id : beers'[k] = [beers EXCEPT ![i] = wb[p][i]][k]
      BY <1>1, <1>2, <2>2, CommittedRows
    <3>3. beers' = [beers EXCEPT ![i] = wb[p][i]]
      BY <3>1, <3>2, CommittedRows
    <3> QED
      BY <3>1, <3>3
  <2> QED
    BY <2>1, <2>2
<1>4. \/ UNCHANGED reviews
      \/ \E pour \in Review : beers'[pour.beer] # None /\ reviews' = [reviews EXCEPT ![i] = pour]
  <2>1. CASE wr[p][i] = Same
    <3>1. \A k \in Id : reviews'[k] = reviews[k]
      BY <1>2, <2>1, CommittedRows
    <3> QED
      BY <3>1, CommittedRows
  <2>2. CASE wr[p][i] # Same
    <3>1. wr[p][i] \in Review
      BY <1>1, <1>2, <2>2, CommittedRows
    <3>2. \A k \in Id : reviews'[k] = [reviews EXCEPT ![i] = wr[p][i]][k]
      BY <1>1, <1>2, <2>2, CommittedRows
    <3>3. reviews' = [reviews EXCEPT ![i] = wr[p][i]]
      BY <3>1, <3>2, CommittedRows
    <3>4. reviews'[i] = wr[p][i] /\ beers'[wr[p][i].beer] # None
      BY <1>1, <1>2, <2>2, CommittedRows DEF ReviewsHaveBeers
    <3> QED
      BY <3>1, <3>3, <3>4
  <2> QED
    BY <2>1, <2>2
<1>5. Promise!Create
  BY <1>1, <1>3, <1>4 DEF Promise!Create
<1> QED
  BY <1>5 DEF Kept, Promise!Next

LEMMA EditCommits ==
  ASSUME IInv, TypeOK', NEW p \in Request, Commit(p), Op(p) = "ReviewUpdate"
  PROVE  Kept
<1> DEFINE r == req[p].call.review
<1>1. r \in Id
  BY CommittedRows, CallTypes DEF Op, ReviewUpdateCall
<1>2. /\ \A k \in Id : wb[p][k] = Same /\ (k # r => wr[p][k] = Same)
      /\ wr[p][r] # Same => /\ wr[p][r].user = reviews[r].user /\ wr[p][r].beer = reviews[r].beer
                            /\ reviews[r] # None /\ wr[p][r] # None
  <2>1. EditInOrder(p) /\ ~At(p, "idle")
    BY CommittedRows DEF IInv, WorkInOrder, At
  <2>2. ~Merging(p) /\ ~Creating(p)
    BY DEF Merging, Creating, Creates, Op
  <2> QED
    BY <1>1, <2>1, <2>2, CommittedRows, NoWritesIsSame DEF EditInOrder, WritesToRows
<1> HIDE DEF r
<1>3. beers' = beers
  <2>1. \A k \in Id : beers'[k] = beers[k]
    BY <1>2, CommittedRows
  <2> QED
    BY <2>1, CommittedRows
<1>4. CASE wr[p][r] = Same
  <2>1. \A k \in Id : reviews'[k] = reviews[k]
    BY <1>2, <1>4, CommittedRows
  <2>2. reviews' = reviews
    BY <2>1, CommittedRows
  <2> QED
    BY <1>3, <2>2, TablesAlone DEF db
<1>5. CASE wr[p][r] # Same
  <2>1. wr[p][r] \in Review
    BY <1>1, <1>2, <1>5, CommittedRows
  <2>2. \A k \in Id : reviews'[k] = [reviews EXCEPT ![r] = wr[p][r]][k]
    BY <1>1, <1>2, <1>5, CommittedRows
  <2>3. reviews' = [reviews EXCEPT ![r] = wr[p][r]]
    BY <2>1, <2>2, CommittedRows
  <2>4. Promise!EditPour
    BY <1>1, <1>2, <1>3, <1>5, <2>1, <2>3 DEF Promise!EditPour, Promise!There
  <2> QED
    BY <2>4 DEF Kept, Promise!Next
<1> QED
  BY <1>4, <1>5

\* A merge's commit is one whole merge: pours that came too late to be moved go with the beers.
LEMMA MergeCommits ==
  ASSUME IInv, TypeOK', ReviewsHaveBeers', NEW p \in Request, Commit(p), Merging(p)
  PROVE  Kept
<1> DEFINE keep == req[p].beer
           gone == {i \in Id : wb[p][i] = None}
           moved == {r \in Id : IsRow(wr[p][r])}
           poured == {r \in Promise!There(reviews) : reviews[r].beer \in gone}
           left == IF beers[keep] = None THEN None
                   ELSE IF IsRow(wb[p][keep]) THEN wb[p][keep] ELSE beers[keep]
<1>1. /\ keep \in Id
      /\ \A i \in Id : wb[p][i] # Same /\ wb[p][i] # None =>
           i = keep /\ wb[p][i] \in Promise!Fillings(beers[i])
      /\ \A r \in Id : wr[p][r] # Same =>
           /\ wr[p][r] \in {None, [reviews[r] EXCEPT !.beer = keep]}
           /\ wb[p][reviews[r].beer] = None
  BY CommittedRows DEF IInv, WorkInOrder, MergeInOrder, At
<1>2. \A i \in Id : /\ wb[p][i] # Same => beers[i] # None
                    /\ wr[p][i] # Same => reviews[i] # None
  <2>1. ~Creating(p)
    BY DEF Merging, Creating, Creates, Op
  <2> QED
    BY <2>1, CommittedRows DEF WritesToRows
<1>3. \A r \in Id : reviews[r] # None => reviews[r] \in Review /\ reviews[r].beer \in Id
  BY CommittedRows DEF Review
<1>4. \A r \in poured : wr[p][r] # Same
  <2>1. SUFFICES ASSUME NEW r \in poured, wr[p][r] = Same PROVE FALSE
    OBVIOUS
  <2>2. r \in Id /\ reviews[r] # None /\ wb[p][reviews[r].beer] = None
    BY <2>1 DEF Promise!There
  <2>3. SeenReviews(p)[r] = reviews[r]
    BY <2>1, <2>2, SeenRows DEF IInv, Inv
  <2>4. CascadeComplete(p)
    BY DEF IInv, Inv, LockDiscipline
  <2> QED
    BY <2>2, <2>3, <2>4, CommittedRows DEF CascadeComplete
<1>5. gone \in SUBSET Promise!There(beers) /\ moved \in SUBSET poured
  <2>1. None # Same
    BY Sentinels
  <2> QED
    BY <1>1, <1>2, <1>3, <2>1 DEF Promise!There, IsRow
<1>6. left \in IF beers[keep] = None THEN {None} ELSE Promise!Fillings(beers[keep])
  <2>1. \A beer \in Beer : beer \in Promise!Fillings(beer)
    BY DEF Promise!Fillings, Beer
  <2> QED
    BY <1>1, <2>1, CommittedRows DEF IsRow
<1>7. beers' = [i \in Id |-> IF i \in gone THEN None ELSE IF i = keep THEN left ELSE beers[i]]
  <2>1. \A i \in Id : beers'[i] = IF i \in gone THEN None ELSE IF i = keep THEN left ELSE beers[i]
    BY <1>1, <1>2, CommittedRows, Sentinels DEF IsRow
  <2> HIDE DEF gone, left, keep
  <2> QED
    BY <2>1, CommittedRows
<1>8. \A r \in Id : reviews'[r] = IF r \in moved THEN [reviews[r] EXCEPT !.beer = keep]
                                  ELSE IF r \in poured THEN None ELSE reviews[r]
  BY <1>1, <1>2, <1>3, <1>4, <1>5, CommittedRows, Sentinels DEF IsRow, Promise!There
<1>9. reviews' = [r \in Id |-> IF r \in moved THEN [reviews[r] EXCEPT !.beer = keep]
                               ELSE IF r \in poured THEN None ELSE reviews[r]]
  <2> HIDE DEF moved, poured, keep
  <2> QED
    BY <1>8, CommittedRows
<1>10. moved # {} => beers'[keep] # None
  <2>1. SUFFICES ASSUME NEW r \in moved PROVE beers'[keep] # None
    OBVIOUS
  <2>2. r \in Id /\ reviews[r] \in Review /\ reviews'[r] = [reviews[r] EXCEPT !.beer = keep]
    BY <1>3, <1>5, <1>8, <2>1 DEF Promise!There
  <2>3. reviews'[r] # None /\ reviews'[r].beer = keep
    BY <1>1, <2>2, Sentinels DEF Review
  <2> QED
    BY <2>2, <2>3 DEF ReviewsHaveBeers
<1>11. Promise!Merge
  <2> HIDE DEF keep, gone, moved, left
  <2>1. \E l \in IF beers[keep] = None THEN {None} ELSE Promise!Fillings(beers[keep]) :
          beers' = [i \in Id |-> IF i \in gone THEN None ELSE IF i = keep THEN l ELSE beers[i]]
    BY <1>6, <1>7
  <2>2. \E m \in SUBSET poured :
          /\ m # {} => beers'[keep] # None
          /\ reviews' = [r \in Id |-> IF r \in m THEN [reviews[r] EXCEPT !.beer = keep]
                                      ELSE IF r \in poured THEN None ELSE reviews[r]]
    BY <1>5, <1>9, <1>10
  <2> QED
    BY <1>1, <1>5, <2>1, <2>2, Zenon DEF Promise!Merge
<1> QED
  BY <1>11 DEF Kept, Promise!Next

\* What the other statements do to the tables.
LEMMA OwnTransactions ==
  ASSUME IInv, NEW p \in Request, RemoveReview(p) \/ PatchBeer(p)
  PROVE  Kept
<1>1. TypeOK
  BY DEF IInv, Inv
<1>2. CASE RemoveReview(p)
  <2>1. CASE UNCHANGED db
    BY <2>1, TablesAlone
  <2>2. CASE /\ OwnedBy(reviews[req[p].call.review], req[p].call.user)
             /\ reviews' = [reviews EXCEPT ![req[p].call.review] = None] /\ UNCHANGED beers
    <3>1. req[p].call.review \in Id
      BY <1>1, <1>2, Typed, CallTypes, OpAt DEF RemoveReview, At, Op, ReviewDeleteCall
    <3>2. Promise!RemovePour
      BY <2>2, <3>1 DEF Promise!RemovePour, Promise!There, OwnedBy
    <3> QED
      BY <3>2 DEF Kept, Promise!Next
  <2> QED
    BY <1>2, <2>1, <2>2 DEF RemoveReview, Reply, db
<1>3. CASE PatchBeer(p)
  <2>1. CASE UNCHANGED db
    BY <2>1, TablesAlone
  <2>2. CASE /\ beers[req[p].beer] # None /\ UNCHANGED reviews
             /\ beers' = [beers EXCEPT ![req[p].beer] = Patched(@, req[p].call)]
    <3>1. req[p].beer \in Id /\ req[p].call \in BeerUpdateCall
      BY <1>1, <1>3, Typed, CallTypes, OpAt DEF PatchBeer, At, Op, Proper
    <3>2. Patched(beers[req[p].beer], req[p].call) \in Beer
      BY <1>1, <2>2, <3>1, PatchedType DEF TypeOK
    <3>3. Promise!EditBeer
      BY <2>2, <3>1, <3>2 DEF Promise!EditBeer, Promise!There
    <3> QED
      BY <3>3 DEF Kept, Promise!Next
  <2> QED
    BY <1>3, <2>1, <2>2 DEF PatchBeer, Reply, db
<1> QED
  BY <1>2, <1>3

LEMMA OthersLeaveTables ==
  ASSUME NEW p \in Request,
         \/ Receive(p) \/ FindOrCreate(p) \/ Dedupe(p) \/ MergeBeersTx(p)
         \/ InsertReview(p) \/ CheckOwner(p) \/ UpdateReview(p)
         \/ RereadReview(p) \/ ReloadBeer(p) \/ DeadlockVictim(p) \/ Cancel(p)
  PROVE  UNCHANGED db
<1>1. CASE Receive(p) \/ FindOrCreate(p) \/ Dedupe(p) \/ DeadlockVictim(p) \/ Cancel(p)
  BY <1>1 DEF Receive, FindOrCreate, LookupBeer, InsertBeer, Dedupe, QueryKeys, BeginGroup,
     QueryGroup, FinishDedupe, DeadlockVictim, Cancel, KeysFail, GroupFails, MergeFails, Abort,
     Reply
<1>2. CASE InsertReview(p) \/ CheckOwner(p) \/ UpdateReview(p) \/ RereadReview(p) \/ ReloadBeer(p)
  BY <1>2 DEF InsertReview, CheckOwner, UpdateReview, RereadReview, ReloadBeer, Abort, Reply
<1>3. CASE MergeBeersTx(p)
  BY <1>3 DEF MergeBeersTx, CheckKeep, CheckMerged, ReadSource, FillSurvivor, TargetReviews,
     ReassignReviews, DeleteBeers, CascadeReviews, Abort
<1> QED
  BY <1>1, <1>2, <1>3

LEMMA NextKeepsPromise == IInv /\ IInv' /\ [Next]_vars => Kept
<1> SUFFICES ASSUME IInv, IInv', [Next]_vars PROVE Kept
  OBVIOUS
<1>1. TypeOK' /\ ReviewsHaveBeers'
  BY DEF IInv, Inv
<1>2. CASE UNCHANGED vars
  BY <1>2, TablesAlone DEF vars, db
<1>3. CASE Next
  <2>1. PICK p \in Request : Receive(p) \/ Step(p) \/ DeadlockVictim(p) \/ Cancel(p)
    BY <1>3 DEF Next
  <2>2. CASE Commit(p)
    <3>1. Op(p) \in {"BeerCreate", "ReviewCreate", "ReviewUpdate", "Merge", "DedupeExact"}
          /\ ~At(p, "idle")
      BY <2>2, OpAt DEF Commit, At, IInv, Inv
    <3> QED
      BY <1>1, <2>2, <3>1, CreateCommits, EditCommits, MergeCommits
         DEF Creating, Creates, Merging, Op
  <2>3. CASE RemoveReview(p) \/ PatchBeer(p)
    BY <2>3, OwnTransactions
  <2> QED
    BY <2>1, <2>2, <2>3, OthersLeaveTables, TablesAlone DEF Step, ReviewEdit, Finish
<1> QED
  BY <1>2, <1>3

\* Whatever the requests do between two commits, each commit is one whole operation of the
\* promise (beer_admin.go:263-314, review.go:109-345, beer_helpers.go:30-66).
THEOREM Refinement == Spec => KeepsPromise
<1>1. Init => Promise!Init
  BY DEF Init, Promise!Init
<1>2. IInv /\ IInv' /\ [Next]_vars => [Promise!Next]_(Promise!db)
  BY NextKeepsPromise DEF Kept
<1> QED
  BY <1>1, <1>2, AlwaysIInv, PTL DEF Spec, KeepsPromise, Promise!Spec
-----------------------------------------------------------------------------
(* What a step leaves of the requests' locals. *)

MergeLabels == {"exists", "count", "fill", "filling", "reassign", "delete", "cascade", "commit"}

Moves(p) == Receive(p) \/ Step(p) \/ DeadlockVictim(p) \/ Cancel(p)

LEMMA OthersWait ==
  ASSUME TypeOK, NEW p \in Request, Moves(p), NEW q \in Request \ {p}
  PROVE  req'[q] = req[q]
<1>1. \A l : req' = [req EXCEPT ![p] = l] => req'[q] = req[q]
  BY DEF TypeOK, RequestsTyped
<1>2. \E l : req' = [req EXCEPT ![p] = l]
  <2>1. CASE Receive(p) \/ FindOrCreate(p) \/ Dedupe(p) \/ DeadlockVictim(p) \/ Cancel(p)
    <3>1. CASE Receive(p)
      BY <3>1 DEF Receive
    <3>2. CASE LookupBeer(p)
      BY <3>2 DEF LookupBeer, Goto, Abort
    <3>3. CASE InsertBeer(p)
      BY <3>3 DEF InsertBeer, Goto, Abort
    <3>4. CASE QueryKeys(p) \/ BeginGroup(p) \/ QueryGroup(p) \/ FinishDedupe(p)
      <4>1. CASE QueryKeys(p)
        BY <4>1 DEF QueryKeys
      <4>2. CASE BeginGroup(p)
        BY <4>2 DEF BeginGroup
      <4>3. CASE QueryGroup(p)
        BY <4>3 DEF QueryGroup, SkipGroup
      <4>4. CASE FinishDedupe(p)
        BY <4>4 DEF FinishDedupe, Reply
      <4> QED
        BY <3>4, <4>1, <4>2, <4>3, <4>4
    <3>5. CASE DeadlockVictim(p) \/ Cancel(p)
      BY <3>5 DEF DeadlockVictim, Cancel, KeysFail, GroupFails, MergeFails, Abort, Reply
    <3> QED
      BY <2>1, <3>1, <3>2, <3>3, <3>4, <3>5 DEF FindOrCreate, Dedupe
  <2>2. CASE ReviewEdit(p) \/ PatchBeer(p) \/ Finish(p)
    BY <2>2 DEF ReviewEdit, InsertReview, CheckOwner, UpdateReview, RemoveReview, PatchBeer,
       Finish, Commit, RereadReview, ReloadBeer, Abort, Reply, Goto
  <2>3. CASE MergeBeersTx(p)
    BY <2>3 DEF MergeBeersTx, CheckKeep, CheckMerged, ReadSource, FillSurvivor, TargetReviews,
       ReassignReviews, DeleteBeers, CascadeReviews, Abort, Goto
  <2> QED
    BY <2>1, <2>2, <2>3 DEF Moves, Step
<1> QED
  BY <1>1, <1>2

\* A request keeps its call, and a merge its beers and the groups still to do until DedupeExact
\* takes its next group; only the reload and DedupeExact's end answer 200.
LEMMA OwnLocals ==
  ASSUME TypeOK, NEW p \in Request, Moves(p), ~Receive(p), ~QueryGroup(p)
  PROVE  /\ req'[p].call = req[p].call /\ req'[p].ids = req[p].ids
         /\ req[p].pc # "idle" /\ req'[p].pc # "idle"
         /\ req'[p].pc \in MergeLabels /\ Merging(p) =>
              req[p].pc \in MergeLabels /\ req'[p].beer = req[p].beer
         /\ req[p].pc \in MergeLabels => req'[p].keys = req[p].keys
         /\ req'[p].pc = "filling" => ReadSource(p)
         /\ req'[p].pc = "group" => QueryKeys(p) \/ Commit(p)
         /\ req'[p].pc = "ids" => BeginGroup(p)
         /\ req'[p].pc \in {"insertBeer", "lookup", "patch"} => req[p].pc = "lookup"
         /\ req'[p].pc = "done" /\ req'[p].status = 200 =>
              (ReloadBeer(p) \/ FinishDedupe(p)) /\ req'[p].hit = req[p].hit
<1>1. req \in [Request -> Locals] /\ req[p] \in Locals
  BY DEF TypeOK, RequestsTyped
<1>2. CASE FindOrCreate(p)
  BY <1>1, <1>2, OpAt DEF FindOrCreate, LookupBeer, InsertBeer, Goto, AfterBeer, MergeLabels,
     Merging, Locals, At, Op
<1>3. CASE ReviewEdit(p) \/ PatchBeer(p)
  BY <1>1, <1>3, OpAt DEF ReviewEdit, InsertReview, CheckOwner, UpdateReview, RemoveReview,
     PatchBeer, Abort, Reply, Goto, MergeLabels, Merging, Locals, At, Op
<1>4. CASE QueryKeys(p) \/ BeginGroup(p) \/ FinishDedupe(p)
  BY <1>1, <1>4 DEF QueryKeys, BeginGroup, FinishDedupe, Reply, MergeLabels, Locals, At
<1>5. CASE MergeBeersTx(p)
  <2>1. CASE CheckKeep(p) \/ CheckMerged(p) \/ ReadSource(p) \/ FillSurvivor(p)
    BY <1>1, <2>1 DEF CheckKeep, CheckMerged, ReadSource, FillSurvivor, Abort, Goto,
       MissingCode, MergeLabels, Locals, At
  <2>2. CASE TargetReviews(p) \/ ReassignReviews(p) \/ DeleteBeers(p) \/ CascadeReviews(p)
    BY <1>1, <2>2 DEF TargetReviews, ReassignReviews, DeleteBeers, CascadeReviews, Abort, Goto,
       MergeLabels, Locals, At
  <2> QED
    BY <1>5, <2>1, <2>2 DEF MergeBeersTx
<1>6. CASE Finish(p)
  <2>1. CASE Commit(p)
    <3>1. AfterCommit(p) \in {"reread", "group", "reload"} /\ At(p, "commit")
      BY <2>1 DEF AfterCommit, Commit
    <3> QED
      BY <1>1, <2>1, <3>1 DEF Commit, MergeLabels, Locals, At
  <2>2. CASE RereadReview(p)
    BY <1>1, <2>2 DEF RereadReview, Reply, MergeLabels, Locals, At
  <2>3. CASE ReloadBeer(p)
    BY <1>1, <2>3 DEF ReloadBeer, Reply, MergeLabels, Locals, At
  <2> QED
    BY <1>6, <2>1, <2>2, <2>3 DEF Finish
<1>7. CASE DeadlockVictim(p) \/ Cancel(p)
  <2>1. req[p].pc # "idle"
    BY <1>7 DEF DeadlockVictim, Conflicts, Cancel, At
  <2> QED
    BY <1>1, <1>7, <2>1 DEF DeadlockVictim, Cancel, KeysFail, GroupFails, MergeFails,
       FailureCode, Abort, Reply, MergeLabels, Locals
<1> QED
  BY <1>2, <1>3, <1>4, <1>5, <1>6, <1>7 DEF Moves, Step, Dedupe

\* The ranking lists a group's beers once each.
LEMMA RankedOnce ==
  ASSUME NEW s \in SUBSET Id, NEW f \in Ranked(s)
  PROVE  /\ f \in Seq(s) /\ Len(f) = Cardinality(s)
         /\ \A m, n \in 1..Len(f) : f[m] = f[n] => m = n
<1>1. IsFiniteSet(Id) /\ MaxId \in Nat
  BY CatalogAssumption, UpTo DEF CatalogAssumption, Id
<1>2. IsFiniteSet(s) /\ Cardinality(s) \in Nat
  BY <1>1, FS_Subset, FS_CardinalityType
<1>3. f \in [1..Cardinality(s) -> s]
  BY DEF Ranked
<1>4. f \in Seq(s) /\ Len(f) = Cardinality(s) /\ DOMAIN f = 1..Len(f)
  BY <1>2, <1>3
<1>5. \A i : Rated(i) \in Nat
  <2> TAKE i
  <2> DEFINE poured == {r \in Id : reviews[r] # None /\ reviews[r].beer = i /\ reviews[r].rated}
  <2>1. IsFiniteSet(poured) /\ Cardinality(poured) \in Nat
    BY <1>1, FS_Subset, FS_CardinalityType
  <2> QED
    BY <2>1 DEF Rated
<1>6. ASSUME NEW m \in 1..Len(f), NEW n \in 1..Len(f), m < n
      PROVE  f[m] # f[n]
  <2>1. f[m] \in Int /\ f[n] \in Int
    <3>1. f[m] \in s /\ f[n] \in s
      BY <1>4
    <3>2. \A i \in Id : i \in Int
      BY <1>1 DEF Id
    <3> QED
      BY <3>1, <3>2
  <2>2. Rated(f[m]) > Rated(f[n]) \/ f[m] < f[n]
    BY <1>4, <1>6 DEF Ranked
  <2>3. Rated(f[m]) \in Nat /\ Rated(f[n]) \in Nat
    BY <1>5
  <2> QED
    BY <2>1, <2>2, <2>3
<1> QED
  BY <1>2, <1>4, <1>6

LEMMA CallEnters == \A c \in Call : Entry(c) # "done"
  BY DEF Entry, Call, BeerCreateCall, ReviewCreateCall, ReviewUpdateCall, ReviewDeleteCall,
     BeerUpdateCall, MergeCall, DedupeCall

\* DedupeExact's survivor is never among the beers it merges.
Apart ==
  \A p \in Request :
    req[p].pc \in MergeLabels /\ ~At(p, "idle") /\ Op(p) = "DedupeExact" =>
      req[p].beer \notin Ids(p)

LEMMA ApartKept == TypeOK /\ Apart /\ [Next]_vars => Apart'
<1> SUFFICES ASSUME TypeOK, Apart, [Next]_vars, NEW p \in Request,
                    req'[p].pc \in MergeLabels, Op(p)' = "DedupeExact"
             PROVE  (req[p].beer \notin Ids(p))'
  BY DEF Apart
<1>1. CASE req'[p] = req[p]
  BY <1>1 DEF Apart, MergeLabels, At, Op, Ids
<1>2. CASE Receive(p)
  <2>1. PICK c \in Call : req'[p].pc = Entry(c) /\ req'[p].call = c
    BY <1>2, CatalogAssumption DEF Receive, CatalogAssumption, TypeOK, RequestsTyped, Idle
  <2> QED
    BY <2>1 DEF Entry, MergeLabels, Op
<1>3. CASE QueryGroup(p)
  <2>1. req[p] \in Locals /\ req \in [Request -> Locals] /\ At(p, "ids")
    BY <1>3 DEF TypeOK, RequestsTyped, QueryGroup
  <2>2. PICK k \in req[p].keys : \E ids \in Ranked(Group(beers, k)) :
          \/ SkipGroup(p, k)
          \/ /\ Len(ids) > 1
             /\ req' = [req EXCEPT ![p].keys = @ \ {k}, ![p].pc = "exists", ![p].filled = 0,
                                   ![p].beer = Head(ids), ![p].ids = Tail(ids)]
    BY <1>3 DEF QueryGroup
  <2>3. PICK ids \in Ranked(Group(beers, k)) :
          \/ SkipGroup(p, k)
          \/ /\ Len(ids) > 1
             /\ req' = [req EXCEPT ![p].keys = @ \ {k}, ![p].pc = "exists", ![p].filled = 0,
                                   ![p].beer = Head(ids), ![p].ids = Tail(ids)]
    BY <2>2
  <2>4. CASE SkipGroup(p, k)
    BY <2>1, <2>4 DEF SkipGroup, MergeLabels, At, Locals
  <2>5. CASE Len(ids) > 1 /\ req' = [req EXCEPT ![p].keys = @ \ {k}, ![p].pc = "exists",
                 ![p].filled = 0, ![p].beer = Head(ids), ![p].ids = Tail(ids)]
    <3>0. req'[p].beer = Head(ids) /\ req'[p].ids = Tail(ids)
      BY <2>1, <2>5 DEF Locals
    <3>1. /\ ids \in Seq(Id) /\ \A m, n \in 1..Len(ids) : ids[m] = ids[n] => m = n
      <4>1. Group(beers, k) \in SUBSET Id
        BY DEF Group
      <4> QED
        BY <4>1, RankedOnce, RankedType
    <3>2. Head(ids) = ids[1] /\ DOMAIN Tail(ids) = 1..(Len(ids) - 1) /\ Len(ids) \in Nat
          /\ \A n \in 1..(Len(ids) - 1) : Tail(ids)[n] = ids[n + 1]
      BY <2>5, <3>1
    <3>3. \A n \in 1..(Len(ids) - 1) : ids[n + 1] # ids[1]
      BY <2>5, <3>1, <3>2
    <3> QED
      BY <3>0, <3>2, <3>3 DEF Ids
  <2> QED
    BY <2>3, <2>4, <2>5
<1>4. CASE Moves(p) /\ ~Receive(p) /\ ~QueryGroup(p)
  <2>1. /\ req'[p].call = req[p].call /\ req'[p].ids = req[p].ids
        /\ Merging(p) => req[p].pc \in MergeLabels /\ req'[p].beer = req[p].beer
    BY <1>4, OwnLocals
  <2>2. ~At(p, "idle")
    BY <1>4, OwnLocals DEF At
  <2> QED
    BY <2>1, <2>2 DEF Apart, Merging, Op, Ids
<1> QED
  <2>1. CASE UNCHANGED vars
    BY <1>1, <2>1 DEF vars
  <2>2. CASE Next
    <3>1. PICK q \in Request : Moves(q)
      BY <2>2 DEF Next, Moves
    <3>2. CASE q # p
      BY <1>1, <3>1, <3>2, OthersWait
    <3> QED
      BY <1>2, <1>3, <1>4, <3>1, <3>2
  <2> QED
    BY <2>1, <2>2

LEMMA AlwaysApart == Spec => []Apart
<1>1. Init => Apart
  BY DEF Init, Idle, Apart, At
<1>2. IInv => TypeOK
  BY DEF IInv, Inv
<1> QED
  BY <1>1, <1>2, ApartKept, AlwaysIInv, PTL DEF Spec

-----------------------------------------------------------------------------
(* What users and admins may rely on. *)

\* The work of a merge or an edit stays in its handler's order (beer_admin.go:263-314).
THEOREM Ordered == Spec => []WorkInOrder
<1>1. IInv => WorkInOrder
  BY DEF IInv
<1> QED
  BY <1>1, AlwaysIInv, PTL

\* Where a handler has no transaction: before its Begin, after its Commit or Rollback, and
\* between two turns of DedupeExact's loop.
Outside == {"idle", "remove", "patch", "keys", "group", "reread", "reload", "done"}

Closed == \A p \in Request : req[p].pc \in Outside => ~req[p].open

\* A step into the open ends the transaction, or there was none.
LEMMA OwnClosed ==
  ASSUME TypeOK, Closed, NEW p \in Request, Moves(p), req'[p].pc \in Outside
  PROVE  ~req'[p].open
<1>1. req \in [Request -> Locals] /\ req[p] \in Locals /\ (req[p].pc \in Outside => ~req[p].open)
  BY DEF TypeOK, RequestsTyped, Closed
<1>2. CASE Receive(p)
  <2>1. PICK c \in Call : req'[p].pc = Entry(c) /\ req'[p].open = Begins(c)
    BY <1>1, <1>2, CatalogAssumption DEF Receive, CatalogAssumption, Idle
  <2> QED
    BY <2>1 DEF Entry, Begins, Creates, Outside
<1>3. CASE \E code : Abort(p, code)
  BY <1>1, <1>3 DEF Abort, Locals
<1>4. CASE \E code : Reply(p, code) /\ req[p].pc \in Outside
  BY <1>1, <1>4 DEF Reply, Locals
<1>5. CASE Commit(p)
  BY <1>1, <1>5 DEF Commit, Locals
<1>6. CASE QueryKeys(p) \/ BeginGroup(p) \/ PatchBeer(p) \/ RereadReview(p) \/ RemoveReview(p)
  BY <1>1, <1>6 DEF QueryKeys, BeginGroup, PatchBeer, RereadReview, RemoveReview, Reply, Goto,
     Outside, Locals, At
<1>7. CASE QueryGroup(p)
  BY <1>1, <1>7 DEF QueryGroup, SkipGroup, Outside, Locals, At
<1>8. CASE FindOrCreate(p) \/ InsertReview(p) \/ CheckOwner(p) \/ UpdateReview(p)
  BY <1>1, <1>3, <1>8 DEF FindOrCreate, LookupBeer, InsertBeer, AfterBeer, InsertReview,
     CheckOwner, UpdateReview, Goto, Outside, Locals
<1>9. CASE MergeBeersTx(p)
  BY <1>1, <1>3, <1>9 DEF MergeBeersTx, CheckKeep, CheckMerged, ReadSource, FillSurvivor,
     TargetReviews, ReassignReviews, DeleteBeers, CascadeReviews, Goto, Outside, Locals
<1>10. CASE FinishDedupe(p) \/ ReloadBeer(p)
  BY <1>4, <1>10 DEF FinishDedupe, ReloadBeer, Outside, At
<1>11. CASE DeadlockVictim(p) \/ Cancel(p)
  BY <1>3, <1>4, <1>11 DEF DeadlockVictim, Cancel, KeysFail, GroupFails, MergeFails, Outside, At
<1> QED
  BY <1>2, <1>5, <1>6, <1>7, <1>8, <1>9, <1>10, <1>11
     DEF Moves, Step, ReviewEdit, Dedupe, Finish

\* Whichever way a handler, or a turn of DedupeExact's loop, ends, the transaction it has begun
\* has ended, and nothing it wrote is left pending (beer_admin.go:207-258).
THEOREM AllClosed == Spec => []NothingLeftOpen
<1>1. Init => Closed
  BY DEF Init, Idle, Closed
<1>2. IInv /\ Closed /\ [Next]_vars => Closed'
  <2> SUFFICES ASSUME IInv, Closed, [Next]_vars, NEW p \in Request, req'[p].pc \in Outside
               PROVE  ~req'[p].open
    BY DEF Closed
  <2>0. TypeOK
    BY DEF IInv, Inv
  <2>1. CASE req'[p] = req[p]
    BY <2>1 DEF Closed
  <2>2. CASE UNCHANGED vars
    BY <2>1, <2>2 DEF vars
  <2>3. CASE Next
    <3>1. PICK q \in Request : Moves(q)
      BY <2>3 DEF Next, Moves
    <3> QED
      BY <2>0, <2>1, <3>1, OthersWait, OwnClosed
  <2> QED
    BY <2>2, <2>3
<1>3. IInv /\ Closed => NothingLeftOpen
  BY DEF IInv, Inv, LockDiscipline, PendingWhere, Closed, Outside, NothingLeftOpen
<1> QED
  BY <1>1, <1>2, <1>3, AlwaysIInv, PTL DEF Spec

\* A merge answered with 200 has taken its beers away for good (beer_admin.go:168-172).
THEOREM MergesHold == Spec => []MergeOKMeansMerged
<1>1. IInv => MergeOKMeansMerged
  BY DEF IInv, WorkInOrder, MergedStayGone, MergeOKMeansMerged, Merging, At
<1> QED
  BY <1>1, AlwaysIInv, PTL

\* An edit answered with 200 has hit its pour, although nobody counts the rows
\* (review.go:232-315): otherwise the pour would be gone for good, and reading it back fail.
THEOREM EditsApply == Spec => []UpdateOKMeansApplied
<1>1. Init => UpdateOKMeansApplied
  BY DEF Init, Idle, UpdateOKMeansApplied, At
<1>2. IInv /\ UpdateOKMeansApplied /\ [Next]_vars => UpdateOKMeansApplied'
  <2> SUFFICES ASSUME IInv, UpdateOKMeansApplied, [Next]_vars, NEW p \in Request,
                      At(p, "done")', Op(p)' = "ReviewUpdate", req'[p].status = 200
               PROVE  req'[p].hit
    BY DEF UpdateOKMeansApplied
  <2>0. TypeOK
    BY DEF IInv, Inv
  <2>1. CASE req'[p] = req[p]
    BY <2>1 DEF UpdateOKMeansApplied, At, Op
  <2>2. CASE Receive(p)
    <3>1. PICK c \in Call : req'[p].pc = Entry(c)
      BY <2>0, <2>2, CatalogAssumption DEF Receive, CatalogAssumption, TypeOK, RequestsTyped, Idle
    <3> QED
      BY <3>1, CallEnters DEF At
  <2>3. CASE QueryGroup(p)
    <3>1. At(p, "ids") /\ (req'[p].call = req[p].call)
      BY <2>0, <2>3 DEF QueryGroup, SkipGroup, TypeOK, RequestsTyped, Locals
    <3> QED
      BY <2>0, <3>1, OpAt DEF Op
  <2>4. CASE Moves(p) /\ ~Receive(p) /\ ~QueryGroup(p)
    <3>1. req'[p].call = req[p].call /\ (ReloadBeer(p) \/ FinishDedupe(p)) /\ req'[p].hit = req[p].hit
      BY <2>0, <2>4, OwnLocals DEF At
    <3>2. At(p, "reload")
      BY <2>0, <3>1, OpAt DEF ReloadBeer, FinishDedupe, Op
    <3>3. EditInOrder(p)
      BY DEF IInv, WorkInOrder
    <3> QED
      BY <3>1, <3>2, <3>3 DEF EditInOrder, At, Op
  <2>5. CASE UNCHANGED vars
    BY <2>1, <2>5 DEF vars
  <2>6. CASE Next
    <3>1. PICK q \in Request : Moves(q)
      BY <2>6 DEF Next, Moves
    <3>2. CASE q # p
      BY <2>0, <2>1, <3>1, <3>2, OthersWait
    <3> QED
      BY <2>2, <2>3, <2>4, <3>1, <3>2
  <2> QED
    BY <2>5, <2>6
<1> QED
  BY <1>1, <1>2, AlwaysIInv, PTL DEF Spec

\* A pour goes by its owner's hand, or with a beer whose merge could not yet, or no longer, see
\* it there (beer_admin.go:301-313); DedupeExact never loses one it has seen.
THEOREM LatePours == Spec => OnlyLatePoursAreLost
<1> DEFINE Lost(r) == reviews[r] # None /\ reviews'[r] = None
           Excused(r) ==
             \E p \in Request :
               \/ /\ At(p, "remove")
                  /\ req[p].call.review = r /\ req[p].call.user = reviews[r].user
               \/ /\ At(p, "commit") /\ Merging(p)
                  /\ reviews[r].beer \in Ids(p)
                  /\ r \in req[p].targets => Op(p) = "Merge" /\ req[p].beer \in Ids(p)
<1>1. ASSUME IInv, IInv', Apart, [Next]_vars, NEW r \in Id, Lost(r)
      PROVE  Excused(r)
  <2>1. ~UNCHANGED db
    BY <1>1 DEF db
  <2>2. PICK p \in Request : Moves(p)
    BY <1>1, <2>1 DEF Next, Moves, vars, db
  <2>3. Commit(p) \/ RemoveReview(p) \/ PatchBeer(p)
    BY <2>1, <2>2, OthersLeaveTables DEF Moves, Step, ReviewEdit, Finish
  <2>4. CASE RemoveReview(p)
    <3>1. OwnedBy(reviews[req[p].call.review], req[p].call.user)
          /\ reviews' = [reviews EXCEPT ![req[p].call.review] = None]
      BY <2>1, <2>4 DEF RemoveReview, Reply
    <3>2. req[p].call.review = r
      BY <1>1, <3>1 DEF IInv, Inv, TypeOK
    <3> QED
      BY <2>4, <3>1, <3>2 DEF RemoveReview, OwnedBy
  <2>5. CASE PatchBeer(p)
    BY <1>1, <2>5 DEF PatchBeer, Reply, db
  <2>6. CASE Commit(p)
    <3>1. wr[p][r] = None /\ At(p, "commit") /\ WritesToRows(p)
      BY <1>1, <2>6, CommittedRows DEF IInv, Inv
    <3>2. Merging(p) /\ MergeInOrder(p)
      BY <1>1, <3>1 DEF WritesToRows, IInv, WorkInOrder
    <3>3. /\ reviews[r].beer \in Ids(p)
          /\ req[p].beer \notin Ids(p) => r \notin req[p].targets
      BY <3>1, <3>2, Sentinels DEF MergeInOrder, At, IsRow
    <3>4. Op(p) = "DedupeExact" => req[p].beer \notin Ids(p)
      BY <1>1, <3>1, <3>2 DEF Apart, MergeLabels, At, Merging
    <3> QED
      BY <3>1, <3>2, <3>3, <3>4 DEF Merging
  <2> QED
    BY <2>3, <2>4, <2>5, <2>6
<1>2. IInv /\ IInv' /\ Apart /\ [Next]_vars =>
        [\A r \in Id : reviews[r] # None /\ reviews'[r] = None =>
           \E p \in Request :
             \/ /\ At(p, "remove")
                /\ req[p].call.review = r /\ req[p].call.user = reviews[r].user
             \/ /\ At(p, "commit") /\ Merging(p)
                /\ reviews[r].beer \in Ids(p)
                /\ r \in req[p].targets => Op(p) = "Merge" /\ req[p].beer \in Ids(p)]_vars
  BY <1>1
<1> QED
  BY <1>2, AlwaysIInv, AlwaysApart, PTL DEF Spec, OnlyLatePoursAreLost

-----------------------------------------------------------------------------
(* DedupeExact, while nobody creates or patches beers or merges by hand: keys change no more, *)
(* groups only shrink, and every duplicated key is in the group at hand or still to do.       *)

Quiet == \A p \in Request : At(p, "idle") \/ Entry(req[p].call) \notin {"lookup", "patch", "exists"}

\* p changes no beer's name or brewery.
KeysStay(p) ==
  /\ req[p].pc \notin {"lookup", "insertBeer", "patch"}
  /\ \A i \in Id : IsRow(wb[p][i]) => beers[i] # None /\ Key(wb[p][i]) = Key(beers[i])

\* The beers p merges are the group of k, and what else is duplicated is still to do.
GroupTaken(p, k) ==
  /\ \A i \in Ids(p) \cup {req[p].beer} : beers[i] # None => Key(beers[i]) = k
  /\ Group(beers, k) \subseteq Ids(p) \cup {req[p].beer}
  /\ DuplicateKeys(beers) \subseteq req[p].keys \cup {k}
  /\ At(p, "filling") /\ req[p].src # None => Key(req[p].src) = k

Covers(p) ==
  ~At(p, "idle") /\ Op(p) = "DedupeExact" =>
    /\ At(p, "group") \/ At(p, "ids") => DuplicateKeys(beers) \subseteq req[p].keys
    /\ req[p].pc \in MergeLabels => \E k \in Keys : GroupTaken(p, k)
    /\ At(p, "done") /\ req[p].status = 200 => DuplicateKeys(beers) = {}

DedupeCovers == Quiet => \A p \in Request : KeysStay(p) /\ Covers(p)

\* No beer appears and none changes its key.
Shrinks ==
  \A i \in Id : beers'[i] # None => beers[i] # None /\ Key(beers'[i]) = Key(beers[i])

LEMMA GroupFinite ==
  ASSUME NEW rows, NEW k
  PROVE  IsFiniteSet(Group(rows, k)) /\ Cardinality(Group(rows, k)) \in Nat
<1>1. IsFiniteSet(Id)
  BY CatalogAssumption, UpTo DEF CatalogAssumption, Id
<1>2. Group(rows, k) \in SUBSET Id
  BY DEF Group
<1> QED
  BY <1>1, <1>2, FS_Subset, FS_CardinalityType

LEMMA ShrunkGroups ==
  ASSUME Shrinks
  PROVE  /\ \A k : Group(beers, k)' \subseteq Group(beers, k)
         /\ DuplicateKeys(beers)' \subseteq DuplicateKeys(beers)
<1>1. ASSUME NEW k PROVE Group(beers', k) \subseteq Group(beers, k)
  BY DEF Shrinks, Group
<1>2. ASSUME NEW k \in DuplicateKeys(beers') PROVE k \in DuplicateKeys(beers)
  <2>1. PICK i \in Id : /\ beers'[i] # None /\ k = Key(beers'[i])
                        /\ Cardinality(Group(beers', Key(beers'[i]))) > 1
    BY <1>2 DEF DuplicateKeys
  <2>2. beers[i] # None /\ Key(beers[i]) = k
    BY <2>1 DEF Shrinks
  <2>3. Cardinality(Group(beers', k)) <= Cardinality(Group(beers, k))
    BY <1>1, GroupFinite, FS_Subset
  <2>4. Cardinality(Group(beers, k)) > 1
    BY <2>1, <2>3, GroupFinite
  <2> QED
    BY <2>1, <2>2, <2>4 DEF DuplicateKeys
<1> QED
  BY <1>1, <1>2

\* A group of at most one beer is no duplicate.
LEMMA SmallGroup ==
  ASSUME NEW rows, NEW k, ~(Cardinality(Group(rows, k)) > 1)
  PROVE  k \notin DuplicateKeys(rows)
<1>1. \A i : Key(rows[i]) = k => ~(Cardinality(Group(rows, Key(rows[i]))) > 1)
  OBVIOUS
<1> QED
  BY <1>1, Zenon DEF DuplicateKeys

LEMMA OneBeerGroup ==
  ASSUME NEW rows, NEW k, NEW b, Group(rows, k) \subseteq {b}
  PROVE  k \notin DuplicateKeys(rows)
<1>1. IsFiniteSet({b}) /\ Cardinality({b}) = 1
  BY FS_Singleton
<1>2. Cardinality(Group(rows, k)) <= 1
  <2> DEFINE g == Group(rows, k)
  <2>1. g \in SUBSET {b}
    OBVIOUS
  <2> HIDE DEF g
  <2>2. Cardinality(g) <= Cardinality({b})
    BY <1>1, <2>1, FS_Subset
  <2> QED
    BY <1>1, <2>2 DEF g
<1> QED
  BY <1>2, GroupFinite, SmallGroup

\* The ranking lists the whole group.
LEMMA RankedAll ==
  ASSUME NEW s \in SUBSET Id, NEW f \in Ranked(s)
  PROVE  s = {f[n] : n \in 1..Len(f)}
<1>1. /\ f \in Seq(s) /\ Len(f) = Cardinality(s) /\ Len(f) \in Nat
      /\ \A m, n \in 1..Len(f) : f[m] = f[n] => m = n
  BY RankedOnce
<1>2. f \in Injection(1..Len(f), s)
  <2>1. f \in [1..Len(f) -> s]
    BY <1>1
  <2> QED
    BY <1>1, <2>1 DEF Injection, IsInjective
<1>3. IsFiniteSet(s)
  <2>1. IsFiniteSet(Id)
    BY CatalogAssumption, UpTo DEF CatalogAssumption, Id
  <2> QED
    BY <2>1, FS_Subset
<1>4. f \in Surjection(1..Len(f), s)
  BY <1>1, <1>2, <1>3, UpTo, FS_Injection
<1> QED
  BY <1>1, <1>4 DEF Surjection

LEMMA QuietBack ==
  ASSUME TypeOK, NEW p \in Request, Moves(p), Quiet'
  PROVE  Quiet
<1>1. SUFFICES ASSUME NEW q \in Request, ~At(q, "idle")
               PROVE  Entry(req[q].call) \notin {"lookup", "patch", "exists"}
  BY DEF Quiet
<1>2. req'[q].call = req[q].call /\ req'[q].pc # "idle"
  <2>1. CASE q # p
    BY <1>1, <2>1, OthersWait DEF At
  <2>2. CASE q = p /\ QueryGroup(p)
    <3>1. req \in [Request -> Locals] /\ At(p, "ids")
      BY <2>2 DEF QueryGroup, TypeOK, RequestsTyped
    <3>2. PICK keys, ids :
            \/ req' = [req EXCEPT ![p].pc = "group", ![p].keys = keys, ![p].open = FALSE]
            \/ req' = [req EXCEPT ![p].keys = keys, ![p].pc = "exists", ![p].filled = 0,
                                  ![p].beer = Head(ids), ![p].ids = Tail(ids)]
      BY <2>2 DEF QueryGroup, SkipGroup
    <3>3. CASE req' = [req EXCEPT ![p].pc = "group", ![p].keys = keys, ![p].open = FALSE]
      BY <2>2, <3>1, <3>3 DEF Locals, At
    <3>4. CASE req' = [req EXCEPT ![p].keys = keys, ![p].pc = "exists", ![p].filled = 0,
                                  ![p].beer = Head(ids), ![p].ids = Tail(ids)]
      BY <2>2, <3>1, <3>4 DEF Locals, At
    <3> QED
      BY <3>2, <3>3, <3>4
  <2>3. CASE q = p /\ ~QueryGroup(p)
    BY <1>1, <2>3, OwnLocals DEF Receive
  <2> QED
    BY <2>1, <2>2, <2>3
<1> QED
  BY <1>2 DEF Quiet, At

\* What p's step leaves of the beers, and of the others' writes to them.
LEMMA QuietBeers ==
  ASSUME IInv, TypeOK', NEW p \in Request, Moves(p), KeysStay(p)
  PROVE  /\ Shrinks
         /\ \A q \in Request \ {p}, i \in Id : wb[q][i] # Same => beers'[i] = beers[i]
         /\ ~Commit(p) => UNCHANGED beers
<1>1. CASE Commit(p)
  <2>1. \A i \in Id : beers'[i] = IF wb[p][i] = Same THEN beers[i] ELSE wb[p][i]
    BY <1>1, CommittedRows
  <2>2. OneWriter
    BY DEF IInv, Inv, LockDiscipline
  <2> QED
    BY <1>1, <2>1, <2>2 DEF OneWriter, KeysStay, Shrinks, IsRow
<1>2. CASE ~Commit(p)
  <2>1. UNCHANGED beers
    <3>1. CASE RemoveReview(p)
      BY <3>1 DEF RemoveReview, Reply, db
    <3>2. CASE PatchBeer(p)
      BY <3>2 DEF KeysStay, PatchBeer, At
    <3>3. CASE ~RemoveReview(p) /\ ~PatchBeer(p)
      BY <1>2, <3>3, OthersLeaveTables DEF Moves, Step, ReviewEdit, Finish, db
    <3> QED
      BY <3>1, <3>2, <3>3
  <2> QED
    BY <1>2, <2>1 DEF Shrinks
<1> QED
  BY <1>1, <1>2

LEMMA OthersWrites ==
  ASSUME TypeOK, NEW p \in Request, Moves(p), NEW q \in Request \ {p}
  PROVE  wb'[q] = wb[q]
<1>1. \A w : wb' = [wb EXCEPT ![p] = w] => wb'[q] = wb[q]
  BY DEF TypeOK
<1>2. wb' = wb \/ \E w : wb' = [wb EXCEPT ![p] = w]
  <2>1. CASE Receive(p) \/ FindOrCreate(p) \/ Dedupe(p) \/ DeadlockVictim(p) \/ Cancel(p)
    <3>1. CASE Receive(p)
      BY <3>1 DEF Receive
    <3>2. CASE LookupBeer(p)
      BY <3>2 DEF LookupBeer, Goto, Abort
    <3>3. CASE InsertBeer(p)
      BY <3>3 DEF InsertBeer, Goto, Abort
    <3>4. CASE QueryKeys(p) \/ BeginGroup(p) \/ QueryGroup(p) \/ FinishDedupe(p)
      <4>1. CASE QueryKeys(p)
        BY <4>1 DEF QueryKeys
      <4>2. CASE BeginGroup(p)
        BY <4>2 DEF BeginGroup
      <4>3. CASE QueryGroup(p)
        BY <4>3 DEF QueryGroup, SkipGroup
      <4>4. CASE FinishDedupe(p)
        BY <4>4 DEF FinishDedupe, Reply
      <4> QED
        BY <3>4, <4>1, <4>2, <4>3, <4>4
    <3>5. CASE DeadlockVictim(p) \/ Cancel(p)
      BY <3>5 DEF DeadlockVictim, Cancel, KeysFail, GroupFails, MergeFails, Abort, Reply
    <3> QED
      BY <2>1, <3>1, <3>2, <3>3, <3>4, <3>5 DEF FindOrCreate, Dedupe
  <2>2. CASE ReviewEdit(p) \/ PatchBeer(p) \/ Finish(p)
    BY <2>2 DEF ReviewEdit, InsertReview, CheckOwner, UpdateReview, RemoveReview, PatchBeer,
       Finish, Commit, RereadReview, ReloadBeer, Abort, Reply, Goto
  <2>3. CASE MergeBeersTx(p)
    BY <2>3 DEF MergeBeersTx, CheckKeep, CheckMerged, ReadSource, FillSurvivor, TargetReviews,
       ReassignReviews, DeleteBeers, CascadeReviews, Abort, Goto
  <2> QED
    BY <2>1, <2>2, <2>3 DEF Moves, Step
<1> QED
  BY <1>1, <1>2

\* What p's own writes to the beers become: none, the same, or deletions.
LEMMA OwnWrites ==
  ASSUME TypeOK, NEW p \in Request, Moves(p), ~InsertBeer(p), ~FillSurvivor(p), NEW i \in Id
  PROVE  /\ wb'[p][i] \in {wb[p][i], Same, None}
         /\ Commit(p) => wb'[p][i] = Same
<1>1. wb \in [Request -> [Id -> Beer \cup {None, Same}]]
  BY DEF TypeOK
<1>2. wb' = [wb EXCEPT ![p] = NoWrites] => wb'[p][i] = Same
  BY <1>1, NoWritesIsSame
<1>3. CASE Receive(p) \/ LookupBeer(p) \/ Dedupe(p) \/ DeadlockVictim(p) \/ Cancel(p)
  BY <1>2, <1>3 DEF Receive, LookupBeer, Dedupe, QueryKeys, BeginGroup, QueryGroup, FinishDedupe,
     SkipGroup, BeginGroup, DeadlockVictim, Cancel, KeysFail, GroupFails, MergeFails, Abort,
     Reply, Commit, At, Conflicts
<1>4. CASE ReviewEdit(p) \/ PatchBeer(p)
  BY <1>2, <1>4 DEF ReviewEdit, InsertReview, CheckOwner, UpdateReview, RemoveReview, PatchBeer,
     Abort, Reply, Commit, At
<1>5. CASE Finish(p)
  BY <1>2, <1>5 DEF Finish, Commit, RereadReview, ReloadBeer, Reply, At
<1>6. CASE DeleteBeers(p)
  BY <1>1, <1>6 DEF DeleteBeers, Write, Commit, At
<1>7. CASE MergeBeersTx(p) /\ ~DeleteBeers(p) /\ ~FillSurvivor(p)
  BY <1>2, <1>7 DEF MergeBeersTx, CheckKeep, CheckMerged, ReadSource, TargetReviews,
     ReassignReviews, CascadeReviews, Abort, Goto, Commit, At
<1> QED
  BY <1>3, <1>4, <1>5, <1>6, <1>7 DEF Moves, Step, FindOrCreate

\* Filling from a beer of the group leaves the survivor's key.
LEMMA FilledKey ==
  ASSUME NEW keep \in Beer, NEW src \in Beer, Key(src) = Key(keep)
  PROVE  Key(Filled(keep, src)) = Key(keep)
  BY FilledType DEF Filled, Key, Beer

\* What p sees of a beer has the key of the committed row.
LEMMA SeenKeys ==
  ASSUME TypeOK, NEW p \in Request, KeysStay(p), NEW i \in Id, SeenBeers(p)[i] # None
  PROVE  beers[i] # None /\ Key(SeenBeers(p)[i]) = Key(beers[i])
  BY SeenRows DEF KeysStay, IsRow

LEMMA OwnKeysStay ==
  ASSUME IInv, TypeOK', NEW p \in Request, Moves(p), KeysStay(p), Covers(p), Quiet'
  PROVE  KeysStay(p)'
<1>1. TypeOK /\ req \in [Request -> Locals] /\ req[p] \in Locals
  BY DEF IInv, Inv, TypeOK, RequestsTyped
<1>2. ~InsertBeer(p)
  BY DEF InsertBeer, KeysStay, At
<1>3. req'[p].pc \notin {"lookup", "insertBeer", "patch"}
  <2>1. CASE Receive(p)
    <3>1. PICK c \in Call : req'[p].pc = Entry(c) /\ req'[p].call = c
      BY <1>1, <2>1, CatalogAssumption DEF Receive, CatalogAssumption, Idle
    <3>2. Entry(c) \notin {"idle", "insertBeer"}
      BY DEF Entry, Call, BeerCreateCall, ReviewCreateCall, ReviewUpdateCall, ReviewDeleteCall,
         BeerUpdateCall, MergeCall, DedupeCall
    <3> QED
      BY <3>1, <3>2 DEF Quiet, At
  <2>2. CASE QueryGroup(p)
    <3>1. At(p, "ids")
      BY <2>2 DEF QueryGroup
    <3>2. PICK keys, ids :
            \/ req' = [req EXCEPT ![p].pc = "group", ![p].keys = keys, ![p].open = FALSE]
            \/ req' = [req EXCEPT ![p].keys = keys, ![p].pc = "exists", ![p].filled = 0,
                                  ![p].beer = Head(ids), ![p].ids = Tail(ids)]
      BY <2>2 DEF QueryGroup, SkipGroup
    <3> QED
      BY <1>1, <3>1, <3>2 DEF Locals, At
  <2>3. CASE ~Receive(p) /\ ~QueryGroup(p)
    BY <1>1, <2>3, OwnLocals DEF KeysStay
  <2> QED
    BY <2>1, <2>2, <2>3
<1>4. ASSUME NEW i \in Id, IsRow(wb'[p][i])
      PROVE  beers'[i] # None /\ Key(wb'[p][i]) = Key(beers'[i])
  <2>1. CASE ~FillSurvivor(p)
    <3>1. wb'[p][i] = wb[p][i] /\ ~Commit(p)
      BY <1>1, <1>2, <1>4, <2>1, OwnWrites DEF IsRow
    <3>2. beers' = beers
      BY <3>1, QuietBeers
    <3> QED
      BY <1>4, <3>1, <3>2 DEF KeysStay
  <2>2. CASE FillSurvivor(p)
    <3> DEFINE b == req[p].beer
               row == SeenBeers(p)[b]
    <3>1. /\ Op(p) \in {"Merge", "DedupeExact"} /\ ~At(p, "idle") /\ At(p, "filling")
          /\ b \in Id /\ beers' = beers
      BY <2>2, InMerge DEF FillSurvivor, At, db
    <3>2. CASE wb' = wb
      BY <1>4, <3>1, <3>2 DEF KeysStay
    <3>3. CASE req[p].src # None /\ row # None /\ wb' = [wb EXCEPT ![p][b] = Filled(row, req[p].src)]
      <4>1. CASE i # b
        BY <1>1, <1>4, <3>1, <3>3, <4>1 DEF KeysStay, TypeOK
      <4>2. CASE i = b
        <5>1. row \in Beer /\ req[p].src \in Beer
          BY <1>1, <3>1, <3>3, Typed DEF Locals
        <5>2. beers[b] # None /\ Key(row) = Key(beers[b])
          BY <1>1, <3>1, <3>3, SeenKeys
        <5>3. Op(p) = "DedupeExact"
          <6>1. Op(p) = "Merge" => Entry(req[p].call) = "exists"
            BY DEF Entry, Op
          <6>2. Quiet
            BY <1>1, QuietBack
          <6> QED
            BY <3>1, <6>1, <6>2 DEF Quiet
        <5>4. Key(req[p].src) = Key(beers[b])
          BY <3>1, <3>3, <5>2, <5>3 DEF Covers, GroupTaken, MergeLabels, At
        <5>5. wb'[p][b] = Filled(row, req[p].src)
          BY <1>1, <3>1, <3>3 DEF TypeOK
        <5> QED
          BY <3>1, <4>2, <5>1, <5>2, <5>4, <5>5, FilledKey
      <4> QED
        BY <4>1, <4>2
    <3> QED
      BY <2>2, <3>2, <3>3 DEF FillSurvivor
  <2> QED
    BY <2>1, <2>2
<1> QED
  BY <1>3, <1>4 DEF KeysStay

\* The next group: all its beers, and nothing else; a group passed over has no duplicate left.
LEMMA GroupNext ==
  ASSUME IInv, TypeOK', NEW p \in Request, QueryGroup(p), ~ConnectionsBreak, Covers(p)
  PROVE  Covers(p)'
<1>1. /\ req \in [Request -> Locals] /\ req[p] \in Locals /\ At(p, "ids") /\ beers' = beers
      /\ ~At(p, "idle") /\ Op(p) = "DedupeExact" /\ DuplicateKeys(beers) \subseteq req[p].keys
  <2>1. TypeOK /\ At(p, "ids")
    BY DEF IInv, Inv, QueryGroup
  <2>2. Op(p) = "DedupeExact" /\ ~At(p, "idle")
    BY <2>1, OpAt DEF At
  <2> QED
    BY <2>1, <2>2 DEF TypeOK, RequestsTyped, QueryGroup, Covers, db
<1>2. PICK k \in req[p].keys : \E ids \in Ranked(Group(beers, k)) :
        \/ /\ Len(ids) < 2 \/ ConnectionsBreak
           /\ SkipGroup(p, k)
        \/ /\ Len(ids) > 1
           /\ req' = [req EXCEPT ![p].keys = @ \ {k}, ![p].pc = "exists", ![p].filled = 0,
                                 ![p].beer = Head(ids), ![p].ids = Tail(ids)]
  BY DEF QueryGroup
<1>3. PICK ids \in Ranked(Group(beers, k)) :
        \/ /\ Len(ids) < 2 \/ ConnectionsBreak
           /\ SkipGroup(p, k)
        \/ /\ Len(ids) > 1
           /\ req' = [req EXCEPT ![p].keys = @ \ {k}, ![p].pc = "exists", ![p].filled = 0,
                                 ![p].beer = Head(ids), ![p].ids = Tail(ids)]
  BY <1>2
<1>4. Group(beers, k) \in SUBSET Id /\ k \in Keys
  BY <1>1 DEF Group, Locals
<1>5. CASE Len(ids) < 2 /\ SkipGroup(p, k)
  <2>1. k \notin DuplicateKeys(beers)
    <3>1. Len(ids) = Cardinality(Group(beers, k))
      BY <1>4, RankedOnce
    <3> QED
      BY <1>5, <3>1, GroupFinite, SmallGroup
  <2>2. req'[p].pc = "group" /\ req'[p].keys = req[p].keys \ {k}
    BY <1>1, <1>5 DEF SkipGroup, Locals, At
  <2> QED
    BY <1>1, <2>1, <2>2 DEF Covers, MergeLabels, At
<1>6. CASE Len(ids) > 1 /\ req' = [req EXCEPT ![p].keys = @ \ {k}, ![p].pc = "exists",
             ![p].filled = 0, ![p].beer = Head(ids), ![p].ids = Tail(ids)]
  <2>1. /\ req'[p].pc = "exists" /\ req'[p].keys = req[p].keys \ {k}
        /\ req'[p].beer = Head(ids) /\ req'[p].ids = Tail(ids)
    BY <1>1, <1>6 DEF Locals
  <2>2. Group(beers, k) = Ids(p)' \cup {req'[p].beer}
    <3>1. ids \in Seq(Id) /\ Group(beers, k) = {ids[n] : n \in 1..Len(ids)}
      BY <1>4, RankedType, RankedAll
    <3>2. Head(ids) = ids[1] /\ DOMAIN Tail(ids) = 1..(Len(ids) - 1) /\ Len(ids) \in Nat
          /\ \A n \in 1..(Len(ids) - 1) : Tail(ids)[n] = ids[n + 1]
      BY <1>6, <3>1
    <3>3. Ids(p)' = {ids[n + 1] : n \in 1..(Len(ids) - 1)}
      BY <2>1, <3>2 DEF Ids
    <3>4. \A n \in 1..Len(ids) : n = 1 \/ (n - 1 \in 1..(Len(ids) - 1) /\ n = (n - 1) + 1)
      BY <3>2
    <3>5. Group(beers, k) \subseteq Ids(p)' \cup {req'[p].beer}
      BY <2>1, <3>1, <3>2, <3>3, <3>4
    <3>6. Ids(p)' \cup {req'[p].beer} \subseteq Group(beers, k)
      <4>1. \A n \in 1..(Len(ids) - 1) : n + 1 \in 1..Len(ids)
        BY <3>2
      <4>2. 1 \in 1..Len(ids)
        BY <1>6, <3>2
      <4> QED
        BY <2>1, <3>1, <3>2, <3>3, <4>1, <4>2
    <3> QED
      BY <3>5, <3>6
  <2>3. \A i \in Group(beers, k) : Key(beers[i]) = k
    BY DEF Group
  <2>4. GroupTaken(p, k)'
    BY <1>1, <2>1, <2>2, <2>3 DEF GroupTaken, At
  <2> QED
    BY <1>4, <2>1, <2>4 DEF Covers, At
<1> QED
  BY <1>3, <1>5, <1>6

\* A commit leaves of its group the survivor alone.
LEMMA GroupDone ==
  ASSUME IInv, TypeOK', NEW p \in Request, Commit(p), KeysStay(p), Covers(p), Shrinks
  PROVE  Covers(p)'
<1>1. SUFFICES ASSUME Op(p) = "DedupeExact" PROVE Covers(p)'
  <2>1. req'[p].call = req[p].call
    BY DEF Commit, IInv, Inv, TypeOK, RequestsTyped, Locals
  <2> QED
    BY <2>1 DEF Covers, Op
<1>2. /\ At(p, "commit") /\ ~At(p, "idle") /\ req[p] \in Locals
      /\ req'[p].pc = "group" /\ req'[p].keys = req[p].keys
  BY <1>1 DEF Commit, AfterCommit, IInv, Inv, TypeOK, RequestsTyped, Locals, At
<1>3. PICK k \in Keys : GroupTaken(p, k)
  BY <1>1, <1>2 DEF Covers, MergeLabels, At
<1>4. \A i \in Ids(p) : i \in Id /\ beers'[i] = None
  <2>1. \A i \in Ids(p) : i \in Id /\ SeenBeers(p)[i] = None
    BY <1>1, <1>2 DEF IInv, WorkInOrder, MergeInOrder, Merging, At, Ids, Locals
  <2> QED
    BY <2>1 DEF Commit
<1>5. Group(beers', k) \subseteq {req[p].beer}
  <2>1. Group(beers', k) \subseteq Group(beers, k)
    BY ShrunkGroups
  <2>2. \A i \in Group(beers', k) : i \notin Ids(p)
    BY <1>4 DEF Group
  <2> QED
    BY <1>3, <2>1, <2>2 DEF GroupTaken
<1>6. k \notin DuplicateKeys(beers')
  BY <1>5, OneBeerGroup
<1>7. DuplicateKeys(beers') \subseteq req'[p].keys
  BY <1>2, <1>3, <1>6, ShrunkGroups DEF GroupTaken
<1> QED
  BY <1>2, <1>7 DEF Covers, MergeLabels, At

LEMMA OwnCovers ==
  ASSUME IInv, TypeOK', NEW p \in Request, Moves(p), ~ConnectionsBreak, KeysStay(p), Covers(p)
  PROVE  Covers(p)'
<1>1. TypeOK /\ req \in [Request -> Locals] /\ req[p] \in Locals /\ Shrinks
      /\ (~Commit(p) => beers' = beers)
  BY QuietBeers DEF IInv, Inv, TypeOK, RequestsTyped
<1>2. CASE Receive(p)
  <2>1. PICK c \in Call : req'[p].pc = Entry(c) /\ req'[p].call = c
    BY <1>1, <1>2, CatalogAssumption DEF Receive, CatalogAssumption, Idle
  <2> QED
    BY <2>1 DEF Entry, Covers, MergeLabels, At, Op
<1>3. CASE QueryGroup(p)
  BY <1>3, GroupNext
<1>4. CASE Commit(p)
  BY <1>1, <1>4, GroupDone
<1>5. CASE QueryKeys(p)
  <2>1. req'[p].pc = "group" /\ req'[p].keys = DuplicateKeys(beers) /\ beers' = beers
    BY <1>1, <1>5 DEF QueryKeys, db
  <2> QED
    BY <2>1 DEF Covers, MergeLabels, At
<1>6. CASE BeginGroup(p)
  <2>1. /\ At(p, "group") /\ req'[p].pc = "ids" /\ req'[p].keys = req[p].keys
        /\ req'[p].call = req[p].call /\ beers' = beers /\ ~At(p, "idle")
    BY <1>1, <1>6 DEF BeginGroup, Locals, At, db
  <2> QED
    BY <2>1 DEF Covers, MergeLabels, At, Op
<1>7. CASE /\ ~Receive(p) /\ ~QueryGroup(p) /\ ~Commit(p) /\ ~QueryKeys(p)
           /\ ~BeginGroup(p)
  <2>1. SUFFICES ASSUME Op(p) = "DedupeExact" PROVE Covers(p)'
    BY <1>1, <1>7, OwnLocals DEF Covers, Op
  <2>2. /\ ~At(p, "idle") /\ beers' = beers /\ Merging(p)
        /\ ~At(p, "group")' /\ ~At(p, "ids")'
    BY <1>1, <1>7, <2>1, OwnLocals DEF Merging, At
  <2>3. At(p, "done")' /\ req'[p].status = 200 => DuplicateKeys(beers) = {}
    <3>1. SUFFICES ASSUME At(p, "done")', req'[p].status = 200 PROVE DuplicateKeys(beers) = {}
      OBVIOUS
    <3>2. ReloadBeer(p) \/ FinishDedupe(p)
      BY <1>1, <1>7, <3>1, OwnLocals DEF At
    <3>3. ~ReloadBeer(p)
      <4>1. req[p].pc \in Labels(Op(p)) \/ At(p, "done")
        BY <1>1, <2>2, Typed
      <4> QED
        BY <2>1, <4>1 DEF Labels, ReloadBeer, At
    <3> QED
      BY <2>1, <2>2, <3>2, <3>3 DEF FinishDedupe, Covers, At
  <2>4. ASSUME req'[p].pc \in MergeLabels PROVE \E k \in Keys : GroupTaken(p, k)'
    <3>1. /\ req[p].pc \in MergeLabels /\ req'[p].beer = req[p].beer
          /\ req'[p].keys = req[p].keys /\ req'[p].ids = req[p].ids
          /\ At(p, "filling")' => ReadSource(p)
      BY <1>1, <1>7, <2>2, <2>4, OwnLocals DEF At
    <3>2. PICK k \in Keys : GroupTaken(p, k)
      BY <2>1, <2>2, <3>1 DEF Covers
    <3>3. ASSUME ReadSource(p), req'[p].src # None PROVE Key(req'[p].src) = k
      <4> DEFINE i == req[p].ids[req[p].filled + 1]
      <4>1. i \in Ids(p) /\ i \in Id
        BY <1>1, <3>3 DEF ReadSource, Ids, Locals
      <4>2. req'[p].src = SeenBeers(p)[i]
        BY <1>1, <3>3 DEF ReadSource
      <4> HIDE DEF i
      <4>3. beers[i] # None /\ Key(SeenBeers(p)[i]) = Key(beers[i])
        BY <1>1, <3>3, <4>1, <4>2, SeenKeys
      <4> QED
        BY <3>2, <4>1, <4>2, <4>3 DEF GroupTaken
    <3>4. GroupTaken(p, k)'
      BY <2>2, <3>1, <3>2, <3>3 DEF GroupTaken, Ids, At
    <3> QED
      BY <3>2, <3>4
  <2> QED
    BY <2>2, <2>3, <2>4 DEF Covers
<1> QED
  BY <1>2, <1>3, <1>4, <1>5, <1>6, <1>7

LEMMA OthersCovered ==
  ASSUME IInv, TypeOK', NEW p \in Request, Moves(p), KeysStay(p), NEW q \in Request \ {p},
         KeysStay(q), Covers(q)
  PROVE  KeysStay(q)' /\ Covers(q)'
<1>1. TypeOK
  BY DEF IInv, Inv
<1>2. req'[q] = req[q] /\ wb'[q] = wb[q]
  BY <1>1, OthersWait, OthersWrites
<1>3. /\ Shrinks /\ \A i \in Id : wb[q][i] # Same => beers'[i] = beers[i]
      /\ DuplicateKeys(beers') \subseteq DuplicateKeys(beers)
      /\ \A k : Group(beers', k) \subseteq Group(beers, k)
  BY QuietBeers, ShrunkGroups
<1>4. KeysStay(q)'
  BY <1>2, <1>3 DEF KeysStay, IsRow
<1>5. ASSUME NEW k, GroupTaken(q, k), req[q] \in Locals, req[q].beer \in Id
      PROVE  GroupTaken(q, k)'
  <2>1. \A i \in Ids(q) \cup {req[q].beer} : i \in Id
    BY <1>5 DEF Ids, Locals
  <2> QED
    BY <1>2, <1>3, <1>5, <2>1 DEF GroupTaken, Shrinks, Ids, At
<1>6. ~At(q, "idle") /\ req[q].pc \in MergeLabels /\ Op(q) = "DedupeExact" =>
        req[q] \in Locals /\ req[q].beer \in Id
  <2>1. SUFFICES ASSUME ~At(q, "idle"), req[q].pc \in MergeLabels, Op(q) = "DedupeExact"
                 PROVE  req[q].beer \in Id
    BY <1>1, Typed
  <2>2. CASE At(q, "commit")
    BY <2>1, <2>2 DEF IInv, WorkInOrder, MergeInOrder, Merging, At
  <2>3. CASE ~At(q, "commit")
    BY <2>1, <2>3, InMerge DEF MergeLabels, At
  <2> QED
    BY <2>2, <2>3
<1>7. Covers(q)'
  <2>1. SUFFICES ASSUME ~At(q, "idle"), Op(q) = "DedupeExact" PROVE Covers(q)'
    BY <1>2 DEF Covers, At, Op
  <2>2. req[q].pc \in MergeLabels => \E k \in Keys : GroupTaken(q, k)'
    BY <1>5, <1>6, <2>1 DEF Covers
  <2>3. /\ At(q, "group") \/ At(q, "ids") => DuplicateKeys(beers') \subseteq req[q].keys
        /\ At(q, "done") /\ req[q].status = 200 => DuplicateKeys(beers') = {}
    BY <1>3, <2>1 DEF Covers
  <2> QED
    BY <1>2, <2>1, <2>2, <2>3 DEF Covers, At
<1> QED
  BY <1>4, <1>7

LEMMA DedupeCoversKept ==
  ASSUME ~ConnectionsBreak
  PROVE  IInv /\ IInv' /\ DedupeCovers /\ [Next]_vars => DedupeCovers'
<1> SUFFICES ASSUME IInv, TypeOK', DedupeCovers, [Next]_vars, Quiet', NEW q \in Request
             PROVE  (KeysStay(q) /\ Covers(q))'
  BY DEF IInv, Inv, DedupeCovers
<1>1. TypeOK
  BY DEF IInv, Inv
<1>2. CASE UNCHANGED vars
  <2>1. beers' = beers /\ req' = req /\ wb' = wb
    BY <1>2 DEF vars
  <2>2. Quiet
    BY <2>1 DEF Quiet, At
  <2> QED
    BY <2>1, <2>2 DEF DedupeCovers, KeysStay, Covers, GroupTaken, At, Op, Ids
<1>3. CASE Next
  <2>1. PICK p \in Request : Moves(p)
    BY <1>3 DEF Next, Moves
  <2>2. \A i \in Request : KeysStay(i) /\ Covers(i)
    BY <1>1, <2>1, QuietBack DEF DedupeCovers
  <2>3. CASE q = p
    BY <2>1, <2>2, <2>3, OwnKeysStay, OwnCovers
  <2>4. CASE q # p
    BY <2>1, <2>2, <2>4, OthersCovered
  <2> QED
    BY <2>3, <2>4
<1> QED
  BY <1>2, <1>3

\* After DedupeExact's 200 no two beers share name and brewery, whatever users pour, edit and
\* remove meanwhile, and whoever dedupes besides (docs/ARCHITECTURE.md:105): if the ids of each
\* group arrive in full.  When the connection may break among them, which nobody checks
\* (beer_admin.go:229-239), a run shows that duplicates may stay.
THEOREM Deduped ==
  ASSUME ~ConnectionsBreak
  PROVE  Spec => []DedupeLeavesNoDuplicates
<1>1. Init => DedupeCovers
  <2>1. SUFFICES ASSUME Init PROVE \A p \in Request : KeysStay(p) /\ Covers(p)
    BY DEF DedupeCovers
  <2> QED
    BY <2>1, NoWritesIsSame DEF Init, Idle, KeysStay, Covers, At, IsRow
<1>2. DedupeCovers => DedupeLeavesNoDuplicates
  BY DEF DedupeCovers, Quiet, Covers, DedupeLeavesNoDuplicates, At
<1> QED
  BY <1>1, <1>2, DedupeCoversKept, AlwaysIInv, PTL DEF Spec

-----------------------------------------------------------------------------
(* The survivor of a merge, when one admin request comes and spells each id one way. *)

LoneAdmin == \A p, q \in Admin : p = q

OneSpelling ==
  \A c \in AdminCalls : c.op = "Merge" => \A n \in DOMAIN c.ids : c.ids[n].id # c.keep.id

\* Only admins merge; what is merged is not the survivor, which stays once it was looked up.
SurvivorStays(p) ==
  Merging(p) =>
    /\ p \in Admin
    /\ req[p].pc \in MergeLabels => req[p].beer \notin Ids(p)
    /\ req[p].pc \in MergeLabels \ {"exists"} =>
         req[p].beer \in Id /\ beers[req[p].beer] # None /\ wb[p][req[p].beer] # None

LEMMA BeerStays ==
  ASSUME IInv, TypeOK', NEW q \in Request, Moves(q), ~Merging(q) \/ ~Commit(q),
         NEW i \in Id, beers[i] # None
  PROVE  beers'[i] # None
<1>1. CASE Commit(q)
  BY <1>1, CommittedRows DEF WritesToRows
<1>2. CASE PatchBeer(q)
  <2>1. CASE beers' = beers
    BY <2>1
  <2>2. CASE beers' = [beers EXCEPT ![req[q].beer] = Patched(@, req[q].call)]
    <3>1. CASE i = req[q].beer
      <4>1. Patched(beers[i], req[q].call) # None
        <5>1. TypeOK /\ At(q, "patch")
          BY <1>2 DEF IInv, Inv, PatchBeer
        <5>2. req[q].call \in BeerUpdateCall
          BY <5>1, Typed, OpAt, CallTypes DEF At, Op
        <5> QED
          BY <5>1, <5>2, PatchedType, Sentinels DEF TypeOK
      <4> QED
        BY <2>2, <3>1, <4>1 DEF IInv, Inv, TypeOK
    <3> QED
      BY <2>2, <3>1 DEF IInv, Inv, TypeOK
  <2> QED
    BY <1>2, <2>1, <2>2 DEF PatchBeer, Reply, db
<1>3. CASE RemoveReview(q)
  BY <1>3 DEF RemoveReview, Reply, db
<1>4. CASE ~Commit(q) /\ ~PatchBeer(q) /\ ~RemoveReview(q)
  BY <1>4, OthersLeaveTables DEF Moves, Step, ReviewEdit, Finish, db
<1> QED
  BY <1>1, <1>2, <1>3, <1>4

\* What a merge's own statements write to its survivor.
LEMMA SurvivorWrites ==
  ASSUME IInv, NEW p \in Request, MergeBeersTx(p), SurvivorStays(p),
         req'[p].pc \in MergeLabels \ {"exists"}
  PROVE  wb'[p][req[p].beer] # None /\ beers[req[p].beer] # None
<1> DEFINE b == req[p].beer
<1>1. /\ Inv /\ TypeOK /\ b \in Id /\ Merging(p) /\ req \in [Request -> Locals]
      /\ wb \in [Request -> [Id -> Beer \cup {None, Same}]] /\ req[p] \in Locals
  BY InMerge DEF MergeBeersTx, CheckKeep, CheckMerged, ReadSource, FillSurvivor, TargetReviews,
     ReassignReviews, DeleteBeers, CascadeReviews, At, Inv, TypeOK, RequestsTyped
<1>2. CASE CheckKeep(p)
  <2>1. SeenBeers(p)[b] # None /\ wb' = wb /\ wb[p] = NoWrites
    <3>1. wb[p] = NoWrites
      BY <1>1, <1>2 DEF CheckKeep, Inv, LockDiscipline, PendingWhere, At
    <3>2. \A code : ~Abort(p, code)
      BY <1>1 DEF Abort, MergeLabels, Locals
    <3> QED
      BY <1>2, <3>1, <3>2 DEF CheckKeep
  <2> QED
    BY <1>1, <2>1, SeenRows, NoWritesIsSame, Sentinels
<1>3. CASE ~CheckKeep(p)
  <2>1. wb[p][b] # None /\ beers[b] # None /\ b \notin Ids(p)
    BY <1>1, <1>3 DEF MergeBeersTx, CheckMerged, ReadSource, FillSurvivor, TargetReviews,
       ReassignReviews, DeleteBeers, CascadeReviews, At, SurvivorStays, MergeLabels
  <2>2. CASE CheckMerged(p) \/ ReassignReviews(p)
    <3>1. req'[p].pc = "done" \/ wb' = wb
      <4>1. \A code : Abort(p, code) => req'[p].pc = "done"
        BY <1>1 DEF Abort
      <4> QED
        BY <2>2, <4>1 DEF CheckMerged, ReassignReviews
    <3> QED
      BY <1>1, <2>1, <3>1 DEF MergeLabels
  <2>3. CASE ReadSource(p) \/ TargetReviews(p) \/ CascadeReviews(p)
    BY <1>1, <2>1, <2>3 DEF ReadSource, TargetReviews, CascadeReviews
  <2>4. CASE DeleteBeers(p)
    BY <1>1, <2>1, <2>4 DEF DeleteBeers, Write
  <2>5. CASE FillSurvivor(p)
    <3>1. \/ wb' = wb
          \/ /\ req[p].src # None /\ SeenBeers(p)[b] # None
             /\ wb' = [wb EXCEPT ![p][b] = Filled(SeenBeers(p)[b], req[p].src)]
      BY <2>5 DEF FillSurvivor
    <3>2. req[p].src # None /\ SeenBeers(p)[b] # None => Filled(SeenBeers(p)[b], req[p].src) \in Beer
      BY <1>1, Typed, FilledType DEF Locals
    <3> QED
      BY <1>1, <2>1, <3>1, <3>2, Sentinels
  <2> QED
    BY <1>3, <2>2, <2>3, <2>4, <2>5 DEF MergeBeersTx
<1> QED
  BY <1>2, <1>3

LEMMA SurvivorStep ==
  ASSUME LoneAdmin, OneSpelling
  PROVE  IInv /\ IInv' /\ Apart' /\ (\A p \in Request : SurvivorStays(p)) /\ [Next]_vars =>
           (\A p \in Request : SurvivorStays(p))'
<1> SUFFICES ASSUME IInv, TypeOK', Apart', \A p \in Request : SurvivorStays(p), [Next]_vars,
                    NEW p \in Request, Merging(p)'
             PROVE  SurvivorStays(p)'
  BY DEF IInv, Inv, SurvivorStays
<1> DEFINE b == req[p].beer
<1>0. TypeOK /\ req \in [Request -> Locals] /\ req[p] \in Locals
  BY DEF IInv, Inv, TypeOK, RequestsTyped
<1>1. CASE UNCHANGED vars
  BY <1>1 DEF vars, SurvivorStays, Merging, At, Op, Ids
<1>2. ASSUME NEW q \in Request \ {p}, Moves(q) PROVE SurvivorStays(p)'
  <2>1. req'[p] = req[p] /\ wb'[p] = wb[p]
    BY <1>0, <1>2, OthersWait, OthersWrites
  <2>2. Merging(p) /\ SurvivorStays(p)
    BY <2>1 DEF Merging, At, Op
  <2>3. ~Merging(q)
    BY <1>2, <2>2 DEF SurvivorStays, LoneAdmin
  <2>4. \A i \in Id : beers[i] # None => beers'[i] # None
    BY <1>2, <2>3, BeerStays
  <2> QED
    BY <2>1, <2>2, <2>4 DEF SurvivorStays, Ids
<1>3. CASE Receive(p)
  <2>1. PICK c \in UserCalls \cup (IF p \in Admin THEN AdminCalls ELSE {}) :
          req'[p].pc = Entry(c) /\ req'[p].call = c /\ req'[p].beer = NamedBeer(c)
          /\ req'[p].ids = MergedBeers(c)
    BY <1>0, <1>3 DEF Receive, Idle
  <2>2. c.op \in {"Merge", "DedupeExact"} => p \in Admin /\ c \in AdminCalls
    BY <2>1, CatalogAssumption DEF CatalogAssumption, UserOps
  <2>3. c.op \in {"Merge", "DedupeExact"}
    BY <2>1 DEF Merging, Op
  <2>4. Entry(c) \notin MergeLabels \ {"exists"}
    BY <2>3 DEF Entry, MergeLabels
  <2>5. Entry(c) \in MergeLabels => req'[p].beer \notin Ids(p)'
    <3>1. SUFFICES ASSUME c.op = "Merge" PROVE req'[p].beer \notin Ids(p)'
      BY <2>3 DEF Entry, MergeLabels
    <3>2. req'[p].beer = c.keep.id /\ req'[p].ids = [n \in DOMAIN c.ids |-> c.ids[n].id]
      BY <2>1, <3>1 DEF NamedBeer, MergedBeers
    <3>3. \A n \in DOMAIN c.ids : c.ids[n].id # c.keep.id
      BY <2>2, <3>1 DEF OneSpelling
    <3> QED
      BY <3>2, <3>3 DEF Ids
  <2> QED
    BY <2>1, <2>2, <2>3, <2>4, <2>5 DEF SurvivorStays
<1>4. CASE QueryGroup(p)
  <2>1. At(p, "ids") /\ Merging(p) /\ p \in Admin
    <3>1. At(p, "ids")
      BY <1>4 DEF QueryGroup
    <3> QED
      BY <1>0, <3>1, OpAt DEF Merging, At, SurvivorStays
  <2>2. PICK k \in req[p].keys : \E ids \in Ranked(Group(beers, k)) :
          \/ SkipGroup(p, k)
          \/ /\ Len(ids) > 1
             /\ req' = [req EXCEPT ![p].keys = @ \ {k}, ![p].pc = "exists", ![p].filled = 0,
                                   ![p].beer = Head(ids), ![p].ids = Tail(ids)]
    BY <1>4 DEF QueryGroup
  <2>3. req'[p].pc \in {"group", "exists"}
    BY <1>0, <2>1, <2>2 DEF SkipGroup, Locals, At
  <2>4. Op(p)' = "DedupeExact"
    <3>1. req'[p].call = req[p].call
      BY <1>0, <2>2 DEF SkipGroup, Locals
    <3> QED
      BY <1>0, <2>1, <3>1, OpAt DEF Op
  <2> QED
    BY <2>1, <2>3, <2>4 DEF SurvivorStays, MergeLabels, Apart, At
<1>5. CASE Moves(p) /\ ~Receive(p) /\ ~QueryGroup(p)
  <2>1. /\ Merging(p) /\ p \in Admin /\ Ids(p)' = Ids(p)
        /\ req'[p].pc \in MergeLabels => req[p].pc \in MergeLabels /\ req'[p].beer = b
    <3>1. Merging(p)
      BY <1>0, <1>5, OwnLocals DEF Merging, At, Op
    <3> QED
      BY <1>0, <1>5, <3>1, OwnLocals DEF SurvivorStays, Ids
  <2>2. ASSUME req'[p].pc \in MergeLabels \ {"exists"}
        PROVE  b \in Id /\ beers'[b] # None /\ wb'[p][b] # None
    <3>1. req[p].pc \in MergeLabels /\ ~At(p, "commit") /\ MergeBeersTx(p)
      <4>1. req[p].pc \in MergeLabels /\ ~Commit(p)
        <5>1. AfterCommit(p) \notin MergeLabels
          BY DEF AfterCommit, MergeLabels
        <5> QED
          BY <1>0, <2>1, <2>2, <5>1 DEF Commit, Locals
      <4>2. ~DeadlockVictim(p) /\ ~Cancel(p)
        <5>1. \A code : ~Abort(p, code) /\ ~Reply(p, code)
          BY <1>0, <2>2 DEF Abort, Reply, MergeLabels, Locals
        <5> QED
          BY <5>1 DEF DeadlockVictim, Cancel, KeysFail, GroupFails, MergeFails
      <4>3. MergeBeersTx(p)
        BY <1>5, <4>1, <4>2 DEF Moves, Step, FindOrCreate, LookupBeer, InsertBeer, ReviewEdit,
           InsertReview, CheckOwner, UpdateReview, RemoveReview, PatchBeer, Dedupe, QueryKeys,
           BeginGroup, FinishDedupe, Finish, RereadReview, ReloadBeer, At, MergeLabels, QueryGroup
      <4> QED
        BY <4>1, <4>3 DEF MergeBeersTx, CheckKeep, CheckMerged, ReadSource, FillSurvivor,
           TargetReviews, ReassignReviews, DeleteBeers, CascadeReviews, At
    <3>2. b \in Id
      BY <3>1, InMerge DEF MergeLabels, At
    <3>3. wb'[p][b] # None /\ beers[b] # None
      BY <2>2, <3>1, SurvivorWrites
    <3>4. beers' = beers
      BY <3>1, OthersLeaveTables DEF db
    <3> QED
      BY <3>2, <3>3, <3>4
  <2> QED
    BY <2>1, <2>2 DEF SurvivorStays
<1>6. CASE Next
  <2>1. PICK q \in Request : Moves(q)
    BY <1>6 DEF Next, Moves
  <2> QED
    BY <1>2, <1>3, <1>4, <1>5, <2>1
<1> QED
  BY <1>1, <1>6

\* With a single admin request, every merge that commits leaves its survivor
\* (beer_admin.go:121, 263-314); a run shows how two opposite merges take both beers.
THEOREM SurvivorsStay ==
  ASSUME LoneAdmin, OneSpelling
  PROVE  Spec => MergeLeavesSurvivor
<1> DEFINE Stay == \A p \in Request : SurvivorStays(p)
<1>1. Init => Stay
  BY DEF Init, Idle, SurvivorStays, Merging, At
<1>2. IInv /\ IInv' /\ Apart' /\ Stay /\ [Next]_vars => Stay'
  BY SurvivorStep
<1>3. IInv /\ IInv' /\ Stay /\ [Next]_vars =>
        [\A p \in Request : At(p, "commit") /\ Merging(p) /\ req'[p].pc # "done" =>
           beers'[req[p].beer] # None]_vars
  <2> SUFFICES ASSUME IInv, TypeOK', Stay, Next, NEW p \in Request,
                      At(p, "commit"), Merging(p), req'[p].pc # "done"
               PROVE  beers'[req[p].beer] # None
    BY DEF IInv, Inv
  <2>1. p \in Admin /\ req[p].beer \in Id /\ beers[req[p].beer] # None /\ wb[p][req[p].beer] # None
    BY DEF SurvivorStays, MergeLabels, At
  <2>2. PICK q \in Request : Moves(q)
    BY DEF Next, Moves
  <2>3. CASE Commit(q) /\ Merging(q)
    <3>1. q = p
      BY <2>1, <2>3 DEF SurvivorStays, LoneAdmin
    <3> QED
      BY <2>1, <2>3, <3>1, CommittedRows
  <2>4. CASE ~Commit(q) \/ ~Merging(q)
    BY <2>1, <2>2, <2>4, BeerStays
  <2> QED
    BY <2>3, <2>4
<1> HIDE DEF Stay
<1> QED
  BY <1>1, <1>2, <1>3, AlwaysIInv, AlwaysApart, PTL DEF Spec, MergeLeavesSurvivor
=============================================================================
