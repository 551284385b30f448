------------------------------ MODULE Catalog ------------------------------
(***************************************************************************)
(* The shared beer catalog and the users' pours (reviews), as the HTTP      *)
(* handlers of internal/handler change them.  There is no service layer:    *)
(* each request is a goroutine that runs SQL statements of its own on       *)
(* PostgreSQL, and everything that can go wrong lies between two statements *)
(* of two requests.  An element of Request is one HTTP request; it arrives  *)
(* at most once and is stepped through its handler statement by statement.  *)
(*                                                                         *)
(* Data kept: a beer's normalised name and brewery (names are taken after   *)
(* TrimSpace and lower()), one more catalog column (style, which stands for *)
(* style, abv and image_storage_key: all are filled and patched alike); a   *)
(* pour's owner, its beer and whether its rating is above 0.                *)
(***************************************************************************)
EXTENDS ReadCommitted, Integers, Sequences, FiniteSets

CONSTANTS
  Request,      \* the HTTP requests; at most one arrival each
  Admin,        \* those that carry an admin's token (RequireAdmin lets them by)
  User,         \* the owners of pours
  Name,         \* beer names, up to case and surrounding space
  Brewery,      \* non-empty brewery names, up to case and surrounding space
  Style,        \* non-empty values of the other catalog columns
  Blank,        \* the empty column: '' or NULL
  Spelling,     \* the texts one UUID may be written as (upper or lower case)
  UserCalls,    \* the calls users may make in this instance
  AdminCalls,   \* the calls admins may make besides
  MaxId,        \* bound: at most MaxId rows are ever numbered
  ConnectionsBreak, \* whether a connection may break while DedupeExact reads ids from it
  Seeds         \* the databases the server may be started on

Id == 1..MaxId

Beer == [name: Name, brewery: Brewery \cup {Blank}, style: Style \cup {Blank}]
Review == [user: User, beer: Id, rated: BOOLEAN]

\* The bodies that get past the handlers' validation, before the first statement.
\* Merge: ids is what uniqueIDs leaves of merge_ids; Go compares texts, SQL compares ids.
Text == [id: Id, spelling: Spelling]
BeerCreateCall == [op: {"BeerCreate"}, beer: Beer]
ReviewCreateCall == [op: {"ReviewCreate"}, user: User, rated: BOOLEAN,
                     beerId: Id \cup {None}, beer: Beer]
ReviewUpdateCall == [op: {"ReviewUpdate"}, user: User, rated: BOOLEAN, review: Id]
ReviewDeleteCall == [op: {"ReviewDelete"}, user: User, review: Id]
BeerUpdateCall == [op: {"BeerUpdate"}, beerId: Id, name: Name \cup {None},
                   brewery: Brewery \cup {Blank, None},
                   style: Style \cup {Blank, None}]
MergeCall == [op: {"Merge"}, keep: Text, ids: Seq(Text)]
DedupeCall == [op: {"DedupeExact"}]

Call == BeerCreateCall \cup ReviewCreateCall \cup ReviewUpdateCall \cup ReviewDeleteCall
          \cup BeerUpdateCall \cup MergeCall \cup DedupeCall

\* The operations outside /api/admin.
UserOps == {"BeerCreate", "ReviewCreate", "ReviewUpdate", "ReviewDelete"}

\* merge_ids must not include keep_id, and uniqueIDs drops what is listed twice.
PassesIdCheck(c) ==
  /\ \A n \in DOMAIN c.ids : c.ids[n] # c.keep
  /\ \A m, n \in DOMAIN c.ids : c.ids[m] = c.ids[n] => m = n

Keys == Name \X (Brewery \cup {Blank})
Key(beer) == <<beer.name, beer.brewery>>

\* A database the server can be started on: every pour has its beer.
LegalSeed(seed) ==
  /\ seed.beers \in [Id -> Beer \cup {None}]
  /\ seed.reviews \in [Id -> Review \cup {None}]
  /\ seed.top \in 0..MaxId
  /\ \A i \in Id : i > seed.top => seed.beers[i] = None /\ seed.reviews[i] = None
  /\ \A r \in Id : seed.reviews[r] # None => seed.beers[seed.reviews[r].beer] # None

ASSUME CatalogAssumption ==
  /\ MaxId \in Nat
  /\ ConnectionsBreak \in BOOLEAN
  /\ Admin \subseteq Request
  /\ UserCalls \cup AdminCalls \subseteq Call
  /\ \A c \in UserCalls : c.op \in UserOps
  /\ \A c \in AdminCalls : c.op = "Merge" => PassesIdCheck(c)
  /\ \A seed \in Seeds : LegalSeed(seed)
  /\ None \notin Beer \cup Review \cup Id \cup Name \cup Brewery \cup Style \cup {Blank, Same}
  /\ Same \notin Beer \cup Review
-----------------------------------------------------------------------------
VARIABLES
  beers,     \* table beers, committed rows
  reviews,   \* table reviews, committed rows
  clock,     \* ids handed out so far; created_at grows with the id
  req,       \* per request: the label of its next statement and its locals
  wb,        \* per request: uncommitted writes to beers
  wr         \* per request: uncommitted writes to reviews

db == <<beers, reviews>>
vars == <<beers, reviews, clock, req, wb, wr>>

NoWrites == [i \in Id |-> Same]

Idle == [pc |-> "idle", call |-> None, status |-> 0,
         open |-> FALSE,    \* it has begun a transaction that has not ended
         id |-> 0,          \* the id of the rows this request inserts
         beer |-> 0,        \* the beer it found, made, edits or keeps
         ids |-> <<>>,      \* mergeIDs
         filled |-> 0,      \* how many of them have been filled from
         src |-> None,      \* snapshot of the row being filled from
         targets |-> {},    \* pours to reassign: the snapshot, then those that were moved
         keys |-> {},       \* DedupeExact: groups still to do
         hit |-> FALSE]     \* ReviewUpdate: the UPDATE found its row

Init ==
  /\ \E seed \in Seeds :
        beers = seed.beers /\ reviews = seed.reviews /\ clock = seed.top
  /\ req = [p \in Request |-> Idle]
  /\ wb = [p \in Request |-> NoWrites]
  /\ wr = [p \in Request |-> NoWrites]

SeenBeers(p) == View(beers, wb[p])
SeenReviews(p) == View(reviews, wr[p])

At(p, label) == req[p].pc = label
Op(p) == req[p].call.op
Ids(p) == {req[p].ids[n] : n \in DOMAIN req[p].ids}
Merging(p) == ~At(p, "idle") /\ Op(p) \in {"Merge", "DedupeExact"}

-----------------------------------------------------------------------------
(* Row locks.  They are held by the transactions whose writes are pending,  *)
(* and the next statement of a request waits while a row it must lock, or   *)
(* must find for a foreign key, is held by another.                         *)

\* Mutant of SharesBeer: reviews.beer_id without its REFERENCES clause.
SharesNothing(q, i) == FALSE

\* q's pending pours refer to beer i: their foreign-key check holds a key-share lock on it.
SharesBeer(q, i) ==
  \E r \in Id : /\ IsRow(wr[q][r]) /\ wr[q][r].beer = i
                /\ reviews[r] = None \/ reviews[r].beer # i

\* The pours that ON DELETE CASCADE takes along with the beers p has deleted.
Cascaded(p) ==
  {r \in Id : SeenReviews(p)[r] # None /\ wb[p][SeenReviews(p)[r].beer] = None}

\* Requests whose locks p's next statement has to wait for.
Conflicts(p) ==
  {q \in Request \ {p} :
     \/ /\ At(p, "insertReview")
        /\ wb[q][req[p].beer] = None
     \/ /\ At(p, "update") \/ At(p, "remove")
        /\ reviews[req[p].call.review] # None
        /\ wr[q][req[p].call.review] # Same
     \/ /\ At(p, "patch")
        /\ beers[req[p].beer] # None
        /\ wb[q][req[p].beer] # Same
     \/ /\ At(p, "filling")
        /\ req[p].src # None
        /\ SeenBeers(p)[req[p].beer] # None
        /\ wb[q][req[p].beer] # Same
     \/ /\ At(p, "reassign")
        /\ \/ \E r \in req[p].targets : wr[q][r] # Same
           \/ req[p].targets # {} /\ wb[q][req[p].beer] = None
     \/ /\ At(p, "delete")
        /\ \E i \in Ids(p) : /\ SeenBeers(p)[i] # None
                             /\ wb[q][i] # Same \/ SharesBeer(q, i)
     \/ /\ At(p, "cascade")
        /\ \E r \in Cascaded(p) : wr[q][r] # Same}

Free(p) == Conflicts(p) = {}

-----------------------------------------------------------------------------
(* Ends of a request. *)

Goto(p, label) == req' = [req EXCEPT ![p].pc = label]

Reply(p, code) ==
  /\ req' = [req EXCEPT ![p].pc = "done", ![p].status = code]
  /\ UNCHANGED <<db, clock, wb, wr>>

\* Mutant of Abort: a return that forgets the Rollback.
AbortLeavingTx(p, code) == Reply(p, code)

\* An error reply and a Rollback, deferred or explicit, which drops what was written.
Abort(p, code) ==
  /\ req' = [req EXCEPT ![p].pc = "done", ![p].status = code, ![p].open = FALSE]
  /\ wb' = [wb EXCEPT ![p] = NoWrites]
  /\ wr' = [wr EXCEPT ![p] = NoWrites]
  /\ UNCHANGED <<db, clock>>

-----------------------------------------------------------------------------
(* Arrival: the call is decoded and validated, and the transaction begun.   *)
(* now(), hence created_at, is the time the transaction begins.             *)

Creates(c) == c.op \in {"BeerCreate", "ReviewCreate"}

\* The handlers that Begin first and defer the Rollback.
Begins(c) == Creates(c) \/ c.op \in {"ReviewUpdate", "Merge"}

Entry(c) ==
  CASE c.op = "BeerCreate" -> "lookup"
    [] c.op = "ReviewCreate" -> IF c.beerId = None THEN "lookup" ELSE "insertReview"
    [] c.op = "ReviewUpdate" -> "own"
    [] c.op = "ReviewDelete" -> "remove"
    [] c.op = "BeerUpdate" -> "patch"
    [] c.op = "Merge" -> "exists"
    [] c.op = "DedupeExact" -> "keys"

\* The beer the request names in its body or path, 0 when it names none.
NamedBeer(c) ==
  CASE c.op = "ReviewCreate" /\ c.beerId # None -> c.beerId
    [] c.op = "BeerUpdate" -> c.beerId
    [] c.op = "Merge" -> c.keep.id
    [] OTHER -> 0

MergedBeers(c) ==
  IF c.op = "Merge" THEN [n \in DOMAIN c.ids |-> c.ids[n].id] ELSE <<>>

Receive(p) ==
  /\ At(p, "idle")
  /\ \E c \in UserCalls \cup (IF p \in Admin THEN AdminCalls ELSE {}) :
       /\ Creates(c) => clock < MaxId
       /\ clock' = IF Creates(c) THEN clock + 1 ELSE clock
       /\ req' = [req EXCEPT ![p] =
                    [Idle EXCEPT !.pc = Entry(c), !.call = c, !.open = Begins(c),
                                 !.beer = NamedBeer(c),
                                 !.id = IF Creates(c) THEN clock' ELSE 0,
                                 !.ids = MergedBeers(c)]]
  /\ UNCHANGED <<db, wb, wr>>

-----------------------------------------------------------------------------
(* findOrCreateBeer, then the INSERT of the pour for a review create. *)

AfterBeer(p) == IF Op(p) = "BeerCreate" THEN "commit" ELSE "insertReview"

LookupBeer(p) ==
  /\ At(p, "lookup")
  /\ LET found == {i \in Id : /\ SeenBeers(p)[i] # None
                              /\ Key(SeenBeers(p)[i]) = Key(req[p].call.beer)}
     IN  \/ \E i \in found :
              req' = [req EXCEPT ![p].pc = AfterBeer(p), ![p].beer = i]
         \/ found = {} /\ Goto(p, "insertBeer")
  /\ UNCHANGED <<db, clock, wb, wr>>

InsertBeer(p) ==
  /\ At(p, "insertBeer")
  /\ wb' = [wb EXCEPT ![p][req[p].id] = req[p].call.beer]
  /\ req' = [req EXCEPT ![p].pc = AfterBeer(p), ![p].beer = req[p].id]
  /\ UNCHANGED <<db, clock, wr>>

\* INSERT INTO reviews; beer_id must name a beer.
InsertReview(p) ==
  /\ At(p, "insertReview")
  /\ Free(p)
  /\ \/ /\ SeenBeers(p)[req[p].beer] # None
        /\ wr' = [wr EXCEPT ![p][req[p].id] =
                    [user |-> req[p].call.user, beer |-> req[p].beer,
                     rated |-> req[p].call.rated]]
        /\ Goto(p, "commit")
        /\ UNCHANGED <<db, clock, wb>>
     \/ /\ SeenBeers(p)[req[p].beer] = None
        /\ Abort(p, 500)

-----------------------------------------------------------------------------
(* ReviewHandler.Update and Delete. *)

OwnedBy(row, user) == row # None /\ row.user = user

CheckOwner(p) ==
  /\ At(p, "own")
  /\ IF OwnedBy(SeenReviews(p)[req[p].call.review], req[p].call.user)
     THEN Goto(p, "update") /\ UNCHANGED <<db, clock, wb, wr>>
     ELSE Abort(p, 404)

\* The UPDATEs of the named columns.  The first one locks the row, or finds it gone,
\* and the others follow suit, so they are one step; RowsAffected is not looked at.
UpdateReview(p) ==
  LET r == req[p].call.review
      row == SeenReviews(p)[r]
  IN  /\ At(p, "update")
      /\ Free(p)
      /\ wr' = IF row = None THEN wr
               ELSE [wr EXCEPT ![p][r] = [row EXCEPT !.rated = req[p].call.rated]]
      /\ req' = [req EXCEPT ![p].pc = "commit", ![p].hit = (row # None)]
      /\ UNCHANGED <<db, clock, wb>>

\* DELETE ... WHERE id AND user_id, a transaction of its own; 404 when its answer is lost.
RemoveReview(p) ==
  LET r == req[p].call.review
  IN  /\ At(p, "remove")
      /\ Free(p)
      /\ IF OwnedBy(reviews[r], req[p].call.user)
         THEN /\ reviews' = [reviews EXCEPT ![r] = None]
              /\ \E code \in {204, 404} :
                   req' = [req EXCEPT ![p].pc = "done", ![p].status = code]
              /\ UNCHANGED <<beers, clock, wb, wr>>
         ELSE Reply(p, 404)

-----------------------------------------------------------------------------
(* BeerHandler.Update: COALESCE leaves the columns the body does not name.  *)

Patched(row, c) ==
  [name |-> IF c.name = None THEN row.name ELSE c.name,
   brewery |-> IF c.brewery = None THEN row.brewery ELSE c.brewery,
   style |-> IF c.style = None THEN row.style ELSE c.style]

PatchBeer(p) ==
  LET b == req[p].beer
  IN  /\ At(p, "patch")
      /\ Free(p)
      /\ IF beers[b] # None
         THEN /\ beers' = [beers EXCEPT ![b] = Patched(@, req[p].call)]
              /\ Goto(p, "reload")
              /\ UNCHANGED <<reviews, clock, wb, wr>>
         ELSE Reply(p, 404)

-----------------------------------------------------------------------------
(* DedupeExact: one query for the duplicated keys, then a transaction per key. *)

Group(rows, k) == {i \in Id : rows[i] # None /\ Key(rows[i]) = k}

DuplicateKeys(rows) ==
  {Key(rows[i]) : i \in {j \in Id : /\ rows[j] # None
                                    /\ Cardinality(Group(rows, Key(rows[j]))) > 1}}

Rated(i) ==
  Cardinality({r \in Id : reviews[r] # None /\ reviews[r].beer = i /\ reviews[r].rated})

\* ORDER BY count(r.id) DESC, b.created_at ASC
Ranked(s) ==
  {f \in [1..Cardinality(s) -> s] :
     \A m, n \in DOMAIN f : m < n =>
       \/ Rated(f[m]) > Rated(f[n])
       \/ Rated(f[m]) = Rated(f[n]) /\ f[m] < f[n]}

QueryKeys(p) ==
  /\ At(p, "keys")
  /\ req' = [req EXCEPT ![p].pc = "group", ![p].keys = DuplicateKeys(beers)]
  /\ UNCHANGED <<db, clock, wb, wr>>

BeginGroup(p) ==
  /\ At(p, "group")
  /\ req[p].keys # {}
  /\ req' = [req EXCEPT ![p].pc = "ids", ![p].open = TRUE]
  /\ UNCHANGED <<db, clock, wb, wr>>

\* Mutant of SkipGroup: a continue without its Rollback.
SkipLeavingTx(p, k) == req' = [req EXCEPT ![p].pc = "group", ![p].keys = @ \ {k}]

\* Rollback, and on to the next key.
SkipGroup(p, k) ==
  req' = [req EXCEPT ![p].pc = "group", ![p].keys = @ \ {k}, ![p].open = FALSE]

\* A group that has shrunk is passed over.  So is one whose rows end early with the
\* connection: idRows.Err() is not looked at (merging what was read then fails, as Cancel).
QueryGroup(p) ==
  /\ At(p, "ids")
  /\ \E k \in req[p].keys : \E ids \in Ranked(Group(beers, k)) :
       \/ /\ Len(ids) < 2 \/ ConnectionsBreak
          /\ SkipGroup(p, k)
       \/ /\ Len(ids) > 1
          /\ req' = [req EXCEPT ![p].keys = @ \ {k}, ![p].pc = "exists", ![p].filled = 0,
                                ![p].beer = Head(ids), ![p].ids = Tail(ids)]
  /\ UNCHANGED <<db, clock, wb, wr>>

\* Mutant of FinishDedupe: the reply is sent from inside the loop.
FinishAfterSome(p) == At(p, "group") /\ Reply(p, 200)

FinishDedupe(p) ==
  /\ At(p, "group")
  /\ req[p].keys = {}
  /\ Reply(p, 200)

-----------------------------------------------------------------------------
(* mergeBeersTx *)

\* pgx.ErrNoRows is a 404 for Merge and "merge failed" for DedupeExact.
MissingCode(p) == IF Op(p) = "Merge" THEN 404 ELSE 500

\* Mutant of CheckKeep: keep_id is not looked up.
CheckKeepDropped(p) ==
  At(p, "exists") /\ Goto(p, "count") /\ UNCHANGED <<db, clock, wb, wr>>

CheckKeep(p) ==
  /\ At(p, "exists")
  /\ IF SeenBeers(p)[req[p].beer] # None
     THEN Goto(p, "count") /\ UNCHANGED <<db, clock, wb, wr>>
     ELSE Abort(p, MissingCode(p))

CheckMerged(p) ==
  /\ At(p, "count")
  /\ IF Cardinality({i \in Ids(p) : SeenBeers(p)[i] # None}) = Len(req[p].ids)
     THEN Goto(p, "fill") /\ UNCHANGED <<db, clock, wb, wr>>
     ELSE Abort(p, MissingCode(p))

\* UPDATE beers AS keep ... FROM beers AS src: the statement reads src when it starts,
\* and the survivor's latest version once it holds the survivor's lock.
ReadSource(p) ==
  /\ At(p, "fill")
  /\ req[p].filled < Len(req[p].ids)
  /\ req' = [req EXCEPT ![p].pc = "filling",
                        ![p].src = SeenBeers(p)[req[p].ids[req[p].filled + 1]]]
  /\ UNCHANGED <<db, clock, wb, wr>>

\* Mutant of Filled: the source's style wins even when the survivor has one.
FilledOver(keep, src) ==
  [keep EXCEPT !.brewery = IF @ = Blank THEN src.brewery ELSE @, !.style = src.style]

Filled(keep, src) ==
  [keep EXCEPT !.brewery = IF @ = Blank THEN src.brewery ELSE @,
               !.style = IF @ = Blank THEN src.style ELSE @]

FillSurvivor(p) ==
  LET b == req[p].beer
      row == SeenBeers(p)[b]
  IN  /\ At(p, "filling")
      /\ Free(p)
      /\ wb' = IF req[p].src = None \/ row = None THEN wb
               ELSE [wb EXCEPT ![p][b] = Filled(row, req[p].src)]
      /\ req' = [req EXCEPT ![p].pc = "fill", ![p].filled = @ + 1, ![p].src = None]
      /\ UNCHANGED <<db, clock, wr>>

\* UPDATE reviews SET beer_id: the snapshot, then the rows that still match when locked.
TargetReviews(p) ==
  /\ At(p, "fill")
  /\ req[p].filled = Len(req[p].ids)
  /\ req' = [req EXCEPT ![p].pc = "reassign",
       ![p].targets = {r \in Id : /\ SeenReviews(p)[r] # None
                                  /\ SeenReviews(p)[r].beer \in Ids(p)}]
  /\ UNCHANGED <<db, clock, wb, wr>>

\* Mutant of Moved: no WHERE clause.
MovedAll(p) == {r \in Id : SeenReviews(p)[r] # None}

Moved(p) ==
  {r \in req[p].targets : SeenReviews(p)[r] # None /\ SeenReviews(p)[r].beer \in Ids(p)}

\* Mutant of ReassignReviews: the rating filter of the aggregates, so log-only pours stay.
ReassignRated(p) ==
  LET New(r) == [SeenReviews(p)[r] EXCEPT !.beer = req[p].beer]
  IN  /\ At(p, "reassign")
      /\ Free(p)
      /\ wr' = [wr EXCEPT ![p] =
                  Write(@, {r \in Moved(p) : SeenReviews(p)[r].rated}, New)]
      /\ req' = [req EXCEPT ![p].pc = "delete", ![p].targets = Moved(p)]
      /\ UNCHANGED <<db, clock, wb>>

ReassignReviews(p) ==
  LET New(r) == [SeenReviews(p)[r] EXCEPT !.beer = req[p].beer]
  IN  /\ At(p, "reassign")
      /\ Free(p)
      /\ IF Moved(p) = {} \/ SeenBeers(p)[req[p].beer] # None
         THEN /\ wr' = [wr EXCEPT ![p] = Write(@, Moved(p), New)]
              /\ req' = [req EXCEPT ![p].pc = "delete", ![p].targets = Moved(p)]
              /\ UNCHANGED <<db, clock, wb>>
         ELSE Abort(p, 500)

DeleteBeers(p) ==
  LET New(i) == None
  IN  /\ At(p, "delete")
      /\ Free(p)
      /\ wb' = [wb EXCEPT ![p] =
                  Write(@, {i \in Ids(p) : SeenBeers(p)[i] # None}, New)]
      /\ Goto(p, "cascade")
      /\ UNCHANGED <<db, clock, wr>>

\* reviews.beer_id ... ON DELETE CASCADE
CascadeReviews(p) ==
  LET New(r) == None
  IN  /\ At(p, "cascade")
      /\ Free(p)
      /\ wr' = [wr EXCEPT ![p] = Write(@, Cascaded(p), New)]
      /\ Goto(p, "commit")
      /\ UNCHANGED <<db, clock, wb>>

-----------------------------------------------------------------------------
(* Commit, and the reload that builds the reply. *)

\* Mutant of AfterCommit: DedupeExact answers after its first group.
AfterCommitOnce(p) == IF Op(p) = "ReviewUpdate" THEN "reread" ELSE "reload"

AfterCommit(p) ==
  CASE Op(p) = "ReviewUpdate" -> "reread"
    [] Op(p) = "DedupeExact" -> "group"
    [] OTHER -> "reload"

\* Mutant of Commit: never called, so that the deferred Rollback undoes the work.
CommitForgotten(p) ==
  /\ At(p, "commit")
  /\ wb' = [wb EXCEPT ![p] = NoWrites]
  /\ wr' = [wr EXCEPT ![p] = NoWrites]
  /\ req' = [req EXCEPT ![p].pc = AfterCommit(p), ![p].open = FALSE]
  /\ UNCHANGED <<db, clock>>

Commit(p) ==
  /\ At(p, "commit")
  /\ beers' = SeenBeers(p)
  /\ reviews' = SeenReviews(p)
  /\ wb' = [wb EXCEPT ![p] = NoWrites]
  /\ wr' = [wr EXCEPT ![p] = NoWrites]
  /\ req' = [req EXCEPT ![p].pc = AfterCommit(p), ![p].open = FALSE]
  /\ UNCHANGED clock

\* Mutant of RereadReview: its error is not looked at.
RereadUnchecked(p) == At(p, "reread") /\ Reply(p, 200)

\* ReviewHandler.Update reads the row back before it loads the beer.
RereadReview(p) ==
  LET row == reviews[req[p].call.review]
  IN  /\ At(p, "reread")
      /\ IF row # None
         THEN /\ req' = [req EXCEPT ![p].pc = "reload", ![p].beer = row.beer]
              /\ UNCHANGED <<db, clock, wb, wr>>
         ELSE Reply(p, 500)

\* loadBeerWithAggregates or loadBeerByID
ReloadBeer(p) ==
  /\ At(p, "reload")
  /\ Reply(p, CASE beers[req[p].beer] = None -> 500
                [] Creates(req[p].call) -> 201
                [] OTHER -> 200)

\* The review handlers' ownership check and Delete take any error for a missing row.
FailureCode(p) == IF At(p, "own") \/ At(p, "remove") THEN 404 ELSE 500

\* DedupeExact defers nothing.  The query of the keys, or a Begin, fails: nothing is open.
KeysFail(p) == (At(p, "keys") \/ At(p, "group")) /\ Reply(p, 500)

\* The query of a group's ids, or a Scan of one: Rollback.
GroupFails(p) == At(p, "ids") /\ Abort(p, 500)

\* mergeBeersTx fails: Rollback; or the COMMIT, which ends the transaction either way.
MergeFails(p) == ~At(p, "keys") /\ ~At(p, "group") /\ ~At(p, "ids") /\ Abort(p, 500)

\* The request's context ends (the client hangs up, the connection breaks, the server
\* is killed): the statement fails and the reply is an error; the other handlers' deferred
\* Rollback ends what is open.  After a commit this is also a COMMIT whose answer was lost.
Cancel(p) ==
  /\ ~At(p, "idle") /\ ~At(p, "done")
  /\ \/ Op(p) = "DedupeExact" /\ (KeysFail(p) \/ GroupFails(p) \/ MergeFails(p))
     \/ Op(p) # "DedupeExact" /\ Abort(p, FailureCode(p))

\* p waits, directly or through others, for itself: PostgreSQL picks it as the victim.
DeadlockVictim(p) ==
  /\ Conflicts(p) # {}
  /\ \A s \in SUBSET Request :
       Conflicts(p) \subseteq s /\ (\A q \in s : Conflicts(q) \subseteq s) => p \in s
  /\ Abort(p, FailureCode(p))

-----------------------------------------------------------------------------
FindOrCreate(p) == LookupBeer(p) \/ InsertBeer(p)
MergeBeersTx(p) ==
  \/ CheckKeep(p) \/ CheckMerged(p) \/ ReadSource(p) \/ FillSurvivor(p)
  \/ TargetReviews(p) \/ ReassignReviews(p) \/ DeleteBeers(p) \/ CascadeReviews(p)
Dedupe(p) == QueryKeys(p) \/ BeginGroup(p) \/ QueryGroup(p) \/ FinishDedupe(p)
ReviewEdit(p) == InsertReview(p) \/ CheckOwner(p) \/ UpdateReview(p) \/ RemoveReview(p)
Finish(p) == Commit(p) \/ RereadReview(p) \/ ReloadBeer(p)

\* A statement of p's handler.
Step(p) ==
  FindOrCreate(p) \/ ReviewEdit(p) \/ PatchBeer(p) \/ Dedupe(p) \/ MergeBeersTx(p) \/ Finish(p)

Next == \E p \in Request : Receive(p) \/ Step(p) \/ DeadlockVictim(p) \/ Cancel(p)

Spec == Init /\ [][Next]_vars

\* A goroutine that can run its next statement runs it, and PostgreSQL breaks
\* deadlocks (deadlock_timeout); no client is obliged to call or to hang up.
FairSpec ==
  Spec /\ \A p \in Request : WF_vars(Step(p)) /\ WF_vars(DeadlockVictim(p))
-----------------------------------------------------------------------------
(* What a request's record may hold, and which labels its operation visits. *)

Labels(op) ==
  CASE op = "BeerCreate" -> {"lookup", "insertBeer", "commit", "reload"}
    [] op = "ReviewCreate" -> {"lookup", "insertBeer", "insertReview", "commit", "reload"}
    [] op = "ReviewUpdate" -> {"own", "update", "commit", "reread", "reload"}
    [] op = "ReviewDelete" -> {"remove"}
    [] op = "BeerUpdate" -> {"patch", "reload"}
    [] op = "Merge" -> {"exists", "count", "fill", "filling", "reassign", "delete",
                        "cascade", "commit", "reload"}
    [] op = "DedupeExact" -> {"keys", "group", "ids", "exists", "count", "fill", "filling",
                              "reassign", "delete", "cascade", "commit"}

Label == {"idle", "lookup", "insertBeer", "insertReview", "own", "update", "remove", "patch",
          "keys", "group", "ids", "exists", "count", "fill", "filling", "reassign", "delete",
          "cascade", "commit", "reread", "reload", "done"}

Locals ==
  [pc: Label, call: Call \cup {None}, status: Nat, open: BOOLEAN, id: Id \cup {0},
   beer: Id \cup {0}, ids: Seq(Id), filled: Nat, src: Beer \cup {None}, targets: SUBSET Id,
   keys: SUBSET Keys, hit: BOOLEAN]

\* A request that arrived is at a label of its operation's handler; statements that name
\* a beer, or insert rows, have an id for it.
Proper(l) ==
  /\ l.call \in Call
  /\ l.pc \in Labels(l.call.op) \cup {"done"}
  /\ l.pc \in {"insertReview", "patch", "exists", "count", "fill", "filling", "reassign",
               "delete", "cascade"} => l.beer \in Id
  /\ Creates(l.call) => l.id \in Id

RequestsTyped ==
  /\ req \in [Request -> Locals]
  /\ \A p \in Request : req[p].pc = "idle" \/ Proper(req[p])

\* Rows, locals and pending writes have their types.
TypeOK ==
  /\ beers \in [Id -> Beer \cup {None}]
  /\ reviews \in [Id -> Review \cup {None}]
  /\ clock \in 0..MaxId
  /\ wb \in [Request -> [Id -> Beer \cup {None, Same}]]
  /\ wr \in [Request -> [Id -> Review \cup {None, Same}]]
  /\ RequestsTyped

-----------------------------------------------------------------------------
(* Safety *)

\* reviews.beer_id REFERENCES beers(id): no interleaving of statements, waits, aborts and
\* cascades commits a pour whose beer is gone (beer_admin.go deletes beers on its own).
ReviewsHaveBeers ==
  \A r \in Id : reviews[r] # None => beers[reviews[r].beer] # None

\* Every way out of a handler, and of a turn of DedupeExact's loop, ends the transaction it
\* has begun, written to or not, before another is begun, the pool is asked for the re-read,
\* or the request is answered.  DedupeExact has no deferred Rollback, so each of its early
\* returns and its "continue" has to end its own (beer_admin.go:207-258).
NothingLeftOpen ==
  \A p \in Request :
    req[p].pc \in {"idle", "remove", "patch", "keys", "group", "reread", "reload", "done"} =>
      ~req[p].open /\ wb[p] = NoWrites /\ wr[p] = NoWrites

\* A pour disappears only by its owner's DELETE, or with a merged beer: when it was not on one
\* as the merge's UPDATE took its locks, or when the merge names its survivor among the merged
\* in another spelling (beer_admin.go:128-139, 301-310).
OnlyLatePoursAreLost ==
  [][\A r \in Id : reviews[r] # None /\ reviews'[r] = None =>
       \E p \in Request :
         \/ /\ At(p, "remove")
            /\ req[p].call.review = r /\ req[p].call.user = reviews[r].user
         \/ /\ At(p, "commit") /\ Merging(p)
            /\ reviews[r].beer \in Ids(p)
            /\ r \in req[p].targets => Op(p) = "Merge" /\ req[p].beer \in Ids(p)]_vars

\* A merge that commits leaves its survivor (beer_admin.go:121).
MergeLeavesSurvivor ==
  [][\A p \in Request :
       At(p, "commit") /\ Merging(p) /\ req'[p].pc # "done" =>
         beers'[req[p].beer] # None]_vars

\* A merge that was answered with 200 holds: the merged beers are gone and stay gone,
\* with every pour of theirs (beer_admin.go:168-172).
MergeOKMeansMerged ==
  \A p \in Request :
    At(p, "done") /\ Op(p) = "Merge" /\ req[p].status = 200 =>
      \A i \in Ids(p) : beers[i] = None

\* ReviewHandler.Update ignores RowsAffected; still a 200 means that the UPDATE hit the
\* row, also when the pour was deleted after the ownership check (review.go:232-315).
UpdateOKMeansApplied ==
  \A p \in Request :
    At(p, "done") /\ Op(p) = "ReviewUpdate" /\ req[p].status = 200 => req[p].hit

\* dedupe-exact auto-merges all exact groups: after its 200 no two rows share name and
\* brewery, as long as nobody creates or patches beers, or merges by hand, which may fill in
\* a brewery (docs/ARCHITECTURE.md:105).
DedupeLeavesNoDuplicates ==
  /\ \E p \in Request : At(p, "done") /\ Op(p) = "DedupeExact" /\ req[p].status = 200
  /\ \A p \in Request : At(p, "idle") \/ Entry(req[p].call) \notin {"lookup", "patch", "exists"}
  => DuplicateKeys(beers) = {}

\* Exact-match creation reuse: identical info reuses a row (README.md:69).
NoNewDuplicates == [][DuplicateKeys(beers') \subseteq DuplicateKeys(beers)]_vars

\* Merging reassigns the pours to keep_id (docs/ARCHITECTURE.md:104): a pour is removed by
\* nobody but its owner.
OnlyOwnersRemovePours ==
  [][\A r \in Id : reviews[r] # None /\ reviews'[r] = None =>
       \E p \in Request : /\ At(p, "remove")
                          /\ req[p].call.review = r
                          /\ req[p].call.user = reviews[r].user]_vars

-----------------------------------------------------------------------------
(* Why the foreign key holds: what row locks, fresh ids and statement order guarantee.  *)

Creating(p) == ~At(p, "idle") /\ Creates(req[p].call)

\* Writes are pending only between a transaction's first write and its end.
PendingWhere(p) ==
  /\ req[p].pc \notin {"insertReview", "fill", "filling", "reassign", "delete", "cascade",
                      "commit"} => wb[p] = NoWrites
  /\ req[p].pc \notin {"delete", "cascade", "commit"} => wr[p] = NoWrites

\* Creates write rows of their own id only, everybody else rows that are there; only merges
\* delete in a transaction.
WritesToRows(p) ==
  \A i \in Id :
    /\ Creating(p) => /\ wb[p][i] # Same => i = req[p].id
                      /\ wr[p][i] # Same => i = req[p].id
    /\ ~Creating(p) => /\ wb[p][i] # Same => beers[i] # None
                       /\ wr[p][i] # Same => reviews[i] # None
    /\ ~Merging(p) => wb[p][i] # None /\ wr[p][i] # None

\* The beer of a pour that is being inserted or moved is there, and nobody else deletes it.
SharedBeersStay(p) ==
  \A i \in Id : SharesBeer(p, i) =>
    /\ beers[i] # None \/ IsRow(wb[p][i])
    /\ \A q \in Request \ {p} : wb[q][i] # None

\* A transaction about to commit leaves no pour on a beer it deletes, whoever commits first.
CascadeComplete(p) ==
  At(p, "commit") =>
    \A r \in Id : SeenReviews(p)[r] # None => wb[p][SeenReviews(p)[r].beer] # None

\* No row is written by two open transactions.
OneWriter ==
  \A p, q \in Request, i \in Id : p # q =>
    /\ wb[p][i] # Same => wb[q][i] = Same
    /\ wr[p][i] # Same => wr[q][i] = Same

\* Ids are handed out once: a create's id is its own, and unused until it commits.
FreshIds ==
  /\ \A i \in Id : i > clock => beers[i] = None /\ reviews[i] = None
  /\ \A p \in Request : Creating(p) =>
       /\ req[p].id <= clock
       /\ ~At(p, "reload") /\ ~At(p, "done") =>
            beers[req[p].id] = None /\ reviews[req[p].id] = None
       /\ \A q \in Request \ {p} : Creating(q) => req[q].id # req[p].id

\* What keeps concurrent transactions of users and admins from each other's rows: pending
\* pours hold on to their beers, and a merge's cascade misses none (beer_admin.go:301-313).
LockDiscipline ==
  /\ \A p \in Request :
       PendingWhere(p) /\ WritesToRows(p) /\ SharedBeersStay(p) /\ CascadeComplete(p)
  /\ OneWriter
  /\ FreshIds

-----------------------------------------------------------------------------
(* Refinement *)

\* The tables are those of the promise; what requests hold is nobody else's business.
Promise == INSTANCE CatalogPromise WITH beers <- beers, reviews <- reviews

\* Whatever statements, waits, failures and lost answers overlap, each commit is one whole
\* create, edit, removal, PATCH or merge of the abstract catalog: no step tears a merge apart
\* or mixes two requests, a merge only fills what is still blank as it commits, and a pour
\* moves only to the survivor, edited or not (beer_admin.go:263-314, review.go:109-345).
KeepsPromise == Promise!Spec

-----------------------------------------------------------------------------
(* Why the promise is kept, and what a 200 says: what a transaction holds is its own        *)
(* operation's work, and an id that was in use is not used again.                           *)

\* An id that is or was a row's: no create will insert a row under it.
Used(i) ==
  /\ i <= clock
  /\ \A q \in Request : Creating(q) /\ ~At(q, "reload") /\ ~At(q, "done") => req[q].id # i

\* An edit holds its pour with user and beer as they are; once the UPDATE has missed the pour,
\* it is gone for good.
EditInOrder(p) ==
  ~At(p, "idle") /\ Op(p) = "ReviewUpdate" =>
    /\ wb[p] = NoWrites
    /\ \A r \in Id : wr[p][r] # Same =>
         /\ r = req[p].call.review
         /\ wr[p][r].user = reviews[r].user /\ wr[p][r].beer = reviews[r].beer
    /\ req[p].pc \in {"update", "commit", "reread"} => Used(req[p].call.review)
    /\ req[p].pc \in {"commit", "reread"} => req[p].hit \/ reviews[req[p].call.review] = None
    /\ At(p, "reload") => req[p].hit

\* A merge holds its survivor, filled, and the merged beers, deleted; and their pours, moved
\* before the beers go, or gone with them.
MergeInOrder(p) ==
  Merging(p) =>
    /\ \A i \in Id : wb[p][i] # Same =>
         \/ i \in Ids(p) /\ wb[p][i] = None
         \/ i = req[p].beer /\ wb[p][i] \in Promise!Fillings(beers[i])
    /\ \A r \in Id : wr[p][r] # Same =>
         /\ reviews[r].beer \in Ids(p)
         /\ wr[p][r] \in {None, [reviews[r] EXCEPT !.beer = req[p].beer]}
    /\ At(p, "delete") => \A r \in req[p].targets : IsRow(wr[p][r])
    /\ req[p].pc \in {"cascade", "commit"} =>
         /\ req[p].beer \in Id /\ \A i \in Ids(p) : SeenBeers(p)[i] = None
         /\ \A r \in Id : wr[p][r] # Same => wb[p][reviews[r].beer] = None
         /\ req[p].beer \notin Ids(p) => \A r \in req[p].targets : IsRow(wr[p][r])

\* The beers of a merge that has counted them stay those it named; when it has committed,
\* they are gone.
MergedStayGone(p) ==
  Merging(p) =>
    /\ req[p].pc \in {"fill", "filling", "reassign", "delete", "cascade", "commit"} =>
         \A i \in Ids(p) : Used(i)
    /\ At(p, "reload") \/ (At(p, "done") /\ Op(p) = "Merge" /\ req[p].status = 200) =>
         \A i \in Ids(p) : Used(i) /\ beers[i] = None

\* The work of a merge or an edit is done in the handler's order and touches nothing else,
\* whatever the others commit in between (beer_admin.go:263-314, review.go:232-315).
WorkInOrder ==
  \A p \in Request : EditInOrder(p) /\ MergeInOrder(p) /\ MergedStayGone(p)

-----------------------------------------------------------------------------
(* Liveness *)

\* Whatever waits for whatever lock, every request is answered: merges that wait for each
\* other are broken up by the database and the rest go through.  (A request arrives at most
\* once, so this says ~At(p, "idle") ~> At(p, "done") of each, in a form cheaper to check.)
Answered == []<>(\A p \in Request : At(p, "idle") \/ At(p, "done"))
=============================================================================
