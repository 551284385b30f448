------------------------------- MODULE Photos -------------------------------
(***************************************************************************)
(* The photos of pours: rows of review_photos in PostgreSQL, objects in S3, *)
(* and nothing that ties the two together but the order in which the        *)
(* handlers of review.go and photo.go change them.  An element of Request   *)
(* is one HTTP request, stepped through its handler statement by statement. *)
(*                                                                         *)
(* Data kept: a pour's owner, the storage keys of its photos in order, and  *)
(* which keys have an object.  Keys and pours are numbered as they are made *)
(* (uuid.New, gen_random_uuid).  A client names keys that an upload gave it *)
(* or that it saw on a pour; the handlers take whatever text they are sent. *)
(***************************************************************************)
EXTENDS Integers, Sequences, FiniteSets

CONSTANTS
  Request,     \* the HTTP requests; at most one arrival each
  User,        \* the owners of pours
  Calls,       \* the calls they may make in this instance
  MaxReview,   \* bound: at most MaxReview pours are ever numbered
  MaxKey,      \* bound: at most MaxKey objects are ever uploaded
  OwnerAtStart, \* the owners of the pours 1..Len(OwnerAtStart)
  KeysAtStart, \* their photo keys
  None

Review == 1..MaxReview
Key == 1..MaxKey

\* How much of the beer, as a body gives it: millilitres and a number, either may be left out.
Amount == [size: Int \cup {None}, count: Int \cup {None}]
NoAmount == [size |-> None, count |-> None]

Call ==
  [op: {"Upload"}]
    \cup [op: {"Create"}, user: User, keys: Seq(Key), amount: Amount]
    \* names: whether the body names another column of reviews; no photo_keys is None
    \cup [op: {"Update"}, user: User, review: Review, names: BOOLEAN,
          keys: Seq(Key) \cup {None}, amount: Amount, clear: BOOLEAN]
    \cup [op: {"Delete"}, user: User, review: Review]

\* A row of review_photos; `by' is the request that inserted it, None for an old one.
PhotoRow == [key: Key, order: Nat, by: Request \cup {None}]

RowsOf(keys, p) == {[key |-> keys[n], order |-> n, by |-> p] : n \in DOMAIN keys}
KeysOf(rows) == {row.key : row \in rows}
Listed(keys) == {keys[n] : n \in DOMAIN keys}

\* The keys handed out before the server is started.
OldKeys == UNION {Listed(KeysAtStart[r]) : r \in DOMAIN KeysAtStart}

ASSUME PhotosAssumption ==
  /\ MaxReview \in Nat /\ MaxKey \in Nat
  /\ Calls \subseteq Call
  /\ OwnerAtStart \in Seq(User) /\ Len(OwnerAtStart) <= MaxReview
  /\ KeysAtStart \in Seq(Seq(Key)) /\ Len(KeysAtStart) = Len(OwnerAtStart)
  /\ \E n \in 0..MaxKey : OldKeys = 1..n
  /\ None \notin User \cup Int \cup Request \cup Seq(Key) \cup {"share", "update", "delete"}
  /\ Request \cap Review = {}
-----------------------------------------------------------------------------
VARIABLES
  owner,    \* table reviews: the owner of each pour, None when there is no such row
  rows,     \* table review_photos, committed rows of each pour
  serving,  \* serving_size_ml and serving_count of each pour
  store,    \* the keys that have an object in S3
  made,     \* how many pours and keys have been numbered
  req       \* per request: the label of its next statement, its locals and its writes

vars == <<owner, rows, serving, store, made, req>>

Idle == [pc |-> "idle", call |-> None, status |-> 0,
         review |-> 0,      \* the pour it works on, or makes
         key |-> 0,         \* Upload: the key of the new object
         lock |-> None,     \* its lock on that pour's row
         targets |-> {},    \* snapshot of the photo rows being deleted
         gone |-> {},       \* photo rows deleted, not yet committed
         fresh |-> {},      \* photo rows inserted, not yet committed
         removed |-> {}]    \* storage keys whose objects are to be deleted

Init ==
  /\ owner = [r \in Review |-> IF r \in DOMAIN OwnerAtStart THEN OwnerAtStart[r] ELSE None]
  /\ rows = [r \in Review |-> IF r \in DOMAIN KeysAtStart THEN RowsOf(KeysAtStart[r], None)
                              ELSE {}]
  /\ serving = [r \in Review |-> NoAmount]
  /\ store = OldKeys
  /\ made = [reviews |-> Len(OwnerAtStart), keys |-> Cardinality(OldKeys)]
  /\ req = [p \in Request |-> Idle]

At(p, label) == req[p].pc = label
Op(p) == req[p].call.op
Pour(p) == req[p].review

Goto(p, label) == req' = [req EXCEPT ![p].pc = label]

\* The photo rows a statement of p sees of its pour.
Seen(p) == (rows[Pour(p)] \ req[p].gone) \cup req[p].fresh

-----------------------------------------------------------------------------
(* Locks.  UPDATE reviews locks the pour's row, the foreign-key check of an *)
(* inserted photo shares it, DELETE wants it for itself; a deleted photo    *)
(* row is held until its transaction ends.                                  *)

\* The locks that a request for a lock of this mode has to wait for.
Blocks(mode) ==
  CASE mode = "share" -> {"delete"}
    [] mode = "update" -> {"update", "delete"}
    [] mode = "delete" -> {"share", "update", "delete"}

Wants(p, mode) ==
  {q \in Request \ {p} : req[q].review = Pour(p) /\ req[q].lock \in Blocks(mode)}

\* Requests whose locks p's next statement has to wait for.
Conflicts(p) ==
  CASE At(p, "columns") /\ owner[Pour(p)] # None -> Wants(p, "update")
    [] At(p, "clearing") -> {q \in Request \ {p} : req[q].gone \cap req[p].targets # {}}
    [] At(p, "attach") /\ owner[Pour(p)] # None -> Wants(p, "share")
    [] At(p, "remove") /\ owner[Pour(p)] = req[p].call.user -> Wants(p, "delete")
    [] At(p, "cascade") -> {q \in Request \ {p} : req[q].gone \cap rows[Pour(p)] # {}}
    [] OTHER -> {}

Free(p) == Conflicts(p) = {}

-----------------------------------------------------------------------------
(* Ends of a request. *)

Done(local, code) == [local EXCEPT !.pc = "done", !.status = code]

\* Nothing of the transaction stays: its locks, its writes, its list of keys.
RolledBack(local) ==
  [local EXCEPT !.lock = None, !.targets = {}, !.gone = {}, !.fresh = {}, !.removed = {}]

\* Mutant of Abort: a return that forgets the Rollback.
AbortLeavingTx(p, code) ==
  req' = [req EXCEPT ![p] = Done(@, code)] /\ UNCHANGED <<owner, rows, serving, store, made>>

Abort(p, code) ==
  /\ req' = [req EXCEPT ![p] = Done(RolledBack(@), code)]
  /\ UNCHANGED <<owner, rows, serving, store, made>>

-----------------------------------------------------------------------------
(* Servings *)

Sizes == 1..10000
Counts == 1..100

\* Nothing, or a size and perhaps a count within their bounds.
MakesSense(a) == a # NoAmount => a.size \in Sizes /\ a.count \in Counts \cup {None}

\* Mutant of normalizeServing: a count that is left out stays so.
normalizeServingAsIs(a) == a

\* A count that is left out is 1.
normalizeServing(a) ==
  IF a.size # None /\ a.count = None THEN [a EXCEPT !.count = 1] ELSE a

\* Whether the call sets the serving, and to what: clear_serving goes before the numbers.
Sets(c) ==
  /\ c.op \in {"Create", "Update"}
  /\ c.op = "Update" => c.clear \/ c.amount # NoAmount
Serving(c) == IF c.op = "Update" /\ c.clear THEN NoAmount ELSE normalizeServing(c.amount)
Accepts(c) == (Sets(c) /\ (c.op = "Update" => ~c.clear)) => MakesSense(c.amount)

-----------------------------------------------------------------------------
(* Arrival *)

\* The keys a client can have heard of.
Known == OldKeys \cup {req[p].key : p \in {q \in Request : At(q, "done") /\ req[q].status = 200}}

Named(c) == IF c.op \in {"Create", "Update"} /\ c.keys # None THEN Listed(c.keys) ELSE {}

Entry(c) ==
  CASE c.op = "Upload" -> "put"
    [] c.op = "Create" -> "insert"
    [] c.op = "Update" -> "own"
    [] c.op = "Delete" -> "oldKeys"

Receive(p) ==
  /\ At(p, "idle")
  /\ \E c \in Calls :
       /\ Named(c) \subseteq Known
       /\ Accepts(c)
       /\ c.op = "Create" => made.reviews < MaxReview
       /\ c.op = "Upload" => made.keys < MaxKey
       /\ made' = [reviews |-> made.reviews + (IF c.op = "Create" THEN 1 ELSE 0),
                   keys |-> made.keys + (IF c.op = "Upload" THEN 1 ELSE 0)]
       /\ req' = [req EXCEPT ![p] =
                    [Idle EXCEPT !.pc = Entry(c), !.call = c,
                                 !.key = IF c.op = "Upload" THEN made'.keys ELSE 0,
                                 !.review = CASE c.op = "Create" -> made'.reviews
                                              [] c.op = "Upload" -> 0
                                              [] OTHER -> c.review]]
  /\ UNCHANGED <<owner, rows, serving, store>>

\* A serving that makes no sense.
Refuse(p) ==
  /\ At(p, "idle")
  /\ \E c \in Calls :
       /\ Named(c) \subseteq Known
       /\ ~Accepts(c)
       /\ req' = [req EXCEPT ![p] = Done([Idle EXCEPT !.call = c], 400)]
  /\ UNCHANGED <<owner, rows, serving, store, made>>

-----------------------------------------------------------------------------
(* PhotoHandler.Upload: the object is stored or not, and its answer heard or not. *)

PutObject(p) ==
  /\ At(p, "put")
  /\ \/ store' = store \cup {req[p].key} /\ \E code \in {200, 500} :
          req' = [req EXCEPT ![p] = Done(@, code)]
     \/ store' = store /\ req' = [req EXCEPT ![p] = Done(@, 500)]
  /\ UNCHANGED <<owner, rows, serving, made>>

-----------------------------------------------------------------------------
(* ReviewHandler.Create: a pour nobody knows of yet, and its photos.        *)

InsertPour(p) ==
  /\ At(p, "insert")
  /\ req' = [req EXCEPT ![p].pc = "commit", ![p].lock = "delete",
                        ![p].fresh = RowsOf(req[p].call.keys, p)]
  /\ UNCHANGED <<owner, rows, serving, store, made>>

-----------------------------------------------------------------------------
(* ReviewHandler.Update: ownership, columns, then the photos are replaced.  *)

NamesColumns(c) == c.names \/ Sets(c)
AfterColumns(p) == IF req[p].call.keys = None THEN "commit" ELSE "oldKeys"

CheckOwner(p) ==
  /\ At(p, "own")
  /\ IF owner[Pour(p)] = req[p].call.user
     THEN /\ Goto(p, IF NamesColumns(req[p].call) THEN "columns" ELSE AfterColumns(p))
          /\ UNCHANGED <<owner, rows, serving, store, made>>
     ELSE Abort(p, 404)

\* Mutant of UpdateColumns: on the pool (h.db) instead of the transaction, so no lock is kept.
UpdateColumnsOutside(p) ==
  /\ At(p, "columns")
  /\ Free(p)
  /\ Goto(p, AfterColumns(p))
  /\ UNCHANGED <<owner, rows, serving, store, made>>

\* An UPDATE that finds no row is no error, and locks nothing.
UpdateColumns(p) ==
  /\ At(p, "columns")
  /\ Free(p)
  /\ req' = [req EXCEPT ![p].pc = AfterColumns(p),
                        ![p].lock = IF owner[Pour(p)] = None THEN None ELSE "update"]
  /\ UNCHANGED <<owner, rows, serving, store, made>>

\* Mutant of ReadOldKeys: the keys that the body still lists are not kept.
ReadOldKeysAll(p) ==
  /\ At(p, "oldKeys")
  /\ req' = [req EXCEPT ![p].pc = IF Op(p) = "Update" THEN "clear" ELSE "remove",
                        ![p].removed = KeysOf(Seen(p))]
  /\ UNCHANGED <<owner, rows, serving, store, made>>

\* storageKeysForReview: Update reads in its transaction, Delete before its own; an Update
\* leaves out the keys that its body still lists.
ReadOldKeys(p) ==
  /\ At(p, "oldKeys")
  /\ req' = [req EXCEPT ![p].pc = IF Op(p) = "Update" THEN "clear" ELSE "remove",
                        ![p].removed = KeysOf(Seen(p)) \ Named(req[p].call)]
  /\ UNCHANGED <<owner, rows, serving, store, made>>

\* DELETE FROM review_photos: the rows of the statement's snapshot, when they can be locked,
\* as far as they are still there.
ClearStarts(p) ==
  /\ At(p, "clear")
  /\ req' = [req EXCEPT ![p].pc = "clearing", ![p].targets = rows[Pour(p)]]
  /\ UNCHANGED <<owner, rows, serving, store, made>>

AfterClear(p) == IF req[p].call.keys = <<>> THEN "commit" ELSE "attach"

ClearRows(p) ==
  /\ At(p, "clearing")
  /\ Free(p)
  /\ req' = [req EXCEPT ![p].pc = AfterClear(p), ![p].targets = {},
                        ![p].gone = req[p].targets \cap rows[Pour(p)]]
  /\ UNCHANGED <<owner, rows, serving, store, made>>

\* Mutant of AttachPhotos: review_photos.review_id without its REFERENCES clause.
AttachUnreferenced(p) ==
  /\ At(p, "attach")
  /\ req' = [req EXCEPT ![p].pc = "commit", ![p].fresh = RowsOf(req[p].call.keys, p)]
  /\ UNCHANGED <<owner, rows, serving, store, made>>

\* The INSERTs; the first one checks review_id and the others follow suit.
AttachPhotos(p) ==
  /\ At(p, "attach")
  /\ Free(p)
  /\ IF owner[Pour(p)] # None
     THEN /\ req' = [req EXCEPT ![p].pc = "commit",
                                ![p].lock = IF @ = None THEN "share" ELSE @,
                                ![p].fresh = RowsOf(req[p].call.keys, p)]
          /\ UNCHANGED <<owner, rows, serving, store, made>>
     ELSE Abort(p, 500)

\* Mutant of AfterCommit: an Update goes straight to its reply.
AfterCommitReply(p) == IF Op(p) = "Create" THEN "reload" ELSE "reply"

AfterCommit(p) == IF Op(p) = "Create" THEN "reload" ELSE "s3"

\* When the answer to COMMIT is lost, its effect stays and the objects are left alone.
Commit(p) ==
  LET local == [RolledBack(req[p]) EXCEPT !.removed = req[p].removed]
  IN  /\ At(p, "commit")
      /\ rows' = [rows EXCEPT ![Pour(p)] = Seen(p)]
      /\ owner' = IF Op(p) = "Create" THEN [owner EXCEPT ![Pour(p)] = req[p].call.user]
                  ELSE owner
      /\ serving' = IF Sets(req[p].call) /\ req[p].lock \in {"update", "delete"}
                    THEN [serving EXCEPT ![Pour(p)] = Serving(req[p].call)] ELSE serving
      /\ \/ req' = [req EXCEPT ![p] = [local EXCEPT !.pc = AfterCommit(p)]]
         \/ req' = [req EXCEPT ![p] = Done(RolledBack(@), 500)]
      /\ UNCHANGED <<store, made>>

-----------------------------------------------------------------------------
(* ReviewHandler.Delete *)

\* Mutant of LockPour: RowsAffected is not looked at, so the objects go all the same.
LockPourUnchecked(p) ==
  /\ At(p, "remove")
  /\ Free(p)
  /\ IF owner[Pour(p)] = req[p].call.user
     THEN req' = [req EXCEPT ![p].pc = "cascade", ![p].lock = "delete"]
     ELSE Goto(p, "s3")
  /\ UNCHANGED <<owner, rows, serving, store, made>>

\* DELETE ... WHERE id AND user_id locks the row; any error counts as "not found".
LockPour(p) ==
  /\ At(p, "remove")
  /\ Free(p)
  /\ IF owner[Pour(p)] = req[p].call.user
     THEN /\ req' = [req EXCEPT ![p].pc = "cascade", ![p].lock = "delete"]
          /\ UNCHANGED <<owner, rows, serving, store, made>>
     ELSE Abort(p, 404)

\* ON DELETE CASCADE takes the photo rows, and the statement commits on its own.
RemovePour(p) ==
  /\ At(p, "cascade")
  /\ Free(p)
  /\ owner' = [owner EXCEPT ![Pour(p)] = None]
  /\ rows' = [rows EXCEPT ![Pour(p)] = {}]
  /\ serving' = [serving EXCEPT ![Pour(p)] = NoAmount]
  /\ \/ req' = [req EXCEPT ![p].pc = "s3", ![p].lock = None]
     \/ req' = [req EXCEPT ![p] = Done(RolledBack(@), 404)]
  /\ UNCHANGED <<store, made>>

-----------------------------------------------------------------------------
(* deleteFromS3 and the reply *)

\* One object after another, in a context of their own; a failure leaves the object.
DeleteObject(p) ==
  /\ At(p, "s3")
  /\ \E k \in req[p].removed :
       /\ store' \in {store \ {k}, store}
       /\ req' = [req EXCEPT ![p].removed = @ \ {k}]
  /\ UNCHANGED <<owner, rows, serving, made>>

AfterObjects(p) ==
  /\ At(p, "s3")
  /\ req[p].removed = {}
  /\ req' = IF Op(p) = "Update" THEN [req EXCEPT ![p].pc = "reload"]
            ELSE [req EXCEPT ![p] = Done(@, 204)]
  /\ UNCHANGED <<owner, rows, serving, store, made>>

\* Update reads the pour back; the photos of a new pour are read without asking for it.
Reload(p) ==
  /\ At(p, "reload")
  /\ req' = [req EXCEPT ![p] = Done(@, CASE Op(p) = "Create" -> 201
                                        [] owner[Pour(p)] = None -> 500
                                        [] OTHER -> 200)]
  /\ UNCHANGED <<owner, rows, serving, store, made>>

-----------------------------------------------------------------------------
(* Failures *)

\* The ownership check and Delete take any error for a missing row.
FailureCode(p) == IF At(p, "own") \/ At(p, "remove") \/ At(p, "cascade") THEN 404 ELSE 500

\* The request's context ends, or the database fails.  deleteFromS3 does not use that context.
Cancel(p) ==
  /\ ~At(p, "idle") /\ ~At(p, "put") /\ ~At(p, "s3") /\ ~At(p, "done")
  /\ Abort(p, FailureCode(p))

\* The server is killed between the commit and the last object: no answer, objects left.
Kill(p) == At(p, "s3") /\ Abort(p, 0)

\* p waits, directly or through others, for itself: PostgreSQL picks it as the victim.
DeadlockVictim(p) ==
  /\ Conflicts(p) # {}
  /\ \A s \in SUBSET Request :
       Conflicts(p) \subseteq s /\ (\A q \in s : Conflicts(q) \subseteq s) => p \in s
  /\ Abort(p, FailureCode(p))

-----------------------------------------------------------------------------
Create(p) == InsertPour(p)
Update(p) ==
  CheckOwner(p) \/ UpdateColumns(p) \/ ClearStarts(p) \/ ClearRows(p) \/ AttachPhotos(p)
Delete(p) == LockPour(p) \/ RemovePour(p)
Objects(p) == PutObject(p) \/ DeleteObject(p) \/ AfterObjects(p)

Step(p) ==
  Create(p) \/ Update(p) \/ Delete(p) \/ ReadOldKeys(p) \/ Commit(p) \/ Objects(p) \/ Reload(p)

Next ==
  \E p \in Request :
    Receive(p) \/ Refuse(p) \/ Step(p) \/ DeadlockVictim(p) \/ Cancel(p) \/ Kill(p)

Spec == Init /\ [][Next]_vars

\* Handlers go on when they can, S3 answers within its ten seconds or is given up, and
\* PostgreSQL breaks deadlocks.
FairSpec == Spec /\ \A p \in Request : WF_vars(Step(p)) /\ WF_vars(DeadlockVictim(p))
-----------------------------------------------------------------------------
Label == {"idle", "put", "insert", "own", "columns", "oldKeys", "clear", "clearing", "attach",
          "commit", "remove", "cascade", "s3", "reload", "done"}

TypeOK ==
  /\ owner \in [Review -> User \cup {None}]
  /\ rows \in [Review -> SUBSET PhotoRow]
  /\ serving \in [Review -> Amount]
  /\ store \subseteq Key
  /\ made \in [reviews: 0..MaxReview, keys: 0..MaxKey]
  /\ req \in [Request -> [pc: Label, call: Call \cup {None}, status: Nat,
                          review: Review \cup {0}, key: Key \cup {0},
                          lock: {None, "share", "update", "delete"},
                          targets: SUBSET PhotoRow, gone: SUBSET PhotoRow,
                          fresh: SUBSET PhotoRow, removed: SUBSET Key]]

-----------------------------------------------------------------------------
(* Safety *)

\* review_photos.review_id REFERENCES reviews(id): an Update that replaces photos while the
\* pour is deleted leaves no photo of it behind (review.go:286-297, 335).
RowsHaveReviews == \A r \in Review : rows[r] # {} => owner[r] # None

\* What puts a key on a pour: the requests that name it, and the pours that had it at the start.
Sources(k) ==
  {p \in Request : ~At(p, "idle") /\ k \in Named(req[p].call)}
    \cup {r \in DOMAIN KeysAtStart : k \in Listed(KeysAtStart[r])}

\* A photo whose key has one source keeps its object as long as it is on a pour, whatever
\* fails, is cancelled or races: objects are deleted after the commit (review.go:305, 335-342).
\* A key that a second request names as well is exempt: nothing keeps a client from saving a
\* key that is on another pour, and from deleting it there (review.go:172-175, 329-342).
PhotosKeepObjects ==
  \A r \in Review : \A row \in rows[r] :
    row.key \in store \/ \E a, b \in Sources(row.key) : a # b

\* Two lists of photos get mixed on one pour only if one of the updates names no column:
\* those that do wait for each other at the pour's row (review.go:241-267).
ListsMixOnlyWithoutColumns ==
  \A r \in Review : \A x, y \in rows[r] :
    x.by # y.by => /\ x.by # None /\ y.by # None
                   /\ Op(x.by) = "Update" /\ Op(y.by) = "Update"
                   /\ ~NamesColumns(req[x.by].call) \/ ~NamesColumns(req[y.by].call)

\* Whichever edits race, a pour has a size and a count in their bounds or neither, and both
\* as one request sets them: never the size of one edit with the count of another
\* (serving.go:7-24, review.go:207-218, 259-262).
ServingsAreWhole ==
  \A r \in Review :
    serving[r] # NoAmount =>
      /\ serving[r].size \in Sizes /\ serving[r].count \in Counts
      /\ \E p \in Request : Pour(p) = r /\ Sets(req[p].call) /\ Serving(req[p].call) = serving[r]

\* Nobody else has been at p's pour, and the keys it names are new or were there before.
Alone(p) ==
  /\ \A q \in Request \ {p} : At(q, "idle") \/ Pour(q) # Pour(p)
  /\ \A k \in Named(req[p].call) : Sources(k) \subseteq {p, Pour(p)}

\* An Update that was answered with 200 and that nobody else interferes with shows the
\* photos it lists, in their order and with their objects (review.go:269-305).
UpdateOKShowsPhotos ==
  \A p \in Request :
    /\ At(p, "done") /\ Op(p) = "Update" /\ req[p].status = 200
    /\ req[p].call.keys # None /\ Alone(p)
    => /\ {<<row.order, row.key>> : row \in rows[Pour(p)]} =
            {<<n, req[p].call.keys[n]>> : n \in DOMAIN req[p].call.keys}
       /\ KeysOf(rows[Pour(p)]) \subseteq store

\* "DB rows are already gone" when an object is deleted (review.go:349-350).
DeletedObjectsHaveNoRows ==
  [][\A k \in Key : k \in store /\ k \notin store' =>
       \A r \in Review : k \notin KeysOf(rows[r])]_vars

-----------------------------------------------------------------------------
(* Liveness *)

\* Every request is answered: an Update and a Delete of one pour that wait for each other
\* (photo rows against the pour's row) are broken up, and objects that S3 does not delete
\* in time are left.  (As in Catalog: each request arrives at most once.)
Answered == []<>(\A p \in Request : At(p, "idle") \/ At(p, "done"))
=============================================================================
