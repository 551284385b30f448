------------------------------- MODULE Reads --------------------------------
(***************************************************************************)
(* What the read handlers show of a catalog that changes under them: the     *)
(* public feeds (feed.go), a user's journal and single pours (review.go),    *)
(* the beers and their duplicates (beer.go, beer_admin.go).  A list is read  *)
(* by three statements, each on a snapshot of its own and on a connection of *)
(* its own from the pool: the count, the page and the photos of its pours.   *)
(*                                                                         *)
(* Writers are those of CatalogPromise, which Catalog is shown to implement.  *)
(* A larger id was created later.  A reader is a client that may go on from   *)
(* one page to the next.                                                    *)
(***************************************************************************)
EXTENDS CatalogPromise, Integers, Sequences, FiniteSets

CONSTANTS
  Reader, User,
  Calls,        \* per reader: the calls it may make in this instance
  Conns,        \* connections of the pool
  MaxInt,       \* the largest int
  MaxPerPage, DefaultPerPage,  \* 100 and 20
  MaxPage,      \* bound: how far a reader goes on turning pages
  MaxWrites     \* bound on what writers do

PublicOps == {"Latest", "ByBeer", "ByUser"}
PourOps == PublicOps \cup {"Journal", "Review"}
PagedOps == PublicOps \cup {"Journal", "Beers"}

\* id: the beer or pour asked for; user: whose pours; page and perPage as strconv.Atoi
\* returns them: 0 for no number, the nearest int for one out of range.
Int64 == -(MaxInt + 1)..MaxInt
Call == [op: PourOps, id: Id \cup {None}, user: User \cup {None},
         page: Int64, perPage: Int64, sort: {"created_at", "tasted_at"}]
          \cup [op: {"Beers", "Beer", "Duplicates"}, id: Id \cup {None}, user: User \cup {None},
                page: Int64, perPage: Int64, sort: {"name"}]

\* A row of reviews; names of beers are numbered in their order.
PourRow == [user: User, beer: Id, rated: BOOLEAN, noted: BOOLEAN, tasted: Int]

ASSUME ReadsAssumption ==
  /\ {Conns, MaxInt, MaxPerPage, DefaultPerPage, MaxPage, MaxWrites} \subseteq Nat
  /\ Conns > 0 /\ DefaultPerPage \in 1..MaxPerPage /\ MaxPerPage <= MaxInt /\ MaxPage <= MaxInt
  /\ Id \subseteq Nat \ {0} /\ IsFiniteSet(Id)
  /\ \A p \in Reader : Calls[p] \subseteq Call
  /\ Review \subseteq PourRow /\ \A beer \in Beer : beer.name \in Int
  /\ None \notin PourRow \cup Beer
  /\ \A seed \in Seeds :
       /\ seed.beers \in [Id -> Beer \cup {None}] /\ seed.reviews \in [Id -> PourRow \cup {None}]
       /\ \A r \in Id : seed.reviews[r] # None => seed.beers[seed.reviews[r].beer] # None

VARIABLES
  photos,    \* per pour: the keys of its photos; a key is the number of the write that set it
  exposed,   \* the photos that have been on a published pour
  writes,    \* how many commits there were
  taken,     \* connections that all other requests hold
  req,       \* per reader: its request
  walk       \* per reader: what it has seen since its first page, and what became of the list

tables == <<db, photos, exposed, writes>>
vars == <<tables, taken, req, walk>>

NoCall == [op |-> "none"]
Idle == [pc |-> "idle", call |-> NoCall, page |-> 0, status |-> 0,
         total |-> 0, countedAt |-> 0,    \* total_count, and the writes it is as of
         list |-> <<>>, listedAt |-> 0,   \* the page, and the writes it is as of
         photos |-> {}]
NoWalk == [on |-> FALSE, changed |-> FALSE, seen |-> {}, stayed |-> {}, left |-> {}]

ReadsInit ==
  /\ Init
  /\ photos = [r \in Id |-> {}] /\ exposed = {} /\ writes = 0
  /\ taken = 0
  /\ req = [p \in Reader |-> Idle]
  /\ walk = [p \in Reader |-> NoWalk]

At(p, label) == req[p].pc = label
IsAnswered(p) == At(p, "done") \/ At(p, "full")
\* Mutant of Busy: the rows are left open while the photos are loaded.
BusyTillPhotos == {p \in Reader : At(p, "scan") \/ At(p, "photos")}

\* rows that have not been read to the end keep their connection.
Busy == {p \in Reader : At(p, "scan")}
ConnFree == Cardinality(Busy) + taken < Conns

-----------------------------------------------------------------------------
(* What is asked for *)

\* publishedReviewSQL
Published(pour) == pour.rated \/ pour.noted

\* Mutant of Public: the clause is forgotten.
PublicAny(rs) == There(rs)

Public(rs) == {r \in There(rs) : Published(rs[r])}

Key(beer) == <<beer.name, beer.brewery>>

\* The rows a list's WHERE clause selects.
Listed(c, bs, rs) ==
  CASE c.op = "Latest" -> Public(rs)
    [] c.op = "ByBeer" -> {r \in Public(rs) : rs[r].beer = c.id}
    [] c.op = "ByUser" -> {r \in Public(rs) : rs[r].user = c.user}
    [] c.op = "Journal" -> {r \in There(rs) : rs[r].user = c.user}
    [] c.op = "Review" -> {r \in There(rs) \cap {c.id} : rs[r].user = c.user}
    [] c.op = "Beers" -> There(bs)
    [] c.op = "Beer" -> There(bs) \cap {c.id}
    [] c.op = "Duplicates" ->
         {i \in There(bs) : \E j \in There(bs) \ {i} : Key(bs[i]) = Key(bs[j])}

\* ORDER BY: created_at DESC, tasted_at DESC, or the beers' names.
Rank(c, i) == CASE c.sort = "created_at" -> -i
                [] c.sort = "tasted_at" -> -reviews[i].tasted
                [] c.sort = "name" -> beers[i].name

\* Rows of one rank come in any order, in each statement anew.
Sorted(c, rows) ==
  {s \in [1..Cardinality(rows) -> rows] :
     \A m, n \in DOMAIN s : m < n => s[m] # s[n] /\ Rank(c, s[m]) <= Rank(c, s[n])}

\* Mutant of FirstPage: a number below 1 is taken as it is.
FirstPageAny(c) == c.page

\* parsePage
FirstPage(c) == IF c.page < 1 THEN 1 ELSE c.page
PerPage(c) == IF c.perPage < 1 \/ c.perPage > MaxPerPage THEN DefaultPerPage ELSE c.perPage

Full(p) == req[p].call.op \in PagedOps /\ Len(req[p].list) = PerPage(req[p].call)

\* The client keeps the page number, and whether there may be more.
Answer(p, code) ==
  [req EXCEPT ![p] = [Idle EXCEPT !.pc = IF code = 200 /\ Full(p) THEN "full" ELSE "done",
                                  !.call = req[p].call, !.page = req[p].page, !.status = code]]

Wrap(n) == ((n + MaxInt + 1) % (2 * (MaxInt + 1))) - (MaxInt + 1)

\* Mutant of Offset: pages count from 0.
OffsetFromZero(p) == Wrap(req[p].page * PerPage(req[p].call))

Offset(p) == Wrap((req[p].page - 1) * PerPage(req[p].call))

Least(m, n) == IF m < n THEN m ELSE n

\* LIMIT and OFFSET
Slice(p, rows) ==
  IF req[p].call.op \in PagedOps
  THEN SubSeq(rows, Offset(p) + 1, Least(Offset(p) + PerPage(req[p].call), Len(rows)))
  ELSE rows

-----------------------------------------------------------------------------
(* Requests *)

Receive(p) ==
  /\ At(p, "idle")
  /\ \E c \in Calls[p] :
       req' = [req EXCEPT ![p] = [Idle EXCEPT !.pc = IF c.op \in PagedOps THEN "count" ELSE "page",
                                              !.call = c, !.page = FirstPage(c)]]
  /\ UNCHANGED <<tables, taken, walk>>

\* Mutant of Count: the WHERE clause of the page is not that of the count.
CountAll(p) ==
  /\ At(p, "count") /\ ConnFree
  /\ req' = [req EXCEPT ![p].pc = "page", ![p].countedAt = writes,
               ![p].total = Cardinality(There(IF req[p].call.op = "Beers" THEN beers ELSE reviews))]
  /\ UNCHANGED <<tables, taken, walk>>

\* SELECT count(*)
Count(p) ==
  /\ At(p, "count") /\ ConnFree
  /\ req' = [req EXCEPT ![p].pc = "page", ![p].countedAt = writes,
               ![p].total = Cardinality(Listed(req[p].call, beers, reviews))]
  /\ UNCHANGED <<tables, taken, walk>>

\* SELECT ... JOIN beers: the page as of now; PostgreSQL refuses a negative OFFSET.
QueryPage(p) ==
  LET c == req[p].call
      rows == Listed(c, beers, reviews)
  IN  /\ At(p, "page") /\ ConnFree
      /\ IF c.op \in PagedOps /\ Offset(p) < 0
         THEN req' = Answer(p, 500) /\ walk' = [walk EXCEPT ![p] = NoWalk]
         ELSE \E s \in Sorted(c, {r \in rows : c.op \in PourOps => beers[reviews[r].beer] # None}) :
                /\ req' = [req EXCEPT ![p].pc = "scan", ![p].list = Slice(p, s),
                                      ![p].listedAt = writes]
                /\ walk' = IF req[p].page # 1 THEN walk
                           ELSE [walk EXCEPT ![p] = [NoWalk EXCEPT !.on = c.op \in PagedOps,
                                                                   !.stayed = rows]]
      /\ UNCHANGED <<tables, taken>>

Shown(p) == {req[p].list[n] : n \in DOMAIN req[p].list}

\* rows.Next until there are no more: the connection goes back to the pool.  Beers have no
\* photos to load, and loadPhotos does without a query when there are no pours.
ScanRows(p) ==
  /\ At(p, "scan")
  /\ req' = CASE req[p].list = <<>> /\ req[p].call.op \in {"Review", "Beer"} -> Answer(p, 404)
              [] req[p].list = <<>> \/ req[p].call.op \notin PourOps -> Answer(p, 200)
              [] OTHER -> [req EXCEPT ![p].pc = "photos"]
  /\ walk' = [walk EXCEPT ![p] = IF Full(p) /\ walk[p].on
                                 THEN [walk[p] EXCEPT !.seen = @ \cup Shown(p)] ELSE NoWalk]
  /\ UNCHANGED <<tables, taken>>

\* loadPhotos
LoadPhotos(p) ==
  /\ At(p, "photos") /\ ConnFree
  /\ req' = [Answer(p, 200) EXCEPT ![p].photos =
               UNION {photos[r] : r \in Shown(p)}]
  /\ UNCHANGED <<tables, taken, walk>>

\* A statement fails or the client hangs up; the single reads take any error for a 404.
Fail(p) ==
  /\ ~At(p, "idle") /\ ~IsAnswered(p)
  /\ req' = Answer(p, IF req[p].call.op \in {"Review", "Beer"} /\ ~At(p, "photos")
                      THEN 404 ELSE 500)
  /\ walk' = [walk EXCEPT ![p] = NoWalk]
  /\ UNCHANGED <<tables, taken>>

\* The client asks for the next page when this one was full.
Turn(p) ==
  /\ At(p, "full") /\ req[p].page < MaxPage
  /\ req' = [req EXCEPT ![p] = [Idle EXCEPT !.pc = "count", !.call = req[p].call,
                                            !.page = req[p].page + 1]]
  /\ UNCHANGED <<tables, taken, walk>>

-----------------------------------------------------------------------------
(* Writers *)

\* A create or an edit may replace the photos of its pour; a pour's photos go with it.
PhotoWrites ==
  LET kept == [r \in Id |-> IF reviews'[r] = None THEN {} ELSE photos[r]]
  IN  \/ photos' = kept
      \/ \E r \in There(reviews') :
           /\ reviews'[r] # reviews[r] \/ reviews' = reviews
           /\ beers' = beers /\ photos' = [kept EXCEPT ![r] = {writes + 1}]

\* What left a reader's list, and what stayed in it.
Watched(p) ==
  LET c == req[p].call
      before == Listed(c, beers, reviews)
      after == Listed(c, beers', reviews')
  IN  IF ~walk[p].on THEN walk[p]
      ELSE [walk[p] EXCEPT !.changed = TRUE, !.stayed = @ \cap after, !.left = @ \cup (before \ after)]

Write ==
  /\ writes < MaxWrites
  /\ Next /\ PhotoWrites
  /\ <<db, photos>>' # <<db, photos>>
  /\ exposed' = exposed \cup UNION {photos'[r] : r \in {s \in Id : reviews'[s] # None /\ Published(reviews'[s])}}
  /\ writes' = writes + 1
  /\ walk' = [p \in Reader |-> Watched(p)]
  /\ UNCHANGED <<taken, req>>

\* The others' statements come and go.
Take == ConnFree /\ taken' = taken + 1 /\ UNCHANGED <<tables, req, walk>>
LetGo == taken > 0 /\ taken' = taken - 1 /\ UNCHANGED <<tables, req, walk>>

-----------------------------------------------------------------------------
Handle(p) == Count(p) \/ QueryPage(p) \/ ScanRows(p) \/ LoadPhotos(p)

ReadsNext == Write \/ Take \/ LetGo \/ \E p \in Reader : Receive(p) \/ Handle(p) \/ Fail(p) \/ Turn(p)

ReadsSpec == ReadsInit /\ [][ReadsNext]_vars

\* The pool serves first who has waited longest, and no statement goes on for ever.
FairReads == ReadsSpec /\ WF_vars(LetGo) /\ \A p \in Reader : SF_vars(Handle(p))

-----------------------------------------------------------------------------
\* A page number is at least 1, a page no longer than was asked for; connections are there.
TypeOK ==
  /\ beers \in [Id -> Beer \cup {None}] /\ photos \in [Id -> SUBSET (1..MaxWrites)]
  /\ \A r \in There(reviews) : reviews[r].user \in User /\ beers[reviews[r].beer] # None
  /\ exposed \subseteq 1..MaxWrites /\ writes \in 0..MaxWrites
  /\ Cardinality(Busy) + taken \in 0..Conns
  /\ \A p \in Reader :
       /\ req[p].pc \in {"idle", "count", "page", "scan", "photos", "full", "done"}
       /\ At(p, "idle") \/ req[p].page \in 1..MaxInt
       /\ Shown(p) \subseteq Id
       /\ Full(p) \/ At(p, "idle") \/ req[p].call.op \notin PagedOps
            \/ Len(req[p].list) < PerPage(req[p].call)

-----------------------------------------------------------------------------
(* Safety *)

Paged(p) == At(p, "scan") /\ req[p].call.op \in PagedOps
Overflows(p) == (req[p].page - 1) * PerPage(req[p].call) > MaxInt

\* A page holds as many rows as total_count leaves for it, unless somebody committed between
\* the two statements or the offset is beyond an int: the count, which does without the
\* JOINs, and the page, which does not, select the same rows because every pour has its beer
\* (feed.go:28-44, review.go:35-49, beer.go:30-46, respond.go:22-32).
PagesFitTotals ==
  \A p \in Reader : Paged(p) /\ req[p].countedAt = req[p].listedAt /\ ~Overflows(p) =>
    LET ahead == req[p].total - (req[p].page - 1) * PerPage(req[p].call)
    IN  Len(req[p].list) = IF ahead < 0 THEN 0 ELSE Least(ahead, PerPage(req[p].call))

\* Rows another row of the list ties with in the list's order.
Tied(c, r) == \E s \in Listed(c, beers, reviews) \ {r} : Rank(c, s) = Rank(c, r)

\* Who turns the pages from the first to the last misses a row that was in the list all the
\* time only if a newer one left it meanwhile, when the newest come first.  In the other
\* orders ties and edits can hide it as well (feed.go:43, review.go:48, beer.go:45).
WalksMissOnlyShifted ==
  \A p \in Reader :
    Paged(p) /\ walk[p].on /\ ~Full(p) =>
      \A r \in walk[p].stayed \ (walk[p].seen \cup Shown(p)) :
        IF req[p].call.sort = "created_at" THEN \E s \in walk[p].left : s > r
        ELSE walk[p].changed \/ Tied(req[p].call, r)

\* Log-only pours stay private (beer_helpers.go:20-21).  A photo that was never on a
\* published pour is shown to the public only if its pour got it after the page was read and
\* is private when the photos are read, which no check is made of (photos_shared.go:32-40).
PrivatePhotosNeedARace ==
  [][\A p \in Reader :
       At(p, "photos") /\ req'[p].status = 200 /\ req[p].call.op \in PublicOps =>
         \A k \in req'[p].photos \ exposed :
           /\ k > req[p].listedAt
           /\ \E r \in Shown(p) : k \in photos[r] /\ r \notin Public(reviews)]_vars

-----------------------------------------------------------------------------
(* Liveness *)

\* Readers get their answers even when the pool is used up: none waits for a connection
\* while it holds one (feed.go:49-57, photos_shared.go:32-40).
Answered == []<>(\A p \in Reader : At(p, "idle") \/ IsAnswered(p))
=============================================================================
