# A formal model of beeroklog-backend

TLA+ modules that follow the Go handlers of this repository statement by
statement, TLC runs that check them on small instances, and theorems that TLAPS
proves for instances of any size. Paths are those of the repository (`internal/...`);
`PROJECT.json` lists the runs, the mutants that show each property has teeth, the
source lines of every definition, the findings and the hazards.

## The system

An HTTP API (chi) on PostgreSQL (pgx pool) and an S3-compatible object store. There is
no service layer, and all the memory that requests share is a copy of Apple's keys behind a
mutex: every request is a goroutine that runs SQL statements of its own, at READ COMMITTED,
and what can go wrong lies between two statements of two requests, between the database and
the object store, or in the life of the process itself.

| Component | State | Operations | Hard because | Correct when |
|---|---|---|---|---|
| Beer catalog (`beer.go`, `beer_helpers.go`, `beer_admin.go`) | `beers` | find-or-create, admin PATCH | look-up and insert are two statements; no unique index | users never change existing rows; PATCH changes only what it names |
| Merge and dedupe (`beer_admin.go`) | `beers`, `reviews` | Merge, DedupeExact, `mergeBeersTx` | six or more statements that lock beers and pours in changing orders; unlocked existence checks; cascades | merged beers go, their pours move to the survivor, nobody else's data changes, transactions end |
| Pours (`review.go`) | `reviews` | Create, Update, Delete | ownership is checked before, and apart from, the update | a 200 means the edit is there; pours are lost only to their owners |
| Photos (`photo.go`, `review.go`, `storage/s3.go`) | `review_photos`, S3 objects | Upload, photos of Create/Update/Delete, `deleteFromS3` | two stores, no common transaction; deletes after the commit | a photo on a pour has its object; a failure only leaves orphans |
| Accounts (`auth.go`, `middleware/auth.go`) | `users` | sign-in, Me, UpdateMe, RequireAdmin | SELECT then INSERT ... ON CONFLICT; unique e-mail | one user per identity; the admin flag only from ADMIN_EMAILS or SQL |
| Servings (`serving.go`, `review.go`) | two columns of `reviews` | `normalizeServing`, Create, Update | a pair in two nullable columns, edited by racing requests | both or neither, from one request, within bounds |
| Tokens (`middleware/auth.go`, `cmd/devtoken`) | none (signed) | Issue, validate, Refresh, Verify, devtoken | lifetimes, two types under one secret, restarts with other settings | who is quiet for a lifetime is out; a refresh token is no access token |
| Apple key cache (`auth.go`) | `appleKeys`, `appleKeysTime`, `appleKeysMu` | `fetchAppleKeys`, `verifyAppleIDToken` | a mutex held over a network call; keys rotate while it is | withdrawn keys are trusted, and new ones refused, no longer than an hour and an exchange; nobody waits for ever but behind an exchange that never ends |
| Reads (`feed.go`, lists, `photos_shared.go`, `photo.go`) | none | Latest, ByBeer, ByUser, List, Get, ListDuplicates | three statements, no transaction, a pool of limited size, pages by OFFSET | a page fits its total; only published pours are public; nobody waits for a second connection while holding one |
| Start-up and shutdown (`main.go`, `database.go`) | schema version, lock | Connect, Migrate, serve, signals, Shutdown | two releases on one database; death inside a migration; handlers that hang | who serves finds its schema; requests are cut off only in the known cases; processes end |
| Configuration, CORS, routes (`config.go`, `cors.go`, `main.go`) | none that changes | `Load`, `CORS` | caches between browsers and the server | allowed origins, and no others, read what they fetch |

Handlers meet only in the tables: pours refer to beers (`REFERENCES ... ON DELETE
CASCADE`), photos to pours, photo rows name objects by key. Row locks, the
pool's connections and `appleKeysMu` are the only synchronisation; the client's context, a
signal and a crash the only interruptions. Reads see what the others commit (`Reads` takes
its writers from the promise that `Catalog` implements); the admin gate of `Accounts` decides
who may run the admin calls of `Catalog`; `Sessions` decides who is signed in; `Server` is the
process that all of them run in.

## Modules

| Module | What it is |
|---|---|
| `ReadCommitted` | what a statement of an open transaction sees, and how it writes (external: PostgreSQL) |
| `Catalog` | beers and pours: every handler that changes them, with row locks, cascades, failures, deadlock victims |
| `MCCatalog` | the instances TLC checks |
| `CatalogProofs` | its type correctness, for every instance |
| `CatalogIntegrity` | the lock discipline and the foreign key, for every instance |
| `CatalogRefinement` | that `Catalog` implements `CatalogPromise`, and what merges, dedupes and edits promise, for every instance |
| `Photos` | uploads, photo rows and objects, with the locks of an edit and a delete of one pour |
| `MCPhotos` | the instances TLC checks |
| `CatalogPromise` | the abstract catalog: one whole create, edit, removal, PATCH or merge at a time; `Catalog` implements it (`KeepsPromise`), `Reads` builds on it |
| `Accounts` | users: sign-ins, profile edits, the admin flag and the gate of `/api/admin` |
| `Sessions` | token pairs, Google and Apple sign-ins, Apple's key cache, restarts with other settings, devtoken |
| `Reads` | every read handler against the writers of `CatalogPromise`; page turning; the pool |
| `Server` | processes from connect to exit, migrations, requests in flight, CORS behind a cache |
| `MCAccounts`, `MCSessions`, `MCReads`, `MCServer` | the instances TLC checks |
| `PhotosProofs`, `AccountsProofs`, `SessionsProofs`, `ReadsProofs`, `ServerProofs` | the safety properties of each of these components, for every instance |

### Catalog

`beers` and `reviews` are the committed rows by id, `None` where there is none. `req[p]`
is the request p: `pc` names the *next statement* of its handler, the other fields are
the handler's locals (`ids` is mergeIDs, `filled` counts the loop at
`beer_admin.go:282`, `src` and `targets` are what a statement has read before it waits).
`wb[p]` and `wr[p]` are p's uncommitted writes. A locked row is one with a pending write;
`Conflicts(p)` says whom p's next statement waits for: the writer of a row it writes, a
deleter of a beer it must find for a foreign key, the pending pours on a beer it deletes.

An UPDATE with a join or an IN list takes two steps, as READ COMMITTED does it: the
statement's snapshot (`ReadSource`, `TargetReviews`), then, when the locks are free, the
latest version of the rows that still match (`FillSurvivor`, `ReassignReviews`). The
DELETE of beers is followed by its cascade. The pours that were committed in between are
the ones the interesting behaviours are about.

`Cancel` is a request whose context ends at any statement; after `Commit` it is also a
COMMIT whose answer was lost. `DeadlockVictim` takes only a request that waits for
itself. `ConnectionsBreak` lets a connection break while DedupeExact reads the ids of a
group, which its code cannot tell from a short group.

`open` says whether a request has begun a transaction that has not ended, written to or not.
Creates, edits of pours and merges begin one on arrival (`Begins`) and defer the Rollback; PATCH
and Delete are single statements. DedupeExact begins
one per group (`BeginGroup`) and defers nothing, so each of its ways out is a definition of its
own: the continue (`SkipGroup`), the failures before a transaction (`KeysFail`), of the query
or a scan of a group's ids (`GroupFails`), of the merge (`MergeFails`), and the commit.

Abstractions:
- names are taken as the handlers compare them, after `TrimSpace` and `lower`;
- `style` stands for style, abv and image_storage_key, which are filled and patched alike;
- a rating is above 0 or not, as the dedupe's ranking sees it;
- ids are handed out at arrival in increasing order, so `created_at` follows the id;
- a statement takes all its row locks at once;
- an UPDATE of several columns in `ReviewHandler.Update` is one step, since the first
  UPDATE locks the row or finds it gone and the rest follow suit;
- the merged beer ids are texts (`Spelling`) until they reach SQL, because the checks in
  Go compare text and SQL compares UUIDs.

### The promise

`CatalogPromise` is what the handlers of `Catalog` add up to when nobody looks inside them:
the tables change by whole operations, one at a time. `Promise`, an instance of it, maps
`beers` and `reviews` to themselves, and everything requests hold (`req`, `wb`, `wr`) is
hidden; `KeepsPromise` says that every step of `Catalog` is one such operation or changes no
row. It is as weak as the code forces it to be: a merge may lose pours that came too late to
be moved, its survivor may have been merged away before, and a call that names its survivor
among the merged in other letters deletes it (see Findings).

### Photos

`owner` and `rows` are the pours and their photo rows, `store` the keys that have an
object. A request holds one lock on its pour's row (`update`, `share` for the foreign
key, `delete`) and on the photo rows it has deleted (`gone`). `fresh` are its inserted
rows, `removed` the keys whose objects it will delete. An S3 delete succeeds or fails
silently, as `deleteFromS3` logs and goes on; `PutObject` may store the object and still
fail; `Kill` is the server dying between the commit and the last object.
`serving` are the two serving columns; they are written with the other columns of an edit, so
`UpdateColumns` takes the lock and `Commit` shows them, as far as the row was there.
Clients name keys they were given: by an upload that was answered, or on a pour. Deleting
a merged beer takes its late pours' photos by cascade; that leaves orphaned objects and
is not part of `Photos`.

### Accounts

`users` is the table, `configured` the running server's ADMIN_EMAILS. Every statement is a
transaction of its own; `req[p]` holds the user as the request has read it (`id`, `email`),
which is what `grantAdminIfConfigured` decides on. An e-mail is an address in some
spelling: `EqualFold` ignores the spelling, `UNIQUE` does not; an identity without an
e-mail gets `[local |-> identity]`, which is sub@provider.local. `FindUser` goes to the
INSERT on any error, as the code does; `InsertUser` is one atomic upsert that fails on a
taken e-mail; the answers of writing statements may be lost. `Restart` kills what runs and
may bring another list. The admin handlers themselves are `Catalog`'s: its constant
`Admin` stands for the requests that `Gate` let by, and `PastGateIsAdmin` is why that does
not change under way. What Google and Apple vouch for is an input.

### Sessions

Time is a number of ticks. `keys` is `appleKeys` with `appleKeysTime`, `mutex` the holder of
`appleKeysMu`; `since` and `till` say when Apple published and withdrew each key. A fetch is
two steps under the mutex, Apple's answer (`AppleAnswers`) and its arrival (`StoreKeys`), so a
key may be withdrawn between them. An error page that is JSON is an answer without keys. A
token is a record of what is signed, and the secret stands for its signature; all tokens ever
issued stay with the clients. `Restart` drops the memory of the server and loads one of the
environments in `Envs` again, among them one with the default secret in production, which
does not start. A lifetime is any integer, negative ones too, or a text that does not parse
(`Malformed`); devtoken signs with any secret and for any time it is told (`DevRuns`).
An exchange may go on for ever, as `http.DefaultClient` sets no time limit; `FetchTime` bounds
only the exchanges that bring keys (`StoreKeys`), and is what the staleness of a key is measured
with. What `findOrCreateUser` does in between is `Accounts`.

### Reads

A list is read by `Count`, `QueryPage`, `ScanRows` and `LoadPhotos`, each statement on a
snapshot of its own. `QueryPage` picks any order of rows that tie. A statement needs a free
connection; rows that are not read to the end keep theirs; `taken` are those of everybody
else. `walk[p]` remembers, for a client that turns pages, which rows stayed in the list all
the time, which left it and which were shown. `Wrap` is the overflow of the `int` offset, on
ints of `MaxInt`. `photos` numbers photos by the write that made them and `exposed` those that
were ever on a published pour. The text of a search, the aggregates of beers and the users'
names in the feed are left out.

### Server

`main[s]` names the next step of `main` in process s, `listener[s]` its goroutine in
`ListenAndServe`. golang-migrate is external: an advisory lock, a version that is dirty while
its statements run in one transaction. `Exit` is any end of a process; the lock and the
requests go with it. The listener may fail at its start or at any later time (`Listen`,
`ListenFails`); both are fatal. Time exists only in Shutdown (`timer`, `Grace`). The requests are
browsers' for one photo, answered with 200, 404 or 500 (a preflight with 204, or 405 where CORS
leaves it to the router); `copies` is what caches in between have kept, which is only a 200.

## Runs

All runs have `CHECK_DEADLOCK FALSE`: a request arrives at most once and a process lives once,
so the system stops when all are answered. Whether somebody waits for ever is what `Answered` checks.

| Run | Instance | Shows |
|---|---|---|
| `pours` | 2 users' requests and an admin's; 2 duplicate beers, 2 pours, 4 ids; 15 calls | the foreign key, transactions that end, what a 200 means, the survivor of a merge |
| `admins` | 2 admins and a user; 3 duplicates; 9 calls, one of them respelled; fairness | the lock discipline, the order of each transaction's work and the refinement under crossing merges; which pours are lost; every request is answered; a dedupe alone leaves no duplicates |
| `photos` | 3 requests, 9 calls, 2 pours and a new one, 3 keys; fairness | rows and objects stay together, servings are whole, edits and deletes break their deadlock |
| `accounts` | 3 requests, 13 calls, 3 identities, 2 addresses, 1 restart; symmetry in the requests (no liveness) | one user per identity, the flag where it belongs, profiles keep their edits |
| `sessions` | 2 requests, 1 identity, 2 keys of Apple's, 4 environments (lifetimes by default, negative, unparsable), 2 runs of devtoken (an hour, longer than the clock), 1 restart, a clock from 0 to 3 (an hour is 2, 720 hours 3); fairness | how long keys and tokens are good, and that the mutex comes free when an exchange ends |
| `reads` | 1 reader with 11 calls, 3 ids, 2 writes, 3 pages, ints of 4 bits, 1 connection; fairness | what totals, pages, walks and private pours may be relied on for |
| `server` | 2 processes with 1 and 2 migrations, 2 attempts, 2 requests, 3 origins of which 2 are allowed; fairness | who serves has its schema, who is cut off, that processes settle, who reads across origins and through caches |
| `v_dup`, `v_owner`, `v_survivor`, `v_skipped`, `v_reattach` | the smallest instance that shows it | see Findings |

*Bounds.* `MaxId`, `MaxReview`, `MaxKey`, `MaxUser` bound the rows and objects ever made, `MaxRestart` the restarts, and each
element of `Request` arrives once. Three requests are enough for every cycle of waits the
code can form in kind (admin-admin, admin-user through a pour, admin-user through a
foreign key), and for a third party committing between two statements of two others.
Three duplicates are enough for a merge list with two entries and for two merges that
share a beer without being opposite. No safety result of a passing run rests on
these bounds: they are proved (below). In `reads` one connection is the hardest pool, one
reader is enough because readers change nothing, and an int of four bits reaches every case
of the offset (negative, wrapped into the list, beyond it). In `sessions` two keys and an hour
of two ticks let a key be withdrawn and another published before, during and after a fetch,
and a token outlive its lifetime before and after a restart. In `server` two processes suffice
for one to die at each step of a migration while the other waits, or starts afterwards; two
requests for one to make the copy that the other one gets. Other lists of origins, `*` among
them, are left to the theorem `Origins`.

*Fairness.* `WF(Step(p))`: a goroutine whose next statement can run runs it, and S3
answers or is given up after the ten seconds of `deleteFromS3`. `WF(DeadlockVictim(p))`:
PostgreSQL's deadlock detector runs after `deadlock_timeout`. No client is obliged to call
or to hang up (`Receive`, `Cancel`, `Kill` are not fair), and no strong fairness is
assumed for
them: a request that arrives at most once cannot be overtaken for ever. In `Reads` statements
compete for connections, and `SF` of a reader's steps is the pool's first come, first served;
`WF(LetGo)` says that the others' statements end. In `Sessions` only `Lock` and what a handler
does on its own (`Handle`) are fair, an exchange with Google or Apple is not: the code sets no
time limit. `Answered` says there that whoever is never answered is in an exchange for ever, or
waits for the mutex behind such a one (`Hangs`), and that nobody else is. In `Server` a process
goes on and time passes; handlers may hang for ever. That Ping and the statements of a migration
end, in success or not, is an assumption (of `Settles` alone): the code sets them no time limit
either.

### Properties that hold

All but `Answered` and `Settles` are checked and also proved for every instance (see Proofs).

- `ReviewsHaveBeers`, `LockDiscipline`: the foreign key holds, and why.
- `WorkInOrder`: a transaction holds the work of its own operation and nothing else, and an
  id that was in use is not used again. The promise and the promises of a 200 follow from it.
- `NothingLeftOpen`: every way out of a handler, and of a turn of DedupeExact's loop, ends the
  transaction it has begun, also when nothing has been written in it yet.
- `MergeOKMeansMerged`, `UpdateOKMeansApplied`: what a 200 promises, although the merge
  checks existence without a lock and the update ignores RowsAffected. The re-read after
  the commit is what makes the latter true.
- `OnlyLatePoursAreLost`: a pour disappears by its owner's DELETE, or with a merged beer if
  it was not yet there when the merge looked, or if the merge names its survivor among the
  merged. This is exactly how far the promise "reassign reviews" holds.
- `KeepsPromise`: the catalog changes as if requests ran one after the other; merges only
  fill what is blank, and pours move only to survivors.
- `MergeLeavesSurvivor` holds in `pours`, with one admin and honest spelling.
- `DedupeLeavesNoDuplicates` holds when connections do not break and nobody creates, patches
  or merges by hand (a PATCH may rename, a merge may fill in a brewery).
- `RowsHaveReviews`, `PhotosKeepObjects`, `ListsMixOnlyWithoutColumns`,
  `UpdateOKShowsPhotos`: for photos, again as far as the order of steps makes them true. A photo
  keeps its object if one request, or the start, is the only source of its key (`Sources`): a
  client may save a key that is on another pour and delete it there, and the object with it.
  An edit shows its list if nobody else has been at its pour (`Alone`).
- `SignInsAgree`, `AdminsWereConfigured`, `ConfiguredAreAdmins`, `PastGateIsAdmin`,
  `ProfilesKeepEdits`: sign-ins may race, fail half-way and come back with other e-mails.
- `ServingsAreWhole`: size and count come from one request, both or neither.
- `SignInsAreVouched`, `RejectedKeysAreNewOrOld`: how stale the key cache may be in either
  direction, whoever fetched it; `QuietSessionsEnd`: lifetimes hold across refreshes, restarts
  and unparsable settings. What a token may live is stated there from the environments and the
  runs of devtoken themselves (`MayLive`), not from what `Load` makes of them.
- `PagesFitTotals`, `WalksMissOnlyShifted`: when a page fits its total (no commit between the
  two, an offset within an int), and when a walk may miss a row.
- `PrivatePhotosNeedARace`: a photo that was never on a published pour shows in public only if
  its pour got it after the page was read and is private when the photos are read.
- `ServesMigrated`, `DrainsRequests`, `OriginsRead`: start-up, shutdown and CORS, again with
  their exact exceptions (a signal before `signal.Notify`, a listener that fails before Shutdown,
  a cached copy without `Vary`).
- `Answered`, for `Catalog`, `Photos`, `Sessions` and `Reads`, and `Settles` for `Server`. (In
  `Accounts` nobody waits.)

### Findings

Five runs end in a violation of what the repository says of itself:

- `v_dup`: two first creates insert the same beer twice (`README.md:69`, `beer.go:109`).
- `v_owner`: a pour committed during a merge is deleted instead of moved
  (`docs/ARCHITECTURE.md:104`).
- `v_survivor`: two opposite merges of unpoured beers both commit and delete both
  (`beer_admin.go:121`). The one that reloads its survivor after the other's commit answers 500
  (`beer_admin.go:163-166`), so at most one of them answers success.
- `v_skipped`: a broken connection makes dedupe skip a group and answer 200, since
  `idRows.Err()` is not looked at (`docs/ARCHITECTURE.md:105`).
- `v_reattach`: an object is deleted under a photo that was saved again
  (`review.go:349`).

Without a run of their own:
- keep_id among merge_ids in another spelling deletes the survivor (`beer_admin.go:121`,
  `136`): the promise has to allow it, and the run `admins` holds such a call (`Respelled`);
- a pour that is made log-only and given a photo between a feed's page and its photos can show
  that photo, which was never public (`beer_helpers.go:20`): `PrivatePhotosNeedARace`;
- photos are streamed and cached for a day, while `main.go:128` and `photos_shared.go:11` speak
  of a redirect to a short-lived presigned URL;
- `Vary: Origin` is missing on answers to requests without an allowed origin, so a cache may
  keep an allowed page from reading a photo (`cors.go:5`): `OriginsRead` names the exception.

Documents that disagree with the code, seen on the way:
`docs/ARCHITECTURE.md:71` says `POST /api/beers/` always inserts, `README.md:69` and the
code say find-or-create; `docs/ARCHITECTURE.md:92` leaves the serving columns out of what an
update may edit.

## Proofs

Each proof module gives an inductive invariant, one lemma per action that it is preserved, and
the properties as theorems. All hold for any set of requests, any calls, any bounds and any
start the assumptions of the module allow. `PROJECT.json` lists the theorems.

*Catalog: the foreign key* (`CatalogProofs`, `CatalogIntegrity`). The foreign key by itself is
not inductive: a commit publishes all pending writes of one
transaction, and what it may publish depends on the writes the others hold. The invariant
is `Inv == TypeOK /\ LockDiscipline /\ ReviewsHaveBeers`, where `LockDiscipline` says
- `PendingWhere`: writes are pending only from a transaction's first write to its end;
- `WritesToRows`: creates write rows of their own fresh id, everybody else rows that are
  there, and only merges delete;
- `OneWriter`: no row is written by two open transactions;
- `FreshIds`: ids are handed out once;
- `SharedBeersStay`: the beer of a pending new or moved pour exists and nobody else
  deletes it (the key-share lock of the foreign-key check);
- `CascadeComplete`: a merge about to commit leaves no pour it can see on a beer it deletes.

The commit step is the interesting one. Take a pour after p's commit. If p wrote it, p sees
it, and `CascadeComplete` (for a merge) or `SharedBeersStay` gives its beer. If p did not,
its beer could only go with p's deletes; then p sees the pour, so it would be among the
pours p cascaded. That p's view of the pours is still complete at the commit is preserved
because a create that commits in the meantime had to share a beer p deletes, and either
waited for p or made p wait. `admins` checks the same invariant with TLC.

*Catalog: the promise* (`CatalogRefinement`). Which rows a commit changes is known; that they
are the rows of one operation is not. `IInv == Inv /\ WorkInOrder` adds what a transaction holds
at each statement: an edit its pour, with user and beer as committed; a merge the survivor,
filled from what is committed now, the merged beers, deleted, and pours of merged beers,
moved or gone. Others cannot disturb this because the rows are locked, and cannot bring a merged
id back because ids are `Used` once. Then every step but `Commit`, and the statements that are a
transaction of their own, stutters, and a commit is one action of the promise: the witness for
`Merge` is read off `wb` and `wr`. `NothingLeftOpen`, `MergeOKMeansMerged`,
`UpdateOKMeansApplied` and `OnlyLatePoursAreLost` follow from `IInv`; the last one also from
`Apart`, that a dedupe never merges its own survivor.

Two theorems have hypotheses, each with a run that fails without it:
- `Deduped` assumes `~ConnectionsBreak` (`v_skipped`). While nobody creates, patches or merges by
  hand, keys do not change and groups only shrink, and every duplicated key is in the
  group at hand or still to be done (`DedupeCovers`);
- `SurvivorsStay` assumes a single admin request (`LoneAdmin`; `v_survivor` has two) and calls that
  do not name the survivor among the merged (`OneSpelling`; the handler's check compares text).

*Photos* (`PhotosProofs`). The locks of a pour's row order its writers (`LockOK`, `PairOK`), so
rows have pours and two lists mix only past an edit that took no lock (`MixOK`). `RemovedOK`
and `StoreOK` follow a key from the row it was read from to the object that is deleted: a
request deletes objects only of the pour it was at and did not name itself; so if a key has
one source, that source is through and no row with it is left when the object goes.

*Accounts* (`AccountsProofs`). Users are never removed, keep their identity and are never
demoted, so what a request has read stays true of the table (`LocalsOK`, `FlagsOK`) while the
two UNIQUE constraints keep identities apart (`OneUserEach`); e-mails on file are vouched
for by the user's own provider (`MailsVouched`); columns change only by their writers
(`ProfilesInOrder`).

*Sessions* (`SessionsProofs`). A list of Apple's keys is true for some moment between the request
and its answer (`ListOf`), at most `FetchTime` ago; the mutex and the hour bound how old it
is when it is used (`KeysOK`, `ListOK`), wherever a request has it from. Each token lives no
longer than a server of its secret, or devtoken, was told (`Mortal`): it keeps the lifetime of
its own start, which the running server may not know any more.

*Reads* (`ReadsProofs`). What was counted or selected is what there is, as long as no commit came
(`CountOK`); a photo of a pour selected for the public that was never on a published pour is of
a later write (`ShownOK`).
For a walk (`WalkOK`): a row that it has missed without an excuse has at
least as many rows ahead of it as the pages so far hold, since a full page was cut from the
rows ahead of it; a write either excuses the miss or leaves no fewer rows ahead. On the
last page, which is not full, there would have to be more rows than there are. A page whose
offset does not fit an int ends the walk, as the wrapped offset is negative.

*Server* (`ServerProofs`). Only the holder of the advisory lock is inside a migration, so the
dirty version tells exactly what is committed, whoever dies (`Phase`, `Recorded`); copies
in caches carry the headers `CORS` made for their origin (`CopiesTrue`).

*Assumptions.* Besides the types of constants: `None` and other marks differ from data (they
stand for NULL, nil and ""); start databases are legal (`LegalSeed`, unique identities and
e-mails, pours with beers), as the constraints of `001_initial.up.sql` make them; admin calls
passed the checks in Go; `Hour > 0` as in the code (one hour); the newest release exists
(releases are numbers of migration files); pages and rows are no larger than an int
(`MaxPerPage <= MaxInt`; 100 against 64 bits). In `Photos` requests and pours are told apart as
sources of a key.

*Only model-checked.* Liveness (`Answered` of `Catalog`, `Photos`, `Sessions` and `Reads`,
`Settles` of `Server`): it needs ENABLED, which the prover does not do. The properties that the
`v_` runs refute are, of course, not theorems.

## Not modelled

- *Configuration*: the S3, port and database settings are plain texts that are handed on;
  `GoogleClientIDs` and `AdminEmails` appear as what they decide.
- *Routes*: only as which calls need a token or an admin.
- JSON, image formats, multipart limits, the search text of the beer list, beer aggregates
  (`avg`, `count`), display names in the feed; `PresignedURL`, which nothing calls.
- The statements of the migrations themselves, and moving back (`*.down.sql`), which the
  server never does.
- Restarts within `Catalog`: a killed server is a set of cancelled requests there.

## Plan

Every safety property of the passing runs is a theorem. What could be added:
1. theorems that weaken the hypotheses of `Deduped` and `SurvivorsStay`: a survivor can only go
   with a merge that was under way when it was looked up;
2. composing `Catalog` and `Photos`, so that the cascade of a merge reaches photos;
3. proofs of the liveness properties, if a prover for ENABLED becomes available.
