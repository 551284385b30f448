------------------------------- MODULE Server -------------------------------
(***************************************************************************)
(* The life of a server process (cmd/server/main.go): it connects to the    *)
(* database, brings the schema up to its release, serves, and on a signal   *)
(* drains its requests for ten seconds.  Several processes share a database *)
(* and its migration lock, as when one release takes over from another;     *)
(* any of them may die at any step.                                         *)
(*                                                                         *)
(* The requests are browsers' for one photo, which caches keep for a day:    *)
(* what the CORS headers (middleware/cors.go) make of them.                 *)
(***************************************************************************)
EXTENDS Naturals, Sequences, FiniteSetsExt

CONSTANTS
  Server,      \* the processes; each lives once
  Request,     \* the requests; at most one arrival each
  Origin,      \* the origins of browser pages
  Any,         \* the origin "*"
  Blank,       \* what is left of a part of a list that is empty or only blanks
  OriginTexts, \* the values CORS_ALLOWED_ORIGINS may have, split at the commas
  Release,     \* per process: how many migrations its binary embeds
  Attempts,    \* how often Connect tries
  Grace,       \* the ten seconds of Shutdown, in ticks
  None

Part == [text: Origin \cup {Any, Blank}, padded: BOOLEAN]
Newest == Max({Release[s] : s \in Server})

ASSUME ServerAssumption ==
  /\ Release \in [Server -> Nat]
  /\ \E s \in Server : \A t \in Server : Release[t] <= Release[s]
  /\ Attempts \in Nat \ {0} /\ Grace \in Nat
  /\ OriginTexts \subseteq Seq(Part)
  /\ None \notin Server \cup Origin \cup {Any, Blank} /\ Any \notin Origin

-----------------------------------------------------------------------------
(* Allowed origins *)

\* Whoever reads such a list asks what is in it only.
Trimmed(text) == {text[i].text : i \in DOMAIN text}

\* Mutant of Cleaned: parts that are blank stay in the list.
CleanedNot(text) == Trimmed(text)

Cleaned(text) == Trimmed(text) \ {Blank}

\* The first of the variables that lists anything.
parseCommaSeparatedEnv(texts) ==
  LET lists == {i \in DOMAIN texts : Cleaned(texts[i]) # {}}
  IN  IF lists = {} THEN {} ELSE Cleaned(texts[Min(lists)])

Allows(list, origin) == origin # None /\ (Any \in list \/ origin \in list)

\* Mutant of CORS: caches are not told that the answer depends on the origin.
CORSWithoutVary(list, origin) ==
  [allow |-> IF ~Allows(list, origin) THEN None ELSE IF Any \in list THEN Any ELSE origin,
   vary |-> FALSE]

\* Access-Control-Allow-Origin, and whether there is Vary: Origin.
CORS(list, origin) ==
  [allow |-> IF ~Allows(list, origin) THEN None ELSE IF Any \in list THEN Any ELSE origin,
   vary |-> Allows(list, origin) /\ Any \notin list]

-----------------------------------------------------------------------------
VARIABLES
  main,      \* per process: the next step of main, or how the process ended
  attempt,   \* per process: the attempt of Connect
  listener,  \* per process: its goroutine in ListenAndServe
  timer,     \* per process: ticks since Shutdown began
  schema,    \* the migrations whose statements the database has committed
  version,   \* schema_migrations: the last migration begun
  dirty,     \* and whether it is not known to be done
  lock,      \* who holds the migrations' advisory lock
  origins,   \* allowedOrigins, the same for all processes
  req,       \* per request
  copies     \* answers kept by caches between the browsers and the servers

process == <<main, listener>>
database == <<schema, version, dirty>>
vars == <<main, attempt, listener, timer, schema, version, dirty, lock, origins, req, copies>>

Response == [allow: Origin \cup {Any, None}, vary: BOOLEAN]
New == [pc |-> "new", server |-> None, origin |-> None, status |-> 0,
        headers |-> CORS({}, None), copied |-> {}]
Gone(how) == [New EXCEPT !.pc = how]

Init ==
  /\ main = [s \in Server |-> "off"] /\ attempt = [s \in Server |-> 0]
  /\ listener = [s \in Server |-> "none"] /\ timer = [s \in Server |-> 0]
  /\ version = 0 /\ schema = {} /\ dirty = FALSE
  /\ lock = None
  /\ \E text \in OriginTexts : origins = parseCommaSeparatedEnv(<<text>>)
  /\ req = [r \in Request |-> New]
  /\ copies = {}

At(s, label) == main[s] = label
Goto(s, label) == main' = [main EXCEPT ![s] = label]
Runs(r, s) == req[r].pc = "running" /\ req[r].server = s
Ended == {"done", "fatal", "terminated", "killed"}

\* The process ends: PostgreSQL frees the lock of its session, the kernel its connections.
Exit(s, how) ==
  /\ Goto(s, how)
  /\ listener' = [listener EXCEPT ![s] = "none"]
  /\ attempt' = [attempt EXCEPT ![s] = 0] /\ timer' = [timer EXCEPT ![s] = 0]
  /\ lock' = IF lock = s THEN None ELSE lock
  /\ req' = [r \in Request |-> IF Runs(r, s) THEN Gone("cut") ELSE req[r]]
  /\ UNCHANGED <<database, origins, copies>>

-----------------------------------------------------------------------------
(* Start-up *)

Start(s) ==
  /\ At(s, "off")
  /\ Goto(s, "connect") /\ attempt' = [attempt EXCEPT ![s] = 1]
  /\ UNCHANGED <<listener, timer, database, lock, origins, req, copies>>

\* An attempt succeeds, or the next one follows a second later.
Connect(s) ==
  /\ At(s, "connect") /\ attempt[s] <= Attempts
  /\ \/ Goto(s, "lock") /\ attempt' = [attempt EXCEPT ![s] = 0]
     \/ attempt' = [attempt EXCEPT ![s] = @ + 1] /\ UNCHANGED main
  /\ UNCHANGED <<listener, timer, database, lock, origins, req, copies>>

GiveUp(s) == At(s, "connect") /\ attempt[s] > Attempts /\ Exit(s, "fatal")

Migrating(s) == main[s] \in {"lock", "plan", "body", "clean"}

\* Mutant of MigrateFails: main goes on after an error of Migrate.
MigrateFailsQuietly(s) ==
  /\ Migrating(s)
  /\ Goto(s, "storage") /\ lock' = IF lock = s THEN None ELSE lock
  /\ UNCHANGED <<attempt, listener, timer, database, origins, req, copies>>

\* The connection breaks, a statement fails, or the lock is not there in time.
MigrateFails(s) == Migrating(s) /\ Exit(s, "fatal")

LockMigrations(s) ==
  /\ At(s, "lock") /\ lock = None
  /\ Goto(s, "plan") /\ lock' = s
  /\ UNCHANGED <<attempt, listener, timer, database, origins, req, copies>>

\* The next migration is announced.  A dirty version, or one of a later release, is an error.
BeginMigration(s) ==
  /\ At(s, "plan") /\ ~dirty /\ version < Release[s]
  /\ version' = version + 1 /\ dirty' = TRUE
  /\ Goto(s, "body")
  /\ UNCHANGED <<attempt, listener, timer, schema, lock, origins, req, copies>>

\* The statements of a migration are one implicit transaction.
RunMigration(s) ==
  /\ At(s, "body")
  /\ schema' = schema \cup {version}
  /\ Goto(s, "clean")
  /\ UNCHANGED <<attempt, listener, timer, version, dirty, lock, origins, req, copies>>

EndMigration(s) ==
  /\ At(s, "clean")
  /\ dirty' = FALSE
  /\ Goto(s, "plan")
  /\ UNCHANGED <<attempt, listener, timer, schema, version, lock, origins, req, copies>>

\* No change is no error.
Migrated(s) ==
  /\ At(s, "plan") /\ ~dirty /\ version = Release[s]
  /\ Goto(s, "storage") /\ lock' = None
  /\ UNCHANGED <<attempt, listener, timer, database, origins, req, copies>>

\* NewS3 only reads settings; then the goroutine is started.
OpenStorage(s) ==
  /\ At(s, "storage")
  /\ \/ /\ Goto(s, "notify") /\ listener' = [listener EXCEPT ![s] = "starting"]
        /\ UNCHANGED <<attempt, timer, database, lock, origins, req, copies>>
     \/ Exit(s, "fatal")

\* From here on main sees the signals.
Notify(s) ==
  /\ At(s, "notify") /\ Goto(s, "wait")
  /\ UNCHANGED <<attempt, listener, timer, database, lock, origins, req, copies>>

-----------------------------------------------------------------------------
(* ListenAndServe *)

Listen(s) ==
  /\ listener[s] = "starting"
  /\ \/ /\ listener' = [listener EXCEPT ![s] = IF At(s, "drain") THEN "closed" ELSE "accepting"]
        /\ UNCHANGED <<main, attempt, timer, database, lock, origins, req, copies>>
     \/ Exit(s, "fatal")

\* Accept fails for good: ListenAndServe returns another error than ErrServerClosed.
ListenFails(s) == listener[s] = "accepting" /\ Exit(s, "fatal")

\* Mutant of ServerClosed: the error that Shutdown causes is fatal too.
ServerClosedFatal(s) == listener[s] = "closing" /\ Exit(s, "fatal")

\* ListenAndServe returns ErrServerClosed at once when Shutdown begins.
ServerClosed(s) ==
  /\ listener[s] = "closing"
  /\ listener' = [listener EXCEPT ![s] = "closed"]
  /\ UNCHANGED <<main, attempt, timer, database, lock, origins, req, copies>>

-----------------------------------------------------------------------------
(* Requests *)

\* A request reaches a process, or a cache answers for it: any copy that is not for another
\* origin will do.  CORS answers a preflight itself when it allows the origin; else there is
\* no route for it.
Arrive(r) ==
  /\ req[r].pc = "new"
  /\ \E o \in Origin \cup {None}, preflight \in BOOLEAN :
       LET answer(code, headers, copy) ==
             [New EXCEPT !.pc = "answered", !.origin = o, !.status = code,
                         !.headers = headers, !.copied = copy]
       IN  \/ \E s \in Server :
                /\ listener[s] = "accepting"
                /\ req' = [req EXCEPT ![r] =
                     IF preflight
                     THEN answer(IF Allows(origins, o) THEN 204 ELSE 405, CORS(origins, o), {})
                     ELSE [New EXCEPT !.pc = "running", !.server = s, !.origin = o]]
           \/ \E c \in copies :
                /\ ~preflight /\ (c.headers.vary => c.origin = o)
                /\ req' = [req EXCEPT ![r] = answer(200, c.headers, {c.origin})]
  /\ UNCHANGED <<process, attempt, timer, database, lock, origins, copies>>

\* The handler ends.  Caches may keep a photo, but no 404 or 500, which have no
\* Cache-Control.  After the write timeout, or with the client gone, nobody gets the answer.
Respond(r) ==
  LET o == req[r].origin
      headers == CORS(origins, o)
      Answered(code) ==
        req' = [req EXCEPT ![r] =
          [New EXCEPT !.pc = "answered", !.origin = o, !.status = code, !.headers = headers]]
  IN  /\ req[r].pc = "running"
      /\ \/ req' = [req EXCEPT ![r] = Gone("lost")] /\ UNCHANGED copies
         \/ Answered(200) /\ copies' = copies \cup {[headers |-> headers, origin |-> o]}
         \/ \E code \in {200, 404, 500} : Answered(code) /\ UNCHANGED copies
      /\ UNCHANGED <<process, attempt, timer, database, lock, origins>>

-----------------------------------------------------------------------------
(* Shutdown *)

\* SIGINT or SIGTERM.  Before Notify it ends the process; a second one changes nothing.
Signal(s) ==
  /\ main[s] \notin {"off", "drain"} \cup Ended
  /\ IF At(s, "wait")
     THEN /\ Goto(s, "drain")
          /\ listener' = [listener EXCEPT ![s] = IF @ = "accepting" THEN "closing" ELSE @]
          /\ UNCHANGED <<attempt, timer, database, lock, origins, req, copies>>
     ELSE Exit(s, "terminated")

Drained(s) ==
  /\ At(s, "drain") /\ \A r \in Request : ~Runs(r, s)
  /\ Exit(s, "done")

Tick(s) ==
  /\ At(s, "drain") /\ timer[s] < Grace
  /\ timer' = [timer EXCEPT ![s] = @ + 1]
  /\ UNCHANGED <<process, attempt, database, lock, origins, req, copies>>

\* Mutant of GraceOver: Shutdown with a context that has no deadline.
GraceNever(s) == FALSE

GraceOver(s) == timer[s] = Grace

\* Shutdown returns the error of its context, which is fatal.
Deadline(s) == At(s, "drain") /\ GraceOver(s) /\ Exit(s, "fatal")

\* SIGKILL, a crash, or the machine is gone.
Kill(s) == main[s] \notin {"off"} \cup Ended /\ Exit(s, "killed")

-----------------------------------------------------------------------------
Migrate(s) ==
  \/ LockMigrations(s) \/ BeginMigration(s) \/ RunMigration(s) \/ EndMigration(s)
  \/ Migrated(s) \/ MigrateFails(s)

Main(s) ==
  \/ Connect(s) \/ GiveUp(s) \/ Migrate(s) \/ OpenStorage(s) \/ Notify(s)
  \/ Drained(s) \/ Deadline(s)

ListenAndServe(s) == Listen(s) \/ ServerClosed(s)

Next ==
  \/ \E s \in Server :
       \/ Start(s) \/ Main(s) \/ ListenAndServe(s) \/ ListenFails(s)
       \/ Signal(s) \/ Tick(s) \/ Kill(s)
  \/ \E r \in Request : Arrive(r) \/ Respond(r)

Spec == Init /\ [][Next]_vars

\* A process goes on and time passes; handlers may hang, and nobody has to start, signal or
\* kill anything.  Assumed of the database: Ping and the statements of a migration end, in
\* success or not, though the code sets them no time limit.
FairSpec ==
  Spec /\ \A s \in Server : WF_vars(Main(s)) /\ WF_vars(ListenAndServe(s)) /\ WF_vars(Tick(s))
-----------------------------------------------------------------------------
StartUp == {"connect", "lock", "plan", "body", "clean", "storage", "notify"}

TypeOK ==
  /\ main \in [Server -> {"off", "wait", "drain"} \cup StartUp \cup Ended]
  /\ attempt \in [Server -> 0..Attempts + 1]
  /\ listener \in [Server -> {"none", "starting", "accepting", "closing", "closed"}]
  /\ timer \in [Server -> 0..Grace]
  /\ version \in 0..Newest /\ schema \subseteq 1..version /\ dirty \in BOOLEAN
  /\ lock \in Server \cup {None}
  /\ \A s \in Server : main[s] \in {"plan", "body", "clean"} => lock = s
  /\ origins \subseteq Origin \cup {Any}
  /\ copies \subseteq [headers: Response, origin: Origin \cup {None}]
  /\ \A r \in Request :
       /\ req[r].pc \in {"new", "running", "answered", "lost", "cut"}
       /\ req[r].status \in {0, 200, 204, 404, 405, 500} /\ req[r].headers \in Response
       /\ req[r].pc = "running" => listener[req[r].server] # "none"

-----------------------------------------------------------------------------
(* Safety *)

\* A process that accepts requests finds all migrations of its release done, whichever
\* process ran them and however many died at it; an announced version that is not dirty has
\* its statements in the database (main.go:41-43, database.go:51).
ServesMigrated ==
  /\ \A s \in Server : listener[s] = "accepting" => 1..Release[s] \subseteq schema
  /\ schema = IF dirty /\ version \notin schema THEN 1..(version - 1) ELSE 1..version

\* A request is cut off only by a crash, by the deadline of Shutdown, by a listener that
\* fails before it, or by a signal in the moment between the start of the goroutine that
\* listens and signal.Notify (main.go:142-157).
DrainsRequests ==
  [][\A r \in Request :
       req[r].pc = "running" /\ req'[r].pc = "cut" =>
         LET s == req[r].server
         IN  \/ main'[s] = "killed"
             \/ listener[s] = "accepting" /\ main'[s] = "fatal"
             \/ At(s, "drain") /\ timer[s] = Grace
             \/ At(s, "notify") /\ main'[s] = "terminated"]_vars

\* A page reads the answer it got exactly if its origin is allowed, except that a copy made
\* for a request without an allowed Origin (an <img> tag's) has no header for it: such copies
\* do not say that they vary (cors.go:20-26, photo.go:96).
OriginsRead ==
  \A r \in Request :
    LET o == req[r].origin
        reads == req[r].headers.allow \in {Any, o}
        hidden == \E maker \in req[r].copied : ~Allows(origins, maker)
    IN  req[r].status # 0 /\ o # None => (reads <=> Allows(origins, o) /\ ~hidden)

-----------------------------------------------------------------------------
(* Liveness *)

\* A process that is started serves in the end or gives up, a lock held by another one and a
\* database that does not answer included; one that is told to stop ends, though handlers
\* hang (database.go:23-39, main.go:153-157).
Settles ==
  \A s \in Server :
    /\ main[s] \in StartUp ~> main[s] \in {"wait", "drain"} \cup Ended
    /\ At(s, "drain") ~> main[s] \in Ended
=============================================================================
