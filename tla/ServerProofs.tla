---------------------------- MODULE ServerProofs ----------------------------
(***************************************************************************)
(* The invariant of Server: the advisory lock makes one process at a time    *)
(* migrate, so that what the database says of its schema is true whoever     *)
(* dies; who listens has seen the last migration of its release end; and     *)
(* caches hold only what the headers of CORS said.                           *)
(***************************************************************************)
EXTENDS Server, TLAPS

Up == {"notify", "wait", "drain"}

\* What a process has behind it, by where it is.
Phase(s) ==
  /\ main[s] \in {"plan", "body", "clean"} => lock = s
  /\ At(s, "body") => dirty /\ version \notin schema
  /\ At(s, "clean") => dirty /\ version \in schema
  /\ main[s] \in {"storage"} \cup Up => 1..Release[s] \subseteq schema
  /\ listener[s] # "none" => main[s] \in Up
  /\ listener[s] = "accepting" => ~At(s, "drain")

\* schema_migrations tells the truth.
Recorded ==
  /\ schema = IF dirty /\ version \notin schema THEN 1..(version - 1) ELSE 1..version
  /\ dirty => version > 0

Step == {"new", "running", "answered", "lost", "cut"}
Status == {0, 200, 204, 404, 405, 500}

Answer == [pc: Step, server: Server \cup {None}, origin: Origin \cup {None},
           status: Status, headers: Response, copied: SUBSET (Origin \cup {None})]

\* A request that runs, runs at a process that has listened.
Served(r) ==
  req[r].pc = "running" =>
    req[r].server \in Server /\ listener[req[r].server] \in {"accepting", "closing", "closed"}

\* Caches hold answers as servers give them.
CopiesTrue == \A c \in copies : c.headers = CORS(origins, c.origin)

Inv ==
  /\ TypeOK /\ req \in [Request -> Answer]
  /\ \A s \in Server : Phase(s)
  /\ Recorded
  /\ \A r \in Request : Served(r)
  /\ CopiesTrue /\ OriginsRead

-----------------------------------------------------------------------------
LEMMA NewestIs == Newest \in Nat /\ \A s \in Server : Release[s] <= Newest
<1> DEFINE S == {Release[s] : s \in Server}
<1>1. S \subseteq Nat /\ \E m \in S : \A n \in S : m >= n
  BY ServerAssumption DEF ServerAssumption
<1>2. Newest \in S /\ \A n \in S : Newest >= n
  BY <1>1 DEF Newest, Max
<1> QED
  BY <1>1, <1>2

LEMMA CORSType ==
  ASSUME NEW list \in SUBSET (Origin \cup {Any}), NEW o \in Origin \cup {None}
  PROVE  CORS(list, o) \in Response
  BY DEF CORS, Response, Allows

\* Browsers may read the answer exactly if the origin is allowed.
LEMMA CORSReads ==
  ASSUME NEW list, NEW o \in Origin
  PROVE  CORS(list, o).allow \in {Any, o} <=> Allows(list, o)
  BY ServerAssumption DEF ServerAssumption, CORS, Allows

LEMMA Updates ==
  ASSUME NEW a \in Answer
  PROVE  /\ \A pc \in Step : [a EXCEPT !.pc = pc] \in Answer
         /\ \A t \in Server \cup {None} : [a EXCEPT !.server = t] \in Answer
         /\ \A o \in Origin \cup {None} : [a EXCEPT !.origin = o] \in Answer
         /\ \A code \in Status : [a EXCEPT !.status = code] \in Answer
         /\ \A headers \in Response : [a EXCEPT !.headers = headers] \in Answer
         /\ \A made \in SUBSET (Origin \cup {None}) : [a EXCEPT !.copied = made] \in Answer
  BY DEF Answer

LEMMA Blanks ==
  /\ New \in Answer /\ New.pc = "new" /\ New.status = 0 /\ New.copied = {}
  /\ \A how \in {"lost", "cut"} :
       Gone(how) \in Answer /\ Gone(how).pc = how /\ Gone(how).status = 0
<1>1. CORS({}, None) \in Response
  BY CORSType
<1>2. 0 \in Status /\ "new" \in Step /\ {"lost", "cut"} \subseteq Step
  BY DEF Status, Step
<1>3. New \in Answer /\ New.pc = "new" /\ New.status = 0 /\ New.copied = {}
  BY <1>1, <1>2 DEF New, Answer
<1>4. ASSUME NEW how \in {"lost", "cut"}
      PROVE  Gone(how) \in Answer /\ Gone(how).pc = how /\ Gone(how).status = 0
  <2>1. Gone(how) \in Answer
    BY <1>2, <1>3, Updates, Zenon DEF Gone
  <2> QED
    BY <1>3, <2>1 DEF Gone, Answer
<1> QED
  BY <1>3, <1>4

LEMMA OriginsTyped ==
  ASSUME NEW text \in OriginTexts
  PROVE  parseCommaSeparatedEnv(<<text>>) \subseteq Origin \cup {Any}
<1>1. text \in Seq(Part)
  BY ServerAssumption DEF ServerAssumption
<1>2. Cleaned(text) \subseteq Origin \cup {Any}
  <2>1. \A i \in DOMAIN text : text[i] \in Part
    BY <1>1
  <2>2. \A i \in DOMAIN text : text[i].text \in Origin \cup {Any, Blank}
    BY <2>1 DEF Part
  <2> QED
    BY <2>2 DEF Cleaned, Trimmed
<1> DEFINE lists == {i \in DOMAIN <<text>> : Cleaned(<<text>>[i]) # {}}
<1>3. CASE lists = {}
  BY <1>3 DEF parseCommaSeparatedEnv
<1>4. CASE lists # {}
  <2>1. lists = {1}
    BY <1>4
  <2>2. Min({1}) = 1
    BY DEF Min
  <2> QED
    BY <1>2, <2>1, <2>2 DEF parseCommaSeparatedEnv
<1> QED
  BY <1>3, <1>4

LEMMA InitInv == Init => Inv
<1> SUFFICES ASSUME Init PROVE Inv
  OBVIOUS
<1>1. /\ \A s \in Server : main[s] = "off" /\ listener[s] = "none"
      /\ \A r \in Request : req[r] = New
      /\ version = 0 /\ schema = {} /\ dirty = FALSE /\ copies = {}
  BY DEF Init
<1>2. req \in [Request -> Answer]
  BY Blanks DEF Init
<1>3. TypeOK
  <2>1. origins \subseteq Origin \cup {Any}
    BY OriginsTyped DEF Init
  <2>2. \A r \in Request :
          /\ req[r].pc \in {"new", "running", "answered", "lost", "cut"}
          /\ req[r].status \in {0, 200, 204, 404, 405, 500} /\ req[r].headers \in Response
          /\ req[r].pc = "running" => listener[req[r].server] # "none"
    BY <1>1, <1>2, Blanks DEF Answer, Step, Status
  <2>3. /\ main \in [Server -> {"off", "wait", "drain"} \cup StartUp \cup Ended]
        /\ attempt \in [Server -> 0..Attempts + 1] /\ timer \in [Server -> 0..Grace]
        /\ listener \in [Server -> {"none", "starting", "accepting", "closing", "closed"}]
    BY ServerAssumption DEF Init, ServerAssumption
  <2>4. version \in 0..Newest /\ schema \subseteq 1..version /\ lock \in Server \cup {None}
    BY NewestIs DEF Init
  <2>5. \A s \in Server : main[s] \in {"plan", "body", "clean"} => lock = s
    BY <1>1
  <2>6. dirty \in BOOLEAN /\ copies \subseteq [headers: Response, origin: Origin \cup {None}]
    BY <1>1
  <2> QED
    BY <2>1, <2>2, <2>3, <2>4, <2>5, <2>6, Zenon DEF TypeOK
<1>4. \A s \in Server : Phase(s)
  BY <1>1 DEF Phase, At, Up
<1>5. Recorded
  BY <1>1 DEF Recorded
<1>6. \A r \in Request : Served(r)
  BY <1>1, Blanks DEF Served
<1>7. CopiesTrue /\ OriginsRead
  BY <1>1, Blanks DEF CopiesTrue, OriginsRead
<1> QED
  BY <1>2, <1>3, <1>4, <1>5, <1>6, <1>7 DEF Inv

-----------------------------------------------------------------------------
(* The steps of a process *)

LEMMA Types ==
  ASSUME Inv
  PROVE  /\ main \in [Server -> {"off", "wait", "drain"} \cup StartUp \cup Ended]
         /\ attempt \in [Server -> 0..Attempts + 1]
         /\ listener \in [Server -> {"none", "starting", "accepting", "closing", "closed"}]
         /\ timer \in [Server -> 0..Grace]
         /\ version \in 0..Newest /\ schema \subseteq 1..version /\ dirty \in BOOLEAN
         /\ lock \in Server \cup {None} /\ None \notin Server
         /\ origins \subseteq Origin \cup {Any} /\ req \in [Request -> Answer]
         /\ copies \subseteq [headers: Response, origin: Origin \cup {None}]
         /\ Newest \in Nat /\ Attempts \in Nat \ {0} /\ Grace \in Nat
         /\ Release \in [Server -> Nat]
  BY NewestIs, ServerAssumption DEF ServerAssumption, Inv, TypeOK

\* The invariant after a step, from its parts.
LEMMA InvAgain ==
  ASSUME \A s \in Server : Phase(s)', \A r \in Request : Served(r)',
         Recorded', CopiesTrue', OriginsRead', req' \in [Request -> Answer],
         main' \in [Server -> {"off", "wait", "drain"} \cup StartUp \cup Ended],
         attempt' \in [Server -> 0..Attempts + 1],
         listener' \in [Server -> {"none", "starting", "accepting", "closing", "closed"}],
         timer' \in [Server -> 0..Grace],
         version' \in 0..Newest, schema' \subseteq 1..version', dirty' \in BOOLEAN,
         lock' \in Server \cup {None}, origins' \subseteq Origin \cup {Any},
         copies' \subseteq [headers: Response, origin: Origin \cup {None}]
  PROVE  Inv'
<1>1. \A r \in Request :
        /\ req'[r].pc \in {"new", "running", "answered", "lost", "cut"}
        /\ req'[r].status \in {0, 200, 204, 404, 405, 500} /\ req'[r].headers \in Response
  BY DEF Answer, Step, Status
<1>2. \A r \in Request : req'[r].pc = "running" => listener'[req'[r].server] # "none"
  BY DEF Served
<1>3. TypeOK'
  BY <1>1, <1>2 DEF TypeOK, Phase
<1> QED
  BY <1>3 DEF Inv

LEMMA ExitInv ==
  ASSUME Inv, NEW s \in Server, NEW how \in Ended, Exit(s, how)
  PROVE  Inv'
<1>1. /\ main' = [main EXCEPT ![s] = how] /\ listener' = [listener EXCEPT ![s] = "none"]
      /\ attempt' = [attempt EXCEPT ![s] = 0] /\ timer' = [timer EXCEPT ![s] = 0]
      /\ lock' = IF lock = s THEN None ELSE lock
      /\ req' = [r \in Request |-> IF Runs(r, s) THEN Gone("cut") ELSE req[r]]
      /\ UNCHANGED <<schema, version, dirty, origins, copies>>
  BY DEF Exit, Goto, database
<1>2. how \notin Up \cup {"plan", "body", "clean", "storage"}
  BY DEF Ended, Up
<1>3. req' \in [Request -> Answer]
  BY <1>1, Types, Blanks
<1>4. \A r \in Request : req'[r] = req[r] \/ (req'[r].pc = "cut" /\ req'[r].status = 0)
  BY <1>1, Blanks
<1>5. ASSUME NEW t \in Server PROVE Phase(t)'
  <2>1. CASE t = s
    BY <1>1, <1>2, <2>1, Types DEF Phase, At
  <2>2. CASE t # s
    BY <1>1, <2>2, Types DEF Inv, Phase, At
  <2> QED
    BY <2>1, <2>2
<1>6. Recorded'
  BY <1>1 DEF Inv, Recorded
<1>7. ASSUME NEW r \in Request PROVE Served(r)'
  <2>1. CASE Runs(r, s)
    BY <1>1, <2>1, Blanks DEF Served
  <2>2. CASE ~Runs(r, s)
    <3>1. req'[r] = req[r] /\ Served(r)
      BY <1>1, <2>2 DEF Inv
    <3> QED
      BY <1>1, <2>2, <3>1, Types DEF Served, Runs
  <2> QED
    BY <2>1, <2>2
<1>8. CopiesTrue' /\ OriginsRead'
  BY <1>1, <1>4 DEF Inv, CopiesTrue, OriginsRead
<1>9. /\ main' \in [Server -> {"off", "wait", "drain"} \cup StartUp \cup Ended]
      /\ attempt' \in [Server -> 0..Attempts + 1]
      /\ listener' \in [Server -> {"none", "starting", "accepting", "closing", "closed"}]
      /\ timer' \in [Server -> 0..Grace] /\ lock' \in Server \cup {None}
  BY <1>1, Types
<1> QED
  BY <1>1, <1>3, <1>5, <1>6, <1>7, <1>8, <1>9, Types, InvAgain

\* The other steps of a process leave the requests and the caches alone.
LEMMA QuietInv ==
  ASSUME Inv, UNCHANGED <<origins, req, copies>>,
         \A s \in Server : Phase(s)', Recorded',
         \A s \in Server :
           listener[s] \in {"accepting", "closing", "closed"} =>
             listener'[s] \in {"accepting", "closing", "closed"},
         main' \in [Server -> {"off", "wait", "drain"} \cup StartUp \cup Ended],
         attempt' \in [Server -> 0..Attempts + 1],
         listener' \in [Server -> {"none", "starting", "accepting", "closing", "closed"}],
         timer' \in [Server -> 0..Grace],
         version' \in 0..Newest, schema' \subseteq 1..version', dirty' \in BOOLEAN,
         lock' \in Server \cup {None}
  PROVE  Inv'
<1>1. \A r \in Request : Served(r)'
  BY DEF Inv, Served
<1>2. CopiesTrue' /\ OriginsRead'
  BY DEF Inv, CopiesTrue, OriginsRead
<1> QED
  BY <1>1, <1>2, Types, InvAgain

LEMMA StartInv ==
  ASSUME Inv, NEW s \in Server, Start(s)
  PROVE  Inv'
<1>1. \A t \in Server : Phase(t)'
  BY Types DEF Inv, Start, Goto, At, database, process, Phase, Up
<1>2. Recorded'
  BY Types DEF Inv, Start, database, Recorded
<1>3. \A t \in Server : listener[t] \in {"accepting", "closing", "closed"} =>
                         listener'[t] \in {"accepting", "closing", "closed"}
  BY Types DEF Start, process
<1> QED
  BY <1>1, <1>2, <1>3, Types, QuietInv DEF Start, Goto, At, StartUp, database, process

LEMMA ConnectInv ==
  ASSUME Inv, NEW s \in Server, Connect(s)
  PROVE  Inv'
<1>1. \A t \in Server : Phase(t)'
  BY Types DEF Inv, Connect, Goto, At, database, process, Phase, Up
<1>2. Recorded'
  BY Types DEF Inv, Connect, database, Recorded
<1>3. \A t \in Server : listener[t] \in {"accepting", "closing", "closed"} =>
                         listener'[t] \in {"accepting", "closing", "closed"}
  BY Types DEF Connect, process
<1> QED
  BY <1>1, <1>2, <1>3, Types, QuietInv DEF Connect, Goto, At, StartUp, database, process

LEMMA LockMigrationsInv ==
  ASSUME Inv, NEW s \in Server, LockMigrations(s)
  PROVE  Inv'
<1>1. \A t \in Server : Phase(t)'
  BY Types DEF Inv, LockMigrations, Goto, At, database, process, Phase, Up
<1>2. Recorded'
  BY Types DEF Inv, LockMigrations, database, Recorded
<1>3. \A t \in Server : listener[t] \in {"accepting", "closing", "closed"} =>
                         listener'[t] \in {"accepting", "closing", "closed"}
  BY Types DEF LockMigrations, process
<1> QED
  BY <1>1, <1>2, <1>3, Types, QuietInv DEF LockMigrations, Goto, At, StartUp, database, process

LEMMA EndMigrationInv ==
  ASSUME Inv, NEW s \in Server, EndMigration(s)
  PROVE  Inv'
<1>1. \A t \in Server : Phase(t)'
  BY Types DEF Inv, EndMigration, Goto, At, database, process, Phase, Up
<1>2. Recorded'
  <2>1. version \in schema /\ schema = 1..version
    BY DEF Inv, EndMigration, Phase, Recorded
  <2> QED
    BY <2>1 DEF EndMigration, Recorded
<1>3. \A t \in Server : listener[t] \in {"accepting", "closing", "closed"} =>
                         listener'[t] \in {"accepting", "closing", "closed"}
  BY Types DEF EndMigration, process
<1> QED
  BY <1>1, <1>2, <1>3, Types, QuietInv DEF EndMigration, Goto, At, StartUp, database, process

LEMMA MigratedInv ==
  ASSUME Inv, NEW s \in Server, Migrated(s)
  PROVE  Inv'
<1>1. \A t \in Server : Phase(t)'
  <2>1. schema = 1..Release[s] /\ lock = s
    BY DEF Inv, Migrated, Phase, Recorded, At
  <2> QED
    BY <2>1, Types DEF Inv, Migrated, Goto, At, database, process, Phase, Up
<1>2. Recorded'
  BY Types DEF Inv, Migrated, database, Recorded
<1>3. \A t \in Server : listener[t] \in {"accepting", "closing", "closed"} =>
                         listener'[t] \in {"accepting", "closing", "closed"}
  BY Types DEF Migrated, process
<1> QED
  BY <1>1, <1>2, <1>3, Types, QuietInv DEF Migrated, Goto, At, StartUp, database, process

LEMMA NotifyInv ==
  ASSUME Inv, NEW s \in Server, Notify(s)
  PROVE  Inv'
<1>1. \A t \in Server : Phase(t)'
  BY Types DEF Inv, Notify, Goto, At, database, process, Phase, Up
<1>2. Recorded'
  BY Types DEF Inv, Notify, database, Recorded
<1>3. \A t \in Server : listener[t] \in {"accepting", "closing", "closed"} =>
                         listener'[t] \in {"accepting", "closing", "closed"}
  BY Types DEF Notify, process
<1> QED
  BY <1>1, <1>2, <1>3, Types, QuietInv DEF Notify, Goto, At, StartUp, database, process

LEMMA ServerClosedInv ==
  ASSUME Inv, NEW s \in Server, ServerClosed(s)
  PROVE  Inv'
<1>1. \A t \in Server : Phase(t)'
  BY Types DEF Inv, ServerClosed, Goto, At, database, process, Phase, Up
<1>2. Recorded'
  BY Types DEF Inv, ServerClosed, database, Recorded
<1>3. \A t \in Server : listener[t] \in {"accepting", "closing", "closed"} =>
                         listener'[t] \in {"accepting", "closing", "closed"}
  BY Types DEF ServerClosed, process
<1> QED
  BY <1>1, <1>2, <1>3, Types, QuietInv DEF ServerClosed, Goto, At, StartUp, database, process

LEMMA TickInv ==
  ASSUME Inv, NEW s \in Server, Tick(s)
  PROVE  Inv'
<1>1. \A t \in Server : Phase(t)'
  BY Types DEF Inv, Tick, Goto, At, database, process, Phase, Up
<1>2. Recorded'
  BY Types DEF Inv, Tick, database, Recorded
<1>3. \A t \in Server : listener[t] \in {"accepting", "closing", "closed"} =>
                         listener'[t] \in {"accepting", "closing", "closed"}
  BY Types DEF Tick, process
<1> QED
  BY <1>1, <1>2, <1>3, Types, QuietInv DEF Tick, Goto, At, StartUp, database, process

LEMMA BeginMigrationInv ==
  ASSUME Inv, NEW s \in Server, BeginMigration(s)
  PROVE  Inv'
<1>1. /\ schema = 1..version /\ lock = s /\ ~dirty /\ version \in Nat
      /\ \A t \in Server : main[t] \in {"plan", "body", "clean"} => t = s
  BY Types DEF Inv, BeginMigration, Phase, Recorded, At
<1>2. version' = version + 1 /\ dirty' = TRUE /\ schema' = schema
      /\ version' \notin schema /\ schema' = 1..(version' - 1) /\ schema' \subseteq 1..version'
  BY <1>1 DEF BeginMigration
<1>3. \A t \in Server : Phase(t)'
  BY <1>1, <1>2, Types DEF Inv, BeginMigration, Goto, At, Phase, Up
<1>4. Recorded'
  BY <1>1, <1>2 DEF Recorded
<1>5. version' \in 0..Newest
  BY <1>1, NewestIs, Types DEF BeginMigration
<1> QED
  BY <1>2, <1>3, <1>4, <1>5, Types, QuietInv DEF BeginMigration, Goto, At, StartUp

LEMMA RunMigrationInv ==
  ASSUME Inv, NEW s \in Server, RunMigration(s)
  PROVE  Inv'
<1>1. /\ dirty /\ version \in Nat \ {0} /\ schema = 1..(version - 1) /\ lock = s
      /\ \A t \in Server : main[t] \in {"plan", "body", "clean"} => t = s
  BY Types DEF Inv, RunMigration, Phase, Recorded, At
<1>2. schema' = schema \cup {version} /\ version' = version /\ dirty' = dirty
  BY DEF RunMigration
<1>3. schema' = 1..version /\ version \in schema' /\ schema \subseteq schema'
  BY <1>1, <1>2
<1>4. \A t \in Server : Phase(t)'
  <2>1. \A t \in Server : 1..Release[t] \subseteq schema => 1..Release[t] \subseteq schema'
    BY <1>3
  <2> QED
    BY <1>1, <1>2, <1>3, <2>1, Types DEF Inv, RunMigration, Goto, At, Phase, Up
<1>5. Recorded'
  BY <1>1, <1>2, <1>3 DEF Recorded
<1> QED
  BY <1>1, <1>2, <1>3, <1>4, <1>5, Types, QuietInv DEF RunMigration, Goto, At, StartUp

LEMMA OpenStorageInv ==
  ASSUME Inv, NEW s \in Server, OpenStorage(s)
  PROVE  Inv'
<1>1. CASE Exit(s, "fatal")
  BY <1>1, ExitInv DEF Ended
<1>2. ASSUME Goto(s, "notify"), listener' = [listener EXCEPT ![s] = "starting"],
             UNCHANGED <<attempt, timer, database, lock, origins, req, copies>>
      PROVE  Inv'
  <2>1. At(s, "storage") /\ listener[s] = "none"
    BY Types DEF Inv, OpenStorage, Phase, At, Up
  <2>2. \A t \in Server : Phase(t)'
    BY <1>2, <2>1, Types DEF Inv, Goto, At, database, Phase, Up
  <2>3. Recorded'
    BY <1>2 DEF Inv, database, Recorded
  <2>4. \A t \in Server : listener[t] \in {"accepting", "closing", "closed"} =>
                           listener'[t] \in {"accepting", "closing", "closed"}
    BY <1>2, <2>1, Types
  <2> QED
    BY <1>2, <2>2, <2>3, <2>4, Types, QuietInv DEF Goto, StartUp, database
<1> QED
  BY <1>1, <1>2 DEF OpenStorage

LEMMA ListenInv ==
  ASSUME Inv, NEW s \in Server, Listen(s)
  PROVE  Inv'
<1>1. CASE Exit(s, "fatal")
  BY <1>1, ExitInv DEF Ended
<1>2. ASSUME listener' = [listener EXCEPT ![s] = IF At(s, "drain") THEN "closed" ELSE "accepting"],
             UNCHANGED <<main, attempt, timer, database, lock, origins, req, copies>>
      PROVE  Inv'
  <2>1. listener[s] = "starting" /\ main[s] \in Up
    BY DEF Inv, Listen, Phase
  <2>2. \A t \in Server : Phase(t)'
    BY <1>2, <2>1, Types DEF Inv, At, database, Phase, Up
  <2>3. Recorded'
    BY <1>2 DEF Inv, database, Recorded
  <2>4. \A t \in Server : listener[t] \in {"accepting", "closing", "closed"} =>
                           listener'[t] \in {"accepting", "closing", "closed"}
    BY <1>2, <2>1, Types
  <2> QED
    BY <1>2, <2>2, <2>3, <2>4, Types, QuietInv DEF database
<1> QED
  BY <1>1, <1>2 DEF Listen

LEMMA SignalInv ==
  ASSUME Inv, NEW s \in Server, Signal(s)
  PROVE  Inv'
<1>1. CASE Exit(s, "terminated")
  BY <1>1, ExitInv DEF Ended
<1>2. ASSUME At(s, "wait"), Goto(s, "drain"),
             listener' = [listener EXCEPT ![s] = IF @ = "accepting" THEN "closing" ELSE @],
             UNCHANGED <<attempt, timer, database, lock, origins, req, copies>>
      PROVE  Inv'
  <2>2. \A t \in Server : Phase(t)'
    BY <1>2, Types DEF Inv, Goto, At, database, Phase, Up
  <2>3. Recorded'
    BY <1>2 DEF Inv, database, Recorded
  <2>4. \A t \in Server : listener[t] \in {"accepting", "closing", "closed"} =>
                           listener'[t] \in {"accepting", "closing", "closed"}
    BY <1>2, Types
  <2> QED
    BY <1>2, <2>2, <2>3, <2>4, Types, QuietInv DEF Goto, StartUp, database
<1> QED
  BY <1>1, <1>2 DEF Signal

-----------------------------------------------------------------------------
(* The requests *)

\* An answer that a browser of origin o gets, to a request of its own or from a cache.
Reads(o, answer) ==
  o # None =>
    (answer.headers.allow \in {Any, o}
       <=> Allows(origins, o) /\ ~\E maker \in answer.copied : ~Allows(origins, maker))

\* r changes, but no process does.
LEMMA RequestInv ==
  ASSUME Inv, NEW r \in Request, NEW a \in Answer, req' = [req EXCEPT ![r] = a],
         UNCHANGED <<process, attempt, timer, database, lock, origins>>,
         copies' \subseteq [headers: Response, origin: Origin \cup {None}], CopiesTrue',
         a.pc = "running" => a.server \in Server
                             /\ listener[a.server] \in {"accepting", "closing", "closed"},
         a.status # 0 => Reads(a.origin, a)
  PROVE  Inv'
<1>1. /\ req' \in [Request -> Answer] /\ req'[r] = a
      /\ \A q \in Request \ {r} : req'[q] = req[q]
  BY Types
<1>2. /\ main' = main /\ listener' = listener /\ schema' = schema /\ version' = version
      /\ dirty' = dirty /\ lock' = lock /\ origins' = origins
  BY DEF process, database
<1>3. \A s \in Server : Phase(s)'
  BY <1>2 DEF Inv, Phase, At
<1>4. \A q \in Request : Served(q)'
  BY <1>1, <1>2 DEF Inv, Served
<1>5. Recorded'
  BY <1>2 DEF Inv, Recorded
<1>6. OriginsRead'
  <2>1. SUFFICES ASSUME NEW q \in Request, req'[q].status # 0, req'[q].origin # None
                 PROVE  req'[q].headers.allow \in {Any, req'[q].origin}
                          <=> /\ Allows(origins, req'[q].origin)
                              /\ ~\E maker \in req'[q].copied : ~Allows(origins, maker)
    BY <1>2 DEF OriginsRead
  <2>2. CASE q = r
    BY <1>1, <2>1, <2>2 DEF Reads
  <2>3. CASE q # r
    BY <1>1, <2>1, <2>3 DEF Inv, OriginsRead
  <2> QED
    BY <2>2, <2>3
<1> QED
  BY <1>1, <1>2, <1>3, <1>4, <1>5, <1>6, Types, InvAgain

\* A server answers as CORS says, and is read accordingly.
LEMMA AnswerReads ==
  ASSUME Inv, NEW o \in Origin \cup {None}, NEW a,
         a.headers = CORS(origins, o), a.copied = {}
  PROVE  Reads(o, a)
  BY CORSReads DEF Reads

Responded(o, code, headers) ==
  [New EXCEPT !.pc = "answered", !.origin = o, !.status = code, !.headers = headers]

LEMMA RespondedIs ==
  ASSUME NEW o \in Origin \cup {None}, NEW code \in Status, NEW headers \in Response
  PROVE  LET a == Responded(o, code, headers)
         IN  /\ a \in Answer /\ a.pc = "answered" /\ a.origin = o /\ a.status = code
             /\ a.headers = headers /\ a.copied = {}
<1>1. "answered" \in Step
  BY DEF Step
<1>2. PICK a \in Answer : a = [New EXCEPT !.pc = "answered"]
  BY <1>1, Blanks, Updates, Zenon
<1>3. PICK b \in Answer : b = [a EXCEPT !.origin = o]
  BY Updates, Zenon
<1>4. PICK c \in Answer : c = [b EXCEPT !.status = code]
  BY Updates, Zenon
<1>5. Responded(o, code, headers) = [c EXCEPT !.headers = headers]
  BY <1>2, <1>3, <1>4 DEF Responded
<1>6. Responded(o, code, headers) \in Answer
  BY <1>5, Updates, Zenon
<1>7. a.pc = "answered" /\ a.copied = {}
  BY <1>2, Blanks DEF Answer
<1>8. b.pc = "answered" /\ b.copied = {} /\ b.origin = o
  BY <1>3, <1>7 DEF Answer
<1>9. c.pc = "answered" /\ c.copied = {} /\ c.origin = o /\ c.status = code
  BY <1>4, <1>8 DEF Answer
<1> QED
  BY <1>5, <1>6, <1>9 DEF Answer

Answering(o, code, headers, made) ==
  [New EXCEPT !.pc = "answered", !.origin = o, !.status = code,
              !.headers = headers, !.copied = made]

Running(s, o) == [New EXCEPT !.pc = "running", !.server = s, !.origin = o]

\* CORS answers an allowed preflight; for another one there is no route.
PreflightCode(o) == IF Allows(origins, o) THEN 204 ELSE 405

LEMMA AnsweringIs ==
  ASSUME NEW o \in Origin \cup {None}, NEW code \in Status, NEW headers \in Response,
         NEW made \in SUBSET (Origin \cup {None})
  PROVE  LET a == Answering(o, code, headers, made)
         IN  /\ a \in Answer /\ a.pc = "answered" /\ a.origin = o /\ a.status = code
             /\ a.headers = headers /\ a.copied = made
<1>1. PICK d \in Answer : d = Responded(o, code, headers)
  BY RespondedIs
<1>2. Answering(o, code, headers, made) = [d EXCEPT !.copied = made]
  BY <1>1 DEF Answering, Responded
<1>3. Answering(o, code, headers, made) \in Answer
  BY <1>2, Updates, Zenon
<1>4. d.pc = "answered" /\ d.origin = o /\ d.status = code /\ d.headers = headers
  BY <1>1, RespondedIs
<1> QED
  BY <1>2, <1>3, <1>4 DEF Answer

LEMMA RunningIs ==
  ASSUME NEW s \in Server, NEW o \in Origin \cup {None}
  PROVE  LET a == Running(s, o)
         IN  a \in Answer /\ a.pc = "running" /\ a.server = s /\ a.status = 0 /\ a.origin = o
<1>1. "running" \in Step
  BY DEF Step
<1>2. PICK a \in Answer : a = [New EXCEPT !.pc = "running"]
  BY <1>1, Blanks, Updates, Zenon
<1>3. PICK b \in Answer : b = [a EXCEPT !.server = s]
  BY Updates, Zenon
<1>4. PICK c \in Answer : c = [b EXCEPT !.origin = o]
  BY Updates, Zenon
<1>5. Running(s, o) = c
  BY <1>2, <1>3, <1>4 DEF Running
<1>7. a.pc = "running" /\ a.status = 0
  BY <1>2, Blanks DEF Answer
<1>8. b.pc = "running" /\ b.status = 0 /\ b.server = s
  BY <1>3, <1>7 DEF Answer
<1>9. c.pc = "running" /\ c.status = 0 /\ c.server = s /\ c.origin = o
  BY <1>4, <1>8 DEF Answer
<1> QED
  BY <1>5, <1>9 DEF Answer

LEMMA ArriveInv ==
  ASSUME Inv, NEW r \in Request, Arrive(r)
  PROVE  Inv'
<1>1. UNCHANGED <<process, attempt, timer, database, lock, origins, copies>>
  BY DEF Arrive
<1>2. copies' \subseteq [headers: Response, origin: Origin \cup {None}] /\ CopiesTrue'
  BY <1>1, Types DEF Inv, CopiesTrue
<1>3. PICK o \in Origin \cup {None}, preflight \in BOOLEAN :
        \/ \E s \in Server :
             /\ listener[s] = "accepting"
             /\ req' = [req EXCEPT ![r] =
                  IF preflight
                  THEN Answering(o, PreflightCode(o), CORS(origins, o), {})
                  ELSE Running(s, o)]
        \/ \E c \in copies :
             /\ ~preflight /\ (c.headers.vary => c.origin = o)
             /\ req' = [req EXCEPT ![r] = Answering(o, 200, c.headers, {c.origin})]
  BY DEF Arrive, Answering, Running, PreflightCode
<1>4. ASSUME NEW s \in Server, listener[s] = "accepting",
             req' = [req EXCEPT ![r] =
                  IF preflight
                  THEN Answering(o, PreflightCode(o), CORS(origins, o), {})
                  ELSE Running(s, o)]
      PROVE  Inv'
  <2>1. ASSUME preflight PROVE Inv'
    <3> DEFINE a == Answering(o, PreflightCode(o), CORS(origins, o), {})
    <3>1. CORS(origins, o) \in Response /\ PreflightCode(o) \in Status
      BY Types, CORSType DEF Status, PreflightCode
    <3>2. /\ a \in Answer /\ a.pc = "answered" /\ a.origin = o
          /\ a.headers = CORS(origins, o) /\ a.copied = {}
      BY <3>1, AnsweringIs
    <3>3. Reads(o, a)
      BY <3>2, AnswerReads
    <3>4. req' = [req EXCEPT ![r] = a]
      BY <1>4, <2>1
    <3> HIDE DEF a
    <3> QED
      BY <1>1, <1>2, <3>2, <3>3, <3>4, RequestInv
  <2>2. ASSUME ~preflight PROVE Inv'
    <3> DEFINE a == Running(s, o)
    <3>1. a \in Answer /\ a.pc = "running" /\ a.server = s /\ a.status = 0
      BY RunningIs
    <3>2. req' = [req EXCEPT ![r] = a]
      BY <1>4, <2>2
    <3> HIDE DEF a
    <3> QED
      BY <1>1, <1>2, <1>4, <3>1, <3>2, RequestInv
  <2> QED
    BY <2>1, <2>2
<1>5. ASSUME NEW c \in copies, c.headers.vary => c.origin = o,
             req' = [req EXCEPT ![r] = Answering(o, 200, c.headers, {c.origin})]
      PROVE  Inv'
  <2> DEFINE a == Answering(o, 200, c.headers, {c.origin})
  <2>1. c.headers \in Response /\ c.origin \in Origin \cup {None} /\ 200 \in Status
        /\ c.headers = CORS(origins, c.origin)
    BY Types DEF Inv, CopiesTrue, Status
  <2>2. /\ a \in Answer /\ a.pc = "answered" /\ a.origin = o
        /\ a.headers = c.headers /\ a.copied = {c.origin}
    BY <2>1, AnsweringIs
  <2>3. Reads(o, a)
    <3>1. SUFFICES ASSUME o # None
                   PROVE  c.headers.allow \in {Any, o}
                            <=> Allows(origins, o) /\ Allows(origins, c.origin)
      BY <2>2 DEF Reads
    <3>2. CASE c.origin = o
      BY <2>1, <3>1, <3>2, CORSReads
    <3>3. CASE ~c.headers.vary
      <4>1. \/ ~Allows(origins, c.origin) /\ c.headers.allow = None
            \/ Allows(origins, c.origin) /\ Any \in origins /\ c.headers.allow = Any
        <5>1. /\ c.headers.vary = (Allows(origins, c.origin) /\ Any \notin origins)
              /\ c.headers.allow = IF ~Allows(origins, c.origin) THEN None
                                   ELSE IF Any \in origins THEN Any ELSE c.origin
          BY <2>1 DEF CORS
        <5> QED
          BY <3>3, <5>1
      <4> QED
        BY <3>1, <4>1, ServerAssumption DEF ServerAssumption, Allows
    <3> QED
      BY <1>5, <3>2, <3>3
  <2>4. req' = [req EXCEPT ![r] = a]
    BY <1>5
  <2> HIDE DEF a
  <2> QED
    BY <1>1, <1>2, <2>2, <2>3, <2>4, RequestInv
<1> QED
  BY <1>3, <1>4, <1>5

LEMMA RespondInv ==
  ASSUME Inv, NEW r \in Request, Respond(r)
  PROVE  Inv' /\ (req[r].pc = "running" /\ req'[r].pc # "cut")
<1> DEFINE o == req[r].origin
<1>1. /\ UNCHANGED <<process, attempt, timer, database, lock, origins>>
      /\ req[r].pc = "running" /\ o \in Origin \cup {None}
  BY Types DEF Respond, Answer
<1>2. ASSUME req' = [req EXCEPT ![r] = Gone("lost")], UNCHANGED copies
      PROVE  Inv' /\ req'[r].pc # "cut"
  <2>1. Gone("lost") \in Answer /\ Gone("lost").pc = "lost" /\ Gone("lost").status = 0
    BY Blanks
  <2>2. copies' \subseteq [headers: Response, origin: Origin \cup {None}] /\ CopiesTrue'
    BY <1>1, <1>2, Types DEF Inv, CopiesTrue
  <2> QED
    BY <1>1, <1>2, <2>1, <2>2, RequestInv, Types, ZenonT(60)
<1>3. ASSUME NEW code \in {200, 404, 500},
             req' = [req EXCEPT ![r] = Responded(o, code, CORS(origins, o))],
             copies' \in {copies, copies \cup {[headers |-> CORS(origins, o), origin |-> o]}}
      PROVE  Inv' /\ req'[r].pc # "cut"
  <2> DEFINE a == Responded(o, code, CORS(origins, o))
  <2>1. CORS(origins, o) \in Response /\ code \in Status
    BY <1>1, Types, CORSType DEF Status
  <2>2. /\ a \in Answer /\ a.pc = "answered" /\ a.origin = o
        /\ a.headers = CORS(origins, o) /\ a.copied = {}
    BY <1>1, <2>1, RespondedIs
  <2>3. Reads(o, a)
    BY <1>1, <2>2, AnswerReads
  <2>4. copies' \subseteq [headers: Response, origin: Origin \cup {None}] /\ CopiesTrue'
    BY <1>1, <1>3, <2>1, Types DEF Inv, CopiesTrue
  <2> HIDE DEF a
  <2>5. req' = [req EXCEPT ![r] = a]
    BY <1>3 DEF a
  <2> QED
    <3>1. Inv'
      BY <1>1, <2>2, <2>3, <2>4, <2>5, RequestInv
    <3>2. req'[r] = a
      BY <2>5, Types
    <3> QED
      BY <2>2, <3>1, <3>2
<1> QED
  BY <1>1, <1>2, <1>3 DEF Respond, Responded

-----------------------------------------------------------------------------
\* An end of the process in a step of its own.
Ends(s) ==
  \E how \in Ended :
    /\ Exit(s, how)
    /\ \/ main[s] \notin Up \/ listener[s] = "starting" \/ how = "killed"
       \/ listener[s] = "accepting" /\ how = "fatal"
       \/ At(s, "notify") /\ how = "terminated"
       \/ At(s, "drain") /\ (timer[s] = Grace \/ \A r \in Request : ~Runs(r, s))

\* Each step is an arrival, an answer, the end of a process, or leaves the requests alone.
LEMMA Steps ==
  ASSUME Inv, Next
  PROVE  \/ \E r \in Request : Arrive(r) \/ Respond(r)
         \/ \E s \in Server : Ends(s)
         \/ (Inv' /\ req' = req)
<1>1. ASSUME NEW s \in Server,
             \/ Start(s) \/ Main(s) \/ ListenAndServe(s) \/ ListenFails(s)
             \/ Signal(s) \/ Tick(s) \/ Kill(s)
      PROVE  Ends(s) \/ (Inv' /\ req' = req)
  <2>1. CASE Start(s) \/ Tick(s) \/ Connect(s) \/ Notify(s) \/ ServerClosed(s)
    BY <2>1, StartInv, TickInv, ConnectInv, NotifyInv, ServerClosedInv
       DEF Start, Tick, Connect, Notify, ServerClosed
  <2>2. CASE LockMigrations(s) \/ BeginMigration(s) \/ RunMigration(s) \/ EndMigration(s)
               \/ Migrated(s)
    BY <2>2, LockMigrationsInv, BeginMigrationInv, RunMigrationInv, EndMigrationInv, MigratedInv
       DEF LockMigrations, BeginMigration, RunMigration, EndMigration, Migrated
  <2>3. CASE GiveUp(s) \/ MigrateFails(s)
    BY <2>3 DEF Ends, GiveUp, MigrateFails, Migrating, At, Up, Ended
  <2>4. CASE OpenStorage(s)
    BY <2>4, OpenStorageInv DEF Ends, OpenStorage, At, Up, Ended
  <2>5. CASE Listen(s)
    BY <2>5, ListenInv DEF Ends, Listen, Ended
  <2>6. CASE Signal(s)
    BY <2>6, SignalInv DEF Ends, Signal, At, Up, Ended
  <2>7. CASE Drained(s) \/ Deadline(s)
    BY <2>7 DEF Ends, Drained, Deadline, GraceOver, Ended
  <2>8. CASE Kill(s)
    BY <2>8 DEF Ends, Kill, Ended
  <2>9. CASE ListenFails(s)
    BY <2>9 DEF Ends, ListenFails, Ended
  <2> QED
    BY <1>1, <2>1, <2>2, <2>3, <2>4, <2>5, <2>6, <2>7, <2>8, <2>9 DEF Main, Migrate, ListenAndServe
<1> QED
  BY <1>1 DEF Next

LEMMA NextInv == Inv /\ [Next]_vars => Inv'
<1> SUFFICES ASSUME Inv, [Next]_vars PROVE Inv'
  OBVIOUS
<1>1. CASE Next
  BY <1>1, Steps, ArriveInv, RespondInv, ExitInv DEF Ends
<1>2. CASE UNCHANGED vars
  BY <1>2, Types, InvAgain DEF vars, Inv, Phase, Served, Recorded, CopiesTrue, OriginsRead, At
<1> QED
  BY <1>1, <1>2

LEMMA Drains ==
  ASSUME Inv, [Next]_vars, NEW r \in Request, req[r].pc = "running", req'[r].pc = "cut"
  PROVE  LET s == req[r].server
         IN  \/ main'[s] = "killed"
             \/ listener[s] = "accepting" /\ main'[s] = "fatal"
             \/ At(s, "drain") /\ timer[s] = Grace
             \/ At(s, "notify") /\ main'[s] = "terminated"
<1>1. Next
  BY DEF vars
<1>2. ASSUME NEW q \in Request, Arrive(q) \/ Respond(q) PROVE FALSE
  <2>1. CASE q = r
    BY <1>2, <2>1, RespondInv DEF Arrive
  <2>2. CASE q # r
    <3>1. ASSUME NEW x, req' = [req EXCEPT ![q] = x] PROVE FALSE
      BY <2>2, <3>1, Types
    <3>2. CASE Arrive(q)
      BY <3>1, <3>2 DEF Arrive
    <3>3. CASE Respond(q)
      BY <3>1, <3>3 DEF Respond
    <3> QED
      BY <1>2, <3>2, <3>3
  <2> QED
    BY <2>1, <2>2
<1>3. PICK s \in Server : Ends(s)
  BY <1>1, <1>2, Steps
<1>4. PICK how \in Ended :
        /\ Exit(s, how)
        /\ \/ main[s] \notin Up \/ listener[s] = "starting" \/ how = "killed"
           \/ listener[s] = "accepting" /\ how = "fatal"
           \/ At(s, "notify") /\ how = "terminated"
           \/ At(s, "drain") /\ (timer[s] = Grace \/ \A q \in Request : ~Runs(q, s))
  BY <1>3 DEF Ends
<1>5. req[r].server = s /\ Runs(r, s)
  BY <1>4 DEF Exit, Runs
<1>6. listener[s] \in {"accepting", "closing", "closed"} /\ main[s] \in Up
  BY <1>5 DEF Inv, Served, Phase
<1>7. main'[s] = how
  BY <1>4, Types DEF Exit, Goto
<1> QED
  BY <1>4, <1>5, <1>6, <1>7

-----------------------------------------------------------------------------
(* The properties *)

\* The invariant holds of every state, however many processes share the database.
THEOREM Invariant == Spec => []Inv
  BY InitInv, NextInv, PTL DEF Spec

\* Processes, the database, requests and copies keep their types.
THEOREM TypeCorrect == Spec => []TypeOK
<1>1. Inv => TypeOK
  BY DEF Inv
<1> QED
  BY <1>1, Invariant, PTL

\* Whoever accepts requests finds the migrations of its release done, and schema_migrations
\* does not claim more than was committed, whoever died at them (main.go:41-43).
THEOREM Migrations == Spec => []ServesMigrated
<1>1. Inv => ServesMigrated
  <2>1. SUFFICES ASSUME Inv PROVE ServesMigrated
    OBVIOUS
  <2>2. \A s \in Server : listener[s] = "accepting" => 1..Release[s] \subseteq schema
    BY <2>1 DEF Inv, Phase
  <2> QED
    BY <2>1, <2>2 DEF Inv, Recorded, ServesMigrated
<1> QED
  BY <1>1, Invariant, PTL

\* What browsers may read of answers, their caches in between (cors.go:20-26).
THEOREM Origins == Spec => []OriginsRead
<1>1. Inv => OriginsRead
  BY DEF Inv
<1> QED
  BY <1>1, Invariant, PTL

\* Shutdown waits for the requests; only a crash, its deadline, a listener that fails and the
\* signal that comes before Notify cut one off (main.go:142-157).
THEOREM Draining == Spec => DrainsRequests
<1>1. Inv /\ [Next]_vars =>
        [\A r \in Request :
           req[r].pc = "running" /\ req'[r].pc = "cut" =>
             LET s == req[r].server
             IN  \/ main'[s] = "killed"
                 \/ listener[s] = "accepting" /\ main'[s] = "fatal"
                 \/ At(s, "drain") /\ timer[s] = Grace
                 \/ At(s, "notify") /\ main'[s] = "terminated"]_vars
  BY Drains
<1> QED
  BY <1>1, Invariant, PTL DEF Spec, DrainsRequests
=============================================================================
