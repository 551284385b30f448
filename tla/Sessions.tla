------------------------------ MODULE Sessions ------------------------------
(***************************************************************************)
(* Who is signed in: Google and Apple vouch for an identity (auth.go), the  *)
(* server issues a pair of signed tokens, and the middleware lets a request *)
(* by with one (middleware/auth.go).  The server keeps nothing of a session *)
(* but its secret; what it does keep in memory is a copy of Apple's public   *)
(* keys, behind one mutex.  A restart drops that copy and may bring other    *)
(* settings; the tokens live on with the clients.                           *)
(*                                                                         *)
(* Time passes in ticks.  Apple's keys are numbered as they are published.   *)
(* What findOrCreateUser does is Accounts; here it fails or it does not.     *)
(***************************************************************************)
EXTENDS Integers, FiniteSets

CONSTANTS
  Request,    \* the HTTP requests and runs of devtoken; at most one arrival each
  User,       \* identities
  Secret,     \* JWT secrets
  DefaultJWTSecret, \* the one main refuses in production
  DevRuns,    \* what devtoken is run with in this instance: -secret and -ttl
  Hour, Quarter, Month,  \* an hour, 15 minutes and 720 hours, in ticks
  Malformed,  \* a duration text that time.ParseDuration does not take
  Unset,      \* an environment variable that is not set
  Envs,       \* the environments the server may be started in
  AppleTokens, \* the tokens of Apple's that clients may send in this instance
  FetchTime,  \* bound: an exchange with Apple that brings keys takes at most so many ticks
  MaxTime,    \* bound on the clock
  MaxKid,     \* bound on Apple's keys
  MaxRestart, \* bound on restarts
  None

Kid == 1..MaxKid
Time == 0..MaxTime
Never == MaxTime + 1
Audience == {"ours", "other"}

\* A duration may be of any length, and negative.
Env == [JWT_SECRET: Secret \cup {Unset}, production: BOOLEAN, APPLE_CLIENT_ID: {"ours", Unset},
        JWT_ACCESS_TTL: Int \cup {Malformed, Unset},
        JWT_REFRESH_TTL: Int \cup {Malformed, Unset}]

DevRun == [secret: Secret, ttl: Int]

\* What Apple signs: for whom, by which key; whether all else about it is in order.
AppleToken == [user: User, kid: Kid, aud: Audience, good: BOOLEAN]

ASSUME SessionsAssumption ==
  /\ {Hour, Quarter, Month, FetchTime, MaxTime, MaxKid, MaxRestart} \subseteq Nat
  /\ Hour > 0 /\ Quarter <= Month
  /\ DefaultJWTSecret \in Secret
  /\ Envs \subseteq Env /\ DevRuns \subseteq DevRun /\ AppleTokens \subseteq AppleToken
  /\ None \notin Request \cup User \cup Nat /\ Unset \notin Secret \cup Int \cup {"ours"}
  /\ Malformed \notin Int \cup {Unset}

Token == [user: User, type: {"access", "refresh"}, iat: Nat, exp: Int, secret: Secret]
Config == [secret: Secret, access: Int, refresh: Int, clientID: {"ours", Unset}]

-----------------------------------------------------------------------------
(* config.Load *)

envOr(text, fallback) == IF text = Unset THEN fallback ELSE text

\* Mutant of parseDuration: it falls back on the longer of the defaults.
parseDurationLong(text) == IF text = Malformed THEN Month ELSE text

parseDuration(text) == IF text = Malformed THEN Quarter ELSE text

Load(env) ==
  [secret |-> envOr(env.JWT_SECRET, DefaultJWTSecret),
   access |-> parseDuration(envOr(env.JWT_ACCESS_TTL, Quarter)),
   refresh |-> parseDuration(envOr(env.JWT_REFRESH_TTL, Month)),
   clientID |-> env.APPLE_CLIENT_ID]

\* main gives up with the default secret in production.
Starts(env) == ~(env.production /\ Load(env).secret = DefaultJWTSecret)

-----------------------------------------------------------------------------
VARIABLES
  now,       \* the time
  since,     \* per key of Apple's: when it was published
  till,      \* per key of Apple's: when it was withdrawn
  keys,      \* appleKeys and appleKeysTime
  mutex,     \* who holds appleKeysMu
  cfg,       \* the settings of the running server
  tokens,    \* the tokens clients hold
  req,       \* per request: the label of its next step and its locals
  restarts   \* how often the server was started again

apple == <<since, till>>
vars == <<now, since, till, keys, mutex, cfg, tokens, req, restarts>>

Published == {k \in Kid : since[k] <= now /\ now < till[k]}

Idle == [pc |-> "idle", call |-> None, status |-> 0,
         asked |-> None,   \* when its own fetch began
         keys |-> {},      \* Apple's keys as fetchAppleKeys returned them
         at |-> 0]         \* and when it did

NoKeys == [list |-> {}, time |-> -Hour]

Init ==
  /\ now = 0
  /\ since = [k \in Kid |-> IF k = 1 THEN 0 ELSE Never]
  /\ till = [k \in Kid |-> Never]
  /\ keys = NoKeys
  /\ mutex = None
  /\ \E env \in Envs : Starts(env) /\ cfg = Load(env)
  /\ tokens = {}
  /\ req = [p \in Request |-> Idle]
  /\ restarts = 0

At(p, label) == req[p].pc = label
Op(p) == req[p].call.op
Goto(p, label) == req' = [req EXCEPT ![p].pc = label]
Done(code) == [Idle EXCEPT !.pc = "done", !.status = code]
Answer(p, code) == req' = [req EXCEPT ![p] = Done(code)]

\* Mutants of Fresh: an empty list is kept for the hour as well; the copy never grows old.
FreshEvenEmpty == now - keys.time < Hour
FreshForEver == keys.list # {}

Fresh == now - keys.time < Hour /\ keys.list # {}

-----------------------------------------------------------------------------
(* Issue and validate *)

Signed(u, type, ttl, secret) ==
  [user |-> u, type |-> type, iat |-> now, exp |-> now + ttl, secret |-> secret]

Issue(u, access, refresh, secret) ==
  {Signed(u, "access", access, secret), Signed(u, "refresh", refresh, secret)}

IssueTokens(u) == Issue(u, cfg.access, cfg.refresh, cfg.secret)

\* Mutant of Validates: the claim "type" is not looked at.
ValidatesAnyType(token, type) == token.secret = cfg.secret /\ now < token.exp

Validates(token, type) ==
  token.secret = cfg.secret /\ now < token.exp /\ token.type = type

-----------------------------------------------------------------------------
(* Arrival *)

\* Apple may have signed at any time up to now; clients send tokens they hold.
AppleSignIns == [op: {"Apple"}, token: {t \in AppleTokens : since[t.kid] <= now}]
GoogleSignIns == [op: {"Google"}, user: User, good: BOOLEAN]
Uses == [op: {"Refresh", "Verify"}, token: tokens]

Entry(c) == CASE c.op = "Apple" -> "lock"
              [] c.op = "Google" -> "google"
              [] OTHER -> "validate"

Receive(p) ==
  /\ At(p, "idle")
  /\ \E c \in AppleSignIns \cup GoogleSignIns \cup Uses :
       req' = [req EXCEPT ![p] = [Idle EXCEPT !.pc = Entry(c), !.call = c]]
  /\ UNCHANGED <<now, apple, keys, mutex, cfg, tokens, restarts>>

-----------------------------------------------------------------------------
(* fetchAppleKeys *)

\* Mutant of Lock: the mutex is released before the request to Apple goes out.
LockReleased(p) ==
  /\ At(p, "lock")
  /\ mutex = None
  /\ req' = IF Fresh THEN [req EXCEPT ![p].pc = "check", ![p].keys = keys.list, ![p].at = now]
            ELSE [req EXCEPT ![p].pc = "fetch", ![p].asked = now]
  /\ UNCHANGED <<now, apple, keys, mutex, cfg, tokens, restarts>>

\* Lock, and the copy if it is good: else the request to Apple goes out under the lock.
Lock(p) ==
  /\ At(p, "lock")
  /\ mutex = None
  /\ IF Fresh
     THEN /\ req' = [req EXCEPT ![p].pc = "check", ![p].keys = keys.list, ![p].at = now]
          /\ UNCHANGED mutex
     ELSE /\ req' = [req EXCEPT ![p].pc = "fetch", ![p].asked = now]
          /\ mutex' = p
  /\ UNCHANGED <<now, apple, keys, cfg, tokens, restarts>>

\* Apple's answer leaves Apple: its keys as of now, or an error page.
AppleAnswers(p) ==
  /\ At(p, "fetch")
  /\ \E list \in {Published, {}} :
       req' = [req EXCEPT ![p].pc = "store", ![p].keys = list]
  /\ UNCHANGED <<now, apple, keys, mutex, cfg, tokens, restarts>>

\* The status is not looked at: an error page that is JSON decodes to no keys.
StoreKeys(p) ==
  /\ At(p, "store")
  /\ now <= req[p].asked + FetchTime
  /\ keys' = [list |-> req[p].keys, time |-> now]
  /\ mutex' = None
  /\ req' = [req EXCEPT ![p].pc = "check", ![p].at = now]
  /\ UNCHANGED <<now, apple, cfg, tokens, restarts>>

\* Mutant of FetchFails: an early return that forgets to unlock.
FetchFailsLocked(p) ==
  /\ At(p, "fetch") \/ At(p, "store")
  /\ Answer(p, 401)
  /\ UNCHANGED <<now, apple, keys, mutex, cfg, tokens, restarts>>

\* No answer, one that is no JSON, or the client has gone; the copy stays as it is.
FetchFails(p) ==
  /\ At(p, "fetch") \/ At(p, "store")
  /\ mutex' = None
  /\ Answer(p, 401)
  /\ UNCHANGED <<now, apple, keys, cfg, tokens, restarts>>

-----------------------------------------------------------------------------
(* The sign-ins *)

\* verifyAppleIDToken: the key by its id, then signature, times, issuer and audience.
CheckApple(p) ==
  LET token == req[p].call.token
      audience == cfg.clientID # Unset => token.aud = cfg.clientID
      ok == token.kid \in req[p].keys /\ token.good /\ audience
  IN  /\ At(p, "check")
      /\ IF ok THEN Goto(p, "user") ELSE Answer(p, 401)
      /\ UNCHANGED <<now, apple, keys, mutex, cfg, tokens, restarts>>

\* verifyGoogleIDToken asks Google about every token; the call may fail.
AskGoogle(p) ==
  /\ At(p, "google")
  /\ \/ req[p].call.good /\ Goto(p, "user")
     \/ Answer(p, 401)
  /\ UNCHANGED <<now, apple, keys, mutex, cfg, tokens, restarts>>

Subject(p) == IF Op(p) = "Google" THEN req[p].call.user ELSE req[p].call.token.user

\* findOrCreateUser, then issueTokens.
SignIn(p) ==
  /\ At(p, "user")
  /\ \/ Answer(p, 200) /\ tokens' = tokens \cup IssueTokens(Subject(p))
     \/ Answer(p, 500) /\ UNCHANGED tokens
  /\ UNCHANGED <<now, apple, keys, mutex, cfg, restarts>>

-----------------------------------------------------------------------------
(* The use of tokens *)

\* Refresh issues another pair; the old one stays as good as it was.
Refresh(p) ==
  /\ At(p, "validate") /\ Op(p) = "Refresh"
  /\ IF Validates(req[p].call.token, "refresh")
     THEN Answer(p, 200) /\ tokens' = tokens \cup IssueTokens(Subject(p))
     ELSE Answer(p, 401) /\ UNCHANGED tokens
  /\ UNCHANGED <<now, apple, keys, mutex, cfg, restarts>>

\* Verify hands the request on to its handler, as the user of the token.
Verify(p) ==
  /\ At(p, "validate") /\ Op(p) = "Verify"
  /\ Answer(p, IF Validates(req[p].call.token, "access") THEN 200 ELSE 401)
  /\ UNCHANGED <<now, apple, keys, mutex, cfg, tokens, restarts>>

\* devtoken prints the access token of a pair that it signs with the secret, and for the time,
\* that it is told.
DevToken(p) ==
  /\ At(p, "idle")
  /\ \E u \in User, run \in DevRuns :
       tokens' = tokens \cup {t \in Issue(u, run.ttl, run.ttl, run.secret) : t.type = "access"}
  /\ Answer(p, 0)
  /\ UNCHANGED <<now, apple, keys, mutex, cfg, restarts>>

-----------------------------------------------------------------------------
(* The world around *)

\* Apple publishes its next key and withdraws none or all of the others.
Rotate ==
  /\ \E k \in Kid : /\ since[k] = Never /\ (k > 1 => since[k - 1] <= now)
                    /\ since' = [since EXCEPT ![k] = now]
                    /\ \/ till' = till
                       \/ till' = [i \in Kid |-> IF i \in Published THEN now ELSE till[i]]
  /\ UNCHANGED <<now, keys, mutex, cfg, tokens, req, restarts>>

Tick ==
  /\ now < MaxTime
  /\ now' = now + 1
  /\ UNCHANGED <<apple, keys, mutex, cfg, tokens, req, restarts>>

\* The server dies and is started again: what ran is cut off, what was in memory is gone.
Restart ==
  /\ restarts < MaxRestart
  /\ restarts' = restarts + 1
  /\ \E env \in Envs : Starts(env) /\ cfg' = Load(env)
  /\ keys' = NoKeys /\ mutex' = None
  /\ req' = [p \in Request |-> IF At(p, "idle") \/ At(p, "done") THEN req[p] ELSE Done(0)]
  /\ UNCHANGED <<now, apple, tokens>>

-----------------------------------------------------------------------------
FetchAppleKeys(p) == Lock(p) \/ AppleAnswers(p) \/ StoreKeys(p) \/ FetchFails(p)
Handle(p) == CheckApple(p) \/ SignIn(p) \/ Refresh(p) \/ Verify(p)

Next ==
  \/ \E p \in Request :
       Receive(p) \/ FetchAppleKeys(p) \/ AskGoogle(p) \/ Handle(p) \/ DevToken(p)
  \/ Rotate \/ Tick \/ Restart

Spec == Init /\ [][Next]_vars

\* A handler goes on when it can, and a free mutex is given to who waits for it.  Nothing says
\* that an exchange with Apple or Google ends: http.DefaultClient sets no time limit.
FairSpec == Spec /\ \A p \in Request : WF_vars(Lock(p)) /\ WF_vars(Handle(p))
-----------------------------------------------------------------------------
Label == {"idle", "lock", "fetch", "store", "check", "google", "user", "validate", "done"}

TypeOK ==
  /\ now \in Time
  /\ since \in [Kid -> Time \cup {Never}] /\ till \in [Kid -> Time \cup {Never}]
  /\ keys \in [list: SUBSET Kid, time: Time \cup {-Hour}]
  /\ mutex \in Request \cup {None}
  /\ cfg \in Config
  /\ tokens \subseteq Token
  /\ \A p \in Request :
       /\ req[p].pc \in Label /\ req[p].status \in {0, 200, 401, 500}
       /\ req[p].asked \in Time \cup {None} /\ req[p].keys \subseteq Kid /\ req[p].at \in Time
       /\ At(p, "store") => mutex = p
  /\ restarts \in 0..MaxRestart

-----------------------------------------------------------------------------
(* Safety *)

\* Whoever gets past verifyAppleIDToken has a token in order, by a key that Apple has not
\* withdrawn for longer than the hour and the time an exchange takes, whoever fetched the
\* keys (auth.go:161, 176-218).
SignInsAreVouched ==
  \A p \in Request : At(p, "user") /\ Op(p) = "Apple" =>
    /\ req[p].call.token.good
    /\ req[p].at < till[req[p].call.token.kid] + Hour + FetchTime

\* A token in order is turned away only for a key that is new within the hour, or that Apple
\* has withdrawn, or because the request's own exchange brought an error page: one that
\* another request got is not kept (auth.go:161, 173-200).
RejectedKeysAreNewOrOld ==
  [][\A p \in Request :
       At(p, "check") /\ req'[p].status = 401 =>
         LET token == req[p].call.token
         IN  \/ ~token.good \/ token.aud # "ours"
             \/ req[p].asked # None /\ req[p].keys = {}
             \/ req[p].at < since[token.kid] + Hour + FetchTime
             \/ till[token.kid] <= req[p].at]_vars

\* How long a token that was signed with this secret may live at most, as configured: what a
\* server with that secret was told, or the default of that kind of token when it was told
\* nothing it understands; what devtoken was told for an access token.
MayLive(kind, secret) ==
  {IF kind = "access" THEN (IF env.JWT_ACCESS_TTL \in Int THEN env.JWT_ACCESS_TTL ELSE Quarter)
   ELSE (IF env.JWT_REFRESH_TTL \in Int THEN env.JWT_REFRESH_TTL ELSE Month) :
     env \in {e \in Envs : envOr(e.JWT_SECRET, DefaultJWTSecret) = secret}}
  \cup (IF kind = "access" THEN {run.ttl : run \in {r \in DevRuns : r.secret = secret}} ELSE {})

\* Nobody is let by who has not signed in or refreshed, or was not given a token by devtoken,
\* within a configured lifetime of an access token, nor can refresh after that of a refresh
\* token, whatever restarts, other settings and durations that do not parse come between: an
\* old refresh token is no access token (middleware/auth.go:67-93, config.go:79-85).
QuietSessionsEnd ==
  [][\A p \in Request :
       At(p, "validate") /\ req'[p].status = 200 =>
         LET kind == IF Op(p) = "Verify" THEN "access" ELSE "refresh"
         IN  \E t \in tokens :
               /\ t.user = Subject(p) /\ t.secret = cfg.secret
               /\ \E n \in MayLive(kind, t.secret) : now < t.iat + n]_vars

-----------------------------------------------------------------------------
(* Liveness *)

Fetching(p) == At(p, "fetch") \/ At(p, "store")

\* In an exchange of its own, or waiting for the mutex while another is in one: the mutex is
\* held over the exchange, and Lock does not look at the request's context.
Hangs(p) == At(p, "google") \/ Fetching(p) \/ (At(p, "lock") /\ \E q \in Request : Fetching(q))

\* Every request is answered but for one whose exchange with Google or Apple never ends, and
\* sign-ins with Apple behind one of the latter (auth.go:158-166).  However an exchange does
\* end, the mutex is released; and no hanging sign-in holds up refreshes, other requests or
\* sign-ins with Google.  Each request arrives at most once.
Answered ==
  \A p \in Request : []<>(At(p, "idle") \/ At(p, "done")) \/ <>[]Hangs(p)
=============================================================================
