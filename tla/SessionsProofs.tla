--------------------------- MODULE SessionsProofs ---------------------------
(***************************************************************************)
(* The invariant of Sessions: a list of Apple's keys is as old as the mutex, *)
(* the hour and an exchange with Apple allow, wherever a request has it      *)
(* from; and a token lives no longer than was configured for its secret.       *)
(***************************************************************************)
EXTENDS Sessions, TLAPS

\* A list of Apple's keys as it was no earlier than `from' and no later than `to'.
ListOf(list, from, to) ==
  /\ \A k \in list : from <= till[k]
  /\ \A k \in Kid \ list : list # {} => from <= since[k] \/ till[k] <= to

KeysOK ==
  keys.list # {} => keys.time \in 0..now /\ ListOf(keys.list, keys.time - FetchTime, keys.time)

\* Apple does not publish or withdraw in advance.
AppleOK ==
  \A k \in Kid : /\ since[k] = Never \/ since[k] <= now
                 /\ till[k] = Never \/ till[k] <= now

AppleCall == [op: {"Apple"}, token: AppleToken]
Called == AppleCall \cup GoogleSignIns \cup [op: {"Refresh", "Verify"}, token: Token]

Locals ==
  [pc: Label, call: Called \cup {None}, status: {0, 200, 401, 500}, asked: Time \cup {None},
   keys: SUBSET Kid, at: Time]

\* The exchange of p with Apple is under way, or its list is at hand.
ListOK(p) ==
  /\ Fetching(p) => /\ mutex = p /\ req[p].asked \in Time
                    /\ req[p].asked <= now
  /\ At(p, "store") => ListOf(req[p].keys, req[p].asked, now)
  /\ At(p, "check") =>
       /\ req[p].keys = {} => req[p].asked # None
       /\ req[p].at <= now
       /\ \A k \in req[p].keys : req[p].at < till[k] + Hour + FetchTime
       /\ \A k \in Kid \ req[p].keys :
            req[p].keys # {} =>
              req[p].at < since[k] + Hour + FetchTime \/ till[k] <= req[p].at
  /\ At(p, "user") /\ Op(p) = "Apple" =>
       /\ req[p].at <= now /\ req[p].call.token.good
       /\ req[p].at < till[req[p].call.token.kid] + Hour + FetchTime

CallOK(p) ==
  /\ ~At(p, "done") => req[p].status = 0
  /\ req[p].pc \in {"lock", "fetch", "store", "check"} => req[p].call \in AppleCall
  /\ At(p, "google") => req[p].call \in GoogleSignIns
  /\ At(p, "user") => req[p].call \in AppleCall \cup GoogleSignIns
  /\ At(p, "validate") => Op(p) \in {"Refresh", "Verify"} /\ req[p].call.token \in tokens

\* Nothing lives longer than a server with its secret, or devtoken, was told.
InLife(t) == \E n \in MayLive(t.type, t.secret) : t.exp <= t.iat + n
Mortal == \A t \in tokens : InLife(t)

Inv ==
  /\ TypeOK /\ req \in [Request -> Locals]
  /\ \E env \in Envs : cfg = Load(env)
  /\ AppleOK /\ KeysOK /\ Mortal
  /\ \A p \in Request : CallOK(p) /\ ListOK(p)

-----------------------------------------------------------------------------
(* Lifetimes *)

LEMMA Numbers ==
  /\ Hour \in Nat \ {0} /\ Quarter \in Nat /\ Month \in Nat /\ FetchTime \in Nat
  /\ Quarter <= Month
  /\ MaxTime \in Nat /\ MaxKid \in Nat /\ MaxRestart \in Nat
  /\ None \notin Nat /\ None \notin Request
  BY SessionsAssumption DEF SessionsAssumption

LEMMA Loaded ==
  ASSUME NEW env \in Envs
  PROVE  /\ Load(env) \in Config
         /\ Load(env).secret = envOr(env.JWT_SECRET, DefaultJWTSecret)
         /\ Load(env).access =
              IF env.JWT_ACCESS_TTL \in Int THEN env.JWT_ACCESS_TTL ELSE Quarter
         /\ Load(env).refresh \in
              {IF env.JWT_REFRESH_TTL \in Int THEN env.JWT_REFRESH_TTL ELSE Month, Quarter}
         /\ env.JWT_REFRESH_TTL \in Int => Load(env).refresh = env.JWT_REFRESH_TTL
<1>1. env \in Env
  BY SessionsAssumption DEF SessionsAssumption
<1>2. /\ env.JWT_SECRET \in Secret \cup {Unset} /\ env.APPLE_CLIENT_ID \in {"ours", Unset}
      /\ env.JWT_ACCESS_TTL \in Int \cup {Malformed, Unset}
      /\ env.JWT_REFRESH_TTL \in Int \cup {Malformed, Unset}
  BY <1>1 DEF Env
<1>3. ASSUME NEW text \in Int \cup {Malformed, Unset}, NEW fallback \in {Quarter, Month}
      PROVE  /\ parseDuration(envOr(text, fallback)) \in Int
             /\ text \in Int => parseDuration(envOr(text, fallback)) = text
             /\ text \notin Int => parseDuration(envOr(text, fallback)) \in {fallback, Quarter}
  <2>1. Malformed \notin Int /\ Unset \notin Int /\ Malformed # Unset
    BY SessionsAssumption DEF SessionsAssumption
  <2>2. Quarter \in Int /\ fallback \in Int
    BY Numbers
  <2>3. CASE text \in Int
    BY <2>1, <2>3 DEF parseDuration, envOr
  <2>4. CASE text = Malformed
    BY <2>1, <2>2, <2>4 DEF parseDuration, envOr
  <2>5. CASE text = Unset
    BY <2>1, <2>2, <2>5 DEF parseDuration, envOr
  <2> QED
    BY <2>3, <2>4, <2>5
<1>4. envOr(env.JWT_SECRET, DefaultJWTSecret) \in Secret
  BY <1>2, SessionsAssumption DEF SessionsAssumption, envOr
<1> DEFINE secret == envOr(env.JWT_SECRET, DefaultJWTSecret)
           access == parseDuration(envOr(env.JWT_ACCESS_TTL, Quarter))
           refresh == parseDuration(envOr(env.JWT_REFRESH_TTL, Month))
           clientID == env.APPLE_CLIENT_ID
<1>5. /\ access \in Int
      /\ access = IF env.JWT_ACCESS_TTL \in Int THEN env.JWT_ACCESS_TTL ELSE Quarter
  BY <1>2, <1>3
<1>6. /\ refresh \in Int /\ (env.JWT_REFRESH_TTL \in Int => refresh = env.JWT_REFRESH_TTL)
      /\ refresh \in {IF env.JWT_REFRESH_TTL \in Int THEN env.JWT_REFRESH_TTL ELSE Month, Quarter}
  BY <1>2, <1>3
<1>7. Load(env) = [secret |-> secret, access |-> access, refresh |-> refresh,
                   clientID |-> clientID]
  BY DEF Load
<1>8. Load(env) \in Config
  <2>1. secret \in Secret /\ access \in Int /\ refresh \in Int /\ clientID \in {"ours", Unset}
    BY <1>2, <1>4, <1>5, <1>6
  <2> HIDE DEF secret, access, refresh, clientID
  <2> QED
    BY <1>7, <2>1 DEF Config
<1>9. Load(env).secret = secret /\ Load(env).access = access /\ Load(env).refresh = refresh
  <2> HIDE DEF secret, access, refresh, clientID
  <2> QED
    BY <1>7
<1> HIDE DEF access, refresh
<1> QED
  BY <1>5, <1>6, <1>8, <1>9

\* What Load makes of an environment is no longer than what was asked for in it.
LEMMA LoadedLives ==
  ASSUME NEW env \in Envs
  PROVE  /\ \E n \in MayLive("access", Load(env).secret) : n \in Int /\ Load(env).access <= n
         /\ \E n \in MayLive("refresh", Load(env).secret) : n \in Int /\ Load(env).refresh <= n
<1> DEFINE secret == Load(env).secret
           access == IF env.JWT_ACCESS_TTL \in Int THEN env.JWT_ACCESS_TTL ELSE Quarter
           refresh == IF env.JWT_REFRESH_TTL \in Int THEN env.JWT_REFRESH_TTL ELSE Month
<1>1. env \in {e \in Envs : envOr(e.JWT_SECRET, DefaultJWTSecret) = secret}
  BY Loaded
<1>2. access \in MayLive("access", secret) /\ refresh \in MayLive("refresh", secret)
  BY <1>1 DEF MayLive
<1>3. access \in Int /\ Load(env).access <= access
  BY Loaded, Numbers
<1>4. refresh \in Int /\ Load(env).refresh <= refresh
  BY Loaded, Numbers
<1> QED
  BY <1>2, <1>3, <1>4

LEMMA LivesAreInt ==
  ASSUME NEW kind, NEW secret
  PROVE  MayLive(kind, secret) \subseteq Int
<1>1. \A run \in DevRuns : run.ttl \in Int
  BY SessionsAssumption DEF SessionsAssumption, DevRun
<1> QED
  BY <1>1, Numbers DEF MayLive

LEMMA InitInv == Init => Inv
<1> SUFFICES ASSUME Init PROVE Inv
  OBVIOUS
<1>1. Never \in Nat /\ Never # 0 /\ 0 \in Time
  BY Numbers DEF Never, Time
<1>2. \A p \in Request : req[p] = Idle
  BY DEF Init
<1>3. req \in [Request -> Locals]
  BY <1>1 DEF Init, Locals, Idle, Label
<1>4. cfg \in Config /\ \E env \in Envs : cfg = Load(env)
  BY Loaded DEF Init
<1>5. TypeOK
  <2>1. /\ since \in [Kid -> Time \cup {Never}] /\ till \in [Kid -> Time \cup {Never}]
        /\ keys \in [list: SUBSET Kid, time: Time \cup {-Hour}]
        /\ now \in Time /\ mutex \in Request \cup {None} /\ tokens \subseteq Token
        /\ restarts \in 0..MaxRestart
    BY <1>1, Numbers DEF Init, NoKeys
  <2>2. \A p \in Request :
          /\ req[p].pc \in Label /\ req[p].status \in {0, 200, 401, 500}
          /\ req[p].asked \in Time \cup {None} /\ req[p].keys \subseteq Kid /\ req[p].at \in Time
          /\ ~At(p, "store")
    BY <1>1, <1>2 DEF Idle, Label, At
  <2> QED
    BY <1>4, <2>1, <2>2 DEF TypeOK
<1>6. AppleOK
  BY <1>1 DEF Init, AppleOK, Never
<1>7. KeysOK /\ Mortal
  BY DEF Init, KeysOK, NoKeys, Mortal
<1>8. \A p \in Request : CallOK(p) /\ ListOK(p)
  BY <1>2 DEF CallOK, ListOK, Fetching, At, Idle
<1> QED
  BY <1>3, <1>4, <1>5, <1>6, <1>7, <1>8 DEF Inv

-----------------------------------------------------------------------------
(* The steps of a request *)

LEMMA Types ==
  ASSUME Inv
  PROVE  /\ now \in Time /\ now \in Nat /\ Never \in Nat /\ now < Never
         /\ since \in [Kid -> Time \cup {Never}] /\ till \in [Kid -> Time \cup {Never}]
         /\ \A k \in Kid : since[k] \in Nat /\ till[k] \in Nat
         /\ \A k \in Kid : /\ since[k] = Never \/ since[k] <= now
                           /\ till[k] = Never \/ till[k] <= now
         /\ keys \in [list: SUBSET Kid, time: Time \cup {-Hour}]
         /\ keys.list \subseteq Kid /\ keys.time \in Int
         /\ mutex \in Request \cup {None} /\ cfg \in Config /\ tokens \subseteq Token
         /\ restarts \in 0..MaxRestart /\ req \in [Request -> Locals]
<1>1. TypeOK /\ req \in [Request -> Locals] /\ AppleOK
  BY DEF Inv
<1>2. Never \in Nat /\ now < Never /\ Time \subseteq Nat
  BY <1>1, Numbers DEF Never, TypeOK, Time
<1>3. \A k \in Kid : since[k] \in Nat /\ till[k] \in Nat
  <2>1. since \in [Kid -> Time \cup {Never}] /\ till \in [Kid -> Time \cup {Never}]
    BY <1>1 DEF TypeOK
  <2> QED
    BY <1>2, <2>1
<1>4. keys.list \subseteq Kid /\ keys.time \in Int
  <2>1. keys.list \subseteq Kid /\ keys.time \in Time \cup {-Hour}
    BY <1>1 DEF TypeOK
  <2> QED
    BY <1>2, <2>1, Numbers
<1>5. now \in Time /\ now \in Nat
  BY <1>1, <1>2 DEF TypeOK
<1> QED
  BY <1>1, <1>2, <1>3, <1>4, <1>5 DEF TypeOK, AppleOK

\* p goes to l; the clock, Apple and the settings stay.
Moved(p, l) ==
  /\ req' \in [Request -> Locals] /\ req'[p] = l
  /\ \A q \in Request \ {p} : req'[q] = req[q]
  /\ UNCHANGED <<now, apple, cfg, restarts>> /\ tokens \subseteq tokens'
  /\ mutex' = mutex \/ mutex \in {None, p}

LEMMA OthersKeep ==
  ASSUME Inv, NEW p \in Request, NEW l, Moved(p, l), NEW q \in Request \ {p}
  PROVE  CallOK(q)' /\ ListOK(q)'
<1>1. /\ req'[q] = req[q] /\ now' = now /\ since' = since /\ till' = till /\ tokens \subseteq tokens'
      /\ mutex' = mutex \/ mutex \in {None, p}
  BY DEF Moved, apple
<1>2. CallOK(q) /\ ListOK(q)
  BY DEF Inv
<1>3. CallOK(q)'
  BY <1>1, <1>2 DEF CallOK, At, Op
<1>4. Fetching(q) => mutex' = q
  BY <1>1, <1>2, Numbers DEF ListOK
<1> QED
  BY <1>1, <1>2, <1>3, <1>4 DEF ListOK, ListOf, Fetching, At, Op

LEMMA StepInv ==
  ASSUME Inv, NEW p \in Request, NEW l, Moved(p, l), CallOK(p)', ListOK(p)',
         mutex' \in Request \cup {None},
         keys' \in [list: SUBSET Kid, time: Time \cup {-Hour}], KeysOK',
         tokens' \subseteq Token, Mortal'
  PROVE  Inv'
<1>1. /\ now' = now /\ since' = since /\ till' = till /\ cfg' = cfg /\ restarts' = restarts
      /\ req' \in [Request -> Locals]
  BY DEF Moved, apple
<1>2. \A q \in Request : CallOK(q)' /\ ListOK(q)'
  BY OthersKeep
<1>3. AppleOK' /\ (\E env \in Envs : cfg = Load(env))'
  BY <1>1 DEF Inv, AppleOK
<1>4. \A q \in Request :
        /\ req'[q].pc \in Label /\ req'[q].status \in {0, 200, 401, 500}
        /\ req'[q].asked \in Time \cup {None} /\ req'[q].keys \subseteq Kid /\ req'[q].at \in Time
        /\ req'[q].pc = "store" => mutex' = q
  BY <1>1, <1>2 DEF Locals, ListOK, Fetching, At
<1>5. TypeOK'
  BY <1>1, <1>4, Types DEF TypeOK, At
<1> QED
  BY <1>1, <1>2, <1>3, <1>5 DEF Inv

LEMMA DoneIs ==
  ASSUME NEW code \in {0, 200, 401, 500}
  PROVE  Done(code) \in Locals /\ Done(code).pc = "done" /\ Done(code).status = code
<1>1. 0 \in Time
  BY Numbers DEF Time
<1>2. Idle \in Locals
  BY <1>1 DEF Idle, Locals, Label
<1>3. /\ Done(code).pc = "done" /\ Done(code).status = code /\ Done(code).call = None
      /\ Done(code).asked = None /\ Done(code).keys = {} /\ Done(code).at = 0
  BY DEF Done, Idle
<1>4. /\ \A l \in Locals : [l EXCEPT !.pc = "done"] \in Locals
      /\ \A l \in Locals : [l EXCEPT !.status = code] \in Locals
  BY DEF Locals, Label
<1>5. Done(code) = [[Idle EXCEPT !.pc = "done"] EXCEPT !.status = code]
  BY DEF Done, Idle
<1>6. Done(code) \in Locals
  <2>1. PICK l \in Locals : l = [Idle EXCEPT !.pc = "done"]
    BY <1>2, <1>4, Zenon
  <2>2. [l EXCEPT !.status = code] \in Locals
    BY <1>4, Zenon
  <2> QED
    BY <1>5, <2>1, <2>2, Zenon
<1> QED
  BY <1>3, <1>6

\* p is answered, perhaps with new tokens.
LEMMA AnswerInv ==
  ASSUME Inv, NEW p \in Request, NEW code \in {0, 200, 401, 500}, Answer(p, code),
         UNCHANGED <<now, apple, keys, cfg, restarts>>,
         mutex' = mutex \/ (mutex' = None /\ mutex \in {None, p}),
         tokens \subseteq tokens', tokens' \subseteq Token, Mortal'
  PROVE  Inv'
<1>1. Moved(p, Done(code))
  BY DoneIs, Types DEF Moved, Answer
<1>2. CallOK(p)' /\ ListOK(p)'
  BY <1>1, DoneIs DEF Moved, CallOK, ListOK, Fetching, At
<1>3. KeysOK'
  BY DEF Inv, KeysOK, ListOf, apple
<1> QED
  BY <1>1, <1>2, <1>3, Types, StepInv

LEMMA ReceiveInv ==
  ASSUME Inv, NEW p \in Request, Receive(p)
  PROVE  Inv'
<1>1. PICK c \in AppleSignIns \cup GoogleSignIns \cup Uses :
        req' = [req EXCEPT ![p] = [Idle EXCEPT !.pc = Entry(c), !.call = c]]
  BY DEF Receive
<1> DEFINE l == [Idle EXCEPT !.pc = Entry(c), !.call = c]
<1>2. UNCHANGED <<now, apple, keys, mutex, cfg, tokens, restarts>>
  BY DEF Receive
<1>3. \/ c \in AppleCall /\ Entry(c) = "lock"
      \/ c \in GoogleSignIns /\ Entry(c) = "google"
      \/ /\ c \in [op: {"Refresh", "Verify"}, token: Token] /\ c.token \in tokens
         /\ Entry(c) = "validate"
  <2>1. CASE c \in AppleSignIns
    BY <2>1, SessionsAssumption DEF SessionsAssumption, AppleSignIns, AppleCall, Entry
  <2>2. CASE c \in GoogleSignIns
    BY <2>2 DEF GoogleSignIns, Entry
  <2>3. CASE c \in Uses
    <3>1. tokens \subseteq Token
      BY Types
    <3> QED
      BY <2>3, <3>1 DEF Uses, Entry
  <2> QED
    BY <1>1, <2>1, <2>2, <2>3
<1>4. Idle \in Locals
  <2>1. 0 \in Time
    BY Numbers DEF Time
  <2> QED
    BY <2>1 DEF Idle, Locals, Label
<1>5. Entry(c) \in Label /\ c \in Called
  BY <1>3 DEF Called, Label
<1>6. l \in Locals /\ l.pc = Entry(c) /\ l.call = c /\ l.status = 0
  <2>1. \A i \in Locals : [i EXCEPT !.pc = Entry(c)] \in Locals
    BY <1>5 DEF Locals
  <2>2. \A i \in Locals : [i EXCEPT !.call = c] \in Locals
    BY <1>5 DEF Locals
  <2>3. PICK i \in Locals : i = [Idle EXCEPT !.pc = Entry(c)]
    BY <1>4, <2>1, Zenon
  <2>4. [i EXCEPT !.call = c] \in Locals
    BY <2>2, Zenon
  <2>5. l = [[Idle EXCEPT !.pc = Entry(c)] EXCEPT !.call = c]
    BY DEF Idle
  <2>6. l.pc = Entry(c) /\ l.call = c /\ l.status = 0
    BY DEF Idle
  <2> QED
    BY <2>3, <2>4, <2>5, <2>6, Zenon
<1>7. Moved(p, l)
  <2> HIDE DEF l
  <2>1. req' = [req EXCEPT ![p] = l]
    BY <1>1 DEF l
  <2>2. req \in [Request -> Locals]
    BY Types
  <2> QED
    BY <1>2, <1>6, <2>1, <2>2 DEF Moved
<1>8. CallOK(p)' /\ ListOK(p)'
  <2> HIDE DEF l
  <2>1. /\ req'[p].pc = Entry(c) /\ req'[p].call = c /\ req'[p].status = 0
        /\ tokens' = tokens
    BY <1>2, <1>6, <1>7 DEF Moved
  <2>2. CASE c \in AppleCall /\ Entry(c) = "lock"
    BY <2>1, <2>2 DEF CallOK, ListOK, Fetching, At, Op
  <2>3. CASE c \in GoogleSignIns /\ Entry(c) = "google"
    BY <2>1, <2>3 DEF CallOK, ListOK, Fetching, At, Op
  <2>4. CASE /\ c \in [op: {"Refresh", "Verify"}, token: Token] /\ c.token \in tokens
             /\ Entry(c) = "validate"
    BY <2>1, <2>4 DEF CallOK, ListOK, Fetching, At, Op
  <2> QED
    BY <1>3, <2>2, <2>3, <2>4
<1>9. KeysOK' /\ Mortal'
  BY <1>2 DEF Inv, KeysOK, ListOf, Mortal, apple
<1> HIDE DEF l
<1> QED
  BY <1>2, <1>7, <1>8, <1>9, Types, StepInv

LEMMA Writes ==
  /\ \A l \in Locals, x \in Label : [l EXCEPT !.pc = x] \in Locals
  /\ \A l \in Locals, x \in SUBSET Kid : [l EXCEPT !.keys = x] \in Locals
  /\ \A l \in Locals, x \in Time : [l EXCEPT !.at = x] \in Locals
  /\ \A l \in Locals, x \in Time : [l EXCEPT !.asked = x] \in Locals
  BY DEF Locals

\* What Lock, AppleAnswers and StoreKeys write of a request.
Ready(l, list, t) == [l EXCEPT !.pc = "check", !.keys = list, !.at = t]
Asking(l, t) == [l EXCEPT !.pc = "fetch", !.asked = t]
Told(l, list) == [l EXCEPT !.pc = "store", !.keys = list]
Stored(l, t) == [l EXCEPT !.pc = "check", !.at = t]

LEMMA Written ==
  ASSUME NEW l \in Locals, NEW list \in SUBSET Kid, NEW t \in Time
  PROVE  /\ Ready(l, list, t) \in Locals /\ Asking(l, t) \in Locals
         /\ Told(l, list) \in Locals /\ Stored(l, t) \in Locals
<1>1. "check" \in Label /\ "fetch" \in Label /\ "store" \in Label
  BY DEF Label
<1>2. PICK a \in Locals : a = [l EXCEPT !.pc = "check"]
  BY <1>1, Writes, Zenon
<1>3. PICK b \in Locals : b = [a EXCEPT !.keys = list]
  BY Writes, Zenon
<1>4. Ready(l, list, t) = [b EXCEPT !.at = t]
  BY <1>2, <1>3 DEF Ready, Locals
<1>5. Ready(l, list, t) \in Locals
  BY <1>4, Writes, Zenon
<1>6. Stored(l, t) = [a EXCEPT !.at = t]
  BY <1>2 DEF Stored, Locals
<1>7. Stored(l, t) \in Locals
  BY <1>6, Writes, Zenon
<1>8. PICK c \in Locals : c = [l EXCEPT !.pc = "fetch"]
  BY <1>1, Writes, Zenon
<1>9. Asking(l, t) = [c EXCEPT !.asked = t]
  BY <1>8 DEF Asking, Locals
<1>10. Asking(l, t) \in Locals
  BY <1>9, Writes, Zenon
<1>11. PICK d \in Locals : d = [l EXCEPT !.pc = "store"]
  BY <1>1, Writes, Zenon
<1>12. Told(l, list) = [d EXCEPT !.keys = list]
  BY <1>11 DEF Told, Locals
<1>13. Told(l, list) \in Locals
  BY <1>12, Writes, Zenon
<1> QED
  BY <1>5, <1>7, <1>10, <1>13

LEMMA LockInv ==
  ASSUME Inv, NEW p \in Request, Lock(p)
  PROVE  Inv'
<1>1. /\ At(p, "lock") /\ mutex = None /\ UNCHANGED <<now, apple, keys, cfg, tokens, restarts>>
      /\ req \in [Request -> Locals] /\ req[p] \in Locals
      /\ now \in Time /\ keys.list \in SUBSET Kid
      /\ req[p].call \in AppleCall /\ req[p].status = 0
  BY Types DEF Lock, Inv, CallOK, At
<1>2. KeysOK' /\ Mortal'
  BY <1>1 DEF Inv, KeysOK, ListOf, Mortal, apple
<1>3. CASE Fresh
  <2> DEFINE l == Ready(req[p], keys.list, now)
  <2>1. mutex' = mutex /\ req' = [req EXCEPT ![p] = l]
    BY <1>1, <1>3 DEF Lock, Ready
  <2>2. l \in Locals
    BY <1>1, Written
  <2>3. l.pc = "check" /\ l.call = req[p].call /\ l.keys = keys.list /\ l.at = now
        /\ l.status = req[p].status
    BY <1>1 DEF Ready, Locals
  <2> HIDE DEF l
  <2>4. Moved(p, l)
    BY <1>1, <2>1, <2>2 DEF Moved
  <2>5. CallOK(p)'
    BY <1>1, <2>3, <2>4 DEF CallOK, At, Moved
  <2>6. /\ keys.list # {} /\ keys.time \in Int /\ keys.time <= now /\ now < keys.time + Hour
        /\ ListOf(keys.list, keys.time - FetchTime, keys.time)
        /\ now \in Nat /\ \A k \in Kid : since[k] \in Nat /\ till[k] \in Nat
    BY <1>3, Types, Numbers DEF Inv, KeysOK, Fresh
  <2>7. \A k \in keys.list : now < till[k] + Hour + FetchTime
    BY <2>6, <1>1, Numbers DEF ListOf
  <2>8. \A k \in Kid \ keys.list : now < since[k] + Hour + FetchTime \/ till[k] <= now
    BY <2>6, <1>1, Numbers DEF ListOf
  <2>9. ListOK(p)'
    BY <1>1, <2>3, <2>4, <2>6, <2>7, <2>8 DEF ListOK, Fetching, At, Moved, apple
  <2> QED
    BY <1>1, <1>2, <2>1, <2>4, <2>5, <2>9, Types, StepInv
<1>4. CASE ~Fresh
  <2> DEFINE l == Asking(req[p], now)
  <2>1. mutex' = p /\ req' = [req EXCEPT ![p] = l]
    BY <1>1, <1>4 DEF Lock, Asking
  <2>2. l \in Locals
    BY <1>1, Written
  <2>3. l.pc = "fetch" /\ l.call = req[p].call /\ l.asked = now
        /\ l.status = req[p].status
    BY <1>1 DEF Asking, Locals
  <2> HIDE DEF l
  <2>4. Moved(p, l)
    BY <1>1, <2>1, <2>2 DEF Moved
  <2>5. CallOK(p)'
    BY <1>1, <2>3, <2>4 DEF CallOK, At, Moved
  <2>6. now \in Nat /\ now <= now
    BY Types
  <2>7. ListOK(p)'
    BY <1>1, <2>1, <2>3, <2>4, <2>6 DEF ListOK, Fetching, At, Moved
  <2> QED
    BY <1>1, <1>2, <2>1, <2>4, <2>5, <2>7, Types, StepInv
<1> QED
  BY <1>3, <1>4

LEMMA AppleAnswersInv ==
  ASSUME Inv, NEW p \in Request, AppleAnswers(p)
  PROVE  Inv'
<1>1. /\ At(p, "fetch") /\ UNCHANGED <<now, apple, keys, mutex, cfg, tokens, restarts>>
      /\ req \in [Request -> Locals] /\ req[p] \in Locals /\ req[p].call \in AppleCall
      /\ now \in Time /\ req[p].status = 0
  BY Types DEF AppleAnswers, Inv, CallOK, At
<1>2. PICK list \in {Published, {}} : req' = [req EXCEPT ![p] = Told(req[p], list)]
  BY DEF AppleAnswers, Told
<1>3. list \in SUBSET Kid
  BY DEF Published
<1> DEFINE l == Told(req[p], list)
<1>4. l \in Locals
  BY <1>1, <1>3, Written
<1>5. /\ l.pc = "store" /\ l.call = req[p].call /\ l.keys = list /\ l.asked = req[p].asked
      /\ l.status = req[p].status
  BY <1>1 DEF Told, Locals
<1>6. req' = [req EXCEPT ![p] = l]
  BY <1>2
<1> HIDE DEF l
<1>7. Moved(p, l)
  BY <1>1, <1>4, <1>6 DEF Moved
<1>8. CallOK(p)'
  BY <1>1, <1>5, <1>7 DEF CallOK, At, Moved
<1>9. /\ mutex = p /\ req[p].asked \in Time /\ req[p].asked \in Nat
      /\ req[p].asked <= now
  <2>1. Time \subseteq Nat
    BY Numbers DEF Time
  <2> QED
    BY <1>1, <2>1 DEF Inv, ListOK, Fetching
<1>10. ListOf(list, req[p].asked, now)
  <2>1. now \in Nat /\ \A k \in Kid : since[k] \in Nat /\ till[k] \in Nat
    BY Types
  <2>2. \A k \in list : req[p].asked <= till[k]
    BY <1>2, <1>9, <2>1 DEF Published
  <2>3. \A k \in Kid \ list : list # {} => req[p].asked <= since[k] \/ till[k] <= now
    BY <1>2, <1>9, <2>1 DEF Published
  <2> QED
    BY <2>2, <2>3 DEF ListOf
<1>11. ListOK(p)'
  BY <1>1, <1>5, <1>7, <1>9, <1>10 DEF ListOK, ListOf, Fetching, At, Moved, apple
<1>12. KeysOK' /\ Mortal'
  BY <1>1 DEF Inv, KeysOK, ListOf, Mortal, apple
<1> QED
  BY <1>1, <1>7, <1>8, <1>11, <1>12, Types, StepInv

LEMMA StoreKeysInv ==
  ASSUME Inv, NEW p \in Request, StoreKeys(p)
  PROVE  Inv'
<1>1. /\ At(p, "store") /\ UNCHANGED <<now, apple, cfg, tokens, restarts>>
      /\ keys' = [list |-> req[p].keys, time |-> now] /\ mutex' = None
      /\ req \in [Request -> Locals] /\ req[p] \in Locals /\ req[p].call \in AppleCall
      /\ now \in Time /\ now \in Nat /\ req[p].status = 0
  BY Types DEF StoreKeys, Inv, CallOK, At
<1> DEFINE l == Stored(req[p], now)
<1>2. req' = [req EXCEPT ![p] = l]
  BY DEF StoreKeys, Stored
<1>3. l \in Locals
  BY <1>1, Written
<1>4. /\ l.pc = "check" /\ l.call = req[p].call /\ l.keys = req[p].keys /\ l.at = now
      /\ l.asked = req[p].asked /\ l.status = req[p].status /\ req[p].keys \in SUBSET Kid
  BY <1>1 DEF Stored, Locals
<1> HIDE DEF l
<1>5. /\ mutex = p /\ req[p].asked \in Nat /\ req[p].asked \in Time
      /\ req[p].asked <= now /\ now <= req[p].asked + FetchTime
      /\ ListOf(req[p].keys, req[p].asked, now)
  <2>1. Time \subseteq Nat
    BY Numbers DEF Time
  <2> QED
    BY <1>1, <2>1 DEF StoreKeys, Inv, ListOK, Fetching
<1>6. Moved(p, l)
  BY <1>1, <1>2, <1>3, <1>5 DEF Moved
<1>7. CallOK(p)'
  BY <1>1, <1>4, <1>6 DEF CallOK, At, Moved
<1>8. \A k \in Kid : since[k] \in Nat /\ till[k] \in Nat
  BY Types
<1>9. /\ \A k \in req[p].keys : now < till[k] + Hour + FetchTime
      /\ \A k \in Kid \ req[p].keys : req[p].keys # {} =>
           now < since[k] + Hour + FetchTime \/ till[k] <= now
  BY <1>1, <1>4, <1>5, <1>8, Numbers DEF ListOf
<1>10. ListOK(p)'
  BY <1>1, <1>4, <1>5, <1>6, <1>9, Numbers DEF ListOK, Fetching, At, Moved, apple, Time
<1>11. KeysOK'
  <2>1. ListOf(req[p].keys, now - FetchTime, now)
    BY <1>1, <1>4, <1>5, <1>8, Numbers DEF ListOf
  <2> QED
    BY <1>1, <2>1 DEF KeysOK, ListOf, apple
<1>12. Mortal' /\ keys' \in [list: SUBSET Kid, time: Time \cup {-Hour}]
  BY <1>1, <1>4 DEF Inv, Mortal
<1> QED
  BY <1>1, <1>6, <1>7, <1>10, <1>11, <1>12, Types, StepInv

LEMMA FetchFailsInv ==
  ASSUME Inv, NEW p \in Request, FetchFails(p)
  PROVE  Inv'
<1>1. /\ UNCHANGED <<now, apple, keys, cfg, tokens, restarts>> /\ mutex' = None
      /\ Fetching(p) /\ Answer(p, 401)
  BY DEF FetchFails, Fetching
<1>2. mutex = p /\ tokens \subseteq Token /\ Mortal
  BY <1>1, Types DEF Inv, ListOK
<1>3. Mortal'
  BY <1>1, <1>2 DEF Mortal
<1> QED
  BY <1>1, <1>2, <1>3, AnswerInv

LEMMA OnToUser ==
  ASSUME Inv, NEW p \in Request, Goto(p, "user"),
         UNCHANGED <<now, apple, keys, mutex, cfg, tokens, restarts>>,
         req[p].call \in AppleCall \cup GoogleSignIns, req[p].status = 0,
         Op(p) = "Apple" =>
           /\ req[p].at <= now /\ req[p].call.token.good
           /\ req[p].at < till[req[p].call.token.kid] + Hour + FetchTime
  PROVE  Inv'
<1>1. req \in [Request -> Locals] /\ req[p] \in Locals
  BY Types
<1> DEFINE l == [req[p] EXCEPT !.pc = "user"]
<1>2. l \in Locals
  BY <1>1, Writes DEF Label
<1>3. req' = [req EXCEPT ![p] = l]
  BY <1>1 DEF Goto
<1>4. /\ l.pc = "user" /\ l.call = req[p].call /\ l.at = req[p].at
      /\ l.status = req[p].status
  BY <1>1 DEF Locals
<1> HIDE DEF l
<1>5. Moved(p, l)
  BY <1>1, <1>2, <1>3 DEF Moved
<1>6. CallOK(p)' /\ ListOK(p)'
  BY <1>4, <1>5 DEF CallOK, ListOK, Fetching, At, Op, Moved, apple
<1>7. KeysOK' /\ Mortal'
  BY DEF Inv, KeysOK, ListOf, Mortal, apple
<1> QED
  BY <1>5, <1>6, <1>7, Types, StepInv

LEMMA CheckAppleInv ==
  ASSUME Inv, NEW p \in Request, CheckApple(p)
  PROVE  Inv'
<1>1. At(p, "check") /\ UNCHANGED <<now, apple, keys, mutex, cfg, tokens, restarts>>
  BY DEF CheckApple
<1>2. CASE Answer(p, 401)
  <2>1. Mortal' /\ tokens \subseteq Token
    BY <1>1, Types DEF Inv, Mortal
  <2> QED
    BY <1>1, <1>2, <2>1, AnswerInv
<1>3. CASE /\ Goto(p, "user") /\ req[p].call.token.good
           /\ req[p].call.token.kid \in req[p].keys
  BY <1>1, <1>3, OnToUser DEF Inv, CallOK, ListOK, At
<1> QED
  BY <1>2, <1>3 DEF CheckApple

LEMMA AskGoogleInv ==
  ASSUME Inv, NEW p \in Request, AskGoogle(p)
  PROVE  Inv'
<1>1. At(p, "google") /\ UNCHANGED <<now, apple, keys, mutex, cfg, tokens, restarts>>
  BY DEF AskGoogle
<1>2. req[p].call \in GoogleSignIns /\ Op(p) = "Google" /\ req[p].status = 0
  BY <1>1 DEF Inv, CallOK, GoogleSignIns, Op, At
<1>3. CASE Answer(p, 401)
  <2>1. Mortal' /\ tokens \subseteq Token
    BY <1>1, Types DEF Inv, Mortal
  <2> QED
    BY <1>1, <1>3, <2>1, AnswerInv
<1>4. CASE Goto(p, "user")
  BY <1>1, <1>2, <1>4, OnToUser
<1> QED
  BY <1>3, <1>4 DEF AskGoogle

-----------------------------------------------------------------------------
(* Tokens *)

\* What is issued for no longer than was configured is mortal.
LEMMA IssueIs ==
  ASSUME Inv, NEW u \in User, NEW secret \in Secret,
         NEW access \in Int, NEW refresh \in Int,
         NEW S \in SUBSET Issue(u, access, refresh, secret),
         \E n \in MayLive("access", secret) : n \in Int /\ access <= n,
         (\A t \in S : t.type # "refresh")
           \/ \E n \in MayLive("refresh", secret) : n \in Int /\ refresh <= n
  PROVE  /\ S \subseteq Token
         /\ \A t \in S : InLife(t)
<1>1. now \in Nat
  BY Types
<1>2. ASSUME NEW t \in S
      PROVE  t \in Token /\ InLife(t)
  <2>1. CASE t = Signed(u, "access", access, secret)
    <3>1. t.type = "access" /\ t.iat = now /\ t.exp = now + access /\ t.secret = secret
      BY <2>1 DEF Signed
    <3>2. t \in Token
      BY <1>1, <2>1 DEF Signed, Token
    <3>3. PICK n \in MayLive("access", secret) : n \in Int /\ access <= n
      OBVIOUS
    <3>4. t.exp <= t.iat + n
      BY <1>1, <3>1, <3>3
    <3> QED
      BY <3>1, <3>2, <3>4 DEF InLife
  <2>2. CASE t = Signed(u, "refresh", refresh, secret)
    <3>1. t.type = "refresh" /\ t.iat = now /\ t.exp = now + refresh /\ t.secret = secret
      BY <2>2 DEF Signed
    <3>2. t \in Token
      BY <1>1, <2>2 DEF Signed, Token
    <3>3. PICK n \in MayLive("refresh", secret) : n \in Int /\ refresh <= n
      BY <3>1
    <3>4. t.exp <= t.iat + n
      BY <1>1, <3>1, <3>3
    <3> QED
      BY <3>1, <3>2, <3>4 DEF InLife
  <2> QED
    BY <2>1, <2>2 DEF Issue
<1> QED
  BY <1>2

LEMMA MoreTokens ==
  ASSUME Inv, NEW S, S \subseteq Token, \A t \in S : InLife(t),
         tokens' = tokens \cup S
  PROVE  tokens' \subseteq Token /\ Mortal'
  BY Types DEF Inv, Mortal, InLife

LEMMA IssueTokensIs ==
  ASSUME Inv, NEW u \in User
  PROVE  /\ IssueTokens(u) \subseteq Token
         /\ \A t \in IssueTokens(u) : InLife(t)
<1>1. PICK env \in Envs : cfg = Load(env)
  BY DEF Inv
<1>2. /\ cfg.access \in Int /\ cfg.refresh \in Int /\ cfg.secret \in Secret
      /\ \E n \in MayLive("access", cfg.secret) : n \in Int /\ cfg.access <= n
      /\ \E n \in MayLive("refresh", cfg.secret) : n \in Int /\ cfg.refresh <= n
  BY <1>1, LoadedLives, Loaded DEF Config
<1> QED
  BY <1>2, IssueIs DEF IssueTokens

LEMMA SignInInv ==
  ASSUME Inv, NEW p \in Request, SignIn(p)
  PROVE  Inv'
<1>1. At(p, "user") /\ UNCHANGED <<now, apple, keys, mutex, cfg, restarts>>
  BY DEF SignIn
<1>2. Subject(p) \in User
  <2>1. req[p].call \in AppleCall \cup GoogleSignIns
    BY <1>1 DEF Inv, CallOK
  <2> QED
    BY <2>1 DEF AppleCall, AppleToken, GoogleSignIns, Subject, Op
<1>3. CASE Answer(p, 200) /\ tokens' = tokens \cup IssueTokens(Subject(p))
  <2>1. tokens' \subseteq Token /\ Mortal'
    BY <1>2, <1>3, IssueTokensIs, MoreTokens
  <2> QED
    BY <1>1, <1>3, <2>1, AnswerInv
<1>4. CASE Answer(p, 500) /\ UNCHANGED tokens
  <2>1. Mortal' /\ tokens \subseteq Token
    BY <1>4, Types DEF Inv, Mortal
  <2> QED
    BY <1>1, <1>4, <2>1, AnswerInv
<1> QED
  BY <1>3, <1>4 DEF SignIn

LEMMA RefreshInv ==
  ASSUME Inv, NEW p \in Request, Refresh(p)
  PROVE  Inv'
<1>1. /\ At(p, "validate") /\ Op(p) = "Refresh"
      /\ UNCHANGED <<now, apple, keys, mutex, cfg, restarts>>
  BY DEF Refresh
<1>2. Subject(p) \in User
  <2>1. req[p].call.token \in Token
    BY <1>1, Types DEF Inv, CallOK
  <2> QED
    BY <1>1, <2>1 DEF Subject, Token
<1>3. CASE Answer(p, 200) /\ tokens' = tokens \cup IssueTokens(Subject(p))
  <2>1. tokens' \subseteq Token /\ Mortal'
    BY <1>2, <1>3, IssueTokensIs, MoreTokens
  <2> QED
    BY <1>1, <1>3, <2>1, AnswerInv
<1>4. CASE Answer(p, 401) /\ UNCHANGED tokens
  <2>1. Mortal' /\ tokens \subseteq Token
    BY <1>4, Types DEF Inv, Mortal
  <2> QED
    BY <1>1, <1>4, <2>1, AnswerInv
<1> QED
  BY <1>3, <1>4 DEF Refresh

LEMMA VerifyInv ==
  ASSUME Inv, NEW p \in Request, Verify(p)
  PROVE  Inv'
<1>1. PICK code \in {200, 401} : Answer(p, code)
  BY DEF Verify
<1>2. UNCHANGED <<now, apple, keys, mutex, cfg, tokens, restarts>>
  BY DEF Verify
<1>3. Mortal' /\ tokens \subseteq Token
  BY <1>2, Types DEF Inv, Mortal
<1> QED
  BY <1>1, <1>2, <1>3, AnswerInv

LEMMA DevTokenInv ==
  ASSUME Inv, NEW p \in Request, DevToken(p)
  PROVE  Inv'
<1>1. PICK u \in User, run \in DevRuns :
        tokens' = tokens \cup {t \in Issue(u, run.ttl, run.ttl, run.secret) : t.type = "access"}
  BY DEF DevToken
<1> DEFINE S == {t \in Issue(u, run.ttl, run.ttl, run.secret) : t.type = "access"}
<1>2. S \subseteq Token /\ \A t \in S : InLife(t)
  <2>1. /\ S \in SUBSET Issue(u, run.ttl, run.ttl, run.secret)
        /\ \A t \in S : t.type # "refresh"
    OBVIOUS
  <2>2. run.ttl \in Int /\ run.secret \in Secret
    BY SessionsAssumption DEF SessionsAssumption, DevRun
  <2>3. run.ttl \in MayLive("access", run.secret) /\ run.ttl <= run.ttl
    BY <2>2 DEF MayLive
  <2> HIDE DEF S
  <2> QED
    BY <2>1, <2>2, <2>3, IssueIs
<1>3. tokens' \subseteq Token /\ Mortal'
  <2> HIDE DEF S
  <2>1. tokens' = tokens \cup S
    BY <1>1 DEF S
  <2> QED
    BY <1>2, <2>1, MoreTokens
<1> QED
  BY <1>1, <1>3, AnswerInv DEF DevToken

-----------------------------------------------------------------------------
(* The world around *)

\* Whatever Apple publishes or withdraws, it does so now.
LEMMA RotateIs ==
  ASSUME Inv, Rotate, NEW k \in Kid
  PROVE  /\ since'[k] \in Nat /\ till'[k] \in Nat
         /\ since'[k] = since[k] \/ (since[k] = Never /\ since'[k] = now)
         /\ till'[k] = till[k] \/ (now < till[k] /\ till'[k] = now)
<1>1. now \in Nat /\ since[k] \in Nat /\ till[k] \in Nat
  BY Types
<1>2. since'[k] = since[k] \/ (since[k] = Never /\ since'[k] = now)
  BY Types DEF Rotate
<1>3. till'[k] = till[k] \/ (now < till[k] /\ till'[k] = now)
  BY DEF Rotate, Published
<1> QED
  BY <1>1, <1>2, <1>3

LEMMA RotateInv ==
  ASSUME Inv, Rotate
  PROVE  Inv'
<1>1. /\ UNCHANGED <<now, keys, mutex, cfg, tokens, req, restarts>>
      /\ now \in Nat /\ now \in Time /\ now < Never /\ Never \in Nat
  BY Types DEF Rotate
<1>2. /\ since' \in [Kid -> Time \cup {Never}] /\ till' \in [Kid -> Time \cup {Never}]
  BY <1>1, Types DEF Rotate
<1>3. TypeOK' /\ req' \in [Request -> Locals]
  <2>1. TypeOK /\ req \in [Request -> Locals]
    BY DEF Inv
  <2> QED
    BY <1>1, <1>2, <2>1 DEF TypeOK, At
<1>4. AppleOK'
  BY <1>1, RotateIs, Types DEF AppleOK
\* What was true of a list as of some time up to now is so still.
<1>5. ASSUME NEW list \in SUBSET Kid, NEW from \in Int, NEW to \in Int, from <= now, to <= now,
             ListOf(list, from, to)
      PROVE  /\ \A k \in list : from <= till'[k]
             /\ \A k \in Kid \ list : list # {} => from <= since'[k] \/ till'[k] <= to
  BY <1>1, <1>5, RotateIs, Types DEF ListOf
<1>6. KeysOK'
  <2>1. SUFFICES ASSUME keys.list # {}
                 PROVE  /\ keys.time \in 0..now
                        /\ \A k \in keys.list : keys.time - FetchTime <= till'[k]
                        /\ \A k \in Kid \ keys.list :
                             keys.list # {} =>
                               keys.time - FetchTime <= since'[k] \/ till'[k] <= keys.time
    BY <1>1 DEF KeysOK, ListOf
  <2>2. keys.time \in 0..now /\ ListOf(keys.list, keys.time - FetchTime, keys.time)
    BY <2>1 DEF Inv, KeysOK
  <2>3. keys.time - FetchTime \in Int /\ keys.time - FetchTime <= now /\ keys.time <= now
        /\ keys.time \in Int /\ keys.list \in SUBSET Kid
    BY <1>1, <2>2, Numbers, Types
  <2> QED
    BY <1>5, <2>2, <2>3
<1>7. ASSUME NEW p \in Request
      PROVE  CallOK(p)' /\ ListOK(p)'
  <2>1. CallOK(p) /\ ListOK(p) /\ req[p] \in Locals /\ req'[p] = req[p] /\ tokens' = tokens
    BY <1>1, Types DEF Inv
  <2>2. CallOK(p)'
    BY <2>1 DEF CallOK, At, Op
  <2>3. req[p].keys \in SUBSET Kid /\ req[p].at \in Nat
    BY <2>1, Numbers DEF Locals, Time
  <2>4. At(p, "store") => ListOf(req[p].keys, req[p].asked, now)'
    <3>1. SUFFICES ASSUME At(p, "store") PROVE ListOf(req[p].keys, req[p].asked, now)'
      OBVIOUS
    <3>2. /\ req[p].asked \in Int /\ req[p].asked <= now
          /\ ListOf(req[p].keys, req[p].asked, now)
      BY <2>1, <3>1, Numbers DEF ListOK, Fetching, Time
    <3>3. now \in Int /\ now <= now
      BY <1>1
    <3>4. /\ \A k \in req[p].keys : req[p].asked <= till'[k]
          /\ \A k \in Kid \ req[p].keys :
               req[p].keys # {} => req[p].asked <= since'[k] \/ till'[k] <= now
      BY <1>5, <2>3, <3>2, <3>3
    <3> QED
      BY <1>1, <2>1, <3>4 DEF ListOf
  <2>5. At(p, "check") =>
          /\ \A k \in req[p].keys : req[p].at < till'[k] + Hour + FetchTime
          /\ \A k \in Kid \ req[p].keys : req[p].keys # {} =>
               req[p].at < since'[k] + Hour + FetchTime \/ till'[k] <= req[p].at
    BY <1>1, <2>1, <2>3, RotateIs, Types, Numbers DEF ListOK
  <2>6. At(p, "user") /\ Op(p) = "Apple" =>
          req[p].at < till'[req[p].call.token.kid] + Hour + FetchTime
    <3>1. SUFFICES ASSUME At(p, "user"), Op(p) = "Apple"
                   PROVE  req[p].at < till'[req[p].call.token.kid] + Hour + FetchTime
      OBVIOUS
    <3>2. /\ req[p].call.token.kid \in Kid
          /\ req[p].at <= now /\ req[p].at < till[req[p].call.token.kid] + Hour + FetchTime
      BY <2>1, <3>1 DEF ListOK, CallOK, Op, AppleCall, AppleToken, GoogleSignIns
    <3>3. till[req[p].call.token.kid] \in Nat
      BY <3>2, Types
    <3> QED
      BY <1>1, <2>3, <3>2, <3>3, RotateIs, Numbers
  <2> QED
    BY <1>1, <2>1, <2>2, <2>4, <2>5, <2>6 DEF ListOK, ListOf, Fetching, At, Op
<1>8. Mortal' /\ (\E env \in Envs : cfg = Load(env))'
  BY <1>1 DEF Inv, Mortal
<1> QED
  BY <1>3, <1>4, <1>6, <1>7, <1>8 DEF Inv

LEMMA TickInv ==
  ASSUME Inv, Tick
  PROVE  Inv'
<1>1. /\ UNCHANGED <<apple, keys, mutex, cfg, tokens, req, restarts>>
      /\ now \in Nat /\ now' = now + 1 /\ now < MaxTime /\ since' = since /\ till' = till
      /\ \A k \in Kid : since[k] \in Nat /\ till[k] \in Nat
  BY Types DEF Tick, apple
<1>2. now' \in Time /\ now <= now' /\ now' \in Nat
  BY <1>1, Numbers DEF Time
<1>3. TypeOK' /\ req' \in [Request -> Locals]
  <2>1. TypeOK /\ req \in [Request -> Locals]
    BY DEF Inv
  <2> QED
    BY <1>1, <1>2, <2>1 DEF TypeOK, At
<1>4. AppleOK'
  BY <1>1, <1>2, Types DEF AppleOK
<1>5. KeysOK'
  <2>1. keys.list # {} => keys.time \in 0..now'
    BY <1>1, <1>2 DEF Inv, KeysOK
  <2> QED
    BY <1>1, <2>1 DEF Inv, KeysOK, ListOf
<1>6. ASSUME NEW p \in Request
      PROVE  CallOK(p)' /\ ListOK(p)'
  <2>1. CallOK(p) /\ ListOK(p) /\ req[p] \in Locals /\ req'[p] = req[p] /\ tokens' = tokens
        /\ mutex' = mutex
    BY <1>1, Types DEF Inv
  <2>2. CallOK(p)'
    BY <2>1 DEF CallOK, At, Op
  <2>3. req[p].at \in Nat
    BY <2>1, Numbers DEF Locals, Time
  <2>4. Fetching(p) => req[p].asked \in Time /\ req[p].asked <= now'
    BY <1>1, <1>2, <2>1, Numbers DEF ListOK, Time
  <2>5. At(p, "store") => ListOf(req[p].keys, req[p].asked, now')
    <3>1. SUFFICES ASSUME At(p, "store") PROVE ListOf(req[p].keys, req[p].asked, now')
      OBVIOUS
    <3>2. ListOf(req[p].keys, req[p].asked, now)
      BY <2>1, <3>1 DEF ListOK
    <3>3. \A k \in Kid : till[k] <= now => till[k] <= now'
      BY <1>1, <1>2
    <3> QED
      BY <3>2, <3>3 DEF ListOf
  <2>6. req[p].at <= now => req[p].at <= now'
    BY <1>1, <1>2, <2>3
  <2> QED
    BY <1>1, <2>1, <2>2, <2>4, <2>5, <2>6 DEF ListOK, ListOf, Fetching, At, Op
<1>7. Mortal' /\ (\E env \in Envs : cfg = Load(env))'
  BY <1>1 DEF Inv, Mortal
<1> QED
  BY <1>3, <1>4, <1>5, <1>6, <1>7 DEF Inv

LEMMA RestartInv ==
  ASSUME Inv, Restart
  PROVE  Inv'
<1>1. /\ UNCHANGED <<now, apple, tokens>> /\ since' = since /\ till' = till
      /\ keys' = NoKeys /\ mutex' = None /\ restarts < MaxRestart /\ restarts' = restarts + 1
      /\ req' = [p \in Request |-> IF At(p, "idle") \/ At(p, "done") THEN req[p] ELSE Done(0)]
  BY DEF Restart, apple
<1>2. PICK env \in Envs : cfg' = Load(env)
  BY DEF Restart
<1>3. \A p \in Request : req'[p] \in Locals /\ req'[p].pc \in {"idle", "done"}
  BY <1>1, DoneIs, Types DEF At
<1>4. req' \in [Request -> Locals]
  BY <1>1, <1>3
<1>5. TypeOK'
  <2>1. restarts' \in 0..MaxRestart /\ cfg' \in Config /\ mutex' \in Request \cup {None}
        /\ keys' \in [list: SUBSET Kid, time: Time \cup {-Hour}]
    BY <1>1, <1>2, Loaded, Types, Numbers DEF NoKeys
  <2>2. \A p \in Request :
          /\ req'[p].pc \in Label /\ req'[p].status \in {0, 200, 401, 500}
          /\ req'[p].asked \in Time \cup {None} /\ req'[p].keys \subseteq Kid /\ req'[p].at \in Time
          /\ req'[p].pc # "store"
    BY <1>3 DEF Locals
  <2> QED
    BY <1>1, <2>1, <2>2, Types DEF TypeOK, At
<1>6. AppleOK' /\ KeysOK' /\ Mortal'
  BY <1>1 DEF Inv, AppleOK, KeysOK, NoKeys, Mortal
<1>7. \A p \in Request : CallOK(p)' /\ ListOK(p)'
  <2>1. \A p \in Request : req'[p].pc # "done" => req'[p].status = 0
    BY <1>1, DoneIs DEF Inv, CallOK, At
  <2> QED
    BY <1>3, <2>1 DEF CallOK, ListOK, Fetching, At
<1> QED
  BY <1>2, <1>4, <1>5, <1>6, <1>7 DEF Inv

LEMMA NextInv == Inv /\ [Next]_vars => Inv'
<1> SUFFICES ASSUME Inv, [Next]_vars PROVE Inv'
  OBVIOUS
<1>1. CASE \E p \in Request : Receive(p) \/ FetchAppleKeys(p) \/ AskGoogle(p) \/ Handle(p) \/ DevToken(p)
  BY <1>1, ReceiveInv, LockInv, AppleAnswersInv, StoreKeysInv, FetchFailsInv, CheckAppleInv,
     AskGoogleInv, SignInInv, RefreshInv, VerifyInv, DevTokenInv DEF FetchAppleKeys, Handle
<1>2. CASE Rotate \/ Tick \/ Restart
  BY <1>2, RotateInv, TickInv, RestartInv
<1>3. CASE UNCHANGED vars
  BY <1>3 DEF vars, apple, Inv, TypeOK, AppleOK, KeysOK, ListOf, Mortal, CallOK, ListOK,
              Fetching, At, Op
<1> QED
  BY <1>1, <1>2, <1>3 DEF Next

-----------------------------------------------------------------------------
(* The theorems *)

\* The invariant holds, whatever Apple, the clock and the clients do, restarts included.
THEOREM Invariant == Spec => []Inv
  BY InitInv, NextInv, PTL DEF Spec

\* Every value stays in its type, and an answer of Apple's only comes in under the mutex.
THEOREM TypeCorrect == Spec => []TypeOK
<1>1. Inv => TypeOK
  BY DEF Inv
<1> QED
  BY <1>1, Invariant, PTL

\* No sign-in is let by with a key withdrawn for longer than the hour and one exchange, for
\* any lifetimes, any number of keys and of requests that share the copy.
THEOREM Vouched == Spec => []SignInsAreVouched
<1>1. Inv => SignInsAreVouched
  BY DEF Inv, ListOK, SignInsAreVouched
<1> QED
  BY <1>1, Invariant, PTL

\* A request writes nothing of another.
LEMMA OwnStep ==
  ASSUME req \in [Request -> Locals], NEW q \in Request, NEW p \in Request, p # q,
         Receive(q) \/ FetchAppleKeys(q) \/ AskGoogle(q) \/ Handle(q) \/ DevToken(q)
  PROVE  req'[p] = req[p]
<1>1. ASSUME NEW code, Answer(q, code) PROVE req'[p] = req[p]
  BY <1>1 DEF Answer
<1>2. ASSUME NEW label, Goto(q, label) PROVE req'[p] = req[p]
  BY <1>2 DEF Goto
<1>3. Receive(q) => req'[p] = req[p]
  BY DEF Receive
<1>4. Lock(q) => req'[p] = req[p]
  BY DEF Lock
<1>5. AppleAnswers(q) => req'[p] = req[p]
  BY DEF AppleAnswers
<1>6. StoreKeys(q) => req'[p] = req[p]
  BY DEF StoreKeys
<1>7. FetchFails(q) \/ DevToken(q) => req'[p] = req[p]
  BY <1>1 DEF FetchFails, DevToken
<1>8. CheckApple(q) \/ AskGoogle(q) => req'[p] = req[p]
  BY <1>1, <1>2 DEF CheckApple, AskGoogle
<1>9. SignIn(q) \/ Refresh(q) \/ Verify(q) => req'[p] = req[p]
  BY <1>1 DEF SignIn, Refresh, Verify
<1> QED
  BY <1>3, <1>4, <1>5, <1>6, <1>7, <1>8, <1>9 DEF FetchAppleKeys, Handle

\* The only step that turns away who is about to be checked.
LEMMA RejectsWhen ==
  ASSUME Inv, [Next]_vars, NEW p \in Request, At(p, "check"), req'[p].status = 401
  PROVE  CheckApple(p) /\ Answer(p, 401)
<1>1. req \in [Request -> Locals] /\ req[p].pc = "check" /\ req[p].status = 0
  BY Types DEF Inv, CallOK, At
<1>2. req'[p] # req[p]
  BY <1>1
<1>3. ~UNCHANGED vars /\ ~Rotate /\ ~Tick
  BY <1>2 DEF vars, Rotate, Tick
<1>4. ~Restart
  <2>1. Restart => req'[p] = Done(0)
    BY <1>1 DEF Restart, At
  <2> QED
    BY <2>1, DoneIs
<1>5. ASSUME NEW q \in Request, Receive(q) \/ FetchAppleKeys(q) \/ AskGoogle(q) \/ Handle(q) \/ DevToken(q)
      PROVE  q = p
  BY <1>1, <1>2, <1>5, OwnStep
<1>6. CheckApple(p)
  <2>1. Receive(p) \/ FetchAppleKeys(p) \/ AskGoogle(p) \/ Handle(p) \/ DevToken(p)
    BY <1>3, <1>4, <1>5 DEF Next, vars
  <2>2. ~Receive(p) /\ ~FetchAppleKeys(p) /\ ~DevToken(p)
    BY <1>1 DEF Receive, FetchAppleKeys, Lock, AppleAnswers, StoreKeys, FetchFails, DevToken, At
  <2>3. ~AskGoogle(p) /\ ~SignIn(p) /\ ~Refresh(p) /\ ~Verify(p)
    BY <1>1 DEF AskGoogle, SignIn, Refresh, Verify, At
  <2> QED
    BY <2>1, <2>2, <2>3 DEF Handle
<1>7. ~Goto(p, "user")
  <2>1. Goto(p, "user") => req'[p].status = req[p].status
    BY <1>1 DEF Goto, Locals
  <2> QED
    BY <1>1, <2>1
<1> QED
  BY <1>6, <1>7 DEF CheckApple

\* A token in order is turned away only for a key that is new or withdrawn, or because the
\* request's own exchange brought no keys: never on a list that another request stored empty.
THEOREM Rejections == Spec => RejectedKeysAreNewOrOld
<1>1. ASSUME Inv, [Next]_vars, NEW p \in Request, At(p, "check"), req'[p].status = 401
      PROVE  LET token == req[p].call.token
             IN  \/ ~token.good \/ token.aud # "ours"
                 \/ req[p].asked # None /\ req[p].keys = {}
                 \/ req[p].at < since[token.kid] + Hour + FetchTime
                 \/ till[token.kid] <= req[p].at
  <2> DEFINE token == req[p].call.token
  <2>1. CheckApple(p) /\ Answer(p, 401)
    BY <1>1, RejectsWhen
  <2>2. /\ token \in AppleToken /\ token.kid \in Kid
        /\ req[p].keys = {} => req[p].asked # None
        /\ \A k \in Kid \ req[p].keys : req[p].keys # {} =>
             req[p].at < since[k] + Hour + FetchTime \/ till[k] <= req[p].at
    BY <1>1 DEF Inv, CallOK, ListOK, At, AppleCall, AppleToken
  <2>3. cfg.clientID \in {"ours", Unset} /\ req \in [Request -> Locals] /\ req[p].status = 0
    BY <1>1, Types DEF Config, Inv, CallOK, At
  <2>4. \/ token.kid \notin req[p].keys \/ ~token.good
        \/ token.aud # "ours"
    <3>1. SUFFICES ASSUME token.kid \in req[p].keys, token.good, token.aud = "ours" PROVE FALSE
      OBVIOUS
    <3>2. Goto(p, "user")
      BY <2>1, <2>3, <3>1 DEF CheckApple
    <3>3. req'[p].status = req[p].status
      BY <2>3, <3>2 DEF Goto, Locals
    <3> QED
      BY <1>1, <2>3, <3>3
  <2> QED
    BY <2>2, <2>4
<1>2. ASSUME Inv, [Next]_vars
      PROVE  [\A p \in Request :
                At(p, "check") /\ req'[p].status = 401 =>
                  LET token == req[p].call.token
                  IN  \/ ~token.good \/ token.aud # "ours"
                      \/ req[p].asked # None /\ req[p].keys = {}
                      \/ req[p].at < since[token.kid] + Hour + FetchTime
                      \/ till[token.kid] <= req[p].at]_vars
  BY <1>1, <1>2
<1> QED
  BY <1>2, Invariant, PTL DEF Spec, RejectedKeysAreNewOrOld

\* Who gets past a validation holds a token of the running secret that is younger than a
\* lifetime configured for such tokens, for any durations, negative ones and those that do not
\* parse included, and any number of restarts.
THEOREM Quiet == Spec => QuietSessionsEnd
<1>1. ASSUME Inv, [Next]_vars, NEW p \in Request, At(p, "validate"), req'[p].status = 200
      PROVE  \E t \in tokens :
               /\ t.user = Subject(p) /\ t.secret = cfg.secret
               /\ \E n \in MayLive(IF Op(p) = "Verify" THEN "access" ELSE "refresh", t.secret) :
                    now < t.iat + n
  <2> DEFINE t == req[p].call.token
             kind == IF Op(p) = "Verify" THEN "access" ELSE "refresh"
  <2>1. /\ Op(p) \in {"Refresh", "Verify"} /\ t \in tokens /\ tokens \subseteq Token
        /\ req \in [Request -> Locals] /\ req[p].pc = "validate" /\ req[p].status = 0
    BY <1>1, Types DEF Inv, CallOK, At
  <2>2. req'[p] # req[p]
    BY <1>1, <2>1
  <2>3. Refresh(p) \/ Verify(p)
    <3>1. ~UNCHANGED vars /\ ~Rotate /\ ~Tick
      BY <2>2 DEF vars, Rotate, Tick
    <3>2. ~Restart
      <4>1. Restart => req'[p] = Done(0)
        BY <2>1 DEF Restart, At
      <4> QED
        BY <1>1, <4>1, DoneIs
    <3>3. Receive(p) \/ FetchAppleKeys(p) \/ AskGoogle(p) \/ Handle(p) \/ DevToken(p)
      <4>1. PICK q \in Request : Receive(q) \/ FetchAppleKeys(q) \/ AskGoogle(q) \/ Handle(q) \/ DevToken(q)
        BY <1>1, <3>1, <3>2 DEF Next
      <4>2. q = p
        BY <2>1, <2>2, <4>1, OwnStep
      <4> QED
        BY <4>1, <4>2
    <3>4. ~Receive(p) /\ ~FetchAppleKeys(p) /\ ~DevToken(p)
      BY <2>1 DEF Receive, FetchAppleKeys, Lock, AppleAnswers, StoreKeys, FetchFails, DevToken, At
    <3>5. ~AskGoogle(p) /\ ~SignIn(p) /\ ~CheckApple(p)
      BY <2>1 DEF AskGoogle, SignIn, CheckApple, At
    <3> QED
      BY <3>3, <3>4, <3>5 DEF Handle
  <2>4. Validates(t, kind)
    <3>1. \A code : Answer(p, code) /\ code \in {200, 401} => req'[p].status = code
      BY <2>1, DoneIs DEF Answer
    <3>2. CASE Refresh(p)
      BY <1>1, <3>1, <3>2 DEF Refresh
    <3>3. CASE Verify(p)
      BY <1>1, <3>1, <3>3 DEF Verify
    <3> QED
      BY <2>3, <3>2, <3>3
  <2>5. InLife(t) /\ t \in Token /\ now \in Nat
    BY <1>1, <2>1, Types DEF Inv, Mortal
  <2>6. t.secret = cfg.secret /\ now < t.exp /\ t.type = kind
    BY <2>4 DEF Validates
  <2>7. t.exp \in Int /\ t.iat \in Nat
    BY <2>5 DEF Token
  <2>8. \E n \in MayLive(kind, t.secret) : now < t.iat + n
    <3>1. PICK n \in MayLive(kind, t.secret) : t.exp <= t.iat + n
      BY <2>5, <2>6 DEF InLife
    <3>2. n \in Int
      BY LivesAreInt
    <3> QED
      BY <2>5, <2>6, <2>7, <3>1, <3>2
  <2>9. t.user = Subject(p)
    BY <2>1 DEF Subject
  <2> QED
    BY <2>1, <2>6, <2>8, <2>9
<1>2. ASSUME Inv, [Next]_vars
      PROVE  [\A p \in Request :
                At(p, "validate") /\ req'[p].status = 200 =>
                  LET kind == IF Op(p) = "Verify" THEN "access" ELSE "refresh"
                  IN  \E t \in tokens :
                        /\ t.user = Subject(p) /\ t.secret = cfg.secret
                        /\ \E n \in MayLive(kind, t.secret) : now < t.iat + n]_vars
  BY <1>1, <1>2
<1> QED
  BY <1>2, Invariant, PTL DEF Spec, QuietSessionsEnd
=============================================================================
