--------------------------- MODULE AccountsProofs ---------------------------
(***************************************************************************)
(* The invariant of Accounts: what a request has read or been answered       *)
(* still holds of the table, whatever the others have done to it since,      *)
(* because users are never removed, keep their identity and are never        *)
(* demoted; and e-mails come only from providers that vouch for them.        *)
(***************************************************************************)
EXTENDS Accounts, TLAPS

Labels(op) ==
  CASE op = "SignIn" -> {"find", "insert", "promote", "reply"}
    [] op = "Me" -> {"load", "promote", "reply"}
    [] op = "UpdateMe" -> {"name", "avatar", "load", "promote", "reply"}
    [] op = "Admin" -> {"gate", "admin"}

\* p has read its user's row, or was answered for it.
HasRow(p) == req[p].pc \in {"promote", "reply"} \/ (Answered200(p) /\ Op(p) # "Admin")

\* p's id is that of a user: its token names it, or it was read.
Known(p) == Op(p) # "SignIn" \/ HasRow(p)

LocalsOK(p) ==
  ~At(p, "idle") =>
    /\ req[p].call \in Call /\ req[p].pc \in Labels(Op(p)) \cup {"done"}
    /\ ~At(p, "done") => req[p].status = 0
    /\ Op(p) # "SignIn" => req[p].id = req[p].call.user
    /\ Known(p) => req[p].id \in UserId /\ users[req[p].id] # None
    /\ HasRow(p) => req[p].email \in Email
    /\ HasRow(p) /\ Op(p) = "SignIn" => users[req[p].id].identity = req[p].call.identity

\* The promotion that p is about to write is due; one that was due is written.
FlagsOK(p) ==
  ~At(p, "idle") =>
    /\ At(p, "promote") => /\ Configured(req[p].email)
                           /\ Vouched(users[req[p].id].identity, req[p].email.address)
    /\ HasRow(p) /\ ~At(p, "promote") /\ restarts = 0 /\ Configured(req[p].email) =>
         users[req[p].id].admin
    /\ At(p, "admin") \/ (Answered200(p) /\ Op(p) = "Admin") => users[req[p].id].admin

\* UNIQUE (auth_provider, auth_provider_id)
OneUserEach ==
  \A u, w \in UserId :
    users[u] # None /\ users[w] # None /\ users[u].identity = users[w].identity => u = w

\* The addresses on file are those that the users' own providers vouch for.
MailsVouched ==
  \A u \in UserId : users[u] # None /\ "address" \in DOMAIN users[u].email =>
    Vouched(users[u].identity, users[u].email.address)

\* p's edit of the column is done.
Edited(p, col) ==
  \/ req[p].pc \in {"load", "promote", "reply"} \/ Answered200(p)
  \/ col = "name" /\ At(p, "avatar")

ProfilesInOrder ==
  \A u \in DOMAIN OldUsers : users[u] # None /\ \A col \in {"name", "avatar"} :
    /\ Writers(u, col) = {} => users[u][col] = OldUsers[u][col]
    /\ \A p \in Request : Writers(u, col) = {p} /\ Edited(p, col) =>
         users[u][col] = req[p].call[col]

Inv ==
  /\ TypeOK /\ configured \in AdminLists
  /\ \A p \in Request : LocalsOK(p) /\ FlagsOK(p)
  /\ OneUserEach /\ MailsVouched /\ AdminsWereConfigured /\ ProfilesInOrder

-----------------------------------------------------------------------------
LEMMA CallTypes ==
  ASSUME NEW c \in Call
  PROVE  /\ c.op \in {"SignIn", "Me", "Admin", "UpdateMe"}
         /\ c.op = "SignIn" => c.identity \in Identity /\ Claimed(c) \in Email
         /\ c.op # "SignIn" => c.user \in UserId
         /\ c.op = "UpdateMe" => c.name \in Text \cup {None} /\ c.avatar \in Text \cup {None}
  BY DEF Call, Claimed, Email

LEMMA Sentinel == None \notin User /\ None \notin Email /\ None \notin Text
  BY AccountsAssumption DEF AccountsAssumption

LEMMA OldUsersTyped ==
  \A u \in DOMAIN OldUsers : u \in UserId /\ OldUsers[u] \in User
<1>1. /\ MaxUser \in Nat /\ OldUsers \in Seq(User) /\ Len(OldUsers) <= MaxUser
  BY AccountsAssumption DEF AccountsAssumption
<1> QED
  BY <1>1 DEF UserId

LEMMA InitInv == Init => Inv
<1> SUFFICES ASSUME Init PROVE Inv
  OBVIOUS
<1>1. \A p \in Request : req[p] = Idle
  BY DEF Init
<1>2. \A u \in UserId : users[u] = IF u \in DOMAIN OldUsers THEN OldUsers[u] ELSE None
  BY DEF Init
<1>3. TypeOK /\ configured \in AdminLists
  <2>1. users \in [UserId -> User \cup {None}]
    BY OldUsersTyped DEF Init
  <2>2. req \in [Request -> [pc: Label, call: Call \cup {None}, status: Nat,
                             id: UserId \cup {0}, email: Email \cup {None}]]
    BY DEF Init, Idle, Label
  <2> QED
    BY <2>1, <2>2, AccountsAssumption DEF Init, TypeOK, AccountsAssumption
<1>4. \A p \in Request : LocalsOK(p) /\ FlagsOK(p)
  BY <1>1 DEF LocalsOK, FlagsOK, At, Idle
<1>5. OneUserEach
  BY <1>2, AccountsAssumption DEF AccountsAssumption, OneUserEach
<1>6. MailsVouched
  BY <1>2 DEF MailsVouched, Vouched
<1>7. AdminsWereConfigured
  BY <1>2 DEF AdminsWereConfigured
<1>8. ProfilesInOrder
  <2>1. \A u \in DOMAIN OldUsers : users[u] = OldUsers[u] /\ users[u] # None
    BY <1>2, OldUsersTyped, Sentinel
  <2>2. \A p \in Request : \A col : ~Edited(p, col)
    BY <1>1 DEF Edited, Idle, At, Answered200
  <2> QED
    BY <2>1, <2>2 DEF ProfilesInOrder
<1> QED
  BY <1>3, <1>4, <1>5, <1>6, <1>7, <1>8 DEF Inv

-----------------------------------------------------------------------------
(* What one request's step leaves of the rest. *)

Locals == [pc: Label, call: Call \cup {None}, status: Nat,
           id: UserId \cup {0}, email: Email \cup {None}]

\* Users stay, with their identity and their flag.
RowsStay ==
  \A u \in UserId : users[u] # None =>
    /\ users'[u] # None /\ users'[u].identity = users[u].identity
    /\ users[u].admin => users'[u].admin

\* p is at l after its step, and the server still runs.
Moved(p, l) ==
  /\ req' \in [Request -> Locals]
  /\ req'[p] = l /\ \A q \in Request \ {p} : req'[q] = req[q]
  /\ l.pc # "idle" /\ (~At(p, "idle") => l.call = req[p].call)
  /\ UNCHANGED <<configured, restarts>>

LEMMA MovedLocals ==
  ASSUME TypeOK, NEW p \in Request, NEW l, Moved(p, l)
  PROVE  req'[p] = l /\ \A q \in Request \ {p} : req'[q] = req[q]
  BY DEF TypeOK, Moved

\* What was vouched for stays so.
LEMMA VouchedStays ==
  ASSUME TypeOK, NEW p \in Request, NEW l, Moved(p, l), NEW i, NEW a, Vouched(i, a)
  PROVE  Vouched(i, a)'
<1>1. \A q \in Request : ~At(q, "idle") => ~At(q, "idle")' /\ req'[q].call = req[q].call
  BY MovedLocals DEF Moved, At
<1> QED
  BY <1>1 DEF Vouched, Op

LEMMA OthersKeep ==
  ASSUME Inv, NEW p \in Request, NEW l, Moved(p, l), RowsStay, NEW q \in Request \ {p}
  PROVE  LocalsOK(q)' /\ FlagsOK(q)'
<1>1. TypeOK /\ LocalsOK(q) /\ FlagsOK(q)
  BY DEF Inv
<1>2. req'[q] = req[q] /\ configured' = configured /\ restarts' = restarts
  BY <1>1, MovedLocals DEF Moved
<1>3. LocalsOK(q)'
  BY <1>1, <1>2 DEF LocalsOK, Known, HasRow, Answered200, RowsStay, At, Op
<1>4. FlagsOK(q)'
  <2>1. SUFFICES ASSUME ~At(q, "idle") PROVE FlagsOK(q)'
    BY <1>2 DEF FlagsOK, At
  <2>3. Known(q) => /\ users'[req[q].id].identity = users[req[q].id].identity
                    /\ users[req[q].id].admin => users'[req[q].id].admin
    BY <1>1, <2>1 DEF LocalsOK, RowsStay
  <2>2. ASSUME At(q, "promote")
        PROVE  Vouched(users[req[q].id].identity, req[q].email.address)'
    <3> DEFINE same(i, a) == i = users[req[q].id].identity /\ a = req[q].email.address
    <3>1. ASSUME NEW i, NEW a, same(i, a) PROVE Vouched(i, a)'
      BY <1>1, <2>1, <2>2, <3>1, VouchedStays DEF FlagsOK
    <3>2. ASSUME NEW i, NEW a, same(i, a) 
          PROVE  (i = users[req[q].id].identity /\ a = req[q].email.address)'
      BY <1>1, <1>2, <2>1, <2>2, <2>3, <3>2 DEF Known, HasRow, At
    <3> QED
      BY <3>1, <3>2 DEF Vouched
  <2>4. HasRow(q) \/ Op(q) = "Admin" => Known(q)
    BY DEF Known
  <2>5. /\ At(q, "promote") \/ At(q, "reply") => HasRow(q)
        /\ At(q, "admin") => Op(q) = "Admin"
    <3>1. At(q, "admin") => Op(q) = "Admin"
      BY <1>1, <2>1, CallTypes DEF LocalsOK, Labels, At, Op
    <3> QED
      BY <3>1 DEF HasRow, At
  <2> QED
    BY <1>1, <1>2, <2>1, <2>2, <2>3, <2>4, <2>5
       DEF FlagsOK, HasRow, Configured, Vouched, Answered200, At, Op
<1> QED
  BY <1>3, <1>4

LEMMA SameTable ==
  ASSUME Inv, UNCHANGED users, \A i, a : Vouched(i, a) => Vouched(i, a)'
  PROVE  /\ RowsStay /\ users' \in [UserId -> User \cup {None}]
         /\ OneUserEach' /\ MailsVouched' /\ AdminsWereConfigured'
<1>1. TypeOK /\ OneUserEach /\ MailsVouched /\ AdminsWereConfigured
  BY DEF Inv
<1>2. RowsStay /\ users' \in [UserId -> User \cup {None}] /\ OneUserEach'
  BY <1>1 DEF RowsStay, TypeOK, OneUserEach
<1>3. \A i, a : Vouched(i, a) => Vouched(i, a)'
  OBVIOUS
<1>4. MailsVouched'
  <2>1. SUFFICES ASSUME NEW u \in UserId, users[u] # None, "address" \in DOMAIN users[u].email
                 PROVE  Vouched(users[u].identity, users[u].email.address)'
    BY DEF MailsVouched
  <2>2. Vouched(users[u].identity, users[u].email.address)
    BY <1>1, <2>1 DEF MailsVouched
  <2> QED
    BY <1>3, <2>2 DEF Vouched
<1>5. AdminsWereConfigured'
  <2>1. SUFFICES ASSUME NEW u \in UserId, users[u] # None, users[u].admin,
                        ~(u \in DOMAIN OldUsers /\ OldUsers[u].admin)
                 PROVE  \E address \in EverConfigured : Vouched(users[u].identity, address)'
    BY DEF AdminsWereConfigured
  <2>2. PICK address \in EverConfigured : Vouched(users[u].identity, address)
    BY <1>1, <2>1 DEF AdminsWereConfigured
  <2> QED
    BY <1>3, <2>2 DEF Vouched
<1> QED
  BY <1>2, <1>4, <1>5

\* Where p is tells what it was called for.
LEMMA OpAt ==
  ASSUME Inv, NEW p \in Request, ~At(p, "idle")
  PROVE  /\ req[p].call \in Call /\ req[p] \in Locals /\ LocalsOK(p)
         /\ At(p, "find") \/ At(p, "insert") => Op(p) = "SignIn"
         /\ At(p, "name") \/ At(p, "avatar") => Op(p) = "UpdateMe"
         /\ At(p, "load") => Op(p) \in {"Me", "UpdateMe"}
         /\ At(p, "gate") \/ At(p, "admin") => Op(p) = "Admin"
         /\ At(p, "promote") \/ At(p, "reply") => Op(p) # "Admin"
<1>1. req[p] \in Locals /\ LocalsOK(p)
  BY DEF Inv, TypeOK, Locals
<1>2. req[p].call \in Call /\ req[p].pc \in Labels(Op(p)) \cup {"done"}
  BY <1>1 DEF LocalsOK
<1>3. Op(p) \in {"SignIn", "Me", "Admin", "UpdateMe"}
  BY <1>2, CallTypes DEF Op
<1> QED
  BY <1>1, <1>2, <1>3 DEF Labels, At

\* A statement touches a column only for a call that writes it, and then to the call's text.
LEMMA ProfilesStay ==
  ASSUME Inv, NEW p \in Request, NEW l, Moved(p, l), ~At(p, "idle"),
         Op(p) = "UpdateMe" => l.id = req[p].id,
         \A u \in DOMAIN OldUsers : users'[u] # None /\ \A col \in {"name", "avatar"} :
           IF p \in Writers(u, col)
           THEN Edited(p, col)' => \/ users'[u][col] = req[p].call[col]
                                   \/ Edited(p, col) /\ users'[u][col] = users[u][col]
           ELSE users'[u][col] = users[u][col]
  PROVE  ProfilesInOrder'
<1>1. TypeOK /\ ProfilesInOrder
  BY DEF Inv
<1>2. req'[p] = l /\ \A q \in Request \ {p} : req'[q] = req[q]
  BY <1>1, MovedLocals
<1>3. \A u, col : Writers(u, col)' = Writers(u, col)
  BY <1>2 DEF Moved, Writers, At, Op
<1>4. SUFFICES ASSUME NEW u \in DOMAIN OldUsers, NEW col \in {"name", "avatar"}
               PROVE  (/\ Writers(u, col) = {} => users[u][col] = OldUsers[u][col]
                       /\ \A q \in Request : Writers(u, col) = {q} /\ Edited(q, col) =>
                            users[u][col] = req[q].call[col])'
  BY DEF ProfilesInOrder
<1>5. /\ Writers(u, col) = {} => users[u][col] = OldUsers[u][col]
      /\ \A q \in Request : Writers(u, col) = {q} /\ Edited(q, col) =>
           users[u][col] = req[q].call[col]
  BY <1>1 DEF ProfilesInOrder
<1>6. Writers(u, col) = {} => users'[u][col] = OldUsers[u][col]
  BY <1>5
<1>7. ASSUME NEW q \in Request, Writers(u, col) = {q}, Edited(q, col)'
      PROVE  users'[u][col] = req'[q].call[col]
  <2>1. CASE q = p
    BY <1>2, <1>5, <1>7, <2>1 DEF Moved
  <2>2. CASE q # p
    <3>1. Edited(q, col)
      BY <1>2, <1>7, <2>2 DEF Edited, Answered200, At
    <3> QED
      BY <1>2, <1>5, <1>7, <2>2, <3>1
  <2> QED
    BY <2>1, <2>2
<1> QED
  BY <1>3, <1>6, <1>7

\* What is left to show of p's step.
LEMMA StepInv ==
  ASSUME Inv, NEW p \in Request, NEW l, Moved(p, l), l \in Locals,
         RowsStay, users' \in [UserId -> User \cup {None}],
         LocalsOK(p)', FlagsOK(p)',
         OneUserEach', MailsVouched', AdminsWereConfigured', ProfilesInOrder'
  PROVE  Inv'
<1>1. TypeOK' /\ (configured \in AdminLists)'
  BY DEF Inv, TypeOK, Moved, Locals
<1>2. \A q \in Request : LocalsOK(q)' /\ FlagsOK(q)'
  BY OthersKeep
<1> QED
  BY <1>1, <1>2 DEF Inv

\* p is answered.
Answer(p, code) == [req[p] EXCEPT !.pc = "done", !.status = code]

\* The answer is an error.
LEMMA Failed ==
  ASSUME Inv, NEW p \in Request, NEW code \in {403, 404, 500}, ~At(p, "idle"),
         RowsStay, Reply(p, code), UNCHANGED <<configured, restarts>>
  PROVE  /\ Moved(p, Answer(p, code)) /\ Answer(p, code).id = req[p].id
         /\ LocalsOK(p)' /\ FlagsOK(p)' /\ \A col : ~Edited(p, col)'
<1> DEFINE l == [req[p] EXCEPT !.pc = "done", !.status = code]
<1>1. req[p].call \in Call /\ req[p] \in Locals /\ LocalsOK(p)
  BY OpAt
<1>0. code \in Nat /\ code # 200
  OBVIOUS
<1>2. l \in Locals /\ l.pc = "done" /\ l.status = code /\ l.call = req[p].call /\ l.id = req[p].id
  BY <1>0, <1>1 DEF Locals, Label
<1>3. Moved(p, l)
  <2>1. req \in [Request -> Locals]
    BY DEF Inv, TypeOK, Locals
  <2>2. [req EXCEPT ![p].pc = "done"][p] = [req[p] EXCEPT !.pc = "done"]
    BY <2>1
  <2>3. [[req[p] EXCEPT !.pc = "done"] EXCEPT !.status = code] = l
    BY <1>1 DEF Locals
  <2>4. req'[p] = l /\ DOMAIN req' = Request /\ \A q \in Request \ {p} : req'[q] = req[q]
    BY <2>1, <2>2, <2>3 DEF Reply
  <2>5. req' \in [Request -> Locals]
    BY <1>2, <2>1, <2>4 DEF Reply
  <2> QED
    BY <1>2, <2>4, <2>5 DEF Moved
<1>4. req'[p] = l
  BY <1>3, MovedLocals DEF Inv
<1>5. LocalsOK(p)'
  BY <1>0, <1>1, <1>2, <1>4 DEF LocalsOK, Known, HasRow, Answered200, RowsStay, At, Op
<1>6. FlagsOK(p)' /\ \A col : ~Edited(p, col)'
  BY <1>0, <1>2, <1>4 DEF FlagsOK, Edited, HasRow, Answered200, At
<1> QED
  BY <1>2, <1>3, <1>5, <1>6 DEF Answer

\* p at l, nothing else changed.
To(p, l) == [req[p] EXCEPT !.pc = l]

LEMMA Goes ==
  ASSUME Inv, NEW p \in Request, ~At(p, "idle"), NEW label \in Label \ {"idle"},
         Goto(p, label), UNCHANGED <<configured, restarts>>
  PROVE  /\ Moved(p, To(p, label))
         /\ To(p, label) = [pc |-> label, call |-> req[p].call, status |-> req[p].status,
                            id |-> req[p].id, email |-> req[p].email]
<1>1. req \in [Request -> Locals] /\ req[p] \in Locals
  BY OpAt DEF Inv, TypeOK, Locals
<1>2. To(p, label) = [pc |-> label, call |-> req[p].call, status |-> req[p].status,
                      id |-> req[p].id, email |-> req[p].email]
  BY <1>1 DEF To, Locals
<1>3. To(p, label) \in Locals
  BY <1>1, <1>2 DEF Locals
<1>4. req'[p] = To(p, label) /\ \A q \in Request \ {p} : req'[q] = req[q]
  BY <1>1 DEF Goto, To
<1>5. req' \in [Request -> Locals]
  BY <1>1, <1>3, <1>4 DEF Goto
<1> QED
  BY <1>2, <1>4, <1>5 DEF Moved

\* p has read its user's row as it is after the step.
Seen(p, u, row) ==
  [req[p] EXCEPT !.id = u, !.email = row.email,
                 !.pc = IF row.admin \/ ~Configured(row.email) THEN "reply" ELSE "promote"]

LEMMA Reading ==
  ASSUME Inv, NEW p \in Request, NEW u \in UserId, NEW row \in User,
         At(p, "find") \/ At(p, "insert") \/ At(p, "load"),
         HasRead(p, u, row), users'[u] = row, RowsStay, UNCHANGED <<configured, restarts>>,
         Op(p) = "SignIn" => row.identity = req[p].call.identity,
         Op(p) # "SignIn" => u = req[p].id,
         "address" \in DOMAIN row.email => Vouched(row.identity, row.email.address)
  PROVE  /\ Moved(p, Seen(p, u, row)) /\ LocalsOK(p)' /\ FlagsOK(p)'
         /\ Seen(p, u, row).id = u
<1> DEFINE l == Seen(p, u, row)
<1> DEFINE pc == IF row.admin \/ ~Configured(row.email) THEN "reply" ELSE "promote"
<1>1. /\ req \in [Request -> Locals] /\ req[p] \in Locals /\ ~At(p, "idle") /\ ~At(p, "done")
      /\ req[p].call \in Call /\ LocalsOK(p)
  BY OpAt DEF Inv, TypeOK, Locals, At
<1>2. Op(p) \in {"SignIn", "Me", "UpdateMe"}
  BY <1>1, OpAt
<1>3. row.email \in Email /\ pc \in {"promote", "reply"} /\ row # None
  BY Sentinel DEF User
<1>4. /\ l.pc = pc /\ l.call = req[p].call /\ l.status = req[p].status
      /\ l.id = u /\ l.email = row.email
  BY <1>1 DEF Seen, Locals
<1>5. l \in Locals
  <2>1. [req[p] EXCEPT !.id = u] \in Locals
    BY <1>1 DEF Locals
  <2>2. [req[p] EXCEPT !.id = u, !.email = row.email] \in Locals
    BY <1>3, <2>1 DEF Locals
  <2> QED
    BY <1>3, <2>2 DEF Seen, Locals, Label
<1>6. req'[p] = l /\ \A q \in Request \ {p} : req'[q] = req[q]
  <2>1. \A q \in Request \ {p} : req'[q] = req[q]
    BY <1>1 DEF HasRead
  <2>2. req'[p] = l
    <3>1. [req EXCEPT ![p].id = u][p] = [req[p] EXCEPT !.id = u]
      BY <1>1
    <3>2. [req EXCEPT ![p].id = u, ![p].email = row.email][p]
            = [req[p] EXCEPT !.id = u, !.email = row.email]
      BY <1>1, <3>1
    <3> QED
      BY <1>1, <3>2 DEF HasRead, Seen
  <2> QED
    BY <2>1, <2>2
<1>7. req' \in [Request -> Locals]
  BY <1>1, <1>5, <1>6 DEF HasRead
<1>8. Moved(p, l)
  BY <1>1, <1>3, <1>4, <1>6, <1>7 DEF Moved
<1>9. LocalsOK(p)'
  BY <1>1, <1>2, <1>3, <1>4, <1>6
     DEF LocalsOK, Labels, Known, HasRow, Answered200, At, Op
<1>10. FlagsOK(p)'
  <2>1. ASSUME pc = "promote" PROVE FlagsOK(p)'
    <3>1. Configured(row.email) /\ "address" \in DOMAIN row.email
      BY <2>1 DEF Configured
    <3>2. /\ At(p, "promote")' /\ ~At(p, "admin")' /\ ~Answered200(p)'
          /\ req'[p].email = row.email /\ req'[p].id = u /\ Configured(row.email)'
      BY <1>4, <1>6, <1>8, <2>1, <3>1 DEF At, Answered200, Configured, Moved
    <3>3. \A i, a : Vouched(i, a) => Vouched(i, a)'
      BY <1>8, VouchedStays DEF Inv
    <3>4. Vouched(users[req[p].id].identity, req[p].email.address)'
      BY <3>1, <3>2, <3>3 DEF Vouched
    <3>5. Configured(req[p].email)'
      BY <3>2 DEF Configured
    <3> QED
      BY <3>2, <3>4, <3>5 DEF FlagsOK
  <2>2. ASSUME pc = "reply" PROVE FlagsOK(p)'
    <3>1. row.admin \/ ~Configured(row.email)
      BY <2>2
    <3> QED
      BY <1>4, <1>6, <1>8, <2>2, <3>1 DEF FlagsOK, At, Answered200, Configured, Moved
  <2> QED
    BY <1>3, <2>1, <2>2
<1> QED
  BY <1>4, <1>8, <1>9, <1>10

\* The step leaves the table alone.
LEMMA Unchanging ==
  ASSUME Inv, NEW p \in Request, NEW l, Moved(p, l), ~At(p, "idle"), UNCHANGED users,
         LocalsOK(p)', FlagsOK(p)',
         Op(p) = "UpdateMe" =>
           l.id = req[p].id /\ \A col \in {"name", "avatar"} : Edited(p, col)' => Edited(p, col)
  PROVE  Inv'
<1>1. l \in Locals
  BY DEF Moved
<1>2. ProfilesInOrder'
  <2>1. \A u \in DOMAIN OldUsers : users'[u] # None
    BY DEF Inv, ProfilesInOrder
  <2>2. \A u, col : p \in Writers(u, col) => Op(p) = "UpdateMe"
    BY DEF Writers
  <2> QED
    BY <2>1, <2>2, ProfilesStay
<1>3. \A i, a : Vouched(i, a) => Vouched(i, a)'
  BY VouchedStays DEF Inv
<1> QED
  BY <1>1, <1>2, <1>3, SameTable, StepInv

LEMMA FailedInv ==
  ASSUME Inv, NEW p \in Request, NEW code \in {403, 404, 500}, ~At(p, "idle"),
         Reply(p, code), UNCHANGED <<users, configured, restarts>>
  PROVE  Inv'
<1>1. RowsStay /\ UNCHANGED <<configured, restarts>>
  BY DEF RowsStay
<1>2. /\ Moved(p, Answer(p, code)) /\ Answer(p, code).id = req[p].id
      /\ LocalsOK(p)' /\ FlagsOK(p)' /\ \A col : ~Edited(p, col)'
  BY <1>1, Failed
<1> QED
  BY <1>2, Unchanging

LEMMA FindUserInv ==
  ASSUME Inv, NEW p \in Request, FindUser(p)
  PROVE  Inv'
<1>1. /\ At(p, "find") /\ ~At(p, "idle") /\ Op(p) = "SignIn" /\ LocalsOK(p) /\ req[p].call \in Call
      /\ UNCHANGED <<users, configured, restarts>>
  BY OpAt DEF FindUser, At
<1>2. CASE Goto(p, "insert")
  <2>1. /\ Moved(p, To(p, "insert"))
        /\ To(p, "insert") = [pc |-> "insert", call |-> req[p].call, status |-> req[p].status,
                              id |-> req[p].id, email |-> req[p].email]
    BY <1>1, <1>2, Goes DEF Label
  <2>2. req'[p] = To(p, "insert")
    BY <2>1, MovedLocals DEF Inv
  <2>3. LocalsOK(p)' /\ FlagsOK(p)'
    BY <1>1, <2>1, <2>2
       DEF LocalsOK, FlagsOK, Labels, Known, HasRow, Answered200, At, Op
  <2> QED
    BY <1>1, <2>1, <2>3, Unchanging
<1>3. ASSUME NEW u \in Of(req[p].call.identity), HasRead(p, u, users[u]) PROVE Inv'
  <2>1. u \in UserId /\ users[u] \in User /\ users[u].identity = req[p].call.identity
    BY DEF Of, Inv, TypeOK
  <2>2. "address" \in DOMAIN users[u].email =>
          Vouched(users[u].identity, users[u].email.address)
    BY <2>1, Sentinel DEF Inv, MailsVouched
  <2>3. RowsStay
    BY <1>1 DEF RowsStay
  <2>4. Moved(p, Seen(p, u, users[u])) /\ LocalsOK(p)' /\ FlagsOK(p)'
    BY <1>1, <1>3, <2>1, <2>2, <2>3, Reading
  <2> QED
    BY <1>1, <2>4, Unchanging
<1> QED
  BY <1>2, <1>3 DEF FindUser

LEMMA LoadUserInv ==
  ASSUME Inv, NEW p \in Request, LoadUser(p)
  PROVE  Inv'
<1>1. /\ At(p, "load") /\ ~At(p, "idle") /\ Op(p) \in {"Me", "UpdateMe"} /\ LocalsOK(p)
      /\ UNCHANGED <<users, configured, restarts>>
  BY OpAt DEF LoadUser, At
<1>2. CASE users[req[p].id] = None
  BY <1>1, <1>2, FailedInv DEF LoadUser
<1>3. CASE users[req[p].id] # None
  <2> DEFINE u == req[p].id
  <2>1. u \in UserId /\ users[u] \in User /\ HasRead(p, u, users[u])
    BY <1>1, <1>3 DEF LoadUser, LocalsOK, Known, Inv, TypeOK
  <2>2. "address" \in DOMAIN users[u].email =>
          Vouched(users[u].identity, users[u].email.address)
    BY <1>3, <2>1 DEF Inv, MailsVouched
  <2>3. RowsStay
    BY <1>1 DEF RowsStay
  <2>4. /\ Moved(p, Seen(p, u, users[u])) /\ LocalsOK(p)' /\ FlagsOK(p)'
        /\ Seen(p, u, users[u]).id = u
    BY <1>1, <2>1, <2>2, <2>3, Reading
  <2>5. \A col : Edited(p, col)
    BY <1>1 DEF Edited, At
  <2> QED
    BY <1>1, <2>4, <2>5, Unchanging
<1> QED
  BY <1>2, <1>3

LEMMA GateInv ==
  ASSUME Inv, NEW p \in Request, Gate(p)
  PROVE  Inv'
<1>1. /\ At(p, "gate") /\ ~At(p, "idle") /\ Op(p) = "Admin" /\ LocalsOK(p) /\ req[p].call \in Call
      /\ UNCHANGED <<users, configured, restarts>>
  BY OpAt DEF Gate, At
<1>2. CASE Reply(p, 403)
  BY <1>1, <1>2, FailedInv
<1>3. CASE Goto(p, "admin") /\ users[req[p].id].admin
  <2>1. /\ Moved(p, To(p, "admin"))
        /\ To(p, "admin") = [pc |-> "admin", call |-> req[p].call, status |-> req[p].status,
                             id |-> req[p].id, email |-> req[p].email]
    BY <1>1, <1>3, Goes DEF Label
  <2>2. req'[p] = To(p, "admin")
    BY <2>1, MovedLocals DEF Inv
  <2>3. LocalsOK(p)' /\ FlagsOK(p)'
    BY <1>1, <1>3, <2>1, <2>2
       DEF LocalsOK, FlagsOK, Labels, Known, HasRow, Answered200, At, Op
  <2> QED
    BY <1>1, <2>1, <2>3, Unchanging
<1> QED
  BY <1>2, <1>3 DEF Gate

LEMMA CancelInv ==
  ASSUME Inv, NEW p \in Request, Cancel(p)
  PROVE  Inv'
<1>1. FailureCode(p) \in {403, 404, 500}
  BY DEF FailureCode
<1> QED
  BY <1>1, FailedInv DEF Cancel

LEMMA FinishInv ==
  ASSUME Inv, NEW p \in Request, Finish(p)
  PROVE  Inv'
<1>1. /\ At(p, "reply") \/ At(p, "admin")
      /\ ~At(p, "idle") /\ LocalsOK(p) /\ FlagsOK(p)
      /\ req[p].call \in Call /\ req[p] \in Locals /\ req \in [Request -> Locals]
      /\ UNCHANGED <<users, configured, restarts>>
      /\ At(p, "reply") => Op(p) # "Admin"
      /\ At(p, "admin") => Op(p) = "Admin"
  BY OpAt DEF Finish, At, Inv, TypeOK, Locals
<1> DEFINE l == Answer(p, 200)
<1>2. l \in Locals /\ l.pc = "done" /\ l.status = 200 /\ l.call = req[p].call /\ l.id = req[p].id
      /\ l.email = req[p].email
  BY <1>1, ZenonT(60) DEF Locals, Label, Answer
<1>3. Moved(p, l)
  <2>2. [req EXCEPT ![p].pc = "done"][p] = [req[p] EXCEPT !.pc = "done"]
    BY <1>1
  <2>3. [[req[p] EXCEPT !.pc = "done"] EXCEPT !.status = 200] = l
    BY <1>1 DEF Locals, Answer
  <2>4. req'[p] = l /\ DOMAIN req' = Request /\ \A q \in Request \ {p} : req'[q] = req[q]
    BY <1>1, <2>2, <2>3 DEF Finish, Reply
  <2>5. req' \in [Request -> Locals]
    BY <1>1, <1>2, <2>4 DEF Finish, Reply
  <2> QED
    BY <1>1, <1>2, <2>4, <2>5 DEF Moved
<1>4. req'[p] = l
  BY <1>3, MovedLocals DEF Inv
<1>5. LocalsOK(p)'
  BY <1>1, <1>2, <1>4 DEF LocalsOK, Known, HasRow, Answered200, At, Op
<1>6. FlagsOK(p)'
  BY <1>1, <1>2, <1>4 DEF FlagsOK, HasRow, Answered200, Configured, At, Op
<1>7. Op(p) = "UpdateMe" => \A col : Edited(p, col)
  BY <1>1 DEF Edited, At
<1> QED
  BY <1>1, <1>2, <1>3, <1>5, <1>6, <1>7, Unchanging

-----------------------------------------------------------------------------
(* Statements that write one row. *)

\* A row that user u may have next, as far as the invariant goes.
Fits(u, row) ==
  /\ IF users[u] = None THEN Of(row.identity) = {} ELSE row.identity = users[u].identity
  /\ users[u] # None /\ users[u].admin => row.admin
  /\ "address" \in DOMAIN row.email => Vouched(row.identity, row.email.address)
  /\ row.admin => \/ u \in DOMAIN OldUsers /\ OldUsers[u].admin
                  \/ \E address \in EverConfigured : Vouched(row.identity, address)

LEMMA OldRowFits ==
  ASSUME Inv, NEW u \in UserId, users[u] # None
  PROVE  users[u] \in User /\ Fits(u, users[u])
  BY DEF Fits, Inv, TypeOK, MailsVouched, AdminsWereConfigured

LEMMA OneRow ==
  ASSUME Inv, NEW p \in Request, NEW l, Moved(p, l),
         NEW u \in UserId, NEW row \in User, Fits(u, row),
         users' = [users EXCEPT ![u] = row]
  PROVE  /\ RowsStay /\ users' \in [UserId -> User \cup {None}] /\ users'[u] = row
         /\ \A w \in UserId \ {u} : users'[w] = users[w]
         /\ OneUserEach' /\ MailsVouched' /\ AdminsWereConfigured'
<1>1. TypeOK /\ OneUserEach /\ MailsVouched /\ AdminsWereConfigured
  BY DEF Inv
<1>2. /\ users' \in [UserId -> User \cup {None}] /\ users'[u] = row
      /\ \A w \in UserId \ {u} : users'[w] = users[w]
  BY <1>1 DEF TypeOK
<1>3. RowsStay
  BY <1>2, Sentinel DEF RowsStay, Fits
<1>4. \A w \in UserId \ {u} : users[w] # None => users[w].identity # row.identity
  BY <1>1 DEF Fits, Of, OneUserEach
<1>5. OneUserEach'
  BY <1>1, <1>2, <1>4 DEF OneUserEach
<1>6. \A i, a : Vouched(i, a) => Vouched(i, a)'
  BY <1>1, VouchedStays
<1>7. MailsVouched'
  <2>1. SUFFICES ASSUME NEW w \in UserId, users'[w] # None,
                        "address" \in DOMAIN users'[w].email
                 PROVE  Vouched(users[w].identity, users[w].email.address)'
    BY DEF MailsVouched
  <2>2. Vouched(users'[w].identity, users'[w].email.address)
    BY <1>1, <1>2, <2>1 DEF MailsVouched, Fits
  <2> QED
    BY <1>6, <2>2 DEF Vouched
<1>8. AdminsWereConfigured'
  <2>1. SUFFICES ASSUME NEW w \in UserId, users'[w] # None, users'[w].admin,
                        ~(w \in DOMAIN OldUsers /\ OldUsers[w].admin)
                 PROVE  \E address \in EverConfigured : Vouched(users[w].identity, address)'
    BY DEF AdminsWereConfigured
  <2>2. PICK address \in EverConfigured : Vouched(users'[w].identity, address)
    BY <1>1, <1>2, <2>1 DEF AdminsWereConfigured, Fits
  <2> QED
    BY <1>6, <2>2 DEF Vouched
<1> QED
  BY <1>2, <1>3, <1>5, <1>7, <1>8

LEMMA RowInv ==
  ASSUME Inv, NEW p \in Request, NEW l, Moved(p, l), ~At(p, "idle"),
         NEW u \in UserId, NEW row \in User, Fits(u, row),
         users' = [users EXCEPT ![u] = row],
         LocalsOK(p)', FlagsOK(p)', Op(p) = "UpdateMe" => l.id = req[p].id,
         u \in DOMAIN OldUsers => \A col \in {"name", "avatar"} :
           IF p \in Writers(u, col)
           THEN Edited(p, col)' => \/ row[col] = req[p].call[col]
                                   \/ Edited(p, col) /\ row[col] = users[u][col]
           ELSE row[col] = users[u][col],
         \A w \in DOMAIN OldUsers \ {u}, col \in {"name", "avatar"} :
           p \in Writers(w, col) /\ Edited(p, col)' => Edited(p, col)
  PROVE  Inv'
<1>1. /\ RowsStay /\ users' \in [UserId -> User \cup {None}] /\ users'[u] = row
      /\ \A w \in UserId \ {u} : users'[w] = users[w]
      /\ OneUserEach' /\ MailsVouched' /\ AdminsWereConfigured'
  BY OneRow
<1>2. ProfilesInOrder'
  <2>1. \A w \in DOMAIN OldUsers : w \in UserId /\ users'[w] # None
    BY <1>1, OldUsersTyped DEF RowsStay, Inv, ProfilesInOrder
  <2>2. ASSUME NEW w \in DOMAIN OldUsers, NEW col \in {"name", "avatar"}
        PROVE  IF p \in Writers(w, col)
               THEN Edited(p, col)' => \/ users'[w][col] = req[p].call[col]
                                       \/ Edited(p, col) /\ users'[w][col] = users[w][col]
               ELSE users'[w][col] = users[w][col]
    <3>1. CASE w = u
      BY <1>1, <3>1
    <3>2. CASE w # u
      BY <1>1, <2>1, <3>2
    <3> QED
      BY <3>1, <3>2
  <2> QED
    BY <2>1, <2>2, ProfilesStay
<1> QED
  BY <1>1, <1>2, StepInv DEF Moved

LEMMA PromoteInv ==
  ASSUME Inv, NEW p \in Request, Promote(p)
  PROVE  Inv'
<1> DEFINE u == req[p].id
<1> DEFINE row == [users[u] EXCEPT !.admin = TRUE]
<1>1. /\ At(p, "promote") /\ ~At(p, "idle") /\ Op(p) # "Admin" /\ LocalsOK(p) /\ FlagsOK(p)
      /\ req[p].call \in Call /\ req[p] \in Locals
      /\ UNCHANGED <<configured, restarts>>
  BY OpAt DEF Promote, At, Inv
<1>2. u \in UserId /\ users[u] # None
  BY <1>1 DEF LocalsOK, Known, HasRow, At
<1>3. users[u] \in User /\ Fits(u, users[u])
  BY <1>2, OldRowFits
<1>4. /\ row \in User /\ row.admin /\ row.identity = users[u].identity
      /\ row.email = users[u].email /\ row.name = users[u].name /\ row.avatar = users[u].avatar
  BY <1>3 DEF User
<1>5. users' = [users EXCEPT ![u] = row]
  BY DEF Promote
<1>6. Fits(u, row)
  <2>1. Configured(req[p].email) /\ Vouched(users[u].identity, req[p].email.address)
    BY <1>1 DEF FlagsOK
  <2>2. req[p].email.address \in EverConfigured
    BY <2>1 DEF Configured, EverConfigured, Inv
  <2> QED
    BY <1>2, <1>3, <1>4, <2>1, <2>2 DEF Fits
<1> HIDE DEF row
<1>7. ASSUME NEW l, Moved(p, l), LocalsOK(p)', FlagsOK(p)', l.id = req[p].id
      PROVE  Inv'
  <2>1. \A col : Edited(p, col)
    BY <1>1 DEF Edited, At
  <2> QED
    BY <1>1, <1>2, <1>4, <1>5, <1>6, <1>7, <2>1, RowInv
<1>8. CASE Goto(p, "reply")
  <2>1. /\ Moved(p, To(p, "reply"))
        /\ To(p, "reply") = [pc |-> "reply", call |-> req[p].call, status |-> req[p].status,
                             id |-> req[p].id, email |-> req[p].email]
    BY <1>1, <1>8, Goes DEF Label
  <2>2. req'[p] = To(p, "reply")
    BY <2>1, MovedLocals DEF Inv
  <2>3. users'[u] = row
    BY <1>2, <1>5 DEF Inv, TypeOK
  <2>4. LocalsOK(p)' /\ FlagsOK(p)'
    BY <1>1, <1>2, <1>4, <2>1, <2>2, <2>3, Sentinel, CallTypes
       DEF LocalsOK, FlagsOK, Labels, Known, HasRow, Answered200, At, Op
  <2> QED
    BY <1>7, <2>1, <2>4
<1>9. CASE Reply(p, 500)
  <2>1. RowsStay
    BY <1>2, <1>4, <1>5, Sentinel DEF RowsStay, Inv, TypeOK
  <2> QED
    BY <1>1, <1>7, <1>9, <2>1, Failed
<1> QED
  BY <1>8, <1>9 DEF Promote

LEMMA SetColumn ==
  ASSUME Inv, NEW p \in Request, NEW col \in {"name", "avatar"}, NEW next \in {"avatar", "load"},
         At(p, col), next = IF col = "name" THEN "avatar" ELSE "load",
         users' = [users EXCEPT ![req[p].id] = Patched(@, col, req[p].call[col])],
         Goto(p, next) \/ Reply(p, 500), UNCHANGED <<configured, restarts>>
  PROVE  Inv'
<1> DEFINE u == req[p].id
<1> DEFINE row == Patched(users[u], col, req[p].call[col])
<1>1. /\ ~At(p, "idle") /\ Op(p) = "UpdateMe" /\ LocalsOK(p)
      /\ req[p].call \in Call /\ req[p] \in Locals
  BY OpAt DEF At
<1>2. u \in UserId /\ users[u] # None /\ req[p].call[col] \in Text \cup {None}
  BY <1>1, CallTypes DEF LocalsOK, Known, Op
<1>3. users[u] \in User /\ Fits(u, users[u])
  BY <1>2, OldRowFits
<1>4. /\ row \in User /\ row.admin = users[u].admin /\ row.identity = users[u].identity
      /\ row.email = users[u].email
      /\ \A other \in {"name", "avatar"} \ {col} : row[other] = users[u][other]
      /\ row[col] = IF req[p].call[col] = None THEN users[u][col] ELSE req[p].call[col]
  <2>1. CASE col = "name"
    BY <1>2, <1>3, <2>1 DEF Patched, User
  <2>2. CASE col = "avatar"
    BY <1>2, <1>3, <2>2 DEF Patched, User
  <2> QED
    BY <2>1, <2>2
<1>5. users' = [users EXCEPT ![u] = row]
  OBVIOUS
<1> HIDE DEF row
<1>6. Fits(u, row)
  BY <1>2, <1>3, <1>4 DEF Fits
<1>7. ASSUME NEW l, Moved(p, l), LocalsOK(p)', FlagsOK(p)', l.id = u,
             \A c \in {"name", "avatar"} : Edited(p, c)' => c = col \/ Edited(p, c)
      PROVE  Inv'
  <2>1. \A w, c : p \in Writers(w, c) <=> w = u /\ req[p].call[c] # None
    BY <1>1 DEF Writers
  <2> QED
    BY <1>1, <1>2, <1>4, <1>5, <1>6, <1>7, <2>1, RowInv, ZenonT(60)
<1>8. CASE Goto(p, next)
  <2>1. /\ Moved(p, To(p, next))
        /\ To(p, next) = [pc |-> next, call |-> req[p].call, status |-> req[p].status,
                          id |-> req[p].id, email |-> req[p].email]
    BY <1>1, <1>8, Goes DEF Label
  <2>2. req'[p] = To(p, next)
    BY <2>1, MovedLocals DEF Inv
  <2>3. users'[u] = row /\ row # None
    BY <1>2, <1>4, <1>5, Sentinel DEF Inv, TypeOK
  <2>4. LocalsOK(p)' /\ FlagsOK(p)'
    BY <1>1, <1>2, <1>4, <2>1, <2>2, <2>3
       DEF LocalsOK, FlagsOK, Labels, Known, HasRow, Answered200, At, Op
  <2>5. \A c \in {"name", "avatar"} : Edited(p, c)' => c = col \/ Edited(p, c)
    BY <1>1, <2>1, <2>2 DEF Edited, Answered200, At
  <2> QED
    BY <1>7, <2>1, <2>4, <2>5
<1>9. CASE Reply(p, 500)
  <2>1. RowsStay
    BY <1>2, <1>4, <1>5, Sentinel DEF RowsStay, Inv, TypeOK
  <2> QED
    BY <1>1, <1>7, <1>9, <2>1, Failed
<1> QED
  BY <1>8, <1>9

LEMMA InsertUserInv ==
  ASSUME Inv, NEW p \in Request, InsertUser(p)
  PROVE  Inv'
<1> DEFINE c == req[p].call
<1>1. /\ At(p, "insert") /\ ~At(p, "idle") /\ Op(p) = "SignIn" /\ LocalsOK(p)
      /\ c \in Call /\ req[p] \in Locals
      /\ UNCHANGED <<configured, restarts>>
  BY OpAt DEF InsertUser, At
<1>2. c.identity \in Identity /\ Claimed(c) \in Email
  BY <1>1, CallTypes DEF Op
<1>3. PICK u \in Slot(c.identity), name \in Text :
        IF Taken(Claimed(c), u)
        THEN Reply(p, 500) /\ UNCHANGED users
        ELSE LET row == IF users[u] = None THEN NewUser(c, name)
                        ELSE Upserted(users[u], NewUser(c, name))
             IN  /\ users' = [users EXCEPT ![u] = row]
                 /\ HasRead(p, u, row) \/ Reply(p, 500)
  BY DEF InsertUser
<1>4. CASE Taken(Claimed(c), u)
  BY <1>1, <1>3, <1>4, FailedInv
<1>5. CASE ~Taken(Claimed(c), u)
  <2> DEFINE row == IF users[u] = None THEN NewUser(c, name)
                    ELSE Upserted(users[u], NewUser(c, name))
  <2>1. u \in UserId /\ (users[u] # None => users[u] \in User /\ Fits(u, users[u]))
    BY OldRowFits DEF Slot, Of
  <2>2. /\ users[u] # None => users[u].identity = c.identity
        /\ users[u] = None => Of(c.identity) = {}
    BY <2>1 DEF Slot, Of
  <2>3. /\ row \in User /\ row.identity = c.identity /\ row.email = Claimed(c)
        /\ users[u] = None => ~row.admin
        /\ users[u] # None => /\ row.admin = users[u].admin /\ row.name = users[u].name
                              /\ row.avatar = users[u].avatar
    <3>1. NewUser(c, name) \in User
      BY <1>2 DEF NewUser, User
    <3>2. CASE users[u] = None
      BY <3>1, <3>2 DEF NewUser
    <3>3. CASE users[u] # None
      BY <1>2, <2>1, <2>2, <3>1, <3>3 DEF NewUser, Upserted, User
    <3> QED
      BY <3>2, <3>3
  <2>4. users' = [users EXCEPT ![u] = row] /\ (HasRead(p, u, row) \/ Reply(p, 500))
    BY <1>3, <1>5
  <2> HIDE DEF row
  <2>5. "address" \in DOMAIN row.email => Vouched(row.identity, row.email.address)
    <3>1. SUFFICES ASSUME "address" \in DOMAIN Claimed(c)
                   PROVE  Vouched(c.identity, Claimed(c).address)
      BY <2>3
    <3>2. c.email # None /\ Claimed(c) = c.email
      BY <3>1 DEF Claimed
    <3> QED
      BY <1>1, <3>2 DEF Vouched, Op
  <2>6. Fits(u, row)
    BY <2>1, <2>2, <2>3, <2>5 DEF Fits
  <2>7. users'[u] = row /\ RowsStay
    <3>1. users'[u] = row /\ \A w \in UserId \ {u} : users'[w] = users[w]
      BY <2>1, <2>4 DEF Inv, TypeOK
    <3> QED
      BY <2>3, <2>6, <3>1, Sentinel DEF RowsStay, Fits
  <2>8. ASSUME NEW l, Moved(p, l), LocalsOK(p)', FlagsOK(p)'
        PROVE  Inv'
    <3>1. \A w, col : p \notin Writers(w, col)
      BY <1>1 DEF Writers
    <3>2. u \in DOMAIN OldUsers => users[u] # None
      BY DEF Inv, ProfilesInOrder
    <3>3. u \in DOMAIN OldUsers => \A col \in {"name", "avatar"} : row[col] = users[u][col]
      BY <2>3, <3>2
    <3> QED
      BY <1>1, <2>1, <2>3, <2>4, <2>6, <2>8, <3>1, <3>3, RowInv
  <2>9. CASE HasRead(p, u, row)
    BY <1>1, <2>1, <2>3, <2>5, <2>7, <2>8, <2>9, Reading
  <2>10. CASE Reply(p, 500)
    BY <1>1, <2>7, <2>8, <2>10, Failed
  <2> QED
    BY <2>4, <2>9, <2>10
<1> QED
  BY <1>4, <1>5

-----------------------------------------------------------------------------
(* Arrivals, restarts *)

LEMMA ReceiveInv ==
  ASSUME Inv, NEW p \in Request, Receive(p)
  PROVE  Inv'
<1>1. At(p, "idle") /\ UNCHANGED <<users, configured, restarts>>
  BY DEF Receive
<1>2. PICK c \in Calls :
        /\ c.op # "SignIn" => c.user \in Issued
        /\ req' = [req EXCEPT ![p] =
                     [Idle EXCEPT !.pc = Entry(c), !.call = c,
                                  !.id = IF c.op = "SignIn" THEN 0 ELSE c.user]]
  BY DEF Receive
<1> DEFINE l == [Idle EXCEPT !.pc = Entry(c), !.call = c,
                             !.id = IF c.op = "SignIn" THEN 0 ELSE c.user]
<1>3. /\ l.pc = Entry(c) /\ l.call = c /\ l.status = 0 /\ l.email = None
      /\ l.id = IF c.op = "SignIn" THEN 0 ELSE c.user
      /\ req' = [req EXCEPT ![p] = l]
  BY <1>2 DEF Idle
<1>4. c \in Call /\ c.op \in {"SignIn", "Me", "Admin", "UpdateMe"}
  BY CallTypes, AccountsAssumption DEF AccountsAssumption
<1>5. c.op # "SignIn" => c.user \in UserId /\ users[c.user] # None
  <2>1. SUFFICES ASSUME c.op # "SignIn" PROVE c.user \in UserId /\ users[c.user] # None
    OBVIOUS
  <2>2. CASE c.user \in DOMAIN OldUsers
    BY <2>2, OldUsersTyped DEF Inv, ProfilesInOrder
  <2>3. ASSUME NEW q \in Request, At(q, "done"), Op(q) = "SignIn", req[q].status = 200,
               c.user = req[q].id
        PROVE  c.user \in UserId /\ users[c.user] # None
    BY <2>3 DEF Inv, LocalsOK, Known, HasRow, Answered200, At
  <2> QED
    BY <1>2, <2>1, <2>2, <2>3 DEF Issued
<1>6. Entry(c) = CASE c.op = "SignIn" -> "find" [] c.op = "Me" -> "load"
                   [] c.op = "UpdateMe" -> "name" [] c.op = "Admin" -> "gate"
  BY DEF Entry
<1>7. l \in Locals /\ Entry(c) \in Labels(c.op) /\ Entry(c) \in {"find", "load", "name", "gate"}
  <2>1. Entry(c) \in Labels(c.op) /\ Entry(c) \in {"find", "load", "name", "gate"}
    BY <1>4, <1>6 DEF Labels
  <2>2. [Idle EXCEPT !.pc = Entry(c)] \in Locals
    BY <2>1 DEF Locals, Label, Idle
  <2>3. [Idle EXCEPT !.pc = Entry(c), !.call = c] \in Locals
    BY <1>4, <2>2 DEF Locals
  <2>4. l \in Locals
    BY <1>5, <2>3 DEF Locals
  <2> QED
    BY <2>1, <2>4
<1> HIDE DEF l
<1>8. Moved(p, l)
  BY <1>1, <1>3, <1>7 DEF Moved, Inv, TypeOK, Locals, At
<1>9. req'[p] = l /\ \A q \in Request \ {p} : req'[q] = req[q]
  BY <1>8, MovedLocals DEF Inv
<1>10. LocalsOK(p)'
  BY <1>1, <1>3, <1>4, <1>5, <1>7, <1>9 DEF LocalsOK, Known, HasRow, Answered200, At, Op
<1>11. FlagsOK(p)'
  BY <1>3, <1>7, <1>9 DEF FlagsOK, HasRow, Answered200, At
<1>12. ProfilesInOrder'
  <2>1. SUFFICES ASSUME NEW u \in DOMAIN OldUsers, NEW col \in {"name", "avatar"}
                 PROVE  (/\ users[u] # None
                         /\ Writers(u, col) = {} => users[u][col] = OldUsers[u][col]
                         /\ \A q \in Request : Writers(u, col) = {q} /\ Edited(q, col) =>
                              users[u][col] = req[q].call[col])'
    BY DEF ProfilesInOrder
  <2>2. /\ users[u] # None
        /\ Writers(u, col) = {} => users[u][col] = OldUsers[u][col]
        /\ \A q \in Request : Writers(u, col) = {q} /\ Edited(q, col) =>
             users[u][col] = req[q].call[col]
    BY DEF Inv, ProfilesInOrder
  <2>3. p \notin Writers(u, col) /\ (p \in Writers(u, col)' => ~Edited(p, col)')
    BY <1>1, <1>3, <1>6, <1>9 DEF Writers, Edited, Answered200, At, Op
  <2>4. \A q \in Request \ {p} : /\ q \in Writers(u, col)' <=> q \in Writers(u, col)
                                 /\ Edited(q, col)' <=> Edited(q, col)
    BY <1>9 DEF Writers, Edited, Answered200, At, Op
  <2>5. Writers(u, col) \subseteq Writers(u, col)' /\ Writers(u, col)' \subseteq Request
    <3>1. \A q \in Writers(u, col) : q \in Request
      BY DEF Writers
    <3>2. \A q \in Writers(u, col)' : q \in Request
      BY DEF Writers
    <3> QED
      BY <2>3, <2>4, <3>1, <3>2
  <2>6. Writers(u, col)' = {} => users'[u][col] = OldUsers[u][col]
    BY <1>1, <2>2, <2>5
  <2>7. ASSUME NEW q \in Request, Writers(u, col)' = {q}, Edited(q, col)'
        PROVE  users'[u][col] = req'[q].call[col]
    <3>1. q # p
      BY <2>3, <2>7
    <3>2. Writers(u, col) = {q} /\ Edited(q, col)
      BY <2>3, <2>4, <2>5, <2>7, <3>1
    <3> QED
      BY <1>1, <1>9, <2>2, <3>1, <3>2
  <2> QED
    BY <1>1, <2>2, <2>6, <2>7
<1>13. \A i, a : Vouched(i, a) => Vouched(i, a)'
  BY <1>8, VouchedStays DEF Inv
<1> QED
  BY <1>1, <1>7, <1>8, <1>10, <1>11, <1>12, <1>13, SameTable, StepInv

LEMMA RestartInv ==
  ASSUME Inv, Restart
  PROVE  Inv'
<1>1. /\ restarts < MaxRestart /\ restarts' = restarts + 1 /\ configured' \in AdminLists
      /\ req' = [p \in Request |-> IF At(p, "idle") THEN req[p]
                                   ELSE [req[p] EXCEPT !.pc = "done"]]
      /\ users' = users
  BY DEF Restart
<1>2. /\ req \in [Request -> Locals] /\ MaxRestart \in Nat /\ restarts \in 0..MaxRestart
      /\ AdminLists \subseteq SUBSET Address
  BY AccountsAssumption DEF Inv, TypeOK, Locals, AccountsAssumption
<1>3. \A p \in Request : At(p, "idle") => req'[p] = req[p]
  BY <1>1
<1>4. \A p \in Request : ~At(p, "idle") =>
        /\ req'[p].pc = "done" /\ req'[p].call = req[p].call /\ req'[p].status = req[p].status
        /\ req'[p].id = req[p].id /\ req'[p].email = req[p].email
  BY <1>1, <1>2 DEF Locals
<1>5. TypeOK' /\ (configured \in AdminLists)'
  <2>1. req' \in [Request -> Locals]
    BY <1>1, <1>2 DEF Locals, Label
  <2> QED
    BY <1>1, <1>2, <2>1 DEF Inv, TypeOK, Locals
<1>6. \A p \in Request : Answered200(p)' <=> Answered200(p)
  <2>1. \A p \in Request : ~At(p, "idle") /\ ~At(p, "done") => req[p].status = 0
    BY DEF Inv, LocalsOK
  <2> QED
    BY <1>3, <1>4, <2>1 DEF Answered200, At
<1>7. ASSUME NEW p \in Request
      PROVE  LocalsOK(p)' /\ FlagsOK(p)'
  <2>1. LocalsOK(p) /\ FlagsOK(p)
    BY DEF Inv
  <2>2. CASE At(p, "idle")
    BY <1>3, <2>2 DEF LocalsOK, FlagsOK, At
  <2>3. CASE ~At(p, "idle")
    <3>1. /\ At(p, "done")' /\ ~At(p, "idle")' /\ ~At(p, "promote")' /\ ~At(p, "admin")'
          /\ Op(p)' = Op(p) /\ (HasRow(p)' => HasRow(p)) /\ (Known(p)' => Known(p))
      BY <1>4, <1>6, <2>3 DEF At, Op, HasRow, Known
    <3>2. LocalsOK(p)'
      BY <1>1, <1>4, <1>6, <2>1, <2>3, <3>1 DEF LocalsOK, At, Op
    <3>3. restarts' # 0
      BY <1>1, <1>2
    <3> QED
      BY <1>1, <1>4, <1>6, <2>1, <2>3, <3>1, <3>2, <3>3 DEF FlagsOK
  <2> QED
    BY <2>2, <2>3
<1>8. OneUserEach' /\ MailsVouched' /\ AdminsWereConfigured'
  <2>1. \A i, a : Vouched(i, a) => Vouched(i, a)'
    BY <1>4 DEF Vouched, At, Op
  <2> QED
    BY <1>1, <2>1, SameTable
<1>9. ProfilesInOrder'
  <2>1. \A u, col : Writers(u, col)' = Writers(u, col)
    BY <1>3, <1>4 DEF Writers, At, Op
  <2>2. ASSUME NEW p \in Request, NEW col, ~At(p, "idle"), Edited(p, col)'
        PROVE  Edited(p, col) /\ req'[p].call = req[p].call
    BY <1>4, <1>6, <2>2 DEF Edited, At
  <2>3. \A p, u, col : Writers(u, col) = {p} => p \in Request /\ ~At(p, "idle")
    BY DEF Writers
  <2>4. SUFFICES ASSUME NEW u \in DOMAIN OldUsers, NEW col \in {"name", "avatar"}
                 PROVE  (/\ users[u] # None
                         /\ Writers(u, col) = {} => users[u][col] = OldUsers[u][col]
                         /\ \A q \in Request : Writers(u, col) = {q} /\ Edited(q, col) =>
                              users[u][col] = req[q].call[col])'
    BY DEF ProfilesInOrder
  <2>5. /\ users[u] # None
        /\ Writers(u, col) = {} => users[u][col] = OldUsers[u][col]
        /\ \A q \in Request : Writers(u, col) = {q} /\ Edited(q, col) =>
             users[u][col] = req[q].call[col]
    BY DEF Inv, ProfilesInOrder
  <2>6. ASSUME NEW q \in Request, Writers(u, col)' = {q}, Edited(q, col)'
        PROVE  users'[u][col] = req'[q].call[col]
    BY <1>1, <2>1, <2>2, <2>3, <2>5, <2>6
  <2> QED
    BY <1>1, <2>1, <2>5, <2>6
<1> QED
  BY <1>5, <1>7, <1>8, <1>9 DEF Inv

LEMMA NextInv == Inv /\ [Next]_vars => Inv'
<1> SUFFICES ASSUME Inv, [Next]_vars PROVE Inv'
  OBVIOUS
<1>1. CASE Restart
  BY <1>1, RestartInv
<1>2. ASSUME NEW p \in Request, Receive(p) \/ Step(p) \/ Cancel(p) PROVE Inv'
  <2>1. CASE Receive(p)
    BY <2>1, ReceiveInv
  <2>2. CASE SignIn(p)
    BY <2>2, FindUserInv, InsertUserInv, PromoteInv DEF SignIn
  <2>3. CASE LoadUser(p)
    BY <2>3, LoadUserInv
  <2>4. CASE SetName(p)
    <3>1. Goto(p, "avatar") \/ Reply(p, 500)
      BY <2>4 DEF SetName
    <3> QED
      BY <2>4, <3>1, SetColumn DEF SetName
  <2>5. CASE SetAvatar(p)
    <3>1. Goto(p, "load") \/ Reply(p, 500)
      BY <2>5 DEF SetAvatar
    <3> QED
      BY <2>5, <3>1, SetColumn DEF SetAvatar
  <2>6. CASE Gate(p) \/ Finish(p) \/ Cancel(p)
    BY <2>6, GateInv, FinishInv, CancelInv
  <2> QED
    BY <1>2, <2>1, <2>2, <2>3, <2>4, <2>5, <2>6 DEF Step, Profile
<1>3. CASE UNCHANGED vars
  BY <1>3, SMTT(30) DEF vars, Inv, TypeOK, LocalsOK, FlagsOK, HasRow, Known, OneUserEach, MailsVouched,
              AdminsWereConfigured, ProfilesInOrder, Edited, Writers, Vouched, Configured,
              Answered200, At, Op
<1> QED
  BY <1>1, <1>2, <1>3 DEF Next

\* The invariant holds of every state: what requests have read stays true of the table.
THEOREM Invariant == Spec => []Inv
  BY InitInv, NextInv, PTL DEF Spec

-----------------------------------------------------------------------------
(* The properties *)

LEMMA InvImplies ==
  Inv => /\ TypeOK /\ SignInsAgree /\ AdminsWereConfigured /\ ConfiguredAreAdmins
         /\ PastGateIsAdmin /\ ProfilesKeepEdits
<1> SUFFICES ASSUME Inv
             PROVE  /\ TypeOK /\ SignInsAgree /\ AdminsWereConfigured /\ ConfiguredAreAdmins
                    /\ PastGateIsAdmin /\ ProfilesKeepEdits
  OBVIOUS
<1>1. TypeOK /\ AdminsWereConfigured /\ OneUserEach /\ ProfilesInOrder
  BY DEF Inv
<1>2. ASSUME NEW p \in Request, Answered200(p)
      PROVE  /\ ~At(p, "idle") /\ ~At(p, "promote") /\ LocalsOK(p) /\ FlagsOK(p)
             /\ Op(p) # "Admin" => HasRow(p) /\ Known(p)
  BY <1>2 DEF Inv, Answered200, At, HasRow, Known
<1>3. SignInsAgree
  <2>1. SUFFICES ASSUME NEW p \in Request, NEW q \in Request,
                        Answered200(p), Op(p) = "SignIn", Answered200(q), Op(q) = "SignIn",
                        req[p].call.identity = req[q].call.identity
                 PROVE  /\ req[p].id = req[q].id
                        /\ users[req[p].id] # None
                        /\ users[req[p].id].identity = req[p].call.identity
    BY DEF SignInsAgree
  <2>2. \A r \in {p, q} : /\ req[r].id \in UserId /\ users[req[r].id] # None
                          /\ users[req[r].id].identity = req[r].call.identity
    BY <1>2, <2>1 DEF LocalsOK
  <2> QED
    BY <1>1, <2>1, <2>2 DEF OneUserEach
<1>4. ConfiguredAreAdmins
  BY <1>2 DEF ConfiguredAreAdmins, FlagsOK
<1>5. PastGateIsAdmin
  <2>1. \A p \in Request : At(p, "admin") => ~At(p, "idle") /\ FlagsOK(p)
    BY DEF Inv, At
  <2> QED
    BY <1>2, <2>1 DEF PastGateIsAdmin, FlagsOK
<1>6. ProfilesKeepEdits
  BY <1>1 DEF ProfilesKeepEdits, ProfilesInOrder, Edited
<1> QED
  BY <1>1, <1>3, <1>4, <1>5, <1>6

\* Every row, call and local of a request keeps its type.
THEOREM TypeCorrect == Spec => []TypeOK
  BY Invariant, InvImplies, PTL

\* Sign-ins of one identity are answered with one user, however they race or fail: the
\* UPSERT and the SELECT before it find the row that UNIQUE lets there be one of.
THEOREM Agreement == Spec => []SignInsAgree
  BY Invariant, InvImplies, PTL

\* No one is promoted but for an address that ADMIN_EMAILS lists and their own provider
\* vouched for, though the row is read and the flag is set in two statements.
THEOREM Promotions == Spec => []AdminsWereConfigured
  BY Invariant, InvImplies, PTL

\* Whoever was answered for a configured address is an admin, until the list is changed.
THEOREM Granted == Spec => []ConfiguredAreAdmins
  BY Invariant, InvImplies, PTL

\* The flag that RequireAdmin has read holds until the handler behind it has ended.
THEOREM GateHolds == Spec => []PastGateIsAdmin
  BY Invariant, InvImplies, PTL

\* Edits of a profile are kept, column by column, whatever sign-ins race with them.
THEOREM EditsKept == Spec => []ProfilesKeepEdits
  BY Invariant, InvImplies, PTL
=============================================================================
