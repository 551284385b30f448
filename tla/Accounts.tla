------------------------------ MODULE Accounts ------------------------------
(***************************************************************************)
(* The table users as sign-ins, /me and the admin gate use it (auth.go,     *)
(* middleware/auth.go).  Every statement is a transaction of its own, so     *)
(* what a handler has read may be old when it acts on it.  An element of     *)
(* Request is one HTTP request, stepped through its handler.                 *)
(*                                                                         *)
(* A sign-in starts with what the identity provider vouches for: an identity *)
(* (provider and sub) and perhaps an e-mail.  A token is the id it was       *)
(* issued for; Verify lets it by as long as it lives.                        *)
(***************************************************************************)
EXTENDS Integers, Sequences, FiniteSets

CONSTANTS
  Request,     \* the HTTP requests; at most one arrival each
  Identity,    \* (auth_provider, auth_provider_id)
  Address,     \* e-mail addresses, up to case and surrounding space
  Spelling,    \* the texts one address may be written as; UNIQUE tells them apart
  Text,        \* display names and avatar URLs
  Calls,       \* the calls that may arrive in this instance
  AdminLists,  \* the values ADMIN_EMAILS may be given
  OldUsers,    \* the users there are when the server is first started
  MaxUser,     \* bound: at most MaxUser users are ever numbered
  MaxRestart,  \* bound: at most MaxRestart restarts
  None

UserId == 1..MaxUser

\* An address as some text, or what stands in for an address nobody was told.
Email == [address: Address, spelling: Spelling] \cup [local: Identity]

User == [identity: Identity, email: Email, admin: BOOLEAN, name: Text, avatar: Text]

Call ==
  [op: {"SignIn"}, identity: Identity, email: [address: Address, spelling: Spelling] \cup {None}]
    \cup [op: {"Me", "Admin"}, user: UserId]
    \cup [op: {"UpdateMe"}, user: UserId, name: Text \cup {None}, avatar: Text \cup {None}]

ASSUME AccountsAssumption ==
  /\ MaxUser \in Nat /\ MaxRestart \in Nat
  /\ Calls \subseteq Call
  /\ AdminLists \subseteq SUBSET Address
  /\ OldUsers \in Seq(User) /\ Len(OldUsers) <= MaxUser
  /\ \A m, n \in DOMAIN OldUsers : m # n =>
       OldUsers[m].identity # OldUsers[n].identity /\ OldUsers[m].email # OldUsers[n].email
  /\ None \notin User \cup Text \cup Email
-----------------------------------------------------------------------------
VARIABLES
  users,       \* table users, by id; None when there is no such row
  configured,  \* cfg.AdminEmails of the running server
  restarts,    \* restarts so far
  req          \* per request: the label of its next statement and its locals

vars == <<users, configured, restarts, req>>

Idle == [pc |-> "idle", call |-> None, status |-> 0,
         id |-> 0,              \* user.ID, or the token's
         email |-> None]        \* user.Email as it was read

Init ==
  /\ users = [u \in UserId |-> IF u \in DOMAIN OldUsers THEN OldUsers[u] ELSE None]
  /\ configured \in AdminLists
  /\ restarts = 0
  /\ req = [p \in Request |-> Idle]

At(p, label) == req[p].pc = label
Op(p) == req[p].call.op
Goto(p, label) == req' = [req EXCEPT ![p].pc = label]
Reply(p, code) == req' = [req EXCEPT ![p].pc = "done", ![p].status = code]

\* The users of an identity: none or one, by UNIQUE (auth_provider, auth_provider_id).
Of(identity) == {u \in UserId : users[u] # None /\ users[u].identity = identity}

-----------------------------------------------------------------------------
(* Arrival; the token of the others was issued by a sign-in, or earlier.    *)

Issued ==
  DOMAIN OldUsers
    \cup {req[q].id : q \in {r \in Request : /\ At(r, "done") /\ Op(r) = "SignIn"
                                              /\ req[r].status = 200}}

Entry(c) ==
  CASE c.op = "SignIn" -> "find"
    [] c.op = "Me" -> "load"
    [] c.op = "UpdateMe" -> "name"
    [] c.op = "Admin" -> "gate"

Receive(p) ==
  /\ At(p, "idle")
  /\ \E c \in Calls :
       /\ c.op # "SignIn" => c.user \in Issued
       /\ req' = [req EXCEPT ![p] =
                    [Idle EXCEPT !.pc = Entry(c), !.call = c,
                                 !.id = IF c.op = "SignIn" THEN 0 ELSE c.user]]
  /\ UNCHANGED <<users, configured, restarts>>

-----------------------------------------------------------------------------
(* grantAdminIfConfigured: decided on the row as it was read.               *)

\* Mutant of Configured: any e-mail will do once ADMIN_EMAILS is set.
ConfiguredAny(email) == configured # {}

\* EqualFold of the trimmed texts; a stand-in is nobody's address.
Configured(email) == "address" \in DOMAIN email /\ email.address \in configured

\* p has read user u: promote it, or reply.
HasRead(p, u, row) ==
  req' = [req EXCEPT ![p].id = u, ![p].email = row.email,
                     ![p].pc = IF row.admin \/ ~Configured(row.email) THEN "reply"
                               ELSE "promote"]

\* Mutant of Promote: the flag is set in the answer only, the UPDATE is not run.
PromoteForgotten(p) ==
  At(p, "promote") /\ Goto(p, "reply") /\ UNCHANGED <<users, configured, restarts>>

\* The answer to the UPDATE may be lost: the flag is set, the reply is an error.
Promote(p) ==
  /\ At(p, "promote")
  /\ users' = [users EXCEPT ![req[p].id].admin = TRUE]
  /\ Goto(p, "reply") \/ Reply(p, 500)
  /\ UNCHANGED <<configured, restarts>>

-----------------------------------------------------------------------------
(* findOrCreateUser *)

\* No row leads to the INSERT, and so does any error of the SELECT.
FindUser(p) ==
  /\ At(p, "find")
  /\ LET found == Of(req[p].call.identity)
     IN  \/ \E u \in found : HasRead(p, u, users[u])
         \/ Goto(p, "insert")
  /\ UNCHANGED <<users, configured, restarts>>

\* Mutant of Claimed: whoever has no address gets the same stand-in.
ClaimedBlank(c) == IF c.email = None THEN [local |-> None] ELSE c.email

\* The e-mail that is stored: the claimed one, or sub@provider.local.
Claimed(c) == IF c.email = None THEN [local |-> c.identity] ELSE c.email

Taken(email, u) == \E w \in UserId \ {u} : users[w] # None /\ users[w].email = email

\* The row the INSERT makes; the name (and picture) is the provider's, or taken from the e-mail.
NewUser(c, name) ==
  [identity |-> c.identity, email |-> Claimed(c), admin |-> FALSE,
   name |-> name, avatar |-> name]

\* Mutant of Upserted: ON CONFLICT takes over the whole proposed row.
UpsertedWhole(row, new) == new

\* ON CONFLICT (auth_provider, auth_provider_id) DO UPDATE SET email = EXCLUDED.email
Upserted(row, new) == [row EXCEPT !.email = new.email]

\* Mutant of Slot: a plain INSERT into a table without that constraint.
SlotFresh(identity) ==
  {u \in UserId : users[u] = None /\ \A w \in 1..(u - 1) : users[w] # None}

\* The ids the row may get: the conflicting one, or the next.
Slot(identity) ==
  IF Of(identity) # {} THEN Of(identity)
  ELSE {u \in UserId : users[u] = None /\ \A w \in 1..(u - 1) : users[w] # None}

\* One atomic statement; users.email is UNIQUE too, and a violation of that is an error.
\* (Of two racing first sign-ins with one e-mail the second may also run into that
\* constraint before the one of ON CONFLICT; Cancel stands for that error too.)
InsertUser(p) ==
  LET c == req[p].call
  IN  /\ At(p, "insert")
      /\ \E u \in Slot(c.identity), name \in Text :
           IF Taken(Claimed(c), u)
           THEN Reply(p, 500) /\ UNCHANGED users
           ELSE LET row == IF users[u] = None THEN NewUser(c, name)
                           ELSE Upserted(users[u], NewUser(c, name))
                IN  /\ users' = [users EXCEPT ![u] = row]
                    /\ HasRead(p, u, row) \/ Reply(p, 500)
      /\ UNCHANGED <<configured, restarts>>

-----------------------------------------------------------------------------
(* Me and UpdateMe *)

LoadUser(p) ==
  /\ At(p, "load")
  /\ IF users[req[p].id] # None THEN HasRead(p, req[p].id, users[req[p].id]) ELSE Reply(p, 404)
  /\ UNCHANGED <<users, configured, restarts>>

\* Mutant of Patched: a column that the body does not name is blanked, for want of a nil check.
PatchedBlank(row, col, text) ==
  IF row = None THEN row
  ELSE [row EXCEPT ![col] = IF text = None THEN CHOOSE t \in Text : TRUE ELSE text]

\* UPDATE users SET col WHERE id, when the body names the column.
Patched(row, col, text) == IF row = None \/ text = None THEN row ELSE [row EXCEPT ![col] = text]

SetName(p) ==
  /\ At(p, "name")
  /\ users' = [users EXCEPT ![req[p].id] = Patched(@, "name", req[p].call.name)]
  /\ \/ Goto(p, "avatar")
     \/ req[p].call.name # None /\ Reply(p, 500)
  /\ UNCHANGED <<configured, restarts>>

SetAvatar(p) ==
  /\ At(p, "avatar")
  /\ users' = [users EXCEPT ![req[p].id] = Patched(@, "avatar", req[p].call.avatar)]
  /\ \/ Goto(p, "load")
     \/ req[p].call.avatar # None /\ Reply(p, 500)
  /\ UNCHANGED <<configured, restarts>>

-----------------------------------------------------------------------------
(* RequireAdmin, replies and failures *)

\* Any error, and a user that is not there, is a 403.
Gate(p) ==
  /\ At(p, "gate")
  /\ \/ /\ users[req[p].id] # None /\ users[req[p].id].admin
        /\ Goto(p, "admin")
     \/ Reply(p, 403) /\ (users[req[p].id] = None \/ ~users[req[p].id].admin)
  /\ UNCHANGED <<users, configured, restarts>>

\* The tokens or the profile are sent; the admin handler (module Catalog) answers.
Finish(p) ==
  /\ At(p, "reply") \/ At(p, "admin")
  /\ Reply(p, 200)
  /\ UNCHANGED <<users, configured, restarts>>

FailureCode(p) ==
  CASE At(p, "gate") -> 403
    [] At(p, "load") -> 404
    [] OTHER -> 500

\* The request's context ends, or its statement fails.
Cancel(p) ==
  /\ ~At(p, "idle") /\ ~At(p, "done")
  /\ Reply(p, FailureCode(p))
  /\ UNCHANGED <<users, configured, restarts>>

\* The server is started again, perhaps with other ADMIN_EMAILS; what was running is gone.
Restart ==
  /\ restarts < MaxRestart
  /\ restarts' = restarts + 1
  /\ configured' \in AdminLists
  /\ req' = [p \in Request |-> IF At(p, "idle") THEN req[p]
                               ELSE [req[p] EXCEPT !.pc = "done"]]
  /\ UNCHANGED users

-----------------------------------------------------------------------------
SignIn(p) == FindUser(p) \/ InsertUser(p) \/ Promote(p)
Profile(p) == LoadUser(p) \/ SetName(p) \/ SetAvatar(p)

Step(p) == SignIn(p) \/ Profile(p) \/ Gate(p) \/ Finish(p)

Next == Restart \/ \E p \in Request : Receive(p) \/ Step(p) \/ Cancel(p)

Spec == Init /\ [][Next]_vars
-----------------------------------------------------------------------------
Label == {"idle", "find", "insert", "promote", "load", "name", "avatar", "gate", "admin",
          "reply", "done"}

TypeOK ==
  /\ users \in [UserId -> User \cup {None}]
  /\ configured \subseteq Address
  /\ restarts \in 0..MaxRestart
  /\ req \in [Request -> [pc: Label, call: Call \cup {None}, status: Nat,
                          id: UserId \cup {0}, email: Email \cup {None}]]

-----------------------------------------------------------------------------
(* Safety *)

Answered200(p) == At(p, "done") /\ req[p].status = 200

\* However sign-ins of one identity race, fail half-way and are tried again, those that are
\* answered get tokens for one and the same user, and it is theirs (auth.go:244-272).
SignInsAgree ==
  \A p, q \in Request :
    /\ Answered200(p) /\ Op(p) = "SignIn" /\ Answered200(q) /\ Op(q) = "SignIn"
    /\ req[p].call.identity = req[q].call.identity
    => /\ req[p].id = req[q].id
       /\ users[req[p].id] # None /\ users[req[p].id].identity = req[p].call.identity

EverConfigured == UNION AdminLists

Vouched(identity, address) ==
  \/ \E u \in DOMAIN OldUsers : /\ OldUsers[u].identity = identity
                               /\ "address" \in DOMAIN OldUsers[u].email
                               /\ OldUsers[u].email.address = address
  \/ \E p \in Request : /\ ~At(p, "idle") /\ Op(p) = "SignIn"
                        /\ req[p].call.identity = identity
                        /\ req[p].call.email # None /\ req[p].call.email.address = address

\* Nobody becomes an admin whose own identity provider never vouched for an address that
\* some ADMIN_EMAILS lists, although the flag is set from a row read earlier while another
\* sign-in may be replacing the e-mail (auth.go:285-299, 269).
AdminsWereConfigured ==
  \A u \in UserId :
    users[u] # None /\ users[u].admin =>
      \/ u \in DOMAIN OldUsers /\ OldUsers[u].admin
      \/ \E address \in EverConfigured : Vouched(users[u].identity, address)

\* ADMIN_EMAILS is applied on sign-in and /me: whoever got such an answer for a configured
\* address is an admin from then on (config.go:26, auth.go:291).
ConfiguredAreAdmins ==
  \A p \in Request :
    Answered200(p) /\ Op(p) # "Admin" /\ restarts = 0 /\ Configured(req[p].email) =>
      users[req[p].id].admin

\* The flag is read once, before an admin handler runs, and still holds when the handler
\* ends: no sign-in, profile edit or restart with a shorter list takes it away in between
\* (middleware/auth.go:134, auth.go:284).
PastGateIsAdmin ==
  \A p \in Request :
    (At(p, "admin") \/ (Answered200(p) /\ Op(p) = "Admin")) => users[req[p].id].admin

Writers(u, col) ==
  {p \in Request : /\ ~At(p, "idle") /\ Op(p) = "UpdateMe"
                   /\ req[p].id = u /\ req[p].call[col] # None}

\* A profile is its owner's: sign-ins that race or repeat and edits of the other column
\* leave a column alone, and an edit that was answered stays (auth.go:269, 370-381).
ProfilesKeepEdits ==
  \A u \in DOMAIN OldUsers, col \in {"name", "avatar"} :
    /\ Writers(u, col) = {} => users[u][col] = OldUsers[u][col]
    /\ \A p \in Request : Writers(u, col) = {p} /\ Answered200(p) =>
         users[u][col] = req[p].call[col]
=============================================================================
