----------------------------- MODULE MCAccounts -----------------------------
(***************************************************************************)
(* An instance of Accounts for TLC: one user there is, with an address that   *)
(* may be configured, and two identities that sign in for the first time,     *)
(* one of them with that address in another spelling.                         *)
(***************************************************************************)
EXTENDS Accounts, TLC

CONSTANTS g, h, k, x, y, lower, upper, old, new

Identities == {g, h, k}
Addresses == {x, y}
Spellings == {lower, upper}
Texts == {old, new}

\* Requests are told apart by their calls only.
Symmetry == Permutations(Request)

Mail(address, spelling) == [address |-> address, spelling |-> spelling]

\* User 1 signed in as g, with y, before.
Users == << [identity |-> g, email |-> Mail(y, lower), admin |-> FALSE,
             name |-> old, avatar |-> old] >>

\* ADMIN_EMAILS names x, or nobody.
Lists == {{x}, {}}

From(identity, email) == [op |-> "SignIn", identity |-> identity, email |-> email]
Edit(u, name, avatar) == [op |-> "UpdateMe", user |-> u, name |-> name, avatar |-> avatar]

\* g comes back with another address or with none; h is new, with x, with y (taken) or with
\* no address; k has x in another spelling.  1 and 2 use their tokens.
AllCalls ==
  {From(g, Mail(y, lower)), From(g, Mail(x, lower)), From(g, None),
   From(h, Mail(x, lower)), From(h, Mail(y, lower)), From(h, None),
   From(k, Mail(x, upper)),
   [op |-> "Me", user |-> 1], [op |-> "Admin", user |-> 1], [op |-> "Admin", user |-> 2],
   Edit(1, new, None), Edit(1, None, new), Edit(1, new, new)}
=============================================================================
