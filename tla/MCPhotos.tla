------------------------------ MODULE MCPhotos ------------------------------
(***************************************************************************)
(* An instance of Photos for TLC: u has a pour with two photos, v none; a    *)
(* third pour may be created and a third photo uploaded.                     *)
(***************************************************************************)
EXTENDS Photos

CONSTANTS u, v

Users == {u, v}
Owners == <<u, v>>
Keys == << <<1, 2>>, <<>> >>

ml(size, count) == [size |-> size, count |-> count]
Post(user, keys) == [op |-> "Create", user |-> user, keys |-> keys, amount |-> ml(330, None)]
Edit(user, r, names, keys) ==
  [op |-> "Update", user |-> user, review |-> r, names |-> names, keys |-> keys,
   amount |-> NoAmount, clear |-> FALSE]
Pouring(edit, amount) == [edit EXCEPT !.amount = amount]
Clearing(edit) == [edit EXCEPT !.clear = TRUE]
Remove(user, r) == [op |-> "Delete", user |-> user, review |-> r]

\* Edits that keep, drop, reorder and add photos, with and without a column; deletes by the
\* owner and by somebody else; a create with the new photo; servings set, cleared and out of order.
EditCalls ==
  {[op |-> "Upload"], Post(u, <<3>>), Pouring(Edit(u, 1, TRUE, <<2>>), ml(500, 2)),
   Edit(u, 1, FALSE, <<3, 1>>), Edit(u, 1, FALSE, <<>>), Clearing(Edit(u, 1, FALSE, None)),
   Pouring(Edit(u, 1, FALSE, None), ml(None, 3)), Remove(u, 1), Remove(v, 1)}

\* A pour saved with its photos as they are, while another device saves it without them.
ResaveCalls == {Edit(u, 1, FALSE, <<1, 2>>), Edit(u, 1, FALSE, <<>>)}
=============================================================================
