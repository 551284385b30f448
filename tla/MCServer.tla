------------------------------ MODULE MCServer ------------------------------
(***************************************************************************)
(* An instance of Server for TLC: a release with one migration and the next  *)
(* one with two, which starts while the first one runs or after it; browsers *)
(* of two origins that the configuration allows and of one that it does not. *)
(***************************************************************************)
EXTENDS Server

CONSTANTS old, new, app, web, other

Servers == {old, new}
Releases == [s \in Servers |-> IF s = old THEN 1 ELSE 2]

Origins == {app, web, other}

\* "app, ,web"
Texts == {<<[text |-> app, padded |-> FALSE], [text |-> Blank, padded |-> TRUE],
            [text |-> web, padded |-> FALSE]>>}
=============================================================================
