------------------------------ MODULE MCReads -------------------------------
(***************************************************************************)
(* An instance of Reads for TLC: two beers of one name, two users, ints of    *)
(* four bits, one connection for everybody.                                 *)
(***************************************************************************)
EXTENDS Reads, TLC

CONSTANT p

BeerRow(name) == [name |-> name, brewery |-> Blank, style |-> Blank]
Beers == {BeerRow(1), BeerRow(2)}

Pour(user, beer, rated, noted, tasted) ==
  [user |-> user, beer |-> beer, rated |-> rated, noted |-> noted, tasted |-> tasted]
Pours == {Pour("u", 1, TRUE, FALSE, 1), Pour("u", 1, FALSE, FALSE, 1), Pour("u", 1, FALSE, TRUE, 2),
          Pour("v", 2, TRUE, FALSE, 1)}

Table(rows) == [i \in Id |-> IF i \in DOMAIN rows THEN rows[i] ELSE None]
Start == {[beers |-> Table(<<BeerRow(1), BeerRow(1)>>),
           reviews |-> Table(<<Pour("u", 1, TRUE, FALSE, 1), Pour("v", 2, TRUE, FALSE, 1)>>)]}

Get(op, id, user, sort, page, perPage) ==
  [op |-> op, id |-> id, user |-> user, sort |-> sort, page |-> page, perPage |-> perPage]

\* Every kind of call; pages of one, and pages whose offset is beyond an int.
SomeCalls ==
  p :> {Get("Latest", None, None, "created_at", 0, 1), Get("Latest", None, None, "tasted_at", 1, 1),
        Get("ByBeer", 1, None, "created_at", 1, 5), Get("ByUser", None, "u", "created_at", 1, 1),
        Get("Journal", None, "u", "created_at", 1, 1), Get("Beers", None, None, "name", 1, 1),
        Get("Latest", None, None, "created_at", 7, 3), Get("Latest", None, None, "created_at", 6, 2),
        Get("Review", 1, "u", "created_at", 1, 1), Get("Beer", 1, None, "name", 1, 1),
        Get("Duplicates", None, None, "name", 1, 1)}
=============================================================================
