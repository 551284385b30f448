--------------------------- MODULE CatalogPromise ---------------------------
(***************************************************************************)
(* What the catalog promises whoever reads it, however many requests        *)
(* overlap: the tables change only as if one request after the other did     *)
(* its whole work at once.  Catalog, which runs the handlers statement by    *)
(* statement, is shown to implement this; Reads takes it for the writers.    *)
(***************************************************************************)
EXTENDS Naturals

CONSTANTS
  Id,       \* the ids of rows
  Beer,     \* rows of beers: a name, and columns that may be blank
  Review,   \* rows of reviews: a user, a beer and what the pour says
  Blank,    \* an empty column
  None,     \* no such row
  Seeds     \* the databases to start on

VARIABLES beers, reviews

db == <<beers, reviews>>

Init == \E seed \in Seeds : beers = seed.beers /\ reviews = seed.reviews

There(rows) == {i \in Id : rows[i] # None}

\* A create takes one id, for the pour and for its beer if that is new; the beer of a pour
\* is there.  A create that finds its beer and has no pour changes nothing.
Create ==
  \E i \in Id :
    /\ \/ UNCHANGED beers
       \/ beers[i] = None /\ \E beer \in Beer : beers' = [beers EXCEPT ![i] = beer]
    /\ \/ UNCHANGED reviews
       \/ /\ reviews[i] = None
          /\ \E pour \in Review : /\ beers'[pour.beer] # None
                                  /\ reviews' = [reviews EXCEPT ![i] = pour]

\* An edit leaves the pour its user and its beer.
EditPour ==
  /\ \E r \in There(reviews) : \E pour \in Review :
       /\ pour.user = reviews[r].user /\ pour.beer = reviews[r].beer
       /\ reviews' = [reviews EXCEPT ![r] = pour]
  /\ UNCHANGED beers

RemovePour ==
  /\ \E r \in There(reviews) : reviews' = [reviews EXCEPT ![r] = None]
  /\ UNCHANGED beers

EditBeer ==
  /\ \E i \in There(beers) : \E beer \in Beer : beers' = [beers EXCEPT ![i] = beer]
  /\ UNCHANGED reviews

\* What a survivor may be filled to: its name and what is not blank stay.
Fillings(beer) ==
  {b \in Beer : /\ b.name = beer.name
                /\ beer.brewery \in {Blank, b.brewery} /\ beer.style \in {Blank, b.style}}

\* The beers in `gone' go, their pours move to `keep'; a pour may be lost that came too late
\* to be moved.  Nothing moves to a `keep' that another merge has taken, or that goes itself.
Merge ==
  \E keep \in Id : \E gone \in SUBSET There(beers) :
    /\ \E left \in IF beers[keep] = None THEN {None} ELSE Fillings(beers[keep]) :
         beers' = [i \in Id |-> IF i \in gone THEN None ELSE IF i = keep THEN left ELSE beers[i]]
    /\ LET poured == {r \in There(reviews) : reviews[r].beer \in gone}
       IN  \E moved \in SUBSET poured :
             /\ moved # {} => beers'[keep] # None
             /\ reviews' = [r \in Id |-> IF r \in moved THEN [reviews[r] EXCEPT !.beer = keep]
                                         ELSE IF r \in poured THEN None ELSE reviews[r]]

Next == Create \/ EditPour \/ RemovePour \/ EditBeer \/ Merge

Spec == Init /\ [][Next]_db
=============================================================================
