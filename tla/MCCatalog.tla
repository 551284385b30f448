----------------------------- MODULE MCCatalog -----------------------------
(***************************************************************************)
(* Instances of Catalog for TLC.  The databases are small but hold what the *)
(* handlers tell apart: two rows of one name and brewery (1 has a blank      *)
(* style, 2 has none), a third row nobody drinks, a rated and a log-only     *)
(* pour.  A run takes the calls whose interplay it is about.                 *)
(***************************************************************************)
EXTENDS Catalog

Row(name, brewery, style) == [name |-> name, brewery |-> brewery, style |-> style]
Pour(user, beer, rated) == [user |-> user, beer |-> beer, rated |-> rated]

\* A function on Id that is None outside the given rows.
Table(rows) == [i \in Id |-> IF i \in DOMAIN rows THEN rows[i] ELSE None]

Ipa == Row("ipa", "brew", Blank)
IpaStyled == Row("ipa", "brew", "hazy")
IpaOther == Row("ipa", "brew", "west")
Porter == Row("porter", Blank, Blank)

\* Beers 1 and 2 are duplicates, u's pour 1 is of beer 2, v's pour 2 of beer 1.
TwoDuplicates ==
  [beers |-> Table(<<Ipa, IpaStyled>>),
   reviews |-> Table(<<Pour("u", 2, TRUE), Pour("v", 1, FALSE)>>), top |-> 2]

\* Three duplicates; v's pour is of beer 3, which has a style of its own.
ThreeDuplicates ==
  [beers |-> Table(<<Ipa, IpaStyled, IpaOther>>),
   reviews |-> Table(<<Pour("u", 2, TRUE), Pour("v", 3, FALSE)>>), top |-> 3]

\* Duplicates nobody has poured yet.
Unused == [beers |-> Table(<<Ipa, IpaStyled>>), reviews |-> Table(<<>>), top |-> 2]

Empty == [beers |-> Table(<<>>), reviews |-> Table(<<>>), top |-> 0]

-----------------------------------------------------------------------------
Create(beer) == [op |-> "BeerCreate", beer |-> beer]
PourOf(user, id) == [op |-> "ReviewCreate", user |-> user, rated |-> TRUE,
                     beerId |-> id, beer |-> Ipa]
PourNew(user, beer) == [op |-> "ReviewCreate", user |-> user, rated |-> TRUE,
                        beerId |-> None, beer |-> beer]
Rate(user, r, rated) == [op |-> "ReviewUpdate", user |-> user, rated |-> rated, review |-> r]
Remove(user, r) == [op |-> "ReviewDelete", user |-> user, review |-> r]
Patch(i, name, brewery, style) ==
  [op |-> "BeerUpdate", beerId |-> i, name |-> name, brewery |-> brewery, style |-> style]
MergeInto(keep, ids) ==
  [op |-> "Merge", keep |-> [id |-> keep, spelling |-> "lower"],
   ids |-> [n \in DOMAIN ids |-> [id |-> ids[n], spelling |-> "lower"]]]
\* keep_id is among merge_ids, in other letters.
Respelled(keep, ids) ==
  [MergeInto(keep, ids) EXCEPT !.keep.spelling = "UPPER"]
DedupeAll == [op |-> "DedupeExact"]

-----------------------------------------------------------------------------
\* pours: users create, edit and delete pours while one admin merges and patches.
PoursSeeds == {TwoDuplicates}
PoursUserCalls ==
  {PourOf("u", 2), PourNew("v", Ipa), PourNew("v", Porter), Create(IpaOther),
   Rate("u", 1, FALSE), Rate("v", 1, FALSE), Remove("u", 1), Remove("v", 2)}
PoursAdminCalls ==
  {MergeInto(1, <<2>>), MergeInto(2, <<1>>), MergeInto(3, <<1>>), MergeInto(1, <<>>),
   Patch(1, None, Blank, "lager"), Patch(2, "porter", None, None), DedupeAll}

\* admins: two admins merge, patch and dedupe at once, three beers, one user; with liveness.
AdminsSeeds == {ThreeDuplicates}
AdminsUserCalls == {PourOf("u", 2), Rate("u", 1, FALSE), Remove("u", 1)}
AdminsAdminCalls ==
  {MergeInto(1, <<2>>), MergeInto(2, <<1, 3>>), Respelled(3, <<2, 3>>),
   Patch(1, None, None, "lager"), Patch(2, "porter", Blank, None), DedupeAll}

\* dedupe: dedupes of two admins, while pours are rated and deleted and beers poured by id.
DedupeUserCalls ==
  {PourOf("v", 3), Rate("u", 1, FALSE), Rate("v", 2, TRUE), Remove("u", 1)}
DedupeAdminCalls == {DedupeAll}

\* Disagreements with what the repository says of itself.
EmptySeeds == {Empty}
FindOrCreateCalls == {Create(Ipa), PourNew("u", IpaStyled)}
UnusedSeeds == {Unused}
UnusedCalls == {PourOf("u", 2)}
OppositeMerges == {MergeInto(1, <<2>>), MergeInto(2, <<1>>)}
OneMerge == {MergeInto(1, <<2>>)}
PourOfMerged == {PourOf("u", 2)}
NoCalls == {}
=============================================================================
