---------------------------- MODULE ReadsProofs -----------------------------
(***************************************************************************)
(* The invariant of Reads: what a page still says of the tables while others *)
(* write to them, and how many rows are ahead of one that a walk through the *)
(* pages has missed.                                                        *)
(***************************************************************************)
EXTENDS Reads, FiniteSetTheorems, SequenceTheorems, TLAPS

\* The rows of c's list that come before r in whatever order the ties are.
Ahead(c, r) == {s \in Listed(c, beers, reviews) : Rank(c, s) < Rank(c, r)}

Here(p) == ~At(p, "idle")

RowsOK ==
  /\ beers \in [Id -> Beer \cup {None}] /\ reviews \in [Id -> PourRow \cup {None}]
  /\ \A r \in There(reviews) : beers[reviews[r].beer] # None

\* The photos of a published pour are exposed.
PhotosOK ==
  /\ photos \in [Id -> SUBSET (1..MaxWrites)] /\ exposed \subseteq 1..MaxWrites
  /\ writes \in 0..MaxWrites
  /\ \A r \in Public(reviews) : photos[r] \subseteq exposed

PoolOK == IsFiniteSet(Busy) /\ taken \in Nat /\ Cardinality(Busy) + taken <= Conns

Fields == {"pc", "call", "page", "status", "total", "countedAt", "list", "listedAt", "photos"}

CallOK(p) ==
  /\ DOMAIN req[p] = Fields
  /\ req[p].pc \in {"idle", "count", "page", "scan", "photos", "full", "done"}
  /\ req[p].list \in Seq(Id)
  /\ Here(p) =>
       /\ req[p].call \in Call /\ req[p].page \in 1..MaxInt
       /\ At(p, "count") \/ At(p, "full") => req[p].call.op \in PagedOps
       /\ At(p, "photos") => req[p].call.op \in PourOps
       /\ ~IsAnswered(p) => req[p].photos = {}
       /\ req[p].countedAt \in 0..writes /\ req[p].listedAt \in 0..writes
       /\ req[p].call.op \in PagedOps => Len(req[p].list) <= PerPage(req[p].call)

\* What was counted or read is what there is, as long as nobody writes.
CountOK(p) ==
  At(p, "page") /\ req[p].call.op \in PagedOps /\ req[p].countedAt = writes =>
    req[p].total = Cardinality(Listed(req[p].call, beers, reviews))

\* The photos that a pour of a public page has had since before the page was read were on it
\* while it was published.
ShownOK(p) ==
  (At(p, "scan") \/ At(p, "photos")) /\ req[p].call.op \in PublicOps =>
    \A r \in Shown(p) : \A k \in photos[r] \ exposed : k > req[p].listedAt

\* Why r may have been missed.
Excused(p, r) ==
  IF req[p].call.sort = "created_at" THEN \E s \in walk[p].left : s > r
  ELSE walk[p].changed \/ Tied(req[p].call, r)

\* How many pages p has seen with this one, and what has been in its list on none of them.
Pages(p) == IF At(p, "count") \/ At(p, "page") THEN req[p].page - 1 ELSE req[p].page
Missed(p) ==
  walk[p].stayed \ (walk[p].seen \cup (IF At(p, "scan") THEN Shown(p) ELSE {}))

\* Whole pages of rows are ahead of one that was missed without an excuse.
WalkOK(p) ==
  /\ DOMAIN walk[p] = {"on", "changed", "seen", "stayed", "left"} /\ walk[p].on \in BOOLEAN
  /\ walk[p].on =>
      /\ Here(p) /\ ~At(p, "done") /\ req[p].call.op \in PagedOps
      /\ At(p, "photos") => Full(p)
      /\ walk[p].stayed \subseteq Listed(req[p].call, beers, reviews)
      /\ Pages(p) * PerPage(req[p].call) <= MaxInt + PerPage(req[p].call)
      /\ \A r \in Missed(p) :
           \/ Excused(p, r)
           \/ /\ At(p, "scan") => Full(p)
              /\ Cardinality(Ahead(req[p].call, r)) >= Pages(p) * PerPage(req[p].call)

Inv ==
  /\ RowsOK /\ PhotosOK /\ PoolOK /\ PagesFitTotals
  /\ DOMAIN req = Reader /\ DOMAIN walk = Reader
  /\ \A p \in Reader : CallOK(p) /\ CountOK(p) /\ ShownOK(p) /\ WalkOK(p)

-----------------------------------------------------------------------------
(* Data *)

LEMMA Constants ==
  /\ Conns \in Nat /\ MaxInt \in Nat /\ MaxPerPage \in Nat /\ DefaultPerPage \in Nat
  /\ MaxPage \in Nat /\ MaxWrites \in Nat
  /\ Conns > 0 /\ DefaultPerPage \in 1..MaxPerPage /\ MaxPerPage <= MaxInt /\ MaxPage <= MaxInt
  /\ Id \subseteq Nat \ {0} /\ IsFiniteSet(Id)
  /\ Review \subseteq PourRow /\ \A beer \in Beer : beer.name \in Int
  /\ None \notin PourRow /\ None \notin Beer
  BY ReadsAssumption DEF ReadsAssumption

LEMMA CallIs ==
  ASSUME NEW c \in Call
  PROVE  /\ c.op \in PourOps \cup {"Beers", "Beer", "Duplicates"}
         /\ c.op \in PourOps <=> c.sort \in {"created_at", "tasted_at"}
         /\ c.op \notin PourOps <=> c.sort = "name"
         /\ c.sort \in {"created_at", "tasted_at", "name"}
         /\ c.page \in -(MaxInt + 1)..MaxInt /\ c.perPage \in -(MaxInt + 1)..MaxInt
  BY DEF Call, Int64, PourOps, PublicOps

LEMMA PerPageIs ==
  ASSUME NEW c \in Call
  PROVE  PerPage(c) \in 1..MaxPerPage /\ FirstPage(c) \in 1..MaxInt
<1>1. c.perPage \in Int /\ c.page \in Int /\ c.page <= MaxInt
  BY CallIs, Constants
<1>2. MaxInt >= 1
  BY Constants
<1> QED
  BY <1>1, <1>2, Constants DEF PerPage, FirstPage

\* An int that is not too large stays what it is; one that is, by no more than a page, turns
\* negative.
LEMMA WrapIs ==
  ASSUME NEW n \in Int
  PROVE  /\ n \in 0..MaxInt => Wrap(n) = n
         /\ n \in (MaxInt + 1)..(2 * MaxInt + 1) => Wrap(n) < 0
<1> DEFINE m == 2 * (MaxInt + 1)
<1>1. m \in Nat /\ m > 0 /\ MaxInt \in Nat /\ m = 2 * MaxInt + 2
  BY Constants
<1>2. \A x \in Int : 0 <= x /\ x < m => x % m = x
  BY <1>1
<1>3. \A x \in Int : m <= x /\ x < 2 * m => x % m = x - m
  BY <1>1
<1>4. Wrap(n) = ((n + MaxInt + 1) % m) - (MaxInt + 1)
  BY DEF Wrap
<1> HIDE DEF m
<1>5. CASE n \in 0..MaxInt
  <2>1. n + MaxInt + 1 \in Int /\ 0 <= n + MaxInt + 1 /\ n + MaxInt + 1 < m
    BY <1>1, <1>5
  <2>2. (n + MaxInt + 1) % m = n + MaxInt + 1
    BY <1>2, <2>1
  <2> QED
    BY <1>1, <1>4, <1>5, <2>2
<1>6. CASE n \in (MaxInt + 1)..(2 * MaxInt + 1)
  <2>1. n + MaxInt + 1 \in Int /\ m <= n + MaxInt + 1 /\ n + MaxInt + 1 < 2 * m
    BY <1>1, <1>6
  <2>2. PICK k \in Int : k = n + MaxInt + 1
    BY <2>1
  <2>3. k % m = k - m
    BY <1>3, <2>1, <2>2
  <2> QED
    BY <1>1, <1>4, <1>6, <2>2, <2>3
<1> QED
  BY <1>1, <1>5, <1>6

LEMMA ListedIs ==
  ASSUME NEW c \in Call, RowsOK
  PROVE  /\ Listed(c, beers, reviews) \subseteq Id
         /\ IsFiniteSet(Listed(c, beers, reviews)) /\ Cardinality(Listed(c, beers, reviews)) \in Nat
         /\ c.op \in PourOps => Listed(c, beers, reviews) \subseteq There(reviews)
         /\ c.op \in PublicOps => Listed(c, beers, reviews) \subseteq Public(reviews)
         /\ \A r \in Listed(c, beers, reviews) : Rank(c, r) \in Int
         /\ {r \in Listed(c, beers, reviews) : c.op \in PourOps => beers[reviews[r].beer] # None}
              = Listed(c, beers, reviews)
<1> DEFINE rows == Listed(c, beers, reviews)
<1>1. c.op \in {"Latest", "ByBeer", "ByUser", "Journal", "Review", "Beers", "Beer", "Duplicates"}
  BY CallIs DEF PourOps, PublicOps
<1>2. /\ c.op \in PourOps => rows \subseteq There(reviews)
      /\ c.op \in PublicOps => rows \subseteq Public(reviews)
      /\ c.op \notin PourOps => rows \subseteq There(beers)
  BY <1>1 DEF Listed, Public, PourOps, PublicOps
<1>3. rows \subseteq Id
  BY <1>2 DEF There
<1> HIDE DEF rows
<1>4. IsFiniteSet(rows) /\ Cardinality(rows) \in Nat
  BY <1>3, Constants, FS_Subset, FS_CardinalityType
<1>5. ASSUME NEW r \in rows PROVE Rank(c, r) \in Int
  <2>1. r \in Int
    BY <1>3, Constants
  <2>2. CASE c.sort = "created_at"
    BY <2>1, <2>2 DEF Rank
  <2>3. CASE c.sort = "tasted_at"
    <3>1. reviews[r] \in PourRow
      BY <1>2, <1>3, <2>3, CallIs DEF RowsOK, There
    <3> QED
      BY <2>3, <3>1 DEF Rank, PourRow
  <2>4. CASE c.sort = "name"
    <3>1. beers[r] \in Beer
      BY <1>2, <1>3, <2>4, CallIs DEF RowsOK, There
    <3> QED
      BY <2>4, <3>1, Constants DEF Rank
  <2> QED
    BY <2>2, <2>3, <2>4, CallIs
<1>6. c.op \in PourOps => \A r \in rows : beers[reviews[r].beer] # None
  BY <1>2 DEF RowsOK
<1>7. {r \in rows : c.op \in PourOps => beers[reviews[r].beer] # None} = rows
  BY <1>6
<1> QED
  BY <1>2, <1>3, <1>4, <1>5, <1>7 DEF rows

\* Every row has its place in a sorted list, and one without ties comes right after those
\* ahead of it.
LEMMA Positions ==
  ASSUME RowsOK, NEW c \in Call, NEW s \in Sorted(c, Listed(c, beers, reviews))
  PROVE  /\ s \in Seq(Id) /\ Len(s) = Cardinality(Listed(c, beers, reviews))
         /\ \A n \in 1..Len(s) : s[n] \in Listed(c, beers, reviews)
         /\ \A r \in Listed(c, beers, reviews) : \E n \in 1..Len(s) : s[n] = r
         /\ \A n \in 1..Len(s) : ~Tied(c, s[n]) => Cardinality(Ahead(c, s[n])) = n - 1
<1> DEFINE rows == Listed(c, beers, reviews)
           size == Cardinality(rows)
<1>1. /\ rows \subseteq Id /\ IsFiniteSet(rows) /\ size \in Nat
      /\ \A r \in rows : Rank(c, r) \in Int
  BY ListedIs
<1>2. /\ s \in [1..size -> rows]
      /\ \A m, n \in 1..size : m < n => s[m] # s[n] /\ Rank(c, s[m]) <= Rank(c, s[n])
  BY DEF Sorted
<1>3. \A r : Ahead(c, r) = {t \in rows : Rank(c, t) < Rank(c, r)}
  BY DEF Ahead
<1>4. \A r : ~Tied(c, r) => \A t \in rows : t # r => Rank(c, t) # Rank(c, r)
  BY DEF Tied
<1> HIDE DEF rows, size
<1>5. s \in Seq(Id) /\ Len(s) = size /\ DOMAIN s = 1..size
  BY <1>1, <1>2
<1>6. \A m, n \in 1..size : s[m] = s[n] => m = n
  <2>1. SUFFICES ASSUME NEW m \in 1..size, NEW n \in 1..size, s[m] = s[n], m # n PROVE FALSE
    OBVIOUS
  <2>2. m < n \/ n < m
    BY <1>1, <2>1
  <2> QED
    BY <1>2, <2>1, <2>2
<1>7. \A r \in rows : \E n \in 1..size : s[n] = r
  <2>1. s \in Injection(1..size, rows)
    BY <1>2, <1>6 DEF Injection, IsInjective
  <2>2. Cardinality(1..size) = size
    BY <1>1, FS_Interval
  <2>3. s \in Surjection(1..size, rows)
    BY <1>1, <2>1, <2>2, FS_Injection DEF size
  <2> QED
    BY <2>3 DEF Surjection
<1>8. ASSUME NEW n \in 1..size, ~Tied(c, s[n])
      PROVE  Cardinality(Ahead(c, s[n])) = n - 1
  <2> DEFINE f == [m \in 1..(n - 1) |-> s[m]]
             ahead == {t \in rows : Rank(c, t) < Rank(c, s[n])}
  <2>1. n \in Nat /\ n - 1 \in Nat /\ s[n] \in rows /\ \A m \in 1..(n - 1) : m \in 1..size /\ m < n
    BY <1>1, <1>2
  <2>2. \A m \in 1..(n - 1) : s[m] \in rows /\ s[m] # s[n] /\ Rank(c, s[m]) <= Rank(c, s[n])
    BY <1>2, <2>1
  <2>3. \A m \in 1..(n - 1) : s[m] \in ahead
    <3>1. SUFFICES ASSUME NEW m \in 1..(n - 1) PROVE s[m] \in ahead
      OBVIOUS
    <3>2. s[m] \in rows /\ Rank(c, s[m]) <= Rank(c, s[n]) /\ Rank(c, s[m]) # Rank(c, s[n])
      BY <1>4, <1>8, <2>2
    <3>3. Rank(c, s[m]) \in Int /\ Rank(c, s[n]) \in Int
      BY <1>1, <2>1, <3>2
    <3> QED
      BY <3>2, <3>3
  <2>4. \A t \in ahead : \E m \in 1..(n - 1) : s[m] = t
    <3>1. SUFFICES ASSUME NEW t \in ahead PROVE \E m \in 1..(n - 1) : s[m] = t
      OBVIOUS
    <3>2. t \in rows /\ Rank(c, t) < Rank(c, s[n])
      OBVIOUS
    <3>3. PICK m \in 1..size : s[m] = t
      BY <1>7, <3>2
    <3>4. Rank(c, s[m]) \in Int /\ Rank(c, s[n]) \in Int /\ ~(Rank(c, s[n]) <= Rank(c, s[m]))
      BY <1>1, <2>1, <3>2, <3>3
    <3>5. ~(n < m) /\ n # m
      BY <1>2, <3>3, <3>4
    <3>6. m \in 1..(n - 1)
      BY <1>1, <2>1, <3>5
    <3> QED
      BY <3>3, <3>6
  <2>5. f \in [1..(n - 1) -> ahead]
    BY <2>3
  <2>6. \A i, j \in 1..(n - 1) : f[i] = f[j] => i = j
    BY <1>6, <2>1
  <2>7. \A t \in ahead : \E m \in 1..(n - 1) : f[m] = t
    BY <2>4
  <2> HIDE DEF f, ahead
  <2>8. f \in Bijection(1..(n - 1), ahead)
    BY <2>5, <2>6, <2>7 DEF Bijection, Injection, Surjection, IsInjective
  <2>9. Cardinality(ahead) = n - 1
    BY <2>1, <2>8, FS_CountingElements DEF ExistsBijection
  <2> QED
    BY <1>3, <2>9 DEF ahead
<1> QED
  BY <1>2, <1>5, <1>7, <1>8 DEF rows, size

\* LIMIT and OFFSET, when the offset is a number of rows.
LEMMA SliceIs ==
  ASSUME NEW p \in Reader, NEW s \in Seq(Id), req[p].call \in Call
  PROVE  /\ req[p].call.op \notin PagedOps => Slice(p, s) = s
         /\ req[p].call.op \in PagedOps /\ Offset(p) \in Nat =>
              /\ Slice(p, s) \in Seq(Id)
              /\ LET left == Len(s) - Offset(p)
                 IN  Len(Slice(p, s)) = IF left < 0 THEN 0 ELSE Least(left, PerPage(req[p].call))
              /\ \A i \in 1..Len(Slice(p, s)) :
                   Offset(p) + i \in 1..Len(s) /\ Slice(p, s)[i] = s[Offset(p) + i]
<1>1. req[p].call.op \notin PagedOps => Slice(p, s) = s
  BY DEF Slice
<1>2. ASSUME req[p].call.op \in PagedOps, Offset(p) \in Nat
      PROVE  /\ Slice(p, s) \in Seq(Id)
             /\ LET left == Len(s) - Offset(p)
                IN  Len(Slice(p, s)) = IF left < 0 THEN 0 ELSE Least(left, PerPage(req[p].call))
             /\ \A i \in 1..Len(Slice(p, s)) :
                  Offset(p) + i \in 1..Len(s) /\ Slice(p, s)[i] = s[Offset(p) + i]
  <2> DEFINE off == Offset(p)
             pp == PerPage(req[p].call)
             end == Least(off + pp, Len(s))
  <2>1. Slice(p, s) = SubSeq(s, off + 1, end)
    BY <1>2 DEF Slice
  <2>2. off \in Nat /\ pp \in Nat /\ pp >= 1 /\ Len(s) \in Nat
    BY <1>2, PerPageIs, Constants
  <2> HIDE DEF off, pp
  <2>3. end \in Int /\ end <= Len(s) /\ end <= off + pp /\ (end = Len(s) \/ end = off + pp)
    BY <2>2 DEF Least
  <2> HIDE DEF end
  <2>4. \A i \in (off + 1)..end : i \in 1..Len(s) /\ s[i] \in Id
    BY <2>2, <2>3
  <2>5. /\ Slice(p, s) \in Seq(Id)
        /\ Len(Slice(p, s)) = IF off + 1 <= end THEN end - (off + 1) + 1 ELSE 0
        /\ \A i \in 1..(end - (off + 1) + 1) : Slice(p, s)[i] = s[off + 1 + i - 1]
    BY <2>1, <2>2, <2>3, <2>4, SubSeqProperties
  <2>6. Len(Slice(p, s)) = IF Len(s) - off < 0 THEN 0 ELSE Least(Len(s) - off, pp)
    BY <2>2, <2>3, <2>5 DEF Least
  <2>7. ASSUME NEW i \in 1..Len(Slice(p, s))
        PROVE  off + i \in 1..Len(s) /\ Slice(p, s)[i] = s[off + i]
    <3>1. off + 1 <= end /\ i \in 1..(end - (off + 1) + 1) /\ off + 1 + i - 1 = off + i
      BY <2>2, <2>3, <2>5
    <3> QED
      BY <2>2, <2>3, <2>5, <3>1
  <2> QED
    BY <2>5, <2>6, <2>7 DEF off, pp
<1> QED
  BY <1>1, <1>2

-----------------------------------------------------------------------------
(* What steps leave alone *)

\* One reader's share of PagesFitTotals.
Fits(p) ==
  Paged(p) /\ req[p].countedAt = req[p].listedAt /\ ~Overflows(p) =>
    LET ahead == req[p].total - (req[p].page - 1) * PerPage(req[p].call)
    IN  Len(req[p].list) = IF ahead < 0 THEN 0 ELSE Least(ahead, PerPage(req[p].call))

Good(p) == CallOK(p) /\ CountOK(p) /\ ShownOK(p) /\ WalkOK(p) /\ Fits(p)

LEMMA InvIs ==
  Inv <=> /\ RowsOK /\ PhotosOK /\ PoolOK
          /\ DOMAIN req = Reader /\ DOMAIN walk = Reader
          /\ \A p \in Reader : Good(p)
  BY DEF Inv, Good, PagesFitTotals, Fits

LEMMA StillTables ==
  ASSUME UNCHANGED tables, RowsOK, PhotosOK
  PROVE  RowsOK' /\ PhotosOK'
  BY DEF tables, db, RowsOK, PhotosOK, There, Public, Published

\* A reader is as good as it was when neither it nor the tables change.
LEMMA Still ==
  ASSUME NEW q \in Reader, UNCHANGED tables, req'[q] = req[q], walk'[q] = walk[q], Good(q)
  PROVE  Good(q)'
<1>1. /\ beers' = beers /\ reviews' = reviews /\ writes' = writes
      /\ photos' = photos /\ exposed' = exposed
      /\ req'[q] = req[q] /\ walk'[q] = walk[q]
  BY DEF tables, db
<1>2. CallOK(q)'
  BY <1>1 DEF Good, CallOK, Here, At, IsAnswered
<1>3. CountOK(q)'
  BY <1>1 DEF Good, CountOK, At, Listed, There, Public, Published, Key
<1>4. ShownOK(q)'
  BY <1>1 DEF Good, ShownOK, At, Shown
<1>5. WalkOK(q)'
  <2> DEFINE c == req[q].call
  <2>1. /\ Listed(c, beers, reviews)' = Listed(c, beers, reviews)
        /\ \A i : Rank(c, i)' = Rank(c, i)
    BY <1>1 DEF Listed, Rank
  <2>2. \A r : Ahead(c, r)' = Ahead(c, r) /\ (Tied(c, r)' <=> Tied(c, r))
    BY <2>1 DEF Ahead, Tied
  <2>3. \A r : Excused(q, r)' <=> Excused(q, r)
    BY <1>1, <2>2 DEF Excused
  <2>4. /\ Pages(q)' = Pages(q) /\ Missed(q)' = Missed(q) /\ (Full(q)' <=> Full(q)) /\ c' = c
        /\ \A label : At(q, label)' <=> At(q, label)
    BY <1>1 DEF Pages, Missed, Full, At, Shown
  <2>5. Here(q)' <=> Here(q)
    BY <2>4 DEF Here
  <2> QED
    BY <1>1, <2>1, <2>2, <2>3, <2>4, <2>5 DEF Good, WalkOK
<1>6. Fits(q)'
  BY <1>1 DEF Good, Fits, Paged, Overflows, At
<1> QED
  BY <1>2, <1>3, <1>4, <1>5, <1>6 DEF Good

\* Whose rows are not left open on a connection that nobody had, does not exhaust the pool.
LEMMA PoolStep ==
  ASSUME PoolOK, taken' = taken, NEW p \in Reader,
         \A q \in Reader \ {p} : req'[q] = req[q],
         req'[p].pc = "scan" => ConnFree
  PROVE  PoolOK'
<1>1. Cardinality(Busy) \in Nat /\ IsFiniteSet(Busy) /\ Conns \in Nat
  BY FS_CardinalityType, Constants DEF PoolOK
<1>2. Busy' \subseteq Busy \cup {p} /\ (req'[p].pc # "scan" => Busy' \subseteq Busy)
  BY DEF Busy, At
<1>3. IsFiniteSet(Busy \cup {p}) /\ Cardinality(Busy \cup {p}) <= Cardinality(Busy) + 1
  <2>1. /\ IsFiniteSet(Busy \cup {p})
        /\ Cardinality(Busy \cup {p}) = IF p \in Busy THEN Cardinality(Busy) ELSE Cardinality(Busy) + 1
    BY <1>1, FS_AddElement
  <2> QED
    BY <1>1, <2>1
<1>4. CASE req'[p].pc = "scan"
  <2>1. IsFiniteSet(Busy') /\ Cardinality(Busy') <= Cardinality(Busy \cup {p})
    BY <1>2, <1>3, FS_Subset
  <2>2. Cardinality(Busy) + taken < Conns
    BY <1>4 DEF ConnFree
  <2>3. Cardinality(Busy') \in Nat /\ Cardinality(Busy \cup {p}) \in Nat
    BY <1>3, <2>1, FS_CardinalityType
  <2> QED
    BY <1>1, <1>3, <2>1, <2>2, <2>3 DEF PoolOK
<1>5. CASE req'[p].pc # "scan"
  <2>1. IsFiniteSet(Busy') /\ Cardinality(Busy') <= Cardinality(Busy)
    BY <1>1, <1>2, <1>5, FS_Subset
  <2>2. Cardinality(Busy') \in Nat
    BY <2>1, FS_CardinalityType
  <2> QED
    BY <1>1, <2>1, <2>2 DEF PoolOK
<1> QED
  BY <1>4, <1>5

\* What is left to show of a step of p's own.
LEMMA OwnStep ==
  ASSUME Inv, UNCHANGED tables, taken' = taken, NEW p \in Reader,
         DOMAIN req' = Reader, DOMAIN walk' = Reader,
         \A q \in Reader \ {p} : req'[q] = req[q] /\ walk'[q] = walk[q],
         req'[p].pc = "scan" => ConnFree,
         Good(p)'
  PROVE  Inv'
<1>1. RowsOK /\ PhotosOK /\ PoolOK /\ \A q \in Reader : Good(q)
  BY InvIs
<1>2. RowsOK' /\ PhotosOK'
  BY <1>1, StillTables
<1>3. PoolOK'
  BY <1>1, PoolStep
<1>4. \A q \in Reader : Good(q)'
  BY <1>1, Still
<1> QED
  BY <1>2, <1>3, <1>4 DEF Inv, Good, PagesFitTotals, Fits

-----------------------------------------------------------------------------
(* The steps of readers *)

\* What an answer is.
LEMMA AnswerIs ==
  ASSUME DOMAIN req = Reader, NEW p \in Reader, NEW code, req' = Answer(p, code)
  PROVE  /\ DOMAIN req' = Reader /\ \A q \in Reader \ {p} : req'[q] = req[q]
         /\ req'[p].pc = IF code = 200 /\ Full(p) THEN "full" ELSE "done"
         /\ req'[p].call = req[p].call /\ req'[p].page = req[p].page /\ req'[p].status = code
         /\ req'[p].list = <<>> /\ req'[p].photos = {}
         /\ req'[p].countedAt = 0 /\ req'[p].listedAt = 0 /\ DOMAIN req'[p] = Fields
  BY DEF Answer, Idle, Fields

\* Who is answered keeps no list and no connection.
LEMMA AnswerStep ==
  ASSUME Inv, NEW p \in Reader, Here(p), UNCHANGED tables, taken' = taken,
         DOMAIN req' = Reader, DOMAIN walk' = Reader,
         \A q \in Reader \ {p} : req'[q] = req[q] /\ walk'[q] = walk[q],
         req'[p].pc \in {"full", "done"}, req'[p].pc = "full" => req[p].call.op \in PagedOps,
         req'[p].call = req[p].call, req'[p].page = req[p].page, req'[p].list = <<>>,
         req'[p].countedAt = 0, req'[p].listedAt = 0, DOMAIN req'[p] = Fields,
         WalkOK(p)'
  PROVE  Inv'
<1>1. CallOK(p) /\ req[p].call \in Call /\ req[p].page \in 1..MaxInt
  BY DEF Inv, CallOK
<1>2. PerPage(req[p].call) \in 1..MaxPerPage /\ MaxPerPage \in Nat
  BY <1>1, PerPageIs, Constants
<1>3. writes' \in Nat
  BY DEF Inv, PhotosOK, tables
<1>4. <<>> \in Seq(Id) /\ Len(<<>>) = 0
  OBVIOUS
<1>5. CallOK(p)'
  <2>1. PerPage(req'[p].call) >= 0
    BY <1>2
  <2>2. 0 \in 0..writes'
    BY <1>3
  <2> QED
    BY <1>1, <1>4, <2>1, <2>2 DEF CallOK, Here, At, IsAnswered
<1>6. CountOK(p)' /\ ShownOK(p)' /\ Fits(p)'
  BY DEF CountOK, ShownOK, Fits, Paged, At
<1>7. Good(p)'
  BY <1>5, <1>6 DEF Good
<1> QED
  BY <1>7, OwnStep

LEMMA ReceiveStep ==
  ASSUME Inv, NEW p \in Reader, Receive(p)
  PROVE  Inv'
<1>1. PICK c \in Calls[p] :
        req' = [req EXCEPT ![p] = [Idle EXCEPT !.pc = IF c.op \in PagedOps THEN "count" ELSE "page",
                                               !.call = c, !.page = FirstPage(c)]]
  BY DEF Receive
<1>2. At(p, "idle") /\ UNCHANGED <<tables, taken, walk>> /\ DOMAIN req = Reader /\ DOMAIN walk = Reader
  BY DEF Receive, Inv
<1>3. /\ DOMAIN req' = Reader /\ \A q \in Reader \ {p} : req'[q] = req[q]
      /\ req'[p].pc = IF c.op \in PagedOps THEN "count" ELSE "page"
      /\ req'[p].call = c /\ req'[p].page = FirstPage(c)
      /\ req'[p].list = <<>> /\ req'[p].photos = {}
      /\ req'[p].countedAt = 0 /\ req'[p].listedAt = 0 /\ DOMAIN req'[p] = Fields
  BY <1>1, <1>2 DEF Idle, Fields
<1>4. c \in Call
  BY ReadsAssumption DEF ReadsAssumption
<1>5. FirstPage(c) \in 1..MaxInt /\ PerPage(c) \in 1..MaxPerPage /\ MaxPerPage \in Nat
  BY <1>4, PerPageIs, Constants
<1>6. writes' \in Nat
  BY <1>2 DEF Inv, PhotosOK, tables
<1>7. <<>> \in Seq(Id) /\ Len(<<>>) = 0
  OBVIOUS
<1>8. CallOK(p)'
  <2>1. PerPage(req'[p].call) >= 0 /\ 0 \in 0..writes'
    BY <1>3, <1>5, <1>6
  <2> QED
    BY <1>3, <1>4, <1>5, <1>7, <2>1 DEF CallOK, Here, At, IsAnswered
<1>9. CountOK(p)' /\ ShownOK(p)' /\ Fits(p)'
  BY <1>3 DEF CountOK, ShownOK, Fits, Paged, At
<1>10. WalkOK(p)'
  BY <1>2 DEF Inv, WalkOK, Here
<1> QED
  BY <1>2, <1>3, <1>8, <1>9, <1>10, OwnStep DEF Good

LEMMA CountStep ==
  ASSUME Inv, NEW p \in Reader, Count(p)
  PROVE  Inv'
<1>1. /\ At(p, "count") /\ UNCHANGED <<tables, taken, walk>>
      /\ DOMAIN req = Reader /\ DOMAIN walk = Reader
      /\ req' = [req EXCEPT ![p].pc = "page", ![p].countedAt = writes,
                            ![p].total = Cardinality(Listed(req[p].call, beers, reviews))]
  BY DEF Count, Inv
<1>2. CallOK(p) /\ WalkOK(p) /\ writes \in Nat
  BY DEF Inv, PhotosOK
<1>3. /\ DOMAIN req' = Reader /\ \A q \in Reader \ {p} : req'[q] = req[q]
      /\ req'[p].pc = "page" /\ req'[p].countedAt = writes
      /\ req'[p].total = Cardinality(Listed(req[p].call, beers, reviews))
      /\ req'[p].call = req[p].call /\ req'[p].page = req[p].page
      /\ req'[p].list = req[p].list /\ req'[p].photos = req[p].photos
      /\ req'[p].listedAt = req[p].listedAt /\ DOMAIN req'[p] = Fields
  BY <1>1, <1>2 DEF CallOK, Fields
<1>4. /\ beers' = beers /\ reviews' = reviews /\ writes' = writes /\ walk' = walk /\ taken' = taken
      /\ UNCHANGED tables
  BY <1>1 DEF tables, db
<1>5. CallOK(p)'
  BY <1>1, <1>2, <1>3, <1>4 DEF CallOK, Here, At, IsAnswered
<1>6. CountOK(p)'
  BY <1>3, <1>4 DEF CountOK, Listed
<1>7. ShownOK(p)' /\ Fits(p)'
  BY <1>3 DEF ShownOK, Fits, Paged, At
<1>8. WalkOK(p)'
  <2> DEFINE c == req[p].call
  <2>1. /\ Listed(c, beers, reviews)' = Listed(c, beers, reviews) /\ c' = c
        /\ \A i : Rank(c, i)' = Rank(c, i)
    BY <1>3, <1>4 DEF Listed, Rank
  <2>2. \A r : Ahead(c, r)' = Ahead(c, r) /\ (Tied(c, r)' <=> Tied(c, r))
    BY <2>1 DEF Ahead, Tied
  <2>3. \A r : Excused(p, r)' <=> Excused(p, r)
    BY <1>3, <1>4, <2>2 DEF Excused
  <2>4. Pages(p)' = Pages(p) /\ Missed(p)' = Missed(p)
    BY <1>1, <1>3, <1>4 DEF Pages, Missed, At
  <2>5. /\ Here(p)' /\ ~At(p, "done")' /\ ~At(p, "photos")' /\ ~At(p, "scan")'
        /\ ~At(p, "done") /\ ~At(p, "scan")
    BY <1>1, <1>3 DEF At, Here
  <2> QED
    BY <1>2, <1>4, <2>1, <2>2, <2>3, <2>4, <2>5 DEF WalkOK
<1> QED
  BY <1>1, <1>3, <1>4, <1>5, <1>6, <1>7, <1>8, OwnStep DEF Good

\* Who goes on with a walk between two pages has missed no more than before.
LEMMA WalkStep ==
  ASSUME NEW p \in Reader, WalkOK(p), UNCHANGED tables, req'[p].call = req[p].call,
         DOMAIN walk'[p] = {"on", "changed", "seen", "stayed", "left"} /\ walk'[p].on \in BOOLEAN,
         walk'[p].on => /\ walk[p].on /\ walk'[p].changed = walk[p].changed
                        /\ walk'[p].stayed = walk[p].stayed /\ walk'[p].left = walk[p].left
                        /\ req'[p].pc \in {"count", "photos", "full"}
                        /\ req'[p].pc = "photos" => Full(p)'
                        /\ Missed(p)' \subseteq Missed(p) /\ Pages(p)' = Pages(p)
  PROVE  WalkOK(p)'
<1> DEFINE c == req[p].call
<1>1. beers' = beers /\ reviews' = reviews
  BY DEF tables, db
<1>2. /\ Listed(c, beers, reviews)' = Listed(c, beers, reviews) /\ c' = c
      /\ \A i : Rank(c, i)' = Rank(c, i)
  BY <1>1 DEF Listed, Rank
<1>3. \A r : Ahead(c, r)' = Ahead(c, r) /\ (Tied(c, r)' <=> Tied(c, r))
  BY <1>2 DEF Ahead, Tied
<1>4. SUFFICES ASSUME walk'[p].on PROVE WalkOK(p)'
  BY DEF WalkOK
<1>5. \A r : Excused(p, r)' <=> Excused(p, r)
  BY <1>2, <1>3, <1>4 DEF Excused
<1>6. Here(p)' /\ ~At(p, "done")' /\ ~At(p, "scan")' /\ (At(p, "photos")' => Full(p)')
  BY <1>4 DEF At, Here
<1> QED
  BY <1>2, <1>3, <1>4, <1>5, <1>6 DEF WalkOK

LEMMA ScanRowsStep ==
  ASSUME Inv, NEW p \in Reader, ScanRows(p)
  PROVE  Inv'
<1>1. /\ At(p, "scan") /\ UNCHANGED tables /\ taken' = taken
      /\ DOMAIN req = Reader /\ DOMAIN walk = Reader /\ CallOK(p) /\ WalkOK(p)
      /\ req' = CASE req[p].list = <<>> /\ req[p].call.op \in {"Review", "Beer"} -> Answer(p, 404)
                  [] req[p].list = <<>> \/ req[p].call.op \notin PourOps -> Answer(p, 200)
                  [] OTHER -> [req EXCEPT ![p].pc = "photos"]
      /\ walk' = [walk EXCEPT ![p] = IF Full(p) /\ walk[p].on
                                     THEN [walk[p] EXCEPT !.seen = @ \cup Shown(p)] ELSE NoWalk]
  BY DEF ScanRows, Inv
<1>2. /\ DOMAIN walk' = Reader /\ \A q \in Reader \ {p} : walk'[q] = walk[q]
      /\ DOMAIN walk'[p] = {"on", "changed", "seen", "stayed", "left"} /\ walk'[p].on \in BOOLEAN
      /\ walk'[p].on => /\ Full(p) /\ walk[p].on /\ walk'[p].changed = walk[p].changed
                        /\ walk'[p].stayed = walk[p].stayed /\ walk'[p].left = walk[p].left
                        /\ walk'[p].seen = walk[p].seen \cup Shown(p)
  <2>1. /\ DOMAIN walk' = Reader /\ \A q \in Reader \ {p} : walk'[q] = walk[q]
        /\ Full(p) /\ walk[p].on => walk'[p] = [walk[p] EXCEPT !.seen = @ \cup Shown(p)]
        /\ ~(Full(p) /\ walk[p].on) => walk'[p] = NoWalk
    BY <1>1
  <2>2. DOMAIN walk[p] = {"on", "changed", "seen", "stayed", "left"} /\ walk[p].on \in BOOLEAN
    BY <1>1 DEF WalkOK
  <2>3. CASE Full(p) /\ walk[p].on
    BY <2>1, <2>2, <2>3
  <2>4. CASE ~(Full(p) /\ walk[p].on)
    <3>1. walk'[p] = NoWalk
      BY <2>1, <2>4
    <3>2. ~walk'[p].on /\ walk'[p].on \in BOOLEAN /\ DOMAIN walk'[p] = {"on", "changed", "seen", "stayed", "left"}
      BY <3>1 DEF NoWalk
    <3> QED
      BY <2>1, <3>2
  <2> QED
    BY <2>1, <2>3, <2>4
<1>3. Here(p) /\ req[p].call \in Call /\ req[p].page \in 1..MaxInt
  BY <1>1 DEF CallOK, Here, At
<1>9. /\ At(p, "scan") /\ Here(p) /\ CallOK(p) /\ UNCHANGED tables /\ taken' = taken
      /\ DOMAIN walk' = Reader /\ \A q \in Reader \ {p} : walk'[q] = walk[q]
  BY <1>1, <1>2, <1>3
<1>4. Full(p) => req[p].list # <<>>
  <2>1. PerPage(req[p].call) >= 1
    BY <1>3, PerPageIs, Constants
  <2> QED
    BY <2>1 DEF Full
<1>5. ASSUME NEW code \in {200, 404}, req' = Answer(p, code), code = 404 => ~Full(p)
      PROVE  Inv'
  <2>1. /\ DOMAIN req' = Reader /\ \A q \in Reader \ {p} : req'[q] = req[q]
        /\ req'[p].pc = IF code = 200 /\ Full(p) THEN "full" ELSE "done"
        /\ req'[p].call = req[p].call /\ req'[p].page = req[p].page
        /\ req'[p].list = <<>> /\ req'[p].countedAt = 0 /\ req'[p].listedAt = 0
        /\ DOMAIN req'[p] = Fields
    BY <1>1, <1>5, AnswerIs
  <2>2. req'[p].pc \in {"full", "done"} /\ (req'[p].pc = "full" => req[p].call.op \in PagedOps)
    BY <2>1 DEF Full
  <2>3. walk'[p].on => req'[p].pc = "full"
    BY <1>2, <1>5, <2>1
  <2>4. walk'[p].on => Missed(p)' \subseteq Missed(p) /\ Pages(p)' = Pages(p)
    BY <1>1, <1>2, <2>1, <2>3, SMTT(30) DEF Missed, Pages, At
  <2>5. WalkOK(p)'
    BY <1>1, <1>2, <2>1, <2>3, <2>4, WalkStep
  <2> QED
    BY <1>9, <2>1, <2>2, <2>5, AnswerStep, SMTT(30)
<1>6. CASE req' = [req EXCEPT ![p].pc = "photos"] /\ req[p].call.op \in PourOps
  <2>1. /\ DOMAIN req' = Reader /\ \A q \in Reader \ {p} : req'[q] = req[q]
        /\ req'[p].pc = "photos" /\ DOMAIN req'[p] = Fields
        /\ req'[p].call = req[p].call /\ req'[p].page = req[p].page
        /\ req'[p].list = req[p].list /\ req'[p].countedAt = req[p].countedAt
        /\ req'[p].listedAt = req[p].listedAt /\ req'[p].photos = req[p].photos
    BY <1>1, <1>6 DEF CallOK, Fields
  <2>2. /\ beers' = beers /\ reviews' = reviews /\ writes' = writes
        /\ photos' = photos /\ exposed' = exposed
    BY <1>1 DEF tables, db
  <2>3. CallOK(p)'
    BY <1>6, <1>9, <2>1, <2>2 DEF CallOK, Here, At, IsAnswered
  <2>4. CountOK(p)' /\ Fits(p)'
    BY <2>1 DEF CountOK, Fits, Paged, At
  <2>5. ShownOK(p)'
    <3>1. ShownOK(p)
      BY DEF Inv
    <3> QED
      <4>1. /\ Shown(p)' = Shown(p) /\ req'[p].listedAt = req[p].listedAt
            /\ req'[p].call = req[p].call
        BY <2>1, <2>2 DEF Shown
      <4> QED
        BY <1>9, <2>2, <3>1, <4>1 DEF ShownOK, At
  <2>6. walk'[p].on => Missed(p)' \subseteq Missed(p) /\ Pages(p)' = Pages(p) /\ Full(p)'
    BY <1>1, <1>2, <2>1 DEF Missed, Pages, At, Full
  <2>7. WalkOK(p)'
    BY <1>1, <1>2, <2>1, <2>6, WalkStep
  <2> QED
    <3>1. Good(p)'
      BY <2>3, <2>4, <2>5, <2>7 DEF Good
    <3>2. req'[p].pc # "scan"
      BY <2>1
    <3> QED
      BY <1>9, <2>1, <3>1, <3>2, OwnStep
<1>7. CASE req[p].list = <<>> /\ req[p].call.op \in {"Review", "Beer"}
  BY <1>1, <1>4, <1>5, <1>7
<1>8. CASE ~(req[p].list = <<>> /\ req[p].call.op \in {"Review", "Beer"})
             /\ (req[p].list = <<>> \/ req[p].call.op \notin PourOps)
  BY <1>1, <1>5, <1>8
<1> QED
  BY <1>1, <1>6, <1>7, <1>8

LEMMA LoadPhotosStep ==
  ASSUME Inv, NEW p \in Reader, LoadPhotos(p)
  PROVE  Inv'
<1>1. /\ At(p, "photos") /\ UNCHANGED tables /\ taken' = taken /\ walk' = walk
      /\ DOMAIN req = Reader /\ DOMAIN walk = Reader /\ CallOK(p) /\ WalkOK(p)
      /\ req' = [Answer(p, 200) EXCEPT ![p].photos = UNION {photos[r] : r \in Shown(p)}]
  BY DEF LoadPhotos, Inv
<1>2. Here(p)
  BY <1>1 DEF Here, At
<1>3. /\ DOMAIN req' = Reader /\ \A q \in Reader \ {p} : req'[q] = req[q]
      /\ req'[p].pc = IF Full(p) THEN "full" ELSE "done"
      /\ req'[p].call = req[p].call /\ req'[p].page = req[p].page
      /\ req'[p].list = <<>> /\ req'[p].countedAt = 0 /\ req'[p].listedAt = 0
      /\ DOMAIN req'[p] = Fields
  BY <1>1 DEF Answer, Idle, Fields
<1>4. req'[p].pc \in {"full", "done"} /\ (req'[p].pc = "full" => req[p].call.op \in PagedOps)
  BY <1>3 DEF Full
<1>5. walk'[p].on => req'[p].pc = "full"
  BY <1>1, <1>3 DEF WalkOK
<1>6. walk'[p].on => Missed(p)' \subseteq Missed(p) /\ Pages(p)' = Pages(p)
  BY <1>1, <1>3, <1>5 DEF Missed, Pages, At
<1>7. DOMAIN walk'[p] = {"on", "changed", "seen", "stayed", "left"} /\ walk'[p].on \in BOOLEAN
  BY <1>1 DEF WalkOK
<1>8. WalkOK(p)'
  BY <1>1, <1>3, <1>5, <1>6, <1>7, WalkStep
<1> QED
  BY <1>1, <1>2, <1>3, <1>4, <1>8, AnswerStep

LEMMA FailStep ==
  ASSUME Inv, NEW p \in Reader, Fail(p)
  PROVE  Inv'
<1>1. /\ Here(p) /\ UNCHANGED tables /\ taken' = taken
      /\ DOMAIN req = Reader /\ DOMAIN walk = Reader
      /\ walk' = [walk EXCEPT ![p] = NoWalk]
  BY DEF Fail, Inv, Here
<1>2. PICK code \in {404, 500} : req' = Answer(p, code)
  BY DEF Fail
<1>3. /\ DOMAIN req' = Reader /\ \A q \in Reader \ {p} : req'[q] = req[q]
      /\ req'[p].pc = "done"
      /\ req'[p].call = req[p].call /\ req'[p].page = req[p].page
      /\ req'[p].list = <<>> /\ req'[p].countedAt = 0 /\ req'[p].listedAt = 0
      /\ DOMAIN req'[p] = Fields
  BY <1>1, <1>2, AnswerIs
<1>4. DOMAIN walk' = Reader /\ (\A q \in Reader \ {p} : walk'[q] = walk[q]) /\ WalkOK(p)'
  BY <1>1 DEF NoWalk, WalkOK
<1> QED
  BY <1>1, <1>3, <1>4, AnswerStep

LEMMA TurnStep ==
  ASSUME Inv, NEW p \in Reader, Turn(p)
  PROVE  Inv'
<1>1. /\ At(p, "full") /\ req[p].page < MaxPage /\ UNCHANGED tables /\ taken' = taken /\ walk' = walk
      /\ DOMAIN req = Reader /\ DOMAIN walk = Reader /\ CallOK(p) /\ WalkOK(p)
      /\ req' = [req EXCEPT ![p] = [Idle EXCEPT !.pc = "count", !.call = req[p].call,
                                                !.page = req[p].page + 1]]
  BY DEF Turn, Inv
<1>2. /\ DOMAIN req' = Reader /\ \A q \in Reader \ {p} : req'[q] = req[q]
      /\ req'[p].pc = "count" /\ req'[p].call = req[p].call /\ req'[p].page = req[p].page + 1
      /\ req'[p].list = <<>> /\ req'[p].countedAt = 0 /\ req'[p].listedAt = 0
      /\ req'[p].photos = {} /\ DOMAIN req'[p] = Fields
  BY <1>1 DEF Idle, Fields
<1>3. req[p].call \in Call /\ req[p].page \in 1..MaxInt /\ req[p].call.op \in PagedOps
  BY <1>1 DEF CallOK, Here, At
<1>4. req'[p].page \in 1..MaxInt /\ req'[p].page - 1 = req[p].page
  BY <1>1, <1>2, <1>3, Constants
<1>5. PerPage(req'[p].call) >= 0 /\ 0 \in 0..writes' /\ <<>> \in Seq(Id) /\ Len(<<>>) = 0
  BY <1>1, <1>2, <1>3, PerPageIs, Constants DEF Inv, PhotosOK, tables
<1>6. CallOK(p)'
  BY <1>2, <1>3, <1>4, <1>5 DEF CallOK, Here, At, IsAnswered
<1>7. CountOK(p)' /\ ShownOK(p)' /\ Fits(p)'
  BY <1>2 DEF CountOK, ShownOK, Fits, Paged, At
<1>8. Missed(p)' \subseteq Missed(p) /\ Pages(p)' = Pages(p)
  BY <1>1, <1>2, <1>4 DEF Missed, Pages, At
<1>9. DOMAIN walk'[p] = {"on", "changed", "seen", "stayed", "left"} /\ walk'[p].on \in BOOLEAN
  BY <1>1 DEF WalkOK
<1>10. WalkOK(p)'
  BY <1>1, <1>2, <1>8, <1>9, WalkStep
<1> QED
  BY <1>1, <1>2, <1>6, <1>7, <1>10, OwnStep DEF Good

\* A row that a page did not show, though no more rows than the pages before it hold are
\* sure to be ahead of it, has the rows of that page ahead of it as well.
LEMMA NotShown ==
  ASSUME RowsOK, NEW p \in Reader, NEW c \in Call, req[p].call = c, c.op \in PagedOps,
         Offset(p) \in Nat,
         NEW s \in Sorted(c, Listed(c, beers, reviews)),
         NEW r \in Listed(c, beers, reviews),
         \A i \in 1..Len(Slice(p, s)) : Slice(p, s)[i] # r,
         ~Tied(c, r), Cardinality(Ahead(c, r)) >= Offset(p)
  PROVE  /\ Len(Slice(p, s)) = PerPage(c)
         /\ Cardinality(Ahead(c, r)) >= Offset(p) + PerPage(c)
<1> DEFINE off == Offset(p)
           pp == PerPage(c)
           len == Len(Slice(p, s))
<1>1. PICK n \in 1..Len(s) : s[n] = r
  BY Positions
<1>2. Cardinality(Ahead(c, r)) = n - 1 /\ s \in Seq(Id) /\ Len(s) \in Nat
  BY <1>1, Positions
<1>3. /\ len \in Nat /\ len = IF Len(s) - off < 0 THEN 0 ELSE Least(Len(s) - off, pp)
      /\ \A i \in 1..len : Slice(p, s)[i] = s[off + i]
  BY <1>2, SliceIs
<1>4. off \in Nat /\ pp \in Nat /\ pp >= 1 /\ n - 1 >= off
  BY <1>2, PerPageIs, Constants
<1>5. \A i \in 1..len : s[off + i] # r
  BY <1>3
<1> HIDE DEF off, pp, len
<1>6. n - off \notin 1..len
  <2>1. off + (n - off) = n
    BY <1>1, <1>4
  <2> QED
    BY <1>1, <1>5, <2>1
<1>7. n - off > len
  BY <1>1, <1>3, <1>4, <1>6
<1>8. len = pp /\ n - 1 >= off + pp
  BY <1>1, <1>2, <1>3, <1>4, <1>7 DEF Least
<1> QED
  BY <1>2, <1>8 DEF off, pp, len

\* The page of a request whose offset is a number of rows.
LEMMA PageStep ==
  ASSUME Inv, NEW p \in Reader, At(p, "page"), UNCHANGED tables, taken' = taken, ConnFree,
         ~(req[p].call.op \in PagedOps /\ Offset(p) < 0),
         NEW s \in Sorted(req[p].call, Listed(req[p].call, beers, reviews)),
         req' = [req EXCEPT ![p].pc = "scan", ![p].list = Slice(p, s), ![p].listedAt = writes],
         walk' = IF req[p].page # 1 THEN walk
                 ELSE [walk EXCEPT ![p] = [NoWalk EXCEPT !.on = req[p].call.op \in PagedOps,
                                               !.stayed = Listed(req[p].call, beers, reviews)]]
  PROVE  Inv'
<1> DEFINE c == req[p].call
           pp == PerPage(c)
           page == req[p].page
           off == (page - 1) * pp
           rows == Listed(c, beers, reviews)
           list == Slice(p, s)
<1>1. /\ RowsOK /\ CallOK(p) /\ WalkOK(p) /\ CountOK(p) /\ writes \in Nat
      /\ DOMAIN req = Reader /\ DOMAIN walk = Reader
  BY DEF Inv, PhotosOK
<1>2. c \in Call /\ page \in 1..MaxInt /\ req[p].photos = {} /\ req[p].countedAt \in 0..writes
  BY <1>1 DEF CallOK, Here, At, IsAnswered
<1>3. /\ DOMAIN req' = Reader /\ \A q \in Reader \ {p} : req'[q] = req[q]
      /\ req'[p].pc = "scan" /\ req'[p].list = list /\ req'[p].listedAt = writes
      /\ req'[p].call = c /\ req'[p].page = page
      /\ req'[p].photos = req[p].photos /\ req'[p].total = req[p].total
      /\ req'[p].countedAt = req[p].countedAt /\ DOMAIN req'[p] = Fields
  BY <1>1 DEF CallOK, Fields
<1>4. /\ beers' = beers /\ reviews' = reviews /\ writes' = writes
      /\ photos' = photos /\ exposed' = exposed
  BY DEF tables, db
<1>5. /\ rows \subseteq Id /\ IsFiniteSet(rows) /\ Cardinality(rows) \in Nat
      /\ c.op \in PublicOps => rows \subseteq Public(reviews)
  BY <1>1, <1>2, ListedIs
<1>6. /\ s \in Seq(Id) /\ Len(s) = Cardinality(rows)
      /\ \A n \in 1..Len(s) : s[n] \in rows
  BY <1>1, <1>2, Positions
<1>7. pp \in 1..MaxPerPage /\ pp \in Nat /\ pp >= 1 /\ MaxInt \in Nat /\ pp <= MaxInt /\ off \in Int
      /\ off >= 0 /\ page * pp = off + pp /\ (page = 1 => off = 0)
  <2>1. pp \in 1..MaxPerPage /\ pp \in Nat /\ pp >= 1 /\ MaxInt \in Nat /\ pp <= MaxInt
    BY <1>2, PerPageIs, Constants
  <2>2. page \in Nat /\ page >= 1 /\ page - 1 \in Nat
    BY <1>2, <2>1
  <2> HIDE DEF pp, page
  <2>3. (page - 1) * pp \in Nat /\ page * pp = (page - 1) * pp + pp
    BY <2>1, <2>2
  <2>4. page = 1 => (page - 1) * pp = 0
    BY <2>1
  <2> QED
    BY <2>1, <2>3, <2>4
<1>8. Offset(p) = Wrap(off)
  BY DEF Offset
<1>9. off <= MaxInt => Offset(p) = off
  BY <1>7, <1>8, WrapIs
<1>10. c.op \in PagedOps => Offset(p) \in Nat
  <2>1. Wrap(off) \in Int
    BY <1>7 DEF Wrap
  <2> QED
    BY <1>8, <2>1
<1> HIDE DEF c, pp, page, off, rows, list
<1>11. /\ list \in Seq(Id)
       /\ \A i \in 1..Len(list) : list[i] \in rows
       /\ c.op \in PagedOps =>
            Len(list) = IF Len(s) - Offset(p) < 0 THEN 0 ELSE Least(Len(s) - Offset(p), pp)
  <2>1. CASE c.op \in PagedOps
    BY <1>2, <1>6, <1>10, <2>1, SliceIs DEF list, c, pp
  <2>2. CASE c.op \notin PagedOps
    BY <1>2, <1>6, <2>2, SliceIs DEF list, c
  <2> QED
    BY <2>1, <2>2
<1>12. c.op \in PagedOps => Len(list) <= pp
  BY <1>6, <1>7, <1>10, <1>11 DEF Least
<1>13. DOMAIN list = 1..Len(list)
  BY <1>11
<1>14. CallOK(p)'
  <2>1. writes \in 0..writes'
    BY <1>1, <1>4
  <2>2. /\ req'[p].list \in Seq(Id) /\ req'[p].call \in Call /\ req'[p].page \in 1..MaxInt
        /\ req'[p].photos = {} /\ req'[p].countedAt \in 0..writes' /\ req'[p].listedAt \in 0..writes'
        /\ req'[p].call.op \in PagedOps => Len(req'[p].list) <= PerPage(req'[p].call)
    BY <1>2, <1>3, <1>4, <1>11, <1>12, <2>1 DEF pp
  <2> QED
    BY <1>3, <2>2 DEF CallOK, At
<1>15. CountOK(p)'
  BY <1>3 DEF CountOK, At
<1>16. ShownOK(p)'
  <2>1. \A r \in Public(reviews) : photos[r] \subseteq exposed
    BY DEF Inv, PhotosOK
  <2>2. c.op \in PublicOps => \A n \in DOMAIN list : list[n] \in Public(reviews)
    BY <1>5, <1>11, <1>13
  <2> QED
    BY <1>3, <1>4, <2>1, <2>2 DEF ShownOK, Shown
<1>17. Fits(p)'
  <2>1. SUFFICES ASSUME c.op \in PagedOps, req[p].countedAt = writes, off <= MaxInt
                 PROVE  Len(list) = IF req[p].total - off < 0 THEN 0 ELSE Least(req[p].total - off, pp)
    BY <1>3, <1>7 DEF Fits, Paged, Overflows, off, pp
  <2>2. req[p].total = Len(s)
    BY <1>1, <1>6, <2>1 DEF CountOK, c, rows
  <2> QED
    BY <1>9, <1>11, <2>1, <2>2
<1>18. /\ Listed(c, beers, reviews)' = Listed(c, beers, reviews)
       /\ \A i : Rank(c, i)' = Rank(c, i)
  <2>1. c' = c
    BY <1>3 DEF c
  <2> QED
    BY <1>4, <2>1 DEF Listed, Rank
<1>19. \A r : Ahead(c, r)' = Ahead(c, r) /\ (Tied(c, r)' <=> Tied(c, r))
  BY <1>18 DEF Ahead, Tied
<1>20. DOMAIN walk' = Reader /\ \A q \in Reader \ {p} : walk'[q] = walk[q]
  BY <1>1
<1>21. page # 1 => walk'[p] = walk[p]
  BY DEF page
<1>22. page = 1 =>
         /\ DOMAIN walk'[p] = {"on", "changed", "seen", "stayed", "left"}
         /\ walk'[p].on \in BOOLEAN /\ (walk'[p].on => c.op \in PagedOps)
         /\ walk'[p].stayed = rows
  <2>1. SUFFICES ASSUME page = 1
                 PROVE  /\ DOMAIN walk'[p] = {"on", "changed", "seen", "stayed", "left"}
                        /\ walk'[p].on \in BOOLEAN /\ (walk'[p].on => c.op \in PagedOps)
                        /\ walk'[p].stayed = rows
    OBVIOUS
  <2>2. (c.op \in PagedOps) \in BOOLEAN
    OBVIOUS
  <2>3. walk'[p] = [NoWalk EXCEPT !.on = c.op \in PagedOps, !.stayed = rows]
    BY <1>1, <2>1 DEF page, c, rows
  <2> QED
    BY <2>2, <2>3 DEF NoWalk
\* Rows of one rank tie, unless the ids rank them.
<1>23. \A r \in rows : Tied(c, r) => c.sort # "created_at"
  <2>1. SUFFICES ASSUME NEW r \in rows, NEW t \in rows \ {r}, Rank(c, t) = Rank(c, r), c.sort = "created_at"
                 PROVE  FALSE
    BY DEF Tied, rows
  <2>2. t \in Nat /\ t # r /\ Rank(c, t) = -t /\ Rank(c, r) = -r
    BY <1>5, <2>1, Constants DEF Rank
  <2>3. r \in Nat /\ Rank(c, t) = Rank(c, r)
    BY <1>5, <2>1, Constants
  <2> QED
    BY <2>2, <2>3
<1>24. WalkOK(p)'
  <2>1. SUFFICES ASSUME walk'[p].on
                 PROVE  /\ c.op \in PagedOps /\ walk'[p].stayed \subseteq rows /\ page * pp <= MaxInt + pp
                        /\ \A r \in Missed(p)' :
                             Excused(p, r)' \/ (Full(p)' /\ Cardinality(Ahead(c, r)) >= page * pp)
    <3>1. c' = c /\ Pages(p)' = page /\ PerPage(c)' = pp /\ req'[p].call = c
      BY <1>3 DEF Pages, At, c, page, pp
    <3>2. Here(p)' /\ ~At(p, "done")' /\ ~At(p, "photos")' /\ At(p, "scan")'
      BY <1>3 DEF Here, At
    <3>3. DOMAIN walk'[p] = {"on", "changed", "seen", "stayed", "left"} /\ walk'[p].on \in BOOLEAN
      BY <1>1, <1>21, <1>22 DEF WalkOK
    <3>4. /\ Listed(req[p].call, beers, reviews)' = rows
          /\ \A r : Ahead(req[p].call, r)' = Ahead(c, r)
      BY <1>18, <1>19, <3>1 DEF c, rows
    <3> QED
      BY <3>1, <3>2, <3>3, <3>4 DEF WalkOK, c, pp
  <2>2. page # 1 =>
          /\ walk'[p] = walk[p] /\ c.op \in PagedOps /\ walk[p].stayed \subseteq rows
          /\ off <= MaxInt + pp
          /\ \A r \in Missed(p) : Excused(p, r) \/ Cardinality(Ahead(c, r)) >= off
    <3>1. Pages(p) = page - 1
      BY DEF Pages, At, page
    <3> QED
      BY <1>1, <1>21, <2>1, <3>1 DEF WalkOK, c, pp, off, rows
  <2>3. c.op \in PagedOps /\ walk'[p].stayed \subseteq rows
    BY <1>22, <2>1, <2>2
  <2>4. off <= MaxInt
    <3>1. CASE page = 1
      BY <1>7, <3>1
    <3>2. CASE page # 1
      <4>1. off \in 0..(2 * MaxInt + 1)
        BY <1>7, <2>2, <3>2
      <4>2. Wrap(off) \in Nat
        BY <1>8, <1>10, <2>3
      <4>3. off \notin (MaxInt + 1)..(2 * MaxInt + 1)
        BY <4>2, <1>7, WrapIs
      <4> QED
        BY <1>7, <4>1, <4>3
    <3> QED
      BY <3>1, <3>2
  <2>5. Offset(p) = off /\ page * pp <= MaxInt + pp
    BY <1>7, <1>9, <2>4
  <2>6. ASSUME NEW r \in Missed(p)', ~Excused(p, r)'
        PROVE  Full(p)' /\ Cardinality(Ahead(c, r)) >= page * pp
    <3>1. r \in walk'[p].stayed /\ r \notin walk'[p].seen /\ r \notin Shown(p)'
      BY <1>3, <2>6 DEF Missed, At
    <3>2. \A i \in 1..Len(list) : list[i] # r
      BY <1>3, <1>13, <3>1 DEF Shown
    <3>3. r \in rows
      BY <2>3, <3>1
    <3>4. ~Tied(c, r)
      <4>1. CASE c.sort = "created_at"
        BY <1>23, <3>3, <4>1
      <4>2. CASE c.sort # "created_at"
        <5>1. req'[p].call = c /\ c' = c
          BY <1>3 DEF c
        <5>2. ~Tied(c, r)'
          BY <2>6, <4>2, <5>1 DEF Excused, c
        <5> QED
          BY <1>19, <5>2
      <4> QED
        BY <4>1, <4>2
    <3>5. Cardinality(Ahead(c, r)) >= off
      <4>1. CASE page = 1
        <5>1. Ahead(c, r) \subseteq rows
          BY DEF Ahead, rows
        <5>2. IsFiniteSet(Ahead(c, r)) /\ Cardinality(Ahead(c, r)) \in Nat
          BY <1>5, <5>1, FS_Subset, FS_CardinalityType
        <5> QED
          BY <1>7, <4>1, <5>2
      <4>2. CASE page # 1
        <5>1. r \in Missed(p)
          BY <2>2, <3>1, <4>2 DEF Missed, At
        <5>2. ~Excused(p, r)
          BY <1>3, <2>2, <2>6, <3>4, <4>2 DEF Excused, c
        <5> QED
          BY <2>2, <4>2, <5>1, <5>2
      <4> QED
        BY <4>1, <4>2
    <3>6. Len(list) = pp /\ Cardinality(Ahead(c, r)) >= off + pp
      <4>1. Offset(p) \in Nat
        BY <1>10, <2>3
      <4>2. /\ req[p].call \in Call /\ req[p].call.op \in PagedOps
            /\ r \in Listed(req[p].call, beers, reviews) /\ ~Tied(req[p].call, r)
            /\ \A i \in 1..Len(Slice(p, s)) : Slice(p, s)[i] # r
            /\ Cardinality(Ahead(req[p].call, r)) >= Offset(p)
        BY <1>2, <2>3, <2>5, <3>2, <3>3, <3>4, <3>5 DEF c, rows, list
      <4>3. /\ Len(Slice(p, s)) = PerPage(req[p].call)
            /\ Cardinality(Ahead(req[p].call, r)) >= Offset(p) + PerPage(req[p].call)
        BY <1>1, <4>1, <4>2, NotShown
      <4> QED
        BY <2>5, <4>3 DEF c, list, pp
    <3> QED
      BY <1>3, <1>7, <2>3, <3>6 DEF Full, c, pp
  <2> QED
    BY <2>3, <2>5, <2>6
<1> QED
  BY <1>1, <1>3, <1>14, <1>15, <1>16, <1>17, <1>20, <1>24, OwnStep DEF Good

LEMMA QueryPageStep ==
  ASSUME Inv, NEW p \in Reader, QueryPage(p)
  PROVE  Inv'
<1>1. /\ At(p, "page") /\ ConnFree /\ UNCHANGED tables /\ taken' = taken
      /\ RowsOK /\ CallOK(p) /\ DOMAIN req = Reader /\ DOMAIN walk = Reader
  BY DEF QueryPage, Inv
<1>2. Here(p) /\ req[p].call \in Call
  BY <1>1 DEF CallOK, Here, At
<1>3. CASE req[p].call.op \in PagedOps /\ Offset(p) < 0
  <2>1. req' = Answer(p, 500) /\ walk' = [walk EXCEPT ![p] = NoWalk]
    BY <1>3 DEF QueryPage
  <2>2. /\ DOMAIN req' = Reader /\ \A q \in Reader \ {p} : req'[q] = req[q]
        /\ req'[p].pc = "done"
        /\ req'[p].call = req[p].call /\ req'[p].page = req[p].page
        /\ req'[p].list = <<>> /\ req'[p].countedAt = 0 /\ req'[p].listedAt = 0
        /\ DOMAIN req'[p] = Fields
    BY <1>1, <2>1, AnswerIs
  <2>3. DOMAIN walk' = Reader /\ (\A q \in Reader \ {p} : walk'[q] = walk[q]) /\ WalkOK(p)'
    BY <1>1, <2>1 DEF NoWalk, WalkOK
  <2> QED
    BY <1>1, <1>2, <2>2, <2>3, AnswerStep
<1>4. CASE ~(req[p].call.op \in PagedOps /\ Offset(p) < 0)
  <2>1. {r \in Listed(req[p].call, beers, reviews) :
            req[p].call.op \in PourOps => beers[reviews[r].beer] # None}
          = Listed(req[p].call, beers, reviews)
    BY <1>1, <1>2, ListedIs
  <2>2. PICK s \in Sorted(req[p].call, Listed(req[p].call, beers, reviews)) :
          /\ req' = [req EXCEPT ![p].pc = "scan", ![p].list = Slice(p, s), ![p].listedAt = writes]
          /\ walk' = IF req[p].page # 1 THEN walk
                     ELSE [walk EXCEPT ![p] = [NoWalk EXCEPT !.on = req[p].call.op \in PagedOps,
                                                   !.stayed = Listed(req[p].call, beers, reviews)]]
    BY <1>4, <2>1 DEF QueryPage
  <2> QED
    BY <1>1, <1>4, <2>2, PageStep
<1> QED
  BY <1>3, <1>4

-----------------------------------------------------------------------------
(* The steps of writers and of the other connections *)

\* Whatever the catalog does, every pour has its beer.
LEMMA RowsStep ==
  ASSUME RowsOK, Next
  PROVE  RowsOK'
<1>1. /\ beers \in [Id -> Beer \cup {None}] /\ reviews \in [Id -> PourRow \cup {None}]
      /\ \A r \in Id : reviews[r] # None => beers[reviews[r].beer] # None
  BY DEF RowsOK, There
<1>2. None \notin PourRow /\ None \notin Beer /\ Review \subseteq PourRow
  BY Constants
<1>3. \A row \in PourRow : row.beer \in Id
  BY DEF PourRow
<1>4. SUFFICES /\ beers' \in [Id -> Beer \cup {None}] /\ reviews' \in [Id -> PourRow \cup {None}]
               /\ \A r \in Id : reviews'[r] # None => beers'[reviews'[r].beer] # None
  BY DEF RowsOK, There
<1>5. CASE Create
  <2>1. PICK i \in Id :
          /\ \/ UNCHANGED beers
             \/ beers[i] = None /\ \E beer \in Beer : beers' = [beers EXCEPT ![i] = beer]
          /\ \/ UNCHANGED reviews
             \/ /\ reviews[i] = None
                /\ \E pour \in Review : /\ beers'[pour.beer] # None
                                        /\ reviews' = [reviews EXCEPT ![i] = pour]
    BY <1>5 DEF Create
  <2>2. beers' \in [Id -> Beer \cup {None}] /\ \A j \in Id : beers[j] # None => beers'[j] # None
    BY <1>1, <1>2, <2>1
  <2>3. CASE UNCHANGED reviews
    BY <1>1, <1>3, <2>2, <2>3
  <2>4. CASE \E pour \in Review : /\ beers'[pour.beer] # None
                                  /\ reviews' = [reviews EXCEPT ![i] = pour]
    BY <1>1, <1>2, <1>3, <2>2, <2>4
  <2> QED
    BY <2>1, <2>3, <2>4
<1>6. CASE EditPour
  <2>1. PICK r \in Id, pour \in Review :
          /\ reviews[r] # None /\ pour.beer = reviews[r].beer
          /\ reviews' = [reviews EXCEPT ![r] = pour] /\ beers' = beers
    BY <1>6 DEF EditPour, There
  <2> QED
    BY <1>1, <1>2, <2>1
<1>7. CASE RemovePour
  <2>1. PICK r \in Id : reviews' = [reviews EXCEPT ![r] = None] /\ beers' = beers
    BY <1>7 DEF RemovePour, There
  <2> QED
    BY <1>1, <2>1
<1>8. CASE EditBeer
  <2>1. PICK i \in Id, beer \in Beer : beers' = [beers EXCEPT ![i] = beer] /\ reviews' = reviews
    BY <1>8 DEF EditBeer, There
  <2> QED
    BY <1>1, <1>2, <1>3, <2>1
<1>9. CASE Merge
  <2>1. PICK keep \in Id, gone \in SUBSET There(beers) :
          /\ \E left \in IF beers[keep] = None THEN {None} ELSE Fillings(beers[keep]) :
               beers' = [i \in Id |-> IF i \in gone THEN None ELSE IF i = keep THEN left ELSE beers[i]]
          /\ LET poured == {r \in There(reviews) : reviews[r].beer \in gone}
             IN  \E moved \in SUBSET poured :
                   /\ moved # {} => beers'[keep] # None
                   /\ reviews' = [r \in Id |-> IF r \in moved THEN [reviews[r] EXCEPT !.beer = keep]
                                               ELSE IF r \in poured THEN None ELSE reviews[r]]
    BY <1>9 DEF Merge
  <2>2. PICK left \in IF beers[keep] = None THEN {None} ELSE Fillings(beers[keep]) :
          beers' = [i \in Id |-> IF i \in gone THEN None ELSE IF i = keep THEN left ELSE beers[i]]
    BY <2>1
  <2>3. left \in Beer \cup {None} /\ (beers[keep] # None => left \in Beer)
    BY <2>2 DEF Fillings
  <2>4. /\ beers' \in [Id -> Beer \cup {None}]
        /\ \A i \in Id \ gone : beers[i] # None => beers'[i] # None
    BY <1>1, <1>2, <2>2, <2>3
  <2> DEFINE poured == {r \in There(reviews) : reviews[r].beer \in gone}
  <2>5. PICK moved \in SUBSET poured :
          /\ moved # {} => beers'[keep] # None
          /\ reviews' = [r \in Id |-> IF r \in moved THEN [reviews[r] EXCEPT !.beer = keep]
                                      ELSE IF r \in poured THEN None ELSE reviews[r]]
    BY <2>1
  <2>6. \A r \in moved : reviews[r] \in PourRow
    BY <1>1, <2>5 DEF There
  <2>7. \A row \in PourRow : [row EXCEPT !.beer = keep] \in PourRow /\ [row EXCEPT !.beer = keep].beer = keep
    BY DEF PourRow
  <2>8. \A r \in Id \ poured : reviews[r] # None => reviews[r].beer \in Id \ gone
    BY <1>1, <1>3 DEF There
  <2> HIDE DEF poured
  <2>9. reviews' \in [Id -> PourRow \cup {None}]
    BY <1>1, <2>5, <2>6, <2>7
  <2>10. ASSUME NEW r \in Id, reviews'[r] # None PROVE beers'[reviews'[r].beer] # None
    <3>1. CASE r \in moved
      <4>1. reviews'[r].beer = keep
        BY <2>5, <2>6, <2>7, <3>1
      <4> QED
        BY <2>5, <3>1, <4>1
    <3>2. CASE r \notin moved
      <4>1. reviews'[r] = reviews[r] /\ r \notin poured
        BY <2>5, <2>10, <3>2
      <4> QED
        BY <1>1, <2>4, <2>8, <2>10, <4>1
    <3> QED
      BY <3>1, <3>2
  <2> QED
    BY <2>4, <2>9, <2>10
<1> QED
  BY <1>5, <1>6, <1>7, <1>8, <1>9 DEF Next

LEMMA PhotosStep ==
  ASSUME RowsOK', PhotosOK, Write
  PROVE  PhotosOK'
<1>1. /\ photos \in [Id -> SUBSET (1..MaxWrites)] /\ exposed \subseteq 1..MaxWrites
      /\ writes \in Nat /\ writes < MaxWrites /\ MaxWrites \in Nat /\ writes' = writes + 1
      /\ exposed' = exposed \cup UNION {photos'[r] : r \in {s \in Id : reviews'[s] # None /\ Published(reviews'[s])}}
  BY Constants DEF PhotosOK, Write
<1>2. writes' \in 1..MaxWrites
  BY <1>1
<1> DEFINE kept == [r \in Id |-> IF reviews'[r] = None THEN {} ELSE photos[r]]
<1>3. kept \in [Id -> SUBSET (1..MaxWrites)]
  BY <1>1
<1>4. photos' = kept \/ \E r \in Id : photos' = [kept EXCEPT ![r] = {writes + 1}]
  BY DEF Write, PhotoWrites, There
<1> HIDE DEF kept
<1>5. photos' \in [Id -> SUBSET (1..MaxWrites)]
  <2>1. CASE photos' = kept
    BY <1>3, <2>1
  <2>2. ASSUME NEW r \in Id, photos' = [kept EXCEPT ![r] = {writes + 1}]
        PROVE  photos' \in [Id -> SUBSET (1..MaxWrites)]
    <3>1. {writes + 1} \in SUBSET (1..MaxWrites)
      BY <1>1, <1>2
    <3> QED
      BY <1>3, <2>2, <3>1
  <2> QED
    BY <1>4, <2>1, <2>2
<1>6. exposed' \subseteq 1..MaxWrites
  BY <1>1, <1>5
<1>7. \A r \in Public(reviews)' : photos'[r] \subseteq exposed'
  BY <1>1 DEF Public, There
<1> QED
  BY <1>2, <1>5, <1>6, <1>7 DEF PhotosOK

\* What a write adds to a pour's photos is the number of the write.
LEMMA KeysOf ==
  ASSUME PhotosOK, Write, NEW r \in Id, NEW k \in photos'[r]
  PROVE  k \in photos[r] \/ k = writes'
<1> DEFINE kept == [i \in Id |-> IF reviews'[i] = None THEN {} ELSE photos[i]]
<1>1. kept[r] \subseteq photos[r] /\ DOMAIN kept = Id
  OBVIOUS
<1>2. writes' = writes + 1
  BY DEF Write
<1>3. photos' = kept \/ \E i \in Id : photos' = [kept EXCEPT ![i] = {writes + 1}]
  BY DEF Write, PhotoWrites, There
<1> HIDE DEF kept
<1>4. CASE photos' = kept
  BY <1>1, <1>4
<1>5. ASSUME NEW i \in Id, photos' = [kept EXCEPT ![i] = {writes + 1}]
      PROVE  k \in photos[r] \/ k = writes'
  BY <1>1, <1>2, <1>5
<1> QED
  BY <1>3, <1>4, <1>5

\* A row that leaves the list, or any change when the newest do not come first, excuses what
\* the pages to come miss; the rows ahead of another are otherwise no fewer than they were.
LEMMA WatchedStep ==
  ASSUME Inv, RowsOK', NEW p \in Reader, req' = req, walk'[p] = Watched(p)
  PROVE  WalkOK(p)'
<1> DEFINE c == req[p].call
           before == Listed(c, beers, reviews)
           after == Listed(c, beers', reviews')
<1>1. WalkOK(p) /\ CallOK(p) /\ RowsOK
  BY DEF Inv
<1>2. /\ ~walk[p].on => walk'[p] = walk[p]
      /\ walk[p].on => walk'[p] = [walk[p] EXCEPT !.changed = TRUE, !.stayed = @ \cap after,
                                                  !.left = @ \cup (before \ after)]
  BY DEF Watched
<1>3. DOMAIN walk[p] = {"on", "changed", "seen", "stayed", "left"} /\ walk[p].on \in BOOLEAN
  BY <1>1 DEF WalkOK
<1>4. /\ DOMAIN walk'[p] = {"on", "changed", "seen", "stayed", "left"} /\ walk'[p].on \in BOOLEAN
      /\ walk'[p].on = walk[p].on
  BY <1>2, <1>3
<1>5. walk[p].on => /\ walk'[p].changed /\ walk'[p].seen = walk[p].seen
                    /\ walk'[p].stayed = walk[p].stayed \cap after
                    /\ walk'[p].left = walk[p].left \cup (before \ after)
  <2> HIDE DEF before, after
  <2>1. SUFFICES ASSUME walk[p].on
                 PROVE  /\ walk'[p].changed /\ walk'[p].seen = walk[p].seen
                        /\ walk'[p].stayed = walk[p].stayed \cap after
                        /\ walk'[p].left = walk[p].left \cup (before \ after)
    OBVIOUS
  <2>2. walk'[p] = [walk[p] EXCEPT !.changed = TRUE, !.stayed = @ \cap after,
                                   !.left = @ \cup (before \ after)]
    BY <1>2, <2>1
  <2> QED
    BY <1>3, <2>2
<1>6. c' = c /\ Listed(c, beers, reviews)' = after
  BY DEF Listed
<1> HIDE DEF c, before, after
<1>7. SUFFICES ASSUME walk[p].on
               PROVE  /\ walk'[p].stayed \subseteq after
                      /\ \A r \in Missed(p)' :
                           \/ Excused(p, r)'
                           \/ /\ At(p, "scan") => Full(p)
                              /\ Cardinality(Ahead(c, r)') >= Pages(p) * PerPage(c)
  <2>1. /\ Here(p)' <=> Here(p)
        /\ \A label : At(p, label)' <=> At(p, label)
        /\ Full(p)' <=> Full(p)
        /\ Pages(p)' = Pages(p)
    BY DEF Here, At, Full, Pages
  <2>2. /\ req'[p].call = c /\ req[p].call = c
        /\ Listed(req[p].call, beers, reviews)' = after
        /\ \A r : Ahead(req[p].call, r)' = Ahead(c, r)'
    BY <1>6 DEF c
  <2> QED
    BY <1>1, <1>4, <2>1, <2>2 DEF WalkOK
<1>8. c \in Call /\ req[p].call = c /\ req'[p].call = c
  BY <1>1, <1>7 DEF WalkOK, CallOK, c
<1>9. before \subseteq Id /\ after \subseteq Id /\ IsFiniteSet(after)
  <2>1. before \subseteq Id
    BY <1>1, <1>8, ListedIs DEF before
  <2>2. after \subseteq Id
    <3>1. c.op \in {"Latest", "ByBeer", "ByUser", "Journal", "Review", "Beers", "Beer", "Duplicates"}
      BY <1>8, CallIs DEF PourOps, PublicOps
    <3> QED
      BY <3>1 DEF after, Listed, Public, There
  <2> QED
    BY <2>1, <2>2, Constants, FS_Subset
<1>10. ASSUME NEW r \in Missed(p)', ~Excused(p, r)'
       PROVE  /\ At(p, "scan") => Full(p)
              /\ Cardinality(Ahead(c, r)') >= Pages(p) * PerPage(c)
  <2>1. r \in Missed(p) /\ r \in after /\ r \in Id
    BY <1>5, <1>7, <1>9, <1>10 DEF Missed, At, Shown
  <2>2. c.sort = "created_at" /\ ~(\E s \in walk[p].left \cup (before \ after) : s > r)
    BY <1>5, <1>7, <1>8, <1>10 DEF Excused
  <2>3. ~Excused(p, r)
    BY <1>8, <2>2 DEF Excused
  <2>4. (At(p, "scan") => Full(p)) /\ Cardinality(Ahead(c, r)) >= Pages(p) * PerPage(c)
    BY <1>1, <1>7, <1>8, <2>1, <2>3 DEF WalkOK
  <2>5. Ahead(c, r) \subseteq Ahead(c, r)'
    <3>1. SUFFICES ASSUME NEW s \in Ahead(c, r) PROVE s \in Ahead(c, r)'
      OBVIOUS
    <3>2. s \in before /\ Rank(c, s) < Rank(c, r)
      BY <3>1 DEF Ahead, before
    <3>3. \A i : Rank(c, i) = -i /\ Rank(c, i)' = -i
      BY <1>6, <2>2 DEF Rank
    <3>4. s \in Nat /\ r \in Nat
      BY <1>9, <2>1, <3>2, Constants
    <3>5. s > r
      BY <3>2, <3>3, <3>4
    <3>6. s \in after
      BY <2>2, <3>2, <3>5
    <3>7. Rank(c, s)' < Rank(c, r)'
      BY <3>3, <3>4, <3>5
    <3> QED
      BY <1>6, <3>6, <3>7 DEF Ahead
  <2>6. IsFiniteSet(Ahead(c, r)')
    <3>1. Ahead(c, r)' \subseteq after
      BY <1>6 DEF Ahead
    <3> QED
      BY <1>9, <3>1, FS_Subset
  <2>7. Cardinality(Ahead(c, r)) <= Cardinality(Ahead(c, r)') /\ IsFiniteSet(Ahead(c, r))
    BY <2>5, <2>6, FS_Subset
  <2>8. Cardinality(Ahead(c, r)) \in Nat /\ Cardinality(Ahead(c, r)') \in Nat
    BY <2>6, <2>7, FS_CardinalityType
  <2>9. Pages(p) * PerPage(c) \in Int
    <3>1. Pages(p) \in Int /\ PerPage(c) \in Int
      BY <1>1, <1>7, <1>8, PerPageIs, Constants DEF WalkOK, CallOK, Pages
    <3> QED
      BY <3>1
  <2> QED
    BY <2>4, <2>7, <2>8, <2>9
<1> QED
  BY <1>5, <1>7, <1>10

LEMMA WriteStep ==
  ASSUME Inv, Write
  PROVE  Inv'
<1>1. /\ RowsOK /\ PhotosOK /\ PoolOK /\ DOMAIN req = Reader /\ DOMAIN walk = Reader
      /\ Next /\ req' = req /\ taken' = taken /\ writes \in Nat /\ writes' = writes + 1
      /\ walk' = [p \in Reader |-> Watched(p)]
  BY DEF Inv, Write, PhotosOK
<1>2. RowsOK'
  BY <1>1, RowsStep
<1>3. PhotosOK'
  BY <1>1, <1>2, PhotosStep
<1>4. PoolOK'
  BY <1>1 DEF PoolOK, Busy, At
<1>5. ASSUME NEW p \in Reader PROVE Good(p)'
  <2>1. CallOK(p) /\ Good(p)
    BY InvIs DEF Good
  <2>2. req'[p] = req[p] /\ walk'[p] = Watched(p)
    BY <1>1
  <2>3. CallOK(p)'
    <3>1. \A n \in 0..writes : n \in 0..writes' /\ n # writes'
      BY <1>1
    <3> QED
      BY <2>1, <2>2, <3>1 DEF CallOK, Here, At, IsAnswered
  <2>4. Here(p) => /\ req[p].countedAt # writes' /\ req[p].listedAt < writes'
                   /\ req[p].list \in Seq(Id) /\ req[p].call \in Call
    BY <1>1, <2>1 DEF CallOK
  <2>5. CountOK(p)'
    BY <2>2, <2>4 DEF CountOK, At, Here
  <2>6. ShownOK(p)'
    <3>1. SUFFICES ASSUME At(p, "scan") \/ At(p, "photos"), req[p].call.op \in PublicOps,
                          NEW r \in Shown(p), NEW k \in photos'[r] \ exposed'
                   PROVE  k > req[p].listedAt
      BY <2>2 DEF ShownOK, At, Shown
    <3>2. r \in Id
      BY <2>4, <3>1 DEF Shown, Here, At
    <3>3. k \notin exposed
      BY <3>1 DEF Write
    <3>4. k \in photos[r] \/ k = writes'
      BY <1>1, <3>1, <3>2, KeysOf
    <3> QED
      BY <2>1, <2>4, <3>1, <3>3, <3>4 DEF Good, ShownOK, Here, At
  <2>7. Fits(p)'
    BY <2>1, <2>2 DEF Good, Fits, Paged, Overflows, At
  <2>8. WalkOK(p)'
    BY <1>1, <1>2, <2>2, WatchedStep
  <2> QED
    BY <2>3, <2>5, <2>6, <2>7, <2>8 DEF Good
<1>6. DOMAIN req' = Reader /\ DOMAIN walk' = Reader
  BY <1>1
<1> QED
  BY <1>2, <1>3, <1>4, <1>5, <1>6 DEF Inv, Good, PagesFitTotals, Fits

\* Steps that only the pool notices, and stuttering.
LEMMA QuietStep ==
  ASSUME Inv, UNCHANGED <<tables, req, walk>>, Take \/ LetGo \/ taken' = taken
  PROVE  Inv'
<1>1. RowsOK /\ PhotosOK /\ PoolOK /\ \A q \in Reader : Good(q)
  BY InvIs
<1>2. RowsOK' /\ PhotosOK'
  BY <1>1, StillTables
<1>3. PoolOK'
  <2>1. Busy' = Busy /\ Cardinality(Busy) \in Nat /\ Conns \in Nat
    BY <1>1, FS_CardinalityType, Constants DEF Busy, At, PoolOK
  <2> QED
    BY <1>1, <2>1 DEF PoolOK, Take, LetGo, ConnFree
<1>4. \A q \in Reader : Good(q)'
  BY <1>1, Still
<1>5. DOMAIN req' = Reader /\ DOMAIN walk' = Reader
  BY DEF Inv
<1> QED
  BY <1>2, <1>3, <1>4, <1>5 DEF Inv, Good, PagesFitTotals, Fits

LEMMA InitInv ==
  ASSUME ReadsInit
  PROVE  Inv
<1>1. RowsOK
  <2>1. PICK seed \in Seeds : beers = seed.beers /\ reviews = seed.reviews
    BY DEF ReadsInit, Init
  <2> QED
    BY <2>1, ReadsAssumption DEF ReadsAssumption, RowsOK, There
<1>2. PhotosOK
  BY Constants DEF ReadsInit, PhotosOK, Public, There
<1>3. PoolOK
  <2>1. Busy = {}
    BY DEF ReadsInit, Busy, At, Idle
  <2> QED
    BY <2>1, FS_EmptySet, Constants DEF PoolOK, ReadsInit
<1>4. ASSUME NEW p \in Reader PROVE Good(p)
  <2>1. req[p] = Idle /\ walk[p] = NoWalk
    BY DEF ReadsInit
  <2>2. CallOK(p)
    BY <2>1 DEF CallOK, Idle, Fields, Here, At
  <2>3. CountOK(p) /\ ShownOK(p) /\ Fits(p)
    BY <2>1 DEF CountOK, ShownOK, Fits, Paged, At, Idle
  <2>4. WalkOK(p)
    BY <2>1 DEF WalkOK, NoWalk
  <2> QED
    BY <2>2, <2>3, <2>4 DEF Good
<1>5. DOMAIN req = Reader /\ DOMAIN walk = Reader
  BY DEF ReadsInit
<1> QED
  BY <1>1, <1>2, <1>3, <1>4, <1>5, InvIs

LEMMA Step ==
  ASSUME Inv, [ReadsNext]_vars
  PROVE  Inv'
<1>1. CASE Write
  BY <1>1, WriteStep
<1>2. CASE Take \/ LetGo
  <2>1. UNCHANGED <<tables, req, walk>>
    BY <1>2 DEF Take, LetGo
  <2> QED
    BY <1>2, <2>1, QuietStep
<1>3. ASSUME NEW p \in Reader, Receive(p) \/ Handle(p) \/ Fail(p) \/ Turn(p)
      PROVE  Inv'
  BY <1>3, ReceiveStep, CountStep, QueryPageStep, ScanRowsStep, LoadPhotosStep, FailStep, TurnStep
     DEF Handle
<1>4. CASE UNCHANGED vars
  BY <1>4, QuietStep DEF vars
<1> QED
  BY <1>1, <1>2, <1>3, <1>4 DEF ReadsNext

-----------------------------------------------------------------------------
(* Theorems *)

\* What the read handlers rely on, however requests, writers and the pool take turns.
THEOREM Invariant == ReadsSpec => []Inv
<1>1. ReadsInit => Inv
  BY InitInv
<1>2. Inv /\ [ReadsNext]_vars => Inv'
  BY Step
<1> QED
  BY <1>1, <1>2, PTL DEF ReadsSpec

\* The tables, the pool and the requests are what TypeOK says: above all, no page is longer
\* than was asked for, and no connections are used that are not there (respond.go:22-32).
THEOREM TypeCorrect == ReadsSpec => []TypeOK
<1>1. Inv => TypeOK
  <2>1. SUFFICES ASSUME Inv PROVE TypeOK
    OBVIOUS
  <2>2. beers \in [Id -> Beer \cup {None}] /\ photos \in [Id -> SUBSET (1..MaxWrites)]
    BY <2>1 DEF Inv, RowsOK, PhotosOK
  <2>3. \A r \in There(reviews) : reviews[r].user \in User /\ beers[reviews[r].beer] # None
    BY <2>1 DEF Inv, RowsOK, There, PourRow
  <2>4. exposed \subseteq 1..MaxWrites /\ writes \in 0..MaxWrites
    BY <2>1 DEF Inv, PhotosOK
  <2>5. Cardinality(Busy) + taken \in 0..Conns
    <3>1. PoolOK /\ Cardinality(Busy) \in Nat /\ Conns \in Nat
      BY <2>1, FS_CardinalityType, Constants DEF Inv, PoolOK
    <3> QED
      BY <3>1 DEF PoolOK
  <2>6. ASSUME NEW p \in Reader
        PROVE  /\ req[p].pc \in {"idle", "count", "page", "scan", "photos", "full", "done"}
               /\ At(p, "idle") \/ req[p].page \in 1..MaxInt
               /\ Shown(p) \subseteq Id
               /\ Full(p) \/ At(p, "idle") \/ req[p].call.op \notin PagedOps
                    \/ Len(req[p].list) < PerPage(req[p].call)
    <3>1. CallOK(p)
      BY <2>1 DEF Inv
    <3>2. Shown(p) \subseteq Id
      BY <3>1 DEF CallOK, Shown
    <3>3. CASE Here(p) /\ req[p].call.op \in PagedOps
      <4>1. Len(req[p].list) \in Nat /\ PerPage(req[p].call) \in Nat
            /\ Len(req[p].list) <= PerPage(req[p].call)
        BY <3>1, <3>3, PerPageIs, Constants DEF CallOK
      <4> QED
        BY <3>1, <3>2, <3>3, <4>1 DEF CallOK, Full
    <3> QED
      BY <3>1, <3>2, <3>3 DEF CallOK, Here
  <2> QED
    BY <2>2, <2>3, <2>4, <2>5, <2>6 DEF TypeOK
<1> QED
  BY <1>1, Invariant, PTL

\* A page holds what the total leaves for it, unless a commit came between the two or the
\* offset is beyond an int (feed.go:28-44, review.go:35-49, beer.go:30-46).
THEOREM PagesFit == ReadsSpec => []PagesFitTotals
<1>1. Inv => PagesFitTotals
  BY DEF Inv
<1> QED
  BY <1>1, Invariant, PTL

\* A walk from the first page to the last misses a row that was there all the time only
\* because a newer one left or, in the other orders, for a tie or a change (feed.go:43,
\* review.go:48, beer.go:45).
THEOREM WalksMiss == ReadsSpec => []WalksMissOnlyShifted
<1>1. Inv => WalksMissOnlyShifted
  <2>1. SUFFICES ASSUME Inv, NEW p \in Reader, Paged(p), walk[p].on, ~Full(p),
                        NEW r \in walk[p].stayed \ (walk[p].seen \cup Shown(p))
                 PROVE  Excused(p, r)
    BY DEF WalksMissOnlyShifted, Excused
  <2>2. WalkOK(p) /\ At(p, "scan")
    BY <2>1 DEF Inv, Paged
  <2>3. r \in Missed(p)
    BY <2>2 DEF Missed
  <2> QED
    BY <2>1, <2>2, <2>3 DEF WalkOK
<1> QED
  BY <1>1, Invariant, PTL

\* A photo that was never on a published pour is shown to the public only if its pour got it
\* after the page was read and is private when the photos are (beer_helpers.go:20-21,
\* photos_shared.go:32-40).
THEOREM PrivateRaces == ReadsSpec => PrivatePhotosNeedARace
<1> DEFINE Race(p) ==
      At(p, "photos") /\ req'[p].status = 200 /\ req[p].call.op \in PublicOps =>
        \A k \in req'[p].photos \ exposed :
          /\ k > req[p].listedAt
          /\ \E r \in Shown(p) : k \in photos[r] /\ r \notin Public(reviews)
<1>1. ASSUME Inv, [ReadsNext]_vars, NEW p \in Reader PROVE Race(p)
  <2>1. SUFFICES ASSUME At(p, "photos"), req'[p].status = 200, req[p].call.op \in PublicOps,
                        NEW k \in req'[p].photos \ exposed
                 PROVE  /\ k > req[p].listedAt
                        /\ \E r \in Shown(p) : k \in photos[r] /\ r \notin Public(reviews)
    OBVIOUS
  <2>2. /\ PhotosOK /\ CallOK(p) /\ ShownOK(p) /\ DOMAIN req = Reader
        /\ Here(p) /\ ~IsAnswered(p) /\ req[p].photos = {}
    BY <1>1, <2>1 DEF Inv, CallOK, Here, At, IsAnswered
  <2>3. req'[p] # req[p]
    BY <2>1, <2>2
  <2>4. LoadPhotos(p)
    <3>1. ~UNCHANGED vars /\ ~Write /\ ~Take /\ ~LetGo
      BY <2>3 DEF vars, Write, Take, LetGo
    <3>2. PICK q \in Reader : Receive(q) \/ Handle(q) \/ Fail(q) \/ Turn(q)
      BY <1>1, <3>1 DEF ReadsNext
    <3>3. q = p
      <4>1. SUFFICES ASSUME q # p PROVE req'[p] = req[p]
        BY <2>3
      <4>2. CASE Receive(q)
        BY <2>2, <4>1, <4>2 DEF Receive
      <4>3. CASE Count(q)
        BY <2>2, <4>1, <4>3 DEF Count
      <4>4. CASE QueryPage(q)
        <5>1. CASE req' = Answer(q, 500)
          BY <2>2, <4>1, <5>1, AnswerIs
        <5>2. CASE \E list : req' = [req EXCEPT ![q].pc = "scan", ![q].list = list, ![q].listedAt = writes]
          BY <2>2, <4>1, <5>2
        <5> QED
          BY <4>4, <5>1, <5>2, Zenon DEF QueryPage
      <4>5. CASE ScanRows(q)
        BY <2>2, <4>1, <4>5 DEF ScanRows, Answer
      <4>6. CASE LoadPhotos(q)
        BY <2>2, <4>1, <4>6 DEF LoadPhotos, Answer
      <4>7. CASE Fail(q)
        BY <2>2, <4>1, <4>7 DEF Fail, Answer
      <4>8. CASE Turn(q)
        BY <2>2, <4>1, <4>8 DEF Turn
      <4> QED
        BY <3>2, <4>2, <4>3, <4>4, <4>5, <4>6, <4>7, <4>8 DEF Handle
    <3>4. ~Fail(p)
      <4>1. ASSUME Fail(p) PROVE FALSE
        <5>1. req' = Answer(p, 500)
          BY <2>1, <4>1 DEF Fail
        <5>2. req'[p].status = 500
          BY <2>2, <5>1, AnswerIs
        <5> QED
          BY <2>1, <5>2
      <4> QED
        BY <4>1
    <3> QED
      BY <2>1, <3>2, <3>3, <3>4 DEF Receive, Handle, Count, QueryPage, ScanRows, Turn, At
  <2>5. req'[p].photos = UNION {photos[r] : r \in Shown(p)}
    BY <2>2, <2>4 DEF LoadPhotos, Answer, Idle
  <2>6. PICK r \in Shown(p) : k \in photos[r]
    BY <2>1, <2>5
  <2>7. k > req[p].listedAt
    BY <2>1, <2>2, <2>6 DEF ShownOK
  <2>8. r \notin Public(reviews)
    BY <2>1, <2>2, <2>6 DEF PhotosOK
  <2> QED
    BY <2>6, <2>7, <2>8
<1>2. Inv /\ [ReadsNext]_vars => [\A p \in Reader : Race(p)]_vars
  BY <1>1
<1> QED
  BY <1>2, Invariant, PTL DEF ReadsSpec, PrivatePhotosNeedARace
====
