---------------------------- MODULE PhotosProofs ----------------------------
(***************************************************************************)
(* The invariant of Photos: what each request has locked, read and written  *)
(* at each of its statements, and what its locks and the order of its        *)
(* statements keep the others from doing to the same pour in the meantime.   *)
(***************************************************************************)
EXTENDS Photos, FiniteSetTheorems, TLAPS

Lock == {None, "share", "update", "delete"}
Locals ==
  [pc: Label, call: Call \cup {None}, status: Nat, review: Review \cup {0}, key: Key \cup {0},
   lock: Lock, targets: SUBSET PhotoRow, gone: SUBSET PhotoRow, fresh: SUBSET PhotoRow,
   removed: SUBSET Key]

Here(p) == ~At(p, "idle")
Stage(op) ==
  CASE op = "Upload" -> {"put"}
    [] op = "Create" -> {"insert", "commit", "reload"}
    [] op = "Update" -> {"own", "columns", "oldKeys", "clear", "clearing", "attach", "commit",
                         "s3", "reload"}
    [] op = "Delete" -> {"oldKeys", "remove", "cascade", "s3"}

\* The pour of a Create is not committed; an Update has found its pour; it has written columns.
Unborn(p) == At(p, "insert") \/ (At(p, "commit") /\ Op(p) = "Create")
Editing(p) ==
  /\ req[p].pc \in {"columns", "oldKeys", "clear", "clearing", "attach", "commit"}
  /\ Op(p) = "Update"
Holding(p) == Editing(p) /\ ~At(p, "columns")
\* Nothing of p's transaction is still to come.
Spent(p) == req[p].pc \in {"s3", "reload", "done"}

CallOK(p) ==
  /\ At(p, "idle") => Pour(p) = 0
  /\ Here(p) =>
       /\ req[p].call \in Calls
       /\ At(p, "done") \/ req[p].pc \in Stage(Op(p))
       /\ Op(p) # "Upload" => req[p].key = 0
       /\ At(p, "put") => req[p].key \in Key
       /\ Named(req[p].call) \subseteq Known
       /\ Pour(p) = 0 => \/ Op(p) = "Upload"
                         \/ At(p, "done") /\ req[p].status = 400
       /\ Pour(p) # 0 => Op(p) # "Upload" /\ Accepts(req[p].call)
       /\ Op(p) = "Create" => Pour(p) <= made.reviews

Listing(p) == IF req[p].call.keys = None THEN {} ELSE RowsOf(req[p].call.keys, p)

WritesOK(p) ==
  /\ req[p].pc \in {"oldKeys", "clear", "clearing", "attach"} /\ Op(p) = "Update" =>
       req[p].call.keys # None
  /\ req[p].targets # {} => At(p, "clearing")
  /\ req[p].gone # {} =>
       /\ At(p, "attach") \/ At(p, "commit")
       /\ Op(p) = "Update" /\ req[p].call.keys # None
  /\ req[p].fresh = IF At(p, "commit") THEN Listing(p) ELSE {}
  /\ req[p].removed # {} =>
       /\ req[p].pc \in {"clear", "clearing", "attach", "commit", "remove", "cascade", "s3"}
       /\ At(p, "commit") => Op(p) = "Update" /\ req[p].call.keys # None

LockOK(p) ==
  /\ req[p].lock = "delete" <=> At(p, "cascade") \/ (At(p, "commit") /\ Op(p) = "Create")
  /\ req[p].lock \in {"share", "update"} => Holding(p) /\ owner[Pour(p)] # None
  /\ At(p, "cascade") => owner[Pour(p)] = req[p].call.user
  /\ At(p, "commit") /\ req[p].fresh # {} => req[p].lock # None
  /\ Holding(p) /\ NamesColumns(req[p].call) =>
       req[p].lock = "update" \/ owner[Pour(p)] = None
  /\ Unborn(p) => owner[Pour(p)] = None
  /\ Editing(p) => Pour(p) <= made.reviews

PairOK(p, q) ==
  Pour(p) = Pour(q) =>
    /\ req[p].lock = "delete" => req[q].lock = None
    /\ req[p].lock = "update" => req[q].lock # "update"
    /\ Here(p) /\ Op(p) = "Create" /\ Pour(p) # 0 => ~(Here(q) /\ Op(q) = "Create")
    /\ Unborn(p) => ~Editing(q)

\* Where each row comes from.
RowOK(r, x) ==
  IF x.by = None THEN r \in DOMAIN KeysAtStart /\ x.key \in Listed(KeysAtStart[r])
  ELSE /\ x.by \in Request /\ Here(x.by) /\ Spent(x.by)
       /\ Pour(x.by) = r /\ x.key \in Named(req[x.by].call)

Tables ==
  \A r \in Review :
    /\ r > made.reviews => owner[r] = None
    /\ rows[r] # {} => owner[r] # None
    /\ \A x \in rows[r] : RowOK(r, x)

\* Only an Update that did not have to wait for p, or that p did not have to wait for, gets
\* its rows in after p has deleted the others.
Late(x, p) ==
  /\ x.by \in Request /\ Op(x.by) = "Update"
  /\ ~NamesColumns(req[x.by].call) \/ ~NamesColumns(req[p].call)

MixOK(p) ==
  /\ At(p, "clearing") => \A x \in rows[Pour(p)] \ req[p].targets : Late(x, p)
  /\ (At(p, "attach") \/ At(p, "commit")) /\ Op(p) = "Update" /\ req[p].call.keys # None =>
       \A x \in rows[Pour(p)] \ req[p].gone : Late(x, p)

\* The pour at which a key was put by one of its sources.
Home(a) == IF a \in Request THEN Pour(a) ELSE a
Lone(k) == \A a, b \in Sources(k) : a = b
AllSpent(k) == \A a \in Sources(k) : a \in Request => Spent(a)
NoRows(k) == \A r \in Review : k \notin KeysOf(rows[r])

\* q may delete the object of k: it was at its pour, and it does not put it there.
Deletes(q, k) ==
  Here(q) /\ k \notin Named(req[q].call) /\ \E a \in Sources(k) : Home(a) = Pour(q)

RemovedOK(p) ==
  \A k \in req[p].removed :
    /\ Deletes(p, k)
    /\ Lone(k) =>
         /\ AllSpent(k)
         /\ At(p, "clearing") => \A x \in rows[Pour(p)] : x.key = k => x \in req[p].targets
         /\ At(p, "attach") \/ At(p, "commit") =>
              \A x \in rows[Pour(p)] : x.key = k => x \in req[p].gone
         /\ At(p, "s3") => NoRows(k)

StoreOK ==
  \A k \in Key :
    /\ k \in Known => k \in store \/ \E q \in Request : Deletes(q, k)
    /\ Lone(k) /\ Sources(k) # {} /\ k \notin store => AllSpent(k) /\ NoRows(k)

\* With nobody else at its pour, p replaces what it read.
ShowOK(p) ==
  Op(p) = "Update" /\ req[p].call.keys # None
    /\ (\A q \in Request \ {p} : At(q, "idle") \/ Pour(q) # Pour(p)) =>
    /\ At(p, "clearing") => req[p].targets = rows[Pour(p)]
    /\ At(p, "attach") \/ At(p, "commit") => req[p].gone = rows[Pour(p)]
    /\ At(p, "s3") \/ At(p, "reload") \/ (At(p, "done") /\ req[p].status = 200) =>
         rows[Pour(p)] = RowsOf(req[p].call.keys, p)

Inv ==
  /\ TypeOK /\ Tables /\ StoreOK /\ ServingsAreWhole /\ ListsMixOnlyWithoutColumns
  /\ \A p \in Request :
       CallOK(p) /\ WritesOK(p) /\ LockOK(p) /\ MixOK(p) /\ RemovedOK(p) /\ (Here(p) => ShowOK(p))
  /\ \A p, q \in Request : p # q => PairOK(p, q)

-----------------------------------------------------------------------------
(* Data *)

LEMMA Constants ==
  /\ MaxReview \in Nat /\ MaxKey \in Nat /\ Calls \subseteq Call
  /\ None \notin User /\ None \notin Int /\ None \notin Request /\ None \notin Seq(Key)
  /\ None \notin {"share", "update", "delete"} /\ Request \cap Review = {}
  /\ DOMAIN OwnerAtStart \subseteq Review /\ DOMAIN KeysAtStart = DOMAIN OwnerAtStart
  /\ OwnerAtStart \in Seq(User) /\ KeysAtStart \in Seq(Seq(Key))
  BY PhotosAssumption DEF PhotosAssumption, Review

LEMMA CallIs ==
  ASSUME NEW c \in Calls
  PROVE  /\ c \in Call /\ c.op \in {"Upload", "Create", "Update", "Delete"}
         /\ c.op # "Upload" => c.user \in User /\ c.user # None
         /\ c.op \in {"Update", "Delete"} => c.review \in Review
         /\ c.op = "Create" => c.keys \in Seq(Key) /\ c.keys # None
         /\ c.op = "Update" => c.keys \in Seq(Key) \cup {None} /\ c.clear \in BOOLEAN
         /\ c.op \in {"Create", "Update"} => c.amount \in Amount
<1>1. c \in Call
  BY Constants
<1> QED
  BY <1>1, Constants DEF Call

LEMMA ListedIs ==
  ASSUME NEW keys \in Seq(Key)
  PROVE  Listed(keys) \subseteq Key
  BY DEF Listed

LEMMA NamedIs ==
  ASSUME NEW c \in Calls
  PROVE  /\ Named(c) \subseteq Key
         /\ c.op \in {"Create", "Update"} /\ c.keys # None => Named(c) = Listed(c.keys)
         /\ ~(c.op \in {"Create", "Update"} /\ c.keys # None) => Named(c) = {}
  BY CallIs, ListedIs DEF Named

LEMMA RowsAre ==
  ASSUME NEW keys \in Seq(Key), NEW p \in Request \cup {None}
  PROVE  /\ RowsOf(keys, p) \subseteq PhotoRow
         /\ \A x \in RowsOf(keys, p) : x.by = p /\ x.key \in Listed(keys)
  BY DEF RowsOf, PhotoRow, Listed

LEMMA KeysAre ==
  ASSUME NEW S \in SUBSET PhotoRow
  PROVE  KeysOf(S) \subseteq Key /\ \A k : k \in KeysOf(S) <=> \E x \in S : x.key = k
  BY DEF KeysOf, PhotoRow

LEMMA ServingIs ==
  ASSUME NEW c \in Calls, c.op \in {"Create", "Update"}
  PROVE  /\ Serving(c) \in Amount
         /\ Sets(c) /\ Accepts(c) /\ Serving(c) # NoAmount =>
              Serving(c).size \in Sizes /\ Serving(c).count \in Counts
<1>1. c.amount \in Amount /\ NoAmount \in Amount /\ None \notin Int
  BY CallIs, Constants DEF Amount, NoAmount
<1>2. c.amount.size \in Int \cup {None} /\ c.amount.count \in Int \cup {None}
  BY <1>1 DEF Amount
<1>3. normalizeServing(c.amount) \in Amount
  BY <1>1 DEF normalizeServing, Amount
<1>4. Serving(c) \in Amount
  BY <1>1, <1>3 DEF Serving
<1>5. ASSUME Sets(c), Accepts(c), Serving(c) # NoAmount
      PROVE  Serving(c).size \in Sizes /\ Serving(c).count \in Counts
  <2>1. 1 \in Counts
    BY DEF Counts
  <2>2. \A n \in Sizes : n \in Int
    BY DEF Sizes
  <2>3. ~(c.op = "Update" /\ c.clear) /\ Serving(c) = normalizeServing(c.amount)
    BY <1>5 DEF Serving
  <2>4. MakesSense(c.amount)
    BY <1>5, <2>3 DEF Accepts
  <2>5. CASE c.amount = NoAmount
    BY <1>5, <2>3, <2>5 DEF normalizeServing, NoAmount
  <2>6. CASE c.amount # NoAmount
    <3>1. c.amount.size \in Sizes /\ c.amount.count \in Counts \cup {None}
      BY <2>4, <2>6 DEF MakesSense
    <3>2. c.amount.size # None
      BY <1>1, <2>2, <3>1
    <3>3. normalizeServing(c.amount).size = c.amount.size
      BY <1>1 DEF normalizeServing, Amount
    <3>4. CASE c.amount.count = None
      <4>1. normalizeServing(c.amount).count = 1
        BY <1>1, <3>2, <3>4 DEF normalizeServing, Amount
      <4> QED
        BY <2>1, <2>3, <3>1, <3>3, <4>1
    <3>5. CASE c.amount.count # None
      <4>1. normalizeServing(c.amount) = c.amount
        BY <3>5 DEF normalizeServing
      <4> QED
        BY <2>3, <3>1, <3>5, <4>1
    <3> QED
      BY <3>4, <3>5
  <2> QED
    BY <2>5, <2>6
<1> QED
  BY <1>4, <1>5

LEMMA Typed ==
  ASSUME Inv
  PROVE  /\ owner \in [Review -> User \cup {None}] /\ rows \in [Review -> SUBSET PhotoRow]
         /\ serving \in [Review -> Amount] /\ store \subseteq Key
         /\ made \in [reviews: 0..MaxReview, keys: 0..MaxKey]
         /\ made.reviews \in 0..MaxReview /\ made.keys \in 0..MaxKey
         /\ req \in [Request -> Locals]
  BY DEF Inv, TypeOK, Locals, Lock

LEMMA Writes ==
  ASSUME NEW l \in Locals
  PROVE  /\ \A x \in Label : [l EXCEPT !.pc = x] \in Locals
         /\ \A x \in Nat : [l EXCEPT !.status = x] \in Locals
         /\ \A x \in Lock : [l EXCEPT !.lock = x] \in Locals
         /\ \A x \in SUBSET PhotoRow : [l EXCEPT !.targets = x] \in Locals
         /\ \A x \in SUBSET PhotoRow : [l EXCEPT !.gone = x] \in Locals
         /\ \A x \in SUBSET PhotoRow : [l EXCEPT !.fresh = x] \in Locals
         /\ \A x \in SUBSET Key : [l EXCEPT !.removed = x] \in Locals
  BY DEF Locals

-----------------------------------------------------------------------------
(* Init *)

LEMMA OldKeysNumbered ==
  OldKeys \subseteq Key /\ Cardinality(OldKeys) \in 0..MaxKey
<1>1. PICK n \in 0..MaxKey : OldKeys = 1..n
  BY PhotosAssumption DEF PhotosAssumption
<1>2. Cardinality(1..n) = n
  BY <1>1, Constants, FS_Interval
<1> QED
  BY <1>1, <1>2, Constants DEF Key

LEMMA InitInv == Init => Inv
<1> SUFFICES ASSUME Init PROVE Inv
  OBVIOUS
<1>1. \A p \in Request : req[p] = Idle
  BY DEF Init
<1>2. req \in [Request -> Locals]
  <2>1. Idle \in Locals
    BY DEF Idle, Locals, Label, Lock
  <2> QED
    BY <2>1 DEF Init
<1>3. \A r \in Review : /\ r \in DOMAIN KeysAtStart => rows[r] = RowsOf(KeysAtStart[r], None)
                        /\ r \notin DOMAIN KeysAtStart => rows[r] = {}
                        /\ r \in DOMAIN OwnerAtStart => owner[r] = OwnerAtStart[r]
                        /\ r \notin DOMAIN OwnerAtStart => owner[r] = None
  BY DEF Init
<1>4. \A r \in DOMAIN KeysAtStart : r \in Review /\ KeysAtStart[r] \in Seq(Key) /\ OwnerAtStart[r] \in User
  BY Constants
<1>5. Len(OwnerAtStart) \in 0..MaxReview /\ DOMAIN OwnerAtStart = 1..Len(OwnerAtStart)
  BY Constants, PhotosAssumption DEF PhotosAssumption
<1>6. TypeOK
  <2>1. owner \in [Review -> User \cup {None}]
    BY <1>3, <1>4, Constants DEF Init
  <2>2. rows \in [Review -> SUBSET PhotoRow]
    <3>1. \A r \in Review : rows[r] \in SUBSET PhotoRow
      BY <1>3, <1>4, RowsAre
    <3> QED
      BY <3>1 DEF Init
  <2>3. serving \in [Review -> Amount]
    BY DEF Init, NoAmount, Amount
  <2>4. store \subseteq Key /\ made \in [reviews: 0..MaxReview, keys: 0..MaxKey]
    BY <1>5, OldKeysNumbered DEF Init
  <2> QED
    BY <1>2, <2>1, <2>2, <2>3, <2>4 DEF TypeOK, Locals, Lock
<1>7. Tables
  <2>1. \A r \in Review : r > made.reviews => r \notin DOMAIN OwnerAtStart
    BY <1>5 DEF Init, Review
  <2>2. \A r \in Review : \A x \in rows[r] : RowOK(r, x)
    BY <1>3, <1>4, RowsAre DEF RowOK
  <2> QED
    BY <1>3, <1>4, <2>1, <2>2, Constants DEF Tables
<1>8. StoreOK
  <2>1. Known = OldKeys
    BY <1>1 DEF Known, At, Idle
  <2>2. store = OldKeys
    BY DEF Init
  <2>3. \A k \in Key : Sources(k) # {} => k \in OldKeys
    <3>1. SUFFICES ASSUME NEW k \in Key, NEW a \in Sources(k) PROVE k \in OldKeys
      OBVIOUS
    <3>2. a \in DOMAIN KeysAtStart /\ k \in Listed(KeysAtStart[a])
      BY <1>1, <3>1 DEF Sources, At, Idle
    <3> QED
      BY <3>2 DEF OldKeys
  <2> QED
    BY <2>1, <2>2, <2>3 DEF StoreOK
<1>9. ServingsAreWhole
  BY DEF Init, ServingsAreWhole
<1>10. ListsMixOnlyWithoutColumns
  <2>1. \A r \in Review : \A x \in rows[r] : x.by = None
    BY <1>3, <1>4, RowsAre
  <2> QED
    BY <2>1 DEF ListsMixOnlyWithoutColumns
<1>11. ASSUME NEW p \in Request
       PROVE  CallOK(p) /\ WritesOK(p) /\ LockOK(p) /\ MixOK(p) /\ RemovedOK(p) /\ (Here(p) => ShowOK(p))
  <2>1. /\ req[p].pc = "idle" /\ req[p].targets = {} /\ req[p].gone = {} /\ req[p].fresh = {}
        /\ req[p].removed = {} /\ req[p].lock = None /\ Pour(p) = 0
    BY <1>1 DEF Idle, Pour
  <2>2. None \notin {"share", "update", "delete"}
    BY Constants
  <2> QED
    BY <2>1, <2>2 DEF CallOK, WritesOK, LockOK, MixOK, RemovedOK, Here, Editing, Holding, Unborn, At
<1>12. \A p, q \in Request : p # q => PairOK(p, q)
  <2>1. \A p \in Request : req[p].pc = "idle" /\ req[p].lock = None
    BY <1>1 DEF Idle
  <2>2. None \notin {"share", "update", "delete"}
    BY Constants
  <2> QED
    BY <2>1, <2>2 DEF PairOK, Unborn, Editing, Here, At
<1> QED
  BY <1>6, <1>7, <1>8, <1>9, <1>10, <1>11, <1>12 DEF Inv

-----------------------------------------------------------------------------
(* A step of one request *)

\* p, which is at work, goes on to l.
Goes(p, l) ==
  /\ req' \in [Request -> Locals] /\ req'[p] = l
  /\ \A q \in Request \ {p} : req'[q] = req[q]
  /\ Here(p) /\ ~At(p, "done") /\ l.pc # "idle"
  /\ l.call = req[p].call /\ l.review = req[p].review /\ l.key = req[p].key
  /\ Spent(p) => l.pc \in {"s3", "reload", "done"}

\* What a request is, and which key it puts where, is settled when it arrives.
LEMMA Settled ==
  ASSUME Inv, NEW p \in Request, NEW l, Goes(p, l), NEW q \in Request
  PROVE  /\ Here(q)' <=> Here(q)
         /\ Op(q)' = Op(q) /\ Pour(q)' = Pour(q) /\ req'[q].call = req[q].call
         /\ req'[q].key = req[q].key
         /\ Spent(q) => Spent(q)'
<1>1. CASE q = p
  BY <1>1 DEF Goes, Here, At, Op, Pour, Spent
<1>2. CASE q # p
  BY <1>2 DEF Goes, Here, At, Op, Pour, Spent
<1> QED
  BY <1>1, <1>2

LEMMA SourcesSettled ==
  ASSUME Inv, NEW p \in Request, NEW l, Goes(p, l), NEW k
  PROVE  /\ Sources(k)' = Sources(k) /\ (Lone(k)' <=> Lone(k))
         /\ AllSpent(k) => AllSpent(k)'
         /\ k \in Known => k \in Known'
         /\ k \in Key /\ (l.pc = "done" /\ l.status = 200 => l.key \notin Key) /\ k \in Known' =>
              k \in Known
         /\ \A q \in Request : Deletes(q, k)' <=> Deletes(q, k)
<1>1. \A q \in Request : req'[q].pc # "idle" <=> req[q].pc # "idle"
  BY Settled DEF Here, At
<1>2. Sources(k)' = Sources(k)
  BY <1>1, Settled DEF Sources, At
<1>3. Lone(k)' <=> Lone(k)
  BY <1>2 DEF Lone
<1>4. AllSpent(k) => AllSpent(k)'
  BY <1>2, Settled DEF AllSpent
<1>5. \A q \in Request : q # p => req'[q] = req[q]
  BY DEF Goes
<1>6. req[p].pc # "done" /\ req'[p] = l
  BY DEF Goes, At
<1>7. k \in Known => k \in Known'
  BY <1>5, <1>6 DEF Known, At
<1>8. k \in Key /\ (l.pc = "done" /\ l.status = 200 => l.key \notin Key) /\ k \in Known' =>
        k \in Known
  <2>1. SUFFICES ASSUME k \in Key, l.pc = "done" /\ l.status = 200 => l.key \notin Key, k \in Known'
                 PROVE  k \in Known
    OBVIOUS
  <2>2. CASE k \in OldKeys
    BY <2>2 DEF Known
  <2>3. CASE \E q \in Request : req'[q].pc = "done" /\ req'[q].status = 200 /\ k = req'[q].key
    <3>1. PICK q \in Request : req'[q].pc = "done" /\ req'[q].status = 200 /\ k = req'[q].key
      BY <2>3
    <3>2. q # p
      BY <1>6, <2>1, <3>1
    <3> QED
      BY <1>5, <3>1, <3>2 DEF Known, At
  <2> QED
    BY <2>1, <2>2, <2>3 DEF Known, At
<1>9. \A a : Home(a)' = Home(a)
  BY Settled DEF Home
<1>10. \A q \in Request : Deletes(q, k)' <=> Deletes(q, k)
  BY <1>2, <1>9, Settled DEF Deletes
<1> QED
  BY <1>2, <1>3, <1>4, <1>7, <1>8, <1>10

LEMMA RowsSettled ==
  ASSUME Inv, NEW p \in Request, NEW l, Goes(p, l), NEW x
  PROVE  /\ \A r : RowOK(r, x) => RowOK(r, x)'
         /\ \A q \in Request : Late(x, q) => Late(x, q)'
<1>1. \A r : RowOK(r, x) => RowOK(r, x)'
  BY Settled DEF RowOK
<1>2. \A q \in Request : Late(x, q) => Late(x, q)'
  BY Settled DEF Late
<1> QED
  BY <1>1, <1>2

\* The others keep what they have, as long as the tables stay as they are.
LEMMA OthersKeep ==
  ASSUME Inv, NEW p \in Request, NEW l, Goes(p, l), NEW q \in Request \ {p},
         UNCHANGED <<owner, rows, made>>
  PROVE  /\ CallOK(q)' /\ WritesOK(q)' /\ LockOK(q)' /\ MixOK(q)' /\ RemovedOK(q)'
         /\ Here(q)' => ShowOK(q)'
<1>1. /\ req'[q] = req[q] /\ owner' = owner /\ rows' = rows /\ made' = made
      /\ CallOK(q) /\ WritesOK(q) /\ LockOK(q) /\ MixOK(q) /\ RemovedOK(q) /\ (Here(q) => ShowOK(q))
  BY DEF Goes, Inv
<1>2. CallOK(q)'
  BY <1>1, SourcesSettled DEF CallOK, Here, At, Op, Pour
<1>3. WritesOK(q)' /\ LockOK(q)'
  BY <1>1 DEF WritesOK, LockOK, Listing, Holding, Editing, Unborn, At, Op, Pour
<1>4. MixOK(q)'
  BY <1>1, RowsSettled DEF MixOK, At, Op, Pour
<1>5. RemovedOK(q)'
  BY <1>1, SourcesSettled DEF RemovedOK, NoRows, At, Pour
<1>6. Here(q)' => ShowOK(q)'
  BY <1>1, Settled DEF ShowOK, Here, At, Op, Pour
<1> QED
  BY <1>2, <1>3, <1>4, <1>5, <1>6

\* A step that leaves the tables alone; it may put an object into the store or take one out.
LEMMA TablesStay ==
  ASSUME Inv, NEW p \in Request, NEW l, Goes(p, l), UNCHANGED <<owner, rows, serving, made>>,
         store' \subseteq Key, StoreOK',
         CallOK(p)', WritesOK(p)', LockOK(p)', MixOK(p)', RemovedOK(p)', ShowOK(p)',
         \A q \in Request \ {p} : PairOK(p, q)' /\ PairOK(q, p)'
  PROVE  Inv'
<1>1. owner' = owner /\ rows' = rows /\ serving' = serving /\ made' = made
  OBVIOUS
<1>2. TypeOK'
  BY <1>1, Typed DEF TypeOK, Goes, Locals, Lock
<1>3. Tables'
  BY <1>1, RowsSettled DEF Inv, Tables
<1>5. ServingsAreWhole'
  BY <1>1, Settled DEF Inv, ServingsAreWhole
<1>6. ListsMixOnlyWithoutColumns'
  <2>1. \A r \in Review : \A x \in rows[r] : RowOK(r, x)
    BY DEF Inv, Tables
  <2> QED
    BY <1>1, <2>1, Settled DEF Inv, ListsMixOnlyWithoutColumns, RowOK
<1>7. \A q \in Request :
        CallOK(q)' /\ WritesOK(q)' /\ LockOK(q)' /\ MixOK(q)' /\ RemovedOK(q)' /\ (Here(q)' => ShowOK(q)')
  BY OthersKeep
<1>8. \A i, j \in Request : i # j => PairOK(i, j)'
  <2>1. SUFFICES ASSUME NEW i \in Request, NEW j \in Request, i # j PROVE PairOK(i, j)'
    OBVIOUS
  <2>2. CASE i = p \/ j = p
    BY <2>1, <2>2
  <2>3. CASE i # p /\ j # p
    <3>1. req'[i] = req[i] /\ req'[j] = req[j] /\ PairOK(i, j)
      BY <2>1, <2>3 DEF Goes, Inv
    <3> QED
      BY <3>1 DEF PairOK, Unborn, Editing, Here, At, Op, Pour
  <2> QED
    BY <2>2, <2>3
<1> QED
  BY <1>2, <1>3, <1>5, <1>6, <1>7, <1>8 DEF Inv

\* A step that writes nothing but what p keeps to itself.
LEMMA QuietInv ==
  ASSUME Inv, NEW p \in Request, NEW l, Goes(p, l), UNCHANGED <<owner, rows, serving, store, made>>,
         l.pc = "done" /\ l.status = 200 => l.key \notin Key,
         CallOK(p)', WritesOK(p)', LockOK(p)', MixOK(p)', RemovedOK(p)', ShowOK(p)',
         \A q \in Request \ {p} : PairOK(p, q)' /\ PairOK(q, p)'
  PROVE  Inv'
<1>1. StoreOK'
  BY SourcesSettled DEF Inv, StoreOK, NoRows
<1> QED
  BY <1>1, Typed, TablesStay

\* Who takes no new lock gets in nobody's way.
LEMMA PairsKeep ==
  ASSUME Inv, NEW p \in Request, NEW l, Goes(p, l), NEW q \in Request \ {p},
         l.lock \in {None, req[p].lock}, Unborn(p)' => Unborn(p), Editing(p)' => Editing(p)
  PROVE  PairOK(p, q)' /\ PairOK(q, p)'
<1>1. PairOK(p, q) /\ PairOK(q, p) /\ req'[q] = req[q] /\ req'[p] = l
  BY DEF Inv, Goes
<1>2. /\ Pour(p)' = Pour(p) /\ Pour(q)' = Pour(q) /\ (Here(p)' <=> Here(p)) /\ (Here(q)' <=> Here(q))
      /\ Op(p)' = Op(p) /\ Op(q)' = Op(q)
  BY Settled
<1>3. (Unborn(q)' <=> Unborn(q)) /\ (Editing(q)' <=> Editing(q))
  BY <1>1 DEF Unborn, Editing, At, Op
<1>4. None \notin {"share", "update", "delete"}
  BY Constants
<1>5. /\ l.lock = "delete" => req[p].lock = "delete"
      /\ l.lock = "update" => req[p].lock = "update"
      /\ req[p].lock = None => l.lock = None
      /\ req[p].lock # "update" => l.lock # "update"
  BY <1>4
<1> QED
  BY <1>1, <1>2, <1>3, <1>5 DEF PairOK

\* What p leaves behind when it ends without its locks, its writes and its list of keys.
LEMMA EndKeeps ==
  ASSUME Inv, NEW p \in Request, NEW l, Goes(p, l), made' = made, rows' = rows \/ l.status # 200,
         l.pc = "done", l.lock = None, l.targets = {}, l.gone = {}, l.fresh = {}, l.removed = {},
         Pour(p) = 0 => Op(p) = "Upload",
         Op(p) = "Update" /\ l.status = 200 => At(p, "reload")
  PROVE  /\ CallOK(p)' /\ WritesOK(p)' /\ LockOK(p)' /\ MixOK(p)' /\ RemovedOK(p)' /\ ShowOK(p)'
         /\ \A q \in Request \ {p} : PairOK(p, q)' /\ PairOK(q, p)'
<1>1. /\ req'[p] = l /\ l.call = req[p].call /\ l.review = req[p].review /\ l.key = req[p].key
      /\ Here(p)
  BY DEF Goes
<1>2. CallOK(p)'
  <2>1. CallOK(p)
    BY DEF Inv
  <2>2. Named(req[p].call) \subseteq Known'
    BY <1>1, <2>1, SourcesSettled DEF CallOK
  <2> QED
    BY <1>1, <2>1, <2>2 DEF CallOK, Here, At, Op, Pour
<1>3. WritesOK(p)'
  BY <1>1 DEF WritesOK, At
<1>4. LockOK(p)'
  BY <1>1, Constants DEF LockOK, Holding, Editing, Unborn, At
<1>5. MixOK(p)' /\ RemovedOK(p)'
  BY <1>1 DEF MixOK, RemovedOK, At
<1>6. ShowOK(p)'
  <2>1. ShowOK(p)
    BY <1>1 DEF Inv
  <2>2. \A q \in Request : (At(q, "idle") \/ Pour(q) # Pour(p))' => (At(q, "idle") \/ Pour(q) # Pour(p))
    BY Settled DEF Here
  <2>3. Pour(p)' = Pour(p) /\ Op(p)' = Op(p)
    BY Settled
  <2>4. ~At(p, "clearing")' /\ ~At(p, "attach")' /\ ~At(p, "commit")' /\ ~At(p, "s3")' /\ ~At(p, "reload")'
    BY <1>1 DEF At
  <2> QED
    BY <1>1, <2>1, <2>2, <2>3, <2>4 DEF ShowOK
<1>7. \A q \in Request \ {p} : PairOK(p, q)' /\ PairOK(q, p)'
  <2>1. ~Unborn(p)' /\ ~Editing(p)'
    BY <1>1 DEF Unborn, Editing, At
  <2> QED
    BY <2>1, PairsKeep
<1> QED
  BY <1>2, <1>3, <1>4, <1>5, <1>6, <1>7

\* A request that ends without another change leaves everything as it should be.
LEMMA EndInv ==
  ASSUME Inv, NEW p \in Request, NEW l, Goes(p, l), UNCHANGED <<owner, rows, serving, store, made>>,
         l.pc = "done", l.lock = None, l.targets = {}, l.gone = {}, l.fresh = {}, l.removed = {},
         l.status = 200 => l.key \notin Key,
         Pour(p) = 0 => Op(p) = "Upload",
         Op(p) = "Update" /\ l.status = 200 => At(p, "reload")
  PROVE  Inv'
  BY EndKeeps, QuietInv

LEMMA AtWork ==
  ASSUME Inv, NEW p \in Request, Here(p), ~At(p, "done")
  PROVE  /\ req[p] \in Locals /\ req[p].call \in Calls /\ req[p].pc \in Stage(Op(p))
         /\ Op(p) \in {"Upload", "Create", "Update", "Delete"}
         /\ Pour(p) = 0 => Op(p) = "Upload"
         /\ Op(p) # "Upload" => Pour(p) \in Review /\ req[p].key = 0
         /\ At(p, "put") => req[p].key \in Key
         /\ CallOK(p) /\ WritesOK(p) /\ LockOK(p) /\ MixOK(p) /\ RemovedOK(p) /\ ShowOK(p)
<1>1. /\ CallOK(p) /\ WritesOK(p) /\ LockOK(p) /\ MixOK(p) /\ RemovedOK(p) /\ ShowOK(p)
      /\ req[p] \in Locals
  BY Typed DEF Inv
<1>2. req[p].call \in Calls /\ req[p].pc \in Stage(Op(p)) /\ (Pour(p) = 0 => Op(p) = "Upload")
  BY <1>1 DEF CallOK
<1>3. Op(p) \in {"Upload", "Create", "Update", "Delete"}
  BY <1>2, CallIs DEF Op
<1>4. Pour(p) \in Review \cup {0}
  BY <1>1 DEF Locals, Pour
<1> QED
  BY <1>1, <1>2, <1>3, <1>4 DEF CallOK

LEMMA DoneIs ==
  ASSUME NEW l \in Locals, NEW code \in Nat, NEW d, d = Done(l, code)
  PROVE  /\ d \in Locals /\ d.pc = "done" /\ d.status = code
         /\ d.call = l.call /\ d.review = l.review /\ d.key = l.key
         /\ d.lock = l.lock /\ d.targets = l.targets /\ d.gone = l.gone /\ d.fresh = l.fresh
         /\ d.removed = l.removed
<1>1. PICK a \in Locals : a = [l EXCEPT !.pc = "done"]
  BY Writes, Zenon DEF Label
<1>2. d = [a EXCEPT !.status = code]
  BY <1>1 DEF Done, Locals
<1>3. d \in Locals
  BY <1>2, Writes, Zenon
<1> QED
  BY <1>3 DEF Done, Locals

LEMMA RolledBackIs ==
  ASSUME NEW l \in Locals, NEW d, d = RolledBack(l)
  PROVE  /\ d \in Locals /\ d.pc = l.pc /\ d.status = l.status
         /\ d.call = l.call /\ d.review = l.review /\ d.key = l.key
         /\ d.lock = None /\ d.targets = {} /\ d.gone = {} /\ d.fresh = {} /\ d.removed = {}
<1>1. None \in Lock /\ {} \in SUBSET PhotoRow /\ {} \in SUBSET Key
  BY DEF Lock
<1>2. PICK a \in Locals : a = [l EXCEPT !.lock = None]
  BY <1>1, Writes, Zenon
<1>3. PICK b \in Locals : b = [a EXCEPT !.targets = {}]
  BY <1>1, Writes, Zenon
<1>4. PICK c \in Locals : c = [b EXCEPT !.gone = {}]
  BY <1>1, Writes, Zenon
<1>5. PICK e \in Locals : e = [c EXCEPT !.fresh = {}]
  BY <1>1, Writes, Zenon
<1>6. d = [e EXCEPT !.removed = {}]
  BY <1>2, <1>3, <1>4, <1>5 DEF RolledBack, Locals
<1>7. d \in Locals
  BY <1>1, <1>6, Writes, Zenon
<1> QED
  BY <1>7 DEF RolledBack, Locals

LEMMA AbortInv ==
  ASSUME Inv, NEW p \in Request, Here(p), ~At(p, "done"), NEW code \in Nat, code # 200, Abort(p, code)
  PROVE  Inv'
<1> DEFINE d == RolledBack(req[p])
           l == Done(d, code)
<1>1. req[p] \in Locals /\ req \in [Request -> Locals] /\ (Pour(p) = 0 => Op(p) = "Upload")
  BY AtWork, Typed
<1>2. /\ d \in Locals
      /\ d.call = req[p].call /\ d.review = req[p].review /\ d.key = req[p].key
      /\ d.lock = None /\ d.targets = {} /\ d.gone = {} /\ d.fresh = {} /\ d.removed = {}
  BY <1>1, RolledBackIs
<1>3. /\ l \in Locals /\ l.pc = "done" /\ l.status = code
      /\ l.call = req[p].call /\ l.review = req[p].review /\ l.key = req[p].key
      /\ l.lock = None /\ l.targets = {} /\ l.gone = {} /\ l.fresh = {} /\ l.removed = {}
  <2> HIDE DEF d
  <2> QED
    BY <1>2, DoneIs
<1>4. req' = [req EXCEPT ![p] = l] /\ UNCHANGED <<owner, rows, serving, store, made>>
  BY DEF Abort
<1> HIDE DEF l
<1>5. Goes(p, l)
  BY <1>1, <1>3, <1>4 DEF Goes
<1> QED
  BY <1>1, <1>3, <1>4, <1>5, EndInv

LEMMA Stages ==
  ASSUME Inv, NEW p \in Request, Here(p), ~At(p, "done")
  PROVE  /\ At(p, "put") => Op(p) = "Upload"
         /\ At(p, "insert") => Op(p) = "Create"
         /\ req[p].pc \in {"own", "columns", "clear", "clearing", "attach"} => Op(p) = "Update"
         /\ At(p, "oldKeys") \/ At(p, "s3") => Op(p) \in {"Update", "Delete"}
         /\ At(p, "commit") \/ At(p, "reload") => Op(p) \in {"Create", "Update"}
         /\ At(p, "remove") \/ At(p, "cascade") => Op(p) = "Delete"
  BY AtWork DEF Stage, At

\* What the handlers write of a request.
LEMMA WrittenOne ==
  ASSUME NEW l \in Locals, NEW pc \in Label, NEW lock \in Lock,
         NEW S \in SUBSET PhotoRow, NEW K \in SUBSET Key
  PROVE  /\ [l EXCEPT !.pc = pc] \in Locals
         /\ [l EXCEPT !.pc = pc, !.lock = lock] \in Locals
         /\ [l EXCEPT !.pc = pc, !.removed = K] \in Locals
         /\ [l EXCEPT !.pc = pc, !.targets = S] \in Locals
         /\ [l EXCEPT !.pc = pc, !.targets = {}, !.gone = S] \in Locals
         /\ [l EXCEPT !.pc = pc, !.lock = lock, !.fresh = S] \in Locals
<1>1. PICK a \in Locals : a = [l EXCEPT !.pc = pc]
  BY Writes, Zenon
<1>2. PICK b \in Locals : b = [a EXCEPT !.lock = lock]
  BY Writes, Zenon
<1>3. b = [l EXCEPT !.pc = pc, !.lock = lock]
  BY <1>1, <1>2 DEF Locals
<1>4. [l EXCEPT !.pc = pc, !.removed = K] \in Locals
  <2>1. [l EXCEPT !.pc = pc, !.removed = K] = [a EXCEPT !.removed = K]
    BY <1>1 DEF Locals
  <2> QED
    BY <2>1, Writes, Zenon
<1>5. [l EXCEPT !.pc = pc, !.targets = S] \in Locals
  <2>1. [l EXCEPT !.pc = pc, !.targets = S] = [a EXCEPT !.targets = S]
    BY <1>1 DEF Locals
  <2> QED
    BY <2>1, Writes, Zenon
<1>6. [l EXCEPT !.pc = pc, !.targets = {}, !.gone = S] \in Locals
  <2>1. {} \in SUBSET PhotoRow
    OBVIOUS
  <2>2. PICK c \in Locals : c = [a EXCEPT !.targets = {}]
    BY <2>1, Writes, Zenon
  <2>3. [l EXCEPT !.pc = pc, !.targets = {}, !.gone = S] = [c EXCEPT !.gone = S]
    BY <1>1, <2>2 DEF Locals
  <2> QED
    BY <2>3, Writes, Zenon
<1>7. [l EXCEPT !.pc = pc, !.lock = lock, !.fresh = S] \in Locals
  <2>1. [l EXCEPT !.pc = pc, !.lock = lock, !.fresh = S] = [b EXCEPT !.fresh = S]
    BY <1>1, <1>2 DEF Locals
  <2> QED
    BY <2>1, Writes, Zenon
<1> QED
  BY <1>1, <1>3, <1>4, <1>5, <1>6, <1>7, Zenon

LEMMA Written ==
  ASSUME NEW l \in Locals
  PROVE  /\ \A x \in Label : [l EXCEPT !.pc = x] \in Locals
         /\ \A x \in Label, y \in Lock : [l EXCEPT !.pc = x, !.lock = y] \in Locals
         /\ \A x \in Label, y \in SUBSET Key : [l EXCEPT !.pc = x, !.removed = y] \in Locals
         /\ \A x \in Label, y \in SUBSET PhotoRow : [l EXCEPT !.pc = x, !.targets = y] \in Locals
         /\ \A x \in Label, y \in SUBSET PhotoRow :
              [l EXCEPT !.pc = x, !.targets = {}, !.gone = y] \in Locals
         /\ \A x \in Label, y \in Lock, z \in SUBSET PhotoRow :
              [l EXCEPT !.pc = x, !.lock = y, !.fresh = z] \in Locals
<1>1. None \in Lock /\ {} \in SUBSET PhotoRow /\ {} \in SUBSET Key
  BY DEF Lock
<1> QED
  BY <1>1, WrittenOne, Zenon

\* p goes to its next statement with what it holds.
LEMMA GoesOn ==
  ASSUME Inv, NEW p \in Request, Here(p), ~At(p, "done"), NEW l \in Locals,
         req' = [req EXCEPT ![p] = l], l.pc # "idle",
         l.call = req[p].call, l.review = req[p].review, l.key = req[p].key,
         Spent(p) => l.pc \in {"s3", "reload", "done"}
  PROVE  Goes(p, l)
  BY Typed DEF Goes

LEMMA CallKeeps ==
  ASSUME Inv, NEW p \in Request, NEW l, Goes(p, l), made' = made,
         l.pc = "done" \/ l.pc \in Stage(Op(p))
  PROVE  CallOK(p)'
<1>1. CallOK(p) /\ Here(p) /\ ~At(p, "done")
  BY DEF Inv, Goes
<1>2. Named(req[p].call) \subseteq Known'
  BY <1>1, SourcesSettled DEF CallOK
<1>3. Op(p)' = Op(p) /\ Pour(p)' = Pour(p) /\ req'[p].call = req[p].call /\ req'[p].key = req[p].key
      /\ req'[p].pc = l.pc /\ l.pc # "idle"
  BY Settled DEF Goes
<1>4. l.pc = "put" => At(p, "put")
  <2>1. req[p].pc \in Stage(Op(p)) /\ Op(p) \in {"Upload", "Create", "Update", "Delete"}
    BY <1>1, AtWork
  <2> QED
    BY <2>1 DEF Stage, At
<1> QED
  BY <1>1, <1>2, <1>3, <1>4 DEF CallOK, At

LEMMA InsertPourInv ==
  ASSUME Inv, NEW p \in Request, InsertPour(p)
  PROVE  Inv'
<1> DEFINE l == [req[p] EXCEPT !.pc = "commit", !.lock = "delete", !.fresh = RowsOf(req[p].call.keys, p)]
<1>1. At(p, "insert") /\ req' = [req EXCEPT ![p] = l] /\ UNCHANGED <<owner, rows, serving, store, made>>
  BY DEF InsertPour
<1>2. Here(p) /\ ~At(p, "done") /\ req[p].pc = "insert"
  BY <1>1 DEF Here, At
<1>3. /\ req[p] \in Locals /\ req[p].call \in Calls /\ Op(p) = "Create" /\ Pour(p) \in Review
      /\ CallOK(p) /\ WritesOK(p) /\ LockOK(p)
  BY <1>1, <1>2, AtWork, Stages
<1>4. req[p].call.keys \in Seq(Key) /\ req[p].call.keys # None
  BY <1>3, CallIs DEF Op
<1>5. RowsOf(req[p].call.keys, p) \in SUBSET PhotoRow
  BY <1>4, RowsAre
<1>6. l \in Locals
  BY <1>3, <1>5, Written DEF Label, Lock
<1>7. /\ l.pc = "commit" /\ l.lock = "delete" /\ l.fresh = RowsOf(req[p].call.keys, p)
      /\ l.call = req[p].call /\ l.review = req[p].review /\ l.key = req[p].key
      /\ l.targets = req[p].targets /\ l.gone = req[p].gone /\ l.removed = req[p].removed
  BY <1>3 DEF Locals
<1> HIDE DEF l
<1>8. Goes(p, l)
  BY <1>1, <1>2, <1>6, <1>7, GoesOn DEF Spent
<1>9. Op(p)' = "Create" /\ Pour(p)' = Pour(p) /\ req'[p] = l
  BY <1>3, <1>8, Settled DEF Goes
<1>10. CallOK(p)'
  BY <1>1, <1>3, <1>7, <1>8, CallKeeps DEF Stage
<1>11. req[p].targets = {} /\ req[p].gone = {} /\ req[p].removed = {} /\ owner[Pour(p)] = None
  BY <1>2, <1>3 DEF WritesOK, LockOK, Unborn, At
<1>12. WritesOK(p)'
  BY <1>4, <1>7, <1>9, <1>11 DEF WritesOK, Listing, At
<1>13. LockOK(p)'
  BY <1>1, <1>7, <1>9, <1>11, Constants DEF LockOK, Holding, Editing, At
<1>14. MixOK(p)' /\ RemovedOK(p)' /\ ShowOK(p)'
  BY <1>7, <1>9, <1>11 DEF MixOK, RemovedOK, ShowOK, At
<1>15. ASSUME NEW q \in Request \ {p}
       PROVE  PairOK(p, q)' /\ PairOK(q, p)'
  <2>1. PairOK(p, q) /\ PairOK(q, p) /\ LockOK(q) /\ CallOK(q) /\ req'[q] = req[q]
    BY <1>8 DEF Inv, Goes
  <2>2. Pour(q)' = Pour(q) /\ Op(q)' = Op(q) /\ (Here(q)' <=> Here(q)) /\ (Here(p)' <=> Here(p))
    BY <1>8, Settled
  <2>3. (Unborn(q)' <=> Unborn(q)) /\ (Editing(q)' <=> Editing(q))
    BY <2>1 DEF Unborn, Editing, At, Op
  <2>4. Pour(q) = Pour(p) => req[q].lock = None
    <3>1. SUFFICES ASSUME Pour(q) = Pour(p), req[q].lock # None PROVE FALSE
      OBVIOUS
    <3>2. req[q].lock = "delete"
      BY <1>11, <2>1, <3>1, Typed DEF LockOK, Locals, Lock
    <3>3. ~(At(q, "commit") /\ Op(q) = "Create")
      BY <1>2, <1>3, <2>1, <3>1, Constants DEF PairOK, Here, At, Review
    <3>4. At(q, "cascade") /\ Here(q) /\ ~At(q, "done")
      BY <2>1, <3>2, <3>3 DEF LockOK, Here, At
    <3>5. req[q].call.user # None
      BY <3>4, AtWork, Stages, CallIs DEF Op
    <3> QED
      BY <1>11, <2>1, <3>1, <3>4, <3>5 DEF LockOK
  <2>5. Unborn(p) /\ ~Editing(p)'
    BY <1>1, <1>9 DEF Unborn, Editing
  <2>6. None \notin {"share", "update", "delete"}
    BY Constants
  <2> QED
    BY <1>3, <1>7, <1>9, <2>1, <2>2, <2>3, <2>4, <2>5, <2>6 DEF PairOK
<1> QED
  BY <1>1, <1>7, <1>8, <1>10, <1>12, <1>13, <1>14, <1>15, QuietInv

LEMMA CheckOwnerInv ==
  ASSUME Inv, NEW p \in Request, CheckOwner(p)
  PROVE  Inv'
<1>1. At(p, "own") /\ req[p].pc = "own" /\ Here(p) /\ ~At(p, "done")
  BY DEF CheckOwner, Here, At
<1>2. /\ req[p] \in Locals /\ req[p].call \in Calls /\ Op(p) = "Update" /\ Pour(p) \in Review
      /\ WritesOK(p) /\ LockOK(p)
  BY <1>1, AtWork, Stages
<1>3. CASE owner[Pour(p)] # req[p].call.user
  BY <1>1, <1>3, AbortInv DEF CheckOwner
<1>4. CASE owner[Pour(p)] = req[p].call.user
  <2> DEFINE pc == IF NamesColumns(req[p].call) THEN "columns" ELSE AfterColumns(p)
             l == [req[p] EXCEPT !.pc = pc]
  <2>1. req' = [req EXCEPT ![p] = l] /\ UNCHANGED <<owner, rows, serving, store, made>>
    BY <1>4, Typed DEF CheckOwner, Goto
  <2>2. /\ pc \in {"columns", "commit", "oldKeys"}
        /\ pc = "columns" <=> NamesColumns(req[p].call)
        /\ pc = "commit" => req[p].call.keys = None
        /\ pc = "oldKeys" => req[p].call.keys # None
    BY DEF AfterColumns
  <2> HIDE DEF pc
  <2>3. l \in Locals
    BY <1>2, <2>2, Writes DEF Label
  <2>4. /\ l.pc = pc /\ l.lock = req[p].lock /\ l.fresh = req[p].fresh
        /\ l.call = req[p].call /\ l.review = req[p].review /\ l.key = req[p].key
        /\ l.targets = req[p].targets /\ l.gone = req[p].gone /\ l.removed = req[p].removed
    BY <1>2 DEF Locals
  <2> HIDE DEF l
  <2>5. Goes(p, l)
    BY <1>1, <2>1, <2>2, <2>3, <2>4, GoesOn DEF Spent
  <2>6. Op(p)' = "Update" /\ Pour(p)' = Pour(p) /\ req'[p] = l
    BY <1>2, <2>5, Settled DEF Goes
  <2>7. CallOK(p)'
    BY <1>2, <2>1, <2>2, <2>4, <2>5, CallKeeps DEF Stage
  <2>8. /\ req[p].targets = {} /\ req[p].gone = {} /\ req[p].removed = {} /\ req[p].fresh = {}
        /\ req[p].lock = None
    <3>1. req[p].lock \in Lock
      BY <1>2 DEF Locals
    <3> QED
      BY <1>1, <1>2, <3>1 DEF WritesOK, LockOK, Holding, Editing, Unborn, At, Lock
  <2>9. WritesOK(p)'
    BY <2>2, <2>4, <2>6, <2>8 DEF WritesOK, Listing, At
  <2>10. owner[Pour(p)] # None /\ Pour(p) <= made.reviews
    <3>1. owner[Pour(p)] # None
      BY <1>2, <1>4, CallIs DEF Op
    <3>2. ~(Pour(p) > made.reviews)
      BY <1>2, <3>1 DEF Inv, Tables
    <3> QED
      BY <1>2, <3>1, <3>2, Typed DEF Review
  <2>11. LockOK(p)'
    BY <2>1, <2>2, <2>4, <2>6, <2>8, <2>10, Constants DEF LockOK, Holding, Editing, Unborn, At
  <2>12. MixOK(p)' /\ RemovedOK(p)' /\ ShowOK(p)'
    BY <2>2, <2>4, <2>6, <2>8 DEF MixOK, RemovedOK, ShowOK, At
  <2>13. ASSUME NEW q \in Request \ {p}
         PROVE  PairOK(p, q)' /\ PairOK(q, p)'
    <3>1. PairOK(p, q) /\ PairOK(q, p) /\ LockOK(q) /\ req'[q] = req[q]
      BY <2>5 DEF Inv, Goes
    <3>2. Pour(q)' = Pour(q) /\ Op(q)' = Op(q) /\ (Here(q)' <=> Here(q)) /\ (Here(p)' <=> Here(p))
      BY <2>5, Settled
    <3>3. (Unborn(q)' <=> Unborn(q)) /\ (Editing(q)' <=> Editing(q))
      BY <3>1 DEF Unborn, Editing, At, Op
    <3>4. Pour(q) = Pour(p) => ~Unborn(q)
      BY <2>10, <3>1 DEF LockOK
    <3>5. ~Unborn(p)' /\ None \notin {"share", "update", "delete"}
      BY <2>2, <2>4, <2>6, Constants DEF Unborn, At
    <3> QED
      BY <1>2, <2>4, <2>6, <2>8, <3>1, <3>2, <3>3, <3>4, <3>5 DEF PairOK
  <2> QED
    BY <2>1, <2>2, <2>4, <2>5, <2>7, <2>9, <2>11, <2>12, <2>13, QuietInv
<1> QED
  BY <1>3, <1>4

\* What a statement that goes through did not have to wait for.
LEMMA UpdateWaits ==
  ASSUME NEW p \in Request, At(p, "columns"), owner[Pour(p)] # None, Free(p),
         NEW q \in Request \ {p}, Pour(q) = Pour(p)
  PROVE  req[q].lock \notin {"update", "delete"}
<1>1. Conflicts(p) = Wants(p, "update") /\ Blocks("update") = {"update", "delete"}
  BY DEF Conflicts, Blocks, At
<1> QED
  BY <1>1 DEF Free, Wants, Pour

LEMMA ShareWaits ==
  ASSUME NEW p \in Request, At(p, "attach"), owner[Pour(p)] # None, Free(p),
         NEW q \in Request \ {p}, Pour(q) = Pour(p)
  PROVE  req[q].lock # "delete"
<1>1. Conflicts(p) = Wants(p, "share") /\ Blocks("share") = {"delete"}
  BY DEF Conflicts, Blocks, At
<1> QED
  BY <1>1 DEF Free, Wants, Pour

LEMMA DeleteWaits ==
  ASSUME NEW p \in Request, At(p, "remove"), owner[Pour(p)] = req[p].call.user, Free(p),
         NEW q \in Request \ {p}, Pour(q) = Pour(p)
  PROVE  req[q].lock \notin {"share", "update", "delete"}
<1>1. Conflicts(p) = Wants(p, "delete") /\ Blocks("delete") = {"share", "update", "delete"}
  BY DEF Conflicts, Blocks, At
<1> QED
  BY <1>1 DEF Free, Wants, Pour

LEMMA UpdateColumnsInv ==
  ASSUME Inv, NEW p \in Request, UpdateColumns(p)
  PROVE  Inv'
<1>1. At(p, "columns") /\ req[p].pc = "columns" /\ Here(p) /\ ~At(p, "done")
  BY DEF UpdateColumns, Here, At
<1>2. /\ req[p] \in Locals /\ req[p].call \in Calls /\ Op(p) = "Update" /\ Pour(p) \in Review
      /\ WritesOK(p) /\ LockOK(p)
  BY <1>1, AtWork, Stages
<1> DEFINE pc == AfterColumns(p)
           lock == IF owner[Pour(p)] = None THEN None ELSE "update"
           l == [req[p] EXCEPT !.pc = pc, !.lock = lock]
<1>3. req' = [req EXCEPT ![p] = l] /\ UNCHANGED <<owner, rows, serving, store, made>>
  BY DEF UpdateColumns
<1>4. /\ pc \in {"commit", "oldKeys"}
      /\ pc = "commit" => req[p].call.keys = None
      /\ pc = "oldKeys" => req[p].call.keys # None
      /\ lock \in {None, "update"} /\ (lock = None <=> owner[Pour(p)] = None)
  BY Constants DEF AfterColumns
<1> HIDE DEF pc, lock
<1>5. l \in Locals
  BY <1>2, <1>4, Written DEF Label, Lock
<1>6. /\ l.pc = pc /\ l.lock = lock /\ l.fresh = req[p].fresh
      /\ l.call = req[p].call /\ l.review = req[p].review /\ l.key = req[p].key
      /\ l.targets = req[p].targets /\ l.gone = req[p].gone /\ l.removed = req[p].removed
  BY <1>2 DEF Locals
<1> HIDE DEF l
<1>7. Goes(p, l)
  BY <1>1, <1>3, <1>4, <1>5, <1>6, GoesOn DEF Spent
<1>8. Op(p)' = "Update" /\ Pour(p)' = Pour(p) /\ req'[p] = l
  BY <1>2, <1>7, Settled DEF Goes
<1>9. CallOK(p)'
  BY <1>2, <1>3, <1>4, <1>6, <1>7, CallKeeps DEF Stage
<1>10. req[p].targets = {} /\ req[p].gone = {} /\ req[p].removed = {} /\ req[p].fresh = {}
  BY <1>1, <1>2 DEF WritesOK, At
<1>11. WritesOK(p)'
  BY <1>4, <1>6, <1>8, <1>10 DEF WritesOK, Listing, At
<1>12. Pour(p) <= made.reviews
  BY <1>1, <1>2 DEF LockOK, Editing
<1>13. LockOK(p)'
  BY <1>3, <1>4, <1>6, <1>8, <1>10, <1>12, Constants DEF LockOK, Holding, Editing, Unborn, At
<1>14. MixOK(p)' /\ RemovedOK(p)' /\ ShowOK(p)'
  BY <1>4, <1>6, <1>8, <1>10 DEF MixOK, RemovedOK, ShowOK, At
<1>15. ASSUME NEW q \in Request \ {p}
       PROVE  PairOK(p, q)' /\ PairOK(q, p)'
  <2>1. PairOK(p, q) /\ PairOK(q, p) /\ req'[q] = req[q]
    BY <1>7 DEF Inv, Goes
  <2>2. Pour(q)' = Pour(q) /\ Op(q)' = Op(q) /\ (Here(q)' <=> Here(q)) /\ (Here(p)' <=> Here(p))
    BY <1>7, Settled
  <2>3. (Unborn(q)' <=> Unborn(q)) /\ (Editing(q)' <=> Editing(q))
    BY <2>1 DEF Unborn, Editing, At, Op
  <2>4. Editing(p) /\ ~Unborn(p)' /\ None \notin {"share", "update", "delete"}
    BY <1>1, <1>2, <1>4, <1>6, <1>8, Constants DEF Editing, Unborn, At
  <2>5. Pour(q) = Pour(p) /\ lock # None => req[q].lock \notin {"update", "delete"}
    <3>1. Free(p)
      BY DEF UpdateColumns
    <3> QED
      BY <1>1, <1>4, <3>1, UpdateWaits
  <2> QED
    BY <1>2, <1>4, <1>6, <1>8, <2>1, <2>2, <2>3, <2>4, <2>5 DEF PairOK
<1> QED
  BY <1>3, <1>4, <1>6, <1>7, <1>9, <1>11, <1>13, <1>14, <1>15, QuietInv

\* Every row has a source at its pour that has nothing more to write.
LEMMA RowSource ==
  ASSUME Inv, NEW r \in Review, NEW x \in rows[r]
  PROVE  \E a \in Sources(x.key) : Home(a) = r /\ (a \in Request => Spent(a))
<1>1. RowOK(r, x)
  BY DEF Inv, Tables
<1>2. CASE x.by = None
  BY <1>1, <1>2, Constants DEF RowOK, Sources, Home
<1>3. CASE x.by # None
  BY <1>1, <1>3 DEF RowOK, Sources, Home, Here
<1> QED
  BY <1>2, <1>3

LEMMA LoneRows ==
  ASSUME Inv, NEW p \in Request, NEW k, Lone(k), Deletes(p, k), NEW r \in Review, r # Pour(p)
  PROVE  k \notin KeysOf(rows[r])
<1>1. SUFFICES ASSUME NEW x \in rows[r], x.key = k PROVE FALSE
  BY DEF KeysOf
<1>2. PICK a \in Sources(k) : Home(a) = r
  BY <1>1, RowSource
<1>3. PICK b \in Sources(k) : Home(b) = Pour(p)
  BY DEF Deletes
<1> QED
  BY <1>2, <1>3 DEF Lone

LEMMA ReadOldKeysInv ==
  ASSUME Inv, NEW p \in Request, ReadOldKeys(p)
  PROVE  Inv'
<1>1. At(p, "oldKeys") /\ req[p].pc = "oldKeys" /\ Here(p) /\ ~At(p, "done")
  BY DEF ReadOldKeys, Here, At
<1>2. /\ req[p] \in Locals /\ req[p].call \in Calls /\ Op(p) \in {"Update", "Delete"}
      /\ Pour(p) \in Review /\ WritesOK(p) /\ LockOK(p) /\ MixOK(p)
  BY <1>1, AtWork, Stages
<1> DEFINE pc == IF Op(p) = "Update" THEN "clear" ELSE "remove"
           removed == KeysOf(Seen(p)) \ Named(req[p].call)
           l == [req[p] EXCEPT !.pc = pc, !.removed = removed]
<1>3. req' = [req EXCEPT ![p] = l] /\ UNCHANGED <<owner, rows, serving, store, made>>
  BY DEF ReadOldKeys
<1>4. /\ req[p].targets = {} /\ req[p].gone = {} /\ req[p].fresh = {}
      /\ Op(p) = "Update" => req[p].call.keys # None
  BY <1>1, <1>2 DEF WritesOK, At
<1>5. Seen(p) = rows[Pour(p)] /\ rows[Pour(p)] \in SUBSET PhotoRow
  BY <1>2, <1>4, Typed DEF Seen
<1>6. /\ pc \in {"clear", "remove"} /\ (pc = "clear" <=> Op(p) = "Update")
      /\ removed \in SUBSET Key
      /\ \A k \in removed : k \notin Named(req[p].call) /\ \E x \in rows[Pour(p)] : x.key = k
  BY <1>5, KeysAre
<1> HIDE DEF pc, removed
<1>7. l \in Locals
  BY <1>2, <1>6, Written DEF Label
<1>8. /\ l.pc = pc /\ l.lock = req[p].lock /\ l.fresh = req[p].fresh
      /\ l.call = req[p].call /\ l.review = req[p].review /\ l.key = req[p].key
      /\ l.targets = req[p].targets /\ l.gone = req[p].gone /\ l.removed = removed
  BY <1>2 DEF Locals
<1> HIDE DEF l
<1>9. Goes(p, l)
  BY <1>1, <1>3, <1>6, <1>7, <1>8, GoesOn DEF Spent
<1>10. Op(p)' = Op(p) /\ Pour(p)' = Pour(p) /\ req'[p] = l
  BY <1>9, Settled DEF Goes
<1>11. CallOK(p)'
  BY <1>2, <1>3, <1>6, <1>8, <1>9, CallKeeps DEF Stage
<1>12. WritesOK(p)'
  BY <1>4, <1>6, <1>8, <1>10 DEF WritesOK, Listing, At
<1>13. LockOK(p)'
  BY <1>1, <1>2, <1>3, <1>4, <1>6, <1>8, <1>10 DEF LockOK, Holding, Editing, Unborn, At
<1>14. MixOK(p)' /\ ShowOK(p)'
  BY <1>6, <1>8, <1>10 DEF MixOK, ShowOK, At
<1>15. RemovedOK(p)'
  <2>1. ASSUME NEW k \in removed
        PROVE  Deletes(p, k) /\ (Lone(k) => AllSpent(k))
    <3>1. PICK x \in rows[Pour(p)] : x.key = k
      BY <1>6
    <3>2. PICK a \in Sources(k) : Home(a) = Pour(p) /\ (a \in Request => Spent(a))
      BY <1>2, <3>1, RowSource
    <3> QED
      BY <1>1, <1>6, <3>2 DEF Deletes, Lone, AllSpent
  <2>2. ASSUME NEW k \in removed
        PROVE  Deletes(p, k)' /\ (Lone(k)' => AllSpent(k)')
    BY <1>9, <2>1, SourcesSettled
  <2>3. /\ ~At(p, "clearing")' /\ ~At(p, "attach")' /\ ~At(p, "commit")' /\ ~At(p, "s3")'
        /\ req'[p].removed = removed
    BY <1>6, <1>8, <1>10 DEF At
  <2> QED
    BY <2>2, <2>3 DEF RemovedOK
<1>16. \A q \in Request \ {p} : PairOK(p, q)' /\ PairOK(q, p)'
  <2>1. (Editing(p)' => Editing(p)) /\ ~Unborn(p)'
    BY <1>1, <1>6, <1>8, <1>10 DEF Editing, Unborn, At
  <2> QED
    BY <1>8, <1>9, <2>1, PairsKeep
<1> QED
  BY <1>3, <1>6, <1>8, <1>9, <1>11, <1>12, <1>13, <1>14, <1>15, <1>16, QuietInv

LEMMA ClearStartsInv ==
  ASSUME Inv, NEW p \in Request, ClearStarts(p)
  PROVE  Inv'
<1>1. At(p, "clear") /\ req[p].pc = "clear" /\ Here(p) /\ ~At(p, "done")
  BY DEF ClearStarts, Here, At
<1>2. /\ req[p] \in Locals /\ req[p].call \in Calls /\ Op(p) = "Update"
      /\ Pour(p) \in Review /\ WritesOK(p) /\ LockOK(p) /\ RemovedOK(p)
  BY <1>1, AtWork, Stages
<1> DEFINE l == [req[p] EXCEPT !.pc = "clearing", !.targets = rows[Pour(p)]]
<1>3. req' = [req EXCEPT ![p] = l] /\ UNCHANGED <<owner, rows, serving, store, made>>
  BY DEF ClearStarts
<1>4. /\ req[p].gone = {} /\ req[p].fresh = {} /\ req[p].call.keys # None
      /\ rows[Pour(p)] \in SUBSET PhotoRow
  BY <1>1, <1>2, Typed DEF WritesOK, At
<1>5. l \in Locals
  BY <1>2, <1>4, Written DEF Label
<1>6. /\ l.pc = "clearing" /\ l.lock = req[p].lock /\ l.fresh = req[p].fresh
      /\ l.call = req[p].call /\ l.review = req[p].review /\ l.key = req[p].key
      /\ l.targets = rows[Pour(p)] /\ l.gone = req[p].gone /\ l.removed = req[p].removed
  BY <1>2 DEF Locals
<1> HIDE DEF l
<1>7. Goes(p, l)
  BY <1>1, <1>3, <1>5, <1>6, GoesOn DEF Spent
<1>8. Op(p)' = "Update" /\ Pour(p)' = Pour(p) /\ req'[p] = l
  BY <1>2, <1>7, Settled DEF Goes
<1>9. CallOK(p)'
  BY <1>2, <1>3, <1>6, <1>7, CallKeeps DEF Stage
<1>10. WritesOK(p)'
  BY <1>4, <1>6, <1>8 DEF WritesOK, Listing, At
<1>11. LockOK(p)'
  BY <1>1, <1>2, <1>3, <1>4, <1>6, <1>8 DEF LockOK, Holding, Editing, Unborn, At
<1>12. MixOK(p)' /\ ShowOK(p)'
  BY <1>3, <1>6, <1>8 DEF MixOK, ShowOK, At
<1>13. RemovedOK(p)'
  <2>1. ASSUME NEW k \in req[p].removed
        PROVE  Deletes(p, k)' /\ (Lone(k)' => AllSpent(k)')
    BY <1>2, <1>7, SourcesSettled DEF RemovedOK
  <2>2. /\ ~At(p, "attach")' /\ ~At(p, "commit")' /\ ~At(p, "s3")'
        /\ req'[p].removed = req[p].removed /\ req'[p].targets = rows'[Pour(p)']
    BY <1>3, <1>6, <1>8 DEF At
  <2> QED
    BY <2>1, <2>2 DEF RemovedOK
<1>14. \A q \in Request \ {p} : PairOK(p, q)' /\ PairOK(q, p)'
  <2>1. (Editing(p)' => Editing(p)) /\ ~Unborn(p)'
    BY <1>1, <1>2, <1>6, <1>8 DEF Editing, Unborn, At
  <2> QED
    BY <1>6, <1>7, <2>1, PairsKeep
<1> QED
  BY <1>3, <1>6, <1>7, <1>9, <1>10, <1>11, <1>12, <1>13, <1>14, QuietInv

LEMMA ClearRowsInv ==
  ASSUME Inv, NEW p \in Request, ClearRows(p)
  PROVE  Inv'
<1>1. At(p, "clearing") /\ req[p].pc = "clearing" /\ Here(p) /\ ~At(p, "done")
  BY DEF ClearRows, Here, At
<1>2. /\ req[p] \in Locals /\ req[p].call \in Calls /\ Op(p) = "Update"
      /\ Pour(p) \in Review /\ WritesOK(p) /\ LockOK(p) /\ RemovedOK(p) /\ MixOK(p) /\ ShowOK(p)
  BY <1>1, AtWork, Stages
<1> DEFINE pc == AfterClear(p)
           gone == req[p].targets \cap rows[Pour(p)]
           l == [req[p] EXCEPT !.pc = pc, !.targets = {}, !.gone = gone]
<1>3. req' = [req EXCEPT ![p] = l] /\ UNCHANGED <<owner, rows, serving, store, made>>
  BY DEF ClearRows
<1>4. /\ req[p].gone = {} /\ req[p].fresh = {} /\ req[p].call.keys # None
      /\ rows[Pour(p)] \in SUBSET PhotoRow
  BY <1>1, <1>2, Typed DEF WritesOK, At
<1>5. /\ pc \in {"attach", "commit"} /\ (pc = "commit" => req[p].call.keys = <<>>)
      /\ gone \in SUBSET PhotoRow
      /\ \A x \in rows[Pour(p)] : x \in gone <=> x \in req[p].targets
      /\ req[p].targets = rows[Pour(p)] => gone = rows[Pour(p)]
  BY <1>4 DEF AfterClear
<1> HIDE DEF pc, gone
<1>6. l \in Locals
  BY <1>2, <1>5, Written DEF Label
<1>7. /\ l.pc = pc /\ l.lock = req[p].lock /\ l.fresh = req[p].fresh
      /\ l.call = req[p].call /\ l.review = req[p].review /\ l.key = req[p].key
      /\ l.targets = {} /\ l.gone = gone /\ l.removed = req[p].removed
  BY <1>2 DEF Locals
<1> HIDE DEF l
<1>8. Goes(p, l)
  BY <1>1, <1>3, <1>5, <1>6, <1>7, GoesOn DEF Spent
<1>9. Op(p)' = "Update" /\ Pour(p)' = Pour(p) /\ req'[p] = l
  BY <1>2, <1>8, Settled DEF Goes
<1>10. CallOK(p)'
  BY <1>2, <1>3, <1>5, <1>7, <1>8, CallKeeps DEF Stage
<1>11. WritesOK(p)'
  <2>1. RowsOf(<<>>, p) = {}
    BY DEF RowsOf
  <2> QED
    BY <1>4, <1>5, <1>7, <1>9, <2>1 DEF WritesOK, Listing, At
<1>12. LockOK(p)'
  BY <1>1, <1>2, <1>3, <1>4, <1>5, <1>7, <1>9 DEF LockOK, Holding, Editing, Unborn, At
<1>13. MixOK(p)'
  <2>1. \A x \in rows[Pour(p)] \ gone : Late(x, p)'
    BY <1>1, <1>2, <1>5, <1>8, RowsSettled DEF MixOK
  <2> QED
    BY <1>3, <1>5, <1>7, <1>9, <2>1 DEF MixOK, At
<1>14. ShowOK(p)'
  <2>1. \A q \in Request : (At(q, "idle") \/ Pour(q) # Pour(p))' => (At(q, "idle") \/ Pour(q) # Pour(p))
    BY <1>8, Settled DEF Here
  <2> QED
    BY <1>1, <1>2, <1>3, <1>5, <1>7, <1>9, <2>1 DEF ShowOK, At
<1>15. RemovedOK(p)'
  <2>1. ASSUME NEW k \in req[p].removed
        PROVE  /\ Deletes(p, k)'
               /\ Lone(k)' => AllSpent(k)' /\ \A x \in rows[Pour(p)] : x.key = k => x \in gone
    BY <1>1, <1>2, <1>5, <1>8, SourcesSettled DEF RemovedOK
  <2>2. /\ ~At(p, "clearing")' /\ ~At(p, "s3")' /\ rows' = rows
        /\ req'[p].removed = req[p].removed /\ req'[p].gone = gone
    BY <1>3, <1>5, <1>7, <1>9 DEF At
  <2> QED
    BY <1>9, <2>1, <2>2 DEF RemovedOK
<1>16. \A q \in Request \ {p} : PairOK(p, q)' /\ PairOK(q, p)'
  <2>1. (Editing(p)' => Editing(p)) /\ ~Unborn(p)'
    BY <1>1, <1>2, <1>5, <1>7, <1>9 DEF Editing, Unborn, At
  <2> QED
    BY <1>7, <1>8, <2>1, PairsKeep
<1> QED
  BY <1>3, <1>5, <1>7, <1>8, <1>10, <1>11, <1>12, <1>13, <1>14, <1>15, <1>16, QuietInv

LEMMA AttachPhotosInv ==
  ASSUME Inv, NEW p \in Request, AttachPhotos(p)
  PROVE  Inv'
<1>1. At(p, "attach") /\ req[p].pc = "attach" /\ Here(p) /\ ~At(p, "done") /\ Free(p)
  BY DEF AttachPhotos, Here, At
<1>2. /\ req[p] \in Locals /\ req[p].call \in Calls /\ Op(p) = "Update"
      /\ Pour(p) \in Review /\ WritesOK(p) /\ LockOK(p) /\ RemovedOK(p) /\ MixOK(p) /\ ShowOK(p)
  BY <1>1, AtWork, Stages
<1>3. CASE owner[Pour(p)] = None
  BY <1>1, <1>3, AbortInv DEF AttachPhotos
<1>4. CASE owner[Pour(p)] # None
  <2> DEFINE lock == IF req[p].lock = None THEN "share" ELSE req[p].lock
             l == [req[p] EXCEPT !.pc = "commit", !.lock = lock,
                                 !.fresh = RowsOf(req[p].call.keys, p)]
  <2>1. req' = [req EXCEPT ![p] = l] /\ UNCHANGED <<owner, rows, serving, store, made>>
    BY <1>4, Typed DEF AttachPhotos
  <2>2. req[p].targets = {} /\ req[p].call.keys # None
    BY <1>1, <1>2 DEF WritesOK, At
  <2>3. req[p].call.keys \in Seq(Key)
    BY <1>2, <2>2, CallIs DEF Op
  <2>4. RowsOf(req[p].call.keys, p) \in SUBSET PhotoRow
    BY <2>3, RowsAre
  <2>5. /\ req[p].lock \in {None, "share", "update"} /\ lock \in {"share", "update"}
        /\ lock = "update" <=> req[p].lock = "update"
    <3>1. req[p].lock \in Lock /\ req[p].lock # "delete"
      BY <1>1, <1>2 DEF LockOK, Locals, At
    <3> QED
      BY <3>1, Constants DEF Lock
  <2> HIDE DEF lock
  <2>6. l \in Locals
    BY <1>2, <2>4, <2>5, Written DEF Label, Lock
  <2>7. /\ l.pc = "commit" /\ l.lock = lock /\ l.fresh = RowsOf(req[p].call.keys, p)
        /\ l.call = req[p].call /\ l.review = req[p].review /\ l.key = req[p].key
        /\ l.targets = req[p].targets /\ l.gone = req[p].gone /\ l.removed = req[p].removed
    BY <1>2 DEF Locals
  <2> HIDE DEF l
  <2>8. Goes(p, l)
    BY <1>1, <2>1, <2>6, <2>7, GoesOn DEF Spent
  <2>9. Op(p)' = "Update" /\ Pour(p)' = Pour(p) /\ req'[p] = l
    BY <1>2, <2>8, Settled DEF Goes
  <2>10. CallOK(p)'
    BY <1>2, <2>1, <2>7, <2>8, CallKeeps DEF Stage
  <2>11. WritesOK(p)'
    BY <2>2, <2>7, <2>9 DEF WritesOK, Listing, At
  <2>12. LockOK(p)'
    <3>1. Pour(p) <= made.reviews
      BY <1>1, <1>2 DEF LockOK, Editing
    <3>2. NamesColumns(req[p].call) => req[p].lock = "update"
      BY <1>1, <1>2, <1>4 DEF LockOK, Editing, Holding, At
    <3> QED
      BY <1>4, <2>1, <2>5, <2>7, <2>9, <3>1, <3>2, Constants DEF LockOK, Holding, Editing, Unborn, At
  <2>13. MixOK(p)'
    <3>1. \A x \in rows[Pour(p)] \ req[p].gone : Late(x, p)'
      BY <1>1, <1>2, <2>2, <2>8, RowsSettled DEF MixOK
    <3> QED
      BY <2>1, <2>7, <2>9, <3>1 DEF MixOK, At
  <2>14. ShowOK(p)'
    <3>1. \A q \in Request : (At(q, "idle") \/ Pour(q) # Pour(p))' => (At(q, "idle") \/ Pour(q) # Pour(p))
      BY <2>8, Settled DEF Here
    <3> QED
      BY <1>1, <1>2, <2>1, <2>7, <2>9, <3>1 DEF ShowOK, At
  <2>15. RemovedOK(p)'
    <3>1. ASSUME NEW k \in req[p].removed
          PROVE  /\ Deletes(p, k)'
                 /\ Lone(k)' => AllSpent(k)' /\ \A x \in rows[Pour(p)] : x.key = k => x \in req[p].gone
      BY <1>1, <1>2, <2>8, SourcesSettled DEF RemovedOK
    <3>2. /\ ~At(p, "clearing")' /\ ~At(p, "s3")' /\ rows' = rows
          /\ req'[p].removed = req[p].removed /\ req'[p].gone = req[p].gone
      BY <2>1, <2>7, <2>9 DEF At
    <3> QED
      BY <2>9, <3>1, <3>2 DEF RemovedOK
  <2>16. ASSUME NEW q \in Request \ {p}
         PROVE  PairOK(p, q)' /\ PairOK(q, p)'
    <3>1. PairOK(p, q) /\ PairOK(q, p) /\ req'[q] = req[q]
      BY <2>8 DEF Inv, Goes
    <3>2. Pour(q)' = Pour(q) /\ Op(q)' = Op(q) /\ (Here(q)' <=> Here(q)) /\ (Here(p)' <=> Here(p))
      BY <2>8, Settled
    <3>3. (Unborn(q)' <=> Unborn(q)) /\ (Editing(q)' <=> Editing(q))
      BY <3>1 DEF Unborn, Editing, At, Op
    <3>4. Editing(p) /\ ~Unborn(p)'
      BY <1>1, <1>2, <2>7, <2>9 DEF Editing, Unborn, At
    <3>5. Pour(q) = Pour(p) => req[q].lock # "delete"
      BY <1>1, <1>4, ShareWaits
    <3> QED
      BY <1>2, <2>5, <2>7, <2>9, <3>1, <3>2, <3>3, <3>4, <3>5 DEF PairOK
  <2> QED
    BY <2>1, <2>7, <2>8, <2>10, <2>11, <2>12, <2>13, <2>14, <2>15, <2>16, QuietInv
<1> QED
  BY <1>3, <1>4

-----------------------------------------------------------------------------
(* Objects and answers *)

LEMMA ReloadInv ==
  ASSUME Inv, NEW p \in Request, Reload(p)
  PROVE  Inv'
<1>1. /\ At(p, "reload") /\ Here(p) /\ ~At(p, "done")
      /\ UNCHANGED <<owner, rows, serving, store, made>>
  BY DEF Reload, Here, At
<1> DEFINE code == CASE Op(p) = "Create" -> 201
                     [] owner[Pour(p)] = None -> 500
                     [] OTHER -> 200
<1>2. req' = [req EXCEPT ![p] = Done(req[p], code)]
  BY Typed DEF Reload
<1>3. code \in {200, 201, 500}
  OBVIOUS
<1> HIDE DEF code
<1>4. /\ req[p] \in Locals /\ Op(p) \in {"Create", "Update"} /\ Pour(p) \in Review
      /\ WritesOK(p) /\ LockOK(p) /\ req[p].key = 0
  BY <1>1, AtWork, Stages
<1> DEFINE l == Done(req[p], code)
<1>5. /\ l \in Locals /\ l.pc = "done" /\ l.status = code
      /\ l.call = req[p].call /\ l.review = req[p].review /\ l.key = req[p].key
      /\ l.lock = req[p].lock /\ l.targets = req[p].targets /\ l.gone = req[p].gone
      /\ l.fresh = req[p].fresh /\ l.removed = req[p].removed
  BY <1>4, <1>3, DoneIs
<1>6. /\ req[p].targets = {} /\ req[p].gone = {} /\ req[p].fresh = {} /\ req[p].removed = {}
      /\ req[p].lock = None
  <2>1. req[p].lock \in Lock
    BY <1>4 DEF Locals
  <2> QED
    BY <1>1, <1>4, <2>1 DEF WritesOK, LockOK, Holding, Editing, At, Lock
<1> HIDE DEF l
<1>7. Goes(p, l)
  BY <1>1, <1>2, <1>5, GoesOn DEF l
<1>8. 0 \notin Key /\ 0 \notin Review
  BY DEF Key, Review
<1> QED
  BY <1>1, <1>4, <1>5, <1>6, <1>7, <1>8, EndInv

LEMMA AfterObjectsInv ==
  ASSUME Inv, NEW p \in Request, AfterObjects(p)
  PROVE  Inv'
<1>1. /\ At(p, "s3") /\ req[p].pc = "s3" /\ Here(p) /\ ~At(p, "done") /\ req[p].removed = {}
      /\ UNCHANGED <<owner, rows, serving, store, made>>
  BY DEF AfterObjects, Here, At
<1>2. /\ req[p] \in Locals /\ Op(p) \in {"Delete", "Update"} /\ Pour(p) \in Review
      /\ WritesOK(p) /\ LockOK(p) /\ ShowOK(p)
  BY <1>1, AtWork, Stages
<1>3. /\ req[p].targets = {} /\ req[p].gone = {} /\ req[p].fresh = {} /\ req[p].lock = None
  <2>1. req[p].lock \in Lock
    BY <1>2 DEF Locals
  <2> QED
    BY <1>1, <1>2, <2>1 DEF WritesOK, LockOK, Holding, Editing, At, Lock
<1>4. CASE Op(p) = "Delete"
  <2> DEFINE l == Done(req[p], 204)
  <2>1. /\ l \in Locals /\ l.pc = "done" /\ l.status = 204
        /\ l.call = req[p].call /\ l.review = req[p].review /\ l.key = req[p].key
        /\ l.lock = req[p].lock /\ l.targets = req[p].targets /\ l.gone = req[p].gone
        /\ l.fresh = req[p].fresh /\ l.removed = req[p].removed
    BY <1>2, DoneIs
  <2>2. req' = [req EXCEPT ![p] = l]
    BY <1>4, Typed DEF AfterObjects
  <2> HIDE DEF l
  <2>3. Goes(p, l)
    BY <1>1, <2>1, <2>2, GoesOn
  <2>4. 0 \notin Review
    BY DEF Review
  <2> QED
    BY <1>1, <1>2, <1>3, <1>4, <2>1, <2>3, <2>4, EndInv
<1>5. CASE Op(p) = "Update"
  <2> DEFINE l == [req[p] EXCEPT !.pc = "reload"]
  <2>1. req' = [req EXCEPT ![p] = l]
    BY <1>5, Typed DEF AfterObjects
  <2>2. l \in Locals
    BY <1>2, Written DEF Label
  <2>3. /\ l.pc = "reload"
        /\ l.call = req[p].call /\ l.review = req[p].review /\ l.key = req[p].key
        /\ l.lock = req[p].lock /\ l.targets = req[p].targets /\ l.gone = req[p].gone
        /\ l.fresh = req[p].fresh /\ l.removed = req[p].removed
    BY <1>2 DEF Locals
  <2> HIDE DEF l
  <2>4. Goes(p, l)
    BY <1>1, <2>1, <2>2, <2>3, GoesOn
  <2>5. Op(p)' = "Update" /\ Pour(p)' = Pour(p) /\ req'[p] = l
    BY <1>5, <2>4, Settled DEF Goes
  <2>6. CallOK(p)'
    BY <1>1, <1>5, <2>3, <2>4, CallKeeps DEF Stage
  <2>7. WritesOK(p)' /\ LockOK(p)' /\ MixOK(p)' /\ RemovedOK(p)'
    BY <1>1, <1>3, <2>3, <2>5, Constants DEF WritesOK, LockOK, MixOK, RemovedOK, Holding, Editing,
       Unborn, At
  <2>8. ShowOK(p)'
    <3>1. \A q \in Request : (At(q, "idle") \/ Pour(q) # Pour(p))' => (At(q, "idle") \/ Pour(q) # Pour(p))
      BY <2>4, Settled DEF Here
    <3> QED
      BY <1>1, <1>2, <1>5, <2>3, <2>5, <3>1 DEF ShowOK, At
  <2>9. \A q \in Request \ {p} : PairOK(p, q)' /\ PairOK(q, p)'
    <3>1. ~Editing(p)' /\ ~Unborn(p)'
      BY <2>3, <2>5 DEF Editing, Unborn, At
    <3> QED
      BY <2>3, <2>4, <3>1, PairsKeep
  <2> QED
    BY <1>1, <2>3, <2>4, <2>6, <2>7, <2>8, <2>9, QuietInv
<1> QED
  BY <1>2, <1>4, <1>5

LEMMA DeleteObjectInv ==
  ASSUME Inv, NEW p \in Request, DeleteObject(p)
  PROVE  Inv'
<1>1. /\ At(p, "s3") /\ req[p].pc = "s3" /\ Here(p) /\ ~At(p, "done")
      /\ UNCHANGED <<owner, rows, serving, made>>
  BY DEF DeleteObject, Here, At
<1>2. /\ req[p] \in Locals /\ Op(p) \in {"Delete", "Update"} /\ Pour(p) \in Review
      /\ WritesOK(p) /\ LockOK(p) /\ ShowOK(p) /\ RemovedOK(p)
  BY <1>1, AtWork, Stages
<1>3. PICK k \in req[p].removed :
        /\ store' \in {store \ {k}, store}
        /\ req' = [req EXCEPT ![p] = [req[p] EXCEPT !.removed = req[p].removed \ {k}]]
  BY Typed DEF DeleteObject
<1> DEFINE l == [req[p] EXCEPT !.removed = req[p].removed \ {k}]
<1>4. /\ l \in Locals /\ l.pc = "s3" /\ l.removed = req[p].removed \ {k}
      /\ l.call = req[p].call /\ l.review = req[p].review /\ l.key = req[p].key
      /\ l.lock = req[p].lock /\ l.targets = req[p].targets /\ l.gone = req[p].gone
      /\ l.fresh = req[p].fresh
  BY <1>1, <1>2 DEF Locals
<1> HIDE DEF l
<1>5. Goes(p, l)
  BY <1>1, <1>3, <1>4, GoesOn DEF l
<1>6. Op(p)' = Op(p) /\ Pour(p)' = Pour(p) /\ req'[p] = l
  BY <1>5, Settled DEF Goes
<1>7. CallOK(p)'
  BY <1>1, <1>2, <1>4, <1>5, CallKeeps DEF Stage
<1>8. WritesOK(p)' /\ LockOK(p)' /\ MixOK(p)'
  BY <1>1, <1>2, <1>4, <1>6 DEF WritesOK, LockOK, MixOK, Holding, Editing, Unborn, At
<1>9. ShowOK(p)'
  <2>1. \A q \in Request : (At(q, "idle") \/ Pour(q) # Pour(p))' => (At(q, "idle") \/ Pour(q) # Pour(p))
    BY <1>5, Settled DEF Here
  <2> QED
    BY <1>1, <1>2, <1>4, <1>6, <2>1 DEF ShowOK, At
<1>10. RemovedOK(p)'
  <2>1. ASSUME NEW i \in req[p].removed
        PROVE  Deletes(p, i)' /\ (Lone(i)' => AllSpent(i)' /\ NoRows(i)')
    BY <1>1, <1>2, <1>5, SourcesSettled DEF RemovedOK, NoRows
  <2>2. /\ ~At(p, "clearing")' /\ ~At(p, "attach")' /\ ~At(p, "commit")'
        /\ req'[p].removed \subseteq req[p].removed
    BY <1>4, <1>6 DEF At
  <2> QED
    BY <2>1, <2>2 DEF RemovedOK
<1>11. \A q \in Request \ {p} : PairOK(p, q)' /\ PairOK(q, p)'
  <2>1. ~Editing(p)' /\ ~Unborn(p)'
    BY <1>4, <1>6 DEF Editing, Unborn, At
  <2> QED
    BY <1>4, <1>5, <2>1, PairsKeep
\* An object goes only when no row needs it, unless its key was put on a pour twice.
<1>12. StoreOK'
  <2>1. /\ Deletes(p, k) /\ (Lone(k) => AllSpent(k) /\ NoRows(k))
    BY <1>1, <1>2, <1>3 DEF RemovedOK
  <2>2. \A i : i # k => (i \in store' <=> i \in store)
    BY <1>3
  <2>3. ASSUME NEW i \in Key
        PROVE  /\ i \in Known => i \in store' \/ \E q \in Request : Deletes(q, i)
               /\ Lone(i) /\ Sources(i) # {} /\ i \notin store' => AllSpent(i) /\ NoRows(i)
    <3>1. CASE i = k
      BY <2>1, <3>1
    <3>2. CASE i # k
      BY <2>2, <3>2 DEF Inv, StoreOK
    <3> QED
      BY <3>1, <3>2
  <2>4. \A i : NoRows(i)' <=> NoRows(i)
    BY <1>1 DEF NoRows
  <2> QED
    BY <1>4, <1>5, <2>3, <2>4, SourcesSettled DEF StoreOK
<1>13. store' \subseteq Key
  BY <1>3, Typed
<1> QED
  BY <1>1, <1>5, <1>7, <1>8, <1>9, <1>10, <1>11, <1>12, <1>13, TablesStay

LEMMA PutObjectInv ==
  ASSUME Inv, NEW p \in Request, PutObject(p)
  PROVE  Inv'
<1>1. /\ At(p, "put") /\ req[p].pc = "put" /\ Here(p) /\ ~At(p, "done")
      /\ UNCHANGED <<owner, rows, serving, made>>
  BY DEF PutObject, Here, At
<1>2. PICK code \in {200, 500} :
        /\ req' = [req EXCEPT ![p] = Done(req[p], code)]
        /\ store' \in {store, store \cup {req[p].key}}
        /\ code = 200 => store' = store \cup {req[p].key}
  BY Typed DEF PutObject
<1>3. /\ req[p] \in Locals /\ Op(p) = "Upload" /\ WritesOK(p) /\ LockOK(p)
  BY <1>1, AtWork, Stages
<1> DEFINE l == Done(req[p], code)
<1>4. /\ l \in Locals /\ l.pc = "done" /\ l.status = code
      /\ l.call = req[p].call /\ l.review = req[p].review /\ l.key = req[p].key
      /\ l.lock = req[p].lock /\ l.targets = req[p].targets /\ l.gone = req[p].gone
      /\ l.fresh = req[p].fresh /\ l.removed = req[p].removed
  BY <1>3, DoneIs
<1>5. /\ req[p].targets = {} /\ req[p].gone = {} /\ req[p].fresh = {} /\ req[p].removed = {}
      /\ req[p].lock = None
  <2>1. req[p].lock \in Lock
    BY <1>3 DEF Locals
  <2> QED
    BY <1>1, <1>3, <2>1 DEF WritesOK, LockOK, Holding, Editing, At, Lock
<1> HIDE DEF l
<1>6. Goes(p, l)
  BY <1>1, <1>2, <1>4, GoesOn DEF l
<1>7. \A q \in Request : q # p => req'[q] = req[q]
  BY <1>6 DEF Goes
<1>8. \A k \in Key : k \in Known' => k \in Known \/ k \in store'
  BY <1>2, <1>4, <1>6, <1>7 DEF Known, At, Goes
<1>9. StoreOK'
  <2>1. \A k : NoRows(k)' <=> NoRows(k)
    BY <1>1 DEF NoRows
  <2>2. store \subseteq store'
    BY <1>2
  <2> QED
    BY <1>6, <1>8, <2>1, <2>2, SourcesSettled DEF Inv, StoreOK
<1>10. store' \subseteq Key
  <2>1. req[p].key \in Key
    BY <1>1 DEF Inv, CallOK
  <2> QED
    BY <1>2, <2>1, Typed
<1> QED
  BY <1>1, <1>3, <1>4, <1>5, <1>6, <1>9, <1>10, EndKeeps, TablesStay

-----------------------------------------------------------------------------
(* The pour itself *)

LEMMA LockPourInv ==
  ASSUME Inv, NEW p \in Request, LockPour(p)
  PROVE  Inv'
<1>1. At(p, "remove") /\ req[p].pc = "remove" /\ Here(p) /\ ~At(p, "done") /\ Free(p)
  BY DEF LockPour, Here, At
<1>2. /\ req[p] \in Locals /\ req[p].call \in Calls /\ Op(p) = "Delete"
      /\ Pour(p) \in Review /\ WritesOK(p) /\ LockOK(p) /\ RemovedOK(p)
  BY <1>1, AtWork, Stages
<1>3. CASE owner[Pour(p)] # req[p].call.user
  BY <1>1, <1>3, AbortInv DEF LockPour
<1>4. CASE owner[Pour(p)] = req[p].call.user
  <2> DEFINE l == [req[p] EXCEPT !.pc = "cascade", !.lock = "delete"]
  <2>1. req' = [req EXCEPT ![p] = l] /\ UNCHANGED <<owner, rows, serving, store, made>>
    BY <1>4 DEF LockPour
  <2>2. l \in Locals
    BY <1>2, Written DEF Label, Lock
  <2>3. /\ l.pc = "cascade" /\ l.lock = "delete" /\ l.fresh = req[p].fresh
        /\ l.call = req[p].call /\ l.review = req[p].review /\ l.key = req[p].key
        /\ l.targets = req[p].targets /\ l.gone = req[p].gone /\ l.removed = req[p].removed
    BY <1>2 DEF Locals
  <2> HIDE DEF l
  <2>4. Goes(p, l)
    BY <1>1, <2>1, <2>2, <2>3, GoesOn DEF Spent
  <2>5. Op(p)' = "Delete" /\ Pour(p)' = Pour(p) /\ req'[p] = l
    BY <1>2, <2>4, Settled DEF Goes
  <2>6. CallOK(p)'
    BY <1>2, <2>1, <2>3, <2>4, CallKeeps DEF Stage
  <2>7. req[p].targets = {} /\ req[p].gone = {} /\ req[p].fresh = {}
    BY <1>1, <1>2 DEF WritesOK, At
  <2>8. WritesOK(p)'
    BY <2>3, <2>5, <2>7 DEF WritesOK, At
  <2>9. LockOK(p)'
    BY <1>4, <2>1, <2>3, <2>4, <2>5, Constants DEF LockOK, Holding, Editing, Unborn, At
  <2>10. MixOK(p)' /\ ShowOK(p)'
    BY <2>3, <2>5 DEF MixOK, ShowOK, At
  <2>11. RemovedOK(p)'
    <3>1. ASSUME NEW k \in req[p].removed
          PROVE  Deletes(p, k)' /\ (Lone(k)' => AllSpent(k)')
      BY <1>2, <2>4, SourcesSettled DEF RemovedOK
    <3>2. /\ ~At(p, "clearing")' /\ ~At(p, "attach")' /\ ~At(p, "commit")' /\ ~At(p, "s3")'
          /\ req'[p].removed = req[p].removed
      BY <2>3, <2>5 DEF At
    <3> QED
      BY <3>1, <3>2 DEF RemovedOK
  <2>12. ASSUME NEW q \in Request \ {p}
         PROVE  PairOK(p, q)' /\ PairOK(q, p)'
    <3>1. PairOK(p, q) /\ PairOK(q, p) /\ req'[q] = req[q]
      BY <2>4 DEF Inv, Goes
    <3>2. Pour(q)' = Pour(q) /\ Op(q)' = Op(q) /\ (Here(q)' <=> Here(q)) /\ (Here(p)' <=> Here(p))
      BY <2>4, Settled
    <3>3. ~Unborn(p)' /\ ~Editing(p)'
      BY <2>3, <2>5 DEF Editing, Unborn, At
    <3>4. Pour(q) = Pour(p) => req[q].lock = None
      BY <1>1, <1>4, DeleteWaits, Typed DEF Locals, Lock
    <3> QED
      BY <1>2, <2>3, <2>5, <3>1, <3>2, <3>3, <3>4, Constants DEF PairOK
  <2> QED
    BY <2>1, <2>3, <2>4, <2>6, <2>8, <2>9, <2>10, <2>11, <2>12, QuietInv
<1> QED
  BY <1>3, <1>4

\* A step that changes the tables at p's pour and nowhere else: the others that show what they
\* wrote are not at that pour.
LEMMA TablesMove ==
  ASSUME Inv, NEW p \in Request, NEW l, Goes(p, l), Pour(p) \in Review, UNCHANGED <<store, made>>,
         owner' \in [Review -> User \cup {None}], rows' \in [Review -> SUBSET PhotoRow],
         serving' \in [Review -> Amount],
         \A r \in Review : r # Pour(p) => rows'[r] = rows[r],
         Tables', StoreOK', ServingsAreWhole', ListsMixOnlyWithoutColumns',
         CallOK(p)', WritesOK(p)', LockOK(p)', MixOK(p)', RemovedOK(p)', ShowOK(p)',
         \A q \in Request \ {p} : PairOK(p, q)' /\ PairOK(q, p)',
         \A q \in Request \ {p} : LockOK(q)' /\ MixOK(q)' /\ RemovedOK(q)'
  PROVE  Inv'
<1>1. store' = store /\ made' = made
  OBVIOUS
<1>2. TypeOK'
  BY <1>1, Typed DEF TypeOK, Goes, Locals, Lock
<1>3. ASSUME NEW q \in Request \ {p}
      PROVE  CallOK(q)' /\ WritesOK(q)' /\ (Here(q)' => ShowOK(q)')
  <2>1. req'[q] = req[q] /\ CallOK(q) /\ WritesOK(q) /\ (Here(q) => ShowOK(q))
    BY DEF Goes, Inv
  <2>2. CallOK(q)'
    BY <1>1, <2>1, SourcesSettled DEF CallOK, Here, At, Op, Pour
  <2>3. WritesOK(q)'
    BY <2>1 DEF WritesOK, Listing, At, Op
  <2>4. ASSUME Here(q)' PROVE ShowOK(q)'
    <3>1. /\ Pour(q)' = Pour(q) /\ Pour(p)' = Pour(p) /\ Op(q)' = Op(q) /\ Here(p)' /\ Here(q)
      BY <2>4, Settled DEF Goes
    <3>2. \A i \in Request : (At(i, "idle") \/ Pour(i) # Pour(q))' => (At(i, "idle") \/ Pour(i) # Pour(q))
      BY Settled DEF Here
    <3>3. CASE Pour(q) = Pour(p)
      <4>1. ~(At(p, "idle") \/ Pour(p) # Pour(q))'
        BY <3>1, <3>3 DEF Here
      <4> QED
        BY <4>1 DEF ShowOK
    <3>4. CASE Pour(q) # Pour(p) /\ Pour(q) \in Review
      <4>1. rows'[Pour(q)] = rows[Pour(q)]
        BY <3>4
      <4> QED
        BY <2>1, <3>1, <3>2, <4>1 DEF ShowOK, At
    <3>5. CASE Pour(q) \notin Review
      <4>1. Pour(q) = 0
        BY <3>5, Typed DEF Locals, Pour
      <4>2. Op(q) = "Upload" \/ (At(q, "done") /\ req[q].status = 400)
        BY <2>1, <3>1, <4>1 DEF CallOK
      <4> QED
        BY <2>1, <3>1, <4>2 DEF ShowOK, At
    <3> QED
      BY <3>3, <3>4, <3>5
  <2> QED
    BY <2>2, <2>3, <2>4
<1>4. \A i, j \in Request : i # j => PairOK(i, j)'
  <2>1. SUFFICES ASSUME NEW i \in Request, NEW j \in Request, i # j PROVE PairOK(i, j)'
    OBVIOUS
  <2>2. CASE i = p \/ j = p
    BY <2>1, <2>2
  <2>3. CASE i # p /\ j # p
    <3>1. req'[i] = req[i] /\ req'[j] = req[j] /\ PairOK(i, j)
      BY <2>1, <2>3 DEF Goes, Inv
    <3> QED
      BY <3>1 DEF PairOK, Unborn, Editing, Here, At, Op, Pour
  <2> QED
    BY <2>2, <2>3
<1> QED
  BY <1>2, <1>3, <1>4 DEF Inv

LEMMA RemovePourInv ==
  ASSUME Inv, NEW p \in Request, RemovePour(p)
  PROVE  Inv'
<1>1. /\ At(p, "cascade") /\ req[p].pc = "cascade" /\ Here(p) /\ ~At(p, "done")
      /\ store' = store /\ made' = made
  BY DEF RemovePour, Here, At
<1>2. /\ req[p] \in Locals /\ req[p].call \in Calls /\ Op(p) = "Delete" /\ Pour(p) \in Review
      /\ WritesOK(p) /\ LockOK(p) /\ RemovedOK(p)
  BY <1>1, AtWork, Stages
<1>3. /\ req[p].targets = {} /\ req[p].gone = {} /\ req[p].fresh = {} /\ req[p].lock = "delete"
  BY <1>1, <1>2 DEF WritesOK, LockOK, At
<1>4. PICK l \in Locals :
        /\ req' = [req EXCEPT ![p] = l]
        /\ l.call = req[p].call /\ l.review = req[p].review /\ l.key = req[p].key
        /\ l.lock = None /\ l.targets = {} /\ l.gone = {} /\ l.fresh = {}
        /\ \/ l.pc = "s3" /\ l.removed = req[p].removed
           \/ l.pc = "done" /\ l.status = 404 /\ l.removed = {}
  <2>1. CASE req' = [req EXCEPT ![p].pc = "s3", ![p].lock = None]
    <3> DEFINE l == [req[p] EXCEPT !.pc = "s3", !.lock = None]
    <3>1. l \in Locals
      BY <1>2, Written DEF Label, Lock
    <3>2. req' = [req EXCEPT ![p] = l]
      BY <2>1
    <3>3. /\ l.pc = "s3" /\ l.lock = None /\ l.removed = req[p].removed /\ l.fresh = req[p].fresh
          /\ l.call = req[p].call /\ l.review = req[p].review /\ l.key = req[p].key
          /\ l.targets = req[p].targets /\ l.gone = req[p].gone
      BY <1>2 DEF Locals
    <3> HIDE DEF l
    <3>4. /\ l.lock = None /\ l.targets = {} /\ l.gone = {} /\ l.fresh = {}
      BY <1>3, <3>3
    <3> QED
      BY <3>1, <3>2, <3>3, <3>4, Zenon
  <2>2. CASE req' = [req EXCEPT ![p] = Done(RolledBack(req[p]), 404)]
    <3> DEFINE d == RolledBack(req[p])
               l == Done(d, 404)
    <3>1. /\ d \in Locals
          /\ d.call = req[p].call /\ d.review = req[p].review /\ d.key = req[p].key
          /\ d.lock = None /\ d.targets = {} /\ d.gone = {} /\ d.fresh = {} /\ d.removed = {}
      BY <1>2, RolledBackIs
    <3>2. /\ l \in Locals /\ l.pc = "done" /\ l.status = 404
          /\ l.call = d.call /\ l.review = d.review /\ l.key = d.key
          /\ l.lock = d.lock /\ l.targets = d.targets /\ l.gone = d.gone /\ l.fresh = d.fresh
          /\ l.removed = d.removed
      <4> HIDE DEF d
      <4> QED
        BY <3>1, DoneIs
    <3>3. req' = [req EXCEPT ![p] = l]
      BY <2>2
    <3> HIDE DEF l, d
    <3>4. /\ l.call = req[p].call /\ l.review = req[p].review /\ l.key = req[p].key
          /\ l.lock = None /\ l.targets = {} /\ l.gone = {} /\ l.fresh = {} /\ l.removed = {}
      BY <3>1, <3>2
    <3> QED
      BY <3>2, <3>3, <3>4, Zenon
  <2> QED
    BY <2>1, <2>2, Typed DEF RemovePour
<1>5. Goes(p, l)
  BY <1>1, <1>4, GoesOn
<1>6. Op(p)' = "Delete" /\ Pour(p)' = Pour(p) /\ req'[p] = l
  BY <1>2, <1>5, Settled DEF Goes
<1>7. /\ owner' \in [Review -> User \cup {None}] /\ rows' \in [Review -> SUBSET PhotoRow]
      /\ serving' \in [Review -> Amount]
      /\ owner'[Pour(p)] = None /\ rows'[Pour(p)] = {} /\ serving'[Pour(p)] = NoAmount
      /\ \A r \in Review : r # Pour(p) =>
           rows'[r] = rows[r] /\ owner'[r] = owner[r] /\ serving'[r] = serving[r]
  <2>1. NoAmount \in Amount
    BY DEF NoAmount, Amount
  <2> QED
    BY <1>2, <2>1, Typed DEF RemovePour
<1>8. \A r \in Review : rows'[r] \subseteq rows[r]
  BY <1>7
<1>9. Tables'
  BY <1>1, <1>5, <1>7, <1>8, RowsSettled DEF Inv, Tables
<1>10. \A k : NoRows(k) => NoRows(k)'
  BY <1>8 DEF NoRows, KeysOf
<1>11. StoreOK'
  BY <1>1, <1>4, <1>5, <1>10, SourcesSettled DEF Inv, StoreOK
<1>12. ServingsAreWhole'
  BY <1>5, <1>7, Settled DEF Inv, ServingsAreWhole
<1>13. ListsMixOnlyWithoutColumns'
  <2>1. \A r \in Review : \A x \in rows[r] : RowOK(r, x)
    BY DEF Inv, Tables
  <2> QED
    BY <1>5, <1>8, <2>1, Settled DEF Inv, ListsMixOnlyWithoutColumns, RowOK
<1>14. \A q \in Request \ {p} : LockOK(q)' /\ MixOK(q)' /\ RemovedOK(q)'
  <2>1. SUFFICES ASSUME NEW q \in Request \ {p} PROVE LockOK(q)' /\ MixOK(q)' /\ RemovedOK(q)'
    OBVIOUS
  <2>2. /\ req'[q] = req[q] /\ LockOK(q) /\ MixOK(q) /\ RemovedOK(q) /\ PairOK(p, q) /\ CallOK(q)
        /\ Pour(q)' = Pour(q) /\ Op(q)' = Op(q) /\ req[q] \in Locals
    BY <1>5, Settled, Typed DEF Goes, Inv
  <2>3. Pour(q) \in Review \/ (Pour(q) = 0 /\ 0 \notin Review)
    BY <2>2 DEF Locals, Pour, Review
  <2>4. CASE Pour(q) = Pour(p)
    <3>1. req[q].lock = None
      BY <1>3, <2>2, <2>4 DEF PairOK
    <3>2. ~At(q, "cascade") /\ owner'[Pour(q)] = None
      BY <1>7, <2>2, <2>4, <3>1, Constants DEF LockOK
    <3>3. LockOK(q)'
      BY <1>1, <2>2, <3>1, <3>2, Constants DEF LockOK, Holding, Editing, Unborn, At
    <3>4. MixOK(q)' /\ RemovedOK(q)'
      BY <1>2, <1>5, <1>7, <1>10, <2>2, <2>4, RowsSettled, SourcesSettled DEF MixOK, RemovedOK, At
    <3> QED
      BY <3>3, <3>4
  <2>5. CASE Pour(q) # Pour(p) /\ Pour(q) \in Review
    <3>1. owner'[Pour(q)] = owner[Pour(q)] /\ rows'[Pour(q)] = rows[Pour(q)]
      BY <1>7, <2>5
    <3>2. LockOK(q)'
      BY <1>1, <2>2, <3>1 DEF LockOK, Holding, Editing, Unborn, At
    <3>3. MixOK(q)'
      BY <1>5, <2>2, <3>1, RowsSettled DEF MixOK, At
    <3>4. RemovedOK(q)'
      BY <1>5, <1>10, <2>2, <3>1, SourcesSettled DEF RemovedOK, At
    <3> QED
      BY <3>2, <3>3, <3>4
  <2>6. CASE Pour(q) \notin Review
    <3>1. At(q, "idle") \/ At(q, "done") \/ At(q, "put")
      <4>1. SUFFICES ASSUME Here(q), ~At(q, "done") PROVE At(q, "put")
        BY DEF Here
      <4>2. Op(q) = "Upload" /\ req[q].pc \in Stage(Op(q))
        BY <2>3, <2>6, <4>1, AtWork
      <4> QED
        BY <4>2 DEF Stage, At
    <3>2. req[q].lock = None /\ req[q].removed = {}
      BY <2>2, <3>1, Typed DEF LockOK, WritesOK, Inv, Holding, Editing, Locals, Lock, At
    <3> QED
      BY <2>2, <3>1, <3>2, Constants DEF LockOK, MixOK, RemovedOK, Holding, Editing, Unborn, At
  <2> QED
    BY <2>4, <2>5, <2>6
<1>15. CASE l.pc = "done"
  <2>1. 0 \notin Review
    BY DEF Review
  <2>2. /\ CallOK(p)' /\ WritesOK(p)' /\ LockOK(p)' /\ MixOK(p)' /\ RemovedOK(p)' /\ ShowOK(p)'
        /\ \A q \in Request \ {p} : PairOK(p, q)' /\ PairOK(q, p)'
    BY <1>1, <1>2, <1>4, <1>5, <1>15, <2>1, EndKeeps
  <2> QED
    BY <1>1, <1>2, <1>5, <1>7, <1>9, <1>11, <1>12, <1>13, <1>14, <2>2, TablesMove
<1>16. CASE l.pc = "s3"
  <2>1. CallOK(p)'
    BY <1>1, <1>2, <1>5, <1>16, CallKeeps DEF Stage
  <2>2. WritesOK(p)' /\ LockOK(p)' /\ MixOK(p)' /\ ShowOK(p)'
    BY <1>4, <1>6, <1>16, Constants DEF WritesOK, LockOK, MixOK, ShowOK, Holding, Editing,
       Unborn, At
  <2>3. RemovedOK(p)'
    <3>1. ASSUME NEW k \in req[p].removed
          PROVE  Deletes(p, k)' /\ (Lone(k)' => AllSpent(k)' /\ NoRows(k)')
      <4>1. Deletes(p, k) /\ (Lone(k) => AllSpent(k))
        BY <1>2 DEF RemovedOK
      <4>2. Lone(k) => NoRows(k)'
        <5>1. \A r \in Review : Lone(k) => k \notin KeysOf(rows'[r])
          BY <1>7, <4>1, LoneRows DEF KeysOf
        <5> QED
          BY <5>1 DEF NoRows
      <4> QED
        BY <1>5, <4>1, <4>2, SourcesSettled
    <3>2. /\ ~At(p, "clearing")' /\ ~At(p, "attach")' /\ ~At(p, "commit")'
          /\ req'[p].removed = req[p].removed
      BY <1>4, <1>6, <1>16 DEF At
    <3> QED
      BY <3>1, <3>2 DEF RemovedOK
  <2>4. \A q \in Request \ {p} : PairOK(p, q)' /\ PairOK(q, p)'
    <3>1. ~Editing(p)' /\ ~Unborn(p)'
      BY <1>6, <1>16 DEF Editing, Unborn, At
    <3> QED
      BY <1>4, <1>5, <3>1, PairsKeep
  <2> QED
    BY <1>1, <1>2, <1>5, <1>7, <1>9, <1>11, <1>12, <1>13, <1>14, <2>1, <2>2, <2>3, <2>4, TablesMove
<1> QED
  BY <1>4, <1>15, <1>16

-----------------------------------------------------------------------------
(* Commit *)

\* What p holds when it commits, and what the photos of its pour are then.
LEMMA AtCommit ==
  ASSUME Inv, NEW p \in Request, Commit(p)
  PROVE  /\ At(p, "commit") /\ Here(p) /\ ~At(p, "done") /\ store' = store /\ made' = made
         /\ req[p] \in Locals /\ req[p].call \in Calls /\ Op(p) \in {"Create", "Update"}
         /\ Pour(p) \in Review /\ CallOK(p) /\ WritesOK(p) /\ LockOK(p) /\ MixOK(p) /\ RemovedOK(p)
         /\ ShowOK(p)
         /\ Op(p) = "Create" => owner[Pour(p)] = None /\ rows[Pour(p)] = {} /\ req[p].removed = {}
         /\ Listing(p) \in SUBSET PhotoRow
         /\ \A x \in Listing(p) : x.by = p /\ x.key \in Named(req[p].call)
         /\ Listing(p) # {} => /\ req[p].call.keys # None
                               /\ Op(p) = "Update" =>
                                    req[p].lock \in {"share", "update"} /\ owner[Pour(p)] # None
         /\ rows'[Pour(p)] = (rows[Pour(p)] \ req[p].gone) \cup Listing(p)
         /\ rows' \in [Review -> SUBSET PhotoRow]
         /\ \A r \in Review : r # Pour(p) => rows'[r] = rows[r]
<1>1. At(p, "commit") /\ req[p].pc = "commit" /\ Here(p) /\ ~At(p, "done")
      /\ store' = store /\ made' = made
  BY DEF Commit, Here, At
<1>2. /\ req[p] \in Locals /\ req[p].call \in Calls /\ Op(p) \in {"Create", "Update"}
      /\ Pour(p) \in Review /\ CallOK(p) /\ WritesOK(p) /\ LockOK(p) /\ MixOK(p) /\ RemovedOK(p)
      /\ ShowOK(p)
  BY <1>1, AtWork, Stages
<1>3. ASSUME Op(p) = "Create"
      PROVE  owner[Pour(p)] = None /\ rows[Pour(p)] = {} /\ req[p].removed = {}
  <2>1. owner[Pour(p)] = None
    BY <1>1, <1>2, <1>3 DEF LockOK, Unborn
  <2>2. req[p].removed = {}
    BY <1>1, <1>2, <1>3 DEF WritesOK
  <2> QED
    BY <1>2, <2>1, <2>2 DEF Inv, Tables
<1>4. req[p].call.keys # None => req[p].call.keys \in Seq(Key) /\ Named(req[p].call) = Listed(req[p].call.keys)
  BY <1>2, CallIs, NamedIs DEF Op
<1>5. Listing(p) \in SUBSET PhotoRow /\ \A x \in Listing(p) : x.by = p /\ x.key \in Named(req[p].call)
  BY <1>4, RowsAre DEF Listing
<1>6. req[p].fresh = Listing(p)
  BY <1>1, <1>2 DEF WritesOK
<1>7. ASSUME Listing(p) # {}
      PROVE  /\ req[p].call.keys # None
             /\ Op(p) = "Update" => req[p].lock \in {"share", "update"} /\ owner[Pour(p)] # None
  <2>1. req[p].lock \in Lock /\ req[p].lock # None
    BY <1>1, <1>2, <1>6, <1>7 DEF LockOK, Locals
  <2> QED
    BY <1>1, <1>2, <1>7, <2>1 DEF LockOK, Listing, Lock, At
<1>8. Seen(p) = (rows[Pour(p)] \ req[p].gone) \cup Listing(p)
  BY <1>6 DEF Seen
<1>9. Seen(p) \in SUBSET PhotoRow
  BY <1>2, <1>5, <1>8, Typed
<1>10. rows' = [rows EXCEPT ![Pour(p)] = Seen(p)]
  BY DEF Commit
<1> QED
  BY <1>1, <1>2, <1>3, <1>5, <1>7, <1>8, <1>9, <1>10, Typed

\* The pour of a Create is there now; the others keep their owners.
LEMMA OwnerAtCommit ==
  ASSUME Inv, NEW p \in Request, Commit(p)
  PROVE  /\ owner' \in [Review -> User \cup {None}]
         /\ \A r \in Review : owner'[r] = owner[r] \/ (r = Pour(p) /\ Op(p) = "Create")
         /\ Op(p) = "Create" => owner'[Pour(p)] # None
         /\ Op(p) = "Update" => owner' = owner
         /\ serving' \in [Review -> Amount]
         /\ \A r \in Review : \/ serving'[r] = serving[r]
                              \/ /\ r = Pour(p) /\ Sets(req[p].call)
                                 /\ serving'[r] = Serving(req[p].call)
<1>1. req[p].call \in Calls /\ Op(p) \in {"Create", "Update"} /\ Pour(p) \in Review
  BY AtCommit
<1>2. req[p].call.user \in User /\ req[p].call.user # None
  BY <1>1, CallIs DEF Op
<1>3. owner' = IF Op(p) = "Create" THEN [owner EXCEPT ![Pour(p)] = req[p].call.user] ELSE owner
  BY DEF Commit
<1>4. serving' = serving
        \/ (Sets(req[p].call) /\ serving' = [serving EXCEPT ![Pour(p)] = Serving(req[p].call)])
  BY DEF Commit
<1>5. Serving(req[p].call) \in Amount
  BY <1>1, ServingIs DEF Op
<1> QED
  BY <1>1, <1>2, <1>3, <1>4, <1>5, Typed

\* Where p goes: to its objects or its answer, or to an error when that of COMMIT is lost.
LEMMA AfterCommitIs ==
  ASSUME Inv, NEW p \in Request, Commit(p)
  PROVE  \E l \in Locals :
           /\ req' = [req EXCEPT ![p] = l]
           /\ l.call = req[p].call /\ l.review = req[p].review /\ l.key = req[p].key
           /\ l.lock = None /\ l.targets = {} /\ l.gone = {} /\ l.fresh = {}
           /\ \/ l.pc = AfterCommit(p) /\ l.removed = req[p].removed
              \/ l.pc = "done" /\ l.status = 500 /\ l.removed = {}
<1>1. req[p] \in Locals /\ req[p].removed \in SUBSET Key
  BY AtCommit DEF Locals
<1> DEFINE d == RolledBack(req[p])
<1>2. /\ d \in Locals
      /\ d.call = req[p].call /\ d.review = req[p].review /\ d.key = req[p].key
      /\ d.lock = None /\ d.targets = {} /\ d.gone = {} /\ d.fresh = {} /\ d.removed = {}
  BY <1>1, RolledBackIs
<1>3. \/ req' = [req EXCEPT ![p] = [[d EXCEPT !.removed = req[p].removed] EXCEPT !.pc = AfterCommit(p)]]
      \/ req' = [req EXCEPT ![p] = Done(d, 500)]
  BY Typed DEF Commit
<1> HIDE DEF d
<1>4. CASE req' = [req EXCEPT ![p] = [[d EXCEPT !.removed = req[p].removed] EXCEPT !.pc = AfterCommit(p)]]
  <2> DEFINE b == [d EXCEPT !.removed = req[p].removed]
             l == [b EXCEPT !.pc = AfterCommit(p)]
  <2>1. b \in Locals
    BY <1>1, <1>2, Writes, Zenon
  <2>2. /\ b.removed = req[p].removed /\ b.call = d.call /\ b.review = d.review /\ b.key = d.key
        /\ b.lock = d.lock /\ b.targets = d.targets /\ b.gone = d.gone /\ b.fresh = d.fresh
    BY <1>2 DEF Locals
  <2>3. req' = [req EXCEPT ![p] = l]
    BY <1>4
  <2> HIDE DEF b
  <2>4. AfterCommit(p) \in Label
    BY DEF AfterCommit, Label
  <2>5. l \in Locals
    BY <2>1, <2>4, Writes, Zenon
  <2>6. /\ l.pc = AfterCommit(p)
        /\ l.removed = b.removed /\ l.call = b.call /\ l.review = b.review /\ l.key = b.key
        /\ l.lock = b.lock /\ l.targets = b.targets /\ l.gone = b.gone /\ l.fresh = b.fresh
    BY <2>1 DEF Locals
  <2> HIDE DEF l
  <2>7. /\ l.removed = req[p].removed
        /\ l.call = req[p].call /\ l.review = req[p].review /\ l.key = req[p].key
        /\ l.lock = None /\ l.targets = {} /\ l.gone = {} /\ l.fresh = {}
    BY <1>2, <2>2, <2>6
  <2> QED
    BY <2>3, <2>5, <2>6, <2>7, Zenon
<1>5. CASE req' = [req EXCEPT ![p] = Done(d, 500)]
  <2> DEFINE l == Done(d, 500)
  <2>1. /\ l \in Locals /\ l.pc = "done" /\ l.status = 500
        /\ l.call = d.call /\ l.review = d.review /\ l.key = d.key
        /\ l.lock = d.lock /\ l.targets = d.targets /\ l.gone = d.gone /\ l.fresh = d.fresh
        /\ l.removed = d.removed
    BY <1>2, DoneIs
  <2>2. req' = [req EXCEPT ![p] = l]
    BY <1>5
  <2> HIDE DEF l
  <2>3. /\ l.call = req[p].call /\ l.review = req[p].review /\ l.key = req[p].key
        /\ l.lock = None /\ l.targets = {} /\ l.gone = {} /\ l.fresh = {} /\ l.removed = {}
    BY <1>2, <2>1
  <2> QED
    BY <2>1, <2>2, <2>3, Zenon
<1> QED
  BY <1>3, <1>4, <1>5

\* What a commit makes of the tables.
LEMMA CommitTables ==
  ASSUME Inv, NEW p \in Request, Commit(p), NEW l, Goes(p, l),
         l.pc \in {"s3", "reload", "done"}
  PROVE  Tables' /\ ServingsAreWhole' /\ ListsMixOnlyWithoutColumns'
<1>1. Tables'
  <2>1. ASSUME NEW r \in Review
        PROVE  /\ r > made'.reviews => owner'[r] = None
               /\ rows'[r] # {} => owner'[r] # None
               /\ \A x \in rows'[r] : RowOK(r, x)'
    <3>1. /\ r > made.reviews => owner[r] = None
          /\ rows[r] # {} => owner[r] # None
          /\ \A x \in rows[r] : RowOK(r, x)'
      BY RowsSettled DEF Inv, Tables
    <3>2. made' = made
      BY AtCommit
    <3>3. CASE r # Pour(p)
      BY <3>1, <3>2, <3>3, AtCommit, OwnerAtCommit
    <3>4. CASE r = Pour(p)
      <4>1. r > made.reviews => Op(p) # "Create"
        BY <3>4, AtCommit, Typed DEF CallOK, Review
      <4>2. r > made.reviews => owner'[r] = None
        BY <3>1, <4>1, AtCommit, OwnerAtCommit
      <4>3. rows'[r] # {} => owner'[r] # None
        BY <3>1, <3>4, AtCommit, OwnerAtCommit
      <4>4. ASSUME NEW x \in Listing(p)
            PROVE  RowOK(r, x)'
        <5>1. x.by = p /\ x.key \in Named(req[p].call) /\ p # None
          BY AtCommit, Constants
        <5>2. /\ Here(p)' /\ Spent(p)' /\ Pour(p)' = r /\ req'[p].call = req[p].call
          BY <3>4, Settled DEF Goes, Spent
        <5> QED
          BY <5>1, <5>2 DEF RowOK
      <4>5. \A x \in rows'[r] : RowOK(r, x)'
        BY <3>1, <3>4, <4>4, AtCommit
      <4> QED
        BY <3>2, <4>2, <4>3, <4>5
    <3> QED
      BY <3>3, <3>4
  <2> QED
    BY <2>1 DEF Tables
<1>2. ServingsAreWhole'
  <2>1. ASSUME NEW r \in Review, serving'[r] # NoAmount
        PROVE  /\ serving'[r].size \in Sizes /\ serving'[r].count \in Counts
               /\ \E q \in Request : Pour(q) = r /\ Sets(req[q].call) /\ Serving(req[q].call) = serving'[r]
    <3>1. CASE serving'[r] = serving[r]
      BY <2>1, <3>1 DEF Inv, ServingsAreWhole
    <3>2. CASE r = Pour(p) /\ Sets(req[p].call) /\ serving'[r] = Serving(req[p].call)
      <4>1. Pour(p) # 0
        BY AtCommit DEF Review
      <4>2. Accepts(req[p].call) /\ req[p].call \in Calls /\ req[p].call.op \in {"Create", "Update"}
        BY <4>1, AtCommit DEF CallOK, Op
      <4> QED
        BY <2>1, <3>2, <4>2, ServingIs
    <3> QED
      BY <3>1, <3>2, OwnerAtCommit
  <2> QED
    BY <2>1, Settled DEF ServingsAreWhole
<1>3. ListsMixOnlyWithoutColumns'
  <2>1. ASSUME NEW r \in Review, NEW x \in rows'[r], NEW y \in rows'[r], x.by # y.by
        PROVE  /\ x.by \in Request /\ y.by \in Request
               /\ Op(x.by) = "Update" /\ Op(y.by) = "Update"
               /\ ~NamesColumns(req[x.by].call) \/ ~NamesColumns(req[y.by].call)
    <3>1. \A z \in rows[r] : RowOK(r, z)
      BY DEF Inv, Tables
    <3>2. CASE x \in rows[r] /\ y \in rows[r]
      BY <2>1, <3>1, <3>2 DEF Inv, ListsMixOnlyWithoutColumns, RowOK
    <3>3. CASE ~(x \in rows[r] /\ y \in rows[r])
      <4>1. r = Pour(p) /\ (x \in Listing(p) \/ y \in Listing(p))
        BY <3>3, AtCommit
      <4>2. /\ x \in rows[r] \ req[p].gone \/ x \in Listing(p)
            /\ y \in rows[r] \ req[p].gone \/ y \in Listing(p)
        BY <4>1, AtCommit
      <4>3. \A z \in Listing(p) : z.by = p
        BY AtCommit
      <4>4. \A z \in rows[r] \ req[p].gone : Late(z, p) /\ Op(p) = "Update"
        BY <4>1, AtCommit DEF MixOK
      <4> QED
        BY <2>1, <4>1, <4>2, <4>3, <4>4 DEF Late
    <3> QED
      BY <3>2, <3>3
  <2>2. \A q \in Request : q # None
    BY Constants
  <2> QED
    BY <2>1, <2>2, Settled DEF ListsMixOnlyWithoutColumns
<1> QED
  BY <1>1, <1>2, <1>3

\* p puts no key there that somebody may delete: it is itself a source of what it puts.
LEMMA CommitPuts ==
  ASSUME Inv, NEW p \in Request, Commit(p), NEW k, AllSpent(k), NEW r \in Review
  PROVE  \A x \in rows'[r] : x.key = k => x \in rows[r]
<1>1. k \notin Named(req[p].call)
  BY AtCommit DEF AllSpent, Sources, Spent, Here, At
<1> QED
  BY <1>1, AtCommit

LEMMA CommitOthers ==
  ASSUME Inv, NEW p \in Request, Commit(p), NEW l, Goes(p, l), NEW q \in Request \ {p}
  PROVE  LockOK(q)' /\ MixOK(q)' /\ RemovedOK(q)'
<1>1. /\ req'[q] = req[q] /\ LockOK(q) /\ MixOK(q) /\ RemovedOK(q) /\ PairOK(p, q) /\ CallOK(q)
      /\ Pour(q)' = Pour(q) /\ Op(q)' = Op(q) /\ req[q] \in Locals /\ made' = made
  BY Settled, Typed, AtCommit DEF Goes, Inv
<1>2. RemovedOK(q)'
  <2>1. ASSUME NEW k \in req[q].removed
        PROVE  /\ Deletes(q, k)'
               /\ Lone(k)' =>
                    /\ AllSpent(k)'
                    /\ At(q, "clearing") => \A x \in rows'[Pour(q)] : x.key = k => x \in req[q].targets
                    /\ At(q, "attach") \/ At(q, "commit") =>
                         \A x \in rows'[Pour(q)] : x.key = k => x \in req[q].gone
                    /\ At(q, "s3") => NoRows(k)'
    <3>1. Deletes(q, k)'
      BY <1>1, SourcesSettled DEF RemovedOK
    <3>2. ASSUME Lone(k)'
          PROVE  /\ AllSpent(k)'
                 /\ At(q, "clearing") => \A x \in rows'[Pour(q)] : x.key = k => x \in req[q].targets
                 /\ At(q, "attach") \/ At(q, "commit") =>
                      \A x \in rows'[Pour(q)] : x.key = k => x \in req[q].gone
                 /\ At(q, "s3") => NoRows(k)'
      <4>1. Lone(k) /\ AllSpent(k) /\ AllSpent(k)'
        BY <1>1, <3>2, SourcesSettled DEF RemovedOK
      <4>2. \A r \in Review : \A x \in rows'[r] : x.key = k => x \in rows[r]
        BY <4>1, CommitPuts
      <4>3. NoRows(k) => NoRows(k)'
        BY <4>2 DEF NoRows, KeysOf
      <4>4. At(q, "clearing") \/ At(q, "attach") \/ At(q, "commit") => Pour(q) \in Review
        <5>1. SUFFICES ASSUME At(q, "clearing") \/ At(q, "attach") \/ At(q, "commit")
                       PROVE  Pour(q) \in Review
          OBVIOUS
        <5>2. Here(q) /\ ~At(q, "done") /\ Op(q) # "Upload"
          BY <5>1, Stages DEF Here, At
        <5> QED
          BY <5>2, AtWork
      <4> QED
        BY <1>1, <4>1, <4>2, <4>3, <4>4 DEF RemovedOK
    <3> QED
      BY <3>1, <3>2
  <2> QED
    BY <1>1, <2>1 DEF RemovedOK, At
<1>3. CASE Pour(q) \notin Review
  <2>1. At(q, "idle") \/ At(q, "done") \/ At(q, "put")
    <3>1. SUFFICES ASSUME Here(q), ~At(q, "done") PROVE At(q, "put")
      BY DEF Here
    <3>2. Op(q) = "Upload" /\ req[q].pc \in Stage(Op(q))
      BY <1>3, <3>1, AtWork
    <3> QED
      BY <3>2 DEF Stage, At
  <2>2. req[q].lock = None
    BY <1>1, <2>1 DEF LockOK, Holding, Editing, Locals, Lock, At
  <2> QED
    BY <1>1, <1>2, <2>1, <2>2, Constants DEF LockOK, MixOK, Holding, Editing, Unborn, At
<1>4. CASE Pour(q) \in Review /\ Pour(q) # Pour(p)
  <2>1. owner'[Pour(q)] = owner[Pour(q)] /\ rows'[Pour(q)] = rows[Pour(q)]
    BY <1>4, AtCommit, OwnerAtCommit
  <2>2. LockOK(q)'
    BY <1>1, <2>1 DEF LockOK, Holding, Editing, Unborn, At
  <2>3. MixOK(q)'
    BY <1>1, <2>1, RowsSettled DEF MixOK, At
  <2> QED
    BY <1>2, <2>2, <2>3
<1>5. CASE Pour(q) \in Review /\ Pour(q) = Pour(p)
  <2>1. CASE Op(p) = "Create"
    <3>1. Unborn(p) /\ req[p].lock = "delete" /\ Pour(p) # 0 /\ Here(p)
      BY <2>1, AtCommit DEF Unborn, LockOK, Review
    <3>2. req[q].lock = None /\ ~Editing(q) /\ ~(Here(q) /\ Op(q) = "Create")
      BY <1>1, <1>5, <2>1, <3>1 DEF PairOK
    <3>3. ~Unborn(q)
      BY <3>2, Stages DEF Unborn, Here, At
    <3>4. ~At(q, "cascade") /\ ~Holding(q)
      BY <1>1, <3>2, Constants DEF LockOK, Holding
    <3>5. LockOK(q)'
      BY <1>1, <3>2, <3>3, <3>4, Constants DEF LockOK, Holding, Editing, Unborn, At
    <3>6. ~At(q, "clearing") /\ ~(At(q, "attach") \/ (At(q, "commit") /\ Op(q) = "Update"))
      BY <3>2, Stages DEF Editing, Here, At
    <3>7. MixOK(q)'
      <4>1. At(q, "attach") => Op(q) = "Update"
        BY Stages DEF Here, At
      <4> QED
        BY <1>1, <3>6, <4>1 DEF MixOK, At
    <3> QED
      BY <1>2, <3>5, <3>7
  <2>2. CASE Op(p) = "Update"
    <3>1. owner' = owner
      BY <2>2, OwnerAtCommit
    <3>2. LockOK(q)'
      BY <1>1, <3>1 DEF LockOK, Holding, Editing, Unborn, At
    <3>3. ASSUME Holding(q), NEW x \in Listing(p)
          PROVE  Late(x, q)
      <4>1. x.by = p
        BY AtCommit
      <4>2. ASSUME NamesColumns(req[p].call), NamesColumns(req[q].call) PROVE FALSE
        <5>1. Holding(p) /\ owner[Pour(p)] # None
          BY <2>2, <3>3, AtCommit DEF Holding, Editing, At
        <5>2. req[p].lock = "update"
          BY <4>2, <5>1, AtCommit DEF LockOK
        <5>3. req[q].lock = "update"
          BY <1>1, <1>5, <3>3, <4>2, <5>1 DEF LockOK
        <5> QED
          BY <1>1, <1>5, <5>2, <5>3 DEF PairOK
      <4> QED
        BY <2>2, <4>1, <4>2 DEF Late
    <3>4. /\ At(q, "clearing") => Holding(q)
          /\ (At(q, "attach") \/ At(q, "commit")) /\ Op(q) = "Update" => Holding(q)
      BY Stages DEF Holding, Editing, Here, At
    <3>5. \A x \in rows'[Pour(q)] : x \in rows[Pour(q)] \/ x \in Listing(p)
      BY <1>5, AtCommit
    <3>6. MixOK(q)'
      <4>1. At(q, "clearing") => \A x \in rows'[Pour(q)] \ req[q].targets : Late(x, q)
        BY <1>1, <3>3, <3>4, <3>5 DEF MixOK
      <4>2. (At(q, "attach") \/ At(q, "commit")) /\ Op(q) = "Update" /\ req[q].call.keys # None =>
              \A x \in rows'[Pour(q)] \ req[q].gone : Late(x, q)
        BY <1>1, <3>3, <3>4, <3>5 DEF MixOK
      <4> QED
        BY <1>1, <4>1, <4>2, RowsSettled DEF MixOK, At
    <3> QED
      BY <1>2, <3>2, <3>6
  <2> QED
    BY <2>1, <2>2, AtCommit
<1> QED
  BY <1>3, <1>4, <1>5

LEMMA CommitInv ==
  ASSUME Inv, NEW p \in Request, Commit(p)
  PROVE  Inv'
<1>1. PICK l \in Locals :
        /\ req' = [req EXCEPT ![p] = l]
        /\ l.call = req[p].call /\ l.review = req[p].review /\ l.key = req[p].key
        /\ l.lock = None /\ l.targets = {} /\ l.gone = {} /\ l.fresh = {}
        /\ \/ l.pc = AfterCommit(p) /\ l.removed = req[p].removed
           \/ l.pc = "done" /\ l.status = 500 /\ l.removed = {}
  BY AfterCommitIs
<1>2. l.pc \in {"s3", "reload", "done"} /\ (l.pc = "done" => l.status = 500 /\ l.removed = {})
  BY <1>1 DEF AfterCommit
<1>3. Goes(p, l)
  BY <1>1, <1>2, AtCommit, GoesOn
<1>4. Op(p)' = Op(p) /\ Pour(p)' = Pour(p) /\ req'[p] = l /\ Pour(p) \in Review
  BY <1>3, Settled, AtCommit DEF Goes
<1>5. Tables' /\ ServingsAreWhole' /\ ListsMixOnlyWithoutColumns'
  BY <1>2, <1>3, CommitTables
<1>6. StoreOK'
  <2>1. ASSUME NEW k \in Key
        PROVE  /\ k \in Known' => k \in store \/ \E q \in Request : Deletes(q, k)'
               /\ Lone(k)' /\ Sources(k)' # {} /\ k \notin store => AllSpent(k)' /\ NoRows(k)'
    <3>1. /\ k \in Known' => k \in Known
          /\ Lone(k)' => Lone(k)
          /\ Sources(k)' = Sources(k)
          /\ AllSpent(k) => AllSpent(k)'
          /\ \A q \in Request : Deletes(q, k)' <=> Deletes(q, k)
      BY <1>2, <1>3, SourcesSettled
    <3>2. AllSpent(k) /\ NoRows(k) => NoRows(k)'
      BY CommitPuts DEF NoRows, KeysOf
    <3> QED
      BY <3>1, <3>2 DEF Inv, StoreOK
  <2> QED
    BY <2>1, AtCommit DEF StoreOK
<1>7. \A q \in Request \ {p} : LockOK(q)' /\ MixOK(q)' /\ RemovedOK(q)'
  BY <1>3, CommitOthers
<1>8. CASE l.pc = "done"
  <2>1. 0 \notin Review
    BY DEF Review
  <2>2. /\ CallOK(p)' /\ WritesOK(p)' /\ LockOK(p)' /\ MixOK(p)' /\ RemovedOK(p)' /\ ShowOK(p)'
        /\ \A q \in Request \ {p} : PairOK(p, q)' /\ PairOK(q, p)'
    BY <1>1, <1>2, <1>3, <1>4, <1>8, <2>1, AtCommit, EndKeeps
  <2> QED
    BY <1>3, <1>4, <1>5, <1>6, <1>7, <2>2, AtCommit, OwnerAtCommit, TablesMove
<1>9. CASE l.pc = AfterCommit(p) /\ l.removed = req[p].removed
  <2>1. l.pc \in Stage(Op(p)) /\ l.pc # "done" /\ (Op(p) = "Update" => l.pc = "s3")
    BY <1>9, AtCommit DEF AfterCommit, Stage
  <2>2. CallOK(p)'
    BY <1>3, <2>1, AtCommit, CallKeeps
  <2>3. WritesOK(p)' /\ LockOK(p)' /\ MixOK(p)'
    BY <1>1, <1>2, <1>4, <1>9, <2>1, AtCommit, Constants DEF WritesOK, LockOK, MixOK, Holding, Editing,
       Unborn, At
  <2>4. RemovedOK(p)'
    <3>1. ASSUME NEW k \in req[p].removed
          PROVE  Deletes(p, k)' /\ (Lone(k)' => AllSpent(k)' /\ NoRows(k)')
      <4>1. Deletes(p, k) /\ (Lone(k) => AllSpent(k))
        BY AtCommit DEF RemovedOK
      <4>2. ASSUME Lone(k) PROVE NoRows(k)'
        <5>1. \A x \in rows[Pour(p)] : x.key = k => x \in req[p].gone
          BY <4>2, AtCommit DEF RemovedOK
        <5>2. k \notin Named(req[p].call)
          BY <4>1 DEF Deletes
        <5>3. k \notin KeysOf(rows'[Pour(p)])
          BY <5>1, <5>2, AtCommit DEF KeysOf
        <5>4. \A r \in Review : r # Pour(p) => k \notin KeysOf(rows'[r])
          <6>1. \A r \in Review : r # Pour(p) => k \notin KeysOf(rows[r])
            BY <4>1, <4>2, LoneRows
          <6> QED
            BY <6>1, AtCommit DEF KeysOf
        <5> QED
          BY <5>3, <5>4 DEF NoRows
      <4> QED
        BY <1>3, <4>1, <4>2, SourcesSettled
    <3>2. /\ ~At(p, "clearing")' /\ ~At(p, "attach")' /\ ~At(p, "commit")'
          /\ req'[p].removed = req[p].removed
      BY <1>2, <1>4, <1>9 DEF At
    <3> QED
      BY <3>1, <3>2 DEF RemovedOK
  <2>5. ShowOK(p)'
    <3>1. \A q \in Request : (At(q, "idle") \/ Pour(q) # Pour(p))' => (At(q, "idle") \/ Pour(q) # Pour(p))
      BY <1>3, Settled DEF Here
    <3>2. ASSUME Op(p) = "Update", req[p].call.keys # None,
                 \A q \in Request \ {p} : At(q, "idle") \/ Pour(q) # Pour(p)
          PROVE  rows'[Pour(p)] = RowsOf(req[p].call.keys, p)
      <4>1. req[p].gone = rows[Pour(p)]
        BY <3>2, AtCommit DEF ShowOK
      <4>2. Listing(p) = RowsOf(req[p].call.keys, p)
        BY <3>2 DEF Listing
      <4>3. rows'[Pour(p)] = (rows[Pour(p)] \ rows[Pour(p)]) \cup Listing(p)
        BY <4>1, AtCommit
      <4> QED
        BY <4>2, <4>3
    <3> QED
      BY <1>1, <1>2, <1>4, <2>1, <3>1, <3>2 DEF ShowOK, At
  <2>6. \A q \in Request \ {p} : PairOK(p, q)' /\ PairOK(q, p)'
    <3>1. ~Editing(p)' /\ ~Unborn(p)'
      BY <1>2, <1>4 DEF Editing, Unborn, At
    <3> QED
      BY <1>1, <1>3, <3>1, PairsKeep
  <2> QED
    BY <1>3, <1>4, <1>5, <1>6, <1>7, <2>2, <2>3, <2>4, <2>5, <2>6, AtCommit, OwnerAtCommit, TablesMove
<1> QED
  BY <1>1, <1>8, <1>9

-----------------------------------------------------------------------------
(* Failures *)

LEMMA FailureInv ==
  ASSUME Inv, NEW p \in Request, Cancel(p) \/ Kill(p) \/ DeadlockVictim(p)
  PROVE  Inv'
<1>1. FailureCode(p) \in {404, 500}
  BY DEF FailureCode
<1>2. CASE Cancel(p)
  BY <1>1, <1>2, AbortInv DEF Cancel, Here
<1>3. CASE Kill(p)
  BY <1>3, AbortInv DEF Kill, Here, At
<1>4. CASE DeadlockVictim(p)
  <2>1. Here(p) /\ ~At(p, "done")
    BY <1>4 DEF DeadlockVictim, Conflicts, Here, At
  <2> QED
    BY <1>1, <1>4, <2>1, AbortInv DEF DeadlockVictim
<1> QED
  BY <1>2, <1>3, <1>4

-----------------------------------------------------------------------------
(* Arrivals *)

\* p, which was not there, arrives with call c as l; a Create takes a number of its own.
Arrives(p, c, l) ==
  /\ At(p, "idle") /\ c \in Calls /\ Named(c) \subseteq Known
  /\ req' \in [Request -> Locals] /\ req'[p] = l /\ \A q \in Request \ {p} : req'[q] = req[q]
  /\ UNCHANGED <<owner, rows, serving, store>>
  /\ made' \in [reviews: 0..MaxReview, keys: 0..MaxKey] /\ made.reviews <= made'.reviews
  /\ l.call = c /\ l.lock = None
  /\ l.targets = {} /\ l.gone = {} /\ l.fresh = {} /\ l.removed = {}
  /\ c.op # "Upload" => l.key = 0
  /\ \/ l.pc = "done" /\ l.status = 400 /\ l.review = 0
     \/ l.pc = "put" /\ c.op = "Upload" /\ l.review = 0 /\ l.key \in Key
     \/ /\ l.pc = "insert" /\ c.op = "Create" /\ Accepts(c)
        /\ l.review = made.reviews + 1 /\ made'.reviews = l.review
     \/ l.pc = "own" /\ c.op = "Update" /\ Accepts(c) /\ l.review \in Review
     \/ l.pc = "oldKeys" /\ c.op = "Delete" /\ Accepts(c) /\ l.review \in Review

\* What an arrival adds to where keys come from, and that it takes nothing away.
LEMMA SourcesGrow ==
  ASSUME Inv, NEW p \in Request, NEW c, NEW l, Arrives(p, c, l), NEW k
  PROVE  /\ Known' = Known
         /\ p \notin Sources(k)
         /\ Sources(k)' = Sources(k) \cup (IF k \in Named(c) THEN {p} ELSE {})
         /\ \A q \in Request : Deletes(q, k) => Deletes(q, k)'
         /\ Lone(k)' => Lone(k)
         /\ Lone(k)' /\ Sources(k) # {} => k \notin Named(c) /\ (AllSpent(k) => AllSpent(k)')
<1>1. /\ req[p].pc = "idle" /\ req'[p].pc # "idle" /\ req'[p].call = c
      /\ req'[p].pc = "done" => req'[p].status = 400
      /\ \A q \in Request : q # p => req'[q] = req[q]
  BY DEF Arrives, At
<1>2. Known' = Known
  BY <1>1 DEF Known, At
<1>3. p \notin Sources(k)
  BY <1>1, Constants DEF Sources, At
<1>4. Sources(k)' = Sources(k) \cup (IF k \in Named(c) THEN {p} ELSE {})
  <2>1. \A a : a \in Sources(k)' <=> a \in Sources(k) \/ (a = p /\ k \in Named(c))
    BY <1>1 DEF Sources, At
  <2> QED
    BY <2>1
<1>5. \A a \in Sources(k) : Home(a)' = Home(a) /\ (a \in Request /\ Spent(a) => Spent(a)')
  BY <1>1, <1>3 DEF Home, Pour, Spent
<1>6. \A q \in Request : Deletes(q, k) => Deletes(q, k)'
  <2>1. SUFFICES ASSUME NEW q \in Request, Deletes(q, k) PROVE Deletes(q, k)'
    OBVIOUS
  <2>2. q # p /\ req'[q] = req[q]
    BY <1>1, <2>1 DEF Deletes, Here, At
  <2> QED
    BY <1>4, <1>5, <2>1, <2>2 DEF Deletes, Here, At, Pour
<1>7. Lone(k)' => Lone(k)
  BY <1>4 DEF Lone
<1>8. ASSUME Lone(k)', Sources(k) # {}
      PROVE  k \notin Named(c) /\ (AllSpent(k) => AllSpent(k)')
  <2>1. k \notin Named(c)
    BY <1>3, <1>4, <1>8 DEF Lone
  <2>2. Sources(k)' = Sources(k)
    BY <1>4, <2>1
  <2> QED
    BY <1>5, <2>1, <2>2 DEF AllSpent
<1> QED
  BY <1>2, <1>3, <1>4, <1>6, <1>7, <1>8

LEMMA ArrivalTables ==
  ASSUME Inv, NEW p \in Request, NEW c, NEW l, Arrives(p, c, l)
  PROVE  TypeOK' /\ Tables' /\ StoreOK' /\ ServingsAreWhole' /\ ListsMixOnlyWithoutColumns'
<1>1. /\ owner' = owner /\ rows' = rows /\ serving' = serving /\ store' = store
      /\ made.reviews <= made'.reviews /\ made.reviews \in Int /\ made'.reviews \in Int
      /\ \A q \in Request : q # p => req'[q] = req[q]
  BY Typed DEF Arrives
<1>2. TypeOK'
  BY <1>1, Typed DEF TypeOK, Arrives, Locals, Lock
<1>3. \A r \in Review : \A x \in rows[r] :
        RowOK(r, x) /\ (x.by # None => x.by \in Request /\ req'[x.by] = req[x.by])
  <2>1. SUFFICES ASSUME NEW r \in Review, NEW x \in rows[r]
                 PROVE  RowOK(r, x) /\ (x.by # None => x.by \in Request /\ req'[x.by] = req[x.by])
    OBVIOUS
  <2>2. RowOK(r, x)
    BY DEF Inv, Tables
  <2>3. ~Here(p)
    BY DEF Arrives, Here
  <2> QED
    BY <1>1, <2>2, <2>3 DEF RowOK
<1>4. Tables'
  <2>1. \A r \in Review : r > made'.reviews => r > made.reviews
    BY <1>1 DEF Review
  <2>2. \A r \in Review : \A x \in rows[r] : RowOK(r, x)'
    BY <1>3 DEF RowOK, Here, Spent, At, Pour
  <2> QED
    BY <1>1, <2>1, <2>2 DEF Inv, Tables
<1>5. StoreOK'
  <2>1. ASSUME NEW k \in Key
        PROVE  /\ k \in Known' => k \in store \/ \E q \in Request : Deletes(q, k)'
               /\ Lone(k)' /\ Sources(k)' # {} /\ k \notin store => AllSpent(k)' /\ NoRows(k)'
    <3>1. k \in Known' => k \in store \/ \E q \in Request : Deletes(q, k)'
      BY SourcesGrow DEF Inv, StoreOK
    <3>2. ASSUME Lone(k)', Sources(k)' # {}, k \notin store
          PROVE  AllSpent(k)' /\ NoRows(k)'
      <4>1. Sources(k) # {}
        <5>1. CASE k \in Named(c)
          <6>1. k \in Known
            BY <5>1 DEF Arrives
          <6> QED
            BY <3>2, <6>1 DEF Inv, StoreOK, Deletes
        <5>2. CASE k \notin Named(c)
          BY <3>2, <5>2, SourcesGrow
        <5> QED
          BY <5>1, <5>2
      <4>2. Lone(k) /\ (AllSpent(k) => AllSpent(k)')
        BY <3>2, <4>1, SourcesGrow
      <4>3. NoRows(k) => NoRows(k)'
        BY <1>1 DEF NoRows
      <4> QED
        BY <3>2, <4>1, <4>2, <4>3 DEF Inv, StoreOK
    <3> QED
      BY <3>1, <3>2
  <2> QED
    BY <1>1, <2>1 DEF StoreOK
<1>6. ServingsAreWhole'
  <2>1. Pour(p) = 0 /\ 0 \notin Review
    BY DEF Inv, CallOK, Arrives, Review
  <2> QED
    BY <1>1, <2>1 DEF Inv, ServingsAreWhole, Pour
<1>7. ListsMixOnlyWithoutColumns'
  BY <1>1, <1>3 DEF Inv, ListsMixOnlyWithoutColumns, Op
<1> QED
  BY <1>2, <1>4, <1>5, <1>6, <1>7

LEMMA ArrivalOthers ==
  ASSUME Inv, NEW p \in Request, NEW c, NEW l, Arrives(p, c, l), NEW q \in Request \ {p}
  PROVE  /\ CallOK(q)' /\ WritesOK(q)' /\ LockOK(q)' /\ MixOK(q)' /\ RemovedOK(q)'
         /\ Here(q)' => ShowOK(q)'
<1>1. /\ owner' = owner /\ rows' = rows /\ req'[q] = req[q] /\ req[q] \in Locals
      /\ made.reviews <= made'.reviews /\ made.reviews \in Int /\ made'.reviews \in Int
      /\ CallOK(q) /\ WritesOK(q) /\ LockOK(q) /\ MixOK(q) /\ RemovedOK(q) /\ (Here(q) => ShowOK(q))
  BY Typed DEF Arrives, Inv
<1>2. Pour(q) \in Int
  BY <1>1 DEF Locals, Pour, Review
<1>3. CallOK(q)'
  <2>1. Known' = Known
    BY SourcesGrow
  <2>2. \A n \in Int : n <= made.reviews => n <= made'.reviews
    BY <1>1
  <2> QED
    BY <1>1, <1>2, <2>1, <2>2 DEF CallOK, Here, At, Op, Pour
<1>4. WritesOK(q)'
  BY <1>1 DEF WritesOK, Listing, At, Op
<1>5. LockOK(q)'
  <2>1. \A n \in Int : n <= made.reviews => n <= made'.reviews
    BY <1>1
  <2> QED
    BY <1>1, <1>2, <2>1 DEF LockOK, Holding, Editing, Unborn, At, Op, Pour
<1>6. MixOK(q)'
  <2>1. At(q, "clearing") \/ At(q, "attach") \/ At(q, "commit") => Pour(q) \in Review
    <3>1. SUFFICES ASSUME At(q, "clearing") \/ At(q, "attach") \/ At(q, "commit")
                   PROVE  Pour(q) \in Review
      OBVIOUS
    <3>2. Here(q) /\ ~At(q, "done") /\ Op(q) # "Upload"
      BY <3>1, Stages DEF Here, At
    <3> QED
      BY <3>2, AtWork
  <2>2. ~Here(p) /\ \A i \in Request : i # p => req'[i] = req[i]
    BY DEF Arrives, Here
  <2>3. \A r \in Review : \A x \in rows[r] : x.by # p
    BY <2>2, Constants DEF Inv, Tables, RowOK
  <2>4. \A r \in Review : \A x \in rows[r] : Late(x, q) => Late(x, q)'
    BY <1>1, <2>2, <2>3 DEF Late, Op
  <2> QED
    BY <1>1, <2>1, <2>4 DEF MixOK, At, Op, Pour
<1>7. RemovedOK(q)'
  <2>1. ASSUME NEW k \in req[q].removed
        PROVE  Deletes(q, k)' /\ (Lone(k)' => Lone(k) /\ (AllSpent(k) => AllSpent(k)'))
    <3>1. Deletes(q, k) /\ Sources(k) # {}
      BY <1>1 DEF RemovedOK, Deletes
    <3> QED
      BY <3>1, SourcesGrow
  <2> QED
    BY <1>1, <2>1 DEF RemovedOK, NoRows, At, Pour
<1>8. ASSUME Here(q)' PROVE ShowOK(q)'
  <2>1. Here(q) /\ ShowOK(q)
    BY <1>1, <1>8 DEF Here, At
  <2>2. \A i \in Request : (At(i, "idle") \/ Pour(i) # Pour(q))' => (At(i, "idle") \/ Pour(i) # Pour(q))
    BY DEF Arrives, At, Pour
  <2> QED
    BY <1>1, <2>1, <2>2 DEF ShowOK, At, Op, Pour
<1> QED
  BY <1>3, <1>4, <1>5, <1>6, <1>7, <1>8

LEMMA ArrivesInv ==
  ASSUME Inv, NEW p \in Request, NEW c, NEW l, Arrives(p, c, l)
  PROVE  Inv'
<1>1. TypeOK' /\ Tables' /\ StoreOK' /\ ServingsAreWhole' /\ ListsMixOnlyWithoutColumns'
  BY ArrivalTables
<1>2. /\ c \in Calls /\ c.op \in {"Upload", "Create", "Update", "Delete"}
      /\ owner' = owner /\ rows' = rows /\ req'[p] = l /\ l.call = c
      /\ made.reviews \in Int /\ made'.reviews \in Int /\ made'.reviews \in 0..MaxReview
      /\ made.reviews \in 0..MaxReview
  BY CallIs, Typed DEF Arrives
<1>3. 0 \notin Review /\ MaxReview \in Nat
  BY Constants DEF Review
<1>4. CallOK(p)'
  <2>1. Named(c) \subseteq Known'
    BY SourcesGrow DEF Arrives
  <2>2. made.reviews + 1 # 0
    BY <1>2
  <2>3. /\ req'[p].call \in Calls /\ l.pc # "idle"
        /\ l.pc = "done" \/ l.pc \in Stage(c.op)
        /\ c.op # "Upload" => l.key = 0
        /\ l.pc = "put" => l.key \in Key
    BY <1>2 DEF Arrives, Stage
  <2>4. /\ l.review = 0 => c.op = "Upload" \/ (l.pc = "done" /\ l.status = 400)
        /\ l.review # 0 => c.op # "Upload" /\ Accepts(c)
    BY <1>3, <2>2 DEF Arrives
  <2>5. c.op = "Create" => l.review <= made'.reviews
    BY <1>2 DEF Arrives
  <2> QED
    BY <1>2, <2>1, <2>3, <2>4, <2>5 DEF CallOK, Here, At, Op, Pour
<1>5. WritesOK(p)' /\ MixOK(p)' /\ RemovedOK(p)' /\ ShowOK(p)'
  BY <1>2 DEF Arrives, WritesOK, MixOK, RemovedOK, ShowOK, At, Op
<1>6. LockOK(p)'
  <2>1. l.pc = "insert" => owner[l.review] = None
    <3>1. SUFFICES ASSUME l.pc = "insert" PROVE owner[l.review] = None
      OBVIOUS
    <3>2. l.review = made.reviews + 1 /\ l.review = made'.reviews
      BY <3>1 DEF Arrives
    <3>3. l.review \in Review /\ l.review > made.reviews
      BY <1>2, <1>3, <3>2 DEF Review
    <3> QED
      BY <3>3 DEF Inv, Tables
  <2>2. l.pc \in {"done", "put", "insert", "own"} \/ (l.pc = "oldKeys" /\ c.op = "Delete")
    BY DEF Arrives
  <2>3. l.lock = None
    BY DEF Arrives
  <2> QED
    BY <1>2, <2>1, <2>2, <2>3, Constants DEF LockOK, Holding, Editing, Unborn, At, Op, Pour
<1>7. \A i, j \in Request : i # j => PairOK(i, j)'
  <2>1. ASSUME NEW q \in Request \ {p}
        PROVE  PairOK(p, q)' /\ PairOK(q, p)'
    <3>1. req'[q] = req[q] /\ CallOK(q) /\ LockOK(q) /\ req[q] \in Locals /\ l.lock = None
      BY Typed DEF Arrives, Inv
    <3>2. Pour(q) \in Int
      BY <3>1 DEF Locals, Pour, Review
    <3>3. ~Editing(p)'
      BY <1>2 DEF Arrives, Editing, Op
    <3>4. Unborn(p)' \/ (c.op = "Create" /\ l.review # 0) => c.op = "Create" /\ l.review = made.reviews + 1
      BY <1>2 DEF Arrives, Unborn, At, Op
    <3>5. l.review = made.reviews + 1 /\ l.review = Pour(q) =>
            ~Editing(q) /\ ~(Here(q) /\ Op(q) = "Create")
      BY <1>2, <3>1, <3>2 DEF CallOK, LockOK
    <3>6. (Editing(q)' <=> Editing(q)) /\ (Here(q)' <=> Here(q)) /\ Op(q)' = Op(q) /\ Pour(q)' = Pour(q)
      BY <3>1 DEF Editing, Here, At, Op, Pour
    <3>7. Pour(p)' = l.review /\ Op(p)' = c.op /\ req'[p].lock = None
      BY <1>2, <3>1 DEF Op, Pour
    <3> QED
      BY <3>1, <3>3, <3>4, <3>5, <3>6, <3>7, Constants DEF PairOK
  <2>2. SUFFICES ASSUME NEW i \in Request, NEW j \in Request, i # j PROVE PairOK(i, j)'
    OBVIOUS
  <2>3. CASE i = p \/ j = p
    BY <2>1, <2>2, <2>3
  <2>4. CASE i # p /\ j # p
    <3>1. req'[i] = req[i] /\ req'[j] = req[j] /\ PairOK(i, j)
      BY <2>2, <2>4 DEF Arrives, Inv
    <3> QED
      BY <3>1 DEF PairOK, Unborn, Editing, Here, At, Op, Pour
  <2> QED
    BY <2>3, <2>4
<1> QED
  BY <1>1, <1>4, <1>5, <1>6, <1>7, ArrivalOthers DEF Inv

LEMMA ReceiveInv ==
  ASSUME Inv, NEW p \in Request, Receive(p)
  PROVE  Inv'
<1>1. PICK c \in Calls :
        /\ Named(c) \subseteq Known /\ Accepts(c)
        /\ c.op = "Create" => made.reviews < MaxReview
        /\ c.op = "Upload" => made.keys < MaxKey
        /\ made' = [reviews |-> made.reviews + (IF c.op = "Create" THEN 1 ELSE 0),
                    keys |-> made.keys + (IF c.op = "Upload" THEN 1 ELSE 0)]
        /\ req' = [req EXCEPT ![p] =
                     [Idle EXCEPT !.pc = Entry(c), !.call = c,
                                  !.key = IF c.op = "Upload" THEN made'.keys ELSE 0,
                                  !.review = CASE c.op = "Create" -> made'.reviews
                                               [] c.op = "Upload" -> 0
                                               [] OTHER -> c.review]]
  BY DEF Receive
<1>2. At(p, "idle") /\ UNCHANGED <<owner, rows, serving, store>>
  BY DEF Receive
<1>3. /\ c.op \in {"Upload", "Create", "Update", "Delete"} /\ c \in Call
      /\ c.op \in {"Update", "Delete"} => c.review \in Review
      /\ made.reviews \in 0..MaxReview /\ made.keys \in 0..MaxKey
      /\ MaxReview \in Nat /\ MaxKey \in Nat
  BY CallIs, Typed, Constants
<1> DEFINE key == IF c.op = "Upload" THEN made'.keys ELSE 0
           review == CASE c.op = "Create" -> made'.reviews
                       [] c.op = "Upload" -> 0
                       [] OTHER -> c.review
           l == [Idle EXCEPT !.pc = Entry(c), !.call = c, !.key = key, !.review = review]
<1>4. /\ made' \in [reviews: 0..MaxReview, keys: 0..MaxKey] /\ made.reviews <= made'.reviews
      /\ c.op = "Create" => made'.reviews = made.reviews + 1 /\ made'.reviews \in Review
      /\ c.op = "Upload" => made'.keys \in Key
  BY <1>1, <1>3 DEF Review, Key
<1>5. /\ c.op = "Upload" => review = 0
      /\ c.op = "Create" => review = made'.reviews
      /\ c.op \in {"Update", "Delete"} => review = c.review
  OBVIOUS
<1>6. /\ c.op = "Upload" => key \in Key
      /\ c.op # "Upload" => key = 0
  BY <1>4
<1>7. review \in Review \cup {0} /\ key \in Key \cup {0}
  BY <1>3, <1>4, <1>5, <1>6
<1>8. req' = [req EXCEPT ![p] = l]
  BY <1>1
<1> HIDE DEF key, review
<1>9. /\ c.op = "Upload" => Entry(c) = "put"
      /\ c.op = "Create" => Entry(c) = "insert"
      /\ c.op = "Update" => Entry(c) = "own"
      /\ c.op = "Delete" => Entry(c) = "oldKeys"
  BY DEF Entry
<1>10. /\ l.pc = Entry(c) /\ l.call = c /\ l.key = key /\ l.review = review /\ l.lock = None
       /\ l.targets = {} /\ l.gone = {} /\ l.fresh = {} /\ l.removed = {}
  BY DEF Idle
<1>11. l \in Locals
  <2>1. Entry(c) \in Label
    BY <1>3, <1>9 DEF Label
  <2> QED
    BY <1>3, <1>7, <2>1 DEF Idle, Locals, Lock
<1> HIDE DEF l
<1>12. Arrives(p, c, l)
  <2>1. req' \in [Request -> Locals] /\ req'[p] = l /\ \A q \in Request \ {p} : req'[q] = req[q]
    BY <1>8, <1>11, Typed
  <2>2. \/ l.pc = "put" /\ c.op = "Upload" /\ l.review = 0 /\ l.key \in Key
        \/ /\ l.pc = "insert" /\ c.op = "Create" /\ Accepts(c)
           /\ l.review = made.reviews + 1 /\ made'.reviews = l.review
        \/ l.pc = "own" /\ c.op = "Update" /\ Accepts(c) /\ l.review \in Review
        \/ l.pc = "oldKeys" /\ c.op = "Delete" /\ Accepts(c) /\ l.review \in Review
    BY <1>1, <1>3, <1>4, <1>5, <1>6, <1>9, <1>10
  <2> QED
    BY <1>1, <1>2, <1>4, <1>6, <1>10, <2>1, <2>2 DEF Arrives
<1> QED
  BY <1>12, ArrivesInv

LEMMA RefuseInv ==
  ASSUME Inv, NEW p \in Request, Refuse(p)
  PROVE  Inv'
<1>1. PICK c \in Calls :
        Named(c) \subseteq Known /\ req' = [req EXCEPT ![p] = Done([Idle EXCEPT !.call = c], 400)]
  BY DEF Refuse
<1>2. At(p, "idle") /\ UNCHANGED <<owner, rows, serving, store>> /\ made' = made
  BY DEF Refuse
<1> DEFINE l == Done([Idle EXCEPT !.call = c], 400)
<1>3. /\ l \in Locals /\ l.pc = "done" /\ l.status = 400 /\ l.call = c /\ l.key = 0 /\ l.review = 0
      /\ l.lock = None /\ l.targets = {} /\ l.gone = {} /\ l.fresh = {} /\ l.removed = {}
  <2> DEFINE d == [Idle EXCEPT !.call = c]
  <2>1. c \in Call
    BY CallIs
  <2>2. /\ d.call = c /\ d.key = 0 /\ d.review = 0 /\ d.lock = None
        /\ d.targets = {} /\ d.gone = {} /\ d.fresh = {} /\ d.removed = {}
    BY DEF Idle
  <2>3. d \in Locals
    BY <2>1 DEF Idle, Locals, Label, Lock
  <2> HIDE DEF d
  <2>4. /\ Done(d, 400) \in Locals /\ Done(d, 400).pc = "done" /\ Done(d, 400).status = 400
        /\ Done(d, 400).call = d.call /\ Done(d, 400).review = d.review /\ Done(d, 400).key = d.key
        /\ Done(d, 400).lock = d.lock /\ Done(d, 400).targets = d.targets /\ Done(d, 400).gone = d.gone
        /\ Done(d, 400).fresh = d.fresh /\ Done(d, 400).removed = d.removed
    BY <2>3, DoneIs
  <2> QED
    BY <2>2, <2>4 DEF d
<1>4. req' = [req EXCEPT ![p] = l]
  BY <1>1
<1> HIDE DEF l
<1>5. Arrives(p, c, l)
  <2>1. req' \in [Request -> Locals] /\ req'[p] = l /\ \A q \in Request \ {p} : req'[q] = req[q]
    BY <1>3, <1>4, Typed
  <2>2. made' \in [reviews: 0..MaxReview, keys: 0..MaxKey] /\ made.reviews <= made'.reviews
    BY <1>2, Typed
  <2> QED
    BY <1>1, <1>2, <1>3, <2>1, <2>2 DEF Arrives
<1> QED
  BY <1>5, ArrivesInv

-----------------------------------------------------------------------------
(* The whole *)

LEMMA StepInv ==
  ASSUME Inv, NEW p \in Request, Step(p)
  PROVE  Inv'
<1>1. CASE Create(p)
  BY <1>1, InsertPourInv DEF Create
<1>2. CASE Update(p)
  BY <1>2, CheckOwnerInv, UpdateColumnsInv, ClearStartsInv, ClearRowsInv, AttachPhotosInv DEF Update
<1>3. CASE Delete(p)
  BY <1>3, LockPourInv, RemovePourInv DEF Delete
<1>4. CASE ReadOldKeys(p)
  BY <1>4, ReadOldKeysInv
<1>5. CASE Commit(p)
  BY <1>5, CommitInv
<1>6. CASE Objects(p)
  BY <1>6, PutObjectInv, DeleteObjectInv, AfterObjectsInv DEF Objects
<1>7. CASE Reload(p)
  BY <1>7, ReloadInv
<1> QED
  BY <1>1, <1>2, <1>3, <1>4, <1>5, <1>6, <1>7 DEF Step

LEMMA Stutters ==
  ASSUME Inv, UNCHANGED vars
  PROVE  Inv'
<1>1. /\ owner' = owner /\ rows' = rows /\ serving' = serving /\ store' = store /\ made' = made
      /\ req' = req
  BY DEF vars
<1>2. \A x, q : Late(x, q)' <=> Late(x, q)
  BY <1>1 DEF Late, Op
<1>3. Known' = Known /\ \A k : Sources(k)' = Sources(k)
  BY <1>1 DEF Known, Sources, At
<1>4. \A q, k : Deletes(q, k)' <=> Deletes(q, k)
  BY <1>1, <1>3 DEF Deletes, Home, Here, At, Pour
<1>5. \A k : (Lone(k)' <=> Lone(k)) /\ (AllSpent(k)' <=> AllSpent(k)) /\ (NoRows(k)' <=> NoRows(k))
  BY <1>1, <1>3 DEF Lone, AllSpent, NoRows, Spent
<1>6. TypeOK' /\ ServingsAreWhole' /\ ListsMixOnlyWithoutColumns'
  BY <1>1 DEF Inv, TypeOK, ServingsAreWhole, ListsMixOnlyWithoutColumns, Op, Pour
<1>7. Tables'
  BY <1>1 DEF Inv, Tables, RowOK, Here, Spent, At, Pour
<1>8. StoreOK'
  BY <1>1, <1>3, <1>4, <1>5 DEF Inv, StoreOK
<1>9. \A p \in Request : CallOK(p)' /\ WritesOK(p)' /\ LockOK(p)'
  BY <1>1, <1>3 DEF Inv, CallOK, WritesOK, LockOK, Listing, Holding, Editing, Unborn, Here, At, Op, Pour
<1>10. \A p \in Request : MixOK(p)'
  BY <1>1, <1>2 DEF Inv, MixOK, At, Op, Pour
<1>11. \A p \in Request : RemovedOK(p)'
  BY <1>1, <1>4, <1>5 DEF Inv, RemovedOK, At, Pour
<1>12. \A p \in Request : Here(p)' => ShowOK(p)'
  BY <1>1 DEF Inv, ShowOK, Here, At, Op, Pour
<1>13. \A p, q \in Request : p # q => PairOK(p, q)'
  BY <1>1 DEF Inv, PairOK, Unborn, Editing, Here, At, Op, Pour
<1> QED
  BY <1>6, <1>7, <1>8, <1>9, <1>10, <1>11, <1>12, <1>13 DEF Inv

LEMMA NextInv ==
  ASSUME Inv, [Next]_vars
  PROVE  Inv'
<1>1. CASE UNCHANGED vars
  BY <1>1, Stutters
<1>2. ASSUME NEW p \in Request,
             Receive(p) \/ Refuse(p) \/ Step(p) \/ DeadlockVictim(p) \/ Cancel(p) \/ Kill(p)
      PROVE  Inv'
  BY <1>2, ReceiveInv, RefuseInv, StepInv, FailureInv
<1> QED
  BY <1>1, <1>2 DEF Next

\* Inv holds in every reachable state: locks keep the others from what a request has written
\* and read of a pour until its transaction ends (photo.go, review.go).
THEOREM Invariant == Spec => []Inv
<1>1. Init => Inv
  BY InitInv
<1>2. Inv /\ [Next]_vars => Inv'
  BY NextInv
<1> QED
  BY <1>1, <1>2, PTL DEF Spec

\* The variables keep their types.
THEOREM TypeCorrect == Spec => []TypeOK
<1>1. Inv => TypeOK
  BY DEF Inv
<1> QED
  BY <1>1, Invariant, PTL

\* No photo row outlives its pour: what an Update inserts has shared the pour's row, which
\* a Delete wants for itself (review.go:286-297, 335).
THEOREM References == Spec => []RowsHaveReviews
<1>1. Inv => RowsHaveReviews
  BY DEF Inv, Tables, RowsHaveReviews
<1> QED
  BY <1>1, Invariant, PTL

\* A photo whose key only one request, or only the start, has named keeps its object while it
\* is on a pour, through every failure and every race (review.go:305, 335-342).
THEOREM ObjectsKept == Spec => []PhotosKeepObjects
<1>1. ASSUME Inv PROVE PhotosKeepObjects
  <2>1. SUFFICES ASSUME NEW r \in Review, NEW x \in rows[r], x.key \notin store, Lone(x.key)
                 PROVE  FALSE
    BY DEF PhotosKeepObjects, Lone
  <2>2. x.key \in Key
    BY <1>1, Typed DEF PhotoRow
  <2>3. Sources(x.key) # {}
    BY <1>1, RowSource
  <2>4. NoRows(x.key)
    BY <1>1, <2>1, <2>2, <2>3 DEF Inv, StoreOK
  <2> QED
    BY <2>4 DEF NoRows, KeysOf
<1> QED
  BY <1>1, Invariant, PTL

\* Rows of two requests on one pour: at least one of them wrote no column and so did not wait
\* at the pour's row (review.go:241-267).
THEOREM Mixed == Spec => []ListsMixOnlyWithoutColumns
<1>1. Inv => ListsMixOnlyWithoutColumns
  BY DEF Inv
<1> QED
  BY <1>1, Invariant, PTL

\* Size and count of a pour are those of one request (serving.go:7-24).
THEOREM Servings == Spec => []ServingsAreWhole
<1>1. Inv => ServingsAreWhole
  BY DEF Inv
<1> QED
  BY <1>1, Invariant, PTL

\* Alone at its pour, an Update that is answered with 200 shows what it lists, with its
\* objects (review.go:269-305).
THEOREM Shown == Spec => []UpdateOKShowsPhotos
<1>1. ASSUME Inv, NEW p \in Request, At(p, "done"), Op(p) = "Update", req[p].status = 200,
             req[p].call.keys # None, Alone(p)
      PROVE  /\ {<<row.order, row.key>> : row \in rows[Pour(p)]} =
                  {<<n, req[p].call.keys[n]>> : n \in DOMAIN req[p].call.keys}
             /\ KeysOf(rows[Pour(p)]) \subseteq store
  <2> DEFINE keys == req[p].call.keys
  <2>1. Here(p) /\ CallOK(p) /\ ShowOK(p)
    BY <1>1 DEF Inv, Here, At
  <2>2. req[p].call \in Calls /\ Named(req[p].call) \subseteq Known
    BY <2>1 DEF CallOK
  <2>3. rows[Pour(p)] = RowsOf(keys, p)
    BY <1>1, <2>1 DEF ShowOK, Alone
  <2>4. Named(req[p].call) = Listed(keys) /\ Named(req[p].call) \subseteq Key
    BY <1>1, <2>2, NamedIs DEF Op
  <2>5. {<<row.order, row.key>> : row \in RowsOf(keys, p)} = {<<n, keys[n]>> : n \in DOMAIN keys}
    <3> HIDE DEF keys
    <3>1. \A x \in RowsOf(keys, p) : \E n \in DOMAIN keys : x.order = n /\ x.key = keys[n]
      BY DEF RowsOf
    <3>2. \A n \in DOMAIN keys : \E x \in RowsOf(keys, p) : x.order = n /\ x.key = keys[n]
      <4>1. SUFFICES ASSUME NEW n \in DOMAIN keys
                     PROVE  \E x \in RowsOf(keys, p) : x.order = n /\ x.key = keys[n]
        OBVIOUS
      <4>2. [key |-> keys[n], order |-> n, by |-> p] \in RowsOf(keys, p)
        BY DEF RowsOf
      <4> QED
        BY <4>2
    <3>3. {<<row.order, row.key>> : row \in RowsOf(keys, p)} \subseteq {<<n, keys[n]>> : n \in DOMAIN keys}
      BY <3>1
    <3>4. {<<n, keys[n]>> : n \in DOMAIN keys} \subseteq {<<row.order, row.key>> : row \in RowsOf(keys, p)}
      BY <3>2
    <3> QED
      BY <3>3, <3>4
  <2>6. KeysOf(RowsOf(keys, p)) \subseteq Listed(keys)
    BY DEF KeysOf, RowsOf, Listed
  <2>7. ASSUME NEW k \in Named(req[p].call) PROVE k \in store
    <3>1. SUFFICES ASSUME k \notin store PROVE FALSE
      OBVIOUS
    <3>2. PICK q \in Request : Deletes(q, k)
      BY <1>1, <2>2, <2>4, <3>1 DEF Inv, StoreOK
    <3>3. PICK a \in Sources(k) : Home(a) = Pour(q)
      BY <3>2 DEF Deletes
    <3>4. a = p \/ a = Pour(p)
      BY <1>1, <3>3 DEF Alone
    <3>5. q # p /\ Here(q)
      BY <3>2 DEF Deletes
    <3>6. Pour(q) # Pour(p)
      BY <1>1, <3>5 DEF Alone, Here
    <3>7. Pour(p) \notin Request
      <4>1. Pour(p) # 0
        BY <1>1, <2>1 DEF CallOK
      <4>2. Pour(p) \in Review
        BY <1>1, <4>1, Typed DEF Locals, Pour
      <4> QED
        BY <4>2, Constants
    <3>8. Home(a) = Pour(p)
      BY <3>4, <3>7 DEF Home
    <3> QED
      BY <3>3, <3>6, <3>8
  <2> QED
    BY <2>3, <2>4, <2>5, <2>6, <2>7
<1>2. Inv => UpdateOKShowsPhotos
  BY <1>1 DEF UpdateOKShowsPhotos
<1> QED
  BY <1>2, Invariant, PTL
====
