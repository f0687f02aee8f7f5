---------------------------- MODULE CandleProofs ----------------------------
(***************************************************************************)
(* What the database keeps of the candles and what the indicators make of  *)
(* them, for any units, prices, times, crashes and window lengths.         *)
(*                                                                         *)
(* The database is looked at through View, the rows a reader would see:    *)
(* the migration changes the tables and keeps the view.  ShapeOK says what *)
(* the tables are at each statement of a start, RowsOK that stored candles *)
(* are over and final, PendingOK and FedOK the same of the candles that    *)
(* the process has not stored yet and of those it has.                     *)
(*                                                                         *)
(* The invariant of the indicators is HInv, below them: it gives each one  *)
(* as a function of the closes since the last reset.  Those functions are  *)
(* recursive, so the section before it proves, by the least element of a   *)
(* set of naturals, that a recursion along 1..n has exactly one result,    *)
(* and from it the laws of Power and SumTo.                                *)
(***************************************************************************)
EXTENDS CandleStore, Indicators, FiniteSetTheorems, WellFoundedInduction, TLAPS

\* What a reader sees of the tables d.
View(d) ==
    IF "candles" \notin DOMAIN d THEN <<>>
    ELSE IF d["candles"].unit THEN d["candles"].rows
    ELSE [k \in {<<x[1], LegacyUnit>> : x \in DOMAIN d["candles"].rows} |->
             d["candles"].rows[Old(k[1])]]

\* A table of the present form.
Present(t) == t \in [unit : {TRUE}, rows : {t.rows}]

\* The tables at phase p of a start: d on disk, w in the connection's view.
ShapeOK(p, d, w, tx) ==
    /\ DOMAIN d \subseteq {"candles"}
    /\ "candles" \in DOMAIN d => d["candles"].unit \in BOOLEAN
    /\ "candles" \in DOMAIN d /\ d["candles"].unit => Present(d["candles"])
    /\ p \in {"down", "schema", "has_unit", "begin", "running"} => w = d /\ ~tx
    /\ p \notin {"down", "schema"} => "candles" \in DOMAIN d
    /\ p \in {"begin", "create", "copy", "drop", "rename", "commit"} => ~d["candles"].unit
    /\ p = "running" => d["candles"].unit
    /\ p \in {"create", "copy", "drop", "rename", "commit"} => tx
    /\ p = "create" => w = d
    /\ p \in {"copy", "drop"} => /\ DOMAIN w = {"candles", "candles_new"}
                                 /\ w["candles"] = d["candles"]
                                 /\ Present(w["candles_new"])
    /\ p = "rename" => DOMAIN w = {"candles_new"} /\ Present(w["candles_new"])
    /\ p \in {"drop", "rename"} => w["candles_new"].rows = View(d)
    /\ p = "commit" => /\ DOMAIN w = {"candles"} /\ Present(w["candles"])
                       /\ w["candles"].rows = View(d)

\* Candle k is over at time t, and v is its last close unless an update of it
\* was missed.
Over(k, t) == k \in Keys /\ k[1] < Start(t, k[2])

Final(k, v, tr, ms) == k \in ms \/ v = tr[k]

RowsOK(v, t, tr, ms) == \A k \in DOMAIN v : Over(k, t) /\ Final(k, v[k], tr, ms)

\* The candle p of a process with unit u that is not stored yet.
PendingOK(p, u, v, t, tr, ms) ==
    p # NoCandle => /\ p.ts <= Start(t, u)
                    /\ <<p.ts, u>> \in Keys
                    /\ <<p.ts, u>> \notin DOMAIN v
                    /\ Final(<<p.ts, u>>, p.close, tr, ms)

\* The candles f that the strategy got.
FedOK(f, p, u, v, un) ==
    \A i \in DOMAIN f :
        /\ p # NoCandle /\ f[i].ts < p.ts
        /\ \A j \in 1..i - 1 : f[j].ts < f[i].ts
        /\ \/ <<f[i].ts, u>> \in un
           \/ <<f[i].ts, u>> \in DOMAIN v /\ v[<<f[i].ts, u>>] = f[i].close

IInv ==
    /\ TypeOK
    /\ ShapeOK(phase, disk, work, intx)
    /\ RowsOK(View(disk), now, truth, missed)
    /\ PendingOK(pending, unit, View(disk), now, truth, missed)
    /\ FedOK(fed, pending, unit, View(disk), unsaved)
    /\ phase # "running" => pending = NoCandle /\ fed = <<>>

----------------------------------------------------------------------------
(* Time *)

\* The constants, by name.
LEMMA Constants ==
    /\ Units \subseteq Nat \ {0} /\ LegacyUnit \in Units
    /\ FirstTime \in Nat /\ MaxTime \in Nat /\ MaxCrashes \in Nat /\ FirstTime <= MaxTime
    /\ Closes # {} /\ NoCandle \notin [ts : Nat, close : Closes]
BY StoreAssumption

\* Quotient and remainder.
LEMMA Division ==
    ASSUME NEW n \in Nat, NEW u \in Nat \ {0}
    PROVE  /\ n % u \in Nat /\ n % u < u
           /\ n \div u \in Int
           /\ n = u * (n \div u) + (n % u)
OBVIOUS

\* Multiplication by a positive unit keeps a strict order, with a unit to spare.
LEMMA TimesGrows ==
    ASSUME NEW a \in Int, NEW b \in Int, NEW u \in Int, u > 0, a >= b + 1
    PROVE  u * a >= u * b + u
<1>1. a - b - 1 >= 0
  OBVIOUS
<1>2. (a - b - 1) * u >= 0
  BY <1>1
<1> QED
  BY <1>2

\* Candles start at or before their times, and later times have later starts.
LEMMA StartMonotonic ==
    ASSUME NEW s \in Nat, NEW t \in Nat, s <= t, NEW u \in Nat \ {0}
    PROVE  /\ Start(s, u) \in Nat /\ Start(s, u) <= s /\ s < Start(s, u) + u
           /\ Start(s, u) <= Start(t, u)
<1> DEFINE a == s \div u
           b == t \div u
<1>1. /\ s % u \in Nat /\ s % u < u /\ a \in Int /\ s = u * a + (s % u)
      /\ t % u \in Nat /\ t % u < u /\ b \in Int /\ t = u * b + (t % u)
  BY Division
<1> HIDE DEF a, b
<1>2. u * a \in Int /\ u * b \in Int /\ u \in Int /\ u > 0
  BY <1>1
<1>3. Start(s, u) = u * a /\ Start(t, u) = u * b
  BY <1>1, <1>2 DEF Start
<1>4. u * a <= s /\ s < u * a + u /\ t < u * b + u
  BY <1>1, <1>2
<1>5. u * a >= 0
  <2>1. CASE a >= 0
    BY <1>1, <2>1
  <2>2. CASE ~(a >= 0)
    <3>1. 0 >= a + 1
      BY <1>1, <2>2
    <3>2. u * 0 >= u * a + u
      BY <1>1, <1>2, <3>1, TimesGrows
    <3> QED
      BY <1>2, <1>4, <3>2
  <2> QED
    BY <2>1, <2>2
<1>6. u * a <= u * b
  <2>1. CASE a = b
    BY <1>2, <2>1
  <2>2. CASE b >= a + 1
    BY <1>1, <1>2, <2>2, TimesGrows
  <2>3. CASE a >= b + 1
    <3>1. u * a >= u * b + u
      BY <1>1, <1>2, <2>3, TimesGrows
    <3> QED
      BY <1>2, <1>4, <3>1
  <2> QED
    BY <1>1, <2>1, <2>2, <2>3
<1> QED
  BY <1>2, <1>3, <1>4, <1>5, <1>6

\* The candle of a time is a key.
LEMMA StartKey ==
    ASSUME NEW t \in 0..MaxTime, NEW u \in Units
    PROVE  /\ <<Start(t, u), u>> \in Keys
           /\ Start(t, u) \in Nat /\ Start(t, u) <= t /\ t < Start(t, u) + u
<1>1. t \in Nat /\ u \in Nat \ {0}
  BY Constants
<1> QED
  BY <1>1, StartMonotonic DEF Keys

\* A key is a start and a unit.
LEMMA KeyFields ==
    ASSUME NEW k \in Keys
    PROVE  k = <<k[1], k[2]>> /\ k[1] \in Nat /\ k[2] \in Units
<1>1. PICK t \in 0..MaxTime, u \in Units : k = <<Start(t, u), u>>
  BY DEF Keys
<1>2. Start(t, u) \in Nat
  BY StartKey
<1> QED
  BY <1>1, <1>2

\* A candle that is over stays over.
LEMMA OverLater ==
    ASSUME NEW s \in 0..MaxTime, NEW t \in 0..MaxTime, s <= t, NEW k, Over(k, s)
    PROVE  Over(k, t)
<1>1. /\ k \in Keys /\ k[1] \in Nat /\ k[2] \in Nat \ {0} /\ k[1] < Start(s, k[2])
  BY KeyFields, Constants DEF Over
<1>2. s \in Nat /\ t \in Nat /\ t <= t
  BY Constants
<1>3. Start(s, k[2]) \in Nat /\ Start(t, k[2]) \in Nat /\ Start(s, k[2]) <= Start(t, k[2])
  BY <1>1, <1>2, StartMonotonic
<1> QED
  BY <1>1, <1>3 DEF Over

\* A candle that is over is no longer traded.
LEMMA OverNotCurrent ==
    ASSUME TypeOK, NEW k, Over(k, now)
    PROVE  k \notin Current
<1> SUFFICES ASSUME k \in Current PROVE FALSE
  OBVIOUS
<1>1. PICK u \in Units : k = <<Start(now, u), u>>
  BY DEF Current
<1>2. k[1] = Start(now, u) /\ k[2] = u
  BY <1>1
<1>3. Start(now, u) \in Nat
  BY StartKey DEF TypeOK
<1> QED
  BY <1>2, <1>3 DEF Over

----------------------------------------------------------------------------
(* Tables *)

Phases == {"down", "schema", "has_unit", "begin", "create", "copy", "drop",
           "rename", "commit", "running"}

\* The tables of every phase are the two that the code names.
LEMMA ShapeDomains ==
    ASSUME NEW p \in Phases, NEW d, NEW w, NEW tx, ShapeOK(p, d, w, tx)
    PROVE  DOMAIN d \cup DOMAIN w \subseteq {"candles", "candles_new"}
BY DEF Phases, ShapeOK

\* A crash takes the connection back to what is on disk.
LEMMA ShapeDown ==
    ASSUME NEW p, NEW d, NEW w, NEW tx, ShapeOK(p, d, w, tx)
    PROVE  ShapeOK("down", d, d, FALSE)
BY DEF ShapeOK

\* The new table of CREATE TABLE.
LEMMA EmptyTable ==
    LET t == [unit |-> TRUE, rows |-> <<>>]
    IN  Present(t) /\ t.unit = TRUE /\ t.rows = <<>>
BY DEF Present

\* A table put beside, or in place of, the others.
LEMMA PutFields ==
    ASSUME NEW f, NEW k, NEW v
    PROVE  /\ DOMAIN Put(f, k, v) = DOMAIN f \cup {k}
           /\ Put(f, k, v)[k] = v
           /\ \A x \in DOMAIN f : x # k => Put(f, k, v)[x] = f[x]
BY DEF Put

\* Tables of the present form show their rows.
LEMMA PresentView ==
    ASSUME NEW d, "candles" \in DOMAIN d, Present(d["candles"])
    PROVE  d["candles"].unit = TRUE /\ View(d) = d["candles"].rows
BY DEF Present, View

\* CREATE TABLE IF NOT EXISTS.
LEMMA SchemaShape ==
    ASSUME NEW d, NEW w, NEW tx, ShapeOK("schema", d, w, tx), NEW e,
           e = IF "candles" \in DOMAIN w THEN w
               ELSE Put(w, "candles", [unit |-> TRUE, rows |-> <<>>])
    PROVE  ShapeOK("has_unit", e, e, tx) /\ View(e) = View(d)
<1>1. w = d /\ ~tx /\ DOMAIN d \subseteq {"candles"}
  BY DEF ShapeOK
<1>2. CASE "candles" \in DOMAIN d
  BY <1>1, <1>2 DEF ShapeOK
<1>3. CASE "candles" \notin DOMAIN d
  <2> DEFINE t == [unit |-> TRUE, rows |-> <<>>]
  <2>1. Present(t) /\ t.unit = TRUE /\ t.rows = <<>>
    BY EmptyTable
  <2> HIDE DEF t
  <2>2. e = Put(d, "candles", t)
    BY <1>1, <1>3 DEF t
  <2>3. DOMAIN e = {"candles"} /\ e["candles"] = t
    <3>1. DOMAIN d \cup {"candles"} = {"candles"}
      BY <1>1
    <3> QED
      BY <2>2, <3>1 DEF Put
  <2>4. View(e) = <<>> /\ View(d) = <<>>
    BY <1>3, <2>1, <2>3, PresentView DEF View
  <2>5. ShapeOK("has_unit", e, e, tx)
    BY <1>1, <2>1, <2>3 DEF ShapeOK
  <2> QED
    BY <2>4, <2>5
<1> QED
  BY <1>2, <1>3

\* CREATE TABLE candles_new.
LEMMA CreateShape ==
    ASSUME NEW d, NEW w, NEW tx, ShapeOK("create", d, w, tx), NEW e,
           e = Put(w, "candles_new", [unit |-> TRUE, rows |-> <<>>])
    PROVE  "candles_new" \notin DOMAIN w /\ ShapeOK("copy", d, e, tx)
<1> DEFINE t == [unit |-> TRUE, rows |-> <<>>]
<1>1. Present(t)
  BY EmptyTable
<1> HIDE DEF t
<1>2. w = d /\ DOMAIN d = {"candles"}
  BY DEF ShapeOK
<1>3. e = Put(d, "candles_new", t)
  BY <1>2 DEF t
<1>4. /\ DOMAIN e = {"candles", "candles_new"} /\ e["candles_new"] = t
      /\ e["candles"] = d["candles"]
  <2>1. DOMAIN d \cup {"candles_new"} = {"candles", "candles_new"}
    BY <1>2
  <2> QED
    BY <1>2, <1>3, <2>1 DEF Put
<1>5. ShapeOK("copy", d, e, tx)
  BY <1>1, <1>4 DEF ShapeOK
<1> QED
  BY <1>2, <1>5

\* INSERT INTO candles_new SELECT: the rows a reader sees are copied.
LEMMA CopyShape ==
    ASSUME NEW d, NEW w, NEW tx, ShapeOK("copy", d, w, tx), NEW e,
           e = [w EXCEPT !["candles_new"].rows =
                  [k \in {<<x[1], LegacyUnit>> : x \in DOMAIN w["candles"].rows} |->
                      w["candles"].rows[Old(k[1])]]]
    PROVE  ShapeOK("drop", d, e, tx)
<1> DEFINE rows == [k \in {<<x[1], LegacyUnit>> : x \in DOMAIN d["candles"].rows} |->
                      d["candles"].rows[Old(k[1])]]
           t == [w["candles_new"] EXCEPT !.rows = rows]
<1>1. /\ DOMAIN w = {"candles", "candles_new"} /\ w["candles"] = d["candles"]
      /\ Present(w["candles_new"]) /\ "candles" \in DOMAIN d /\ ~d["candles"].unit
  BY DEF ShapeOK
<1>2. View(d) = rows
  BY <1>1 DEF View
<1>3. e = [w EXCEPT !["candles_new"] = t]
  BY <1>1
<1> HIDE DEF rows
<1>4. Present(t) /\ t.rows = rows
  BY <1>1 DEF Present
<1> HIDE DEF t
<1>5. /\ DOMAIN e = {"candles", "candles_new"} /\ e["candles_new"] = t
      /\ e["candles"] = d["candles"]
  BY <1>1, <1>3
<1> QED
  BY <1>2, <1>4, <1>5 DEF ShapeOK

\* DROP TABLE candles, ALTER TABLE RENAME, COMMIT.
LEMMA LastShapes ==
    ASSUME NEW d, NEW w, NEW tx, NEW e
    PROVE  /\ ShapeOK("drop", d, w, tx) /\ e = [t \in DOMAIN w \ {"candles"} |-> w[t]]
                => ShapeOK("rename", d, e, tx)
           /\ ShapeOK("rename", d, w, tx) /\ e = [t \in {"candles"} |-> w["candles_new"]]
                => ShapeOK("commit", d, e, tx)
           /\ ShapeOK("commit", d, w, tx)
                => ShapeOK("running", w, w, FALSE) /\ View(w) = View(d)
<1>1. ASSUME ShapeOK("drop", d, w, tx), e = [t \in DOMAIN w \ {"candles"} |-> w[t]]
      PROVE  ShapeOK("rename", d, e, tx)
  <2>1. DOMAIN w = {"candles", "candles_new"}
    BY <1>1 DEF ShapeOK
  <2>2. DOMAIN e = {"candles_new"} /\ e["candles_new"] = w["candles_new"]
    BY <1>1, <2>1
  <2> QED
    BY <1>1, <2>2 DEF ShapeOK
<1>2. ASSUME ShapeOK("rename", d, w, tx), e = [t \in {"candles"} |-> w["candles_new"]]
      PROVE  ShapeOK("commit", d, e, tx)
  <2>1. DOMAIN e = {"candles"} /\ e["candles"] = w["candles_new"]
    BY <1>2
  <2> QED
    BY <1>2, <2>1 DEF ShapeOK
<1>3. ASSUME ShapeOK("commit", d, w, tx)
      PROVE  ShapeOK("running", w, w, FALSE) /\ View(w) = View(d)
  <2>1. /\ DOMAIN w = {"candles"} /\ Present(w["candles"])
        /\ w["candles"].rows = View(d)
    BY <1>3 DEF ShapeOK
  <2>2. w["candles"].unit = TRUE /\ View(w) = View(d)
    BY <2>1, PresentView
  <2> QED
    BY <2>1, <2>2 DEF ShapeOK
<1> QED
  BY <1>1, <1>2, <1>3

\* INSERT ... ON CONFLICT DO NOTHING.
LEMMA InsertShape ==
    ASSUME NEW d, NEW w, NEW tx, ShapeOK("running", d, w, tx), NEW k, NEW c
    PROVE  LET e == InsertCandle(w, k, c)
           IN  /\ ShapeOK("running", e, e, tx)
               /\ View(e) = IF k \in DOMAIN View(d) THEN View(d) ELSE Put(View(d), k, c)
<1> DEFINE e == InsertCandle(w, k, c)
           rows == w["candles"].rows
           t == [w["candles"] EXCEPT !.rows = Put(rows, k, c)]
<1>1. /\ w = d /\ ~tx /\ DOMAIN w = {"candles"} /\ Present(w["candles"])
  BY DEF ShapeOK
<1>2. View(d) = rows
  BY <1>1, PresentView
<1>3. CASE k \in DOMAIN rows
  <2>1. e = d
    BY <1>1, <1>3 DEF InsertCandle
  <2> QED
    BY <1>1, <1>2, <1>3, <2>1
<1>4. CASE k \notin DOMAIN rows
  <2> DEFINE r2 == Put(rows, k, c)
  <2>1. e = [w EXCEPT !["candles"] = t]
    BY <1>1, <1>4 DEF InsertCandle
  <2> HIDE DEF r2
  <2>2. Present(t) /\ t.rows = r2
    BY <1>1 DEF Present, r2
  <2> HIDE DEF t, e
  <2>3. DOMAIN e = {"candles"} /\ e["candles"] = t
    BY <1>1, <2>1
  <2>4. View(e) = r2 /\ e["candles"].unit = TRUE
    BY <2>2, <2>3, PresentView
  <2>5. ShapeOK("running", e, e, tx)
    BY <1>1, <2>2, <2>3, <2>4 DEF ShapeOK
  <2> QED
    BY <1>2, <1>4, <2>4, <2>5 DEF e, r2
<1> QED
  BY <1>3, <1>4

----------------------------------------------------------------------------
(* A start of the program *)

\* A start does not touch candles: the shape of the tables is the next
\* phase's, and the view is the same.
Started ==
    /\ phase' \in Phases /\ intx' \in BOOLEAN /\ unit' \in Units
    /\ ShapeOK(phase', disk', work', intx') /\ View(disk') = View(disk)
    /\ pending' = NoCandle /\ fed' = <<>>
    /\ UNCHANGED <<market, unsaved>> /\ crashes' \in 0..MaxCrashes

\* Every statement of open, and the end of the process.
LEMMA StartupStarted ==
    ASSUME IInv, Startup \/ Crash PROVE Started
<1> USE DEF Phases
<1>1. /\ ShapeOK(phase, disk, work, intx) /\ intx \in BOOLEAN /\ unit \in Units
      /\ crashes \in 0..MaxCrashes
      /\ phase # "running" => pending = NoCandle /\ fed = <<>>
  BY DEF IInv, TypeOK
<1>2. CASE Open
  <2>1. ShapeOK("schema", disk, work, intx)
    BY <1>1, <1>2 DEF Open, ShapeOK
  <2> QED
    BY <1>1, <1>2, <2>1 DEF Open, Started, db
<1>3. CASE Schema
  <2> DEFINE e == IF "candles" \in DOMAIN work THEN work
                  ELSE Put(work, "candles", [unit |-> TRUE, rows |-> <<>>])
  <2>1. phase = "schema" /\ phase' = "has_unit" /\ work' = e /\ intx' = intx
    BY <1>3 DEF Schema, Statement
  <2>2. ~intx
    BY <1>1, <2>1 DEF ShapeOK
  <2>3. disk' = e /\ UNCHANGED <<unit, pending, fed, market, unsaved, crashes>>
    BY <1>3, <2>2 DEF Schema, Statement
  <2> HIDE DEF e
  <2>4. ShapeOK("has_unit", e, e, intx) /\ View(e) = View(disk)
    BY <1>1, <2>1, SchemaShape DEF e
  <2> QED
    BY <1>1, <2>1, <2>3, <2>4 DEF Started
<1>4. CASE HasUnit
  <2>1. /\ phase = "has_unit"
        /\ UNCHANGED <<db, unit, pending, fed, market, unsaved, crashes>>
        /\ phase' = IF work["candles"].unit THEN "running" ELSE "begin"
    BY <1>4 DEF HasUnit
  <2>2. work = disk /\ "candles" \in DOMAIN disk
    BY <1>1, <2>1 DEF ShapeOK
  <2>3. ShapeOK(phase', disk, work, intx)
    BY <1>1, <2>1, <2>2 DEF ShapeOK
  <2> QED
    BY <1>1, <2>1, <2>3 DEF Started, db
<1>5. CASE Begin
  <2>1. /\ phase = "begin" /\ phase' = "create" /\ work' = work /\ intx' = TRUE
        /\ UNCHANGED <<unit, pending, fed, market, unsaved, crashes>>
        /\ disk' = IF intx THEN disk ELSE work
    BY <1>5 DEF Begin, Statement
  <2>2. disk' = disk /\ ShapeOK("create", disk, work, TRUE)
    BY <1>1, <2>1 DEF ShapeOK
  <2> QED
    BY <1>1, <2>1, <2>2 DEF Started
<1>6. CASE Create
  <2> DEFINE e == Put(work, "candles_new", [unit |-> TRUE, rows |-> <<>>])
  <2>1. phase = "create"
    BY <1>6 DEF Create
  <2>2. intx /\ "candles_new" \notin DOMAIN work /\ ShapeOK("copy", disk, e, intx)
    BY <1>1, <2>1, CreateShape DEF ShapeOK
  <2>3. Statement(e, "copy") /\ intx' = intx
    BY <1>6, <2>2 DEF Create
  <2> HIDE DEF e
  <2>4. /\ work' = e /\ disk' = disk /\ phase' = "copy"
        /\ UNCHANGED <<unit, pending, fed, market, unsaved, crashes>>
    BY <2>2, <2>3 DEF Statement
  <2> QED
    BY <1>1, <2>1, <2>2, <2>3, <2>4 DEF Started
<1>7. CASE Copy
  <2> DEFINE e == [work EXCEPT !["candles_new"].rows =
                     [k \in {<<x[1], LegacyUnit>> : x \in DOMAIN work["candles"].rows} |->
                         work["candles"].rows[Old(k[1])]]]
  <2>1. phase = "copy" /\ Statement(e, "drop") /\ intx' = intx
    BY <1>7 DEF Copy
  <2>2. ShapeOK("copy", disk, work, intx)
    BY <1>1, <2>1
  <2>3. ShapeOK("drop", disk, e, intx)
    BY <2>2, CopyShape
  <2> HIDE DEF e
  <2>4. intx
    BY <2>2 DEF ShapeOK
  <2>5. /\ work' = e /\ disk' = disk /\ phase' = "drop"
        /\ UNCHANGED <<unit, pending, fed, market, unsaved, crashes>>
    BY <2>1, <2>4 DEF Statement
  <2> QED
    BY <1>1, <2>1, <2>3, <2>4, <2>5 DEF Started
<1>8. CASE Drop
  <2> DEFINE e == [t \in DOMAIN work \ {"candles"} |-> work[t]]
  <2>1. phase = "drop" /\ Statement(e, "rename") /\ intx' = intx
    BY <1>8 DEF Drop
  <2>2. intx /\ ShapeOK("rename", disk, e, intx)
    BY <1>1, <2>1, LastShapes DEF ShapeOK
  <2> HIDE DEF e
  <2>3. /\ work' = e /\ disk' = disk /\ phase' = "rename"
        /\ UNCHANGED <<unit, pending, fed, market, unsaved, crashes>>
    BY <2>1, <2>2 DEF Statement
  <2> QED
    BY <1>1, <2>1, <2>2, <2>3 DEF Started
<1>9. CASE Rename
  <2> DEFINE e == [t \in {"candles"} |-> work["candles_new"]]
  <2>1. phase = "rename" /\ Statement(e, "commit") /\ intx' = intx
    BY <1>9 DEF Rename
  <2>2. intx /\ ShapeOK("commit", disk, e, intx)
    BY <1>1, <2>1, LastShapes DEF ShapeOK
  <2> HIDE DEF e
  <2>3. /\ work' = e /\ disk' = disk /\ phase' = "commit"
        /\ UNCHANGED <<unit, pending, fed, market, unsaved, crashes>>
    BY <2>1, <2>2 DEF Statement
  <2> QED
    BY <1>1, <2>1, <2>2, <2>3 DEF Started
<1>10. CASE Commit
  <2>1. /\ phase = "commit" /\ phase' = "running" /\ disk' = work /\ intx' = FALSE
        /\ UNCHANGED <<work, unit, pending, fed, market, unsaved, crashes>>
    BY <1>10 DEF Commit
  <2>2. ShapeOK("running", work, work, FALSE) /\ View(work) = View(disk)
    BY <1>1, <2>1, LastShapes
  <2> QED
    BY <1>1, <2>1, <2>2 DEF Started
<1>11. CASE Crash
  <2>1. /\ phase' = "down" /\ work' = disk /\ disk' = disk /\ intx' = FALSE
        /\ pending' = NoCandle /\ fed' = <<>> /\ UNCHANGED <<unit, market, unsaved>>
        /\ crashes' = crashes + 1 /\ crashes < MaxCrashes
    BY <1>11 DEF Crash, Die
  <2>2. ShapeOK("down", disk, disk, FALSE)
    BY <1>1, ShapeDown
  <2>3. crashes' \in 0..MaxCrashes
    BY <1>1, <2>1, Constants
  <2> QED
    BY <1>1, <2>1, <2>2, <2>3 DEF Started
<1> QED
  BY <1>2, <1>3, <1>4, <1>5, <1>6, <1>7, <1>8, <1>9, <1>10, <1>11 DEF Startup

\* A start keeps the invariant.
LEMMA StartedIInv ==
    ASSUME IInv, Started PROVE IInv'
<1>1. TypeOK'
  <2>1. DOMAIN disk' \cup DOMAIN work' \subseteq {"candles", "candles_new"}
    BY ShapeDomains DEF Started
  <2>2. /\ fed' \in Seq([ts : Nat, close : Closes]) /\ pending' = NoCandle
        /\ phase' \in Phases /\ intx' \in BOOLEAN /\ unit' \in Units
        /\ now' = now /\ truth' = truth /\ missed' = missed /\ unsaved' = unsaved
        /\ crashes' \in 0..MaxCrashes
    BY DEF Started, market
  <2> QED
    BY <2>1, <2>2 DEF IInv, TypeOK, Phases
<1>2. RowsOK(View(disk'), now', truth', missed')
  BY DEF Started, IInv, market
<1>3. PendingOK(pending', unit', View(disk'), now', truth', missed')
  BY DEF Started, PendingOK
<1>4. FedOK(fed', pending', unit', View(disk'), unsaved')
  BY DEF Started, FedOK
<1> QED
  BY <1>1, <1>2, <1>3, <1>4 DEF Started, IInv

----------------------------------------------------------------------------
(* The market *)

\* What is over keeps its last close, and is not missed any more than before.
LEMMA TradeKeepsOver ==
    ASSUME TypeOK, NEW close, Trade(close), NEW k, Over(k, now), NEW ms, NEW v,
           Final(k, v, truth, missed), missed \subseteq ms \cup Current
    PROVE  Final(k, v, truth', ms)
<1>1. k \notin Current /\ k \in Keys
  BY OverNotCurrent DEF Over
<1>2. truth'[k] = truth[k]
  BY <1>1 DEF Trade
<1> QED
  BY <1>1, <1>2 DEF Final

\* Trades keep the types of the exchange's side.
LEMMA TradeTypes ==
    ASSUME TypeOK, NEW close \in Closes, Trade(close)
    PROVE  truth' \in [Keys -> Closes] /\ Current \subseteq Keys
<1>1. Current \subseteq Keys
  BY StartKey DEF Current, TypeOK
<1> QED
  BY <1>1 DEF Trade, TypeOK

\* An update that nobody handles.
LEMMA LostIInv ==
    ASSUME IInv, NEW close \in Closes, Lost(close) PROVE IInv'
<1>1. TypeOK /\ Trade(close) /\ missed' = missed \cup Current
  BY DEF IInv, Lost
<1>2. UNCHANGED <<disk, work, intx, phase, unit, pending, fed, now, unsaved, crashes>>
  BY DEF Lost, db
<1>3. truth' \in [Keys -> Closes] /\ Current \subseteq Keys
  BY <1>1, TradeTypes
<1>4. TypeOK'
  BY <1>1, <1>2, <1>3 DEF TypeOK
<1>5. RowsOK(View(disk), now, truth', missed')
  <2> SUFFICES ASSUME NEW k \in DOMAIN View(disk)
               PROVE  Over(k, now) /\ Final(k, View(disk)[k], truth', missed')
    BY DEF RowsOK
  <2>1. Over(k, now) /\ Final(k, View(disk)[k], truth, missed)
    BY DEF IInv, RowsOK
  <2> QED
    BY <1>1, <2>1, TradeKeepsOver
<1>6. PendingOK(pending, unit, View(disk), now, truth', missed')
  <2> DEFINE k == <<pending.ts, unit>>
  <2>1. PendingOK(pending, unit, View(disk), now, truth, missed)
    BY DEF IInv
  <2>2. pending # NoCandle => Final(k, pending.close, truth', missed')
    <3>1. CASE k \in Current
      BY <1>1, <3>1 DEF Final
    <3>2. CASE k \notin Current
      BY <1>1, <2>1, <3>2 DEF Final, PendingOK, Trade
    <3> QED
      BY <3>1, <3>2
  <2> QED
    BY <2>1, <2>2 DEF PendingOK
<1> QED
  BY <1>2, <1>4, <1>5, <1>6 DEF IInv

\* Time passes.
LEMMA TickIInv ==
    ASSUME IInv, Tick PROVE IInv'
<1>1. /\ now \in 0..MaxTime /\ now' \in 0..MaxTime /\ now <= now' /\ now \in Nat
      /\ now' \in Nat /\ now' <= now'
  BY Constants DEF IInv, TypeOK, Tick
<1>2. UNCHANGED <<disk, work, intx, phase, unit, pending, fed, truth, missed, unsaved,
                  crashes>>
  BY DEF Tick, db
<1>3. TypeOK'
  BY <1>1, <1>2 DEF IInv, TypeOK
<1>4. RowsOK(View(disk), now', truth, missed)
  BY <1>1, OverLater DEF IInv, RowsOK
<1>5. PendingOK(pending, unit, View(disk), now', truth, missed)
  <2>1. unit \in Nat \ {0} /\ unit \in Units
    BY Constants DEF IInv, TypeOK
  <2>2. Start(now, unit) <= Start(now', unit) /\ Start(now, unit) \in Nat
    BY <1>1, <2>1, StartMonotonic
  <2>3. Start(now', unit) \in Nat
    BY <1>1, <2>1, StartKey
  <2>4. pending # NoCandle => pending.ts \in Nat
    BY DEF IInv, TypeOK
  <2> QED
    BY <2>2, <2>3, <2>4 DEF IInv, PendingOK
<1> QED
  BY <1>2, <1>3, <1>4, <1>5 DEF IInv

----------------------------------------------------------------------------
(* handleMarketData_ *)

Candle == [ts : Nat, close : Closes]

\* The strategy takes the candle that is confirmed, and it is the latest.
LEMMA FedGrows ==
    ASSUME NEW f \in Seq(Candle), NEW p \in Candle, NEW q \in Candle,
           p.ts < q.ts, NEW u, NEW v, NEW v2, NEW un, NEW un2,
           FedOK(f, p, u, v, un), un \subseteq un2, q # NoCandle,
           \A k \in DOMAIN v : k \in DOMAIN v2 /\ v2[k] = v[k],
           \/ <<p.ts, u>> \in un2
           \/ <<p.ts, u>> \in DOMAIN v2 /\ v2[<<p.ts, u>>] = p.close
    PROVE  /\ f = <<>> \/ f[Len(f)].ts # p.ts
           /\ FedOK(Append(f, p), q, u, v2, un2)
<1> DEFINE g == Append(f, p)
<1>1. Len(f) \in Nat /\ DOMAIN f = 1..Len(f)
  OBVIOUS
<1>2. /\ g \in Seq(Candle) /\ DOMAIN g = 1..Len(f) + 1
      /\ g[Len(f) + 1] = p /\ \A i \in 1..Len(f) : g[i] = f[i]
  BY <1>1
<1> HIDE DEF g
<1>3. \A i \in 1..Len(f) : f[i] \in Candle
  BY <1>1
<1>4. p.ts \in Nat /\ q.ts \in Nat
  BY DEF Candle
<1>5. \A i \in 1..Len(f) : f[i].ts \in Nat
  BY <1>3 DEF Candle
<1>6. \A i \in 1..Len(f) : f[i].ts < p.ts
  BY <1>1 DEF FedOK
<1>7. f = <<>> \/ f[Len(f)].ts # p.ts
  <2>1. CASE Len(f) = 0
    BY <2>1
  <2>2. CASE Len(f) # 0
    <3>1. Len(f) \in 1..Len(f)
      BY <1>1, <2>2
    <3>2. f[Len(f)].ts < p.ts /\ f[Len(f)].ts \in Nat
      BY <1>5, <1>6, <3>1
    <3> QED
      BY <1>4, <3>2
  <2> QED
    BY <2>1, <2>2
<1>8. ASSUME NEW i \in DOMAIN g
      PROVE  /\ q # NoCandle /\ g[i].ts < q.ts
             /\ \A j \in 1..i - 1 : g[j].ts < g[i].ts
             /\ \/ <<g[i].ts, u>> \in un2
                \/ <<g[i].ts, u>> \in DOMAIN v2 /\ v2[<<g[i].ts, u>>] = g[i].close
  <2>1. CASE i = Len(f) + 1
    <3>1. g[i] = p /\ 1..i - 1 = 1..Len(f)
      BY <1>1, <1>2, <2>1
    <3> QED
      BY <1>2, <1>6, <3>1
  <2>2. CASE i \in 1..Len(f)
    <3>1. g[i] = f[i] /\ f[i].ts < p.ts /\ f[i].ts \in Nat
      BY <1>2, <1>5, <1>6, <2>2
    <3>2. f[i].ts < q.ts
      BY <1>4, <3>1
    <3>3. \A j \in 1..i - 1 : j \in 1..Len(f)
      BY <1>1, <2>2
    <3>4. \A j \in 1..i - 1 : f[j].ts < f[i].ts
      BY <1>1, <2>2 DEF FedOK
    <3>5. \/ <<f[i].ts, u>> \in un
          \/ <<f[i].ts, u>> \in DOMAIN v /\ v[<<f[i].ts, u>>] = f[i].close
      BY <1>1, <2>2 DEF FedOK
    <3> QED
      BY <1>2, <3>1, <3>2, <3>3, <3>4, <3>5
  <2> QED
    BY <1>1, <1>2, <2>1, <2>2
<1>9. FedOK(g, q, u, v2, un2)
  BY <1>8 DEF FedOK
<1> QED
  BY <1>7, <1>9 DEF g

\* A message that is handled: what is confirmed is over, and what is pending
\* is of the candle that runs.
LEMMA ReceivedIInv ==
    ASSUME IInv, NEW close \in Closes, Received(close) PROVE IInv'
<1> DEFINE ts == Start(now, unit)
           k == <<ts, unit>>
           incoming == [ts |-> ts, close |-> close]
           pk == <<pending.ts, unit>>
           v == View(disk)
<1>1. /\ TypeOK /\ Trade(close) /\ phase = "running"
      /\ missed' = (missed \cup Current) \ {k}
      /\ phase' = phase /\ unit' = unit /\ now' = now /\ crashes' = crashes
      /\ Update(incoming) \/ \E saved \in BOOLEAN : Confirm(incoming, saved)
  BY DEF IInv, Received
<1>2. /\ k \in Keys /\ k \in Current /\ ts \in Nat
  BY <1>1, StartKey DEF TypeOK, Current
<1>3. truth' \in [Keys -> Closes] /\ Current \subseteq Keys /\ truth'[k] = close
  BY <1>1, <1>2, TradeTypes DEF Trade
<1>4. missed' \subseteq Keys /\ missed \subseteq missed' \cup Current /\ k \notin missed'
  BY <1>1, <1>2, <1>3 DEF TypeOK
<1>5. /\ incoming \in Candle /\ incoming # NoCandle /\ incoming.ts = ts
      /\ incoming.close = close
  <2>1. incoming \in Candle /\ incoming.ts = ts /\ incoming.close = close
    BY <1>2 DEF Candle
  <2> QED
    BY <2>1, Constants DEF Candle
<1>6. /\ ShapeOK("running", disk, work, intx) /\ RowsOK(v, now, truth, missed)
      /\ PendingOK(pending, unit, v, now, truth, missed)
      /\ FedOK(fed, pending, unit, v, unsaved)
  BY <1>1 DEF IInv
<1> HIDE DEF v, incoming
<1>7. k \notin DOMAIN v
  BY <1>2, <1>6 DEF RowsOK, Over
<1>8. RowsOK(v, now, truth', missed')
  BY <1>1, <1>4, <1>6, TradeKeepsOver DEF RowsOK
<1>9. CASE Update(incoming)
  <2>1. /\ pending # NoCandle => pending.ts = ts
        /\ pending' = incoming /\ UNCHANGED <<disk, work, intx, fed, unsaved>>
    BY <1>5, <1>9 DEF Update, db
  <2>2. TypeOK'
    BY <1>1, <1>3, <1>4, <1>5, <2>1 DEF TypeOK, Candle
  <2>3. PendingOK(incoming, unit, v, now, truth', missed')
    BY <1>2, <1>3, <1>5, <1>7 DEF PendingOK, Final
  <2>4. FedOK(fed, incoming, unit, v, unsaved)
    BY <1>5, <1>6, <2>1 DEF FedOK
  <2> QED
    BY <1>1, <1>6, <1>8, <2>1, <2>2, <2>3, <2>4 DEF IInv, v
<1>10. ASSUME NEW saved \in BOOLEAN, Confirm(incoming, saved) PROVE IInv'
  <2> DEFINE e == IF saved THEN InsertCandle(work, pk, pending.close) ELSE work
             v2 == View(e)
             un2 == IF saved THEN unsaved ELSE unsaved \cup {pk}
  <2>1. /\ pending # NoCandle /\ pending.ts # ts /\ pending' = incoming
        /\ work' = e /\ disk' = e /\ unsaved' = un2 /\ intx' = intx
        /\ fed' = OnCandle(pending)
    BY <1>5, <1>10 DEF Confirm, Confirmed
  <2>2. /\ pending \in Candle /\ pending.ts \in Nat /\ pending.ts < ts
        /\ pk \in Keys /\ pk \notin DOMAIN v
        /\ Final(pk, pending.close, truth, missed)
    BY <1>1, <1>2, <1>6, <2>1 DEF TypeOK, PendingOK, Candle
  <2>3. Over(pk, now)
    BY <2>2 DEF Over
  <2>4. Final(pk, pending.close, truth', missed')
    BY <1>1, <1>4, <2>2, <2>3, TradeKeepsOver
  <2>5. /\ ShapeOK("running", e, e, intx)
        /\ v2 = IF saved THEN Put(v, pk, pending.close) ELSE v
    <3>1. CASE saved
      <4>1. e = InsertCandle(work, pk, pending.close)
        BY <3>1
      <4> HIDE DEF e, pk
      <4>2. /\ ShapeOK("running", e, e, intx)
            /\ View(e) = IF pk \in DOMAIN View(disk) THEN View(disk)
                         ELSE Put(View(disk), pk, pending.close)
        BY <1>6, <4>1, InsertShape
      <4> QED
        BY <2>2, <3>1, <4>2 DEF v
    <3>2. CASE ~saved
      <4>1. e = work /\ work = disk
        BY <1>6, <3>2 DEF ShapeOK
      <4> QED
        BY <1>6, <3>2, <4>1 DEF v
    <3> QED
      BY <3>1, <3>2
  <2> HIDE DEF e, v2, pk
  <2>6. /\ \A x \in DOMAIN v : x \in DOMAIN v2 /\ v2[x] = v[x]
        /\ \A x \in DOMAIN v2 : x \in DOMAIN v \/ (x = pk /\ v2[x] = pending.close)
        /\ saved => pk \in DOMAIN v2 /\ v2[pk] = pending.close
    <3>1. CASE saved
      <4>1. v2 = Put(v, pk, pending.close)
        BY <2>5, <3>1
      <4>2. DOMAIN v2 = DOMAIN v \cup {pk} /\ v2[pk] = pending.close
        BY <4>1 DEF Put
      <4>3. \A x \in DOMAIN v : x # pk => v2[x] = v[x]
        BY <4>1 DEF Put
      <4> QED
        BY <2>2, <4>2, <4>3
    <3>2. CASE ~saved
      BY <2>5, <3>2
    <3> QED
      BY <3>1, <3>2
  <2>7. RowsOK(v2, now, truth', missed')
    BY <1>8, <2>3, <2>4, <2>6 DEF RowsOK
  <2>8. k # pk
    BY <2>2, <1>2 DEF pk
  <2>9. PendingOK(incoming, unit, v2, now, truth', missed')
    <3>1. k \notin DOMAIN v2
      BY <1>7, <2>6, <2>8
    <3> QED
      BY <1>2, <1>3, <1>5, <3>1 DEF PendingOK, Final
  <2>10. unsaved \subseteq un2 /\ un2 \subseteq Keys /\ (pk \in un2 \/ saved)
    BY <1>1, <2>2 DEF TypeOK
  <2> HIDE DEF un2
  <2>11. fed \in Seq(Candle)
    BY <1>1 DEF TypeOK, Candle
  <2>12. /\ fed = <<>> \/ fed[Len(fed)].ts # pending.ts
         /\ FedOK(Append(fed, pending), incoming, unit, v2, un2)
    <3>1. \/ <<pending.ts, unit>> \in un2
          \/ <<pending.ts, unit>> \in DOMAIN v2 /\ v2[<<pending.ts, unit>>] = pending.close
      BY <2>6, <2>10 DEF pk
    <3>2. pending.ts < incoming.ts
      BY <1>5, <2>2
    <3>3. \A x \in DOMAIN v : x \in DOMAIN v2 /\ v2[x] = v[x]
      BY <2>6
    <3>4. unsaved \subseteq un2 /\ pending \in Candle /\ incoming \in Candle
      BY <1>5, <2>2, <2>10
    <3> QED
      BY <1>5, <1>6, <2>11, <3>1, <3>2, <3>3, <3>4, FedGrows
  <2>13. fed' = Append(fed, pending)
    BY <2>1, <2>12 DEF OnCandle
  <2>14. TypeOK'
    <3>1. DOMAIN e \subseteq {"candles", "candles_new"}
      BY <2>5 DEF ShapeOK
    <3>2. fed' \in Seq(Candle)
      BY <2>2, <2>11, <2>13
    <3> QED
      BY <1>1, <1>3, <1>4, <1>5, <2>1, <2>10, <3>1, <3>2 DEF TypeOK, Candle
  <2> QED
    BY <1>1, <2>1, <2>5, <2>7, <2>9, <2>12, <2>13, <2>14 DEF IInv, v2
<1> QED
  BY <1>1, <1>9, <1>10

----------------------------------------------------------------------------
(* The invariant *)

\* The candles of the first database are over.
LEMMA StoredOver ==
    ASSUME NEW s \in Stored
    PROVE  Over(<<s, LegacyUnit>>, FirstTime)
<1> DEFINE L == LegacyUnit
<1>1. /\ s \in Nat /\ s \in 0..MaxTime /\ FirstTime \in 0..MaxTime
      /\ s % L = 0 /\ s + L <= FirstTime /\ L \in Units /\ L \in Nat
  BY Constants DEF Stored
<1>2. Start(s, L) = s
  BY <1>1 DEF Start
<1>3. <<s, L>> \in Keys
  BY <1>1, <1>2 DEF Keys
<1>4. Start(FirstTime, L) \in Nat /\ FirstTime < Start(FirstTime, L) + L
  BY <1>1, StartKey
<1>5. s < Start(FirstTime, L)
  BY <1>1, <1>4, Constants
<1> QED
  BY <1>3, <1>5 DEF Over

\* Each of the three databases a process may find.
LEMMA InitIInv ==
    ASSUME Init PROVE IInv
<1> DEFINE L == LegacyUnit
           oldRows == [k \in {Old(s) : s \in Stored} |-> truth[<<k[1], L>>]]
           newRows == [k \in {<<s, L>> : s \in Stored} |-> truth[k]]
           oldTable == [unit |-> FALSE, rows |-> oldRows]
           newTable == [unit |-> TRUE, rows |-> newRows]
<1>1. /\ now = FirstTime /\ work = disk /\ intx = FALSE /\ phase = "down"
      /\ unit = LegacyUnit /\ pending = NoCandle /\ fed = <<>>
      /\ missed = {} /\ unsaved = {} /\ crashes = 0
  BY DEF Init
<1>2. truth \in [Keys -> Closes]
  <2>1. (CHOOSE c \in Closes : TRUE) \in Closes
    BY Constants
  <2> QED
    BY <2>1 DEF Init
<1>3. \/ disk = <<>>
      \/ disk = [t \in {"candles"} |-> oldTable]
      \/ disk = [t \in {"candles"} |-> newTable]
  BY DEF Init
<1>4. ASSUME ShapeOK("down", disk, disk, FALSE), RowsOK(View(disk), now, truth, missed)
      PROVE  IInv
  <2>1. DOMAIN disk \cup DOMAIN work \subseteq {"candles", "candles_new"}
    BY <1>1, <1>4 DEF ShapeOK
  <2>2. now \in 0..MaxTime /\ crashes \in 0..MaxCrashes /\ unit \in Units
    BY <1>1, Constants
  <2>3. TypeOK
    <3>1. intx \in BOOLEAN
      BY <1>1
    <3>2. fed \in Seq([ts : Nat, close : Closes])
      BY <1>1
    <3>3. missed \cup unsaved \subseteq Keys
      BY <1>1
    <3> QED
      BY <1>1, <1>2, <2>1, <2>2, <3>1, <3>2, <3>3 DEF TypeOK
  <2>4. PendingOK(pending, unit, View(disk), now, truth, missed)
    BY <1>1 DEF PendingOK
  <2>5. FedOK(fed, pending, unit, View(disk), unsaved)
    BY <1>1 DEF FedOK
  <2> QED
    BY <1>1, <1>4, <2>3, <2>4, <2>5 DEF IInv
<1>5. CASE disk = <<>>
  <2>1. DOMAIN disk = {}
    BY <1>5
  <2>2. View(disk) = <<>>
    BY <2>1 DEF View
  <2>3. ShapeOK("down", disk, disk, FALSE)
    BY <2>1 DEF ShapeOK
  <2>4. RowsOK(View(disk), now, truth, missed)
    BY <2>2 DEF RowsOK
  <2> QED
    BY <1>4, <2>3, <2>4
<1>6. CASE disk = [t \in {"candles"} |-> oldTable]
  <2>1. oldTable.unit = FALSE /\ oldTable.rows = oldRows
    OBVIOUS
  <2>2. DOMAIN oldRows = {Old(s) : s \in Stored}
    OBVIOUS
  <2>3. \A s \in Stored : oldRows[Old(s)] = truth[<<s, L>>]
    BY DEF Old
  <2> HIDE DEF oldTable, oldRows
  <2>4. DOMAIN disk = {"candles"} /\ disk["candles"] = oldTable
    BY <1>6
  <2>5. ShapeOK("down", disk, disk, FALSE)
    BY <2>1, <2>4 DEF ShapeOK
  <2>6. View(disk) = [k \in {<<x[1], L>> : x \in DOMAIN oldRows} |-> oldRows[Old(k[1])]]
    BY <2>1, <2>4 DEF View
  <2>7. ASSUME NEW k \in DOMAIN View(disk)
        PROVE  Over(k, now) /\ Final(k, View(disk)[k], truth, missed)
    <3>1. PICK x \in DOMAIN oldRows : k = <<x[1], L>>
      BY <2>6, <2>7
    <3>2. PICK s \in Stored : x = Old(s)
      BY <2>2, <3>1
    <3>3. k = <<s, L>> /\ k[1] = s
      BY <3>1, <3>2 DEF Old
    <3>4. View(disk)[k] = truth[k]
      BY <2>3, <2>6, <3>3
    <3> QED
      BY <1>1, <3>3, <3>4, StoredOver DEF Final
  <2>8. RowsOK(View(disk), now, truth, missed)
    BY <2>7 DEF RowsOK
  <2> QED
    BY <1>4, <2>5, <2>8
<1>7. CASE disk = [t \in {"candles"} |-> newTable]
  <2>1. Present(newTable) /\ newTable.rows = newRows /\ newTable.unit = TRUE
    BY DEF Present
  <2>2. DOMAIN newRows = {<<s, L>> : s \in Stored}
    OBVIOUS
  <2>3. \A k \in DOMAIN newRows : newRows[k] = truth[k]
    OBVIOUS
  <2> HIDE DEF newTable, newRows
  <2>4. DOMAIN disk = {"candles"} /\ disk["candles"] = newTable
    BY <1>7
  <2>5. ShapeOK("down", disk, disk, FALSE)
    BY <2>1, <2>4 DEF ShapeOK
  <2>6. View(disk) = newRows
    BY <2>1, <2>4, PresentView
  <2>7. RowsOK(View(disk), now, truth, missed)
    BY <1>1, <2>2, <2>3, <2>6, StoredOver DEF RowsOK, Final
  <2> QED
    BY <1>4, <2>5, <2>7
<1> QED
  BY <1>3, <1>5, <1>6, <1>7

\* The invariant holds of every reachable state: what the tables are at each
\* statement of open and initSchema, and that what is stored, pending and fed
\* belongs together (Database.cpp:94-191, MarketEngineManager.cpp:504-541).
THEOREM StoreInvariant == Spec => []IInv
<1>1. Init => IInv
  BY InitIInv
<1>2. IInv /\ [Next]_vars => IInv'
  <2> SUFFICES ASSUME IInv, [Next]_vars PROVE IInv'
    OBVIOUS
  <2>1. CASE Startup \/ Crash
    BY <2>1, StartupStarted, StartedIInv
  <2>2. CASE Tick
    BY <2>2, TickIInv
  <2>3. CASE \E close \in Closes : Lost(close) \/ Received(close)
    BY <2>3, LostIInv, ReceivedIInv
  <2>4. CASE UNCHANGED vars
    BY <2>4 DEF IInv, TypeOK, vars, db, market
  <2> QED
    BY <2>1, <2>2, <2>3, <2>4 DEF Next
<1> QED
  BY <1>1, <1>2, PTL DEF Spec

\* The types of the process's and of the exchange's state.
THEOREM StoreTypeCorrect == Spec => []TypeOK
<1>1. IInv => TypeOK
  BY DEF IInv
<1> QED
  BY <1>1, StoreInvariant, PTL

\* What the database shows is the view of its tables.
LEMMA VisibleView == Visible = View(disk)
BY DEF Visible, View

\* Whatever crashes, restarts and changes of unit there are, a stored candle has
\* its final close unless its last update was lost: only a candle that a later
\* one has confirmed is inserted (MarketEngineManager.cpp:504-524).
THEOREM StoredIsFinal == Spec => []RowIsFinal
<1>1. IInv => RowIsFinal
  BY VisibleView DEF IInv, RowIsFinal, RowsOK, Final
<1> QED
  BY <1>1, StoreInvariant, PTL

\* The strategy gets every candle once and in order, and the database has the
\* same close for it unless the insert failed, for any number of units
\* (MarketEngineManager.cpp:520-541, Database.cpp:256-296).
THEOREM StrategySeesStored == Spec => []FedIsStored
<1>1. IInv => FedIsStored
  BY VisibleView DEF IInv, FedIsStored, FedOK
<1> QED
  BY <1>1, StoreInvariant, PTL

\* No step of the program loses or changes a stored candle: not a crash at any
\* statement of the migration, not a repeated candle, not the same start in
\* another unit (Database.cpp:141-191, 256-296).
THEOREM RowsAreKept == Spec => RowsKept
<1> DEFINE Kept == \A k \in DOMAIN Visible :
                       k \in DOMAIN Visible' /\ Visible'[k] = Visible[k]
<1>1. IInv /\ [Next]_vars => [Kept]_vars
  <2> SUFFICES ASSUME IInv, Next PROVE Kept
    OBVIOUS
  <2>1. Visible = View(disk) /\ Visible' = View(disk')
    BY DEF Visible, View
  <2>2. CASE Startup \/ Crash
    <3>1. View(disk') = View(disk)
      BY <2>2, StartupStarted DEF Started
    <3> QED
      BY <2>1, <3>1
  <2>3. CASE Tick
    BY <2>1, <2>3 DEF Tick, db
  <2>4. ASSUME NEW close \in Closes, Lost(close) PROVE Kept
    BY <2>1, <2>4 DEF Lost, db
  <2>5. ASSUME NEW close \in Closes, Received(close) PROVE Kept
    <3> DEFINE incoming == [ts |-> Start(now, unit), close |-> close]
    <3>1. /\ ShapeOK("running", disk, work, intx)
          /\ Update(incoming) \/ \E saved \in BOOLEAN : Confirm(incoming, saved)
      BY <2>5 DEF Received, IInv
    <3>2. CASE Update(incoming)
      BY <2>1, <3>2 DEF Update, db
    <3>3. ASSUME NEW saved \in BOOLEAN, Confirm(incoming, saved) PROVE Kept
      <4> DEFINE c == pending.close
                 k == <<pending.ts, unit>>
                 e == InsertCandle(work, k, c)
      <4>1. disk' = e \/ disk' = disk
        BY <3>1, <3>3 DEF Confirm, Confirmed, ShapeOK
      <4> HIDE DEF c, k
      <4>2. View(e) = IF k \in DOMAIN View(disk) THEN View(disk) ELSE Put(View(disk), k, c)
        BY <3>1, InsertShape
      <4> HIDE DEF e
      <4>3. CASE k \in DOMAIN View(disk)
        BY <2>1, <4>1, <4>2, <4>3
      <4>4. CASE k \notin DOMAIN View(disk)
        <5>1. /\ DOMAIN View(disk) \subseteq DOMAIN Put(View(disk), k, c)
              /\ \A x \in DOMAIN View(disk) : Put(View(disk), k, c)[x] = View(disk)[x]
          BY <4>4 DEF Put
        <5> QED
          BY <2>1, <4>1, <4>2, <4>4, <5>1
      <4> QED
        BY <4>3, <4>4
    <3> QED
      BY <3>1, <3>2, <3>3
  <2> QED
    BY <2>2, <2>3, <2>4, <2>5 DEF Next
<1> QED
  BY <1>1, StoreInvariant, PTL DEF Spec, RowsKept


----------------------------------------------------------------------------
(* Induction over the naturals, for a set of them.                          *)

LEMMA Induction ==
    ASSUME NEW A, 0 \in A, \A i \in Nat : i \in A => i + 1 \in A
    PROVE  \A i \in Nat : i \in A
<1> DEFINE B == Nat \ A
<1> SUFFICES ASSUME B # {} PROVE FALSE
  OBVIOUS
<1>1. PICK x \in B : \A y \in B : <<y, x>> \notin OpToRel(<, Nat)
  <2>1. IsWellFoundedOn(OpToRel(<, Nat), Nat)
    BY NatLessThanWellFounded
  <2> QED
    BY <2>1, WFMin
<1>2. x # 0 /\ x \in Nat
  OBVIOUS
<1>3. x - 1 \in Nat /\ x - 1 < x /\ (x - 1) + 1 = x
  BY <1>2
<1>4. x - 1 \in B
  BY <1>3
<1>5. <<x - 1, x>> \in OpToRel(<, Nat)
  BY <1>2, <1>3 DEF OpToRel
<1> QED
  BY <1>1, <1>4, <1>5

----------------------------------------------------------------------------
(* Recursion along 1..n: what T makes of the index and the value before.    *)

IsRun(f, n, b, T) ==
    f = [i \in 0..n |-> IF i = 0 THEN b ELSE T[<<i, f[i - 1]>>]]

\* Its values, one by one.
LEMMA RunSteps ==
    ASSUME NEW n \in Nat, NEW b \in Int, NEW T \in [Nat \X Int -> Int], NEW f, IsRun(f, n, b, T)
    PROVE  /\ f[0] = b /\ \A i \in 1..n : f[i] = T[<<i, f[i - 1]>>]
           /\ \A i \in 0..n : f[i] \in Int
<1>1. f[0] = b /\ \A i \in 1..n : f[i] = T[<<i, f[i - 1]>>]
  BY DEF IsRun
<1> DEFINE A == {i \in Nat : i <= n => f[i] \in Int}
<1>2. 0 \in A
  BY <1>1
<1>3. ASSUME NEW i \in Nat, i \in A PROVE i + 1 \in A
  <2> SUFFICES ASSUME i + 1 <= n PROVE f[i + 1] \in Int
    OBVIOUS
  <2>1. f[i] \in Int /\ i + 1 \in 1..n /\ (i + 1) - 1 = i
    BY <1>3
  <2>2. f[i + 1] = T[<<i + 1, f[i]>>]
    BY <1>1, <2>1
  <2> QED
    BY <2>1, <2>2
<1> HIDE DEF A
<1>4. \A i \in Nat : i \in A
  BY <1>2, <1>3, Induction
<1> QED
  BY <1>1, <1>4 DEF A

\* There is one.
LEMMA RunExists ==
    ASSUME NEW n \in Nat, NEW b \in Int, NEW T \in [Nat \X Int -> Int]
    PROVE  \E f : IsRun(f, n, b, T)
<1> DEFINE A == {k \in Nat : \E f : IsRun(f, k, b, T)}
<1>1. 0 \in A
  <2> DEFINE f == [i \in 0..0 |-> b]
  <2>1. f = [i \in 0..0 |-> IF i = 0 THEN b ELSE T[<<i, f[i - 1]>>]]
    OBVIOUS
  <2> QED
    BY <2>1 DEF IsRun
<1>2. ASSUME NEW k \in Nat, k \in A PROVE k + 1 \in A
  <2>1. PICK f : IsRun(f, k, b, T)
    BY <1>2
  <2> DEFINE g == [i \in 0..(k + 1) |-> IF i <= k THEN f[i] ELSE T[<<k + 1, f[k]>>]]
  <2>2. f[0] = b /\ \A i \in 1..k : f[i] = T[<<i, f[i - 1]>>]
    BY <2>1, RunSteps
  <2>3. (\A i \in 0..k : g[i] = f[i]) /\ g[k + 1] = T[<<k + 1, f[k]>>]
    OBVIOUS
  <2> HIDE DEF g
  <2>4. ASSUME NEW i \in 0..(k + 1), i # 0 PROVE g[i] = T[<<i, g[i - 1]>>]
    <3>1. CASE i \in 1..k
      <4>1. i \in 0..k /\ i - 1 \in 0..k
        BY <3>1
      <4> QED
        BY <2>2, <2>3, <3>1, <4>1
    <3>2. CASE i = k + 1
      <4>1. i - 1 = k /\ k \in 0..k
        BY <3>2
      <4> QED
        BY <2>3, <3>2, <4>1
    <3> QED
      BY <2>4, <3>1, <3>2
  <2>5. g[0] = b
    BY <2>2, <2>3
  <2>6. g = [i \in 0..(k + 1) |-> IF i = 0 THEN b ELSE T[<<i, g[i - 1]>>]]
    BY <2>4, <2>5 DEF g
  <2> QED
    BY <2>6 DEF IsRun
<1> HIDE DEF A
<1>3. \A k \in Nat : k \in A
  BY <1>1, <1>2, Induction
<1> QED
  BY <1>3 DEF A

\* There is only one.
LEMMA RunUnique ==
    ASSUME NEW n \in Nat, NEW m \in Nat, m <= n, NEW b \in Int, NEW T \in [Nat \X Int -> Int],
           NEW f, IsRun(f, n, b, T), NEW g, IsRun(g, m, b, T)
    PROVE  f[m] = g[m]
<1> DEFINE A == {i \in Nat : i <= m => f[i] = g[i]}
<1>1. /\ f[0] = b /\ \A i \in 1..n : f[i] = T[<<i, f[i - 1]>>]
      /\ g[0] = b /\ \A i \in 1..m : g[i] = T[<<i, g[i - 1]>>]
  BY RunSteps
<1>2. 0 \in A
  BY <1>1
<1>3. ASSUME NEW i \in Nat, i \in A PROVE i + 1 \in A
  <2> SUFFICES ASSUME i + 1 <= m PROVE f[i + 1] = g[i + 1]
    OBVIOUS
  <2>1. f[i] = g[i] /\ i + 1 \in 1..m /\ i + 1 \in 1..n /\ (i + 1) - 1 = i
    BY <1>3
  <2> QED
    BY <1>1, <2>1
<1> HIDE DEF A
<1>4. \A i \in Nat : i \in A
  BY <1>2, <1>3, Induction
<1> QED
  BY <1>4 DEF A

----------------------------------------------------------------------------
(* Powers *)

Times(a) == [p \in Nat \X Int |-> a * p[2]]

IsPower(g, a, k) == g = [i \in 0..k |-> IF i = 0 THEN 1 ELSE a * g[i - 1]]

\* The function that Power chooses is such a recursion.
LEMMA PowerIsRun ==
    ASSUME NEW a \in Int, NEW k \in Nat, NEW g
    PROVE  IsPower(g, a, k) <=> IsRun(g, k, 1, Times(a))
<1>1. Times(a) \in [Nat \X Int -> Int]
  BY DEF Times
<1>2. ASSUME IsPower(g, a, k) \/ IsRun(g, k, 1, Times(a)) PROVE \A i \in 0..k : g[i] \in Int
  <2>1. CASE IsRun(g, k, 1, Times(a))
    BY <1>1, <2>1, RunSteps
  <2>2. CASE IsPower(g, a, k)
    <3>1. g[0] = 1 /\ \A i \in 1..k : g[i] = a * g[i - 1]
      BY <2>2 DEF IsPower
    <3> DEFINE A == {i \in Nat : i <= k => g[i] \in Int}
    <3>2. 0 \in A
      BY <3>1
    <3>3. ASSUME NEW i \in Nat, i \in A PROVE i + 1 \in A
      <4> SUFFICES ASSUME i + 1 <= k PROVE g[i + 1] \in Int
        OBVIOUS
      <4>1. g[i] \in Int /\ i + 1 \in 1..k /\ (i + 1) - 1 = i
        BY <3>3
      <4>2. g[i + 1] = a * g[i]
        BY <3>1, <4>1
      <4> QED
        BY <4>1, <4>2
    <3> HIDE DEF A
    <3>4. \A i \in Nat : i \in A
      BY <3>2, <3>3, Induction
    <3> QED
      BY <3>4 DEF A
  <2> QED
    BY <1>2, <2>1, <2>2
<1>3. ASSUME \A i \in 0..k : g[i] \in Int, NEW i \in 0..k, i # 0
      PROVE  Times(a)[<<i, g[i - 1]>>] = a * g[i - 1]
  BY <1>3 DEF Times
<1> QED
  BY <1>2, <1>3 DEF IsRun, IsPower

\* So Power is its value at k.
LEMMA PowerRun ==
    ASSUME NEW a \in Int, NEW k \in Nat
    PROVE  \E f : IsRun(f, k, 1, Times(a)) /\ Power(a, k) = f[k]
<1> DEFINE pw == CHOOSE f : IsPower(f, a, k)
<1>1. Times(a) \in [Nat \X Int -> Int]
  BY DEF Times
<1>2. \E f : IsPower(f, a, k)
  BY <1>1, RunExists, PowerIsRun
<1>3. IsPower(pw, a, k)
  BY <1>2
<1>4. Power(a, k) = pw[k]
  BY DEF Power, IsPower
<1> HIDE DEF pw
<1> QED
  BY <1>3, <1>4, PowerIsRun

\* Powers as they are calculated.
LEMMA PowerStep ==
    ASSUME NEW a \in Int, NEW k \in Nat
    PROVE  /\ Power(a, 0) = 1 /\ Power(a, k) \in Int
           /\ Power(a, k + 1) = a * Power(a, k)
<1>1. Times(a) \in [Nat \X Int -> Int]
  BY DEF Times
<1>2. PICK f : IsRun(f, k, 1, Times(a)) /\ Power(a, k) = f[k]
  BY PowerRun
<1>3. PICK g : IsRun(g, k + 1, 1, Times(a)) /\ Power(a, k + 1) = g[k + 1]
  BY PowerRun
<1>4. PICK h : IsRun(h, 0, 1, Times(a)) /\ Power(a, 0) = h[0]
  BY PowerRun
<1>5. h[0] = 1 /\ f[k] \in Int
  BY <1>1, <1>2, <1>4, RunSteps
<1>6. g[k] = f[k]
  BY <1>1, <1>2, <1>3, RunUnique
<1>7. g[k + 1] = Times(a)[<<k + 1, g[k]>>]
  <2>1. k + 1 \in 1..(k + 1) /\ (k + 1) - 1 = k
    OBVIOUS
  <2> QED
    BY <1>1, <1>3, <2>1, RunSteps
<1>8. Times(a)[<<k + 1, g[k]>>] = a * g[k]
  BY <1>5, <1>6 DEF Times
<1> QED
  BY <1>2, <1>3, <1>4, <1>5, <1>6, <1>7, <1>8

----------------------------------------------------------------------------
(* Sums *)

\* f has integers at 1..n.
Ints(f, n) == \A i \in 1..n : f[i] \in Int

AddTo(f, n) == [p \in Nat \X Int |-> p[2] + IF p[1] \in 1..n THEN f[p[1]] ELSE 0]

IsSum(g, f, k) == g = [i \in 0..k |-> IF i = 0 THEN 0 ELSE g[i - 1] + f[i]]

\* AddTo gives integers.
LEMMA AddToType ==
    ASSUME NEW n \in Nat, NEW f, Ints(f, n)
    PROVE  AddTo(f, n) \in [Nat \X Int -> Int]
<1>1. \A p \in Nat \X Int : p[2] + (IF p[1] \in 1..n THEN f[p[1]] ELSE 0) \in Int
  BY DEF Ints
<1> QED
  BY <1>1 DEF AddTo

\* The function that SumTo chooses is such a recursion.
LEMMA SumIsRun ==
    ASSUME NEW n \in Nat, NEW k \in Nat, k <= n, NEW f, Ints(f, n), NEW g
    PROVE  IsSum(g, f, k) <=> IsRun(g, k, 0, AddTo(f, n))
<1>1. AddTo(f, n) \in [Nat \X Int -> Int]
  BY AddToType
<1>2. ASSUME IsSum(g, f, k) \/ IsRun(g, k, 0, AddTo(f, n)) PROVE \A i \in 0..k : g[i] \in Int
  <2>1. CASE IsRun(g, k, 0, AddTo(f, n))
    BY <1>1, <2>1, RunSteps
  <2>2. CASE IsSum(g, f, k)
    <3>1. g[0] = 0 /\ \A i \in 1..k : g[i] = g[i - 1] + f[i]
      BY <2>2 DEF IsSum
    <3> DEFINE A == {i \in Nat : i <= k => g[i] \in Int}
    <3>2. 0 \in A
      BY <3>1
    <3>3. ASSUME NEW i \in Nat, i \in A PROVE i + 1 \in A
      <4> SUFFICES ASSUME i + 1 <= k PROVE g[i + 1] \in Int
        OBVIOUS
      <4>1. g[i] \in Int /\ i + 1 \in 1..k /\ (i + 1) - 1 = i /\ i + 1 \in 1..n
        BY <3>3
      <4>2. g[i + 1] = g[i] + f[i + 1] /\ f[i + 1] \in Int
        BY <3>1, <4>1 DEF Ints
      <4> QED
        BY <4>1, <4>2
    <3> HIDE DEF A
    <3>4. \A i \in Nat : i \in A
      BY <3>2, <3>3, Induction
    <3> QED
      BY <3>4 DEF A
  <2> QED
    BY <1>2, <2>1, <2>2
<1>3. ASSUME \A i \in 0..k : g[i] \in Int, NEW i \in 0..k, i # 0
      PROVE  AddTo(f, n)[<<i, g[i - 1]>>] = g[i - 1] + f[i]
  <2>1. i \in 1..n /\ <<i, g[i - 1]>> \in Nat \X Int
    BY <1>3
  <2> QED
    BY <2>1 DEF AddTo
<1> QED
  BY <1>2, <1>3 DEF IsRun, IsSum

\* So SumTo is its value at n.
LEMMA SumRun ==
    ASSUME NEW n \in Nat, NEW k \in Nat, k <= n, NEW f, Ints(f, n)
    PROVE  \E g : IsRun(g, k, 0, AddTo(f, n)) /\ SumTo(k, f) = g[k]
<1> DEFINE s == CHOOSE g : IsSum(g, f, k)
<1>1. AddTo(f, n) \in [Nat \X Int -> Int]
  BY AddToType
<1>2. \E g : IsSum(g, f, k)
  BY <1>1, RunExists, SumIsRun
<1>3. IsSum(s, f, k)
  BY <1>2
<1>4. SumTo(k, f) = s[k]
  BY DEF SumTo, IsSum
<1> HIDE DEF s
<1> QED
  BY <1>3, <1>4, SumIsRun

\* Sums as they are calculated.
LEMMA SumStep ==
    ASSUME NEW n \in Nat, NEW k \in Nat, k < n, NEW f, Ints(f, n)
    PROVE  /\ SumTo(k, f) \in Int
           /\ SumTo(k + 1, f) = SumTo(k, f) + f[k + 1]
<1>1. AddTo(f, n) \in [Nat \X Int -> Int]
  BY AddToType
<1>2. PICK g : IsRun(g, k, 0, AddTo(f, n)) /\ SumTo(k, f) = g[k]
  BY SumRun
<1>3. PICK h : IsRun(h, k + 1, 0, AddTo(f, n)) /\ SumTo(k + 1, f) = h[k + 1]
  BY SumRun
<1>4. g[k] \in Int
  BY <1>1, <1>2, RunSteps
<1>5. h[k] = g[k]
  BY <1>1, <1>2, <1>3, RunUnique
<1>6. h[k + 1] = AddTo(f, n)[<<k + 1, h[k]>>]
  <2>1. k + 1 \in 1..(k + 1) /\ (k + 1) - 1 = k
    OBVIOUS
  <2> QED
    BY <1>1, <1>3, <2>1, RunSteps
<1>7. AddTo(f, n)[<<k + 1, h[k]>>] = h[k] + f[k + 1]
  BY <1>4, <1>5 DEF AddTo
<1> QED
  BY <1>2, <1>3, <1>4, <1>5, <1>6, <1>7

\* The empty sum.
LEMMA SumZero ==
    ASSUME NEW f
    PROVE  SumTo(0, f) = 0
<1>1. Ints(f, 0)
  BY DEF Ints
<1>2. AddTo(f, 0) \in [Nat \X Int -> Int]
  BY <1>1, AddToType
<1>3. PICK g : IsRun(g, 0, 0, AddTo(f, 0)) /\ SumTo(0, f) = g[0]
  BY <1>1, SumRun
<1> QED
  BY <1>2, <1>3, RunSteps

\* A sum of integers is one.
LEMMA SumType ==
    ASSUME NEW n \in Nat, NEW f, Ints(f, n)
    PROVE  SumTo(n, f) \in Int
<1>1. AddTo(f, n) \in [Nat \X Int -> Int]
  BY AddToType
<1>2. PICK g : IsRun(g, n, 0, AddTo(f, n)) /\ SumTo(n, f) = g[n]
  BY SumRun
<1> QED
  BY <1>1, <1>2, RunSteps

\* The last value apart.
LEMMA SumLast ==
    ASSUME NEW n \in Nat, NEW f, Ints(f, n + 1)
    PROVE  SumTo(n + 1, f) = SumTo(n, f) + f[n + 1]
BY SumStep

\* A step of the linear combination of two sums.
LEMMA Distribute ==
    ASSUME NEW a \in Int, NEW c \in Int, NEW x \in Int, NEW y \in Int, NEW u \in Int, NEW v \in Int
    PROVE  (a * x + c * y) + (a * u + c * v) = a * (x + u) + c * (y + v)
OBVIOUS

\* The sum of a linear combination.
LEMMA SumLinear ==
    ASSUME NEW n \in Nat, NEW a \in Int, NEW c \in Int, NEW f, NEW g, NEW h,
           Ints(f, n), Ints(g, n), \A i \in 1..n : h[i] = a * f[i] + c * g[i]
    PROVE  SumTo(n, h) = a * SumTo(n, f) + c * SumTo(n, g)
<1>1. Ints(h, n)
  BY DEF Ints
<1> DEFINE A == {k \in Nat : k <= n => SumTo(k, h) = a * SumTo(k, f) + c * SumTo(k, g)}
<1>2. 0 \in A
  BY SumZero
<1>3. ASSUME NEW k \in Nat, k \in A PROVE k + 1 \in A
  <2> SUFFICES ASSUME k + 1 <= n
               PROVE  SumTo(k + 1, h) = a * SumTo(k + 1, f) + c * SumTo(k + 1, g)
    OBVIOUS
  <2> DEFINE F == SumTo(k, f)
             G == SumTo(k, g)
             u == f[k + 1]
             v == g[k + 1]
  <2>1. SumTo(k, h) = a * F + c * G
    BY <1>3
  <2>2. /\ SumTo(k + 1, h) = SumTo(k, h) + h[k + 1]
        /\ SumTo(k + 1, f) = F + u /\ SumTo(k + 1, g) = G + v
        /\ F \in Int /\ G \in Int
    BY <1>1, SumStep
  <2>3. h[k + 1] = a * u + c * v /\ u \in Int /\ v \in Int
    BY DEF Ints
  <2> HIDE DEF F, G, u, v
  <2>4. (a * F + c * G) + (a * u + c * v) = a * (F + u) + c * (G + v)
    BY <2>2, <2>3, Distribute
  <2> QED
    BY <2>1, <2>2, <2>3, <2>4
<1> HIDE DEF A
<1>4. \A k \in Nat : k \in A
  BY <1>2, <1>3, Induction
<1> QED
  BY <1>4 DEF A

\* Sums over the same values are the same.
LEMMA SumSame ==
    ASSUME NEW n \in Nat, NEW f, NEW g, Ints(f, n), \A i \in 1..n : g[i] = f[i]
    PROVE  SumTo(n, g) = SumTo(n, f)
<1>1. \A i \in 1..n : g[i] = 1 * f[i] + 0 * f[i]
  BY DEF Ints
<1>2. SumTo(n, g) = 1 * SumTo(n, f) + 0 * SumTo(n, f)
  BY <1>1, SumLinear
<1> QED
  BY <1>2, SumType

\* The first value apart.
LEMMA SumFirst ==
    ASSUME NEW n \in Nat, NEW f, NEW g, Ints(f, n + 1), \A i \in 1..n : g[i] = f[i + 1]
    PROVE  SumTo(n + 1, f) = f[1] + SumTo(n, g)
<1>1. Ints(g, n) /\ f[1] \in Int
  BY DEF Ints
<1> DEFINE A == {k \in Nat : k <= n => SumTo(k + 1, f) = f[1] + SumTo(k, g)}
<1>2. 0 \in A
  <2>1. SumTo(0 + 1, f) = SumTo(0, f) + f[0 + 1]
    BY SumStep
  <2> QED
    BY <1>1, <2>1, SumZero
<1>3. ASSUME NEW k \in Nat, k \in A PROVE k + 1 \in A
  <2> SUFFICES ASSUME k + 1 <= n PROVE SumTo((k + 1) + 1, f) = f[1] + SumTo(k + 1, g)
    OBVIOUS
  <2>1. SumTo(k + 1, f) = f[1] + SumTo(k, g)
    BY <1>3
  <2>2. SumTo((k + 1) + 1, f) = SumTo(k + 1, f) + f[(k + 1) + 1]
    BY SumStep
  <2>3. SumTo(k + 1, g) = SumTo(k, g) + g[k + 1] /\ SumTo(k, g) \in Int
    BY <1>1, SumStep
  <2>4. g[k + 1] = f[(k + 1) + 1] /\ g[k + 1] \in Int
    BY <1>1 DEF Ints
  <2> QED
    BY <1>1, <2>1, <2>2, <2>3, <2>4
<1> HIDE DEF A
<1>4. \A k \in Nat : k \in A
  BY <1>2, <1>3, Induction
<1> QED
  BY <1>4 DEF A

----------------------------------------------------------------------------
(* The squares of the differences of all pairs are the variance. *)

Ones(n) == [i \in 1..n |-> 1]

Squares(w, n) == [i \in 1..n |-> w[i] * w[i]]

\* Ones are integers.
LEMMA OnesInts ==
    ASSUME NEW n \in Nat
    PROVE  Ints(Ones(n), n)
BY DEF Ints, Ones

\* So are squares.
LEMMA SquaresInts ==
    ASSUME NEW n \in Nat, NEW w, Ints(w, n)
    PROVE  Ints(Squares(w, n), n)
BY DEF Ints, Squares

\* n ones make n.
LEMMA SumOnes ==
    ASSUME NEW n \in Nat
    PROVE  SumTo(n, Ones(n)) = n
<1> DEFINE f == Ones(n)
           A == {k \in Nat : k <= n => SumTo(k, f) = k}
<1>1. Ints(f, n) /\ \A i \in 1..n : f[i] = 1
  BY OnesInts DEF Ones
<1> HIDE DEF f
<1>2. 0 \in A
  BY SumZero
<1>3. ASSUME NEW k \in Nat, k \in A PROVE k + 1 \in A
  <2> SUFFICES ASSUME k + 1 <= n PROVE SumTo(k + 1, f) = k + 1
    OBVIOUS
  <2>1. SumTo(k + 1, f) = SumTo(k, f) + f[k + 1]
    BY <1>1, SumStep
  <2>2. SumTo(k, f) = k /\ f[k + 1] = 1
    BY <1>1, <1>3
  <2> QED
    BY <2>1, <2>2
<1> HIDE DEF A
<1>4. \A k \in Nat : k \in A
  BY <1>2, <1>3, Induction
<1>5. n \in A
  BY <1>4
<1> QED
  BY <1>5 DEF A, f

\* The binomial, in the order the sums need it.
LEMMA SquareOfDifference ==
    ASSUME NEW x \in Int, NEW y \in Int
    PROVE  (x - y) * (x - y) = 1 * ((-2 * x) * y + 1 * (y * y)) + (x * x) * 1
OBVIOUS

\* The differences from one value.
LEMMA RowSum ==
    ASSUME NEW n \in Nat, NEW w, Ints(w, n), NEW x \in Int
    PROVE  SumTo(n, [j \in 1..n |-> (x - w[j]) * (x - w[j])])
           = (n * (x * x) + (-2 * x) * SumTo(n, w)) + SumTo(n, Squares(w, n))
<1> DEFINE sq == Squares(w, n)
           one == Ones(n)
           g == [j \in 1..n |-> (-2 * x) * w[j] + 1 * sq[j]]
           h == [j \in 1..n |-> (x - w[j]) * (x - w[j])]
           S == SumTo(n, w)
           Q == SumTo(n, sq)
           c == -2 * x
           d == x * x
<1>1. /\ Ints(sq, n) /\ Ints(one, n) /\ S \in Int /\ Q \in Int /\ SumTo(n, one) = n
      /\ c \in Int /\ d \in Int
  BY SquaresInts, OnesInts, SumOnes, SumType
<1>2. \A j \in 1..n : sq[j] = w[j] * w[j] /\ one[j] = 1 /\ w[j] \in Int
  BY DEF Squares, Ones, Ints
<1>3. \A j \in 1..n : g[j] = c * w[j] + 1 * sq[j]
  OBVIOUS
<1>4. \A j \in 1..n : h[j] = 1 * g[j] + d * one[j]
  <2> TAKE j \in 1..n
  <2>1. w[j] \in Int /\ sq[j] = w[j] * w[j] /\ one[j] = 1
    BY <1>2
  <2>2. h[j] = (x - w[j]) * (x - w[j]) /\ g[j] = (-2 * x) * w[j] + 1 * (w[j] * w[j])
    BY <2>1
  <2>3. (x - w[j]) * (x - w[j]) = 1 * ((-2 * x) * w[j] + 1 * (w[j] * w[j])) + (x * x) * 1
    BY <2>1, SquareOfDifference
  <2> QED
    BY <2>1, <2>2, <2>3
<1> HIDE DEF sq, one, g, h, S, Q, c, d
<1>5. Ints(g, n)
  <2> SUFFICES ASSUME NEW j \in 1..n PROVE g[j] \in Int
    BY DEF Ints
  <2>1. w[j] \in Int /\ sq[j] \in Int
    BY <1>1 DEF Ints
  <2>2. c * w[j] \in Int /\ 1 * sq[j] \in Int
    BY <1>1, <2>1
  <2> QED
    BY <1>3, <2>2
<1>6. SumTo(n, g) = c * S + 1 * Q
  BY <1>1, <1>3, SumLinear DEF S, Q
<1>7. SumTo(n, h) = 1 * SumTo(n, g) + d * SumTo(n, one)
  <2> DEFINE u == 1
  <2>1. u \in Int /\ \A j \in 1..n : h[j] = u * g[j] + d * one[j]
    BY <1>4
  <2>2. Ints(one, n) /\ d \in Int
    BY <1>1
  <2> HIDE DEF u
  <2>3. SumTo(n, h) = u * SumTo(n, g) + d * SumTo(n, one)
    BY <1>5, <2>1, <2>2, SumLinear
  <2> QED
    BY <2>3 DEF u
<1>8. c * S \in Int /\ d * n = n * d /\ n * d \in Int
  BY <1>1
<1>9. SumTo(n, h) = (n * d + c * S) + Q
  BY <1>1, <1>6, <1>7, <1>8
<1> QED
  BY <1>9 DEF h, d, c, S, Q, sq

\* The differences of all pairs, squared, are twice what the volatility computes
\* from its two running sums (ChangeVolatilityIndicator.cpp:87-100).
LEMMA SpreadIsVariance ==
    ASSUME NEW n \in Nat, NEW w, Ints(w, n)
    PROVE  LET S == SumTo(n, w)
               Q == SumTo(n, Squares(w, n))
           IN  Spread(w, n) = 2 * (n * Q - S * S)
<1> DEFINE sq == Squares(w, n)
           one == Ones(n)
           S == SumTo(n, w)
           Q == SumTo(n, sq)
           c == -2 * S
           rows == [i \in 1..n |-> SumTo(n, [j \in 1..n |-> (w[i] - w[j]) * (w[i] - w[j])])]
           g == [i \in 1..n |-> n * sq[i] + c * w[i]]
<1>1. /\ Ints(sq, n) /\ Ints(one, n) /\ S \in Int /\ Q \in Int /\ SumTo(n, one) = n
      /\ c \in Int
  BY SquaresInts, OnesInts, SumOnes, SumType
<1>2. ASSUME NEW i \in 1..n PROVE rows[i] = 1 * g[i] + Q * one[i] /\ g[i] \in Int
  <2> DEFINE x == w[i]
  <2>1. x \in Int /\ sq[i] = x * x /\ one[i] = 1
    BY DEF Squares, Ones, Ints
  <2>2. rows[i] = SumTo(n, [j \in 1..n |-> (x - w[j]) * (x - w[j])])
    OBVIOUS
  <2>3. g[i] = n * (x * x) + (-2 * S) * x
    BY <2>1
  <2> HIDE DEF x
  <2>4. SumTo(n, [j \in 1..n |-> (x - w[j]) * (x - w[j])])
        = (n * (x * x) + (-2 * x) * S) + Q
    BY <2>1, RowSum
  <2> HIDE DEF rows, g, S, Q, sq, one, c
  <2>5. (-2 * x) * S = (-2 * S) * x /\ n * (x * x) + (-2 * S) * x \in Int
    BY <1>1, <2>1
  <2> QED
    BY <1>1, <2>1, <2>2, <2>3, <2>4, <2>5
<1>3. \A i \in 1..n : g[i] = n * sq[i] + c * w[i]
  OBVIOUS
<1>4. Spread(w, n) = SumTo(n, rows)
  BY DEF Spread
<1> HIDE DEF sq, one, S, Q, rows, g
<1>5. Ints(g, n)
  BY <1>2 DEF Ints
<1>6. SumTo(n, g) = n * Q + c * S
  BY <1>1, <1>3, SumLinear DEF S, Q
<1>7. SumTo(n, rows) = 1 * SumTo(n, g) + Q * n
  <2> DEFINE u == 1
  <2>1. u \in Int /\ \A i \in 1..n : rows[i] = u * g[i] + Q * one[i]
    BY <1>2
  <2>2. Ints(one, n) /\ Q \in Int
    BY <1>1
  <2> HIDE DEF u
  <2>3. SumTo(n, rows) = u * SumTo(n, g) + Q * SumTo(n, one)
    BY <1>5, <2>1, <2>2, SumLinear
  <2> QED
    BY <1>1, <2>3 DEF u
<1>8. Q * n = n * Q /\ c * S = -2 * (S * S) /\ n * Q \in Int /\ S * S \in Int
  BY <1>1
<1>9. SumTo(n, rows) = 2 * (n * Q - S * S)
  BY <1>1, <1>6, <1>7, <1>8
<1> QED
  BY <1>4, <1>9 DEF S, Q, sq

----------------------------------------------------------------------------
(* The ring buffer *)

LEMMA Wrap ==
    ASSUME NEW n \in Nat, n > 0, NEW x \in Nat, x < 2 * n
    PROVE  x % n = IF x < n THEN x ELSE x - n
OBVIOUS

\* The place k after place h of a ring with n places.
At(h, k, n) == IF h + k < n THEN h + k ELSE (h + k) - n

\* At is the remainder that the ring buffer computes.
LEMMA WrapAt ==
    ASSUME NEW n \in Nat, n > 0, NEW h \in Nat, h < n, NEW k \in Nat, k <= n
    PROVE  (h + k) % n = At(h, k, n)
<1> DEFINE x == h + k
<1>1. x \in Nat /\ x < 2 * n
  OBVIOUS
<1> HIDE DEF x
<1>2. x % n = IF x < n THEN x ELSE x - n
  BY <1>1, Wrap
<1> QED
  BY <1>2 DEF x, At

\* Ring b of capacity n holds the last values of s.
RingOK(b, n, s) ==
    /\ b \in [buf : [0..(n - 1) -> Int], cap : {n}, head : Nat, size : Nat]
    /\ b.size = IF Len(s) <= n THEN Len(s) ELSE n
    /\ n > 0 => b.head < n
    /\ b.size < n => b.head = 0
    /\ \A i \in 1..b.size : b.buf[At(b.head, i - 1, n)] = s[(Len(s) - b.size) + i]

\* The fields of a ring.
LEMMA RingFields ==
    ASSUME NEW n \in Nat, NEW b, NEW s \in Seq(Int), RingOK(b, n, s)
    PROVE  /\ b \in [buf : [0..(n - 1) -> Int], cap : {n}, head : Nat, size : Nat]
           /\ b.cap = n /\ b.head \in Nat /\ b.size \in Nat /\ b.size <= n
           /\ b.size = IF Len(s) <= n THEN Len(s) ELSE n
           /\ b.buf \in [0..(n - 1) -> Int]
BY DEF RingOK

\* A new ring.
LEMMA RingNew ==
    ASSUME NEW n \in Nat
    PROVE  RingOK(Ring(n), n, <<>>)
BY DEF RingOK, Ring

\* A cleared one, whatever stays in the vector (RingBuffer.h).
LEMMA RingClear ==
    ASSUME NEW n \in Nat, NEW b, NEW s \in Seq(Int), RingOK(b, n, s)
    PROVE  RingOK(ClearRing(b), n, <<>>)
<1> DEFINE c == ClearRing(b)
<1>1. c = [b EXCEPT !.head = 0, !.size = 0]
  BY DEF ClearRing
<1>2. b \in [buf : [0..(n - 1) -> Int], cap : {n}, head : Nat, size : Nat]
  BY RingFields
<1> HIDE DEF c
<1>3. /\ c \in [buf : [0..(n - 1) -> Int], cap : {n}, head : Nat, size : Nat]
      /\ c.head = 0 /\ c.size = 0
  BY <1>1, <1>2
<1>4. RingOK(c, n, <<>>)
  BY <1>3 DEF RingOK
<1> QED
  BY <1>4 DEF c

\* What a push overwrites.
LEMMA RingOverwrites ==
    ASSUME NEW n \in Nat, NEW b, NEW s \in Seq(Int), RingOK(b, n, s)
    PROVE  /\ Full(b) <=> n > 0 /\ Len(s) >= n
           /\ Overwritten(b) = IF n > 0 /\ Len(s) >= n THEN s[(Len(s) - n) + 1] ELSE 0
<1>1. b.cap = n /\ b.size = IF Len(s) <= n THEN Len(s) ELSE n
  BY RingFields
<1>2. Full(b) <=> n > 0 /\ Len(s) >= n
  BY <1>1 DEF Full
<1>3. ASSUME n > 0, Len(s) >= n PROVE b.buf[b.head] = s[(Len(s) - n) + 1]
  <2>1. b.size = n /\ 1 \in 1..b.size /\ b.head \in Nat /\ b.head < n
    BY <1>1, <1>3 DEF RingOK
  <2>2. b.buf[At(b.head, 1 - 1, n)] = s[(Len(s) - b.size) + 1]
    BY <2>1 DEF RingOK
  <2>3. At(b.head, 1 - 1, n) = b.head
    BY <1>3, <2>1 DEF At
  <2> QED
    BY <2>1, <2>2, <2>3
<1> QED
  BY <1>2, <1>3 DEF Overwritten

\* A push into a ring that is full.
LEMMA PushFull ==
    ASSUME NEW n \in Nat, n > 0, NEW b, NEW s \in Seq(Int), RingOK(b, n, s), NEW v \in Int,
           Len(s) >= n
    PROVE  RingOK(Push(b, v), n, Append(s, v))
<1> DEFINE c == Push(b, v)
           t == Append(s, v)
           hd == b.head
           d == At(hd, 1, n)
           L == Len(s)
           old == b.buf
<1>1. /\ b \in [buf : [0..(n - 1) -> Int], cap : {n}, head : Nat, size : Nat]
      /\ b.size = n /\ hd \in Nat /\ hd < n /\ b.cap = n /\ L \in Nat /\ L >= n
      /\ old \in [0..(n - 1) -> Int]
  BY RingFields DEF RingOK
<1>2. (hd + 1) % n = d
  BY <1>1, WrapAt
<1>3. c = [b EXCEPT !.buf = [old EXCEPT ![hd] = v], !.head = d]
  <2>1. c = [b EXCEPT !.buf[hd] = v, !.head = (hd + 1) % n]
    BY <1>1 DEF Push
  <2> QED
    BY <1>2, <2>1
<1>4. d \in Nat /\ d < n /\ hd \in 0..(n - 1)
  BY <1>1 DEF At
<1>5. [old EXCEPT ![hd] = v] \in [0..(n - 1) -> Int]
  BY <1>1, <1>4
<1>6. /\ c \in [buf : [0..(n - 1) -> Int], cap : {n}, head : Nat, size : Nat]
      /\ c.buf = [old EXCEPT ![hd] = v] /\ c.head = d /\ c.size = n
  <2> HIDE DEF d, old, hd, c
  <2> QED
    BY <1>1, <1>3, <1>4, <1>5
<1>7. Len(t) = L + 1 /\ t[L + 1] = v /\ \A i \in 1..L : t[i] = s[i]
  OBVIOUS
<1>8. \A i \in 1..n : old[At(hd, i - 1, n)] = s[(L - n) + i]
  BY <1>1 DEF RingOK
<1> HIDE DEF c, t, hd, L, old
<1>9. ASSUME NEW i \in 1..n PROVE c.buf[At(d, i - 1, n)] = t[(Len(t) - n) + i]
  <2>1. CASE i < n
    <3> DEFINE p == At(hd, i, n)
    <3>1. At(d, i - 1, n) = p /\ p # hd /\ p \in 0..(n - 1)
      BY <1>1, <2>1 DEF At
    <3>2. i + 1 \in 1..n /\ (i + 1) - 1 = i
      BY <2>1
    <3>3. old[p] = s[(L - n) + (i + 1)]
      BY <1>8, <3>2
    <3>4. (Len(t) - n) + i = (L - n) + (i + 1) /\ (L - n) + (i + 1) \in 1..L
      BY <1>1, <1>7, <2>1
    <3> HIDE DEF p
    <3>5. c.buf[p] = old[p]
      BY <1>1, <1>6, <3>1
    <3> QED
      BY <1>7, <3>1, <3>3, <3>4, <3>5
  <2>2. CASE i = n
    <3>1. At(d, i - 1, n) = hd
      BY <1>1, <2>2 DEF At
    <3>2. (Len(t) - n) + i = L + 1
      BY <1>1, <1>7, <2>2
    <3> QED
      BY <1>1, <1>4, <1>6, <1>7, <3>1, <3>2
  <2> QED
    BY <2>1, <2>2
<1>10. Len(t) > n
  BY <1>1, <1>7
<1> HIDE DEF d
<1>11. RingOK(c, n, t)
  BY <1>1, <1>4, <1>6, <1>7, <1>9, <1>10 DEF RingOK
<1> QED
  BY <1>11 DEF c, t

\* A push into a ring that is not full.
LEMMA PushMore ==
    ASSUME NEW n \in Nat, n > 0, NEW b, NEW s \in Seq(Int), RingOK(b, n, s), NEW v \in Int,
           Len(s) < n
    PROVE  RingOK(Push(b, v), n, Append(s, v))
<1> DEFINE c == Push(b, v)
           t == Append(s, v)
           L == Len(s)
           old == b.buf
<1>1. /\ b \in [buf : [0..(n - 1) -> Int], cap : {n}, head : Nat, size : Nat]
      /\ b.size = L /\ b.head = 0 /\ b.cap = n /\ L \in Nat /\ L < n /\ L \in 0..(n - 1)
      /\ old \in [0..(n - 1) -> Int]
  BY RingFields DEF RingOK
<1>2. PhysicalIndexFromOldest(b, b.size) = L
  <2>1. (0 + L) % n = At(0, L, n)
    BY <1>1, WrapAt
  <2> QED
    BY <1>1, <2>1 DEF PhysicalIndexFromOldest, At
<1>3. c = [b EXCEPT !.buf = [old EXCEPT ![L] = v], !.size = L + 1]
  BY <1>1, <1>2 DEF Push
<1>4. [old EXCEPT ![L] = v] \in [0..(n - 1) -> Int]
  BY <1>1
<1>5. /\ c \in [buf : [0..(n - 1) -> Int], cap : {n}, head : Nat, size : Nat]
      /\ c.buf = [old EXCEPT ![L] = v] /\ c.head = 0 /\ c.size = L + 1
  <2> DEFINE new == [old EXCEPT ![L] = v]
             z == L + 1
  <2>1. z \in Nat /\ new \in [0..(n - 1) -> Int] /\ c = [b EXCEPT !.buf = new, !.size = z]
    BY <1>1, <1>3, <1>4
  <2> HIDE DEF old, L, c, new, z
  <2>2. /\ c \in [buf : [0..(n - 1) -> Int], cap : {n}, head : Nat, size : Nat]
        /\ c.buf = new /\ c.head = 0 /\ c.size = z
    BY <1>1, <2>1
  <2> QED
    BY <2>2 DEF new, z
<1>6. Len(t) = L + 1 /\ t[L + 1] = v /\ \A i \in 1..L : t[i] = s[i]
  OBVIOUS
<1>7. \A i \in 1..L : old[At(0, i - 1, n)] = s[(L - L) + i]
  BY <1>1 DEF RingOK
<1> HIDE DEF c, t, L, old
<1>8. ASSUME NEW i \in 1..(L + 1) PROVE c.buf[At(0, i - 1, n)] = t[(Len(t) - (L + 1)) + i]
  <2>1. At(0, i - 1, n) = i - 1 /\ (Len(t) - (L + 1)) + i = i /\ i - 1 \in 0..(n - 1)
    BY <1>1, <1>6 DEF At
  <2>2. CASE i <= L
    <3>1. i \in 1..L /\ (L - L) + i = i /\ i - 1 # L
      BY <1>1, <2>2
    <3>2. old[i - 1] = s[i]
      BY <1>7, <2>1, <3>1
    <3>3. c.buf[i - 1] = old[i - 1]
      BY <1>1, <1>5, <2>1, <3>1
    <3> QED
      BY <1>6, <2>1, <3>1, <3>2, <3>3
  <2>3. CASE i = L + 1
    BY <1>1, <1>5, <1>6, <2>1, <2>3
  <2> QED
    BY <1>1, <2>2, <2>3
<1>9. RingOK(c, n, t)
  BY <1>1, <1>5, <1>6, <1>8 DEF RingOK
<1> QED
  BY <1>9 DEF c, t

\* A push, of any kind.
LEMMA RingPush ==
    ASSUME NEW n \in Nat, NEW b, NEW s \in Seq(Int), RingOK(b, n, s), NEW v \in Int
    PROVE  RingOK(Push(b, v), n, Append(s, v))
<1>1. CASE n = 0
  <2>1. Push(b, v) = b
    BY <1>1 DEF RingOK, Push
  <2>2. Len(Append(s, v)) = Len(s) + 1 /\ Len(s) \in Nat
    OBVIOUS
  <2>3. b.size = 0
    BY <1>1 DEF RingOK
  <2> QED
    BY <1>1, <2>1, <2>2, <2>3 DEF RingOK
<1>2. CASE n > 0
  BY <1>2, PushFull, PushMore
<1> QED
  BY <1>1, <1>2

\* The places, counted from the oldest and from the newest.
LEMMA RingPlaces ==
    ASSUME NEW n \in Nat, NEW b, NEW s \in Seq(Int), RingOK(b, n, s), NEW i \in 1..b.size
    PROVE  /\ PhysicalIndexFromOldest(b, i - 1) = At(b.head, i - 1, n)
           /\ PhysicalIndexFromNewest(b, b.size - i) = At(b.head, i - 1, n)
<1> DEFINE k == b.size
           hd == b.head
<1>1. b.cap = n /\ k \in Nat /\ k <= n /\ hd \in Nat
  BY RingFields
<1>2. n > 0 /\ hd < n /\ i - 1 \in Nat /\ i - 1 <= n /\ k - i \in Nat /\ k - i < n
      /\ k - 1 \in Nat /\ k - 1 <= n
  BY <1>1 DEF RingOK
<1> DEFINE x == hd + k - 1
           y == (x % n) + n - (k - i)
<1>3. PhysicalIndexFromOldest(b, i - 1) = (hd + (i - 1)) % n
  BY <1>1, <1>2 DEF PhysicalIndexFromOldest
<1>4. PhysicalIndexFromNewest(b, k - i) = ((x % n) + n - ((k - i) % n)) % n
  BY <1>1, <1>2 DEF PhysicalIndexFromNewest
<1> HIDE DEF k, hd
<1>5. (hd + (i - 1)) % n = At(hd, i - 1, n)
  BY <1>1, <1>2, WrapAt
<1>6. (k - i) % n = k - i
  <2> DEFINE z == k - i
  <2>1. z \in Nat /\ z < n /\ z < 2 * n
    BY <1>2
  <2> HIDE DEF z
  <2>2. z % n = z
    BY <1>2, <2>1, Wrap
  <2> QED
    BY <2>2 DEF z
<1>7. x \in Nat /\ x < 2 * n
  BY <1>1, <1>2
<1> HIDE DEF x
<1>8. x % n = IF x < n THEN x ELSE x - n
  BY <1>2, <1>7, Wrap
<1>9. y \in Nat /\ y < 2 * n
  BY <1>1, <1>2, <1>7, <1>8 DEF x
<1>10. y = IF x < n THEN (hd + i - 1) + n ELSE hd + i - 1
  BY <1>1, <1>2, <1>7, <1>8 DEF x
<1> HIDE DEF y
<1>11. y % n = IF y < n THEN y ELSE y - n
  BY <1>2, <1>9, Wrap
<1>12. y % n = At(hd, i - 1, n)
  BY <1>1, <1>2, <1>9, <1>10, <1>11 DEF x, At
<1>13. PhysicalIndexFromNewest(b, k - i) = y % n
  BY <1>4, <1>6 DEF y
<1> QED
  BY <1>3, <1>5, <1>12, <1>13 DEF k, hd

\* Both ways to read the ring.
LEMMA RingReads ==
    ASSUME NEW n \in Nat, NEW b, NEW s \in Seq(Int), RingOK(b, n, s)
    PROVE  FromOldest(b) = LastN(s, n) /\ FromNewest(b) = LastN(s, n)
<1> DEFINE k == b.size
<1>1. k = (IF Len(s) <= n THEN Len(s) ELSE n) /\ k \in Nat
  BY RingFields
<1>2. LastN(s, n) = [i \in 1..k |-> s[Len(s) - k + i]]
  BY <1>1 DEF LastN
<1>3. \A i \in 1..k : /\ b.buf[PhysicalIndexFromOldest(b, i - 1)] = s[(Len(s) - k) + i]
                      /\ b.buf[PhysicalIndexFromNewest(b, k - i)] = s[(Len(s) - k) + i]
  BY RingPlaces DEF RingOK
<1> QED
  BY <1>2, <1>3 DEF FromOldest, FromNewest

----------------------------------------------------------------------------
(* A window that slides *)

\* How many of s the last n are, and which one leaves for the next.
SizeOf(s, n) == IF Len(s) <= n THEN Len(s) ELSE n

OldOf(s, n) == IF n > 0 /\ Len(s) >= n THEN s[(Len(s) - n) + 1] ELSE 0

\* The m values g are the k values f with v behind them, the first of them
\* given up for it or not.
Slides(f, k, g, m, old, v) ==
    \/ /\ m = k + 1 /\ old = 0
       /\ \A i \in 1..k : g[i] = f[i]
       /\ g[k + 1] = v
    \/ /\ m = k /\ k > 0 /\ old = f[1]
       /\ \A i \in 1..(k - 1) : g[i] = f[i + 1]
       /\ g[k] = v

\* The sum of a window that slides.
LEMMA SlideSum ==
    ASSUME NEW k \in Nat, NEW m \in Nat, NEW f, NEW g, NEW old, NEW v \in Int,
           Ints(f, k), Slides(f, k, g, m, old, v)
    PROVE  SumTo(m, g) = (SumTo(k, f) - old) + v /\ Ints(g, m) /\ old \in Int
<1>1. SumTo(k, f) \in Int
  BY SumType
<1>2. CASE m = k + 1 /\ old = 0 /\ (\A i \in 1..k : g[i] = f[i]) /\ g[k + 1] = v
  <2>1. Ints(g, k + 1)
    BY <1>2 DEF Ints
  <2>2. SumTo(k + 1, g) = SumTo(k, g) + g[k + 1]
    BY <2>1, SumLast
  <2>3. SumTo(k, g) = SumTo(k, f)
    BY <1>2, SumSame
  <2> QED
    BY <1>1, <1>2, <2>1, <2>2, <2>3
<1>3. CASE m = k /\ k > 0 /\ old = f[1] /\ (\A i \in 1..(k - 1) : g[i] = f[i + 1]) /\ g[k] = v
  <2> DEFINE p == k - 1
  <2>1. p \in Nat /\ p + 1 = k /\ \A i \in 1..p : g[i] = f[i + 1]
    BY <1>3
  <2>2. Ints(g, k) /\ f[1] \in Int
    BY <1>3 DEF Ints
  <2> HIDE DEF p
  <2>3. Ints(g, p + 1) /\ Ints(f, p + 1)
    BY <2>1, <2>2
  <2>4. SumTo(p + 1, f) = f[1] + SumTo(p, g)
    BY <2>1, <2>3, SumFirst
  <2>5. SumTo(p + 1, g) = SumTo(p, g) + g[p + 1]
    BY <2>1, <2>3, SumLast
  <2>6. SumTo(p, g) \in Int
    <3>1. Ints(g, p)
      BY <2>1, <2>3 DEF Ints
    <3> QED
      BY <2>1, <3>1, SumType
  <2> QED
    BY <1>3, <2>1, <2>2, <2>4, <2>5, <2>6
<1> QED
  BY <1>2, <1>3 DEF Slides

\* Squares slide with their values.
LEMMA SlideSquares ==
    ASSUME NEW k \in Nat, NEW m \in Nat, NEW f, NEW g, NEW old, NEW v \in Int,
           Ints(f, k), Slides(f, k, g, m, old, v)
    PROVE  Slides(Squares(f, k), k, Squares(g, m), m, old * old, v * v)
<1> DEFINE F == Squares(f, k)
           G == Squares(g, m)
<1>1. (\A i \in 1..k : F[i] = f[i] * f[i]) /\ (\A i \in 1..m : G[i] = g[i] * g[i])
  BY DEF Squares
<1> HIDE DEF F, G
<1>2. CASE m = k + 1 /\ old = 0 /\ (\A i \in 1..k : g[i] = f[i]) /\ g[k + 1] = v
  <2>1. k + 1 \in 1..m /\ (\A i \in 1..k : i \in 1..m) /\ old * old = 0
    BY <1>2
  <2>2. G[k + 1] = v * v /\ \A i \in 1..k : G[i] = F[i]
    BY <1>1, <1>2, <2>1
  <2>3. Slides(F, k, G, m, old * old, v * v)
    BY <1>2, <2>1, <2>2 DEF Slides
  <2> QED
    BY <2>3 DEF F, G
<1>3. CASE m = k /\ k > 0 /\ old = f[1] /\ (\A i \in 1..(k - 1) : g[i] = f[i + 1]) /\ g[k] = v
  <2>1. k \in 1..m /\ 1 \in 1..k /\ (\A i \in 1..(k - 1) : i \in 1..m /\ i + 1 \in 1..k)
    BY <1>3
  <2>2. G[k] = v * v /\ F[1] = old * old /\ \A i \in 1..(k - 1) : G[i] = F[i + 1]
    BY <1>1, <1>3, <2>1
  <2>3. Slides(F, k, G, m, old * old, v * v)
    BY <1>3, <2>2 DEF Slides
  <2> QED
    BY <2>3 DEF F, G
<1> QED
  BY <1>2, <1>3 DEF Slides

\* The last n values slide when one is appended.
LEMMA WindowSlides ==
    ASSUME NEW n \in Nat, n > 0, NEW s \in Seq(Int), NEW v \in Int, NEW t, t = Append(s, v)
    PROVE  /\ Slides(LastN(s, n), SizeOf(s, n), LastN(t, n), SizeOf(t, n), OldOf(s, n), v)
           /\ SizeOf(s, n) \in Nat /\ SizeOf(t, n) \in Nat
           /\ Ints(LastN(s, n), SizeOf(s, n))
<1> DEFINE f == LastN(s, n)
           g == LastN(t, n)
           k == SizeOf(s, n)
           m == SizeOf(t, n)
           L == Len(s)
<1>1. /\ L \in Nat /\ Len(t) = L + 1 /\ t[L + 1] = v /\ \A i \in 1..L : t[i] = s[i] /\ s[i] \in Int
      /\ k = IF L <= n THEN L ELSE n
      /\ m = IF L + 1 <= n THEN L + 1 ELSE n
  BY DEF SizeOf
<1>2. (\A i \in 1..k : f[i] = s[L - k + i]) /\ (\A i \in 1..m : g[i] = t[(L + 1) - m + i])
  BY <1>1 DEF LastN, SizeOf
<1> HIDE DEF f, g, k, m, L
<1>3. k \in Nat /\ m \in Nat
  BY <1>1
<1>4. Ints(f, k)
  <2> SUFFICES ASSUME NEW i \in 1..k PROVE f[i] \in Int
    BY DEF Ints
  <2>1. L - k + i \in 1..L
    BY <1>1
  <2> QED
    BY <1>1, <1>2, <2>1
<1>5. CASE L < n
  <2>1. k = L /\ m = L + 1 /\ OldOf(s, n) = 0
    BY <1>1, <1>5 DEF OldOf, L
  <2>2. g[k + 1] = v
    <3>1. k + 1 \in 1..m /\ (L + 1) - m + (k + 1) = L + 1
      BY <1>1, <2>1
    <3> QED
      BY <1>1, <1>2, <3>1
  <2>3. ASSUME NEW i \in 1..k PROVE g[i] = f[i]
    <3>1. i \in 1..m /\ (L + 1) - m + i = i /\ L - k + i = i /\ i \in 1..L
      BY <1>1, <2>1
    <3>2. g[i] = t[i] /\ f[i] = s[i]
      BY <1>2, <3>1
    <3> QED
      BY <1>1, <3>1, <3>2
  <2>4. Slides(f, k, g, m, OldOf(s, n), v)
    BY <2>1, <2>2, <2>3 DEF Slides
  <2> QED
    BY <1>3, <1>4, <2>4 DEF f, g, k, m
<1>6. CASE L >= n
  <2>1. k = n /\ m = n /\ OldOf(s, n) = s[(L - n) + 1]
    BY <1>1, <1>6 DEF OldOf, L
  <2>2. g[k] = v /\ f[1] = s[(L - n) + 1]
    <3>1. k \in 1..m /\ (L + 1) - m + k = L + 1 /\ 1 \in 1..k /\ L - k + 1 = (L - n) + 1
      BY <1>1, <2>1
    <3> QED
      BY <1>1, <1>2, <3>1
  <2>3. ASSUME NEW i \in 1..(k - 1) PROVE g[i] = f[i + 1]
    <3>1. i \in 1..m /\ (L + 1) - m + i = L - k + (i + 1) /\ i + 1 \in 1..k
          /\ L - k + (i + 1) \in 1..L
      BY <1>1, <1>6, <2>1
    <3>2. g[i] = t[L - k + (i + 1)] /\ f[i + 1] = s[L - k + (i + 1)]
      BY <1>2, <3>1
    <3> QED
      BY <1>1, <3>1, <3>2
  <2>4. Slides(f, k, g, m, OldOf(s, n), v)
    BY <2>1, <2>2, <2>3 DEF Slides
  <2> QED
    BY <1>3, <1>4, <2>4 DEF f, g, k, m
<1> QED
  BY <1>1, <1>5, <1>6

----------------------------------------------------------------------------
(* The returns *)

\* The returns are numbers, and every place among them is taken.
ReturnsOK(h) ==
    /\ Returns(h) \in Seq(Int)
    /\ \A k \in 1..Cardinality(Usable(h)) : Nth(h, k) # {}

\* The changes with a return can be counted.
LEMMA UsableFinite ==
    ASSUME NEW h \in Seq(Nat)
    PROVE  IsFiniteSet(Usable(h)) /\ Cardinality(Usable(h)) \in Nat
<1>1. Len(h) - 1 \in Int /\ 1 \in Int
  OBVIOUS
<1>2. IsFiniteSet(1..(Len(h) - 1))
  BY <1>1, FS_Interval
<1>3. Usable(h) \subseteq 1..(Len(h) - 1)
  BY DEF Usable
<1> QED
  BY <1>2, <1>3, FS_Subset, FS_CardinalityType

\* There are as many returns as such changes.
LEMMA ReturnsLen ==
    ASSUME NEW h \in Seq(Nat), ReturnsOK(h)
    PROVE  Len(Returns(h)) = Cardinality(Usable(h))
<1>1. Cardinality(Usable(h)) \in Nat
  BY UsableFinite
<1>2. DOMAIN Returns(h) = 1..Cardinality(Usable(h)) /\ Returns(h) \in Seq(Int)
  BY DEF Returns, ReturnsOK
<1> QED
  BY <1>1, <1>2

\* One close makes no return.
LEMMA ReturnsEmpty ==
    ASSUME NEW h \in Seq(Nat), Len(h) <= 1
    PROVE  ReturnsOK(h) /\ Returns(h) = <<>>
<1>1. Usable(h) = {}
  BY DEF Usable
<1>2. Cardinality(Usable(h)) = 0
  BY <1>1, FS_EmptySet
<1>3. Returns(h) = <<>>
  BY <1>2 DEF Returns
<1> QED
  BY <1>2, <1>3 DEF ReturnsOK

\* The changes that were there before.
LEMMA OldChanges ==
    ASSUME NEW h \in Seq(Nat), NEW c \in Nat, NEW t, t = Append(h, c), NEW i \in 1..(Len(h) - 1)
    PROVE  t[i] = h[i] /\ Change(t, i) = Change(h, i) /\ ReturnAt(t, i) = ReturnAt(h, i)
           /\ h[i] \in Nat /\ Change(h, i) \in Int
<1>1. i \in 1..Len(h) /\ i + 1 \in 1..Len(h)
  OBVIOUS
<1>2. t[i] = h[i] /\ t[i + 1] = h[i + 1] /\ h[i] \in Nat /\ h[i + 1] \in Nat
  BY <1>1
<1> QED
  BY <1>2 DEF Change, ReturnAt

\* A close after one that is 0 adds no return.
LEMMA ReturnsKept ==
    ASSUME NEW h \in Seq(Nat), Len(h) > 0, NEW c \in Nat, NEW t, t = Append(h, c),
           ReturnsOK(h), h[Len(h)] = 0
    PROVE  ReturnsOK(t) /\ Returns(t) = Returns(h)
<1> DEFINE L == Len(h)
           n == Cardinality(Usable(h))
<1>1. L \in Nat /\ L > 0 /\ Len(t) = L + 1 /\ t[L] = 0
  OBVIOUS
<1>2. \A i \in 1..(L - 1) : t[i] = h[i] /\ ReturnAt(t, i) = ReturnAt(h, i)
  BY OldChanges
<1>3. Usable(t) = Usable(h)
  BY <1>1, <1>2 DEF Usable
<1>4. \A k : Nth(t, k) = Nth(h, k)
  BY <1>3 DEF Nth
<1>5. ASSUME NEW k \in 1..n
      PROVE  ReturnAt(t, CHOOSE i \in Nth(t, k) : TRUE)
                 = ReturnAt(h, CHOOSE i \in Nth(h, k) : TRUE)
  <2> DEFINE i == CHOOSE i \in Nth(h, k) : TRUE
  <2>1. i \in Nth(h, k)
    BY DEF ReturnsOK
  <2>2. i \in 1..(L - 1)
    BY <2>1 DEF Nth, Usable
  <2>3. (CHOOSE j \in Nth(t, k) : TRUE) = i
    BY <1>4
  <2> HIDE DEF i
  <2>4. ReturnAt(t, i) = ReturnAt(h, i)
    BY <1>2, <2>2
  <2> QED
    BY <2>3, <2>4 DEF i
<1>6. Returns(t) = Returns(h)
  BY <1>3, <1>5 DEF Returns
<1> QED
  BY <1>3, <1>4, <1>6 DEF ReturnsOK

\* Any other adds one, the last.
LEMMA ReturnsMore ==
    ASSUME NEW h \in Seq(Nat), Len(h) > 0, NEW c \in Nat, NEW t, t = Append(h, c),
           ReturnsOK(h), h[Len(h)] # 0, NEW r, r = ((c - h[Len(h)]) * Scale) \div h[Len(h)]
    PROVE  ReturnsOK(t) /\ Returns(t) = Append(Returns(h), r) /\ r \in Int
<1> DEFINE L == Len(h)
           U == Usable(h)
           V == Usable(t)
           n == Cardinality(U)
<1>1. L \in Nat /\ L > 0 /\ Len(t) = L + 1 /\ t[L] = h[L] /\ t[L + 1] = c /\ h[L] \in Nat
  OBVIOUS
<1>2. \A i \in 1..(L - 1) : t[i] = h[i] /\ ReturnAt(t, i) = ReturnAt(h, i)
  BY OldChanges
<1>3. IsFiniteSet(U) /\ n \in Nat /\ U \subseteq 1..(L - 1)
  BY UsableFinite DEF Usable
<1>4. V = U \cup {L} /\ L \notin U
  BY <1>1, <1>2 DEF Usable
<1>5. Cardinality(V) = n + 1 /\ IsFiniteSet(V)
  <2> HIDE DEF U, V, L
  <2>1. /\ IsFiniteSet(U \cup {L})
        /\ Cardinality(U \cup {L}) = IF L \in U THEN Cardinality(U) ELSE Cardinality(U) + 1
    BY <1>3, FS_AddElement
  <2> QED
    BY <1>4, <2>1
<1>6. r = ReturnAt(t, L) /\ r \in Int
  BY <1>1, IndicatorAssumption DEF ReturnAt, Change
<1>7. ASSUME NEW i \in U
      PROVE  /\ {j \in V : j <= i} = {j \in U : j <= i}
             /\ Cardinality({j \in U : j <= i}) \in 0..n
  <2>1. {j \in V : j <= i} = {j \in U : j <= i}
    BY <1>1, <1>3, <1>4
  <2>2. {j \in U : j <= i} \subseteq U
    OBVIOUS
  <2>3. IsFiniteSet({j \in U : j <= i}) /\ Cardinality({j \in U : j <= i}) <= n
    BY <1>3, <2>2, FS_Subset
  <2>4. Cardinality({j \in U : j <= i}) \in Nat
    BY <2>3, FS_CardinalityType
  <2> QED
    BY <1>3, <2>1, <2>3, <2>4
<1>8. {j \in V : j <= L} = V
  BY <1>1, <1>3, <1>4
<1> HIDE DEF U, V, n, L
<1>9. ASSUME NEW k \in 1..n PROVE Nth(t, k) = Nth(h, k)
  <2>1. Cardinality({j \in V : j <= L}) # k
    <3>1. Cardinality({j \in V : j <= L}) = n + 1
      BY <1>5, <1>8
    <3>2. k # n + 1
      BY <1>3
    <3> QED
      BY <3>1, <3>2
  <2>2. \A i \in V : Cardinality({j \in V : j <= i}) = k
                     <=> i \in U /\ Cardinality({j \in U : j <= i}) = k
    BY <1>4, <1>7, <2>1
  <2>3. {i \in V : Cardinality({j \in V : j <= i}) = k}
        = {i \in U : Cardinality({j \in U : j <= i}) = k}
    BY <1>4, <2>2
  <2> QED
    BY <2>3 DEF Nth, U, V
<1>10. Nth(t, n + 1) = {L}
  <2>1. Cardinality({j \in V : j <= L}) = n + 1
    BY <1>5, <1>8
  <2>2. ASSUME NEW i \in U PROVE Cardinality({j \in V : j <= i}) # n + 1
    <3> DEFINE z == Cardinality({j \in U : j <= i})
    <3>1. Cardinality({j \in V : j <= i}) = z /\ z \in 0..n
      BY <1>7
    <3> HIDE DEF z
    <3>2. z # n + 1
      BY <1>3, <3>1
    <3> QED
      BY <3>1, <3>2
  <2>3. {i \in V : Cardinality({j \in V : j <= i}) = n + 1} = {L}
    BY <1>4, <2>1, <2>2
  <2> QED
    BY <2>3 DEF Nth, V
<1>11. ASSUME NEW k \in 1..n
       PROVE  /\ Nth(t, k) # {}
              /\ ReturnAt(t, CHOOSE i \in Nth(t, k) : TRUE)
                 = ReturnAt(h, CHOOSE i \in Nth(h, k) : TRUE)
  <2> DEFINE i == CHOOSE i \in Nth(h, k) : TRUE
  <2>1. Nth(h, k) # {}
    BY DEF ReturnsOK, n, U
  <2>2. i \in Nth(h, k)
    BY <2>1
  <2>3. i \in 1..(L - 1)
    BY <2>2 DEF Nth, Usable, L
  <2>4. (CHOOSE j \in Nth(t, k) : TRUE) = i
    BY <1>9
  <2> HIDE DEF i
  <2>5. ReturnAt(t, i) = ReturnAt(h, i)
    BY <1>2, <2>3
  <2> QED
    BY <1>9, <2>1, <2>4, <2>5 DEF i
<1>12. ReturnAt(t, CHOOSE i \in Nth(t, n + 1) : TRUE) = r /\ Nth(t, n + 1) # {}
  <2>1. (CHOOSE i \in Nth(t, n + 1) : TRUE) = L
    BY <1>10
  <2> QED
    BY <1>6, <1>10, <2>1
<1> DEFINE R == Returns(h)
           S == Returns(t)
<1>13. /\ R \in Seq(Int) /\ Len(R) = n
       /\ \A k \in 1..n : R[k] = ReturnAt(h, CHOOSE i \in Nth(h, k) : TRUE)
  BY ReturnsLen DEF ReturnsOK, Returns, n, U
<1>14. S = [k \in 1..(n + 1) |-> ReturnAt(t, CHOOSE i \in Nth(t, k) : TRUE)]
  BY <1>5 DEF Returns, V
<1>15. (\A k \in 1..n : S[k] = R[k]) /\ S[n + 1] = r
  <2>1. n + 1 \in 1..(n + 1) /\ \A k \in 1..n : k \in 1..(n + 1)
    BY <1>3
  <2>2. S[n + 1] = ReturnAt(t, CHOOSE i \in Nth(t, n + 1) : TRUE)
    BY <1>14, <2>1
  <2>3. ASSUME NEW k \in 1..n PROVE S[k] = R[k]
    <3>1. S[k] = ReturnAt(t, CHOOSE i \in Nth(t, k) : TRUE)
      BY <1>14, <2>1
    <3> QED
      BY <1>11, <1>13, <3>1
  <2> QED
    BY <1>12, <2>2, <2>3
<1>16. DOMAIN S = 1..(n + 1) /\ S = [k \in 1..(n + 1) |-> S[k]]
  BY <1>14
<1> HIDE DEF R, S
<1>17. S = Append(R, r)
  <2>1. Append(R, r) \in Seq(Int) /\ Len(Append(R, r)) = n + 1
    BY <1>3, <1>6, <1>13
  <2>2. ASSUME NEW k \in 1..(n + 1) PROVE Append(R, r)[k] = S[k]
    <3>1. k \in 1..n \/ k = n + 1
      BY <1>3
    <3>2. R \in Seq(Int) /\ Len(R) = n /\ r \in Int
      BY <1>6, <1>13
    <3>3. (\A j \in 1..Len(R) : Append(R, r)[j] = R[j]) /\ Append(R, r)[Len(R) + 1] = r
      BY <3>2
    <3>4. k \in 1..n => Append(R, r)[k] = R[k]
      BY <3>2, <3>3
    <3>5. k = n + 1 => Append(R, r)[k] = r
      BY <3>2, <3>3
    <3> QED
      BY <1>15, <3>1, <3>4, <3>5
  <2>3. Append(R, r) = [k \in 1..(n + 1) |-> Append(R, r)[k]]
    BY <2>1
  <2> QED
    BY <1>16, <2>2, <2>3
<1>18. S \in Seq(Int)
  BY <1>6, <1>13, <1>17
<1>19. \A k \in 1..(n + 1) : Nth(t, k) # {}
  <2>1. \A k \in 1..(n + 1) : k \in 1..n \/ k = n + 1
    BY <1>3
  <2> QED
    BY <1>11, <1>12, <2>1
<1> QED
  BY <1>5, <1>6, <1>17, <1>18, <1>19 DEF ReturnsOK, R, S, V

----------------------------------------------------------------------------
(* Wilder's average *)

\* f has naturals at 1..n.
Nats(f, n) == \A i \in 1..n : f[i] \in Nat

\* Naturals are integers.
LEMMA NatsInts ==
    ASSUME NEW n \in Nat, NEW f, Nats(f, n)
    PROVE  Ints(f, n)
BY DEF Nats, Ints

\* Powers of naturals are naturals.
LEMMA PowerNat ==
    ASSUME NEW a \in Nat, NEW k \in Nat
    PROVE  Power(a, k) \in Nat
<1> DEFINE A == {i \in Nat : Power(a, i) \in Nat}
<1>1. 0 \in A
  BY PowerStep
<1>2. ASSUME NEW i \in Nat, i \in A PROVE i + 1 \in A
  <2>1. Power(a, i + 1) = a * Power(a, i) /\ Power(a, i) \in Nat
    BY <1>2, PowerStep
  <2> QED
    BY <2>1
<1> HIDE DEF A
<1>3. \A i \in Nat : i \in A
  BY <1>1, <1>2, Induction
<1> QED
  BY <1>3 DEF A

\* Weights are naturals.
LEMMA WeightType ==
    ASSUME NEW n \in Nat, n > 0, NEW m \in Nat, m >= n, NEW j \in 1..m
    PROVE  Weight(j, m, n) \in Nat
<1>1. CASE j <= n
  <2>1. n - 1 \in Nat /\ m - n \in Nat
    OBVIOUS
  <2>2. Power(n - 1, m - n) \in Nat
    BY <2>1, PowerNat
  <2> QED
    BY <1>1, <2>2 DEF Weight
<1>2. CASE j > n
  <2>1. n - 1 \in Nat /\ m - j \in Nat /\ j - n \in Nat
    BY <1>2
  <2>2. Power(n - 1, m - j) \in Nat /\ Power(n, j - n) \in Nat
    BY <2>1, PowerNat
  <2>3. ~(j <= n)
    BY <1>2
  <2> QED
    BY <2>2, <2>3 DEF Weight
<1> QED
  BY <1>1, <1>2

\* One more change takes each weight times n - 1.
LEMMA WeightStep ==
    ASSUME NEW n \in Nat, n > 0, NEW m \in Nat, m >= n, NEW j \in 1..m
    PROVE  Weight(j, m + 1, n) = (n - 1) * Weight(j, m, n)
<1> DEFINE a == n - 1
<1>1. a \in Nat
  OBVIOUS
<1>2. CASE j <= n
  <2> DEFINE k == m - n
  <2>1. k \in Nat /\ (m + 1) - n = k + 1
    OBVIOUS
  <2>2. Weight(j, m, n) = Power(a, k) /\ Weight(j, m + 1, n) = Power(a, k + 1)
    BY <1>2, <2>1 DEF Weight
  <2> HIDE DEF a, k
  <2>3. Power(a, k + 1) = a * Power(a, k)
    BY <1>1, <2>1, PowerStep
  <2> QED
    BY <2>2, <2>3 DEF a
<1>3. CASE j > n
  <2> DEFINE k == m - j
             P == Power(n, j - n)
  <2>1. k \in Nat /\ (m + 1) - j = k + 1 /\ j - n \in Nat /\ ~(j <= n)
    BY <1>3
  <2>2. Weight(j, m, n) = Power(a, k) * P /\ Weight(j, m + 1, n) = Power(a, k + 1) * P
    BY <2>1 DEF Weight
  <2>3. P \in Nat
    BY <2>1, PowerNat
  <2> HIDE DEF a, k, P
  <2>4. Power(a, k + 1) = a * Power(a, k) /\ Power(a, k) \in Int
    BY <1>1, <2>1, PowerStep
  <2>5. (a * Power(a, k)) * P = a * (Power(a, k) * P)
    BY <1>1, <2>3, <2>4
  <2> QED
    BY <2>2, <2>4, <2>5 DEF a
<1> QED
  BY <1>2, <1>3

\* The weight of the last change.
LEMMA WeightLast ==
    ASSUME NEW n \in Nat, n > 0, NEW m \in Nat, m >= n
    PROVE  Weight(m + 1, m + 1, n) = Power(n, (m + 1) - n)
<1>1. ~(m + 1 <= n) /\ (m + 1) - (m + 1) = 0 /\ n - 1 \in Int /\ (m + 1) - n \in Nat
  OBVIOUS
<1>2. Power(n - 1, 0) = 1 /\ Power(n, (m + 1) - n) \in Int
  BY <1>1, PowerStep
<1>3. Weight(m + 1, m + 1, n) = Power(n - 1, 0) * Power(n, (m + 1) - n)
  BY <1>1 DEF Weight
<1> QED
  BY <1>2, <1>3

Weighted(c, m, n) == [j \in 1..m |-> c[j] * Weight(j, m, n)]

\* Weighted changes are integers.
LEMMA WeightedType ==
    ASSUME NEW n \in Nat, n > 0, NEW m \in Nat, m >= n, NEW c, Nats(c, m)
    PROVE  Ints(Weighted(c, m, n), m)
<1> SUFFICES ASSUME NEW j \in 1..m PROVE Weighted(c, m, n)[j] \in Int
  BY DEF Ints
<1>1. c[j] \in Nat /\ Weight(j, m, n) \in Nat
  BY WeightType DEF Nats
<1> QED
  BY <1>1 DEF Weighted

\* The average after one more change is what Wilder's smoothing makes of it.
LEMMA WilderStep ==
    ASSUME NEW n \in Nat, n > 0, NEW m \in Nat, m >= n, NEW c, Nats(c, m), NEW d, Nats(d, m + 1),
           \A j \in 1..m : d[j] = c[j]
    PROVE  WilderAverage(d, m + 1, n)
           = WilderAverage(c, m, n) * (n - 1) + d[m + 1] * Power(n, (m + 1) - n)
<1> DEFINE f == Weighted(c, m, n)
           g == Weighted(d, m + 1, n)
           a == n - 1
           z == 0
<1>1. Ints(f, m) /\ Ints(g, m + 1) /\ a \in Int /\ z \in Int /\ m + 1 \in Nat /\ m + 1 >= n
  BY WeightedType
<1>2. WilderAverage(c, m, n) = SumTo(m, f) /\ WilderAverage(d, m + 1, n) = SumTo(m + 1, g)
  BY DEF WilderAverage, Weighted
<1>3. g[m + 1] = d[m + 1] * Power(n, (m + 1) - n)
  BY WeightLast DEF Weighted
<1>4. ASSUME NEW j \in 1..m PROVE g[j] = a * f[j] + z * f[j]
  <2> DEFINE x == c[j]
             w == Weight(j, m, n)
  <2>1. f[j] = x * w /\ x \in Int /\ w \in Int
    BY WeightType DEF Weighted, Nats
  <2>2. g[j] = x * (a * w)
    <3>1. j \in 1..(m + 1)
      OBVIOUS
    <3>2. g[j] = d[j] * Weight(j, m + 1, n)
      BY <3>1 DEF Weighted
    <3>3. Weight(j, m + 1, n) = a * w
      BY WeightStep
    <3> QED
      BY <3>2, <3>3
  <2> HIDE DEF x, w, a, f, g
  <2>3. x * (a * w) = a * (x * w) /\ x * w \in Int
    BY <1>1, <2>1
  <2>4. a * f[j] \in Int /\ f[j] \in Int
    BY <1>1, <2>1, <2>3
  <2> QED
    BY <2>1, <2>2, <2>3, <2>4
<1> HIDE DEF f, g, a, z
<1>5. SumTo(m, g) = a * SumTo(m, f) + z * SumTo(m, f)
  BY <1>1, <1>4, SumLinear
<1>6. SumTo(m + 1, g) = SumTo(m, g) + g[m + 1]
  BY <1>1, SumLast
<1>7. SumTo(m, f) \in Int
  BY <1>1, SumType
<1>8. a * SumTo(m, f) = SumTo(m, f) * a /\ SumTo(m, f) * a \in Int /\ z * SumTo(m, f) = 0
  BY <1>1, <1>7 DEF z
<1>9. SumTo(m + 1, g) = SumTo(m, f) * a + g[m + 1]
  BY <1>5, <1>6, <1>8
<1> QED
  BY <1>2, <1>3, <1>9 DEF a

\* After the seed it is the sum of the changes.
LEMMA WilderSeed ==
    ASSUME NEW n \in Nat, n > 0, NEW c, Nats(c, n)
    PROVE  WilderAverage(c, n, n) = SumTo(n, c)
<1> DEFINE f == Weighted(c, n, n)
<1>1. ASSUME NEW j \in 1..n PROVE f[j] = c[j]
  <2>1. n - n = 0 /\ j <= n /\ n - 1 \in Int
    OBVIOUS
  <2>2. Weight(j, n, n) = 1
    BY <2>1, PowerStep DEF Weight
  <2>3. c[j] \in Int
    BY DEF Nats
  <2> QED
    BY <2>2, <2>3 DEF Weighted
<1>2. WilderAverage(c, n, n) = SumTo(n, f)
  BY DEF WilderAverage, Weighted
<1> HIDE DEF f
<1>3. SumTo(n, f) = SumTo(n, c)
  BY <1>1, NatsInts, SumSame
<1> QED
  BY <1>2, <1>3

----------------------------------------------------------------------------
(* The invariant of the indicators *)

LastClose(h) == IF h = <<>> THEN NoPrice ELSE h[Len(h)]

\* a and q are the sum of the last n values of s and that of their squares.
SumOK(a, s, n) == a \in Int /\ a = SumTo(SizeOf(s, n), LastN(s, n))

SquaresOK(q, s, n) ==
    q \in Int /\ q = SumTo(SizeOf(s, n), Squares(LastN(s, n), SizeOf(s, n)))

\* The average over the closes h, with length n.
SmaOK(s, h, n) ==
    /\ s \in [length : {n}, window : {s.window}, sum : Int]
    /\ RingOK(s.window, n, h)
    /\ SumOK(s.sum, h, n)

\* The close of n candles ago.
CloseOK(w, h, n) ==
    /\ w \in [length : {n}, window : {w.window}]
    /\ RingOK(w.window, n + 1, h)

\* The volatility, with the returns x.
VolOK(v, h, x, n) ==
    /\ v \in [length : {n}, window : {v.window}, sum : Int, sumsq : Int, prev : Int]
    /\ RingOK(v.window, n, x)
    /\ v.prev = LastClose(h)
    /\ SumOK(v.sum, x, n) /\ SquaresOK(v.sumsq, x, n)

\* In the seed.
SeedOK(r, h, n) ==
    LET m == Len(h) - 1
    IN  /\ r.seed = m /\ r.last = NoRsi
        /\ r.gainSum = SumTo(m, Gains(h)) /\ r.lossSum = SumTo(m, Losses(h))

\* After it.
SmoothOK(r, h, n) ==
    LET m == Len(h) - 1
    IN  /\ r.seed = n /\ r.exp = (m + 1) - n
        /\ r.gain = WilderAverage(Gains(h), m, n) /\ r.loss = WilderAverage(Losses(h), m, n)
        /\ r.last = Ready(ComputeRsi(r.gain, r.loss))

\* The RSI; with length 0 it stays as it began.
RsiOK(r, h, n) ==
    /\ r \in [length : {n}, prev : Int, seed : Nat, gainSum : Nat, lossSum : Nat,
              gain : Nat, loss : Nat, exp : Nat, last : {r.last}]
    /\ n = 0 => r.last = NoRsi
    /\ n > 0 => /\ r.prev = LastClose(h)
                /\ h = <<>> => /\ r.seed = 0 /\ r.gainSum = 0 /\ r.lossSum = 0
                               /\ r.last = NoRsi
                /\ h # <<>> => IF Len(h) - 1 < n THEN SeedOK(r, h, n) ELSE SmoothOK(r, h, n)

\* The last snapshot is made of what the indicators hold now.
SnapshotOK(s, h, r, c, v) ==
    s = IF h = <<>> THEN NoSnapshot
        ELSE Snapshot(h[Len(h)], r, c, v, Len(h) = 1 \/ h[Len(h) - 1] = 0)

\* The length that ChangeVolatilityIndicator::reset makes of n.
VolLength(n) == IF n < 2 THEN 2 ELSE n

\* The inductive invariant: every indicator as a function of hist.
HInv ==
    /\ params \in Params /\ hist \in Seq(Prices) /\ taken \in Nat
    /\ ReturnsOK(hist)
    /\ SmaOK(sma, hist, params.sma)
    /\ CloseOK(closeN, hist, params.trend)
    /\ VolOK(vol, hist, Returns(hist), VolLength(params.vol))
    /\ RsiOK(rsi, hist, params.rsi)
    /\ SnapshotOK(snapshot, hist, rsi, closeN, vol)

\* The sums over an empty window.
LEMMA EmptyWindow ==
    ASSUME NEW n \in Nat
    PROVE  SumOK(0, <<>>, n) /\ SquaresOK(0, <<>>, n)
<1>1. SizeOf(<<>>, n) = 0
  BY DEF SizeOf
<1> QED
  BY <1>1, SumZero DEF SumOK, SquaresOK

\* The sum over the window after one more value.
LEMMA WindowSum ==
    ASSUME NEW n \in Nat, n > 0, NEW s \in Seq(Int), NEW v \in Int,
           NEW b, RingOK(b, n, s), NEW a, SumOK(a, s, n)
    PROVE  SumOK((a - Overwritten(b)) + v, Append(s, v), n)
<1> DEFINE t == Append(s, v)
           f == LastN(s, n)
           g == LastN(t, n)
           k == SizeOf(s, n)
           m == SizeOf(t, n)
           old == OldOf(s, n)
<1>1. Overwritten(b) = old
  BY RingOverwrites DEF OldOf
<1>2. Slides(f, k, g, m, old, v) /\ k \in Nat /\ m \in Nat /\ Ints(f, k)
  BY WindowSlides
<1> HIDE DEF t, f, g, k, m, old
<1>3. SumTo(m, g) = (SumTo(k, f) - old) + v /\ old \in Int
  BY <1>2, SlideSum
<1>4. SumTo(k, f) = a /\ a \in Int
  BY DEF SumOK, f, k
<1>5. SumTo(m, g) = (a - old) + v /\ (a - old) + v \in Int
  BY <1>3, <1>4
<1> QED
  BY <1>1, <1>5 DEF SumOK, g, m, t

\* The sum of its squares.
LEMMA WindowSquares ==
    ASSUME NEW n \in Nat, n > 0, NEW s \in Seq(Int), NEW v \in Int,
           NEW b, RingOK(b, n, s), NEW a, SquaresOK(a, s, n)
    PROVE  SquaresOK((a - Overwritten(b) * Overwritten(b)) + v * v, Append(s, v), n)
<1> DEFINE t == Append(s, v)
           f == LastN(s, n)
           g == LastN(t, n)
           k == SizeOf(s, n)
           m == SizeOf(t, n)
           old == OldOf(s, n)
           F == Squares(f, k)
           G == Squares(g, m)
           p == old * old
           q == v * v
<1>1. Overwritten(b) = old
  BY RingOverwrites DEF OldOf
<1>2. Slides(f, k, g, m, old, v) /\ k \in Nat /\ m \in Nat /\ Ints(f, k)
  BY WindowSlides
<1> HIDE DEF t, f, g, k, m, old
<1>3. Slides(F, k, G, m, p, q) /\ Ints(F, k) /\ q \in Int
  BY <1>2, SlideSquares, SquaresInts
<1> HIDE DEF F, G, p, q
<1>4. SumTo(m, G) = (SumTo(k, F) - p) + q /\ p \in Int
  BY <1>2, <1>3, SlideSum
<1>5. SumTo(k, F) = a /\ a \in Int
  BY DEF SquaresOK, F, k, f
<1>6. SumTo(m, G) = (a - p) + q /\ (a - p) + q \in Int
  BY <1>3, <1>4, <1>5
<1> QED
  BY <1>1, <1>6 DEF SquaresOK, g, m, t, G, p, q

----------------------------------------------------------------------------
(* The average *)

LEMMA SmaBegins ==
    ASSUME NEW n \in Nat
    PROVE  SmaOK(SmaReset(n), <<>>, n)
<1> DEFINE s == SmaReset(n)
<1>1. s \in [length : {n}, window : {s.window}, sum : Int] /\ s.window = Ring(n) /\ s.sum = 0
  BY DEF SmaReset
<1> HIDE DEF s
<1>2. SmaOK(s, <<>>, n)
  BY <1>1, RingNew, EmptyWindow DEF SmaOK
<1> QED
  BY <1>2 DEF s

\* Cleared (Sma.cpp:13-16).
LEMMA SmaClears ==
    ASSUME NEW n \in Nat, NEW h \in Seq(Int), NEW s, SmaOK(s, h, n)
    PROVE  SmaOK(SmaClear(s), <<>>, n)
<1> DEFINE c == SmaClear(s)
           w == ClearRing(s.window)
<1>1. c = [s EXCEPT !.window = w, !.sum = 0] /\ RingOK(w, n, <<>>)
  BY RingClear DEF SmaClear, SmaOK
<1>2. s \in [length : {n}, window : {s.window}, sum : Int]
  BY DEF SmaOK
<1> HIDE DEF c, w
<1>3. c \in [length : {n}, window : {c.window}, sum : Int] /\ c.window = w /\ c.sum = 0
  <2>1. c.window = w /\ c.sum = 0 /\ c.length = n /\ DOMAIN c = DOMAIN s
    BY <1>1, <1>2
  <2>2. c = [length |-> n, window |-> w, sum |-> 0]
    BY <1>1, <1>2
  <2> QED
    BY <2>1, <2>2
<1>4. SmaOK(c, <<>>, n)
  BY <1>1, <1>3, EmptyWindow DEF SmaOK
<1> QED
  BY <1>4 DEF c

\* Fed one more value (Sma.cpp:18-43).
LEMMA SmaUpdates ==
    ASSUME NEW n \in Nat, NEW h \in Seq(Int), NEW s, SmaOK(s, h, n), NEW x \in Int
    PROVE  SmaOK(SmaUpdate(s, x), Append(h, x), n)
<1> DEFINE t == Append(h, x)
           c == SmaUpdate(s, x)
           w == Push(s.window, x)
           z == s.sum - Overwritten(s.window) + x
<1>1. /\ s \in [length : {n}, window : {s.window}, sum : Int]
      /\ RingOK(s.window, n, h) /\ SumOK(s.sum, h, n) /\ s.length = n
  BY DEF SmaOK
<1>2. RingOK(w, n, t)
  BY <1>1, RingPush
<1>3. CASE n = 0
  <2>1. c = s
    BY <1>1, <1>3 DEF SmaUpdate
  <2>2. s.window.cap = 0
    BY <1>1, <1>3 DEF RingOK
  <2>3. w = s.window
    BY <2>2 DEF Push
  <2>4. SizeOf(h, n) = 0 /\ SizeOf(t, n) = 0
    BY <1>3 DEF SizeOf
  <2>5. SumOK(s.sum, t, n)
    BY <1>1, <2>4, SumZero DEF SumOK
  <2> QED
    BY <1>1, <1>2, <2>1, <2>3, <2>5 DEF SmaOK
<1>4. CASE n > 0
  <2>1. c = [s EXCEPT !.window = w, !.sum = z]
    BY <1>1, <1>4 DEF SmaUpdate
  <2>2. SumOK(z, t, n)
    BY <1>1, <1>4, WindowSum
  <2> HIDE DEF c, w, z, t
  <2>3. c \in [length : {n}, window : {c.window}, sum : Int] /\ c.window = w /\ c.sum = z
    BY <1>1, <2>1, <2>2 DEF SumOK
  <2>4. SmaOK(c, t, n)
    BY <1>2, <2>2, <2>3 DEF SmaOK
  <2> QED
    BY <2>4 DEF c, t
<1> QED
  BY <1>3, <1>4

----------------------------------------------------------------------------
(* The close of N candles ago *)

LEMMA CloseBegins ==
    ASSUME NEW n \in Nat
    PROVE  CloseOK(CloseReset(n), <<>>, n)
<1> DEFINE w == CloseReset(n)
<1>1. w \in [length : {n}, window : {w.window}] /\ w.window = Ring(n + 1) /\ n + 1 \in Nat
  BY DEF CloseReset
<1> HIDE DEF w
<1>2. CloseOK(w, <<>>, n)
  BY <1>1, RingNew DEF CloseOK
<1> QED
  BY <1>2 DEF w

\* Cleared (ClosePriceWindow.cpp:15-17).
LEMMA CloseClears ==
    ASSUME NEW n \in Nat, NEW h \in Seq(Int), NEW w, CloseOK(w, h, n)
    PROVE  CloseOK(CloseClear(w), <<>>, n)
<1> DEFINE c == CloseClear(w)
           b == ClearRing(w.window)
<1>1. c = [w EXCEPT !.window = b] /\ RingOK(b, n + 1, <<>>)
  BY RingClear DEF CloseClear, CloseOK
<1>2. w \in [length : {n}, window : {w.window}]
  BY DEF CloseOK
<1> HIDE DEF c, b
<1>3. c \in [length : {n}, window : {c.window}] /\ c.window = b
  BY <1>1, <1>2
<1>4. CloseOK(c, <<>>, n)
  BY <1>1, <1>3 DEF CloseOK
<1> QED
  BY <1>4 DEF c

\* Fed one more close (ClosePriceWindow.cpp:19-42).
LEMMA CloseUpdates ==
    ASSUME NEW n \in Nat, NEW h \in Seq(Int), NEW w, CloseOK(w, h, n), NEW x \in Int
    PROVE  CloseOK(CloseUpdate(w, x), Append(h, x), n)
<1> DEFINE c == CloseUpdate(w, x)
           b == Push(w.window, x)
           t == Append(h, x)
<1>1. c = [w EXCEPT !.window = b] /\ RingOK(b, n + 1, t)
  <2> DEFINE N == n + 1
             o == w.window
  <2>1. N \in Nat /\ RingOK(o, N, h)
    BY DEF CloseOK
  <2> HIDE DEF N, o
  <2>2. RingOK(Push(o, x), N, Append(h, x))
    BY <2>1, RingPush
  <2> QED
    BY <2>2 DEF CloseUpdate, N, o
<1>2. w \in [length : {n}, window : {w.window}]
  BY DEF CloseOK
<1> HIDE DEF c, b, t
<1>3. c \in [length : {n}, window : {c.window}] /\ c.window = b
  BY <1>1, <1>2
<1>4. CloseOK(c, t, n)
  BY <1>1, <1>3 DEF CloseOK
<1> QED
  BY <1>4 DEF c, t

\* What it is.
LEMMA CloseIs ==
    ASSUME NEW n \in Nat, NEW h \in Seq(Int), NEW w, CloseOK(w, h, n)
    PROVE  CloseN(w) = IF Len(h) > n THEN Ready(h[Len(h) - n]) ELSE NotReady
<1> DEFINE b == w.window
           N == n + 1
<1>1. RingOK(b, N, h) /\ N \in Nat /\ w.length = n
  BY DEF CloseOK
<1>2. b.size = IF Len(h) <= N THEN Len(h) ELSE N
  BY <1>1, RingFields
<1>3. CASE Len(h) <= n
  <2>1. ValueFromBack(b, n) = {}
    BY <1>2, <1>3 DEF ValueFromBack
  <2> QED
    BY <1>1, <1>3, <2>1 DEF CloseN
<1>4. CASE Len(h) > n
  <2> DEFINE v == b.buf[PhysicalIndexFromNewest(b, n)]
  <2>1. b.size = N
    BY <1>2, <1>4
  <2>2. ValueFromBack(b, n) = {v}
    BY <2>1 DEF ValueFromBack
  <2>3. v = h[Len(h) - n]
    <3> HIDE DEF b, N
    <3>1. 1 \in 1..b.size /\ b.size - 1 = n
      BY <2>1 DEF N
    <3>2. PhysicalIndexFromNewest(b, n) = At(b.head, 1 - 1, N)
      BY <1>1, <3>1, RingPlaces
    <3>3. b.buf[At(b.head, 1 - 1, N)] = h[(Len(h) - b.size) + 1]
      BY <1>1, <3>1 DEF RingOK
    <3>4. (Len(h) - b.size) + 1 = Len(h) - n
      BY <2>1 DEF N
    <3> QED
      BY <3>2, <3>3, <3>4
  <2> HIDE DEF v, b
  <2>4. CloseN(w) = Ready(v)
    BY <1>1, <2>2 DEF CloseN, b
  <2> QED
    BY <1>4, <2>3, <2>4
<1> QED
  BY <1>3, <1>4

----------------------------------------------------------------------------
(* The volatility *)

LEMMA LastOfAppend ==
    ASSUME NEW h \in Seq(Nat), NEW c \in Nat
    PROVE  /\ Append(h, c) # <<>> /\ Append(h, c)[Len(Append(h, c))] = c
           /\ LastClose(Append(h, c)) = c
<1>1. Append(h, c) # <<>> /\ Append(h, c)[Len(Append(h, c))] = c
  OBVIOUS
<1> QED
  BY <1>1 DEF LastClose

\* New (ChangeVolatilityIndicator.cpp:10-16).
LEMMA VolBegins ==
    ASSUME NEW n \in Nat
    PROVE  VolOK(VolReset(n), <<>>, <<>>, VolLength(n))
<1> DEFINE v == VolReset(n)
           N == VolLength(n)
<1>1. /\ v = [length |-> N, window |-> Ring(N), sum |-> 0, sumsq |-> 0, prev |-> NoPrice]
      /\ N \in Nat
  BY DEF VolReset, VolLength
<1> HIDE DEF v, N
<1>2. v.window = Ring(N) /\ v.sum = 0 /\ v.sumsq = 0 /\ v.prev = -1
  BY <1>1 DEF NoPrice
<1>3. v \in [length : {N}, window : {v.window}, sum : Int, sumsq : Int, prev : Int]
  BY <1>1, <1>2 DEF NoPrice
<1>4. RingOK(v.window, N, <<>>) /\ SumOK(v.sum, <<>>, N) /\ SquaresOK(v.sumsq, <<>>, N)
  BY <1>1, <1>2, RingNew, EmptyWindow
<1>5. v.prev = LastClose(<<>>)
  BY <1>2 DEF LastClose, NoPrice
<1>6. VolOK(v, <<>>, <<>>, N)
  BY <1>3, <1>4, <1>5 DEF VolOK
<1> QED
  BY <1>6 DEF v, N

\* Cleared (ChangeVolatilityIndicator.cpp:19-24).
LEMMA VolClears ==
    ASSUME NEW n \in Nat, NEW h, NEW x \in Seq(Int), NEW v, VolOK(v, h, x, n)
    PROVE  VolOK(VolClear(v), <<>>, <<>>, n)
<1> DEFINE c == VolClear(v)
           w == ClearRing(v.window)
<1>1. /\ v \in [length : {n}, window : {v.window}, sum : Int, sumsq : Int, prev : Int]
      /\ RingOK(v.window, n, x)
  BY DEF VolOK
<1>2. RingOK(w, n, <<>>)
  BY <1>1, RingClear
<1>3. c = [v EXCEPT !.window = w, !.sum = 0, !.sumsq = 0, !.prev = NoPrice]
  BY DEF VolClear
<1> HIDE DEF c, w
<1>4. c = [length |-> n, window |-> w, sum |-> 0, sumsq |-> 0, prev |-> -1]
  BY <1>1, <1>3 DEF NoPrice
<1>5. c.window = w /\ c.sum = 0 /\ c.sumsq = 0 /\ c.prev = -1
  BY <1>4
<1>6. c \in [length : {n}, window : {c.window}, sum : Int, sumsq : Int, prev : Int]
  BY <1>4, <1>5
<1>7. SumOK(c.sum, <<>>, n) /\ SquaresOK(c.sumsq, <<>>, n) /\ RingOK(c.window, n, <<>>)
  BY <1>2, <1>5, EmptyWindow
<1>8. c.prev = LastClose(<<>>)
  BY <1>5 DEF LastClose, NoPrice
<1>9. VolOK(c, <<>>, <<>>, n)
  BY <1>6, <1>7, <1>8 DEF VolOK
<1> QED
  BY <1>9 DEF c

\* A close without a return.
LEMMA VolSkipsOK ==
    ASSUME NEW n \in Nat, NEW h \in Seq(Nat), NEW x, NEW v, VolOK(v, h, x, n), NEW c \in Nat,
           VolSkips(v)
    PROVE  VolOK(VolUpdate(v, c), Append(h, c), x, n)
<1> DEFINE u == VolUpdate(v, c)
           t == Append(h, c)
<1>1. /\ v \in [length : {n}, window : {v.window}, sum : Int, sumsq : Int, prev : Int]
      /\ RingOK(v.window, n, x) /\ SumOK(v.sum, x, n) /\ SquaresOK(v.sumsq, x, n)
  BY DEF VolOK
<1>2. u = [v EXCEPT !.prev = c]
  BY DEF VolUpdate
<1>3. LastClose(t) = c
  BY LastOfAppend
<1> HIDE DEF u, t
<1>4. u.window = v.window /\ u.sum = v.sum /\ u.sumsq = v.sumsq /\ u.prev = c
  BY <1>1, <1>2
<1>5. u \in [length : {n}, window : {u.window}, sum : Int, sumsq : Int, prev : Int]
  BY <1>1, <1>2, <1>4
<1>6. u.prev = LastClose(t)
  BY <1>3, <1>4
<1>7. VolOK(u, t, x, n)
  BY <1>1, <1>4, <1>5, <1>6 DEF VolOK
<1> QED
  BY <1>7 DEF u, t

\* A close with the return r.
LEMMA VolTakes ==
    ASSUME NEW n \in Nat, n > 0, NEW h \in Seq(Nat), NEW x \in Seq(Int), NEW v, VolOK(v, h, x, n),
           NEW c \in Nat, ~VolSkips(v), NEW r \in Int, r = ((c - v.prev) * Scale) \div v.prev
    PROVE  VolOK(VolUpdate(v, c), Append(h, c), Append(x, r), n)
<1> DEFINE u == VolUpdate(v, c)
           t == Append(h, c)
           y == Append(x, r)
           b == v.window
           w == Push(b, r)
           old == Overwritten(b)
           s == (v.sum - old) + r
           q == (v.sumsq - old * old) + r * r
<1>1. /\ v \in [length : {n}, window : {v.window}, sum : Int, sumsq : Int, prev : Int]
      /\ RingOK(b, n, x) /\ SumOK(v.sum, x, n) /\ SquaresOK(v.sumsq, x, n)
  BY DEF VolOK
<1>2. u = [v EXCEPT !.prev = c, !.window = w, !.sum = s, !.sumsq = q]
  BY DEF VolUpdate
<1>3. LastClose(t) = c
  BY LastOfAppend
<1>4. RingOK(w, n, y) /\ SumOK(s, y, n) /\ SquaresOK(q, y, n)
  <2> HIDE DEF b
  <2> QED
    BY <1>1, RingPush, WindowSum, WindowSquares
<1> HIDE DEF u, t, y, w, s, q
<1>5. s \in Int /\ q \in Int
  BY <1>4 DEF SumOK, SquaresOK
<1>6. u = [length |-> n, window |-> w, sum |-> s, sumsq |-> q, prev |-> c]
  BY <1>1, <1>2
<1>7. u.window = w /\ u.sum = s /\ u.sumsq = q /\ u.prev = c
  BY <1>6
<1>8. u \in [length : {n}, window : {u.window}, sum : Int, sumsq : Int, prev : Int]
  BY <1>5, <1>6, <1>7
<1>9. u.prev = LastClose(t)
  BY <1>3, <1>7
<1>10. VolOK(u, t, y, n)
  BY <1>4, <1>7, <1>8, <1>9 DEF VolOK
<1> QED
  BY <1>10 DEF u, t, y

\* A close, and what the returns become.
LEMMA VolUpdates ==
    ASSUME NEW n \in Nat, n > 0, NEW h \in Seq(Nat), ReturnsOK(h), NEW v,
           VolOK(v, h, Returns(h), n), NEW c \in Nat
    PROVE  /\ VolOK(VolUpdate(v, c), Append(h, c), Returns(Append(h, c)), n)
           /\ ReturnsOK(Append(h, c))
           /\ VolSkips(v) <=> h = <<>> \/ h[Len(h)] = 0
<1> DEFINE t == Append(h, c)
<1>1. v.prev = LastClose(h) /\ Returns(h) \in Seq(Int)
  BY DEF VolOK, ReturnsOK
<1>2. t \in Seq(Nat) /\ Len(t) = Len(h) + 1 /\ t = Append(h, c)
  OBVIOUS
<1>3. CASE h = <<>>
  <2>1. VolSkips(v)
    BY <1>1, <1>3 DEF VolSkips, LastClose
  <2>2. Len(h) <= 1 /\ Len(t) <= 1
    BY <1>2, <1>3
  <2>3. Returns(h) = <<>> /\ Returns(t) = <<>> /\ ReturnsOK(t)
    BY <1>2, <2>2, ReturnsEmpty
  <2>4. VolOK(VolUpdate(v, c), t, Returns(t), n)
    BY <2>1, <2>3, VolSkipsOK
  <2> QED
    BY <1>3, <2>1, <2>3, <2>4
<1>4. CASE h # <<>> /\ h[Len(h)] = 0
  <2>1. VolSkips(v)
    BY <1>1, <1>4 DEF VolSkips, LastClose
  <2>2. Len(h) > 0
    BY <1>4
  <2>3. Returns(t) = Returns(h) /\ ReturnsOK(t)
    BY <1>2, <1>4, <2>2, ReturnsKept
  <2>4. VolOK(VolUpdate(v, c), t, Returns(t), n)
    BY <2>1, <2>3, VolSkipsOK
  <2> QED
    BY <1>4, <2>1, <2>3, <2>4
<1>5. CASE h # <<>> /\ h[Len(h)] # 0
  <2> DEFINE p == h[Len(h)]
             r == ((c - p) * Scale) \div p
  <2>1. Len(h) > 0 /\ Len(h) \in 1..Len(h)
    BY <1>5
  <2>2. p \in Nat /\ p # 0 /\ v.prev = p
    BY <1>1, <1>5, <2>1 DEF LastClose
  <2>3. ~VolSkips(v)
    BY <2>2 DEF VolSkips, NoPrice
  <2>4. r = ((c - h[Len(h)]) * Scale) \div h[Len(h)] /\ r = ((c - v.prev) * Scale) \div v.prev
    BY <2>2
  <2> HIDE DEF r
  <2>5. ReturnsOK(t) /\ Returns(t) = Append(Returns(h), r) /\ r \in Int
    BY <1>2, <1>5, <2>1, <2>4, ReturnsMore
  <2>6. VolOK(VolUpdate(v, c), t, Append(Returns(h), r), n)
    BY <1>1, <2>3, <2>4, <2>5, VolTakes
  <2> QED
    BY <1>5, <2>3, <2>5, <2>6
<1> QED
  BY <1>3, <1>4, <1>5

----------------------------------------------------------------------------
(* The RSI *)

LEMMA UpType ==
    ASSUME NEW d \in Int
    PROVE  Up(d) \in Nat /\ Up(-d) \in Nat
BY DEF Up

\* The changes after one more close.
LEMMA ChangesGrow ==
    ASSUME NEW h \in Seq(Nat), h # <<>>, NEW c \in Nat, NEW t, t = Append(h, c)
    PROVE  LET m == Len(h) - 1
               d == c - h[Len(h)]
           IN  /\ Nats(Gains(h), m) /\ Nats(Losses(h), m)
               /\ Nats(Gains(t), m + 1) /\ Nats(Losses(t), m + 1)
               /\ \A j \in 1..m : Gains(t)[j] = Gains(h)[j] /\ Losses(t)[j] = Losses(h)[j]
               /\ Gains(t)[m + 1] = Up(d) /\ Losses(t)[m + 1] = Up(-d)
               /\ d \in Int
<1> DEFINE L == Len(h)
           m == L - 1
           d == c - h[L]
<1>1. /\ L \in Nat /\ L > 0 /\ Len(t) = L + 1 /\ L \in 1..L /\ t[L] = h[L] /\ t[L + 1] = c
      /\ h[L] \in Nat /\ m \in Nat /\ m + 1 = L /\ Len(t) - 1 = L
  OBVIOUS
<1>2. \A j \in 1..m : Change(t, j) = Change(h, j) /\ Change(h, j) \in Int
  BY OldChanges
<1>3. Change(t, L) = d /\ d \in Int
  BY <1>1 DEF Change
<1> HIDE DEF L, m, d
<1>4. \A j \in 1..m : /\ Gains(h)[j] = Up(Change(h, j)) /\ Losses(h)[j] = Up(-Change(h, j))
                      /\ Gains(h)[j] \in Nat /\ Losses(h)[j] \in Nat
  BY <1>2, UpType DEF Gains, Losses, m, L
<1>5. \A j \in 1..L : Gains(t)[j] = Up(Change(t, j)) /\ Losses(t)[j] = Up(-Change(t, j))
  BY <1>1 DEF Gains, Losses
<1>6. \A j \in 1..m : j \in 1..L
  BY <1>1
<1>7. \A j \in 1..m : Gains(t)[j] = Gains(h)[j] /\ Losses(t)[j] = Losses(h)[j]
  BY <1>2, <1>4, <1>5, <1>6
<1>8. Gains(t)[L] = Up(d) /\ Losses(t)[L] = Up(-d) /\ Up(d) \in Nat /\ Up(-d) \in Nat
  BY <1>1, <1>3, <1>5, UpType
<1>9. \A j \in 1..L : j \in 1..m \/ j = L
  BY <1>1
<1>10. Nats(Gains(t), L) /\ Nats(Losses(t), L)
  BY <1>4, <1>7, <1>8, <1>9 DEF Nats
<1>11. Nats(Gains(h), m) /\ Nats(Losses(h), m)
  BY <1>4 DEF Nats
<1> QED
  BY <1>1, <1>3, <1>7, <1>8, <1>10, <1>11 DEF L, m, d

\* New (RsiWilder.cpp:6-10).
LEMMA RsiBegins ==
    ASSUME NEW n \in Nat
    PROVE  RsiOK(RsiReset(n), <<>>, n)
<1> DEFINE r == RsiReset(n)
<1>1. r = [length |-> n, prev |-> NoPrice, seed |-> 0, gainSum |-> 0, lossSum |-> 0,
           gain |-> 0, loss |-> 0, exp |-> 0, last |-> NoRsi]
  BY DEF RsiReset
<1> HIDE DEF r
<1>2. /\ r.prev = NoPrice /\ r.seed = 0 /\ r.gainSum = 0 /\ r.lossSum = 0 /\ r.last = NoRsi
      /\ NoPrice \in Int
  BY <1>1 DEF NoPrice
<1>3. r \in [length : {n}, prev : Int, seed : Nat, gainSum : Nat, lossSum : Nat,
             gain : Nat, loss : Nat, exp : Nat, last : {r.last}]
  BY <1>1, <1>2
<1>4. RsiOK(r, <<>>, n)
  BY <1>2, <1>3 DEF RsiOK, LastClose
<1> QED
  BY <1>4 DEF r

\* Cleared (RsiWilder.cpp:12-25).
LEMMA RsiClears ==
    ASSUME NEW n \in Nat, NEW h, NEW r, RsiOK(r, h, n)
    PROVE  RsiOK(RsiClear(r), <<>>, n)
<1> DEFINE c == RsiClear(r)
           none == NoRsi
           no == NoPrice
<1>1. r \in [length : {n}, prev : Int, seed : Nat, gainSum : Nat, lossSum : Nat,
             gain : Nat, loss : Nat, exp : Nat, last : {r.last}]
  BY DEF RsiOK
<1>2. c = [r EXCEPT !.prev = no, !.seed = 0, !.gainSum = 0, !.lossSum = 0,
                    !.gain = 0, !.loss = 0, !.exp = 0, !.last = none]
  BY DEF RsiClear
<1> HIDE DEF c, none, no
<1>3. c = [length |-> n, prev |-> no, seed |-> 0, gainSum |-> 0, lossSum |-> 0,
           gain |-> 0, loss |-> 0, exp |-> 0, last |-> none]
  BY <1>1, <1>2
<1>4. c = RsiReset(n)
  BY <1>3 DEF RsiReset, none, no
<1> QED
  BY <1>4, RsiBegins DEF c

\* The first close.
LEMMA RsiFirst ==
    ASSUME NEW n \in Nat, n > 0, NEW r, NEW h \in Seq(Nat), h = <<>>, RsiOK(r, h, n), NEW c \in Nat
    PROVE  RsiOK(RsiUpdate(r, c), Append(h, c), n)
<1> DEFINE u == RsiUpdate(r, c)
           t == Append(h, c)
           none == NoRsi
<1>1. /\ r \in [length : {n}, prev : Int, seed : Nat, gainSum : Nat, lossSum : Nat,
                gain : Nat, loss : Nat, exp : Nat, last : {r.last}]
      /\ r.prev = NoPrice /\ r.seed = 0 /\ r.gainSum = 0 /\ r.lossSum = 0
      /\ r.last = none /\ r.length = n
  BY DEF RsiOK, LastClose
<1>2. u = [r EXCEPT !.prev = c]
  BY <1>1 DEF RsiUpdate
<1>3. t # <<>> /\ LastClose(t) = c
  BY LastOfAppend
<1>4. Len(t) = 1 /\ Len(t) - 1 = 0
  <2>1. Len(t) = Len(h) + 1 /\ Len(h) = 0
    OBVIOUS
  <2> QED
    BY <2>1
<1> HIDE DEF u, t, none
<1>5. /\ u.prev = c /\ u.seed = 0 /\ u.gainSum = 0 /\ u.lossSum = 0 /\ u.last = none
      /\ u \in [length : {n}, prev : Int, seed : Nat, gainSum : Nat, lossSum : Nat,
                gain : Nat, loss : Nat, exp : Nat, last : {u.last}]
  BY <1>1, <1>2
<1>6. SumTo(0, Gains(t)) = 0 /\ SumTo(0, Losses(t)) = 0
  BY SumZero
<1>7. SeedOK(u, t, n)
  BY <1>4, <1>5, <1>6 DEF SeedOK, none
<1>8. u.prev = LastClose(t) /\ Len(t) - 1 < n /\ n # 0 /\ t # <<>>
  <2>1. Len(t) - 1 < n /\ n # 0
    BY <1>4
  <2>2. u.prev = c
    BY <1>5
  <2> QED
    BY <1>3, <2>1, <2>2
<1>9. RsiOK(u, t, n)
  BY <1>5, <1>7, <1>8 DEF RsiOK
<1> QED
  BY <1>9 DEF u, t

\* The record that RsiUpdate changes.
RsiFields(r, n) ==
    r \in [length : {n}, prev : Int, seed : Nat, gainSum : Nat, lossSum : Nat,
           gain : Nat, loss : Nat, exp : Nat, last : {r.last}]

\* A change in the seed that leaves it unfinished.
LEMMA SeedGoesOn ==
    ASSUME NEW n \in Nat, NEW r, RsiFields(r, n), NEW d \in Int, r.seed + 1 < n,
           NEW u, u = RsiSeed(r, d)
    PROVE  /\ RsiFields(u, n)
           /\ u.prev = r.prev /\ u.seed = r.seed + 1 /\ u.last = r.last
           /\ u.gainSum = r.gainSum + Up(d) /\ u.lossSum = r.lossSum + Up(-d)
<1> DEFINE g == r.gainSum + Up(d)
           l == r.lossSum + Up(-d)
           k == r.seed + 1
           s == [r EXCEPT !.seed = k, !.gainSum = g, !.lossSum = l]
<1>1. Up(d) \in Nat /\ Up(-d) \in Nat
  BY UpType
<1>2. r.gainSum \in Nat /\ r.lossSum \in Nat /\ r.seed \in Nat /\ r.length = n
  BY DEF RsiFields
<1>3. g \in Nat /\ l \in Nat /\ k \in Nat /\ k < n
  BY <1>1, <1>2
<1>4. u = IF s.seed < s.length THEN s
          ELSE [s EXCEPT !.gain = s.gainSum, !.loss = s.lossSum, !.exp = 1,
                         !.last = Ready(ComputeRsi(s.gainSum, s.lossSum))]
  BY DEF RsiSeed
<1>5. s.seed = k /\ s.length = n
  BY DEF RsiFields
<1>6. u = s
  BY <1>3, <1>4, <1>5
<1> HIDE DEF g, l, k
<1>7. /\ u.prev = r.prev /\ u.seed = k /\ u.last = r.last /\ u.gainSum = g /\ u.lossSum = l
      /\ u \in [length : {n}, prev : Int, seed : Nat, gainSum : Nat, lossSum : Nat,
                gain : Nat, loss : Nat, exp : Nat, last : {u.last}]
  BY <1>3, <1>6 DEF RsiFields
<1> QED
  BY <1>7 DEF RsiFields, g, l, k

\* The one that finishes it.
LEMMA SeedEnds ==
    ASSUME NEW n \in Nat, NEW r, RsiFields(r, n), NEW d \in Int, r.seed + 1 = n,
           NEW u, u = RsiSeed(r, d)
    PROVE  /\ RsiFields(u, n)
           /\ u.prev = r.prev /\ u.seed = n /\ u.exp = 1
           /\ u.gain = r.gainSum + Up(d) /\ u.loss = r.lossSum + Up(-d)
           /\ u.last = Ready(ComputeRsi(u.gain, u.loss))
<1> DEFINE g == r.gainSum + Up(d)
           l == r.lossSum + Up(-d)
           k == r.seed + 1
           s == [r EXCEPT !.seed = k, !.gainSum = g, !.lossSum = l]
           q == Ready(ComputeRsi(g, l))
<1>1. Up(d) \in Nat /\ Up(-d) \in Nat
  BY UpType
<1>2. r.gainSum \in Nat /\ r.lossSum \in Nat /\ r.seed \in Nat /\ r.length = n
  BY DEF RsiFields
<1>3. g \in Nat /\ l \in Nat /\ ~(n < n)
  BY <1>1, <1>2
<1>4. u = IF s.seed < s.length THEN s
          ELSE [s EXCEPT !.gain = s.gainSum, !.loss = s.lossSum, !.exp = 1,
                         !.last = Ready(ComputeRsi(s.gainSum, s.lossSum))]
  BY DEF RsiSeed
<1>5. s.seed = n /\ k = n /\ s.length = n /\ s.gainSum = g /\ s.lossSum = l
  BY DEF RsiFields
<1>6. u = [s EXCEPT !.gain = g, !.loss = l, !.exp = 1, !.last = q]
  BY <1>3, <1>4, <1>5
<1> HIDE DEF g, l, q, k
<1>7. u = [length |-> n, prev |-> r.prev, seed |-> n, gainSum |-> g, lossSum |-> l,
           gain |-> g, loss |-> l, exp |-> 1, last |-> q]
  BY <1>5, <1>6 DEF RsiFields
<1>8. /\ u.prev = r.prev /\ u.seed = n /\ u.exp = 1 /\ u.gain = g /\ u.loss = l /\ u.last = q
      /\ r.prev \in Int
  BY <1>7 DEF RsiFields
<1>9. u \in [length : {n}, prev : Int, seed : Nat, gainSum : Nat, lossSum : Nat,
             gain : Nat, loss : Nat, exp : Nat, last : {u.last}]
  BY <1>3, <1>7, <1>8
<1> QED
  BY <1>8, <1>9 DEF RsiFields, g, l, q

\* y is what Wilder's smoothing makes of x, which is over n^k, and the change d.
Smoothed(y, x, d, n, k) == y = x * (n - 1) + d * Power(n, k)

\* u is r after a change d.
SmoothedBy(u, r, d, n) ==
    /\ RsiFields(u, n)
    /\ u.prev = r.prev /\ u.seed = r.seed /\ u.exp = r.exp + 1
    /\ Smoothed(u.gain, r.gain, Up(d), n, r.exp)
    /\ Smoothed(u.loss, r.loss, Up(-d), n, r.exp)
    /\ u.last = Ready(ComputeRsi(u.gain, u.loss))

\* One after the seed.
LEMMA SmoothGoesOn ==
    ASSUME NEW n \in Nat, n # 0, NEW r, RsiFields(r, n), NEW d \in Int,
           NEW u, u = RsiSmooth(r, d)
    PROVE  SmoothedBy(u, r, d, n)
<1> DEFINE one == Power(n, r.exp)
           a == n - 1
           x == Up(d)
           y == Up(-d)
           g == r.gain * a + x * one
           l == r.loss * a + y * one
           k == r.exp + 1
           q == Ready(ComputeRsi(g, l))
<1>1. x \in Nat /\ y \in Nat
  BY UpType
<1>2. r.gain \in Nat /\ r.loss \in Nat /\ r.exp \in Nat /\ r.length = n /\ a \in Nat
  BY DEF RsiFields
<1>3. one \in Nat
  BY <1>2, PowerNat
<1>4. u = [r EXCEPT !.gain = g, !.loss = l, !.exp = k, !.last = q]
  BY <1>2 DEF RsiSmooth
<1>5. g \in Nat /\ l \in Nat /\ k \in Nat
  <2> HIDE DEF x, y, a, one
  <2> QED
    BY <1>1, <1>2, <1>3
<1> HIDE DEF g, l, k, q
<1>6. u = [length |-> n, prev |-> r.prev, seed |-> r.seed, gainSum |-> r.gainSum,
           lossSum |-> r.lossSum, gain |-> g, loss |-> l, exp |-> k, last |-> q]
  BY <1>4 DEF RsiFields
<1>7. /\ u.prev = r.prev /\ u.seed = r.seed /\ u.exp = k /\ u.gain = g /\ u.loss = l /\ u.last = q
      /\ r.prev \in Int /\ r.seed \in Nat /\ r.gainSum \in Nat /\ r.lossSum \in Nat
  BY <1>6 DEF RsiFields
<1>8. u \in [length : {n}, prev : Int, seed : Nat, gainSum : Nat, lossSum : Nat,
             gain : Nat, loss : Nat, exp : Nat, last : {u.last}]
  BY <1>5, <1>6, <1>7
<1> QED
  BY <1>7, <1>8 DEF RsiFields, Smoothed, SmoothedBy, g, l, k, q

\* The sum over the seed after one more change.
LEMMA SeedSum ==
    ASSUME NEW m \in Nat, NEW f, NEW g, Nats(f, m), Nats(g, m + 1), \A j \in 1..m : g[j] = f[j]
    PROVE  SumTo(m, f) + g[m + 1] = SumTo(m + 1, g)
<1>1. Ints(f, m) /\ Ints(g, m + 1)
  BY DEF Nats, Ints
<1>2. SumTo(m, g) = SumTo(m, f)
  BY <1>1, SumSame
<1>3. SumTo(m + 1, g) = SumTo(m, g) + g[m + 1]
  BY <1>1, SumLast
<1> QED
  BY <1>2, <1>3

\* Every later close.
LEMMA RsiGoesOn ==
    ASSUME NEW n \in Nat, n > 0, NEW r, NEW h \in Seq(Nat), h # <<>>, RsiOK(r, h, n), NEW c \in Nat
    PROVE  RsiOK(RsiUpdate(r, c), Append(h, c), n)
<1> DEFINE t == Append(h, c)
           L == Len(h)
           m == L - 1
           d == c - h[L]
           s == [r EXCEPT !.prev = c]
           u == RsiUpdate(r, c)
<1>1. /\ L \in Nat /\ L > 0 /\ m \in Nat /\ m + 1 = L /\ Len(t) = L + 1 /\ Len(t) - 1 = m + 1
      /\ h[L] \in Nat /\ d \in Int
  OBVIOUS
<1>2. RsiFields(r, n) /\ r.length = n /\ r.prev = h[L] /\ r.prev # NoPrice
  BY <1>1 DEF RsiOK, RsiFields, LastClose, NoPrice
<1>3. /\ Nats(Gains(h), m) /\ Nats(Losses(h), m)
      /\ Nats(Gains(t), m + 1) /\ Nats(Losses(t), m + 1)
      /\ \A j \in 1..m : Gains(t)[j] = Gains(h)[j]
      /\ \A j \in 1..m : Losses(t)[j] = Losses(h)[j]
      /\ Gains(t)[m + 1] = Up(d) /\ Losses(t)[m + 1] = Up(-d)
  BY ChangesGrow
<1>4. t # <<>> /\ LastClose(t) = c
  BY LastOfAppend
<1>5. u = IF r.seed < n THEN RsiSeed(s, d) ELSE RsiSmooth(s, d)
  BY <1>2 DEF RsiUpdate
<1> HIDE DEF t, L, m, d, u
<1>6. /\ RsiFields(s, n) /\ s.prev = c /\ s.seed = r.seed /\ s.exp = r.exp /\ s.last = r.last
      /\ s.gainSum = r.gainSum /\ s.lossSum = r.lossSum /\ s.gain = r.gain /\ s.loss = r.loss
      /\ r.seed \in Nat /\ r.exp \in Nat
  <2>1. s = [r EXCEPT !.prev = c]
    OBVIOUS
  <2> HIDE DEF s
  <2>2. /\ s.prev = c /\ s.seed = r.seed /\ s.exp = r.exp /\ s.last = r.last
        /\ s.gainSum = r.gainSum /\ s.lossSum = r.lossSum /\ s.gain = r.gain /\ s.loss = r.loss
        /\ r.seed \in Nat /\ r.exp \in Nat
    BY <1>2, <2>1 DEF RsiFields
  <2>3. RsiFields(s, n)
    BY <1>2, <2>1, <2>2 DEF RsiFields
  <2> QED
    BY <2>2, <2>3
<1> HIDE DEF s
<1>10. /\ SumTo(m, Gains(h)) + Gains(t)[m + 1] = SumTo(m + 1, Gains(t))
       /\ SumTo(m, Losses(h)) + Losses(t)[m + 1] = SumTo(m + 1, Losses(t))
  <2> DEFINE g == Gains(h)
             l == Losses(h)
             G == Gains(t)
             K == Losses(t)
  <2>1. /\ Nats(g, m) /\ Nats(G, m + 1) /\ \A j \in 1..m : G[j] = g[j]
        /\ Nats(l, m) /\ Nats(K, m + 1) /\ \A j \in 1..m : K[j] = l[j]
        /\ m \in Nat
    BY <1>1, <1>3
  <2> HIDE DEF g, l, G, K
  <2>2. SumTo(m, g) + G[m + 1] = SumTo(m + 1, G)
    BY <2>1, SeedSum
  <2>3. SumTo(m, l) + K[m + 1] = SumTo(m + 1, K)
    BY <2>1, SeedSum
  <2> QED
    BY <2>2, <2>3 DEF g, l, G, K
<1>11. d \in Int /\ RsiFields(s, n) /\ n \in Nat /\ n # 0
  BY <1>1, <1>6
<1>7. CASE m + 1 < n
  <2>1. SeedOK(r, h, n)
    BY <1>1, <1>7 DEF RsiOK, m, L
  <2>2. /\ r.seed = m /\ r.last = NoRsi
        /\ r.gainSum = SumTo(m, Gains(h)) /\ r.lossSum = SumTo(m, Losses(h))
    BY <2>1 DEF SeedOK, m, L
  <2>3. u = RsiSeed(s, d) /\ s.seed + 1 < n
    BY <1>1, <1>5, <1>6, <1>7, <2>2
  <2>4. /\ RsiFields(u, n) /\ u.prev = c /\ u.seed = m + 1 /\ u.last = NoRsi
        /\ u.gainSum = r.gainSum + Up(d) /\ u.lossSum = r.lossSum + Up(-d)
    <3>1. /\ RsiFields(u, n)
          /\ u.prev = s.prev /\ u.seed = s.seed + 1 /\ u.last = s.last
          /\ u.gainSum = s.gainSum + Up(d) /\ u.lossSum = s.lossSum + Up(-d)
      BY <1>11, <2>3, SeedGoesOn
    <3> QED
      BY <1>6, <2>2, <3>1
  <2>5. u.gainSum = SumTo(m + 1, Gains(t)) /\ u.lossSum = SumTo(m + 1, Losses(t))
    BY <1>3, <1>10, <2>2, <2>4
  <2>6. SeedOK(u, t, n)
    BY <1>1, <2>4, <2>5 DEF SeedOK
  <2>7. RsiOK(u, t, n)
    BY <1>1, <1>4, <1>7, <2>4, <2>6 DEF RsiOK, RsiFields
  <2> QED
    BY <2>7 DEF u, t
<1>8. CASE m + 1 = n
  <2>1. SeedOK(r, h, n)
    BY <1>1, <1>8 DEF RsiOK, m, L
  <2>2. /\ r.seed = m /\ r.last = NoRsi
        /\ r.gainSum = SumTo(m, Gains(h)) /\ r.lossSum = SumTo(m, Losses(h))
    BY <2>1 DEF SeedOK, m, L
  <2>3. u = RsiSeed(s, d) /\ s.seed + 1 = n
    BY <1>1, <1>5, <1>6, <1>8, <2>2
  <2>4. /\ RsiFields(u, n) /\ u.prev = c /\ u.seed = n /\ u.exp = 1
        /\ u.gain = r.gainSum + Up(d) /\ u.loss = r.lossSum + Up(-d)
        /\ u.last = Ready(ComputeRsi(u.gain, u.loss))
    <3>1. /\ RsiFields(u, n)
          /\ u.prev = s.prev /\ u.seed = n /\ u.exp = 1
          /\ u.gain = s.gainSum + Up(d) /\ u.loss = s.lossSum + Up(-d)
          /\ u.last = Ready(ComputeRsi(u.gain, u.loss))
      BY <1>11, <2>3, SeedEnds
    <3> QED
      BY <1>6, <3>1
  <2>5. u.gain = SumTo(m + 1, Gains(t)) /\ u.loss = SumTo(m + 1, Losses(t))
    BY <1>3, <1>10, <2>2, <2>4
  <2>6. u.gain = WilderAverage(Gains(t), n, n) /\ u.loss = WilderAverage(Losses(t), n, n)
    BY <1>3, <1>8, <2>5, WilderSeed
  <2>7. Len(t) - 1 = n /\ 1 = (n + 1) - n
    BY <1>1, <1>8
  <2>8. SmoothOK(u, t, n)
    BY <2>4, <2>6, <2>7 DEF SmoothOK
  <2>9. RsiOK(u, t, n)
    <3>1. u.prev = LastClose(t) /\ t # <<>> /\ ~(Len(t) - 1 < n)
      BY <1>4, <2>4, <2>7
    <3> QED
      BY <2>4, <2>8, <3>1 DEF RsiOK, RsiFields
  <2> QED
    BY <2>9 DEF u, t
<1>9. CASE m >= n
  <2>1. SmoothOK(r, h, n)
    BY <1>1, <1>9 DEF RsiOK, m, L
  <2>2. /\ r.seed = n /\ r.exp = (m + 1) - n
        /\ r.gain = WilderAverage(Gains(h), m, n) /\ r.loss = WilderAverage(Losses(h), m, n)
    BY <2>1 DEF SmoothOK, m, L
  <2>3. u = RsiSmooth(s, d)
    BY <1>5, <2>2
  <2>4. /\ RsiFields(u, n) /\ u.prev = c /\ u.seed = n /\ u.exp = r.exp + 1
        /\ u.gain = r.gain * (n - 1) + Up(d) * Power(n, r.exp)
        /\ u.loss = r.loss * (n - 1) + Up(-d) * Power(n, r.exp)
        /\ u.last = Ready(ComputeRsi(u.gain, u.loss))
    <3>1. SmoothedBy(u, s, d, n)
      BY <1>11, <2>3, SmoothGoesOn
    <3> QED
      BY <1>6, <2>2, <3>1 DEF Smoothed, SmoothedBy
  <2>5. /\ WilderAverage(Gains(t), m + 1, n)
           = WilderAverage(Gains(h), m, n) * (n - 1) + Gains(t)[m + 1] * Power(n, (m + 1) - n)
        /\ WilderAverage(Losses(t), m + 1, n)
           = WilderAverage(Losses(h), m, n) * (n - 1) + Losses(t)[m + 1] * Power(n, (m + 1) - n)
    <3> DEFINE g == Gains(h)
               l == Losses(h)
               G == Gains(t)
               K == Losses(t)
    <3>1. /\ Nats(g, m) /\ Nats(G, m + 1) /\ \A j \in 1..m : G[j] = g[j]
          /\ Nats(l, m) /\ Nats(K, m + 1) /\ \A j \in 1..m : K[j] = l[j]
          /\ m \in Nat
      BY <1>1, <1>3
    <3> HIDE DEF g, l, G, K
    <3>2. WilderAverage(G, m + 1, n)
          = WilderAverage(g, m, n) * (n - 1) + G[m + 1] * Power(n, (m + 1) - n)
      BY <1>9, <3>1, WilderStep
    <3>3. WilderAverage(K, m + 1, n)
          = WilderAverage(l, m, n) * (n - 1) + K[m + 1] * Power(n, (m + 1) - n)
      BY <1>9, <3>1, WilderStep
    <3> QED
      BY <3>2, <3>3 DEF g, l, G, K
  <2>6. /\ u.gain = WilderAverage(Gains(t), m + 1, n)
        /\ u.loss = WilderAverage(Losses(t), m + 1, n)
    BY <1>3, <2>2, <2>4, <2>5
  <2>7. u.exp = ((m + 1) + 1) - n /\ ~(m + 1 < n)
    BY <1>1, <1>9, <2>2, <2>4
  <2>8. SmoothOK(u, t, n)
    BY <1>1, <2>4, <2>6, <2>7 DEF SmoothOK
  <2>9. RsiOK(u, t, n)
    BY <1>1, <1>4, <2>4, <2>7, <2>8 DEF RsiOK, RsiFields
  <2> QED
    BY <2>9 DEF u, t
<1> QED
  BY <1>1, <1>7, <1>8, <1>9

\* A close, whatever came before.
LEMMA RsiUpdates ==
    ASSUME NEW n \in Nat, NEW r, NEW h \in Seq(Nat), RsiOK(r, h, n), NEW c \in Nat
    PROVE  RsiOK(RsiUpdate(r, c), Append(h, c), n)
<1>1. CASE n = 0
  <2>1. r.length = n
    BY DEF RsiOK
  <2>2. RsiUpdate(r, c) = r
    BY <1>1, <2>1 DEF RsiUpdate
  <2>3. RsiOK(r, Append(h, c), n)
    BY <1>1 DEF RsiOK
  <2> QED
    BY <2>2, <2>3
<1> QED
  BY <1>1, RsiFirst, RsiGoesOn

----------------------------------------------------------------------------
(* The invariant *)

LEMMA ClosesType ==
    ASSUME NEW h \in Seq(Prices)
    PROVE  h \in Seq(Nat) /\ h \in Seq(Int)
<1>1. \A p \in Prices : p \in Nat /\ p \in Int
  BY IndicatorAssumption
<1>2. Len(h) \in Nat /\ h \in [1..Len(h) -> Prices]
  OBVIOUS
<1>3. \A i \in 1..Len(h) : h[i] \in Nat /\ h[i] \in Int
  <2> TAKE i \in 1..Len(h)
  <2>1. h[i] \in Prices
    BY <1>2
  <2> QED
    BY <1>1, <2>1
<1>4. h \in [1..Len(h) -> Nat] /\ h \in [1..Len(h) -> Int]
  BY <1>2, <1>3
<1> QED
  BY <1>2, <1>4

\* Lengths are naturals, and that of the volatility is at least 2.
LEMMA ParamsType ==
    ASSUME NEW p \in Params
    PROVE  /\ p.rsi \in Nat /\ p.trend \in Nat /\ p.vol \in Nat /\ p.sma \in Nat
           /\ VolLength(p.vol) \in Nat /\ VolLength(p.vol) >= 2
<1>1. p \in [rsi : Nat, trend : Nat, vol : Nat, sma : Nat]
  BY IndicatorAssumption
<1> QED
  BY <1>1 DEF VolLength

\* The initial states.
LEMMA IndicatorStarts ==
    ASSUME IndicatorInit
    PROVE  HInv
<1>1. params \in Params /\ hist = <<>> /\ taken = 0 /\ snapshot = NoSnapshot
  BY DEF IndicatorInit
<1>2. <<>> \in Seq(Prices) /\ <<>> \in Seq(Nat) /\ Len(<<>>) <= 1
  OBVIOUS
<1>3. ReturnsOK(<<>>) /\ Returns(<<>>) = <<>>
  BY <1>2, ReturnsEmpty
<1>4. SmaOK(sma, <<>>, params.sma)
  BY <1>1, ParamsType, SmaBegins DEF IndicatorInit
<1>5. CloseOK(closeN, <<>>, params.trend)
  BY <1>1, ParamsType, CloseBegins DEF IndicatorInit
<1>6. VolOK(vol, <<>>, <<>>, VolLength(params.vol))
  BY <1>1, ParamsType, VolBegins DEF IndicatorInit
<1>7. RsiOK(rsi, <<>>, params.rsi)
  BY <1>1, ParamsType, RsiBegins DEF IndicatorInit
<1>8. SnapshotOK(snapshot, <<>>, rsi, closeN, vol)
  BY <1>1 DEF SnapshotOK
<1>9. taken \in Nat
  BY <1>1
<1> QED
  BY <1>1, <1>2, <1>3, <1>4, <1>5, <1>6, <1>7, <1>8, <1>9 DEF HInv

\* RsiMeanReversionStrategy::reset.
LEMMA ResetKeeps ==
    ASSUME HInv, Reset
    PROVE  HInv'
<1>1. /\ params' = params /\ taken' = taken /\ hist' = <<>> /\ snapshot' = NoSnapshot
      /\ sma' = SmaClear(sma) /\ rsi' = RsiClear(rsi)
      /\ closeN' = CloseClear(closeN) /\ vol' = VolClear(vol)
  BY DEF Reset
<1>2. <<>> \in Seq(Prices) /\ <<>> \in Seq(Nat) /\ Len(<<>>) <= 1
  OBVIOUS
<1>3. ReturnsOK(<<>>) /\ Returns(<<>>) = <<>>
  BY <1>2, ReturnsEmpty
<1>4. params \in Params /\ hist \in Seq(Int) /\ Returns(hist) \in Seq(Int) /\ taken \in Nat
  BY ClosesType DEF HInv, ReturnsOK
<1>5. SmaOK(sma', <<>>, params.sma)
  BY <1>1, <1>4, ParamsType, SmaClears DEF HInv
<1>6. CloseOK(closeN', <<>>, params.trend)
  BY <1>1, <1>4, ParamsType, CloseClears DEF HInv
<1>7. VolOK(vol', <<>>, <<>>, VolLength(params.vol))
  BY <1>1, <1>4, ParamsType, VolClears DEF HInv
<1>8. RsiOK(rsi', <<>>, params.rsi)
  BY <1>1, <1>4, ParamsType, RsiClears DEF HInv
<1>9. SnapshotOK(snapshot', <<>>, rsi', closeN', vol')
  BY <1>1 DEF SnapshotOK
<1> QED
  BY <1>1, <1>2, <1>3, <1>4, <1>5, <1>6, <1>7, <1>8, <1>9 DEF HInv

\* RsiMeanReversionStrategy::buildSnapshot.
LEMMA BuildSnapshotKeeps ==
    ASSUME HInv, NEW close \in Prices, BuildSnapshot(close)
    PROVE  HInv'
<1> DEFINE t == Append(hist, close)
           L == Len(hist)
<1>1. /\ params' = params /\ taken' = taken + 1 /\ hist' = t
      /\ sma' = SmaUpdate(sma, close) /\ rsi' = RsiUpdate(rsi, close)
      /\ closeN' = CloseUpdate(closeN, close) /\ vol' = VolUpdate(vol, close)
      /\ snapshot' = Snapshot(close, rsi', closeN', vol', VolSkips(vol))
  BY DEF BuildSnapshot
<1>2. /\ params \in Params /\ hist \in Seq(Prices) /\ hist \in Seq(Int) /\ hist \in Seq(Nat)
      /\ taken \in Nat /\ close \in Nat /\ close \in Int /\ ReturnsOK(hist)
  BY ClosesType, IndicatorAssumption DEF HInv
<1>3. /\ params.rsi \in Nat /\ params.trend \in Nat /\ params.sma \in Nat
      /\ VolLength(params.vol) \in Nat /\ VolLength(params.vol) > 0
  BY <1>2, ParamsType
<1>4. t \in Seq(Prices) /\ taken' \in Nat
  BY <1>1, <1>2
<1>5. /\ t # <<>> /\ t[Len(t)] = close /\ Len(t) = L + 1 /\ L \in Nat
      /\ L > 0 => t[Len(t) - 1] = hist[L]
      /\ hist = <<>> <=> L = 0
  <2>1. /\ t # <<>> /\ t[Len(t)] = close /\ Len(t) = L + 1 /\ L \in Nat
        /\ hist = <<>> <=> L = 0
    BY <1>2
  <2>2. ASSUME L > 0 PROVE t[Len(t) - 1] = hist[L]
    <3>1. L \in 1..L /\ Len(t) - 1 = L
      BY <2>1, <2>2
    <3> QED
      BY <1>2, <3>1
  <2> QED
    BY <2>1, <2>2
<1>6. SmaOK(sma', t, params.sma)
  BY <1>1, <1>2, <1>3, SmaUpdates DEF HInv
<1>7. CloseOK(closeN', t, params.trend)
  BY <1>1, <1>2, <1>3, CloseUpdates DEF HInv
<1>8. /\ VolOK(vol', t, Returns(t), VolLength(params.vol)) /\ ReturnsOK(t)
      /\ VolSkips(vol) <=> hist = <<>> \/ hist[L] = 0
  BY <1>1, <1>2, <1>3, VolUpdates DEF HInv
<1>9. RsiOK(rsi', t, params.rsi)
  BY <1>1, <1>2, <1>3, RsiUpdates DEF HInv
<1>10. SnapshotOK(snapshot', t, rsi', closeN', vol')
  <2> DEFINE skips == Len(t) = 1 \/ t[Len(t) - 1] = 0
  <2>1. VolSkips(vol) <=> skips
    BY <1>5, <1>8
  <2>2. VolSkips(vol) \in BOOLEAN /\ skips \in BOOLEAN
    BY DEF VolSkips
  <2> HIDE DEF skips, t
  <2>3. VolSkips(vol) = skips
    BY <2>1, <2>2
  <2>4. snapshot' = Snapshot(t[Len(t)], rsi', closeN', vol', skips)
    BY <1>1, <1>5, <2>3
  <2> QED
    BY <1>5, <2>4 DEF SnapshotOK, skips
<1> HIDE DEF t
<1> QED
  BY <1>1, <1>2, <1>4, <1>6, <1>7, <1>8, <1>9, <1>10 DEF HInv

\* Every indicator is the function of the closes since the last reset that HInv
\* says it is: each ring holds the last values it was given, the running sums
\* are theirs, the averages of the RSI are the weighted sums of all changes, and
\* the snapshot is made of them (RingBuffer.h:216-270, Sma.cpp:18-43,
\* ClosePriceWindow.cpp:19-38, ChangeVolatilityIndicator.cpp:26-100,
\* RsiWilder.cpp:27-112, RsiMeanReversionStrategy.cpp:203-240).
THEOREM IndicatorInvariant == IndicatorSpec => []HInv
<1>1. IndicatorInit => HInv
  BY IndicatorStarts
<1>2. HInv /\ [IndicatorNext]_indicatorVars => HInv'
  <2> SUFFICES ASSUME HInv, [IndicatorNext]_indicatorVars PROVE HInv'
    OBVIOUS
  <2>1. CASE Reset
    BY <2>1, ResetKeeps
  <2>2. ASSUME NEW close \in Prices, BuildSnapshot(close) PROVE HInv'
    BY <2>2, BuildSnapshotKeeps
  <2>3. CASE UNCHANGED indicatorVars
    BY <2>3 DEF indicatorVars, HInv
  <2> QED
    BY <2>1, <2>2, <2>3 DEF IndicatorNext
<1> QED
  BY <1>1, <1>2, PTL DEF IndicatorSpec

----------------------------------------------------------------------------
(* What it says of the windows *)

LEMMA RingSums ==
    ASSUME NEW n \in Nat, NEW b, NEW s \in Seq(Int), RingOK(b, n, s)
    PROVE  /\ \A a : SumOK(a, s, n) => a = SumOf(b)
           /\ \A a : SquaresOK(a, s, n) => a = SumOfSquares(b)
<1>1. b.size = SizeOf(s, n)
  BY RingFields DEF SizeOf
<1>2. FromOldest(b) = LastN(s, n)
  BY RingReads
<1> DEFINE k == SizeOf(s, n)
           f == LastN(s, n)
<1>3. SumOf(b) = SumTo(k, f)
  BY <1>1, <1>2 DEF SumOf
<1>4. SumOfSquares(b) = SumTo(k, Squares(f, k))
  BY <1>1, <1>2 DEF SumOfSquares, Squares
<1> QED
  BY <1>3, <1>4 DEF SumOK, SquaresOK

\* The windows are exact in every state of the invariant.
LEMMA WindowsFollow ==
    ASSUME HInv
    PROVE  WindowsExact
<1> DEFINE N == VolLength(params.vol)
           T == params.trend + 1
           x == Returns(hist)
<1>1. params \in Params /\ hist \in Seq(Int) /\ x \in Seq(Int)
  BY ClosesType DEF HInv, ReturnsOK
<1>2. N \in Nat /\ T \in Nat /\ params.sma \in Nat
  BY <1>1, ParamsType
<1>3. RingOK(closeN.window, T, hist)
  BY DEF HInv, CloseOK
<1>4. RingOK(sma.window, params.sma, hist) /\ SumOK(sma.sum, hist, params.sma)
  BY DEF HInv, SmaOK
<1>5. /\ RingOK(vol.window, N, x) /\ vol.length = N
      /\ SumOK(vol.sum, x, N) /\ SquaresOK(vol.sumsq, x, N)
  BY DEF HInv, VolOK
<1> HIDE DEF N, T, x
<1>6. FromOldest(closeN.window) = LastN(hist, T) /\ FromNewest(closeN.window) = LastN(hist, T)
  BY <1>1, <1>2, <1>3, RingReads
<1>7. /\ FromOldest(sma.window) = LastN(hist, params.sma)
      /\ FromNewest(sma.window) = LastN(hist, params.sma)
  BY <1>1, <1>2, <1>4, RingReads
<1>8. FromOldest(vol.window) = LastN(x, N) /\ FromNewest(vol.window) = LastN(x, N)
  BY <1>1, <1>2, <1>5, RingReads
<1>9. sma.sum = SumOf(sma.window)
  BY <1>1, <1>2, <1>4, RingSums
<1>10. vol.sum = SumOf(vol.window) /\ vol.sumsq = SumOfSquares(vol.window)
  BY <1>1, <1>2, <1>5, RingSums
<1>11. ASSUME NEW w \in {<<closeN.window, hist, T>>, <<vol.window, x, N>>,
                        <<sma.window, hist, params.sma>>}
       PROVE  FromOldest(w[1]) = LastN(w[2], w[3]) /\ FromNewest(w[1]) = LastN(w[2], w[3])
  <2>1. CASE w = <<closeN.window, hist, T>>
    BY <1>6, <2>1
  <2>2. CASE w = <<vol.window, x, N>>
    BY <1>8, <2>2
  <2>3. CASE w = <<sma.window, hist, params.sma>>
    BY <1>7, <2>3
  <2> QED
    BY <2>1, <2>2, <2>3
<1> QED
  BY <1>5, <1>9, <1>10, <1>11 DEF WindowsExact, T, x

\* WindowsExact always: however the rings wrap and whatever a reset leaves in
\* them, they hold the last values given to them and the running sums are those
\* of their entries (RingBuffer.h:216-270, Sma.cpp:18-43,
\* ChangeVolatilityIndicator.cpp:26-74).
THEOREM WindowsAreExact == IndicatorSpec => []WindowsExact
BY IndicatorInvariant, WindowsFollow, PTL

----------------------------------------------------------------------------
(* What it says of the RSI *)

LEMMA RsiShape ==
    ASSUME NEW n \in Nat, NEW h \in Seq(Nat), NEW r, RsiOK(r, h, n)
    PROVE  /\ r.last.ready <=> n > 0 /\ Len(h) - 1 >= n
           /\ r.last.ready \in BOOLEAN
           /\ r.last.ready =>
                  LET m == Len(h) - 1
                      g == WilderAverage(Gains(h), m, n)
                      l == WilderAverage(Losses(h), m, n)
                  IN  r.last.v = ComputeRsi(g, l) /\ g \in Nat /\ l \in Nat
<1>1. Len(h) \in Nat /\ (h = <<>> => Len(h) = 0)
  OBVIOUS
<1>2. r.gain \in Nat /\ r.loss \in Nat
  BY DEF RsiOK
<1>3. NoRsi.ready = FALSE
  BY DEF NoRsi
<1>4. CASE ~(n > 0 /\ Len(h) - 1 >= n)
  <2>1. r.last = NoRsi
    <3>1. CASE n = 0
      BY <3>1 DEF RsiOK
    <3>2. CASE n > 0 /\ h = <<>>
      BY <3>2 DEF RsiOK
    <3>3. CASE n > 0 /\ h # <<>>
      <4>1. Len(h) - 1 < n
        BY <1>1, <1>4, <3>3
      <4>2. SeedOK(r, h, n)
        BY <3>3, <4>1 DEF RsiOK
      <4> QED
        BY <4>2 DEF SeedOK
    <3> QED
      BY <3>1, <3>2, <3>3
  <2> QED
    BY <1>3, <1>4, <2>1
<1>5. CASE n > 0 /\ Len(h) - 1 >= n
  <2> DEFINE m == Len(h) - 1
             g == WilderAverage(Gains(h), m, n)
             l == WilderAverage(Losses(h), m, n)
  <2>1. h # <<>> /\ ~(Len(h) - 1 < n)
    BY <1>1, <1>5
  <2>2. SmoothOK(r, h, n)
    BY <1>5, <2>1 DEF RsiOK
  <2>3. r.gain = g /\ r.loss = l /\ r.last = Ready(ComputeRsi(r.gain, r.loss))
    BY <2>2 DEF SmoothOK
  <2> HIDE DEF g, l
  <2> DEFINE q == ComputeRsi(g, l)
  <2>4. r.last = Ready(q) /\ g \in Nat /\ l \in Nat
    BY <1>2, <2>3
  <2> HIDE DEF q
  <2>5. r.last.ready = TRUE /\ r.last.v = q
    BY <2>4 DEF Ready
  <2> QED
    BY <1>5, <2>4, <2>5 DEF q, g, l
<1> QED
  BY <1>4, <1>5

\* The fraction is 100 * gain / (gain + loss).
LEMMA RsiFraction ==
    ASSUME NEW g \in Nat, NEW l \in Nat, NEW q, q = ComputeRsi(g, l)
    PROVE  IF g + l = 0 THEN q = <<50, 1>> ELSE q[1] * (g + l) = 100 * g * q[2]
<1>1. CASE g = 0 /\ l = 0
  BY <1>1 DEF ComputeRsi
<1>2. CASE g # 0 /\ l = 0
  <2>1. q[1] = 100 /\ q[2] = 1 /\ g + l = g /\ g + l # 0
    BY <1>2 DEF ComputeRsi
  <2> QED
    BY <2>1
<1>3. CASE g = 0 /\ l # 0
  <2>1. q[1] = 0 /\ q[2] = 1 /\ g + l # 0
    BY <1>3 DEF ComputeRsi
  <2> QED
    BY <1>3, <2>1
<1>4. CASE g # 0 /\ l # 0
  <2>1. q[1] = 100 * g /\ q[2] = g + l /\ g + l # 0
    BY <1>4 DEF ComputeRsi
  <2> QED
    BY <2>1
<1> QED
  BY <1>1, <1>2, <1>3, <1>4

\* The RSI is exact in every state of the invariant.
LEMMA RsiFollows ==
    ASSUME HInv
    PROVE  RsiExact
<1> DEFINE n == params.rsi
           m == Len(hist) - 1
           g == WilderAverage(Gains(hist), m, n)
           l == WilderAverage(Losses(hist), m, n)
           q == rsi.last.v
<1>1. n \in Nat /\ hist \in Seq(Nat) /\ RsiOK(rsi, hist, n)
  BY ParamsType, ClosesType DEF HInv
<1> HIDE DEF n
<1>2. /\ rsi.last.ready <=> n > 0 /\ m >= n
      /\ rsi.last.ready => q = ComputeRsi(g, l) /\ g \in Nat /\ l \in Nat
  BY <1>1, RsiShape
<1> HIDE DEF m, g, l, q
<1>3. rsi.last.ready => IF g + l = 0 THEN q = <<50, 1>> ELSE q[1] * (g + l) = 100 * g * q[2]
  BY <1>2, RsiFraction
<1> QED
  BY <1>2, <1>3 DEF RsiExact, m, g, l, q, n

\* RsiExact always: the RSI kept up change by change is Wilder's, computed from
\* all closes since the reset at once (RsiWilder.cpp:27-112).
THEOREM RsiIsExact == IndicatorSpec => []RsiExact
BY IndicatorInvariant, RsiFollows, PTL

----------------------------------------------------------------------------
(* What it says of the signals *)

\* A sum of numbers that are not negative.
LEMMA SumNat ==
    ASSUME NEW n \in Nat, NEW f, Nats(f, n)
    PROVE  SumTo(n, f) \in Nat
<1> DEFINE A == {k \in Nat : k <= n => SumTo(k, f) \in Nat}
<1>1. 0 \in A
  BY SumZero
<1>2. ASSUME NEW k \in Nat, k \in A PROVE k + 1 \in A
  <2> SUFFICES ASSUME k + 1 <= n PROVE SumTo(k + 1, f) \in Nat
    OBVIOUS
  <2>1. SumTo(k, f) \in Nat /\ k + 1 \in 1..n
    BY <1>2
  <2>2. Ints(f, k + 1) /\ f[k + 1] \in Nat
    BY <2>1 DEF Nats, Ints
  <2>3. SumTo(k + 1, f) = SumTo(k, f) + f[k + 1]
    BY <2>2, SumLast
  <2> QED
    BY <2>1, <2>2, <2>3
<1> HIDE DEF A
<1>3. \A k \in Nat : k \in A
  BY <1>1, <1>2, Induction
<1> QED
  BY <1>3 DEF A

\* Squares are not negative.
LEMMA SquareNat ==
    ASSUME NEW x \in Int
    PROVE  x * x \in Nat
OBVIOUS

\* Nor is the spread.
LEMMA SpreadNat ==
    ASSUME NEW n \in Nat, NEW w, Ints(w, n)
    PROVE  Spread(w, n) \in Nat
<1> DEFINE row(i) == [j \in 1..n |-> (w[i] - w[j]) * (w[i] - w[j])]
           f == [i \in 1..n |-> SumTo(n, row(i))]
<1>1. ASSUME NEW i \in 1..n PROVE SumTo(n, row(i)) \in Nat
  <2>1. ASSUME NEW j \in 1..n PROVE row(i)[j] \in Nat
    <3>1. w[i] - w[j] \in Int
      BY DEF Ints
    <3> QED
      BY <3>1, SquareNat
  <2>2. Nats(row(i), n)
    BY <2>1 DEF Nats
  <2> HIDE DEF row
  <2> QED
    BY <2>2, SumNat
<1>2. Nats(f, n)
  BY <1>1 DEF Nats
<1>3. Spread(w, n) = SumTo(n, f)
  BY DEF Spread
<1> HIDE DEF f
<1> QED
  BY <1>2, <1>3, SumNat

\* The volatility that buildSnapshot compares, and the spread of the returns.
LEMMA VolatilityIs ==
    ASSUME NEW n \in Nat, n >= 2, NEW h, NEW x \in Seq(Int), NEW v, VolOK(v, h, x, n)
    PROVE  /\ VolValue(v).ready <=> Len(x) >= n
           /\ VolValue(v).ready \in BOOLEAN
           /\ Len(x) >= n => /\ VolValue(v).v = Variance(v) /\ Variance(v) \in Int
                             /\ n = 2 => Variance(v) = 0
                             /\ n # 2 => Spread(LastN(x, n), n) = 2 * Variance(v)
<1> DEFINE w == LastN(x, n)
           z == Variance(v)
<1>1. /\ v.length = n /\ RingOK(v.window, n, x) /\ v.sum \in Int /\ v.sumsq \in Int
      /\ SumOK(v.sum, x, n) /\ SquaresOK(v.sumsq, x, n) /\ Len(x) \in Nat
  BY DEF VolOK
<1>2. Full(v.window) <=> Len(x) >= n
  BY <1>1, RingOverwrites
<1>3. CASE ~(Len(x) >= n)
  <2>1. VolValue(v) = NotReady
    BY <1>2, <1>3 DEF VolValue
  <2> QED
    BY <1>3, <2>1 DEF NotReady
<1>4. CASE Len(x) >= n
  <2>1. VolValue(v) = Ready(z)
    BY <1>2, <1>4 DEF VolValue
  <2> HIDE DEF z
  <2>2. VolValue(v).ready = TRUE /\ VolValue(v).v = z
    BY <2>1 DEF Ready
  <2>3. SizeOf(x, n) = n
    BY <1>1, <1>4 DEF SizeOf
  <2>4. v.sum = SumTo(n, w) /\ v.sumsq = SumTo(n, Squares(w, n))
    BY <1>1, <2>3 DEF SumOK, SquaresOK
  <2>5. Ints(w, n)
    <3>1. w = [i \in 1..n |-> x[Len(x) - n + i]]
      BY <1>1, <1>4 DEF LastN
    <3>2. ASSUME NEW i \in 1..n PROVE x[Len(x) - n + i] \in Int
      <4>1. Len(x) - n + i \in 1..Len(x)
        BY <1>1, <1>4
      <4> QED
        BY <4>1
    <3> QED
      BY <3>1, <3>2 DEF Ints
  <2> HIDE DEF w
  <2> DEFINE S == v.sum
             Q == v.sumsq
             p == n * Q - S * S
  <2>6. Spread(w, n) = 2 * p /\ Spread(w, n) \in Nat
    BY <2>4, <2>5, SpreadIsVariance, SpreadNat
  <2>7. p \in Int
    BY <1>1
  <2>8. z = IF n <= 2 \/ p < 0 THEN 0 ELSE p
    BY <1>1 DEF Variance, z
  <2> HIDE DEF p
  <2>9. p >= 0
    BY <2>6, <2>7
  <2>10. z \in Int /\ (n = 2 => z = 0) /\ (n # 2 => z = p)
    BY <2>7, <2>8, <2>9
  <2> QED
    BY <1>4, <2>2, <2>6, <2>10 DEF w, z
<1> QED
  BY <1>3, <1>4

\* The comparison with the minimum, in both forms.
LEMMA EnoughSpread ==
    ASSUME NEW n \in Nat, n >= 2, NEW a \in Nat, NEW z \in Int, NEW s, n = 2 => z = 0,
           n # 2 => s = 2 * z
    PROVE  z >= (n * a) * (n * a) <=> IF n = 2 THEN a = 0 ELSE s >= 2 * (n * a) * (n * a)
<1> DEFINE b == n * a
           p == b * b
<1>1. b \in Nat /\ (b = 0 <=> a = 0)
  OBVIOUS
<1>2. p \in Nat /\ (p = 0 <=> b = 0) /\ 2 * b * b = 2 * p
  <2> HIDE DEF b
  <2> QED
    BY <1>1
<1> HIDE DEF b, p
<1>3. CASE n = 2
  <2>1. z >= p <=> a = 0
    BY <1>1, <1>2, <1>3
  <2> QED
    BY <1>3, <2>1 DEF b, p
<1>4. CASE n # 2
  <2>1. z >= p <=> s >= 2 * b * b
    BY <1>2, <1>4
  <2> QED
    BY <1>4, <2>1 DEF b, p
<1> QED
  BY <1>3, <1>4

\* When the market is fit, in terms of the indicators.
FitBy(s, close, r, c, v, skipped) ==
    LET past == CloseN(c).v
        min == v.length * MinVolatility
    IN  /\ s.rsi = r.last
        /\ s.marketOk <=> /\ CloseN(c).ready /\ past # 0
                          /\ Abs(close - past) * Scale <= MaxTrendStrength * past
                          /\ ~skipped /\ VolValue(v).ready /\ VolValue(v).v >= min * min
                          /\ r.last.ready

\* A snapshot is fit as FitBy says.
LEMMA MarketOkIs ==
    ASSUME NEW close, NEW r, NEW c, NEW v, NEW skipped \in BOOLEAN,
           r.last.ready \in BOOLEAN, CloseN(c).ready \in BOOLEAN, VolValue(v).ready \in BOOLEAN,
           NEW s, s = Snapshot(close, r, c, v, skipped)
    PROVE  FitBy(s, close, r, c, v, skipped)
<1> DEFINE n == CloseN(c)
           w == VolValue(v)
           min == v.length * MinVolatility
           volatility == IF skipped THEN NotReady ELSE w
           trendReady == n.ready /\ n.v # 0
           trendOk == trendReady /\ Abs(close - n.v) * Scale <= MaxTrendStrength * n.v
           volOk == volatility.ready /\ volatility.v >= min * min
<1>1. s = [close |-> close, rsi |-> r.last, closeN |-> n, volatility |-> volatility,
           trendReady |-> trendReady, marketOk |-> trendOk /\ volOk /\ r.last.ready]
  BY DEF Snapshot
<1>2. volOk <=> ~skipped /\ w.ready /\ w.v >= min * min
  <2>1. CASE skipped
    BY <2>1 DEF NotReady
  <2>2. CASE ~skipped
    BY <2>2
  <2> QED
    BY <2>1, <2>2
<1> HIDE DEF n, w, min, volatility
<1> DEFINE fit == trendOk /\ volOk /\ r.last.ready
<1>3. s.rsi = r.last /\ s.marketOk = fit
  <2> HIDE DEF trendOk, volOk, trendReady, fit
  <2>1. s = [close |-> close, rsi |-> r.last, closeN |-> n, volatility |-> volatility,
             trendReady |-> trendReady, marketOk |-> fit]
    BY <1>1 DEF fit
  <2> QED
    BY <2>1
<1> QED
  BY <1>2, <1>3 DEF FitBy, n, w, min

\* Signals are grounded in every state of the invariant.
LEMMA SignalFollows ==
    ASSUME HInv
    PROVE  SignalGrounded
<1> DEFINE len == Len(hist)
           T == params.trend
           R == params.rsi
           past == hist[len - T]
           x == Returns(hist)
           n == vol.length
           spread == Spread(LastN(x, n), n)
           near == Abs(hist[len] - past) * Scale <= MaxTrendStrength * past
           enough == IF n = 2 THEN MinVolatility = 0
                     ELSE spread >= 2 * (n * MinVolatility) * (n * MinVolatility)
<1>1. params \in Params /\ hist \in Seq(Nat) /\ hist \in Seq(Int) /\ x \in Seq(Int)
  BY ClosesType DEF HInv, ReturnsOK
<1>2. /\ T \in Nat /\ R \in Nat /\ n \in Nat /\ n >= 2 /\ VolOK(vol, hist, x, n)
      /\ MinVolatility \in Nat /\ len \in Nat
  <2>1. vol.length = VolLength(params.vol)
    BY DEF HInv, VolOK
  <2> QED
    BY <1>1, <2>1, ParamsType, IndicatorAssumption DEF HInv
<1>3. /\ rsi.last.ready <=> R > 0 /\ len > R
      /\ rsi.last.ready \in BOOLEAN
  <2>1. RsiOK(rsi, hist, R)
    BY DEF HInv
  <2>2. /\ rsi.last.ready <=> R > 0 /\ len - 1 >= R
        /\ rsi.last.ready \in BOOLEAN
    BY <1>1, <1>2, <2>1, RsiShape
  <2>3. len - 1 >= R <=> len > R
    BY <1>2
  <2> QED
    BY <2>2, <2>3
<1>4. CASE hist = <<>>
  <2>1. snapshot = NoSnapshot
    BY <1>4 DEF HInv, SnapshotOK
  <2>2. snapshot.marketOk = FALSE /\ snapshot.rsi.ready = FALSE
    BY <2>1 DEF NoSnapshot, NoRsi
  <2>3. Signal(snapshot) = "none"
    BY <2>2 DEF Signal
  <2>4. ~(R > 0 /\ len > R)
    BY <1>2, <1>4
  <2> QED
    BY <2>2, <2>3, <2>4 DEF SignalGrounded
<1>5. CASE hist # <<>>
  <2> DEFINE close == hist[len]
             skipped == len = 1 \/ hist[len - 1] = 0
             c == CloseN(closeN)
             w == VolValue(vol)
  <2>1. snapshot = Snapshot(close, rsi, closeN, vol, skipped)
    BY <1>5 DEF HInv, SnapshotOK
  <2>2. close \in Int /\ skipped \in BOOLEAN /\ len > 0
    BY <1>1, <1>5
  <2>3. /\ c.ready <=> len > T
        /\ c.ready \in BOOLEAN
        /\ len > T => c.v = past
    <3>1. CloseOK(closeN, hist, T)
      BY DEF HInv
    <3>2. c = IF len > T THEN Ready(past) ELSE NotReady
      BY <1>1, <1>2, <3>1, CloseIs
    <3> HIDE DEF past, c
    <3> QED
      BY <3>2 DEF Ready, NotReady
  <2>4. /\ w.ready <=> Len(x) >= n
        /\ w.ready \in BOOLEAN
        /\ Len(x) >= n => (w.v >= (n * MinVolatility) * (n * MinVolatility) <=> enough)
    <3> DEFINE z == Variance(vol)
    <3>1. /\ w.ready <=> Len(x) >= n
          /\ w.ready \in BOOLEAN
          /\ Len(x) >= n => w.v = z /\ z \in Int /\ (n = 2 => z = 0) /\ (n # 2 => spread = 2 * z)
      BY <1>1, <1>2, VolatilityIs
    <3> HIDE DEF w, z, n, spread, x
    <3>2. ASSUME Len(x) >= n
          PROVE  z >= (n * MinVolatility) * (n * MinVolatility) <=> enough
      BY <1>2, <3>1, <3>2, EnoughSpread
    <3> QED
      BY <3>1, <3>2
  <2>5. /\ snapshot.rsi = rsi.last
        /\ snapshot.marketOk <=>
               /\ c.ready /\ c.v # 0
               /\ Abs(close - c.v) * Scale <= MaxTrendStrength * c.v
               /\ ~skipped /\ w.ready /\ w.v >= (n * MinVolatility) * (n * MinVolatility)
               /\ rsi.last.ready
    <3>1. FitBy(snapshot, close, rsi, closeN, vol, skipped)
      <4> HIDE DEF close, skipped
      <4> QED
        BY <1>3, <2>1, <2>2, <2>3, <2>4, MarketOkIs
    <3> HIDE DEF close, skipped
    <3> QED
      BY <3>1 DEF FitBy
  <2>6. Len(x) >= n => (~skipped <=> hist[len - 1] # 0)
    <3>1. len <= 1 => x = <<>>
      BY <1>1, ReturnsEmpty
    <3>2. x = <<>> => Len(x) = 0
      OBVIOUS
    <3> HIDE DEF x, n, len
    <3>3. ASSUME len = 1 PROVE ~(Len(x) >= n)
      <4>1. len <= 1
        BY <3>3
      <4>2. Len(x) = 0
        BY <3>1, <3>2, <4>1
      <4> QED
        BY <1>2, <4>2
    <3> QED
      BY <3>3
  <2> HIDE DEF c, w, past, x, n, skipped, enough, close
  <2>7. snapshot.marketOk <=> /\ R > 0 /\ len > R
                              /\ len > T /\ past # 0
                              /\ Abs(close - past) * Scale <= MaxTrendStrength * past
                              /\ Len(x) >= n /\ hist[len - 1] # 0
                              /\ enough
    BY <1>3, <2>3, <2>4, <2>5, <2>6
  <2>8. Signal(snapshot) # "none" => R > 0 /\ len > R
    <3>1. Signal(snapshot) # "none" => snapshot.marketOk \/ snapshot.rsi.ready
      BY DEF Signal
    <3> QED
      BY <1>3, <2>5, <2>7, <3>1
  <2> QED
    BY <2>7, <2>8 DEF SignalGrounded, past, x, n, enough, close
<1> QED
  BY <1>4, <1>5

\* SignalGrounded always: the market is fit exactly when the closes since the
\* reset say so, and no signal comes before the RSI is known
\* (RsiMeanReversionStrategy.cpp:203-240, 251-256, 300,
\* ChangeVolatilityIndicator.cpp:87-100).
THEOREM SignalsAreGrounded == IndicatorSpec => []SignalGrounded
BY IndicatorInvariant, SignalFollows, PTL

=============================================================================
