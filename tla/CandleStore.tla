---------------------------- MODULE CandleStore ----------------------------
(***************************************************************************)
(* The way of one market's candles (handleMarketData_ in                   *)
(* src/app/MarketEngineManager.cpp) into the strategy and into the         *)
(* database (src/database/Database.cpp), through disconnects, crashes,     *)
(* restarts with another candle unit, and the migration of a database      *)
(* without the column unit.                                                *)
(*                                                                         *)
(* A candle message has the candle's values so far; one that is lost in a  *)
(* disconnect, in a full queue or with the process was never handled.  A   *)
(* candle is identified by its start and its unit.                         *)
(*                                                                         *)
(* External: SQLite.  A statement outside of a transaction commits; a      *)
(* crash, or a close after an error, undoes what is not committed.         *)
(***************************************************************************)
EXTENDS Naturals, Sequences

CONSTANTS
    Units,          \* candle units in use, one per process
    LegacyUnit,     \* the unit given to rows of the old table
    Closes,
    FirstTime,      \* the time at which the first process starts
    MaxTime,        \* bound: the time ends there
    MaxCrashes,     \* bound: number of crashes
    NoCandle

ASSUME StoreAssumption ==
    /\ Units \subseteq Nat \ {0} /\ LegacyUnit \in Units
    /\ {FirstTime, MaxTime, MaxCrashes} \subseteq Nat /\ FirstTime <= MaxTime
    /\ Closes # {} /\ NoCandle \notin [ts : Nat, close : Closes]

VARIABLES
    disk,       \* committed: the tables, each a function from keys to closes
    work,       \* what the connection of the process sees
    intx,       \* a transaction is open
    phase,      \* of the process: statements of open, then "running"
    unit,       \* candle unit of the process
    pending,    \* pending_candle
    fed,        \* candles the strategy took in this process, oldest first
    now,        \* external: the time
    truth,      \* external: the last close of each candle
    missed,     \* history: candles whose last update was not handled
    unsaved,    \* history: candles whose insert failed
    crashes     \* crashes so far (bounded by MaxCrashes)

db == <<disk, work, intx>>
market == <<now, truth, missed>>
vars == <<db, phase, unit, pending, fed, market, unsaved, crashes>>

Start(t, u) == t - (t % u)

Keys == {<<Start(t, u), u>> : t \in 0..MaxTime, u \in Units}

\* The rows of a table without the column unit have unit 0.
Old(ts) == <<ts, 0>>

\* External: function f with k mapped to v.
Put(f, k, v) == [x \in DOMAIN f \cup {k} |-> IF x = k THEN v ELSE f[x]]

----------------------------------------------------------------------------
(* open and initSchema, one step for each statement *)

\* A statement makes the connection see w, and the process goes on at p.
Statement(w, p) ==
    /\ work' = w
    /\ disk' = IF intx THEN disk ELSE w
    /\ phase' = p
    /\ UNCHANGED <<unit, pending, fed, market, unsaved, crashes>>

\* The process ends; what was not committed is gone.
Die ==
    /\ phase' = "down"
    /\ work' = disk /\ intx' = FALSE
    /\ pending' = NoCandle /\ fed' = <<>>
    /\ UNCHANGED <<disk, unit, market, unsaved>>

\* A new process, possibly with another unit configured.
Open ==
    /\ phase = "down"
    /\ phase' = "schema"
    /\ unit' \in Units
    /\ UNCHANGED <<db, pending, fed, market, unsaved, crashes>>

\* CREATE TABLE IF NOT EXISTS: a table of the present form if there is none.
Schema ==
    /\ phase = "schema"
    /\ Statement(IF "candles" \in DOMAIN work THEN work
                 ELSE Put(work, "candles", [unit |-> TRUE, rows |-> <<>>]), "has_unit")
    /\ UNCHANGED intx

HasUnit ==
    /\ phase = "has_unit"
    /\ phase' = IF work["candles"].unit THEN "running" ELSE "begin"
    /\ UNCHANGED <<db, unit, pending, fed, market, unsaved, crashes>>

\* mutant: the transaction is forgotten
BadBegin ==
    /\ phase = "begin"
    /\ Statement(work, "create")
    /\ UNCHANGED intx

Begin ==
    /\ phase = "begin"
    /\ Statement(work, "create")
    /\ intx' = TRUE

\* mutant: the new table is made before the transaction begins
BadCreate ==
    /\ phase = "create"
    /\ IF "candles_new" \in DOMAIN work THEN Die /\ UNCHANGED crashes
       ELSE /\ work' = Put(work, "candles_new", [unit |-> TRUE, rows |-> <<>>])
            /\ disk' = work'
            /\ phase' = "copy"
            /\ UNCHANGED <<intx, unit, pending, fed, market, unsaved, crashes>>

\* CREATE TABLE fails if the table exists; the exception ends the process.
Create ==
    /\ phase = "create"
    /\ IF "candles_new" \in DOMAIN work THEN Die /\ UNCHANGED crashes
       ELSE /\ Statement(Put(work, "candles_new", [unit |-> TRUE, rows |-> <<>>]), "copy")
            /\ UNCHANGED intx

\* INSERT INTO candles_new SELECT ..., 15.
Copy ==
    LET old == work["candles"].rows
        rows == [k \in {<<x[1], LegacyUnit>> : x \in DOMAIN old} |-> old[Old(k[1])]]
    IN  /\ phase = "copy"
        /\ Statement([work EXCEPT !["candles_new"].rows = rows], "drop")
        /\ UNCHANGED intx

Drop ==
    /\ phase = "drop"
    /\ Statement([t \in DOMAIN work \ {"candles"} |-> work[t]], "rename")
    /\ UNCHANGED intx

Rename ==
    /\ phase = "rename"
    /\ Statement([t \in {"candles"} |-> work["candles_new"]], "commit")
    /\ UNCHANGED intx

Commit ==
    /\ phase = "commit"
    /\ phase' = "running"
    /\ disk' = work /\ intx' = FALSE
    /\ UNCHANGED <<work, unit, pending, fed, market, unsaved, crashes>>

Crash ==
    /\ phase # "down"
    /\ crashes < MaxCrashes
    /\ crashes' = crashes + 1
    /\ Die

----------------------------------------------------------------------------
(* handleMarketData_ *)

\* mutant: the conflict is looked for without the unit
BadInsertCandle(t, k, close) ==
    IF \E x \in DOMAIN t["candles"].rows : x[1] = k[1] THEN t
    ELSE [t EXCEPT !["candles"].rows = Put(@, k, close)]

\* insertCandle: ON CONFLICT(market, ts, unit) DO NOTHING.
InsertCandle(t, k, close) ==
    IF k \in DOMAIN t["candles"].rows THEN t
    ELSE [t EXCEPT !["candles"].rows = Put(@, k, close)]

\* onCandle takes a timestamp once in a row.
OnCandle(c) ==
    IF fed # <<>> /\ fed[Len(fed)].ts = c.ts THEN fed ELSE Append(fed, c)

\* mutant: the close of the new candle is taken for the one that ended
BadConfirmed(incoming) == [pending EXCEPT !.close = incoming.close]

\* The candle that a message with a new timestamp confirms.
Confirmed(incoming) == pending

Update(incoming) ==
    /\ pending # NoCandle => pending.ts = incoming.ts
    /\ pending' = incoming
    /\ UNCHANGED <<db, fed, unsaved>>

Confirm(incoming, saved) ==
    LET c == Confirmed(incoming)
        k == <<c.ts, unit>>
    IN  /\ pending # NoCandle /\ pending.ts # incoming.ts
        /\ pending' = incoming
        /\ work' = IF saved THEN InsertCandle(work, k, c.close) ELSE work
        /\ disk' = work'
        /\ unsaved' = IF saved THEN unsaved ELSE unsaved \cup {k}
        /\ fed' = OnCandle(c)
        /\ UNCHANGED intx

----------------------------------------------------------------------------
(* The market (external), which sends an update for every trade *)

Current == {<<Start(now, u), u>> : u \in Units}

Trade(close) == truth' = [k \in Keys |-> IF k \in Current THEN close ELSE truth[k]]

\* The update is lost, or no process is there to take it.
Lost(close) ==
    /\ Trade(close)
    /\ missed' = missed \cup Current
    /\ UNCHANGED <<db, phase, unit, pending, fed, now, unsaved, crashes>>

Received(close) ==
    LET incoming == [ts |-> Start(now, unit), close |-> close]
    IN  /\ phase = "running"
        /\ Trade(close)
        /\ missed' = (missed \cup Current) \ {<<incoming.ts, unit>>}
        /\ Update(incoming) \/ \E saved \in BOOLEAN : Confirm(incoming, saved)
        /\ UNCHANGED <<phase, unit, now, crashes>>

Tick ==
    /\ now < MaxTime
    /\ now' = now + 1
    /\ UNCHANGED <<db, phase, unit, pending, fed, truth, missed, unsaved, crashes>>

----------------------------------------------------------------------------

\* A new database, or one of the old or of the present form, with candles that
\* ended before FirstTime.
Stored == {t \in 0..FirstTime : t % LegacyUnit = 0 /\ t + LegacyUnit <= FirstTime}

Init ==
    /\ now = FirstTime
    /\ truth = [k \in Keys |-> CHOOSE c \in Closes : TRUE]
    /\ disk \in {<<>>,
                 [t \in {"candles"} |->
                     [unit |-> FALSE,
                      rows |-> [k \in {Old(s) : s \in Stored} |-> truth[<<k[1], LegacyUnit>>]]]],
                 [t \in {"candles"} |->
                     [unit |-> TRUE,
                      rows |-> [k \in {<<s, LegacyUnit>> : s \in Stored} |-> truth[k]]]]}
    /\ work = disk /\ intx = FALSE
    /\ phase = "down" /\ unit = LegacyUnit
    /\ pending = NoCandle /\ fed = <<>>
    /\ missed = {} /\ unsaved = {} /\ crashes = 0

Startup ==
    \/ Open \/ Schema \/ HasUnit \/ Begin \/ Create \/ Copy \/ Drop \/ Rename \/ Commit

Next ==
    \/ Startup \/ Crash \/ Tick
    \/ \E close \in Closes : Lost(close) \/ Received(close)

Spec == Init /\ [][Next]_vars

\* systemd starts the program again, and its thread runs.
FairSpec == Spec /\ WF_vars(Startup)

----------------------------------------------------------------------------
(* Properties *)

TypeOK ==
    /\ DOMAIN disk \cup DOMAIN work \subseteq {"candles", "candles_new"}
    /\ intx \in BOOLEAN /\ unit \in Units
    /\ phase \in {"down", "schema", "has_unit", "begin", "create", "copy", "drop",
                  "rename", "commit", "running"}
    /\ pending = NoCandle \/ pending \in [ts : Nat, close : Closes]
    /\ fed \in Seq([ts : Nat, close : Closes])
    /\ now \in 0..MaxTime /\ truth \in [Keys -> Closes]
    /\ missed \cup unsaved \subseteq Keys /\ crashes \in 0..MaxCrashes

\* What a reader of the database sees, rows of the old form with their unit.
Visible ==
    IF "candles" \notin DOMAIN disk THEN <<>>
    ELSE LET t == disk["candles"]
         IN  IF t.unit THEN t.rows
             ELSE [k \in {<<x[1], LegacyUnit>> : x \in DOMAIN t.rows} |-> t.rows[Old(k[1])]]

\* A candle once stored is never lost and never changes, through crashes at any
\* statement of the migration, restarts and repeated candles
\* (Database.cpp:141-191, 256-296).
RowsKept ==
    [][\A k \in DOMAIN Visible : k \in DOMAIN Visible' /\ Visible'[k] = Visible[k]]_vars

\* A stored candle has its final close, unless its last update was lost: no
\* crash, restart or change of the unit stores an unfinished candle, and nothing
\* but a loss does (MarketEngineManager.cpp:504-524).
RowIsFinal ==
    \A k \in DOMAIN Visible : k \in missed \/ Visible[k] = truth[k]

\* Strategy and database see the same candles: the strategy gets each one once,
\* in the order of time, and each is in the database with the same close, unless
\* its insert failed; also where candles of two units start at the same time
\* (MarketEngineManager.cpp:520-541, RsiMeanReversionStrategy.cpp:133-142,
\* Database.cpp:256-296).
FedIsStored ==
    \A i \in DOMAIN fed :
        /\ \A j \in 1..i - 1 : fed[j].ts < fed[i].ts
        /\ LET k == <<fed[i].ts, unit>>
           IN  k \in unsaved \/ (k \in DOMAIN Visible /\ Visible[k] = fed[i].close)

\* The program starts again after a crash at any point of a start
\* (Database.cpp:94-191).
StartCompletes == (phase # "running") ~> (phase = "running")

=============================================================================
