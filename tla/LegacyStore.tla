----------------------------- MODULE LegacyStore -----------------------------
(***************************************************************************)
(* The maps the Studio saves (apps/workbench/server/store.mjs): a database *)
(* in memory, opened by the first request that needs it and written to its *)
(* file as a whole by every save and delete.                               *)
(*                                                                         *)
(* A step is what runs between two awaits.  A request that finds the       *)
(* database open goes on at once.  Several requests may open it, and       *)
(* several may write the file, at the same time.  A write may fail.        *)
(***************************************************************************)
EXTENDS Integers, Sequences, FiniteSets, TLC

CONSTANTS
    Clients,        \* each has one request at a time
    MapIds,         \* ids of saved maps
    Absent          \* no row

StoreAssumption == MapIds # {}

ASSUME StoreAssumption

VARIABLES
    handle,         \* _db: the open database, 0 for null
    dbs,            \* the databases opened by this process
    file,           \* what is at _dbPath
    call,           \* the request of each client
    acked,          \* history: the rows as last acknowledged
    disturbed,      \* history: what has happened that the store cannot stand
    unwritten,      \* history: no write has gone through since one failed
    unanswered      \* history: maps whose change is in the database, but was answered an error

failures == <<disturbed, unwritten, unanswered>>
storeVars == <<handle, dbs, file, call, acked, failures>>

Idle == [at |-> "idle"]
NoRows == [m \in MapIds |-> Absent]
Torn == << >>                       \* bytes that are no database

StoreInit ==
    /\ handle = 0
    /\ dbs = << >>
    /\ file = NoRows
    /\ call = [c \in Clients |-> Idle]
    /\ acked = NoRows
    /\ disturbed = {} /\ unwritten = FALSE /\ unanswered = {}

Answered(c) == call' = [call EXCEPT ![c] = Idle]

Writing == {c \in Clients : call[c].at \in {"installing", "writing"}}

(***************************************************************************)
(* getDb and openDatabase.                                                 *)
(***************************************************************************)

\* There is no database yet: await initSqlJs().
StartOpening(c, request) ==
    /\ handle = 0
    /\ call' = [call EXCEPT ![c] = [at |-> "opening", asks |-> request]]
    /\ UNCHANGED <<handle, dbs, file, acked, failures>>

\* A write begins with an empty file, which is a database without rows; between
\* that and its end the file is torn.
CutShort == IF Writing = {} THEN {} ELSE {NoRows, Torn}

ReadFile(c) ==
    /\ call[c].at = "opening"
    /\ \E bytes \in {file} \cup CutShort :
           call' = [call EXCEPT ![c] = [at |-> "read", asks |-> @.asks, bytes |-> bytes]]
    /\ UNCHANGED <<handle, dbs, file, acked, failures>>

HasOpened(c) ==
    call' = [call EXCEPT ![c] = [at |-> "creating", asks |-> @.asks, db |-> handle']]

\* _db is replaced, whoever has set it before; the schema cannot be ensured in
\* bytes that are no database.
OpenDatabase(c) ==
    /\ call[c].at = "read"
    /\ dbs' = Append(dbs, call[c].bytes)
    /\ handle' = Len(dbs')
    /\ disturbed' = disturbed \cup (IF handle = 0 THEN {} ELSE {"openedTwice"})
    /\ IF call[c].bytes = Torn THEN Answered(c) ELSE HasOpened(c)
    /\ UNCHANGED <<file, acked, unwritten, unanswered>>

(***************************************************************************)
(* persistDb: the export of the whole database, then one writeFile.        *)
(***************************************************************************)

\* The database is the one persistDb was called with, whatever _db is by now.
BeginWrite(c) ==
    /\ \/ /\ call[c].at = "creating"
          /\ call' = [call EXCEPT ![c] =
                         [at |-> "installing", asks |-> @.asks, bytes |-> dbs[@.db]]]
       \/ /\ call[c].at = "persisting"
          /\ call' = [call EXCEPT ![c] =
                         [at |-> "writing", map |-> @.map, db |-> @.db, bytes |-> dbs[@.db]]]
    /\ disturbed' = disturbed \cup (IF Writing = {} THEN {} ELSE {"writesOverlapped"})
    /\ UNCHANGED <<handle, dbs, file, acked, unwritten, unanswered>>

\* The file after a write: once two have overlapped, it may hold what either
\* wrote, or a mixture.
Written(c) ==
    IF "writesOverlapped" \in disturbed
    THEN {call[c].bytes, file, Torn} \cup {call[w].bytes : w \in Writing}
    ELSE {call[c].bytes}

\* The new database is in its file: getDb returns.
EndNewWrite(c) ==
    /\ call[c].at = "installing"
    /\ file' \in Written(c)
    /\ unwritten' = FALSE

\* The save or delete is in the file and is answered.
EndWrite(c) ==
    /\ call[c].at = "writing"
    /\ file' \in Written(c)
    /\ acked' = [acked EXCEPT ![call[c].map] = dbs[call[c].db][call[c].map]]
    /\ Answered(c)
    /\ unwritten' = FALSE
    /\ unanswered' = unanswered \ {call[c].map}
    /\ UNCHANGED <<handle, dbs, disturbed>>

\* Mutant of FailWrite: the error is swallowed, and the change is answered.
SwallowFailure(c) ==
    /\ call[c].at \in {"installing", "writing"}
    /\ file' \in {file, NoRows, Torn} \cup Written(c)
    /\ acked' = IF call[c].at = "writing"
                THEN [acked EXCEPT ![call[c].map] = dbs[call[c].db][call[c].map]] ELSE acked
    /\ Answered(c)
    /\ UNCHANGED <<handle, dbs, failures>>

\* mkdir or writeFile rejects while the process lives: the file is as it was, cut
\* short, or whole after all, and the request is answered an error.  The change stays
\* in the open database, and a new database stays open.
FailWrite(c) ==
    /\ call[c].at \in {"installing", "writing"}
    /\ file' \in {file, NoRows, Torn} \cup Written(c)
    /\ unwritten' = TRUE
    /\ unanswered' = unanswered \cup (IF call[c].at = "writing" THEN {call[c].map} ELSE {})
    /\ Answered(c)
    /\ UNCHANGED <<handle, dbs, acked, disturbed>>

(***************************************************************************)
(* saveMap, loadMap and deleteMap, on the open database.                   *)
(***************************************************************************)

Row(m) == dbs[handle][m]
Found(m) == dbs[handle] # Torn /\ Row(m) # Absent

PutRow(c, request, row) ==
    /\ dbs[handle] # Torn
    /\ dbs' = [dbs EXCEPT ![handle][request.map] = row]
    /\ call' = [call EXCEPT ![c] = [at |-> "persisting", map |-> request.map, db |-> handle]]
    /\ UNCHANGED <<handle, acked, disturbed, unanswered>>

\* Nothing is changed: the map is not there, it has only been read, or the query threw.
LeaveRows(c) == Answered(c) /\ UNCHANGED <<handle, dbs, acked, disturbed, unanswered>>

(***************************************************************************)
(* The process dies and is started again: what is being written may be     *)
(* torn, and what was only in memory is gone, as it is after a write that  *)
(* failed.  A change that has not been acknowledged may have reached the   *)
(* file or not.                                                            *)
(***************************************************************************)
Settled(m) ==
    IF /\ file' # Torn
       /\ \/ m \in unanswered
          \/ \E c \in Clients : call[c].at \in {"persisting", "writing"} /\ call[c].map = m
    THEN file'[m] ELSE acked[m]

StoreCrash ==
    /\ handle' = 0
    /\ dbs' = << >>
    /\ call' = [c \in Clients |-> Idle]
    /\ file' \in {file} \cup CutShort \cup {call[w].bytes : w \in Writing}
    /\ disturbed' = disturbed \cup
           (IF Writing = {} /\ ~unwritten THEN {} ELSE {"writeCutShort"})
    /\ unwritten' = FALSE /\ unanswered' = {}
    /\ acked' = [m \in MapIds |-> Settled(m)]

\* What the store has acknowledged is what it holds (store.mjs: a save is answered
\* after persistDb), unless two requests opened the database at once, two writes
\* overlapped, or the process died in the middle of a write or after one that failed.
\* A write that fails in a process that lives on spares the other maps: the database
\* that answers the requests holds them as acknowledged, and the next write that goes
\* through puts all of it in the file, where a restart finds it -- the changes that
\* were answered an error included.
AckedSavesKept ==
    disturbed = {} /\ (\A c \in Clients : call[c].at = "idle") =>
        /\ handle # 0 => \A m \in MapIds \ unanswered : dbs[handle][m] = acked[m]
        /\ ~unwritten => file = IF handle = 0 THEN acked ELSE dbs[handle]
=============================================================================
