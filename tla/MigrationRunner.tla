--------------------------- MODULE MigrationRunner ---------------------------
(***************************************************************************)
(* The migration runner (ops/migrations.py) over SQLite (db/sqlite.py).    *)
(*                                                                         *)
(* A job lists the migration files whose version is not recorded, and for  *)
(* each, in lexical order, executes its SQL and then records its version.  *)
(* SQLiteDatabase.execute commits every statement by itself: a job that    *)
(* crashes or raises between the two leaves the SQL applied and the        *)
(* version unrecorded.  Nothing keeps two jobs apart: each works from the  *)
(* list it made when it started.                                           *)
(*                                                                         *)
(* A file is a number, its place in the lexical order.  What matters about *)
(* its SQL is what executing it does the first and the second time.        *)
(***************************************************************************)
EXTENDS Integers

CONSTANTS
    Files,   \* migration files ever deployed
    Kind,    \* file -> "rerunnable", "once", "broken" or "empty"
    Jobs     \* invocations of the runner that may overlap

ASSUME MigrationAssumption ==
    /\ Files \subseteq Nat
    /\ Kind \in [Files -> {"rerunnable", "once", "broken", "empty"}]

VARIABLES
    deployed,   \* files in the migrations directory
    applied,    \* file -> how often its SQL took effect, up to twice
    versions,   \* rows of schema_migrations
    todo,       \* job -> files it has still to do
    executed,   \* job -> is the version of the first of them yet to be recorded?
    listed,     \* history: job -> the files it listed when it started
    reported    \* history: file -> how often a job counted it as applied

vars == <<deployed, applied, versions, todo, executed, listed, reported>>

-----------------------------------------------------------------------------
(* A new file, possibly before some that are applied already.              *)
Deploy(file) ==
    /\ file \notin deployed
    /\ deployed' = deployed \cup {file}
    /\ UNCHANGED <<applied, versions, todo, executed, listed, reported>>

(* The schema_migrations table, the versions in it and the directory.      *)
(* Changed form: only files after the newest version are listed.           *)
StartAfterNewest(job) ==
    /\ todo[job] = {}
    /\ LET new == {f \in deployed : \A v \in versions : f > v} IN
         /\ new # {}
         /\ todo' = [todo EXCEPT ![job] = new]
         /\ listed' = [listed EXCEPT ![job] = new]
    /\ UNCHANGED <<deployed, applied, versions, executed, reported>>

Start(job) ==
    /\ todo[job] = {}
    /\ deployed \ versions # {}
    /\ todo' = [todo EXCEPT ![job] = deployed \ versions]
    /\ listed' = [listed EXCEPT ![job] = deployed \ versions]
    /\ UNCHANGED <<deployed, applied, versions, executed, reported>>

(* The job's next file in lexical order.                                   *)
IsNext(job, file) == file \in todo[job] /\ \A other \in todo[job] : file =< other

Raises(file) ==
    \/ Kind[file] = "broken"
    \/ Kind[file] = "once" /\ applied[file] > 0

(* The SQL, committed at once.  An empty file has none.                    *)
Execute(job, file) ==
    /\ IsNext(job, file)
    /\ ~executed[job]
    /\ ~Raises(file)
    /\ applied' = IF Kind[file] = "empty" \/ applied[file] = 2 THEN applied
                  ELSE [applied EXCEPT ![file] = @ + 1]
    /\ executed' = [executed EXCEPT ![job] = TRUE]
    /\ UNCHANGED <<deployed, versions, todo, listed, reported>>

(* The version, a primary key: recording it twice raises.  Changed forms:  *)
(* a second record is ignored; the version is recorded before the SQL.     *)
RecordOrIgnore(job, file) ==
    /\ IsNext(job, file)
    /\ executed[job]
    /\ versions' = versions \cup {file}
    /\ reported' = [reported EXCEPT ![file] = @ + 1]
    /\ todo' = [todo EXCEPT ![job] = @ \ {file}]
    /\ executed' = [executed EXCEPT ![job] = FALSE]
    /\ UNCHANGED <<deployed, applied, listed>>

RecordUnexecuted(job, file) ==
    /\ IsNext(job, file)
    /\ file \notin versions
    /\ versions' = versions \cup {file}
    /\ reported' = [reported EXCEPT ![file] = @ + 1]
    /\ todo' = [todo EXCEPT ![job] = @ \ {file}]
    /\ executed' = [executed EXCEPT ![job] = FALSE]
    /\ UNCHANGED <<deployed, applied, listed>>

Record(job, file) ==
    /\ IsNext(job, file)
    /\ executed[job]
    /\ file \notin versions
    /\ versions' = versions \cup {file}
    /\ reported' = [reported EXCEPT ![file] = @ + 1]
    /\ todo' = [todo EXCEPT ![job] = @ \ {file}]
    /\ executed' = [executed EXCEPT ![job] = FALSE]
    /\ UNCHANGED <<deployed, applied, listed>>

(* The job raises (bad SQL, an object that exists, a duplicate version, a  *)
(* locked database) or the process ends: what is committed stays.  Changed *)
(* forms: it goes on with the next file; it remembers what it executed.    *)
SkipsFailed(job) ==
    /\ \E file \in todo[job] :
         IsNext(job, file) /\ todo' = [todo EXCEPT ![job] = @ \ {file}]
    /\ executed' = [executed EXCEPT ![job] = FALSE]
    /\ UNCHANGED <<deployed, applied, versions, listed, reported>>

LeavesExecuted(job) ==
    /\ todo[job] # {}
    /\ todo' = [todo EXCEPT ![job] = {}]
    /\ UNCHANGED <<deployed, applied, versions, executed, listed, reported>>

Ends(job) ==
    /\ todo[job] # {}
    /\ todo' = [todo EXCEPT ![job] = {}]
    /\ executed' = [executed EXCEPT ![job] = FALSE]
    /\ UNCHANGED <<deployed, applied, versions, listed, reported>>

(* The job has no choice but to raise.                                     *)
MustEnd(job) ==
    /\ \E file \in todo[job] :
         /\ IsNext(job, file)
         /\ IF executed[job] THEN file \in versions ELSE Raises(file)
    /\ Ends(job)

Init ==
    /\ deployed = {}
    /\ applied = [f \in Files |-> 0]
    /\ versions = {}
    /\ todo = [j \in Jobs |-> {}]
    /\ executed = [j \in Jobs |-> FALSE]
    /\ listed = [j \in Jobs |-> {}]
    /\ reported = [f \in Files |-> 0]

Next ==
    \/ \E file \in Files : Deploy(file)
    \/ \E job \in Jobs : Start(job) \/ Ends(job)
    \/ \E job \in Jobs, file \in Files : Execute(job, file) \/ Record(job, file)

(* The runner is started again until nothing is left to do, and not every  *)
(* attempt is cut off at the same place.                                   *)
Fairness ==
    \A job \in Jobs :
      /\ WF_vars(Start(job)) /\ WF_vars(MustEnd(job))
      /\ SF_vars(\E file \in Files : Execute(job, file))
      /\ SF_vars(\E file \in Files : Record(job, file))

Spec == Init /\ [][Next]_vars /\ Fairness

-----------------------------------------------------------------------------
(* Properties.                                                             *)

(* Every variable has its type; a job that has nothing to do has nothing   *)
(* to record.                                                              *)
TypeOK ==
    /\ deployed \subseteq Files
    /\ applied \in [Files -> 0..2]
    /\ versions \subseteq deployed
    /\ todo \in [Jobs -> SUBSET Files]
    /\ executed \in [Jobs -> BOOLEAN]
    /\ \A j \in Jobs : executed[j] => todo[j] # {}
    /\ listed \in [Jobs -> SUBSET Files]

(* A recorded version has its SQL in the database, wherever jobs crashed   *)
(* and however they overlapped.  (The converse may fail: that is why a     *)
(* migration has to be rerunnable.)                                        *)
RecordedIsApplied ==
    \A f \in versions : Kind[f] # "empty" => applied[f] > 0

(* No SQL runs past a failed migration: whatever a job still has to do     *)
(* comes after all it is done with, and that is recorded.                  *)
NothingRunsPastAFailure ==
    \A j \in Jobs : todo[j] # {} =>
      \A f \in listed[j] \ todo[j] :
        f \in versions /\ \A g \in todo[j] : f < g

(* A migration is reported as applied by one job only, even if two jobs    *)
(* execute it.                                                             *)
ReportedOnce == \A f \in Files : reported[f] =< 1

(* A deployed migration is recorded in the end, through crashes, retries   *)
(* and overlapping jobs, if it and all files before it are rerunnable.     *)
RerunnableFilesAreRecorded ==
    \A f \in Files :
      (\A g \in Files : g =< f => Kind[g] \in {"rerunnable", "empty"}) =>
        (f \in deployed ~> f \in versions)
=============================================================================
