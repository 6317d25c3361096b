----------------------- MODULE MigrationRunnerProofs -----------------------
(***************************************************************************)
(* Proofs about MigrationRunner, for any files of any kinds and any number *)
(* of overlapping jobs.                                                    *)
(*                                                                         *)
(* RecordedIsApplied is not inductive: a job about to record a version     *)
(* must know that its SQL ran, which ExecutedIsApplied remembers from the  *)
(* job's own Execute; and the count of reports must be tied to versions.   *)
(***************************************************************************)
EXTENDS MigrationRunner, TLAPS

(* What a job has to do it listed, and what it listed was deployed.        *)
WorkIsListed ==
    \A j \in Jobs : todo[j] \subseteq listed[j] /\ listed[j] \subseteq deployed

(* A job that is to record a version has its SQL in the database.          *)
ExecutedIsApplied ==
    \A j \in Jobs : \A f \in Files :
      executed[j] /\ IsNext(j, f) => Kind[f] = "empty" \/ applied[f] > 0

(* A version is reported exactly when it is recorded.                      *)
ReportsAreVersions ==
    /\ reported \in [Files -> Nat]
    /\ \A f \in Files : reported[f] = IF f \in versions THEN 1 ELSE 0

IInv ==
    /\ TypeOK
    /\ WorkIsListed
    /\ ExecutedIsApplied
    /\ RecordedIsApplied
    /\ NothingRunsPastAFailure
    /\ ReportsAreVersions

LEMMA InitEstablishes == Init => IInv
  BY DEF Init, IInv, TypeOK, WorkIsListed, ExecutedIsApplied, RecordedIsApplied,
         NothingRunsPastAFailure, ReportsAreVersions

LEMMA DeployPreserves ==
    ASSUME IInv, NEW file \in Files, Deploy(file)
    PROVE  IInv'
<1> USE DEF IInv, Deploy
<1>1. TypeOK'
  BY DEF TypeOK
<1>2. WorkIsListed'
  BY DEF WorkIsListed
<1>3. ExecutedIsApplied' /\ RecordedIsApplied' /\ NothingRunsPastAFailure'
  BY DEF ExecutedIsApplied, IsNext, RecordedIsApplied, NothingRunsPastAFailure
<1>4. ReportsAreVersions'
  BY DEF ReportsAreVersions
<1> QED
  BY <1>1, <1>2, <1>3, <1>4

LEMMA StartPreserves ==
    ASSUME IInv, NEW job \in Jobs, Start(job)
    PROVE  IInv'
<1> USE DEF IInv, Start
<1>1. TypeOK'
  BY DEF TypeOK
<1>2. WorkIsListed'
  BY DEF WorkIsListed, TypeOK
<1>3. ExecutedIsApplied'
  (* A job without work has nothing to record.                             *)
  <2>1. executed[job] = FALSE
    BY DEF TypeOK
  <2> QED
    BY <2>1 DEF ExecutedIsApplied, IsNext, TypeOK
<1>4. RecordedIsApplied'
  BY DEF RecordedIsApplied
<1>5. NothingRunsPastAFailure'
  BY DEF NothingRunsPastAFailure, TypeOK
<1>6. ReportsAreVersions'
  BY DEF ReportsAreVersions
<1> QED
  BY <1>1, <1>2, <1>3, <1>4, <1>5, <1>6

LEMMA EndsPreserves ==
    ASSUME IInv, NEW job \in Jobs, Ends(job)
    PROVE  IInv'
<1> USE DEF IInv, Ends
<1>1. TypeOK'
  BY DEF TypeOK
<1>2. WorkIsListed'
  BY DEF WorkIsListed, TypeOK
<1>3. ExecutedIsApplied'
  BY DEF ExecutedIsApplied, IsNext, TypeOK
<1>4. RecordedIsApplied'
  BY DEF RecordedIsApplied
<1>5. NothingRunsPastAFailure'
  BY DEF NothingRunsPastAFailure, TypeOK
<1>6. ReportsAreVersions'
  BY DEF ReportsAreVersions
<1> QED
  BY <1>1, <1>2, <1>3, <1>4, <1>5, <1>6

(* Executing SQL never takes an effect back.                               *)
LEMMA ExecuteApplies ==
    ASSUME TypeOK, NEW job \in Jobs, NEW file \in Files, Execute(job, file)
    PROVE  /\ applied' \in [Files -> 0..2]
           /\ \A f \in Files : applied'[f] >= applied[f]
           /\ Kind[file] # "empty" => applied'[file] > 0
  BY DEF TypeOK, Execute

(* There is one next file.                                                 *)
LEMMA NextIsUnique ==
    ASSUME TypeOK, NEW job \in Jobs, NEW f \in Files, NEW g \in Files,
           IsNext(job, f), IsNext(job, g)
    PROVE  f = g
  BY MigrationAssumption DEF IsNext

LEMMA ExecutePreserves ==
    ASSUME IInv, NEW job \in Jobs, NEW file \in Files, Execute(job, file)
    PROVE  IInv'
<1> USE DEF IInv
<1>0. /\ applied' \in [Files -> 0..2]
      /\ \A f \in Files : applied'[f] >= applied[f]
      /\ Kind[file] # "empty" => applied'[file] > 0
  BY ExecuteApplies
<1>1. TypeOK'
  BY <1>0 DEF TypeOK, Execute, IsNext
<1>2. WorkIsListed'
  BY DEF WorkIsListed, Execute
<1>3. ExecutedIsApplied'
  <2> SUFFICES ASSUME NEW j \in Jobs, NEW f \in Files, executed'[j], IsNext(j, f)'
               PROVE  Kind[f] = "empty" \/ applied'[f] > 0
    BY DEF ExecutedIsApplied
  <2>0. IsNext(j, f)
    BY DEF IsNext, Execute
  <2>1. CASE j = job
    BY <2>0, <2>1, <1>0, NextIsUnique DEF Execute
  <2>2. CASE j # job
    <3>1. executed[j]
      BY <2>2 DEF Execute, TypeOK
    <3>2. applied[f] \in 0..2 /\ applied'[f] \in 0..2
      BY <1>0 DEF TypeOK
    <3> QED
      BY <2>0, <3>1, <3>2, <1>0 DEF ExecutedIsApplied
  <2> QED
    BY <2>1, <2>2
<1>4. RecordedIsApplied'
  <2> SUFFICES ASSUME NEW f \in versions, Kind[f] # "empty"
               PROVE  applied'[f] > 0
    BY DEF RecordedIsApplied, Execute
  <2>1. f \in Files /\ applied[f] > 0
    BY DEF RecordedIsApplied, TypeOK
  <2>2. applied[f] \in 0..2 /\ applied'[f] \in 0..2
    BY <1>0, <2>1 DEF TypeOK
  <2> QED
    BY <1>0, <2>1, <2>2
<1>5. NothingRunsPastAFailure'
  BY DEF NothingRunsPastAFailure, Execute
<1>6. ReportsAreVersions'
  BY DEF ReportsAreVersions, Execute
<1> QED
  BY <1>1, <1>2, <1>3, <1>4, <1>5, <1>6

LEMMA RecordPreserves ==
    ASSUME IInv, NEW job \in Jobs, NEW file \in Files, Record(job, file)
    PROVE  IInv'
<1> USE DEF IInv
<1>1. TypeOK'
  BY DEF TypeOK, Record, IsNext, WorkIsListed
<1>2. WorkIsListed'
  BY DEF WorkIsListed, Record, TypeOK
<1>3. ExecutedIsApplied'
  BY DEF ExecutedIsApplied, Record, IsNext, TypeOK
<1>4. RecordedIsApplied'
  (* The new version's SQL was executed by this very job.                  *)
  <2>1. Kind[file] = "empty" \/ applied[file] > 0
    BY DEF Record, ExecutedIsApplied
  <2> QED
    BY <2>1 DEF RecordedIsApplied, Record
<1>5. NothingRunsPastAFailure'
  <2> SUFFICES ASSUME NEW j \in Jobs, todo'[j] # {}, NEW f \in listed[j] \ todo'[j]
               PROVE  f \in versions' /\ \A g \in todo'[j] : f < g
    BY DEF NothingRunsPastAFailure, Record
  <2>1. CASE j # job
    BY <2>1 DEF NothingRunsPastAFailure, Record, TypeOK
  <2>2. CASE j = job /\ f # file
    BY <2>2 DEF NothingRunsPastAFailure, Record, TypeOK
  <2>3. CASE j = job /\ f = file
    <3>1. todo'[job] = todo[job] \ {file} /\ f \in versions'
      BY <2>3 DEF Record, TypeOK
    <3>2. \A g \in todo[job] : g \in Nat /\ file \in Nat /\ file =< g
      BY MigrationAssumption DEF Record, IsNext, TypeOK
    <3> QED
      BY <2>3, <3>1, <3>2
  <2> QED
    BY <2>1, <2>2, <2>3
<1>6. ReportsAreVersions'
  BY DEF ReportsAreVersions, Record
<1> QED
  BY <1>1, <1>2, <1>3, <1>4, <1>5, <1>6

LEMMA StutterPreserves == ASSUME IInv, UNCHANGED vars PROVE IInv'
  BY DEF IInv, vars, TypeOK, WorkIsListed, ExecutedIsApplied, IsNext,
         RecordedIsApplied, NothingRunsPastAFailure, ReportsAreVersions

(* The strengthened invariant holds in every state of every behaviour.     *)
THEOREM Invariance == Spec => []IInv
<1>1. ASSUME IInv, [Next]_vars PROVE IInv'
  BY <1>1, DeployPreserves, StartPreserves, EndsPreserves, ExecutePreserves,
     RecordPreserves, StutterPreserves DEF Next
<1> QED
  BY InitEstablishes, <1>1, PTL DEF Spec

(* Every variable has its type.                                            *)
THEOREM TypeCorrect == Spec => []TypeOK
  BY Invariance, PTL DEF IInv

(* schema_migrations never claims more than the database has: a recorded   *)
(* version has had its SQL executed, through crashes and overlapping jobs. *)
THEOREM VersionsAreApplied == Spec => []RecordedIsApplied
  BY Invariance, PTL DEF IInv

(* A job that fails or crashes never gets past the file it failed on.      *)
THEOREM JobsStopAtFailures == Spec => []NothingRunsPastAFailure
  BY Invariance, PTL DEF IInv

(* However many jobs overlap, each version is reported by at most one.     *)
THEOREM ReportsAreUnique == Spec => []ReportedOnce
<1>1. IInv => ReportedOnce
  <2> SUFFICES ASSUME IInv, NEW f \in Files PROVE reported[f] =< 1
    BY DEF ReportedOnce
  <2>1. reported[f] = 0 \/ reported[f] = 1
    BY DEF IInv, ReportsAreVersions
  <2> QED
    BY <2>1
<1> QED
  BY Invariance, <1>1, PTL
=============================================================================
