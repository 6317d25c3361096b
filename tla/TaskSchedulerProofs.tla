-------------------------- MODULE TaskSchedulerProofs --------------------------
(***************************************************************************)
(* What the task scheduler guarantees for any number of tasks of any       *)
(* intervals, ticks of any length and tasks that raise at any time.        *)
(***************************************************************************)
EXTENDS TaskScheduler, TLAPS

(* The inductive invariant.  due and age are two views of one time: they   *)
(* add up to the interval, unless one of them has reached its bound.       *)
DueFollowsAge ==
    \A n \in DOMAIN tasks :
      /\ tasks[n].due > -Longest => ages[n] + tasks[n].due =< tasks[n].interval
      /\ ages[n] =< Longest => ages[n] + tasks[n].due >= tasks[n].interval

(* A task the tick is to run was due when the tick read the clock.         *)
TodoIsDue ==
    \A n \in todo : tasks[n].due =< 0 /\ ages[n] >= tasks[n].interval + lag

(* How long a task may have waited: it was not due in the tick under way,  *)
(* or has been run by it, or waits in it; or the tick is over.             *)
Wait(n) ==
    IF ~running THEN MaxLag + Pause - sleep
    ELSE IF n \in todo THEN MaxLag + Pause + lag ELSE lag

WaitsAreBounded ==
    ~raised => \A n \in DOMAIN tasks : ages[n] =< tasks[n].interval + Wait(n)

SInv ==
    /\ TypeOK
    /\ DueFollowsAge
    /\ TodoIsDue
    /\ WaitsAreBounded
    /\ OwedTasksAreDue

-----------------------------------------------------------------------------
LEMMA OlderBounds ==
  ASSUME NEW age \in 0..(Longest + 1)
  PROVE  /\ Older(age) \in 0..(Longest + 1)
         /\ Older(age) = IF age =< Longest THEN age + 1 ELSE Longest + 1
<1>1. \A a, b \in Int : Min({a, b}) = IF a =< b THEN a ELSE b
  BY DEF Min
<1> QED
  BY <1>1, SchedulerAssumption DEF Older

LEMMA LaterDue ==
  ASSUME NEW due \in Int
  PROVE  Max({due - 1, -Longest}) = IF due - 1 >= -Longest THEN due - 1 ELSE -Longest
<1>1. \A a, b \in Int : Max({a, b}) = IF a >= b THEN a ELSE b
  BY DEF Max
<1> QED
  BY <1>1, SchedulerAssumption

LEMMA SeqElement ==
  ASSUME NEW S, NEW s \in Seq(S), NEW n \in DOMAIN s
  PROVE  s[n] \in S
OBVIOUS

(* A change of a sequence's elements leaves a sequence.                    *)
LEMMA SeqMapped ==
  ASSUME NEW S, NEW s \in Seq(S), NEW t, t = [n \in DOMAIN s |-> t[n]],
         \A n \in DOMAIN s : t[n] \in S
  PROVE  t \in Seq(S)
<1>1. DOMAIN s = 1..Len(s) /\ Len(s) \in Nat
  OBVIOUS
<1>2. t \in [1..Len(s) -> S]
  BY <1>1
<1> QED
  BY <1>1, <1>2

LEMMA SeqExtended ==
  ASSUME NEW S, NEW s \in Seq(S), NEW e \in S, NEW t, t = Append(s, e)
  PROVE  /\ t \in Seq(S)
         /\ DOMAIN t = DOMAIN s \cup {Len(s) + 1}
         /\ Len(s) + 1 \notin DOMAIN s
         /\ \A n \in DOMAIN s : t[n] = s[n]
         /\ t[Len(s) + 1] = e
OBVIOUS

(* The end of a tick keeps the types.                                      *)
LEMMA TickEndsType ==
  ASSUME TypeOK, UNCHANGED <<tasks, lag, ages>>,
         running' = FALSE, todo' = {}, sleep' \in {sleep, Pause},
         owed' \subseteq DOMAIN tasks, raised' \in BOOLEAN,
         ended' \in BOOLEAN, ended' => raised'
  PROVE  TypeOK'
<1>1. sleep' \in 0..Pause
  BY SchedulerAssumption DEF TypeOK
<1>2. running' \in BOOLEAN
  OBVIOUS
<1> QED
  BY <1>1, <1>2 DEF TypeOK

(* What is known of a registered task.                                     *)
LEMMA TaskType ==
  ASSUME TypeOK, NEW n \in DOMAIN tasks
  PROVE  /\ n \in Nat /\ n \in 1..Len(tasks) /\ Len(ages) = Len(tasks)
         /\ tasks[n] \in [interval: Intervals, due: Int]
         /\ tasks[n].interval \in Intervals /\ tasks[n].interval \in Nat
         /\ tasks[n].interval + 2 * MaxLag + Pause =< Longest
         /\ tasks[n].due \in Int
         /\ ages[n] \in 0..(Longest + 1) /\ ages[n] \in Nat
<1>1. tasks \in Seq([interval: Intervals, due: Int])
  BY DEF TypeOK
<1>2. tasks[n] \in [interval: Intervals, due: Int] /\ n \in 1..Len(tasks) /\ n \in Nat
  <2>1. tasks[n] \in [interval: Intervals, due: Int]
    BY <1>1, SeqElement
  <2>2. n \in 1..Len(tasks) /\ n \in Nat
    BY <1>1
  <2> QED
    BY <2>1, <2>2
<1>3. tasks[n].interval \in Intervals /\ tasks[n].due \in Int
  BY <1>2
<1>4. ages \in Seq(0..(Longest + 1)) /\ DOMAIN ages = DOMAIN tasks
  BY DEF TypeOK
<1>5. ages[n] \in 0..(Longest + 1) /\ Len(ages) = Len(tasks)
  <2>1. ages[n] \in 0..(Longest + 1)
    BY <1>4, SeqElement
  <2>2. Len(ages) = Len(tasks)
    BY <1>1, <1>4
  <2> QED
    BY <2>1, <2>2
<1>6. /\ tasks[n].interval \in Nat
      /\ tasks[n].interval + 2 * MaxLag + Pause =< Longest
  BY <1>3, SchedulerAssumption
<1>7. ages[n] \in Nat
  BY <1>5, SchedulerAssumption
<1> QED
  BY <1>2, <1>3, <1>5, <1>6, <1>7

-----------------------------------------------------------------------------
LEMMA RegisterSInv ==
  ASSUME SInv, NEW interval \in Intervals, Register(interval)
  PROVE  SInv'
<1> DEFINE task == [interval |-> interval, due |-> 0]
           new == Len(tasks) + 1
<1>1. /\ ~running /\ tasks' = Append(tasks, task) /\ ages' = Append(ages, interval)
      /\ UNCHANGED <<running, ended, todo, lag, sleep, owed, raised>>
  BY DEF Register
<1>2. /\ tasks \in Seq([interval: Intervals, due: Int])
      /\ ages \in Seq(0..(Longest + 1)) /\ Len(ages) = Len(tasks)
      /\ todo = {} /\ sleep \in 0..Pause /\ owed \subseteq DOMAIN tasks
  BY <1>1 DEF SInv, TypeOK
<1>3. /\ interval \in Nat /\ interval + 2 * MaxLag + Pause =< Longest
      /\ interval \in 0..(Longest + 1)
  BY SchedulerAssumption
<1>4. /\ tasks' \in Seq([interval: Intervals, due: Int])
      /\ ages' \in Seq(0..(Longest + 1))
      /\ DOMAIN tasks' = DOMAIN tasks \cup {new} /\ DOMAIN ages' = DOMAIN tasks'
      /\ new \notin DOMAIN tasks
      /\ \A n \in DOMAIN tasks : tasks'[n] = tasks[n] /\ ages'[n] = ages[n]
      /\ tasks'[new] = task /\ ages'[new] = interval
  <2>1. task \in [interval: Intervals, due: Int]
    OBVIOUS
  <2> HIDE DEF task
  <2> QED
    <3>1. /\ tasks' \in Seq([interval: Intervals, due: Int])
          /\ DOMAIN tasks' = DOMAIN tasks \cup {Len(tasks) + 1}
          /\ Len(tasks) + 1 \notin DOMAIN tasks
          /\ \A n \in DOMAIN tasks : tasks'[n] = tasks[n]
          /\ tasks'[Len(tasks) + 1] = task
      BY <1>1, <1>2, <2>1, SeqExtended
    <3>2. /\ ages' \in Seq(0..(Longest + 1))
          /\ DOMAIN ages' = DOMAIN ages \cup {Len(ages) + 1}
          /\ \A n \in DOMAIN ages : ages'[n] = ages[n]
          /\ ages'[Len(ages) + 1] = interval
      BY <1>1, <1>2, <1>3, SeqExtended
    <3>3. DOMAIN ages = DOMAIN tasks
      BY DEF SInv, TypeOK
    <3> QED
      BY <1>2, <3>1, <3>2, <3>3
<1>5. TypeOK'
  <2>1. \A n \in DOMAIN tasks' : tasks'[n].due =< tasks'[n].interval
    BY <1>3, <1>4 DEF SInv, TypeOK
  <2> HIDE DEF new, task
  <2> QED
    BY <1>1, <1>2, <1>4, <2>1 DEF SInv, TypeOK
<1>6. DueFollowsAge'
  <2>1. /\ tasks'[new].due = 0 /\ tasks'[new].interval = interval /\ ages'[new] = interval
    BY <1>4
  <2>2. /\ DOMAIN tasks' = DOMAIN tasks \cup {new}
        /\ \A n \in DOMAIN tasks : tasks'[n] = tasks[n] /\ ages'[n] = ages[n]
    BY <1>4
  <2> HIDE DEF new, task
  <2> QED
    BY <1>3, <2>1, <2>2 DEF SInv, DueFollowsAge
<1>7. WaitsAreBounded'
  <2>1. \A n \in DOMAIN tasks : Wait(n) = MaxLag + Pause - sleep
    BY <1>1 DEF Wait
  <2>2. \A n \in DOMAIN tasks' : Wait(n)' = MaxLag + Pause - sleep
    BY <1>1 DEF Wait
  <2>3. interval =< interval + (MaxLag + Pause - sleep)
    BY <1>2, <1>3, SchedulerAssumption
  <2> QED
    BY <1>1, <1>4, <2>1, <2>2, <2>3 DEF SInv, WaitsAreBounded
<1>8. TodoIsDue' /\ OwedTasksAreDue'
  BY <1>1, <1>2, <1>4 DEF SInv, TodoIsDue, OwedTasksAreDue
<1> QED
  BY <1>5, <1>6, <1>7, <1>8 DEF SInv

LEMMA StartTickSInv ==
  ASSUME SInv, StartTick
  PROVE  SInv'
<1>1. /\ ~running /\ ~ended /\ sleep = 0 /\ running' = TRUE /\ lag' = 0
      /\ todo' = {n \in DOMAIN tasks : tasks[n].due =< 0}
      /\ UNCHANGED <<tasks, ended, sleep, ages, owed, raised>>
  BY DEF StartTick, DueTasks
<1>2. TypeOK'
  BY <1>1, SchedulerAssumption DEF SInv, TypeOK
<1>3. DueFollowsAge'
  BY <1>1 DEF SInv, DueFollowsAge
<1>4. TodoIsDue'
  <2> SUFFICES ASSUME NEW n \in DOMAIN tasks, tasks[n].due =< 0
               PROVE  ages[n] >= tasks[n].interval + 0
    BY <1>1 DEF TodoIsDue
  <2>1. ages[n] =< Longest => ages[n] + tasks[n].due >= tasks[n].interval
    BY DEF SInv, DueFollowsAge
  <2> QED
    BY <2>1, TaskType, SchedulerAssumption DEF SInv
<1>5. WaitsAreBounded'
  <2> SUFFICES ASSUME ~raised, NEW n \in DOMAIN tasks
               PROVE  ages[n] =< tasks[n].interval + Wait(n)'
    BY <1>1 DEF WaitsAreBounded
  <2>1. CASE tasks[n].due =< 0
    <3>1. Wait(n)' = MaxLag + Pause + 0 /\ Wait(n) = MaxLag + Pause - 0
      BY <1>1, <2>1 DEF Wait
    <3>2. ages[n] =< tasks[n].interval + Wait(n)
      BY DEF SInv, WaitsAreBounded
    <3> QED
      BY <3>1, <3>2, TaskType, SchedulerAssumption DEF SInv
  <2>2. CASE ~(tasks[n].due =< 0)
    <3>1. Wait(n)' = 0
      BY <1>1, <2>2 DEF Wait
    <3>2. tasks[n].due > -Longest => ages[n] + tasks[n].due =< tasks[n].interval
      BY DEF SInv, DueFollowsAge
    <3> QED
      BY <2>2, <3>1, <3>2, TaskType, SchedulerAssumption DEF SInv
  <2> QED
    BY <2>1, <2>2
<1>6. OwedTasksAreDue'
  BY <1>1 DEF SInv, OwedTasksAreDue, TypeOK
<1> QED
  BY <1>2, <1>3, <1>4, <1>5, <1>6 DEF SInv

LEMMA TaskReturnsSInv ==
  ASSUME SInv, NEW k \in 1..MaxTasks, TaskReturns(k)
  PROVE  SInv'
<1>1. /\ running /\ k \in todo /\ k \in DOMAIN tasks
      /\ tasks' = [tasks EXCEPT ![k].due = tasks[k].interval - lag]
      /\ ages' = [ages EXCEPT ![k] = lag]
      /\ todo' = todo \ {k} /\ owed' = owed \ {k}
      /\ UNCHANGED <<running, ended, lag, sleep, raised>>
  BY DEF TaskReturns, NextInTurn, NextRun, SInv, TypeOK
<1>2. /\ lag \in 0..MaxLag /\ lag \in Nat
      /\ tasks[k] \in [interval: Intervals, due: Int]
      /\ tasks[k].interval \in Nat
      /\ tasks[k].interval + 2 * MaxLag + Pause =< Longest
      /\ lag \in 0..(Longest + 1)
  <2>1. lag \in 0..MaxLag
    BY DEF SInv, TypeOK
  <2>2. /\ tasks[k] \in [interval: Intervals, due: Int]
        /\ tasks[k].interval \in Nat
        /\ tasks[k].interval + 2 * MaxLag + Pause =< Longest
    BY <1>1, TaskType DEF SInv
  <2> QED
    BY <2>1, <2>2, SchedulerAssumption
<1>3. /\ DOMAIN tasks' = DOMAIN tasks /\ DOMAIN ages' = DOMAIN ages
      /\ DOMAIN ages = DOMAIN tasks
      /\ tasks'[k].due = tasks[k].interval - lag
      /\ tasks'[k].interval = tasks[k].interval /\ ages'[k] = lag
      /\ \A n \in DOMAIN tasks : n # k => tasks'[n] = tasks[n] /\ ages'[n] = ages[n]
  BY <1>1, <1>2 DEF SInv, TypeOK
<1>4. TypeOK'
  <2>1. tasks' \in Seq([interval: Intervals, due: Int])
    <3> DEFINE d == tasks[k].interval - lag
    <3>1. d \in Int /\ tasks' = [tasks EXCEPT ![k].due = d]
      BY <1>1, <1>2
    <3> HIDE DEF d
    <3>2. [tasks[k] EXCEPT !.due = d] \in [interval: Intervals, due: Int]
      BY <1>2, <3>1
    <3> QED
      BY <1>1, <3>1, <3>2 DEF SInv, TypeOK
  <2>2. ages' \in Seq(0..(Longest + 1))
    BY <1>1, <1>2 DEF SInv, TypeOK
  <2>3. \A n \in DOMAIN tasks' : tasks'[n].due =< tasks'[n].interval
    BY <1>2, <1>3 DEF SInv, TypeOK
  <2> QED
    BY <1>1, <1>3, <2>1, <2>2, <2>3 DEF SInv, TypeOK
<1>5. DueFollowsAge'
  BY <1>2, <1>3 DEF SInv, DueFollowsAge
<1>6. TodoIsDue'
  BY <1>1, <1>3 DEF SInv, TodoIsDue, TypeOK
<1>7. WaitsAreBounded'
  <2> SUFFICES ASSUME ~raised, NEW n \in DOMAIN tasks
               PROVE  ages'[n] =< tasks'[n].interval + Wait(n)'
    BY <1>1, <1>3 DEF WaitsAreBounded
  <2>1. CASE n = k
    <3>1. Wait(k)' = lag
      BY <1>1 DEF Wait
    <3> QED
      BY <1>2, <1>3, <2>1, <3>1
  <2>2. CASE n # k
    <3>1. Wait(n)' = Wait(n)
      BY <1>1, <2>2 DEF Wait
    <3> QED
      BY <1>3, <2>2, <3>1 DEF SInv, WaitsAreBounded
  <2> QED
    BY <2>1, <2>2
<1>8. OwedTasksAreDue'
  BY <1>1 DEF SInv, OwedTasksAreDue
<1> QED
  BY <1>4, <1>5, <1>6, <1>7, <1>8 DEF SInv

LEMMA TaskRaisesSInv ==
  ASSUME SInv, TaskRaises
  PROVE  SInv'
<1>1. /\ running /\ running' = FALSE /\ ended' = TRUE /\ todo' = {}
      /\ owed' = todo /\ raised' = TRUE
      /\ UNCHANGED <<tasks, lag, sleep, ages>>
  BY DEF TaskRaises
<1>2. TypeOK'
  <2>1. todo \subseteq DOMAIN tasks /\ TypeOK
    BY DEF SInv, TypeOK
  <2> QED
    BY <1>1, <2>1, TickEndsType
<1>3. OwedTasksAreDue'
  BY <1>1 DEF SInv, TodoIsDue, OwedTasksAreDue
<1> QED
  BY <1>1, <1>2, <1>3 DEF SInv, DueFollowsAge, TodoIsDue, WaitsAreBounded

LEMMA ExceptionCaughtSInv ==
  ASSUME SInv, ExceptionCaught
  PROVE  SInv'
<1>1. /\ ended /\ ended' = FALSE
      /\ UNCHANGED <<tasks, running, todo, lag, sleep, ages, owed, raised>>
  BY DEF ExceptionCaught
<1>2. TypeOK'
  BY <1>1 DEF SInv, TypeOK
<1> QED
  BY <1>1, <1>2 DEF SInv, DueFollowsAge, TodoIsDue, WaitsAreBounded, Wait, OwedTasksAreDue

LEMMA EndTickSInv ==
  ASSUME SInv, EndTick
  PROVE  SInv'
<1>1. /\ running /\ todo = {} /\ running' = FALSE /\ sleep' = Pause
      /\ UNCHANGED <<tasks, ended, todo, lag, ages, owed, raised>>
  BY DEF EndTick
<1>2. TypeOK'
  <2>1. /\ owed \subseteq DOMAIN tasks /\ raised \in BOOLEAN /\ TypeOK
        /\ ended \in BOOLEAN /\ (ended => raised)
    BY DEF SInv, TypeOK
  <2> QED
    BY <1>1, <2>1, TickEndsType
<1>3. WaitsAreBounded'
  <2> SUFFICES ASSUME ~raised, NEW n \in DOMAIN tasks
               PROVE  ages[n] =< tasks[n].interval + Wait(n)'
    BY <1>1 DEF WaitsAreBounded
  <2>1. Wait(n)' = MaxLag + Pause - Pause /\ Wait(n) = lag
    BY <1>1 DEF Wait
  <2>2. ages[n] =< tasks[n].interval + Wait(n) /\ lag \in 0..MaxLag
    BY DEF SInv, WaitsAreBounded, TypeOK
  <2> QED
    BY <2>1, <2>2, TaskType, SchedulerAssumption DEF SInv
<1>4. DueFollowsAge' /\ TodoIsDue' /\ OwedTasksAreDue'
  BY <1>1 DEF SInv, DueFollowsAge, TodoIsDue, OwedTasksAreDue
<1> QED
  BY <1>2, <1>3, <1>4 DEF SInv

LEMMA PassTimeSInv ==
  ASSUME SInv, PassTime
  PROVE  SInv'
<1>1. /\ \/ running /\ lag < MaxLag
         \/ ~running /\ sleep > 0
         \/ ended
      /\ lag' = IF running THEN lag + 1 ELSE lag
      /\ sleep' = IF sleep > 0 THEN sleep - 1 ELSE 0
      /\ tasks' = [n \in DOMAIN tasks |->
                     [tasks[n] EXCEPT !.due = Max({@ - 1, -Longest})]]
      /\ ages' = [n \in DOMAIN ages |-> Older(ages[n])]
      /\ UNCHANGED <<running, ended, todo, owed, raised>>
  BY DEF PassTime
<1>2. /\ lag \in Nat /\ lag =< MaxLag /\ sleep \in Nat /\ sleep =< Pause
      /\ lag' \in 0..MaxLag /\ sleep' \in 0..Pause
      /\ running => lag < MaxLag /\ ~ended /\ sleep = 0
      /\ ~running /\ ~raised => sleep > 0
  <2>1. lag \in 0..MaxLag /\ sleep \in 0..Pause
    BY DEF SInv, TypeOK
  <2>2. /\ ended => raised /\ ~running
        /\ running => sleep = 0
    BY DEF SInv, TypeOK
  <2>3. /\ running => lag < MaxLag /\ ~ended /\ sleep = 0
        /\ ~running /\ ~raised => sleep > 0
    BY <1>1, <2>2
  <2> QED
    BY <1>1, <2>1, <2>3, SchedulerAssumption
<1>3. DOMAIN tasks' = DOMAIN tasks /\ DOMAIN ages' = DOMAIN tasks
  BY <1>1 DEF SInv, TypeOK
<1>4. ASSUME NEW n \in DOMAIN tasks
      PROVE  /\ tasks'[n] \in [interval: Intervals, due: Int]
             /\ tasks'[n].interval = tasks[n].interval
             /\ tasks'[n].due = IF tasks[n].due - 1 >= -Longest
                                  THEN tasks[n].due - 1 ELSE -Longest
             /\ ages'[n] \in 0..(Longest + 1)
             /\ ages'[n] = IF ages[n] =< Longest THEN ages[n] + 1 ELSE Longest + 1
  <2>1. /\ tasks[n] \in [interval: Intervals, due: Int] /\ tasks[n].due \in Int
        /\ ages[n] \in 0..(Longest + 1)
    BY TaskType DEF SInv
  <2> DEFINE d == Max({tasks[n].due - 1, -Longest})
  <2>2. /\ d = IF tasks[n].due - 1 >= -Longest THEN tasks[n].due - 1 ELSE -Longest
        /\ d \in Int
    BY <2>1, LaterDue, SchedulerAssumption
  <2>3. tasks'[n] = [tasks[n] EXCEPT !.due = d] /\ ages'[n] = Older(ages[n])
    BY <1>1 DEF SInv, TypeOK
  <2> HIDE DEF d
  <2>4. /\ tasks'[n] \in [interval: Intervals, due: Int]
        /\ tasks'[n].interval = tasks[n].interval /\ tasks'[n].due = d
    BY <2>1, <2>2, <2>3
  <2>5. /\ Older(ages[n]) \in 0..(Longest + 1)
        /\ Older(ages[n]) = IF ages[n] =< Longest THEN ages[n] + 1 ELSE Longest + 1
    BY <2>1, OlderBounds
  <2> QED
    BY <2>2, <2>3, <2>4, <2>5
<1>5. ASSUME NEW n \in DOMAIN tasks
      PROVE  /\ tasks[n].interval \in Nat
             /\ tasks[n].interval + 2 * MaxLag + Pause =< Longest
             /\ tasks[n].due \in Int /\ ages[n] \in Nat /\ ages[n] =< Longest + 1
  BY TaskType, SchedulerAssumption DEF SInv
<1>6. TypeOK'
  <2>1. tasks' \in Seq([interval: Intervals, due: Int])
    <3>1. \A n \in DOMAIN tasks : tasks'[n] \in [interval: Intervals, due: Int]
      BY <1>4
    <3>2. tasks' = [n \in DOMAIN tasks |-> tasks'[n]]
      BY <1>1
    <3>3. tasks \in Seq([interval: Intervals, due: Int])
      BY DEF SInv, TypeOK
    <3> QED
      BY <3>1, <3>2, <3>3, SeqMapped
  <2>2. ages' \in Seq(0..(Longest + 1))
    <3>1. \A n \in DOMAIN ages : ages'[n] \in 0..(Longest + 1)
      BY <1>4 DEF SInv, TypeOK
    <3>2. ages' = [n \in DOMAIN ages |-> ages'[n]]
      BY <1>1
    <3>3. ages \in Seq(0..(Longest + 1))
      BY DEF SInv, TypeOK
    <3> QED
      BY <3>1, <3>2, <3>3, SeqMapped
  <2>3. ASSUME NEW n \in DOMAIN tasks
        PROVE  tasks'[n].due =< tasks'[n].interval
    <3>1. tasks[n].due =< tasks[n].interval
      BY DEF SInv, TypeOK
    <3>2. tasks'[n].interval = tasks[n].interval
          /\ tasks'[n].due = IF tasks[n].due - 1 >= -Longest
                               THEN tasks[n].due - 1 ELSE -Longest
      BY <1>4
    <3> QED
      BY <1>5, <3>1, <3>2, SchedulerAssumption
  <2>4. /\ running' \in BOOLEAN /\ raised' \in BOOLEAN
        /\ todo' \subseteq DOMAIN tasks' /\ owed' \subseteq DOMAIN tasks'
        /\ todo' # {} => running'
    BY <1>1, <1>3 DEF SInv, TypeOK
  <2>5. /\ ended' \in BOOLEAN /\ (ended' => raised' /\ ~running')
        /\ (running' => sleep' = 0)
    BY <1>1, <1>2 DEF SInv, TypeOK
  <2> QED
    BY <1>2, <1>3, <2>1, <2>2, <2>3, <2>4, <2>5 DEF TypeOK
<1>7. DueFollowsAge'
  <2> SUFFICES ASSUME NEW n \in DOMAIN tasks
               PROVE  /\ tasks'[n].due > -Longest
                           => ages'[n] + tasks'[n].due =< tasks'[n].interval
                      /\ ages'[n] =< Longest
                           => ages'[n] + tasks'[n].due >= tasks'[n].interval
    BY <1>3 DEF DueFollowsAge
  <2>1. /\ tasks[n].due > -Longest => ages[n] + tasks[n].due =< tasks[n].interval
        /\ ages[n] =< Longest => ages[n] + tasks[n].due >= tasks[n].interval
    BY DEF SInv, DueFollowsAge
  <2>2. /\ tasks'[n].interval = tasks[n].interval
        /\ tasks'[n].due = IF tasks[n].due - 1 >= -Longest
                             THEN tasks[n].due - 1 ELSE -Longest
        /\ ages'[n] = IF ages[n] =< Longest THEN ages[n] + 1 ELSE Longest + 1
    BY <1>4
  <2> QED
    BY <1>5, <2>1, <2>2, SchedulerAssumption
<1>8. TodoIsDue'
  <2> SUFFICES ASSUME NEW n \in todo
               PROVE  tasks'[n].due =< 0 /\ ages'[n] >= tasks'[n].interval + lag'
    BY <1>1 DEF TodoIsDue
  <2>1. /\ n \in DOMAIN tasks /\ running
        /\ tasks[n].due =< 0 /\ ages[n] >= tasks[n].interval + lag
    BY DEF SInv, TypeOK, TodoIsDue
  <2>2. /\ tasks'[n].interval = tasks[n].interval
        /\ tasks'[n].due = IF tasks[n].due - 1 >= -Longest
                             THEN tasks[n].due - 1 ELSE -Longest
        /\ ages'[n] = IF ages[n] =< Longest THEN ages[n] + 1 ELSE Longest + 1
    BY <1>4, <2>1
  <2>3. lag' = lag + 1 /\ lag < MaxLag
    BY <1>1, <1>2, <2>1
  <2> QED
    BY <1>2, <1>5, <2>1, <2>2, <2>3, SchedulerAssumption
<1>9. WaitsAreBounded'
  <2> SUFFICES ASSUME ~raised, NEW n \in DOMAIN tasks
               PROVE  ages'[n] =< tasks'[n].interval + Wait(n)'
    BY <1>1, <1>3 DEF WaitsAreBounded
  <2>1. ages[n] =< tasks[n].interval + Wait(n)
    BY DEF SInv, WaitsAreBounded
  <2>2. Wait(n) \in Int /\ Wait(n)' = Wait(n) + 1
    BY <1>1, <1>2, SchedulerAssumption DEF Wait
  <2>3. /\ tasks'[n].interval = tasks[n].interval
        /\ ages'[n] = IF ages[n] =< Longest THEN ages[n] + 1 ELSE Longest + 1
    BY <1>4
  <2> QED
    BY <1>5, <2>1, <2>2, <2>3, SchedulerAssumption
<1>10. OwedTasksAreDue'
  <2> SUFFICES ASSUME NEW n \in owed, ~running
               PROVE  tasks'[n].due =< 0
    BY <1>1 DEF SInv, OwedTasksAreDue
  <2>1. n \in DOMAIN tasks /\ tasks[n].due =< 0
    BY DEF SInv, TypeOK, OwedTasksAreDue
  <2>2. tasks'[n].due = IF tasks[n].due - 1 >= -Longest
                         THEN tasks[n].due - 1 ELSE -Longest
    BY <1>4, <2>1
  <2> QED
    BY <1>5, <2>1, <2>2, SchedulerAssumption
<1> QED
  BY <1>6, <1>7, <1>8, <1>9, <1>10 DEF SInv

LEMMA InitSInv == Init => SInv
<1> SUFFICES ASSUME Init
             PROVE  SInv
  OBVIOUS
<1>1. /\ tasks = <<>> /\ ages = <<>> /\ DOMAIN tasks = {} /\ todo = {} /\ owed = {}
      /\ running = FALSE /\ ended = FALSE /\ raised = FALSE /\ lag = 0 /\ sleep = 0
  BY DEF Init
<1>2. /\ tasks \in Seq([interval: Intervals, due: Int])
      /\ ages \in Seq(0..(Longest + 1)) /\ DOMAIN ages = DOMAIN tasks
  BY <1>1
<1>3. lag \in 0..MaxLag /\ sleep \in 0..Pause
  BY <1>1, SchedulerAssumption
<1>4. TypeOK
  BY <1>1, <1>2, <1>3 DEF TypeOK
<1> QED
  BY <1>1, <1>4 DEF SInv, DueFollowsAge, TodoIsDue, WaitsAreBounded, OwedTasksAreDue

LEMMA NextSInv == SInv /\ [Next]_vars => SInv'
<1> SUFFICES ASSUME SInv, [Next]_vars
             PROVE  SInv'
  OBVIOUS
<1>1. ASSUME NEW interval \in Intervals, Register(interval) PROVE SInv'
  BY <1>1, RegisterSInv
<1>2. CASE StartTick
  BY <1>2, StartTickSInv
<1>3. ASSUME NEW n \in 1..MaxTasks, TaskReturns(n) PROVE SInv'
  BY <1>3, TaskReturnsSInv
<1>4. CASE TaskRaises
  BY <1>4, TaskRaisesSInv
<1>5. CASE EndTick
  BY <1>5, EndTickSInv
<1>6. CASE PassTime
  BY <1>6, PassTimeSInv
<1>7. CASE ExceptionCaught
  BY <1>7, ExceptionCaughtSInv
<1>8. CASE UNCHANGED vars
  BY <1>8 DEF vars, SInv, TypeOK, DueFollowsAge, TodoIsDue, WaitsAreBounded, Wait,
              OwedTasksAreDue
<1> QED
  BY <1>1, <1>2, <1>3, <1>4, <1>5, <1>6, <1>7, <1>8 DEF Next

(* The invariant holds in every state the scheduler can reach.             *)
LEMMA SInvariance == Spec => []SInv
  BY InitSInv, NextSInv, PTL DEF Spec

-----------------------------------------------------------------------------
(* Every variable of the scheduler has its type.                           *)
THEOREM TypeCorrect == Spec => []TypeOK
<1>1. SInv => TypeOK
  BY DEF SInv
<1> QED
  BY <1>1, SInvariance, PTL

(* What tick left undone because a task raised is due in the next tick, if *)
(* a caller catches the exception and ticks again.                         *)
THEOREM OwedAreDue == Spec => []OwedTasksAreDue
<1>1. SInv => OwedTasksAreDue
  BY DEF SInv
<1> QED
  BY <1>1, SInvariance, PTL

(* As long as no task raises, tick runs every task within its interval,    *)
(* one pause and the time of two ticks.                                    *)
THEOREM TasksRunInTime == Spec => []RunsInTime
<1>1. SInv => RunsInTime
  <2> SUFFICES ASSUME SInv, ~raised, NEW n \in DOMAIN tasks
               PROVE  ages[n] =< tasks[n].interval + 2 * MaxLag + Pause
    BY DEF RunsInTime
  <2>1. ages[n] =< tasks[n].interval + Wait(n)
    BY DEF SInv, WaitsAreBounded
  <2>2. Wait(n) \in Int /\ Wait(n) =< 2 * MaxLag + Pause
    <3>1. lag \in 0..MaxLag /\ sleep \in 0..Pause
      BY DEF SInv, TypeOK
    <3> QED
      BY <3>1, SchedulerAssumption DEF Wait
  <2>3. ages[n] \in Nat /\ tasks[n].interval \in Nat
    BY TaskType DEF SInv
  <2> QED
    BY <2>1, <2>2, <2>3, SchedulerAssumption
<1> QED
  BY <1>1, SInvariance, PTL

(* Because next_run counts from the reading of the clock, no task is run   *)
(* twice within its interval, whatever was missed before.                  *)
THEOREM NoBursts == Spec => RunsOncePerInterval
<1>1. SInv => [\A n \in DOMAIN tasks :
                 TaskReturns(n) => ages[n] - lag >= tasks[n].interval]_vars
  <2> SUFFICES ASSUME SInv, NEW n \in DOMAIN tasks, TaskReturns(n)
               PROVE  ages[n] - lag >= tasks[n].interval
    OBVIOUS
  <2>1. n \in todo
    BY DEF TaskReturns, NextInTurn
  <2>2. ages[n] >= tasks[n].interval + lag /\ lag \in Nat
    BY <2>1, SchedulerAssumption DEF SInv, TypeOK, TodoIsDue
  <2> QED
    BY <2>2, TaskType DEF SInv
<1> QED
  BY <1>1, SInvariance, PTL DEF RunsOncePerInterval
==============================================================================
