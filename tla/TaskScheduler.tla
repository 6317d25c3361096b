---------------------------- MODULE TaskScheduler ----------------------------
(***************************************************************************)
(* The cooperative task scheduler (ops/scheduler.py) under the loop of     *)
(* scripts/run_scheduler.py, which ticks it and sleeps, for ever.          *)
(*                                                                         *)
(* tick reads the clock once and runs the due tasks one after the other in *)
(* the order of their registration; time passes while they run.  A task    *)
(* that raises ends the tick and, as the script catches nothing, the loop: *)
(* from then on only time passes.  Another caller of tick may catch the    *)
(* exception and go on with the same tasks; whether one does is left open, *)
(* and no fairness says so.  A script started again starts over from Init. *)
(*                                                                         *)
(* Times are kept relative to now, so that they need no bound: due is what *)
(* is left until next_run, age the time since the reading of the clock in  *)
(* the tick that ran the task last.                                        *)
(***************************************************************************)
EXTENDS Integers, Sequences, FiniteSetsExt

CONSTANTS
    Intervals,   \* intervals of the tasks registered
    Pause,       \* sleep between two ticks
    MaxLag,      \* bound on the time one tick takes
    MaxTasks,    \* bound on the number of tasks
    Longest      \* bound on times, beyond what any task may have to wait

ASSUME SchedulerAssumption ==
    /\ Intervals \subseteq Nat \ {0} /\ Intervals # {}
    /\ Pause \in Nat \ {0}
    /\ MaxLag \in Nat
    /\ MaxTasks \in Nat
    /\ Longest \in Nat
    /\ \A i \in Intervals : i + 2 * MaxLag + Pause =< Longest

VARIABLES
    tasks,    \* registered tasks: [interval, due]
    running,  \* is a tick in progress?
    ended,    \* has an exception left tick, and the loop with it?
    todo,     \* numbers of the due tasks the tick has not run yet
    lag,      \* time since the tick read the clock
    sleep,    \* what is left of the pause between ticks
    ages,     \* history: age of every task
    owed,     \* history: what the last tick left undone by raising
    raised    \* history: has a task raised so far?

vars == <<tasks, running, ended, todo, lag, sleep, ages, owed, raised>>

Older(age) == Min({age + 1, Longest + 1})

-----------------------------------------------------------------------------
(* register: the first run is due at once.  It counts as if the task had   *)
(* last run one interval ago.                                              *)
Register(interval) ==
    /\ ~running
    /\ Len(tasks) < MaxTasks
    /\ tasks' = Append(tasks, [interval |-> interval, due |-> 0])
    /\ ages' = Append(ages, interval)
    /\ UNCHANGED <<running, ended, todo, lag, sleep, owed, raised>>

(* Changed form: one due task per tick.                                    *)
FirstDueTask ==
    {n \in DOMAIN tasks : tasks[n].due =< 0
                            /\ \A m \in 1..(n - 1) : tasks[m].due > 0}

(* ts >= next_run, for the one ts of the tick.                             *)
DueTasks == {n \in DOMAIN tasks : tasks[n].due =< 0}

StartTick ==
    /\ ~running
    /\ ~ended
    /\ sleep = 0
    /\ running' = TRUE
    /\ todo' = DueTasks
    /\ lag' = 0
    /\ UNCHANGED <<tasks, ended, sleep, ages, owed, raised>>

(* The due tasks are run in the order of their registration.               *)
NextInTurn(n) == n \in todo /\ \A m \in todo : n =< m

(* next_run = ts + interval.  Changed form: next_run + interval.           *)
NextInSeries(task) == task.due + task.interval

NextRun(task) == task.interval - lag

TaskReturns(n) ==
    /\ running
    /\ NextInTurn(n)
    /\ tasks' = [tasks EXCEPT ![n].due = NextRun(tasks[n])]
    /\ ages' = [ages EXCEPT ![n] = lag]
    /\ todo' = todo \ {n}
    /\ owed' = owed \ {n}
    /\ UNCHANGED <<running, ended, lag, sleep, raised>>

(* The exception leaves tick and the loop: neither this task nor the rest  *)
(* of the due ones get a new next_run.  Changed form: this one does.       *)
TaskRaisesAdvanced ==
    /\ running
    /\ todo # {}
    /\ tasks' = [n \in DOMAIN tasks |->
                   IF NextInTurn(n) THEN [tasks[n] EXCEPT !.due = NextRun(tasks[n])]
                                    ELSE tasks[n]]
    /\ running' = FALSE
    /\ ended' = TRUE
    /\ todo' = {}
    /\ owed' = todo
    /\ raised' = TRUE
    /\ UNCHANGED <<lag, sleep, ages>>

TaskRaises ==
    /\ running
    /\ todo # {}
    /\ running' = FALSE
    /\ ended' = TRUE
    /\ todo' = {}
    /\ owed' = todo
    /\ raised' = TRUE
    /\ UNCHANGED <<tasks, lag, sleep, ages>>

(* A caller other than the script catches the exception and will tick      *)
(* again.                                                                  *)
ExceptionCaught ==
    /\ ended
    /\ ended' = FALSE
    /\ UNCHANGED <<tasks, running, todo, lag, sleep, ages, owed, raised>>

EndTick ==
    /\ running
    /\ todo = {}
    /\ running' = FALSE
    /\ sleep' = Pause
    /\ UNCHANGED <<tasks, ended, todo, lag, ages, owed, raised>>

(* The loop wakes up on time, and no tick takes longer than MaxLag.  What  *)
(* comes after an exception has no bound.                                  *)
PassTime ==
    /\ \/ running /\ lag < MaxLag
       \/ ~running /\ sleep > 0
       \/ ended
    /\ lag' = IF running THEN lag + 1 ELSE lag
    /\ sleep' = IF sleep > 0 THEN sleep - 1 ELSE 0
    /\ tasks' = [n \in DOMAIN tasks |->
                   [tasks[n] EXCEPT !.due = Max({@ - 1, -Longest})]]
    /\ ages' = [n \in DOMAIN ages |-> Older(ages[n])]
    /\ UNCHANGED <<running, ended, todo, owed, raised>>

Init ==
    /\ tasks = <<>>
    /\ running = FALSE
    /\ ended = FALSE
    /\ todo = {}
    /\ lag = 0
    /\ sleep = 0
    /\ ages = <<>>
    /\ owed = {}
    /\ raised = FALSE

Next ==
    \/ \E interval \in Intervals : Register(interval)
    \/ StartTick
    \/ \E n \in 1..MaxTasks : TaskReturns(n)
    \/ TaskRaises
    \/ ExceptionCaught
    \/ EndTick
    \/ PassTime

(* Until an exception ends it the loop goes on, and time passes; a task    *)
(* that is run again and again neither hangs nor raises every time.        *)
Fairness ==
    /\ WF_vars(StartTick) /\ WF_vars(EndTick) /\ WF_vars(PassTime)
    /\ \A n \in 1..MaxTasks : SF_vars(TaskReturns(n))

Spec == Init /\ [][Next]_vars /\ Fairness

-----------------------------------------------------------------------------
(* Properties.                                                             *)

(* Every variable has its type.                                            *)
TypeOK ==
    /\ tasks \in Seq([interval: Intervals, due: Int])
    /\ \A n \in DOMAIN tasks : tasks[n].due =< tasks[n].interval
    /\ running \in BOOLEAN
    /\ ended \in BOOLEAN
    /\ ended => raised /\ ~running
    /\ todo \subseteq DOMAIN tasks
    /\ todo # {} => running
    /\ running => sleep = 0
    /\ lag \in 0..MaxLag
    /\ sleep \in 0..Pause
    /\ ages \in Seq(0..(Longest + 1))
    /\ DOMAIN ages = DOMAIN tasks
    /\ owed \subseteq DOMAIN tasks
    /\ raised \in BOOLEAN

(* No task runs twice within its interval, by the clock readings of the    *)
(* ticks that run it: a task that missed several runs because a tick took  *)
(* too long does not catch up on them in a burst.                          *)
RunsOncePerInterval ==
    [][\A n \in DOMAIN tasks : TaskReturns(n) => ages[n] - lag >= tasks[n].interval]_vars

(* As long as no task raises, every task has run within its interval, one  *)
(* pause and the time of two ticks, whatever the tasks before it take.     *)
RunsInTime ==
    ~raised => \A n \in DOMAIN tasks :
                 ages[n] =< tasks[n].interval + 2 * MaxLag + Pause

(* What a raising task left undone, its own run included, is due in the    *)
(* next tick, if there is one: a failed or skipped run is tried again      *)
(* without waiting for the interval.                                       *)
OwedTasksAreDue ==
    \A n \in owed : IF running THEN n \in todo ELSE tasks[n].due =< 0

(* Every task runs again and again, unless an exception ends the loop for  *)
(* good: slow tasks before it and exceptions that a caller catches do not  *)
(* keep a task from its turn for ever.                                     *)
EveryTaskRuns ==
    \/ <>[]ended
    \/ \A n \in 1..MaxTasks : []<>(n \in DOMAIN tasks => ages[n] =< MaxLag)
=============================================================================
