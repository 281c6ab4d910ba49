---------------------------- MODULE AutoTasks ----------------------------
(***************************************************************************)
(* The AutoGPT bridge (autogpt_bridge.py). A task is an object with a      *)
(* counter of iterations and a budget; task_execute does one iteration,    *)
(* task_run iterates until the counter reaches the budget. The registry    *)
(* maps names to objects, and a name created again leaves the requests     *)
(* that already hold the old object working on that. Goals and commands    *)
(* are data: an iteration records the results of its commands in one step. *)
(***************************************************************************)
EXTENDS BridgeThreads

CONSTANTS TaskNames, Objects, Rounds,
          CallBound   \* bound on the requests that work on a task

ASSUME RoundsAssumption == Rounds \subseteq Nat

VARIABLES taskNamed,  \* taskNamed[k]: the object registered as k
          tasks,      \* tasks[o]: iterations, max_iterations, iterations recorded
          taskCall,   \* taskCall[t]: how far the request of thread t is
          told,       \* objects a request was told are completed
          calls       \* requests made so far

autoVars == <<taskNamed, tasks, taskCall, told, calls>>

Held(t) == taskCall[t].obj
Exhausted(o) == tasks[o].iterations >= tasks[o].max

\* Threads that have counted an iteration of o and not recorded it.
InIteration(o) == {t \in Threads : At(taskCall, t, "counted") /\ Held(t) = o}

Goto(t, place) == taskCall' = [taskCall EXCEPT ![t].at = place]
Answer(t) == taskCall' = [taskCall EXCEPT ![t] = Idle]

CreateTask(t, k, m) ==
  /\ At(taskCall, t, "idle")
  /\ \E o \in Objects \ DOMAIN tasks :
       /\ tasks' = Put(tasks, o, [iterations |-> 0, max |-> m, recorded |-> 0])
       /\ taskNamed' = Put(taskNamed, k, o)
  /\ UNCHANGED <<taskCall, told, calls>>

\* task_execute, and task_run when loop is TRUE.
StartWork(t, k, loop) ==
  /\ At(taskCall, t, "idle")
  /\ k \in DOMAIN taskNamed /\ calls < CallBound
  /\ calls' = calls + 1
  /\ taskCall' = [taskCall EXCEPT ![t] = [at |-> "asked", obj |-> taskNamed[k], loop |-> loop]]
  /\ UNCHANGED <<taskNamed, tasks, told>>

\* Mutant: off by one.
EnoughButOne(t) ==
  /\ At(taskCall, t, "asked") /\ tasks[Held(t)].iterations >= tasks[Held(t)].max - 1
  /\ told' = told \cup {Held(t)} /\ Answer(t)
  /\ UNCHANGED <<taskNamed, tasks, calls>>

\* The budget is used up: the request is told "completed".
Enough(t) ==
  /\ At(taskCall, t, "asked") /\ Exhausted(Held(t))
  /\ told' = told \cup {Held(t)} /\ Answer(t)
  /\ UNCHANGED <<taskNamed, tasks, calls>>

GoAhead(t) ==
  /\ At(taskCall, t, "asked") /\ ~Exhausted(Held(t))
  /\ Goto(t, "checked")
  /\ UNCHANGED <<taskNamed, tasks, told, calls>>

\* iterations += 1 reads the counter and writes it in two steps.
ReadCounter(t) ==
  /\ At(taskCall, t, "checked")
  /\ taskCall' = [taskCall EXCEPT ![t] =
       [at |-> "read", obj |-> Held(t), loop |-> @.loop, seen |-> tasks[Held(t)].iterations]]
  /\ UNCHANGED <<taskNamed, tasks, told, calls>>

WriteCounter(t) ==
  /\ At(taskCall, t, "read")
  /\ tasks' = [tasks EXCEPT ![Held(t)].iterations = taskCall[t].seen + 1]
  /\ taskCall' = [taskCall EXCEPT ![t] = [at |-> "counted", obj |-> Held(t), loop |-> @.loop]]
  /\ UNCHANGED <<taskNamed, told, calls>>

\* Mutant: a round whose commands failed starts the task anew.
StartAnew(t) ==
  /\ At(taskCall, t, "counted")
  /\ tasks' = [tasks EXCEPT ![Held(t)].iterations = 0, ![Held(t)].recorded = 0]
  /\ Goto(t, IF taskCall[t].loop THEN "asked" ELSE "recorded")
  /\ UNCHANGED <<taskNamed, told, calls>>

RecordResults(t) ==
  /\ At(taskCall, t, "counted")
  /\ tasks' = [tasks EXCEPT ![Held(t)].recorded = @ + 1]
  /\ Goto(t, IF taskCall[t].loop THEN "asked" ELSE "recorded")
  /\ UNCHANGED <<taskNamed, told, calls>>

\* task_execute looks at the counter once more for its "completed".
AnswerRound(t) ==
  /\ At(taskCall, t, "recorded")
  /\ told' = IF Exhausted(Held(t)) THEN told \cup {Held(t)} ELSE told
  /\ Answer(t)
  /\ UNCHANGED <<taskNamed, tasks, calls>>

\* The embedding program closes the bridge once it serves no request.
CloseTasks ==
  /\ taskCall = AllIdle /\ tasks # << >>
  /\ taskNamed' = << >> /\ tasks' = << >> /\ told' = {}
  /\ UNCHANGED <<taskCall, calls>>

AutoInit ==
  /\ taskNamed = << >> /\ tasks = << >>
  /\ taskCall = AllIdle /\ told = {} /\ calls = 0

WorkNext(t) ==
  \/ Enough(t) \/ GoAhead(t) \/ ReadCounter(t)
  \/ WriteCounter(t) \/ RecordResults(t) \/ AnswerRound(t)

AutoNext ==
  \/ \E t \in Threads :
       \/ \E k \in TaskNames, m \in Rounds : CreateTask(t, k, m)
       \/ \E k \in TaskNames, loop \in BOOLEAN : StartWork(t, k, loop)
       \/ WorkNext(t)
  \/ CloseTasks

AutoSpec == AutoInit /\ [][AutoNext]_autoVars

\* A thread of the pool is scheduled again and again until its request ends.
AutoFairness == \A t \in Threads : WF_autoVars(WorkNext(t))

---------------------------------------------------------------------------
AutoTypeOK ==
  /\ DOMAIN tasks \subseteq Objects
  /\ \A o \in DOMAIN tasks : tasks[o] \in [iterations : Nat, max : Rounds, recorded : Nat]
  /\ DOMAIN taskNamed \subseteq TaskNames
  /\ \A k \in DOMAIN taskNamed : taskNamed[k] \in DOMAIN tasks
  /\ taskCall \in [Threads ->
       {Idle} \cup [at : {"asked", "checked", "counted", "recorded"},
                    obj : DOMAIN tasks, loop : BOOLEAN]
              \cup [at : {"read"}, obj : DOMAIN tasks, loop : BOOLEAN, seen : Nat]]
  /\ told \subseteq DOMAIN tasks
  /\ calls \in Nat

\* "completed" is told of a task only when its whole budget of iterations was
\* carried out, or is recorded within a step, however many requests raced for
\* its counter (autogpt_bridge.py, task_execute and task_run).
CompletedMeansWorked ==
  \A o \in told : tasks[o].recorded + Cardinality(InIteration(o)) >= tasks[o].max

\* Every request about a task is answered: although racing requests set the
\* counter back, the loop of task_run ends (its while).
WorkEnds == \A t \in Threads : ~At(taskCall, t, "idle") ~> At(taskCall, t, "idle")

==========================================================================
