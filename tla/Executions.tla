--------------------------- MODULE Executions ---------------------------
(***************************************************************************)
(* The AgentGPT bridge (agentgpt_bridge.py): agents, their executions, and *)
(* the steps that clients ask for one at a time. A step checks the status, *)
(* advances the counter, records itself and compares the counter with the  *)
(* budget the execution was started with; pause, resume and stop write the *)
(* status whatever it is. What a step says and what a goal is, is data.    *)
(***************************************************************************)
EXTENDS BridgeThreads

CONSTANTS AgentIds, ExecIds, Budgets, TaskIds,
          StepBound   \* bound on the steps of an execution

ASSUME BudgetsAssumption == Budgets \subseteq Nat

VARIABLES agents,     \* agents[a]: the max_steps of agent a
          runs,       \* runs[e]: execution e
          todo,       \* todo[a][k]: whether task k of agent a is completed
          execCall,   \* execCall[t]: how far the request of thread t is
          late,       \* late[e]: steps recorded since e was last running
          toldDone    \* executions some step of which was told it completed

execVars == <<agents, runs, todo, execCall, late, toldDone>>

Run(t) == execCall[t].run

\* Threads that may still record a step of execution e.
Stepping(e) ==
  {t \in Threads : execCall[t].at \in {"checked", "read", "counted"} /\ Run(t) = e}

\* Threads that have counted a step of e and not recorded it.
Counted(e) == {t \in Threads : At(execCall, t, "counted") /\ Run(t) = e}

\* The agent is there before its empty list of tasks, which takes the place of
\* one that task_add made meanwhile.
CreateAgent(t, a, m) ==
  /\ At(execCall, t, "idle")
  /\ agents' = Put(agents, a, m)
  /\ execCall' = [execCall EXCEPT ![t] = [at |-> "created", agent |-> a]]
  /\ UNCHANGED <<runs, todo, late, toldDone>>

MakeTodo(t) ==
  /\ At(execCall, t, "created")
  /\ todo' = Put(todo, execCall[t].agent, << >>)
  /\ execCall' = [execCall EXCEPT ![t] = Idle]
  /\ UNCHANGED <<agents, runs, late, toldDone>>

StartExecution(t, a, e) ==
  /\ At(execCall, t, "idle")
  /\ a \in DOMAIN agents /\ e \notin DOMAIN runs
  /\ runs' = Put(runs, e,
       [status |-> "running", step |-> 0, max |-> agents[a], steps |-> 0])
  /\ UNCHANGED <<agents, todo, execCall, late, toldDone>>

\* Mutant: the status is not asked.
StepUnchecked(t, e) ==
  /\ At(execCall, t, "idle") /\ e \in DOMAIN runs
  /\ runs[e].steps + Cardinality(Stepping(e)) < StepBound
  /\ execCall' = [execCall EXCEPT ![t] = [at |-> "checked", run |-> e]]
  /\ UNCHANGED <<agents, runs, todo, late, toldDone>>

StepChecks(t, e) ==
  /\ At(execCall, t, "idle")
  /\ e \in DOMAIN runs /\ runs[e].status = "running"
  /\ runs[e].steps + Cardinality(Stepping(e)) < StepBound
  /\ execCall' = [execCall EXCEPT ![t] = [at |-> "checked", run |-> e]]
  /\ UNCHANGED <<agents, runs, todo, late, toldDone>>

StepReads(t) ==
  /\ At(execCall, t, "checked")
  /\ execCall' = [execCall EXCEPT ![t] =
                    [at |-> "read", run |-> Run(t), step |-> runs[Run(t)].step]]
  /\ UNCHANGED <<agents, runs, todo, late, toldDone>>

\* Mutant: the counter is advanced twice.
StepCountsTwice(t) ==
  /\ At(execCall, t, "read")
  /\ runs' = [runs EXCEPT ![Run(t)].step = execCall[t].step + 2]
  /\ execCall' = [execCall EXCEPT ![t] = [at |-> "counted", run |-> Run(t)]]
  /\ UNCHANGED <<agents, todo, late, toldDone>>

StepCounts(t) ==
  /\ At(execCall, t, "read")
  /\ runs' = [runs EXCEPT ![Run(t)].step = execCall[t].step + 1]
  /\ execCall' = [execCall EXCEPT ![t] = [at |-> "counted", run |-> Run(t)]]
  /\ UNCHANGED <<agents, todo, late, toldDone>>

StepRecords(t) ==
  /\ At(execCall, t, "counted")
  /\ runs' = [runs EXCEPT ![Run(t)].steps = @ + 1]
  /\ late' = IF runs[Run(t)].status = "running" THEN late
             ELSE [late EXCEPT ![Run(t)] = @ + 1]
  /\ execCall' = [execCall EXCEPT ![t] = [at |-> "recorded", run |-> Run(t)]]
  /\ UNCHANGED <<agents, todo, toldDone>>

\* The counter is read again: other threads may have moved it, either way.
StepGoesOn(t) ==
  /\ At(execCall, t, "recorded")
  /\ runs[Run(t)].step < runs[Run(t)].max
  /\ execCall' = [execCall EXCEPT ![t] = Idle]
  /\ UNCHANGED <<agents, runs, todo, late, toldDone>>

StepIsLast(t) ==
  /\ At(execCall, t, "recorded")
  /\ runs[Run(t)].step >= runs[Run(t)].max
  /\ execCall' = [execCall EXCEPT ![t] = [at |-> "last", run |-> Run(t)]]
  /\ UNCHANGED <<agents, runs, todo, late, toldDone>>

\* Mutant: a status that is not one of AgentGPTStatus.
StepFinishes(t) ==
  /\ At(execCall, t, "last")
  /\ runs' = [runs EXCEPT ![Run(t)].status = "done"]
  /\ toldDone' = toldDone \cup {Run(t)}
  /\ execCall' = [execCall EXCEPT ![t] = Idle]
  /\ UNCHANGED <<agents, todo, late>>

StepCompletes(t) ==
  /\ At(execCall, t, "last")
  /\ runs' = [runs EXCEPT ![Run(t)].status = "completed"]
  /\ toldDone' = toldDone \cup {Run(t)}
  /\ execCall' = [execCall EXCEPT ![t] = Idle]
  /\ UNCHANGED <<agents, todo, late>>

\* agent_pause, agent_resume and agent_stop: no status is refused.
Verdicts == {"paused", "running", "completed"}

Control(t, e, status) ==
  /\ At(execCall, t, "idle") /\ e \in DOMAIN runs
  /\ runs' = [runs EXCEPT ![e].status = status]
  /\ late' = IF status = "running" THEN [late EXCEPT ![e] = 0] ELSE late
  /\ UNCHANGED <<agents, todo, execCall, toldDone>>

\* task_add: the agent need not exist, its list is made when there is none.
AddTask(t, a, k) ==
  /\ At(execCall, t, "idle")
  /\ execCall' = [execCall EXCEPT ![t] =
       [at |-> IF a \in DOMAIN todo THEN "append" ELSE "insert", agent |-> a, task |-> k]]
  /\ UNCHANGED <<agents, runs, todo, late, toldDone>>

InsertList(t) ==
  /\ At(execCall, t, "insert")
  /\ todo' = Put(todo, execCall[t].agent, << >>)
  /\ execCall' = [execCall EXCEPT ![t].at = "append"]
  /\ UNCHANGED <<agents, runs, late, toldDone>>

AppendTask(t) ==
  /\ At(execCall, t, "append")
  /\ todo' = [todo EXCEPT ![execCall[t].agent] = Put(@, execCall[t].task, FALSE)]
  /\ execCall' = [execCall EXCEPT ![t] = Idle]
  /\ UNCHANGED <<agents, runs, late, toldDone>>

\* task_complete walks every list; a list that appears meanwhile ends the walk
\* with an error, and what it has marked stays marked.
StartWalk(t, k) ==
  /\ At(execCall, t, "idle")
  /\ execCall' = [execCall EXCEPT ![t] =
       [at |-> "walk", task |-> k, keys |-> DOMAIN todo, left |-> DOMAIN todo]]
  /\ UNCHANGED <<agents, runs, todo, late, toldDone>>

WalkList(t) ==
  /\ At(execCall, t, "walk") /\ DOMAIN todo = execCall[t].keys
  /\ \E a \in execCall[t].left :
       /\ execCall' = [execCall EXCEPT ![t].left = @ \ {a}]
       /\ todo' = [todo EXCEPT ![a] =
            [k \in DOMAIN @ |-> IF k = execCall[t].task THEN TRUE ELSE @[k]]]
  /\ UNCHANGED <<agents, runs, late, toldDone>>

EndWalk(t) ==
  /\ At(execCall, t, "walk")
  /\ DOMAIN todo = execCall[t].keys => execCall[t].left = {}
  /\ execCall' = [execCall EXCEPT ![t] = Idle]
  /\ UNCHANGED <<agents, runs, todo, late, toldDone>>

\* The embedding program closes the bridge once it serves no request.
CloseExecutions ==
  /\ execCall = AllIdle
  /\ agents' = << >> /\ runs' = << >> /\ todo' = << >>
  /\ late' = [e \in ExecIds |-> 0] /\ toldDone' = {}
  /\ UNCHANGED execCall

ExecInit ==
  /\ agents = << >> /\ runs = << >> /\ todo = << >>
  /\ execCall = AllIdle
  /\ late = [e \in ExecIds |-> 0] /\ toldDone = {}

StepNext(t) ==
  \/ StepReads(t) \/ StepCounts(t) \/ StepRecords(t)
  \/ StepGoesOn(t) \/ StepIsLast(t) \/ StepCompletes(t)

ListNext(t) ==
  \/ \E a \in AgentIds, k \in TaskIds : AddTask(t, a, k)
  \/ \E k \in TaskIds : StartWalk(t, k)
  \/ MakeTodo(t) \/ InsertList(t) \/ AppendTask(t) \/ WalkList(t) \/ EndWalk(t)

ExecNext ==
  \/ \E t \in Threads :
       \/ \E a \in AgentIds, m \in Budgets : CreateAgent(t, a, m)
       \/ \E a \in AgentIds, e \in ExecIds : StartExecution(t, a, e)
       \/ \E e \in ExecIds : StepChecks(t, e)
       \/ \E e \in ExecIds, s \in Verdicts : Control(t, e, s)
       \/ StepNext(t) \/ ListNext(t)
  \/ CloseExecutions

ExecSpec == ExecInit /\ [][ExecNext]_execVars

---------------------------------------------------------------------------
StepCall(places) == [at : places, run : DOMAIN runs]

ExecTypeOK ==
  /\ DOMAIN agents \subseteq AgentIds /\ \A a \in DOMAIN agents : agents[a] \in Budgets
  /\ DOMAIN runs \subseteq ExecIds
  /\ \A e \in DOMAIN runs :
       runs[e] \in [status : Verdicts, step : Nat, max : Budgets, steps : Nat]
  /\ DOMAIN todo \subseteq AgentIds
  /\ execCall \in [Threads ->
       {Idle} \cup StepCall({"checked", "counted", "recorded", "last"})
              \cup [at : {"read"}, run : DOMAIN runs, step : Nat]
              \cup [at : {"created"}, agent : AgentIds]
              \cup [at : {"insert", "append"}, agent : AgentIds, task : TaskIds]
              \cup [at : {"walk"}, task : TaskIds, keys : SUBSET AgentIds,
                    left : SUBSET AgentIds]]
  /\ late \in [ExecIds -> Nat]
  /\ toldDone \subseteq DOMAIN runs

\* "completed" is told of an execution only when as many steps as its budget
\* were counted and recorded, or are just about to be: threads that race for
\* the counter may take more steps than the budget, never fewer
\* (agentgpt_bridge.py, agent_step).
CompletedMeansDone ==
  \A e \in toldDone : runs[e].steps + Cardinality(Counted(e)) >= runs[e].max

\* After a pause, a stop or the completion at most one step of every other
\* thread still lands, whatever was asked before (the status is checked once,
\* at the start of agent_step).
LateStepsBounded == \A e \in ExecIds : late[e] < Cardinality(Threads)

==========================================================================
