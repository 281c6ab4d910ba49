------------------------------ MODULE Crews ------------------------------
(***************************************************************************)
(* The CrewAI bridge (crewai_bridge.py): a crew is put together from the   *)
(* agents and tasks registered while the request walks the names it was    *)
(* given, one look-up at a time. A task that is not registered is left     *)
(* out. For an agent that is not registered the code means to build a      *)
(* default one from its name alone, but an AgentConfig needs a goal too:   *)
(* the request raises and makes no crew. A crew keeps the objects it       *)
(* found: registering a name again makes a new object (the next version of *)
(* the name) that only later crews see. To                                 *)
(* kick a crew off is to work on the crew that was found: without the      *)
(* framework every task is told as completed and the history gets an       *)
(* event, with it the framework's result or error is told and it gets      *)
(* none. The tasks the bridge keeps stay pending either way.               *)
(***************************************************************************)
EXTENDS BridgeThreads, Sequences

CONSTANTS CrewAgents, CrewTasks, CrewIds,
          VersionBound,  \* bound on the objects registered under one name
          CrewBound      \* bound on the requests that put a crew together

ASSUME NamesAssumption == CrewAgents \cap CrewTasks = {}

VARIABLES version,   \* version[n]: objects registered as n so far; 0: none
          crews,     \* crews[c]: the agents and tasks of crew c, as a function of names
          crewCall,  \* crewCall[t]: how far the request of thread t is
          made,      \* crews put together so far
          framework, \* whether the crewai package could be imported
          kickoffs   \* the crews, as they were found, in the history

crewVars == <<version, crews, crewCall, made, framework, kickoffs>>

CrewNames == CrewAgents \cup CrewTasks

\* agent_create and task_create.
Register(t, n) ==
  /\ At(crewCall, t, "idle") /\ version[n] < VersionBound
  /\ version' = [version EXCEPT ![n] = @ + 1]
  /\ UNCHANGED <<crews, crewCall, made, framework, kickoffs>>

StartCrew(t, c, names) ==
  /\ At(crewCall, t, "idle") /\ made < CrewBound
  /\ made' = made + 1
  /\ crewCall' = [crewCall EXCEPT ![t] =
       [at |-> "pick", crew |-> c, left |-> names, asked |-> names,
        atFirst |-> version, found |-> << >>]]
  /\ UNCHANGED <<version, crews, framework, kickoffs>>

\* Agents come before tasks.
Pickable(call) ==
  IF call.left \cap CrewAgents # {} THEN call.left \cap CrewAgents ELSE call.left

\* Mutant: a name the crew had before is not looked up again.
PickCached(t) ==
  /\ At(crewCall, t, "pick")
  /\ \E n \in Pickable(crewCall[t]) :
       LET old == IF crewCall[t].crew \in DOMAIN crews THEN crews[crewCall[t].crew] ELSE << >>
       IN  /\ n \in CrewAgents => version[n] > 0
           /\ crewCall' = [crewCall EXCEPT ![t].left = @ \ {n},
             ![t].found = IF n \in DOMAIN old THEN Put(@, n, old[n])
                          ELSE IF version[n] > 0 THEN Put(@, n, version[n]) ELSE @]
  /\ UNCHANGED <<version, crews, made, framework, kickoffs>>

Pick(t) ==
  /\ At(crewCall, t, "pick")
  /\ \E n \in Pickable(crewCall[t]) :
       /\ n \in CrewAgents => version[n] > 0
       /\ crewCall' = [crewCall EXCEPT ![t].left = @ \ {n},
            ![t].found = IF version[n] > 0 THEN Put(@, n, version[n]) ELSE @]
  /\ UNCHANGED <<version, crews, made, framework, kickoffs>>

\* An agent is not registered, or the method of a crew with all its agents and
\* tasks is none of CrewMethod's: the request raises.
CrewFails(t) ==
  /\ At(crewCall, t, "pick")
  /\ \/ \E n \in Pickable(crewCall[t]) \cap CrewAgents : version[n] = 0
     \/ crewCall[t].left = {}
  /\ crewCall' = [crewCall EXCEPT ![t] = Idle]
  /\ UNCHANGED <<version, crews, made, framework, kickoffs>>

\* An id in use is taken over.
FinishCrew(t) ==
  /\ At(crewCall, t, "pick") /\ crewCall[t].left = {}
  /\ crews' = Put(crews, crewCall[t].crew, crewCall[t].found)
  /\ crewCall' = [crewCall EXCEPT ![t] = Idle]
  /\ UNCHANGED <<version, made, framework, kickoffs>>

StartKickoff(t, c) ==
  /\ At(crewCall, t, "idle") /\ c \in DOMAIN crews
  /\ crewCall' = [crewCall EXCEPT ![t] = [at |-> "kick", crew |-> c, found |-> crews[c]]]
  /\ UNCHANGED <<version, crews, made, framework, kickoffs>>

\* Nothing is carried out: the tasks are told as completed.
MockKickoff(t) ==
  /\ At(crewCall, t, "kick") /\ ~framework
  /\ kickoffs' = kickoffs \cup {crewCall[t].found}
  /\ crewCall' = [crewCall EXCEPT ![t] = Idle]
  /\ UNCHANGED <<version, crews, made, framework>>

FrameworkKickoff(t) ==
  /\ At(crewCall, t, "kick") /\ framework
  /\ crewCall' = [crewCall EXCEPT ![t] = Idle]
  /\ UNCHANGED <<version, crews, made, framework, kickoffs>>

\* The embedding program closes the bridge once it serves no request.
CloseCrews ==
  /\ crewCall = AllIdle /\ crews # << >>
  /\ version' = [n \in CrewNames |-> 0] /\ crews' = << >> /\ kickoffs' = {}
  /\ UNCHANGED <<crewCall, made, framework>>

CrewInit ==
  /\ version = [n \in CrewNames |-> 0] /\ crews = << >>
  /\ crewCall = AllIdle /\ made = 0
  /\ framework \in BOOLEAN /\ kickoffs = {}

CrewNext ==
  \/ \E t \in Threads :
       \/ \E n \in CrewNames : Register(t, n)
       \/ \E c \in CrewIds, names \in SUBSET CrewNames : StartCrew(t, c, names)
       \/ Pick(t) \/ CrewFails(t) \/ FinishCrew(t)
       \/ \E c \in CrewIds : StartKickoff(t, c)
       \/ MockKickoff(t) \/ FrameworkKickoff(t)
  \/ CloseCrews

CrewSpec == CrewInit /\ [][CrewNext]_crewVars

---------------------------------------------------------------------------
CrewTypeOK ==
  /\ version \in [CrewNames -> Nat]
  /\ DOMAIN crews \subseteq CrewIds
  /\ \A c \in DOMAIN crews : DOMAIN crews[c] \subseteq CrewNames
  /\ made \in Nat /\ framework \in BOOLEAN

\* A crew in the making has every agent it was asked for and got to, and every
\* task that was registered when the request came, each in a version that was
\* registered and is no older than the one at the start of the request, although
\* the names are looked up one by one while others register them anew
\* (crewai_bridge.py, crew_create).
CrewsAreFresh ==
  \A t \in Threads : At(crewCall, t, "pick") =>
    \A n \in crewCall[t].asked \ crewCall[t].left :
      n \in CrewAgents \/ crewCall[t].atFirst[n] > 0 =>
        /\ n \in DOMAIN crewCall[t].found /\ crewCall[t].found[n] > 0
        /\ crewCall[t].found[n] \in crewCall[t].atFirst[n] .. version[n]

==========================================================================
