------------------------------ MODULE Teams ------------------------------
(***************************************************************************)
(* The MetaGPT bridge (metagpt_bridge.py): roles, teams of members, and    *)
(* the requests that let every member of a team work on one phase, or on   *)
(* all phases of a procedure. Such a request walks the dict of members     *)
(* once for each phase; a member added under way ends it with an error     *)
(* (dictionary changed size during iteration). To create a team under an   *)
(* id in use puts a new, empty team there; requests under way go on with   *)
(* the one they found. What a member reports and how often it has worked   *)
(* is data.                                                                *)
(***************************************************************************)
EXTENDS BridgeThreads, Sequences

CONSTANTS TeamIds, TeamObjects, RoleIds,
          Procedures,   \* the sequences of phases a workflow may follow
          PhaseNames,
          WorkBound     \* bound on the requests that execute phases

ASSUME ProceduresAssumption == Procedures \subseteq Seq(PhaseNames)

VARIABLES roles,        \* roles that exist
          teamNamed,    \* teamNamed[i]: the object registered as team i
          teams,        \* teams[g]: the members, phase and status of object g
          teamCall,     \* teamCall[t]: how far the request of thread t is
          worked        \* requests that executed phases so far

teamVars == <<roles, teamNamed, teams, teamCall, worked>>

Team(t) == teamCall[t].team
Members(g) == teams[g].members
Grown(t) == Members(Team(t)) # teamCall[t].names

CreateRole(t, r) ==
  /\ At(teamCall, t, "idle")
  /\ roles' = roles \cup {r}
  /\ UNCHANGED <<teamNamed, teams, teamCall, worked>>

\* An id in use is taken over.
CreateTeam(t, i) ==
  /\ At(teamCall, t, "idle")
  /\ \E g \in TeamObjects \ DOMAIN teams :
       /\ teams' = Put(teams, g, [members |-> {}, phase |-> "none", status |-> "initialized"])
       /\ teamNamed' = Put(teamNamed, i, g)
  /\ UNCHANGED <<roles, teamCall, worked>>

AddMember(t, i, r) ==
  /\ At(teamCall, t, "idle")
  /\ i \in DOMAIN teamNamed /\ r \in roles
  /\ teams' = [teams EXCEPT ![teamNamed[i]].members = @ \cup {r}]
  /\ UNCHANGED <<roles, teamNamed, teamCall, worked>>

\* team_execute_phase (kind "phase") and team_workflow_run (kind "workflow").
\* served collects who worked on which phase, present who was a member when
\* the request arrived.
StartTeam(t, i, kind, phases) ==
  /\ At(teamCall, t, "idle")
  /\ i \in DOMAIN teamNamed /\ worked < WorkBound
  /\ worked' = worked + 1
  /\ teamCall' = [teamCall EXCEPT ![t] =
       [at |-> "phase", team |-> teamNamed[i], kind |-> kind, phases |-> phases, done |-> 0,
        present |-> Members(teamNamed[i]), served |-> {}, names |-> {}, left |-> {}]]
  /\ UNCHANGED <<roles, teamNamed, teams>>

\* Only a workflow announces the phase before its members work on it.
EnterPhase(t) ==
  /\ At(teamCall, t, "phase") /\ teamCall[t].done < Len(teamCall[t].phases)
  /\ teamCall' = [teamCall EXCEPT ![t].at = "walk", ![t].done = @ + 1,
                                  ![t].names = Members(Team(t)), ![t].left = Members(Team(t))]
  /\ teams' = IF teamCall[t].kind = "phase" THEN teams
              ELSE [teams EXCEPT ![Team(t)].phase = teamCall[t].phases[teamCall[t].done + 1]]
  /\ UNCHANGED <<roles, teamNamed, worked>>

MemberWorks(t) ==
  /\ At(teamCall, t, "walk") /\ ~Grown(t)
  /\ \E m \in teamCall[t].left :
       teamCall' = [teamCall EXCEPT ![t].left = @ \ {m},
                                    ![t].served = @ \cup {<<teamCall[t].done, m>>}]
  /\ UNCHANGED <<roles, teamNamed, teams, worked>>

WalkFails(t) ==
  /\ At(teamCall, t, "walk") /\ Grown(t)
  /\ teamCall' = [teamCall EXCEPT ![t] = Idle]
  /\ UNCHANGED <<roles, teamNamed, teams, worked>>

LeavePhase(t) == teamCall' = [teamCall EXCEPT ![t].at = "phase", ![t].names = {}, ![t].left = {}]

\* Mutant: the error of the walk ends the phase and not the request.
EndPhaseEarly(t) ==
  /\ At(teamCall, t, "walk") /\ (teamCall[t].left = {} \/ Grown(t))
  /\ LeavePhase(t)
  /\ UNCHANGED <<roles, teamNamed, teams, worked>>

EndPhase(t) ==
  /\ At(teamCall, t, "walk") /\ teamCall[t].left = {} /\ ~Grown(t)
  /\ LeavePhase(t)
  /\ UNCHANGED <<roles, teamNamed, teams, worked>>

AllPhasesDone(t) == At(teamCall, t, "phase") /\ teamCall[t].done = Len(teamCall[t].phases)

AnswerTeam(t) ==
  /\ AllPhasesDone(t)
  /\ teams' = IF teamCall[t].kind = "phase"
              THEN [teams EXCEPT ![Team(t)].phase = Head(teamCall[t].phases),
                                 ![Team(t)].status = "phase_complete"]
              ELSE [teams EXCEPT ![Team(t)].status = "workflow_complete"]
  /\ teamCall' = [teamCall EXCEPT ![t] = Idle]
  /\ UNCHANGED <<roles, teamNamed, worked>>

\* The embedding program closes the bridge once it serves no request.
CloseTeams ==
  /\ teamCall = AllIdle /\ roles # {}
  /\ roles' = {} /\ teamNamed' = << >> /\ teams' = << >>
  /\ UNCHANGED <<teamCall, worked>>

TeamInit ==
  /\ roles = {} /\ teamNamed = << >> /\ teams = << >>
  /\ teamCall = AllIdle /\ worked = 0

TeamNext ==
  \/ \E t \in Threads :
       \/ \E r \in RoleIds : CreateRole(t, r)
       \/ \E i \in TeamIds : CreateTeam(t, i)
       \/ \E i \in TeamIds, r \in RoleIds : AddMember(t, i, r)
       \/ \E i \in TeamIds, p \in PhaseNames : StartTeam(t, i, "phase", <<p>>)
       \/ \E i \in TeamIds, s \in Procedures : StartTeam(t, i, "workflow", s)
       \/ EnterPhase(t) \/ MemberWorks(t) \/ WalkFails(t) \/ EndPhase(t) \/ AnswerTeam(t)
  \/ CloseTeams

TeamSpec == TeamInit /\ [][TeamNext]_teamVars

---------------------------------------------------------------------------
TeamTypeOK ==
  /\ roles \subseteq RoleIds
  /\ DOMAIN teamNamed \subseteq TeamIds
  /\ \A i \in DOMAIN teamNamed : teamNamed[i] \in DOMAIN teams
  /\ DOMAIN teams \subseteq TeamObjects
  /\ \A g \in DOMAIN teams : Members(g) \subseteq roles
  /\ \A t \in Threads : teamCall[t] # Idle => Team(t) \in DOMAIN teams
  /\ worked \in Nat

\* "completed" is told of a team only when everybody who was a member when the
\* request arrived has worked on every one of its phases: members added under
\* way fail the request, they do not cut a phase short
\* (metagpt_bridge.py, team_execute_phase and team_workflow_run).
PhasesCoverTeam ==
  \A t \in Threads : AllPhasesDone(t) =>
    (1 .. Len(teamCall[t].phases)) \X teamCall[t].present \subseteq teamCall[t].served

==========================================================================
