-------------------------- MODULE Bridges_proofs --------------------------
(***************************************************************************)
(* What the bridges promise for any number of threads, teams, members,     *)
(* crews, names and procedures, each bridge alone and in the composition   *)
(* that the runs check.                                                    *)
(***************************************************************************)
EXTENDS Bridges, Integers, FiniteSetTheorems, TLAPS

---------------------------------------------------------------------------
(* MetaGPT: a team that is told to be done was at work on all of its       *)
(* phases. The dict of members is only added to while a request walks it,  *)
(* and the walk of a phase is known to be whole since it ends only with    *)
(* nobody left and nobody new.                                             *)

TeamCalls ==
  [at : {"phase", "walk"}, team : TeamObjects, kind : {"phase", "workflow"},
   phases : Seq(PhaseNames), done : Nat, present : SUBSET RoleIds,
   served : SUBSET (Nat \X RoleIds), names : SUBSET RoleIds, left : SUBSET RoleIds]

\* What request c owes for the phases before the one that is number n.
ServedBefore(c, n) == \A i \in 1 .. n, m \in c.present : <<i, m>> \in c.served

\* How far a request is: the phases behind it are served by all who were
\* present, the one it walks by all members but those that are left.
Progress(c) ==
  /\ c.present \subseteq Members(c.team)
  /\ c.kind = "phase" => Len(c.phases) = 1
  /\ c.at = "phase" => c.done <= Len(c.phases) /\ ServedBefore(c, c.done)
  /\ c.at = "walk" =>
       /\ c.done \in 1 .. Len(c.phases)
       /\ ServedBefore(c, c.done - 1)
       /\ c.present \subseteq c.names
       /\ \A m \in c.names \ c.left : <<c.done, m>> \in c.served

TeamsType ==
  /\ roles \subseteq RoleIds /\ worked \in Nat
  /\ DOMAIN teamNamed \subseteq TeamIds
  /\ \A i \in DOMAIN teamNamed : teamNamed[i] \in DOMAIN teams
  /\ DOMAIN teams \subseteq TeamObjects
  /\ teams = [g \in DOMAIN teams |-> teams[g]]
  /\ \A g \in DOMAIN teams :
       /\ teams[g] \in [members : SUBSET RoleIds,
                        phase : PhaseNames \cup {"none"},
                        status : {"initialized", "phase_complete", "workflow_complete"}]
       /\ Members(g) \subseteq roles

TeamCallsInv ==
  /\ teamCall = [t \in Threads |-> teamCall[t]]
  /\ \A t \in Threads : teamCall[t] # Idle =>
       /\ teamCall[t] \in TeamCalls
       /\ Team(t) \in DOMAIN teams
       /\ Progress(teamCall[t])

TeamInv == TeamsType /\ TeamCallsInv

---------------------------------------------------------------------------
LEMMA NotIdle == ASSUME NEW c \in TeamCalls PROVE c # Idle
BY DEF TeamCalls, Idle

\* The steps that only concern teams and roles.
LEMMA TeamInvInit == TeamInit => TeamInv
BY DEF TeamInit, TeamInv, TeamsType, TeamCallsInv, AllIdle

\* To add roles, teams or members takes nothing from a request under way.
LEMMA GrowingKeepsCalls ==
    ASSUME TeamCallsInv, UNCHANGED teamCall,
           DOMAIN teams \subseteq DOMAIN teams',
           \A g \in DOMAIN teams : Members(g) \subseteq Members(g)'
    PROVE  TeamCallsInv'
<1>1. ASSUME NEW t \in Threads, teamCall[t] # Idle
      PROVE  /\ Team(t)' \in DOMAIN teams'
             /\ Progress(teamCall[t])'
    <2>1. Team(t)' = Team(t) /\ Team(t) \in DOMAIN teams /\ Progress(teamCall[t])
        BY <1>1 DEF TeamCallsInv, Team
    <2>2. Members(Team(t)) \subseteq Members(Team(t))'
        BY <2>1
    <2> QED BY <2>1, <2>2 DEF Progress, ServedBefore, Team, Members
<1> QED BY <1>1 DEF TeamCallsInv, TeamCalls

\* A step of one request that adds to no team: its own call has to be looked at.
LEMMA OneCallMoves ==
    ASSUME TeamCallsInv, NEW t \in Threads, NEW c,
           teamCall' = [teamCall EXCEPT ![t] = c],
           c = Idle \/ (c \in TeamCalls /\ c.team \in DOMAIN teams /\ Progress(c)),
           DOMAIN teams' = DOMAIN teams,
           \A g \in DOMAIN teams : Members(g)' = Members(g)
    PROVE  TeamCallsInv'
<1>1. teamCall' = [s \in Threads |-> teamCall'[s]]
    BY DEF TeamCallsInv
<1>2. ASSUME NEW s \in Threads, teamCall'[s] # Idle
      PROVE  /\ teamCall'[s] \in TeamCalls
             /\ teamCall'[s].team \in DOMAIN teams
             /\ Progress(teamCall'[s])
    BY <1>2 DEF TeamCallsInv, Team
<1>3. ASSUME NEW d \in TeamCalls, d.team \in DOMAIN teams, Progress(d)
      PROVE  d.present \subseteq teams'[d.team].members
    BY <1>3 DEF Progress, Members
<1>4. ASSUME NEW s \in Threads, teamCall'[s] # Idle
      PROVE  Progress(teamCall[s])'
    BY <1>2, <1>3, <1>4 DEF Progress, ServedBefore, Members
<1> QED BY <1>1, <1>2, <1>4 DEF TeamCallsInv, Team, TeamCalls

\* A step that changes the phase and the status of one team.
LEMMA OneTeamMoves ==
    ASSUME TeamsType, NEW g \in DOMAIN teams, NEW w,
           w \in [members : {Members(g)}, phase : PhaseNames \cup {"none"},
                  status : {"initialized", "phase_complete", "workflow_complete"}],
           teams' = [teams EXCEPT ![g] = w], UNCHANGED <<roles, teamNamed, worked>>
    PROVE  /\ TeamsType'
           /\ DOMAIN teams' = DOMAIN teams
           /\ \A h \in DOMAIN teams : Members(h)' = Members(h)
<1>1. /\ DOMAIN teams' = DOMAIN teams
      /\ \A h \in DOMAIN teams : h # g => teams'[h] = teams[h]
      /\ teams'[g] = w
      /\ teams' = [h \in DOMAIN teams' |-> teams'[h]]
    BY DEF TeamsType
<1>2. \A h \in DOMAIN teams : Members(h)' = Members(h)
    BY <1>1 DEF Members
<1>3. /\ Members(g) \in SUBSET RoleIds /\ Members(g) \subseteq roles
    BY DEF TeamsType, Members
<1>4. w \in [members : SUBSET RoleIds, phase : PhaseNames \cup {"none"},
             status : {"initialized", "phase_complete", "workflow_complete"}]
    BY <1>3
<1> QED BY <1>1, <1>2, <1>4 DEF TeamsType

---------------------------------------------------------------------------
LEMMA TeamInvNext == TeamInv /\ [TeamNext]_teamVars => TeamInv'
<1> SUFFICES ASSUME TeamInv, [TeamNext]_teamVars PROVE TeamInv'
    OBVIOUS
<1> USE DEF At
<1>1. ASSUME NEW t \in Threads, NEW r \in RoleIds, CreateRole(t, r) PROVE TeamInv'
    BY <1>1, GrowingKeepsCalls DEF CreateRole, TeamInv, TeamsType, Members
<1>2. ASSUME NEW t \in Threads, NEW i \in TeamIds, CreateTeam(t, i) PROVE TeamInv'
    <2>0. PICK g \in TeamObjects \ DOMAIN teams :
             /\ teams' = Put(teams, g, [members |-> {}, phase |-> "none", status |-> "initialized"])
             /\ teamNamed' = Put(teamNamed, i, g)
        BY <1>2 DEF CreateTeam
    <2>1. /\ DOMAIN teams' = DOMAIN teams \cup {g}
          /\ \A h \in DOMAIN teams : teams'[h] = teams[h]
          /\ teams'[g] = [members |-> {}, phase |-> "none", status |-> "initialized"]
          /\ teams' = [h \in DOMAIN teams' |-> teams'[h]]
        BY <2>0 DEF Put
    <2>2. TeamCallsInv'
        BY <1>2, <2>1, GrowingKeepsCalls DEF CreateTeam, TeamInv, Members
    <2>3. /\ DOMAIN teamNamed' \subseteq TeamIds
          /\ \A k \in DOMAIN teamNamed' : teamNamed'[k] \in DOMAIN teams'
        BY <2>0, <2>1 DEF TeamInv, TeamsType, Put
    <2> QED BY <1>2, <2>1, <2>2, <2>3 DEF CreateTeam, TeamInv, TeamsType, Members
<1>3. ASSUME NEW t \in Threads, NEW i \in TeamIds, NEW r \in RoleIds, AddMember(t, i, r)
      PROVE  TeamInv'
    <2>0. PICK g \in DOMAIN teams : i \in DOMAIN teamNamed /\ g = teamNamed[i]
        BY <1>3 DEF AddMember, TeamInv, TeamsType
    <2>1. /\ DOMAIN teams' = DOMAIN teams /\ g \in DOMAIN teams
          /\ \A h \in DOMAIN teams : h # g => teams'[h] = teams[h]
          /\ teams'[g] = [teams[g] EXCEPT !.members = @ \cup {r}]
          /\ teams' = [h \in DOMAIN teams' |-> teams'[h]]
        BY <1>3, <2>0 DEF AddMember, TeamInv, TeamsType
    <2>2. /\ Members(g)' = Members(g) \cup {r}
          /\ teams'[g].phase = teams[g].phase /\ teams'[g].status = teams[g].status
        BY <2>1 DEF TeamInv, TeamsType, Members
    <2>3. TeamCallsInv'
        BY <1>3, <2>1, <2>2, GrowingKeepsCalls DEF AddMember, TeamInv, Members
    <2>4. TeamsType'
        BY <1>3, <2>1, <2>2 DEF AddMember, TeamInv, TeamsType, Members
    <2> QED BY <2>3, <2>4 DEF TeamInv
<1>4. ASSUME NEW t \in Threads, NEW i \in TeamIds, NEW kind \in {"phase", "workflow"},
             NEW s \in Seq(PhaseNames), kind = "phase" => Len(s) = 1, StartTeam(t, i, kind, s)
      PROVE  TeamInv'
    <2>0. PICK g \in DOMAIN teams : i \in DOMAIN teamNamed /\ g = teamNamed[i]
        BY <1>4 DEF StartTeam, TeamInv, TeamsType
    <2> DEFINE c == [at |-> "phase", team |-> g, kind |-> kind, phases |-> s, done |-> 0,
                     present |-> Members(g), served |-> {}, names |-> {}, left |-> {}]
    <2>1. c \in TeamCalls /\ c.team \in DOMAIN teams /\ Progress(c)
        BY <1>4, <2>0 DEF StartTeam, TeamInv, TeamsType, TeamCalls, Progress, ServedBefore, Members
    <2>2. teamCall' = [teamCall EXCEPT ![t] = c]
        BY <1>4, <2>0 DEF StartTeam
    <2> HIDE DEF c
    <2>3. TeamCallsInv'
        BY <1>4, <2>1, <2>2, OneCallMoves DEF StartTeam, TeamInv, Members
    <2> QED BY <1>4, <2>3 DEF StartTeam, TeamInv, TeamsType, Members
<1>5. ASSUME NEW t \in Threads, EnterPhase(t) PROVE TeamInv'
    <2> DEFINE c == [teamCall[t] EXCEPT !.at = "walk", !.done = @ + 1,
                                        !.names = Members(Team(t)), !.left = Members(Team(t))]
    <2>0. teamCall[t] \in TeamCalls /\ Team(t) \in DOMAIN teams /\ Progress(teamCall[t])
        BY <1>5 DEF EnterPhase, TeamInv, TeamCallsInv, Idle
    <2>a. /\ Members(Team(t)) \in SUBSET RoleIds
          /\ teamCall[t].done + 1 \in Nat
        BY <2>0 DEF TeamInv, TeamsType, Members, TeamCalls
    <2>1. c \in TeamCalls /\ c.team = Team(t)
        BY <2>0, <2>a DEF TeamCalls, Team
    <2>2. Progress(c)
        BY <1>5, <2>0 DEF EnterPhase, TeamCalls, Progress, ServedBefore, Team
    <2>3. teamCall' = [teamCall EXCEPT ![t] = c]
        BY <1>5, <2>0 DEF EnterPhase, TeamInv, TeamCallsInv, TeamCalls
    <2> HIDE DEF c
    <2>4. teamCall[t].phases[teamCall[t].done + 1] \in PhaseNames
        BY <1>5, <2>0 DEF EnterPhase, TeamCalls
    <2> DEFINE w == IF teamCall[t].kind = "phase" THEN teams[Team(t)]
                    ELSE [teams[Team(t)] EXCEPT !.phase = teamCall[t].phases[teamCall[t].done + 1]]
    <2>6. /\ w \in [members : {Members(Team(t))}, phase : PhaseNames \cup {"none"},
                     status : {"initialized", "phase_complete", "workflow_complete"}]
          /\ teams' = [teams EXCEPT ![Team(t)] = w]
          /\ UNCHANGED <<roles, teamNamed, worked>>
        BY <1>5, <2>0, <2>4 DEF EnterPhase, TeamInv, TeamsType, Members
    <2> HIDE DEF w
    <2>5. /\ TeamsType'
          /\ DOMAIN teams' = DOMAIN teams
          /\ \A g \in DOMAIN teams : Members(g)' = Members(g)
        BY <2>0, <2>6, OneTeamMoves DEF TeamInv
    <2> QED BY <2>0, <2>1, <2>2, <2>3, <2>5, OneCallMoves DEF TeamInv
<1>6. ASSUME NEW t \in Threads, MemberWorks(t) PROVE TeamInv'
    <2>0. teamCall[t] \in TeamCalls /\ Team(t) \in DOMAIN teams /\ Progress(teamCall[t])
        BY <1>6 DEF MemberWorks, TeamInv, TeamCallsInv, Idle
    <2>1. PICK m \in teamCall[t].left :
             teamCall' = [teamCall EXCEPT ![t].left = @ \ {m},
                                          ![t].served = @ \cup {<<teamCall[t].done, m>>}]
        BY <1>6 DEF MemberWorks
    <2> DEFINE c == [teamCall[t] EXCEPT !.left = @ \ {m},
                                        !.served = @ \cup {<<teamCall[t].done, m>>}]
    <2>a. m \in RoleIds /\ teamCall[t].done \in Nat
        BY <2>0 DEF TeamCalls
    <2>b. teamCall[t].served \cup {<<teamCall[t].done, m>>} \in SUBSET (Nat \X RoleIds)
        BY <2>0, <2>a DEF TeamCalls
    <2>c. teamCall[t].left \ {m} \in SUBSET RoleIds
        BY <2>0 DEF TeamCalls
    <2>2. c \in TeamCalls /\ c.team = Team(t)
        BY <2>0, <2>b, <2>c DEF TeamCalls, Team
    <2>3. Progress(c)
        BY <1>6, <2>0 DEF MemberWorks, TeamCalls, Progress, ServedBefore, Team
    <2>4. teamCall' = [teamCall EXCEPT ![t] = c]
        BY <2>0, <2>1 DEF TeamInv, TeamCallsInv, TeamCalls
    <2> HIDE DEF c
    <2>5. TeamCallsInv'
        BY <1>6, <2>0, <2>2, <2>3, <2>4, OneCallMoves DEF MemberWorks, TeamInv, Members
    <2> QED BY <1>6, <2>5 DEF MemberWorks, TeamInv, TeamsType, Members
<1>7. ASSUME NEW t \in Threads, WalkFails(t) PROVE TeamInv'
    <2>1. TeamCallsInv'
        BY <1>7, OneCallMoves DEF WalkFails, TeamInv, Members
    <2> QED BY <1>7, <2>1 DEF WalkFails, TeamInv, TeamsType, Members
<1>8. ASSUME NEW t \in Threads, EndPhase(t) PROVE TeamInv'
    <2> DEFINE c == [teamCall[t] EXCEPT !.at = "phase", !.names = {}, !.left = {}]
    <2>0. teamCall[t] \in TeamCalls /\ Team(t) \in DOMAIN teams /\ Progress(teamCall[t])
        BY <1>8 DEF EndPhase, TeamInv, TeamCallsInv, Idle
    <2>1. c \in TeamCalls /\ c.team = Team(t)
        BY <2>0 DEF TeamCalls, Team
    <2>2. ASSUME NEW i \in 1 .. teamCall[t].done, NEW m \in teamCall[t].present
          PROVE  <<i, m>> \in teamCall[t].served
        <3>1. CASE i = teamCall[t].done
            BY <1>8, <2>0, <3>1 DEF EndPhase, Progress
        <3>2. CASE i # teamCall[t].done
            <4>1. i \in 1 .. teamCall[t].done - 1
                BY <2>0, <3>2 DEF TeamCalls
            <4> QED BY <1>8, <2>0, <4>1 DEF EndPhase, Progress, ServedBefore
        <3> QED BY <3>1, <3>2
    <2>3. Progress(c)
        BY <1>8, <2>0, <2>2 DEF EndPhase, TeamCalls, Progress, ServedBefore, Team
    <2>4. teamCall' = [teamCall EXCEPT ![t] = c]
        BY <1>8, <2>0 DEF EndPhase, LeavePhase, TeamInv, TeamCallsInv, TeamCalls
    <2> HIDE DEF c
    <2>5. TeamCallsInv'
        BY <1>8, <2>0, <2>1, <2>3, <2>4, OneCallMoves DEF EndPhase, TeamInv, Members
    <2> QED BY <1>8, <2>5 DEF EndPhase, TeamInv, TeamsType, Members
<1>9. ASSUME NEW t \in Threads, AnswerTeam(t) PROVE TeamInv'
    <2>0. teamCall[t] \in TeamCalls /\ Team(t) \in DOMAIN teams /\ Progress(teamCall[t])
        BY <1>9 DEF AnswerTeam, AllPhasesDone, TeamInv, TeamCallsInv, Idle
    <2> DEFINE w == IF teamCall[t].kind = "phase"
                    THEN [teams[Team(t)] EXCEPT !.phase = Head(teamCall[t].phases),
                                                !.status = "phase_complete"]
                    ELSE [teams[Team(t)] EXCEPT !.status = "workflow_complete"]
    <2>3. teamCall[t].kind = "phase" => Head(teamCall[t].phases) \in PhaseNames
        BY <1>9, <2>0 DEF AnswerTeam, AllPhasesDone, Progress, TeamCalls
    <2>4. /\ w \in [members : {Members(Team(t))}, phase : PhaseNames \cup {"none"},
                     status : {"initialized", "phase_complete", "workflow_complete"}]
          /\ teams' = [teams EXCEPT ![Team(t)] = w]
          /\ UNCHANGED <<roles, teamNamed, worked>>
        BY <1>9, <2>0, <2>3 DEF AnswerTeam, TeamInv, TeamsType, Members
    <2> HIDE DEF w
    <2>2. /\ TeamsType'
          /\ DOMAIN teams' = DOMAIN teams
          /\ \A g \in DOMAIN teams : Members(g)' = Members(g)
        BY <2>0, <2>4, OneTeamMoves DEF TeamInv
    <2> QED BY <1>9, <2>2, OneCallMoves DEF AnswerTeam, TeamInv
<1>10. CASE CloseTeams
    BY <1>10 DEF CloseTeams, TeamInv, TeamsType, TeamCallsInv, AllIdle
<1>11. CASE UNCHANGED teamVars
    BY <1>11 DEF teamVars, TeamInv, TeamsType, TeamCallsInv, Team, Members, Progress, ServedBefore
<1>12. \A p \in PhaseNames : <<p>> \in Seq(PhaseNames) /\ Len(<<p>>) = 1
    OBVIOUS
<1> QED
    BY <1>1, <1>2, <1>3, <1>4, <1>5, <1>6, <1>7, <1>8, <1>9, <1>10, <1>11, <1>12,
       ProceduresAssumption DEF TeamNext

\* A team that is told to be done has been at work on all its phases, whoever
\* was a member when the request arrived (metagpt_bridge.py).
THEOREM TeamsAreCovered == TeamSpec => []PhasesCoverTeam
<1>1. TeamInv => PhasesCoverTeam
  <2> SUFFICES ASSUME TeamInv, NEW t \in Threads, AllPhasesDone(t)
               PROVE  (1 .. Len(teamCall[t].phases)) \X teamCall[t].present
                        \subseteq teamCall[t].served
      BY DEF PhasesCoverTeam
  <2> QED BY DEF TeamInv, TeamCallsInv, AllPhasesDone, At, Idle, Progress, ServedBefore
<1> QED BY <1>1, TeamInvInit, TeamInvNext, PTL DEF TeamSpec

---------------------------------------------------------------------------
(* CrewAI: a crew is not older than its request. Names are only registered *)
(* anew, never taken back, while a request walks them, so that what was    *)
(* registered when it arrived is still found.                              *)

\* What a crew may have found: a version for some of the names.
Founds == UNION {[S -> Nat] : S \in SUBSET CrewNames}

Picks ==
  [at : {"pick"}, crew : CrewIds, left : SUBSET CrewNames, asked : SUBSET CrewNames,
   atFirst : [CrewNames -> Nat], found : Founds]

Kicks == [at : {"kick"}, crew : CrewIds, found : Founds]

\* What is not left to look up was found as it was at first, or newer.
Fresh(c) ==
  /\ \A n \in CrewNames : c.atFirst[n] <= version[n]
  /\ \A n \in c.asked \ c.left :
       n \in CrewAgents \/ c.atFirst[n] > 0 =>
         /\ n \in DOMAIN c.found /\ c.found[n] > 0
         /\ c.found[n] \in c.atFirst[n] .. version[n]

CallOK(c) ==
  \/ c = Idle
  \/ c \in Picks /\ Fresh(c)
  \/ c \in Kicks

CrewInv ==
  /\ version \in [CrewNames -> Nat]
  /\ crews = [c \in DOMAIN crews |-> crews[c]]
  /\ DOMAIN crews \subseteq CrewIds
  /\ \A c \in DOMAIN crews : crews[c] \in Founds
  /\ made \in Nat /\ framework \in BOOLEAN
  /\ crewCall = [t \in Threads |-> crewCall[t]]
  /\ \A t \in Threads : CallOK(crewCall[t])

---------------------------------------------------------------------------
LEMMA FoundsPut ==
    ASSUME NEW f \in Founds, NEW n \in CrewNames, NEW v \in Nat
    PROVE  Put(f, n, v) \in Founds
<1>1. PICK S \in SUBSET CrewNames : f \in [S -> Nat]
    BY DEF Founds
<1>2. S \cup {n} \in SUBSET CrewNames /\ Put(f, n, v) \in [S \cup {n} -> Nat]
    BY <1>1 DEF Put
<1> QED BY <1>2 DEF Founds

LEMMA NothingFound == << >> \in Founds
<1>1. << >> \in [{} -> Nat]
    OBVIOUS
<1> QED BY <1>1 DEF Founds

LEMMA CrewInvInit == CrewInit => CrewInv
BY DEF CrewInit, CrewInv, CallOK, AllIdle

\* A step of one request that registers nothing.
LEMMA OneCrewCallMoves ==
    ASSUME CrewInv, NEW t \in Threads, NEW c, CallOK(c),
           crewCall' = [crewCall EXCEPT ![t] = c], UNCHANGED version
    PROVE  /\ crewCall' = [s \in Threads |-> crewCall'[s]]
           /\ \A s \in Threads : CallOK(crewCall[s])'
<1>1. \A s \in Threads : CallOK(crewCall'[s])
    BY DEF CrewInv
<1>2. \A s \in Threads : CallOK(crewCall[s])'
    BY <1>1 DEF CallOK, Fresh
<1> QED BY <1>2 DEF CrewInv

LEMMA CrewInvNext == CrewInv /\ [CrewNext]_crewVars => CrewInv'
<1> SUFFICES ASSUME CrewInv, [CrewNext]_crewVars PROVE CrewInv'
    OBVIOUS
<1> USE DEF At
<1>1. ASSUME NEW t \in Threads, NEW n \in CrewNames, Register(t, n) PROVE CrewInv'
    <2>1. /\ version' \in [CrewNames -> Nat]
          /\ \A m \in CrewNames : version[m] <= version'[m]
        BY <1>1 DEF Register, CrewInv
    <2>2. ASSUME NEW c \in Picks, Fresh(c)
          PROVE  Fresh(c)'
        BY <2>1, <2>2 DEF Fresh, Picks, Founds, CrewInv
    <2>3. \A s \in Threads : CallOK(crewCall[s])'
        <3> TAKE s \in Threads
        <3>1. crewCall'[s] = crewCall[s] /\ CallOK(crewCall[s])
            BY <1>1 DEF Register, CrewInv
        <3> QED BY <3>1, <2>2 DEF CallOK, Fresh
    <2> QED BY <1>1, <2>1, <2>3 DEF Register, CrewInv
<1>2. ASSUME NEW t \in Threads, NEW c \in CrewIds, NEW names \in SUBSET CrewNames,
             StartCrew(t, c, names)
      PROVE  CrewInv'
    <2> DEFINE d == [at |-> "pick", crew |-> c, left |-> names, asked |-> names,
                     atFirst |-> version, found |-> << >>]
    <2>1. d \in Picks /\ Fresh(d)
        BY NothingFound DEF Picks, Fresh, CrewInv
    <2>2. crewCall' = [crewCall EXCEPT ![t] = d] /\ UNCHANGED version
        BY <1>2 DEF StartCrew
    <2> HIDE DEF d
    <2>3. /\ crewCall' = [s \in Threads |-> crewCall'[s]]
          /\ \A s \in Threads : CallOK(crewCall[s])'
        BY <2>1, <2>2, OneCrewCallMoves DEF CallOK
    <2> QED BY <1>2, <2>3 DEF StartCrew, CrewInv
<1>3. ASSUME NEW t \in Threads, Pick(t) PROVE CrewInv'
    <2>1. crewCall[t] \in Picks /\ Fresh(crewCall[t])
        BY <1>3 DEF Pick, CrewInv, CallOK, Idle, Kicks
    <2>2. PICK n \in Pickable(crewCall[t]) :
            /\ n \in CrewAgents => version[n] > 0
            /\ crewCall' = [crewCall EXCEPT ![t].left = @ \ {n},
                 ![t].found = IF version[n] > 0 THEN Put(@, n, version[n]) ELSE @]
        BY <1>3 DEF Pick
    <2>3. n \in CrewNames /\ version[n] \in Nat
        BY <2>1 DEF Pickable, Picks, CrewInv
    <2> DEFINE found == IF version[n] > 0 THEN Put(crewCall[t].found, n, version[n])
                        ELSE crewCall[t].found
               left == crewCall[t].left \ {n}
               d == [crewCall[t] EXCEPT !.left = left, !.found = found]
    <2>4. left \in SUBSET CrewNames /\ found \in Founds
        BY <2>1, <2>3, FoundsPut DEF Picks
    <2>5. d \in Picks
        BY <2>1, <2>4 DEF Picks
    <2>6. /\ d.asked = crewCall[t].asked /\ d.atFirst = crewCall[t].atFirst
          /\ d.left = left /\ d.found = found
        BY <2>1 DEF Picks
    <2>7. Fresh(d)
        <3> SUFFICES ASSUME NEW m \in crewCall[t].asked \ left,
                            m \in CrewAgents \/ crewCall[t].atFirst[m] > 0
                     PROVE  /\ m \in DOMAIN found /\ found[m] > 0
                            /\ found[m] \in crewCall[t].atFirst[m] .. version[m]
            BY <2>1, <2>6 DEF Fresh
        <3>0. m \in CrewNames /\ crewCall[t].atFirst[m] \in Nat /\ version[m] \in Nat
              /\ crewCall[t].atFirst[m] <= version[m]
            BY <2>1 DEF Picks, Fresh, CrewInv
        <3>1. CASE m = n
            BY <2>2, <3>0, <3>1 DEF Put
        <3>2. CASE m # n
            <4>1. /\ m \in DOMAIN crewCall[t].found /\ crewCall[t].found[m] > 0
                  /\ crewCall[t].found[m] \in crewCall[t].atFirst[m] .. version[m]
                BY <2>1, <3>2 DEF Fresh
            <4> QED BY <4>1, <3>2 DEF Put
        <3> QED BY <3>1, <3>2
    <2>8. crewCall' = [crewCall EXCEPT ![t] = d]
        BY <2>1, <2>2 DEF Picks, CrewInv
    <2> HIDE DEF d
    <2>9. /\ crewCall' = [s \in Threads |-> crewCall'[s]]
          /\ \A s \in Threads : CallOK(crewCall[s])'
        BY <1>3, <2>5, <2>7, <2>8, OneCrewCallMoves DEF Pick, CallOK
    <2> QED BY <1>3, <2>9 DEF Pick, CrewInv
<1>4. ASSUME NEW t \in Threads, FinishCrew(t) PROVE CrewInv'
    <2>1. crewCall[t] \in Picks
        BY <1>4 DEF FinishCrew, CrewInv, CallOK, Idle, Kicks
    <2>2. /\ crewCall' = [s \in Threads |-> crewCall'[s]]
          /\ \A s \in Threads : CallOK(crewCall[s])'
        BY <1>4, OneCrewCallMoves DEF FinishCrew, CallOK
    <2>3. crewCall[t].found \in Founds /\ crewCall[t].crew \in CrewIds
        BY <2>1 DEF Picks
    <2> QED BY <1>4, <2>2, <2>3 DEF FinishCrew, CrewInv, Put
<1>5. ASSUME NEW t \in Threads, NEW c \in CrewIds, StartKickoff(t, c) PROVE CrewInv'
    <2> DEFINE d == [at |-> "kick", crew |-> c, found |-> crews[c]]
    <2>1. d \in Kicks
        BY <1>5 DEF StartKickoff, Kicks, CrewInv
    <2>2. crewCall' = [crewCall EXCEPT ![t] = d] /\ UNCHANGED version
        BY <1>5 DEF StartKickoff
    <2> HIDE DEF d
    <2>3. /\ crewCall' = [s \in Threads |-> crewCall'[s]]
          /\ \A s \in Threads : CallOK(crewCall[s])'
        BY <2>1, <2>2, OneCrewCallMoves DEF CallOK
    <2> QED BY <1>5, <2>3 DEF StartKickoff, CrewInv
<1>6. ASSUME NEW t \in Threads, CrewFails(t) \/ MockKickoff(t) \/ FrameworkKickoff(t)
      PROVE  CrewInv'
    <2>1. /\ crewCall' = [s \in Threads |-> crewCall'[s]]
          /\ \A s \in Threads : CallOK(crewCall[s])'
        BY <1>6, OneCrewCallMoves DEF CrewFails, MockKickoff, FrameworkKickoff, CallOK
    <2> QED BY <1>6, <2>1 DEF CrewFails, MockKickoff, FrameworkKickoff, CrewInv
<1>7. CASE CloseCrews
    <2>1. \A t \in Threads : crewCall'[t] = Idle
        BY <1>7 DEF CloseCrews, AllIdle
    <2> QED BY <1>7, <2>1 DEF CloseCrews, CrewInv, CallOK
<1>8. CASE UNCHANGED crewVars
    BY <1>8 DEF crewVars, CrewInv, CallOK, Fresh
<1> QED BY <1>1, <1>2, <1>3, <1>4, <1>5, <1>6, <1>7, <1>8 DEF CrewNext

\* A crew is made with every agent it was asked for and every task registered
\* before, none of them in an older version (crewai_bridge.py, crew_create).
THEOREM CrewsStayFresh == CrewSpec => []CrewsAreFresh
<1>1. CrewInv => CrewsAreFresh
    BY DEF CrewInv, CrewsAreFresh, CallOK, At, Idle, Kicks, Fresh
<1> QED BY <1>1, CrewInvInit, CrewInvNext, PTL DEF CrewSpec

---------------------------------------------------------------------------
(* AgentGPT: the counter of an execution may be set back by racing steps,  *)
(* but it never runs ahead of the steps that were counted, and of a paused *)
(* execution the steps that landed late and those that may still land are  *)
(* together fewer than the threads.                                        *)

Done(e) == runs[e].steps + Cardinality(Counted(e))

ExecCalls ==
  {Idle} \cup StepCall({"checked", "counted", "recorded", "last"})
         \cup [at : {"read"}, run : DOMAIN runs, step : Nat]
         \cup [at : {"created"}, agent : AgentIds]
         \cup [at : {"insert", "append"}, agent : AgentIds, task : TaskIds]
         \cup [at : {"walk"}, task : TaskIds, keys : SUBSET AgentIds, left : SUBSET AgentIds]

\* The counter, what a step has read of it, and whoever was or is about to be
\* told "completed".
DoneInv ==
  /\ \A e \in DOMAIN runs : runs[e].step <= Done(e)
  /\ \A t \in Threads, e \in DOMAIN runs :
       At(execCall, t, "read") /\ Run(t) = e => execCall[t].step <= Done(e)
  /\ \A t \in Threads, e \in DOMAIN runs :
       At(execCall, t, "last") /\ Run(t) = e => runs[e].max <= Done(e)
  /\ \A e \in toldDone : runs[e].max <= Done(e)

Halted(e) == e \in DOMAIN runs /\ runs[e].status # "running"

LateInv ==
  \A e \in ExecIds :
    IF Halted(e) THEN late[e] + Cardinality(Stepping(e)) < Cardinality(Threads)
    ELSE late[e] = 0

ExecInv == ExecTypeOK /\ DoneInv /\ LateInv

LEMMA StepsAreFinite ==
    ASSUME NEW e
    PROVE  /\ IsFiniteSet(Counted(e)) /\ Cardinality(Counted(e)) \in Nat
           /\ IsFiniteSet(Stepping(e)) /\ Cardinality(Stepping(e)) \in Nat
<1>1. Counted(e) \subseteq Threads /\ Stepping(e) \subseteq Threads
    BY DEF Counted, Stepping
<1> QED BY <1>1, ThreadsAssumption, FS_Subset, FS_CardinalityType

LEMMA RunTypes ==
    ASSUME ExecTypeOK, NEW e \in DOMAIN runs
    PROVE  /\ runs[e].steps \in Nat /\ runs[e].step \in Nat /\ runs[e].max \in Nat
           /\ Done(e) \in Nat
<1>1. runs[e].steps \in Nat /\ runs[e].step \in Nat /\ runs[e].max \in Nat
    BY BudgetsAssumption DEF ExecTypeOK
<1> QED BY <1>1, StepsAreFinite DEF Done

\* Who counts and who steps when the request of one thread moves.
LEMMA ExecCallMoves ==
    ASSUME ExecTypeOK, NEW t \in Threads, NEW c, NEW e,
           execCall' = [execCall EXCEPT ![t] = c]
    PROVE  /\ Counted(e)' = IF c.at = "counted" /\ c.run = e THEN Counted(e) \cup {t}
                            ELSE Counted(e) \ {t}
           /\ Stepping(e)' = IF c.at \in {"checked", "read", "counted"} /\ c.run = e
                             THEN Stepping(e) \cup {t} ELSE Stepping(e) \ {t}
<1>1. /\ execCall'[t] = c
      /\ \A u \in Threads : u # t => execCall'[u] = execCall[u]
    BY DEF ExecTypeOK
<1>2. \A u \in Threads : u \in Counted(e) <=> execCall[u].at = "counted" /\ execCall[u].run = e
    BY DEF Counted, At, Run
<1>3. \A u \in Threads :
        u \in Counted(e)' <=> execCall'[u].at = "counted" /\ execCall'[u].run = e
    BY DEF Counted, At, Run
<1>4. \A u \in Threads : u \in Stepping(e) <=>
        execCall[u].at \in {"checked", "read", "counted"} /\ execCall[u].run = e
    BY DEF Stepping, Run
<1>5. \A u \in Threads : u \in Stepping(e)' <=>
        execCall'[u].at \in {"checked", "read", "counted"} /\ execCall'[u].run = e
    BY DEF Stepping, Run
<1>6. /\ Counted(e) \subseteq Threads /\ Counted(e)' \subseteq Threads
      /\ Stepping(e) \subseteq Threads /\ Stepping(e)' \subseteq Threads
    BY DEF Counted, Stepping
<1>7. Counted(e)' = IF c.at = "counted" /\ c.run = e THEN Counted(e) \cup {t}
                    ELSE Counted(e) \ {t}
    BY <1>1, <1>2, <1>3, <1>6
<1>8. Stepping(e)' = IF c.at \in {"checked", "read", "counted"} /\ c.run = e
                     THEN Stepping(e) \cup {t} ELSE Stepping(e) \ {t}
    BY <1>1, <1>4, <1>5, <1>6
<1> QED BY <1>7, <1>8

LEMMA CountedStays ==
    ASSUME ExecTypeOK, NEW t \in Threads, NEW c, NEW e,
           execCall' = [execCall EXCEPT ![t] = c], ~At(execCall, t, "counted"), c.at # "counted"
    PROVE  Counted(e)' = Counted(e)
<1>1. Counted(e) \ {t} = Counted(e)
    BY DEF Counted
<1>2. Counted(e)' = Counted(e) \ {t}
    BY ExecCallMoves
<1> QED BY <1>1, <1>2

---------------------------------------------------------------------------
LEMMA ExecInvInit == ExecInit => ExecInv
<1> SUFFICES ASSUME ExecInit PROVE ExecInv
    OBVIOUS
<1>1. ExecTypeOK
    BY DEF ExecInit, ExecTypeOK, AllIdle
<1>2. DoneInv
    BY DEF ExecInit, DoneInv, AllIdle, Idle, At
<1>3. LateInv
    BY DEF ExecInit, LateInv, Halted
<1> QED BY <1>1, <1>2, <1>3 DEF ExecInv

\* The calls keep their types when the executions change.
CallsStayTyped ==
  execCall' \in [Threads ->
    {Idle} \cup StepCall({"checked", "counted", "recorded", "last"})'
           \cup [at : {"read"}, run : DOMAIN runs', step : Nat]
           \cup [at : {"created"}, agent : AgentIds]
           \cup [at : {"insert", "append"}, agent : AgentIds, task : TaskIds]
           \cup [at : {"walk"}, task : TaskIds, keys : SUBSET AgentIds, left : SUBSET AgentIds]]

LEMMA ExecTypesMove ==
    ASSUME ExecTypeOK, NEW t \in Threads, NEW c \in ExecCalls,
           execCall' = [execCall EXCEPT ![t] = c],
           DOMAIN runs \subseteq DOMAIN runs'
    PROVE  CallsStayTyped
<1> DEFINE Calls(R) ==
      {Idle} \cup [at : {"checked", "counted", "recorded", "last"}, run : R]
             \cup [at : {"read"}, run : R, step : Nat]
             \cup [at : {"created"}, agent : AgentIds]
             \cup [at : {"insert", "append"}, agent : AgentIds, task : TaskIds]
             \cup [at : {"walk"}, task : TaskIds, keys : SUBSET AgentIds,
                   left : SUBSET AgentIds]
<1>1. c \in Calls(DOMAIN runs) /\ execCall \in [Threads -> Calls(DOMAIN runs)]
    BY DEF ExecTypeOK, ExecCalls, StepCall
<1>2. Calls(DOMAIN runs) \subseteq Calls(DOMAIN runs')
    OBVIOUS
<1> HIDE DEF Calls
<1>3. execCall' \in [Threads -> Calls(DOMAIN runs')]
    BY <1>1, <1>2
<1> QED BY <1>3 DEF Calls, StepCall, CallsStayTyped

\* A step of one request that leaves the executions as they are.
LEMMA ExecCalm ==
    ASSUME ExecInv, NEW t \in Threads, NEW c \in ExecCalls,
           execCall' = [execCall EXCEPT ![t] = c],
           execCall[t].at \notin {"checked", "read", "counted"},
           c.at \notin {"checked", "read", "counted"},
           c.at = "last" => runs[c.run].max <= Done(c.run),
           UNCHANGED <<runs, late, toldDone>>,
           DOMAIN agents' \subseteq AgentIds, \A a \in DOMAIN agents' : agents'[a] \in Budgets,
           DOMAIN todo' \subseteq AgentIds
    PROVE  ExecInv'
<1>0. ExecTypeOK /\ DoneInv /\ LateInv
    BY DEF ExecInv
<1>1. ExecTypeOK'
    BY <1>0, ExecTypesMove DEF ExecTypeOK, CallsStayTyped
<1>2. \A e : Counted(e)' = Counted(e) /\ Stepping(e)' = Stepping(e)
    <2> SUFFICES ASSUME NEW e PROVE Counted(e)' = Counted(e) /\ Stepping(e)' = Stepping(e)
        OBVIOUS
    <2>1. Stepping(e)' = Stepping(e) \ {t}
        BY <1>0, ExecCallMoves
    <2>2. Stepping(e) \ {t} = Stepping(e)
        BY DEF Stepping
    <2>3. Counted(e)' = Counted(e)
        BY <1>0, CountedStays DEF At
    <2> QED BY <2>1, <2>2, <2>3
<1>3. \A e : Done(e)' = Done(e)
    BY <1>2 DEF Done
<1>4. /\ execCall'[t] = c
      /\ \A u \in Threads : u # t => execCall'[u] = execCall[u]
    BY <1>0 DEF ExecTypeOK
<1>5. DoneInv'
    <2>1. \A e \in DOMAIN runs' : runs'[e].step <= Done(e)'
        BY <1>0, <1>3 DEF DoneInv
    <2>2. ASSUME NEW u \in Threads, NEW e \in DOMAIN runs, execCall'[u].at = "read",
                 execCall'[u].run = e
          PROVE  execCall'[u].step <= Done(e)'
        BY <1>0, <1>3, <1>4, <2>2 DEF DoneInv, At, Run
    <2>3. ASSUME NEW u \in Threads, NEW e \in DOMAIN runs, execCall'[u].at = "last",
                 execCall'[u].run = e
          PROVE  runs'[e].max <= Done(e)'
        BY <1>0, <1>3, <1>4, <2>3 DEF DoneInv, At, Run
    <2>4. \A e \in toldDone' : runs'[e].max <= Done(e)'
        BY <1>0, <1>3 DEF DoneInv
    <2> QED BY <2>1, <2>2, <2>3, <2>4 DEF DoneInv, At, Run
<1>6. LateInv'
    BY <1>0, <1>2 DEF LateInv, Halted
<1> QED BY <1>1, <1>5, <1>6 DEF ExecInv

\* The requests that leave the executions alone.
LEMMA ListsAreCalm ==
    ASSUME ExecInv, NEW t \in Threads,
           \/ \E a \in AgentIds, m \in Budgets : CreateAgent(t, a, m)
           \/ ListNext(t) \/ StepGoesOn(t) \/ StepIsLast(t)
    PROVE  ExecInv'
<1>0. ExecTypeOK /\ DoneInv
    BY DEF ExecInv
<1>c. execCall[t] \in ExecCalls
    BY <1>0 DEF ExecTypeOK, ExecCalls
<1>i. Idle \in ExecCalls /\ Idle.at = "idle"
    BY DEF ExecCalls, Idle
<1>1. ASSUME NEW a \in AgentIds, NEW m \in Budgets, CreateAgent(t, a, m) PROVE ExecInv'
    <2> DEFINE c == [at |-> "created", agent |-> a]
    <2>1. c \in ExecCalls /\ c.at = "created"
        BY DEF ExecCalls
    <2>2. /\ execCall' = [execCall EXCEPT ![t] = c] /\ execCall[t].at = "idle"
          /\ UNCHANGED <<runs, late, toldDone>> /\ todo' = todo
        BY <1>1 DEF CreateAgent, At
    <2>3. DOMAIN agents' \subseteq AgentIds /\ \A x \in DOMAIN agents' : agents'[x] \in Budgets
        BY <1>0, <1>1 DEF CreateAgent, Put, ExecTypeOK
    <2>4. DOMAIN todo' \subseteq AgentIds
        BY <1>0, <2>2 DEF ExecTypeOK
    <2> HIDE DEF c
    <2> QED BY <2>1, <2>2, <2>3, <2>4, ExecCalm
<1>2. CASE MakeTodo(t)
    <2>1. /\ execCall' = [execCall EXCEPT ![t] = Idle] /\ execCall[t].at = "created"
          /\ UNCHANGED <<runs, late, toldDone>> /\ agents' = agents
        BY <1>2 DEF MakeTodo, At
    <2>2. execCall[t].agent \in AgentIds
        BY <1>c, <2>1 DEF ExecCalls, StepCall, Idle
    <2>3. DOMAIN todo' \subseteq AgentIds
        BY <1>0, <1>2, <2>2 DEF MakeTodo, Put, ExecTypeOK
    <2>4. DOMAIN agents' \subseteq AgentIds /\ \A x \in DOMAIN agents' : agents'[x] \in Budgets
        BY <1>0, <2>1 DEF ExecTypeOK
    <2> QED BY <1>i, <2>1, <2>3, <2>4, ExecCalm
<1>3. ASSUME NEW c \in ExecCalls, execCall' = [execCall EXCEPT ![t] = c],
             execCall[t].at \notin {"checked", "read", "counted"},
             c.at \notin {"checked", "read", "counted", "last"},
             UNCHANGED <<agents, runs, late, toldDone>>, DOMAIN todo' \subseteq AgentIds
      PROVE  ExecInv'
    <2>1. DOMAIN agents' \subseteq AgentIds /\ \A x \in DOMAIN agents' : agents'[x] \in Budgets
        BY <1>0, <1>3 DEF ExecTypeOK
    <2> QED BY <1>3, <2>1, ExecCalm
<1>4. ASSUME NEW a \in AgentIds, NEW k \in TaskIds, AddTask(t, a, k) PROVE ExecInv'
    <2> DEFINE c == [at |-> IF a \in DOMAIN todo THEN "append" ELSE "insert", agent |-> a,
                     task |-> k]
    <2>1. c \in ExecCalls /\ c.at \in {"append", "insert"}
        BY DEF ExecCalls
    <2>2. /\ execCall' = [execCall EXCEPT ![t] = c] /\ execCall[t].at = "idle"
          /\ UNCHANGED <<agents, runs, late, toldDone>> /\ DOMAIN todo' \subseteq AgentIds
        BY <1>0, <1>4 DEF AddTask, At, ExecTypeOK
    <2> HIDE DEF c
    <2> QED BY <1>3, <2>1, <2>2
<1>5. ASSUME NEW k \in TaskIds, StartWalk(t, k) PROVE ExecInv'
    <2> DEFINE c == [at |-> "walk", task |-> k, keys |-> DOMAIN todo, left |-> DOMAIN todo]
    <2>1. c \in ExecCalls /\ c.at = "walk"
        BY <1>0 DEF ExecCalls, ExecTypeOK
    <2>2. /\ execCall' = [execCall EXCEPT ![t] = c] /\ execCall[t].at = "idle"
          /\ UNCHANGED <<agents, runs, late, toldDone>> /\ DOMAIN todo' \subseteq AgentIds
        BY <1>0, <1>5 DEF StartWalk, At, ExecTypeOK
    <2> HIDE DEF c
    <2> QED BY <1>3, <2>1, <2>2
<1>6. CASE InsertList(t)
    <2> DEFINE c == [execCall[t] EXCEPT !.at = "append"]
    <2>1. execCall[t] \in [at : {"insert", "append"}, agent : AgentIds, task : TaskIds]
        BY <1>c, <1>6 DEF InsertList, At, ExecCalls, StepCall, Idle
    <2>2. c \in ExecCalls /\ c.at = "append"
        BY <2>1 DEF ExecCalls
    <2>3. /\ execCall' = [execCall EXCEPT ![t] = c] /\ execCall[t].at = "insert"
          /\ UNCHANGED <<agents, runs, late, toldDone>> /\ DOMAIN todo' \subseteq AgentIds
        BY <1>0, <1>6, <2>1 DEF InsertList, At, ExecTypeOK, Put
    <2> HIDE DEF c
    <2> QED BY <1>3, <2>2, <2>3
<1>7. CASE WalkList(t)
    <2>1. PICK a \in execCall[t].left :
             execCall' = [execCall EXCEPT ![t].left = @ \ {a}]
        BY <1>7 DEF WalkList
    <2> DEFINE c == [execCall[t] EXCEPT !.left = @ \ {a}]
    <2>2. execCall[t] \in [at : {"walk"}, task : TaskIds, keys : SUBSET AgentIds,
                           left : SUBSET AgentIds]
        BY <1>c, <1>7 DEF WalkList, At, ExecCalls, StepCall, Idle
    <2>3. c \in ExecCalls /\ c.at = "walk"
        BY <2>2 DEF ExecCalls
    <2>4. /\ execCall' = [execCall EXCEPT ![t] = c] /\ execCall[t].at = "walk"
          /\ UNCHANGED <<agents, runs, late, toldDone>> /\ DOMAIN todo' \subseteq AgentIds
        BY <1>0, <1>7, <2>1 DEF WalkList, At, ExecTypeOK
    <2> HIDE DEF c
    <2> QED BY <1>3, <2>3, <2>4
<1>8. CASE AppendTask(t) \/ EndWalk(t) \/ StepGoesOn(t)
    <2>1. /\ execCall' = [execCall EXCEPT ![t] = Idle]
          /\ execCall[t].at \in {"append", "walk", "recorded"}
          /\ UNCHANGED <<agents, runs, late, toldDone>> /\ DOMAIN todo' \subseteq AgentIds
        BY <1>0, <1>8 DEF AppendTask, EndWalk, StepGoesOn, At, ExecTypeOK
    <2> QED BY <1>3, <1>i, <2>1
<1>9. CASE StepIsLast(t)
    <2> DEFINE c == [at |-> "last", run |-> Run(t)]
    <2>1. Run(t) \in DOMAIN runs
        BY <1>c, <1>9 DEF StepIsLast, At, ExecCalls, StepCall, Idle, Run
    <2>2. c \in ExecCalls /\ c.at = "last" /\ c.run = Run(t)
        BY <2>1 DEF ExecCalls, StepCall
    <2>3. runs[Run(t)].max <= Done(Run(t))
        BY <1>0, <1>9, <2>1, RunTypes DEF StepIsLast, DoneInv
    <2>4. /\ execCall' = [execCall EXCEPT ![t] = c] /\ execCall[t].at = "recorded"
          /\ UNCHANGED <<runs, late, toldDone>>
        BY <1>9 DEF StepIsLast, At
    <2>5. /\ DOMAIN agents' \subseteq AgentIds /\ \A x \in DOMAIN agents' : agents'[x] \in Budgets
          /\ DOMAIN todo' \subseteq AgentIds
        BY <1>0, <1>9 DEF StepIsLast, ExecTypeOK
    <2> HIDE DEF c
    <2> QED BY <2>2, <2>3, <2>4, <2>5, ExecCalm
<1> QED BY <1>1, <1>2, <1>4, <1>5, <1>6, <1>7, <1>8, <1>9 DEF ListNext

---------------------------------------------------------------------------
(* The steps. *)

LEMMA StartExecutionKeeps ==
    ASSUME ExecInv, NEW t \in Threads, NEW a \in AgentIds, NEW e \in ExecIds,
           StartExecution(t, a, e)
    PROVE  ExecInv'
<1>0. ExecTypeOK /\ DoneInv /\ LateInv
    BY DEF ExecInv
<1> DEFINE r == [status |-> "running", step |-> 0, max |-> agents[a], steps |-> 0]
<1>1. /\ runs' = Put(runs, e, r) /\ e \notin DOMAIN runs /\ agents[a] \in Budgets
      /\ UNCHANGED <<agents, todo, execCall, late, toldDone>>
    BY <1>0 DEF StartExecution, ExecTypeOK
<1>2. /\ r \in [status : Verdicts, step : Nat, max : Budgets, steps : Nat]
      /\ r.status = "running" /\ r.step = 0 /\ r.steps = 0
    BY <1>1 DEF Verdicts
<1> HIDE DEF r
<1>3. /\ DOMAIN runs' = DOMAIN runs \cup {e} /\ runs'[e] = r
      /\ \A o \in DOMAIN runs : runs'[o] = runs[o]
    BY <1>1 DEF Put
<1>4. CallsStayTyped
    <2> PICK t0 \in Threads : TRUE
        OBVIOUS
    <2>1. execCall' = [execCall EXCEPT ![t] = execCall[t]] /\ execCall[t] \in ExecCalls
        BY <1>0, <1>1 DEF ExecTypeOK, ExecCalls
    <2> QED BY <1>0, <1>3, <2>1, ExecTypesMove
<1>5. ExecTypeOK'
    BY <1>0, <1>1, <1>2, <1>3, <1>4 DEF ExecTypeOK, CallsStayTyped
<1>6. \A o : Counted(o)' = Counted(o) /\ Stepping(o)' = Stepping(o)
    BY <1>1 DEF Counted, Stepping, At, Run
<1>7. \A o \in DOMAIN runs : Done(o)' = Done(o)
    BY <1>3, <1>6 DEF Done
<1>8. \A u \in Threads : execCall[u].at \in {"read", "last"} => Run(u) \in DOMAIN runs
    BY <1>0 DEF ExecTypeOK, Idle, StepCall, Run
<1>9. toldDone \subseteq DOMAIN runs
    BY <1>0 DEF ExecTypeOK
<1>10. Done(e)' \in Nat
    BY <1>2, <1>3, <1>6, StepsAreFinite DEF Done
<1>11. DoneInv'
    <2>1. \A o \in DOMAIN runs' : runs'[o].step <= Done(o)'
        BY <1>0, <1>2, <1>3, <1>7, <1>10 DEF DoneInv
    <2>2. \A u \in Threads, o \in DOMAIN runs' :
            execCall'[u].at = "read" /\ execCall'[u].run = o => execCall'[u].step <= Done(o)'
        BY <1>0, <1>1, <1>3, <1>7, <1>8 DEF DoneInv, At, Run
    <2>3. \A u \in Threads, o \in DOMAIN runs' :
            execCall'[u].at = "last" /\ execCall'[u].run = o => runs'[o].max <= Done(o)'
        BY <1>0, <1>1, <1>3, <1>7, <1>8 DEF DoneInv, At, Run
    <2>4. \A o \in toldDone' : runs'[o].max <= Done(o)'
        BY <1>0, <1>1, <1>3, <1>7, <1>9 DEF DoneInv
    <2> QED BY <2>1, <2>2, <2>3, <2>4 DEF DoneInv, At, Run
<1>12. LateInv'
    BY <1>0, <1>1, <1>2, <1>3, <1>6 DEF LateInv, Halted
<1> QED BY <1>5, <1>11, <1>12 DEF ExecInv

\* A step of one request on execution h: the counter may move to what the work
\* allows, and the work never shrinks.
LEMMA DoneMoves ==
    ASSUME ExecTypeOK, DoneInv, NEW t \in Threads, NEW c, NEW h \in DOMAIN runs,
           execCall' = [execCall EXCEPT ![t] = c], DOMAIN runs' = DOMAIN runs,
           \A o \in DOMAIN runs : o # h => runs'[o] = runs[o] /\ Counted(o)' = Counted(o),
           runs'[h].max = runs[h].max, Done(h) <= Done(h)', Done(h)' \in Nat,
           runs'[h].step <= Done(h)',
           c.at = "read" => c.run = h /\ c.step \in Nat /\ c.step <= Done(h),
           c.at # "last",
           toldDone' \subseteq toldDone \cup {h},
           h \in toldDone' \ toldDone => runs[h].max <= Done(h)
    PROVE  DoneInv'
<1>1. /\ execCall'[t] = c
      /\ \A u \in Threads : u # t => execCall'[u] = execCall[u]
    BY DEF ExecTypeOK
<1>2. \A o \in DOMAIN runs : o # h => Done(o)' = Done(o)
    BY DEF Done
<1>3. Done(h) \in Nat /\ runs[h].max \in Nat
    BY RunTypes
<1>4. \A o \in DOMAIN runs' : runs'[o].step <= Done(o)'
    BY <1>2 DEF DoneInv
<1>5. ASSUME NEW u \in Threads, NEW o \in DOMAIN runs, execCall'[u].at = "read",
             execCall'[u].run = o
      PROVE  execCall'[u].step <= Done(o)'
    <2>1. execCall'[u].step <= Done(o)
        BY <1>1, <1>5 DEF DoneInv, At, Run
    <2>2. CASE o # h
        BY <1>2, <2>1, <2>2
    <2>3. CASE o = h
        <3>1. execCall'[u].step \in Nat
            <4>1. CASE u = t
                BY <1>1, <1>5, <4>1
            <4>2. CASE u # t
                BY <1>1, <1>5, <4>2 DEF ExecTypeOK, Idle, StepCall
            <4> QED BY <4>1, <4>2
        <3> QED BY <1>3, <2>1, <2>3, <3>1
    <2> QED BY <2>2, <2>3
<1>6. ASSUME NEW u \in Threads, NEW o \in DOMAIN runs, execCall'[u].at = "last",
             execCall'[u].run = o
      PROVE  runs'[o].max <= Done(o)'
    <2>1. u # t /\ execCall'[u] = execCall[u]
        BY <1>1, <1>6
    <2>2. runs[o].max <= Done(o)
        BY <1>6, <2>1 DEF DoneInv, At, Run
    <2>3. CASE o # h
        BY <1>2, <2>2, <2>3
    <2>4. CASE o = h
        BY <1>3, <2>2, <2>4
    <2> QED BY <2>3, <2>4
<1>7. ASSUME NEW o \in toldDone'
      PROVE  runs'[o].max <= Done(o)'
    <2>1. o \in DOMAIN runs /\ runs[o].max <= Done(o)
        BY <1>7 DEF DoneInv, ExecTypeOK
    <2>2. CASE o # h
        BY <1>2, <2>1, <2>2
    <2>3. CASE o = h
        BY <1>3, <2>1, <2>3
    <2> QED BY <2>2, <2>3
<1> QED BY <1>4, <1>5, <1>6, <1>7 DEF DoneInv, At, Run

\* The steps that may still land are those of other threads than t.
LEMMA OthersAreFewer ==
    ASSUME NEW t \in Threads, NEW e, t \notin Stepping(e)
    PROVE  Cardinality(Stepping(e)) < Cardinality(Threads)
<1>1. Stepping(e) \subseteq Threads \ {t}
    BY DEF Stepping
<1>2. /\ IsFiniteSet(Threads \ {t})
      /\ Cardinality(Threads \ {t}) = Cardinality(Threads) - 1
    BY ThreadsAssumption, FS_RemoveElement
<1>3. Cardinality(Stepping(e)) <= Cardinality(Threads \ {t})
    BY <1>1, <1>2, FS_Subset
<1> QED BY <1>2, <1>3, StepsAreFinite, ThreadsAssumption, FS_CardinalityType

LEMMA StepChecksKeeps ==
    ASSUME ExecInv, NEW t \in Threads, NEW e \in ExecIds, StepChecks(t, e)
    PROVE  ExecInv'
<1>0. ExecTypeOK /\ DoneInv /\ LateInv
    BY DEF ExecInv
<1> DEFINE c == [at |-> "checked", run |-> e]
<1>1. /\ execCall' = [execCall EXCEPT ![t] = c] /\ ~At(execCall, t, "counted")
      /\ e \in DOMAIN runs /\ runs[e].status = "running"
      /\ UNCHANGED <<agents, runs, todo, late, toldDone>>
    BY DEF StepChecks, At
<1>2. c \in ExecCalls /\ c.at = "checked" /\ c.run = e
    BY <1>1 DEF ExecCalls, StepCall
<1> HIDE DEF c
<1>3. ExecTypeOK'
    BY <1>0, <1>1, <1>2, ExecTypesMove DEF ExecTypeOK, CallsStayTyped
<1>4. \A o : Counted(o)' = Counted(o)
    BY <1>0, <1>1, <1>2, CountedStays
<1>5. /\ Done(e) <= Done(e)' /\ Done(e)' \in Nat /\ runs'[e].step <= Done(e)'
      /\ DOMAIN runs' = DOMAIN runs /\ runs'[e].max = runs[e].max
      /\ \A o \in DOMAIN runs : o # e => runs'[o] = runs[o] /\ Counted(o)' = Counted(o)
      /\ toldDone' \subseteq toldDone \cup {e}
      /\ (e \in toldDone' \ toldDone => runs[e].max <= Done(e))
    BY <1>0, <1>1, <1>4, RunTypes DEF Done, DoneInv
<1>6. DoneInv'
    BY <1>0, <1>1, <1>2, <1>5, DoneMoves
<1>7. ASSUME NEW o \in ExecIds, Halted(o)
      PROVE  Stepping(o)' = Stepping(o)
    <2>1. o # e /\ t \notin Stepping(o)
        BY <1>1, <1>7 DEF Halted, StepChecks, At, Stepping
    <2>2. Stepping(o)' = Stepping(o) \ {t}
        BY <1>0, <1>1, <1>2, <2>1, ExecCallMoves
    <2> QED BY <2>1, <2>2
<1>8. LateInv'
    BY <1>0, <1>1, <1>7 DEF LateInv, Halted
<1> QED BY <1>3, <1>6, <1>8 DEF ExecInv

LEMMA StepReadsKeeps ==
    ASSUME ExecInv, NEW t \in Threads, StepReads(t)
    PROVE  ExecInv'
<1>0. ExecTypeOK /\ DoneInv /\ LateInv
    BY DEF ExecInv
<1>a. PICK h \in DOMAIN runs : h = Run(t)
    BY <1>0 DEF StepReads, At, ExecTypeOK, StepCall, Idle, Run
<1> DEFINE c == [at |-> "read", run |-> h, step |-> runs[h].step]
<1>1. /\ execCall' = [execCall EXCEPT ![t] = c] /\ execCall[t].at = "checked"
      /\ UNCHANGED <<agents, runs, todo, late, toldDone>>
    BY <1>a DEF StepReads, At
<1>2. /\ c \in ExecCalls /\ c.at = "read" /\ c.run = h /\ c.step \in Nat
      /\ c.step <= Done(h)
    BY <1>0, RunTypes DEF ExecCalls, DoneInv
<1> HIDE DEF c
<1>3. ExecTypeOK'
    BY <1>0, <1>1, <1>2, ExecTypesMove DEF ExecTypeOK, CallsStayTyped
<1>4. \A o : Counted(o)' = Counted(o)
    BY <1>0, <1>1, <1>2, CountedStays DEF At
<1>5. /\ Done(h) <= Done(h)' /\ Done(h)' \in Nat /\ runs'[h].step <= Done(h)'
      /\ DOMAIN runs' = DOMAIN runs /\ runs'[h].max = runs[h].max
      /\ \A o \in DOMAIN runs : o # h => runs'[o] = runs[o] /\ Counted(o)' = Counted(o)
      /\ toldDone' \subseteq toldDone \cup {h}
      /\ (h \in toldDone' \ toldDone => runs[h].max <= Done(h))
    BY <1>0, <1>1, <1>4, RunTypes DEF Done, DoneInv
<1>6. DoneInv'
    BY <1>0, <1>1, <1>2, <1>5, DoneMoves
<1>7. \A o : Stepping(o)' = Stepping(o)
    <2> SUFFICES ASSUME NEW o PROVE Stepping(o)' = Stepping(o)
        OBVIOUS
    <2>1. t \in Stepping(o) <=> o = h
        BY <1>1, <1>a DEF Stepping
    <2>2. Stepping(o)' = IF o = h THEN Stepping(o) \cup {t} ELSE Stepping(o) \ {t}
        BY <1>0, <1>1, <1>2, ExecCallMoves
    <2> QED BY <2>1, <2>2
<1>8. LateInv'
    BY <1>0, <1>1, <1>7 DEF LateInv, Halted
<1> QED BY <1>3, <1>6, <1>8 DEF ExecInv

LEMMA StepCountsKeeps ==
    ASSUME ExecInv, NEW t \in Threads, StepCounts(t)
    PROVE  ExecInv'
<1>0. ExecTypeOK /\ DoneInv /\ LateInv
    BY DEF ExecInv
<1>a. PICK h \in DOMAIN runs : h = Run(t)
    BY <1>0 DEF StepCounts, At, ExecTypeOK, StepCall, Idle, Run
<1> DEFINE c == [at |-> "counted", run |-> h]
           r == [runs[h] EXCEPT !.step = execCall[t].step + 1]
<1>1. /\ execCall[t].at = "read" /\ execCall[t].step \in Nat /\ execCall[t].step <= Done(h)
    BY <1>0, <1>a DEF StepCounts, At, ExecTypeOK, StepCall, Idle, DoneInv
<1>2. c \in ExecCalls /\ c.at = "counted" /\ c.run = h
    BY DEF ExecCalls, StepCall
<1>3. /\ r \in [status : Verdicts, step : Nat, max : Budgets, steps : Nat]
      /\ r.step = execCall[t].step + 1 /\ r.max = runs[h].max /\ r.steps = runs[h].steps
      /\ r.status = runs[h].status
    BY <1>0, <1>1 DEF ExecTypeOK
<1>4. /\ execCall' = [execCall EXCEPT ![t] = c] /\ runs' = [runs EXCEPT ![h] = r]
      /\ UNCHANGED <<agents, todo, late, toldDone>>
    BY <1>a DEF StepCounts
<1> HIDE DEF c, r
<1>5. DOMAIN runs' = DOMAIN runs /\ runs'[h] = r /\ \A o \in DOMAIN runs : o # h => runs'[o] = runs[o]
    BY <1>4
<1>6. ExecTypeOK'
    BY <1>0, <1>2, <1>3, <1>4, <1>5, ExecTypesMove DEF ExecTypeOK, CallsStayTyped
<1>7. Done(h)' = Done(h) + 1
    <2>1. Counted(h)' = Counted(h) \cup {t}
        BY <1>0, <1>2, <1>4, ExecCallMoves
    <2>2. t \notin Counted(h)
        BY <1>1 DEF Counted, At
    <2>3. Cardinality(Counted(h)') = Cardinality(Counted(h)) + 1
        BY <2>1, <2>2, StepsAreFinite, FS_AddElement
    <2>4. runs[h].steps \in Nat
        BY <1>0, RunTypes
    <2> QED BY <1>3, <1>5, <2>3, <2>4, StepsAreFinite DEF Done
<1>8. \A o \in DOMAIN runs : o # h => runs'[o] = runs[o] /\ Counted(o)' = Counted(o)
    <2> SUFFICES ASSUME NEW o \in DOMAIN runs, o # h PROVE Counted(o)' = Counted(o)
        BY <1>5
    <2>1. Counted(o)' = Counted(o) \ {t}
        BY <1>0, <1>2, <1>4, ExecCallMoves
    <2>2. t \notin Counted(o)
        BY <1>1 DEF Counted, At
    <2> QED BY <2>1, <2>2
<1>9. /\ Done(h) <= Done(h)' /\ Done(h)' \in Nat /\ runs'[h].step <= Done(h)'
      /\ runs'[h].max = runs[h].max
    BY <1>0, <1>1, <1>3, <1>5, <1>7, RunTypes
<1>10. DoneInv'
    <2>1. toldDone' \subseteq toldDone \cup {h} /\ (h \in toldDone' \ toldDone => runs[h].max <= Done(h))
        BY <1>4
    <2> QED BY <1>0, <1>2, <1>4, <1>5, <1>8, <1>9, <2>1, DoneMoves
<1>11. \A o : Stepping(o)' = Stepping(o)
    <2> SUFFICES ASSUME NEW o PROVE Stepping(o)' = Stepping(o)
        OBVIOUS
    <2>1. t \in Stepping(o) <=> o = h
        BY <1>1, <1>a DEF Stepping
    <2>2. Stepping(o)' = IF o = h THEN Stepping(o) \cup {t} ELSE Stepping(o) \ {t}
        BY <1>0, <1>2, <1>4, ExecCallMoves
    <2> QED BY <2>1, <2>2
<1>12. LateInv'
    BY <1>0, <1>3, <1>4, <1>5, <1>11 DEF LateInv, Halted
<1> QED BY <1>6, <1>10, <1>12 DEF ExecInv

LEMMA StepRecordsKeeps ==
    ASSUME ExecInv, NEW t \in Threads, StepRecords(t)
    PROVE  ExecInv'
<1>0. ExecTypeOK /\ DoneInv /\ LateInv
    BY DEF ExecInv
<1>a. PICK h \in DOMAIN runs : h = Run(t)
    BY <1>0 DEF StepRecords, At, ExecTypeOK, StepCall, Idle, Run
<1> DEFINE c == [at |-> "recorded", run |-> h]
           r == [runs[h] EXCEPT !.steps = @ + 1]
<1>1. execCall[t].at = "counted" /\ h \in ExecIds
    BY <1>0 DEF StepRecords, At, ExecTypeOK
<1>2. c \in ExecCalls /\ c.at = "recorded"
    BY DEF ExecCalls, StepCall
<1>3. /\ r \in [status : Verdicts, step : Nat, max : Budgets, steps : Nat]
      /\ r.step = runs[h].step /\ r.max = runs[h].max /\ r.steps = runs[h].steps + 1
      /\ r.status = runs[h].status
    BY <1>0 DEF ExecTypeOK
<1>4. /\ execCall' = [execCall EXCEPT ![t] = c] /\ runs' = [runs EXCEPT ![h] = r]
      /\ late' = IF runs[h].status = "running" THEN late ELSE [late EXCEPT ![h] = @ + 1]
      /\ UNCHANGED <<agents, todo, toldDone>>
    BY <1>a DEF StepRecords
<1> HIDE DEF c, r
<1>5. DOMAIN runs' = DOMAIN runs /\ runs'[h] = r /\ \A o \in DOMAIN runs : o # h => runs'[o] = runs[o]
    BY <1>4
<1>6. ExecTypeOK'
    <2>1. late' \in [ExecIds -> Nat]
        BY <1>0, <1>1, <1>4 DEF ExecTypeOK
    <2>2. CallsStayTyped
        BY <1>0, <1>2, <1>4, <1>5, ExecTypesMove
    <2> QED BY <1>0, <1>3, <1>4, <1>5, <2>1, <2>2 DEF ExecTypeOK, CallsStayTyped
<1>7. Done(h)' = Done(h)
    <2>1. Counted(h)' = Counted(h) \ {t}
        BY <1>0, <1>2, <1>4, ExecCallMoves
    <2>2. t \in Counted(h)
        BY <1>1, <1>a DEF Counted, At
    <2>3. Cardinality(Counted(h)') = Cardinality(Counted(h)) - 1
        BY <2>1, <2>2, StepsAreFinite, FS_RemoveElement
    <2>4. runs[h].steps \in Nat
        BY <1>0, RunTypes
    <2> QED BY <1>3, <1>5, <2>3, <2>4, StepsAreFinite DEF Done
<1>8. \A o \in DOMAIN runs : o # h => runs'[o] = runs[o] /\ Counted(o)' = Counted(o)
    <2> SUFFICES ASSUME NEW o \in DOMAIN runs, o # h PROVE Counted(o)' = Counted(o)
        BY <1>5
    <2>1. Counted(o)' = Counted(o) \ {t}
        BY <1>0, <1>2, <1>4, ExecCallMoves
    <2>2. t \notin Counted(o)
        BY <1>a DEF Counted
    <2> QED BY <2>1, <2>2
<1>9. /\ Done(h) <= Done(h)' /\ Done(h)' \in Nat /\ runs'[h].step <= Done(h)'
      /\ runs'[h].max = runs[h].max
    BY <1>0, <1>3, <1>5, <1>7, RunTypes DEF DoneInv
<1>10. DoneInv'
    <2>1. toldDone' \subseteq toldDone \cup {h} /\ (h \in toldDone' \ toldDone => runs[h].max <= Done(h))
        BY <1>4
    <2> QED BY <1>0, <1>2, <1>4, <1>5, <1>8, <1>9, <2>1, DoneMoves
<1>11. Cardinality(Stepping(h)') = Cardinality(Stepping(h)) - 1
    <2>1. Stepping(h)' = Stepping(h) \ {t}
        BY <1>0, <1>2, <1>4, ExecCallMoves
    <2>2. t \in Stepping(h)
        BY <1>1, <1>a DEF Stepping
    <2> QED BY <2>1, <2>2, StepsAreFinite, FS_RemoveElement
<1>12. \A o : o # h => Stepping(o)' = Stepping(o)
    <2> SUFFICES ASSUME NEW o, o # h PROVE Stepping(o)' = Stepping(o)
        OBVIOUS
    <2>1. t \notin Stepping(o)
        BY <1>a DEF Stepping
    <2>2. Stepping(o)' = Stepping(o) \ {t}
        BY <1>0, <1>2, <1>4, ExecCallMoves
    <2> QED BY <2>1, <2>2
<1>13. LateInv'
    <2> SUFFICES ASSUME NEW o \in ExecIds
                 PROVE  IF Halted(o)' THEN late'[o] + Cardinality(Stepping(o)') < Cardinality(Threads)
                        ELSE late'[o] = 0
        BY DEF LateInv
    <2>1. Halted(o)' <=> Halted(o)
        BY <1>3, <1>5 DEF Halted
    <2>2. late[o] \in Nat /\ (o # h => late'[o] = late[o])
        BY <1>0, <1>4 DEF ExecTypeOK
    <2>3. CASE o # h
        BY <1>0, <1>12, <2>1, <2>2, <2>3 DEF LateInv
    <2>4. CASE o = h /\ Halted(o)
        <3>1. late'[o] = late[o] + 1
            BY <1>0, <1>1, <1>4, <2>4 DEF Halted, ExecTypeOK
        <3>2. late[o] + Cardinality(Stepping(o)) < Cardinality(Threads)
            BY <1>0, <2>4 DEF LateInv
        <3> QED BY <1>11, <2>1, <2>2, <2>4, <3>1, <3>2, StepsAreFinite
    <2>5. CASE o = h /\ ~Halted(o)
        BY <1>0, <1>4, <2>1, <2>5 DEF Halted, LateInv
    <2> QED BY <2>3, <2>4, <2>5
<1> QED BY <1>6, <1>10, <1>13 DEF ExecInv

\* A request that is no step writes the status of an execution, as agent_pause
\* and its like and the last step do.
LEMMA StatusMoves ==
    ASSUME ExecInv, NEW t \in Threads, NEW c \in ExecCalls, NEW h \in DOMAIN runs,
           NEW s \in Verdicts,
           execCall' = [execCall EXCEPT ![t] = c], c.at = "idle",
           execCall[t].at \notin {"checked", "read", "counted"},
           runs' = [runs EXCEPT ![h].status = s],
           late' = IF s = "running" THEN [late EXCEPT ![h] = 0] ELSE late,
           toldDone' \subseteq toldDone \cup {h},
           h \in toldDone' \ toldDone => runs[h].max <= Done(h),
           UNCHANGED <<agents, todo>>
    PROVE  ExecInv'
<1>0. ExecTypeOK /\ DoneInv /\ LateInv
    BY DEF ExecInv
<1> DEFINE r == [runs[h] EXCEPT !.status = s]
<1>1. /\ r \in [status : Verdicts, step : Nat, max : Budgets, steps : Nat]
      /\ r.step = runs[h].step /\ r.max = runs[h].max /\ r.steps = runs[h].steps
      /\ r.status = s
    BY <1>0 DEF ExecTypeOK
<1>2. /\ DOMAIN runs' = DOMAIN runs /\ runs'[h] = r
      /\ \A o \in DOMAIN runs : o # h => runs'[o] = runs[o]
    OBVIOUS
<1> HIDE DEF r
<1>3. ExecTypeOK'
    <2>1. late' \in [ExecIds -> Nat] /\ h \in ExecIds
        BY <1>0 DEF ExecTypeOK
    <2>2. CallsStayTyped
        BY <1>0, <1>2, ExecTypesMove
    <2> QED BY <1>0, <1>1, <1>2, <2>1, <2>2 DEF ExecTypeOK, CallsStayTyped
<1>4. \A o : Counted(o)' = Counted(o)
    BY <1>0, CountedStays DEF At
<1>5. /\ Done(h) <= Done(h)' /\ Done(h)' \in Nat /\ runs'[h].step <= Done(h)'
      /\ runs'[h].max = runs[h].max
    BY <1>0, <1>1, <1>2, <1>4, RunTypes DEF DoneInv, Done
<1>6. DoneInv'
    <2>1. \A o \in DOMAIN runs : o # h => runs'[o] = runs[o] /\ Counted(o)' = Counted(o)
        BY <1>2, <1>4
    <2> QED BY <1>0, <1>2, <1>5, <2>1, DoneMoves
<1>7. \A o : Stepping(o)' = Stepping(o) /\ t \notin Stepping(o)
    <2> SUFFICES ASSUME NEW o PROVE Stepping(o)' = Stepping(o) /\ t \notin Stepping(o)
        OBVIOUS
    <2>1. t \notin Stepping(o)
        BY DEF Stepping
    <2>2. Stepping(o)' = Stepping(o) \ {t}
        BY <1>0, ExecCallMoves
    <2> QED BY <2>1, <2>2
<1>8. LateInv'
    <2> SUFFICES ASSUME NEW o \in ExecIds
                 PROVE  IF Halted(o)' THEN late'[o] + Cardinality(Stepping(o)') < Cardinality(Threads)
                        ELSE late'[o] = 0
        BY DEF LateInv
    <2>1. late \in [ExecIds -> Nat]
        BY <1>0 DEF ExecTypeOK
    <2>2. CASE o # h
        <3>1. late'[o] = late[o] /\ (Halted(o)' <=> Halted(o))
            BY <1>2, <2>1, <2>2 DEF Halted
        <3> QED BY <1>0, <1>7, <3>1 DEF LateInv
    <2>3. CASE o = h /\ s = "running"
        BY <1>1, <1>2, <2>1, <2>3 DEF Halted
    <2>4. CASE o = h /\ s # "running"
        <3>1. Halted(o)' /\ late'[o] = late[o]
            BY <1>1, <1>2, <2>4 DEF Halted
        <3>2. Cardinality(Stepping(o)) < Cardinality(Threads)
            BY <1>7, OthersAreFewer
        <3>3. late[o] + Cardinality(Stepping(o)) < Cardinality(Threads)
            BY <1>0, <3>2, StepsAreFinite DEF LateInv
        <3> QED BY <1>7, <3>1, <3>3
    <2> QED BY <2>2, <2>3, <2>4
<1> QED BY <1>3, <1>6, <1>8 DEF ExecInv

LEMMA ExecInvNext == ExecInv /\ [ExecNext]_execVars => ExecInv'
<1> SUFFICES ASSUME ExecInv, [ExecNext]_execVars PROVE ExecInv'
    OBVIOUS
<1>0. ExecTypeOK /\ DoneInv /\ LateInv
    BY DEF ExecInv
<1>1. ASSUME NEW t \in Threads, NEW e \in ExecIds, NEW s \in Verdicts, Control(t, e, s)
      PROVE  ExecInv'
    <2>1. /\ execCall' = [execCall EXCEPT ![t] = execCall[t]] /\ execCall[t] \in ExecCalls
          /\ execCall[t].at = "idle" /\ e \in DOMAIN runs
          /\ runs' = [runs EXCEPT ![e].status = s] /\ UNCHANGED <<agents, todo, toldDone>>
          /\ late' = IF s = "running" THEN [late EXCEPT ![e] = 0] ELSE late
        BY <1>0, <1>1 DEF Control, At, ExecTypeOK, ExecCalls
    <2>2. toldDone' \subseteq toldDone \cup {e} /\ (e \in toldDone' \ toldDone => runs[e].max <= Done(e))
        BY <2>1
    <2> QED BY <2>1, <2>2, StatusMoves
<1>2. ASSUME NEW t \in Threads, StepCompletes(t)
      PROVE  ExecInv'
    <2>1. PICK h \in DOMAIN runs : h = Run(t)
        BY <1>0, <1>2 DEF StepCompletes, At, ExecTypeOK, StepCall, Idle, Run
    <2>2. /\ execCall' = [execCall EXCEPT ![t] = Idle] /\ execCall[t].at = "last"
          /\ runs' = [runs EXCEPT ![h].status = "completed"] /\ UNCHANGED <<agents, todo>>
          /\ late' = late /\ toldDone' = toldDone \cup {h}
        BY <1>2, <2>1 DEF StepCompletes, At
    <2>3. runs[h].max <= Done(h)
        BY <1>0, <2>1, <2>2 DEF DoneInv, At
    <2>4. Idle \in ExecCalls /\ Idle.at = "idle" /\ "completed" \in Verdicts
        BY DEF ExecCalls, Idle, Verdicts
    <2>5. /\ late' = IF "completed" = "running" THEN [late EXCEPT ![h] = 0] ELSE late
          /\ toldDone' \subseteq toldDone \cup {h}
          /\ (h \in toldDone' \ toldDone => runs[h].max <= Done(h))
        BY <2>2, <2>3
    <2> QED BY <2>2, <2>4, <2>5, StatusMoves
<1>3. CASE CloseExecutions
    <2>1. ExecTypeOK'
        BY <1>3 DEF CloseExecutions, ExecTypeOK, AllIdle
    <2>2. DoneInv'
        BY <1>3 DEF CloseExecutions, DoneInv, AllIdle, Idle, At
    <2>3. LateInv'
        BY <1>3 DEF CloseExecutions, LateInv, Halted
    <2> QED BY <2>1, <2>2, <2>3 DEF ExecInv
<1>4. CASE UNCHANGED execVars
    <2>1. ExecTypeOK'
        BY <1>0, <1>4 DEF execVars, ExecTypeOK, StepCall
    <2>2. DoneInv' /\ LateInv'
        BY <1>0, <1>4 DEF execVars, DoneInv, LateInv, Halted, Stepping, Done, Counted, At, Run
    <2> QED BY <2>1, <2>2 DEF ExecInv
<1> QED BY <1>1, <1>2, <1>3, <1>4, ListsAreCalm, StartExecutionKeeps, StepChecksKeeps,
           StepReadsKeeps, StepCountsKeeps, StepRecordsKeeps DEF ExecNext, StepNext

\* "completed" is never told of an execution too early, however many requests
\* race for its counter (agentgpt_bridge.py, agent_step).
THEOREM CompletedExecutionsAreDone == ExecSpec => []CompletedMeansDone
<1>1. ExecInv => CompletedMeansDone
    <2> SUFFICES ASSUME ExecInv, NEW e \in toldDone
                 PROVE  runs[e].steps + Cardinality(Counted(e)) >= runs[e].max
        BY DEF CompletedMeansDone
    <2>1. ExecTypeOK /\ e \in DOMAIN runs /\ runs[e].max <= Done(e)
        BY DEF ExecInv, DoneInv, ExecTypeOK
    <2> QED BY <2>1, RunTypes DEF Done
<1> QED BY <1>1, ExecInvInit, ExecInvNext, PTL DEF ExecSpec

\* What lands in an execution after a pause or a stop is bounded by the other
\* threads (agentgpt_bridge.py, agent_pause and agent_stop).
THEOREM LateStepsAreFew == ExecSpec => []LateStepsBounded
<1>1. ExecInv => LateStepsBounded
    <2> SUFFICES ASSUME ExecInv, NEW e \in ExecIds PROVE late[e] < Cardinality(Threads)
        BY DEF LateStepsBounded
    <2>1. late[e] \in Nat
        BY DEF ExecInv, ExecTypeOK
    <2>2. Cardinality(Threads) \in Nat /\ Cardinality(Threads) # 0
        BY ThreadsAssumption, FS_CardinalityType, FS_EmptySet
    <2> QED BY <2>1, <2>2, StepsAreFinite DEF ExecInv, LateInv
<1> QED BY <1>1, ExecInvInit, ExecInvNext, PTL DEF ExecSpec

---------------------------------------------------------------------------
(* AgentField: a value of a form, or one that a walk has read and will     *)
(* write back, is the one a client set last, unless its field is raced. So *)
(* what a submission has checked undisturbed stays checked.                *)

FormRecords ==
  [fields : Fields, status : {"draft", "submitting", "submitted", "error"}]

Kept(f) ==
  \A n \in DOMAIN forms[f].fields : forms[f].fields[n] # asSet[f][n] => n \in raced[f]

\* The names of form f that no client left with an invalid value.
SetWell(f, names) == \A n \in names \ raced[f] : ~Invalid(n, asSet[f][n])

FormOK(f) ==
  /\ forms[f] \in FormRecords /\ asSet[f] \in Fields /\ raced[f] \subseteq Names
  /\ DOMAIN asSet[f] = DOMAIN forms[f].fields
  /\ Kept(f)
  /\ f \in settled => SetWell(f, DOMAIN forms[f].fields)

\* The names that the walk of request t has behind it.
Walked(t) ==
  formCall[t].names \ (formCall[t].left \cup
    IF formCall[t].at = "visit" THEN {formCall[t].name} ELSE {})

FormCallOK(t) ==
  /\ formCall[t].at \in {"idle", "update", "walk", "visit"}
  /\ formCall[t].at # "idle" => formCall[t].form \in DOMAIN forms
  /\ formCall[t].at = "update" =>
       formCall[t] \in [at : {"update"}, form : DOMAIN forms, updates : Fields]
  /\ formCall[t].at \in {"walk", "visit"} =>
       /\ formCall[t].names \subseteq DOMAIN forms[Form(t)].fields
       /\ formCall[t].left \subseteq formCall[t].names
       /\ formCall[t].walk = "submit" /\ formCall[t].alone => SetWell(Form(t), Walked(t))
  /\ formCall[t].at = "walk" =>
       formCall[t] \in [at : {"walk"}, form : DOMAIN forms, walk : Walks, names : SUBSET Names,
                        left : SUBSET Names, alone : BOOLEAN]
  /\ formCall[t].at = "visit" =>
       /\ formCall[t] \in [at : {"visit"}, form : DOMAIN forms, walk : Walks,
                           names : SUBSET Names, left : SUBSET Names, alone : BOOLEAN,
                           name : Names, value : Values]
       /\ formCall[t].name \in formCall[t].names
       /\ formCall[t].value # asSet[Form(t)][formCall[t].name] =>
            formCall[t].name \in raced[Form(t)]

FormInv ==
  /\ formNamed = [i \in DOMAIN formNamed |-> formNamed[i]]
  /\ \A i \in DOMAIN formNamed : formNamed[i] \in DOMAIN forms
  /\ DOMAIN asSet = DOMAIN forms /\ DOMAIN raced = DOMAIN forms /\ settled \subseteq DOMAIN forms
  /\ \A f \in DOMAIN forms : FormOK(f)
  /\ formCall = [t \in Threads |-> formCall[t]]
  /\ \A t \in Threads : FormCallOK(t)

LEMMA FieldsAreFunctions ==
    ASSUME NEW g \in Fields
    PROVE  /\ DOMAIN g \subseteq Names /\ \A m \in DOMAIN g : g[m] \in Values
           /\ g = [m \in DOMAIN g |-> g[m]]
BY DEF Fields

LEMMA FieldsWithout ==
    ASSUME NEW g \in Fields, NEW n
    PROVE  [m \in DOMAIN g \ {n} |-> g[m]] \in Fields
<1>1. DOMAIN g \ {n} \in SUBSET Names
    BY FieldsAreFunctions
<1>2. [m \in DOMAIN g \ {n} |-> g[m]] \in [DOMAIN g \ {n} -> Values]
    BY FieldsAreFunctions
<1> QED BY <1>1, <1>2 DEF Fields

LEMMA FieldsPut ==
    ASSUME NEW g \in Fields, NEW n \in Names, NEW v \in Values
    PROVE  /\ Put(g, n, v) \in Fields
           /\ DOMAIN Put(g, n, v) = DOMAIN g \cup {n} /\ Put(g, n, v)[n] = v
           /\ \A m \in DOMAIN g : m # n => Put(g, n, v)[m] = g[m]
<1>1. DOMAIN g \cup {n} \in SUBSET Names
    BY FieldsAreFunctions
<1>2. Put(g, n, v) \in [DOMAIN g \cup {n} -> Values]
    BY FieldsAreFunctions DEF Put
<1>3. Put(g, n, v) \in Fields
    BY <1>1, <1>2 DEF Fields
<1> QED BY <1>3 DEF Put

LEMMA FormInvInit == FormInit => FormInv
BY DEF FormInit, FormInv, AllIdle, Idle, FormCallOK

\* A request that sets no field: what was set stays, so do the other requests.
LEMMA WalkStep ==
    ASSUME FormInv, NEW t \in Threads, NEW c, formCall' = [formCall EXCEPT ![t] = c],
           UNCHANGED <<formNamed, asSet, raced>>,
           DOMAIN forms' = DOMAIN forms, settled' \subseteq DOMAIN forms,
           \A f \in DOMAIN forms : /\ forms'[f] \in FormRecords
                                   /\ DOMAIN forms'[f].fields = DOMAIN forms[f].fields,
           \A f \in DOMAIN forms : Kept(f)',
           \A f \in settled' \ settled : SetWell(f, DOMAIN forms[f].fields),
           FormCallOK(t)'
    PROVE  FormInv'
<1>1. ASSUME NEW f \in DOMAIN forms
      PROVE  FormOK(f)'
    <2>1. FormOK(f)
        BY DEF FormInv
    <2>2. f \in settled' => SetWell(f, DOMAIN forms[f].fields)'
        BY <2>1 DEF FormOK, SetWell
    <2> QED BY <2>1, <2>2 DEF FormOK
<1>2. ASSUME NEW u \in Threads, u # t
      PROVE  FormCallOK(u)'
    <2>1. FormCallOK(u) /\ formCall'[u] = formCall[u] /\ Form(u)' = Form(u)
        BY <1>2 DEF FormInv, Form
    <2>2. Walked(u)' = Walked(u)
        BY <2>1 DEF Walked
    <2>3. \A names : SetWell(Form(u), names)' <=> SetWell(Form(u), names)
        BY <2>1 DEF SetWell
    <2>4. formCall[u].at # "idle" => Form(u) \in DOMAIN forms
        BY <2>1 DEF FormCallOK, Form
    <2> QED BY <2>1, <2>2, <2>3, <2>4 DEF FormCallOK
<1>3. \A u \in Threads : FormCallOK(u)'
    BY <1>2
<1> QED BY <1>1, <1>3 DEF FormInv

LEMMA InitFormKeeps ==
    ASSUME FormInv, NEW t \in Threads, NEW i \in FormIds, NEW fields \in FieldSets,
           InitForm(t, i, fields)
    PROVE  FormInv'
<1> DEFINE new == [fields |-> fields, status |-> "draft"]
<1>1. PICK f \in FormObjects \ DOMAIN forms :
         /\ forms' = Put(forms, f, new) /\ asSet' = Put(asSet, f, fields)
         /\ raced' = Put(raced, f, {}) /\ formNamed' = Put(formNamed, i, f)
    BY DEF InitForm
<1>2. fields \in Fields
    BY FieldsAssumption
<1>3. new \in FormRecords /\ new.fields = fields
    BY <1>2 DEF FormRecords
<1> HIDE DEF new
<1>4. /\ DOMAIN forms' = DOMAIN forms \cup {f} /\ forms'[f] = new
      /\ \A g \in DOMAIN forms : forms'[g] = forms[g]
    BY <1>1 DEF Put
<1>5. /\ DOMAIN asSet' = DOMAIN asSet \cup {f} /\ asSet'[f] = fields
      /\ \A g \in DOMAIN asSet : asSet'[g] = asSet[g]
    BY <1>1 DEF Put, FormInv
<1>6. /\ DOMAIN raced' = DOMAIN raced \cup {f} /\ raced'[f] = {}
      /\ \A g \in DOMAIN raced : raced'[g] = raced[g]
    BY <1>1 DEF Put, FormInv
<1>7. UNCHANGED <<formCall, settled>>
    BY DEF InitForm
<1>8. f \notin settled /\ \A g \in DOMAIN forms : g # f
    BY <1>1 DEF FormInv
<1>9. FormOK(f)'
    BY <1>2, <1>3, <1>4, <1>5, <1>6, <1>7, <1>8 DEF FormOK, Kept
<1>10. ASSUME NEW g \in DOMAIN forms
       PROVE  FormOK(g)'
    <2>1. FormOK(g) /\ forms'[g] = forms[g] /\ asSet'[g] = asSet[g] /\ raced'[g] = raced[g]
        BY <1>4, <1>5, <1>6 DEF FormInv
    <2> QED BY <1>7, <2>1 DEF FormOK, Kept, SetWell
<1>11. ASSUME NEW u \in Threads
       PROVE  FormCallOK(u)'
    <2>1. FormCallOK(u) /\ formCall'[u] = formCall[u] /\ Form(u)' = Form(u)
        BY <1>7 DEF FormInv, Form
    <2>2. Walked(u)' = Walked(u)
        BY <2>1 DEF Walked
    <2>3. formCall[u].at # "idle" => Form(u) \in DOMAIN forms
        BY <2>1 DEF FormCallOK, Form
    <2>4. Form(u) \in DOMAIN forms =>
            /\ forms'[Form(u)] = forms[Form(u)] /\ asSet'[Form(u)] = asSet[Form(u)]
            /\ raced'[Form(u)] = raced[Form(u)]
        BY <1>4, <1>5, <1>6 DEF FormInv
    <2>5. Form(u) \in DOMAIN forms =>
            \A names : SetWell(Form(u), names)' <=> SetWell(Form(u), names)
        BY <2>1, <2>4 DEF SetWell
    <2>6. DOMAIN forms \subseteq DOMAIN forms'
        BY <1>4
    <2> QED BY <2>1, <2>2, <2>3, <2>4, <2>5, <2>6 DEF FormCallOK
<1>12. \A j \in DOMAIN formNamed' : formNamed'[j] \in DOMAIN forms'
    BY <1>1, <1>4 DEF Put, FormInv
<1>13. formNamed' = [j \in DOMAIN formNamed' |-> formNamed'[j]]
    BY <1>1 DEF Put
<1>14. /\ DOMAIN asSet' = DOMAIN forms' /\ DOMAIN raced' = DOMAIN forms'
       /\ settled' \subseteq DOMAIN forms' /\ formCall' = [u \in Threads |-> formCall'[u]]
    BY <1>4, <1>5, <1>6, <1>7 DEF FormInv
<1> QED BY <1>4, <1>9, <1>10, <1>11, <1>12, <1>13, <1>14 DEF FormInv

\* A client sets the field n of form f: every other walk that holds the field
\* knows it is raced, and no submission of f goes on undisturbed.
LEMMA UpdateFieldKeeps ==
    ASSUME FormInv, NEW t \in Threads, UpdateField(t)
    PROVE  FormInv'
<1>a. PICK f \in DOMAIN forms : f = Form(t)
    BY DEF UpdateField, FormInv, FormCallOK, At, Form
<1>b. PICK n \in DOMAIN formCall[t].updates :
        LET v == formCall[t].updates[n]
            rest == [m \in DOMAIN formCall[t].updates \ {n} |-> formCall[t].updates[m]]
        IN  /\ forms' = [forms EXCEPT ![f].fields = StoredField(@, n, v)]
            /\ asSet' = [asSet EXCEPT ![f] = Put(@, n, v)]
            /\ raced' = [raced EXCEPT ![f] = IF Holds(f, n) THEN @ \cup {n} ELSE @ \ {n}]
            /\ settled' = settled \ {f}
            /\ formCall' = Disturbed(f, [formCall EXCEPT ![t].updates = rest])
    BY <1>a DEF UpdateField
<1>c. formCall[t] \in [at : {"update"}, form : DOMAIN forms, updates : Fields]
    BY DEF UpdateField, FormInv, FormCallOK, At
<1> DEFINE v == formCall[t].updates[n]
           rest == [m \in DOMAIN formCall[t].updates \ {n} |-> formCall[t].updates[m]]
           d == [formCall[t] EXCEPT !.updates = rest]
<1>1. n \in Names /\ v \in Values /\ rest \in Fields
    BY <1>c, FieldsAreFunctions, FieldsWithout
<1>2. /\ d \in [at : {"update"}, form : DOMAIN forms, updates : Fields] /\ d.form = formCall[t].form
      /\ d.at = "update"
    BY <1>1, <1>c
<1> HIDE DEF v, rest, d
<1>3. FormOK(f)
    BY DEF FormInv
<1>4. /\ DOMAIN forms' = DOMAIN forms
      /\ forms'[f] = [forms[f] EXCEPT !.fields = Put(forms[f].fields, n, v)]
      /\ \A g \in DOMAIN forms : g # f => forms'[g] = forms[g]
    BY <1>b DEF v, StoredField
<1>5. /\ DOMAIN asSet' = DOMAIN asSet /\ asSet'[f] = Put(asSet[f], n, v)
      /\ \A g \in DOMAIN forms : g # f => asSet'[g] = asSet[g]
    BY <1>b DEF v, FormInv
<1>6. /\ DOMAIN raced' = DOMAIN raced
      /\ raced'[f] = IF Holds(f, n) THEN raced[f] \cup {n} ELSE raced[f] \ {n}
      /\ \A g \in DOMAIN forms : g # f => raced'[g] = raced[g]
    BY <1>b DEF FormInv
<1>7. /\ formCall' = [u \in Threads |-> formCall'[u]]
      /\ formCall'[t] = d
      /\ \A u \in Threads : u # t =>
           formCall'[u] = IF formCall[u].at \in {"walk", "visit"} /\ formCall[u].form = f
                          THEN [formCall[u] EXCEPT !.alone = FALSE] ELSE formCall[u]
    <2>1. formCall' = Disturbed(f, [formCall EXCEPT ![t] = d])
        BY <1>b DEF d, rest
    <2> QED BY <1>2, <2>1 DEF Disturbed, FormInv
<1>8. forms[f].fields \in Fields /\ asSet[f] \in Fields /\ DOMAIN asSet[f] = DOMAIN forms[f].fields
    BY <1>3 DEF FormOK, FormRecords
<1>9. /\ Put(forms[f].fields, n, v) \in Fields /\ Put(asSet[f], n, v) \in Fields
      /\ DOMAIN Put(forms[f].fields, n, v) = DOMAIN forms[f].fields \cup {n}
      /\ DOMAIN Put(asSet[f], n, v) = DOMAIN forms[f].fields \cup {n}
    <2>1. /\ Put(forms[f].fields, n, v) \in Fields
          /\ DOMAIN Put(forms[f].fields, n, v) = DOMAIN forms[f].fields \cup {n}
        BY <1>1, <1>8, FieldsPut
    <2>2. /\ Put(asSet[f], n, v) \in Fields
          /\ DOMAIN Put(asSet[f], n, v) = DOMAIN asSet[f] \cup {n}
        BY <1>1, <1>8, FieldsPut
    <2> QED BY <1>8, <2>1, <2>2
<1>d. Put(forms[f].fields, n, v)[n] = v /\ Put(asSet[f], n, v)[n] = v
    BY <1>1, <1>8, FieldsPut
<1>e. \A m \in DOMAIN forms[f].fields : m # n =>
        /\ Put(forms[f].fields, n, v)[m] = forms[f].fields[m]
        /\ Put(asSet[f], n, v)[m] = asSet[f][m]
    <2>1. \A m \in DOMAIN forms[f].fields : m # n =>
            Put(forms[f].fields, n, v)[m] = forms[f].fields[m]
        BY <1>1, <1>8, FieldsPut
    <2>2. \A m \in DOMAIN asSet[f] : m # n => Put(asSet[f], n, v)[m] = asSet[f][m]
        BY <1>1, <1>8, FieldsPut
    <2> QED BY <1>8, <2>1, <2>2
<1>10. /\ forms'[f] \in FormRecords /\ forms'[f].fields = Put(forms[f].fields, n, v)
    BY <1>3, <1>4, <1>8, <1>9 DEF FormOK, FormRecords
<1>11. FormOK(f)'
    <2>1. raced'[f] \subseteq Names
        BY <1>1, <1>3, <1>6 DEF FormOK
    <2>2. f \notin settled'
        BY <1>b
    <2>3. DOMAIN asSet'[f] = DOMAIN forms'[f].fields /\ asSet'[f] \in Fields
        BY <1>5, <1>8, <1>9, <1>10
    <2>4. Kept(f)'
        <3> SUFFICES ASSUME NEW m \in DOMAIN forms'[f].fields,
                            forms'[f].fields[m] # asSet'[f][m]
                     PROVE  m \in raced'[f]
            BY DEF Kept
        <3>1. m # n /\ m \in DOMAIN forms[f].fields
            BY <1>5, <1>9, <1>10, <1>d
        <3>2. forms[f].fields[m] # asSet[f][m]
            BY <1>5, <1>10, <1>e, <3>1
        <3>3. m \in raced[f]
            BY <1>3, <3>1, <3>2 DEF FormOK, Kept
        <3> QED BY <1>6, <3>1, <3>3
    <2> QED BY <1>10, <2>1, <2>2, <2>3, <2>4 DEF FormOK
<1>12. ASSUME NEW g \in DOMAIN forms, g # f
       PROVE  FormOK(g)'
    <2>1. /\ FormOK(g) /\ forms'[g] = forms[g] /\ asSet'[g] = asSet[g] /\ raced'[g] = raced[g]
          /\ (g \in settled' => g \in settled)
        BY <1>b, <1>4, <1>5, <1>6, <1>12 DEF FormInv
    <2> QED BY <2>1 DEF FormOK, Kept, SetWell
<1>13. FormCallOK(t)'
    BY <1>2, <1>4, <1>7 DEF FormCallOK
<1>14. ASSUME NEW u \in Threads, u # t, ~(formCall[u].at \in {"walk", "visit"} /\ formCall[u].form = f)
       PROVE  FormCallOK(u)'
    <2>1. FormCallOK(u) /\ formCall'[u] = formCall[u] /\ Form(u)' = Form(u)
        BY <1>7, <1>14 DEF FormInv, Form
    <2>2. Walked(u)' = Walked(u)
        BY <2>1 DEF Walked
    <2>3. formCall[u].at \in {"walk", "visit"} => Form(u) \in DOMAIN forms \ {f}
        BY <1>14, <2>1 DEF FormCallOK, Form
    <2>4. Form(u) \in DOMAIN forms \ {f} =>
            /\ forms'[Form(u)] = forms[Form(u)] /\ asSet'[Form(u)] = asSet[Form(u)]
            /\ raced'[Form(u)] = raced[Form(u)]
        BY <1>4, <1>5, <1>6
    <2>5. Form(u) \in DOMAIN forms \ {f} =>
            \A names : SetWell(Form(u), names)' <=> SetWell(Form(u), names)
        BY <2>1, <2>4 DEF SetWell
    <2> QED BY <1>4, <2>1, <2>2, <2>3, <2>4, <2>5 DEF FormCallOK
<1>15. ASSUME NEW u \in Threads, u # t, formCall[u].at \in {"walk", "visit"}, formCall[u].form = f
       PROVE  FormCallOK(u)'
    <2>1. FormCallOK(u) /\ formCall'[u] = [formCall[u] EXCEPT !.alone = FALSE]
        BY <1>7, <1>15 DEF FormInv
    <2>2. DOMAIN forms[f].fields \subseteq DOMAIN forms'[f].fields
        BY <1>8, <1>9, <1>10
    <2>3. CASE formCall[u].at = "walk"
        BY <1>4, <1>15, <2>1, <2>2, <2>3 DEF FormCallOK, Form
    <2>4. CASE formCall[u].at = "visit"
        <3> DEFINE m == formCall[u].name
        <3>1. m \in DOMAIN asSet[f] /\ m \in formCall[u].names
            BY <1>8, <1>15, <2>1, <2>4 DEF FormCallOK, Form
        <3>2. formCall[u].value # asSet'[f][m] => m \in raced'[f]
            <4>1. CASE m = n
                <5>1. Holds(f, n)
                    BY <1>15, <2>4, <4>1 DEF Holds, At, Form
                <5> QED BY <1>6, <4>1, <5>1
            <4>2. CASE m # n
                <5>1. asSet'[f][m] = asSet[f][m]
                    BY <1>5, <1>8, <1>e, <3>1, <4>2
                <5>2. formCall[u].value # asSet[f][m] => m \in raced[f]
                    BY <1>15, <2>1, <2>4 DEF FormCallOK, Form
                <5> QED BY <1>6, <4>2, <5>1, <5>2
            <4> QED BY <4>1, <4>2
        <3> QED BY <1>4, <1>15, <2>1, <2>2, <2>4, <3>1, <3>2 DEF FormCallOK, Form
    <2> QED BY <1>15, <2>3, <2>4
<1>16. formNamed' = formNamed /\ settled' \subseteq DOMAIN forms'
    BY <1>b, <1>4 DEF UpdateField, FormInv
<1>17. \A u \in Threads : FormCallOK(u)'
    BY <1>13, <1>14, <1>15
<1>18. DOMAIN asSet' = DOMAIN forms' /\ DOMAIN raced' = DOMAIN forms'
    BY <1>4, <1>5, <1>6 DEF FormInv
<1> QED BY <1>4, <1>7, <1>11, <1>12, <1>16, <1>17, <1>18 DEF FormInv

\* The requests that leave the forms alone.
LEMMA CalmRequest ==
    ASSUME FormInv, NEW t \in Threads, NEW c, formCall' = [formCall EXCEPT ![t] = c],
           UNCHANGED <<formNamed, forms, asSet, raced, settled>>, FormCallOK(t)'
    PROVE  FormInv'
<1>1. \A f \in DOMAIN forms : FormOK(f)
    BY DEF FormInv
<1>2. \A f \in DOMAIN forms : /\ forms'[f] \in FormRecords
                              /\ DOMAIN forms'[f].fields = DOMAIN forms[f].fields
    BY <1>1 DEF FormOK
<1>3. \A f \in DOMAIN forms : Kept(f)'
    BY <1>1 DEF FormOK, Kept
<1>4. settled' \subseteq DOMAIN forms
    BY DEF FormInv
<1> QED BY <1>2, <1>3, <1>4, WalkStep

LEMMA Answers ==
    ASSUME FormInv, NEW t \in Threads, FormAnswer(t)
    PROVE  formCall' = [formCall EXCEPT ![t] = Idle] /\ FormCallOK(t)'
<1>1. formCall'[t] = Idle
    BY DEF FormAnswer, FormInv
<1>2. Idle.at = "idle"
    BY DEF Idle
<1> QED BY <1>1, <1>2 DEF FormAnswer, FormCallOK

LEMMA StartUpdateKeeps ==
    ASSUME FormInv, NEW t \in Threads, NEW i \in FormIds, NEW updates \in FieldSets,
           StartUpdate(t, i, updates)
    PROVE  FormInv'
<1> DEFINE c == [at |-> "update", form |-> formNamed[i], updates |-> updates]
<1>1. formNamed[i] \in DOMAIN forms /\ updates \in Fields
    BY FieldsAssumption DEF StartUpdate, Finds, FormInv
<1>2. /\ formCall' = [formCall EXCEPT ![t] = c]
      /\ UNCHANGED <<formNamed, forms, asSet, raced, settled>>
    BY DEF StartUpdate
<1>3. c \in [at : {"update"}, form : DOMAIN forms, updates : Fields]
    BY <1>1
<1> HIDE DEF c
<1>4. FormCallOK(t)'
    BY <1>2, <1>3 DEF FormCallOK, FormInv
<1> QED BY <1>2, <1>4, CalmRequest

LEMMA VisitFieldKeeps ==
    ASSUME FormInv, NEW t \in Threads, VisitField(t)
    PROVE  FormInv'
<1>0. FormCallOK(t) /\ formCall[t].at = "walk"
    BY DEF VisitField, At, FormInv
<1>a. PICK f \in DOMAIN forms : f = Form(t) /\ FormOK(f)
    BY <1>0 DEF FormCallOK, Form, FormInv
<1>b. PICK n \in formCall[t].left :
        formCall' = [formCall EXCEPT ![t] =
          [at |-> "visit", form |-> @.form, walk |-> @.walk, names |-> @.names,
           left |-> @.left \ {n}, alone |-> @.alone, name |-> n,
           value |-> forms[f].fields[n]]]
    BY <1>a DEF VisitField
<1> DEFINE o == formCall[t]
           c == [at |-> "visit", form |-> o.form, walk |-> o.walk, names |-> o.names,
                 left |-> o.left \ {n}, alone |-> o.alone, name |-> n,
                 value |-> forms[f].fields[n]]
<1>1. /\ o \in [at : {"walk"}, form : DOMAIN forms, walk : Walks, names : SUBSET Names,
                left : SUBSET Names, alone : BOOLEAN]
      /\ o.names \subseteq DOMAIN forms[f].fields /\ o.form = f /\ o.left \subseteq o.names
      /\ o.walk = "submit" /\ o.alone => SetWell(f, o.names \ o.left)
    BY <1>0, <1>a DEF FormCallOK, Form, Walked
<1>2. forms[f].fields \in Fields /\ Kept(f) /\ DOMAIN forms[f].fields \subseteq Names
    BY <1>a, FieldsAreFunctions DEF FormOK, FormRecords
<1>3. n \in o.left /\ n \in DOMAIN forms[f].fields /\ forms[f].fields[n] \in Values
    BY <1>1, <1>2, FieldsAreFunctions
<1>4. /\ c \in [at : {"visit"}, form : DOMAIN forms, walk : Walks, names : SUBSET Names,
                left : SUBSET Names, alone : BOOLEAN, name : Names, value : Values]
      /\ c.at = "visit" /\ c.form = f /\ c.name = n /\ c.names = o.names /\ c.left = o.left \ {n}
      /\ c.walk = o.walk /\ c.alone = o.alone /\ c.value = forms[f].fields[n]
    BY <1>1, <1>2, <1>3
<1>5. /\ formCall' = [formCall EXCEPT ![t] = c]
      /\ UNCHANGED <<formNamed, forms, asSet, raced, settled>>
    BY <1>b DEF VisitField
<1> HIDE DEF o, c
<1>6. /\ formCall'[t] = c /\ Form(t)' = f
    BY <1>4, <1>5 DEF FormInv, Form
<1>w. PICK done : done = o.names \ o.left
    OBVIOUS
<1>7. Walked(t)' = done
    BY <1>3, <1>4, <1>6, <1>w DEF Walked
<1>8. c.walk = "submit" /\ c.alone => SetWell(f, done)'
    BY <1>1, <1>4, <1>5, <1>w DEF SetWell
<1>9. c.value # asSet'[f][n] => n \in raced'[f]
    BY <1>2, <1>3, <1>4, <1>5 DEF Kept
<1>10. SetWell(Form(t), Walked(t))' <=> SetWell(f, done)'
    BY <1>6, <1>7 DEF SetWell
<1>11. FormCallOK(t)'
    BY <1>1, <1>3, <1>4, <1>5, <1>6, <1>8, <1>9, <1>10 DEF FormCallOK
<1> QED BY <1>5, <1>11, CalmRequest

\* To end a walk, or begin one, writes at most the form's status.
LEMMA StartWalkKeeps ==
    ASSUME FormInv, NEW t \in Threads, NEW i \in FormIds, NEW walk \in Walks,
           StartWalkOf(t, i, walk)
    PROVE  FormInv'
<1>a. PICK f \in DOMAIN forms : f = formNamed[i] /\ FormOK(f)
    BY DEF StartWalkOf, Finds, FormInv
<1> DEFINE names == DOMAIN forms[f].fields
           c == [at |-> "walk", form |-> f, walk |-> walk, names |-> names, left |-> names,
                 alone |-> TRUE]
<1>1. names \subseteq Names
    BY <1>a, FieldsAreFunctions DEF FormOK, FormRecords
<1>2. /\ formCall' = [formCall EXCEPT ![t] = c] /\ UNCHANGED <<formNamed, asSet, raced, settled>>
      /\ forms' = IF walk = "submit" THEN [forms EXCEPT ![f].status = "submitting"] ELSE forms
    BY <1>a DEF StartWalkOf
<1>3. /\ c \in [at : {"walk"}, form : DOMAIN forms, walk : Walks, names : SUBSET Names,
                left : SUBSET Names, alone : BOOLEAN]
      /\ c.form = f /\ c.names = names /\ c.left = names /\ c.at = "walk"
    BY <1>1
<1> HIDE DEF c
<1>4. \A g \in DOMAIN forms : FormOK(g)
    BY DEF FormInv
<1>5. /\ DOMAIN forms' = DOMAIN forms
      /\ \A g \in DOMAIN forms : /\ forms'[g] \in FormRecords
                                 /\ forms'[g].fields = forms[g].fields
    BY <1>2, <1>4 DEF FormOK, FormRecords
<1>6. \A g \in DOMAIN forms : Kept(g)'
    BY <1>2, <1>4, <1>5 DEF FormOK, Kept
<1>7. formCall'[t] = c /\ Form(t)' = f
    BY <1>2, <1>3 DEF FormInv, Form
<1>8. Walked(t)' = {}
    BY <1>3, <1>7 DEF Walked
<1>9. SetWell(Form(t), Walked(t))'
    BY <1>8 DEF SetWell
<1>10. FormCallOK(t)'
    BY <1>3, <1>5, <1>7, <1>9 DEF FormCallOK
<1>11. settled' \subseteq DOMAIN forms
    BY <1>2 DEF FormInv
<1> QED BY <1>2, <1>5, <1>6, <1>10, <1>11, WalkStep

LEMMA EndOfWalkKeeps ==
    ASSUME FormInv, NEW t \in Threads, EndOfWalk(t)
    PROVE  FormInv'
<1>0. FormCallOK(t) /\ formCall[t].at = "walk"
    BY DEF EndOfWalk, At, FormInv
<1>a. PICK f \in DOMAIN forms : f = Form(t)
    BY <1>0 DEF FormCallOK, Form
<1>1. formCall' = [formCall EXCEPT ![t] = Idle] /\ FormCallOK(t)'
    BY Answers DEF EndOfWalk
<1>2. UNCHANGED <<formNamed, asSet, raced>>
    BY DEF EndOfWalk
<1>3. \A g \in DOMAIN forms : FormOK(g)
    BY DEF FormInv
<1>4. /\ DOMAIN forms' = DOMAIN forms
      /\ \A g \in DOMAIN forms : /\ forms'[g] \in FormRecords
                                 /\ forms'[g].fields = forms[g].fields
    BY <1>3, <1>a DEF EndOfWalk, FormOK, FormRecords
<1>5. \A g \in DOMAIN forms : Kept(g)'
    BY <1>2, <1>3, <1>4 DEF FormOK, Kept
<1>6. settled' \subseteq DOMAIN forms
    BY <1>a DEF EndOfWalk, FormInv
<1>7. ASSUME NEW g \in settled' \ settled
      PROVE  SetWell(g, DOMAIN forms[g].fields)
    <2>1. g = f /\ formCall[t].walk = "submit" /\ formCall[t].alone
        BY <1>a, <1>7 DEF EndOfWalk
    <2>2. Walked(t) = DOMAIN forms[f].fields
        BY <1>0, <1>a DEF EndOfWalk, Walked
    <2> QED BY <1>0, <1>a, <2>1, <2>2 DEF FormCallOK
<1> QED BY <1>1, <1>2, <1>4, <1>5, <1>6, <1>7, WalkStep

\* A walk writes back the value it has read: the one a client set last, or one
\* of a raced field.
LEMMA WriteBackWrites ==
    ASSUME FormInv, NEW t \in Threads, NEW f \in DOMAIN forms, f = Form(t),
           At(formCall, t, "visit")
    PROVE  /\ WrittenBack(t) \in Fields /\ DOMAIN WrittenBack(t) = DOMAIN forms[f].fields
           /\ \A n \in DOMAIN forms[f].fields :
                WrittenBack(t)[n] # asSet[f][n] => n \in raced[f]
<1>0. FormCallOK(t) /\ formCall[t].at = "visit" /\ FormOK(f)
    BY DEF At, FormInv
<1>1. /\ formCall[t].name \in DOMAIN forms[f].fields /\ formCall[t].value \in Values
      /\ formCall[t].form = f
      /\ formCall[t].value # asSet[f][formCall[t].name] => formCall[t].name \in raced[f]
    BY <1>0 DEF FormCallOK, Form
<1>2. PICK S \in SUBSET Names : forms[f].fields \in [S -> Values]
    BY <1>0 DEF FormOK, FormRecords, Fields
<1>3. WrittenBack(t) \in [S -> Values]
    BY <1>1, <1>2 DEF WrittenBack
<1>4. WrittenBack(t) \in Fields /\ DOMAIN WrittenBack(t) = DOMAIN forms[f].fields
    BY <1>2, <1>3 DEF Fields
<1>5. Kept(f)
    BY <1>0 DEF FormOK
<1> QED BY <1>1, <1>2, <1>4, <1>5 DEF Kept, WrittenBack

\* The forms after such a write are as good as before.
LEMMA WrittenForms ==
    ASSUME FormInv, NEW t \in Threads, NEW f \in DOMAIN forms, f = Form(t),
           At(formCall, t, "visit"), UNCHANGED <<asSet, raced>>,
           DOMAIN forms' = DOMAIN forms,
           forms'[f] \in [fields : {WrittenBack(t)},
                          status : {"draft", "submitting", "submitted", "error"}],
           \A g \in DOMAIN forms : g # f => forms'[g] = forms[g]
    PROVE  /\ \A g \in DOMAIN forms : /\ forms'[g] \in FormRecords
                                      /\ DOMAIN forms'[g].fields = DOMAIN forms[g].fields
           /\ \A g \in DOMAIN forms : Kept(g)'
<1>1. \A g \in DOMAIN forms : FormOK(g)
    BY DEF FormInv
<1>2. /\ WrittenBack(t) \in Fields /\ DOMAIN WrittenBack(t) = DOMAIN forms[f].fields
      /\ \A n \in DOMAIN forms[f].fields : WrittenBack(t)[n] # asSet[f][n] => n \in raced[f]
    BY WriteBackWrites
<1>3. /\ forms'[f] \in FormRecords /\ forms'[f].fields = WrittenBack(t)
    BY <1>2 DEF FormRecords
<1>4. Kept(f)'
    BY <1>2, <1>3 DEF Kept
<1>5. \A g \in DOMAIN forms : g # f => Kept(g)' /\ forms'[g] \in FormRecords
    BY <1>1 DEF FormOK, Kept
<1> QED BY <1>2, <1>3, <1>4, <1>5

LEMMA RejectFieldKeeps ==
    ASSUME FormInv, NEW t \in Threads, RejectField(t)
    PROVE  FormInv'
<1>a. PICK f \in DOMAIN forms : f = Form(t)
    BY DEF RejectField, At, FormInv, FormCallOK, Form
<1>1. formCall' = [formCall EXCEPT ![t] = Idle] /\ FormCallOK(t)'
    BY Answers DEF RejectField
<1>2. /\ forms' = [forms EXCEPT ![f].fields = WrittenBack(t), ![f].status = "error"]
      /\ UNCHANGED <<formNamed, asSet, raced, settled>> /\ At(formCall, t, "visit")
    BY <1>a DEF RejectField
<1>3. FormOK(f)
    BY DEF FormInv
<1>4. /\ DOMAIN forms' = DOMAIN forms
      /\ \A g \in DOMAIN forms : g # f => forms'[g] = forms[g]
    BY <1>2
<1>5. forms'[f] = [forms[f] EXCEPT !.fields = WrittenBack(t), !.status = "error"]
    BY <1>2
<1>6. forms'[f] \in [fields : {WrittenBack(t)},
                     status : {"draft", "submitting", "submitted", "error"}]
    BY <1>3, <1>5 DEF FormOK, FormRecords
<1>7. /\ \A g \in DOMAIN forms : /\ forms'[g] \in FormRecords
                                 /\ DOMAIN forms'[g].fields = DOMAIN forms[g].fields
      /\ \A g \in DOMAIN forms : Kept(g)'
    BY <1>a, <1>2, <1>4, <1>6, WrittenForms
<1>8. settled' \subseteq DOMAIN forms /\ settled' \ settled = {}
    BY <1>2 DEF FormInv
<1> QED BY <1>1, <1>2, <1>4, <1>7, <1>8, WalkStep

LEMMA WriteBackKeeps ==
    ASSUME FormInv, NEW t \in Threads, WriteBack(t)
    PROVE  FormInv'
<1>0. FormCallOK(t) /\ formCall[t].at = "visit"
    BY DEF WriteBack, At, FormInv
<1>a. PICK f \in DOMAIN forms : f = Form(t)
    BY <1>0 DEF FormCallOK, Form
<1> DEFINE o == formCall[t]
           c == [at |-> "walk", form |-> o.form, walk |-> o.walk, names |-> o.names,
                 left |-> o.left, alone |-> o.alone]
<1>1. /\ forms' = [forms EXCEPT ![f].fields = WrittenBack(t)]
      /\ formCall' = [formCall EXCEPT ![t] = c]
      /\ UNCHANGED <<formNamed, asSet, raced, settled>> /\ At(formCall, t, "visit")
    BY <1>a DEF WriteBack, Resume
<1>2. /\ o \in [at : {"visit"}, form : DOMAIN forms, walk : Walks, names : SUBSET Names,
                left : SUBSET Names, alone : BOOLEAN, name : Names, value : Values]
      /\ o.form = f /\ o.names \subseteq DOMAIN forms[f].fields /\ o.left \subseteq o.names
      /\ (o.walk = "submit" /\ o.alone => SetWell(f, o.names \ (o.left \cup {o.name})))
      /\ (o.value # asSet[f][o.name] => o.name \in raced[f])
      /\ (o.walk = "submit" => ~Invalid(o.name, o.value))
    BY <1>0, <1>a DEF FormCallOK, Form, Walked, WriteBack
<1>3. /\ c \in [at : {"walk"}, form : DOMAIN forms, walk : Walks, names : SUBSET Names,
                left : SUBSET Names, alone : BOOLEAN]
      /\ c.form = f /\ c.names = o.names /\ c.left = o.left /\ c.at = "walk"
      /\ c.walk = o.walk /\ c.alone = o.alone
    BY <1>2
<1> HIDE DEF o, c
<1>4. FormOK(f)
    BY DEF FormInv
<1>5. /\ DOMAIN forms' = DOMAIN forms
      /\ \A g \in DOMAIN forms : g # f => forms'[g] = forms[g]
    BY <1>1
<1>6. forms'[f] = [forms[f] EXCEPT !.fields = WrittenBack(t)]
    BY <1>1
<1>7. forms'[f] \in [fields : {WrittenBack(t)},
                     status : {"draft", "submitting", "submitted", "error"}]
    BY <1>4, <1>6 DEF FormOK, FormRecords
<1>8. /\ \A g \in DOMAIN forms : /\ forms'[g] \in FormRecords
                                 /\ DOMAIN forms'[g].fields = DOMAIN forms[g].fields
      /\ \A g \in DOMAIN forms : Kept(g)'
    BY <1>a, <1>1, <1>5, <1>7, WrittenForms
<1>9. settled' \subseteq DOMAIN forms /\ settled' \ settled = {}
    BY <1>1 DEF FormInv
<1>10. formCall'[t] = c /\ Form(t)' = f
    BY <1>1, <1>3 DEF FormInv, Form
<1>w. PICK done : done = o.names \ o.left
    OBVIOUS
<1>11. Walked(t)' = done
    BY <1>3, <1>10, <1>w DEF Walked
<1>12. c.walk = "submit" /\ c.alone => SetWell(f, done)
    <2> SUFFICES ASSUME o.walk = "submit", o.alone, NEW n \in done \ raced[f]
                 PROVE  ~Invalid(n, asSet[f][n])
        BY <1>3 DEF SetWell
    <2>1. CASE n = o.name
        BY <1>2, <2>1
    <2>2. CASE n # o.name
        BY <1>2, <1>w, <2>2 DEF SetWell
    <2> QED BY <2>1, <2>2
<1>13. SetWell(f, done)' <=> SetWell(f, done)
    BY <1>1 DEF SetWell
<1>14. SetWell(Form(t), Walked(t))' <=> SetWell(f, done)'
    BY <1>10, <1>11 DEF SetWell
<1>15. c.left \subseteq c.names /\ c.names \subseteq DOMAIN forms'[f].fields
    BY <1>2, <1>3, <1>8
<1>16. FormCallOK(t)'
    BY <1>3, <1>5, <1>10, <1>12, <1>13, <1>14, <1>15 DEF FormCallOK
<1> QED BY <1>1, <1>5, <1>8, <1>9, <1>16, WalkStep

LEMMA FormInvNext == FormInv /\ [FormNext]_formVars => FormInv'
<1> SUFFICES ASSUME FormInv, [FormNext]_formVars PROVE FormInv'
    OBVIOUS
<1>1. ASSUME NEW t \in Threads, EndUpdate(t) \/ WalkRaises(t)
      PROVE  FormInv'
    <2>1. /\ FormAnswer(t) /\ UNCHANGED <<formNamed, forms, asSet, raced, settled>>
        BY <1>1 DEF EndUpdate, WalkRaises
    <2>2. formCall' = [formCall EXCEPT ![t] = Idle] /\ FormCallOK(t)'
        BY <2>1, Answers
    <2> QED BY <2>1, <2>2, CalmRequest
<1>2. ASSUME NEW t \in Threads, NEW i \in FormIds, DeleteForm(t, i)
      PROVE  FormInv'
    <2>1. \A f \in DOMAIN forms : FormOK(f)'
        BY <1>2 DEF DeleteForm, FormInv, FormOK, Kept, SetWell
    <2>2. \A u \in Threads : FormCallOK(u)'
        BY <1>2 DEF DeleteForm, FormInv, FormCallOK, Form, Walked, SetWell
    <2> QED BY <1>2, <2>1, <2>2 DEF DeleteForm, FormInv
<1>3. CASE CloseForms
    BY <1>3 DEF CloseForms, FormInv, AllIdle, Idle, FormCallOK
<1>4. CASE UNCHANGED formVars
    <2>1. \A f \in DOMAIN forms : FormOK(f)'
        BY <1>4 DEF formVars, FormInv, FormOK, Kept, SetWell
    <2>2. \A u \in Threads : FormCallOK(u)'
        BY <1>4 DEF formVars, FormInv, FormCallOK, Form, Walked, SetWell
    <2> QED BY <1>4, <2>1, <2>2 DEF formVars, FormInv
<1> QED BY <1>1, <1>2, <1>3, <1>4, InitFormKeeps, StartUpdateKeeps, StartWalkKeeps,
           UpdateFieldKeeps, VisitFieldKeeps, WriteBackKeeps, RejectFieldKeeps, EndOfWalkKeeps
        DEF FormNext

\* A value that a client has set is undone by a walk only if the walk held the
\* old one when it was set (agentfield_bridge.py, form_submit and form_validate).
THEOREM UpdatesStay == FormSpec => []UpdatesAreKept
<1>1. FormInv => UpdatesAreKept
    BY DEF FormInv, FormOK, Kept, UpdatesAreKept
<1> QED BY <1>1, FormInvInit, FormInvNext, PTL DEF FormSpec

\* A form that was submitted undisturbed is valid (agentfield_bridge.py,
\* form_submit).
THEOREM SubmittedFormsAreValid == FormSpec => []SubmittedIsValid
<1>1. FormInv => SubmittedIsValid
    <2> SUFFICES ASSUME FormInv, NEW f \in settled, NEW n \in DOMAIN forms[f].fields \ raced[f]
                 PROVE  ~Invalid(n, forms[f].fields[n])
        BY DEF SubmittedIsValid
    <2>1. f \in DOMAIN forms /\ FormOK(f)
        BY DEF FormInv
    <2> QED BY <2>1 DEF FormOK, Kept, SetWell
<1> QED BY <1>1, FormInvInit, FormInvNext, PTL DEF FormSpec

---------------------------------------------------------------------------
(* Pydantic: a name whose results are kept has a list that nobody is about *)
(* to make, for a request makes it only when there is none.                *)

\* A request under way knows its schema's name, and has a list to record in.
Recording(t) ==
  /\ schemaCall[t].at \in {"found", "list", "record"} => schemaCall[t].name \in SchemaNames
  /\ schemaCall[t].at = "record" => schemaCall[t].name \in DOMAIN history
  /\ schemaCall[t].at = "list" => {"at", "name"} \subseteq DOMAIN schemaCall[t]

Settled(n) ==
  kept[n] # {} => n \in DOMAIN history /\ kept[n] \subseteq history[n] /\ Makers(n) = {}

SchemaInv ==
  /\ DOMAIN schemas \subseteq SchemaNames
  /\ \A n \in DOMAIN schemas : schemas[n] \in [DOMAIN schemas[n] -> SchemaFields]
  /\ DOMAIN kept = SchemaNames
  /\ schemaCall = [t \in Threads |-> schemaCall[t]]
  /\ \A t \in Threads : Recording(t)
  /\ \A n \in SchemaNames : Settled(n)

LEMMA SchemaInvInit == SchemaInit => SchemaInv
BY DEF SchemaInit, SchemaInv, AllIdle, Idle, Recording, Settled

\* The lists stay or grow, and a request makes one only where nothing is kept.
LEMMA ListsGrow ==
    ASSUME SchemaInv, NEW t \in Threads, NEW c,
           schemaCall' = [schemaCall EXCEPT ![t] = c],
           DOMAIN history \subseteq DOMAIN history',
           c.at \in {"found", "list", "record"} => c.name \in SchemaNames,
           c.at = "record" => c.name \in DOMAIN history',
           c.at = "list" => kept[c.name] = {} /\ {"at", "name"} \subseteq DOMAIN c,
           DOMAIN schemas' \subseteq SchemaNames,
           \A n \in DOMAIN schemas' : schemas'[n] \in [DOMAIN schemas'[n] -> SchemaFields],
           DOMAIN kept' = SchemaNames,
           \A n \in SchemaNames : kept[n] # {} => history[n] \subseteq history'[n],
           \A n \in SchemaNames : kept'[n] # kept[n] =>
             n \in DOMAIN history' /\ kept'[n] \subseteq history'[n] /\ Makers(n) = {}
             /\ c.at # "list"
    PROVE  SchemaInv'
<1>1. /\ schemaCall'[t] = c
      /\ \A u \in Threads : u # t => schemaCall'[u] = schemaCall[u]
    BY DEF SchemaInv
<1>2. \A u \in Threads : Recording(u)'
    BY <1>1 DEF SchemaInv, Recording
<1>3. \A n : Makers(n)' \subseteq Makers(n) \cup (IF c.at = "list" /\ c.name = n THEN {t} ELSE {})
    BY <1>1 DEF Makers, At
<1>4. ASSUME NEW n \in SchemaNames, kept'[n] # {}
      PROVE  n \in DOMAIN history' /\ kept'[n] \subseteq history'[n] /\ Makers(n)' = {}
    <2>1. CASE kept'[n] = kept[n]
        <3>1. n \in DOMAIN history /\ kept[n] \subseteq history[n] /\ Makers(n) = {}
            BY <1>4, <2>1 DEF SchemaInv, Settled
        <3> QED BY <1>3, <1>4, <2>1, <3>1
    <2>2. CASE kept'[n] # kept[n]
        BY <1>3, <2>2
    <2> QED BY <2>1, <2>2
<1> QED BY <1>2, <1>4 DEF SchemaInv, Settled

LEMMA SchemaInvNext == SchemaInv /\ [SchemaNext]_schemaVars => SchemaInv'
<1> SUFFICES ASSUME SchemaInv, [SchemaNext]_schemaVars PROVE SchemaInv'
    OBVIOUS
<1> USE DEF At
<1>1. ASSUME NEW t \in Threads, NEW n \in SchemaNames, NEW xs \in SUBSET FieldNames,
             NEW fields \in [xs -> SchemaFields], SchemaCreate(t, n, fields)
      PROVE  SchemaInv'
    <2>1. /\ DOMAIN schemas' \subseteq SchemaNames
          /\ \A s \in DOMAIN schemas' : schemas'[s] \in [DOMAIN schemas'[s] -> SchemaFields]
        BY <1>1 DEF SchemaCreate, Put, SchemaInv
    <2> QED BY <1>1, <2>1 DEF SchemaCreate, SchemaInv, Recording, Settled, Makers
<1>2. ASSUME NEW t \in Threads, NEW n \in SchemaNames, SchemaDelete(t, n)
      PROVE  SchemaInv'
    BY <1>2 DEF SchemaDelete, SchemaInv, Recording, Settled, Makers
<1>3. ASSUME NEW t \in Threads, NEW n \in SchemaNames, StartValidation(t, n)
      PROVE  SchemaInv'
    <2> DEFINE c == [at |-> "found", name |-> n, id |-> validated + 1]
    <2>1. schemaCall' = [schemaCall EXCEPT ![t] = c] /\ UNCHANGED <<schemas, history, kept>>
        BY <1>3 DEF StartValidation
    <2>2. c.at = "found" /\ c.name = n
        OBVIOUS
    <2> HIDE DEF c
    <2> QED BY <2>1, <2>2, ListsGrow DEF SchemaInv
<1>4. ASSUME NEW t \in Threads, SchemaGone(t)
      PROVE  SchemaInv'
    <2>1. schemaCall' = [schemaCall EXCEPT ![t] = Idle] /\ UNCHANGED <<schemas, history, kept>>
        BY <1>4 DEF SchemaGone
    <2>2. Idle.at = "idle"
        BY DEF Idle
    <2> QED BY <2>1, <2>2, ListsGrow DEF SchemaInv
<1>5. ASSUME NEW t \in Threads, Judge(t)
      PROVE  SchemaInv'
    <2>1. PICK n \in SchemaNames : n = schemaCall[t].name
        BY <1>5 DEF Judge, SchemaInv, Recording
    <2>2. PICK data \in [DOMAIN schemas[n] -> DataValues] :
             schemaCall' = [schemaCall EXCEPT ![t] =
               [at |-> IF n \in DOMAIN history THEN "record" ELSE "list", name |-> n,
                id |-> schemaCall[t].id, valid |-> Valid(schemas[n], data)]]
        BY <1>5, <2>1 DEF Judge
    <2> DEFINE c == [at |-> IF n \in DOMAIN history THEN "record" ELSE "list", name |-> n,
                     id |-> schemaCall[t].id, valid |-> Valid(schemas[n], data)]
    <2>3. schemaCall' = [schemaCall EXCEPT ![t] = c] /\ UNCHANGED <<schemas, history, kept>>
        BY <1>5, <2>2 DEF Judge
    <2>4. /\ c.name = n /\ c.at \in {"record", "list"}
          /\ (c.at = "record") <=> (n \in DOMAIN history)
        OBVIOUS
    <2>a. {"at", "name"} \subseteq DOMAIN c
        OBVIOUS
    <2> HIDE DEF c
    <2>5. c.at = "list" => kept[c.name] = {} /\ {"at", "name"} \subseteq DOMAIN c
        BY <2>4, <2>a DEF SchemaInv, Settled
    <2> QED BY <2>3, <2>4, <2>5, ListsGrow DEF SchemaInv
<1>6. ASSUME NEW t \in Threads, MakeHistory(t)
      PROVE  SchemaInv'
    <2>1. PICK n \in SchemaNames : n = schemaCall[t].name
        BY <1>6 DEF MakeHistory, SchemaInv, Recording
    <2> DEFINE c == [schemaCall[t] EXCEPT !.at = "record"]
    <2>2. /\ schemaCall' = [schemaCall EXCEPT ![t] = c] /\ UNCHANGED <<schemas, kept>>
          /\ history' = Put(history, n, {})
        BY <1>6, <2>1 DEF MakeHistory
    <2>3. t \in Makers(n)
        BY <1>6, <2>1 DEF MakeHistory, Makers
    <2>4. kept[n] = {}
        BY <2>3 DEF SchemaInv, Settled
    <2>5. /\ DOMAIN history' = DOMAIN history \cup {n}
          /\ \A s \in DOMAIN history : s # n => history'[s] = history[s]
        BY <2>2 DEF Put
    <2>6. c.at = "record" /\ c.name = n
        BY <1>6, <2>1 DEF MakeHistory, SchemaInv, Recording
    <2> HIDE DEF c
    <2>7. \A s \in SchemaNames : kept[s] # {} => history[s] \subseteq history'[s]
        BY <2>4, <2>5 DEF SchemaInv, Settled
    <2>8. n \in DOMAIN history' /\ DOMAIN history \subseteq DOMAIN history'
        BY <2>5
    <2> QED BY <2>2, <2>6, <2>7, <2>8, ListsGrow DEF SchemaInv
<1>7. ASSUME NEW t \in Threads, RecordValidation(t)
      PROVE  SchemaInv'
    <2>1. PICK n \in SchemaNames : n = schemaCall[t].name /\ n \in DOMAIN history
        BY <1>7 DEF RecordValidation, SchemaInv, Recording
    <2>2. PICK result : result = [id |-> schemaCall[t].id, valid |-> schemaCall[t].valid]
        OBVIOUS
    <2>3. /\ schemaCall' = [schemaCall EXCEPT ![t] = Idle] /\ schemas' = schemas
          /\ history' = [history EXCEPT ![n] = @ \cup {result}]
          /\ kept' = IF Makers(n) = {} THEN [kept EXCEPT ![n] = @ \cup {result}] ELSE kept
        BY <1>7, <2>1, <2>2 DEF RecordValidation
    <2>4. /\ DOMAIN history' = DOMAIN history /\ history'[n] = history[n] \cup {result}
          /\ \A s \in DOMAIN history : s # n => history'[s] = history[s]
        BY <2>1, <2>3
    <2>5. DOMAIN kept' = SchemaNames
        BY <2>3 DEF SchemaInv
    <2>6. \A s \in SchemaNames : kept[s] # {} => history[s] \subseteq history'[s]
        BY <2>4 DEF SchemaInv, Settled
    <2>7. ASSUME NEW s \in SchemaNames, kept'[s] # kept[s]
          PROVE  s \in DOMAIN history' /\ kept'[s] \subseteq history'[s] /\ Makers(s) = {}
        <3>1. s = n /\ Makers(n) = {} /\ kept'[n] = kept[n] \cup {result}
            BY <2>3, <2>7 DEF SchemaInv
        <3>2. kept[n] \subseteq history[n]
            BY DEF SchemaInv, Settled
        <3> QED BY <2>1, <2>4, <3>1, <3>2
    <2>8. Idle.at = "idle"
        BY DEF Idle
    <2> QED BY <2>3, <2>4, <2>5, <2>6, <2>7, <2>8, ListsGrow DEF SchemaInv
<1>8. CASE CloseSchemas
    BY <1>8 DEF CloseSchemas, SchemaInv, AllIdle, Idle, Recording, Settled
<1>9. CASE UNCHANGED schemaVars
    BY <1>9 DEF schemaVars, SchemaInv, Recording, Settled, Makers
<1> QED BY <1>1, <1>2, <1>3, <1>4, <1>5, <1>6, <1>7, <1>8, <1>9 DEF SchemaNext

\* The fields that clients define and the values they send: a type may have any
\* name, a bound is a number or none, null and absent are what they are
\* (FieldSchema).
DataAreTyped ==
  LET Kind == UNION {Kinds[k] : k \in DOMAIN Kinds}
      Value == [kind : Kind, size : Int]
  IN  /\ DataValues \subseteq Value \cup {Absent, Null}
      /\ SchemaFields \subseteq
           [type : DOMAIN Lowered, required : BOOLEAN, min_length : Int, max_length : Int,
            minimum : Int, maximum : Int, pattern : SUBSET Int, enum : SUBSET Value]

LEMMA FieldsAgree ==
    ASSUME DataAreTyped, NEW f \in SchemaFields, NEW v \in DataValues \ {Null}, ~Blurred(f, v)
    PROVE  /\ JsonAccepts(f, v) /\ f.pattern = {} => Accepts(f, v)
           /\ f.type \in PlainTypes /\ Accepts(f, v) =>
                JsonAccepts(f, v) /\ OpenApiAccepts(f, v)
<1> DEFINE Kind == {"str", "int", "float", "bool", "list", "dict"}
           Value == [kind : Kind, size : Int]
<1>1. DOMAIN Kinds = Kind /\ UNION {Kinds[k] : k \in DOMAIN Kinds} = Kind
    BY DEF Kinds
<1>2. v \in Value \cup {Absent}
    BY <1>1 DEF DataAreTyped
<1>3. f.required \in BOOLEAN /\ f.enum \subseteq Value
    BY <1>1 DEF DataAreTyped
<1>4. CASE v = Absent
    BY <1>4 DEF Absent, Accepts, JsonAccepts, OpenApiAccepts, Missing, JsonNumbers
<1>5. CASE v \in Value
    <2>1. v.kind \in Kind /\ ~Missing(v) /\ v # Absent
        BY <1>5 DEF Missing, Absent
    <2>2. ASSUME f.type \in PlainTypes
          PROVE  TypeFits(f, v) <=> JsonTypeFits(f, v)
        <3>1. f.type \in Kind /\ Lowered[f.type] = f.type
            BY <1>1, <2>2, LoweredAssumption DEF PlainTypes
        <3> QED BY <2>1, <3>1
                DEF TypeFits, JsonTypeFits, JsonType, JsonNames, PlainTypes, Kinds, JsonKinds,
                    JsonNumbers, Blurred
    <2>a. ASSUME f.type \notin PlainTypes, JsonTypeFits(f, v)
          PROVE  TypeFits(f, v)
        <3>1. f.type \in DOMAIN JsonKinds /\ Lowered[f.type] = f.type
            BY <2>a, LoweredAssumption DEF JsonTypeFits, JsonType
        <3> QED BY <2>a, <3>1 DEF TypeFits
    <2>3. EnumFits(f, v) <=> (f.enum # {} => \E e \in f.enum : SameJsonValue(e, v))
        <3> SUFFICES ASSUME NEW e \in f.enum
                     PROVE  SamePythonValue(e, v) <=> SameJsonValue(e, v)
            BY DEF EnumFits
        <3>1. ~(v.kind = "bool" /\ e.kind \in JsonNumbers) /\ ~(v.kind \in JsonNumbers /\ e.kind = "bool")
            BY DEF Blurred
        <3>2. e = [kind |-> e.kind, size |-> e.size] /\ v = [kind |-> v.kind, size |-> v.size]
            BY <1>3, <1>5
        <3> QED BY <3>1, <3>2 DEF SamePythonValue, SameJsonValue, Numbers, JsonNumbers
    <2>4. RangeFits(f, v) <=>
            (v.kind \in JsonNumbers => /\ f.minimum # NoLimit => v.size >= f.minimum
                                       /\ f.maximum # NoLimit => v.size <= f.maximum)
        BY DEF RangeFits, Numbers, JsonNumbers, Blurred
    <2> QED BY <2>1, <2>2, <2>a, <2>3, <2>4
            DEF Accepts, JsonAccepts, OpenApiAccepts, StringFits
<1> QED BY <1>2, <1>4, <1>5

\* Results that were kept once are kept for good, whatever becomes of the schema
\* (pydantic_bridge.py, schema_validate).
THEOREM ResultsAreKept == SchemaSpec => []SettledIsKept
<1>1. SchemaInv => SettledIsKept
    BY DEF SchemaInv, Settled, SettledIsKept
<1> QED BY <1>1, SchemaInvInit, SchemaInvNext, PTL DEF SchemaSpec

\* The schemas generated from a definition with a plain type accept what
\* validation accepts, and the JSON Schema of any definition no more than
\* validation does, but for what the property excepts
\* (pydantic_bridge.py, _generate_json and _generate_openapi).
THEOREM GeneratedSchemasAgree == ASSUME DataAreTyped PROVE SchemaSpec => []SchemasAgree
<1>1. SchemaInv => SchemasAgree
    <2> SUFFICES ASSUME SchemaInv, NEW n \in DOMAIN schemas, NEW x \in DOMAIN schemas[n],
                        NEW v \in DataValues \ {Null}, ~Blurred(schemas[n][x], v)
                 PROVE  LET f == schemas[n][x] IN
                        /\ JsonAccepts(f, v) /\ f.pattern = {} => Accepts(f, v)
                        /\ f.type \in PlainTypes /\ Accepts(f, v) =>
                             JsonAccepts(f, v) /\ OpenApiAccepts(f, v)
        BY DEF SchemasAgree
    <2>1. PICK f \in SchemaFields : f = schemas[n][x]
        BY DEF SchemaInv
    <2> QED BY <2>1, FieldsAgree
<1> QED BY <1>1, SchemaInvInit, SchemaInvNext, PTL DEF SchemaSpec

---------------------------------------------------------------------------
(* MCP: the history holds calls that were made, with a level each.         *)

ToolCalls ==
  [at : {"enter", "list", "record"}, call : Nat, chain : Chains, level : Nat \ {0},
   deepest : Nat, names : SUBSET (BuiltIns \cup CustomTools)]

Numbered(c, n) == c # Idle => c \in ToolCalls /\ c.call \in 1 .. n

ToolInv ==
  /\ ToolTypeOK
  /\ called \in Nat
  /\ tools = [n \in DOMAIN tools |-> tools[n]]
  /\ toolCall = [t \in Threads |-> toolCall[t]]
  /\ \A t \in Threads : Numbered(toolCall[t], called)

LEMMA ToolInvInit == ToolInit => ToolInv
<1> SUFFICES ASSUME ToolInit PROVE ToolInv
    OBVIOUS
<1>1. << >> \in Seq((1 .. called) \X Nat)
    OBVIOUS
<1>2. ToolTypeOK
    BY <1>1 DEF ToolInit, ToolTypeOK
<1>3. called \in Nat /\ tools = [n \in DOMAIN tools |-> tools[n]]
    BY DEF ToolInit
<1>4. /\ toolCall = [t \in Threads |-> toolCall[t]]
      /\ \A t \in Threads : Numbered(toolCall[t], called)
    BY DEF ToolInit, AllIdle, Numbered
<1> QED BY <1>2, <1>3, <1>4 DEF ToolInv

LEMMA SeqOfMore ==
    ASSUME NEW m \in Nat, NEW n \in Nat, m <= n, NEW s \in Seq((1 .. m) \X Nat)
    PROVE  s \in Seq((1 .. n) \X Nat)
<1>1. PICK k \in Nat : s \in [1 .. k -> (1 .. m) \X Nat]
    BY SMT
<1>2. \A i \in 1 .. k : s[i] \in (1 .. n) \X Nat
    BY <1>1
<1>3. s \in [1 .. k -> (1 .. n) \X Nat]
    BY <1>1, <1>2
<1> QED BY <1>3

\* The next step of the request of thread t, the tools staying as they are.
LEMMA OneToolCallMoves ==
    ASSUME ToolInv, NEW t \in Threads, NEW c, toolCall' = [toolCall EXCEPT ![t] = c],
           UNCHANGED <<tools, called>>, Numbered(c, called),
           toolEvents' \in Seq((1 .. called) \X Nat)
    PROVE  ToolInv'
<1>1. ToolTypeOK'
    BY DEF ToolInv, ToolTypeOK
<1>2. /\ toolCall' = [s \in Threads |-> toolCall'[s]]
      /\ \A s \in Threads : Numbered(toolCall'[s], called)
    BY DEF ToolInv
<1> QED BY <1>1, <1>2 DEF ToolInv

LEMMA GoingUp ==
    ASSUME ToolInv, NEW t \in Threads, toolCall[t] # Idle, GoUp(t)
    PROVE  toolCall' = [toolCall EXCEPT ![t] = Above(t)] /\ Numbered(Above(t), called)
<1>1. toolCall[t] \in ToolCalls /\ toolCall[t].call \in 1 .. called
    BY DEF ToolInv, Numbered
<1>2. toolCall' = [toolCall EXCEPT ![t] = Above(t)]
    BY DEF GoUp
<1>3. CASE toolCall[t].level = 1
    BY <1>2, <1>3 DEF Above, Numbered
<1>4. CASE toolCall[t].level # 1
    <2> DEFINE d == IF toolCall[t].deepest = 0 THEN toolCall[t].level - 1 ELSE toolCall[t].deepest
               u == [toolCall[t] EXCEPT !.at = "record", !.level = toolCall[t].level - 1]
               v == [u EXCEPT !.names = {}, !.deepest = d]
    <2>1. toolCall[t].level - 1 \in Nat \ {0} /\ d \in Nat
        BY <1>1, <1>4 DEF ToolCalls
    <2> HIDE DEF d
    <2>2. u \in ToolCalls /\ u.call = toolCall[t].call
        BY <1>1, <2>1 DEF ToolCalls
    <2> HIDE DEF u
    <2>3. v \in ToolCalls /\ v.call = toolCall[t].call
        BY <2>1, <2>2 DEF ToolCalls
    <2>4. Above(t) = v
        BY <1>1, <1>4 DEF Above, u, d, ToolCalls
    <2> HIDE DEF v
    <2> QED BY <1>1, <1>2, <2>3, <2>4 DEF Numbered
<1> QED BY <1>2, <1>3, <1>4

LEMMA ToolInvNext == ToolInv /\ [ToolNext]_toolVars => ToolInv'
<1> SUFFICES ASSUME ToolInv, [ToolNext]_toolVars
             PROVE  ToolInv'
    OBVIOUS
<1> USE DEF At
<1>e. toolEvents \in Seq((1 .. called) \X Nat)
    BY DEF ToolInv, ToolTypeOK
<1>a. ASSUME NEW t \in Threads, toolCall[t].at # "idle"
      PROVE  /\ toolCall[t] \in ToolCalls /\ toolCall[t].call \in 1 .. called /\ toolCall[t] # Idle
             /\ toolCall[t].level \in Nat
    BY <1>a DEF ToolInv, Numbered, Idle, ToolCalls
<1>1. CASE InitTools
    BY <1>1, CustomAssumption DEF InitTools, ToolInv, ToolTypeOK
<1>2. CASE CloseTools
    BY <1>2 DEF CloseTools, ToolInv, ToolTypeOK
<1>3. ASSUME NEW t \in Threads, NEW n \in BuiltIns \cup CustomTools, RegisterTool(t, n)
      PROVE  ToolInv'
    BY <1>3 DEF RegisterTool, Put, ToolInv, ToolTypeOK
<1>4. ASSUME NEW t \in Threads, NEW chain \in Chains, StartCall(t, chain)
      PROVE  ToolInv'
    <2> DEFINE c == [at |-> "enter", call |-> called + 1, chain |-> chain, level |-> 1,
                     deepest |-> 0, names |-> {}]
    <2>1. called' = called + 1 /\ called \in Nat /\ UNCHANGED <<tools, toolEvents>>
          /\ toolCall' = [toolCall EXCEPT ![t] = c]
        BY <1>4 DEF StartCall, ToolInv
    <2>2. Numbered(c, called')
        BY <2>1 DEF Numbered, ToolCalls
    <2> HIDE DEF c
    <2>3. toolEvents' \in Seq((1 .. called') \X Nat)
        BY <1>e, <2>1, SeqOfMore
    <2>4. \A s \in Threads : Numbered(toolCall[s], called) => Numbered(toolCall[s], called')
        BY <2>1 DEF Numbered
    <2>5. \A s \in Threads : Numbered(toolCall'[s], called')
        BY <2>1, <2>2, <2>4 DEF ToolInv
    <2>6. ToolTypeOK'
        BY <2>1, <2>3 DEF ToolInv, ToolTypeOK
    <2>7. toolCall' = [s \in Threads |-> toolCall'[s]]
        BY <2>1 DEF ToolInv
    <2> QED BY <2>1, <2>5, <2>6, <2>7 DEF ToolInv
<1>5. ASSUME NEW t \in Threads, Descend(t)
      PROVE  ToolInv'
    <2> DEFINE c == [toolCall[t] EXCEPT !.level = @ + 1]
    <2>1. toolCall' = [toolCall EXCEPT ![t] = c] /\ UNCHANGED <<tools, toolEvents, called>>
        BY <1>5 DEF Descend
    <2>2. Numbered(c, called)
        BY <1>5, <1>a DEF Descend, Numbered, ToolCalls
    <2> HIDE DEF c
    <2> QED BY <1>e, <2>1, <2>2, OneToolCallMoves
<1>6. ASSUME NEW t \in Threads, RefuseTool(t) \/ HandlerRaises(t) \/ ListRaises(t)
      PROVE  ToolInv'
    <2>1. GoUp(t) /\ toolCall[t].at # "idle" /\ UNCHANGED <<tools, toolEvents, called>>
        BY <1>6 DEF RefuseTool, HandlerRaises, ListRaises
    <2>2. toolCall' = [toolCall EXCEPT ![t] = Above(t)] /\ Numbered(Above(t), called)
        BY <1>a, <2>1, GoingUp
    <2> QED BY <1>e, <2>1, <2>2, OneToolCallMoves
<1>7. ASSUME NEW t \in Threads, RunLookup(t) \/ EndList(t)
      PROVE  ToolInv'
    <2>1. /\ toolCall' = [toolCall EXCEPT ![t] = Ran(t)] /\ UNCHANGED <<tools, toolEvents, called>>
          /\ toolCall[t].at # "idle"
        BY <1>7 DEF RunLookup, EndList
    <2>2. Numbered(Ran(t), called)
        BY <1>a, <2>1 DEF Ran, Numbered, ToolCalls
    <2> QED BY <1>e, <2>1, <2>2, OneToolCallMoves
<1>8. ASSUME NEW t \in Threads, StartList(t)
      PROVE  ToolInv'
    <2> DEFINE c == [toolCall[t] EXCEPT !.at = "list", !.names = DOMAIN tools]
    <2>1. toolCall' = [toolCall EXCEPT ![t] = c] /\ UNCHANGED <<tools, toolEvents, called>>
        BY <1>8 DEF StartList
    <2>2. DOMAIN tools \subseteq BuiltIns \cup CustomTools /\ toolCall[t].at = "enter"
        BY <1>8 DEF ToolInv, ToolTypeOK, StartList
    <2>3. Numbered(c, called)
        BY <1>a, <2>2 DEF Numbered, ToolCalls
    <2> HIDE DEF c
    <2> QED BY <1>e, <2>1, <2>3, OneToolCallMoves
<1>9. ASSUME NEW t \in Threads, RecordCall(t)
      PROVE  ToolInv'
    <2>1. /\ GoUp(t) /\ toolCall[t].at # "idle" /\ UNCHANGED <<tools, called>>
          /\ toolEvents' = Append(toolEvents, <<toolCall[t].call, toolCall[t].level>>)
        BY <1>9 DEF RecordCall
    <2>2. toolCall' = [toolCall EXCEPT ![t] = Above(t)] /\ Numbered(Above(t), called)
        BY <1>a, <2>1, GoingUp
    <2>3. <<toolCall[t].call, toolCall[t].level>> \in (1 .. called) \X Nat
        BY <1>a, <2>1
    <2>4. toolEvents' \in Seq((1 .. called) \X Nat)
        BY <1>e, <2>1, <2>3
    <2> QED BY <2>1, <2>2, <2>4, OneToolCallMoves
<1>10. CASE UNCHANGED toolVars
    BY <1>10 DEF toolVars, ToolInv, ToolTypeOK
<1> QED BY <1>1, <1>2, <1>3, <1>4, <1>5, <1>6, <1>7, <1>8, <1>9, <1>10 DEF ToolNext

(* MCP: the history follows the calls. A call has a number of its own, and  *)
(* comes back only to levels above the innermost one that ran.              *)

OwnNumbers ==
  \A s, t \in Threads :
    toolCall[s] # Idle /\ toolCall[t] # Idle /\ toolCall[s].call = toolCall[t].call => s = t

\* How deep a call has been at each place.
Deep(c) ==
  /\ c.at # "record" => c.deepest = 0
  /\ c.at = "record" => c.level <= c.deepest

HistoryInv ==
  /\ ToolInv
  /\ OwnNumbers
  /\ \A t \in Threads : toolCall[t] # Idle => Deep(toolCall[t])
  /\ HistoryFollowsCalls

LEMMA HistoryInvInit == ToolInit => HistoryInv
<1> SUFFICES ASSUME ToolInit PROVE HistoryInv
    OBVIOUS
<1>1. ToolInv  BY ToolInvInit
<1>2. \A t \in Threads : toolCall[t] = Idle
    BY DEF ToolInit, AllIdle
<1> QED BY <1>1, <1>2 DEF HistoryInv, OwnNumbers, HistoryFollowsCalls

\* A call moves without recording anything.
LEMMA MovesUnrecorded ==
    ASSUME HistoryInv, ToolInv', NEW t \in Threads, toolCall[t] # Idle, NEW c,
           toolCall' = [toolCall EXCEPT ![t] = c], UNCHANGED <<toolEvents, called>>,
           c # Idle => /\ c.call = toolCall[t].call /\ Deep(c)
                       /\ LevelsBack(c) = LevelsBack(toolCall[t])
    PROVE  HistoryInv'
<1> USE DEF HistoryInv
<1>1. toolCall'[t] = c /\ \A s \in Threads \ {t} : toolCall'[s] = toolCall[s]
    BY DEF ToolInv
<1>2. OwnNumbers'
    BY <1>1 DEF OwnNumbers
<1>3. \A s \in Threads : toolCall'[s] # Idle => Deep(toolCall'[s])
    BY <1>1
<1>4. HistoryFollowsCalls'
    <2>1. ASSUME NEW s \in Threads, toolCall'[s] # Idle
          PROVE  /\ toolCall[s] # Idle /\ toolCall'[s].call = toolCall[s].call
                 /\ LevelsBack(toolCall'[s]) = LevelsBack(toolCall[s])
        BY <1>1, <2>1
    <2> QED BY <2>1 DEF HistoryFollowsCalls, RecordedOf, LevelOf
<1>5. \A s \in Threads : (toolCall[s] # Idle => Deep(toolCall[s]))'
    BY <1>3 DEF Deep
<1> QED BY <1>2, <1>4, <1>5

\* What one level up looks like, and from where it was reached.
LEMMA AboveIsHigher ==
    ASSUME ToolInv, NEW t \in Threads, toolCall[t] # Idle, Above(t) # Idle
    PROVE  /\ Above(t).at = "record" /\ Above(t).call = toolCall[t].call
           /\ Above(t).level = toolCall[t].level - 1
           /\ Above(t).deepest = IF toolCall[t].deepest = 0 THEN toolCall[t].level - 1
                                 ELSE toolCall[t].deepest
<1>1. toolCall[t] \in ToolCalls
    BY DEF ToolInv, Numbered
<1>2. toolCall[t].level # 1
    BY DEF Above
<1> QED BY <1>1, <1>2 DEF Above, ToolCalls

LEMMA HistoryInvNext == HistoryInv /\ [ToolNext]_toolVars => HistoryInv'
<1> SUFFICES ASSUME HistoryInv, [ToolNext]_toolVars PROVE HistoryInv'
    OBVIOUS
<1> USE DEF At
<1>0. ToolInv /\ ToolInv'
    BY ToolInvNext DEF HistoryInv
<1>a. ASSUME NEW t \in Threads, toolCall[t].at # "idle"
      PROVE  /\ toolCall[t] \in ToolCalls /\ toolCall[t].call \in 1 .. called /\ toolCall[t] # Idle
             /\ toolCall[t].level \in Nat \ {0} /\ toolCall[t].deepest \in Nat /\ Deep(toolCall[t])
    BY <1>0, <1>a DEF HistoryInv, ToolInv, Numbered, Idle, ToolCalls
<1>b. /\ toolEvents \in Seq((1 .. called) \X Nat) /\ called \in Nat
      /\ \A i \in DOMAIN toolEvents : toolEvents[i] \in (1 .. called) \X Nat
    BY <1>0 DEF ToolInv, ToolTypeOK
<1>1. ASSUME UNCHANGED <<toolCall, toolEvents, called>>
      PROVE  HistoryInv'
    BY <1>0, <1>1 DEF HistoryInv, OwnNumbers, Deep, HistoryFollowsCalls, RecordedOf, LevelOf, LevelsBack
<1>2. CASE CloseTools
    <2>1. \A t \in Threads : toolCall'[t] = Idle
        BY <1>2 DEF CloseTools, AllIdle
    <2> QED BY <1>0, <2>1 DEF HistoryInv, OwnNumbers, HistoryFollowsCalls
<1>3. CASE InitTools
    BY <1>1, <1>3 DEF InitTools
<1>4. ASSUME NEW t \in Threads, NEW n \in BuiltIns \cup CustomTools, RegisterTool(t, n)
      PROVE  HistoryInv'
    BY <1>1, <1>4 DEF RegisterTool
<1>5. ASSUME NEW t \in Threads, NEW chain \in Chains, StartCall(t, chain)
      PROVE  HistoryInv'
    <2> DEFINE c == [at |-> "enter", call |-> called + 1, chain |-> chain, level |-> 1,
                     deepest |-> 0, names |-> {}]
    <2>1. UNCHANGED toolEvents /\ toolCall' = [toolCall EXCEPT ![t] = c]
        BY <1>5 DEF StartCall
    <2>2. c.at = "enter" /\ c.call = called + 1 /\ c.deepest = 0
        OBVIOUS
    <2> HIDE DEF c
    <2>3. toolCall'[t] = c /\ \A s \in Threads \ {t} : toolCall'[s] = toolCall[s]
        BY <1>0, <2>1 DEF ToolInv
    <2>4. \A s \in Threads : toolCall[s] # Idle => toolCall[s].call # c.call
        <3>1. \A s \in Threads : toolCall[s] # Idle => toolCall[s].call \in 1 .. called
            BY <1>0 DEF ToolInv, Numbered
        <3> QED BY <1>b, <2>2, <3>1
    <2>5. OwnNumbers'
        BY <2>3, <2>4 DEF OwnNumbers, HistoryInv
    <2>6. \A s \in Threads : (toolCall[s] # Idle => Deep(toolCall[s]))'
        BY <2>2, <2>3 DEF Deep, HistoryInv
    <2>7. RecordedOf(called + 1) = {}
        BY <1>b DEF RecordedOf
    <2>8. HistoryFollowsCalls'
        <3>1. ASSUME NEW s \in Threads \ {t}, toolCall'[s] # Idle
              PROVE  toolCall'[s] = toolCall[s] /\ toolCall[s] # Idle
            BY <2>3, <3>1
        <3>2. RecordedOf(toolCall'[t].call) = {} /\ LevelsBack(toolCall'[t]) = {}
            BY <2>2, <2>3, <2>7 DEF LevelsBack
        <3> QED BY <2>1, <3>1, <3>2 DEF HistoryFollowsCalls, RecordedOf, LevelOf, LevelsBack, HistoryInv
    <2> QED BY <1>0, <2>5, <2>6, <2>8 DEF HistoryInv
<1>6. ASSUME NEW t \in Threads, Descend(t)
      PROVE  HistoryInv'
    <2> DEFINE c == [toolCall[t] EXCEPT !.level = @ + 1]
    <2>1. /\ toolCall' = [toolCall EXCEPT ![t] = c] /\ UNCHANGED <<toolEvents, called>>
          /\ toolCall[t].at = "enter"
        BY <1>6 DEF Descend
    <2>2. c.at = "enter" /\ c.call = toolCall[t].call /\ c.deepest = toolCall[t].deepest
        BY <1>a, <2>1 DEF ToolCalls
    <2> HIDE DEF c
    <2>3. Deep(c) /\ LevelsBack(c) = LevelsBack(toolCall[t])
        BY <1>a, <2>1, <2>2 DEF Deep, LevelsBack
    <2> QED BY <1>0, <1>a, <2>1, <2>2, <2>3, MovesUnrecorded
<1>7. ASSUME NEW t \in Threads, RefuseTool(t) \/ HandlerRaises(t) \/ ListRaises(t)
      PROVE  HistoryInv'
    <2>1. /\ GoUp(t) /\ toolCall[t].at \in {"enter", "list"} /\ UNCHANGED <<toolEvents, called>>
        BY <1>7 DEF RefuseTool, HandlerRaises, ListRaises
    <2>2. toolCall' = [toolCall EXCEPT ![t] = Above(t)]
        BY <2>1 DEF GoUp
    <2>3. ASSUME Above(t) # Idle
          PROVE  /\ Above(t).call = toolCall[t].call /\ Deep(Above(t))
                 /\ LevelsBack(Above(t)) = LevelsBack(toolCall[t])
        <3>1. /\ Above(t).at = "record" /\ Above(t).call = toolCall[t].call
              /\ Above(t).level = toolCall[t].level - 1
              /\ Above(t).deepest = toolCall[t].level - 1
              /\ toolCall[t].level \in Nat
            BY <1>0, <1>a, <2>1, <2>3, AboveIsHigher DEF Deep
        <3> QED BY <2>1, <3>1 DEF Deep, LevelsBack
    <2> QED BY <1>0, <1>a, <2>1, <2>2, <2>3, MovesUnrecorded
<1>8. ASSUME NEW t \in Threads, RunLookup(t) \/ EndList(t)
      PROVE  HistoryInv'
    <2>1. /\ toolCall' = [toolCall EXCEPT ![t] = Ran(t)] /\ UNCHANGED <<toolEvents, called>>
          /\ toolCall[t].at \in {"enter", "list"}
        BY <1>8 DEF RunLookup, EndList
    <2>2. /\ Ran(t).at = "record" /\ Ran(t).call = toolCall[t].call
          /\ Ran(t).level = toolCall[t].level /\ Ran(t).deepest = toolCall[t].level
          /\ toolCall[t].level \in Nat
        BY <1>a, <2>1 DEF Ran, ToolCalls
    <2>3. Deep(Ran(t)) /\ LevelsBack(Ran(t)) = LevelsBack(toolCall[t])
        BY <2>1, <2>2 DEF Deep, LevelsBack
    <2> QED BY <1>0, <1>a, <2>1, <2>2, <2>3, MovesUnrecorded
<1>9. ASSUME NEW t \in Threads, StartList(t)
      PROVE  HistoryInv'
    <2> DEFINE c == [toolCall[t] EXCEPT !.at = "list", !.names = DOMAIN tools]
    <2>1. /\ toolCall' = [toolCall EXCEPT ![t] = c] /\ UNCHANGED <<toolEvents, called>>
          /\ toolCall[t].at = "enter"
        BY <1>9 DEF StartList
    <2>2. c.at = "list" /\ c.call = toolCall[t].call /\ c.deepest = toolCall[t].deepest
        BY <1>a, <2>1 DEF ToolCalls
    <2> HIDE DEF c
    <2>3. Deep(c) /\ LevelsBack(c) = LevelsBack(toolCall[t])
        BY <1>a, <2>1, <2>2 DEF Deep, LevelsBack
    <2> QED BY <1>0, <1>a, <2>1, <2>2, <2>3, MovesUnrecorded
<1>10. ASSUME NEW t \in Threads, RecordCall(t)
       PROVE  HistoryInv'
    <2>0. PICK n, l, d, new : /\ n = toolCall[t].call /\ l = toolCall[t].level
                              /\ d = toolCall[t].deepest /\ new = Len(toolEvents) + 1
        OBVIOUS
    <2>1. /\ toolCall[t].at = "record" /\ UNCHANGED called
          /\ toolEvents' = Append(toolEvents, <<n, l>>)
          /\ toolCall' = [toolCall EXCEPT ![t] = Above(t)]
        BY <1>10, <2>0 DEF RecordCall, GoUp
    <2>2. l \in Nat \ {0} /\ d \in Nat /\ l <= d /\ toolCall[t] # Idle
        BY <1>a, <2>0, <2>1 DEF Deep
    <2>3. toolCall'[t] = Above(t) /\ \A s \in Threads \ {t} : toolCall'[s] = toolCall[s]
        BY <1>0, <2>1 DEF ToolInv
    <2>4. /\ DOMAIN toolEvents' = DOMAIN toolEvents \cup {new} /\ new \notin DOMAIN toolEvents
          /\ toolEvents'[new] = <<n, l>> /\ new \in Nat
          /\ \A i \in DOMAIN toolEvents : toolEvents'[i] = toolEvents[i] /\ i \in Nat /\ i < new
        BY <1>b, <2>0, <2>1
    <2>5. Above(t) # Idle => /\ Above(t).at = "record" /\ Above(t).call = n
                             /\ Above(t).level = l - 1 /\ Above(t).deepest = d
        BY <1>0, <2>0, <2>2, AboveIsHigher
    <2>6. OwnNumbers'
        BY <2>0, <2>2, <2>3, <2>5 DEF OwnNumbers, HistoryInv
    <2>7. \A s \in Threads : (toolCall[s] # Idle => Deep(toolCall[s]))'
        BY <2>2, <2>3, <2>5 DEF Deep, HistoryInv
    <2>8. /\ {LevelOf(i) : i \in RecordedOf(n)} = l + 1 .. d
          /\ \A i, j \in RecordedOf(n) : i < j => LevelOf(i) > LevelOf(j)
        BY <2>0, <2>1, <2>2 DEF HistoryInv, HistoryFollowsCalls, LevelsBack
    <2>9. /\ \A i \in DOMAIN toolEvents : LevelOf(i)' = LevelOf(i)
          /\ LevelOf(new)' = l
        BY <2>4 DEF LevelOf
    <2>10. ASSUME NEW c, c # n
           PROVE  RecordedOf(c)' = RecordedOf(c)
        BY <2>4, <2>10 DEF RecordedOf
    <2>11. RecordedOf(n)' = RecordedOf(n) \cup {new}
        BY <2>4 DEF RecordedOf
    <2>12. {LevelOf(i)' : i \in RecordedOf(n)'} = l .. d
        <3>1. \A i \in RecordedOf(n) : LevelOf(i)' = LevelOf(i)
            BY <2>9 DEF RecordedOf
        <3>2. l .. d = (l + 1 .. d) \cup {l}
            BY <2>2
        <3> QED BY <2>8, <2>9, <2>11, <3>1, <3>2
    <2>13. \A i, j \in RecordedOf(n)' : i < j => LevelOf(i)' > LevelOf(j)'
        <3> SUFFICES ASSUME NEW i \in RecordedOf(n)', NEW j \in RecordedOf(n)', i < j
                     PROVE  LevelOf(i)' > LevelOf(j)'
            OBVIOUS
        <3>1. i \in RecordedOf(n)
            <4>1. RecordedOf(n) \subseteq DOMAIN toolEvents  BY DEF RecordedOf
            <4> QED BY <2>4, <2>11, <4>1
        <3>2. i \in DOMAIN toolEvents  BY <3>1 DEF RecordedOf
        <3>3. CASE j = new
            <4>1. LevelOf(i) \in l + 1 .. d  BY <2>8, <3>1
            <4> QED BY <2>2, <2>9, <3>2, <3>3, <4>1
        <3>4. CASE j # new
            <4>1. j \in RecordedOf(n)  BY <2>11, <3>4
            <4>2. j \in DOMAIN toolEvents  BY <4>1 DEF RecordedOf
            <4> QED BY <2>8, <2>9, <3>1, <3>2, <4>1, <4>2
        <3> QED BY <3>3, <3>4
    <2>14. ASSUME NEW s \in Threads, toolCall'[s] # Idle, NEW mine, mine = RecordedOf(toolCall[s].call)'
           PROVE  /\ {LevelOf(i)' : i \in mine} = LevelsBack(toolCall[s])'
                  /\ \A i, j \in mine : i < j => LevelOf(i)' > LevelOf(j)'
        <3>1. CASE s = t
            <4>1. toolCall'[s].call = n /\ LevelsBack(toolCall[s])' = l .. d
                BY <2>2, <2>3, <2>5, <2>14, <3>1 DEF LevelsBack
            <4>2. mine = RecordedOf(n)'
                BY <2>14, <4>1 DEF RecordedOf
            <4> QED BY <2>12, <2>13, <4>1, <4>2
        <3>2. CASE s # t
            <4>1. toolCall'[s] = toolCall[s] /\ toolCall[s] # Idle
                BY <2>3, <2>14, <3>2
            <4>2. PICK c : c = toolCall[s].call /\ c # n
                BY <2>0, <2>2, <3>2, <4>1 DEF OwnNumbers, HistoryInv
            <4>3. mine = RecordedOf(c)
                <5>1. mine = RecordedOf(c)'  BY <2>14, <4>1, <4>2 DEF RecordedOf
                <5> QED BY <2>10, <4>2, <5>1
            <4>4. \A i \in mine : LevelOf(i)' = LevelOf(i)
                BY <2>9, <4>3 DEF RecordedOf
            <4>5. /\ {LevelOf(i) : i \in mine} = LevelsBack(toolCall[s])
                  /\ \A i, j \in mine : i < j => LevelOf(i) > LevelOf(j)
                BY <4>1, <4>2, <4>3 DEF HistoryInv, HistoryFollowsCalls
            <4>6. LevelsBack(toolCall[s])' = LevelsBack(toolCall[s])
                BY <4>1 DEF LevelsBack
            <4> QED BY <4>4, <4>5, <4>6
        <3> QED BY <3>1, <3>2
    <2>15. HistoryFollowsCalls'
        BY <2>14 DEF HistoryFollowsCalls
    <2> QED BY <1>0, <2>6, <2>7, <2>15 DEF HistoryInv
<1>11. CASE UNCHANGED toolVars
    BY <1>1, <1>11 DEF toolVars
<1> QED BY <1>2, <1>3, <1>4, <1>5, <1>6, <1>7, <1>8, <1>9, <1>10, <1>11 DEF ToolNext

\* The history follows the calls, whatever the threads register meanwhile.
THEOREM HistoriesFollowCalls == ToolSpec => []HistoryFollowsCalls
<1>1. HistoryInv => HistoryFollowsCalls  BY DEF HistoryInv
<1> QED BY <1>1, HistoryInvInit, HistoryInvNext, PTL DEF ToolSpec

---------------------------------------------------------------------------
(* Types. Of the forms and the schemas the invariants leave out what no    *)
(* property needs.                                                         *)

FormsKnown == DOMAIN formNamed \subseteq FormIds /\ DOMAIN forms \subseteq FormObjects

LEMMA FormsKnownNext == FormsKnown /\ [FormNext]_formVars => FormsKnown'
<1> SUFFICES ASSUME FormsKnown, [FormNext]_formVars
             PROVE  FormsKnown'
    OBVIOUS
<1>1. ASSUME NEW t \in Threads, NEW i \in FormIds, NEW fields \in FieldSets,
             InitForm(t, i, fields) \/ StartUpdate(t, i, fields)
      PROVE  FormsKnown'
    BY <1>1 DEF InitForm, StartUpdate, Put, FormsKnown
<1>2. ASSUME NEW t \in Threads, NEW i \in FormIds,
             DeleteForm(t, i) \/ \E walk \in Walks : StartWalkOf(t, i, walk)
      PROVE  FormsKnown'
    BY <1>2 DEF DeleteForm, StartWalkOf, FormsKnown
<1>3. ASSUME NEW t \in Threads,
             \/ UpdateField(t) \/ EndUpdate(t) \/ WalkRaises(t) \/ VisitField(t)
             \/ WriteBack(t) \/ RejectField(t) \/ EndOfWalk(t)
      PROVE  FormsKnown'
    <2>1. DOMAIN forms' = DOMAIN forms /\ UNCHANGED formNamed
        BY <1>3 DEF UpdateField, EndUpdate, WalkRaises, VisitField, WriteBack, RejectField, EndOfWalk
    <2> QED BY <2>1 DEF FormsKnown
<1>4. CASE CloseForms
    BY <1>4 DEF CloseForms, FormsKnown
<1>5. CASE UNCHANGED formVars
    BY <1>5 DEF formVars, FormsKnown
<1> QED BY <1>1, <1>2, <1>3, <1>4, <1>5 DEF FormNext

SchemasKnown == DOMAIN history \subseteq SchemaNames /\ validated \in Nat

LEMMA SchemasKnownNext == SchemaInv /\ SchemasKnown /\ [SchemaNext]_schemaVars => SchemasKnown'
<1> SUFFICES ASSUME SchemaInv, SchemasKnown, [SchemaNext]_schemaVars
             PROVE  SchemasKnown'
    OBVIOUS
<1>1. ASSUME NEW t \in Threads, MakeHistory(t)
      PROVE  SchemasKnown'
    <2>1. schemaCall[t].name \in SchemaNames
        BY <1>1 DEF MakeHistory, SchemaInv, Recording, At
    <2> QED BY <1>1, <2>1 DEF MakeHistory, Put, SchemasKnown
<1>2. ASSUME NEW t \in Threads, NEW n, SchemaDelete(t, n) \/ \E fields : SchemaCreate(t, n, fields)
      PROVE  SchemasKnown'
    BY <1>2 DEF SchemaCreate, SchemaDelete, SchemasKnown
<1>5. ASSUME NEW t \in Threads, NEW n, StartValidation(t, n)
      PROVE  SchemasKnown'
    BY <1>5 DEF StartValidation, SchemasKnown
<1>3. ASSUME NEW t \in Threads, SchemaGone(t) \/ Judge(t) \/ RecordValidation(t)
      PROVE  SchemasKnown'
    <2>1. DOMAIN history' = DOMAIN history /\ UNCHANGED validated
        BY <1>3 DEF SchemaGone, Judge, RecordValidation
    <2> QED BY <2>1 DEF SchemasKnown
<1>4. CASE CloseSchemas \/ UNCHANGED schemaVars
    BY <1>4 DEF CloseSchemas, schemaVars, SchemasKnown
<1> QED BY <1>1, <1>2, <1>3, <1>4, <1>5 DEF SchemaNext

IdleForms == \A t \in Threads : formCall[t].at = "idle" => formCall[t] = Idle

LEMMA IdleFormsNext == FormInv /\ IdleForms /\ [FormNext]_formVars => IdleForms'
<1> SUFFICES ASSUME FormInv, IdleForms, [FormNext]_formVars
             PROVE  IdleForms'
    OBVIOUS
<1>0. formCall = [t \in Threads |-> formCall[t]]
    BY DEF FormInv
<1>1. ASSUME NEW t \in Threads, NEW c, formCall' = [formCall EXCEPT ![t] = c],
             c.at = "idle" => c = Idle
      PROVE  IdleForms'
    BY <1>0, <1>1 DEF IdleForms
<1>2. CASE UNCHANGED formCall
    BY <1>2 DEF IdleForms
<1>3. ASSUME NEW t \in Threads, FormAnswer(t) \/ Resume(t)
      PROVE  IdleForms'
    BY <1>1, <1>3 DEF FormAnswer, Resume
<1>4. ASSUME NEW t \in Threads, NEW i \in FormIds, NEW fields \in FieldSets,
             StartUpdate(t, i, fields)
      PROVE  IdleForms'
    BY <1>1, <1>4 DEF StartUpdate
<1>5. ASSUME NEW t \in Threads, NEW i \in FormIds, NEW walk \in Walks, StartWalkOf(t, i, walk)
      PROVE  IdleForms'
    BY <1>1, <1>5 DEF StartWalkOf
<1>6. ASSUME NEW t \in Threads, VisitField(t)
      PROVE  IdleForms'
    BY <1>1, <1>6 DEF VisitField
<1>7. ASSUME NEW t \in Threads, UpdateField(t)
      PROVE  IdleForms'
    <2>1. PICK rest : formCall' = Disturbed(Form(t), [formCall EXCEPT ![t].updates = rest])
        BY <1>7 DEF UpdateField
    <2> DEFINE call == [formCall EXCEPT ![t].updates = rest]
    <2>2. formCall[t] \in [at : {"update"}, form : DOMAIN forms, updates : Fields]
        BY <1>7 DEF UpdateField, At, FormInv, FormCallOK
    <2>3. ASSUME NEW u \in Threads, u # t
          PROVE  call[u] = formCall[u]
        BY <1>0, <2>3
    <2>4. call[t].at = "update"
        BY <1>0, <2>2
    <2>5. formCall' = Disturbed(Form(t), call)
        BY <2>1
    <2> HIDE DEF call
    <2>6. ASSUME NEW u \in Threads
          PROVE  formCall'[u].at = "idle" => formCall'[u] = Idle
        <3>1. FormCallOK(u)
            BY DEF FormInv
        <3>2. CASE call[u].at \in {"walk", "visit"} /\ u # t
            <4>1. /\ formCall[u].at \in {"walk", "visit"} /\ call[u] = formCall[u]
                  /\ formCall'[u] \in {formCall[u], [formCall[u] EXCEPT !.alone = FALSE]}
                BY <2>3, <2>5, <3>2 DEF Disturbed
            <4>2. formCall'[u].at = formCall[u].at
                BY <3>1, <4>1 DEF FormCallOK
            <4> QED BY <4>1, <4>2
        <3>3. CASE call[u].at \notin {"walk", "visit"} /\ u # t
            BY <2>3, <2>5, <3>3 DEF Disturbed, IdleForms
        <3>4. CASE u = t
            BY <2>4, <2>5, <3>4 DEF Disturbed
        <3> QED BY <3>2, <3>3, <3>4
    <2> QED BY <2>6 DEF IdleForms
<1>8. ASSUME NEW t \in Threads, NEW i \in FormIds, NEW fields \in FieldSets,
             InitForm(t, i, fields) \/ DeleteForm(t, i)
      PROVE  IdleForms'
    BY <1>2, <1>8 DEF InitForm, DeleteForm
<1>9. ASSUME NEW t \in Threads, NEW i \in FormIds, DeleteForm(t, i)
      PROVE  IdleForms'
    BY <1>2, <1>9 DEF DeleteForm
<1>10. ASSUME NEW t \in Threads,
             EndUpdate(t) \/ WalkRaises(t) \/ WriteBack(t) \/ RejectField(t) \/ EndOfWalk(t)
       PROVE  IdleForms'
    BY <1>3, <1>10 DEF EndUpdate, WalkRaises, WriteBack, RejectField, EndOfWalk
<1>11. CASE CloseForms \/ UNCHANGED formVars
    BY <1>2, <1>11 DEF CloseForms, formVars
<1> QED BY <1>4, <1>5, <1>6, <1>7, <1>8, <1>9, <1>10, <1>11 DEF FormNext

LEMMA FormTypes == FormInv /\ FormsKnown /\ IdleForms => FormTypeOK
<1> SUFFICES ASSUME FormInv, FormsKnown, IdleForms PROVE FormTypeOK
    OBVIOUS
<1>1. ASSUME NEW f \in DOMAIN forms
      PROVE  /\ DOMAIN forms[f].fields \subseteq Names
             /\ \A n \in DOMAIN forms[f].fields : forms[f].fields[n] \in Values
             /\ forms[f].status \in {"draft", "submitting", "submitted", "error"}
             /\ DOMAIN asSet[f] = DOMAIN forms[f].fields /\ raced[f] \subseteq Names
    <2>1. forms[f].fields \in Fields /\ FormOK(f)
        BY DEF FormInv, FormOK, FormRecords
    <2> QED BY <2>1, FieldsAreFunctions DEF FormOK, FormRecords
<1>2. ASSUME NEW t \in Threads, formCall[t] # Idle
      PROVE  Form(t) \in DOMAIN forms
    <2>1. FormCallOK(t)
        BY DEF FormInv
    <2>2. formCall[t].at # "idle"
        BY <1>2 DEF IdleForms
    <2> QED BY <2>1, <2>2 DEF FormCallOK, Form
<1> QED BY <1>1, <1>2 DEF FormInv, FormsKnown, FormTypeOK

---------------------------------------------------------------------------
(* Side by side. *)

LEMMA BridgesStandStill ==
  /\ [BridgesNext]_bridgesVars => [ExecNext]_execVars
  /\ [BridgesNext]_bridgesVars => [FormNext]_formVars
  /\ [BridgesNext]_bridgesVars => [TeamNext]_teamVars
  /\ [BridgesNext]_bridgesVars => [CrewNext]_crewVars
  /\ [BridgesNext]_bridgesVars => [SchemaNext]_schemaVars
  /\ [BridgesNext]_bridgesVars => [ToolNext]_toolVars
BY DEF BridgesNext, bridgesVars, ServeAgentGPT, ServeAgentField, ServeMetaGPT, ServeCrewAI,
       ServePydantic, ServeMCP

\* Whichever bridge a process serves, the others stand still: a behaviour of
\* Bridges is one of every bridge (create_agentgpt_app and its siblings).
THEOREM BridgesServeAlone ==
  BridgesSpec => ExecSpec /\ FormSpec /\ TeamSpec /\ CrewSpec /\ SchemaSpec /\ ToolSpec
<1>1. BridgesInit => ExecInit /\ FormInit /\ TeamInit /\ CrewInit /\ SchemaInit /\ ToolInit
    BY DEF BridgesInit
<1> QED BY <1>1, BridgesStandStill, PTL
        DEF BridgesSpec, ExecSpec, FormSpec, TeamSpec, CrewSpec, SchemaSpec, ToolSpec

\* Every variable of every bridge keeps its type; what requests and histories
\* refer to is there, also after a bridge was closed (close of every bridge).
THEOREM TypeCorrect == BridgesSpec => []BridgesTypeOK
<1>1. ExecSpec => []ExecTypeOK
    <2>1. ExecInv => ExecTypeOK
        BY DEF ExecInv
    <2> QED BY <2>1, ExecInvInit, ExecInvNext, PTL DEF ExecSpec
<1>2. FormSpec => []FormTypeOK
    <2>1. FormInit => FormsKnown
        BY DEF FormInit, FormsKnown
    <2>2. FormInit => IdleForms
        BY DEF FormInit, IdleForms, AllIdle
    <2> QED BY <2>1, <2>2, FormTypes, FormsKnownNext, IdleFormsNext, FormInvInit, FormInvNext, PTL DEF FormSpec
<1>3. TeamSpec => []TeamTypeOK
    <2>1. TeamInv => TeamTypeOK
        BY DEF TeamInv, TeamsType, TeamCallsInv, TeamTypeOK
    <2> QED BY <2>1, TeamInvInit, TeamInvNext, PTL DEF TeamSpec
<1>4. CrewSpec => []CrewTypeOK
    <2>1. CrewInv => CrewTypeOK
        BY DEF CrewInv, CrewTypeOK, Founds
    <2> QED BY <2>1, CrewInvInit, CrewInvNext, PTL DEF CrewSpec
<1>5. SchemaSpec => []SchemaTypeOK
    <2>1. SchemaInit => SchemasKnown
        BY DEF SchemaInit, SchemasKnown
    <2>2. SchemaInv /\ SchemasKnown => SchemaTypeOK
        BY DEF SchemaInv, SchemasKnown, SchemaTypeOK
    <2> QED BY <2>1, <2>2, SchemasKnownNext, SchemaInvInit, SchemaInvNext, PTL DEF SchemaSpec
<1>6. ToolSpec => []ToolTypeOK
    <2>1. ToolInv => ToolTypeOK
        BY DEF ToolInv
    <2> QED BY <2>1, ToolInvInit, ToolInvNext, PTL DEF ToolSpec
<1>7. /\ ExecTypeOK /\ FormTypeOK /\ TeamTypeOK /\ CrewTypeOK /\ SchemaTypeOK /\ ToolTypeOK
      => BridgesTypeOK
    BY DEF BridgesTypeOK
<1> QED BY <1>1, <1>2, <1>3, <1>4, <1>5, <1>6, <1>7, BridgesServeAlone, PTL

\* What holds of each bridge alone holds of all of them: budgets, submitted
\* forms, phases, crews, kept results and histories (create_metagpt_app and its siblings).
THEOREM BridgesKeepTheirWord ==
    ASSUME DataAreTyped
    PROVE  BridgesSpec => [](/\ CompletedMeansDone /\ LateStepsBounded
                             /\ SubmittedIsValid /\ UpdatesAreKept
                             /\ PhasesCoverTeam /\ CrewsAreFresh
                             /\ SettledIsKept /\ SchemasAgree
                             /\ HistoryFollowsCalls)
<1>1. SchemaSpec => []SchemasAgree
    BY GeneratedSchemasAgree
<1> QED BY <1>1, BridgesServeAlone, CompletedExecutionsAreDone, LateStepsAreFew,
           SubmittedFormsAreValid, UpdatesStay, TeamsAreCovered, CrewsStayFresh, ResultsAreKept,
           HistoriesFollowCalls, PTL

==========================================================================
