------------------------------ MODULE Bridges ------------------------------
(***************************************************************************)
(* The runtime bridges side by side. Every create_..._app builds the app   *)
(* of one bridge, and a process serves one app: a behaviour is one of the  *)
(* bridge that its process serves, with the threads of that process.       *)
(***************************************************************************)
EXTENDS Executions, Forms, Teams, Crews, Schemas, Tools

VARIABLE bridge   \* the bridge that is served

bridgesVars == <<bridge, execVars, formVars, teamVars, crewVars, schemaVars, toolVars>>

BridgeNames == {"agentgpt", "agentfield", "metagpt", "crewai", "pydantic", "mcp"}

\* Only the CrewAI bridge looks for its framework.
BridgesInit ==
  /\ bridge \in BridgeNames
  /\ ExecInit /\ FormInit /\ TeamInit /\ CrewInit /\ SchemaInit /\ ToolInit
  /\ bridge # "crewai" => ~framework

ServeAgentGPT ==
  /\ bridge = "agentgpt" /\ ExecNext
  /\ UNCHANGED <<bridge, formVars, teamVars, crewVars, schemaVars, toolVars>>

ServeAgentField ==
  /\ bridge = "agentfield" /\ FormNext
  /\ UNCHANGED <<bridge, execVars, teamVars, crewVars, schemaVars, toolVars>>

ServeMetaGPT ==
  /\ bridge = "metagpt" /\ TeamNext
  /\ UNCHANGED <<bridge, execVars, formVars, crewVars, schemaVars, toolVars>>

ServeCrewAI ==
  /\ bridge = "crewai" /\ CrewNext
  /\ UNCHANGED <<bridge, execVars, formVars, teamVars, schemaVars, toolVars>>

ServePydantic ==
  /\ bridge = "pydantic" /\ SchemaNext
  /\ UNCHANGED <<bridge, execVars, formVars, teamVars, crewVars, toolVars>>

ServeMCP ==
  /\ bridge = "mcp" /\ ToolNext
  /\ UNCHANGED <<bridge, execVars, formVars, teamVars, crewVars, schemaVars>>

BridgesNext ==
  ServeAgentGPT \/ ServeAgentField \/ ServeMetaGPT \/ ServeCrewAI \/ ServePydantic \/ ServeMCP

BridgesSpec == BridgesInit /\ [][BridgesNext]_bridgesVars

---------------------------------------------------------------------------
\* The variables of the bridges keep their types: above all, what the requests
\* under way and the histories refer to is there, also after a bridge was closed
\* (close of every bridge).
BridgesTypeOK ==
  ExecTypeOK /\ FormTypeOK /\ TeamTypeOK /\ CrewTypeOK /\ SchemaTypeOK /\ ToolTypeOK

==========================================================================
